----------------------------- MODULE PaymentForm -----------------------------
(***************************************************************************)
(* The payments page of the front-end (payments/page.tsx) and its hook     *)
(* useIntentsQuote: a payment is entered while a live quote is fetched for *)
(* the debounced fields, the quote is ensured before the review, and what  *)
(* is proposed is a direct transfer or a transfer to the deposit address   *)
(* of a quote.  A quote waits in a ref under the key of the fields it is   *)
(* believed to be for.                                                     *)
(***************************************************************************)
EXTENDS Integers, FiniteSets, Absent

CONSTANTS
    Tokens, Addresses, Networks,  \* Networks are near.com and those of the bridge
    NearCom, NoNetwork, NoAddress,
    Kind,        \* how the treasury holds a token: "native", "ft" or "intents"
    NearFormat,  \* addresses that read as NEAR accounts, Ethereum-implicit ones excepted
    ValidFor,    \* token |-> addresses of its own chain
    Offered,     \* token |-> networks it can be sent to
    Fits,        \* address |-> networks whose addresses look like it
    Lower,       \* address |-> the address in lower case
    isConfidential,
    FirstToken,
    MaxPaymentQuotes, \* bound: quotes given
    MaxPayments       \* bound: proposals sent

ASSUME PaymentAssumption ==
    /\ NearCom \in Networks /\ NoNetwork \notin Networks /\ NoAddress \notin Addresses
    /\ FirstToken \in Tokens /\ isConfidential \in BOOLEAN
    /\ Kind \in [Tokens -> {"native", "ft", "intents"}]
    /\ ValidFor \in [Tokens -> SUBSET Addresses]
    /\ Offered \in [Tokens -> SUBSET Networks] /\ Fits \in [Addresses -> SUBSET Networks]
    /\ MaxPaymentQuotes \in Nat /\ MaxPayments \in Nat

VARIABLES
    paymentStep, \* the wizard's step
    payment,     \* the form
    settled,     \* debouncedAddress and debouncedAmount
    liveQuotes,  \* the query cache: an answer for the fields asked for
    recent,      \* fields whose answer is younger than staleTime
    failed,      \* the query on screen failed
    querying,    \* the query on screen is being fetched
    cachedQuote, \* cachedQuoteRef
    ensuring,    \* the payment ensureBeforeReview is fetching a quote for
    paying,      \* onSubmit in flight
    payments,    \* proposals whose creation was answered
    sent,        \* how many proposals the DAO has
    quoted,      \* quotes given so far
    hurried      \* history: the form was edited while its quote was ensured

paymentVars == <<paymentStep, payment, settled, liveQuotes, recent, failed, querying, cachedQuote,
                 ensuring, paying, payments, sent, quoted, hurried>>

\* The amount is only entered or not: what it is never decides anything here.
Forms == [token : Tokens, network : Networks \cup {NoNetwork},
          address : Addresses \cup {NoAddress}, amount : BOOLEAN]
FirstForm == [token |-> FirstToken, network |-> NoNetwork, address |-> NoAddress,
              amount |-> FALSE]
PaymentQuotes == [for : Forms, no : 1..MaxPaymentQuotes]

\* undefined is neither a form nor a quote, and lower case makes an address of an address.
ASSUME PaymentValuesAreDefined ==
    /\ Lower \in [Addresses -> Addresses]
    /\ None \notin Forms \cup PaymentQuotes \cup [key : Forms, quote : PaymentQuotes]

\* buildQuoteContextKey
QuoteKey(p) == [p EXCEPT !.address = IF @ = NoAddress THEN @ ELSE Lower[@]]

\* isWatchedDirectTransfer, and shouldUseDirectTransfer of onSubmit
IsDirect(p) ==
    /\ ~isConfidential /\ p.network # NearCom
    /\ p.address \in NearFormat /\ Kind[p.token] \in {"native", "ft"}

\* A NEAR token is quoted as its nep141 asset, which makes it an Intents token.
IsViaIntents(p) ==
    IF isConfidential THEN Kind[p.token] = "intents" ELSE ~IsDirect(p)

Asked(p, s) == [p EXCEPT !.address = s.address, !.amount = s.amount]

\* isQuoteReady: the fields asked for are the debounced ones.
IsReady(p, s) ==
    /\ IsViaIntents(p)
    /\ s.address \in ValidFor[p.token] /\ s.amount /\ p.network # NoNetwork

LiveOf(p, s, cache) ==
    IF IsViaIntents(p) /\ \E q \in cache : q.for = Asked(p, s)
    THEN CHOOSE q \in cache : q.for = Asked(p, s) ELSE None
Live == LiveOf(payment, settled, liveQuotes)
InSync == Asked(payment, settled) = payment

\* Mutant: a quote that is being fetched again is taken for the quote.
IsBusyLoading ==
    IsViaIntents(payment) /\ ((querying /\ Live = None) \/ ensuring # None \/ ~InSync)

\* isQuoteBusy
IsBusy == IsViaIntents(payment) /\ (querying \/ ensuring # None \/ ~InSync)

PaymentTypeOK ==
    /\ paymentStep \in {"edit", "review"}
    /\ payment \in Forms
    /\ settled \in [address : Addresses \cup {NoAddress}, amount : BOOLEAN]
    /\ recent \subseteq Forms /\ failed \in BOOLEAN /\ querying \in BOOLEAN
    /\ querying => IsReady(payment, settled)
    /\ liveQuotes \subseteq PaymentQuotes /\ \A q, r \in liveQuotes : q.for = r.for => q = r
    /\ cachedQuote = None \/ cachedQuote.quote \in PaymentQuotes
    /\ ensuring \in Forms \cup {None}
    /\ sent \in 0..MaxPayments /\ Cardinality(payments) <= sent
    /\ quoted \in 0..MaxPaymentQuotes /\ hurried \in BOOLEAN

PaymentInit ==
    /\ paymentStep = "edit"
    /\ payment = FirstForm
    /\ settled = [address |-> NoAddress, amount |-> FALSE]
    /\ liveQuotes = {}
    /\ recent = {} /\ failed = FALSE /\ querying = FALSE
    /\ cachedQuote = None
    /\ ensuring = None /\ paying = None
    /\ payments = {} /\ sent = 0
    /\ quoted = 0 /\ hurried = FALSE

-----------------------------------------------------------------------------
(* What every rendering does *)

\* useQuery: other fields are asked for unless their answer is recent; the
\* fetch for the fields left behind is aborted.
Requery ==
    LET same == /\ IsReady(payment, settled)
                /\ Asked(payment, settled) = Asked(payment', settled')
    IN  /\ failed' = (failed /\ same)
        /\ querying' = /\ IsReady(payment', settled')
                       /\ IF same THEN querying ELSE Asked(payment', settled') \notin recent

\* The two effects on cachedQuoteRef, in their order: it takes the live quote
\* under the key of the fields, and any edit of the fields empties it.
CacheLiveQuote ==
    LET live == LiveOf(payment', settled', liveQuotes')
    IN  cachedQuote' = IF payment' # payment THEN None
                       ELSE IF live = Live THEN cachedQuote
                       ELSE IF live = None THEN None
                       ELSE [key |-> QuoteKey(payment), quote |-> live]

-----------------------------------------------------------------------------
(* Step1 *)

Compatible(p) ==
    Offered[p.token] \cap (IF p.address = NoAddress THEN Networks ELSE Fits[p.address])

\* RecipientNetworkSelect drops a network that is no longer compatible.
KeepNetwork(p) ==
    IF p.network \in Compatible(p) THEN p ELSE [p EXCEPT !.network = NoNetwork]

EnterPayment(p) ==
    /\ paymentStep = "edit" /\ p # payment /\ sent < MaxPayments
    /\ \/ \E t \in Tokens : p = KeepNetwork([payment EXCEPT !.token = t])
       \/ \E a \in Addresses \cup {NoAddress} : p = KeepNetwork([payment EXCEPT !.address = a])
       \/ p = [payment EXCEPT !.amount = ~@]
       \/ \E n \in Compatible(payment) :
              payment.address # NoAddress /\ p = [payment EXCEPT !.network = n]
    /\ payment' = p
    /\ hurried' = (hurried \/ ensuring # None)
    /\ UNCHANGED <<paymentStep, settled, liveQuotes, recent, ensuring, paying, payments, sent,
                   quoted>>
    /\ Requery /\ CacheLiveQuote

SettleAddress ==
    /\ settled' = [settled EXCEPT !.address = payment.address]
    /\ settled' # settled
    /\ UNCHANGED <<paymentStep, payment, liveQuotes, recent, ensuring, paying, payments, sent,
                   quoted, hurried>>
    /\ Requery /\ CacheLiveQuote

SettleAmount ==
    /\ settled' = [settled EXCEPT !.amount = payment.amount]
    /\ settled' # settled
    /\ UNCHANGED <<paymentStep, payment, liveQuotes, recent, ensuring, paying, payments, sent,
                   quoted, hurried>>
    /\ Requery /\ CacheLiveQuote

QuoteFor(p) == [for |-> p, no |-> quoted']
GiveQuote == quoted < MaxPaymentQuotes /\ quoted' = quoted + 1

LivePaymentQuote ==
    /\ querying /\ GiveQuote
    /\ LET f == Asked(payment, settled)
       IN  /\ liveQuotes' = {q \in liveQuotes : q.for # f} \cup {QuoteFor(f)}
           /\ recent' = recent \cup {f}
    /\ querying' = FALSE /\ failed' = FALSE
    /\ UNCHANGED <<paymentStep, payment, settled, ensuring, paying, payments, sent, hurried>>
    /\ CacheLiveQuote

\* retry: false.  What was cached for these fields stays.
LivePaymentQuoteFails ==
    /\ querying
    /\ querying' = FALSE
    /\ failed' = TRUE
    /\ UNCHANGED <<paymentStep, payment, settled, liveQuotes, recent, cachedQuote, ensuring,
                   paying, payments, sent, quoted, hurried>>

\* After the default staleTime nothing is fetched until the fields change.
QuoteAges(f) ==
    /\ f \in recent
    /\ recent' = recent \ {f}
    /\ UNCHANGED <<paymentStep, payment, settled, liveQuotes, failed, querying, cachedQuote,
                   ensuring, paying, payments, sent, quoted, hurried>>

IsSaveDisabled ==
    \/ payment.address = NoAddress \/ ~payment.amount \/ payment.network = NoNetwork
    \/ IsBusy
    \/ IsViaIntents(payment) /\ failed

\* handleSave and ensureBeforeReview.
ReviewPayment ==
    /\ paymentStep = "edit" /\ ~IsSaveDisabled
    /\ hurried' = FALSE
    /\ IF IsViaIntents(payment) /\ Live = None
       THEN ensuring' = payment /\ UNCHANGED <<paymentStep, cachedQuote>>
       ELSE /\ paymentStep' = "review"
            /\ cachedQuote' = IF Live = None THEN cachedQuote
                              ELSE [key |-> QuoteKey(payment), quote |-> Live]
            /\ UNCHANGED ensuring
    /\ UNCHANGED <<payment, settled, liveQuotes, recent, failed, querying, paying, payments,
                   sent, quoted>>

\* The fields stay open while the quote is fetched, and the review opens on
\* whatever they hold by then.
QuoteEnsured ==
    /\ ensuring # None /\ GiveQuote
    /\ cachedQuote' = [key |-> QuoteKey(ensuring), quote |-> QuoteFor(ensuring)]
    /\ hurried' = (hurried \/ payment # ensuring)
    /\ ensuring' = None
    /\ paymentStep' = "review"
    /\ UNCHANGED <<payment, settled, liveQuotes, recent, failed, querying, paying, payments, sent>>

QuoteNotEnsured ==
    /\ ensuring # None
    /\ ensuring' = None
    /\ UNCHANGED <<paymentStep, payment, settled, liveQuotes, recent, failed, querying,
                   cachedQuote, paying, payments, sent, quoted, hurried>>

-----------------------------------------------------------------------------
(* Step2 and onSubmit *)

BackToPayment ==
    /\ paymentStep = "review"
    /\ paymentStep' = "edit"
    /\ UNCHANGED <<payment, settled, liveQuotes, recent, failed, querying, cachedQuote, ensuring,
                   paying, payments, sent, quoted, hurried>>

\* Mutant: the cached quote is used without asking what it is for.
CachedQuoteForAny(p) == IF cachedQuote # None THEN cachedQuote.quote ELSE None

CachedQuoteFor(p) ==
    IF cachedQuote # None /\ cachedQuote.key = QuoteKey(p) THEN cachedQuote.quote ELSE None

Shown == IF Live # None THEN Live ELSE CachedQuoteFor(payment)

\* The last keystroke is older than the debounce when the review is confirmed.
ConfirmPayment ==
    /\ paymentStep = "review" /\ paying = None /\ sent < MaxPayments
    /\ payment.address # NoAddress /\ payment.amount
    /\ InSync /\ ~querying
    /\ LET quote == IF IsViaIntents(payment) THEN CachedQuoteFor(payment) ELSE None
       IN  paying' = [form |-> payment, quote |-> quote, shown |-> Shown, hurried |-> hurried,
                      asking |-> IsViaIntents(payment) /\ quote = None]
    /\ UNCHANGED <<paymentStep, payment, settled, liveQuotes, recent, failed, querying,
                   cachedQuote, ensuring, payments, sent, quoted, hurried>>

\* Without a cached quote for the payment a fresh one is proposed unseen.
QuoteForSubmit ==
    /\ paying # None /\ paying.asking /\ GiveQuote
    /\ paying' = [paying EXCEPT !.quote = QuoteFor(paying.form), !.asking = FALSE]
    /\ UNCHANGED <<paymentStep, payment, settled, liveQuotes, recent, failed, querying,
                   cachedQuote, ensuring, payments, sent, hurried>>

\* form.reset and the wizard's first step, whatever was typed meanwhile.  The
\* wallet and the relay take longer than staleTime.
PaymentProposed ==
    /\ paying # None /\ ~paying.asking /\ recent = {}
    /\ sent' = sent + 1
    /\ payments' = payments \cup {[at |-> sent', by |-> paying]}
    /\ paying' = None
    /\ payment' = FirstForm
    /\ cachedQuote' = None
    /\ paymentStep' = "edit"
    /\ UNCHANGED <<settled, liveQuotes, recent, ensuring, quoted, hurried>>
    /\ Requery

\* No quote, a refusal of the wallet, or the answer of a proposal that landed
\* is lost: the form stays.
PaymentFails ==
    /\ paying # None
    /\ sent' \in {sent} \cup (IF paying.asking THEN {} ELSE {sent + 1})
    /\ paying' = None
    /\ UNCHANGED <<paymentStep, payment, settled, liveQuotes, recent, failed, querying,
                   cachedQuote, ensuring, payments, quoted, hurried>>

-----------------------------------------------------------------------------
PaymentNext ==
    \/ \E p \in Forms : EnterPayment(p)
    \/ SettleAddress \/ SettleAmount
    \/ LivePaymentQuote \/ LivePaymentQuoteFails
    \/ \E f \in Forms : QuoteAges(f)
    \/ ReviewPayment \/ QuoteEnsured \/ QuoteNotEnsured
    \/ BackToPayment \/ ConfirmPayment \/ QuoteForSubmit \/ PaymentProposed \/ PaymentFails

PaymentSpec == PaymentInit /\ [][PaymentNext]_paymentVars

-----------------------------------------------------------------------------
(* A payment that goes through Intents is proposed with a quote for the    *)
(* very fields that were reviewed, up to the case of the address, and with *)
(* the quote on screen unless the form was edited while a quote was        *)
(* awaited ("Cached quote + context key ... preventing stale reuse").      *)
PaymentsAreAsReviewed ==
    \A e \in payments :
        IF e.by.quote = None THEN ~IsViaIntents(e.by.form)
        ELSE /\ QuoteKey(e.by.quote.for) = QuoteKey(e.by.form)
             /\ e.by.hurried \/ e.by.quote = e.by.shown

(* No two payments are sent to the deposit address of one quote, although  *)
(* the same payment may be entered twice and its old answer is still       *)
(* cached; the retry of a payment whose answer was lost is excepted, and a *)
(* form edited while its quote was awaited.                                *)
DepositsAreUsedOnce ==
    \A d, e \in payments :
        /\ d.by.quote = e.by.quote /\ d.by.quote # None
        /\ ~d.by.hurried /\ ~e.by.hurried
        => d = e
=============================================================================
