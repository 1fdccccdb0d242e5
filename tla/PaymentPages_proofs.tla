------------------------ MODULE PaymentPages_proofs -------------------------
(***************************************************************************)
(* Proofs about the two pages that propose payments, one at a time and in  *)
(* bulk, and about how a bulk list is read; for any forms, quotes, sheets  *)
(* and lists and any number of requests.                                   *)
(***************************************************************************)
EXTENDS PaymentForm, BulkUpload, BulkParsing, Sums

-----------------------------------------------------------------------------
(* The payments page *)

IsGiven(q) == q \in PaymentQuotes /\ q.no <= quoted
UsedUp(q) == \E e \in payments : e.by.quote = q /\ ~e.by.hurried
IsCurrent(f) == \E q \in liveQuotes : q.for = f

PaymentFields ==
    /\ payment \in Forms /\ quoted \in 0..MaxPaymentQuotes
    /\ settled \in [address : Addresses \cup {NoAddress}, amount : BOOLEAN]
    /\ ensuring \in Forms \cup {None}
    /\ querying => IsReady(payment, settled)

(* Every quote was given, and the payments' quotes are past numbers.       *)
QuotesGiven ==
    /\ \A q \in liveQuotes : IsGiven(q)
    /\ cachedQuote # None => IsGiven(cachedQuote.quote)
    /\ \A e \in payments : e.by.quote # None => IsGiven(e.by.quote)

(* The cache has one answer for some fields, for an address of the token's *)
(* chain; while it is recent no payment has used it.                       *)
AnswersStandAlone ==
    /\ \A q, r \in liveQuotes : q.for = r.for => q = r
    /\ \A q \in liveQuotes : q.for.address \in ValidFor[q.for.token]
    /\ \A f \in recent : IsCurrent(f)
    /\ \A q \in liveQuotes : UsedUp(q) => q.for \notin recent

(* Fields that are ready and not being asked for have an unused answer. *)
ReadyIsAnswered ==
    IsReady(payment, settled) /\ ~querying /\ ~failed => Live # None /\ ~UsedUp(Live)

(* The cached quote's key is that of its own fields, or it is the live     *)
(* quote of fields that have not settled under the key of the form.        *)
CachedUnderItsKey ==
    cachedQuote # None =>
        \/ cachedQuote.key = QuoteKey(cachedQuote.quote.for)
        \/ Live # None /\ cachedQuote.quote = Live /\ cachedQuote.key = QuoteKey(payment)

(* A payment whose quote is being ensured has settled, and no other quote  *)
(* can come for it.                                                        *)
EnsuredIsSettled ==
    ensuring # None =>
        /\ IsViaIntents(ensuring) /\ ensuring.network # NoNetwork
        /\ ~hurried /\ payment = ensuring => InSync /\ ~querying /\ Live = None

(* What is reviewed is not edited, and its quote is unused and on screen.  *)
ReviewedIsQuoted ==
    paymentStep = "review" /\ ~hurried /\ IsViaIntents(payment) =>
        /\ ensuring = None /\ InSync /\ ~querying
        /\ cachedQuote # None /\ cachedQuote.key = QuoteKey(payment)
        /\ Live # None => cachedQuote.quote = Live
        /\ ~UsedUp(cachedQuote.quote)

PayingIsQuoted ==
    paying # None =>
        /\ paying = [form |-> paying.form, quote |-> paying.quote, shown |-> paying.shown,
                     hurried |-> paying.hurried, asking |-> paying.asking]
        /\ paying.form \in Forms /\ paying.asking \in BOOLEAN
        /\ paying.asking => paying.hurried /\ IsViaIntents(paying.form)
        /\ ~paying.asking /\ paying.quote = None => ~IsViaIntents(paying.form)
        /\ paying.quote # None =>
              /\ IsGiven(paying.quote)
              /\ QuoteKey(paying.quote.for) = QuoteKey(paying.form)
              /\ paying.hurried \/ (paying.quote = paying.shown /\ ~UsedUp(paying.quote))

PaymentInv ==
    /\ PaymentFields /\ QuotesGiven /\ AnswersStandAlone /\ ReadyIsAnswered
    /\ CachedUnderItsKey /\ EnsuredIsSettled /\ ReviewedIsQuoted /\ PayingIsQuoted
    /\ PaymentsAreAsReviewed /\ DepositsAreUsedOnce

-----------------------------------------------------------------------------
LEMMA LiveIsAnswer ==
    ASSUME NEW p, NEW s, NEW cache,
           \A q, r \in cache : q.for = r.for => q = r, None \notin cache
    PROVE  /\ LiveOf(p, s, cache) # None <=>
                 IsViaIntents(p) /\ \E q \in cache : q.for = Asked(p, s)
           /\ LiveOf(p, s, cache) # None =>
                 LiveOf(p, s, cache) \in cache /\ LiveOf(p, s, cache).for = Asked(p, s)
           /\ IsViaIntents(p) =>
                 \A q \in cache : q.for = Asked(p, s) => LiveOf(p, s, cache) = q
  <1>1. CASE IsViaIntents(p) /\ \E q \in cache : q.for = Asked(p, s)
    <2>1. LiveOf(p, s, cache) = CHOOSE q \in cache : q.for = Asked(p, s)
      BY <1>1 DEF LiveOf
    <2>2. PICK q \in cache : q.for = Asked(p, s)
      BY <1>1
    <2>3. LiveOf(p, s, cache) \in cache /\ LiveOf(p, s, cache).for = Asked(p, s)
      BY <2>1, <2>2
    <2>4. QED
      BY <1>1, <2>3
  <1>2. CASE ~(IsViaIntents(p) /\ \E q \in cache : q.for = Asked(p, s))
    <2>1. LiveOf(p, s, cache) = None
      BY <1>2 DEF LiveOf
    <2>2. QED
      BY <1>2, <2>1
  <1>3. QED
    BY <1>1, <1>2

LEMMA FormFields ==
    ASSUME NEW p \in Forms, NEW s \in [address : Addresses \cup {NoAddress}, amount : BOOLEAN]
    PROVE  /\ Asked(p, s) \in Forms
           /\ Asked(p, s).token = p.token /\ Asked(p, s).network = p.network
           /\ Asked(p, s).address = s.address /\ Asked(p, s).amount = s.amount
           /\ QuoteKey(p) \in Forms
  <1>1. /\ Asked(p, s) \in Forms
        /\ Asked(p, s).token = p.token /\ Asked(p, s).network = p.network
        /\ Asked(p, s).address = s.address /\ Asked(p, s).amount = s.amount
    BY DEF Forms, Asked
  <1>2. QuoteKey(p) \in Forms
    BY PaymentValuesAreDefined DEF Forms, QuoteKey
  <1>3. QED
    BY <1>1, <1>2

LEMMA DefinedValues ==
    /\ \A q \in PaymentQuotes : q # None /\ q.for \in Forms /\ q.no \in 1..MaxPaymentQuotes
    /\ \A f \in Forms : f # None
    /\ \A c \in [key : Forms, quote : PaymentQuotes] : c # None
  BY PaymentValuesAreDefined DEF PaymentQuotes

(* What is known of the live quote of the form in any state of the page.   *)
LEMMA LiveNow ==
    ASSUME PaymentInv, NEW p, NEW s
    PROVE  /\ LiveOf(p, s, liveQuotes) # None <=> IsViaIntents(p) /\ IsCurrent(Asked(p, s))
           /\ LiveOf(p, s, liveQuotes) # None =>
                 /\ LiveOf(p, s, liveQuotes) \in liveQuotes
                 /\ LiveOf(p, s, liveQuotes).for = Asked(p, s)
           /\ IsViaIntents(p) =>
                 \A q \in liveQuotes : q.for = Asked(p, s) => LiveOf(p, s, liveQuotes) = q
  <1>1. \A q, r \in liveQuotes : q.for = r.for => q = r
    BY DEF PaymentInv, AnswersStandAlone
  <1>2. None \notin liveQuotes
    BY DefinedValues DEF PaymentInv, QuotesGiven, IsGiven
  <1>3. QED
    BY <1>1, <1>2, LiveIsAnswer DEF IsCurrent

LEMMA PaymentInitInv == PaymentInit => PaymentInv
  <1> SUFFICES ASSUME PaymentInit PROVE PaymentInv
    OBVIOUS
  <1>1. /\ paymentStep = "edit" /\ payment = FirstForm
        /\ settled = [address |-> NoAddress, amount |-> FALSE]
        /\ liveQuotes = {} /\ recent = {} /\ failed = FALSE /\ querying = FALSE
        /\ cachedQuote = None /\ ensuring = None /\ paying = None /\ payments = {} /\ quoted = 0
    BY DEF PaymentInit
  <1>2. PaymentFields
    BY <1>1, PaymentAssumption DEF PaymentFields, Forms, FirstForm
  <1>3. ~IsReady(payment, settled)
    BY <1>1 DEF IsReady
  <1>4. QED
    BY <1>1, <1>2, <1>3 DEF PaymentInv, QuotesGiven, AnswersStandAlone, ReadyIsAnswered,
       CachedUnderItsKey, EnsuredIsSettled, ReviewedIsQuoted, PayingIsQuoted,
       PaymentsAreAsReviewed, DepositsAreUsedOnce

(* After a rendering the cached quote was given, and is under its key.     *)
LEMMA RenderedQuote ==
    ASSUME PaymentInv, CacheLiveQuote, quoted' \in Nat, quoted <= quoted',
           Live' # None => IsGiven(Live)'
    PROVE  /\ (cachedQuote # None => IsGiven(cachedQuote.quote))'
           /\ CachedUnderItsKey'
  <1>1. PICK live : live = LiveOf(payment', settled', liveQuotes')
    OBVIOUS
  <1>2. Live' = live
    BY <1>1 DEF Live
  <1>3. cachedQuote' = IF payment' # payment THEN None
                       ELSE IF live = Live THEN cachedQuote
                       ELSE IF live = None THEN None
                       ELSE [key |-> QuoteKey(payment), quote |-> live]
    BY <1>1 DEF CacheLiveQuote
  <1>4. CachedUnderItsKey /\ (cachedQuote # None => IsGiven(cachedQuote.quote)) /\ quoted \in Nat
    BY PaymentAssumption DEF PaymentInv, PaymentFields, QuotesGiven
  <1>5. \A q : IsGiven(q) => IsGiven(q)'
    BY <1>4, DefinedValues DEF IsGiven
  <1>6. CASE cachedQuote' = None
    BY <1>6 DEF CachedUnderItsKey
  <1>7. CASE cachedQuote' = cachedQuote /\ live = Live /\ payment' = payment
    BY <1>7, <1>2, <1>4, <1>5 DEF CachedUnderItsKey
  <1>8. CASE cachedQuote' = [key |-> QuoteKey(payment), quote |-> live] /\ live # None
             /\ payment' = payment
    <2>1. cachedQuote'.key = QuoteKey(payment') /\ cachedQuote'.quote = Live' /\ Live' # None
      BY <1>8, <1>2
    <2>2. QED
      BY <2>1 DEF CachedUnderItsKey
  <1>9. QED
    BY <1>3, <1>6, <1>7, <1>8

(* Entering and settling: a rendering with other fields.  The review is    *)
(* closed, or the fields had not settled.                                  *)
LEMMA FieldsInv ==
    ASSUME PaymentInv, payment' \in Forms,
           settled' \in [address : Addresses \cup {NoAddress}, amount : BOOLEAN],
           UNCHANGED <<paymentStep, liveQuotes, recent, ensuring, paying, payments, quoted>>,
           Requery, CacheLiveQuote,
           \/ payment' # payment /\ paymentStep = "edit" /\ hurried' = (hurried \/ ensuring # None)
           \/ payment' = payment /\ ~InSync /\ UNCHANGED hurried
    PROVE  PaymentInv'
  <1>0. /\ PaymentFields /\ QuotesGiven /\ AnswersStandAlone /\ ReadyIsAnswered
        /\ EnsuredIsSettled /\ ReviewedIsQuoted /\ PayingIsQuoted
        /\ PaymentsAreAsReviewed /\ DepositsAreUsedOnce
    BY DEF PaymentInv
  <1>1. PaymentFields'
    BY <1>0 DEF PaymentFields, Requery
  <1>2. Live' # None => Live' \in liveQuotes /\ Live'.for = Asked(payment', settled')
    BY LiveNow DEF Live
  <1>3. QuotesGiven' /\ CachedUnderItsKey'
    <2>1. quoted' \in Nat /\ quoted <= quoted'
      BY <1>0, PaymentAssumption DEF PaymentFields
    <2>2. Live' # None => IsGiven(Live)'
      BY <1>0, <1>2 DEF QuotesGiven, IsGiven
    <2>3. (cachedQuote # None => IsGiven(cachedQuote.quote))' /\ CachedUnderItsKey'
      BY <2>1, <2>2, RenderedQuote
    <2>4. QED
      BY <2>3, <1>0 DEF QuotesGiven, IsGiven
  <1>4. AnswersStandAlone'
    BY <1>0 DEF AnswersStandAlone, IsCurrent, UsedUp
  <1>5. ReadyIsAnswered'
    <2> SUFFICES ASSUME IsReady(payment', settled'), ~querying', ~failed'
                 PROVE  Live' # None /\ ~UsedUp(Live)'
      BY DEF ReadyIsAnswered
    <2>1. IsViaIntents(payment')
      BY DEF IsReady
    <2>2. CASE IsReady(payment, settled) /\ Asked(payment, settled) = Asked(payment', settled')
      <3>1. ~querying /\ IsViaIntents(payment)
        BY <2>2 DEF Requery, IsReady
      <3>2. CASE ~failed
        <4>1. Live # None /\ ~UsedUp(Live)
          BY <2>2, <3>1, <3>2, <1>0 DEF ReadyIsAnswered
        <4>2. Live \in liveQuotes /\ Live.for = Asked(payment', settled')
          BY <4>1, <2>2, LiveNow DEF Live
        <4>3. LiveOf(payment', settled', liveQuotes) = Live
          BY <4>2, <2>1, LiveNow
        <4>4. Live' = Live
          BY <4>3 DEF Live
        <4>5. QED
          BY <4>1, <4>4 DEF UsedUp
      <3>3. CASE failed
        BY <3>3, <2>2 DEF Requery
      <3>4. QED
        BY <3>2, <3>3
    <2>3. CASE ~(IsReady(payment, settled) /\ Asked(payment, settled) = Asked(payment', settled'))
      <3>1. Asked(payment', settled') \in recent
        BY <2>3 DEF Requery
      <3>2. PICK q \in liveQuotes : q.for = Asked(payment', settled')
        BY <3>1, <1>0 DEF AnswersStandAlone, IsCurrent
      <3>3. ~UsedUp(q)
        BY <3>1, <3>2, <1>0 DEF AnswersStandAlone
      <3>4. LiveOf(payment', settled', liveQuotes) = q /\ q # None
        BY <2>1, <3>2, LiveNow, DefinedValues, <1>0 DEF QuotesGiven, IsGiven
      <3>5. QED
        BY <3>3, <3>4 DEF Live, UsedUp
    <2>4. QED
      BY <2>2, <2>3
  <1>6. EnsuredIsSettled'
    BY <1>0 DEF EnsuredIsSettled, InSync
  <1>7. ReviewedIsQuoted'
    BY <1>0 DEF ReviewedIsQuoted, InSync
  <1>8. PayingIsQuoted' /\ PaymentsAreAsReviewed' /\ DepositsAreUsedOnce'
    BY <1>0 DEF PayingIsQuoted, IsGiven, UsedUp, PaymentsAreAsReviewed, DepositsAreUsedOnce
  <1>9. QED
    BY <1>1, <1>3, <1>4, <1>5, <1>6, <1>7, <1>8 DEF PaymentInv

(* The live quote of the fields that were asked for arrives.               *)
LEMMA LivePaymentQuoteInv ==
    ASSUME PaymentInv, LivePaymentQuote
    PROVE  PaymentInv'
  <1>0. /\ PaymentFields /\ QuotesGiven /\ AnswersStandAlone /\ ReadyIsAnswered
        /\ EnsuredIsSettled /\ ReviewedIsQuoted /\ PayingIsQuoted
        /\ PaymentsAreAsReviewed /\ DepositsAreUsedOnce
    BY DEF PaymentInv
  <1>1. PICK f : f = Asked(payment, settled)
    OBVIOUS
  <1>2. PICK q : q = [for |-> f, no |-> quoted + 1]
    OBVIOUS
  <1>3. /\ querying /\ quoted < MaxPaymentQuotes /\ quoted' = quoted + 1
        /\ liveQuotes' = {r \in liveQuotes : r.for # f} \cup {q} /\ recent' = recent \cup {f}
        /\ querying' = FALSE /\ failed' = FALSE /\ CacheLiveQuote
        /\ UNCHANGED <<paymentStep, payment, settled, ensuring, paying, payments, hurried>>
    BY <1>1, <1>2 DEF LivePaymentQuote, GiveQuote, QuoteFor
  <1>4. /\ quoted \in Nat /\ quoted + 1 \in 1..MaxPaymentQuotes /\ f \in Forms
        /\ q \in PaymentQuotes /\ q.for = f /\ q.no = quoted + 1 /\ q # None
    <2>1. quoted \in Nat /\ quoted + 1 \in 1..MaxPaymentQuotes
      BY <1>0, <1>3, PaymentAssumption DEF PaymentFields
    <2>2. f \in Forms
      BY <1>0, <1>1, FormFields DEF PaymentFields
    <2>3. q \in PaymentQuotes /\ q.for = f /\ q.no = quoted + 1
      BY <2>1, <2>2, <1>2 DEF PaymentQuotes
    <2>4. QED
      BY <2>1, <2>2, <2>3, DefinedValues
  <1>5. \A r : IsGiven(r) => IsGiven(r)' /\ r # q
    BY <1>3, <1>4, DefinedValues DEF IsGiven
  <1>6. IsGiven(q)' /\ ~UsedUp(q)
    BY <1>3, <1>4, <1>5, <1>0 DEF IsGiven, UsedUp, QuotesGiven
  <1>7. \A r \in liveQuotes' : r \in liveQuotes \/ r = q
    BY <1>3
  <1>8. PaymentFields'
    <2>1. quoted' \in 0..MaxPaymentQuotes
      BY <1>3, <1>4
    <2>2. QED
      BY <2>1, <1>0, <1>3 DEF PaymentFields
  <1>9. IsReady(payment, settled) /\ IsViaIntents(payment) /\ f.address \in ValidFor[f.token]
    BY <1>0, <1>1, <1>3, FormFields DEF PaymentFields, IsReady
  <1>10. AnswersStandAlone'
    <2>1. \A r \in liveQuotes' : r.for = f => r = q
      BY <1>3, <1>4
    <2>2. \A r, t \in liveQuotes' : r.for = t.for => r = t
      BY <2>1, <1>4, <1>7, <1>0 DEF AnswersStandAlone
    <2>3. \A r \in liveQuotes' : r.for.address \in ValidFor[r.for.token]
      BY <1>4, <1>7, <1>9, <1>0 DEF AnswersStandAlone
    <2>4. \A g \in recent' : IsCurrent(g)'
      <3> SUFFICES ASSUME NEW g \in recent' PROVE \E r \in liveQuotes' : r.for = g
        BY DEF IsCurrent
      <3>1. CASE g = f
        BY <3>1, <1>3, <1>4
      <3>2. CASE g # f
        <4>1. PICK r \in liveQuotes : r.for = g
          BY <3>2, <1>3, <1>0 DEF AnswersStandAlone, IsCurrent
        <4>2. QED
          BY <4>1, <3>2, <1>3
      <3>3. QED
        BY <3>1, <3>2
    <2>5. \A r \in liveQuotes' : UsedUp(r)' => r.for \notin recent'
      <3> SUFFICES ASSUME NEW r \in liveQuotes', UsedUp(r) PROVE r.for \notin recent'
        BY <1>3 DEF UsedUp
      <3>1. r # q /\ r \in liveQuotes
        BY <1>6, <1>7
      <3>2. r.for # f /\ r.for \notin recent
        BY <3>1, <2>1, <1>0 DEF AnswersStandAlone
      <3>3. QED
        BY <3>2, <1>3
    <2>6. QED
      BY <2>2, <2>3, <2>4, <2>5 DEF AnswersStandAlone
  <1>11. Live' = q
    <2>1. /\ \A r, t \in liveQuotes' : r.for = t.for => r = t
          /\ q \in liveQuotes' /\ q.for = Asked(payment', settled') /\ IsViaIntents(payment')
      BY <1>1, <1>3, <1>4, <1>9, <1>10 DEF AnswersStandAlone
    <2>2. None \notin liveQuotes'
      BY <1>4, <1>7, <1>0, DefinedValues DEF QuotesGiven, IsGiven
    <2>3. LiveOf(payment', settled', liveQuotes') = q
      BY <2>1, <2>2, LiveIsAnswer
    <2>4. QED
      BY <2>3 DEF Live
  <1>12. QuotesGiven' /\ CachedUnderItsKey'
    <2>1. quoted' \in Nat /\ quoted <= quoted'
      BY <1>3, <1>4
    <2>2. Live' # None => IsGiven(Live)'
      BY <1>6, <1>11 DEF IsGiven
    <2>3. (cachedQuote # None => IsGiven(cachedQuote.quote))' /\ CachedUnderItsKey'
      BY <1>3, <2>1, <2>2, RenderedQuote
    <2>4. \A r \in liveQuotes' : IsGiven(r)'
      BY <1>5, <1>6, <1>7, <1>0 DEF QuotesGiven
    <2>5. \A e \in payments' : e.by.quote # None => IsGiven(e.by.quote)'
      BY <1>3, <1>5, <1>0 DEF QuotesGiven
    <2>6. QED
      BY <2>3, <2>4, <2>5 DEF QuotesGiven
  <1>13. ReadyIsAnswered'
    BY <1>3, <1>4, <1>6, <1>11 DEF ReadyIsAnswered, UsedUp
  <1>14. EnsuredIsSettled' /\ ReviewedIsQuoted'
    <2>1. ensuring # None => hurried \/ payment # ensuring
      BY <1>3, <1>0 DEF EnsuredIsSettled
    <2>2. ~(paymentStep = "review" /\ ~hurried /\ IsViaIntents(payment))
      BY <1>3, <1>0 DEF ReviewedIsQuoted
    <2>3. QED
      BY <2>1, <2>2, <1>3, <1>0 DEF EnsuredIsSettled, ReviewedIsQuoted
  <1>15. PayingIsQuoted'
    BY <1>3, <1>5, <1>0 DEF PayingIsQuoted, UsedUp
  <1>16. PaymentsAreAsReviewed' /\ DepositsAreUsedOnce'
    BY <1>3, <1>0 DEF PaymentsAreAsReviewed, DepositsAreUsedOnce
  <1>17. QED
    BY <1>8, <1>10, <1>12, <1>13, <1>14, <1>15, <1>16 DEF PaymentInv

(* A review is opened, or its quote is asked for.                          *)
LEMMA ReviewPaymentInv ==
    ASSUME PaymentInv, ReviewPayment
    PROVE  PaymentInv'
  <1>0. /\ PaymentFields /\ QuotesGiven /\ AnswersStandAlone /\ ReadyIsAnswered
        /\ CachedUnderItsKey /\ EnsuredIsSettled /\ ReviewedIsQuoted /\ PayingIsQuoted
        /\ PaymentsAreAsReviewed /\ DepositsAreUsedOnce
    BY DEF PaymentInv
  <1>1. /\ paymentStep = "edit" /\ hurried' = FALSE
        /\ payment.address # NoAddress /\ payment.amount /\ payment.network # NoNetwork
        /\ IsViaIntents(payment) => ~querying /\ ensuring = None /\ InSync /\ ~failed
        /\ UNCHANGED <<payment, settled, liveQuotes, recent, failed, querying, paying, payments,
                       quoted>>
    BY DEF ReviewPayment, IsSaveDisabled, IsBusy
  <1>2. Live' = Live /\ InSync' = InSync
    BY <1>1 DEF Live, InSync
  <1>3. /\ PaymentFields' <=> ensuring' \in Forms \cup {None}
        /\ AnswersStandAlone' /\ ReadyIsAnswered' /\ PayingIsQuoted'
        /\ PaymentsAreAsReviewed' /\ DepositsAreUsedOnce'
    BY <1>0, <1>1, <1>2 DEF PaymentFields, AnswersStandAlone, IsCurrent, UsedUp, ReadyIsAnswered,
       PayingIsQuoted, IsGiven, PaymentsAreAsReviewed, DepositsAreUsedOnce
  <1>4. CASE IsViaIntents(payment) /\ Live = None
    <2>1. ensuring' = payment /\ UNCHANGED <<paymentStep, cachedQuote>>
      BY <1>4 DEF ReviewPayment
    <2>2. QED
      BY <2>1, <1>0, <1>1, <1>2, <1>3, <1>4
      DEF PaymentInv, PaymentFields, QuotesGiven, IsGiven, CachedUnderItsKey, EnsuredIsSettled,
          ReviewedIsQuoted
  <1>5. CASE ~IsViaIntents(payment)
    <2>1. Live = None
      BY <1>5, LiveNow DEF Live
    <2>2. paymentStep' = "review" /\ UNCHANGED <<cachedQuote, ensuring>>
      BY <1>5, <2>1 DEF ReviewPayment
    <2>3. ensuring # None => payment # ensuring
      BY <1>5, <1>0 DEF EnsuredIsSettled
    <2>4. EnsuredIsSettled'
      BY <2>2, <2>3, <1>0, <1>1 DEF EnsuredIsSettled
    <2>5. QED
      BY <2>2, <2>4, <1>0, <1>1, <1>2, <1>3, <1>5
      DEF PaymentInv, PaymentFields, QuotesGiven, IsGiven, CachedUnderItsKey, ReviewedIsQuoted
  <1>6. CASE IsViaIntents(payment) /\ Live # None
    <2>1. PICK q : q = Live
      OBVIOUS
    <2>2. /\ paymentStep' = "review" /\ UNCHANGED ensuring
          /\ cachedQuote' = [key |-> QuoteKey(payment), quote |-> q]
      BY <1>6, <2>1 DEF ReviewPayment
    <2>3. q \in liveQuotes /\ q.for = payment /\ IsGiven(q)
      BY <1>1, <1>6, <2>1, LiveNow, <1>0 DEF Live, InSync, QuotesGiven
    <2>4. IsReady(payment, settled)
      BY <1>0, <1>1, <1>6, <2>3, FormFields
      DEF AnswersStandAlone, IsReady, InSync, PaymentFields
    <2>5. ~UsedUp(q)
      BY <1>0, <1>1, <1>6, <2>1, <2>4 DEF ReadyIsAnswered
    <2>6. cachedQuote'.key = QuoteKey(payment) /\ cachedQuote'.quote = q /\ cachedQuote' # None
      <3>1. cachedQuote' \in [key : Forms, quote : PaymentQuotes]
        BY <2>2, <2>3, <1>0, FormFields DEF PaymentFields, IsGiven
      <3>2. QED
        BY <3>1, <2>2, DefinedValues
    <2>7. QuotesGiven' /\ CachedUnderItsKey'
      BY <2>3, <2>6, <1>0, <1>1 DEF QuotesGiven, IsGiven, CachedUnderItsKey
    <2>8. ReviewedIsQuoted'
      BY <2>1, <2>2, <2>5, <2>6, <1>1, <1>2, <1>6 DEF ReviewedIsQuoted, UsedUp
    <2>9. QED
      BY <2>2, <2>7, <2>8, <1>0, <1>1, <1>3, <1>6 DEF PaymentInv, PaymentFields, EnsuredIsSettled
  <1>7. QED
    BY <1>4, <1>5, <1>6

(* The quote that was ensured arrives, for the fields it was asked for.    *)
LEMMA QuoteEnsuredInv ==
    ASSUME PaymentInv, QuoteEnsured
    PROVE  PaymentInv'
  <1>0. /\ PaymentFields /\ QuotesGiven /\ AnswersStandAlone /\ ReadyIsAnswered
        /\ EnsuredIsSettled /\ PayingIsQuoted
        /\ PaymentsAreAsReviewed /\ DepositsAreUsedOnce
    BY DEF PaymentInv
  <1>1. PICK q : q = [for |-> ensuring, no |-> quoted + 1]
    OBVIOUS
  <1>2. /\ ensuring # None /\ quoted < MaxPaymentQuotes /\ quoted' = quoted + 1
        /\ cachedQuote' = [key |-> QuoteKey(ensuring), quote |-> q]
        /\ hurried' = (hurried \/ payment # ensuring)
        /\ ensuring' = None /\ paymentStep' = "review"
        /\ UNCHANGED <<payment, settled, liveQuotes, recent, failed, querying, paying, payments>>
    BY <1>1 DEF QuoteEnsured, GiveQuote, QuoteFor
  <1>3. /\ quoted \in Nat /\ quoted' \in 0..MaxPaymentQuotes /\ ensuring \in Forms
        /\ q \in PaymentQuotes /\ q.for = ensuring /\ q.no = quoted + 1
    BY <1>0, <1>1, <1>2, PaymentAssumption DEF PaymentFields, PaymentQuotes
  <1>4. \A r : IsGiven(r) => IsGiven(r)' /\ r # q
    BY <1>2, <1>3, DefinedValues DEF IsGiven
  <1>5. IsGiven(q)' /\ ~UsedUp(q)
    BY <1>2, <1>3, <1>4, <1>0, DefinedValues DEF IsGiven, UsedUp, QuotesGiven
  <1>6. cachedQuote'.key = QuoteKey(ensuring) /\ cachedQuote'.quote = q /\ cachedQuote' # None
    <2>1. cachedQuote' \in [key : Forms, quote : PaymentQuotes]
      BY <1>2, <1>3, PaymentValuesAreDefined DEF Forms, QuoteKey
    <2>2. QED
      BY <2>1, <1>2, DefinedValues
  <1>7. Live' = Live /\ InSync' = InSync
    BY <1>2 DEF Live, InSync
  <1>8. /\ PaymentFields' /\ AnswersStandAlone' /\ ReadyIsAnswered' /\ EnsuredIsSettled'
        /\ PaymentsAreAsReviewed' /\ DepositsAreUsedOnce'
    BY <1>0, <1>2, <1>3, <1>7 DEF PaymentFields, AnswersStandAlone, IsCurrent, UsedUp,
       ReadyIsAnswered, EnsuredIsSettled, PaymentsAreAsReviewed, DepositsAreUsedOnce
  <1>9. QuotesGiven' /\ CachedUnderItsKey' /\ PayingIsQuoted'
    <2>1. QuotesGiven'
      BY <1>0, <1>2, <1>4, <1>5, <1>6 DEF QuotesGiven
    <2>2. CachedUnderItsKey'
      BY <1>3, <1>6 DEF CachedUnderItsKey
    <2>3. PayingIsQuoted'
      BY <1>0, <1>2, <1>4 DEF PayingIsQuoted, UsedUp
    <2>4. QED
      BY <2>1, <2>2, <2>3
  <1>10. ReviewedIsQuoted'
    BY <1>0, <1>2, <1>5, <1>6, <1>7 DEF ReviewedIsQuoted, EnsuredIsSettled, UsedUp
  <1>11. QED
    BY <1>8, <1>9, <1>10 DEF PaymentInv

(* The review is confirmed: the payment takes the quote that is kept for   *)
(* it, which is the quote on screen.                                       *)
LEMMA ConfirmPaymentInv ==
    ASSUME PaymentInv, ConfirmPayment
    PROVE  PaymentInv'
  <1>0. /\ PaymentFields /\ QuotesGiven /\ AnswersStandAlone /\ ReadyIsAnswered
        /\ CachedUnderItsKey /\ EnsuredIsSettled /\ ReviewedIsQuoted
        /\ PaymentsAreAsReviewed /\ DepositsAreUsedOnce
    BY DEF PaymentInv
  <1>1. PICK quote : quote = IF IsViaIntents(payment) THEN CachedQuoteFor(payment) ELSE None
    OBVIOUS
  <1>2. /\ paymentStep = "review" /\ InSync
        /\ paying' = [form |-> payment, quote |-> quote, shown |-> Shown, hurried |-> hurried,
                      asking |-> IsViaIntents(payment) /\ quote = None]
        /\ UNCHANGED <<paymentStep, payment, settled, liveQuotes, recent, failed, querying,
                       cachedQuote, ensuring, payments, quoted, hurried>>
    BY <1>1 DEF ConfirmPayment
  <1>3. /\ paying'.form = payment /\ paying'.quote = quote /\ paying'.shown = Shown
        /\ paying'.hurried = hurried
        /\ paying'.asking = (IsViaIntents(payment) /\ quote = None)
    BY <1>2
  <1>4. quote # None => /\ cachedQuote # None /\ quote = cachedQuote.quote
                        /\ cachedQuote.key = QuoteKey(payment) /\ IsViaIntents(payment)
    BY <1>1 DEF CachedQuoteFor
  <1>5. quote # None => IsGiven(quote) /\ QuoteKey(quote.for) = QuoteKey(payment)
    <2>1. Live # None => Live.for = payment
      BY <1>2, LiveNow DEF Live, InSync
    <2>2. QED
      BY <2>1, <1>4, <1>0 DEF QuotesGiven, CachedUnderItsKey
  <1>6. ~hurried /\ IsViaIntents(payment) => quote # None /\ quote = Shown /\ ~UsedUp(quote)
    <2> SUFFICES ASSUME ~hurried, IsViaIntents(payment)
                 PROVE  quote # None /\ quote = Shown /\ ~UsedUp(quote)
      OBVIOUS
    <2>1. /\ cachedQuote # None /\ cachedQuote.key = QuoteKey(payment)
          /\ (Live # None => cachedQuote.quote = Live) /\ ~UsedUp(cachedQuote.quote)
      BY <1>0, <1>2 DEF ReviewedIsQuoted
    <2>2. CachedQuoteFor(payment) = cachedQuote.quote /\ quote = cachedQuote.quote
      BY <2>1, <1>1 DEF CachedQuoteFor
    <2>3. quote # None
      BY <2>1, <2>2, <1>0, DefinedValues DEF QuotesGiven, IsGiven
    <2>4. QED
      BY <2>1, <2>2, <2>3 DEF Shown
  <1>7. PayingIsQuoted'
    <2>1. paying'.form \in Forms /\ paying'.asking \in BOOLEAN
      BY <1>0, <1>3 DEF PaymentFields
    <2>2. paying'.asking => paying'.hurried /\ IsViaIntents(paying'.form)
      BY <1>3, <1>6
    <2>3. ~paying'.asking /\ paying'.quote = None => ~IsViaIntents(paying'.form)
      BY <1>3
    <2>4. paying'.quote # None =>
            /\ IsGiven(paying'.quote) /\ QuoteKey(paying'.quote.for) = QuoteKey(paying'.form)
            /\ paying'.hurried \/ (paying'.quote = paying'.shown /\ ~UsedUp(paying'.quote))
      BY <1>3, <1>4, <1>5, <1>6
    <2>5. paying' = [form |-> paying'.form, quote |-> paying'.quote, shown |-> paying'.shown,
                     hurried |-> paying'.hurried, asking |-> paying'.asking]
      BY <1>2
    <2>6. QED
      BY <2>1, <2>2, <2>3, <2>4, <2>5, <1>2 DEF PayingIsQuoted, IsGiven, UsedUp
  <1>8. Live' = Live /\ InSync' = InSync
    BY <1>2 DEF Live, InSync
  <1>9. QED
    BY <1>0, <1>2, <1>7, <1>8 DEF PaymentInv, PaymentFields, QuotesGiven, IsGiven,
       AnswersStandAlone, IsCurrent, UsedUp, ReadyIsAnswered, CachedUnderItsKey, EnsuredIsSettled,
       ReviewedIsQuoted, PaymentsAreAsReviewed, DepositsAreUsedOnce

(* A fresh quote is proposed unseen: only when the form was edited.        *)
LEMMA QuoteForSubmitInv ==
    ASSUME PaymentInv, QuoteForSubmit
    PROVE  PaymentInv'
  <1>0. /\ PaymentFields /\ QuotesGiven /\ AnswersStandAlone /\ ReadyIsAnswered
        /\ CachedUnderItsKey /\ EnsuredIsSettled /\ ReviewedIsQuoted /\ PayingIsQuoted
        /\ PaymentsAreAsReviewed /\ DepositsAreUsedOnce
    BY DEF PaymentInv
  <1>1. PICK q : q = [for |-> paying.form, no |-> quoted + 1]
    OBVIOUS
  <1>2. /\ paying # None /\ paying.asking /\ quoted < MaxPaymentQuotes /\ quoted' = quoted + 1
        /\ paying' = [paying EXCEPT !.quote = q, !.asking = FALSE]
        /\ UNCHANGED <<paymentStep, payment, settled, liveQuotes, recent, failed, querying,
                       cachedQuote, ensuring, payments, hurried>>
    BY <1>1 DEF QuoteForSubmit, GiveQuote, QuoteFor
  <1>3. /\ quoted \in Nat /\ quoted' \in 0..MaxPaymentQuotes /\ paying.form \in Forms
        /\ q \in PaymentQuotes /\ q.for = paying.form /\ q.no = quoted + 1
    BY <1>0, <1>1, <1>2, PaymentAssumption DEF PaymentFields, PaymentQuotes, PayingIsQuoted
  <1>4. \A r : IsGiven(r) => IsGiven(r)'
    BY <1>2, <1>3, DefinedValues DEF IsGiven
  <1>5. PayingIsQuoted'
    <2>1. /\ paying = [form |-> paying.form, quote |-> paying.quote, shown |-> paying.shown,
                       hurried |-> paying.hurried, asking |-> paying.asking]
          /\ paying.hurried
      BY <1>0, <1>2 DEF PayingIsQuoted
    <2>2. paying' = [form |-> paying.form, quote |-> q, shown |-> paying.shown,
                     hurried |-> paying.hurried, asking |-> FALSE]
      BY <2>1, <1>2
    <2>3. /\ paying'.form = paying.form /\ paying'.quote = q /\ paying'.shown = paying.shown
          /\ paying'.hurried = paying.hurried /\ paying'.asking = FALSE
      BY <2>2
    <2>4. q # None /\ IsGiven(q)'
      BY <1>2, <1>3, DefinedValues DEF IsGiven
    <2>5. paying' = [form |-> paying'.form, quote |-> paying'.quote, shown |-> paying'.shown,
                     hurried |-> paying'.hurried, asking |-> paying'.asking]
      BY <2>2, <2>3
    <2>6. QED
      BY <2>1, <2>3, <2>4, <2>5, <1>3 DEF PayingIsQuoted, IsGiven
  <1>6. Live' = Live /\ InSync' = InSync
    BY <1>2 DEF Live, InSync
  <1>7. QuotesGiven' /\ PaymentFields'
    BY <1>0, <1>2, <1>3, <1>4 DEF QuotesGiven, PaymentFields
  <1>8. QED
    BY <1>0, <1>2, <1>5, <1>6, <1>7 DEF PaymentInv, AnswersStandAlone, IsCurrent, UsedUp,
       ReadyIsAnswered, CachedUnderItsKey, EnsuredIsSettled, ReviewedIsQuoted,
       PaymentsAreAsReviewed, DepositsAreUsedOnce

(* The proposal was answered: the page starts over, and the answers that   *)
(* may hold the payment's quote are no longer recent.                      *)
LEMMA PaymentProposedInv ==
    ASSUME PaymentInv, PaymentProposed
    PROVE  PaymentInv'
  <1>0. /\ PaymentFields /\ QuotesGiven /\ AnswersStandAlone /\ EnsuredIsSettled /\ PayingIsQuoted
        /\ PaymentsAreAsReviewed /\ DepositsAreUsedOnce
    BY DEF PaymentInv
  <1>1. PICK e : e = [at |-> sent + 1, by |-> paying]
    OBVIOUS
  <1>2. /\ paying # None /\ ~paying.asking /\ recent = {}
        /\ payments' = payments \cup {e} /\ e.by = paying
        /\ paying' = None /\ payment' = FirstForm /\ cachedQuote' = None /\ paymentStep' = "edit"
        /\ UNCHANGED <<settled, liveQuotes, recent, ensuring, quoted, hurried>>
        /\ Requery
    BY <1>1 DEF PaymentProposed
  <1>3. payment' \in Forms /\ payment'.network = NoNetwork
    BY <1>2, PaymentAssumption DEF FirstForm, Forms
  <1>4. ~IsReady(payment', settled')
    BY <1>3 DEF IsReady
  <1>5. ~querying'
    BY <1>2, <1>4 DEF Requery
  <1>6. PaymentFields' /\ ReadyIsAnswered'
    BY <1>0, <1>2, <1>3, <1>4, <1>5 DEF PaymentFields, ReadyIsAnswered
  <1>7. QuotesGiven'
    BY <1>0, <1>2 DEF QuotesGiven, IsGiven, PayingIsQuoted
  <1>8. AnswersStandAlone'
    BY <1>0, <1>2 DEF AnswersStandAlone
  <1>9. EnsuredIsSettled'
    <2>1. ensuring # None => payment' # ensuring
      BY <1>0, <1>3 DEF EnsuredIsSettled
    <2>2. QED
      BY <2>1, <1>0, <1>2 DEF EnsuredIsSettled
  <1>10. PaymentsAreAsReviewed'
    BY <1>0, <1>2 DEF PaymentsAreAsReviewed, PayingIsQuoted
  <1>11. DepositsAreUsedOnce'
    BY <1>0, <1>2 DEF DepositsAreUsedOnce, PayingIsQuoted, UsedUp
  <1>12. QED
    BY <1>2, <1>6, <1>7, <1>8, <1>9, <1>10, <1>11
    DEF PaymentInv, CachedUnderItsKey, ReviewedIsQuoted, PayingIsQuoted

(* Steps that answer nothing and edit nothing.                             *)
LEMMA IdlePaymentInv ==
    ASSUME PaymentInv,
           UNCHANGED <<payment, settled, liveQuotes, cachedQuote, payments, quoted, hurried>>,
           recent' \subseteq recent, paymentStep' \in {paymentStep, "edit"},
           ensuring' \in {None, ensuring}, paying' \in {None, paying},
           \/ UNCHANGED <<querying, failed>>
           \/ querying /\ querying' = FALSE /\ failed' = TRUE
    PROVE  PaymentInv'
  <1>0. /\ PaymentFields /\ QuotesGiven /\ AnswersStandAlone /\ ReadyIsAnswered
        /\ CachedUnderItsKey /\ EnsuredIsSettled /\ ReviewedIsQuoted /\ PayingIsQuoted
        /\ PaymentsAreAsReviewed /\ DepositsAreUsedOnce
    BY DEF PaymentInv
  <1>1. Live' = Live /\ InSync' = InSync
    BY DEF Live, InSync
  <1>2. PaymentFields' /\ QuotesGiven' /\ AnswersStandAlone'
    BY <1>0 DEF PaymentFields, QuotesGiven, IsGiven, AnswersStandAlone, IsCurrent, UsedUp
  <1>3. ReadyIsAnswered' /\ CachedUnderItsKey' /\ EnsuredIsSettled' /\ ReviewedIsQuoted'
    BY <1>0, <1>1 DEF ReadyIsAnswered, UsedUp, CachedUnderItsKey, EnsuredIsSettled,
       ReviewedIsQuoted
  <1>4. PayingIsQuoted' /\ PaymentsAreAsReviewed' /\ DepositsAreUsedOnce'
    BY <1>0 DEF PayingIsQuoted, IsGiven, UsedUp, PaymentsAreAsReviewed, DepositsAreUsedOnce
  <1>5. QED
    BY <1>2, <1>3, <1>4 DEF PaymentInv

LEMMA PaymentNextInv == PaymentInv /\ [PaymentNext]_paymentVars => PaymentInv'
  <1> SUFFICES ASSUME PaymentInv, [PaymentNext]_paymentVars PROVE PaymentInv'
    OBVIOUS
  <1>0. /\ payment \in Forms
        /\ settled \in [address : Addresses \cup {NoAddress}, amount : BOOLEAN]
    BY DEF PaymentInv, PaymentFields
  <1>1. ASSUME NEW p \in Forms, EnterPayment(p) PROVE PaymentInv'
    BY <1>1, <1>0, FieldsInv DEF EnterPayment
  <1>2. CASE SettleAddress
    <2>1. /\ settled' \in [address : Addresses \cup {NoAddress}, amount : BOOLEAN]
          /\ payment.address # settled.address
      BY <1>2, <1>0 DEF SettleAddress, Forms
    <2>2. ~InSync
      BY <2>1, <1>0, FormFields DEF InSync
    <2>3. QED
      BY <1>2, <1>0, <2>1, <2>2, FieldsInv DEF SettleAddress
  <1>3. CASE SettleAmount
    <2>1. /\ settled' \in [address : Addresses \cup {NoAddress}, amount : BOOLEAN]
          /\ payment.amount # settled.amount
      BY <1>3, <1>0 DEF SettleAmount, Forms
    <2>2. ~InSync
      BY <2>1, <1>0, FormFields DEF InSync
    <2>3. QED
      BY <1>3, <1>0, <2>1, <2>2, FieldsInv DEF SettleAmount
  <1>4. CASE LivePaymentQuote
    BY <1>4, LivePaymentQuoteInv
  <1>5. CASE LivePaymentQuoteFails
    BY <1>5, IdlePaymentInv DEF LivePaymentQuoteFails
  <1>6. ASSUME NEW f \in Forms, QuoteAges(f) PROVE PaymentInv'
    <2>1. recent' \subseteq recent
      BY <1>6 DEF QuoteAges
    <2>2. QED
      BY <1>6, <2>1, IdlePaymentInv DEF QuoteAges
  <1>7. CASE ReviewPayment
    BY <1>7, ReviewPaymentInv
  <1>8. CASE QuoteEnsured
    BY <1>8, QuoteEnsuredInv
  <1>9. CASE QuoteNotEnsured
    BY <1>9, IdlePaymentInv DEF QuoteNotEnsured
  <1>10. CASE BackToPayment
    BY <1>10, IdlePaymentInv DEF BackToPayment
  <1>11. CASE ConfirmPayment
    BY <1>11, ConfirmPaymentInv
  <1>12. CASE QuoteForSubmit
    BY <1>12, QuoteForSubmitInv
  <1>13. CASE PaymentProposed
    BY <1>13, PaymentProposedInv
  <1>14. CASE PaymentFails
    BY <1>14, IdlePaymentInv DEF PaymentFails
  <1>15. CASE UNCHANGED paymentVars
    BY <1>15, IdlePaymentInv DEF paymentVars
  <1>16. QED
    BY <1>1, <1>2, <1>3, <1>4, <1>5, <1>6, <1>7, <1>8, <1>9, <1>10, <1>11, <1>12, <1>13, <1>14,
       <1>15
    DEF PaymentNext

LEMMA PaymentInvHolds == PaymentSpec => []PaymentInv
  BY PaymentInitInv, PaymentNextInv, PTL DEF PaymentSpec

(* A payment that goes through Intents carries a quote for the fields that *)
(* were reviewed, and the quote on screen unless the form was edited while *)
(* a quote was awaited.                                                    *)
THEOREM PaymentsStayAsReviewed == PaymentSpec => []PaymentsAreAsReviewed
  <1>1. PaymentInv => PaymentsAreAsReviewed
    BY DEF PaymentInv
  <1>2. QED
    BY <1>1, PaymentInvHolds, PTL

(* No two answered payments go to the deposit address of one quote, unless *)
(* one of them was edited while its quote was awaited.                     *)
THEOREM DepositsStayUsedOnce == PaymentSpec => []DepositsAreUsedOnce
  <1>1. PaymentInv => DepositsAreUsedOnce
    BY DEF PaymentInv
  <1>2. QED
    BY <1>1, PaymentInvHolds, PTL

-----------------------------------------------------------------------------
(* The bulk payment page *)

Reviews == [open : BOOLEAN, rows : Payments, busy : BOOLEAN]
Checks == [rows : Payments, token : BulkTokens \cup {None}, live : BOOLEAN]
Saves == [index : Nat, edit : Edits, base : Payments]

BulkFields ==
    /\ bulkStep \in {"upload", "review", "edit"}
    /\ token \in BulkTokens \cup {None}
    /\ upload \in [csv : Texts \cup {None}, reading : Texts \cup {None}]
    /\ feeJob # None => feeJob.rows \in Payments
    /\ paymentData \in Payments
    /\ review \in Reviews /\ review.open = (bulkStep = "review")
    /\ checks \subseteq Checks
    /\ bulkStep = "edit" => editing \in [index : Nat, saving : BOOLEAN]
    /\ saves \subseteq Saves
    /\ hasty \in Nat

Rows == [to : Names, amt : Nat, bad : BOOLEAN]

LEMMA SequencesAreFunctions ==
    \A R :
        /\ \A n \in Nat : \A rows \in [1..n -> R] : rows \in Seq(R)
        /\ \A rows \in Seq(R) : \E n \in Nat : rows \in [1..n -> R] /\ Len(rows) = n
  OBVIOUS

LEMMA PaymentsAreFunctions ==
    /\ \A n \in Nat : \A rows \in [1..n -> Rows] : rows \in Payments
    /\ \A rows \in Payments : \E n \in Nat : rows \in [1..n -> Rows] /\ Len(rows) = n
  <1>1. Payments = Seq(Rows)
    BY DEF Payments, Rows
  <1>2. QED
    BY <1>1, SequencesAreFunctions

LEMMA RemoveAtPayments ==
    ASSUME NEW rows \in Payments, NEW i \in DOMAIN rows
    PROVE  /\ RemoveAt(rows, i) \in Payments
           /\ \A j \in DOMAIN RemoveAt(rows, i) : \E k \in DOMAIN rows : RemoveAt(rows, i)[j] = rows[k]
  <1> DEFINE R == Rows
  <1>1. rows \in Seq(R) /\ i \in 1..Len(rows) /\ Len(rows) \in Nat
    BY DEF Payments, Rows
  <1> HIDE DEF R
  <1>2. /\ SubSeq(rows, 1, i-1) \in Seq(R) /\ Len(SubSeq(rows, 1, i-1)) = i - 1
        /\ \A j \in 1..(i-1) : SubSeq(rows, 1, i-1)[j] = rows[j]
    BY <1>1
  <1>3. /\ SubSeq(rows, i+1, Len(rows)) \in Seq(R) /\ Len(SubSeq(rows, i+1, Len(rows))) = Len(rows) - i
        /\ \A j \in 1..(Len(rows) - i) : SubSeq(rows, i+1, Len(rows))[j] = rows[j + i]
    BY <1>1
  <1>4. PICK s, t : s = SubSeq(rows, 1, i-1) /\ t = SubSeq(rows, i+1, Len(rows))
    OBVIOUS
  <1>5. s \in Seq(R) /\ t \in Seq(R) /\ Len(s) = i - 1 /\ Len(t) = Len(rows) - i
    BY <1>2, <1>3, <1>4
  <1>6. s \o t \in Seq(R) /\ DOMAIN (s \o t) = 1..(Len(rows) - 1)
    BY <1>1, <1>5
  <1>7. ASSUME NEW j \in 1..(Len(rows) - 1) PROVE \E k \in 1..Len(rows) : (s \o t)[j] = rows[k]
    <2>1. CASE j <= i - 1
      <3>1. (s \o t)[j] = s[j]
        BY <1>1, <1>5, <2>1
      <3>2. s[j] = rows[j]
        BY <1>1, <1>2, <1>4, <2>1
      <3>3. QED
        BY <3>1, <3>2, <1>1
    <2>2. CASE j > i - 1
      <3>1. (s \o t)[j] = t[j - Len(s)] /\ j - Len(s) \in 1..(Len(rows) - i)
        BY <1>1, <1>5, <2>2
      <3>2. t[j - Len(s)] = rows[j - Len(s) + i]
        BY <1>3, <1>4, <3>1
      <3>3. j - Len(s) + i \in 1..Len(rows)
        BY <1>1, <1>5, <3>1
      <3>4. QED
        BY <3>1, <3>2, <3>3
    <2>3. i \in Int /\ j \in Int
      BY <1>1
    <2>4. j <= i - 1 \/ j > i - 1
      BY <2>3
    <2>5. QED
      BY <2>1, <2>2, <2>4, Zenon
  <1>8. RemoveAt(rows, i) = s \o t
    BY <1>4 DEF RemoveAt
  <1>9. Payments = Seq(R) /\ DOMAIN rows = 1..Len(rows)
    BY <1>1 DEF Payments, R, Rows
  <1>10. QED
    BY <1>6, <1>7, <1>8, <1>9

LEMMA FreshPayments ==
    ASSUME NEW f \in Texts PROVE Fresh(Parsed[f]) \in Payments
  <1>1. PICK ps : ps = Parsed[f]
    OBVIOUS
  <1>2. ps \in Seq([to : Names, amt : Nat \ {0}])
    BY <1>1, BulkTextsAssumption
  <1>3. PICK n \in Nat : ps \in [1..n -> [to : Names, amt : Nat \ {0}]]
    BY <1>2, SequencesAreFunctions
  <1>4. \A i \in 1..n : Pay(ps[i].to, ps[i].amt) \in Rows
    BY <1>3 DEF Pay, Rows
  <1>5. Fresh(ps) \in [1..n -> Rows]
    BY <1>3, <1>4 DEF Fresh
  <1>6. QED
    BY <1>1, <1>5, PaymentsAreFunctions

MissingMarked(rows) == \A i \in DOMAIN rows : rows[i].to \in Missing => rows[i].bad

LEMMA CheckedPayments ==
    ASSUME NEW c \in Checks, NEW reachable \in BOOLEAN
    PROVE  /\ Checked(c, reachable) \in Payments
           /\ c.token \in NearTokens => MissingMarked(Checked(c, reachable))
  <1>1. PICK rows : rows = c.rows
    OBVIOUS
  <1>2. rows \in Payments
    BY <1>1 DEF Checks
  <1>3. PICK n \in Nat : rows \in [1..n -> Rows]
    BY <1>2, PaymentsAreFunctions
  <1>4. PICK r : r = [i \in 1..n |-> [rows[i] EXCEPT !.bad = @ \/ ~reachable \/ rows[i].to \in Missing]]
    OBVIOUS
  <1>5. ASSUME NEW i \in 1..n
        PROVE  /\ r[i] \in Rows
               /\ r[i].to \in Missing => r[i].bad
    <2>1. rows[i] \in Rows
      BY <1>3
    <2>2. rows[i] = [to |-> rows[i].to, amt |-> rows[i].amt, bad |-> rows[i].bad]
      BY <2>1 DEF Rows
    <2>3. PICK b \in BOOLEAN : b = (rows[i].bad \/ ~reachable \/ rows[i].to \in Missing)
      OBVIOUS
    <2>4. r[i] = [to |-> rows[i].to, amt |-> rows[i].amt, bad |-> b]
      BY <1>4, <2>2, <2>3
    <2>5. r[i] \in Rows
      BY <2>1, <2>3, <2>4 DEF Rows
    <2>6. r[i].to = rows[i].to /\ r[i].bad = b
      BY <2>4
    <2>7. rows[i].to \in Missing => b
      BY <2>3
    <2>8. QED
      BY <2>5, <2>6, <2>7
  <1>6. r \in Payments /\ MissingMarked(r)
    BY <1>4, <1>5, PaymentsAreFunctions DEF MissingMarked
  <1>7. c.token \in NearTokens => Checked(c, reachable) = r
    BY <1>1, <1>3, <1>4 DEF Checked
  <1>8. c.token \notin NearTokens => Checked(c, reachable) = rows
    BY <1>1 DEF Checked
  <1>9. QED
    BY <1>2, <1>6, <1>7, <1>8

LEMMA AppliedPayments ==
    ASSUME NEW s \in Saves PROVE Applied(s) \in Payments
  <1>1. PICK rows, i : rows = s.base /\ i = s.index
    OBVIOUS
  <1>2. rows \in Payments /\ s.edit \in [to : Names, amt : Nat \ {0}]
    BY <1>1, BulkTextsAssumption DEF Saves
  <1>3. PICK n \in Nat : rows \in [1..n -> Rows]
    BY <1>2, PaymentsAreFunctions
  <1>4. PICK p : p = Pay(s.edit.to, s.edit.amt)
    OBVIOUS
  <1>5. p \in Rows
    BY <1>2, <1>4 DEF Pay, Rows
  <1>6. [rows EXCEPT ![i] = p] \in [1..n -> Rows]
    BY <1>3, <1>5
  <1>7. QED
    BY <1>1, <1>4, <1>6, PaymentsAreFunctions DEF Applied

LEMMA OrphanedChecks ==
    ASSUME NEW S, S \subseteq Checks
    PROVE  /\ Orphaned(S) \subseteq Checks
           /\ S = {} => Orphaned(S) = {}
  <1>1. ASSUME NEW c \in Checks PROVE [c EXCEPT !.live = FALSE] \in Checks
    BY DEF Checks
  <1>2. QED
    BY <1>1 DEF Orphaned

(* What the review step is mounted with. *)
LEMMA MountedFields ==
    ASSUME BulkFields, NEW rows \in Payments, Mount(rows)
    PROVE  /\ review' = [open |-> TRUE, rows |-> rows, busy |-> rows # << >>]
           /\ review' \in Reviews /\ review'.open = (bulkStep' = "review")
           /\ review'.rows = rows /\ bulkStep' = "review"
           /\ checks' \subseteq Checks
           /\ checks = {} =>
                 checks' \subseteq {[rows |-> rows, token |-> token, live |-> TRUE]}
                 /\ (checks' # {} => rows # << >>)
  <1>1. [rows |-> rows, token |-> token, live |-> TRUE] \in Checks
    BY DEF BulkFields, Checks
  <1>2. Orphaned(checks) \subseteq Checks /\ (checks = {} => Orphaned(checks) = {})
    BY OrphanedChecks DEF BulkFields
  <1>3. (rows # << >>) \in BOOLEAN
    OBVIOUS
  <1>4. review' \in Reviews
    BY <1>3 DEF Mount, Reviews
  <1>5. /\ bulkStep' = "review" /\ checks' \subseteq Checks
        /\ review'.open = (bulkStep' = "review") /\ review'.rows = rows
        /\ review' = [open |-> TRUE, rows |-> rows, busy |-> rows # << >>]
    BY <1>1, <1>2 DEF Mount
  <1>6. ASSUME checks = {}
        PROVE  /\ checks' \subseteq {[rows |-> rows, token |-> token, live |-> TRUE]}
               /\ checks' # {} => rows # << >>
    BY <1>2, <1>6 DEF Mount
  <1>7. QED
    BY <1>4, <1>5, <1>6

(* The count of what was started too early never falls. *)
LEMMA StillCounted ==
    ASSUME hasty \in Nat, [BulkNext]_bulkVars
    PROVE  hasty' \in Nat /\ (hasty' = 0 => hasty = 0)
  <1>1. hasty' = hasty \/ hasty' = hasty + 1
    <2>1. CASE BulkAnswer
      BY <2>1 DEF BulkAnswer, FileRead, FeeAnswer, CheckFails, CheckAnswer, SaveAnswer, ListStored,
          SubmitFails, Proposed
    <2>2. CASE \E f \in Texts : ChooseFile(f) \/ ContinueWithPaste(f)
      BY <2>2 DEF ChooseFile, ContinueWithPaste, Hurry
    <2>3. CASE (\E k \in BulkTokens : SelectToken(k)) \/ ContinueWithFile
      BY <2>3 DEF SelectToken, ContinueWithFile, Hurry
    <2>4. CASE (\E i \in DOMAIN review.rows : RemovePayment(i) \/ EditPayment(i)) \/ BackToUpload
      BY <2>4 DEF RemovePayment, EditPayment, BackToUpload, Leave, Hurry
    <2>5. CASE (\E e \in Edits : SaveEdit(e)) \/ CancelEdit \/ Submit
      BY <2>5 DEF SaveEdit, CancelEdit, Submit, Hurry
    <2>6. CASE UNCHANGED bulkVars
      BY <2>6 DEF bulkVars
    <2>7. QED
      BY <2>1, <2>2, <2>3, <2>4, <2>5, <2>6 DEF BulkNext, BulkUser
  <1>2. QED
    BY <1>1

LEMMA BulkFieldsKept == BulkFields /\ [BulkNext]_bulkVars => BulkFields'
  <1> SUFFICES ASSUME BulkFields, [BulkNext]_bulkVars PROVE BulkFields'
    OBVIOUS
  <1> USE DEF Submission, ReviewWork
  <1>0. /\ bulkStep \in {"upload", "review", "edit"} /\ token \in BulkTokens \cup {None}
        /\ upload \in [csv : Texts \cup {None}, reading : Texts \cup {None}]
        /\ feeJob # None => feeJob.rows \in Payments
        /\ paymentData \in Payments /\ review \in Reviews
        /\ review.open = (bulkStep = "review") /\ checks \subseteq Checks
        /\ bulkStep = "edit" => editing \in [index : Nat, saving : BOOLEAN]
        /\ saves \subseteq Saves /\ hasty \in Nat
    BY DEF BulkFields
  <1>h. hasty' \in Nat
    BY <1>0, StillCounted
  <1>1. CASE FileRead
    BY <1>1, <1>0, <1>h DEF FileRead, BulkFields
  <1>2. ASSUME NEW ok \in BOOLEAN, FeeAnswer(ok) PROVE BulkFields'
    <2>1. feeJob' = None /\ UNCHANGED <<token, upload, editing, saves>>
      BY <1>2 DEF FeeAnswer
    <2>2. CASE ok
      <3>1. PICK rows : rows = feeJob.rows
        OBVIOUS
      <3>2. rows \in Payments /\ paymentData' = rows /\ Mount(rows)
        BY <1>0, <1>2, <2>2, <3>1 DEF FeeAnswer, ContinueWith
      <3>3. /\ review' \in Reviews /\ review'.open = (bulkStep' = "review")
           /\ bulkStep' = "review" /\ checks' \subseteq Checks
        BY <1>0, <1>h, <2>1, <3>2, MountedFields
      <3>4. QED
        BY <1>0, <1>h, <2>1, <3>2, <3>3 DEF BulkFields
    <2>3. CASE ~ok
      BY <1>0, <1>h, <1>2, <2>1, <2>3 DEF FeeAnswer, BulkFields
    <2>4. QED
      BY <2>2, <2>3
  <1>3. ASSUME NEW c \in checks, CheckFails(c) PROVE BulkFields'
    <2>1. review' \in Reviews /\ review'.open = review.open
      BY <1>0, <1>3 DEF CheckFails, Reviews
    <2>2. QED
      BY <1>0, <1>h, <1>3, <2>1 DEF CheckFails, BulkFields
  <1>4. ASSUME NEW c \in checks, NEW reachable \in BOOLEAN, CheckAnswer(c, reachable)
        PROVE  BulkFields'
    <2>1. PICK rows : rows = Checked(c, reachable)
      OBVIOUS
    <2>2. rows \in Payments
      BY <1>0, <2>1, CheckedPayments
    <2>3. review' \in Reviews /\ review'.open = review.open
      BY <1>0, <1>4, <2>1, <2>2 DEF CheckAnswer, Reviews
    <2>4. QED
      BY <1>0, <1>h, <1>4, <2>1, <2>2, <2>3 DEF CheckAnswer, BulkFields
  <1>5. ASSUME NEW s \in saves, SaveAnswer(s) PROVE BulkFields'
    <2>1. PICK rows : rows = Applied(s)
      OBVIOUS
    <2>2. rows \in Payments
      BY <1>0, <2>1, AppliedPayments
    <2>3. /\ saves' = saves \ {s} /\ paymentData' = rows /\ editing' = None
          /\ UNCHANGED <<token, upload, feeJob>>
      BY <1>5, <2>1 DEF SaveAnswer, Save
    <2>4. CASE bulkStep = "review"
      BY <1>0, <1>h, <1>5, <2>2, <2>3, <2>4 DEF SaveAnswer, Save, BulkFields
    <2>5. CASE bulkStep # "review"
      <3>1. Mount(rows)
        BY <1>5, <2>1, <2>5 DEF SaveAnswer, Save
      <3>2. /\ review' \in Reviews /\ review'.open = (bulkStep' = "review")
           /\ bulkStep' = "review" /\ checks' \subseteq Checks
        BY <1>0, <1>h, <2>2, <2>3, <3>1, MountedFields
      <3>3. QED
        BY <1>0, <1>h, <2>2, <2>3, <3>1, <3>2 DEF BulkFields
    <2>6. QED
      BY <2>4, <2>5
  <1>6. CASE ListStored \/ SubmitFails \/ Submit
    BY <1>6, <1>0, <1>h DEF ListStored, SubmitFails, Submit, BulkFields
  <1>7. CASE Proposed
    <2>1. << >> \in Payments
      BY DEF Payments
    <2>2. NoReview \in Reviews /\ NoReview.open = FALSE
      BY <2>1 DEF NoReview, Reviews
    <2>3. upload' \in [csv : Texts \cup {None}, reading : Texts \cup {None}]
      BY <1>0, <1>7 DEF Proposed, NoUpload
    <2>4. Orphaned(checks) \subseteq Checks
      BY <1>0, OrphanedChecks
    <2>5. QED
      BY <1>0, <1>h, <1>7, <2>1, <2>2, <2>3, <2>4 DEF Proposed, BulkFields
  <1>8. ASSUME NEW f \in Texts, ChooseFile(f) PROVE BulkFields'
    BY <1>8, <1>0, <1>h DEF ChooseFile, BulkFields
  <1>9. ASSUME NEW f \in Texts, ContinueWithPaste(f) PROVE BulkFields'
    <2>1. PICK rows : rows = Fresh(Parsed[f])
      OBVIOUS
    <2>2. rows \in Payments
      BY <2>1, FreshPayments
    <2>3. UNCHANGED <<token, upload, editing, saves>>
      BY <1>9 DEF ContinueWithPaste
    <2>4. CASE token \in ChainTokens
      BY <1>0, <1>h, <1>9, <2>1, <2>2, <2>3, <2>4 DEF ContinueWithPaste, BulkFields
    <2>5. CASE token \notin ChainTokens
      <3>1. Mount(rows) /\ paymentData' = rows /\ feeJob' = feeJob
        BY <1>9, <2>1, <2>5 DEF ContinueWithPaste, ContinueWith
      <3>2. /\ review' \in Reviews /\ review'.open = (bulkStep' = "review")
           /\ bulkStep' = "review" /\ checks' \subseteq Checks
        BY <1>0, <1>h, <2>2, <2>3, <3>1, MountedFields
      <3>3. QED
        BY <1>0, <1>h, <2>2, <2>3, <3>1, <3>2 DEF BulkFields
    <2>6. QED
      BY <2>4, <2>5
  <1>10. ASSUME NEW k \in BulkTokens, SelectToken(k) PROVE BulkFields'
    BY <1>10, <1>0, <1>h DEF SelectToken, BulkFields
  <1>11. CASE ContinueWithFile
    <2>1. PICK rows : rows = Fresh(Parsed[upload.csv])
      OBVIOUS
    <2>2. upload.csv \in Texts
      BY <1>0, <1>11 DEF ContinueWithFile
    <2>3. rows \in Payments
      BY <2>1, <2>2, FreshPayments
    <2>4. /\ Mount(rows) /\ paymentData' = rows
          /\ UNCHANGED <<token, upload, feeJob, editing, saves>>
      BY <1>11, <2>1 DEF ContinueWithFile, ContinueWith
    <2>5. /\ review' \in Reviews /\ review'.open = (bulkStep' = "review")
         /\ bulkStep' = "review" /\ checks' \subseteq Checks
      BY <1>0, <1>h, <2>3, <2>4, MountedFields
    <2>6. QED
      BY <1>0, <1>h, <2>3, <2>4, <2>5 DEF BulkFields
  <1>12. ASSUME NEW i \in DOMAIN review.rows, RemovePayment(i) PROVE BulkFields'
    <2>1. PICK rows : rows = RemoveAt(review.rows, i)
      OBVIOUS
    <2>2. rows \in Payments
      BY <1>0, <2>1, RemoveAtPayments DEF Reviews
    <2>3. review' = [review EXCEPT !.rows = rows] /\ paymentData' = review'.rows
      BY <1>12, <2>1 DEF RemovePayment
    <2>4. review' \in Reviews /\ review'.open = review.open /\ review'.rows = rows
      BY <1>0, <2>2, <2>3 DEF Reviews
    <2>5. QED
      BY <1>0, <1>h, <1>12, <2>2, <2>3, <2>4 DEF RemovePayment, BulkFields
  <1>13. ASSUME NEW i \in DOMAIN review.rows, EditPayment(i) PROVE BulkFields'
    <2>1. << >> \in Payments
      BY DEF Payments
    <2>2. NoReview \in Reviews /\ NoReview.open = FALSE
      BY <2>1 DEF NoReview, Reviews
    <2>3. Orphaned(checks) \subseteq Checks
      BY <1>0, OrphanedChecks
    <2>4. editing' \in [index : Nat, saving : BOOLEAN]
      <3>1. i \in Nat
        BY <1>0, PaymentsAreFunctions DEF Reviews
      <3>2. QED
        BY <1>13, <3>1 DEF EditPayment
    <2>5. QED
      BY <1>0, <1>h, <1>13, <2>1, <2>2, <2>3, <2>4 DEF EditPayment, Leave, BulkFields
  <1>14. CASE BackToUpload
    <2>1. << >> \in Payments
      BY DEF Payments
    <2>2. NoReview \in Reviews /\ NoReview.open = FALSE
      BY <2>1 DEF NoReview, Reviews
    <2>3. Orphaned(checks) \subseteq Checks
      BY <1>0, OrphanedChecks
    <2>4. QED
      BY <1>0, <1>h, <1>14, <2>1, <2>2, <2>3 DEF BackToUpload, Leave, BulkFields
  <1>15. ASSUME NEW e \in Edits, SaveEdit(e) PROVE BulkFields'
    <2>1. PICK s : s = [index |-> editing.index, edit |-> e, base |-> paymentData]
      OBVIOUS
    <2>2. s \in Saves
      BY <1>0, <1>15, <2>1 DEF SaveEdit, Saves
    <2>3. CASE token \in FtTokens
      <3>1. /\ saves' = saves \cup {s} /\ editing' = [editing EXCEPT !.saving = TRUE]
            /\ UNCHANGED <<bulkStep, token, upload, feeJob, paymentData, review, checks>>
        BY <1>15, <2>1, <2>3 DEF SaveEdit
      <3>2. bulkStep = "edit" => editing' \in [index : Nat, saving : BOOLEAN]
        BY <1>0, <3>1
      <3>3. QED
        BY <1>0, <1>h, <2>2, <3>1, <3>2 DEF BulkFields
    <2>4. CASE token \notin FtTokens
      <3>1. PICK rows : rows = Applied(s)
        OBVIOUS
      <3>2. rows \in Payments
        BY <2>2, <3>1, AppliedPayments
      <3>3. Mount(rows) /\ paymentData' = rows /\ UNCHANGED <<token, upload, feeJob, saves>>
        BY <1>15, <2>1, <2>4, <3>1 DEF SaveEdit, Save
      <3>4. /\ review' \in Reviews /\ review'.open = (bulkStep' = "review")
           /\ bulkStep' = "review" /\ checks' \subseteq Checks
        BY <1>0, <1>h, <3>2, <3>3, MountedFields
      <3>5. QED
        BY <1>0, <1>h, <3>2, <3>3, <3>4 DEF BulkFields
    <2>5. QED
      BY <2>3, <2>4
  <1>16. CASE CancelEdit
    <2>1. Mount(paymentData) /\ UNCHANGED <<token, upload, feeJob, paymentData, saves>>
      BY <1>16 DEF CancelEdit
    <2>2. PICK rows : rows = paymentData
      OBVIOUS
    <2>3. Mount(rows) /\ rows \in Payments
      BY <1>0, <2>1, <2>2
    <2>4. /\ review' \in Reviews /\ review'.open = (bulkStep' = "review")
         /\ bulkStep' = "review" /\ checks' \subseteq Checks
      BY <1>0, <1>h, <2>1, <2>2, <2>3, MountedFields
    <2>5. QED
      BY <1>0, <1>h, <2>1, <2>2, <2>3, <2>4 DEF BulkFields
  <1>17. CASE UNCHANGED bulkVars
    BY <1>17 DEF bulkVars, BulkFields
  <1>18. QED
    BY <1>1, <1>2, <1>3, <1>4, <1>5, <1>6, <1>7, <1>8, <1>9, <1>10, <1>11, <1>12, <1>13,
       <1>14, <1>15, <1>16, <1>17
    DEF BulkNext, BulkAnswer, BulkUser

(* While the user lets every step finish, page and review show the same    *)
(* rows, one check at most is under way and it is of these rows, nothing   *)
(* is left behind by a step that is gone, and what is checked is marked.   *)
Settled ==
    /\ review.open => review.rows = paymentData
    /\ \A c \in checks : /\ c.live /\ c.token = token /\ c.rows = paymentData
                         /\ review.open /\ review.busy
    /\ feeJob # None => bulkStep = "upload"
    /\ saves # {} => bulkStep = "edit" /\ editing.saving
    /\ \A s, r \in saves : s = r
    /\ sending.stage # "idle" => bulkStep = "review" /\ ~review.busy
    /\ ~unchecked /\ review.open /\ ~review.busy /\ token \in NearTokens
          => MissingMarked(review.rows)

(* What the page sends is what the review showed then, if the user let     *)
(* every step finish; the proposal moves the total of the stored list.     *)
AsReviewed(p) ==
    p.careful => /\ p.rows = p.shown
                 /\ p.checked /\ p.token \in NearTokens
                       => \A i \in DOMAIN p.rows : p.rows[i].to \notin Missing
Funded(p) == \E l \in lists : l.id = p.id /\ p.total = Total(l.rows)
SendsAsReviewed ==
    /\ sending.stage \in {"idle", "list", "proposal"}
    /\ sending.stage # "idle" =>
         /\ sending = [stage |-> sending.stage, id |-> sending.id, rows |-> sending.rows,
                       total |-> sending.total, token |-> sending.token,
                       shown |-> sending.shown, careful |-> sending.careful,
                       checked |-> sending.checked]
         /\ AsReviewed(sending) /\ sending.total = Total(sending.rows)
    /\ sending.stage = "proposal" => Funded(sending)
    /\ \A p \in proposed : AsReviewed(p) /\ Funded(p)

BulkInv == BulkFields /\ (hasty = 0 => Settled) /\ SendsAsReviewed

(* A step that mounts the review with nothing else in flight settles.      *)
LEMMA MountSettles ==
    ASSUME BulkFields, NEW rows \in Payments, Mount(rows), checks = {}, paymentData' = rows,
           token' = token, feeJob' = None, saves' = {}, sending' = sending,
           sending.stage = "idle"
    PROVE  Settled'
  <1>1. /\ review' \in Reviews /\ review'.rows = rows /\ bulkStep' = "review"
        /\ review'.open = (bulkStep' = "review")
        /\ review' = [open |-> TRUE, rows |-> rows, busy |-> rows # << >>]
        /\ checks' \subseteq {[rows |-> rows, token |-> token, live |-> TRUE]}
        /\ checks' # {} => rows # << >>
    BY MountedFields
  <1>b. review'.open /\ (review'.busy <=> rows # << >>)
    <2>1. PICK b \in BOOLEAN : b = (rows # << >>)
      OBVIOUS
    <2>2. review' = [open |-> TRUE, rows |-> rows, busy |-> b]
      BY <1>1, <2>1
    <2>3. review'.open /\ review'.busy = b
      BY <2>2
    <2>4. QED
      BY <2>1, <2>3
  <1>2. ASSUME NEW c \in checks'
        PROVE  c.live /\ c.token = token' /\ c.rows = paymentData' /\ review'.open /\ review'.busy
    <2>1. c = [rows |-> rows, token |-> token, live |-> TRUE] /\ rows # << >>
      BY <1>1
    <2>2. review'.open /\ review'.busy
      BY <1>b, <2>1
    <2>3. QED
      BY <2>1, <2>2
  <1>3. ~review'.busy => MissingMarked(review'.rows)
    <2>1. ~review'.busy => rows = << >>
      BY <1>b
    <2>2. QED
      BY <1>1, <2>1 DEF MissingMarked
  <1>4. QED
    BY <1>1, <1>2, <1>3 DEF Settled

LEMMA SettledKept ==
    ASSUME BulkFields, Settled, [BulkNext]_bulkVars, hasty = 0, hasty' = 0
    PROVE  Settled'
  <1> USE DEF Submission, ReviewWork
  <1>0. /\ bulkStep \in {"upload", "review", "edit"}
        /\ feeJob # None => feeJob.rows \in Payments
        /\ paymentData \in Payments /\ review \in Reviews
        /\ review.open = (bulkStep = "review") /\ checks \subseteq Checks
        /\ bulkStep = "edit" => editing \in [index : Nat, saving : BOOLEAN]
        /\ saves \subseteq Saves
        /\ upload \in [csv : Texts \cup {None}, reading : Texts \cup {None}]
    BY DEF BulkFields
  <1>s. /\ review.open => review.rows = paymentData
        /\ \A c \in checks : /\ c.live /\ c.token = token /\ c.rows = paymentData
                             /\ review.open /\ review.busy
        /\ feeJob # None => bulkStep = "upload"
        /\ saves # {} => bulkStep = "edit" /\ editing.saving
        /\ \A s, r \in saves : s = r
        /\ sending.stage # "idle" => bulkStep = "review" /\ ~review.busy
        /\ ~unchecked /\ review.open /\ ~review.busy /\ token \in NearTokens
              => MissingMarked(review.rows)
    BY DEF Settled
  <1>n. NoReview.open = FALSE /\ Orphaned({}) = {}
    BY DEF NoReview, Orphaned
  <1>1. CASE FileRead
    BY <1>1, <1>s DEF FileRead, Settled
  <1>2. ASSUME NEW ok \in BOOLEAN, FeeAnswer(ok) PROVE Settled'
    <2>1. /\ feeJob # None /\ feeJob' = None /\ UNCHANGED <<token, editing, saves, sending>>
          /\ unchecked' = unchecked
      BY <1>2 DEF FeeAnswer
    <2>2. checks = {} /\ saves = {} /\ sending.stage = "idle"
      BY <1>0, <1>s, <2>1
    <2>3. CASE ok
      <3>1. PICK rows : rows = feeJob.rows
        OBVIOUS
      <3>2. rows \in Payments /\ paymentData' = rows /\ Mount(rows)
        BY <1>0, <1>2, <2>3, <3>1 DEF FeeAnswer, ContinueWith
      <3>3. QED
        BY <2>1, <2>2, <3>2, MountSettles
    <2>4. CASE ~ok
      <3>1. UNCHANGED <<bulkStep, paymentData, review, checks>>
        BY <1>2, <2>4 DEF FeeAnswer
      <3>2. QED
        BY <1>s, <2>1, <3>1 DEF Settled
    <2>5. QED
      BY <2>3, <2>4
  <1>3. ASSUME NEW c \in checks, CheckFails(c) PROVE Settled'
    <2>1. /\ checks' = checks \ {c} /\ unchecked'
          /\ review' = IF c.live THEN [review EXCEPT !.busy = FALSE] ELSE review
          /\ UNCHANGED <<bulkStep, token, feeJob, paymentData, editing, saves, sending>>
      BY <1>3 DEF CheckFails
    <2>2. c.live /\ review.open /\ review.busy
      BY <1>s
    <2>3. review'.open = review.open /\ review'.rows = review.rows /\ ~review'.busy
      BY <1>0, <2>1, <2>2 DEF Reviews
    <2>4. checks' = {}
      <3>1. ASSUME NEW d \in checks PROVE d = c
        BY <1>0, <1>s DEF Checks
      <3>2. QED
        BY <2>1, <3>1
    <2>5. QED
      BY <1>s, <2>1, <2>2, <2>3, <2>4 DEF Settled
  <1>4. ASSUME NEW c \in checks, NEW reachable \in BOOLEAN, CheckAnswer(c, reachable)
        PROVE  Settled'
    <2>1. PICK rows : rows = Checked(c, reachable)
      OBVIOUS
    <2>2. c.token \in NearTokens => MissingMarked(rows)
      BY <1>0, <2>1, CheckedPayments
    <2>3. /\ checks' = checks \ {c} /\ paymentData' = rows
          /\ review' = IF c.live THEN [review EXCEPT !.rows = rows, !.busy = FALSE] ELSE review
          /\ UNCHANGED <<bulkStep, token, feeJob, editing, saves, sending, unchecked>>
      BY <1>4, <2>1 DEF CheckAnswer
    <2>4. c.live /\ c.token = token /\ review.open /\ review.busy
      BY <1>s
    <2>5. review'.open = review.open /\ review'.rows = rows /\ ~review'.busy
      BY <1>0, <2>3, <2>4 DEF Reviews
    <2>6. checks' = {}
      <3>1. ASSUME NEW d \in checks PROVE d = c
        BY <1>0, <1>s DEF Checks
      <3>2. QED
        BY <2>3, <3>1
    <2>7. QED
      BY <1>s, <2>2, <2>3, <2>4, <2>5, <2>6 DEF Settled
  <1>5. ASSUME NEW s \in saves, SaveAnswer(s) PROVE Settled'
    <2>1. PICK rows : rows = Applied(s)
      OBVIOUS
    <2>2. rows \in Payments
      BY <1>0, <2>1, AppliedPayments
    <2>3. bulkStep = "edit" /\ checks = {} /\ sending.stage = "idle" /\ feeJob = None
      BY <1>0, <1>s
    <2>4. /\ Mount(rows) /\ saves' = saves \ {s} /\ paymentData' = rows
          /\ UNCHANGED <<token, feeJob, sending>>
      BY <1>5, <2>1, <2>3 DEF SaveAnswer, Save
    <2>5. saves' = {}
      BY <1>s, <2>4
    <2>6. QED
      BY <2>2, <2>3, <2>4, <2>5, MountSettles
  <1>6. CASE ListStored
    <2>1. /\ sending.stage # "idle"
          /\ UNCHANGED <<bulkStep, token, feeJob, paymentData, review, checks, editing, saves,
                         unchecked>>
      BY <1>6 DEF ListStored
    <2>2. QED
      BY <1>s, <2>1 DEF Settled
  <1>7. CASE SubmitFails
    <2>1. /\ sending'.stage = "idle"
          /\ UNCHANGED <<bulkStep, token, feeJob, paymentData, review, checks, editing, saves,
                         unchecked>>
      BY <1>7 DEF SubmitFails, NoSending
    <2>2. QED
      BY <1>s, <2>1 DEF Settled
  <1>8. CASE Proposed
    <2>1. bulkStep = "review" /\ ~review.busy
      BY <1>8, <1>s DEF Proposed
    <2>2. checks = {} /\ saves = {} /\ feeJob = None
      BY <1>s, <2>1
    <2>3. /\ checks' = {} /\ saves' = {} /\ feeJob' = None /\ sending'.stage = "idle"
          /\ review'.open = FALSE
      BY <1>8, <2>2, <1>n DEF Proposed, NoSending
    <2>4. QED
      BY <2>3 DEF Settled
  <1>9. ASSUME NEW f \in Texts, ChooseFile(f) PROVE Settled'
    BY <1>9, <1>s DEF ChooseFile, Settled
  <1>10. ASSUME NEW f \in Texts, ContinueWithPaste(f) PROVE Settled'
    <2>1. PICK rows : rows = Fresh(Parsed[f])
      OBVIOUS
    <2>2. rows \in Payments
      BY <2>1, FreshPayments
    <2>3. /\ bulkStep = "upload" /\ feeJob = None
          /\ UNCHANGED <<token, editing, saves, sending, unchecked>>
      BY <1>10 DEF ContinueWithPaste, CanContinue
    <2>4. checks = {} /\ saves = {} /\ sending.stage = "idle"
      BY <1>0, <1>s, <2>3
    <2>5. CASE token \in ChainTokens
      <3>1. UNCHANGED <<bulkStep, paymentData, review, checks>>
        BY <1>10, <2>5 DEF ContinueWithPaste
      <3>2. QED
        BY <1>s, <2>3, <3>1 DEF Settled
    <2>6. CASE token \notin ChainTokens
      <3>1. Mount(rows) /\ paymentData' = rows /\ feeJob' = feeJob
        BY <1>10, <2>1, <2>6 DEF ContinueWithPaste, ContinueWith
      <3>2. QED
        BY <2>2, <2>3, <2>4, <3>1, MountSettles
    <2>7. QED
      BY <2>5, <2>6
  <1>11. ASSUME NEW k \in BulkTokens, SelectToken(k) PROVE Settled'
    <2>1. bulkStep = "upload"
      BY <1>11 DEF SelectToken
    <2>2. checks = {} /\ ~review.open
      BY <1>0, <1>s, <2>1
    <2>3. QED
      BY <1>11, <1>s, <2>2 DEF SelectToken, Settled
  <1>12. CASE ContinueWithFile
    <2>1. PICK rows : rows = Fresh(Parsed[upload.csv])
      OBVIOUS
    <2>2. upload.csv \in Texts
      BY <1>0, <1>12 DEF ContinueWithFile
    <2>3. rows \in Payments
      BY <2>1, <2>2, FreshPayments
    <2>4. /\ Mount(rows) /\ paymentData' = rows /\ bulkStep = "upload" /\ feeJob = None
          /\ UNCHANGED <<token, feeJob, editing, saves, sending>>
      BY <1>12, <2>1 DEF ContinueWithFile, ContinueWith, CanContinue
    <2>5. checks = {} /\ saves = {} /\ sending.stage = "idle"
      BY <1>0, <1>s, <2>4
    <2>6. QED
      BY <2>3, <2>4, <2>5, MountSettles
  <1>13. ASSUME NEW i \in DOMAIN review.rows, RemovePayment(i) PROVE Settled'
    <2>1. PICK rows : rows = RemoveAt(review.rows, i)
      OBVIOUS
    <2>2. \A j \in DOMAIN rows : \E k \in DOMAIN review.rows : rows[j] = review.rows[k]
      BY <1>0, <2>1, RemoveAtPayments DEF Reviews
    <2>3. /\ review' = [review EXCEPT !.rows = rows] /\ paymentData' = review'.rows
          /\ review.open /\ ~review.busy
          /\ UNCHANGED <<bulkStep, token, feeJob, checks, editing, saves, sending, unchecked>>
      BY <1>13, <2>1 DEF RemovePayment
    <2>4. review'.open = review.open /\ review'.rows = rows /\ review'.busy = review.busy
      BY <1>0, <2>3 DEF Reviews
    <2>5. checks = {}
      BY <1>s, <2>3
    <2>6. MissingMarked(review.rows) => MissingMarked(rows)
      BY <2>2 DEF MissingMarked
    <2>7. QED
      BY <1>s, <2>3, <2>4, <2>5, <2>6 DEF Settled
  <1>14. ASSUME NEW step \in {"upload", "edit"}, Leave(step) PROVE Settled'
    <2>1. ~review.busy /\ sending.stage = "idle"
      BY <1>14 DEF Leave, Hurry
    <2>2. /\ review.open /\ bulkStep' = step /\ review'.open = FALSE
          /\ checks' = Orphaned(checks)
          /\ UNCHANGED <<token, feeJob, paymentData, saves, sending, unchecked>>
      BY <1>14, <1>n DEF Leave
    <2>3. checks = {} /\ saves = {} /\ feeJob = None
      BY <1>0, <1>s, <2>1, <2>2
    <2>4. checks' = {}
      BY <2>2, <2>3, <1>n
    <2>5. QED
      BY <2>1, <2>2, <2>3, <2>4 DEF Settled
  <1>15. CASE (\E i \in DOMAIN review.rows : EditPayment(i)) \/ BackToUpload
    BY <1>15, <1>14 DEF EditPayment, BackToUpload
  <1>16. ASSUME NEW e \in Edits, SaveEdit(e) PROVE Settled'
    <2>1. PICK s : s = [index |-> editing.index, edit |-> e, base |-> paymentData]
      OBVIOUS
    <2>2. s \in Saves /\ bulkStep = "edit" /\ ~editing.saving
      BY <1>0, <1>16, <2>1 DEF SaveEdit, Saves
    <2>3. checks = {} /\ saves = {} /\ sending.stage = "idle" /\ feeJob = None
      BY <1>0, <1>s, <2>2
    <2>4. CASE token \in FtTokens
      <3>1. /\ saves' = saves \cup {s} /\ editing' = [editing EXCEPT !.saving = TRUE]
            /\ UNCHANGED <<bulkStep, token, feeJob, paymentData, review, checks, sending,
                           unchecked>>
        BY <1>16, <2>1, <2>4 DEF SaveEdit
      <3>2. editing'.saving
        BY <1>0, <2>2, <3>1
      <3>3. \A r, t \in saves' : r = t
        BY <2>3, <3>1
      <3>4. QED
        BY <1>s, <2>2, <2>3, <3>1, <3>2, <3>3 DEF Settled
    <2>5. CASE token \notin FtTokens
      <3>1. PICK rows : rows = Applied(s)
        OBVIOUS
      <3>2. rows \in Payments
        BY <2>2, <3>1, AppliedPayments
      <3>3. Mount(rows) /\ paymentData' = rows /\ UNCHANGED <<token, feeJob, saves, sending>>
        BY <1>16, <2>1, <2>2, <2>5, <3>1 DEF SaveEdit, Save
      <3>4. QED
        BY <2>3, <3>2, <3>3, MountSettles
    <2>6. QED
      BY <2>4, <2>5
  <1>17. CASE CancelEdit
    <2>1. /\ bulkStep = "edit" /\ Mount(paymentData) /\ ~editing.saving
          /\ UNCHANGED <<token, feeJob, paymentData, saves, sending>>
      BY <1>17 DEF CancelEdit, Hurry
    <2>2. checks = {} /\ saves = {} /\ sending.stage = "idle" /\ feeJob = None
      BY <1>0, <1>s, <2>1
    <2>3. PICK rows : rows = paymentData
      OBVIOUS
    <2>4. Mount(rows) /\ rows \in Payments /\ paymentData' = rows
      BY <1>0, <2>1, <2>3
    <2>5. QED
      BY <2>1, <2>2, <2>4, MountSettles
  <1>18. CASE Submit
    <2>1. /\ review.open /\ ~review.busy
          /\ UNCHANGED <<bulkStep, token, feeJob, paymentData, review, checks, editing, saves,
                         unchecked>>
      BY <1>18 DEF Submit
    <2>2. QED
      BY <1>0, <1>s, <2>1 DEF Settled
  <1>19. CASE UNCHANGED bulkVars
    BY <1>19, <1>s DEF bulkVars, Settled
  <1>20. QED
    BY <1>1, <1>2, <1>3, <1>4, <1>5, <1>6, <1>7, <1>8, <1>9, <1>10, <1>11, <1>12, <1>13,
       <1>15, <1>16, <1>17, <1>18, <1>19
    DEF BulkNext, BulkAnswer, BulkUser

LEMMA SendsAsReviewedKept ==
    ASSUME BulkInv, [BulkNext]_bulkVars
    PROVE  SendsAsReviewed'
  <1> USE DEF Submission, ReviewWork
  <1>0. /\ SendsAsReviewed /\ BulkFields /\ (hasty = 0 => Settled)
    BY DEF BulkInv
  <1>a. ASSUME UNCHANGED <<sending, lists, proposed>> PROVE SendsAsReviewed'
    BY <1>a, <1>0 DEF SendsAsReviewed, AsReviewed, Funded
  <1>l. \A p : lists \subseteq lists' /\ Funded(p) => Funded(p)'
    BY DEF Funded
  <1>1. CASE Submit
    <2>1. PICK s : s = [stage |-> "list", id |-> ListId(paymentData, submits'),
                   rows |-> paymentData, total |-> Total(paymentData), token |-> token,
                   shown |-> review.rows, careful |-> hasty = 0, checked |-> ~unchecked]
      OBVIOUS
    <2>2. /\ sending' = s /\ UNCHANGED <<lists, proposed>> /\ review.open /\ ~review.busy
          /\ \A i \in DOMAIN review.rows : ~review.rows[i].bad
      BY <1>1, <2>1 DEF Submit
    <2>3. s = [stage |-> s.stage, id |-> s.id, rows |-> s.rows, total |-> s.total,
               token |-> s.token, shown |-> s.shown, careful |-> s.careful,
               checked |-> s.checked]
      BY <2>1
    <2>4. /\ s.stage = "list" /\ s.rows = paymentData /\ s.total = Total(s.rows)
          /\ s.shown = review.rows /\ s.token = token
          /\ (s.careful => hasty = 0) /\ (s.checked => ~unchecked)
      BY <2>1
    <2>5. AsReviewed(s)
      BY <1>0, <2>2, <2>4 DEF AsReviewed, Settled, MissingMarked
    <2>6. AsReviewed(s)'
      BY <2>5 DEF AsReviewed
    <2>7. \A p \in proposed' : AsReviewed(p)' /\ Funded(p)'
      BY <1>0, <1>l, <2>2 DEF SendsAsReviewed, AsReviewed
    <2>8. QED
      BY <2>2, <2>3, <2>4, <2>6, <2>7 DEF SendsAsReviewed, AsReviewed
  <1>2. CASE ListStored
    <2>1. PICK s : s = sending
      OBVIOUS
    <2>2. /\ s.stage = "list" /\ lists' = lists \cup {[id |-> s.id, rows |-> s.rows]}
          /\ sending' = [s EXCEPT !.stage = "proposal"] /\ proposed' = proposed
      BY <1>2, <2>1 DEF ListStored
    <2>3. /\ s = [stage |-> s.stage, id |-> s.id, rows |-> s.rows, total |-> s.total,
                  token |-> s.token, shown |-> s.shown, careful |-> s.careful,
                  checked |-> s.checked]
          /\ AsReviewed(s) /\ s.total = Total(s.rows)
      BY <1>0, <2>1, <2>2 DEF SendsAsReviewed
    <2>4. PICK t : t = [stage |-> "proposal", id |-> s.id, rows |-> s.rows, total |-> s.total,
                        token |-> s.token, shown |-> s.shown, careful |-> s.careful,
                        checked |-> s.checked]
      OBVIOUS
    <2>5. sending' = t
      BY <2>2, <2>3, <2>4
    <2>6. t = [stage |-> t.stage, id |-> t.id, rows |-> t.rows, total |-> t.total,
               token |-> t.token, shown |-> t.shown, careful |-> t.careful,
               checked |-> t.checked]
      BY <2>4
    <2>7. AsReviewed(t)' /\ t.total = Total(t.rows) /\ t.stage = "proposal"
      BY <2>3, <2>4 DEF AsReviewed
    <2>8. Funded(t)'
      <3>1. PICK l : l = [id |-> s.id, rows |-> s.rows]
        OBVIOUS
      <3>2. l \in lists' /\ l.id = t.id /\ t.total = Total(l.rows)
        BY <2>2, <2>3, <2>4, <3>1
      <3>3. QED
        BY <3>2 DEF Funded
    <2>9. \A p \in proposed' : AsReviewed(p)' /\ Funded(p)'
      BY <1>0, <1>l, <2>2 DEF SendsAsReviewed, AsReviewed
    <2>10. QED
      BY <2>5, <2>6, <2>7, <2>8, <2>9 DEF SendsAsReviewed, AsReviewed, Funded
  <1>3. CASE SubmitFails
    <2>1. sending' = NoSending /\ lists \subseteq lists' /\ proposed' = proposed
      BY <1>3 DEF SubmitFails
    <2>2. \A p \in proposed' : AsReviewed(p)' /\ Funded(p)'
      BY <1>0, <1>l, <2>1 DEF SendsAsReviewed, AsReviewed
    <2>3. QED
      BY <2>1, <2>2 DEF NoSending, SendsAsReviewed
  <1>4. CASE Proposed
    <2>1. /\ sending.stage = "proposal" /\ proposed' = proposed \cup {sending}
          /\ sending' = NoSending /\ lists' = lists
      BY <1>4 DEF Proposed
    <2>2. \A p \in proposed' : AsReviewed(p)' /\ Funded(p)'
      BY <1>0, <1>l, <2>1 DEF SendsAsReviewed, AsReviewed
    <2>3. QED
      BY <2>1, <2>2 DEF NoSending, SendsAsReviewed
  <1>5. CASE BulkAnswer
    BY <1>2, <1>3, <1>4, <1>5, <1>a
    DEF BulkAnswer, FileRead, FeeAnswer, CheckFails, CheckAnswer, SaveAnswer
  <1>6. CASE BulkUser
    BY <1>1, <1>6, <1>a
    DEF BulkUser, ChooseFile, ContinueWithPaste, SelectToken, ContinueWithFile, RemovePayment,
        EditPayment, Leave, BackToUpload, SaveEdit, CancelEdit
  <1>7. CASE UNCHANGED bulkVars
    BY <1>7, <1>a DEF bulkVars
  <1>8. QED
    BY <1>5, <1>6, <1>7 DEF BulkNext

LEMMA BulkInitInv == BulkInit => BulkInv
  <1> SUFFICES ASSUME BulkInit PROVE BulkInv
    OBVIOUS
  <1>1. << >> \in Payments
    BY DEF Payments
  <1>2. NoReview \in Reviews /\ NoReview.open = FALSE
    BY <1>1 DEF NoReview, Reviews
  <1>3. BulkFields
    BY <1>1, <1>2 DEF BulkInit, NoUpload, BulkFields
  <1>4. Settled
    BY <1>2 DEF BulkInit, NoSending, Settled
  <1>5. SendsAsReviewed
    BY DEF BulkInit, NoSending, SendsAsReviewed
  <1>6. QED
    BY <1>3, <1>4, <1>5 DEF BulkInv

LEMMA BulkNextInv == BulkInv /\ [BulkNext]_bulkVars => BulkInv'
  <1> SUFFICES ASSUME BulkInv, [BulkNext]_bulkVars PROVE BulkInv'
    OBVIOUS
  <1>1. BulkFields'
    BY BulkFieldsKept DEF BulkInv
  <1>2. hasty' = 0 => Settled'
    <2>1. BulkFields /\ hasty \in Nat /\ (hasty = 0 => Settled)
      BY DEF BulkInv, BulkFields
    <2>2. QED
      BY <2>1, StillCounted, SettledKept
  <1>3. SendsAsReviewed'
    BY SendsAsReviewedKept
  <1>4. QED
    BY <1>1, <1>2, <1>3 DEF BulkInv

LEMMA BulkInvHolds == BulkSpec => []BulkInv
  BY BulkInitInv, BulkNextInv, PTL DEF BulkSpec

(* A user who lets every step finish signs the rows the review showed. *)
THEOREM ReviewedRowsStayProposed == BulkSpec => []ReviewedRowsAreProposed
  <1>1. BulkInv => ReviewedRowsAreProposed
    BY DEF BulkInv, SendsAsReviewed, AsReviewed, ReviewedRowsAreProposed
  <1>2. QED
    BY <1>1, BulkInvHolds, PTL

(* Such a user proposes no payment to an account that does not exist. *)
THEOREM ProposedAccountsStayReal == BulkSpec => []ProposedAccountsExist
  <1>1. BulkInv => ProposedAccountsExist
    BY DEF BulkInv, SendsAsReviewed, AsReviewed, ProposedAccountsExist
  <1>2. QED
    BY <1>1, BulkInvHolds, PTL

(* A proposal names a list the back-end stored and moves that list's sum. *)
THEOREM ProposalsStayFunded == BulkSpec => []ProposalsFundTheirList
  <1>1. BulkInv => ProposalsFundTheirList
    BY DEF BulkInv, SendsAsReviewed, Funded, ProposalsFundTheirList
  <1>2. QED
    BY <1>1, BulkInvHolds, PTL

-----------------------------------------------------------------------------
(* How a list is read *)

LEMMA LargestIs ==
    ASSUME NEW S, IsFiniteSet(S), S \subseteq Int, S # {}
    PROVE  Max(S) \in S /\ \A y \in S : Max(S) >= y
  BY LargestExists DEF Max

LEMMA SequenceOf ==
    ASSUME NEW S, NEW q \in Seq(S)
    PROVE  /\ Len(q) \in Nat /\ DOMAIN q = 1..Len(q)
           /\ \A i \in 1..Len(q) : q[i] \in S
  OBVIOUS

LEMMA UpTo ==
    ASSUME NEW n \in Nat
    PROVE  IsFiniteSet(1..n) /\ \A S : S \subseteq 1..n => S \subseteq Int
  <1>1. n \in Int /\ 1 \in Int
    OBVIOUS
  <1>2. IsFiniteSet(1..n)
    BY <1>1, FS_Interval
  <1>3. QED
    BY <1>2

LEMMA SequenceOfOne ==
    ASSUME NEW S, NEW q \in Seq(S), Len(q) = 1
    PROVE  q = <<q[1]>>
  OBVIOUS

(* The separators of a text are commas and dots, at places of their own.   *)
LEMMA PlacesOf ==
    ASSUME NEW t, WellTyped(t)
    PROVE  /\ Len(t.seps) \in Nat /\ DOMAIN t.seps = 1..Len(t.seps)
           /\ Places(t, ",") \cup Places(t, ".") = 1..Len(t.seps)
           /\ Places(t, ",") \cap Places(t, ".") = {}
           /\ IsFiniteSet(Places(t, ",")) /\ IsFiniteSet(Places(t, "."))
  <1>1. t.seps \in Seq({",", "."})
    BY DEF WellTyped
  <1>2. PICK n : /\ n = Len(t.seps) /\ n \in Nat /\ DOMAIN t.seps = 1..n
                 /\ \A i \in 1..n : t.seps[i] \in {",", "."}
    BY <1>1, SequenceOf
  <1>3. /\ Places(t, ",") \cup Places(t, ".") = 1..n
        /\ Places(t, ",") \cap Places(t, ".") = {}
    BY <1>2 DEF Places
  <1>4. IsFiniteSet(1..n)
    BY <1>2, UpTo
  <1>5. IsFiniteSet(Places(t, ",")) /\ IsFiniteSet(Places(t, "."))
    BY <1>3, <1>4, FS_Subset
  <1>6. QED
    BY <1>2, <1>3, <1>5

LEMMA CountOf ==
    ASSUME NEW S, IsFiniteSet(S)
    PROVE  /\ Cardinality(S) \in Nat
           /\ Cardinality(S) = 0 <=> S = {}
           /\ Cardinality(S) = 1 => Only(S) \in S /\ S = {Only(S)}
           /\ Cardinality(S) # 1 => Only(S) = Refused
  <1>1. Cardinality(S) \in Nat /\ (Cardinality(S) = 0 <=> S = {})
    BY FS_CardinalityType, FS_EmptySet
  <1>2. CASE Cardinality(S) = 1
    <2>1. PICK x : S = {x}
      BY <1>2, FS_Singleton
    <2>2. Only(S) = CHOOSE i \in S : TRUE
      BY <1>2 DEF Only
    <2>3. QED
      BY <1>1, <1>2, <2>1, <2>2
  <1>3. CASE Cardinality(S) # 1
    BY <1>1, <1>3 DEF Only
  <1>4. QED
    BY <1>2, <1>3

(* Where all of one kind are left of all of the other, so is the last.     *)
LEMMA LastIsLater ==
    ASSUME NEW S, NEW T, IsFiniteSet(S), IsFiniteSet(T), S \subseteq Int, T \subseteq Int,
           S # {}, T # {}, \A i \in S, j \in T : j < i
    PROVE  Max(S) > Max(T) /\ ~(Max(T) > Max(S))
  <1>1. Max(S) \in S /\ Max(T) \in T
    BY LargestIs
  <1>2. Max(T) < Max(S)
    BY <1>1
  <1>3. Max(T) \in Int /\ Max(S) \in Int
    BY <1>1
  <1>4. QED
    BY <1>2, <1>3

(* What is well written, and read, means what it is read as.               *)
LEMMA ReadingMeans ==
    ASSUME NEW t, WellTyped(t), Reading(t) # Refused, ~LongLoneGroup(t),
           NEW at, Means(t, at)
    PROVE  Means(t, Reading(t))
  <1> DEFINE C == Places(t, ",")
  <1> DEFINE D == Places(t, ".")
  <1> DEFINE n == Len(t.seps)
  <1>1. /\ n \in Nat /\ C \cup D = 1..n /\ C \cap D = {} /\ IsFiniteSet(C) /\ IsFiniteSet(D)
    BY PlacesOf
  <1>2. C \subseteq Int /\ D \subseteq Int
    <2>1. n \in Nat /\ C \cup D = 1..n
      BY <1>1
    <2> HIDE DEF C, D, n
    <2>2. QED
      BY <2>1
  <1>3. IsWritten(t, ",", ".") \/ IsWritten(t, ".", ",")
    BY DEF Means
  <1>4. IsWritten(t, ",", ".") <=>
          /\ Cardinality(D) <= 1 /\ \A i \in D, j \in C : j < i
          /\ C # {} => t.lens[1] <= 3 /\ ~t.zero
          /\ \A j \in C : t.lens[j + 1] = 3
    BY DEF IsWritten
  <1>5. IsWritten(t, ".", ",") <=>
          /\ Cardinality(C) <= 1 /\ \A i \in C, j \in D : j < i
          /\ D # {} => t.lens[1] <= 3 /\ ~t.zero
          /\ \A j \in D : t.lens[j + 1] = 3
    BY DEF IsWritten
  <1>6. /\ Written(t, ",", ".") = IF D = {} THEN Whole ELSE Only(D)
        /\ Written(t, ".", ",") = IF C = {} THEN Whole ELSE Only(C)
    BY DEF Written
  <1>7. /\ C # {} /\ D # {} =>
             Reading(t) = IF Max(D) > Max(C) THEN Only(D) ELSE Only(C)
        /\ C # {} /\ D = {} =>
             Reading(t) = IF Cardinality(C) = 1 /\ ~LoneCommaGroups(t) THEN 1 ELSE Whole
        /\ C = {} => Reading(t) = IF D = {} THEN Whole ELSE Only(D)
    BY DEF Reading
  <1> HIDE DEF C, D, n
  <1>8. CASE C # {} /\ D # {}
    <2>1. CASE IsWritten(t, ",", ".")
      <3>1. Max(D) > Max(C)
        BY <1>1, <1>2, <1>4, <1>8, <2>1, LastIsLater
      <3>2. QED
        BY <1>6, <1>7, <1>8, <2>1, <3>1 DEF Means
    <2>2. CASE IsWritten(t, ".", ",")
      <3>1. ~(Max(D) > Max(C))
        BY <1>1, <1>2, <1>5, <1>8, <2>2, LastIsLater
      <3>2. QED
        BY <1>6, <1>7, <1>8, <2>2, <3>1 DEF Means
    <2>3. QED
      BY <1>3, <2>1, <2>2
  <1>9. CASE C # {} /\ D = {}
    <2>1. C = 1..n
      BY <1>1, <1>9
    <2>2. Cardinality(C) = n
      BY <1>1, <2>1, FS_Interval
    <2>3. CASE n = 1
      <3>1. C = {1} /\ Cardinality(C) = 1 /\ Only(C) = 1
        <4>1. C = {1} /\ Cardinality(C) = 1
          BY <2>1, <2>2, <2>3
        <4>2. Only(C) \in C
          BY <1>1, <4>1, CountOf
        <4>3. QED
          BY <4>1, <4>2
      <3>2. CASE LoneCommaGroups(t)
        <4>1. t.lens[2] = 3 /\ ~t.zero /\ Reading(t) = Whole
          BY <1>7, <1>9, <3>2 DEF LoneCommaGroups
        <4>2. t.seps = <<",">>
          <5>1. t.seps[1] = ","
            BY <3>1 DEF C, Places
          <5>2. t.seps \in Seq({",", "."}) /\ Len(t.seps) = 1
            BY <2>3 DEF WellTyped, n
          <5>3. t.seps = <<t.seps[1]>>
            BY <5>2, SequenceOfOne
          <5>4. QED
            BY <5>1, <5>3
        <4>3. t.lens[1] <= 3
          <5>1. ~(t.lens[1] > 3)
            BY <4>1, <4>2 DEF LongLoneGroup
          <5>2. t.lens[1] \in Nat
            <6>1. t.lens \in Seq(Nat \ {0}) /\ Len(t.lens) = Len(t.seps) + 1
              BY DEF WellTyped
            <6>2. Len(t.lens) = 2
              BY <2>3, <6>1 DEF n
            <6>3. \A i \in 1..2 : t.lens[i] \in Nat \ {0}
              BY <6>1, <6>2, SequenceOf
            <6>4. QED
              BY <6>3
          <5>3. QED
            BY <5>1, <5>2
        <4>4. Cardinality(D) = 0
          BY <1>1, <1>9, CountOf
        <4>5. IsWritten(t, ",", ".")
          <5>1. \A j \in C : t.lens[j + 1] = 3
            BY <3>1, <4>1
          <5>2. \A i \in D, j \in C : j < i
            BY <1>9
          <5>3. Cardinality(D) <= 1
            BY <4>4
          <5>4. QED
            BY <1>4, <4>1, <4>3, <5>1, <5>2, <5>3
        <4>6. QED
          BY <1>6, <1>9, <4>1, <4>5 DEF Means
      <3>3. CASE ~LoneCommaGroups(t)
        <4>1. Reading(t) = 1
          BY <1>7, <1>9, <3>1, <3>3
        <4>2. CASE IsWritten(t, ",", ".")
          <5>1. t.lens[1 + 1] = 3 /\ ~t.zero
            BY <1>4, <1>9, <3>1, <4>2
          <5>2. QED
            BY <3>3, <5>1 DEF LoneCommaGroups
        <4>3. CASE IsWritten(t, ".", ",")
          BY <1>6, <1>9, <3>1, <4>1, <4>3 DEF Means
        <4>4. QED
          BY <1>3, <4>2, <4>3
      <3>4. QED
        BY <3>2, <3>3
    <2>4. CASE n # 1
      <3>1. Reading(t) = Whole
        BY <1>7, <1>9, <2>2, <2>4
      <3>2. IsWritten(t, ",", ".")
        <4>1. ~(n <= 1)
          <5>1. n # 0
            <6>1. 1..0 = {}
              OBVIOUS
            <6>2. QED
              BY <1>9, <2>1, <6>1
          <5>2. QED
            BY <1>1, <2>4, <5>1
        <4>2. QED
          BY <1>3, <1>5, <2>2, <4>1
      <3>3. QED
        BY <1>6, <1>9, <3>1, <3>2 DEF Means
    <2>5. QED
      BY <2>3, <2>4
  <1>10. CASE C = {}
    <2>1. Reading(t) = IF D = {} THEN Whole ELSE Only(D)
      BY <1>7, <1>10
    <2>2. Cardinality(D) <= 1
      <3>1. CASE D = {}
        BY <1>1, <3>1, CountOf
      <3>2. CASE D # {}
        <4>1. Only(D) # Refused
          BY <2>1, <3>2
        <4>2. Cardinality(D) = 1
          BY <1>1, <4>1, CountOf
        <4>3. QED
          BY <4>2
      <3>3. QED
        BY <3>1, <3>2
    <2>3. IsWritten(t, ",", ".")
      BY <1>4, <1>10, <2>2
    <2>4. QED
      BY <1>6, <2>1, <2>3 DEF Means
  <1>11. QED
    BY <1>8, <1>9, <1>10
(* What the loop has made of the rows before its own: each of them that    *)
(* is not blank is a fault or taken, the taken ones in order and at the    *)
(* place their amount is read at; and the list is accepted only when the   *)
(* loop has passed every row and found no fault.                           *)
Amounts == \A i \in DOMAIN taken :
    /\ taken[i].row \in 1..(row - 1)
    /\ ~sheet.lines[taken[i].row].blank
    /\ taken[i].at = Reading(sheet.lines[taken[i].row].text)
    /\ taken[i].at # Refused
InOrder == \A i, j \in DOMAIN taken : j < i => taken[j].row < taken[i].row
Handled == \A i \in 1..(row - 1) :
    \/ sheet.lines[i].blank
    \/ i \in faults
    \/ \E k \in DOMAIN taken : taken[k].row = i
Verdict == outcome = "accepted" => faults = {} /\ row > Len(sheet.lines)
ReadingFields ==
    /\ sheet \in Sheets
    /\ row \in 1..(Len(sheet.lines) + 1)
    /\ taken \in Seq([row : Nat, at : Int])
    /\ faults \subseteq 1..(row - 1)
    /\ outcome \in {"reading", "accepted", "refused"}
ParseInv == ReadingFields /\ Amounts /\ InOrder /\ Handled /\ Verdict

LEMMA ReadingIsInteger ==
    ASSUME NEW t, WellTyped(t)
    PROVE  Reading(t) \in Int
  <1> DEFINE C == Places(t, ",")
  <1> DEFINE D == Places(t, ".")
  <1>1. /\ Len(t.seps) \in Nat /\ C \cup D = 1..Len(t.seps)
        /\ IsFiniteSet(C) /\ IsFiniteSet(D)
    BY PlacesOf
  <1>2. \A S : IsFiniteSet(S) /\ S \subseteq 1..Len(t.seps) => Only(S) \in Int
    <2> SUFFICES ASSUME NEW S, IsFiniteSet(S), S \subseteq 1..Len(t.seps)
                 PROVE  Only(S) \in Int
      OBVIOUS
    <2>1. Only(S) \in S \/ Only(S) = -1
      BY CountOf DEF Refused
    <2>2. S \subseteq Int
      BY <1>1, UpTo
    <2>3. -1 \in Int
      OBVIOUS
    <2>4. QED
      BY <2>1, <2>2, <2>3
  <1>3. Only(C) \in Int /\ Only(D) \in Int
    BY <1>1, <1>2
  <1>4. Reading(t) \in {Only(C), Only(D), 1, Whole}
    <2>1. \/ C # {} /\ D # {} /\ Reading(t) \in {Only(C), Only(D)}
          \/ C # {} /\ D = {} /\ Reading(t) \in {1, Whole}
          \/ C = {} /\ Reading(t) \in {Whole, Only(D)}
      BY Zenon DEF Reading
    <2>2. QED
      BY <2>1
  <1>5. 1 \in Int /\ Whole \in Int
    BY DEF Whole
  <1>6. QED
    BY <1>3, <1>4, <1>5

LEMMA AppendedRows ==
    ASSUME NEW q \in Seq([row : Nat, at : Int]), NEW e \in [row : Nat, at : Int]
    PROVE  /\ Append(q, e) \in Seq([row : Nat, at : Int])
           /\ Len(q) \in Nat /\ DOMAIN q = 1..Len(q)
           /\ DOMAIN Append(q, e) = 1..(Len(q) + 1)
           /\ \A i \in 1..Len(q) : Append(q, e)[i] = q[i]
           /\ Append(q, e)[Len(q) + 1] = e
  OBVIOUS

LEMMA SheetsAreTyped ==
    ASSUME NEW s \in Sheets
    PROVE  /\ Len(s.lines) \in Nat /\ DOMAIN s.lines = 1..Len(s.lines)
           /\ \A i \in 1..Len(s.lines) : WellTyped(s.lines[i].text)
  BY SheetsAssumption

LEMMA ParseInvInit == ParseInit => ParseInv
  <1> SUFFICES ASSUME ParseInit PROVE ParseInv
    OBVIOUS
  <1>1. sheet \in Sheets /\ row = 1 /\ taken = << >> /\ faults = {} /\ outcome = "reading"
    BY DEF ParseInit
  <1>2. Len(sheet.lines) \in Nat
    BY <1>1, SheetsAssumption
  <1>3. DOMAIN taken = {} /\ 1..(row - 1) = {}
    BY <1>1
  <1>4. taken \in Seq([row : Nat, at : Int])
    BY <1>1
  <1>5. QED
    BY <1>1, <1>2, <1>3, <1>4
       DEF ParseInv, ReadingFields, Amounts, InOrder, Handled, Verdict

LEMMA ParseInvNext == ParseInv /\ [ParseNext]_parseVars => ParseInv'
  <1> SUFFICES ASSUME ParseInv, [ParseNext]_parseVars PROVE ParseInv'
    OBVIOUS
  <1>1. /\ sheet \in Sheets /\ row \in 1..(Len(sheet.lines) + 1)
        /\ taken \in Seq([row : Nat, at : Int]) /\ faults \subseteq 1..(row - 1)
    BY DEF ParseInv, ReadingFields
  <1>2. /\ Len(sheet.lines) \in Nat
        /\ \A i \in 1..Len(sheet.lines) : WellTyped(sheet.lines[i].text)
    BY <1>1, SheetsAreTyped
  <1>3. row \in Nat /\ row >= 1
    BY <1>1, <1>2
  <1>4. 1..((row + 1) - 1) = 1..(row - 1) \cup {row} /\ row \notin 1..(row - 1)
    BY <1>3
  <1>5. ASSUME InLoop, row' = row + 1, UNCHANGED <<sheet, outcome>>
        PROVE  /\ row \in 1..Len(sheet.lines) /\ row' \in 1..(Len(sheet'.lines) + 1)
               /\ 1..(row' - 1) = 1..(row - 1) \cup {row}
               /\ outcome' = "reading" /\ sheet' = sheet
    BY <1>2, <1>3, <1>4, <1>5 DEF InLoop
  <1>6. CASE SkipBlank
    <2>1. /\ InLoop /\ row' = row + 1 /\ sheet.lines[row].blank
          /\ UNCHANGED <<sheet, taken, faults, outcome>>
      BY <1>6 DEF SkipBlank, Line
    <2>2. ReadingFields'
      BY <1>1, <1>5, <2>1 DEF ReadingFields
    <2>3. Amounts' /\ InOrder' /\ Handled'
      BY <1>5, <2>1 DEF ParseInv, Amounts, InOrder, Handled
    <2>4. Verdict'
      BY <1>5, <2>1 DEF Verdict
    <2>5. QED
      BY <2>2, <2>3, <2>4 DEF ParseInv
  <1>7. CASE TakeRow
    <2> DEFINE e == [row |-> row, at |-> Reading(sheet.lines[row].text)]
    <2>1. /\ InLoop /\ row' = row + 1 /\ ~sheet.lines[row].blank
          /\ Reading(sheet.lines[row].text) # Refused
          /\ taken' = Append(taken, e)
          /\ UNCHANGED <<sheet, faults, outcome>>
      BY <1>7 DEF TakeRow, Line, IsPayment, IsNumber
    <2>2. e \in [row : Nat, at : Int]
      <3>1. Reading(sheet.lines[row].text) \in Int
        BY <1>2, <1>5, <2>1, ReadingIsInteger
      <3>2. QED
        BY <1>3, <3>1
    <2>3. e.row = row /\ e.at = Reading(sheet.lines[row].text)
      OBVIOUS
    <2> HIDE DEF e
    <2> DEFINE n == Len(taken)
    <2>4. /\ taken' \in Seq([row : Nat, at : Int]) /\ n \in Nat
          /\ DOMAIN taken = 1..n /\ DOMAIN taken' = 1..(n + 1)
          /\ \A i \in 1..n : taken'[i] = taken[i]
          /\ taken'[n + 1] = e
      BY <1>1, <2>1, <2>2, AppendedRows
    <2> HIDE DEF n
    <2>5. 1..(n + 1) = 1..n \cup {n + 1}
      BY <2>4
    <2>6. ReadingFields'
      BY <1>1, <1>5, <2>1, <2>4 DEF ReadingFields
    <2>7. Amounts'
      <3>1. \A i \in 1..n : /\ taken[i].row \in 1..(row - 1)
                            /\ ~sheet.lines[taken[i].row].blank
                            /\ taken[i].at = Reading(sheet.lines[taken[i].row].text)
                            /\ taken[i].at # Refused
        BY <2>4 DEF ParseInv, Amounts
      <3>2. SUFFICES ASSUME NEW i \in 1..(n + 1)
                     PROVE  /\ taken'[i].row \in 1..(row' - 1)
                            /\ ~sheet.lines[taken'[i].row].blank
                            /\ taken'[i].at = Reading(sheet.lines[taken'[i].row].text)
                            /\ taken'[i].at # Refused
        BY <2>1, <2>4 DEF Amounts
      <3>3. CASE i \in 1..n
        BY <1>5, <2>1, <2>4, <3>1, <3>3
      <3>4. CASE i = n + 1
        BY <1>5, <2>1, <2>3, <2>4, <3>4
      <3>5. QED
        BY <2>5, <3>3, <3>4
    <2>8. InOrder'
      <3>1. SUFFICES ASSUME NEW i \in 1..(n + 1), NEW j \in 1..(n + 1), j < i
                     PROVE  taken'[j].row < taken'[i].row
        BY <2>4 DEF InOrder
      <3>2. j \in 1..n
        BY <2>4, <3>1
      <3>3. CASE i \in 1..n
        BY <2>4, <3>1, <3>2, <3>3 DEF ParseInv, InOrder
      <3>4. CASE i = n + 1
        <4>1. taken[j].row \in 1..(row - 1)
          BY <2>4, <3>2 DEF ParseInv, Amounts
        <4>2. QED
          BY <1>3, <2>3, <2>4, <3>2, <3>4, <4>1
      <3>5. QED
        BY <2>5, <3>3, <3>4
    <2>9. Handled'
      <3>1. \A i \in 1..(row - 1) : \/ sheet.lines[i].blank
                                    \/ i \in faults
                                    \/ \E k \in 1..n : taken[k].row = i
        BY <2>4 DEF ParseInv, Handled
      <3>2. SUFFICES ASSUME NEW i \in 1..(row - 1) \cup {row}
                     PROVE  \/ sheet.lines[i].blank
                            \/ i \in faults
                            \/ \E k \in 1..(n + 1) : taken'[k].row = i
        BY <1>5, <2>1, <2>4 DEF Handled
      <3>3. CASE i = row
        BY <2>3, <2>4, <2>5, <3>3
      <3>4. CASE i \in 1..(row - 1)
        BY <2>4, <2>5, <3>1, <3>4
      <3>5. QED
        BY <3>3, <3>4
    <2>10. Verdict'
      BY <1>5, <2>1 DEF Verdict
    <2>11. QED
      BY <2>6, <2>7, <2>8, <2>9, <2>10 DEF ParseInv
  <1>8. CASE FaultRow
    <2>1. /\ InLoop /\ row' = row + 1 /\ faults' = faults \cup {row}
          /\ UNCHANGED <<sheet, taken, outcome>>
      BY <1>8 DEF FaultRow
    <2>2. ReadingFields'
      BY <1>1, <1>5, <2>1 DEF ReadingFields
    <2>3. Amounts' /\ InOrder' /\ Handled'
      BY <1>5, <2>1 DEF ParseInv, Amounts, InOrder, Handled
    <2>4. Verdict'
      BY <1>5, <2>1 DEF Verdict
    <2>5. QED
      BY <2>2, <2>3, <2>4 DEF ParseInv
  <1>9. CASE Return
    <2>1. /\ UNCHANGED <<sheet, row, taken, faults>>
          /\ outcome' \in {"accepted", "refused"}
          /\ outcome' = "accepted" => faults = {} /\ row > Len(sheet.lines)
      BY <1>9 DEF Return, IsAccepted
    <2>2. QED
      BY <2>1 DEF ParseInv, ReadingFields, Amounts, InOrder, Handled, Verdict
  <1>10. CASE UNCHANGED parseVars
    BY <1>10 DEF parseVars, ParseInv, ReadingFields, Amounts, InOrder, Handled, Verdict
  <1>11. QED
    BY <1>6, <1>7, <1>8, <1>9, <1>10 DEF ParseNext

LEMMA ParseInvAccepts == ParseInv => AcceptedListIsTheSheet
  <1> SUFFICES ASSUME ParseInv, outcome = "accepted" PROVE AcceptedListIsTheSheet
    BY DEF AcceptedListIsTheSheet
  <1> DEFINE full == {i \in DOMAIN sheet.lines : ~sheet.lines[i].blank}
  <1>1. /\ sheet \in Sheets /\ row \in 1..(Len(sheet.lines) + 1)
        /\ taken \in Seq([row : Nat, at : Int])
        /\ faults = {} /\ row > Len(sheet.lines)
    BY DEF ParseInv, ReadingFields, Verdict
  <1>2. /\ Len(sheet.lines) \in Nat /\ DOMAIN sheet.lines = 1..Len(sheet.lines)
        /\ \A i \in 1..Len(sheet.lines) : WellTyped(sheet.lines[i].text)
    BY <1>1, SheetsAreTyped
  <1>3. DOMAIN sheet.lines = 1..(row - 1)
    BY <1>1, <1>2
  <1>4. {taken[k].row : k \in DOMAIN taken} = full
    <2>1. \A k \in DOMAIN taken : taken[k].row \in full
      BY <1>3 DEF ParseInv, Amounts
    <2>2. \A i \in full : \E k \in DOMAIN taken : taken[k].row = i
      BY <1>1, <1>3 DEF ParseInv, Handled
    <2> HIDE DEF full
    <2>3. QED
      BY <2>1, <2>2, Zenon
  <1>5. \A k \in DOMAIN taken : \A j \in 1..(k - 1) : taken[j].row < taken[k].row
    <2>1. Len(taken) \in Nat /\ DOMAIN taken = 1..Len(taken)
      BY <1>1, SequenceOf
    <2>2. \A k \in DOMAIN taken : \A j \in 1..(k - 1) : j \in DOMAIN taken /\ j < k
      BY <2>1
    <2>3. QED
      BY <2>2 DEF ParseInv, InOrder
  <1>6. \A k \in DOMAIN taken :
           LET t == sheet.lines[taken[k].row].text IN
           (\E at \in 0..Len(t.seps) : Means(t, at)) /\ ~LongLoneGroup(t)
           => Means(t, taken[k].at)
    <2> SUFFICES ASSUME NEW k \in DOMAIN taken
                 PROVE  LET t == sheet.lines[taken[k].row].text IN
                        (\E at \in 0..Len(t.seps) : Means(t, at)) /\ ~LongLoneGroup(t)
                        => Means(t, taken[k].at)
      OBVIOUS
    <2> DEFINE t == sheet.lines[taken[k].row].text
    <2>1. /\ taken[k].row \in 1..(row - 1)
          /\ taken[k].at = Reading(t) /\ taken[k].at # Refused
      BY DEF ParseInv, Amounts
    <2>2. WellTyped(t)
      BY <1>2, <1>3, <2>1
    <2> HIDE DEF t
    <2>3. ASSUME NEW at, Means(t, at), ~LongLoneGroup(t)
          PROVE  Means(t, taken[k].at)
      BY <2>1, <2>2, <2>3, ReadingMeans
    <2>4. (\E at \in 0..Len(t.seps) : Means(t, at)) /\ ~LongLoneGroup(t)
          => Means(t, taken[k].at)
      BY <2>3
    <2>5. QED
      BY <2>4 DEF t
  <1>7. QED
    BY <1>4, <1>5, <1>6 DEF AcceptedListIsTheSheet

(* However a list of payments is written, if it is accepted it holds every *)
(* row of the sheet that is not blank, once and in order, and an amount    *)
(* that is well written in one of the two conventions is read in one of    *)
(* them (except one comma before three digits after more than three).      *)
THEOREM AcceptedStaysTheSheet == ParseSpec => []AcceptedListIsTheSheet
  <1>1. QED
    BY ParseInvInit, ParseInvNext, ParseInvAccepts, PTL DEF ParseSpec
=============================================================================
