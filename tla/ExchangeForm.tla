----------------------------- MODULE ExchangeForm -----------------------------
(***************************************************************************)
(* The exchange page of the front-end (exchange/): an order is entered     *)
(* while dry quotes are fetched for it, its live quote is reviewed, and    *)
(* the quote kept in the form is proposed.  The query cache keeps the      *)
(* answers by order; the fetch of a live quote also writes it into the     *)
(* form, whatever the page shows when it is answered.                      *)
(***************************************************************************)
EXTENDS Integers, FiniteSets, Absent

CONSTANTS
    Pairs,      \* tokens sold and received
    Amounts,    \* sellAmount
    NoAmount,   \* the empty field
    Route,      \* how a pair is exchanged
    FirstPair,  \* the form's default
    NullQuote,  \* the answer of a query function that caught an error
    MaxQuotes,  \* bound: live quotes fetched
    MaxOrders   \* bound: proposals sent

Routes == {"wrap", "unwrap", "native", "ft", "intents"}
Orders == [pair : Pairs, amount : Amounts]
Quotes == [order : Orders, no : 1..MaxQuotes]

ASSUME ExchangeAssumption ==
    /\ FirstPair \in Pairs /\ NoAmount \notin Amounts
    /\ Route \in [Pairs -> Routes]
(* undefined is no answer. *)
ASSUME AnswersAreDefined == None \notin Quotes \cup {NullQuote}
ASSUME ExchangeBounds == MaxQuotes \in Nat /\ MaxOrders \in Nat

VARIABLES
    exchangeStep, \* the wizard's step
    order,        \* form: sellToken, receiveToken and sellAmount
    debounced,    \* debouncedSellAmount
    dry,          \* orders with a dry quote
    live,         \* the query cache: the live answer by order
    fresh,        \* orders whose live answer is younger than staleTime
    fetching,     \* orders whose live quote is being fetched
    proposalData, \* form.proposalData
    ordering,     \* onSubmit in flight
    exchanges,    \* proposals whose creation was answered, with what was shown
    ordered,      \* how many proposals the DAO has
    quotes,       \* live quotes given so far
    strayed       \* history: a review that was not the first, or a failed fetch

exchangeVars == <<exchangeStep, order, debounced, dry, live, fresh, fetching, proposalData,
                  ordering, exchanges, ordered, quotes, strayed>>

FormOrder == [pair : Pairs, amount : Amounts \cup {NoAmount}]
FirstOrder == [pair |-> FirstPair, amount |-> NoAmount]

ExchangeTypeOK ==
    /\ exchangeStep \in {"order", "review"}
    /\ order \in FormOrder
    /\ exchangeStep = "review" => order \in Orders
    /\ debounced \in Amounts \cup {NoAmount}
    /\ dry \subseteq Orders /\ fresh \subseteq Orders /\ fetching \subseteq Orders
    /\ live \in [Orders -> Quotes \cup {None, NullQuote}]
    /\ \A o \in Orders : live[o] \in Quotes => live[o].order = o
    /\ proposalData \in Quotes \cup {None}
    /\ ordering = None \/ ordering.quote \in Quotes
    /\ ordered \in 0..MaxOrders /\ Cardinality(exchanges) <= ordered
    /\ quotes \in 0..MaxQuotes /\ strayed \in BOOLEAN

ExchangeInit ==
    /\ exchangeStep = "order"
    /\ order = FirstOrder
    /\ debounced = NoAmount
    /\ dry = {}
    /\ live = [o \in Orders |-> None]
    /\ fresh = {}
    /\ fetching = {}
    /\ proposalData = None
    /\ ordering = None
    /\ exchanges = {}
    /\ ordered = 0
    /\ quotes = 0
    /\ strayed = FALSE

Cache == <<live, fresh, fetching>>
Chain == <<exchanges, ordered>>

-----------------------------------------------------------------------------
(* Step1: the order *)

(* The token selects, the amount field, and handleSwapTokens, which clears *)
(* the amount.                                                             *)
EnterOrder(o) ==
    /\ exchangeStep = "order" /\ order # o
    /\ order' = o
    /\ UNCHANGED <<exchangeStep, debounced, dry, Cache, proposalData, ordering, Chain, quotes,
                   strayed>>

Debounce ==
    /\ exchangeStep = "order" /\ debounced # order.amount
    /\ debounced' = order.amount
    /\ UNCHANGED <<exchangeStep, order, dry, Cache, proposalData, ordering, Chain, quotes,
                   strayed>>

DryOrder == [order EXCEPT !.amount = debounced]

(* A dry quote is also shown as the amount received, in whatever order     *)
(* the answers come; nothing is proposed from it.                          *)
DryAnswer ==
    /\ exchangeStep = "order" /\ DryOrder \in Orders \ dry
    /\ dry' = dry \cup {DryOrder}
    /\ UNCHANGED <<exchangeStep, order, debounced, Cache, proposalData, ordering, Chain, quotes,
                   strayed>>

(* useQuery: a missing or stale answer is fetched, once at a time. *)
Fetch(o) == fetching' = IF o \in fresh THEN fetching ELSE fetching \cup {o}

(* handleContinue asks for the quote of the debounced amount only. *)
ContinueToReview ==
    /\ exchangeStep = "order" /\ order \in Orders /\ DryOrder \in dry
    /\ exchangeStep' = "review"
    /\ Fetch(order)
    /\ strayed' = (strayed \/ fetching # {} \/ \E o \in Orders : live[o] # None)
    /\ UNCHANGED <<order, debounced, dry, live, fresh, proposalData, ordering, Chain, quotes>>

-----------------------------------------------------------------------------
(* The live quotes: useExchangeQuote with isDryRun = FALSE *)

(* Mutant: the answer is kept in the cache only. *)
LiveQuoteCached(o) ==
    /\ o \in fetching /\ quotes < MaxQuotes
    /\ quotes' = quotes + 1
    /\ live' = [live EXCEPT ![o] = [order |-> o, no |-> quotes']]
    /\ proposalData' = IF proposalData = None THEN live'[o] ELSE proposalData
    /\ fresh' = fresh \cup {o}
    /\ fetching' = fetching \ {o}
    /\ UNCHANGED <<exchangeStep, order, debounced, dry, ordering, Chain, strayed>>

(* The form is written inside the query function. *)
LiveQuote(o) ==
    /\ o \in fetching /\ quotes < MaxQuotes
    /\ quotes' = quotes + 1
    /\ live' = [live EXCEPT ![o] = [order |-> o, no |-> quotes']]
    /\ proposalData' = live'[o]
    /\ fresh' = fresh \cup {o}
    /\ fetching' = fetching \ {o}
    /\ UNCHANGED <<exchangeStep, order, debounced, dry, ordering, Chain, strayed>>

(* An error is caught and answered with null, which is data as well. *)
LiveQuoteFails(o) ==
    /\ o \in fetching
    /\ live' = [live EXCEPT ![o] = NullQuote]
    /\ fresh' = fresh \cup {o}
    /\ fetching' = fetching \ {o}
    /\ strayed' = TRUE
    /\ UNCHANGED <<exchangeStep, order, debounced, dry, proposalData, ordering, Chain, quotes>>

(* refetchInterval is staleTime: the answer expires and, under review, is  *)
(* fetched again.                                                          *)
Expire(o) ==
    /\ o \in fresh
    /\ fresh' = fresh \ {o}
    /\ fetching' = IF exchangeStep = "review" /\ o = order THEN fetching \cup {o} ELSE fetching
    /\ UNCHANGED <<exchangeStep, order, debounced, dry, live, proposalData, ordering, Chain,
                   quotes, strayed>>

(* gcTime: an answer nobody looks at is dropped. *)
Collect(o) ==
    /\ live[o] # None /\ o \notin fresh /\ o \notin fetching
    /\ ~(exchangeStep = "review" /\ o = order)
    /\ live' = [live EXCEPT ![o] = None]
    /\ strayed' = TRUE
    /\ UNCHANGED <<exchangeStep, order, debounced, dry, fresh, fetching, proposalData, ordering,
                   Chain, quotes>>

-----------------------------------------------------------------------------
(* Step2 and onSubmit *)

BackToOrder ==
    /\ exchangeStep = "review"
    /\ exchangeStep' = "order"
    /\ UNCHANGED <<order, debounced, dry, Cache, proposalData, ordering, Chain, quotes, strayed>>

IsLoadingLiveQuote == live[order] = None

(* buildNEARDepositProposal and its siblings: the token is the form's, the *)
(* amount and the address are the quote's.                                 *)
Transfer(q, pair) ==
    [pair |-> pair, amount |-> q.order.amount,
     to |-> IF Route[pair] \in {"wrap", "unwrap"} THEN None ELSE q.no]

(* Without proposalData nothing happens. *)
ConfirmExchange ==
    /\ exchangeStep = "review" /\ ~IsLoadingLiveQuote
    /\ ordering = None /\ proposalData # None /\ ordered < MaxOrders
    /\ ordering' = [quote |-> proposalData, shown |-> live[order], order |-> order,
                    moved |-> Transfer(proposalData, order.pair), strayed |-> strayed]
    /\ UNCHANGED <<exchangeStep, order, debounced, dry, Cache, proposalData, Chain, quotes,
                   strayed>>

(* Mutant: the form keeps the quote. *)
ExchangeProposedKeeping ==
    /\ ordering # None
    /\ ordered' = ordered + 1
    /\ exchanges' = exchanges \cup {[at |-> ordered', by |-> ordering]}
    /\ ordering' = None
    /\ order' = FirstOrder
    /\ exchangeStep' = "order"
    /\ UNCHANGED <<debounced, dry, Cache, proposalData, quotes, strayed>>

(* form.reset clears the quote too; the wizard starts over. *)
ExchangeProposed ==
    /\ ordering # None
    /\ ordered' = ordered + 1
    /\ exchanges' = exchanges \cup {[at |-> ordered', by |-> ordering]}
    /\ ordering' = None
    /\ order' = FirstOrder
    /\ proposalData' = None
    /\ exchangeStep' = "order"
    /\ UNCHANGED <<debounced, dry, Cache, quotes, strayed>>

(* The wallet refuses, or the answer of a proposal that landed is lost.    *)
ExchangeFails ==
    /\ ordering # None
    /\ ordered' \in {ordered, ordered + 1}
    /\ ordering' = None
    /\ UNCHANGED <<exchangeStep, order, debounced, dry, Cache, proposalData, exchanges, quotes,
                   strayed>>

-----------------------------------------------------------------------------
ExchangeNext ==
    \/ \E o \in FormOrder : EnterOrder(o)
    \/ Debounce \/ DryAnswer \/ ContinueToReview
    \/ \E o \in Orders : LiveQuote(o) \/ LiveQuoteFails(o) \/ Expire(o) \/ Collect(o)
    \/ BackToOrder \/ ConfirmExchange \/ ExchangeProposed \/ ExchangeFails

ExchangeSpec == ExchangeInit /\ [][ExchangeNext]_exchangeVars

-----------------------------------------------------------------------------
(* The first order that is reviewed is proposed as shown, at the latest of *)
(* the quotes fetched for it, although the quote is renewed all the while  *)
(* and its answer goes to the review and to the form by different ways.    *)
FirstReviewIsProposed ==
    \A e \in exchanges : ~e.by.strayed => /\ e.by.quote = e.by.shown
                                          /\ e.by.quote.order = e.by.order

(* A quote's deposit address is given to one proposal, unless the answer   *)
(* of the first was lost and the user tries again.                         *)
QuotesAreProposedOnce ==
    \A d, e \in exchanges : d.by.quote = e.by.quote => d = e

=============================================================================
