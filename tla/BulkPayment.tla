----------------------------- MODULE BulkPayment -----------------------------
(***************************************************************************)
(* The bulk payment contract (contracts/bulk-payment/src/lib.rs): storage  *)
(* credits, payment lists, the three ways a list is approved and funded,   *)
(* and the batched payout.                                                 *)
(*                                                                         *)
(* A contract call is one atomic step.  A call that panics changes         *)
(* nothing, so a panic is an action that is not enabled.  The transfers    *)
(* payout_batch starts are detached promises: they run later, in any       *)
(* order, each one succeeds or fails, and the contract is never told.      *)
(*                                                                         *)
(* Environment: the ledgers of the tokens (funds) and the proposals the    *)
(* front-end builds, which fund a list in the list's own token.            *)
(***************************************************************************)
EXTENDS Integers, Sequences, FiniteSets, Functions

CONSTANTS
    Accounts,    \* accounts that may call the contract or hold credits
    Contract,    \* the contract's own account (env::current_account_id)
    ListIds,     \* well-formed list ids (validate_list_id accepts them)
    Tokens,      \* token ids of a list
    Native,      \* those settled by a plain transfer: "native"/"near"/"NEAR"
    Intents,     \* those held by intents.near: "nep141:..."
    Payees,      \* recipient strings
    NearPayees,  \* those that parse as a NEAR AccountId
    Inputs,      \* the payment vectors a caller may submit
    MaxRecords,  \* bound: records in a list, records bought by one call
    MaxCredits,  \* bound: credits ever bought for one account
    MaxU128,     \* the largest amount a u128 holds
    NoList       \* an absent key of payment_lists

Amounts == 0..MaxU128
PaymentInput == [recipient : Payees, amount : Amounts]

ASSUME AccountsAssumption == Contract \in Accounts
ASSUME TokensAssumption ==
    /\ Native \subseteq Tokens
    /\ Intents \subseteq Tokens
    /\ Native \cap Intents = {}
ASSUME BoundsAssumption ==
    MaxRecords \in Nat /\ MaxCredits \in Nat /\ MaxU128 \in Nat
ASSUME InputsAssumption ==
    /\ Inputs \subseteq Seq(PaymentInput)
    /\ \A ps \in Inputs : Len(ps) <= MaxRecords
ASSUME PayeesAssumption == NearPayees \subseteq Payees

PaymentRecord ==
    [recipient : Payees, amount : Amounts, status : {"Pending", "Paid"}]
PaymentList ==
    [token : Tokens, submitter : Accounts,
     status : {"Pending", "Approved", "Rejected"},
     payments : Seq(PaymentRecord)]
ASSUME NoListAssumption == NoList \notin PaymentList

(* A payment is named by its list and its place in it. *)
Slots == ListIds \X (1..MaxRecords)

VARIABLES
    lists,    \* payment_lists
    credits,  \* storage_credits, 0 for an absent key
    bought,   \* history: credits ever bought for an account
    promises, \* the detached transfers of a payment, by what became of them
    funds     \* what the tokens' ledgers say the contract holds for payouts

contractVars == <<lists, credits, bought, promises, funds>>

Outcomes == {"inflight", "delivered", "bounced"}

TypeOK ==
    /\ lists \in [ListIds -> PaymentList \cup {NoList}]
    /\ \A l \in ListIds :
          lists[l] # NoList => Len(lists[l].payments) \in 1..MaxRecords
    /\ credits \in [Accounts -> Nat]
    /\ bought \in [Accounts -> Nat]
    /\ promises \in [Slots -> [Outcomes -> Nat]]
    /\ funds \in [Tokens -> Int]

Init ==
    /\ lists = [l \in ListIds |-> NoList]
    /\ credits = [a \in Accounts |-> 0]
    /\ bought = [a \in Accounts |-> 0]
    /\ promises = [s \in Slots |-> [o \in Outcomes |-> 0]]
    /\ funds = [t \in Tokens |-> 0]

-----------------------------------------------------------------------------
(* Helpers *)

Exists(l) == lists[l] # NoList
HasStatus(l, st) == Exists(l) /\ lists[l].status = st

Total(ps) == SumFunction([i \in DOMAIN ps |-> ps[i].amount])

(* Mutant: a deposit below the total is enough. *)
IsTotalOrLess(l, amount) == amount <= Total(lists[l].payments)

(* try_fold(checked_add).expect(...): a total that does not fit panics. *)
IsTotal(l, amount) ==
    /\ Total(lists[l].payments) <= MaxU128
    /\ amount = Total(lists[l].payments)

(* Mutant: paid records are not skipped. *)
PendingOfAll(l) == DOMAIN lists[l].payments

PendingOf(l) ==
    {i \in DOMAIN lists[l].payments : lists[l].payments[i].status = "Pending"}

(* The first k pending payments of a list, in the vector's order. *)
Batch(l, k) ==
    {i \in PendingOf(l) : Cardinality({j \in PendingOf(l) : j <= i}) <= k}

MarkPaid(ps, batch) ==
    [i \in DOMAIN ps |->
        IF i \in batch THEN [ps[i] EXCEPT !.status = "Paid"] ELSE ps[i]]

SetStatus(l, st) == lists' = [lists EXCEPT ![l].status = st]

NewList(t, ps, submitter) ==
    [token |-> t, submitter |-> submitter, status |-> "Pending",
     payments |-> [i \in DOMAIN ps |-> [recipient |-> ps[i].recipient,
                                        amount |-> ps[i].amount,
                                        status |-> "Pending"]]]

(* Mutant: the key's presence goes unchecked. *)
CanSubmitAgain(l, ps, n) == ps # <<>> /\ n >= Len(ps)

(* The conditions of submit_list, for an account that has n credits. *)
CanSubmit(l, ps, n) == ~Exists(l) /\ ps # <<>> /\ n >= Len(ps)

(* The token the front-end's proposal funds list l with. *)
ProposalToken(l) == lists[l].token

-----------------------------------------------------------------------------
(* Calls *)

(* buy_storage: the deposit must be exact, the beneficiary gets n credits. *)
BuyStorage(beneficiary, n) ==
    /\ bought[beneficiary] + n <= MaxCredits
    /\ credits' = [credits EXCEPT ![beneficiary] = @ + n]
    /\ bought' = [bought EXCEPT ![beneficiary] = @ + n]
    /\ UNCHANGED <<lists, promises, funds>>

(* submit_list: only the contract itself submits for somebody else. *)
SubmitList(caller, submitter, l, t, ps) ==
    /\ submitter # caller => caller = Contract
    /\ CanSubmit(l, ps, credits[submitter])
    /\ credits' = [credits EXCEPT ![submitter] = @ - Len(ps)]
    /\ lists' = [lists EXCEPT ![l] = NewList(t, ps, submitter)]
    /\ UNCHANGED <<bought, promises, funds>>

(* approve_list: the submitter attaches the total in NEAR. *)
ApproveList(caller, l, deposit, t) ==
    /\ HasStatus(l, "Pending")
    /\ lists[l].submitter = caller
    /\ IsTotal(l, deposit)
    /\ t \in Native
    /\ SetStatus(l, "Approved")
    /\ funds' = [funds EXCEPT ![t] = @ + deposit]
    /\ UNCHANGED <<credits, bought, promises>>

(* ft_on_transfer: token t moved amount from sender and calls back. *)
FtOnTransfer(sender, l, amount, t) ==
    /\ HasStatus(l, "Pending")
    /\ lists[l].submitter = sender
    /\ IsTotal(l, amount)
    /\ t \notin Native \cup Intents
    /\ SetStatus(l, "Approved")
    /\ funds' = [funds EXCEPT ![t] = @ + amount]
    /\ UNCHANGED <<credits, bought, promises>>

(* mt_on_transfer: any holder of the list's token may fund it. *)
MtOnTransfer(l, amount, t) ==
    /\ HasStatus(l, "Pending")
    /\ lists[l].token = t
    /\ IsTotal(l, amount)
    /\ t \in Intents
    /\ SetStatus(l, "Approved")
    /\ funds' = [funds EXCEPT ![t] = @ + amount]
    /\ UNCHANGED <<credits, bought, promises>>

(* Mutant: a list that was approved is rejected after all. *)
RejectListLate(caller, l) ==
    /\ Exists(l)
    /\ lists[l].submitter = caller
    /\ SetStatus(l, "Rejected")
    /\ UNCHANGED <<credits, bought, promises, funds>>

(* reject_list *)
RejectList(caller, l) ==
    /\ HasStatus(l, "Pending")
    /\ lists[l].submitter = caller
    /\ SetStatus(l, "Rejected")
    /\ UNCHANGED <<credits, bought, promises, funds>>

(* Mutant: a list is paid out whatever its status. *)
PayoutBatchUnapproved(l, k) ==
    /\ Exists(l)
    /\ lists' = [lists EXCEPT ![l].payments = MarkPaid(@, Batch(l, k))]
    /\ promises' = [s \in Slots |->
          IF s[1] = l /\ s[2] \in Batch(l, k)
          THEN [promises[s] EXCEPT !["inflight"] = @ + 1] ELSE promises[s]]
    /\ UNCHANGED <<credits, bought, funds>>

(* payout_batch with gas for k payments, k >= 1: with less it panics.  A   *)
(* native payment to a string that is no account id panics the whole call. *)
PayoutBatch(l, k) ==
    /\ HasStatus(l, "Approved")
    /\ lists[l].token \in Native =>
          \A i \in Batch(l, k) : lists[l].payments[i].recipient \in NearPayees
    /\ lists' = [lists EXCEPT ![l].payments = MarkPaid(@, Batch(l, k))]
    /\ promises' = [s \in Slots |->
          IF s[1] = l /\ s[2] \in Batch(l, k)
          THEN [promises[s] EXCEPT !["inflight"] = @ + 1] ELSE promises[s]]
    /\ UNCHANGED <<credits, bought, funds>>

-----------------------------------------------------------------------------
(* The network runs the detached transfers; no callback follows. *)

SlotAmount(s) == lists[s[1]].payments[s[2]].amount
SlotToken(s) == lists[s[1]].token

DeliverTransfer(s) ==
    /\ promises[s]["inflight"] > 0
    /\ funds[SlotToken(s)] >= SlotAmount(s)
    /\ promises' = [promises EXCEPT ![s]["inflight"] = @ - 1,
                                    ![s]["delivered"] = @ + 1]
    /\ funds' = [funds EXCEPT ![SlotToken(s)] = @ - SlotAmount(s)]
    /\ UNCHANGED <<lists, credits, bought>>

(* The recipient does not exist, or is not registered with the token: the  *)
(* amount stays with, or returns to, the contract.                         *)
BounceTransfer(s) ==
    /\ promises[s]["inflight"] > 0
    /\ promises' = [promises EXCEPT ![s]["inflight"] = @ - 1,
                                    ![s]["bounced"] = @ + 1]
    /\ UNCHANGED <<lists, credits, bought, funds>>

-----------------------------------------------------------------------------
FundList(l) ==
    \E amount \in Amounts, sender \in Accounts :
        /\ Exists(l)
        /\ \/ ApproveList(sender, l, amount, ProposalToken(l))
           \/ FtOnTransfer(sender, l, amount, ProposalToken(l))
           \/ MtOnTransfer(l, amount, ProposalToken(l))

Call ==
    \/ \E a \in Accounts, n \in 1..MaxRecords : BuyStorage(a, n)
    \/ \E c, a \in Accounts, l \in ListIds, t \in Tokens, ps \in Inputs :
          SubmitList(c, a, l, t, ps)
    \/ \E l \in ListIds : FundList(l)
    \/ \E a \in Accounts, l \in ListIds : RejectList(a, l)
    \/ \E l \in ListIds, k \in 1..MaxRecords : PayoutBatch(l, k)

Network == \E s \in Slots : DeliverTransfer(s) \/ BounceTransfer(s)

Next == Call \/ Network

Spec == Init /\ [][Next]_contractVars

-----------------------------------------------------------------------------
(* Properties *)

SlotExists(s) == Exists(s[1]) /\ s[2] \in DOMAIN lists[s[1]].payments
Started(s) ==
    promises[s]["inflight"] + promises[s]["delivered"] + promises[s]["bounced"]
IsPaid(s) == SlotExists(s) /\ lists[s[1]].payments[s[2]].status = "Paid"

(* payout_batch may be called by anyone, any number of times and with any  *)
(* gas: still a payment's transfer is started at most once, exactly when   *)
(* the record says Paid, and only for a list that was approved.            *)
PaidExactlyOnce ==
    \A s \in Slots :
        /\ Started(s) = IF IsPaid(s) THEN 1 ELSE 0
        /\ IsPaid(s) => lists[s[1]].status = "Approved"

(* The records a holder of credits has stored. *)
RecordsOf(a) ==
    {s \in Slots : SlotExists(s) /\ lists[s[1]].submitter = a}

(* Every storage credit bought is either left or pays for one stored       *)
(* record of a list its account submitted.                                 *)
CreditsConserved ==
    \A a \in Accounts : bought[a] = credits[a] + Cardinality(RecordsOf(a))

(* What the contract holds of a token is what it still owes on approved    *)
(* lists, what is under way, and what came back: funds of one list never   *)
(* pay another one's payments.                                             *)
Backing(s) ==
    IF ~SlotExists(s) \/ lists[s[1]].status # "Approved" THEN 0
    ELSE SlotAmount(s) * (IF IsPaid(s)
           THEN promises[s]["inflight"] + promises[s]["bounced"] ELSE 1)
FundsBackPayments ==
    \A t \in Tokens :
        LET ofToken == {s \in Slots : Exists(s[1]) /\ SlotToken(s) = t}
        IN  funds[t] = SumFunction([s \in ofToken |-> Backing(s)])

(* A decided list stays decided, a paid payment stays paid, and nothing    *)
(* else in a stored list ever changes: approval is for what was submitted. *)
KeepsDecision(l) ==
    /\ lists'[l] # NoList
    /\ lists[l].status # "Pending" => lists'[l].status = lists[l].status
    /\ lists'[l].token = lists[l].token
    /\ lists'[l].submitter = lists[l].submitter
    /\ DOMAIN lists'[l].payments = DOMAIN lists[l].payments
    /\ \A i \in DOMAIN lists[l].payments :
         /\ lists'[l].payments[i].amount = lists[l].payments[i].amount
         /\ lists[l].payments[i].status = "Paid" =>
               lists'[l].payments[i].status = "Paid"
DecisionsAreFinal ==
    [][\A l \in ListIds : Exists(l) => KeepsDecision(l)]_lists

(* The contract implements the payout ledger: a payment is owed once its   *)
(* list is approved, and discharged when its record says Paid.             *)
OwedSlots ==
    {s \in Slots : /\ SlotExists(s) /\ ~IsPaid(s)
                   /\ lists[s[1]].status = "Approved"}
PaidSlots == {s \in Slots : IsPaid(s)}
Ledger == INSTANCE PayoutLedger
            WITH Payments <- Slots, owed <- OwedSlots, discharged <- PaidSlots
LedgerSpec == Ledger!Spec
=============================================================================
