-------------------------- MODULE BulkPayoutService --------------------------
(***************************************************************************)
(* The backend around the bulk payment contract: the submit_list handler   *)
(* (nt-be/src/handlers/bulkpayment/submit.rs), the pending_payment_lists   *)
(* table, and the payout worker (bulkpayment/worker.rs, main.rs) that      *)
(* polls the contract and calls payout_batch.                              *)
(*                                                                         *)
(* Handlers run concurrently with each other and with the worker; every    *)
(* await is a step boundary.  The process may stop between any two steps   *)
(* and lose whatever was under way, but never a committed row.  The answer *)
(* of a transaction may be lost although the transaction ran.              *)
(***************************************************************************)
EXTENDS BulkPayment

CONSTANTS
    Requests,    \* calls of the submit_list endpoint
    Wanted,      \* what a request asks for: list, dao, submitter, token, payments
    MaxRecipients,  \* MAX_RECIPIENTS_PER_BULK_PAYMENT
    WorkerBatch, \* payments one payout_batch call with the worker's gas can do
    InitialQuota,\* batch payment credits a monitored treasury starts with
    NoPlan,      \* the treasury has no monitored_accounts row
    MaxCrashes   \* bound: how often the backend process stops

ASSUME WantedAssumption ==
    Wanted \in [Requests -> [list : ListIds, dao : Accounts,
                             submitter : Accounts, token : Tokens,
                             payments : Inputs]]
ASSUME RequestsAreFinite == IsFiniteSet(Requests)
ASSUME ServiceBounds ==
    /\ MaxRecipients \in Nat /\ MaxCrashes \in Nat
    /\ InitialQuota \in Nat /\ NoPlan \notin Nat
    /\ WorkerBatch \in 1..MaxRecords

Treasuries == {Wanted[r].dao : r \in Requests}

VARIABLES
    requests, \* where each submit_list handler is
    quota,    \* monitored_accounts.batch_payment_credits
    queue,    \* pending_payment_lists: absent, queued, or completed_at set
    worker,   \* idle, or the rows the current pass has not come to
    crashes

serviceVars == <<requests, quota, queue, worker, crashes>>
vars == <<contractVars, serviceVars>>

Idle == [pass |-> "idle", todo |-> {}, paying |-> {}]

ServiceTypeOK ==
    /\ TypeOK
    /\ requests \in [Requests -> {"new", "allowed", "landed", "charged",
                                  "done", "failed", "lost"}]
    /\ quota \in [Treasuries -> Nat \cup {NoPlan}]
    /\ queue \in [ListIds -> {"absent", "queued", "completed"}]
    /\ worker \in [pass : {"idle", "scanning"}, todo : SUBSET ListIds,
                   paying : SUBSET ListIds]
    /\ crashes \in 0..MaxCrashes

ServiceInit ==
    /\ Init
    /\ requests = [r \in Requests |-> "new"]
    /\ quota \in [Treasuries -> {InitialQuota, NoPlan}]
    /\ queue = [l \in ListIds |-> "absent"]
    /\ worker = Idle
    /\ crashes = 0

-----------------------------------------------------------------------------
(* The submit_list handler *)

Advance(r, from, to) ==
    /\ requests[r] = from
    /\ requests' = [requests EXCEPT ![r] = to]

HasQuota(d) == quota[d] \in Nat => quota[d] > 0

(* The request is well formed, the caller may add proposals, and the       *)
(* credits read from the database are not used up.                         *)
CheckRequest(r) ==
    /\ Len(Wanted[r].payments) <= MaxRecipients
    /\ HasQuota(Wanted[r].dao)
    /\ Advance(r, "new", "allowed")
    /\ UNCHANGED <<contractVars, quota, queue, worker, crashes>>

(* One of these does not hold, or the policy or the credits cannot be      *)
(* read, which may happen to any request.                                  *)
RefuseRequest(r) ==
    /\ Advance(r, "new", "failed")
    /\ UNCHANGED <<contractVars, quota, queue, worker, crashes>>

(* One transaction, one receipt, two calls by the contract's own account:  *)
(* buy_storage for the treasury, then submit_list for the submitter.       *)
BuyAndSubmit(w) ==
    LET n == Len(w.payments)
        bought1 == [credits EXCEPT ![w.dao] = @ + n]
    IN  /\ CanSubmit(w.list, w.payments, bought1[w.submitter])
        /\ bought' = [bought EXCEPT ![w.dao] = @ + n]
        /\ credits' = [bought1 EXCEPT ![w.submitter] = @ - n]
        /\ lists' = [lists EXCEPT
              ![w.list] = NewList(w.token, w.payments, w.submitter)]
        /\ UNCHANGED <<promises, funds>>

SubmitLands(r) ==
    /\ Advance(r, "allowed", "landed")
    /\ BuyAndSubmit(Wanted[r])
    /\ UNCHANGED <<quota, queue, worker, crashes>>

(* send_to fails, although the transaction ran: the handler reports an     *)
(* error and stops.                                                        *)
SubmitAnswerLost(r) ==
    /\ Advance(r, "allowed", "failed")
    /\ BuyAndSubmit(Wanted[r])
    /\ UNCHANGED <<quota, queue, worker, crashes>>

(* Mutant: the credit is taken although the transaction failed. *)
SubmitFailsCharged(r) ==
    /\ Advance(r, "allowed", "charged")
    /\ quota[Wanted[r].dao] \in Nat \ {0}
    /\ quota' = [quota EXCEPT ![Wanted[r].dao] = @ - 1]
    /\ UNCHANGED <<contractVars, queue, worker, crashes>>

SubmitFails(r) ==
    /\ Advance(r, "allowed", "failed")
    /\ UNCHANGED <<contractVars, quota, queue, worker, crashes>>

(* GREATEST(batch_payment_credits - 1, 0); a database error is swallowed.  *)
ChargeQuota(r) ==
    /\ Advance(r, "landed", "charged")
    /\ LET d == Wanted[r].dao IN
         \/ quota' = IF quota[d] \in Nat \ {0}
                     THEN [quota EXCEPT ![d] = @ - 1] ELSE quota
         \/ quota' = quota
    /\ UNCHANGED <<contractVars, queue, worker, crashes>>

(* add_pending_list: ON CONFLICT DO NOTHING; an error is swallowed.        *)
EnqueueList(r) ==
    /\ Advance(r, "charged", "done")
    /\ LET l == Wanted[r].list IN
         \/ queue' = IF queue[l] = "absent"
                     THEN [queue EXCEPT ![l] = "queued"] ELSE queue
         \/ queue' = queue
    /\ UNCHANGED <<contractVars, quota, worker, crashes>>

-----------------------------------------------------------------------------
(* The payout worker: one pass over the open rows every five seconds *)

ScanQueue ==
    /\ worker.pass = "idle"
    /\ worker' = [pass |-> "scanning", paying |-> {},
                  todo |-> {l \in ListIds : queue[l] = "queued"}]
    /\ UNCHANGED <<contractVars, requests, quota, queue, crashes>>

EndPass ==
    /\ worker.pass = "scanning" /\ worker.todo = {} /\ worker.paying = {}
    /\ worker' = Idle
    /\ UNCHANGED <<contractVars, requests, quota, queue, crashes>>

(* Mutant: a pending list is taken for a decided one. *)
OverAtOnce(l) == ~(HasStatus(l, "Approved") /\ PendingOf(l) # {})

(* Nothing is left to do for a list: gone, rejected, or all paid. *)
Over(l) ==
    /\ ~HasStatus(l, "Pending")
    /\ HasStatus(l, "Approved") => PendingOf(l) = {}

(* view_list answers: skip a pending list, complete one that is over, or   *)
(* go on to pay it.                                                        *)
ViewList(l) ==
    /\ l \in worker.todo /\ worker.paying = {}
    /\ queue' = IF Over(l) THEN [queue EXCEPT ![l] = "completed"] ELSE queue
    /\ worker' = [worker EXCEPT !.todo = @ \ {l},
          !.paying = IF HasStatus(l, "Approved") /\ ~Over(l) THEN {l} ELSE {}]
    /\ UNCHANGED <<contractVars, requests, quota, crashes>>

(* view_list does not answer, or completing the row fails: the row waits   *)
(* for the next pass.                                                      *)
ViewFails(l) ==
    /\ l \in worker.todo /\ worker.paying = {}
    /\ worker' = [worker EXCEPT !.todo = @ \ {l}]
    /\ UNCHANGED <<contractVars, requests, quota, queue, crashes>>

(* Mutant: one successful payout call completes the row. *)
PayListOnce(l) ==
    /\ l \in worker.paying
    /\ PayoutBatch(l, WorkerBatch)
    /\ worker' = [worker EXCEPT !.paying = {}]
    /\ queue' = [queue EXCEPT ![l] = "completed"]
    /\ UNCHANGED <<requests, quota, crashes>>

PayList(l) ==
    /\ l \in worker.paying
    /\ PayoutBatch(l, WorkerBatch)
    /\ worker' = [worker EXCEPT !.paying = {}]
    /\ UNCHANGED <<requests, quota, queue, crashes>>

(* The transaction is not sent, or the call panics. *)
PayFails(l) ==
    /\ l \in worker.paying
    /\ worker' = [worker EXCEPT !.paying = {}]
    /\ UNCHANGED <<contractVars, requests, quota, queue, crashes>>

-----------------------------------------------------------------------------
(* The process stops: handlers under way are lost, the worker starts over. *)
Crash ==
    /\ crashes < MaxCrashes
    /\ crashes' = crashes + 1
    /\ requests' = [r \in Requests |->
          IF requests[r] \in {"allowed", "landed", "charged"}
          THEN "lost" ELSE requests[r]]
    /\ worker' = Idle
    /\ UNCHANGED <<contractVars, quota, queue>>

(* What the treasury's votes do to a submitted list, what anybody may call *)
(* and what the network does.                                              *)
Decide == \E l \in ListIds :
              FundList(l) \/ \E a \in Accounts : RejectList(a, l)
SomebodyPays == \E l \in ListIds, k \in 1..MaxRecords : PayoutBatch(l, k)
Outside == (Decide \/ SomebodyPays \/ Network) /\ UNCHANGED serviceVars

Handler(r) ==
    \/ CheckRequest(r) \/ RefuseRequest(r)
    \/ SubmitLands(r) \/ SubmitAnswerLost(r) \/ SubmitFails(r)
    \/ ChargeQuota(r) \/ EnqueueList(r)

Worker ==
    \/ ScanQueue \/ EndPass
    \/ \E l \in ListIds : ViewList(l) \/ ViewFails(l) \/ PayList(l) \/ PayFails(l)

ServiceNext ==
    \/ \E r \in Requests : Handler(r)
    \/ Worker
    \/ Crash
    \/ Outside

(* The worker task loops for as long as the process runs, and is started   *)
(* again with it.  The RPC endpoint does not fail for ever: of infinitely  *)
(* many views or payouts of a list, infinitely many get through.           *)
ServiceFairness ==
    /\ WF_vars(Worker)
    /\ \A l \in ListIds : SF_vars(ViewList(l)) /\ SF_vars(PayList(l))

ServiceSpec ==
    ServiceInit /\ [][ServiceNext]_vars /\ ServiceFairness

-----------------------------------------------------------------------------
(* Properties *)

AllPaid(l) == HasStatus(l, "Approved") /\ PendingOf(l) = {}

(* A payment to a string that is no NEAR account panics the batch it is    *)
(* in, so a native list that has one is not payable.                       *)
Payable(l) ==
    lists[l].token \in Native =>
        \A i \in DOMAIN lists[l].payments :
            lists[l].payments[i].recipient \in NearPayees

(* completed_at is set once and for all, although the view it is based on  *)
(* may be overtaken by calls: such a list is never owed anything later.    *)
CompletedIsOver == \A l \in ListIds : queue[l] = "completed" => Over(l)

(* A treasury is charged for lists that reached the contract only.         *)
ListsOf(d) ==
    {Wanted[r].list : r \in {q \in Requests : /\ Wanted[q].dao = d
                                            /\ Exists(Wanted[q].list)}}
ChargedForLists ==
    \A d \in Treasuries : quota[d] \in Nat =>
        InitialQuota - quota[d] <= Cardinality(ListsOf(d))

(* A row in the queue is worked on until its list is paid, through failing *)
(* views, failing transactions and restarts of the process.                *)
QueuedListsGetPaid ==
    \A l \in ListIds :
        (queue[l] = "queued" /\ HasStatus(l, "Approved") /\ Payable(l))
            ~> (AllPaid(l) /\ queue[l] = "completed")

(* What submit.rs says of its last step: the worker will poll the list and *)
(* process its payments once approved.                                     *)
SubmittedListsGetPaid ==
    \A l \in ListIds : (HasStatus(l, "Approved") /\ Payable(l)) ~> AllPaid(l)
=============================================================================
