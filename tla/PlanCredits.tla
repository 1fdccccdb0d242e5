----------------------------- MODULE PlanCredits -----------------------------
(***************************************************************************)
(* The credits of a treasury's plan: the columns export_credits,           *)
(* batch_payment_credits and gas_covered_transactions of                   *)
(* monitored_accounts, which exports (balance_changes/history.rs),         *)
(* bulk payments (bulkpayment/submit.rs) and sponsored relays (relay/)     *)
(* check and charge, while the reset job (subscription/reset_job.rs)       *)
(* renews them every month.  A month is a number.                          *)
(***************************************************************************)
EXTENDS Integers, FiniteSets

CONSTANTS
    Accounts,  \* treasuries
    PlanOf,    \* monitored_accounts.plan_type
    Monthly,   \* per plan, the credits of a kind renewed every month, or None
    Trial,     \* per plan, the credits of a kind given once, or None
    None,
    Requests,  \* requests for something that costs a credit
    Wants,     \* the account, the kind, and the export's file_url
    MaxMonth,  \* bound: months
    MaxFaults  \* bound: failing or interrupted resets

Plans == {"free", "plus", "pro", "enterprise"}
Kinds == {"export", "batch", "gas"}

ASSUME PlansAssumption == PlanOf \in [Accounts -> Plans]
ASSUME LimitsAssumption ==
    /\ None \notin Nat
    /\ Monthly \in [Plans -> [Kinds -> Nat \cup {None}]]
    /\ Trial \in [Plans -> [Kinds -> Nat \cup {None}]]
ASSUME WantsAssumption ==
    \A r \in Requests : Wants[r].account \in Accounts /\ Wants[r].kind \in Kinds
ASSUME CreditsBounds == MaxMonth \in Nat /\ MaxFaults \in Nat

VARIABLES
    month,    \* Utc::now()
    credits,  \* the three columns
    resetAt,  \* credits_reset_at
    exports,  \* export_history: account and file_url
    requests, \* where each request is
    job,      \* the reset transaction: when it began and what it read
    used,     \* history: served since the kind was last renewed
    faults

creditsVars == <<month, credits, resetAt, exports, requests, job, used, faults>>

(* get_initial_credits and get_monthly_reset_credits *)
Initial(a, k) == IF Monthly[PlanOf[a]][k] # None THEN Monthly[PlanOf[a]][k]
                 ELSE IF Trial[PlanOf[a]][k] # None THEN Trial[PlanOf[a]][k] ELSE 0
Renewed(a, k) == Monthly[PlanOf[a]][k] # None

NoJob == [open |-> FALSE, now |-> 0, read |-> << >>]

CreditsTypeOK ==
    /\ month \in 0..MaxMonth
    /\ credits \in [Accounts -> [Kinds -> Nat]]
    /\ \A a \in Accounts, k \in Kinds : credits[a][k] <= Initial(a, k)
    /\ resetAt \in [Accounts -> 1..(MaxMonth + 1)]
    /\ \A e \in exports : \E r \in Requests : e = <<Wants[r].account, Wants[r].url>>
    /\ requests \in [Requests -> {"new", "admitted", "served", "known", "refused", "charged"}]
    /\ job.open \in BOOLEAN /\ job.now \in 0..MaxMonth
    /\ used \in [Accounts -> [Kinds -> 0..Cardinality(Requests)]]
    /\ faults \in 0..MaxFaults

(* register_or_refresh_monitored_account: due with the next month. *)
CreditsInit ==
    /\ month = 0
    /\ credits = [a \in Accounts |-> [k \in Kinds |-> Initial(a, k)]]
    /\ resetAt = [a \in Accounts |-> 1]
    /\ exports = {}
    /\ requests = [r \in Requests |-> "new"]
    /\ job = NoJob
    /\ used = [a \in Accounts |-> [k \in Kinds |-> 0]]
    /\ faults = 0

Account(r) == Wants[r].account
Kind(r) == Wants[r].kind
Export(r) == <<Account(r), Wants[r].url>>
Left(r) == credits[Account(r)][Kind(r)]
Move(r, from, to) == requests[r] = from /\ requests' = [requests EXCEPT ![r] = to]

-----------------------------------------------------------------------------
(* An export: create_export_record *)

(* The same export was made before: nothing is checked or charged. *)
LookExportUp(r) ==
    /\ Kind(r) = "export"
    /\ Move(r, "new", IF Export(r) \in exports THEN "known" ELSE "admitted")
    /\ UNCHANGED <<month, credits, resetAt, exports, job, used, faults>>

(* Mutant: the charge is committed although the insert is refused. *)
ChargeExportFirst(r) ==
    /\ Kind(r) = "export" /\ Left(r) > 0
    /\ Move(r, "admitted", "charged")
    /\ credits' = [credits EXCEPT ![Account(r)].export = @ - 1]
    /\ exports' = exports \cup {Export(r)}
    /\ used' = IF Export(r) \in exports THEN used
               ELSE [used EXCEPT ![Account(r)].export = @ + 1]
    /\ UNCHANGED <<month, resetAt, job, faults>>

(* SELECT FOR UPDATE holds the row to the end of the transaction. *)
ChargeExport(r) ==
    /\ Kind(r) = "export" /\ Left(r) > 0
    /\ Export(r) \notin exports
    /\ Move(r, "admitted", "charged")
    /\ credits' = [credits EXCEPT ![Account(r)].export = @ - 1]
    /\ exports' = exports \cup {Export(r)}
    /\ used' = [used EXCEPT ![Account(r)].export = @ + 1]
    /\ UNCHANGED <<month, resetAt, job, faults>>

(* No credit is left, or the unique key refuses the record and everything  *)
(* is rolled back.                                                         *)
RefuseExport(r) ==
    /\ Kind(r) = "export" /\ (Left(r) = 0 \/ Export(r) \in exports)
    /\ Move(r, "admitted", "refused")
    /\ UNCHANGED <<month, credits, resetAt, exports, job, used, faults>>

-----------------------------------------------------------------------------
(* A bulk payment list and a sponsored relay: checked, served, charged. *)

(* submit_list looks at the column alone, authorize_relay at the plan too. *)
HasCredits(r) == \/ Left(r) > 0
                 \/ Kind(r) = "gas" /\ PlanOf[Account(r)] = "enterprise"

CheckCredits(r) ==
    /\ Kind(r) # "export"
    /\ Move(r, "new", IF HasCredits(r) THEN "admitted" ELSE "refused")
    /\ UNCHANGED <<month, credits, resetAt, exports, job, used, faults>>

Serve(r) ==
    /\ Kind(r) # "export"
    /\ Move(r, "admitted", "served")
    /\ used' = [used EXCEPT ![Account(r)][Kind(r)] = @ + 1]
    /\ UNCHANGED <<month, credits, resetAt, exports, job, faults>>

ChargeServed(r) ==
    /\ Move(r, "served", "charged")
    /\ credits' = [credits EXCEPT ![Account(r)][Kind(r)] = IF @ > 0 THEN @ - 1 ELSE 0]
    /\ UNCHANGED <<month, resetAt, exports, job, used, faults>>

-----------------------------------------------------------------------------
(* reset_due_monthly_plan_credits: at startup and at every UTC midnight, in *)
(* a transaction that locks nothing when it reads.                         *)
(* Mutant: an account is due in the month its reset falls in. *)
DueThatMonth == {a \in Accounts : resetAt[a] = month}

Due == {a \in Accounts : resetAt[a] <= month}

ReadDue ==
    /\ ~job.open /\ Due # {}
    /\ job' = [open |-> TRUE, now |-> month, read |-> [a \in Due |-> credits[a]]]
    /\ UNCHANGED <<month, credits, resetAt, exports, requests, used, faults>>

(* The updates of the transaction are one step: a charge waits for the     *)
(* row's lock, so it comes before the update or after the commit.          *)
CommitReset ==
    LET due == DOMAIN job.read IN
    /\ job.open
    /\ job' = NoJob
    /\ credits' = [a \in Accounts |-> IF a \notin due THEN credits[a] ELSE
           [k \in Kinds |-> IF Renewed(a, k) THEN Initial(a, k) ELSE job.read[a][k]]]
    /\ resetAt' = [a \in Accounts |-> IF a \in due THEN job.now + 1 ELSE resetAt[a]]
    /\ used' = [a \in Accounts |-> [k \in Kinds |->
           IF a \in due /\ Renewed(a, k) THEN 0 ELSE used[a][k]]]
    /\ UNCHANGED <<month, exports, requests, faults>>

(* A statement fails or the process stops: the transaction is rolled back. *)
AbortReset ==
    /\ job.open /\ faults < MaxFaults
    /\ job' = NoJob
    /\ faults' = faults + 1
    /\ UNCHANGED <<month, credits, resetAt, exports, requests, used>>

Tick ==
    /\ month < MaxMonth
    /\ month' = month + 1
    /\ UNCHANGED <<credits, resetAt, exports, requests, job, used, faults>>

-----------------------------------------------------------------------------
Serving(r) == \/ LookExportUp(r) \/ ChargeExport(r) \/ RefuseExport(r)
              \/ CheckCredits(r) \/ Serve(r) \/ ChargeServed(r)

CreditsNext ==
    \/ \E r \in Requests : Serving(r)
    \/ ReadDue \/ CommitReset \/ AbortReset
    \/ Tick

(* Every midnight comes, and every transaction ends. *)
CreditsSpec ==
    /\ CreditsInit /\ [][CreditsNext]_creditsVars
    /\ WF_creditsVars(ReadDue) /\ WF_creditsVars(CommitReset)

-----------------------------------------------------------------------------
(* On a plan whose exports are renewed, what is left and what was exported *)
(* since are the plan's credits: overlapping exports, the same export made *)
(* twice at once and a reset in between lose no credit and give none away. *)
ExportsAreCharged ==
    \A a \in Accounts : Renewed(a, "export") =>
        credits[a].export + used[a].export = Initial(a, "export")

(* An account that is due is reset in the end, although resets fail.       *)
DueAccountsAreReset ==
    \A a \in Accounts, m \in 1..MaxMonth :
        (month >= m /\ resetAt[a] <= m) ~> resetAt[a] > m

(* Trial credits are given once: what they paid for never exceeds them.    *)
TrialIsOneTime ==
    \A a \in Accounts, k \in Kinds :
        PlanOf[a] = "free" /\ ~Renewed(a, k) => used[a][k] <= Initial(a, k)
=============================================================================
