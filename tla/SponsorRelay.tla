----------------------------- MODULE SponsorRelay -----------------------------
(***************************************************************************)
(* The relay endpoint (nt-be/src/handlers/relay): it sponsors one signed   *)
(* add_proposal or act_proposal of a treasury.  The sponsor tops up the    *)
(* treasury's storage, registers token recipients, submits the action, and *)
(* accounts for what it spent in the treasury's monitored_accounts row.    *)
(*                                                                         *)
(* Relays run concurrently; every await is a step boundary.  A transaction *)
(* may land although its sender is told it failed.  The accounting runs    *)
(* detached and its failure is only logged.                                *)
(***************************************************************************)
EXTENDS Integers, FiniteSets, Functions

CONSTANTS
    Relays,       \* calls of relay_delegate_action
    Asked,        \* what each one carries
    Treasuries,
    Actions,      \* signed delegate actions, each with a nonce of its own
    Targets,      \* (account, token) pairs that may need a storage_deposit
    Unlimited,    \* treasuries with a plan that does not count gas credits
    Legacy,       \* treasuries onboarded before the sponsorship cutoff
    Bond,         \* proposal_bond of a treasury's policy
    GasCredits,   \* gas_covered_transactions at the start
    RegCost,      \* STORAGE_DEPOSIT_AMOUNT
    MaxTopUp,     \* cost of MAX_PROPOSAL_STORAGE_BYTES
    MaxSponsoring,  \* MAX_SPONSORING
    MaxTargets,   \* MAX_STORAGE_DEPOSITS
    MaxAttempts,  \* RetryPolicy::rpc().max_attempts
    MaxCrashes    \* bound: how often the backend process stops

ASSUME RelayAssumption ==
    /\ Asked \in [Relays -> [treasury : Treasuries, action : Actions,
                             kind : {"add", "vote"}, deposit : Nat,
                             topUp : Nat, targets : SUBSET Targets]]
    /\ Unlimited \subseteq Treasuries /\ Legacy \subseteq Treasuries
    /\ Bond \in [Treasuries -> Nat]
ASSUME RelayBounds ==
    /\ GasCredits \in Nat /\ RegCost \in Nat /\ MaxTargets \in Nat
    /\ MaxTopUp \in Nat /\ MaxSponsoring \in Nat /\ MaxTopUp + 1 <= MaxSponsoring
    /\ MaxAttempts \in Nat \ {0} /\ MaxCrashes \in Nat
ASSUME RelaysAreFinite == IsFiniteSet(Relays) /\ IsFiniteSet(Targets)

VARIABLES
    relay,      \* where each handler is, and the attempts its send has left
    regs,       \* the registrations of a relay, each with its attempts left
    landed,     \* signed actions that executed
    registered, \* targets the token contracts know
    gas,        \* monitored_accounts.gas_covered_transactions
    paid,       \* monitored_accounts.paid_near
    task,       \* the detached accounting task of a relay
    spent,      \* history: NEAR that left the sponsor for a relay
    refunds,    \* history: storage_deposits of a relay that were refunded
    crashes

ledgerVars == <<gas, paid, task, crashes>>
chainVars == <<landed, registered, spent, refunds>>
vars == <<relay, regs, ledgerVars, chainVars>>

Phases == {"new", "allowed", "funded", "registering", "submitting",
           "done", "failed", "lost"}
RegStates == {"none", "check", "send", "sent", "known", "failed"}
NoTask == [st |-> "none", amount |-> 0, credit |-> FALSE]

RelayTypeOK ==
    /\ relay \in [Relays -> [at : Phases, left : 0..MaxAttempts]]
    /\ regs \in [Relays -> [Targets -> [st : RegStates, left : 0..MaxAttempts]]]
    /\ landed \subseteq Actions
    /\ registered \subseteq Targets
    /\ gas \in [Treasuries -> 0..GasCredits]
    /\ paid \in [Treasuries -> Nat]
    /\ task \in [Relays -> [st : {"none", "queued", "run", "dropped"},
                            amount : Nat, credit : BOOLEAN]]
    /\ spent \in [Relays -> [topUp : Nat, deposit : Nat, regs : Nat]]
    /\ refunds \in [Relays -> Nat]
    /\ crashes \in 0..MaxCrashes

RelayInit ==
    /\ relay = [r \in Relays |-> [at |-> "new", left |-> 0]]
    /\ regs = [r \in Relays |-> [t \in Targets |-> [st |-> "none", left |-> 0]]]
    /\ landed = {} /\ registered = {}
    /\ gas = [d \in Treasuries |-> GasCredits]
    /\ paid = [d \in Treasuries |-> 0]
    /\ task = [r \in Relays |-> NoTask]
    /\ spent = [r \in Relays |-> [topUp |-> 0, deposit |-> 0, regs |-> 0]]
    /\ refunds = [r \in Relays |-> 0]
    /\ crashes = 0

-----------------------------------------------------------------------------
(* Helpers *)

At(r, phase) == relay[r].at = phase
GoTo(r, phase) == relay' = [relay EXCEPT ![r] = [at |-> phase, left |-> MaxAttempts]]
Treasury(r) == Asked[r].treasury
IsAdd(r) == Asked[r].kind = "add"

(* proposal_storage_cost, of an add_proposal only. *)
TopUpCost(r) == IF IsAdd(r) THEN Asked[r].topUp ELSE 0

(* enforce_deposit_limit: the bond for a legacy treasury, within the       *)
(* absolute ceiling; one yoctoNEAR for the others.                         *)
WithinLimit(r) ==
    IF Treasury(r) \in Legacy
    THEN LET limit == Bond[Treasury(r)] + TopUpCost(r)
         IN  Asked[r].deposit + TopUpCost(r) <=
                 IF limit < MaxSponsoring THEN limit ELSE MaxSponsoring
    ELSE Asked[r].deposit <= 1

HasGasCredits(d) == d \in Unlimited \/ gas[d] > 0

Pending(r) == {t \in Targets : regs[r][t].st \in {"check", "send"}}
Failed(r) == {t \in Targets : regs[r][t].st = "failed"}
Sent(r) == {t \in Targets : regs[r][t].st = "sent"}

(* Mutant: every registration counts, sent or not. *)
FrontedSpendAll(r) ==
    TopUpCost(r) + RegCost * Cardinality({t \in Targets : regs[r][t].st # "none"})

(* The NEAR already fronted, as the handler knows it: fronted_spend. *)
FrontedSpend(r) == TopUpCost(r) + RegCost * Cardinality(Sent(r))

(* spawn_charge and spawn_record_spend. *)
SpawnSpend(r, amount, credit) ==
    task' = [task EXCEPT ![r] = [st |-> "queued", amount |-> amount,
                                 credit |-> credit]]

-----------------------------------------------------------------------------
(* Steps 1 to 4: checks, then the storage top-up *)

(* Everything is read, and nothing written, before the top-up. *)
Authorize(r) ==
    /\ At(r, "new")
    /\ HasGasCredits(Treasury(r))
    /\ WithinLimit(r)
    /\ TopUpCost(r) <= MaxTopUp
    /\ GoTo(r, IF IsAdd(r) THEN "allowed" ELSE "funded")
    /\ UNCHANGED <<regs, ledgerVars, chainVars>>

(* One of these does not hold, the action does not parse, the user has no  *)
(* such permission, or a read fails, which may happen to any relay.        *)
RefuseRelay(r) ==
    /\ At(r, "new")
    /\ GoTo(r, "failed")
    /\ UNCHANGED <<regs, ledgerVars, chainVars>>

(* Mutant: the transfer is retried like the other sends. *)
TopUpRetried(r) ==
    /\ At(r, "allowed")
    /\ spent' = [spent EXCEPT ![r].topUp = @ + TopUpCost(r)]
    /\ \/ GoTo(r, "funded")
       \/ GoTo(r, "allowed") /\ spent[r].topUp = 0
    /\ UNCHANGED <<regs, ledgerVars, landed, registered, refunds>>

(* transfer_once lands; when its answer is lost, the relay fails. *)
TopUp(r) ==
    /\ At(r, "allowed")
    /\ spent' = [spent EXCEPT ![r].topUp = @ + TopUpCost(r)]
    /\ GoTo(r, "funded") \/ GoTo(r, "failed")
    /\ UNCHANGED <<regs, ledgerVars, landed, registered, refunds>>

TopUpFails(r) ==
    /\ At(r, "allowed")
    /\ GoTo(r, "failed")
    /\ UNCHANGED <<regs, ledgerVars, chainVars>>

-----------------------------------------------------------------------------
(* Step 5: the registrations of approving votes, all of them at once *)

(* A proposal or a bulk list that cannot be fetched yields no targets. *)
DeriveTargets(r) ==
    /\ At(r, "funded")
    /\ \E S \in SUBSET Asked[r].targets :
         /\ IsAdd(r) => S = {}
         /\ Cardinality(S) <= MaxTargets
         /\ regs' = [regs EXCEPT ![r] = [t \in Targets |->
                [st |-> IF t \in S THEN "check" ELSE "none",
                 left |-> IF t \in S THEN MaxAttempts ELSE 0]]]
    /\ GoTo(r, "registering")
    /\ UNCHANGED <<ledgerVars, chainVars>>

TooManyTargets(r) ==
    /\ At(r, "funded") /\ ~IsAdd(r)
    /\ Cardinality(Asked[r].targets) > MaxTargets
    /\ GoTo(r, "failed")
    /\ SpawnSpend(r, FrontedSpend(r), FALSE)
    /\ UNCHANGED <<regs, gas, paid, crashes, chainVars>>

(* check_storage_deposit; when it fails, the deposit is sent anyway. *)
CheckRegistered(r, t) ==
    /\ At(r, "registering") /\ regs[r][t].st = "check"
    /\ \E known \in BOOLEAN :
         /\ known => t \in registered
         /\ regs' = [regs EXCEPT ![r][t].st = IF known THEN "known" ELSE "send"]
    /\ UNCHANGED <<relay, ledgerVars, chainVars>>

(* A send that ended with an error: retried until no attempt is left. *)
RegRetry(r, t) ==
    regs' = [regs EXCEPT ![r][t] =
        [st |-> IF @.left > 1 THEN "send" ELSE "failed", left |-> @.left - 1]]

(* The storage_deposit lands: paid once for a target, refunded afterwards. *)
RegLands(r, t) ==
    /\ registered' = registered \cup {t}
    /\ IF t \in registered
       THEN refunds' = [refunds EXCEPT ![r] = @ + 1] /\ UNCHANGED spent
       ELSE /\ spent' = [spent EXCEPT ![r].regs = @ + RegCost]
            /\ UNCHANGED refunds
    /\ UNCHANGED landed

StorageDeposit(r, t) ==
    /\ At(r, "registering") /\ regs[r][t].st = "send"
    /\ \/ RegLands(r, t) /\ regs' = [regs EXCEPT ![r][t].st = "sent"]
       \/ RegLands(r, t) /\ RegRetry(r, t)             \* the answer is lost
       \/ UNCHANGED chainVars /\ RegRetry(r, t)        \* never sent
       \/ UNCHANGED chainVars                          \* the call panics
          /\ regs' = [regs EXCEPT ![r][t].st = "failed"]
    /\ UNCHANGED <<relay, ledgerVars>>

(* Mutant: a registration that failed does not stop the vote. *)
EndRegistrationsAnyway(r) ==
    /\ At(r, "registering") /\ Pending(r) = {}
    /\ GoTo(r, "submitting")
    /\ UNCHANGED <<regs, ledgerVars, chainVars>>

(* All have run to completion: the first failure fails the relay. *)
EndRegistrations(r) ==
    /\ At(r, "registering") /\ Pending(r) = {}
    /\ IF Failed(r) = {}
       THEN GoTo(r, "submitting") /\ UNCHANGED task
       ELSE GoTo(r, "failed") /\ SpawnSpend(r, FrontedSpend(r), FALSE)
    /\ UNCHANGED <<regs, gas, paid, crashes, chainVars>>

-----------------------------------------------------------------------------
(* Steps 6 and 7: submit, then account *)

ActionLands(r) ==
    /\ Asked[r].action \notin landed
    /\ landed' = landed \cup {Asked[r].action}
    /\ spent' = [spent EXCEPT ![r].deposit = Asked[r].deposit]
    /\ UNCHANGED <<registered, refunds>>

SubmitLands(r) ==
    /\ At(r, "submitting")
    /\ ActionLands(r)
    /\ GoTo(r, "done")
    /\ SpawnSpend(r, FrontedSpend(r) + Asked[r].deposit, TRUE)
    /\ UNCHANGED <<regs, gas, paid, crashes>>

(* Mutant: a failed relay costs a gas credit as well. *)
FailSubmitCharged(r) ==
    /\ GoTo(r, "failed")
    /\ SpawnSpend(r, FrontedSpend(r), TRUE)

FailSubmit(r) ==
    /\ GoTo(r, "failed")
    /\ SpawnSpend(r, FrontedSpend(r), FALSE)

(* Mutant: send errors are retried for ever. *)
SubmitRetryForever(r) ==
    /\ relay' = [relay EXCEPT ![r].left = IF @ > 1 THEN @ - 1 ELSE MaxAttempts]
    /\ UNCHANGED task

SubmitRetry(r) ==
    IF relay[r].left > 1
    THEN relay' = [relay EXCEPT ![r].left = @ - 1] /\ UNCHANGED task
    ELSE FailSubmit(r)

(* send_to ends with an error, whether the action landed or not. *)
SubmitUnanswered(r) ==
    /\ At(r, "submitting")
    /\ ActionLands(r) \/ UNCHANGED chainVars
    /\ SubmitRetry(r)
    /\ UNCHANGED <<regs, gas, paid, crashes>>

(* The nonce was used, or the call panics: not retried. *)
SubmitRejected(r) ==
    /\ At(r, "submitting")
    /\ FailSubmit(r)
    /\ UNCHANGED <<regs, gas, paid, crashes, chainVars>>

(* apply_spend: one UPDATE of the treasury's row. *)
ApplySpend(r) ==
    /\ task[r].st = "queued"
    /\ gas' = IF task[r].credit /\ gas[Treasury(r)] > 0
              THEN [gas EXCEPT ![Treasury(r)] = @ - 1] ELSE gas
    /\ paid' = [paid EXCEPT ![Treasury(r)] = @ + task[r].amount]
    /\ task' = [task EXCEPT ![r].st = "run"]
    /\ UNCHANGED <<relay, regs, crashes, chainVars>>

(* The UPDATE fails, which is only logged. *)
SpendFails(r) ==
    /\ task[r].st = "queued"
    /\ task' = [task EXCEPT ![r].st = "dropped"]
    /\ UNCHANGED <<relay, regs, gas, paid, crashes, chainVars>>

(* The process stops: handlers and tasks under way are lost. *)
Crash ==
    /\ crashes < MaxCrashes
    /\ crashes' = crashes + 1
    /\ relay' = [r \in Relays |->
          IF relay[r].at \in {"new", "done", "failed"} THEN relay[r]
          ELSE [at |-> "lost", left |-> 0]]
    /\ task' = [r \in Relays |-> IF task[r].st = "queued"
                                 THEN [task[r] EXCEPT !.st = "dropped"]
                                 ELSE task[r]]
    /\ UNCHANGED <<regs, gas, paid, chainVars>>

-----------------------------------------------------------------------------
Handler(r) ==
    \/ Authorize(r) \/ RefuseRelay(r)
    \/ TopUp(r) \/ TopUpFails(r)
    \/ DeriveTargets(r) \/ TooManyTargets(r)
    \/ \E t \in Targets : CheckRegistered(r, t) \/ StorageDeposit(r, t)
    \/ EndRegistrations(r)
    \/ SubmitLands(r) \/ SubmitUnanswered(r) \/ SubmitRejected(r)

RelayNext ==
    \/ \E r \in Relays : Handler(r) \/ ApplySpend(r) \/ SpendFails(r)
    \/ Crash

(* The runtime polls the handlers until they return. *)
RelaySpec ==
    RelayInit /\ [][RelayNext]_vars /\ WF_vars(\E r \in Relays : Handler(r))

-----------------------------------------------------------------------------
(* Properties *)

Over(r) == relay[r].at \in {"done", "failed", "lost"}

(* Whatever is retried, lost or restarted, a relay's top-up and deposit    *)
(* together stay below the sponsor's absolute ceiling.                     *)
FrontedIsBounded ==
    \A r \in Relays : spent[r].topUp + spent[r].deposit <= MaxSponsoring

(* A vote is submitted only when every account it was found to pay is      *)
(* registered with its token: through failing checks, lost answers and     *)
(* other relays that register the same accounts.                           *)
VotesFindTokensRegistered ==
    \A r \in Relays : At(r, "submitting") =>
        \A t \in Targets : regs[r][t].st # "none" => t \in registered

(* A treasury uses up a gas credit for a landed action only, once for each,*)
(* however often that action is relayed.                                   *)
LandedOf(d) ==
    {a \in landed : \E r \in Relays : Asked[r].action = a /\ Treasury(r) = d}
CreditsForLandedActions ==
    \A d \in Treasuries : GasCredits - gas[d] <= Cardinality(LandedOf(d))

(* paid_near, with what is still under way to it, never says more than     *)
(* left the sponsor's account, but for storage deposits that came back.    *)
RelaysOf(d) == {r \in Relays : Treasury(r) = d}
Underway(r) == IF task[r].st = "queued" THEN task[r].amount ELSE 0
Outlay(r) ==
    spent[r].topUp + spent[r].deposit + spent[r].regs + RegCost * refunds[r]
PaidWasSpent ==
    \A d \in Treasuries :
        paid[d] + SumFunction([r \in RelaysOf(d) |-> Underway(r)])
            <= SumFunction([r \in RelaysOf(d) |-> Outlay(r)])

(* Every relay that passed its checks comes to an end, with an answer or   *)
(* lost in a restart: retries are bounded, and no relay waits for another. *)
RelaysEnd == []<>(\A r \in Relays : At(r, "new") \/ Over(r))
=============================================================================
