-------------------------- MODULE ConfidentialIntents --------------------------
(***************************************************************************)
(* Confidential intents: generate_intent stores a payload as pending, a    *)
(* vote on its proposal makes v1.signer sign it, the relay of that vote    *)
(* submits the signed intent to the 1Click API in a detached task          *)
(* (nt-be/src/handlers/relay/confidential.rs), and the enrichment worker   *)
(* marks it once the signer's outcome is indexed                           *)
(* (balance_changes/confidential_enrichment.rs).                           *)
(*                                                                         *)
(* The tasks, the worker and the handlers share the confidential_intents   *)
(* row and take no lock on it.                                             *)
(***************************************************************************)
EXTENDS Integers, Sequences, FiniteSets

CONSTANTS
    Intents,   \* payload hashes of one treasury
    Votes,     \* sponsored vote relays
    Carries,   \* the intents a relay's votes are about, in order
    MayFail,   \* whether database and API calls may fail
    MaxStores, \* bound: how often an intent's payload is generated
    MaxCrashes \* bound: how often the backend process stops

ASSUME CarriesAssumption == Carries \in [Votes -> Seq(Intents)]
ASSUME FailureAssumption == MayFail \in BOOLEAN
ASSUME IntentBounds == MaxStores \in Nat /\ MaxCrashes \in Nat

VARIABLES
    status,   \* confidential_intents.status
    stores,   \* how often the payload was generated
    votes,    \* where a vote relay is, and which intents its votes had signed
    tasks,    \* the auto-submit tasks of a relay
    unread,   \* signer outcomes the enrichment cursor has not passed
    missed,   \* history: outcomes the cursor passed although the update failed
    accepted, \* what the 1Click API took
    crashes

intentsVars == <<status, stores, votes, tasks, unread, missed, accepted, crashes>>

Statuses == {"absent", "pending", "submitted", "failed"}
TaskStates == {"none", "spawned", "posting", "succeeded", "refused", "ended"}

IntentsTypeOK ==
    /\ status \in [Intents -> Statuses]
    /\ stores \in [Intents -> 0..MaxStores]
    /\ votes \in [Votes -> [at : {"new", "landed", "done", "failed"},
                            signed : SUBSET Intents]]
    /\ tasks \in [Votes -> [Intents -> TaskStates]]
    /\ unread \subseteq Intents
    /\ missed \subseteq Intents
    /\ accepted \subseteq Intents
    /\ crashes \in 0..MaxCrashes

IntentsInit ==
    /\ status = [h \in Intents |-> "absent"]
    /\ stores = [h \in Intents |-> 0]
    /\ votes = [v \in Votes |-> [at |-> "new", signed |-> {}]]
    /\ tasks = [v \in Votes |-> [h \in Intents |-> "none"]]
    /\ unread = {}
    /\ missed = {}
    /\ accepted = {}
    /\ crashes = 0

-----------------------------------------------------------------------------
Carried(v) == {Carries[v][i] : i \in DOMAIN Carries[v]}
(* An UPDATE of the row's status whose failure is not looked at. *)
Write(h, st) ==
    \/ status' = [status EXCEPT ![h] = st]
    \/ MayFail /\ UNCHANGED status

Signed == UNION {votes[v].signed : v \in Votes}

(* generate_intent: the hash is returned although storing it failed; an    *)
(* intent stored again is pending again.                                   *)
GenerateIntent(h) ==
    /\ stores[h] < MaxStores
    /\ stores' = [stores EXCEPT ![h] = @ + 1]
    /\ Write(h, "pending")
    /\ UNCHANGED <<votes, tasks, unread, missed, accepted, crashes>>

(* The relayed votes execute: those that decide a proposal have its        *)
(* payload signed.  A proposal executes once.                              *)
VoteLands(v) ==
    /\ votes[v].at = "new"
    /\ \A h \in Carried(v) : stores[h] > 0
    /\ \E S \in SUBSET (Carried(v) \ Signed) :
         /\ votes' = [votes EXCEPT ![v] = [at |-> "landed", signed |-> S]]
         /\ unread' = unread \cup S
    /\ UNCHANGED <<status, stores, tasks, missed, accepted, crashes>>

(* The relay succeeds: one detached task for every intent it carries. *)
SpawnAutoSubmits(v) ==
    /\ votes[v].at = "landed"
    /\ votes' = [votes EXCEPT ![v].at = "done"]
    /\ tasks' = [tasks EXCEPT ![v] = [h \in Intents |->
           IF h \in Carried(v) THEN "spawned" ELSE "none"]]
    /\ UNCHANGED <<status, stores, unread, missed, accepted, crashes>>

(* The relay is told its transaction failed. *)
VoteUnanswered(v) ==
    /\ MayFail
    /\ votes[v].at = "landed"
    /\ votes' = [votes EXCEPT ![v].at = "failed"]
    /\ UNCHANGED <<status, stores, tasks, unread, missed, accepted, crashes>>

-----------------------------------------------------------------------------
(* try_auto_submit_intent *)

(* extract_mpc_signature: the first signature in the relay's outcome. *)
IsSignatureOf(v, h) ==
    \E i \in DOMAIN Carries[v] :
        /\ Carries[v][i] = h /\ h \in votes[v].signed
        /\ \A j \in 1..(i - 1) : Carries[v][j] \notin votes[v].signed

Step(v, h, from, to) ==
    /\ tasks[v][h] = from
    /\ tasks' = [tasks EXCEPT ![v][h] = to]

(* No signature, no pending row, or a failing read: the task gives up. *)
SelectPending(v, h) ==
    /\ IF votes[v].signed # {} /\ status[h] = "pending"
       THEN \/ Step(v, h, "spawned", "posting")
            \/ MayFail /\ Step(v, h, "spawned", "ended")
       ELSE Step(v, h, "spawned", "ended")
    /\ UNCHANGED <<status, stores, votes, unread, missed, accepted, crashes>>

(* 1Click takes an intent that carries its own signature; the call or its  *)
(* answer may be lost.                                                     *)
PostIntent(v, h) ==
    /\ IF IsSignatureOf(v, h)
       THEN \/ accepted' = accepted \cup {h} /\ Step(v, h, "posting", "succeeded")
            \/ /\ MayFail /\ Step(v, h, "posting", "refused")
               /\ accepted' \in {accepted, accepted \cup {h}}
       ELSE Step(v, h, "posting", "refused") /\ UNCHANGED accepted
    /\ UNCHANGED <<status, stores, votes, unread, missed, crashes>>

(* Mutant: the answer is not looked at. *)
RecordAnswerAlways(v, h) ==
    /\ Step(v, h, "succeeded", "ended") \/ Step(v, h, "refused", "ended")
    /\ Write(h, "submitted")
    /\ UNCHANGED <<stores, votes, unread, missed, accepted, crashes>>

(* The row takes the answer, whatever it holds by now. *)
RecordAnswer(v, h) ==
    /\ \/ Step(v, h, "succeeded", "ended") /\ Write(h, "submitted")
       \/ Step(v, h, "refused", "ended") /\ Write(h, "failed")
    /\ UNCHANGED <<stores, votes, unread, missed, accepted, crashes>>

-----------------------------------------------------------------------------
(* Mutant: only a row that failed is corrected. *)
MarkSubmittedFailed(h) ==
    /\ h \in unread
    /\ status' = [status EXCEPT ![h] = IF @ = "failed" THEN "submitted" ELSE @]
    /\ unread' = unread \ {h}
    /\ UNCHANGED <<stores, votes, tasks, missed, accepted, crashes>>

(* mark_confidential_intent_submitted: the worker comes to the signer's    *)
(* outcome.  A row that exists is submitted from now on; an error is       *)
(* logged, and the cursor passes the outcome.                              *)
MarkSubmitted(h) ==
    /\ h \in unread
    /\ \/ /\ status' = [status EXCEPT ![h] = IF @ = "absent" THEN @ ELSE "submitted"]
          /\ UNCHANGED missed
       \/ MayFail /\ missed' = missed \cup {h} /\ UNCHANGED status
    /\ unread' = unread \ {h}
    /\ UNCHANGED <<stores, votes, tasks, accepted, crashes>>

(* The process stops: relays and tasks under way are lost.  Votes that     *)
(* landed were indexed all the same.                                       *)
Crash ==
    /\ crashes < MaxCrashes
    /\ crashes' = crashes + 1
    /\ votes' = [v \in Votes |-> IF votes[v].at = "landed"
                   THEN [votes[v] EXCEPT !.at = "failed"] ELSE votes[v]]
    /\ tasks' = [v \in Votes |-> [h \in Intents |->
           IF tasks[v][h] = "none" THEN "none" ELSE "ended"]]
    /\ UNCHANGED <<status, stores, unread, missed, accepted>>

AutoSubmit(v, h) == SelectPending(v, h) \/ PostIntent(v, h) \/ RecordAnswer(v, h)

IntentsNext ==
    \/ \E h \in Intents : GenerateIntent(h) \/ MarkSubmitted(h)
    \/ \E v \in Votes :
          \/ VoteLands(v) \/ SpawnAutoSubmits(v) \/ VoteUnanswered(v)
          \/ \E h \in Intents : AutoSubmit(v, h)
    \/ Crash

(* Tasks are polled until they return; the worker loops and comes to every *)
(* outcome, also after a restart.                                          *)
IntentsSpec ==
    /\ IntentsInit /\ [][IntentsNext]_intentsVars
    /\ \A v \in Votes, h \in Intents : WF_intentsVars(AutoSubmit(v, h))
    /\ \A h \in Intents : WF_intentsVars(MarkSubmitted(h))

-----------------------------------------------------------------------------
(* Properties *)

(* A row says submitted only when the treasury's vote had the payload      *)
(* signed, whoever wrote it.                                               *)
SubmittedWasSigned ==
    \A h \in Intents : status[h] = "submitted" => h \in Signed

(* A signed intent whose outcome is indexed does not stay pending, also    *)
(* when the relay's task was lost in a restart: the worker settles the row,*)
(* unless its own update fails.                                            *)
SignedIntentsSettle ==
    \A h \in Intents :
        (h \in unread /\ status[h] = "pending")
            ~> (status[h] # "pending" \/ h \in missed)

(* What confidential.rs says of a relay that succeeds: the task matches    *)
(* the payload hash to a pending intent and submits it.                    *)
RelayedIntentsAreSubmitted ==
    \A v \in Votes, h \in Intents :
        (votes[v].at = "done" /\ h \in votes[v].signed)
            ~> (h \in accepted \/ status[h] = "failed")
=============================================================================
