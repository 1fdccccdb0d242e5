----------------------------- MODULE GoldHistory -----------------------------
(***************************************************************************)
(* The history of one confidential treasury: events as 1Click reports them *)
(* (bronze, nt-be/src/handlers/intents/confidential/bronze/store), the     *)
(* corrections of deposits whose amount it misreports                      *)
(* (gold/deposit_corrections.rs), and the balances that a projector works  *)
(* out by replaying the events from a dirty mark on                        *)
(* (gold/history_events, gold/cursors).                                    *)
(*                                                                         *)
(* A projection is one transaction that holds the cursor's row lock: who   *)
(* marks the treasury dirty waits for it, who only writes a correction     *)
(* does not.  Times are in units of the merge window.                      *)
(***************************************************************************)
EXTENDS Absent, Integers, Sequences, FiniteSets, SequencesExt

CONSTANTS
    Events,       \* what 1Click may report of the treasury
    Assets,       \* tokens
    Facts,        \* of an event: its time, kind, assets and amounts
    Reportable,   \* of an event: the conditions 1Click may report it in
    Legs,         \* balance_changes of the poller that are deposits, in order
    OwnLeg,       \* the leg that a deposit alone caused, 0 for none
    LiveBalances, \* what a live balance fetch may answer
    Margin,       \* FORWARD_RECOMPUTE_MARGIN
    LegWindow,    \* LEG_MATCH_WINDOW
    MergeWindow,  \* MERGE_WINDOW
    LastMayFail,  \* whether the only successful event may stop being one
    MaxChanges,   \* bound: events reported anew, and links
    MaxStops      \* bound: failures and restarts

At(e) == Facts[e].at
Deposits == {e \in Events : Facts[e].kind = "deposit"}

ASSUME EventsAreFinite == IsFiniteSet(Events)
ASSUME FactsAssumption ==
    /\ Facts \in [Events -> [at : Nat, kind : {"deposit", "sent", "exchange"},
                             origin : Assets, destination : Assets,
                             in : Nat, out : Nat]]
    /\ \A e \in Events : Facts[e].kind = "exchange" =>
           Facts[e].origin # Facts[e].destination
ASSUME ReportableAssumption == DOMAIN Reportable = Events
ASSUME LegsAssumption ==
    /\ Legs \in Seq([asset : Assets, at : Nat, amount : Nat \ {0}])
    /\ \A i, j \in DOMAIN Legs : i < j => Legs[i].at <= Legs[j].at
    /\ OwnLeg \in [Deposits -> 0..Len(Legs)]
ASSUME GoldBounds ==
    /\ LiveBalances \subseteq Nat /\ LastMayFail \in BOOLEAN
    /\ {Margin, LegWindow, MergeWindow, MaxChanges, MaxStops} \subseteq Nat

VARIABLES
    bronze,      \* bronze_confidential_history_events: status, and if it can be read
    number,      \* the order of their ids among the events of one time, 0 for none
    gold,        \* gold_confidential_history_events: the balances after the event
    dirty,       \* gold_recompute_from, None when gold_dirty_since is NULL
    corrections, \* confidential_deposit_amount_corrections
    legs,        \* how many of Legs the poller has recorded
    projection,  \* the open transaction: the corrections it has loaded
    live,        \* correct_new_deposits, after a poll
    pairing,     \* reconcile_dao
    unmarked,    \* history: corrections that no mark or projection covers yet
    changes,     \* reports and links so far
    stops        \* failures and restarts so far

goldVars == <<bronze, number, gold, dirty, corrections, legs, projection,
              live, pairing, unmarked, changes, stops>>

(* A row that is SUCCESS but cannot be projected is "unreadable". *)
Conditions == {"absent", "pending", "success", "unreadable", "failed"}
Correction == [net : Nat, source : {"live_fetch", "balance_changes"}]
Writes == SUBSET [event : Deposits, net : Nat]
GoldRow == [origin : Nat \cup {None}, destination : Nat \cup {None}]
Times == {At(e) : e \in Events}
ASSUME ValuesAreDefined == None \notin Int \cup GoldRow
IdleLive == [todo |-> {}, writes |-> {}, earliest |-> None]
IdlePairing == [writes |-> {}, earliest |-> None]

GoldTypeOK ==
    /\ bronze \in [Events -> Conditions]
    /\ number \in [Events -> 0..Cardinality(Events)]
    /\ \A e \in Events : number[e] = 0 <=> bronze[e] = "absent"
    /\ gold \in [Events -> GoldRow \cup {None}]
    /\ dirty \in Int \cup {None}
    /\ corrections \in [Deposits -> Correction \cup {None}]
    /\ legs \in 0..Len(Legs)
    /\ projection \in [Deposits -> Correction \cup {None}] \cup {None}
    /\ live \in [todo : SUBSET Deposits, writes : Writes, earliest : Times \cup {None}]
    /\ pairing \in [writes : Writes, earliest : Times \cup {None}]
    /\ unmarked \in SUBSET Deposits
    /\ changes \in 0..MaxChanges /\ stops \in 0..MaxStops

GoldInit ==
    /\ bronze = [e \in Events |-> "absent"]
    /\ number = [e \in Events |-> 0]
    /\ gold = [e \in Events |-> None]
    /\ dirty = None
    /\ corrections = [e \in Deposits |-> None]
    /\ legs = 0
    /\ projection = None
    /\ live = IdleLive
    /\ pairing = IdlePairing
    /\ unmarked = {}
    /\ changes = 0
    /\ stops = 0

------------------------------------------------------------------------------
(* Balances *)

(* ORDER BY created_at_external, id *)
Before(e, f) == At(e) < At(f) \/ (At(e) = At(f) /\ number[e] < number[f])

LatestEvent(es) == CHOOSE e \in es : \A f \in es : f = e \/ Before(f, e)

Successes == {e \in Events : bronze[e] \in {"success", "unreadable"}}
Earliest(es) == CHOOSE t \in {At(e) : e \in es} : \A e \in es : t <= At(e)

(* The legs of a gold row that carry a balance of the asset. *)
BalanceIn(e, a) ==
    {b \in {gold[e].origin : x \in {a} \cap {Facts[e].origin}}
           \cup {gold[e].destination : x \in {a} \cap {Facts[e].destination}} : b # None}

(* The latest balance of an asset in the gold rows of these events. *)
LatestBalance(es, a) ==
    LET rows == {e \in es : gold[e] # None /\ BalanceIn(e, a) # {}}
    IN  IF rows = {} THEN 0 ELSE CHOOSE b \in BalanceIn(LatestEvent(rows), a) : TRUE

(* What a deposit brought: the recorded correction, or what 1Click says. *)
NetAmount(e, cs) == IF cs[e] = None THEN Facts[e].out ELSE cs[e].net

(* A row of no amount is skipped, one that cannot be read is an error:     *)
(* neither touches the ledger.                                             *)
IsProjected(e, cs) ==
    bronze[e] = "success" /\ (Facts[e].kind = "deposit" => NetAmount(e, cs) # 0)

Less(balance, amount) == IF amount > balance THEN 0 ELSE balance - amount

LedgerAfter(ledger, e, cs) ==
    LET f == Facts[e]
    IN  [a \in Assets |->
            CASE f.kind # "deposit" /\ a = f.origin -> Less(ledger[a], f.in)
              [] f.kind = "exchange" /\ a = f.destination -> ledger[a] + f.out
              [] f.kind = "deposit" /\ a = f.destination -> ledger[a] + NetAmount(e, cs)
              [] OTHER -> ledger[a]]

RowOf(ledger, e) ==
    LET f == Facts[e]
    IN  [origin      |-> IF f.kind = "deposit" THEN None ELSE ledger[f.origin],
         destination |-> IF f.kind = "sent" THEN None ELSE ledger[f.destination]]

(* The ledger that a replay of these events, in their order, ends with. *)
LedgerOf(es, seed, cs) ==
    LET after[T \in SUBSET es] ==
            IF T = {} THEN seed
            ELSE IF IsProjected(LatestEvent(T), cs)
                 THEN LedgerAfter(after[T \ {LatestEvent(T)}], LatestEvent(T), cs)
                 ELSE after[T \ {LatestEvent(T)}]
    IN  after[es]

(* The gold rows that it gives. *)
Replay(es, seed, cs) ==
    [e \in Events |->
        IF e \in es /\ IsProjected(e, cs)
        THEN RowOf(LedgerOf({f \in es : f = e \/ Before(f, e)}, seed, cs), e)
        ELSE None]

------------------------------------------------------------------------------
(* The dirty mark *)

(* The row of the cursor is locked FOR UPDATE until a projection ends. *)
Unlocked == projection = None

(* Mutant: the mark of the latest change wins, not the earliest. *)
MarkedLatest(from) == from

Marked(from) == IF dirty = None \/ from < dirty THEN from ELSE dirty

MarkGoldDirty(from) ==
    /\ Unlocked
    /\ dirty' = Marked(from)
    /\ unmarked' = {e \in unmarked : At(e) < Marked(from)}

------------------------------------------------------------------------------
(* Bronze *)

MayBecome(c) ==
    CASE c = "absent" -> {"pending", "success", "unreadable"}
      [] c = "pending" -> {"success", "unreadable", "failed"}
      [] c = "success" -> {"unreadable", "failed"}
      [] c = "unreadable" -> {"success"}
      [] OTHER -> {}

(* Time passes: what the poller saw before an event happened is recorded.  *)
HasHappened(e) == \A i \in DOMAIN Legs : Legs[i].at < At(e) => i <= legs

(* A page of which these events are new or changed is stored and marked in *)
(* one transaction; new rows are numbered in the order of the page.        *)
UpsertHistoryEvents(page, reported) ==
    LET news == ToSet(page)
        added == {e \in news : bronze[e] = "absent"}
        known(t) == Cardinality({e \in Events : At(e) = t /\ number[e] # 0})
        place(e) == Cardinality({i \in DOMAIN page :
                        /\ page[i] \in added /\ At(page[i]) = At(e)
                        /\ \E j \in DOMAIN page : page[j] = e /\ i <= j})
    IN  /\ changes + Cardinality(news) <= MaxChanges
        /\ \A e \in news : HasHappened(e) /\ reported[e] \in MayBecome(bronze[e])
        /\ bronze' = [e \in Events |-> IF e \in news THEN reported[e] ELSE bronze[e]]
        /\ LastMayFail \/ Successes = {}
               \/ \E e \in Events : bronze'[e] \in {"success", "unreadable"}
        /\ number' = [e \in Events |->
               IF e \in added THEN known(At(e)) + place(e) ELSE number[e]]
        /\ changes' = changes + Cardinality(news)
        /\ MarkGoldDirty(Earliest(news))
        /\ UNCHANGED <<gold, corrections, legs, projection, pairing, stops>>

(* A page of the backfill, or of a poll that has nothing to correct. *)
IngestPage(page, reported) == UpsertHistoryEvents(page, reported) /\ UNCHANGED live

(* The latest page is polled; deposits that just became successful and are *)
(* not older than the cutoff are corrected from a live balance.            *)
PollLatestPage(page, reported, cutoff) ==
    LET todo == {e \in ToSet(page) \cap Deposits :
                     reported[e] = "success" /\ At(e) >= cutoff}
    IN  /\ live = IdleLive /\ todo # {}
        /\ UpsertHistoryEvents(page, reported)
        /\ live' = [IdleLive EXCEPT !.todo = todo]

(* A vote's intent is linked to an event that is already there. *)
LinkIntent(e) ==
    /\ bronze[e] # "absent" /\ changes < MaxChanges
    /\ MarkGoldDirty(At(e))
    /\ changes' = changes + 1
    /\ UNCHANGED <<bronze, number, gold, corrections, legs, projection, live,
                   pairing, stops>>

(* The balance poller records a deposit. *)
RecordLeg ==
    /\ legs < Len(Legs)
    /\ \A e \in Events : bronze[e] # "absent" => At(e) <= Legs[legs + 1].at
    /\ legs' = legs + 1
    /\ UNCHANGED <<bronze, number, gold, dirty, corrections, projection, live,
                   pairing, unmarked, changes, stops>>

------------------------------------------------------------------------------
(* Corrections *)

(* What the poller saw overrides a live fetch, and not the reverse. *)
UpsertCorrection(w, source) ==
    LET e == w.event
        kept == corrections[e] # None /\ source = "live_fetch"
                    /\ corrections[e].source = "balance_changes"
        new == IF kept THEN corrections[e] ELSE [net |-> w.net, source |-> source]
    IN  /\ corrections' = [corrections EXCEPT ![e] = new]
        /\ unmarked' = IF new = corrections[e] THEN unmarked ELSE unmarked \cup {e}

(* Corrections are written one by one, in the order of time. *)
IsNext(w, writes) == \A v \in writes : v = w \/ Before(w.event, v.event)

Sooner(earliest, e) == IF earliest = None \/ At(e) < earliest THEN At(e) ELSE earliest

(* One asset's live balance against the latest in gold: the first deposit  *)
(* takes the whole difference, its siblings nothing.                       *)
ReadBalance(a, balance) ==
    LET ds == {e \in live.todo : Facts[e].destination = a}
        delta == balance - LatestBalance(Events, a)
        first == CHOOSE e \in ds : \A f \in ds : f = e \/ Before(e, f)
    IN  /\ live.writes = {} /\ ds # {}
        /\ live' = [live EXCEPT
               !.todo = @ \ ds,
               !.writes = IF delta <= 0 THEN {}
                          ELSE {[event |-> e, net |-> IF e = first THEN delta ELSE 0] : e \in ds}]
        /\ UNCHANGED <<bronze, number, gold, dirty, corrections, legs, projection,
                       pairing, unmarked, changes, stops>>

WriteLive(w) ==
    /\ w \in live.writes /\ IsNext(w, live.writes)
    /\ UpsertCorrection(w, "live_fetch")
    /\ live' = [live EXCEPT !.writes = @ \ {w}, !.earliest = Sooner(@, w.event)]
    /\ UNCHANGED <<bronze, number, gold, dirty, legs, projection, pairing, changes, stops>>

EndLive ==
    /\ live # IdleLive /\ live.todo = {} /\ live.writes = {}
    /\ IF live.earliest = None THEN UNCHANGED <<dirty, unmarked>>
       ELSE MarkGoldDirty(live.earliest - Margin)
    /\ live' = IdleLive
    /\ UNCHANGED <<bronze, number, gold, corrections, legs, projection, pairing,
                   changes, stops>>

(* Deposits of one asset paired with its legs, in the order of time:       *)
(* the next leg in the window, or nothing right after a deposit that had   *)
(* one, or no correction.                                                  *)
Pair(acc, e) ==
    LET ahead == {i \in acc.next..legs :
                     Legs[i].asset = Facts[e].destination /\ Legs[i].at >= At(e)}
        i == CHOOSE j \in ahead : \A k \in ahead : j <= k
        found == ahead # {} /\ Legs[i].at <= At(e) + LegWindow
        passed == IF ahead = {} THEN legs + 1 ELSE i
    IN  CASE found ->
               [next |-> i + 1, prev |-> At(e),
                writes |-> acc.writes \cup {[event |-> e, net |-> Legs[i].amount]}]
          [] ~found /\ acc.prev # None /\ At(e) - acc.prev <= MergeWindow ->
               [next |-> passed, prev |-> At(e),
                writes |-> acc.writes \cup {[event |-> e, net |-> 0]}]
          [] OTHER -> [next |-> passed, prev |-> None, writes |-> acc.writes]

PairDepositsToLegs(ds) ==
    LET paired[T \in SUBSET ds] ==
            IF T = {} THEN [next |-> 1, prev |-> None, writes |-> {}]
            ELSE Pair(paired[T \ {LatestEvent(T)}], LatestEvent(T))
    IN  paired[ds].writes

(* Mutant: deposits that have a correction are not paired again. *)
UncorrectedInGold == {e \in Deposits : gold[e] # None /\ corrections[e] = None}

(* The query starts from the rows in gold. *)
DepositsInGold == {e \in Deposits : gold[e] # None}

Pairings ==
    UNION {PairDepositsToLegs({e \in DepositsInGold : Facts[e].destination = a}) : a \in Assets}

(* The daily pass, or a member's refresh, pairs the deposits in gold. *)
ReadDeposits ==
    /\ pairing = IdlePairing /\ Pairings # {}
    /\ pairing' = [pairing EXCEPT !.writes = Pairings]
    /\ UNCHANGED <<bronze, number, gold, dirty, corrections, legs, projection,
                   live, unmarked, changes, stops>>

WritePaired(w) ==
    /\ w \in pairing.writes /\ IsNext(w, pairing.writes)
    /\ UpsertCorrection(w, "balance_changes")
    /\ pairing' = [pairing EXCEPT !.writes = @ \ {w}, !.earliest = Sooner(@, w.event)]
    /\ UNCHANGED <<bronze, number, gold, dirty, legs, projection, live, changes, stops>>

EndPairing ==
    /\ pairing # IdlePairing /\ pairing.writes = {}
    /\ MarkGoldDirty(pairing.earliest - Margin)
    /\ pairing' = IdlePairing
    /\ UNCHANGED <<bronze, number, gold, corrections, legs, projection, live,
                   changes, stops>>

------------------------------------------------------------------------------
(* Gold *)

(* The daily pass marks a treasury that is dirty already or has no gold. *)
MarkBackfilled ==
    /\ Successes # {}
    /\ dirty # None \/ \A e \in Events : gold[e] = None
    /\ MarkGoldDirty(Earliest(Successes))
    /\ UNCHANGED <<bronze, number, gold, corrections, legs, projection, live,
                   pairing, changes, stops>>

(* The projector takes the lock.  Events cannot change under it, since     *)
(* whoever changes them marks; corrections can, once they are loaded.      *)
BeginProjection ==
    /\ dirty # None /\ Unlocked
    /\ projection' = corrections
    /\ UNCHANGED <<bronze, number, gold, dirty, corrections, legs, live, pairing,
                   unmarked, changes, stops>>

RecomputeFrom ==
    IF Earliest(Successes) < dirty /\ ~\E e \in Events : gold[e] # None /\ At(e) < dirty
    THEN Earliest(Successes) ELSE dirty

(* Rows from the mark on are replaced, those before it seed the ledger; an *)
(* event that cannot be read keeps the row it had.                         *)
ProjectSuffix ==
    LET from == RecomputeFrom
        rows == Replay({e \in Successes : At(e) >= from},
                       [a \in Assets |-> LatestBalance({e \in Events : At(e) < from}, a)],
                       projection)
    IN  /\ gold' = [e \in Events |->
               IF At(e) < from \/ bronze[e] = "unreadable" THEN gold[e] ELSE rows[e]]
        /\ unmarked' = {e \in unmarked : At(e) < from \/ projection[e] # corrections[e]}

CommitProjection ==
    /\ ~Unlocked
    /\ dirty' = None
    /\ projection' = None
    /\ UNCHANGED <<bronze, number, corrections, legs, live, pairing, changes, stops>>
    /\ IF Successes = {} THEN UNCHANGED <<gold, unmarked>> ELSE ProjectSuffix

(* A failure ends one of the three; the transaction is rolled back. *)
Stop ==
    /\ stops < MaxStops /\ stops' = stops + 1
    /\ \/ live # IdleLive /\ live' = IdleLive /\ UNCHANGED <<pairing, projection>>
       \/ pairing # IdlePairing /\ pairing' = IdlePairing /\ UNCHANGED <<live, projection>>
       \/ ~Unlocked /\ projection' = None /\ UNCHANGED <<live, pairing>>
    /\ UNCHANGED <<bronze, number, gold, dirty, corrections, legs, unmarked, changes>>

------------------------------------------------------------------------------

Reports(page) == {r \in [ToSet(page) -> Conditions] : \A e \in DOMAIN r : r[e] \in Reportable[e]}
Pages == {<<e>> : e \in Events} \cup {p \in Events \X Events : p[1] # p[2]}

Ingest ==
    \/ \E page \in Pages : \E reported \in Reports(page) :
           \/ IngestPage(page, reported)
           \/ \E cutoff \in Times : PollLatestPage(page, reported, cutoff)
    \/ \E e \in Events : LinkIntent(e)
    \/ RecordLeg

CorrectNewDeposits ==
    \/ \E a \in Assets, balance \in LiveBalances : ReadBalance(a, balance)
    \/ \E w \in live.writes : WriteLive(w)
    \/ EndLive

ReconcileDao ==
    \/ ReadDeposits \/ EndPairing
    \/ \E w \in pairing.writes : WritePaired(w)

Projector == BeginProjection \/ CommitProjection

GoldNext ==
    \/ Ingest \/ CorrectNewDeposits \/ ReconcileDao
    \/ MarkBackfilled \/ Projector \/ Stop

(* The scheduler projects every dirty treasury at each tick, the daily     *)
(* pass pairs again, and the runtime polls a correction until it ends.     *)
GoldFairness ==
    WF_goldVars(Projector) /\ WF_goldVars(ReconcileDao) /\ WF_goldVars(CorrectNewDeposits)

GoldSpec == GoldInit /\ [][GoldNext]_goldVars /\ GoldFairness

------------------------------------------------------------------------------
(* Properties *)

FullReplay == Replay(Successes, [a \in Assets |-> 0], corrections)

(* An event that was readable once and is not any more keeps its old row,  *)
(* which later replays may start from.                                     *)
KeepsOldRow == \E e \in Events : bronze[e] = "unreadable" /\ gold[e] # None

(* The rows of a treasury that is not marked dirty are what a replay of    *)
(* its whole history with today's corrections gives, from wherever the     *)
(* projector started (project_confidential_gold_for_dao): no mark is lost  *)
(* to a projection in progress, and no seed is stale.  Corrections whose   *)
(* writer has still to mark them, or stopped before, are excepted, and     *)
(* histories without a successful event.                                   *)
CleanGoldIsReplay ==
    dirty = None /\ unmarked = {} /\ ~KeepsOldRow /\ Successes # {} => gold = FullReplay

(* The deposit took a leg's amount, or counts with one before it that did  *)
(* and has its row.                                                        *)
HasLeg(e) == /\ gold[e] # None /\ corrections[e] # None
             /\ corrections[e].source = "balance_changes" /\ corrections[e].net # 0
IsPaired(e) ==
    \/ HasLeg(e)
    \/ /\ corrections[e].source = "balance_changes"
       /\ \E d \in Deposits : HasLeg(d) /\ At(d) <= At(e)
                              /\ Facts[d].destination = Facts[e].destination

(* A pairing that stops between a correction and its mark is made up for: *)
(* while the deposit and the one whose leg it shares have their rows, the  *)
(* next pairing marks the treasury from that deposit or before it,         *)
(* whatever deposits and legs came since ("recovered by the daily backfill *)
(* reconciliation", bronze/ingest_worker.rs:198).                          *)
LostMarksAreRepeated ==
    pairing = IdlePairing =>
        \A e \in unmarked :
            gold[e] # None /\ IsPaired(e) => \E w \in Pairings : At(w.event) - Margin <= At(e)

(* "A deposit matches the next unconsumed leg observed within              *)
(* LEG_MATCH_WINDOW after its quote time"; only "with no leg of its own"   *)
(* is a deposit credited nothing (gold/deposit_corrections.rs:65-69).      *)
LegsReachDeposits ==
    \A e \in Deposits :
        OwnLeg[e] # 0 /\ legs >= OwnLeg[e] /\ bronze[e] = "success"
            ~> \/ bronze[e] # "success"
               \/ corrections[e] = [net |-> Legs[OwnLeg[e]].amount,
                                    source |-> "balance_changes"]
=============================================================================
