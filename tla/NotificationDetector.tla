------------------------- MODULE NotificationDetector -------------------------
(***************************************************************************)
(* The detection worker (nt-be/src/handlers/notifications/detector.rs):    *)
(* every cycle reads new balance_changes rows and then new detected_swaps  *)
(* rows of the DAOs that have a Telegram chat, writes the notable ones to  *)
(* dao_notifications, and moves a cursor over each table.  The workers     *)
(* that write the two tables, and the handlers that connect DAOs, run      *)
(* between any two of its statements.                                      *)
(*                                                                         *)
(* A row's id is its position: rows become visible in the order of ids.    *)
(***************************************************************************)
EXTENDS Integers, Sequences, FiniteSets

CONSTANTS
    Daos,      \* monitored DAOs
    Steady,    \* those whose chat stays connected
    Shapes,    \* the balance_changes rows that may be written
    NoTx,      \* the row has no transaction hash
    Batch,     \* BATCH_SIZE
    MaxRows,   \* bound: balance_changes rows
    MaxSwaps,  \* bound: detected_swaps rows
    MaxRewrites, \* bound: how often rows are overwritten
    MaxFaults  \* bound: failing statements and restarts

ASSUME SteadyAssumption == Steady \subseteq Daos
ASSUME BatchAssumption == Batch \in Nat \ {0}
ASSUME DetectorBounds ==
    /\ MaxRows \in Nat /\ MaxSwaps \in Nat
    /\ MaxRewrites \in Nat /\ MaxFaults \in Nat

VARIABLES
    rows,      \* balance_changes
    swaps,     \* detected_swaps
    connected, \* DAOs in telegram_treasury_connections
    cursor,    \* goldsky_cursors of the two consumers
    seed,      \* history: where each cursor began
    notices,   \* dao_notifications: source table and id, event and hash
    pc,        \* where the cycle is
    batch,     \* rows selected and not yet handled, by id
    top,       \* the batch's greatest id
    rewrites,  \* rows overwritten so far
    faults     \* failures so far

vars == <<rows, swaps, connected, cursor, seed, notices, pc, batch, top, rewrites, faults>>
tables == <<rows, swaps, connected, rewrites, faults>>
worker == <<cursor, seed, notices, pc, batch, top>>

Tables == {"balance_changes", "detected_swaps"}
NoCursor == -1

(* A swap row is written filled, or as the open deposit leg of a           *)
(* confidential swap that is filled later, or as a proposal's deposit.     *)
SwapStates == {"open", "filled", "deposit"}

ASSUME ShapesAssumption ==
    \A s \in Shapes : /\ s.dao \in Daos
                      /\ s.kind \in {"proposal", "payment", "other"}
                      /\ s.zero \in BOOLEAN

Last(t) == IF t = "balance_changes" THEN Len(rows) ELSE Len(swaps)

DetectorTypeOK ==
    /\ rows \in Seq(Shapes) /\ Len(rows) <= MaxRows
    /\ swaps \in Seq([dao : Daos, state : SwapStates, seeded : BOOLEAN])
    /\ Len(swaps) <= MaxSwaps
    /\ connected \in SUBSET Daos /\ Steady \subseteq connected
    /\ \A t \in Tables : /\ cursor[t] \in {NoCursor} \cup 0..Last(t)
                         /\ seed[t] \in {NoCursor} \cup 0..Last(t)
    /\ \A n \in notices : n.table \in Tables /\ n.id \in 1..Last(n.table)
    /\ pc \in {"idle", "rows", "between", "swaps"}
    /\ DOMAIN batch \subseteq
         1..Last(IF pc = "rows" THEN "balance_changes" ELSE "detected_swaps")
    /\ pc \in {"idle", "between"} => DOMAIN batch = {}
    /\ rewrites \in 0..MaxRewrites /\ faults \in 0..MaxFaults

DetectorInit ==
    /\ rows = << >>
    /\ swaps = << >>
    /\ connected = Steady
    /\ cursor = [t \in Tables |-> NoCursor]
    /\ seed = [t \in Tables |-> NoCursor]
    /\ notices = {}
    /\ pc = "idle"
    /\ batch = << >>
    /\ top = 0
    /\ rewrites = 0
    /\ faults = 0

-----------------------------------------------------------------------------
(* The other workers. *)

(* upsert_balance_change and the inserts of the other workers *)
WriteRow(s) ==
    /\ Len(rows) < MaxRows
    /\ rows' = Append(rows, s)
    /\ UNCHANGED <<swaps, connected, rewrites, faults, worker>>

(* upsert_balance_change, ON CONFLICT: a row found earlier, by another      *)
(* worker or with less data, is overwritten in place.                      *)
RewriteRow(i, s) ==
    /\ rewrites < MaxRewrites
    /\ i \in DOMAIN rows /\ rows[i].dao = s.dao
    /\ rows' = [rows EXCEPT ![i] = s]
    /\ rewrites' = rewrites + 1
    /\ UNCHANGED <<swaps, connected, faults, worker>>

(* store_detected_swaps and classify_proposal_swap_deposits *)
StoreSwap(d, st) ==
    /\ Len(swaps) < MaxSwaps
    /\ st \in {"filled", "deposit"}
    /\ swaps' = Append(swaps, [dao |-> d, state |-> st, seeded |-> FALSE])
    /\ UNCHANGED <<rows, connected, rewrites, faults, worker>>

(* handle_confidential_outgoing *)
PreSeedSwap(d) ==
    /\ Len(swaps) < MaxSwaps
    /\ swaps' = Append(swaps, [dao |-> d, state |-> "open", seeded |-> TRUE])
    /\ UNCHANGED <<rows, connected, rewrites, faults, worker>>

(* insert_detected_swap: the confidential monitor fills the row in place. *)
FillSwap(i) ==
    /\ i \in DOMAIN swaps /\ swaps[i].state = "open"
    /\ swaps' = [swaps EXCEPT ![i].state = "filled"]
    /\ UNCHANGED <<rows, connected, rewrites, faults, worker>>

Connect(d) ==
    /\ connected' = connected \cup {d}
    /\ UNCHANGED <<rows, swaps, rewrites, faults, worker>>

Disconnect(d) ==
    /\ d \notin Steady
    /\ connected' = connected \ {d}
    /\ UNCHANGED <<rows, swaps, rewrites, faults, worker>>

-----------------------------------------------------------------------------
(* The cycle. *)

(* get_cursor: the first call starts after the latest row. *)

From(t) == IF cursor[t] = NoCursor THEN Last(t) ELSE cursor[t]
ReadCursor(t) ==
    /\ cursor' = [cursor EXCEPT ![t] = From(t)]
    /\ seed' = [seed EXCEPT ![t] = IF cursor[t] = NoCursor THEN Last(t) ELSE @]

(* ORDER BY id LIMIT: the lowest ids of S. *)
Lowest(S) == {i \in S : Cardinality({j \in S : j < i}) < Batch}
Selected(t, S) ==
    [i \in Lowest(S) |-> IF t = "balance_changes" THEN rows[i] ELSE swaps[i]]
Greatest(S) == CHOOSE i \in S : \A j \in S : j <= i
Least(S) == CHOOSE i \in S : \A j \in S : i <= j

NewRows ==
    {i \in DOMAIN rows : i > From("balance_changes") /\ rows[i].dao \in connected}
NewSwaps ==
    {i \in DOMAIN swaps : /\ i > From("detected_swaps")
                          /\ swaps[i].dao \in connected
                          /\ swaps[i].state # "open"}

(* Mutant: the cursor is saved before the batch is handled. *)
ReadRowsSaving ==
    /\ pc = "idle"
    /\ batch' = Selected("balance_changes", NewRows)
    /\ IF NewRows = {}
       THEN pc' = "between" /\ ReadCursor("balance_changes") /\ UNCHANGED top
       ELSE /\ pc' = "rows" /\ top' = Greatest(DOMAIN batch')
            /\ cursor' = [cursor EXCEPT !["balance_changes"] = top']
            /\ UNCHANGED seed
    /\ UNCHANGED <<tables, notices>>

ReadRows ==
    /\ pc = "idle"
    /\ ReadCursor("balance_changes")
    /\ batch' = Selected("balance_changes", NewRows)
    /\ IF NewRows = {}
       THEN pc' = "between" /\ UNCHANGED top
       ELSE pc' = "rows" /\ top' = Greatest(DOMAIN batch')
    /\ UNCHANGED <<tables, notices>>

Current == Least(DOMAIN batch)
Remaining == [i \in DOMAIN batch \ {Current} |-> batch[i]]

(* A proposal's transaction shows in several rows; a zero one gives way.   *)
HasNonZeroSibling(r) ==
    \E j \in DOMAIN rows : /\ rows[j].kind = "proposal" /\ ~rows[j].zero
                           /\ rows[j].dao = r.dao /\ rows[j].tx = r.tx

(* Mutant: the insert does not look the hash up. *)
AlreadyNoticedNever(r) == FALSE

AlreadyNoticed(r) ==
    \E n \in notices : /\ n.event = "proposal" /\ r.kind = "proposal"
                       /\ n.dao = r.dao /\ n.tx = r.tx /\ r.tx # NoTx

IsNotable(r) ==
    \/ r.kind = "payment"
    \/ /\ r.kind = "proposal"
       /\ ~(r.zero /\ r.tx # NoTx /\ HasNonZeroSibling(r))
       /\ ~AlreadyNoticed(r)

(* The table's unique key has no hash and no payload. *)
Notice(i, r) ==
    [table |-> "balance_changes", id |-> i, dao |-> r.dao, event |-> r.kind,
     tx |-> IF r.kind = "proposal" THEN r.tx ELSE NoTx]
InQueue(m) ==
    \E n \in notices : n.table = m.table /\ n.id = m.id /\ n.event = m.event

(* The sibling check is one step with the insert, which reads none of the  *)
(* tables the other workers write.                                         *)
NoticeRow ==
    /\ pc = "rows" /\ DOMAIN batch # {}
    /\ batch' = Remaining
    /\ LET r == batch[Current]
           m == Notice(Current, r)
       IN  notices' = IF IsNotable(r) /\ ~InQueue(m) THEN notices \cup {m} ELSE notices
    /\ UNCHANGED <<tables, cursor, seed, pc, top>>

(* Mutant: the cursor is not saved. *)
PassRowsStaying ==
    /\ pc = "rows" /\ DOMAIN batch = {}
    /\ pc' = "between"
    /\ UNCHANGED <<tables, cursor, seed, notices, batch, top>>

PassRows ==
    /\ pc = "rows" /\ DOMAIN batch = {}
    /\ cursor' = [cursor EXCEPT !["balance_changes"] = top]
    /\ pc' = "between"
    /\ UNCHANGED <<tables, seed, notices, batch, top>>

ReadSwaps ==
    /\ pc = "between"
    /\ ReadCursor("detected_swaps")
    /\ batch' = Selected("detected_swaps", NewSwaps)
    /\ IF NewSwaps = {}
       THEN pc' = "idle" /\ UNCHANGED top
       ELSE pc' = "swaps" /\ top' = Greatest(DOMAIN batch')
    /\ UNCHANGED <<tables, notices>>

SwapNotice(i, d) == [table |-> "detected_swaps", id |-> i, dao |-> d,
                     event |-> "swap_fulfilled", tx |-> NoTx]

(* A proposal's deposit that nothing has fulfilled is no event. *)
NoticeSwap ==
    /\ pc = "swaps" /\ DOMAIN batch # {}
    /\ batch' = Remaining
    /\ notices' = IF batch[Current].state = "filled"
                  THEN notices \cup {SwapNotice(Current, batch[Current].dao)}
                  ELSE notices
    /\ UNCHANGED <<tables, cursor, seed, pc, top>>

(* The cursor stops before the first row that is open now, whosever it is. *)
OpenBelow(b) ==
    {i \in (cursor["detected_swaps"] + 1)..b : swaps[i].state = "open"}

(* Mutant: open rows do not hold the cursor back. *)
SwapCursorAfterBatch(b) == b
SwapCursorAfter(b) == IF OpenBelow(b) = {} THEN b ELSE Least(OpenBelow(b)) - 1

(* Mutant: the cursor moves to the table's last row. *)
PassSwapsToEnd ==
    /\ pc = "swaps" /\ DOMAIN batch = {}
    /\ cursor' = [cursor EXCEPT !["detected_swaps"] = SwapCursorAfter(Len(swaps))]
    /\ pc' = "idle"
    /\ UNCHANGED <<tables, seed, notices, batch, top>>

PassSwaps ==
    /\ pc = "swaps" /\ DOMAIN batch = {}
    /\ cursor' = [cursor EXCEPT !["detected_swaps"] = SwapCursorAfter(top)]
    /\ pc' = "idle"
    /\ UNCHANGED <<tables, seed, notices, batch, top>>

(* A statement fails, or the process stops: the cycle is over. *)
Abandon ==
    /\ pc # "idle" /\ faults < MaxFaults
    /\ faults' = faults + 1
    /\ pc' = "idle"
    /\ batch' = << >>
    /\ UNCHANGED <<rows, swaps, connected, rewrites, cursor, seed, notices, top>>

-----------------------------------------------------------------------------
Cycle == ReadRows \/ NoticeRow \/ PassRows \/ ReadSwaps \/ NoticeSwap \/ PassSwaps

DetectorNext ==
    \/ \E s \in Shapes : WriteRow(s) \/ \E i \in 1..MaxRows : RewriteRow(i, s)
    \/ \E d \in Daos : \/ PreSeedSwap(d)
                       \/ \E st \in {"filled", "deposit"} : StoreSwap(d, st)
                       \/ Connect(d)
                       \/ Disconnect(d)
    \/ \E i \in 1..MaxSwaps : FillSwap(i)
    \/ Cycle
    \/ Abandon

(* The worker loops for ever, whatever a cycle returned. *)
DetectorSpec == DetectorInit /\ [][DetectorNext]_vars /\ WF_vars(Cycle)

-----------------------------------------------------------------------------
(* However a proposal's transaction fans out into rows, in whatever order  *)
(* the workers find them and overwrite them, and however often a batch is  *)
(* read again after a failure, there is one notification for it: the code  *)
(* looks its hash up before inserting.                                     *)
OneNoticePerProposal ==
    \A m, n \in notices :
        (/\ m.event = "proposal" /\ n.event = "proposal"
         /\ m.dao = n.dao /\ m.tx = n.tx /\ m.tx # NoTx) => m = n

(* No swap still waiting for its fulfilment is left behind the cursor,     *)
(* however rows are added and filled while a batch is handled (the comment *)
(* at detector.rs:314-318 asks for this).                                  *)
OpenSwapsStayAhead ==
    \A i \in DOMAIN swaps :
        swaps[i].state = "open" => i > cursor["detected_swaps"]
                                   \/ i <= seed["detected_swaps"]

(* While no row is overwritten, the cursor never passes a payment of a     *)
(* connected DAO that is not in the queue, nor a proposal that is not and  *)
(* has no other row to speak for it, failures and restarts included.       *)
IsNoticed(i) == \E n \in notices : n.table = "balance_changes" /\ n.id = i
SpokenFor(i) ==
    \/ IsNoticed(i)
    \/ AlreadyNoticed(rows[i])
    \/ \E j \in DOMAIN rows :
         /\ rows[j].kind = "proposal" /\ ~rows[j].zero
         /\ rows[j].dao = rows[i].dao /\ rows[j].tx = rows[i].tx /\ rows[i].tx # NoTx
         /\ j > cursor["balance_changes"] \/ j <= seed["balance_changes"]
PassedRowsAreNoticed ==
    \A i \in DOMAIN rows :
        (/\ rewrites = 0 /\ rows[i].dao \in Steady
         /\ seed["balance_changes"] < i /\ i <= cursor["balance_changes"])
        => /\ rows[i].kind = "payment" => IsNoticed(i)
           /\ rows[i].kind = "proposal" => SpokenFor(i)

IsPaid(i) == /\ i \in DOMAIN rows /\ rewrites = 0
             /\ rows[i].kind = "payment" /\ rows[i].dao \in Steady
             /\ seed["balance_changes"] \in 0..(i - 1)
IsFilled(i) == /\ i \in DOMAIN swaps
               /\ swaps[i].state = "filled" /\ swaps[i].dao \in Steady
               /\ seed["detected_swaps"] \in 0..(i - 1)
SwapIsNoticed(i) == \E n \in notices : n.table = "detected_swaps" /\ n.id = i

IsDue(i) == \/ IsPaid(i) /\ ~IsNoticed(i)
            \/ IsFilled(i) /\ ~swaps[i].seeded /\ ~SwapIsNoticed(i)

(* A payment out of a DAO that stays connected, while no row is            *)
(* overwritten, and a swap stored with both legs, although others stay     *)
(* open before it, are notified about in the end, although cycles fail and *)
(* other DAOs come and go.                                                 *)
DueEventsAreNoticed ==
    \A i \in 1..MaxRows \cup 1..MaxSwaps : IsDue(i) ~> ~IsDue(i)

(* A swap that was stored open and is filled is notified about in the end. *)
FilledSwapsAreNoticed ==
    \A i \in 1..MaxSwaps : (IsFilled(i) /\ swaps[i].seeded) ~> SwapIsNoticed(i)
=============================================================================
