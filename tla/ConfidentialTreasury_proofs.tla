-------------------- MODULE ConfidentialTreasury_proofs ---------------------
(***************************************************************************)
(* Proofs about what a confidential treasury does: its intents and its     *)
(* history; for any intents and voters, events, assets, legs and balances, *)
(* and any number of faults and restarts.                                  *)
(***************************************************************************)
EXTENDS ConfidentialIntents, GoldHistory, Sums

-----------------------------------------------------------------------------
(* Confidential intents *)

(* Whoever writes that an intent is submitted has seen its signature: the  *)
(* worker comes to outcomes of signed intents only, and 1Click took no     *)
(* other.                                                                  *)
VoteRecords == [at : {"new", "landed", "done", "failed"}, signed : SUBSET Intents]
IntentsInv ==
    /\ status \in [Intents -> Statuses]
    /\ votes \in [Votes -> VoteRecords]
    /\ \A v \in Votes : votes[v].at = "new" => votes[v].signed = {}
    /\ tasks \in [Votes -> [Intents -> TaskStates]]
    /\ unread \subseteq Signed
    /\ \A v \in Votes, h \in Intents : tasks[v][h] = "succeeded" => h \in votes[v].signed
    /\ SubmittedWasSigned

LEMMA IntentsInitInv == IntentsInit => IntentsInv
  BY DEF IntentsInit, IntentsInv, VoteRecords, Statuses, TaskStates, SubmittedWasSigned

(* What the tasks of a vote and the worker do: no signature is touched, a  *)
(* task succeeds and a row is submitted when the signature is there.       *)
LEMMA SignedKept ==
    ASSUME IntentsInv, UNCHANGED votes, unread' \subseteq unread,
           status' \in [Intents -> Statuses],
           \A h \in Intents : status'[h] = "submitted" => status[h] = "submitted" \/ h \in Signed,
           tasks' \in [Votes -> [Intents -> TaskStates]],
           \A v \in Votes, h \in Intents :
               tasks'[v][h] = "succeeded" => h \in votes[v].signed
    PROVE  IntentsInv'
  <1>1. Signed' = Signed
    BY DEF Signed
  <1>2. QED
    BY <1>1 DEF IntentsInv, SubmittedWasSigned

LEMMA WriteKeepsStatus ==
    ASSUME status \in [Intents -> Statuses], NEW h \in Intents, NEW st \in Statuses, Write(h, st)
    PROVE  /\ status' \in [Intents -> Statuses]
           /\ \A g \in Intents : status'[g] = "submitted" =>
                 status[g] = "submitted" \/ (g = h /\ st = "submitted")
  BY DEF Write

LEMMA StepIsTyped ==
    ASSUME tasks \in [Votes -> [Intents -> TaskStates]], NEW v \in Votes, NEW h \in Intents,
           NEW from, NEW to \in TaskStates, Step(v, h, from, to)
    PROVE  /\ tasks' \in [Votes -> [Intents -> TaskStates]]
           /\ tasks[v][h] = from /\ tasks'[v][h] = to
           /\ \A u \in Votes, g \in Intents : u # v \/ g # h => tasks'[u][g] = tasks[u][g]
  BY DEF Step

LEMMA SignedOf ==
    ASSUME NEW v \in Votes, NEW h, h \in votes[v].signed
    PROVE  h \in Signed
  BY DEF Signed

LEMMA IntentsNextInv == IntentsInv /\ [IntentsNext]_intentsVars => IntentsInv'
  <1> SUFFICES ASSUME IntentsInv, [IntentsNext]_intentsVars PROVE IntentsInv'
    OBVIOUS
  <1>0. /\ status \in [Intents -> Statuses] /\ votes \in [Votes -> VoteRecords]
        /\ \A v \in Votes : votes[v].at = "new" => votes[v].signed = {}
        /\ tasks \in [Votes -> [Intents -> TaskStates]] /\ unread \subseteq Signed
        /\ \A v \in Votes, h \in Intents : tasks[v][h] = "succeeded" => h \in votes[v].signed
        /\ \A h \in Intents : status[h] = "submitted" => h \in Signed
    BY DEF IntentsInv, SubmittedWasSigned
  <1>1. ASSUME NEW h \in Intents, GenerateIntent(h) PROVE IntentsInv'
    <2>1. Write(h, "pending") /\ UNCHANGED <<votes, tasks, unread>>
      BY <1>1 DEF GenerateIntent
    <2>2. /\ status' \in [Intents -> Statuses]
          /\ \A g \in Intents : status'[g] = "submitted" => status[g] = "submitted"
      BY <2>1, <1>0, WriteKeepsStatus DEF Statuses
    <2>3. QED
      BY <2>1, <2>2, <1>0, SignedKept
  <1>2. ASSUME NEW h \in Intents, MarkSubmitted(h) PROVE IntentsInv'
    <2>1. /\ h \in unread /\ unread' = unread \ {h} /\ UNCHANGED <<votes, tasks>>
          /\ \/ status' = [status EXCEPT ![h] = IF @ = "absent" THEN @ ELSE "submitted"]
             \/ UNCHANGED status
      BY <1>2 DEF MarkSubmitted
    <2>2. h \in Signed
      BY <2>1, <1>0
    <2>3. /\ status' \in [Intents -> Statuses]
          /\ \A g \in Intents : status'[g] = "submitted" => status[g] = "submitted" \/ g \in Signed
      BY <2>1, <2>2, <1>0 DEF Statuses
    <2>4. QED
      BY <2>1, <2>3, <1>0, SignedKept
  <1>3. ASSUME NEW v \in Votes, VoteLands(v) PROVE IntentsInv'
    <2>1. PICK S \in SUBSET (Carried(v) \ Signed) :
             /\ votes' = [votes EXCEPT ![v] = [at |-> "landed", signed |-> S]]
             /\ unread' = unread \cup S /\ UNCHANGED <<status, tasks>> /\ votes[v].at = "new"
      BY <1>3 DEF VoteLands
    <2>2. S \subseteq Intents
      BY <2>1, CarriesAssumption DEF Carried
    <2>3. /\ votes' \in [Votes -> VoteRecords]
          /\ votes'[v].signed = S /\ votes'[v].at = "landed"
          /\ \A u \in Votes : u # v => votes'[u] = votes[u]
      BY <2>1, <2>2, <1>0 DEF VoteRecords
    <2>4. votes[v].signed = {}
      BY <2>1, <1>0
    <2>5. Signed \subseteq Signed' /\ S \subseteq Signed'
      BY <2>3, <2>4 DEF Signed
    <2>6. \A u \in Votes : votes[u].signed \subseteq votes'[u].signed
      BY <2>3, <2>4
    <2>7. QED
      BY <2>1, <2>3, <2>5, <2>6, <1>0 DEF IntentsInv, SubmittedWasSigned
  <1>4. ASSUME NEW v \in Votes, votes' = [votes EXCEPT ![v].at = "failed"],
               votes[v].at = "landed", UNCHANGED <<status, tasks, unread>>
        PROVE  IntentsInv'
    <2>1. /\ votes' \in [Votes -> VoteRecords]
          /\ \A u \in Votes : votes'[u].signed = votes[u].signed
          /\ \A u \in Votes : votes'[u].at = "new" => votes[u].at = "new"
      BY <1>4, <1>0 DEF VoteRecords
    <2>2. Signed' = Signed
      BY <2>1 DEF Signed
    <2>3. QED
      BY <2>1, <2>2, <1>4, <1>0 DEF IntentsInv, SubmittedWasSigned
  <1>5. ASSUME NEW v \in Votes, SpawnAutoSubmits(v) PROVE IntentsInv'
    <2>1. /\ votes' = [votes EXCEPT ![v].at = "done"]
          /\ tasks' = [tasks EXCEPT ![v] = [h \in Intents |->
                 IF h \in Carried(v) THEN "spawned" ELSE "none"]]
          /\ UNCHANGED <<status, unread>>
      BY <1>5 DEF SpawnAutoSubmits
    <2>2. /\ votes' \in [Votes -> VoteRecords]
          /\ \A u \in Votes : votes'[u].signed = votes[u].signed
          /\ \A u \in Votes : votes'[u].at = "new" => votes[u].at = "new"
      BY <2>1, <1>0 DEF VoteRecords
    <2>3. Signed' = Signed
      BY <2>2 DEF Signed
    <2>4. tasks' \in [Votes -> [Intents -> TaskStates]]
      BY <2>1, <1>0 DEF TaskStates
    <2>5. \A u \in Votes, h \in Intents : tasks'[u][h] = "succeeded" => tasks[u][h] = "succeeded"
      BY <2>1, <1>0
    <2>6. QED
      BY <2>1, <2>2, <2>3, <2>4, <2>5, <1>0 DEF IntentsInv, SubmittedWasSigned
  <1>6. ASSUME NEW v \in Votes, NEW h \in Intents, AutoSubmit(v, h) PROVE IntentsInv'
    <2>1. CASE SelectPending(v, h)
      <3>1. \E to \in {"posting", "ended"} : Step(v, h, "spawned", to)
        BY <2>1 DEF SelectPending
      <3>2. PICK to \in {"posting", "ended"} : Step(v, h, "spawned", to)
        BY <3>1
      <3>a. to \in TaskStates
        BY DEF TaskStates
      <3>b. tasks \in [Votes -> [Intents -> TaskStates]]
        BY <1>0
      <3>3. /\ tasks' \in [Votes -> [Intents -> TaskStates]]
            /\ \A u \in Votes, g \in Intents :
                  tasks'[u][g] = "succeeded" => tasks[u][g] = "succeeded"
        BY <3>2, <3>a, <3>b, StepIsTyped
      <3>4. UNCHANGED <<status, votes, unread>>
        BY <2>1 DEF SelectPending
      <3>5. QED
        BY <3>3, <3>4, <1>0, SignedKept
    <2>2. CASE PostIntent(v, h)
      <3>1. \E to \in {"succeeded", "refused"} :
               /\ Step(v, h, "posting", to)
               /\ to = "succeeded" => h \in votes[v].signed
        BY <2>2 DEF PostIntent, IsSignatureOf
      <3>2. PICK to \in {"succeeded", "refused"} :
               /\ Step(v, h, "posting", to)
               /\ to = "succeeded" => h \in votes[v].signed
        BY <3>1
      <3>a. to \in TaskStates
        BY DEF TaskStates
      <3>b. tasks \in [Votes -> [Intents -> TaskStates]]
        BY <1>0
      <3>3. /\ tasks' \in [Votes -> [Intents -> TaskStates]]
            /\ \A u \in Votes, g \in Intents :
                  tasks'[u][g] = "succeeded" => g \in votes[u].signed
        BY <3>2, <3>a, <3>b, <1>0, StepIsTyped
      <3>4. UNCHANGED <<status, votes, unread>>
        BY <2>2 DEF PostIntent
      <3>5. QED
        BY <3>3, <3>4, <1>0, SignedKept
    <2>3. CASE RecordAnswer(v, h)
      <3>1. PICK from \in {"succeeded", "refused"} :
               /\ Step(v, h, from, "ended")
               /\ Write(h, IF from = "succeeded" THEN "submitted" ELSE "failed")
        BY <2>3 DEF RecordAnswer
      <3>2. /\ tasks' \in [Votes -> [Intents -> TaskStates]] /\ tasks[v][h] = from
            /\ \A u \in Votes, g \in Intents :
                  tasks'[u][g] = "succeeded" => tasks[u][g] = "succeeded"
        BY <3>1, <1>0, StepIsTyped DEF TaskStates
      <3>3. from = "succeeded" => h \in Signed
        BY <3>2, <1>0, SignedOf
      <3>4. /\ status' \in [Intents -> Statuses]
            /\ \A g \in Intents : status'[g] = "submitted" =>
                  status[g] = "submitted" \/ g \in Signed
        <4>1. CASE from = "succeeded"
          BY <4>1, <3>1, <3>3, <1>0, WriteKeepsStatus DEF Statuses
        <4>2. CASE from = "refused"
          BY <4>2, <3>1, <1>0, WriteKeepsStatus DEF Statuses
        <4>3. QED
          BY <4>1, <4>2
      <3>5. UNCHANGED <<votes, unread>>
        BY <2>3 DEF RecordAnswer
      <3>6. QED
        BY <3>2, <3>4, <3>5, <1>0, SignedKept
    <2>4. QED
      BY <1>6, <2>1, <2>2, <2>3 DEF AutoSubmit
  <1>7. CASE Crash
    <2>1. /\ votes' = [v \in Votes |-> IF votes[v].at = "landed"
                         THEN [votes[v] EXCEPT !.at = "failed"] ELSE votes[v]]
          /\ tasks' = [v \in Votes |-> [h \in Intents |->
                 IF tasks[v][h] = "none" THEN "none" ELSE "ended"]]
          /\ UNCHANGED <<status, unread>>
      BY <1>7 DEF Crash
    <2>2. /\ votes' \in [Votes -> VoteRecords]
          /\ \A u \in Votes : votes'[u].signed = votes[u].signed
          /\ \A u \in Votes : votes'[u].at = "new" => votes[u].at = "new"
      BY <2>1, <1>0 DEF VoteRecords
    <2>3. Signed' = Signed
      BY <2>2 DEF Signed
    <2>4. /\ tasks' \in [Votes -> [Intents -> TaskStates]]
          /\ \A u \in Votes, h \in Intents : tasks'[u][h] # "succeeded"
      BY <2>1 DEF TaskStates
    <2>5. QED
      BY <2>1, <2>2, <2>3, <2>4, <1>0 DEF IntentsInv, SubmittedWasSigned
  <1>8. CASE UNCHANGED intentsVars
    BY <1>8, <1>0, SignedKept DEF intentsVars
  <1>9. QED
    BY <1>1, <1>2, <1>3, <1>4, <1>5, <1>6, <1>7, <1>8 DEF IntentsNext, VoteUnanswered

(* A row says submitted only for an intent that was signed, whichever of   *)
(* the handler, the tasks and the worker wrote it.                         *)
THEOREM SubmittedStaysSigned == IntentsSpec => []SubmittedWasSigned
  <1>1. IntentsInv => SubmittedWasSigned
    BY DEF IntentsInv
  <1>2. QED
    BY <1>1, IntentsInitInv, IntentsNextInv, PTL DEF IntentsSpec

-----------------------------------------------------------------------------
(* The gold history: events in their order *)

(* The order of events, with their numbers given. *)
Earlier(n, e, f) == At(e) < At(f) \/ (At(e) = At(f) /\ n[e] < n[f])
LastOf(n, es) == CHOOSE e \in es : \A f \in es : f = e \/ Earlier(n, f, e)

(* Some events that the order tells apart. *)
InRow(n, es) ==
    /\ es \in SUBSET Events /\ IsFiniteSet(es)
    /\ \A e \in es : At(e) \in Nat /\ n[e] \in Nat
    /\ \A e, f \in es : e = f \/ Earlier(n, e, f) \/ Earlier(n, f, e)

LEMMA InRowSubset ==
    ASSUME NEW n, NEW es, InRow(n, es), NEW T \in SUBSET es
    PROVE  InRow(n, T)
  BY FS_Subset DEF InRow

LEMMA EarlierIsOrder ==
    ASSUME NEW n, NEW es, InRow(n, es)
    PROVE  /\ \A e \in es : ~Earlier(n, e, e)
           /\ \A e, f \in es : Earlier(n, e, f) => ~Earlier(n, f, e) /\ e # f
           /\ \A e, f, g \in es : Earlier(n, e, f) /\ Earlier(n, f, g) => Earlier(n, e, g)
  BY DEF InRow, Earlier

LEMMA LastIs ==
    ASSUME NEW n, NEW es, InRow(n, es), es # {}
    PROVE  LastOf(n, es) \in es /\ \A f \in es : f = LastOf(n, es) \/ Earlier(n, f, LastOf(n, es))
  <1> DEFINE C == {T \in SUBSET es :
                     T # {} => \E e \in T : \A f \in T : f = e \/ Earlier(n, f, e)}
  <1>1. ASSUME NEW T \in SUBSET es, \A U \in SUBSET T : U # T => U \in C
        PROVE  T \in C
    <2>1. CASE T = {}
      BY <2>1
    <2>2. CASE T # {}
      <3>1. PICK t \in T : TRUE
        BY <2>2
      <3>2. T \ {t} \in C
        BY <1>1, <3>1
      <3>3. CASE T \ {t} = {}
        <4>1. \A f \in T : f = t
          BY <3>3
        <4>2. QED
          BY <3>1, <4>1
      <3>4. CASE T \ {t} # {}
        <4>1. PICK e \in T \ {t} : \A f \in T \ {t} : f = e \/ Earlier(n, f, e)
          BY <3>2, <3>4
        <4>2. CASE Earlier(n, t, e)
          <5>1. \A f \in T : f = e \/ Earlier(n, f, e)
            BY <4>1, <4>2
          <5>2. QED
            BY <4>1, <5>1
        <4>3. CASE Earlier(n, e, t)
          <5>1. \A f \in T : f = t \/ Earlier(n, f, t)
            BY <3>1, <4>1, <4>3, EarlierIsOrder
          <5>2. QED
            BY <3>1, <5>1
        <4>4. Earlier(n, t, e) \/ Earlier(n, e, t)
          BY <3>1, <4>1 DEF InRow
        <4>5. QED
          BY <4>2, <4>3, <4>4
      <3>5. QED
        BY <3>3, <3>4
    <2>3. QED
      BY <2>1, <2>2
  <1> HIDE DEF C
  <1>2. IsFiniteSet(es)
    BY DEF InRow
  <1>3. \A T \in SUBSET es : T \in C
    BY <1>1, <1>2, SubsetInduction
  <1>4. \E e \in es : \A f \in es : f = e \/ Earlier(n, f, e)
    BY <1>3 DEF C
  <1>5. QED
    BY <1>4 DEF LastOf

LEMMA LastAgrees ==
    ASSUME NEW n, NEW m, NEW es, \A e \in es : n[e] = m[e]
    PROVE  LastOf(n, es) = LastOf(m, es)
  <1>1. \A e, f \in es : Earlier(n, f, e) <=> Earlier(m, f, e)
    BY DEF Earlier
  <1>2. QED
    BY <1>1 DEF LastOf

-----------------------------------------------------------------------------
(* Replays and pairings take the events of a set in their order; what that *)
(* gives is worked out once for both.                                      *)
Projects(br, e, cs) ==
    br[e] = "success" /\ (Facts[e].kind = "deposit" => NetAmount(e, cs) # 0)
Paired(seen, acc, e) ==
    LET ahead == {i \in acc.next..seen :
                     Legs[i].asset = Facts[e].destination /\ Legs[i].at >= At(e)}
        i == CHOOSE j \in ahead : \A k \in ahead : j <= k
        found == ahead # {} /\ Legs[i].at <= At(e) + LegWindow
        passed == IF ahead = {} THEN seen + 1 ELSE i
    IN  CASE found ->
               [next |-> i + 1, prev |-> At(e),
                writes |-> acc.writes \cup {[event |-> e, net |-> Legs[i].amount]}]
          [] ~found /\ acc.prev # None /\ At(e) - acc.prev <= MergeWindow ->
               [next |-> passed, prev |-> At(e),
                writes |-> acc.writes \cup {[event |-> e, net |-> 0]}]
          [] OTHER -> [next |-> passed, prev |-> None, writes |-> acc.writes]

(* One event of a replay, with the conditions and corrections, or of a     *)
(* pairing, with the legs that are seen.                                   *)
Stepped(k, acc, e) ==
    IF k.what = "replay"
    THEN IF Projects(k.br, e, k.cs) THEN LedgerAfter(acc, e, k.cs) ELSE acc
    ELSE Paired(k.seen, acc, e)

IsTable(h, k, n, s, S) ==
    h = [T \in SUBSET S |->
           IF T = {} THEN s ELSE Stepped(k, h[T \ {LastOf(n, T)}], LastOf(n, T))]
Taken(k, n, s, S) == (CHOOSE h : IsTable(h, k, n, s, S))[S]
TableOf(k, n, s, S) == [U \in SUBSET S |-> Taken(k, n, s, U)]
HasItsTable(k, n, s, S) ==
    /\ IsTable(TableOf(k, n, s, S), k, n, s, S)
    /\ \A h : IsTable(h, k, n, s, S) => h = TableOf(k, n, s, S)

LEMMA TableIs ==
    ASSUME NEW k, NEW n, NEW s, NEW S, InRow(n, S)
    PROVE  HasItsTable(k, n, s, S)
  <1> DEFINE C == {T \in SUBSET S : HasItsTable(k, n, s, T)}
  <1>0. \A T \in SUBSET S : T # {} => LastOf(n, T) \in T
    BY InRowSubset, LastIs
  <1>1. ASSUME NEW T \in SUBSET S, \A U \in SUBSET T : U # T => U \in C
        PROVE  T \in C
    <2> DEFINE c == LastOf(n, T)
               v == IF T = {} THEN s ELSE Stepped(k, Taken(k, n, s, T \ {c}), c)
               g == [U \in SUBSET T |-> IF U = T THEN v ELSE Taken(k, n, s, U)]
    <2>1. ASSUME NEW U \in SUBSET T, U # T
          PROVE  /\ Taken(k, n, s, U)
                      = IF U = {} THEN s
                        ELSE Stepped(k, Taken(k, n, s, U \ {LastOf(n, U)}), LastOf(n, U))
                 /\ \A h : IsTable(h, k, n, s, U) => h = TableOf(k, n, s, U)
      <3>1. HasItsTable(k, n, s, U)
        BY <1>1, <2>1
      <3>2. U \in SUBSET U /\ U \ {LastOf(n, U)} \in SUBSET U
        OBVIOUS
      <3>3. TableOf(k, n, s, U)[U] = Taken(k, n, s, U)
        BY DEF TableOf
      <3>4. TableOf(k, n, s, U)[U \ {LastOf(n, U)}] = Taken(k, n, s, U \ {LastOf(n, U)})
        BY <3>2 DEF TableOf
      <3>5. TableOf(k, n, s, U)[U]
              = IF U = {} THEN s
                ELSE Stepped(k, TableOf(k, n, s, U)[U \ {LastOf(n, U)}], LastOf(n, U))
        BY <3>1, <3>2 DEF HasItsTable, IsTable
      <3>6. QED
        BY <3>1, <3>3, <3>4, <3>5 DEF HasItsTable
    <2>2. T # {} => T \ {c} \in SUBSET T /\ T \ {c} # T
      BY <1>0
    <2>3. IsTable(g, k, n, s, T)
      <3>1. ASSUME NEW U \in SUBSET T
            PROVE  g[U] = IF U = {} THEN s
                          ELSE Stepped(k, g[U \ {LastOf(n, U)}], LastOf(n, U))
        <4>1. CASE U = T
          BY <2>2, <4>1
        <4>2. CASE U # T
          <5>1. U # {} => LastOf(n, U) \in U
            BY <1>0
          <5>2. U \ {LastOf(n, U)} \in SUBSET T /\ U \ {LastOf(n, U)} # T
            BY <4>2
          <5>3. /\ g[U] = Taken(k, n, s, U)
                /\ g[U \ {LastOf(n, U)}] = Taken(k, n, s, U \ {LastOf(n, U)})
            BY <4>2, <5>2
          <5>4. QED
            BY <2>1, <4>2, <5>3
        <4>3. QED
          BY <4>1, <4>2
      <3> HIDE DEF v
      <3>2. g = [U \in SUBSET T |-> g[U]]
        OBVIOUS
      <3> HIDE DEF g
      <3>3. QED
        BY <3>1, <3>2 DEF IsTable
    <2>4. ASSUME NEW h, IsTable(h, k, n, s, T)
          PROVE  h = g
      <3>1. h = [U \in SUBSET T |->
                   IF U = {} THEN s ELSE Stepped(k, h[U \ {LastOf(n, U)}], LastOf(n, U))]
        BY <2>4 DEF IsTable
      <3>2. ASSUME NEW U \in SUBSET T, U # T
            PROVE  h[U] = Taken(k, n, s, U)
        <4> DEFINE j == [W \in SUBSET U |-> h[W]]
        <4>1. IsTable(j, k, n, s, U)
          <5>1. ASSUME NEW W \in SUBSET U
                PROVE  j[W] = IF W = {} THEN s
                              ELSE Stepped(k, j[W \ {LastOf(n, W)}], LastOf(n, W))
            <6>1. W \in SUBSET T /\ W \ {LastOf(n, W)} \in SUBSET U
              OBVIOUS
            <6>2. h[W] = IF W = {} THEN s
                         ELSE Stepped(k, h[W \ {LastOf(n, W)}], LastOf(n, W))
              BY <3>1, <6>1
            <6>3. QED
              BY <6>1, <6>2
          <5>2. j = [W \in SUBSET U |-> j[W]]
            OBVIOUS
          <5> HIDE DEF j
          <5>3. QED
            BY <5>1, <5>2 DEF IsTable
        <4>2. j = TableOf(k, n, s, U)
          BY <2>1, <3>2, <4>1
        <4>3. j[U] = h[U] /\ TableOf(k, n, s, U)[U] = Taken(k, n, s, U)
          BY DEF TableOf
        <4>4. QED
          BY <4>2, <4>3
      <3>3. h[T] = v
        <4>1. h[T] = IF T = {} THEN s ELSE Stepped(k, h[T \ {c}], c)
          BY <3>1
        <4>2. T # {} => h[T \ {c}] = Taken(k, n, s, T \ {c})
          BY <2>2, <3>2
        <4>3. QED
          BY <4>1, <4>2
      <3>4. \A U \in SUBSET T : h[U] = g[U]
        BY <3>2, <3>3
      <3>5. h = [U \in SUBSET T |-> h[U]] /\ g = [U \in SUBSET T |-> g[U]]
        BY <3>1
      <3> HIDE DEF g
      <3>6. QED
        BY <3>4, <3>5
    <2>5. (CHOOSE h : IsTable(h, k, n, s, T)) = g
      <3> HIDE DEF g
      <3>1. QED
        BY <2>3, <2>4
    <2>6. Taken(k, n, s, T) = v
      BY <2>5 DEF Taken
    <2>7. TableOf(k, n, s, T) = g
      BY <2>6 DEF TableOf
    <2> HIDE DEF g
    <2>8. QED
      BY <2>3, <2>4, <2>7 DEF HasItsTable
  <1>2. \A T \in SUBSET S : T \in C
    <2>1. IsFiniteSet(S)
      BY DEF InRow
    <2> HIDE DEF C
    <2>2. QED
      BY <1>1, <2>1, SubsetInduction
  <1>3. QED
    BY <1>2

(* An event more is the last one taken after the others.                   *)
LEMMA TakenUnfolds ==
    ASSUME NEW k, NEW n, NEW s, NEW S, InRow(n, S)
    PROVE  Taken(k, n, s, S)
             = IF S = {} THEN s
               ELSE Stepped(k, Taken(k, n, s, S \ {LastOf(n, S)}), LastOf(n, S))
  <1>1. IsTable(TableOf(k, n, s, S), k, n, s, S)
    BY TableIs DEF HasItsTable
  <1>2. S \in SUBSET S /\ S \ {LastOf(n, S)} \in SUBSET S
    OBVIOUS
  <1>3. TableOf(k, n, s, S)[S]
          = IF S = {} THEN s
            ELSE Stepped(k, TableOf(k, n, s, S)[S \ {LastOf(n, S)}], LastOf(n, S))
    BY <1>1, <1>2 DEF IsTable
  <1>4. /\ TableOf(k, n, s, S)[S] = Taken(k, n, s, S)
        /\ TableOf(k, n, s, S)[S \ {LastOf(n, S)}] = Taken(k, n, s, S \ {LastOf(n, S)})
    BY <1>2 DEF TableOf
  <1>5. QED
    BY <1>3, <1>4

(* The replay and the pairing of the model are such tables.                *)
ReplayOf(br, cs) == [what |-> "replay", br |-> br, cs |-> cs]
PairingOf(seen) == [what |-> "pairing", seen |-> seen]
Start == [next |-> 1, prev |-> None, writes |-> {}]

LEMMA LedgerIsTaken ==
    ASSUME NEW es, InRow(number, es), NEW seed, NEW cs
    PROVE  LedgerOf(es, seed, cs) = Taken(ReplayOf(bronze, cs), number, seed, es)
  <1> DEFINE k == ReplayOf(bronze, cs)
  <1> DEFINE Body(h) == [T \in SUBSET es |->
                IF T = {} THEN seed
                ELSE IF IsProjected(LatestEvent(T), cs)
                     THEN LedgerAfter(h[T \ {LatestEvent(T)}], LatestEvent(T), cs)
                     ELSE h[T \ {LatestEvent(T)}]]
  <1>1. LedgerOf(es, seed, cs) = (CHOOSE h : h = Body(h))[es]
    BY DEF LedgerOf
  <1>2. \A T : LatestEvent(T) = LastOf(number, T)
    BY DEF LatestEvent, LastOf, Before, Earlier
  <1>3. \A acc, e : Stepped(k, acc, e) =
                      IF IsProjected(e, cs) THEN LedgerAfter(acc, e, cs) ELSE acc
    BY DEF Stepped, ReplayOf, Projects, IsProjected
  <1> HIDE DEF k
  <1>4. \A h : Body(h) = [T \in SUBSET es |->
                 IF T = {} THEN seed ELSE Stepped(k, h[T \ {LastOf(number, T)}], LastOf(number, T))]
    BY <1>2, <1>3
  <1> HIDE DEF Body
  <1>5. \A h : h = Body(h) <=> IsTable(h, k, number, seed, es)
    BY <1>4 DEF IsTable
  <1>6. HasItsTable(k, number, seed, es)
    BY TableIs
  <1>7. (CHOOSE h : h = Body(h)) = TableOf(k, number, seed, es)
    BY <1>5, <1>6 DEF HasItsTable
  <1>8. TableOf(k, number, seed, es)[es] = Taken(k, number, seed, es)
    BY DEF TableOf
  <1>9. QED
    BY <1>1, <1>7, <1>8 DEF k

LEMMA PairingIsTaken ==
    ASSUME NEW ds, InRow(number, ds)
    PROVE  PairDepositsToLegs(ds) = Taken(PairingOf(legs), number, Start, ds).writes
  <1> DEFINE k == PairingOf(legs)
  <1> DEFINE Body(h) == [T \in SUBSET ds |->
                IF T = {} THEN [next |-> 1, prev |-> None, writes |-> {}]
                ELSE Pair(h[T \ {LatestEvent(T)}], LatestEvent(T))]
  <1>1. PairDepositsToLegs(ds) = (CHOOSE h : h = Body(h))[ds].writes
    BY DEF PairDepositsToLegs
  <1>2. \A T : LatestEvent(T) = LastOf(number, T)
    BY DEF LatestEvent, LastOf, Before, Earlier
  <1>3. \A acc, e : Stepped(k, acc, e) = Pair(acc, e)
    <2>1. k.what # "replay" /\ k.seen = legs
      BY DEF PairingOf
    <2>2. \A acc, e : Pair(acc, e) = Paired(legs, acc, e)
      BY DEF Pair, Paired
    <2>3. QED
      BY <2>1, <2>2 DEF Stepped
  <1> HIDE DEF k
  <1>4. \A h : Body(h) = [T \in SUBSET ds |->
                 IF T = {} THEN Start
                 ELSE Stepped(k, h[T \ {LastOf(number, T)}], LastOf(number, T))]
    BY <1>2, <1>3 DEF Start
  <1> HIDE DEF Body
  <1>5. \A h : h = Body(h) <=> IsTable(h, k, number, Start, ds)
    BY <1>4 DEF IsTable
  <1>6. HasItsTable(k, number, Start, ds)
    BY TableIs
  <1>7. (CHOOSE h : h = Body(h)) = TableOf(k, number, Start, ds)
    BY <1>5, <1>6 DEF HasItsTable
  <1>8. TableOf(k, number, Start, ds)[ds] = Taken(k, number, Start, ds)
    BY DEF TableOf
  <1>9. QED
    BY <1>1, <1>7, <1>8 DEF k

(* Only the events themselves matter.                                      *)
LEMMA TakenAgrees ==
    ASSUME NEW k, NEW j, NEW n, NEW m, NEW s, NEW S, InRow(n, S), InRow(m, S),
           \A e \in S : n[e] = m[e],
           \A e \in S : \A acc : Stepped(k, acc, e) = Stepped(j, acc, e)
    PROVE  Taken(k, n, s, S) = Taken(j, m, s, S)
  <1> DEFINE C == {T \in SUBSET S : Taken(k, n, s, T) = Taken(j, m, s, T)}
  <1>1. ASSUME NEW T \in SUBSET S, \A U \in SUBSET T : U # T => U \in C
        PROVE  T \in C
    <2>1. InRow(n, T) /\ InRow(m, T)
      BY InRowSubset
    <2>2. LastOf(n, T) = LastOf(m, T)
      BY LastAgrees
    <2>3. /\ Taken(k, n, s, T) = IF T = {} THEN s
               ELSE Stepped(k, Taken(k, n, s, T \ {LastOf(n, T)}), LastOf(n, T))
          /\ Taken(j, m, s, T) = IF T = {} THEN s
               ELSE Stepped(j, Taken(j, m, s, T \ {LastOf(m, T)}), LastOf(m, T))
      BY <2>1, TakenUnfolds
    <2>4. CASE T = {}
      BY <2>3, <2>4
    <2>5. CASE T # {}
      <3>1. LastOf(n, T) \in T
        BY <2>1, <2>5, LastIs
      <3>2. T \ {LastOf(n, T)} \in C
        BY <1>1, <3>1
      <3>3. QED
        BY <2>2, <2>3, <2>5, <3>1, <3>2
    <2>6. QED
      BY <2>4, <2>5
  <1>2. IsFiniteSet(S)
    BY DEF InRow
  <1> HIDE DEF C
  <1>3. \A T \in SUBSET S : T \in C
    BY <1>1, <1>2, SubsetInduction
  <1>4. QED
    BY <1>3 DEF C

(* Events after others are taken from where those end.                     *)
LEMMA TakenAfter ==
    ASSUME NEW k, NEW n, NEW s, NEW es, NEW fs, InRow(n, es \cup fs),
           \A e \in es, f \in fs : Earlier(n, e, f)
    PROVE  Taken(k, n, s, es \cup fs) = Taken(k, n, Taken(k, n, s, es), fs)
  <1> DEFINE r == Taken(k, n, s, es)
  <1> DEFINE C == {T \in SUBSET fs : Taken(k, n, s, es \cup T) = Taken(k, n, r, T)}
  <1>0. /\ \A e, f \in es \cup fs : Earlier(n, e, f) => ~Earlier(n, f, e) /\ e # f
        /\ IsFiniteSet(fs)
    BY EarlierIsOrder, FS_Subset DEF InRow
  <1>1. ASSUME NEW T \in SUBSET fs, \A U \in SUBSET T : U # T => U \in C
        PROVE  T \in C
    <2>1. InRow(n, T) /\ InRow(n, es \cup T)
      BY InRowSubset
    <2>2. Taken(k, n, r, T) = IF T = {} THEN r
               ELSE Stepped(k, Taken(k, n, r, T \ {LastOf(n, T)}), LastOf(n, T))
      BY <2>1, TakenUnfolds
    <2>3. CASE T = {}
      <3>1. es \cup T = es
        BY <2>3
      <3>2. QED
        BY <2>2, <2>3, <3>1
    <2>4. CASE T # {}
      <3> DEFINE l == LastOf(n, T)
      <3>1. l \in T /\ \A f \in T : f = l \/ Earlier(n, f, l)
        BY <2>1, <2>4, LastIs
      <3>2. LastOf(n, es \cup T) = l
        <4> DEFINE b == LastOf(n, es \cup T)
        <4>1. b \in es \cup T /\ \A f \in es \cup T : f = b \/ Earlier(n, f, b)
          BY <2>1, <2>4, LastIs
        <4>2. l = b \/ Earlier(n, l, b)
          BY <3>1, <4>1
        <4>3. b = l \/ Earlier(n, b, l)
          BY <3>1, <4>1
        <4>4. QED
          BY <1>0, <3>1, <4>1, <4>2, <4>3
      <3>3. (es \cup T) \ {l} = es \cup (T \ {l})
        BY <1>0, <3>1
      <3>4. T \ {l} \in C
        BY <1>1, <3>1
      <3> HIDE DEF l
      <3>5. Taken(k, n, s, es \cup T)
              = Stepped(k, Taken(k, n, s, es \cup (T \ {l})), l)
        BY <2>1, <2>4, <3>2, <3>3, TakenUnfolds
      <3>6. QED
        BY <2>2, <2>4, <3>4, <3>5 DEF l
    <2>5. QED
      BY <2>3, <2>4
  <1> HIDE DEF C
  <1>2. \A T \in SUBSET fs : T \in C
    BY <1>0, <1>1, SubsetInduction
  <1>3. QED
    BY <1>2 DEF C

-----------------------------------------------------------------------------
(* Ledgers *)
Ledgers == [Assets -> Nat]
Zero == [a \in Assets |-> 0]
CorrectionTable == [Deposits -> Correction \cup {None}]

LEMMA FactsAre ==
    ASSUME NEW e \in Events
    PROVE  /\ At(e) \in Nat /\ Facts[e].kind \in {"deposit", "sent", "exchange"}
           /\ Facts[e].origin \in Assets /\ Facts[e].destination \in Assets
           /\ Facts[e].in \in Nat /\ Facts[e].out \in Nat
           /\ Facts[e].kind = "exchange" => Facts[e].origin # Facts[e].destination
           /\ e \in Deposits <=> Facts[e].kind = "deposit"
  BY FactsAssumption DEF At, Deposits

LEMMA NetAmountIs ==
    ASSUME NEW e \in Deposits, NEW cs \in CorrectionTable
    PROVE  NetAmount(e, cs) \in Nat
  <1>1. e \in Events
    BY DEF Deposits
  <1>2. Facts[e].out \in Nat
    BY <1>1, FactsAre
  <1>3. cs[e] # None => cs[e].net \in Nat
    BY DEF CorrectionTable, Correction
  <1>4. QED
    BY <1>2, <1>3 DEF NetAmount

LEMMA LedgerStep ==
    ASSUME NEW L \in Ledgers, NEW e \in Events, NEW cs \in CorrectionTable
    PROVE  LedgerAfter(L, e, cs) \in Ledgers
  <1>1. /\ Facts[e].in \in Nat /\ Facts[e].out \in Nat
        /\ Facts[e].kind = "deposit" => NetAmount(e, cs) \in Nat
    BY FactsAre, NetAmountIs
  <1>2. ASSUME NEW a \in Assets
        PROVE  LedgerAfter(L, e, cs)[a] \in Nat
    <2>1. L[a] \in Nat
      BY DEF Ledgers
    <2>2. Less(L[a], Facts[e].in) \in Nat
      BY <1>1, <2>1 DEF Less
    <2>3. QED
      BY <1>1, <2>1, <2>2 DEF LedgerAfter
  <1>3. LedgerAfter(L, e, cs) = [a \in Assets |-> LedgerAfter(L, e, cs)[a]]
    BY DEF LedgerAfter
  <1>4. QED
    BY <1>2, <1>3 DEF Ledgers

LEMMA ReplayIsLedger ==
    ASSUME NEW br, NEW cs \in CorrectionTable, NEW n, NEW seed \in Ledgers, NEW S, InRow(n, S)
    PROVE  Taken(ReplayOf(br, cs), n, seed, S) \in Ledgers
  <1> DEFINE k == ReplayOf(br, cs)
  <1> DEFINE C == {T \in SUBSET S : Taken(k, n, seed, T) \in Ledgers}
  <1>1. ASSUME NEW T \in SUBSET S, \A U \in SUBSET T : U # T => U \in C
        PROVE  T \in C
    <2>1. InRow(n, T)
      BY InRowSubset
    <2>2. Taken(k, n, seed, T) = IF T = {} THEN seed
               ELSE Stepped(k, Taken(k, n, seed, T \ {LastOf(n, T)}), LastOf(n, T))
      BY <2>1, TakenUnfolds
    <2>3. CASE T = {}
      BY <2>2, <2>3
    <2>4. CASE T # {}
      <3> DEFINE l == LastOf(n, T)
      <3>1. l \in T /\ l \in Events
        BY <2>1, <2>4, LastIs DEF InRow
      <3>2. T \ {l} \in C
        BY <1>1, <3>1
      <3> HIDE DEF l
      <3> DEFINE L == Taken(k, n, seed, T \ {l})
      <3>3. L \in Ledgers
        BY <3>2
      <3> HIDE DEF L
      <3>4. LedgerAfter(L, l, cs) \in Ledgers
        BY <3>1, <3>3, LedgerStep
      <3>5. Stepped(k, L, l) \in Ledgers
        BY <3>3, <3>4 DEF Stepped, ReplayOf
      <3>6. QED
        BY <2>2, <2>4, <3>5 DEF l, L
    <2>5. QED
      BY <2>3, <2>4
  <1>2. IsFiniteSet(S)
    BY DEF InRow
  <1> HIDE DEF C
  <1>3. \A T \in SUBSET S : T \in C
    BY <1>1, <1>2, SubsetInduction
  <1>4. QED
    BY <1>3 DEF C

(* The row of an event shows the ledger for the assets that it moves.      *)
Moves(e, a) ==
    \/ Facts[e].kind # "deposit" /\ a = Facts[e].origin
    \/ Facts[e].kind # "sent" /\ a = Facts[e].destination

LEMMA MovesOnly ==
    ASSUME NEW L \in Ledgers, NEW e \in Events, NEW cs, NEW a \in Assets, ~Moves(e, a)
    PROVE  LedgerAfter(L, e, cs)[a] = L[a]
  BY FactsAre DEF LedgerAfter, Moves, Ledgers

LEMMA RowIsRow ==
    ASSUME NEW L \in Ledgers, NEW e \in Events
    PROVE  RowOf(L, e) \in GoldRow /\ RowOf(L, e) # None
  <1>1. L[Facts[e].origin] \in Nat /\ L[Facts[e].destination] \in Nat
    BY FactsAre DEF Ledgers
  <1>2. RowOf(L, e) \in GoldRow
    BY <1>1 DEF RowOf, GoldRow
  <1>3. QED
    BY <1>2, ValuesAreDefined

LEMMA RowShows ==
    ASSUME NEW L \in Ledgers, NEW e \in Events, gold[e] = RowOf(L, e), NEW a \in Assets
    PROVE  BalanceIn(e, a) = IF Moves(e, a) THEN {L[a]} ELSE {}
  <1> DEFINE f == Facts[e]
  <1>1. /\ f.kind \in {"deposit", "sent", "exchange"}
        /\ f.origin \in Assets /\ f.destination \in Assets
    BY FactsAre
  <1>2. /\ gold[e].origin = IF f.kind = "deposit" THEN None ELSE L[f.origin]
        /\ gold[e].destination = IF f.kind = "sent" THEN None ELSE L[f.destination]
    BY DEF RowOf
  <1>3. \A b \in Assets : L[b] # None
    BY ValuesAreDefined DEF Ledgers
  <1>4. \A b : b \in BalanceIn(e, a) <=>
                 /\ b # None
                 /\ \/ a = f.origin /\ b = gold[e].origin
                    \/ a = f.destination /\ b = gold[e].destination
    BY DEF BalanceIn
  <1> HIDE DEF f
  <1>5. \A b : b \in BalanceIn(e, a) <=>
                 \/ f.kind # "deposit" /\ a = f.origin /\ b = L[a]
                 \/ f.kind # "sent" /\ a = f.destination /\ b = L[a]
    BY <1>1, <1>2, <1>3, <1>4
  <1>6. \A b : b \in BalanceIn(e, a) <=> Moves(e, a) /\ b = L[a]
    BY <1>5 DEF Moves, f
  <1>7. QED
    BY <1>6

(* The row that the replay of some events gives to one of them.            *)
UpTo(n, es, e) == {f \in es : f = e \/ Earlier(n, f, e)}
RowIn(br, n, cs, seed, es, e) ==
    IF e \in es /\ Projects(br, e, cs)
    THEN RowOf(Taken(ReplayOf(br, cs), n, seed, UpTo(n, es, e)), e)
    ELSE None

(* What a set of rows says last of an asset is what the replay that made   *)
(* them leaves of it.                                                      *)
Showing(es, a) == {e \in es : gold[e] # None /\ BalanceIn(e, a) # {}}
LEMMA LatestIsLedger ==
    ASSUME NEW T, InRow(number, T), NEW cs \in CorrectionTable,
           \A e \in T : gold[e] = RowIn(bronze, number, cs, Zero, T, e),
           NEW a \in Assets
    PROVE  LatestBalance(T, a) = Taken(ReplayOf(bronze, cs), number, Zero, T)[a]
  <1> DEFINE k == ReplayOf(bronze, cs)
             n == number
  <1> DEFINE Whole(U) == \A e \in U, f \in T : Earlier(n, f, e) => f \in U
  <1> DEFINE C == {U \in SUBSET T : Whole(U) => LatestBalance(U, a) = Taken(k, n, Zero, U)[a]}
  <1>0. /\ IsFiniteSet(T) /\ T \subseteq Events
        /\ \A e \in T : ~Earlier(n, e, e)
        /\ \A e, f \in T : Earlier(n, e, f) => ~Earlier(n, f, e) /\ e # f
    BY EarlierIsOrder DEF InRow
  <1>a. \A U : LatestBalance(U, a) = IF Showing(U, a) = {} THEN 0
                 ELSE CHOOSE b \in BalanceIn(LastOf(n, Showing(U, a)), a) : TRUE
    <2>1. \A U : LatestEvent(U) = LastOf(n, U)
      BY DEF LatestEvent, LastOf, Before, Earlier
    <2>2. \A U : LatestBalance(U, a) = IF Showing(U, a) = {} THEN 0
                   ELSE CHOOSE b \in BalanceIn(LatestEvent(Showing(U, a)), a) : TRUE
      BY DEF LatestBalance, Showing
    <2>3. QED
      BY <2>1, <2>2
  <1>b. Zero \in Ledgers
    BY DEF Zero, Ledgers
  <1>1. ASSUME NEW U \in SUBSET T, \A V \in SUBSET U : V # U => V \in C
        PROVE  U \in C
    <2>0. SUFFICES ASSUME Whole(U)
                   PROVE  LatestBalance(U, a) = Taken(k, n, Zero, U)[a]
      OBVIOUS
    <2>1. InRow(n, U)
      BY InRowSubset
    <2>2. Taken(k, n, Zero, U) = IF U = {} THEN Zero
               ELSE Stepped(k, Taken(k, n, Zero, U \ {LastOf(n, U)}), LastOf(n, U))
      BY <2>1, TakenUnfolds
    <2>3. CASE U = {}
      <3>1. Showing(U, a) = {}
        BY <2>3 DEF Showing
      <3>2. QED
        BY <1>a, <2>2, <2>3, <3>1 DEF Zero
    <2>4. CASE U # {}
      <3> DEFINE l == LastOf(n, U)
      <3>1. l \in U /\ \A f \in U : f = l \/ Earlier(n, f, l)
        BY <2>1, <2>4, LastIs
      <3> HIDE DEF l
      <3> DEFINE V == U \ {l}
                 L == Taken(k, n, Zero, U)
                 M == Taken(k, n, Zero, V)
      <3>2. V \in SUBSET U /\ V # U /\ U = V \cup {l}
        BY <3>1
      <3>3. Whole(V)
        <4>1. ASSUME NEW e \in V, NEW f \in T, Earlier(n, f, e)
              PROVE  f \in V
          <5>1. f \in U
            BY <2>0, <4>1
          <5>2. Earlier(n, e, l)
            BY <3>1, <4>1
          <5>3. f # l
            BY <1>0, <3>1, <4>1, <5>2
          <5>4. QED
            BY <5>1, <5>3
        <4>2. QED
          BY <4>1
      <3>4. LatestBalance(V, a) = M[a]
        BY <1>1, <3>2, <3>3
      <3>5. M \in Ledgers /\ L \in Ledgers
        <4>1. InRow(n, V)
          BY <2>1, <3>2, InRowSubset
        <4>2. QED
          BY <1>b, <2>1, <4>1, ReplayIsLedger
      <3>6. L = IF Projects(bronze, l, cs) THEN LedgerAfter(M, l, cs) ELSE M
        <4>1. L = Stepped(k, M, l)
          BY <2>2, <2>4 DEF l
        <4>2. QED
          BY <4>1 DEF Stepped, ReplayOf
      <3>7. UpTo(n, T, l) = U
        <4>1. \A f \in T : Earlier(n, f, l) => f \in U
          BY <2>0, <3>1
        <4>2. QED
          BY <3>1, <4>1 DEF UpTo
      <3>8. gold[l] = IF Projects(bronze, l, cs) THEN RowOf(L, l) ELSE None
        BY <3>1, <3>7 DEF RowIn
      <3>9. l \in Events /\ l \in T
        BY <1>0, <3>1
      <3> HIDE DEF L, M, V
      <3>10. CASE Projects(bronze, l, cs) /\ Moves(l, a)
        <4>1. gold[l] # None /\ BalanceIn(l, a) = {L[a]}
          <5>1. gold[l] = RowOf(L, l)
            BY <3>8, <3>10
          <5>2. BalanceIn(l, a) = IF Moves(l, a) THEN {L[a]} ELSE {}
            BY <3>5, <3>9, <5>1, RowShows
          <5>3. RowOf(L, l) # None
            BY <3>5, <3>9, RowIsRow
          <5>4. QED
            BY <3>10, <5>1, <5>2, <5>3
        <4>2. l \in Showing(U, a)
          BY <3>1, <4>1 DEF Showing
        <4>3. LastOf(n, Showing(U, a)) = l
          <5> DEFINE b == LastOf(n, Showing(U, a))
          <5>1. InRow(n, Showing(U, a))
            BY <2>1, InRowSubset DEF Showing
          <5>2. b \in Showing(U, a) /\ \A f \in Showing(U, a) : f = b \/ Earlier(n, f, b)
            BY <4>2, <5>1, LastIs
          <5>3. b \in U
            BY <5>2 DEF Showing
          <5> HIDE DEF b
          <5>4. l = b \/ Earlier(n, l, b)
            BY <4>2, <5>2
          <5>5. b = l \/ Earlier(n, b, l)
            BY <3>1, <5>3
          <5>6. b = l
            BY <1>0, <3>1, <5>3, <5>4, <5>5
          <5>7. QED
            BY <5>6 DEF b
        <4>4. (CHOOSE b \in {L[a]} : TRUE) = L[a]
          OBVIOUS
        <4>5. LatestBalance(U, a) = L[a]
          BY <1>a, <4>1, <4>2, <4>3, <4>4
        <4>6. QED
          BY <4>5 DEF L
      <3>11. CASE ~(Projects(bronze, l, cs) /\ Moves(l, a))
        <4>1. l \notin Showing(U, a)
          <5>1. CASE Projects(bronze, l, cs)
            <6>1. gold[l] = RowOf(L, l)
              BY <3>8, <5>1
            <6>2. BalanceIn(l, a) = {}
              BY <3>5, <3>9, <3>11, <5>1, <6>1, RowShows
            <6>3. QED
              BY <6>2 DEF Showing
          <5>2. CASE ~Projects(bronze, l, cs)
            BY <3>8, <5>2 DEF Showing
          <5>3. QED
            BY <5>1, <5>2
        <4>2. Showing(U, a) = Showing(V, a)
          BY <3>2, <4>1 DEF Showing, V
        <4>3. LatestBalance(U, a) = LatestBalance(V, a)
          BY <1>a, <4>2
        <4>4. L[a] = M[a]
          BY <3>5, <3>6, <3>9, <3>11, MovesOnly
        <4>5. QED
          BY <3>4, <4>3, <4>4 DEF L
      <3>12. QED
        BY <3>10, <3>11
    <2>5. QED
      BY <2>3, <2>4
  <1> HIDE DEF C
  <1>2. \A U \in SUBSET T : U \in C
    BY <1>0, <1>1, SubsetInduction
  <1>3. QED
    BY <1>2 DEF C

-----------------------------------------------------------------------------
(* Pages, and the numbers of the events that they add *)

LEMMA LeastExists ==
    ASSUME NEW S, IsFiniteSet(S), S # {}, NEW f \in [S -> Int]
    PROVE  \E x \in S : \A y \in S : f[x] <= f[y]
  <1> DEFINE C == {T \in SUBSET S : T # {} => \E x \in T : \A y \in T : f[x] <= f[y]}
  <1>1. ASSUME NEW T \in SUBSET S, \A U \in SUBSET T : U # T => U \in C
        PROVE  T \in C
    <2>1. CASE T = {}
      BY <2>1
    <2>2. CASE T # {}
      <3>1. PICK t \in T : TRUE
        BY <2>2
      <3>2. T \ {t} \in C /\ f[t] \in Int /\ \A y \in T : f[y] \in Int
        BY <1>1, <3>1
      <3>3. CASE T \ {t} = {}
        <4>1. \A y \in T : y = t
          BY <3>3
        <4>2. QED
          BY <3>1, <3>2, <4>1
      <3>4. CASE T \ {t} # {}
        <4>1. PICK x \in T \ {t} : \A y \in T \ {t} : f[x] <= f[y]
          BY <3>2, <3>4
        <4>2. CASE f[x] <= f[t]
          <5>1. \A y \in T : f[x] <= f[y]
            BY <4>1, <4>2
          <5>2. QED
            BY <4>1, <5>1
        <4>3. CASE f[t] <= f[x]
          <5>1. \A y \in T : f[t] <= f[y]
            BY <3>2, <4>1, <4>3
          <5>2. QED
            BY <3>1, <5>1
        <4>4. QED
          BY <3>2, <4>1, <4>2, <4>3
      <3>5. QED
        BY <3>3, <3>4
    <2>3. QED
      BY <2>1, <2>2
  <1> HIDE DEF C
  <1>2. \A T \in SUBSET S : T \in C
    BY <1>1, SubsetInduction
  <1>3. QED
    BY <1>2 DEF C

LEMMA EarliestIs ==
    ASSUME NEW es \in SUBSET Events, es # {}
    PROVE  Earliest(es) \in Nat /\ \A e \in es : Earliest(es) <= At(e)
  <1> DEFINE f == [e \in es |-> At(e)]
  <1>1. \A e \in es : At(e) \in Nat
    BY FactsAre
  <1>2. IsFiniteSet(es) /\ f \in [es -> Int]
    BY <1>1, EventsAreFinite, FS_Subset
  <1>3. PICK x \in es : \A y \in es : f[x] <= f[y]
    <2> HIDE DEF f
    <2>1. QED
      BY <1>2, LeastExists
  <1>4. At(x) \in {At(e) : e \in es} /\ \A e \in es : At(x) <= At(e)
    BY <1>3
  <1>5. Earliest(es) \in {At(e) : e \in es} /\ \A e \in es : Earliest(es) <= At(e)
    BY <1>4 DEF Earliest
  <1>6. QED
    BY <1>1, <1>5

LEMMA PageIs ==
    ASSUME NEW page \in Pages
    PROVE  /\ \E m \in Nat : DOMAIN page = 1..m /\ m >= 1
           /\ \A i \in DOMAIN page : page[i] \in Events
           /\ \A i, j \in DOMAIN page : i # j => page[i] # page[j]
           /\ ToSet(page) = {page[i] : i \in DOMAIN page}
           /\ ToSet(page) \in SUBSET Events /\ ToSet(page) # {}
  <1>1. CASE \E e \in Events : page = <<e>>
    <2>1. PICK e \in Events : page = <<e>>
      BY <1>1
    <2>2. DOMAIN page = 1..1 /\ page[1] = e
      BY <2>1
    <2>3. QED
      BY <2>2 DEF ToSet
  <1>2. CASE page \in {p \in Events \X Events : p[1] # p[2]}
    <2>1. DOMAIN page = 1..2 /\ page[1] \in Events /\ page[2] \in Events /\ page[1] # page[2]
      BY <1>2
    <2>2. \A i \in 1..2 : i = 1 \/ i = 2
      OBVIOUS
    <2>3. /\ \A i \in DOMAIN page : page[i] \in Events
          /\ \A i, j \in DOMAIN page : i # j => page[i] # page[j]
      BY <2>1, <2>2
    <2>4. ToSet(page) = {page[i] : i \in DOMAIN page}
      BY DEF ToSet
    <2>5. 1 \in DOMAIN page /\ 2 \in Nat /\ 2 >= 1
      BY <2>1
    <2>6. QED
      BY <2>1, <2>3, <2>4, <2>5
  <1>3. QED
    BY <1>1, <1>2 DEF Pages

(* The numbers of known events tell those of one time apart.               *)
KnownAt(n, t) == {e \in Events : At(e) = t /\ n[e] # 0}
Numbered(br, n) ==
    /\ n \in [Events -> Nat]
    /\ \A e \in Events : n[e] = 0 <=> br[e] = "absent"
    /\ \A e \in Events : n[e] <= Cardinality(KnownAt(n, At(e)))
    /\ \A e, f \in Events : e # f /\ At(e) = At(f) /\ n[e] # 0 => n[e] # n[f]

LEMMA NumberedInRow ==
    ASSUME NEW br, NEW n, Numbered(br, n), NEW es \in SUBSET Events,
           \A e \in es : br[e] # "absent"
    PROVE  InRow(n, es)
  <1>1. IsFiniteSet(es) /\ \A e \in es : At(e) \in Nat /\ n[e] \in Nat
    BY EventsAreFinite, FS_Subset, FactsAre DEF Numbered
  <1>2. ASSUME NEW e \in es, NEW f \in es, e # f
        PROVE  Earlier(n, e, f) \/ Earlier(n, f, e)
    <2>1. At(e) = At(f) => n[e] # n[f]
      BY <1>2 DEF Numbered
    <2>2. QED
      BY <1>1, <2>1 DEF Earlier
  <1>3. QED
    BY <1>1, <1>2 DEF InRow

(* Where an added event stands in its page among those of its time.        *)
Upto(page, added, t, j) ==
    {i \in DOMAIN page : page[i] \in added /\ At(page[i]) = t /\ i <= j}

LEMMA PlacesInPage ==
    ASSUME NEW page \in Pages, NEW added \in SUBSET ToSet(page), NEW t,
           NEW j \in DOMAIN page, page[j] \in added, At(page[j]) = t
    PROVE  /\ Cardinality(Upto(page, added, t, j)) \in Nat
           /\ Cardinality(Upto(page, added, t, j)) >= 1
           /\ Cardinality(Upto(page, added, t, j)) <= Cardinality({e \in added : At(e) = t})
           /\ \A i \in DOMAIN page : page[i] \in added /\ At(page[i]) = t /\ i # j =>
                Cardinality(Upto(page, added, t, i)) # Cardinality(Upto(page, added, t, j))
  <1> DEFINE I(i) == Upto(page, added, t, i)
             A == {e \in added : At(e) = t}
  <1>1. PICK m \in Nat : DOMAIN page = 1..m
    BY PageIs
  <1>2. IsFiniteSet(1..m)
    BY FS_Interval
  <1>3. \A i : IsFiniteSet(I(i)) /\ Cardinality(I(i)) \in Nat
    <2>1. \A i : I(i) \in SUBSET (1..m)
      BY <1>1 DEF Upto
    <2> HIDE DEF I
    <2>2. \A i : IsFiniteSet(I(i))
      BY <1>2, <2>1, FS_Subset
    <2>3. QED
      BY <2>2, FS_CardinalityType
  <1>4. I(j) # {}
    BY <1>1 DEF Upto
  <1>5. Cardinality(I(j)) >= 1
    <2>1. Cardinality(I(j)) # 0
      BY <1>3, <1>4, FS_EmptySet
    <2>2. QED
      BY <1>3, <2>1
  <1>6. Cardinality(I(j)) <= Cardinality(A)
    <2> DEFINE f == [i \in I(j) |-> page[i]]
    <2>1. f \in Injection(I(j), A)
      <3>1. \A i \in I(j) : page[i] \in A
        BY DEF Upto
      <3>2. \A i, k \in I(j) : i # k => page[i] # page[k]
        BY PageIs DEF Upto
      <3> HIDE DEF I, A
      <3>3. QED
        BY <3>1, <3>2 DEF Injection, IsInjective
    <2>2. IsFiniteSet(A)
      <3>1. A \in SUBSET Events
        BY PageIs
      <3>2. QED
        BY <3>1, EventsAreFinite, FS_Subset
    <2> HIDE DEF f, I, A
    <2>3. QED
      BY <2>1, <2>2, FS_Injection
  <1>7. ASSUME NEW i \in DOMAIN page, NEW k \in DOMAIN page, i < k,
               page[k] \in added, At(page[k]) = t
        PROVE  Cardinality(I(i)) # Cardinality(I(k))
    <2>1. I(i) \in SUBSET I(k)
      BY <1>1, <1>7 DEF Upto
    <2>2. k \in I(k) /\ k \notin I(i)
      BY <1>1, <1>7 DEF Upto
    <2> HIDE DEF I
    <2>3. QED
      BY <1>3, <2>1, <2>2, FS_Subset
  <1>8. \A i \in DOMAIN page : page[i] \in added /\ At(page[i]) = t /\ i # j =>
           Cardinality(I(i)) # Cardinality(I(j))
    <2>1. \A i \in DOMAIN page : i # j => i < j \/ j < i
      BY <1>1
    <2> HIDE DEF I
    <2>2. QED
      BY <1>7, <2>1
  <1>9. QED
    BY <1>3, <1>5, <1>6, <1>8

(* A page gives each event that it adds a number of its own.               *)
NumbersAfter(br, n, page) ==
    LET added == {e \in ToSet(page) : br[e] = "absent"}
    IN  [e \in Events |->
            IF e \in added
            THEN Cardinality(KnownAt(n, At(e)))
                 + Cardinality({i \in DOMAIN page :
                        /\ page[i] \in added /\ At(page[i]) = At(e)
                        /\ \E j \in DOMAIN page : page[j] = e /\ i <= j})
            ELSE n[e]]

LEMMA PagesNumber ==
    ASSUME NEW br, NEW n, Numbered(br, n), NEW page \in Pages, NEW c,
           \A e \in Events : c[e] = "absent" <=> br[e] = "absent" /\ e \notin ToSet(page)
    PROVE  Numbered(c, NumbersAfter(br, n, page))
  <1> DEFINE added == {e \in ToSet(page) : br[e] = "absent"}
             m == NumbersAfter(br, n, page)
             New(t) == {e \in added : At(e) = t}
             Place(e) == Cardinality({i \in DOMAIN page :
                             /\ page[i] \in added /\ At(page[i]) = At(e)
                             /\ \E j \in DOMAIN page : page[j] = e /\ i <= j})
  <1>1. ToSet(page) \in SUBSET Events /\ ToSet(page) = {page[i] : i \in DOMAIN page}
    BY PageIs
  <1>2. \A e \in Events : m[e] = IF e \in added THEN Cardinality(KnownAt(n, At(e))) + Place(e)
                                 ELSE n[e]
    BY DEF NumbersAfter
  <1>3. \A t : /\ IsFiniteSet(KnownAt(n, t)) /\ Cardinality(KnownAt(n, t)) \in Nat
               /\ IsFiniteSet(New(t)) /\ Cardinality(New(t)) \in Nat
    <2>1. \A t : KnownAt(n, t) \in SUBSET Events /\ New(t) \in SUBSET Events
      BY <1>1 DEF KnownAt
    <2> HIDE DEF New
    <2>2. QED
      BY <2>1, EventsAreFinite, FS_Subset, FS_CardinalityType
  <1>4. ASSUME NEW e \in added
        PROVE  /\ Place(e) \in Nat /\ Place(e) >= 1 /\ Place(e) <= Cardinality(New(At(e)))
               /\ \A f \in added : At(f) = At(e) /\ f # e => Place(f) # Place(e)
    <2>1. \A f \in added : \E j \in DOMAIN page : page[j] = f
      BY <1>1
    <2>2. PICK j \in DOMAIN page : page[j] = e
      BY <2>1
    <2>3. \A f \in added : \A k \in DOMAIN page :
             page[k] = f => Place(f) = Cardinality(Upto(page, added, At(f), k))
      <3>1. SUFFICES ASSUME NEW f \in added, NEW k \in DOMAIN page, page[k] = f
                     PROVE  {i \in DOMAIN page :
                               /\ page[i] \in added /\ At(page[i]) = At(f)
                               /\ \E l \in DOMAIN page : page[l] = f /\ i <= l}
                            = Upto(page, added, At(f), k)
        OBVIOUS
      <3>2. \A l \in DOMAIN page : page[l] = f <=> l = k
        BY <3>1, PageIs
      <3> HIDE DEF added
      <3>3. QED
        BY <3>1, <3>2 DEF Upto
    <2>4. added \in SUBSET ToSet(page)
      OBVIOUS
    <2>5. /\ Place(e) = Cardinality(Upto(page, added, At(e), j))
      BY <2>2, <2>3
    <2> HIDE DEF Place, added
    <2>6. /\ Place(e) \in Nat /\ Place(e) >= 1
          /\ Place(e) <= Cardinality({f \in added : At(f) = At(e)})
      BY <2>2, <2>4, <2>5, PlacesInPage
    <2>7. ASSUME NEW f \in added, At(f) = At(e), f # e
          PROVE  Place(f) # Place(e)
      <3>1. PICK k \in DOMAIN page : page[k] = f
        BY <2>1
      <3>2. Place(f) = Cardinality(Upto(page, added, At(e), k))
        BY <2>3, <2>7, <3>1
      <3>3. k # j
        BY <2>2, <2>7, <3>1
      <3>4. QED
        BY <2>2, <2>4, <2>5, <2>7, <3>1, <3>2, <3>3, PlacesInPage
    <2>8. QED
      BY <2>6, <2>7
  <1> HIDE DEF Place
  <1>5. \A e \in added : e \in Events /\ n[e] = 0
    BY <1>1 DEF Numbered
  <1>6. \A e \in Events : n[e] \in Nat
    BY DEF Numbered
  <1>a. \A e \in Events : e \in added <=> br[e] = "absent" /\ e \in ToSet(page)
    OBVIOUS
  <1>b. \A e \in Events : n[e] = 0 <=> br[e] = "absent"
    BY DEF Numbered
  <1> HIDE DEF added, m
  <1>7. ASSUME NEW e \in Events
        PROVE  m[e] \in Nat /\ (m[e] = 0 <=> c[e] = "absent")
    <2>1. CASE e \in added
      <3>1. Cardinality(KnownAt(n, At(e))) \in Nat /\ Place(e) \in Nat /\ Place(e) >= 1
        BY <1>3, <1>4, <2>1
      <3>2. m[e] = Cardinality(KnownAt(n, At(e))) + Place(e)
        BY <1>2, <2>1
      <3>3. m[e] \in Nat /\ m[e] # 0
        BY <3>1, <3>2
      <3>4. QED
        BY <1>a, <2>1, <3>3
    <2>2. CASE e \notin added
      BY <1>2, <1>6, <1>a, <1>b, <2>2
    <2>3. QED
      BY <2>1, <2>2
  <1>8. ASSUME NEW t
        PROVE  /\ IsFiniteSet(KnownAt(m, t))
               /\ Cardinality(KnownAt(m, t)) = Cardinality(KnownAt(n, t)) + Cardinality(New(t))
    <2>1. \A e \in Events : m[e] # 0 <=> n[e] # 0 \/ e \in added
      <3>1. \A e \in Events : e \in added => m[e] # 0
        <4>1. SUFFICES ASSUME NEW e \in Events, e \in added PROVE m[e] # 0
          OBVIOUS
        <4>2. m[e] = Cardinality(KnownAt(n, At(e))) + Place(e)
          BY <1>2, <4>1
        <4>3. Cardinality(KnownAt(n, At(e))) \in Nat /\ Place(e) \in Nat /\ Place(e) >= 1
          BY <1>3, <1>4, <4>1
        <4>4. QED
          BY <4>2, <4>3
      <3>2. QED
        BY <1>2, <3>1
    <2>2. KnownAt(m, t) = KnownAt(n, t) \cup New(t)
      BY <1>5, <2>1 DEF KnownAt
    <2>3. KnownAt(n, t) \cap New(t) = {}
      BY <1>5 DEF KnownAt
    <2> DEFINE A == KnownAt(n, t)
               B == New(t)
    <2>4. IsFiniteSet(A) /\ IsFiniteSet(B) /\ Cardinality(A) \in Nat /\ Cardinality(B) \in Nat
      BY <1>3
    <2>5. A \cap B = {} /\ KnownAt(m, t) = A \cup B
      BY <2>2, <2>3
    <2> HIDE DEF A, B
    <2>6. /\ IsFiniteSet(A \cup B)
          /\ Cardinality(A \cup B) = Cardinality(A) + Cardinality(B) - Cardinality(A \cap B)
      BY <2>4, FS_Union
    <2>7. Cardinality(A \cap B) = 0
      BY <2>5, FS_EmptySet
    <2>8. Cardinality(A \cup B) = Cardinality(A) + Cardinality(B)
      BY <2>4, <2>6, <2>7
    <2>9. QED
      BY <2>5, <2>6, <2>8 DEF A, B
  <1> HIDE DEF New
  <1>9. ASSUME NEW e \in Events
        PROVE  m[e] <= Cardinality(KnownAt(m, At(e)))
    <2>1. CASE e \in added
      BY <1>2, <1>3, <1>4, <1>8, <2>1
    <2>2. CASE e \notin added
      <3>1. n[e] <= Cardinality(KnownAt(n, At(e)))
        BY DEF Numbered
      <3>2. QED
        BY <1>2, <1>3, <1>6, <1>8, <2>2, <3>1
    <2>3. QED
      BY <2>1, <2>2
  <1>10. ASSUME NEW e \in Events, NEW f \in Events, e # f, At(e) = At(f), m[e] # 0
         PROVE  m[e] # m[f]
    <2>1. CASE e \in added /\ f \in added
      BY <1>2, <1>3, <1>4, <1>10, <2>1
    <2>2. CASE e \in added /\ f \notin added
      <3>1. m[f] <= Cardinality(KnownAt(n, At(e))) /\ m[f] \in Nat
        BY <1>2, <1>6, <1>10, <2>2 DEF Numbered
      <3>2. m[e] > Cardinality(KnownAt(n, At(e)))
        BY <1>2, <1>3, <1>4, <2>2
      <3>3. QED
        BY <1>3, <1>7, <3>1, <3>2
    <2>3. CASE e \notin added /\ f \in added
      <3>1. m[e] <= Cardinality(KnownAt(n, At(e))) /\ m[e] \in Nat
        BY <1>2, <1>6, <1>10, <2>3 DEF Numbered
      <3>2. m[f] > Cardinality(KnownAt(n, At(e)))
        BY <1>2, <1>3, <1>4, <1>10, <2>3
      <3>3. QED
        BY <1>3, <1>7, <3>1, <3>2
    <2>4. CASE e \notin added /\ f \notin added
      BY <1>2, <1>10, <2>4 DEF Numbered
    <2>5. QED
      BY <2>1, <2>2, <2>3, <2>4
  <1>11. m \in [Events -> Nat]
    <2>1. m = [e \in Events |-> m[e]]
      BY DEF NumbersAfter, m
    <2> HIDE DEF m
    <2>2. QED
      BY <1>7, <2>1
  <1> HIDE DEF m
  <1>12. Numbered(c, m)
    BY <1>7, <1>9, <1>10, <1>11 DEF Numbered
  <1>13. QED
    BY <1>12 DEF m

-----------------------------------------------------------------------------
(* Rows and the events that they depend on *)

(* What an event does to a ledger depends on its condition and correction. *)
LEMMA StepAgrees ==
    ASSUME NEW br, NEW cr, NEW cs, NEW ds, NEW e \in Events, br[e] = cr[e],
           e \in Deposits => cs[e] = ds[e]
    PROVE  /\ Projects(br, e, cs) <=> Projects(cr, e, ds)
           /\ \A acc : Stepped(ReplayOf(br, cs), acc, e) = Stepped(ReplayOf(cr, ds), acc, e)
  <1>1. Facts[e].kind = "deposit" => NetAmount(e, cs) = NetAmount(e, ds)
    BY FactsAre DEF NetAmount
  <1>2. Projects(br, e, cs) <=> Projects(cr, e, ds)
    BY <1>1 DEF Projects
  <1>3. ASSUME NEW acc
        PROVE  LedgerAfter(acc, e, cs) = LedgerAfter(acc, e, ds)
    <2>1. CASE Facts[e].kind = "deposit"
      <3>1. NetAmount(e, cs) = NetAmount(e, ds)
        BY <1>1, <2>1
      <3>2. QED
        BY <3>1 DEF LedgerAfter
    <2>2. CASE Facts[e].kind # "deposit"
      <3> DEFINE L(c) == [a \in Assets |->
                IF a = Facts[e].origin THEN Less(acc[a], Facts[e].in)
                ELSE IF Facts[e].kind = "exchange" /\ a = Facts[e].destination
                     THEN acc[a] + Facts[e].out ELSE acc[a]]
      <3>1. LedgerAfter(acc, e, cs) = L(cs) /\ LedgerAfter(acc, e, ds) = L(ds)
        BY <2>2, FactsAre DEF LedgerAfter
      <3>2. QED
        BY <3>1
    <2>3. QED
      BY <2>1, <2>2
  <1>4. QED
    BY <1>2, <1>3 DEF Stepped, ReplayOf

LEMMA CorrectedAgrees ==
    ASSUME NEW br, NEW n, NEW cs, NEW ds, NEW seed, NEW S, InRow(n, S),
           \A e \in S : e \in Deposits => cs[e] = ds[e]
    PROVE  Taken(ReplayOf(br, cs), n, seed, S) = Taken(ReplayOf(br, ds), n, seed, S)
  <1>1. \A e \in S : e \in Events
    BY DEF InRow
  <1>2. \A e \in S : \A acc : Stepped(ReplayOf(br, cs), acc, e) = Stepped(ReplayOf(br, ds), acc, e)
    <2>1. SUFFICES ASSUME NEW e \in S
                   PROVE  \A acc : Stepped(ReplayOf(br, cs), acc, e)
                                      = Stepped(ReplayOf(br, ds), acc, e)
      OBVIOUS
    <2>2. e \in Events /\ br[e] = br[e] /\ (e \in Deposits => cs[e] = ds[e])
      BY <1>1
    <2>3. QED
      BY <2>2, StepAgrees
  <1>3. QED
    BY <1>2, TakenAgrees

(* Rows before a time depend on nothing after it.                          *)
LEMMA RowsAgree ==
    ASSUME NEW br, NEW cr, NEW n, NEW m, NEW cs, NEW ds, NEW seed, NEW t \in Int,
           NEW es, NEW fs, InRow(n, es), InRow(m, fs),
           \A e \in Events : At(e) < t =>
               br[e] = cr[e] /\ n[e] = m[e] /\ (e \in es <=> e \in fs),
           \A e \in Deposits : At(e) < t => cs[e] = ds[e],
           NEW e \in Events, At(e) < t
    PROVE  RowIn(br, n, cs, seed, es, e) = RowIn(cr, m, ds, seed, fs, e)
  <1>1. (e \in es <=> e \in fs) /\ (Projects(br, e, cs) <=> Projects(cr, e, ds))
    BY StepAgrees
  <1>2. CASE e \in es /\ Projects(br, e, cs)
    <2> DEFINE U == UpTo(n, es, e)
    <2>0. \A f \in Events : At(f) \in Nat
      BY FactsAre
    <2>1. es \subseteq Events /\ fs \subseteq Events
      BY DEF InRow
    <2>2. \A f \in U : f \in es /\ f \in Events /\ At(f) <= At(e)
      BY <2>0, <2>1 DEF UpTo, Earlier
    <2>3. U = UpTo(m, fs, e)
      <3>1. \A f \in Events : Earlier(n, f, e) => At(f) <= At(e)
        BY <2>0 DEF Earlier
      <3>2. \A f \in Events : Earlier(m, f, e) => At(f) <= At(e)
        BY <2>0 DEF Earlier
      <3>3. \A f \in Events : At(f) <= At(e) => At(f) < t
        BY <2>0
      <3>4. \A f \in Events : At(f) <= At(e) => (Earlier(n, f, e) <=> Earlier(m, f, e))
        BY <3>3 DEF Earlier
      <3>5. \A f : f \in UpTo(n, es, e) <=> f \in UpTo(m, fs, e)
        BY <1>1, <2>1, <3>1, <3>2, <3>3, <3>4 DEF UpTo
      <3>6. QED
        BY <3>5
    <2>4. InRow(n, U) /\ InRow(m, U)
      <3>1. U \in SUBSET es
        BY DEF UpTo
      <3>2. UpTo(m, fs, e) \in SUBSET fs
        BY DEF UpTo
      <3>3. QED
        BY <2>3, <3>1, <3>2, InRowSubset
    <2>5. \A f \in U : f \in Events /\ At(f) < t
      BY <2>0, <2>2
    <2> HIDE DEF U
    <2>6. \A f \in U : n[f] = m[f]
      BY <2>5
    <2>7. \A f \in U : \A acc :
             Stepped(ReplayOf(br, cs), acc, f) = Stepped(ReplayOf(cr, ds), acc, f)
      BY <2>5, StepAgrees
    <2>8. Taken(ReplayOf(br, cs), n, seed, U) = Taken(ReplayOf(cr, ds), m, seed, U)
      BY <2>4, <2>6, <2>7, TakenAgrees
    <2>9. QED
      BY <1>1, <1>2, <2>3, <2>8 DEF RowIn, U
  <1>3. CASE ~(e \in es /\ Projects(br, e, cs))
    BY <1>1, <1>3 DEF RowIn
  <1>4. QED
    BY <1>2, <1>3

(* The rows of the model's replay.                                         *)
LEMMA ReplayRows ==
    ASSUME NEW es, InRow(number, es), NEW seed, NEW cs, NEW e \in Events
    PROVE  Replay(es, seed, cs)[e] = RowIn(bronze, number, cs, seed, es, e)
  <1>1. {f \in es : f = e \/ Before(f, e)} = UpTo(number, es, e)
    BY DEF UpTo, Before, Earlier
  <1>2. IsProjected(e, cs) <=> Projects(bronze, e, cs)
    BY DEF IsProjected, Projects
  <1>3. InRow(number, UpTo(number, es, e))
    BY InRowSubset DEF UpTo
  <1>4. LedgerOf(UpTo(number, es, e), seed, cs)
          = Taken(ReplayOf(bronze, cs), number, seed, UpTo(number, es, e))
    BY <1>3, LedgerIsTaken
  <1>5. QED
    BY <1>1, <1>2, <1>4 DEF Replay, RowIn

LEMMA RowInIs ==
    ASSUME NEW br, NEW n, NEW cs \in CorrectionTable, NEW seed \in Ledgers, NEW es,
           InRow(n, es), NEW e \in Events
    PROVE  RowIn(br, n, cs, seed, es, e) \in GoldRow \cup {None}
  <1>1. InRow(n, UpTo(n, es, e))
    BY InRowSubset DEF UpTo
  <1>2. Taken(ReplayOf(br, cs), n, seed, UpTo(n, es, e)) \in Ledgers
    BY <1>1, ReplayIsLedger
  <1>3. QED
    BY <1>2, RowIsRow DEF RowIn

(* The latest balance of an asset is an amount.                            *)
LEMMA LatestBalanceIs ==
    ASSUME NEW T, InRow(number, T), \A e \in T : gold[e] \in GoldRow \cup {None}, NEW a
    PROVE  LatestBalance(T, a) \in Nat
  <1> DEFINE R == Showing(T, a)
  <1>1. LatestBalance(T, a) = IF R = {} THEN 0
          ELSE CHOOSE b \in BalanceIn(LastOf(number, R), a) : TRUE
    <2>1. LatestEvent(R) = LastOf(number, R)
      BY DEF LatestEvent, LastOf, Before, Earlier
    <2>2. LatestBalance(T, a) = IF R = {} THEN 0
            ELSE CHOOSE b \in BalanceIn(LatestEvent(R), a) : TRUE
      BY DEF LatestBalance, Showing
    <2>3. QED
      BY <2>1, <2>2
  <1>2. CASE R # {}
    <2> DEFINE l == LastOf(number, R)
    <2>1. InRow(number, R)
      BY InRowSubset DEF Showing
    <2>2. l \in R
      BY <1>2, <2>1, LastIs
    <2> HIDE DEF l
    <2>3. gold[l] \in GoldRow /\ BalanceIn(l, a) # {}
      BY <2>2 DEF Showing
    <2>4. \A b \in BalanceIn(l, a) : b \in Nat
      BY <2>3 DEF BalanceIn, GoldRow
    <2>5. (CHOOSE b \in BalanceIn(l, a) : TRUE) \in Nat
      BY <2>3, <2>4
    <2>6. QED
      BY <1>1, <1>2, <2>5 DEF l
  <1>3. QED
    BY <1>1, <1>2

-----------------------------------------------------------------------------
(* Pairings *)
Pairs == [next : Nat \ {0}, prev : Nat \cup {None}, writes : Writes]

(* A seen leg of the deposit's asset, in the window after it.              *)
SeenLeg(seen, e, j) ==
    /\ j \in 1..seen /\ Legs[j].asset = Facts[e].destination
    /\ At(e) <= Legs[j].at /\ Legs[j].at <= At(e) + LegWindow
AmountsSeen(seen, writes) ==
    \A w \in writes : w.net # 0 => \E j \in 1..seen : SeenLeg(seen, w.event, j)

LEMMA LegIs ==
    ASSUME NEW seen \in 0..Len(Legs), NEW j \in 1..seen
    PROVE  Legs[j].at \in Nat /\ Legs[j].amount \in Nat /\ Legs[j].amount # 0
  <1>1. PICK N \in Nat : Len(Legs) = N
    BY LegsAssumption
  <1>2. j \in 1..Len(Legs)
    <2>1. seen \in 0..N
      BY <1>1
    <2>2. j \in 1..N
      BY <2>1
    <2>3. QED
      BY <1>1, <2>2
  <1>3. Legs[j] \in [asset : Assets, at : Nat, amount : Nat \ {0}]
    <2> DEFINE R == [asset : Assets, at : Nat, amount : Nat \ {0}]
    <2>1. Legs \in Seq(R)
      BY LegsAssumption
    <2> HIDE DEF R
    <2>2. Legs[j] \in R
      BY <1>2, <2>1
    <2>3. QED
      BY <2>2 DEF R
  <1>4. QED
    BY <1>3

(* Of the legs ahead of an accumulator, the next is the earliest.          *)
Ahead(seen, acc, e) == {i \in acc.next..seen :
                           Legs[i].asset = Facts[e].destination /\ Legs[i].at >= At(e)}
NextLeg(seen, acc, e) == CHOOSE j \in Ahead(seen, acc, e) : \A k \in Ahead(seen, acc, e) : j <= k
LEMMA NextLegIs ==
    ASSUME NEW seen \in 0..Len(Legs), NEW acc \in Pairs, NEW e, Ahead(seen, acc, e) # {}
    PROVE  /\ NextLeg(seen, acc, e) \in Ahead(seen, acc, e)
           /\ \A k \in Ahead(seen, acc, e) : NextLeg(seen, acc, e) <= k
           /\ NextLeg(seen, acc, e) \in 1..seen
  <1> DEFINE A == Ahead(seen, acc, e)
             f == [i \in A |-> i]
  <1>1. acc.next \in Nat \ {0} /\ seen \in Nat
    BY LegsAssumption DEF Pairs
  <1>2. A \subseteq 1..seen /\ A \subseteq Int
    BY <1>1 DEF Ahead
  <1>3. IsFiniteSet(A)
    <2>1. IsFiniteSet(1..seen)
      BY <1>1, FS_Interval
    <2> HIDE DEF A
    <2>2. QED
      BY <1>2, <2>1, FS_Subset
  <1>4. f \in [A -> Int]
    BY <1>2
  <1>5. \E x \in A : \A y \in A : x <= y
    <2>1. PICK x \in A : \A y \in A : f[x] <= f[y]
      <3> HIDE DEF A, f
      <3>1. QED
        BY <1>3, <1>4, LeastExists DEF A
    <2>2. QED
      BY <2>1
  <1>6. NextLeg(seen, acc, e) \in A /\ \A k \in A : NextLeg(seen, acc, e) <= k
    BY <1>5 DEF NextLeg
  <1>7. QED
    BY <1>2, <1>6

LEMMA PairedStep ==
    ASSUME NEW seen \in 0..Len(Legs), NEW acc \in Pairs, NEW e \in Deposits,
           AmountsSeen(seen, acc.writes)
    PROVE  /\ Paired(seen, acc, e) \in Pairs
           /\ AmountsSeen(seen, Paired(seen, acc, e).writes)
           /\ acc.writes \subseteq Paired(seen, acc, e).writes
  <1> DEFINE A == Ahead(seen, acc, e)
             i == NextLeg(seen, acc, e)
             found == A # {} /\ Legs[i].at <= At(e) + LegWindow
             passed == IF A = {} THEN seen + 1 ELSE i
             p == Paired(seen, acc, e)
  <1>1. p = CASE found ->
               [next |-> i + 1, prev |-> At(e),
                writes |-> acc.writes \cup {[event |-> e, net |-> Legs[i].amount]}]
          [] ~found /\ acc.prev # None /\ At(e) - acc.prev <= MergeWindow ->
               [next |-> passed, prev |-> At(e),
                writes |-> acc.writes \cup {[event |-> e, net |-> 0]}]
          [] OTHER -> [next |-> passed, prev |-> None, writes |-> acc.writes]
    BY DEF Paired, Ahead, NextLeg
  <1>2. At(e) \in Nat /\ seen \in Nat
    BY FactsAre, LegsAssumption DEF Deposits
  <1>3. A # {} => i \in 1..seen /\ i \in A
    BY NextLegIs
  <1>4. passed \in Nat \ {0} /\ (A # {} => i + 1 \in Nat \ {0})
    BY <1>2, <1>3
  <1>5. A # {} => Legs[i].amount \in Nat /\ Legs[i].asset = Facts[e].destination
                    /\ Legs[i].at >= At(e)
    BY <1>3, LegIs DEF Ahead
  <1>6. found => SeenLeg(seen, e, i)
    <2>1. ASSUME found PROVE SeenLeg(seen, e, i)
      <3>1. i \in 1..seen /\ Legs[i].at \in Nat
        BY <1>3, <2>1, LegIs
      <3>2. QED
        BY <1>2, <1>5, <2>1, <3>1 DEF SeenLeg
    <2>2. QED
      BY <2>1
  <1>7. acc.writes \in Writes
    BY DEF Pairs
  <1> HIDE DEF A, i, passed, p
  <1>8. CASE found
    <2>1. p = [next |-> i + 1, prev |-> At(e),
                writes |-> acc.writes \cup {[event |-> e, net |-> Legs[i].amount]}]
      BY <1>1, <1>8
    <2>2. p \in Pairs
      BY <1>2, <1>4, <1>5, <1>7, <1>8, <2>1 DEF Pairs, Writes
    <2>3. AmountsSeen(seen, p.writes)
      BY <1>3, <1>6, <1>8, <2>1 DEF AmountsSeen
    <2>4. QED
      BY <2>1, <2>2, <2>3 DEF p
  <1>9. CASE ~found /\ acc.prev # None /\ At(e) - acc.prev <= MergeWindow
    <2>1. p = [next |-> passed, prev |-> At(e),
                writes |-> acc.writes \cup {[event |-> e, net |-> 0]}]
      BY <1>1, <1>9
    <2>2. p \in Pairs
      BY <1>2, <1>4, <1>7, <2>1 DEF Pairs, Writes
    <2>3. AmountsSeen(seen, p.writes)
      BY <2>1 DEF AmountsSeen
    <2>4. QED
      BY <2>1, <2>2, <2>3 DEF p
  <1>10. CASE ~found /\ ~(acc.prev # None /\ At(e) - acc.prev <= MergeWindow)
    <2>1. p = [next |-> passed, prev |-> None, writes |-> acc.writes]
      BY <1>1, <1>10
    <2>2. p \in Pairs
      BY <1>4, <1>7, <2>1 DEF Pairs
    <2>3. QED
      BY <2>1, <2>2 DEF p
  <1>11. QED
    BY <1>8, <1>9, <1>10

LEMMA PairingTyped ==
    ASSUME NEW seen \in 0..Len(Legs), NEW n, NEW S, InRow(n, S), S \subseteq Deposits
    PROVE  /\ Taken(PairingOf(seen), n, Start, S) \in Pairs
           /\ AmountsSeen(seen, Taken(PairingOf(seen), n, Start, S).writes)
  <1> DEFINE k == PairingOf(seen)
             Good(T) == /\ Taken(k, n, Start, T) \in Pairs
                        /\ AmountsSeen(seen, Taken(k, n, Start, T).writes)
             C == {T \in SUBSET S : Good(T)}
  <1>1. ASSUME NEW T \in SUBSET S, \A U \in SUBSET T : U # T => U \in C
        PROVE  T \in C
    <2>1. InRow(n, T)
      BY InRowSubset
    <2>2. Taken(k, n, Start, T) = IF T = {} THEN Start
               ELSE Stepped(k, Taken(k, n, Start, T \ {LastOf(n, T)}), LastOf(n, T))
      BY <2>1, TakenUnfolds
    <2>3. CASE T = {}
      <3>1. Start \in Pairs /\ AmountsSeen(seen, Start.writes)
        BY DEF Start, Pairs, Writes, AmountsSeen
      <3>2. QED
        BY <2>2, <2>3, <3>1
    <2>4. CASE T # {}
      <3> DEFINE l == LastOf(n, T)
                 acc == Taken(k, n, Start, T \ {l})
      <3>1. l \in T /\ l \in Deposits
        BY <2>1, <2>4, LastIs
      <3>2. T \ {l} \in C
        BY <1>1, <3>1
      <3> HIDE DEF l
      <3>3. acc \in Pairs /\ AmountsSeen(seen, acc.writes)
        BY <3>2
      <3> HIDE DEF acc
      <3>4. Stepped(k, acc, l) = Paired(seen, acc, l)
        BY DEF Stepped, PairingOf
      <3>5. Taken(k, n, Start, T) = Paired(seen, acc, l)
        BY <2>2, <2>4, <3>4 DEF l, acc
      <3>6. QED
        BY <3>1, <3>3, <3>5, PairedStep
    <2>5. QED
      BY <2>3, <2>4
  <1>2. IsFiniteSet(S)
    BY DEF InRow
  <1> HIDE DEF C
  <1>3. \A T \in SUBSET S : T \in C
    BY <1>1, <1>2, SubsetInduction
  <1>4. QED
    BY <1>3 DEF C

-----------------------------------------------------------------------------
(* The history's states *)
GoldBase ==
    /\ GoldTypeOK
    /\ Numbered(bronze, number)
    /\ \A e \in Events : gold[e] # None => bronze[e] # "absent"
    /\ projection # None => dirty # None

(* What the sets of events that are replayed and paired have in common.    *)
LEMMA KnownInRow ==
    ASSUME GoldBase
    PROVE  /\ InRow(number, Successes)
           /\ InRow(number, {e \in Events : gold[e] # None})
           /\ \A a : InRow(number, {e \in DepositsInGold : Facts[e].destination = a})
           /\ \A t : InRow(number, {e \in Successes : At(e) >= t})
           /\ \A t : InRow(number, {e \in Successes : At(e) < t})
  <1>1. InRow(number, Successes)
    <2>1. Successes \in SUBSET Events /\ \A e \in Successes : bronze[e] # "absent"
      BY DEF Successes
    <2>2. QED
      BY <2>1, NumberedInRow DEF GoldBase
  <1>2. InRow(number, {e \in Events : gold[e] # None})
    BY NumberedInRow DEF GoldBase
  <1>3. \A a : InRow(number, {e \in DepositsInGold : Facts[e].destination = a})
    BY <1>2, InRowSubset DEF DepositsInGold, Deposits
  <1>4. \A t : /\ InRow(number, {e \in Successes : At(e) >= t})
               /\ InRow(number, {e \in Successes : At(e) < t})
    BY <1>1, InRowSubset
  <1>5. QED
    BY <1>1, <1>2, <1>3, <1>4

LEMMA PairingsTyped ==
    ASSUME GoldBase
    PROVE  Pairings \in Writes /\ AmountsSeen(legs, Pairings)
  <1>1. legs \in 0..Len(Legs)
    BY DEF GoldBase, GoldTypeOK
  <1>2. ASSUME NEW a \in Assets
        PROVE  LET ds == {e \in DepositsInGold : Facts[e].destination = a}
               IN  PairDepositsToLegs(ds) \in Writes /\ AmountsSeen(legs, PairDepositsToLegs(ds))
    <2> DEFINE ds == {e \in DepositsInGold : Facts[e].destination = a}
    <2>1. InRow(number, ds) /\ ds \subseteq Deposits
      BY KnownInRow DEF DepositsInGold
    <2> HIDE DEF ds
    <2>2. PairDepositsToLegs(ds) = Taken(PairingOf(legs), number, Start, ds).writes
      BY <2>1, PairingIsTaken
    <2>3. /\ Taken(PairingOf(legs), number, Start, ds) \in Pairs
          /\ AmountsSeen(legs, Taken(PairingOf(legs), number, Start, ds).writes)
      BY <1>1, <2>1, PairingTyped
    <2>4. PairDepositsToLegs(ds) \in Writes /\ AmountsSeen(legs, PairDepositsToLegs(ds))
      BY <2>2, <2>3 DEF Pairs
    <2>5. QED
      BY <2>4 DEF ds
  <1>3. QED
    BY <1>2 DEF Pairings, Writes, AmountsSeen

(* The seed of a projection is a ledger.                                   *)
LEMMA SeedIsLedger ==
    ASSUME GoldBase, NEW T \in SUBSET Events, NEW a
    PROVE  LatestBalance(T, a) \in Nat
  <1> DEFINE R == {e \in T : gold[e] # None}
  <1>1. LatestBalance(T, a) = LatestBalance(R, a)
    <2>1. {e \in T : gold[e] # None /\ BalanceIn(e, a) # {}}
            = {e \in R : gold[e] # None /\ BalanceIn(e, a) # {}}
      OBVIOUS
    <2>2. Showing(T, a) = Showing(R, a)
      BY <2>1 DEF Showing
    <2>3. \A U : LatestBalance(U, a) = IF Showing(U, a) = {} THEN 0
            ELSE CHOOSE b \in BalanceIn(LatestEvent(Showing(U, a)), a) : TRUE
      BY DEF LatestBalance, Showing
    <2>4. QED
      BY <2>2, <2>3
  <1>2. InRow(number, R)
    <2>1. R \in SUBSET {e \in Events : gold[e] # None}
      OBVIOUS
    <2>2. QED
      BY <2>1, KnownInRow, InRowSubset
  <1>3. \A e \in R : gold[e] \in GoldRow \cup {None}
    BY DEF GoldBase, GoldTypeOK
  <1> HIDE DEF R
  <1>4. QED
    BY <1>1, <1>2, <1>3, LatestBalanceIs

(* A mark is never later than what it marks, or than the mark before it.   *)
LEMMA MarkIs ==
    ASSUME GoldBase, NEW from \in Int, MarkGoldDirty(from)
    PROVE  /\ projection = None
           /\ dirty' \in Int /\ dirty' # None /\ dirty' <= from
           /\ dirty # None => dirty' <= dirty
           /\ unmarked' = {e \in unmarked : At(e) < dirty'}
           /\ unmarked' \in SUBSET Deposits
  <1>1. dirty \in Int \cup {None} /\ unmarked \in SUBSET Deposits
    BY DEF GoldBase, GoldTypeOK
  <1>2. /\ projection = None /\ dirty' = Marked(from)
        /\ unmarked' = {e \in unmarked : At(e) < Marked(from)}
    BY DEF MarkGoldDirty, Unlocked
  <1>3. Marked(from) \in Int /\ Marked(from) <= from /\ (dirty # None => Marked(from) <= dirty)
    BY <1>1 DEF Marked
  <1>4. dirty' # None
    BY <1>2, <1>3, ValuesAreDefined
  <1>5. QED
    BY <1>1, <1>2, <1>3, <1>4

(* A page is stored.                                                       *)
LEMMA PageStored ==
    ASSUME GoldBase, NEW page \in Pages, NEW reported \in Reports(page),
           UpsertHistoryEvents(page, reported)
    PROVE  /\ ToSet(page) \in SUBSET Events /\ Earliest(ToSet(page)) \in Nat
           /\ \A e \in ToSet(page) : Earliest(ToSet(page)) <= At(e)
           /\ MarkGoldDirty(Earliest(ToSet(page)))
           /\ bronze' \in [Events -> Conditions] /\ Numbered(bronze', number')
           /\ \A e \in Events : e \notin ToSet(page) => bronze'[e] = bronze[e] /\ number'[e] = number[e]
           /\ \A e \in ToSet(page) : bronze'[e] # "absent"
           /\ \A e \in Events : bronze[e] # "absent" => bronze'[e] # "absent"
           /\ changes' \in 0..MaxChanges
  <1>1. /\ ToSet(page) \in SUBSET Events /\ ToSet(page) # {}
        /\ ToSet(page) = {page[i] : i \in DOMAIN page}
    BY PageIs
  <1>2. Earliest(ToSet(page)) \in Nat /\ \A e \in ToSet(page) : Earliest(ToSet(page)) <= At(e)
    BY <1>1, EarliestIs
  <1>3. \A e \in ToSet(page) : reported[e] \in Conditions /\ reported[e] # "absent"
    <2>1. \A e \in ToSet(page) : reported[e] \in MayBecome(bronze[e])
      BY DEF UpsertHistoryEvents
    <2>2. QED
      BY <2>1 DEF MayBecome, Conditions
  <1>4. bronze \in [Events -> Conditions] /\ Numbered(bronze, number)
    BY DEF GoldBase, GoldTypeOK
  <1>5. bronze' = [e \in Events |-> IF e \in ToSet(page) THEN reported[e] ELSE bronze[e]]
    BY DEF UpsertHistoryEvents
  <1>6. bronze' \in [Events -> Conditions]
    BY <1>3, <1>4, <1>5
  <1>7. number' = NumbersAfter(bronze, number, page)
    BY DEF UpsertHistoryEvents, NumbersAfter, KnownAt
  <1>8. Numbered(bronze', number')
    <2>1. \A e \in Events : bronze'[e] = "absent" <=> bronze[e] = "absent" /\ e \notin ToSet(page)
      BY <1>3, <1>5
    <2>2. QED
      BY <1>4, <1>7, <2>1, PagesNumber
  <1>9. \A e \in Events : e \notin ToSet(page) => bronze'[e] = bronze[e] /\ number'[e] = number[e]
    BY <1>5, <1>7 DEF NumbersAfter
  <1>10. changes' \in 0..MaxChanges
    <2>1. Cardinality(ToSet(page)) \in Nat
      BY <1>1, EventsAreFinite, FS_Subset, FS_CardinalityType
    <2>2. changes \in 0..MaxChanges /\ MaxChanges \in Nat
      BY GoldBounds DEF GoldBase, GoldTypeOK
    <2>3. /\ changes' = changes + Cardinality(ToSet(page))
          /\ changes + Cardinality(ToSet(page)) <= MaxChanges
      BY DEF UpsertHistoryEvents
    <2>4. QED
      BY <2>1, <2>2, <2>3
  <1>11. MarkGoldDirty(Earliest(ToSet(page)))
    BY DEF UpsertHistoryEvents
  <1>12. QED
    BY <1>1, <1>2, <1>3, <1>5, <1>6, <1>8, <1>9, <1>10, <1>11

(* A correction is written.                                                *)
LEMMA CorrectionWritten ==
    ASSUME GoldBase, NEW w \in [event : Deposits, net : Nat],
           NEW source \in {"live_fetch", "balance_changes"}, UpsertCorrection(w, source)
    PROVE  /\ corrections' \in CorrectionTable /\ unmarked' \in SUBSET Deposits
           /\ unmarked \subseteq unmarked'
           /\ \A e \in Deposits : corrections'[e] # corrections[e] => e = w.event /\ e \in unmarked'
           /\ \A e \in Deposits : \/ corrections'[e] = corrections[e]
                                  \/ e = w.event
                                     /\ corrections'[e] = [net |-> w.net, source |-> source]
  <1> DEFINE d == w.event
             kept == corrections[d] # None /\ source = "live_fetch"
                         /\ corrections[d].source = "balance_changes"
             new == IF kept THEN corrections[d] ELSE [net |-> w.net, source |-> source]
  <1>1. corrections \in CorrectionTable /\ unmarked \in SUBSET Deposits /\ d \in Deposits
    BY DEF GoldBase, GoldTypeOK, CorrectionTable
  <1>2. /\ corrections' = [corrections EXCEPT ![d] = new]
        /\ unmarked' = IF new = corrections[d] THEN unmarked ELSE unmarked \cup {d}
    BY DEF UpsertCorrection
  <1>3. new \in Correction \cup {None}
    BY <1>1 DEF CorrectionTable, Correction
  <1>4. \A e \in Deposits : corrections'[e] = IF e = d THEN new ELSE corrections[e]
    BY <1>1, <1>2 DEF CorrectionTable
  <1>5. new = corrections[d] \/ new = [net |-> w.net, source |-> source]
    OBVIOUS
  <1> HIDE DEF new, kept
  <1>6. corrections' \in CorrectionTable
    BY <1>1, <1>2, <1>3 DEF CorrectionTable
  <1>7. \A e \in Deposits : corrections'[e] # corrections[e] => e = d /\ e \in unmarked'
    BY <1>2, <1>4
  <1>8. \A e \in Deposits : \/ corrections'[e] = corrections[e]
                            \/ e = d /\ corrections'[e] = [net |-> w.net, source |-> source]
    BY <1>4, <1>5
  <1>9. QED
    BY <1>1, <1>2, <1>6, <1>7, <1>8

LEMMA NumbersBounded ==
    ASSUME NEW br, NEW n, Numbered(br, n)
    PROVE  n \in [Events -> 0..Cardinality(Events)]
  <1>1. Cardinality(Events) \in Nat
    BY EventsAreFinite, FS_CardinalityType
  <1>2. ASSUME NEW e \in Events
        PROVE  n[e] \in 0..Cardinality(Events)
    <2>1. KnownAt(n, At(e)) \in SUBSET Events
      BY DEF KnownAt
    <2>2. /\ Cardinality(KnownAt(n, At(e))) \in Nat
          /\ Cardinality(KnownAt(n, At(e))) <= Cardinality(Events)
      BY <2>1, EventsAreFinite, FS_Subset, FS_CardinalityType
    <2>3. n[e] \in Nat /\ n[e] <= Cardinality(KnownAt(n, At(e)))
      BY DEF Numbered
    <2>4. QED
      BY <1>1, <2>2, <2>3
  <1>3. n = [e \in Events |-> n[e]]
    BY DEF Numbered
  <1>4. QED
    BY <1>2, <1>3

(* What a projection writes are rows, of events that are known.            *)
LEMMA ProjectedRows ==
    ASSUME GoldBase, projection # None, Successes # {}, ProjectSuffix
    PROVE  /\ gold' \in [Events -> GoldRow \cup {None}]
           /\ \A e \in Events : gold'[e] # None => bronze[e] # "absent"
           /\ unmarked' \in SUBSET Deposits
  <1> DEFINE from == RecomputeFrom
             es == {e \in Successes : At(e) >= from}
             seed == [a \in Assets |-> LatestBalance({e \in Events : At(e) < from}, a)]
  <1>1. seed \in Ledgers
    <2>1. \A a \in Assets : LatestBalance({e \in Events : At(e) < from}, a) \in Nat
      BY SeedIsLedger
    <2>2. QED
      BY <2>1 DEF Ledgers
  <1>2. InRow(number, es)
    BY KnownInRow
  <1>3. projection \in CorrectionTable
    BY DEF GoldBase, GoldTypeOK, CorrectionTable
  <1>a. /\ gold' = [e \in Events |->
               IF At(e) < from \/ bronze[e] = "unreadable" THEN gold[e]
               ELSE Replay(es, seed, projection)[e]]
        /\ unmarked' = {e \in unmarked : At(e) < from \/ projection[e] # corrections[e]}
    BY DEF ProjectSuffix
  <1>b. \A e \in Events : e \in es => bronze[e] # "absent"
    BY DEF Successes
  <1> HIDE DEF seed, es, from
  <1>4. ASSUME NEW e \in Events
        PROVE  /\ Replay(es, seed, projection)[e] \in GoldRow \cup {None}
               /\ Replay(es, seed, projection)[e] # None => bronze[e] # "absent"
    <2>1. Replay(es, seed, projection)[e] = RowIn(bronze, number, projection, seed, es, e)
      BY <1>2, ReplayRows
    <2>2. RowIn(bronze, number, projection, seed, es, e) \in GoldRow \cup {None}
      BY <1>1, <1>2, <1>3, RowInIs
    <2>3. RowIn(bronze, number, projection, seed, es, e) # None => e \in es
      BY DEF RowIn
    <2>4. QED
      BY <1>b, <2>1, <2>2, <2>3
  <1>5. /\ gold \in [Events -> GoldRow \cup {None}]
        /\ \A e \in Events : gold[e] # None => bronze[e] # "absent"
        /\ unmarked \in SUBSET Deposits
    BY DEF GoldBase, GoldTypeOK
  <1>6. QED
    BY <1>4, <1>5, <1>a

LEMMA GoldBaseStarts == GoldInit => GoldBase
  <1> SUFFICES ASSUME GoldInit PROVE GoldBase
    OBVIOUS
  <1>0. /\ Len(Legs) \in Nat /\ MaxChanges \in Nat /\ MaxStops \in Nat
        /\ Cardinality(Events) \in Nat
    BY LegsAssumption, GoldBounds, EventsAreFinite, FS_CardinalityType
  <1>1. Numbered(bronze, number)
    <2>1. \A e \in Events : Cardinality(KnownAt(number, At(e))) \in Nat
      <3>1. \A e \in Events : KnownAt(number, At(e)) \in SUBSET Events
        BY DEF KnownAt
      <3>2. QED
        BY <3>1, EventsAreFinite, FS_Subset, FS_CardinalityType
    <2>2. QED
      BY <2>1 DEF GoldInit, Numbered
  <1>2. GoldTypeOK
    BY <1>0 DEF GoldInit, GoldTypeOK, Conditions, IdleLive, IdlePairing, Writes
  <1>3. QED
    BY <1>1, <1>2 DEF GoldInit, GoldBase

LEMMA SoonerIs ==
    ASSUME NEW earliest \in Times \cup {None}, NEW e \in Deposits
    PROVE  Sooner(earliest, e) \in Times
  BY DEF Sooner, Times, Deposits

LEMMA TimesAre == Times \subseteq Nat
  BY FactsAre DEF Times

LEMMA MarginBefore ==
    ASSUME NEW t \in Times
    PROVE  t - Margin \in Int
  <1>1. t \in Nat
    BY TimesAre
  <1>2. Margin \in Nat
    BY GoldBounds
  <1>3. QED
    BY <1>1, <1>2

LEMMA GoldBaseStep ==
    ASSUME GoldBase, [GoldNext]_goldVars
    PROVE  GoldBase'
  <1> USE DEF GoldBase
  <1>t. /\ bronze \in [Events -> Conditions]
        /\ gold \in [Events -> GoldRow \cup {None}]
        /\ dirty \in Int \cup {None}
        /\ corrections \in CorrectionTable
        /\ legs \in 0..Len(Legs)
        /\ projection \in CorrectionTable \cup {None}
        /\ live \in [todo : SUBSET Deposits, writes : Writes, earliest : Times \cup {None}]
        /\ pairing \in [writes : Writes, earliest : Times \cup {None}]
        /\ unmarked \in SUBSET Deposits
        /\ changes \in 0..MaxChanges /\ stops \in 0..MaxStops
        /\ number \in [Events -> 0..Cardinality(Events)]
        /\ \A e \in Events : number[e] = 0 <=> bronze[e] = "absent"
    BY DEF GoldTypeOK, CorrectionTable
  <1>w. MaxChanges \in Nat /\ MaxStops \in Nat
    BY GoldBounds
  <1>same. ASSUME UNCHANGED <<bronze, number>>
           PROVE  /\ Numbered(bronze', number') /\ bronze' \in [Events -> Conditions]
                  /\ number' \in [Events -> 0..Cardinality(Events)]
                  /\ \A e \in Events : number'[e] = 0 <=> bronze'[e] = "absent"
    BY <1>same, <1>t
  <1>1. ASSUME NEW page \in Pages, NEW reported \in Reports(page),
               UpsertHistoryEvents(page, reported), live' \in [todo : SUBSET Deposits, writes : Writes, earliest : Times \cup {None}]
        PROVE  GoldBase'
    <2>1. /\ dirty' \in Int /\ dirty' # None /\ unmarked' \in SUBSET Deposits
      BY <1>1, PageStored, MarkIs
    <2>2. /\ bronze' \in [Events -> Conditions] /\ Numbered(bronze', number')
          /\ \A e \in Events : bronze[e] # "absent" => bronze'[e] # "absent"
          /\ changes' \in 0..MaxChanges
      BY <1>1, PageStored
    <2>3. number' \in [Events -> 0..Cardinality(Events)]
      BY <2>2, NumbersBounded
    <2>4. \A e \in Events : number'[e] = 0 <=> bronze'[e] = "absent"
      BY <2>2 DEF Numbered
    <2>5. UNCHANGED <<gold, corrections, legs, projection, pairing, stops>>
      BY <1>1 DEF UpsertHistoryEvents
    <2>6. QED
      BY <1>t, <1>1, <2>1, <2>2, <2>3, <2>4, <2>5 DEF GoldTypeOK, CorrectionTable
  <1>2. ASSUME NEW page \in Pages, NEW reported \in Reports(page), IngestPage(page, reported)
        PROVE  GoldBase'
    BY <1>1, <1>2, <1>t DEF IngestPage
  <1>3. ASSUME NEW page \in Pages, NEW reported \in Reports(page), NEW cutoff \in Times,
               PollLatestPage(page, reported, cutoff)
        PROVE  GoldBase'
    <2>1. live' \in [todo : SUBSET Deposits, writes : Writes, earliest : Times \cup {None}]
      BY <1>3 DEF PollLatestPage, IdleLive, Writes
    <2>2. QED
      BY <1>1, <1>3, <2>1 DEF PollLatestPage
  <1>4. ASSUME NEW e \in Events, LinkIntent(e)
        PROVE  GoldBase'
    <2>1. At(e) \in Int
      BY FactsAre
    <2>2. /\ dirty' \in Int /\ dirty' # None /\ unmarked' \in SUBSET Deposits
      BY <1>4, <2>1, MarkIs DEF LinkIntent
    <2>3. changes' \in 0..MaxChanges
      BY <1>4, <1>t, <1>w DEF LinkIntent
    <2>4. QED
      BY <1>4, <1>t, <1>same, <2>2, <2>3 DEF LinkIntent, GoldTypeOK, CorrectionTable
  <1>5. CASE RecordLeg
    <2>1. legs' \in 0..Len(Legs)
      <3>1. PICK N \in Nat : Len(Legs) = N
        BY LegsAssumption
      <3>2. legs \in 0..N /\ legs < N /\ legs' = legs + 1
        BY <1>5, <1>t, <3>1 DEF RecordLeg
      <3>3. legs' \in 0..N
        BY <3>2
      <3>4. QED
        BY <3>1, <3>3
    <2>2. QED
      BY <1>5, <1>t, <1>same, <2>1 DEF RecordLeg, GoldTypeOK, CorrectionTable
  <1>6. ASSUME NEW a \in Assets, NEW balance \in LiveBalances, ReadBalance(a, balance)
        PROVE  GoldBase'
    <2> DEFINE ds == {e \in live.todo : Facts[e].destination = a}
               delta == balance - LatestBalance(Events, a)
               first == CHOOSE e \in ds : \A f \in ds : f = e \/ Before(e, f)
               ws == IF delta <= 0 THEN {}
                     ELSE {[event |-> e, net |-> IF e = first THEN delta ELSE 0] : e \in ds}
    <2>1. balance \in Nat /\ LatestBalance(Events, a) \in Nat
      BY GoldBounds, SeedIsLedger
    <2>2. ds \in SUBSET Deposits
      BY <1>t
    <2>3. live' = [live EXCEPT !.todo = @ \ ds, !.writes = ws]
      BY <1>6 DEF ReadBalance
    <2>d. delta \in Int
      BY <2>1
    <2> HIDE DEF ds, delta, first
    <2>4. ws \in Writes
      BY <2>2, <2>d DEF Writes
    <2> HIDE DEF ws
    <2>5. live' \in [todo : SUBSET Deposits, writes : Writes, earliest : Times \cup {None}]
      BY <1>t, <2>2, <2>3, <2>4
    <2>6. QED
      BY <1>6, <1>t, <1>same, <2>5 DEF ReadBalance, GoldTypeOK, CorrectionTable
  <1>7. ASSUME NEW w \in live.writes, WriteLive(w)
        PROVE  GoldBase'
    <2>1. w \in [event : Deposits, net : Nat]
      BY <1>t DEF Writes
    <2>2. corrections' \in CorrectionTable /\ unmarked' \in SUBSET Deposits
      BY <1>7, <2>1, CorrectionWritten DEF WriteLive
    <2>3. Sooner(live.earliest, w.event) \in Times
      BY <1>t, <2>1, SoonerIs
    <2>4. live' \in [todo : SUBSET Deposits, writes : Writes, earliest : Times \cup {None}]
      BY <1>7, <1>t, <2>3 DEF WriteLive, Writes
    <2>5. QED
      BY <1>7, <1>t, <1>same, <2>2, <2>4 DEF WriteLive, GoldTypeOK, CorrectionTable
  <1>8. CASE EndLive
    <2>1. dirty' \in Int \cup {None} /\ unmarked' \in SUBSET Deposits
          /\ (dirty # None => dirty' # None)
      <3>1. CASE live.earliest = None
        BY <1>8, <1>t, <3>1 DEF EndLive
      <3>2. CASE live.earliest # None
        <4>1. live.earliest - Margin \in Int
          <5>1. live.earliest \in Times
            BY <1>t, <3>2
          <5>2. QED
            BY <5>1, MarginBefore
        <4>2. MarkGoldDirty(live.earliest - Margin)
          BY <1>8, <3>2 DEF EndLive
        <4>3. QED
          BY <4>1, <4>2, MarkIs
      <3>3. QED
        BY <3>1, <3>2
    <2>2. live' \in [todo : SUBSET Deposits, writes : Writes, earliest : Times \cup {None}]
      BY <1>8 DEF EndLive, IdleLive, Writes
    <2>3. QED
      BY <1>8, <1>t, <1>same, <2>1, <2>2 DEF EndLive, GoldTypeOK, CorrectionTable
  <1>9. CASE ReadDeposits
    <2>1. pairing' \in [writes : Writes, earliest : Times \cup {None}]
      BY <1>9, <1>t, PairingsTyped DEF ReadDeposits
    <2>2. QED
      BY <1>9, <1>t, <1>same, <2>1 DEF ReadDeposits, GoldTypeOK, CorrectionTable
  <1>10. ASSUME NEW w \in pairing.writes, WritePaired(w)
         PROVE  GoldBase'
    <2>1. w \in [event : Deposits, net : Nat]
      BY <1>t DEF Writes
    <2>2. corrections' \in CorrectionTable /\ unmarked' \in SUBSET Deposits
      BY <1>10, <2>1, CorrectionWritten DEF WritePaired
    <2>3. Sooner(pairing.earliest, w.event) \in Times
      BY <1>t, <2>1, SoonerIs
    <2>4. pairing' \in [writes : Writes, earliest : Times \cup {None}]
      BY <1>10, <1>t, <2>3 DEF WritePaired, Writes
    <2>5. QED
      BY <1>10, <1>t, <1>same, <2>2, <2>4 DEF WritePaired, GoldTypeOK, CorrectionTable
  <1>11. CASE EndPairing
    <2>1. pairing.earliest \in Times
      <3>1. pairing = [writes |-> pairing.writes, earliest |-> pairing.earliest]
        BY <1>t
      <3>2. pairing # IdlePairing /\ pairing.writes = {}
        BY <1>11 DEF EndPairing
      <3>3. pairing.earliest # None
        BY <3>1, <3>2 DEF IdlePairing
      <3>4. QED
        BY <1>t, <3>3
    <2>2. pairing.earliest - Margin \in Int
      BY <2>1, MarginBefore
    <2>3. dirty' \in Int /\ dirty' # None /\ unmarked' \in SUBSET Deposits
      BY <1>11, <2>2, MarkIs DEF EndPairing
    <2>4. pairing' \in [writes : Writes, earliest : Times \cup {None}]
      BY <1>11 DEF EndPairing, IdlePairing, Writes
    <2>5. QED
      BY <1>11, <1>t, <1>same, <2>3, <2>4 DEF EndPairing, GoldTypeOK, CorrectionTable
  <1>12. CASE MarkBackfilled
    <2>1. Earliest(Successes) \in Int
      BY <1>12, EarliestIs DEF MarkBackfilled, Successes
    <2>2. dirty' \in Int /\ dirty' # None /\ unmarked' \in SUBSET Deposits
      BY <1>12, <2>1, MarkIs DEF MarkBackfilled
    <2>3. QED
      BY <1>12, <1>t, <1>same, <2>2 DEF MarkBackfilled, GoldTypeOK, CorrectionTable
  <1>13. CASE BeginProjection
    BY <1>13, <1>t, <1>same DEF BeginProjection, GoldTypeOK, CorrectionTable
  <1>14. CASE CommitProjection
    <2>1. /\ gold' \in [Events -> GoldRow \cup {None}]
          /\ \A e \in Events : gold'[e] # None => bronze[e] # "absent"
          /\ unmarked' \in SUBSET Deposits
      <3>1. CASE Successes = {}
        BY <1>14, <1>t, <3>1 DEF CommitProjection
      <3>2. CASE Successes # {}
        BY <1>14, <3>2, ProjectedRows DEF CommitProjection, Unlocked
      <3>3. QED
        BY <3>1, <3>2
    <2>2. QED
      BY <1>14, <1>t, <1>same, <2>1 DEF CommitProjection, GoldTypeOK, CorrectionTable
  <1>15. CASE Stop
    <2>1. stops' \in 0..MaxStops
      BY <1>15, <1>t, <1>w DEF Stop
    <2>2. /\ live' \in [todo : SUBSET Deposits, writes : Writes, earliest : Times \cup {None}]
          /\ pairing' \in [writes : Writes, earliest : Times \cup {None}]
          /\ projection' \in {projection, None}
      BY <1>15, <1>t DEF Stop, IdleLive, IdlePairing, Writes
    <2>3. UNCHANGED <<bronze, number, gold, dirty, corrections, legs, unmarked, changes>>
      BY <1>15 DEF Stop
    <2>4. QED
      BY <1>t, <1>same, <2>1, <2>2, <2>3 DEF GoldTypeOK, CorrectionTable
  <1>16. CASE UNCHANGED goldVars
    BY <1>16, <1>t, <1>same DEF goldVars, GoldTypeOK, CorrectionTable
  <1>17. QED
    BY <1>2, <1>3, <1>4, <1>5, <1>6, <1>7, <1>8, <1>9, <1>10, <1>11, <1>12, <1>13, <1>14,
       <1>15, <1>16
    DEF GoldNext, Ingest, CorrectNewDeposits, ReconcileDao, Projector

(* In every reachable state the events, rows, corrections and the mark, and*)
(* what the open transaction and the two passes hold, are well typed; the  *)
(* ids tell the events of one time apart, however pages come.              *)
THEOREM GoldIsTyped == GoldSpec => []GoldTypeOK
  <1>1. GoldInit => GoldBase
    BY GoldBaseStarts
  <1>2. GoldBase /\ [GoldNext]_goldVars => GoldBase'
    BY GoldBaseStep
  <1>3. GoldBase => GoldTypeOK
    BY DEF GoldBase
  <1>4. QED
    BY <1>1, <1>2, <1>3, PTL DEF GoldSpec

LEMMA GoldBaseHolds == GoldSpec => []GoldBase
  <1>1. GoldInit => GoldBase
    BY GoldBaseStarts
  <1>2. GoldBase /\ [GoldNext]_goldVars => GoldBase'
    BY GoldBaseStep
  <1>3. QED
    BY <1>1, <1>2, PTL DEF GoldSpec

-----------------------------------------------------------------------------
(* Rows before every mark are right *)

(* Nothing before this time waits for a projection: not the mark, not a    *)
(* correction that has not been marked, not a row that is kept.            *)
Clean(t) ==
    /\ dirty # None => t <= dirty
    /\ \A e \in unmarked : t <= At(e)
    /\ \A e \in Events : bronze[e] = "unreadable" /\ gold[e] # None => t <= At(e)
Right(e) == gold[e] = RowIn(bronze, number, corrections, Zero, Successes, e)
CleanRows == \A t \in Int : Clean(t) => \A e \in Events : At(e) < t => Right(e)

(* A projection in progress is behind only on corrections that are marked  *)
(* after it.                                                               *)
Loaded == projection # None =>
              \A e \in Deposits : projection[e] # corrections[e] => e \in unmarked
NoneLeft == Successes = {} => \A e \in Events : gold[e] = None
CleanInv == GoldBase /\ CleanRows /\ Loaded /\ NoneLeft

LEMMA ZeroIs == Zero \in Ledgers
  BY DEF Zero, Ledgers

(* A step that only moves the mark, or changes events from it on, leaves   *)
(* right what was right before it.                                         *)
LEMMA RightStays ==
    ASSUME GoldBase, GoldBase', NEW t \in Int, UNCHANGED gold,
           \A e \in Events : At(e) < t => bronze'[e] = bronze[e] /\ number'[e] = number[e],
           \A e \in Deposits : At(e) < t => corrections'[e] = corrections[e],
           NEW e \in Events, At(e) < t, Right(e)
    PROVE  Right(e)'
  <1>1. InRow(number, Successes) /\ InRow(number', Successes')
    <2>1. InRow(number, Successes)
      BY KnownInRow
    <2>2. InRow(number', Successes')
      <3>1. Successes' \in SUBSET Events /\ \A f \in Successes' : bronze'[f] # "absent"
        BY DEF Successes
      <3>2. Numbered(bronze', number')
        BY DEF GoldBase
      <3>3. QED
        BY <3>1, <3>2, NumberedInRow
    <2>3. QED
      BY <2>1, <2>2
  <1>2. \A f \in Events : At(f) < t => (f \in Successes <=> f \in Successes')
    BY DEF Successes
  <1>3. RowIn(bronze, number, corrections, Zero, Successes, e)
          = RowIn(bronze', number', corrections', Zero, Successes', e)
    BY <1>1, <1>2, RowsAgree
  <1>4. QED
    BY <1>3 DEF Right

LEMMA CleanRowsStay ==
    ASSUME GoldBase, GoldBase', CleanRows, UNCHANGED gold,
           ASSUME NEW t \in Int, Clean(t)'
           PROVE  /\ Clean(t)
                  /\ \A e \in Events : At(e) < t => bronze'[e] = bronze[e] /\ number'[e] = number[e]
                  /\ \A e \in Deposits : At(e) < t => corrections'[e] = corrections[e]
    PROVE  CleanRows'
  <1>1. ASSUME NEW t \in Int, Clean(t)', NEW e \in Events, At(e) < t
        PROVE  Right(e)'
    <2>1. Clean(t)
      BY <1>1
    <2>2. Right(e)
      BY <1>1, <2>1 DEF CleanRows
    <2>3. /\ \A f \in Events : At(f) < t => bronze'[f] = bronze[f] /\ number'[f] = number[f]
          /\ \A f \in Deposits : At(f) < t => corrections'[f] = corrections[f]
      BY <1>1
    <2>4. QED
      BY <1>1, <2>2, <2>3, RightStays
  <1>2. QED
    BY <1>1 DEF CleanRows

(* A mark: what is clean after it was clean before it.                     *)
LEMMA CleanBeforeMark ==
    ASSUME GoldBase, NEW from \in Int, MarkGoldDirty(from), NEW t \in Int, Clean(t)',
           UNCHANGED gold,
           \A e \in Events : bronze[e] = "unreadable" =>
               bronze'[e] = "unreadable" \/ from <= At(e)
    PROVE  Clean(t) /\ t <= from
  <1>1. /\ dirty' \in Int /\ dirty' # None /\ dirty' <= from
        /\ dirty # None => dirty' <= dirty
        /\ unmarked' = {e \in unmarked : At(e) < dirty'}
    BY MarkIs
  <1>2. t <= dirty'
    BY <1>1 DEF Clean
  <1>3. dirty \in Int \cup {None} /\ unmarked \in SUBSET Deposits /\ Deposits \subseteq Events
    BY DEF GoldBase, GoldTypeOK, Deposits
  <1>4. t <= from
    BY <1>1, <1>2
  <1>5. dirty # None => t <= dirty
    BY <1>1, <1>2, <1>3
  <1>6. \A e \in unmarked : t <= At(e)
    <2>1. \A e \in unmarked : At(e) \in Nat
      BY <1>3, FactsAre
    <2>2. \A e \in unmarked : At(e) < dirty' => t <= At(e)
      BY <1>1 DEF Clean
    <2>3. QED
      BY <1>1, <1>2, <2>1, <2>2
  <1>7. \A e \in Events : bronze[e] = "unreadable" /\ gold[e] # None => t <= At(e)
    <2>1. \A e \in Events : bronze'[e] = "unreadable" /\ gold[e] # None => t <= At(e)
      BY DEF Clean
    <2>2. \A e \in Events : from <= At(e) => t <= At(e)
      BY <1>4, FactsAre
    <2>3. QED
      BY <2>1, <2>2
  <1>8. QED
    BY <1>4, <1>5, <1>6, <1>7 DEF Clean

(* A projection, from where it starts: what it leaves is the replay of the *)
(* history up to there, whatever of it was in gold before.                 *)
LEMMA ProjectionIsRight ==
    ASSUME GoldBase, CleanRows, Loaded, projection # None, Successes # {}, ProjectSuffix,
           UNCHANGED <<bronze, number, corrections>>, NEW t \in Int, Clean(t)',
           NEW e \in Events, At(e) < t
    PROVE  Right(e)'
  <1> DEFINE from == RecomputeFrom
             late == {f \in Successes : At(f) >= from}
             early == {f \in Successes : At(f) < from}
             seed == [a \in Assets |-> LatestBalance({f \in Events : At(f) < from}, a)]
             k == ReplayOf(bronze, corrections)
             j == ReplayOf(bronze, projection)
  <1>t. /\ dirty \in Int /\ corrections \in CorrectionTable /\ projection \in CorrectionTable
        /\ unmarked \in SUBSET Deposits /\ Deposits \subseteq Events
        /\ \A f \in Events : gold[f] # None => bronze[f] # "absent"
        /\ Successes \in SUBSET Events
        /\ \A f \in Events : At(f) \in Nat
    BY FactsAre DEF GoldBase, GoldTypeOK, CorrectionTable, Deposits, Successes
  <1>f. from \in Int /\ from <= dirty
    <2>1. Earliest(Successes) \in Int
      BY <1>t, EarliestIs
    <2>2. QED
      BY <1>t, <2>1 DEF RecomputeFrom
  <1>a. /\ gold' = [f \in Events |->
               IF At(f) < from \/ bronze[f] = "unreadable" THEN gold[f]
               ELSE Replay(late, seed, projection)[f]]
        /\ unmarked' = {f \in unmarked : At(f) < from \/ projection[f] # corrections[f]}
    BY DEF ProjectSuffix
  <1>c. /\ \A f \in unmarked' : t <= At(f)
        /\ \A f \in Events : bronze[f] = "unreadable" /\ gold'[f] # None => t <= At(f)
    BY DEF Clean
  <1>i. InRow(number, Successes) /\ InRow(number, late) /\ InRow(number, early)
    BY KnownInRow
  <1>g. \A f \in Events : gold'[f] = IF At(f) < from \/ bronze[f] = "unreadable" THEN gold[f]
                                     ELSE Replay(late, seed, projection)[f]
    BY <1>a
  <1>h. \A f \in Events : At(f) < from => gold'[f] = gold[f]
    BY <1>g
  <1>r. Right(e)' <=> gold'[e] = RowIn(bronze, number, corrections, Zero, Successes, e)
    BY DEF Right, Successes
  <1>1. CASE t <= from
    <2>1. Clean(t)
      <3>1. \A f \in unmarked : t <= At(f)
        BY <1>1, <1>a, <1>c, <1>f, <1>t
      <3>2. \A f \in Events : bronze[f] = "unreadable" /\ gold[f] # None => t <= At(f)
        BY <1>1, <1>c, <1>f, <1>g, <1>t
      <3>3. dirty # None => t <= dirty
        BY <1>1, <1>f, <1>t
      <3>4. QED
        BY <3>1, <3>2, <3>3 DEF Clean
    <2>2. Right(e)
      BY <2>1 DEF CleanRows
    <2>3. gold'[e] = gold[e]
      <3>1. At(e) < from
        BY <1>1, <1>f, <1>t
      <3>2. QED
        BY <1>h, <3>1
    <2>4. QED
      BY <1>r, <2>2, <2>3 DEF Right
  <1>2. CASE from < t
    <2>1. Clean(from)
      <3>1. \A f \in unmarked : from <= At(f)
        <4>1. SUFFICES ASSUME NEW f \in unmarked, At(f) < from PROVE FALSE
          BY <1>f, <1>t
        <4>2. f \in unmarked'
          BY <1>a, <4>1
        <4>3. t <= At(f) /\ At(f) \in Nat
          BY <1>c, <1>t, <4>2
        <4>4. QED
          BY <1>2, <1>f, <4>1, <4>3
      <3>2. \A f \in Events : bronze[f] = "unreadable" /\ gold[f] # None => from <= At(f)
        <4>1. SUFFICES ASSUME NEW f \in Events, bronze[f] = "unreadable", gold[f] # None,
                              At(f) < from
                       PROVE  FALSE
          BY <1>f, <1>t
        <4>2. t <= At(f) /\ At(f) \in Nat
          BY <1>c, <1>h, <1>t, <4>1
        <4>3. QED
          BY <1>2, <1>f, <4>1, <4>2
      <3>3. QED
        BY <1>f, <3>1, <3>2 DEF Clean
    <2>2. \A f \in Events : At(f) < from => Right(f)
      BY <1>f, <2>1 DEF CleanRows
    <2>3. CASE At(e) < from
      BY <1>g, <1>r, <2>2, <2>3 DEF Right
    <2>4. CASE ~(At(e) < from) /\ bronze[e] = "unreadable"
      <3>1. gold'[e] = None
        BY <1>c, <1>t, <2>4
      <3>2. RowIn(bronze, number, corrections, Zero, Successes, e) = None
        BY <2>4 DEF RowIn, Projects
      <3>3. QED
        BY <1>r, <3>1, <3>2
    <2>5. CASE ~(At(e) < from) /\ bronze[e] # "unreadable"
      <3>1. gold'[e] = RowIn(bronze, number, projection, seed, late, e)
        <4>1. gold'[e] = Replay(late, seed, projection)[e]
          BY <1>g, <2>5
        <4> HIDE DEF late, seed
        <4>2. QED
          BY <1>i, <4>1, ReplayRows
      <3>2. \A f \in Deposits : At(f) < t => projection[f] = corrections[f]
        BY <1>a, <1>c, <1>t DEF Loaded
      <3>3. Projects(bronze, e, projection) <=> Projects(bronze, e, corrections)
        BY <3>2, StepAgrees
      <3>4. e \in late <=> e \in Successes
        BY <1>f, <1>t, <2>5
      <3>5. CASE ~(e \in Successes /\ Projects(bronze, e, corrections))
        BY <1>r, <3>1, <3>3, <3>4, <3>5 DEF RowIn
      <3>6. CASE e \in Successes /\ Projects(bronze, e, corrections)
        <4> DEFINE F == UpTo(number, late, e)
        <4>1. seed = Taken(k, number, Zero, early)
          <5>1. \A f \in early : gold[f] = RowIn(bronze, number, corrections, Zero, early, f)
            <6>1. SUFFICES ASSUME NEW f \in early
                           PROVE  gold[f] = RowIn(bronze, number, corrections, Zero, early, f)
              OBVIOUS
            <6>2. f \in Events /\ At(f) < from
              BY <1>t, <6>1
            <6>3. gold[f] = RowIn(bronze, number, corrections, Zero, Successes, f)
              BY <2>2, <6>2 DEF Right
            <6>4. \A g \in Events : At(g) < from => (g \in Successes <=> g \in early)
              OBVIOUS
            <6> HIDE DEF early
            <6>5. RowIn(bronze, number, corrections, Zero, Successes, f)
                    = RowIn(bronze, number, corrections, Zero, early, f)
              BY <1>f, <1>i, <6>2, <6>4, RowsAgree
            <6>6. QED
              BY <6>3, <6>5
          <5>2. ASSUME NEW a \in Assets
                PROVE  LatestBalance({f \in Events : At(f) < from}, a)
                         = Taken(k, number, Zero, early)[a]
            <6>1. \A f \in Events : At(f) < from /\ gold[f] # None => f \in Successes
              BY <2>2 DEF Right, RowIn
            <6>2. Showing({f \in Events : At(f) < from}, a) = Showing(early, a)
              BY <1>t, <6>1 DEF Showing
            <6>3. LatestBalance({f \in Events : At(f) < from}, a) = LatestBalance(early, a)
              <7>1. \A U : LatestBalance(U, a) = IF Showing(U, a) = {} THEN 0
                      ELSE CHOOSE b \in BalanceIn(LatestEvent(Showing(U, a)), a) : TRUE
                BY DEF LatestBalance, Showing
              <7>2. QED
                BY <6>2, <7>1
            <6> HIDE DEF early
            <6>4. LatestBalance(early, a) = Taken(k, number, Zero, early)[a]
              BY <1>i, <1>t, <5>1, LatestIsLedger
            <6>5. QED
              BY <6>3, <6>4
          <5>3. Taken(k, number, Zero, early) \in Ledgers
            <6> HIDE DEF early
            <6>1. QED
              BY <1>i, <1>t, ZeroIs, ReplayIsLedger
          <5> DEFINE L == Taken(k, number, Zero, early)
          <5>4. L = [a \in Assets |-> L[a]]
            BY <5>3 DEF Ledgers
          <5>5. seed = [a \in Assets |-> L[a]]
            BY <5>2
          <5>6. QED
            BY <5>4, <5>5
        <4>2. /\ F \in SUBSET late /\ F \in SUBSET Successes /\ F \subseteq Events
              /\ \A f \in F : At(f) <= At(e) /\ At(f) >= from
          BY <1>t DEF UpTo, Earlier
        <4>3. InRow(number, F)
          <5> HIDE DEF F, late
          <5>1. QED
            BY <1>i, <4>2, InRowSubset
        <4>4. \A f \in F : f \in Deposits => projection[f] = corrections[f]
          <5>1. \A f \in F : f \in Events /\ At(f) < t
            BY <1>t, <4>2
          <5>2. QED
            BY <3>2, <5>1
        <4>5. Taken(j, number, seed, F) = Taken(k, number, seed, F)
          <5> HIDE DEF F, seed
          <5>1. QED
            BY <4>3, <4>4, CorrectedAgrees
        <4>6. Taken(k, number, Taken(k, number, Zero, early), F)
                = Taken(k, number, Zero, early \cup F)
          <5>1. \A f \in early, g \in F : Earlier(number, f, g)
            BY <1>f, <1>t, <4>2 DEF Earlier
          <5>2. early \cup F \in SUBSET Successes
            BY <4>2
          <5> HIDE DEF F, k, early
          <5>3. InRow(number, early \cup F)
            BY <1>i, <5>2, InRowSubset
          <5>4. QED
            BY <5>1, <5>3, TakenAfter
        <4>7. early \cup F = UpTo(number, Successes, e)
          <5>1. \A f \in early : Earlier(number, f, e)
            BY <1>f, <1>t, <2>5 DEF Earlier
          <5>2. \A f \in Successes : f \in early \/ f \in late
            BY <1>f, <1>t
          <5>3. early \subseteq Successes /\ late \subseteq Successes
            OBVIOUS
          <5> HIDE DEF early, late
          <5>4. QED
            BY <5>1, <5>2, <5>3 DEF UpTo
        <4>8. gold'[e] = RowOf(Taken(j, number, seed, F), e)
          BY <3>1, <3>3, <3>4, <3>6 DEF RowIn
        <4>9. RowIn(bronze, number, corrections, Zero, Successes, e)
                = RowOf(Taken(k, number, Zero, UpTo(number, Successes, e)), e)
          BY <3>6 DEF RowIn
        <4> HIDE DEF F, j, k, seed, early, late
        <4>10. QED
          BY <1>r, <4>1, <4>5, <4>6, <4>7, <4>8, <4>9
      <3>7. QED
        BY <3>5, <3>6
    <2>6. QED
      BY <2>3, <2>4, <2>5
  <1>3. QED
    BY <1>1, <1>2, <1>f

LEMMA CleanStarts == GoldInit => CleanRows /\ Loaded /\ NoneLeft
  <1> SUFFICES ASSUME GoldInit PROVE CleanRows /\ Loaded /\ NoneLeft
    OBVIOUS
  <1>1. \A e \in Events : Right(e)
    BY DEF GoldInit, Right, RowIn, Projects
  <1>2. QED
    BY <1>1 DEF GoldInit, CleanRows, Loaded, NoneLeft

LEMMA CleanStep ==
    ASSUME ~LastMayFail, CleanInv, GoldBase', [GoldNext]_goldVars
    PROVE  CleanRows' /\ Loaded' /\ NoneLeft'
  <1> USE DEF CleanInv
  <1>t. /\ dirty \in Int \cup {None} /\ corrections \in CorrectionTable
        /\ unmarked \in SUBSET Deposits /\ Deposits \subseteq Events
        /\ live \in [todo : SUBSET Deposits, writes : Writes, earliest : Times \cup {None}]
        /\ pairing \in [writes : Writes, earliest : Times \cup {None}]
        /\ \A e \in Events : At(e) \in Nat
    BY FactsAre DEF GoldBase, GoldTypeOK, CorrectionTable, Deposits
  <1>same. ASSUME UNCHANGED <<bronze, number, gold, dirty, corrections, unmarked>>
           PROVE  CleanRows' /\ NoneLeft'
    BY <1>same DEF CleanRows, Clean, Right, NoneLeft, Successes
  <1>still. ASSUME UNCHANGED <<projection, corrections>>, unmarked \subseteq unmarked' \/ projection = None
            PROVE  Loaded'
    BY <1>still DEF Loaded
  (* Whatever only marks. *)
  <1>mark. ASSUME NEW from \in Int, MarkGoldDirty(from),
                  UNCHANGED <<bronze, number, gold, corrections, projection>>
           PROVE  CleanRows' /\ Loaded' /\ NoneLeft'
    <2>1. CleanRows'
      <3>1. ASSUME NEW t \in Int, Clean(t)' PROVE Clean(t)
        BY <1>mark, <3>1, CleanBeforeMark
      <3>2. QED
        BY <1>mark, <3>1, CleanRowsStay
    <2>2. projection = None
      BY <1>mark, MarkIs
    <2>3. QED
      BY <1>mark, <1>still, <2>1, <2>2 DEF NoneLeft, Successes
  (* Whatever only corrects. *)
  <1>correct. ASSUME NEW w \in [event : Deposits, net : Nat],
                     NEW source \in {"live_fetch", "balance_changes"},
                     UpsertCorrection(w, source),
                     UNCHANGED <<bronze, number, gold, dirty, projection>>
              PROVE  CleanRows' /\ Loaded' /\ NoneLeft'
    <2>1. /\ unmarked \subseteq unmarked'
          /\ \A e \in Deposits : corrections'[e] # corrections[e] => e \in unmarked'
      BY <1>correct, CorrectionWritten
    <2>2. CleanRows'
      <3>1. ASSUME NEW t \in Int, Clean(t)'
            PROVE  Clean(t) /\ \A e \in Deposits : At(e) < t => corrections'[e] = corrections[e]
        <4>1. \A e \in unmarked' : t <= At(e)
          BY <3>1 DEF Clean
        <4>2. Clean(t)
          BY <1>correct, <2>1, <3>1 DEF Clean
        <4>3. \A e \in Deposits : At(e) < t => ~(t <= At(e))
          BY <1>t
        <4>4. QED
          BY <2>1, <4>1, <4>2, <4>3
      <3>2. QED
        BY <1>correct, <3>1, CleanRowsStay
    <2>3. Loaded'
      BY <1>correct, <2>1 DEF Loaded
    <2>4. NoneLeft'
      BY <1>correct DEF NoneLeft, Successes
    <2>5. QED
      BY <2>2, <2>3, <2>4
  <1>1. ASSUME NEW page \in Pages, NEW reported \in Reports(page),
               UpsertHistoryEvents(page, reported)
        PROVE  CleanRows' /\ Loaded' /\ NoneLeft'
    <2> DEFINE from == Earliest(ToSet(page))
    <2>1. /\ from \in Int /\ MarkGoldDirty(from)
          /\ \A e \in ToSet(page) : from <= At(e)
          /\ ToSet(page) \in SUBSET Events
          /\ \A e \in Events : e \notin ToSet(page) =>
                 bronze'[e] = bronze[e] /\ number'[e] = number[e]
      BY <1>1, PageStored
    <2>2. UNCHANGED <<gold, corrections, projection>>
      BY <1>1 DEF UpsertHistoryEvents
    <2> HIDE DEF from
    <2>3. CleanRows'
      <3>1. ASSUME NEW t \in Int, Clean(t)'
            PROVE  /\ Clean(t)
                   /\ \A e \in Events : At(e) < t => bronze'[e] = bronze[e] /\ number'[e] = number[e]
        <4>1. Clean(t) /\ t <= from
          BY <2>1, <2>2, <3>1, CleanBeforeMark
        <4>2. \A e \in Events : At(e) < t => e \notin ToSet(page)
          BY <1>t, <2>1, <4>1
        <4>3. QED
          BY <2>1, <4>1, <4>2
      <3>2. QED
        BY <2>2, <3>1, CleanRowsStay
    <2>4. projection = None
      BY <2>1, MarkIs
    <2>5. NoneLeft'
      <3>1. Successes' = {} => Successes = {}
        BY <1>1 DEF UpsertHistoryEvents, Successes
      <3>2. QED
        BY <2>2, <3>1 DEF NoneLeft
    <2>6. QED
      BY <1>still, <2>2, <2>3, <2>4, <2>5
  <1>2. ASSUME NEW e \in Events, LinkIntent(e)
        PROVE  CleanRows' /\ Loaded' /\ NoneLeft'
    <2>1. At(e) \in Int
      BY <1>t
    <2>2. QED
      BY <1>2, <1>mark, <2>1 DEF LinkIntent
  <1>3. CASE RecordLeg
    BY <1>3, <1>same, <1>still DEF RecordLeg
  <1>4. ASSUME NEW a, NEW balance, ReadBalance(a, balance)
        PROVE  CleanRows' /\ Loaded' /\ NoneLeft'
    BY <1>4, <1>same, <1>still DEF ReadBalance
  <1>5. ASSUME NEW w \in live.writes, WriteLive(w)
        PROVE  CleanRows' /\ Loaded' /\ NoneLeft'
    <2>1. w \in [event : Deposits, net : Nat]
      BY <1>t DEF Writes
    <2>2. QED
      BY <1>5, <1>correct, <2>1 DEF WriteLive
  <1>6. CASE EndLive
    <2>1. CASE live.earliest = None
      BY <1>6, <1>same, <1>still, <2>1 DEF EndLive
    <2>2. CASE live.earliest # None
      <3>1. live.earliest - Margin \in Int
        BY <1>t, <2>2, MarginBefore
      <3>2. QED
        BY <1>6, <1>mark, <2>2, <3>1 DEF EndLive
    <2>3. QED
      BY <2>1, <2>2
  <1>7. CASE ReadDeposits
    BY <1>7, <1>same, <1>still DEF ReadDeposits
  <1>8. ASSUME NEW w \in pairing.writes, WritePaired(w)
        PROVE  CleanRows' /\ Loaded' /\ NoneLeft'
    <2>1. w \in [event : Deposits, net : Nat]
      BY <1>t DEF Writes
    <2>2. QED
      BY <1>8, <1>correct, <2>1 DEF WritePaired
  <1>9. CASE EndPairing
    <2>1. pairing.earliest \in Times
      <3>1. pairing = [writes |-> pairing.writes, earliest |-> pairing.earliest]
        BY <1>t
      <3>2. pairing # IdlePairing /\ pairing.writes = {}
        BY <1>9 DEF EndPairing
      <3>3. pairing.earliest # None
        BY <3>1, <3>2 DEF IdlePairing
      <3>4. QED
        BY <1>t, <3>3
    <2>2. pairing.earliest - Margin \in Int
      BY <2>1, MarginBefore
    <2>3. QED
      BY <1>9, <1>mark, <2>2 DEF EndPairing
  <1>10. CASE MarkBackfilled
    <2>1. Earliest(Successes) \in Int
      BY <1>10, EarliestIs DEF MarkBackfilled, Successes
    <2>2. QED
      BY <1>10, <1>mark, <2>1 DEF MarkBackfilled
  <1>11. CASE BeginProjection
    <2>1. CleanRows' /\ NoneLeft'
      BY <1>11, <1>same DEF BeginProjection
    <2>2. Loaded'
      BY <1>11 DEF BeginProjection, Loaded
    <2>3. QED
      BY <2>1, <2>2
  <1>12. CASE CommitProjection
    <2>1. /\ projection # None /\ projection' = None
          /\ UNCHANGED <<bronze, number, corrections>>
      BY <1>12 DEF CommitProjection, Unlocked
    <2>2. Loaded'
      BY <2>1 DEF Loaded
    <2>3. CASE Successes = {}
      <3>1. UNCHANGED gold /\ Successes' = {}
        BY <1>12, <2>1, <2>3 DEF CommitProjection, Successes
      <3>2. \A e \in Events : gold'[e] = None
        BY <2>3, <3>1 DEF NoneLeft
      <3>3. CleanRows' /\ NoneLeft'
        BY <3>1, <3>2 DEF CleanRows, Right, RowIn, NoneLeft
      <3>4. QED
        BY <2>2, <3>3
    <2>4. CASE Successes # {}
      <3>1. ProjectSuffix
        BY <1>12, <2>4 DEF CommitProjection
      <3>2. CleanRows'
        <4>1. ASSUME NEW t \in Int, Clean(t)', NEW e \in Events, At(e) < t
              PROVE  Right(e)'
          BY <2>1, <2>4, <3>1, <4>1, ProjectionIsRight
        <4>2. QED
          BY <4>1 DEF CleanRows
      <3>3. NoneLeft'
        BY <2>1, <2>4 DEF NoneLeft, Successes
      <3>4. QED
        BY <2>2, <3>2, <3>3
    <2>5. QED
      BY <2>3, <2>4
  <1>13. CASE Stop
    <2>1. /\ UNCHANGED <<bronze, number, gold, dirty, corrections, unmarked>>
          /\ projection' \in {projection, None}
      BY <1>13 DEF Stop
    <2>2. Loaded'
      BY <2>1 DEF Loaded
    <2>3. QED
      BY <1>same, <2>1, <2>2
  <1>14. CASE UNCHANGED goldVars
    BY <1>14, <1>same, <1>still DEF goldVars
  <1>15. QED
    BY <1>1, <1>2, <1>3, <1>4, <1>5, <1>6, <1>7, <1>8, <1>9, <1>10, <1>11, <1>12, <1>13, <1>14
    DEF GoldNext, Ingest, IngestPage, PollLatestPage, CorrectNewDeposits, ReconcileDao, Projector

(* Whatever order events, corrections and projections come in: no mark is  *)
(* lost, and the rows of a treasury that is not dirty are those of a       *)
(* replay from the start.                                                  *)
THEOREM CleanGoldStaysReplay ==
    ASSUME ~LastMayFail
    PROVE  GoldSpec => []CleanGoldIsReplay
  <1>1. GoldInit => CleanInv
    BY GoldBaseStarts, CleanStarts DEF CleanInv
  <1>2. CleanInv /\ [GoldNext]_goldVars => CleanInv'
    BY GoldBaseStep, CleanStep DEF CleanInv
  <1>3. CleanInv => CleanGoldIsReplay
    <2>1. SUFFICES ASSUME CleanInv, dirty = None, unmarked = {}, ~KeepsOldRow
                   PROVE  gold = FullReplay
      BY DEF CleanGoldIsReplay
    <2>2. ASSUME NEW e \in Events
          PROVE  gold[e] = FullReplay[e]
      <3>1. At(e) \in Nat
        BY FactsAre
      <3>2. Clean(At(e) + 1)
        BY <2>1 DEF Clean, KeepsOldRow
      <3>3. At(e) + 1 \in Int /\ At(e) < At(e) + 1
        BY <3>1
      <3>4. Right(e)
        BY <2>1, <3>2, <3>3 DEF CleanInv, CleanRows
      <3>5. InRow(number, Successes)
        BY <2>1, KnownInRow DEF CleanInv
      <3>6. QED
        BY <3>4, <3>5, ReplayRows DEF Right, FullReplay, Zero
    <2>3. gold = [e \in Events |-> gold[e]]
      BY <2>1 DEF CleanInv, GoldBase, GoldTypeOK
    <2>4. FullReplay = [e \in Events |-> FullReplay[e]]
      BY DEF FullReplay, Replay
    <2>5. QED
      BY <2>2, <2>3, <2>4
  <1>4. QED
    BY <1>1, <1>2, <1>3, PTL DEF GoldSpec

-----------------------------------------------------------------------------
(* What a leg was seen for is paired again *)

(* A pairing of an asset's deposits writes one of this deposit, which has  *)
(* a seen leg in its window, or of one before it: either a deposit before  *)
(* it was written, or no leg from there on is consumed when its turn comes.*)
LEMMA PairedFromThere ==
    ASSUME NEW seen \in 0..Len(Legs), NEW n, NEW S, InRow(n, S), S \subseteq Deposits,
           NEW d \in S, NEW j \in 1..seen, SeenLeg(seen, d, j),
           \A e \in S : Facts[e].destination = Facts[d].destination
    PROVE  \E w \in Taken(PairingOf(seen), n, Start, S).writes : At(w.event) <= At(d)
  <1> DEFINE k == PairingOf(seen)
             Written(T) == \E w \in Taken(k, n, Start, T).writes : At(w.event) <= At(d)
             Good(T) == /\ d \in T => Written(T)
                        /\ (\A e \in T : Earlier(n, e, d)) =>
                               Written(T) \/ Taken(k, n, Start, T).next <= j
             C == {T \in SUBSET S : Good(T)}
  <1>0. /\ \A e \in S : At(e) \in Nat
        /\ \A e \in S : ~Earlier(n, e, e)
        /\ \A e, f \in S : Earlier(n, e, f) => ~Earlier(n, f, e) /\ e # f
        /\ \A e, f, g \in S : Earlier(n, e, f) /\ Earlier(n, f, g) => Earlier(n, e, g)
    BY EarlierIsOrder DEF InRow
  <1>j. /\ j \in Nat /\ j >= 1 /\ j <= seen /\ seen \in Nat
        /\ Legs[j].asset = Facts[d].destination
        /\ Legs[j].at \in Nat /\ At(d) <= Legs[j].at /\ Legs[j].at <= At(d) + LegWindow
    BY LegIs, LegsAssumption DEF SeenLeg
  <1>w. LegWindow \in Nat
    BY GoldBounds
  <1>1. ASSUME NEW T \in SUBSET S, \A U \in SUBSET T : U # T => U \in C
        PROVE  T \in C
    <2>1. InRow(n, T)
      BY InRowSubset
    <2>2. Taken(k, n, Start, T) = IF T = {} THEN Start
               ELSE Stepped(k, Taken(k, n, Start, T \ {LastOf(n, T)}), LastOf(n, T))
      BY <2>1, TakenUnfolds
    <2>3. CASE T = {}
      <3>1. Taken(k, n, Start, T).next = 1
        BY <2>2, <2>3 DEF Start
      <3>2. QED
        BY <1>j, <2>3, <3>1
    <2>4. CASE T # {}
      <3> DEFINE l == LastOf(n, T)
                 V == T \ {l}
                 acc == Taken(k, n, Start, V)
                 p == Taken(k, n, Start, T)
                 A == Ahead(seen, acc, l)
                 i == NextLeg(seen, acc, l)
      <3>1. l \in T /\ l \in S /\ l \in Deposits /\ \A f \in T : f = l \/ Earlier(n, f, l)
        BY <2>1, <2>4, LastIs
      <3>2. V \in C /\ InRow(n, V) /\ V \subseteq Deposits
        BY <1>1, <2>1, <3>1, InRowSubset
      <3> HIDE DEF l
      <3>3. acc \in Pairs /\ AmountsSeen(seen, acc.writes)
        <4> HIDE DEF V, k
        <4>1. QED
          BY <3>2, PairingTyped DEF k
      <3>4. p = Paired(seen, acc, l)
        <4>1. p = Stepped(k, acc, l)
          BY <2>2, <2>4 DEF l
        <4>2. QED
          BY <4>1 DEF Stepped, PairingOf
      <3>g. Good(V)
        BY <3>2
      <3>5. /\ d \in V => \E w \in acc.writes : At(w.event) <= At(d)
            /\ (\A e \in V : Earlier(n, e, d)) =>
                   (\E w \in acc.writes : At(w.event) <= At(d)) \/ acc.next <= j
        BY <3>g
      <3> HIDE DEF acc, V, p
      <3>6. acc.writes \subseteq p.writes /\ p \in Pairs
        BY <3>1, <3>3, <3>4, PairedStep
      <3>7. p = CASE A # {} /\ Legs[i].at <= At(l) + LegWindow ->
               [next |-> i + 1, prev |-> At(l),
                writes |-> acc.writes \cup {[event |-> l, net |-> Legs[i].amount]}]
          [] ~(A # {} /\ Legs[i].at <= At(l) + LegWindow)
               /\ acc.prev # None /\ At(l) - acc.prev <= MergeWindow ->
               [next |-> IF A = {} THEN seen + 1 ELSE i, prev |-> At(l),
                writes |-> acc.writes \cup {[event |-> l, net |-> 0]}]
          [] OTHER -> [next |-> IF A = {} THEN seen + 1 ELSE i, prev |-> None,
                       writes |-> acc.writes]
        BY <3>4 DEF Paired, Ahead, NextLeg
      (* The leg is still ahead. *)
      <3>8. ASSUME acc.next <= j, At(l) <= At(d)
            PROVE  j \in A /\ i \in A /\ i <= j /\ i \in 1..seen
        <4>1. acc.next \in Nat
          BY <3>3 DEF Pairs
        <4>2. Legs[j].at >= At(l)
          BY <1>0, <1>j, <3>1, <3>8
        <4>3. Legs[j].asset = Facts[l].destination
          BY <1>j, <3>1
        <4>4. j \in A
          BY <1>j, <3>8, <4>1, <4>2, <4>3 DEF Ahead
        <4> HIDE DEF i
        <4>5. i \in A /\ (\A m \in A : i <= m) /\ i \in 1..seen
          BY <3>3, <4>4, NextLegIs DEF i
        <4>6. QED
          BY <4>4, <4>5
      <3>9. CASE l = d
        <4>1. \A e \in V : Earlier(n, e, d)
          BY <3>1, <3>9 DEF V
        <4>2. CASE \E w \in acc.writes : At(w.event) <= At(d)
          <5>1. \E w \in p.writes : At(w.event) <= At(d)
            BY <3>6, <4>2
          <5>2. QED
            BY <5>1 DEF p
        <4>3. CASE acc.next <= j
          <5>1. j \in A /\ i \in A /\ i <= j /\ i \in 1..seen
            BY <1>0, <3>1, <3>8, <3>9, <4>3
          <5>2. Legs[i].at <= Legs[j].at /\ Legs[i].at \in Nat
            <6>1. i < j => Legs[i].at <= Legs[j].at
              <7>1. PICK N \in Nat : Len(Legs) = N
                BY LegsAssumption
              <7>2. i \in 1..N /\ j \in 1..N
                <8>1. seen \in 0..N
                  BY <7>1
                <8>2. QED
                  BY <1>j, <5>1, <8>1
              <7>3. DOMAIN Legs = 1..N
                BY <7>1, LegsAssumption
              <7>4. QED
                BY <7>2, <7>3, LegsAssumption
            <6>2. i = j \/ i < j
              BY <1>j, <5>1
            <6>3. Legs[i].at \in Nat
              BY <5>1, LegIs
            <6>4. QED
              BY <1>j, <6>1, <6>2, <6>3
          <5>3. Legs[i].at <= At(l) + LegWindow
            BY <1>0, <1>j, <1>w, <3>1, <3>9, <5>2
          <5>4. p.writes = acc.writes \cup {[event |-> l, net |-> Legs[i].amount]}
            BY <3>7, <5>1, <5>3
          <5>5. \E w \in p.writes : At(w.event) <= At(d)
            <6>1. [event |-> l, net |-> Legs[i].amount] \in p.writes
              BY <5>4
            <6>2. At(l) <= At(d)
              BY <1>0, <3>1, <3>9
            <6>3. QED
              BY <6>1, <6>2
          <5>6. QED
            BY <5>5 DEF p
        <4>4. QED
          BY <3>5, <4>1, <4>2, <4>3
      <3>10. CASE l # d
        <4>1. d \in T => Written(T)
          <5>1. ASSUME d \in T PROVE \E w \in p.writes : At(w.event) <= At(d)
            <6>1. d \in V
              BY <3>10, <5>1 DEF V
            <6>2. QED
              BY <3>5, <3>6, <6>1
          <5>2. QED
            BY <5>1 DEF p
        <4>2. ASSUME \A e \in T : Earlier(n, e, d)
              PROVE  Written(T) \/ Taken(k, n, Start, T).next <= j
          <5>1. \A e \in V : Earlier(n, e, d)
            BY <4>2 DEF V
          <5>2. CASE \E w \in acc.writes : At(w.event) <= At(d)
            <6>1. \E w \in p.writes : At(w.event) <= At(d)
              BY <3>6, <5>2
            <6>2. QED
              BY <6>1 DEF p
          <5>3. CASE acc.next <= j
            <6>1. At(l) <= At(d)
              BY <1>0, <3>1, <4>2 DEF Earlier
            <6>2. j \in A /\ i \in A /\ i <= j /\ i \in 1..seen
              BY <3>8, <5>3, <6>1
            <6>3. \/ [event |-> l, net |-> Legs[i].amount] \in p.writes
                  \/ [event |-> l, net |-> 0] \in p.writes
                  \/ p.next = i
              BY <3>7, <6>2
            <6>4. (\E w \in p.writes : At(w.event) <= At(d)) \/ p.next <= j
              BY <6>1, <6>2, <6>3
            <6>5. QED
              BY <6>4 DEF p
          <5>4. QED
            BY <3>5, <5>1, <5>2, <5>3
        <4>3. QED
          BY <4>1, <4>2
      <3>11. QED
        BY <3>9, <3>10
    <2>5. QED
      BY <2>3, <2>4
  <1>2. IsFiniteSet(S)
    BY DEF InRow
  <1> HIDE DEF C
  <1>3. \A T \in SUBSET S : T \in C
    BY <1>1, <1>2, SubsetInduction
  <1>4. QED
    BY <1>3 DEF C

(* An amount that a deposit was given by a pairing is that of a leg which  *)
(* was seen in its window, and stays seen.                                 *)
TookLeg(d) == /\ corrections[d] # None /\ corrections[d].source = "balance_changes"
              /\ corrections[d].net # 0
LegsAreSeen ==
    /\ \A d \in Deposits : TookLeg(d) => \E j \in 1..legs : SeenLeg(legs, d, j)
    /\ AmountsSeen(legs, pairing.writes)

LEMMA LegsAreSeenStep ==
    ASSUME GoldBase, LegsAreSeen, [GoldNext]_goldVars
    PROVE  LegsAreSeen'
  <1>t. /\ legs \in 0..Len(Legs) /\ Len(Legs) \in Nat
        /\ live \in [todo : SUBSET Deposits, writes : Writes, earliest : Times \cup {None}]
        /\ pairing \in [writes : Writes, earliest : Times \cup {None}]
    BY LegsAssumption DEF GoldBase, GoldTypeOK
  <1>l. legs \in Nat
    BY <1>t
  <1>idle. AmountsSeen(legs, {})
    BY DEF AmountsSeen
  <1>same. ASSUME UNCHANGED <<corrections, legs>>,
                  pairing'.writes \in {pairing.writes, {}}
           PROVE  LegsAreSeen'
    BY <1>same, <1>idle DEF LegsAreSeen, TookLeg
  <1>1. CASE RecordLeg
    <2>1. legs' = legs + 1 /\ UNCHANGED <<corrections, pairing>>
      BY <1>1 DEF RecordLeg
    <2>2. \A e : \A j \in 1..legs : SeenLeg(legs, e, j) => j \in 1..legs' /\ SeenLeg(legs', e, j)
      BY <1>l, <2>1 DEF SeenLeg
    <2>3. \A d \in Deposits : TookLeg(d)' => \E j \in 1..legs' : SeenLeg(legs', d, j)
      BY <2>1, <2>2 DEF LegsAreSeen, TookLeg
    <2>4. AmountsSeen(legs', pairing'.writes)
      BY <2>1, <2>2 DEF LegsAreSeen, AmountsSeen
    <2>5. QED
      BY <2>3, <2>4 DEF LegsAreSeen
  <1>2. ASSUME NEW w \in live.writes, WriteLive(w)
        PROVE  LegsAreSeen'
    <2>1. w \in [event : Deposits, net : Nat]
      BY <1>t DEF Writes
    <2>2. \A e \in Deposits : \/ corrections'[e] = corrections[e]
                              \/ corrections'[e] = [net |-> w.net, source |-> "live_fetch"]
      BY <1>2, <2>1, CorrectionWritten DEF WriteLive
    <2>3. \A e \in Deposits : TookLeg(e)' => TookLeg(e)
      BY <2>2 DEF TookLeg
    <2>4. UNCHANGED <<legs, pairing>>
      BY <1>2 DEF WriteLive
    <2>5. QED
      BY <2>3, <2>4 DEF LegsAreSeen
  <1>3. ASSUME NEW w \in pairing.writes, WritePaired(w)
        PROVE  LegsAreSeen'
    <2>1. w \in [event : Deposits, net : Nat]
      BY <1>t DEF Writes
    <2>2. \A e \in Deposits : \/ corrections'[e] = corrections[e]
                              \/ /\ e = w.event
                                 /\ corrections'[e] = [net |-> w.net, source |-> "balance_changes"]
      BY <1>3, <2>1, CorrectionWritten DEF WritePaired
    <2>3. UNCHANGED legs
      BY <1>3 DEF WritePaired
    <2>4. w.net # 0 => \E j \in 1..legs : SeenLeg(legs, w.event, j)
      BY DEF LegsAreSeen, AmountsSeen
    <2>5. \A e \in Deposits : TookLeg(e)' => TookLeg(e) \/ (e = w.event /\ w.net # 0)
      BY <2>2 DEF TookLeg
    <2>6. \A d \in Deposits : TookLeg(d)' => \E j \in 1..legs : SeenLeg(legs, d, j)
      BY <2>4, <2>5 DEF LegsAreSeen
    <2>7. pairing'.writes = pairing.writes \ {w}
      BY <1>3, <1>t DEF WritePaired
    <2>8. AmountsSeen(legs, pairing'.writes)
      BY <2>7 DEF LegsAreSeen, AmountsSeen
    <2>9. QED
      BY <2>3, <2>6, <2>8 DEF LegsAreSeen
  <1>4. CASE ReadDeposits
    <2>1. pairing'.writes = Pairings /\ UNCHANGED <<corrections, legs>>
      BY <1>4, <1>t DEF ReadDeposits
    <2>2. AmountsSeen(legs, Pairings)
      BY PairingsTyped
    <2>3. QED
      BY <2>1, <2>2 DEF LegsAreSeen, TookLeg
  <1>5. CASE EndPairing
    <2>1. pairing'.writes = {} /\ UNCHANGED <<corrections, legs>>
      BY <1>5 DEF EndPairing, IdlePairing
    <2>2. QED
      BY <1>same, <2>1
  <1>6. CASE Stop
    <2>1. pairing'.writes \in {pairing.writes, {}} /\ UNCHANGED <<corrections, legs>>
      BY <1>6 DEF Stop, IdlePairing
    <2>2. QED
      BY <1>same, <2>1
  <1>7. CASE UNCHANGED <<corrections, legs, pairing>>
    BY <1>7, <1>same
  <1>8. QED
    BY <1>1, <1>2, <1>3, <1>4, <1>5, <1>6, <1>7
    DEF GoldNext, Ingest, IngestPage, PollLatestPage, UpsertHistoryEvents, LinkIntent,
        CorrectNewDeposits, ReadBalance, EndLive, ReconcileDao, MarkBackfilled, Projector,
        BeginProjection, CommitProjection, goldVars

(* A pairing that stopped between a correction and its mark is repeated,   *)
(* from that deposit or before it, whatever came since.                    *)
THEOREM LostMarksStayRepeated == GoldSpec => []LostMarksAreRepeated
  <1>1. GoldInit => LegsAreSeen
    BY DEF GoldInit, LegsAreSeen, TookLeg, IdlePairing, AmountsSeen
  <1>2. GoldBase /\ LegsAreSeen /\ [GoldNext]_goldVars => LegsAreSeen'
    BY LegsAreSeenStep
  <1>3. GoldBase /\ LegsAreSeen => LostMarksAreRepeated
    <2>1. SUFFICES ASSUME GoldBase, LegsAreSeen, NEW e \in unmarked, gold[e] # None, IsPaired(e)
                   PROVE  \E w \in Pairings : At(w.event) - Margin <= At(e)
      BY DEF LostMarksAreRepeated
    <2>2. /\ e \in Deposits /\ Deposits \subseteq Events /\ Margin \in Nat
          /\ legs \in 0..Len(Legs) /\ \A d \in Deposits : At(d) \in Nat
      <3>1. e \in Deposits /\ legs \in 0..Len(Legs)
        BY <2>1 DEF GoldBase, GoldTypeOK
      <3>2. Deposits \subseteq Events
        BY DEF Deposits
      <3>3. \A d \in Deposits : At(d) \in Nat
        BY <3>2, FactsAre
      <3>4. Margin \in Nat
        BY GoldBounds
      <3>5. QED
        BY <3>1, <3>2, <3>3, <3>4
    <2>3. PICK d \in Deposits : /\ HasLeg(d) /\ At(d) <= At(e)
                                /\ Facts[d].destination = Facts[e].destination
      BY <2>1, <2>2 DEF IsPaired
    <2>4. PICK j \in 1..legs : SeenLeg(legs, d, j)
      BY <2>1, <2>3 DEF HasLeg, TookLeg, LegsAreSeen
    <2> DEFINE a == Facts[d].destination
               ds == {f \in DepositsInGold : Facts[f].destination = a}
    <2>5. a \in Assets
      BY <2>2, FactsAre
    <2>6. InRow(number, ds) /\ ds \subseteq Deposits
      BY <2>1, KnownInRow DEF DepositsInGold
    <2>7. d \in ds /\ \A f \in ds : Facts[f].destination = Facts[d].destination
      BY <2>3 DEF DepositsInGold, HasLeg
    <2>8. PairDepositsToLegs(ds) \subseteq Pairings
      BY <2>5 DEF Pairings
    <2> HIDE DEF ds
    <2>9. \E w \in Taken(PairingOf(legs), number, Start, ds).writes : At(w.event) <= At(d)
      BY <2>2, <2>4, <2>6, <2>7, PairedFromThere
    <2>10. PICK w \in PairDepositsToLegs(ds) : At(w.event) <= At(d)
      BY <2>6, <2>9, PairingIsTaken
    <2>11. w \in Pairings /\ At(w.event) \in Nat
      <3>1. Pairings \in Writes
        BY <2>1, PairingsTyped
      <3>2. w \in Pairings
        BY <2>8, <2>10
      <3>3. w.event \in Deposits
        BY <3>1, <3>2 DEF Writes
      <3>4. QED
        BY <2>2, <3>2, <3>3
    <2>12. At(w.event) - Margin <= At(e)
      BY <2>2, <2>3, <2>10, <2>11
    <2>13. QED
      BY <2>11, <2>12
  <1>4. QED
    BY <1>1, <1>2, <1>3, GoldBaseHolds, PTL DEF GoldSpec
=============================================================================
