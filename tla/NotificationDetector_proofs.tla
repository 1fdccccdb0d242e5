-------------------- MODULE NotificationDetector_proofs ---------------------
(***************************************************************************)
(* Proofs about the notification detector, for any rows, treasuries and    *)
(* batch sizes and any number of restarts.                                 *)
(***************************************************************************)
EXTENDS NotificationDetector, Sums

-----------------------------------------------------------------------------
(* The notification detector *)

LEMMA FiniteExtremes ==
    ASSUME NEW n \in Nat, NEW S, S \subseteq 1..n, S # {}
    PROVE  Least(S) \in S /\ Greatest(S) \in S
           /\ \A j \in S : Least(S) <= j /\ j <= Greatest(S)
  <1> DEFINE C == {T \in SUBSET S : T # {} =>
                     /\ \E i \in T : \A j \in T : i <= j
                     /\ \E i \in T : \A j \in T : j <= i}
  <1>1. IsFiniteSet(S)
    <2>1. IsFiniteSet(1..n)
      BY FS_Interval
    <2>2. QED
      BY <2>1, FS_Subset
  <1>2. ASSUME NEW T \in SUBSET S, \A U \in SUBSET T : U # T => U \in C
        PROVE  T \in C
    <2>1. CASE T = {}
      BY <2>1
    <2>2. CASE T # {}
      <3>1. PICK x \in T : TRUE
        BY <2>2
      <3>2. T \ {x} \in C
        BY <1>2
      <3>3. \A j \in T : j \in Int
        OBVIOUS
      <3>4. CASE T \ {x} = {}
        BY <3>1, <3>3, <3>4
      <3>5. CASE T \ {x} # {}
        <4>1. PICK i \in T \ {x} : \A j \in T \ {x} : i <= j
          BY <3>2, <3>5
        <4>2. PICK k \in T \ {x} : \A j \in T \ {x} : j <= k
          BY <3>2, <3>5
        <4>3. \E l \in T : \A j \in T : l <= j
          <5>1. CASE x <= i
            BY <4>1, <5>1, <3>3
          <5>2. CASE i <= x
            BY <4>1, <5>2, <3>3
          <5>3. QED
            BY <5>1, <5>2, <3>3
        <4>4. \E l \in T : \A j \in T : j <= l
          <5>1. CASE k <= x
            BY <4>2, <5>1, <3>3
          <5>2. CASE x <= k
            BY <4>2, <5>2, <3>3
          <5>3. QED
            BY <5>1, <5>2, <3>3
        <4>5. QED
          BY <4>3, <4>4
      <3>6. QED
        BY <3>4, <3>5
    <2>3. QED
      BY <2>1, <2>2
  <1>3. S \in C
    <2> HIDE DEF C
    <2>1. QED
      BY <1>1, <1>2, SubsetInduction
  <1>4. /\ \E i \in S : \A j \in S : i <= j
        /\ \E i \in S : \A j \in S : j <= i
    BY <1>3
  <1>5. QED
    BY <1>4 DEF Least, Greatest

(* A batch has all selected rows up to its greatest id. *)
LEMMA LowestIsPrefix ==
    ASSUME NEW n \in Nat, NEW S, S \subseteq 1..n, S # {}
    PROVE  /\ Lowest(S) \subseteq S /\ Greatest(Lowest(S)) \in Lowest(S)
           /\ \A i \in S : i <= Greatest(Lowest(S)) => i \in Lowest(S)
  <1>0. IsFiniteSet(S)
    <2>1. IsFiniteSet(1..n)
      BY FS_Interval
    <2>2. QED
      BY <2>1, FS_Subset
  <1>1. IsFiniteSet(S) /\ \A i \in S : i \in Int
    BY <1>0
  <1> DEFINE Below(i) == {j \in S : j < i}
  <1>2. \A i \in S : IsFiniteSet(Below(i)) /\ Cardinality(Below(i)) \in Nat
    <2>1. TAKE i \in S
    <2>2. Below(i) \subseteq S
      OBVIOUS
    <2> HIDE DEF Below
    <2>3. QED
      BY <1>1, <2>2, FS_Subset, FS_CardinalityType
  <1>3. Least(S) \in Lowest(S)
    <2>1. Least(S) \in S /\ \A j \in S : Least(S) <= j
      BY FiniteExtremes
    <2>2. PICK l : l = Least(S)
      OBVIOUS
    <2>b. \A j \in S : l <= j /\ l \in Int /\ j \in Int
      BY <1>1, <2>1, <2>2
    <2>c. Below(l) = {}
      <3>1. ASSUME NEW j \in S PROVE ~(j < l)
        <4>1. j \in Int /\ l \in Int /\ l <= j
          BY <2>b
        <4>2. QED
          BY <4>1
      <3>2. QED
        BY <3>1
    <2>3. Cardinality(Below(l)) = 0
      BY <2>c, FS_EmptySet
    <2>4. QED
      BY <2>1, <2>2, <2>3, BatchAssumption DEF Lowest
  <1>4. Lowest(S) \subseteq S /\ Lowest(S) \subseteq 1..n /\ Lowest(S) # {}
    BY <1>3 DEF Lowest
  <1> DEFINE g == Greatest(Lowest(S))
  <1>5. g \in Lowest(S)
    BY <1>4, FiniteExtremes
  <1>6. ASSUME NEW i \in S, i <= g PROVE i \in Lowest(S)
    <2>1. Below(i) \subseteq Below(g)
      <3>1. PICK m : m = g
        OBVIOUS
      <3>2. m \in Int /\ i \in Int /\ i <= m
        BY <1>1, <1>4, <1>5, <1>6, <3>1
      <3>3. Below(i) \subseteq Below(m)
        <4>1. ASSUME NEW j \in S, j < i PROVE j < m
          <5>1. j \in Int
            BY <1>1
          <5>2. QED
            BY <3>2, <4>1, <5>1
        <4>2. QED
          BY <4>1
      <3>4. QED
        BY <3>1, <3>3
    <2>2. Cardinality(Below(g)) < Batch /\ g \in S
      BY <1>4, <1>5 DEF Lowest
    <2>3. Cardinality(Below(i)) <= Cardinality(Below(g))
      <3> HIDE DEF Below
      <3>1. QED
        BY <1>2, <2>1, <2>2, FS_Subset
    <2>4. Cardinality(Below(i)) < Batch
      <3>1. Cardinality(Below(i)) \in Nat /\ Cardinality(Below(g)) \in Nat
        BY <1>2, <2>2
      <3> HIDE DEF Below
      <3>2. QED
        BY <2>2, <2>3, <3>1, BatchAssumption
    <2>5. QED
      BY <2>4 DEF Lowest
  <1>7. QED
    BY <1>4, <1>5, <1>6

SwapRows == [dao : Daos, state : SwapStates, seeded : BOOLEAN]
DetectorFields ==
    /\ rows \in Seq(Shapes) /\ swaps \in Seq(SwapRows)
    /\ Steady \subseteq connected
    /\ cursor \in [Tables -> Int] /\ seed \in [Tables -> Int]
    /\ cursor["balance_changes"] <= Len(rows)
    /\ cursor["detected_swaps"] \in NoCursor..Len(swaps)
    /\ pc = "swaps" => cursor["detected_swaps"] >= 0
    /\ pc \in {"idle", "rows", "between", "swaps"}
    /\ pc = "rows" => DOMAIN batch \subseteq 1..Len(rows) /\ top \in 1..Len(rows)
    /\ pc = "swaps" => DOMAIN batch \subseteq 1..Len(swaps) /\ top \in 1..Len(swaps)
    /\ rewrites \in Nat

(* The row i has been looked at: what is notable of it is in the queue, or *)
(* another row of its transaction is to speak for it.                      *)
Handled(i) ==
    /\ rows[i].kind = "payment" => IsNoticed(i)
    /\ rows[i].kind = "proposal" =>
         \/ IsNoticed(i)
         \/ AlreadyNoticed(rows[i])
         \/ rows[i].zero /\ rows[i].tx # NoTx /\ HasNonZeroSibling(rows[i])

NoticesAreRows ==
    \A n \in notices : n.table = "balance_changes" =>
        /\ n.id \in DOMAIN rows /\ n.dao = rows[n.id].dao /\ n.event = rows[n.id].kind
        /\ n.event = "proposal" => n.tx = rows[n.id].tx

(* A batch has the rows between the cursor and its greatest id that are    *)
(* not looked at yet.                                                      *)
BatchIsAhead ==
    pc = "rows" =>
        /\ \A i \in DOMAIN batch : batch[i] = rows[i]
        /\ \A i \in DOMAIN rows :
             (rows[i].dao \in Steady /\ cursor["balance_changes"] < i /\ i <= top)
             => i \in DOMAIN batch \/ Handled(i)

RowsAreHandled == NoticesAreRows /\ BatchIsAhead /\ PassedRowsAreNoticed

DetectorInv ==
    /\ DetectorFields
    /\ OneNoticePerProposal
    /\ OpenSwapsStayAhead
    /\ rewrites = 0 => RowsAreHandled

LEMMA AppendedRow ==
    ASSUME NEW S, NEW q \in Seq(S), NEW x \in S
    PROVE  /\ Append(q, x) \in Seq(S) /\ Len(Append(q, x)) = Len(q) + 1 /\ Len(q) \in Nat
           /\ DOMAIN q = 1..Len(q) /\ DOMAIN Append(q, x) = 1..(Len(q) + 1)
           /\ \A i \in 1..Len(q) : Append(q, x)[i] = q[i]
           /\ Append(q, x)[Len(q) + 1] = x
  OBVIOUS

(* The rows a batch is read from. *)
LEMMA SelectedRows ==
    ASSUME NEW t \in Tables, NEW n \in Nat, NEW S, S \subseteq 1..n
    PROVE  /\ DOMAIN Selected(t, S) = Lowest(S) /\ Lowest(S) \subseteq S
           /\ S = {} => DOMAIN Selected(t, S) = {}
           /\ S # {} => /\ Greatest(DOMAIN Selected(t, S)) \in S
                        /\ \A i \in S : i <= Greatest(DOMAIN Selected(t, S)) => i \in Lowest(S)
           /\ \A i \in Lowest(S) :
                 Selected(t, S)[i] = IF t = "balance_changes" THEN rows[i] ELSE swaps[i]
  <1>1. DOMAIN Selected(t, S) = Lowest(S) /\ Lowest(S) \subseteq S
    BY DEF Selected, Lowest
  <1>2. S # {} => /\ Greatest(Lowest(S)) \in Lowest(S)
                  /\ \A i \in S : i <= Greatest(Lowest(S)) => i \in Lowest(S)
    BY LowestIsPrefix
  <1>3. \A i \in Lowest(S) :
           Selected(t, S)[i] = IF t = "balance_changes" THEN rows[i] ELSE swaps[i]
    BY DEF Selected
  <1>4. QED
    BY <1>1, <1>2, <1>3

(* Current is in the batch, and what remains is the rest. *)
LEMMA CurrentOfBatch ==
    ASSUME NEW n \in Nat, DOMAIN batch \subseteq 1..n, DOMAIN batch # {}
    PROVE  /\ Current \in DOMAIN batch
           /\ DOMAIN Remaining = DOMAIN batch \ {Current}
           /\ \A i \in DOMAIN Remaining : Remaining[i] = batch[i]
  <1>1. Current \in DOMAIN batch
    BY FiniteExtremes DEF Current
  <1>2. QED
    BY <1>1 DEF Remaining

(* The swaps' cursor stops before the first row that is open. *)
LEMMA SwapCursorStops ==
    ASSUME DetectorFields, pc = "swaps"
    PROVE  /\ SwapCursorAfter(top) \in 0..Len(swaps)
           /\ \A i \in DOMAIN swaps :
                (swaps[i].state = "open" /\ i > cursor["detected_swaps"])
                => i > SwapCursorAfter(top)
  <1>1. PICK c, n : c = cursor["detected_swaps"] /\ n = Len(swaps)
    OBVIOUS
  <1>2. c \in Nat /\ n \in Nat /\ top \in 1..n /\ DOMAIN swaps = 1..n
    BY <1>1 DEF DetectorFields, NoCursor
  <1>3. PICK O : O = OpenBelow(top)
    OBVIOUS
  <1>4. O = {i \in (c + 1)..top : swaps[i].state = "open"}
    BY <1>1, <1>3 DEF OpenBelow
  <1>5. PICK b : b = SwapCursorAfter(top)
    OBVIOUS
  <1>6. b = IF O = {} THEN top ELSE Least(O) - 1
    BY <1>3, <1>5 DEF SwapCursorAfter
  <1>7. CASE O = {}
    <2>1. b = top
      BY <1>6, <1>7
    <2>2. ASSUME NEW i \in DOMAIN swaps, swaps[i].state = "open", i > c PROVE i > b
      BY <1>2, <1>4, <1>7, <2>1, <2>2
    <2>3. QED
      BY <1>1, <1>2, <1>5, <2>1, <2>2
  <1>8. CASE O # {}
    <2>1. O \subseteq 1..n /\ \A i \in O : i \in Int /\ c < i /\ i <= top
      BY <1>2, <1>4
    <2>2. PICK l : l = Least(O)
      OBVIOUS
    <2>3. l \in O /\ \A j \in O : l <= j
      BY <1>2, <1>8, <2>1, <2>2, FiniteExtremes
    <2>4. b = l - 1 /\ l \in Int /\ c < l /\ l <= top
      BY <1>6, <1>8, <2>1, <2>2, <2>3
    <2>5. ASSUME NEW i \in DOMAIN swaps, swaps[i].state = "open", i > c PROVE i > b
      <3>1. i \in Int /\ (i <= top => i \in O)
        BY <1>2, <1>4, <2>5
      <3>2. i <= top => l <= i
        BY <2>3, <3>1
      <3>3. QED
        BY <1>2, <2>4, <3>1, <3>2
    <2>6. b \in 0..n
      BY <1>2, <2>4
    <2>7. QED
      BY <1>1, <1>5, <2>5, <2>6
  <1>9. QED
    BY <1>7, <1>8

LEMMA DetectorFieldsKept == DetectorFields /\ [DetectorNext]_vars => DetectorFields'
  <1> SUFFICES ASSUME DetectorFields, [DetectorNext]_vars PROVE DetectorFields'
    OBVIOUS
  <1> USE DEF tables, worker
  <1>0. /\ rows \in Seq(Shapes) /\ swaps \in Seq(SwapRows) /\ Steady \subseteq connected
        /\ cursor \in [Tables -> Int] /\ seed \in [Tables -> Int]
        /\ cursor["balance_changes"] <= Len(rows)
        /\ cursor["detected_swaps"] \in NoCursor..Len(swaps)
        /\ pc = "swaps" => cursor["detected_swaps"] >= 0
        /\ pc \in {"idle", "rows", "between", "swaps"}
        /\ pc = "rows" => DOMAIN batch \subseteq 1..Len(rows) /\ top \in 1..Len(rows)
        /\ pc = "swaps" => DOMAIN batch \subseteq 1..Len(swaps) /\ top \in 1..Len(swaps)
        /\ rewrites \in Nat /\ Len(rows) \in Nat /\ Len(swaps) \in Nat
        /\ DOMAIN rows = 1..Len(rows) /\ DOMAIN swaps = 1..Len(swaps)
    BY DEF DetectorFields
  <1>t. "balance_changes" \in Tables /\ "detected_swaps" \in Tables
    BY DEF Tables
  <1>c. cursor["balance_changes"] \in Int /\ cursor["detected_swaps"] \in Int
    BY <1>0, <1>t
  <1>1. ASSUME NEW s \in Shapes, WriteRow(s) PROVE DetectorFields'
    <2>1. rows' = Append(rows, s) /\ UNCHANGED <<swaps, connected, rewrites, worker>>
      BY <1>1 DEF WriteRow
    <2>2. rows' \in Seq(Shapes) /\ Len(rows') = Len(rows) + 1
      BY <1>0, <2>1, AppendedRow
    <2>3. /\ cursor["balance_changes"] <= Len(rows')
          /\ 1..Len(rows) \subseteq 1..Len(rows')
      BY <1>0, <1>c, <2>2
    <2>4. QED
      BY <1>0, <2>1, <2>2, <2>3 DEF DetectorFields
  <1>2. ASSUME NEW i \in 1..MaxRows, NEW s \in Shapes, RewriteRow(i, s) PROVE DetectorFields'
    <2>1. /\ rows' = [rows EXCEPT ![i] = s] /\ i \in DOMAIN rows /\ rewrites' = rewrites + 1
          /\ UNCHANGED <<swaps, connected, worker>>
      BY <1>2 DEF RewriteRow
    <2>2. rows' \in Seq(Shapes) /\ Len(rows') = Len(rows)
      BY <1>0, <2>1
    <2>3. QED
      BY <1>0, <2>1, <2>2 DEF DetectorFields
  <1>3. ASSUME NEW x \in SwapRows, swaps' = Append(swaps, x),
               UNCHANGED <<rows, connected, rewrites, faults, worker>>
        PROVE  DetectorFields'
    <2>1. swaps' \in Seq(SwapRows) /\ Len(swaps') = Len(swaps) + 1
      BY <1>0, <1>3, AppendedRow
    <2>2. /\ cursor["detected_swaps"] \in NoCursor..Len(swaps')
          /\ 1..Len(swaps) \subseteq 1..Len(swaps')
      BY <1>0, <1>c, <2>1
    <2>3. QED
      BY <1>0, <1>3, <2>1, <2>2 DEF DetectorFields
  <1>4. ASSUME NEW d \in Daos, PreSeedSwap(d) \/ \E st \in {"filled", "deposit"} : StoreSwap(d, st)
        PROVE  DetectorFields'
    BY <1>3, <1>4 DEF PreSeedSwap, StoreSwap, SwapRows, SwapStates
  <1>5. ASSUME NEW i \in 1..MaxSwaps, FillSwap(i) PROVE DetectorFields'
    <2>1. /\ swaps' = [swaps EXCEPT ![i].state = "filled"] /\ i \in DOMAIN swaps
          /\ UNCHANGED <<rows, connected, rewrites, worker>>
      BY <1>5 DEF FillSwap
    <2>2. PICK x : x = [swaps[i] EXCEPT !.state = "filled"]
      OBVIOUS
    <2>3. x \in SwapRows
      <3>1. swaps[i] \in SwapRows
        BY <1>0, <2>1
      <3>2. QED
        BY <2>2, <3>1 DEF SwapRows, SwapStates
    <2>4. swaps' = [swaps EXCEPT ![i] = x]
      BY <2>1, <2>2
    <2>5. swaps' \in Seq(SwapRows) /\ Len(swaps') = Len(swaps)
      <3>1. swaps \in Seq(SwapRows) /\ i \in 1..Len(swaps)
        BY <1>0, <2>1
      <3>2. QED
        BY <2>3, <2>4, <3>1
    <2>6. QED
      BY <1>0, <2>1, <2>5 DEF DetectorFields
  <1>6. ASSUME NEW d \in Daos, Connect(d) \/ Disconnect(d) PROVE DetectorFields'
    BY <1>0, <1>6 DEF Connect, Disconnect, DetectorFields
  <1>7. CASE ReadRows
    <2>1. /\ cursor' \in [Tables -> Int] /\ seed' \in [Tables -> Int]
          /\ cursor'["balance_changes"] <= Len(rows)
          /\ cursor'["detected_swaps"] = cursor["detected_swaps"]
      BY <1>0, <1>t, <1>7 DEF ReadRows, ReadCursor, From, Last
    <2>2. PICK S : S = NewRows
      OBVIOUS
    <2>3. S \subseteq 1..Len(rows)
      BY <1>0, <2>2 DEF NewRows
    <2>4. /\ batch' = Selected("balance_changes", S)
          /\ pc' = IF S = {} THEN "between" ELSE "rows"
          /\ S # {} => top' = Greatest(DOMAIN batch')
          /\ UNCHANGED <<rows, swaps, connected, rewrites>>
      BY <1>7, <2>2 DEF ReadRows
    <2>s. /\ DOMAIN Selected("balance_changes", S) \subseteq S
          /\ S # {} => Greatest(DOMAIN Selected("balance_changes", S)) \in S
      <3>1. PICK n \in Nat : n = Len(rows)
        BY <1>0
      <3>2. S \subseteq 1..n
        BY <2>3, <3>1
      <3>3. DOMAIN Selected("balance_changes", S) = Lowest(S) /\ Lowest(S) \subseteq S
        BY <1>t, <3>2, SelectedRows
      <3>4. S # {} => Greatest(DOMAIN Selected("balance_changes", S)) \in S
        BY <1>t, <3>2, SelectedRows
      <3>5. QED
        BY <3>3, <3>4
    <2>5. pc' = "rows" => DOMAIN batch' \subseteq 1..Len(rows) /\ top' \in 1..Len(rows)
      BY <2>3, <2>4, <2>s
    <2>6. QED
      BY <1>0, <2>1, <2>4, <2>5 DEF DetectorFields
  <1>8. CASE ReadSwaps
    <2>1. /\ cursor' \in [Tables -> Int] /\ seed' \in [Tables -> Int]
          /\ cursor'["detected_swaps"] \in 0..Len(swaps)
          /\ cursor'["balance_changes"] = cursor["balance_changes"]
      BY <1>0, <1>t, <1>8 DEF ReadSwaps, ReadCursor, From, Last, NoCursor
    <2>2. PICK S : S = NewSwaps
      OBVIOUS
    <2>3. S \subseteq 1..Len(swaps)
      BY <1>0, <2>2 DEF NewSwaps
    <2>4. /\ batch' = Selected("detected_swaps", S)
          /\ pc' = IF S = {} THEN "idle" ELSE "swaps"
          /\ S # {} => top' = Greatest(DOMAIN batch')
          /\ UNCHANGED <<rows, swaps, connected, rewrites>>
      BY <1>8, <2>2 DEF ReadSwaps
    <2>s. /\ DOMAIN Selected("detected_swaps", S) \subseteq S
          /\ S # {} => Greatest(DOMAIN Selected("detected_swaps", S)) \in S
      <3>1. PICK n \in Nat : n = Len(swaps)
        BY <1>0
      <3>2. S \subseteq 1..n
        BY <2>3, <3>1
      <3>3. DOMAIN Selected("detected_swaps", S) = Lowest(S) /\ Lowest(S) \subseteq S
        BY <1>t, <3>2, SelectedRows
      <3>4. S # {} => Greatest(DOMAIN Selected("detected_swaps", S)) \in S
        BY <1>t, <3>2, SelectedRows
      <3>5. QED
        BY <3>3, <3>4
    <2>5. pc' = "swaps" => DOMAIN batch' \subseteq 1..Len(swaps) /\ top' \in 1..Len(swaps)
      BY <2>3, <2>4, <2>s
    <2>6. cursor'["detected_swaps"] \in NoCursor..Len(swaps)
      BY <1>0, <2>1 DEF NoCursor
    <2>7. QED
      BY <1>0, <2>1, <2>4, <2>5, <2>6 DEF DetectorFields
  <1>9. CASE NoticeRow \/ NoticeSwap
    <2>1. /\ pc \in {"rows", "swaps"} /\ DOMAIN batch # {} /\ batch' = Remaining
          /\ UNCHANGED <<rows, swaps, connected, rewrites, cursor, seed, pc, top>>
      BY <1>9 DEF NoticeRow, NoticeSwap
    <2>2. \E n \in Nat : DOMAIN batch \subseteq 1..n
      BY <1>0, <2>1
    <2>3. DOMAIN batch' \subseteq DOMAIN batch
      BY <2>1, <2>2, CurrentOfBatch
    <2>4. QED
      BY <1>0, <2>1, <2>3 DEF DetectorFields
  <1>10. CASE PassRows
    <2>1. cursor' \in [Tables -> Int] /\ cursor'["balance_changes"] <= Len(rows)
          /\ cursor'["detected_swaps"] = cursor["detected_swaps"]
      BY <1>0, <1>t, <1>10 DEF PassRows
    <2>2. QED
      BY <1>0, <1>10, <2>1 DEF PassRows, DetectorFields
  <1>11. CASE PassSwaps
    <2>1. PICK b : b = SwapCursorAfter(top)
      OBVIOUS
    <2>2. b \in NoCursor..Len(swaps)
      BY <1>11, <2>1, SwapCursorStops DEF PassSwaps, NoCursor
    <2>3. cursor' = [cursor EXCEPT !["detected_swaps"] = b] /\ pc' = "idle"
          /\ UNCHANGED <<rows, swaps, connected, rewrites, seed>>
      BY <1>11, <2>1 DEF PassSwaps
    <2>4. cursor' \in [Tables -> Int] /\ cursor'["detected_swaps"] = b
          /\ cursor'["balance_changes"] = cursor["balance_changes"]
      BY <1>0, <1>t, <2>2, <2>3
    <2>5. QED
      BY <1>0, <2>2, <2>3, <2>4 DEF DetectorFields
  <1>12. CASE Abandon
    BY <1>0, <1>12 DEF Abandon, DetectorFields
  <1>13. CASE UNCHANGED vars
    BY <1>0, <1>13 DEF vars, DetectorFields
  <1>14. QED
    BY <1>1, <1>2, <1>4, <1>5, <1>6, <1>7, <1>8, <1>9, <1>10, <1>11, <1>12, <1>13
    DEF DetectorNext, Cycle

LEMMA OneNoticeKept ==
    ASSUME OneNoticePerProposal, [DetectorNext]_vars
    PROVE  OneNoticePerProposal'
  <1> USE DEF tables, worker
  <1>1. CASE UNCHANGED notices
    BY <1>1 DEF OneNoticePerProposal
  <1>2. CASE NoticeRow
    <2>1. PICK m : m = Notice(Current, batch[Current])
      OBVIOUS
    <2>2. /\ notices' \subseteq notices \cup {m}
          /\ m \in notices' \ notices => IsNotable(batch[Current])
      BY <1>2, <2>1 DEF NoticeRow
    <2>3. /\ m.event = batch[Current].kind /\ m.dao = batch[Current].dao
          /\ m.event = "proposal" => m.tx = batch[Current].tx
      BY <2>1 DEF Notice
    <2>4. ASSUME NEW n \in notices, m \in notices' \ notices,
                 m.event = "proposal", n.event = "proposal", m.dao = n.dao, m.tx = n.tx,
                 m.tx # NoTx
          PROVE  FALSE
      <3>1. AlreadyNoticed(batch[Current])
        BY <2>3, <2>4 DEF AlreadyNoticed
      <3>2. QED
        BY <2>2, <2>3, <2>4, <3>1 DEF IsNotable
    <2>5. QED
      BY <2>2, <2>4 DEF OneNoticePerProposal
  <1>3. CASE NoticeSwap
    <2>1. PICK m : m = SwapNotice(Current, batch[Current].dao)
      OBVIOUS
    <2>2. notices' \subseteq notices \cup {m} /\ m.event # "proposal"
      BY <1>3, <2>1 DEF NoticeSwap, SwapNotice
    <2>3. QED
      BY <2>2 DEF OneNoticePerProposal
  <1>4. QED
    BY <1>1, <1>2, <1>3
    DEF DetectorNext, Cycle, vars, WriteRow, RewriteRow, PreSeedSwap, StoreSwap, Connect,
        Disconnect, FillSwap, ReadRows, PassRows, ReadSwaps, PassSwaps, Abandon

LEMMA OpenSwapsKept ==
    ASSUME DetectorFields, OpenSwapsStayAhead, [DetectorNext]_vars
    PROVE  OpenSwapsStayAhead'
  <1> USE DEF tables, worker
  <1>0. /\ swaps \in Seq(SwapRows) /\ cursor \in [Tables -> Int] /\ seed \in [Tables -> Int]
        /\ cursor["detected_swaps"] \in NoCursor..Len(swaps)
        /\ Len(swaps) \in Nat /\ DOMAIN swaps = 1..Len(swaps)
        /\ "detected_swaps" \in Tables /\ "balance_changes" \in Tables
    BY DEF DetectorFields, Tables
  <1>1. CASE /\ UNCHANGED swaps
             /\ cursor'["detected_swaps"] = cursor["detected_swaps"]
             /\ seed'["detected_swaps"] = seed["detected_swaps"]
    BY <1>1 DEF OpenSwapsStayAhead
  <1>2. ASSUME NEW x \in SwapRows, swaps' = Append(swaps, x), UNCHANGED <<cursor, seed>>
        PROVE  OpenSwapsStayAhead'
    <2>1. DOMAIN swaps' = 1..(Len(swaps) + 1) /\ \A i \in 1..Len(swaps) : swaps'[i] = swaps[i]
      BY <1>0, <1>2, AppendedRow
    <2>2. ASSUME NEW i \in DOMAIN swaps', swaps'[i].state = "open"
          PROVE  i > cursor["detected_swaps"] \/ i <= seed["detected_swaps"]
      <3>1. CASE i \in 1..Len(swaps)
        BY <1>0, <2>1, <2>2, <3>1 DEF OpenSwapsStayAhead
      <3>2. CASE i = Len(swaps) + 1
        BY <1>0, <3>2 DEF NoCursor
      <3>3. QED
        BY <1>0, <2>1, <3>1, <3>2
    <2>3. QED
      BY <1>2, <2>2 DEF OpenSwapsStayAhead
  <1>3. ASSUME NEW d \in Daos, PreSeedSwap(d) \/ \E st \in {"filled", "deposit"} : StoreSwap(d, st)
        PROVE  OpenSwapsStayAhead'
    BY <1>2, <1>3 DEF PreSeedSwap, StoreSwap, SwapRows, SwapStates
  <1>4. ASSUME NEW i \in 1..MaxSwaps, FillSwap(i) PROVE OpenSwapsStayAhead'
    <2>1. /\ swaps' = [swaps EXCEPT ![i] = [swaps[i] EXCEPT !.state = "filled"]]
          /\ i \in DOMAIN swaps /\ UNCHANGED <<cursor, seed>>
      BY <1>4 DEF FillSwap
    <2>2. swaps[i] \in SwapRows
      BY <1>0, <2>1
    <2>3. [swaps[i] EXCEPT !.state = "filled"].state = "filled"
      BY <2>2 DEF SwapRows
    <2>4. DOMAIN swaps' = DOMAIN swaps
          /\ \A j \in DOMAIN swaps : swaps'[j].state = "open" => swaps[j].state = "open"
      BY <1>0, <2>1, <2>3
    <2>5. QED
      BY <2>1, <2>4 DEF OpenSwapsStayAhead
  <1>5. CASE ReadSwaps
    <2>1. /\ cursor' = [cursor EXCEPT !["detected_swaps"] = From("detected_swaps")]
          /\ seed' = [seed EXCEPT !["detected_swaps"] =
                        IF cursor["detected_swaps"] = NoCursor THEN Last("detected_swaps") ELSE @]
          /\ swaps' = swaps
      BY <1>5 DEF ReadSwaps, ReadCursor
    <2>2. CASE cursor["detected_swaps"] = NoCursor
      <3>1. seed'["detected_swaps"] = Len(swaps)
        BY <1>0, <2>1, <2>2 DEF Last
      <3>2. QED
        BY <1>0, <2>1, <3>1 DEF OpenSwapsStayAhead
    <2>3. CASE cursor["detected_swaps"] # NoCursor
      BY <1>0, <1>1, <2>1, <2>3 DEF From
    <2>4. QED
      BY <2>2, <2>3
  <1>6. CASE PassSwaps
    <2>1. PICK b : b = SwapCursorAfter(top)
      OBVIOUS
    <2>2. \A i \in DOMAIN swaps :
             (swaps[i].state = "open" /\ i > cursor["detected_swaps"]) => i > b
      BY <1>6, <2>1, SwapCursorStops DEF PassSwaps
    <2>3. cursor' = [cursor EXCEPT !["detected_swaps"] = b] /\ UNCHANGED <<swaps, seed>>
      BY <1>6, <2>1 DEF PassSwaps
    <2>4. cursor'["detected_swaps"] = b
      BY <1>0, <2>3
    <2>5. QED
      BY <2>2, <2>3, <2>4 DEF OpenSwapsStayAhead
  <1>7. CASE ReadRows \/ PassRows
    <2>1. /\ swaps' = swaps
          /\ cursor'["detected_swaps"] = cursor["detected_swaps"]
          /\ seed'["detected_swaps"] = seed["detected_swaps"]
      BY <1>0, <1>7 DEF ReadRows, PassRows, ReadCursor
    <2>2. QED
      BY <1>1, <2>1
  <1>8. QED
    BY <1>1, <1>3, <1>4, <1>5, <1>6, <1>7
    DEF DetectorNext, Cycle, vars, WriteRow, RewriteRow, Connect, Disconnect, NoticeRow,
        NoticeSwap, Abandon

(* The queue only grows, and with it what is noticed. *)
LEMMA NoticedStays ==
    ASSUME notices \subseteq notices', rows' = rows
    PROVE  /\ \A i : IsNoticed(i) => IsNoticed(i)'
           /\ \A r : AlreadyNoticed(r) => AlreadyNoticed(r)'
           /\ \A r : HasNonZeroSibling(r) => HasNonZeroSibling(r)'
           /\ \A i : Handled(i) => Handled(i)'
  <1>1. \A i : IsNoticed(i) => IsNoticed(i)'
    BY DEF IsNoticed
  <1>2. \A r : AlreadyNoticed(r) => AlreadyNoticed(r)'
    BY DEF AlreadyNoticed
  <1>3. \A r : HasNonZeroSibling(r) => HasNonZeroSibling(r)'
    BY DEF HasNonZeroSibling
  <1>4. \A i : Handled(i) => Handled(i)'
    BY <1>1, <1>2, <1>3 DEF Handled
  <1>5. QED
    BY <1>1, <1>2, <1>3, <1>4

LEMMA PassedStays ==
    ASSUME PassedRowsAreNoticed, notices \subseteq notices', rows' = rows, rewrites' = rewrites,
           cursor'["balance_changes"] = cursor["balance_changes"],
           seed'["balance_changes"] = seed["balance_changes"]
    PROVE  PassedRowsAreNoticed'
  <1>1. \A i : SpokenFor(i) => SpokenFor(i)'
    BY NoticedStays DEF SpokenFor
  <1>2. QED
    BY <1>1, NoticedStays DEF PassedRowsAreNoticed

(* Steps that leave the rows, their notices and their batch alone. *)
LEMMA RowsUntouched ==
    ASSUME RowsAreHandled, rows' = rows, rewrites' = rewrites, notices \subseteq notices',
           \A n \in notices' \ notices : n.table # "balance_changes",
           cursor'["balance_changes"] = cursor["balance_changes"],
           seed'["balance_changes"] = seed["balance_changes"],
           pc' = "rows" => pc = "rows" /\ batch' = batch /\ top' = top
    PROVE  RowsAreHandled'
  <1>1. NoticesAreRows'
    BY DEF RowsAreHandled, NoticesAreRows
  <1>2. BatchIsAhead'
    BY NoticedStays DEF RowsAreHandled, BatchIsAhead
  <1>3. PassedRowsAreNoticed'
    BY PassedStays DEF RowsAreHandled
  <1>4. QED
    BY <1>1, <1>2, <1>3 DEF RowsAreHandled

LEMMA WriteRowHandled ==
    ASSUME DetectorFields, RowsAreHandled, rewrites = 0, NEW s \in Shapes, WriteRow(s)
    PROVE  RowsAreHandled'
  <1>1. /\ rows' = Append(rows, s)
        /\ UNCHANGED <<rewrites, cursor, seed, notices, pc, batch, top>>
    BY DEF WriteRow, worker
  <1>2. PICK n \in Nat : n = Len(rows)
    BY DEF DetectorFields
  <1>3. /\ DOMAIN rows = 1..n /\ DOMAIN rows' = 1..(n + 1)
        /\ \A i \in 1..n : rows'[i] = rows[i]
    BY <1>1, <1>2, AppendedRow DEF DetectorFields
  <1>4. /\ cursor["balance_changes"] \in Int /\ cursor["balance_changes"] < n + 1
        /\ pc = "rows" => DOMAIN batch \subseteq 1..n /\ top \in 1..n
    BY <1>2 DEF DetectorFields, Tables
  <1>5. NoticesAreRows'
    BY <1>1, <1>3 DEF RowsAreHandled, NoticesAreRows
  <1>6. /\ \A i : IsNoticed(i) <=> IsNoticed(i)'
        /\ \A r : AlreadyNoticed(r) <=> AlreadyNoticed(r)'
    BY <1>1 DEF IsNoticed, AlreadyNoticed
  <1>7. \A r : HasNonZeroSibling(r) => HasNonZeroSibling(r)'
    BY <1>3 DEF HasNonZeroSibling
  <1>8. \A i \in 1..n : Handled(i) => Handled(i)'
    BY <1>3, <1>6, <1>7 DEF Handled
  <1>9. \A i \in 1..n : SpokenFor(i) => SpokenFor(i)'
    BY <1>1, <1>3, <1>6 DEF SpokenFor
  <1>10. BatchIsAhead'
    <2>1. SUFFICES ASSUME pc = "rows"
          PROVE  /\ \A i \in DOMAIN batch : batch[i] = rows'[i]
                 /\ \A i \in 1..(n + 1) :
                      (rows'[i].dao \in Steady /\ cursor["balance_changes"] < i /\ i <= top)
                      => i \in DOMAIN batch \/ Handled(i)'
      BY <1>1, <1>3 DEF BatchIsAhead
    <2>2. \A i \in DOMAIN batch : batch[i] = rows'[i]
      BY <1>3, <1>4, <2>1 DEF RowsAreHandled, BatchIsAhead
    <2>3. ASSUME NEW i \in 1..(n + 1), i <= top PROVE i \in 1..n
      BY <1>4, <2>1, <2>3
    <2>4. QED
      BY <1>3, <1>8, <2>1, <2>2, <2>3 DEF RowsAreHandled, BatchIsAhead
  <1>11. PassedRowsAreNoticed'
    <2>1. ASSUME NEW i \in 1..(n + 1), i <= cursor["balance_changes"] PROVE i \in 1..n
      BY <1>4, <2>1
    <2>2. QED
      BY <1>1, <1>3, <1>6, <1>9, <2>1 DEF RowsAreHandled, PassedRowsAreNoticed
  <1>12. QED
    BY <1>5, <1>10, <1>11 DEF RowsAreHandled

LEMMA ReadRowsHandled ==
    ASSUME DetectorFields, RowsAreHandled, rewrites = 0, ReadRows
    PROVE  RowsAreHandled'
  <1>0. /\ cursor \in [Tables -> Int] /\ seed \in [Tables -> Int] /\ Steady \subseteq connected
        /\ "balance_changes" \in Tables /\ Len(rows) \in Nat /\ DOMAIN rows = 1..Len(rows)
    BY DEF DetectorFields, Tables
  <1>1. PICK S, c : S = NewRows /\ c = From("balance_changes")
    OBVIOUS
  <1>2. /\ cursor' = [cursor EXCEPT !["balance_changes"] = c]
        /\ seed' = [seed EXCEPT !["balance_changes"] =
                      IF cursor["balance_changes"] = NoCursor THEN Last("balance_changes") ELSE @]
        /\ batch' = Selected("balance_changes", S)
        /\ pc' = IF S = {} THEN "between" ELSE "rows"
        /\ S # {} => top' = Greatest(DOMAIN batch')
        /\ UNCHANGED <<rows, rewrites, notices>>
    BY <1>1 DEF ReadRows, ReadCursor, tables
  <1>3. NoticesAreRows'
    BY <1>2 DEF RowsAreHandled, NoticesAreRows
  <1>4. S = {i \in DOMAIN rows : i > c /\ rows[i].dao \in connected}
    BY <1>1 DEF NewRows
  <1>5. BatchIsAhead'
    <2>1. SUFFICES ASSUME pc' = "rows"
          PROVE  /\ \A i \in DOMAIN batch' : batch'[i] = rows[i]
                 /\ \A i \in DOMAIN rows :
                      (rows[i].dao \in Steady /\ cursor'["balance_changes"] < i /\ i <= top')
                      => i \in DOMAIN batch'
      BY <1>2 DEF BatchIsAhead
    <2>2. S # {}
      BY <1>2, <2>1
    <2>3. PICK n \in Nat : n = Len(rows)
      BY <1>0
    <2>4. S \subseteq 1..n
      BY <1>0, <1>4, <2>3
    <2>5. DOMAIN batch' = Lowest(S)
      BY <1>0, <1>2, <2>4, SelectedRows
    <2>6. \A i \in S : i <= Greatest(DOMAIN Selected("balance_changes", S)) => i \in Lowest(S)
      BY <1>0, <2>2, <2>4, SelectedRows
    <2>7. \A i \in Lowest(S) : Selected("balance_changes", S)[i] = rows[i]
      BY DEF Selected
    <2>8. ASSUME NEW i \in DOMAIN rows, rows[i].dao \in Steady,
                 cursor'["balance_changes"] < i, i <= top'
          PROVE  i \in DOMAIN batch'
      <3>1. cursor'["balance_changes"] = c
        BY <1>0, <1>2
      <3>2. i > c
        BY <1>0, <2>8, <3>1
      <3>3. i \in S
        BY <1>0, <1>4, <2>8, <3>2
      <3>4. i <= Greatest(DOMAIN Selected("balance_changes", S))
        BY <1>2, <2>2, <2>8
      <3>5. QED
        BY <2>5, <2>6, <3>3, <3>4
    <2>9. QED
      BY <1>2, <2>5, <2>7, <2>8
  <1>6. PassedRowsAreNoticed'
    <2>1. CASE cursor["balance_changes"] = NoCursor
      <3>1. cursor'["balance_changes"] = Len(rows) /\ seed'["balance_changes"] = Len(rows)
        BY <1>0, <1>1, <1>2, <2>1 DEF From, Last
      <3>2. QED
        BY <1>0, <1>2, <3>1 DEF PassedRowsAreNoticed
    <2>2. CASE cursor["balance_changes"] # NoCursor
      <3>1. /\ cursor'["balance_changes"] = cursor["balance_changes"]
            /\ seed'["balance_changes"] = seed["balance_changes"]
        BY <1>0, <1>1, <1>2, <2>2 DEF From
      <3>2. QED
        BY <1>2, <3>1, PassedStays DEF RowsAreHandled
    <2>3. QED
      BY <2>1, <2>2
  <1>7. QED
    BY <1>3, <1>5, <1>6 DEF RowsAreHandled

LEMMA NoticeRowHandled ==
    ASSUME DetectorFields, RowsAreHandled, rewrites = 0, NoticeRow
    PROVE  RowsAreHandled'
  <1>1. PICK i, r, m : i = Current /\ r = batch[i] /\ m = Notice(i, r)
    OBVIOUS
  <1>2. /\ pc = "rows" /\ DOMAIN batch # {} /\ batch' = Remaining
        /\ notices' = IF IsNotable(r) /\ ~InQueue(m) THEN notices \cup {m} ELSE notices
        /\ UNCHANGED <<rows, rewrites, cursor, seed, pc, top>>
    BY <1>1 DEF NoticeRow, tables
  <1>3. /\ i \in DOMAIN batch /\ DOMAIN batch' = DOMAIN batch \ {i}
        /\ \A j \in DOMAIN batch' : batch'[j] = batch[j]
    <2>1. PICK n \in Nat : DOMAIN batch \subseteq 1..n
      BY <1>2 DEF DetectorFields
    <2>2. QED
      BY <1>1, <1>2, <2>1, CurrentOfBatch
  <1>4. i \in DOMAIN rows /\ r = rows[i]
    BY <1>1, <1>2, <1>3 DEF DetectorFields, RowsAreHandled, BatchIsAhead
  <1>5. /\ m.table = "balance_changes" /\ m.id = i /\ m.dao = r.dao /\ m.event = r.kind
        /\ m.event = "proposal" => m.tx = r.tx
    BY <1>1 DEF Notice
  <1>6. notices \subseteq notices' /\ notices' \subseteq notices \cup {m}
    BY <1>2
  <1>7. NoticesAreRows'
    BY <1>2, <1>4, <1>5, <1>6 DEF RowsAreHandled, NoticesAreRows
  <1>8. IsNotable(r) => IsNoticed(i)'
    <2>1. CASE InQueue(m)
      BY <1>2, <1>5, <1>6, <2>1 DEF InQueue, IsNoticed
    <2>2. CASE ~InQueue(m) /\ IsNotable(r)
      BY <1>2, <1>5, <2>2 DEF IsNoticed
    <2>3. QED
      BY <2>1, <2>2
  <1>9. Handled(i)'
    <2>1. AlreadyNoticed(r) => AlreadyNoticed(r)'
      BY <1>2, <1>6, NoticedStays
    <2>2. HasNonZeroSibling(r) => HasNonZeroSibling(r)'
      BY <1>2, <1>6, NoticedStays
    <2>3. r.kind = "payment" => IsNotable(r)
      BY DEF IsNotable
    <2>4. r.kind = "proposal" =>
             IsNotable(r) \/ AlreadyNoticed(r) \/ (r.zero /\ r.tx # NoTx /\ HasNonZeroSibling(r))
      BY DEF IsNotable
    <2>5. rows'[i] = r
      BY <1>2, <1>4
    <2>6. QED
      BY <1>8, <2>1, <2>2, <2>3, <2>4, <2>5 DEF Handled
  <1>10. BatchIsAhead'
    <2>1. \A j \in DOMAIN rows : Handled(j) => Handled(j)'
      BY <1>2, <1>6, NoticedStays
    <2>2. QED
      BY <1>2, <1>3, <1>9, <2>1 DEF RowsAreHandled, BatchIsAhead
  <1>11. PassedRowsAreNoticed'
    BY <1>2, <1>6, PassedStays DEF RowsAreHandled
  <1>12. QED
    BY <1>7, <1>10, <1>11 DEF RowsAreHandled

LEMMA PassRowsHandled ==
    ASSUME DetectorFields, RowsAreHandled, rewrites = 0, PassRows
    PROVE  RowsAreHandled'
  <1>0. /\ cursor \in [Tables -> Int] /\ seed \in [Tables -> Int]
        /\ "balance_changes" \in Tables /\ DOMAIN rows = 1..Len(rows) /\ Len(rows) \in Nat
    BY DEF DetectorFields, Tables
  <1>1. PICK b, c : b = seed["balance_changes"] /\ c = cursor["balance_changes"]
    OBVIOUS
  <1>2. /\ pc = "rows" /\ DOMAIN batch = {} /\ pc' = "between"
        /\ cursor'["balance_changes"] = top /\ seed'["balance_changes"] = b
        /\ UNCHANGED <<rows, rewrites, notices>>
    BY <1>0, <1>1 DEF PassRows, tables
  <1>3. b \in Int /\ c \in Int /\ top \in Int
    BY <1>0, <1>1, <1>2 DEF DetectorFields
  <1>4. NoticesAreRows /\ NoticesAreRows' /\ BatchIsAhead'
    BY <1>2 DEF RowsAreHandled, NoticesAreRows, BatchIsAhead
  <1> DEFINE Siblings(i, j) ==
                 /\ rows[j].kind = "proposal" /\ ~rows[j].zero
                 /\ rows[j].dao = rows[i].dao /\ rows[j].tx = rows[i].tx /\ rows[i].tx # NoTx
             Waits(j) == j > top \/ j <= b
  <1>5. \A i \in DOMAIN rows :
           (rows[i].dao \in Steady /\ c < i /\ i <= top) => Handled(i)
    BY <1>1, <1>2 DEF RowsAreHandled, BatchIsAhead
  <1>6. ASSUME NEW i \in DOMAIN rows, NEW j \in DOMAIN rows, Siblings(i, j),
               rows[i].kind = "proposal", IsNoticed(j) \/ AlreadyNoticed(rows[j])
        PROVE  AlreadyNoticed(rows[i])
    <2>1. CASE IsNoticed(j)
      <3>1. PICK n \in notices : n.table = "balance_changes" /\ n.id = j
        BY <2>1 DEF IsNoticed
      <3>2. n.event = "proposal" /\ n.dao = rows[i].dao /\ n.tx = rows[i].tx
        BY <1>4, <1>6, <3>1 DEF NoticesAreRows
      <3>3. QED
        BY <1>6, <3>2 DEF AlreadyNoticed
    <2>2. CASE AlreadyNoticed(rows[j])
      BY <1>6, <2>2 DEF AlreadyNoticed
    <2>3. QED
      BY <1>6, <2>1, <2>2
  (* A row whose amount is not zero speaks for its siblings, or waits.     *)
  <1>7. ASSUME NEW i \in DOMAIN rows, NEW j \in DOMAIN rows, Siblings(i, j),
               rows[i].kind = "proposal", rows[i].dao \in Steady, c < j, j <= top
        PROVE  AlreadyNoticed(rows[i])
    <2>1. Handled(j)
      BY <1>5, <1>7
    <2>2. IsNoticed(j) \/ AlreadyNoticed(rows[j])
      BY <1>7, <2>1 DEF Handled
    <2>3. QED
      BY <1>6, <1>7, <2>2
  <1>8. ASSUME NEW i \in DOMAIN rows, NEW j \in DOMAIN rows, Siblings(i, j),
               rows[i].kind = "proposal", rows[i].dao \in Steady
        PROVE  AlreadyNoticed(rows[i]) \/ \E k \in DOMAIN rows : Siblings(i, k) /\ Waits(k)
    <2>0. j \in Int
      BY <1>0
    <2>1. CASE Waits(j)
      BY <1>8, <2>1
    <2>2. CASE c < j /\ j <= top
      BY <1>7, <1>8, <2>2
    <2>3. CASE b < j /\ j <= c
      <3>1. SpokenFor(j)
        BY <1>1, <1>8, <2>3 DEF RowsAreHandled, PassedRowsAreNoticed
      <3>2. CASE IsNoticed(j) \/ AlreadyNoticed(rows[j])
        BY <1>6, <1>8, <3>2
      <3>3. CASE \E k \in DOMAIN rows : Siblings(j, k) /\ (k > c \/ k <= b)
        <4>1. PICK k \in DOMAIN rows : Siblings(j, k) /\ (k > c \/ k <= b)
          BY <3>3
        <4>2. Siblings(i, k) /\ k \in Int
          BY <1>0, <1>8, <4>1
        <4>3. CASE Waits(k)
          BY <4>2, <4>3
        <4>4. CASE c < k /\ k <= top
          BY <1>7, <1>8, <4>2, <4>4
        <4>5. QED
          BY <1>3, <4>1, <4>2, <4>3, <4>4
      <3>4. QED
        BY <1>1, <3>1, <3>2, <3>3 DEF SpokenFor
    <2>4. QED
      BY <1>3, <2>0, <2>1, <2>2, <2>3
  <1>9. ASSUME NEW i \in DOMAIN rows, rows[i].dao \in Steady, b < i, i <= top,
               rows[i].kind = "payment"
        PROVE  IsNoticed(i)
    <2>1. i \in Int
      BY <1>0
    <2>2. CASE i <= c
      BY <1>1, <1>9, <2>2 DEF RowsAreHandled, PassedRowsAreNoticed
    <2>3. CASE c < i
      BY <1>5, <1>9, <2>3 DEF Handled
    <2>4. QED
      BY <1>3, <2>1, <2>2, <2>3
  <1>10. ASSUME NEW i \in DOMAIN rows, rows[i].dao \in Steady, b < i, i <= top,
                rows[i].kind = "proposal"
         PROVE  \/ IsNoticed(i) \/ AlreadyNoticed(rows[i])
                \/ \E k \in DOMAIN rows : Siblings(i, k) /\ Waits(k)
    <2>1. i \in Int
      BY <1>0
    <2>2. CASE i <= c
      <3>1. SpokenFor(i)
        BY <1>1, <1>10, <2>2 DEF RowsAreHandled, PassedRowsAreNoticed
      <3>2. IsNoticed(i) \/ AlreadyNoticed(rows[i]) \/ \E j \in DOMAIN rows : Siblings(i, j)
        BY <3>1 DEF SpokenFor
      <3>3. QED
        BY <1>8, <1>10, <3>2
    <2>3. CASE c < i
      <3>1. Handled(i)
        BY <1>5, <1>10, <2>3
      <3>2. IsNoticed(i) \/ AlreadyNoticed(rows[i]) \/ \E j \in DOMAIN rows : Siblings(i, j)
        BY <1>10, <3>1 DEF Handled, HasNonZeroSibling
      <3>3. QED
        BY <1>8, <1>10, <3>2
    <2>4. QED
      BY <1>3, <2>1, <2>2, <2>3
  <1>11. PassedRowsAreNoticed'
    <2>1. /\ \A i : IsNoticed(i)' <=> IsNoticed(i)
          /\ \A r : AlreadyNoticed(r)' <=> AlreadyNoticed(r)
      BY <1>2 DEF IsNoticed, AlreadyNoticed
    <2>2. ASSUME NEW i \in DOMAIN rows, rows[i].dao \in Steady, b < i, i <= top,
                 rows[i].kind = "proposal"
          PROVE  SpokenFor(i)'
      <3>1. CASE IsNoticed(i) \/ AlreadyNoticed(rows[i])
        BY <1>2, <2>1, <3>1 DEF SpokenFor
      <3>2. CASE \E k \in DOMAIN rows : Siblings(i, k) /\ Waits(k)
        BY <1>2, <3>2 DEF SpokenFor
      <3>3. QED
        BY <1>10, <2>2, <3>1, <3>2
    <2>3. QED
      BY <1>2, <1>9, <2>1, <2>2 DEF PassedRowsAreNoticed
  <1>12. QED
    BY <1>4, <1>11 DEF RowsAreHandled

LEMMA RowsHandledKept ==
    ASSUME DetectorFields, rewrites = 0 => RowsAreHandled, [DetectorNext]_vars, rewrites' = 0
    PROVE  RowsAreHandled'
  <1> USE DEF tables, worker
  <1>0. rewrites \in Nat
    BY DEF DetectorFields
  <1>1. CASE rewrites' = rewrites + 1
    BY <1>0, <1>1
  <1>2. CASE rewrites' = rewrites
    <2>1. rewrites = 0 /\ RowsAreHandled
      BY <1>2
    <2>2. ASSUME NEW s \in Shapes, WriteRow(s) PROVE RowsAreHandled'
      BY <2>1, <2>2, WriteRowHandled
    <2>3. CASE ReadRows
      BY <2>1, <2>3, ReadRowsHandled
    <2>4. CASE NoticeRow
      BY <2>1, <2>4, NoticeRowHandled
    <2>5. CASE PassRows
      BY <2>1, <2>5, PassRowsHandled
    <2>6. CASE UNCHANGED <<rows, cursor, seed, notices, pc, batch, top>>
      BY <2>1, <2>6, <1>2, RowsUntouched
    <2>7. CASE ReadSwaps \/ PassSwaps
      <3>1. /\ cursor'["balance_changes"] = cursor["balance_changes"]
            /\ seed'["balance_changes"] = seed["balance_changes"]
            /\ pc' # "rows" /\ UNCHANGED <<rows, notices>>
        BY <2>7 DEF ReadSwaps, PassSwaps, ReadCursor, DetectorFields, Tables
      <3>2. QED
        BY <1>2, <2>1, <3>1, RowsUntouched
    <2>8. CASE NoticeSwap
      <3>1. /\ pc' # "rows" /\ UNCHANGED <<rows, cursor, seed>> /\ notices \subseteq notices'
            /\ \A n \in notices' \ notices : n.table # "balance_changes"
        BY <2>8 DEF NoticeSwap, SwapNotice
      <3>2. QED
        BY <1>2, <2>1, <3>1, RowsUntouched
    <2>9. CASE Abandon
      <3>1. pc' # "rows" /\ UNCHANGED <<rows, cursor, seed, notices>>
        BY <2>9 DEF Abandon
      <3>2. QED
        BY <1>2, <2>1, <3>1, RowsUntouched
    <2>10. ASSUME NEW i, NEW s, RewriteRow(i, s) PROVE FALSE
      BY <1>0, <1>2, <2>10 DEF RewriteRow
    <2>11. QED
      BY <2>2, <2>3, <2>4, <2>5, <2>6, <2>7, <2>8, <2>9, <2>10
      DEF DetectorNext, Cycle, vars, PreSeedSwap, StoreSwap, FillSwap, Connect, Disconnect
  <1>3. rewrites' = rewrites \/ rewrites' = rewrites + 1
    BY DEF DetectorNext, Cycle, vars, WriteRow, RewriteRow, PreSeedSwap, StoreSwap, FillSwap,
        Connect, Disconnect, ReadRows, NoticeRow, PassRows, ReadSwaps, NoticeSwap, PassSwaps,
        Abandon
  <1>4. QED
    BY <1>1, <1>2, <1>3

LEMMA DetectorInitInv == DetectorInit => DetectorInv
  <1> SUFFICES ASSUME DetectorInit PROVE DetectorInv
    OBVIOUS
  <1>1. /\ rows = << >> /\ swaps = << >> /\ notices = {} /\ pc = "idle" /\ rewrites = 0
        /\ cursor = [t \in Tables |-> NoCursor] /\ seed = [t \in Tables |-> NoCursor]
        /\ connected = Steady
    BY DEF DetectorInit
  <1>2. DetectorFields
    BY <1>1 DEF DetectorFields, Tables, NoCursor
  <1>3. OneNoticePerProposal /\ OpenSwapsStayAhead
    BY <1>1 DEF OneNoticePerProposal, OpenSwapsStayAhead
  <1>4. RowsAreHandled
    BY <1>1 DEF RowsAreHandled, NoticesAreRows, BatchIsAhead, PassedRowsAreNoticed
  <1>5. QED
    BY <1>2, <1>3, <1>4 DEF DetectorInv

LEMMA DetectorNextInv == DetectorInv /\ [DetectorNext]_vars => DetectorInv'
  BY DetectorFieldsKept, OneNoticeKept, OpenSwapsKept, RowsHandledKept DEF DetectorInv

LEMMA DetectorInvHolds == DetectorSpec => []DetectorInv
  BY DetectorInitInv, DetectorNextInv, PTL DEF DetectorSpec

(* However a proposal's transaction fans out into rows, and however often  *)
(* a batch is read again, there is one notification for it.                *)
THEOREM ProposalsAreNoticedOnce == DetectorSpec => []OneNoticePerProposal
  <1>1. DetectorInv => OneNoticePerProposal
    BY DEF DetectorInv
  <1>2. QED
    BY <1>1, DetectorInvHolds, PTL

(* The cursor never passes a swap that waits for its fulfilment. *)
THEOREM OpenSwapsRemainAhead == DetectorSpec => []OpenSwapsStayAhead
  <1>1. DetectorInv => OpenSwapsStayAhead
    BY DEF DetectorInv
  <1>2. QED
    BY <1>1, DetectorInvHolds, PTL

(* While no row is overwritten, the cursor never passes a payment or a     *)
(* proposal of a connected DAO that is not in the queue or spoken for.     *)
THEOREM PassedRowsStayNoticed == DetectorSpec => []PassedRowsAreNoticed
  <1>1. DetectorInv => PassedRowsAreNoticed
    BY DEF DetectorInv, RowsAreHandled, PassedRowsAreNoticed
  <1>2. QED
    BY <1>1, DetectorInvHolds, PTL
=============================================================================
