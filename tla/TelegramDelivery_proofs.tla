---------------------- MODULE TelegramDelivery_proofs -----------------------
(***************************************************************************)
(* Proofs about the delivery of notifications, for any treasuries, chats,  *)
(* tokens and requests and any number of faults and restarts.              *)
(***************************************************************************)
EXTENDS TelegramDelivery, Sums, SequenceTheorems

-----------------------------------------------------------------------------
(* The delivery of notifications *)

ExtraOf == [p \in Pairs |-> Extra(p)]

LEMMA PairsAreFinite == IsFiniteSet(Pairs)
  <1>1. IsFiniteSet(1..MaxNotices)
    BY DeliveryBounds, FS_Interval
  <1>2. QED
    BY <1>1, ChatsAreFinite, FS_Product DEF Pairs

(* The fold over an operator is the one over its graph. *)
LEMMA ExtraIsSummed == MapThenSumSet(Extra, Pairs) = SumFunctionOnSet(ExtraOf, Pairs)
  <1> DEFINE IsExtraTable(h) ==
                h = [T \in SUBSET Pairs |->
                       IF T = {} THEN 0 ELSE Extra(Chosen(T)) + h[T \ {Chosen(T)}]]
  <1>1. MapThenSumSet(Extra, Pairs) = (CHOOSE h : IsExtraTable(h))[Pairs]
    BY DEF MapThenSumSet, MapThenFoldSet, Chosen
  <1>2. \A T \in SUBSET Pairs : T # {} => ExtraOf[Chosen(T)] = Extra(Chosen(T))
    BY ChosenIsMember DEF ExtraOf
  <1>3. ASSUME NEW h PROVE IsExtraTable(h) <=> IsSumTable(h, ExtraOf, Pairs)
    <2>1. \A T \in SUBSET Pairs :
             (IF T = {} THEN 0 ELSE Extra(Chosen(T)) + h[T \ {Chosen(T)}])
             = (IF T = {} THEN 0 ELSE ExtraOf[Chosen(T)] + h[T \ {Chosen(T)}])
      BY <1>2
    <2>2. [T \in SUBSET Pairs |-> IF T = {} THEN 0 ELSE Extra(Chosen(T)) + h[T \ {Chosen(T)}]]
          = [T \in SUBSET Pairs |->
                IF T = {} THEN 0 ELSE ExtraOf[Chosen(T)] + h[T \ {Chosen(T)}]]
      BY <2>1
    <2>3. QED
      BY <2>2 DEF IsSumTable
  <1>4. HasTable(ExtraOf, Pairs)
    BY PairsAreFinite, TableExists
  <1> DEFINE g == Table(ExtraOf, Pairs)
  <1>5. IsExtraTable(g) /\ \A h : IsExtraTable(h) => h = g
    BY <1>3, <1>4 DEF HasTable
  <1> HIDE DEF g
  <1>6. (CHOOSE h : IsExtraTable(h)) = g
    <2> HIDE DEF IsExtraTable
    <2>1. QED
      BY <1>5
  <1>7. g[Pairs] = SumFunctionOnSet(ExtraOf, Pairs)
    BY DEF g, Table
  <1>8. QED
    BY <1>1, <1>6, <1>7

(* The i-th of a finite set of ids has i - 1 before it. *)
LEMMA RanksExist ==
    ASSUME NEW n \in Nat, NEW S, S \subseteq 1..n
    PROVE  /\ IsFiniteSet(S) /\ Cardinality(S) \in Nat
           /\ \A i \in 1..Cardinality(S) :
                \E x \in S : Cardinality({m \in S : m < x}) = i - 1
  <1>1. IsFiniteSet(S) /\ Cardinality(S) \in Nat /\ \A x \in S : x \in Int
    <2>1. IsFiniteSet(1..n)
      BY FS_Interval
    <2>2. IsFiniteSet(S)
      BY <2>1, FS_Subset
    <2>3. QED
      BY <2>2, FS_CardinalityType
  <1> DEFINE Below(T, x) == {m \in T : m < x}
             Ranked(T) == \A i \in 1..Cardinality(T) : \E x \in T : Cardinality(Below(T, x)) = i - 1
             HasTop(T) == T # {} => \E x \in T : \A m \in T : m <= x
             C == {T \in SUBSET S : Ranked(T) /\ HasTop(T)}
  <1>2. ASSUME NEW T \in SUBSET S, \A U \in SUBSET T : U # T => U \in C
        PROVE  T \in C
    <2>1. IsFiniteSet(T) /\ \A x \in T : x \in Int
      BY <1>1, FS_Subset
    <2>2. CASE T = {}
      <3>1. Cardinality(T) = 0
        BY <2>2, FS_EmptySet
      <3>2. QED
        BY <2>2, <3>1
    <2>3. CASE T # {}
      <3>1. HasTop(T)
        <4>1. PICK x \in T : TRUE
          BY <2>3
        <4>2. T \ {x} \in C
          BY <1>2
        <4>3. CASE T \ {x} = {}
          BY <2>1, <4>1, <4>3
        <4>4. CASE T \ {x} # {}
          <5>1. PICK k \in T \ {x} : \A m \in T \ {x} : m <= k
            BY <4>2, <4>4
          <5>2. CASE k <= x
            BY <2>1, <5>1, <5>2
          <5>3. CASE x <= k
            BY <2>1, <5>1, <5>3
          <5>4. QED
            BY <2>1, <5>1, <5>2, <5>3
        <4>5. QED
          BY <4>3, <4>4
      <3>2. PICK g \in T : \A m \in T : m <= g
        BY <2>3, <3>1
      <3>3. PICK R : R = T \ {g}
        OBVIOUS
      <3>4. R \in C /\ IsFiniteSet(R)
        <4>1. R \in SUBSET T /\ R # T
          BY <3>3
        <4>2. R \in C
          BY <1>2, <4>1
        <4>3. IsFiniteSet(R)
          BY <2>1, <3>3, FS_RemoveElement
        <4> HIDE DEF C
        <4>4. QED
          BY <4>2, <4>3
      <3>5. Cardinality(T) \in Nat /\ Cardinality(R) = Cardinality(T) - 1
        BY <2>1, <3>2, <3>3, FS_RemoveElement, FS_CardinalityType
      <3>6. Below(T, g) = R
        <4>1. ASSUME NEW m \in T PROVE m < g <=> m # g
          BY <2>1, <3>2
        <4>2. QED
          BY <3>3, <4>1
      <3>7. ASSUME NEW x \in R PROVE Below(T, x) = Below(R, x)
        <4>1. ~(g < x)
          <5>1. x \in Int /\ g \in Int /\ x <= g
            BY <2>1, <3>2, <3>3
          <5>2. QED
            BY <5>1
        <4>2. QED
          BY <3>3, <4>1
      <3>8. ASSUME NEW i \in 1..Cardinality(T)
            PROVE  \E x \in T : Cardinality(Below(T, x)) = i - 1
        <4>1. CASE i = Cardinality(T)
          BY <3>2, <3>5, <3>6, <4>1
        <4>2. CASE i # Cardinality(T)
          <5>1. i \in 1..Cardinality(R)
            BY <3>5, <4>2
          <5>2. PICK x \in R : Cardinality(Below(R, x)) = i - 1
            BY <3>4, <5>1
          <5>3. QED
            BY <3>3, <3>7, <5>2
        <4>3. QED
          BY <4>1, <4>2
      <3>9. QED
        BY <3>1, <3>8
    <2>4. QED
      BY <2>2, <2>3
  <1>3. S \in C
    <2> HIDE DEF C
    <2>1. QED
      BY <1>1, <1>2, SubsetInduction
  <1>4. QED
    BY <1>1, <1>3

Connections == [chat : Chats \cup {NoChat}, at : Nat]
CallRecords == [at : {"new", "checked", "open", "done"}, token : ConnectTokens \cup {"none"},
                pick : SUBSET Daos, time : Nat, drop : SUBSET Daos]
NoticeRecords == [dao : Daos, hearers : SUBSET Chats]

DeliveryFields ==
    /\ conns \in [Daos -> Connections]
    /\ calls \in [Calls -> CallRecords]
    /\ \A k \in Calls : calls[k].at \in {"checked", "open"} => calls[k].token \in ConnectTokens
    /\ notices \in Seq(NoticeRecords) /\ Len(notices) <= MaxNotices
    /\ sent \in [Pairs -> Nat]
    /\ pc \in {"idle", "sending", "recording"} /\ batch \in Seq(Pairs)
    /\ pc # "idle" => batch # << >>
    /\ faults \in Nat /\ restarts \in Nat

(* What a treasury's chat may be sent, what an open request is about to    *)
(* allow, and what is selected and sent, is for chats that were connected  *)
(* at the time of the notification.                                        *)
ConnectionsHear ==
    \A d \in Daos, n \in DOMAIN notices :
        (conns[d].chat # NoChat /\ n > conns[d].at /\ notices[n].dao = d)
        => conns[d].chat \in notices[n].hearers
RequestsHear ==
    \A k \in Calls, n \in DOMAIN notices :
        (calls[k].at = "open" /\ n > calls[k].time /\ notices[n].dao \in calls[k].pick)
        => TokenChat[calls[k].token] \in notices[n].hearers
Hears(p) == p[1] \in DOMAIN notices /\ p[2] \in notices[p[1]].hearers
BatchHears == \A i \in DOMAIN batch : Hears(batch[i])
SentHear == \A p \in Pairs : sent[p] > 0 => Hears(p)

ChatsHear == ConnectionsHear /\ RequestsHear /\ BatchHears /\ SentHear

(* The messages that no record stands for, and what the batch is about: a  *)
(* message is without its record while it is recorded, or for a fault.     *)
LostOf == [p \in Pairs |-> sent[p] - IF p \in delivered THEN 1 ELSE 0]
Unrecorded == IF pc = "recording" THEN 1 ELSE 0
BatchIsNew == /\ \A i, j \in DOMAIN batch : batch[i] = batch[j] => i = j
              /\ \A i \in DOMAIN batch : batch[i] \notin delivered
RecordsAreSent == /\ pc = "recording" => sent[batch[1]] > 0
                  /\ \A p \in Pairs : p \in delivered => sent[p] > 0
LossesAreFaults == SumFunctionOnSet(LostOf, Pairs) <= faults + restarts + Unrecorded

RecordsFollow == BatchIsNew /\ RecordsAreSent /\ LossesAreFaults

DeliveryInv == DeliveryFields /\ ChatsHear /\ RecordsFollow

LEMMA NewCalls ==
    ASSUME NEW t \in ConnectTokens, NEW S \in SUBSET Daos
    PROVE  /\ NewCall \in CallRecords /\ NewCall.at = "new"
           /\ [NewCall EXCEPT !.at = "done"] \in CallRecords
           /\ [NewCall EXCEPT !.at = "done"].at = "done"
           /\ [NewCall EXCEPT !.at = "checked", !.token = t, !.pick = S] \in CallRecords
           /\ [NewCall EXCEPT !.at = "checked", !.token = t, !.pick = S].at = "checked"
           /\ [NewCall EXCEPT !.at = "checked", !.token = t, !.pick = S].token = t
  BY DEF NewCall, CallRecords

LEMMA DoneCalls ==
    /\ NewCall \in CallRecords /\ NewCall.at = "new"
    /\ [NewCall EXCEPT !.at = "done"] \in CallRecords
    /\ [NewCall EXCEPT !.at = "done"].at = "done"
  BY DEF NewCall, CallRecords

(* The request k gets the record r. *)
LEMMA CallChanges ==
    ASSUME DeliveryFields, NEW k \in Calls, NEW r \in CallRecords, calls' = [calls EXCEPT ![k] = r],
           r.at \in {"checked", "open"} => r.token \in ConnectTokens
    PROVE  /\ calls' \in [Calls -> CallRecords] /\ calls'[k] = r
           /\ \A j \in Calls : calls'[j].at \in {"checked", "open"} => calls'[j].token \in ConnectTokens
           /\ \A j \in Calls : j # k => calls'[j] = calls[j]
  BY DEF DeliveryFields

LEMMA ThreeFieldsChange ==
    ASSUME NEW K, NEW R, NEW f \in [K -> R], NEW k \in K, NEW a, NEW b, NEW c
    PROVE  [f EXCEPT ![k].at = a, ![k].time = b, ![k].drop = c]
           = [f EXCEPT ![k] = [f[k] EXCEPT !.at = a, !.time = b, !.drop = c]]
  OBVIOUS

LEMMA ThreeFieldsOf ==
    ASSUME NEW A, NEW T, NEW P, NEW M, NEW R,
           NEW c \in [at : A, token : T, pick : P, time : M, drop : R],
           NEW a \in A, NEW n \in M, NEW D \in R
    PROVE  LET r == [c EXCEPT !.at = a, !.time = n, !.drop = D] IN
           /\ r \in [at : A, token : T, pick : P, time : M, drop : R]
           /\ r.at = a /\ r.time = n /\ r.token = c.token /\ r.pick = c.pick
  OBVIOUS

(* What a request reads when its transaction begins. *)
LEMMA BegunCall ==
    ASSUME DeliveryFields, NEW k \in Calls, BeginConnect(k)
    PROVE  \E r \in CallRecords :
               /\ calls' = [calls EXCEPT ![k] = r] /\ r.at = "open" /\ r.time = Len(notices)
               /\ r.token = calls[k].token /\ r.token \in ConnectTokens
               /\ r.pick = calls[k].pick
  <1>1. PICK c, D, n : /\ c = calls[k] /\ n = Len(notices)
                       /\ D = ConnectedTo(TokenChat[calls[k].token]) \ calls[k].pick
    OBVIOUS
  <1>2. /\ c \in CallRecords /\ c.at = "checked" /\ c.token \in ConnectTokens
        /\ D \in SUBSET Daos /\ n \in Nat /\ calls \in [Calls -> CallRecords]
    BY <1>1 DEF DeliveryFields, BeginConnect, ConnectedTo
  <1>3. PICK r : r = [c EXCEPT !.at = "open", !.time = n, !.drop = D]
    OBVIOUS
  <1>4. /\ r \in CallRecords /\ r.at = "open" /\ r.time = n /\ r.token = c.token
        /\ r.pick = c.pick
    <2>1. "open" \in {"new", "checked", "open", "done"}
      OBVIOUS
    <2>2. LET q == [c EXCEPT !.at = "open", !.time = n, !.drop = D] IN
          q \in CallRecords /\ q.at = "open" /\ q.time = n /\ q.token = c.token
          /\ q.pick = c.pick
      <3>1. c \in [at : {"new", "checked", "open", "done"}, token : ConnectTokens \cup {"none"},
                   pick : SUBSET Daos, time : Nat, drop : SUBSET Daos]
        BY <1>2 DEF CallRecords
      <3>2. QED
        BY <1>2, <2>1, <3>1, ThreeFieldsOf DEF CallRecords
    <2>3. QED
      BY <1>3, <2>2
  <1>5. calls' = [calls EXCEPT ![k].at = "open", ![k].time = n, ![k].drop = D]
    BY <1>1 DEF BeginConnect
  <1>6. [calls EXCEPT ![k].at = "open", ![k].time = n, ![k].drop = D]
        = [calls EXCEPT ![k] = [calls[k] EXCEPT !.at = "open", !.time = n, !.drop = D]]
    BY <1>2, ThreeFieldsChange
  <1>7. calls' = [calls EXCEPT ![k] = r]
    BY <1>1, <1>3, <1>5, <1>6
  <1>8. QED
    BY <1>1, <1>2, <1>4, <1>7

(* The batch that a cycle selects: undelivered notifications, each once,   *)
(* with the chat their treasury is connected to.                           *)
LEMMA SelectedBatch ==
    ASSUME DeliveryFields, SelectUndelivered
    PROVE  /\ batch' \in Seq(Pairs) /\ batch' # << >>
           /\ \A i, j \in DOMAIN batch' : batch'[i] = batch'[j] => i = j
           /\ \A i \in DOMAIN batch' :
                \E n \in Undelivered : batch'[i] = <<n, conns[notices[n].dao].chat>>
  <1>1. PICK top : top = Len(notices)
    OBVIOUS
  <1>2. top \in Nat /\ DOMAIN notices = 1..top /\ top <= MaxNotices
    BY <1>1 DEF DeliveryFields
  <1>3. PICK und : und = Undelivered
    OBVIOUS
  <1>4. und \subseteq 1..top /\ und # {}
    BY <1>2, <1>3 DEF Undelivered, SelectUndelivered
  <1>5. \A n \in und : <<n, conns[notices[n].dao].chat>> \in Pairs
    <2>1. SUFFICES ASSUME NEW n \in und PROVE <<n, conns[notices[n].dao].chat>> \in Pairs
      OBVIOUS
    <2>2. n \in DOMAIN notices /\ conns[notices[n].dao].chat # NoChat
      BY <1>3 DEF Undelivered
    <2>3. notices[n] \in NoticeRecords
      BY <1>1, <1>2, <2>2, ElementOfSeq DEF DeliveryFields
    <2>4. notices[n].dao \in Daos
      BY <2>3 DEF NoticeRecords
    <2>5. conns[notices[n].dao] \in Connections
      BY <2>4 DEF DeliveryFields
    <2>6. conns[notices[n].dao].chat \in Chats
      BY <2>2, <2>5 DEF Connections
    <2>7. n \in 1..MaxNotices
      BY <1>2, <1>4, DeliveryBounds
    <2>8. QED
      BY <2>6, <2>7 DEF Pairs
  <1>6. PICK ids : ids = {n \in und : Cardinality({m \in und : m < n}) < BatchSize}
    OBVIOUS
  <1>7. ids \subseteq 1..top /\ ids \subseteq und
    BY <1>4, <1>6
  <1>8. Cardinality(ids) \in Nat
        /\ \A i \in 1..Cardinality(ids) :
              \E x \in ids : Cardinality({m \in ids : m < x}) = i - 1
    BY <1>2, <1>7, RanksExist
  <1>9. Cardinality(ids) >= 1
    <2>1. IsFiniteSet(und) /\ Cardinality(und) \in Nat
          /\ \A i \in 1..Cardinality(und) :
                \E x \in und : Cardinality({m \in und : m < x}) = i - 1
      BY <1>2, <1>4, RanksExist
    <2>2. Cardinality(und) # 0
      BY <1>4, <2>1, FS_EmptySet
    <2>3. 1 \in 1..Cardinality(und)
      BY <2>1, <2>2
    <2>4. PICK x \in und : Cardinality({m \in und : m < x}) = 1 - 1
      BY <2>1, <2>3
    <2>5. x \in ids
      BY <1>6, <2>4, DeliveryBounds
    <2>6. IsFiniteSet(ids)
      BY <1>2, <1>7, RanksExist
    <2>7. Cardinality(ids) # 0
      BY <2>5, <2>6, FS_EmptySet
    <2>8. QED
      BY <1>8, <2>7
  <1> DEFINE nth(i) == CHOOSE n \in ids : Cardinality({m \in ids : m < n}) = i - 1
  <1>10. \A i \in 1..Cardinality(ids) :
            nth(i) \in ids /\ Cardinality({m \in ids : m < nth(i)}) = i - 1
    BY <1>8
  <1>11. batch' = [i \in 1..Cardinality(ids) |-> <<nth(i), conns[notices[nth(i)].dao].chat>>]
    BY <1>3, <1>6 DEF SelectUndelivered
  <1> HIDE DEF nth
  <1>12. DOMAIN batch' = 1..Cardinality(ids)
    BY <1>11
  <1>13. \A i \in 1..Cardinality(ids) : batch'[i] = <<nth(i), conns[notices[nth(i)].dao].chat>>
    BY <1>11
  <1>14. \A i \in 1..Cardinality(ids) : nth(i) \in und
    BY <1>7, <1>10
  <1>15. batch' \in Seq(Pairs) /\ Len(batch') = Cardinality(ids)
    <2>1. batch' \in [1..Cardinality(ids) -> Pairs]
      BY <1>5, <1>11, <1>14
    <2>2. PICK m \in Nat : m = Cardinality(ids)
      BY <1>8
    <2> HIDE DEF Pairs
    <2>3. QED
      BY <2>1, <2>2
  <1>16. batch' # << >>
    BY <1>9, <1>15
  <1>17. ASSUME NEW i \in 1..Cardinality(ids), NEW j \in 1..Cardinality(ids), batch'[i] = batch'[j]
         PROVE  i = j
    <2>1. nth(i) = nth(j)
      BY <1>13, <1>17
    <2>2. i - 1 = j - 1
      BY <1>10, <2>1
    <2>3. QED
      BY <1>8, <2>2
  <1>18. QED
    BY <1>3, <1>12, <1>13, <1>14, <1>15, <1>16, <1>17

(* What is left of the batch when its first is handled. *)
LEMMA RestOfBatch ==
    ASSUME DeliveryFields, pc # "idle"
    PROVE  /\ Tail(batch) \in Seq(Pairs) /\ batch[1] \in Pairs /\ 1 \in DOMAIN batch
           /\ \A i \in DOMAIN Tail(batch) :
                 i + 1 \in DOMAIN batch /\ i + 1 # 1 /\ Tail(batch)[i] = batch[i + 1]
           /\ \A i \in DOMAIN Tail(batch) : i \in Int
  <1>1. batch \in Seq(Pairs) /\ batch # << >>
    BY DEF DeliveryFields
  <1>2. QED
    BY <1>1, HeadTailProperties, ElementOfSeq

(* The request k commits. *)
LEMMA CommittedConnections ==
    ASSUME DeliveryFields, NEW k \in Calls, CommitConnect(k)
    PROVE  /\ conns' \in [Daos -> Connections]
           /\ \A d \in Daos : \/ conns'[d] = conns[d] \/ conns'[d].chat = NoChat
                              \/ d \in calls[k].pick /\ conns'[d] = Upserted(k, d)
  <1>1. /\ calls[k] \in CallRecords /\ calls[k].token \in ConnectTokens
        /\ conns \in [Daos -> Connections]
    BY DEF DeliveryFields, CommitConnect
  <1>2. calls[k].time \in Nat /\ TokenChat[calls[k].token] \in Chats
    BY <1>1, TokenChatAssumption DEF CallRecords
  <1>3. \A d \in Daos : Upserted(k, d) \in Connections
    BY <1>2 DEF Upserted, Connections
  <1>4. NoConnection \in Connections /\ NoConnection.chat = NoChat
    BY DEF NoConnection, Connections
  <1>5. CASE TokenChat[calls[k].token] \in chats
    <2>1. PICK drops : drops = {d \in Daos : d \in calls[k].drop
                                          /\ conns[d].chat = TokenChat[calls[k].token]}
      OBVIOUS
    <2>2. conns' = [d \in Daos |-> IF d \in calls[k].pick THEN Upserted(k, d)
                                   ELSE IF d \in drops THEN NoConnection ELSE conns[d]]
      BY <1>5, <2>1 DEF CommitConnect
    <2>3. QED
      BY <1>1, <1>3, <1>4, <2>2
  <1>6. CASE TokenChat[calls[k].token] \notin chats
    BY <1>1, <1>6 DEF CommitConnect
  <1>7. QED
    BY <1>5, <1>6

(* A notification is about a connected treasury; who hears of it is its    *)
(* chat, and those of the open requests that select it.                    *)
LEMMA NewNotice ==
    ASSUME DeliveryFields, NEW d \in Daos, Notify(d)
    PROVE  \E r \in NoticeRecords :
               /\ notices' = Append(notices, r) /\ r.dao = d /\ conns[d].chat \in r.hearers
               /\ \A k \in Calls : (calls[k].at = "open" /\ d \in calls[k].pick)
                                     => TokenChat[calls[k].token] \in r.hearers
  <1>1. PICK H : H = {conns[d].chat} \cup {TokenChat[calls[k].token] :
               k \in {j \in Calls : calls[j].at = "open" /\ d \in calls[j].pick}}
    OBVIOUS
  <1>2. conns[d] \in Connections /\ conns[d].chat # NoChat
    BY DEF DeliveryFields, Notify
  <1>3. \A j \in Calls : calls[j].at = "open" => TokenChat[calls[j].token] \in Chats
    BY TokenChatAssumption DEF DeliveryFields
  <1>4. H \in SUBSET Chats
    BY <1>1, <1>2, <1>3 DEF Connections
  <1>5. PICK r : r = [dao |-> d, hearers |-> H]
    OBVIOUS
  <1>6. r \in NoticeRecords /\ r.dao = d /\ r.hearers = H
    BY <1>4, <1>5 DEF NoticeRecords
  <1>7. notices' = Append(notices, r)
    BY <1>1, <1>5 DEF Notify
  <1>8. QED
    BY <1>1, <1>6, <1>7

LEMMA StagesAfter ==
    /\ \A b : StageAfter(b) \in {"idle", "sending"}
    /\ \A b : StageAfter(b) # "idle" => b # << >>
  BY DEF StageAfter

LEMMA DeliveryFieldsKept == DeliveryFields /\ [DeliveryNext]_deliveryVars => DeliveryFields'
  <1> SUFFICES ASSUME DeliveryFields, [DeliveryNext]_deliveryVars PROVE DeliveryFields'
    OBVIOUS
  <1>1. ASSUME NEW t \in ConnectTokens, BotAdded(t) PROVE DeliveryFields'
    BY <1>1 DEF BotAdded, dispatchVars, DeliveryFields
  <1>2. ASSUME NEW c \in Chats, LoseChat(c) PROVE DeliveryFields'
    BY <1>2 DEF LoseChat, dispatchVars, DeliveryFields
  <1>3. ASSUME NEW c \in Chats, BotRemoved(c) PROVE DeliveryFields'
    <2>1. NoConnection \in Connections
      BY DEF NoConnection, Connections
    <2>2. conns' \in [Daos -> Connections]
      BY <1>3, <2>1 DEF BotRemoved, DeliveryFields
    <2>3. QED
      BY <1>3, <2>2 DEF BotRemoved, dispatchVars, DeliveryFields
  <1>4. ASSUME NEW c \in Chats, LeaveChat(c) PROVE DeliveryFields'
    BY <1>4 DEF LeaveChat, dispatchVars, DeliveryFields
  <1>5. ASSUME NEW k \in Calls, NEW t \in ConnectTokens, NEW S \in SUBSET Daos, CheckToken(k, t, S)
        PROVE  DeliveryFields'
    <2>0. PICK r : r = [NewCall EXCEPT !.at = "checked", !.token = t, !.pick = S]
      OBVIOUS
    <2>1. r \in CallRecords /\ calls' = [calls EXCEPT ![k] = r] /\ r.token = t
      <3>1. r \in CallRecords /\ r.token = t
        BY <2>0, NewCalls
      <3>2. calls' = [calls EXCEPT ![k] = r]
        BY <1>5, <2>0 DEF CheckToken
      <3>3. QED
        BY <3>1, <3>2
    <2>2. /\ calls' \in [Calls -> CallRecords]
          /\ \A j \in Calls : calls'[j].at \in {"checked", "open"} => calls'[j].token \in ConnectTokens
      BY <2>1, CallChanges
    <2>3. QED
      BY <1>5, <2>2 DEF CheckToken, dispatchVars, DeliveryFields
  <1>6. ASSUME NEW k \in Calls, BeginConnect(k) PROVE DeliveryFields'
    <2>1. PICK r \in CallRecords : calls' = [calls EXCEPT ![k] = r] /\ r.token \in ConnectTokens
      BY <1>6, BegunCall
    <2>2. /\ calls' \in [Calls -> CallRecords]
          /\ \A j \in Calls : calls'[j].at \in {"checked", "open"} => calls'[j].token \in ConnectTokens
      BY <2>1, CallChanges
    <2>3. QED
      BY <1>6, <2>2 DEF BeginConnect, dispatchVars, DeliveryFields
  <1>7. ASSUME NEW k \in Calls, CommitConnect(k) PROVE DeliveryFields'
    <2>1. PICK r \in CallRecords : calls' = [calls EXCEPT ![k] = r] /\ r.at = "done"
      BY <1>7, DoneCalls DEF CommitConnect
    <2>2. /\ calls' \in [Calls -> CallRecords]
          /\ \A j \in Calls : calls'[j].at \in {"checked", "open"} => calls'[j].token \in ConnectTokens
      BY <2>1, CallChanges
    <2>3. conns' \in [Daos -> Connections]
      BY <1>7, CommittedConnections
    <2>4. UNCHANGED dispatchVars
      BY <1>7 DEF CommitConnect
    <2>5. QED
      BY <2>2, <2>3, <2>4 DEF dispatchVars, DeliveryFields
  <1>8. ASSUME NEW d \in Daos, Disconnect(d) PROVE DeliveryFields'
    <2>1. NoConnection \in Connections
      BY DEF NoConnection, Connections
    <2>2. conns' \in [Daos -> Connections]
      BY <1>8, <2>1 DEF Disconnect, DeliveryFields
    <2>3. QED
      BY <1>8, <2>2 DEF Disconnect, dispatchVars, DeliveryFields
  <1>9. ASSUME NEW d \in Daos, Notify(d) PROVE DeliveryFields'
    <2>1. PICK r \in NoticeRecords : notices' = Append(notices, r)
      BY <1>9, NewNotice
    <2>2. notices' \in Seq(NoticeRecords) /\ Len(notices') <= MaxNotices
      <3>1. notices \in Seq(NoticeRecords) /\ Len(notices) < MaxNotices
        BY <1>9 DEF Notify, DeliveryFields
      <3>2. QED
        BY <2>1, <3>1, AppendProperties, DeliveryBounds
    <2>3. QED
      BY <1>9, <2>2 DEF Notify, DeliveryFields
  <1>10. ASSUME SelectUndelivered PROVE DeliveryFields'
    <2>1. batch' \in Seq(Pairs) /\ batch' # << >>
      BY <1>10, SelectedBatch
    <2>2. QED
      BY <1>10, <2>1 DEF SelectUndelivered, Others, DeliveryFields
  <1>11. ASSUME SendMessage PROVE DeliveryFields'
    <2>1. batch[1] \in Pairs
      BY <1>11, RestOfBatch DEF SendMessage
    <2>2. sent' \in [Pairs -> Nat]
      BY <1>11, <2>1 DEF SendMessage, DeliveryFields
    <2>3. QED
      BY <1>11, <2>2 DEF SendMessage, Others, DeliveryFields
  <1>12. ASSUME SendRefused PROVE DeliveryFields'
    <2>1. Tail(batch) \in Seq(Pairs)
      BY <1>12, RestOfBatch DEF SendRefused
    <2>2. faults' \in Nat
      BY <1>12 DEF SendRefused, DeliveryFields
    <2>3. QED
      BY <1>12, <2>1, <2>2, StagesAfter DEF SendRefused, Others, DeliveryFields
  <1>13. ASSUME RecordDelivery PROVE DeliveryFields'
    <2>1. Tail(batch) \in Seq(Pairs)
      BY <1>13, RestOfBatch DEF RecordDelivery
    <2>2. faults' \in Nat
      BY <1>13 DEF RecordDelivery, DeliveryFields
    <2>3. QED
      BY <1>13, <2>1, <2>2, StagesAfter DEF RecordDelivery, Others, DeliveryFields
  <1>14. ASSUME Restart PROVE DeliveryFields'
    <2>1. PICK r \in CallRecords : r = [NewCall EXCEPT !.at = "done"] /\ r.at = "done"
      BY DoneCalls
    <2>2. calls' = [k \in Calls |-> r]
      BY <1>14, <2>1 DEF Restart
    <2>3. << >> \in Seq(Pairs)
      OBVIOUS
    <2>4. calls' \in [Calls -> CallRecords] /\ \A k \in Calls : calls'[k].at = "done"
      BY <2>1, <2>2
    <2>5. /\ restarts' = restarts + 1 /\ pc' = "idle" /\ batch' = << >>
          /\ UNCHANGED <<conns, notices, sent, faults>>
      BY <1>14 DEF Restart
    <2>6. QED
      BY <2>3, <2>4, <2>5 DEF DeliveryFields
  <1>15. CASE UNCHANGED deliveryVars
    BY <1>15 DEF deliveryVars, dispatchVars, DeliveryFields
  <1>16. QED
    BY <1>1, <1>2, <1>3, <1>4, <1>5, <1>6, <1>7, <1>8, <1>9, <1>10, <1>11, <1>12, <1>13, <1>14, <1>15
       DEF DeliveryNext, Dispatch

LEMMA ChatsHearKept ==
    ASSUME DeliveryFields, DeliveryFields', ChatsHear, [DeliveryNext]_deliveryVars
    PROVE  ChatsHear'
  <1>a. CASE UNCHANGED <<conns, calls, notices, batch, sent>>
    BY <1>a DEF ChatsHear, ConnectionsHear, RequestsHear, BatchHears, SentHear, Hears
  <1>1. ASSUME NEW t \in ConnectTokens, BotAdded(t) PROVE ChatsHear'
    BY <1>a, <1>1 DEF BotAdded, dispatchVars
  <1>2. ASSUME NEW c \in Chats, LoseChat(c) PROVE ChatsHear'
    BY <1>a, <1>2 DEF LoseChat, dispatchVars
  <1>3. ASSUME NEW c \in Chats, BotRemoved(c) PROVE ChatsHear'
    <2>1. UNCHANGED <<calls, notices, batch, sent>>
      BY <1>3 DEF BotRemoved, dispatchVars
    <2>2. \A d \in Daos : conns'[d] = conns[d] \/ conns'[d].chat = NoChat
      BY <1>3 DEF BotRemoved, NoConnection
    <2>3. ConnectionsHear'
      BY <2>1, <2>2 DEF ChatsHear, ConnectionsHear
    <2>4. QED
      BY <2>1, <2>3 DEF ChatsHear, RequestsHear, BatchHears, SentHear, Hears
  <1>4. ASSUME NEW c \in Chats, LeaveChat(c) PROVE ChatsHear'
    BY <1>a, <1>4 DEF LeaveChat, dispatchVars
  <1>5. ASSUME NEW k \in Calls, NEW r \in CallRecords, calls' = [calls EXCEPT ![k] = r],
               r.at # "open" \/ r.time = Len(notices), UNCHANGED notices
        PROVE  RequestsHear'
    <2>1. calls'[k] = r /\ \A j \in Calls : j # k => calls'[j] = calls[j]
      BY <1>5 DEF DeliveryFields
    <2>2. ASSUME NEW n \in DOMAIN notices PROVE ~(n > Len(notices))
      BY <2>2 DEF DeliveryFields
    <2>3. QED
      BY <1>5, <2>1, <2>2 DEF ChatsHear, RequestsHear
  <1>6. ASSUME NEW k \in Calls, NEW t \in ConnectTokens, NEW S \in SUBSET Daos, CheckToken(k, t, S)
        PROVE  ChatsHear'
    <2>1. UNCHANGED <<conns, notices, batch, sent>>
      BY <1>6 DEF CheckToken, dispatchVars
    <2>2. PICK r : r = [NewCall EXCEPT !.at = "checked", !.token = t, !.pick = S]
      OBVIOUS
    <2>3. r \in CallRecords /\ r.at = "checked"
      BY <2>2, NewCalls
    <2>4. calls' = [calls EXCEPT ![k] = r]
      BY <1>6, <2>2 DEF CheckToken
    <2>5. RequestsHear'
      BY <1>5, <2>1, <2>3, <2>4
    <2>6. QED
      BY <2>1, <2>5 DEF ChatsHear, ConnectionsHear, BatchHears, SentHear, Hears
  <1>7. ASSUME NEW k \in Calls, BeginConnect(k) PROVE ChatsHear'
    <2>1. UNCHANGED <<conns, notices, batch, sent>>
      BY <1>7 DEF BeginConnect, dispatchVars
    <2>2. PICK r \in CallRecords : calls' = [calls EXCEPT ![k] = r] /\ r.time = Len(notices)
      BY <1>7, BegunCall
    <2>3. RequestsHear'
      BY <1>5, <2>1, <2>2
    <2>4. QED
      BY <2>1, <2>3 DEF ChatsHear, ConnectionsHear, BatchHears, SentHear, Hears
  <1>8. ASSUME NEW k \in Calls, CommitConnect(k) PROVE ChatsHear'
    <2>1. UNCHANGED <<notices, batch, sent>> /\ calls[k].at = "open"
      BY <1>8 DEF CommitConnect, dispatchVars
    <2>2. PICK r \in CallRecords : calls' = [calls EXCEPT ![k] = r] /\ r.at = "done"
      BY <1>8, DoneCalls DEF CommitConnect
    <2>3. RequestsHear'
      BY <1>5, <2>1, <2>2
    <2>4. \A d \in Daos : \/ conns'[d] = conns[d] \/ conns'[d].chat = NoChat
                          \/ d \in calls[k].pick /\ conns'[d] = Upserted(k, d)
      BY <1>8, CommittedConnections
    <2>5. ConnectionsHear'
      <3>1. SUFFICES ASSUME NEW d \in Daos, NEW n \in DOMAIN notices, conns'[d].chat # NoChat,
                            n > conns'[d].at, notices[n].dao = d
                     PROVE  conns'[d].chat \in notices[n].hearers
        BY <2>1 DEF ConnectionsHear
      <3>2. CASE conns'[d] = conns[d]
        BY <3>1, <3>2 DEF ChatsHear, ConnectionsHear
      <3>3. CASE d \in calls[k].pick /\ conns'[d] = Upserted(k, d)
        <4>1. conns'[d].chat = TokenChat[calls[k].token] /\ conns'[d].at = calls[k].time
          BY <3>3 DEF Upserted
        <4>2. QED
          BY <2>1, <3>1, <3>3, <4>1 DEF ChatsHear, RequestsHear
      <3>4. QED
        BY <2>4, <3>1, <3>2, <3>3
    <2>6. QED
      BY <2>1, <2>3, <2>5 DEF ChatsHear, BatchHears, SentHear, Hears
  <1>9. ASSUME NEW d \in Daos, Disconnect(d) PROVE ChatsHear'
    <2>1. UNCHANGED <<calls, notices, batch, sent>>
      BY <1>9 DEF Disconnect, dispatchVars
    <2>2. \A e \in Daos : conns'[e] = conns[e] \/ conns'[e].chat = NoChat
      BY <1>9 DEF Disconnect, NoConnection, DeliveryFields
    <2>3. ConnectionsHear'
      BY <2>1, <2>2 DEF ChatsHear, ConnectionsHear
    <2>4. QED
      BY <2>1, <2>3 DEF ChatsHear, RequestsHear, BatchHears, SentHear, Hears
  <1>10. ASSUME NEW d \in Daos, Notify(d) PROVE ChatsHear'
    <2>1. PICK r \in NoticeRecords :
              /\ notices' = Append(notices, r) /\ r.dao = d /\ conns[d].chat \in r.hearers
              /\ \A k \in Calls : (calls[k].at = "open" /\ d \in calls[k].pick)
                                     => TokenChat[calls[k].token] \in r.hearers
      BY <1>10, NewNotice
    <2>2. UNCHANGED <<conns, calls, batch, sent>>
      BY <1>10 DEF Notify
    <2>3. PICK top : top = Len(notices)
      OBVIOUS
    <2>4. notices \in Seq(NoticeRecords) /\ top \in Nat /\ DOMAIN notices = 1..top
      BY <2>3 DEF DeliveryFields
    <2>5. /\ DOMAIN notices' = 1..(top + 1) /\ notices'[top + 1] = r
          /\ \A n \in 1..top : notices'[n] = notices[n]
      BY <2>1, <2>3, <2>4, AppendProperties
    <2>6. \A n \in DOMAIN notices' :
             (n \in DOMAIN notices /\ notices'[n] = notices[n]) \/ notices'[n] = r
      BY <2>4, <2>5
    <2>7. \A n \in DOMAIN notices : n \in DOMAIN notices' /\ notices'[n] = notices[n]
      BY <2>4, <2>5
    <2>8. ConnectionsHear'
      BY <2>1, <2>2, <2>6 DEF ChatsHear, ConnectionsHear
    <2>9. RequestsHear'
      <3>1. SUFFICES ASSUME NEW k \in Calls, NEW n \in DOMAIN notices', calls[k].at = "open",
                            n > calls[k].time, notices'[n].dao \in calls[k].pick
                     PROVE  TokenChat[calls[k].token] \in notices'[n].hearers
        BY <2>2 DEF RequestsHear
      <3>2. CASE n \in DOMAIN notices /\ notices'[n] = notices[n]
        BY <3>1, <3>2 DEF ChatsHear, RequestsHear
      <3>3. CASE notices'[n] = r
        BY <2>1, <3>1, <3>3
      <3>4. QED
        BY <2>6, <3>2, <3>3
    <2>10. \A p : Hears(p) => Hears(p)'
      BY <2>7 DEF Hears
    <2>11. BatchHears' /\ SentHear'
      BY <2>2, <2>10 DEF ChatsHear, BatchHears, SentHear, Hears
    <2>12. QED
      BY <2>8, <2>9, <2>11 DEF ChatsHear
  <1>11. ASSUME SelectUndelivered PROVE ChatsHear'
    <2>1. \A i \in DOMAIN batch' :
             \E n \in Undelivered : batch'[i] = <<n, conns[notices[n].dao].chat>>
      BY <1>11, SelectedBatch
    <2>2. UNCHANGED <<conns, calls, notices, sent>>
      BY <1>11 DEF SelectUndelivered, Others
    <2>3. ASSUME NEW n \in Undelivered PROVE Hears(<<n, conns[notices[n].dao].chat>>)
      <3>1. /\ n \in DOMAIN notices /\ conns[notices[n].dao].chat # NoChat
            /\ n > conns[notices[n].dao].at
        BY DEF Undelivered
      <3>2. notices[n].dao \in Daos
        <4>1. notices[n] \in NoticeRecords
          BY <3>1, ElementOfSeq DEF DeliveryFields
        <4>2. QED
          BY <4>1 DEF NoticeRecords
      <3>3. QED
        BY <3>1, <3>2 DEF ChatsHear, ConnectionsHear, Hears
    <2>4. BatchHears'
      BY <2>1, <2>2, <2>3 DEF BatchHears, Hears
    <2>5. QED
      BY <2>2, <2>4 DEF ChatsHear, ConnectionsHear, RequestsHear, SentHear, Hears
  <1>12. ASSUME SendMessage PROVE ChatsHear'
    <2>1. 1 \in DOMAIN batch /\ batch[1] \in Pairs
      BY <1>12, RestOfBatch DEF SendMessage
    <2>2. Hears(batch[1])
      BY <2>1 DEF ChatsHear, BatchHears
    <2>3. \A p \in Pairs : p # batch[1] => sent'[p] = sent[p]
      BY <1>12 DEF SendMessage, DeliveryFields
    <2>4. UNCHANGED <<conns, calls, notices, batch>>
      BY <1>12 DEF SendMessage, Others
    <2>5. SentHear'
      BY <2>2, <2>3, <2>4 DEF ChatsHear, SentHear, Hears
    <2>6. QED
      BY <2>4, <2>5 DEF ChatsHear, ConnectionsHear, RequestsHear, BatchHears, Hears
  <1>13. ASSUME SendRefused \/ RecordDelivery PROVE ChatsHear'
    <2>1. batch' = Tail(batch) /\ UNCHANGED <<conns, calls, notices, sent>> /\ pc # "idle"
      BY <1>13 DEF SendRefused, RecordDelivery, Others
    <2>2. \A i \in DOMAIN batch' : i + 1 \in DOMAIN batch /\ batch'[i] = batch[i + 1]
      BY <2>1, RestOfBatch
    <2>3. BatchHears'
      BY <2>1, <2>2 DEF ChatsHear, BatchHears, Hears
    <2>4. QED
      BY <2>1, <2>3 DEF ChatsHear, ConnectionsHear, RequestsHear, SentHear, Hears
  <1>14. ASSUME Restart PROVE ChatsHear'
    <2>1. PICK r : r = [NewCall EXCEPT !.at = "done"] /\ r.at = "done"
      BY DoneCalls
    <2>2. calls' = [k \in Calls |-> r]
      BY <1>14, <2>1 DEF Restart
    <2>3. batch' = << >> /\ UNCHANGED <<conns, notices, sent>>
      BY <1>14 DEF Restart
    <2>4. RequestsHear'
      BY <2>1, <2>2 DEF RequestsHear
    <2>5. BatchHears'
      BY <2>3 DEF BatchHears
    <2>6. QED
      BY <2>3, <2>4, <2>5 DEF ChatsHear, ConnectionsHear, SentHear, Hears
  <1>15. CASE UNCHANGED deliveryVars
    BY <1>a, <1>15 DEF deliveryVars, dispatchVars
  <1>16. QED
    BY <1>1, <1>2, <1>3, <1>4, <1>6, <1>7, <1>8, <1>9, <1>10, <1>11, <1>12, <1>13, <1>14, <1>15
       DEF DeliveryNext, Dispatch

LEMMA LossesAreNumbers ==
    ASSUME DeliveryFields
    PROVE  /\ \A p \in Pairs : LostOf[p] \in Int
           /\ SumFunctionOnSet(LostOf, Pairs) \in Int /\ IsFiniteSet(Pairs)
  <1>1. \A p \in Pairs : LostOf[p] \in Int
    BY DEF LostOf, DeliveryFields
  <1>2. QED
    BY <1>1, PairsAreFinite, SumType

(* The messages without a record when the one for the pair p is sent, or   *)
(* recorded.                                                               *)
LEMMA LossesChange ==
    ASSUME DeliveryFields, DeliveryFields', NEW p \in Pairs,
           \A q \in Pairs \ {p} : LostOf'[q] = LostOf[q]
    PROVE  SumFunctionOnSet(LostOf, Pairs)' = SumFunctionOnSet(LostOf, Pairs) - LostOf[p] + LostOf'[p]
  <1>1. PICK f, g : f = LostOf /\ g = LostOf'
    OBVIOUS
  <1>2. \A q \in Pairs : f[q] \in Int /\ g[q] \in Int
    <2>1. \A q \in Pairs : LostOf[q] \in Int
      BY LossesAreNumbers
    <2>2. \A q \in Pairs : LostOf'[q] \in Int
      BY DEF LostOf, DeliveryFields
    <2>3. QED
      BY <1>1, <2>1, <2>2
  <1>3. \A q \in Pairs \ {p} : f[q] = g[q]
    BY <1>1
  <1>4. SumFunctionOnSet(g, Pairs) = SumFunctionOnSet(f, Pairs) - f[p] + g[p]
    BY <1>2, <1>3, PairsAreFinite, SumChanges
  <1>5. QED
    BY <1>1, <1>4

LEMMA RecordsFollowKept ==
    ASSUME DeliveryFields, DeliveryFields', RecordsFollow, [DeliveryNext]_deliveryVars
    PROVE  RecordsFollow'
  <1>a. CASE UNCHANGED <<delivered, sent, pc, batch, faults, restarts>>
    BY <1>a DEF RecordsFollow, BatchIsNew, RecordsAreSent, LossesAreFaults, LostOf, Unrecorded
  <1>1. PICK losses : losses = SumFunctionOnSet(LostOf, Pairs)
    OBVIOUS
  <1>2. losses \in Int /\ faults \in Nat /\ restarts \in Nat /\ losses <= faults + restarts + Unrecorded
    BY <1>1, LossesAreNumbers DEF DeliveryFields, RecordsFollow, LossesAreFaults
  <1>3. ASSUME UNCHANGED <<sent, delivered>> PROVE SumFunctionOnSet(LostOf, Pairs)' = losses
    BY <1>1, <1>3 DEF LostOf
  <1>4. ASSUME SelectUndelivered PROVE RecordsFollow'
    <2>1. /\ \A i, j \in DOMAIN batch' : batch'[i] = batch'[j] => i = j
          /\ \A i \in DOMAIN batch' :
                \E n \in Undelivered : batch'[i] = <<n, conns[notices[n].dao].chat>>
      BY <1>4, SelectedBatch
    <2>2. \A n \in Undelivered : <<n, conns[notices[n].dao].chat>> \notin delivered
      BY DEF Undelivered
    <2>3. /\ pc = "idle" /\ pc' = "sending"
          /\ UNCHANGED <<sent, delivered, faults, restarts>>
      BY <1>4 DEF SelectUndelivered, Others
    <2>4. BatchIsNew'
      BY <2>1, <2>2, <2>3 DEF BatchIsNew
    <2>5. RecordsAreSent'
      BY <2>3 DEF RecordsFollow, RecordsAreSent
    <2>6. LossesAreFaults'
      BY <1>2, <1>3, <2>3 DEF LossesAreFaults, Unrecorded
    <2>7. QED
      BY <2>4, <2>5, <2>6 DEF RecordsFollow
  <1>5. ASSUME SendMessage PROVE RecordsFollow'
    <2>1. PICK p \in Pairs : p = batch[1]
      BY <1>5, RestOfBatch DEF SendMessage
    <2>2. /\ pc = "sending" /\ pc' = "recording"
          /\ UNCHANGED <<delivered, batch, faults, restarts>>
          /\ sent' = [sent EXCEPT ![p] = @ + 1]
      BY <1>5, <2>1 DEF SendMessage, Others
    <2>3. sent'[p] = sent[p] + 1 /\ sent[p] \in Nat /\ \A q \in Pairs \ {p} : sent'[q] = sent[q]
      BY <2>2 DEF DeliveryFields
    <2>4. BatchIsNew'
      BY <2>2 DEF RecordsFollow, BatchIsNew
    <2>5. RecordsAreSent'
      BY <2>1, <2>2, <2>3 DEF RecordsFollow, RecordsAreSent
    <2>6. LostOf'[p] = LostOf[p] + 1 /\ LostOf[p] \in Int
          /\ \A q \in Pairs \ {p} : LostOf'[q] = LostOf[q]
      BY <2>2, <2>3 DEF LostOf
    <2>7. SumFunctionOnSet(LostOf, Pairs)' = losses + 1
      <3>1. SumFunctionOnSet(LostOf, Pairs)' = losses - LostOf[p] + LostOf'[p]
        BY <1>1, <2>6, LossesChange
      <3>2. QED
        BY <1>2, <2>6, <3>1
    <2>8. LossesAreFaults'
      BY <1>2, <2>2, <2>7 DEF LossesAreFaults, Unrecorded
    <2>9. QED
      BY <2>4, <2>5, <2>8 DEF RecordsFollow
  <1>6. ASSUME pc # "idle", batch' = Tail(batch), delivered' \subseteq delivered \cup {batch[1]}
        PROVE  BatchIsNew'
    <2>1. /\ 1 \in DOMAIN batch
          /\ \A i \in DOMAIN Tail(batch) :
               i + 1 \in DOMAIN batch /\ i + 1 # 1 /\ Tail(batch)[i] = batch[i + 1] /\ i \in Int
      BY <1>6, RestOfBatch
    <2>2. ASSUME NEW i \in DOMAIN batch', NEW j \in DOMAIN batch', batch'[i] = batch'[j]
          PROVE  i = j
      <3>1. i + 1 = j + 1
        BY <1>6, <2>1, <2>2 DEF RecordsFollow, BatchIsNew
      <3>2. QED
        BY <1>6, <2>1, <3>1
    <2>3. ASSUME NEW i \in DOMAIN batch' PROVE batch'[i] \notin delivered'
      BY <1>6, <2>1 DEF RecordsFollow, BatchIsNew
    <2>4. QED
      BY <2>2, <2>3 DEF BatchIsNew
  <1>7. ASSUME SendRefused PROVE RecordsFollow'
    <2>1. /\ pc = "sending" /\ batch' = Tail(batch) /\ pc' # "recording"
          /\ UNCHANGED <<delivered, sent, restarts>> /\ faults' \in {faults, faults + 1}
      BY <1>7, StagesAfter DEF SendRefused, Others
    <2>2. BatchIsNew'
      BY <1>6, <2>1
    <2>3. RecordsAreSent'
      BY <2>1 DEF RecordsFollow, RecordsAreSent
    <2>4. LossesAreFaults'
      <3>1. Unrecorded = 0 /\ Unrecorded' = 0
        BY <2>1 DEF Unrecorded
      <3>2. SumFunctionOnSet(LostOf, Pairs)' = losses
        BY <1>3, <2>1
      <3>3. PICK f, g, l : f = faults /\ g = restarts /\ l = losses
        OBVIOUS
      <3>4. f \in Nat /\ g \in Nat /\ l \in Int /\ l <= f + g + 0
        BY <1>2, <3>1, <3>3
      <3>5. l <= f + 1 + g + 0
        BY <3>4
      <3>6. (faults' = f \/ faults' = f + 1) /\ restarts' = g
        BY <2>1, <3>3
      <3>7. l <= faults' + restarts' + 0
        BY <3>4, <3>5, <3>6
      <3>8. QED
        BY <3>1, <3>2, <3>3, <3>7 DEF LossesAreFaults
    <2>5. QED
      BY <2>2, <2>3, <2>4 DEF RecordsFollow
  <1>8. ASSUME RecordDelivery PROVE RecordsFollow'
    <2>1. PICK p \in Pairs : p = batch[1] /\ 1 \in DOMAIN batch
      BY <1>8, RestOfBatch DEF RecordDelivery
    <2>2. /\ pc = "recording" /\ batch' = Tail(batch) /\ pc' # "recording"
          /\ UNCHANGED <<sent, restarts>>
          /\ \/ delivered' = delivered \cup {p} /\ UNCHANGED faults
             \/ faults' = faults + 1 /\ UNCHANGED delivered
      BY <1>8, <2>1, StagesAfter DEF RecordDelivery, Others
    <2>3. BatchIsNew'
      BY <1>6, <2>1, <2>2
    <2>4. sent[p] > 0 /\ p \notin delivered
      BY <2>1, <2>2 DEF RecordsFollow, RecordsAreSent, BatchIsNew
    <2>5. RecordsAreSent'
      BY <2>2, <2>4 DEF RecordsFollow, RecordsAreSent
    <2>6. CASE delivered' = delivered \cup {p} /\ UNCHANGED faults
      <3>1. LostOf'[p] = LostOf[p] - 1 /\ LostOf[p] \in Int
            /\ \A q \in Pairs \ {p} : LostOf'[q] = LostOf[q]
        BY <2>2, <2>4, <2>6 DEF LostOf, DeliveryFields
      <3>2. SumFunctionOnSet(LostOf, Pairs)' = losses - LostOf[p] + LostOf'[p]
        BY <1>1, <3>1, LossesChange
      <3>3. SumFunctionOnSet(LostOf, Pairs)' = losses - 1
        BY <1>2, <3>1, <3>2
      <3>4. LossesAreFaults'
        BY <1>2, <2>2, <2>6, <3>3 DEF LossesAreFaults, Unrecorded
      <3>5. QED
        BY <2>3, <2>5, <3>4 DEF RecordsFollow
    <2>7. CASE faults' = faults + 1 /\ UNCHANGED delivered
      <3>1. LossesAreFaults'
        BY <1>2, <1>3, <2>2, <2>7 DEF LossesAreFaults, Unrecorded
      <3>2. QED
        BY <2>3, <2>5, <3>1 DEF RecordsFollow
    <2>8. QED
      BY <2>2, <2>6, <2>7
  <1>9. ASSUME Restart PROVE RecordsFollow'
    <2>1. /\ restarts' = restarts + 1 /\ pc' = "idle" /\ batch' = << >>
          /\ UNCHANGED <<sent, delivered, faults>>
      BY <1>9 DEF Restart
    <2>2. BatchIsNew'
      BY <2>1 DEF BatchIsNew
    <2>3. RecordsAreSent'
      BY <2>1 DEF RecordsFollow, RecordsAreSent
    <2>4. LossesAreFaults'
      BY <1>2, <1>3, <2>1 DEF LossesAreFaults, Unrecorded
    <2>5. QED
      BY <2>2, <2>3, <2>4 DEF RecordsFollow
  <1>10. ASSUME NEW t \in ConnectTokens, BotAdded(t) PROVE RecordsFollow'
    BY <1>a, <1>10 DEF BotAdded, dispatchVars
  <1>11. ASSUME NEW c \in Chats, LoseChat(c) \/ BotRemoved(c) \/ LeaveChat(c) PROVE RecordsFollow'
    BY <1>a, <1>11 DEF LoseChat, BotRemoved, LeaveChat, dispatchVars
  <1>12. ASSUME NEW k \in Calls, NEW t \in ConnectTokens, NEW S \in SUBSET Daos, CheckToken(k, t, S)
         PROVE  RecordsFollow'
    <2>1. UNCHANGED dispatchVars
      BY <1>12 DEF CheckToken
    <2>2. QED
      BY <1>a, <2>1 DEF dispatchVars
  <1>13. ASSUME NEW k \in Calls, BeginConnect(k) \/ CommitConnect(k) PROVE RecordsFollow'
    <2>1. UNCHANGED dispatchVars
      BY <1>13 DEF BeginConnect, CommitConnect
    <2>2. QED
      BY <1>a, <2>1 DEF dispatchVars
  <1>14. ASSUME NEW d \in Daos, Disconnect(d) \/ Notify(d) PROVE RecordsFollow'
    <2>1. UNCHANGED <<delivered, sent, pc, batch, faults, restarts>>
      BY <1>14 DEF Disconnect, Notify, dispatchVars
    <2>2. QED
      BY <1>a, <2>1
  <1>15. CASE UNCHANGED deliveryVars
    BY <1>a, <1>15 DEF deliveryVars, dispatchVars
  <1>16. QED
    BY <1>4, <1>5, <1>7, <1>8, <1>9, <1>10, <1>11, <1>12, <1>13, <1>14, <1>15
       DEF DeliveryNext, Dispatch

LEMMA DeliveryStarts == DeliveryInit => DeliveryInv
  <1> SUFFICES ASSUME DeliveryInit PROVE DeliveryInv
    OBVIOUS
  <1>1. DeliveryFields
    <2>1. \A d \in Daos : [chat |-> Connected[d], at |-> 0] \in Connections
      BY ConnectedAssumption DEF Connections
    <2>2. PICK r \in CallRecords : r = NewCall /\ r.at = "new"
      BY DoneCalls
    <2>3. calls = [k \in Calls |-> r]
      BY <2>2 DEF DeliveryInit
    <2>4. calls \in [Calls -> CallRecords] /\ \A k \in Calls : calls[k].at = "new"
      BY <2>2, <2>3
    <2>5. /\ conns = [d \in Daos |-> [chat |-> Connected[d], at |-> 0]]
          /\ notices = << >> /\ sent = [p \in Pairs |-> 0] /\ pc = "idle" /\ batch = << >>
          /\ faults = 0 /\ restarts = 0
      BY DEF DeliveryInit
    <2>6. conns \in [Daos -> Connections]
      BY <2>1, <2>5
    <2>7. QED
      BY <2>4, <2>5, <2>6, DeliveryBounds DEF DeliveryFields
  <1>2. ChatsHear
    <2>1. notices = << >> /\ batch = << >> /\ \A p \in Pairs : sent[p] = 0
      BY DEF DeliveryInit
    <2>2. QED
      BY <2>1 DEF ChatsHear, ConnectionsHear, RequestsHear, BatchHears, SentHear
  <1>3. RecordsFollow
    <2>1. /\ delivered = {} /\ pc = "idle" /\ batch = << >> /\ faults = 0 /\ restarts = 0
          /\ \A p \in Pairs : sent[p] = 0
      BY DEF DeliveryInit
    <2>2. \A p \in Pairs : LostOf[p] = 0
      BY <2>1 DEF LostOf
    <2>3. SumFunctionOnSet(LostOf, Pairs) = 0
      BY <2>2, PairsAreFinite, SumOfZeros
    <2>4. QED
      BY <2>1, <2>3 DEF RecordsFollow, BatchIsNew, RecordsAreSent, LossesAreFaults, Unrecorded
  <1>4. QED
    BY <1>1, <1>2, <1>3 DEF DeliveryInv

LEMMA DeliveryInvHolds == DeliverySpec => []DeliveryInv
  <1>1. DeliveryInit => DeliveryInv
    BY DeliveryStarts
  <1>2. DeliveryInv /\ [DeliveryNext]_deliveryVars => DeliveryInv'
    <2> SUFFICES ASSUME DeliveryInv, [DeliveryNext]_deliveryVars PROVE DeliveryInv'
      OBVIOUS
    <2>1. DeliveryFields /\ ChatsHear /\ RecordsFollow
      BY DEF DeliveryInv
    <2>2. DeliveryFields'
      BY <2>1, DeliveryFieldsKept
    <2>3. ChatsHear'
      BY <2>1, <2>2, ChatsHearKept
    <2>4. RecordsFollow'
      BY <2>1, <2>2, RecordsFollowKept
    <2>5. QED
      BY <2>2, <2>3, <2>4 DEF DeliveryInv
  <1>3. QED
    BY <1>1, <1>2, PTL DEF DeliverySpec

(* A chat is sent no notification from before it was the treasury's, for   *)
(* whatever batch was read before the connections moved.                   *)
THEOREM NoHistoryIsEverSent == DeliverySpec => []NoHistoryIsSent
  <1>1. DeliveryInv => NoHistoryIsSent
    BY DEF DeliveryInv, ChatsHear, SentHear, Hears, NoHistoryIsSent
  <1>2. QED
    BY <1>1, DeliveryInvHolds, PTL

LEMMA ExtraIsAtMostLost ==
    ASSUME DeliveryFields, RecordsFollow
    PROVE  MapThenSumSet(Extra, Pairs) <= faults + restarts
  <1>1. PICK p : pc = "recording" => p = batch[1] /\ p \in Pairs /\ 1 \in DOMAIN batch
    BY RestOfBatch
  <1>2. PICK late : late = [q \in Pairs |-> LostOf[q] - IF pc = "recording" /\ q = p THEN 1 ELSE 0]
    OBVIOUS
  <1>3. \A q \in Pairs : LostOf[q] \in Int /\ late[q] \in Int /\ ExtraOf[q] \in Int
    BY <1>2, LossesAreNumbers DEF ExtraOf, Extra, DeliveryFields
  <1>4. ASSUME NEW q \in Pairs PROVE ExtraOf[q] <= late[q]
    <2>1. sent[q] \in Nat
      BY DEF DeliveryFields
    <2>2. ExtraOf[q] = IF sent[q] > 0 THEN sent[q] - 1 ELSE 0
      BY DEF ExtraOf, Extra
    <2>3. CASE pc = "recording" /\ q = p
      <3>1. q \notin delivered /\ sent[q] > 0
        BY <1>1, <2>3 DEF RecordsFollow, BatchIsNew, RecordsAreSent
      <3>2. late[q] = sent[q] - 1
        BY <1>2, <2>1, <2>3, <3>1 DEF LostOf
      <3>3. QED
        BY <2>1, <2>2, <3>1, <3>2
    <2>4. CASE ~(pc = "recording" /\ q = p)
      <3>1. late[q] = LostOf[q]
        BY <1>2, <1>3, <2>4
      <3>2. q \in delivered => sent[q] > 0
        BY DEF RecordsFollow, RecordsAreSent
      <3>3. LostOf[q] = sent[q] - IF q \in delivered THEN 1 ELSE 0
        BY DEF LostOf
      <3>4. QED
        BY <2>1, <2>2, <3>1, <3>2, <3>3
    <2>5. QED
      BY <2>3, <2>4
  <1>5. SumFunctionOnSet(ExtraOf, Pairs) <= SumFunctionOnSet(late, Pairs)
    BY <1>3, <1>4, PairsAreFinite, SumIsMonotone
  <1>6. SumFunctionOnSet(late, Pairs) <= faults + restarts
    <2>1. SumFunctionOnSet(LostOf, Pairs) <= faults + restarts + Unrecorded
          /\ SumFunctionOnSet(LostOf, Pairs) \in Int /\ faults \in Nat /\ restarts \in Nat
      BY LossesAreNumbers DEF RecordsFollow, LossesAreFaults, DeliveryFields
    <2>2. CASE pc = "recording"
      <3>1. PICK f : f = LostOf
        OBVIOUS
      <3>2. \A q \in Pairs \ {p} : f[q] = late[q]
        BY <1>2, <1>3, <3>1
      <3>3. SumFunctionOnSet(late, Pairs) = SumFunctionOnSet(f, Pairs) - f[p] + late[p]
        BY <1>1, <1>3, <2>2, <3>1, <3>2, PairsAreFinite, SumChanges
      <3>4. late[p] = f[p] - 1 /\ f[p] \in Int
        BY <1>1, <1>2, <1>3, <2>2, <3>1
      <3>5. SumFunctionOnSet(late, Pairs) = SumFunctionOnSet(LostOf, Pairs) - 1
        BY <2>1, <3>1, <3>3, <3>4
      <3>6. QED
        BY <2>1, <2>2, <3>5 DEF Unrecorded
    <2>3. CASE pc # "recording"
      <3>1. PICK f : f = LostOf
        OBVIOUS
      <3>2. \A q \in Pairs : late[q] = f[q]
        BY <1>2, <1>3, <2>3, <3>1
      <3>3. SumFunctionOnSet(late, Pairs) = SumFunctionOnSet(f, Pairs)
        BY <3>2, PairsAreFinite, SumDependsOnSet
      <3>4. QED
        BY <2>1, <2>3, <3>1, <3>3 DEF Unrecorded
    <2>4. QED
      BY <2>2, <2>3
  <1>7. SumFunctionOnSet(ExtraOf, Pairs) \in Int /\ SumFunctionOnSet(late, Pairs) \in Int
        /\ faults \in Int /\ restarts \in Int
    BY <1>3, PairsAreFinite, SumType DEF DeliveryFields
  <1>8. QED
    BY <1>5, <1>6, <1>7, ExtraIsSummed

(* The messages a chat has more than once are, over all chats and all      *)
(* notifications, no more than the faults and restarts.                    *)
THEOREM DuplicatesStayFaults == DeliverySpec => []DuplicatesAreFaults
  <1>1. DeliveryInv => DuplicatesAreFaults
    BY ExtraIsAtMostLost DEF DeliveryInv, DuplicatesAreFaults
  <1>2. QED
    BY <1>1, DeliveryInvHolds, PTL
=============================================================================
