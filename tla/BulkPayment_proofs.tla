------------------------- MODULE BulkPayment_proofs -------------------------
(***************************************************************************)
(* Proofs about the bulk payment contract, and about the service that      *)
(* submits lists to it and pays them; for any accounts, tokens, lists,     *)
(* requests and bounds.                                                    *)
(***************************************************************************)
EXTENDS BulkPayoutService, Sums

(* A stored list whose records are marked paid keeps its shape. *)
LEMMA MarkPaidType ==
    ASSUME NEW ps \in Seq(PaymentRecord), NEW batch
    PROVE  /\ MarkPaid(ps, batch) \in Seq(PaymentRecord)
           /\ Len(MarkPaid(ps, batch)) = Len(ps)
           /\ DOMAIN MarkPaid(ps, batch) = DOMAIN ps
           /\ \A i \in DOMAIN ps :
                /\ MarkPaid(ps, batch)[i].amount = ps[i].amount
                /\ MarkPaid(ps, batch)[i].status =
                      IF i \in batch THEN "Paid" ELSE ps[i].status
  <1>1. DOMAIN ps = 1..Len(ps) /\ Len(ps) \in Nat
    OBVIOUS
  <1>2. \A i \in 1..Len(ps) : ps[i] \in PaymentRecord
    OBVIOUS
  <1>3. \A i \in 1..Len(ps) : [ps[i] EXCEPT !.status = "Paid"] \in PaymentRecord
    BY <1>2 DEF PaymentRecord
  <1>4. MarkPaid(ps, batch) \in [1..Len(ps) -> PaymentRecord]
    BY <1>1, <1>2, <1>3 DEF MarkPaid
  <1>5. MarkPaid(ps, batch) \in Seq(PaymentRecord)
    BY <1>1, <1>4
  <1>6. Len(MarkPaid(ps, batch)) = Len(ps)
    BY <1>1, <1>4, <1>5
  <1>7. \A i \in DOMAIN ps :
          /\ MarkPaid(ps, batch)[i].amount = ps[i].amount
          /\ MarkPaid(ps, batch)[i].status =
                IF i \in batch THEN "Paid" ELSE ps[i].status
    BY <1>1, <1>2 DEF MarkPaid, PaymentRecord
  <1>8. QED
    BY <1>1, <1>4, <1>5, <1>6, <1>7

(* A freshly submitted list is well formed and has nothing paid. *)
LEMMA NewListType ==
    ASSUME NEW t \in Tokens, NEW ps \in Inputs, NEW a \in Accounts, ps # <<>>
    PROVE  /\ NewList(t, ps, a) \in PaymentList
           /\ Len(NewList(t, ps, a).payments) = Len(ps)
           /\ Len(ps) \in 1..MaxRecords
           /\ DOMAIN NewList(t, ps, a).payments = 1..Len(ps)
           /\ NewList(t, ps, a).submitter = a
           /\ NewList(t, ps, a).status = "Pending"
           /\ \A i \in 1..Len(ps) :
                 NewList(t, ps, a).payments[i].status = "Pending"
  <1>1. ps \in Seq(PaymentInput) /\ Len(ps) <= MaxRecords
    BY InputsAssumption
  <1>2. DOMAIN ps = 1..Len(ps) /\ Len(ps) \in Nat /\ Len(ps) # 0
    BY <1>1
  <1> DEFINE rec(i) == [recipient |-> ps[i].recipient,
                        amount |-> ps[i].amount, status |-> "Pending"]
             qs == [i \in DOMAIN ps |-> rec(i)]
  <1>3. /\ qs \in [1..Len(ps) -> PaymentRecord]
        /\ NewList(t, ps, a) = [token |-> t, submitter |-> a,
                                status |-> "Pending", payments |-> qs]
    <2>1. \A i \in 1..Len(ps) : ps[i] \in PaymentInput
      BY <1>1, <1>2
    <2>2. \A i \in 1..Len(ps) : rec(i) \in PaymentRecord
      BY <2>1 DEF PaymentInput, PaymentRecord
    <2>3. QED
      BY <1>2, <2>2 DEF NewList
  <1>4. qs \in Seq(PaymentRecord) /\ Len(qs) = Len(ps)
    BY <1>2, <1>3
  <1>5. NewList(t, ps, a) \in PaymentList
    BY <1>3, <1>4 DEF PaymentList
  <1>6. \A i \in 1..Len(ps) : qs[i].status = "Pending"
    BY <1>2
  <1>7. Len(ps) \in 1..MaxRecords
    BY <1>1, <1>2, BoundsAssumption
  <1>8. QED
    BY <1>3, <1>4, <1>5, <1>6, <1>7

-----------------------------------------------------------------------------
(* The inductive invariant.  A transfer is settled by looking its payment  *)
(* up again, so types alone are not inductive: that the payment is there   *)
(* is part of PaidExactlyOnce.                                             *)
IInv == TypeOK /\ PaidExactlyOnce

ListsOK(ls) ==
    /\ ls \in [ListIds -> PaymentList \cup {NoList}]
    /\ \A l \in ListIds : ls[l] # NoList => Len(ls[l].payments) \in 1..MaxRecords

LEMMA ListFacts ==
    ASSUME TypeOK, NEW l \in ListIds, Exists(l)
    PROVE  /\ lists[l] \in PaymentList
           /\ lists[l].payments \in Seq(PaymentRecord)
           /\ DOMAIN lists[l].payments \subseteq 1..MaxRecords
           /\ \A i \in DOMAIN lists[l].payments :
                 /\ lists[l].payments[i] \in PaymentRecord
                 /\ <<l, i>> \in Slots
  <1>1. lists[l] \in PaymentList
    BY DEF TypeOK, Exists
  <1>2. lists[l].payments \in Seq(PaymentRecord)
    BY <1>1 DEF PaymentList
  <1>3. DOMAIN lists[l].payments = 1..Len(lists[l].payments)
    BY <1>2
  <1>4. Len(lists[l].payments) \in 1..MaxRecords
    BY DEF TypeOK, Exists
  <1>5. DOMAIN lists[l].payments \subseteq 1..MaxRecords
    BY <1>3, <1>4, BoundsAssumption
  <1>6. QED
    BY <1>1, <1>2, <1>3, <1>5 DEF Slots

(* approve_list, the two token callbacks and reject_list decide a pending  *)
(* list and touch nothing else of it.                                      *)
LEMMA DecideList ==
    ASSUME IInv, NEW l \in ListIds, HasStatus(l, "Pending"),
           NEW st \in {"Approved", "Rejected"}, SetStatus(l, st),
           UNCHANGED promises
    PROVE  ListsOK(lists') /\ PaidExactlyOnce'
  <1>1. Exists(l) /\ lists[l] \in PaymentList /\ lists[l].status = "Pending"
    BY ListFacts DEF IInv, HasStatus
  <1>2. /\ [lists[l] EXCEPT !.status = st] \in PaymentList
        /\ [lists[l] EXCEPT !.status = st].payments = lists[l].payments
        /\ [lists[l] EXCEPT !.status = st].status = st
    BY <1>1 DEF PaymentList
  <1>3. lists' = [lists EXCEPT ![l] = [lists[l] EXCEPT !.status = st]]
    BY DEF SetStatus
  <1>4. /\ lists \in [ListIds -> PaymentList \cup {NoList}]
        /\ lists' \in [ListIds -> PaymentList \cup {NoList}]
        /\ lists'[l] = [lists[l] EXCEPT !.status = st]
        /\ lists'[l] # NoList
        /\ \A k \in ListIds \ {l} : lists'[k] = lists[k]
    BY <1>2, <1>3, NoListAssumption DEF IInv, TypeOK
  <1>5. ListsOK(lists')
    BY <1>1, <1>2, <1>4 DEF ListsOK, IInv, TypeOK, Exists
  <1>6. \A s \in Slots : IsPaid(s) => s[1] # l
    BY <1>1 DEF IInv, PaidExactlyOnce
  <1>7. ASSUME NEW s \in Slots
        PROVE  IsPaid(s)' = IsPaid(s)
    <2>1. s[1] \in ListIds
      BY DEF Slots
    <2>2. /\ (lists'[s[1]] # NoList) = (lists[s[1]] # NoList)
          /\ lists'[s[1]].payments = lists[s[1]].payments
      BY <1>1, <1>2, <1>4, <2>1 DEF Exists
    <2>3. QED
      BY <2>2 DEF IsPaid, SlotExists, Exists
  <1>8. \A s \in Slots : Started(s)' = Started(s)
    BY DEF Started
  <1>9. \A s \in Slots : IsPaid(s)' => lists'[s[1]].status = "Approved"
    BY <1>4, <1>6, <1>7 DEF IInv, PaidExactlyOnce, Slots
  <1>10. QED
    BY <1>5, <1>7, <1>8, <1>9 DEF IInv, PaidExactlyOnce

(* A list is stored under an id that has none.                             *)
LEMMA StoreList ==
    ASSUME IInv, NEW a \in Accounts, NEW l \in ListIds, NEW t \in Tokens,
           NEW ps \in Inputs, ps # <<>>, ~Exists(l),
           lists' = [lists EXCEPT ![l] = NewList(t, ps, a)],
           UNCHANGED promises
    PROVE  /\ ListsOK(lists') /\ PaidExactlyOnce'
           /\ \A m \in ListIds : Exists(m) => Exists(m)' /\ KeepsDecision(m)
           /\ Exists(l)'
  <1> DEFINE nl == NewList(t, ps, a)
  <1>1. /\ nl \in PaymentList
        /\ Len(nl.payments) \in 1..MaxRecords
        /\ \A i \in DOMAIN nl.payments : nl.payments[i].status = "Pending"
    BY NewListType
  <1>2. lists \in [ListIds -> PaymentList \cup {NoList}]
    BY DEF IInv, TypeOK
  <1> HIDE DEF nl
  <1>3. /\ lists' \in [ListIds -> PaymentList \cup {NoList}]
        /\ lists'[l] = nl /\ nl # NoList
        /\ \A k \in ListIds \ {l} : lists'[k] = lists[k]
    BY <1>1, <1>2, NoListAssumption DEF nl
  <1>4. ListsOK(lists')
    BY <1>1, <1>3 DEF IInv, TypeOK, ListsOK
  <1>5. ASSUME NEW s \in Slots
        PROVE  /\ IsPaid(s)' = IsPaid(s)
               /\ IsPaid(s)' => lists'[s[1]].status = "Approved"
    <2>1. s[1] \in ListIds
      BY DEF Slots
    <2>2. CASE s[1] = l
      BY <1>1, <1>3, <2>2 DEF IsPaid, SlotExists, Exists
    <2>3. CASE s[1] # l
      BY <1>3, <2>1, <2>3
         DEF IsPaid, SlotExists, Exists, IInv, PaidExactlyOnce
    <2>4. QED
      BY <2>2, <2>3
  <1>6. \A s \in Slots : Started(s)' = Started(s)
    BY DEF Started
  <1>7. PaidExactlyOnce'
    BY <1>5, <1>6 DEF IInv, PaidExactlyOnce
  <1>8. \A m \in ListIds : Exists(m) => Exists(m)' /\ KeepsDecision(m)
    BY <1>3 DEF Exists, KeepsDecision
  <1>9. QED
    BY <1>3, <1>4, <1>7, <1>8 DEF Exists

LEMMA SubmitPreserves ==
    ASSUME IInv, NEW c \in Accounts, NEW a \in Accounts, NEW l \in ListIds,
           NEW t \in Tokens, NEW ps \in Inputs, SubmitList(c, a, l, t, ps)
    PROVE  IInv'
  <1>1. /\ ~Exists(l) /\ ps # <<>> /\ credits[a] >= Len(ps)
        /\ credits' = [credits EXCEPT ![a] = @ - Len(ps)]
        /\ lists' = [lists EXCEPT ![l] = NewList(t, ps, a)]
        /\ UNCHANGED <<bought, promises, funds>>
    BY DEF SubmitList, CanSubmit
  <1>2. Len(ps) \in Nat
    BY <1>1, NewListType, BoundsAssumption
  <1>3. credits' \in [Accounts -> Nat]
    BY <1>1, <1>2 DEF IInv, TypeOK
  <1>4. ListsOK(lists') /\ PaidExactlyOnce'
    BY <1>1, StoreList
  <1>5. QED
    BY <1>1, <1>3, <1>4 DEF IInv, TypeOK, ListsOK

LEMMA BatchIsPending ==
    ASSUME NEW l, NEW k, NEW i \in Batch(l, k)
    PROVE  /\ i \in DOMAIN lists[l].payments
           /\ lists[l].payments[i].status = "Pending"
  BY DEF Batch, PendingOf

LEMMA PayoutPreserves ==
    ASSUME IInv, NEW l \in ListIds, NEW k, PayoutBatch(l, k)
    PROVE  IInv'
  <1> DEFINE B == Batch(l, k)
             ps == lists[l].payments
             qs == MarkPaid(ps, B)
  <1>1. /\ Exists(l) /\ lists[l].status = "Approved"
        /\ lists' = [lists EXCEPT ![l].payments = qs]
        /\ promises' = [s \in Slots |->
              IF s[1] = l /\ s[2] \in B
              THEN [promises[s] EXCEPT !["inflight"] = @ + 1] ELSE promises[s]]
        /\ UNCHANGED <<credits, bought, funds>>
    BY DEF PayoutBatch, HasStatus
  <1>2. /\ lists[l] \in PaymentList
        /\ ps \in Seq(PaymentRecord)
        /\ DOMAIN ps \subseteq 1..MaxRecords
        /\ Len(ps) \in 1..MaxRecords
    BY <1>1, ListFacts DEF IInv, TypeOK, Exists
  <1>3. /\ qs \in Seq(PaymentRecord)
        /\ Len(qs) = Len(ps)
        /\ DOMAIN qs = DOMAIN ps
        /\ \A i \in DOMAIN ps :
              qs[i].status = IF i \in B THEN "Paid" ELSE ps[i].status
    BY <1>2, MarkPaidType
  <1>4. \A i \in B : i \in DOMAIN ps /\ ps[i].status = "Pending"
    BY BatchIsPending
  <1> HIDE DEF B, qs
  <1>5. /\ [lists[l] EXCEPT !.payments = qs] \in PaymentList
        /\ [lists[l] EXCEPT !.payments = qs].payments = qs
        /\ [lists[l] EXCEPT !.payments = qs].status = "Approved"
    BY <1>1, <1>2, <1>3 DEF PaymentList
  <1>6. lists' = [lists EXCEPT ![l] = [lists[l] EXCEPT !.payments = qs]]
    BY <1>1
  <1>7. /\ lists' \in [ListIds -> PaymentList \cup {NoList}]
        /\ lists'[l] = [lists[l] EXCEPT !.payments = qs]
        /\ lists'[l] # NoList
        /\ \A m \in ListIds \ {l} : lists'[m] = lists[m]
    BY <1>5, <1>6, NoListAssumption DEF IInv, TypeOK
  <1>8. ASSUME NEW s \in Slots
        PROVE  promises'[s] \in [Outcomes -> Nat]
    <2>1. promises[s] \in [Outcomes -> Nat]
      BY DEF IInv, TypeOK
    <2>2. [promises[s] EXCEPT !["inflight"] = @ + 1] \in [Outcomes -> Nat]
      BY <2>1 DEF Outcomes
    <2>3. QED
      BY <1>1, <2>1, <2>2
  <1>9. TypeOK'
    <2>1. promises' \in [Slots -> [Outcomes -> Nat]]
      BY <1>1, <1>8
    <2>2. \A m \in ListIds :
             lists'[m] # NoList => Len(lists'[m].payments) \in 1..MaxRecords
      BY <1>2, <1>3, <1>5, <1>7 DEF IInv, TypeOK
    <2>3. QED
      BY <1>1, <1>7, <2>1, <2>2 DEF IInv, TypeOK
  <1>10. ASSUME NEW s \in Slots
         PROVE  /\ Started(s)' = IF IsPaid(s)' THEN 1 ELSE 0
                /\ IsPaid(s)' => lists'[s[1]].status = "Approved"
    <2>1. /\ s[1] \in ListIds /\ s = <<s[1], s[2]>>
          /\ promises[s] \in [Outcomes -> Nat]
          /\ Started(s) = IF IsPaid(s) THEN 1 ELSE 0
          /\ IsPaid(s) => lists[s[1]].status = "Approved"
      BY DEF Slots, IInv, TypeOK, PaidExactlyOnce
    <2>2. CASE s[1] # l
      <3>1. promises'[s] = promises[s] /\ lists'[s[1]] = lists[s[1]]
        BY <1>1, <1>7, <2>1, <2>2
      <3>2. Started(s)' = Started(s)
        BY <3>1 DEF Started
      <3>3. IsPaid(s)' = IsPaid(s)
        BY <3>1 DEF IsPaid, SlotExists, Exists
      <3>4. QED
        BY <2>1, <3>1, <3>2, <3>3
    <2>3. CASE s[1] = l /\ s[2] \in B
      <3>1. ~IsPaid(s)
        BY <1>4, <2>3 DEF IsPaid
      <3>2. promises'[s] = [promises[s] EXCEPT !["inflight"] = @ + 1]
        BY <1>1, <2>3
      <3>3. Started(s)' = Started(s) + 1
        BY <2>1, <3>2 DEF Started, Outcomes
      <3>4. IsPaid(s)' /\ lists'[s[1]].status = "Approved"
        <4>1. /\ lists'[s[1]] # NoList
              /\ lists'[s[1]].payments = qs
              /\ lists'[s[1]].status = "Approved"
          BY <1>5, <1>7, <2>3
        <4>2. s[2] \in DOMAIN qs /\ qs[s[2]].status = "Paid"
          BY <1>3, <1>4, <2>3
        <4>3. QED
          BY <4>1, <4>2 DEF IsPaid, SlotExists, Exists
      <3>5. QED
        BY <2>1, <3>1, <3>3, <3>4
    <2>4. CASE s[1] = l /\ s[2] \notin B
      <3>1. promises'[s] = promises[s]
        BY <1>1, <2>4
      <3>2. Started(s)' = Started(s)
        BY <3>1 DEF Started
      <3>3. IsPaid(s)' = IsPaid(s) /\ lists'[s[1]].status = "Approved"
        BY <1>1, <1>3, <1>5, <1>7, <2>4 DEF IsPaid, SlotExists, Exists
      <3>4. QED
        BY <2>1, <3>2, <3>3
    <2>5. QED
      BY <2>2, <2>3, <2>4
  <1>11. QED
    BY <1>9, <1>10 DEF IInv, PaidExactlyOnce

(* A transfer that runs moves one promise from inflight to its outcome.    *)
LEMMA SettlePreserves ==
    ASSUME IInv, NEW s \in Slots, NEW o \in {"delivered", "bounced"},
           promises[s]["inflight"] > 0,
           promises' = [promises EXCEPT ![s]["inflight"] = @ - 1,
                                        ![s][o] = @ + 1],
           UNCHANGED <<lists, credits, bought>>, funds' \in [Tokens -> Int]
    PROVE  IInv'
  <1> DEFINE p == [promises[s] EXCEPT !["inflight"] = @ - 1, ![o] = @ + 1]
  <1>1. promises[s] \in [Outcomes -> Nat]
    BY DEF IInv, TypeOK
  <1>2. p \in [Outcomes -> Nat]
    BY <1>1 DEF Outcomes
  <1>3. p["inflight"] + p["delivered"] + p["bounced"]
           = promises[s]["inflight"] + promises[s]["delivered"]
                + promises[s]["bounced"]
    BY <1>1 DEF Outcomes
  <1>4. promises' = [promises EXCEPT ![s] = p]
    BY DEF IInv, TypeOK
  <1> HIDE DEF p
  <1>5. promises' \in [Slots -> [Outcomes -> Nat]]
    BY <1>2, <1>4 DEF IInv, TypeOK
  <1>6. TypeOK'
    BY <1>5 DEF IInv, TypeOK
  <1>7. \A r \in Slots : Started(r)' = Started(r)
    BY <1>3, <1>4 DEF Started, IInv, TypeOK
  <1>8. \A r \in Slots : IsPaid(r)' = IsPaid(r)
    BY DEF IsPaid, SlotExists, Exists
  <1>9. PaidExactlyOnce'
    BY <1>7, <1>8 DEF IInv, PaidExactlyOnce
  <1>10. QED
    BY <1>6, <1>9 DEF IInv

LEMMA FundListPreserves ==
    ASSUME IInv, NEW l \in ListIds, FundList(l)
    PROVE  IInv'
  <1>1. PICK amount \in Amounts, sender \in Accounts :
           /\ Exists(l)
           /\ \/ ApproveList(sender, l, amount, ProposalToken(l))
              \/ FtOnTransfer(sender, l, amount, ProposalToken(l))
              \/ MtOnTransfer(l, amount, ProposalToken(l))
    BY DEF FundList
  <1>2. /\ HasStatus(l, "Pending") /\ SetStatus(l, "Approved")
        /\ funds' = [funds EXCEPT ![ProposalToken(l)] = @ + amount]
        /\ UNCHANGED <<credits, bought, promises>>
    BY <1>1 DEF ApproveList, FtOnTransfer, MtOnTransfer
  <1>3. funds' \in [Tokens -> Int]
    <2>1. ProposalToken(l) \in Tokens
      BY <1>1, ListFacts DEF IInv, ProposalToken, PaymentList
    <2>2. amount \in Int
      BY BoundsAssumption DEF Amounts
    <2>3. funds \in [Tokens -> Int]
      BY DEF IInv, TypeOK
    <2>4. QED
      BY <1>2, <2>1, <2>2, <2>3
  <1>4. ListsOK(lists') /\ PaidExactlyOnce'
    BY <1>2, DecideList
  <1>5. QED
    BY <1>2, <1>3, <1>4 DEF IInv, TypeOK, ListsOK

LEMMA InitIInv == Init => IInv
  <1> SUFFICES ASSUME Init PROVE IInv
    OBVIOUS
  <1>1. TypeOK
    BY DEF Init, TypeOK, Outcomes
  <1>2. PaidExactlyOnce
    BY DEF Init, PaidExactlyOnce, Started, Outcomes, IsPaid, SlotExists,
           Exists, Slots
  <1>3. QED
    BY <1>1, <1>2 DEF IInv

LEMMA NextIInv == IInv /\ [Next]_contractVars => IInv'
  <1> SUFFICES ASSUME IInv, [Next]_contractVars PROVE IInv'
    OBVIOUS
  <1>1. CASE UNCHANGED contractVars
    BY <1>1 DEF contractVars, IInv, TypeOK, PaidExactlyOnce, Started, IsPaid,
               SlotExists, Exists
  <1>2. ASSUME NEW a \in Accounts, NEW n \in 1..MaxRecords, BuyStorage(a, n)
        PROVE  IInv'
    BY <1>2, BoundsAssumption
       DEF BuyStorage, IInv, TypeOK, PaidExactlyOnce, Started, IsPaid,
           SlotExists, Exists
  <1>3. ASSUME NEW c \in Accounts, NEW a \in Accounts, NEW l \in ListIds,
               NEW t \in Tokens, NEW ps \in Inputs,
               SubmitList(c, a, l, t, ps)
        PROVE  IInv'
    BY <1>3, SubmitPreserves
  <1>4. ASSUME NEW l \in ListIds, FundList(l)
        PROVE  IInv'
    BY <1>4, FundListPreserves
  <1>5. ASSUME NEW a \in Accounts, NEW l \in ListIds, RejectList(a, l)
        PROVE  IInv'
    <2>1. /\ HasStatus(l, "Pending") /\ SetStatus(l, "Rejected")
          /\ UNCHANGED <<credits, bought, promises, funds>>
      BY <1>5 DEF RejectList
    <2>2. ListsOK(lists') /\ PaidExactlyOnce'
      BY <2>1, DecideList
    <2>3. QED
      BY <2>1, <2>2 DEF IInv, TypeOK, ListsOK
  <1>6. ASSUME NEW l \in ListIds, NEW k \in 1..MaxRecords, PayoutBatch(l, k)
        PROVE  IInv'
    BY <1>6, PayoutPreserves
  <1>7. ASSUME NEW s \in Slots, DeliverTransfer(s)
        PROVE  IInv'
    <2>1. /\ promises[s]["inflight"] > 0
          /\ promises' = [promises EXCEPT ![s]["inflight"] = @ - 1,
                                          ![s]["delivered"] = @ + 1]
          /\ funds' = [funds EXCEPT ![SlotToken(s)] = @ - SlotAmount(s)]
          /\ UNCHANGED <<lists, credits, bought>>
      BY <1>7 DEF DeliverTransfer
    <2>2. IsPaid(s) /\ s[1] \in ListIds
      <3>1. promises[s] \in [Outcomes -> Nat]
        BY DEF IInv, TypeOK
      <3>2. Started(s) # 0
        BY <2>1, <3>1 DEF Started, Outcomes
      <3>3. QED
        BY <3>2 DEF IInv, PaidExactlyOnce, Slots
    <2>3. SlotAmount(s) \in Int
      <3>1. lists[s[1]].payments[s[2]] \in PaymentRecord
        BY <2>2, ListFacts DEF IInv, IsPaid, SlotExists
      <3>2. QED
        BY <3>1, BoundsAssumption DEF SlotAmount, PaymentRecord, Amounts
    <2>4. funds' \in [Tokens -> Int]
      <3>1. SlotToken(s) \in Tokens
        BY <2>2, ListFacts DEF IInv, IsPaid, SlotExists, SlotToken, PaymentList
      <3>2. funds \in [Tokens -> Int]
        BY DEF IInv, TypeOK
      <3>3. QED
        BY <2>1, <2>3, <3>1, <3>2
    <2>5. QED
      BY <2>1, <2>4, SettlePreserves
  <1>8. ASSUME NEW s \in Slots, BounceTransfer(s)
        PROVE  IInv'
    <2>1. /\ promises[s]["inflight"] > 0
          /\ promises' = [promises EXCEPT ![s]["inflight"] = @ - 1,
                                          ![s]["bounced"] = @ + 1]
          /\ UNCHANGED <<lists, credits, bought, funds>>
      BY <1>8 DEF BounceTransfer
    <2>2. funds' \in [Tokens -> Int]
      BY <2>1 DEF IInv, TypeOK
    <2>3. QED
      BY <2>1, <2>2, SettlePreserves
  <1>9. QED
    BY <1>1, <1>2, <1>3, <1>4, <1>5, <1>6, <1>7, <1>8
       DEF Next, Call, Network

(* The contract's state stays well typed: in particular credits never go   *)
(* negative and a stored list always has a record.                         *)
THEOREM TypeCorrect == Spec => []TypeOK
  <1>1. IInv => TypeOK
    BY DEF IInv
  <1>2. QED
    BY InitIInv, NextIInv, <1>1, PTL DEF Spec

(* Whoever calls payout_batch, in whatever order and with whatever gas,    *)
(* every payment's transfer is started at most once, exactly when its      *)
(* record says Paid, and only for an approved list.                        *)
THEOREM PaymentsStartOnce == Spec => []PaidExactlyOnce
  <1>1. IInv => PaidExactlyOnce
    BY DEF IInv
  <1>2. QED
    BY InitIInv, NextIInv, <1>1, PTL DEF Spec

-----------------------------------------------------------------------------
(* No call undoes a decision *)

LEMMA DecideKeeps ==
    ASSUME IInv, NEW l \in ListIds, HasStatus(l, "Pending"),
           NEW st \in {"Approved", "Rejected"}, SetStatus(l, st)
    PROVE  \A m \in ListIds : Exists(m) => Exists(m)' /\ KeepsDecision(m)
  <1>1. Exists(l) /\ lists[l] \in PaymentList /\ lists[l].status = "Pending"
    BY ListFacts DEF IInv, HasStatus
  <1>2. /\ [lists[l] EXCEPT !.status = st] \in PaymentList
        /\ [lists[l] EXCEPT !.status = st].payments = lists[l].payments
        /\ [lists[l] EXCEPT !.status = st].token = lists[l].token
        /\ [lists[l] EXCEPT !.status = st].submitter = lists[l].submitter
    BY <1>1 DEF PaymentList
  <1>3. /\ lists'[l] = [lists[l] EXCEPT !.status = st]
        /\ \A m \in ListIds \ {l} : lists'[m] = lists[m]
    BY DEF SetStatus, IInv, TypeOK
  <1>4. lists'[l] # NoList
    BY <1>2, <1>3, NoListAssumption
  <1>5. ASSUME NEW m \in ListIds, Exists(m)
        PROVE  Exists(m)' /\ KeepsDecision(m)
    <2>1. CASE m = l
      BY <1>1, <1>2, <1>3, <1>4, <2>1 DEF KeepsDecision, Exists
    <2>2. CASE m # l
      BY <1>3, <1>5, <2>2 DEF KeepsDecision, Exists
    <2>3. QED
      BY <2>1, <2>2
  <1>6. QED
    BY <1>5

LEMMA PayoutKeeps ==
    ASSUME IInv, NEW l \in ListIds, NEW k, PayoutBatch(l, k)
    PROVE  /\ \A m \in ListIds : Exists(m) => Exists(m)' /\ KeepsDecision(m)
           /\ lists[l].status = "Approved" /\ lists'[l].status = "Approved"
           /\ lists'[l].payments = MarkPaid(lists[l].payments, Batch(l, k))
           /\ \A m \in ListIds \ {l} : lists'[m] = lists[m]
  <1> DEFINE ps == lists[l].payments
             qs == MarkPaid(ps, Batch(l, k))
  <1>1. /\ Exists(l) /\ lists[l].status = "Approved"
        /\ lists' = [lists EXCEPT ![l].payments = qs]
    BY DEF PayoutBatch, HasStatus
  <1>2. lists[l] \in PaymentList /\ ps \in Seq(PaymentRecord)
    BY <1>1, ListFacts DEF IInv
  <1>3. /\ qs \in Seq(PaymentRecord)
        /\ DOMAIN qs = DOMAIN ps
        /\ \A i \in DOMAIN ps :
              /\ qs[i].amount = ps[i].amount
              /\ ps[i].status = "Paid" => qs[i].status = "Paid"
    BY <1>2, MarkPaidType
  <1> HIDE DEF qs
  <1>4. /\ [lists[l] EXCEPT !.payments = qs] \in PaymentList
        /\ [lists[l] EXCEPT !.payments = qs].payments = qs
        /\ [lists[l] EXCEPT !.payments = qs].status = "Approved"
        /\ [lists[l] EXCEPT !.payments = qs].token = lists[l].token
        /\ [lists[l] EXCEPT !.payments = qs].submitter = lists[l].submitter
    BY <1>1, <1>2, <1>3 DEF PaymentList
  <1>5. /\ lists'[l] = [lists[l] EXCEPT !.payments = qs]
        /\ \A m \in ListIds \ {l} : lists'[m] = lists[m]
    BY <1>1 DEF IInv, TypeOK
  <1>6. lists'[l] # NoList
    BY <1>4, <1>5, NoListAssumption
  <1>7. ASSUME NEW m \in ListIds, Exists(m)
        PROVE  Exists(m)' /\ KeepsDecision(m)
    <2>1. CASE m = l
      BY <1>1, <1>3, <1>4, <1>5, <1>6, <2>1 DEF KeepsDecision, Exists
    <2>2. CASE m # l
      BY <1>5, <1>7, <2>2 DEF KeepsDecision, Exists
    <2>3. QED
      BY <2>1, <2>2
  <1>8. QED
    BY <1>1, <1>4, <1>5, <1>7 DEF qs

LEMMA SubmitKeeps ==
    ASSUME IInv, NEW c, NEW a \in Accounts, NEW l \in ListIds,
           NEW t \in Tokens, NEW ps \in Inputs, SubmitList(c, a, l, t, ps)
    PROVE  /\ \A m \in ListIds : Exists(m) => Exists(m)' /\ KeepsDecision(m)
           /\ ~Exists(l)
           /\ lists'[l] = NewList(t, ps, a) /\ lists'[l] # NoList
           /\ \A m \in ListIds \ {l} : lists'[m] = lists[m]
  <1>1. ~Exists(l) /\ ps # <<>> /\ lists' = [lists EXCEPT ![l] = NewList(t, ps, a)]
    BY DEF SubmitList, CanSubmit
  <1>2. /\ lists'[l] = NewList(t, ps, a)
        /\ \A m \in ListIds \ {l} : lists'[m] = lists[m]
    BY <1>1 DEF IInv, TypeOK
  <1>3. lists'[l] # NoList
    BY <1>1, <1>2, NewListType, NoListAssumption
  <1>4. \A m \in ListIds : Exists(m) => Exists(m)' /\ KeepsDecision(m)
    BY <1>1, <1>2 DEF Exists, KeepsDecision
  <1>5. QED
    BY <1>1, <1>2, <1>3, <1>4

(* Every step but a submission leaves the set of stored lists as it is.    *)
LEMMA StepKeeps ==
    ASSUME IInv, Next
    PROVE  \/ \E c, a \in Accounts, l \in ListIds, t \in Tokens, ps \in Inputs :
                 SubmitList(c, a, l, t, ps)
           \/ /\ \A m \in ListIds : Exists(m)' = Exists(m)
              /\ \A m \in ListIds : Exists(m) => KeepsDecision(m)
  <1>1. ASSUME UNCHANGED lists
        PROVE  /\ \A m \in ListIds : Exists(m)' = Exists(m)
               /\ \A m \in ListIds : Exists(m) => KeepsDecision(m)
    BY <1>1 DEF Exists, KeepsDecision
  <1>2. ASSUME NEW l \in ListIds, FundList(l) \/ \E a \in Accounts : RejectList(a, l)
        PROVE  /\ \A m \in ListIds : Exists(m)' = Exists(m)
               /\ \A m \in ListIds : Exists(m) => KeepsDecision(m)
    <2>1. /\ HasStatus(l, "Pending")
          /\ SetStatus(l, "Approved") \/ SetStatus(l, "Rejected")
      BY <1>2 DEF FundList, ApproveList, FtOnTransfer, MtOnTransfer, RejectList
    <2>2. \A m \in ListIds : Exists(m) => Exists(m)' /\ KeepsDecision(m)
      BY <2>1, DecideKeeps
    <2>3. \A m \in ListIds : Exists(m)' => Exists(m)
      BY <2>1 DEF SetStatus, Exists, HasStatus, IInv, TypeOK
    <2>4. QED
      BY <2>2, <2>3 DEF Exists
  <1>3. ASSUME NEW l \in ListIds, NEW k \in 1..MaxRecords, PayoutBatch(l, k)
        PROVE  /\ \A m \in ListIds : Exists(m)' = Exists(m)
               /\ \A m \in ListIds : Exists(m) => KeepsDecision(m)
    <2>1. /\ \A m \in ListIds : Exists(m) => Exists(m)' /\ KeepsDecision(m)
          /\ Exists(l)
          /\ \A m \in ListIds \ {l} : lists'[m] = lists[m]
      BY <1>3, PayoutKeeps DEF PayoutBatch, HasStatus
    <2>2. QED
      BY <2>1 DEF Exists
  <1>4. QED
    BY <1>1, <1>2, <1>3
       DEF Next, Call, Network, BuyStorage, DeliverTransfer, BounceTransfer

(* What was submitted is what is approved and paid; a decision and a       *)
(* payment are never taken back.                                           *)
THEOREM DecisionsStand == Spec => DecisionsAreFinal
  <1>1. IInv /\ [Next]_contractVars =>
           [\A l \in ListIds : Exists(l) => KeepsDecision(l)]_lists
    <2> SUFFICES ASSUME IInv, Next
                 PROVE  \A l \in ListIds : Exists(l) => KeepsDecision(l)
      BY DEF contractVars
    <2>1. QED
      BY StepKeeps, SubmitKeeps
  <1>2. QED
    BY InitIInv, NextIInv, <1>1, PTL DEF Spec, DecisionsAreFinal

-----------------------------------------------------------------------------
(* Credits: counted with the records stored for an account, which are      *)
(* finitely many although the set of list ids need not be.                 *)
CreditInv ==
    \A a \in Accounts : /\ IsFiniteSet(RecordsOf(a))
                        /\ bought[a] = credits[a] + Cardinality(RecordsOf(a))

LEMMA RecordsUnchanged ==
    ASSUME \A m \in ListIds : Exists(m)' = Exists(m),
           \A m \in ListIds : Exists(m) => KeepsDecision(m), NEW a
    PROVE  RecordsOf(a)' = RecordsOf(a)
  <1>1. ASSUME NEW s \in Slots
        PROVE  /\ SlotExists(s)' = SlotExists(s)
               /\ SlotExists(s) => lists'[s[1]].submitter = lists[s[1]].submitter
    BY DEF SlotExists, KeepsDecision, Slots
  <1>2. QED
    BY <1>1 DEF RecordsOf

(* The payments a submission creates. *)
NewSlots(l, ps) == {l} \X (1..Len(ps))

(* A submission adds as many records to its account as credits it takes.   *)
LEMMA SubmitAddsRecords ==
    ASSUME IInv, NEW c, NEW a \in Accounts, NEW l \in ListIds,
           NEW t \in Tokens, NEW ps \in Inputs, SubmitList(c, a, l, t, ps)
    PROVE  /\ RecordsOf(a)' = RecordsOf(a) \cup NewSlots(l, ps)
           /\ RecordsOf(a) \cap NewSlots(l, ps) = {}
           /\ \A b \in Accounts \ {a} : RecordsOf(b)' = RecordsOf(b)
           /\ IsFiniteSet(NewSlots(l, ps))
           /\ Cardinality(NewSlots(l, ps)) = Len(ps)
  <1> DEFINE new == NewSlots(l, ps)
  <1> USE DEF NewSlots
  <1>1. /\ ~Exists(l)
        /\ lists'[l] = NewList(t, ps, a) /\ lists'[l] # NoList
        /\ \A m \in ListIds \ {l} : lists'[m] = lists[m]
    BY SubmitKeeps
  <1>2. /\ ps # <<>> /\ DOMAIN lists'[l].payments = 1..Len(ps)
        /\ lists'[l].submitter = a /\ Len(ps) \in 1..MaxRecords
    BY <1>1, NewListType DEF SubmitList, CanSubmit
  <1>3. new \subseteq Slots
    BY <1>2, BoundsAssumption DEF Slots
  <1>4. ASSUME NEW s \in Slots, NEW b \in Accounts
        PROVE  (SlotExists(s) /\ lists[s[1]].submitter = b)'
                  <=> \/ SlotExists(s) /\ lists[s[1]].submitter = b
                      \/ s \in new /\ b = a
    <2>1. s = <<s[1], s[2]>> /\ s[1] \in ListIds
      BY DEF Slots
    <2>2. CASE s[1] = l
      BY <1>1, <1>2, <2>1, <2>2 DEF SlotExists, Exists
    <2>3. CASE s[1] # l
      BY <1>1, <2>1, <2>3 DEF SlotExists, Exists
    <2>4. QED
      BY <2>2, <2>3
  <1>5. RecordsOf(a)' = RecordsOf(a) \cup new
    BY <1>3, <1>4 DEF RecordsOf
  <1>6. RecordsOf(a) \cap new = {}
    BY <1>1 DEF RecordsOf, SlotExists
  <1>7. \A b \in Accounts \ {a} : RecordsOf(b)' = RecordsOf(b)
    BY <1>4 DEF RecordsOf
  <1>8. IsFiniteSet(new) /\ Cardinality(new) = Len(ps)
    <2>1. Len(ps) \in Nat /\ Len(ps) >= 1
      BY <1>2, BoundsAssumption
    <2>2. IsFiniteSet(1..Len(ps)) /\ Cardinality(1..Len(ps)) = Len(ps)
      BY <2>1, FS_Interval
    <2>3. IsFiniteSet({l}) /\ Cardinality({l}) = 1
      BY FS_Singleton
    <2>4. /\ IsFiniteSet({l} \X (1..Len(ps)))
          /\ Cardinality({l} \X (1..Len(ps)))
                = Cardinality({l}) * Cardinality(1..Len(ps))
      BY <2>2, <2>3, FS_Product
    <2>5. QED
      BY <2>1, <2>2, <2>3, <2>4
  <1>9. QED
    BY <1>5, <1>6, <1>7, <1>8

LEMMA NextCreditInv == IInv /\ CreditInv /\ [Next]_contractVars => CreditInv'
  <1> SUFFICES ASSUME IInv, CreditInv, [Next]_contractVars PROVE CreditInv'
    OBVIOUS
  <1>1. CASE UNCHANGED contractVars
    BY <1>1 DEF contractVars, CreditInv, RecordsOf, SlotExists, Exists
  <1>2. ASSUME NEW c \in Accounts, NEW a \in Accounts, NEW l \in ListIds,
               NEW t \in Tokens, NEW ps \in Inputs,
               SubmitList(c, a, l, t, ps)
        PROVE  CreditInv'
    <2> DEFINE new == NewSlots(l, ps)
    <2>1. /\ RecordsOf(a)' = RecordsOf(a) \cup new
          /\ RecordsOf(a) \cap new = {}
          /\ \A b \in Accounts \ {a} : RecordsOf(b)' = RecordsOf(b)
          /\ IsFiniteSet(new) /\ Cardinality(new) = Len(ps)
      BY <1>2, SubmitAddsRecords
    <2>2. /\ credits' = [credits EXCEPT ![a] = @ - Len(ps)]
          /\ bought' = bought /\ credits \in [Accounts -> Nat]
          /\ Len(ps) \in Nat
      BY <1>2, InputsAssumption DEF SubmitList, IInv, TypeOK
    <2> HIDE DEF new
    <2>3. /\ IsFiniteSet(RecordsOf(a))
          /\ Cardinality(RecordsOf(a)) \in Nat
          /\ bought[a] = credits[a] + Cardinality(RecordsOf(a))
      BY FS_CardinalityType DEF CreditInv
    <2>4. /\ IsFiniteSet(RecordsOf(a)')
          /\ Cardinality(RecordsOf(a)') = Cardinality(RecordsOf(a)) + Len(ps)
      <3>1. Cardinality(RecordsOf(a) \cap new) = 0
        BY <2>1, FS_EmptySet
      <3>2. /\ IsFiniteSet(RecordsOf(a) \cup new)
            /\ Cardinality(RecordsOf(a) \cup new)
                  = Cardinality(RecordsOf(a)) + Cardinality(new)
                       - Cardinality(RecordsOf(a) \cap new)
        BY <2>1, <2>3, FS_Union
      <3>3. QED
        BY <2>1, <2>2, <2>3, <3>1, <3>2
    <2>5. bought'[a] = credits'[a] + Cardinality(RecordsOf(a)')
      BY <2>2, <2>3, <2>4
    <2>6. \A b \in Accounts \ {a} :
             /\ IsFiniteSet(RecordsOf(b)')
             /\ bought'[b] = credits'[b] + Cardinality(RecordsOf(b)')
      BY <2>1, <2>2 DEF CreditInv
    <2>7. QED
      BY <2>4, <2>5, <2>6 DEF CreditInv
  <1>3. ASSUME NEW b \in Accounts, NEW n \in 1..MaxRecords, BuyStorage(b, n)
        PROVE  CreditInv'
    <2>1. \A a \in Accounts : RecordsOf(a)' = RecordsOf(a)
      BY <1>3 DEF BuyStorage, RecordsOf, SlotExists, Exists
    <2>2. \A a \in Accounts : bought'[a] - credits'[a] = bought[a] - credits[a]
      BY <1>3, BoundsAssumption DEF BuyStorage, IInv, TypeOK
    <2>3. \A a \in Accounts :
             /\ IsFiniteSet(RecordsOf(a)) /\ Cardinality(RecordsOf(a)) \in Nat
             /\ bought[a] = credits[a] + Cardinality(RecordsOf(a))
      BY FS_CardinalityType DEF CreditInv
    <2>4. \A a \in Accounts : bought[a] \in Nat /\ credits[a] \in Nat
                             /\ bought'[a] \in Int /\ credits'[a] \in Int
      BY <1>3, BoundsAssumption DEF BuyStorage, IInv, TypeOK
    <2>5. QED
      BY <2>1, <2>2, <2>3, <2>4 DEF CreditInv
  <1>4. ASSUME Next, UNCHANGED <<credits, bought>>,
               ~\E c, a \in Accounts, l \in ListIds, t \in Tokens, ps \in Inputs :
                    SubmitList(c, a, l, t, ps)
        PROVE  CreditInv'
    <2>1. \A a \in Accounts : RecordsOf(a)' = RecordsOf(a)
      BY <1>4, StepKeeps, RecordsUnchanged
    <2>2. QED
      BY <1>4, <2>1 DEF CreditInv
  <1>5. \/ UNCHANGED contractVars
        \/ \E c, a \in Accounts, l \in ListIds, t \in Tokens, ps \in Inputs :
              SubmitList(c, a, l, t, ps)
        \/ \E b \in Accounts, n \in 1..MaxRecords : BuyStorage(b, n)
        \/ Next /\ UNCHANGED <<credits, bought>>
    BY DEF Next, Call, Network, FundList, ApproveList, FtOnTransfer,
           MtOnTransfer, RejectList, PayoutBatch, DeliverTransfer, BounceTransfer
  <1>6. QED
    BY <1>1, <1>2, <1>3, <1>4, <1>5

(* No credit is lost, minted or spent twice: what an account ever bought   *)
(* is what it has left plus the records it has stored.                     *)
THEOREM CreditsStayConserved == Spec => []CreditsConserved
  <1>1. Init => CreditInv
    <2> SUFFICES ASSUME Init PROVE CreditInv
      OBVIOUS
    <2>1. \A a \in Accounts : RecordsOf(a) = {}
      BY DEF Init, RecordsOf, SlotExists, Exists, Slots
    <2>2. QED
      BY <2>1, FS_EmptySet DEF Init, CreditInv
  <1>2. CreditInv => CreditsConserved
    BY DEF CreditInv, CreditsConserved
  <1>3. QED
    BY InitIInv, NextIInv, NextCreditInv, <1>1, <1>2, PTL DEF Spec

-----------------------------------------------------------------------------
(* Funds: what the ledgers say the contract holds of a token is summed     *)
(* over the slots of the lists in that token.                              *)
Stored == {l \in ListIds : Exists(l)}
SlotsIn(t) == {s \in Slots : Exists(s[1]) /\ SlotToken(s) = t}
Backed(t) == [s \in SlotsIn(t) |-> Backing(s)]
FundsInv ==
    /\ IsFiniteSet(Stored)
    /\ \A t \in Tokens : funds[t] = SumFunctionOnSet(Backed(t), SlotsIn(t))

(* Finitely many lists have finitely many slots.                           *)
LEMMA SlotsAreFinite ==
    ASSUME NEW K, IsFiniteSet(K), NEW T, T \subseteq K \X (1..MaxRecords)
    PROVE  IsFiniteSet(T)
  <1>1. IsFiniteSet(1..MaxRecords)
    BY BoundsAssumption, FS_Interval
  <1>2. IsFiniteSet(K \X (1..MaxRecords))
    BY <1>1, FS_Product
  <1>3. QED
    BY <1>2, FS_Subset

LEMMA SlotsInAreFinite ==
    ASSUME IsFiniteSet(Stored), NEW t
    PROVE  IsFiniteSet(SlotsIn(t))
  <1>1. SlotsIn(t) \subseteq Stored \X (1..MaxRecords)
    BY DEF SlotsIn, Stored, Slots
  <1>2. QED
    BY <1>1, SlotsAreFinite

(* A payment backs nothing, or its amount once.                            *)
LEMMA BackingType ==
    ASSUME IInv, NEW s \in Slots
    PROVE  /\ Backing(s) \in Nat
           /\ SlotExists(s) => SlotAmount(s) \in Nat
           /\ SlotExists(s) /\ lists[s[1]].status = "Approved" =>
                Backing(s) = IF IsPaid(s) /\ promises[s]["delivered"] = 1
                             THEN 0 ELSE SlotAmount(s)
  <1>1. s[1] \in ListIds /\ s = <<s[1], s[2]>>
    BY DEF Slots
  <1>2. SlotExists(s) => SlotAmount(s) \in Nat
    <2>1. SlotExists(s) => lists[s[1]].payments[s[2]] \in PaymentRecord
      BY <1>1, ListFacts DEF IInv, SlotExists
    <2>2. QED
      BY <2>1, BoundsAssumption DEF SlotAmount, PaymentRecord, Amounts
  <1>3. /\ promises[s]["inflight"] \in Nat
        /\ promises[s]["delivered"] \in Nat
        /\ promises[s]["bounced"] \in Nat
    BY DEF IInv, TypeOK, Outcomes
  <1>4. IsPaid(s) => promises[s]["inflight"] + promises[s]["delivered"]
                        + promises[s]["bounced"] = 1
    BY DEF IInv, PaidExactlyOnce, Started
  <1>5. CASE ~SlotExists(s) \/ lists[s[1]].status # "Approved"
    BY <1>2, <1>5 DEF Backing
  <1>6. CASE SlotExists(s) /\ lists[s[1]].status = "Approved"
    <2>1. IsPaid(s) => \/ promises[s]["inflight"] + promises[s]["bounced"] = 0
                          /\ promises[s]["delivered"] = 1
                       \/ promises[s]["inflight"] + promises[s]["bounced"] = 1
                          /\ promises[s]["delivered"] = 0
      BY <1>3, <1>4
    <2>2. Backing(s) = SlotAmount(s) * (IF IsPaid(s)
             THEN promises[s]["inflight"] + promises[s]["bounced"] ELSE 1)
      BY <1>6 DEF Backing
    <2>3. Backing(s) = IF IsPaid(s) /\ promises[s]["delivered"] = 1
                       THEN 0 ELSE SlotAmount(s)
      BY <1>2, <1>6, <2>1, <2>2
    <2>4. QED
      BY <1>2, <1>6, <2>3
  <1>7. QED
    BY <1>5, <1>6

LEMMA BackedType ==
    ASSUME IInv, NEW t
    PROVE  \A s \in SlotsIn(t) : Backed(t)[s] = Backing(s) /\ Backed(t)[s] \in Int
  BY BackingType DEF Backed, SlotsIn

(* A step that leaves a token's slots and what they back alone leaves the  *)
(* sum alone.                                                              *)
LEMMA SameBacking ==
    ASSUME NEW t, SlotsIn(t)' = SlotsIn(t),
           \A s \in SlotsIn(t) : Backing(s)' = Backing(s)
    PROVE  Backed(t)' = Backed(t)
  BY DEF Backed

(* Slots stay as long as lists and their tokens do.                        *)
LEMMA SameSlots ==
    ASSUME \A m \in ListIds : Exists(m)' = Exists(m),
           \A m \in ListIds : Exists(m) => KeepsDecision(m)
    PROVE  Stored' = Stored /\ \A t : SlotsIn(t)' = SlotsIn(t)
  <1>1. Stored' = Stored
    BY DEF Stored
  <1>2. ASSUME NEW s \in Slots, NEW t
        PROVE  (Exists(s[1]) /\ SlotToken(s) = t)'
                  = (Exists(s[1]) /\ SlotToken(s) = t)
    BY DEF Slots, KeepsDecision, SlotToken
  <1>3. QED
    BY <1>1, <1>2 DEF SlotsIn

(* A submitted list backs nothing before it is funded.                     *)
LEMMA SubmitKeepsFunds ==
    ASSUME IInv, IInv', FundsInv, NEW c, NEW a \in Accounts, NEW l \in ListIds,
           NEW tk \in Tokens, NEW ps \in Inputs, SubmitList(c, a, l, tk, ps)
    PROVE  FundsInv'
  <1>1. /\ ~Exists(l) /\ lists'[l] = NewList(tk, ps, a) /\ lists'[l] # NoList
        /\ \A m \in ListIds \ {l} : lists'[m] = lists[m]
        /\ UNCHANGED <<promises, funds>>
    BY SubmitKeeps DEF SubmitList
  <1>2. lists'[l].status = "Pending"
    BY <1>1, NewListType DEF SubmitList, CanSubmit
  <1>3. Stored' = Stored \cup {l}
    BY <1>1 DEF Stored, Exists
  <1>4. IsFiniteSet(Stored')
    BY <1>3, FS_AddElement DEF FundsInv
  <1>5. ASSUME NEW t \in Tokens
        PROVE  funds'[t] = SumFunctionOnSet(Backed(t)', SlotsIn(t)')
    <2> DEFINE old == SlotsIn(t)
               new == {s \in SlotsIn(t)' : s[1] = l}
    <2>1. SlotsIn(t)' = old \cup new /\ old \cap new = {}
      <3>1. ASSUME NEW s \in Slots
            PROVE  /\ s \in old => s \in SlotsIn(t)' /\ s[1] # l
                   /\ s \in SlotsIn(t)' => s \in old \/ s[1] = l
        BY <1>1 DEF SlotsIn, Slots, SlotToken, Exists
      <3>2. old \subseteq Slots /\ SlotsIn(t)' \subseteq Slots
        BY DEF SlotsIn, Slots
      <3>3. QED
        BY <3>1, <3>2
    <2>2. IsFiniteSet(SlotsIn(t)')
      <3>1. SlotsIn(t)' \subseteq Stored' \X (1..MaxRecords)
        BY DEF SlotsIn, Stored, Slots
      <3>2. QED
        BY <1>4, <3>1, SlotsAreFinite
    <2>3. IsFiniteSet(old) /\ IsFiniteSet(new)
      BY <2>1, <2>2, FS_Subset
    <2>4. \A s \in new : Backed(t)'[s] = 0
      BY <1>2 DEF Backed, SlotsIn, Backing
    <2>5. \A s \in old : Backed(t)'[s] = Backed(t)[s] /\ Backed(t)[s] \in Int
      <3>1. ASSUME NEW s \in old
            PROVE  Backing(s)' = Backing(s) /\ s \in SlotsIn(t)'
        <4>1. s[1] \in ListIds /\ s[1] # l /\ s \in SlotsIn(t)'
          BY <2>1 DEF SlotsIn, Slots
        <4>2. lists'[s[1]] = lists[s[1]]
          BY <1>1, <4>1
        <4>3. QED
          BY <1>1, <4>1, <4>2
             DEF Backing, SlotExists, Exists, IsPaid, SlotAmount
      <3>2. QED
        BY <3>1, BackedType DEF Backed
    <2> HIDE DEF old, new
    <2>6. SumFunctionOnSet(Backed(t)', old \cup new)
             = SumFunctionOnSet(Backed(t)', old) + SumFunctionOnSet(Backed(t)', new)
      BY <2>1, <2>3, <2>4, <2>5, SumOfUnion
    <2>7. SumFunctionOnSet(Backed(t)', old) = SumFunctionOnSet(Backed(t), old)
      BY <2>3, <2>5, SumDependsOnSet
    <2>8. SumFunctionOnSet(Backed(t)', new) = 0
      BY <2>3, <2>4, SumOfZeros
    <2>9. funds'[t] = SumFunctionOnSet(Backed(t), old)
      BY <1>1 DEF FundsInv, old
    <2>10. funds'[t] \in Int
      BY DEF IInv, TypeOK
    <2>11. QED
      BY <2>1, <2>6, <2>7, <2>8, <2>9, <2>10
  <1>6. QED
    BY <1>4, <1>5 DEF FundsInv

(* Funding moves a list's total, and from then on the list backs it.       *)
LEMMA FundListKeepsFunds ==
    ASSUME IInv, IInv', FundsInv, NEW l \in ListIds, FundList(l)
    PROVE  FundsInv'
  <1>1. PICK amount \in Amounts :
           /\ HasStatus(l, "Pending") /\ IsTotal(l, amount)
           /\ SetStatus(l, "Approved") /\ UNCHANGED promises
           /\ funds' = [funds EXCEPT ![ProposalToken(l)] = @ + amount]
    BY DEF FundList, ApproveList, FtOnTransfer, MtOnTransfer
  <1> DEFINE tk == lists[l].token
             ps == lists[l].payments
             D == DOMAIN ps
  <1>2. /\ Exists(l) /\ lists[l].status = "Pending"
        /\ lists[l] \in PaymentList /\ ps \in Seq(PaymentRecord)
        /\ \A i \in D : ps[i] \in PaymentRecord /\ <<l, i>> \in Slots
    BY <1>1, ListFacts DEF IInv, HasStatus
  <1>3. /\ \A m \in ListIds : Exists(m)' = Exists(m)
        /\ \A m \in ListIds : Exists(m) => KeepsDecision(m)
    <2>1. \A m \in ListIds : Exists(m) => Exists(m)' /\ KeepsDecision(m)
      BY <1>1, DecideKeeps
    <2>2. \A m \in ListIds : Exists(m)' => Exists(m)
      BY <1>1, <1>2 DEF SetStatus, Exists, IInv, TypeOK
    <2>3. QED
      BY <2>1, <2>2 DEF Exists
  <1>4. Stored' = Stored /\ \A t : SlotsIn(t)' = SlotsIn(t)
    BY <1>3, SameSlots
  <1>5. /\ lists'[l] = [lists[l] EXCEPT !.status = "Approved"]
        /\ \A m \in ListIds \ {l} : lists'[m] = lists[m]
    BY <1>1 DEF SetStatus, IInv, TypeOK
  <1>6. /\ lists'[l].status = "Approved" /\ lists'[l].payments = ps
        /\ Exists(l)'
    BY <1>2, <1>3, <1>5 DEF PaymentList
  <1>7. ASSUME NEW s \in Slots
        PROVE  Backing(s)' = IF s[1] = l /\ s[2] \in D THEN SlotAmount(s)
                             ELSE Backing(s)
    <2>1. s[1] \in ListIds
      BY DEF Slots
    <2>2. CASE s[1] # l
      <3>1. lists'[s[1]] = lists[s[1]]
        BY <1>5, <2>1, <2>2
      <3>2. QED
        BY <1>1, <2>2, <3>1 DEF Backing, SlotExists, Exists, IsPaid, SlotAmount
    <2>3. CASE s[1] = l /\ s[2] \notin D
      BY <1>2, <1>6, <2>3 DEF Backing, SlotExists
    <2>4. CASE s[1] = l /\ s[2] \in D
      <3>1. SlotExists(s) /\ ~IsPaid(s)
        BY <1>2, <2>4 DEF SlotExists, IInv, PaidExactlyOnce
      <3>2. lists[s[1]].payments[s[2]].status # "Paid"
        BY <3>1 DEF IsPaid
      <3>3. SlotExists(s)' /\ ~IsPaid(s)' /\ SlotAmount(s)' = SlotAmount(s)
        BY <1>6, <2>4, <3>2 DEF SlotExists, IsPaid, SlotAmount
      <3>4. SlotAmount(s) \in Nat
        BY <3>1, BackingType
      <3>5. QED
        BY <1>6, <2>4, <3>3, <3>4 DEF Backing
    <2>5. QED
      BY <2>2, <2>3, <2>4
  <1>8. ASSUME NEW t \in Tokens
        PROVE  funds'[t] = SumFunctionOnSet(Backed(t)', SlotsIn(t)')
    <2> DEFINE S == SlotsIn(t)
               f == Backed(t)
               g == Backed(t)'
    <2>1. funds[t] = SumFunctionOnSet(f, S) /\ IsFiniteSet(S)
      BY SlotsInAreFinite DEF FundsInv
    <2>2. \A s \in S : s \in Slots /\ f[s] = Backing(s) /\ f[s] \in Int
      BY BackedType DEF SlotsIn
    <2>3. \A s \in S : g[s] = IF s[1] = l /\ s[2] \in D THEN SlotAmount(s) ELSE f[s]
      BY <1>4, <1>7, <2>2 DEF Backed
    <2>4. CASE t # tk
      <3>1. \A s \in S : s[1] # l
        BY <2>4 DEF SlotsIn, SlotToken
      <3>2. \A s \in S : g[s] = f[s]
        BY <2>3, <3>1
      <3>3. funds'[t] = funds[t]
        BY <1>1, <2>4 DEF ProposalToken, IInv, TypeOK
      <3> HIDE DEF S, f, g
      <3>4. SumFunctionOnSet(f, S) = SumFunctionOnSet(g, S)
        BY <2>1, <3>2, SumDependsOnSet
      <3>5. QED
        BY <1>4, <2>1, <3>3, <3>4 DEF S, f, g
    <2>5. CASE t = tk
      <3> DEFINE L == {l} \X D
                 R == S \ L
                 h == [i \in D |-> ps[i].amount]
      <3>1. L \subseteq S /\ S = L \cup R /\ L \cap R = {}
        <4>1. L \subseteq S
          BY <1>2, <2>5 DEF SlotsIn, SlotToken
        <4>2. QED
          BY <4>1
      <3>2. IsFiniteSet(L) /\ IsFiniteSet(R) /\ IsFiniteSet(D)
        <4>1. IsFiniteSet(1..Len(ps)) /\ D = 1..Len(ps)
          <5>1. Len(ps) \in Nat /\ D = 1..Len(ps)
            BY <1>2
          <5>2. QED
            BY <5>1, FS_Interval
        <4>2. QED
          BY <2>1, <3>1, <4>1, FS_Subset
      <3>3. \A s \in R : g[s] = f[s] /\ f[s] \in Int
        <4>1. ASSUME NEW s \in R PROVE ~(s[1] = l /\ s[2] \in D)
          BY DEF SlotsIn, Slots
        <4>2. QED
          BY <2>2, <2>3, <4>1
      <3>4. \A s \in L : f[s] = 0
        <4>1. \A s \in L : s \in S /\ s[1] = l
          BY <3>1
        <4>2. QED
          BY <1>2, <2>2, <4>1 DEF Backing
      <3>5. \A i \in D : /\ h[i] = g[<<l, i>>]
                         /\ g[<<l, i>>] \in Int
        <4>1. ASSUME NEW i \in D PROVE h[i] = g[<<l, i>>] /\ g[<<l, i>>] \in Int
          <5>1. <<l, i>> \in S
            BY <3>1
          <5>2. g[<<l, i>>] = SlotAmount(<<l, i>>)
            BY <2>3, <5>1
          <5>3. SlotAmount(<<l, i>>) = ps[i].amount /\ ps[i].amount \in Int
            <6>1. ps[i] \in PaymentRecord
              BY <1>2
            <6>2. SlotAmount(<<l, i>>) = ps[i].amount
              BY DEF SlotAmount
            <6>3. QED
              BY <6>1, <6>2, BoundsAssumption DEF PaymentRecord, Amounts
          <5>4. QED
            BY <5>2, <5>3
        <4>2. QED
          BY <4>1
      <3>6. \A s \in L : g[s] \in Int
        <4> HIDE DEF g
        <4>1. \A s \in L : \E i \in D : s = <<l, i>>
          OBVIOUS
        <4>2. QED
          BY <3>5, <4>1
      <3>7. Total(ps) = SumFunctionOnSet(h, D)
        BY DEF Total, SumFunction
      <3>8. amount = SumFunctionOnSet(h, D) /\ amount \in Int
        BY <1>1, <3>7, BoundsAssumption DEF IsTotal, Amounts
      <3>9. funds'[t] = funds[t] + amount /\ funds[t] \in Int
        BY <1>1, <2>5 DEF ProposalToken, IInv, TypeOK
      <3> HIDE DEF S, f, g, h, L, R, D
      <3>10. SumFunctionOnSet(f, L \cup R)
               = SumFunctionOnSet(f, L) + SumFunctionOnSet(f, R)
        BY <3>1, <3>2, <3>3, <3>4, SumOfUnion
      <3>11. SumFunctionOnSet(g, L \cup R)
               = SumFunctionOnSet(g, L) + SumFunctionOnSet(g, R)
        BY <3>1, <3>2, <3>3, <3>6, SumOfUnion
      <3>12. SumFunctionOnSet(f, L) = 0
        BY <3>2, <3>4, SumOfZeros
      <3>13. SumFunctionOnSet(g, L) = amount
        <4>1. SumFunctionOnSet(g, {l} \X D) = SumFunctionOnSet(h, D)
          <5>1. /\ IsFiniteSet(D)
                /\ \A i \in D : g[<<l, i>>] \in Int /\ h[i] = g[<<l, i>>]
            BY <3>2, <3>5
          <5>2. QED
            BY <5>1, SumOfPairs
        <4>2. QED
          BY <3>8, <4>1 DEF L
      <3>14. SumFunctionOnSet(g, R) = SumFunctionOnSet(f, R)
        BY <3>2, <3>3, SumDependsOnSet
      <3>15. SumFunctionOnSet(g, S) = funds[t] + amount
        <4>1. SumFunctionOnSet(f, R) \in Int
          BY <3>2, <3>3, SumType
        <4>2. funds[t] = SumFunctionOnSet(f, R)
          BY <2>1, <3>1, <3>10, <3>12, <4>1
        <4>3. QED
          BY <3>1, <3>8, <3>11, <3>13, <3>14, <4>1, <4>2
      <3>16. QED
        BY <1>4, <3>9, <3>15 DEF S, g
    <2>6. QED
      BY <2>4, <2>5
  <1>9. QED
    BY <1>4, <1>8 DEF FundsInv

(* A step that changes no backing and no funds.                            *)
LEMMA SameFunds ==
    ASSUME FundsInv, funds' = funds,
           \A m \in ListIds : Exists(m)' = Exists(m),
           \A m \in ListIds : Exists(m) => KeepsDecision(m),
           \A s \in Slots : Backing(s)' = Backing(s)
    PROVE  FundsInv'
  <1>1. Stored' = Stored /\ \A t : SlotsIn(t)' = SlotsIn(t)
    BY SameSlots
  <1>2. \A t : Backed(t)' = Backed(t)
    BY <1>1, SameBacking DEF SlotsIn
  <1>3. QED
    BY <1>1, <1>2 DEF FundsInv

LEMMA RejectKeepsFunds ==
    ASSUME IInv, FundsInv, NEW a, NEW l \in ListIds, RejectList(a, l)
    PROVE  FundsInv'
  <1>1. /\ HasStatus(l, "Pending") /\ SetStatus(l, "Rejected")
        /\ UNCHANGED <<promises, funds>>
    BY DEF RejectList
  <1>2. /\ Exists(l) /\ lists[l].status = "Pending" /\ lists[l] \in PaymentList
    BY <1>1, ListFacts DEF IInv, HasStatus
  <1>3. /\ lists'[l] = [lists[l] EXCEPT !.status = "Rejected"]
        /\ lists'[l].status = "Rejected"
        /\ \A m \in ListIds \ {l} : lists'[m] = lists[m]
    BY <1>1, <1>2 DEF SetStatus, IInv, TypeOK, PaymentList
  <1>4. \A m \in ListIds : Exists(m) => Exists(m)' /\ KeepsDecision(m)
    BY <1>1, DecideKeeps
  <1>5. \A m \in ListIds : Exists(m)' = Exists(m)
    BY <1>2, <1>3, <1>4 DEF Exists
  <1>6. ASSUME NEW s \in Slots
        PROVE  Backing(s)' = Backing(s)
    <2>1. CASE s[1] = l
      BY <1>2, <1>3, <2>1 DEF Backing
    <2>2. CASE s[1] # l
      <3>1. lists'[s[1]] = lists[s[1]]
        BY <1>3, <2>2 DEF Slots
      <3>2. QED
        BY <1>1, <3>1 DEF Backing, SlotExists, Exists, IsPaid, SlotAmount
    <2>3. QED
      BY <2>1, <2>2
  <1>7. QED
    BY <1>1, <1>4, <1>5, <1>6, SameFunds

(* A payment that is started backs what it backed while it was owed.       *)
LEMMA PayoutKeepsFunds ==
    ASSUME IInv, IInv', FundsInv, NEW l \in ListIds, NEW k, PayoutBatch(l, k)
    PROVE  FundsInv'
  <1> DEFINE ps == lists[l].payments
             B == Batch(l, k)
  <1>1. /\ \A m \in ListIds : Exists(m) => Exists(m)' /\ KeepsDecision(m)
        /\ lists[l].status = "Approved" /\ lists'[l].status = "Approved"
        /\ lists'[l].payments = MarkPaid(ps, B)
        /\ \A m \in ListIds \ {l} : lists'[m] = lists[m]
    BY PayoutKeeps
  <1>2. /\ Exists(l) /\ funds' = funds
        /\ promises' = [s \in Slots |->
              IF s[1] = l /\ s[2] \in B
              THEN [promises[s] EXCEPT !["inflight"] = @ + 1] ELSE promises[s]]
    BY DEF PayoutBatch, HasStatus
  <1>3. /\ ps \in Seq(PaymentRecord)
        /\ \A i \in DOMAIN ps : <<l, i>> \in Slots
    BY <1>2, ListFacts DEF IInv
  <1>4. /\ DOMAIN MarkPaid(ps, B) = DOMAIN ps
        /\ \A i \in DOMAIN ps :
             /\ MarkPaid(ps, B)[i].amount = ps[i].amount
             /\ MarkPaid(ps, B)[i].status = IF i \in B THEN "Paid" ELSE ps[i].status
    BY <1>3, MarkPaidType
  <1>5. \A i \in B : i \in DOMAIN ps /\ ps[i].status = "Pending"
    BY BatchIsPending
  <1>6. \A m \in ListIds : Exists(m)' = Exists(m)
    BY <1>1, <1>2 DEF Exists
  <1>7. ASSUME NEW s \in Slots
        PROVE  Backing(s)' = Backing(s)
    <2>1. s[1] \in ListIds /\ promises[s] \in [Outcomes -> Nat]
      BY DEF Slots, IInv, TypeOK
    <2>2. CASE s[1] # l
      <3>1. lists'[s[1]] = lists[s[1]] /\ promises'[s] = promises[s]
        BY <1>1, <1>2, <2>1, <2>2
      <3>2. QED
        BY <3>1 DEF Backing, SlotExists, Exists, IsPaid, SlotAmount
    <2>3. CASE s[1] = l /\ s[2] \notin DOMAIN ps
      <3>1. ~SlotExists(s) /\ ~SlotExists(s)'
        BY <1>1, <1>4, <2>3 DEF SlotExists
      <3>2. QED
        BY <3>1 DEF Backing
    <2>4. CASE s[1] = l /\ s[2] \in DOMAIN ps
      <3>1. SlotExists(s) /\ SlotExists(s)'
        BY <1>1, <1>2, <1>4, <1>6, <2>4 DEF SlotExists
      <3>2. SlotAmount(s)' = SlotAmount(s) /\ SlotAmount(s) \in Nat
        BY <1>1, <1>4, <2>4, <3>1, BackingType DEF SlotAmount
      <3>3. IsPaid(s) = (ps[s[2]].status = "Paid")
        BY <2>4, <3>1 DEF IsPaid
      <3>4. IsPaid(s)' = (MarkPaid(ps, B)[s[2]].status = "Paid")
        BY <1>1, <2>4, <3>1 DEF IsPaid
      <3>5. CASE s[2] \in B
        <4>1. ~IsPaid(s) /\ IsPaid(s)'
          BY <1>4, <1>5, <2>4, <3>3, <3>4, <3>5
        <4>2. Started(s) = 0
          BY <4>1 DEF IInv, PaidExactlyOnce
        <4>3. promises'[s] = [promises[s] EXCEPT !["inflight"] = @ + 1]
          BY <1>2, <2>4, <3>5
        <4>4. promises'[s]["inflight"] = 1 /\ promises'[s]["bounced"] = 0
          BY <2>1, <4>2, <4>3 DEF Started, Outcomes
        <4>5. Backing(s)' = SlotAmount(s)' * (1 + 0)
          BY <1>1, <2>4, <3>1, <4>1, <4>4 DEF Backing
        <4>6. Backing(s) = SlotAmount(s) * 1
          BY <1>1, <2>4, <3>1, <4>1 DEF Backing
        <4>7. QED
          BY <3>2, <4>5, <4>6
      <3>6. CASE s[2] \notin B
        <4>1. IsPaid(s)' = IsPaid(s) /\ promises'[s] = promises[s]
          BY <1>2, <1>4, <2>4, <3>3, <3>4, <3>6
        <4>2. QED
          BY <1>1, <2>4, <3>1, <3>2, <4>1 DEF Backing
      <3>7. QED
        BY <3>5, <3>6
    <2>5. QED
      BY <2>2, <2>3, <2>4
  <1>8. QED
    BY <1>1, <1>2, <1>6, <1>7, SameFunds

(* A transfer under way belongs to a paid payment of an approved list.     *)
LEMMA InflightIsPaid ==
    ASSUME IInv, NEW s \in Slots, promises[s]["inflight"] > 0
    PROVE  /\ SlotExists(s) /\ IsPaid(s) /\ lists[s[1]].status = "Approved"
           /\ promises[s]["inflight"] = 1 /\ promises[s]["delivered"] = 0
           /\ promises[s]["bounced"] = 0
           /\ SlotToken(s) \in Tokens
  <1>1. promises[s] \in [Outcomes -> Nat] /\ s[1] \in ListIds
    BY DEF IInv, TypeOK, Slots
  <1>2. Started(s) # 0
    BY <1>1 DEF Started, Outcomes
  <1>3. IsPaid(s) /\ Started(s) = 1 /\ lists[s[1]].status = "Approved"
    BY <1>2 DEF IInv, PaidExactlyOnce
  <1>4. SlotToken(s) \in Tokens
    BY <1>1, <1>3, ListFacts DEF IInv, IsPaid, SlotExists, SlotToken, PaymentList
  <1>5. QED
    BY <1>1, <1>3, <1>4 DEF Started, Outcomes, IsPaid

(* A bounced transfer still backs its amount: the funds never left.        *)
LEMMA BounceKeepsFunds ==
    ASSUME IInv, FundsInv, NEW s \in Slots, BounceTransfer(s)
    PROVE  FundsInv'
  <1>1. /\ promises[s]["inflight"] > 0
        /\ promises' = [promises EXCEPT ![s]["inflight"] = @ - 1,
                                        ![s]["bounced"] = @ + 1]
        /\ lists' = lists /\ funds' = funds
    BY DEF BounceTransfer
  <1>2. /\ \A m \in ListIds : Exists(m)' = Exists(m)
        /\ \A m \in ListIds : Exists(m) => KeepsDecision(m)
    BY <1>1 DEF Exists, KeepsDecision
  <1>3. promises \in [Slots -> [Outcomes -> Nat]]
    BY DEF IInv, TypeOK
  <1>4. ASSUME NEW r \in Slots
        PROVE  Backing(r)' = Backing(r)
    <2>1. promises'[r]["inflight"] + promises'[r]["bounced"]
             = promises[r]["inflight"] + promises[r]["bounced"]
      BY <1>1, <1>3 DEF Outcomes
    <2>2. QED
      BY <1>1, <2>1 DEF Backing, SlotExists, Exists, IsPaid, SlotAmount
  <1>5. QED
    BY <1>1, <1>2, <1>4, SameFunds

(* A delivered transfer takes its amount from what the contract holds and  *)
(* backs nothing any more.                                                 *)
LEMMA DeliverKeepsFunds ==
    ASSUME IInv, IInv', FundsInv, NEW s \in Slots, DeliverTransfer(s)
    PROVE  FundsInv'
  <1>1. /\ promises[s]["inflight"] > 0
        /\ promises' = [promises EXCEPT ![s]["inflight"] = @ - 1,
                                        ![s]["delivered"] = @ + 1]
        /\ funds' = [funds EXCEPT ![SlotToken(s)] = @ - SlotAmount(s)]
        /\ lists' = lists
    BY DEF DeliverTransfer
  <1>2. /\ SlotExists(s) /\ IsPaid(s) /\ lists[s[1]].status = "Approved"
        /\ promises[s]["inflight"] = 1 /\ promises[s]["bounced"] = 0
        /\ promises[s]["delivered"] = 0 /\ SlotToken(s) \in Tokens
    BY <1>1, InflightIsPaid
  <1>3. Stored' = Stored /\ \A t : SlotsIn(t)' = SlotsIn(t)
    <2>1. /\ \A m \in ListIds : Exists(m)' = Exists(m)
          /\ \A m \in ListIds : Exists(m) => KeepsDecision(m)
      BY <1>1 DEF Exists, KeepsDecision
    <2>2. QED
      BY <2>1, SameSlots
  <1>4. promises \in [Slots -> [Outcomes -> Nat]]
    BY DEF IInv, TypeOK
  <1>5. \A r \in Slots \ {s} : Backing(r)' = Backing(r)
    <2>1. ASSUME NEW r \in Slots \ {s} PROVE Backing(r)' = Backing(r)
      <3>1. promises'[r] = promises[r]
        BY <1>1, <1>4
      <3>2. QED
        BY <1>1, <3>1 DEF Backing, SlotExists, Exists, IsPaid, SlotAmount
    <2>2. QED
      BY <2>1
  <1>6. Backing(s) = SlotAmount(s) /\ SlotAmount(s) \in Nat
    BY <1>2, BackingType
  <1>7. Backing(s)' = 0
    <2>1. promises'[s]["inflight"] = 0 /\ promises'[s]["bounced"] = 0
      BY <1>1, <1>2, <1>4 DEF Outcomes
    <2>2. SlotExists(s)' /\ IsPaid(s)' /\ lists'[s[1]].status = "Approved"
          /\ SlotAmount(s)' = SlotAmount(s)
      BY <1>1, <1>2 DEF SlotExists, Exists, IsPaid, SlotAmount
    <2>3. Backing(s)' = SlotAmount(s)' * (0 + 0)
      BY <2>1, <2>2 DEF Backing
    <2>4. QED
      BY <1>6, <2>2, <2>3
  <1>8. ASSUME NEW t \in Tokens
        PROVE  funds'[t] = SumFunctionOnSet(Backed(t)', SlotsIn(t)')
    <2> DEFINE S == SlotsIn(t)
               f == Backed(t)
               g == Backed(t)'
    <2>1. funds[t] = SumFunctionOnSet(f, S) /\ IsFiniteSet(S)
      BY SlotsInAreFinite DEF FundsInv
    <2>2. \A r \in S : r \in Slots /\ f[r] = Backing(r) /\ f[r] \in Int
      BY BackedType DEF SlotsIn
    <2>3. \A r \in S : g[r] = Backing(r)'
      BY <1>3 DEF Backed
    <2>4. \A r \in S \ {s} : g[r] = f[r]
      BY <1>5, <2>2, <2>3
    <2>5. \A r \in S : g[r] \in Int
      BY <1>7, <2>2, <2>3, <2>4
    <2>6. CASE t # SlotToken(s)
      <3>1. s \notin S
        BY <2>6 DEF SlotsIn
      <3>2. \A r \in S : f[r] = g[r]
        BY <2>4, <3>1
      <3>3. funds'[t] = funds[t]
        BY <1>1, <2>6 DEF IInv, TypeOK
      <3> HIDE DEF S, f, g
      <3>4. SumFunctionOnSet(f, S) = SumFunctionOnSet(g, S)
        BY <2>1, <3>2, SumDependsOnSet
      <3>5. QED
        BY <1>3, <2>1, <3>3, <3>4 DEF S, f, g
    <2>7. CASE t = SlotToken(s)
      <3>1. s \in S
        BY <1>2, <2>7 DEF SlotsIn, SlotExists
      <3>2. f[s] = SlotAmount(s) /\ g[s] = 0
        BY <1>6, <1>7, <2>2, <2>3, <3>1
      <3>3. funds'[t] = funds[t] - SlotAmount(s) /\ funds[t] \in Int
        BY <1>1, <1>2, <2>7 DEF IInv, TypeOK
      <3> HIDE DEF S, f, g
      <3>4. SumFunctionOnSet(g, S) = SumFunctionOnSet(f, S) - f[s] + g[s]
        BY <2>1, <2>2, <2>4, <2>5, <3>1, SumChanges
      <3>5. SumFunctionOnSet(g, S) = funds'[t]
        BY <1>6, <2>1, <3>2, <3>3, <3>4
      <3>6. QED
        BY <1>3, <3>5 DEF S, g
    <2>8. QED
      BY <2>6, <2>7
  <1>9. QED
    BY <1>3, <1>8 DEF FundsInv

LEMMA NextFundsInv == IInv /\ IInv' /\ FundsInv /\ [Next]_contractVars => FundsInv'
  <1> SUFFICES ASSUME IInv, IInv', FundsInv, [Next]_contractVars PROVE FundsInv'
    OBVIOUS
  <1>1. ASSUME UNCHANGED <<lists, promises, funds>>
        PROVE  FundsInv'
    <2>1. /\ \A m \in ListIds : Exists(m)' = Exists(m)
          /\ \A m \in ListIds : Exists(m) => KeepsDecision(m)
      BY <1>1 DEF Exists, KeepsDecision
    <2>2. \A s \in Slots : Backing(s)' = Backing(s)
      BY <1>1 DEF Backing, SlotExists, Exists, IsPaid, SlotAmount
    <2>3. QED
      BY <1>1, <2>1, <2>2, SameFunds
  <1>2. ASSUME NEW c \in Accounts, NEW a \in Accounts, NEW l \in ListIds,
               NEW t \in Tokens, NEW ps \in Inputs, SubmitList(c, a, l, t, ps)
        PROVE  FundsInv'
    BY <1>2, SubmitKeepsFunds
  <1>3. ASSUME NEW l \in ListIds, FundList(l) PROVE FundsInv'
    BY <1>3, FundListKeepsFunds
  <1>4. ASSUME NEW a \in Accounts, NEW l \in ListIds, RejectList(a, l)
        PROVE  FundsInv'
    BY <1>4, RejectKeepsFunds
  <1>5. ASSUME NEW l \in ListIds, NEW k \in 1..MaxRecords, PayoutBatch(l, k)
        PROVE  FundsInv'
    BY <1>5, PayoutKeepsFunds
  <1>6. ASSUME NEW s \in Slots, DeliverTransfer(s) \/ BounceTransfer(s)
        PROVE  FundsInv'
    BY <1>6, DeliverKeepsFunds, BounceKeepsFunds
  <1>7. QED
    BY <1>1, <1>2, <1>3, <1>4, <1>5, <1>6
       DEF contractVars, Next, Call, Network, BuyStorage

(* What the contract holds of a token is exactly what its approved lists   *)
(* still owe, what is under way and what came back: no list is ever paid   *)
(* with another one's funds, whatever bounces and in whatever order.       *)
THEOREM FundsAlwaysBackPayments == Spec => []FundsBackPayments
  <1>1. Init => FundsInv
    <2> SUFFICES ASSUME Init PROVE FundsInv
      OBVIOUS
    <2>1. Stored = {} /\ \A t : SlotsIn(t) = {}
      BY DEF Init, Stored, SlotsIn, Exists, Slots
    <2>2. QED
      BY <2>1, FS_EmptySet, SumOfNone DEF Init, FundsInv
  <1>2. FundsInv => FundsBackPayments
    BY DEF FundsInv, FundsBackPayments, SlotsIn, Backed, SumFunction
  <1>3. QED
    BY InitIInv, NextIInv, NextFundsInv, <1>1, <1>2, PTL DEF Spec

-----------------------------------------------------------------------------
(* The contract implements the payout ledger *)

SlotsOf(l) == {s \in Slots : s[1] = l /\ SlotExists(s)}

LEMMA FundRefines ==
    ASSUME IInv, NEW l \in ListIds, FundList(l)
    PROVE  Ledger!Owe(SlotsOf(l))
  <1>1. HasStatus(l, "Pending") /\ SetStatus(l, "Approved")
    BY DEF FundList, ApproveList, FtOnTransfer, MtOnTransfer
  <1>2. /\ Exists(l) /\ lists[l] \in PaymentList /\ lists[l].status = "Pending"
    BY <1>1, ListFacts DEF IInv, HasStatus
  <1>3. /\ [lists[l] EXCEPT !.status = "Approved"] \in PaymentList
        /\ [lists[l] EXCEPT !.status = "Approved"].payments = lists[l].payments
        /\ [lists[l] EXCEPT !.status = "Approved"].status = "Approved"
    BY <1>2 DEF PaymentList
  <1>4. /\ lists'[l] = [lists[l] EXCEPT !.status = "Approved"]
        /\ lists'[l] # NoList
        /\ \A m \in ListIds \ {l} : lists'[m] = lists[m]
    BY <1>1, <1>3, NoListAssumption DEF SetStatus, IInv, TypeOK
  <1>5. ASSUME NEW s \in Slots
        PROVE  /\ IsPaid(s)' = IsPaid(s)
               /\ IsPaid(s) => s \notin SlotsOf(l)
               /\ s \in OwedSlots => s \notin SlotsOf(l)
               /\ (s \in OwedSlots') <=> (s \in OwedSlots \/ s \in SlotsOf(l))
    <2>1. s[1] \in ListIds
      BY DEF Slots
    <2>2. CASE s[1] = l
      <3>1. SlotExists(s)' = SlotExists(s) /\ IsPaid(s)' = IsPaid(s)
        <4>1. /\ lists[s[1]] # NoList /\ lists'[s[1]] # NoList
              /\ lists'[s[1]].payments = lists[s[1]].payments
          BY <1>2, <1>3, <1>4, <2>2 DEF Exists
        <4>2. QED
          BY <4>1 DEF SlotExists, IsPaid, Exists
      <3>2. ~IsPaid(s)
        BY <1>2, <2>2 DEF IInv, PaidExactlyOnce
      <3>3. s \notin OwedSlots
        BY <1>2, <2>2 DEF OwedSlots
      <3>4. s \in OwedSlots' <=> SlotExists(s)
        BY <1>3, <1>4, <2>2, <3>1, <3>2 DEF OwedSlots
      <3>5. QED
        BY <2>2, <3>1, <3>2, <3>3, <3>4 DEF SlotsOf
    <2>3. CASE s[1] # l
      BY <1>4, <2>1, <2>3 DEF SlotsOf, OwedSlots, SlotExists, IsPaid, Exists
    <2>4. QED
      BY <2>2, <2>3
  <1>6. SlotsOf(l) \subseteq Slots
    BY DEF SlotsOf
  <1>7. SlotsOf(l) \cap (OwedSlots \cup PaidSlots) = {}
    BY <1>5 DEF SlotsOf, PaidSlots
  <1>8. OwedSlots' = OwedSlots \cup SlotsOf(l)
    BY <1>5 DEF OwedSlots, SlotsOf
  <1>9. PaidSlots' = PaidSlots
    BY <1>5 DEF PaidSlots
  <1>10. QED
    BY <1>6, <1>7, <1>8, <1>9 DEF Ledger!Owe

LEMMA PayoutRefines ==
    ASSUME IInv, NEW l \in ListIds, NEW k, PayoutBatch(l, k)
    PROVE  Ledger!Discharge({l} \X Batch(l, k))
  <1> DEFINE ps == lists[l].payments
             qs == MarkPaid(ps, Batch(l, k))
             S == {l} \X Batch(l, k)
  <1>1. /\ Exists(l) /\ lists'[l] # NoList
        /\ lists[l].status = "Approved" /\ lists'[l].status = "Approved"
        /\ lists'[l].payments = qs
        /\ \A m \in ListIds \ {l} : lists'[m] = lists[m]
    BY PayoutKeeps DEF PayoutBatch, HasStatus, Exists
  <1>2. /\ DOMAIN qs = DOMAIN ps
        /\ \A i \in DOMAIN ps :
              qs[i].status = IF i \in Batch(l, k) THEN "Paid" ELSE ps[i].status
    BY <1>1, ListFacts, MarkPaidType DEF IInv
  <1>3. \A i \in Batch(l, k) :
           i \in DOMAIN ps /\ ps[i].status = "Pending" /\ <<l, i>> \in Slots
    BY <1>1, BatchIsPending, ListFacts DEF IInv
  <1> HIDE DEF qs
  <1>4. ASSUME NEW s \in Slots
        PROVE  /\ s \in S => s \in OwedSlots
               /\ s \in OwedSlots' <=> s \in OwedSlots /\ s \notin S
               /\ IsPaid(s)' <=> IsPaid(s) \/ s \in S
    <2>1. s = <<s[1], s[2]>> /\ s[1] \in ListIds
      BY DEF Slots
    <2>2. CASE s[1] # l
      <3>1. s \notin S /\ lists'[s[1]] = lists[s[1]]
        BY <1>1, <2>1, <2>2
      <3>2. QED
        BY <3>1 DEF OwedSlots, SlotExists, IsPaid, Exists
    <2>3. CASE s[1] = l
      <3>1. s \in S <=> s[2] \in Batch(l, k)
        BY <2>1, <2>3
      <3>2. SlotExists(s) <=> s[2] \in DOMAIN ps
        BY <1>1, <2>3 DEF SlotExists
      <3>3. SlotExists(s)' <=> s[2] \in DOMAIN ps
        BY <1>1, <1>2, <2>3 DEF SlotExists, Exists
      <3>4. IsPaid(s) <=> s[2] \in DOMAIN ps /\ ps[s[2]].status = "Paid"
        BY <2>3, <3>2 DEF IsPaid
      <3>5. IsPaid(s)' <=> s[2] \in DOMAIN ps /\ qs[s[2]].status = "Paid"
        BY <1>1, <2>3, <3>3 DEF IsPaid
      <3>6. IsPaid(s)' <=> IsPaid(s) \/ s[2] \in Batch(l, k)
        BY <1>2, <1>3, <3>4, <3>5
      <3>7. s[2] \in Batch(l, k) => ~IsPaid(s) /\ SlotExists(s)
        BY <1>3, <3>2, <3>4
      <3>8. s \in OwedSlots <=> SlotExists(s) /\ ~IsPaid(s)
        BY <1>1, <2>3 DEF OwedSlots
      <3>9. s \in OwedSlots' <=> SlotExists(s) /\ ~IsPaid(s)'
        BY <1>1, <2>3, <3>2, <3>3 DEF OwedSlots
      <3>10. QED
        BY <3>1, <3>6, <3>7, <3>8, <3>9
    <2>4. QED
      BY <2>2, <2>3
  <1>5. S \subseteq Slots
    BY <1>3 DEF Slots
  <1>6. S \subseteq OwedSlots
    BY <1>4, <1>5
  <1>7. OwedSlots' = OwedSlots \ S
    BY <1>4 DEF OwedSlots
  <1>8. PaidSlots' = PaidSlots \cup S
    BY <1>4, <1>5 DEF PaidSlots
  <1>9. QED
    BY <1>6, <1>7, <1>8 DEF Ledger!Discharge

(* The contract implements the ledger of what it owes: a payment becomes   *)
(* owed with its list's approval and is discharged once, in some batch.    *)
THEOREM ContractImplementsLedger == Spec => LedgerSpec
  <1>1. Init => Ledger!Init
    BY DEF Init, Ledger!Init, OwedSlots, PaidSlots, IsPaid, SlotExists, Exists,
           Slots
  <1>2. IInv /\ [Next]_contractVars => [Ledger!Next]_(Ledger!ledgerVars)
    <2> SUFFICES ASSUME IInv, [Next]_contractVars
                 PROVE  Ledger!Next \/ UNCHANGED <<OwedSlots, PaidSlots>>
      BY DEF Ledger!ledgerVars
    <2>1. CASE UNCHANGED lists
      BY <2>1 DEF OwedSlots, PaidSlots, IsPaid, SlotExists, Exists
    <2>2. ASSUME NEW l \in ListIds, FundList(l)
          PROVE  Ledger!Next
      <3>1. SlotsOf(l) \in SUBSET Slots
        BY DEF SlotsOf
      <3>2. QED
        BY <2>2, <3>1, FundRefines DEF Ledger!Next
    <2>3. ASSUME NEW l \in ListIds, NEW k \in 1..MaxRecords, PayoutBatch(l, k)
          PROVE  Ledger!Next
      <3>1. Ledger!Discharge({l} \X Batch(l, k))
        BY <2>3, PayoutRefines
      <3>2. {l} \X Batch(l, k) \in SUBSET Slots
        BY <3>1 DEF Ledger!Discharge, OwedSlots
      <3>3. QED
        BY <3>1, <3>2 DEF Ledger!Next
    <2>4. ASSUME NEW c \in Accounts, NEW a \in Accounts, NEW l \in ListIds,
                 NEW t \in Tokens, NEW ps \in Inputs,
                 SubmitList(c, a, l, t, ps)
          PROVE  UNCHANGED <<OwedSlots, PaidSlots>>
      <3>1. /\ ~Exists(l)
            /\ lists'[l] = NewList(t, ps, a)
            /\ \A m \in ListIds \ {l} : lists'[m] = lists[m]
        BY <2>4, SubmitKeeps
      <3>2. /\ lists'[l].status = "Pending"
            /\ \A i \in DOMAIN lists'[l].payments :
                  lists'[l].payments[i].status = "Pending"
        BY <2>4, <3>1, NewListType DEF SubmitList, CanSubmit
      <3>3. ASSUME NEW s \in Slots
            PROVE  /\ s \in OwedSlots' <=> s \in OwedSlots
                   /\ IsPaid(s)' <=> IsPaid(s)
        <4>1. s[1] \in ListIds
          BY DEF Slots
        <4>2. CASE s[1] = l
          BY <3>1, <3>2, <4>2 DEF OwedSlots, IsPaid, SlotExists
        <4>3. CASE s[1] # l
          BY <3>1, <4>1, <4>3 DEF OwedSlots, IsPaid, SlotExists, Exists
        <4>4. QED
          BY <4>2, <4>3
      <3>4. QED
        BY <3>3 DEF OwedSlots, PaidSlots
    <2>5. ASSUME NEW a \in Accounts, NEW l \in ListIds, RejectList(a, l)
          PROVE  UNCHANGED <<OwedSlots, PaidSlots>>
      <3>1. HasStatus(l, "Pending") /\ SetStatus(l, "Rejected")
        BY <2>5 DEF RejectList
      <3>2. PaidExactlyOnce'
        BY <2>5, <3>1, DecideList DEF RejectList
      <3>3. /\ Exists(l) /\ lists[l] \in PaymentList
            /\ lists[l].status = "Pending"
        BY <3>1, ListFacts DEF IInv, HasStatus
      <3>4. /\ lists'[l].status = "Rejected"
            /\ \A m \in ListIds \ {l} : lists'[m] = lists[m]
        BY <3>1, <3>3 DEF SetStatus, IInv, TypeOK, PaymentList
      <3>5. ASSUME NEW s \in Slots
            PROVE  /\ s \in OwedSlots' <=> s \in OwedSlots
                   /\ IsPaid(s)' <=> IsPaid(s)
        <4>1. s[1] \in ListIds
          BY DEF Slots
        <4>2. CASE s[1] = l
          BY <3>2, <3>3, <3>4, <4>2 DEF OwedSlots, IInv, PaidExactlyOnce
        <4>3. CASE s[1] # l
          BY <3>4, <4>1, <4>3 DEF OwedSlots, IsPaid, SlotExists, Exists
        <4>4. QED
          BY <4>2, <4>3
      <3>6. QED
        BY <3>5 DEF OwedSlots, PaidSlots
    <2>6. QED
      BY <2>1, <2>2, <2>3, <2>4, <2>5
         DEF contractVars, Next, Call, Network, BuyStorage, DeliverTransfer,
             BounceTransfer
  <1>3. QED
    BY InitIInv, NextIInv, <1>1, <1>2, PTL DEF Spec, LedgerSpec, Ledger!Spec

-----------------------------------------------------------------------------
(* The service around the contract: its handlers, its queue and its worker *)

LandedListsExist ==
    \A r \in Requests : requests[r] \in {"landed", "charged"} => Exists(Wanted[r].list)
QueuedListsExist ==
    /\ \A l \in ListIds : queue[l] # "absent" => Exists(l)
    /\ \A l \in worker.todo : Exists(l)

(* What landed and is not charged yet may still be. *)
LandedOf(d) == {r \in Requests : Wanted[r].dao = d /\ requests[r] = "landed"}
ChargesAreLists ==
    \A d \in Treasuries : quota[d] \in Nat =>
        InitialQuota - quota[d] + Cardinality(LandedOf(d)) <= Cardinality(ListsOf(d))

ServiceInv ==
    /\ ServiceTypeOK /\ PaidExactlyOnce
    /\ LandedListsExist /\ QueuedListsExist
    /\ CompletedIsOver /\ ChargesAreLists

LEMMA WantedFacts ==
    ASSUME NEW r \in Requests
    PROVE  /\ Wanted[r].list \in ListIds /\ Wanted[r].dao \in Accounts
           /\ Wanted[r].submitter \in Accounts /\ Wanted[r].token \in Tokens
           /\ Wanted[r].payments \in Inputs /\ Wanted[r].dao \in Treasuries
  BY WantedAssumption DEF Treasuries

(* The one transaction that buys storage and submits keeps what each of    *)
(* its two calls does.                                                     *)
LEMMA BuyAndSubmitKeeps ==
    ASSUME IInv, NEW r \in Requests, BuyAndSubmit(Wanted[r])
    PROVE  /\ IInv' /\ ~Exists(Wanted[r].list) /\ Exists(Wanted[r].list)'
           /\ \A m \in ListIds : Exists(m) => Exists(m)' /\ KeepsDecision(m)
  <1>1. PICK w : w = Wanted[r]
    OBVIOUS
  <1>2. /\ w.list \in ListIds /\ w.dao \in Accounts /\ w.submitter \in Accounts
        /\ w.token \in Tokens /\ w.payments \in Inputs
    BY <1>1, WantedFacts
  <1>3. PICK n : n = Len(w.payments)
    OBVIOUS
  <1>4. PICK bought1 : bought1 = [credits EXCEPT ![w.dao] = @ + n]
    OBVIOUS
  <1>5. /\ ~Exists(w.list) /\ w.payments # <<>> /\ bought1[w.submitter] >= n
        /\ bought' = [bought EXCEPT ![w.dao] = @ + n]
        /\ credits' = [bought1 EXCEPT ![w.submitter] = @ - n]
        /\ lists' = [lists EXCEPT ![w.list] = NewList(w.token, w.payments, w.submitter)]
        /\ UNCHANGED <<promises, funds>>
    <2>1. BuyAndSubmit(w)
      BY <1>1
    <2>2. /\ CanSubmit(w.list, w.payments, bought1[w.submitter])
          /\ bought' = [bought EXCEPT ![w.dao] = @ + n]
          /\ credits' = [bought1 EXCEPT ![w.submitter] = @ - n]
          /\ lists' = [lists EXCEPT ![w.list] = NewList(w.token, w.payments, w.submitter)]
          /\ UNCHANGED <<promises, funds>>
      BY <1>3, <1>4, <2>1 DEF BuyAndSubmit
    <2>3. QED
      BY <1>3, <2>2 DEF CanSubmit
  <1>6. n \in Nat
    BY <1>2, <1>3, <1>5, NewListType, BoundsAssumption
  <1>7. bought' \in [Accounts -> Nat] /\ bought1 \in [Accounts -> Nat]
    <2>1. bought \in [Accounts -> Nat] /\ credits \in [Accounts -> Nat]
      BY DEF IInv, TypeOK
    <2>2. bought[w.dao] + n \in Nat /\ credits[w.dao] + n \in Nat
      BY <1>2, <1>6, <2>1
    <2>3. QED
      BY <1>4, <1>5, <2>1, <2>2
  <1>8. credits' \in [Accounts -> Nat]
    <2>1. bought1[w.submitter] - n \in Nat
      BY <1>2, <1>5, <1>6, <1>7
    <2>2. QED
      BY <1>5, <1>7, <2>1
  <1>9. /\ ListsOK(lists') /\ PaidExactlyOnce' /\ Exists(w.list)'
        /\ \A m \in ListIds : Exists(m) => Exists(m)' /\ KeepsDecision(m)
    BY <1>2, <1>5, StoreList
  <1>10. TypeOK'
    BY <1>5, <1>7, <1>8, <1>9 DEF IInv, TypeOK, ListsOK
  <1>11. QED
    BY <1>1, <1>5, <1>9, <1>10 DEF IInv

Lands(r) == SubmitLands(r) \/ SubmitAnswerLost(r)

(* The calls that happen, of the service and of everybody else, are calls  *)
(* of the contract: none undoes a decision.                                *)
LEMMA ServiceKeepsLists ==
    ASSUME IInv, [ServiceNext]_vars
    PROVE  /\ IInv' /\ \A m \in ListIds : Exists(m) => Exists(m)' /\ KeepsDecision(m)
  <1>1. CASE UNCHANGED contractVars
    <2>1. IInv'
      BY <1>1, NextIInv
    <2>2. QED
      BY <1>1, <2>1 DEF contractVars, Exists, KeepsDecision
  <1>2. CASE Next
    <2>1. IInv'
      BY <1>2, NextIInv
    <2>2. \A m \in ListIds : Exists(m) => Exists(m)' /\ KeepsDecision(m)
      BY <1>2, StepKeeps, SubmitKeeps
    <2>3. QED
      BY <2>1, <2>2
  <1>3. ASSUME NEW r \in Requests, Handler(r)
        PROVE  UNCHANGED contractVars \/ BuyAndSubmit(Wanted[r])
    BY <1>3 DEF Handler, CheckRequest, RefuseRequest, SubmitLands, SubmitAnswerLost,
                SubmitFails, ChargeQuota, EnqueueList
  <1>4. ASSUME NEW l \in ListIds, PayList(l)
        PROVE  Next
    <2>1. PayoutBatch(l, WorkerBatch) /\ WorkerBatch \in 1..MaxRecords
      BY <1>4, ServiceBounds DEF PayList
    <2>2. QED
      BY <2>1 DEF Next, Call
  <1>5. ASSUME Worker PROVE UNCHANGED contractVars \/ Next
    BY <1>4, <1>5 DEF Worker, ScanQueue, EndPass, ViewList, ViewFails, PayFails
  <1>6. ASSUME Outside PROVE Next
    BY <1>6 DEF Outside, Decide, SomebodyPays, Next, Call
  <1>7. QED
    BY <1>1, <1>2, <1>3, <1>5, <1>6, BuyAndSubmitKeeps DEF ServiceNext, Crash, vars

LEMMA OverStaysOver ==
    ASSUME TypeOK, NEW l \in ListIds, Exists(l), Exists(l)', KeepsDecision(l), Over(l)
    PROVE  Over(l)'
  <1>1. lists[l] \in PaymentList /\ \A i \in DOMAIN lists[l].payments :
            lists[l].payments[i] \in PaymentRecord
    BY ListFacts
  <1>2. lists[l].status # "Pending" /\ lists'[l].status = lists[l].status
    BY DEF Over, HasStatus, KeepsDecision
  <1>3. ASSUME lists'[l].status = "Approved" PROVE PendingOf(l)' = {}
    <2>1. \A i \in DOMAIN lists[l].payments : lists[l].payments[i].status # "Pending"
      BY <1>2, <1>3 DEF Over, HasStatus, PendingOf
    <2>2. \A i \in DOMAIN lists[l].payments : lists[l].payments[i].status = "Paid"
      BY <1>1, <2>1 DEF PaymentRecord
    <2>3. QED
      BY <2>2 DEF KeepsDecision, PendingOf
  <1>4. QED
    BY <1>2, <1>3 DEF Over, HasStatus

(* The worker's pass goes on with one list less, or with none to pay.      *)
Passes == [pass : {"idle", "scanning"}, todo : SUBSET ListIds, paying : SUBSET ListIds]

LEMMA PassChanges ==
    ASSUME NEW w \in Passes, NEW X \in SUBSET ListIds
    PROVE  /\ [w EXCEPT !.todo = X] \in Passes /\ [w EXCEPT !.todo = X].todo = X
           /\ [w EXCEPT !.paying = X] \in Passes /\ [w EXCEPT !.paying = X].todo = w.todo
  BY DEF Passes

LEMMA PassGoesOn ==
    ASSUME NEW w \in Passes, NEW X \in SUBSET ListIds, NEW Y \in SUBSET ListIds
    PROVE  /\ [w EXCEPT !.todo = X, !.paying = Y] \in Passes
           /\ [w EXCEPT !.todo = X, !.paying = Y].todo = X
  BY DEF Passes

LEMMA PassSteps ==
    ASSUME ServiceTypeOK, NEW l \in ListIds,
           ViewList(l) \/ ViewFails(l) \/ PayList(l) \/ PayFails(l)
    PROVE  worker' \in Passes /\ worker'.todo \subseteq worker.todo
  <1>1. worker \in Passes /\ worker.todo \subseteq ListIds
    BY DEF ServiceTypeOK, Passes
  <1>2. PICK X : X = worker.todo \ {l}
    OBVIOUS
  <1>3. CASE ViewList(l)
    <2>1. PICK Y : Y = IF HasStatus(l, "Approved") /\ ~Over(l) THEN {l} ELSE {}
      OBVIOUS
    <2>2. worker' = [worker EXCEPT !.todo = X, !.paying = Y]
      BY <1>2, <1>3, <2>1 DEF ViewList
    <2>3. X \in SUBSET ListIds /\ Y \in SUBSET ListIds
      BY <1>1, <1>2, <2>1
    <2>4. [worker EXCEPT !.todo = X, !.paying = Y] \in Passes
          /\ [worker EXCEPT !.todo = X, !.paying = Y].todo = X
      BY <1>1, <2>3, PassGoesOn
    <2>5. QED
      BY <1>2, <2>2, <2>4
  <1>4. CASE ViewFails(l)
    <2>1. worker' = [worker EXCEPT !.todo = X] /\ X \in SUBSET ListIds
      BY <1>1, <1>2, <1>4 DEF ViewFails
    <2>2. [worker EXCEPT !.todo = X] \in Passes /\ [worker EXCEPT !.todo = X].todo = X
      BY <1>1, <2>1, PassChanges
    <2>3. QED
      BY <1>2, <2>1, <2>2
  <1>5. CASE PayList(l) \/ PayFails(l)
    <2>1. worker' = [worker EXCEPT !.paying = {}]
      BY <1>5 DEF PayList, PayFails
    <2>2. {} \in SUBSET ListIds
      OBVIOUS
    <2>3. [worker EXCEPT !.paying = {}] \in Passes
          /\ [worker EXCEPT !.paying = {}].todo = worker.todo
      BY <1>1, <2>2, PassChanges
    <2>4. QED
      BY <2>1, <2>3
  <1>6. QED
    BY <1>3, <1>4, <1>5

LEMMA ServiceTypeKept ==
    ASSUME ServiceTypeOK, TypeOK', [ServiceNext]_vars
    PROVE  ServiceTypeOK'
  <1> DEFINE R == {"new", "allowed", "landed", "charged", "done", "failed", "lost"}
  <1>1. ASSUME NEW r \in Requests, NEW from, NEW to \in R, Advance(r, from, to)
        PROVE  requests' \in [Requests -> R]
    BY <1>1 DEF Advance, ServiceTypeOK
  <1>2. Idle \in [pass : {"idle", "scanning"}, todo : SUBSET ListIds, paying : SUBSET ListIds]
    BY DEF Idle
  <1>3. ASSUME NEW r \in Requests, Handler(r)
        PROVE  ServiceTypeOK'
    <2>1. requests' \in [Requests -> R] /\ UNCHANGED <<worker, crashes>>
      BY <1>1, <1>3 DEF Handler, CheckRequest, RefuseRequest, SubmitLands, SubmitAnswerLost,
                        SubmitFails, ChargeQuota, EnqueueList
    <2>2. quota' \in [Treasuries -> Nat \cup {NoPlan}]
      <3>1. CASE UNCHANGED quota
        BY <3>1 DEF ServiceTypeOK
      <3>2. CASE /\ quota[Wanted[r].dao] \in Nat \ {0}
                 /\ quota' = [quota EXCEPT ![Wanted[r].dao] = @ - 1]
        BY <3>2, WantedFacts DEF ServiceTypeOK
      <3>3. QED
        <4>1. CASE ChargeQuota(r)
          <5>1. PICK d : d = Wanted[r].dao
            OBVIOUS
          <5>2. quota' = quota \/ (quota' = [quota EXCEPT ![d] = @ - 1] /\ quota[d] \in Nat \ {0})
            BY <4>1, <5>1 DEF ChargeQuota
          <5>3. QED
            BY <3>1, <3>2, <5>1, <5>2
        <4>2. CASE ~ChargeQuota(r)
          BY <1>3, <3>1, <4>2 DEF Handler, CheckRequest, RefuseRequest, SubmitLands,
                SubmitAnswerLost, SubmitFails, EnqueueList
        <4>3. QED
          BY <4>1, <4>2
    <2>3. queue' \in [ListIds -> {"absent", "queued", "completed"}]
      BY <1>3 DEF Handler, CheckRequest, RefuseRequest, SubmitLands, SubmitAnswerLost,
                  SubmitFails, ChargeQuota, EnqueueList, ServiceTypeOK
    <2>4. QED
      BY <2>1, <2>2, <2>3 DEF ServiceTypeOK
  <1>4. ASSUME Worker
        PROVE  ServiceTypeOK'
    <2>1. UNCHANGED <<requests, quota, crashes>>
      BY <1>4 DEF Worker, ScanQueue, EndPass, ViewList, ViewFails, PayList, PayFails
    <2>2. queue' \in [ListIds -> {"absent", "queued", "completed"}]
      BY <1>4 DEF Worker, ScanQueue, EndPass, ViewList, ViewFails, PayList, PayFails, ServiceTypeOK
    <2>3. worker' \in [pass : {"idle", "scanning"}, todo : SUBSET ListIds, paying : SUBSET ListIds]
      <3>1. CASE ScanQueue
        BY <3>1 DEF ScanQueue
      <3>2. CASE EndPass
        BY <1>2, <3>2 DEF EndPass
      <3>3. ASSUME NEW l \in ListIds, ViewList(l) \/ ViewFails(l) \/ PayList(l) \/ PayFails(l)
            PROVE  worker' \in [pass : {"idle", "scanning"}, todo : SUBSET ListIds, paying : SUBSET ListIds]
        BY <3>3, PassSteps DEF ServiceTypeOK, Passes
      <3>4. QED
        BY <1>4, <3>1, <3>2, <3>3 DEF Worker
    <2>4. QED
      BY <2>1, <2>2, <2>3 DEF ServiceTypeOK
  <1>5. CASE Crash
    BY <1>2, <1>5, ServiceBounds DEF Crash, ServiceTypeOK
  <1>6. CASE UNCHANGED serviceVars
    BY <1>6 DEF serviceVars, ServiceTypeOK
  <1>7. QED
    BY <1>3, <1>4, <1>5, <1>6 DEF ServiceNext, Outside, vars

(* Where a step may take a request, and what it may do to the queue.       *)
LEMMA RequestSteps ==
    ASSUME ServiceTypeOK, [ServiceNext]_vars, NEW q \in Requests
    PROVE  /\ requests'[q] \in {"landed", "charged"} =>
                 requests[q] \in {"landed", "charged"} \/ Lands(q)
           /\ requests'[q] = "landed" => requests[q] = "landed" \/ SubmitLands(q)
  <1>1. CASE UNCHANGED requests
    BY <1>1
  <1>2. CASE Crash
    BY <1>2 DEF Crash
  <1>3. ASSUME NEW r \in Requests, NEW from, NEW to, Advance(r, from, to),
               to \notin {"landed", "charged"}
        PROVE  requests'[q] \in {"landed", "charged"} => requests'[q] = requests[q]
    BY <1>3 DEF Advance, ServiceTypeOK
  <1>4. ASSUME NEW r \in Requests, Handler(r)
        PROVE  /\ requests'[q] \in {"landed", "charged"} =>
                    requests[q] \in {"landed", "charged"} \/ Lands(q)
               /\ requests'[q] = "landed" => requests[q] = "landed" \/ SubmitLands(q)
    <2>1. CASE SubmitLands(r)
      BY <2>1 DEF SubmitLands, Advance, Lands, ServiceTypeOK
    <2>2. CASE ChargeQuota(r)
      BY <2>2 DEF ChargeQuota, Advance, ServiceTypeOK
    <2>3. CASE CheckRequest(r) \/ RefuseRequest(r) \/ SubmitAnswerLost(r) \/ SubmitFails(r)
                 \/ EnqueueList(r)
      BY <1>3, <2>3 DEF CheckRequest, RefuseRequest, SubmitAnswerLost, SubmitFails, EnqueueList
    <2>4. QED
      BY <1>4, <2>1, <2>2, <2>3 DEF Handler
  <1>5. CASE Worker
    BY <1>1, <1>5 DEF Worker, ScanQueue, EndPass, ViewList, ViewFails, PayList, PayFails
  <1>6. CASE Outside
    BY <1>1, <1>6 DEF Outside, serviceVars
  <1>7. QED
    BY <1>1, <1>2, <1>4, <1>5, <1>6 DEF ServiceNext, vars, serviceVars

LEMMA QueueSteps ==
    ASSUME ServiceTypeOK, [ServiceNext]_vars, NEW l \in ListIds
    PROVE  \/ queue'[l] = queue[l]
           \/ queue'[l] = "queued"
              /\ \E r \in Requests : requests[r] = "charged" /\ l = Wanted[r].list
           \/ l \in worker.todo /\ Over(l) /\ UNCHANGED contractVars
  <1>1. CASE UNCHANGED queue
    BY <1>1
  <1>2. ASSUME NEW r \in Requests, Handler(r)
        PROVE  \/ queue'[l] = queue[l]
               \/ queue'[l] = "queued" /\ requests[r] = "charged" /\ l = Wanted[r].list
    <2>1. CASE EnqueueList(r)
      BY <2>1, WantedFacts DEF EnqueueList, Advance, ServiceTypeOK
    <2>2. CASE ~EnqueueList(r)
      BY <1>2, <2>2 DEF Handler, CheckRequest, RefuseRequest, SubmitLands, SubmitAnswerLost,
                        SubmitFails, ChargeQuota
    <2>3. QED
      BY <2>1, <2>2
  <1>3. ASSUME NEW m \in ListIds, ViewList(m)
        PROVE  \/ queue'[l] = queue[l]
               \/ l \in worker.todo /\ Over(l) /\ UNCHANGED contractVars
    <2>1. UNCHANGED contractVars /\ m \in worker.todo
          /\ queue' = IF Over(m) THEN [queue EXCEPT ![m] = "completed"] ELSE queue
      BY <1>3 DEF ViewList
    <2>2. CASE l = m /\ Over(m)
      BY <2>1, <2>2
    <2>3. CASE l # m \/ ~Over(m)
      BY <2>1, <2>3 DEF ServiceTypeOK
    <2>4. QED
      BY <2>2, <2>3
  <1>4. CASE Worker
    BY <1>1, <1>3, <1>4 DEF Worker, ScanQueue, EndPass, ViewFails, PayList, PayFails
  <1>5. QED
    BY <1>1, <1>2, <1>4 DEF ServiceNext, Crash, Outside, vars, serviceVars

LEMMA TodoSteps ==
    ASSUME ServiceTypeOK, [ServiceNext]_vars
    PROVE  \A l \in worker'.todo :
               l \in worker.todo \/ (l \in ListIds /\ queue[l] = "queued")
  <1>1. CASE UNCHANGED worker
    BY <1>1
  <1>2. CASE ScanQueue
    BY <1>2 DEF ScanQueue
  <1>3. CASE EndPass \/ Crash
    BY <1>3 DEF EndPass, Crash, Idle
  <1>4. ASSUME NEW l \in ListIds, ViewList(l) \/ ViewFails(l) \/ PayList(l) \/ PayFails(l)
        PROVE  worker'.todo \subseteq worker.todo
    BY <1>4, PassSteps
  <1>5. ASSUME NEW r \in Requests, Handler(r) PROVE UNCHANGED worker
    BY <1>5 DEF Handler, CheckRequest, RefuseRequest, SubmitLands, SubmitAnswerLost,
                SubmitFails, ChargeQuota, EnqueueList
  <1>6. CASE Worker
    <2>1. CASE ScanQueue \/ EndPass
      BY <1>2, <1>3, <2>1
    <2>2. CASE \E l \in ListIds : ViewList(l) \/ ViewFails(l) \/ PayList(l) \/ PayFails(l)
      BY <1>4, <2>2
    <2>3. QED
      BY <1>6, <2>1, <2>2 DEF Worker
  <1>7. QED
    BY <1>1, <1>3, <1>5, <1>6 DEF ServiceNext, Outside, vars, serviceVars

LEMMA WorkIsOnLists ==
    ASSUME ServiceTypeOK, LandedListsExist, QueuedListsExist, CompletedIsOver,
           \A m \in ListIds : Exists(m) => Exists(m)' /\ KeepsDecision(m),
           \A r \in Requests : Lands(r) => Exists(Wanted[r].list)',
           [ServiceNext]_vars
    PROVE  LandedListsExist' /\ QueuedListsExist' /\ CompletedIsOver'
  <1>1. LandedListsExist'
    <2>1. SUFFICES ASSUME NEW q \in Requests, requests'[q] \in {"landed", "charged"}
                   PROVE  Exists(Wanted[q].list)'
      BY DEF LandedListsExist
    <2>2. requests[q] \in {"landed", "charged"} \/ Lands(q)
      BY <2>1, RequestSteps
    <2>3. QED
      BY <2>2, WantedFacts DEF LandedListsExist
  <1>2. ASSUME NEW l \in ListIds, queue'[l] # "absent" PROVE Exists(l)'
    <2>1. Exists(l)
      BY <1>2, QueueSteps DEF LandedListsExist, QueuedListsExist
    <2>2. QED
      BY <2>1
  <1>3. ASSUME NEW l \in worker'.todo PROVE Exists(l)'
    <2>1. l \in ListIds /\ Exists(l)
      BY <1>3, TodoSteps DEF QueuedListsExist, ServiceTypeOK
    <2>2. QED
      BY <2>1
  <1>4. ASSUME NEW l \in ListIds, queue'[l] = "completed" PROVE Over(l)'
    <2>1. Exists(l) /\ Over(l)
      BY <1>4, QueueSteps DEF CompletedIsOver, QueuedListsExist
    <2>2. TypeOK
      BY DEF ServiceTypeOK
    <2>3. QED
      BY <2>1, <2>2, OverStaysOver
  <1>5. QED
    BY <1>1, <1>2, <1>3, <1>4 DEF QueuedListsExist, CompletedIsOver

-----------------------------------------------------------------------------
(* Charges *)

WantedLists == {Wanted[r].list : r \in Requests}

LEMMA WantedListsAreFinite == IsFiniteSet(WantedLists)
  <1>1. PICK f : f = [r \in Requests |-> Wanted[r].list]
    OBVIOUS
  <1>2. f \in Surjection(Requests, WantedLists)
    BY <1>1 DEF Surjection, WantedLists
  <1>3. QED
    BY <1>2, RequestsAreFinite, FS_Surjection

LEMMA CountSubset ==
    ASSUME NEW S, NEW T, IsFiniteSet(T), S \subseteq T
    PROVE  Cardinality(S) <= Cardinality(T) /\ Cardinality(S) \in Nat /\ Cardinality(T) \in Nat
  BY FS_Subset, FS_CardinalityType

(* What is charged and may still be is covered by lists, in every step.    *)
LEMMA ChargesKept ==
    ASSUME ServiceTypeOK, ServiceTypeOK', ChargesAreLists, [ServiceNext]_vars,
           \A m \in ListIds : Exists(m) => Exists(m)' /\ KeepsDecision(m),
           \A r \in Requests : Lands(r) => ~Exists(Wanted[r].list) /\ Exists(Wanted[r].list)'
    PROVE  ChargesAreLists'
  <1>1. SUFFICES ASSUME NEW d \in Treasuries, quota'[d] \in Nat
                 PROVE  InitialQuota - quota'[d] + Cardinality(LandedOf(d)') <= Cardinality(ListsOf(d)')
    BY DEF ChargesAreLists
  <1>2. PICK L, M, A, B : L = LandedOf(d) /\ M = LandedOf(d)' /\ A = ListsOf(d) /\ B = ListsOf(d)'
    OBVIOUS
  <1>3. /\ L \subseteq Requests /\ M \subseteq Requests
        /\ A \subseteq WantedLists /\ B \subseteq WantedLists
    BY <1>2 DEF LandedOf, ListsOf, WantedLists
  <1>4. /\ IsFiniteSet(L) /\ Cardinality(L) \in Nat /\ IsFiniteSet(A) /\ Cardinality(A) \in Nat
        /\ IsFiniteSet(M) /\ Cardinality(M) \in Nat /\ IsFiniteSet(B) /\ Cardinality(B) \in Nat
    BY <1>3, RequestsAreFinite, WantedListsAreFinite, FS_Subset, FS_CardinalityType
  <1>5. A \subseteq B /\ Cardinality(A) <= Cardinality(B)
    <2>1. A \subseteq B
      BY <1>2, WantedFacts DEF ListsOf
    <2>2. QED
      BY <1>4, <2>1, CountSubset
  <1>7. CASE \E r \in Requests : SubmitLands(r) /\ Wanted[r].dao = d
    <2>1. PICK r \in Requests : SubmitLands(r) /\ Wanted[r].dao = d
      BY <1>7
    <2>2. requests[r] = "allowed" /\ requests' = [requests EXCEPT ![r] = "landed"] /\ quota' = quota
      BY <2>1 DEF SubmitLands, Advance
    <2>3. M = L \cup {r} /\ r \notin L
      BY <1>2, <2>1, <2>2 DEF LandedOf, ServiceTypeOK
    <2>4. Cardinality(M) = Cardinality(L) + 1
      BY <1>4, <2>3, FS_AddElement
    <2>5. Wanted[r].list \in B /\ Wanted[r].list \notin A
      <3>1. ~Exists(Wanted[r].list) /\ Exists(Wanted[r].list)'
        BY <2>1 DEF Lands
      <3>2. QED
        BY <1>2, <2>1, <3>1 DEF ListsOf
    <2>6. Cardinality(A) + 1 <= Cardinality(B)
      <3>1. A \cup {Wanted[r].list} \subseteq B
        BY <1>5, <2>5
      <3>2. Cardinality(A \cup {Wanted[r].list}) = Cardinality(A) + 1
        BY <1>4, <2>5, FS_AddElement
      <3>3. Cardinality(A \cup {Wanted[r].list}) <= Cardinality(B)
        BY <1>4, <3>1, CountSubset
      <3>4. QED
        BY <3>2, <3>3
    <2>7. QED
      BY <1>1, <1>2, <1>4, <2>2, <2>4, <2>6, ServiceBounds DEF ChargesAreLists
  <1>8. CASE \E r \in Requests : ChargeQuota(r) /\ Wanted[r].dao = d
    <2>1. PICK r \in Requests : ChargeQuota(r) /\ Wanted[r].dao = d
      BY <1>8
    <2>2. /\ requests[r] = "landed" /\ requests' = [requests EXCEPT ![r] = "charged"]
          /\ \/ quota' = quota
             \/ quota' = [quota EXCEPT ![d] = @ - 1] /\ quota[d] \in Nat \ {0}
      BY <2>1 DEF ChargeQuota, Advance
    <2>3. M = L \ {r} /\ r \in L
      BY <1>2, <2>1, <2>2 DEF LandedOf, ServiceTypeOK
    <2>4. Cardinality(M) = Cardinality(L) - 1
      BY <1>4, <2>3, FS_RemoveElement
    <2>5. quota[d] \in Nat /\ (quota'[d] = quota[d] \/ quota'[d] = quota[d] - 1)
      BY <1>1, <2>2 DEF ServiceTypeOK
    <2>6. InitialQuota - quota[d] + Cardinality(L) <= Cardinality(A)
      BY <1>2, <2>5 DEF ChargesAreLists
    <2>7. PICK q, p, x, y, m : /\ q = quota[d] /\ p = quota'[d] /\ x = Cardinality(L)
                               /\ y = Cardinality(A) /\ m = Cardinality(B)
      OBVIOUS
    <2>8. /\ q \in Nat /\ (p = q \/ p = q - 1) /\ x \in Nat /\ y \in Nat /\ m \in Nat
          /\ InitialQuota - q + x <= y /\ y <= m
      BY <1>4, <1>5, <2>5, <2>6, <2>7
    <2>9. InitialQuota - p + (x - 1) <= m
      BY <2>8, ServiceBounds
    <2>10. QED
      BY <1>2, <2>4, <2>7, <2>9
  <1>9. CASE \A r \in Requests : ~(SubmitLands(r) /\ Wanted[r].dao = d)
                                   /\ ~(ChargeQuota(r) /\ Wanted[r].dao = d)
    <2>1. quota'[d] = quota[d]
      <3>1. CASE UNCHANGED quota
        BY <3>1
      <3>2. ASSUME NEW r \in Requests, Handler(r) PROVE quota'[d] = quota[d]
        <4>1. CASE ChargeQuota(r)
          BY <1>9, <4>1 DEF ChargeQuota, ServiceTypeOK
        <4>2. CASE ~ChargeQuota(r)
          BY <3>2, <4>2 DEF Handler, CheckRequest, RefuseRequest, SubmitLands, SubmitAnswerLost,
                            SubmitFails, EnqueueList
        <4>3. QED
          BY <4>1, <4>2
      <3>3. QED
        BY <3>1, <3>2 DEF ServiceNext, Worker, ScanQueue, EndPass, ViewList, ViewFails, PayList,
              PayFails, Crash, Outside, vars, serviceVars
    <2>2. M \subseteq L
      BY <1>2, <1>9, RequestSteps DEF LandedOf
    <2>3. Cardinality(M) <= Cardinality(L)
      BY <1>4, <2>2, CountSubset
    <2>4. InitialQuota - quota[d] + Cardinality(L) <= Cardinality(A) /\ quota[d] \in Nat
      BY <1>1, <1>2, <2>1 DEF ChargesAreLists
    <2>5. PICK q, x, y, m, n : /\ q = quota[d] /\ x = Cardinality(L) /\ n = Cardinality(M)
                               /\ y = Cardinality(A) /\ m = Cardinality(B)
      OBVIOUS
    <2>6. InitialQuota - q + n <= m
      BY <1>4, <1>5, <2>3, <2>4, <2>5, ServiceBounds
    <2>7. QED
      BY <1>2, <2>1, <2>5, <2>6
  <1>10. QED
    BY <1>7, <1>8, <1>9

LEMMA ServiceStarts == ServiceInit => ServiceInv
  <1> SUFFICES ASSUME ServiceInit PROVE ServiceInv
    OBVIOUS
  <1>1. IInv /\ \A l \in ListIds : queue[l] = "absent"
    BY InitIInv DEF ServiceInit
  <1>2. ServiceTypeOK
    BY <1>1, ServiceBounds DEF ServiceInit, ServiceTypeOK, IInv, Idle
  <1>3. /\ \A r \in Requests : requests[r] = "new"
        /\ \A d \in Treasuries : quota[d] \in {InitialQuota, NoPlan}
        /\ worker.todo = {}
    BY DEF ServiceInit, Idle
  <1>4. ChargesAreLists
    <2>1. SUFFICES ASSUME NEW d \in Treasuries, quota[d] \in Nat
                   PROVE  InitialQuota - quota[d] + Cardinality(LandedOf(d)) <= Cardinality(ListsOf(d))
      BY DEF ChargesAreLists
    <2>2. quota[d] = InitialQuota
      BY <1>3, <2>1, ServiceBounds
    <2>3. LandedOf(d) = {}
      BY <1>3 DEF LandedOf
    <2>4. Cardinality(LandedOf(d)) = 0
      BY <2>3, FS_EmptySet
    <2>5. ListsOf(d) \subseteq WantedLists
      BY DEF ListsOf, WantedLists
    <2>6. Cardinality(ListsOf(d)) \in Nat
      BY <2>5, WantedListsAreFinite, CountSubset
    <2>7. QED
      BY <2>2, <2>4, <2>6, ServiceBounds
  <1>5. LandedListsExist /\ QueuedListsExist /\ CompletedIsOver
    BY <1>1, <1>3 DEF LandedListsExist, QueuedListsExist, CompletedIsOver
  <1>6. QED
    BY <1>1, <1>2, <1>4, <1>5 DEF ServiceInv, IInv

LEMMA ServiceInvHolds == ServiceSpec => []ServiceInv
  <1>1. ServiceInv /\ [ServiceNext]_vars => ServiceInv'
    <2> SUFFICES ASSUME ServiceInv, [ServiceNext]_vars PROVE ServiceInv'
      OBVIOUS
    <2>1. IInv /\ ServiceTypeOK
      BY DEF ServiceInv, ServiceTypeOK, IInv
    <2>2. IInv' /\ \A m \in ListIds : Exists(m) => Exists(m)' /\ KeepsDecision(m)
      BY <2>1, ServiceKeepsLists
    <2>3. \A r \in Requests : Lands(r) => ~Exists(Wanted[r].list) /\ Exists(Wanted[r].list)'
      BY <2>1, BuyAndSubmitKeeps DEF Lands, SubmitLands, SubmitAnswerLost
    <2>4. TypeOK' /\ PaidExactlyOnce'
      BY <2>2 DEF IInv
    <2>5. ServiceTypeOK'
      BY <2>1, <2>4, ServiceTypeKept
    <2>6. LandedListsExist' /\ QueuedListsExist' /\ CompletedIsOver'
      BY <2>1, <2>2, <2>3, WorkIsOnLists DEF ServiceInv
    <2>7. ChargesAreLists'
      BY <2>1, <2>2, <2>3, <2>5, ChargesKept DEF ServiceInv
    <2>8. QED
      BY <2>4, <2>5, <2>6, <2>7 DEF ServiceInv
  <1>2. QED
    BY <1>1, ServiceStarts, PTL DEF ServiceSpec

(* A row that the worker marks completed is of a list that is owed nothing *)
(* and never will be, although the view it read is overtaken by calls.     *)
THEOREM CompletedStaysOver == ServiceSpec => []CompletedIsOver
  <1>1. ServiceInv => CompletedIsOver
    BY DEF ServiceInv
  <1>2. QED
    BY <1>1, ServiceInvHolds, PTL

(* A treasury's quota never falls below what it had by more than the lists *)
(* that reached the contract for it: a crash, a lost answer or a request   *)
(* made twice charges nothing that was not submitted.                      *)
THEOREM QuotaPaysForLists == ServiceSpec => []ChargedForLists
  <1>1. ServiceInv => ChargedForLists
    <2> SUFFICES ASSUME ServiceInv, NEW d \in Treasuries, quota[d] \in Nat
                 PROVE  InitialQuota - quota[d] <= Cardinality(ListsOf(d))
      BY DEF ChargedForLists
    <2>1. InitialQuota - quota[d] + Cardinality(LandedOf(d)) <= Cardinality(ListsOf(d))
      BY DEF ServiceInv, ChargesAreLists
    <2>2. LandedOf(d) \subseteq Requests /\ ListsOf(d) \subseteq WantedLists
      BY DEF LandedOf, ListsOf, WantedLists
    <2>3. Cardinality(LandedOf(d)) \in Nat /\ Cardinality(ListsOf(d)) \in Nat
      BY <2>2, RequestsAreFinite, WantedListsAreFinite, CountSubset
    <2>4. QED
      BY <2>1, <2>3, ServiceBounds
  <1>2. QED
    BY <1>1, ServiceInvHolds, PTL
=============================================================================
