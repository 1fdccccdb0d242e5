------------------------ MODULE TreasuryPages_proofs ------------------------
(***************************************************************************)
(* Proofs about the pages of a treasury that send nothing to a contract:   *)
(* the queue of announcements, the deposit page, the exchange page, the    *)
(* wallet page with its connector, and the members page; for any values of *)
(* their constants.                                                        *)
(***************************************************************************)
EXTENDS AnnouncementQueue, DepositPage, ExchangeForm, WalletRequest, MembersPage, Sums

-----------------------------------------------------------------------------
(* The queue of announcements *)

(* What a pick grants: the screen goes to somebody who has something to    *)
(* announce, or to nobody because of a pause or for want of announcements. *)
LEMMA PickGrants ==
    ASSUME NEW next, NEW e \in [Items -> Entries], NEW came, NEW paused \in BOOLEAN,
           PickNextItemId(next, e, came, paused)
    PROVE  /\ next \in Items \cup {None}
           /\ next # None => next \in Items /\ e[next] = "eligible"
           /\ next = None => paused \/ Eligible(e) = {}
  BY QueueAssumption DEF PickNextItemId, Eligible

(* The same of the entries changed by one item, where a grant may stay.    *)
LEMMA KeepOrPickGrants ==
    ASSUME QueueInv, NEW e \in [Items -> Entries], NEW came, KeepOrPick(e, came)
    PROVE  /\ active' \in Items \cup {None}
           /\ active' # None => active' \in Items /\ e[active'] = "eligible"
           /\ active' = None => blocked \/ Eligible(e) = {}
  <1>1. CASE active # None /\ e[active] = "eligible"
    BY <1>1 DEF KeepOrPick, QueueInv, QueueTypeOK
  <1>2. CASE ~(active # None /\ e[active] = "eligible")
    <2>1. PickNextItemId(active', e, came, blocked) /\ blocked \in BOOLEAN
      BY <1>2 DEF KeepOrPick, QueueInv, QueueTypeOK
    <2>2. QED
      BY <2>1, PickGrants
  <1>3. QED
    BY <1>1, <1>2

(* Nobody holds the screen and the queue sleeps only if a pause is on.     *)
LEMMA TimedPausesWakeLater ==
    ASSUME QueueTypeOK', PausesAreTimed', active' = None => blocked' \/ Eligible(entry') = {}
    PROVE  NothingWaitsUnwoken'
  <1> SUFFICES ASSUME active' = None, Eligible(entry') # {}
               PROVE  \E i \in Registered' : i \in alarms' \cup unseen'
    BY DEF NothingWaitsUnwoken
  <1>1. PICK i \in Items : entry'[i] = "eligible"
    BY DEF Eligible, QueueTypeOK
  <1>2. i \in Registered'
    BY <1>1 DEF Registered
  <1>3. QED
    BY <1>2 DEF PausesAreTimed

LEMMA QueueInitInv == QueueInit => QueueInv
  <1> SUFFICES ASSUME QueueInit PROVE QueueInv
    OBVIOUS
  <1>1. QueueTypeOK
    <2>1. entry \in [Items -> Entries] /\ earlier \subseteq Items \X Items
      BY DEF QueueInit, Entries
    <2>2. pauses \in 0..MaxPauses /\ refreshes \in Nat
      BY QueueAssumption DEF QueueInit
    <2>3. QED
      BY <2>1, <2>2 DEF QueueInit, QueueTypeOK
  <1>2. Eligible(entry) = {}
    BY DEF QueueInit, Eligible
  <1>3. QED
    BY <1>1, <1>2 DEF QueueInit, QueueInv, QueueServes, ActiveIsEligible,
       NothingWaitsUnwoken, PausesAreTimed, TimersAreOwned

LEMMA QueueStepInv == QueueInv /\ [QueueNext]_queueVars => QueueInv'
  <1> SUFFICES ASSUME QueueInv, [QueueNext]_queueVars PROVE QueueInv'
    OBVIOUS
  <1> USE DEF QueueInv
  <1>1. ASSUME NEW i \in Items, NEW e \in Entries, UpsertItem(i, e)
        PROVE  QueueInv'
    <2>1. entry' \in [Items -> Entries] /\ earlier' \subseteq Items \X Items
      BY <1>1 DEF UpsertItem, QueueTypeOK, Registered
    <2>2. KeepOrPick(entry', earlier')
      BY <1>1 DEF UpsertItem
    <2>3. /\ active' \in Items \cup {None}
          /\ active' # None => active' \in Items /\ entry'[active'] = "eligible"
          /\ active' = None => blocked \/ Eligible(entry') = {}
      BY <2>1, <2>2, KeepOrPickGrants
    <2>4. Registered' = Registered \cup {i}
      BY <1>1 DEF UpsertItem, Registered, QueueTypeOK
    <2>5. alarms' \subseteq alarms \cup {i} /\ alarms \ {i} \subseteq alarms'
      BY <1>1 DEF UpsertItem, AlarmAtMount
    <2>6. QueueTypeOK'
      BY <1>1, <2>1, <2>3, <2>5 DEF UpsertItem, QueueTypeOK
    <2>7. TimersAreOwned'
      BY <1>1, <2>4, <2>5 DEF UpsertItem, TimersAreOwned
    <2>8. PausesAreTimed'
      BY <1>1, <2>4 DEF UpsertItem, AlarmAtMount, PausesAreTimed
    <2>9. QueueServes'
      <3>1. NothingWaitsUnwoken'
        BY <1>1, <2>3, <2>6, <2>8, TimedPausesWakeLater DEF UpsertItem
      <3>2. QED
        BY <2>3, <3>1 DEF QueueServes, ActiveIsEligible
    <2>10. QED
      BY <2>6, <2>7, <2>8, <2>9
  <1>2. ASSUME NEW i \in Items, RemoveItem(i)
        PROVE  QueueInv'
    <2>1. entry' \in [Items -> Entries] /\ earlier' \subseteq Items \X Items
      BY <1>2 DEF RemoveItem, QueueTypeOK, Entries
    <2>2. KeepOrPick(entry', earlier')
      BY <1>2 DEF RemoveItem
    <2>3. /\ active' \in Items \cup {None}
          /\ active' # None => active' \in Items /\ entry'[active'] = "eligible"
          /\ active' = None => blocked \/ Eligible(entry') = {}
      BY <2>1, <2>2, KeepOrPickGrants
    <2>4. Registered' = Registered \ {i}
      BY <1>2 DEF RemoveItem, Registered, QueueTypeOK
    <2>5. QueueTypeOK'
      BY <1>2, <2>1, <2>3 DEF RemoveItem, QueueTypeOK
    <2>6. TimersAreOwned' /\ PausesAreTimed'
      BY <1>2, <2>4 DEF RemoveItem, TimersAreOwned, PausesAreTimed
    <2>7. QueueServes'
      <3>1. NothingWaitsUnwoken'
        BY <1>2, <2>3, <2>5, <2>6, TimedPausesWakeLater DEF RemoveItem
      <3>2. QED
        BY <2>3, <3>1 DEF QueueServes, ActiveIsEligible
    <2>8. QED
      BY <2>5, <2>6, <2>7
  <1>3. ASSUME NEW later \in BOOLEAN, Pause(later)
        PROVE  /\ pauses' \in 0..MaxPauses /\ blocked' = TRUE
               /\ unseen' \in {unseen, Registered} /\ (blocked \/ unseen' = Registered)
    BY <1>3, QueueAssumption DEF Pause, QueueTypeOK
  <1>4. ASSUME NEW i \in Items, NEW rest \in BOOLEAN, NEW later \in BOOLEAN,
               ReleaseItem(i, rest, later)
        PROVE  QueueInv'
    <2>1. /\ pauses' \in 0..MaxPauses /\ blocked' \in BOOLEAN
          /\ unseen' \in {unseen, Registered} /\ (blocked' => blocked \/ unseen' = Registered)
          /\ (blocked => blocked')
      <3>1. CASE rest
        BY <1>4, <1>3, <3>1 DEF ReleaseItem
      <3>2. CASE ~rest
        <4>1. pauses' \in 0..MaxPauses
          BY <1>4, <3>2, QueueAssumption DEF ReleaseItem, QueueTypeOK
        <4>2. QED
          BY <1>4, <3>2, <4>1 DEF ReleaseItem, QueueTypeOK
      <3>3. QED
        BY <3>1, <3>2
    <2>2. entry' = entry /\ alarms' = alarms /\ Registered' = Registered
      BY <1>4 DEF ReleaseItem, Registered
    <2>3. /\ active' \in Items \cup {None}
          /\ active' # None => active' \in Items /\ entry[active'] = "eligible"
      BY <1>4, <2>1, PickGrants DEF ReleaseItem, QueueTypeOK, QueueServes, ActiveIsEligible
    <2>4. QueueTypeOK'
      BY <1>4, <2>1, <2>2, <2>3 DEF ReleaseItem, QueueTypeOK, Registered
    <2>5. TimersAreOwned' /\ PausesAreTimed'
      BY <2>1, <2>2 DEF TimersAreOwned, PausesAreTimed
    <2>6. NothingWaitsUnwoken'
      <3>1. CASE active = i
        <4>1. active' = None => blocked' \/ Eligible(entry) = {}
          BY <1>4, <3>1, <2>1, PickGrants DEF ReleaseItem, QueueTypeOK
        <4>2. QED
          BY <4>1, <2>2, <2>4, <2>5, TimedPausesWakeLater
      <3>2. CASE active # i
        BY <1>4, <3>2, <2>1, <2>2 DEF ReleaseItem, QueueServes, NothingWaitsUnwoken, Eligible
      <3>3. QED
        BY <3>1, <3>2
    <2>7. QED
      BY <2>2, <2>3, <2>4, <2>5, <2>6 DEF QueueServes, ActiveIsEligible
  <1>5. ASSUME NEW later \in BOOLEAN, Suppress(later)
        PROVE  QueueInv'
    <2>1. /\ pauses' \in 0..MaxPauses /\ blocked' = TRUE
          /\ unseen' \in {unseen, Registered} /\ (blocked \/ unseen' = Registered)
      BY <1>5, <1>3 DEF Suppress
    <2>2. active' = None /\ entry' = entry /\ alarms' = alarms /\ Registered' = Registered
      BY <1>5 DEF Suppress, Registered, PickNextItemId
    <2>3. QueueTypeOK'
      BY <1>5, <2>1, <2>2 DEF Suppress, QueueTypeOK, Registered
    <2>4. TimersAreOwned' /\ PausesAreTimed'
      BY <2>1, <2>2 DEF TimersAreOwned, PausesAreTimed
    <2>5. NothingWaitsUnwoken'
      BY <2>1, <2>2, <2>3, <2>4, TimedPausesWakeLater
    <2>6. QED
      BY <2>2, <2>3, <2>4, <2>5 DEF QueueServes, ActiveIsEligible
  <1>6. CASE RefreshFeatureAnnouncements
    <2>1. pauses' \in 0..MaxPauses /\ refreshes' \in Nat
      BY <1>6, QueueAssumption DEF RefreshFeatureAnnouncements, QueueTypeOK
    <2>2. QED
      BY <1>6, <2>1 DEF RefreshFeatureAnnouncements, QueueTypeOK, QueueServes, ActiveIsEligible,
         NothingWaitsUnwoken, PausesAreTimed, TimersAreOwned, Registered, Eligible
  <1>7. ASSUME Wake, entry' = entry, blocked' = blocked, QueueTypeOK',
               PausesAreTimed', TimersAreOwned'
        PROVE  QueueInv'
    <2>1. /\ active' # None => active' \in Items /\ entry[active'] = "eligible"
          /\ active' = None => blocked \/ Eligible(entry) = {}
      BY <1>7, PickGrants DEF Wake, QueueTypeOK
    <2>2. NothingWaitsUnwoken'
      BY <1>7, <2>1, TimedPausesWakeLater
    <2>3. QED
      BY <1>7, <2>1, <2>2 DEF QueueServes, ActiveIsEligible
  <1>8. ASSUME Wake, entry' = entry
        PROVE  active' \in Items \cup {None}
    BY <1>8, PickGrants DEF Wake, QueueTypeOK
  <1>9. CASE RefreshTimeout
    <2>1. refreshes' \in Nat
      BY <1>9 DEF RefreshTimeout, QueueTypeOK
    <2>2. QueueTypeOK'
      BY <1>9, <1>8, <2>1 DEF RefreshTimeout, QueueTypeOK
    <2>3. QED
      BY <1>9, <2>2, <1>7 DEF RefreshTimeout, PausesAreTimed, TimersAreOwned, Registered
  <1>10. ASSUME NEW i \in Items, SetAlarm(i)
         PROVE  QueueInv'
    BY <1>10 DEF SetAlarm, QueueTypeOK, QueueServes, ActiveIsEligible,
       NothingWaitsUnwoken, PausesAreTimed, TimersAreOwned, Registered, Eligible
  <1>11. CASE PauseEnds
    BY <1>11 DEF PauseEnds, QueueTypeOK, QueueServes, ActiveIsEligible,
       NothingWaitsUnwoken, PausesAreTimed, TimersAreOwned, Registered, Eligible
  <1>12. ASSUME NEW i \in Items, AlarmRings(i)
         PROVE  QueueInv'
    <2>1. QueueTypeOK'
      BY <1>12, <1>8 DEF AlarmRings, QueueTypeOK
    <2>2. PausesAreTimed' /\ TimersAreOwned'
      BY <1>12 DEF AlarmRings, PausesAreTimed, TimersAreOwned, Registered
    <2>3. QED
      BY <1>12, <2>1, <2>2, <1>7 DEF AlarmRings
  <1>13. CASE UNCHANGED queueVars
    BY <1>13 DEF queueVars, QueueTypeOK, QueueServes, ActiveIsEligible,
       NothingWaitsUnwoken, PausesAreTimed, TimersAreOwned, Registered, Eligible
  <1>14. QED
    BY <1>1, <1>2, <1>4, <1>5, <1>6, <1>9, <1>10, <1>11, <1>12, <1>13 DEF QueueNext

(* The queue of feature-announcement-queue.ts serves all that register:    *)
(* the screen is held only by an item that is there and has something to   *)
(* announce, and no announcement waits without a timer that wakes it.      *)
THEOREM QueueAlwaysServes == QueueSpec => []QueueServes
  <1>1. QueueInv => QueueServes
    BY DEF QueueInv
  <1>2. QED
    BY <1>1, QueueInitInv, QueueStepInv, PTL DEF QueueSpec

-----------------------------------------------------------------------------
(* The deposit page *)

(* A render keeps the fields of the form but for the tab and the           *)
(* acknowledgement, and it shows what the form says.                       *)
LEMMA RenderedKeeps ==
    ASSUME NEW d, IsForm(d)
    PROVE  /\ IsForm(Rendered(d))
           /\ Rendered(d).asset = d.asset /\ Rendered(d).network = d.network
           /\ Rendered(d).chosenBy = d.chosenBy /\ Rendered(d).info = d.info
           /\ Rendered(d).loading = d.loading /\ Rendered(d).agreed = d.agreed
           /\ Displayed(Rendered(d)) = Displayed(d)
           /\ Rendered(d).acknowledged =>
                  d.acknowledged /\ Displayed(d) = Displayed(deposit)
  <1>1. /\ IsForm(Rendered(d))
        /\ Rendered(d).asset = d.asset /\ Rendered(d).network = d.network
        /\ Rendered(d).chosenBy = d.chosenBy /\ Rendered(d).info = d.info
        /\ Rendered(d).loading = d.loading /\ Rendered(d).agreed = d.agreed
    BY DEF IsForm, Rendered
  <1>2. Rendered(d).source = IF FallbackOnly(d.network) THEN "confidential"
                             ELSE IF CanSwitchSource(d.network) THEN d.source ELSE "public"
    BY DEF IsForm, Rendered
  <1>3. Displayed(Rendered(d)) = Displayed(d)
    BY <1>1, <1>2 DEF Displayed, ConfidentialSource
  <1>4. Rendered(d).acknowledged => d.acknowledged /\ Displayed(d) = Displayed(deposit)
    BY DEF IsForm, Rendered
  <1>5. QED
    BY <1>1, <1>3, <1>4

(* So a render of a form with the same history keeps the acknowledgement   *)
(* and what was acknowledged together.                                     *)
LEMMA RenderedAgrees ==
    ASSUME NEW d, IsForm(d), deposit' = Rendered(d), AcknowledgedIsAgreed,
           d.agreed = deposit.agreed, d.acknowledged = deposit.acknowledged,
           UNCHANGED treasuryKind
    PROVE  IsForm(deposit') /\ AcknowledgedIsAgreed'
  <1>1. Displayed(deposit)' = Displayed(Rendered(d))
    BY DEF Displayed, ConfidentialSource, CanSwitchSource, FallbackOnly, OwnAddress
  <1>2. QED
    BY <1>1, RenderedKeeps DEF AcknowledgedIsAgreed

LEMMA DepositInitInv == DepositInit => DepositInv
  BY DEF DepositInit, DepositInv, IsForm, RequestsArePast, LatestIsSelections, InfoIsSelections,
     AcknowledgedIsAgreed, ChosenIsNotLoading, LoadingIsAwaited

(* The page or the user selects: the effect is due, and nothing that could *)
(* arrive before it is taken for the new selection.                        *)
LEMMA SelectionKeepsInv ==
    ASSUME DepositInv, NEW d, IsForm(d), deposit' = Rendered(d),
           d.agreed = deposit.agreed, d.acknowledged = deposit.acknowledged,
           d.chosenBy = "page" \/ ~d.loading,
           effectDue' = TRUE, latest' \in {latest, latest + 1},
           UNCHANGED <<treasuryKind, addressRequests>>
    PROVE  DepositInv'
  <1>1. IsForm(deposit') /\ AcknowledgedIsAgreed'
    BY RenderedAgrees DEF DepositInv
  <1>2. ChosenIsNotLoading'
    BY RenderedKeeps DEF ChosenIsNotLoading
  <1>3. RequestsArePast'
    BY DEF DepositInv, RequestsArePast
  <1>4. LatestIsSelections' /\ InfoIsSelections' /\ LoadingIsAwaited'
    BY DEF LatestIsSelections, InfoIsSelections, LoadingIsAwaited
  <1>5. QED
    BY <1>1, <1>2, <1>3, <1>4 DEF DepositInv

LEMMA SelectedKeepsInv ==
    ASSUME DepositInv, NEW a, NEW n, Selected(a, n, FALSE), latest' = latest + 1
    PROVE  DepositInv'
  <1> DEFINE d == [deposit EXCEPT !.asset = a, !.network = n, !.chosenBy = "user",
                                  !.info = None, !.loading = FALSE, !.source = "public"]
  <1>1. /\ IsForm(d) /\ ~d.loading
        /\ d.agreed = deposit.agreed /\ d.acknowledged = deposit.acknowledged
    BY DEF DepositInv, IsForm
  <1>2. deposit' = Rendered(d) /\ effectDue' = TRUE /\ UNCHANGED <<treasuryKind, addressRequests>>
    BY DEF Selected
  <1> HIDE DEF d
  <1>3. QED
    BY <1>1, <1>2, SelectionKeepsInv

LEMMA LoadKeepsInv ==
    ASSUME DepositInv, NEW mine, LoadAssets(mine)
    PROVE  DepositInv'
  <1> DEFINE a == TargetAsset(mine)
             d == [deposit EXCEPT !.asset = a, !.network = TargetNetwork(a), !.chosenBy = "page"]
  <1>1. /\ IsForm(d) /\ d.chosenBy = "page"
        /\ d.agreed = deposit.agreed /\ d.acknowledged = deposit.acknowledged
    BY DEF DepositInv, IsForm
  <1>2. /\ deposit' = Rendered(d) /\ effectDue' = TRUE
        /\ UNCHANGED <<treasuryKind, latest, addressRequests>>
    BY DEF LoadAssets
  <1> HIDE DEF d
  <1>3. QED
    BY <1>1, <1>2, SelectionKeepsInv

(* The effect: what it shows is of the selection, and what it asks for is  *)
(* the latest request.                                                     *)
LEMMA EffectKeepsInv ==
    ASSUME DepositInv, AddressEffect
    PROVE  DepositInv'
  <1>1. /\ effectDue /\ ~effectDue' /\ UNCHANGED treasuryKind
    BY DEF AddressEffect
  <1>2. CASE Invalidate
    <2> DEFINE d == [deposit EXCEPT !.info = None, !.loading = FALSE]
    <2>1. /\ IsForm(d) /\ d.info = None /\ ~d.loading /\ d.network = deposit.network
          /\ d.agreed = deposit.agreed /\ d.acknowledged = deposit.acknowledged
      BY DEF DepositInv, IsForm
    <2>2. deposit' = Rendered(d) /\ latest' = latest + 1 /\ UNCHANGED addressRequests
      BY <1>2 DEF Invalidate
    <2> HIDE DEF d
    <2>3. IsForm(deposit') /\ AcknowledgedIsAgreed'
      BY <1>1, <2>1, <2>2, RenderedAgrees DEF DepositInv
    <2>4. deposit'.info = None /\ ~deposit'.loading
      BY <2>1, <2>2, RenderedKeeps
    <2>5. RequestsArePast' /\ LatestIsSelections'
      BY <2>2 DEF DepositInv, RequestsArePast, LatestIsSelections, IsLatest
    <2>6. QED
      BY <2>3, <2>4, <2>5
      DEF DepositInv, InfoIsSelections, ChosenIsNotLoading, LoadingIsAwaited
  <1>3. CASE OfferOwnAccount
    <2> DEFINE d == [deposit EXCEPT !.info = None, !.loading = FALSE]
    <2>1. /\ IsForm(d) /\ d.info = None /\ ~d.loading /\ d.network = deposit.network
          /\ d.agreed = deposit.agreed /\ d.acknowledged = deposit.acknowledged
      BY DEF DepositInv, IsForm
    <2>2. deposit' = Rendered(d) /\ FallbackOnly(d.network) /\ UNCHANGED <<latest, addressRequests>>
      BY <1>3, <2>1 DEF OfferOwnAccount
    <2> HIDE DEF d
    <2>3. IsForm(deposit') /\ AcknowledgedIsAgreed'
      BY <1>1, <2>1, <2>2, RenderedAgrees DEF DepositInv
    <2>4. deposit'.info = None /\ ~deposit'.loading /\ FallbackOnly(deposit.network)'
      BY <1>1, <2>1, <2>2, RenderedKeeps DEF FallbackOnly
    <2>5. RequestsArePast' /\ LatestIsSelections'
      BY <2>2, <2>4 DEF DepositInv, RequestsArePast, LatestIsSelections
    <2>6. QED
      BY <2>3, <2>4, <2>5
      DEF DepositInv, InfoIsSelections, ChosenIsNotLoading, LoadingIsAwaited
  <1>4. CASE ShowOwnAccount
    <2> DEFINE d == [deposit EXCEPT !.info = OwnAddress(deposit.network)]
    <2>1. /\ IsForm(d) /\ d.info.network = deposit.network /\ d.loading = deposit.loading
          /\ d.network = deposit.network /\ d.chosenBy = deposit.chosenBy
          /\ d.agreed = deposit.agreed /\ d.acknowledged = deposit.acknowledged
      BY DEF DepositInv, IsForm, OwnAddress
    <2>2. /\ deposit' = Rendered(d) /\ latest' = latest + 1 /\ UNCHANGED addressRequests
          /\ IsDirectDeposit(deposit.network)
      BY <1>4 DEF ShowOwnAccount
    <2> HIDE DEF d
    <2>3. IsForm(deposit') /\ AcknowledgedIsAgreed'
      BY <1>1, <2>1, <2>2, RenderedAgrees DEF DepositInv
    <2>4. /\ deposit'.info.network = deposit'.network /\ deposit'.network = deposit.network
          /\ deposit'.loading = deposit.loading /\ deposit'.chosenBy = deposit.chosenBy
      BY <2>1, <2>2, RenderedKeeps
    <2>5. RequestsArePast' /\ LatestIsSelections'
      BY <2>2 DEF DepositInv, RequestsArePast, LatestIsSelections, IsLatest
    <2>6. ChosenIsNotLoading' /\ InfoIsSelections'
      BY <1>1, <2>4 DEF DepositInv, ChosenIsNotLoading, InfoIsSelections, IsDirectDeposit
    <2>7. deposit'.loading => deposit'.chosenBy = "page" /\ IsDirectDeposit(deposit.network)'
      BY <1>1, <2>2, <2>4 DEF DepositInv, ChosenIsNotLoading, IsDirectDeposit
    <2>8. QED
      BY <2>3, <2>5, <2>6, <2>7 DEF DepositInv, LoadingIsAwaited
  <1>5. CASE FetchAddress
    <2> DEFINE d == [deposit EXCEPT !.loading = TRUE]
               r == [network |-> deposit.network, no |-> latest + 1]
    <2>1. /\ IsForm(d) /\ d.network = deposit.network /\ d.loading
          /\ d.agreed = deposit.agreed /\ d.acknowledged = deposit.acknowledged
      BY DEF DepositInv, IsForm
    <2>2. /\ deposit' = Rendered(d) /\ latest' = latest + 1
          /\ addressRequests' = addressRequests \cup {r}
          /\ ~IsDirectDeposit(deposit.network)
      BY <1>5 DEF FetchAddress
    <2> HIDE DEF d
    <2>3. IsForm(deposit') /\ AcknowledgedIsAgreed'
      BY <1>1, <2>1, <2>2, RenderedAgrees DEF DepositInv
    <2>4. deposit'.network = deposit.network /\ deposit'.loading
      BY <2>1, <2>2, RenderedKeeps
    <2>5. RequestsArePast' /\ LatestIsSelections'
      BY <2>2, <2>4 DEF DepositInv, RequestsArePast, LatestIsSelections, IsLatest
    <2>6. ChosenIsNotLoading' /\ InfoIsSelections'
      BY <1>1, <2>2, <2>4 DEF ChosenIsNotLoading, InfoIsSelections, IsDirectDeposit
    <2>7. LoadingIsAwaited'
      <3>1. r \in addressRequests' /\ r.no = latest'
        BY <2>2
      <3>2. QED
        BY <3>1 DEF LoadingIsAwaited, IsLatest
    <2>8. QED
      BY <2>3, <2>5, <2>6, <2>7 DEF DepositInv
  <1>6. QED
    BY <1>2, <1>3, <1>4, <1>5 DEF AddressEffect

(* An answer counts only if it is the latest request's, which is of the    *)
(* selection; and then nothing loads.                                      *)
LEMMA AnswerKeepsInv ==
    ASSUME DepositInv, NEW r \in addressRequests, AddressAnswer(r)
    PROVE  DepositInv'
  <1>1. /\ addressRequests' = addressRequests \ {r}
        /\ UNCHANGED <<treasuryKind, latest, effectDue>>
    BY DEF AddressAnswer
  <1>2. RequestsArePast'
    BY <1>1 DEF DepositInv, RequestsArePast
  <1>3. CASE ~IsLatest(r)
    <2>1. UNCHANGED deposit
      BY <1>3 DEF AddressAnswer
    <2>2. LatestIsSelections'
      BY <1>1, <2>1 DEF DepositInv, LatestIsSelections, IsLatest, FallbackOnly
    <2>3. LoadingIsAwaited'
      BY <1>1, <1>3, <2>1 DEF DepositInv, LoadingIsAwaited, IsLatest, IsDirectDeposit
    <2>4. QED
      BY <1>1, <1>2, <2>1, <2>2, <2>3 DEF DepositInv, InfoIsSelections, AcknowledgedIsAgreed,
         ChosenIsNotLoading, Displayed, ConfidentialSource, CanSwitchSource, FallbackOnly,
         OwnAddress, IsDirectDeposit
  <1>4. CASE IsLatest(r)
    <2>1. PICK info \in {r, None} :
             deposit' = Rendered([deposit EXCEPT !.info = info, !.loading = FALSE])
      BY <1>4 DEF AddressAnswer
    <2> DEFINE d == [deposit EXCEPT !.info = info, !.loading = FALSE]
    <2>2. /\ IsForm(d) /\ d.info = info /\ ~d.loading /\ d.network = deposit.network
          /\ d.agreed = deposit.agreed /\ d.acknowledged = deposit.acknowledged
      BY DEF DepositInv, IsForm
    <2>3. deposit' = Rendered(d)
      BY <2>1
    <2> HIDE DEF d
    <2>4. IsForm(deposit') /\ AcknowledgedIsAgreed'
      BY <1>1, <2>2, <2>3, RenderedAgrees DEF DepositInv
    <2>5. deposit'.info = info /\ ~deposit'.loading /\ deposit'.network = deposit.network
      BY <2>2, <2>3, RenderedKeeps
    <2>6. LatestIsSelections' /\ InfoIsSelections'
      BY <1>1, <1>4, <2>1, <2>5
      DEF DepositInv, LatestIsSelections, InfoIsSelections, IsLatest, FallbackOnly
    <2>7. QED
      BY <1>2, <2>4, <2>5, <2>6 DEF DepositInv, ChosenIsNotLoading, LoadingIsAwaited
  <1>5. QED
    BY <1>3, <1>4

(* What changes neither the selection nor what was fetched for it.         *)
LEMMA ShowingKeepsInv ==
    ASSUME DepositInv, UNCHANGED <<treasuryKind, latest, addressRequests>>,
           effectDue => effectDue',
           IsForm(deposit'), AcknowledgedIsAgreed',
           deposit'.network = deposit.network, deposit'.chosenBy = deposit.chosenBy,
           deposit'.info = deposit.info, deposit'.loading = deposit.loading
    PROVE  DepositInv'
  <1>1. RequestsArePast' /\ LatestIsSelections'
    BY DEF DepositInv, RequestsArePast, LatestIsSelections, IsLatest, FallbackOnly
  <1>2. InfoIsSelections' /\ ChosenIsNotLoading'
    BY DEF DepositInv, InfoIsSelections, ChosenIsNotLoading, FallbackOnly, IsDirectDeposit
  <1>3. LoadingIsAwaited'
    BY DEF DepositInv, LoadingIsAwaited, IsLatest, IsDirectDeposit
  <1>4. QED
    BY <1>1, <1>2, <1>3 DEF DepositInv

LEMMA DepositStepInv == DepositInv /\ [DepositNext]_depositVars => DepositInv'
  <1> SUFFICES ASSUME DepositInv, [DepositNext]_depositVars PROVE DepositInv'
    OBVIOUS
  <1>1. CASE AddressEffect
    BY <1>1, EffectKeepsInv
  <1>2. ASSUME NEW mine \in Portfolios, LoadAssets(mine) PROVE DepositInv'
    BY <1>2, LoadKeepsInv
  <1>3. ASSUME NEW a \in BridgeAssets, HandleAssetSelect(a) PROVE DepositInv'
    BY <1>3, SelectedKeepsInv DEF HandleAssetSelect
  <1>4. ASSUME NEW n \in BridgeNetworks, HandleNetworkSelect(n) PROVE DepositInv'
    BY <1>4, SelectedKeepsInv DEF HandleNetworkSelect
  <1>5. ASSUME NEW r \in addressRequests, AddressAnswer(r) PROVE DepositInv'
    BY <1>5, AnswerKeepsInv
  <1>6. CASE AcknowledgeSingleUse
    <2>1. /\ IsForm(deposit') /\ deposit'.network = deposit.network
          /\ deposit'.chosenBy = deposit.chosenBy /\ deposit'.info = deposit.info
          /\ deposit'.loading = deposit.loading /\ deposit'.source = deposit.source
          /\ deposit'.agreed = Displayed(deposit)
          /\ UNCHANGED <<treasuryKind, latest, addressRequests, effectDue>>
      BY <1>6 DEF AcknowledgeSingleUse, DepositInv, IsForm
    <2>2. AcknowledgedIsAgreed'
      BY <2>1 DEF AcknowledgedIsAgreed, Displayed, ConfidentialSource, CanSwitchSource,
         FallbackOnly, OwnAddress
    <2>3. QED
      BY <2>1, <2>2, ShowingKeepsInv
  <1>7. ASSUME NEW source \in {"public", "confidential"}, SwitchSource(source) PROVE DepositInv'
    <2> DEFINE d == [deposit EXCEPT !.source = source]
    <2>1. /\ IsForm(d) /\ d.network = deposit.network /\ d.chosenBy = deposit.chosenBy
          /\ d.info = deposit.info /\ d.loading = deposit.loading
          /\ d.agreed = deposit.agreed /\ d.acknowledged = deposit.acknowledged
      BY DEF DepositInv, IsForm
    <2>2. /\ deposit' = Rendered(d)
          /\ UNCHANGED <<treasuryKind, latest, addressRequests, effectDue>>
      BY <1>7 DEF SwitchSource
    <2> HIDE DEF d
    <2>3. IsForm(deposit') /\ AcknowledgedIsAgreed'
      BY <2>1, <2>2, RenderedAgrees DEF DepositInv
    <2>4. QED
      BY <2>1, <2>2, <2>3, RenderedKeeps, ShowingKeepsInv
  <1>8. ASSUME NEW h, PollWarnings(h) PROVE DepositInv'
    <2>1. /\ UNCHANGED <<treasuryKind, deposit, latest, addressRequests>>
          /\ effectDue => effectDue'
      BY <1>8 DEF PollWarnings
    <2>2. IsForm(deposit') /\ AcknowledgedIsAgreed'
      BY <2>1 DEF DepositInv, AcknowledgedIsAgreed, Displayed, ConfidentialSource,
         CanSwitchSource, FallbackOnly, OwnAddress
    <2>3. QED
      BY <2>1, <2>2, ShowingKeepsInv
  <1>9. CASE UNCHANGED depositVars
    <2>1. UNCHANGED <<treasuryKind, deposit, latest, addressRequests, effectDue>>
      BY <1>9 DEF depositVars
    <2>2. IsForm(deposit') /\ AcknowledgedIsAgreed'
      BY <2>1 DEF DepositInv, AcknowledgedIsAgreed, Displayed, ConfidentialSource,
         CanSwitchSource, FallbackOnly, OwnAddress
    <2>3. QED
      BY <2>1, <2>2, ShowingKeepsInv
  <1>10. QED
    BY <1>1, <1>2, <1>3, <1>4, <1>5, <1>6, <1>7, <1>8, <1>9 DEF DepositNext

-----------------------------------------------------------------------------
(* However late and in whatever order the answers of fetchAddress come,    *)
(* the address that can be copied is of the network on screen, and one for *)
(* a single use is the very one acknowledged.                              *)
THEOREM CopiedAddressIsRight == DepositSpec => []CopiedAddressIsSelections
  <1>1. DepositInv => CopiedAddressIsSelections
    BY DEF DepositInv, CopiedAddressIsSelections, IsCopyable, IsShown, InfoIsSelections,
       AcknowledgedIsAgreed, Displayed, ConfidentialSource, SingleUseWarning, OwnAddress
  <1>2. QED
    BY <1>1, DepositInitInv, DepositStepInv, PTL DEF DepositSpec

(* isLoadingAddress is taken back by the answer of the latest request, but *)
(* for the page's own choice of a direct network.                          *)
THEOREM LoadingEnds == DepositSpec => []LoadingIsAwaited
  <1>1. DepositInv => LoadingIsAwaited
    BY DEF DepositInv
  <1>2. QED
    BY <1>1, DepositInitInv, DepositStepInv, PTL DEF DepositSpec

-----------------------------------------------------------------------------
(* The exchange page *)

(* The quotes a proposal may carry were given, and none goes to a second   *)
(* proposal: the form gives its quote away with the proposal, and a quote  *)
(* fetched later has a number of its own.                                  *)
Given(q) == q \in Quotes /\ q.no <= quotes
NotProposed(q) == \A e \in exchanges : e.by.quote # q
QuotesOnce ==
    /\ \A e \in exchanges : Given(e.by.quote)
    /\ proposalData # None => Given(proposalData) /\ NotProposed(proposalData)
    /\ ordering # None => Given(ordering.quote) /\ NotProposed(ordering.quote)
    /\ QuotesAreProposedOnce

(* Until something strays, one order at most is fetched or answered, and   *)
(* the form has the answer of the cache.                                   *)
Touched == {o \in Orders : o \in fetching \/ live[o] # None}
AsShown(o) == ~o.strayed => o.quote = o.shown /\ o.quote.order = o.order
FirstReview ==
    /\ ~strayed =>
         /\ \A o, p \in Touched : o = p
         /\ proposalData # None => live[proposalData.order] = proposalData
    /\ ordering # None => AsShown(ordering)
    /\ \A e \in exchanges : AsShown(e.by)

ExchangeInv ==
    /\ quotes \in 0..MaxQuotes
    /\ exchangeStep = "review" => order \in Orders
    /\ live \in [Orders -> Quotes \cup {None, NullQuote}]
    /\ \A o \in fresh : o \in Orders /\ live[o] # None
    /\ fetching \subseteq Orders
    /\ QuotesOnce
    /\ FirstReview

LEMMA ExchangeInitInv == ExchangeInit => ExchangeInv
  <1> SUFFICES ASSUME ExchangeInit PROVE ExchangeInv
    OBVIOUS
  <1>1. /\ exchangeStep = "order" /\ live = [o \in Orders |-> None] /\ fresh = {} /\ fetching = {}
        /\ proposalData = None /\ ordering = None /\ exchanges = {} /\ quotes = 0
    BY DEF ExchangeInit
  <1>2. quotes \in 0..MaxQuotes
    BY <1>1, ExchangeBounds
  <1>3. QuotesOnce
    BY <1>1 DEF QuotesOnce, QuotesAreProposedOnce
  <1>4. FirstReview
    BY <1>1 DEF FirstReview, Touched
  <1>5. QED
    BY <1>1, <1>2, <1>3, <1>4 DEF ExchangeInv

(* The answer of a live quote: it is new, and goes to cache and form. *)
LEMMA LiveQuoteInv ==
    ASSUME ExchangeInv, NEW o \in Orders, LiveQuote(o)
    PROVE  ExchangeInv'
  <1>0. PICK q : q = [order |-> o, no |-> quotes + 1]
    OBVIOUS
  <1>1. /\ o \in fetching /\ quotes' = quotes + 1
        /\ live' = [live EXCEPT ![o] = q] /\ proposalData' = live'[o]
        /\ fresh' = fresh \cup {o} /\ fetching' = fetching \ {o}
        /\ UNCHANGED <<exchangeStep, order, ordering, exchanges, strayed>>
        /\ quotes < MaxQuotes
    BY <1>0 DEF LiveQuote, Chain
  <1>2. quotes \in Nat /\ quotes + 1 \in 1..MaxQuotes /\ MaxQuotes \in Nat
    BY <1>1, ExchangeBounds DEF ExchangeInv
  <1>3. /\ q \in Quotes /\ q.order = o /\ q.no = quotes + 1
        /\ live \in [Orders -> Quotes \cup {None, NullQuote}]
    BY <1>0, <1>2 DEF Quotes, ExchangeInv
  <1>4. proposalData' = q /\ live'[o] = q
    BY <1>1, <1>3
  <1>5. \A r : Given(r) => r.no \in Nat /\ r # q /\ Given(r)'
    BY <1>1, <1>2, <1>3 DEF Given, Quotes
  <1>6. QuotesOnce'
    <2>1. Given(q)' /\ NotProposed(q)'
      BY <1>1, <1>2, <1>3, <1>5 DEF Given, NotProposed, ExchangeInv, QuotesOnce
    <2>2. /\ \A e \in exchanges' : Given(e.by.quote)'
          /\ (ordering # None => Given(ordering.quote) /\ NotProposed(ordering.quote))'
          /\ QuotesAreProposedOnce'
      BY <1>1, <1>5 DEF ExchangeInv, QuotesOnce, NotProposed, QuotesAreProposedOnce
    <2>3. QED
      BY <1>1, <1>4, <2>1, <2>2 DEF QuotesOnce, NotProposed
  <1>7. FirstReview'
    <2>1. Touched' \subseteq Touched
      BY <1>1, <1>3 DEF Touched
    <2>2. live'[q.order] = q
      BY <1>3, <1>4
    <2>3. QED
      BY <1>1, <1>4, <2>1, <2>2 DEF ExchangeInv, FirstReview, AsShown
  <1>8. /\ quotes' \in 0..MaxQuotes
        /\ live' \in [Orders -> Quotes \cup {None, NullQuote}]
        /\ fetching' \subseteq Orders
    BY <1>1, <1>2, <1>3 DEF ExchangeInv
  <1>9. \A p \in fresh' : p \in Orders /\ live'[p] # None
    BY <1>1, <1>3, <1>4, AnswersAreDefined DEF ExchangeInv
  <1>10. QED
    BY <1>1, <1>6, <1>7, <1>8, <1>9 DEF ExchangeInv

(* What leaves the quotes of the form and of the proposals alone. *)
LEMMA QuotesOnceKept ==
    ASSUME QuotesOnce, UNCHANGED <<quotes, exchanges>>,
           proposalData' \in {None, proposalData},
           ordering' = ordering \/ ordering' = None
               \/ (proposalData # None /\ ordering'.quote = proposalData)
    PROVE  QuotesOnce'
  BY DEF QuotesOnce, Given, NotProposed, QuotesAreProposedOnce

LEMMA ExchangeNextInv == ExchangeInv /\ [ExchangeNext]_exchangeVars => ExchangeInv'
  <1> SUFFICES ASSUME ExchangeInv, [ExchangeNext]_exchangeVars PROVE ExchangeInv'
    OBVIOUS
  <1> USE DEF Cache, Chain
  <1>0. /\ quotes \in 0..MaxQuotes /\ (exchangeStep = "review" => order \in Orders)
        /\ live \in [Orders -> Quotes \cup {None, NullQuote}]
        /\ \A o \in fresh : o \in Orders /\ live[o] # None
        /\ fetching \subseteq Orders /\ QuotesOnce /\ FirstReview
    BY DEF ExchangeInv
  <1>a. CASE UNCHANGED <<exchangeStep, order, live, fresh, fetching, proposalData, ordering,
                         exchanges, quotes, strayed>>
    BY <1>a, <1>0, QuotesOnceKept DEF ExchangeInv, FirstReview, Touched, AsShown
  <1>1. ASSUME NEW o \in FormOrder, EnterOrder(o) PROVE ExchangeInv'
    BY <1>1, <1>0, QuotesOnceKept DEF EnterOrder, ExchangeInv, FirstReview, Touched, AsShown
  <1>2. CASE Debounce \/ DryAnswer
    BY <1>2, <1>a DEF Debounce, DryAnswer
  <1>3. CASE ContinueToReview
    <2>1. /\ order \in Orders /\ exchangeStep' = "review"
          /\ fetching' \subseteq fetching \cup {order}
          /\ strayed' = (strayed \/ fetching # {} \/ \E o \in Orders : live[o] # None)
          /\ UNCHANGED <<order, live, fresh, proposalData, ordering, exchanges, quotes>>
      BY <1>3 DEF ContinueToReview, Fetch
    <2>2. QuotesOnce'
      BY <2>1, <1>0, QuotesOnceKept
    <2>3. ASSUME ~strayed' PROVE proposalData = None /\ \A o \in Touched' : o = order
      <3>1. ~strayed /\ fetching = {} /\ \A o \in Orders : live[o] = None
        BY <2>1, <2>3
      <3>2. proposalData = None
        <4>1. proposalData # None => proposalData.order \in Orders
          BY <1>0 DEF QuotesOnce, Given, Quotes
        <4>2. QED
          BY <3>1, <1>0, <4>1 DEF FirstReview
      <3>3. QED
        BY <2>1, <3>1, <3>2 DEF Touched
    <2>4. FirstReview'
      BY <2>1, <2>3, <1>0 DEF FirstReview, AsShown
    <2>5. QED
      BY <2>1, <2>2, <2>4, <1>0 DEF ExchangeInv
  <1>4. ASSUME NEW o \in Orders, LiveQuote(o) PROVE ExchangeInv'
    BY <1>4, LiveQuoteInv
  <1>5. ASSUME NEW o \in Orders, LiveQuoteFails(o) PROVE ExchangeInv'
    <2>1. /\ live' = [live EXCEPT ![o] = NullQuote] /\ fresh' = fresh \cup {o}
          /\ fetching' = fetching \ {o} /\ strayed'
          /\ UNCHANGED <<exchangeStep, order, proposalData, ordering, exchanges, quotes>>
      BY <1>5 DEF LiveQuoteFails
    <2>2. QuotesOnce'
      BY <2>1, <1>0, QuotesOnceKept
    <2>3. FirstReview'
      BY <2>1, <1>0 DEF FirstReview, AsShown
    <2>4. /\ live' \in [Orders -> Quotes \cup {None, NullQuote}]
          /\ \A p \in fresh' : p \in Orders /\ live'[p] # None
      BY <2>1, <1>0, AnswersAreDefined
    <2>5. QED
      BY <2>1, <2>2, <2>3, <2>4, <1>0 DEF ExchangeInv
  <1>6. ASSUME NEW o \in Orders, Expire(o) PROVE ExchangeInv'
    <2>1. /\ o \in fresh /\ fresh' = fresh \ {o} /\ fetching' \subseteq fetching \cup {o}
          /\ UNCHANGED <<exchangeStep, order, live, proposalData, ordering, exchanges, quotes,
                         strayed>>
      BY <1>6 DEF Expire
    <2>2. QuotesOnce'
      BY <2>1, <1>0, QuotesOnceKept
    <2>3. Touched' \subseteq Touched
      BY <2>1, <1>0 DEF Touched
    <2>4. FirstReview'
      BY <2>1, <2>3, <1>0 DEF FirstReview, AsShown
    <2>5. QED
      BY <2>1, <2>2, <2>4, <1>0 DEF ExchangeInv
  <1>7. ASSUME NEW o \in Orders, Collect(o) PROVE ExchangeInv'
    <2>1. /\ live' = [live EXCEPT ![o] = None] /\ o \notin fresh /\ strayed'
          /\ UNCHANGED <<exchangeStep, order, fresh, fetching, proposalData, ordering,
                         exchanges, quotes>>
      BY <1>7 DEF Collect
    <2>2. QuotesOnce'
      BY <2>1, <1>0, QuotesOnceKept
    <2>3. FirstReview'
      BY <2>1, <1>0 DEF FirstReview, AsShown
    <2>4. /\ live' \in [Orders -> Quotes \cup {None, NullQuote}]
          /\ \A p \in fresh' : p \in Orders /\ live'[p] # None
      BY <2>1, <1>0
    <2>5. QED
      BY <2>1, <2>2, <2>3, <2>4, <1>0 DEF ExchangeInv
  <1>8. CASE BackToOrder
    BY <1>8, <1>0, QuotesOnceKept DEF BackToOrder, ExchangeInv, FirstReview, Touched, AsShown
  <1>9. CASE ConfirmExchange
    <2>1. /\ exchangeStep = "review" /\ live[order] # None /\ proposalData # None
          /\ ordering' = [quote |-> proposalData, shown |-> live[order], order |-> order,
                          moved |-> Transfer(proposalData, order.pair), strayed |-> strayed]
          /\ UNCHANGED <<exchangeStep, order, live, fresh, fetching, proposalData, exchanges,
                         quotes, strayed>>
      BY <1>9 DEF ConfirmExchange, IsLoadingLiveQuote
    <2>2. QuotesOnce'
      BY <2>1, <1>0, QuotesOnceKept
    <2>3. ordering'.quote = proposalData /\ ordering'.shown = live[order]
          /\ ordering'.order = order /\ ordering'.strayed = strayed
      BY <2>1
    <2>4. AsShown(ordering')
      <3>1. CASE ~strayed
        <4>1. proposalData.order \in Orders /\ live[proposalData.order] = proposalData
          BY <3>1, <2>1, <1>0 DEF QuotesOnce, Given, Quotes, FirstReview
        <4>2. proposalData.order = order
          BY <3>1, <2>1, <1>0, <4>1 DEF FirstReview, Touched
        <4>3. QED
          BY <4>1, <4>2, <2>3 DEF AsShown
      <3>2. QED
        BY <3>1, <2>3 DEF AsShown
    <2>5. FirstReview'
      BY <2>1, <2>4, <1>0 DEF FirstReview, Touched, AsShown
    <2>6. QED
      BY <2>1, <2>2, <2>5, <1>0 DEF ExchangeInv
  <1>10. CASE ExchangeProposed
    <2>1. /\ ordering # None /\ ordering' = None /\ proposalData' = None
          /\ exchangeStep' = "order"
          /\ exchanges' = exchanges \cup {[at |-> ordered', by |-> ordering]}
          /\ UNCHANGED <<live, fresh, fetching, quotes, strayed>>
      BY <1>10 DEF ExchangeProposed
    <2>2. QuotesOnce'
      BY <2>1, <1>0 DEF QuotesOnce, Given, NotProposed, QuotesAreProposedOnce
    <2>3. FirstReview'
      BY <2>1, <1>0 DEF FirstReview, Touched, AsShown
    <2>4. QED
      BY <2>1, <2>2, <2>3, <1>0 DEF ExchangeInv
  <1>11. CASE ExchangeFails
    <2>1. /\ ordering' = None
          /\ UNCHANGED <<exchangeStep, order, live, fresh, fetching, proposalData, exchanges,
                         quotes, strayed>>
      BY <1>11 DEF ExchangeFails
    <2>2. QuotesOnce'
      BY <2>1, <1>0, QuotesOnceKept
    <2>3. FirstReview'
      BY <2>1, <1>0 DEF FirstReview, Touched, AsShown
    <2>4. QED
      BY <2>1, <2>2, <2>3, <1>0 DEF ExchangeInv
  <1>12. CASE UNCHANGED exchangeVars
    BY <1>12, <1>a DEF exchangeVars
  <1>13. QED
    BY <1>1, <1>2, <1>3, <1>4, <1>5, <1>6, <1>7, <1>8, <1>9, <1>10, <1>11, <1>12
    DEF ExchangeNext

LEMMA ExchangeInvHolds == ExchangeSpec => []ExchangeInv
  BY ExchangeInitInv, ExchangeNextInv, PTL DEF ExchangeSpec

(* The first order that is reviewed is proposed as shown, at the latest of *)
(* the quotes fetched for it, however often the quote is renewed.          *)
THEOREM FirstReviewStaysProposed == ExchangeSpec => []FirstReviewIsProposed
  <1>1. ExchangeInv => FirstReviewIsProposed
    BY DEF ExchangeInv, FirstReview, AsShown, FirstReviewIsProposed
  <1>2. QED
    BY <1>1, ExchangeInvHolds, PTL

(* No two answered proposals of the page carry the same quote. *)
THEOREM QuotesStayProposedOnce == ExchangeSpec => []QuotesAreProposedOnce
  <1>1. ExchangeInv => QuotesAreProposedOnce
    BY DEF ExchangeInv, QuotesOnce
  <1>2. QED
    BY <1>1, ExchangeInvHolds, PTL

-----------------------------------------------------------------------------
(* The wallet page and its connector *)

FiledProposals == [by : Nat, known : BOOLEAN, status : {"InProgress", "Approved", "Rejected"}]
Filings == [no : Nat, dao : Treasuries \cup {None}, at : Int, ids : Seq(Nat)]
FiledIds(s) == \A i \in Range(s) : i \in DOMAIN filed
IsKnownBy(j, no) == j \in DOMAIN filed /\ filed[j].by = no /\ filed[j].known

(* A list of ids leaves out no proposal the page knows of a confirmation   *)
(* it is about, and none can be added: that confirmation is over.          *)
Whole(ids) ==
    \A i \in Range(ids) :
        /\ i \in DOMAIN filed
        /\ \A j \in DOMAIN filed :
              filed[j].by = filed[i].by /\ filed[j].known => j \in Range(ids)
        /\ \A f \in filings : f.no # filed[i].by

(* A confirmation under way has the ids of the proposals known of it.      *)
FilingsAreComplete ==
    /\ filings \subseteq Filings
    /\ \A f \in filings :
         /\ f.no <= confirms
         /\ \A i \in Range(f.ids) : i \in DOMAIN filed /\ filed[i].by = f.no
         /\ \A j \in DOMAIN filed :
               filed[j].by = f.no /\ filed[j].known => j \in Range(f.ids)
    /\ \A f, g \in filings : f.no = g.no => f = g

(* The loop has passed approved proposals only.                            *)
CheckedAreApproved ==
    checking # None =>
        /\ checking = [ids |-> checking.ids, at |-> checking.at, hashes |-> checking.hashes]
        /\ checking.ids \in Seq(Nat) /\ checking.hashes \in Seq(Nat)
        /\ checking.at \in DOMAIN checking.ids
        /\ Whole(checking.ids)
        /\ \A k \in DOMAIN checking.ids :
              k < checking.at => filed[checking.ids[k]].status = "Approved"
        /\ Range(checking.hashes) \subseteq Range(checking.ids)

PageOnlyPending ==
    /\ tab = None => filings = {} /\ checking = None
    /\ tab # None =>
         /\ asked.outcome = "pending" /\ link.action = asked.what
         /\ tab \in Tabs /\ link \in [action : {"sign_in", "sign_transactions"},
                signer : Treasuries \cup {None}, transactions : BOOLEAN,
                dao : Treasuries \cup {None}, ids : Seq(Nat)]
         /\ Whole(tab.ids) /\ Whole(link.ids)
         /\ asked.what = "sign_in" =>
               /\ filings = {} /\ checking = None
               /\ ~tab.transactions /\ tab.ids = <<>>
               /\ ~link.transactions /\ link.ids = <<>>

AnswersAreFiled ==
    asked.what = "sign_transactions" /\ asked.outcome = "resolved" =>
        Range(asked.value) \subseteq DOMAIN filed

WalletInv ==
    /\ confirms \in Nat /\ filed \in Seq(FiledProposals)
    /\ signedIn \in Treasuries \cup {None}
    /\ asked = [what |-> asked.what, outcome |-> asked.outcome, value |-> asked.value]
    /\ \A i \in DOMAIN filed : filed[i].by <= confirms
    /\ PageOnlyPending /\ FilingsAreComplete /\ CheckedAreApproved
    /\ AnswersAreFiled /\ ResolvedRequestsWereApproved

-----------------------------------------------------------------------------
LEMMA RangeOfEmpty == Range(<<>>) = {}
  BY DEF Range

LEMMA RangeOfAppend ==
    ASSUME NEW S, NEW s \in Seq(S), NEW x \in S
    PROVE  /\ Append(s, x) \in Seq(S) /\ Append(s, x) # <<>>
           /\ Range(Append(s, x)) = Range(s) \cup {x}
  <1>1. /\ Append(s, x) \in Seq(S) /\ DOMAIN Append(s, x) = DOMAIN s \cup {Len(s) + 1}
        /\ \A i \in DOMAIN s : Append(s, x)[i] = s[i]
        /\ Append(s, x)[Len(s) + 1] = x
    OBVIOUS
  <1>2. Append(s, x) # <<>>
    OBVIOUS
  <1>3. Range(Append(s, x)) = Range(s) \cup {x}
    BY <1>1 DEF Range
  <1>4. QED
    BY <1>1, <1>2, <1>3

LEMMA WalletInitInv == WalletInit => WalletInv
  <1> SUFFICES ASSUME WalletInit PROVE WalletInv
    OBVIOUS
  <1>1. /\ asked = NotAsked /\ signedIn \in Treasuries \cup {None}
        /\ tab = None /\ link = None /\ filings = {} /\ checking = None
        /\ filed = <<>> /\ confirms = 0
    BY DEF WalletInit
  <1>2. QED
    BY <1>1 DEF WalletInv, NotAsked, PageOnlyPending, FilingsAreComplete, CheckedAreApproved, AnswersAreFiled,
       ResolvedRequestsWereApproved

(* How the proposals grow: by those of a confirmation under way; what was  *)
(* approved stays so.                                                      *)
Grow ==
    /\ filed' \in Seq(FiledProposals) /\ DOMAIN filed \subseteq DOMAIN filed'
    /\ \A i \in DOMAIN filed :
         /\ filed'[i].by = filed[i].by /\ filed'[i].known = filed[i].known
         /\ filed[i].status = "Approved" => filed'[i].status = "Approved"
    /\ \A j \in DOMAIN filed' \ DOMAIN filed : \E f \in filings : filed'[j].by = f.no

LEMMA GrowKeepsWhole ==
    ASSUME Grow, NEW ids, Whole(ids), WalletInv,
           \A g \in filings' : (\E f \in filings : g.no = f.no) \/ (g.no \in Nat /\ g.no > confirms)
    PROVE  Whole(ids)'
  <1> SUFFICES ASSUME NEW i \in Range(ids)
               PROVE  /\ i \in DOMAIN filed'
                      /\ \A j \in DOMAIN filed' :
                            filed'[j].by = filed'[i].by /\ filed'[j].known => j \in Range(ids)
                      /\ \A f \in filings' : f.no # filed'[i].by
    BY DEF Whole
  <1>1. /\ i \in DOMAIN filed /\ filed'[i].by = filed[i].by
        /\ \A f \in filings : f.no # filed[i].by
    BY DEF Whole, Grow
  <1>2. filed[i].by \in Nat /\ filed[i].by <= confirms /\ confirms \in Nat
    <2>1. filed \in Seq(FiledProposals) /\ filed[i].by <= confirms /\ confirms \in Nat
      BY <1>1 DEF WalletInv
    <2>2. filed[i] \in FiledProposals
      BY <1>1, <2>1
    <2>3. QED
      BY <2>1, <2>2 DEF FiledProposals
  <1>3. \A j \in DOMAIN filed' : filed'[j].by = filed'[i].by => j \in DOMAIN filed
    BY <1>1 DEF Grow
  <1>4. \A f \in filings' : f.no # filed'[i].by
    BY <1>1, <1>2
  <1>5. QED
    BY <1>1, <1>3, <1>4 DEF Whole, Grow

LEMMA AppendGrows ==
    ASSUME WalletInv, NEW f \in filings, NEW known \in BOOLEAN,
           filed' = Append(filed, NewProposal(f, known)), UNCHANGED confirms
    PROVE  /\ Grow
           /\ \A i \in DOMAIN filed' : filed'[i].by <= confirms'
           /\ DOMAIN filed' = DOMAIN filed \cup {Len(filed) + 1}
           /\ \A i \in DOMAIN filed : filed'[i] = filed[i]
           /\ filed'[Len(filed) + 1] = NewProposal(f, known)
           /\ NewProposal(f, known) \in FiledProposals
           /\ Len(filed) + 1 \in Nat /\ Len(filed) + 1 \notin DOMAIN filed
  <1>1. filed \in Seq(FiledProposals) /\ f.no \in Nat /\ f.no <= confirms
    BY DEF WalletInv, FilingsAreComplete, Filings
  <1>2. NewProposal(f, known) \in FiledProposals /\ NewProposal(f, known).by = f.no
    BY <1>1 DEF NewProposal, FiledProposals
  <1>3. /\ filed' \in Seq(FiledProposals)
        /\ DOMAIN filed' = DOMAIN filed \cup {Len(filed) + 1}
        /\ \A i \in DOMAIN filed : filed'[i] = filed[i]
        /\ filed'[Len(filed) + 1] = NewProposal(f, known)
        /\ Len(filed) + 1 \in Nat /\ Len(filed) + 1 \notin DOMAIN filed
    BY <1>1, <1>2
  <1>4. Grow
    BY <1>2, <1>3 DEF Grow
  <1>5. \A i \in DOMAIN filed' : filed'[i].by <= confirms'
    BY <1>1, <1>2, <1>3 DEF WalletInv
  <1>6. QED
    BY <1>2, <1>3, <1>4, <1>5

LEMMA SameGrows ==
    ASSUME WalletInv, UNCHANGED <<filed, confirms>>
    PROVE  Grow /\ \A i \in DOMAIN filed' : filed'[i].by <= confirms'
  BY DEF WalletInv, Grow

(* What the page leaves behind when it goes.                               *)
LEMMA LeftBehindGrows ==
    ASSUME WalletInv, filed' \in LeftBehind, UNCHANGED confirms
    PROVE  /\ Grow /\ \A i \in DOMAIN filed' : filed'[i].by <= confirms'
           /\ \A j \in DOMAIN filed' : filed'[j].known => j \in DOMAIN filed
  <1>1. CASE filed' = filed
    BY <1>1, SameGrows
  <1>2. ASSUME NEW f \in filings, filed' = Append(filed, NewProposal(f, FALSE))
        PROVE  /\ Grow /\ \A i \in DOMAIN filed' : filed'[i].by <= confirms'
               /\ \A j \in DOMAIN filed' : filed'[j].known => j \in DOMAIN filed
    <2>1. /\ Grow /\ \A i \in DOMAIN filed' : filed'[i].by <= confirms'
          /\ DOMAIN filed' = DOMAIN filed \cup {Len(filed) + 1}
          /\ filed'[Len(filed) + 1] = NewProposal(f, FALSE)
      BY <1>2, AppendGrows
    <2>2. ~NewProposal(f, FALSE).known
      BY DEF NewProposal
    <2>3. QED
      BY <2>1, <2>2
  <1>3. QED
    BY <1>1, <1>2 DEF LeftBehind

(* A chosen page goes: only the answer it leaves is to be shown right.     *)
LEMMA GoneInv ==
    ASSUME WalletInv, Gone, filed' \in LeftBehind, UNCHANGED confirms,
           signedIn' \in Treasuries \cup {None},
           asked' = [what |-> asked'.what, outcome |-> asked'.outcome, value |-> asked'.value],
           AnswersAreFiled' /\ ResolvedRequestsWereApproved'
    PROVE  WalletInv'
  <1>1. /\ Grow /\ \A i \in DOMAIN filed' : filed'[i].by <= confirms'
    BY LeftBehindGrows
  <1>2. PageOnlyPending' /\ FilingsAreComplete' /\ CheckedAreApproved'
    BY DEF Gone, PageOnlyPending, FilingsAreComplete, CheckedAreApproved
  <1>3. QED
    BY <1>1, <1>2 DEF WalletInv, Grow

(* Rejecting, or closing while the promise is pending, shows no answer.    *)
LEMMA AskedKept ==
    ASSUME WalletInv, NEW o, asked' = [asked EXCEPT !.outcome = o]
    PROVE  /\ asked' = [what |-> asked'.what, outcome |-> asked'.outcome, value |-> asked'.value]
           /\ asked'.what = asked.what /\ asked'.outcome = o
  <1>1. asked = [what |-> asked.what, outcome |-> asked.outcome, value |-> asked.value]
    BY DEF WalletInv
  <1>2. asked' = [what |-> asked.what, outcome |-> o, value |-> asked.value]
    BY <1>1
  <1>3. QED
    BY <1>2

LEMMA AskedResolved ==
    ASSUME WalletInv, NEW o, NEW v, asked' = [asked EXCEPT !.outcome = o, !.value = v]
    PROVE  /\ asked' = [what |-> asked'.what, outcome |-> asked'.outcome, value |-> asked'.value]
           /\ asked'.what = asked.what /\ asked'.outcome = o /\ asked'.value = v
  <1>1. asked = [what |-> asked.what, outcome |-> asked.outcome, value |-> asked.value]
    BY DEF WalletInv
  <1>2. asked' = [what |-> asked.what, outcome |-> o, value |-> v]
    BY <1>1
  <1>3. QED
    BY <1>2

(* The page moves on with the ids it has.                                  *)
LEMMA PageStepInv ==
    ASSUME WalletInv, UNCHANGED <<asked, signedIn, link, filings, checking, filed, confirms>>,
           tab # None, tab' \in Tabs, tab'.ids = tab.ids, tab'.transactions = tab.transactions
    PROVE  WalletInv'
  <1>1. tab' # None
    BY PagesAreDefined
  <1>2. PageOnlyPending'
    BY <1>1 DEF WalletInv, PageOnlyPending, Whole
  <1>3. FilingsAreComplete' /\ CheckedAreApproved' /\ AnswersAreFiled' /\ ResolvedRequestsWereApproved'
    BY DEF WalletInv, FilingsAreComplete, CheckedAreApproved, Whole, AnswersAreFiled,
       ResolvedRequestsWereApproved
  <1>4. QED
    BY <1>2, <1>3 DEF WalletInv

(* A page starts from the ids in its URL, or from none.                    *)
LEMMA StartedPage ==
    ASSUME NEW l \in [action : {"sign_in", "sign_transactions"},
                signer : Treasuries \cup {None}, transactions : BOOLEAN,
                dao : Treasuries \cup {None}, ids : Seq(Nat)]
    PROVE  /\ Started(l) \in Tabs
           /\ Started(l).ids = l.ids \/ Started(l).ids = <<>>
           /\ Started(l).transactions => l.transactions
  <1>1. (l.dao # None /\ l.ids # <<>>) \in BOOLEAN
    OBVIOUS
  <1>2. CASE l.dao # None /\ l.ids # <<>>
    <2>1. Started(l) = [step |-> "waiting-approval", account |-> FALSE, answers |-> 0,
              dao |-> l.dao, transactions |-> FALSE, ids |-> l.ids, approvalLoading |-> FALSE]
      BY <1>2 DEF Started
    <2>2. QED
      BY <2>1 DEF Tabs, Steps
  <1>3. CASE ~(l.dao # None /\ l.ids # <<>>)
    <2>1. Started(l) = [step |-> "connect", account |-> FALSE, answers |-> 0,
              dao |-> None, transactions |-> l.transactions, ids |-> <<>>,
              approvalLoading |-> FALSE]
      BY <1>3 DEF Started
    <2>2. QED
      BY <2>1 DEF Tabs, Steps
  <1>4. QED
    BY <1>2, <1>3

LEMMA OpenPopupInv ==
    ASSUME WalletInv, NEW what \in {"sign_in", "sign_transactions"}, OpenPopup(what)
    PROVE  WalletInv'
  <1>1. /\ asked' = [what |-> what, outcome |-> "pending", value |-> None]
        /\ link' = [action |-> what, signer |-> signedIn, dao |-> None, ids |-> <<>>,
                    transactions |-> what = "sign_transactions"]
        /\ tab' = Started(link') /\ filings' = {} /\ checking' = None
        /\ UNCHANGED <<signedIn, filed, confirms>>
    BY DEF OpenPopup
  <1>2. link' \in [action : {"sign_in", "sign_transactions"},
                signer : Treasuries \cup {None}, transactions : BOOLEAN,
                dao : Treasuries \cup {None}, ids : Seq(Nat)] /\ link'.ids = <<>>
        /\ link'.action = what /\ (what = "sign_in" => ~link'.transactions)
    <2>1. signedIn \in Treasuries \cup {None}
      BY DEF WalletInv
    <2>2. (what = "sign_transactions") \in BOOLEAN
      OBVIOUS
    <2>3. PICK b \in BOOLEAN : b = (what = "sign_transactions")
      BY <2>2
    <2>4. link' = [action |-> what, signer |-> signedIn, dao |-> None, ids |-> <<>>,
                   transactions |-> b]
      BY <1>1, <2>3
    <2>5. /\ link'.action = what /\ link'.signer = signedIn /\ link'.dao = None
          /\ link'.ids = <<>> /\ link'.transactions = b
      BY <2>4
    <2>6. what = "sign_in" => ~b
      BY <2>3
    <2>7. QED
      BY <2>1, <2>4, <2>5, <2>6
  <1>3. tab' \in Tabs /\ tab'.ids = <<>> /\ (tab'.transactions => link'.transactions)
    BY <1>1, <1>2, StartedPage
  <1>4. tab' # None
    BY <1>3, PagesAreDefined
  <1>5. PageOnlyPending'
    BY <1>1, <1>2, <1>3, <1>4, RangeOfEmpty DEF PageOnlyPending, Whole
  <1>6. FilingsAreComplete' /\ CheckedAreApproved' /\ AnswersAreFiled' /\ ResolvedRequestsWereApproved'
    BY <1>1 DEF FilingsAreComplete, CheckedAreApproved, AnswersAreFiled,
       ResolvedRequestsWereApproved
  <1>7. QED
    BY <1>1, <1>5, <1>6 DEF WalletInv

LEMMA ReloadInv ==
    ASSUME WalletInv, Reload
    PROVE  WalletInv'
  <1>1. /\ tab # None /\ tab' = Started(link) /\ filings' = {} /\ checking' = None
        /\ filed' \in LeftBehind /\ UNCHANGED <<asked, signedIn, link, confirms>>
    BY DEF Reload
  <1>2. /\ asked.outcome = "pending" /\ link.action = asked.what
        /\ link \in [action : {"sign_in", "sign_transactions"},
                signer : Treasuries \cup {None}, transactions : BOOLEAN,
                dao : Treasuries \cup {None}, ids : Seq(Nat)] /\ Whole(link.ids)
        /\ asked.what = "sign_in" => ~link.transactions /\ link.ids = <<>>
    BY <1>1 DEF WalletInv, PageOnlyPending
  <1>3. Grow /\ \A i \in DOMAIN filed' : filed'[i].by <= confirms'
    BY <1>1, LeftBehindGrows
  <1>4. Whole(link.ids)'
    <2>1. PICK ids : ids = link.ids
      OBVIOUS
    <2>2. Whole(ids)
      BY <1>2, <2>1
    <2>3. Whole(ids)'
      BY <1>1, <1>3, <2>2, GrowKeepsWhole
    <2>4. QED
      BY <1>1, <2>1, <2>3
  <1>5. /\ tab' \in Tabs /\ (tab'.ids = link.ids \/ tab'.ids = <<>>) /\ tab' # None
        /\ tab'.transactions => link.transactions
    BY <1>1, <1>2, StartedPage, PagesAreDefined
  <1>6. Whole(tab.ids)'
    BY <1>1, <1>4, <1>5, RangeOfEmpty DEF Whole
  <1>7. PageOnlyPending'
    BY <1>1, <1>2, <1>4, <1>5, <1>6 DEF PageOnlyPending
  <1>8. FilingsAreComplete' /\ CheckedAreApproved' /\ AnswersAreFiled' /\ ResolvedRequestsWereApproved'
    BY <1>1, <1>2 DEF FilingsAreComplete, CheckedAreApproved, AnswersAreFiled,
       ResolvedRequestsWereApproved
  <1>9. QED
    BY <1>1, <1>3, <1>7, <1>8 DEF WalletInv, Grow

(* The members decide one proposal.                                        *)
LEMMA DecideFiledInv ==
    ASSUME WalletInv, NEW i \in DOMAIN filed, DecideFiled(i)
    PROVE  WalletInv'
  <1>1. PICK st \in {"Approved", "Rejected"} : filed' = [filed EXCEPT ![i].status = st]
    BY DEF DecideFiled
  <1>2. /\ filed[i].status = "InProgress" /\ filed \in Seq(FiledProposals)
        /\ UNCHANGED <<asked, signedIn, tab, link, filings, checking, confirms>>
    BY DEF DecideFiled, WalletInv
  <1>3. filed[i] \in FiledProposals
    BY <1>2
  <1>4. PICK p : p = [filed[i] EXCEPT !.status = st]
    OBVIOUS
  <1>5. p \in FiledProposals /\ p.by = filed[i].by /\ p.known = filed[i].known
    BY <1>3, <1>4 DEF FiledProposals
  <1>6. filed' = [filed EXCEPT ![i] = p]
    BY <1>1, <1>4
  <1>7. /\ filed' \in Seq(FiledProposals) /\ DOMAIN filed' = DOMAIN filed /\ filed'[i] = p
        /\ \A j \in DOMAIN filed : j # i => filed'[j] = filed[j]
    BY <1>2, <1>5, <1>6
  <1>8. \A j \in DOMAIN filed :
          /\ filed'[j].by = filed[j].by /\ filed'[j].known = filed[j].known
          /\ filed[j].status = "Approved" => filed'[j].status = "Approved"
    BY <1>2, <1>5, <1>7
  <1>9. \A ids : Whole(ids) => Whole(ids)'
    BY <1>2, <1>7, <1>8 DEF Whole
  <1>10. PageOnlyPending'
    BY <1>2, <1>9 DEF WalletInv, PageOnlyPending, Whole
  <1>11. FilingsAreComplete'
    BY <1>2, <1>7, <1>8 DEF WalletInv, FilingsAreComplete
  <1>12. CheckedAreApproved'
    <2>1. ASSUME checking # None, NEW k \in DOMAIN checking.ids, k < checking.at
          PROVE  filed'[checking.ids[k]].status = "Approved"
      <3>1. filed[checking.ids[k]].status = "Approved" /\ checking.ids[k] \in Range(checking.ids)
        BY <2>1 DEF WalletInv, CheckedAreApproved, Range
      <3>2. checking.ids[k] \in DOMAIN filed
        BY <2>1, <3>1 DEF WalletInv, CheckedAreApproved, Whole
      <3>3. QED
        BY <3>1, <3>2, <1>8
    <2>2. checking # None => Whole(checking.ids)'
      BY <1>2, <1>9 DEF WalletInv, CheckedAreApproved, Whole
    <2>3. QED
      BY <1>2, <2>1, <2>2 DEF WalletInv, CheckedAreApproved
  <1>13. AnswersAreFiled' /\ ResolvedRequestsWereApproved'
    <2> SUFFICES ASSUME asked.what = "sign_transactions", asked.outcome = "resolved"
                 PROVE  AnswersAreFiled' /\ ResolvedRequestsWereApproved'
      BY <1>2 DEF AnswersAreFiled, ResolvedRequestsWereApproved
    <2>1. /\ asked.value # <<>> /\ Range(asked.value) \subseteq DOMAIN filed
          /\ \A v \in Range(asked.value) :
               /\ filed[v].status = "Approved"
               /\ \A q \in Range(filed) : q.by = filed[v].by /\ q.known => q.status = "Approved"
      BY DEF WalletInv, AnswersAreFiled, ResolvedRequestsWereApproved
    <2>2. \A v \in Range(asked.value) :
            /\ filed'[v].status = "Approved"
            /\ \A j \in DOMAIN filed' : filed'[j].by = filed'[v].by /\ filed'[j].known
                   => filed'[j].status = "Approved"
      BY <2>1, <1>7, <1>8 DEF Range
    <2>3. \A v \in Range(asked.value) : \A q \in Range(filed') :
            q.by = filed'[v].by /\ q.known => q.status = "Approved"
      BY <2>2 DEF Range
    <2>4. QED
      BY <2>1, <2>2, <2>3, <1>2, <1>7 DEF AnswersAreFiled, ResolvedRequestsWereApproved
  <1>14. QED
    BY <1>2, <1>7, <1>8, <1>10, <1>11, <1>12, <1>13 DEF WalletInv

(* A confirmation begins with a number of its own.                         *)
LEMMA ConfirmTransactionsInv ==
    ASSUME WalletInv, HandleConfirmTransactions
    PROVE  WalletInv'
  <1>0. /\ PageOnlyPending /\ FilingsAreComplete /\ confirms \in Nat
        /\ filed \in Seq(FiledProposals) /\ \A i \in DOMAIN filed : filed[i].by <= confirms
    BY DEF WalletInv
  <1>1. /\ tab # None /\ confirms' = confirms + 1 /\ asked.what # "sign_in"
        /\ UNCHANGED <<asked, signedIn, link, checking, filed>>
    BY <1>0 DEF HandleConfirmTransactions, PageOnlyPending
  <1>2. tab \in Tabs /\ tab.dao \in Treasuries \cup {None}
    BY <1>0, <1>1 DEF PageOnlyPending, Tabs
  <1>3. PICK f : f = [no |-> confirms + 1, dao |-> tab.dao, at |-> 1, ids |-> <<>>]
    OBVIOUS
  <1>4. f \in Filings /\ f.no = confirms + 1 /\ f.ids = <<>>
    BY <1>0, <1>2, <1>3 DEF Filings
  <1>5. PICK st \in Steps : tab' = [tab EXCEPT !.step = st]
    BY DEF HandleConfirmTransactions, Steps
  <1>6. tab' \in Tabs /\ tab'.ids = tab.ids /\ tab' # None /\ tab'.transactions = tab.transactions
    <2>1. tab' \in Tabs /\ tab'.ids = tab.ids /\ tab'.transactions = tab.transactions
      BY <1>2, <1>5 DEF Tabs
    <2>2. QED
      BY <2>1, PagesAreDefined
  <1>7. filings' = filings \cup {f} \/ filings' = filings
    BY <1>3 DEF HandleConfirmTransactions
  <1>8. Grow /\ \A g \in filings' : (\E h \in filings : g.no = h.no) \/ (g.no \in Nat /\ g.no > confirms)
    <2>1. Grow
      BY <1>0, <1>1 DEF Grow
    <2>2. QED
      BY <2>1, <1>0, <1>4, <1>7
  <1>9. \A ids : Whole(ids) => Whole(ids)'
    BY <1>8, GrowKeepsWhole
  <1>10. PageOnlyPending'
    BY <1>0, <1>1, <1>6, <1>9 DEF PageOnlyPending, Whole
  <1>11. \A i \in DOMAIN filed : filed[i].by \in Nat /\ filed[i].by < confirms + 1
    <2>1. \A i \in DOMAIN filed : filed[i] \in FiledProposals
      BY <1>0
    <2>2. QED
      BY <2>1, <1>0 DEF FiledProposals
  <1>12. \A g \in filings : g.no \in Nat /\ g.no < confirms + 1
    BY <1>0 DEF FilingsAreComplete, Filings
  <1>13. FilingsAreComplete'
    <2>1. filings' \subseteq Filings
      BY <1>0, <1>4, <1>7 DEF FilingsAreComplete
    <2>2. \A g \in filings' :
            /\ g.no <= confirms + 1
            /\ \A i \in Range(g.ids) : i \in DOMAIN filed /\ filed[i].by = g.no
            /\ \A j \in DOMAIN filed : filed[j].by = g.no /\ filed[j].known => j \in Range(g.ids)
      BY <1>0, <1>4, <1>7, <1>11, <1>12, RangeOfEmpty DEF FilingsAreComplete
    <2>3. \A g, h \in filings' : g.no = h.no => g = h
      BY <1>0, <1>4, <1>7, <1>12 DEF FilingsAreComplete
    <2>4. QED
      BY <2>1, <2>2, <2>3, <1>1 DEF FilingsAreComplete
  <1>14. CheckedAreApproved' /\ AnswersAreFiled' /\ ResolvedRequestsWereApproved'
    BY <1>1, <1>9 DEF WalletInv, CheckedAreApproved, AnswersAreFiled,
       ResolvedRequestsWereApproved, Whole
  <1>15. \A i \in DOMAIN filed' : filed'[i].by <= confirms'
    BY <1>0, <1>1, <1>11
  <1>16. QED
    BY <1>0, <1>1, <1>10, <1>13, <1>14, <1>15 DEF WalletInv

(* A proposal is added, and the page's lists stay whole.                   *)
LEMMA FiledInv ==
    ASSUME WalletInv, NEW f \in filings, NEW known \in BOOLEAN, Filed(f, known)
    PROVE  WalletInv'
  <1>0. /\ PageOnlyPending /\ FilingsAreComplete /\ CheckedAreApproved /\ confirms \in Nat
        /\ filed \in Seq(FiledProposals) /\ \A i \in DOMAIN filed : filed[i].by <= confirms
    BY DEF WalletInv
  <1>1. PICK n : n = Len(filed) + 1
    OBVIOUS
  <1>2. PICK ids : ids = IF known THEN Append(f.ids, n) ELSE f.ids
    OBVIOUS
  <1>3. /\ filed' = Append(filed, NewProposal(f, known))
        /\ UNCHANGED <<asked, signedIn, checking, confirms>>
        /\ \/ /\ filings' = (filings \ {f}) \cup {[f EXCEPT !.at = @ + 1, !.ids = ids]}
              /\ UNCHANGED <<tab, link>>
           \/ /\ filings' = filings \ {f}
              /\ link' = [link EXCEPT !.dao = f.dao, !.ids = ids, !.transactions = FALSE,
                                      !.signer = None]
              /\ tab' = [tab EXCEPT !.ids = ids, !.step = "waiting-approval"]
    BY <1>1, <1>2 DEF Filed
  <1>4. /\ Grow /\ \A i \in DOMAIN filed' : filed'[i].by <= confirms'
        /\ DOMAIN filed' = DOMAIN filed \cup {n} /\ n \in Nat /\ n \notin DOMAIN filed
        /\ \A i \in DOMAIN filed : filed'[i] = filed[i]
        /\ filed'[n].by = f.no /\ filed'[n].known = known
    <2>1. NewProposal(f, known).by = f.no /\ NewProposal(f, known).known = known
      BY DEF NewProposal
    <2>2. QED
      BY <1>1, <1>3, <2>1, AppendGrows
  <1>5. /\ f \in Filings /\ f.no <= confirms /\ f.ids \in Seq(Nat)
        /\ \A i \in Range(f.ids) : i \in DOMAIN filed /\ filed[i].by = f.no
        /\ \A j \in DOMAIN filed : filed[j].by = f.no /\ filed[j].known => j \in Range(f.ids)
        /\ \A g \in filings : g.no = f.no => g = f
    BY <1>0 DEF FilingsAreComplete, Filings
  <1>6. /\ ids \in Seq(Nat)
        /\ Range(ids) = IF known THEN Range(f.ids) \cup {n} ELSE Range(f.ids)
    <2>1. f.ids \in Seq(Nat) /\ n \in Nat
      BY <1>4, <1>5
    <2>2. /\ Append(f.ids, n) \in Seq(Nat)
          /\ Range(Append(f.ids, n)) = Range(f.ids) \cup {n}
      BY <2>1, RangeOfAppend
    <2>3. QED
      BY <2>1, <2>2, <1>2
  <1>7. /\ \A i \in Range(ids) : i \in DOMAIN filed' /\ filed'[i].by = f.no
        /\ \A j \in DOMAIN filed' : filed'[j].by = f.no /\ filed'[j].known => j \in Range(ids)
    BY <1>4, <1>5, <1>6
  <1>8. tab # None
    BY <1>0 DEF PageOnlyPending
  <1>9. CASE /\ filings' = (filings \ {f}) \cup {[f EXCEPT !.at = @ + 1, !.ids = ids]}
             /\ UNCHANGED <<tab, link>>
    <2>1. PICK h : h = [f EXCEPT !.at = @ + 1, !.ids = ids]
      OBVIOUS
    <2>2. h \in Filings /\ h.no = f.no /\ h.ids = ids
      <3>1. f = [no |-> f.no, dao |-> f.dao, at |-> f.at, ids |-> f.ids] /\ f.at \in Int
        BY <1>5 DEF Filings
      <3>2. h = [no |-> f.no, dao |-> f.dao, at |-> f.at + 1, ids |-> ids]
        BY <3>1, <2>1
      <3>3. QED
        BY <3>1, <3>2, <1>5, <1>6 DEF Filings
    <2>3. filings' = (filings \ {f}) \cup {h}
      BY <1>9, <2>1
    <2>4. \A g \in filings' : \E e \in filings : g.no = e.no
      BY <2>2, <2>3
    <2>5. \A l : Whole(l) => Whole(l)'
      BY <1>4, <2>4, GrowKeepsWhole
    <2>6. PageOnlyPending' /\ CheckedAreApproved'
      <3>1. PageOnlyPending'
        <4>1. PICK a, b : a = tab.ids /\ b = link.ids
          OBVIOUS
        <4>2. Whole(a)' /\ Whole(b)'
          BY <4>1, <1>0, <1>8, <2>5 DEF PageOnlyPending
        <4>3. Whole(tab.ids)' /\ Whole(link.ids)'
          BY <4>1, <4>2, <1>9 DEF Whole
        <4>4. QED
          BY <4>3, <1>0, <1>3, <1>8, <1>9 DEF PageOnlyPending
      <3>2. ASSUME checking # None, NEW k \in DOMAIN checking.ids, k < checking.at
            PROVE  filed'[checking.ids[k]].status = "Approved"
        BY <3>2, <1>0, <1>4 DEF CheckedAreApproved, Whole, Range
      <3>3. QED
        BY <3>1, <3>2, <1>0, <1>3, <2>5 DEF CheckedAreApproved, Whole
    <2>7. FilingsAreComplete'
      <3>1. filings' \subseteq Filings /\ \A g \in filings' : g.no <= confirms
        BY <1>0, <1>5, <2>2, <2>3 DEF FilingsAreComplete
      <3>2. \A g \in filings' : g.no # f.no \/ g = h
        BY <1>5, <2>3
      <3>3. \A g \in filings' :
              /\ \A i \in Range(g.ids) : i \in DOMAIN filed' /\ filed'[i].by = g.no
              /\ \A j \in DOMAIN filed' : filed'[j].by = g.no /\ filed'[j].known => j \in Range(g.ids)
        <4> SUFFICES ASSUME NEW g \in filings'
                     PROVE  /\ \A i \in Range(g.ids) : i \in DOMAIN filed' /\ filed'[i].by = g.no
                            /\ \A j \in DOMAIN filed' : filed'[j].by = g.no /\ filed'[j].known
                                  => j \in Range(g.ids)
          OBVIOUS
        <4>1. CASE g = h
          BY <4>1, <2>2, <1>7
        <4>2. CASE g # h
          <5>1. g \in filings /\ g.no # f.no
            BY <4>2, <3>2, <2>3
          <5>2. QED
            BY <5>1, <1>0, <1>4 DEF FilingsAreComplete
        <4>3. QED
          BY <4>1, <4>2
      <3>4. \A g, e \in filings' : g.no = e.no => g = e
        BY <1>0, <2>2, <2>3, <3>2 DEF FilingsAreComplete
      <3>5. QED
        BY <3>1, <3>3, <3>4, <1>3 DEF FilingsAreComplete
    <2>8. AnswersAreFiled' /\ ResolvedRequestsWereApproved'
      BY <1>0, <1>3, <1>8 DEF PageOnlyPending, AnswersAreFiled, ResolvedRequestsWereApproved
    <2>9. QED
      BY <1>0, <1>3, <1>4, <2>6, <2>7, <2>8 DEF WalletInv, Grow
  <1>10. CASE /\ filings' = filings \ {f}
              /\ link' = [link EXCEPT !.dao = f.dao, !.ids = ids, !.transactions = FALSE,
                                      !.signer = None]
              /\ tab' = [tab EXCEPT !.ids = ids, !.step = "waiting-approval"]
    <2>1. \A g \in filings' : g.no # f.no /\ g \in filings
      BY <1>5, <1>10
    <2>2. \A l : Whole(l) => Whole(l)'
      BY <1>4, <2>1, GrowKeepsWhole
    <2>3. Whole(ids)'
      BY <1>7, <2>1 DEF Whole
    <2>4. tab' \in Tabs /\ tab'.ids = ids /\ tab' # None
      <3>1. tab \in Tabs
        BY <1>0, <1>8 DEF PageOnlyPending
      <3>2. tab' \in Tabs /\ tab'.ids = ids
        BY <3>1, <1>6, <1>10 DEF Tabs, Steps
      <3>3. QED
        BY <3>2, PagesAreDefined
    <2>5. /\ link' \in [action : {"sign_in", "sign_transactions"},
                signer : Treasuries \cup {None}, transactions : BOOLEAN,
                dao : Treasuries \cup {None}, ids : Seq(Nat)]
          /\ link'.ids = ids /\ link'.action = link.action
      BY <1>0, <1>5, <1>6, <1>8, <1>10 DEF PageOnlyPending, Filings
    <2>6. PageOnlyPending'
      BY <1>0, <1>3, <1>8, <2>3, <2>4, <2>5 DEF PageOnlyPending, Whole
    <2>7. CheckedAreApproved'
      <3>1. ASSUME checking # None, NEW k \in DOMAIN checking.ids, k < checking.at
            PROVE  filed'[checking.ids[k]].status = "Approved"
        BY <3>1, <1>0, <1>4 DEF CheckedAreApproved, Whole, Range
      <3>2. QED
        BY <3>1, <1>0, <1>3, <2>2 DEF CheckedAreApproved, Whole
    <2>8. FilingsAreComplete'
      BY <1>0, <1>3, <1>4, <2>1 DEF FilingsAreComplete
    <2>9. AnswersAreFiled' /\ ResolvedRequestsWereApproved'
      BY <1>0, <1>3, <1>8 DEF PageOnlyPending, AnswersAreFiled, ResolvedRequestsWereApproved
    <2>10. QED
      BY <1>0, <1>3, <1>4, <2>6, <2>7, <2>8, <2>9 DEF WalletInv, Grow
  <1>11. QED
    BY <1>3, <1>9, <1>10

(* Filing stops: what the wallet still adds is not known.                  *)
LEMMA FilingFailsInv ==
    ASSUME WalletInv, NEW f \in filings, FilingFails(f)
    PROVE  WalletInv'
  <1>0. /\ PageOnlyPending /\ FilingsAreComplete /\ CheckedAreApproved
    BY DEF WalletInv
  <1>1. /\ filings' = filings \ {f} /\ tab' = [tab EXCEPT !.step = "error"]
        /\ filed' \in LeftBehind
        /\ UNCHANGED <<asked, signedIn, link, checking, confirms>>
    BY DEF FilingFails, LeftBehind
  <1>2. /\ Grow /\ \A i \in DOMAIN filed' : filed'[i].by <= confirms'
        /\ \A j \in DOMAIN filed' : filed'[j].known => j \in DOMAIN filed
    BY <1>1, LeftBehindGrows
  <1>3. tab # None /\ tab \in Tabs
    BY <1>0 DEF PageOnlyPending
  <1>4. tab' \in Tabs /\ tab'.ids = tab.ids /\ tab' # None /\ tab'.transactions = tab.transactions
    <2>1. tab' \in Tabs /\ tab'.ids = tab.ids /\ tab'.transactions = tab.transactions
      BY <1>1, <1>3 DEF Tabs, Steps
    <2>2. QED
      BY <2>1, PagesAreDefined
  <1>5. \A l : Whole(l) => Whole(l)'
    <2>1. \A g \in filings' : \E h \in filings : g.no = h.no
      BY <1>1
    <2>2. QED
      BY <1>2, <2>1, GrowKeepsWhole
  <1>6. PageOnlyPending'
    <2>1. PICK a, b : a = tab.ids /\ b = link.ids
      OBVIOUS
    <2>2. Whole(a)' /\ Whole(b)'
      BY <2>1, <1>0, <1>3, <1>5 DEF PageOnlyPending
    <2>3. Whole(tab.ids)' /\ Whole(link.ids)'
      BY <2>1, <2>2, <1>1, <1>4 DEF Whole
    <2>4. QED
      BY <2>3, <1>0, <1>1, <1>3, <1>4 DEF PageOnlyPending
  <1>7. CheckedAreApproved'
    <2>1. ASSUME checking # None, NEW k \in DOMAIN checking.ids, k < checking.at
          PROVE  filed'[checking.ids[k]].status = "Approved"
      BY <2>1, <1>0, <1>2 DEF CheckedAreApproved, Whole, Range, Grow
    <2>2. QED
      BY <2>1, <1>0, <1>1, <1>5 DEF CheckedAreApproved, Whole
  <1>8. FilingsAreComplete'
    BY <1>0, <1>1, <1>2 DEF FilingsAreComplete, Grow
  <1>9. AnswersAreFiled' /\ ResolvedRequestsWereApproved'
    BY <1>0, <1>1, <1>3 DEF PageOnlyPending, AnswersAreFiled, ResolvedRequestsWereApproved
  <1>10. QED
    BY <1>1, <1>2, <1>6, <1>7, <1>8, <1>9 DEF WalletInv, Grow

LEMMA HandleProceedInv ==
    ASSUME WalletInv, HandleProceed
    PROVE  WalletInv'
  <1>0. PageOnlyPending
    BY DEF WalletInv
  <1>1. PICK ids : ids = tab.ids
    OBVIOUS
  <1>2. /\ tab # None /\ ids # <<>> /\ tab' = [tab EXCEPT !.approvalLoading = TRUE]
        /\ checking' = [ids |-> ids, at |-> 1, hashes |-> <<>>]
        /\ UNCHANGED <<asked, signedIn, link, filings, filed, confirms>>
    BY <1>1 DEF HandleProceed
  <1>3. tab \in Tabs /\ ids \in Seq(Nat) /\ Whole(ids)
    BY <1>0, <1>1, <1>2 DEF PageOnlyPending, Tabs
  <1>4. tab' \in Tabs /\ tab'.ids = ids /\ tab' # None
    <2>1. tab' \in Tabs /\ tab'.ids = ids
      BY <1>1, <1>2, <1>3 DEF Tabs
    <2>2. QED
      BY <2>1, PagesAreDefined
  <1>5. PageOnlyPending'
    BY <1>0, <1>2, <1>3, <1>4 DEF PageOnlyPending, Whole
  <1>6. checking'.ids = ids /\ checking'.at = 1 /\ checking'.hashes = <<>>
    BY <1>2
  <1>7. 1 \in DOMAIN ids /\ \A k \in DOMAIN ids : ~(k < 1)
    BY <1>2, <1>3
  <1>8. CheckedAreApproved'
    BY <1>2, <1>3, <1>6, <1>7, RangeOfEmpty DEF CheckedAreApproved, Whole
  <1>9. QED
    BY <1>2, <1>5, <1>8 DEF WalletInv, FilingsAreComplete, AnswersAreFiled,
       ResolvedRequestsWereApproved

(* A round of the loop: it goes on, answers, or ends.                      *)
LEMMA CheckNextInv ==
    ASSUME WalletInv, CheckNext
    PROVE  WalletInv'
  <1>0. PageOnlyPending /\ CheckedAreApproved /\ filed \in Seq(FiledProposals)
    BY DEF WalletInv
  <1>1. PICK i : i = checking.ids[checking.at]
    OBVIOUS
  <1>2. checking # None /\ tab # None /\ UNCHANGED <<link, confirms>>
    BY <1>0 DEF CheckNext, PageOnlyPending
  <1>3. /\ checking = [ids |-> checking.ids, at |-> checking.at, hashes |-> checking.hashes]
        /\ checking.ids \in Seq(Nat) /\ checking.hashes \in Seq(Nat)
        /\ checking.at \in DOMAIN checking.ids /\ Whole(checking.ids)
        /\ \A k \in DOMAIN checking.ids :
              k < checking.at => filed[checking.ids[k]].status = "Approved"
        /\ Range(checking.hashes) \subseteq Range(checking.ids)
    BY <1>0, <1>2 DEF CheckedAreApproved
  <1>4. i \in Nat /\ i \in Range(checking.ids) /\ i \in DOMAIN filed
    BY <1>1, <1>3 DEF Range, Whole
  <1>5. CASE CheckEnds
    <2>1. /\ checking' = None /\ tab' = [tab EXCEPT !.approvalLoading = FALSE]
          /\ UNCHANGED <<asked, signedIn, filings, filed>>
      BY <1>5 DEF CheckEnds
    <2>2. tab' \in Tabs /\ tab'.ids = tab.ids /\ tab'.transactions = tab.transactions
      BY <2>1, <1>0, <1>2 DEF PageOnlyPending, Tabs
    <2>3. tab' # None
      BY <2>2, PagesAreDefined
    <2>4. PageOnlyPending'
      BY <1>0, <1>2, <2>1, <2>2, <2>3 DEF PageOnlyPending, Whole
    <2>5. QED
      BY <1>2, <2>1, <2>4 DEF WalletInv, FilingsAreComplete, CheckedAreApproved, AnswersAreFiled,
         ResolvedRequestsWereApproved
  <1>6. CASE Fail /\ filed' \in LeftBehind
    <2>1. /\ asked' = [what |-> asked'.what, outcome |-> asked'.outcome, value |-> asked'.value]
          /\ asked'.outcome = "rejected"
      BY <1>6, AskedKept DEF Fail
    <2>2. AnswersAreFiled' /\ ResolvedRequestsWereApproved'
      BY <2>1 DEF AnswersAreFiled, ResolvedRequestsWereApproved
    <2>3. QED
      BY <1>2, <1>6, <2>1, <2>2, GoneInv DEF Fail, WalletInv
  <1>7. ASSUME MayPass(i), NEW hashes \in {checking.hashes, Append(checking.hashes, i)},
               checking.at < Len(checking.ids),
               checking' = [checking EXCEPT !.at = @ + 1, !.hashes = hashes],
               UNCHANGED <<asked, signedIn, tab, filings, filed>>
        PROVE  WalletInv'
    <2>1. hashes \in Seq(Nat) /\ Range(hashes) \subseteq Range(checking.ids)
      <3>1. /\ Append(checking.hashes, i) \in Seq(Nat)
            /\ Range(Append(checking.hashes, i)) = Range(checking.hashes) \cup {i}
        BY <1>3, <1>4, RangeOfAppend
      <3>2. QED
        BY <3>1, <1>3, <1>4, <1>7
    <2>2. PICK n : n = checking.at + 1
      OBVIOUS
    <2>3. checking' = [ids |-> checking.ids, at |-> n, hashes |-> hashes]
      BY <1>3, <1>7, <2>2
    <2>4. checking'.ids = checking.ids /\ checking'.at = n /\ checking'.hashes = hashes
      BY <2>3
    <2>5. n \in DOMAIN checking.ids
      BY <1>3, <1>7, <2>2
    <2>6. \A k \in DOMAIN checking.ids : k < n => k < checking.at \/ k = checking.at
      BY <1>3, <2>2
    <2>7. \A k \in DOMAIN checking.ids : k < n => filed[checking.ids[k]].status = "Approved"
      BY <1>1, <1>3, <1>7, <2>6 DEF MayPass
    <2>8. Whole(checking.ids)'
      BY <1>3, <1>7, <2>4 DEF Whole
    <2>9. CheckedAreApproved'
      BY <1>3, <1>7, <2>1, <2>3, <2>4, <2>5, <2>7, <2>8 DEF CheckedAreApproved
    <2>10. PageOnlyPending'
      BY <1>0, <1>2, <1>7 DEF PageOnlyPending, Whole
    <2>11. QED
      BY <1>2, <1>7, <2>9, <2>10 DEF WalletInv, FilingsAreComplete, AnswersAreFiled,
         ResolvedRequestsWereApproved
  <1>8. ASSUME MayPass(i), NEW hashes \in {checking.hashes, Append(checking.hashes, i)},
               checking.at = Len(checking.ids), hashes # <<>>, Succeed(hashes),
               filed' \in LeftBehind
        PROVE  WalletInv'
    <2>1. hashes \in Seq(Nat) /\ Range(hashes) \subseteq Range(checking.ids)
      <3>1. /\ Append(checking.hashes, i) \in Seq(Nat)
            /\ Range(Append(checking.hashes, i)) = Range(checking.hashes) \cup {i}
        BY <1>3, <1>4, RangeOfAppend
      <3>2. QED
        BY <3>1, <1>3, <1>4, <1>8
    <2>2. \A k \in Range(checking.ids) : k \in DOMAIN filed /\ filed[k].status = "Approved"
      <3>1. ASSUME NEW k \in DOMAIN checking.ids
            PROVE  filed[checking.ids[k]].status = "Approved"
        <4>1. k < checking.at \/ k = checking.at
          BY <1>3, <1>8
        <4>2. QED
          BY <4>1, <1>1, <1>3, <1>8 DEF MayPass
      <3>2. QED
        BY <3>1, <1>3 DEF Range, Whole
    <2>3. /\ Grow /\ \A j \in DOMAIN filed' : filed'[j].known => j \in DOMAIN filed
      BY <1>2, <1>8, LeftBehindGrows
    <2>4. /\ asked' = [what |-> asked'.what, outcome |-> asked'.outcome, value |-> asked'.value]
          /\ \/ asked'.outcome = "resolved" /\ asked'.value = hashes
             \/ asked'.outcome = "rejected"
      BY <1>8, AskedKept, AskedResolved DEF Succeed
    <2>5. Range(hashes) \subseteq DOMAIN filed'
      BY <2>1, <2>2, <2>3 DEF Grow
    <2>6. \A v \in Range(hashes) :
            /\ filed'[v].status = "Approved"
            /\ \A j \in DOMAIN filed' :
                  filed'[j].by = filed'[v].by /\ filed'[j].known => filed'[j].status = "Approved"
      <3> SUFFICES ASSUME NEW v \in Range(hashes)
                   PROVE  /\ filed'[v].status = "Approved"
                          /\ \A j \in DOMAIN filed' :
                                filed'[j].by = filed'[v].by /\ filed'[j].known
                                    => filed'[j].status = "Approved"
        OBVIOUS
      <3>1. /\ v \in Range(checking.ids) /\ v \in DOMAIN filed /\ filed[v].status = "Approved"
            /\ filed'[v].by = filed[v].by /\ filed'[v].status = "Approved"
        BY <2>1, <2>2, <2>3 DEF Grow
      <3>2. ASSUME NEW j \in DOMAIN filed', filed'[j].by = filed'[v].by, filed'[j].known
            PROVE  filed'[j].status = "Approved"
        <4>1. j \in DOMAIN filed /\ filed[j].by = filed[v].by /\ filed[j].known
          BY <3>1, <3>2, <2>3 DEF Grow
        <4>2. j \in Range(checking.ids)
          BY <4>1, <3>1, <1>3 DEF Whole
        <4>3. QED
          BY <4>1, <4>2, <2>2, <2>3 DEF Grow
      <3>3. QED
        BY <3>1, <3>2
    <2>7. AnswersAreFiled' /\ ResolvedRequestsWereApproved'
      <3>1. \A v \in Range(hashes) : \A q \in Range(filed') :
              q.by = filed'[v].by /\ q.known => q.status = "Approved"
        BY <2>6 DEF Range
      <3>2. QED
        BY <1>8, <2>4, <2>5, <2>6, <3>1 DEF AnswersAreFiled, ResolvedRequestsWereApproved
    <2>8. signedIn' = signedIn
      <3>1. asked.what # "sign_in"
        BY <1>0, <1>2 DEF PageOnlyPending
      <3>2. QED
        BY <3>1, <1>8 DEF Succeed
    <2>9. QED
      BY <1>2, <1>8, <2>4, <2>7, <2>8, GoneInv DEF Succeed, WalletInv
  <1>9. QED
    BY <1>1, <1>2, <1>5, <1>6, <1>7, <1>8 DEF CheckNext

(* Fetching the treasuries again leaves the request and the ids alone.     *)
LEMMA RefetchedPage ==
    ASSUME NEW t \in Tabs
    PROVE  /\ Refetch(t) \in Tabs /\ Refetch(t).ids = t.ids
           /\ Refetch(t).transactions = t.transactions
  BY DEF Refetch, Tabs

LEMMA WalletNextInv == WalletInv /\ [WalletNext]_walletVars => WalletInv'
  <1> SUFFICES ASSUME WalletInv, [WalletNext]_walletVars PROVE WalletInv'
    OBVIOUS
  <1>0. PageOnlyPending /\ signedIn \in Treasuries \cup {None}
    BY DEF WalletInv
  <1>a. ASSUME Fail, filed' \in LeftBehind, UNCHANGED confirms PROVE WalletInv'
    <2>1. /\ asked' = [what |-> asked'.what, outcome |-> asked'.outcome, value |-> asked'.value]
          /\ asked'.outcome = "rejected"
      BY <1>a, AskedKept DEF Fail
    <2>2. AnswersAreFiled' /\ ResolvedRequestsWereApproved'
      BY <2>1 DEF AnswersAreFiled, ResolvedRequestsWereApproved
    <2>3. QED
      BY <1>0, <1>a, <2>1, <2>2, GoneInv DEF Fail
  <1>b. tab # None => tab \in Tabs
    BY <1>0 DEF PageOnlyPending
  <1>1. ASSUME NEW what \in {"sign_in", "sign_transactions"}, OpenPopup(what) PROVE WalletInv'
    BY <1>1, OpenPopupInv
  <1>2. CASE FindClosed
    <2>1. /\ tab = None /\ asked' = [asked EXCEPT !.outcome = "rejected"]
          /\ UNCHANGED <<signedIn, tab, link, filings, checking, filed, confirms>>
      BY <1>2 DEF FindClosed
    <2>2. /\ asked' = [what |-> asked'.what, outcome |-> asked'.outcome, value |-> asked'.value]
          /\ asked'.outcome = "rejected"
      BY <2>1, AskedKept
    <2>3. QED
      BY <2>1, <2>2 DEF WalletInv, PageOnlyPending, FilingsAreComplete, CheckedAreApproved,
         AnswersAreFiled, ResolvedRequestsWereApproved
  <1>3. CASE SignOut
    BY <1>3 DEF SignOut, WalletInv, PageOnlyPending, FilingsAreComplete, CheckedAreApproved, Whole,
       AnswersAreFiled, ResolvedRequestsWereApproved
  <1>4. CASE AccountArrives
    <2>1. tab' \in Tabs /\ tab'.ids = tab.ids /\ tab'.transactions = tab.transactions
      <3>1. PICK t : t = [tab EXCEPT !.account = TRUE]
        OBVIOUS
      <3>2. tab \in Tabs /\ tab' = Refetch(t)
        BY <1>4, <1>b, <3>1 DEF AccountArrives
      <3>3. t \in Tabs /\ t.ids = tab.ids /\ t.transactions = tab.transactions
        BY <3>1, <3>2 DEF Tabs
      <3>4. QED
        BY <3>2, <3>3, RefetchedPage
    <2>2. QED
      BY <1>4, <2>1, PageStepInv DEF AccountArrives
  <1>5. CASE ConnectFails
    <2>1. tab' \in Tabs /\ tab'.ids = tab.ids /\ tab'.transactions = tab.transactions
      BY <1>5, <1>b DEF ConnectFails, Tabs, Steps
    <2>2. QED
      BY <1>5, <2>1, PageStepInv DEF ConnectFails
  <1>6. CASE TreasuriesAnswer
    <2>1. /\ tab # None /\ tab.answers > 0 /\ tab \in Tabs /\ tab.answers - 1 \in Nat
          /\ link.signer \in Treasuries \cup {None}
      BY <1>6, <1>0, <1>b DEF TreasuriesAnswer, PageOnlyPending, Tabs
    <2>2. tab' \in Tabs /\ tab'.ids = tab.ids /\ tab'.transactions = tab.transactions
      BY <1>6, <2>1 DEF TreasuriesAnswer, Tabs, Steps
    <2>3. QED
      BY <1>6, <2>2, PageStepInv DEF TreasuriesAnswer
  <1>7. ASSUME NEW d \in Treasuries, HandleSelectTreasury(d) PROVE WalletInv'
    <2>1. tab # None /\ link.action = asked.what /\ UNCHANGED <<link, confirms>>
      BY <1>7, <1>0 DEF HandleSelectTreasury, PageOnlyPending
    <2>2. CASE link.action = "sign_in" /\ Succeed(d) /\ filed' \in LeftBehind
      <3>1. Gone /\ asked' = [asked EXCEPT !.outcome = "resolved", !.value = d]
            /\ signedIn' \in Treasuries \cup {None}
        BY <2>1, <2>2, <1>0 DEF Succeed
      <3>2. /\ asked' = [what |-> asked'.what, outcome |-> asked'.outcome, value |-> asked'.value]
            /\ asked'.what = "sign_in"
        BY <3>1, <2>1, <2>2, AskedResolved
      <3>3. AnswersAreFiled' /\ ResolvedRequestsWereApproved'
        BY <3>2 DEF AnswersAreFiled, ResolvedRequestsWereApproved
      <3>4. QED
        BY <2>1, <2>2, <3>1, <3>2, <3>3, GoneInv
    <2>3. CASE /\ tab' = [tab EXCEPT !.dao = d, !.step = "confirm-transactions"]
               /\ UNCHANGED <<asked, signedIn, filings, checking, filed>>
      <3>1. tab' \in Tabs /\ tab'.ids = tab.ids /\ tab'.transactions = tab.transactions
        BY <2>1, <2>3, <1>b DEF Tabs, Steps
      <3>2. QED
        BY <2>1, <2>3, <3>1, PageStepInv
    <2>4. QED
      BY <1>7, <2>2, <2>3 DEF HandleSelectTreasury
  <1>8. CASE HandleConfirmTransactions
    BY <1>8, ConfirmTransactionsInv
  <1>9. ASSUME NEW f \in filings, NEW known \in BOOLEAN, Filed(f, known) PROVE WalletInv'
    BY <1>9, FiledInv
  <1>10. ASSUME NEW f \in filings, FilingFails(f) PROVE WalletInv'
    BY <1>10, FilingFailsInv
  <1>11. ASSUME NEW i \in DOMAIN filed, DecideFiled(i) PROVE WalletInv'
    BY <1>11, DecideFiledInv
  <1>12. CASE HandleProceed
    BY <1>12, HandleProceedInv
  <1>13. CASE CheckNext
    BY <1>13, CheckNextInv
  <1>14. CASE TryAgain
    <2>1. tab' \in Tabs /\ tab'.ids = tab.ids /\ tab'.transactions = tab.transactions
      <3>1. PICK t : t = [tab EXCEPT !.step = "connect"]
        OBVIOUS
      <3>2. tab \in Tabs /\ tab' = Refetch(t)
        BY <1>14, <1>b, <3>1 DEF TryAgain
      <3>3. t \in Tabs /\ t.ids = tab.ids /\ t.transactions = tab.transactions
        BY <3>1, <3>2 DEF Tabs, Steps
      <3>4. QED
        BY <3>2, <3>3, RefetchedPage
    <2>2. QED
      BY <1>14, <2>1, PageStepInv DEF TryAgain
  <1>15. CASE HandleCancel
    BY <1>15, <1>a DEF HandleCancel
  <1>16. CASE CloseWindow
    <2>1. tab # None /\ asked.outcome = "pending" /\ UNCHANGED <<asked, signedIn, confirms>>
      BY <1>16, <1>0 DEF CloseWindow, PageOnlyPending
    <2>2. AnswersAreFiled' /\ ResolvedRequestsWereApproved'
      BY <2>1 DEF AnswersAreFiled, ResolvedRequestsWereApproved
    <2>3. asked' = [what |-> asked'.what, outcome |-> asked'.outcome, value |-> asked'.value]
      BY <2>1 DEF WalletInv
    <2>4. QED
      BY <1>16, <1>0, <2>1, <2>2, <2>3, GoneInv DEF CloseWindow
  <1>17. CASE Reload
    BY <1>17, ReloadInv
  <1>18. CASE UNCHANGED walletVars
    BY <1>18 DEF walletVars, WalletInv, PageOnlyPending, FilingsAreComplete, CheckedAreApproved,
       Whole, AnswersAreFiled, ResolvedRequestsWereApproved
  <1>19. QED
    BY <1>1, <1>2, <1>3, <1>4, <1>5, <1>6, <1>7, <1>8, <1>9, <1>10, <1>11, <1>12, <1>13, <1>14,
       <1>15, <1>16, <1>17, <1>18
    DEF WalletNext

(* The application is told of transactions of approved proposals only, and *)
(* every proposal known of the same confirmation is approved as well,      *)
(* through reloads, filings that stop half way and votes meanwhile.        *)
THEOREM ResolvedStayApproved == WalletSpec => []ResolvedRequestsWereApproved
  <1>1. WalletInv => ResolvedRequestsWereApproved
    BY DEF WalletInv
  <1>2. QED
    BY <1>1, WalletInitInv, WalletNextInv, PTL DEF WalletSpec

-----------------------------------------------------------------------------
(* The members page *)

LEMMA LargestIs ==
    ASSUME NEW S, IsFiniteSet(S), S \subseteq Int, S # {}
    PROVE  Max(S) \in S /\ \A y \in S : Max(S) >= y
  BY LargestExists DEF Max

(* What the rows of T make of a policy: the last row of an account has its *)
(* way, and accounts without a row keep their roles.                       *)
LastRow(rows, T, i) == \A j \in T : j > i => rows[j].account # rows[i].account
Edited(p, rows, T) ==
    [r \in Roles |->
        {a \in p[r] : \A i \in T : rows[i].account # a}
        \cup {rows[i].account : i \in {j \in T : r \in rows[j].roles /\ LastRow(rows, T, j)}}]

IsRowTable(h, p, rows, S) ==
    h = [T \in SUBSET S |-> IF T = {} THEN p ELSE WithRow(h[T \ {Max(T)}], rows[Max(T)])]

LEMMA RowsUnfold ==
    ASSUME NEW p, NEW rows
    PROVE  WithRows(p, rows) = (CHOOSE h : IsRowTable(h, p, rows, DOMAIN rows))[DOMAIN rows]
  BY DEF WithRows, FoldLeft, MapThenFoldSet, IsRowTable

IsMemberRowTable(h, p, rows, S) ==
    h = [T \in SUBSET S |->
            IF T = {} THEN p ELSE WithMemberRow(h[T \ {Max(T)}], rows[Max(T)])]

LEMMA FinalUnfolds ==
    ASSUME NEW rows
    PROVE  Final(rows) =
             (CHOOSE h : IsMemberRowTable(h, policy, rows, DOMAIN rows))[DOMAIN rows]
  BY DEF Final, FoldLeft, MapThenFoldSet, IsMemberRowTable

(* One row more is the row applied to what the others make.                *)
LEMMA EditedTakes ==
    ASSUME NEW p, NEW rows, NEW T \in SUBSET Int, NEW m \in T, \A y \in T : y <= m
    PROVE  Edited(p, rows, T) = WithRow(Edited(p, rows, T \ {m}), rows[m])
  <1> DEFINE U == T \ {m}
  <1>1. ASSUME NEW r \in Roles, NEW a
        PROVE  a \in Edited(p, rows, T)[r]
                 <=> a \in WithRow(Edited(p, rows, U), rows[m])[r]
    <2>1. a \in Edited(p, rows, T)[r] <=>
            \/ a \in p[r] /\ \A i \in T : rows[i].account # a
            \/ \E i \in T : r \in rows[i].roles /\ LastRow(rows, T, i) /\ a = rows[i].account
      BY DEF Edited
    <2>2. a \in Edited(p, rows, U)[r] <=>
            \/ a \in p[r] /\ \A i \in U : rows[i].account # a
            \/ \E i \in U : r \in rows[i].roles /\ LastRow(rows, U, i) /\ a = rows[i].account
      BY DEF Edited
    <2>3. a \in WithRow(Edited(p, rows, U), rows[m])[r] <=>
            IF r \in rows[m].roles THEN a \in Edited(p, rows, U)[r] \/ a = rows[m].account
            ELSE a \in Edited(p, rows, U)[r] /\ a # rows[m].account
      BY DEF WithRow
    <2>4. LastRow(rows, T, m)
      BY DEF LastRow
    <2>5. ASSUME NEW i \in U
          PROVE  LastRow(rows, T, i) <=>
                   LastRow(rows, U, i) /\ rows[m].account # rows[i].account
      <3>1. m > i
        <4>1. i \in T /\ i <= m /\ i # m /\ i \in Int /\ m \in Int
          OBVIOUS
        <4> HIDE DEF U
        <4>2. QED
          BY <4>1
      <3>2. QED
        BY <3>1 DEF LastRow
    <2>6. CASE a = rows[m].account
      <3>1. ~(\A i \in T : rows[i].account # a)
        BY <2>6
      <3>2. \A i \in U : LastRow(rows, T, i) => rows[i].account # a
        BY <2>5, <2>6
      <3>3. a \in Edited(p, rows, T)[r] <=> r \in rows[m].roles
        BY <2>1, <2>4, <2>6, <3>1, <3>2
      <3>4. QED
        BY <2>3, <2>6, <3>3
    <2>7. CASE a # rows[m].account
      <3>1. (\A i \in T : rows[i].account # a) <=> (\A i \in U : rows[i].account # a)
        BY <2>7
      <3>2. \A i \in U : a = rows[i].account =>
                (LastRow(rows, T, i) <=> LastRow(rows, U, i))
        BY <2>5, <2>7
      <3>3. (\E i \in T : r \in rows[i].roles /\ LastRow(rows, T, i) /\ a = rows[i].account)
              <=> (\E i \in U : r \in rows[i].roles /\ LastRow(rows, U, i) /\ a = rows[i].account)
        BY <2>7, <3>2
      <3>4. QED
        BY <2>1, <2>2, <2>3, <2>7, <3>1, <3>3
    <2>8. QED
      BY <2>6, <2>7
  <1>2. /\ Edited(p, rows, T) = [r \in Roles |-> Edited(p, rows, T)[r]]
        /\ WithRow(Edited(p, rows, U), rows[m])
             = [r \in Roles |-> WithRow(Edited(p, rows, U), rows[m])[r]]
    BY DEF Edited, WithRow
  <1> HIDE DEF U
  <1>3. \A r \in Roles : Edited(p, rows, T)[r] = WithRow(Edited(p, rows, U), rows[m])[r]
    BY <1>1
  <1>4. QED
    BY <1>2, <1>3 DEF U

LEMMA TakenRows ==
    ASSUME NEW p, NEW rows, NEW S, IsFiniteSet(S), S \subseteq Int, NEW T \in SUBSET S, T # {}
    PROVE  /\ Max(T) \in T /\ T \ {Max(T)} \in SUBSET S /\ T \ {Max(T)} # T
           /\ Edited(p, rows, T) = WithRow(Edited(p, rows, T \ {Max(T)}), rows[Max(T)])
  <1>1. IsFiniteSet(T) /\ T \subseteq Int
    BY FS_Subset
  <1>2. Max(T) \in T /\ \A y \in T : Max(T) >= y
    BY <1>1, LargestIs
  <1>3. \A y \in T : y <= Max(T)
    BY <1>1, <1>2
  <1>4. T \ {Max(T)} \in SUBSET S /\ T \ {Max(T)} # T
    BY <1>2
  <1>5. Edited(p, rows, T) = WithRow(Edited(p, rows, T \ {Max(T)}), rows[Max(T)])
    <2>1. PICK m \in T : m = Max(T)
      BY <1>2
    <2>2. \A y \in T : y <= m
      BY <1>3, <2>1
    <2>3. T \in SUBSET Int
      BY <1>1
    <2>4. Edited(p, rows, T) = WithRow(Edited(p, rows, T \ {m}), rows[m])
      BY <2>2, <2>3, EditedTakes
    <2>5. QED
      BY <2>1, <2>4
  <1>6. QED
    BY <1>2, <1>4, <1>5

LEMMA EditedNothing ==
    ASSUME NEW p, p = [r \in Roles |-> p[r]], NEW rows
    PROVE  Edited(p, rows, {}) = p
  <1>1. \A r \in Roles : Edited(p, rows, {})[r] = p[r]
    BY DEF Edited
  <1>2. Edited(p, rows, {}) = [r \in Roles |-> Edited(p, rows, {})[r]]
    BY DEF Edited
  <1>3. QED
    BY <1>1, <1>2

(* The fold's table is the one of what the rows make.                      *)
EditedTable(p, rows, S) == [T \in SUBSET S |-> Edited(p, rows, T)]

LEMMA RowTableIs ==
    ASSUME NEW p, p = [r \in Roles |-> p[r]], NEW rows, NEW S, IsFiniteSet(S), S \subseteq Int
    PROVE  \A h : IsRowTable(h, p, rows, S) <=> h = EditedTable(p, rows, S)
  <1>1. IsRowTable(EditedTable(p, rows, S), p, rows, S)
    <2> DEFINE h == EditedTable(p, rows, S)
    <2>1. ASSUME NEW T \in SUBSET S
          PROVE  h[T] = IF T = {} THEN p ELSE WithRow(h[T \ {Max(T)}], rows[Max(T)])
      <3>1. CASE T = {}
        BY <3>1, EditedNothing DEF EditedTable
      <3>2. CASE T # {}
        <4>1. h[T] = Edited(p, rows, T)
          BY DEF EditedTable
        <4>2. T \ {Max(T)} \in SUBSET S
              /\ Edited(p, rows, T) = WithRow(Edited(p, rows, T \ {Max(T)}), rows[Max(T)])
          BY <3>2, TakenRows
        <4>3. h[T \ {Max(T)}] = Edited(p, rows, T \ {Max(T)})
          BY <4>2 DEF EditedTable
        <4>4. QED
          BY <3>2, <4>1, <4>2, <4>3
      <3>3. QED
        BY <3>1, <3>2
    <2>2. h = [T \in SUBSET S |-> h[T]]
      BY DEF EditedTable
    <2> HIDE DEF h
    <2>3. QED
      BY <2>1, <2>2 DEF IsRowTable, h
  <1>2. ASSUME NEW h, IsRowTable(h, p, rows, S) PROVE h = EditedTable(p, rows, S)
    <2> DEFINE C == {T \in SUBSET S : h[T] = Edited(p, rows, T)}
    <2>1. ASSUME NEW T \in SUBSET S, \A U \in SUBSET T : U # T => U \in C
          PROVE  T \in C
      <3>1. h[T] = IF T = {} THEN p ELSE WithRow(h[T \ {Max(T)}], rows[Max(T)])
        BY <1>2 DEF IsRowTable
      <3>2. CASE T = {}
        BY <3>1, <3>2, EditedNothing
      <3>3. CASE T # {}
        <4>1. /\ T \ {Max(T)} \in SUBSET T /\ T \ {Max(T)} # T
              /\ Edited(p, rows, T) = WithRow(Edited(p, rows, T \ {Max(T)}), rows[Max(T)])
          BY <3>3, TakenRows
        <4>2. T \ {Max(T)} \in C
          BY <4>1, <2>1
        <4>3. h[T \ {Max(T)}] = Edited(p, rows, T \ {Max(T)})
          BY <4>2
        <4>4. QED
          BY <3>1, <3>3, <4>1, <4>3
      <3>4. QED
        BY <3>2, <3>3
    <2> HIDE DEF C
    <2>2. \A T \in SUBSET S : T \in C
      BY <2>1, SubsetInduction
    <2>3. \A T \in SUBSET S : h[T] = Edited(p, rows, T)
      BY <2>2 DEF C
    <2>4. h = [T \in SUBSET S |-> h[T]]
      BY <1>2 DEF IsRowTable
    <2>5. QED
      BY <2>3, <2>4 DEF EditedTable
  <1>3. QED
    BY <1>1, <1>2

LEMMA RowsDomain ==
    ASSUME NEW rows \in Seq(Rows)
    PROVE  IsFiniteSet(DOMAIN rows) /\ DOMAIN rows \subseteq Int
  BY FS_Interval

(* What a list of rows makes of a policy. *)
LEMMA RowsMake ==
    ASSUME NEW p, p = [r \in Roles |-> p[r]], NEW rows \in Seq(Rows)
    PROVE  WithRows(p, rows) = Edited(p, rows, DOMAIN rows)
  <1>1. IsFiniteSet(DOMAIN rows) /\ DOMAIN rows \subseteq Int
    BY RowsDomain
  <1>2. \A h : IsRowTable(h, p, rows, DOMAIN rows) <=> h = EditedTable(p, rows, DOMAIN rows)
    BY <1>1, RowTableIs
  <1>3. IsRowTable(EditedTable(p, rows, DOMAIN rows), p, rows, DOMAIN rows)
    BY <1>2
  <1> DEFINE t == CHOOSE h : IsRowTable(h, p, rows, DOMAIN rows)
  <1>4. IsRowTable(t, p, rows, DOMAIN rows)
    BY <1>3
  <1>5. t = EditedTable(p, rows, DOMAIN rows)
    BY <1>2, <1>4
  <1>6. WithRows(p, rows) = EditedTable(p, rows, DOMAIN rows)[DOMAIN rows]
    BY <1>5, RowsUnfold
  <1>7. QED
    BY <1>6 DEF EditedTable

(* When all the rows are of members, none is passed over. *)
LEMMA MemberRowsMake ==
    ASSUME policy = [r \in Roles |-> policy[r]], NEW rows \in Seq(Rows),
           Listed(rows) \subseteq Members(policy)
    PROVE  Final(rows) = Edited(policy, rows, DOMAIN rows)
  <1> DEFINE S == DOMAIN rows
  <1>1. IsFiniteSet(S) /\ S \subseteq Int
    BY RowsDomain
  <1>2. ASSUME NEW h
        PROVE  IsMemberRowTable(h, policy, rows, S) <=> IsRowTable(h, policy, rows, S)
    <2>1. ASSUME NEW T \in SUBSET S
          PROVE  (IF T = {} THEN policy ELSE WithMemberRow(h[T \ {Max(T)}], rows[Max(T)]))
                   = (IF T = {} THEN policy ELSE WithRow(h[T \ {Max(T)}], rows[Max(T)]))
      <3>1. CASE T = {}
        BY <3>1
      <3>2. CASE T # {}
        <4>1. Max(T) \in T
          BY <1>1, <3>2, TakenRows
        <4>2. rows[Max(T)].account \in Members(policy)
          BY <4>1 DEF Listed
        <4>3. WithMemberRow(h[T \ {Max(T)}], rows[Max(T)])
                = WithRow(h[T \ {Max(T)}], rows[Max(T)])
          BY <4>2 DEF WithMemberRow
        <4>4. QED
          BY <4>3
      <3>3. QED
        BY <3>1, <3>2
    <2> DEFINE a(T) == IF T = {} THEN policy
                       ELSE WithMemberRow(h[T \ {Max(T)}], rows[Max(T)])
    <2> DEFINE b(T) == IF T = {} THEN policy ELSE WithRow(h[T \ {Max(T)}], rows[Max(T)])
    <2>2. \A T \in SUBSET S : a(T) = b(T)
      BY <2>1
    <2> HIDE DEF a, b
    <2>3. [T \in SUBSET S |-> a(T)] = [T \in SUBSET S |-> b(T)]
      BY <2>2
    <2>4. QED
      BY <2>3 DEF IsMemberRowTable, IsRowTable, a, b
  <1>3. \A h : IsMemberRowTable(h, policy, rows, S) <=> h = EditedTable(policy, rows, S)
    BY <1>1, <1>2, RowTableIs
  <1> HIDE DEF S
  <1> DEFINE t == CHOOSE h : IsMemberRowTable(h, policy, rows, S)
  <1>4. t = EditedTable(policy, rows, S)
    BY <1>3
  <1>5. Final(rows) = EditedTable(policy, rows, S)[S]
    BY <1>4, FinalUnfolds DEF S
  <1>6. QED
    BY <1>5 DEF EditedTable, S

-----------------------------------------------------------------------------
(* Every dialog leaves a policy a policy.                                  *)
LEMMA PolicyIsFunction ==
    ASSUME NEW p \in Policies
    PROVE  p = [r \in Roles |-> p[r]] /\ \A r \in Roles : p[r] \subseteq Accounts
  BY DEF Policies

LEMMA RowFields ==
    ASSUME NEW rows \in Seq(Rows), NEW i \in DOMAIN rows
    PROVE  rows[i] \in Rows /\ rows[i].account \in Accounts /\ rows[i].roles \subseteq Roles
  <1>1. rows[i] \in Rows
    OBVIOUS
  <1>2. QED
    BY <1>1 DEF Rows

LEMMA RowsStayPolicies ==
    ASSUME NEW p \in Policies, NEW rows \in Seq(Rows)
    PROVE  WithRows(p, rows) \in Policies
  <1>1. \A i \in DOMAIN rows : rows[i].account \in Accounts
    BY RowFields
  <1>2. \A r \in Roles : Edited(p, rows, DOMAIN rows)[r] \subseteq Accounts
    BY <1>1, PolicyIsFunction DEF Edited
  <1>3. Edited(p, rows, DOMAIN rows) = [r \in Roles |-> Edited(p, rows, DOMAIN rows)[r]]
    BY DEF Edited
  <1>4. WithRows(p, rows) = Edited(p, rows, DOMAIN rows)
    BY PolicyIsFunction, RowsMake
  <1>5. QED
    BY <1>2, <1>3, <1>4 DEF Policies

Distinct(rows) ==
    \A i, j \in DOMAIN rows : rows[i].account = rows[j].account => i = j

(* With a row for each account, an account has the roles of its row.       *)
LEMMA DistinctRows ==
    ASSUME NEW p, NEW rows \in Seq(Rows), Distinct(rows), NEW r \in Roles, NEW a
    PROVE  a \in Edited(p, rows, DOMAIN rows)[r] <=>
             \/ a \in p[r] /\ a \notin Listed(rows)
             \/ \E i \in DOMAIN rows : r \in rows[i].roles /\ a = rows[i].account
  <1>1. DOMAIN rows \subseteq Int
    BY RowsDomain
  <1>2. \A i \in DOMAIN rows : LastRow(rows, DOMAIN rows, i)
    BY <1>1 DEF Distinct, LastRow
  <1>3. QED
    BY <1>2 DEF Edited, Listed

(* The rows of some members name each once, with the roles it has.         *)
LEMMA RowsOfMembers ==
    ASSUME NEW p \in Policies, NEW S \in SUBSET Accounts
    PROVE  /\ RowsOf(p, S) \in Seq(Rows) /\ Distinct(RowsOf(p, S))
           /\ Listed(RowsOf(p, S)) \subseteq S
           /\ \A i \in DOMAIN RowsOf(p, S) :
                 RowsOf(p, S)[i] = RowOf(p, RowsOf(p, S)[i].account)
  <1> DEFINE n == Cardinality(S)
  <1>1. IsFiniteSet(S)
    BY PoliciesAssumption, FS_Subset
  <1>2. n \in Nat /\ ExistsBijection(1..n, S)
    BY <1>1, FS_CardinalityType
  <1>3. \E f \in [1..n -> S] : IsInjective(f)
    BY <1>2 DEF ExistsBijection, Bijection, Injection, IsInjective
  <1>4. SetToSeq(S) \in [1..n -> S] /\ IsInjective(SetToSeq(S))
    BY <1>3 DEF SetToSeq
  <1> DEFINE q == SetToSeq(S)
  <1>5. RowsOf(p, S) = [i \in 1..n |-> RowOf(p, q[i])]
    BY DEF RowsOf
  <1>6. q \in [1..n -> S] /\ \A i, j \in 1..n : q[i] = q[j] => i = j
    BY <1>4 DEF IsInjective
  <1> HIDE DEF n, q
  <1>7. \A a \in Accounts : RowOf(p, a) \in Rows /\ RowOf(p, a).account = a
    BY DEF RowOf, Rows, RolesIn
  <1>8. RowsOf(p, S) \in [1..n -> Rows]
    BY <1>5, <1>6, <1>7
  <1>9. RowsOf(p, S) \in Seq(Rows) /\ DOMAIN RowsOf(p, S) = 1..n
    BY <1>8, <1>2
  <1>10. \A i \in 1..n : RowsOf(p, S)[i] = RowOf(p, q[i]) /\ RowsOf(p, S)[i].account = q[i]
    BY <1>5, <1>6, <1>7
  <1>11. QED
    BY <1>6, <1>9, <1>10 DEF Distinct, Listed

-----------------------------------------------------------------------------
(* What the dialogs hold, while the copy of the policy is the one they     *)
(* were opened or checked with: the rows to add are of accounts that are   *)
(* not members; the rows of an edit are of members, and together they      *)
(* leave no role empty unless Nearn's is among them; the row to remove is  *)
(* the member's, and there is one in the delete dialog only.               *)
MembersFields ==
    /\ onChain \in Policies /\ inProgress \subseteq Policies /\ policy \in Policies
    /\ form \in Seq(Rows) /\ selected \subseteq Accounts
    /\ request # None => request.policy \in Policies
ForNewMembers(p, rows) == Distinct(rows) /\ Listed(rows) \cap Members(p) = {}
MansRoles(p, rows) ==
    \A r \in Roles : p[r] # {} => Edited(p, rows, DOMAIN rows)[r] # {}
ForMembers(p, rows) ==
    /\ Distinct(rows) /\ Listed(rows) \subseteq Members(p)
    /\ Nearn \notin Listed(rows) => MansRoles(p, rows)
DialogsAreWeighed ==
    /\ dialog \in {"checking", "addPreview"} /\ unmoved => ForNewMembers(policy, form)
    /\ dialog \in {"edit", "editPreview"} /\ unmoved => ForMembers(policy, form)
TargetIsRow ==
    target # None => /\ dialog = "delete"
                     /\ unmoved => target = RowOf(policy, target.account)
RequestsAreWeighed == RolesStayManned /\ AddsGrantTheirRoles

MembersInv == MembersFields /\ DialogsAreWeighed /\ TargetIsRow /\ RequestsAreWeighed

LEMMA NoRowsAreWeighed ==
    ASSUME NEW p \in Policies
    PROVE  <<>> \in Seq(Rows) /\ ForNewMembers(p, <<>>) /\ ForMembers(p, <<>>)
  <1>1. DOMAIN <<>> = {} /\ <<>> \in Seq(Rows)
    OBVIOUS
  <1>2. Edited(p, <<>>, {}) = p
    BY PolicyIsFunction, EditedNothing
  <1>3. Distinct(<<>>) /\ Listed(<<>>) = {}
    BY <1>1 DEF Distinct, Listed
  <1>4. QED
    BY <1>1, <1>2, <1>3 DEF ForNewMembers, ForMembers, MansRoles

LEMMA MembersInitInv == MembersInit => MembersInv
  <1> SUFFICES ASSUME MembersInit PROVE MembersInv
    OBVIOUS
  <1>1. /\ onChain = FirstPolicy /\ policy = FirstPolicy /\ inProgress = {} /\ form = Link
        /\ dialog \in {"none", "add"} /\ selected = {} /\ target = None /\ request = None
    BY DEF MembersInit
  <1>2. QED
    BY <1>1, PoliciesAssumption
       DEF MembersInv, MembersFields, DialogsAreWeighed, TargetIsRow, RequestsAreWeighed,
           RolesStayManned, AddsGrantTheirRoles, Unmoved

(* The rows of some members, as they are, change nothing.                  *)
LEMMA OpenedEditIsWeighed ==
    ASSUME NEW p \in Policies, NEW S \in SUBSET Accounts, S \subseteq Members(p)
    PROVE  RowsOf(p, S) \in Seq(Rows) /\ ForMembers(p, RowsOf(p, S))
  <1> DEFINE rows == RowsOf(p, S)
  <1>1. /\ rows \in Seq(Rows) /\ Distinct(rows) /\ Listed(rows) \subseteq S
        /\ \A i \in DOMAIN rows : rows[i] = RowOf(p, rows[i].account)
    BY RowsOfMembers
  <1> HIDE DEF rows
  <1>2. ASSUME NEW r \in Roles, NEW a \in p[r]
        PROVE  a \in Edited(p, rows, DOMAIN rows)[r]
    <2>1. CASE a \notin Listed(rows)
      BY <1>1, <2>1, DistinctRows
    <2>2. CASE a \in Listed(rows)
      <3>1. PICK i \in DOMAIN rows : rows[i].account = a
        BY <2>2 DEF Listed
      <3>2. rows[i].roles = RolesIn(p, a)
        BY <1>1, <3>1 DEF RowOf
      <3>3. r \in rows[i].roles
        BY <3>2 DEF RolesIn
      <3>4. QED
        BY <1>1, <3>1, <3>3, DistinctRows
    <2>3. QED
      BY <2>1, <2>2
  <1>3. MansRoles(p, rows)
    BY <1>2 DEF MansRoles
  <1>4. QED
    BY <1>1, <1>3 DEF ForMembers, rows

(* A role toggled in one row is taken from one member at most, and not     *)
(* from the last that the other edits leave in it.                         *)
LEMMA ToggledIsWeighed ==
    ASSUME policy \in Policies, form \in Seq(Rows), ForMembers(policy, form),
           NEW i \in DOMAIN form, NEW r \in Roles, r \notin DisabledRoles(form[i]),
           NEW rows,
           rows = [form EXCEPT ![i].roles = IF r \in @ THEN @ \ {r} ELSE @ \cup {r}]
    PROVE  rows \in Seq(Rows) /\ ForMembers(policy, rows)
  <1>1. form[i] \in Rows /\ form[i].account \in Accounts /\ form[i].roles \subseteq Roles
    BY RowFields
  <1> DEFINE row == [form[i] EXCEPT !.roles = IF r \in @ THEN @ \ {r} ELSE @ \cup {r}]
  <1>2. /\ row \in Rows /\ row.account = form[i].account
        /\ \A s \in Roles : s # r => (s \in row.roles <=> s \in form[i].roles)
        /\ r \in row.roles <=> r \notin form[i].roles
    BY <1>1 DEF Rows
  <1>3. rows = [form EXCEPT ![i] = row]
    OBVIOUS
  <1> HIDE DEF row
  <1>4. /\ rows \in Seq(Rows) /\ DOMAIN rows = DOMAIN form /\ rows[i] = row
        /\ \A j \in DOMAIN form : j # i => rows[j] = form[j]
    <2>1. form \in [1..Len(form) -> Rows] /\ Len(form) \in Nat /\ DOMAIN form = 1..Len(form)
      OBVIOUS
    <2>2. PICK n \in Nat : form \in [1..n -> Rows] /\ DOMAIN form = 1..n
      BY <2>1
    <2>3. rows \in [1..n -> Rows] /\ rows[i] = row
          /\ \A j \in DOMAIN form : j # i => rows[j] = form[j]
      BY <1>2, <1>3, <2>2
    <2>4. rows \in Seq(Rows)
      BY <2>2, <2>3
    <2>5. QED
      BY <2>2, <2>3, <2>4
  <1>5. \A j \in DOMAIN form : rows[j].account = form[j].account
    BY <1>2, <1>4
  <1>6. Listed(rows) = Listed(form) /\ Distinct(rows)
    BY <1>4, <1>5 DEF Listed, Distinct, ForMembers
  <1>7. Distinct(form) /\ Listed(form) \subseteq Members(policy)
    BY DEF ForMembers
  <1>8. ASSUME Nearn \notin Listed(rows), NEW s \in Roles, policy[s] # {}
        PROVE  Edited(policy, rows, DOMAIN rows)[s] # {}
    <2> DEFINE before == Edited(policy, form, DOMAIN form)[s]
    <2> DEFINE after == Edited(policy, rows, DOMAIN rows)[s]
    <2>1. before # {}
      BY <1>6, <1>8 DEF ForMembers, MansRoles
    <2>2. \A a : a \in before <=>
             \/ a \in policy[s] /\ a \notin Listed(form)
             \/ \E j \in DOMAIN form : s \in form[j].roles /\ a = form[j].account
      BY <1>7, DistinctRows
    <2>3. \A a : a \in after <=>
             \/ a \in policy[s] /\ a \notin Listed(rows)
             \/ \E j \in DOMAIN rows : s \in rows[j].roles /\ a = rows[j].account
      <3>1. rows \in Seq(Rows) /\ Distinct(rows)
        BY <1>4, <1>6
      <3>2. \A q \in Seq(Rows) : Distinct(q) =>
              \A a : a \in Edited(policy, q, DOMAIN q)[s] <=>
                 \/ a \in policy[s] /\ a \notin Listed(q)
                 \/ \E j \in DOMAIN q : s \in q[j].roles /\ a = q[j].account
        BY <1>8, DistinctRows
      <3>3. QED
        BY <3>1, <3>2, Zenon
    <2> HIDE DEF before, after
    <2>4. ASSUME NEW a \in before, a # form[i].account PROVE a \in after
      BY <2>2, <2>3, <2>4, <1>4, <1>6
    <2>5. CASE \E a \in before : a # form[i].account
      BY <2>4, <2>5 DEF after
    <2>6. CASE before = {form[i].account}
      <3>1. form[i].account \in before
        BY <2>6
      <3>2. form[i].account \in Listed(form)
        BY DEF Listed
      <3>3. PICK j \in DOMAIN form : s \in form[j].roles /\ form[i].account = form[j].account
        BY <2>2, <3>1, <3>2
      <3>4. s \in form[i].roles
        BY <1>7, <3>3 DEF Distinct
      <3>5. s # r
        <4>1. SUFFICES ASSUME s = r PROVE FALSE
          OBVIOUS
        <4>2. Final(form) = Edited(policy, form, DOMAIN form)
          BY <1>7, PolicyIsFunction, MemberRowsMake
        <4>3. Final(form)[r] = {form[i].account}
          BY <2>6, <4>1, <4>2 DEF before
        <4>4. form[i].account # Nearn /\ form[i].account \in Members(policy)
          BY <1>6, <1>7, <1>8, <3>2
        <4>5. QED
          BY <3>4, <4>1, <4>3, <4>4 DEF DisabledRoles
      <3>6. s \in rows[i].roles /\ rows[i].account = form[i].account
        BY <1>2, <1>4, <3>4, <3>5
      <3>7. QED
        BY <1>4, <2>3, <3>6 DEF after
    <2>7. QED
      BY <2>1, <2>5, <2>6
  <1>9. QED
    BY <1>4, <1>6, <1>7, <1>8 DEF ForMembers, MansRoles

(* The requests the three dialogs send. *)
LEMMA AddIsWeighed ==
    ASSUME NEW p \in Policies, NEW rows \in Seq(Rows), ForNewMembers(p, rows)
    PROVE  /\ \A r \in Roles : p[r] # {} => WithRows(p, rows)[r] # {}
           /\ \A i \in DOMAIN rows : /\ RolesIn(p, rows[i].account) = {}
                                     /\ RolesIn(WithRows(p, rows), rows[i].account) = rows[i].roles
  <1>1. WithRows(p, rows) = Edited(p, rows, DOMAIN rows) /\ Distinct(rows)
        /\ Listed(rows) \cap Members(p) = {}
    BY PolicyIsFunction, RowsMake DEF ForNewMembers
  <1>2. \A r \in Roles : \A a :
            a \in WithRows(p, rows)[r] <=>
              \/ a \in p[r] /\ a \notin Listed(rows)
              \/ \E i \in DOMAIN rows : r \in rows[i].roles /\ a = rows[i].account
    BY <1>1, DistinctRows
  <1>3. \A r \in Roles : \A a : a \in p[r] => a \notin Listed(rows)
    BY <1>1 DEF Members
  <1>4. \A r \in Roles : p[r] # {} => WithRows(p, rows)[r] # {}
    BY <1>2, <1>3
  <1>5. ASSUME NEW i \in DOMAIN rows
        PROVE  /\ RolesIn(p, rows[i].account) = {}
               /\ RolesIn(WithRows(p, rows), rows[i].account) = rows[i].roles
    <2>1. rows[i].account \in Listed(rows) /\ rows[i].roles \subseteq Roles
      BY RowFields DEF Listed
    <2>2. \A r \in Roles : rows[i].account \notin p[r]
      BY <1>3, <2>1
    <2>3. \A r \in Roles : rows[i].account \in WithRows(p, rows)[r] <=> r \in rows[i].roles
      BY <1>1, <1>2, <2>2 DEF Distinct
    <2>4. QED
      BY <2>1, <2>2, <2>3 DEF RolesIn
  <1>6. QED
    BY <1>4, <1>5

LEMMA RemovalIsWeighed ==
    ASSUME policy \in Policies, TargetIsRow, unmoved,
           selected \cap Members(policy) # {} \/ target # None,
           RowsToDelete = {} \/ CanDeleteBulk(RowsToDelete),
           NEW D, D = IF selected # {} THEN selected ELSE {target.account}
    PROVE  /\ Without(policy, D) \in Policies
           /\ \A r \in Roles : policy[r] # {} => Without(policy, D)[r] # {}
  <1>1. Without(policy, D) \in Policies /\ \A r \in Roles : Without(policy, D)[r] = policy[r] \ D
    BY DEF Without, Policies
  <1>2. PICK A \in {D, D \cap Members(policy)} :
            RowsToDelete = {RowOf(policy, a) : a \in A}
    <2>1. CASE selected # {}
      <3>1. RowsToDelete = {RowOf(policy, a) : a \in selected \cap Members(policy)}
        BY <2>1 DEF RowsToDelete
      <3>2. D = selected
        BY <2>1
      <3>3. QED
        BY <3>1, <3>2
    <2>2. CASE selected = {}
      <3>1. target # None /\ target = RowOf(policy, target.account) /\ D = {target.account}
        BY <2>2 DEF TargetIsRow
      <3>2. RowsToDelete = {RowOf(policy, a) : a \in D}
        BY <2>2, <3>1 DEF RowsToDelete
      <3>3. QED
        BY <3>2
    <2>3. QED
      BY <2>1, <2>2
  <1>3. ASSUME NEW r \in Roles, policy[r] # {}, policy[r] \ D = {} PROVE FALSE
    <2>1. policy[r] \subseteq Members(policy)
      BY DEF Members
    <2>2. policy[r] \subseteq A
      BY <1>2, <1>3, <2>1
    <2>3. PICK a \in A : a \in policy[r]
      BY <1>3, <2>2
    <2>4. RowOf(policy, a) \in RowsToDelete /\ r \in RowOf(policy, a).roles
      BY <1>2, <2>3 DEF RowOf, RolesIn
    <2>5. policy[r] \ {row.account : row \in RowsToDelete} # {}
      BY <1>3, <2>4 DEF CanDeleteBulk
    <2>6. ASSUME NEW b \in A PROVE b \in {row.account : row \in RowsToDelete}
      <3>1. RowOf(policy, b) \in RowsToDelete /\ RowOf(policy, b).account = b
        BY <1>2 DEF RowOf
      <3>2. QED
        BY <3>1
    <2>7. QED
      BY <2>2, <2>5, <2>6
  <1>4. QED
    BY <1>1, <1>3

(* A request that is created is weighed if it is of an unmoved copy.       *)
LEMMA CreatedIsWeighed ==
    ASSUME MembersInv, NEW kind \in {"add", "edit", "remove"}, NEW p \in Policies,
           CreatePolicyChangeProposal(kind, p),
           unmoved /\ ~(kind = "edit" /\ Nearn \in Listed(form)) =>
               \A r \in Roles : policy[r] # {} => p[r] # {},
           unmoved /\ kind = "add" =>
               \A i \in DOMAIN form : /\ RolesIn(policy, form[i].account) = {}
                                      /\ RolesIn(p, form[i].account) = form[i].roles
    PROVE  MembersInv'
  <1>1. /\ request' = [kind |-> kind, policy |-> p, rows |-> form, seen |-> policy,
                       unmoved |-> unmoved]
        /\ UNCHANGED <<world, dialog, form, original, selected, target, unmoved>>
    BY DEF CreatePolicyChangeProposal
  <1>2. /\ request'.kind = kind /\ request'.policy = p /\ request'.rows = form
        /\ request'.seen = policy /\ request'.unmoved = unmoved
    BY <1>1
  <1>3. RolesStayManned'
    BY <1>2 DEF RolesStayManned, Unmoved
  <1>4. AddsGrantTheirRoles'
    BY <1>2 DEF AddsGrantTheirRoles, Unmoved
  <1>5. MembersFields'
    BY <1>1, <1>2 DEF MembersInv, MembersFields, world
  <1>6. DialogsAreWeighed' /\ TargetIsRow'
    BY <1>1 DEF MembersInv, DialogsAreWeighed, TargetIsRow, world
  <1>7. QED
    BY <1>3, <1>4, <1>5, <1>6 DEF MembersInv, RequestsAreWeighed

(* A step that sends nothing and moves no policy is judged by what it does *)
(* to the dialogs.                                                         *)
LEMMA DialogStep ==
    ASSUME MembersInv, UNCHANGED <<world, request>>,
           form' \in Seq(Rows), selected' \subseteq Accounts,
           DialogsAreWeighed', TargetIsRow'
    PROVE  MembersInv'
  <1>1. RequestsAreWeighed'
    BY DEF MembersInv, RequestsAreWeighed, RolesStayManned, AddsGrantTheirRoles, Unmoved
  <1>2. MembersFields'
    BY DEF MembersInv, MembersFields, world
  <1>3. QED
    BY <1>1, <1>2 DEF MembersInv

(* So is a step that only moves the policies.                              *)
LEMMA WorldStep ==
    ASSUME MembersInv, UNCHANGED <<dialog, form, selected, target, request>>,
           onChain' \in Policies, inProgress' \subseteq Policies, policy' \in Policies,
           ~unmoved' \/ (policy' = policy /\ unmoved' = unmoved)
    PROVE  MembersInv'
  <1>1. RequestsAreWeighed'
    BY DEF MembersInv, RequestsAreWeighed, RolesStayManned, AddsGrantTheirRoles, Unmoved
  <1>2. MembersFields'
    BY DEF MembersInv, MembersFields
  <1>3. DialogsAreWeighed' /\ TargetIsRow'
    <2>1. CASE ~unmoved'
      BY <2>1 DEF MembersInv, DialogsAreWeighed, TargetIsRow
    <2>2. CASE policy' = policy /\ unmoved' = unmoved
      BY <2>2 DEF MembersInv, DialogsAreWeighed, TargetIsRow
    <2>3. QED
      BY <2>1, <2>2
  <1>4. QED
    BY <1>1, <1>2, <1>3 DEF MembersInv

LEMMA OpenEditKeeps ==
    ASSUME MembersInv, NEW S \in SUBSET Accounts, OpenEdit(S)
    PROVE  MembersInv'
  <1>1. /\ S \subseteq Members(policy) /\ dialog = "none" /\ dialog' = "edit"
        /\ form' = RowsOf(policy, S) /\ UNCHANGED <<world, selected, target, request>>
    BY DEF OpenEdit, Open
  <1>2. policy \in Policies /\ policy' = policy /\ target = None /\ selected \subseteq Accounts
    BY <1>1 DEF MembersInv, MembersFields, TargetIsRow, world
  <1>3. form' \in Seq(Rows) /\ ForMembers(policy, form')
    BY <1>1, <1>2, OpenedEditIsWeighed
  <1>4. DialogsAreWeighed' /\ TargetIsRow'
    BY <1>1, <1>2, <1>3 DEF DialogsAreWeighed, TargetIsRow
  <1>5. QED
    BY <1>1, <1>2, <1>3, <1>4, DialogStep

LEMMA MembersNextInv == MembersInv /\ [MembersNext]_membersVars => MembersInv'
  <1> SUFFICES ASSUME MembersInv, [MembersNext]_membersVars PROVE MembersInv'
    OBVIOUS
  <1>0. /\ policy \in Policies /\ form \in Seq(Rows) /\ selected \subseteq Accounts
        /\ onChain \in Policies /\ inProgress \subseteq Policies
        /\ DialogsAreWeighed /\ TargetIsRow
    BY DEF MembersInv, MembersFields
  <1>1. CASE UNCHANGED membersVars
    <2>1. /\ UNCHANGED <<dialog, form, selected, target, request, onChain, inProgress, policy,
                         unmoved>>
      BY <1>1 DEF membersVars
    <2>2. QED
      BY <1>0, <2>1, WorldStep
  <1>2. ASSUME NEW p \in Others, OthersPropose(p) PROVE MembersInv'
    <2>1. inProgress' \subseteq Policies
      BY <1>0, <1>2, PoliciesAssumption DEF OthersPropose
    <2>2. QED
      BY <1>0, <1>2, <2>1, WorldStep DEF OthersPropose
  <1>3. ASSUME NEW p \in inProgress, NEW approved \in BOOLEAN, Decide(p, approved)
        PROVE  MembersInv'
    <2>1. inProgress' \subseteq Policies /\ onChain' \in Policies
      BY <1>0, <1>3 DEF Decide
    <2>2. QED
      BY <1>0, <1>3, <2>1, WorldStep DEF Decide
  <1>4. CASE FetchPolicy
    <2>1. /\ UNCHANGED <<dialog, form, selected, target, request, onChain, inProgress>>
          /\ policy' = onChain /\ unmoved' = FALSE
      BY <1>4 DEF FetchPolicy
    <2>2. onChain' \in Policies /\ inProgress' \subseteq Policies /\ policy' \in Policies
      BY <1>0, <2>1
    <2>3. ~unmoved' \/ (policy' = policy /\ unmoved' = unmoved)
      BY <2>1
    <2>4. QED
      BY <2>1, <2>2, <2>3, WorldStep
  <1>5. CASE FetchRequests
    BY <1>0, <1>5, WorldStep DEF FetchRequests
  <1>6. ASSUME NEW S \in SUBSET Accounts, Toggle(S) PROVE MembersInv'
    <2>1. /\ UNCHANGED <<world, dialog, form, target, request, unmoved, policy>>
          /\ selected' = S
      BY <1>6 DEF Toggle, world
    <2>2. DialogsAreWeighed' /\ TargetIsRow'
      BY <1>0, <2>1 DEF DialogsAreWeighed, TargetIsRow
    <2>3. QED
      BY <1>0, <2>1, <2>2, DialogStep
  <1>7. CASE OpenAdd
    <2>1. /\ UNCHANGED <<world, selected, target, request, unmoved, policy>>
          /\ dialog = "none" /\ dialog' = "add" /\ form' = <<>>
      BY <1>7 DEF OpenAdd, Open, world
    <2>2. DialogsAreWeighed' /\ TargetIsRow' /\ form' \in Seq(Rows)
      BY <1>0, <2>1 DEF DialogsAreWeighed, TargetIsRow
    <2>3. QED
      BY <1>0, <2>1, <2>2, DialogStep
  <1>8. ASSUME NEW a \in Accounts, HandleEditMember(a) PROVE MembersInv'
    <2>1. {a} \in SUBSET Accounts
      OBVIOUS
    <2>2. QED
      BY <1>8, <2>1, OpenEditKeeps DEF HandleEditMember
  <1>9. ASSUME NEW a \in Accounts, AskDelete(a) PROVE MembersInv'
    <2>1. /\ UNCHANGED <<world, form, selected, request, policy>>
          /\ dialog' = "delete" /\ target' = RowOf(policy, a) /\ RowOf(policy, a).account = a
      BY <1>9 DEF AskDelete, Open, world, RowOf
    <2>2. DialogsAreWeighed' /\ TargetIsRow'
      BY <2>1 DEF DialogsAreWeighed, TargetIsRow, RowOf, RolesIn
    <2>3. QED
      BY <1>0, <2>1, <2>2, DialogStep
  <1>10. CASE HandleBulkEdit
    <2>1. selected \cap Members(policy) \in SUBSET Accounts
      BY <1>0
    <2>2. QED
      BY <1>10, <2>1, OpenEditKeeps DEF HandleBulkEdit
  <1>11. CASE HandleBulkDelete
    <2>1. /\ UNCHANGED <<world, form, selected, target, request, policy>>
          /\ dialog = "none" /\ dialog' = "delete"
      BY <1>11 DEF HandleBulkDelete, Open, world
    <2>2. DialogsAreWeighed' /\ TargetIsRow'
      BY <1>0, <2>1 DEF DialogsAreWeighed, TargetIsRow
    <2>3. QED
      BY <1>0, <2>1, <2>2, DialogStep
  <1>12. ASSUME NEW rows \in AddForms, TypeAdd(rows) PROVE MembersInv'
    <2>1. /\ UNCHANGED <<world, dialog, selected, target, request, unmoved, policy>>
          /\ dialog = "add" /\ form' \in Seq(Rows)
      BY <1>12, PoliciesAssumption DEF TypeAdd, world
    <2>2. DialogsAreWeighed' /\ TargetIsRow'
      BY <1>0, <2>1 DEF DialogsAreWeighed, TargetIsRow
    <2>3. QED
      BY <1>0, <2>1, <2>2, DialogStep
  <1>13. CASE HandleReviewRequest
    <2>1. /\ UNCHANGED <<world, form, selected, target, request, policy>>
          /\ dialog = "add" /\ dialog' = "checking" /\ ForNewMembers(policy, form)
      BY <1>13 DEF HandleReviewRequest, world, AddIsValid, ForNewMembers, Distinct
    <2>2. DialogsAreWeighed' /\ TargetIsRow'
      BY <1>0, <2>1 DEF DialogsAreWeighed, TargetIsRow
    <2>3. QED
      BY <1>0, <2>1, <2>2, DialogStep
  <1>14. ASSUME NEW found \in BOOLEAN, AddressesChecked(found) PROVE MembersInv'
    <2>1. /\ UNCHANGED <<world, form, selected, target, request, unmoved, policy>>
          /\ dialog = "checking" /\ dialog' \in {"addPreview", "add"}
      BY <1>14 DEF AddressesChecked, world
    <2>2. DialogsAreWeighed' /\ TargetIsRow'
      BY <1>0, <2>1 DEF DialogsAreWeighed, TargetIsRow
    <2>3. QED
      BY <1>0, <2>1, <2>2, DialogStep
  <1>15. ASSUME NEW i, NEW r \in Roles, ToggleRole(i, r) PROVE MembersInv'
    <2>1. /\ UNCHANGED <<world, dialog, selected, target, request, unmoved, policy>>
          /\ dialog = "edit" /\ i \in DOMAIN form /\ r \notin DisabledRoles(form[i])
          /\ form' = [form EXCEPT ![i].roles = IF r \in @ THEN @ \ {r} ELSE @ \cup {r}]
      BY <1>15 DEF ToggleRole, world
    <2>2. form' \in Seq(Rows)
      <3>1. form[i] \in Rows /\ form[i].roles \subseteq Roles
        BY <1>0, <2>1, RowFields
      <3>2. PICK row \in Rows : form' = [form EXCEPT ![i] = row]
        BY <2>1, <3>1 DEF Rows
      <3>3. PICK n \in Nat : form \in [1..n -> Rows] /\ DOMAIN form = 1..n
        BY <1>0
      <3>4. form' \in [1..n -> Rows]
        BY <2>1, <3>2, <3>3
      <3>5. QED
        BY <3>3, <3>4
    <2>3. unmoved => ForMembers(policy, form')
      BY <1>0, <2>1, ToggledIsWeighed DEF DialogsAreWeighed
    <2>4. DialogsAreWeighed' /\ TargetIsRow'
      BY <1>0, <2>1, <2>3 DEF DialogsAreWeighed, TargetIsRow
    <2>5. QED
      BY <1>0, <2>1, <2>2, <2>4, DialogStep
  <1>16. CASE HandleEditReviewRequest
    <2>1. /\ UNCHANGED <<world, form, selected, target, request, unmoved, policy>>
          /\ dialog = "edit" /\ dialog' = "editPreview"
      BY <1>16 DEF HandleEditReviewRequest, world
    <2>2. DialogsAreWeighed' /\ TargetIsRow'
      BY <1>0, <2>1 DEF DialogsAreWeighed, TargetIsRow
    <2>3. QED
      BY <1>0, <2>1, <2>2, DialogStep
  <1>17. CASE Back
    <2>1. /\ UNCHANGED <<world, form, selected, target, request, unmoved, policy>>
          /\ \/ dialog = "addPreview" /\ dialog' = "add"
             \/ dialog = "editPreview" /\ dialog' = "edit"
      BY <1>17 DEF Back, world
    <2>2. DialogsAreWeighed' /\ TargetIsRow'
      BY <1>0, <2>1 DEF DialogsAreWeighed, TargetIsRow
    <2>3. QED
      BY <1>0, <2>1, <2>2, DialogStep
  <1>18. CASE Close
    <2>1. /\ UNCHANGED <<world, request, unmoved, policy>>
          /\ dialog' = "none" /\ form' = <<>> /\ selected' \subseteq selected
          /\ target' = IF dialog = "delete" THEN None ELSE target
      BY <1>18 DEF Close, world
    <2>2. DialogsAreWeighed' /\ TargetIsRow' /\ form' \in Seq(Rows)
      BY <1>0, <2>1 DEF DialogsAreWeighed, TargetIsRow
    <2>3. QED
      BY <1>0, <2>1, <2>2, DialogStep
  <1>19. CASE HandleAddMembersSubmit
    <2>1. dialog = "addPreview" /\ CreatePolicyChangeProposal("add", WithRows(policy, form))
      BY <1>19 DEF HandleAddMembersSubmit
    <2>2. unmoved => ForNewMembers(policy, form)
      BY <1>0, <2>1 DEF DialogsAreWeighed
    <2>3. WithRows(policy, form) \in Policies
      BY <1>0, RowsStayPolicies
    <2>4. QED
      BY <1>0, <2>1, <2>2, <2>3, AddIsWeighed, CreatedIsWeighed
  <1>20. CASE HandleEditMembersSubmit
    <2>1. dialog = "editPreview" /\ CreatePolicyChangeProposal("edit", WithRows(policy, form))
      BY <1>20 DEF HandleEditMembersSubmit
    <2>2. unmoved => ForMembers(policy, form)
      BY <1>0, <2>1 DEF DialogsAreWeighed
    <2>3. WithRows(policy, form) \in Policies
          /\ WithRows(policy, form) = Edited(policy, form, DOMAIN form)
      BY <1>0, PolicyIsFunction, RowsMake, RowsStayPolicies
    <2>4. unmoved /\ Nearn \notin Listed(form) =>
              \A r \in Roles : policy[r] # {} => WithRows(policy, form)[r] # {}
      BY <2>2, <2>3 DEF ForMembers, MansRoles
    <2>5. QED
      BY <1>0, <2>1, <2>3, <2>4, CreatedIsWeighed
  <1>21. CASE HandleDeleteMembersSubmit
    <2>1. PICK D : /\ D = IF selected # {} THEN selected ELSE {target.account}
                   /\ CreatePolicyChangeProposal("remove", Without(policy, D))
      BY <1>21 DEF HandleDeleteMembersSubmit
    <2>2. unmoved => \A r \in Roles : policy[r] # {} => Without(policy, D)[r] # {}
      BY <1>0, <1>21, <2>1, RemovalIsWeighed DEF HandleDeleteMembersSubmit
    <2>3. Without(policy, D) \in Policies
      BY <1>0 DEF Without, Policies
    <2>4. QED
      BY <1>0, <2>1, <2>2, <2>3, CreatedIsWeighed
  <1>22. CASE RequestLanded
    <2>1. /\ request # None /\ request' = None /\ inProgress' = inProgress \cup {request.policy}
          /\ UNCHANGED <<onChain, policy, unmoved>>
      BY <1>22 DEF RequestLanded
    <2>2. \/ /\ dialog' = IF dialog = "addPreview" THEN "none" ELSE dialog
             /\ form' = <<>> /\ UNCHANGED <<selected, target>>
          \/ /\ dialog' = IF dialog \in {"edit", "editPreview"} THEN "none" ELSE dialog
             /\ selected' = {} /\ UNCHANGED <<form, target>>
          \/ /\ dialog' = IF dialog = "delete" THEN "none" ELSE dialog
             /\ selected' = {} /\ target' = None /\ UNCHANGED form
      BY <1>22 DEF RequestLanded
    <2>3. form' \in Seq(Rows) /\ selected' \subseteq Accounts
      <3>1. <<>> \in Seq(Rows) /\ {} \subseteq Accounts
        OBVIOUS
      <3>2. form' \in {form, <<>>} /\ selected' \in {selected, {}}
        BY <2>2
      <3>3. QED
        BY <1>0, <3>1, <3>2
    <2>4. DialogsAreWeighed' /\ TargetIsRow'
      BY <1>0, <2>1, <2>2, NoRowsAreWeighed DEF DialogsAreWeighed, TargetIsRow
    <2>5. MembersFields'
      BY <1>0, <2>1, <2>3 DEF MembersInv, MembersFields
    <2>6. RequestsAreWeighed'
      BY <2>1 DEF RequestsAreWeighed, RolesStayManned, AddsGrantTheirRoles, Unmoved
    <2>7. QED
      BY <2>4, <2>5, <2>6 DEF MembersInv
  <1>23. CASE RequestFailed
    <2>1. /\ UNCHANGED <<world, dialog, form, selected, target, unmoved, policy>>
          /\ request' = None
      BY <1>23 DEF RequestFailed, world
    <2>2. RequestsAreWeighed'
      BY <2>1 DEF RequestsAreWeighed, RolesStayManned, AddsGrantTheirRoles, Unmoved
    <2>3. MembersFields' /\ DialogsAreWeighed' /\ TargetIsRow'
      BY <2>1 DEF MembersInv, MembersFields, DialogsAreWeighed, TargetIsRow, world
    <2>4. QED
      BY <2>2, <2>3 DEF MembersInv
  <1>24. QED
    BY <1>1, <1>2, <1>3, <1>4, <1>5, <1>6, <1>7, <1>8, <1>9, <1>10, <1>11, <1>12, <1>13,
       <1>14, <1>15, <1>16, <1>17, <1>18, <1>19, <1>20, <1>21, <1>22, <1>23
    DEF MembersNext

LEMMA MembersInvHolds == MembersSpec => []MembersInv
  BY MembersInitInv, MembersNextInv, PTL DEF MembersSpec

(* A request of the page leaves no role empty that had members, however    *)
(* many are edited or removed at once, while the page's copy of the policy *)
(* is the one its dialog was checked against.                              *)
THEOREM RolesAlwaysStayManned == MembersSpec => []RolesStayManned
  <1>1. MembersInv => RolesStayManned
    BY DEF MembersInv, RequestsAreWeighed
  <1>2. QED
    BY <1>1, MembersInvHolds, PTL

(* A request to add members gives each exactly the roles of its row and    *)
(* takes none from anybody.                                                *)
THEOREM AddsOnlyGrant == MembersSpec => []AddsGrantTheirRoles
  <1>1. MembersInv => AddsGrantTheirRoles
    BY DEF MembersInv, RequestsAreWeighed
  <1>2. QED
    BY <1>1, MembersInvHolds, PTL
=============================================================================
