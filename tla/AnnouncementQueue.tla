-------------------------- MODULE AnnouncementQueue --------------------------
(***************************************************************************)
(* The queue of feature announcements: the parts of the page that have     *)
(* something to announce register, and one at a time is granted the        *)
(* screen.  A pause (a page being left, the rest between announcements)    *)
(* takes the grant away; when it is over only a timer of a registered part *)
(* asks the queue again.  Losing that timer leaves an announcement waiting *)
(* for ever, with nothing wrong to be seen.                                *)
(***************************************************************************)
EXTENDS Integers, Absent

CONSTANTS Items,     \* the parts that announce
          Priority,  \* the lower, the sooner
          MaxPauses  \* pauses and refreshes of the announcements

ASSUME QueueAssumption == None \notin Items /\ MaxPauses \in Nat

VARIABLES entry,     \* what an item last told the queue
          earlier,   \* which registered item came before which
          active,    \* the item granted the screen
          blocked,   \* a pause is on
          alarms,    \* the items with a timer for the end of the pause
          unseen,    \* the items that have yet to react to a change of the pause
          refreshes, \* refreshes to come
          pauses

queueVars == <<entry, earlier, active, blocked, alarms, unseen, refreshes, pauses>>

Entries == {"absent", "idle", "eligible"}

QueueTypeOK ==
  /\ entry \in [Items -> Entries] /\ earlier \subseteq Items \X Items /\ active \in Items \cup {None}
  /\ blocked \in BOOLEAN /\ alarms \subseteq Items /\ unseen \subseteq Items
  /\ refreshes \in Nat /\ pauses \in 0..MaxPauses

QueueInit ==
  /\ entry = [i \in Items |-> "absent"] /\ earlier = {} /\ active = None
  /\ blocked = FALSE /\ alarms = {} /\ unseen = {} /\ refreshes = 0 /\ pauses = 0

Registered == {i \in Items : entry[i] # "absent"}
Eligible(e) == {i \in DOMAIN e : e[i] = "eligible"}

Before(came, i, j) ==
  \/ Priority[i] < Priority[j]
  \/ Priority[i] = Priority[j] /\ <<i, j>> \in came

(* The next to be granted the screen, by the entries and the pause of the  *)
(* moment.                                                                 *)
PickNextItemId(next, e, came, paused) ==
  IF paused \/ Eligible(e) = {} THEN next = None
  ELSE next \in Eligible(e) /\ \A j \in Eligible(e) : ~Before(came, j, next)

\* Whoever has the screen keeps it.
KeepAlways(e, came) ==
  IF active # None THEN active' = active ELSE PickNextItemId(active', e, came, blocked)

(* Keep the one that has the screen while it has something to announce.    *)
KeepOrPick(e, came) ==
  IF active # None /\ e[active] = "eligible" THEN active' = active
  ELSE PickNextItemId(active', e, came, blocked)

(* An item that registers in a pause sets a timer too.                     *)
AlarmAtMount(i) == IF blocked THEN alarms \cup {i} ELSE alarms \ {i}

(* An item registers, or what it has to announce comes or goes.            *)
UpsertItem(i, e) ==
  /\ e \in {"idle", "eligible"} /\ entry[i] # e
  /\ entry' = [entry EXCEPT ![i] = e]
  /\ earlier' = IF i \in Registered THEN earlier ELSE earlier \cup (Registered \X {i})
  /\ KeepOrPick(entry', earlier')
  /\ alarms' = IF i \in Registered THEN alarms ELSE AlarmAtMount(i)
  /\ UNCHANGED <<blocked, unseen, refreshes, pauses>>

(* Its part of the page goes, and its timer with it.                       *)
RemoveItem(i) ==
  /\ i \in Registered
  /\ entry' = [entry EXCEPT ![i] = "absent"]
  /\ earlier' = {p \in earlier : i \notin {p[1], p[2]}}
  /\ KeepOrPick(entry', earlier')
  /\ alarms' = alarms \ {i} /\ unseen' = unseen \ {i}
  /\ UNCHANGED <<blocked, refreshes, pauses>>

(* A pause that ends later than the one that is on, if any, is news to     *)
(* every registered item.                                                  *)
Pause(later) ==
  /\ pauses < MaxPauses /\ pauses' = pauses + 1
  /\ later \/ blocked
  /\ blocked' = TRUE /\ unseen' = IF later THEN Registered ELSE unseen

(* The item is done, with a rest after it or without.                      *)
ReleaseItem(i, rest, later) ==
  /\ i \in Registered
  /\ IF rest THEN Pause(later)
     ELSE pauses < MaxPauses /\ pauses' = pauses + 1 /\ UNCHANGED <<blocked, unseen>>
  /\ IF active = i THEN PickNextItemId(active', entry, earlier, blocked') ELSE active' = active
  /\ UNCHANGED <<entry, earlier, alarms, refreshes>>

Suppress(later) ==
  /\ Pause(later) /\ PickNextItemId(active', entry, earlier, TRUE)
  /\ UNCHANGED <<entry, earlier, alarms, refreshes>>

Wake == PickNextItemId(active', entry, earlier, blocked)

RefreshFeatureAnnouncements ==
  /\ pauses < MaxPauses /\ pauses' = pauses + 1 /\ refreshes' = refreshes + 1
  /\ UNCHANGED <<entry, earlier, active, blocked, alarms, unseen>>
RefreshTimeout ==
  /\ refreshes > 0 /\ refreshes' = refreshes - 1 /\ Wake
  /\ UNCHANGED <<entry, earlier, blocked, alarms, unseen, pauses>>

(* An item reacts to the new end of the pause: its timer is set anew.      *)
SetAlarm(i) ==
  /\ i \in unseen /\ unseen' = unseen \ {i} /\ alarms' = alarms \cup {i}
  /\ UNCHANGED <<entry, earlier, active, blocked, refreshes, pauses>>

(* The pause ends.  The shortest lasts 400 ms: it does not end before the  *)
(* items have reacted to it.                                               *)
PauseEnds ==
  /\ blocked /\ unseen = {} /\ blocked' = FALSE
  /\ UNCHANGED <<entry, earlier, active, alarms, unseen, refreshes, pauses>>

(* A timer runs out just after the pause; or, while its item has not seen  *)
(* that the pause was extended, before its end.                            *)
AlarmRings(i) ==
  /\ i \in alarms /\ (~blocked \/ i \in unseen)
  /\ alarms' = alarms \ {i} /\ Wake
  /\ UNCHANGED <<entry, earlier, blocked, unseen, refreshes, pauses>>

QueueNext ==
  \/ \E i \in Items, e \in Entries : UpsertItem(i, e)
  \/ \E i \in Items : RemoveItem(i) \/ SetAlarm(i) \/ AlarmRings(i)
  \/ \E i \in Items, rest, later \in BOOLEAN : ReleaseItem(i, rest, later)
  \/ \E later \in BOOLEAN : Suppress(later)
  \/ RefreshFeatureAnnouncements \/ RefreshTimeout \/ PauseEnds

QueueSpec == QueueInit /\ [][QueueNext]_queueVars

-----------------------------------------------------------------------------
(* Whoever is granted the screen is there and has something to announce:   *)
(* an item that went, or lost its reason, never keeps the others waiting.  *)
ActiveIsEligible == active # None => active \in Items /\ entry[active] = "eligible"

(* An announcement that waits is waited for: a pause is on and every item  *)
(* has its timer, or will set it; or such a timer is still to ring.        *)
NothingWaitsUnwoken ==
  active = None /\ Eligible(entry) # {} =>
    \E i \in Registered : i \in alarms \cup unseen

(* What the queue owes to all that registered, whatever order they come,   *)
(* go, pause and wake in.                                                  *)
QueueServes == ActiveIsEligible /\ NothingWaitsUnwoken

(* The strengthening that makes it inductive: every item in a pause has a  *)
(* timer, and only registered items do.                                    *)
PausesAreTimed == blocked => Registered \subseteq alarms \cup unseen
TimersAreOwned == alarms \subseteq Registered /\ unseen \subseteq Registered
QueueInv == QueueTypeOK /\ QueueServes /\ PausesAreTimed /\ TimersAreOwned

=============================================================================
