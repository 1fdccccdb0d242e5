------------------------ MODULE SponsorRelay_proofs ------------------------
(***************************************************************************)
(* Proofs about the sponsored relay, and about the credits of the plans    *)
(* that it and others charge; for any relays, treasuries, actions, prices, *)
(* limits and plans, and any number of attempts and restarts.              *)
(***************************************************************************)
EXTENDS SponsorRelay, PlanCredits, Sums

(* What holds of each relay by itself: where its handler is says what was  *)
(* checked, topped up and registered; what its accounting task is to       *)
(* record has left the sponsor.                                            *)
Sound(r) ==
    /\ \A t \in Targets :
         /\ regs[r][t].st \in {"check", "send"} => regs[r][t].left >= 1
         /\ regs[r][t].st \in {"known", "sent"} => t \in registered
         /\ At(r, "submitting") => regs[r][t].st \in {"none", "known", "sent"}
    /\ ~At(r, "new") /\ ~At(r, "failed") /\ ~At(r, "lost") =>
         TopUpCost(r) + Asked[r].deposit <= MaxSponsoring
    /\ At(r, "new") \/ At(r, "allowed") => spent[r].topUp = 0
    /\ At(r, "funded") \/ At(r, "registering") \/ At(r, "submitting") =>
         spent[r].topUp = TopUpCost(r)
    /\ spent[r].topUp <= TopUpCost(r) /\ spent[r].deposit <= Asked[r].deposit
    /\ spent[r].topUp + spent[r].deposit <= MaxSponsoring
    /\ RegCost * Cardinality(Sent(r)) <= spent[r].regs + RegCost * refunds[r]
    /\ task[r].st # "none" => At(r, "done") \/ At(r, "failed")
    /\ task[r].amount <= Outlay(r)
    /\ task[r].credit => Asked[r].action \in landed

(* No two tasks charge a gas credit for one action. *)
DistinctCharges ==
    \A r, s \in Relays : r # s /\ task[r].credit /\ task[s].credit =>
        Asked[r].action # Asked[s].action

(* The invariant of the handlers and their tasks. *)
HandlerInv == RelayTypeOK /\ (\A r \in Relays : Sound(r)) /\ DistinctCharges

(* The invariant of the treasuries' rows: they hold what the tasks that    *)
(* ran recorded.                                                           *)
Charged(d) == {r \in RelaysOf(d) : task[r].st = "run" /\ task[r].credit}
Recorded(r) == IF task[r].st = "run" THEN task[r].amount ELSE 0
RecordedOf(d) == [r \in RelaysOf(d) |-> Recorded(r)]
RowInv ==
    \A d \in Treasuries :
        /\ GasCredits - gas[d] <= Cardinality(Charged(d))
        /\ paid[d] = SumFunctionOnSet(RecordedOf(d), RelaysOf(d))

-----------------------------------------------------------------------------
(* Types of what the operators return *)

LEMMA AskedType ==
    ASSUME NEW r \in Relays
    PROVE  /\ Treasury(r) \in Treasuries /\ Asked[r].action \in Actions
           /\ Asked[r].deposit \in Nat /\ TopUpCost(r) \in Nat
           /\ Asked[r].targets \subseteq Targets
           /\ ~IsAdd(r) => TopUpCost(r) = 0
  BY RelayAssumption DEF Treasury, TopUpCost, IsAdd

LEMMA SentIsFinite ==
    ASSUME NEW r
    PROVE  IsFiniteSet(Sent(r)) /\ Cardinality(Sent(r)) \in Nat
  <1>1. Sent(r) \in SUBSET Targets
    BY DEF Sent
  <1>2. QED
    BY <1>1, RelaysAreFinite, FS_Subset, FS_CardinalityType

LEMMA FrontedType ==
    ASSUME NEW r \in Relays
    PROVE  RegCost * Cardinality(Sent(r)) \in Nat /\ FrontedSpend(r) \in Nat
  <1>1. RegCost * Cardinality(Sent(r)) \in Nat
    BY SentIsFinite, RelayBounds
  <1>2. QED
    BY <1>1, AskedType DEF FrontedSpend

LEMMA SpentType ==
    ASSUME RelayTypeOK, NEW r \in Relays
    PROVE  /\ spent[r].topUp \in Nat /\ spent[r].deposit \in Nat
           /\ spent[r].regs \in Nat /\ refunds[r] \in Nat
           /\ RegCost * refunds[r] \in Nat
           /\ task[r].amount \in Nat /\ task[r].credit \in BOOLEAN
           /\ Outlay(r) \in Nat
  <1>1. /\ spent[r].topUp \in Nat /\ spent[r].deposit \in Nat
        /\ spent[r].regs \in Nat /\ refunds[r] \in Nat
        /\ task[r].amount \in Nat /\ task[r].credit \in BOOLEAN
    BY DEF RelayTypeOK
  <1>2. RegCost * refunds[r] \in Nat
    BY <1>1, RelayBounds
  <1>3. QED
    BY <1>1, <1>2 DEF Outlay

(* What a treasury may attach and be topped up with is below the ceiling,  *)
(* by either kind's limit.                                                 *)
LEMMA LimitBoundsFronted ==
    ASSUME NEW r \in Relays, WithinLimit(r), TopUpCost(r) <= MaxTopUp
    PROVE  TopUpCost(r) + Asked[r].deposit <= MaxSponsoring
  <1>1. CASE Treasury(r) \in Legacy
    <2>1. Bond[Treasury(r)] \in Nat
      BY AskedType, RelayAssumption
    <2>2. QED
      BY <1>1, <2>1, AskedType, RelayBounds DEF WithinLimit
  <1>2. CASE Treasury(r) \notin Legacy
    BY <1>2, AskedType, RelayBounds DEF WithinLimit
  <1>3. QED
    BY <1>1, <1>2

(* The relays that a step is not of keep what holds of them, whatever was  *)
(* registered or landed meanwhile.                                         *)
LEMMA OthersStaySound ==
    ASSUME NEW s \in Relays, Sound(s), relay'[s] = relay[s], regs'[s] = regs[s],
           spent'[s] = spent[s], refunds'[s] = refunds[s], task'[s] = task[s],
           registered \subseteq registered', landed \subseteq landed'
    PROVE  Sound(s)'
  <1>1. Sent(s)' = Sent(s) /\ Outlay(s)' = Outlay(s)
    BY DEF Sent, Outlay
  <1>2. QED
    BY <1>1 DEF Sound, At

(* A step of relay r keeps the invariant when it keeps what holds of r and *)
(* charges no action that had landed before.                               *)
LEMMA StepKeepsHandlers ==
    ASSUME HandlerInv, RelayTypeOK', NEW r \in Relays, Sound(r)',
           \A s \in Relays \ {r} :
              /\ relay'[s] = relay[s] /\ regs'[s] = regs[s] /\ task'[s] = task[s]
              /\ spent'[s] = spent[s] /\ refunds'[s] = refunds[s],
           registered \subseteq registered', landed \subseteq landed',
           task'[r].credit => task[r].credit \/ Asked[r].action \notin landed
    PROVE  HandlerInv'
  <1>1. \A s \in Relays \ {r} : Sound(s)'
    BY OthersStaySound DEF HandlerInv
  <1>2. \A s \in Relays \ {r} : task'[s].credit => task[s].credit /\ Asked[s].action \in landed
    BY DEF HandlerInv, Sound
  <1>3. DistinctCharges'
    BY <1>2 DEF HandlerInv, DistinctCharges
  <1>4. QED
    BY <1>1, <1>3 DEF HandlerInv

-----------------------------------------------------------------------------
(* The steps of a handler *)

LEMMA GoToType ==
    ASSUME RelayTypeOK, NEW r \in Relays, NEW phase \in Phases, GoTo(r, phase)
    PROVE  /\ relay' \in [Relays -> [at : Phases, left : 0..MaxAttempts]]
           /\ relay'[r].at = phase
           /\ \A s \in Relays \ {r} : relay'[s] = relay[s]
  <1>1. MaxAttempts \in 0..MaxAttempts
    BY RelayBounds
  <1>2. QED
    BY <1>1 DEF GoTo, RelayTypeOK

LEMMA AuthorizeKeeps ==
    ASSUME HandlerInv, NEW r \in Relays, Authorize(r)
    PROVE  HandlerInv'
  <1>1. /\ At(r, "new") /\ WithinLimit(r) /\ TopUpCost(r) <= MaxTopUp
        /\ GoTo(r, IF IsAdd(r) THEN "allowed" ELSE "funded")
        /\ UNCHANGED <<regs, gas, paid, task, crashes, landed, registered, spent, refunds>>
    BY DEF Authorize, ledgerVars, chainVars
  <1>2. /\ relay' \in [Relays -> [at : Phases, left : 0..MaxAttempts]]
        /\ relay'[r].at = IF IsAdd(r) THEN "allowed" ELSE "funded"
        /\ \A s \in Relays \ {r} : relay'[s] = relay[s]
    BY <1>1, GoToType DEF HandlerInv, Phases
  <1>3. RelayTypeOK'
    BY <1>1, <1>2 DEF HandlerInv, RelayTypeOK
  <1>4. Sound(r)
    BY DEF HandlerInv
  <1>5. TopUpCost(r) + Asked[r].deposit <= MaxSponsoring
    BY <1>1, LimitBoundsFronted
  <1>6. Sound(r)'
    <2>1. Sent(r)' = Sent(r) /\ Outlay(r)' = Outlay(r)
      BY <1>1 DEF Sent, Outlay
    <2>2. spent[r].topUp = 0 /\ (~IsAdd(r) => TopUpCost(r) = 0)
      BY <1>1, <1>4, AskedType DEF Sound
    <2>3. task[r].st = "none"
      BY <1>1, <1>4 DEF Sound, At
    <2>4. QED
      BY <1>1, <1>2, <1>4, <1>5, <2>1, <2>2, <2>3 DEF Sound, At
  <1>7. QED
    BY <1>1, <1>2, <1>3, <1>6, StepKeepsHandlers

(* The steps that fail a relay, and nothing else.                          *)
LEMMA RefusalKeeps ==
    ASSUME HandlerInv, NEW r \in Relays, RefuseRelay(r) \/ TopUpFails(r)
    PROVE  HandlerInv'
  <1>1. /\ At(r, "new") \/ At(r, "allowed")
        /\ GoTo(r, "failed")
        /\ UNCHANGED <<regs, gas, paid, task, crashes, landed, registered, spent, refunds>>
    BY DEF RefuseRelay, TopUpFails, ledgerVars, chainVars
  <1>2. /\ relay' \in [Relays -> [at : Phases, left : 0..MaxAttempts]]
        /\ relay'[r].at = "failed"
        /\ \A s \in Relays \ {r} : relay'[s] = relay[s]
    BY <1>1, GoToType DEF HandlerInv, Phases
  <1>3. RelayTypeOK'
    BY <1>1, <1>2 DEF HandlerInv, RelayTypeOK
  <1>4. Sound(r)
    BY DEF HandlerInv
  <1>5. Sound(r)'
    <2>1. Sent(r)' = Sent(r) /\ Outlay(r)' = Outlay(r)
      BY <1>1 DEF Sent, Outlay
    <2>2. QED
      BY <1>1, <1>2, <1>4, <2>1 DEF Sound, At
  <1>6. QED
    BY <1>1, <1>2, <1>3, <1>5, StepKeepsHandlers

LEMMA TopUpKeeps ==
    ASSUME HandlerInv, NEW r \in Relays, TopUp(r)
    PROVE  HandlerInv'
  <1>1. /\ At(r, "allowed")
        /\ spent' = [spent EXCEPT ![r].topUp = @ + TopUpCost(r)]
        /\ GoTo(r, "funded") \/ GoTo(r, "failed")
        /\ UNCHANGED <<regs, gas, paid, task, crashes, landed, registered, refunds>>
    BY DEF TopUp, ledgerVars
  <1>2. /\ relay' \in [Relays -> [at : Phases, left : 0..MaxAttempts]]
        /\ relay'[r].at \in {"funded", "failed"}
        /\ \A s \in Relays \ {r} : relay'[s] = relay[s]
    BY <1>1, GoToType DEF HandlerInv, Phases
  <1>3. /\ spent \in [Relays -> [topUp : Nat, deposit : Nat, regs : Nat]]
        /\ Sound(r) /\ TopUpCost(r) \in Nat /\ spent[r].topUp = 0
    BY <1>1, AskedType DEF HandlerInv, RelayTypeOK, Sound
  <1>4. /\ spent' \in [Relays -> [topUp : Nat, deposit : Nat, regs : Nat]]
        /\ spent'[r].topUp = TopUpCost(r)
        /\ spent'[r].deposit = spent[r].deposit /\ spent'[r].regs = spent[r].regs
        /\ \A s \in Relays \ {r} : spent'[s] = spent[s]
    BY <1>1, <1>3
  <1>5. RelayTypeOK'
    BY <1>1, <1>2, <1>4 DEF HandlerInv, RelayTypeOK
  <1>6. Sound(r)'
    <2>1. Sent(r)' = Sent(r) /\ Outlay(r)' = Outlay(r) + TopUpCost(r)
      BY <1>1, <1>3, <1>4, SpentType DEF Sent, Outlay, HandlerInv
    <2>2. task[r].st = "none" /\ task[r].amount <= Outlay(r)'
      BY <1>1, <1>3, <2>1, SpentType DEF Sound, At, HandlerInv
    <2>3. /\ TopUpCost(r) + Asked[r].deposit <= MaxSponsoring
          /\ spent[r].deposit <= Asked[r].deposit
          /\ RegCost * Cardinality(Sent(r)) <= spent[r].regs + RegCost * refunds[r]
      BY <1>1, <1>3 DEF Sound, At
    <2>4. spent'[r].topUp + spent'[r].deposit <= MaxSponsoring
      BY <1>3, <1>4, <2>3, AskedType, SpentType, RelayBounds DEF HandlerInv
    <2>5. QED
      BY <1>1, <1>2, <1>3, <1>4, <2>1, <2>2, <2>3, <2>4 DEF Sound, At
  <1>7. QED
    BY <1>1, <1>2, <1>4, <1>5, <1>6, StepKeepsHandlers

LEMMA DeriveKeeps ==
    ASSUME HandlerInv, NEW r \in Relays, DeriveTargets(r)
    PROVE  HandlerInv'
  <1>1. PICK S \in SUBSET Asked[r].targets :
           regs' = [regs EXCEPT ![r] = [t \in Targets |->
                [st |-> IF t \in S THEN "check" ELSE "none",
                 left |-> IF t \in S THEN MaxAttempts ELSE 0]]]
    BY DEF DeriveTargets
  <1>2. /\ At(r, "funded") /\ GoTo(r, "registering")
        /\ UNCHANGED <<gas, paid, task, crashes, landed, registered, spent, refunds>>
    BY DEF DeriveTargets, ledgerVars, chainVars
  <1>3. /\ relay' \in [Relays -> [at : Phases, left : 0..MaxAttempts]]
        /\ relay'[r].at = "registering"
        /\ \A s \in Relays \ {r} : relay'[s] = relay[s]
    BY <1>2, GoToType DEF HandlerInv, Phases
  <1>4. regs \in [Relays -> [Targets -> [st : RegStates, left : 0..MaxAttempts]]]
    BY DEF HandlerInv, RelayTypeOK
  <1>5. /\ \A t \in Targets : /\ regs'[r][t].st \in {"check", "none"}
                              /\ regs'[r][t].st = "check" => regs'[r][t].left = MaxAttempts
        /\ regs' \in [Relays -> [Targets -> [st : RegStates, left : 0..MaxAttempts]]]
        /\ \A s \in Relays \ {r} : regs'[s] = regs[s]
    BY <1>1, <1>4, RelayBounds DEF RegStates
  <1>6. RelayTypeOK'
    BY <1>2, <1>3, <1>5 DEF HandlerInv, RelayTypeOK
  <1>7. Sound(r)'
    <2>1. Sent(r)' = {} /\ Outlay(r)' = Outlay(r)
      BY <1>2, <1>5 DEF Sent, Outlay
    <2>2. RegCost * Cardinality(Sent(r)') = 0
      BY <2>1, FS_EmptySet, RelayBounds
    <2>3. RegCost * Cardinality(Sent(r)') <= spent'[r].regs + RegCost * refunds'[r]
      BY <1>2, <2>2, SpentType DEF HandlerInv
    <2>4. Sound(r) /\ MaxAttempts >= 1
      BY RelayBounds DEF HandlerInv
    <2>5. QED
      BY <1>2, <1>3, <1>5, <2>1, <2>3, <2>4 DEF Sound, At
  <1>8. QED
    BY <1>2, <1>3, <1>5, <1>6, <1>7, StepKeepsHandlers

(* A failed relay records at most what it fronted.                         *)
LEMMA FrontedIsOutlay ==
    ASSUME HandlerInv, NEW r \in Relays,
           At(r, "funded") \/ At(r, "registering") \/ At(r, "submitting")
    PROVE  FrontedSpend(r) <= Outlay(r) - spent[r].deposit
  <1>1. /\ spent[r].topUp = TopUpCost(r)
        /\ RegCost * Cardinality(Sent(r)) <= spent[r].regs + RegCost * refunds[r]
    BY DEF HandlerInv, Sound
  <1>2. QED
    BY <1>1, SpentType, AskedType, FrontedType DEF FrontedSpend, Outlay, HandlerInv

LEMMA SpawnType ==
    ASSUME RelayTypeOK, NEW r \in Relays, NEW amount \in Nat, NEW credit \in BOOLEAN,
           SpawnSpend(r, amount, credit)
    PROVE  /\ task' \in [Relays -> [st : {"none", "queued", "run", "dropped"},
                                    amount : Nat, credit : BOOLEAN]]
           /\ task'[r] = [st |-> "queued", amount |-> amount, credit |-> credit]
           /\ \A s \in Relays \ {r} : task'[s] = task[s]
  BY DEF SpawnSpend, RelayTypeOK

(* The ways a relay fails after its top-up, recording what it fronted.     *)
LEMMA FailureKeeps ==
    ASSUME HandlerInv, NEW r \in Relays,
           At(r, "funded") \/ At(r, "registering") \/ At(r, "submitting"),
           GoTo(r, "failed"), SpawnSpend(r, FrontedSpend(r), FALSE),
           UNCHANGED <<regs, gas, paid, crashes, landed, registered, spent, refunds>>
    PROVE  HandlerInv'
  <1>1. /\ relay' \in [Relays -> [at : Phases, left : 0..MaxAttempts]]
        /\ relay'[r].at = "failed"
        /\ \A s \in Relays \ {r} : relay'[s] = relay[s]
    BY GoToType DEF HandlerInv, Phases
  <1>2. /\ task' \in [Relays -> [st : {"none", "queued", "run", "dropped"},
                                 amount : Nat, credit : BOOLEAN]]
        /\ task'[r] = [st |-> "queued", amount |-> FrontedSpend(r), credit |-> FALSE]
        /\ \A s \in Relays \ {r} : task'[s] = task[s]
    BY FrontedType, SpawnType DEF HandlerInv
  <1>3. RelayTypeOK'
    BY <1>1, <1>2 DEF HandlerInv, RelayTypeOK
  <1>4. Sound(r)'
    <2>1. Sent(r)' = Sent(r) /\ Outlay(r)' = Outlay(r)
      BY DEF Sent, Outlay
    <2>2. FrontedSpend(r) <= Outlay(r)
      BY FrontedIsOutlay, SpentType, FrontedType DEF HandlerInv
    <2>3. Sound(r)
      BY DEF HandlerInv
    <2>4. QED
      BY <1>1, <1>2, <2>1, <2>2, <2>3 DEF Sound, At
  <1>5. QED
    BY <1>1, <1>2, <1>3, <1>4, StepKeepsHandlers

(* One registration of a relay moves on: it is counted as sent only when   *)
(* the token contract has been paid or has refunded the deposit.           *)
LEMMA RegistrationKeeps ==
    ASSUME HandlerInv, NEW r \in Relays, NEW t \in Targets,
           At(r, "registering"), UNCHANGED <<relay, gas, paid, task, crashes, landed>>,
           NEW x \in [st : RegStates, left : 0..MaxAttempts],
           regs' = [regs EXCEPT ![r][t] = x], regs[r][t].st \in {"check", "send"},
           x.st \in {"check", "send"} => x.left >= 1,
           x.st = "known" => t \in registered,
           x.st = "sent" => RegLands(r, t),
           RegLands(r, t) \/ UNCHANGED chainVars
    PROVE  HandlerInv'
  <1>1. /\ regs \in [Relays -> [Targets -> [st : RegStates, left : 0..MaxAttempts]]]
        /\ spent \in [Relays -> [topUp : Nat, deposit : Nat, regs : Nat]]
        /\ refunds \in [Relays -> Nat] /\ registered \subseteq Targets
    BY DEF HandlerInv, RelayTypeOK
  <1>2. /\ regs' \in [Relays -> [Targets -> [st : RegStates, left : 0..MaxAttempts]]]
        /\ regs'[r][t] = x
        /\ \A u \in Targets \ {t} : regs'[r][u] = regs[r][u]
        /\ \A s \in Relays \ {r} : regs'[s] = regs[s]
    BY <1>1
  <1>3. /\ registered \subseteq registered' /\ registered' \subseteq Targets
        /\ spent' \in [Relays -> [topUp : Nat, deposit : Nat, regs : Nat]]
        /\ refunds' \in [Relays -> Nat]
        /\ spent'[r].topUp = spent[r].topUp /\ spent'[r].deposit = spent[r].deposit
        /\ \A s \in Relays \ {r} : spent'[s] = spent[s] /\ refunds'[s] = refunds[s]
    <2>1. CASE RegLands(r, t) /\ t \notin registered
      <3>1. spent' = [spent EXCEPT ![r].regs = @ + RegCost] /\ refunds' = refunds
            /\ registered' = registered \cup {t}
        BY <2>1 DEF RegLands
      <3>2. spent[r].regs + RegCost \in Nat
        BY <1>1, RelayBounds
      <3>3. [spent[r] EXCEPT !.regs = @ + RegCost] \in [topUp : Nat, deposit : Nat, regs : Nat]
        BY <1>1, <3>2
      <3>4. spent' = [spent EXCEPT ![r] = [spent[r] EXCEPT !.regs = @ + RegCost]]
        BY <1>1, <3>1
      <3>5. QED
        BY <1>1, <3>1, <3>3, <3>4
    <2>2. CASE RegLands(r, t) /\ t \in registered
      <3>1. refunds' = [refunds EXCEPT ![r] = @ + 1] /\ spent' = spent
            /\ registered' = registered \cup {t}
        BY <2>2 DEF RegLands
      <3>2. QED
        BY <1>1, <3>1
    <2>3. CASE UNCHANGED chainVars
      BY <1>1, <2>3 DEF chainVars
    <2>4. QED
      BY <2>1, <2>2, <2>3
  <1> DEFINE paidFor == spent[r].regs + RegCost * refunds[r]
             paidNow == spent'[r].regs + RegCost * refunds'[r]
  <1>4. /\ paidFor \in Nat /\ paidNow \in Nat
        /\ paidNow = IF RegLands(r, t) THEN paidFor + RegCost ELSE paidFor
    <2>1. CASE RegLands(r, t) /\ t \notin registered
      <3>1. spent' = [spent EXCEPT ![r].regs = @ + RegCost] /\ refunds' = refunds
        BY <2>1 DEF RegLands
      <3>2. spent'[r].regs = spent[r].regs + RegCost /\ spent[r].regs \in Nat
        BY <1>1, <3>1
      <3>3. RegCost * refunds[r] \in Nat /\ RegCost * refunds'[r] = RegCost * refunds[r]
        BY <3>1, SpentType DEF HandlerInv
      <3>4. QED
        BY <2>1, <3>2, <3>3, RelayBounds
    <2>2. CASE RegLands(r, t) /\ t \in registered
      <3>1. refunds'[r] = refunds[r] + 1 /\ spent' = spent /\ refunds[r] \in Nat
            /\ spent[r].regs \in Nat
        BY <1>1, <2>2 DEF RegLands
      <3>2. RegCost * (refunds[r] + 1) = RegCost * refunds[r] + RegCost
        BY <3>1, RelayBounds
      <3>3. RegCost * refunds[r] \in Nat
        BY <3>1, RelayBounds
      <3>4. QED
        BY <2>2, <3>1, <3>2, <3>3, RelayBounds
    <2>3. CASE ~RegLands(r, t)
      <3>1. UNCHANGED <<spent, refunds>>
        BY <2>3 DEF chainVars
      <3>2. paidFor \in Nat
        BY SpentType DEF HandlerInv
      <3>3. QED
        BY <2>3, <3>1, <3>2
    <2>4. QED
      BY <2>1, <2>2, <2>3
  <1>5. RelayTypeOK'
    BY <1>2, <1>3 DEF HandlerInv, RelayTypeOK
  <1>6. Outlay(r)' = spent[r].topUp + spent[r].deposit + paidNow
        /\ Outlay(r) = spent[r].topUp + spent[r].deposit + paidFor
    BY <1>3, <1>4, SpentType, RelayBounds DEF Outlay, HandlerInv
  <1>7. Outlay(r) <= Outlay(r)'
    BY <1>4, <1>6, SpentType, RelayBounds DEF HandlerInv
  <1>8. RegCost * Cardinality(Sent(r)') <= paidNow
    <2> DEFINE c == Cardinality(Sent(r))
    <2>1. c \in Nat /\ IsFiniteSet(Sent(r)) /\ RegCost * c \in Nat
      BY SentIsFinite, RelayBounds
    <2>2. RegCost * c <= paidFor
      BY DEF HandlerInv, Sound
    <2>3. CASE x.st = "sent"
      <3>1. Sent(r)' = Sent(r) \cup {t} /\ t \notin Sent(r)
        BY <1>2, <2>3 DEF Sent
      <3>2. Cardinality(Sent(r)') = c + 1
        BY <2>1, <3>1, FS_AddElement
      <3>3. RegCost * (c + 1) = RegCost * c + RegCost
        BY <2>1, RelayBounds
      <3> HIDE DEF c, paidFor, paidNow
      <3>4. QED
        BY <1>4, <2>1, <2>2, <2>3, <3>2, <3>3, RelayBounds
    <2>4. CASE x.st # "sent"
      <3>1. Sent(r)' = Sent(r)
        BY <1>2, <2>4 DEF Sent
      <3> HIDE DEF c, paidFor, paidNow
      <3>2. QED
        BY <1>4, <2>1, <2>2, <3>1, RelayBounds DEF c
    <2>5. QED
      BY <2>3, <2>4
  <1>9. Sound(r)'
    <2>1. Sound(r) /\ relay'[r] = relay[r] /\ task'[r] = task[r]
      BY DEF HandlerInv
    <2>2. task'[r].amount <= Outlay(r)'
      BY <1>7, <2>1, <1>4, <1>6, SpentType DEF Sound, HandlerInv
    <2>3. x.st = "sent" => t \in registered'
      BY DEF RegLands
    <2>4. ASSUME NEW u \in Targets
          PROVE  /\ regs'[r][u].st \in {"check", "send"} => regs'[r][u].left >= 1
                 /\ regs'[r][u].st \in {"known", "sent"} => u \in registered'
      BY <1>2, <1>3, <2>1, <2>3 DEF Sound
    <2>5. landed' = landed
      OBVIOUS
    <2>6. At(r, "registering")' /\ TopUpCost(r)' = TopUpCost(r)
      BY <2>1 DEF At, TopUpCost, IsAdd
    <2>7. /\ spent'[r].topUp = TopUpCost(r)
          /\ TopUpCost(r) + Asked[r].deposit <= MaxSponsoring
          /\ spent'[r].topUp <= TopUpCost(r) /\ spent'[r].deposit <= Asked[r].deposit
          /\ spent'[r].topUp + spent'[r].deposit <= MaxSponsoring
      BY <1>3, <2>1 DEF Sound, At
    <2>8. task[r].st = "none" /\ (task'[r].credit => Asked[r].action \in landed')
      BY <2>1, <2>5 DEF Sound, At
    <2> HIDE DEF paidFor
    <2>9. QED
      BY <1>8, <2>1, <2>2, <2>4, <2>6, <2>7, <2>8 DEF Sound, At
  <1>10. QED
    BY <1>2, <1>3, <1>5, <1>9, StepKeepsHandlers

LEMMA CheckKeeps ==
    ASSUME HandlerInv, NEW r \in Relays, NEW t \in Targets, CheckRegistered(r, t)
    PROVE  HandlerInv'
  <1>1. PICK known \in BOOLEAN :
          /\ known => t \in registered
          /\ regs' = [regs EXCEPT ![r][t].st = IF known THEN "known" ELSE "send"]
    BY DEF CheckRegistered
  <1>2. /\ At(r, "registering") /\ regs[r][t].st = "check"
        /\ UNCHANGED <<relay, gas, paid, task, crashes, landed>> /\ UNCHANGED chainVars
    BY DEF CheckRegistered, ledgerVars, chainVars
  <1>3. regs \in [Relays -> [Targets -> [st : RegStates, left : 0..MaxAttempts]]]
        /\ regs[r][t].left >= 1
    BY <1>2 DEF HandlerInv, RelayTypeOK, Sound
  <1> DEFINE x == [regs[r][t] EXCEPT !.st = IF known THEN "known" ELSE "send"]
  <1>4. /\ x \in [st : RegStates, left : 0..MaxAttempts]
        /\ x.st = IF known THEN "known" ELSE "send"
        /\ x.left = regs[r][t].left
        /\ regs' = [regs EXCEPT ![r][t] = x]
    BY <1>1, <1>3 DEF RegStates
  <1> HIDE DEF x
  <1>5. QED
    BY <1>1, <1>2, <1>3, <1>4, RegistrationKeeps

LEMMA DepositKeeps ==
    ASSUME HandlerInv, NEW r \in Relays, NEW t \in Targets, StorageDeposit(r, t)
    PROVE  HandlerInv'
  <1>1. /\ At(r, "registering") /\ regs[r][t].st = "send"
        /\ \/ RegLands(r, t) /\ regs' = [regs EXCEPT ![r][t].st = "sent"]
           \/ RegLands(r, t) /\ RegRetry(r, t)
           \/ UNCHANGED chainVars /\ RegRetry(r, t)
           \/ UNCHANGED chainVars /\ regs' = [regs EXCEPT ![r][t].st = "failed"]
        /\ UNCHANGED <<relay, gas, paid, task, crashes>>
    BY DEF StorageDeposit, ledgerVars
  <1>2. landed' = landed
    BY <1>1 DEF RegLands, chainVars
  <1>3. regs \in [Relays -> [Targets -> [st : RegStates, left : 0..MaxAttempts]]]
        /\ regs[r][t].left \in 1..MaxAttempts
    BY <1>1 DEF HandlerInv, RelayTypeOK, Sound
  <1> DEFINE old == regs[r][t]
             sent == [old EXCEPT !.st = "sent"]
             failed == [old EXCEPT !.st = "failed"]
             retried == [st |-> IF old.left > 1 THEN "send" ELSE "failed", left |-> old.left - 1]
             RS == [st : RegStates, left : 0..MaxAttempts]
  <1>4. /\ sent \in RS /\ sent.st = "sent"
        /\ failed \in RS /\ failed.st = "failed"
        /\ retried \in RS
        /\ retried.st \in {"send", "failed"}
        /\ retried.st = "send" => retried.left >= 1
    BY <1>3, RelayBounds DEF RegStates
  <1>5. CASE RegLands(r, t) /\ regs' = [regs EXCEPT ![r][t].st = "sent"]
    <2>1. regs' = [regs EXCEPT ![r][t] = sent]
      BY <1>3, <1>5
    <2> HIDE DEF sent, old
    <2>2. QED
      BY <1>1, <1>2, <1>4, <1>5, <2>1, RegistrationKeeps
  <1>6. CASE UNCHANGED chainVars /\ regs' = [regs EXCEPT ![r][t].st = "failed"]
    <2>1. regs' = [regs EXCEPT ![r][t] = failed]
      BY <1>3, <1>6
    <2> HIDE DEF failed, old
    <2>2. QED
      BY <1>1, <1>2, <1>4, <1>6, <2>1, RegistrationKeeps
  <1>7. CASE RegRetry(r, t) /\ (RegLands(r, t) \/ UNCHANGED chainVars)
    <2>1. regs' = [regs EXCEPT ![r][t] = retried]
      BY <1>3, <1>7 DEF RegRetry
    <2> HIDE DEF retried, old
    <2>2. QED
      BY <1>1, <1>2, <1>4, <1>7, <2>1, RegistrationKeeps
  <1>8. QED
    BY <1>1, <1>5, <1>6, <1>7

LEMMA EndRegistrationsKeeps ==
    ASSUME HandlerInv, NEW r \in Relays, EndRegistrations(r)
    PROVE  HandlerInv'
  <1>1. /\ At(r, "registering") /\ Pending(r) = {}
        /\ UNCHANGED <<regs, gas, paid, crashes, landed, registered, spent, refunds>>
    BY DEF EndRegistrations, chainVars
  <1>2. CASE Failed(r) # {}
    BY <1>1, <1>2, FailureKeeps DEF EndRegistrations
  <1>3. CASE Failed(r) = {}
    <2>1. GoTo(r, "submitting") /\ task' = task
      BY <1>3 DEF EndRegistrations
    <2>2. /\ relay' \in [Relays -> [at : Phases, left : 0..MaxAttempts]]
          /\ relay'[r].at = "submitting"
          /\ \A s \in Relays \ {r} : relay'[s] = relay[s]
      BY <2>1, GoToType DEF HandlerInv, Phases
    <2>3. RelayTypeOK'
      BY <1>1, <2>1, <2>2 DEF HandlerInv, RelayTypeOK
    <2>4. \A t \in Targets : regs[r][t].st \in {"none", "known", "sent"}
      <3>1. regs \in [Relays -> [Targets -> [st : RegStates, left : 0..MaxAttempts]]]
        BY DEF HandlerInv, RelayTypeOK
      <3>2. QED
        BY <1>1, <1>3, <3>1 DEF Pending, Failed, RegStates
    <2>5. Sound(r)'
      <3>1. Sent(r)' = Sent(r) /\ Outlay(r)' = Outlay(r)
        BY <1>1 DEF Sent, Outlay
      <3>2. Sound(r)
        BY DEF HandlerInv
      <3>3. QED
        BY <1>1, <2>1, <2>2, <2>4, <3>1, <3>2 DEF Sound, At
    <2>6. QED
      BY <1>1, <2>1, <2>2, <2>3, <2>5, StepKeepsHandlers
  <1>4. QED
    BY <1>2, <1>3

(* The action executes once, and its deposit leaves the sponsor then.      *)
LEMMA LandingFacts ==
    ASSUME HandlerInv, NEW r \in Relays, At(r, "submitting"), ActionLands(r)
    PROVE  /\ Asked[r].action \notin landed
           /\ landed' = landed \cup {Asked[r].action} /\ landed' \subseteq Actions
           /\ spent' \in [Relays -> [topUp : Nat, deposit : Nat, regs : Nat]]
           /\ spent'[r].topUp = spent[r].topUp /\ spent'[r].regs = spent[r].regs
           /\ spent'[r].deposit = Asked[r].deposit
           /\ \A s \in Relays \ {r} : spent'[s] = spent[s]
           /\ UNCHANGED <<registered, refunds>>
           /\ spent'[r].topUp + spent'[r].deposit <= MaxSponsoring
           /\ Outlay(r)' = Outlay(r) - spent[r].deposit + Asked[r].deposit
           /\ Outlay(r) <= Outlay(r)'
  <1>1. /\ spent \in [Relays -> [topUp : Nat, deposit : Nat, regs : Nat]]
        /\ landed \subseteq Actions
        /\ Asked[r].deposit \in Nat /\ Asked[r].action \in Actions
    BY AskedType DEF HandlerInv, RelayTypeOK
  <1>2. /\ Asked[r].action \notin landed
        /\ landed' = landed \cup {Asked[r].action} /\ landed' \subseteq Actions
        /\ spent' \in [Relays -> [topUp : Nat, deposit : Nat, regs : Nat]]
        /\ spent'[r].topUp = spent[r].topUp /\ spent'[r].regs = spent[r].regs
        /\ spent'[r].deposit = Asked[r].deposit
        /\ \A s \in Relays \ {r} : spent'[s] = spent[s]
        /\ UNCHANGED <<registered, refunds>>
    BY <1>1 DEF ActionLands
  <1>3. /\ spent[r].topUp = TopUpCost(r) /\ spent[r].deposit <= Asked[r].deposit
        /\ TopUpCost(r) + Asked[r].deposit <= MaxSponsoring
    BY DEF HandlerInv, Sound, At
  <1>4. Outlay(r)' = Outlay(r) - spent[r].deposit + Asked[r].deposit
    BY <1>1, <1>2, SpentType DEF HandlerInv, Outlay
  <1>5. QED
    BY <1>1, <1>2, <1>3, <1>4, SpentType DEF HandlerInv

LEMMA SubmitLandsKeeps ==
    ASSUME HandlerInv, NEW r \in Relays, SubmitLands(r)
    PROVE  HandlerInv'
  <1>1. /\ At(r, "submitting") /\ ActionLands(r) /\ GoTo(r, "done")
        /\ SpawnSpend(r, FrontedSpend(r) + Asked[r].deposit, TRUE)
        /\ UNCHANGED <<regs, gas, paid, crashes>>
    BY DEF SubmitLands
  <1>2. /\ relay' \in [Relays -> [at : Phases, left : 0..MaxAttempts]]
        /\ relay'[r].at = "done"
        /\ \A s \in Relays \ {r} : relay'[s] = relay[s]
    BY <1>1, GoToType DEF HandlerInv, Phases
  <1>3. /\ task' \in [Relays -> [st : {"none", "queued", "run", "dropped"},
                                 amount : Nat, credit : BOOLEAN]]
        /\ task'[r] = [st |-> "queued", amount |-> FrontedSpend(r) + Asked[r].deposit,
                       credit |-> TRUE]
        /\ \A s \in Relays \ {r} : task'[s] = task[s]
    <2>1. FrontedSpend(r) + Asked[r].deposit \in Nat
      BY FrontedType, AskedType
    <2>2. QED
      BY <1>1, <2>1, SpawnType DEF HandlerInv
  <1>4. RelayTypeOK'
    BY <1>1, <1>2, <1>3, LandingFacts DEF HandlerInv, RelayTypeOK
  <1>5. Sound(r)'
    <2>1. Sent(r)' = Sent(r)
      BY <1>1 DEF Sent
    <2>2. FrontedSpend(r) + Asked[r].deposit <= Outlay(r)'
      BY <1>1, LandingFacts, FrontedIsOutlay, FrontedType, SpentType, AskedType
         DEF HandlerInv
    <2>3. Sound(r)
      BY DEF HandlerInv
    <2>4. QED
      BY <1>1, <1>2, <1>3, <2>1, <2>2, <2>3, LandingFacts, AskedType DEF Sound, At
  <1>6. QED
    BY <1>1, <1>2, <1>3, <1>4, <1>5, LandingFacts, StepKeepsHandlers

LEMMA SubmitUnansweredKeeps ==
    ASSUME HandlerInv, NEW r \in Relays, SubmitUnanswered(r)
    PROVE  HandlerInv'
  <1>1. /\ At(r, "submitting") /\ (ActionLands(r) \/ UNCHANGED chainVars)
        /\ UNCHANGED <<regs, gas, paid, crashes>>
        /\ \/ relay[r].left > 1 /\ relay' = [relay EXCEPT ![r].left = @ - 1] /\ task' = task
           \/ FailSubmit(r)
    BY DEF SubmitUnanswered, SubmitRetry
  <1>2. /\ landed \subseteq landed' /\ landed' \subseteq Actions
        /\ spent' \in [Relays -> [topUp : Nat, deposit : Nat, regs : Nat]]
        /\ spent'[r].topUp = spent[r].topUp /\ spent'[r].regs = spent[r].regs
        /\ spent'[r].deposit <= Asked[r].deposit
        /\ \A s \in Relays \ {r} : spent'[s] = spent[s]
        /\ UNCHANGED <<registered, refunds>>
        /\ spent'[r].topUp + spent'[r].deposit <= MaxSponsoring
        /\ Outlay(r) <= Outlay(r)' /\ Outlay(r)' \in Nat
    <2>1. CASE ActionLands(r)
      <3>1. /\ landed' = landed \cup {Asked[r].action} /\ landed' \subseteq Actions
            /\ spent' \in [Relays -> [topUp : Nat, deposit : Nat, regs : Nat]]
            /\ spent'[r].topUp = spent[r].topUp /\ spent'[r].regs = spent[r].regs
            /\ spent'[r].deposit = Asked[r].deposit
            /\ \A s \in Relays \ {r} : spent'[s] = spent[s]
            /\ UNCHANGED <<registered, refunds>>
            /\ spent'[r].topUp + spent'[r].deposit <= MaxSponsoring
            /\ Outlay(r)' = Outlay(r) - spent[r].deposit + Asked[r].deposit
            /\ Outlay(r) <= Outlay(r)'
        BY <1>1, <2>1, LandingFacts
      <3>2. Outlay(r) \in Nat /\ spent[r].deposit \in Nat /\ Asked[r].deposit \in Nat
        BY AskedType, SpentType DEF HandlerInv
      <3>3. QED
        BY <3>1, <3>2
    <2>2. CASE UNCHANGED chainVars
      BY <2>2, SpentType DEF HandlerInv, Sound, RelayTypeOK, chainVars, Outlay
    <2>3. QED
      BY <1>1, <2>1, <2>2
  <1>3. Sent(r)' = Sent(r) /\ Sound(r)
    BY <1>1 DEF Sent, HandlerInv
  <1>4. CASE relay[r].left > 1 /\ relay' = [relay EXCEPT ![r].left = @ - 1] /\ task' = task
    <2>1. /\ relay' \in [Relays -> [at : Phases, left : 0..MaxAttempts]]
          /\ relay'[r].at = "submitting"
          /\ \A s \in Relays \ {r} : relay'[s] = relay[s]
      <3>1. relay \in [Relays -> [at : Phases, left : 0..MaxAttempts]]
            /\ relay[r].at = "submitting"
        BY <1>1 DEF HandlerInv, RelayTypeOK, At
      <3>2. relay[r].left - 1 \in 0..MaxAttempts
        BY <1>4, <3>1, RelayBounds
      <3>3. QED
        BY <1>4, <3>1, <3>2
    <2>2. RelayTypeOK'
      BY <1>1, <1>2, <1>4, <2>1 DEF HandlerInv, RelayTypeOK
    <2>3. task[r].amount <= Outlay(r)'
      BY <1>2, <1>3, SpentType DEF HandlerInv, Sound
    <2>4. Sound(r)'
      BY <1>1, <1>2, <1>3, <1>4, <2>1, <2>3 DEF Sound, At
    <2>5. QED
      BY <1>1, <1>2, <1>4, <2>1, <2>2, <2>4, StepKeepsHandlers
  <1>5. CASE FailSubmit(r)
    <2>1. GoTo(r, "failed") /\ SpawnSpend(r, FrontedSpend(r), FALSE)
      BY <1>5 DEF FailSubmit
    <2>2. /\ relay' \in [Relays -> [at : Phases, left : 0..MaxAttempts]]
          /\ relay'[r].at = "failed"
          /\ \A s \in Relays \ {r} : relay'[s] = relay[s]
      BY <2>1, GoToType DEF HandlerInv, Phases
    <2>3. /\ task' \in [Relays -> [st : {"none", "queued", "run", "dropped"},
                                   amount : Nat, credit : BOOLEAN]]
          /\ task'[r] = [st |-> "queued", amount |-> FrontedSpend(r), credit |-> FALSE]
          /\ \A s \in Relays \ {r} : task'[s] = task[s]
      BY <2>1, FrontedType, SpawnType DEF HandlerInv
    <2>4. RelayTypeOK'
      BY <1>1, <1>2, <2>2, <2>3 DEF HandlerInv, RelayTypeOK
    <2>5. FrontedSpend(r) <= Outlay(r)'
      <3>1. FrontedSpend(r) <= Outlay(r) - spent[r].deposit
        BY <1>1, FrontedIsOutlay
      <3>2. /\ Outlay(r) \in Nat /\ spent[r].deposit \in Nat /\ FrontedSpend(r) \in Nat
            /\ Outlay(r) <= Outlay(r)' /\ Outlay(r)' \in Nat
        BY <1>2, FrontedType, SpentType DEF HandlerInv
      <3>3. QED
        BY <3>1, <3>2
    <2>6. Sound(r)'
      BY <1>1, <1>2, <1>3, <2>2, <2>3, <2>5 DEF Sound, At
    <2>7. QED
      BY <1>1, <1>2, <2>2, <2>3, <2>4, <2>6, StepKeepsHandlers
  <1>6. QED
    BY <1>1, <1>4, <1>5

(* The steps of the tasks, and a restart of the backend. *)
LEMMA TaskKeeps ==
    ASSUME HandlerInv, NEW r \in Relays, task[r].st = "queued",
           NEW st \in {"run", "dropped"}, task' = [task EXCEPT ![r].st = st],
           gas' \in [Treasuries -> 0..GasCredits], paid' \in [Treasuries -> Nat],
           UNCHANGED <<relay, regs, crashes, landed, registered, spent, refunds>>
    PROVE  HandlerInv'
  <1>1. task \in [Relays -> [st : {"none", "queued", "run", "dropped"},
                             amount : Nat, credit : BOOLEAN]]
    BY DEF HandlerInv, RelayTypeOK
  <1>2. /\ task' \in [Relays -> [st : {"none", "queued", "run", "dropped"},
                                 amount : Nat, credit : BOOLEAN]]
        /\ task'[r].amount = task[r].amount /\ task'[r].credit = task[r].credit
        /\ \A s \in Relays \ {r} : task'[s] = task[s]
    BY <1>1
  <1>3. RelayTypeOK'
    BY <1>2 DEF HandlerInv, RelayTypeOK
  <1>4. Sound(r)'
    <2>1. Sent(r)' = Sent(r) /\ Outlay(r)' = Outlay(r) /\ Sound(r)
      BY DEF Sent, Outlay, HandlerInv
    <2>2. QED
      BY <1>2, <2>1 DEF Sound, At
  <1>5. QED
    BY <1>2, <1>3, <1>4, StepKeepsHandlers

LEMMA ApplyKeeps ==
    ASSUME HandlerInv, NEW r \in Relays, ApplySpend(r)
    PROVE  HandlerInv'
  <1>1. /\ gas \in [Treasuries -> 0..GasCredits] /\ paid \in [Treasuries -> Nat]
        /\ task[r].amount \in Nat /\ Treasury(r) \in Treasuries
    BY AskedType, SpentType DEF HandlerInv, RelayTypeOK
  <1>2. gas' \in [Treasuries -> 0..GasCredits]
    BY <1>1, RelayBounds DEF ApplySpend
  <1>3. paid' \in [Treasuries -> Nat]
    BY <1>1 DEF ApplySpend
  <1>4. QED
    BY <1>2, <1>3, TaskKeeps DEF ApplySpend, chainVars

LEMMA SpendFailsKeeps ==
    ASSUME HandlerInv, NEW r \in Relays, SpendFails(r)
    PROVE  HandlerInv'
  BY TaskKeeps DEF SpendFails, chainVars, HandlerInv, RelayTypeOK

LEMMA CrashKeeps ==
    ASSUME HandlerInv, Crash
    PROVE  HandlerInv'
  <1>1. /\ relay \in [Relays -> [at : Phases, left : 0..MaxAttempts]]
        /\ task \in [Relays -> [st : {"none", "queued", "run", "dropped"},
                                amount : Nat, credit : BOOLEAN]]
        /\ crashes \in 0..MaxCrashes /\ MaxCrashes \in Nat /\ 0 \in 0..MaxAttempts
    BY RelayBounds DEF HandlerInv, RelayTypeOK
  <1>2. /\ UNCHANGED <<regs, gas, paid, landed, registered, spent, refunds>>
        /\ crashes' \in 0..MaxCrashes
    BY <1>1 DEF Crash, chainVars
  <1>3. ASSUME NEW r \in Relays
        PROVE  /\ relay'[r] = IF relay[r].at \in {"new", "done", "failed"} THEN relay[r]
                              ELSE [at |-> "lost", left |-> 0]
               /\ task'[r] = IF task[r].st = "queued"
                             THEN [task[r] EXCEPT !.st = "dropped"] ELSE task[r]
    BY DEF Crash
  <1>4. relay' \in [Relays -> [at : Phases, left : 0..MaxAttempts]]
    <2>1. [at |-> "lost", left |-> 0] \in [at : Phases, left : 0..MaxAttempts]
      BY <1>1 DEF Phases
    <2>2. relay' = [r \in Relays |->
             IF relay[r].at \in {"new", "done", "failed"} THEN relay[r]
             ELSE [at |-> "lost", left |-> 0]]
      BY DEF Crash
    <2>3. QED
      BY <1>1, <2>1, <2>2
  <1>5. task' \in [Relays -> [st : {"none", "queued", "run", "dropped"},
                              amount : Nat, credit : BOOLEAN]]
    <2>1. \A r \in Relays : [task[r] EXCEPT !.st = "dropped"]
             \in [st : {"none", "queued", "run", "dropped"}, amount : Nat, credit : BOOLEAN]
      BY <1>1
    <2>2. task' = [r \in Relays |-> IF task[r].st = "queued"
                     THEN [task[r] EXCEPT !.st = "dropped"] ELSE task[r]]
      BY DEF Crash
    <2>3. QED
      BY <1>1, <2>1, <2>2
  <1>6. RelayTypeOK'
    BY <1>2, <1>4, <1>5 DEF HandlerInv, RelayTypeOK
  <1>7. ASSUME NEW r \in Relays
        PROVE  /\ task'[r].amount = task[r].amount /\ task'[r].credit = task[r].credit
               /\ task'[r].st = "none" <=> task[r].st = "none"
    BY <1>1, <1>3
  <1>8. ASSUME NEW r \in Relays
        PROVE  Sound(r)'
    <2>1. Sent(r)' = Sent(r) /\ Outlay(r)' = Outlay(r) /\ Sound(r)
      BY <1>2 DEF Sent, Outlay, HandlerInv
    <2>2. \/ relay'[r] = relay[r]
          \/ relay'[r].at = "lost" /\ ~At(r, "done") /\ ~At(r, "failed")
      <3>1. CASE relay[r].at \in {"new", "done", "failed"}
        BY <1>3, <3>1
      <3>2. CASE relay[r].at \notin {"new", "done", "failed"}
        <4>1. relay'[r] = [at |-> "lost", left |-> 0]
          BY <1>3, <3>2
        <4>2. QED
          BY <3>2, <4>1 DEF At
      <3>3. QED
        BY <3>1, <3>2
    <2>3. CASE relay'[r] = relay[r]
      BY <1>2, <1>7, <2>1, <2>3 DEF Sound, At
    <2>4. CASE relay'[r].at = "lost" /\ ~At(r, "done") /\ ~At(r, "failed")
      BY <1>2, <1>7, <2>1, <2>4 DEF Sound, At
    <2>5. QED
      BY <2>2, <2>3, <2>4
  <1>9. DistinctCharges'
    BY <1>7 DEF HandlerInv, DistinctCharges
  <1>10. QED
    BY <1>6, <1>8, <1>9 DEF HandlerInv

LEMMA HandlersKeepInv ==
    ASSUME HandlerInv, [RelayNext]_vars
    PROVE  HandlerInv'
  <1>1. ASSUME NEW r \in Relays, Handler(r)
        PROVE  HandlerInv'
    <2>1. CASE TooManyTargets(r)
      BY <2>1, FailureKeeps DEF TooManyTargets, chainVars
    <2>2. CASE SubmitRejected(r)
      BY <2>2, FailureKeeps DEF SubmitRejected, FailSubmit, chainVars
    <2>3. QED
      BY <1>1, <2>1, <2>2, AuthorizeKeeps, RefusalKeeps, TopUpKeeps, DeriveKeeps,
         CheckKeeps, DepositKeeps, EndRegistrationsKeeps, SubmitLandsKeeps,
         SubmitUnansweredKeeps DEF Handler
  <1>2. CASE UNCHANGED vars
    <2>1. UNCHANGED <<relay, regs, gas, paid, task, crashes, landed, registered, spent, refunds>>
      BY <1>2 DEF vars, ledgerVars, chainVars
    <2>2. RelayTypeOK' /\ DistinctCharges'
      BY <2>1 DEF HandlerInv, RelayTypeOK, DistinctCharges
    <2>3. QED
      BY <2>1, <2>2, OthersStaySound DEF HandlerInv
  <1>3. QED
    BY <1>1, <1>2, ApplyKeeps, SpendFailsKeeps, CrashKeeps DEF RelayNext

-----------------------------------------------------------------------------
(* The treasuries' rows *)

LEMMA RelaysOfFinite ==
    ASSUME NEW d
    PROVE  IsFiniteSet(RelaysOf(d)) /\ RelaysOf(d) \subseteq Relays
  <1>1. RelaysOf(d) \in SUBSET Relays
    BY DEF RelaysOf
  <1>2. QED
    BY <1>1, RelaysAreFinite, FS_Subset

LEMMA RecordedType ==
    ASSUME RelayTypeOK, NEW d, NEW r \in RelaysOf(d)
    PROVE  RecordedOf(d)[r] = Recorded(r) /\ Recorded(r) \in Nat
  <1>1. r \in Relays
    BY RelaysOfFinite
  <1>2. QED
    BY <1>1, SpentType DEF RecordedOf, Recorded

(* The rows follow the tasks that ran, so that a step which runs none and  *)
(* writes no row keeps their invariant.                                    *)
LEMMA RowsStay ==
    ASSUME RowInv, UNCHANGED <<gas, paid>>,
           \A r \in Relays :
              \/ task'[r] = task[r]
              \/ task[r].st # "run" /\ task'[r].st # "run"
    PROVE  RowInv'
  <1>1. ASSUME NEW d \in Treasuries
        PROVE  Charged(d)' = Charged(d) /\ RecordedOf(d)' = RecordedOf(d)
    <2>1. RelaysOf(d)' = RelaysOf(d) /\ RelaysOf(d) \subseteq Relays
      BY DEF RelaysOf, Treasury
    <2>2. \A r \in RelaysOf(d) : Recorded(r)' = Recorded(r)
      BY <2>1 DEF Recorded
    <2>3. QED
      BY <2>1, <2>2 DEF Charged, RecordedOf
  <1>2. QED
    BY <1>1 DEF RowInv, RelaysOf, Treasury

(* The tasks that a handler leaves alone or starts have not run. *)
LEMMA HandlersRunNoTask ==
    ASSUME HandlerInv, NEW r \in Relays, Handler(r)
    PROVE  /\ UNCHANGED <<gas, paid>>
           /\ \A s \in Relays : \/ task'[s] = task[s]
                                \/ task[s].st # "run" /\ task'[s].st # "run"
  <1>1. \/ task' = task
        \/ /\ At(r, "funded") \/ At(r, "registering") \/ At(r, "submitting")
           /\ \/ SpawnSpend(r, FrontedSpend(r), FALSE)
              \/ SpawnSpend(r, FrontedSpend(r) + Asked[r].deposit, TRUE)
    BY DEF Handler, Authorize, RefuseRelay, TopUp, TopUpFails, DeriveTargets,
           TooManyTargets, CheckRegistered, StorageDeposit, EndRegistrations,
           SubmitLands, SubmitUnanswered, SubmitRetry, SubmitRejected, FailSubmit,
           ledgerVars
  <1>2. UNCHANGED <<gas, paid>>
    BY DEF Handler, Authorize, RefuseRelay, TopUp, TopUpFails, DeriveTargets,
           TooManyTargets, CheckRegistered, StorageDeposit, EndRegistrations,
           SubmitLands, SubmitUnanswered, SubmitRejected, ledgerVars
  <1>3. ASSUME At(r, "funded") \/ At(r, "registering") \/ At(r, "submitting")
        PROVE  task[r].st = "none"
    BY <1>3 DEF HandlerInv, Sound, At
  <1>4. ASSUME NEW amount, NEW credit, SpawnSpend(r, amount, credit)
        PROVE  /\ task'[r].st = "queued"
               /\ \A s \in Relays \ {r} : task'[s] = task[s]
    BY <1>4 DEF SpawnSpend, HandlerInv, RelayTypeOK
  <1>5. QED
    BY <1>1, <1>2, <1>3, <1>4

LEMMA ApplyKeepsRows ==
    ASSUME HandlerInv, RowInv, NEW r \in Relays, ApplySpend(r)
    PROVE  RowInv'
  <1> DEFINE d == Treasury(r)
  <1>1. /\ RelayTypeOK /\ d \in Treasuries /\ task[r].amount \in Nat
        /\ task[r].credit \in BOOLEAN
        /\ gas \in [Treasuries -> 0..GasCredits] /\ paid \in [Treasuries -> Nat]
        /\ GasCredits \in Nat
    BY AskedType, SpentType, RelayBounds DEF HandlerInv, RelayTypeOK
  <1>2. /\ task[r].st = "queued" /\ task'[r].st = "run"
        /\ task'[r].amount = task[r].amount /\ task'[r].credit = task[r].credit
        /\ \A s \in Relays \ {r} : task'[s] = task[s]
    BY DEF ApplySpend, HandlerInv, RelayTypeOK
  <1>3. RelayTypeOK'
    BY ApplyKeeps DEF HandlerInv
  <1>4. \A e \in Treasuries : RelaysOf(e)' = RelaysOf(e)
    BY DEF RelaysOf, Treasury
  <1>5. ASSUME NEW e \in Treasuries, e # d
        PROVE  /\ GasCredits - gas'[e] <= Cardinality(Charged(e)')
               /\ paid'[e] = SumFunctionOnSet(RecordedOf(e)', RelaysOf(e)')
    <2>1. RelaysOf(e) \subseteq Relays \ {r}
      BY <1>5 DEF RelaysOf
    <2>2. Charged(e)' = Charged(e)
      BY <1>2, <1>4, <2>1 DEF Charged
    <2>3. \A s \in RelaysOf(e) : Recorded(s)' = Recorded(s)
      BY <1>2, <2>1 DEF Recorded
    <2>4. RecordedOf(e)' = RecordedOf(e)
      BY <1>4, <2>3 DEF RecordedOf
    <2>5. gas'[e] = gas[e] /\ paid'[e] = paid[e]
      BY <1>1, <1>5 DEF ApplySpend
    <2>6. QED
      BY <1>4, <2>2, <2>4, <2>5 DEF RowInv
  <1>6. r \in RelaysOf(d) /\ RelaysOf(d) \subseteq Relays
    BY DEF RelaysOf
  <1>7. GasCredits - gas'[d] <= Cardinality(Charged(d)')
    <2>1. IsFiniteSet(Charged(d)) /\ r \notin Charged(d)
      <3>1. Charged(d) \in SUBSET RelaysOf(d)
        BY DEF Charged
      <3>2. QED
        BY <1>2, <3>1, RelaysOfFinite, FS_Subset DEF Charged
    <2>2. GasCredits - gas[d] <= Cardinality(Charged(d)) /\ Cardinality(Charged(d)) \in Nat
      BY <1>1, <2>1, FS_CardinalityType DEF RowInv
    <2>3. CASE task[r].credit
      <3>1. Charged(d)' = Charged(d) \cup {r}
        BY <1>2, <1>4, <1>6, <2>3 DEF Charged
      <3>2. Cardinality(Charged(d)') = Cardinality(Charged(d)) + 1
        BY <2>1, <3>1, FS_AddElement
      <3>3. gas[d] \in 0..GasCredits /\ gas'[d] \in {gas[d], gas[d] - 1}
        BY <1>1 DEF ApplySpend
      <3>4. QED
        BY <1>1, <2>2, <3>2, <3>3
    <2>4. CASE ~task[r].credit
      <3>1. Charged(d)' = Charged(d)
        BY <1>1, <1>2, <1>4, <1>6, <2>4 DEF Charged
      <3>2. gas' = gas
        BY <2>4 DEF ApplySpend
      <3>3. QED
        BY <2>2, <3>1, <3>2
    <2>5. QED
      BY <2>3, <2>4
  <1>8. paid'[d] = SumFunctionOnSet(RecordedOf(d)', RelaysOf(d)')
    <2> DEFINE f == RecordedOf(d)
               g == RecordedOf(d)'
    <2>1. f[r] = 0 /\ g[r] = task[r].amount
      BY <1>2, <1>4, <1>6 DEF RecordedOf, Recorded
    <2>2. \A s \in RelaysOf(d) : f[s] \in Nat
      BY <1>1, RecordedType
    <2>3. \A s \in RelaysOf(d) \ {r} : f[s] = g[s]
      BY <1>2, <1>4, <1>6 DEF RecordedOf, Recorded
    <2>4. \A s \in RelaysOf(d) : f[s] \in Int /\ g[s] \in Int
      BY <1>1, <2>1, <2>2, <2>3
    <2>5. IsFiniteSet(RelaysOf(d))
      BY RelaysOfFinite
    <2>6. paid[d] = SumFunctionOnSet(f, RelaysOf(d))
      BY <1>1 DEF RowInv
    <2>7. paid'[d] = paid[d] + task[r].amount
      BY <1>1 DEF ApplySpend
    <2>8. RelaysOf(d)' = RelaysOf(d)
      BY <1>1, <1>4
    <2> HIDE DEF f, g, d
    <2>9. SumFunctionOnSet(g, RelaysOf(d)) = SumFunctionOnSet(f, RelaysOf(d)) - f[r] + g[r]
      BY <1>6, <2>3, <2>4, <2>5, SumChanges
    <2>10. paid[d] \in Nat
      BY <1>1
    <2>11. paid'[d] = SumFunctionOnSet(g, RelaysOf(d))
      BY <1>1, <2>1, <2>6, <2>7, <2>9, <2>10
    <2>12. QED
      BY <2>8, <2>11 DEF g
  <1>9. QED
    BY <1>5, <1>7, <1>8 DEF RowInv

LEMMA RowsKeepInv ==
    ASSUME HandlerInv, RowInv, [RelayNext]_vars
    PROVE  RowInv'
  <1>1. ASSUME NEW r \in Relays, Handler(r)
        PROVE  RowInv'
    BY <1>1, HandlersRunNoTask, RowsStay
  <1>2. ASSUME NEW r \in Relays, SpendFails(r)
        PROVE  RowInv'
    BY <1>2, RowsStay DEF SpendFails, HandlerInv, RelayTypeOK
  <1>3. ASSUME Crash
        PROVE  RowInv'
    <2>1. \A r \in Relays : \/ task'[r] = task[r]
                            \/ /\ task[r].st = "queued"
                               /\ task'[r] = [task[r] EXCEPT !.st = "dropped"]
      BY <1>3 DEF Crash
    <2>2. \A r \in Relays : [task[r] EXCEPT !.st = "dropped"].st = "dropped"
      BY DEF HandlerInv, RelayTypeOK
    <2>3. UNCHANGED <<gas, paid>>
      BY <1>3 DEF Crash
    <2>4. QED
      BY <2>1, <2>2, <2>3, RowsStay
  <1>4. CASE UNCHANGED vars
    BY <1>4, RowsStay DEF vars, ledgerVars
  <1>5. QED
    BY <1>1, <1>2, <1>3, <1>4, ApplyKeepsRows DEF RelayNext

LEMMA InitHandlers ==
    ASSUME RelayInit
    PROVE  HandlerInv
  <1>1. RelayTypeOK
    BY RelayBounds DEF RelayInit, RelayTypeOK, Phases, RegStates, NoTask
  <1>2. ASSUME NEW r \in Relays
        PROVE  Sound(r)
    <2>1. /\ relay[r] = [at |-> "new", left |-> 0] /\ task[r] = NoTask
          /\ spent[r] = [topUp |-> 0, deposit |-> 0, regs |-> 0] /\ refunds[r] = 0
          /\ \A t \in Targets : regs[r][t] = [st |-> "none", left |-> 0]
      BY DEF RelayInit
    <2>2. Sent(r) = {}
      BY <2>1 DEF Sent
    <2>3. RegCost * Cardinality(Sent(r)) = 0 /\ RegCost * refunds[r] = 0 /\ Outlay(r) = 0
      BY <2>1, <2>2, FS_EmptySet, RelayBounds DEF Outlay
    <2>4. QED
      BY <2>1, <2>3, AskedType, RelayBounds DEF Sound, At, NoTask
  <1>3. DistinctCharges
    BY DEF RelayInit, DistinctCharges, NoTask
  <1>4. QED
    BY <1>1, <1>2, <1>3 DEF HandlerInv

LEMMA InitRows ==
    ASSUME RelayInit
    PROVE  RowInv
  <1>1. \A r \in Relays : task[r] = NoTask
    BY DEF RelayInit
  <1>2. ASSUME NEW d \in Treasuries
        PROVE  /\ GasCredits - gas[d] <= Cardinality(Charged(d))
               /\ paid[d] = SumFunctionOnSet(RecordedOf(d), RelaysOf(d))
    <2>1. IsFiniteSet(RelaysOf(d)) /\ RelaysOf(d) \subseteq Relays
      BY RelaysOfFinite
    <2>2. Charged(d) = {}
      BY <1>1, <2>1 DEF Charged, NoTask
    <2>3. \A r \in RelaysOf(d) : RecordedOf(d)[r] = 0
      BY <1>1, <2>1 DEF RecordedOf, Recorded, NoTask
    <2>4. SumFunctionOnSet(RecordedOf(d), RelaysOf(d)) = 0
      BY <2>1, <2>3, SumOfZeros
    <2>5. gas[d] = GasCredits /\ paid[d] = 0
      BY DEF RelayInit
    <2>6. QED
      BY <2>2, <2>4, <2>5, FS_EmptySet, RelayBounds
  <1>3. QED
    BY <1>2 DEF RowInv

LEMMA RelayInvHolds == RelaySpec => [](HandlerInv /\ RowInv)
  <1>1. RelayInit => HandlerInv /\ RowInv
    BY InitHandlers, InitRows
  <1>2. HandlerInv /\ RowInv /\ [RelayNext]_vars => (HandlerInv /\ RowInv)'
    BY HandlersKeepInv, RowsKeepInv
  <1>3. QED
    BY <1>1, <1>2, PTL DEF RelaySpec

-----------------------------------------------------------------------------
(* What the invariants say of the relay *)

(* The type invariant: every variable stays in its type, so that attempts, *)
(* gas credits and restarts stay within their bounds.                      *)
THEOREM RelayTypeCorrect == RelaySpec => []RelayTypeOK
  <1>1. HandlerInv /\ RowInv => RelayTypeOK
    BY DEF HandlerInv
  <1>2. QED
    BY <1>1, RelayInvHolds, PTL

(* Whatever is retried, lost or restarted, a relay's top-up and deposit    *)
(* stay below the sponsor's absolute ceiling: the limit is checked once,   *)
(* the transfer is sent once, and an action executes once.                 *)
THEOREM FrontedStaysBounded == RelaySpec => []FrontedIsBounded
  <1>1. HandlerInv /\ RowInv => FrontedIsBounded
    BY DEF HandlerInv, Sound, FrontedIsBounded
  <1>2. QED
    BY <1>1, RelayInvHolds, PTL

(* A vote is submitted only when every account it was found to pay is      *)
(* registered with its token, whoever registered it.                       *)
THEOREM SubmittedVotesFindTokens == RelaySpec => []VotesFindTokensRegistered
  <1>1. HandlerInv /\ RowInv => VotesFindTokensRegistered
    BY DEF HandlerInv, Sound, VotesFindTokensRegistered
  <1>2. QED
    BY <1>1, RelayInvHolds, PTL

(* A treasury uses up a gas credit for a landed action only, once for      *)
(* each, however often that action is relayed: the charged relays map one  *)
(* to one into the actions that landed.                                    *)
THEOREM CreditsStayForLandedActions == RelaySpec => []CreditsForLandedActions
  <1>1. ASSUME HandlerInv, RowInv, NEW d \in Treasuries
        PROVE  GasCredits - gas[d] <= Cardinality(LandedOf(d))
    <2> DEFINE X == {r \in RelaysOf(d) : Asked[r].action \in landed}
               f == [r \in X |-> Asked[r].action]
               g == [r \in Charged(d) |-> Asked[r].action]
    <2>1. IsFiniteSet(X)
      <3>1. X \in SUBSET RelaysOf(d)
        OBVIOUS
      <3>2. QED
        BY <3>1, RelaysOfFinite, FS_Subset
    <2>2. f \in Surjection(X, LandedOf(d))
      BY DEF Surjection, LandedOf, RelaysOf
    <2>3. IsFiniteSet(LandedOf(d))
      BY <2>1, <2>2, FS_Surjection
    <2>4. g \in Injection(Charged(d), LandedOf(d))
      <3>1. \A r \in Charged(d) : r \in RelaysOf(d) /\ r \in Relays /\ task[r].credit
        BY DEF Charged, RelaysOf
      <3>2. \A r \in Charged(d) : Asked[r].action \in LandedOf(d)
        BY <1>1, <3>1 DEF HandlerInv, Sound, LandedOf, RelaysOf
      <3>3. \A r, s \in Charged(d) : Asked[r].action = Asked[s].action => r = s
        BY <1>1, <3>1 DEF HandlerInv, DistinctCharges
      <3>4. QED
        BY <3>2, <3>3 DEF Injection, IsInjective
    <2>5. /\ Cardinality(Charged(d)) <= Cardinality(LandedOf(d))
          /\ IsFiniteSet(Charged(d))
      BY <2>3, <2>4, FS_Injection
    <2>6. GasCredits - gas[d] <= Cardinality(Charged(d))
      BY <1>1 DEF RowInv
    <2>7. /\ Cardinality(Charged(d)) \in Nat /\ Cardinality(LandedOf(d)) \in Nat
          /\ gas[d] \in 0..GasCredits /\ GasCredits \in Nat
      BY <1>1, <2>3, <2>5, FS_CardinalityType, RelayBounds DEF HandlerInv, RelayTypeOK
    <2>8. QED
      BY <2>5, <2>6, <2>7
  <1>2. HandlerInv /\ RowInv => CreditsForLandedActions
    BY <1>1 DEF CreditsForLandedActions
  <1>3. QED
    BY <1>2, RelayInvHolds, PTL

(* paid_near, with what is still under way to it, never says more than     *)
(* left the sponsor's account for the treasury's relays: each task that    *)
(* ran or is queued recorded at most its relay's outlay, and the sums over *)
(* the relays follow.                                                      *)
THEOREM PaidStaysSpent == RelaySpec => []PaidWasSpent
  <1>1. ASSUME HandlerInv, RowInv, NEW d \in Treasuries
        PROVE  paid[d] + SumFunction([r \in RelaysOf(d) |-> Underway(r)])
                 <= SumFunction([r \in RelaysOf(d) |-> Outlay(r)])
    <2> DEFINE S == RelaysOf(d)
               f == RecordedOf(d)
               g == [r \in S |-> Underway(r)]
               h == [r \in S |-> Recorded(r) + Underway(r)]
               o == [r \in S |-> Outlay(r)]
    <2>1. IsFiniteSet(S) /\ S \subseteq Relays
      BY RelaysOfFinite
    <2>2. ASSUME NEW r \in S
          PROVE  /\ f[r] = Recorded(r) /\ Recorded(r) \in Nat
                 /\ Underway(r) \in Nat /\ Outlay(r) \in Nat
                 /\ Recorded(r) + Underway(r) <= Outlay(r)
      <3>1. r \in Relays /\ task[r].amount <= Outlay(r)
        BY <1>1, <2>1 DEF HandlerInv, Sound
      <3>2. task[r].amount \in Nat /\ Outlay(r) \in Nat
        BY <1>1, <3>1, SpentType DEF HandlerInv
      <3>3. QED
        BY <3>1, <3>2 DEF RecordedOf, Recorded, Underway
    <2>3. \A r \in S : f[r] \in Int /\ g[r] \in Int /\ h[r] = f[r] + g[r]
      BY <2>2
    <2>4. \A r \in S : h[r] \in Int /\ o[r] \in Int /\ h[r] <= o[r]
      BY <2>2
    <2>5. SumFunction(g) = SumFunctionOnSet(g, S) /\ SumFunction(o) = SumFunctionOnSet(o, S)
      BY DEF SumFunction
    <2>6. paid[d] = SumFunctionOnSet(f, S)
      BY <1>1 DEF RowInv
    <2> HIDE DEF S, f, g, h, o
    <2>7. SumFunctionOnSet(h, S) = SumFunctionOnSet(f, S) + SumFunctionOnSet(g, S)
      BY <2>1, <2>3, SumOfSums
    <2>8. SumFunctionOnSet(h, S) <= SumFunctionOnSet(o, S)
      BY <2>1, <2>4, SumIsMonotone
    <2>9. paid[d] + SumFunction(g) <= SumFunction(o)
      BY <2>5, <2>6, <2>7, <2>8
    <2>10. QED
      BY <2>9 DEF g, o, S
  <1>2. HandlerInv /\ RowInv => PaidWasSpent
    BY <1>1 DEF PaidWasSpent
  <1>3. QED
    BY <1>2, RelayInvHolds, PTL

-----------------------------------------------------------------------------
(* Plan credits *)

(* Counters are counters, also those a reset has read; and nothing that is *)
(* served before it is charged is an export.                               *)
Stages == {"new", "admitted", "served", "known", "refused", "charged"}
Counters == [Accounts -> [Kinds -> Nat]]
CreditsInv ==
    /\ credits \in Counters /\ used \in Counters
    /\ requests \in [Requests -> Stages]
    /\ \A r \in Requests : requests[r] = "served" => Kind(r) # "export"
    /\ job.open => /\ DOMAIN job.read \subseteq Accounts
                   /\ \A a \in DOMAIN job.read : job.read[a] \in [Kinds -> Nat]
    /\ ExportsAreCharged

LEMMA InitialIsCounter ==
    ASSUME NEW a \in Accounts, NEW k \in Kinds
    PROVE  Initial(a, k) \in Nat
  <1>1. /\ Monthly[PlanOf[a]][k] \in Nat \cup {None}
        /\ Trial[PlanOf[a]][k] \in Nat \cup {None}
    BY PlansAssumption, LimitsAssumption
  <1>2. QED
    BY <1>1 DEF Initial

LEMMA CreditsInitInv == CreditsInit => CreditsInv
  <1> SUFFICES ASSUME CreditsInit PROVE CreditsInv
    OBVIOUS
  <1>1. /\ credits = [a \in Accounts |-> [k \in Kinds |-> Initial(a, k)]]
        /\ used = [a \in Accounts |-> [k \in Kinds |-> 0]]
        /\ requests = [r \in Requests |-> "new"] /\ job.open = FALSE
    BY DEF CreditsInit, NoJob
  <1>2. credits \in Counters /\ used \in Counters
    BY <1>1, InitialIsCounter DEF Counters
  <1>3. "export" \in Kinds
    BY DEF Kinds
  <1>4. ExportsAreCharged
    BY <1>1, <1>3, InitialIsCounter DEF ExportsAreCharged
  <1>5. QED
    BY <1>1, <1>2, <1>4 DEF CreditsInv, Stages

LEMMA MoveKeepsServed ==
    ASSUME CreditsInv, NEW r \in Requests, NEW from, NEW to \in Stages, Move(r, from, to),
           to = "served" => Kind(r) # "export"
    PROVE  /\ requests' \in [Requests -> Stages]
           /\ \A p \in Requests : requests'[p] = "served" => Kind(p) # "export"
  BY DEF CreditsInv, Move

LEMMA CreditsNextInv == CreditsInv /\ [CreditsNext]_creditsVars => CreditsInv'
  <1> SUFFICES ASSUME CreditsInv, [CreditsNext]_creditsVars PROVE CreditsInv'
    OBVIOUS
  <1>0. /\ credits \in Counters /\ used \in Counters
        /\ \A a \in Accounts, k \in Kinds : credits[a][k] \in Nat /\ used[a][k] \in Nat
        /\ job.open => /\ DOMAIN job.read \subseteq Accounts
                       /\ \A a \in DOMAIN job.read : job.read[a] \in [Kinds -> Nat]
        /\ \A a \in Accounts : Renewed(a, "export") =>
              credits[a]["export"] + used[a]["export"] = Initial(a, "export")
        /\ "export" \in Kinds
    BY DEF CreditsInv, ExportsAreCharged, Counters, Kinds
  <1>w. \A r \in Requests : Account(r) \in Accounts /\ Kind(r) \in Kinds
    BY WantsAssumption DEF Account, Kind
  <1>a. ASSUME NEW r \in Requests, NEW from, NEW to \in {"known", "admitted", "refused"},
               Move(r, from, to), UNCHANGED <<credits, used, job>>
        PROVE  CreditsInv'
    <2>1. /\ requests' \in [Requests -> Stages]
          /\ \A p \in Requests : requests'[p] = "served" => Kind(p) # "export"
      BY <1>a, MoveKeepsServed DEF Stages
    <2>2. QED
      BY <2>1, <1>a, <1>0 DEF CreditsInv, ExportsAreCharged
  <1>1. ASSUME NEW r \in Requests, LookExportUp(r) PROVE CreditsInv'
    BY <1>1, <1>a DEF LookExportUp
  <1>2. ASSUME NEW r \in Requests, ChargeExport(r) PROVE CreditsInv'
    <2>1. /\ Kind(r) = "export" /\ Left(r) > 0 /\ Move(r, "admitted", "charged")
          /\ credits' = [credits EXCEPT ![Account(r)]["export"] = Left(r) - 1]
          /\ used' = [used EXCEPT ![Account(r)]["export"] = used[Account(r)]["export"] + 1]
          /\ UNCHANGED job
      BY <1>2, <1>w DEF ChargeExport, Left
    <2>2. Left(r) = credits[Account(r)]["export"] /\ Left(r) - 1 \in Nat
      BY <2>1, <1>0, <1>w DEF Left
    <2>3. /\ credits' \in Counters /\ credits'[Account(r)]["export"] = Left(r) - 1
          /\ \A b \in Accounts, l \in Kinds :
                b # Account(r) \/ l # "export" => credits'[b][l] = credits[b][l]
      BY <2>1, <2>2, <1>0, <1>w DEF Counters
    <2>4. /\ used' \in Counters
          /\ used'[Account(r)]["export"] = used[Account(r)]["export"] + 1
          /\ \A b \in Accounts, l \in Kinds :
                b # Account(r) \/ l # "export" => used'[b][l] = used[b][l]
      BY <2>1, <1>0, <1>w DEF Counters
    <2>5. ExportsAreCharged'
      <3> SUFFICES ASSUME NEW a \in Accounts, Renewed(a, "export")
                   PROVE  credits'[a]["export"] + used'[a]["export"] = Initial(a, "export")
        BY DEF ExportsAreCharged
      <3>1. CASE a = Account(r)
        BY <3>1, <2>2, <2>3, <2>4, <1>0, <1>w, InitialIsCounter
      <3>2. CASE a # Account(r)
        BY <3>2, <2>3, <2>4, <1>0
      <3>3. QED
        BY <3>1, <3>2
    <2>6. /\ requests' \in [Requests -> Stages]
          /\ \A p \in Requests : requests'[p] = "served" => Kind(p) # "export"
      BY <2>1, MoveKeepsServed DEF Stages
    <2>7. QED
      BY <2>1, <2>3, <2>4, <2>5, <2>6, <1>0 DEF CreditsInv
  <1>3. ASSUME NEW r \in Requests, RefuseExport(r) PROVE CreditsInv'
    BY <1>3, <1>a DEF RefuseExport
  <1>4. ASSUME NEW r \in Requests, CheckCredits(r) PROVE CreditsInv'
    BY <1>4, <1>a DEF CheckCredits
  <1>5. ASSUME NEW r \in Requests, Serve(r) PROVE CreditsInv'
    <2>1. /\ Kind(r) # "export" /\ Move(r, "admitted", "served")
          /\ used' = [used EXCEPT ![Account(r)][Kind(r)] = used[Account(r)][Kind(r)] + 1]
          /\ UNCHANGED <<credits, job>>
      BY <1>5 DEF Serve
    <2>2. /\ used' \in Counters
          /\ \A b \in Accounts, l \in Kinds :
                b # Account(r) \/ l # Kind(r) => used'[b][l] = used[b][l]
      BY <2>1, <1>0, <1>w DEF Counters
    <2>3. /\ requests' \in [Requests -> Stages]
          /\ \A p \in Requests : requests'[p] = "served" => Kind(p) # "export"
      BY <2>1, MoveKeepsServed DEF Stages
    <2>4. QED
      BY <2>1, <2>2, <2>3, <1>0 DEF CreditsInv, ExportsAreCharged
  <1>6. ASSUME NEW r \in Requests, ChargeServed(r) PROVE CreditsInv'
    <2>1. /\ Move(r, "served", "charged") /\ requests[r] = "served"
          /\ credits' = [credits EXCEPT ![Account(r)][Kind(r)] =
                IF credits[Account(r)][Kind(r)] > 0 THEN credits[Account(r)][Kind(r)] - 1 ELSE 0]
          /\ UNCHANGED <<used, job>>
      BY <1>6 DEF ChargeServed, Move
    <2>2. Kind(r) # "export"
      BY <2>1 DEF CreditsInv
    <2>3. /\ credits' \in Counters
          /\ \A b \in Accounts, l \in Kinds :
                b # Account(r) \/ l # Kind(r) => credits'[b][l] = credits[b][l]
      <3>1. (IF credits[Account(r)][Kind(r)] > 0 THEN credits[Account(r)][Kind(r)] - 1 ELSE 0)
              \in Nat
        BY <1>0, <1>w
      <3>2. QED
        BY <3>1, <2>1, <1>0, <1>w DEF Counters
    <2>4. /\ requests' \in [Requests -> Stages]
          /\ \A p \in Requests : requests'[p] = "served" => Kind(p) # "export"
      BY <2>1, MoveKeepsServed DEF Stages
    <2>5. QED
      BY <2>1, <2>2, <2>3, <2>4, <1>0 DEF CreditsInv, ExportsAreCharged
  <1>7. CASE ReadDue
    <2>1. /\ job' = [open |-> TRUE, now |-> month, read |-> [a \in Due |-> credits[a]]]
          /\ UNCHANGED <<credits, used, requests>>
      BY <1>7 DEF ReadDue
    <2>2. /\ DOMAIN job'.read \subseteq Accounts
          /\ \A a \in DOMAIN job'.read : job'.read[a] \in [Kinds -> Nat]
      BY <2>1, <1>0 DEF Due, Counters
    <2>3. QED
      BY <2>1, <2>2 DEF CreditsInv, ExportsAreCharged
  <1>8. CASE CommitReset
    <2>1. /\ job.open /\ job'.open = FALSE /\ UNCHANGED requests
          /\ credits' = [a \in Accounts |-> IF a \notin DOMAIN job.read THEN credits[a] ELSE
                 [k \in Kinds |-> IF Renewed(a, k) THEN Initial(a, k) ELSE job.read[a][k]]]
          /\ used' = [a \in Accounts |-> [k \in Kinds |->
                 IF a \in DOMAIN job.read /\ Renewed(a, k) THEN 0 ELSE used[a][k]]]
      BY <1>8 DEF CommitReset, NoJob
    <2>2. credits' \in Counters /\ used' \in Counters
      <3>1. \A a \in Accounts : credits'[a] \in [Kinds -> Nat]
        BY <2>1, <1>0, InitialIsCounter DEF Counters
      <3>2. QED
        BY <3>1, <2>1, <1>0 DEF Counters
    <2>3. ExportsAreCharged'
      BY <2>1, <1>0, InitialIsCounter DEF ExportsAreCharged
    <2>4. QED
      BY <2>1, <2>2, <2>3 DEF CreditsInv
  <1>9. CASE AbortReset
    BY <1>9 DEF AbortReset, CreditsInv, ExportsAreCharged, NoJob
  <1>10. CASE Tick \/ UNCHANGED creditsVars
    BY <1>10 DEF Tick, creditsVars, CreditsInv, ExportsAreCharged
  <1>11. QED
    BY <1>1, <1>2, <1>3, <1>4, <1>5, <1>6, <1>7, <1>8, <1>9, <1>10 DEF CreditsNext, Serving

(* On a plan whose exports are renewed, what is left and what was exported *)
(* since make up the plan's credits, through overlapping exports, equal    *)
(* exports and resets.                                                     *)
THEOREM ExportsStayCharged == CreditsSpec => []ExportsAreCharged
  <1>1. CreditsInv => ExportsAreCharged
    BY DEF CreditsInv
  <1>2. QED
    BY <1>1, CreditsInitInv, CreditsNextInv, PTL DEF CreditsSpec
=============================================================================
