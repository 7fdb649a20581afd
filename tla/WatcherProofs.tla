---------------------------- MODULE WatcherProofs ----------------------------
(***************************************************************************)
(* The crash backoff bounds the loads of a lane, and no clear disturbs a   *)
(* lane that docker shows as starting, for every number of lanes and every *)
(* setting of the knobs.                                                   *)
(***************************************************************************)
EXTENDS WatcherProperties, TLAPS

(* A step of the lane l or of its operator; what a look leaves alone. *)
Moves(l) == LaneSteps(l) \/ LaneEnds(l) \/ Up(l) \/ ResetCounter(l)
places == <<uptime, at, upFor, blind, starts, held, gated, waited, loads>>

-----------------------------------------------------------------------------
(* Types. *)

LEMMA Limits ==
  /\ Stale \in Nat /\ Absent \in Nat /\ Stale < Absent
  /\ GateTimeout \in Nat /\ 0 \in 0..GateTimeout
  /\ 0 \in 0..Absent /\ Absent \in 0..Absent
  /\ StartPeriod \in Nat /\ 0 \in 0..StartPeriod
  /\ StartMax \in Nat \ {0} /\ Window \in Nat /\ 0 \in 0..Window /\ Window \in 0..Window
  /\ MaxFaults \in Nat /\ 0 \in 0..MaxFaults
  /\ MinInterval \in Nat /\ 0 \in 0..MinInterval /\ MinInterval \in 0..MinInterval
BY LanesAssumption, WatcherAssumption
DEF LanesAssumption, WatcherAssumption, Stale, Absent

LEMMA AgainIsAges ==
  ASSUME NEW n \in Nat \ {0}, NEW ages1 \in [1..n -> 0..Window]
  PROVE  /\ Again(ages1) \in [1..n -> 0..Window]
         /\ Again(ages1)[1] = 0
         /\ \A k \in 2..n : Again(ages1)[k] = ages1[k - 1]
BY Limits DEF Again

(* What is left of a list of ages is one.                                   *)
LEMMA WithoutIsAges ==
  ASSUME NEW n \in Nat, NEW ages1 \in [1..StartMax -> 0..Window]
  PROVE  Without(n, ages1) \in [1..StartMax -> 0..Window]
BY Limits DEF Without

LEMMA OlderIsAge ==
  ASSUME NEW last \in Nat, NEW age \in 0..last
  PROVE  Older(age, last) \in 0..last /\ Older(age, last) >= age
BY DEF Older

LEMMA InitType == Init => TypeOK
<1>. SUFFICES ASSUME Init PROVE TypeOK
  OBVIOUS
<1>1. LaneTypeOK
  <2>1. NoStarts \in [1..StartMax -> 0..Window] /\ NoLoads \in [1..(StartMax + 2) -> 0..Window]
    BY Limits DEF NoStarts, NoLoads
  <2>2. \A l \in Lanes : "boot" \in Places
    BY DEF Places, Running, Waiting
  <2>. QED BY <2>1, <2>2, Limits DEF Init, LaneInit, LaneTypeOK
<1>2. Idle \in Clears
  BY DEF Idle, Clears
<1>3. \A age \in {attempt, saved, cleared} : age \in 0..MinInterval
  BY Limits DEF Init
<1>4. polled \in BOOLEAN
  BY DEF Init
<1>. QED BY <1>1, <1>2, <1>3, <1>4 DEF Init, TypeOK

LEMMA DeathKeepsCounts ==
  ASSUME LaneTypeOK, NEW l \in Lanes, NEW place, Dies(l, place)
  PROVE  stuck' \in Nat /\ faults' \in 0..MaxFaults
<1>1. Need[l] \in Nat
  BY LanesAssumption DEF LanesAssumption
<1>2. stuck' = stuck \/ stuck' = stuck + Need[l]
  BY DEF Dies
<1>3. stuck \in Nat /\ faults \in 0..MaxFaults
  BY DEF LaneTypeOK
<1>4. faults < MaxFaults /\ faults' = faults + 1
  BY DEF Dies, Fault
<1>5. stuck' \in Nat
  BY <1>1, <1>2, <1>3
<1>. QED BY <1>3, <1>4, <1>5, Limits

LEMMA FaultKeepsCount == faults \in 0..MaxFaults /\ Fault => faults' \in 0..MaxFaults
BY Limits DEF Fault

(* The marker files stay what they are. *)
LEMMA MarkersKeepType ==
  ASSUME LaneTypeOK, NEW l \in Lanes
  PROVE  /\ MarkHeld(l) \/ DropHeld(l) \/ EndsBackoff(l) => held' \in SUBSET Lanes
         /\ MarkGated(l) \/ DropGated(l) => gated' \in [Lanes -> 0..Absent]
<1>1. MarkHeld(l) => held' \in SUBSET Lanes
  BY DEF LaneTypeOK, MarkHeld
<1>2. DropHeld(l) => held' \in SUBSET Lanes
  BY DEF LaneTypeOK, DropHeld
<1>3. EndsBackoff(l) => held' \in SUBSET Lanes
  BY <1>2 DEF LaneTypeOK, EndsBackoff
<1>4. MarkGated(l) => gated' \in [Lanes -> 0..Absent]
  BY Limits DEF LaneTypeOK, MarkGated
<1>5. DropGated(l) => gated' \in [Lanes -> 0..Absent]
  BY Limits DEF LaneTypeOK, DropGated
<1>. QED BY <1>1, <1>2, <1>3, <1>4, <1>5

(* So do the lists of ages. *)
LEMMA ListsKeepType ==
  ASSUME LaneTypeOK, NEW l \in Lanes
  PROVE  /\ [starts EXCEPT ![l] = Again(starts[l])] \in [Lanes -> [1..StartMax -> 0..Window]]
         /\ [loads EXCEPT ![l] = Again(loads[l])]
              \in [Lanes -> [1..(StartMax + 2) -> 0..Window]]
         /\ [starts EXCEPT ![l] = NoStarts] \in [Lanes -> [1..StartMax -> 0..Window]]
         /\ [loads EXCEPT ![l] = NoLoads] \in [Lanes -> [1..(StartMax + 2) -> 0..Window]]
         /\ LoseStarts(l) => /\ starts' \in [Lanes -> [1..StartMax -> 0..Window]]
                            /\ loads' \in [Lanes -> [1..(StartMax + 2) -> 0..Window]]
<1>. USE DEF LaneTypeOK
<1>1. starts[l] \in [1..StartMax -> 0..Window] /\ loads[l] \in [1..(StartMax + 2) -> 0..Window]
  OBVIOUS
<1>2. Again(starts[l]) \in [1..StartMax -> 0..Window]
  BY <1>1, AgainIsAges, Limits
<1>3. Again(loads[l]) \in [1..(StartMax + 2) -> 0..Window]
  <2>. DEFINE n == StartMax + 2
  <2>1. n \in Nat \ {0} /\ loads[l] \in [1..n -> 0..Window]
    BY <1>1, Limits
  <2>. HIDE DEF n
  <2>2. Again(loads[l]) \in [1..n -> 0..Window]
    BY <2>1, AgainIsAges
  <2>. QED BY <2>2 DEF n
<1>4. NoStarts \in [1..StartMax -> 0..Window] /\ NoLoads \in [1..(StartMax + 2) -> 0..Window]
  BY Limits DEF NoStarts, NoLoads
<1>5. ASSUME NEW n \in 0..StartMax
      PROVE  [starts EXCEPT ![l] = Without(n, starts[l])] \in [Lanes -> [1..StartMax -> 0..Window]]
  <2>1. n \in Nat
    BY Limits
  <2>2. Without(n, starts[l]) \in [1..StartMax -> 0..Window]
    BY Zenon, <1>1, <2>1, WithoutIsAges
  <2>. QED BY <2>2
<1>6. [starts EXCEPT ![l] = NoStarts] \in [Lanes -> [1..StartMax -> 0..Window]]
  BY <1>4
<1>7. [loads EXCEPT ![l] = NoLoads] \in [Lanes -> [1..(StartMax + 2) -> 0..Window]]
  BY <1>4
<1>8. [starts EXCEPT ![l] = Again(starts[l])] \in [Lanes -> [1..StartMax -> 0..Window]]
  BY <1>2
<1>9. [loads EXCEPT ![l] = Again(loads[l])] \in [Lanes -> [1..(StartMax + 2) -> 0..Window]]
  BY <1>3
<1>10. LoseStarts(l) => /\ starts' \in [Lanes -> [1..StartMax -> 0..Window]]
                       /\ loads' \in [Lanes -> [1..(StartMax + 2) -> 0..Window]]
  BY <1>5, <1>7 DEF LoseStarts
<1>. QED BY <1>6, <1>7, <1>8, <1>9, <1>10

(* A step of a lane keeps the types of the lanes. *)
LEMMA MoveKeepsLaneType ==
  ASSUME LaneTypeOK, NEW l \in Lanes, Moves(l)
  PROVE  LaneTypeOK'
<1>. USE Limits DEF LaneTypeOK, Go, Places, Running, Waiting, Loading
<1>1. CASE NoBootHold(l)
  BY <1>1 DEF NoBootHold
<1>2. CASE BootHold(l) \/ BootRelease(l)
  BY <1>2, MarkersKeepType DEF BootHold, BootRelease
<1>3. CASE Backoff(l)
  BY <1>3, MarkersKeepType DEF Backoff
<1>4. CASE RecordStart(l)
  BY <1>4, MarkersKeepType, ListsKeepType DEF RecordStart
<1>5. CASE SkipCounter(l)
  BY <1>5, ListsKeepType DEF SkipCounter
<1>6. CASE RecordFails(l)
  BY <1>6, MarkersKeepType, ListsKeepType, FaultKeepsCount DEF RecordFails
<1>7. CASE WaitForMemory(l)
  BY <1>7, MarkersKeepType DEF WaitForMemory
<1>8. CASE PassGate(l)
  BY <1>8, MarkersKeepType, ListsKeepType DEF PassGate, Exec
<1>9. CASE SkipGate(l)
  BY <1>9, ListsKeepType, FaultKeepsCount DEF SkipGate, Exec
<1>10. CASE LeaveGate(l)
  BY <1>10, MarkersKeepType, ListsKeepType, FaultKeepsCount DEF LeaveGate, Exec
<1>11. CASE GiveUp(l)
  BY <1>11, MarkersKeepType DEF GiveUp
<1>12. CASE Allocate(l)
  BY <1>12 DEF Allocate
<1>13. CASE Serve(l)
  BY <1>13 DEF Serve
<1>14. CASE Restart(l) \/ Up(l)
  <2>1. /\ at' = [at EXCEPT ![l] = "boot"] /\ upFor' = [upFor EXCEPT ![l] = 0]
        /\ UNCHANGED <<uptime, starts, gated, waited, stuck, loads>>
    BY <1>14 DEF Restart, Up, Begin
  <2>2. blind' \in SUBSET Lanes /\ held' \in SUBSET Lanes /\ faults' \in 0..MaxFaults
    BY <1>14, FaultKeepsCount DEF Restart, Up, Begin
  <2>. QED BY <2>1, <2>2
<1>15. CASE Crash(l)
  <2>1. PICK place \in {"exited", "stopped"} : Dies(l, place)
    BY <1>15 DEF Crash
  <2>. QED BY <1>15, <2>1, DeathKeepsCounts DEF Crash, Dies
<1>16. CASE CrashInRewrite(l)
  <2>1. PICK place \in {"exited", "stopped"} : Dies(l, place)
    BY <1>16 DEF CrashInRewrite
  <2>2. /\ held' \in SUBSET Lanes
        /\ starts' \in [Lanes -> [1..StartMax -> 0..Window]]
        /\ loads' \in [Lanes -> [1..(StartMax + 2) -> 0..Window]]
    BY <1>16, MarkersKeepType, ListsKeepType DEF CrashInRewrite
  <2>3. stuck' \in Nat /\ faults' \in 0..MaxFaults
    BY <2>1, DeathKeepsCounts
  <2>4. at' = [at EXCEPT ![l] = place] /\ UNCHANGED <<uptime, upFor, blind, waited, gated>>
    BY <1>16, <2>1 DEF CrashInRewrite, Dies
  <2>. QED BY <2>2, <2>3, <2>4
<1>17. CASE Stop(l)
  <2>1. held' \in SUBSET Lanes /\ gated' \in [Lanes -> 0..Absent]
    BY <1>17, MarkersKeepType DEF Stop
  <2>2. stuck' \in Nat /\ faults' \in 0..MaxFaults
    BY <1>17, DeathKeepsCounts DEF Stop
  <2>3. /\ at' = [at EXCEPT ![l] = "stopped"]
        /\ UNCHANGED <<uptime, upFor, blind, waited, starts, loads>>
    BY <1>17 DEF Stop, Dies
  <2>. QED BY <2>1, <2>2, <2>3
<1>18. CASE ResetCounter(l)
  BY <1>18, ListsKeepType DEF ResetCounter
<1>. QED
  BY <1>1, <1>2, <1>3, <1>4, <1>5, <1>6, <1>7, <1>8, <1>9, <1>10, <1>11, <1>12, <1>13, <1>14,
     <1>15, <1>16, <1>17, <1>18
  DEF Moves, LaneSteps, LaneEnds, Wrapper

LEMMA ElapseKeepsLaneType ==
  ASSUME LaneTypeOK, LaneElapse
  PROVE  LaneTypeOK'
<1>. USE Limits, OlderIsAge DEF LaneTypeOK, LaneElapse
<1>1. uptime' \in Nat
  OBVIOUS
<1>2. upFor' \in [Lanes -> 0..StartPeriod]
  OBVIOUS
<1>3. starts' \in [Lanes -> [1..StartMax -> 0..Window]]
  <2>1. ASSUME NEW l \in Lanes, NEW k \in 1..StartMax
        PROVE  Older(starts[l][k], Window) \in 0..Window
    <3>1. starts[l][k] \in 0..Window
      OBVIOUS
    <3>. QED BY ONLY <3>1, Limits, OlderIsAge
  <2>. QED BY <2>1
<1>4. loads' \in [Lanes -> [1..(StartMax + 2) -> 0..Window]]
  OBVIOUS
<1>5. gated' \in [Lanes -> 0..Absent]
  <2>1. ASSUME NEW l \in Lanes, gated[l] # Absent PROVE gated[l] \in 0..Stale
    <3>1. gated[l] \in 0..Absent
      OBVIOUS
    <3>. QED BY ONLY <3>1, <2>1, Limits DEF Absent
  <2>2. ASSUME NEW l \in Lanes, gated[l] # Absent
        PROVE  Older(gated[l], Stale) \in 0..Absent
    <3>1. Older(gated[l], Stale) \in 0..Stale
      BY <2>1, <2>2
    <3>. QED BY <3>1
  <2>. QED BY <2>2
<1>6. waited' \in [Lanes -> 0..GateTimeout]
  <2>1. ASSUME NEW l \in Lanes PROVE Older(waited[l], GateTimeout) \in 0..GateTimeout
    <3>1. waited[l] \in 0..GateTimeout
      OBVIOUS
    <3>. QED BY ONLY <3>1, Limits, OlderIsAge
  <2>. QED BY <2>1
<1>. QED BY <1>1, <1>2, <1>3, <1>4, <1>5, <1>6

-----------------------------------------------------------------------------
(* A clear that looks at the lanes is a clear. *)
LEMMA LooksAreClears ==
  /\ Idle \in Clears
  /\ Health \in Known
  /\ \A c \in Clears, S \in SUBSET Lanes : [c EXCEPT !.loading = S] \in Clears
  /\ \A c \in Clears, h \in Known : [c EXCEPT !.at = "held", !.health = h] \in Clears
  /\ \A c \in Clears, h \in Known : [c EXCEPT !.at = "clear", !.health = h] \in Clears
  /\ \A c \in Clears, p \in {"held", "clear", "save"} : [c EXCEPT !.at = p] \in Clears
<1>1. Health \in Known
  BY DEF Health, Known, InStartPeriod
<1>. QED BY <1>1 DEF Idle, Clears, Known

(* What the watcher and the verbs do to the lanes. *)
LEMMA LooksKeepLanes ==
  ASSUME LaneTypeOK, Watch \/ WatcherRestarts \/ Verb
  PROVE  /\ UNCHANGED places
         /\ stuck' \in Nat /\ faults' \in 0..MaxFaults
BY SMTT(30), Limits
DEF LaneTypeOK, Watch, WatcherRestarts, Verb, ScanMarkers, ReadHealth, Decide, Clear,
    SaveState, VerbReadsMarkers, VerbDecides, VerbClears, Drop, Fault, laneVars, lanes, places

(* They leave the clears clears, and the ages ages. *)
LEMMA LooksKeepClears ==
  ASSUME TypeOK, Watch \/ WatcherRestarts \/ Verb
  PROVE  /\ watcher' \in Clears /\ verb' \in Clears
         /\ attempt' \in 0..MinInterval /\ saved' \in 0..MinInterval
         /\ cleared' \in 0..MinInterval
         /\ polled' \in BOOLEAN
<1>. USE LooksAreClears DEF TypeOK
<1>1. CASE ScanMarkers
  <2>1. [Idle EXCEPT !.at = "health", !.present = Marked,
           !.young = {l \in Marked : gated[l] < Stale}, !.loading = LoadingLanes] \in Clears
    BY DEF Idle, Clears, Marked, LoadingLanes
  <2>2. watcher' \in Clears /\ polled' \in BOOLEAN
    BY <1>1, <2>1 DEF ScanMarkers
  <2>. QED BY <1>1, <2>2 DEF ScanMarkers, ages
<1>2. CASE ReadHealth
  <2>1. /\ [watcher EXCEPT !.at = "held", !.health = Health] \in Clears
        /\ [watcher EXCEPT !.at = "held"] \in Clears
    OBVIOUS
  <2>2. watcher' \in Clears
    <3>. HIDE DEF TypeOK
    <3>. QED BY <1>2, <2>1 DEF ReadHealth
  <2>. QED BY <1>2, <2>2 DEF ReadHealth, ages
<1>3. CASE Decide
  BY <1>3 DEF Decide, ages
<1>4. CASE Clear
  <2>1. [Idle EXCEPT !.at = "save"] \in Clears
    OBVIOUS
  <2>2. watcher' \in Clears /\ attempt' = 0 /\ cleared' = 0
    BY <1>4, <2>1 DEF Clear
  <2>. QED BY <1>4, <2>2, Limits DEF Clear
<1>5. CASE SaveState
  BY <1>5 DEF SaveState
<1>6. CASE WatcherRestarts
  BY <1>6 DEF WatcherRestarts
<1>7. CASE VerbReadsMarkers
  <2>1. [Idle EXCEPT !.at = "health", !.present = Marked \cup held,
           !.loading = LoadingLanes] \in Clears
    BY DEF Idle, Clears, Marked, LoadingLanes, LaneTypeOK
  <2>2. verb' \in Clears
    BY <1>7, <2>1 DEF VerbReadsMarkers
  <2>. QED BY <1>7, <2>2 DEF VerbReadsMarkers, ages
<1>8. CASE VerbDecides
  <2>1. /\ [verb EXCEPT !.at = "clear", !.health = Health] \in Clears
        /\ [verb EXCEPT !.at = "clear"] \in Clears
        /\ Idle \in Clears
    OBVIOUS
  <2>2. verb' \in Clears
    <3>. HIDE DEF TypeOK
    <3>. QED BY <1>8, <2>1 DEF VerbDecides
  <2>. QED BY <1>8, <2>2 DEF VerbDecides, ages
<1>9. CASE VerbClears
  BY <1>9 DEF VerbClears, ages
<1>. QED BY <1>1, <1>2, <1>3, <1>4, <1>5, <1>6, <1>7, <1>8, <1>9 DEF Watch, Verb

LEMMA MovesAreSteps ==
  ASSUME NEW l \in Lanes, LaneRuns(l) \/ LaneFails(l) \/ OperatorActs(l)
  PROVE  Moves(l) /\ LaneStep(TRUE)
BY DEF LaneRuns, LaneFails, OperatorActs, LaneStep, Moves

LEMMA StepKeepsType == TypeOK /\ [Next]_vars => TypeOK'
<1>. SUFFICES ASSUME TypeOK, [Next]_vars PROVE TypeOK'
  OBVIOUS
<1>1. ASSUME NEW l \in Lanes, LaneRuns(l) \/ LaneFails(l) \/ OperatorActs(l)
      PROVE  TypeOK'
  <2>1. Moves(l) /\ LaneStep(TRUE)
    BY <1>1, MovesAreSteps
  <2>2. LaneTypeOK'
    BY <2>1, MoveKeepsLaneType DEF TypeOK
  <2>3. watcher' \in Clears /\ verb' \in Clears
    BY <2>1, LooksAreClears DEF LaneStep, TypeOK, LoadingLanes
  <2>. QED BY <2>1, <2>2, <2>3 DEF LaneStep, TypeOK, ages
<1>2. CASE Watch \/ WatcherRestarts \/ Verb
  BY <1>2, LooksKeepLanes, LooksKeepClears DEF TypeOK, LaneTypeOK, places
<1>3. CASE Elapse
  <2>1. LaneTypeOK'
    BY <1>3, ElapseKeepsLaneType DEF Elapse, TypeOK
  <2>2. /\ attempt' \in 0..MinInterval /\ saved' \in 0..MinInterval
        /\ cleared' \in 0..MinInterval
    BY <1>3, OlderIsAge, Limits DEF Elapse, TypeOK
  <2>. QED BY <1>3, <2>1, <2>2 DEF Elapse, TypeOK
<1>4. CASE UNCHANGED vars
  BY <1>4 DEF vars, laneVars, ages, TypeOK, LaneTypeOK
<1>. QED BY <1>1, <1>2, <1>3, <1>4 DEF Next

(* The variables of the lanes and of the clears keep their types. *)
THEOREM TypeCorrect == Spec => []TypeOK
BY InitType, StepKeepsType, PTL DEF Spec

-----------------------------------------------------------------------------
(* The crash backoff.  Every load follows a start of its own, which was     *)
(* recorded: the load before the k last ones is older than the k-th last    *)
(* start, and while the last start waits at the gate the k-th last load is. *)
Counted(l) ==
  /\ \A k \in 1..(StartMax + 1) : loads[l][k + 1] >= loads[l][k]
  /\ \A k \in 1..StartMax : loads[l][k + 1] >= starts[l][k]
  /\ at[l] \in {"gate", "gated"} =>
       /\ \A k \in 1..StartMax : loads[l][k] >= starts[l][k]
       /\ loads[l][StartMax + 1] = Window
  /\ loads[l][StartMax + 2] = Window

BackoffInv == \A l \in Lanes : Counted(l)

LEMMA CountFacts ==
  ASSUME LaneTypeOK, NEW l \in Lanes
  PROVE  /\ \A k \in 1..StartMax : starts[l][k] \in 0..Window
         /\ \A k \in 1..(StartMax + 2) : loads[l][k] \in 0..Window
         /\ starts[l] \in [1..StartMax -> 0..Window]
         /\ loads[l] \in [1..(StartMax + 2) -> 0..Window]
         /\ DOMAIN starts[l] = 1..StartMax
         /\ DOMAIN loads[l] = 1..(StartMax + 2)
BY DEF LaneTypeOK

LEMMA GeqIsTransitive == \A x, y, z \in Nat : x >= y /\ y >= z => x >= z
OBVIOUS

(* A start is recorded only when the one StartMax before it has aged out.   *)
LEMMA RecordKeepsCount ==
  ASSUME LaneTypeOK, NEW l \in Lanes, Counted(l), RecordStart(l)
  PROVE  Counted(l)'
<1>. USE Limits, CountFacts
<1>1. /\ starts'[l] = Again(starts[l]) /\ loads' = loads
  BY DEF RecordStart, LaneTypeOK
<1>2. starts[l][StartMax] = Window
  BY SMTT(30) DEF RecordStart, Proceeds, StartsTooOften
<1>3. loads[l][StartMax + 1] = Window
  <2>1. StartMax \in 1..StartMax /\ StartMax + 1 \in 1..(StartMax + 2)
    OBVIOUS
  <2>2. loads[l][StartMax + 1] >= starts[l][StartMax]
    BY <2>1 DEF Counted
  <2>. QED BY <2>1, <2>2, <1>2
<1>4. ASSUME NEW k \in 1..StartMax PROVE loads[l][k] >= starts'[l][k]
  <2>1. starts'[l][k] = IF k = 1 THEN 0 ELSE starts[l][k - 1]
    BY <1>1 DEF Again
  <2>2. CASE k = 1
    BY <2>1, <2>2
  <2>3. CASE k # 1
    <3>1. k - 1 \in 1..StartMax /\ (k - 1) + 1 = k
      BY <2>3
    <3>2. loads[l][(k - 1) + 1] >= starts[l][k - 1]
      BY <3>1 DEF Counted
    <3>3. loads[l][k] >= starts[l][k - 1]
      BY <3>1, <3>2
    <3>. QED BY <3>3, <2>1, <2>3
  <2>. QED BY <2>2, <2>3
<1>5. ASSUME NEW k \in 1..StartMax PROVE loads[l][k + 1] >= starts'[l][k]
  <2>1. starts'[l][k] = IF k = 1 THEN 0 ELSE starts[l][k - 1]
    BY <1>1 DEF Again
  <2>2. CASE k = 1
    BY <2>1, <2>2
  <2>3. CASE k # 1
    <3>1. k - 1 \in 1..StartMax /\ (k - 1) + 1 = k
      BY <2>3
    <3>2. loads[l][(k - 1) + 1] >= starts[l][k - 1]
      BY <3>1 DEF Counted
    <3>3. k \in 1..(StartMax + 1) /\ k + 1 \in 1..(StartMax + 2) /\ k \in 1..(StartMax + 2)
      OBVIOUS
    <3>4. loads[l][k + 1] >= loads[l][k]
      BY <3>3 DEF Counted
    <3>5. loads[l][k] >= starts[l][k - 1]
      BY <3>1, <3>2
    <3>6. loads[l][k + 1] \in Nat /\ loads[l][k] \in Nat /\ starts[l][k - 1] \in Nat
      BY SMTT(30), <3>1, <3>3
    <3>7. loads[l][k + 1] >= starts[l][k - 1]
      BY <3>4, <3>5, <3>6, GeqIsTransitive
    <3>. QED BY <3>7, <2>1, <2>3
  <2>. QED BY <2>2, <2>3
<1>6. loads'[l] = loads[l] /\ at'[l] = "gate"
  BY <1>1 DEF RecordStart, Go, LaneTypeOK
<1>. QED BY <1>1, <1>3, <1>4, <1>5, <1>6 DEF Counted

(* A load takes the start that waited, with its gate or without. *)
LEMMA LoadKeepsCount ==
  ASSUME LaneTypeOK, NEW l \in Lanes, Counted(l), PassGate(l) \/ SkipGate(l) \/ LeaveGate(l)
  PROVE  Counted(l)'
<1>. USE Limits, CountFacts
<1>1. /\ loads'[l] = Again(loads[l]) /\ starts' = starts /\ at'[l] = "load"
  BY DEF PassGate, SkipGate, LeaveGate, Exec, Go, LaneTypeOK
<1>2. \A k \in 1..(StartMax + 2) : loads'[l][k] = IF k = 1 THEN 0 ELSE loads[l][k - 1]
  BY <1>1 DEF Again
<1>3. \A k \in 1..(StartMax + 1) : loads'[l][k + 1] = loads[l][k]
  BY <1>2
<1>4. at[l] \in {"gate", "gated"}
  BY DEF PassGate, SkipGate, LeaveGate
<1>5. loads'[l][StartMax + 2] = Window
  <2>1. StartMax + 1 \in 1..(StartMax + 1) /\ (StartMax + 1) + 1 = StartMax + 2
    OBVIOUS
  <2>2. loads'[l][(StartMax + 1) + 1] = loads[l][StartMax + 1]
    BY <2>1, <1>3
  <2>. QED BY <2>1, <2>2, <1>4 DEF Counted
<1>6. ASSUME NEW k \in 1..StartMax PROVE loads'[l][k + 1] >= starts'[l][k]
  <2>1. k \in 1..(StartMax + 1)
    OBVIOUS
  <2>2. loads[l][k] >= starts[l][k]
    BY <1>4 DEF Counted
  <2>. QED BY <2>1, <2>2, <1>1, <1>3
<1>7. ASSUME NEW k \in 1..(StartMax + 1) PROVE loads'[l][k + 1] >= loads'[l][k]
  <2>1. CASE k = 1
    <3>1. 1 \in 1..(StartMax + 1) /\ 1 \in 1..(StartMax + 2)
      OBVIOUS
    <3>2. loads'[l][1 + 1] = loads[l][1] /\ loads'[l][1] = 0
      BY <3>1, <1>2, <1>3
    <3>3. loads[l][1] \in Nat
      BY <3>1 DEF LaneTypeOK
    <3>. QED BY <2>1, <3>2, <3>3
  <2>2. CASE k # 1
    <3>1. k - 1 \in 1..(StartMax + 1) /\ (k - 1) + 1 = k
      BY <2>2
    <3>2. loads[l][(k - 1) + 1] >= loads[l][k - 1]
      BY <3>1 DEF Counted
    <3>. QED BY <3>1, <3>2, <1>2, <1>3, <2>2
  <2>. QED BY <2>1, <2>2
<1>. QED BY <1>1, <1>5, <1>6, <1>7 DEF Counted

LEMMA OlderIsMonotone ==
  ASSUME NEW x \in 0..Window, NEW y \in 0..Window, x >= y
  PROVE  Older(x, Window) >= Older(y, Window) /\ Older(Window, Window) = Window
BY Limits DEF Older

LEMMA ElapseKeepsCount ==
  ASSUME LaneTypeOK, NEW l \in Lanes, Counted(l), LaneElapse
  PROVE  Counted(l)'
<1>. USE Limits, CountFacts
<1>1. /\ \A k \in 1..StartMax : starts'[l][k] = Older(starts[l][k], Window)
      /\ \A k \in 1..(StartMax + 2) : loads'[l][k] = Older(loads[l][k], Window)
      /\ at' = at
  BY DEF LaneElapse
<1>2. ASSUME NEW k \in 1..(StartMax + 1) PROVE loads'[l][k + 1] >= loads'[l][k]
  <2>1. loads[l][k + 1] >= loads[l][k] /\ k + 1 \in 1..(StartMax + 2)
    BY DEF Counted
  <2>. QED BY SMTT(30), <2>1, <1>1, OlderIsMonotone
<1>3. ASSUME NEW k \in 1..StartMax PROVE loads'[l][k + 1] >= starts'[l][k]
  <2>1. loads[l][k + 1] >= starts[l][k] /\ k + 1 \in 1..(StartMax + 2)
    BY SMTT(30) DEF Counted
  <2>. QED BY <2>1, <1>1, OlderIsMonotone
<1>4. ASSUME at'[l] \in {"gate", "gated"}
      PROVE  /\ \A k \in 1..StartMax : loads'[l][k] >= starts'[l][k]
             /\ loads'[l][StartMax + 1] = Window
  <2>1. loads[l][StartMax + 1] = Window
    BY <1>1, <1>4 DEF Counted
  <2>2. ASSUME NEW k \in 1..StartMax PROVE loads'[l][k] >= starts'[l][k]
    <3>1. loads[l][k] >= starts[l][k]
      BY <1>1, <1>4 DEF Counted
    <3>2. /\ starts'[l][k] = Older(starts[l][k], Window)
          /\ loads'[l][k] = Older(loads[l][k], Window)
          /\ starts[l][k] \in 0..Window /\ loads[l][k] \in 0..Window
      BY <1>1
    <3>. HIDE Limits, CountFacts
    <3>. QED BY <3>1, <3>2, OlderIsMonotone
  <2>. QED BY <2>1, <2>2, <1>1, OlderIsMonotone
<1>5. loads'[l][StartMax + 2] = Window
  BY SMTT(30), <1>1, OlderIsMonotone DEF Counted
<1>. QED BY <1>2, <1>3, <1>4, <1>5 DEF Counted

(* A counter that lost a start has no loads to answer for. *)
Loses(l) == SkipCounter(l) \/ RecordFails(l) \/ CrashInRewrite(l) \/ ResetCounter(l)

LEMMA LossKeepsCount ==
  ASSUME LaneTypeOK, LaneTypeOK', NEW l \in Lanes, Loses(l)
  PROVE  Counted(l)'
<1>1. \A k \in 1..(StartMax + 2) : loads'[l][k] = Window
  <2>1. loads' = [loads EXCEPT ![l] = NoLoads]
    BY DEF Loses, SkipCounter, RecordFails, CrashInRewrite, ResetCounter, LoseStarts
  <2>2. loads'[l] = NoLoads
    BY <2>1 DEF LaneTypeOK
  <2>. QED BY <2>2 DEF NoLoads
<1>2. \A k \in 1..StartMax : starts'[l][k] \in 0..Window
  <2>1. starts' \in [Lanes -> [1..StartMax -> 0..Window]]
    BY DEF LaneTypeOK
  <2>2. starts'[l] \in [1..StartMax -> 0..Window]
    BY Zenon, <2>1
  <2>. QED BY Zenon, <2>2
<1>3. /\ \A k \in 1..StartMax : k \in 1..(StartMax + 2) /\ k + 1 \in 1..(StartMax + 2)
      /\ \A k \in 1..(StartMax + 1) : k \in 1..(StartMax + 2) /\ k + 1 \in 1..(StartMax + 2)
      /\ StartMax + 1 \in 1..(StartMax + 2) /\ StartMax + 2 \in 1..(StartMax + 2)
  BY Limits
<1>. QED BY <1>1, <1>2, <1>3, Limits DEF Counted

(* A step of another lane, or one that neither records nor loads. *)
LEMMA OtherMoveKeepsCount ==
  ASSUME LaneTypeOK, NEW l \in Lanes, NEW m \in Lanes, Counted(l), Moves(m),
         ~(l = m /\ (RecordStart(m) \/ PassGate(m) \/ SkipGate(m) \/ LeaveGate(m) \/ Loses(m)))
  PROVE  Counted(l)'
<1>1. starts'[l] = starts[l] /\ loads'[l] = loads[l]
  BY DEF LaneTypeOK, Moves, LaneSteps, LaneEnds, Wrapper, NoBootHold, BootHold, BootRelease,
      Backoff, RecordStart, SkipCounter, RecordFails, LoseStarts, WaitForMemory, PassGate,
      SkipGate, LeaveGate, Exec, GiveUp, Allocate, Serve, Restart, Up, Begin, Crash,
      CrashInRewrite, Stop, Dies, ResetCounter, Loses
<1>2. at'[l] \in {"gate", "gated"} => at[l] \in {"gate", "gated"}
  BY DEF LaneTypeOK, Moves, LaneSteps, LaneEnds, Wrapper, NoBootHold, BootHold, BootRelease,
      Backoff, RecordStart, SkipCounter, RecordFails, WaitForMemory, PassGate,
      SkipGate, LeaveGate, Exec, GiveUp, Allocate, Serve, Restart, Up, Begin, Crash,
      CrashInRewrite, Stop, Dies, ResetCounter, Loses, Go
<1>. QED BY <1>1, <1>2 DEF Counted

LEMMA InitBackoff == Init => BackoffInv
<1>. SUFFICES ASSUME Init, NEW l \in Lanes PROVE Counted(l)
  BY DEF BackoffInv
<1>1. /\ \A k \in 1..StartMax : starts[l][k] = Window
      /\ \A k \in 1..(StartMax + 2) : loads[l][k] = Window
      /\ at[l] = "boot"
  BY DEF Init, LaneInit, NoStarts, NoLoads
<1>2. /\ \A k \in 1..(StartMax + 1) : k \in 1..(StartMax + 2) /\ k + 1 \in 1..(StartMax + 2)
      /\ StartMax + 2 \in 1..(StartMax + 2)
  BY Limits
<1>. QED BY <1>1, <1>2, Limits DEF Counted

LEMMA StepKeepsBackoff == TypeOK /\ BackoffInv /\ [Next]_vars => BackoffInv'
<1>. SUFFICES ASSUME TypeOK, BackoffInv, [Next]_vars, NEW l \in Lanes
              PROVE  Counted(l)'
  BY DEF BackoffInv
<1>1. LaneTypeOK /\ Counted(l)
  BY DEF TypeOK, BackoffInv
<1>2. ASSUME NEW m \in Lanes, LaneRuns(m) \/ LaneFails(m) \/ OperatorActs(m)
      PROVE  Counted(l)'
  <2>1. LaneTypeOK'
    BY <1>1, <1>2, MovesAreSteps, MoveKeepsLaneType
  <2>. QED BY <1>1, <1>2, <2>1, MovesAreSteps, RecordKeepsCount, LoadKeepsCount,
              LossKeepsCount, OtherMoveKeepsCount
<1>3. CASE Watch \/ WatcherRestarts \/ Verb
  BY <1>1, <1>3, LooksKeepLanes DEF places, Counted
<1>4. CASE Elapse
  BY <1>1, <1>4, ElapseKeepsCount DEF Elapse
<1>5. CASE UNCHANGED vars
  BY <1>1, <1>5 DEF vars, laneVars, Counted
<1>. QED BY <1>2, <1>3, <1>4, <1>5 DEF Next

(* A lane loads at most StartMax + 1 times in a window since its counter     *)
(* last lost a start, whatever is lost of it and whenever.                  *)
THEOREM LoadsAreBounded == Spec => []LoadsBounded
<1>1. BackoffInv => LoadsBounded
  BY DEF BackoffInv, Counted, LoadsBounded
<1>. QED BY InitType, StepKeepsType, InitBackoff, StepKeepsBackoff, <1>1, PTL DEF Spec
-----------------------------------------------------------------------------
(* The guard.  What a lane that loads has no marker for, no clear mistakes  *)
(* for waiting, but for a run that leaves the markers alone; and a lane     *)
(* that goes on loading only grows out of docker's start period.            *)
Unmarked(l) ==
  /\ gated[l] # Absent => at[l] \notin {"load", "alloc", "serve"} \/ l \in blind
  /\ l \in held => at[l] \in {"hold", "backoff", "exited", "stopped"} \/ l \in blind

Young == InStartPeriod \ blind

Looks(clear) ==
  /\ clear.loading \subseteq LoadingLanes
  /\ (clear.loading \ blind) \cap clear.present = {}
  /\ clear.at = "health" => ~clear.health.read
  /\ clear.at = "held" /\ clear.health.read =>
       clear.loading \cap Young \subseteq clear.health.starting
  /\ clear.at = "clear" /\ clear.health.read => clear.loading \cap Young = {}

GuardInv == (\A l \in Lanes : Unmarked(l)) /\ Looks(watcher) /\ Looks(verb)
LEMMA InitGuard == Init => GuardInv
BY DEF Init, LaneInit, GuardInv, Unmarked, Looks, Idle, Unknown

(* The markers follow the place of the lane. *)
LEMMA MoveKeepsUnmarked ==
  ASSUME LaneTypeOK, NEW l \in Lanes, NEW m \in Lanes, Moves(m), Unmarked(l)
  PROVE  Unmarked(l)'
<1>. USE DEF LaneTypeOK, Unmarked, Go, MarkHeld, DropHeld, EndsBackoff, MarkGated, DropGated
<1>1. CASE NoBootHold(m) \/ BootHold(m) \/ BootRelease(m)
  BY <1>1 DEF NoBootHold, BootHold, BootRelease
<1>2. CASE Backoff(m)
  BY <1>2 DEF Backoff
<1>3. CASE RecordStart(m) \/ SkipCounter(m) \/ RecordFails(m)
  BY <1>3 DEF RecordStart, SkipCounter, RecordFails, Proceeds
<1>4. CASE WaitForMemory(m)
  BY <1>4 DEF WaitForMemory
<1>5. CASE PassGate(m)
  BY <1>5 DEF PassGate, Exec
<1>6. CASE SkipGate(m)
  BY <1>6 DEF SkipGate, Exec
<1>7. CASE LeaveGate(m) \/ GiveUp(m)
  BY <1>7 DEF LeaveGate, GiveUp, Exec
<1>8. CASE Allocate(m) \/ Serve(m)
  BY <1>8 DEF Allocate, Serve
<1>9. CASE Restart(m) \/ Up(m)
  BY <1>9 DEF Restart, Up, Begin
<1>10. CASE Crash(m)
  BY <1>10 DEF Crash, Dies
<1>11. CASE CrashInRewrite(m)
  BY <1>11 DEF CrashInRewrite, Proceeds, Dies
<1>12. CASE Stop(m)
  BY <1>12 DEF Stop, Dies
<1>13. CASE ResetCounter(m)
  BY <1>13 DEF ResetCounter
<1>. QED
  BY <1>1, <1>2, <1>3, <1>4, <1>5, <1>6, <1>7, <1>8, <1>9, <1>10, <1>11, <1>12, <1>13
  DEF Moves, LaneSteps, LaneEnds, Wrapper

(* A lane that loads on through a step is as young before it as after it,   *)
(* and its run leaves the files alone before it if it does after it.        *)
LEMMA LoadingLanesAge ==
  ASSUME LaneTypeOK, NEW m \in Lanes, Moves(m)
  PROVE  /\ LoadingLanes \cap LoadingLanes' \cap Young' \subseteq Young
         /\ (LoadingLanes \cap LoadingLanes') \ blind' \subseteq Lanes \ blind
<1>1. ASSUME NEW l \in Lanes, at[l] \in Loading, at'[l] \in Loading
      PROVE  upFor'[l] = upFor[l] /\ (l \in blind => l \in blind')
  BY <1>1 DEF Moves, LaneSteps, LaneEnds, Wrapper, NoBootHold, BootHold, BootRelease, Backoff,
         RecordStart, SkipCounter, RecordFails, WaitForMemory, PassGate, SkipGate, LeaveGate,
         Exec, GiveUp, Allocate, Serve, Restart, Up, Begin, Crash, CrashInRewrite, Stop,
         Dies, ResetCounter, Go, LaneTypeOK, Loading
<1>. QED BY <1>1 DEF LoadingLanes, InStartPeriod, Young, Running, Loading

(* A clear keeps its sight of the lanes while they move ... *)
LEMMA MoveKeepsLooks ==
  ASSUME LaneTypeOK, NEW m \in Lanes, Moves(m), NEW c \in Clears, Looks(c),
         NEW d, d = [c EXCEPT !.loading = c.loading \cap LoadingLanes'],
         LoadingLanes' \subseteq Lanes
  PROVE  /\ d.loading \subseteq LoadingLanes'
         /\ (d.loading \ blind') \cap d.present = {}
         /\ d.at = "health" => ~d.health.read
         /\ d.at = "held" /\ d.health.read =>
              d.loading \cap Young' \subseteq d.health.starting
         /\ d.at = "clear" /\ d.health.read => d.loading \cap Young' = {}
<1>1. /\ d.loading = c.loading \cap LoadingLanes'
      /\ d.at = c.at /\ d.present = c.present /\ d.health = c.health
  BY DEF Clears
<1>2. /\ d.loading \cap Young' \subseteq c.loading \cap Young
      /\ d.loading \ blind' \subseteq c.loading \ blind
  BY <1>1, LoadingLanesAge DEF Looks
<1>. QED BY <1>1, <1>2 DEF Looks

(* ... and while time passes. *)
LEMMA ElapseKeepsLooks ==
  ASSUME LaneTypeOK, LaneElapse
  PROVE  LoadingLanes' = LoadingLanes /\ Young' \subseteq Young /\ blind' = blind
<1>1. at' = at /\ blind' = blind
  BY DEF LaneElapse
<1>2. ASSUME NEW l \in Lanes, at[l] \in Running, upFor'[l] < StartPeriod
      PROVE  upFor[l] < StartPeriod
  <2>1. upFor'[l] = Older(upFor[l], StartPeriod) /\ upFor[l] \in 0..StartPeriod
    BY <1>2 DEF LaneElapse, LaneTypeOK
  <2>2. upFor'[l] >= upFor[l] /\ upFor'[l] \in Nat
    BY <2>1, OlderIsAge, Limits
  <2>. QED BY <2>1, <2>2, <1>2, Limits
<1>. QED BY <1>1, <1>2 DEF LoadingLanes, InStartPeriod, Young

(* What the clears read. *)
LEMMA SightOfLoadingLanes ==
  ASSUME \A l \in Lanes : Unmarked(l)
  PROVE  (LoadingLanes \ blind) \cap Marked = {} /\ (LoadingLanes \ blind) \cap held = {}
BY DEF Unmarked, LoadingLanes, Loading, Marked

LEMMA LooksKeepGuard ==
  ASSUME TypeOK, GuardInv, Watch \/ WatcherRestarts \/ Verb
  PROVE  GuardInv'
<1>1. UNCHANGED places
  BY LooksKeepLanes DEF TypeOK
<1>2. /\ LoadingLanes' = LoadingLanes /\ Young' = Young /\ blind' = blind
      /\ \A l \in Lanes : Unmarked(l)'
  BY <1>1 DEF places, LoadingLanes, InStartPeriod, Young, GuardInv, Unmarked
<1>3. (LoadingLanes \ blind) \cap Marked = {} /\ (LoadingLanes \ blind) \cap held = {}
  BY SightOfLoadingLanes DEF GuardInv
<1>4. watcher \in Clears /\ verb \in Clears /\ Looks(watcher) /\ Looks(verb)
  BY DEF TypeOK, GuardInv
<1>5. ASSUME watcher' = Idle \/ watcher' = [Idle EXCEPT !.at = "save"] PROVE Looks(watcher)'
  BY <1>5 DEF Looks, Idle, Unknown
<1>6. ASSUME verb' = Idle PROVE Looks(verb)'
  BY <1>6 DEF Looks, Idle, Unknown
<1>7. ASSUME UNCHANGED watcher PROVE Looks(watcher)'
  BY <1>7, <1>2, <1>4 DEF Looks
<1>8. ASSUME UNCHANGED verb PROVE Looks(verb)'
  BY <1>8, <1>2, <1>4 DEF Looks
<1>9. CASE ScanMarkers
  <2>1. watcher' = Idle \/
        /\ watcher'.at = "health" /\ watcher'.present = Marked
        /\ watcher'.loading = LoadingLanes /\ ~watcher'.health.read
    BY <1>9 DEF ScanMarkers, Idle, Unknown
  <2>2. Looks(watcher)'
    BY <2>1, <1>2, <1>3, <1>5 DEF Looks
  <2>. QED BY <1>9, <1>2, <1>8, <2>2 DEF ScanMarkers, GuardInv
<1>10. CASE ReadHealth
  <2>1. /\ watcher.at = "health"
        /\ watcher'.at = "held" /\ watcher'.loading = watcher.loading
        /\ watcher'.present = watcher.present
        /\ watcher'.health = Health \/ watcher'.health = watcher.health
    BY <1>10, <1>4 DEF ReadHealth, Clears
  <2>2. Looks(watcher)'
    BY <2>1, <1>2, <1>4 DEF Looks, Health, Young
  <2>. QED BY <1>10, <1>2, <1>8, <2>2 DEF ReadHealth, GuardInv
<1>11. CASE Decide
  <2>1. CASE watcher' = Idle
    BY <2>1, <1>11, <1>2, <1>5, <1>8 DEF Decide, GuardInv
  <2>2. CASE watcher' # Idle
    <3>1. /\ watcher.at = "held" /\ watcher'.at = "clear"
          /\ watcher'.loading = watcher.loading /\ watcher'.present = watcher.present
          /\ watcher'.health = watcher.health
          /\ watcher.health.starting \subseteq watcher.present \cup held
      BY <1>11, <2>2, <1>4 DEF Decide, Clears, Booting
    <3>2. watcher.health.read => watcher.loading \cap Young = {}
      BY <3>1, <1>3, <1>4 DEF Looks, Young
    <3>3. Looks(watcher)'
      BY <3>1, <3>2, <1>2, <1>4 DEF Looks
    <3>. QED BY <1>11, <3>3, <1>2, <1>8 DEF Decide, GuardInv
  <2>. QED BY <2>1, <2>2
<1>12. CASE Clear
  BY <1>12, <1>2, <1>5, <1>8 DEF Clear, GuardInv
<1>13. CASE SaveState
  BY <1>13, <1>2, <1>5, <1>8 DEF SaveState, GuardInv
<1>14. CASE WatcherRestarts
  BY <1>14, <1>2, <1>5, <1>8 DEF WatcherRestarts, GuardInv
<1>15. CASE VerbReadsMarkers
  <2>1. /\ verb'.at = "health" /\ verb'.present = Marked \cup held
        /\ verb'.loading = LoadingLanes /\ ~verb'.health.read
    BY <1>15 DEF VerbReadsMarkers, Idle, Unknown
  <2>2. Looks(verb)'
    BY <2>1, <1>2, <1>3 DEF Looks
  <2>. QED BY <1>15, <1>2, <1>7, <2>2 DEF VerbReadsMarkers, GuardInv
<1>16. CASE VerbDecides
  <2>1. CASE verb' = Idle
    BY <2>1, <1>16, <1>2, <1>6, <1>7 DEF VerbDecides, GuardInv
  <2>2. CASE verb' # Idle
    <3>1. /\ verb.at = "health" /\ verb'.at = "clear"
          /\ verb'.loading = verb.loading /\ verb'.present = verb.present
          /\ \/ verb'.health = Health /\ Health.starting \subseteq verb.present
             \/ verb'.health = verb.health
      BY <1>16, <2>2, <1>4 DEF VerbDecides, Clears, Booting
    <3>2. verb'.health.read => verb.loading \cap Young = {}
      BY <3>1, <1>4 DEF Looks, Health, Young
    <3>3. Looks(verb)'
      BY <3>1, <3>2, <1>2, <1>4 DEF Looks
    <3>. QED BY <1>16, <3>3, <1>2, <1>7 DEF VerbDecides, GuardInv
  <2>. QED BY <2>1, <2>2
<1>17. CASE VerbClears
  BY <1>17, <1>2, <1>6, <1>7 DEF VerbClears, GuardInv
<1>. QED
  BY <1>9, <1>10, <1>11, <1>12, <1>13, <1>14, <1>15, <1>16, <1>17 DEF Watch, Verb

LEMMA StepKeepsGuard == TypeOK /\ GuardInv /\ [Next]_vars => GuardInv'
<1>. SUFFICES ASSUME TypeOK, GuardInv, [Next]_vars PROVE GuardInv'
  OBVIOUS
<1>1. /\ LaneTypeOK /\ watcher \in Clears /\ verb \in Clears
      /\ \A l \in Lanes : Unmarked(l)
      /\ Looks(watcher) /\ Looks(verb)
  BY DEF TypeOK, GuardInv
<1>2. ASSUME NEW m \in Lanes, LaneRuns(m) \/ LaneFails(m) \/ OperatorActs(m)
      PROVE  GuardInv'
  <2>1. Moves(m) /\ LaneStep(TRUE)
    BY <1>2, MovesAreSteps
  <2>2. LoadingLanes' \subseteq Lanes
    BY DEF LoadingLanes
  <2>3. Looks(watcher)'
    <3>1. watcher' = [watcher EXCEPT !.loading = watcher.loading \cap LoadingLanes']
      BY <2>1 DEF LaneStep
    <3>. QED BY <1>1, <2>1, <2>2, <3>1, MoveKeepsLooks DEF Looks
  <2>4. Looks(verb)'
    <3>1. verb' = [verb EXCEPT !.loading = verb.loading \cap LoadingLanes']
      BY <2>1 DEF LaneStep
    <3>. QED BY <1>1, <2>1, <2>2, <3>1, MoveKeepsLooks DEF Looks
  <2>. QED BY <1>1, <2>1, <2>3, <2>4, MoveKeepsUnmarked DEF GuardInv
<1>3. CASE Watch \/ WatcherRestarts \/ Verb
  BY <1>3, LooksKeepGuard
<1>4. CASE Elapse
  <2>1. LaneElapse /\ UNCHANGED <<watcher, verb>>
    BY <1>4 DEF Elapse
  <2>2. LoadingLanes' = LoadingLanes /\ Young' \subseteq Young /\ blind' = blind
    BY <1>1, <2>1, ElapseKeepsLooks
  <2>3. Looks(watcher)' /\ Looks(verb)'
    BY <1>1, <2>1, <2>2 DEF Looks
  <2>4. \A l \in Lanes : Unmarked(l)'
    BY <1>1, <2>1 DEF LaneElapse, Unmarked
  <2>. QED BY <2>3, <2>4 DEF GuardInv
<1>5. CASE UNCHANGED vars
  BY <1>1, <1>5 DEF vars, laneVars, GuardInv, Unmarked, Looks, LoadingLanes, InStartPeriod, Young
<1>. QED BY <1>2, <1>3, <1>4, <1>5 DEF Next

(* Neither the watcher nor a verb, having asked docker, drops the cache     *)
(* under a lane that docker reports as starting and that was loading before *)
(* the clear began to look.                                                 *)
THEOREM ClearsSpareStartingLanes == Spec => []SparesStartingLanes
<1>1. GuardInv => SparesStartingLanes
  BY DEF GuardInv, Looks, Young, SparesStartingLanes, Spares
<1>. QED BY InitType, StepKeepsType, InitGuard, StepKeepsGuard, <1>1, PTL DEF Spec
=============================================================================
