------------------------------- MODULE Watcher -------------------------------
(***************************************************************************)
(* The two that drop the page cache of a machine: the watcher, a service   *)
(* on the host that polls the markers of the lanes                         *)
(* (lobes/watcher/_run.py), and the lifecycle verbs of the command line    *)
(* (lobes/runtime/_compose.py).  Both look at the lanes first, one file    *)
(* and one docker call at a time, because a drop while a lane loads can    *)
(* make it fail.                                                           *)
(***************************************************************************)
EXTENDS Lanes

CONSTANT MinInterval   \* LOBES_WATCHER_MIN_INTERVAL_S

ASSUME WatcherAssumption == MinInterval \in Nat \ {0}

VARIABLES
  watcher,   \* the watcher's poll
  polled,    \* whether it has polled in this unit of time
  attempt,   \* the age of last_attempt in the memory of the watcher
  saved,     \* the age of last_attempt in its state file
  cleared,   \* history: the age of the last attempt there really was
  verb       \* the clear of a lifecycle verb

ages == <<attempt, saved, cleared>>
vars == <<laneVars, watcher, polled, ages, verb>>

(* What is left of laneVars when a step may count as a fault. *)
lanes == <<uptime, at, upFor, blind, starts, held, gated, waited, stuck, loads>>

-----------------------------------------------------------------------------
(* What docker ps says of the lanes, if it can be asked.  A container that  *)
(* is being restarted counts as running.                                    *)
Known == [read : {TRUE}, running : SUBSET Lanes, starting : SUBSET Lanes]
Unknown == [read |-> FALSE, running |-> {}, starting |-> {}]
InStartPeriod == {l \in Lanes : at[l] \in Running \ {"serve"} /\ upFor[l] < StartPeriod}
Health == [read |-> TRUE, running |-> {l \in Lanes : at[l] # "stopped"},
           starting |-> InStartPeriod]

Marked == {l \in Lanes : gated[l] # Absent}

(* lanes_starting: a lane that is held before its server runs is not booting. *)
Booting(health, idle) == health.starting \ idle

(* A clear: where it is, the lanes whose marker it saw, those of them whose *)
(* marker is not too old, what docker said.  loading is history: the lanes  *)
(* that have been loading ever since it began to look.                      *)
Idle == [at |-> "rest", present |-> {}, young |-> {}, health |-> Unknown, loading |-> {}]
Clears == [at : {"rest", "health", "held", "clear", "save"},
           present : SUBSET Lanes, young : SUBSET Lanes,
           health : Known \cup {Unknown}, loading : SUBSET Lanes]

LoadingLanes == {l \in Lanes : at[l] \in Loading}

TypeOK ==
  /\ LaneTypeOK
  /\ watcher \in Clears /\ verb \in Clears
  /\ polled \in BOOLEAN
  /\ \A age \in {attempt, saved, cleared} : age \in 0..MinInterval

Init ==
  /\ LaneInit
  /\ watcher = Idle /\ verb = Idle
  /\ polled = FALSE
  /\ attempt = MinInterval /\ saved = MinInterval /\ cleared = MinInterval

(* A drop succeeds, and what was stuck is free, or fails or is not granted. *)
Drop ==
  /\ \/ stuck' = 0 /\ UNCHANGED faults
     \/ UNCHANGED stuck /\ Fault
  /\ UNCHANGED <<uptime, at, upFor, blind, starts, held, gated, waited, loads>>

-----------------------------------------------------------------------------
(* One poll of the watcher. *)

(* The markers, and which of them are older than any wrapper waits. *)
ScanMarkers ==
  /\ watcher.at = "rest" /\ ~polled
  /\ polled' = TRUE
  /\ watcher' = IF Marked = {} THEN Idle
                ELSE [Idle EXCEPT !.at = "health", !.present = Marked,
                        !.young = {l \in Marked : gated[l] < Stale},
                        !.loading = LoadingLanes]
  /\ UNCHANGED <<laneVars, ages, verb>>

ReadHealth ==
  /\ watcher.at = "health"
  /\ \/ watcher' = [watcher EXCEPT !.at = "held", !.health = Health] /\ UNCHANGED faults
     \/ watcher' = [watcher EXCEPT !.at = "held"] /\ Fault
  /\ UNCHANGED <<lanes, polled, ages, verb>>

Live_Any == watcher.present

(* The markers of lanes that wait: not too old, and of a lane that runs. *)
Live ==
  IF watcher.health.read THEN watcher.young \cap watcher.health.running
  ELSE watcher.young

Decide_HealthOnly ==
  /\ watcher.at = "held"
  /\ watcher' = IF Live # {} /\ attempt = MinInterval
                THEN [watcher EXCEPT !.at = "clear"]
                ELSE Idle
  /\ UNCHANGED <<laneVars, polled, ages, verb>>

(* The holds are read after the health.  No clear if nobody waits, while a  *)
(* lane boots, or too soon after the last attempt.                          *)
Decide ==
  /\ watcher.at = "held"
  /\ watcher' = IF /\ Live # {}
                   /\ Booting(watcher.health, watcher.present \cup held) = {}
                   /\ attempt = MinInterval
                THEN [watcher EXCEPT !.at = "clear"]
                ELSE Idle
  /\ UNCHANGED <<laneVars, polled, ages, verb>>

(* The clear, and after it the time of the attempt ... *)
Clear ==
  /\ watcher.at = "clear"
  /\ Drop
  /\ attempt' = 0 /\ cleared' = 0
  /\ watcher' = [Idle EXCEPT !.at = "save"]
  /\ UNCHANGED <<polled, saved, verb>>

(* ... which is written to the state file; if that fails, a line is logged. *)
SaveState ==
  /\ watcher.at = "save"
  /\ watcher' = Idle
  /\ \/ saved' = attempt /\ UNCHANGED faults
     \/ UNCHANGED saved /\ Fault
  /\ UNCHANGED <<lanes, polled, attempt, cleared, verb>>

(* The service is killed and started again: it loads the state file. *)
WatcherRestarts ==
  /\ Fault
  /\ watcher' = Idle
  /\ attempt' = saved
  /\ UNCHANGED <<lanes, polled, saved, cleared, verb>>

-----------------------------------------------------------------------------
(* The guarded clear of a lifecycle verb: the markers first, then docker.   *)

VerbReadsMarkers ==
  /\ verb.at = "rest" /\ Fault
  /\ verb' = [Idle EXCEPT !.at = "health", !.present = Marked \cup held,
                !.loading = LoadingLanes]
  /\ UNCHANGED <<lanes, watcher, polled, ages>>

(* If docker cannot be asked, the clear goes ahead. *)
VerbDecides ==
  /\ verb.at = "health"
  /\ \/ /\ verb' = IF Booting(Health, verb.present) = {}
                   THEN [verb EXCEPT !.at = "clear", !.health = Health]
                   ELSE Idle
        /\ UNCHANGED faults
     \/ verb' = [verb EXCEPT !.at = "clear"] /\ Fault
  /\ UNCHANGED <<lanes, watcher, polled, ages>>

VerbClears ==
  /\ verb.at = "clear"
  /\ Drop
  /\ verb' = Idle
  /\ UNCHANGED <<watcher, polled, ages>>

-----------------------------------------------------------------------------
(* A step of a lane, or its operator's. *)
LaneStep(step) ==
  /\ step
  /\ watcher' = [watcher EXCEPT !.loading = watcher.loading \cap LoadingLanes']
  /\ verb' = [verb EXCEPT !.loading = verb.loading \cap LoadingLanes']
  /\ UNCHANGED <<polled, ages>>

(* A unit of time: the watcher has polled in it, and its poll is over. *)
Elapse ==
  /\ watcher.at = "rest" /\ polled
  /\ LaneElapse
  /\ polled' = FALSE
  /\ attempt' = Older(attempt, MinInterval)
  /\ saved' = Older(saved, MinInterval)
  /\ cleared' = Older(cleared, MinInterval)
  /\ UNCHANGED <<watcher, verb>>

LaneRuns(l) == LaneStep(LaneSteps(l))
LaneFails(l) == LaneStep(LaneEnds(l))
OperatorActs(l) == LaneStep(Up(l)) \/ LaneStep(ResetCounter(l))
Watch == ScanMarkers \/ ReadHealth \/ Decide \/ Clear \/ SaveState
Verb == VerbReadsMarkers \/ VerbDecides \/ VerbClears

Next ==
  \/ \E l \in Lanes : LaneRuns(l) \/ LaneFails(l) \/ OperatorActs(l)
  \/ Watch \/ WatcherRestarts
  \/ Verb
  \/ Elapse

Spec == Init /\ [][Next]_vars

(* docker restarts what exits, the wrapper polls, a server that loads is    *)
(* done at some time, and the watcher is a loop.                            *)
Fairness ==
  /\ \A l \in Lanes : WF_vars(LaneRuns(l))
  /\ WF_vars(Watch) /\ WF_vars(Elapse)

FairSpec == Spec /\ Fairness
=============================================================================
