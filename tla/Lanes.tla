-------------------------------- MODULE Lanes --------------------------------
(***************************************************************************)
(* The lanes of a deployment: containers whose entrypoint                  *)
(* (lobes/templates/mg-logwrap.sh) holds the model server back until the   *)
(* host has been up for long enough, until the lane has not started too    *)
(* often, and until its memory is free.  The wrapper leaves files in       *)
(* lane-state/ that others read: .held and .gated while it waits, .starts. *)
(* None of its faults keeps a lane from its server: if the files cannot be *)
(* written or memory cannot be read, it goes on without.                   *)
(*                                                                         *)
(* A unit of time is a poll.  A time in the past is kept as its age, up to *)
(* the age at which nothing depends on it any more.                        *)
(***************************************************************************)
EXTENDS Naturals, FiniteSetsExt

CONSTANTS
  Lanes,
  Release,      \* [Lanes -> Nat]: the uptime at which a lane's boot hold ends
  StartMax,     \* LOBES_START_MAX
  Window,       \* LOBES_START_WINDOW_S
  GateTimeout,  \* LOBES_MEM_GATE_TIMEOUT_S; a marker is stale at twice that
  StartPeriod,  \* how long docker reports a new container as starting
  Memory,
  Need,         \* [Lanes -> Nat]: of its memory, what a lane takes
  MaxFaults     \* bound: everything that goes wrong, and every stop

ASSUME LanesAssumption ==
  /\ Release \in [Lanes -> Nat]
  /\ StartMax \in Nat \ {0}
  /\ Window \in Nat \ {0}
  /\ GateTimeout \in Nat \ {0}
  /\ StartPeriod \in Nat
  /\ Need \in [Lanes -> Nat]
  /\ MaxFaults \in Nat

VARIABLES
  uptime,   \* of the host, in polls; only that it grows matters
  at,       \* where the container of a lane is
  upFor,    \* the age of the container, while it runs
  blind,    \* the lanes whose run leaves the files in lane-state/ alone
  starts,   \* the file .starts: the ages of the last StartMax starts
  held,     \* the lanes whose file .held is there
  gated,    \* the age of `since' in the file .gated, or Absent
  waited,   \* how long the lane has waited in its gate
  stuck,    \* memory of dead containers that a page-cache drop would free
  loads,    \* history: the ages of the last StartMax + 2 loads since the
            \* counter last lost a start, or the operator last deleted it
  faults    \* counts what MaxFaults bounds

laneVars == <<uptime, at, upFor, blind, starts, held, gated, waited, stuck, loads, faults>>

Stale == 2 * GateTimeout + 1   \* older than twice the timeout
Absent == Stale + 1
Waiting == {"boot", "hold", "count", "backoff", "gate", "gated"}
Loading == {"load", "alloc"}   \* without and with its memory
Running == Waiting \cup Loading \cup {"serve"}
Places == Running \cup {"exited", "stopped"}

LaneTypeOK ==
  /\ uptime \in Nat
  /\ at \in [Lanes -> Places]
  /\ upFor \in [Lanes -> 0..StartPeriod]
  /\ blind \in SUBSET Lanes
  /\ starts \in [Lanes -> [1..StartMax -> 0..Window]]
  /\ held \in SUBSET Lanes
  /\ gated \in [Lanes -> 0..Absent]
  /\ waited \in [Lanes -> 0..GateTimeout]
  /\ stuck \in Nat
  /\ loads \in [Lanes -> [1..(StartMax + 2) -> 0..Window]]
  /\ faults \in 0..MaxFaults

NoStarts == [k \in 1..StartMax |-> Window]
NoLoads == [k \in 1..(StartMax + 2) |-> Window]

(* The host has just come up and docker starts every container. *)
LaneInit ==
  /\ uptime = 0
  /\ at = [l \in Lanes |-> "boot"]
  /\ upFor = [l \in Lanes |-> 0]
  /\ blind = {}
  /\ starts = [l \in Lanes |-> NoStarts]
  /\ held = {}
  /\ gated = [l \in Lanes |-> Absent]
  /\ waited = [l \in Lanes |-> 0]
  /\ stuck = 0
  /\ loads = [l \in Lanes |-> NoLoads]
  /\ faults = 0

-----------------------------------------------------------------------------
Users == {l \in Lanes : at[l] \in {"alloc", "serve"}}
Used == MapThenSumSet(LAMBDA l : Need[l], Users)

(* MemAvailable >= need. *)
Fits(l) == Used + stuck + Need[l] <= Memory

(* The file already holds StartMax starts inside the window. *)
StartsTooOften(l) == starts[l][StartMax] < Window

(* A list of ages, newest first, with an event that happens now. *)
Again(ages) == [k \in DOMAIN ages |-> IF k = 1 THEN 0 ELSE ages[k - 1]]

(* The list without its n newest entries. *)
Without(n, ages) == [k \in DOMAIN ages |-> IF k + n \in DOMAIN ages THEN ages[k + n] ELSE Window]

Go(l, place) == at' = [at EXCEPT ![l] = place]

Fault == faults < MaxFaults /\ faults' = faults + 1

(* The marker files, which a blind run neither writes nor removes. *)
MarkHeld(l) == held' = IF l \in blind THEN held ELSE held \cup {l}
DropHeld(l) == held' = IF l \in blind THEN held ELSE held \ {l}
MarkGated(l) == gated' = IF l \in blind THEN gated ELSE [gated EXCEPT ![l] = 0]
DropGated(l) == gated' = IF l \in blind THEN gated ELSE [gated EXCEPT ![l] = Absent]

-----------------------------------------------------------------------------
(* The wrapper, in its order. *)

(* Boot hold and stagger: nothing to wait for ... *)
NoBootHold(l) ==
  /\ at[l] = "boot" /\ uptime >= Release[l] /\ Go(l, "count")
  /\ UNCHANGED <<uptime, upFor, blind, starts, held, gated, waited, stuck, loads, faults>>

(* ... or a hold, which is marked. *)
BootHold(l) ==
  /\ at[l] = "boot" /\ uptime < Release[l] /\ Go(l, "hold")
  /\ MarkHeld(l)
  /\ UNCHANGED <<uptime, upFor, blind, starts, gated, waited, stuck, loads, faults>>

BootRelease(l) ==
  /\ at[l] = "hold" /\ uptime >= Release[l] /\ Go(l, "count")
  /\ DropHeld(l)
  /\ UNCHANGED <<uptime, upFor, blind, starts, gated, waited, stuck, loads, faults>>

(* The start counter: too many starts hold the lane, and are counted again  *)
(* until there are fewer; the start is recorded when the lane proceeds.     *)
Backoff(l) ==
  /\ at[l] = "count" /\ l \notin blind /\ StartsTooOften(l) /\ Go(l, "backoff")
  /\ MarkHeld(l)
  /\ UNCHANGED <<uptime, upFor, blind, starts, gated, waited, stuck, loads, faults>>

Proceeds(l) == at[l] \in {"count", "backoff"} /\ l \notin blind /\ ~StartsTooOften(l)
EndsBackoff(l) == IF at[l] = "backoff" THEN DropHeld(l) ELSE UNCHANGED held

RecordStart_NeverHeld(l) ==
  /\ at[l] \in {"count", "backoff"} /\ l \notin blind /\ Go(l, "gate")
  /\ EndsBackoff(l)
  /\ starts' = [starts EXCEPT ![l] = Again(starts[l])]
  /\ UNCHANGED <<uptime, upFor, blind, gated, waited, stuck, loads, faults>>

RecordStart_HeldForGood(l) ==
  /\ at[l] = "count" /\ l \notin blind /\ ~StartsTooOften(l) /\ Go(l, "gate")
  /\ starts' = [starts EXCEPT ![l] = Again(starts[l])]
  /\ UNCHANGED <<uptime, upFor, blind, held, gated, waited, stuck, loads, faults>>

RecordStart(l) ==
  /\ Proceeds(l) /\ Go(l, "gate")
  /\ EndsBackoff(l)
  /\ starts' = [starts EXCEPT ![l] = Again(starts[l])]
  /\ UNCHANGED <<uptime, upFor, blind, gated, waited, stuck, loads, faults>>

(* A blind run keeps no counter. *)
SkipCounter(l) ==
  /\ at[l] = "count" /\ l \in blind /\ Go(l, "gate")
  /\ loads' = [loads EXCEPT ![l] = NoLoads]
  /\ UNCHANGED <<uptime, upFor, blind, starts, held, gated, waited, stuck, faults>>

(* The file is truncated and then written, newest start last, and an error  *)
(* is ignored: this start is lost, and maybe some or all of those before.   *)
LoseStarts(l) ==
  /\ \E n \in 0..StartMax : starts' = [starts EXCEPT ![l] = Without(n, starts[l])]
  /\ loads' = [loads EXCEPT ![l] = NoLoads]

RecordFails(l) ==
  /\ Proceeds(l) /\ Fault /\ Go(l, "gate")
  /\ EndsBackoff(l)
  /\ LoseStarts(l)
  /\ UNCHANGED <<uptime, upFor, blind, gated, waited, stuck>>

(* The memory gate: the marker says since when this run of the wrapper has  *)
(* waited.                                                                  *)
WaitForMemory(l) ==
  /\ at[l] = "gate" /\ ~Fits(l) /\ Go(l, "gated")
  /\ MarkGated(l)
  /\ waited' = [waited EXCEPT ![l] = 0]
  /\ UNCHANGED <<uptime, upFor, blind, starts, held, stuck, loads, faults>>

(* The server takes the place of the wrapper. *)
Exec(l) ==
  /\ Go(l, "load")
  /\ loads' = [loads EXCEPT ![l] = Again(loads[l])]
  /\ UNCHANGED <<uptime, upFor, starts, held, waited, stuck>>

(* The marker goes, one left behind by a killed run included. *)
PassGate(l) ==
  /\ at[l] \in {"gate", "gated"} /\ Fits(l)
  /\ Exec(l)
  /\ DropGated(l)
  /\ UNCHANGED <<blind, faults>>

(* The gate is off, or memory cannot be read: no marker is looked at.       *)
SkipGate(l) ==
  /\ at[l] = "gate" /\ Fault
  /\ Exec(l)
  /\ blind' = blind \cup {l}
  /\ UNCHANGED gated

(* Memory cannot be read any more: the lane does not wait for it. *)
LeaveGate(l) ==
  /\ at[l] = "gated" /\ Fault
  /\ Exec(l)
  /\ DropGated(l)
  /\ UNCHANGED blind

(* exit 75; docker starts the container again, which counts as a start.     *)
GiveUp(l) ==
  /\ at[l] = "gated" /\ ~Fits(l) /\ waited[l] >= GateTimeout /\ Go(l, "exited")
  /\ DropGated(l)
  /\ UNCHANGED <<uptime, upFor, blind, starts, held, waited, stuck, loads, faults>>

(* The server takes its memory, or refuses to start: another lane may have  *)
(* passed its gate on the same memory.                                      *)
Allocate(l) ==
  /\ at[l] = "load" /\ Go(l, IF Fits(l) THEN "alloc" ELSE "exited")
  /\ UNCHANGED <<uptime, upFor, blind, starts, held, gated, waited, stuck, loads, faults>>

(* The model is loaded and answers its health check. *)
Serve(l) ==
  /\ at[l] = "alloc" /\ Go(l, "serve")
  /\ UNCHANGED <<uptime, upFor, blind, starts, held, gated, waited, stuck, loads, faults>>

(* A new run of the wrapper drops the .held of the one before, if that was  *)
(* killed, but not its .gated; or finds that it cannot write to lane-state/. *)
Begin(l) ==
  /\ Go(l, "boot")
  /\ upFor' = [upFor EXCEPT ![l] = 0]
  /\ \/ blind' = blind \ {l} /\ held' = held \ {l} /\ UNCHANGED faults
     \/ blind' = blind \cup {l} /\ UNCHANGED held /\ Fault
  /\ UNCHANGED <<uptime, starts, gated, waited, stuck, loads>>

(* docker's restart policy: unless-stopped. *)
Restart(l) == at[l] = "exited" /\ Begin(l)

-----------------------------------------------------------------------------
(* What happens to a lane.  Memory of a container that used some may stay   *)
(* out of MemAvailable.                                                     *)

Dies(l, place) ==
  /\ Fault
  /\ Go(l, place)
  /\ stuck' \in IF l \in Users THEN {stuck, stuck + Need[l]} ELSE {stuck}
  /\ UNCHANGED <<uptime, upFor, blind, waited>>

(* SIGKILL, or a crash of the server: no trap runs.  A stop that waits too  *)
(* long for the lane kills it, too.                                         *)
Crash(l) ==
  /\ at[l] \in Running
  /\ \E place \in {"exited", "stopped"} : Dies(l, place)
  /\ UNCHANGED <<starts, loads, held, gated>>

(* SIGKILL while the counter is rewritten. *)
CrashInRewrite(l) ==
  /\ Proceeds(l)
  /\ \E place \in {"exited", "stopped"} : Dies(l, place)
  /\ EndsBackoff(l)
  /\ LoseStarts(l)
  /\ UNCHANGED gated

(* docker stop: the wrapper's handler removes its markers.  Only those it   *)
(* wrote: a .gated of an earlier run stays until the gate is reached.       *)
Stop(l) ==
  /\ at[l] \in Running
  /\ Dies(l, "stopped")
  /\ IF at[l] \in {"hold", "backoff"} THEN DropHeld(l) ELSE UNCHANGED held
  /\ IF at[l] = "gated" THEN DropGated(l) ELSE UNCHANGED gated
  /\ UNCHANGED <<starts, loads>>

(* lobes up: the counter is deleted before the lane is started.  A lane may *)
(* also be held by it when it is deleted.                                   *)
ResetCounter(l) ==
  /\ starts' = [starts EXCEPT ![l] = NoStarts]
  /\ loads' = [loads EXCEPT ![l] = NoLoads]
  /\ UNCHANGED <<uptime, at, upFor, blind, held, gated, waited, stuck, faults>>

Up(l) == at[l] = "stopped" /\ Begin(l)

-----------------------------------------------------------------------------
Older(age, last) == IF age < last THEN age + 1 ELSE age

(* A poll passes.  No lane stays for as long where nothing makes it wait,   *)
(* and one that waits for memory polls as often: it has gone by then if it  *)
(* can, or has given up.                                                    *)
LaneElapse ==
  /\ \A l \in Lanes : at[l] \notin {"boot", "count", "gate", "exited"}
  /\ \A l \in Lanes : at[l] = "gated" => ~Fits(l) /\ waited[l] < GateTimeout
  /\ uptime' = IF \A l \in Lanes : uptime >= Release[l] THEN uptime ELSE uptime + 1
  /\ upFor' = [l \in Lanes |-> IF at[l] \in Running THEN Older(upFor[l], StartPeriod)
                               ELSE upFor[l]]
  /\ starts' = [l \in Lanes |-> [k \in 1..StartMax |-> Older(starts[l][k], Window)]]
  /\ loads' = [l \in Lanes |-> [k \in 1..(StartMax + 2) |-> Older(loads[l][k], Window)]]
  /\ gated' = [l \in Lanes |-> IF gated[l] = Absent THEN Absent ELSE Older(gated[l], Stale)]
  /\ waited' = [l \in Lanes |-> IF at[l] = "gated" THEN Older(waited[l], GateTimeout) ELSE 0]
  /\ UNCHANGED <<at, blind, held, stuck, faults>>

Wrapper(l) ==
  \/ NoBootHold(l) \/ BootHold(l) \/ BootRelease(l)
  \/ Backoff(l) \/ RecordStart(l) \/ SkipCounter(l) \/ RecordFails(l)
  \/ WaitForMemory(l) \/ PassGate(l) \/ SkipGate(l) \/ LeaveGate(l) \/ GiveUp(l)

(* What a lane does by itself. *)
LaneSteps(l) == Wrapper(l) \/ Allocate(l) \/ Serve(l) \/ Restart(l)

(* What is done to it. *)
LaneEnds(l) == Crash(l) \/ CrashInRewrite(l) \/ Stop(l)

LaneNext ==
  \/ \E l \in Lanes : LaneSteps(l) \/ LaneEnds(l) \/ Up(l) \/ ResetCounter(l)
  \/ LaneElapse
=============================================================================
