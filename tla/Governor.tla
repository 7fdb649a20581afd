------------------------------ MODULE Governor ------------------------------
(***************************************************************************)
(* The thermal governor of one container (lobes/runtime/_governor.py): the *)
(* CPU cap of the container follows the hottest thermal zone, and the      *)
(* container is paused as the last resort.                                 *)
(*                                                                         *)
(* A poll is an inspection, a reading, a decision and at most two docker   *)
(* commands, and the world moves between any two of these: the temperature *)
(* changes, somebody else pauses or unpauses the container, it exits, and  *)
(* docker or the sensor fails.  A command that takes longer than its       *)
(* timeout is a failure to the governor, but docker may have carried it    *)
(* out, or do so later.  The governor applies its decisions (a dry run,    *)
(* which only logs them, is not modelled).                                 *)
(***************************************************************************)
EXTENDS Integers, Sequences, FiniteSets

CONSTANTS
  Temps,         \* the temperatures there are
  Steps,         \* Bands.steps, ascending [limit, cpus]
  PauseAt,       \* Bands.pause_c
  ResumeAt,      \* Bands.resume_c
  ResumeCpus,    \* Bands.resume_cpus
  MaxLate        \* bound: commands given up that docker still has in hand

ASSUME GovernorAssumption ==
  /\ Temps \subseteq Nat
  /\ Steps \in Seq([limit : Nat, cpus : Nat \ {0}]) /\ Steps # <<>>
  /\ \A i, j \in DOMAIN Steps : i < j => Steps[i].limit < Steps[j].limit
  /\ PauseAt = Steps[Len(Steps)].limit
  /\ ResumeAt \in Nat
  /\ ResumeCpus \in Nat \ {0}
  /\ MaxLate \in Nat

VARIABLES
  temp,        \* the hottest zone
  container,   \* what docker says of the container
  pausedBy,    \* who paused it; "stray": the governor, by a command it gave up
  quota,       \* its CPU cap
  cur,         \* Governor.cur, the last cap the governor set
  wePaused,    \* Governor.we_paused
  undone,      \* history: its pause was undone and it has not seen that
  wanted,      \* the cap of the decision at hand
  phase,       \* where the governor is
  late,        \* the commands it gave up that docker may yet carry out
  strayCap     \* history: an update it gave up brought the cap

vars == <<temp, container, pausedBy, quota, cur, wePaused, undone, wanted, phase,
          late, strayCap>>
world == <<temp, container, pausedBy, quota>>
strays == <<late, strayCap>>

AsDeployed == 0     \* the cap the container was started with
NotSet == 0         \* cur is None
TopCpus == Steps[1].cpus
Caps == {Steps[i].cpus : i \in DOMAIN Steps} \cup {ResumeCpus}

Command(do, cpus) == [do |-> do, cpus |-> cpus]
Commands == [do : {"pause", "unpause", "update"}, cpus : Caps \cup {NotSet}]

Phases == {"poll", "decide", "pause", "cap", "resume_cap", "resume_thaw",
           "exit_cap", "exit_thaw", "stopped"}

TypeOK ==
  /\ temp \in Temps
  /\ container \in {"running", "paused", "gone"}
  /\ pausedBy \in {"nobody", "us", "stray", "other"}
  /\ quota \in Caps \cup {AsDeployed}
  /\ cur \in Caps \cup {NotSet}
  /\ wePaused \in BOOLEAN /\ undone \in BOOLEAN
  /\ wanted \in Caps \cup {NotSet}
  /\ phase \in Phases
  /\ late \in SUBSET Commands
  /\ strayCap \in BOOLEAN
  /\ (phase = "cap" => wanted # NotSet)
  /\ (phase \in {"resume_cap", "resume_thaw"} => wePaused /\ wanted = ResumeCpus)

Init ==
  /\ temp \in Temps
  /\ \/ container = "running" /\ pausedBy = "nobody"
     \/ container = "paused" /\ pausedBy = "other"
  /\ quota = AsDeployed /\ cur = NotSet
  /\ wePaused = FALSE /\ undone = FALSE /\ wanted = NotSet
  /\ phase = "poll"
  /\ late = {} /\ strayCap = FALSE

(* The cap of the band a temperature is in (decide). *)
Cap(t) == LET band == CHOOSE i \in DOMAIN Steps :
                        t < Steps[i].limit /\ \A j \in 1..(i - 1) : t >= Steps[j].limit
          IN  Steps[band].cpus

-----------------------------------------------------------------------------
(* A poll.  docker inspect may fail, which looks like a missing container.  *)

Poll_TrustsCap(seen) ==
  /\ phase = "poll"
  /\ undone' = (undone /\ seen # "running")
  /\ \/ seen \in {"gone", "missing"} /\ phase' = "exit_cap" /\ UNCHANGED <<cur, wePaused>>
     \/ /\ seen \in {"running", "paused"}
        /\ wePaused' = (wePaused /\ seen = "paused")
        /\ cur' = cur
        /\ phase' = IF seen = "paused" /\ ~wePaused THEN "poll" ELSE "decide"
  /\ UNCHANGED <<world, wanted, strays>>

Poll_AdoptsPause(seen) ==
  /\ phase = "poll"
  /\ undone' = (undone /\ seen # "running")
  /\ \/ seen \in {"gone", "missing"} /\ phase' = "exit_cap" /\ UNCHANGED <<cur, wePaused>>
     \/ /\ seen \in {"running", "paused"}
        /\ wePaused' = (seen = "paused")
        /\ cur' = IF wePaused /\ seen = "running" THEN NotSet ELSE cur
        /\ phase' = "decide"
  /\ UNCHANGED <<world, wanted, strays>>

Poll_MissesUnpause(seen) ==
  /\ phase = "poll"
  /\ undone' = (undone /\ seen # "running")
  /\ \/ seen \in {"gone", "missing"} /\ phase' = "exit_cap"
     \/ seen = "paused" /\ ~wePaused /\ phase' = "poll"
     \/ (seen = "running" \/ (seen = "paused" /\ wePaused)) /\ phase' = "decide"
  /\ UNCHANGED <<world, wanted, cur, wePaused, strays>>

(* Somebody else's pause is left alone; if our pause was undone the cap is  *)
(* asserted again.                                                          *)
Poll(seen) ==
  /\ phase = "poll"
  /\ undone' = (undone /\ seen # "running")
  /\ \/ seen \in {"gone", "missing"} /\ phase' = "exit_cap" /\ UNCHANGED <<cur, wePaused>>
     \/ /\ seen \in {"running", "paused"}
        /\ wePaused' = (wePaused /\ seen = "paused")
        /\ cur' = IF wePaused /\ seen = "running" THEN NotSet ELSE cur
        /\ phase' = IF seen = "paused" /\ ~wePaused THEN "poll" ELSE "decide"
  /\ UNCHANGED <<world, wanted, strays>>

(* What the temperature just read calls for.  A container the governor      *)
(* paused stays paused until it is well below the pause threshold.          *)
Decide ==
  /\ phase = "decide"
  /\ \/ /\ wePaused /\ temp < ResumeAt /\ phase' = "resume_cap" /\ wanted' = ResumeCpus
     \/ /\ ~wePaused /\ temp >= PauseAt /\ phase' = "pause" /\ UNCHANGED wanted
     \/ /\ ~wePaused /\ temp < PauseAt /\ Cap(temp) # cur
        /\ phase' = "cap" /\ wanted' = Cap(temp)
     \/ /\ \/ wePaused /\ temp >= ResumeAt
           \/ ~wePaused /\ temp < PauseAt /\ Cap(temp) = cur
        /\ phase' = "poll" /\ UNCHANGED wanted
  /\ UNCHANGED <<world, cur, wePaused, undone, strays>>

(* The sensors cannot be read. *)
NoReading == phase = "decide" /\ phase' = "poll"
             /\ UNCHANGED <<world, cur, wePaused, undone, wanted, strays>>

-----------------------------------------------------------------------------
(* Docker commands, each in the phase it is issued in.  The status of the   *)
(* container is checked by docker, not by the governor.                     *)

Updates(cpus) == quota' = cpus /\ strayCap' = FALSE

Pause ==
  /\ phase = "pause" /\ phase' = "poll"
  /\ container = "running" /\ container' = "paused" /\ pausedBy' = "us"
  /\ wePaused' = TRUE
  /\ UNCHANGED <<temp, quota, cur, undone, wanted, strays>>

SetCpus ==
  /\ phase = "cap" /\ phase' = "poll"
  /\ Updates(wanted)
  /\ cur' = wanted
  /\ UNCHANGED <<temp, container, pausedBy, wePaused, undone, wanted, late>>

ResumeCap_Skipped ==
  /\ phase = "resume_cap" /\ phase' = "resume_thaw"
  /\ UNCHANGED <<world, cur, wePaused, undone, wanted, strays>>

ResumeCap_ForgetsPause ==
  /\ phase = "resume_cap" /\ phase' = "resume_thaw"
  /\ Updates(wanted)
  /\ wePaused' = FALSE
  /\ UNCHANGED <<temp, container, pausedBy, cur, undone, wanted, late>>

(* The cap first, so that the thawed container does not run at full speed.  *)
ResumeCap ==
  /\ phase = "resume_cap" /\ phase' = "resume_thaw"
  /\ Updates(wanted)
  /\ UNCHANGED <<temp, container, pausedBy, cur, wePaused, undone, wanted, late>>

Thaw ==
  /\ container = "paused" /\ container' = "running" /\ pausedBy' = "nobody"
  /\ wePaused' = FALSE /\ undone' = FALSE

ResumeThaw_ForgetsCap ==
  /\ phase = "resume_thaw" /\ phase' = "poll"
  /\ Thaw
  /\ UNCHANGED <<temp, quota, cur, wanted, strays>>

ResumeThaw ==
  /\ phase = "resume_thaw" /\ phase' = "poll"
  /\ Thaw
  /\ cur' = wanted
  /\ UNCHANGED <<temp, quota, wanted, strays>>

(* The command the governor waits for. *)
Issued ==
  CASE phase = "pause"                       -> Command("pause", NotSet)
    [] phase \in {"cap", "resume_cap"}       -> Command("update", wanted)
    [] phase = "exit_cap"                    -> Command("update", TopCpus)
    [] phase \in {"resume_thaw", "exit_thaw"} -> Command("unpause", NotSet)

(* run_docker: an error, and nothing happened; or its timeout, and docker   *)
(* has the command still.  The governor cannot tell these apart.            *)
Fails ==
  \/ UNCHANGED late
  \/ Cardinality(late) < MaxLate /\ late' = late \cup {Issued}

(* A command fails, the second one of a resume after the first one worked   *)
(* included, and is left to the next poll.                                  *)
CommandFails ==
  /\ phase \in {"pause", "cap", "resume_cap", "resume_thaw"}
  /\ phase' = "poll"
  /\ Fails
  /\ UNCHANGED <<world, cur, wePaused, undone, wanted, strayCap>>

-----------------------------------------------------------------------------
(* The exit (cleanup): the top cap if the governor's last one is another,   *)
(* and an unpause of its own pause, whether or not the update worked.       *)

CapIsTop == cur \in {NotSet, TopCpus}

ExitCap ==
  /\ phase = "exit_cap" /\ phase' = "exit_thaw"
  /\ \/ ~CapIsTop /\ Updates(TopCpus) /\ cur' = TopCpus
     \/ CapIsTop /\ UNCHANGED <<quota, cur, strayCap>>
  /\ UNCHANGED <<temp, container, pausedBy, wePaused, undone, wanted, late>>

ExitThaw ==
  /\ phase = "exit_thaw" /\ phase' = "stopped"
  /\ \/ wePaused /\ Thaw
     \/ ~wePaused /\ UNCHANGED <<container, pausedBy, wePaused, undone>>
  /\ UNCHANGED <<temp, quota, cur, wanted, strays>>

ExitCommandFails ==
  /\ \/ phase = "exit_cap" /\ ~CapIsTop /\ phase' = "exit_thaw"
     \/ phase = "exit_thaw" /\ wePaused /\ phase' = "stopped"
  /\ Fails
  /\ UNCHANGED <<world, cur, wePaused, undone, wanted, strayCap>>

(* SIGINT or SIGTERM, seen between two polls. *)
Stop ==
  /\ phase = "poll" /\ phase' = "exit_cap"
  /\ UNCHANGED <<world, cur, wePaused, undone, wanted, strays>>

-----------------------------------------------------------------------------
(* The world. *)

governor == <<cur, wePaused, wanted, phase>>

Heat ==
  /\ temp' \in Temps \ {temp}
  /\ UNCHANGED <<container, pausedBy, quota, undone, governor, strays>>

PausedBy(who) == container = "running" /\ container' = "paused" /\ pausedBy' = who

Unpaused ==
  /\ container = "paused"
  /\ container' = "running" /\ pausedBy' = "nobody"
  /\ undone' = (undone \/ pausedBy = "us")

OtherPauses == PausedBy("other") /\ UNCHANGED <<temp, quota, undone, governor, strays>>

(* Also a restart, which ends a pause. *)
OtherUnpauses == Unpaused /\ UNCHANGED <<temp, quota, governor, strays>>

ContainerExits ==
  /\ container # "gone"
  /\ container' = "gone" /\ pausedBy' = "nobody"
  /\ UNCHANGED <<temp, quota, undone, governor, strays>>

(* Docker carries out a command that was given up, or drops it. *)
LateCommand(c) ==
  /\ late' = late \ {c}
  /\ \/ c.do = "pause" /\ PausedBy("stray") /\ UNCHANGED <<quota, strayCap, undone>>
     \/ c.do = "unpause" /\ Unpaused /\ UNCHANGED <<quota, strayCap>>
     \/ /\ c.do = "update" /\ quota' = c.cpus /\ strayCap' = TRUE
        /\ UNCHANGED <<container, pausedBy, undone>>
     \/ UNCHANGED <<container, pausedBy, quota, strayCap, undone>>
  /\ UNCHANGED <<temp, governor>>

-----------------------------------------------------------------------------
Inspect == Poll(container)
InspectFails == Poll("missing")

Works == Inspect \/ Decide \/ NoReading \/ Pause \/ SetCpus \/ ResumeCap \/ ResumeThaw
         \/ CommandFails \/ ExitCap \/ ExitThaw \/ ExitCommandFails

Step == Works \/ InspectFails \/ Stop

World == \/ Heat \/ OtherPauses \/ OtherUnpauses \/ ContainerExits
         \/ \E c \in late : LateCommand(c)

Next == Step \/ World

Spec == Init /\ [][Next]_vars

(* The loop keeps polling, and docker and the sensors, asked over and over, *)
(* answer in the end.  Nothing is assumed of the world.                     *)
Fairness ==
  /\ WF_vars(Works)
  /\ SF_vars(Decide)
  /\ SF_vars(Pause) /\ SF_vars(SetCpus) /\ SF_vars(ResumeCap) /\ SF_vars(ResumeThaw)

FairSpec == Spec /\ Fairness
=============================================================================
