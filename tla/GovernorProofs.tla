--------------------------- MODULE GovernorProofs ---------------------------
(***************************************************************************)
(* The safety properties of the thermal governor hold for every table of   *)
(* bands and every set of temperatures.                                    *)
(***************************************************************************)
EXTENDS GovernorProperties, WellFoundedInduction, SequenceTheorems, TLAPS

-----------------------------------------------------------------------------
(* Every temperature below the pause threshold has a band, the first whose *)
(* limit it is below, and the cap of a band is a cap.                      *)
LEMMA CapIsACap ==
  ASSUME NEW t \in Temps, t < PauseAt
  PROVE  Cap(t) \in Caps /\ Cap(t) # NotSet
<1>. DEFINE Above == {i \in DOMAIN Steps : t < Steps[i].limit}
            Banded(i) == /\ t < Steps[i].limit
                         /\ \A j \in 1..(i - 1) : t >= Steps[j].limit
<1>1. /\ t \in Nat
      /\ Steps \in Seq([limit : Nat, cpus : Nat \ {0}])
      /\ Len(Steps) \in Nat /\ DOMAIN Steps = 1..Len(Steps)
      /\ Len(Steps) # 0
      /\ \A i \in DOMAIN Steps : Steps[i].limit \in Nat /\ Steps[i].cpus \in Nat \ {0}
  <2>1. t \in Nat /\ Steps # <<>> /\ Steps \in Seq([limit : Nat, cpus : Nat \ {0}])
    BY GovernorAssumption DEF GovernorAssumption
  <2>2. Len(Steps) \in Nat /\ DOMAIN Steps = 1..Len(Steps) /\ Len(Steps) # 0
    BY <2>1
  <2>3. \A i \in DOMAIN Steps : Steps[i] \in [limit : Nat, cpus : Nat \ {0}]
    <3>. DEFINE Bands == [limit : Nat, cpus : Nat \ {0}]
    <3>1. Steps \in Seq(Bands)
      BY <2>1
    <3>. HIDE DEF Bands
    <3>2. Steps \in [1..Len(Steps) -> Bands]
      BY <3>1, LenProperties
    <3>3. \A i \in DOMAIN Steps : Steps[i] \in Bands
      BY <3>2
    <3>. QED BY <3>3 DEF Bands
  <2>. QED BY <2>1, <2>2, <2>3
<1>2. Len(Steps) \in Above
  BY <1>1, GovernorAssumption DEF GovernorAssumption
<1>3. PICK i \in Above : \A j \in Above : <<j, i>> \notin OpToRel(<, Nat)
  <2>1. Above \subseteq Nat /\ Above # {}
    BY <1>1, <1>2
  <2>. HIDE DEF Above
  <2>. QED BY <2>1, NatLessThanWellFounded, WFMin
<1>4. \A j \in Above : ~(j < i)
  <2>1. ASSUME NEW j \in Above, j < i PROVE <<j, i>> \in OpToRel(<, Nat)
    BY SMTT(30), <1>1, <2>1 DEF OpToRel
  <2>. QED BY <1>3, <2>1
<1>5. Banded(i)
  <2>1. ASSUME NEW j \in 1..(i - 1) PROVE t >= Steps[j].limit
    <3>1. j \in DOMAIN Steps /\ j < i
      BY SMTT(30), <1>1
    <3>2. j \notin Above
      BY <3>1, <1>4
    <3>. QED BY SMTT(30), <3>1, <3>2, <1>1
  <2>. QED BY <2>1
<1>6. \E b \in DOMAIN Steps : Banded(b)
  BY <1>5
<1>7. (CHOOSE b \in DOMAIN Steps : Banded(b)) \in DOMAIN Steps
  <2>. HIDE DEF Banded
  <2>. QED BY <1>6
<1>8. Cap(t) = Steps[CHOOSE b \in DOMAIN Steps : Banded(b)].cpus
  BY DEF Cap
<1>. HIDE DEF Banded
<1>. QED BY <1>1, <1>7, <1>8 DEF Caps, NotSet

(* The reduced cap and the top cap are caps. *)
LEMMA NamedCaps == ResumeCpus \in Caps /\ TopCpus \in Caps
<1>1. Steps # <<>> /\ Steps \in Seq([limit : Nat, cpus : Nat \ {0}])
  BY GovernorAssumption DEF GovernorAssumption
<1>2. 1 \in DOMAIN Steps
  BY <1>1
<1>. QED BY <1>2 DEF Caps, TopCpus

-----------------------------------------------------------------------------
(* The inductive invariant. *)

(* The second half of a resume follows the first: the cap is reduced,       *)
(* unless docker got round to an update in between.                         *)
ReducedBeforeThaw == phase = "resume_thaw" => quota = ResumeCpus \/ strayCap

(* The pause the governor holds for its own is its own, unless it was       *)
(* undone unseen or the container is gone.                                  *)
HoldsItsOwnPause ==
  wePaused => \/ container = "paused" /\ pausedBy = "us"
              \/ undone
              \/ container = "gone"

GovernorInv == TypeOK /\ CapAsBelieved /\ ReducedBeforeThaw /\ HoldsItsOwnPause

(* What the governor gives up is a command. *)
LEMMA IssuedIsCommand ==
  ASSUME TypeOK,
         phase \in {"pause", "cap", "resume_cap", "resume_thaw", "exit_cap", "exit_thaw"}
  PROVE  Issued \in Commands
BY NamedCaps DEF TypeOK, Issued, Command, Commands

LEMMA InitGovernorInv == Init => GovernorInv
BY DEF Init, GovernorInv, TypeOK, CapAsBelieved, ReducedBeforeThaw, HoldsItsOwnPause,
       Phases, AsDeployed, NotSet

LEMMA StepKeepsType == TypeOK /\ [Next]_vars => TypeOK'
<1>. SUFFICES ASSUME TypeOK, [Next]_vars PROVE TypeOK'
  OBVIOUS
<1>. USE NamedCaps DEF TypeOK, Phases, world, governor, strays
<1>1. CASE Inspect
  BY <1>1 DEF Inspect, Poll
<1>2. CASE InspectFails
  BY <1>2 DEF InspectFails, Poll
<1>3. CASE Decide
  <2>1. CASE ~wePaused /\ temp < PauseAt /\ Cap(temp) # cur /\ phase' = "cap" /\ wanted' = Cap(temp)
    BY <1>3, <2>1, CapIsACap DEF Decide
  <2>2. CASE ~(~wePaused /\ temp < PauseAt /\ Cap(temp) # cur /\ phase' = "cap" /\ wanted' = Cap(temp))
    BY <1>3, <2>2 DEF Decide
  <2>. QED BY <2>1, <2>2
<1>4. CASE NoReading
  BY <1>4 DEF NoReading
<1>5. CASE Pause
  BY <1>5 DEF Pause
<1>6. CASE SetCpus
  BY <1>6 DEF SetCpus, Updates
<1>7. CASE ResumeCap
  BY <1>7 DEF ResumeCap, Updates
<1>8. CASE ResumeThaw
  BY <1>8 DEF ResumeThaw, Thaw
<1>9. CASE CommandFails
  <2>1. Issued \in Commands
    BY <1>9, IssuedIsCommand DEF CommandFails
  <2>. QED BY <1>9, <2>1 DEF CommandFails, Fails
<1>10. CASE ExitCap
  BY <1>10 DEF ExitCap, Updates
<1>11. CASE ExitThaw
  BY <1>11 DEF ExitThaw, Thaw
<1>12. CASE ExitCommandFails
  <2>1. Issued \in Commands
    BY <1>12, IssuedIsCommand DEF ExitCommandFails
  <2>. QED BY <1>12, <2>1 DEF ExitCommandFails, Fails
<1>13. CASE Stop
  BY <1>13 DEF Stop
<1>14. CASE Heat
  BY <1>14 DEF Heat
<1>15. CASE OtherPauses
  BY <1>15 DEF OtherPauses, PausedBy
<1>16. CASE OtherUnpauses
  BY <1>16 DEF OtherUnpauses, Unpaused
<1>17. CASE ContainerExits
  BY <1>17 DEF ContainerExits
<1>18. CASE \E c \in late : LateCommand(c)
  <2>1. PICK c \in late : LateCommand(c)
    BY <1>18
  <2>2. late' \in SUBSET Commands
    BY <2>1 DEF LateCommand
  <2>3. quota' = quota \/ quota' \in Caps \cup {AsDeployed}
    <3>1. c.cpus \in Caps \cup {AsDeployed}
      BY DEF Commands, NotSet, AsDeployed
    <3>. QED BY <2>1, <3>1 DEF LateCommand
  <2>4. strayCap' = strayCap \/ strayCap' = TRUE
    BY <2>1 DEF LateCommand
  <2>5. /\ container' \in {"running", "paused", "gone"}
        /\ pausedBy' \in {"nobody", "us", "stray", "other"}
        /\ undone' \in BOOLEAN
    BY <2>1 DEF LateCommand, PausedBy, Unpaused
  <2>. QED BY <2>1, <2>2, <2>3, <2>4, <2>5 DEF LateCommand
<1>19. CASE UNCHANGED vars
  BY <1>19 DEF vars
<1>. QED BY <1>1, <1>2, <1>3, <1>4, <1>5, <1>6, <1>7, <1>8, <1>9, <1>10, <1>11, <1>12,
            <1>13, <1>14, <1>15, <1>16, <1>17, <1>18, <1>19 DEF Next, Step, Works, World

LEMMA StepKeepsRest ==
  GovernorInv /\ [Next]_vars => CapAsBelieved' /\ ReducedBeforeThaw' /\ HoldsItsOwnPause'
<1>. SUFFICES ASSUME GovernorInv, [Next]_vars
              PROVE  CapAsBelieved' /\ ReducedBeforeThaw' /\ HoldsItsOwnPause'
  OBVIOUS
<1>. USE DEF GovernorInv, TypeOK, CapAsBelieved, ReducedBeforeThaw, HoldsItsOwnPause, Leaving,
             world, governor, strays, Phases
<1>1. CASE Inspect
  BY <1>1 DEF Inspect, Poll
<1>2. CASE InspectFails
  BY <1>2 DEF InspectFails, Poll
<1>3. CASE Decide
  BY <1>3 DEF Decide
<1>4. CASE NoReading
  BY <1>4 DEF NoReading
<1>5. CASE Pause
  BY <1>5 DEF Pause
<1>6. CASE SetCpus
  BY <1>6 DEF SetCpus, Updates
<1>7. CASE ResumeCap
  BY <1>7 DEF ResumeCap, Updates
<1>8. CASE ResumeThaw
  BY <1>8 DEF ResumeThaw, Thaw
<1>9. CASE CommandFails
  BY <1>9 DEF CommandFails
<1>10. CASE ExitCap
  BY <1>10 DEF ExitCap, Updates
<1>11. CASE ExitThaw
  BY <1>11 DEF ExitThaw, Thaw
<1>12. CASE ExitCommandFails
  BY <1>12 DEF ExitCommandFails
<1>13. CASE Stop
  BY <1>13 DEF Stop
<1>14. CASE Heat
  BY <1>14 DEF Heat
<1>15. CASE OtherPauses
  BY <1>15 DEF OtherPauses, PausedBy
<1>16. CASE OtherUnpauses
  BY <1>16 DEF OtherUnpauses, Unpaused
<1>17. CASE ContainerExits
  BY <1>17 DEF ContainerExits
<1>18. CASE \E c \in late : LateCommand(c)
  <2>1. PICK c \in late : LateCommand(c)
    BY <1>18
  <2>. QED BY <2>1 DEF LateCommand, PausedBy, Unpaused
<1>19. CASE UNCHANGED vars
  BY <1>19 DEF vars
<1>. QED BY <1>1, <1>2, <1>3, <1>4, <1>5, <1>6, <1>7, <1>8, <1>9, <1>10, <1>11, <1>12,
            <1>13, <1>14, <1>15, <1>16, <1>17, <1>18, <1>19 DEF Next, Step, Works, World

(* The invariant of the governor, whatever docker, the sensors and the      *)
(* other users of the container do.                                         *)
THEOREM GovernorInvariantHolds == Spec => []GovernorInv
<1>1. GovernorInv /\ [Next]_vars => GovernorInv'
  BY StepKeepsType, StepKeepsRest DEF GovernorInv
<1>. QED BY InitGovernorInv, <1>1, PTL DEF Spec

(* What the governor believes and what the container is have their types.   *)
THEOREM TypeCorrect == Spec => []TypeOK
BY GovernorInvariantHolds, PTL DEF GovernorInv

(* The cap the governor would not send again is the cap the container has,  *)
(* unless docker carried out an update the governor had given up.           *)
THEOREM CapAsBelievedHolds == Spec => []CapAsBelieved
<1>1. GovernorInv => CapAsBelieved
  BY DEF GovernorInv
<1>. QED BY GovernorInvariantHolds, <1>1, PTL

-----------------------------------------------------------------------------
(* Only a resume and the exit make a paused container run by the governor's *)
(* hand, and they do it only while it holds a pause.                        *)
LEMMA OnlyThawRuns ==
  ASSUME TypeOK, [Next]_vars, phase' # phase, container = "paused", container' = "running"
  PROVE  \/ phase = "resume_thaw" /\ wePaused /\ ResumeThaw
         \/ phase = "exit_thaw" /\ wePaused /\ ExitThaw
BY DEF TypeOK, vars, Next, Step, Works, World, world, governor, Inspect, InspectFails, Poll,
       Decide, NoReading, Pause, SetCpus, ResumeCap, ResumeThaw, CommandFails, ExitCap,
       ExitThaw, ExitCommandFails, Stop, Heat, OtherPauses, PausedBy, OtherUnpauses, Unpaused,
       ContainerExits, LateCommand

(* The governor never undoes a pause it did not make, but for one put in    *)
(* the place of its own unseen.                                             *)
THEOREM UndoesOnlyOwnPauseHolds == Spec => UndoesOnlyOwnPause
<1>1. GovernorInv /\ [Next]_vars =>
        [phase' # phase /\ container = "paused" /\ container' = "running"
         => pausedBy = "us" \/ undone]_vars
  BY OnlyThawRuns DEF GovernorInv, HoldsItsOwnPause
<1>. QED BY GovernorInvariantHolds, <1>1, PTL DEF Spec, UndoesOnlyOwnPause

(* Every resume finds the reduced cap in place, or that of an update given  *)
(* up which docker carried out in between.                                  *)
THEOREM ResumesCappedHolds == Spec => ResumesCapped
<1>1. GovernorInv /\ [Next]_vars =>
        [phase = "resume_thaw" /\ container = "paused" /\ container' = "running" /\ phase' # phase
         => (quota = ResumeCpus \/ strayCap) /\ cur' = ResumeCpus]_vars
  BY OnlyThawRuns DEF GovernorInv, TypeOK, ReducedBeforeThaw, ResumeThaw
<1>. QED BY GovernorInvariantHolds, <1>1, PTL DEF Spec, ResumesCapped
=============================================================================
