------------------------- MODULE GovernorProperties -------------------------
(* What the thermal governor owes the machine and the container.           *)
EXTENDS Governor

Leaving == phase \in {"exit_cap", "exit_thaw", "stopped"}

(* The governor sends a cap only when it differs from the last one it set,  *)
(* so a wrong idea of the cap is never corrected: until it leaves, the cap  *)
(* it believes in is the real one, unless its pause holds and a resume got  *)
(* only as far as the cap, or docker carried out an update it had given up. *)
CapAsBelieved ==
  cur # NotSet /\ ~Leaving
  => quota = cur \/ (wePaused /\ quota = ResumeCpus) \/ strayCap

(* A command of the governor that answers undoes only its own pause, in a   *)
(* resume and on the way out.  The exception is a pause put in the place of *)
(* its own between two of its inspections, which docker cannot tell it.     *)
UndoesOnlyOwnPause ==
  [][phase' # phase /\ container = "paused" /\ container' = "running"
     => pausedBy = "us" \/ undone]_vars

(* A resumed container has its reduced cap before it runs, or that of an    *)
(* update given up that docker carried out in between, whatever command     *)
(* failed and however often the resume was begun; and the governor takes it *)
(* to have the reduced cap.                                                 *)
ResumesCapped ==
  [][phase = "resume_thaw" /\ container = "paused" /\ container' = "running" /\ phase' # phase
     => (quota = ResumeCpus \/ strayCap) /\ cur' = ResumeCpus]_vars

(* Once the temperature stays in a band and nobody pauses the container,    *)
(* its cap becomes the one of the band, whatever failed before.  The        *)
(* exception is an update the governor gave up, which docker carried out    *)
(* after the governor had set the cap of the band: it is not sent again.    *)
CapFollows ==
  \A t \in Temps :
    t < PauseAt /\ <>[](temp = t /\ container = "running" /\ ~Leaving)
    => <>[](quota = Cap(t) \/ (cur = Cap(t) /\ strayCap))

(* A container that stays too hot is found paused again and again, however  *)
(* often somebody unpauses it.                                              *)
PausesWhenHot ==
  \A t \in Temps :
    t >= PauseAt /\ <>[](temp = t /\ container # "gone" /\ ~Leaving)
    => []<>(container = "paused")

(* A container that has cooled down does not stay paused by the governor,   *)
(* as far as the governor knows of its pause, whatever commands failed, or  *)
(* were given up and carried out.                                           *)
ThawsWhenCool ==
  \A t \in Temps :
    t < ResumeAt /\ <>[](temp = t /\ container # "gone" /\ ~Leaving)
    => []<>(pausedBy # "us")

(* "A paused container resumes below 86 C" (the head of _governor.py), of   *)
(* every pause the governor made, one docker carried out after the command  *)
(* was given up included.                                                   *)
EveryPauseIsLifted ==
  \A t \in Temps :
    t < ResumeAt /\ <>[](temp = t /\ container # "gone" /\ ~Leaving)
    => []<>(pausedBy \notin {"us", "stray"})

(* cleanup's docstring: "On exit: top-band cap back, and unpause only a     *)
(* pause we made."  A governor that has stopped, believing the top cap      *)
(* restored, has restored it.                                               *)
ExitRestoresCap ==
  phase = "stopped" /\ container # "gone" /\ CapIsTop => quota \in {AsDeployed, TopCpus}
=============================================================================
