---------------------------- MODULE TurnProtocol ----------------------------
(***************************************************************************)
(* What a client of the realtime gateway is promised about the order of    *)
(* the response events of one session, whatever the backends, the clock    *)
(* and the speaker do.                                                     *)
(*                                                                         *)
(* A committed turn is PENDING until it is transcribed.  It then goes back *)
(* to the user without a word (blank transcript), or a response STARTS; or *)
(* it ends before one does, interrupted or failed.  A response that        *)
(* started makes progress any number of times and ends once: done,         *)
(* interrupted or failed.  Nothing is emitted about a turn that is over,   *)
(* about a turn that is not the current one, or after the session is gone. *)
(***************************************************************************)
EXTENDS Naturals

CONSTANT MaxTurns    \* how many turns a session may have (bound of the runs)

VARIABLES turn,      \* the number of the current turn, 0 before the first
          phase,     \* who is being waited for
          notice     \* the event the last step emitted: [kind, turn]

protocolVars == <<turn, phase, notice>>

Phases == {"user", "pending", "answering", "gone"}
ProgressKinds == {"none", "reply_text", "reply_segment", "tool_call", "audio"}

Silence == [kind |-> "none", turn |-> 0]
Notice(kind) == [kind |-> kind, turn |-> turn]

Init == /\ turn = 0
        /\ phase = "user"
        /\ notice = Silence

(***************************************************************************)
(* The user speaks.  A turn committed over a running one interrupts it.    *)
(***************************************************************************)
Commit == /\ phase # "gone"
          /\ turn < MaxTurns
          /\ notice' = IF phase = "user" THEN Silence ELSE Notice("interrupted")
          /\ turn' = turn + 1
          /\ phase' = "pending"

Dismiss == /\ phase = "pending"
           /\ phase' = "user"
           /\ notice' = Silence
           /\ UNCHANGED turn

Start == /\ phase = "pending"
         /\ phase' = "answering"
         /\ notice' = Notice("started")
         /\ UNCHANGED turn

(***************************************************************************)
(* The machine answers.                                                    *)
(***************************************************************************)
Progress == /\ phase = "answering"
            /\ \/ notice' = Silence
               \/ \E kind \in ProgressKinds \ {"none"} : notice' = Notice(kind)
            /\ UNCHANGED <<turn, phase>>

Finish == /\ phase = "answering"
          /\ phase' = "user"
          /\ notice' = Notice("done")
          /\ UNCHANGED turn

(* A turn may be given up before it was announced, too: by the user, or     *)
(* because it was not transcribed in time.                                  *)
Abandon == /\ phase \in {"pending", "answering"}
           /\ phase' = "user"
           /\ \E kind \in {"interrupted", "failed"} : notice' = Notice(kind)
           /\ UNCHANGED turn

Leave == /\ phase # "gone"
         /\ phase' = "gone"
         /\ notice' = Silence
         /\ UNCHANGED turn

(* Time passes, or the speaker does something nobody answers. *)
Quiet == /\ notice' = Silence
         /\ UNCHANGED <<turn, phase>>

Next == Commit \/ Dismiss \/ Start \/ Progress \/ Finish \/ Abandon \/ Leave \/ Quiet

Spec == Init /\ [][Next]_protocolVars
=============================================================================
