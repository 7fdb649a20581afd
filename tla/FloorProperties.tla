-------------------------- MODULE FloorProperties --------------------------
(***************************************************************************)
(* What has to be true of the floor (Floor.tla).                           *)
(***************************************************************************)
EXTENDS Floor

-----------------------------------------------------------------------------
(* Invariants. *)

(* The one deadline that is armed is the deadline of what the machine is    *)
(* waiting for: generate until the reply is final, then tts while any       *)
(* segment lacks audio, then none (_rearm_speaking).                        *)
DeadlineMatchesWait ==
  /\ state \in {"listening", "closed"} => armed = Unarmed
  /\ state = "transcribing" => armed = "transcribe"
  /\ state = "responding" => armed = "generate"
  /\ state = "tool_wait" => armed = "tool"
  /\ state = "speaking" =>
       armed = IF ~finalSeen THEN "generate"
               ELSE IF AwaitsAudio(segments) THEN "tts" ELSE Unarmed

(* "the floor never wedges": while the machine holds the floor, either a    *)
(* deadline is armed, so the watchdog will end the turn, or the pump has a  *)
(* chunk to send right now (deliver_next, _complete_if_drained).            *)
NeverWedged == MachineHolds => (armed # Unarmed \/ Deliverable)

(* Audio is sent strictly in segment order, whatever the order in which the *)
(* syntheses return: everything before the current segment has been sent    *)
(* whole, nothing after it has been touched.                                *)
DeliveryInOrder ==
  \A i \in DOMAIN segments :
    /\ i <= current => Drained(segments[i])
    /\ i = current + 1 => ~Drained(segments[i])
    /\ i > current + 1 => segments[i].sent = 0

(* A late answer of an earlier turn never gets into this turn's reply:      *)
(* every queued sentence was generated, and every audio synthesized, for    *)
(* the current turn.                                                        *)
ReplyBelongsToTurn ==
  \A i \in DOMAIN segments :
    /\ segments[i].text = turn
    /\ HasAudio(segments[i]) => segments[i].voice = turn

(* No reply outlives its turn: the queue is empty unless the machine is     *)
(* speaking it, and then something of it is still to come.                  *)
ReplyOnlyWhileSpeaking ==
  IF state = "speaking"
  THEN /\ segments # <<>>
       /\ current <= Len(segments)
       /\ finalSeen => current < Len(segments)
  ELSE segments = <<>> /\ current = 0 /\ finalSeen = FALSE /\ chunksSent = 0

(* Only audio that exists is sent. *)
SentIsSynthesized == \A i \in DOMAIN segments : segments[i].sent <= segments[i].total

(* The inductive invariant: each conjunct needs the others.  A segment that *)
(* gains audio is not drained because nothing of it was sent before         *)
(* (SentIsSynthesized); a disarmed deadline leaves something to deliver     *)
(* because the current segment is never drained (DeliveryInOrder) and a     *)
(* final reply is never finished (ReplyOnlyWhileSpeaking).                  *)
FloorInv ==
  /\ TypeOK
  /\ DeadlineMatchesWait
  /\ ReplyOnlyWhileSpeaking
  /\ DeliveryInOrder
  /\ ReplyBelongsToTurn
  /\ SentIsSynthesized

-----------------------------------------------------------------------------
(* Action properties. *)

(* A stream that keeps producing sentences does not move the deadline of    *)
(* the generate stage: within one leg of one turn the time left never       *)
(* grows, so a wedged stream cannot run forever "one segment at a time".    *)
DeadlineKept ==
  (armed = "generate" /\ armed' = "generate" /\ turn' = turn /\ legs' = legs)
    => remaining' <= remaining

StreamCannotExtendDeadline == [][DeadlineKept]_floorVars

Unsent(segs) == {i \in DOMAIN segs : ~Drained(segs[i])}

(* response.done tells the client that the whole reply was delivered: at    *)
(* that step every segment has been synthesized and sent, except for the    *)
(* very chunk the step sends, and the count it reports is the number of     *)
(* chunks sent.                                                             *)
DoneDelivered ==
  (event'.kind = "done") =>
    \/ Unsent(segments) = {} /\ event'.n = chunksSent
    \/ /\ finalSeen
       /\ Unsent(segments) = {Len(segments)}
       /\ segments[Len(segments)].total = segments[Len(segments)].sent + 1
       /\ event'.n = chunksSent + 1

DoneMeansDelivered == [][DoneDelivered]_floorVars

-----------------------------------------------------------------------------
(* The floor keeps the promise of TurnProtocol. *)

PhaseOf == [listening |-> "user", closed |-> "gone", transcribing |-> "pending",
            responding |-> "answering", tool_wait |-> "answering",
            speaking |-> "answering"]

Protocol == INSTANCE TurnProtocol
  WITH phase <- PhaseOf[state],
       notice <- [kind |-> event.kind, turn |-> event.turn]

(* Per turn the client sees: nothing; or only that it was interrupted or    *)
(* failed, while it was transcribed; or one start, then progress, then      *)
(* exactly one of done, interrupted and failed; and nothing afterwards.     *)
KeepsProtocol == Protocol!Spec

-----------------------------------------------------------------------------
(* Liveness, under Fairness. *)

(* "The floor never wedges": whatever the backends do or fail to do, every  *)
(* turn the machine takes comes to an end.                                  *)
EveryTurnEnds ==
  \A t \in 1..MaxTurns : (MachineHolds /\ turn = t) ~> ~(MachineHolds /\ turn = t)
=============================================================================
