---------------------------- MODULE FloorProofs ----------------------------
(***************************************************************************)
(* The safety properties of the floor hold for every guard window, every   *)
(* choice of timeouts and every bound.                                     *)
(***************************************************************************)
EXTENDS FloorProperties, TLAPS

USE FloorAssumption DEF FloorAssumption

EventType == [kind : Kinds, turn : 0..MaxTurns, n : Nat]

-----------------------------------------------------------------------------
(* The inductive invariant. *)

(* The floor starts in the invariant. *)
LEMMA InitInv == Init => FloorInv
<1>. SUFFICES ASSUME Init PROVE FloorInv
  OBVIOUS
<1>1. event \in EventType
  BY DEF Init, NoEvent, Kinds, EventType
<1>2. state \in FloorStates /\ armed \in Stages \cup {Unarmed}
  BY DEF Init, FloorStates
<1>3. segments \in Seq(Segment)
  BY DEF Init
<1>. turn \in 0..MaxTurns /\ guard \in 0..Window /\ legs \in 0..MaxLegs
  BY DEF Init
<1>4. TypeOK
  BY <1>1, <1>2, <1>3 DEF Init, TypeOK, EventType
<1>5. DeadlineMatchesWait
  BY DEF Init, DeadlineMatchesWait
<1>6. ReplyOnlyWhileSpeaking
  BY DEF Init, ReplyOnlyWhileSpeaking
<1>7. DeliveryInOrder /\ ReplyBelongsToTurn /\ SentIsSynthesized
  BY DEF Init, DeliveryInOrder, ReplyBelongsToTurn, SentIsSynthesized
<1>. QED BY <1>4, <1>5, <1>6, <1>7 DEF FloorInv

(* A step to a state without a reply: the properties of the reply hold by  *)
(* themselves.                                                             *)
LEMMA NoReplyInv ==
  ASSUME FloorInv, event' \in EventType,
         state' \in FloorStates \ {"speaking"}, turn' \in 0..MaxTurns,
         guard' \in 0..Window, armed' \in Stages \cup {Unarmed}, remaining' \in Nat,
         legs' \in 0..MaxLegs, segments' = <<>>, current' = 0, finalSeen' = FALSE,
         chunksSent' = 0, DeadlineMatchesWait'
  PROVE  FloorInv'
<1>1. segments' \in Seq(Segment)
  OBVIOUS
<1>2. TypeOK'
  BY <1>1 DEF TypeOK, EventType
<1>3. ReplyOnlyWhileSpeaking'
  BY DEF ReplyOnlyWhileSpeaking
<1>4. (DeliveryInOrder /\ ReplyBelongsToTurn /\ SentIsSynthesized)'
  BY DEF DeliveryInOrder, ReplyBelongsToTurn, SentIsSynthesized
<1>. QED BY <1>2, <1>3, <1>4 DEF FloorInv

(* Whatever ends a turn leaves nothing of it behind (_release). *)
LEMMA ReleaseInv ==
  ASSUME FloorInv, Release, UNCHANGED <<turn, guard, legs>>, event' \in EventType
  PROVE  FloorInv'
<1>1. /\ segments' = <<>> /\ current' = 0 /\ finalSeen' = FALSE /\ chunksSent' = 0
      /\ state' = "listening" /\ armed' = Unarmed /\ remaining' = 0
  BY DEF Release, Disarm, DropReply
<1>2. turn' \in 0..MaxTurns /\ guard' \in 0..Window /\ legs' \in 0..MaxLegs
  BY DEF FloorInv, TypeOK
<1>3. state' \in FloorStates \ {"speaking"} /\ armed' \in Stages \cup {Unarmed}
  BY <1>1 DEF FloorStates
<1>4. DeadlineMatchesWait'
  BY <1>1 DEF DeadlineMatchesWait
<1>. QED BY <1>1, <1>2, <1>3, <1>4, NoReplyInv

LEMMA EventTyped ==
  ASSUME FloorInv, NEW kind \in Kinds, NEW k \in Nat
  PROVE  Event(kind, k) \in EventType
BY DEF FloorInv, TypeOK, Event, EventType

(* Each way to end a response is a release with an event of its own. *)
LEMMA InterruptInv == FloorInv /\ Interrupt => FloorInv'
<1>. SUFFICES ASSUME FloorInv, Interrupt PROVE FloorInv'
  OBVIOUS
<1>1. event' \in EventType
  BY EventTyped DEF Interrupt, FloorInv, TypeOK, Kinds
<1>. QED BY <1>1, ReleaseInv DEF Interrupt

LEMMA FailInv == FloorInv /\ Fail => FloorInv'
<1>. SUFFICES ASSUME FloorInv, Fail PROVE FloorInv'
  OBVIOUS
<1>1. event' \in EventType
  BY EventTyped DEF Fail, Kinds
<1>. QED BY <1>1, ReleaseInv DEF Fail

LEMMA CompleteInv ==
  ASSUME FloorInv, NEW k \in Nat, Complete(k)
  PROVE  FloorInv'
<1>1. event' \in EventType
  BY EventTyped DEF Complete, Kinds
<1>. QED BY <1>1, ReleaseInv DEF Complete

(* A commit. *)
LEMMA OnTurnCommittedInv == FloorInv /\ OnTurnCommitted => FloorInv'
<1>. SUFFICES ASSUME FloorInv, OnTurnCommitted PROVE FloorInv'
  OBVIOUS
<1>1. /\ segments' = <<>> /\ current' = 0 /\ finalSeen' = FALSE /\ chunksSent' = 0
      /\ state' = "transcribing" /\ armed' = "transcribe"
      /\ remaining' = Timeout["transcribe"]
      /\ turn' = turn + 1 /\ guard' = Window /\ legs' = 0
  BY DEF OnTurnCommitted, OpenTurn, Arm, DropReply
<1>2. event' \in EventType
  <2>1. NoEvent \in EventType
    BY DEF NoEvent, EventType, Kinds
  <2>2. Event("interrupted", chunksSent) \in EventType
    BY EventTyped DEF FloorInv, TypeOK, Kinds
  <2>. QED BY <2>1, <2>2 DEF OnTurnCommitted
<1>3. /\ turn' \in 0..MaxTurns /\ guard' \in 0..Window
      /\ remaining' \in Nat /\ legs' \in 0..MaxLegs
  BY <1>1 DEF FloorInv, TypeOK, OnTurnCommitted, Stages
<1>4. state' \in FloorStates \ {"speaking"} /\ armed' \in Stages \cup {Unarmed}
  BY <1>1 DEF FloorStates, MachineHeld, Stages
<1>5. DeadlineMatchesWait'
  BY <1>1 DEF DeadlineMatchesWait
<1>. QED BY <1>1, <1>2, <1>3, <1>4, <1>5, NoReplyInv

(* The transcript arrives. *)
LEMMA OnTranscriptInv ==
  ASSUME FloorInv, NEW t \in 1..MaxTurns, NEW blank \in BOOLEAN, OnTranscript(t, blank)
  PROVE  FloorInv'
<1>1. CASE blank
  <2>1. event' \in EventType
    BY <1>1 DEF OnTranscript, NoEvent, EventType, Kinds
  <2>. QED BY <1>1, <2>1, ReleaseInv DEF OnTranscript
<1>2. CASE ~blank
  <2>1. /\ state = "transcribing" /\ state' = "responding"
        /\ armed' = "generate" /\ remaining' = Timeout["generate"]
        /\ UNCHANGED <<segments, current, finalSeen, chunksSent, turn, guard, legs>>
    BY <1>2 DEF OnTranscript, Accepts, Arm, reply
  <2>2. event' \in EventType
    BY <1>2, EventTyped DEF OnTranscript, Kinds
  <2>3. segments' = <<>> /\ current' = 0 /\ finalSeen' = FALSE /\ chunksSent' = 0
    BY <2>1 DEF FloorInv, ReplyOnlyWhileSpeaking
  <2>4. state' \in FloorStates \ {"speaking"} /\ armed' \in Stages \cup {Unarmed}
    BY <2>1 DEF FloorStates, MachineHeld, Stages
  <2>5. /\ turn' \in 0..MaxTurns /\ guard' \in 0..Window
        /\ remaining' \in Nat /\ legs' \in 0..MaxLegs
    BY <2>1 DEF FloorInv, TypeOK, Stages
  <2>6. DeadlineMatchesWait'
    BY <2>1 DEF DeadlineMatchesWait
  <2>. QED BY <2>2, <2>3, <2>4, <2>5, <2>6, NoReplyInv
<1>. QED BY <1>1, <1>2

-----------------------------------------------------------------------------
(* The steps that build and speak a reply. *)

(* _rearm_speaking arms what the new queue waits for. *)
LEMMA RearmMatches ==
  ASSUME FloorInv, NEW segs, NEW final \in BOOLEAN, RearmSpeaking(segs, final)
  PROVE  /\ armed' \in Stages \cup {Unarmed}
         /\ remaining' \in Nat
         /\ armed' = IF ~final THEN "generate"
                     ELSE IF AwaitsAudio(segs) THEN "tts" ELSE Unarmed
<1>1. \A stage \in Stages : Timeout[stage] \in Nat
  OBVIOUS
<1>2. remaining \in Nat
  BY DEF FloorInv, TypeOK
<1>3. CASE ~final
  BY <1>1, <1>2, <1>3 DEF RearmSpeaking, KeepOrArm, Stages
<1>4. CASE final /\ AwaitsAudio(segs)
  BY <1>1, <1>2, <1>4 DEF RearmSpeaking, KeepOrArm, Stages
<1>5. CASE final /\ ~AwaitsAudio(segs)
  BY <1>5 DEF RearmSpeaking, Disarm
<1>. QED BY <1>3, <1>4, <1>5

(* One more segment. *)
LEMMA AppendSegmentInv ==
  ASSUME FloorInv, NEW t \in 1..MaxTurns, t = turn, NEW final \in BOOLEAN,
         NEW kind \in Kinds, state \in {"responding", "speaking"},
         AppendSegment(t, final, kind)
  PROVE  FloorInv'
<1>. DEFINE new == [text |-> t, voice |-> 0, total |-> 0, sent |-> 0]
<1>1. segments \in Seq(Segment) /\ new \in Segment
  BY DEF FloorInv, TypeOK, Segment
<1>2. /\ segments' = Append(segments, new)
      /\ state' = "speaking" /\ finalSeen' = (finalSeen \/ final)
      /\ RearmSpeaking(segments', finalSeen')
      /\ UNCHANGED <<turn, guard, current, chunksSent, legs>>
  BY DEF AppendSegment
<1>3. /\ segments' \in Seq(Segment)
      /\ Len(segments') = Len(segments) + 1
      /\ \A i \in DOMAIN segments : segments'[i] = segments[i]
      /\ segments'[Len(segments) + 1] = new
      /\ DOMAIN segments' = 1..(Len(segments) + 1)
      /\ DOMAIN segments = 1..Len(segments)
      /\ Len(segments) \in Nat
  BY <1>1, <1>2
<1>4. current \in Nat /\ current <= Len(segments)
  BY DEF FloorInv, TypeOK, ReplyOnlyWhileSpeaking
<1>5. finalSeen' \in BOOLEAN
  BY <1>2 DEF FloorInv, TypeOK
<1>6. /\ armed' \in Stages \cup {Unarmed} /\ remaining' \in Nat
      /\ armed' = IF ~finalSeen' THEN "generate"
                  ELSE IF AwaitsAudio(segments') THEN "tts" ELSE Unarmed
  BY <1>2, <1>5, RearmMatches
<1>7. event' \in EventType
  BY <1>3, EventTyped DEF AppendSegment
<1>8. TypeOK'
  <2>1. state' \in FloorStates
    BY <1>2 DEF FloorStates, MachineHeld
  <2>. QED BY <1>2, <1>3, <1>5, <1>6, <1>7, <2>1 DEF FloorInv, TypeOK, EventType
<1>9. DeadlineMatchesWait'
  <2>1. (AwaitsAudio(segments))' <=> AwaitsAudio(segments')
    BY DEF AwaitsAudio
  <2>. QED BY <1>2, <1>6, <2>1 DEF DeadlineMatchesWait
<1>10. ReplyOnlyWhileSpeaking'
  BY SMTT(30), <1>2, <1>3, <1>4 DEF ReplyOnlyWhileSpeaking
<1>11. DeliveryInOrder'
  BY <1>2, <1>3, <1>4 DEF FloorInv, DeliveryInOrder, Drained, HasAudio
<1>12. ReplyBelongsToTurn'
  BY <1>2, <1>3 DEF FloorInv, ReplyBelongsToTurn, HasAudio
<1>13. SentIsSynthesized'
  BY <1>2, <1>3 DEF FloorInv, SentIsSynthesized
<1>. QED BY <1>8, <1>9, <1>10, <1>11, <1>12, <1>13 DEF FloorInv

(* The reply ended: the last segment was already there. *)
LEMMA OnReplyEndInv ==
  ASSUME FloorInv, NEW t \in 1..MaxTurns, OnReplyEnd(t)
  PROVE  FloorInv'
<1>1. CASE current = Len(segments) /\ Complete(chunksSent)
  BY <1>1, CompleteInv DEF FloorInv, TypeOK
<1>2. CASE /\ current < Len(segments)
           /\ finalSeen' = TRUE
           /\ RearmSpeaking(segments, TRUE)
           /\ event' = NoEvent
           /\ UNCHANGED <<state, turn, guard, segments, current, chunksSent, legs>>
  <2>1. state = "speaking"
    BY DEF OnReplyEnd, FloorInv, ReplyOnlyWhileSpeaking, Accepts
  <2>2. /\ armed' \in Stages \cup {Unarmed} /\ remaining' \in Nat
        /\ armed' = IF AwaitsAudio(segments) THEN "tts" ELSE Unarmed
    BY <1>2, RearmMatches
  <2>3. event' \in EventType
    BY <1>2 DEF NoEvent, EventType, Kinds
  <2>4. TypeOK'
    BY <1>2, <2>2, <2>3 DEF FloorInv, TypeOK, EventType
  <2>5. DeadlineMatchesWait'
    BY <1>2, <2>1, <2>2 DEF DeadlineMatchesWait, AwaitsAudio
  <2>6. ReplyOnlyWhileSpeaking'
    BY <1>2, <2>1 DEF FloorInv, ReplyOnlyWhileSpeaking
  <2>7. DeliveryInOrder' /\ ReplyBelongsToTurn' /\ SentIsSynthesized'
    BY <1>2 DEF FloorInv, DeliveryInOrder, ReplyBelongsToTurn, SentIsSynthesized
  <2>. QED BY <2>4, <2>5, <2>6, <2>7 DEF FloorInv
<1>. QED BY <1>1, <1>2 DEF OnReplyEnd

(* The audio of a segment returns. *)
LEMMA OnAudioReadyInv ==
  ASSUME FloorInv, NEW t \in 1..MaxTurns, NEW i \in 1..MaxSegments,
         NEW size \in 0..MaxChunks, OnAudioReady(t, i, size)
  PROVE  FloorInv'
<1>1. CASE size = 0
  BY <1>1, FailInv DEF OnAudioReady
<1>2. CASE size > 0
  <2>1. /\ i \in DOMAIN segments /\ segments[i].total = 0
        /\ state = "speaking" /\ t = turn
        /\ segments' = [segments EXCEPT ![i] = [@ EXCEPT !.total = size, !.voice = t]]
        /\ RearmSpeaking(segments', finalSeen)
        /\ event' = NoEvent
        /\ UNCHANGED <<state, turn, guard, current, finalSeen, chunksSent, legs>>
    <3>1. segments[i] \in Segment
      BY SMTT(30) DEF OnAudioReady, FloorInv, TypeOK
    <3>. QED BY <1>2, <3>1 DEF OnAudioReady, Accepts, HasAudio, Segment
  <2>2. segments \in Seq(Segment)
    BY DEF FloorInv, TypeOK
  <2>3. /\ segments' \in Seq(Segment)
        /\ DOMAIN segments' = DOMAIN segments /\ Len(segments') = Len(segments)
        /\ DOMAIN segments = 1..Len(segments) /\ Len(segments) \in Nat
        /\ \A j \in DOMAIN segments : j # i => segments'[j] = segments[j]
        /\ segments'[i] = [segments[i] EXCEPT !.total = size, !.voice = t]
    <3>1. segments[i] \in Segment
      BY <2>1, <2>2
    <3>2. [segments[i] EXCEPT !.total = size] \in Segment
      BY <3>1 DEF Segment
    <3>3. \A segment \in Segment : [segment EXCEPT !.voice = t] \in Segment
      <4>1. t \in 0..MaxTurns
        OBVIOUS
      <4>. QED BY <4>1 DEF Segment
    <3>4. [[segments[i] EXCEPT !.total = size] EXCEPT !.voice = t] \in Segment
      BY <3>2, <3>3, Zenon
    <3>. QED BY <2>1, <2>2, <3>4
  <2>4. /\ segments'[i].total = size /\ segments'[i].voice = t
        /\ segments'[i].text = segments[i].text
        /\ segments'[i].sent = 0
    <3>1. segments[i] \in Segment /\ segments[i].sent <= segments[i].total
      BY <2>1, <2>2 DEF FloorInv, SentIsSynthesized
    <3>. QED BY SMTT(30), <2>1, <2>3, <3>1 DEF Segment
  <2>5. finalSeen \in BOOLEAN /\ current \in Nat
    BY DEF FloorInv, TypeOK
  <2>6. /\ armed' \in Stages \cup {Unarmed} /\ remaining' \in Nat
        /\ armed' = IF ~finalSeen THEN "generate"
                    ELSE IF AwaitsAudio(segments') THEN "tts" ELSE Unarmed
    BY <2>1, <2>5, RearmMatches
  <2>7. event' \in EventType
    BY <2>1 DEF NoEvent, EventType, Kinds
  <2>8. TypeOK'
    BY <2>1, <2>3, <2>6, <2>7 DEF FloorInv, TypeOK, EventType
  <2>9. DeadlineMatchesWait'
    BY <2>1, <2>6 DEF DeadlineMatchesWait, AwaitsAudio
  <2>10. ReplyOnlyWhileSpeaking'
    BY <2>1, <2>2, <2>3 DEF FloorInv, ReplyOnlyWhileSpeaking
  <2>11. DeliveryInOrder'
    <3>1. i > current
      BY <2>1, <2>3, <2>5 DEF FloorInv, DeliveryInOrder, Drained, HasAudio
    <3>. QED BY <1>2, <2>1, <2>3, <2>4, <2>5, <3>1
         DEF FloorInv, DeliveryInOrder, Drained, HasAudio
  <2>12. ReplyBelongsToTurn'
    BY <2>1, <2>3, <2>4 DEF FloorInv, ReplyBelongsToTurn, HasAudio
  <2>13. SentIsSynthesized'
    BY <1>2, <2>1, <2>3, <2>4 DEF FloorInv, SentIsSynthesized
  <2>. QED BY <2>8, <2>9, <2>10, <2>11, <2>12, <2>13 DEF FloorInv
<1>. QED BY <1>1, <1>2

(* The pump sends a chunk. *)
LEMMA DeliverNextInv == FloorInv /\ DeliverNext => FloorInv'
<1>. SUFFICES ASSUME FloorInv, DeliverNext PROVE FloorInv'
  OBVIOUS
<1>. DEFINE k == current + 1
            last == segments[k].sent + 1 >= segments[k].total
<1>1. /\ segments \in Seq(Segment) /\ current \in Nat /\ chunksSent \in Nat
      /\ state = "speaking" /\ k \in DOMAIN segments
      /\ DOMAIN segments = 1..Len(segments) /\ Len(segments) \in Nat
  BY SMTT(30) DEF FloorInv, TypeOK, DeliverNext, Deliverable
<1>2. /\ segments[k] \in Segment /\ segments[k].sent < segments[k].total
      /\ segments[k].sent \in Nat /\ segments[k].total \in Nat
  <2>1. segments[k] \in Segment
    BY <1>1
  <2>. QED BY <1>1, <2>1 DEF DeliverNext, Deliverable, Drained, HasAudio, Segment
<1>3. CASE Complete(chunksSent + 1)
  BY <1>1, <1>3, CompleteInv
<1>4. CASE /\ ~(last /\ finalSeen /\ k = Len(segments))
           /\ segments' = [segments EXCEPT ![k].sent = @ + 1]
           /\ current' = IF last THEN current + 1 ELSE current
           /\ chunksSent' = chunksSent + 1
           /\ event' = Event("audio", 0)
           /\ UNCHANGED <<state, turn, guard, armed, remaining, finalSeen, legs>>
  <2>1. [segments[k] EXCEPT !.sent = @ + 1] \in Segment
    BY <1>2 DEF Segment
  <2>2. /\ segments' \in Seq(Segment)
        /\ DOMAIN segments' = DOMAIN segments /\ Len(segments') = Len(segments)
        /\ \A j \in DOMAIN segments : j # k => segments'[j] = segments[j]
        /\ segments'[k] = [segments[k] EXCEPT !.sent = @ + 1]
    BY <1>1, <1>4, <2>1
  <2>3. /\ segments'[k].text = segments[k].text /\ segments'[k].voice = segments[k].voice
        /\ segments'[k].total = segments[k].total
        /\ segments'[k].sent = segments[k].sent + 1
        /\ segments'[k].total \in Nat /\ segments'[k].sent \in Nat
    BY <1>2, <2>2 DEF Segment
  <2>4. event' \in EventType
    BY <1>4, EventTyped DEF Kinds
  <2>5. TypeOK'
    BY SMTT(30), <1>1, <1>4, <2>2, <2>4 DEF FloorInv, TypeOK, EventType
  <2>6. DeadlineMatchesWait'
    <3>1. (AwaitsAudio(segments))' <=> AwaitsAudio(segments)
      BY <1>1, <2>2, <2>3 DEF AwaitsAudio, HasAudio
    <3>. QED BY <1>4, <3>1 DEF FloorInv, DeadlineMatchesWait
  <2>7. ReplyOnlyWhileSpeaking'
    BY <1>1, <1>4, <2>2 DEF FloorInv, ReplyOnlyWhileSpeaking
  <2>8. DeliveryInOrder'
    <3>1. SUFFICES ASSUME NEW j \in DOMAIN segments
                   PROVE  /\ j <= current' => Drained(segments'[j])
                          /\ j = current' + 1 => ~Drained(segments'[j])
                          /\ j > current' + 1 => segments'[j].sent = 0
      BY <2>2 DEF DeliveryInOrder, Drained, HasAudio
    <3>2. /\ j <= current => Drained(segments[j])
          /\ j > k => segments[j].sent = 0
          /\ j > k => ~Drained(segments[j])
      <4>1. segments[j] \in Segment
        BY <1>1
      <4>2. segments[j].sent \in Nat /\ segments[j].total \in Nat
        BY <4>1 DEF Segment
      <4>3. /\ j <= current => Drained(segments[j])
            /\ j > k => segments[j].sent = 0
        BY DEF FloorInv, DeliveryInOrder
      <4>. QED BY <4>2, <4>3 DEF Drained, HasAudio
    <3>3. CASE j # k
      BY <1>1, <1>4, <2>2, <3>2, <3>3
    <3>4. CASE j = k
      BY SMTT(30), <1>1, <1>2, <1>4, <2>2, <2>3, <3>4 DEF Drained, HasAudio
    <3>. QED BY <3>3, <3>4
  <2>9. ReplyBelongsToTurn'
    BY <1>1, <1>4, <2>2, <2>3 DEF FloorInv, ReplyBelongsToTurn, HasAudio
  <2>10. SentIsSynthesized'
    <3>1. SUFFICES ASSUME NEW j \in DOMAIN segments
                   PROVE  segments'[j].sent <= segments'[j].total
      BY <2>2 DEF SentIsSynthesized
    <3>2. CASE j # k
      BY <2>2, <3>2 DEF FloorInv, SentIsSynthesized
    <3>3. CASE j = k
      BY <1>2, <2>3, <3>3
    <3>. QED BY <3>2, <3>3
  <2>. QED BY <2>5, <2>6, <2>7, <2>8, <2>9, <2>10 DEF FloorInv
<1>. QED BY <1>3, <1>4 DEF DeliverNext

-----------------------------------------------------------------------------
(* The steps that change the stage, and the rest. *)

LEMMA NextStageInv ==
  ASSUME FloorInv, NEW stage \in Stages, Arm(stage), event' \in EventType,
         state' \in FloorStates \ {"speaking"}, legs' \in 0..MaxLegs,
         segments' = <<>>, current' = 0, finalSeen' = FALSE, chunksSent' = 0,
         UNCHANGED <<turn, guard>>,
         \/ state' = "responding" /\ stage = "generate"
         \/ state' = "tool_wait" /\ stage = "tool"
  PROVE  FloorInv'
<1>1. armed' = stage /\ remaining' \in Nat
  BY DEF Arm
<1>2. turn' \in 0..MaxTurns /\ guard' \in 0..Window
  BY DEF FloorInv, TypeOK
<1>3. DeadlineMatchesWait'
  BY <1>1 DEF DeadlineMatchesWait
<1>. QED BY <1>1, <1>2, <1>3, NoReplyInv

LEMMA OnToolCallInv ==
  ASSUME FloorInv, NEW t \in 1..MaxTurns, OnToolCall(t)
  PROVE  FloorInv'
<1>1. segments' = <<>> /\ current' = 0 /\ finalSeen' = FALSE /\ chunksSent' = 0
  BY DEF FloorInv, ReplyOnlyWhileSpeaking, OnToolCall, Accepts
<1>2. event' \in EventType
  BY EventTyped DEF OnToolCall, Kinds
<1>3. /\ Arm("tool") /\ state' = "tool_wait" /\ "tool" \in Stages
      /\ state' \in FloorStates \ {"speaking"} /\ UNCHANGED <<turn, guard>>
  BY DEF OnToolCall, FloorStates, MachineHeld, Stages
<1>4. legs' \in 0..MaxLegs
  BY DEF FloorInv, TypeOK, OnToolCall
<1>. QED BY <1>1, <1>2, <1>3, <1>4, NextStageInv

LEMMA OnToolResultInv ==
  ASSUME FloorInv, NEW t \in 1..MaxTurns, OnToolResult(t)
  PROVE  FloorInv'
<1>1. segments' = <<>> /\ current' = 0 /\ finalSeen' = FALSE /\ chunksSent' = 0
  BY DEF FloorInv, ReplyOnlyWhileSpeaking, OnToolResult, Accepts
<1>2. event' \in EventType
  BY DEF OnToolResult, NoEvent, EventType, Kinds
<1>3. /\ Arm("generate") /\ state' = "responding" /\ "generate" \in Stages
      /\ state' \in FloorStates \ {"speaking"} /\ UNCHANGED <<turn, guard>>
  BY DEF OnToolResult, FloorStates, MachineHeld, Stages
<1>4. legs' \in 0..MaxLegs
  BY DEF FloorInv, TypeOK, OnToolResult
<1>. QED BY <1>1, <1>2, <1>3, <1>4, NextStageInv

LEMMA DiscardReplySegmentsInv ==
  ASSUME FloorInv, NEW t \in 1..MaxTurns, DiscardReplySegments(t)
  PROVE  FloorInv'
<1>1. segments' = <<>> /\ current' = 0 /\ finalSeen' = FALSE /\ chunksSent' = 0
  BY DEF DiscardReplySegments, DropReply
<1>2. event' \in EventType
  BY DEF DiscardReplySegments, NoEvent, EventType, Kinds
<1>3. /\ Arm("generate") /\ state' = "responding" /\ "generate" \in Stages
      /\ state' \in FloorStates \ {"speaking"} /\ UNCHANGED <<turn, guard>>
  BY DEF DiscardReplySegments, FloorStates, MachineHeld, Stages
<1>4. legs' \in 0..MaxLegs
  BY DEF FloorInv, TypeOK, DiscardReplySegments
<1>. QED BY <1>1, <1>2, <1>3, <1>4, NextStageInv

LEMMA CloseInv == FloorInv /\ Close => FloorInv'
<1>. SUFFICES ASSUME FloorInv, Close PROVE FloorInv'
  OBVIOUS
<1>1. /\ segments' = <<>> /\ current' = 0 /\ finalSeen' = FALSE /\ chunksSent' = 0
      /\ state' = "closed" /\ armed' = Unarmed /\ remaining' = 0
  BY DEF Close, Disarm, DropReply
<1>2. turn' \in 0..MaxTurns /\ guard' \in 0..Window /\ legs' \in 0..MaxLegs
  BY DEF FloorInv, TypeOK, Close
<1>3. event' \in EventType
  BY DEF Close, NoEvent, EventType, Kinds
<1>4. state' \in FloorStates \ {"speaking"} /\ armed' \in Stages \cup {Unarmed}
  BY <1>1 DEF FloorStates
<1>5. DeadlineMatchesWait'
  BY <1>1 DEF DeadlineMatchesWait
<1>. QED BY <1>1, <1>2, <1>3, <1>4, <1>5, NoReplyInv

LEMMA ElapseInv == FloorInv /\ Elapse => FloorInv'
<1>. SUFFICES ASSUME FloorInv, Elapse PROVE FloorInv'
  OBVIOUS
<1>1. guard' \in 0..Window /\ remaining' \in Nat
  BY DEF FloorInv, TypeOK, Elapse
<1>2. event' \in EventType
  BY DEF Elapse, NoEvent, EventType, Kinds
<1>3. UNCHANGED <<state, turn, armed, segments, current, finalSeen, chunksSent, legs>>
  BY DEF Elapse
<1>4. TypeOK'
  BY <1>1, <1>2, <1>3 DEF FloorInv, TypeOK, EventType
<1>. QED BY <1>3, <1>4
     DEF FloorInv, DeadlineMatchesWait, ReplyOnlyWhileSpeaking, DeliveryInOrder,
         ReplyBelongsToTurn, SentIsSynthesized, AwaitsAudio

LEMMA StutterInv == FloorInv /\ UNCHANGED floorVars => FloorInv'
BY DEF floorVars, FloorInv, TypeOK, DeadlineMatchesWait, ReplyOnlyWhileSpeaking,
       DeliveryInOrder, ReplyBelongsToTurn, SentIsSynthesized, AwaitsAudio

LEMMA UnmovedInv == FloorInv /\ Unmoved => FloorInv'
<1>. SUFFICES ASSUME FloorInv, Unmoved PROVE FloorInv'
  OBVIOUS
<1>1. event' \in EventType
  BY DEF Unmoved, NoEvent, EventType, Kinds
<1>2. UNCHANGED <<state, turn, guard, armed, remaining, segments, current, finalSeen,
                 chunksSent, legs>>
  BY DEF Unmoved, reply, deadline
<1>3. TypeOK'
  BY <1>1, <1>2 DEF FloorInv, TypeOK, EventType
<1>. QED BY <1>2, <1>3
     DEF FloorInv, DeadlineMatchesWait, ReplyOnlyWhileSpeaking, DeliveryInOrder,
         ReplyBelongsToTurn, SentIsSynthesized, AwaitsAudio

(* Every answer of a backend preserves the invariant. *)
LEMMA BackendInv == FloorInv /\ Backend => FloorInv'
<1>. SUFFICES ASSUME FloorInv,
                     NEW t \in 1..MaxTurns,
                     \/ \E blank \in BOOLEAN : OnTranscript(t, blank)
                     \/ OnReplyText(t)
                     \/ \E final \in BOOLEAN : OnReplySegment(t, final)
                     \/ OnEmptyReply(t)
                     \/ OnReplyEnd(t)
                     \/ OnToolCall(t)
                     \/ OnToolResult(t)
                     \/ DiscardReplySegments(t)
                     \/ \E i \in 1..MaxSegments, size \in 0..MaxChunks :
                          OnAudioReady(t, i, size)
                     \/ \E stage \in Stages \ {"tool"} : FailStage(stage, t)
              PROVE  FloorInv'
  BY DEF Backend
<1>1. CASE \E blank \in BOOLEAN : OnTranscript(t, blank)
  BY <1>1, OnTranscriptInv
<1>2. CASE OnReplyText(t)
  <2>1. t = turn /\ state \in {"responding", "speaking"} /\ "reply_text" \in Kinds
    BY <1>2 DEF OnReplyText, Accepts, Kinds
  <2>. QED BY <1>2, <2>1, AppendSegmentInv DEF OnReplyText
<1>3. CASE \E final \in BOOLEAN : OnReplySegment(t, final)
  <2>1. t = turn /\ state \in {"responding", "speaking"} /\ "reply_segment" \in Kinds
    BY <1>3 DEF OnReplySegment, Accepts, Kinds
  <2>. QED BY <1>3, <2>1, AppendSegmentInv DEF OnReplySegment
<1>4. CASE OnEmptyReply(t)
  BY <1>4, FailInv DEF OnEmptyReply
<1>5. CASE OnReplyEnd(t)
  BY <1>5, OnReplyEndInv
<1>6. CASE OnToolCall(t)
  BY <1>6, OnToolCallInv
<1>7. CASE OnToolResult(t)
  BY <1>7, OnToolResultInv
<1>8. CASE DiscardReplySegments(t)
  BY <1>8, DiscardReplySegmentsInv
<1>9. CASE \E i \in 1..MaxSegments, size \in 0..MaxChunks : OnAudioReady(t, i, size)
  BY <1>9, OnAudioReadyInv
<1>10. CASE \E stage \in Stages \ {"tool"} : FailStage(stage, t)
  BY <1>10, FailInv DEF FailStage
<1>. QED BY <1>1, <1>2, <1>3, <1>4, <1>5, <1>6, <1>7, <1>8, <1>9, <1>10

LEMMA StepInv == FloorInv /\ [Next]_floorVars => FloorInv'
<1>. SUFFICES ASSUME FloorInv, [Next]_floorVars PROVE FloorInv'
  OBVIOUS
<1>1. CASE Speaker
  BY <1>1, InterruptInv, OnTurnCommittedInv DEF Speaker, OnSpeechStarted, OnContinuationOnset
<1>2. CASE Backend
  BY <1>2, BackendInv
<1>3. CASE DeliverNext
  BY <1>3, DeliverNextInv
<1>4. CASE Tick
  BY <1>4, FailInv DEF Tick
<1>5. CASE Close
  BY <1>5, CloseInv
<1>6. CASE Elapse
  BY <1>6, ElapseInv
<1>7. CASE Unmoved
  BY <1>7, UnmovedInv
<1>8. CASE UNCHANGED floorVars
  BY <1>8, StutterInv
<1>. QED BY <1>1, <1>2, <1>3, <1>4, <1>5, <1>6, <1>7, <1>8 DEF Next

(* The inductive invariant holds for every guard window, every choice of    *)
(* timeouts and every bound: the floor's fields are never in a combination  *)
(* the class does not intend (_floor.py, the fields of Floor.__init__).     *)
THEOREM InvariantHolds == Spec => []FloorInv
<1>1. Init => FloorInv
  BY InitInv
<1>2. FloorInv /\ [Next]_floorVars => FloorInv'
  BY StepInv
<1>. QED BY <1>1, <1>2, PTL DEF Spec

-----------------------------------------------------------------------------
(* What follows from it. *)

(* The fields of the floor have their types. *)
THEOREM TypeCorrect == Spec => []TypeOK
BY InvariantHolds, PTL DEF FloorInv

(* The armed deadline is always the one of what the machine waits for       *)
(* (_rearm_speaking and every other _arm).                                  *)
THEOREM DeadlineMatchesWaitHolds == Spec => []DeadlineMatchesWait
BY InvariantHolds, PTL DEF FloorInv

(* While the machine holds the floor a deadline is armed or a chunk is      *)
(* ready: the reason the floor never wedges (_rearm_speaking, deliver_next, *)
(* _complete_if_drained).                                                   *)
LEMMA InvNeverWedged == FloorInv => NeverWedged
<1>. SUFFICES ASSUME FloorInv, MachineHolds, armed = Unarmed PROVE Deliverable
  BY DEF NeverWedged
<1>1. state = "speaking" /\ finalSeen /\ ~AwaitsAudio(segments)
  BY DEF FloorInv, DeadlineMatchesWait, MachineHolds, MachineHeld, Unarmed
<1>2. current < Len(segments) /\ current \in Nat /\ segments \in Seq(Segment)
  BY <1>1 DEF FloorInv, TypeOK, ReplyOnlyWhileSpeaking
<1>3. current + 1 \in DOMAIN segments
  BY <1>2
<1>4. HasAudio(segments[current + 1])
  BY <1>1, <1>3 DEF AwaitsAudio
<1>5. ~Drained(segments[current + 1])
  BY <1>2, <1>3 DEF FloorInv, DeliveryInOrder
<1>. QED BY <1>1, <1>2, <1>4, <1>5 DEF Deliverable

THEOREM NeverWedgedHolds == Spec => []NeverWedged
BY InvariantHolds, InvNeverWedged, PTL

(* Audio is delivered in segment order and belongs to the current turn,     *)
(* however late and in whatever order the backends answer.                  *)
THEOREM DeliveryInOrderHolds == Spec => []DeliveryInOrder
<1>1. FloorInv => DeliveryInOrder
  BY DEF FloorInv
<1>. QED BY <1>1, InvariantHolds, PTL

THEOREM ReplyBelongsToTurnHolds == Spec => []ReplyBelongsToTurn
<1>1. FloorInv => ReplyBelongsToTurn
  BY DEF FloorInv
<1>. QED BY <1>1, InvariantHolds, PTL

-----------------------------------------------------------------------------
(* Action properties. *)

LEMMA EventKind ==
  /\ NoEvent.kind = "none"
  /\ \A kind, k : Event(kind, k).kind = kind
BY DEF NoEvent, Event

(* The two steps that emit response.done. *)
LEMMA OnReplyEndDone ==
  ASSUME FloorInv, NEW t \in 1..MaxTurns, OnReplyEnd(t), event'.kind = "done"
  PROVE  Unsent(segments) = {} /\ event'.n = chunksSent
<1>1. current = Len(segments) /\ Complete(chunksSent)
  BY EventKind DEF OnReplyEnd
<1>2. segments \in Seq(Segment) /\ Len(segments) \in Nat /\ DOMAIN segments = 1..Len(segments)
  BY DEF FloorInv, TypeOK
<1>3. \A i \in DOMAIN segments : Drained(segments[i])
  BY <1>1, <1>2 DEF FloorInv, DeliveryInOrder
<1>. QED BY <1>1, <1>3 DEF Unsent, Complete, Event

LEMMA DeliverNextDone ==
  ASSUME FloorInv, DeliverNext, event'.kind = "done"
  PROVE  /\ finalSeen
         /\ Unsent(segments) = {Len(segments)}
         /\ segments[Len(segments)].total = segments[Len(segments)].sent + 1
         /\ event'.n = chunksSent + 1
<1>1. /\ segments[current + 1].sent + 1 >= segments[current + 1].total
      /\ finalSeen /\ current + 1 = Len(segments) /\ Complete(chunksSent + 1)
  BY DEF DeliverNext, Event
<1>2. segments \in Seq(Segment) /\ Len(segments) \in Nat /\ DOMAIN segments = 1..Len(segments)
  BY DEF FloorInv, TypeOK
<1>3. current \in Nat /\ Len(segments) \in DOMAIN segments
  BY <1>1, <1>2 DEF FloorInv, TypeOK
<1>4. \A i \in DOMAIN segments : Drained(segments[i]) <=> i # Len(segments)
  BY <1>1, <1>2, <1>3 DEF FloorInv, DeliveryInOrder
<1>5. Unsent(segments) = {Len(segments)}
  BY <1>3, <1>4 DEF Unsent
<1>6. /\ segments[Len(segments)].sent \in Nat /\ segments[Len(segments)].total \in Nat
      /\ segments[Len(segments)].sent < segments[Len(segments)].total
  <2>1. segments[Len(segments)] \in Segment
    BY <1>2, <1>3
  <2>2. segments[Len(segments)].sent \in Nat /\ segments[Len(segments)].total \in Nat
    BY <2>1 DEF Segment
  <2>. QED BY <1>1, <2>2 DEF DeliverNext, Deliverable, Drained, HasAudio
<1>. QED BY <1>1, <1>5, <1>6 DEF Complete, Event

LEMMA OtherStepsNotDone ==
  ASSUME Next, event'.kind = "done"
  PROVE  DeliverNext \/ \E t \in 1..MaxTurns : OnReplyEnd(t)
<1>1. ~Speaker
  BY EventKind DEF Speaker, OnSpeechStarted, OnContinuationOnset, OnTurnCommitted, Interrupt
<1>2. ~Tick /\ ~Close /\ ~Elapse /\ ~Unmoved /\ ~Fail
  BY EventKind DEF Tick, Close, Elapse, Unmoved, Fail
<1>3. ASSUME NEW t \in 1..MaxTurns
      PROVE  /\ \A blank \in BOOLEAN : ~OnTranscript(t, blank)
             /\ ~OnToolCall(t) /\ ~OnToolResult(t) /\ ~DiscardReplySegments(t)
  BY EventKind DEF OnTranscript, OnToolCall, OnToolResult, DiscardReplySegments
<1>4. ASSUME NEW t \in 1..MaxTurns
      PROVE  ~OnReplyText(t) /\ \A final \in BOOLEAN : ~OnReplySegment(t, final)
  BY EventKind DEF OnReplyText, OnReplySegment, AppendSegment
<1>5. ASSUME NEW t \in 1..MaxTurns
      PROVE  /\ ~OnEmptyReply(t)
             /\ \A i \in 1..MaxSegments, size \in 0..MaxChunks : ~OnAudioReady(t, i, size)
             /\ \A stage \in Stages : ~FailStage(stage, t)
  BY <1>2, EventKind DEF OnEmptyReply, OnAudioReady, FailStage
<1>. QED BY <1>1, <1>2, <1>3, <1>4, <1>5 DEF Next, Backend

(* response.done is emitted only for a reply that was synthesized and sent  *)
(* whole (deliver_next, _complete_if_drained).                              *)
THEOREM DoneMeansDeliveredHolds == Spec => DoneMeansDelivered
<1>1. FloorInv /\ [Next]_floorVars => [DoneDelivered]_floorVars
  <2>. SUFFICES ASSUME FloorInv, Next, event'.kind = "done" PROVE DoneDelivered
    BY DEF DoneDelivered
  <2>1. CASE DeliverNext
    BY <2>1, DeliverNextDone DEF DoneDelivered
  <2>2. CASE \E t \in 1..MaxTurns : OnReplyEnd(t)
    BY <2>2, OnReplyEndDone DEF DoneDelivered
  <2>. QED BY <2>1, <2>2, OtherStepsNotDone
<1>. QED BY <1>1, InvariantHolds, PTL DEF Spec, DoneMeansDelivered

(* Only a new leg or a new turn gives the generate stage more time.         *)
THEOREM StreamCannotExtendDeadlineHolds == Spec => StreamCannotExtendDeadline
<1>1. FloorInv /\ [Next]_floorVars => [DeadlineKept]_floorVars
  <2>. SUFFICES ASSUME FloorInv, Next, armed = "generate", armed' = "generate",
                       turn' = turn, legs' = legs
                PROVE  remaining' <= remaining
    BY DEF DeadlineKept
  <2>1. remaining \in Nat /\ turn \in Nat /\ legs \in Nat /\ finalSeen \in BOOLEAN
    BY DEF FloorInv, TypeOK
  <2>2. /\ ~Interrupt /\ ~Fail /\ \A k \in Nat : ~Complete(k)
        /\ ~OnTurnCommitted /\ ~Close
    BY <2>1 DEF Interrupt, Fail, Complete, Release, Disarm, Unarmed, OnTurnCommitted,
                OpenTurn, Close
  <2>3. CASE Elapse
    BY <2>1, <2>3 DEF Elapse
  <2>4. CASE DeliverNext
    <3>1. chunksSent + 1 \in Nat
      BY DEF FloorInv, TypeOK
    <3>2. UNCHANGED remaining
      BY <2>2, <2>4, <3>1 DEF DeliverNext
    <3>. QED BY <2>1, <3>2
  <2>5. ASSUME NEW segs, NEW final \in BOOLEAN, RearmSpeaking(segs, final)
        PROVE  remaining' <= remaining
    BY <2>1, <2>5 DEF RearmSpeaking, KeepOrArm, Disarm, Unarmed
  <2>6. CASE Backend
    <3>. PICK t \in 1..MaxTurns :
           \/ \E blank \in BOOLEAN : OnTranscript(t, blank)
           \/ OnReplyText(t)
           \/ \E final \in BOOLEAN : OnReplySegment(t, final)
           \/ OnEmptyReply(t)
           \/ OnReplyEnd(t)
           \/ OnToolCall(t)
           \/ OnToolResult(t)
           \/ DiscardReplySegments(t)
           \/ \E i \in 1..MaxSegments, size \in 0..MaxChunks : OnAudioReady(t, i, size)
           \/ \E stage \in Stages \ {"tool"} : FailStage(stage, t)
      BY <2>6 DEF Backend
    <3>1. \A blank \in BOOLEAN : ~OnTranscript(t, blank)
      BY DEF OnTranscript, Accepts, FloorInv, DeadlineMatchesWait
    <3>2. ~OnToolCall(t) /\ ~OnToolResult(t) /\ ~DiscardReplySegments(t)
      BY <2>1 DEF OnToolCall, OnToolResult, DiscardReplySegments, Arm
    <3>3. ~OnEmptyReply(t) /\ \A stage \in Stages : ~FailStage(stage, t)
      BY <2>2 DEF OnEmptyReply, FailStage
    <3>4. CASE OnReplyText(t) \/ \E final \in BOOLEAN : OnReplySegment(t, final)
      <4>1. finalSeen' \in BOOLEAN /\ RearmSpeaking(segments', finalSeen')
        BY <2>1, <3>4 DEF OnReplyText, OnReplySegment, AppendSegment
      <4>. QED BY <2>5, <4>1
    <3>5. CASE OnReplyEnd(t)
      BY <2>2, <2>5, <3>5 DEF OnReplyEnd, FloorInv, TypeOK
    <3>6. CASE \E i \in 1..MaxSegments, size \in 0..MaxChunks : OnAudioReady(t, i, size)
      BY <2>1, <2>2, <2>5, <3>6 DEF OnAudioReady
    <3>. QED BY <3>1, <3>2, <3>3, <3>4, <3>5, <3>6
  <2>7. CASE Unmoved
    BY <2>1, <2>7 DEF Unmoved, deadline
  <2>. QED BY <2>2, <2>3, <2>4, <2>6, <2>7
       DEF Next, Speaker, OnSpeechStarted, OnContinuationOnset, Tick
<1>. QED BY <1>1, InvariantHolds, PTL DEF Spec, StreamCannotExtendDeadline

-----------------------------------------------------------------------------
(* The floor implements TurnProtocol. *)

LEMMA HeldPhases ==
  ASSUME FloorInv
  PROVE  /\ MachineHolds <=> PhaseOf[state] \in {"pending", "answering"}
         /\ PhaseOf[state] = "user" <=> state = "listening"
         /\ PhaseOf[state] = "gone" <=> state = "closed"
         /\ armed # Unarmed => MachineHolds
<1>1. state \in FloorStates
  BY DEF FloorInv, TypeOK
<1>. QED BY <1>1 DEF FloorInv, DeadlineMatchesWait, FloorStates, MachineHeld, MachineHolds,
                     PhaseOf

LEMMA NoticeOf ==
  /\ [kind |-> NoEvent.kind, turn |-> NoEvent.turn] = Protocol!Silence
  /\ \A kind, k : [kind |-> Event(kind, k).kind, turn |-> Event(kind, k).turn]
                    = Protocol!Notice(kind)
BY DEF NoEvent, Event, Protocol!Silence, Protocol!Notice

(* However the machine loses the floor, the client is told. *)
LEMMA EndRefines ==
  ASSUME FloorInv, MachineHolds, Interrupt \/ Fail
  PROVE  Protocol!Abandon
<1>1. PhaseOf[state] \in {"pending", "answering"}
  BY HeldPhases
<1>2. state' = "listening" /\ UNCHANGED turn
  BY DEF Interrupt, Fail, Release
<1>3. PhaseOf[state'] = "user"
  BY <1>2 DEF PhaseOf
<1>4. event' = Event("interrupted", chunksSent) \/ event' = Event("failed", 0)
  BY DEF Interrupt, Fail
<1>5. \E kind \in {"interrupted", "failed"} :
        [kind |-> event'.kind, turn |-> event'.turn] = Protocol!Notice(kind)
  BY <1>4, NoticeOf
<1>. QED BY <1>1, <1>2, <1>3, <1>5 DEF Protocol!Abandon

LEMMA CompleteRefines ==
  ASSUME NEW k, Complete(k), state \in {"responding", "speaking"}
  PROVE  Protocol!Finish
<1>1. PhaseOf[state] = "answering"
  BY DEF PhaseOf
<1>2. state' = "listening" /\ UNCHANGED turn /\ event' = Event("done", k)
  BY DEF Complete, Release
<1>3. PhaseOf[state'] = "user"
  BY <1>2 DEF PhaseOf
<1>4. [kind |-> event'.kind, turn |-> event'.turn] = Protocol!Notice("done")
  BY <1>2, NoticeOf
<1>. QED BY <1>1, <1>2, <1>3, <1>4 DEF Protocol!Finish

LEMMA ProgressRefines ==
  ASSUME state \in {"responding", "speaking", "tool_wait"},
         state' \in {"responding", "speaking", "tool_wait"}, UNCHANGED turn,
         \/ event' = NoEvent
         \/ \E kind \in {"reply_text", "reply_segment", "tool_call", "audio"}, k \in Nat :
              event' = Event(kind, k)
  PROVE  Protocol!Progress
<1>1. PhaseOf[state] = "answering" /\ PhaseOf[state'] = "answering"
  BY DEF PhaseOf
<1>2. CASE event' = NoEvent
  <2>1. [kind |-> event'.kind, turn |-> event'.turn] = Protocol!Silence
    BY <1>2, NoticeOf
  <2>. QED BY <1>1, <2>1 DEF Protocol!Progress
<1>3. ASSUME NEW kind \in {"reply_text", "reply_segment", "tool_call", "audio"}, NEW k \in Nat,
             event' = Event(kind, k)
      PROVE  Protocol!Progress
  <2>1. [kind |-> event'.kind, turn |-> event'.turn] = Protocol!Notice(kind)
    BY <1>3, NoticeOf
  <2>2. kind \in Protocol!ProgressKinds \ {"none"}
    BY DEF Protocol!ProgressKinds
  <2>. QED BY <1>1, <2>1, <2>2 DEF Protocol!Progress
<1>. QED BY <1>2, <1>3

LEMMA OnTurnCommittedRefines ==
  ASSUME FloorInv, OnTurnCommitted
  PROVE  Protocol!Commit
<1>1. /\ state # "closed" /\ turn < MaxTurns
      /\ turn' = turn + 1 /\ state' = "transcribing"
  BY DEF OnTurnCommitted, OpenTurn
<1>2. PhaseOf[state'] = "pending"
  BY <1>1 DEF PhaseOf
<1>3. PhaseOf[state] # "gone" /\ (PhaseOf[state] = "user" <=> ~MachineHolds)
  BY <1>1, HeldPhases DEF FloorInv, TypeOK, FloorStates, MachineHeld, MachineHolds
<1>4. [kind |-> event'.kind, turn |-> event'.turn]
        = IF PhaseOf[state] = "user" THEN Protocol!Silence ELSE Protocol!Notice("interrupted")
  BY <1>3, NoticeOf DEF OnTurnCommitted
<1>. QED BY <1>1, <1>2, <1>3, <1>4 DEF Protocol!Commit

LEMMA OnTranscriptRefines ==
  ASSUME NEW t \in 1..MaxTurns, NEW blank \in BOOLEAN, OnTranscript(t, blank)
  PROVE  Protocol!Dismiss \/ Protocol!Start
<1>1. PhaseOf[state] = "pending" /\ UNCHANGED turn
  BY DEF OnTranscript, Accepts, PhaseOf
<1>2. CASE blank
  <2>1. state' = "listening" /\ event' = NoEvent
    BY <1>2 DEF OnTranscript, Release
  <2>2. PhaseOf[state'] = "user"
    BY <2>1 DEF PhaseOf
  <2>3. [kind |-> event'.kind, turn |-> event'.turn] = Protocol!Silence
    BY <2>1, NoticeOf
  <2>. QED BY <1>1, <2>2, <2>3 DEF Protocol!Dismiss
<1>3. CASE ~blank
  <2>1. state' = "responding" /\ event' = Event("started", 0)
    BY <1>3 DEF OnTranscript
  <2>2. PhaseOf[state'] = "answering"
    BY <2>1 DEF PhaseOf
  <2>3. [kind |-> event'.kind, turn |-> event'.turn] = Protocol!Notice("started")
    BY <2>1, NoticeOf
  <2>. QED BY <1>1, <2>2, <2>3 DEF Protocol!Start
<1>. QED BY <1>2, <1>3

LEMMA BackendRefines ==
  ASSUME FloorInv, Backend
  PROVE  Protocol!Next
<1>. PICK t \in 1..MaxTurns :
       \/ \E blank \in BOOLEAN : OnTranscript(t, blank)
       \/ OnReplyText(t)
       \/ \E final \in BOOLEAN : OnReplySegment(t, final)
       \/ OnEmptyReply(t)
       \/ OnReplyEnd(t)
       \/ OnToolCall(t)
       \/ OnToolResult(t)
       \/ DiscardReplySegments(t)
       \/ \E i \in 1..MaxSegments, size \in 0..MaxChunks : OnAudioReady(t, i, size)
       \/ \E stage \in Stages \ {"tool"} : FailStage(stage, t)
  BY DEF Backend
<1>0. Len(segments) \in Nat /\ chunksSent \in Nat
  BY DEF FloorInv, TypeOK
<1>1. CASE \E blank \in BOOLEAN : OnTranscript(t, blank)
  BY <1>1, OnTranscriptRefines DEF Protocol!Next
<1>2. CASE OnReplyText(t) \/ \E final \in BOOLEAN : OnReplySegment(t, final)
  <2>1. /\ state \in {"responding", "speaking"} /\ state' = "speaking" /\ UNCHANGED turn
        /\ \E kind \in {"reply_text", "reply_segment"} : event' = Event(kind, Len(segments))
    BY <1>2 DEF OnReplyText, OnReplySegment, Accepts, AppendSegment
  <2>. QED BY <1>0, <2>1, ProgressRefines DEF Protocol!Next
<1>3. CASE OnEmptyReply(t)
  BY <1>3, EndRefines DEF OnEmptyReply, Accepts, MachineHolds, MachineHeld, Protocol!Next
<1>4. CASE OnReplyEnd(t)
  <2>1. state \in {"responding", "speaking"}
    BY <1>4 DEF OnReplyEnd, Accepts
  <2>2. CASE Complete(chunksSent)
    BY <2>1, <2>2, CompleteRefines DEF Protocol!Next
  <2>3. CASE event' = NoEvent /\ UNCHANGED <<state, turn>>
    BY <2>1, <2>3, ProgressRefines DEF Protocol!Next
  <2>. QED BY <1>4, <2>2, <2>3 DEF OnReplyEnd
<1>5. CASE OnToolCall(t)
  BY <1>5, ProgressRefines DEF OnToolCall, Accepts, Protocol!Next
<1>6. CASE OnToolResult(t)
  BY <1>6, ProgressRefines DEF OnToolResult, Accepts, Protocol!Next
<1>7. CASE DiscardReplySegments(t)
  BY <1>7, ProgressRefines DEF DiscardReplySegments, Accepts, Protocol!Next
<1>8. CASE \E i \in 1..MaxSegments, size \in 0..MaxChunks : OnAudioReady(t, i, size)
  <2>1. state = "speaking"
    BY <1>8 DEF OnAudioReady, Accepts
  <2>2. CASE Fail
    BY <2>1, <2>2, EndRefines DEF MachineHolds, MachineHeld, Protocol!Next
  <2>3. CASE event' = NoEvent /\ UNCHANGED <<state, turn>>
    BY <2>1, <2>3, ProgressRefines DEF Protocol!Next
  <2>. QED BY <1>8, <2>2, <2>3 DEF OnAudioReady
<1>9. CASE \E stage \in Stages \ {"tool"} : FailStage(stage, t)
  <2>1. MachineHolds
    <3>1. armed # Unarmed \/ state = "speaking"
      BY <1>9 DEF FailStage, AcceptsFailure, Stages, Unarmed
    <3>. QED BY <3>1, HeldPhases DEF MachineHolds, MachineHeld
  <2>. QED BY <1>9, <2>1, EndRefines DEF FailStage, Protocol!Next
<1>. QED BY <1>1, <1>2, <1>3, <1>4, <1>5, <1>6, <1>7, <1>8, <1>9

(* To the client the floor is TurnProtocol: nothing about a turn, one end   *)
(* that was not done before any start, or one start, progress and exactly   *)
(* one end, whatever the backends, the clock and the speaker do (every      *)
(* _emit of _floor.py).                                                     *)
THEOREM KeepsProtocolHolds == Spec => KeepsProtocol
<1>1. Init => Protocol!Init
  BY DEF Init, Protocol!Init, Protocol!Silence, PhaseOf, NoEvent
<1>2. FloorInv /\ [Next]_floorVars => [Protocol!Next]_(Protocol!protocolVars)
  <2>. SUFFICES ASSUME FloorInv, [Next]_floorVars
                PROVE  [Protocol!Next]_(Protocol!protocolVars)
    OBVIOUS
  <2>1. CASE OnSpeechStarted \/ OnContinuationOnset
    BY <2>1, EndRefines DEF OnSpeechStarted, OnContinuationOnset, Protocol!Next
  <2>2. CASE OnTurnCommitted
    BY <2>2, OnTurnCommittedRefines DEF Protocol!Next
  <2>3. CASE Backend
    BY <2>3, BackendRefines
  <2>4. CASE DeliverNext
    <3>0. chunksSent \in Nat
      BY DEF FloorInv, TypeOK
    <3>1. state = "speaking" /\ chunksSent + 1 \in Nat
      BY <2>4, <3>0 DEF DeliverNext, Deliverable
    <3>2. CASE Complete(chunksSent + 1)
      BY <3>1, <3>2, CompleteRefines DEF Protocol!Next
    <3>3. CASE event' = Event("audio", 0) /\ UNCHANGED <<state, turn>>
      BY <3>1, <3>3, ProgressRefines DEF Protocol!Next
    <3>. QED BY <2>4, <3>2, <3>3 DEF DeliverNext
  <2>5. CASE Tick
    BY <2>5, HeldPhases, EndRefines DEF Tick, Protocol!Next
  <2>6. CASE Close
    <3>1. PhaseOf[state] # "gone"
      BY <2>6, HeldPhases DEF Close
    <3>2. state' = "closed" /\ UNCHANGED turn /\ event' = NoEvent
      BY <2>6 DEF Close
    <3>3. PhaseOf[state'] = "gone"
      BY <3>2 DEF PhaseOf
    <3>. QED BY <3>1, <3>2, <3>3, NoticeOf DEF Protocol!Leave, Protocol!Next
  <2>7. CASE Elapse
    BY <2>7, NoticeOf DEF Elapse, Protocol!Quiet, Protocol!Next
  <2>8. CASE Unmoved
    BY <2>8, NoticeOf DEF Unmoved, Protocol!Quiet, Protocol!Next
  <2>9. CASE UNCHANGED floorVars
    BY <2>9 DEF floorVars, Protocol!protocolVars
  <2>. QED BY <2>1, <2>2, <2>3, <2>4, <2>5, <2>6, <2>7, <2>8, <2>9 DEF Next, Speaker
<1>. QED BY <1>1, <1>2, InvariantHolds, PTL DEF Spec, KeepsProtocol, Protocol!Spec
=============================================================================
