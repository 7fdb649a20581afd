------------------------------- MODULE Floor -------------------------------
(***************************************************************************)
(* The conversational floor of one realtime session                        *)
(* (lobes/realtime/_floor.py): who may speak, which backend the machine is *)
(* waiting for, and what of the reply the client has been sent.            *)
(*                                                                         *)
(* One action per input of the class Floor.  An input the class refuses    *)
(* (it returns False and changes nothing) is an action that is not         *)
(* enabled; what happens then is Unmoved.  The clock is read in two        *)
(* comparisons only, "has the guard window passed" and "is the deadline    *)
(* due", so the two timestamps are modelled by the time left until each    *)
(* comparison turns true.                                                  *)
(*                                                                         *)
(* A definition with an underscore in its name (Accepts_AnyTurn) is a      *)
(* faulty variant of the definition that follows it.  Nothing uses it: it  *)
(* is put in the place of the right one to see which property notices.     *)
(***************************************************************************)
EXTENDS Naturals, Sequences

CONSTANTS
  Window,        \* barge_in_window_ms, in time units
  Timeout,       \* [Stages -> Nat]: the timeout of each stage, in time units
  MaxTurns,      \* bound: turns in a session
  MaxSegments,   \* bound: segments in one reply
  MaxChunks,     \* bound: chunks in the audio of one segment
  MaxLegs        \* bound: how often one turn goes back to the generate stage

Stages == {"transcribe", "generate", "tool", "tts"}

ASSUME FloorAssumption ==
  /\ Window \in Nat
  /\ Timeout \in [Stages -> Nat]
  /\ MaxTurns \in Nat
  /\ MaxSegments \in Nat
  /\ MaxChunks \in Nat
  /\ MaxLegs \in Nat

VARIABLES
  state,         \* _state
  turn,          \* _turn_id
  guard,         \* time left of the barge-in guard window
  armed,         \* _armed_stage
  remaining,     \* time left until _deadline_ms
  segments,      \* _segments
  current,       \* _current: how many segments have been sent whole
  finalSeen,     \* _final_seen
  chunksSent,    \* _chunks_sent
  legs,          \* counts what MaxLegs bounds
  event          \* what the last step emitted

reply == <<segments, current, finalSeen, chunksSent>>
deadline == <<armed, remaining>>
floorVars == <<state, turn, guard, armed, remaining, segments, current,
               finalSeen, chunksSent, legs, event>>

MachineHeld == {"transcribing", "responding", "tool_wait", "speaking"}
FloorStates == MachineHeld \cup {"listening", "closed"}
Unarmed == "none"

(* A segment remembers for which turn its text was generated (text) and its *)
(* audio synthesized (voice, 0 while there is no audio); total and sent     *)
(* count chunks.                                                            *)
Segment == [text : 1..MaxTurns, voice : 0..MaxTurns,
            total : 0..MaxChunks, sent : 0..MaxChunks]

HasAudio(segment) == segment.total > 0
Drained(segment) == HasAudio(segment) /\ segment.sent >= segment.total

Kinds == {"none", "started", "reply_text", "reply_segment", "tool_call",
          "audio", "done", "interrupted", "failed"}
(* n is the segment index of a reply_segment and the number of chunks sent *)
(* of a done and of an interrupted.                                        *)
NoEvent == [kind |-> "none", turn |-> 0, n |-> 0]
Event(kind, n) == [kind |-> kind, turn |-> turn, n |-> n]

TypeOK ==
  /\ state \in FloorStates
  /\ turn \in 0..MaxTurns
  /\ guard \in 0..Window
  /\ armed \in Stages \cup {Unarmed}
  /\ remaining \in Nat
  /\ segments \in Seq(Segment)
  /\ current \in Nat
  /\ finalSeen \in BOOLEAN
  /\ chunksSent \in Nat
  /\ legs \in 0..MaxLegs
  /\ event \in [kind : Kinds, turn : 0..MaxTurns, n : Nat]

Init ==
  /\ state = "listening"
  /\ turn = 0
  /\ guard = 0
  /\ armed = Unarmed /\ remaining = 0
  /\ segments = <<>> /\ current = 0 /\ finalSeen = FALSE /\ chunksSent = 0
  /\ legs = 0
  /\ event = NoEvent

-----------------------------------------------------------------------------
(* Observation and the private helpers of the class. *)

MachineHolds == state \in MachineHeld
BargeInArmed == guard = 0

Accepts_AnyTurn(expected, t) == state = expected

Accepts(expected, t) == state = expected /\ t = turn

AcceptsFailure(stage) == armed = stage \/ (stage = "tts" /\ state = "speaking")

Deliverable == /\ state = "speaking"
               /\ current < Len(segments)
               /\ HasAudio(segments[current + 1])
               /\ ~Drained(segments[current + 1])

Arm(stage) == armed' = stage /\ remaining' = Timeout[stage]
Disarm == armed' = Unarmed /\ remaining' = 0

KeepOrArm_Rearms(stage) == Arm(stage)

(* A stage that is armed already keeps the deadline it has. *)
KeepOrArm(stage) ==
  /\ armed' = stage
  /\ remaining' = IF armed = stage THEN remaining ELSE Timeout[stage]

AwaitsAudio(segs) == \E i \in DOMAIN segs : ~HasAudio(segs[i])

RearmSpeaking(segs, final) ==
  \/ ~final /\ KeepOrArm("generate")
  \/ final /\ AwaitsAudio(segs) /\ KeepOrArm("tts")
  \/ final /\ ~AwaitsAudio(segs) /\ Disarm

DropReply == segments' = <<>> /\ current' = 0 /\ finalSeen' = FALSE /\ chunksSent' = 0

Release == Disarm /\ state' = "listening" /\ DropReply

Interrupt ==
  /\ Release
  /\ event' = Event("interrupted", chunksSent)
  /\ UNCHANGED <<turn, guard, legs>>

Fail ==
  /\ Release
  /\ event' = Event("failed", 0)
  /\ UNCHANGED <<turn, guard, legs>>

Complete(sent) ==
  /\ Release
  /\ event' = Event("done", sent)
  /\ UNCHANGED <<turn, guard, legs>>

OpenTurn ==
  /\ turn' = turn + 1
  /\ state' = "transcribing"
  /\ guard' = Window
  /\ Arm("transcribe")
  /\ legs' = 0

-----------------------------------------------------------------------------
(* The speaker. *)

OnSpeechStarted == MachineHolds /\ BargeInArmed /\ Interrupt

OnContinuationOnset == MachineHolds /\ state # "tool_wait" /\ Interrupt

OnTurnCommitted_Unannounced ==
  /\ state # "closed"
  /\ turn < MaxTurns
  /\ MachineHolds => BargeInArmed
  /\ event' = NoEvent
  /\ DropReply
  /\ OpenTurn

(* A commit over a reply interrupts it and opens the next turn in one step. *)
OnTurnCommitted ==
  /\ state # "closed"
  /\ turn < MaxTurns
  /\ MachineHolds => BargeInArmed
  /\ event' = IF MachineHolds THEN Event("interrupted", chunksSent) ELSE NoEvent
  /\ DropReply
  /\ OpenTurn

-----------------------------------------------------------------------------
(* Backends answer.  t is the turn the answered call was made for.          *)

OnTranscript(t, blank) ==
  /\ Accepts("transcribing", t)
  /\ \/ blank /\ Release /\ event' = NoEvent
     \/ /\ ~blank
        /\ state' = "responding"
        /\ Arm("generate")
        /\ event' = Event("started", 0)
        /\ UNCHANGED reply
  /\ UNCHANGED <<turn, guard, legs>>

AppendSegment(t, final, kind) ==
  /\ Len(segments) < MaxSegments
  /\ segments' = Append(segments, [text |-> t, voice |-> 0, total |-> 0, sent |-> 0])
  /\ state' = "speaking"
  /\ finalSeen' = (finalSeen \/ final)
  /\ RearmSpeaking(segments', finalSeen')
  /\ event' = Event(kind, Len(segments))
  /\ UNCHANGED <<turn, guard, current, chunksSent, legs>>

OnReplyText(t) == Accepts("responding", t) /\ AppendSegment(t, TRUE, "reply_text")

OnReplySegment(t, final) ==
  /\ Accepts("responding", t) \/ Accepts("speaking", t)
  /\ AppendSegment(t, final, "reply_segment")

(* The reply ended without another sentence: blank text that is final. *)
OnEmptyReply(t) ==
  /\ Accepts("responding", t) \/ Accepts("speaking", t)
  /\ segments = <<>>
  /\ Fail

OnReplyEnd_NoCompletion(t) ==
  /\ Accepts("responding", t) \/ Accepts("speaking", t)
  /\ segments # <<>>
  /\ finalSeen' = TRUE
  /\ RearmSpeaking(segments, TRUE)
  /\ event' = NoEvent
  /\ UNCHANGED <<state, turn, guard, segments, current, chunksSent, legs>>

OnReplyEnd(t) ==
  /\ Accepts("responding", t) \/ Accepts("speaking", t)
  /\ segments # <<>>
  /\ \/ /\ current = Len(segments)
        /\ Complete(chunksSent)
     \/ /\ current < Len(segments)
        /\ finalSeen' = TRUE
        /\ RearmSpeaking(segments, TRUE)
        /\ event' = NoEvent
        /\ UNCHANGED <<state, turn, guard, segments, current, chunksSent, legs>>

OnToolCall(t) ==
  /\ Accepts("responding", t)
  /\ state' = "tool_wait"
  /\ Arm("tool")
  /\ event' = Event("tool_call", 0)
  /\ UNCHANGED <<turn, guard, segments, current, finalSeen, chunksSent, legs>>

OnToolResult(t) ==
  /\ Accepts("tool_wait", t)
  /\ legs < MaxLegs
  /\ state' = "responding"
  /\ Arm("generate")
  /\ legs' = legs + 1
  /\ event' = NoEvent
  /\ UNCHANGED <<turn, guard, segments, current, finalSeen, chunksSent>>

DiscardReplySegments(t) ==
  /\ Accepts("speaking", t)
  /\ legs < MaxLegs
  /\ DropReply
  /\ state' = "responding"
  /\ Arm("generate")
  /\ legs' = legs + 1
  /\ event' = NoEvent
  /\ UNCHANGED <<turn, guard>>

(* size chunks of audio for segment i, synthesized for turn t *)
OnAudioReady(t, i, size) ==
  /\ Accepts("speaking", t)
  /\ i \in DOMAIN segments
  /\ ~HasAudio(segments[i])
  /\ \/ size = 0 /\ Fail
     \/ /\ size > 0
        /\ segments' = [segments EXCEPT ![i] = [@ EXCEPT !.total = size, !.voice = t]]
        /\ RearmSpeaking(segments', finalSeen)
        /\ event' = NoEvent
        /\ UNCHANGED <<state, turn, guard, current, finalSeen, chunksSent, legs>>

FailStage(stage, t) == t = turn /\ AcceptsFailure(stage) /\ Fail

-----------------------------------------------------------------------------
(* The route's pump and watchdog, and the end of the session. *)

DeliverNext_AnyReady ==
  /\ state = "speaking"
  /\ \E i \in DOMAIN segments :
       /\ HasAudio(segments[i]) /\ ~Drained(segments[i])
       /\ segments' = [segments EXCEPT ![i].sent = @ + 1]
  /\ chunksSent' = chunksSent + 1
  /\ event' = Event("audio", 0)
  /\ UNCHANGED <<state, turn, guard, armed, remaining, current, finalSeen, legs>>

DeliverNext_BeforeFinal ==
  /\ Deliverable
  /\ LET segment == segments[current + 1]
         last == segment.sent + 1 >= segment.total
     IN  \/ /\ last /\ current + 1 = Len(segments)
            /\ Complete(chunksSent + 1)
         \/ /\ ~(last /\ current + 1 = Len(segments))
            /\ segments' = [segments EXCEPT ![current + 1].sent = @ + 1]
            /\ current' = IF last THEN current + 1 ELSE current
            /\ chunksSent' = chunksSent + 1
            /\ event' = Event("audio", 0)
            /\ UNCHANGED <<state, turn, guard, armed, remaining, finalSeen, legs>>

DeliverNext ==
  /\ Deliverable
  /\ LET segment == segments[current + 1]
         last == segment.sent + 1 >= segment.total
     IN  \/ /\ last /\ finalSeen /\ current + 1 = Len(segments)
            /\ Complete(chunksSent + 1)
         \/ /\ ~(last /\ finalSeen /\ current + 1 = Len(segments))
            /\ segments' = [segments EXCEPT ![current + 1].sent = @ + 1]
            /\ current' = IF last THEN current + 1 ELSE current
            /\ chunksSent' = chunksSent + 1
            /\ event' = Event("audio", 0)
            /\ UNCHANGED <<state, turn, guard, armed, remaining, finalSeen, legs>>

Tick == armed # Unarmed /\ remaining = 0 /\ Fail

Close ==
  /\ state # "closed"
  /\ Disarm /\ DropReply
  /\ state' = "closed"
  /\ event' = NoEvent
  /\ UNCHANGED <<turn, guard, legs>>

(* A unit of time passes. *)
Elapse ==
  /\ guard > 0 \/ remaining > 0
  /\ guard' = IF guard > 0 THEN guard - 1 ELSE 0
  /\ remaining' = IF remaining > 0 THEN remaining - 1 ELSE 0
  /\ event' = NoEvent
  /\ UNCHANGED <<state, turn, armed, segments, current, finalSeen, chunksSent, legs>>

(* An input that the class refuses, or a step of the session that does not  *)
(* concern the floor.                                                       *)
Unmoved ==
  /\ event' = NoEvent
  /\ UNCHANGED <<state, turn, guard, reply, deadline, legs>>

-----------------------------------------------------------------------------
Speaker == OnSpeechStarted \/ OnContinuationOnset \/ OnTurnCommitted

(* An answer may come for the current turn or, late, for an earlier one. *)
Backend ==
  \E t \in 1..MaxTurns :
    /\ t <= turn
    /\ \/ \E blank \in BOOLEAN : OnTranscript(t, blank)
       \/ OnReplyText(t)
       \/ \E final \in BOOLEAN : OnReplySegment(t, final)
       \/ OnEmptyReply(t)
       \/ OnReplyEnd(t)
       \/ OnToolCall(t)
       \/ OnToolResult(t)
       \/ DiscardReplySegments(t)
       \/ \E i \in 1..MaxSegments, size \in 0..MaxChunks : OnAudioReady(t, i, size)
       \/ \E stage \in Stages \ {"tool"} : FailStage(stage, t)

Next == Speaker \/ Backend \/ DeliverNext \/ Tick \/ Close \/ Elapse \/ Unmoved

Spec == Init /\ [][Next]_floorVars

(* The route runs the delivery pump and the watchdog for as long as the     *)
(* session lives (realtime/app.py), and time passes.  Nothing is assumed of *)
(* the backends or of the speaker.                                          *)
Fairness == WF_floorVars(DeliverNext) /\ WF_floorVars(Tick) /\ WF_floorVars(Elapse)

FairSpec == Spec /\ Fairness
=============================================================================
