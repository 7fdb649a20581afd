---------------------------- MODULE Conversation ----------------------------
(***************************************************************************)
(* One realtime conversation: the ConversationBridge                       *)
(* (lobes/realtime/_conversation.py) that drives the floor and keeps the   *)
(* chat history, and what the route (lobes/realtime/app.py) runs around    *)
(* it: the receive loop, which sees the speaker's boundaries and the       *)
(* client's control events one at a time and transcribes inline, and the   *)
(* tasks that make the generate and speech calls, whose answers come back  *)
(* at any time.                                                            *)
(*                                                                         *)
(* The floor is F, the module Floor over the variables of the same names.  *)
(* Every step of the conversation takes one step of the floor, F!Unmoved   *)
(* when it does not concern it.  A handler that calls the floor twice is   *)
(* two steps, and `handler` keeps everything else waiting between them.    *)
(*                                                                         *)
(* An utterance is a number, and a transcript is the set of the utterances *)
(* that were transcribed together.  Texts are told apart by that, ids of   *)
(* items by the last utterance, ids of tool calls by turn and leg.         *)
(***************************************************************************)
EXTENDS Naturals, Sequences

CONSTANTS
  Window, Timeout, MaxTurns, MaxSegments, MaxChunks, MaxLegs,   \* see Floor
  Continuation,   \* continuation_window_ms, in time units; 0 is off
  ToolHold,       \* continuation_tool_hold_ms, in time units
  MaxUtterances   \* bound: utterances in a session

ASSUME ConversationAssumption ==
  /\ Window \in Nat
  /\ Timeout \in [{"transcribe", "generate", "tool", "tts"} -> Nat]
  /\ MaxTurns \in Nat
  /\ MaxSegments \in Nat
  /\ MaxChunks \in Nat
  /\ MaxLegs \in Nat
  /\ Continuation \in Nat
  /\ ToolHold \in Nat
  /\ MaxUtterances \in Nat

VARIABLES
  (* the floor *)
  state, turn, guard, armed, remaining, segments, current, finalSeen,
  chunksSent, legs, event,
  (* the bridge *)
  streaming,          \* GenerateConfig.stream
  optedIn,            \* armed: the client sent a response.create
  turnOpen,           \* _turn_open
  itemId,             \* _item_id
  replyText,          \* _reply_text: the turn whose reply it is, 0 for none
  pendingTranscript,  \* _pending_transcript
  pendingItem,        \* _pending_item_id
  pendingResponse,    \* _pending_response, 0 for none
  pendingSynthesis,   \* _pending_synthesis, 0 for none
  pendingSegments,    \* _pending_segments
  streamTurn,         \* _stream_turn_id, 0 for none
  toolCall,           \* _tool_call
  commitAge,          \* time since _commit_at_ms; Expired if there is none
  commitText,         \* _commit_text
  continuing,         \* _continuing
  history,            \* Session._history
  handler,            \* what the running handler has still to do
  (* the route *)
  hearing,            \* where the receive loop is
  said,               \* how many utterances have begun
  carried,            \* tasks.continuation_audio
  lastCommit,         \* tasks.last_commit_audio
  launched,           \* turns whose response task has not begun yet
  calls,              \* turns with a generate call in flight
  syntheses           \* segments with a speech call in flight

floorVars == <<state, turn, guard, armed, remaining, segments, current,
               finalSeen, chunksSent, legs, event>>
work == <<replyText, pendingResponse, pendingSynthesis, pendingSegments,
          streamTurn, toolCall>>
pending == <<pendingTranscript, pendingItem>>
commit == <<commitAge, commitText, continuing>>
audio == <<hearing, said, carried, lastCommit>>
tasks == <<launched, calls, syntheses>>
vars == <<floorVars, streaming, optedIn, turnOpen, itemId, work, pending,
          commit, history, handler, audio, tasks>>

F == INSTANCE FloorProperties

Turns == 1..MaxTurns
Utterances == 1..MaxUtterances
NoWords == {}

(* One more than any age that is compared with. *)
Expired == 1 + IF ToolHold > Continuation THEN ToolHold ELSE Continuation

NoCall == [turn |-> 0, leg |-> 0, answered |-> FALSE]
Piece == [turn : Turns, index : 1..MaxSegments]

(* A history entry: a user's words, a reply spoken whole or the part of it  *)
(* that was heard, a tool call, its result or the cancellation in its       *)
(* place.  turn and leg do not exist in the code: they say what the entry   *)
(* is about.                                                                *)
Entry(role, t, leg, words) == [role |-> role, turn |-> t, leg |-> leg, words |-> words]
Roles == {"user", "reply", "heard", "call", "result", "cancelled"}

NoHandler == [kind |-> "none", words |-> NoWords, item |-> 0]
Idle == handler = NoHandler

TypeOK ==
  /\ streaming \in BOOLEAN /\ optedIn \in BOOLEAN /\ turnOpen \in BOOLEAN
  /\ itemId \in 0..MaxUtterances
  /\ replyText \in 0..MaxTurns
  /\ pendingTranscript \subseteq Utterances
  /\ pendingItem \in 0..MaxUtterances
  /\ pendingResponse \in 0..MaxTurns
  /\ pendingSynthesis \in 0..MaxTurns
  /\ pendingSegments \in Seq(Piece)
  /\ streamTurn \in 0..MaxTurns
  /\ toolCall \in [turn : 0..MaxTurns, leg : 0..MaxLegs, answered : BOOLEAN]
  /\ commitAge \in 0..Expired
  /\ commitText \subseteq Utterances
  /\ continuing \in BOOLEAN
  /\ history \in Seq([role : Roles, turn : Turns, leg : 0..MaxLegs,
                      words : SUBSET Utterances])
  /\ handler \in [kind : {"none", "answer", "surface"},
                  words : SUBSET Utterances, item : 0..MaxUtterances]
  /\ hearing \in {"quiet", "speech", "transcribing", "gone"}
  /\ said \in 0..MaxUtterances
  /\ carried \subseteq Utterances /\ lastCommit \subseteq Utterances
  /\ launched \subseteq Turns /\ calls \subseteq Turns /\ syntheses \subseteq Piece

Init ==
  /\ F!Init
  /\ streaming \in BOOLEAN /\ optedIn = FALSE /\ turnOpen = FALSE
  /\ itemId = 0 /\ replyText = 0
  /\ pendingTranscript = NoWords /\ pendingItem = 0
  /\ pendingResponse = 0 /\ pendingSynthesis = 0 /\ pendingSegments = <<>>
  /\ streamTurn = 0 /\ toolCall = NoCall
  /\ commitAge = Expired /\ commitText = NoWords /\ continuing = FALSE
  /\ history = <<>> /\ handler = NoHandler
  /\ hearing = "quiet" /\ said = 0 /\ carried = NoWords /\ lastCommit = NoWords
  /\ launched = {} /\ calls = {} /\ syntheses = {}

-----------------------------------------------------------------------------
(* The bridge hears of what the floor does (_on_floor_event). *)

Endings == {"done", "interrupted", "failed"}

(* A call that nobody answered is cancelled: a backend refuses a history    *)
(* with a call that has no result.                                          *)
Cancellation_Missing == <<>>

Cancellation ==
  IF toolCall # NoCall /\ ~toolCall.answered
  THEN <<Entry("cancelled", toolCall.turn, toolCall.leg, NoWords)>>
  ELSE <<>>

ClearTurn_KeepsSegments ==
  /\ toolCall' = NoCall /\ replyText' = 0 /\ pendingResponse' = 0
  /\ pendingSynthesis' = 0 /\ streamTurn' = 0
  /\ UNCHANGED pendingSegments

ClearTurn_KeepsCall ==
  /\ replyText' = 0 /\ pendingResponse' = 0 /\ pendingSynthesis' = 0
  /\ pendingSegments' = <<>> /\ streamTurn' = 0
  /\ UNCHANGED toolCall

ClearTurn ==
  /\ toolCall' = NoCall
  /\ replyText' = 0
  /\ pendingResponse' = 0
  /\ pendingSynthesis' = 0
  /\ pendingSegments' = <<>>
  /\ streamTurn' = 0

(* What the event of this step puts into the history.  text is the value of *)
(* _reply_text when the floor emits it.                                     *)
Recorded(text) ==
  CASE event'.kind = "done" -> <<Entry("reply", text, 0, NoWords)>>
    [] event'.kind = "interrupted" ->
         (IF event'.n > 0 THEN <<Entry("heard", turn, 0, NoWords)>> ELSE <<>>)
           \o Cancellation
    [] event'.kind = "failed" -> Cancellation
    [] event'.kind = "tool_call" -> <<Entry("call", turn, legs, NoWords)>>
    [] OTHER -> <<>>

(* ... and what it does to the rest of the turn. *)
OnFloorEvent(text) ==
  \/ event'.kind \in Endings /\ ClearTurn
  \/ /\ event'.kind = "started"
     /\ pendingResponse' = event'.turn
     /\ replyText' = text
     /\ UNCHANGED <<pendingSynthesis, pendingSegments, streamTurn, toolCall>>
  \/ /\ event'.kind = "reply_text"
     /\ replyText' = event'.turn
     /\ pendingSynthesis' = event'.turn
     /\ UNCHANGED <<pendingResponse, pendingSegments, streamTurn, toolCall>>
  \/ /\ event'.kind = "reply_segment"
     /\ pendingSegments' = Append(pendingSegments,
                                  [turn |-> event'.turn, index |-> event'.n + 1])
     /\ replyText' = text
     /\ UNCHANGED <<pendingResponse, pendingSynthesis, streamTurn, toolCall>>
  \/ /\ event'.kind = "tool_call"
     /\ toolCall' = [turn |-> turn, leg |-> legs, answered |-> FALSE]
     /\ replyText' = text
     /\ UNCHANGED <<pendingResponse, pendingSynthesis, pendingSegments, streamTurn>>
  \/ /\ event'.kind \in {"none", "audio"}
     /\ replyText' = text
     /\ UNCHANGED <<pendingResponse, pendingSynthesis, pendingSegments, streamTurn, toolCall>>

(* The bridge hears of the step, then its handler appends entries itself. *)
Heed(text, entries) ==
  /\ OnFloorEvent(text)
  /\ history' = history \o Recorded(text) \o entries

(* The floor takes the step if it accepts it. *)
Ask(accepted, step) == IF accepted THEN step ELSE F!Unmoved

-----------------------------------------------------------------------------
(* The client's control events. *)

AwaitingToolResult == toolCall # NoCall /\ ~toolCall.answered

Refused == F!MachineHolds /\ ~F!BargeInArmed

(* response.create when the result of a tool call has come: the turn goes   *)
(* on.  While the result has not come the trigger does nothing.             *)
ResponseCreateForTool_StartsNothing ==
  /\ Idle /\ hearing \in {"quiet", "speech"}
  /\ toolCall # NoCall /\ toolCall.answered
  /\ F!OnToolResult(toolCall.turn)
  /\ toolCall' = NoCall
  /\ UNCHANGED <<streaming, optedIn, turnOpen, itemId, replyText, pendingResponse,
                 pendingSynthesis, pendingSegments, streamTurn, pending, commit, history,
                 handler, audio, tasks>>

ResponseCreateForTool ==
  /\ Idle /\ hearing \in {"quiet", "speech"}
  /\ toolCall # NoCall /\ toolCall.answered
  /\ F!OnToolResult(toolCall.turn)
  /\ pendingResponse' = turn
  /\ toolCall' = NoCall
  /\ UNCHANGED <<streaming, optedIn, turnOpen, itemId, replyText, pendingSynthesis,
                 pendingSegments, streamTurn, pending, commit, history, handler,
                 audio, tasks>>

(* response.create otherwise: the pending transcript, if there is one, is   *)
(* taken, and a turn is opened for it unless the guard window refuses.      *)
ResponseCreate_KeepsPending ==
  /\ Idle /\ hearing \in {"quiet", "speech"}
  /\ toolCall = NoCall
  /\ optedIn' = TRUE
  /\ Ask(pendingTranscript # NoWords /\ ~Refused, F!OnTurnCommitted)
  /\ handler' = IF pendingTranscript # NoWords /\ ~Refused
                THEN [kind |-> "answer", words |-> pendingTranscript, item |-> pendingItem]
                ELSE NoHandler
  /\ Heed(replyText, <<>>)
  /\ UNCHANGED <<streaming, turnOpen, itemId, commit, audio, tasks, pending>>

ResponseCreate ==
  /\ Idle /\ hearing \in {"quiet", "speech"}
  /\ toolCall = NoCall
  /\ optedIn' = TRUE
  /\ pendingTranscript' = NoWords /\ pendingItem' = 0
  /\ Ask(pendingTranscript # NoWords /\ ~Refused, F!OnTurnCommitted)
  /\ handler' = IF pendingTranscript # NoWords /\ ~Refused
                THEN [kind |-> "answer", words |-> pendingTranscript, item |-> pendingItem]
                ELSE NoHandler
  /\ Heed(replyText, <<>>)
  /\ UNCHANGED <<streaming, turnOpen, itemId, commit, audio, tasks>>

(* ... and the transcript is handed to the turn that was opened.            *)
AnswerPending ==
  /\ handler.kind = "answer"
  /\ handler' = NoHandler
  /\ itemId' = handler.item
  /\ F!OnTranscript(turn, FALSE)
  /\ Heed(replyText, <<Entry("user", turn, 0, handler.words)>>)
  /\ UNCHANGED <<streaming, optedIn, turnOpen, pending, commit, audio, tasks>>

(* The result of the outstanding call.  Any other result, a second one or   *)
(* one that comes late changes nothing.                                     *)
OnFunctionCallOutput ==
  /\ Idle /\ hearing \in {"quiet", "speech"}
  /\ AwaitingToolResult
  /\ F!Unmoved
  /\ history' = Append(history, Entry("result", toolCall.turn, toolCall.leg, NoWords))
  /\ toolCall' = [toolCall EXCEPT !.answered = TRUE]
  /\ UNCHANGED <<streaming, optedIn, turnOpen, itemId, replyText, pendingResponse,
                 pendingSynthesis, pendingSegments, streamTurn, pending, commit,
                 handler, audio, tasks>>

-----------------------------------------------------------------------------
(* The speaker. *)

LastIsCommit == /\ history # <<>>
                /\ history[Len(history)].role = "user"
                /\ history[Len(history)].words = commitText

(* The onset continues the turn the machine just committed. *)
TakesBack ==
  /\ optedIn
  /\ Continuation > 0
  /\ commitAge <= Continuation
  /\ commitText # NoWords
  /\ F!MachineHolds /\ state # "tool_wait"
  /\ LastIsCommit

OnSpeechStarted_ReplyGoesOn ==
  /\ Idle /\ hearing = "quiet" /\ said < MaxUtterances
  /\ hearing' = "speech" /\ said' = said + 1
  /\ commitAge' = Expired /\ commitText' = NoWords
  /\ \/ /\ TakesBack
        /\ F!Unmoved /\ UNCHANGED work
        /\ history' = SubSeq(history, 1, Len(history) - 1)
        /\ continuing' = TRUE /\ carried' = lastCommit
     \/ /\ ~TakesBack
        /\ Ask(optedIn /\ F!MachineHolds /\ F!BargeInArmed, F!OnSpeechStarted)
        /\ Heed(replyText, <<>>)
        /\ continuing' = FALSE /\ carried' = NoWords
  /\ UNCHANGED <<streaming, optedIn, turnOpen, itemId, pending, handler, lastCommit, tasks>>

OnSpeechStarted_DropsFirstHalf ==
  /\ Idle /\ hearing = "quiet" /\ said < MaxUtterances
  /\ hearing' = "speech" /\ said' = said + 1
  /\ commitAge' = Expired /\ commitText' = NoWords
  /\ \/ /\ TakesBack
        /\ F!OnContinuationOnset /\ ClearTurn
        /\ history' = SubSeq(history, 1, Len(history) - 1)
        /\ continuing' = TRUE /\ carried' = NoWords
     \/ /\ ~TakesBack
        /\ Ask(optedIn /\ F!MachineHolds /\ F!BargeInArmed, F!OnSpeechStarted)
        /\ Heed(replyText, <<>>)
        /\ continuing' = FALSE /\ carried' = NoWords
  /\ UNCHANGED <<streaming, optedIn, turnOpen, itemId, pending, handler, lastCommit, tasks>>

OnSpeechStarted ==
  /\ Idle /\ hearing = "quiet" /\ said < MaxUtterances
  /\ hearing' = "speech" /\ said' = said + 1
  /\ commitAge' = Expired /\ commitText' = NoWords
  /\ \/ /\ TakesBack
        /\ F!OnContinuationOnset
        /\ ClearTurn
        /\ history' = SubSeq(history, 1, Len(history) - 1)
        /\ continuing' = TRUE /\ carried' = lastCommit
     \/ /\ ~TakesBack
        /\ Ask(optedIn /\ F!MachineHolds /\ F!BargeInArmed, F!OnSpeechStarted)
        /\ Heed(replyText, <<>>)
        /\ continuing' = FALSE /\ carried' = NoWords
  /\ UNCHANGED <<streaming, optedIn, turnOpen, itemId, pending, handler, lastCommit, tasks>>

(* A turn is committed, because of silence or because it is too long.  Only *)
(* a silence may be taken back, and a merged turn may not.                  *)
OnSpeechStopped_RetakesMerged(silence) ==
  /\ Idle /\ hearing = "speech"
  /\ hearing' = "transcribing"
  /\ Ask(optedIn /\ ~Refused, F!OnTurnCommitted)
  /\ Heed(replyText, <<>>)
  /\ turnOpen' = (optedIn /\ ~Refused)
  /\ commitAge' = IF turnOpen' /\ silence THEN 0 ELSE Expired
  /\ commitText' = NoWords /\ continuing' = FALSE
  /\ lastCommit' = carried \cup {said} /\ carried' = NoWords
  /\ UNCHANGED <<streaming, optedIn, itemId, pending, handler, said, tasks>>

OnSpeechStopped(silence) ==
  /\ Idle /\ hearing = "speech"
  /\ hearing' = "transcribing"
  /\ Ask(optedIn /\ ~Refused, F!OnTurnCommitted)
  /\ Heed(replyText, <<>>)
  /\ turnOpen' = (optedIn /\ ~Refused)
  /\ commitAge' = IF turnOpen' /\ silence /\ ~continuing THEN 0 ELSE Expired
  /\ commitText' = NoWords /\ continuing' = FALSE
  /\ lastCommit' = carried \cup {said} /\ carried' = NoWords
  /\ UNCHANGED <<streaming, optedIn, itemId, pending, handler, said, tasks>>

(* The transcript of the committed audio.  If the floor holds the turn it   *)
(* answers it; if it does not the transcript is remembered; if it held the  *)
(* turn and gave up waiting the transcript is dropped.                      *)
OnTranscript(blank) ==
  /\ Idle /\ hearing = "transcribing"
  /\ hearing' = "quiet"
  /\ itemId' = said
  /\ turnOpen' = FALSE
  /\ IF turnOpen
     THEN /\ Ask(state = "transcribing", F!OnTranscript(turn, blank))
          /\ LET answered == state = "transcribing" /\ ~blank
             IN  /\ Heed(replyText, IF answered THEN <<Entry("user", turn, 0, lastCommit)>>
                                    ELSE <<>>)
                 /\ commitText' = IF answered THEN lastCommit ELSE commitText
          /\ UNCHANGED pending
     ELSE /\ F!Unmoved
          /\ \/ blank /\ UNCHANGED pending
             \/ ~blank /\ pendingTranscript' = lastCommit /\ pendingItem' = said
          /\ UNCHANGED <<work, history, commitText>>
  /\ UNCHANGED <<streaming, optedIn, commitAge, continuing, handler, said, carried,
                 lastCommit, tasks>>

OnTranscriptionFailed ==
  /\ Idle /\ hearing = "transcribing"
  /\ hearing' = "quiet"
  /\ turnOpen' = FALSE
  /\ Ask(turnOpen /\ armed = "transcribe", F!FailStage("transcribe", turn))
  /\ Heed(replyText, <<>>)
  /\ UNCHANGED <<streaming, optedIn, itemId, pending, commit, handler, said, carried,
                 lastCommit, tasks>>

-----------------------------------------------------------------------------
(* The tasks of a response. *)

(* What no step of a response touches. *)
surroundings == <<streaming, optedIn, turnOpen, itemId, pending, commit, handler, audio>>

(* The receive loop polls for a response to run (take_pending_response).    *)
LaunchResponse ==
  /\ Idle /\ hearing \in {"quiet", "speech"}
  /\ pendingResponse # 0
  /\ launched' = launched \cup {pendingResponse}
  /\ pendingResponse' = 0
  /\ F!Unmoved
  /\ UNCHANGED <<surroundings, replyText, pendingSynthesis, pendingSegments, streamTurn,
                 toolCall, history, calls, syntheses>>

(* The task begins.  It makes no call if its turn is over by then.          *)
BeginResponse(t) ==
  /\ Idle /\ t \in launched
  /\ launched' = launched \ {t}
  /\ IF F!Accepts("responding", t)
     THEN /\ calls' = calls \cup {t}
          /\ streamTurn' = IF streaming THEN t ELSE streamTurn
          /\ pendingSegments' = IF streaming THEN <<>> ELSE pendingSegments
     ELSE UNCHANGED <<calls, streamTurn, pendingSegments>>
  /\ F!Unmoved
  /\ UNCHANGED <<surroundings, replyText, pendingResponse, pendingSynthesis, toolCall,
                 history, syntheses>>

Live(t) == t = streamTurn /\ t = turn

(* A whole reply, a reply without words, or a tool call. *)
OnGenerateResponse(t) ==
  /\ Idle /\ t \in calls /\ ~streaming
  /\ calls' = calls \ {t}
  /\ Ask(F!Accepts("responding", t),
         F!OnReplyText(t) \/ F!OnEmptyReply(t) \/ F!OnToolCall(t))
  /\ Heed(replyText, <<>>)
  /\ UNCHANGED <<surroundings, launched, syntheses>>

FailGenerate(t) ==
  /\ Idle /\ t \in calls
  /\ calls' = calls \ {t}
  /\ Ask(t = turn /\ F!AcceptsFailure("generate"), F!FailStage("generate", t))
  /\ Heed(replyText, <<>>)
  /\ UNCHANGED <<surroundings, launched, syntheses>>

(* A streamed reply: a sentence. *)
OnGenerateDelta(t) ==
  /\ Idle /\ t \in calls /\ streaming
  /\ Live(t)
  /\ F!OnReplySegment(t, FALSE)
  /\ Heed(replyText, <<>>)
  /\ UNCHANGED <<surroundings, tasks>>

(* ... its end, with or without another sentence ...                        *)
OnGenerateStreamEnd(t) ==
  /\ Idle /\ t \in calls /\ streaming
  /\ calls' = calls \ {t}
  /\ IF Live(t)
     THEN /\ F!OnReplySegment(t, TRUE) \/ F!OnReplyEnd(t) \/ F!OnEmptyReply(t)
          /\ Heed(t, <<>>)
     ELSE F!Unmoved /\ UNCHANGED <<work, history>>
  /\ UNCHANGED <<surroundings, launched, syntheses>>

(* The route holds a tool call back while the turn may still be taken back. *)
HoldsToolCall == Continuation > 0 /\ LastIsCommit /\ commitAge < ToolHold

(* ... or a tool call, which drops what was said before it.  The floor goes *)
(* back to responding, then the call is handed over.                        *)
AbandonStreamForToolCall(t) ==
  /\ Idle /\ t \in calls /\ streaming
  /\ Live(t)
  /\ ~HoldsToolCall
  /\ calls' = calls \ {t}
  /\ Ask(F!Accepts("speaking", t), F!DiscardReplySegments(t))
  /\ pendingSegments' = <<>>
  /\ replyText' = 0
  /\ handler' = [NoHandler EXCEPT !.kind = "surface"]
  /\ UNCHANGED <<streaming, optedIn, turnOpen, itemId, pendingResponse, pendingSynthesis,
                 streamTurn, toolCall, pending, commit, history, audio, launched, syntheses>>

SurfaceToolCall ==
  /\ handler.kind = "surface"
  /\ handler' = NoHandler
  /\ F!OnToolCall(turn)
  /\ Heed(replyText, <<>>)
  /\ UNCHANGED <<streaming, optedIn, turnOpen, itemId, pending, commit, audio, tasks>>

(* The speech call of a whole reply, and of the next sentence.              *)
TakePendingSynthesis ==
  /\ Idle /\ hearing # "gone" /\ pendingSynthesis # 0
  /\ syntheses' = syntheses \cup {[turn |-> pendingSynthesis, index |-> 1]}
  /\ pendingSynthesis' = 0
  /\ F!Unmoved
  /\ UNCHANGED <<surroundings, replyText, pendingResponse, pendingSegments, streamTurn,
                 toolCall, history, launched, calls>>

TakePendingSegment ==
  /\ Idle /\ hearing # "gone" /\ pendingSegments # <<>>
  /\ syntheses' = syntheses \cup {Head(pendingSegments)}
  /\ pendingSegments' = Tail(pendingSegments)
  /\ F!Unmoved
  /\ UNCHANGED <<surroundings, replyText, pendingResponse, pendingSynthesis, streamTurn,
                 toolCall, history, launched, calls>>

(* One speech call at a time, in order. *)
Synthesized(piece) ==
  /\ Idle /\ piece \in syntheses
  /\ \A other \in syntheses : other.turn = piece.turn => other.index >= piece.index
  /\ syntheses' = syntheses \ {piece}

OnTtsAudio(piece, size) ==
  /\ Synthesized(piece)
  /\ Ask(/\ F!Accepts("speaking", piece.turn)
         /\ piece.index \in DOMAIN segments
         /\ ~F!HasAudio(segments[piece.index]),
         F!OnAudioReady(piece.turn, piece.index, size))
  /\ Heed(replyText, <<>>)
  /\ UNCHANGED <<surroundings, launched, calls>>

FailTts(piece) ==
  /\ Synthesized(piece)
  /\ Ask(piece.turn = turn /\ F!AcceptsFailure("tts"), F!FailStage("tts", piece.turn))
  /\ Heed(replyText, <<>>)
  /\ UNCHANGED <<surroundings, launched, calls>>

-----------------------------------------------------------------------------
(* The pump, the watchdog, time, and the end of the session. *)

DeliverNext ==
  /\ Idle
  /\ F!DeliverNext
  /\ Heed(replyText, <<>>)
  /\ UNCHANGED <<surroundings, tasks>>

Tick_SkipsToolWait ==
  /\ Idle /\ ~AwaitingToolResult
  /\ F!Tick
  /\ Heed(replyText, <<>>)
  /\ UNCHANGED <<surroundings, tasks>>

Tick ==
  /\ Idle
  /\ F!Tick
  /\ Heed(replyText, <<>>)
  /\ UNCHANGED <<surroundings, tasks>>

Elapse ==
  /\ Idle
  /\ \/ F!Elapse
     \/ guard = 0 /\ remaining = 0 /\ commitAge < Expired /\ F!Unmoved
  /\ commitAge' = IF commitAge < Expired THEN commitAge + 1 ELSE Expired
  /\ UNCHANGED <<streaming, optedIn, turnOpen, itemId, pending, commitText, continuing,
                 handler, audio, work, history, tasks>>

(* The client leaves, or Silero fails: the tasks are cancelled, the floor   *)
(* is closed and the session forgets its history.                           *)
Close ==
  /\ Idle /\ hearing \in {"quiet", "speech"}
  /\ F!Close
  /\ hearing' = "gone"
  /\ history' = <<>>
  /\ launched' = {} /\ calls' = {} /\ syntheses' = {}
  /\ UNCHANGED <<streaming, optedIn, turnOpen, itemId, work, pending, commit, handler,
                 said, carried, lastCommit>>

-----------------------------------------------------------------------------
Client == ResponseCreateForTool \/ ResponseCreate \/ OnFunctionCallOutput

Speaker ==
  \/ OnSpeechStarted
  \/ \E silence \in BOOLEAN : OnSpeechStopped(silence)
  \/ \E blank \in BOOLEAN : OnTranscript(blank)
  \/ OnTranscriptionFailed

Response ==
  \/ LaunchResponse
  \/ \E t \in Turns :
       \/ BeginResponse(t)
       \/ OnGenerateResponse(t) \/ FailGenerate(t)
       \/ OnGenerateDelta(t) \/ OnGenerateStreamEnd(t) \/ AbandonStreamForToolCall(t)
  \/ TakePendingSynthesis \/ TakePendingSegment
  \/ \E piece \in Piece :
       FailTts(piece) \/ \E size \in 0..MaxChunks : OnTtsAudio(piece, size)

Handler == AnswerPending \/ SurfaceToolCall

Next == Client \/ Speaker \/ Response \/ Handler \/ DeliverNext \/ Tick \/ Elapse \/ Close

Spec == Init /\ [][Next]_vars

(* A handler that runs finishes, the pump and the watchdog run, and time    *)
(* passes.  Nothing is assumed of the client, the speaker and the backends. *)
Fairness ==
  WF_vars(Handler) /\ WF_vars(DeliverNext) /\ WF_vars(Tick) /\ WF_vars(Elapse)

FairSpec == Spec /\ Fairness
=============================================================================
