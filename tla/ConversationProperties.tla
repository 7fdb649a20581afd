----------------------- MODULE ConversationProperties -----------------------
(***************************************************************************)
(* What has to be true of a conversation (Conversation.tla).               *)
(***************************************************************************)
EXTENDS Conversation

-----------------------------------------------------------------------------
(* The history, which is what the model is asked to continue. *)

Entries == DOMAIN history
IsResult(entry) == entry.role \in {"result", "cancelled"}
SameCall(i, j) == history[i].turn = history[j].turn /\ history[i].leg = history[j].leg

(* Every tool call in the history is followed at once by its one result or  *)
(* cancellation, and no result stands alone; only the call that is waiting  *)
(* for its result may be the last entry.  A chat-completions backend        *)
(* refuses anything else (_close_outstanding_tool_call,                     *)
(* on_function_call_output, _request_tool_call).                            *)
CallsAreAnswered ==
  \A i \in Entries :
    /\ history[i].role = "call" =>
         IF i = Len(history)
         THEN AwaitingToolResult
         ELSE IsResult(history[i + 1]) /\ SameCall(i, i + 1)
    /\ IsResult(history[i]) =>
         i > 1 /\ history[i - 1].role = "call" /\ SameCall(i - 1, i)

(* The history reads as turns in order: after a user entry come the calls   *)
(* of that turn and at last its reply or the part of it that was heard, at  *)
(* most one, and nothing of the turn after that                             *)
(* (_record_interrupted_reply before the next turn's user entry).           *)
TurnsInOrder ==
  /\ \A i, j \in Entries : i < j => history[i].turn <= history[j].turn
  /\ \A i \in Entries :
       LET sameTurn == {j \in Entries : history[j].turn = history[i].turn}
       IN  /\ history[i].role = "user" <=> \A j \in sameTurn : i <= j
           /\ history[i].role \in {"reply", "heard"} => \A j \in sameTurn : j <= i

(* No utterance is answered twice: each is in one user entry at most, and   *)
(* one that waits for a response.create is in none.  So a duplicate trigger *)
(* never starts a second reply to a turn (arm), and neither half of a       *)
(* merged turn is left behind (_take_back_early_commit).                    *)
AnsweredOnce ==
  \A i \in Entries :
    /\ history[i].words \cap pendingTranscript = NoWords
    /\ \A j \in Entries : i # j => history[i].words \cap history[j].words = NoWords

-----------------------------------------------------------------------------
(* The bridge and the floor agree. *)

(* The bridge has an outstanding call exactly while the floor waits for a   *)
(* tool result, and of the same turn: a result can always resume the turn   *)
(* it is for, and never another one (_resume_after_tool_result).            *)
CallMatchesFloor ==
  hearing # "gone" =>
    /\ toolCall # NoCall <=> state = "tool_wait"
    /\ toolCall # NoCall => toolCall.turn = turn

(* Nothing the bridge still has to do is left over from another turn        *)
(* (_clear_turn, begin_generate_stream).                                    *)
WorkIsCurrent ==
  hearing # "gone" =>
    /\ pendingResponse # 0 => pendingResponse = turn /\ state = "responding"
    /\ pendingSynthesis # 0 => pendingSynthesis = turn /\ state = "speaking"
    /\ \A i \in DOMAIN pendingSegments :
         pendingSegments[i].turn = turn /\ state = "speaking"
    /\ streamTurn # 0 => streamTurn = turn /\ F!MachineHolds
    /\ replyText # 0 => replyText = turn /\ state = "speaking"

Awaited(i) ==
  \/ [turn |-> turn, index |-> i] \in syntheses
  \/ \E j \in DOMAIN pendingSegments : pendingSegments[j].index = i
  \/ pendingSynthesis = turn

(* What the floor waits for is being made.  A turn that is responding has   *)
(* its response set, launched or asked for, and is in one place only; while *)
(* it is speaking the stream is open until the reply is final, and every    *)
(* sentence without audio is queued or being spoken.  So a deadline ends    *)
(* only a turn whose backend is slow, never one that was forgotten.         *)
WaitedForIsUnderWay ==
  /\ (state = "responding" /\ Idle) =>
       \/ pendingResponse = turn /\ turn \notin launched /\ turn \notin calls
       \/ pendingResponse = 0 /\ turn \in launched /\ turn \notin calls
       \/ pendingResponse = 0 /\ turn \notin launched /\ turn \in calls
  /\ state = "speaking" =>
       /\ ~finalSeen => turn \in calls
       /\ \A i \in DOMAIN segments : ~F!HasAudio(segments[i]) => Awaited(i)

-----------------------------------------------------------------------------
(* Action properties. *)

Shrinks == Len(history') < Len(history) /\ hearing' # "gone"

(* Taking a turn back removes the user entry of the current turn and        *)
(* nothing else, only if no reply, call or result followed it, and the      *)
(* words taken out of the history are carried into the next commit: they    *)
(* are answered again, not lost (_take_back_early_commit,                   *)
(* _emit_turn_events).  Nothing else ever leaves the history.               *)
TakeBackIsExact ==
  [][ LET kept == Len(history')
      IN /\ \A i \in 1..(IF Shrinks THEN kept ELSE Len(history)) :
              hearing' # "gone" => history'[i] = history[i]
         /\ Shrinks =>
              /\ kept = Len(history) - 1
              /\ history[Len(history)].role = "user"
              /\ history[Len(history)].turn = turn
              /\ history[Len(history)].words \subseteq carried'
    ]_vars

(* A merged turn is final: only a turn of a single utterance is ever taken  *)
(* back, so an echo after each commit cannot have the same sentence         *)
(* answered again and again (on_speech_stopped, _continuing).               *)
MergedTurnIsFinal ==
  [][Shrinks => \E u \in Utterances : history[Len(history)].words = {u}]_vars

-----------------------------------------------------------------------------
(* Liveness, under Fairness. *)

(* Every turn the machine takes comes to an end, whatever the backends and  *)
(* the client do: no handler, call or tool leaves the floor taken, and a    *)
(* result that never comes times out (tick, driven by the watchdog).        *)
EveryTurnEnds == F!EveryTurnEnds

-----------------------------------------------------------------------------
(* What the documentation of the code says, and the code does not do. *)

PendingTaken == pendingTranscript # NoWords /\ pendingTranscript' = NoWords

(* arm: "a trigger that arrives while [the machine holds the floor] has     *)
(* never started a second response".                                        *)
TriggerStartsNoSecondResponse ==
  [][(PendingTaken /\ F!MachineHolds) => turn' = turn]_vars

(* "a transcript the floor did not take is remembered as the pending        *)
(* transcript and answered by the next response.create".                    *)
PendingIsAnswered ==
  [][PendingTaken => handler'.kind = "answer" /\ handler'.words = pendingTranscript]_vars

(* response.function_call_arguments.done names the item that the response   *)
(* answers, as the response.created of the same response does.              *)
CallNamesItsItem ==
  [][event'.kind \in {"started", "tool_call"} =>
       \E i \in DOMAIN history' :
         /\ history'[i].role = "user" /\ history'[i].turn = event'.turn
         /\ itemId' \in history'[i].words
    ]_vars
=============================================================================
