----------------------- MODULE SpeculationProperties -----------------------
(***************************************************************************)
(* What has to be true of hidden speculation (Speculation.tla).            *)
(***************************************************************************)
EXTENDS Speculation, ConversationProperties

(* The transcript a turn is answered from is that of all its audio: while   *)
(* the receive loop transcribes a committed turn, the speculation it would  *)
(* take the transcript from is a snapshot of exactly the committed audio,   *)
(* the first half of a merged turn and every stretch of speech included     *)
(* (_emit_turn_events, _transcribe_turn, Segmenter._process_chunk).         *)
WholeTurnIsTranscribed ==
  (hearing = "transcribing" /\ speculation # NoPause) =>
    speculation = <<said, stretches>> /\ Hidden.words = lastCommit

(* A reply that was generated before its turn was committed answers that    *)
(* turn: what its request said is what the history says up to the turn's    *)
(* user entry, whatever was answered, taken back or updated in between      *)
(* (can_adopt, build_speculative_request, build_generate_request).          *)
AdoptedAnswersItsTurn ==
  \A t \in calls :
    (given[t] # NoPause /\ t = turn /\ F!MachineHolds) =>
      LET messages == specs[given[t]].request
      IN  messages = SubSeq(history, 1, Len(messages))

(* Speculation is hidden: a conversation with it is a conversation without  *)
(* it, step by step, whatever is started, dropped, handed over or adopted.  *)
(* So all that is true of a conversation stays true, and a response whose   *)
(* stream was that of a cancelled speculation was over already: no turn is  *)
(* left waiting for a reply that was thrown away (_Speculation.cancel,      *)
(* _start_pending_response).                                                *)
IsConversation == Spec

(* The receive loop is never left waiting for a transcript that does not    *)
(* come: not for one of a speculation that failed, was cancelled or was     *)
(* handed over (_Speculation.transcript_ready).                             *)
TranscriptionEnds == hearing = "transcribing" ~> hearing # "transcribing"
=============================================================================
