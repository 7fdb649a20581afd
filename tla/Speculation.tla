---------------------------- MODULE Speculation ----------------------------
(***************************************************************************)
(* Hidden speculation (lobes/realtime/_speculation.py) in a streaming      *)
(* conversation: when the speaker pauses, the route (app.py) transcribes   *)
(* what was said so far and sends the generate request that the turn       *)
(* would send if it ended here, out of sight.  If the pause turns out to   *)
(* be the end of the turn, its transcript is used, and its reply if the    *)
(* request is the one the turn sends; if the speaker goes on, it is        *)
(* dropped.                                                                *)
(*                                                                         *)
(* Every step is a step of Conversation, or leaves it as it is, and says   *)
(* what becomes of the speculations.  The segmenter (_segmenter.py) is the *)
(* speaker: an utterance is a number of stretches of speech with pauses    *)
(* between them.  So audio is a set of utterances, as in Conversation,     *)
(* with the number of stretches its last utterance has.                    *)
(***************************************************************************)
EXTENDS Conversation

CONSTANTS
  MaxStretches    \* bound: stretches of speech in an utterance

ASSUME SpeculationAssumption == MaxStretches \in Nat \ {0}

VARIABLES
  stretches,     \* stretches of the latest utterance
  paused,        \* Segmenter._paused
  specs,         \* the speculations, by the pause that started them
  speculation,   \* tasks.speculation
  given          \* _ActiveResponse.speculation of the response to each turn

hidden == <<stretches, paused, specs, speculation, given>>
routeVars == <<vars, hidden>>

(* A pause is the utterance and the stretch of speech it comes after. *)
Pauses == Utterances \X (1..MaxStretches)
NoPause == <<0, 0>>

(* A speculation: the utterances in its snapshot, where it is, what became  *)
(* of its transcription, and the messages of the request it sent, none if   *)
(* it sent none.  One that does not exist, or not any more, is Gone.        *)
Gone == [words |-> NoWords, at |-> "gone", heard |-> "nothing", request |-> <<>>]
Running(s) == s.at \in {"transcribing", "streaming"}

IsSpeculation(s) ==
  /\ s.words \subseteq Utterances
  /\ s.at \in {"gone", "transcribing", "streaming", "ended", "failed"}
  /\ s.heard \in {"nothing", "text", "blank", "failed"}
  /\ s.request \in Seq([role : Roles, turn : 1..MaxTurns + 1, leg : 0..MaxLegs,
                        words : SUBSET Utterances])

RouteTypeOK ==
  /\ TypeOK
  /\ stretches \in 0..MaxStretches
  /\ paused \in BOOLEAN
  /\ DOMAIN specs = Pauses /\ \A p \in Pauses : IsSpeculation(specs[p])
  /\ speculation \in Pauses \cup {NoPause}
  /\ given \in [Turns -> Pauses \cup {NoPause}]

RouteInit ==
  /\ Init /\ streaming
  /\ stretches = 0 /\ paused = FALSE
  /\ specs = [p \in Pauses |-> Gone]
  /\ speculation = NoPause
  /\ given = [t \in Turns |-> NoPause]

-----------------------------------------------------------------------------
(* Cancelling stops what runs; of a stream that has ended every line stays. *)
Cancelled(f, p) == [q \in Pauses |-> IF q = p /\ Running(f[q]) THEN Gone ELSE f[q]]

(* The floor's cancel hooks reach the speculation of the response that is   *)
(* active (_ResponseCancels, _ActiveResponse.cancel_generate).              *)
Hooked(f) ==
  IF event'.kind \in {"interrupted", "failed"} /\ event'.turn \in Turns
  THEN Cancelled(f, given[event'.turn]) ELSE f

(* drop_speculation; what nobody replays is forgotten. *)
Dropped(f) ==
  IF \E t \in Turns : given[t] = speculation
  THEN Cancelled(f, speculation)
  ELSE [q \in Pauses |-> IF q = speculation THEN Gone ELSE f[q]]

(* build_speculative_request has a request to build. *)
MaySpeculate == optedIn /\ streaming /\ state = "listening" /\ ~AwaitingToolResult

-----------------------------------------------------------------------------
(* The speaker, heard through the segmenter. *)

SpeechStarted_KeepsTurn ==
  /\ OnSpeechStarted
  /\ stretches' = stretches + 1 /\ paused' = FALSE
  /\ specs' = Hooked(Dropped(specs)) /\ speculation' = NoPause
  /\ UNCHANGED given

SpeechStarted ==
  /\ OnSpeechStarted
  /\ stretches' = 1 /\ paused' = FALSE
  /\ specs' = Hooked(Dropped(specs)) /\ speculation' = NoPause
  /\ UNCHANGED given

(* A silence too short to end the turn: work starts on what was said.       *)
StartSpeculation_WithoutFirstHalf ==
  /\ speculation' = <<said, stretches>>
  /\ specs' = [Dropped(specs) EXCEPT ![speculation'] =
                 [Gone EXCEPT !.words = {said}, !.at = "transcribing"]]

StartSpeculation ==
  /\ speculation' = <<said, stretches>>
  /\ specs' = [Dropped(specs) EXCEPT ![speculation'] =
                 [Gone EXCEPT !.words = carried \cup {said}, !.at = "transcribing"]]

DropSpeculation == specs' = Dropped(specs) /\ speculation' = NoPause

SpeechPaused ==
  /\ Idle /\ hearing = "speech" /\ ~paused
  /\ paused' = TRUE
  /\ IF MaySpeculate THEN StartSpeculation ELSE DropSpeculation
  /\ UNCHANGED vars
  /\ UNCHANGED <<stretches, given>>

SpeechResumed ==
  /\ Idle /\ hearing = "speech" /\ paused
  /\ stretches < MaxStretches
  /\ stretches' = stretches + 1 /\ paused' = FALSE
  /\ DropSpeculation
  /\ UNCHANGED vars
  /\ UNCHANGED given

(* The turn is committed.  The chunk that makes it too long may be the one  *)
(* in which the speaker resumes: the segmenter then says nothing of it.     *)
SpeechStopped(silence, resumed) ==
  /\ OnSpeechStopped(silence)
  /\ resumed => paused /\ ~silence /\ stretches < MaxStretches
  /\ stretches' = IF resumed THEN stretches + 1 ELSE stretches
  /\ paused' = FALSE
  /\ specs' = Hooked(IF silence THEN specs ELSE Dropped(specs))
  /\ speculation' = IF silence THEN speculation ELSE NoPause
  /\ UNCHANGED given

-----------------------------------------------------------------------------
(* The transcript of a committed turn (_transcribe_turn). *)

Hidden == specs[speculation]

(* The receive loop waits for the transcript of the speculation ...         *)
UseTranscript ==
  /\ speculation # NoPause
  /\ Hidden.heard \in {"text", "blank"}
  /\ OnTranscript(Hidden.heard = "blank")
  /\ specs' = Hooked(specs)
  /\ UNCHANGED <<stretches, paused, speculation, given>>

(* ... gives the speculation up if it failed ...                            *)
GiveUpSpeculation ==
  /\ hearing = "transcribing"
  /\ speculation # NoPause
  /\ Hidden.heard = "failed"
  /\ DropSpeculation
  /\ UNCHANGED vars
  /\ UNCHANGED <<stretches, paused, given>>

(* ... and without one transcribes the turn itself.                         *)
Transcribe ==
  /\ speculation = NoPause
  /\ (\E blank \in BOOLEAN : OnTranscript(blank)) \/ OnTranscriptionFailed
  /\ specs' = Hooked(specs)
  /\ UNCHANGED <<stretches, paused, speculation, given>>

-----------------------------------------------------------------------------
(* The speculation itself (_speculate). *)

(* The request it sends, if the floor is still listening: the turn ended    *)
(* with these words.                                                        *)
Requested(s) ==
  IF MaySpeculate
  THEN [s EXCEPT !.heard = "text", !.at = "streaming",
                 !.request = Append(history, Entry("user", turn + 1, 0, s.words))]
  ELSE [s EXCEPT !.heard = "text", !.at = "ended"]

(* Its transcript comes, and the request is sent at once. *)
Transcribed_ForgetsFailure(s) ==
  {[s EXCEPT !.at = "ended"], [s EXCEPT !.heard = "blank", !.at = "ended"], Requested(s)}

Transcribed(s) ==
  {[s EXCEPT !.heard = "failed", !.at = "ended"],
   [s EXCEPT !.heard = "blank", !.at = "ended"],
   Requested(s)}

(* What a step of the speculation makes of it. *)
Advanced(s) ==
  CASE s.at = "transcribing" -> Transcribed(s)
    [] s.at = "streaming" -> {[s EXCEPT !.at = "ended"], [s EXCEPT !.at = "failed"]}
    [] OTHER -> {}

Speculate ==
  /\ UNCHANGED vars
  /\ \E p \in Pauses : \E s \in Advanced(specs[p]) : specs' = [specs EXCEPT ![p] = s]
  /\ UNCHANGED <<stretches, paused, speculation, given>>

-----------------------------------------------------------------------------
(* The response that may adopt it. *)

Launch_KeepsSpeculation ==
  /\ LaunchResponse
  /\ given' = [given EXCEPT ![pendingResponse] = speculation]
  /\ UNCHANGED <<stretches, paused, specs, speculation>>

(* Whatever the pause started is handed over to the response. *)
Launch ==
  /\ LaunchResponse
  /\ given' = [given EXCEPT ![pendingResponse] = speculation]
  /\ speculation' = NoPause
  /\ UNCHANGED <<stretches, paused, specs>>

CanAdopt_AnyRequest(s) == s.request # <<>>

(* The request that was sent is the one the turn sends. *)
CanAdopt(s) == s.request = history

(* The response begins, and what it was given and may not adopt is gone.    *)
Begin(t) ==
  /\ BeginResponse(t)
  /\ LET refuses == /\ F!Accepts("responding", t)
                    /\ given[t] # NoPause
                    /\ ~CanAdopt(specs[given[t]])
     IN  IF refuses
         THEN /\ specs' = [specs EXCEPT ![given[t]] = Gone]
              /\ given' = [given EXCEPT ![t] = NoPause]
         ELSE UNCHANGED <<specs, given>>
  /\ UNCHANGED <<stretches, paused, speculation>>

(* The stream of the response is its own or that of the speculation.        *)
Follows(t, where) == given[t] # NoPause => specs[given[t]].at \in where

Delta(t) ==
  /\ OnGenerateDelta(t)
  /\ Follows(t, {"streaming", "ended", "failed"})
  /\ UNCHANGED hidden

(* The response is over, and so is what it was given. *)
Ended(t) ==
  /\ specs' = [p \in Pauses |-> IF p = given[t] THEN Gone ELSE Hooked(specs)[p]]
  /\ given' = [given EXCEPT ![t] = NoPause]
  /\ UNCHANGED <<stretches, paused, speculation>>

StreamEnds(t) ==
  /\ OnGenerateStreamEnd(t) \/ AbandonStreamForToolCall(t)
  /\ Follows(t, {"ended"})
  /\ Ended(t)

StreamFails(t) ==
  /\ FailGenerate(t)
  /\ Follows(t, {"failed"})
  /\ Ended(t)

(* The stream of a cancelled speculation is cancelled, and the response     *)
(* ends without a word to the bridge.                                       *)
StreamCancelled(t) ==
  /\ Idle /\ t \in calls
  /\ given[t] # NoPause /\ specs[given[t]] = Gone
  /\ calls' = calls \ {t}
  /\ F!Unmoved /\ Heed(replyText, <<>>)
  /\ UNCHANGED <<surroundings, launched, syntheses>>
  /\ Ended(t)

-----------------------------------------------------------------------------
(* The end of the session.  A response that has begun cancels what it was   *)
(* given; one that has not is never run, and what it was given goes on.     *)
Leave ==
  /\ Close
  /\ specs' = [p \in Pauses |-> IF \E t \in launched : given[t] = p THEN specs[p] ELSE Gone]
  /\ speculation' = NoPause
  /\ given' = [t \in Turns |-> IF t \in launched THEN given[t] ELSE NoPause]
  /\ UNCHANGED <<stretches, paused>>

(* The steps of the conversation that concern the speculations only through *)
(* the floor's hooks.                                                       *)
Aside ==
  /\ \/ Client \/ Handler \/ DeliverNext \/ Tick \/ Elapse
     \/ TakePendingSegment
     \/ \E piece \in Piece :
          FailTts(piece) \/ \E size \in 0..MaxChunks : OnTtsAudio(piece, size)
  /\ specs' = Hooked(specs)
  /\ UNCHANGED <<stretches, paused, speculation, given>>

-----------------------------------------------------------------------------
Boundaries ==
  \/ SpeechStarted \/ SpeechPaused \/ SpeechResumed
  \/ \E silence, resumed \in BOOLEAN : SpeechStopped(silence, resumed)

TranscribeTurn == UseTranscript \/ GiveUpSpeculation \/ Transcribe

RouteNext ==
  \/ Boundaries
  \/ TranscribeTurn
  \/ Speculate
  \/ Launch
  \/ \E t \in Turns :
       Begin(t) \/ Delta(t) \/ StreamEnds(t) \/ StreamFails(t) \/ StreamCancelled(t)
  \/ Aside
  \/ Leave

RouteSpec == RouteInit /\ [][RouteNext]_routeVars

(* A transcription ends, both the hidden and the open one: the calls have   *)
(* timeouts.  A handler that runs finishes.                                 *)
RouteFairness ==
  /\ WF_routeVars(Speculate)
  /\ WF_routeVars(TranscribeTurn)
  /\ WF_routeVars(Handler /\ Aside)

FairRouteSpec == RouteSpec /\ RouteFairness
=============================================================================
