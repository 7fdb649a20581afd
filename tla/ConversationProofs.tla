------------------------- MODULE ConversationProofs -------------------------
(***************************************************************************)
(* For sessions of any length and any number of utterances:                *)
(*                                                                         *)
(*   - a turn is answered from the transcript of all its audio             *)
(*     (WholeTurnHolds), and a conversation with speculation is a          *)
(*     conversation without (SpeculationIsHidden), so what follows is true *)
(*     of both;                                                            *)
(*   - the floor of a conversation is the floor (ConversationDrivesFloor), *)
(*     so its invariant is theirs, and the outstanding tool call is the    *)
(*     one the floor waits for (CallMatchesFloorHolds); what the floor     *)
(*     promises it keeps in every conversation                             *)
(*     (FloorOfConversationIsSound, ConversationDoneMeansDelivered,        *)
(*     ConversationKeepsProtocol);                                         *)
(*   - the history is one that a backend accepts and reads as turns in     *)
(*     order (CallsAreAnsweredHolds, TurnsInOrderHolds);                   *)
(*   - no utterance is answered twice, and a turn that is taken back is    *)
(*     taken back exactly, once (AnsweredOnceHolds, TakeBackIsExactHolds,  *)
(*     MergedTurnIsFinalHolds);                                            *)
(*   - the work of the bridge is of the current turn, and what the floor   *)
(*     waits for is being made (WorkIsCurrentHolds,                        *)
(*     WaitedForIsUnderWayHolds);                                          *)
(*   - a reply that was generated in a pause is the answer to the turn     *)
(*     that adopts it (AdoptedAnswersItsTurnHolds).                        *)
(*                                                                         *)
(* Each part has an inductive invariant of its own, which rests on those   *)
(* before it: FloorInv of the floor, CallInv, TypeInv, HistoryInv,         *)
(* TranscriptInv, CommitInv, WordsInv, WorkInv; with speculation also      *)
(* SnapshotInv, GoneInv, SpecsTyped, AdoptInv.                             *)
(***************************************************************************)
EXTENDS SpeculationProperties, TLAPS, SequenceTheorems

Shaped(f) ==
  /\ DOMAIN f = Pauses
  /\ \A p \in Pauses : DOMAIN f[p] = {"words", "at", "heard", "request"}

Bounds ==
  /\ said \in 0..MaxUtterances /\ stretches \in 0..MaxStretches
  /\ hearing = "speech" => said > 0 /\ stretches > 0
  /\ speculation \in Pauses \cup {NoPause}
  /\ given \in [Turns -> Pauses \cup {NoPause}]
  /\ Shaped(specs)

(* The speculation of the session is of the latest pause, and its snapshot  *)
(* is all that was said since the last turn that stands.                    *)
Current ==
  speculation # NoPause =>
    /\ speculation = <<said, stretches>>
    /\ hearing = "speech" => paused /\ specs[speculation].words = carried \cup {said}
    /\ hearing = "transcribing" => specs[speculation].words = lastCommit

Before(p) ==
  \/ p[1] < said
  \/ p[1] = said /\ p[2] < stretches
  \/ p[1] = said /\ p[2] = stretches /\ (hearing = "speech" => paused)

(* What was handed over is not the session's any more, and is of a pause    *)
(* that was.                                                                *)
Apart ==
  \A t \in Turns : given[t] # NoPause => given[t] # speculation /\ Before(given[t])

SnapshotInv == Bounds /\ Current /\ Apart

-----------------------------------------------------------------------------
LEMMA GoneIsShaped == DOMAIN Gone = {"words", "at", "heard", "request"}
BY DEF Gone

LEMMA HookedIsShaped ==
  ASSUME NEW f, Shaped(f) PROVE Shaped(Hooked(f))
BY GoneIsShaped DEF Shaped, Hooked, Cancelled

LEMMA DroppedIsShaped ==
  ASSUME NEW f, Shaped(f) PROVE Shaped(Dropped(f))
BY GoneIsShaped DEF Shaped, Dropped, Cancelled

LEMMA NoPauseIsNone == NoPause \notin Pauses
BY DEF NoPause, Pauses, Utterances

(* The hooks of the floor never reach the speculation of the session.       *)
LEMMA HookedSpares ==
  ASSUME Bounds, Apart, speculation # NoPause
  PROVE  Hooked(specs)[speculation] = specs[speculation]
BY DEF Bounds, Apart, Hooked, Cancelled, Shaped

LEMMA AdvancedKeepsSnapshot ==
  ASSUME NEW s, DOMAIN s = {"words", "at", "heard", "request"}, NEW r \in Advanced(s)
  PROVE  DOMAIN r = {"words", "at", "heard", "request"} /\ r.words = s.words
BY DEF Advanced, Transcribed, Requested

-----------------------------------------------------------------------------
(* The speaker. *)

LEMMA SpeechStartedKeeps ==
  ASSUME SnapshotInv, SpeechStarted PROVE SnapshotInv'
<1>1. /\ hearing' = "speech" /\ said < MaxUtterances /\ said' = said + 1
      /\ stretches' = 1 /\ speculation' = NoPause /\ given' = given
  BY DEF SpeechStarted, OnSpeechStarted
<1>2. Shaped(specs')
  BY HookedIsShaped, DroppedIsShaped DEF SpeechStarted, SnapshotInv, Bounds
<1>3. Bounds'
  BY <1>1, <1>2, ConversationAssumption, SpeculationAssumption
  DEF SnapshotInv, Bounds
<1>4. Current' /\ Apart'
  BY <1>1, ConversationAssumption, SpeculationAssumption
  DEF SnapshotInv, Bounds, Current, Apart, Before, Pauses, Utterances
<1>. QED BY <1>3, <1>4 DEF SnapshotInv

LEMMA SpeechPausedKeeps ==
  ASSUME SnapshotInv, SpeechPaused PROVE SnapshotInv'
<1>1. /\ hearing = "speech" /\ ~paused /\ paused'
      /\ UNCHANGED <<hearing, said, carried, lastCommit, stretches, given>>
  BY DEF SpeechPaused, vars, audio
<1>2. <<said, stretches>> \in Pauses
  BY <1>1, ConversationAssumption, SpeculationAssumption
  DEF SnapshotInv, Bounds, Pauses, Utterances
<1>3. \A t \in Turns : given[t] # NoPause => given[t] # <<said, stretches>> /\ Before(given[t])'
  BY <1>1, ConversationAssumption, SpeculationAssumption
  DEF SnapshotInv, Bounds, Apart, Before, Pauses, Utterances
<1>4. CASE StartSpeculation
  <2>1. /\ speculation' = <<said, stretches>>
        /\ Shaped(specs')
        /\ specs'[speculation'].words = carried \cup {said}
    BY <1>2, <1>4, DroppedIsShaped, GoneIsShaped
    DEF StartSpeculation, SnapshotInv, Bounds, Shaped, Gone
  <2>. QED BY <1>1, <1>2, <1>3, <2>1 DEF SnapshotInv, Bounds, Current, Apart
<1>5. CASE DropSpeculation
  <2>1. speculation' = NoPause /\ Shaped(specs')
    BY <1>5, DroppedIsShaped DEF DropSpeculation, SnapshotInv, Bounds
  <2>. QED BY <1>1, <1>3, <2>1 DEF SnapshotInv, Bounds, Current, Apart
<1>. QED BY <1>4, <1>5 DEF SpeechPaused

LEMMA SpeechResumedKeeps ==
  ASSUME SnapshotInv, SpeechResumed PROVE SnapshotInv'
<1>1. /\ hearing = "speech" /\ stretches < MaxStretches /\ stretches' = stretches + 1
      /\ speculation' = NoPause
      /\ UNCHANGED <<hearing, said, given>>
  BY DEF SpeechResumed, DropSpeculation, vars, audio
<1>2. Shaped(specs')
  BY DroppedIsShaped DEF SpeechResumed, DropSpeculation, SnapshotInv, Bounds
<1>. QED
  BY <1>1, <1>2, ConversationAssumption, SpeculationAssumption
  DEF SnapshotInv, Bounds, Current, Apart, Before, Pauses, Utterances

LEMMA SpeechStoppedKeeps ==
  ASSUME SnapshotInv, NEW silence \in BOOLEAN, NEW resumed \in BOOLEAN,
         SpeechStopped(silence, resumed)
  PROVE  SnapshotInv'
<1>1. /\ hearing = "speech" /\ hearing' = "transcribing"
      /\ said' = said /\ lastCommit' = carried \cup {said}
      /\ resumed => ~silence /\ stretches < MaxStretches
      /\ stretches' = IF resumed THEN stretches + 1 ELSE stretches
      /\ given' = given
  BY DEF SpeechStopped, OnSpeechStopped
<1>2. Bounds' /\ Apart'
  <2>1. Shaped(specs')
    BY HookedIsShaped, DroppedIsShaped DEF SpeechStopped, SnapshotInv, Bounds
  <2>2. speculation' = speculation \/ speculation' = NoPause
    BY DEF SpeechStopped
  <2>. QED
    BY <1>1, <2>1, <2>2, ConversationAssumption, SpeculationAssumption
    DEF SnapshotInv, Bounds, Apart, Before, Pauses, Utterances
<1>3. Current'
  <2>1. CASE ~silence
    BY <2>1 DEF SpeechStopped, Current
  <2>2. CASE silence
    <3>1. speculation' = speculation /\ specs' = Hooked(specs) /\ stretches' = stretches
      BY <1>1, <2>2 DEF SpeechStopped
    <3>. QED BY <1>1, <3>1, HookedSpares DEF SnapshotInv, Current
  <2>. QED BY <2>1, <2>2
<1>. QED BY <1>2, <1>3 DEF SnapshotInv

-----------------------------------------------------------------------------
(* The transcript. *)

(* A step after which the loop is where nothing is compared with the        *)
(* snapshot, and that takes nothing up.                                     *)
LEMMA QuietKeeps ==
  ASSUME SnapshotInv, hearing' \in {"quiet", "gone"}, said' = said, stretches' = stretches,
         speculation' \in {speculation, NoPause}, Shaped(specs'),
         given' \in [Turns -> Pauses \cup {NoPause}],
         \A t \in Turns : given'[t] \in {given[t], NoPause}
  PROVE  SnapshotInv'
<1>1. Bounds' /\ Current'
  BY DEF SnapshotInv, Bounds, Current
<1>2. \A t \in Turns : given'[t] # NoPause => Before(given[t])'
  BY DEF SnapshotInv, Apart, Before
<1>. QED BY <1>1, <1>2 DEF SnapshotInv, Apart, Before

LEMMA TranscribeTurnKeeps ==
  ASSUME SnapshotInv, TranscribeTurn PROVE SnapshotInv'
<1>1. CASE UseTranscript
  <2>1. hearing' = "quiet" /\ said' = said
    BY <1>1 DEF UseTranscript, OnTranscript
  <2>. QED
    BY <1>1, <2>1, QuietKeeps, HookedIsShaped DEF UseTranscript, SnapshotInv, Bounds
<1>2. CASE GiveUpSpeculation
  <2>1. speculation' = NoPause /\ Shaped(specs')
    BY <1>2, DroppedIsShaped DEF GiveUpSpeculation, DropSpeculation, SnapshotInv, Bounds
  <2>. QED
    BY <1>2, <2>1
    DEF GiveUpSpeculation, SnapshotInv, Bounds, Current, Apart, Before, vars, audio
<1>3. CASE Transcribe
  <2>1. hearing' = "quiet" /\ said' = said
    BY <1>3 DEF Transcribe, OnTranscript, OnTranscriptionFailed
  <2>. QED
    BY <1>3, <2>1, QuietKeeps, HookedIsShaped DEF Transcribe, SnapshotInv, Bounds
<1>. QED BY <1>1, <1>2, <1>3 DEF TranscribeTurn

-----------------------------------------------------------------------------
(* The speculation, and the responses. *)

(* A step that neither the speaker nor the session's speculation takes part *)
(* in.                                                                      *)
LEMMA OtherKeeps ==
  ASSUME SnapshotInv, UNCHANGED <<audio, stretches, paused>>,
         speculation' \in {speculation, NoPause}, Shaped(specs'),
         speculation' # NoPause =>
           specs'[speculation].words = specs[speculation].words,
         given' \in [Turns -> Pauses \cup {NoPause}],
         \A t \in Turns : given'[t] # NoPause =>
           \/ given'[t] = given[t]
           \/ given'[t] = speculation /\ speculation' = NoPause
  PROVE  SnapshotInv'
<1>1. Bounds' /\ Current'
  BY DEF SnapshotInv, Bounds, Current, audio
<1>2. \A t \in Turns : given'[t] # NoPause => Before(given'[t])
  BY DEF SnapshotInv, Current, Apart, Before
<1>3. \A t \in Turns : given'[t] # NoPause => given'[t] # speculation'
  BY DEF SnapshotInv, Apart
<1>. QED BY <1>1, <1>2, <1>3 DEF SnapshotInv, Apart, Before, audio

LEMMA SpeculateKeeps ==
  ASSUME SnapshotInv, Speculate PROVE SnapshotInv'
<1>1. PICK p \in Pauses : \E s \in Advanced(specs[p]) : specs' = [specs EXCEPT ![p] = s]
  BY DEF Speculate
<1>2. PICK s \in Advanced(specs[p]) : specs' = [specs EXCEPT ![p] = s]
  BY <1>1
<1>3. DOMAIN s = {"words", "at", "heard", "request"} /\ s.words = specs[p].words
  BY AdvancedKeepsSnapshot DEF SnapshotInv, Bounds, Shaped
<1>4. /\ Shaped(specs')
      /\ \A q \in Pauses : specs'[q].words = specs[q].words
  BY <1>2, <1>3 DEF SnapshotInv, Bounds, Shaped
<1>. QED BY <1>4, OtherKeeps DEF Speculate, vars, SnapshotInv, Bounds

LEMMA LaunchKeeps ==
  ASSUME SnapshotInv, Launch PROVE SnapshotInv'
<1>1. UNCHANGED audio
  BY DEF Launch, LaunchResponse, surroundings
<1>2. given' \in [Turns -> Pauses \cup {NoPause}]
  BY DEF Launch, SnapshotInv, Bounds
<1>3. \A t \in Turns : given'[t] = given[t] \/ given'[t] = speculation
  BY DEF Launch, SnapshotInv, Bounds
<1>. QED BY <1>1, <1>2, <1>3, OtherKeeps DEF Launch, SnapshotInv, Bounds

LEMMA BeginKeeps ==
  ASSUME SnapshotInv, NEW t \in Turns, Begin(t) PROVE SnapshotInv'
<1>1. UNCHANGED audio
  BY DEF Begin, BeginResponse, surroundings
<1>2. CASE UNCHANGED <<specs, given>>
  BY <1>1, <1>2, OtherKeeps DEF Begin, SnapshotInv, Bounds
<1>3. CASE /\ given[t] # NoPause
           /\ specs' = [specs EXCEPT ![given[t]] = Gone]
           /\ given' = [given EXCEPT ![t] = NoPause]
  <2>1. Shaped(specs')
    BY <1>3, GoneIsShaped DEF SnapshotInv, Bounds, Shaped
  <2>2. speculation # NoPause => specs'[speculation] = specs[speculation]
    BY <1>3 DEF SnapshotInv, Bounds, Shaped, Apart
  <2>. QED BY <1>1, <1>3, <2>1, <2>2, OtherKeeps DEF Begin, SnapshotInv, Bounds
<1>. QED BY <1>2, <1>3 DEF Begin

LEMMA EndedKeeps ==
  ASSUME SnapshotInv, NEW t \in Turns, UNCHANGED audio, Ended(t) PROVE SnapshotInv'
<1>1. Shaped(specs')
  BY HookedIsShaped, GoneIsShaped DEF Ended, SnapshotInv, Bounds, Shaped
<1>2. speculation # NoPause => specs'[speculation] = specs[speculation]
  BY HookedSpares DEF Ended, SnapshotInv, Bounds, Apart
<1>. QED BY <1>1, <1>2, OtherKeeps DEF Ended, SnapshotInv, Bounds

LEMMA ResponseKeeps ==
  ASSUME SnapshotInv, NEW t \in Turns,
         Begin(t) \/ Delta(t) \/ StreamEnds(t) \/ StreamFails(t) \/ StreamCancelled(t)
  PROVE  SnapshotInv'
<1>1. CASE Begin(t)
  BY <1>1, BeginKeeps
<1>2. CASE Delta(t)
  <2>1. UNCHANGED audio /\ UNCHANGED hidden
    BY <1>2 DEF Delta, OnGenerateDelta, surroundings
  <2>. QED BY <2>1, OtherKeeps DEF hidden, SnapshotInv, Bounds
<1>3. CASE StreamEnds(t)
  <2>1. UNCHANGED audio
    BY <1>3 DEF StreamEnds, OnGenerateStreamEnd, AbandonStreamForToolCall, surroundings
  <2>. QED BY <1>3, <2>1, EndedKeeps DEF StreamEnds
<1>4. CASE StreamFails(t)
  <2>1. UNCHANGED audio
    BY <1>4 DEF StreamFails, FailGenerate, surroundings
  <2>. QED BY <1>4, <2>1, EndedKeeps DEF StreamFails
<1>5. CASE StreamCancelled(t)
  <2>1. UNCHANGED audio
    BY <1>5 DEF StreamCancelled, surroundings
  <2>. QED BY <1>5, <2>1, EndedKeeps DEF StreamCancelled
<1>. QED BY <1>1, <1>2, <1>3, <1>4, <1>5

LEMMA AsideKeeps ==
  ASSUME SnapshotInv, Aside PROVE SnapshotInv'
<1>1. UNCHANGED audio
  BY DEF Aside, Client, Handler, ResponseCreateForTool, ResponseCreate, OnFunctionCallOutput,
         AnswerPending, SurfaceToolCall, DeliverNext, Tick, Elapse, TakePendingSegment,
         FailTts, OnTtsAudio, Synthesized, surroundings
<1>2. Shaped(specs') /\ (speculation # NoPause => specs'[speculation] = specs[speculation])
  BY HookedIsShaped, HookedSpares DEF Aside, SnapshotInv, Bounds
<1>. QED BY <1>1, <1>2, OtherKeeps DEF Aside, SnapshotInv, Bounds

LEMMA LeaveKeeps ==
  ASSUME SnapshotInv, Leave PROVE SnapshotInv'
<1>1. hearing' = "gone" /\ said' = said
  BY DEF Leave, Close
<1>2. Shaped(specs')
  BY GoneIsShaped DEF Leave, SnapshotInv, Bounds, Shaped
<1>3. /\ given' \in [Turns -> Pauses \cup {NoPause}]
      /\ \A t \in Turns : given'[t] \in {given[t], NoPause}
  BY DEF Leave, SnapshotInv, Bounds
<1>. QED BY <1>1, <1>2, <1>3, QuietKeeps DEF Leave

-----------------------------------------------------------------------------
LEMMA SnapshotInvHolds == RouteSpec => []SnapshotInv
<1>1. RouteInit => SnapshotInv
  BY ConversationAssumption, SpeculationAssumption, GoneIsShaped
  DEF RouteInit, Init, SnapshotInv, Bounds, Current, Apart, Shaped
<1>2. ASSUME SnapshotInv, [RouteNext]_routeVars PROVE SnapshotInv'
  <2>1. CASE UNCHANGED routeVars
    BY <1>2, <2>1
    DEF routeVars, hidden, vars, audio, SnapshotInv, Bounds, Current, Apart, Before
  <2>2. CASE RouteNext
    BY <1>2, <2>2, SpeechStartedKeeps, SpeechPausedKeeps, SpeechResumedKeeps,
       SpeechStoppedKeeps, TranscribeTurnKeeps, SpeculateKeeps, LaunchKeeps, ResponseKeeps,
       AsideKeeps, LeaveKeeps
    DEF RouteNext, Boundaries
  <2>. QED BY <1>2, <2>1, <2>2
<1>. QED BY <1>1, <1>2, PTL DEF RouteSpec

(* However long the session, a turn whose transcript was made in a pause is *)
(* answered from all of it (_emit_turn_events, _transcribe_turn).           *)
THEOREM WholeTurnHolds == RouteSpec => []WholeTurnIsTranscribed
<1>1. SnapshotInv => WholeTurnIsTranscribed
  BY DEF SnapshotInv, Current, WholeTurnIsTranscribed, Hidden
<1>. QED BY <1>1, SnapshotInvHolds, PTL
-----------------------------------------------------------------------------
(* The floor.  Every step of the conversation takes one of its steps. *)

FloorMove ==
  \/ F!OnSpeechStarted \/ F!OnContinuationOnset \/ F!OnTurnCommitted
  \/ F!DeliverNext \/ F!Tick \/ F!Close \/ F!Elapse \/ F!Unmoved
  \/ \E t, x : \/ F!OnTranscript(t, x) \/ F!OnReplyText(t) \/ F!OnReplySegment(t, x)
               \/ F!OnEmptyReply(t) \/ F!OnReplyEnd(t) \/ F!OnToolCall(t)
               \/ F!OnToolResult(t) \/ F!DiscardReplySegments(t) \/ F!FailStage(x, t)
  \/ \E t, i, size : F!OnAudioReady(t, i, size)

(* The machine is done with a turn. *)
Over(t) == t < turn \/ (t = turn /\ ~F!MachineHolds /\ armed = F!Unarmed)

(* What a step of the floor does to turns: one that is over stays over, and *)
(* one is over when the hooks hear of it.                                   *)
Settles ==
  /\ turn' \in Nat
  /\ \A t \in Nat : Over(t) => Over(t)'
  /\ \A t : event'.kind \in {"interrupted", "failed"} /\ event'.turn = t => Over(t)'

LEMMA EndingSettles ==
  ASSUME turn \in Nat, turn' = turn, state' = "listening", armed' = F!Unarmed,
         event'.turn = turn
  PROVE  Settles
BY DEF Settles, Over, F!MachineHolds, F!MachineHeld

LEMMA GoingOnSettles ==
  ASSUME turn \in Nat, turn' = turn, event'.kind \notin {"interrupted", "failed"},
         F!MachineHolds \/ armed # F!Unarmed \/ (state' = state /\ armed' = armed)
  PROVE  Settles
BY DEF Settles, Over, F!MachineHolds, F!MachineHeld

LEMMA ReleaseSettles ==
  ASSUME turn \in Nat, NEW n, F!Interrupt \/ F!Fail \/ F!Complete(n) PROVE Settles
<1>1. /\ turn' = turn /\ state' = "listening" /\ armed' = F!Unarmed
      /\ event'.turn = turn
  BY DEF F!Interrupt, F!Fail, F!Complete, F!Release, F!Disarm, F!Event
<1>. QED BY <1>1, EndingSettles

LEMMA FloorMoveSettles ==
  ASSUME turn \in Nat, FloorMove PROVE Settles
<1>1. CASE F!OnSpeechStarted \/ F!OnContinuationOnset \/ F!Tick
  BY <1>1, ReleaseSettles DEF F!OnSpeechStarted, F!OnContinuationOnset, F!Tick
<1>2. CASE F!OnTurnCommitted
  <2>1. turn' = turn + 1 /\ (event' = F!NoEvent \/ event'.turn = turn)
    BY <1>2 DEF F!OnTurnCommitted, F!OpenTurn, F!Event
  <2>. QED BY <2>1 DEF Settles, Over, F!NoEvent
<1>3. CASE F!DeliverNext
  <2>1. CASE F!Complete(chunksSent + 1)
    BY <2>1, ReleaseSettles
  <2>2. CASE turn' = turn /\ event' = F!Event("audio", 0)
    <3>1. F!MachineHolds
      BY <1>3 DEF F!DeliverNext, F!Deliverable, F!MachineHolds, F!MachineHeld
    <3>. QED BY <2>2, <3>1, GoingOnSettles DEF F!Event
  <2>. QED BY <1>3, <2>1, <2>2 DEF F!DeliverNext
<1>4. CASE F!Close
  BY <1>4 DEF F!Close, F!Disarm, F!NoEvent, Settles, Over, F!MachineHolds, F!MachineHeld
<1>5. CASE F!Elapse \/ F!Unmoved
  BY <1>5, GoingOnSettles DEF F!Elapse, F!Unmoved, F!deadline, F!NoEvent
<1>6. ASSUME NEW t, NEW x, F!OnTranscript(t, x) PROVE Settles
  <2>1. F!MachineHolds /\ turn' = turn
    BY <1>6 DEF F!OnTranscript, F!Accepts, F!MachineHolds, F!MachineHeld
  <2>2. CASE event'.kind = "started" \/ event' = F!NoEvent
    BY <2>1, <2>2, GoingOnSettles DEF F!NoEvent
  <2>. QED BY <1>6, <2>2 DEF F!OnTranscript, F!Event
<1>7. ASSUME NEW t, NEW x, F!OnReplyText(t) \/ F!OnReplySegment(t, x) PROVE Settles
  <2>1. F!MachineHolds /\ turn' = turn /\ event'.kind \in {"reply_text", "reply_segment"}
    BY <1>7
    DEF F!OnReplyText, F!OnReplySegment, F!AppendSegment, F!Accepts, F!Event,
        F!MachineHolds, F!MachineHeld
  <2>. QED BY <2>1, GoingOnSettles
<1>8. ASSUME NEW t, F!OnEmptyReply(t) PROVE Settles
  BY <1>8, ReleaseSettles DEF F!OnEmptyReply
<1>9. ASSUME NEW t, F!OnReplyEnd(t) PROVE Settles
  <2>1. CASE F!Complete(chunksSent)
    BY <2>1, ReleaseSettles
  <2>2. CASE turn' = turn /\ event' = F!NoEvent
    <3>1. F!MachineHolds
      BY <1>9 DEF F!OnReplyEnd, F!Accepts, F!MachineHolds, F!MachineHeld
    <3>. QED BY <2>2, <3>1, GoingOnSettles DEF F!NoEvent
  <2>. QED BY <1>9, <2>1, <2>2 DEF F!OnReplyEnd
<1>10. ASSUME NEW t, F!OnToolCall(t) \/ F!OnToolResult(t) \/ F!DiscardReplySegments(t)
       PROVE Settles
  <2>1. F!MachineHolds /\ turn' = turn /\ event'.kind \in {"tool_call", "none"}
    BY <1>10
    DEF F!OnToolCall, F!OnToolResult, F!DiscardReplySegments, F!Accepts, F!Event,
        F!NoEvent, F!MachineHolds, F!MachineHeld
  <2>. QED BY <2>1, GoingOnSettles
<1>11. ASSUME NEW t, NEW stage, F!FailStage(stage, t) PROVE Settles
  BY <1>11, ReleaseSettles DEF F!FailStage
<1>12. ASSUME NEW t, NEW i, NEW size, F!OnAudioReady(t, i, size) PROVE Settles
  <2>1. CASE F!Fail
    BY <2>1, ReleaseSettles
  <2>2. CASE turn' = turn /\ event' = F!NoEvent
    <3>1. F!MachineHolds
      BY <1>12 DEF F!OnAudioReady, F!Accepts, F!MachineHolds, F!MachineHeld
    <3>. QED BY <2>2, <3>1, GoingOnSettles DEF F!NoEvent
  <2>. QED BY <1>12, <2>1, <2>2 DEF F!OnAudioReady
<1>. QED
  BY <1>1, <1>2, <1>3, <1>4, <1>5, <1>6, <1>7, <1>8, <1>9, <1>10, <1>11, <1>12
  DEF FloorMove

LEMMA SpeakerMovesFloor ==
  ASSUME SpeechStarted \/ (\E silence, resumed \in BOOLEAN : SpeechStopped(silence, resumed))
         \/ UseTranscript \/ Transcribe
  PROVE  FloorMove
BY DEF SpeechStarted, SpeechStopped, UseTranscript, Transcribe, OnSpeechStarted,
   OnSpeechStopped, OnTranscript, OnTranscriptionFailed, Ask, FloorMove

LEMMA ResponseMovesFloor ==
  ASSUME NEW t \in Turns,
         Begin(t) \/ Delta(t) \/ StreamEnds(t) \/ StreamFails(t) \/ StreamCancelled(t)
         \/ Launch \/ Leave
  PROVE  FloorMove
BY DEF Begin, Delta, StreamEnds, StreamFails, StreamCancelled, Launch, Leave, BeginResponse,
   OnGenerateDelta, OnGenerateStreamEnd, AbandonStreamForToolCall, FailGenerate,
   LaunchResponse, Close, Ask, FloorMove

LEMMA AsideMovesFloor == Aside => FloorMove
BY DEF Aside, Client, Handler, ResponseCreateForTool, ResponseCreate, OnFunctionCallOutput,
   AnswerPending, SurfaceToolCall, DeliverNext, Tick, Elapse, TakePendingSegment, FailTts,
   OnTtsAudio, Ask, FloorMove

-----------------------------------------------------------------------------
(* A speculation that is gone was given to a turn that is over, and to no   *)
(* other.                                                                   *)

GoneInv ==
  /\ turn \in Nat
  /\ speculation # NoPause => specs[speculation] # Gone
  /\ \A t, u \in Turns : (given[t] = given[u] /\ given[t] # NoPause) => t = u
  /\ \A t \in Turns : (given[t] # NoPause /\ specs[given[t]] = Gone) => Over(t)

LEMMA AdvancedIsNotGone ==
  ASSUME NEW s, DOMAIN s = {"words", "at", "heard", "request"}, NEW r \in Advanced(s)
  PROVE  r # Gone
<1>1. r.at \in {"streaming", "ended", "failed"}
  BY DEF Advanced, Transcribed, Requested
<1>. QED BY <1>1 DEF Gone

(* A step of the floor that ends no turn takes nothing from a response.     *)
LEMMA HookedKeepsGoneInv ==
  ASSUME Bounds, Apart, GoneInv, FloorMove,
         speculation' \in {speculation, NoPause}, given' = given,
         NEW f, Shaped(f),
         \A p \in Pauses : p # speculation => f[p] = specs[p],
         speculation' # NoPause => f[speculation] = specs[speculation],
         specs' = Hooked(f)
  PROVE  GoneInv'
<1>1. Settles
  BY FloorMoveSettles DEF GoneInv
<1>2. ASSUME NEW p \in Pauses, specs'[p] # f[p]
      PROVE  /\ event'.kind \in {"interrupted", "failed"}
             /\ event'.turn \in Turns /\ p = given[event'.turn]
  BY <1>2 DEF Hooked, Cancelled, Shaped
<1>3. speculation' # NoPause => specs'[speculation'] # Gone
  BY <1>2, NoPauseIsNone DEF Bounds, Apart, GoneInv
<1>4. ASSUME NEW t \in Turns, given[t] # NoPause, specs'[given[t]] = Gone
      PROVE  Over(t)'
  <2>1. given[t] \in Pauses /\ given[t] # speculation
    BY <1>4 DEF Bounds, Apart
  <2>2. f[given[t]] = specs[given[t]]
    BY <2>1
  <2>3. CASE specs[given[t]] = Gone
    <3>1. Over(t)
      BY <1>4, <2>3 DEF GoneInv
    <3>. QED BY <1>1, <3>1 DEF Settles, Turns
  <2>4. CASE specs[given[t]] # Gone
    <3>1. /\ event'.kind \in {"interrupted", "failed"}
          /\ event'.turn \in Turns /\ given[t] = given[event'.turn]
      BY <1>2, <1>4, <2>1, <2>2, <2>4
    <3>2. event'.turn = t
      BY <1>4, <3>1 DEF GoneInv
    <3>. QED BY <1>1, <3>1, <3>2 DEF Settles
  <2>. QED BY <2>3, <2>4
<1>. QED BY <1>1, <1>3, <1>4 DEF GoneInv, Settles

(* A step of the speculation alone.                                         *)
LEMMA StillKeepsGoneInv ==
  ASSUME Bounds, Apart, GoneInv, UNCHANGED vars, given' = given,
         speculation' # NoPause => specs'[speculation'] # Gone,
         \A t \in Turns : (given[t] # NoPause /\ specs'[given[t]] = Gone) =>
           specs[given[t]] = Gone
  PROVE  GoneInv'
<1>1. \A t : Over(t)' <=> Over(t)
  BY DEF Over, vars, floorVars, F!MachineHolds
<1>. QED BY <1>1 DEF GoneInv, vars, floorVars

(* A step that gives up what was given to some of the turns.                *)
LEMMA GivingUpKeepsGoneInv ==
  ASSUME Bounds, Apart, GoneInv, FloorMove,
         speculation' \in {speculation, NoPause},
         \A t \in Turns : given'[t] \in {given[t], NoPause},
         speculation' # NoPause => specs'[speculation] = specs[speculation],
         \A t \in Turns :
           given'[t] # NoPause => \/ specs'[given[t]] = specs[given[t]]
                                  \/ Over(t)'
  PROVE  GoneInv'
<1>1. Settles
  BY FloorMoveSettles DEF GoneInv
<1>2. speculation' # NoPause => specs'[speculation'] # Gone
  BY DEF GoneInv
<1>3. \A t, u \in Turns : (given'[t] = given'[u] /\ given'[t] # NoPause) => t = u
  BY DEF GoneInv
<1>4. \A t \in Turns : (given'[t] # NoPause /\ specs'[given'[t]] = Gone) => Over(t)'
  BY <1>1 DEF GoneInv, Settles, Turns
<1>. QED BY <1>1, <1>2, <1>3, <1>4 DEF GoneInv, Settles

LEMMA DroppedSpares ==
  ASSUME Bounds, NEW p \in Pauses, p # speculation
  PROVE  Dropped(specs)[p] = specs[p]
BY DEF Dropped, Cancelled, Bounds, Shaped

LEMMA SpeakerKeepsGoneInv ==
  ASSUME SnapshotInv, GoneInv, Boundaries \/ TranscribeTurn PROVE GoneInv'
<1>. USE DEF SnapshotInv
<1>1. Shaped(specs) /\ Shaped(Dropped(specs)) /\ given \in [Turns -> Pauses \cup {NoPause}]
  BY DroppedIsShaped DEF Bounds
<1>2. CASE SpeechStarted
  BY <1>1, <1>2, SpeakerMovesFloor, DroppedSpares, HookedKeepsGoneInv DEF SpeechStarted
<1>3. CASE SpeechPaused
  <2>1. UNCHANGED vars /\ given' = given
    BY <1>3 DEF SpeechPaused
  <2>2. <<said, stretches>> \in Pauses
    BY <1>3, ConversationAssumption, SpeculationAssumption
    DEF SpeechPaused, Bounds, Pauses, Utterances
  <2>3. \A t \in Turns : given[t] # NoPause => given[t] # <<said, stretches>>
    BY <1>3, ConversationAssumption, SpeculationAssumption
    DEF SpeechPaused, Bounds, Apart, Before, Pauses, Utterances
  <2>4. CASE StartSpeculation
    <3>1. /\ speculation' = <<said, stretches>>
          /\ specs' = [Dropped(specs) EXCEPT ![<<said, stretches>>] =
                         [Gone EXCEPT !.words = carried \cup {said}, !.at = "transcribing"]]
      BY <2>4 DEF StartSpeculation
    <3>2. specs'[speculation'] # Gone
      BY <1>1, <2>2, <3>1 DEF Shaped, Gone
    <3>3. \A t \in Turns : given[t] # NoPause => specs'[given[t]] = specs[given[t]]
      BY <1>1, <2>3, <3>1, DroppedSpares DEF Shaped, Apart
    <3>. QED BY <2>1, <3>2, <3>3, StillKeepsGoneInv
  <2>5. CASE DropSpeculation
    BY <1>1, <2>1, <2>5, DroppedSpares, StillKeepsGoneInv DEF DropSpeculation, Apart
  <2>. QED BY <1>3, <2>4, <2>5 DEF SpeechPaused
<1>4. CASE SpeechResumed \/ GiveUpSpeculation
  BY <1>1, <1>4, DroppedSpares, StillKeepsGoneInv
  DEF SpeechResumed, GiveUpSpeculation, DropSpeculation, Apart
<1>5. ASSUME NEW silence \in BOOLEAN, NEW resumed \in BOOLEAN,
             SpeechStopped(silence, resumed)
      PROVE  GoneInv'
  <2>1. FloorMove
    BY <1>5, SpeakerMovesFloor
  <2>2. CASE silence
    BY <1>1, <1>5, <2>1, <2>2, HookedKeepsGoneInv DEF SpeechStopped
  <2>3. CASE ~silence
    BY <1>1, <1>5, <2>1, <2>3, DroppedSpares, HookedKeepsGoneInv DEF SpeechStopped
  <2>. QED BY <2>2, <2>3
<1>6. CASE UseTranscript \/ Transcribe
  BY <1>1, <1>6, SpeakerMovesFloor, HookedKeepsGoneInv DEF UseTranscript, Transcribe
<1>. QED
  BY <1>2, <1>3, <1>4, <1>5, <1>6 DEF Boundaries, TranscribeTurn

LEMMA SpeculateKeepsGoneInv ==
  ASSUME SnapshotInv, GoneInv, Speculate PROVE GoneInv'
<1>1. PICK p \in Pauses : \E s \in Advanced(specs[p]) : specs' = [specs EXCEPT ![p] = s]
  BY DEF Speculate
<1>2. PICK s \in Advanced(specs[p]) : specs' = [specs EXCEPT ![p] = s]
  BY <1>1
<1>3. s # Gone
  BY AdvancedIsNotGone DEF SnapshotInv, Bounds, Shaped
<1>4. \A q \in Pauses : specs'[q] = Gone => specs[q] = Gone
  BY <1>2, <1>3 DEF SnapshotInv, Bounds, Shaped
<1>. QED
  BY <1>4, StillKeepsGoneInv DEF Speculate, SnapshotInv, Bounds, GoneInv

LEMMA LaunchKeepsGoneInv ==
  ASSUME SnapshotInv, GoneInv, Launch PROVE GoneInv'
<1>1. Settles
  BY ResponseMovesFloor, FloorMoveSettles DEF GoneInv, Launch, LaunchResponse, FloorMove
<1>2. speculation' = NoPause /\ specs' = specs
  BY DEF Launch
<1>3. \A t \in Turns : given'[t] = IF t = pendingResponse THEN speculation ELSE given[t]
  BY DEF Launch, SnapshotInv, Bounds
<1>4. \A t, u \in Turns : (given'[t] = given'[u] /\ given'[t] # NoPause) => t = u
  BY <1>3 DEF SnapshotInv, Apart, GoneInv
<1>5. \A t \in Turns : (given'[t] # NoPause /\ specs'[given'[t]] = Gone) => Over(t)'
  BY <1>1, <1>2, <1>3 DEF GoneInv, Settles, Turns
<1>. QED BY <1>1, <1>2, <1>4, <1>5 DEF GoneInv, Settles

LEMMA ResponseKeepsGoneInv ==
  ASSUME SnapshotInv, GoneInv, NEW t \in Turns,
         Begin(t) \/ Delta(t) \/ StreamEnds(t) \/ StreamFails(t) \/ StreamCancelled(t)
  PROVE  GoneInv'
<1>. USE DEF SnapshotInv
<1>1. FloorMove
  BY ResponseMovesFloor
<1>2. given \in [Turns -> Pauses \cup {NoPause}] /\ Shaped(specs)
  BY DEF Bounds
<1>3. CASE UNCHANGED <<speculation, specs, given>>
  BY <1>1, <1>3, GivingUpKeepsGoneInv
<1>4. CASE Begin(t)
  <2>1. CASE /\ given[t] # NoPause
             /\ specs' = [specs EXCEPT ![given[t]] = Gone]
             /\ given' = [given EXCEPT ![t] = NoPause]
    <3>1. speculation # NoPause => specs'[speculation] = specs[speculation]
      BY <1>2, <2>1 DEF Shaped, Apart
    <3>2. \A u \in Turns : given'[u] # NoPause => specs'[given[u]] = specs[given[u]]
      BY <1>2, <2>1 DEF Shaped, GoneInv
    <3>. QED BY <1>1, <1>2, <1>4, <2>1, <3>1, <3>2, GivingUpKeepsGoneInv DEF Begin
  <2>. QED BY <1>3, <1>4, <2>1 DEF Begin
<1>5. CASE Ended(t)
  <2>1. speculation # NoPause => specs'[speculation] = specs[speculation]
    BY <1>2, <1>5, HookedSpares DEF Ended, Bounds, Apart
  <2>2. ASSUME NEW u \in Turns, given'[u] # NoPause,
               specs'[given[u]] # specs[given[u]]
        PROVE  Over(u)'
    <3>1. given[u] # given[t] /\ given[u] # NoPause /\ given[u] \in Pauses
      BY <1>2, <1>5, <2>2 DEF Ended, GoneInv
    <3>2. Hooked(specs)[given[u]] # specs[given[u]]
      BY <1>5, <2>2, <3>1 DEF Ended
    <3>3. /\ event'.kind \in {"interrupted", "failed"}
          /\ event'.turn \in Turns /\ given[u] = given[event'.turn]
      BY <1>2, <3>1, <3>2 DEF Hooked, Cancelled, Shaped
    <3>4. event'.turn = u
      BY <3>1, <3>3 DEF GoneInv
    <3>. QED BY <1>1, <3>3, <3>4, FloorMoveSettles DEF GoneInv, Settles
  <2>. QED BY <1>1, <1>2, <1>5, <2>1, <2>2, GivingUpKeepsGoneInv DEF Ended
<1>. QED
  BY <1>3, <1>4, <1>5 DEF Delta, hidden, StreamEnds, StreamFails, StreamCancelled

LEMMA LeaveKeepsGoneInv ==
  ASSUME SnapshotInv, GoneInv, Leave PROVE GoneInv'
<1>1. FloorMove
  BY DEF Leave, Close, FloorMove
<1>2. \A t \in Turns : given'[t] = IF t \in launched THEN given[t] ELSE NoPause
  BY DEF Leave
<1>3. \A t \in Turns : given'[t] # NoPause => specs'[given[t]] = specs[given[t]]
  BY <1>2 DEF Leave, SnapshotInv, Bounds
<1>. QED BY <1>1, <1>2, <1>3, GivingUpKeepsGoneInv DEF Leave, SnapshotInv

LEMMA GoneInvHolds == RouteSpec => []GoneInv
<1>1. RouteInit => GoneInv
  BY DEF RouteInit, Init, F!Init, GoneInv
<1>2. ASSUME SnapshotInv, GoneInv, [RouteNext]_routeVars PROVE GoneInv'
  <2>1. CASE UNCHANGED routeVars
    BY <1>2, <2>1, StillKeepsGoneInv DEF routeVars, hidden, SnapshotInv, GoneInv
  <2>2. CASE Aside
    <3>1. Shaped(specs)
      BY <1>2 DEF SnapshotInv, Bounds
    <3>. QED
      BY <1>2, <2>2, <3>1, AsideMovesFloor, HookedKeepsGoneInv DEF Aside, SnapshotInv
  <2>. QED
    BY <1>2, <2>1, <2>2, SpeakerKeepsGoneInv, SpeculateKeepsGoneInv, LaunchKeepsGoneInv,
       ResponseKeepsGoneInv, LeaveKeepsGoneInv
    DEF RouteNext
<1>. QED BY <1>1, <1>2, SnapshotInvHolds, PTL DEF RouteSpec

-----------------------------------------------------------------------------
(* Speculation is hidden. *)

(* The stream of a response is only cancelled when its turn is over, and    *)
(* then the bridge would have made nothing of its failure.                  *)
LEMMA CancelledIsFailure ==
  ASSUME GoneInv, NEW t \in Turns, StreamCancelled(t) PROVE FailGenerate(t)
<1>1. Over(t)
  BY DEF StreamCancelled, GoneInv
<1>2. ~(t = turn /\ F!AcceptsFailure("generate"))
  BY <1>1 DEF Over, F!AcceptsFailure, F!Unarmed, GoneInv
<1>. QED BY <1>2 DEF StreamCancelled, FailGenerate, Ask

LEMMA StepIsConversation ==
  ASSUME GoneInv, [RouteNext]_routeVars PROVE [Next]_vars
<1>1. CASE UNCHANGED routeVars \/ SpeechPaused \/ SpeechResumed \/ GiveUpSpeculation \/ Speculate
  BY <1>1 DEF routeVars, SpeechPaused, SpeechResumed, GiveUpSpeculation, Speculate
<1>2. CASE SpeechStarted \/ (\E silence, resumed \in BOOLEAN : SpeechStopped(silence, resumed))
  BY <1>2 DEF SpeechStarted, SpeechStopped, Next, Speaker
<1>3. CASE UseTranscript \/ Transcribe
  BY <1>3 DEF UseTranscript, Transcribe, Next, Speaker
<1>4. CASE Launch
  BY <1>4 DEF Launch, Next, Response
<1>5. ASSUME NEW t \in Turns,
             Begin(t) \/ Delta(t) \/ StreamEnds(t) \/ StreamFails(t) \/ StreamCancelled(t)
      PROVE  Next
  <2>1. CASE Begin(t)
    BY <2>1 DEF Begin, Next, Response
  <2>2. CASE Delta(t)
    BY <2>2 DEF Delta, Next, Response
  <2>3. CASE StreamEnds(t)
    BY <2>3 DEF StreamEnds, Next, Response
  <2>4. CASE StreamFails(t)
    BY <2>4 DEF StreamFails, Next, Response
  <2>5. CASE StreamCancelled(t)
    <3>1. FailGenerate(t)
      BY <2>5, CancelledIsFailure
    <3>. QED BY <3>1 DEF Next, Response
  <2>. QED BY <1>5, <2>1, <2>2, <2>3, <2>4, <2>5
<1>6. CASE Aside
  BY <1>6 DEF Aside, Next, Response
<1>7. CASE Leave
  BY <1>7 DEF Leave, Next
<1>. QED
  BY <1>1, <1>2, <1>3, <1>4, <1>5, <1>6, <1>7
  DEF RouteNext, Boundaries, TranscribeTurn

(* However long the session, a conversation with hidden speculation is one  *)
(* without it (_Speculation.cancel, _start_pending_response).               *)
THEOREM SpeculationIsHidden == RouteSpec => IsConversation
<1>1. RouteInit => Init
  BY DEF RouteInit
<1>. QED
  BY <1>1, GoneInvHolds, StepIsConversation, PTL DEF RouteSpec, Spec, IsConversation
-----------------------------------------------------------------------------
(* The floor of a conversation is the floor: what FloorProofs proves of it  *)
(* holds of every session.                                                  *)

TurnInv ==
  /\ turn \in Nat
  /\ F!MachineHolds \/ armed # F!Unarmed => turn \in Turns

LEMMA FloorMoveKeepsTurnInv ==
  ASSUME TurnInv, FloorMove PROVE TurnInv'
<1>. USE DEF TurnInv, Turns, F!MachineHolds, F!MachineHeld
<1>1. CASE F!OnSpeechStarted \/ F!OnContinuationOnset \/ F!Tick
  BY <1>1
  DEF F!OnSpeechStarted, F!OnContinuationOnset, F!Tick, F!Interrupt, F!Fail, F!Release, F!Disarm
<1>2. CASE F!OnTurnCommitted
  BY <1>2, ConversationAssumption DEF F!OnTurnCommitted, F!OpenTurn
<1>3. CASE F!DeliverNext
  BY <1>3 DEF F!DeliverNext, F!Deliverable, F!Complete, F!Release, F!Disarm
<1>4. CASE F!Close \/ F!Elapse \/ F!Unmoved
  BY <1>4 DEF F!Close, F!Disarm, F!Elapse, F!Unmoved, F!deadline
<1>5. ASSUME NEW t, NEW x, F!OnTranscript(t, x) PROVE TurnInv'
  BY <1>5 DEF F!OnTranscript, F!Accepts, F!Release, F!Disarm
<1>6. ASSUME NEW t, NEW x, F!OnReplyText(t) \/ F!OnReplySegment(t, x) PROVE TurnInv'
  BY <1>6 DEF F!OnReplyText, F!OnReplySegment, F!AppendSegment, F!Accepts
<1>7. ASSUME NEW t, NEW stage, F!OnEmptyReply(t) \/ F!FailStage(stage, t) PROVE TurnInv'
  BY <1>7 DEF F!OnEmptyReply, F!FailStage, F!Fail, F!Release, F!Disarm
<1>8. ASSUME NEW t, F!OnReplyEnd(t) PROVE TurnInv'
  BY <1>8 DEF F!OnReplyEnd, F!Accepts, F!Complete, F!Release, F!Disarm
<1>9. ASSUME NEW t, F!OnToolCall(t) \/ F!OnToolResult(t) \/ F!DiscardReplySegments(t)
      PROVE  TurnInv'
  BY <1>9 DEF F!OnToolCall, F!OnToolResult, F!DiscardReplySegments, F!Accepts
<1>10. ASSUME NEW t, NEW i, NEW size, F!OnAudioReady(t, i, size) PROVE TurnInv'
  BY <1>10 DEF F!OnAudioReady, F!Accepts, F!Fail, F!Release, F!Disarm
<1>. QED
  BY <1>1, <1>2, <1>3, <1>4, <1>5, <1>6, <1>7, <1>8, <1>9, <1>10 DEF FloorMove

(* The steps of the floor with what a conversation passes to them.          *)
LEMMA AnswersAreForTheFloor ==
  ASSUME TurnInv, NEW t,
         \/ \E blank \in BOOLEAN : F!OnTranscript(t, blank)
         \/ F!OnReplyText(t)
         \/ \E final \in BOOLEAN : F!OnReplySegment(t, final)
         \/ F!OnEmptyReply(t) \/ F!OnReplyEnd(t) \/ F!OnToolCall(t) \/ F!OnToolResult(t)
         \/ F!DiscardReplySegments(t)
         \/ \E i \in 1..MaxSegments, size \in 0..MaxChunks : F!OnAudioReady(t, i, size)
         \/ \E stage \in {"transcribe", "generate", "tts"} : F!FailStage(stage, t)
  PROVE  F!Next
<1>1. t = turn /\ (F!MachineHolds \/ armed # F!Unarmed)
  BY DEF F!OnTranscript, F!OnReplyText, F!OnReplySegment, F!OnEmptyReply, F!OnReplyEnd,
     F!OnToolCall, F!OnToolResult, F!DiscardReplySegments, F!OnAudioReady, F!FailStage,
     F!Accepts, F!AcceptsFailure, F!MachineHolds, F!MachineHeld, F!Unarmed
<1>2. t \in 1..MaxTurns /\ t <= turn
  BY <1>1 DEF TurnInv, Turns
<1>. QED BY <1>2 DEF F!Next, F!Backend, F!Stages

LEMMA ConversationMovesFloor == ASSUME TurnInv, Next PROVE F!Next /\ FloorMove
<1>1. CASE Client
  <2>1. CASE ResponseCreateForTool
    <3>1. F!OnToolResult(toolCall.turn)
      BY <2>1 DEF ResponseCreateForTool
    <3>. QED BY <3>1, AnswersAreForTheFloor DEF FloorMove
  <2>2. CASE ResponseCreate \/ OnFunctionCallOutput
    BY <2>2 DEF ResponseCreate, OnFunctionCallOutput, Ask, F!Next, F!Speaker, FloorMove
  <2>. QED BY <1>1, <2>1, <2>2 DEF Client
<1>2. CASE Speaker
  <2>1. CASE OnSpeechStarted \/ \E silence \in BOOLEAN : OnSpeechStopped(silence)
    BY <2>1 DEF OnSpeechStarted, OnSpeechStopped, Ask, F!Next, F!Speaker, FloorMove
  <2>2. ASSUME NEW blank \in BOOLEAN, OnTranscript(blank) PROVE F!Next /\ FloorMove
    <3>1. F!OnTranscript(turn, blank) \/ F!Unmoved
      BY <2>2 DEF OnTranscript, Ask
    <3>. QED BY <3>1, AnswersAreForTheFloor DEF F!Next, FloorMove
  <2>3. CASE OnTranscriptionFailed
    <3>1. F!FailStage("transcribe", turn) \/ F!Unmoved
      BY <2>3 DEF OnTranscriptionFailed, Ask
    <3>. QED BY <3>1, AnswersAreForTheFloor DEF F!Next, FloorMove
  <2>. QED BY <1>2, <2>1, <2>2, <2>3 DEF Speaker
<1>3. CASE LaunchResponse \/ TakePendingSynthesis \/ TakePendingSegment
  BY <1>3 DEF LaunchResponse, TakePendingSynthesis, TakePendingSegment, F!Next, FloorMove
<1>4. ASSUME NEW t \in Turns,
             \/ BeginResponse(t) \/ OnGenerateResponse(t) \/ FailGenerate(t)
             \/ OnGenerateDelta(t) \/ OnGenerateStreamEnd(t) \/ AbandonStreamForToolCall(t)
      PROVE  F!Next /\ FloorMove
  <2>1. CASE BeginResponse(t)
    BY <2>1 DEF BeginResponse, F!Next, FloorMove
  <2>2. CASE OnGenerateResponse(t)
    <3>1. F!OnReplyText(t) \/ F!OnEmptyReply(t) \/ F!OnToolCall(t) \/ F!Unmoved
      BY <2>2 DEF OnGenerateResponse, Ask
    <3>. QED BY <3>1, AnswersAreForTheFloor DEF F!Next, FloorMove
  <2>3. CASE FailGenerate(t)
    <3>1. F!FailStage("generate", t) \/ F!Unmoved
      BY <2>3 DEF FailGenerate, Ask
    <3>. QED BY <3>1, AnswersAreForTheFloor DEF F!Next, FloorMove
  <2>4. CASE OnGenerateDelta(t)
    BY <2>4, AnswersAreForTheFloor DEF OnGenerateDelta, FloorMove
  <2>5. CASE OnGenerateStreamEnd(t)
    <3>1. F!OnReplySegment(t, TRUE) \/ F!OnReplyEnd(t) \/ F!OnEmptyReply(t) \/ F!Unmoved
      BY <2>5 DEF OnGenerateStreamEnd
    <3>. QED BY <3>1, AnswersAreForTheFloor DEF F!Next, FloorMove
  <2>6. CASE AbandonStreamForToolCall(t)
    <3>1. F!DiscardReplySegments(t) \/ F!Unmoved
      BY <2>6 DEF AbandonStreamForToolCall, Ask
    <3>. QED BY <3>1, AnswersAreForTheFloor DEF F!Next, FloorMove
  <2>. QED BY <1>4, <2>1, <2>2, <2>3, <2>4, <2>5, <2>6
<1>5. ASSUME NEW piece \in Piece, NEW size \in 0..MaxChunks,
             FailTts(piece) \/ OnTtsAudio(piece, size)
      PROVE  F!Next /\ FloorMove
  <2>1. piece.index \in 1..MaxSegments
    BY DEF Piece
  <2>2. \/ F!FailStage("tts", piece.turn)
        \/ F!OnAudioReady(piece.turn, piece.index, size)
        \/ F!Unmoved
    BY <1>5 DEF FailTts, OnTtsAudio, Ask
  <2>. QED BY <2>1, <2>2, AnswersAreForTheFloor DEF F!Next, FloorMove
<1>6. CASE Handler
  <2>1. F!OnTranscript(turn, FALSE) \/ F!OnToolCall(turn)
    BY <1>6 DEF Handler, AnswerPending, SurfaceToolCall
  <2>. QED BY <2>1, AnswersAreForTheFloor DEF FloorMove
<1>7. CASE DeliverNext \/ Tick \/ Elapse \/ Close
  BY <1>7 DEF DeliverNext, Tick, Elapse, Close, F!Next, FloorMove
<1>8. ASSUME NEW piece \in Piece, FailTts(piece) PROVE F!Next /\ FloorMove
  <2>1. F!FailStage("tts", piece.turn) \/ F!Unmoved
    BY <1>8 DEF FailTts, Ask
  <2>. QED BY <2>1, AnswersAreForTheFloor DEF F!Next, FloorMove
<1>. QED
  BY <1>1, <1>2, <1>3, <1>4, <1>5, <1>6, <1>7, <1>8 DEF Next, Response

(* Whatever the client, the speaker and the backends do, the bridge drives  *)
(* the floor by its own inputs only, and calls none that it refuses as if   *)
(* it were accepted (ConversationBridge).                                   *)
THEOREM ConversationDrivesFloor == Spec => F!Spec
<1>1. Init => F!Init /\ TurnInv
  BY DEF Init, F!Init, TurnInv, F!MachineHolds, F!MachineHeld, F!Unarmed
<1>2. ASSUME TurnInv, [Next]_vars PROVE TurnInv' /\ [F!Next]_F!floorVars
  <2>1. CASE Next
    BY <1>2, <2>1, ConversationMovesFloor, FloorMoveKeepsTurnInv
  <2>2. CASE UNCHANGED vars
    BY <1>2, <2>2 DEF vars, floorVars, F!floorVars, TurnInv, F!MachineHolds
  <2>. QED BY <1>2, <2>1, <2>2
<1>. QED BY <1>1, <1>2, PTL DEF Spec, F!Spec

(* So what is proved of the floor (FloorProofs) is true of the floor of     *)
(* every conversation.                                                      *)
P == INSTANCE FloorProofs

LEMMA FloorSpecIsTheirs == F!Spec => P!Spec
<1>1. F!Init => P!Init
  BY DEF F!Init, P!Init, F!Unarmed, P!Unarmed, F!NoEvent, P!NoEvent
<1>2. F!Next => P!Next
  BY DEF F!Next, P!Next, F!Speaker, P!Speaker, F!Backend, P!Backend,
     F!OnSpeechStarted, P!OnSpeechStarted, F!OnContinuationOnset, P!OnContinuationOnset,
     F!OnTurnCommitted, P!OnTurnCommitted, F!OpenTurn, P!OpenTurn,
     F!OnTranscript, P!OnTranscript, F!OnReplyText, P!OnReplyText,
     F!OnReplySegment, P!OnReplySegment, F!AppendSegment, P!AppendSegment,
     F!OnEmptyReply, P!OnEmptyReply, F!OnReplyEnd, P!OnReplyEnd,
     F!OnToolCall, P!OnToolCall, F!OnToolResult, P!OnToolResult,
     F!DiscardReplySegments, P!DiscardReplySegments, F!OnAudioReady, P!OnAudioReady,
     F!FailStage, P!FailStage, F!DeliverNext, P!DeliverNext, F!Tick, P!Tick,
     F!Close, P!Close, F!Elapse, P!Elapse, F!Unmoved, P!Unmoved,
     F!Accepts, P!Accepts, F!AcceptsFailure, P!AcceptsFailure,
     F!Deliverable, P!Deliverable, F!MachineHolds, P!MachineHolds,
     F!MachineHeld, P!MachineHeld, F!BargeInArmed, P!BargeInArmed,
     F!Arm, P!Arm, F!Disarm, P!Disarm, F!KeepOrArm, P!KeepOrArm,
     F!RearmSpeaking, P!RearmSpeaking, F!AwaitsAudio, P!AwaitsAudio,
     F!HasAudio, P!HasAudio, F!Drained, P!Drained, F!DropReply, P!DropReply,
     F!Release, P!Release, F!Interrupt, P!Interrupt, F!Fail, P!Fail,
     F!Complete, P!Complete, F!Event, P!Event, F!NoEvent, P!NoEvent,
     F!Stages, P!Stages, F!Unarmed, P!Unarmed, F!reply, P!reply, F!deadline, P!deadline
<1>3. [F!Next]_F!floorVars => [P!Next]_P!floorVars
  BY <1>2 DEF F!floorVars, P!floorVars
<1>. QED BY <1>1, <1>3, PTL DEF F!Spec, P!Spec

LEMMA FloorInvHolds == Spec => []F!FloorInv
<1>1. P!FloorAssumption
  BY ConversationAssumption DEF P!FloorAssumption, P!Stages
<1>2. P!Spec => []P!FloorInv
  BY <1>1, P!InvariantHolds
<1>3. P!FloorInv => F!FloorInv
  BY DEF P!FloorInv, F!FloorInv, P!TypeOK, F!TypeOK, P!DeadlineMatchesWait,
     F!DeadlineMatchesWait, P!ReplyOnlyWhileSpeaking, F!ReplyOnlyWhileSpeaking,
     P!DeliveryInOrder, F!DeliveryInOrder, P!ReplyBelongsToTurn, F!ReplyBelongsToTurn,
     P!SentIsSynthesized, F!SentIsSynthesized, P!FloorStates, F!FloorStates,
     P!MachineHeld, F!MachineHeld, P!Stages, F!Stages, P!Kinds, F!Kinds,
     P!Segment, F!Segment, P!HasAudio, F!HasAudio, P!Drained, F!Drained,
     P!AwaitsAudio, F!AwaitsAudio, P!Unarmed, F!Unarmed
<1>. QED BY <1>2, <1>3, ConversationDrivesFloor, FloorSpecIsTheirs, PTL
-----------------------------------------------------------------------------
(* What the bridge hears. *)

(* A step of the floor that neither resumes a turn after a tool result, nor *)
(* drops what was said before a tool call, nor closes the session ...       *)
Plain ==
  \/ F!OnSpeechStarted \/ F!OnContinuationOnset \/ F!OnTurnCommitted
  \/ F!DeliverNext \/ F!Tick \/ F!Unmoved
  \/ \E t, x : \/ F!OnTranscript(t, TRUE) \/ F!OnReplyText(t) \/ F!OnReplySegment(t, FALSE)
               \/ F!OnEmptyReply(t) \/ F!OnToolCall(t)
               \/ x # F!Unarmed /\ F!FailStage(x, t)
  \/ \E t, i, size : F!OnAudioReady(t, i, size)

(* ... or ends the stream of a reply, or starts one.                        *)
Spoken == Plain \/ \E t : F!OnReplyEnd(t) \/ F!OnReplySegment(t, TRUE)
Heeded == Spoken \/ \E t : F!OnTranscript(t, FALSE)

Quits == state' = "listening" /\ turn' = turn
Answers == state \in {"responding", "speaking"}

Emitted(kinds, n) == event'.kind \in kinds /\ event'.turn = turn /\ event'.n = n

Interrupted == /\ Emitted({"interrupted"}, chunksSent) /\ F!MachineHolds
               /\ Quits \/ (state' = "transcribing" /\ turn' = turn + 1)
Failed == Emitted({"failed"}, 0) /\ F!MachineHolds /\ Quits
Done == event'.kind = "done" /\ state = "speaking" /\ Quits
Called == /\ Emitted({"tool_call"}, 0) /\ state = "responding" /\ state' = "tool_wait"
          /\ UNCHANGED <<turn, legs>>
Started == /\ Emitted({"started"}, 0) /\ state = "transcribing" /\ state' = "responding"
           /\ turn' = turn
Spoke == /\ Emitted({"reply_text", "reply_segment"}, Len(segments))
         /\ Len(segments) < MaxSegments
         /\ Answers /\ state' = "speaking" /\ turn' = turn
Silent ==
  /\ event'.kind \in {"none", "audio"}
  /\ \/ UNCHANGED <<state, turn>>
     \/ (state = "transcribing" /\ Quits)
     \/ ~F!MachineHolds /\ state' = "transcribing" /\ turn' = turn + 1

Noted == Interrupted \/ Failed \/ Done \/ Called \/ Started \/ Spoke \/ Silent

LEMMA ArmedMeansHeld ==
  ASSUME F!FloorInv, armed # F!Unarmed PROVE F!MachineHolds
<1>1. state \in F!FloorStates /\ (state \in {"listening", "closed"} => armed = F!Unarmed)
  BY DEF F!FloorInv, F!TypeOK, F!DeadlineMatchesWait
<1>. QED BY <1>1 DEF F!FloorStates, F!MachineHolds

LEMMA FailIsNoted ==
  ASSUME F!Fail, F!MachineHolds PROVE Failed
BY DEF F!Fail, F!Release, F!Event, Failed, Emitted, Quits

(* The effects a step of the floor can have that the bridge hears of.       *)
LEMMA HeededIsNoted ==
  ASSUME F!FloorInv, Heeded PROVE Noted
<1>. USE DEF F!MachineHolds, F!MachineHeld
<1>1. CASE F!OnSpeechStarted \/ F!OnContinuationOnset
  <2>1. Interrupted
    BY <1>1 DEF F!OnSpeechStarted, F!OnContinuationOnset, F!Interrupt, F!Release, F!Event,
       Interrupted, Emitted, Quits
  <2>. QED BY <2>1 DEF Noted
<1>2. CASE F!OnTurnCommitted
  <2>1. state' = "transcribing" /\ turn' = turn + 1
    BY <1>2 DEF F!OnTurnCommitted, F!OpenTurn
  <2>2. CASE F!MachineHolds
    <3>1. event' = F!Event("interrupted", chunksSent)
      BY <1>2, <2>2 DEF F!OnTurnCommitted
    <3>. QED BY <2>1, <2>2, <3>1 DEF F!Event, Noted, Interrupted, Emitted
  <2>3. CASE ~F!MachineHolds
    <3>1. event' = F!NoEvent
      BY <1>2, <2>3 DEF F!OnTurnCommitted
    <3>. QED BY <2>1, <2>3, <3>1 DEF F!NoEvent, Noted, Silent
  <2>. QED BY <2>2, <2>3
<1>3. CASE F!DeliverNext
  <2>1. Done \/ Silent
    BY <1>3 DEF F!DeliverNext, F!Deliverable, F!Complete, F!Release, F!Event, Done, Silent,
       Quits
  <2>. QED BY <2>1 DEF Noted
<1>4. CASE F!Tick
  BY <1>4, ArmedMeansHeld, FailIsNoted DEF F!Tick, Noted
<1>5. CASE F!Unmoved
  BY <1>5 DEF F!Unmoved, F!NoEvent, Noted, Silent
<1>6. ASSUME NEW t, NEW x, F!OnTranscript(t, x) PROVE Noted
  <2>1. Started \/ Silent
    BY <1>6 DEF F!OnTranscript, F!Accepts, F!Release, F!Event, F!NoEvent, Started, Silent,
       Emitted, Quits
  <2>. QED BY <2>1 DEF Noted
<1>7. ASSUME NEW t, NEW x, F!OnReplyText(t) \/ F!OnReplySegment(t, x) PROVE Noted
  <2>1. Spoke
    BY <1>7 DEF F!OnReplyText, F!OnReplySegment, F!AppendSegment, F!Accepts, F!Event,
       Spoke, Emitted, Answers
  <2>. QED BY <2>1 DEF Noted
<1>8. ASSUME NEW t, F!OnEmptyReply(t) PROVE Noted
  BY <1>8, FailIsNoted DEF F!OnEmptyReply, F!Accepts, Noted
<1>9. ASSUME NEW t, NEW stage, stage # F!Unarmed, F!FailStage(stage, t) PROVE Noted
  <2>1. F!Fail /\ (armed # F!Unarmed \/ state = "speaking")
    BY <1>9 DEF F!FailStage, F!AcceptsFailure
  <2>. QED BY <2>1, ArmedMeansHeld, FailIsNoted DEF Noted
<1>10. ASSUME NEW t, F!OnReplyEnd(t) PROVE Noted
  <2>1. state = "speaking"
    BY <1>10 DEF F!OnReplyEnd, F!Accepts, F!FloorInv, F!ReplyOnlyWhileSpeaking
  <2>2. CASE F!Complete(chunksSent)
    BY <2>1, <2>2 DEF F!Complete, F!Release, F!Event, Noted, Done, Quits
  <2>3. CASE event' = F!NoEvent /\ UNCHANGED <<state, turn>>
    BY <2>3 DEF F!NoEvent, Noted, Silent
  <2>. QED BY <1>10, <2>2, <2>3 DEF F!OnReplyEnd
<1>11. ASSUME NEW t, F!OnToolCall(t) PROVE Noted
  BY <1>11 DEF F!OnToolCall, F!Accepts, F!Event, Noted, Called, Emitted
<1>12. ASSUME NEW t, NEW i, NEW size, F!OnAudioReady(t, i, size) PROVE Noted
  <2>1. CASE F!Fail
    BY <1>12, <2>1, FailIsNoted DEF F!OnAudioReady, F!Accepts, Noted
  <2>2. CASE event' = F!NoEvent /\ UNCHANGED <<state, turn>>
    BY <2>2 DEF F!NoEvent, Noted, Silent
  <2>. QED BY <1>12, <2>1, <2>2 DEF F!OnAudioReady
<1>. QED
  BY <1>1, <1>2, <1>3, <1>4, <1>5, <1>6, <1>7, <1>8, <1>9, <1>10, <1>11, <1>12
  DEF Heeded, Spoken, Plain

LEMMA SpokenIsNotStarted ==
  ASSUME Spoken PROVE event'.kind # "started"
<1>1. CASE F!DeliverNext
  BY <1>1 DEF F!DeliverNext, F!Complete, F!Event
<1>2. CASE F!OnSpeechStarted \/ F!OnContinuationOnset \/ F!OnTurnCommitted
  BY <1>2 DEF F!OnSpeechStarted, F!OnContinuationOnset, F!OnTurnCommitted, F!Interrupt,
     F!Event, F!NoEvent
<1>3. CASE F!Tick \/ F!Unmoved
  BY <1>3 DEF F!Tick, F!Unmoved, F!Fail, F!Event, F!NoEvent
<1>4. ASSUME NEW t, NEW x,
             \/ F!OnTranscript(t, TRUE) \/ F!OnReplyText(t) \/ F!OnReplySegment(t, x)
             \/ F!OnEmptyReply(t) \/ F!OnToolCall(t) \/ F!FailStage(x, t)
      PROVE  event'.kind # "started"
  <2>1. \/ event' = F!NoEvent \/ F!Fail
        \/ \E kind \in {"reply_text", "reply_segment", "tool_call"} :
               \E n : event' = F!Event(kind, n)
    BY <1>4
    DEF F!OnTranscript, F!OnReplyText, F!OnReplySegment, F!AppendSegment, F!OnEmptyReply,
        F!OnToolCall, F!FailStage
  <2>. QED BY <2>1 DEF F!Fail, F!Event, F!NoEvent
<1>5. ASSUME NEW t, NEW i, NEW size, F!OnAudioReady(t, i, size)
      PROVE  event'.kind # "started"
  BY <1>5 DEF F!OnAudioReady, F!Fail, F!Event, F!NoEvent
<1>6. ASSUME NEW t, F!OnReplyEnd(t) PROVE event'.kind # "started"
  <2>1. F!Complete(chunksSent) \/ event' = F!NoEvent
    BY <1>6 DEF F!OnReplyEnd
  <2>. QED BY <2>1 DEF F!Complete, F!Event, F!NoEvent
<1>7. ASSUME NEW t, F!OnReplySegment(t, TRUE) PROVE event'.kind # "started"
  BY <1>7 DEF F!OnReplySegment, F!AppendSegment, F!Event
<1>. QED BY <1>1, <1>2, <1>3, <1>4, <1>5, <1>6, <1>7 DEF Spoken, Plain

LEMMA PlainDone ==
  ASSUME Plain, event'.kind = "done" PROVE finalSeen
<1>1. CASE F!DeliverNext
  BY <1>1 DEF F!DeliverNext, F!Event
<1>2. CASE F!OnSpeechStarted \/ F!OnContinuationOnset \/ F!OnTurnCommitted
  BY <1>2 DEF F!OnSpeechStarted, F!OnContinuationOnset, F!OnTurnCommitted, F!Interrupt,
     F!Event, F!NoEvent
<1>3. CASE F!Tick \/ F!Unmoved
  BY <1>3 DEF F!Tick, F!Unmoved, F!Fail, F!Event, F!NoEvent
<1>4. ASSUME NEW t, NEW x,
             \/ F!OnTranscript(t, TRUE) \/ F!OnReplyText(t) \/ F!OnReplySegment(t, x)
             \/ F!OnEmptyReply(t) \/ F!OnToolCall(t) \/ F!FailStage(x, t)
      PROVE  FALSE
  BY <1>4
  DEF F!OnTranscript, F!OnReplyText, F!OnReplySegment, F!AppendSegment, F!OnEmptyReply,
      F!OnToolCall, F!FailStage, F!Fail, F!Event, F!NoEvent
<1>5. ASSUME NEW t, NEW i, NEW size, F!OnAudioReady(t, i, size) PROVE FALSE
  BY <1>5 DEF F!OnAudioReady, F!Fail, F!Event, F!NoEvent
<1>. QED BY <1>1, <1>2, <1>3, <1>4, <1>5 DEF Plain

LEMMA PlainFinal ==
  ASSUME F!FloorInv, Plain, state' = "speaking", finalSeen'
  PROVE  \/ state = "speaking" /\ finalSeen /\ turn' = turn
         \/ event'.kind = "reply_text" /\ event'.turn = turn'
<1>1. CASE F!DeliverNext
  BY <1>1 DEF F!DeliverNext, F!Deliverable, F!Complete, F!Release
<1>2. CASE F!OnSpeechStarted \/ F!OnContinuationOnset \/ F!OnTurnCommitted \/ F!Tick
  BY <1>2 DEF F!OnSpeechStarted, F!OnContinuationOnset, F!OnTurnCommitted, F!OpenTurn,
     F!Tick, F!Interrupt, F!Fail, F!Release
<1>3. CASE F!Unmoved
  BY <1>3 DEF F!Unmoved, F!reply
<1>4. ASSUME NEW t, NEW x,
             \/ F!OnTranscript(t, TRUE) \/ F!OnEmptyReply(t) \/ F!OnToolCall(t)
             \/ F!FailStage(x, t)
      PROVE  FALSE
  BY <1>4 DEF F!OnTranscript, F!OnEmptyReply, F!OnToolCall, F!FailStage, F!Fail, F!Release
<1>5. ASSUME NEW t, F!OnReplyText(t)
      PROVE  event'.kind = "reply_text" /\ event'.turn = turn'
  BY <1>5 DEF F!OnReplyText, F!AppendSegment, F!Event
<1>6. ASSUME NEW t, F!OnReplySegment(t, FALSE)
      PROVE  state = "speaking" /\ finalSeen /\ turn' = turn
  BY <1>6
  DEF F!OnReplySegment, F!AppendSegment, F!Accepts, F!FloorInv, F!ReplyOnlyWhileSpeaking
<1>7. ASSUME NEW t, NEW i, NEW size, F!OnAudioReady(t, i, size)
      PROVE  state = "speaking" /\ finalSeen /\ turn' = turn
  BY <1>7 DEF F!OnAudioReady, F!Accepts, F!Fail, F!Release
<1>. QED BY <1>1, <1>2, <1>3, <1>4, <1>5, <1>6, <1>7 DEF Plain

-----------------------------------------------------------------------------
(* What a step of the conversation is for the bridge. *)

Stays == hearing' = "gone" <=> hearing = "gone"

(* It hears of a step of the floor, and the entry for it is of the turn     *)
(* whose reply it holds; at the end of a stream that is the turn itself.    *)
Hears ==
  \E text :
    /\ \/ Plain /\ text = replyText
       \/ Spoken /\ text = turn
    /\ Heed(text, <<>>)

(* It answers words ...                                                     *)
UserSpeaks ==
  \E words \in {handler.words, lastCommit} :
    /\ \/ AnswerPending /\ words = handler.words
       \/ turnOpen /\ words = lastCommit /\ \E blank \in BOOLEAN : OnTranscript(blank)
    /\ F!OnTranscript(turn, FALSE)
    /\ Heed(replyText, <<Entry("user", turn, 0, words)>>)

(* ... it takes a turn back, or nothing is said.                            *)
TurnTakenBack ==
  /\ TakesBack /\ OnSpeechStarted
  /\ F!OnContinuationOnset /\ ClearTurn
  /\ history' = SubSeq(history, 1, Len(history) - 1)

Unheard ==
  /\ F!Unmoved \/ F!Elapse \/ \E t : F!DiscardReplySegments(t)
  /\ UNCHANGED <<history, toolCall>>
  /\ state' = "speaking" => replyText' = replyText
  /\ \/ UNCHANGED work
     \/ LaunchResponse \/ TakePendingSynthesis \/ TakePendingSegment
     \/ \E t \in Turns : BeginResponse(t) \/ AbandonStreamForToolCall(t)

Bridged ==
  \/ ResponseCreateForTool \/ OnFunctionCallOutput \/ Close
  \/ Stays /\ (Hears \/ UserSpeaks \/ TurnTakenBack \/ Unheard)

LEMMA PlainIsHeard ==
  ASSUME Plain, Heed(replyText, <<>>) PROVE Hears
BY DEF Hears

LEMMA SpeakerIsBridged ==
  ASSUME Speaker PROVE Bridged
<1>1. CASE OnSpeechStarted
  <2>1. Stays
    BY <1>1 DEF OnSpeechStarted, Stays
  <2>2. CASE TurnTakenBack
    BY <2>1, <2>2 DEF Bridged
  <2>3. CASE Plain /\ Heed(replyText, <<>>)
    BY <2>1, <2>3, PlainIsHeard DEF Bridged
  <2>. QED BY <1>1, <2>2, <2>3 DEF OnSpeechStarted, TurnTakenBack, Ask, Plain
<1>2. ASSUME NEW silence \in BOOLEAN, OnSpeechStopped(silence) PROVE Bridged
  <2>1. Stays /\ Plain /\ Heed(replyText, <<>>)
    BY <1>2 DEF OnSpeechStopped, Ask, Plain, Stays
  <2>. QED BY <2>1, PlainIsHeard DEF Bridged
<1>3. ASSUME NEW blank \in BOOLEAN, OnTranscript(blank) PROVE Bridged
  <2>1. Stays
    BY <1>3 DEF OnTranscript, Stays
  <2>2. CASE turnOpen /\ state = "transcribing" /\ ~blank
    <3>1. UserSpeaks
      BY <1>3, <2>2 DEF OnTranscript, Ask, UserSpeaks
    <3>. QED BY <2>1, <3>1 DEF Bridged
  <2>3. CASE turnOpen /\ ~(state = "transcribing" /\ ~blank)
    <3>1. Plain /\ Heed(replyText, <<>>)
      BY <1>3, <2>3 DEF OnTranscript, Ask, Plain
    <3>. QED BY <2>1, <3>1, PlainIsHeard DEF Bridged
  <2>4. CASE ~turnOpen
    <3>1. Unheard
      BY <1>3, <2>4 DEF OnTranscript, Unheard, work
    <3>. QED BY <2>1, <3>1 DEF Bridged
  <2>. QED BY <2>2, <2>3, <2>4
<1>4. CASE OnTranscriptionFailed
  <2>1. Stays /\ Plain /\ Heed(replyText, <<>>)
    BY <1>4 DEF OnTranscriptionFailed, Ask, Plain, Stays, F!Unarmed
  <2>. QED BY <2>1, PlainIsHeard DEF Bridged
<1>. QED BY <1>1, <1>2, <1>3, <1>4 DEF Speaker

LEMMA ResponseIsBridged ==
  ASSUME NEW t \in Turns,
         \/ BeginResponse(t) \/ OnGenerateResponse(t) \/ FailGenerate(t)
         \/ OnGenerateDelta(t) \/ OnGenerateStreamEnd(t) \/ AbandonStreamForToolCall(t)
  PROVE  Bridged
<1>1. Stays
  BY DEF BeginResponse, OnGenerateResponse, FailGenerate, OnGenerateDelta,
     OnGenerateStreamEnd, AbandonStreamForToolCall, Stays, surroundings, audio
<1>2. CASE BeginResponse(t) \/ AbandonStreamForToolCall(t)
  <2>1. Unheard
    BY <1>2 DEF BeginResponse, AbandonStreamForToolCall, Ask, Live, Unheard, F!Unmoved,
       F!DiscardReplySegments, F!Accepts
  <2>. QED BY <1>1, <2>1 DEF Bridged
<1>3. CASE OnGenerateResponse(t) \/ FailGenerate(t) \/ OnGenerateDelta(t)
  <2>1. Plain /\ Heed(replyText, <<>>)
    BY <1>3 DEF OnGenerateResponse, FailGenerate, OnGenerateDelta, Ask, Plain, F!Unarmed
  <2>. QED BY <1>1, <2>1, PlainIsHeard DEF Bridged
<1>4. CASE OnGenerateStreamEnd(t)
  <2>1. CASE Live(t)
    <3>1. Hears
      BY <1>4, <2>1 DEF OnGenerateStreamEnd, Live, Spoken, Plain, Hears
    <3>. QED BY <1>1, <3>1 DEF Bridged
  <2>2. CASE ~Live(t)
    <3>1. Unheard
      BY <1>4, <2>2 DEF OnGenerateStreamEnd, Unheard, work
    <3>. QED BY <1>1, <3>1 DEF Bridged
  <2>. QED BY <2>1, <2>2
<1>. QED BY <1>2, <1>3, <1>4

LEMMA NextIsBridged == ASSUME Next PROVE Bridged
<1>1. CASE Client
  <2>1. CASE ResponseCreate
    <3>1. Stays /\ Plain /\ Heed(replyText, <<>>)
      BY <2>1 DEF ResponseCreate, Ask, Plain, Stays, audio
    <3>. QED BY <3>1, PlainIsHeard DEF Bridged
  <2>. QED BY <1>1, <2>1 DEF Client, Bridged
<1>2. CASE LaunchResponse \/ TakePendingSynthesis \/ TakePendingSegment
  <2>1. Stays /\ Unheard
    BY <1>2 DEF LaunchResponse, TakePendingSynthesis, TakePendingSegment, Unheard, Stays,
       surroundings, audio
  <2>. QED BY <2>1 DEF Bridged
<1>3. ASSUME NEW piece \in Piece,
             FailTts(piece) \/ \E size \in 0..MaxChunks : OnTtsAudio(piece, size)
      PROVE  Bridged
  <2>1. Stays /\ Plain /\ Heed(replyText, <<>>)
    BY <1>3 DEF FailTts, OnTtsAudio, Ask, Plain, Stays, F!Unarmed, surroundings, audio
  <2>. QED BY <2>1, PlainIsHeard DEF Bridged
<1>4. CASE AnswerPending
  <2>1. Stays /\ UserSpeaks
    BY <1>4 DEF AnswerPending, UserSpeaks, Stays, audio
  <2>. QED BY <2>1 DEF Bridged
<1>5. CASE SurfaceToolCall \/ DeliverNext \/ Tick
  <2>1. Stays /\ Plain /\ Heed(replyText, <<>>)
    BY <1>5 DEF SurfaceToolCall, DeliverNext, Tick, Plain, Stays, surroundings, audio
  <2>. QED BY <2>1, PlainIsHeard DEF Bridged
<1>6. CASE Elapse
  <2>1. Stays /\ Unheard
    BY <1>6 DEF Elapse, Unheard, Stays, work, audio
  <2>. QED BY <2>1 DEF Bridged
<1>. QED
  BY <1>1, <1>2, <1>3, <1>4, <1>5, <1>6, SpeakerIsBridged, ResponseIsBridged
  DEF Next, Response, Handler, Bridged

-----------------------------------------------------------------------------
(* The tool call that is outstanding. *)

CallInv ==
  /\ TurnInv
  /\ DOMAIN toolCall = {"turn", "leg", "answered"}
  /\ CallMatchesFloor

LEMMA NoCallIsShaped == DOMAIN NoCall = {"turn", "leg", "answered"} /\ NoCall.turn = 0
BY DEF NoCall

LEMMA HeardKeepsCallInv ==
  ASSUME F!FloorInv, CallInv, TurnInv', Stays, Heeded, NEW text, OnFloorEvent(text)
  PROVE  CallInv'
<1>1. CASE event'.kind \in Endings
  <2>1. toolCall' = NoCall
    BY <1>1 DEF OnFloorEvent, ClearTurn, Endings
  <2>2. state' # "tool_wait"
    BY <1>1, HeededIsNoted
    DEF Noted, Interrupted, Failed, Done, Called, Started, Spoke, Silent, Emitted, Quits, Endings
  <2>. QED BY <2>1, <2>2, NoCallIsShaped DEF CallInv, CallMatchesFloor
<1>2. CASE event'.kind = "tool_call"
  <2>1. toolCall' = [turn |-> turn, leg |-> legs, answered |-> FALSE]
    BY <1>2 DEF OnFloorEvent, Endings
  <2>2. /\ state = "responding" /\ state' = "tool_wait" /\ turn' = turn
    BY <1>2, HeededIsNoted
    DEF Noted, Interrupted, Failed, Done, Called, Started, Spoke, Silent, Emitted
  <2>3. turn # 0 /\ toolCall'.turn = turn
    BY <2>1, <2>2 DEF CallInv, TurnInv, Turns, F!MachineHolds, F!MachineHeld
  <2>. QED BY <2>1, <2>2, <2>3, NoCallIsShaped DEF CallInv, CallMatchesFloor
<1>3. CASE event'.kind \notin Endings \cup {"tool_call"}
  <2>1. toolCall' = toolCall
    BY <1>3 DEF OnFloorEvent, Endings
  <2>2. /\ state' = "tool_wait" <=> state = "tool_wait"
        /\ state = "tool_wait" => turn' = turn
    BY <1>3, HeededIsNoted
    DEF Noted, Interrupted, Failed, Done, Called, Started, Spoke, Silent, Emitted, Quits,
        Answers, Endings, F!MachineHolds, F!MachineHeld
  <2>. QED BY <2>1, <2>2 DEF CallInv, CallMatchesFloor, Stays
<1>. QED BY <1>1, <1>2, <1>3

LEMMA NextKeepsCallInv == ASSUME F!FloorInv, CallInv, Next PROVE CallInv'
<1>1. TurnInv'
  BY ConversationMovesFloor, FloorMoveKeepsTurnInv DEF CallInv
<1>2. CASE ResponseCreateForTool
  BY <1>1, <1>2, NoCallIsShaped
  DEF ResponseCreateForTool, F!OnToolResult, CallInv, CallMatchesFloor
<1>3. CASE OnFunctionCallOutput
  <2>1. /\ F!Unmoved /\ toolCall # NoCall /\ UNCHANGED hearing
        /\ toolCall' = [toolCall EXCEPT !.answered = TRUE]
    BY <1>3 DEF OnFunctionCallOutput, AwaitingToolResult, audio
  <2>2. /\ DOMAIN toolCall' = {"turn", "leg", "answered"}
        /\ toolCall' # NoCall /\ toolCall'.turn = toolCall.turn
    BY <2>1 DEF CallInv, NoCall
  <2>. QED BY <1>1, <2>1, <2>2 DEF CallInv, CallMatchesFloor, F!Unmoved
<1>4. CASE Close
  BY <1>1, <1>4 DEF Close, work, CallInv, CallMatchesFloor
<1>5. CASE Stays /\ Hears
  BY <1>1, <1>5, HeardKeepsCallInv DEF Hears, Heed, Heeded, Spoken
<1>6. CASE Stays /\ UserSpeaks
  <2>1. Heeded
    BY <1>6 DEF UserSpeaks, Heeded
  <2>. QED BY <1>1, <1>6, <2>1, HeardKeepsCallInv DEF UserSpeaks, Heed
<1>7. CASE TurnTakenBack
  BY <1>1, <1>7, NoCallIsShaped
  DEF TurnTakenBack, F!OnContinuationOnset, F!Interrupt, F!Release, ClearTurn, CallInv,
      CallMatchesFloor
<1>8. CASE Stays /\ Unheard
  <2>1. /\ state' = "tool_wait" <=> state = "tool_wait"
        /\ turn' = turn /\ toolCall' = toolCall
    BY <1>8 DEF Unheard, F!Unmoved, F!Elapse, F!DiscardReplySegments, F!Accepts
  <2>. QED BY <1>1, <1>8, <2>1 DEF CallInv, CallMatchesFloor, Stays
<1>. QED BY <1>2, <1>3, <1>4, <1>5, <1>6, <1>7, <1>8, NextIsBridged DEF Bridged

LEMMA CallInvHolds == Spec => []CallInv
<1>1. Init => CallInv
  BY NoCallIsShaped
  DEF Init, F!Init, CallInv, TurnInv, CallMatchesFloor, F!MachineHolds, F!MachineHeld, F!Unarmed
<1>2. ASSUME F!FloorInv, CallInv, [Next]_vars PROVE CallInv'
  <2>1. CASE UNCHANGED vars
    BY <1>2, <2>1
    DEF vars, floorVars, work, audio, CallInv, TurnInv, CallMatchesFloor, F!MachineHolds
  <2>. QED BY <1>2, <2>1, NextKeepsCallInv
<1>. QED BY <1>1, <1>2, FloorInvHolds, PTL DEF Spec

(* A tool result can always resume the turn it is for, and never another    *)
(* one, in a conversation of any length (_resume_after_tool_result).        *)
THEOREM CallMatchesFloorHolds == Spec => []CallMatchesFloor
<1>1. CallInv => CallMatchesFloor
  BY DEF CallInv
<1>. QED BY <1>1, CallInvHolds, PTL

-----------------------------------------------------------------------------
(* What a step of the conversation is for the history. *)

Message == [role : Roles, turn : Turns, leg : 0..MaxLegs, words : SUBSET Utterances]

(* The reply that is final is the one the bridge has the text of.           *)
FinalInv == (state = "speaking" /\ finalSeen) => replyText = turn

(* A session that is gone has nothing left to do.                           *)
GoneIsOver ==
  hearing = "gone" =>
    state = "closed" /\ Idle /\ history = <<>>
    /\ launched = {} /\ calls = {} /\ syntheses = {}

RoomForReply == pendingSynthesis # 0 => MaxSegments >= 1

TypeInv == TypeOK /\ FinalInv /\ GoneIsOver /\ RoomForReply

Answering == state \in {"responding", "speaking", "tool_wait"}

(* The turn goes on, or it is over, or another one begins.                  *)
Onward ==
  /\ ~Answering' /\ turn' \in {turn, turn + 1}
  /\ state' = "transcribing" => turn' = turn + 1
Proceeds ==
  \/ Onward
  \/ UNCHANGED <<state, turn>>
  \/ Answering /\ Answering' /\ turn' = turn

Written(entry) == history' = Append(history, entry)

NothingWritten ==
  /\ history' = history /\ Proceeds
  /\ AwaitingToolResult' <=> AwaitingToolResult
  /\ AwaitingToolResult => toolCall' = toolCall
UserWritten ==
  /\ state = "transcribing" /\ state' = "responding" /\ turn' = turn
  /\ ~AwaitingToolResult'
  /\ \E words \in {handler.words, lastCommit} : Written(Entry("user", turn, 0, words))
ReplyWritten ==
  /\ state = "speaking" /\ Onward /\ ~AwaitingToolResult'
  /\ \E role \in {"reply", "heard"} : Written(Entry(role, turn, 0, NoWords))
CallWritten ==
  /\ state = "responding" /\ state' = "tool_wait" /\ turn' = turn
  /\ toolCall' = [turn |-> turn, leg |-> legs, answered |-> FALSE]
  /\ Written(Entry("call", turn, legs, NoWords))
ResultWritten ==
  /\ AwaitingToolResult /\ state = "tool_wait" /\ toolCall.turn = turn
  /\ ~AwaitingToolResult'
  /\ Onward \/ UNCHANGED <<state, turn>>
  /\ \E role \in {"result", "cancelled"} :
       Written(Entry(role, toolCall.turn, toolCall.leg, NoWords))

HistoryMove ==
  \/ NothingWritten \/ UserWritten \/ ReplyWritten \/ CallWritten \/ ResultWritten
  \/ TurnTakenBack \/ Close

LEMMA Joined ==
  ASSUME NEW s \in Seq(Message)
  PROVE  /\ s \o <<>> = s
         /\ \A e : (s \o <<e>>) = Append(s, e)
OBVIOUS

LEMMA LastDropped ==
  ASSUME NEW s \in Seq(Message), s # <<>>, NEW r, r = SubSeq(s, 1, Len(s) - 1)
  PROVE  /\ Len(s) \in Nat /\ Len(s) >= 1 /\ Len(r) = Len(s) - 1
         /\ r \in Seq(Message)
         /\ \A i \in 1..Len(r) : r[i] = s[i]
<1>1. Len(s) \in Nat /\ Len(s) >= 1 /\ \A i \in 1..Len(s) : s[i] \in Message
  OBVIOUS
<1>. DEFINE n == Len(s) - 1
<1>2. n \in Int /\ n >= 0 /\ r = SubSeq(s, 1, n)
  BY <1>1
<1>3. \A i \in 1..n : s[i] \in Message
  BY <1>1
<1>. HIDE DEF n
<1>4. /\ SubSeq(s, 1, n) \in Seq(Message)
      /\ Len(SubSeq(s, 1, n)) = IF 1 <= n THEN n - 1 + 1 ELSE 0
      /\ \A i \in 1..(n - 1 + 1) : SubSeq(s, 1, n)[i] = s[1 + i - 1]
  BY <1>2, <1>3, SubSeqProperties
<1>5. \A i \in 1..n : i \in 1..(n - 1 + 1) /\ 1 + i - 1 = i
  BY <1>2
<1>6. Len(r) = n /\ \A i \in 1..n : r[i] = s[i]
  BY <1>2, <1>4, <1>5
<1>. QED BY <1>1, <1>2, <1>4, <1>6 DEF n

(* Who hears of the end of a turn leaves no call without a result.          *)
LEMMA CancelledIsWritten ==
  ASSUME CallInv, TypeInv, F!MachineHolds, Onward, toolCall' = NoCall,
         history' = history \o Cancellation
  PROVE  HistoryMove
<1>1. ~AwaitingToolResult'
  BY DEF AwaitingToolResult
<1>2. history \in Seq(Message)
  BY DEF TypeInv, TypeOK, Message
<1>3. CASE AwaitingToolResult
  <2>1. Written(Entry("cancelled", toolCall.turn, toolCall.leg, NoWords))
    BY <1>2, <1>3, Joined DEF Cancellation, AwaitingToolResult, Written
  <2>2. state = "tool_wait" /\ toolCall.turn = turn
    BY <1>3 DEF AwaitingToolResult, CallInv, CallMatchesFloor, TypeInv, GoneIsOver,
       F!MachineHolds, F!MachineHeld
  <2>. QED BY <1>1, <1>3, <2>1, <2>2 DEF HistoryMove, ResultWritten
<1>4. CASE ~AwaitingToolResult
  <2>1. history' = history
    BY <1>2, <1>4, Joined DEF Cancellation, AwaitingToolResult
  <2>. QED BY <1>1, <1>4, <2>1 DEF HistoryMove, NothingWritten, Proceeds
<1>. QED BY <1>3, <1>4

LEMMA HeardIsWritten ==
  ASSUME F!FloorInv, CallInv, TypeInv, Hears PROVE HistoryMove
<1>1. PICK text : /\ \/ Plain /\ text = replyText
                     \/ Spoken /\ text = turn
                  /\ Heed(text, <<>>)
  BY DEF Hears
<1>2. history \in Seq(Message)
  BY DEF TypeInv, TypeOK, Message
<1>3. history' = (history \o Recorded(text)) \o <<>> /\ OnFloorEvent(text)
  BY <1>1 DEF Heed
<1>4. Noted
  BY <1>1, HeededIsNoted DEF Heeded, Spoken
<1>5. F!MachineHolds => hearing # "gone"
  BY DEF TypeInv, GoneIsOver, F!MachineHolds, F!MachineHeld
<1>6. event'.kind \in Endings => toolCall' = NoCall
  BY <1>3 DEF OnFloorEvent, ClearTurn, Endings
<1>7. CASE Interrupted
  <2>1. event'.kind = "interrupted" /\ event'.n = chunksSent /\ F!MachineHolds
    BY <1>7 DEF Interrupted, Emitted
  <2>2. Onward
    BY <1>7 DEF Interrupted, Quits, Onward, Answering
  <2>3. toolCall' = NoCall
    BY <1>6, <2>1 DEF Endings
  <2>4. CASE chunksSent > 0
    <3>1. state = "speaking"
      BY <2>4 DEF F!FloorInv, F!ReplyOnlyWhileSpeaking
    <3>2. Cancellation = <<>>
      BY <1>5, <2>1, <3>1 DEF CallInv, CallMatchesFloor, Cancellation
    <3>3. Recorded(text) = <<Entry("heard", turn, 0, NoWords)>>
      BY <2>1, <2>4, <3>2 DEF Recorded
    <3>4. Written(Entry("heard", turn, 0, NoWords))
      BY <1>2, <1>3, <3>3, Joined DEF Written
    <3>. QED BY <2>2, <2>3, <3>1, <3>4 DEF HistoryMove, ReplyWritten, AwaitingToolResult
  <2>5. CASE ~(chunksSent > 0)
    <3>1. Recorded(text) = <<>> \o Cancellation
      BY <2>1, <2>5 DEF Recorded
    <3>2. <<>> \o Cancellation = Cancellation
      BY DEF Cancellation
    <3>3. history' = history \o Cancellation
      BY <1>2, <1>3, <3>1, <3>2 DEF Cancellation
    <3>. QED BY <2>1, <2>2, <2>3, <3>3, CancelledIsWritten
  <2>. QED BY <2>4, <2>5
<1>8. CASE Failed
  <2>1. event'.kind = "failed" /\ F!MachineHolds
    BY <1>8 DEF Failed, Emitted
  <2>2. Onward
    BY <1>8 DEF Failed, Quits, Onward, Answering
  <2>3. toolCall' = NoCall
    BY <1>6, <2>1 DEF Endings
  <2>4. history' = history \o Cancellation
    BY <1>2, <1>3, <2>1 DEF Recorded, Cancellation
  <2>. QED BY <2>1, <2>2, <2>3, <2>4, CancelledIsWritten
<1>9. CASE Done
  <2>1. event'.kind = "done" /\ state = "speaking" /\ Onward
    BY <1>9 DEF Done, Quits, Onward, Answering
  <2>2. text = turn
    BY <1>1, <2>1, PlainDone DEF TypeInv, FinalInv
  <2>3. Written(Entry("reply", turn, 0, NoWords))
    BY <1>2, <1>3, <2>1, <2>2, Joined DEF Recorded, Written
  <2>4. toolCall' = NoCall
    BY <1>6, <2>1 DEF Endings
  <2>. QED BY <2>1, <2>3, <2>4 DEF HistoryMove, ReplyWritten, AwaitingToolResult
<1>10. CASE Called
  <2>1. event'.kind = "tool_call" /\ state = "responding" /\ state' = "tool_wait" /\ turn' = turn
    BY <1>10 DEF Called, Emitted
  <2>2. toolCall' = [turn |-> turn, leg |-> legs, answered |-> FALSE]
    BY <1>3, <2>1 DEF OnFloorEvent, Endings
  <2>3. Written(Entry("call", turn, legs, NoWords))
    BY <1>2, <1>3, <2>1, Joined DEF Recorded, Written
  <2>. QED BY <2>1, <2>2, <2>3 DEF HistoryMove, CallWritten
<1>11. CASE Spoke \/ Silent
  <2>1. event'.kind \in {"reply_text", "reply_segment", "none", "audio"}
    BY <1>11 DEF Spoke, Silent, Emitted
  <2>2. toolCall' = toolCall
    BY <1>3, <2>1 DEF OnFloorEvent, Endings
  <2>3. history' = history
    BY <1>2, <1>3, <2>1 DEF Recorded
  <2>4. Proceeds
    BY <1>11 DEF Spoke, Silent, Proceeds, Onward, Answering, Answers, Quits
  <2>. QED BY <2>2, <2>3, <2>4 DEF HistoryMove, NothingWritten, AwaitingToolResult
<1>12. CASE Started
  BY <1>1, <1>12, SpokenIsNotStarted DEF Started, Emitted, Spoken
<1>. QED BY <1>4, <1>7, <1>8, <1>9, <1>10, <1>11, <1>12 DEF Noted

LEMMA UserIsWritten ==
  ASSUME CallInv, TypeInv, UserSpeaks PROVE HistoryMove
<1>1. PICK words \in {handler.words, lastCommit} :
        /\ F!OnTranscript(turn, FALSE)
        /\ Heed(replyText, <<Entry("user", turn, 0, words)>>)
  BY DEF UserSpeaks
<1>2. /\ state = "transcribing" /\ state' = "responding" /\ turn' = turn
      /\ event'.kind = "started"
  BY <1>1 DEF F!OnTranscript, F!Accepts, F!Event
<1>3. toolCall = NoCall
  BY <1>2 DEF CallInv, CallMatchesFloor, TypeInv, GoneIsOver
<1>4. toolCall' = toolCall
  BY <1>1, <1>2 DEF Heed, OnFloorEvent, Endings
<1>5. Recorded(replyText) = <<>>
  BY <1>2 DEF Recorded
<1>6. history \in Seq(Message)
  BY DEF TypeInv, TypeOK, Message
<1>7. Written(Entry("user", turn, 0, words))
  BY <1>1, <1>5, <1>6, Joined DEF Heed, Written
<1>. QED BY <1>2, <1>3, <1>4, <1>7 DEF HistoryMove, UserWritten, AwaitingToolResult

LEMMA NextWrites ==
  ASSUME F!FloorInv, CallInv, TypeInv, Next PROVE HistoryMove
<1>1. CASE ResponseCreateForTool
  <2>1. state = "tool_wait" /\ state' = "responding" /\ turn' = turn
    BY <1>1 DEF ResponseCreateForTool, F!OnToolResult, F!Accepts
  <2>2. toolCall.answered /\ toolCall' = NoCall /\ history' = history
    BY <1>1 DEF ResponseCreateForTool
  <2>. QED
    BY <2>1, <2>2 DEF HistoryMove, NothingWritten, Proceeds, Answering, AwaitingToolResult
<1>2. CASE OnFunctionCallOutput
  <2>1. /\ AwaitingToolResult /\ UNCHANGED <<state, turn>> /\ hearing # "gone"
        /\ Written(Entry("result", toolCall.turn, toolCall.leg, NoWords))
        /\ toolCall' = [toolCall EXCEPT !.answered = TRUE]
    BY <1>2 DEF OnFunctionCallOutput, Written, F!Unmoved
  <2>2. state = "tool_wait" /\ toolCall.turn = turn
    BY <2>1 DEF AwaitingToolResult, CallInv, CallMatchesFloor
  <2>3. toolCall'.answered
    BY <2>1 DEF CallInv
  <2>. QED BY <2>1, <2>2, <2>3 DEF HistoryMove, ResultWritten, AwaitingToolResult
<1>3. CASE TurnTakenBack \/ Close
  BY <1>3 DEF HistoryMove
<1>4. CASE Unheard
  <2>1. Proceeds
    BY <1>4 DEF Unheard, F!Unmoved, F!Elapse, F!DiscardReplySegments, F!Accepts, Proceeds,
       Answering
  <2>. QED BY <1>4, <2>1 DEF Unheard, HistoryMove, NothingWritten, AwaitingToolResult
<1>. QED
  BY <1>1, <1>2, <1>3, <1>4, HeardIsWritten, UserIsWritten, NextIsBridged DEF Bridged

-----------------------------------------------------------------------------
(* The entries of the history. *)

TurnsGrow ==
  /\ \A i, j \in Entries : i < j => history[i].turn <= history[j].turn
  /\ \A i \in Entries : history[i].turn <= turn
  /\ state = "transcribing" => \A i \in Entries : history[i].turn < turn

UserIsFirst ==
  \A i \in Entries :
    history[i].role = "user" <=> (i = 1 \/ history[i - 1].turn < history[i].turn)

ReplyIsLast ==
  \A i \in Entries :
    history[i].role \in {"reply", "heard"} =>
      (i = Len(history) \/ history[i].turn < history[i + 1].turn)

Last == history[Len(history)]

(* The turn that is being answered is the last of the history, ...          *)
TurnIsOpen ==
  Answering => history # <<>> /\ Last.turn = turn /\ Last.role \notin {"reply", "heard"}

(* ... and the call that waits for its result the last entry.               *)
CallIsLast ==
  (AwaitingToolResult /\ hearing # "gone") =>
    /\ history # <<>> /\ Last.role = "call"
    /\ Last.turn = toolCall.turn /\ Last.leg = toolCall.leg

HistoryInv ==
  TurnsGrow /\ UserIsFirst /\ ReplyIsLast /\ TurnIsOpen /\ CallIsLast /\ CallsAreAnswered

(* A step that writes one entry.                                            *)
LEMMA WrittenEntries ==
  ASSUME history \in Seq(Message), NEW e, Written(e)
  PROVE  /\ Len(history') = Len(history) + 1 /\ Len(history) \in Nat
         /\ Entries = 1..Len(history) /\ Entries' = 1..Len(history')
         /\ \A i \in Entries : history'[i] = history[i]
         /\ Last' = e
BY DEF Written, Entries, Last

LEMMA WrittenKeepsTurns ==
  ASSUME history \in Seq(Message), turn \in Nat, turn' \in Nat, turn <= turn',
         TurnsGrow, NEW e, Written(e), e.turn = turn,
         state' = "transcribing" => turn < turn'
  PROVE  TurnsGrow'
<1>1. \A i \in Entries : history[i].turn \in Nat
  <2>1. \A i \in Entries : history[i] \in Message
    BY WrittenEntries
  <2>. QED BY <2>1 DEF Message, Turns
<1>2. \A i \in Entries' : i \in Entries \/ i = Len(history) + 1
  BY WrittenEntries
<1>3. history'[Len(history) + 1] = e
  BY WrittenEntries DEF Last
<1>4. \A i \in Entries' : history'[i].turn <= turn
  BY <1>1, <1>2, <1>3, WrittenEntries DEF TurnsGrow
<1>5. \A i \in Entries' : history'[i].turn \in Nat
  BY <1>1, <1>2, <1>3, WrittenEntries
<1>6. ASSUME NEW i \in Entries', NEW j \in Entries', i < j
      PROVE  history'[i].turn <= history'[j].turn
  <2>1. CASE j \in Entries
    <3>1. i \in Entries
      BY <1>2, <1>6, <2>1, WrittenEntries
    <3>. QED BY <1>6, <2>1, <3>1, WrittenEntries DEF TurnsGrow
  <2>2. CASE j = Len(history) + 1
    BY <1>3, <1>4, <1>6, <2>2
  <2>. QED BY <1>2, <2>1, <2>2
<1>. QED BY <1>4, <1>5, <1>6 DEF TurnsGrow

(* The entry that is written begins a turn exactly if it is the user's, and *)
(* goes behind nothing that ends the turn.                                  *)
LEMMA WrittenKeepsOrder ==
  ASSUME history \in Seq(Message), UserIsFirst, ReplyIsLast, NEW e, Written(e),
         e.role = "user" <=> (history = <<>> \/ Last.turn < e.turn),
         history # <<>> => (Last.turn < e.turn \/ Last.role \notin {"reply", "heard"})
  PROVE  UserIsFirst' /\ ReplyIsLast'
<1>1. \A i \in Entries' : i \in Entries \/ i = Len(history) + 1
  BY WrittenEntries
<1>2. history'[Len(history) + 1] = e
  BY WrittenEntries DEF Last
<1>3. UserIsFirst'
  <2>1. ASSUME NEW i \in Entries
        PROVE  history'[i].role = "user" <=> (i = 1 \/ history'[i - 1].turn < history'[i].turn)
    BY WrittenEntries DEF UserIsFirst
  <2>2. CASE history = <<>>
    BY <1>1, <1>2, <2>1, <2>2 DEF UserIsFirst
  <2>3. CASE history # <<>>
    <3>1. Len(history) \in Entries /\ Len(history) >= 1
      BY <2>3, WrittenEntries
    <3>. QED BY <1>1, <1>2, <2>1, <2>3, <3>1, WrittenEntries DEF UserIsFirst, Last
  <2>. QED BY <2>2, <2>3
<1>4. ReplyIsLast'
  <2>1. ASSUME NEW i \in Entries, history'[i].role \in {"reply", "heard"}
        PROVE  history'[i].turn < history'[i + 1].turn
    <3>1. CASE i = Len(history)
      BY <1>2, <2>1, <3>1, WrittenEntries DEF Last
    <3>2. CASE i # Len(history)
      <4>1. i + 1 \in Entries
        BY <3>2, WrittenEntries
      <4>. QED BY <2>1, <3>2, <4>1, WrittenEntries DEF ReplyIsLast
    <3>. QED BY <3>1, <3>2
  <2>. QED BY <1>1, <2>1, WrittenEntries DEF ReplyIsLast
<1>. QED BY <1>3, <1>4

(* A result is written right after its call, and nothing else is.           *)
LEMMA WrittenKeepsCalls ==
  ASSUME history \in Seq(Message), CallsAreAnswered, NEW e, Written(e),
         e.role = "call" => AwaitingToolResult',
         IF IsResult(e)
         THEN history # <<>> /\ Last.role = "call" /\ Last.turn = e.turn /\ Last.leg = e.leg
         ELSE history # <<>> => Last.role # "call"
  PROVE  CallsAreAnswered'
<1>. USE DEF IsResult, SameCall
<1>1. \A i \in Entries' : i \in Entries \/ i = Len(history) + 1
  BY WrittenEntries
<1>2. history'[Len(history) + 1] = e
  BY WrittenEntries DEF Last
<1>3. ASSUME NEW i \in Entries
      PROVE  /\ i # Len(history')
             /\ history'[i].role = "call" => (IsResult(history[i + 1]) /\ SameCall(i, i + 1))'
             /\ IsResult(history[i])'
                   => (i > 1 /\ history[i - 1].role = "call" /\ SameCall(i - 1, i))'
  <2>1. i # Len(history') /\ history'[i] = history[i]
    BY WrittenEntries
  <2>2. CASE i = Len(history)
    <3>1. history[i] = Last
      BY <2>2 DEF Last
    <3>2. history # <<>>
      BY <2>2, WrittenEntries
    <3>3. history'[i + 1] = e
      BY <1>2, <2>2
    <3>. QED BY <2>1, <3>1, <3>2, <3>3, WrittenEntries DEF CallsAreAnswered
  <2>3. CASE i # Len(history)
    <3>1. i + 1 \in Entries /\ history'[i + 1] = history[i + 1]
      BY <2>3, WrittenEntries
    <3>. QED BY <2>1, <2>3, <3>1, WrittenEntries DEF CallsAreAnswered
  <2>. QED BY <2>2, <2>3
<1>4. /\ e.role = "call" => AwaitingToolResult'
      /\ IsResult(e) => (/\ Len(history') > 1 /\ history[Len(history') - 1].role = "call"
                         /\ history[Len(history') - 1].turn = e.turn
                         /\ history[Len(history') - 1].leg = e.leg)
  BY WrittenEntries DEF Last
<1>5. Len(history') = Len(history) + 1 /\ Len(history) \in Nat /\ Entries = 1..Len(history)
      /\ \A i \in Entries : history'[i] = history[i]
  BY WrittenEntries
<1>6. ASSUME NEW i \in Entries', i = Len(history) + 1
      PROVE  /\ history'[i].role = "call" => AwaitingToolResult'
             /\ IsResult(history[i])'
                   => (i > 1 /\ history[i - 1].role = "call" /\ SameCall(i - 1, i))'
  BY <1>2, <1>4, <1>5, <1>6
<1>. QED BY <1>1, <1>3, <1>5, <1>6 DEF CallsAreAnswered

LEMMA NothingWrittenKeepsHistoryInv ==
  ASSUME HistoryInv, NothingWritten, history \in Seq(Message), turn \in Nat,
         hearing' # "gone" => hearing # "gone"
  PROVE  HistoryInv'
<1>1. history' = history /\ Entries' = Entries /\ Last' = Last
  BY DEF NothingWritten, Entries, Last
<1>2. \A i \in Entries : history[i].turn \in Nat
  <2>1. \A i \in Entries : history[i] \in Message
    BY DEF Entries
  <2>. QED BY <2>1 DEF Message, Turns
<1>3. TurnsGrow'
  BY <1>1, <1>2
  DEF NothingWritten, HistoryInv, TurnsGrow, Proceeds, Onward, Answering
<1>4. UserIsFirst' /\ ReplyIsLast'
  BY <1>1 DEF HistoryInv, UserIsFirst, ReplyIsLast
<1>5. TurnIsOpen'
  BY <1>1 DEF NothingWritten, HistoryInv, TurnIsOpen, Proceeds, Onward, Answering
<1>6. CallIsLast'
  BY <1>1 DEF NothingWritten, HistoryInv, CallIsLast
<1>7. CallsAreAnswered'
  BY <1>1 DEF NothingWritten, HistoryInv, CallsAreAnswered, IsResult, SameCall
<1>. QED BY <1>3, <1>4, <1>5, <1>6, <1>7 DEF HistoryInv

LEMMA UserWrittenKeepsHistoryInv ==
  ASSUME CallInv, TypeInv, HistoryInv, UserWritten PROVE HistoryInv'
<1>. history \in Seq(Message) /\ turn \in Nat
  BY DEF TypeInv, TypeOK, Message, CallInv, TurnInv
<1>1. PICK words \in {handler.words, lastCommit} : Written(Entry("user", turn, 0, words))
  BY DEF UserWritten
<1>. DEFINE e == Entry("user", turn, 0, words)
<1>2. e.role = "user" /\ e.turn = turn
  BY DEF Entry
<1>. HIDE DEF e
<1>3. state = "transcribing" /\ state' = "responding" /\ turn' = turn /\ ~AwaitingToolResult'
  BY DEF UserWritten
<1>4. \A i \in Entries : history[i].turn < turn
  BY <1>3 DEF HistoryInv, TurnsGrow
<1>5. history # <<>> => Len(history) \in Entries
  BY DEF Entries
<1>6. TurnsGrow'
  BY <1>1, <1>2, <1>3, WrittenKeepsTurns DEF HistoryInv, e
<1>7. history # <<>> => Last.turn < turn
  BY <1>4, <1>5 DEF Last
<1>8. UserIsFirst' /\ ReplyIsLast'
  BY <1>1, <1>2, <1>7, WrittenKeepsOrder DEF HistoryInv, e
<1>9. ~AwaitingToolResult
  BY <1>3 DEF AwaitingToolResult, CallInv, CallMatchesFloor, TypeInv, GoneIsOver
<1>10. history # <<>> => Last.role # "call"
  BY <1>5, <1>9 DEF HistoryInv, CallsAreAnswered, Last
<1>11. CallsAreAnswered'
  BY <1>1, <1>2, <1>10, WrittenKeepsCalls DEF HistoryInv, IsResult, e
<1>12. Last' = e /\ history' # <<>>
  BY <1>1, WrittenEntries DEF e
<1>13. TurnIsOpen' /\ CallIsLast'
  BY <1>2, <1>3, <1>12 DEF TurnIsOpen, CallIsLast
<1>. QED BY <1>6, <1>8, <1>11, <1>13 DEF HistoryInv

(* An entry of the turn that is being answered.                             *)
LEMMA AnswerWrittenKeepsHistoryInv ==
  ASSUME CallInv, TypeInv, HistoryInv, NEW e, Written(e), e.turn = turn, e.role # "user",
         Answering, turn' \in {turn, turn + 1}, state' = "transcribing" => turn' = turn + 1,
         Answering' => turn' = turn /\ e.role \notin {"reply", "heard"},
         e.role = "call" <=> AwaitingToolResult',
         AwaitingToolResult' => toolCall'.turn = e.turn /\ toolCall'.leg = e.leg,
         IF IsResult(e)
         THEN AwaitingToolResult /\ e.turn = toolCall.turn /\ e.leg = toolCall.leg
         ELSE ~AwaitingToolResult
  PROVE  HistoryInv'
<1>. history \in Seq(Message) /\ turn \in Nat
  BY DEF TypeInv, TypeOK, Message, CallInv, TurnInv
<1>1. history # <<>> /\ Last.turn = turn /\ Last.role \notin {"reply", "heard"}
  BY DEF HistoryInv, TurnIsOpen
<1>2. Len(history) \in Entries
  BY <1>1 DEF Entries
<1>3. TurnsGrow'
  BY WrittenKeepsTurns DEF HistoryInv
<1>4. UserIsFirst' /\ ReplyIsLast'
  BY <1>1, WrittenKeepsOrder DEF HistoryInv
<1>5. hearing # "gone"
  BY DEF Answering, TypeInv, GoneIsOver
<1>7. CallsAreAnswered'
  <2>1. CASE IsResult(e)
    <3>1. Last.role = "call" /\ Last.turn = e.turn /\ Last.leg = e.leg
      BY <1>5, <2>1 DEF HistoryInv, CallIsLast
    <3>. QED BY <1>1, <2>1, <3>1, WrittenKeepsCalls DEF HistoryInv
  <2>2. CASE ~IsResult(e)
    <3>1. Last.role # "call"
      BY <1>2, <2>2 DEF HistoryInv, CallsAreAnswered, Last
    <3>. QED BY <2>2, <3>1, WrittenKeepsCalls DEF HistoryInv
  <2>. QED BY <2>1, <2>2
<1>8. Last' = e /\ history' # <<>>
  BY WrittenEntries
<1>9. TurnIsOpen' /\ CallIsLast'
  BY <1>8 DEF TurnIsOpen, CallIsLast
<1>. QED BY <1>3, <1>4, <1>7, <1>9 DEF HistoryInv

LEMMA TakenBackKeepsHistoryInv ==
  ASSUME CallInv, TypeInv, HistoryInv, TurnTakenBack PROVE HistoryInv'
<1>. history \in Seq(Message) /\ turn \in Nat
  BY DEF TypeInv, TypeOK, Message, CallInv, TurnInv
<1>1. history # <<>> /\ Last.role = "user"
  BY DEF TurnTakenBack, TakesBack, LastIsCommit, Last
<1>2. state' = "listening" /\ turn' = turn /\ toolCall' = NoCall
  BY DEF TurnTakenBack, F!OnContinuationOnset, F!Interrupt, F!Release, ClearTurn
<1>3. /\ Len(history) \in Nat /\ Len(history) >= 1 /\ Entries = 1..Len(history)
      /\ Len(history') = Len(history) - 1 /\ Entries' = 1..Len(history')
      /\ \A i \in Entries' : history'[i] = history[i]
  <2>1. history' = SubSeq(history, 1, Len(history) - 1)
    BY DEF TurnTakenBack
  <2>2. /\ Len(history) \in Nat /\ Len(history) >= 1 /\ Len(history') = Len(history) - 1
        /\ history' \in Seq(Message)
        /\ \A i \in 1..Len(history') : history'[i] = history[i]
    BY <1>1, <2>1, LastDropped
  <2>3. Entries = 1..Len(history) /\ Entries' = 1..Len(history')
    BY <2>2 DEF Entries
  <2>. QED BY <2>2, <2>3
<1>4. TurnsGrow'
  BY <1>2, <1>3 DEF HistoryInv, TurnsGrow
<1>9. UserIsFirst'
  <2>1. ASSUME NEW i \in Entries' PROVE i \in Entries /\ (i = 1 \/ i - 1 \in Entries')
    BY <1>3
  <2>. QED BY <1>3, <2>1 DEF HistoryInv, UserIsFirst
<1>5. ReplyIsLast'
  BY <1>3 DEF HistoryInv, ReplyIsLast
<1>6. TurnIsOpen' /\ CallIsLast'
  BY <1>2 DEF TurnIsOpen, CallIsLast, Answering, AwaitingToolResult
<1>7. ASSUME NEW i \in Entries', history[i].role = "call"
      PROVE  i # Len(history')
  <2>1. i # Len(history) /\ i + 1 \in Entries
    BY <1>3
  <2>2. IsResult(history[i + 1])
    BY <1>3, <1>7, <2>1 DEF HistoryInv, CallsAreAnswered
  <2>. QED BY <1>1, <1>3, <2>2 DEF IsResult, Last
<1>8. CallsAreAnswered'
  <2>1. ASSUME NEW i \in Entries', history[i].role = "call"
        PROVE  IsResult(history[i + 1]) /\ SameCall(i, i + 1) /\ i + 1 \in Entries'
    <3>1. i \in Entries /\ i # Len(history) /\ i + 1 \in Entries'
      BY <1>3, <1>7, <2>1
    <3>. QED BY <2>1, <3>1 DEF HistoryInv, CallsAreAnswered
  <2>2. ASSUME NEW i \in Entries', IsResult(history[i])
        PROVE  i > 1 /\ history[i - 1].role = "call" /\ SameCall(i - 1, i) /\ i - 1 \in Entries'
    <3>1. i \in Entries
      BY <1>3
    <3>2. i > 1 /\ history[i - 1].role = "call" /\ SameCall(i - 1, i)
      BY <2>2, <3>1 DEF HistoryInv, CallsAreAnswered
    <3>. QED BY <1>3, <3>2
  <2>. QED BY <1>3, <1>7, <2>1, <2>2 DEF CallsAreAnswered, IsResult, SameCall
<1>. QED BY <1>4, <1>9, <1>5, <1>6, <1>8 DEF HistoryInv

LEMMA ForgottenKeepsHistoryInv ==
  ASSUME history' = <<>>, ~Answering', hearing' = "gone" PROVE HistoryInv'
<1>1. Entries' = {}
  BY DEF Entries
<1>. QED
  BY <1>1 DEF HistoryInv, TurnsGrow, UserIsFirst, ReplyIsLast, TurnIsOpen, CallIsLast,
     CallsAreAnswered, Answering

LEMMA NextKeepsHistoryInv ==
  ASSUME F!FloorInv, CallInv, TypeInv, HistoryInv, Next PROVE HistoryInv'
<1>. history \in Seq(Message) /\ turn \in Nat
  BY DEF TypeInv, TypeOK, Message, CallInv, TurnInv
<1>. USE DEF Entry
<1>1. CASE NothingWritten
  <2>1. hearing' # "gone" => hearing # "gone"
    BY NextIsBridged
    DEF Bridged, ResponseCreateForTool, OnFunctionCallOutput, Close, Stays, audio
  <2>. QED BY <1>1, <2>1, NothingWrittenKeepsHistoryInv
<1>2. CASE UserWritten
  BY <1>2, UserWrittenKeepsHistoryInv
<1>3. CASE ReplyWritten
  <2>1. PICK role \in {"reply", "heard"} : Written(Entry(role, turn, 0, NoWords))
    BY <1>3 DEF ReplyWritten
  <2>2. /\ Answering /\ ~AwaitingToolResult' /\ ~Answering' /\ turn' \in {turn, turn + 1}
        /\ state' = "transcribing" => turn' = turn + 1
    BY <1>3 DEF ReplyWritten, Onward, Answering
  <2>3. ~AwaitingToolResult
    BY <1>3 DEF ReplyWritten, AwaitingToolResult, CallInv, CallMatchesFloor, TypeInv, GoneIsOver
  <2>. QED BY <2>1, <2>2, <2>3, AnswerWrittenKeepsHistoryInv DEF IsResult
<1>4. CASE CallWritten
  <2>1. /\ Written(Entry("call", turn, legs, NoWords)) /\ turn' = turn
        /\ state = "responding" /\ state' = "tool_wait"
        /\ toolCall' = [turn |-> turn, leg |-> legs, answered |-> FALSE]
    BY <1>4 DEF CallWritten
  <2>2. AwaitingToolResult'
    <3>1. turn \in Turns
      BY <2>1 DEF CallInv, TurnInv, F!MachineHolds, F!MachineHeld
    <3>. QED BY <2>1, <3>1 DEF AwaitingToolResult, NoCall, Turns
  <2>3. ~AwaitingToolResult
    BY <2>1 DEF AwaitingToolResult, CallInv, CallMatchesFloor, TypeInv, GoneIsOver
  <2>4. Answering /\ turn' \in {turn, turn + 1}
    BY <2>1 DEF Answering
  <2>. QED BY <2>1, <2>2, <2>3, <2>4, AnswerWrittenKeepsHistoryInv DEF IsResult
<1>5. CASE ResultWritten
  <2>1. PICK role \in {"result", "cancelled"} :
          Written(Entry(role, toolCall.turn, toolCall.leg, NoWords))
    BY <1>5 DEF ResultWritten
  <2>2. /\ AwaitingToolResult /\ Answering /\ toolCall.turn = turn /\ ~AwaitingToolResult'
        /\ turn' \in {turn, turn + 1} /\ (state' = "transcribing" => turn' = turn + 1)
        /\ Answering' => turn' = turn
    BY <1>5 DEF ResultWritten, Onward, Answering
  <2>. QED BY <2>1, <2>2, AnswerWrittenKeepsHistoryInv DEF IsResult
<1>6. CASE TurnTakenBack
  BY <1>6, TakenBackKeepsHistoryInv
<1>7. CASE Close
  <2>1. history' = <<>> /\ hearing' = "gone" /\ ~Answering'
    BY <1>7 DEF Close, F!Close, Answering
  <2>. QED BY <2>1, ForgottenKeepsHistoryInv
<1>. QED BY <1>1, <1>2, <1>3, <1>4, <1>5, <1>6, <1>7, NextWrites DEF HistoryMove

-----------------------------------------------------------------------------
(* Types. *)

Handling == [kind : {"none", "answer", "surface"},
             words : SUBSET Utterances, item : 0..MaxUtterances]
Call == [turn : 0..MaxTurns, leg : 0..MaxLegs, answered : BOOLEAN]

BridgeTyped ==
  /\ streaming \in BOOLEAN /\ optedIn \in BOOLEAN /\ turnOpen \in BOOLEAN
  /\ itemId \in 0..MaxUtterances
  /\ pendingTranscript \subseteq Utterances /\ pendingItem \in 0..MaxUtterances
  /\ commitAge \in 0..Expired /\ commitText \subseteq Utterances /\ continuing \in BOOLEAN
  /\ handler \in Handling
HearingTyped ==
  /\ hearing \in {"quiet", "speech", "transcribing", "gone"}
  /\ said \in 0..MaxUtterances /\ (hearing = "speech" => said > 0)
  /\ carried \subseteq Utterances /\ lastCommit \subseteq Utterances
WorkTyped ==
  /\ replyText \in 0..MaxTurns /\ pendingResponse \in 0..MaxTurns
  /\ pendingSynthesis \in 0..MaxTurns /\ pendingSegments \in Seq(Piece)
  /\ streamTurn \in 0..MaxTurns
  /\ toolCall \in Call
  /\ RoomForReply
TasksTyped == launched \subseteq Turns /\ calls \subseteq Turns /\ syntheses \subseteq Piece

LEMMA TypeParts ==
  TypeOK /\ RoomForReply /\ (hearing = "speech" => said > 0)
    <=> BridgeTyped /\ HearingTyped /\ WorkTyped /\ TasksTyped /\ history \in Seq(Message)
BY DEF TypeOK, BridgeTyped, HearingTyped, WorkTyped, TasksTyped, Message, Handling, Call

LEMMA NextKeepsBridgeTyped ==
  ASSUME BridgeTyped, HearingTyped, Next PROVE BridgeTyped' /\ HearingTyped'
<1>1. /\ Expired \in Nat /\ Expired' = Expired /\ NoWords \subseteq Utterances
      /\ NoHandler \in Handling
      /\ 0 \in 0..MaxUtterances
  BY ConversationAssumption DEF Expired, NoWords, NoHandler, Handling
<1>2. CASE UNCHANGED surroundings
  BY <1>2 DEF surroundings, pending, commit, audio, BridgeTyped, HearingTyped
<1>3. CASE Client
  <2>1. CASE ResponseCreate
    <3>1. /\ handler' \in {NoHandler, [kind |-> "answer", words |-> pendingTranscript,
                                       item |-> pendingItem]}
          /\ optedIn' = TRUE /\ pendingTranscript' = NoWords /\ pendingItem' = 0
          /\ UNCHANGED <<streaming, turnOpen, itemId, commit, audio>>
      BY <2>1 DEF ResponseCreate
    <3>2. handler' \in Handling
      BY <1>1, <3>1 DEF BridgeTyped, Handling
    <3>. QED BY <1>1, <3>1, <3>2 DEF commit, audio, BridgeTyped, HearingTyped
  <2>2. CASE ResponseCreateForTool \/ OnFunctionCallOutput
    <3>1. UNCHANGED surroundings
      BY <2>2 DEF ResponseCreateForTool, OnFunctionCallOutput, surroundings
    <3>. QED BY <1>2, <3>1
  <2>. QED BY <1>3, <2>1, <2>2 DEF Client
<1>4. CASE OnSpeechStarted
  <2>1. /\ said < MaxUtterances /\ said' = said + 1 /\ hearing' = "speech"
        /\ commitAge' = Expired /\ commitText' = NoWords
        /\ continuing' \in BOOLEAN /\ carried' \in {lastCommit, NoWords}
        /\ UNCHANGED <<streaming, optedIn, turnOpen, itemId, pending, handler, lastCommit>>
    BY <1>4 DEF OnSpeechStarted
  <2>2. said' \in 0..MaxUtterances /\ said' > 0
    BY <2>1, ConversationAssumption DEF HearingTyped
  <2>. QED
    BY <1>1, <2>1, <2>2 DEF pending, BridgeTyped, HearingTyped
<1>5. ASSUME NEW silence \in BOOLEAN, OnSpeechStopped(silence)
      PROVE  BridgeTyped' /\ HearingTyped'
  <2>1. /\ hearing = "speech" /\ hearing' = "transcribing"
        /\ commitText' = NoWords /\ continuing' = FALSE
        /\ lastCommit' = carried \cup {said} /\ carried' = NoWords
        /\ UNCHANGED <<streaming, optedIn, itemId, pending, handler, said>>
    BY <1>5 DEF OnSpeechStopped
  <2>2. turnOpen' \in BOOLEAN /\ commitAge' \in {0, Expired}
    BY <1>5 DEF OnSpeechStopped
  <2>3. said \in Utterances
    BY <2>1, ConversationAssumption DEF HearingTyped, Utterances
  <2>4. carried \cup {said} \subseteq Utterances
    BY <2>3 DEF HearingTyped
  <2>5. commitAge' \in 0..Expired
    BY <1>1, <2>2
  <2>. QED
    BY <1>1, <2>1, <2>2, <2>4, <2>5 DEF pending, BridgeTyped, HearingTyped
<1>6. ASSUME NEW blank \in BOOLEAN, OnTranscript(blank)
      PROVE  BridgeTyped' /\ HearingTyped'
  BY <1>1, <1>6 DEF OnTranscript, pending, BridgeTyped, HearingTyped
<1>7. CASE OnTranscriptionFailed
  BY <1>7 DEF OnTranscriptionFailed, pending, commit, BridgeTyped, HearingTyped
<1>8. CASE Handler
  <2>1. /\ handler' = NoHandler /\ itemId' \in {handler.item, itemId}
        /\ UNCHANGED <<streaming, optedIn, turnOpen, pending, commit, audio>>
    BY <1>8 DEF Handler, AnswerPending, SurfaceToolCall
  <2>2. itemId' \in 0..MaxUtterances
    BY <2>1 DEF BridgeTyped, Handling
  <2>. QED BY <1>1, <2>1, <2>2 DEF pending, commit, audio, BridgeTyped, HearingTyped
<1>9. ASSUME NEW t \in Turns, AbandonStreamForToolCall(t)
      PROVE  BridgeTyped' /\ HearingTyped'
  <2>1. handler' = [NoHandler EXCEPT !.kind = "surface"]
    BY <1>9 DEF AbandonStreamForToolCall
  <2>2. handler' \in Handling
    BY <1>1, <2>1 DEF NoHandler, Handling
  <2>. QED
    BY <1>9, <2>2
    DEF AbandonStreamForToolCall, pending, commit, audio, BridgeTyped, HearingTyped
<1>10. CASE Elapse
  BY <1>1, <1>10 DEF Elapse, pending, audio, BridgeTyped, HearingTyped
<1>11. CASE Close
  BY <1>11 DEF Close, pending, commit, BridgeTyped, HearingTyped
<1>12. ASSUME NEW t \in Turns,
              \/ BeginResponse(t) \/ OnGenerateResponse(t) \/ FailGenerate(t)
              \/ OnGenerateDelta(t) \/ OnGenerateStreamEnd(t)
       PROVE  UNCHANGED surroundings
  BY <1>12 DEF BeginResponse, OnGenerateResponse, FailGenerate, OnGenerateDelta,
     OnGenerateStreamEnd
<1>13. ASSUME NEW piece \in Piece,
              FailTts(piece) \/ \E size \in 0..MaxChunks : OnTtsAudio(piece, size)
       PROVE  UNCHANGED surroundings
  BY <1>13 DEF FailTts, OnTtsAudio
<1>14. CASE LaunchResponse \/ TakePendingSynthesis \/ TakePendingSegment \/ DeliverNext \/ Tick
  <2>1. UNCHANGED surroundings
    BY <1>14 DEF LaunchResponse, TakePendingSynthesis, TakePendingSegment, DeliverNext, Tick
  <2>. QED BY <1>2, <2>1
<1>. QED
  BY <1>2, <1>3, <1>4, <1>5, <1>6, <1>7, <1>8, <1>9, <1>10, <1>11, <1>12, <1>13, <1>14
  DEF Next, Speaker, Response

(* What the bridge hears keeps the work of a turn typed.                    *)
LEMMA HeardIsTyped ==
  ASSUME F!FloorInv, F!FloorInv', TurnInv, WorkTyped, Heeded,
         NEW text \in 0..MaxTurns, OnFloorEvent(text)
  PROVE  WorkTyped'
<1>1. 0 \in 0..MaxTurns /\ NoCall \in Call
  BY ConversationAssumption DEF NoCall, Call
<1>2. event'.turn \in 0..MaxTurns /\ turn \in 0..MaxTurns /\ legs \in 0..MaxLegs
  BY DEF F!FloorInv, F!TypeOK
<1>3. CASE event'.kind \in {"reply_text", "reply_segment"}
  <2>1. /\ event'.turn = turn /\ event'.n = Len(segments) /\ Len(segments) < MaxSegments
        /\ Answers
    BY <1>3, HeededIsNoted
    DEF Noted, Interrupted, Failed, Done, Called, Started, Spoke, Silent, Emitted
  <2>2. Len(segments) \in Nat
    BY DEF F!FloorInv, F!TypeOK
  <2>3. [turn |-> event'.turn, index |-> event'.n + 1] \in Piece /\ MaxSegments >= 1
    BY <2>1, <2>2, ConversationAssumption
    DEF Piece, Turns, TurnInv, Answers, F!MachineHolds, F!MachineHeld
  <2>. QED
    <3>1. CASE event'.kind = "reply_text"
      <4>1. /\ replyText' = event'.turn /\ pendingSynthesis' = event'.turn
            /\ UNCHANGED <<pendingResponse, pendingSegments, streamTurn, toolCall>>
        BY <3>1 DEF OnFloorEvent, Endings
      <4>. QED BY <1>2, <2>3, <4>1 DEF WorkTyped, RoomForReply
    <3>2. CASE event'.kind = "reply_segment"
      <4>1. /\ pendingSegments' = Append(pendingSegments,
                                        [turn |-> event'.turn, index |-> event'.n + 1])
            /\ replyText' = text
            /\ UNCHANGED <<pendingResponse, pendingSynthesis, streamTurn, toolCall>>
        BY <3>2 DEF OnFloorEvent, Endings
      <4>2. pendingSegments' \in Seq(Piece)
        BY <2>3, <4>1 DEF WorkTyped
      <4>. QED BY <4>1, <4>2 DEF WorkTyped, RoomForReply
    <3>. QED BY <1>3, <3>1, <3>2
<1>4. CASE event'.kind \in Endings
  <2>1. ClearTurn
    BY <1>4 DEF OnFloorEvent, Endings
  <2>. QED BY <1>1, <2>1 DEF ClearTurn, WorkTyped, RoomForReply
<1>5. CASE event'.kind \notin Endings \cup {"reply_text", "reply_segment"}
  <2>1. /\ replyText' = text /\ pendingResponse' \in {pendingResponse, event'.turn}
        /\ UNCHANGED <<pendingSynthesis, pendingSegments, streamTurn>>
        /\ \/ toolCall' = [turn |-> turn, leg |-> legs, answered |-> FALSE]
           \/ toolCall' = toolCall
    BY <1>5 DEF OnFloorEvent, Endings
  <2>2. [turn |-> turn, leg |-> legs, answered |-> FALSE] \in Call
    BY <1>2 DEF Call
  <2>. QED BY <1>2, <2>1, <2>2 DEF WorkTyped, RoomForReply
<1>. QED BY <1>3, <1>4, <1>5

(* The other steps.                                                         *)
LEMMA NextKeepsWorkTyped ==
  ASSUME F!FloorInv, F!FloorInv', TurnInv, WorkTyped, TasksTyped, Next PROVE WorkTyped'
<1>1. 0 \in 0..MaxTurns /\ NoCall \in Call
  BY ConversationAssumption DEF NoCall, Call
<1>2. turn \in 0..MaxTurns
  BY DEF F!FloorInv, F!TypeOK
<1>. USE DEF WorkTyped, RoomForReply
<1>3. CASE ClearTurn
  BY <1>1, <1>3 DEF ClearTurn
<1>4. CASE Hears \/ UserSpeaks
  BY <1>2, <1>4, HeardIsTyped DEF Hears, UserSpeaks, Heed, Heeded, Spoken
<1>5. CASE UNCHANGED work
  BY <1>5 DEF work
<1>6. CASE ResponseCreateForTool
  BY <1>1, <1>2, <1>6 DEF ResponseCreateForTool
<1>7. CASE OnFunctionCallOutput
  <2>1. /\ toolCall' = [toolCall EXCEPT !.answered = TRUE]
        /\ UNCHANGED <<replyText, pendingResponse, pendingSynthesis, pendingSegments,
                       streamTurn>>
    BY <1>7 DEF OnFunctionCallOutput
  <2>2. toolCall' \in Call
    BY <2>1 DEF Call
  <2>. QED BY <2>1, <2>2
<1>8. CASE LaunchResponse \/ TakePendingSynthesis
  BY <1>1, <1>8 DEF LaunchResponse, TakePendingSynthesis
<1>9. CASE TakePendingSegment
  <2>1. Tail(pendingSegments) \in Seq(Piece)
    BY <1>9 DEF TakePendingSegment
  <2>. QED BY <1>9, <2>1 DEF TakePendingSegment
<1>10. ASSUME NEW t \in Turns, BeginResponse(t) \/ AbandonStreamForToolCall(t) PROVE WorkTyped'
  <2>1. t \in 0..MaxTurns
    BY ConversationAssumption DEF Turns
  <2>2. /\ replyText' \in {replyText, 0} /\ streamTurn' \in {streamTurn, t}
        /\ pendingSegments' \in {pendingSegments, <<>>}
        /\ UNCHANGED <<pendingResponse, pendingSynthesis, toolCall>>
    BY <1>10 DEF BeginResponse, AbandonStreamForToolCall
  <2>3. <<>> \in Seq(Piece)
    OBVIOUS
  <2>. QED BY <1>1, <2>1, <2>2, <2>3
<1>11. CASE Close
  BY <1>5, <1>11 DEF Close
<1>. QED
  BY <1>3, <1>4, <1>5, <1>6, <1>7, <1>8, <1>9, <1>10, <1>11, NextIsBridged
  DEF Bridged, TurnTakenBack, Unheard

LEMMA NextKeepsTasksTyped ==
  ASSUME WorkTyped, TasksTyped, Next PROVE TasksTyped'
<1>. USE DEF TasksTyped
<1>1. CASE UNCHANGED tasks
  BY <1>1 DEF tasks
<1>2. CASE LaunchResponse
  <2>1. pendingResponse \in Turns
    BY <1>2, ConversationAssumption DEF LaunchResponse, WorkTyped, Turns
  <2>. QED BY <1>2, <2>1 DEF LaunchResponse
<1>3. ASSUME NEW t \in Turns,
             \/ BeginResponse(t) \/ OnGenerateResponse(t) \/ FailGenerate(t)
             \/ OnGenerateStreamEnd(t) \/ AbandonStreamForToolCall(t)
      PROVE  TasksTyped'
  <2>1. /\ launched' \subseteq launched /\ calls' \subseteq calls \cup {t}
        /\ syntheses' = syntheses
    BY <1>3 DEF BeginResponse, OnGenerateResponse, FailGenerate, OnGenerateStreamEnd,
       AbandonStreamForToolCall
  <2>. QED BY <2>1
<1>4. CASE TakePendingSynthesis
  <2>1. [turn |-> pendingSynthesis, index |-> 1] \in Piece
    BY <1>4, ConversationAssumption
    DEF TakePendingSynthesis, WorkTyped, RoomForReply, Piece, Turns
  <2>. QED BY <1>4, <2>1 DEF TakePendingSynthesis
<1>5. CASE TakePendingSegment
  <2>1. Head(pendingSegments) \in Piece
    BY <1>5 DEF TakePendingSegment, WorkTyped
  <2>. QED BY <1>5, <2>1 DEF TakePendingSegment
<1>6. ASSUME NEW piece \in Piece,
             FailTts(piece) \/ \E size \in 0..MaxChunks : OnTtsAudio(piece, size)
      PROVE  TasksTyped'
  BY <1>6 DEF FailTts, OnTtsAudio, Synthesized
<1>7. CASE Close
  BY <1>7 DEF Close
<1>8. CASE Client \/ Speaker \/ Handler \/ DeliverNext \/ Tick \/ Elapse
  <2>1. UNCHANGED tasks
    BY <1>8
    DEF Client, ResponseCreateForTool, ResponseCreate, OnFunctionCallOutput, Speaker,
        OnSpeechStarted, OnSpeechStopped, OnTranscript, OnTranscriptionFailed, Handler,
        AnswerPending, SurfaceToolCall, DeliverNext, Tick, Elapse
  <2>. QED BY <1>1, <2>1
<1>9. ASSUME NEW t \in Turns, OnGenerateDelta(t) PROVE TasksTyped'
  BY <1>1, <1>9 DEF OnGenerateDelta
<1>. QED
  BY <1>2, <1>3, <1>4, <1>5, <1>6, <1>7, <1>8, <1>9 DEF Next, Response

(* The turn that is being handled is one of the session's.                  *)
LEMMA HeldTurn ==
  ASSUME F!FloorInv, TurnInv, F!MachineHolds PROVE turn \in Turns /\ legs \in 0..MaxLegs
<1>1. legs \in 0..MaxLegs
  BY DEF F!FloorInv, F!TypeOK
<1>. QED BY <1>1 DEF TurnInv

LEMMA NextKeepsHistoryTyped ==
  ASSUME F!FloorInv, CallInv, TypeInv, Next PROVE history' \in Seq(Message)
<1>1. history \in Seq(Message)
  BY DEF TypeInv, TypeOK, Message
<1>2. ASSUME NEW e, Written(e), e \in Message PROVE history' \in Seq(Message)
  BY <1>1, <1>2 DEF Written
<1>3. CASE NothingWritten \/ Close
  <2>1. history' \in {history, <<>>}
    BY <1>3 DEF NothingWritten, Close
  <2>2. <<>> \in Seq(Message)
    OBVIOUS
  <2>. QED BY <1>1, <2>1, <2>2
<1>4. CASE TurnTakenBack
  <2>1. history # <<>> /\ history' = SubSeq(history, 1, Len(history) - 1)
    BY <1>4 DEF TurnTakenBack, TakesBack, LastIsCommit
  <2>. QED BY <1>1, <2>1, LastDropped
<1>5. 0 \in 0..MaxLegs /\ NoWords \in SUBSET Utterances
  BY ConversationAssumption DEF NoWords
<1>6. CASE F!MachineHolds
  <2>1. turn \in Turns /\ legs \in 0..MaxLegs
    BY <1>6, HeldTurn DEF CallInv
  <2>2. CASE UserWritten
    <3>1. handler.words \in SUBSET Utterances /\ lastCommit \in SUBSET Utterances
      BY DEF TypeInv, TypeOK
    <3>2. ASSUME NEW words \in {handler.words, lastCommit}
          PROVE  Entry("user", turn, 0, words) \in Message
      BY <1>5, <2>1, <3>1 DEF Entry, Message, Roles
    <3>. QED BY <1>2, <2>2, <3>2 DEF UserWritten
  <2>3. CASE ReplyWritten
    <3>1. ASSUME NEW role \in {"reply", "heard"}
          PROVE  Entry(role, turn, 0, NoWords) \in Message
      BY <1>5, <2>1 DEF Entry, Message, Roles
    <3>. QED BY <1>2, <2>3, <3>1 DEF ReplyWritten
  <2>4. CASE CallWritten
    <3>1. Entry("call", turn, legs, NoWords) \in Message
      BY <1>5, <2>1 DEF Entry, Message, Roles
    <3>. QED BY <1>2, <2>4, <3>1 DEF CallWritten
  <2>5. CASE ResultWritten
    <3>1. toolCall.turn = turn /\ toolCall.leg \in 0..MaxLegs
      BY <2>5 DEF ResultWritten, TypeInv, TypeOK
    <3>2. ASSUME NEW role \in {"result", "cancelled"}
          PROVE  Entry(role, toolCall.turn, toolCall.leg, NoWords) \in Message
      BY <1>5, <2>1, <3>1 DEF Entry, Message, Roles
    <3>. QED BY <1>2, <2>5, <3>2 DEF ResultWritten
  <2>. QED BY <1>3, <1>4, <2>2, <2>3, <2>4, <2>5, NextWrites DEF HistoryMove
<1>7. CASE ~F!MachineHolds
  <2>1. ~(UserWritten \/ ReplyWritten \/ CallWritten \/ ResultWritten)
    BY <1>7
    DEF UserWritten, ReplyWritten, CallWritten, ResultWritten, F!MachineHolds, F!MachineHeld
  <2>. QED BY <1>3, <1>4, <2>1, NextWrites DEF HistoryMove
<1>. QED BY <1>6, <1>7

-----------------------------------------------------------------------------
LEMMA NextKeepsFinal ==
  ASSUME F!FloorInv, TypeInv, Next PROVE FinalInv'
<1>. SUFFICES ASSUME state' = "speaking", finalSeen' PROVE replyText' = turn'
  BY DEF FinalInv
<1>1. CASE ResponseCreateForTool \/ OnFunctionCallOutput \/ Close
  BY <1>1
  DEF ResponseCreateForTool, OnFunctionCallOutput, Close, F!OnToolResult, F!Unmoved, F!Close,
      F!Release, F!reply, TypeInv, FinalInv
<1>2. CASE Hears
  <2>1. PICK text : /\ \/ Plain /\ text = replyText
                       \/ Spoken /\ text = turn
                    /\ OnFloorEvent(text)
    BY <1>2 DEF Hears, Heed
  <2>2. event'.kind \notin Endings
    <3>1. Noted
      BY <2>1, HeededIsNoted DEF Heeded, Spoken
    <3>. QED
      BY <3>1 DEF Noted, Interrupted, Failed, Done, Called, Started, Spoke, Silent, Emitted,
         Quits, Endings
  <2>3. CASE event'.kind = "reply_text"
    <3>1. replyText' = event'.turn /\ event'.turn = turn /\ turn' = turn
      BY <2>1, <2>3, HeededIsNoted
      DEF OnFloorEvent, Endings, Heeded, Spoken, Noted, Interrupted, Failed, Done, Called,
          Started, Spoke, Silent, Emitted
    <3>. QED BY <3>1
  <2>4. CASE event'.kind # "reply_text"
    <3>1. replyText' = text
      BY <2>1, <2>2, <2>4 DEF OnFloorEvent
    <3>2. CASE Plain /\ text = replyText
      BY <2>4, <3>1, <3>2, PlainFinal DEF TypeInv, FinalInv
    <3>3. CASE Spoken /\ text = turn
      <4>1. Noted
        BY <3>3, HeededIsNoted DEF Heeded
      <4>2. turn' = turn
        BY <4>1 DEF Noted, Interrupted, Failed, Done, Called, Started, Spoke, Silent, Quits
      <4>. QED BY <3>1, <3>3, <4>2
    <3>. QED BY <2>1, <3>2, <3>3
  <2>. QED BY <2>3, <2>4
<1>3. CASE UserSpeaks \/ TurnTakenBack
  BY <1>3
  DEF UserSpeaks, TurnTakenBack, F!OnTranscript, F!OnContinuationOnset, F!Interrupt, F!Release
<1>4. CASE Unheard
  <2>1. state = "speaking" /\ finalSeen /\ turn' = turn
    BY <1>4 DEF Unheard, F!Unmoved, F!Elapse, F!DiscardReplySegments, F!reply
  <2>. QED BY <1>4, <2>1 DEF Unheard, TypeInv, FinalInv
<1>. QED BY <1>1, <1>2, <1>3, <1>4, NextIsBridged DEF Bridged

(* Once the client has left only time passes.                               *)
LEMMA GoneIsIdle ==
  ASSUME F!FloorInv, TypeInv, hearing = "gone", Next PROVE Elapse
<1>1. /\ state = "closed" /\ Idle /\ launched = {} /\ calls = {} /\ syntheses = {}
      /\ handler.kind = "none"
  BY DEF TypeInv, GoneIsOver, Idle, NoHandler
<1>2. armed = F!Unarmed
  BY <1>1 DEF F!FloorInv, F!DeadlineMatchesWait
<1>3. ~(Client \/ Speaker \/ Handler \/ Close)
  BY <1>1
  DEF Client, ResponseCreateForTool, ResponseCreate, OnFunctionCallOutput, Speaker,
      OnSpeechStarted, OnSpeechStopped, OnTranscript, OnTranscriptionFailed, Handler,
      AnswerPending, SurfaceToolCall, Close
<1>4. ~Response
  BY <1>1
  DEF Response, LaunchResponse, BeginResponse, OnGenerateResponse, FailGenerate,
      OnGenerateDelta, OnGenerateStreamEnd, AbandonStreamForToolCall, TakePendingSynthesis,
      TakePendingSegment, FailTts, OnTtsAudio, Synthesized
<1>5. ~(DeliverNext \/ Tick)
  BY <1>1, <1>2 DEF DeliverNext, Tick, F!DeliverNext, F!Deliverable, F!Tick
<1>. QED BY <1>3, <1>4, <1>5 DEF Next

LEMMA NextKeepsGone ==
  ASSUME F!FloorInv, TypeInv, Next PROVE GoneIsOver'
<1>1. CASE hearing = "gone"
  <2>1. Elapse
    BY <1>1, GoneIsIdle
  <2>2. UNCHANGED <<state, handler, hearing, history, launched, calls, syntheses>>
    BY <2>1 DEF Elapse, F!Elapse, F!Unmoved, F!reply, audio, tasks
  <2>. QED BY <2>2 DEF TypeInv, GoneIsOver, Idle
<1>2. CASE hearing # "gone"
  <2>1. CASE Close
    <3>1. /\ state' = "closed" /\ handler' = handler /\ history' = <<>> /\ Idle
          /\ launched' = {} /\ calls' = {} /\ syntheses' = {}
      BY <2>1 DEF Close, F!Close, F!Release
    <3>. QED BY <3>1 DEF GoneIsOver, Idle
  <2>2. CASE ~Close
    <3>1. hearing' # "gone"
      BY <1>2, <2>2, NextIsBridged
      DEF Bridged, Stays, ResponseCreateForTool, OnFunctionCallOutput, audio
    <3>. QED BY <3>1 DEF GoneIsOver
  <2>. QED BY <2>1, <2>2
<1>. QED BY <1>1, <1>2

LEMMA NextKeepsTypeInv ==
  ASSUME F!FloorInv, F!FloorInv', CallInv, TypeInv, hearing = "speech" => said > 0, Next
  PROVE  TypeInv' /\ (hearing = "speech" => said > 0)'
<1>1. BridgeTyped /\ HearingTyped /\ WorkTyped /\ TasksTyped
  BY TypeParts DEF TypeInv
<1>2. BridgeTyped' /\ HearingTyped' /\ WorkTyped' /\ TasksTyped' /\ (history \in Seq(Message))'
  BY <1>1, NextKeepsBridgeTyped, NextKeepsWorkTyped, NextKeepsTasksTyped,
     NextKeepsHistoryTyped DEF CallInv
<1>3. TypeOK' /\ RoomForReply' /\ (hearing = "speech" => said > 0)'
  BY <1>2 DEF TypeOK, BridgeTyped, HearingTyped, WorkTyped, TasksTyped, Message, Handling, Call
<1>. QED BY <1>3, NextKeepsFinal, NextKeepsGone DEF TypeInv

LEMMA TypeInvHolds == Spec => [](TypeInv /\ (hearing = "speech" => said > 0))
<1>1. Init => TypeInv /\ (hearing = "speech" => said > 0)
  <2>. SUFFICES ASSUME Init PROVE TypeInv /\ (hearing = "speech" => said > 0)
    OBVIOUS
  <2>1. 0 \in 0..MaxUtterances /\ 0 \in 0..MaxTurns /\ 0 \in 0..MaxLegs /\ Expired \in Nat
    BY ConversationAssumption DEF Expired
  <2>2. NoCall \in Call /\ NoHandler \in Handling
    BY <2>1 DEF NoCall, NoHandler, Call, Handling, NoWords
  <2>3. BridgeTyped
    <3>1. commitAge \in 0..Expired
      BY <2>1 DEF Init
    <3>2. handler \in Handling
      BY <2>2 DEF Init
    <3>. QED BY <2>1, <3>1, <3>2 DEF Init, BridgeTyped, NoWords
  <2>6. HearingTyped
    BY <2>1 DEF Init, HearingTyped, NoWords
  <2>4. WorkTyped /\ TasksTyped /\ history \in Seq(Message)
    BY <2>1, <2>2 DEF Init, WorkTyped, TasksTyped, RoomForReply
  <2>5. FinalInv /\ GoneIsOver
    BY DEF Init, F!Init, FinalInv, GoneIsOver
  <2>. QED BY <2>3, <2>4, <2>5, <2>6, TypeParts DEF TypeInv
<1>2. ASSUME F!FloorInv, F!FloorInv', CallInv, TypeInv, hearing = "speech" => said > 0,
             [Next]_vars
      PROVE  TypeInv' /\ (hearing = "speech" => said > 0)'
  <2>1. CASE UNCHANGED vars
    <3>1. UNCHANGED <<state, turn, finalSeen, streaming, optedIn, turnOpen, itemId, handler>>
          /\ UNCHANGED <<replyText, pendingResponse, pendingSynthesis, pendingSegments>>
          /\ UNCHANGED <<streamTurn, toolCall, pendingTranscript, pendingItem, commitAge>>
          /\ UNCHANGED <<commitText, continuing, history, hearing, said, carried, lastCommit>>
          /\ UNCHANGED <<launched, calls, syntheses>>
      BY <2>1 DEF vars, floorVars, work, pending, commit, audio, tasks
    <3>2. TypeOK'
      BY <1>2, <3>1 DEF TypeInv, TypeOK
    <3>3. FinalInv' /\ GoneIsOver' /\ RoomForReply'
      BY <1>2, <3>1 DEF TypeInv, FinalInv, GoneIsOver, RoomForReply, Idle
    <3>. QED BY <1>2, <3>1, <3>2, <3>3 DEF TypeInv
  <2>. QED BY <1>2, <2>1, NextKeepsTypeInv
<1>. QED BY <1>1, <1>2, FloorInvHolds, CallInvHolds, PTL DEF Spec

(* Every variable of a conversation keeps its range.                        *)
THEOREM TypeOKHolds == Spec => []TypeOK
<1>1. TypeInv => TypeOK
  BY DEF TypeInv
<1>. QED BY <1>1, TypeInvHolds, PTL

LEMMA HistoryInvHolds == Spec => []HistoryInv
<1>1. Init => HistoryInv
  <2>. SUFFICES ASSUME Init PROVE HistoryInv
    OBVIOUS
  <2>1. Entries = {} /\ ~Answering /\ ~AwaitingToolResult
    BY DEF Init, F!Init, Entries, Answering, AwaitingToolResult
  <2>. QED
    BY <2>1 DEF HistoryInv, TurnsGrow, UserIsFirst, ReplyIsLast, TurnIsOpen, CallIsLast,
       CallsAreAnswered
<1>2. ASSUME F!FloorInv, CallInv, TypeInv, HistoryInv, [Next]_vars PROVE HistoryInv'
  <2>1. CASE UNCHANGED vars
    <3>1. UNCHANGED <<state, turn, toolCall, history, hearing>>
      BY <2>1 DEF vars, floorVars, work, audio
    <3>. QED
      BY <1>2, <3>1 DEF HistoryInv, TurnsGrow, UserIsFirst, ReplyIsLast, TurnIsOpen, Last,
         CallIsLast, CallsAreAnswered, Entries, Answering, AwaitingToolResult, IsResult, SameCall
  <2>. QED BY <1>2, <2>1, NextKeepsHistoryInv
<1>. QED BY <1>1, <1>2, FloorInvHolds, CallInvHolds, TypeInvHolds, PTL DEF Spec

(* A backend accepts the history: each call is followed at once by its one  *)
(* result or cancellation (_close_outstanding_tool_call,                    *)
(* on_function_call_output, _request_tool_call).                            *)
THEOREM CallsAreAnsweredHolds == Spec => []CallsAreAnswered
<1>1. HistoryInv => CallsAreAnswered
  BY DEF HistoryInv
<1>. QED BY <1>1, HistoryInvHolds, PTL

(* The history reads as turns in order.                                     *)
LEMMA OrderIsOfTurns ==
  ASSUME history \in Seq(Message), HistoryInv PROVE TurnsInOrder
<1>1. Len(history) \in Nat /\ Entries = 1..Len(history)
      /\ \A i \in Entries : history[i].turn \in Nat
  <2>1. \A i \in Entries : history[i] \in Message
    BY DEF Entries
  <2>. QED BY <2>1 DEF Message, Turns, Entries
<1>2. \A i, j \in Entries : i < j => history[i].turn <= history[j].turn
  BY DEF HistoryInv, TurnsGrow
<1>3. ASSUME NEW i \in Entries
      PROVE  LET sameTurn == {j \in Entries : history[j].turn = history[i].turn}
             IN  /\ history[i].role = "user" <=> \A j \in sameTurn : i <= j
                 /\ history[i].role \in {"reply", "heard"} => \A j \in sameTurn : j <= i
  <2>. DEFINE sameTurn == {j \in Entries : history[j].turn = history[i].turn}
  <2>1. ASSUME history[i].role = "user", NEW j \in sameTurn PROVE i <= j
    <3>. SUFFICES ASSUME j < i PROVE FALSE
      BY <1>1
    <3>1. i - 1 \in Entries /\ (j < i - 1 \/ j = i - 1)
      BY <1>1
    <3>2. history[i - 1].turn < history[i].turn
      BY <1>1, <2>1, <3>1 DEF HistoryInv, UserIsFirst
    <3>3. history[j].turn <= history[i - 1].turn
      BY <1>1, <1>2, <3>1
    <3>. QED BY <1>1, <3>1, <3>2, <3>3
  <2>2. ASSUME \A j \in sameTurn : i <= j PROVE history[i].role = "user"
    <3>1. i - 1 \in Entries => history[i - 1].turn < history[i].turn
      <4>. SUFFICES ASSUME i - 1 \in Entries PROVE history[i - 1].turn < history[i].turn
        OBVIOUS
      <4>1. history[i - 1].turn <= history[i].turn /\ ~(i <= i - 1)
        BY <1>1, <1>2
      <4>. QED BY <1>1, <2>2, <4>1
    <3>. QED BY <1>1, <3>1 DEF HistoryInv, UserIsFirst
  <2>3. ASSUME history[i].role \in {"reply", "heard"}, NEW j \in sameTurn PROVE j <= i
    <3>. SUFFICES ASSUME i < j PROVE FALSE
      BY <1>1
    <3>1. i + 1 \in Entries /\ (i + 1 < j \/ i + 1 = j)
      BY <1>1
    <3>2. history[i].turn < history[i + 1].turn
      BY <1>1, <2>3, <3>1 DEF HistoryInv, ReplyIsLast
    <3>3. history[i + 1].turn <= history[j].turn
      BY <1>1, <1>2, <3>1
    <3>. QED BY <1>1, <3>1, <3>2, <3>3
  <2>. QED BY <2>1, <2>2, <2>3
<1>. QED BY <1>2, <1>3 DEF TurnsInOrder

(* The entries of a turn stand together, its user entry first and its reply *)
(* last, and the turns stand in the order in which they were taken          *)
(* (_record_interrupted_reply before the user entry of the next turn).      *)
THEOREM TurnsInOrderHolds == Spec => []TurnsInOrder
<1>1. TypeInv /\ HistoryInv => TurnsInOrder
  BY OrderIsOfTurns DEF TypeInv, TypeOK, Message
<1>. QED BY <1>1, TypeInvHolds, HistoryInvHolds, PTL

-----------------------------------------------------------------------------
(* The transcript a turn waits for.                                         *)

(* A turn waits for its words only while the receive loop transcribes them  *)
(* or a handler is about to hand them over.                                 *)
TranscriptInv ==
  /\ handler.kind = "answer" => state = "transcribing"
  /\ state = "transcribing" =>
       handler.kind = "answer" \/ (hearing = "transcribing" /\ turnOpen)

(* Every step of the floor but the one that opens a turn.                   *)
OpensNoTurn ==
  \/ F!OnSpeechStarted \/ F!OnContinuationOnset \/ F!DeliverNext \/ F!Tick \/ F!Unmoved
  \/ F!Elapse \/ F!Close
  \/ \E t, x : \/ F!OnTranscript(t, x) \/ F!OnReplyText(t) \/ F!OnReplySegment(t, x)
               \/ F!OnEmptyReply(t) \/ F!OnToolCall(t) \/ F!FailStage(x, t)
               \/ F!OnReplyEnd(t) \/ F!OnToolResult(t) \/ F!DiscardReplySegments(t)
  \/ \E t, i, size : F!OnAudioReady(t, i, size)

LEMMA NoTurnIsOpened ==
  ASSUME OpensNoTurn, state' = "transcribing" PROVE state = "transcribing"
<1>1. CASE F!OnSpeechStarted \/ F!OnContinuationOnset \/ F!DeliverNext \/ F!Tick \/ F!Unmoved
  BY <1>1 DEF F!OnSpeechStarted, F!OnContinuationOnset, F!DeliverNext, F!Tick, F!Unmoved,
     F!Interrupt, F!Complete, F!Fail, F!Release, F!reply
<1>2. CASE F!Elapse \/ F!Close
  BY <1>2 DEF F!Elapse, F!Close, F!Release, F!reply
<1>3. ASSUME NEW t, NEW x,
             \/ F!OnTranscript(t, x) \/ F!OnReplyText(t) \/ F!OnReplySegment(t, x)
             \/ F!OnEmptyReply(t) \/ F!OnToolCall(t) \/ F!FailStage(x, t)
      PROVE  state = "transcribing"
  BY <1>3 DEF F!OnTranscript, F!OnReplyText, F!OnReplySegment, F!AppendSegment,
     F!OnEmptyReply, F!OnToolCall, F!FailStage, F!Fail, F!Release
<1>4. ASSUME NEW t, F!OnReplyEnd(t) \/ F!OnToolResult(t) \/ F!DiscardReplySegments(t)
      PROVE  state = "transcribing"
  BY <1>4 DEF F!OnReplyEnd, F!OnToolResult, F!DiscardReplySegments, F!Complete, F!Release
<1>5. ASSUME NEW t, NEW i, NEW size, F!OnAudioReady(t, i, size)
      PROVE  state = "transcribing"
  BY <1>5 DEF F!OnAudioReady, F!Fail, F!Release
<1>. QED BY <1>1, <1>2, <1>3, <1>4, <1>5 DEF OpensNoTurn

LEMMA OnlyCommitsOpenTurns ==
  ASSUME Next, ~ResponseCreate, ~\E silence \in BOOLEAN : OnSpeechStopped(silence)
  PROVE  OpensNoTurn
<1>1. CASE ResponseCreateForTool \/ OnFunctionCallOutput \/ OnSpeechStarted
  BY <1>1 DEF ResponseCreateForTool, OnFunctionCallOutput, OnSpeechStarted, Ask, OpensNoTurn
<1>2. ASSUME NEW blank \in BOOLEAN, OnTranscript(blank) PROVE OpensNoTurn
  BY <1>2 DEF OnTranscript, Ask, OpensNoTurn
<1>3. CASE OnTranscriptionFailed \/ Handler
  BY <1>3 DEF OnTranscriptionFailed, Handler, AnswerPending, SurfaceToolCall, Ask, OpensNoTurn
<1>4. CASE LaunchResponse \/ TakePendingSynthesis \/ TakePendingSegment
  BY <1>4 DEF LaunchResponse, TakePendingSynthesis, TakePendingSegment, OpensNoTurn
<1>5. ASSUME NEW t \in Turns,
             \/ BeginResponse(t) \/ OnGenerateResponse(t) \/ FailGenerate(t)
             \/ OnGenerateDelta(t) \/ OnGenerateStreamEnd(t) \/ AbandonStreamForToolCall(t)
      PROVE  OpensNoTurn
  BY <1>5 DEF BeginResponse, OnGenerateResponse, FailGenerate, OnGenerateDelta,
     OnGenerateStreamEnd, AbandonStreamForToolCall, Ask, OpensNoTurn
<1>6. ASSUME NEW piece \in Piece,
             FailTts(piece) \/ \E size \in 0..MaxChunks : OnTtsAudio(piece, size)
      PROVE  OpensNoTurn
  BY <1>6 DEF FailTts, OnTtsAudio, Ask, OpensNoTurn
<1>7. CASE DeliverNext \/ Tick \/ Elapse \/ Close
  BY <1>7 DEF DeliverNext, Tick, Elapse, Close, OpensNoTurn
<1>. QED
  BY <1>1, <1>2, <1>3, <1>4, <1>5, <1>6, <1>7 DEF Next, Client, Speaker, Response

(* Most steps leave the hearing and the handler alone.                      *)
LEMMA HandlerIsAlone ==
  ASSUME ~Idle, Next PROVE Handler
BY DEF Next, Client, ResponseCreateForTool, ResponseCreate, OnFunctionCallOutput, Speaker,
   OnSpeechStarted, OnSpeechStopped, OnTranscript, OnTranscriptionFailed, Response,
   LaunchResponse, BeginResponse, OnGenerateResponse, FailGenerate, OnGenerateDelta,
   OnGenerateStreamEnd, AbandonStreamForToolCall, TakePendingSynthesis, TakePendingSegment,
   FailTts, OnTtsAudio, Synthesized, DeliverNext, Tick, Elapse, Close

(* A step that is none of the speaker's, of a trigger, of a handler or of   *)
(* the end of the session.                                                  *)
Elsewhere ==
  /\ UNCHANGED <<hearing, said, carried, lastCommit, turnOpen, pendingTranscript>>
  /\ UNCHANGED <<commitText, continuing>>
  /\ handler'.kind # "answer" /\ handler'.words = handler.words
  /\ commitAge' # Expired => commitAge # Expired

LEMMA RestIsElsewhere ==
  ASSUME Next, Idle, ~ResponseCreate, ~Speaker, ~Close
  PROVE  Elsewhere
<1>1. handler.kind = "none" /\ handler.words = NoWords
  BY DEF Idle, NoHandler
<1>2. CASE UNCHANGED surroundings
  BY <1>1, <1>2 DEF surroundings, pending, commit, audio, Elsewhere
<1>3. CASE ResponseCreateForTool \/ OnFunctionCallOutput
  BY <1>2, <1>3 DEF ResponseCreateForTool, OnFunctionCallOutput, surroundings
<1>4. CASE LaunchResponse \/ TakePendingSynthesis \/ TakePendingSegment \/ DeliverNext \/ Tick
  BY <1>2, <1>4 DEF LaunchResponse, TakePendingSynthesis, TakePendingSegment, DeliverNext, Tick
<1>5. ASSUME NEW t \in Turns,
             \/ BeginResponse(t) \/ OnGenerateResponse(t) \/ FailGenerate(t)
             \/ OnGenerateDelta(t) \/ OnGenerateStreamEnd(t)
      PROVE  Elsewhere
  BY <1>2, <1>5 DEF BeginResponse, OnGenerateResponse, FailGenerate, OnGenerateDelta,
     OnGenerateStreamEnd
<1>6. ASSUME NEW t \in Turns, AbandonStreamForToolCall(t) PROVE Elsewhere
  <2>1. handler' = [NoHandler EXCEPT !.kind = "surface"] /\ UNCHANGED <<turnOpen, pending>>
        /\ UNCHANGED <<commit, audio>>
    BY <1>6 DEF AbandonStreamForToolCall
  <2>2. handler'.kind = "surface" /\ handler'.words = NoWords
    BY <2>1 DEF NoHandler
  <2>. QED BY <1>1, <2>1, <2>2 DEF pending, commit, audio, Elsewhere
<1>7. ASSUME NEW piece \in Piece,
             FailTts(piece) \/ \E size \in 0..MaxChunks : OnTtsAudio(piece, size)
      PROVE  Elsewhere
  BY <1>2, <1>7 DEF FailTts, OnTtsAudio
<1>8. CASE Elapse
  <2>1. /\ UNCHANGED <<turnOpen, pending, commitText, continuing, handler, audio>>
        /\ commitAge < Expired \/ commitAge' = Expired
    BY <1>8 DEF Elapse
  <2>2. Expired \in Nat
    BY ConversationAssumption DEF Expired
  <2>3. commitAge' # Expired => commitAge # Expired
    BY <2>1, <2>2
  <2>. QED BY <1>1, <2>1, <2>3 DEF pending, audio, Elsewhere
<1>9. CASE Handler
  <2>1. handler.kind # "none"
    BY <1>9 DEF Handler, AnswerPending, SurfaceToolCall
  <2>. QED BY <1>1, <2>1
<1>. QED
  BY <1>3, <1>4, <1>5, <1>6, <1>7, <1>8, <1>9 DEF Next, Client, Response

LEMMA NextKeepsTranscriptInv ==
  ASSUME F!FloorInv, TranscriptInv, Next PROVE TranscriptInv'
<1>0. NoHandler.kind = "none" /\ (Idle => handler.kind = "none")
  BY DEF Idle, NoHandler
<1>1. CASE AnswerPending
  BY <1>0, <1>1 DEF AnswerPending, F!OnTranscript, TranscriptInv
<1>2. CASE ~Idle /\ ~AnswerPending
  <2>1. SurfaceToolCall
    BY <1>2, HandlerIsAlone DEF Handler
  <2>. QED BY <1>0, <2>1 DEF SurfaceToolCall, F!OnToolCall, TranscriptInv
<1>3. CASE Idle
  <2>1. handler.kind = "none"
    BY <1>0, <1>3
  <2>2. CASE ResponseCreate
    <3>1. CASE F!OnTurnCommitted /\ pendingTranscript # NoWords /\ ~Refused
      <4>1. state' = "transcribing"
        BY <3>1 DEF F!OnTurnCommitted, F!OpenTurn
      <4>2. handler'.kind = "answer"
        BY <2>2, <3>1 DEF ResponseCreate
      <4>. QED BY <4>1, <4>2 DEF TranscriptInv
    <3>2. CASE F!Unmoved /\ ~(pendingTranscript # NoWords /\ ~Refused)
      <4>1. handler' = NoHandler /\ state' = state /\ hearing \in {"quiet", "speech"}
        BY <2>2, <3>2 DEF ResponseCreate, F!Unmoved, F!reply
      <4>. QED BY <1>0, <2>1, <4>1 DEF TranscriptInv
    <3>. QED BY <2>2, <3>1, <3>2 DEF ResponseCreate, Ask
  <2>3. ASSUME NEW silence \in BOOLEAN, OnSpeechStopped(silence) PROVE TranscriptInv'
    <3>1. /\ hearing = "speech" /\ hearing' = "transcribing" /\ handler' = handler
          /\ turnOpen' = (optedIn /\ ~Refused)
      BY <2>3 DEF OnSpeechStopped
    <3>2. CASE F!OnTurnCommitted /\ optedIn /\ ~Refused
      <4>1. state' = "transcribing"
        BY <3>2 DEF F!OnTurnCommitted, F!OpenTurn
      <4>. QED BY <3>1, <3>2, <4>1 DEF TranscriptInv
    <3>3. CASE F!Unmoved
      BY <2>1, <3>1, <3>3 DEF F!Unmoved, TranscriptInv
    <3>. QED BY <2>3, <3>2, <3>3 DEF OnSpeechStopped, Ask
  <2>4. ASSUME NEW blank \in BOOLEAN, OnTranscript(blank) PROVE TranscriptInv'
    <3>1. /\ hearing = "transcribing" /\ handler' = handler
          /\ turnOpen => Ask(state = "transcribing", F!OnTranscript(turn, blank))
          /\ ~turnOpen => F!Unmoved
      BY <2>4 DEF OnTranscript
    <3>2. state' # "transcribing"
      BY <2>1, <3>1 DEF Ask, F!OnTranscript, F!Release, F!Unmoved, TranscriptInv
    <3>. QED BY <2>1, <3>1, <3>2 DEF TranscriptInv
  <2>5. CASE OnTranscriptionFailed
    <3>1. /\ hearing = "transcribing" /\ handler' = handler
          /\ Ask(turnOpen /\ armed = "transcribe", F!FailStage("transcribe", turn))
      BY <2>5 DEF OnTranscriptionFailed
    <3>2. state = "transcribing" => armed = "transcribe"
      BY DEF F!FloorInv, F!DeadlineMatchesWait
    <3>3. state' # "transcribing"
      BY <2>1, <3>1, <3>2 DEF Ask, F!FailStage, F!Fail, F!Release, F!Unmoved, TranscriptInv
    <3>. QED BY <2>1, <3>1, <3>3 DEF TranscriptInv
  <2>6. CASE OnSpeechStarted \/ Close
    <3>1. /\ hearing # "transcribing" /\ handler' = handler
      BY <2>6 DEF OnSpeechStarted, Close
    <3>2. ~ResponseCreate /\ ~\E silence \in BOOLEAN : OnSpeechStopped(silence)
      BY <2>6 DEF OnSpeechStarted, Close, ResponseCreate, OnSpeechStopped, audio
    <3>3. state' # "transcribing"
      BY <2>1, <3>1, <3>2, OnlyCommitsOpenTurns, NoTurnIsOpened DEF TranscriptInv
    <3>. QED BY <2>1, <3>1, <3>3 DEF TranscriptInv
  <2>7. CASE ~ResponseCreate /\ ~Speaker /\ ~Close
    <3>1. Elsewhere
      BY <1>3, <2>7, RestIsElsewhere
    <3>2. state' = "transcribing" => state = "transcribing"
      BY <2>7, OnlyCommitsOpenTurns, NoTurnIsOpened DEF Speaker
    <3>. QED BY <2>1, <3>1, <3>2 DEF Elsewhere, TranscriptInv
  <2>. QED BY <2>2, <2>3, <2>4, <2>5, <2>6, <2>7 DEF Speaker
<1>. QED BY <1>1, <1>2, <1>3

LEMMA TranscriptInvHolds == Spec => []TranscriptInv
<1>1. Init => TranscriptInv
  BY DEF Init, F!Init, NoHandler, TranscriptInv
<1>2. ASSUME F!FloorInv, TranscriptInv, [Next]_vars PROVE TranscriptInv'
  <2>1. CASE UNCHANGED vars
    BY <1>2, <2>1 DEF vars, floorVars, audio, TranscriptInv
  <2>. QED BY <1>2, <2>1, NextKeepsTranscriptInv
<1>. QED BY <1>1, <1>2, FloorInvHolds, PTL DEF Spec

-----------------------------------------------------------------------------
(* The commit that an onset may take back is the last audio, alone.         *)

CommitInv ==
  /\ hearing = "quiet" => commitText \in {NoWords, lastCommit}
  /\ hearing \in {"speech", "transcribing"} => commitText = NoWords
  /\ hearing \in {"quiet", "transcribing"} => carried = NoWords
  /\ hearing = "speech" /\ ~continuing => carried = NoWords
  /\ commitAge # Expired => \E u \in Utterances : lastCommit = {u}

LEMMA NextKeepsCommitInv ==
  ASSUME F!FloorInv, TypeInv, hearing = "speech" => said > 0, CommitInv, Next PROVE CommitInv'
<1>1. Expired' = Expired
  BY DEF Expired
<1>2. CASE OnSpeechStarted
  <2>1. /\ hearing' = "speech" /\ commitAge' = Expired /\ commitText' = NoWords
        /\ continuing' \/ carried' = NoWords
    BY <1>2 DEF OnSpeechStarted
  <2>. QED BY <1>1, <2>1 DEF CommitInv
<1>3. ASSUME NEW silence \in BOOLEAN, OnSpeechStopped(silence) PROVE CommitInv'
  <2>1. /\ hearing = "speech" /\ hearing' = "transcribing" /\ commitText' = NoWords
        /\ carried' = NoWords /\ lastCommit' = carried \cup {said}
        /\ continuing => commitAge' = Expired
    BY <1>3 DEF OnSpeechStopped
  <2>2. said \in Utterances
    BY <2>1, ConversationAssumption DEF TypeInv, TypeOK, Utterances
  <2>3. ~continuing => lastCommit' = {said}
    BY <2>1 DEF CommitInv, NoWords
  <2>. QED BY <1>1, <2>1, <2>2, <2>3 DEF CommitInv, Utterances
<1>4. ASSUME NEW blank \in BOOLEAN, OnTranscript(blank) PROVE CommitInv'
  <2>1. /\ hearing = "transcribing" /\ hearing' = "quiet"
        /\ UNCHANGED <<commitAge, carried, lastCommit>>
        /\ commitText' \in {lastCommit, commitText}
    BY <1>4 DEF OnTranscript
  <2>. QED BY <1>1, <2>1 DEF CommitInv, Utterances
<1>5. CASE OnTranscriptionFailed
  BY <1>1, <1>5 DEF OnTranscriptionFailed, commit, CommitInv, Utterances
<1>6. CASE ResponseCreate \/ Handler
  <2>1. UNCHANGED <<commitAge, commitText, continuing, hearing, carried, lastCommit>>
    BY <1>6 DEF ResponseCreate, Handler, AnswerPending, SurfaceToolCall, commit, audio
  <2>. QED BY <1>1, <2>1 DEF CommitInv, Utterances
<1>7. CASE Close
  <2>1. hearing' = "gone" /\ UNCHANGED <<commitAge, lastCommit>>
    BY <1>7 DEF Close, commit
  <2>. QED BY <1>1, <2>1 DEF CommitInv, Utterances
<1>8. CASE Idle /\ ~ResponseCreate /\ ~Speaker /\ ~Close
  <2>1. Elsewhere
    BY <1>8, RestIsElsewhere
  <2>. QED BY <1>1, <2>1 DEF Elsewhere, CommitInv, Utterances
<1>. QED BY <1>2, <1>3, <1>4, <1>5, <1>6, <1>7, <1>8, HandlerIsAlone DEF Speaker

LEMMA CommitInvHolds == Spec => []CommitInv
<1>1. Init => CommitInv
  BY DEF Init, CommitInv, NoWords
<1>2. ASSUME F!FloorInv, TypeInv, hearing = "speech" => said > 0, CommitInv, [Next]_vars
      PROVE  CommitInv'
  <2>1. CASE UNCHANGED vars
    BY <1>2, <2>1 DEF vars, commit, audio, CommitInv, Expired, Utterances
  <2>. QED BY <1>2, <2>1, NextKeepsCommitInv
<1>. QED BY <1>1, <1>2, FloorInvHolds, TypeInvHolds, PTL DEF Spec

-----------------------------------------------------------------------------
(* What has been said, and not been answered yet.                           *)

Unanswered ==
  CASE hearing = "speech" -> carried \cup {said}
    [] hearing = "transcribing" -> lastCommit
    [] OTHER -> NoWords
Waiting == pendingTranscript \cup handler.words \cup Unanswered

(* What is in two places is answered twice.                                 *)
WordsApart ==
  /\ pendingTranscript \cap handler.words = {}
  /\ pendingTranscript \cap Unanswered = {}
  /\ handler.words \cap Unanswered = {}

WordsInv ==
  /\ Waiting \subseteq 1..said
  /\ \A i \in Entries : history[i].words \subseteq 1..said
  /\ \A i, j \in Entries : i # j => history[i].words \cap history[j].words = {}
  /\ \A i \in Entries : history[i].words \cap Waiting = {}
  /\ WordsApart

(* A step that puts no words into the history ...                           *)
NoWordsAdded ==
  \A i \in Entries' :
    \/ i \in Entries /\ history'[i].words = history[i].words
    \/ history'[i].words = {}

LEMMA QuietHistory ==
  ASSUME TypeInv, HistoryMove, ~UserWritten PROVE NoWordsAdded
<1>1. history \in Seq(Message)
  BY DEF TypeInv, TypeOK, Message
<1>2. ASSUME NEW e, Written(e), e.words = {} PROVE NoWordsAdded
  BY <1>1, <1>2, WrittenEntries DEF NoWordsAdded, Last
<1>3. CASE NothingWritten
  BY <1>3 DEF NothingWritten, NoWordsAdded, Entries
<1>4. CASE Close
  BY <1>4 DEF Close, NoWordsAdded, Entries
<1>5. CASE ReplyWritten \/ CallWritten \/ ResultWritten
  <2>1. \E role, t, leg : Written(Entry(role, t, leg, NoWords))
    BY <1>5 DEF ReplyWritten, CallWritten, ResultWritten
  <2>. QED BY <1>2, <2>1 DEF Entry, NoWords
<1>6. CASE TurnTakenBack
  <2>1. history # <<>> /\ history' = SubSeq(history, 1, Len(history) - 1)
    BY <1>6 DEF TurnTakenBack, TakesBack, LastIsCommit
  <2>2. /\ Len(history') = Len(history) - 1 /\ history' \in Seq(Message)
        /\ Len(history) \in Nat /\ \A i \in 1..Len(history') : history'[i] = history[i]
    BY <1>1, <2>1, LastDropped
  <2>3. Entries' = 1..Len(history') /\ Entries = 1..Len(history)
    BY <1>1, <2>2 DEF Entries
  <2>. QED BY <2>2, <2>3 DEF NoWordsAdded
<1>. QED BY <1>3, <1>4, <1>5, <1>6 DEF HistoryMove

LEMMA HeardIsQuiet ==
  ASSUME F!FloorInv, CallInv, TypeInv, Hears PROVE NoWordsAdded
<1>1. PICK text : /\ Spoken
                  /\ Heed(text, <<>>)
  BY DEF Hears, Spoken
<1>2. ~UserWritten
  BY <1>1, HeededIsNoted, SpokenIsNotStarted
  DEF UserWritten, Heeded, Noted, Interrupted, Failed, Done, Called, Started, Spoke, Silent,
      Emitted, Quits, Answers
<1>. QED BY <1>2, HeardIsWritten, QuietHistory

LEMMA RestIsQuiet ==
  ASSUME F!FloorInv, CallInv, TypeInv, Next, ~AnswerPending,
         ~\E blank \in BOOLEAN : OnTranscript(blank)
  PROVE  NoWordsAdded
<1>1. CASE ResponseCreateForTool \/ OnFunctionCallOutput
  <2>1. state # "transcribing" \/ state' = state
    BY <1>1 DEF ResponseCreateForTool, OnFunctionCallOutput, F!OnToolResult, F!Accepts, F!Unmoved
  <2>. QED BY <2>1, NextWrites, QuietHistory DEF UserWritten
<1>2. CASE Close \/ TurnTakenBack
  BY <1>2, QuietHistory
  DEF HistoryMove, UserWritten, Close, TurnTakenBack, F!Close, F!OnContinuationOnset,
      F!Interrupt, F!Release
<1>3. CASE Unheard
  BY <1>3 DEF Unheard, NoWordsAdded, Entries
<1>. QED
  BY <1>1, <1>2, <1>3, HeardIsQuiet, NextIsBridged DEF Bridged, UserSpeaks

(* ... only moves words that wait about.                                    *)
LEMMA QuietKeepsWords ==
  ASSUME WordsInv, NoWordsAdded, said' = said, Waiting' \subseteq Waiting, WordsApart'
  PROVE  WordsInv'
<1>1. \A i \in Entries' :
       history'[i].words \subseteq 1..said' /\ history'[i].words \cap Waiting' = {}
  BY DEF WordsInv, NoWordsAdded
<1>2. \A i, j \in Entries' : i # j => history'[i].words \cap history'[j].words = {}
  BY DEF WordsInv, NoWordsAdded
<1>. QED BY <1>1, <1>2 DEF WordsInv

(* Words that are answered wait no longer.                                  *)
LEMMA AnsweringKeepsWords ==
  ASSUME history \in Seq(Message), WordsInv, said' = said, NEW e, Written(e),
         e.words \subseteq Waiting, Waiting' \subseteq Waiting, Waiting' \cap e.words = {},
         WordsApart'
  PROVE  WordsInv'
<1>1. \A i \in Entries' :
        (i \in Entries /\ history'[i].words = history[i].words) \/ history'[i] = e
  BY WrittenEntries DEF Last
<1>2. \A i \in Entries' : i \notin Entries => i = Len(history) + 1
  BY WrittenEntries
<1>3. \A i \in Entries' : i \in Entries => history'[i].words = history[i].words
  BY WrittenEntries
<1>4. \A i \in Entries' : i \notin Entries => history'[i] = e
  BY <1>1
<1>5. \A i \in Entries' :
       history'[i].words \subseteq 1..said' /\ history'[i].words \cap Waiting' = {}
  BY <1>3, <1>4 DEF WordsInv
<1>6. ASSUME NEW i \in Entries', NEW j \in Entries', i # j
      PROVE  history'[i].words \cap history'[j].words = {}
  BY <1>2, <1>3, <1>4, <1>6 DEF WordsInv
<1>. QED BY <1>5, <1>6 DEF WordsInv

(* A new utterance is in no place yet, and the words that are taken back    *)
(* leave the history for the next commit.                                   *)
LEMMA OnsetKeepsWords ==
  ASSUME F!FloorInv, CallInv, TypeInv, CommitInv, WordsInv, OnSpeechStarted PROVE WordsInv'
<1>1. /\ Idle /\ hearing = "quiet" /\ hearing' = "speech" /\ said' = said + 1
      /\ UNCHANGED <<pendingTranscript, handler>>
  BY DEF OnSpeechStarted, pending
<1>2. said \in Nat /\ 1..said \subseteq 1..said' /\ said' \notin 1..said
  BY <1>1, ConversationAssumption DEF TypeInv, TypeOK
<1>3. Unanswered = {} /\ Unanswered' = carried' \cup {said'}
  BY <1>1 DEF Unanswered, NoWords
<1>4. said' \in 1..said'
  BY <1>1, <1>2
<1>5. CASE ~TakesBack
  <2>1. Hears /\ carried' = {}
    BY <1>5, PlainIsHeard DEF OnSpeechStarted, Ask, Plain, NoWords
  <2>2. NoWordsAdded
    BY <2>1, HeardIsQuiet
  <2>3. Unanswered' = {said'}
    BY <1>3, <2>1
  <2>4. Waiting' = Waiting \cup {said'} /\ WordsApart'
    BY <1>1, <1>2, <1>3, <2>3 DEF Waiting, WordsInv, WordsApart
  <2>5. \A i \in Entries' :
         history'[i].words \subseteq 1..said /\ history'[i].words \cap Waiting = {}
    BY <2>2 DEF WordsInv, NoWordsAdded
  <2>6. \A i, j \in Entries' : i # j => history'[i].words \cap history'[j].words = {}
    BY <2>2 DEF WordsInv, NoWordsAdded
  <2>. QED BY <1>2, <1>4, <2>4, <2>5, <2>6 DEF WordsInv
<1>6. CASE TakesBack
  <2>1. /\ history # <<>> /\ Last.words = commitText /\ commitText # NoWords
        /\ history' = SubSeq(history, 1, Len(history) - 1) /\ carried' = lastCommit
    BY <1>6 DEF OnSpeechStarted, TakesBack, LastIsCommit, Last
  <2>2. Last.words = carried'
    BY <1>1, <2>1 DEF CommitInv
  <2>3. history \in Seq(Message)
    BY DEF TypeInv, TypeOK, Message
  <2>4. /\ Len(history) \in Nat /\ Len(history) >= 1 /\ Len(history') = Len(history) - 1
        /\ history' \in Seq(Message) /\ \A i \in 1..Len(history') : history'[i] = history[i]
    BY <2>1, <2>3, LastDropped
  <2>5. Entries = 1..Len(history) /\ Entries' = 1..Len(history')
    BY <2>3, <2>4 DEF Entries
  <2>6. Len(history) \in Entries /\ Entries' \subseteq Entries /\ Len(history) \notin Entries'
        /\ \A i \in Entries' : history'[i] = history[i]
    BY <2>4, <2>5
  <2>7. carried' \subseteq 1..said /\ carried' \cap Waiting = {}
        /\ \A i \in Entries' : history[i].words \cap carried' = {}
    BY <2>2, <2>6 DEF WordsInv, Last
  <2>8. Waiting' = Waiting \cup carried' \cup {said'}
    BY <1>1, <1>3 DEF Waiting
  <2>9. WordsApart'
    BY <1>1, <1>2, <1>3, <2>7 DEF Waiting, WordsInv, WordsApart
  <2>10. \A i \in Entries' :
         history'[i].words \subseteq 1..said /\ history'[i].words \cap Waiting = {}
    BY <2>6 DEF WordsInv
  <2>11. \A i, j \in Entries' : i # j => history'[i].words \cap history'[j].words = {}
    BY <2>6 DEF WordsInv
  <2>12. Waiting' \subseteq 1..said' /\ \A i \in Entries' : history'[i].words \subseteq 1..said'
    BY <1>2, <1>4, <2>7, <2>8, <2>10 DEF WordsInv
  <2>13. \A i \in Entries' : history'[i].words \cap Waiting' = {}
    BY <1>2, <2>6, <2>7, <2>8, <2>10
  <2>. QED BY <2>9, <2>11, <2>12, <2>13 DEF WordsInv
<1>. QED BY <1>5, <1>6

LEMMA TranscriptKeepsWords ==
  ASSUME F!FloorInv, CallInv, TypeInv, WordsInv, NEW blank \in BOOLEAN, OnTranscript(blank)
  PROVE  WordsInv'
<1>1. /\ Idle /\ hearing = "transcribing" /\ hearing' = "quiet" /\ said' = said
      /\ handler' = handler
  BY DEF OnTranscript
<1>2. handler.words = {} /\ Unanswered = lastCommit /\ Unanswered' = {}
  BY <1>1 DEF Idle, NoHandler, NoWords, Unanswered
<1>3. CASE turnOpen /\ state = "transcribing" /\ ~blank
  <2>1. UserSpeaks
    <3>1. F!OnTranscript(turn, FALSE) /\ Heed(replyText, <<Entry("user", turn, 0, lastCommit)>>)
      BY <1>3 DEF OnTranscript, Ask
    <3>. QED BY <1>3, <3>1 DEF UserSpeaks
  <2>2. Written(Entry("user", turn, 0, lastCommit))
    <3>1. history' = history \o Recorded(replyText) \o <<Entry("user", turn, 0, lastCommit)>>
      BY <1>3 DEF OnTranscript, Heed
    <3>2. event'.kind = "started"
      BY <1>3 DEF OnTranscript, Ask, F!OnTranscript, F!Event
    <3>3. Recorded(replyText) = <<>> /\ history \in Seq(Message)
      BY <3>2 DEF Recorded, TypeInv, TypeOK, Message
    <3>. QED BY <3>1, <3>3, Joined DEF Written
  <2>3. pendingTranscript' = pendingTranscript
    BY <1>3 DEF OnTranscript, pending
  <2>4. Entry("user", turn, 0, lastCommit).words = lastCommit /\ history \in Seq(Message)
    BY DEF Entry, TypeInv, TypeOK, Message
  <2>5. /\ lastCommit \subseteq Waiting /\ Waiting' \subseteq Waiting
        /\ Waiting' \cap lastCommit = {} /\ WordsApart'
    BY <1>1, <1>2, <2>3 DEF Waiting, WordsApart, WordsInv
  <2>. QED BY <1>1, <2>2, <2>4, <2>5, AnsweringKeepsWords
<1>4. CASE turnOpen /\ ~(state = "transcribing" /\ ~blank)
  <2>1. Hears /\ pendingTranscript' = pendingTranscript
    BY <1>4, PlainIsHeard DEF OnTranscript, Ask, Plain, pending
  <2>2. Waiting' \subseteq Waiting /\ WordsApart'
    BY <1>1, <1>2, <2>1 DEF Waiting, WordsApart, WordsInv
  <2>. QED BY <1>1, <2>1, <2>2, HeardIsQuiet, QuietKeepsWords
<1>5. CASE ~turnOpen
  <2>1. history' = history /\ pendingTranscript' \in {pendingTranscript, lastCommit}
    BY <1>5 DEF OnTranscript, pending
  <2>2. NoWordsAdded
    BY <2>1 DEF NoWordsAdded, Entries
  <2>3. Waiting' \subseteq Waiting /\ WordsApart'
    BY <1>1, <1>2, <2>1 DEF Waiting, WordsApart, WordsInv
  <2>. QED BY <1>1, <2>2, <2>3, QuietKeepsWords
<1>. QED BY <1>3, <1>4, <1>5

LEMMA HandingOverKeepsWords ==
  ASSUME TypeInv, WordsInv, AnswerPending PROVE WordsInv'
<1>1. /\ handler' = NoHandler /\ said' = said /\ UNCHANGED <<pendingTranscript, audio>>
      /\ F!OnTranscript(turn, FALSE)
      /\ Heed(replyText, <<Entry("user", turn, 0, handler.words)>>)
  BY DEF AnswerPending, pending, audio
<1>2. Recorded(replyText) = <<>>
  BY <1>1 DEF F!OnTranscript, F!Event, Recorded
<1>3. history \in Seq(Message)
  BY DEF TypeInv, TypeOK, Message
<1>4. Written(Entry("user", turn, 0, handler.words))
  BY <1>1, <1>2, <1>3, Joined DEF Heed, Written
<1>5. handler'.words = {} /\ Unanswered' = Unanswered
  BY <1>1 DEF NoHandler, NoWords, audio, Unanswered
<1>6. Entry("user", turn, 0, handler.words).words = handler.words
  BY DEF Entry
<1>7. /\ handler.words \subseteq Waiting /\ Waiting' \subseteq Waiting
      /\ Waiting' \cap handler.words = {} /\ WordsApart'
  BY <1>1, <1>5 DEF Waiting, WordsApart, WordsInv
<1>. QED BY <1>1, <1>3, <1>4, <1>6, <1>7, AnsweringKeepsWords

LEMMA NextKeepsWordsInv ==
  ASSUME F!FloorInv, CallInv, TypeInv, CommitInv, WordsInv, Next PROVE WordsInv'
<1>1. CASE OnSpeechStarted
  BY <1>1, OnsetKeepsWords
<1>2. ASSUME NEW blank \in BOOLEAN, OnTranscript(blank) PROVE WordsInv'
  BY <1>2, TranscriptKeepsWords
<1>3. CASE AnswerPending
  BY <1>3, HandingOverKeepsWords
<1>4. ASSUME ~OnSpeechStarted, ~AnswerPending, ~\E blank \in BOOLEAN : OnTranscript(blank)
      PROVE  WordsInv'
  <2>1. NoWordsAdded
    BY <1>4, RestIsQuiet
  <2>2. said' = said /\ Waiting' \subseteq Waiting /\ WordsApart'
    <3>1. ASSUME NEW silence \in BOOLEAN, OnSpeechStopped(silence)
          PROVE  said' = said /\ Waiting' \subseteq Waiting /\ WordsApart'
      <4>1. /\ hearing = "speech" /\ hearing' = "transcribing" /\ said' = said
            /\ lastCommit' = carried \cup {said} /\ UNCHANGED <<pendingTranscript, handler>>
        BY <3>1 DEF OnSpeechStopped, pending
      <4>2. Unanswered' = Unanswered
        BY <4>1 DEF Unanswered
      <4>. QED BY <4>1, <4>2 DEF Waiting, WordsInv, WordsApart
    <3>2. CASE OnTranscriptionFailed \/ Close
      <4>1. /\ hearing' \in {"quiet", "gone"} /\ said' = said
            /\ UNCHANGED <<pendingTranscript, handler>>
        BY <3>2 DEF OnTranscriptionFailed, Close, pending
      <4>2. Unanswered' = {}
        BY <4>1 DEF Unanswered, NoWords
      <4>. QED BY <4>1, <4>2 DEF Waiting, WordsInv, WordsApart
    <3>3. CASE ResponseCreate
      <4>1. /\ Idle /\ pendingTranscript' = NoWords
            /\ handler' \in {NoHandler, [kind |-> "answer", words |-> pendingTranscript,
                                         item |-> pendingItem]}
            /\ UNCHANGED audio
        BY <3>3 DEF ResponseCreate
      <4>2. /\ pendingTranscript' = {} /\ handler.words = {} /\ said' = said
            /\ handler'.words \subseteq pendingTranscript /\ Unanswered' = Unanswered
        BY <4>1 DEF Idle, NoHandler, NoWords, audio, Unanswered
      <4>. QED BY <4>2 DEF Waiting, WordsInv, WordsApart
    <3>4. CASE SurfaceToolCall
      <4>1. handler' = NoHandler /\ UNCHANGED <<pendingTranscript, audio>>
        BY <3>4 DEF SurfaceToolCall, pending
      <4>2. handler'.words = {} /\ said' = said /\ Unanswered' = Unanswered
        BY <4>1 DEF NoHandler, NoWords, audio, Unanswered
      <4>. QED BY <4>1, <4>2 DEF Waiting, WordsInv, WordsApart
    <3>5. CASE Idle /\ ~ResponseCreate /\ ~Speaker /\ ~Close
      <4>1. Elsewhere
        BY <3>5, RestIsElsewhere
      <4>2. Unanswered' = Unanswered
        BY <4>1 DEF Elsewhere, Unanswered
      <4>. QED BY <4>1, <4>2 DEF Elsewhere, Waiting, WordsInv, WordsApart
    <3>. QED
      BY <1>4, <3>1, <3>2, <3>3, <3>4, <3>5, HandlerIsAlone DEF Speaker, Handler
  <2>. QED BY <2>1, <2>2, QuietKeepsWords
<1>. QED BY <1>1, <1>2, <1>3, <1>4

LEMMA WordsInvHolds == Spec => []WordsInv
<1>1. Init => WordsInv
  <2>. SUFFICES ASSUME Init PROVE WordsInv
    OBVIOUS
  <2>1. Entries = {} /\ pendingTranscript = {} /\ handler.words = {} /\ Unanswered = {}
    BY DEF Init, Entries, NoHandler, NoWords, Unanswered
  <2>. QED BY <2>1 DEF WordsInv, Waiting, WordsApart
<1>2. ASSUME F!FloorInv, CallInv, TypeInv, CommitInv, WordsInv, [Next]_vars PROVE WordsInv'
  <2>1. CASE UNCHANGED vars
    <3>1. UNCHANGED <<history, said, pendingTranscript, handler, hearing, carried, lastCommit>>
      BY <2>1 DEF vars, pending, audio
    <3>2. Unanswered' = Unanswered /\ Entries' = Entries
      BY <3>1 DEF Unanswered, Entries
    <3>. QED BY <1>2, <3>1, <3>2 DEF WordsInv, Waiting, WordsApart
  <2>. QED BY <1>2, <2>1, NextKeepsWordsInv
<1>. QED BY <1>1, <1>2, FloorInvHolds, CallInvHolds, TypeInvHolds, CommitInvHolds, PTL DEF Spec

(* No utterance is answered twice (arm, _take_back_early_commit).           *)
THEOREM AnsweredOnceHolds == Spec => []AnsweredOnce
<1>1. WordsInv => AnsweredOnce
  BY DEF WordsInv, AnsweredOnce, Waiting, NoWords
<1>. QED BY <1>1, WordsInvHolds, PTL

(* The history only loses an entry when a turn is taken back.               *)
LEMMA OnlyTakingBackShrinks ==
  ASSUME TypeInv, HistoryMove
  PROVE  \/ TurnTakenBack
         \/ Close
         \/ Len(history') >= Len(history) /\ \A i \in 1..Len(history) : history'[i] = history[i]
<1>1. history \in Seq(Message)
  BY DEF TypeInv, TypeOK, Message
<1>2. CASE NothingWritten
  BY <1>1, <1>2 DEF NothingWritten
<1>3. ASSUME NEW e, Written(e)
      PROVE  Len(history') >= Len(history) /\ \A i \in 1..Len(history) : history'[i] = history[i]
  BY <1>1, <1>3, WrittenEntries
<1>. QED
  BY <1>2, <1>3 DEF HistoryMove, UserWritten, ReplyWritten, CallWritten, ResultWritten

(* What is taken back is the commit of the last audio, and the words of the *)
(* turn that has not been answered.                                         *)
LEMMA TakenBackIsTheCommit ==
  ASSUME TypeInv, HistoryInv, TranscriptInv, CommitInv, TurnTakenBack
  PROVE  /\ Len(history') = Len(history) - 1 /\ Len(history) \in Nat
         /\ \A i \in 1..Len(history') : history'[i] = history[i]
         /\ Last.role = "user" /\ Last.turn = turn
         /\ Last.words = carried'
         /\ \E u \in Utterances : Last.words = {u}
<1>1. /\ Idle /\ hearing = "quiet" /\ history # <<>> /\ Last.role = "user"
      /\ Last.words = commitText /\ commitText # NoWords /\ commitAge <= Continuation
      /\ F!MachineHolds /\ state # "tool_wait" /\ carried' = lastCommit
      /\ history' = SubSeq(history, 1, Len(history) - 1)
  BY DEF TurnTakenBack, OnSpeechStarted, TakesBack, LastIsCommit, Last
<1>2. history \in Seq(Message)
  BY DEF TypeInv, TypeOK, Message
<1>3. Answering
  BY <1>1 DEF TranscriptInv, Idle, NoHandler, F!MachineHolds, F!MachineHeld, Answering
<1>4. Last.turn = turn
  BY <1>3 DEF HistoryInv, TurnIsOpen
<1>5. Last.words = lastCommit
  BY <1>1 DEF CommitInv
<1>6. commitAge # Expired
  BY <1>1, ConversationAssumption DEF Expired
<1>7. \E u \in Utterances : lastCommit = {u}
  BY <1>6 DEF CommitInv
<1>8. Len(history') = Len(history) - 1 /\ Len(history) \in Nat
      /\ \A i \in 1..Len(history') : history'[i] = history[i]
  BY <1>1, <1>2, LastDropped
<1>. QED BY <1>1, <1>4, <1>5, <1>7, <1>8

LEMMA NextTakesBack ==
  ASSUME F!FloorInv, CallInv, TypeInv, HistoryInv, TranscriptInv, CommitInv, [Next]_vars
  PROVE  LET kept == Len(history')
         IN  /\ \A i \in 1..(IF Shrinks THEN kept ELSE Len(history)) :
                  hearing' # "gone" => history'[i] = history[i]
             /\ Shrinks =>
                  /\ kept = Len(history) - 1
                  /\ history[Len(history)].role = "user"
                  /\ history[Len(history)].turn = turn
                  /\ history[Len(history)].words \subseteq carried'
                  /\ \E u \in Utterances : history[Len(history)].words = {u}
<1>0. Len(history) \in Nat
  BY DEF TypeInv, TypeOK
<1>1. CASE UNCHANGED vars
  BY <1>0, <1>1 DEF vars, Shrinks
<1>2. CASE TurnTakenBack
  BY <1>2, TakenBackIsTheCommit DEF Shrinks, Last
<1>3. CASE Close
  BY <1>3 DEF Close, Shrinks
<1>4. CASE Len(history') >= Len(history) /\ \A i \in 1..Len(history) : history'[i] = history[i]
  <2>1. ~Shrinks
    BY <1>0, <1>4 DEF Shrinks
  <2>. QED BY <1>4, <2>1
<1>. QED BY <1>1, <1>2, <1>3, <1>4, NextWrites, OnlyTakingBackShrinks

(* Taking a turn back is exact, and nothing else ever leaves the history    *)
(* (_take_back_early_commit, _emit_turn_events).                            *)
THEOREM TakeBackIsExactHolds == Spec => TakeBackIsExact
<1>. QED
  BY NextTakesBack, FloorInvHolds, CallInvHolds, TypeInvHolds, HistoryInvHolds,
     TranscriptInvHolds, CommitInvHolds, PTL DEF Spec, TakeBackIsExact

(* A merged turn is final (on_speech_stopped, _continuing).                 *)
THEOREM MergedTurnIsFinalHolds == Spec => MergedTurnIsFinal
<1>. QED
  BY NextTakesBack, FloorInvHolds, CallInvHolds, TypeInvHolds, HistoryInvHolds,
     TranscriptInvHolds, CommitInvHolds, PTL DEF Spec, MergedTurnIsFinal

-----------------------------------------------------------------------------
(* The work of a turn.                                                      *)

(* The response of the turn is in one place: set, launched or asked for.    *)
Alone ==
  \/ pendingResponse = turn /\ turn \notin launched /\ turn \notin calls
  \/ pendingResponse = 0 /\ turn \in launched /\ turn \notin calls
  \/ pendingResponse = 0 /\ turn \notin launched /\ turn \in calls

ResponseInv ==
  /\ \A t \in launched \cup calls : t <= turn
  /\ state \in {"tool_wait", "transcribing"} => turn \notin launched \cup calls
  /\ state = "speaking" => turn \notin launched
  /\ handler.kind = "surface" =>
       state = "responding" /\ pendingResponse = 0 /\ turn \notin launched \cup calls
  /\ (state = "responding" /\ handler.kind # "surface") => Alone

(* A reply that is not final has its stream, a whole reply none.            *)
StreamInv ==
  /\ streamTurn # 0 => (hearing # "gone" => Answering)
  /\ (streaming /\ Answers /\ turn \in calls) => streamTurn = turn
  /\ (~streaming /\ state = "speaking") => finalSeen
  /\ (state = "speaking" /\ ~finalSeen) => turn \in calls

SpeechInv ==
  /\ streaming => pendingSynthesis = 0
  /\ (pendingSynthesis # 0 /\ hearing # "gone") => Len(segments) = 1
  /\ state = "speaking" => \A i \in DOMAIN segments : ~F!HasAudio(segments[i]) => Awaited(i)

WorkInv == ResponseInv /\ StreamInv /\ SpeechInv /\ WorkIsCurrent

(* The turn is over, or goes on as it was.                                  *)
Ends ==
  /\ (turn' = turn /\ state' = "listening") \/ (turn' = turn + 1 /\ state' = "transcribing")
  /\ replyText' = 0 /\ pendingResponse' = 0 /\ pendingSynthesis' = 0
  /\ pendingSegments' = <<>> /\ streamTurn' = 0

GoesOn ==
  /\ UNCHANGED <<state, turn, finalSeen>>
  /\ DOMAIN segments' = DOMAIN segments
  /\ Len(segments') = Len(segments)
  /\ \A i \in DOMAIN segments : F!HasAudio(segments[i]) => F!HasAudio(segments'[i])
  /\ UNCHANGED <<replyText, pendingResponse, pendingSynthesis, pendingSegments, streamTurn>>

(* The steps of the floor that say nothing new for a turn.                  *)
Passing ==
  \/ F!OnSpeechStarted \/ F!OnContinuationOnset \/ F!OnTurnCommitted
  \/ F!DeliverNext \/ F!Tick \/ F!Unmoved
  \/ \E t, x : \/ F!OnTranscript(t, TRUE) \/ F!OnEmptyReply(t)
               \/ x # F!Unarmed /\ F!FailStage(x, t)
  \/ \E t, i, size : F!OnAudioReady(t, i, size)

LEMMA PassingIsPlain == ASSUME Passing PROVE Plain
BY DEF Passing, Plain

(* A step of the floor that does not end the turn keeps its sentences.      *)
LEMMA PassingKeepsSegments ==
  ASSUME F!FloorInv, Passing, UNCHANGED <<state, turn>>, event'.kind \in {"none", "audio"}
  PROVE  /\ finalSeen' = finalSeen
         /\ DOMAIN segments' = DOMAIN segments /\ Len(segments') = Len(segments)
         /\ \A i \in DOMAIN segments : F!HasAudio(segments[i]) => F!HasAudio(segments'[i])
<1>0. segments \in Seq(F!Segment) /\ current \in Nat /\ turn \in Nat
      /\ (state \notin {"speaking"} => segments = <<>> /\ finalSeen = FALSE)
  BY ConversationAssumption DEF F!FloorInv, F!TypeOK, F!ReplyOnlyWhileSpeaking
<1>1. CASE F!Unmoved
  BY <1>1 DEF F!Unmoved, F!reply
<1>2. CASE F!OnSpeechStarted \/ F!OnContinuationOnset \/ F!Tick
  BY <1>2 DEF F!OnSpeechStarted, F!OnContinuationOnset, F!Tick, F!Interrupt, F!Fail, F!Event
<1>3. CASE F!OnTurnCommitted
  BY <1>0, <1>3 DEF F!OnTurnCommitted, F!OpenTurn
<1>4. CASE F!DeliverNext
  <2>1. /\ current + 1 \in DOMAIN segments
        /\ segments' = [segments EXCEPT ![current + 1].sent = @ + 1]
        /\ finalSeen' = finalSeen
    BY <1>0, <1>4 DEF F!DeliverNext, F!Deliverable, F!Complete, F!Event
  <2>. HIDE DEF F!Segment
  <2>2. DOMAIN segments' = DOMAIN segments /\ Len(segments') = Len(segments)
    BY <1>0, <2>1
  <2>3. \A i \in DOMAIN segments : segments'[i].total = segments[i].total
    BY <1>0, <2>1 DEF F!Segment
  <2>. QED BY <2>1, <2>2, <2>3 DEF F!HasAudio
<1>5. ASSUME NEW t, NEW x, \/ F!OnTranscript(t, TRUE) \/ F!OnEmptyReply(t)
                           \/ F!FailStage(x, t)
      PROVE  FALSE
  BY <1>5 DEF F!OnTranscript, F!OnEmptyReply, F!FailStage, F!Fail, F!Event, F!Release, F!Accepts
<1>6. ASSUME NEW t, NEW i, NEW size, F!OnAudioReady(t, i, size)
      PROVE  /\ finalSeen' = finalSeen
             /\ DOMAIN segments' = DOMAIN segments /\ Len(segments') = Len(segments)
             /\ \A j \in DOMAIN segments : F!HasAudio(segments[j]) => F!HasAudio(segments'[j])
  <2>1. /\ i \in DOMAIN segments /\ finalSeen' = finalSeen /\ size > 0
        /\ segments' = [segments EXCEPT ![i] = [@ EXCEPT !.total = size, !.voice = t]]
    BY <1>6 DEF F!OnAudioReady, F!Fail, F!Event
  <2>2. DOMAIN segments' = DOMAIN segments /\ Len(segments') = Len(segments)
    BY <1>0, <2>1
  <2>3. \A j \in DOMAIN segments : segments'[j].total \in {segments[j].total, size}
    BY <1>0, <2>1 DEF F!Segment
  <2>. QED BY <2>1, <2>2, <2>3 DEF F!HasAudio
<1>. QED BY <1>1, <1>2, <1>3, <1>4, <1>5, <1>6 DEF Passing

LEMMA PassingSaysNothing ==
  ASSUME Passing PROVE event'.kind \in Endings \cup {"none", "audio"}
<1>. USE DEF F!Event, F!NoEvent, F!Fail, F!Interrupt, F!Complete, Endings
<1>1. CASE F!DeliverNext
  BY <1>1 DEF F!DeliverNext
<1>2. CASE F!OnSpeechStarted \/ F!OnContinuationOnset \/ F!OnTurnCommitted
  BY <1>2 DEF F!OnSpeechStarted, F!OnContinuationOnset, F!OnTurnCommitted
<1>3. CASE F!Tick \/ F!Unmoved
  BY <1>3 DEF F!Tick, F!Unmoved
<1>4. ASSUME NEW t, NEW x, \/ F!OnTranscript(t, TRUE) \/ F!OnEmptyReply(t)
                           \/ F!FailStage(x, t)
      PROVE  event'.kind \in Endings \cup {"none", "audio"}
  BY <1>4 DEF F!OnTranscript, F!OnEmptyReply, F!FailStage
<1>5. ASSUME NEW t, NEW i, NEW size, F!OnAudioReady(t, i, size)
      PROVE  event'.kind \in Endings \cup {"none", "audio"}
  BY <1>5 DEF F!OnAudioReady
<1>. QED BY <1>1, <1>2, <1>3, <1>4, <1>5 DEF Passing

LEMMA PassingEndsOrGoesOn ==
  ASSUME F!FloorInv, TypeInv, WorkInv, hearing # "gone", Passing, OnFloorEvent(replyText)
  PROVE  Ends \/ GoesOn
<1>0. Noted /\ turn \in Nat /\ pendingSegments \in Seq(Piece)
  BY PassingIsPlain, HeededIsNoted, ConversationAssumption
  DEF Heeded, Spoken, F!FloorInv, F!TypeOK, TypeInv, TypeOK
<1>1. CASE event'.kind \in Endings
  <2>1. ClearTurn
    BY <1>1 DEF OnFloorEvent, Endings
  <2>2. Quits \/ (state' = "transcribing" /\ turn' = turn + 1)
    BY <1>0, <1>1 DEF Noted, Interrupted, Failed, Done, Called, Started, Spoke, Silent, Emitted,
       Endings
  <2>. QED BY <2>1, <2>2 DEF ClearTurn, Quits, Ends
<1>2. CASE event'.kind \in {"none", "audio"}
  <2>1. Silent
    BY <1>0, <1>2 DEF Noted, Interrupted, Failed, Done, Called, Started, Spoke, Emitted
  <2>2. UNCHANGED <<replyText, pendingResponse, pendingSynthesis, pendingSegments, streamTurn>>
    BY <1>2 DEF OnFloorEvent, Endings
  <2>3. CASE UNCHANGED <<state, turn>>
    BY <1>2, <2>2, <2>3, PassingKeepsSegments DEF GoesOn
  <2>4. CASE ~UNCHANGED <<state, turn>>
    <3>1. /\ ~Answering
          /\ (turn' = turn /\ state' = "listening") \/ (turn' = turn + 1 /\ state' = "transcribing")
      BY <2>1, <2>4 DEF Silent, Quits, Answering, F!MachineHolds, F!MachineHeld
    <3>2. /\ replyText = 0 /\ pendingResponse = 0 /\ pendingSynthesis = 0 /\ streamTurn = 0
          /\ DOMAIN pendingSegments = {}
      BY <3>1 DEF WorkInv, StreamInv, WorkIsCurrent, Answering
    <3>3. pendingSegments = <<>>
      BY <1>0, <3>2
    <3>. QED BY <2>2, <3>1, <3>2, <3>3 DEF Ends
  <2>. QED BY <2>3, <2>4
<1>. QED BY <1>1, <1>2, PassingSaysNothing

(* A turn that ends has nothing left to do, and of its tasks only some end. *)
LEMMA EndsKeepsWorkInv ==
  ASSUME turn \in Nat, launched \cup calls \subseteq Nat, ResponseInv, Ends,
         launched' \subseteq launched, calls' \subseteq calls, handler'.kind # "surface"
  PROVE  WorkInv'
<1>1. ResponseInv'
  BY DEF ResponseInv, Ends, Alone
<1>2. StreamInv' /\ SpeechInv' /\ WorkIsCurrent'
  BY DEF StreamInv, SpeechInv, WorkIsCurrent, Ends, Answering, Answers
<1>. QED BY <1>1, <1>2 DEF WorkInv

(* A turn that goes on as it was keeps its work, if the call it waits for   *)
(* and the speech of its sentences stay.                                    *)
LEMMA GoesOnKeepsWorkInv ==
  ASSUME turn \in Nat, WorkInv, GoesOn,
         hearing # "gone", UNCHANGED <<streaming, launched>>,
         handler.kind # "surface", handler'.kind # "surface",
         calls' \subseteq calls,
         turn \in calls \ calls' => (state # "responding" /\ (state = "speaking" => finalSeen)),
         \A i \in DOMAIN segments :
           (state = "speaking" /\ ~F!HasAudio(segments'[i])
             /\ [turn |-> turn, index |-> i] \in syntheses)
             => [turn |-> turn, index |-> i] \in syntheses'
  PROVE  WorkInv'
<1>1. ResponseInv'
  BY DEF WorkInv, ResponseInv, GoesOn, Alone
<1>2. StreamInv'
  BY DEF WorkInv, StreamInv, GoesOn, Answering, Answers
<1>3. WorkIsCurrent'
  BY DEF WorkInv, WorkIsCurrent, GoesOn, F!MachineHolds
<1>4. streaming' => pendingSynthesis' = 0
  BY DEF WorkInv, SpeechInv, GoesOn
<1>5. (pendingSynthesis' # 0 /\ hearing' # "gone") => Len(segments') = 1
  BY DEF WorkInv, SpeechInv, GoesOn
<1>6. ASSUME state' = "speaking", NEW i \in DOMAIN segments', ~F!HasAudio(segments'[i])
      PROVE  Awaited(i)'
  <2>1. Awaited(i) /\ i \in DOMAIN segments /\ state = "speaking"
    BY <1>6 DEF WorkInv, SpeechInv, GoesOn
  <2>. QED BY <1>6, <2>1 DEF Awaited, GoesOn
<1>7. SpeechInv'
  BY <1>4, <1>5, <1>6 DEF SpeechInv, F!HasAudio
<1>. QED BY <1>1, <1>2, <1>3, <1>7 DEF WorkInv

LEMMA TurnsAreNat ==
  ASSUME F!FloorInv, TypeInv PROVE turn \in Nat /\ launched \cup calls \subseteq Nat
<1>1. turn \in Nat
  BY ConversationAssumption DEF F!FloorInv, F!TypeOK
<1>2. Turns \subseteq Nat
  BY ConversationAssumption DEF Turns
<1>3. launched \subseteq Turns /\ calls \subseteq Turns
  BY DEF TypeInv, TypeOK
<1>. QED BY <1>1, <1>2, <1>3

(* So a step that says nothing new keeps the work of the turn.              *)
LEMMA PassingKeepsWorkInv ==
  ASSUME F!FloorInv, TypeInv, WorkInv, hearing # "gone", Passing, OnFloorEvent(replyText),
         UNCHANGED <<streaming, launched>>,
         handler.kind # "surface", handler'.kind # "surface",
         calls' \subseteq calls,
         GoesOn /\ turn \in calls \ calls' =>
           (state # "responding" /\ (state = "speaking" => finalSeen)),
         \A i \in DOMAIN segments :
           (/\ GoesOn /\ state = "speaking"
            /\ ~F!HasAudio(segments'[i]) /\ [turn |-> turn, index |-> i] \in syntheses)
             => [turn |-> turn, index |-> i] \in syntheses'
  PROVE  WorkInv'
<1>1. turn \in Nat /\ launched \cup calls \subseteq Nat
  BY TurnsAreNat
<1>2. CASE Ends
  BY <1>1, <1>2, EndsKeepsWorkInv DEF WorkInv
<1>3. CASE GoesOn
  <2>2. turn \in calls \ calls' => (state # "responding" /\ (state = "speaking" => finalSeen))
    BY <1>3
  <2>3. \A i \in DOMAIN segments :
          (state = "speaking" /\ ~F!HasAudio(segments'[i])
            /\ [turn |-> turn, index |-> i] \in syntheses)
            => [turn |-> turn, index |-> i] \in syntheses'
    BY <1>3
  <2>. QED BY <1>1, <1>3, <2>2, <2>3, GoesOnKeepsWorkInv
<1>. QED BY <1>2, <1>3, PassingEndsOrGoesOn

LEMMA IdleIsNotSurface == ASSUME Idle PROVE handler.kind = "none"
BY DEF Idle, NoHandler

(* The client and the speaker.                                              *)
LEMMA ClientKeepsWorkInv ==
  ASSUME F!FloorInv, TypeInv, WorkInv, hearing # "gone", Client PROVE WorkInv'
<1>1. turn \in Nat /\ launched \cup calls \subseteq Nat
  BY TurnsAreNat
<1>2. CASE ResponseCreateForTool
  <2>1. /\ state = "tool_wait" /\ state' = "responding" /\ turn' = turn /\ pendingResponse' = turn
        /\ handler' = handler /\ handler.kind = "none"
        /\ UNCHANGED <<launched, calls, streaming, hearing, streamTurn>>
        /\ UNCHANGED <<replyText, pendingSynthesis, pendingSegments>>
    BY <1>2, IdleIsNotSurface DEF ResponseCreateForTool, F!OnToolResult, F!Accepts, audio, tasks
  <2>2. ResponseInv'
    BY <1>1, <2>1 DEF WorkInv, ResponseInv, Alone
  <2>3. StreamInv'
    BY <2>1 DEF WorkInv, StreamInv, ResponseInv, Answering, Answers
  <2>4. SpeechInv' /\ WorkIsCurrent'
    BY <2>1 DEF WorkInv, SpeechInv, WorkIsCurrent, F!MachineHolds, F!MachineHeld
  <2>. QED BY <2>2, <2>3, <2>4 DEF WorkInv
<1>3. CASE OnFunctionCallOutput
  <2>1. /\ F!Unmoved /\ handler' = handler
        /\ UNCHANGED <<launched, calls, syntheses, streaming, hearing, streamTurn>>
        /\ UNCHANGED <<replyText, pendingResponse, pendingSynthesis, pendingSegments>>
    BY <1>3 DEF OnFunctionCallOutput, audio, tasks
  <2>2. UNCHANGED <<state, turn, finalSeen, segments>>
    BY <2>1 DEF F!Unmoved, F!reply
  <2>. QED
    BY <2>1, <2>2 DEF WorkInv, ResponseInv, StreamInv, SpeechInv, WorkIsCurrent, Alone, Awaited,
       Answering, Answers, F!MachineHolds
<1>4. CASE ResponseCreate
  <2>1. /\ Passing /\ OnFloorEvent(replyText) /\ Idle
        /\ UNCHANGED <<launched, calls, syntheses, streaming>>
        /\ handler' \in {NoHandler, [kind |-> "answer", words |-> pendingTranscript,
                                     item |-> pendingItem]}
    BY <1>4 DEF ResponseCreate, Ask, Passing, Heed, tasks
  <2>2. handler.kind # "surface" /\ handler'.kind # "surface"
    BY <2>1, IdleIsNotSurface DEF NoHandler
  <2>. QED BY <2>1, <2>2, PassingKeepsWorkInv
<1>. QED BY <1>2, <1>3, <1>4 DEF Client

(* The words of the turn have come: its response is to be launched.         *)
LEMMA UserSpeaksKeepsWorkInv ==
  ASSUME turn \in Nat, WorkInv, hearing # "gone", F!OnTranscript(turn, FALSE),
         OnFloorEvent(replyText), handler'.kind # "surface",
         UNCHANGED <<launched, calls, streaming>>
  PROVE  WorkInv'
<1>1. /\ state = "transcribing" /\ state' = "responding" /\ turn' = turn
      /\ event'.kind = "started" /\ event'.turn = turn
  BY DEF F!OnTranscript, F!Accepts, F!Event
<1>2. /\ pendingResponse' = turn
      /\ UNCHANGED <<replyText, pendingSynthesis, pendingSegments, streamTurn>>
  BY <1>1 DEF OnFloorEvent, Endings
<1>3. ResponseInv'
  BY <1>1, <1>2 DEF WorkInv, ResponseInv, Alone
<1>4. StreamInv'
  BY <1>1, <1>2 DEF WorkInv, StreamInv, ResponseInv, Answering, Answers
<1>5. SpeechInv' /\ WorkIsCurrent'
  BY <1>1, <1>2
  DEF WorkInv, SpeechInv, StreamInv, WorkIsCurrent, Answering, F!MachineHolds, F!MachineHeld
<1>. QED BY <1>3, <1>4, <1>5 DEF WorkInv

LEMMA SpeakerKeepsWorkInv ==
  ASSUME F!FloorInv, TypeInv, WorkInv, hearing # "gone", Speaker PROVE WorkInv'
<1>1. turn \in Nat /\ launched \cup calls \subseteq Nat
  BY TurnsAreNat
<1>2. Idle /\ UNCHANGED <<handler, streaming, launched, calls, syntheses>>
  BY DEF Speaker, OnSpeechStarted, OnSpeechStopped, OnTranscript, OnTranscriptionFailed, tasks
<1>3. handler.kind # "surface" /\ handler'.kind # "surface"
  BY <1>2, IdleIsNotSurface
<1>4. CASE Passing /\ OnFloorEvent(replyText)
  BY <1>2, <1>3, <1>4, PassingKeepsWorkInv
<1>5. CASE OnSpeechStarted
  <2>1. CASE TurnTakenBack
    <3>1. Ends
      BY <2>1 DEF TurnTakenBack, F!OnContinuationOnset, F!Interrupt, F!Release, ClearTurn, Ends
    <3>. QED BY <1>1, <1>2, <1>3, <3>1, EndsKeepsWorkInv DEF WorkInv
  <2>. QED BY <1>4, <1>5, <2>1 DEF OnSpeechStarted, TurnTakenBack, Ask, Passing, Heed
<1>6. ASSUME NEW silence \in BOOLEAN, OnSpeechStopped(silence) PROVE WorkInv'
  BY <1>4, <1>6 DEF OnSpeechStopped, Ask, Passing, Heed
<1>7. ASSUME NEW blank \in BOOLEAN, OnTranscript(blank) PROVE WorkInv'
  <2>1. CASE turnOpen /\ state = "transcribing" /\ ~blank
    <3>1. F!OnTranscript(turn, FALSE) /\ OnFloorEvent(replyText)
      BY <1>7, <2>1 DEF OnTranscript, Ask, Heed
    <3>. QED BY <1>1, <1>2, <1>3, <3>1, UserSpeaksKeepsWorkInv
  <2>2. CASE turnOpen /\ ~(state = "transcribing" /\ ~blank)
    BY <1>4, <1>7, <2>2 DEF OnTranscript, Ask, Passing, Heed
  <2>3. CASE ~turnOpen
    <3>1. F!Unmoved /\ UNCHANGED work
      BY <1>7, <2>3 DEF OnTranscript
    <3>2. Passing /\ GoesOn
      BY <3>1 DEF F!Unmoved, F!reply, work, Passing, GoesOn
    <3>. QED BY <1>1, <1>2, <1>3, <3>2, GoesOnKeepsWorkInv
  <2>. QED BY <2>1, <2>2, <2>3
<1>8. CASE OnTranscriptionFailed
  BY <1>4, <1>8 DEF OnTranscriptionFailed, Ask, Passing, Heed, F!Unarmed
<1>. QED BY <1>5, <1>6, <1>7, <1>8 DEF Speaker

(* The model asks for a tool.                                               *)
LEMMA ToolCallKeepsWorkInv ==
  ASSUME turn \in Nat, launched \cup calls \subseteq Nat, WorkInv, hearing # "gone",
         NEW t, F!OnToolCall(t), OnFloorEvent(replyText), handler'.kind # "surface",
         UNCHANGED <<launched, streaming>>, calls' \subseteq calls,
         pendingResponse = 0, turn \notin launched, turn \notin calls'
  PROVE  WorkInv'
<1>1. /\ state = "responding" /\ state' = "tool_wait" /\ turn' = turn
      /\ event'.kind = "tool_call"
  BY DEF F!OnToolCall, F!Accepts, F!Event
<1>2. UNCHANGED <<replyText, pendingResponse, pendingSynthesis, pendingSegments, streamTurn>>
  BY <1>1 DEF OnFloorEvent, Endings
<1>3. ResponseInv'
  BY <1>1, <1>2 DEF WorkInv, ResponseInv
<1>4. StreamInv'
  BY <1>1, <1>2 DEF WorkInv, StreamInv, Answering, Answers
<1>5. SpeechInv' /\ WorkIsCurrent'
  BY <1>1, <1>2 DEF WorkInv, SpeechInv, WorkIsCurrent, F!MachineHolds, F!MachineHeld
<1>. QED BY <1>3, <1>4, <1>5 DEF WorkInv

LEMMA HandlerKeepsWorkInv ==
  ASSUME F!FloorInv, TypeInv, WorkInv, hearing # "gone", Handler PROVE WorkInv'
<1>1. turn \in Nat /\ launched \cup calls \subseteq Nat
  BY TurnsAreNat
<1>2. handler'.kind # "surface" /\ OnFloorEvent(replyText)
      /\ UNCHANGED <<streaming, launched, calls, syntheses>>
  <2>1. handler' = NoHandler /\ OnFloorEvent(replyText) /\ UNCHANGED <<streaming, tasks>>
    BY DEF Handler, AnswerPending, SurfaceToolCall, Heed
  <2>. QED BY <2>1 DEF NoHandler, tasks
<1>3. CASE AnswerPending
  BY <1>1, <1>2, <1>3, UserSpeaksKeepsWorkInv DEF AnswerPending
<1>4. CASE SurfaceToolCall
  <2>1. pendingResponse = 0 /\ turn \notin launched \cup calls
    BY <1>4 DEF SurfaceToolCall, WorkInv, ResponseInv
  <2>. QED BY <1>1, <1>2, <1>4, <2>1, ToolCallKeepsWorkInv DEF SurfaceToolCall
<1>. QED BY <1>3, <1>4 DEF Handler

(* The tasks of a response.                                                 *)
LEMMA LaunchKeepsWorkInv ==
  ASSUME turn \in Nat, WorkInv, hearing # "gone", LaunchResponse PROVE WorkInv'
<1>1. /\ Idle /\ pendingResponse # 0 /\ launched' = launched \cup {pendingResponse}
      /\ pendingResponse' = 0 /\ F!Unmoved /\ UNCHANGED <<handler, hearing, streaming>>
      /\ UNCHANGED <<replyText, pendingSynthesis, pendingSegments, streamTurn, calls, syntheses>>
  BY DEF LaunchResponse, surroundings, audio
<1>2. UNCHANGED <<state, turn, finalSeen, segments>>
  BY <1>1 DEF F!Unmoved, F!reply
<1>3. pendingResponse = turn /\ state = "responding" /\ handler.kind = "none"
  BY <1>1, IdleIsNotSurface DEF WorkInv, WorkIsCurrent
<1>4. ResponseInv'
  BY <1>1, <1>2, <1>3 DEF WorkInv, ResponseInv, Alone
<1>5. StreamInv' /\ SpeechInv' /\ WorkIsCurrent'
  BY <1>1, <1>2, <1>3
  DEF WorkInv, StreamInv, SpeechInv, WorkIsCurrent, Answering, Answers, F!MachineHolds
<1>. QED BY <1>4, <1>5 DEF WorkInv

LEMMA BeginKeepsWorkInv ==
  ASSUME turn \in Nat, launched \subseteq Nat, WorkInv, hearing # "gone", NEW t, BeginResponse(t)
  PROVE  WorkInv'
<1>1. /\ Idle /\ t \in launched /\ launched' = launched \ {t} /\ F!Unmoved
      /\ UNCHANGED <<handler, hearing, streaming>>
      /\ UNCHANGED <<replyText, pendingResponse, pendingSynthesis, syntheses>>
  BY DEF BeginResponse, surroundings, audio
<1>2. UNCHANGED <<state, turn, finalSeen, segments>>
  BY <1>1 DEF F!Unmoved, F!reply
<1>3. handler.kind = "none"
  BY <1>1, IdleIsNotSurface
<1>4. CASE state = "responding" /\ t = turn
  <2>1. /\ calls' = calls \cup {turn}
        /\ streamTurn' = IF streaming THEN turn ELSE streamTurn
        /\ pendingSegments' = IF streaming THEN <<>> ELSE pendingSegments
    BY <1>4 DEF BeginResponse, F!Accepts
  <2>2. pendingResponse = 0 /\ turn \notin calls
    BY <1>1, <1>3, <1>4 DEF WorkInv, ResponseInv, Alone
  <2>3. ResponseInv'
    BY <1>1, <1>2, <1>3, <1>4, <2>1, <2>2 DEF WorkInv, ResponseInv, Alone
  <2>4. StreamInv'
    BY <1>1, <1>2, <1>4, <2>1 DEF WorkInv, StreamInv, Answering, Answers
  <2>5. SpeechInv' /\ WorkIsCurrent'
    BY <1>1, <1>2, <1>4, <2>1, <2>2
    DEF WorkInv, SpeechInv, WorkIsCurrent, F!MachineHolds, F!MachineHeld
  <2>. QED BY <2>3, <2>4, <2>5 DEF WorkInv
<1>5. CASE ~(state = "responding" /\ t = turn)
  <2>1. UNCHANGED <<calls, streamTurn, pendingSegments>>
    BY <1>5 DEF BeginResponse, F!Accepts
  <2>2. ResponseInv'
    BY <1>1, <1>2, <1>3, <1>5, <2>1 DEF WorkInv, ResponseInv, Alone
  <2>3. StreamInv' /\ SpeechInv' /\ WorkIsCurrent'
    BY <1>1, <1>2, <2>1
    DEF WorkInv, StreamInv, SpeechInv, WorkIsCurrent, Answering, Answers, Awaited, F!MachineHolds
  <2>. QED BY <2>2, <2>3 DEF WorkInv
<1>. QED BY <1>4, <1>5

(* A whole reply.                                                           *)
LEMMA ReplyTextKeepsWorkInv ==
  ASSUME F!FloorInv, turn \in Nat, launched \cup calls \subseteq Nat, WorkInv, hearing # "gone",
         NEW t, F!OnReplyText(t), OnFloorEvent(replyText), Idle, ~streaming, t \in calls,
         UNCHANGED <<handler, streaming, launched, syntheses>>, calls' = calls \ {t}
  PROVE  WorkInv'
<1>1. /\ state = "responding" /\ t = turn /\ state' = "speaking" /\ turn' = turn /\ finalSeen'
      /\ event'.kind = "reply_text" /\ event'.turn = turn
      /\ segments' = Append(segments, [text |-> t, voice |-> 0, total |-> 0, sent |-> 0])
  BY DEF F!OnReplyText, F!AppendSegment, F!Accepts, F!Event
<1>2. /\ replyText' = turn /\ pendingSynthesis' = turn
      /\ UNCHANGED <<pendingResponse, pendingSegments, streamTurn>>
  BY <1>1 DEF OnFloorEvent, Endings
<1>3. segments = <<>>
  BY <1>1 DEF F!FloorInv, F!ReplyOnlyWhileSpeaking
<1>4. Len(segments') = 1
  BY <1>1, <1>3
<1>5. handler.kind = "none"
  BY IdleIsNotSurface
<1>6. pendingResponse = 0 /\ turn \notin launched
  BY <1>1, <1>5 DEF WorkInv, ResponseInv, Alone
<1>7. ResponseInv'
  BY <1>1, <1>2, <1>5, <1>6 DEF WorkInv, ResponseInv
<1>8. StreamInv'
  BY <1>1, <1>2 DEF WorkInv, StreamInv, Answering, Answers
<1>9. SpeechInv'
  BY <1>1, <1>2, <1>4 DEF SpeechInv, Awaited
<1>10. WorkIsCurrent'
  BY <1>1, <1>2, <1>6 DEF WorkInv, WorkIsCurrent, F!MachineHolds, F!MachineHeld
<1>. QED BY <1>7, <1>8, <1>9, <1>10 DEF WorkInv

(* A sentence of a streamed reply, perhaps the last one.                    *)
LEMMA SegmentKeepsWorkInv ==
  ASSUME F!FloorInv, TypeInv, WorkInv, hearing # "gone",
         NEW t, NEW final \in BOOLEAN, F!OnReplySegment(t, final),
         OnFloorEvent(IF final THEN t ELSE replyText), Idle, streaming, t \in calls,
         Live(t), UNCHANGED <<handler, streaming, launched, syntheses>>,
         calls' = IF final THEN calls \ {t} ELSE calls
  PROVE  WorkInv'
<1>0. turn \in Nat /\ launched \cup calls \subseteq Nat
      /\ segments \in Seq(F!Segment) /\ pendingSegments \in Seq(Piece)
  BY TurnsAreNat DEF F!FloorInv, F!TypeOK, TypeInv, TypeOK
<1>1. /\ Answers /\ t = turn /\ state' = "speaking" /\ turn' = turn
      /\ finalSeen' = (finalSeen \/ final)
      /\ event'.kind = "reply_segment" /\ event'.turn = turn /\ event'.n = Len(segments)
      /\ segments' = Append(segments, [text |-> t, voice |-> 0, total |-> 0, sent |-> 0])
  BY DEF F!OnReplySegment, F!AppendSegment, F!Accepts, F!Event, Answers
<1>. DEFINE piece == [turn |-> turn, index |-> Len(segments) + 1]
<1>2. /\ replyText' = IF final THEN t ELSE replyText
      /\ pendingSegments' = Append(pendingSegments, piece)
      /\ UNCHANGED <<pendingResponse, pendingSynthesis, streamTurn>>
  BY <1>1 DEF OnFloorEvent, Endings
<1>3. state = "responding" => segments = <<>>
  BY DEF F!FloorInv, F!ReplyOnlyWhileSpeaking
<1>4. handler.kind = "none" /\ streamTurn = turn
  BY IdleIsNotSurface DEF Live
<1>5. pendingResponse = 0 /\ turn \notin launched
  BY <1>1, <1>4 DEF WorkInv, ResponseInv, Alone, WorkIsCurrent, Answers
<1>6. ResponseInv'
  BY <1>0, <1>1, <1>2, <1>4, <1>5 DEF WorkInv, ResponseInv
<1>7. StreamInv'
  BY <1>1, <1>2, <1>4 DEF WorkInv, StreamInv, Answering, Answers
<1>8. /\ piece.turn = turn /\ piece.index = Len(segments) + 1
      /\ Len(pendingSegments) \in Nat
      /\ DOMAIN pendingSegments' = 1..Len(pendingSegments) + 1
      /\ \A j \in DOMAIN pendingSegments : pendingSegments'[j] = pendingSegments[j]
      /\ pendingSegments'[Len(pendingSegments) + 1] = piece
      /\ DOMAIN pendingSegments = 1..Len(pendingSegments)
  BY <1>0, <1>2
<1>. HIDE DEF piece
<1>9. /\ Len(segments) \in Nat /\ DOMAIN segments = 1..Len(segments)
      /\ DOMAIN segments' = 1..Len(segments) + 1
      /\ \A i \in DOMAIN segments : segments'[i] = segments[i]
  BY <1>0, <1>1
<1>10. WorkIsCurrent'
  <2>1. \A j \in DOMAIN pendingSegments' : pendingSegments'[j].turn = turn
    BY <1>8 DEF WorkInv, WorkIsCurrent
  <2>. QED
    BY <1>1, <1>2, <1>5, <2>1 DEF WorkInv, WorkIsCurrent, F!MachineHolds, F!MachineHeld, Answers
<1>11. pendingSynthesis' = 0
  BY <1>2 DEF WorkInv, SpeechInv
<1>12. ASSUME NEW i \in DOMAIN segments', ~F!HasAudio(segments'[i]) PROVE Awaited(i)'
  <2>1. CASE i \in DOMAIN segments
    <3>1. Awaited(i)
      BY <1>1, <1>3, <1>9, <1>12, <2>1 DEF Answers, WorkInv, SpeechInv
    <3>. QED BY <1>1, <1>2, <1>8, <3>1 DEF Awaited
  <2>2. CASE i = Len(segments) + 1
    <3>1. Len(pendingSegments) + 1 \in DOMAIN pendingSegments'
      BY <1>8
    <3>. QED BY <1>8, <2>2, <3>1 DEF Awaited
  <2>. QED BY <1>9, <2>1, <2>2
<1>13. SpeechInv'
  BY <1>11, <1>12 DEF SpeechInv, F!HasAudio
<1>. QED BY <1>6, <1>7, <1>10, <1>13 DEF WorkInv

(* The answer to a generate call that is not streamed.                      *)
LEMMA GenerateResponseKeepsWorkInv ==
  ASSUME F!FloorInv, TypeInv, WorkInv, hearing # "gone", NEW t \in Turns, OnGenerateResponse(t)
  PROVE  WorkInv'
<1>0. turn \in Nat /\ launched \cup calls \subseteq Nat
  BY TurnsAreNat
<1>1. /\ Idle /\ t \in calls /\ ~streaming /\ calls' = calls \ {t} /\ OnFloorEvent(replyText)
      /\ UNCHANGED <<handler, streaming, launched, syntheses>>
  BY DEF OnGenerateResponse, Heed, surroundings
<1>2. handler.kind # "surface" /\ handler'.kind # "surface"
  BY <1>1, IdleIsNotSurface
<1>3. CASE F!Accepts("responding", t)
  <2>1. state = "responding" /\ t = turn
    BY <1>3 DEF F!Accepts
  <2>2. pendingResponse = 0 /\ turn \notin launched /\ turn \notin calls'
    BY <1>1, <1>2, <2>1 DEF WorkInv, ResponseInv, Alone
  <2>3. F!OnReplyText(t) \/ F!OnEmptyReply(t) \/ F!OnToolCall(t)
    BY <1>3 DEF OnGenerateResponse, Ask
  <2>4. CASE F!OnReplyText(t)
    BY <1>0, <1>1, <2>4, ReplyTextKeepsWorkInv
  <2>5. CASE F!OnEmptyReply(t)
    <3>1. Passing /\ ~GoesOn
      BY <2>1, <2>5
      DEF Passing, GoesOn, F!OnEmptyReply, F!Fail, F!Release
    <3>. QED BY <1>1, <1>2, <3>1, PassingKeepsWorkInv
  <2>6. CASE F!OnToolCall(t)
    BY <1>0, <1>1, <1>2, <2>2, <2>6, ToolCallKeepsWorkInv
  <2>. QED BY <2>3, <2>4, <2>5, <2>6
<1>4. CASE ~F!Accepts("responding", t)
  <2>1. Passing
    BY <1>4 DEF OnGenerateResponse, Ask, Passing
  <2>2. turn \in calls \ calls' => (state # "responding" /\ (state = "speaking" => finalSeen))
    BY <1>1, <1>4 DEF F!Accepts, WorkInv, StreamInv
  <2>. QED BY <1>1, <1>2, <2>1, <2>2, PassingKeepsWorkInv
<1>. QED BY <1>3, <1>4

LEMMA FailGenerateKeepsWorkInv ==
  ASSUME F!FloorInv, TypeInv, WorkInv, hearing # "gone", NEW t \in Turns, FailGenerate(t)
  PROVE  WorkInv'
<1>1. /\ Idle /\ t \in calls /\ calls' = calls \ {t} /\ OnFloorEvent(replyText)
      /\ UNCHANGED <<handler, streaming, launched, syntheses>>
  BY DEF FailGenerate, Heed, surroundings
<1>2. handler.kind # "surface" /\ handler'.kind # "surface"
  BY <1>1, IdleIsNotSurface
<1>3. CASE t = turn /\ F!AcceptsFailure("generate")
  <2>1. F!FailStage("generate", t)
    BY <1>3 DEF FailGenerate, Ask
  <2>2. Passing
    BY <2>1 DEF Passing, F!Unarmed
  <2>3. state \in {"responding", "speaking"} => ~GoesOn
    BY <2>1 DEF F!FailStage, F!Fail, F!Release, GoesOn
  <2>. QED BY <1>1, <1>2, <2>2, <2>3, PassingKeepsWorkInv
<1>4. CASE ~(t = turn /\ F!AcceptsFailure("generate"))
  <2>1. Passing
    BY <1>4 DEF FailGenerate, Ask, Passing
  <2>2. turn \in calls \ calls' => armed # "generate"
    BY <1>1, <1>4 DEF F!AcceptsFailure
  <2>3. armed # "generate" => (state # "responding" /\ (state = "speaking" => finalSeen))
    BY DEF F!FloorInv, F!DeadlineMatchesWait
  <2>. QED BY <1>1, <1>2, <2>1, <2>2, <2>3, PassingKeepsWorkInv
<1>. QED BY <1>3, <1>4

(* The end of a stream: the reply is final now, or there was none.          *)
LEMMA ReplyEndKeepsWorkInv ==
  ASSUME F!FloorInv, TypeInv, WorkInv, hearing # "gone", NEW t \in Turns,
         F!OnReplyEnd(t), OnFloorEvent(t), Idle, t \in calls, calls' = calls \ {t},
         UNCHANGED <<handler, streaming, launched, syntheses>>
  PROVE  WorkInv'
<1>0. turn \in Nat /\ launched \cup calls \subseteq Nat
  BY TurnsAreNat
<1>1. handler.kind # "surface" /\ handler'.kind # "surface"
  BY IdleIsNotSurface
<1>2. t = turn /\ state = "speaking" /\ turn' = turn
  BY DEF F!OnReplyEnd, F!Accepts, F!FloorInv, F!ReplyOnlyWhileSpeaking, F!Complete
<1>3. CASE F!Complete(chunksSent)
  <2>1. state' = "listening" /\ event'.kind = "done"
    BY <1>3 DEF F!Complete, F!Release, F!Event
  <2>2. Ends
    BY <1>2, <2>1 DEF Ends, OnFloorEvent, ClearTurn, Endings
  <2>. QED BY <1>0, <1>1, <2>2, EndsKeepsWorkInv DEF WorkInv
<1>4. CASE ~F!Complete(chunksSent)
  <2>0. finalSeen' = TRUE /\ event' = F!NoEvent /\ UNCHANGED <<state, turn, segments>>
    BY <1>4 DEF F!OnReplyEnd
  <2>1. /\ finalSeen' = TRUE /\ event'.kind = "none" /\ UNCHANGED <<state, turn, segments>>
    BY <2>0 DEF F!NoEvent
  <2>2. /\ replyText' = t
        /\ UNCHANGED <<pendingResponse, pendingSynthesis, pendingSegments, streamTurn>>
    BY <2>1 DEF OnFloorEvent, Endings
  <2>3. ResponseInv'
    BY <1>0, <1>1, <1>2, <2>1, <2>2 DEF WorkInv, ResponseInv
  <2>4. StreamInv'
    BY <1>2, <2>1, <2>2 DEF WorkInv, StreamInv, Answering, Answers
  <2>5. SpeechInv'
    BY <1>2, <2>1, <2>2 DEF WorkInv, SpeechInv, Awaited, F!HasAudio
  <2>6. WorkIsCurrent'
    BY <1>2, <2>1, <2>2 DEF WorkInv, WorkIsCurrent, F!MachineHolds, F!MachineHeld
  <2>. QED BY <2>3, <2>4, <2>5, <2>6 DEF WorkInv
<1>. QED BY <1>3, <1>4

LEMMA StreamEndKeepsWorkInv ==
  ASSUME F!FloorInv, TypeInv, WorkInv, hearing # "gone", NEW t \in Turns, OnGenerateStreamEnd(t)
  PROVE  WorkInv'
<1>0. turn \in Nat /\ launched \cup calls \subseteq Nat
  BY TurnsAreNat
<1>1. /\ Idle /\ t \in calls /\ streaming /\ calls' = calls \ {t}
      /\ UNCHANGED <<handler, streaming, launched, syntheses>>
  BY DEF OnGenerateStreamEnd, surroundings
<1>2. handler.kind # "surface" /\ handler'.kind # "surface"
  BY <1>1, IdleIsNotSurface
<1>3. CASE Live(t)
  <2>1. /\ F!OnReplySegment(t, TRUE) \/ F!OnReplyEnd(t) \/ F!OnEmptyReply(t)
        /\ OnFloorEvent(t)
    BY <1>3 DEF OnGenerateStreamEnd, Heed
  <2>2. CASE F!OnReplySegment(t, TRUE)
    BY <1>1, <1>3, <2>1, <2>2, SegmentKeepsWorkInv
  <2>3. CASE F!OnReplyEnd(t)
    BY <1>1, <2>1, <2>3, ReplyEndKeepsWorkInv
  <2>4. CASE F!OnEmptyReply(t)
    <3>1. event'.kind = "failed" /\ state' = "listening" /\ turn' = turn
      BY <2>4 DEF F!OnEmptyReply, F!Fail, F!Event, F!Release
    <3>2. Ends
      BY <2>1, <3>1 DEF OnFloorEvent, ClearTurn, Ends, Endings
    <3>. QED BY <1>0, <1>1, <1>2, <3>2, EndsKeepsWorkInv DEF WorkInv
  <2>. QED BY <2>1, <2>2, <2>3, <2>4
<1>4. CASE ~Live(t)
  <2>1. F!Unmoved /\ UNCHANGED work
    BY <1>4 DEF OnGenerateStreamEnd
  <2>2. GoesOn
    BY <2>1 DEF GoesOn, F!Unmoved, F!reply, work
  <2>3. turn \in calls \ calls' => ~Answers
    BY <1>1, <1>4 DEF Live, WorkInv, StreamInv
  <2>. QED BY <1>0, <1>1, <1>2, <2>2, <2>3, GoesOnKeepsWorkInv DEF Answers
<1>. QED BY <1>3, <1>4

(* A tool call that ends a stream drops what was said before it.            *)
LEMMA AbandonKeepsWorkInv ==
  ASSUME F!FloorInv, TypeInv, WorkInv, hearing # "gone", NEW t \in Turns,
         AbandonStreamForToolCall(t)
  PROVE  WorkInv'
<1>0. turn \in Nat /\ launched \cup calls \subseteq Nat
  BY TurnsAreNat
<1>1. /\ Idle /\ t \in calls /\ streaming /\ Live(t) /\ calls' = calls \ {t}
      /\ pendingSegments' = <<>> /\ replyText' = 0
      /\ handler' = [NoHandler EXCEPT !.kind = "surface"]
      /\ UNCHANGED <<streaming, launched, pendingResponse, pendingSynthesis, streamTurn>>
      /\ UNCHANGED hearing
  BY DEF AbandonStreamForToolCall, audio
<1>2. handler.kind = "none" /\ t = turn /\ streamTurn = turn /\ turn # 0
  BY <1>0, <1>1, IdleIsNotSurface DEF Live, Turns
<1>3. handler'.kind = "surface"
  BY <1>1 DEF NoHandler
<1>4. state \in {"responding", "speaking"} /\ pendingResponse = 0 /\ turn \notin launched
  <2>1. Answering /\ state # "tool_wait"
    BY <1>1, <1>2 DEF WorkInv, StreamInv, ResponseInv
  <2>. QED BY <1>1, <1>2, <2>1 DEF Answering, WorkInv, ResponseInv, Alone, WorkIsCurrent
<1>5. pendingSynthesis = 0
  BY <1>1 DEF WorkInv, SpeechInv
<1>6. state' = "responding" /\ turn' = turn
  <2>1. CASE state = "speaking"
    BY <1>1, <1>2, <2>1 DEF AbandonStreamForToolCall, Ask, F!Accepts, F!DiscardReplySegments
  <2>2. CASE state = "responding"
    BY <1>1, <1>4, <2>2 DEF AbandonStreamForToolCall, Ask, F!Accepts, F!Unmoved
  <2>. QED BY <1>4, <2>1, <2>2
<1>7. ResponseInv'
  BY <1>0, <1>1, <1>2, <1>3, <1>4, <1>6 DEF WorkInv, ResponseInv
<1>8. StreamInv'
  BY <1>1, <1>2, <1>6 DEF StreamInv, Answering, Answers
<1>9. SpeechInv' /\ WorkIsCurrent'
  BY <1>1, <1>2, <1>4, <1>5, <1>6
  DEF SpeechInv, WorkIsCurrent, F!MachineHolds, F!MachineHeld
<1>. QED BY <1>7, <1>8, <1>9 DEF WorkInv

(* The speech of a reply.                                                   *)
LEMMA TakeSynthesisKeepsWorkInv ==
  ASSUME F!FloorInv, WorkInv, TakePendingSynthesis PROVE WorkInv'
<1>1. /\ Idle /\ hearing # "gone" /\ pendingSynthesis # 0 /\ pendingSynthesis' = 0
      /\ syntheses' = syntheses \cup {[turn |-> pendingSynthesis, index |-> 1]}
      /\ F!Unmoved /\ UNCHANGED <<handler, streaming, hearing, launched, calls>>
      /\ UNCHANGED <<replyText, pendingResponse, pendingSegments, streamTurn>>
  BY DEF TakePendingSynthesis, surroundings, audio
<1>2. UNCHANGED <<state, turn, finalSeen, segments>>
  BY <1>1 DEF F!Unmoved, F!reply
<1>3. pendingSynthesis = turn /\ Len(segments) = 1 /\ state = "speaking"
  BY <1>1 DEF WorkInv, SpeechInv, WorkIsCurrent
<1>4. segments \in Seq(F!Segment)
  BY ConversationAssumption DEF F!FloorInv, F!TypeOK
<1>5. \A i \in DOMAIN segments : i = 1
  BY <1>3, <1>4
<1>6. \A i \in DOMAIN segments' : Awaited(i)'
  BY <1>1, <1>2, <1>3, <1>5 DEF Awaited
<1>7. ResponseInv' /\ StreamInv' /\ WorkIsCurrent'
  BY <1>1, <1>2
  DEF WorkInv, ResponseInv, StreamInv, WorkIsCurrent, Alone, Answering, Answers, F!MachineHolds
<1>8. SpeechInv'
  BY <1>1, <1>6 DEF SpeechInv
<1>. QED BY <1>7, <1>8 DEF WorkInv

LEMMA TakeSegmentKeepsWorkInv ==
  ASSUME TypeInv, WorkInv, TakePendingSegment PROVE WorkInv'
<1>1. /\ Idle /\ hearing # "gone" /\ pendingSegments # <<>>
      /\ syntheses' = syntheses \cup {Head(pendingSegments)}
      /\ pendingSegments' = Tail(pendingSegments)
      /\ F!Unmoved /\ UNCHANGED <<handler, streaming, hearing, launched, calls>>
      /\ UNCHANGED <<replyText, pendingResponse, pendingSynthesis, streamTurn>>
  BY DEF TakePendingSegment, surroundings, audio
<1>2. UNCHANGED <<state, turn, finalSeen, segments>>
  BY <1>1 DEF F!Unmoved, F!reply
<1>3. pendingSegments \in Seq(Piece)
  BY DEF TypeInv, TypeOK
<1>4. /\ 1 \in DOMAIN pendingSegments /\ Head(pendingSegments) = pendingSegments[1]
      /\ pendingSegments[1] \in Piece
      /\ \A j \in DOMAIN pendingSegments' :
           j + 1 \in DOMAIN pendingSegments /\ pendingSegments'[j] = pendingSegments[j + 1]
      /\ \A j \in DOMAIN pendingSegments :
           j = 1 \/ (j - 1 \in DOMAIN pendingSegments'
                     /\ pendingSegments'[j - 1] = pendingSegments[j])
  BY <1>1, <1>3
<1>5. \A j \in DOMAIN pendingSegments : pendingSegments[j].turn = turn
  BY <1>1 DEF WorkInv, WorkIsCurrent
<1>6. pendingSegments[1] = [turn |-> turn, index |-> pendingSegments[1].index]
  BY <1>4, <1>5 DEF Piece
<1>7. ASSUME NEW i, Awaited(i) PROVE Awaited(i)'
  <2>1. CASE [turn |-> turn, index |-> i] \in syntheses \/ pendingSynthesis = turn
    BY <1>1, <1>2, <2>1 DEF Awaited
  <2>2. ASSUME NEW j \in DOMAIN pendingSegments, pendingSegments[j].index = i
        PROVE  Awaited(i)'
    <3>1. CASE j = 1
      BY <1>1, <1>2, <1>4, <1>6, <2>2, <3>1 DEF Awaited
    <3>2. CASE j # 1
      BY <1>4, <2>2, <3>2 DEF Awaited
    <3>. QED BY <3>1, <3>2
  <2>. QED BY <1>7, <2>1, <2>2 DEF Awaited
<1>8. ResponseInv' /\ StreamInv'
  BY <1>1, <1>2 DEF WorkInv, ResponseInv, StreamInv, Alone, Answering, Answers
<1>9. WorkIsCurrent'
  BY <1>1, <1>2, <1>4 DEF WorkInv, WorkIsCurrent, F!MachineHolds
<1>10. SpeechInv'
  <2>1. SpeechInv
    BY DEF WorkInv
  <2>. QED BY <1>1, <1>2, <1>7, <2>1 DEF SpeechInv, F!HasAudio
<1>. QED BY <1>8, <1>9, <1>10 DEF WorkInv

LEMMA TtsAudioKeepsWorkInv ==
  ASSUME F!FloorInv, TypeInv, WorkInv, hearing # "gone",
         NEW piece \in Piece, NEW size \in 0..MaxChunks, OnTtsAudio(piece, size)
  PROVE  WorkInv'
<1>1. /\ Idle /\ syntheses' = syntheses \ {piece} /\ OnFloorEvent(replyText)
      /\ UNCHANGED <<handler, streaming, launched, calls>>
  BY DEF OnTtsAudio, Synthesized, Heed, surroundings
<1>2. handler.kind # "surface" /\ handler'.kind # "surface"
  BY <1>1, IdleIsNotSurface
<1>3. Passing
  BY DEF OnTtsAudio, Ask, Passing
<1>4. ASSUME NEW i \in DOMAIN segments, GoesOn, state = "speaking", ~F!HasAudio(segments'[i]),
             [turn |-> turn, index |-> i] = piece
      PROVE  FALSE
  <2>1. piece.turn = turn /\ piece.index = i
    BY <1>4
  <2>2. ~F!HasAudio(segments[i])
    BY <1>4 DEF GoesOn
  <2>3. F!OnAudioReady(turn, i, size)
    BY <1>4, <2>1, <2>2 DEF OnTtsAudio, Ask, F!Accepts
  <2>4. CASE size = 0
    <3>1. F!Fail
      BY <2>3, <2>4 DEF F!OnAudioReady
    <3>. QED BY <1>4, <3>1 DEF F!Fail, F!Release, GoesOn
  <2>5. CASE size # 0
    <3>1. segments' = [segments EXCEPT ![i] = [@ EXCEPT !.total = size, !.voice = turn]]
          /\ size > 0
      BY <2>3, <2>5 DEF F!OnAudioReady
    <3>2. segments \in Seq(F!Segment) /\ turn \in Nat
      BY ConversationAssumption DEF F!FloorInv, F!TypeOK
    <3>3. segments[i] \in F!Segment
      BY <1>4, <3>2
    <3>4. segments'[i] = [segments[i] EXCEPT !.total = size, !.voice = turn]
      BY <1>4, <3>1, <3>2
    <3>5. segments'[i].total = size
      BY <3>3, <3>4 DEF F!Segment
    <3>. QED BY <1>4, <3>1, <3>5 DEF F!HasAudio
  <2>. QED BY <2>4, <2>5
<1>. QED BY <1>1, <1>2, <1>3, <1>4, PassingKeepsWorkInv

LEMMA FailTtsKeepsWorkInv ==
  ASSUME F!FloorInv, TypeInv, WorkInv, hearing # "gone", NEW piece \in Piece, FailTts(piece)
  PROVE  WorkInv'
<1>1. /\ Idle /\ syntheses' = syntheses \ {piece} /\ OnFloorEvent(replyText)
      /\ UNCHANGED <<handler, streaming, launched, calls>>
  BY DEF FailTts, Synthesized, Heed, surroundings
<1>2. handler.kind # "surface" /\ handler'.kind # "surface"
  BY <1>1, IdleIsNotSurface
<1>3. CASE piece.turn = turn /\ F!AcceptsFailure("tts")
  <2>1. F!FailStage("tts", piece.turn)
    BY <1>3 DEF FailTts, Ask
  <2>2. Passing
    BY <2>1 DEF Passing, F!Unarmed
  <2>3. state = "speaking" => ~GoesOn
    BY <2>1 DEF F!FailStage, F!Fail, F!Release, GoesOn
  <2>. QED BY <1>1, <1>2, <2>2, <2>3, PassingKeepsWorkInv
<1>4. CASE ~(piece.turn = turn /\ F!AcceptsFailure("tts"))
  <2>1. Passing
    BY <1>4 DEF FailTts, Ask, Passing
  <2>2. state = "speaking" => piece.turn # turn
    BY <1>4 DEF F!AcceptsFailure
  <2>. QED BY <1>1, <1>2, <2>1, <2>2, PassingKeepsWorkInv
<1>. QED BY <1>3, <1>4

LEMMA ResponseKeepsWorkInv ==
  ASSUME F!FloorInv, TypeInv, WorkInv, hearing # "gone", Response PROVE WorkInv'
<1>1. turn \in Nat /\ launched \subseteq Nat
  BY ConversationAssumption DEF F!FloorInv, F!TypeOK, TypeInv, TypeOK, Turns
<1>2. CASE LaunchResponse
  BY <1>1, <1>2, LaunchKeepsWorkInv
<1>3. ASSUME NEW t \in Turns,
             \/ BeginResponse(t) \/ OnGenerateResponse(t) \/ FailGenerate(t)
             \/ OnGenerateStreamEnd(t) \/ AbandonStreamForToolCall(t)
      PROVE  WorkInv'
  BY <1>1, <1>3, BeginKeepsWorkInv, GenerateResponseKeepsWorkInv, FailGenerateKeepsWorkInv,
     StreamEndKeepsWorkInv, AbandonKeepsWorkInv
<1>4. ASSUME NEW t \in Turns, OnGenerateDelta(t) PROVE WorkInv'
  <2>1. /\ F!OnReplySegment(t, FALSE) /\ OnFloorEvent(replyText) /\ Idle /\ streaming
        /\ t \in calls /\ Live(t)
        /\ UNCHANGED <<handler, streaming, launched, syntheses, calls>>
    BY <1>4 DEF OnGenerateDelta, Heed, surroundings, tasks
  <2>. QED BY <2>1, SegmentKeepsWorkInv
<1>5. CASE TakePendingSynthesis \/ TakePendingSegment
  BY <1>5, TakeSynthesisKeepsWorkInv, TakeSegmentKeepsWorkInv
<1>6. ASSUME NEW piece \in Piece, FailTts(piece) PROVE WorkInv'
  BY <1>6, FailTtsKeepsWorkInv
<1>7. ASSUME NEW piece \in Piece, NEW size \in 0..MaxChunks, OnTtsAudio(piece, size)
      PROVE  WorkInv'
  BY <1>7, TtsAudioKeepsWorkInv
<1>. QED BY <1>2, <1>3, <1>4, <1>5, <1>6, <1>7 DEF Response

(* What stays when nothing the work is made of changes.                     *)
LEMMA SameKeepsWorkInv ==
  ASSUME WorkInv, UNCHANGED <<state, turn, finalSeen, segments, streaming, handler, hearing>>,
         UNCHANGED <<replyText, pendingResponse, pendingSynthesis, pendingSegments, streamTurn>>,
         UNCHANGED <<launched, calls, syntheses>>
  PROVE  WorkInv'
<1>1. ResponseInv' /\ StreamInv' /\ WorkIsCurrent'
  BY DEF WorkInv, ResponseInv, StreamInv, WorkIsCurrent, Alone, Answering, Answers,
     F!MachineHolds
<1>2. SpeechInv'
  BY DEF WorkInv, SpeechInv, Awaited, F!HasAudio
<1>. QED BY <1>1, <1>2 DEF WorkInv

LEMMA NextKeepsWorkInv ==
  ASSUME F!FloorInv, TypeInv, WorkInv, Next PROVE WorkInv'
<1>1. CASE Elapse
  <2>1. /\ F!Elapse \/ F!Unmoved
        /\ UNCHANGED <<streaming, handler, audio, work, tasks>>
    BY <1>1 DEF Elapse
  <2>2. UNCHANGED <<state, turn, finalSeen, segments>>
    BY <2>1 DEF F!Elapse, F!Unmoved, F!reply
  <2>. QED BY <2>1, <2>2, SameKeepsWorkInv DEF audio, work, tasks
<1>2. CASE hearing = "gone"
  BY <1>1, <1>2, GoneIsIdle
<1>3. CASE hearing # "gone" /\ (DeliverNext \/ Tick)
  <2>1. /\ Passing /\ Idle /\ OnFloorEvent(replyText)
        /\ UNCHANGED <<streaming, handler, launched, calls, syntheses>>
    BY <1>3 DEF DeliverNext, Tick, Passing, Heed, surroundings, tasks
  <2>2. handler.kind # "surface" /\ handler'.kind # "surface"
    BY <2>1, IdleIsNotSurface
  <2>. QED BY <1>3, <2>1, <2>2, PassingKeepsWorkInv
<1>4. CASE Close
  <2>1. /\ state' = "closed" /\ hearing' = "gone" /\ Idle /\ handler' = handler
        /\ launched' = {} /\ calls' = {} /\ UNCHANGED <<streaming, pendingSynthesis>>
    BY <1>4 DEF Close, F!Close, F!Disarm, F!DropReply, work
  <2>2. handler'.kind = "none"
    BY <2>1, IdleIsNotSurface
  <2>3. ResponseInv' /\ StreamInv' /\ WorkIsCurrent'
    BY <2>1, <2>2 DEF ResponseInv, StreamInv, WorkIsCurrent, Answers
  <2>4. SpeechInv'
    BY <2>1 DEF WorkInv, SpeechInv
  <2>. QED BY <2>3, <2>4 DEF WorkInv
<1>5. CASE hearing # "gone" /\ (Client \/ Speaker \/ Response \/ Handler)
  BY <1>5, ClientKeepsWorkInv, SpeakerKeepsWorkInv, ResponseKeepsWorkInv, HandlerKeepsWorkInv
<1>. QED BY <1>1, <1>2, <1>3, <1>4, <1>5 DEF Next

LEMMA WorkInvHolds == Spec => []WorkInv
<1>1. Init => WorkInv
  <2>. SUFFICES ASSUME Init PROVE WorkInv
    OBVIOUS
  <2>1. /\ state = "listening" /\ streamTurn = 0 /\ pendingResponse = 0 /\ pendingSynthesis = 0
        /\ pendingSegments = <<>> /\ replyText = 0 /\ handler.kind = "none"
        /\ launched = {} /\ calls = {}
    BY DEF Init, F!Init, NoHandler
  <2>. QED
    BY <2>1 DEF WorkInv, ResponseInv, StreamInv, SpeechInv, WorkIsCurrent, Answering, Answers
<1>2. ASSUME F!FloorInv, TypeInv, WorkInv, [Next]_vars PROVE WorkInv'
  <2>1. CASE UNCHANGED vars
    BY <1>2, <2>1, SameKeepsWorkInv DEF vars, floorVars, work, audio, tasks
  <2>. QED BY <1>2, <2>1, NextKeepsWorkInv
<1>. QED BY <1>1, <1>2, FloorInvHolds, TypeInvHolds, PTL DEF Spec

(* Nothing the bridge still has to do is left over from another turn: what  *)
(* _clear_turn drops, begin_generate_stream drops again and the late        *)
(* answers of the earlier turn do not bring back.                           *)
THEOREM WorkIsCurrentHolds == Spec => []WorkIsCurrent
<1>1. WorkInv => WorkIsCurrent
  BY DEF WorkInv
<1>. QED BY <1>1, WorkInvHolds, PTL

(* What the floor waits for is being made: the response of a turn is in one *)
(* place, an unfinished reply has its stream, and every sentence without    *)
(* audio is queued or being spoken.                                         *)
THEOREM WaitedForIsUnderWayHolds == Spec => []WaitedForIsUnderWay
<1>1. WorkInv => WaitedForIsUnderWay
  BY IdleIsNotSurface
  DEF WorkInv, ResponseInv, StreamInv, SpeechInv, Alone, WaitedForIsUnderWay
<1>. QED BY <1>1, WorkInvHolds, PTL

-----------------------------------------------------------------------------
(* The speculations, and the request that is adopted.                       *)

LEMMA ConversationOfRoute == RouteSpec => Spec
BY SpeculationIsHidden DEF IsConversation

Asked == [role : Roles, turn : 1..MaxTurns + 1, leg : 0..MaxLegs, words : SUBSET Utterances]

Starting == [Gone EXCEPT !.words = carried \cup {said}, !.at = "transcribing"]

(* What a step makes of a speculation: it stays, is gone, starts, or goes   *)
(* on by itself.                                                            *)
Moves(p) ==
  \/ specs'[p] \in {specs[p], Gone}
  \/ specs'[p] = Starting /\ hearing = "speech" /\ UNCHANGED vars
  \/ specs'[p] \in Advanced(specs[p]) /\ UNCHANGED vars

LEMMA HookedMoves ==
  ASSUME NEW f, NEW p \in Pauses, f[p] \in {specs[p], Gone}
  PROVE  Hooked(f)[p] \in {specs[p], Gone}
BY DEF Hooked, Cancelled

LEMMA DroppedMoves ==
  ASSUME NEW p \in Pauses PROVE Dropped(specs)[p] \in {specs[p], Gone}
BY DEF Dropped, Cancelled

LEMMA RouteMovesSpecs ==
  ASSUME SnapshotInv, RouteNext, NEW p \in Pauses PROVE Moves(p)
<1>1. CASE SpeechStarted
  BY <1>1, DroppedMoves, HookedMoves DEF SpeechStarted, Moves
<1>2. CASE SpeechPaused
  <2>1. CASE DropSpeculation
    BY <2>1, DroppedMoves DEF DropSpeculation, Moves
  <2>2. CASE StartSpeculation
    <3>1. specs' = [Dropped(specs) EXCEPT ![<<said, stretches>>] = Starting]
      BY <2>2 DEF StartSpeculation, Starting
    <3>2. DOMAIN Dropped(specs) = Pauses
      BY DroppedIsShaped DEF SnapshotInv, Bounds, Shaped
    <3>. QED BY <1>2, <3>1, <3>2, DroppedMoves DEF SpeechPaused, Moves
  <2>. QED BY <1>2, <2>1, <2>2 DEF SpeechPaused
<1>3. CASE SpeechResumed \/ GiveUpSpeculation
  BY <1>3, DroppedMoves DEF SpeechResumed, GiveUpSpeculation, DropSpeculation, Moves
<1>4. ASSUME NEW silence \in BOOLEAN, NEW resumed \in BOOLEAN, SpeechStopped(silence, resumed)
      PROVE  Moves(p)
  <2>1. specs' = Hooked(specs) \/ specs' = Hooked(Dropped(specs))
    BY <1>4 DEF SpeechStopped
  <2>. QED BY <2>1, DroppedMoves, HookedMoves DEF Moves
<1>5. CASE UseTranscript \/ Transcribe \/ Aside
  BY <1>5, HookedMoves DEF UseTranscript, Transcribe, Aside, Moves
<1>6. CASE Speculate
  <2>1. PICK q \in Pauses : \E s \in Advanced(specs[q]) : specs' = [specs EXCEPT ![q] = s]
    BY <1>6 DEF Speculate
  <2>2. PICK s \in Advanced(specs[q]) : specs' = [specs EXCEPT ![q] = s]
    BY <2>1
  <2>. QED BY <1>6, <2>2 DEF Speculate, Moves, SnapshotInv, Bounds, Shaped
<1>7. CASE Launch
  BY <1>7 DEF Launch, Moves
<1>8. ASSUME NEW t \in Turns, Ended(t) PROVE Moves(p)
  <2>1. Hooked(specs)[p] \in {specs[p], Gone}
    BY HookedMoves
  <2>. QED BY <1>8, <2>1 DEF Ended, Moves
<1>9. ASSUME NEW t \in Turns, Begin(t) \/ Delta(t) PROVE Moves(p)
  BY <1>9 DEF Begin, Delta, hidden, Moves, SnapshotInv, Bounds, Shaped
<1>10. CASE Leave
  BY <1>10 DEF Leave, Moves
<1>. QED
  BY <1>1, <1>2, <1>3, <1>4, <1>5, <1>6, <1>7, <1>8, <1>9, <1>10
  DEF RouteNext, Boundaries, TranscribeTurn, StreamEnds, StreamFails, StreamCancelled

(* The request of a speculation is that of its turn, the one after the last.*)
LEMMA RequestIsTyped ==
  ASSUME history \in Seq(Message), turn \in 0..MaxTurns, NEW words \in SUBSET Utterances
  PROVE  Append(history, Entry("user", turn + 1, 0, words)) \in Seq(Asked)
<1>1. Entry("user", turn + 1, 0, words) \in Asked
  BY ConversationAssumption DEF Entry, Asked, Roles
<1>2. Message \subseteq Asked
  BY ConversationAssumption DEF Message, Asked, Turns
<1>3. history \in Seq(Asked)
  <2>1. Len(history) \in Nat /\ history \in [1..Len(history) -> Message]
    OBVIOUS
  <2>2. history \in [1..Len(history) -> Asked]
    BY <1>2, <2>1
  <2>. QED BY <2>1, <2>2, SeqDef
<1>. QED BY <1>1, <1>3

LEMMA AdvancedIsTyped ==
  ASSUME TypeInv, F!FloorInv, NEW s, DOMAIN s = {"words", "at", "heard", "request"},
         IsSpeculation(s), NEW r \in Advanced(s)
  PROVE  IsSpeculation(r)
<1>1. s.words \subseteq Utterances /\ s.request \in Seq(Asked)
      /\ s.heard \in {"nothing", "text", "blank", "failed"}
  BY DEF IsSpeculation, Asked
<1>2. history \in Seq(Message) /\ turn \in 0..MaxTurns
  BY DEF TypeInv, TypeOK, Message, F!FloorInv, F!TypeOK
<1>3. Append(history, Entry("user", turn + 1, 0, s.words)) \in Seq(Asked)
  BY <1>1, <1>2, RequestIsTyped
<1>4. /\ r.words = s.words /\ r.at \in {"streaming", "ended", "failed"}
      /\ r.heard \in {s.heard, "text", "blank", "failed"}
      /\ r.request \in {s.request, Append(history, Entry("user", turn + 1, 0, s.words))}
  BY DEF Advanced, Transcribed, Requested
<1>. QED BY <1>1, <1>3, <1>4 DEF IsSpeculation, Asked

LEMMA GoneIsTyped == IsSpeculation(Gone)
<1>1. <<>> \in Seq(Asked)
  OBVIOUS
<1>. QED BY <1>1 DEF Gone, IsSpeculation, NoWords, Asked

SpecsTyped == paused \in BOOLEAN /\ \A p \in Pauses : IsSpeculation(specs[p])

LEMMA RouteKeepsSpecsTyped ==
  ASSUME SnapshotInv, TypeInv, F!FloorInv, SpecsTyped, RouteNext PROVE SpecsTyped'
<1>1. paused' \in BOOLEAN
  BY DEF SpecsTyped, RouteNext, Boundaries, TranscribeTurn, SpeechStarted, SpeechPaused,
     SpeechResumed, SpeechStopped, UseTranscript, GiveUpSpeculation, Transcribe, Speculate,
     Launch, Begin, Delta, hidden, StreamEnds, StreamFails, StreamCancelled, Ended, Aside, Leave
<1>2. ASSUME NEW p \in Pauses PROVE IsSpeculation(specs'[p])
  <2>1. Moves(p)
    BY RouteMovesSpecs
  <2>2. CASE specs'[p] \in {specs[p], Gone}
    BY <2>2, GoneIsTyped DEF SpecsTyped
  <2>3. CASE specs'[p] = Starting /\ hearing = "speech"
    <3>1. carried \cup {said} \subseteq Utterances
      BY <2>3 DEF TypeInv, TypeOK, SnapshotInv, Bounds, Utterances
    <3>2. <<>> \in Seq(Asked)
      OBVIOUS
    <3>3. /\ Starting.words = carried \cup {said} /\ Starting.at = "transcribing"
          /\ Starting.heard = "nothing" /\ Starting.request = <<>>
      BY DEF Starting, Gone
    <3>. QED BY <2>3, <3>1, <3>2, <3>3 DEF IsSpeculation, Asked
  <2>4. CASE specs'[p] \in Advanced(specs[p])
    BY <2>4, AdvancedIsTyped DEF SpecsTyped, SnapshotInv, Bounds, Shaped
  <2>. QED BY <2>1, <2>2, <2>3, <2>4 DEF Moves
<1>3. (\A p \in Pauses : IsSpeculation(specs[p]))'
  BY <1>2 DEF IsSpeculation
<1>. QED BY <1>1, <1>3 DEF SpecsTyped

LEMMA SpecsTypedHolds == RouteSpec => []SpecsTyped
<1>1. RouteInit => SpecsTyped
  BY GoneIsTyped DEF RouteInit, SpecsTyped
<1>2. ASSUME SnapshotInv, TypeInv, F!FloorInv, SpecsTyped, [RouteNext]_routeVars PROVE SpecsTyped'
  <2>1. CASE UNCHANGED routeVars
    BY <1>2, <2>1 DEF routeVars, hidden, SpecsTyped, IsSpeculation
  <2>. QED BY <1>2, <2>1, RouteKeepsSpecsTyped
<1>. QED
  BY <1>1, <1>2, ConversationOfRoute, SnapshotInvHolds, TypeInvHolds, FloorInvHolds, PTL
  DEF RouteSpec

(* Every variable of a conversation with speculation keeps its range: the   *)
(* request of a speculation is a history with one more user entry           *)
(* (build_speculative_request).                                             *)
THEOREM RouteTypeOKHolds == RouteSpec => []RouteTypeOK
<1>1. SnapshotInv /\ TypeOK /\ SpecsTyped => RouteTypeOK
  BY DEF SnapshotInv, Bounds, Shaped, SpecsTyped, RouteTypeOK
<1>. QED
  BY <1>1, ConversationOfRoute, SnapshotInvHolds, TypeOKHolds, SpecsTypedHolds, PTL

(* The history begins with these messages.                                  *)
Begins(messages) ==
  Len(messages) <= Len(history) /\ \A i \in 1..Len(messages) : messages[i] = history[i]

(* A response that may still be heard streams what its turn asked for.      *)
AdoptInv ==
  (turn \in calls /\ given[turn] # NoPause /\ F!MachineHolds) =>
    Begins(specs[given[turn]].request)

(* While a turn goes on, the history only grows.                            *)
LEMMA HeldTurnWrites ==
  ASSUME HistoryMove, Answering'
  PROVE  /\ turn' = turn /\ F!MachineHolds
         /\ history' = history \/ \E e : history' = Append(history, e)
<1>. USE DEF Answering, F!MachineHolds, F!MachineHeld
<1>1. ~Onward
  BY DEF Onward
<1>2. CASE NothingWritten
  BY <1>1, <1>2 DEF NothingWritten, Proceeds
<1>3. CASE UserWritten \/ CallWritten
  BY <1>3 DEF UserWritten, CallWritten, Written
<1>4. CASE ReplyWritten \/ ResultWritten
  BY <1>1, <1>4 DEF ReplyWritten, ResultWritten, Written
<1>5. CASE TurnTakenBack \/ Close
  BY <1>5 DEF TurnTakenBack, Close, F!OnContinuationOnset, F!Interrupt, F!Release, F!Close
<1>. QED BY <1>2, <1>3, <1>4, <1>5 DEF HistoryMove

LEMMA GrowingBegins ==
  ASSUME history \in Seq(Message), NEW messages \in Seq(Asked), Begins(messages),
         history' = history \/ \E e : history' = Append(history, e)
  PROVE  Len(messages) <= Len(history') /\ \A i \in 1..Len(messages) : messages[i] = history'[i]
<1>1. Len(history) \in Nat /\ Len(messages) \in Nat
  OBVIOUS
<1>2. CASE history' = history
  BY <1>2 DEF Begins
<1>3. ASSUME NEW e, history' = Append(history, e)
      PROVE  Len(messages) <= Len(history') /\ \A i \in 1..Len(messages) : messages[i] = history'[i]
  <2>1. Len(history') = Len(history) + 1 /\ \A i \in 1..Len(history) : history'[i] = history[i]
    BY <1>3
  <2>. QED BY <1>1, <2>1 DEF Begins
<1>. QED BY <1>2, <1>3

(* A call is asked for only by a response that begins.                      *)
LEMMA OnlyBeginCalls ==
  ASSUME Next, NEW t, t \in calls', t \notin calls PROVE t \in Turns /\ BeginResponse(t)
BY DEF Next, Client, ResponseCreateForTool, ResponseCreate, OnFunctionCallOutput, Speaker,
   OnSpeechStarted, OnSpeechStopped, OnTranscript, OnTranscriptionFailed, Response,
   LaunchResponse, BeginResponse, OnGenerateResponse, FailGenerate, OnGenerateDelta,
   OnGenerateStreamEnd, AbandonStreamForToolCall, TakePendingSynthesis, TakePendingSegment,
   FailTts, OnTtsAudio, Synthesized, Handler, AnswerPending, SurfaceToolCall, DeliverNext, Tick,
   Elapse, Close, tasks

LEMMA OnlyBeginAsks ==
  ASSUME SnapshotInv, GoneInv, RouteNext, NEW t, t \in calls', t \notin calls
  PROVE  t \in Turns /\ Begin(t)
<1>1. Next \/ UNCHANGED vars
  BY StepIsConversation
<1>2. Next
  BY <1>1 DEF vars, tasks
<1>3. t \in Turns /\ BeginResponse(t)
  BY <1>2, OnlyBeginCalls
<1>4. calls' = calls \cup {t} /\ launched' # launched
  BY <1>3 DEF BeginResponse
<1>5. \E u \in Turns : Begin(u)
  BY <1>4
  DEF RouteNext, Boundaries, TranscribeTurn, SpeechStarted, SpeechPaused, SpeechResumed,
      SpeechStopped, UseTranscript, GiveUpSpeculation, Transcribe, Speculate, Launch,
      Delta, StreamEnds, StreamFails, StreamCancelled, Aside, Leave, OnSpeechStarted,
      OnSpeechStopped, OnTranscript, OnTranscriptionFailed, OnGenerateDelta, FailGenerate,
      OnGenerateStreamEnd, AbandonStreamForToolCall, Client, ResponseCreateForTool,
      ResponseCreate, OnFunctionCallOutput, Handler, AnswerPending, SurfaceToolCall,
      DeliverNext, Tick, Elapse, Close, TakePendingSegment, FailTts, OnTtsAudio, Synthesized,
      LaunchResponse, vars, tasks
<1>6. PICK u \in Turns : Begin(u)
  BY <1>5
<1>7. calls' \in {calls, calls \cup {u}}
  BY <1>6 DEF Begin, BeginResponse
<1>. QED BY <1>3, <1>6, <1>7

LEMMA OnlyLaunchGives ==
  ASSUME SnapshotInv, RouteNext, ~Launch, NEW t \in Turns
  PROVE  given'[t] \in {given[t], NoPause}
<1>1. given \in [Turns -> Pauses \cup {NoPause}]
  BY DEF SnapshotInv, Bounds
<1>. QED
  BY <1>1 DEF RouteNext, Boundaries, TranscribeTurn, SpeechStarted, SpeechPaused, SpeechResumed,
     SpeechStopped, UseTranscript, GiveUpSpeculation, Transcribe, Speculate, Begin, Delta,
     hidden, StreamEnds, StreamFails, StreamCancelled, Ended, Aside, Leave

(* A turn that is held takes nothing new from its speculation.              *)
LEMMA HeldRequestStays ==
  ASSUME F!MachineHolds, NEW p \in Pauses, Moves(p),
         DOMAIN specs[p] = {"words", "at", "heard", "request"}
  PROVE  specs'[p].request \in {specs[p].request, <<>>}
<1>1. ~MaySpeculate
  BY DEF MaySpeculate, F!MachineHolds, F!MachineHeld
<1>2. CASE specs'[p] \in {specs[p], Gone, Starting}
  <2>1. Gone.request = <<>> /\ Starting.request = <<>>
    BY DEF Gone, Starting
  <2>. QED BY <1>2, <2>1
<1>3. CASE specs'[p] \in Advanced(specs[p])
  BY <1>1, <1>3 DEF Advanced, Transcribed, Requested
<1>. QED BY <1>2, <1>3 DEF Moves

LEMMA RouteKeepsAdoptInv ==
  ASSUME SnapshotInv, GoneInv, SpecsTyped, F!FloorInv, CallInv, TypeInv, WorkInv, WorkInv',
         AdoptInv, RouteNext
  PROVE  AdoptInv'
<1>. SUFFICES ASSUME (turn \in calls /\ given[turn] # NoPause /\ F!MachineHolds)'
     PROVE  Begins(specs[given[turn]].request)'
  BY DEF AdoptInv
<1>1. history \in Seq(Message)
  BY DEF TypeInv, TypeOK, Message
<1>2. Answering'
  BY DEF WorkInv, ResponseInv, Answering, F!MachineHolds, F!MachineHeld
<1>3. Next \/ UNCHANGED vars
  BY StepIsConversation
<1>4. /\ turn' = turn /\ F!MachineHolds
      /\ history' = history \/ \E e : history' = Append(history, e)
  <2>1. CASE Next
    BY <1>2, <2>1, NextWrites, HeldTurnWrites
  <2>2. CASE UNCHANGED vars
    BY <2>2 DEF vars, floorVars, F!MachineHolds
  <2>. QED BY <1>3, <2>1, <2>2
<1>5. ASSUME turn \in calls, turn \in Turns, given'[turn] = given[turn]
      PROVE  Begins(specs[given[turn]].request)'
  <2>1. given[turn] \in Pauses
    BY <1>4, <1>5 DEF SnapshotInv, Bounds
  <2>. DEFINE messages == specs[given[turn]].request
  <2>2. specs'[given[turn]].request \in {messages, <<>>}
    <3>1. DOMAIN specs[given[turn]] = {"words", "at", "heard", "request"}
      BY <2>1 DEF SnapshotInv, Bounds, Shaped
    <3>. QED BY <1>4, <2>1, <3>1, RouteMovesSpecs, HeldRequestStays
  <2>3. messages \in Seq(Asked) /\ Begins(messages)
    BY <1>4, <1>5, <2>1 DEF AdoptInv, SpecsTyped, IsSpeculation, Asked
  <2>4. /\ Len(messages) <= Len(history')
        /\ \A i \in 1..Len(messages) : messages[i] = history'[i]
    BY <1>1, <1>4, <2>3, GrowingBegins
  <2>5. Len(history') \in Nat /\ Len(<<>>) = 0
    BY <1>1, <1>4
  <2>6. specs'[given'[turn']].request \in {messages, <<>>}
    BY <1>4, <1>5, <2>2
  <2>. QED
    <3>. HIDE DEF messages
    <3>. QED BY <2>4, <2>5, <2>6 DEF Begins
<1>6. CASE Launch
  <2>1. /\ Idle /\ hearing # "gone" /\ pendingResponse # 0 /\ calls' = calls
        /\ \A t \in Turns : t # pendingResponse => given'[t] = given[t]
    BY <1>6 DEF Launch, LaunchResponse, SnapshotInv, Bounds
  <2>2. pendingResponse = turn /\ turn \notin calls
    BY <2>1, IdleIsNotSurface DEF WorkInv, WorkIsCurrent, ResponseInv, Alone
  <2>. QED BY <1>4, <2>1, <2>2
<1>7. CASE turn \notin calls
  <2>1. Begin(turn)
    BY <1>4, <1>7, OnlyBeginAsks
  <2>2. UNCHANGED <<state, history>> /\ F!Accepts("responding", turn)
    BY <1>4, <1>7, <2>1 DEF Begin, BeginResponse, F!Unmoved
  <2>3. given' = given /\ specs' = specs /\ specs[given[turn]].request = history
    BY <1>4, <1>7, <2>1, <2>2 DEF Begin, CanAdopt, SnapshotInv, Bounds, BeginResponse,
       TypeInv, TypeOK
  <2>. QED BY <1>1, <1>4, <2>2, <2>3 DEF Begins
<1>8. CASE turn \in calls /\ ~Launch
  <2>1. turn \in Turns
    BY <1>8 DEF TypeInv, TypeOK
  <2>. QED BY <1>4, <1>5, <1>8, <2>1, OnlyLaunchGives
<1>. QED BY <1>6, <1>7, <1>8

LEMMA AdoptInvHolds == RouteSpec => []AdoptInv
<1>1. RouteInit => AdoptInv
  BY DEF RouteInit, Init, AdoptInv
<1>2. ASSUME SnapshotInv, GoneInv, SpecsTyped, F!FloorInv, CallInv, TypeInv, WorkInv, WorkInv',
             AdoptInv, [RouteNext]_routeVars
      PROVE  AdoptInv'
  <2>1. CASE UNCHANGED routeVars
    <3>1. UNCHANGED <<turn, state, calls, given, specs, history>>
      BY <2>1 DEF routeVars, hidden, vars, floorVars, tasks
    <3>. QED BY <1>2, <3>1 DEF AdoptInv, Begins, F!MachineHolds
  <2>. QED BY <1>2, <2>1, RouteKeepsAdoptInv
<1>. QED
  BY <1>1, <1>2, ConversationOfRoute, SnapshotInvHolds, GoneInvHolds, SpecsTypedHolds,
     FloorInvHolds, CallInvHolds, TypeInvHolds, WorkInvHolds, PTL DEF RouteSpec

LEMMA BeginsIsPrefix ==
  ASSUME history \in Seq(Message), NEW messages \in Seq(Asked), Begins(messages)
  PROVE  messages = SubSeq(history, 1, Len(messages))
<1>. DEFINE n == Len(messages)
<1>1. n \in Nat /\ n <= Len(history) /\ \A i \in 1..n : messages[i] = history[i]
  BY DEF Begins
<1>2. messages = [i \in 1..n |-> messages[i]]
  OBVIOUS
<1>3. SubSeq(history, 1, n) = [i \in 1..n |-> history[i]]
  BY <1>1
<1>. QED BY <1>1, <1>2, <1>3

(* A reply that was generated before its turn was committed is the answer   *)
(* to that turn: while it may still be heard, the history begins with what  *)
(* its request said, however the session went in between (can_adopt,        *)
(* build_speculative_request, build_generate_request).                      *)
THEOREM AdoptedAnswersItsTurnHolds == RouteSpec => []AdoptedAnswersItsTurn
<1>1. SnapshotInv /\ SpecsTyped /\ TypeInv /\ AdoptInv => AdoptedAnswersItsTurn
  <2>. SUFFICES ASSUME SnapshotInv, SpecsTyped, TypeInv, AdoptInv,
                       NEW t \in calls, given[t] # NoPause, t = turn, F!MachineHolds
       PROVE  specs[given[t]].request = SubSeq(history, 1, Len(specs[given[t]].request))
    BY DEF AdoptedAnswersItsTurn
  <2>1. given[t] \in Pauses
    BY DEF SnapshotInv, Bounds, TypeInv, TypeOK
  <2>2. specs[given[t]].request \in Seq(Asked) /\ Begins(specs[given[t]].request)
    BY <2>1 DEF AdoptInv, SpecsTyped, IsSpeculation, Asked
  <2>3. history \in Seq(Message)
    BY DEF TypeInv, TypeOK, Message
  <2>. QED BY <2>2, <2>3, BeginsIsPrefix
<1>. QED
  BY <1>1, ConversationOfRoute, SnapshotInvHolds, SpecsTypedHolds, TypeInvHolds, AdoptInvHolds,
     PTL

-----------------------------------------------------------------------------
(* What the floor promises, kept in every conversation.                     *)

LEMMA FloorAssumptionHolds == P!FloorAssumption
BY ConversationAssumption DEF P!FloorAssumption, P!Stages

(* In every conversation, and so with speculation too, the floor never      *)
(* wedges, audio goes out in order, and none of it is an answer to an       *)
(* earlier turn (_rearm_speaking, deliver_next, on_audio_ready).            *)
THEOREM FloorOfConversationIsSound ==
  Spec => [](F!NeverWedged /\ F!DeliveryInOrder /\ F!ReplyBelongsToTurn)
<1>1. P!Spec => []P!NeverWedged
  BY FloorAssumptionHolds, P!NeverWedgedHolds
<1>2. P!NeverWedged => F!NeverWedged
  BY DEF P!NeverWedged, F!NeverWedged, P!MachineHolds, F!MachineHolds, P!MachineHeld,
     F!MachineHeld, P!Unarmed, F!Unarmed, P!Deliverable, F!Deliverable, P!HasAudio, F!HasAudio,
     P!Drained, F!Drained
<1>3. F!FloorInv => F!DeliveryInOrder /\ F!ReplyBelongsToTurn
  BY DEF F!FloorInv
<1>. QED
  BY <1>1, <1>2, <1>3, FloorInvHolds, ConversationDrivesFloor, FloorSpecIsTheirs, PTL

(* response.done is sent only when the whole reply was, in every            *)
(* conversation (deliver_next, on_reply_end).                               *)
THEOREM ConversationDoneMeansDelivered == Spec => F!DoneMeansDelivered
<1>1. P!Spec => P!DoneMeansDelivered
  BY FloorAssumptionHolds, P!DoneMeansDeliveredHolds
<1>2. [P!DoneDelivered]_P!floorVars => [F!DoneDelivered]_F!floorVars
  <2>1. \A segs : P!Unsent(segs) = F!Unsent(segs)
    BY DEF P!Unsent, F!Unsent, P!Drained, F!Drained, P!HasAudio, F!HasAudio
  <2>. QED BY <2>1 DEF P!DoneDelivered, F!DoneDelivered, P!floorVars, F!floorVars
<1>3. P!DoneMeansDelivered => F!DoneMeansDelivered
  BY <1>2, PTL DEF P!DoneMeansDelivered, F!DoneMeansDelivered
<1>. QED BY <1>1, <1>3, ConversationDrivesFloor, FloorSpecIsTheirs, PTL

(* What the client of any conversation is told of a turn: nothing, that it  *)
(* ended before it started, or one start, then progress, then exactly one   *)
(* end; and nothing afterwards.                                             *)
THEOREM ConversationKeepsProtocol == Spec => F!KeepsProtocol
<1>1. P!Spec => P!KeepsProtocol
  BY FloorAssumptionHolds, P!KeepsProtocolHolds
<1>2. P!PhaseOf = F!PhaseOf
  BY DEF P!PhaseOf, F!PhaseOf
<1>3. P!Protocol!Init => F!Protocol!Init
  BY <1>2 DEF P!Protocol!Init, F!Protocol!Init, P!Protocol!Silence, F!Protocol!Silence
<1>4. [P!Protocol!Next]_P!Protocol!protocolVars => [F!Protocol!Next]_F!Protocol!protocolVars
  <2>1. P!Protocol!Commit => F!Protocol!Commit
    BY <1>2 DEF P!Protocol!Commit, F!Protocol!Commit, P!Protocol!Silence, F!Protocol!Silence,
       P!Protocol!Notice, F!Protocol!Notice
  <2>2. P!Protocol!Dismiss => F!Protocol!Dismiss
    BY <1>2 DEF P!Protocol!Dismiss, F!Protocol!Dismiss, P!Protocol!Silence, F!Protocol!Silence
  <2>3. P!Protocol!Start => F!Protocol!Start
    BY <1>2 DEF P!Protocol!Start, F!Protocol!Start, P!Protocol!Notice, F!Protocol!Notice
  <2>4. P!Protocol!Progress => F!Protocol!Progress
    BY <1>2 DEF P!Protocol!Progress, F!Protocol!Progress, P!Protocol!Silence,
       F!Protocol!Silence, P!Protocol!Notice, F!Protocol!Notice, P!Protocol!ProgressKinds,
       F!Protocol!ProgressKinds
  <2>5. P!Protocol!Finish => F!Protocol!Finish
    BY <1>2 DEF P!Protocol!Finish, F!Protocol!Finish, P!Protocol!Notice, F!Protocol!Notice
  <2>6. P!Protocol!Abandon => F!Protocol!Abandon
    BY <1>2 DEF P!Protocol!Abandon, F!Protocol!Abandon, P!Protocol!Notice, F!Protocol!Notice
  <2>7. P!Protocol!Leave => F!Protocol!Leave
    BY <1>2 DEF P!Protocol!Leave, F!Protocol!Leave, P!Protocol!Silence, F!Protocol!Silence
  <2>8. P!Protocol!Quiet => F!Protocol!Quiet
    BY <1>2 DEF P!Protocol!Quiet, F!Protocol!Quiet, P!Protocol!Silence, F!Protocol!Silence
  <2>. QED
    BY <1>2, <2>1, <2>2, <2>3, <2>4, <2>5, <2>6, <2>7, <2>8 DEF P!Protocol!Next, F!Protocol!Next,
       P!Protocol!protocolVars, F!Protocol!protocolVars
<1>5. P!KeepsProtocol => F!KeepsProtocol
  BY <1>3, <1>4, PTL DEF P!KeepsProtocol, F!KeepsProtocol, P!Protocol!Spec, F!Protocol!Spec
<1>. QED BY <1>1, <1>5, ConversationDrivesFloor, FloorSpecIsTheirs, PTL
=============================================================================
