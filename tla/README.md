# Verification of lobes-cli

lobes-cli runs a fleet of model servers on one machine: it renders and starts a
docker compose stack (command line), puts a gateway in front of the models
(`lobes/gateway`), speaks a realtime voice protocol over a websocket
(`lobes/realtime`), keeps the machine cool and its lanes from starving each other
(`lobes/runtime`, `lobes/watcher`, the containers' entrypoint), and joins the gateways
of a LAN to a mesh. This directory holds TLA+ modules of the parts whose correctness
depends on the order of events, TLC configurations that check them, and TLAPS proofs.

Paths below are under `src/`. Every definition that models code is listed in
`PROJECT.json` under `map` with the lines it stands for.

## 1. Inventory

### Realtime voice (`lobes/realtime`)

| component | state | operations | who calls it |
|---|---|---|---|
| floor, `_floor.py` | state, turn, armed deadline and stage, leg, segment queue, current segment, guard window | its inputs: speech onset, commit, transcript, generate begin/partial/finish, tool leg, segment audio, deliver, tick, interrupt, resume, close | the bridge, synchronously |
| bridge, `_conversation.py` | opt-in, pending transcript, history, tool call, pending response, pending segments, stream turn, transcription, early commit | client events, segmenter events, transcript arrivals, stream deltas, ends and errors, tool results, ticks | the route |
| route, `app.py` | the receive loop, response task, pump, watchdog, live call | launches tasks, cancels them, feeds their results to the bridge | FastAPI, one set of tasks per websocket |
| speculation, `_speculation.py` and `app.py` | the latest speculation, the one given to each response | start at a pause, drop, hand over, adopt transcript or reply | the route |
| segmenter, `_segmenter.py`; chunker, `_sentences.py` | hysteresis counters, buffer | frames in; speech started, paused, resumed, stopped out | the route |
| session engine, `_session.py` | event and item ids, configuration | renders events, parses `session.update` | the route |

One asyncio loop runs everything of a session, so a handler is atomic between its
awaits; what interleaves is the order of *handlers*: the answer of a call that was
cancelled arrives after the next turn began; a transcription result arrives after a
newer one; the watchdog ticks between two chunks; a client sends
`response.create` in the middle of a reply; a tool result is sent twice, late, or
never; a request that was sent at a pause answers after the speaker went on. What
makes the voice path right:

* the floor never wedges: whoever holds it, something will end the turn;
* a turn tells the client one start and one end, and nothing after it;
* audio goes out in order, and never of another turn;
* the history stays one a chat backend accepts: user, calls with their results, reply;
* an utterance is answered once, and as a whole;
* speculation saves time and changes nothing else.

### Machine (`lobes/runtime`, `lobes/watcher`, `lobes/templates`)

| component | state | operations |
|---|---|---|
| thermal governor, `runtime/_governor.py` | cap last set, "we paused it"; outside it the container's own state and cap | poll, decide, pause, cap, cap-then-unpause, cleanup |
| lane wrapper, `templates/mg-logwrap.sh` | per lane the files `.held`, `.gated`, `.starts` | boot hold, count the start, back off, wait for memory, run the server |
| cache watcher, `watcher/_run.py` | last attempt, in memory and in a state file | poll markers, health and holds; drop the page cache; save |
| lifecycle verbs, `runtime/_compose.py` | none; they read the same markers | clear the page cache unless a lane is starting |
| pressure, `runtime/_pressure.py`, `gateway/_pressure_policy.py` | thermal latch | sample, decide |
| deployment lock, `runtime/_lock.py` | none at run time: `deployment.lock.toml` is a committed file of pinned versions, not a lock of processes | read, check, write |

Hard here: docker commands fail one at a time in the middle of a sequence, or are given
up and carried out later; a counter file is lost while it is written; other
users pause, unpause and stop the same container; a sensor gives no reading; the
process ends between two commands. A lane leaves marker files behind when it is
killed; the watcher and the verbs read markers and docker one after the other while
the lanes move. The governor is right if it never acts on a wrong idea of the
container, undoes only what it did, and never lets a hot container run uncapped; the
wrapper and the watcher are right if no lane loads its model over and over, no cache
is dropped under a lane that loads, and every lane comes to serve.

### Gateway (`lobes/gateway`)

| component | state | operations |
|---|---|---|
| mesh roster and ledger, `_mesh_roster.py` | members with missed intervals, hold-down, flap counts; approvals | announce, discover, tick; approve, revoke, merge, save, load |
| mesh routing, `_mesh_routing.py`, `_mesh_routes.py` | announcements, routing view, verification event, heartbeat thread | store, build and replace a view, probe, prune, ask seeds, announce |
| replica cache, `_replicas.py` | dispatches under way and ended, probed load | begin and end a dispatch, probe, reconcile |
| server, `server.py` | the request in hand | place, dial, relay, retry, release; the other routes |
| selection, `_selection.py`, `_routing.py` | none | pure choice of a replica |
| readiness, `_readiness.py` | cached probes | refresh, serve stale |

Hard here: ledgers merged between boxes whose clocks differ, late and over other
boxes; a save that overtakes another; a member dropped by one box and gossiped back
by another; a view built from what has changed by the time it is published; a
probe whose sample and stamp lie apart; a replica that fails after it took the
request. The ledger is right if no box goes back on a decision of its own and every box
ends with the same entries (between boxes more is wanted and not kept, see 5); the roster and the view, if what is alive
stays and is routed to and what is gone is not, in the end; the pool, if it knows
of the load it makes itself and every request ends.

### The rest

The command line (`lobes/cli`), the catalog, roles and profiles, the benchmarks and
the sidecars are one-shot programs, static data, or thin servers; they keep no
state whose order of changes matters, and are not modelled.

## 2. What is modelled

```
 TurnProtocol <--implements-- Floor <--every step-- Conversation <--every step-- Speculation

 Roster <-- Gossip        several boxes, their rosters and heartbeats
 Roster <-- Mesh          one box, its threads and what it routes by
 Ledger                   several boxes, their approvals
 Lanes  <-- Watcher       the lanes of a machine, and the two that drop its page cache
 Pool                     one gateway, its replicas
 Governor                 one container
```

The first line is a chain of refinements, all proved, and the first and the last also
checked (`KeepsProtocol`, `IsConversation`); the other arrows are `EXTENDS`. Each module `X` has its properties in
`XProperties`, its instances in `MCX` and, but for the two base modules `Roster` and
`Lanes`, its theorems in `XProofs`; `ConversationProofs` has those of `Conversation`
and of `Speculation`.

### TurnProtocol and Floor

`TurnProtocol` is the promise to the client: per turn nothing; or one `response.created`,
then progress, then exactly one of `done`, `interrupted` and `failed`; or, of a turn that was
given up before its response began, one `interrupted` or `failed` alone. `Floor` is the class `Floor` of `_floor.py`, one action per input. An
input that the class refuses (it returns `False` and changes nothing) is an action
that is not enabled; what happens then is `Unmoved`. The event an input emits is the
variable `event`.

| variable | in the code |
|---|---|
| `state` | `Floor.state`: listening, transcribing, responding, speaking, tool_wait, closed |
| `turn`, `legs` | `_turn_id`; how often the turn went back to the generate stage |
| `armed`, `remaining` | `_armed_stage`, and the time left until `_deadline_ms` |
| `segments`, `current`, `finalSeen`, `chunksSent` | the reply's queue and how much of it was delivered |
| `guard` | time left of the barge-in guard window after a turn opened |
| `event` | what the last input emitted |

Bytes are counts of chunks, texts and voices are the turn they were made for (so
that audio of a wrong turn can be seen), the two timestamps are the time left
until the comparison they are read in turns true.

### Conversation

`Conversation` is the bridge, composed with the floor by `F == INSTANCE Floor` over
the same variables: every action of the bridge contains one of the floor's. It
adds what the bridge keeps (`history`, `optedIn`, `toolCall`, `pendingTranscript`,
`pendingResponse`, `pendingSynthesis`, `pendingSegments`, `streamTurn`, `replyText`,
and `commitAge`, `commitText` and `continuing` for the take-back of an early commit)
and, of the route, the receive loop (`hearing`), the audio carried into the next
commit (`carried`), and the tasks as sets: `launched` response tasks, `calls` to the
chat backend, `syntheses` under way. A
cancelled call may stay in `calls` and answer late, which is more than the code's
cancellation allows.

Handlers that make two calls of the floor are two steps with a variable `handler`
between them, in which nothing else is enabled: the handler is still atomic, and
the floor is only ever changed by its own actions. Sentences left over at the end
of a stream are deltas of their own before the end.

An utterance is a number, a text the set of the utterances in it: enough to tell
which words were answered, lost, or answered twice.

### Speculation

In a streaming session the route uses the pause before a turn is known to be over: it
transcribes what was said so far and sends the generate request the turn would send
(`_start_speculation`). `Speculation` extends `Conversation`: each of its
actions is one of `Conversation`'s together with what becomes of the
speculations, or leaves `Conversation` as it is. It adds the segmenter as far as a
speaker can be told by it: an utterance is a number of stretches of speech with pauses
between them, and ends in silence or because it is too long.

| variable | in the code |
|---|---|
| `stretches`, `paused` | the stretches of the latest utterance; `Segmenter._paused` |
| `specs` | the `_Speculation` objects by the pause that began them: the words in their snapshot, how far they are, what was heard, the messages of the request |
| `speculation` | `tasks.speculation`, the one the next commit may use |
| `given` | `_ActiveResponse.speculation` of the response to each turn |

### Governor

`Governor` has the loop's own state (`cur`, `wePaused`, what it decided: `phase`,
`wanted`) and the container's real one (`container`, `pausedBy`, `quota`), changed
also by others: `OtherPauses`, `OtherUnpauses`, `ContainerExits`, and the
temperature by `Heat`. A poll is several steps, because the world moves between the
inspection and the command; each docker command may fail on its own. `run_docker` waits
60 s for a command and then takes it for failed: such a command goes into `late`, from
which docker may carry it out at any time (`LateCommand`), or never. Two variables are
history: `undone`, somebody undid our pause after we last looked, and `strayCap`, the cap is
that of an update that was given up; a pause that was given up is told apart by
`pausedBy = "stray"`.

### Lanes and Watcher

`Lanes` is the wrapper around every model server, one action per stage of the script,
with docker (which restarts a container that exits) and the server itself as
environment: `Allocate` and `Serve` are what a server does, a container is
killed, exits or is stopped, and the memory of a dead one may stay taken until the page
cache is dropped (`stuck`). `Watcher` adds the poll of the watcher and the clear of
the lifecycle verbs, both as the sequence of reads they are: markers, docker's
health, holds, then the drop, and for the watcher its save.

| variable | in the code |
|---|---|
| `at`, `upFor` | where the script of a lane is; the age of its container, which docker compares with the start period |
| `starts`, `held`, `gated` | the files of `lane-state/` |
| `blind` | the lanes whose run leaves these files alone: it could not write to `lane-state/`, or had no gate |
| `waited` | `_waited`, how long this run has been in its gate |
| `uptime`, `stuck` | of the host |
| `watcher`, `verb` | the poll and the clear in hand, with what each has read so far |
| `attempt`, `saved` | `last_attempt` in memory and in the state file |
| `loads`, `cleared` | history: real loads, since the counter last lost a start; real clears |

None of the wrapper's own faults keeps a lane from its server, and each is an action: the
counter is truncated and not written, or only in part (`RecordFails`), or the lane is killed
in between (`CrashInRewrite`); `lane-state/` is not writable (`Begin`, `SkipCounter`); the gate
is off or memory cannot be read, so that no marker is looked at (`SkipGate`), or can no
longer be read while the lane waits (`LeaveGate`).

The unit of time is a poll. A time in the past is its age, kept up to the age from
which nothing depends on it.

### Roster, Gossip and Mesh

`Roster` has the operations of the class as operators on a roster: `Announced`,
`Discovered`, `Ticked`. `Gossip` runs them on several boxes: each pass of a box ticks,
asks its seeds for their rosters, announces itself to them and to its members, whose
replies announce them in turn; boxes stop and start, at any point of a pass. `Mesh`
looks at one box and lets the others be its environment: which of them serve what,
which are revoked, which announcement arrives when.

| variable of `Mesh` | in the code |
|---|---|
| `anns`, `view`, `dirty` | `_announcements`, the view in its holder, `_verify_event` |
| `job` | of each request thread, of the thread that asks the seeds, and of the heartbeat while it takes a reply: what it has read and not yet written |
| `beat` | the pass of the heartbeat: collect, probe, build, publish, gather, ask, tell |
| `serves`, `revoked` | the other boxes, and the approvals in force here |
| `quiet` | history: the passes a member has left unanswered |

Whatever reads the announcements, builds a view and replaces the one there is does so in
steps of its own: besides the requests and the verification also the prune after a tick, a
revocation, the drop of an unapproved member and the verification of nobody. Some of
these hold `routes._lock` from the first to the last step, but the handler of an
announcement and the verification of nobody take no lock and are not kept out by it; the
model keeps nobody out, which allows more.

### Ledger

`Ledger` is the class `Ledger` of `_mesh_roster.py` on several boxes, with the routes
and the heartbeat of `_mesh_routes.py` that change it.

| variable | in the code |
|---|---|
| `entries` | `Ledger.entries` of each box; `NoEntry` is an absent name |
| `disk` | the file at `Ledger.path`, which is taken to be configured |
| `fetch` | per box and seed, the thread of `_fetch_seed_roster`: at rest, holding the seed's answer (`merge`), between merge and save (`save`), holding the copy that `save` made under the lock (`replace`) |
| `now`, `decided` | real time, and the last decision made on each box that it did not forget in a restart: history, the program has neither |

An entry carries `made` and `by`, the real time of its decision and the box it was made on,
beside the `updatedAt` the program compares; both are history, too. A box's clock is
`now + Uptime[b]`, since `time.monotonic()` counts from the boot of its machine. A decision (`Approve`, `Revoke`) takes time, so no two
are made at the same moment; its stamp, which the code reads just before it takes the
lock, and its storing are one step; its save is in the same step, because the lock is
re-entrant and held over both. The exchange is pull only: a box learns what its seeds
know. In the code a heartbeat waits for all of its fetches before the next one begins;
the model lets each seed's thread begin again by itself, which allows more.

### Pool

`Pool` is `_pool_dispatch` of `server.py` over the replica cache: a request is placed
on a replica with room, counted, dialled, and relayed, or tried on another replica,
or passed through to this box; the probe of a replica is three steps, since its
sample, its stamp and its result lie apart. There is no clock: of a dispatch and a
probe it is known which was first.

| variable | in the code |
|---|---|
| `request` | the thread of each request, and the replicas it may not be placed on any more |
| `token` | `_inflight`: whether its dispatch began before the stamp of the last probe |
| `engine` | the replicas whose engine works on it: the world |
| `snapshot` | what the last probe left, less the dispatches that began before it and have ended since |
| `probe` | a probe under way |

`blind` and `own` are history: what the probed load was made of.

### Conventions

A definition `Action_Something` with an underscore is a faulty variant of `Action`, a
plausible bug. Nothing uses it; replacing the body of `Action` by it must break the
property `PROJECT.json` pairs it with under `mutants`.

## 3. What TLC checks

| run | instance | states | shows |
|---|---|---|---|
| `floor` | 2 turns, 3 segments, 2 chunks each, 2 tool legs | 8,351 | the floor's invariants and its protocol |
| `conversation` | 3 utterances, 2 turns, 2 segments, 1 chunk, 1 leg | 303,640 | the history, the bridge against the floor, take-backs, every turn ends |
| `speculation` | 3 utterances of 2 stretches, 2 turns, 1 segment, no tools | 492,265 | speculation is hidden, and what is adopted is the turn's |
| `governor` | five temperatures around three of the default bands, one late command at a time | 77,485 | cap and pause under commands that fail or come late, and other users |
| `watcher` | 2 lanes of one unit on a machine of two, 2 faults | 540,092 | backoff, sparing of loading lanes, every lane serves |
| `ledger` | 3 boxes in a ring of seeds whose clocks differ, one name, 2 decisions, 1 restart | 156,368 | a box's own decision stands, and all come to agree |
| `gossip` | 3 boxes around one seed, 2 stops or starts | 547,000 | everybody is found, the dead are dropped |
| `mesh` | 2 other boxes, 1 request thread, 1 fault | 411,785 | the healthy stay, the live are routed to, the gone are not |
| `pool` | 2 requests, 2 replicas, 1 foreign request | 760,753 | the load that is known, and every request ends |
| `call_item`, `ledger_clock`, `gossip_dead` | as above, or smaller | — | three places where the code does not do what it says, see 5 |

Beside the runs stand eight configurations that are not part of them, for
properties that the code does not keep (see 5); `tlc -config MCPoolTwice.cfg MCPool` shows
the behaviour, and so for the others (with `-continue` for the two of `MCConversationArm.cfg`). They are
kept apart because each asks a question of a module that a run already covers.

### Bounds, and why they are enough

*Session*: `MaxTurns` 2: a late answer needs one earlier turn and one current. Three
utterances: a turn, its merge with the next utterance, and one that tries to merge
again, or that is refused by the guard. `MaxSegments` 3 in the floor: one sent,
one current, one out of order behind it; in the conversation 2, since order is already
the floor's. `MaxChunks` 2: the difference between the last chunk and another one.
`MaxLegs` 2 in the floor: a leg after a leg; 1 in the conversation. `MaxStretches` 2: a
pause that is the end of a turn and one that is not. The timeouts, `Window`,
`Continuation` and `ToolHold` are one unit of time, and the generate timeout of the
floor's run two, so that time may pass within it: the code compares each clock with its
own limit only, so "not yet" and "due" are all that can be told apart.
`Conversation` with 3 turns, 2 segments and a tool leg has more than two million states
and is left out.

*Governor*: the temperatures are one per class that three of the four default bands, the
pause threshold and the resume threshold tell apart (`MCGovernor` names them): 4 and 2 of
the scale 0..4. The fourth band is one more step of the same kind; the theorems
have any bands. `MaxLate` 1: docker has one command in hand that was given up; a second one can
be given up when that one is done.

*Watcher*: two lanes: one that waits and one that loads. Memory for both and no more, so
that what a dead container holds makes one wait. `StartMax` 1 and `Window` 2: the first
start and the first refused one. `GateTimeout` 3 exceeds `StartPeriod` and `MinInterval`
(2 each), as in the code's defaults, so that a clear falls due while a lane waits. Two faults: a crash
that leaves something behind, and one that hits who deals with it. A counter that is lost, a
`lane-state/` that is not writable and a gate that is skipped are faults of one start; that they are so at
every start is more of the same for the theorems, which have any `MaxFaults`.

*Ledger*: three boxes in a ring, each the seed of one other: a decision reaches the third
over the second, and comes back to its maker; two decisions are an older and a newer one,
wherever they are made, more of them are the theorem's; one name, since the merge treats every
name by itself; one restart, at any point between two saves. The machine of one box has been up for
longer than the run lasts, so that its older decision has the greater stamp; no two stamps
are equal, as they are readings of a clock in nanoseconds.

*Gossip*: three boxes: one that stops and two that bring it back for each other; all
but one know only the seed. `MissedMax` 2: missed once is not dropped.

*Mesh*: two members, one of which may change what it serves (it begins with the one of its
two identities, `FairSpecFromOne`: they are alike to the code); the heartbeat, the thread
that asks the seeds and one request thread are the three kinds of writer of the view. One
fault: a revocation and the approval after it, a stop, a change or a missed reply, at any
point of all of them.

*Pool*: two requests, one of which ends while the other is probed. A replica whose
capacity was measured and one of this box where none was; one foreign request in the
load that a probe reads. `Refreshed`: the replica of this box is probed only once, as
its snapshot is read in the same way.

`CHECK_DEADLOCK FALSE` in the session's runs: a closed session does nothing more.
The other runs check deadlock.

### Fairness

*Conversation*: the watchdog ticks (`app.py` runs it for the life of the session), the
pump delivers what is deliverable, and a handler that began ends. A model that never
answers, a tool result that never comes and a silent client are all allowed.
*Speculation*: besides, a speculation's transcription ends (every HTTP call of the route has a
timeout), the receive loop goes on when it has, and handlers go on. A stream need not.
*Governor*: the loop goes on polling (weak fairness of `Works`, the loop's steps but
for a failed inspection and the signal); a sensor or a docker command that is tried
for ever does not fail for ever (strong fairness of its success). Of the world nothing
is assumed, nor that docker ever carries out a command that was given up: the liveness
properties say what happens *if* the temperature stays.
*Watcher*: a lane's script and its server go on, the watcher polls, time passes; a fault
is never fair, and `MaxFaults` ends them.
*Ledger*: the thread of every seed goes on (weak fairness of `Heartbeat`), as the
heartbeat loop runs for the life of the gateway; that decisions and restarts end comes
from the bounds. Seeds that reach everybody are an assumption of `LedgersConverge`, made
by the ring. The documentation says that "an established member needs no seeds at all"
(`docs/gateway-fleet.md:661`); such a member never fetches a ledger, so what is decided
on another box does not reach it.
*Gossip*: every box's pass goes on, and the next interval comes when all have run theirs:
the boxes tick at the same rate.
*Mesh*: the heartbeat and every thread go on; the list a seed sends ends (strong fairness
of `Asked`, since entries may go on being heard meanwhile); a box that runs announces itself
again and again, and is heard although other requests come between.
*Pool*: the thread of a request goes on. Its sockets to the replicas have a timeout
(`server.py:674-709`); the one to its client has none (`_Handler` sets no `timeout`), so it is an
assumption that a client reads its answer or goes. An engine need not end.

## 4. What is proved

For every value of the constants that meets the assumptions of the modules, one per
module and as weak as the code justifies: bounds, timeouts and limits are naturals,
some of them not zero; the governor's bands are a non-empty sequence of rising limits
with positive caps, the last of which is where it pauses (no order of the resume threshold is
needed); seeds and replicas are boxes; an approval lasts. Every module of the runs is
type-correct: `TypeCorrect` of `Floor`, `Governor`, `Ledger`, `Gossip`,
`Mesh`, `Pool` and `Watcher`, `TypeOKHolds` of `Conversation`, `RouteTypeOKHolds` of `Speculation`.
Every invariant and every safety action property of the passing runs is a theorem.

`FloorProofs`: `FloorInv` is inductive, and with it `NeverWedged`,
`DeliveryInOrder`, `ReplyBelongsToTurn`, `DeadlineMatchesWait`, `DoneMeansDelivered`,
`StreamCannotExtendDeadline`, and `KeepsProtocol`, that the floor implements
`TurnProtocol`. Why the invariant needs its parts: `NeverWedged` is not inductive,
as an unarmed deadline in `speaking` is fine only if something is deliverable; that
follows from `DeliveryInOrder` (the current segment is never already drained),
`DeadlineMatchesWait` (unarmed only if every segment has audio) and
`ReplyOnlyWhileSpeaking` (a final reply is not finished). `DeliveryInOrder` in turn
needs `SentIsSynthesized`: a segment that gains its audio was not counted as sent.

`ConversationProofs`, of a session. Its parts stand on one another:

* `ConversationDrivesFloor`: the floor of a session takes only steps of `Floor` (`TurnInv`
  keeps the turn within what the floor's actions ask for). With `P == INSTANCE FloorProofs` the
  floor's theorems are cited for it, so that they hold in every session:
  `FloorOfConversationIsSound`, `ConversationDoneMeansDelivered`, `ConversationKeepsProtocol`.
  What follows uses `FloorInv` throughout.
* `SpeculationIsHidden`: `RouteSpec` implies `Conversation`'s `Spec`, so all that is said of
  conversations here is true with speculation. It rests on `GoneInv`: a
  speculation that was cancelled after it had been handed to a response was cancelled because
  that response's turn was over, so the end of its stream is a late answer, which the
  floor refuses.
* `WholeTurnHolds`: a turn is never answered from the transcript of a part of its audio, by
  `SnapshotInv`: a speculation's snapshot is that of its pause (`Bounds`), the latest
  speculation is of the latest pause (`Current`), and audio kept from an earlier half is
  not in the utterance (`Apart`).
* `CallMatchesFloorHolds`, by `CallInv`: the tool call the bridge waits for is the one the floor
  waits for.
* `TypeOKHolds`, by `TypeInv`: besides the types, a reply whose end was seen has its text kept
  (`FinalInv`), and a session that has gone has no task left (`GoneIsOver`), which is why
  nothing pending is begun after `cancel_all`.
* `CallsAreAnsweredHolds` and `TurnsInOrderHolds`, by `HistoryInv`. `HistoryMove` lists what any step
  may do to the history: write one of four kinds of entry, take the last turn back, or end
  it. That a result lands next to its call needs `CallIsLast` (the call that waits is the
  last entry), which needs `TurnIsOpen` and `ReplyIsLast`: what the turn at work has
  written so far.
* `TakeBackIsExactHolds`, `MergedTurnIsFinalHolds`, by `CommitInv`: the commit an onset may take
  back is the last audio, and that audio is one utterance, so a merged turn is never taken
  back a second time.
* `AnsweredOnceHolds`, by `WordsInv`: no utterance is in two entries, or in one and in a place from
  which it may yet be answered (`Waiting`: carried audio, a pending transcript, a handler, the
  turn being transcribed); nor in two of those places (`WordsApart`). It needs `TranscriptInv`: a
  turn waits for its words only while the receive loop transcribes them or a handler is
  about to hand them over.
* `WorkIsCurrentHolds`, `WaitedForIsUnderWayHolds`, by `WorkInv`: for each stage, who makes what
  the floor waits for. `responding` has a response pending, launched or called (`ResponseInv`);
  what a stream has left over is of the turn at work (`StreamInv`); a segment without audio
  is pending or being synthesized (`SpeechInv`).
* `AdoptedAnswersItsTurnHolds`, by `AdoptInv` and `SpecsTyped`: a speculation's request is the history
  when it is adopted, is not changed from then on (`MaySpeculate` needs a floor that
  listens), and while a turn is held the history only grows, so the request stays its beginning.

`GovernorProofs`: `GovernorInv` is inductive. It is `CapAsBelieved` with what its steps
rest on: between the two commands of a resume the cap is already the reduced one
(`ReducedBeforeThaw`), and a pause the loop holds for its own is its own unless it
was undone unseen or the container is gone (`HoldsItsOwnPause`). With it `CapAsBelieved`, `UndoesOnlyOwnPause` and
`ResumesCapped`. What is said of the cap has the exception that it is that of an update given up
(`strayCap`), which the next update that answers ends; what is said of pauses needs none. `CapIn`, that the lookup in the bands yields one of the caps, rests
on a lemma about the least index of a non-empty set of naturals.

`WatcherProofs`: `LoadsAreBounded`: the counter file holds at least as many of a lane's
starts as it has loaded, but for the start that waited in the gate, which is why the
bound is `StartMax + 1`. A start that the file loses ends the count, and the bound holds again from
there: nothing bounds the loads of a lane whose counter is never kept. `ClearsSpareStartingLanes`: a lane that was loading when a clear
began to look and still is has no valid marker and is not held, so docker's answer stands.

`LedgerProofs`: `LedgerInv` is inductive, whatever the clocks and whoever restarts, and with it
`OwnDecisionStands`. `AllStamped` says of every ledger there is, in memory, on disk and on its
way, that an entry bears the clock of the box it was made on, so that among the entries of
one box comparing stamps compares decisions. `Ahead` says that a box holds no entry with a smaller
stamp than its own last decision: a merge lowers no stamp, and a decision has the greatest
its box has given so far. Between the entries of two boxes a comparison of stamps says nothing
(`ledger_clock`). A restart may forget a decision (`MCLedgerSave.cfg`); from there on `decided` is
what the box has loaded of its own. `MergeIsIdempotent`: a fetch may be repeated.

`MeshProofs`: `HealthyMembersStay`, that who is dropped has left `MissedMax - 1` passes
unanswered, by `MissedIsQuiet`: a member has missed no more ticks than passes it left
unanswered, and one more only under a pass that has not told it yet.

`PoolProofs`: `OwnRequestsCount`, that the load known of a replica is never below what
this gateway has there, by `LedgerIsExact`: a dispatch is in the ledger exactly while
its request is at the replica; and `EndedRequestsDoNotCount`, the other side, that it is not above
it but for what the last probe saw and could not know of (`Explained`).

Only model-checked: liveness, that is `EveryTurnEnds`, `TranscriptionEnds`, `CapFollows`,
`PausesWhenHot`, `ThawsWhenCool`, `LedgersConverge`, `EveryoneIsFound`, `DeadIsDropped`, `LiveIsRouted`,
`GoneIsNotRouted`, `EveryRequestEnds`, `EveryLaneServes` and `ClearingStops`. Liveness under
fairness and `ENABLED` are out of the prover's reach, as is induction over data: what a
recursive definition computes is checked, not proved.

## 5. Where the code and its documentation part

With a run:

1. **A tool call can name the wrong item.** `on_transcript` sets `_item_id` also for an
   utterance that was swallowed while a response is generated (`call_item`).
2. **A revocation can be undone by an older approval.** Ledgers are merged by
   `updated_at`, which is each machine's `time.monotonic()`; a box whose machine booted
   later stamps its revocation with a smaller number than the approval made earlier on
   another, and its next fetch brings the approval back (`ledger_clock`).
   `docs/gateway-fleet.md:675` says that a revoked name is refused.
3. **The dead may never leave.** `docs/deliveries/2026-09-11-mesh-brain-join.md:107`: "A
   stopped member leaves every roster within two intervals". Two survivors that drop it at
   different times bring it back for each other, hold-down after hold-down (`gossip_dead`);
   it is dropped again and again (`DeadIsDropped`), but does not stay away.

With a configuration beside the runs:

4. **A `response.create` can end the reply that is being spoken.** `arm`'s docstring:
   "a trigger that arrives while it does has never started a second response". A
   transcript that the guard window swallowed during that reply is answered at once,
   which interrupts it (`MCConversationArm.cfg`, `TriggerStartsNoSecondResponse`).
5. **A pending transcript can be lost.** `arm` clears it before the floor is asked, and
   the floor refuses inside the guard window; the module says it is "answered by
   the next `response.create`" (`MCConversationArm.cfg`, `PendingIsAnswered`).
6. **A pause that timed out is never lifted.** `run_docker` gives a command up after 60 s, and docker may
   still carry it out. A pause that comes so is "foreign" to the governor, which leaves
   the container alone from then on (`MCGovernorLate.cfg`; `lobes/runtime/_governor.py:9`: "A paused
   container resumes below 86 C"). An update that comes late likewise stays as long as the
   governor has no other cap to set (`strayCap`).
7. **The governor can leave a reduced cap behind.** `cleanup` looks at `cur`, which a
   half-failed resume, an undone pause or an update that was given up left at the top or unset
   (`MCGovernorExit.cfg`).
8. **A save can forget a decision.** `Ledger.save` lets go of the lock before it writes. The save
   of a merge can write a copy made before an operator's decision over the file in which that
   decision was saved, although "a concurrent approve/revoke/save can never interleave
   with this mutation" (`lobes/gateway/_mesh_routes.py:784`); the next save mends it, a
   restart before that forgets the decision (`MCLedgerSave.cfg`).
9. **A request may be served twice.** A read that times out counts as a failure
   (`lobes/gateway/server.py:2113`) and the request is dispatched to another replica, while
   the first engine may still work on it; `server.py:2735-2738` says that a replica that
   timed out "never served the request" (`MCPoolTwice.cfg`).
10. **Docker's health does not cover the boot of a lane that was held.** The start period
   runs from the start of the container; a lane that was held for longer loads its model
   while docker no longer says it is starting, and its cache may be dropped
   (`MCWatcherBoot.cfg`; `lobes/runtime/_compose.py:1425`).
   `docs/contracts/lane-safety-runtime.md` says that the health status covers the whole boot.
11. **A restart of the watcher can bypass its rate limit**, which
    `lobes/watcher/_run.py:137` rules out: the attempt is saved after the clear, and a
    watcher killed between the two clears again (`MCWatcherRestart.cfg`).
12. **One unapproved member takes the others out of routing for a while.** The view is
    rebuilt from announcements alone, and every member waits to be verified again
    (`MCMeshOthers.cfg`; `lobes/gateway/_mesh_routes.py:1717`).
    `docs/plans/2026-09-11-mesh-brain-join-split.md:172`: "the mesh keeps serving with what
    remains". The next pass mends it (`LiveIsRouted`).

Read in the code, and not part of any model:

* *Teardown* (`app.py`, the `finally` of the route): `tasks.cancel_all()` clears the active
  cancels before `bridge.close()` fires them, so that the generate call of a client that has
  gone is not cancelled through its hook, as the comment there says. A response task
  that is cancelled before its first step leaves the speculation it was given running.
* *Two legs*: if a tool's result and `response.create` arrive while the first leg still
  flushes its sender, its worker and pump live on into the second leg, with the same turn
  id; "a tool turn must never be spoken".
* *Mesh*: a revocation pops announcements by name, although they are kept by origin; an
  announcement admitted before a revocation may be stored after it; a flapping or
  conflicting name in a seed's list raises out of the merge, and the rest of the list
  and the ledger are skipped (`lobes/gateway/_mesh_routes.py:1701`).

## 6. Not modelled, and the plan

Most lines of the implementation are the rendering of files, HTTP parsing, the command line and
catalog data, which have no states; the map covers the lines that have. What is left, in this
order:

1. **Route**: the task objects of each leg, the teardown, the cache of audio
   synthesized in advance.
2. **Readiness cache and thermal latch**: probes that finish late, refresh threads, the
   latch's hysteresis; `Pool` takes their answers as given.
3. **Ledger**: the stamp of a decision as a step of its own, and an abstract
   specification: a replicated last-writer-wins map.
4. **Gossip with intervals that differ**, and the flap limit.
5. Proofs: that the ledgers implement that abstract specification; lemmas towards the liveness
   properties, as far as they are safety (what each fair action needs stays enabled).

Left out of the modelled parts:

* Floor: nothing but texts, bytes and timestamps.
* Conversation: `session.update`, payloads, timings, the tool-repair retry text.
* Speculation: sessions that do not stream (they never speculate), audio synthesized in
  advance, the segmenter's probabilities, chunks and pre-roll, the sentence chunker.
* Governor: the dry run, the parsing of bands, SIGKILL, a container recreated under the
  governor (its cap is lost while `cur` is kept), other users of `docker update`.
* Watcher: the log ring, the audit of projects, the service that runs it; what a model
  server does is external. A wall clock that is set (ages of markers, starts and attempts are
  differences of wall-clock times), a `/proc/uptime` that cannot be read, a marker that is
  created and not written.
* Gossip and Mesh: the flap limit, capacities, joins by key, the wire schema, the
  refusal of one's own name, a member with several roles. In `Gossip` a pass that is woken takes no
  time; in `Mesh` no request takes longer than a pass.
* Ledger: who approved, malformed answers of a seed, a save that fails, two boxes with equal
  stamps (each would keep its own entry), a machine that
  reboots while its ledger survives (its clock then begins again at zero, under entries
  stamped by the old one).
* Pool: the expiry of a dispatch after `INFLIGHT_MAX_AGE`, the retention of completions,
  capacity pins, fingerprints, members of a mesh as candidates, a hop across two gateways, an
  exception inside a refresh; which replica with room is preferred.

Left out altogether, as pure data or I/O: the wire codec, the speech servers, catalog,
profiles, benchmarks, command line.
