------------------------------ MODULE MeshProofs ------------------------------
(***************************************************************************)
(* No member that answers is dropped from the roster, whatever the threads *)
(* do meanwhile and however often the heartbeat is woken: for every number *)
(* of boxes and threads and every LOBES_MESH_MISSED_MAX.                   *)
(***************************************************************************)
EXTENDS MeshProperties, TLAPS

-----------------------------------------------------------------------------
(* The operators of the roster and of the view keep the types. *)

LEMMA AnnouncedType ==
  ASSUME NEW r \in Rosters, NEW b \in Boxes
  PROVE  /\ Announced(r, b) \in Rosters
         /\ Announced(r, b).missed = [r.missed EXCEPT ![b] = 0]
BY RosterAssumption DEF Announced, Rosters, Out

LEMMA DiscoveredType ==
  ASSUME NEW r \in Rosters, NEW listed
  PROVE  /\ Discovered(r, listed) \in Rosters
         /\ \A b \in Boxes : Discovered(r, listed).missed[b] \in {0, r.missed[b]}
BY RosterAssumption DEF Discovered, Rosters, Out

LEMMA TickedType ==
  ASSUME NEW r \in Rosters
  PROVE  /\ Ticked(r) \in Rosters
         /\ \A b \in Members(Ticked(r)) :
              b \in Members(r) /\ Ticked(r).missed[b] = r.missed[b] + 1
         /\ \A b \in Members(r) \ Members(Ticked(r)) : r.missed[b] + 1 = MissedMax
<1>1. /\ Ticked(r).missed \in [Boxes -> 0..Out]
      /\ Ticked(r).held \in [Boxes -> 0..MissedMax]
  BY RosterAssumption DEF Ticked, Members, Rosters, Out
<1>2. Ticked(r) \in Rosters
  BY <1>1 DEF Ticked, Rosters
<1>. QED BY <1>2, RosterAssumption DEF Ticked, Members, Rosters, Out

LEMMA BuiltType ==
  ASSUME TypeOK, NEW members, NEW results \in [Boxes -> Results]
  PROVE  Built(members, results) \in Views
BY DEF TypeOK, Built, Views, Entries, Unknown, Announcements, Results

LEMMA CarriedType ==
  ASSUME TypeOK, NEW announced
  PROVE  Carried(announced) \in [Boxes -> Results]
BY DEF TypeOK, Carried, Views, Entries, Results

LEMMA EmptyType == Empty \in Views /\ NoResults \in [Boxes -> Results]
BY DEF Empty, Views, Entries, Unknown, Announcements, Results, NoResults

LEMMA IdleType == Idle \in Jobs /\ Rest \in Beats
BY EmptyType DEF Idle, Jobs, Rest, Beats, Announcements

LEMMA BeginType ==
  ASSUME TypeOK, NEW t, NEW next \in Jobs, Begin(t, next)
  PROVE  job' \in [Workers -> Jobs]
BY DEF TypeOK, Begin

LEMMA GotoType ==
  ASSUME TypeOK, NEW place \in {"prune", "collect", "gather", "tell"}, Goto(place)
  PROVE  beat' \in Beats /\ beat'.at = place /\ beat'.todo = beat.todo
BY DEF TypeOK, Goto, Beats

LEMMA AdmitType ==
  ASSUME TypeOK, NEW t, NEW b \in Boxes, Admit(t, b)
  PROVE  /\ job' \in [Workers -> Jobs]
         /\ roster' \in Rosters
         /\ roster'.missed = [roster.missed EXCEPT ![b] = 0]
         /\ quiet' \in [Boxes -> 0..MissedMax]
         /\ quiet' = [quiet EXCEPT ![b] = 0]
<1>1. [Idle EXCEPT !.at = "store", !.of = {b}, !.id = serves[b]] \in Jobs
  BY IdleType, EmptyType DEF TypeOK, Idle, Jobs
<1>2. job' \in [Workers -> Jobs]
  BY <1>1, BeginType DEF Admit
<1>3. roster \in Rosters
  BY DEF TypeOK
<1>4. roster' \in Rosters /\ roster'.missed = [roster.missed EXCEPT ![b] = 0]
  BY <1>3, AnnouncedType DEF Admit
<1>5. quiet' = [quiet EXCEPT ![b] = 0]
  BY DEF Admit
<1>. QED BY <1>2, <1>4, <1>5, RosterAssumption DEF TypeOK

LEMMA FaultType == ASSUME TypeOK, Fault PROVE faults' \in 0..MaxFaults
BY MeshAssumption DEF TypeOK, Fault

LEMMA InitType == Init => TypeOK
<1>. SUFFICES ASSUME Init PROVE TypeOK
  OBVIOUS
<1>1. serves \in [Boxes -> Announcements] /\ anns \in [Boxes -> Announcements]
  BY DEF Init, Announcements
<1>2. roster \in Rosters /\ quiet \in [Boxes -> 0..MissedMax]
  BY RosterAssumption DEF Init, EmptyRoster, Rosters, Out
<1>3. job \in [Workers -> Jobs] /\ beat \in Beats /\ view \in Views
  BY IdleType, EmptyType DEF Init
<1>. QED BY <1>1, <1>2, <1>3, MeshAssumption DEF Init, TypeOK

-----------------------------------------------------------------------------
(* Types. *)

LEMMA WorkType == ASSUME TypeOK, NEW t \in Workers, Work(t) PROVE TypeOK'
<1>1. CASE Store(t)
  <2>1. anns' \in [Boxes -> Announcements]
    <3>1. job[t].id \in Announcements
      BY DEF TypeOK, Jobs
    <3>. QED BY <1>1, <3>1 DEF Store, TypeOK
  <2>2. [Idle EXCEPT !.at = "look"] \in Jobs
    BY IdleType DEF Idle, Jobs
  <2>3. job' \in [Workers -> Jobs]
    BY <1>1, <2>2, BeginType DEF Store
  <2>. QED BY <1>1, <2>1, <2>3 DEF Store, TypeOK, box
<1>2. CASE Look(t)
  <2>1. [Idle EXCEPT !.at = "build", !.results = Carried(anns)] \in Jobs
    BY IdleType, CarriedType DEF Idle, Jobs
  <2>2. job' \in [Workers -> Jobs]
    BY <1>2, <2>1, BeginType DEF Look
  <2>. QED BY <1>2, <2>2 DEF Look, TypeOK, box
<1>3. CASE Build(t)
  <2>1. Built(Members(roster), job[t].results) \in Views
    BY BuiltType DEF TypeOK, Jobs
  <2>2. [Idle EXCEPT !.at = "replace",
           !.view = Built(Members(roster), job[t].results)] \in Jobs
    BY <2>1, IdleType DEF Idle, Jobs
  <2>3. job' \in [Workers -> Jobs]
    BY <1>3, <2>2, BeginType DEF Build
  <2>. QED BY <1>3, <2>3 DEF Build, TypeOK, box
<1>4. CASE Replace(t)
  <2>1. view' \in Views
    BY <1>4 DEF Replace, TypeOK, Jobs
  <2>2. job' \in [Workers -> Jobs]
    BY <1>4, IdleType, BeginType DEF Replace
  <2>. QED BY <1>4, <2>1, <2>2 DEF Replace, TypeOK, box
<1>5. CASE Drop(t)
  <2>1. anns' \in [Boxes -> Announcements]
    BY <1>5 DEF Drop, TypeOK, Announcements
  <2>2. \A place \in {"look", "build"} : [Idle EXCEPT !.at = place] \in Jobs
    BY IdleType DEF Idle, Jobs
  <2>3. job' \in [Workers -> Jobs]
    BY <1>5, <2>2, BeginType DEF Drop
  <2>. QED BY <1>5, <2>1, <2>3 DEF Drop, TypeOK, box
<1>. QED BY <1>1, <1>2, <1>3, <1>4, <1>5 DEF Work

(* What is not a step of the heartbeat or of a thread that has begun. *)
EventsAt(b) ==
  \/ \E t \in Threads : Announce(t, b) \/ Revoke(t, b)
  \/ Listed(b) \/ Unapproved(b) \/ Approve(b) \/ Twin(b) \/ Switch(b)

LEMMA EventType == ASSUME TypeOK, NEW b \in Boxes, EventsAt(b) PROVE TypeOK'
<1>1. ASSUME NEW t \in Threads, Announce(t, b) PROVE TypeOK'
  BY <1>1, AdmitType DEF Announce, TypeOK
<1>2. ASSUME NEW t \in Threads, Revoke(t, b) PROVE TypeOK'
  <2>1. [Idle EXCEPT !.at = "build"] \in Jobs
    BY IdleType DEF Idle, Jobs
  <2>2. job' \in [Workers -> Jobs]
    BY <1>2, <2>1, BeginType DEF Revoke
  <2>. QED BY <1>2, <2>2, FaultType DEF Revoke, TypeOK
<1>3. CASE Listed(b)
  <2>1. [Idle EXCEPT !.at = "look"] \in Jobs
    BY IdleType DEF Idle, Jobs
  <2>2. job' \in [Workers -> Jobs]
    BY <1>3, <2>1, BeginType DEF Listed
  <2>3. roster' \in Rosters
    BY <1>3, DiscoveredType DEF Listed, TypeOK
  <2>. QED BY <1>3, <2>2, <2>3 DEF Listed, TypeOK, box
<1>4. CASE Unapproved(b)
  <2>1. faults' \in 0..MaxFaults
    BY <1>4, FaultType DEF Unapproved, TypeOK
  <2>2. [Idle EXCEPT !.at = "drop", !.of = {b}] \in Jobs
    BY IdleType DEF Idle, Jobs
  <2>3. job' \in [Workers -> Jobs]
    BY <1>4, <2>2, BeginType DEF Unapproved
  <2>. QED BY <1>4, <2>1, <2>3 DEF Unapproved, TypeOK
<1>5. CASE Approve(b)
  BY <1>5, FaultType DEF Approve, TypeOK
<1>6. CASE Twin(b)
  BY <1>6, FaultType DEF Twin, TypeOK, Announcements
<1>7. CASE Switch(b)
  <2>1. Serves[b] \subseteq Identities
    BY MeshAssumption DEF MeshAssumption
  <2>2. PICK id \in Announcements : serves' = [serves EXCEPT ![b] = id]
    BY <1>7, <2>1 DEF Switch, Announcements
  <2>3. serves' \in [Boxes -> Announcements]
    BY <2>2 DEF TypeOK
  <2>. QED BY <1>7, <2>3, FaultType DEF Switch, TypeOK
<1>. QED BY <1>1, <1>2, <1>3, <1>4, <1>5, <1>6, <1>7 DEF EventsAt

(* Only what was announced is probed for. *)
Taken == beat.at = "probe" => \A b \in beat.todo : beat.taken[b] \in Identities

LEMMA BeatTaken == ASSUME TypeOK, Taken, Beat PROVE Taken'
<1>1. CASE Collect
  <2>. DEFINE todo == {b \in Members(roster) : anns[b] # Nothing}
  <2>1. \A b \in todo : b \in Boxes /\ anns[b] \in Identities
    BY DEF Members, TypeOK, Announcements
  <2>2. CASE todo = {}
    BY <1>1, <2>2 DEF Collect, Taken, Rest
  <2>3. CASE todo # {}
    <3>1. /\ beat'.todo = todo
          /\ beat'.taken = [b \in Boxes |-> IF b \in todo THEN anns[b] ELSE Nothing]
      BY <1>1, <2>3 DEF Collect, Rest
    <3>. QED BY <2>1, <3>1 DEF Taken
  <2>. QED BY <2>2, <2>3
<1>2. ASSUME NEW b \in Boxes, Probe(b) PROVE Taken'
  BY <1>2 DEF Probe, Taken, TypeOK, Beats
<1>3. CASE Tick \/ Pruned \/ Asked
  BY <1>3 DEF Tick, Pruned, Asked, Goto, Taken, TypeOK, Beats
<1>4. CASE Check \/ BuildVerified \/ Publish \/ Gather \/ Told
  <2>1. CASE Check \/ BuildVerified \/ Publish
    BY <2>1 DEF Check, BuildVerified, Publish, Taken, Rest
  <2>2. CASE Gather
    BY <2>2 DEF Gather, Taken, Rest
  <2>3. CASE Told
    BY <2>3 DEF Told, Taken, Rest
  <2>. QED BY <1>4, <2>1, <2>2, <2>3
<1>5. ASSUME NEW b \in Boxes, Reply(b) \/ NoReply(b) PROVE Taken'
  <2>1. beat' = [beat EXCEPT !.todo = @ \ {b}] /\ beat.at = "tell"
    BY <1>5 DEF Reply, NoReply
  <2>2. beat'.at = "tell"
    BY <2>1 DEF TypeOK, Beats
  <2>. QED BY <2>2 DEF Taken
<1>. QED BY <1>1, <1>2, <1>3, <1>4, <1>5 DEF Beat

LEMMA BeatType == ASSUME TypeOK, Taken, Beat PROVE TypeOK'
<1>1. CASE Tick
  <2>1. roster' \in Rosters
    BY <1>1, TickedType DEF Tick, TypeOK
  <2>2. [Idle EXCEPT !.at = "drop", !.of = Dropped(roster)] \in Jobs
    BY IdleType DEF Idle, Jobs, Dropped, Members
  <2>3. job' \in [Workers -> Jobs]
    BY <1>1, <2>2, IdleType, BeginType DEF Tick
  <2>4. beat' \in Beats
    BY <1>1, GotoType DEF Tick
  <2>5. quiet' \in [Boxes -> 0..MissedMax]
    BY <1>1, RosterAssumption DEF Tick, TypeOK
  <2>. QED BY <1>1, <2>1, <2>3, <2>4, <2>5 DEF Tick, TypeOK
<1>2. CASE Collect
  <2>. DEFINE todo == {b \in Members(roster) : anns[b] # Nothing}
              taken == [b \in Boxes |-> IF b \in todo THEN anns[b] ELSE Nothing]
  <2>1. todo \in SUBSET Boxes /\ taken \in [Boxes -> Announcements]
    BY DEF TypeOK, Members, Announcements
  <2>2. /\ [Rest EXCEPT !.at = "probe", !.todo = todo, !.taken = taken] \in Beats
        /\ [Rest EXCEPT !.at = "build"] \in Beats
    BY <2>1, IdleType DEF Rest, Beats
  <2>3. beat' \in Beats
    BY <1>2, <2>2 DEF Collect
  <2>. QED BY <1>2, <2>3 DEF Collect, TypeOK, box
<1>3. CASE Check
  <2>1. [b \in Boxes |-> IF anns[b] = beat.taken[b] THEN beat.results[b] ELSE Pending]
          \in [Boxes -> Results]
    BY DEF TypeOK, Beats, Results
  <2>2. beat' \in Beats
    BY <1>3, <2>1, IdleType DEF Check, Rest, Beats
  <2>. QED BY <1>3, <2>2 DEF Check, TypeOK, box
<1>4. CASE BuildVerified
  <2>1. Built(Members(roster), beat.results) \in Views
    BY BuiltType DEF TypeOK, Beats
  <2>2. beat' \in Beats
    BY <1>4, <2>1, IdleType DEF BuildVerified, Rest, Beats
  <2>. QED BY <1>4, <2>2 DEF BuildVerified, TypeOK, box
<1>5. CASE Publish
  <2>1. view' \in Views
    BY <1>5 DEF Publish, TypeOK, Beats
  <2>2. beat' \in Beats
    BY <1>5, IdleType DEF Publish, Rest, Beats
  <2>. QED BY <1>5, <2>1, <2>2 DEF Publish, TypeOK, box
<1>6. CASE Gather
  <2>1. beat' \in Beats
    BY <1>6, IdleType DEF Gather, Rest, Beats, Members
  <2>. QED BY <1>6, <2>1 DEF Gather, TypeOK, box
<1>7. CASE Asked
  BY <1>7, GotoType DEF Asked, TypeOK, box
<1>8. CASE Told
  BY <1>8, IdleType DEF Told, TypeOK, box
<1>9. ASSUME NEW b \in Boxes, Probe(b) PROVE TypeOK'
  <2>1. PICK result \in {beat.taken[b], Failed} :
          /\ beat' = [beat EXCEPT !.todo = @ \ {b}, !.results[b] = result]
          /\ IF result = Failed /\ serves[b] = beat.taken[b] THEN Fault ELSE UNCHANGED faults
          /\ result # Failed => serves[b] = beat.taken[b]
    BY <1>9 DEF Probe
  <2>2. faults' \in 0..MaxFaults
    BY <2>1, FaultType DEF TypeOK
  <2>3. result \in Results
    BY <1>9 DEF Probe, Taken, Results
  <2>4. beat' \in Beats
    BY <2>1, <2>3 DEF TypeOK, Beats
  <2>. QED BY <1>9, <2>2, <2>4 DEF Probe, TypeOK
<1>10. ASSUME NEW b \in Boxes, Reply(b) PROVE TypeOK'
  <2>1. beat' \in Beats
    BY <1>10 DEF Reply, TypeOK, Beats
  <2>. QED BY <1>10, <2>1, AdmitType DEF Reply, TypeOK
<1>11. ASSUME NEW b \in Boxes, NoReply(b) PROVE TypeOK'
  <2>1. beat' \in Beats
    BY <1>11 DEF NoReply, TypeOK, Beats
  <2>2. faults' \in 0..MaxFaults
    BY <1>11, FaultType DEF NoReply, TypeOK
  <2>3. quiet' \in [Boxes -> 0..MissedMax]
    BY <1>11, RosterAssumption DEF NoReply, TypeOK
  <2>. QED BY <1>11, <2>1, <2>2, <2>3 DEF NoReply, TypeOK
<1>12. CASE Pruned
  BY <1>12, GotoType DEF Pruned, TypeOK, box
<1>. QED BY <1>1, <1>2, <1>3, <1>4, <1>5, <1>6, <1>7, <1>8, <1>9, <1>10, <1>11, <1>12
         DEF Beat

LEMMA NextIsOneOfThese ==
  ASSUME Next
  PROVE  \/ Beat
         \/ \E t \in Workers : Work(t)
         \/ \E b \in Boxes : EventsAt(b)
BY DEF Next, EventsAt

LEMMA TypesAreKept == ASSUME TypeOK, Taken, [Next]_vars PROVE TypeOK' /\ Taken'
<1>1. CASE UNCHANGED vars
  BY <1>1 DEF TypeOK, Taken, vars, box
<1>2. CASE Beat
  BY <1>2, BeatType, BeatTaken
<1>3. ASSUME NEW t \in Workers, Work(t) PROVE TypeOK' /\ Taken'
  <2>1. UNCHANGED beat
    BY <1>3 DEF Work, Store, Drop, Look, Build, Replace
  <2>. QED BY <1>3, <2>1, WorkType DEF Taken
<1>4. ASSUME NEW b \in Boxes, EventsAt(b) PROVE TypeOK' /\ Taken'
  <2>1. UNCHANGED beat
    BY <1>4 DEF EventsAt, Announce, Revoke, Listed, Unapproved, Approve, Twin, Switch
  <2>. QED BY <1>4, <2>1, EventType DEF Taken
<1>. QED BY <1>1, <1>2, <1>3, <1>4, NextIsOneOfThese

(* Every reachable state is well-typed. *)
THEOREM TypeCorrect == Spec => []TypeOK
<1>1. Init => TypeOK /\ Taken
  BY InitType DEF Init, Taken, Rest
<1>. QED BY <1>1, TypesAreKept, PTL DEF Spec

-----------------------------------------------------------------------------
(* A tick takes a member that has missed MissedMax - 1 ticks before; by     *)
(* MissedIsQuiet it did not answer as many passes.                          *)

LEMMA Counts ==
  ASSUME TypeOK, NEW b \in Boxes
  PROVE  MissedMax \in Nat /\ roster.missed[b] \in 0..MissedMax /\ quiet[b] \in 0..MissedMax
BY RosterAssumption DEF TypeOK, Rosters, Out

(* Who was heard has missed nothing. *)
LEMMA HeardHasMissedNothing ==
  ASSUME TypeOK, MissedIsQuiet, NEW b \in Boxes,
         roster'.missed = [roster.missed EXCEPT ![b] = 0],
         quiet' = [quiet EXCEPT ![b] = 0],
         \A c \in Boxes : c # b /\ Untold(c) => Untold(c)'
  PROVE  MissedIsQuiet'
<1>. SUFFICES ASSUME NEW c \in Members(roster')
              PROVE  roster'.missed[c] <= quiet'[c] + (IF Untold(c)' THEN 1 ELSE 0)
  BY DEF MissedIsQuiet
<1>0. c \in Boxes
  BY DEF Members
<1>1. CASE c = b
  BY <1>0, <1>1 DEF TypeOK, Rosters
<1>2. CASE c # b
  <2>1. roster'.missed[c] = roster.missed[c] /\ quiet'[c] = quiet[c]
    BY <1>0, <1>2 DEF TypeOK, Rosters
  <2>2. c \in Members(roster)
    BY <1>0, <2>1 DEF Members
  <2>. QED BY <1>0, <1>2, <2>1, <2>2, Counts DEF MissedIsQuiet
<1>. QED BY <1>1, <1>2

(* Nor does it matter what else becomes of the pass of b. *)
LEMMA CountIsKept ==
  ASSUME TypeOK, MissedIsQuiet, UNCHANGED <<roster, quiet>>,
         \A b \in Boxes : Untold(b) => Untold(b)'
  PROVE  MissedIsQuiet'
<1>. SUFFICES ASSUME NEW b \in Members(roster)
              PROVE  roster.missed[b] <= quiet[b] + (IF Untold(b)' THEN 1 ELSE 0)
  BY DEF MissedIsQuiet
<1>1. b \in Boxes
  BY DEF Members
<1>. QED BY <1>1, Counts DEF MissedIsQuiet

LEMMA BeatKeepsCount == ASSUME TypeOK, MissedIsQuiet, Beat PROVE MissedIsQuiet'
<1>1. CASE Tick
  <2>. SUFFICES ASSUME NEW b \in Members(roster')
                PROVE  roster'.missed[b] <= quiet'[b] + (IF Untold(b)' THEN 1 ELSE 0)
    BY DEF MissedIsQuiet
  <2>1. b \in Boxes /\ b \in Members(roster) /\ roster'.missed[b] = roster.missed[b] + 1
    BY <1>1, TickedType DEF Tick, TypeOK, Members
  <2>2. roster.missed[b] <= quiet[b]
    BY <1>1, <2>1, Counts DEF Tick, MissedIsQuiet, Untold
  <2>3. b \notin Dropped(roster)
    <3>1. roster'.missed[b] # MissedMax
      BY DEF Members, Out
    <3>2. roster'.missed[b] \in 0..MissedMax
      <4>1. roster' \in Rosters
        BY <1>1, TickedType DEF Tick, TypeOK
      <4>. QED BY <2>1, <4>1 DEF Rosters, Out
    <3>. QED BY <2>1, <3>1, <3>2, Counts DEF Dropped
  <2>4. quiet'[b] = quiet[b]
    BY <1>1, <2>1, <2>3 DEF Tick
  <2>5. Untold(b)'
    <3>1. beat'.at = "prune"
      BY <1>1, GotoType DEF Tick
    <3>. QED BY <3>1 DEF Untold
  <2>. QED BY <2>1, <2>2, <2>4, <2>5, Counts
<1>2. CASE Pruned \/ Collect \/ Check \/ BuildVerified \/ Publish
  <2>1. beat'.at \in {"collect", "gather", "probe", "build", "publish"}
    <3>1. CASE Pruned
      BY <3>1, GotoType DEF Pruned
    <3>2. CASE Collect \/ Check \/ BuildVerified \/ Publish
      BY <3>2 DEF Collect, Check, BuildVerified, Publish, Rest
    <3>. QED BY <1>2, <3>1, <3>2
  <2>2. UNCHANGED <<roster, quiet>>
    BY <1>2 DEF Pruned, Collect, Check, BuildVerified, Publish, box
  <2>. QED BY <2>1, <2>2, CountIsKept DEF Untold
<1>3. CASE Gather
  <2>1. beat'.at = "ask" /\ beat'.todo = Members(roster)
    BY <1>3 DEF Gather, Rest
  <2>. QED BY <1>3, <2>1 DEF Gather, MissedIsQuiet, Untold, box
<1>4. CASE Asked
  <2>1. beat'.at = "tell" /\ beat'.todo = beat.todo /\ beat.at = "ask"
    BY <1>4, GotoType DEF Asked
  <2>. QED BY <1>4, <2>1, CountIsKept DEF Asked, Untold, box
<1>5. CASE Told
  BY <1>5, CountIsKept DEF Told, Untold, box
<1>6. ASSUME NEW c \in Boxes, Probe(c) PROVE MissedIsQuiet'
  <2>1. UNCHANGED <<roster, quiet>> /\ beat'.at = "probe"
    BY <1>6 DEF Probe, TypeOK, Beats
  <2>. QED BY <2>1, CountIsKept DEF Untold
<1>7. ASSUME NEW c \in Boxes, Reply(c) PROVE MissedIsQuiet'
  <2>1. beat'.at = "tell" /\ beat'.todo = beat.todo \ {c} /\ beat.at = "tell"
    BY <1>7 DEF Reply, TypeOK, Beats
  <2>2. \A b \in Boxes : b # c /\ Untold(b) => Untold(b)'
    BY <2>1 DEF Untold
  <2>. QED BY <1>7, <2>2, AdmitType, HeardHasMissedNothing DEF Reply
<1>8. ASSUME NEW c \in Boxes, NoReply(c) PROVE MissedIsQuiet'
  <2>. SUFFICES ASSUME NEW b \in Members(roster)
                PROVE  roster.missed[b] <= quiet'[b] + (IF Untold(b)' THEN 1 ELSE 0)
    BY <1>8 DEF NoReply, MissedIsQuiet
  <2>0. b \in Boxes
    BY DEF Members
  <2>1. beat'.at = "tell" /\ beat'.todo = beat.todo \ {c} /\ beat.at = "tell"
    BY <1>8 DEF NoReply, TypeOK, Beats
  <2>2. CASE b = c
    <3>1. roster.missed[b] < MissedMax
      BY <2>0, Counts DEF Members, Out
    <3>2. quiet'[b] = IF quiet[b] < MissedMax THEN quiet[b] + 1 ELSE quiet[b]
      BY <1>8, <2>2 DEF NoReply, TypeOK
    <3>. QED BY <2>0, <3>1, <3>2, Counts DEF MissedIsQuiet
  <2>3. CASE b # c
    <3>1. quiet'[b] = quiet[b]
      BY <1>8, <2>0, <2>3 DEF NoReply, TypeOK
    <3>2. Untold(b) => Untold(b)'
      BY <2>1, <2>3 DEF Untold
    <3>. QED BY <2>0, <3>1, <3>2, Counts DEF MissedIsQuiet
  <2>. QED BY <2>2, <2>3
<1>. QED BY <1>1, <1>2, <1>3, <1>4, <1>5, <1>6, <1>7, <1>8 DEF Beat

LEMMA EventsKeepCount ==
  ASSUME TypeOK, MissedIsQuiet, NEW b \in Boxes, EventsAt(b)
  PROVE  MissedIsQuiet'
<1>0. UNCHANGED beat
  BY DEF EventsAt, Announce, Revoke, Listed, Unapproved, Approve, Twin, Switch
<1>1. ASSUME NEW t \in Threads, Announce(t, b) PROVE MissedIsQuiet'
  BY <1>0, <1>1, AdmitType, HeardHasMissedNothing DEF Announce, Untold
<1>2. CASE Listed(b)
  <2>. SUFFICES ASSUME NEW c \in Members(roster')
                PROVE  roster'.missed[c] <= quiet[c] + (IF Untold(c) THEN 1 ELSE 0)
    BY <1>0, <1>2 DEF Listed, MissedIsQuiet, Untold, box
  <2>0. c \in Boxes
    BY DEF Members
  <2>1. roster'.missed[c] \in {0, roster.missed[c]}
    BY <1>2, <2>0, DiscoveredType DEF Listed, TypeOK
  <2>2. CASE roster'.missed[c] = 0
    BY <2>0, <2>2, Counts
  <2>3. CASE roster'.missed[c] = roster.missed[c]
    <3>1. c \in Members(roster)
      BY <2>0, <2>3 DEF Members
    <3>. QED BY <2>3, <3>1 DEF MissedIsQuiet
  <2>. QED BY <2>1, <2>2, <2>3
<1>3. CASE \/ \E t \in Threads : Revoke(t, b)
           \/ Unapproved(b) \/ Approve(b) \/ Twin(b) \/ Switch(b)
  <2>1. UNCHANGED <<roster, quiet>>
    BY <1>3 DEF Revoke, Unapproved, Approve, Twin, Switch
  <2>. QED BY <1>0, <2>1 DEF MissedIsQuiet, Untold
<1>. QED BY <1>1, <1>2, <1>3 DEF EventsAt

LEMMA CountsAreKept == ASSUME TypeOK, MissedIsQuiet, [Next]_vars PROVE MissedIsQuiet'
<1>1. CASE UNCHANGED vars
  BY <1>1 DEF MissedIsQuiet, Untold, vars, box
<1>2. ASSUME NEW t \in Workers, Work(t) PROVE MissedIsQuiet'
  <2>1. UNCHANGED <<roster, quiet, beat>>
    BY <1>2 DEF Work, Store, Drop, Look, Build, Replace, box
  <2>. QED BY <2>1 DEF MissedIsQuiet, Untold
<1>3. CASE Next
  BY <1>2, <1>3, NextIsOneOfThese, BeatKeepsCount, EventsKeepCount
<1>. QED BY <1>1, <1>3

LEMMA MissedIsQuietAlways == Spec => []MissedIsQuiet
<1>1. Init => MissedIsQuiet
  <2>1. Init => Members(roster) = {}
    BY DEF Init, EmptyRoster, Members
  <2>. QED BY <2>1 DEF MissedIsQuiet
<1>. QED BY TypeCorrect, <1>1, CountsAreKept, PTL DEF Spec

LEMMA LeavingIsQuiet ==
  ASSUME TypeOK, MissedIsQuiet, [Next]_vars, NEW b \in Members(roster) \ Members(roster')
  PROVE  quiet[b] >= MissedMax - 1
<1>0. b \in Boxes
  BY DEF Members
<1>1. CASE Tick
  <2>1. roster.missed[b] + 1 = MissedMax
    BY <1>1, TickedType DEF Tick, TypeOK
  <2>2. roster.missed[b] <= quiet[b]
    BY <1>0, <1>1, Counts DEF Tick, MissedIsQuiet, Untold
  <2>. QED BY <1>0, <2>1, <2>2, Counts
<1>2. ASSUME NEW t, NEW c \in Boxes, Admit(t, c) PROVE FALSE
  <2>1. roster'.missed[b] \in {0, roster.missed[b]}
    BY <1>0, <1>2, AdmitType DEF TypeOK, Rosters
  <2>. QED BY <1>0, <2>1, RosterAssumption DEF Members, Out
<1>3. ASSUME NEW c \in Boxes, Listed(c) PROVE FALSE
  <2>1. roster'.missed[b] \in {0, roster.missed[b]}
    BY <1>0, <1>3, DiscoveredType DEF Listed, TypeOK
  <2>. QED BY <1>0, <2>1, RosterAssumption DEF Members, Out
<1>4. \/ Tick
      \/ \E t \in Workers, c \in Boxes : Admit(t, c)
      \/ \E c \in Boxes : Listed(c)
      \/ UNCHANGED roster
  <2>1. CASE UNCHANGED vars
    BY <2>1 DEF vars
  <2>2. CASE Beat
    BY <2>2 DEF Beat, Pruned, Collect, Check, BuildVerified, Publish, Gather, Asked, Told, Probe,
       Reply, NoReply, Workers, box
  <2>3. ASSUME NEW t \in Workers, Work(t) PROVE UNCHANGED roster
    BY <2>3 DEF Work, Store, Drop, Look, Build, Replace
  <2>4. ASSUME NEW c \in Boxes, EventsAt(c)
        PROVE  (\E t \in Workers : Admit(t, c)) \/ Listed(c) \/ UNCHANGED roster
    BY <2>4 DEF EventsAt, Announce, Revoke, Unapproved, Approve, Twin, Switch, Workers
  <2>. QED BY <2>1, <2>2, <2>3, <2>4, NextIsOneOfThese
<1>5. roster' # roster
  BY DEF Members
<1>. QED BY <1>1, <1>2, <1>3, <1>4, <1>5

(* A member that is dropped has left unanswered MissedMax - 1 passes in a   *)
(* row: passes that follow each other quickly count none of them twice.     *)
THEOREM HealthyMembersStay == Spec => HealthyStays
<1>1. ASSUME TypeOK, MissedIsQuiet, [Next]_vars
      PROVE  [\A b \in Members(roster) \ Members(roster') : quiet[b] >= MissedMax - 1]_vars
  BY <1>1, LeavingIsQuiet
<1>. QED BY TypeCorrect, MissedIsQuietAlways, <1>1, PTL DEF Spec, HealthyStays
=============================================================================
