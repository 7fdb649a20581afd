--------------------------------- MODULE Mesh ---------------------------------
(***************************************************************************)
(* One box of the mesh and what it routes by: a view that says of every    *)
(* member what it announced and whether a probe found it serve that        *)
(* (lobes/gateway/_mesh_routes.py, _mesh_routing.py).  The handlers of     *)
(* requests, the threads that ask the seeds and the heartbeat read the     *)
(* announcements and the view, build a view and replace the one there is,  *)
(* each in its own time.                                                   *)
(*                                                                         *)
(* A member has one role, and what it serves in it an identity: what       *)
(* _probe_identity compares.  A pass may start at any time, woken or not,  *)
(* but no request takes longer than a pass: the heartbeat sleeps, or it is *)
(* on the network.  So before it dials ("gather") the requests that are    *)
(* under way end, and none begins.                                         *)
(***************************************************************************)
EXTENDS Roster

CONSTANTS
  Identities,
  Serves,      \* what each box may come to serve
  Threads,     \* that handle requests
  MaxFaults    \* bound: what goes wrong, and what an operator does

ASSUME MeshAssumption == Serves \in [Boxes -> SUBSET Identities] /\ MaxFaults \in Nat

VARIABLES
  serves,    \* what each box serves, or Nothing while it does not run
  revoked,   \* the boxes whose approval is not in force here
  roster,
  anns,      \* _announcements, by origin
  view,      \* in the holder
  dirty,     \* _verify_event
  job,       \* of each thread: of requests, of the one that asks the seeds,
             \* and of the heartbeat while it takes a reply
  beat,      \* the pass of the heartbeat
  quiet,     \* history: the passes it has not answered since a box was heard
  faults     \* counts what MaxFaults bounds

box == <<serves, revoked, quiet, faults>>
vars == <<box, roster, anns, view, dirty, job, beat>>

Nothing == "nothing"
Announcements == Identities \cup {Nothing}

(* What the view knows of a probe of a member.  Of one that found it serve  *)
(* what it had announced the code keeps the role; here it is the identity.  *)
Pending == "pending"
Failed == "failed"
Results == Identities \cup {Pending, Failed}
Unknown == [in |-> FALSE, ann |-> Nothing, probe |-> Pending]
Entries == [in : BOOLEAN, ann : Announcements, probe : Results]
Views == [Boxes -> Entries]
Empty == [b \in Boxes |-> Unknown]

Routable(b) == view[b].in /\ view[b].probe \in Identities

NoResults == [b \in Boxes |-> Pending]
Idle == [at |-> "idle", of |-> {}, id |-> Nothing, results |-> NoResults, view |-> Empty]
Jobs == [at : {"idle", "store", "drop", "look", "build", "replace"}, of : SUBSET Boxes,
         id : Announcements, results : [Boxes -> Results], view : Views]
Rest == [at |-> "wait", todo |-> {}, taken |-> [b \in Boxes |-> Nothing],
         results |-> NoResults, view |-> Empty]
Beats == [at : {"wait", "prune", "collect", "probe", "build", "publish",
                "gather", "ask", "tell"},
          todo : SUBSET Boxes, taken : [Boxes -> Announcements],
          results : [Boxes -> Results], view : Views]
Workers == Threads \cup {"seed", "loop"}

TypeOK ==
  /\ serves \in [Boxes -> Announcements]
  /\ revoked \in SUBSET Boxes
  /\ roster \in Rosters
  /\ anns \in [Boxes -> Announcements]
  /\ view \in Views
  /\ dirty \in BOOLEAN
  /\ job \in [Workers -> Jobs]
  /\ beat \in Beats
  /\ quiet \in [Boxes -> 0..MissedMax]
  /\ faults \in 0..MaxFaults

(* The gateway has started: no members; the first pass verifies. *)
Init ==
  /\ serves \in [Boxes -> Identities]
  /\ \A b \in Boxes : serves[b] \in Serves[b]
  /\ revoked = {}
  /\ roster = EmptyRoster
  /\ anns = [b \in Boxes |-> Nothing]
  /\ view = Empty
  /\ dirty = TRUE
  /\ job = [t \in Workers |-> Idle]
  /\ beat = Rest
  /\ quiet = [b \in Boxes |-> 0]
  /\ faults = 0

-----------------------------------------------------------------------------
Built_Merged(members, results) ==
  [b \in Boxes |-> IF b \in members THEN [in |-> TRUE, ann |-> anns[b], probe |-> results[b]]
                   ELSE view[b]]

(* build_snapshot. *)
Built(members, results) ==
  [b \in Boxes |-> IF b \in members THEN [in |-> TRUE, ann |-> anns[b], probe |-> results[b]]
                   ELSE Unknown]

(* The results that still hold for what the members have announced. *)
Carried(announced) ==
  [b \in Boxes |-> IF view[b].in /\ view[b].ann = announced[b] THEN view[b].probe ELSE Pending]

Begin(t, next) == job' = [job EXCEPT ![t] = next]
Goto(place) == beat' = [beat EXCEPT !.at = place]

-----------------------------------------------------------------------------
(* An announcement, by request or as a reply: it is admitted, if the ledger *)
(* does not refuse it ...                                                   *)
Admit(t, b) ==
  /\ job[t].at = "idle"
  /\ serves[b] # Nothing /\ b \notin revoked
  /\ roster' = Announced(roster, b)
  /\ quiet' = [quiet EXCEPT ![b] = 0]
  /\ Begin(t, [Idle EXCEPT !.at = "store", !.of = {b}, !.id = serves[b]])

Announce(t, b) ==
  /\ t \in Threads /\ beat.at # "gather"
  /\ Admit(t, b)
  /\ UNCHANGED <<serves, revoked, faults, anns, view, dirty, beat>>

Store_NotDirty(t) ==
  /\ job[t].at = "store"
  /\ anns' = [b \in Boxes |-> IF b \in job[t].of THEN job[t].id ELSE anns[b]]
  /\ Begin(t, [Idle EXCEPT !.at = "look"])
  /\ UNCHANGED <<box, roster, dirty, view, beat>>

(* ... stored, whatever became of the member, and asks for verification. *)
Store(t) ==
  /\ job[t].at = "store"
  /\ anns' = [b \in Boxes |-> IF b \in job[t].of THEN job[t].id ELSE anns[b]]
  /\ dirty' = TRUE
  /\ Begin(t, [Idle EXCEPT !.at = "look"])
  /\ UNCHANGED <<box, roster, view, beat>>

(* refresh_routing_view. *)
Look(t) ==
  /\ job[t].at = "look"
  /\ Begin(t, [Idle EXCEPT !.at = "build", !.results = Carried(anns)])
  /\ UNCHANGED <<box, roster, anns, view, dirty, beat>>

Build(t) ==
  /\ job[t].at = "build"
  /\ Begin(t, [Idle EXCEPT !.at = "replace",
                 !.view = Built(Members(roster), job[t].results)])
  /\ UNCHANGED <<box, roster, anns, view, dirty, beat>>

Replace(t) ==
  /\ job[t].at = "replace"
  /\ view' = job[t].view
  /\ Begin(t, Idle)
  /\ UNCHANGED <<box, roster, anns, dirty, beat>>

(* While the seeds are asked: one lists a box that is no member. *)
Listed(b) ==
  /\ beat.at = "ask" /\ job["seed"].at = "idle"
  /\ b \notin Members(roster)
  /\ roster' = Discovered(roster, {b})
  /\ dirty' = TRUE
  /\ Begin("seed", [Idle EXCEPT !.at = "look"])
  /\ UNCHANGED <<box, anns, view, beat>>

-----------------------------------------------------------------------------
Fault == faults < MaxFaults /\ faults' = faults + 1

(* The ledger of a seed has boxes that are not approved: what they announced *)
(* goes, and a view is built without any result of a probe.                  *)
Unapproved(b) ==
  /\ beat.at = "ask" /\ job["seed"].at = "idle"
  /\ IF b \in revoked THEN UNCHANGED faults ELSE Fault
  /\ revoked' = revoked \cup {b}
  /\ Begin("seed", [Idle EXCEPT !.at = "drop", !.of = {b}])
  /\ UNCHANGED <<serves, quiet, roster, anns, view, dirty, beat>>

(* POST /mesh/revoke does not find the announcement by the name, and builds *)
(* such a view, too.                                                        *)
Revoke(t, b) ==
  /\ t \in Threads /\ job[t].at = "idle" /\ beat.at # "gather"
  /\ b \notin revoked /\ Fault
  /\ revoked' = revoked \cup {b}
  /\ Begin(t, [Idle EXCEPT !.at = "build"])
  /\ UNCHANGED <<serves, quiet, roster, anns, view, dirty, beat>>

(* Announcements go, before a view is built: of a member that is not        *)
(* approved, or of those a tick dropped.  The lock that is held until the   *)
(* view is replaced keeps no announcement out.                              *)
Drop(t) ==
  LET gone == IF t = "loop" THEN job[t].of ELSE job[t].of \cap Members(roster)
  IN  /\ job[t].at = "drop"
      /\ anns' = [b \in Boxes |-> IF b \in gone THEN Nothing ELSE anns[b]]
      /\ Begin(t, [Idle EXCEPT !.at = IF t = "loop" THEN "look" ELSE "build"])
      /\ UNCHANGED <<box, roster, view, dirty, beat>>

(* POST /mesh/approve. *)
Approve(b) ==
  /\ b \in revoked
  /\ revoked' = revoked \ {b}
  /\ dirty' = TRUE
  /\ UNCHANGED <<serves, quiet, faults, roster, anns, view, job, beat>>

(* Another origin announces itself by the name of a member: it is refused,  *)
(* and every announcement but the member's goes (_drop_stale_announcements_ *)
(* for).                                                                    *)
Twin(b) ==
  /\ b \in Members(roster) /\ b \notin revoked /\ Fault
  /\ anns' = [m \in Boxes |-> IF m = b THEN anns[m] ELSE Nothing]
  /\ UNCHANGED <<serves, revoked, quiet, roster, view, dirty, job, beat>>

(* A box comes to serve something else, stops, or starts. *)
Switch(b) ==
  /\ Fault
  /\ \E id \in (Serves[b] \cup {Nothing}) \ {serves[b]} : serves' = [serves EXCEPT ![b] = id]
  /\ UNCHANGED <<revoked, quiet, roster, anns, view, dirty, job, beat>>

-----------------------------------------------------------------------------
(* A pass of the heartbeat.  Members that were not heard go, with what they *)
(* announced, and a view is built without them, in which the others keep    *)
(* their results ...                                                        *)
Tick ==
  /\ beat.at = "wait"
  /\ roster' = Ticked(roster)
  /\ quiet' = [b \in Boxes |-> IF b \in Dropped(roster) THEN 0 ELSE quiet[b]]
  /\ Begin("loop", IF Dropped(roster) = {} THEN Idle
                   ELSE [Idle EXCEPT !.at = "drop", !.of = Dropped(roster)])
  /\ Goto("prune")
  /\ UNCHANGED <<serves, revoked, faults, anns, view, dirty>>

(* ... before it is seen whether anything is to be verified. *)
Pruned ==
  /\ beat.at = "prune" /\ job["loop"] = Idle
  /\ dirty' = FALSE
  /\ Goto(IF dirty THEN "collect" ELSE "gather")
  /\ UNCHANGED <<box, roster, anns, view, job>>

(* verify_members: the announcements to verify; with none of them a view is *)
(* built all the same ...                                                   *)
Collect ==
  LET todo == {b \in Members(roster) : anns[b] # Nothing}
  IN  /\ beat.at = "collect"
      /\ beat' = IF todo = {} THEN [Rest EXCEPT !.at = "build"]
                 ELSE [Rest EXCEPT !.at = "probe", !.todo = todo,
                         !.taken = [b \in Boxes |-> IF b \in todo THEN anns[b]
                                                    ELSE Nothing]]
      /\ UNCHANGED <<box, roster, anns, view, dirty, job>>

(* ... a probe of each of them, with a result either way ... *)
Probe(b) ==
  /\ beat.at = "probe" /\ b \in beat.todo
  /\ \E result \in {beat.taken[b], Failed} :
       /\ beat' = [beat EXCEPT !.todo = @ \ {b}, !.results[b] = result]
       /\ IF result = Failed /\ serves[b] = beat.taken[b] THEN Fault ELSE UNCHANGED faults
       /\ result # Failed => serves[b] = beat.taken[b]
  /\ UNCHANGED <<serves, revoked, quiet, roster, anns, view, dirty, job>>

(* ... of which only those count whose announcement is the same as before ... *)
Check ==
  /\ beat.at = "probe" /\ beat.todo = {}
  /\ beat' = [Rest EXCEPT !.at = "build",
                !.results = [b \in Boxes |-> IF anns[b] = beat.taken[b] THEN beat.results[b]
                                             ELSE Pending]]
  /\ UNCHANGED <<box, roster, anns, view, dirty, job>>

(* ... and a view of them. *)
BuildVerified ==
  /\ beat.at = "build"
  /\ beat' = [Rest EXCEPT !.at = "publish", !.view = Built(Members(roster), beat.results)]
  /\ UNCHANGED <<box, roster, anns, view, dirty, job>>

Publish ==
  /\ beat.at = "publish"
  /\ view' = beat.view
  /\ beat' = [Rest EXCEPT !.at = "gather"]
  /\ UNCHANGED <<box, roster, anns, dirty, job>>

(* The seeds are asked, and have all answered before the members are told,  *)
(* the ones there were before that.                                         *)
Gather ==
  /\ beat.at = "gather" /\ \A t \in Threads : job[t] = Idle
  /\ beat' = [Rest EXCEPT !.at = "ask", !.todo = Members(roster)]
  /\ UNCHANGED <<box, roster, anns, view, dirty, job>>

Asked ==
  /\ beat.at = "ask" /\ job["seed"] = Idle
  /\ Goto("tell")
  /\ UNCHANGED <<box, roster, anns, view, dirty, job>>

(* The reply of a member announces it. *)
Reply(b) ==
  /\ beat.at = "tell" /\ b \in beat.todo
  /\ Admit("loop", b)
  /\ beat' = [beat EXCEPT !.todo = @ \ {b}]
  /\ UNCHANGED <<serves, revoked, faults, anns, view, dirty>>

NoReply(b) ==
  /\ beat.at = "tell" /\ b \in beat.todo /\ job["loop"] = Idle
  /\ IF serves[b] = Nothing \/ b \in revoked THEN UNCHANGED faults ELSE Fault
  /\ beat' = [beat EXCEPT !.todo = @ \ {b}]
  /\ quiet' = [quiet EXCEPT ![b] = IF @ < MissedMax THEN @ + 1 ELSE @]
  /\ UNCHANGED <<serves, revoked, roster, anns, view, dirty, job>>

Told ==
  /\ beat.at = "tell" /\ beat.todo = {} /\ job["loop"] = Idle
  /\ beat' = Rest
  /\ UNCHANGED <<box, roster, anns, view, dirty, job>>

-----------------------------------------------------------------------------
Work(t) == Store(t) \/ Drop(t) \/ Look(t) \/ Build(t) \/ Replace(t)

Beat ==
  \/ Tick \/ Pruned \/ Collect \/ Check \/ BuildVerified \/ Publish \/ Gather
  \/ Asked \/ Told
  \/ \E b \in Boxes : Probe(b) \/ Reply(b) \/ NoReply(b)

Next ==
  \/ Beat
  \/ \E t \in Workers : Work(t)
  \/ \E t \in Threads, b \in Boxes : Announce(t, b) \/ Revoke(t, b)
  \/ \E b \in Boxes : Listed(b) \/ Unapproved(b) \/ Approve(b) \/ Twin(b) \/ Switch(b)

Spec == Init /\ [][Next]_vars

(* A box that runs announces itself again and again; no thread hangs, and   *)
(* the list of a seed ends.                                                 *)
Fairness ==
  /\ WF_vars(Beat) /\ SF_vars(Asked)
  /\ \A t \in Workers : WF_vars(Work(t))
  /\ \A b \in Boxes : SF_vars(\E t \in Threads : Announce(t, b))

FairSpec == Spec /\ Fairness
=============================================================================
