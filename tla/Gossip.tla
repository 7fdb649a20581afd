-------------------------------- MODULE Gossip --------------------------------
(***************************************************************************)
(* The rosters of the boxes of a mesh and what they tell each other: every *)
(* box runs a heartbeat (lobes/gateway/_mesh_routes.py, _heartbeat_loop)   *)
(* that drops who was not heard, asks its seeds for their rosters and      *)
(* announces itself to them and to its members, whose replies announce     *)
(* them in turn.                                                           *)
(*                                                                         *)
(* An interval is LOBES_MESH_HEARTBEAT_S, the same on all boxes.  A pass   *)
(* that is woken by an event takes no time in comparison.                  *)
(***************************************************************************)
EXTENDS Roster, FiniteSets

CONSTANTS
  Seeds,       \* [Boxes -> SUBSET Boxes]: LOBES_MESH_SEEDS of each box
  MaxChanges   \* bound: boxes that stop or start

ASSUME GossipAssumption == Seeds \in [Boxes -> SUBSET Boxes] /\ MaxChanges \in Nat

VARIABLES
  up,       \* the boxes that run
  roster,
  heard,    \* of each box, whose announcement it has stored
  woken,    \* the boxes whose loop has an event to look at (_verify_now_event)
  pass,     \* the pass of each box
  due,      \* the boxes that have not run a pass in this interval
  changes

vars == <<up, roster, heard, woken, pass, due, changes>>

(* What is left of a pass: the seeds to ask and the boxes to announce to. *)
Waiting == [at |-> "wait", ask |-> {}, tell |-> {}]
Passes == [at : {"wait", "ask", "tell"}, ask : SUBSET Boxes, tell : SUBSET Boxes]

TypeOK ==
  /\ up \in SUBSET Boxes
  /\ roster \in [Boxes -> Rosters]
  /\ heard \in [Boxes -> SUBSET Boxes]
  /\ woken \in SUBSET Boxes
  /\ pass \in [Boxes -> Passes]
  /\ due \in SUBSET Boxes
  /\ changes \in 0..MaxChanges

Init ==
  /\ up = Boxes
  /\ roster = [b \in Boxes |-> EmptyRoster]
  /\ heard = [b \in Boxes |-> {}]
  /\ woken = {}
  /\ pass = [b \in Boxes |-> Waiting]
  /\ due = Boxes
  /\ changes = 0

-----------------------------------------------------------------------------
(* A pass, at its time or woken, puts the next one off by an interval.      *)
Tick(b) ==
  /\ b \in up /\ pass[b].at = "wait" /\ b \in due \cup woken
  /\ due' = due \ {b} /\ woken' = woken \ {b}
  /\ roster' = [roster EXCEPT ![b] = Ticked(roster[b])]
  /\ heard' = [heard EXCEPT ![b] = heard[b] \ Dropped(roster[b])]
  /\ pass' = [pass EXCEPT ![b] =
       [at |-> "ask", ask |-> Seeds[b], tell |-> Seeds[b] \cup Members(Ticked(roster[b]))]]
  /\ UNCHANGED <<up, changes>>

(* The roster of a seed.  Whoever is listed there and is no member wakes    *)
(* the loop, admitted or not.                                               *)
New(b, listed) == listed \ Members(roster[b])

AskSeed(b, s) ==
  LET listed == Members(roster[s]) \ {b}
  IN  /\ pass[b].at = "ask" /\ s \in pass[b].ask
      /\ pass' = [pass EXCEPT ![b].ask = @ \ {s}]
      /\ IF s \in up
         THEN /\ roster' = [roster EXCEPT ![b] = Discovered(roster[b], listed)]
              /\ woken' = IF New(b, listed) # {} THEN woken \cup {b} ELSE woken
         ELSE UNCHANGED <<roster, woken>>
      /\ UNCHANGED <<up, heard, due, changes>>

AskedAll(b) ==
  /\ pass[b].at = "ask" /\ pass[b].ask = {}
  /\ pass' = [pass EXCEPT ![b].at = "tell"]
  /\ UNCHANGED <<up, roster, heard, woken, due, changes>>

Tell_NoReply(b, p) ==
  /\ pass[b].at = "tell" /\ p \in pass[b].tell
  /\ pass' = [pass EXCEPT ![b].tell = @ \ {p}]
  /\ IF p \in up
     THEN /\ roster' = [roster EXCEPT ![p] = Announced(@, b)]
          /\ heard' = [heard EXCEPT ![p] = @ \cup {b}]
          /\ woken' = woken \cup IF b \in heard[p] THEN {} ELSE {p}
     ELSE UNCHANGED <<roster, heard, woken>>
  /\ UNCHANGED <<up, due, changes>>

(* An announcement and its reply.  One that was not heard before wakes the  *)
(* loop of whom it reaches.                                                 *)
Tell(b, p) ==
  /\ pass[b].at = "tell" /\ p \in pass[b].tell
  /\ pass' = [pass EXCEPT ![b].tell = @ \ {p}]
  /\ IF p \in up
     THEN /\ roster' = [roster EXCEPT ![p] = Announced(@, b), ![b] = Announced(@, p)]
          /\ heard' = [heard EXCEPT ![p] = @ \cup {b}, ![b] = @ \cup {p}]
          /\ woken' = woken \cup (IF b \in heard[p] THEN {} ELSE {p})
                            \cup (IF p \in heard[b] THEN {} ELSE {b})
     ELSE UNCHANGED <<roster, heard, woken>>
  /\ UNCHANGED <<up, due, changes>>

ToldAll(b) ==
  /\ pass[b].at = "tell" /\ pass[b].tell = {}
  /\ pass' = [pass EXCEPT ![b] = Waiting]
  /\ UNCHANGED <<up, roster, heard, woken, due, changes>>

NextInterval ==
  /\ \A b \in up : pass[b].at = "wait" /\ b \notin due \cup woken
  /\ due' = up
  /\ UNCHANGED <<up, roster, heard, woken, pass, changes>>

-----------------------------------------------------------------------------
(* A box stops, at any point, or starts, with an empty roster. *)
Change(b) ==
  /\ changes < MaxChanges /\ changes' = changes + 1
  /\ roster' = [roster EXCEPT ![b] = EmptyRoster]
  /\ heard' = [heard EXCEPT ![b] = {}]
  /\ woken' = woken \ {b}
  /\ pass' = [pass EXCEPT ![b] = Waiting]

Stops(b) == b \in up /\ Change(b) /\ up' = up \ {b} /\ due' = due \ {b}
Starts(b) == b \notin up /\ Change(b) /\ up' = up \cup {b} /\ due' = due \cup {b}

Pass(b) ==
  \/ Tick(b) \/ AskedAll(b) \/ ToldAll(b)
  \/ \E p \in Boxes : AskSeed(b, p) \/ Tell(b, p)

Next == (\E b \in Boxes : Pass(b) \/ Stops(b) \/ Starts(b)) \/ NextInterval

Spec == Init /\ [][Next]_vars

Fairness == (\A b \in Boxes : WF_vars(Pass(b))) /\ WF_vars(NextInterval)

FairSpec == Spec /\ Fairness
=============================================================================
