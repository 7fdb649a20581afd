----------------------------- MODULE GossipProofs -----------------------------
(***************************************************************************)
(* The rosters of a mesh of any size keep their types, whoever stops and   *)
(* starts, and whatever the boxes list to each other.                      *)
(***************************************************************************)
EXTENDS GossipProperties, TLAPS

(* The operators of a roster yield rosters. *)

LEMMA AnnouncedType ==
  ASSUME NEW r \in Rosters, NEW b \in Boxes
  PROVE  Announced(r, b) \in Rosters
BY RosterAssumption DEF Announced, Rosters, Out

LEMMA DiscoveredType ==
  ASSUME NEW r \in Rosters, NEW listed
  PROVE  Discovered(r, listed) \in Rosters
BY RosterAssumption DEF Discovered, Rosters, Out

LEMMA TickedType ==
  ASSUME NEW r \in Rosters
  PROVE  Ticked(r) \in Rosters
<1>1. /\ Ticked(r).missed \in [Boxes -> 0..Out]
      /\ Ticked(r).held \in [Boxes -> 0..MissedMax]
  BY RosterAssumption DEF Ticked, Members, Rosters, Out
<1>. QED BY <1>1 DEF Ticked, Rosters

LEMMA EmptyRosterType == EmptyRoster \in Rosters
BY RosterAssumption DEF EmptyRoster, Rosters, Out

LEMMA MembersAreBoxes == ASSUME NEW r PROVE Members(r) \subseteq Boxes
BY DEF Members

-----------------------------------------------------------------------------
(* A pass. *)

LEMMA TickKeepsType ==
  ASSUME TypeOK, NEW b \in Boxes, Tick(b)
  PROVE  TypeOK'
<1>1. Ticked(roster[b]) \in Rosters
  BY TickedType DEF TypeOK
<1>2. [at |-> "ask", ask |-> Seeds[b], tell |-> Seeds[b] \cup Members(Ticked(roster[b]))]
        \in Passes
  BY GossipAssumption, MembersAreBoxes DEF Passes
<1>. QED BY <1>1, <1>2 DEF Tick, TypeOK

LEMMA AskSeedKeepsType ==
  ASSUME TypeOK, NEW b \in Boxes, NEW s \in Boxes, AskSeed(b, s)
  PROVE  TypeOK'
<1>1. pass' \in [Boxes -> Passes]
  BY DEF AskSeed, TypeOK, Passes
<1>2. roster' \in [Boxes -> Rosters]
  <2>1. \A listed : Discovered(roster[b], listed) \in Rosters
    BY DiscoveredType DEF TypeOK
  <2>. QED BY <2>1 DEF AskSeed, TypeOK
<1>. QED BY <1>1, <1>2 DEF AskSeed, TypeOK

LEMMA TellKeepsType ==
  ASSUME TypeOK, NEW b \in Boxes, NEW p \in Boxes, Tell(b, p)
  PROVE  TypeOK'
<1>1. pass' \in [Boxes -> Passes]
  BY DEF Tell, TypeOK, Passes
<1>2. roster' \in [Boxes -> Rosters]
  <2>1. \A r \in Rosters : Announced(r, b) \in Rosters /\ Announced(r, p) \in Rosters
    BY AnnouncedType
  <2>2. [roster EXCEPT ![p] = Announced(@, b)] \in [Boxes -> Rosters]
    BY <2>1 DEF TypeOK
  <2>. QED BY <2>1, <2>2 DEF Tell, TypeOK
<1>. QED BY <1>1, <1>2 DEF Tell, TypeOK

LEMMA PassKeepsType ==
  ASSUME TypeOK, NEW b \in Boxes, Pass(b)
  PROVE  TypeOK'
<1>1. CASE AskedAll(b)
  BY <1>1 DEF AskedAll, TypeOK, Passes
<1>2. CASE ToldAll(b)
  BY <1>2 DEF ToldAll, Waiting, TypeOK, Passes
<1>. QED BY <1>1, <1>2, TickKeepsType, AskSeedKeepsType, TellKeepsType DEF Pass

(* A box that stops or starts. *)
LEMMA ChangeKeepsType ==
  ASSUME TypeOK, NEW b \in Boxes, Stops(b) \/ Starts(b)
  PROVE  TypeOK'
<1>1. changes' \in 0..MaxChanges
  BY GossipAssumption DEF Stops, Starts, Change, TypeOK
<1>2. Waiting \in Passes
  BY DEF Waiting, Passes
<1>3. roster' \in [Boxes -> Rosters] /\ pass' \in [Boxes -> Passes]
  BY <1>2, EmptyRosterType DEF Stops, Starts, Change, TypeOK
<1>. QED BY <1>1, <1>3 DEF Stops, Starts, Change, TypeOK

(* Rosters, hold-downs and passes have their types, for any number of boxes, *)
(* any seeds, LOBES_MESH_MISSED_MAX and changes (Roster, _heartbeat_loop).   *)
THEOREM TypeCorrect == Spec => []TypeOK
<1>1. Init => TypeOK
  BY EmptyRosterType, GossipAssumption DEF Init, TypeOK, Waiting, Passes
<1>2. TypeOK /\ [Next]_vars => TypeOK'
  <2>. SUFFICES ASSUME TypeOK, [Next]_vars PROVE TypeOK'
    OBVIOUS
  <2>1. CASE NextInterval
    BY <2>1 DEF NextInterval, TypeOK
  <2>2. CASE UNCHANGED vars
    BY <2>2 DEF vars, TypeOK
  <2>. QED BY <2>1, <2>2, PassKeepsType, ChangeKeepsType DEF Next
<1>. QED BY <1>1, <1>2, PTL DEF Spec
=============================================================================
