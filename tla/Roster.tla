-------------------------------- MODULE Roster --------------------------------
(***************************************************************************)
(* Who is in the mesh, as one box sees it (lobes/gateway/_mesh_roster.py,  *)
(* Roster): a member stays while it announces itself, and a member that    *)
(* was dropped is held down for as many ticks against peers that still     *)
(* list it.                                                                *)
(*                                                                         *)
(* A box has one name and one origin here.  The limit on registrations     *)
(* (_FLAPPING_THRESHOLD) is left out: it asks for more than three          *)
(* registrations of a name within one second.                              *)
(***************************************************************************)
EXTENDS Naturals

CONSTANTS
  Boxes,
  MissedMax   \* LOBES_MESH_MISSED_MAX

ASSUME RosterAssumption == MissedMax \in Nat \ {0}

(* missed counts the ticks since a member was heard; Out if it is none.     *)
(* held is the hold-down that is left of a box that was dropped.            *)
Out == MissedMax
Rosters == [missed : [Boxes -> 0..Out], held : [Boxes -> 0..MissedMax]]
EmptyRoster == [missed |-> [b \in Boxes |-> Out], held |-> [b \in Boxes |-> 0]]

Members(roster) == {b \in Boxes : roster.missed[b] # Out}

Announced_OnlyRegisters(roster, b) ==
  IF b \in Members(roster) THEN roster ELSE [roster EXCEPT !.missed[b] = 0]

(* b announced itself: registered, or seen again. *)
Announced(roster, b) == [roster EXCEPT !.missed[b] = 0]

Discovered_Refreshes(roster, listed) ==
  [roster EXCEPT !.missed = [b \in Boxes |->
     IF b \in listed /\ roster.held[b] = 0 THEN 0 ELSE roster.missed[b]]]

(* A peer lists these boxes.  That tells nothing new of a member, and is    *)
(* not believed of a box that was just dropped.                             *)
Discovered(roster, listed) ==
  [roster EXCEPT !.missed = [b \in Boxes |->
     IF b \in listed \ Members(roster) /\ roster.held[b] = 0 THEN 0
     ELSE roster.missed[b]]]

(* A tick: members that have missed too many are dropped and held down. *)
Dropped(roster) == {b \in Members(roster) : roster.missed[b] + 1 >= MissedMax}

Ticked(roster) ==
  [missed |-> [b \in Boxes |-> IF b \in Members(roster) THEN roster.missed[b] + 1 ELSE Out],
   held |-> [b \in Boxes |-> IF b \in Dropped(roster) THEN MissedMax
                             ELSE IF roster.held[b] > 0 THEN roster.held[b] - 1 ELSE 0]]
=============================================================================
