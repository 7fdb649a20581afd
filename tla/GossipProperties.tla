--------------------------- MODULE GossipProperties ---------------------------
(* What the rosters of a mesh owe its boxes. *)
EXTENDS Gossip

(* A box that runs and is a seed of all the others that run. *)
Hub == \E s \in up : \A b \in up \ {s} : s \in Seeds[b]

(* When no box stops or starts any more, and one that runs is a seed of all *)
(* the others, every box comes to list every other for good, although most  *)
(* of them were typed nowhere: nobody who answers is ever dropped again.    *)
EveryoneIsFound ==
  <>[](Hub => \A a, b \in up : a # b => a \in Members(roster[b]))

(* A box that has stopped for good is dropped, again and again if a peer    *)
(* brings it back: to be listed by a peer is no sign of life.               *)
DeadIsDropped ==
  \A a, b \in Boxes : []<>(a \in up \/ b \notin up \/ a \notin Members(roster[b]))

(* "A stopped member leaves every roster within two intervals": the hold-   *)
(* down keeps the survivors from reviving it for each other forever.        *)
DeadIsForgotten == <>[](\A b \in up : Members(roster[b]) \subseteq up)
=============================================================================
