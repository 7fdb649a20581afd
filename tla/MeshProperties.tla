---------------------------- MODULE MeshProperties ----------------------------
(* What a box owes those who ask it for the roles of the others. *)
EXTENDS Mesh

(* A member that was not heard is dropped, and a member that answers is not *)
(* dropped: one that is dropped has not answered the passes before, however *)
(* quickly one pass was woken after the other.                              *)
HealthyStays ==
  [][\A b \in Members(roster) \ Members(roster') : quiet[b] >= MissedMax - 1]_vars

(* A box that serves, and may, is routed to as what it serves, again and    *)
(* again: what one thread reads and another replaces costs it no more than  *)
(* the time to the next pass.                                               *)
LiveIsRouted ==
  \A b \in Boxes : []<>(serves[b] = Nothing \/ b \in revoked \/ view[b].probe = serves[b])

(* A box that has stopped, or is revoked for good, is in the end no more    *)
(* routed to, although a thread may still publish a view that it is in.     *)
GoneIsNotRouted ==
  \A b \in Boxes : <>[](serves[b] = Nothing \/ b \in revoked) => <>[]~Routable(b)

(* Under a pass that has not yet told b, b has missed one tick more than it *)
(* left unanswered; after that, no more.                                    *)
Untold(b) ==
  \/ beat.at \in {"prune", "collect", "probe", "build", "publish", "gather"}
  \/ beat.at \in {"ask", "tell"} /\ b \in beat.todo

MissedIsQuiet ==
  \A b \in Members(roster) :
    roster.missed[b] <= quiet[b] + (IF Untold(b) THEN 1 ELSE 0)

-----------------------------------------------------------------------------
(* "The mesh keeps serving with what remains": while the seeds are asked,   *)
(* to hear that one member is not approved takes no other, verified and     *)
(* announcing the same, out of routing.                                     *)
OthersKeepServing ==
  [][\A b \in Members(roster') \ revoked' :
       /\ beat.at = "ask" /\ job["seed"].at = "replace" /\ job'["seed"] = Idle
       /\ Routable(b) /\ anns'[b] = view[b].ann
       => Routable(b)']_vars
=============================================================================
