-------------------------------- MODULE MCMesh --------------------------------
(* The other boxes of a small mesh, as one box sees them. *)
EXTENDS MeshProperties

CONSTANTS spark, thor

Some == [b \in Boxes |-> IF b = spark THEN Identities ELSE {"one"}]

(* What spark may serve is only compared with itself: it begins with "one". *)
InitFromOne == Init /\ serves[spark] = "one"
FairSpecFromOne == InitFromOne /\ [][Next]_vars /\ Fairness
=============================================================================
