-------------------------------- MODULE MCPool --------------------------------
(* Two requests at a time for a replica here and one of a peer. *)
EXTENDS PoolProperties

CONSTANTS spark, thor

Measured == [o \in Boxes |-> IF o = thor THEN 2 ELSE 0]
=============================================================================
