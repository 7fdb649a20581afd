------------------------------- MODULE MCGossip -------------------------------
(* Three boxes, one of them a seed of the others and one of them its seed.  *)
EXTENDS GossipProperties

CONSTANTS spark, thor, orin

Star == [b \in Boxes |-> IF b = spark THEN {thor} ELSE {spark}]
=============================================================================
