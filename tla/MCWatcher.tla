------------------------------ MODULE MCWatcher ------------------------------
(* Two lanes of one machine, the second released after the first. *)
EXTENDS WatcherProperties

CONSTANTS a, b

Staggered == [l \in Lanes |-> IF l = a THEN 0 ELSE 1]
Each == [l \in Lanes |-> 1]
=============================================================================
