------------------------------ MODULE MCLedger ------------------------------
(* The ledgers of a few boxes, with the entry of one name. *)
EXTENDS LedgerProperties

CONSTANTS a, b, c, name

(* Two boxes that are each other's seed; three, each with the next one.     *)
Mutual == [x \in Boxes |-> Boxes \ {x}]
Ring == [x \in Boxes |-> IF x = a THEN {b} ELSE IF x = b THEN {c} ELSE {a}]

Together == [x \in Boxes |-> 0]
(* b's machine has been up for longer than the others', and no two stamps   *)
(* are the same.                                                            *)
Apart == [x \in Boxes |-> IF x = b THEN 3 ELSE 0]
=============================================================================
