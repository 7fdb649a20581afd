------------------------------ MODULE MCFloor ------------------------------
(* Floor on a small instance. *)
EXTENDS FloorProperties

MCTimeout == [transcribe |-> 1, generate |-> 2, tool |-> 1, tts |-> 1]
=============================================================================
