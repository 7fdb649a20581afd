--------------------------- MODULE MCSpeculation ---------------------------
(* Speculation on a small instance. *)
EXTENDS SpeculationProperties

MCTimeout == [transcribe |-> 1, generate |-> 1, tool |-> 1, tts |-> 1]
=============================================================================
