--------------------------- MODULE MCConversation ---------------------------
(* Conversation on a small instance. *)
EXTENDS ConversationProperties

MCTimeout == [transcribe |-> 1, generate |-> 1, tool |-> 1, tts |-> 1]
=============================================================================
