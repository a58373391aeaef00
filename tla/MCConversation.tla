--------------------------- MODULE MCConversation ---------------------------
(* The conversation on small instances. *)
EXTENDS Conversation

AllLevels == {Low, High}
=============================================================================
