--------------------------- MODULE MCConversation ----------------------------
(***************************************************************************)
(* Conversation from its first message, for one disagreement with what the *)
(* code says of itself: nothing fails, and two messages may wait at once.  *)
(***************************************************************************)
EXTENDS Conversation

Words == {<<"say">>, <<"call", "say">>, <<"say", "call", "call">>}

Nothing == <<>>

Untroubled == [crash |-> 0, stop |-> 0, compact |-> 0, lose |-> 0]
=============================================================================
