---------------------------- MODULE MCConversation ----------------------------
(* Conversation with the commands in flight interchangeable.                      *)
EXTENDS Conversation, TLC

Symmetry == Permutations(Route)
===============================================================================
