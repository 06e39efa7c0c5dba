-------------------------- MODULE MCConversations --------------------------
(***************************************************************************)
(* Two messages with two attempts each, retries by the owner, and a        *)
(* provider that finds any of two statements in a message.                 *)
(***************************************************************************)
EXTENDS Conversations, TLC

Symmetry == Permutations(Job) \cup Permutations(Item)
=============================================================================
