---------------------------- MODULE MCDecisions ----------------------------
(***************************************************************************)
(* Two decisions: one to be resolved and to have outcomes, one to ask      *)
(* advice about; two threads.  A request's event tells its choice from     *)
(* that of another request, so that one option is enough.                  *)
(***************************************************************************)
EXTENDS Decisions, TLC

Symmetry == Permutations(Proc) \cup Permutations(Decision) \cup Permutations(Item)
=============================================================================
