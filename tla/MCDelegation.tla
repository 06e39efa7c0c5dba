---------------------------- MODULE MCDelegation ----------------------------
(***************************************************************************)
(* Two handler threads, one external id and one content.  A prediction of  *)
(* confidence 92 passes the first policy and not the second; the last two  *)
(* proposals are refused.  "get", which is the first two steps of the      *)
(* others, is left out.                                                    *)
(***************************************************************************)
EXTENDS Delegation, TLC

MCProposal ==
  {[impact |-> "low", minimum |-> 90, automatic |-> TRUE],
   [impact |-> "medium", minimum |-> 95, automatic |-> TRUE],
   [impact |-> "low", minimum |-> 85, automatic |-> TRUE],
   [impact |-> "high", minimum |-> 100, automatic |-> TRUE]}
Symmetry == Permutations(Proc)
=============================================================================
