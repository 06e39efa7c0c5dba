---------------------------- MODULE MCConnectors ----------------------------
(***************************************************************************)
(* Two sync jobs of two attempts each, a feed of two items, two successive *)
(* registrations and two versions of the plugin.                           *)
(***************************************************************************)
EXTENDS Connectors, TLC

Symmetry == Permutations(Job) \cup Permutations(Manifest)
=============================================================================
