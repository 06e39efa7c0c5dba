------------------------------- MODULE MCAccess -------------------------------
(***************************************************************************)
(* The two doors of authorize, devices and external services, share no     *)
(* table: a behaviour is one of either, next to the other at rest.         *)
(***************************************************************************)
EXTENDS Pairing, ExternalAccess, TLC

Init == PairingInit /\ ExternalInit

Next ==
  \/ ExternalInit /\ PairingNext /\ UNCHANGED externalVars
  \/ PairingInit /\ ExternalNext /\ UNCHANGED pairingVars

Spec == Init /\ [][Next]_<<pairingVars, externalVars>>

Symmetry == Permutations(Phone) \cup Permutations(Thread) \cup Permutations(Token)
            \cup Permutations(Device) \cup Permutations(Credential)
=============================================================================
