------------------------- MODULE DelegationContract -------------------------
(***************************************************************************)
(* ADR-013 as a lifecycle: each delegation request is answered with an     *)
(* automatic approval or left to the owner, may be approved once, rejected *)
(* until it is used, expires unless it is used, and is used at most once.  *)
(***************************************************************************)
EXTENDS Naturals

CONSTANTS Key            \* delegation requests

VARIABLES state,         \* "absent" or DelegationStatus
          uses           \* completions reported to the agent as successful

vars == <<state, uses>>

Init ==
  /\ state = [k \in Key |-> "absent"]
  /\ uses = [k \in Key |-> 0]

\* The states that may follow each state without a use.
After(s) ==
  CASE s = "absent"   -> {"pending", "approved"}
    [] s = "pending"  -> {"approved", "rejected", "expired"}
    [] s = "approved" -> {"rejected", "expired"}
    [] OTHER          -> {}

Move(k) ==
  /\ \E s \in After(state[k]) : state' = [state EXCEPT ![k] = s]
  /\ UNCHANGED uses

Use(k) ==
  /\ state[k] = "approved" /\ uses[k] = 0
  /\ state' = [state EXCEPT ![k] = "completed"]
  /\ uses' = [uses EXCEPT ![k] = 1]

Next == \E k \in Key : Move(k) \/ Use(k)

Spec == Init /\ [][Next]_vars
=============================================================================
