----------------------------- MODULE MCDecisionIo -----------------------------
(***************************************************************************)
(* The instance of Decision I/O that TLC checks: a source of mixed authors, *)
(* one whose agent reports about decisions of the same name, a source for  *)
(* the writes of older clients, and two handlers.                          *)
(***************************************************************************)
EXTENDS DecisionIo, TLC

CONSTANTS p1, p2, s1, s2, old, x, o1, o2

Approved(classes, scope) ==
  [method |-> "agent_push", consent |-> "owner_explicit", dated |-> TRUE, classes |-> classes,
   scope |-> scope, retention |-> "metadata_only", identified |-> TRUE]

MCGrant == s1 :> Approved({"metadata", "decision", "outcome"}, "mixed")
           @@ s2 :> Approved({"decision"}, "agent_only")
           @@ old :> Compatibility

ReportOf(s, id, type, actor, d, o, c) ==
  [source |-> s, id |-> id, type |-> type, actor |-> actor, decision |-> d, option |-> o, content |-> c]

\* Under one id the decision or mere context, under another the owner's choice
\* of it, an agent's choice or an agent's outcome; another source's choice about
\* the same name; a wellbeing report.
MCReport ==
  {ReportOf(s1, 1, "decision_candidate", "agent", x, None, None),
   ReportOf(s1, 1, "context", "agent", x, None, None),
   ReportOf(s1, 2, "decision_resolution", "owner", x, o1, None),
   ReportOf(s1, 2, "decision_resolution", "agent", x, o2, None),
   ReportOf(s1, 2, "technical_outcome", "agent", x, None, "failed"),
   ReportOf(s2, 3, "decision_resolution", "agent", x, o2, None),
   ReportOf(old, 4, "wellbeing", "agent", <<s1, x>>, None, "satisfied")}

Handlers == Permutations(Proc)
=============================================================================
