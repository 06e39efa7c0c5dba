-------------------------- MODULE MCPersonalModel --------------------------
(***************************************************************************)
(* Small instances of PersonalModel: three keys in an alias chain, so that *)
(* pruning has to follow it, and two evidence rows at its two ends.  The   *)
(* questions that ask for more evidence share no variable with it: a       *)
(* behaviour is one of either, next to the other at rest.                  *)
(***************************************************************************)
EXTENDS PersonalModel, ActiveLearning, TLC

MCKey == {"k1", "k2", "k3"}
MCAlias == {"a12", "a23"}
MCAliasKey == [a \in MCAlias |-> IF a = "a12" THEN "k1" ELSE "k2"]
MCCanonicalKey == [a \in MCAlias |-> IF a = "a12" THEN "k2" ELSE "k3"]
MCEvidence == {"e1", "e2"}
MCKeyOf == [e \in MCEvidence |-> IF e = "e1" THEN "k1" ELSE "k3"]

EvidenceInit == Init /\ LearningInit

EvidenceNext ==
  \/ LearningInit /\ Next /\ UNCHANGED learningVars
  \/ Init /\ enabled /\ LearningNext /\ UNCHANGED vars

EvidenceSpec == EvidenceInit /\ [][EvidenceNext]_<<vars, learningVars>>

\* Threads, questions, traits and situations are interchangeable.
Threads == Permutations(Request) \cup Permutations(Question)
           \cup Permutations(Trait) \cup Permutations(Situation)
=============================================================================
