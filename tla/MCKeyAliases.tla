---------------------------- MODULE MCKeyAliases ----------------------------
(***************************************************************************)
(* Everything about keys.  Keys 1, 2 and 3 share a normalized form, which  *)
(* is key 3 itself; key 4 has a form of its own that no one uses as a key. *)
(* A behaviour is one of the alias table, of one key's label and vector,   *)
(* of the files of the model that computes vectors, or the reasoning about *)
(* one case of keys by any names, with the others at rest.                 *)
(***************************************************************************)
EXTENDS KeyAliases, Reasoning, KeyVectors, ModelArtifacts

MCForm == [k \in Key |-> IF k = 4 THEN 0 ELSE 3]

NamesInit == Init /\ ReasoningInit /\ VectorsInit /\ ArtifactsInit

VectorsRest == VectorsInit /\ ~installed

NamesNext ==
  \/ /\ ReasoningInit /\ VectorsRest /\ ArtifactsInit
     /\ Next /\ UNCHANGED <<given, keyVectorVars, artifactVars>>
  \/ /\ Init /\ VectorsRest /\ ArtifactsInit
     /\ ReasoningNext /\ UNCHANGED <<vars, keyVectorVars, artifactVars>>
  \/ /\ Init /\ ReasoningInit /\ ArtifactsInit
     /\ VectorsNext /\ UNCHANGED <<vars, given, artifactVars>>
  \/ /\ Init /\ ReasoningInit /\ VectorsRest
     /\ ArtifactsNext /\ UNCHANGED <<vars, given, keyVectorVars>>

NamesSpec == NamesInit /\ [][NamesNext]_<<vars, given, keyVectorVars, artifactVars>>
=============================================================================
