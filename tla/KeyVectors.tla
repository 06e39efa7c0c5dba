----------------------------- MODULE KeyVectors -----------------------------
(***************************************************************************)
(* The names and the vectors of target keys: labels by extraction and by   *)
(* the owner (key_labels.py, key_metadata.py), and the refresh job that    *)
(* embeds every used key again when the evidence revision has advanced     *)
(* (key_semantics.py and its scheduler in app.py).  A vector stands for    *)
(* the text it was computed from, whose hash is stored with it.  Aliases,  *)
(* which also keep a key supported, and the suggestions that follow a      *)
(* refresh are in KeyAliases; attempts and leases are in DurableJobs.      *)
(***************************************************************************)
EXTENDS Naturals

CONSTANTS NamedKey,   \* target keys
          Wording,    \* wordings of a label
          MaxWrites,  \* bound on the evidence revision
          NoText

ASSUME KeyVectorsAssumption == MaxWrites \in Nat

VARIABLES usedKeys,      \* keys that evidence uses
          label,     \* label[k]: NoText or [source, text]
          textRevision, \* EvidenceRevisionRow.revision
          vector,    \* vector[k]: NoText or the text it was computed from
          refreshJob,   \* refreshJob[r]: state of the refresh job of revision r
          installed, \* every pinned file of the model is in place
          scheduler, \* NoText, or the revision it has read
          refresh,   \* NoText, or the refresh the worker runs
          learner,   \* NoText, or an accepted key whose label is not stored yet
          labeler,   \* NoText, or a used key the owner is about to label
          late       \* keys that extraction labelled since the last revision

rows == <<usedKeys, label, textRevision, late>>
threads == <<learner, labeler>>
upkeep == <<scheduler, refresh, refreshJob>>
keyVectorVars == <<rows, vector, installed, upkeep, threads>>

\* key_embedding_text: the key by itself is "bare".
Text(k) == IF label[k] = NoText THEN "bare" ELSE label[k].text

VectorsInit ==
  /\ usedKeys = {} /\ label = [k \in NamedKey |-> NoText] /\ textRevision = 0 /\ late = {}
  /\ vector = [k \in NamedKey |-> NoText] /\ installed \in BOOLEAN
  /\ refreshJob = [r \in 0..MaxWrites |-> "absent"]
  /\ scheduler = NoText /\ refresh = NoText /\ learner = NoText /\ labeler = NoText

\* bump_evidence_revision; what extraction labelled before is counted again.
Advance ==
  /\ textRevision < MaxWrites /\ textRevision' = textRevision + 1
  /\ late' = {}

-----------------------------------------------------------------------------
\* _accept: the evidence is stored, which advances the revision, ...
AcceptEvidence(k) ==
  /\ learner = NoText
  /\ usedKeys' = usedKeys \cup {k} /\ Advance
  /\ learner' \in {NoText, k}
  /\ UNCHANGED <<label, vector, installed, upkeep, labeler>>

\* ... and its label afterwards, which does not.  An owner's label stays.
StoreExtractedLabel(text) ==
  /\ learner # NoText /\ learner' = NoText
  /\ IF label[learner] # NoText /\ label[learner].source = "owner" THEN UNCHANGED <<label, late>>
     ELSE /\ label' = [label EXCEPT ![learner] = [source |-> "extracted", text |-> text]]
          /\ late' = late \cup {learner}
  /\ UNCHANGED <<usedKeys, textRevision, vector, installed, upkeep, labeler>>

\* Evidence is deleted and prune_unsupported_keys follows in the transaction.
DeleteEvidence(k) ==
  /\ k \in usedKeys
  /\ usedKeys' = usedKeys \ {k} /\ Advance
  /\ label' = [label EXCEPT ![k] = NoText]
  /\ vector' = [vector EXCEPT ![k] = NoText]
  /\ UNCHANGED <<installed, upkeep, threads>>

\* set_label, _require_used: only a key that evidence uses is labelled.
RequireUsed(k) ==
  /\ labeler = NoText /\ k \in usedKeys
  /\ labeler' = k
  /\ UNCHANGED <<rows, vector, installed, upkeep, learner>>

\* Fault: an owner's label advances the revision no more than an extracted one.
SetLabelQuietly(text) ==
  /\ labeler # NoText /\ labeler' = NoText
  /\ label' = [label EXCEPT ![labeler] = [source |-> "owner", text |-> text]]
  /\ UNCHANGED <<usedKeys, textRevision, late, vector, installed, upkeep, learner>>

SetLabel(text) ==
  /\ labeler # NoText /\ labeler' = NoText
  /\ label' = [label EXCEPT ![labeler] = [source |-> "owner", text |-> text]]
  /\ Advance
  /\ UNCHANGED <<usedKeys, vector, installed, upkeep, learner>>

RemoveLabel(k) ==
  /\ label[k] # NoText
  /\ label' = [label EXCEPT ![k] = NoText]
  /\ Advance
  /\ UNCHANGED <<usedKeys, vector, installed, upkeep, threads>>

-----------------------------------------------------------------------------
\* The owner installs or removes the model; vectors stay.
InstallOrRemove ==
  /\ installed' = ~installed
  /\ UNCHANGED <<rows, vector, upkeep, threads>>

\* enqueue_key_embedding_refresh: nothing while no model is installed, ...
ReadRevision ==
  /\ scheduler = NoText /\ installed
  /\ scheduler' = textRevision
  /\ UNCHANGED <<rows, vector, installed, refresh, refreshJob, threads>>

\* ... and one job for each revision, whatever became of it.
EnqueueRefresh ==
  /\ scheduler # NoText /\ scheduler' = NoText
  /\ refreshJob' = [refreshJob EXCEPT ![scheduler] = IF @ = "absent" THEN "queued" ELSE @]
  /\ UNCHANGED <<rows, vector, installed, refresh, threads>>

\* The worker has claimed a refresh; without a model it ends at once, done.
BeginRefresh(r) ==
  /\ refresh = NoText /\ refreshJob[r] = "queued"
  /\ IF installed
     THEN /\ refresh' = [at |-> "evidence", revision |-> r, keys |-> {}, texts |-> <<>>, stale |-> {}]
          /\ refreshJob' = [refreshJob EXCEPT ![r] = "running"]
     ELSE refreshJob' = [refreshJob EXCEPT ![r] = "skipped"] /\ UNCHANGED refresh
  /\ UNCHANGED <<rows, vector, installed, scheduler, threads>>

Refreshes(step) == refresh # NoText /\ refresh.at = step

\* _key_texts: the evidence is one SELECT, ...
ReadUsedKeys ==
  /\ Refreshes("evidence")
  /\ refresh' = [refresh EXCEPT !.at = "labels", !.keys = usedKeys]
  /\ UNCHANGED <<rows, vector, installed, scheduler, refreshJob, threads>>

\* ... the labels another, ...
ReadLabels ==
  /\ Refreshes("labels")
  /\ refresh' = [refresh EXCEPT !.at = "vectors", !.texts = [k \in refresh.keys |-> Text(k)]]
  /\ UNCHANGED <<rows, vector, installed, scheduler, refreshJob, threads>>

\* ... the vectors a third; those of another text are stale.
ReadVectors ==
  /\ Refreshes("vectors")
  /\ refresh' = [refresh EXCEPT !.at = "write",
                   !.stale = {k \in refresh.keys : vector[k] # refresh.texts[k]}]
  /\ UNCHANGED <<rows, vector, installed, scheduler, refreshJob, threads>>

EndsRefresh(state) ==
  /\ refresh' = NoText
  /\ refreshJob' = [refreshJob EXCEPT ![refresh.revision] = state]

\* EmbeddingUnavailableError: nothing is written and the job is done.
Unavailable ==
  /\ Refreshes("write") /\ refresh.stale # {}
  /\ EndsRefresh("skipped")
  /\ UNCHANGED <<rows, vector, installed, scheduler, threads>>

\* replace_many: the stale vectors, in one transaction.
ReplaceMany ==
  /\ Refreshes("write")
  /\ vector' = [k \in NamedKey |-> IF k \in refresh.stale THEN refresh.texts[k] ELSE vector[k]]
  /\ EndsRefresh("covered")
  /\ UNCHANGED <<rows, installed, scheduler, threads>>

\* A repository error: another attempt, or the end of the attempts.
RefreshRaises ==
  /\ refresh # NoText
  /\ \E state \in {"queued", "failed"} : EndsRefresh(state)
  /\ UNCHANGED <<rows, vector, installed, scheduler, threads>>

\* The process dies; a job it ran is taken up again or given up.
Die ==
  /\ scheduler' = NoText /\ learner' = NoText /\ labeler' = NoText
  /\ IF refresh = NoText THEN UNCHANGED <<refresh, refreshJob>>
     ELSE \E state \in {"queued", "failed"} : EndsRefresh(state)
  /\ UNCHANGED <<rows, vector, installed>>

VectorsNext ==
  \/ \E k \in NamedKey : AcceptEvidence(k) \/ DeleteEvidence(k) \/ RequireUsed(k) \/ RemoveLabel(k)
  \/ \E text \in Wording : StoreExtractedLabel(text) \/ SetLabel(text)
  \/ InstallOrRemove \/ ReadRevision \/ EnqueueRefresh
  \/ \E r \in 0..MaxWrites : BeginRefresh(r)
  \/ ReadUsedKeys \/ ReadLabels \/ ReadVectors \/ Unavailable \/ ReplaceMany
  \/ RefreshRaises \/ Die

VectorsSpec == VectorsInit /\ [][VectorsNext]_keyVectorVars

-----------------------------------------------------------------------------
\* enqueue_key_embedding_refresh: one refresh per revision is enough.  Once that
\* of the current revision has written, every used key has the vector of the
\* text it has now, although its evidence, its label and its old vector were
\* three reads among other people's writes, older refreshes included.  The
\* exceptions are keys whose label extraction stored after their evidence.
VectorsKeepUp ==
  refreshJob[textRevision] = "covered" =>
    \A k \in usedKeys \ late : vector[k] = Text(k)

\* prune_unsupported_keys: "Catalog labels and embeddings survive only for
\* supported keys, so deleted topics do not linger as key names."  With nothing
\* under way, no key without evidence has a label or a vector.
NoNameLingers ==
  refresh = NoText /\ learner = NoText /\ labeler = NoText =>
    \A k \in NamedKey \ usedKeys : label[k] = NoText /\ vector[k] = NoText
=============================================================================
