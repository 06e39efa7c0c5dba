------------------------------ MODULE KeyProofs ------------------------------
(***************************************************************************)
(* What holds of target keys: of their names and vectors, of the model     *)
(* these are computed with, and of their aliases, for any keys, forms,     *)
(* handlers, writers and files; and of what is predicted and advised from  *)
(* keys of any names, for any values, evidence and outcomes.               *)
(***************************************************************************)
EXTENDS KeyAliases, KeyVectors, ModelArtifacts, Reasoning, FiniteSetTheorems, SequenceTheorems,
        WellFoundedInduction, TLAPS

-----------------------------------------------------------------------------
(* Labels, vectors and their refresh. *)
RefreshState == {"absent", "queued", "running", "skipped", "covered", "failed"}

\* What a refresh of the present has read, or any refresh once that of the
\* present is done: no key that counts has changed since.
ReadsHold ==
  /\ refresh.at \in {"labels", "vectors", "write"} => refresh.keys = usedKeys
  /\ refresh.at \in {"vectors", "write"} =>
       \A k \in usedKeys \ late : refresh.texts[k] = Text(k)
  /\ refresh.at = "write" =>
       \A k \in usedKeys \ late : k \in refresh.stale \/ vector[k] = refresh.texts[k]

VectorsInv ==
  /\ usedKeys \subseteq NamedKey
  /\ label \in [NamedKey -> [source : {"owner", "extracted"}, text : Wording] \cup {NoText}]
  /\ DOMAIN vector = NamedKey /\ vector = [k \in NamedKey |-> vector[k]]
  /\ textRevision \in 0..MaxWrites
  /\ refreshJob \in [0..MaxWrites -> RefreshState]
  /\ learner # NoText => learner \in NamedKey
  /\ labeler # NoText => labeler \in NamedKey
  /\ scheduler # NoText => scheduler \in 0..textRevision
  /\ \A r \in 0..MaxWrites : r > textRevision => refreshJob[r] = "absent"
  /\ refresh # NoText =>
       /\ refresh = [at |-> refresh.at, revision |-> refresh.revision, keys |-> refresh.keys,
                     texts |-> refresh.texts, stale |-> refresh.stale]
       /\ refresh.revision \in 0..textRevision
       /\ refresh.revision = textRevision \/ refreshJob[textRevision] = "covered" => ReadsHold
  /\ VectorsKeepUp

LEMMA VectorsStart == VectorsInit => VectorsInv
  BY KeyVectorsAssumption DEF VectorsInit, VectorsInv, RefreshState, VectorsKeepUp

\* Of a new revision there is nothing to keep up with yet.
LEMMA AdvanceStep ==
  ASSUME VectorsInv, Advance, UNCHANGED upkeep,
         usedKeys' \subseteq NamedKey,
         label' \in [NamedKey -> [source : {"owner", "extracted"}, text : Wording] \cup {NoText}],
         DOMAIN vector' = NamedKey, vector' = [k \in NamedKey |-> vector'[k]],
         learner' # NoText => learner' \in NamedKey,
         labeler' # NoText => labeler' \in NamedKey
  PROVE  VectorsInv'
<1>1. /\ textRevision' = textRevision + 1 /\ textRevision' \in 0..MaxWrites
      /\ refreshJob'[textRevision'] = "absent" /\ UNCHANGED <<scheduler, refresh, refreshJob>>
  BY KeyVectorsAssumption DEF VectorsInv, Advance, upkeep
<1>. QED  BY <1>1 DEF VectorsInv, VectorsKeepUp

LEMMA WriteStep ==
  ASSUME VectorsInv,
         \/ \E k \in NamedKey : AcceptEvidence(k) \/ DeleteEvidence(k) \/ RemoveLabel(k)
         \/ \E text \in Wording : SetLabel(text)
  PROVE  VectorsInv'
<1>1. ASSUME NEW k \in NamedKey, AcceptEvidence(k) PROVE VectorsInv'
  BY <1>1, AdvanceStep DEF AcceptEvidence, VectorsInv
<1>2. ASSUME NEW k \in NamedKey, DeleteEvidence(k) PROVE VectorsInv'
  <2>1. /\ Advance /\ UNCHANGED <<upkeep, learner, labeler>> /\ usedKeys' \subseteq NamedKey
        /\ label' = [label EXCEPT ![k] = NoText] /\ vector' = [vector EXCEPT ![k] = NoText]
    BY <1>2 DEF DeleteEvidence, threads, VectorsInv
  <2>2. label' \in [NamedKey -> [source : {"owner", "extracted"}, text : Wording] \cup {NoText}]
    BY <2>1 DEF VectorsInv
  <2>3. DOMAIN vector' = NamedKey /\ vector' = [i \in NamedKey |-> vector'[i]]
    BY <2>1 DEF VectorsInv
  <2>. QED  BY <2>1, <2>2, <2>3, AdvanceStep DEF VectorsInv
<1>3. ASSUME NEW k \in NamedKey, RemoveLabel(k) PROVE VectorsInv'
  BY <1>3, AdvanceStep DEF RemoveLabel, threads, VectorsInv
<1>4. ASSUME NEW text \in Wording, SetLabel(text) PROVE VectorsInv'
  BY <1>4, AdvanceStep DEF SetLabel, VectorsInv
<1>. QED  BY <1>1, <1>2, <1>3, <1>4

\* A label of extraction changes the text of a key that no longer counts.
LEMMA ExtractStep ==
  ASSUME VectorsInv,
         \/ \E k \in NamedKey : RequireUsed(k)
         \/ \E text \in Wording : StoreExtractedLabel(text)
         \/ InstallOrRemove
  PROVE  VectorsInv'
<1>1. /\ UNCHANGED <<usedKeys, textRevision, vector, upkeep>> /\ late \subseteq late'
      /\ \A k \in NamedKey \ late' : label'[k] = label[k]
      /\ label' \in [NamedKey -> [source : {"owner", "extracted"}, text : Wording] \cup {NoText}]
      /\ learner' # NoText => learner' \in NamedKey
      /\ labeler' # NoText => labeler' \in NamedKey
  BY DEF RequireUsed, StoreExtractedLabel, InstallOrRemove, rows, threads, VectorsInv
<1>2. \A k \in usedKeys \ late' : k \in usedKeys \ late /\ Text(k)' = Text(k)
  BY <1>1 DEF VectorsInv, Text
<1>3. UNCHANGED <<scheduler, refresh, refreshJob>>
  BY <1>1 DEF upkeep
<1>4. VectorsKeepUp'
  BY <1>1, <1>2, <1>3 DEF VectorsInv, VectorsKeepUp
<1>5. ReadsHold => ReadsHold'
  BY <1>1, <1>2, <1>3 DEF ReadsHold
<1>. QED  BY <1>1, <1>3, <1>4, <1>5 DEF VectorsInv

LEMMA ScheduleStep ==
  ASSUME VectorsInv, ReadRevision \/ EnqueueRefresh \/ \E r \in 0..MaxWrites : BeginRefresh(r)
  PROVE  VectorsInv'
<1>. USE DEF VectorsInv, VectorsKeepUp, Text, rows, threads, RefreshState
<1>1. CASE ReadRevision
  <2>1. /\ scheduler' = textRevision
        /\ UNCHANGED <<usedKeys, label, textRevision, late, vector, installed, refresh, refreshJob, learner, labeler>>
    BY <1>1 DEF ReadRevision
  <2>2. ReadsHold' = ReadsHold
    BY <2>1 DEF ReadsHold
  <2>. QED  BY <2>1, <2>2
<1>2. CASE EnqueueRefresh
  <2>1. /\ scheduler \in 0..textRevision /\ scheduler' = NoText
        /\ refreshJob' = [refreshJob EXCEPT ![scheduler] = IF @ = "absent" THEN "queued" ELSE @]
        /\ UNCHANGED <<usedKeys, label, textRevision, late, vector, installed, refresh, learner, labeler>>
    BY <1>2 DEF EnqueueRefresh
  <2>2. /\ refreshJob' \in [0..MaxWrites -> RefreshState]
        /\ \A r \in 0..MaxWrites : r > textRevision => refreshJob'[r] = "absent"
        /\ refreshJob'[textRevision] = "covered" => refreshJob[textRevision] = "covered"
    BY <2>1, KeyVectorsAssumption
  <2>3. ReadsHold' = ReadsHold
    BY <2>1 DEF ReadsHold
  <2>. QED  BY <2>1, <2>2, <2>3
<1>3. ASSUME NEW r \in 0..MaxWrites, BeginRefresh(r) PROVE VectorsInv'
  <2>1. /\ refresh = NoText /\ refreshJob[r] = "queued"
        /\ UNCHANGED <<usedKeys, label, textRevision, late, vector, installed, scheduler, learner, labeler>>
        /\ \E state \in {"running", "skipped"} : refreshJob' = [refreshJob EXCEPT ![r] = state]
        /\ refresh' # NoText =>
             refresh' = [at |-> "evidence", revision |-> r, keys |-> {}, texts |-> <<>>, stale |-> {}]
    BY <1>3 DEF BeginRefresh
  <2>2. r \in 0..textRevision
    BY <2>1
  <2>3. /\ refreshJob' \in [0..MaxWrites -> RefreshState]
        /\ \A i \in 0..MaxWrites : i > textRevision => refreshJob'[i] = "absent"
        /\ refreshJob'[textRevision] = "covered" => refreshJob[textRevision] = "covered"
    BY <2>1, <2>2, KeyVectorsAssumption
  <2>4. refresh' # NoText =>
          /\ ReadsHold' /\ refresh'.revision \in 0..textRevision
          /\ refresh' = [at |-> refresh'.at, revision |-> refresh'.revision, keys |-> refresh'.keys,
                         texts |-> refresh'.texts, stale |-> refresh'.stale]
    BY <2>1, <2>2 DEF ReadsHold
  <2>5. VectorsKeepUp'
    BY <2>1, <2>3
  <2>. HIDE DEF VectorsKeepUp
  <2>. QED  BY <2>1, <2>3, <2>4, <2>5
<1>. QED  BY <1>1, <1>2, <1>3

LEMMA ReadStep ==
  ASSUME VectorsInv, ReadUsedKeys \/ ReadLabels \/ ReadVectors
  PROVE  VectorsInv'
<1>1. UNCHANGED <<rows, vector, installed, scheduler, refreshJob, threads>>
  BY DEF ReadUsedKeys, ReadLabels, ReadVectors
<1>2. SUFFICES ASSUME refresh' # NoText
               PROVE  /\ refresh' = [at |-> refresh'.at, revision |-> refresh'.revision, keys |-> refresh'.keys,
                                     texts |-> refresh'.texts, stale |-> refresh'.stale]
                      /\ refresh'.revision = refresh.revision
                      /\ refresh.revision = textRevision \/ refreshJob[textRevision] = "covered" => ReadsHold'
  BY <1>1 DEF VectorsInv, VectorsKeepUp, Text, rows, threads, ReadUsedKeys, ReadLabels, ReadVectors, Refreshes
<1>3. /\ refresh # NoText
      /\ refresh = [at |-> refresh.at, revision |-> refresh.revision, keys |-> refresh.keys,
                     texts |-> refresh.texts, stale |-> refresh.stale]
      /\ refresh.revision = textRevision \/ refreshJob[textRevision] = "covered" => ReadsHold
  BY DEF VectorsInv, ReadUsedKeys, ReadLabels, ReadVectors, Refreshes
<1>4. CASE ReadUsedKeys
  <2>1. refresh' = [at |-> "labels", revision |-> refresh.revision, keys |-> usedKeys,
                     texts |-> refresh.texts, stale |-> refresh.stale]
    BY <1>3, <1>4 DEF ReadUsedKeys
  <2>. QED  BY <1>1, <2>1 DEF ReadsHold, rows
<1>5. CASE ReadLabels
  <2>1. refresh' = [at |-> "vectors", revision |-> refresh.revision, keys |-> refresh.keys,
                     texts |-> [k \in refresh.keys |-> Text(k)], stale |-> refresh.stale]
    BY <1>3, <1>5 DEF ReadLabels
  <2>2. ReadsHold => ReadsHold'
    <3>1. SUFFICES ASSUME ReadsHold PROVE ReadsHold'
      OBVIOUS
    <3>2. refresh.keys = usedKeys
      BY <1>5, <3>1 DEF ReadsHold, ReadLabels, Refreshes
    <3>3. \A k \in usedKeys : refresh'.texts[k] = Text(k) /\ Text(k)' = Text(k)
      BY <1>1, <2>1, <3>2 DEF Text, rows
    <3>. QED  BY <1>1, <2>1, <3>1, <3>2, <3>3 DEF ReadsHold, rows
  <2>. QED  BY <1>3, <2>1, <2>2
<1>6. CASE ReadVectors
  <2>1. refresh' = [at |-> "write", revision |-> refresh.revision, keys |-> refresh.keys,
                     texts |-> refresh.texts,
                     stale |-> {k \in refresh.keys : vector[k] # refresh.texts[k]}]
    BY <1>3, <1>6 DEF ReadVectors
  <2>. QED  BY <1>1, <1>3, <1>6, <2>1 DEF ReadsHold, rows, ReadVectors, Refreshes, Text
<1>. QED  BY <1>4, <1>5, <1>6

LEMMA EndRefreshStep ==
  ASSUME VectorsInv, Unavailable \/ ReplaceMany \/ RefreshRaises \/ Die
  PROVE  VectorsInv'
<1>1. CASE ReplaceMany
  <2>1. /\ UNCHANGED <<usedKeys, label, textRevision, late, installed, scheduler, learner, labeler>>
        /\ refresh # NoText /\ refresh.at = "write" /\ refresh' = NoText
        /\ vector' = [k \in NamedKey |-> IF k \in refresh.stale THEN refresh.texts[k] ELSE vector[k]]
        /\ refreshJob' = [refreshJob EXCEPT ![refresh.revision] = "covered"]
    BY <1>1 DEF ReplaceMany, Refreshes, EndsRefresh, rows, threads
  <2>2. refreshJob'[textRevision] = "covered" =>
          refresh.revision = textRevision \/ refreshJob[textRevision] = "covered"
    BY <2>1 DEF VectorsInv
  <2>3. VectorsKeepUp'
    BY <2>1, <2>2 DEF VectorsInv, VectorsKeepUp, ReadsHold, Text
  <2>. QED  BY <2>1, <2>3, KeyVectorsAssumption DEF VectorsInv, RefreshState
<1>2. CASE Unavailable \/ RefreshRaises \/ Die
  <2>1. /\ UNCHANGED <<usedKeys, label, textRevision, late, vector>>
        /\ refresh' = NoText
        /\ scheduler' \in {scheduler, NoText} /\ learner' \in {learner, NoText} /\ labeler' \in {labeler, NoText}
        /\ \/ UNCHANGED refreshJob
           \/ /\ refresh # NoText
              /\ \E state \in {"queued", "failed", "skipped"} :
                   refreshJob' = [refreshJob EXCEPT ![refresh.revision] = state]
    BY <1>2 DEF Unavailable, RefreshRaises, Die, EndsRefresh, Refreshes, rows, threads
  <2>. QED  BY <2>1, KeyVectorsAssumption DEF VectorsInv, VectorsKeepUp, Text, RefreshState
<1>. QED  BY <1>1, <1>2

LEMMA VectorsStep == VectorsInv /\ [VectorsNext]_keyVectorVars => VectorsInv'
<1>. SUFFICES ASSUME VectorsInv, [VectorsNext]_keyVectorVars PROVE VectorsInv'
  OBVIOUS
<1>1. CASE UNCHANGED keyVectorVars
  BY <1>1 DEF keyVectorVars, rows, threads, upkeep, VectorsInv, VectorsKeepUp, ReadsHold, Text
<1>. QED  BY <1>1, WriteStep, ExtractStep, ScheduleStep, ReadStep, EndRefreshStep DEF VectorsNext

\* One refresh for a revision is enough, for any number of keys and writes.
THEOREM RefreshKeepsUp == VectorsSpec => []VectorsKeepUp
<1>1. VectorsInv => VectorsKeepUp
  BY DEF VectorsInv
<1>. QED  BY <1>1, VectorsStart, VectorsStep, PTL DEF VectorsSpec

\* What one transaction around the check and the write of a name would give:
\* no key loses its evidence that extraction, the owner or the refresh has
\* found in use and is yet to name.
UsedUntilNamed ==
  [][\A k \in usedKeys : k = learner \/ k = labeler \/ (refresh # NoText /\ k \in refresh.keys)
       => k \in usedKeys']_keyVectorVars

NamesInv ==
  /\ \A k \in NamedKey \ usedKeys : label[k] = NoText /\ vector[k] = NoText
  /\ learner \in usedKeys \cup {NoText} /\ labeler \in usedKeys \cup {NoText}
  /\ refresh # NoText => refresh.stale \subseteq refresh.keys /\ refresh.keys \subseteq usedKeys

\* Keys are named that are in use, and those under way stay so.
LEMMA NamesStep ==
  ASSUME VectorsInv, NamesInv, [VectorsNext]_keyVectorVars,
         [\A k \in usedKeys : k = learner \/ k = labeler \/ (refresh # NoText /\ k \in refresh.keys)
            => k \in usedKeys']_keyVectorVars
  PROVE  NamesInv'
<1>. USE DEF NamesInv, VectorsInv, rows, threads, upkeep
<1>1. CASE UNCHANGED keyVectorVars
  BY <1>1 DEF keyVectorVars
<1>2. ASSUME NEW k \in NamedKey, AcceptEvidence(k) PROVE NamesInv'
  BY <1>2 DEF AcceptEvidence, Advance
<1>3. ASSUME NEW k \in NamedKey, DeleteEvidence(k) PROVE NamesInv'
  <2>1. /\ usedKeys' = usedKeys \ {k} /\ UNCHANGED <<learner, labeler, refresh>> /\ usedKeys' # usedKeys
        /\ label'[k] = NoText /\ vector'[k] = NoText
        /\ \A j \in NamedKey : j # k => label'[j] = label[j] /\ vector'[j] = vector[j]
    BY <1>3 DEF DeleteEvidence
  <2>2. k # learner /\ k # labeler /\ ~(refresh # NoText /\ k \in refresh.keys)
    BY <1>3, <2>1 DEF keyVectorVars, DeleteEvidence
  <2>. QED  BY <2>1, <2>2
<1>4. ASSUME NEW k \in NamedKey, RequireUsed(k) \/ RemoveLabel(k) PROVE NamesInv'
  BY <1>4 DEF RequireUsed, RemoveLabel, Advance
<1>5. ASSUME NEW text \in Wording, StoreExtractedLabel(text) \/ SetLabel(text) PROVE NamesInv'
  BY <1>5 DEF StoreExtractedLabel, SetLabel, Advance
<1>6. CASE InstallOrRemove \/ ReadRevision \/ EnqueueRefresh
  BY <1>6 DEF InstallOrRemove, ReadRevision, EnqueueRefresh
<1>7. ASSUME NEW r \in 0..MaxWrites, BeginRefresh(r) PROVE NamesInv'
  BY <1>7 DEF BeginRefresh
<1>8. CASE ReadUsedKeys \/ ReadLabels \/ ReadVectors
  <2>1. refresh # NoText /\ refresh' # NoText => refresh'.stale \subseteq refresh'.keys /\ refresh'.keys \subseteq usedKeys
    BY <1>8 DEF ReadUsedKeys, ReadLabels, ReadVectors, Refreshes
  <2>. QED  BY <1>8, <2>1 DEF ReadUsedKeys, ReadLabels, ReadVectors, Refreshes
<1>9. CASE Unavailable \/ ReplaceMany \/ RefreshRaises
  BY <1>9 DEF Unavailable, ReplaceMany, RefreshRaises, EndsRefresh, Refreshes
<1>10. CASE Die
  BY <1>10 DEF Die, EndsRefresh
<1>. QED  BY <1>1, <1>2, <1>3, <1>4, <1>5, <1>6, <1>7, <1>8, <1>9, <1>10 DEF VectorsNext

\* Deletion under way of a name is the only way a key without evidence keeps
\* one: were the check and the write of names one transaction, none would.
THEOREM OnlyLateNamesLinger == VectorsSpec /\ UsedUntilNamed => []NoNameLingers
<1>1. VectorsInit => NamesInv
  BY DEF VectorsInit, NamesInv
<1>2. NamesInv => NoNameLingers
  BY DEF NamesInv, NoNameLingers
<1>3. VectorsSpec => []VectorsInv
  BY VectorsStart, VectorsStep, PTL DEF VectorsSpec
<1>4. /\ VectorsInv /\ NamesInv /\ [VectorsNext]_keyVectorVars
      /\ [\A k \in usedKeys : k = learner \/ k = labeler \/ (refresh # NoText /\ k \in refresh.keys)
            => k \in usedKeys']_keyVectorVars
      => NamesInv'
  BY NamesStep
<1>. QED  BY <1>1, <1>2, <1>3, <1>4, PTL DEF VectorsSpec, UsedUntilNamed

-----------------------------------------------------------------------------
(* The files of the embedding model. *)
Artifact == {"pinned", "start", "other", Absent}
Work == [file : PinnedFile, at : {"response", "receive", "copy", "hash", "move"},
         open : {"none", "part", "active", "deleted"}, from : Artifact]

Brings(w, f) == writer[w] # Absent /\ writer[w].file = f

\* A file that one writer at most has in hands: nobody writes to it in its
\* place, and what is about to be moved there has been hashed.
FileSound(f) ==
  /\ \A v, w \in Writer : Brings(v, f) /\ Brings(w, f) => v = w
  /\ \A w \in Writer : Brings(w, f) =>
       /\ writer[w].open # "active"
       /\ writer[w].at = "move" => staged[f] \in {Absent, "pinned"}
  /\ active[f] \in {Absent, "pinned"}

ArtifactsInv ==
  /\ staged \in [PinnedFile -> Artifact] /\ active \in [PinnedFile -> Artifact]
  /\ writer \in [Writer -> Work \cup {Absent}]
  /\ \A f \in PinnedFile \ shared : FileSound(f)

LEMMA ArtifactsStart == ArtifactsInit => ArtifactsInv
  BY DEF ArtifactsInit, ArtifactsInv, FileSound, Brings, Artifact

\* A file of which nothing changes but that somebody lets go of it.
LEMMA FileLeft ==
  ASSUME NEW f \in PinnedFile, FileSound(f),
         staged'[f] \in {staged[f], Absent}, active'[f] \in {active[f], Absent},
         \A w \in Writer : Brings(w, f)' =>
           /\ Brings(w, f) /\ writer'[w].open \in {writer[w].open, "deleted"}
           /\ writer'[w].at = writer[w].at
  PROVE  FileSound(f)'
  BY DEF FileSound, Brings

\* Somebody takes a file in hands.
LEMMA TakesStep ==
  ASSUME ArtifactsInv, NEW w \in Writer, NEW f \in PinnedFile, NEW record \in Work,
         writer[w] = Absent, Takes(w, f, record), record.file = f,
         record.at # "move", record.open # "active",
         UNCHANGED active, \A g \in PinnedFile \ {f} : staged'[g] = staged[g],
         staged' \in [PinnedFile -> Artifact]
  PROVE  ArtifactsInv'
<1>1. /\ writer' = [writer EXCEPT ![w] = record] /\ shared \subseteq shared'
      /\ f \notin shared' => \A v \in Writer \ {w} : ~Brings(v, f)
  BY DEF Takes, Brings
<1>2. ASSUME NEW g \in PinnedFile \ shared' PROVE FileSound(g)'
  <2>1. FileSound(g)
    BY <1>1, <1>2 DEF ArtifactsInv
  <2>2. CASE g = f
    BY <1>1, <1>2, <2>1, <2>2 DEF FileSound, Brings, ArtifactsInv
  <2>3. CASE g # f
    BY <1>1, <2>1, <2>3 DEF FileSound, Brings, ArtifactsInv
  <2>. QED  BY <2>2, <2>3
<1>. QED  BY <1>1, <1>2 DEF ArtifactsInv

\* Somebody goes on with the file in hands.
LEMMA GoesOn ==
  ASSUME ArtifactsInv, NEW w \in Writer, writer[w] # Absent, NEW record \in Work,
         writer' = [writer EXCEPT ![w] = record], record.file = writer[w].file,
         record.open # "active", UNCHANGED shared,
         staged' \in [PinnedFile -> Artifact], active' \in [PinnedFile -> Artifact],
         \A g \in PinnedFile \ {writer[w].file} : staged'[g] = staged[g] /\ active'[g] = active[g],
         writer[w].open # "active" => UNCHANGED active,
         record.at = "move" => staged'[record.file] = "pinned"
  PROVE  ArtifactsInv'
<1>1. writer[w] \in Work
  BY DEF ArtifactsInv
<1>2. ASSUME NEW g \in PinnedFile \ shared' PROVE FileSound(g)'
  <2>1. FileSound(g)
    BY <1>2 DEF ArtifactsInv
  <2>2. CASE g = writer[w].file
    <3>1. \A v \in Writer \ {w} : ~Brings(v, g)
      BY <2>1, <2>2 DEF FileSound, Brings
    <3>2. UNCHANGED active
      BY <2>1, <2>2 DEF FileSound, Brings
    <3>. QED  BY <2>1, <2>2, <3>1, <3>2 DEF FileSound, Brings, ArtifactsInv
  <2>3. CASE g # writer[w].file
    BY <2>1, <2>3 DEF FileSound, Brings, ArtifactsInv
  <2>. QED  BY <2>2, <2>3
<1>. QED  BY <1>2 DEF ArtifactsInv

LEMMA StagesType ==
  ASSUME ArtifactsInv, NEW w \in Writer, writer[w] # Absent, NEW content \in Artifact, Stages(w, content)
  PROVE  /\ staged' \in [PinnedFile -> Artifact] /\ active' \in [PinnedFile -> Artifact]
         /\ \A g \in PinnedFile \ {writer[w].file} : staged'[g] = staged[g] /\ active'[g] = active[g]
         /\ writer[w].open # "active" => UNCHANGED active
  BY DEF ArtifactsInv, Stages, Work

LEMMA DownloadStep ==
  ASSUME ArtifactsInv,
         \/ StartDownload \/ (\E f \in PinnedFile : Ask(f)) \/ Receive \/ Interrupt \/ DownloadDone
         \/ \E resumed \in BOOLEAN, content \in {"start", "other"} : Open(resumed, content)
  PROVE  ArtifactsInv'
<1>. Task \in Writer
  BY DEF Writer
<1>1. CASE StartDownload \/ DownloadDone
  BY <1>1 DEF StartDownload, DownloadDone, ArtifactsInv, FileSound, Brings
<1>2. ASSUME NEW f \in PinnedFile, Ask(f) PROVE ArtifactsInv'
  <2>1. [file |-> f, at |-> "response", open |-> "none", from |-> staged[f]] \in Work
    BY DEF Work, ArtifactsInv
  <2>. QED  BY <1>2, <2>1, TakesStep DEF Ask, ArtifactsInv
<1>3. CASE Receive
  <2>1. writer[Task] # Absent /\ writer[Task] \in Work /\ UNCHANGED shared
    BY <1>3 DEF Receive, Stands, ArtifactsInv
  <2>2. PICK content \in Artifact : Stages(Task, content)
    BY <1>3 DEF Receive, Artifact
  <2>3. writer' = [writer EXCEPT ![Task] = [writer[Task] EXCEPT !.at = "hash", !.open = "none"]]
    BY <1>3 DEF Receive, ArtifactsInv
  <2>4. [writer[Task] EXCEPT !.at = "hash", !.open = "none"] \in Work
    BY <2>1 DEF Work
  <2>. QED  BY <2>1, <2>2, <2>3, <2>4, StagesType, GoesOn DEF Work
<1>4. CASE Interrupt
  <2>1. UNCHANGED <<staged, active, shared>> /\ writer' = [writer EXCEPT ![Task] = Absent]
    BY <1>4 DEF Interrupt, Leaves
  <2>. QED  BY <2>1, FileLeft DEF ArtifactsInv, Brings
<1>5. ASSUME NEW resumed \in BOOLEAN, NEW content \in {"start", "other"}, Open(resumed, content)
      PROVE  ArtifactsInv'
  <2>1. writer[Task] # Absent /\ writer[Task] \in Work /\ UNCHANGED <<shared, active>>
    BY <1>5 DEF Open, Stands, ArtifactsInv
  <2>2. /\ staged' \in [PinnedFile -> Artifact]
        /\ \A g \in PinnedFile \ {writer[Task].file} : staged'[g] = staged[g]
    BY <1>5, <2>1 DEF Open, ArtifactsInv, Artifact, Work
  <2>3. writer' = [writer EXCEPT ![Task] = [writer[Task] EXCEPT !.at = "receive", !.open = "part"]]
    BY <1>5 DEF Open, ArtifactsInv
  <2>4. [writer[Task] EXCEPT !.at = "receive", !.open = "part"] \in Work
    BY <2>1 DEF Work
  <2>. QED  BY <2>1, <2>2, <2>3, <2>4, GoesOn DEF Work, ArtifactsInv
<1>. QED  BY <1>1, <1>2, <1>3, <1>4, <1>5

LEMMA ImportStep ==
  ASSUME ArtifactsInv,
         \/ \E w \in Importer, f \in PinnedFile, content \in {"pinned", "other"} : BeginImport(w, f, content)
         \/ \E w \in Writer : Copy(w)
  PROVE  ArtifactsInv'
<1>1. ASSUME NEW w \in Importer, NEW f \in PinnedFile, NEW content \in {"pinned", "other"},
             BeginImport(w, f, content)
      PROVE  ArtifactsInv'
  <2>1. [file |-> f, at |-> "copy", open |-> "part", from |-> content] \in Work
    BY DEF Work, Artifact
  <2>2. /\ staged' \in [PinnedFile -> Artifact]
        /\ \A g \in PinnedFile \ {f} : staged'[g] = staged[g]
    BY <1>1 DEF BeginImport, ArtifactsInv, Artifact
  <2>. QED  BY <1>1, <2>1, <2>2, TakesStep DEF BeginImport, Writer
<1>2. ASSUME NEW w \in Writer, Copy(w) PROVE ArtifactsInv'
  <2>1. writer[w] # Absent /\ writer[w] \in Work /\ UNCHANGED shared
    BY <1>2 DEF Copy, Stands, ArtifactsInv
  <2>2. PICK content \in Artifact : Stages(w, content)
    BY <1>2, <2>1 DEF Copy, Artifact, Work
  <2>3. writer' = [writer EXCEPT ![w] = [writer[w] EXCEPT !.at = "hash", !.open = "none"]]
    BY <1>2 DEF Copy, ArtifactsInv
  <2>4. [writer[w] EXCEPT !.at = "hash", !.open = "none"] \in Work
    BY <2>1 DEF Work
  <2>. QED  BY <2>1, <2>2, <2>3, <2>4, StagesType, GoesOn DEF Work
<1>. QED  BY <1>1, <1>2

LEMMA RenamedRows ==
  ASSUME ArtifactsInv, NEW f \in PinnedFile, NEW name \in {"deleted", "active"}
  PROVE  /\ Renamed(f, name) \in [Writer -> Work \cup {Absent}]
         /\ \A v \in Writer :
              /\ writer[v] = Absent => Renamed(f, name)[v] = Absent
              /\ writer[v] # Absent /\ writer[v].file # f => Renamed(f, name)[v] = writer[v]
              /\ Renamed(f, name)[v] # Absent => Renamed(f, name)[v].file = writer[v].file
  BY DEF Renamed, ArtifactsInv, Work

LEMMA ActivateStep ==
  ASSUME ArtifactsInv, NEW w \in Writer, Hash(w) \/ Move(w)
  PROVE  ArtifactsInv'
<1>. DEFINE f == writer[w].file
<1>1. writer[w] # Absent /\ writer[w] \in Work /\ f \in PinnedFile /\ UNCHANGED shared
  BY DEF Hash, Move, Stands, ArtifactsInv, Work
<1>2. CASE Hash(w) /\ staged[f] = "pinned"
  <2>1. writer' = [writer EXCEPT ![w] = [writer[w] EXCEPT !.at = "move"]] /\ UNCHANGED <<staged, active>>
    BY <1>2 DEF Hash, ArtifactsInv
  <2>2. [writer[w] EXCEPT !.at = "move"] \in Work
    BY <1>1 DEF Work
  <2>3. CASE writer[w].open = "active"
    BY <1>1, <2>1, <2>2, <2>3 DEF ArtifactsInv, FileSound, Brings, Work
  <2>4. CASE writer[w].open # "active"
    BY <1>1, <1>2, <2>1, <2>2, <2>4, GoesOn DEF Work, ArtifactsInv
  <2>. QED  BY <2>3, <2>4
<1>3. CASE \/ Hash(w) /\ staged[f] # "pinned"
           \/ Move(w)
  <2>1. /\ \/ writer' = [writer EXCEPT ![w] = Absent]
           \/ \E name \in {"deleted", "active"} : writer' = [Renamed(f, name) EXCEPT ![w] = Absent]
        /\ \/ UNCHANGED active
           \/ active' = [active EXCEPT ![f] = staged[f]] /\ Move(w) /\ staged[f] # Absent
        /\ UNCHANGED staged \/ staged' = [staged EXCEPT ![f] = Absent]
    BY <1>3 DEF Hash, Move, Leaves
  <2>2. /\ writer' \in [Writer -> Work \cup {Absent}]
        /\ writer'[w] = Absent
        /\ \A v \in Writer : /\ writer[v] = Absent => writer'[v] = Absent
                             /\ writer'[v] # Absent => writer'[v].file = writer[v].file
                             /\ writer'[v] # Absent /\ writer[v].file # f => writer'[v] = writer[v]
    <3>1. ASSUME NEW name \in {"deleted", "active"}, NEW renamed,
                 renamed = writer \/ renamed = Renamed(f, name), writer' = [renamed EXCEPT ![w] = Absent]
          PROVE  /\ writer' \in [Writer -> Work \cup {Absent}]
                 /\ writer'[w] = Absent
                 /\ \A v \in Writer :
                      /\ writer[v] = Absent => writer'[v] = Absent
                      /\ writer'[v] # Absent => writer'[v].file = writer[v].file
                      /\ writer'[v] # Absent /\ writer[v].file # f => writer'[v] = writer[v]
      <4>1. renamed \in [Writer -> Work \cup {Absent}]
        BY <1>1, <3>1, RenamedRows DEF ArtifactsInv
      <4>2. /\ \A v \in Writer \ {w} : writer'[v] = renamed[v]
            /\ writer' \in [Writer -> Work \cup {Absent}] /\ writer'[w] = Absent
        BY <3>1, <4>1
      <4>3. CASE renamed = writer
        BY <4>2, <4>3
      <4>4. CASE renamed = Renamed(f, name)
        BY <1>1, <4>2, <4>4, RenamedRows
      <4>. QED  BY <3>1, <4>3, <4>4
    <3>. QED  BY <2>1, <3>1
  <2>3. staged' \in [PinnedFile -> Artifact] /\ active' \in [PinnedFile -> Artifact]
    BY <1>1, <2>1 DEF ArtifactsInv, Artifact
  <2>4. ASSUME NEW g \in PinnedFile \ shared PROVE FileSound(g)'
    <3>1. FileSound(g)
      BY <2>4 DEF ArtifactsInv
    <3>2. CASE g = f
      <4>1. \A v \in Writer \ {w} : ~Brings(v, g)
        BY <1>1, <3>1, <3>2 DEF FileSound, Brings
      <4>2. \A v \in Writer : ~Brings(v, g)'
        BY <2>2, <3>2, <4>1 DEF Brings
      <4>3. Move(w) /\ staged[f] # Absent => staged[f] = "pinned"
        BY <1>1, <3>1, <3>2 DEF Move, Stands, FileSound, Brings
      <4>. QED  BY <1>1, <2>1, <3>1, <3>2, <4>2, <4>3 DEF FileSound, ArtifactsInv
    <3>3. CASE g # f
      <4>1. staged'[g] = staged[g] /\ active'[g] = active[g]
        BY <2>1, <3>3 DEF ArtifactsInv
      <4>2. \A v \in Writer : Brings(v, g)' => writer'[v] = writer[v]
        BY <2>2, <3>3 DEF Brings
      <4>. QED  BY <3>1, <4>1, <4>2 DEF FileSound, Brings
    <3>. QED  BY <3>2, <3>3
  <2>. QED  BY <1>1, <2>2, <2>3, <2>4 DEF ArtifactsInv
<1>. QED  BY <1>2, <1>3

LEMMA CleanStep == ASSUME ArtifactsInv, RemoveModel \/ KillProcess PROVE ArtifactsInv'
<1>1. CASE RemoveModel
  <2>1. /\ \A g \in PinnedFile : staged'[g] = Absent /\ active'[g] = Absent
        /\ staged' \in [PinnedFile -> Artifact] /\ active' \in [PinnedFile -> Artifact] /\ UNCHANGED shared
    BY <1>1 DEF RemoveModel, Artifact
  <2>2. \A w \in Writer : writer'[w] \in {writer[w], [writer[w] EXCEPT !.open = "deleted"]}
    BY <1>1 DEF RemoveModel
  <2>3. writer' \in [Writer -> Work \cup {Absent}]
    BY <1>1 DEF RemoveModel, ArtifactsInv, Work
  <2>4. \A w \in Writer : writer'[w] # Absent => writer[w] # Absent
    BY <1>1 DEF RemoveModel
  <2>5. ASSUME NEW w \in Writer, writer'[w] # Absent
        PROVE  /\ writer'[w].file = writer[w].file /\ writer'[w].at = writer[w].at
               /\ writer'[w].open \in {writer[w].open, "deleted"}
    BY <2>2, <2>4, <2>5 DEF ArtifactsInv, Work
  <2>. QED  BY <2>1, <2>3, <2>4, <2>5, FileLeft DEF ArtifactsInv, Brings
<1>2. CASE KillProcess
  BY <1>2 DEF KillProcess, ArtifactsInv, FileSound, Brings
<1>. QED  BY <1>1, <1>2

LEMMA ArtifactsStep == ArtifactsInv /\ [ArtifactsNext]_artifactVars => ArtifactsInv'
<1>. SUFFICES ASSUME ArtifactsInv, [ArtifactsNext]_artifactVars PROVE ArtifactsInv'
  OBVIOUS
<1>1. CASE UNCHANGED artifactVars
  BY <1>1 DEF artifactVars, ArtifactsInv, FileSound, Brings
<1>. QED  BY <1>1, DownloadStep, ImportStep, ActivateStep, CleanStep DEF ArtifactsNext

\* A file in place is the pinned one, but for those two writers had in hands at
\* once, for any number of files, importers and downloads.
THEOREM ActiveStaysPinned == ArtifactsSpec => []ActiveIsPinned
<1>1. ArtifactsInv => ActiveIsPinned
  BY DEF ArtifactsInv, FileSound, ActiveIsPinned
<1>. QED  BY <1>1, ArtifactsStart, ArtifactsStep, PTL DEF ArtifactsSpec

-----------------------------------------------------------------------------
(* The alias table: what follows an alias, and who writes it. *)
Less == {ss \in Nat \X Nat : ss[1] < ss[2]}

\* Every set of numbers has a least one, and induction along them.
LEMMA Least ==
  ASSUME NEW T, T \subseteq Nat, T # {}
  PROVE  \E x \in T : \A y \in T : x <= y
<1>1. IsWellFoundedOn(Less, Nat)
  BY NatLessThanWellFounded DEF OpToRel, Less
<1>2. PICK x \in T : \A y \in T : <<y, x>> \notin Less
  BY <1>1, WFMin
<1>3. ASSUME NEW y \in T PROVE x <= y
  BY <1>2, <1>3, x \in Nat, y \in Nat, <<y, x>> \notin Less DEF Less
<1>. QED  BY <1>3

LEMMA Induction ==
  ASSUME NEW T, 0 \in T, \A n \in Nat : n \in T => n + 1 \in T
  PROVE  Nat \subseteq T
<1>1. SUFFICES ASSUME Nat \ T # {} PROVE FALSE
  OBVIOUS
<1>2. PICK x \in Nat \ T : \A y \in Nat \ T : x <= y
  BY <1>1, Least
<1>. QED  BY <1>2, x - 1 \in Nat

-----------------------------------------------------------------------------
\* One step along an active alias, and what follows k for m steps.
Target(table, k) == IF IsActive(table, k) THEN table[k].to ELSE k
IsWalk(at, table, k, m) == at = [n \in 0..m |-> IF n = 0 THEN k ELSE Target(table, at[n - 1])]

LEMMA WalkExists ==
  ASSUME NEW table, NEW k, NEW m \in Nat
  PROVE  \E at : IsWalk(at, table, k, m)
<1>. DEFINE T == {n \in Nat : \E at : IsWalk(at, table, k, n)}
<1>1. 0 \in T
  <2>1. IsWalk([n \in 0..0 |-> k], table, k, 0)
    BY DEF IsWalk
  <2>. QED  BY <2>1
<1>2. ASSUME NEW n \in Nat, n \in T PROVE n + 1 \in T
  <2>1. PICK f : IsWalk(f, table, k, n)
    BY <1>2
  <2>. DEFINE g == [i \in 0..n+1 |-> IF i = n + 1 THEN Target(table, f[n]) ELSE f[i]]
  <2>2. \A i \in 0..n+1 : g[i] = IF i = 0 THEN k ELSE Target(table, g[i - 1])
    BY <2>1 DEF IsWalk
  <2>3. g = [i \in 0..n+1 |-> IF i = 0 THEN k ELSE Target(table, g[i - 1])]
    BY <2>2
  <2>4. IsWalk(g, table, k, n + 1)
    BY <2>3 DEF IsWalk
  <2>. QED  BY <2>4
<1>. QED  BY <1>1, <1>2, Induction

Steps == Cardinality(Key)

LEMMA FollowWalks ==
  ASSUME NEW table, NEW k
  PROVE  Steps \in Nat /\ \E at : IsWalk(at, table, k, Steps) /\ Follow(table, k) = at[Steps]
<1>. DEFINE g == CHOOSE at : IsWalk(at, table, k, Cardinality(Key))
<1>1. Cardinality(Key) \in Nat
  BY AliasAssumption, FS_CardinalityType
<1>2. \E f : IsWalk(f, table, k, Cardinality(Key))
  BY <1>1, WalkExists
<1>3. IsWalk(g, table, k, Cardinality(Key))
  BY <1>2
<1>4. Follow(table, k) = g[Cardinality(Key)]
  BY DEF Follow, IsWalk, Target
<1>. QED  BY <1>1, <1>3, <1>4 DEF Steps

Rows == [Key -> Row \cup {None}]

LEMMA WalkStays ==
  ASSUME NEW table \in Rows, NEW k \in Key, NEW m \in Nat, NEW at, IsWalk(at, table, k, m)
  PROVE  \A n \in 0..m : at[n] \in Key
<1>. DEFINE T == {n \in Nat : n <= m => at[n] \in Key}
<1>1. 0 \in T
  BY DEF IsWalk
<1>2. ASSUME NEW n \in Nat, n \in T, n + 1 <= m PROVE at[n + 1] \in Key
  <2>1. at[n] \in Key /\ at[n + 1] = Target(table, at[n])
    BY <1>2 DEF IsWalk
  <2>. QED  BY <2>1, NoRowAssumption DEF Target, IsActive, Rows, Row
<1>3. \A n \in Nat : n \in T => n + 1 \in T
  BY <1>2
<1>4. Nat \subseteq T
  BY <1>1, <1>3, Induction
<1>. QED  BY <1>4

\* A walk that could go on at its end could go on all the time.
LEMMA WalkActive ==
  ASSUME NEW table, NEW k, NEW m \in Nat, NEW at, IsWalk(at, table, k, m), IsActive(table, at[m])
  PROVE  \A n \in 0..m : IsActive(table, at[n])
<1>. DEFINE T == {n \in Nat : n <= m => IsActive(table, at[m - n])}
<1>1. 0 \in T
  OBVIOUS
<1>2. ASSUME NEW n \in Nat, n \in T, n + 1 <= m PROVE IsActive(table, at[m - (n + 1)])
  <2>1. IsActive(table, at[m - n])
    BY <1>2
  <2>2. m - n \in 1..m /\ (m - n) - 1 = m - (n + 1)
    BY <1>2
  <2>3. at[m - n] = Target(table, at[m - (n + 1)])
    BY <2>2 DEF IsWalk
  <2>. QED  BY <2>1, <2>3 DEF Target
<1>3. \A n \in Nat : n \in T => n + 1 \in T
  BY <1>2
<1>4. Nat \subseteq T
  BY <1>1, <1>3, Induction
<1>5. ASSUME NEW n \in 0..m PROVE IsActive(table, at[n])
  <2>1. m - n \in Nat /\ m - n <= m /\ m - (m - n) = n
    OBVIOUS
  <2>. QED  BY <2>1, <1>4
<1>. QED  BY <1>5

\* Without some of its aliases, a table has no cycle that it did not have.
LEMMA FewerRows ==
  ASSUME NEW old \in Rows, NEW new \in Rows, ~Cyclic(old),
         \A k \in Key : IsActive(new, k) => IsActive(old, k) /\ new[k].to = old[k].to
  PROVE  ~Cyclic(new)
<1>1. SUFFICES ASSUME NEW k \in Key, IsActive(new, Follow(new, k)) PROVE IsActive(old, Follow(old, k))
  BY DEF Cyclic
<1>2. Steps \in Nat
  BY FollowWalks
<1>3. PICK f : IsWalk(f, new, k, Steps) /\ Follow(new, k) = f[Steps]
  BY FollowWalks
<1>4. PICK g : IsWalk(g, old, k, Steps) /\ Follow(old, k) = g[Steps]
  BY FollowWalks
<1>5. \A n \in 0..Steps : f[n] \in Key /\ IsActive(new, f[n])
  BY <1>1, <1>2, <1>3, WalkStays, WalkActive
<1>. DEFINE T == {n \in Nat : n <= Steps => g[n] = f[n]}
<1>6. 0 \in T
  BY <1>2, <1>3, <1>4 DEF IsWalk
<1>7. ASSUME NEW n \in Nat, n \in T, n + 1 <= Steps PROVE g[n + 1] = f[n + 1]
  <2>1. n \in 0..Steps /\ n + 1 \in 0..Steps /\ (n + 1) - 1 = n /\ n + 1 # 0
    BY <1>2, <1>7
  <2>2. f[n + 1] = Target(new, f[n])
    BY <2>1, <1>3 DEF IsWalk
  <2>3. g[n + 1] = Target(old, g[n])
    BY <2>1, <1>4 DEF IsWalk
  <2>. QED  BY <2>1, <2>2, <2>3, <1>5, <1>7, <1>2 DEF Target
<1>8. \A n \in Nat : n \in T => n + 1 \in T
  BY <1>7
<1>9. Nat \subseteq T
  BY <1>6, <1>8, Induction
<1>. QED  BY <1>9, <1>2, <1>3, <1>4, <1>5

\* Aliases that lead into each other are a cycle.
LEMMA CircleIsCyclic ==
  ASSUME NEW table, NEW S \in SUBSET Key, S # {},
         \A k \in S : IsActive(table, k) /\ table[k].to \in S
  PROVE  Cyclic(table)
<1>1. PICK k \in S : TRUE
  OBVIOUS
<1>2. Steps \in Nat
  BY FollowWalks
<1>3. PICK f : IsWalk(f, table, k, Steps) /\ Follow(table, k) = f[Steps]
  BY FollowWalks
<1>. DEFINE T == {n \in Nat : n <= Steps => f[n] \in S}
<1>4. 0 \in T
  BY <1>2, <1>3 DEF IsWalk
<1>5. ASSUME NEW n \in Nat, n \in T, n + 1 <= Steps PROVE f[n + 1] \in S
  <2>1. n \in 0..Steps /\ n + 1 \in 0..Steps /\ (n + 1) - 1 = n /\ n + 1 # 0
    BY <1>2, <1>5
  <2>2. f[n + 1] = Target(table, f[n])
    BY <2>1, <1>3 DEF IsWalk
  <2>. QED  BY <2>1, <2>2, <1>5 DEF Target
<1>6. \A n \in Nat : n \in T => n + 1 \in T
  BY <1>5
<1>7. Nat \subseteq T
  BY <1>4, <1>6, Induction
<1>. QED  BY <1>7, <1>2, <1>3 DEF Cyclic

-----------------------------------------------------------------------------
\* Sequences of keys, and the keys that proposals are made for.
LEMMA FirstInIs ==
  ASSUME NEW s \in Seq(Key), NEW S, S # {}, S \subseteq Elems(s)
  PROVE  FirstIn(s, S) \in S
<1>. DEFINE T == {i \in 1..Len(s) : s[i] \in S}
<1>1. T \subseteq Nat /\ T # {}
  BY DEF Elems
<1>2. PICK i \in T : \A j \in T : i <= j
  BY <1>1, Least
<1>3. i \in 1..Len(s) /\ s[i] \in S /\ \A j \in 1..i - 1 : s[j] \notin S
  BY <1>2
<1>. QED  BY <1>3 DEF FirstIn

LEMMA CanonicalIsKey ==
  ASSUME NEW keys \in Seq(Key), NEW table, NEW k \in Elems(keys), table[k] = None
  PROVE  Canonical(keys, table, Form[k]) \in Key
<1>. DEFINE group == Group(keys, Form[k])
            joined == {i \in group : table[i] # None /\ Follow(table, i) \in group \ {i}}
            free == {i \in group : table[i] = None}
<1>1. Elems(keys) \subseteq Key /\ group \subseteq Elems(keys)
  BY DEF Elems, Group
<1>2. CASE joined # {}
  <2>1. FirstIn(keys, joined) \in joined
    BY <1>1, <1>2, FirstInIs
  <2>2. Follow(table, FirstIn(keys, joined)) \in Key
    BY <1>1, <2>1
  <2>. QED  BY <1>2, <2>2 DEF Canonical
<1>3. CASE joined = {} /\ Form[k] \in group
  BY <1>1, <1>3 DEF Canonical
<1>4. CASE joined = {} /\ Form[k] \notin group
  <2>1. free # {} /\ free \subseteq Elems(keys)
    BY <1>1 DEF Group
  <2>2. FirstIn(keys, free) \in Key
    BY <1>1, <2>1, FirstInIs
  <2>. QED  BY <1>4, <2>2 DEF Canonical
<1>. QED  BY <1>2, <1>3, <1>4

\* Proposals are rows for keys without one, one for each.
LEMMA ProposalsAre ==
  ASSUME NEW keys \in Seq(Key), NEW table
  PROVE  /\ \A r \in Proposals(keys, table) : r \in Row /\ r.key # r.to /\ table[r.key] = None
         /\ \A q, r \in Proposals(keys, table) : q.key = r.key => q = r
<1>1. Elems(keys) \subseteq Key
  BY DEF Elems
<1>2. ASSUME NEW r \in Proposals(keys, table) PROVE r \in Row /\ r.key # r.to /\ table[r.key] = None
  <2>1. PICK k \in Elems(keys) :
          /\ table[k] = None /\ Canonical(keys, table, Form[k]) # k
          /\ r = [key |-> k, to |-> Canonical(keys, table, Form[k]), status |-> "active", by |-> "normalized"]
    BY <1>2 DEF Proposals
  <2>2. Canonical(keys, table, Form[k]) \in Key
    BY <2>1, CanonicalIsKey
  <2>. QED  BY <1>1, <2>1, <2>2 DEF Row, Sources
<1>3. \A q, r \in Proposals(keys, table) : q.key = r.key => q = r
  BY DEF Proposals
<1>. QED  BY <1>2, <1>3

LEMMA SimilarAre ==
  ASSUME NEW keys \in Seq(Key), NEW table, NEW r \in Similar(keys, table)
  PROVE  r \in Row /\ r.key # r.to /\ table[r.key] = None
<1>1. PICK pair \in (1..Len(keys)) \X (1..Len(keys)) :
        /\ table[keys[pair[2]]] = None /\ Form[keys[pair[1]]] # Form[keys[pair[2]]]
        /\ r = [key |-> keys[pair[2]], to |-> keys[pair[1]], status |-> "suggested", by |-> "semantic"]
  BY DEF Similar
<1>2. keys[pair[1]] \in Key /\ keys[pair[2]] \in Key
  OBVIOUS
<1>. QED  BY <1>1, <1>2 DEF Row, Sources

-----------------------------------------------------------------------------
\* A handler about to write has rows to write, none of which points at itself.
Upserts(h) ==
  IF h.at = "propose" THEN h.by # "owner"
  ELSE /\ h.row \in Row /\ h.row.key # h.row.to
       /\ \A r \in h.todo : r.key # r.to

AliasTypes ==
  /\ TypeOK
  /\ \A p \in Proc : handlers[p] # None => Upserts(handlers[p])

LEMMA AliasTypesStart == Init => AliasTypes
  BY DEF Init, AliasTypes, TypeOK

\* What Continue leaves in hands.
LEMMA ContinueIs ==
  ASSUME AliasTypes, NEW p \in Proc, handlers[p] # None, NEW todo \in SUBSET Row, Continue(p, todo)
  PROVE  /\ handlers' \in [Proc -> Handler \cup {None}]
         /\ \A q \in Proc : q # p => handlers'[q] = handlers[q]
         /\ \/ todo = {} /\ handlers'[p] = None
            \/ \E row \in todo :
                 /\ handlers'[p] # None
                 /\ handlers'[p].at = (IF row.status = "active" THEN "check" ELSE "get")
                 /\ handlers'[p].row = row /\ handlers'[p].todo = todo \ {row}
                 /\ handlers'[p].by = handlers[p].by
<1>1. handlers[p] \in Handler
  BY DEF AliasTypes, TypeOK
<1>2. CASE todo = {} /\ Done(p)
  BY <1>2 DEF Done, AliasTypes, TypeOK
<1>3. ASSUME NEW row \in todo,
             handlers' = [handlers EXCEPT ![p].at = IF row.status = "active" THEN "check" ELSE "get",
                                          ![p].todo = todo \ {row}, ![p].row = row]
      PROVE  /\ handlers' \in [Proc -> Handler \cup {None}]
             /\ \A q \in Proc : q # p => handlers'[q] = handlers[q]
             /\ handlers'[p] # None
             /\ handlers'[p].at = (IF row.status = "active" THEN "check" ELSE "get")
             /\ handlers'[p].row = row /\ handlers'[p].todo = todo \ {row}
             /\ handlers'[p].by = handlers[p].by
  <2>. DEFINE new == [handlers[p] EXCEPT !.at = IF row.status = "active" THEN "check" ELSE "get",
                                         !.todo = todo \ {row}, !.row = row]
  <2>1. new \in Handler
    BY <1>1 DEF Handler
  <2>2. handlers' = [handlers EXCEPT ![p] = new]
    BY <1>1, <1>3 DEF AliasTypes, TypeOK, Handler
  <2>3. handlers'[p] = new
    BY <2>2 DEF AliasTypes, TypeOK
  <2>4. /\ new.at = (IF row.status = "active" THEN "check" ELSE "get")
        /\ new.row = row /\ new.todo = todo \ {row} /\ new.by = handlers[p].by
    BY <1>1 DEF Handler
  <2>5. new # None
    BY <2>1, NoRowAssumption
  <2>. HIDE DEF new
  <2>. QED  BY <2>1, <2>2, <2>3, <2>4, <2>5 DEF AliasTypes, TypeOK
<1>. QED  BY <1>2, <1>3 DEF Continue

-----------------------------------------------------------------------------
\* Types, action by action, for any number of handlers at once.
LEMMA PrunedIs ==
  ASSUME NEW keys, alias \in Rows
  PROVE  Pruned(keys, alias) \in Rows /\ \A k \in Key : Pruned(keys, alias)[k] \in {alias[k], None}
BY DEF Pruned, Rows

LEMMA JoinedIs ==
  ASSUME NEW s \in Seq(Key), NEW t \in Seq(Key)
  PROVE  s \o t \in Seq(Key) /\ Len(s \o t) = Len(s) + Len(t)
OBVIOUS

LEMMA EvidenceTypes ==
  ASSUME AliasTypes, NEW k \in Key, Learn(k) \/ Forget(k)
  PROVE  AliasTypes'
<1>1. \A p \in Proc : handlers'[p] # None => Upserts(handlers'[p])
  BY DEF Learn, Forget, AliasTypes
<1>2. CASE Learn(k)
  <2>1. used' \in Seq(Key) /\ (\A i, j \in 1..Len(used') : used'[i] = used'[j] => i = j)
    BY <1>2 DEF Learn, Elems, AliasTypes, TypeOK
  <2>. QED  BY <1>1, <1>2, <2>1 DEF Learn, AliasTypes, TypeOK
<1>3. CASE Forget(k)
  <2>1. PICK i \in 1..Len(used) : used' = SubSeq(used, 1, i - 1) \o SubSeq(used, i + 1, Len(used))
    BY <1>3 DEF Forget
  <2>. DEFINE left == SubSeq(used, 1, i - 1)
              right == SubSeq(used, i + 1, Len(used))
  <2>2. used \in Seq(Key) /\ Len(used) \in Nat
    BY DEF AliasTypes, TypeOK
  <2>3. left \in Seq(Key) /\ Len(left) = i - 1 /\ \A j \in 1..i - 1 : left[j] = used[j]
    BY <2>2
  <2>4. right \in Seq(Key) /\ Len(right) = Len(used) - i /\ \A j \in 1..Len(used) - i : right[j] = used[i + j]
    BY <2>2
  <2>. HIDE DEF left, right
  <2>5. used' \in Seq(Key) /\ Len(used') = Len(used) - 1
    <3>1. used' = left \o right
      BY <2>1 DEF left, right
    <3>2. left \o right \in Seq(Key) /\ Len(left \o right) = Len(left) + Len(right)
      BY <2>3, <2>4, JoinedIs
    <3>. QED  BY <3>1, <3>2, <2>2, <2>3, <2>4
  <2>6. \A j \in 1..Len(used) - 1 : used'[j] = IF j < i THEN used[j] ELSE used[j + 1]
    <3>1. used' = left \o right
      BY <2>1 DEF left, right
    <3>2. ASSUME NEW j \in 1..Len(used) - 1 PROVE used'[j] = IF j <= i - 1 THEN left[j] ELSE right[j - (i - 1)]
      BY <3>1, <2>2, <2>3, <2>4
    <3>. QED  BY <3>2, <2>2, <2>3, <2>4
  <2>7. \A a, b \in 1..Len(used') : used'[a] = used'[b] => a = b
    <3>1. \A a, b \in 1..Len(used) : used[a] = used[b] => a = b
      BY DEF AliasTypes, TypeOK
    <3>2. ASSUME NEW a \in 1..Len(used) - 1, NEW b \in 1..Len(used) - 1, used'[a] = used'[b] PROVE a = b
      <4>. DEFINE at(j) == IF j < i THEN j ELSE j + 1
      <4>1. used'[a] = used[at(a)] /\ used'[b] = used[at(b)]
        BY <2>6
      <4>2. at(a) \in 1..Len(used) /\ at(b) \in 1..Len(used)
        BY <2>2
      <4>3. at(a) = at(b)
        BY <3>1, <3>2, <4>1, <4>2
      <4>. QED  BY <4>3
    <3>. QED  BY <2>5, <3>2
  <2>8. alias' \in Rows /\ \A j \in Key : alias'[j] \in {alias[j], None}
    BY <1>3, PrunedIs DEF Forget, AliasTypes, TypeOK, Rows
  <2>. QED  BY <1>1, <1>3, <2>5, <2>7, <2>8 DEF Forget, AliasTypes, TypeOK, Rows
<1>. QED  BY <1>2, <1>3

LEMMA BeginTypes ==
  ASSUME AliasTypes, NEW p \in Proc,
         \/ \E by \in Source : BeginProposing(p, by)
         \/ \E k, c \in Key : Create(p, k, c)
         \/ \E k \in Key, status \in {"active", "rejected"} : Review(p, k, status)
  PROVE  AliasTypes'
<1>1. ASSUME NEW h \in Handler, Upserts(h), handlers' = [handlers EXCEPT ![p] = h], UNCHANGED <<used, alias>>
      PROVE  AliasTypes'
  BY <1>1 DEF AliasTypes, TypeOK
<1>2. ASSUME NEW by \in Source, BeginProposing(p, by) PROVE AliasTypes'
  <2>. DEFINE h == [at |-> "propose", by |-> by, keys |-> used, todo |-> {}, row |-> None, found |-> FALSE]
  <2>1. h \in Handler /\ Upserts(h)
    BY <1>2, AliasAssumption DEF BeginProposing, Handler, Upserts, AliasTypes, TypeOK
  <2>. QED  BY <1>1, <1>2, <2>1 DEF BeginProposing
<1>3. ASSUME NEW row \in Row, row.key # row.to, BeginOwner(p, row), UNCHANGED <<used, alias>> PROVE AliasTypes'
  <2>. DEFINE h == [at |-> IF row.status = "active" THEN "check" ELSE "get",
                    by |-> "owner", keys |-> <<>>, todo |-> {}, row |-> row, found |-> FALSE]
  <2>1. h \in Handler /\ Upserts(h)
    BY <1>3 DEF Handler, Upserts, Sources
  <2>. QED  BY <1>1, <1>3, <2>1 DEF BeginOwner
<1>4. ASSUME NEW k \in Key, NEW c \in Key, Create(p, k, c) PROVE AliasTypes'
  BY <1>3, <1>4 DEF Create, Row, Sources
<1>5. ASSUME NEW k \in Key, NEW status \in {"active", "rejected"}, Review(p, k, status) PROVE AliasTypes'
  <2>1. alias[k] \in Row /\ alias[k].key # alias[k].to
    BY <1>5 DEF Review, AliasTypes, TypeOK
  <2>2. /\ [alias[k] EXCEPT !.status = status] \in Row
        /\ [alias[k] EXCEPT !.status = status].key = alias[k].key
        /\ [alias[k] EXCEPT !.status = status].to = alias[k].to
    BY <2>1 DEF Row
  <2>. QED  BY <1>3, <1>5, <2>1, <2>2 DEF Review
<1>. QED  BY <1>2, <1>4, <1>5

LEMMA ContinueTypes ==
  ASSUME AliasTypes, NEW p \in Proc, handlers[p] # None, NEW todo \in SUBSET Row, Continue(p, todo),
         \A r \in todo : r.key # r.to
  PROVE  handlers' \in [Proc -> Handler \cup {None}] /\ \A q \in Proc : handlers'[q] # None => Upserts(handlers'[q])
<1>1. /\ handlers' \in [Proc -> Handler \cup {None}]
      /\ \A q \in Proc : q # p => handlers'[q] = handlers[q]
  BY ContinueIs
<1>2. handlers'[p] # None => Upserts(handlers'[p])
  BY ContinueIs DEF Upserts
<1>. QED  BY <1>1, <1>2 DEF AliasTypes

LEMMA HandlerTypes ==
  ASSUME AliasTypes, NEW p \in Proc, Propose(p) \/ Check(p) \/ Get(p) \/ Write(p)
  PROVE  AliasTypes'
<1>. DEFINE h == handlers[p]
<1>1. h # None /\ h \in Handler /\ Upserts(h) /\ h.todo \subseteq Row
  BY DEF Propose, Check, Get, Write, At, AliasTypes, TypeOK, Handler
<1>2. ASSUME NEW todo \in SUBSET Row, Continue(p, todo), \A r \in todo : r.key # r.to, UNCHANGED <<used, alias>>
      PROVE  AliasTypes'
  BY <1>1, <1>2, ContinueTypes DEF AliasTypes, TypeOK
<1>3. ASSUME Done(p), UNCHANGED <<used, alias>> PROVE AliasTypes'
  BY <1>3 DEF Done, AliasTypes, TypeOK
<1>4. CASE Propose(p)
  <2>1. h.keys \in Seq(Key)
    BY <1>1 DEF Handler
  <2>2. Proposals(h.keys, alias) \subseteq Row /\ \A r \in Proposals(h.keys, alias) : r.key # r.to
    BY <2>1, ProposalsAre
  <2>3. \A r \in Similar(h.keys, alias) : r \in Row /\ r.key # r.to
    BY <2>1, SimilarAre
  <2>4. \/ Done(p)
        \/ Continue(p, Proposals(h.keys, alias))
        \/ \E todo \in {{}} \cup {{row} : row \in Similar(h.keys, alias)} : Continue(p, todo)
    BY <1>4 DEF Propose
  <2>. QED  BY <1>2, <1>3, <1>4, <2>2, <2>3, <2>4 DEF Propose
<1>5. ASSUME Upserts(h), h.at # "propose",
             \/ h.row # None /\ handlers' = [handlers EXCEPT ![p].at = "get"]
             \/ \E found \in BOOLEAN : handlers' = [handlers EXCEPT ![p].at = "write", ![p].found = found],
             UNCHANGED <<used, alias>>
      PROVE  AliasTypes'
  <2>1. PICK new \in Handler : handlers' = [handlers EXCEPT ![p] = new] /\ Upserts(new)
    <3>1. CASE handlers' = [handlers EXCEPT ![p].at = "get"]
      <4>1. [h EXCEPT !.at = "get"] \in Handler /\ Upserts([h EXCEPT !.at = "get"])
        BY <1>1, <1>5 DEF Handler, Upserts
      <4>. QED  BY <3>1, <4>1 DEF AliasTypes, TypeOK
    <3>2. ASSUME NEW found \in BOOLEAN, handlers' = [handlers EXCEPT ![p].at = "write", ![p].found = found]
          PROVE  \E new \in Handler : handlers' = [handlers EXCEPT ![p] = new] /\ Upserts(new)
      <4>1. [h EXCEPT !.at = "write", !.found = found] \in Handler /\ Upserts([h EXCEPT !.at = "write", !.found = found])
        BY <1>1, <1>5 DEF Handler, Upserts
      <4>2. handlers' = [handlers EXCEPT ![p] = [h EXCEPT !.at = "write", !.found = found]]
        BY <3>2 DEF AliasTypes, TypeOK
      <4>. QED  BY <4>1, <4>2
    <3>. QED  BY <1>5, <3>1, <3>2
  <2>. QED  BY <1>5, <2>1 DEF AliasTypes, TypeOK
<1>6. CASE Check(p)
  <2>1. h.at = "check" /\ h.row # None
    BY <1>1, <1>6, NoRowAssumption DEF Check, At, Upserts
  <2>2. CASE Continue(p, h.todo)
    BY <1>1, <1>2, <1>6, <2>1, <2>2 DEF Check, Upserts
  <2>3. CASE handlers' = [handlers EXCEPT ![p].at = "get"]
    BY <1>1, <1>5, <1>6, <2>1, <2>3 DEF Check
  <2>. QED  BY <1>6, <2>2, <2>3 DEF Check
<1>7. CASE Get(p)
  <2>1. h.at = "get"
    BY <1>7 DEF Get, At
  <2>. QED  BY <1>1, <1>5, <1>7, <2>1 DEF Get
<1>8. CASE Write(p)
  <2>1. h.at = "write" /\ h.row \in Row /\ h.row.key # h.row.to /\ \A r \in h.todo : r.key # r.to
    BY <1>1, <1>8 DEF Write, At, Upserts
  <2>2. CASE alias' = [alias EXCEPT ![h.row.key] = h.row] /\ Continue(p, h.todo)
    <3>1. /\ alias' \in [Key -> Row \cup {None}]
          /\ \A k \in Key : alias'[k] # None => alias'[k].key = k /\ alias'[k].to # k
      BY <2>1, <2>2 DEF AliasTypes, TypeOK, Row
    <3>. QED  BY <1>1, <1>8, <2>1, <2>2, <3>1, ContinueTypes DEF Write, AliasTypes, TypeOK
  <2>. QED  BY <1>3, <1>8, <2>2 DEF Write
<1>. QED  BY <1>4, <1>6, <1>7, <1>8

LEMMA RemoveTypes ==
  ASSUME AliasTypes, NEW p \in Proc, NEW k \in Key, RemoveAlias(p, k)
  PROVE  AliasTypes'
BY DEF RemoveAlias, AliasTypes, TypeOK

LEMMA AliasTypesStep ==
  ASSUME AliasTypes, [Next]_vars
  PROVE  AliasTypes'
<1>1. CASE UNCHANGED vars
  BY <1>1 DEF vars, AliasTypes, TypeOK
<1>. QED  BY <1>1, EvidenceTypes, BeginTypes, HandlerTypes, RemoveTypes DEF Next

\* Every variable of the alias table keeps its type, and no alias points at
\* itself: for any number of handlers at once.
THEOREM AliasesTyped == Spec => []TypeOK
<1>1. AliasTypes => TypeOK
  BY DEF AliasTypes
<1>. QED  BY <1>1, AliasTypesStart, AliasTypesStep, PTL DEF Spec

-----------------------------------------------------------------------------
\* The repository checks for a cycle and writes in two transactions.  A handler
\* between them goes by what it has checked.
IsChecked(h) == h # None /\ h.at \in {"get", "write"} /\ h.row.status = "active"

\* No alias becomes active in this step.
NoneAdded == \A k \in Key : IsActive(alias', k) => IsActive(alias, k) /\ alias'[k].to = alias[k].to

\* What one transaction around the two would give: between them, nobody else
\* makes an alias active.
CheckInOne == [][\A p \in Proc : IsChecked(handlers[p]) /\ handlers'[p] = handlers[p] => NoneAdded]_vars

With(row) == [alias EXCEPT ![row.key] = row]

AliasInv ==
  /\ AliasTypes /\ ActiveAcyclic
  /\ \A p \in Proc : IsChecked(handlers[p]) => ~Cyclic(With(handlers[p].row))

LEMMA AliasInvStart == Init => AliasInv
<1>. SUFFICES ASSUME Init PROVE AliasInv
  OBVIOUS
<1>1. AliasTypes
  BY AliasTypesStart
<1>2. ASSUME NEW k \in Key, IsActive(alias, Follow(alias, k)) PROVE FALSE
  <2>1. Steps \in Nat
    BY FollowWalks
  <2>2. PICK at : IsWalk(at, alias, k, Steps) /\ Follow(alias, k) = at[Steps]
    BY FollowWalks
  <2>3. at[Steps] \in Key
    BY <2>1, <2>2, <1>1, WalkStays DEF AliasTypes, TypeOK, Rows
  <2>. QED  BY <1>2, <2>2, <2>3 DEF Init, IsActive
<1>. QED  BY <1>1, <1>2 DEF Init, AliasInv, ActiveAcyclic, Cyclic, IsChecked

\* A handler that has checked its row, on what is left of the aliases.
LEMMA ChecksHold ==
  ASSUME AliasInv, AliasTypes', NoneAdded, NEW row \in Row, ~Cyclic(With(row))
  PROVE  ~Cyclic(With(row))'
<1>. DEFINE before == [alias EXCEPT ![row.key] = row]
            after == [alias' EXCEPT ![row.key] = row]
<1>1. alias \in Rows /\ alias' \in Rows /\ row.key \in Key
  BY DEF AliasInv, AliasTypes, TypeOK, Rows, Row
<1>2. before \in Rows /\ after \in Rows
  BY <1>1 DEF Rows
<1>3. \A k \in Key : IsActive(after, k) => IsActive(before, k) /\ after[k].to = before[k].to
  BY <1>1 DEF NoneAdded, IsActive, Rows
<1>4. ~Cyclic(before) => ~Cyclic(after)
  BY <1>2, <1>3, FewerRows
<1>. QED  BY <1>4 DEF With

\* Every step but a check and the write of an active alias.
LEMMA NothingAdded ==
  ASSUME AliasInv, AliasTypes', NoneAdded,
         \A p \in Proc : IsChecked(handlers'[p]) =>
           \/ IsChecked(handlers[p]) /\ handlers'[p].row = handlers[p].row
           \/ UNCHANGED alias /\ ~Cyclic(With(handlers'[p].row))
  PROVE  AliasInv'
<1>1. alias \in Rows /\ alias' \in Rows
  BY DEF AliasInv, AliasTypes, TypeOK, Rows
<1>2. ActiveAcyclic'
  BY <1>1, FewerRows DEF NoneAdded, AliasInv, ActiveAcyclic
<1>3. ASSUME NEW p \in Proc, IsChecked(handlers'[p]) PROVE ~Cyclic(With(handlers[p].row))'
  <2>1. CASE IsChecked(handlers[p]) /\ handlers'[p].row = handlers[p].row
    <3>1. handlers[p].row \in Row
      BY <2>1 DEF IsChecked, AliasInv, AliasTypes, Upserts
    <3>2. ~Cyclic(With(handlers[p].row))
      BY <2>1 DEF AliasInv
    <3>3. ~Cyclic([alias' EXCEPT ![handlers[p].row.key] = handlers[p].row])
      BY <3>1, <3>2, ChecksHold DEF With
    <3>. QED  BY <2>1, <3>3 DEF With
  <2>2. CASE UNCHANGED alias /\ ~Cyclic(With(handlers'[p].row))
    BY <2>2 DEF With
  <2>. QED  BY <1>3, <2>1, <2>2
<1>. QED  BY <1>2, <1>3 DEF AliasInv, IsChecked

\* A handler that goes on has checked nothing yet.
LEMMA Unchecked ==
  ASSUME AliasTypes, NEW p \in Proc, handlers[p] # None, NEW todo \in SUBSET Row, Continue(p, todo)
  PROVE  /\ ~IsChecked(handlers'[p])
         /\ \A q \in Proc : q # p => handlers'[q] = handlers[q]
BY ContinueIs DEF IsChecked

LEMMA AliasBegins ==
  ASSUME AliasInv, AliasTypes', NEW p \in Proc,
         \/ \E by \in Source : BeginProposing(p, by)
         \/ \E k, c \in Key : Create(p, k, c)
         \/ \E k \in Key, status \in {"active", "rejected"} : Review(p, k, status)
  PROVE  AliasInv'
<1>1. UNCHANGED alias /\ p \in DOMAIN handlers
  BY DEF BeginProposing, Create, Review, AliasInv, AliasTypes, TypeOK
<1>2. ~IsChecked(handlers'[p]) /\ \A q \in Proc : q # p => handlers'[q] = handlers[q]
  <2>1. ASSUME NEW row, BeginOwner(p, row)
        PROVE  ~IsChecked(handlers'[p]) /\ \A q \in Proc : q # p => handlers'[q] = handlers[q]
    BY <1>1, <2>1 DEF BeginOwner, IsChecked, AliasInv, AliasTypes, TypeOK
  <2>2. (\E row : BeginOwner(p, row)) \/ \E by \in Source : BeginProposing(p, by)
    BY DEF Create, Review
  <2>3. ASSUME NEW by \in Source, BeginProposing(p, by)
        PROVE  ~IsChecked(handlers'[p]) /\ \A q \in Proc : q # p => handlers'[q] = handlers[q]
    BY <1>1, <2>3 DEF BeginProposing, IsChecked, AliasInv, AliasTypes, TypeOK
  <2>. QED  BY <2>1, <2>2, <2>3
<1>. QED  BY <1>1, <1>2, NothingAdded DEF NoneAdded

LEMMA AliasReads ==
  ASSUME AliasInv, AliasTypes', NEW p \in Proc, Propose(p) \/ Check(p) \/ Get(p)
  PROVE  AliasInv'
<1>. DEFINE h == handlers[p]
<1>1. /\ AliasTypes /\ h # None /\ h \in Handler /\ Upserts(h) /\ UNCHANGED alias /\ p \in DOMAIN handlers
  BY DEF Propose, Check, Get, At, AliasInv, AliasTypes, TypeOK
<1>2. ASSUME NEW todo \in SUBSET Row, Continue(p, todo) PROVE AliasInv'
  BY <1>1, <1>2, Unchecked, NothingAdded DEF NoneAdded
<1>3. CASE Propose(p)
  <2>1. CASE Done(p)
    BY <1>1, <2>1, NothingAdded DEF Done, IsChecked, NoneAdded, AliasTypes, TypeOK
  <2>2. h.keys \in Seq(Key)
    BY <1>1 DEF Handler
  <2>3. Proposals(h.keys, alias) \in SUBSET Row /\ \A r \in Similar(h.keys, alias) : r \in Row
    BY <2>2, ProposalsAre, SimilarAre
  <2>. QED  BY <1>2, <1>3, <2>1, <2>3 DEF Propose
<1>4. CASE Check(p)
  <2>1. CASE handlers' = [handlers EXCEPT ![p].at = "get"] /\ ~Cyclic(With(h.row))
    <3>1. handlers'[p].row = h.row /\ \A q \in Proc : q # p => handlers'[q] = handlers[q]
      BY <1>1, <2>1 DEF Handler, AliasTypes, TypeOK
    <3>. QED  BY <1>1, <2>1, <3>1, NothingAdded DEF NoneAdded
  <2>2. CASE Continue(p, h.todo)
    BY <1>1, <1>2, <2>2, h.todo \in SUBSET Row DEF Handler
  <2>. QED  BY <1>4, <2>1, <2>2 DEF Check, With
<1>5. CASE Get(p)
  <2>1. /\ handlers'[p].row = h.row /\ h.at = "get"
        /\ \A q \in Proc : q # p => handlers'[q] = handlers[q]
    BY <1>1, <1>5 DEF Get, At, Handler, AliasTypes, TypeOK
  <2>. QED  BY <1>1, <2>1, NothingAdded DEF NoneAdded, IsChecked
<1>. QED  BY <1>3, <1>4, <1>5

LEMMA AliasWrites ==
  ASSUME AliasInv, AliasTypes', NEW p \in Proc, Write(p),
         \A q \in Proc : IsChecked(handlers[q]) /\ handlers'[q] = handlers[q] => NoneAdded
  PROVE  AliasInv'
<1>. DEFINE h == handlers[p]
<1>1. AliasTypes /\ h # None /\ h.at = "write" /\ h \in Handler /\ h.row \in Row /\ h.todo \in SUBSET Row
  BY DEF Write, At, AliasInv, AliasTypes, TypeOK, Upserts, Handler
<1>2. alias \in Rows /\ alias' \in Rows
  BY DEF AliasInv, AliasTypes, TypeOK, Rows
<1>3. ~IsChecked(handlers'[p]) /\ \A q \in Proc : q # p => handlers'[q] = handlers[q]
  <2>1. CASE Done(p)
    BY <1>1, <2>1 DEF Done, IsChecked, AliasTypes, TypeOK
  <2>2. CASE Continue(p, h.todo)
    BY <1>1, <2>2, Unchecked
  <2>. QED  BY <2>1, <2>2 DEF Write
<1>4. CASE NoneAdded
  BY <1>3, <1>4, NothingAdded
<1>5. CASE ~NoneAdded
  <2>1. alias' = With(h.row)
    BY <1>5 DEF Write, With, NoneAdded
  <2>2. h.row.status = "active"
    BY <1>1, <1>2, <1>5, <2>1 DEF With, NoneAdded, IsActive, Rows
  <2>3. ActiveAcyclic'
    BY <1>1, <2>1, <2>2 DEF AliasInv, ActiveAcyclic, IsChecked
  <2>4. \A q \in Proc : ~IsChecked(handlers'[q])
    BY <1>3, <1>5
  <2>. QED  BY <2>3, <2>4 DEF AliasInv, IsChecked
<1>. QED  BY <1>4, <1>5

\* The table loses rows, and the handlers go on as they were.
LEMMA RowsGo ==
  ASSUME AliasTypes,
         \/ \E k \in Key : Learn(k) \/ Forget(k)
         \/ \E p \in Proc, k \in Key : RemoveAlias(p, k)
  PROVE  UNCHANGED handlers /\ \A j \in Key : alias'[j] \in {alias[j], None}
<1>1. alias \in Rows
  BY DEF AliasTypes, TypeOK, Rows
<1>2. ASSUME NEW k \in Key, Learn(k) \/ Forget(k) PROVE UNCHANGED handlers /\ \A j \in Key : alias'[j] \in {alias[j], None}
  BY <1>1, <1>2, PrunedIs DEF Learn, Forget
<1>3. ASSUME NEW p \in Proc, NEW k \in Key, RemoveAlias(p, k)
      PROVE  UNCHANGED handlers /\ \A j \in Key : alias'[j] \in {alias[j], None}
  BY <1>1, <1>3 DEF RemoveAlias, Rows
<1>. QED  BY <1>2, <1>3

LEMMA AliasInvStep ==
  ASSUME AliasInv, [Next]_vars,
         [\A p \in Proc : IsChecked(handlers[p]) /\ handlers'[p] = handlers[p] => NoneAdded]_vars
  PROVE  AliasInv'
<1>1. AliasTypes /\ AliasTypes'
  BY AliasTypesStep DEF AliasInv
<1>2. CASE UNCHANGED vars
  BY <1>1, <1>2, NothingAdded DEF vars, NoneAdded
<1>3. ASSUME \/ \E k \in Key : Learn(k) \/ Forget(k)
             \/ \E p \in Proc, k \in Key : RemoveAlias(p, k)
      PROVE  AliasInv'
  <2>1. UNCHANGED handlers /\ NoneAdded
    BY <1>1, <1>3, RowsGo DEF NoneAdded, IsActive
  <2>. QED  BY <1>1, <2>1, NothingAdded
<1>4. ASSUME NEW p \in Proc, Write(p) PROVE AliasInv'
  <2>1. handlers' # handlers
    <3>1. handlers[p] # None /\ handlers[p].at = "write" /\ handlers[p].todo \in SUBSET Row /\ p \in DOMAIN handlers
      BY <1>1, <1>4 DEF Write, At, AliasTypes, TypeOK, Handler
    <3>2. ASSUME Continue(p, handlers[p].todo) PROVE handlers'[p] # handlers[p]
      BY <1>1, <3>1, <3>2, ContinueIs
    <3>. QED  BY <1>4, <3>1, <3>2 DEF Write, Done
  <2>2. \A q \in Proc : IsChecked(handlers[q]) /\ handlers'[q] = handlers[q] => NoneAdded
    BY <2>1 DEF vars
  <2>. QED  BY <1>1, <1>4, <2>2, AliasWrites
<1>. QED  BY <1>1, <1>2, <1>3, <1>4, AliasBegins, AliasReads DEF Next

LEMMA AliasInvHolds == Spec /\ CheckInOne => []AliasInv
<1>1. /\ AliasInv /\ [Next]_vars
      /\ [\A p \in Proc : IsChecked(handlers[p]) /\ handlers'[p] = handlers[p] => NoneAdded]_vars
      => AliasInv'
  BY AliasInvStep
<1>. QED  BY <1>1, AliasInvStart, PTL DEF Spec, CheckInOne

\* The active aliases never close a cycle, for any number of handlers at once,
\* unless one of them makes an alias active between the check and the write of
\* another: that race is the only cause.
THEOREM AliasesAcyclic == Spec /\ CheckInOne => []ActiveAcyclic
<1>1. AliasInv => ActiveAcyclic
  BY DEF AliasInv
<1>. QED  BY <1>1, AliasInvHolds, PTL

\* What that means: wherever one starts, the active aliases lead out again.
THEOREM AliasesLeadOut ==
  Spec /\ CheckInOne =>
    [](\A S \in SUBSET Key : S # {} => \E k \in S : ~IsActive(alias, k) \/ alias[k].to \notin S)
<1>1. AliasInv => \A S \in SUBSET Key : S # {} => \E k \in S : ~IsActive(alias, k) \/ alias[k].to \notin S
  BY CircleIsCyclic DEF AliasInv, ActiveAcyclic
<1>. QED  BY <1>1, AliasInvHolds, PTL

-----------------------------------------------------------------------------
(* The owner's rejections. *)
\* While the owner creates or reviews an alias, nobody else writes any.
OwnerAlone == \A p, q \in Proc : handlers[p] # None /\ handlers[p].by = "owner" /\ handlers[q] # None => p = q

\* The rows that a handler is yet to write; those of a proposal reject nothing
\* and are for keys that are not rejected.
InHand(h) == IF h.at = "propose" THEN {} ELSE h.todo \cup {h.row}
Unrejected(row) == row.status # "rejected" /\ (alias[row.key] = None \/ alias[row.key].status # "rejected")

RejectInv ==
  /\ AliasTypes
  /\ \A p \in Proc : handlers[p] # None =>
       IF handlers[p].by = "owner" THEN handlers[p].todo = {}
       ELSE \A row \in InHand(handlers[p]) : Unrejected(row)

LEMMA RejectStart == Init => RejectInv
BY AliasTypesStart DEF RejectInv, Init

\* Nothing is rejected, and no handler takes up more than it had.
LEMMA NothingRejected ==
  ASSUME RejectInv, AliasTypes',
         \A k \in Key : alias'[k] = alias[k] \/ alias'[k] = None \/ alias'[k].status # "rejected",
         \A p \in Proc : handlers'[p] # None =>
           IF handlers'[p].by = "owner" THEN handlers'[p].todo = {}
           ELSE \A row \in InHand(handlers'[p]) :
                  Unrejected(row) \/ (handlers[p] # None /\ handlers[p].by # "owner" /\ row \in InHand(handlers[p]))
  PROVE  RejectInv'
<1>1. ASSUME NEW p \in Proc, handlers'[p] # None, handlers'[p].by # "owner", NEW row \in InHand(handlers'[p])
      PROVE  row.status # "rejected" /\ (alias'[row.key] = None \/ alias'[row.key].status # "rejected")
  <2>1. Unrejected(row)
    BY <1>1 DEF RejectInv
  <2>2. row.key \in Key
    BY <1>1 DEF AliasTypes, TypeOK, Handler, Upserts, InHand, Row
  <2>. QED  BY <2>1, <2>2 DEF Unrejected
<1>. QED  BY <1>1 DEF RejectInv, InHand, Unrejected

LEMMA RejectContinues ==
  ASSUME RejectInv, AliasTypes', NEW p \in Proc, handlers[p] # None, NEW todo \in SUBSET Row, Continue(p, todo),
         \A k \in Key : alias'[k] = alias[k] \/ alias'[k] = None \/ alias'[k].status # "rejected",
         IF handlers[p].by = "owner" THEN todo = {} ELSE \A row \in todo : Unrejected(row)
  PROVE  RejectInv'
<1>1. \A q \in Proc : q # p => handlers'[q] = handlers[q]
  BY ContinueIs DEF RejectInv
<1>2. ASSUME handlers'[p] # None
      PROVE  /\ handlers'[p].by = handlers[p].by /\ handlers[p].by # "owner"
             /\ InHand(handlers'[p]) \subseteq todo
  BY <1>2, ContinueIs DEF RejectInv, InHand
<1>. QED  BY <1>1, <1>2, NothingRejected DEF RejectInv

LEMMA RejectReads ==
  ASSUME RejectInv, AliasTypes', NEW p \in Proc, Propose(p) \/ Check(p) \/ Get(p)
  PROVE  RejectInv'
<1>. DEFINE h == handlers[p]
<1>1. /\ AliasTypes /\ h # None /\ h \in Handler /\ Upserts(h) /\ UNCHANGED alias /\ p \in DOMAIN handlers
      /\ h.todo \in SUBSET Row
  BY DEF Propose, Check, Get, At, RejectInv, AliasTypes, TypeOK, Handler
<1>2. CASE Propose(p)
  <2>1. CASE Done(p)
    BY <1>1, <2>1, NothingRejected DEF Done, RejectInv, AliasTypes, TypeOK
  <2>2. h.keys \in Seq(Key) /\ h.by # "owner"
    BY <1>1, <1>2 DEF Handler, Propose, At, Upserts
  <2>3. ASSUME NEW todo, todo = Proposals(h.keys, alias) \/ todo \in {{}} \cup {{row} : row \in Similar(h.keys, alias)}
        PROVE  todo \in SUBSET Row /\ \A row \in todo : Unrejected(row)
    <3>1. todo \in SUBSET Row /\ \A row \in todo : alias[row.key] = None
      BY <2>2, <2>3, ProposalsAre, SimilarAre
    <3>2. \A row \in todo : row.status # "rejected"
      BY <2>3 DEF Proposals, Similar
    <3>. QED  BY <3>1, <3>2 DEF Unrejected
  <2>. QED  BY <1>1, <1>2, <2>1, <2>2, <2>3, RejectContinues DEF Propose
<1>3. ASSUME handlers'[p].by = h.by, handlers'[p].todo = h.todo, handlers'[p].row = h.row, h.at # "propose",
             \A q \in Proc : q # p => handlers'[q] = handlers[q]
      PROVE  RejectInv'
  BY <1>1, <1>3, NothingRejected DEF RejectInv, InHand
<1>4. CASE Check(p)
  <2>1. CASE handlers' = [handlers EXCEPT ![p].at = "get"]
    <3>1. handlers'[p].by = h.by /\ handlers'[p].todo = h.todo /\ handlers'[p].row = h.row /\ h.at # "propose"
      BY <1>1, <1>4, <2>1 DEF Handler, Check, At
    <3>2. \A q \in Proc : q # p => handlers'[q] = handlers[q]
      BY <1>1, <2>1 DEF AliasTypes, TypeOK
    <3>. QED  BY <1>3, <3>1, <3>2
  <2>2. CASE Continue(p, h.todo)
    <3>1. h.at # "propose"
      BY <1>4 DEF Check, At
    <3>2. IF h.by = "owner" THEN h.todo = {} ELSE \A row \in h.todo : Unrejected(row)
      BY <1>1, <3>1 DEF RejectInv, InHand
    <3>. QED  BY <1>1, <2>2, <3>2, RejectContinues
  <2>. QED  BY <1>4, <2>1, <2>2 DEF Check
<1>5. CASE Get(p)
  <2>1. handlers'[p].by = h.by /\ handlers'[p].todo = h.todo /\ handlers'[p].row = h.row /\ h.at # "propose"
    BY <1>1, <1>5 DEF Get, At, Handler
  <2>2. \A q \in Proc : q # p => handlers'[q] = handlers[q]
    BY <1>1, <1>5 DEF Get, AliasTypes, TypeOK
  <2>. QED  BY <1>3, <2>1, <2>2
<1>. QED  BY <1>2, <1>4, <1>5

LEMMA RejectBegins ==
  ASSUME RejectInv, AliasTypes', NEW p \in Proc,
         \/ \E by \in Source : BeginProposing(p, by)
         \/ \E k, c \in Key : Create(p, k, c)
         \/ \E k \in Key, status \in {"active", "rejected"} : Review(p, k, status)
  PROVE  RejectInv'
<1>1. UNCHANGED alias /\ p \in DOMAIN handlers
  BY DEF BeginProposing, Create, Review, RejectInv, AliasTypes, TypeOK
<1>2. (\E row : BeginOwner(p, row)) \/ \E by \in Source : BeginProposing(p, by)
  BY DEF Create, Review
<1>3. /\ \/ handlers'[p].by = "owner" /\ handlers'[p].todo = {}
         \/ handlers'[p].by # "owner" /\ InHand(handlers'[p]) = {}
      /\ \A q \in Proc : q # p => handlers'[q] = handlers[q]
  <2>1. ASSUME NEW row, BeginOwner(p, row)
        PROVE  handlers'[p].by = "owner" /\ handlers'[p].todo = {} /\ \A q \in Proc : q # p => handlers'[q] = handlers[q]
    BY <1>1, <2>1 DEF BeginOwner, RejectInv, AliasTypes, TypeOK
  <2>2. ASSUME NEW by \in Source, BeginProposing(p, by)
        PROVE  /\ InHand(handlers'[p]) = {} /\ handlers'[p].by # "owner"
               /\ \A q \in Proc : q # p => handlers'[q] = handlers[q]
    BY <1>1, <2>2 DEF BeginProposing, InHand, RejectInv, AliasTypes, TypeOK
  <2>. QED  BY <1>2, <2>1, <2>2
<1>. QED  BY <1>1, <1>3, NothingRejected DEF RejectInv

\* The owner's write finds no proposal under way; any other rejects nothing.
LEMMA RejectWrites ==
  ASSUME OwnerAlone, RejectInv, AliasTypes', NEW p \in Proc, Write(p)
  PROVE  RejectInv'
<1>. DEFINE h == handlers[p]
<1>1. /\ AliasTypes /\ h # None /\ h.at = "write" /\ h \in Handler /\ h.row \in Row /\ h.todo \in SUBSET Row
      /\ alias \in Rows /\ p \in DOMAIN handlers
      /\ IF h.by = "owner" THEN h.todo = {} ELSE \A row \in h.todo \cup {h.row} : Unrejected(row)
  BY DEF Write, At, RejectInv, AliasTypes, TypeOK, Upserts, Handler, InHand, Rows
<1>2. CASE Done(p) /\ UNCHANGED alias
  BY <1>1, <1>2, NothingRejected DEF Done, RejectInv, AliasTypes, TypeOK
<1>3. CASE alias' = [alias EXCEPT ![h.row.key] = h.row] /\ Continue(p, h.todo) /\ h.by # "owner"
  <2>1. h.row.status # "rejected"
    BY <1>1, <1>3 DEF Unrejected
  <2>2. \A k \in Key : alias'[k] = alias[k] \/ alias'[k] = None \/ alias'[k].status # "rejected"
    BY <1>1, <1>3, <2>1 DEF Rows
  <2>3. \A row \in h.todo : Unrejected(row)
    BY <1>1, <1>3
  <2>. QED  BY <1>1, <1>3, <2>2, <2>3, RejectContinues
<1>4. CASE Continue(p, h.todo) /\ h.by = "owner"
  <2>1. handlers'[p] = None
    BY <1>1, <1>4 DEF Continue, Done
  <2>2. \A q \in Proc : q # p => handlers'[q] = None
    BY <1>1, <1>4, ContinueIs DEF OwnerAlone
  <2>. QED  BY <2>1, <2>2 DEF RejectInv
<1>. QED  BY <1>2, <1>3, <1>4 DEF Write

LEMMA RejectStep ==
  ASSUME OwnerAlone, RejectInv, [Next]_vars
  PROVE  RejectInv'
<1>1. AliasTypes /\ AliasTypes'
  BY AliasTypesStep DEF RejectInv
<1>2. CASE UNCHANGED vars
  BY <1>1, <1>2, NothingRejected DEF vars, RejectInv
<1>3. ASSUME \/ \E k \in Key : Learn(k) \/ Forget(k)
             \/ \E p \in Proc, k \in Key : RemoveAlias(p, k)
      PROVE  RejectInv'
  <2>1. UNCHANGED handlers /\ \A j \in Key : alias'[j] \in {alias[j], None}
    BY <1>1, <1>3, RowsGo
  <2>. QED  BY <1>1, <2>1, NothingRejected DEF RejectInv
<1>. QED  BY <1>1, <1>2, <1>3, RejectBegins, RejectReads, RejectWrites DEF Next

\* A rejected alias is brought back by the owner only, whatever is proposed by
\* any number of registrations and suggestions at once, as long as none of them
\* overlaps a change by the owner.
THEOREM OwnerRejects == Spec /\ []OwnerAlone => RejectionsStick
<1>. DEFINE Sticks(k) ==
       alias[k] # None /\ alias[k].status = "rejected" =>
         \/ alias'[k] = alias[k] \/ alias'[k] = None
         \/ \E p \in Proc : handlers[p] # None /\ handlers[p].by = "owner" /\ handlers'[p] = None
<1>1. ASSUME RejectInv, [Next]_vars, NEW k \in Key PROVE Sticks(k)
  <2>1. AliasTypes /\ alias \in Rows
    BY <1>1 DEF RejectInv, AliasTypes, TypeOK, Rows
  <2>2. ASSUME NEW p \in Proc, Write(p) PROVE Sticks(k)
    <3>. DEFINE h == handlers[p]
    <3>1. h # None /\ h.at = "write" /\ h \in Handler /\ h.row \in Row /\ p \in DOMAIN handlers
      BY <2>1, <2>2 DEF Write, At, AliasTypes, TypeOK, Upserts
    <3>2. CASE UNCHANGED alias
      BY <3>2
    <3>3. CASE alias' = [alias EXCEPT ![h.row.key] = h.row] /\ Continue(p, h.todo) /\ h.by = "owner"
      <4>1. handlers'[p] = None
        BY <1>1, <3>1, <3>3 DEF RejectInv, Continue, Done
      <4>. QED  BY <3>1, <3>3, <4>1
    <3>4. CASE alias' = [alias EXCEPT ![h.row.key] = h.row] /\ h.by # "owner"
      <4>1. alias[h.row.key] = None \/ alias[h.row.key].status # "rejected"
        BY <1>1, <3>1, <3>4 DEF RejectInv, InHand, Unrejected
      <4>. QED  BY <2>1, <3>4, <4>1 DEF Rows
    <3>. QED  BY <2>2, <3>2, <3>3, <3>4 DEF Write
  <2>3. ASSUME \/ \E j \in Key : Learn(j) \/ Forget(j)
               \/ \E p \in Proc, j \in Key : RemoveAlias(p, j)
        PROVE  Sticks(k)
    BY <2>1, <2>3, RowsGo
  <2>. QED  BY <1>1, <2>2, <2>3
         DEF Next, vars, BeginProposing, Propose, Check, Get, Create, Review
<1>2. RejectInv /\ [Next]_vars => [\A k \in Key : Sticks(k)]_vars
  BY <1>1
<1>3. OwnerAlone /\ RejectInv /\ [Next]_vars => RejectInv'
  BY RejectStep
<1>. QED  BY <1>2, <1>3, RejectStart, PTL DEF Spec, RejectionsStick

-----------------------------------------------------------------------------
\* Where the handlers take turns, neither race exists: the aliases are acyclic
\* and the rejections stick.
TakeTurns == \A p, q \in Proc : handlers[p] # None /\ handlers[q] # None => p = q

THEOREM TurnsSuffice == Spec /\ []TakeTurns => []ActiveAcyclic /\ RejectionsStick
<1>1. TakeTurns => OwnerAlone
  BY DEF TakeTurns, OwnerAlone
<1>2. AliasTypes /\ TakeTurns /\ [Next]_vars =>
        [\A p \in Proc : IsChecked(handlers[p]) /\ handlers'[p] = handlers[p] => NoneAdded]_vars
  <2>. SUFFICES ASSUME AliasTypes, TakeTurns, [Next]_vars, NEW p \in Proc,
                       IsChecked(handlers[p]), handlers'[p] = handlers[p]
                PROVE  NoneAdded
    OBVIOUS
  <2>1. ASSUME NEW q \in Proc, Write(q) PROVE FALSE
    <3>1. q = p
      BY <2>1 DEF Write, At, TakeTurns, IsChecked
    <3>2. /\ handlers[p] # None /\ handlers[p].at = "write" /\ handlers[p].todo \in SUBSET Row
          /\ p \in DOMAIN handlers
      BY <2>1, <3>1 DEF Write, At, AliasTypes, TypeOK, Handler
    <3>3. ASSUME Continue(p, handlers[p].todo) PROVE FALSE
      BY <3>2, <3>3, ContinueIs
    <3>. QED  BY <2>1, <3>1, <3>2, <3>3 DEF Write, Done
  <2>2. ASSUME \/ \E j \in Key : Learn(j) \/ Forget(j)
               \/ \E q \in Proc, j \in Key : RemoveAlias(q, j)
        PROVE  NoneAdded
    BY <2>2, RowsGo DEF NoneAdded, IsActive
  <2>. QED  BY <2>1, <2>2 DEF Next, vars, NoneAdded, BeginProposing, Propose, Check, Get, Create, Review
<1>3. Spec => []AliasTypes
  BY AliasTypesStart, AliasTypesStep, PTL DEF Spec
<1>4. Spec /\ []TakeTurns => CheckInOne
  BY <1>2, <1>3, PTL DEF Spec, CheckInOne
<1>. QED  BY <1>1, <1>4, AliasesAcyclic, OwnerRejects, PTL

-----------------------------------------------------------------------------
(* Totals: what Total adds up is taken one element after another from a    *)
(* finite set.                                                             *)
First(s) == CHOOSE x \in s : TRUE
SumOf(w, S) == Total(LAMBDA x : w[x], S)
Small(S, n) == {s \in SUBSET S : Cardinality(s) <= n}

\* t has the total of w over each member of D.
SumsUp(t, w, D) == t = [s \in D |-> IF s = {} THEN 0 ELSE w[First(s)] + t[s \ {First(s)}]]
Sums(w, S) == CHOOSE t : SumsUp(t, w, SUBSET S)

LEMMA FirstIsOne == \A S : \A s \in SUBSET S : s # {} => First(s) \in S
  BY DEF First

LEMMA SumOfSums ==
  ASSUME NEW w, NEW S
  PROVE  SumOf(w, S) = Sums(w, S)[S]
  BY DEF SumOf, Total, MapThenSumSet, MapThenFoldSet, Sums, SumsUp, First

LEMMA FirstGoes ==
  ASSUME NEW S, IsFiniteSet(S), NEW n \in Nat, NEW s \in Small(S, n + 1), s # {}
  PROVE  First(s) \in s /\ s \ {First(s)} \in Small(S, n) /\ s \in SUBSET S
<1>1. First(s) \in s /\ s \in SUBSET S
  BY DEF First, Small
<1>2. IsFiniteSet(s) /\ Cardinality(s) \in Nat /\ Cardinality(s) <= n + 1
  BY FS_Subset, FS_CardinalityType DEF Small
<1>3. Cardinality(s \ {First(s)}) = Cardinality(s) - 1
  BY <1>1, <1>2, FS_RemoveElement
<1>. QED  BY <1>1, <1>2, <1>3 DEF Small

LEMMA AllSmall ==
  ASSUME NEW S, IsFiniteSet(S)
  PROVE  Cardinality(S) \in Nat /\ Small(S, Cardinality(S)) = SUBSET S /\ Small(S, 0) = {{}}
<1>1. \A s \in SUBSET S : /\ IsFiniteSet(s) /\ Cardinality(s) \in Nat
                          /\ Cardinality(s) <= Cardinality(S)
  BY FS_Subset, FS_CardinalityType
<1>2. \A s \in SUBSET S : Cardinality(s) <= 0 <=> s = {}
  BY <1>1, FS_EmptySet
<1>. QED  BY <1>1, <1>2, FS_CardinalityType DEF Small

\* There is such a function: for subsets of n + 1 elements it is made from that
\* for subsets of n.
LEMMA SumsExist ==
  ASSUME NEW S, IsFiniteSet(S), NEW w
  PROVE  SumsUp(Sums(w, S), w, SUBSET S)
<1>. DEFINE T == {n \in Nat : \E t : SumsUp(t, w, Small(S, n))}
<1>1. 0 \in T
  <2>. DEFINE t == [s \in {{}} |-> 0]
  <2>1. SumsUp(t, w, {{}})
    BY DEF SumsUp
  <2>. QED  BY <2>1, AllSmall
<1>2. ASSUME NEW n \in Nat, n \in T
      PROVE  n + 1 \in T
  <2>1. PICK t : SumsUp(t, w, Small(S, n))
    BY <1>2
  <2>. DEFINE next(r, s) == IF s = {} THEN 0 ELSE w[First(s)] + r[s \ {First(s)}]
              u == [s \in Small(S, n + 1) |-> next(t, s)]
  <2>2. Small(S, n) \subseteq Small(S, n + 1)
    <3>1. \A s \in SUBSET S : Cardinality(s) \in Nat
      BY FS_Subset, FS_CardinalityType
    <3>. QED  BY <3>1 DEF Small
  <2>3. \A s \in Small(S, n) : u[s] = t[s]
    <3>1. \A s \in Small(S, n) : u[s] = next(t, s)
      BY <2>2
    <3>2. \A s \in Small(S, n) : t[s] = next(t, s)
      BY <2>1 DEF SumsUp
    <3>. QED  BY <3>1, <3>2
  <2>4. \A s \in Small(S, n + 1) : next(u, s) = next(t, s)
    <3>1. \A s \in Small(S, n + 1) : s # {} => u[s \ {First(s)}] = t[s \ {First(s)}]
      <4>. HIDE DEF u
      <4>. QED  BY <2>3, FirstGoes
    <3>. HIDE DEF u
    <3>. QED  BY <3>1
  <2>5. u = [s \in Small(S, n + 1) |-> next(u, s)]
    <3>1. u = [s \in Small(S, n + 1) |-> next(t, s)]
      OBVIOUS
    <3>. HIDE DEF next, u
    <3>. QED  BY <2>4, <3>1
  <2>6. SumsUp(u, w, Small(S, n + 1))
    <3>. HIDE DEF u
    <3>. QED  BY <2>5 DEF SumsUp
  <2>. QED  BY <2>6
<1>. HIDE DEF T
<1>3. Cardinality(S) \in T
  BY <1>1, <1>2, Induction, AllSmall
<1>4. \E t : SumsUp(t, w, SUBSET S)
  <2>1. \E t : SumsUp(t, w, Small(S, Cardinality(S)))
    BY <1>3 DEF T
  <2>. QED  BY <2>1, AllSmall
<1>. QED  BY <1>4 DEF Sums

LEMMA SumsNext ==
  ASSUME NEW S, IsFiniteSet(S), NEW w
  PROVE  /\ Sums(w, S)[{}] = 0
         /\ \A s \in SUBSET S :
              s # {} => Sums(w, S)[s] = w[First(s)] + Sums(w, S)[s \ {First(s)}]
<1>. DEFINE t == Sums(w, S)
<1>1. SumsUp(t, w, SUBSET S)
  BY SumsExist
<1>. HIDE DEF t
<1>2. t[{}] = 0 /\ \A s \in SUBSET S : s # {} => t[s] = w[First(s)] + t[s \ {First(s)}]
  BY <1>1 DEF SumsUp
<1>. QED  BY <1>2 DEF t

\* A sum is no more than another whose parts are no less, and positive where
\* its parts are.
LEMMA SumsCompare ==
  ASSUME NEW S, IsFiniteSet(S), NEW w \in [S -> Int], NEW v \in [S -> Int],
         \A x \in S : w[x] <= v[x]
  PROVE  /\ SumOf(w, S) \in Int /\ SumOf(v, S) \in Int /\ SumOf(w, S) <= SumOf(v, S)
         /\ S # {} /\ (\A x \in S : w[x] > 0) => SumOf(w, S) > 0
<1>. DEFINE a == Sums(w, S)
            b == Sums(v, S)
            good(s) == /\ a[s] \in Int /\ b[s] \in Int /\ a[s] <= b[s]
                       /\ (\A x \in S : w[x] > 0) => a[s] >= 0 /\ (s # {} => a[s] > 0)
            T == {n \in Nat : \A s \in Small(S, n) : good(s)}
<1>1. /\ a[{}] = 0 /\ b[{}] = 0
      /\ \A s \in SUBSET S : s # {} => /\ a[s] = w[First(s)] + a[s \ {First(s)}]
                                      /\ b[s] = v[First(s)] + b[s \ {First(s)}]
  BY SumsNext
<1>. HIDE DEF a, b
<1>2. good({})
  BY <1>1
<1>3. 0 \in T
  <2>. HIDE DEF good
  <2>. QED  BY <1>2, AllSmall
<1>4. ASSUME NEW n \in Nat, n \in T
      PROVE  n + 1 \in T
  <2>1. ASSUME NEW s \in Small(S, n + 1), s # {}
        PROVE  good(s)
    <3>1. /\ First(s) \in S /\ good(s \ {First(s)})
          /\ a[s] = w[First(s)] + a[s \ {First(s)}]
          /\ b[s] = v[First(s)] + b[s \ {First(s)}]
      <4>1. First(s) \in s /\ s \ {First(s)} \in Small(S, n) /\ s \in SUBSET S
        BY <2>1, FirstGoes
      <4>. QED  BY <1>1, <1>4, <2>1, <4>1
    <3>. QED  BY <2>1, <3>1
  <2>. HIDE DEF good
  <2>2. \A s \in Small(S, n + 1) : good(s)
    BY <1>2, <2>1
  <2>. QED  BY <2>2
<1>. HIDE DEF T, good
<1>5. Cardinality(S) \in T
  BY <1>3, <1>4, Induction, AllSmall
<1>6. good(S)
  BY <1>5, AllSmall DEF T
<1>. QED  BY <1>6, SumOfSums DEF good, a, b

\* A sum of integers is one.
LEMMA SumIsInt ==
  ASSUME NEW S, IsFiniteSet(S), NEW w \in [S -> Int]
  PROVE  SumOf(w, S) \in Int
  BY SumsCompare

LEMMA SumsSign ==
  ASSUME NEW S, IsFiniteSet(S), NEW w \in [S -> Int]
  PROVE  /\ (\A x \in S : w[x] >= 0) => SumOf(w, S) >= 0
         /\ (\A x \in S : w[x] <= 0) => SumOf(w, S) <= 0
<1>. DEFINE a == Sums(w, S)
            good(s) == /\ a[s] \in Int
                       /\ (\A x \in S : w[x] >= 0) => a[s] >= 0
                       /\ (\A x \in S : w[x] <= 0) => a[s] <= 0
            T == {n \in Nat : \A s \in Small(S, n) : good(s)}
<1>1. a[{}] = 0 /\ \A s \in SUBSET S : s # {} => a[s] = w[First(s)] + a[s \ {First(s)}]
  BY SumsNext
<1>. HIDE DEF a
<1>2. good({})
  BY <1>1
<1>3. 0 \in T
  <2>. HIDE DEF good
  <2>. QED  BY <1>2, AllSmall
<1>4. ASSUME NEW n \in Nat, n \in T
      PROVE  n + 1 \in T
  <2>1. ASSUME NEW s \in Small(S, n + 1), s # {}
        PROVE  good(s)
    <3>1. First(s) \in S /\ good(s \ {First(s)}) /\ a[s] = w[First(s)] + a[s \ {First(s)}]
      <4>1. First(s) \in s /\ s \ {First(s)} \in Small(S, n) /\ s \in SUBSET S
        BY <2>1, FirstGoes
      <4>. QED  BY <1>1, <1>4, <2>1, <4>1
    <3>. QED  BY <2>1, <3>1
  <2>. HIDE DEF good
  <2>2. \A s \in Small(S, n + 1) : good(s)
    BY <1>2, <2>1
  <2>. QED  BY <2>2
<1>. HIDE DEF T, good
<1>5. Cardinality(S) \in T
  BY <1>3, <1>4, Induction, AllSmall
<1>6. good(S)
  BY <1>5, AllSmall DEF T
<1>. QED  BY <1>6, SumOfSums DEF good, a

LEMMA SumOfNone ==
  ASSUME NEW w
  PROVE  SumOf(w, {}) = 0
  BY SumsNext, SumOfSums, FS_EmptySet

LEMMA SumOfOne ==
  ASSUME NEW x, NEW w, w[x] \in Int
  PROVE  SumOf(w, {x}) = w[x]
<1>. DEFINE S == {x}
            t == Sums(w, S)
<1>1. IsFiniteSet(S) /\ First(S) = x /\ S # {} /\ S \ {x} = {}
  BY FS_Singleton DEF First
<1>. HIDE DEF S
<1>2. t[{}] = 0 /\ t[S] = w[First(S)] + t[S \ {First(S)}]
  BY <1>1, SumsNext
<1>. HIDE DEF t
<1>3. t[S] = w[x]
  BY <1>1, <1>2
<1>4. SumOf(w, S) = w[x]
  BY <1>3, SumOfSums DEF t
<1>. QED  BY <1>4 DEF S

LEMMA SumOfTwo ==
  ASSUME NEW x, NEW y, x # y, NEW w, w[x] \in Int, w[y] \in Int
  PROVE  SumOf(w, {x, y}) = w[x] + w[y]
<1>. DEFINE S == {x, y}
            X == {x}
            Y == {y}
            t == Sums(w, S)
<1>1. IsFiniteSet(S)
  <2>1. IsFiniteSet({x} \cup {y})
    BY FS_Singleton, FS_AddElement
  <2>2. S = {x} \cup {y}
    OBVIOUS
  <2>. HIDE DEF S
  <2>. QED  BY <2>1, <2>2
<1>2. First(S) \in {x, y} /\ First(X) = x /\ First(Y) = y
  BY DEF First
<1>3. /\ S # {} /\ X # {} /\ Y # {} /\ X \in SUBSET S /\ Y \in SUBSET S /\ S \in SUBSET S
      /\ S \ {x} = Y /\ S \ {y} = X /\ X \ {x} = {} /\ Y \ {y} = {}
  OBVIOUS
<1>. HIDE DEF S, X, Y
<1>4. /\ t[{}] = 0 /\ t[S] = w[First(S)] + t[S \ {First(S)}]
      /\ t[X] = w[First(X)] + t[X \ {First(X)}]
      /\ t[Y] = w[First(Y)] + t[Y \ {First(Y)}]
  BY <1>1, <1>3, SumsNext
<1>. HIDE DEF t
<1>5. t[X] = w[x] /\ t[Y] = w[y]
  <2>1. X \ {First(X)} = {} /\ Y \ {First(Y)} = {}
    BY <1>2, <1>3
  <2>2. t[X] = w[x] + t[{}] /\ t[Y] = w[y] + t[{}]
    BY <1>2, <1>4, <2>1
  <2>. QED  BY <1>4, <2>2
<1>6. t[S] = w[x] + w[y]
  <2>1. CASE First(S) = x
    BY <1>3, <1>4, <1>5, <2>1
  <2>2. CASE First(S) = y
    <3>1. S \ {First(S)} = X
      BY <1>3, <2>2
    <3>2. t[S] = w[y] + w[x]
      BY <1>4, <1>5, <2>2, <3>1
    <3>. QED  BY <3>2
  <2>. QED  BY <1>2, <2>1, <2>2
<1>7. SumOf(w, S) = w[x] + w[y]
  BY <1>6, SumOfSums DEF t
<1>. QED  BY <1>7 DEF S

LEMMA QuotientsCompare ==
  ASSUME NEW x \in Int, NEW y \in Int, x <= y, NEW d \in Int, d > 0
  PROVE  x \div d \in Int /\ y \div d \in Int /\ x \div d <= y \div d
<1>1. /\ x \div d \in Int /\ y \div d \in Int
      /\ x = d * (x \div d) + (x % d) /\ y = d * (y \div d) + (y % d)
      /\ 0 <= x % d /\ x % d < d /\ 0 <= y % d /\ y % d < d /\ x % d \in Int /\ y % d \in Int
  OBVIOUS
<1>. DEFINE p == x \div d
            q == y \div d
            r == x % d
            u == y % d
<1>. HIDE DEF p, q, r, u
<1>2. SUFFICES ASSUME p >= q + 1 PROVE FALSE
  BY <1>1 DEF p, q
<1>3. p \in Int /\ q \in Int /\ r \in Int /\ u \in Int
  BY <1>1 DEF p, q, r, u
<1>4. d * p >= d * (q + 1) /\ d * (q + 1) = d * q + d
  BY <1>2, <1>3
<1>5. d * p + r <= d * q + u /\ 0 <= r /\ u < d
  BY <1>1 DEF p, q, r, u
<1>6. d * p \in Int /\ d * q \in Int
  BY <1>3
<1>. QED  BY <1>3, <1>4, <1>5, <1>6

LEMMA ProductsCompare ==
  ASSUME NEW x \in Int, NEW y \in Int, x <= y, NEW d \in Int
  PROVE  /\ d * x \in Int /\ d * y \in Int
         /\ d >= 0 => d * x <= d * y
         /\ d <= 0 => d * y <= d * x
  OBVIOUS

LEMMA TermsCompare ==
  ASSUME NEW x \in Int, NEW y \in Int, NEW w \in Int,
         x - y > 0 => w >= 0, x - y < 0 => w <= 0
  PROVE  y * w <= x * w
<1>1. w * x = x * w /\ w * y = y * w
  OBVIOUS
<1>2. CASE y <= x /\ w >= 0
  BY <1>1, <1>2, ProductsCompare
<1>3. CASE x <= y /\ w <= 0
  BY <1>1, <1>3, ProductsCompare
<1>4. CASE x = y
  BY <1>4
<1>. QED  BY <1>2, <1>3, <1>4

-----------------------------------------------------------------------------
(* Predictions, by whatever names the keys are given. *)
\* The name that the model has for a spelling of "quiet".
KeyFor(way, known) == ResolveName(way, known).key

LEMMA SpellingResolves ==
  ASSUME NEW known, ~("quiet" \in known /\ "Quiet" \in known), NEW way \in Spelling
  PROVE  /\ KeyFor(way, known) \in {"quiet", "Quiet"}
         /\ ResolveName(way, known).polarity = AliasOf(way).polarity
         /\ ResolveName("light", known).key = "light" /\ ResolveName("light", known).polarity = 1
         /\ \A K \in {"quiet", "Quiet"} : K \in known => KeyFor(way, known) = K
<1>1. /\ ResolveName("light", known).key = "light" /\ ResolveName("light", known).polarity = 1
  <2>1. {k \in known : NormalForm(k) = NormalForm("light")} \subseteq {"light"}
    BY DEF NormalForm
  <2>. QED  BY <2>1 DEF ResolveName, AliasOf, NormalForm
<1>. DEFINE key == AliasOf(way).key
            alike == {k \in known : NormalForm(k) = NormalForm(key)}
<1>2. key \in {"quiet", "Quiet"} /\ NormalForm(key) = "quiet"
  BY DEF AliasOf, Spelling, NormalForm
<1>3. alike = known \cap {"quiet", "Quiet"}
  BY <1>2 DEF NormalForm
<1>4. ResolveName(way, known) =
        IF key \in known \/ alike = {} THEN AliasOf(way)
        ELSE [AliasOf(way) EXCEPT !.key = IF NormalForm(key) \in alike THEN NormalForm(key)
                                          ELSE CHOOSE k \in alike : TRUE]
  BY DEF ResolveName
<1>5. DOMAIN AliasOf(way) = {"key", "polarity"}
  BY DEF AliasOf
<1>. HIDE DEF key, alike
<1>6. CASE key \in known \/ alike = {}
  <2>1. ResolveName(way, known) = AliasOf(way)
    BY <1>4, <1>6
  <2>2. ResolveName(way, known).key = key
    BY <2>1 DEF key
  <2>. QED  BY <1>1, <1>2, <1>3, <1>6, <2>1, <2>2 DEF KeyFor
<1>7. CASE key \notin known /\ alike # {}
  <2>. DEFINE k == IF NormalForm(key) \in alike THEN NormalForm(key) ELSE CHOOSE x \in alike : TRUE
  <2>1. ResolveName(way, known) = [AliasOf(way) EXCEPT !.key = k]
    BY <1>4, <1>7
  <2>2. k \in alike
    BY <1>7
  <2>. HIDE DEF k
  <2>3. ResolveName(way, known).key = k /\ ResolveName(way, known).polarity = AliasOf(way).polarity
    BY <1>5, <2>1
  <2>. QED  BY <1>1, <1>3, <2>2, <2>3 DEF KeyFor
<1>. QED  BY <1>6, <1>7

\* The value a name gives the key it stands for, their total over S, and the
\* names of one key.
Turned(g, known, n) == ResolveName(n, known).polarity * g[n]
NamesTotal(g, known, S) == Total(LAMBDA n : ResolveName(n, known).polarity * g[n], S)
NamesOf(g, known, k) == {n \in DOMAIN g : ResolveName(n, known).key = k}

LEMMA TurnedInAll ==
  ASSUME NEW g, NEW known, NEW S
  PROVE  NamesTotal(g, known, S) = SumOf([n \in S |-> Turned(g, known, n)], S)
<1>. DEFINE w == [n \in S |-> Turned(g, known, n)]
            body(t) == [s \in SUBSET S |-> IF s = {} THEN 0
                          ELSE Turned(g, known, First(s)) + t[s \ {First(s)}]]
            bodyOf(t) == [s \in SUBSET S |-> IF s = {} THEN 0 ELSE w[First(s)] + t[s \ {First(s)}]]
<1>1. NamesTotal(g, known, S) = (CHOOSE t : t = body(t))[S]
  BY DEF NamesTotal, Turned, Total, MapThenSumSet, MapThenFoldSet, First
<1>2. SumOf(w, S) = (CHOOSE t : t = bodyOf(t))[S]
  BY SumOfSums DEF Sums, SumsUp
<1>3. \A t : body(t) = bodyOf(t)
  BY FirstIsOne
<1>. HIDE DEF body, bodyOf
<1>4. (CHOOSE t : t = body(t)) = (CHOOSE t : t = bodyOf(t))
  BY <1>3
<1>. QED  BY <1>1, <1>2, <1>4

LEMMA OneNameTotal ==
  ASSUME NEW g, NEW known, NEW x, Turned(g, known, x) \in Int
  PROVE  NamesTotal(g, known, {x}) = Turned(g, known, x)
<1>. DEFINE w == [n \in {x} |-> Turned(g, known, n)]
<1>1. NamesTotal(g, known, {x}) = SumOf(w, {x})
  BY TurnedInAll
<1>2. w[x] = Turned(g, known, x)
  OBVIOUS
<1>. HIDE DEF w
<1>. QED  BY <1>1, <1>2, SumOfOne

\* The options of a decision: any values of the two keys.
Option == UNION {[D -> Int] : D \in SUBSET {"quiet", "light"}}

LEMMA CanonicalByNames ==
  ASSUME NEW g, NEW known
  PROVE  CanonicalOption(g, known) =
           [k \in {ResolveName(n, known).key : n \in DOMAIN g} |->
              NamesTotal(g, known, NamesOf(g, known, k)) \div Cardinality(NamesOf(g, known, k))]
  BY DEF CanonicalOption, NamesTotal, NamesOf

\* Folding undoes the spelling, up to the name that the model has for "quiet".
LEMMA SpellingFolds ==
  ASSUME NEW known, ~("quiet" \in known /\ "Quiet" \in known), NEW way \in Spelling,
         NEW f \in Option
  PROVE  CanonicalOption(Spelled(f, way), known) = Spelled(f, KeyFor(way, known))
<1>. DEFINE K == KeyFor(way, known)
            g == Spelled(f, way)
            name(k) == IF k = "quiet" THEN way ELSE k
            to(k) == IF k = "quiet" THEN K ELSE k
            h == Spelled(f, K)
<1>1. /\ K \in {"quiet", "Quiet"} /\ ResolveName(way, known).key = K
      /\ ResolveName(way, known).polarity = AliasOf(way).polarity
      /\ ResolveName("light", known).key = "light" /\ ResolveName("light", known).polarity = 1
  BY SpellingResolves DEF KeyFor
<1>. HIDE DEF K
<1>2. PICK D \in SUBSET {"quiet", "light"} : f \in [D -> Int]
  BY DEF Option
<1>3. /\ DOMAIN g = {name(k) : k \in D}
      /\ \A k \in D : g[name(k)] = IF k = "light" THEN f[k] ELSE AliasOf(way).polarity * f[k]
  BY <1>2 DEF Spelled, Spelling
<1>4. /\ h = [n \in {to(k) : k \in D} |-> h[n]]
      /\ \A k \in D : h[to(k)] = IF k = "light" THEN f[k] ELSE 1 * f[k]
  <2>1. AliasOf(K).polarity = 1
    BY <1>1 DEF AliasOf
  <2>. QED  BY <1>2, <1>1, <2>1 DEF Spelled
<1>. HIDE DEF g, h
<1>5. /\ AliasOf(way).polarity \in {1, -1} /\ \A k \in D : f[k] \in Int
      /\ \A k \in D : 1 * (1 * f[k]) = f[k] /\ (-1) * ((-1) * f[k]) = f[k] /\ 1 * f[k] = f[k]
  BY <1>2 DEF AliasOf
<1>6. \A k \in D : /\ ResolveName(name(k), known).key = to(k)
                   /\ Turned(g, known, name(k)) = f[k]
  <2>. SUFFICES ASSUME NEW k \in D
                PROVE  ResolveName(name(k), known).key = to(k) /\ Turned(g, known, name(k)) = f[k]
    OBVIOUS
  <2>1. CASE k = "light"
    BY <1>3, <1>5, <1>1, <2>1 DEF Turned
  <2>2. CASE k = "quiet"
    <3>1. Turned(g, known, way) = AliasOf(way).polarity * (AliasOf(way).polarity * f[k])
      BY <1>3, <1>1, <2>2 DEF Turned
    <3>. QED  BY <1>5, <1>1, <2>2, <3>1
  <2>. QED  BY <2>1, <2>2
<1>7. {ResolveName(n, known).key : n \in DOMAIN g} = {to(k) : k \in D}
  <2>1. ASSUME NEW n \in DOMAIN g
        PROVE  \E k \in D : ResolveName(n, known).key = to(k)
    <3>1. PICK k \in D : n = name(k)
      BY <1>3
    <3>. QED  BY <1>6, <3>1
  <2>2. ASSUME NEW k \in D
        PROVE  \E n \in DOMAIN g : to(k) = ResolveName(n, known).key
    <3>1. name(k) \in DOMAIN g /\ ResolveName(name(k), known).key = to(k)
      BY <1>3, <1>6
    <3>. QED  BY <3>1
  <2>. HIDE DEF to, name
  <2>. QED  BY <2>1, <2>2
<1>8. \A k \in D : NamesOf(g, known, to(k)) = {name(k)}
  <2>1. \A k, l \in D : to(k) = to(l) => k = l
    BY <1>1, <1>2
  <2>. HIDE DEF to, name
  <2>. QED  BY <1>3, <1>6, <2>1 DEF NamesOf
<1>9. \A k \in D : /\ NamesTotal(g, known, NamesOf(g, known, to(k))) = f[k]
                   /\ Cardinality(NamesOf(g, known, to(k))) = 1
  <2>1. \A k \in D : NamesTotal(g, known, {name(k)}) = Turned(g, known, name(k))
    BY <1>5, <1>6, OneNameTotal
  <2>2. \A k \in D : Cardinality({name(k)}) = 1
    BY FS_Singleton
  <2>. HIDE DEF name, to
  <2>. QED  BY <1>6, <1>8, <2>1, <2>2
<1>10. CanonicalOption(g, known) =
        [j \in {to(k) : k \in D} |->
           NamesTotal(g, known, NamesOf(g, known, j)) \div Cardinality(NamesOf(g, known, j))]
  BY <1>7, CanonicalByNames
<1>11. \A j \in {to(k) : k \in D} :
         NamesTotal(g, known, NamesOf(g, known, j)) \div Cardinality(NamesOf(g, known, j)) = h[j]
  <2>1. \A k \in D : f[k] \div 1 = f[k] /\ h[to(k)] = f[k]
    BY <1>4, <1>5
  <2>. HIDE DEF to
  <2>. QED  BY <1>9, <2>1
<1>. HIDE DEF to
<1>12. CanonicalOption(g, known) = h
  BY <1>4, <1>10, <1>11
<1>. QED  BY <1>12 DEF g, h, K

\* Past decisions, and evidence as the model takes it.
Resolved == [options : Seq(Option), chosen : Nat, here : BOOLEAN]
Canonicals(evidence) == {CanonicalEvidence(e) : e \in evidence}

LEMMA AggregateOfCanonicals ==
  ASSUME NEW evidence, NEW plain, Canonicals(evidence) = Canonicals(plain)
  PROVE  Aggregate(evidence) = Aggregate(plain)
<1>. DEFINE agg(canonical) ==
              [ks \in {<<e.name, e.scope>> : e \in canonical} |->
                 AggregatePreference({e \in canonical : <<e.name, e.scope>> = ks})]
<1>1. /\ Aggregate(evidence) = agg(Canonicals(evidence))
      /\ Aggregate(plain) = agg(Canonicals(plain))
  BY DEF Aggregate, Canonicals
<1>. HIDE DEF agg
<1>. QED  BY <1>1

LEMMA KnownKeys ==
  ASSUME NEW evidence
  PROVE  ModelKeys(Aggregate(evidence)) = {e.name : e \in Canonicals(evidence)}
<1>1. DOMAIN Aggregate(evidence) = {<<e.name, e.scope>> : e \in Canonicals(evidence)}
  BY DEF Aggregate, Canonicals
<1>. DEFINE C == Canonicals(evidence)
<1>2. ASSUME NEW k
      PROVE  k \in ModelKeys(Aggregate(evidence)) <=> \E e \in C : k = e.name
  <2>1. \A e \in C : <<e.name, e.scope>>[1] = e.name
    OBVIOUS
  <2>2. k \in ModelKeys(Aggregate(evidence))
          <=> \E ks \in {<<e.name, e.scope>> : e \in C} : k = ks[1]
    BY <1>1 DEF ModelKeys
  <2>. HIDE DEF C
  <2>. QED  BY <2>1, <2>2
<1>. QED  BY <1>2

LEMMA PlainFolds ==
  ASSUME NEW f \in Option
  PROVE  Spelled(f, "quiet") = f
<1>1. PICK D \in SUBSET {"quiet", "light"} : f \in [D -> Int]
  BY DEF Option
<1>2. AliasOf("quiet").polarity = 1 /\ \A i \in Int : 1 * i = i
  BY DEF AliasOf
<1>3. Spelled(f, "quiet") = [n \in D |-> IF n = "light" THEN f[n] ELSE 1 * f["quiet"]]
  <2>1. {IF k = "quiet" THEN "quiet" ELSE k : k \in DOMAIN f} = D
    BY <1>1
  <2>. QED  BY <1>2, <2>1 DEF Spelled
<1>4. \A n \in D : (IF n = "light" THEN f[n] ELSE 1 * f["quiet"]) = f[n]
  BY <1>1, <1>2
<1>. QED  BY <1>1, <1>3, <1>4

LEMMA SpellingsFold ==
  ASSUME NEW known, "quiet" \in known, "Quiet" \notin known, NEW way \in Spelling,
         NEW options \in Seq(Option)
  PROVE  Folded(SpelledAll(options, way), known) = options
<1>1. KeyFor(way, known) = "quiet"
  BY SpellingResolves
<1>2. \A i \in DOMAIN options : CanonicalOption(SpelledAll(options, way)[i], known) = options[i]
  BY <1>1, SpellingFolds, PlainFolds DEF SpelledAll
<1>3. DOMAIN SpelledAll(options, way) = DOMAIN options
  BY DEF SpelledAll
<1>4. Folded(SpelledAll(options, way), known) = [i \in DOMAIN options |-> options[i]]
  BY <1>2, <1>3 DEF Folded
<1>. QED  BY <1>4

\* key-consistency-increment-plan, 5: a prediction compares canonical keys.  Of
\* evidence that says the same of the same canonical keys, "quiet" among them,
\* any options and any past decisions, each spelled in a way of its own, get
\* the same utilities: whatever the values, the weights, and how many there are.
THEOREM AnyNamesPredictAlike ==
  ASSUME NEW evidence, NEW plain, Canonicals(evidence) = Canonicals(plain),
         \E e \in Canonicals(plain) : e.name = "quiet",
         \A e \in Canonicals(plain) : e.name # "Quiet",
         NEW options \in Seq(Option), NEW way \in Spelling,
         NEW history \in Seq(Resolved), NEW ways \in [DOMAIN history -> Spelling]
  PROVE  Utilities(evidence, SpelledAll(options, way),
                   [h \in DOMAIN history |-> SpelledPast(history[h], ways[h])])
           = Utilities(plain, options, history)
<1>. DEFINE known == ModelKeys(Aggregate(plain))
            pasts == [h \in DOMAIN history |-> SpelledPast(history[h], ways[h])]
            folded(past) == [past EXCEPT !.options = Folded(@, known)]
<1>1. "quiet" \in known /\ "Quiet" \notin known
  BY KnownKeys
<1>2. Aggregate(evidence) = Aggregate(plain)
  BY AggregateOfCanonicals
<1>. HIDE DEF known
<1>3. Folded(SpelledAll(options, way), known) = options
  BY <1>1, SpellingsFold
<1>4. ASSUME NEW past \in Resolved, NEW w \in Spelling
      PROVE  folded(SpelledPast(past, w)) = past
  <2>1. Folded(SpelledAll(past.options, w), known) = past.options
    BY <1>1, SpellingsFold DEF Resolved
  <2>. QED  BY <2>1 DEF SpelledPast, Resolved
<1>5. \A o \in Seq(Option) : Folded(o, known) = o
  <2>1. ASSUME NEW o \in Seq(Option)
        PROVE  SpelledAll(o, "quiet") = o
    <3>1. SpelledAll(o, "quiet") = [i \in DOMAIN o |-> o[i]]
      BY PlainFolds DEF SpelledAll
    <3>. QED  BY <3>1
  <2>. QED  BY <1>1, <2>1, SpellingsFold DEF Spelling
<1>6. \A past \in Resolved : folded(past) = past
  BY <1>5 DEF Resolved
<1>. HIDE DEF folded
<1>7. /\ [h \in DOMAIN pasts |-> folded(pasts[h])] = history
      /\ [h \in DOMAIN history |-> folded(history[h])] = history
  BY <1>4, <1>6
<1>8. /\ Utilities(evidence, SpelledAll(options, way), pasts)
           = FoldedUtilities(Aggregate(plain), Folded(SpelledAll(options, way), known),
                             [h \in DOMAIN pasts |-> folded(pasts[h])])
      /\ Utilities(plain, options, history)
           = FoldedUtilities(Aggregate(plain), Folded(options, known),
                             [h \in DOMAIN history |-> folded(history[h])])
  <2>. HIDE DEF pasts
  <2>. QED  BY <1>2 DEF Utilities, UtilitiesUnder, known, folded
<1>. HIDE DEF pasts
<1>9. Utilities(evidence, SpelledAll(options, way), pasts) = Utilities(plain, options, history)
  BY <1>3, <1>5, <1>7, <1>8
<1>. QED  BY <1>9 DEF pasts

LEMMA CanonicalOf ==
  \A n, v, m, at, id :
    CanonicalEvidence(Observation(n, v, m, at, id))
      = Observation(AliasOf(n).key, AliasOf(n).polarity * v, m, at, id)
<1>. SUFFICES ASSUME NEW n, NEW v, NEW m, NEW at, NEW id
              PROVE  CanonicalEvidence(Observation(n, v, m, at, id))
                       = Observation(AliasOf(n).key, AliasOf(n).polarity * v, m, at, id)
  OBVIOUS
<1>. DEFINE e == Observation(n, v, m, at, id)
<1>1. e.name = n /\ e.value = v
  BY DEF Observation
<1>2. CanonicalEvidence(e) = [e EXCEPT !.name = AliasOf(n).key, !.value = AliasOf(n).polarity * v]
  <2>. HIDE DEF e
  <2>. QED  BY <1>1 DEF CanonicalEvidence
<1>. QED  BY <1>2 DEF Observation

\* Words say the same by either name.
LEMMA SaidAlike ==
  ASSUME NEW words \in Words
  PROVE  /\ Canonicals(Said(words, words[3])) = Canonicals(Said(words, "quiet"))
         /\ {e.name : e \in Canonicals(Said(words, "quiet"))} = {"quiet"}
<1>. DEFINE first == Observation("quiet", 2, 60, "global", 1)
            second(way) == Observation(way, AliasOf(way).polarity * words[1], 81, words[2], 2)
<1>1. PICK s \in DOMAIN ScopeWeight \cup {"elsewhere"}, w \in {"quiet", "noise"} : words = <<-2, s, w>>
  BY DEF Words
<1>2. \A way : Said(words, way) = {first, second(way)}
  BY <1>1 DEF Said
<1>3. \A n, v, m, at, id :
        CanonicalEvidence(Observation(n, v, m, at, id))
          = Observation(AliasOf(n).key, AliasOf(n).polarity * v, m, at, id)
  <2>1. ASSUME NEW n, NEW v, NEW m, NEW at, NEW id
        PROVE  CanonicalEvidence(Observation(n, v, m, at, id))
                 = Observation(AliasOf(n).key, AliasOf(n).polarity * v, m, at, id)
    <3>. DEFINE e == Observation(n, v, m, at, id)
    <3>1. e.name = n /\ e.value = v
      BY DEF Observation
    <3>2. CanonicalEvidence(e) = [e EXCEPT !.name = AliasOf(n).key, !.value = AliasOf(n).polarity * v]
      <4>. HIDE DEF e
      <4>. QED  BY <3>1 DEF CanonicalEvidence
    <3>. QED  BY <3>2 DEF Observation
  <2>. QED  BY <2>1
<1>4. AliasOf(w).key = "quiet" /\ AliasOf(w).polarity * (AliasOf(w).polarity * (-2)) = -2
  BY DEF AliasOf
<1>5. AliasOf("quiet").key = "quiet" /\ AliasOf("quiet").polarity * (AliasOf("quiet").polarity * (-2)) = -2
  BY DEF AliasOf
<1>6. CanonicalEvidence(second(w)) = Observation("quiet", -2, 81, s, 2)
  BY <1>1, <1>3, <1>4
<1>7. CanonicalEvidence(second("quiet")) = Observation("quiet", -2, 81, s, 2)
  BY <1>1, <1>3, <1>5
<1>8. CanonicalEvidence(first).name = "quiet"
  BY DEF CanonicalEvidence, Observation, AliasOf
<1>9. Observation("quiet", -2, 81, s, 2).name = "quiet"
  BY DEF Observation
<1>10. \A way : Canonicals({first, second(way)})
                 = {CanonicalEvidence(first), CanonicalEvidence(second(way))}
  BY DEF Canonicals
<1>. HIDE DEF first, second
<1>. QED  BY <1>1, <1>2, <1>6, <1>7, <1>8, <1>9, <1>10

\* The case at hand is one of those.
ReasoningInv ==
  given # <<>> =>
    /\ given = <<given[1]>>
    /\ given[1].options \in [1..2 -> Features] /\ given[1].past \in Past
    /\ given[1].spelling \in Spelling /\ given[1].pastSpelling \in Spelling
    /\ given[1].said \in Words \cup {<<>>}

LEMMA TwoMakeASequence ==
  ASSUME NEW S, NEW s \in [1..2 -> S]
  PROVE  s \in Seq(S)
<1>1. s \in UNION {[1..n -> S] : n \in Nat}
  OBVIOUS
<1>. QED  BY <1>1, SeqDef

LEMMA PairsAreOptions ==
  ASSUME NEW os \in [1..2 -> Features]
  PROVE  os \in Seq(Option)
<1>1. Features \subseteq Option
  BY DEF Features, Option
<1>. QED  BY <1>1, TwoMakeASequence

LEMMA PastsAre ==
  ASSUME NEW past \in Past
  PROVE  /\ past.options \in [1..2 -> Features] /\ past.options[1] # past.options[2]
         /\ past.chosen = 1 /\ past.here \in BOOLEAN /\ past \in Resolved
<1>1. past.options \in [1..2 -> Features] /\ past.options[1] # past.options[2]
  BY DEF Past, OptionPair
<1>2. past.options \in Seq(Option)
  BY <1>1, PairsAreOptions
<1>. QED  BY <1>1, <1>2 DEF Past, Resolved

LEMMA PairsAreFeatures ==
  ASSUME NEW pair \in kSubset(2, Features)
  PROVE  SetToSeq(pair) \in [1..2 -> Features]
<1>1. IsFiniteSet(Features)
  <2>. DEFINE alone(v) == [k \in {"quiet"} |-> v]
  <2>1. [{"quiet"} -> {2, -2}] = {alone(2)} \cup {alone(-2)}
    <3>1. ASSUME NEW f \in [{"quiet"} -> {2, -2}]
          PROVE  f \in {alone(2)} \cup {alone(-2)}
      <4>1. f = alone(f["quiet"])
        OBVIOUS
      <4>2. f["quiet"] \in {2, -2}
        OBVIOUS
      <4>. HIDE DEF alone
      <4>. QED  BY <4>1, <4>2
    <3>. QED  BY <3>1
  <2>. HIDE DEF alone
  <2>. DEFINE both == [k \in {"quiet", "light"} |-> 2]
              other == [k \in {"light"} |-> 2]
  <2>2. Features = ({alone(2)} \cup {alone(-2)}) \cup ({both} \cup {other})
    BY <2>1 DEF Features
  <2>. HIDE DEF both, other
  <2>. QED  BY <2>2, FS_Singleton, FS_Union
<1>2. IsFiniteSet(pair) /\ Cardinality(pair) = 2
  BY <1>1, FS_Subset DEF kSubset
<1>3. \E f \in [1..Cardinality(pair) -> pair] : IsInjective(f)
  BY <1>2, FS_CardinalityType DEF ExistsBijection, Bijection, Injection, IsInjective
<1>4. SetToSeq(pair) \in [1..2 -> pair]
  BY <1>2, <1>3 DEF SetToSeq
<1>. QED  BY <1>4 DEF kSubset

LEMMA ReasoningStart == ReasoningInit => ReasoningInv
  BY DEF ReasoningInit, ReasoningInv

LEMMA ReasoningStep == ReasoningInv /\ [ReasoningNext]_given => ReasoningInv'
<1>. SUFFICES ASSUME ReasoningInv, ReasoningNext PROVE ReasoningInv'
  BY DEF ReasoningInv
<1>1. CASE \E os \in {SetToSeq(pair) : pair \in kSubset(2, Features)}, past \in Past, a, b \in Spelling :
             Decide([options |-> os, spelling |-> a, past |-> past, pastSpelling |-> b, said |-> <<>>])
  <2>1. PICK pair \in kSubset(2, Features), past \in Past, a, b \in Spelling :
          given' = <<[options |-> SetToSeq(pair), spelling |-> a, past |-> past,
                      pastSpelling |-> b, said |-> <<>>]>>
    BY <1>1 DEF Decide
  <2>. QED  BY <2>1, PairsAreFeatures DEF ReasoningInv
<1>2. CASE \E words \in Words : Say(words)
  <2>1. PICK words \in Words : Say(words)
    BY <1>2
  <2>. DEFINE case == [given[1] EXCEPT !.said = words]
  <2>2. given # <<>> /\ given' = <<case>>
    BY <2>1 DEF Say
  <2>3. /\ case.options = given[1].options /\ case.past = given[1].past
        /\ case.spelling = given[1].spelling /\ case.pastSpelling = given[1].pastSpelling
    OBVIOUS
  <2>4. case.said \in Words \cup {<<>>}
    BY <2>2 DEF ReasoningInv
  <2>. HIDE DEF case
  <2>. QED  BY <2>2, <2>3, <2>4 DEF ReasoningInv
<1>. QED  BY <1>1, <1>2 DEF ReasoningNext

LEMMA CasesIgnoreNames == ReasoningInv => PredictionIgnoresNames
<1>. SUFFICES ASSUME ReasoningInv, NEW i \in DOMAIN given \ Unsaid
              PROVE  Rated(AsSpelled(given[i])) = Rated(Plain(given[i]))
  BY DEF PredictionIgnoresNames
<1>1. given # <<>> /\ i = 1 /\ given[1].said # <<>>
  BY DEF ReasoningInv, Unsaid
<1>. DEFINE case == given[1]
            history == <<case.past>>
            ways == [h \in DOMAIN history |-> case.pastSpelling]
            spelled == [h \in DOMAIN history |-> SpelledPast(history[h], ways[h])]
<1>2. /\ case.options \in Seq(Option) /\ case.past \in Resolved /\ case.said \in Words
      /\ case.spelling \in Spelling /\ case.pastSpelling \in Spelling
  <2>1. /\ case.options \in [1..2 -> Features] /\ case.past \in Past
        /\ case.said \in Words /\ case.spelling \in Spelling /\ case.pastSpelling \in Spelling
    BY <1>1 DEF ReasoningInv
  <2>. HIDE DEF case
  <2>. QED  BY <2>1, PairsAreOptions, PastsAre
<1>. HIDE DEF case
<1>3. /\ history \in Seq(Resolved) /\ ways \in [DOMAIN history -> Spelling]
      /\ spelled = <<SpelledPast(case.past, case.pastSpelling)>>
  BY <1>2
<1>4. /\ Canonicals(Said(case.said, case.said[3])) = Canonicals(Said(case.said, "quiet"))
      /\ \E e \in Canonicals(Said(case.said, "quiet")) : e.name = "quiet"
      /\ \A e \in Canonicals(Said(case.said, "quiet")) : e.name # "Quiet"
  BY <1>2, SaidAlike
<1>5. Utilities(Said(case.said, case.said[3]), SpelledAll(case.options, case.spelling), spelled)
        = Utilities(Said(case.said, "quiet"), case.options, history)
  <2>. HIDE DEF history, ways
  <2>. QED  BY <1>2, <1>3, <1>4, AnyNamesPredictAlike
<1>6. Rated(AsSpelled(case))
        = Utilities(Said(case.said, case.said[3]), SpelledAll(case.options, case.spelling), spelled)
  BY <1>1, <1>3 DEF Rated, AsSpelled, case
<1>7. Rated(Plain(case)) = Utilities(Said(case.said, "quiet"), case.options, history)
  BY DEF Rated, Plain
<1>. QED  BY <1>1, <1>5, <1>6, <1>7 DEF case

\* The invariant that a run checks is an instance: Rated does not tell a case from
\* the same one with every key by its own name.
THEOREM PredictionsIgnoreNames == ReasoningSpec => []PredictionIgnoresNames
<1>. QED  BY ReasoningStart, ReasoningStep, CasesIgnoreNames, PTL DEF ReasoningSpec

-----------------------------------------------------------------------------
(* What one choice teaches, of whatever keys. *)
\* Any number of keys with whole values.
AreFeatures(v) == IsFiniteSet(DOMAIN v) /\ \A k \in DOMAIN v : v[k] \in Int

LEMMA FeatureIsInt ==
  ASSUME NEW v, AreFeatures(v), NEW k
  PROVE  Feature(v, k) \in Int
  BY DEF Feature, AreFeatures

\* What is learned of pairs of scope and key.
AreWeights(w) == /\ IsFiniteSet(DOMAIN w)
                 /\ \A x \in DOMAIN w : x[1] \in DOMAIN ScopeWeight /\ w[x] \in Int

Pulled(weights, x) == ScopeWeight[x[1]] * weights[x]
Pushed(u, model, weights, x) == u[x] * (MatchedWeight(model, x) + EffectiveWeight(weights, x))
Alike(u, history, similarity, x) == similarity[x] * Cosine(u, Chosen(history[x]))

LEMMA PulledInAll ==
  ASSUME NEW weights, NEW S
  PROVE  Total(LAMBDA x : Pulled(weights, x), S) = SumOf([x \in S |-> Pulled(weights, x)], S)
<1>. DEFINE w == [x \in S |-> Pulled(weights, x)]
            body(t) == [s \in SUBSET S |-> IF s = {} THEN 0 ELSE Pulled(weights, First(s)) + t[s \ {First(s)}]]
            bodyOf(t) == [s \in SUBSET S |-> IF s = {} THEN 0 ELSE w[First(s)] + t[s \ {First(s)}]]
<1>1. Total(LAMBDA x : Pulled(weights, x), S) = (CHOOSE t : t = body(t))[S]
  BY DEF Total, MapThenSumSet, MapThenFoldSet, First
<1>2. SumOf(w, S) = (CHOOSE t : t = bodyOf(t))[S]
  BY SumOfSums DEF Sums, SumsUp
<1>3. \A t : body(t) = bodyOf(t)
  BY FirstIsOne
<1>. HIDE DEF body, bodyOf
<1>4. (CHOOSE t : t = body(t)) = (CHOOSE t : t = bodyOf(t))
  BY <1>3
<1>. QED  BY <1>1, <1>2, <1>4

LEMMA EffectOf ==
  ASSUME NEW weights, AreWeights(weights), NEW k
  PROVE  LET own == {x \in DOMAIN weights : x[2] = k}
             e == EffectiveWeight(weights, k)
         IN  /\ e \in Int
             /\ (\A x \in own : weights[x] >= 0) => e >= 0
             /\ (\A x \in own : weights[x] <= 0) => e <= 0
<1>. DEFINE S == {x \in DOMAIN weights : x[2] = k}
            w == [x \in S |-> Pulled(weights, x)]
            total == Total(LAMBDA x : Pulled(weights, x), S)
<1>1. EffectiveWeight(weights, k) = total
  BY DEF EffectiveWeight, Pulled
<1>2. total = SumOf(w, S)
  BY PulledInAll
<1>. HIDE DEF total
<1>3. \A x \in S : /\ Pulled(weights, x) \in Int
                   /\ weights[x] >= 0 => Pulled(weights, x) >= 0
                   /\ weights[x] <= 0 => Pulled(weights, x) <= 0
  <2>1. \A s \in DOMAIN ScopeWeight : ScopeWeight[s] \in {20, 30, 50}
    BY DEF ScopeWeight
  <2>. QED  BY <2>1 DEF Pulled, AreWeights
<1>4. IsFiniteSet(S)
  BY FS_Subset DEF AreWeights
<1>. HIDE DEF S
<1>5. w \in [S -> Int] /\ \A x \in S : w[x] = Pulled(weights, x)
  BY <1>3
<1>. HIDE DEF w
<1>6. SumOf(w, S) \in Int
  BY <1>4, <1>5, SumIsInt
<1>7. (\A x \in S : weights[x] >= 0) => SumOf(w, S) >= 0
  <2>1. (\A x \in S : weights[x] >= 0) => \A x \in S : w[x] >= 0
    BY <1>3, <1>5
  <2>. QED  BY <1>4, <1>5, <2>1, SumsSign
<1>8. (\A x \in S : weights[x] <= 0) => SumOf(w, S) <= 0
  <2>1. (\A x \in S : weights[x] <= 0) => \A x \in S : w[x] <= 0
    BY <1>3, <1>5
  <2>. QED  BY <1>4, <1>5, <2>1, SumsSign
<1>. QED  BY <1>1, <1>2, <1>6, <1>7, <1>8 DEF S

Nothing == [x \in {} |-> 0]

LEMMA FoldOne ==
  ASSUME NEW c
  PROVE  FoldLeft(Update, Nothing, <<c>>) = Update(Nothing, c)
<1>. DEFINE S == {1}
            body(t) == [s \in SUBSET S |-> IF s = {} THEN Nothing
                          ELSE Update(t[s \ {Max(s)}], <<c>>[Max(s)])]
            fold == [s \in SUBSET S |-> IF s = {} THEN Nothing ELSE Update(Nothing, c)]
            iter == CHOOSE t : t = body(t)
            folded == FoldLeft(Update, Nothing, <<c>>)
<1>1. folded = iter[S]
  <2>1. DOMAIN <<c>> = S
    OBVIOUS
  <2>. QED  BY <2>1 DEF FoldLeft, MapThenFoldSet
<1>. HIDE DEF folded
<1>2. /\ {1} \in SUBSET S /\ {} \in SUBSET S /\ Max({1}) = 1 /\ {1} \ {1} = {} /\ {1} # {}
      /\ \A s \in SUBSET S : s # {} => s = {1}
  <2>1. Max({1}) = 1
    <3>1. \E x : x \in {1} /\ \A y \in {1} : x >= y
      OBVIOUS
    <3>2. Max({1}) \in {1}
      BY <3>1 DEF Max
    <3>. QED  BY <3>2
  <2>. QED  BY <2>1
<1>3. fold = body(fold)
  <2>1. ASSUME NEW s \in SUBSET S, s # {}
        PROVE  Update(fold[s \ {Max(s)}], <<c>>[Max(s)]) = Update(Nothing, c)
    <3>1. Max(s) = 1 /\ s \ {Max(s)} = {}
      BY <1>2, <2>1
    <3>2. fold[s \ {Max(s)}] = Nothing /\ <<c>>[Max(s)] = c
      BY <1>2, <3>1
    <3>. HIDE DEF fold
    <3>. QED  BY <3>2
  <2>2. fold = [s \in SUBSET S |-> IF s = {} THEN Nothing ELSE Update(Nothing, c)]
    OBVIOUS
  <2>. HIDE DEF fold
  <2>. QED  BY <2>1, <2>2
<1>4. iter = body(iter)
  <2>. HIDE DEF body, fold
  <2>. QED  BY <1>3
<1>. HIDE DEF iter
<1>5. iter[{}] = Nothing
  BY <1>2, <1>4
<1>6. iter[{1}] = Update(iter[{}], c)
  <2>1. iter[{1}] = Update(iter[{1} \ {Max({1})}], <<c>>[Max({1})])
    <3>. DEFINE one == {1}
    <3>1. one \in SUBSET S /\ one # {}
      BY <1>2
    <3>. HIDE DEF one, S
    <3>2. iter[one] = Update(iter[one \ {Max(one)}], <<c>>[Max(one)])
      BY <1>4, <3>1
    <3>. QED  BY <3>2 DEF one
  <2>2. {1} \ {Max({1})} = {} /\ <<c>>[Max({1})] = c
    BY <1>2
  <2>. QED  BY <2>1, <2>2
<1>7. folded = Update(Nothing, c)
  BY <1>1, <1>5, <1>6
<1>. QED  BY <1>7 DEF folded

LEMMA FlattenOne ==
  ASSUME NEW seq
  PROVE  FlattenSeq(<<seq>>) = seq
<1>. DEFINE body(t) == [i \in 1..1 |-> IF i = 1 THEN <<seq>>[i] ELSE t[i-1] \o <<seq>>[i]]
            flatten == CHOOSE t : t = body(t)
            flat == [i \in 1..1 |-> seq]
<1>1. FlattenSeq(<<seq>>) = flatten[1]
  BY DEF FlattenSeq
<1>2. flat = body(flat)
  OBVIOUS
<1>3. flatten = body(flatten)
  <2>. HIDE DEF body, flat
  <2>. QED  BY <1>2
<1>. HIDE DEF flatten
<1>4. flatten[1] = seq
  BY <1>3
<1>. QED  BY <1>1, <1>4

\* What a scope and a key contribute to the margin of a comparison.
Known(weights, x) == IF <<x[1], x[2]>> \in DOMAIN weights THEN weights[<<x[1], x[2]>>] ELSE 0
Difference(comparison, k) == Feature(comparison.chosen, k) - Feature(comparison.alternative, k)
Stake(weights, comparison, x) ==
  (ScopeWeight[x[1]] * Known(weights, x) * Difference(comparison, x[2])) \div 200
Places(comparison) == comparison.scopes \X (DOMAIN comparison.chosen \cup DOMAIN comparison.alternative)
Margin(weights, comparison) == Total(LAMBDA x : Stake(weights, comparison, x), Places(comparison))
Gradient(weights, comparison, x) ==
  (ScopeWeight[x[1]] * (100 - Logistic(Margin(weights, comparison))) * Difference(comparison, x[2])) \div 200
    - Known(weights, x) \div 100
Moved(comparison) == {x \in Places(comparison) : Difference(comparison, x[2]) # 0}
Stepped(weights, comparison, x) ==
  Clip(-400, 400, Known(weights, x) + (35 * Gradient(weights, comparison, x)) \div 100)

LEMMA StakesInAll ==
  ASSUME NEW weights, NEW comparison, NEW S
  PROVE  Total(LAMBDA x : Stake(weights, comparison, x), S) = SumOf([x \in S |-> Stake(weights, comparison, x)], S)
<1>. DEFINE w == [x \in S |-> Stake(weights, comparison, x)]
            body(t) == [s \in SUBSET S |-> IF s = {} THEN 0
                          ELSE Stake(weights, comparison, First(s)) + t[s \ {First(s)}]]
            bodyOf(t) == [s \in SUBSET S |-> IF s = {} THEN 0 ELSE w[First(s)] + t[s \ {First(s)}]]
<1>1. Total(LAMBDA x : Stake(weights, comparison, x), S) = (CHOOSE t : t = body(t))[S]
  BY DEF Total, MapThenSumSet, MapThenFoldSet, First
<1>2. SumOf(w, S) = (CHOOSE t : t = bodyOf(t))[S]
  BY SumOfSums DEF Sums, SumsUp
<1>3. \A t : body(t) = bodyOf(t)
  BY FirstIsOne
<1>. HIDE DEF body, bodyOf
<1>4. (CHOOSE t : t = body(t)) = (CHOOSE t : t = bodyOf(t))
  BY <1>3
<1>. QED  BY <1>1, <1>2, <1>4

LEMMA UpdateIs ==
  ASSUME NEW weights, NEW comparison
  PROVE  Update(weights, comparison)
           = [x \in DOMAIN weights \cup Moved(comparison) |->
                IF x \in Moved(comparison) THEN Stepped(weights, comparison, x) ELSE weights[x]]
  BY DEF Update, Moved, Stepped, Gradient, Margin, Places, Stake, Known, Difference

LEMMA UpdateIsWeights ==
  ASSUME NEW comparison, comparison.scopes \in SUBSET DOMAIN ScopeWeight,
         AreFeatures(comparison.chosen), AreFeatures(comparison.alternative)
  PROVE  /\ AreWeights(Update(Nothing, comparison))
         /\ \A x \in DOMAIN Update(Nothing, comparison) :
              LET d == Difference(comparison, x[2])
                  w == Update(Nothing, comparison)[x]
              IN  d \in Int /\ (d >= 0 => w >= 0) /\ (d <= 0 => w <= 0)
<1>. DEFINE A == DOMAIN ScopeWeight
            keys == DOMAIN comparison.chosen \cup DOMAIN comparison.alternative
            P == Places(comparison)
            M == Moved(comparison)
<1>1. A = {"global", "domain", "context"} /\ P = comparison.scopes \X keys
  BY DEF Places, ScopeWeight
<1>2. IsFiniteSet(P) /\ \A x \in P : x[1] \in A
  <2>1. IsFiniteSet(A)
    <3>1. IsFiniteSet({"global"} \cup ({"domain"} \cup {"context"}))
      BY FS_Singleton, FS_Union
    <3>2. A = {"global"} \cup ({"domain"} \cup {"context"})
      BY <1>1
    <3>. HIDE DEF A
    <3>. QED  BY <3>1, <3>2
  <2>2. IsFiniteSet(keys)
    BY FS_Union DEF AreFeatures
  <2>. HIDE DEF A, keys, P
  <2>3. IsFiniteSet(comparison.scopes)
    BY <2>1, FS_Subset DEF A
  <2>4. \A x \in P : x[1] \in A
    BY <1>1 DEF A
  <2>. QED  BY <1>1, <2>2, <2>3, <2>4, FS_Product
<1>3. \A x \in P : /\ ScopeWeight[x[1]] \in {20, 30, 50} /\ Difference(comparison, x[2]) \in Int
                   /\ Known(Nothing, x) = 0
  <2>1. \A s \in A : ScopeWeight[s] \in {20, 30, 50}
    BY DEF ScopeWeight
  <2>2. \A k : Difference(comparison, k) \in Int
    <3>1. \A k : Feature(comparison.chosen, k) \in Int /\ Feature(comparison.alternative, k) \in Int
      BY FeatureIsInt
    <3>. QED  BY <3>1 DEF Difference
  <2>3. \A x : Known(Nothing, x) = 0
    BY DEF Known, Nothing
  <2>. HIDE DEF A, P
  <2>. QED  BY <1>2, <2>1, <2>2, <2>3
<1>4. Margin(Nothing, comparison) = 0
  <2>. DEFINE w == [x \in P |-> Stake(Nothing, comparison, x)]
  <2>1. \A x \in P : Stake(Nothing, comparison, x) = 0
    BY <1>3 DEF Stake
  <2>2. w \in [P -> Int] /\ \A x \in P : w[x] = 0
    BY <2>1
  <2>3. Margin(Nothing, comparison) = SumOf(w, P)
    BY StakesInAll DEF Margin
  <2>. HIDE DEF w, P
  <2>4. \A x \in P : w[x] >= 0 /\ w[x] <= 0
    BY <2>2
  <2>5. SumOf(w, P) \in Int /\ SumOf(w, P) >= 0 /\ SumOf(w, P) <= 0
    BY <1>2, <2>2, <2>4, SumIsInt, SumsSign
  <2>. QED  BY <2>3, <2>5
<1>5. M \in SUBSET P
  BY DEF Moved
<1>6. ASSUME NEW x \in M
      PROVE  LET d == Difference(comparison, x[2])
                 w == Stepped(Nothing, comparison, x)
             IN  d \in Int /\ w \in Int /\ (d >= 0 => w >= 0) /\ (d <= 0 => w <= 0)
  <2>. DEFINE d == Difference(comparison, x[2])
              s == ScopeWeight[x[1]]
              gradient == Gradient(Nothing, comparison, x)
  <2>1. s \in {20, 30, 50} /\ d \in Int /\ Known(Nothing, x) = 0
    BY <1>3, <1>5
  <2>2. Logistic(Margin(Nothing, comparison)) = 50
    BY <1>4 DEF Logistic, Clip
  <2>3. gradient = (s * (100 - 50) * d) \div 200 - 0 \div 100
    BY <2>1, <2>2 DEF Gradient
  <2>. HIDE DEF d, s, gradient
  <2>4. gradient \in Int /\ (d >= 0 => gradient >= 0) /\ (d <= 0 => gradient <= 0)
    BY <2>1, <2>3
  <2>5. Stepped(Nothing, comparison, x) = Clip(-400, 400, 0 + (35 * gradient) \div 100)
    BY <2>1 DEF Stepped, gradient
  <2>6. LET w == Stepped(Nothing, comparison, x)
        IN  w \in Int /\ (d >= 0 => w >= 0) /\ (d <= 0 => w <= 0)
    BY <2>1, <2>4, <2>5 DEF Clip
  <2>. QED  BY <2>1, <2>6 DEF d
<1>7. Update(Nothing, comparison) = [x \in M |-> Stepped(Nothing, comparison, x)]
  BY UpdateIs DEF Nothing
<1>8. IsFiniteSet(M) /\ \A x \in M : x[1] \in A
  <2>. HIDE DEF A, M, P
  <2>. QED  BY <1>2, <1>5, FS_Subset
<1>. HIDE DEF M
<1>. QED  BY <1>6, <1>7, <1>8 DEF AreWeights

\* What one past decision teaches.
Comparison(past) == 
  [chosen |-> Chosen(past), scopes |-> Scopes(past), alternative |-> past.options[3 - past.chosen]]

LEMMA FitOfOne ==
  ASSUME NEW past, DOMAIN past.options = {1, 2}, past.chosen \in {1, 2}
  PROVE  Fit(<<past>>) = Update(Nothing, Comparison(past))
<1>. DEFINE pairs(p) ==
              [i \in 1..Cardinality(Alternatives(p)) |->
                 [chosen |-> Chosen(p), scopes |-> Scopes(p),
                  alternative |-> p.options[SetToSeq(Alternatives(p))[i]]]]
<1>. DEFINE other == 3 - past.chosen
<1>1. Alternatives(past) = {other}
  BY DEF Alternatives
<1>. HIDE DEF other
<1>2. Cardinality({other}) = 1
  BY FS_Singleton
<1>3. SetToSeq({other})[1] = other
  <2>. DEFINE f == [i \in 1..1 |-> other]
  <2>1. f \in [1..Cardinality({other}) -> {other}] /\ IsInjective(f)
    BY <1>2 DEF IsInjective
  <2>2. SetToSeq({other}) \in [1..Cardinality({other}) -> {other}]
    BY <2>1 DEF SetToSeq
  <2>. QED  BY <1>2, <2>2
<1>4. pairs(past) = <<Comparison(past)>>
  <2>1. pairs(past) = [i \in 1..1 |-> [chosen |-> Chosen(past), scopes |-> Scopes(past),
                                       alternative |-> past.options[SetToSeq({other})[i]]]]
    BY <1>1, <1>2
  <2>2. \A i \in 1..1 : SetToSeq({other})[i] = other
    BY <1>3
  <2>3. pairs(past) = [i \in 1..1 |-> Comparison(past)]
    BY <1>1, <2>1, <2>2 DEF Comparison, other
  <2>. QED  BY <2>3
<1>5. Fit(<<past>>) = FoldLeft(Update, Nothing, FlattenSeq([i \in DOMAIN <<past>> |-> pairs(<<past>>[i])]))
  BY DEF Fit, Nothing
<1>. HIDE DEF pairs
<1>6. [i \in DOMAIN <<past>> |-> pairs(<<past>>[i])] = <<pairs(past)>>
  OBVIOUS
<1>. QED  BY <1>4, <1>5, <1>6, FlattenOne, FoldOne

LEMMA ScopesAre ==
  ASSUME NEW past
  PROVE  Scopes(past) \in SUBSET DOMAIN ScopeWeight
  BY DEF Scopes, ScopeWeight

\* phase-5-report, P5-04: what is learned of one choice never speaks against it, for
\* any keys and values of the two options: the weight of a key has the sign of what
\* the chosen option has over the other, or is 0.
THEOREM LearnsTheChoice ==
  ASSUME NEW past, DOMAIN past.options = {1, 2}, past.chosen \in {1, 2},
         AreFeatures(past.options[1]), AreFeatures(past.options[2]), NEW k
  PROVE  LET d == Feature(Chosen(past), k) - Feature(past.options[3 - past.chosen], k)
             w == EffectiveWeight(Fit(<<past>>), k)
         IN  d \in Int /\ w \in Int /\ (d >= 0 => w >= 0) /\ (d <= 0 => w <= 0)
<1>. DEFINE c == Comparison(past)
            weights == Update(Nothing, c)
<1>1. Fit(<<past>>) = weights
  BY FitOfOne
<1>2. /\ c.scopes \in SUBSET DOMAIN ScopeWeight
      /\ c.chosen = Chosen(past) /\ c.alternative = past.options[3 - past.chosen]
  BY ScopesAre DEF Comparison
<1>3. AreFeatures(c.chosen) /\ AreFeatures(c.alternative)
  BY <1>2 DEF Chosen
<1>. HIDE DEF c
<1>4. /\ AreWeights(weights)
      /\ \A x \in DOMAIN weights :
           LET d == Difference(c, x[2])
           IN  d \in Int /\ (d >= 0 => weights[x] >= 0) /\ (d <= 0 => weights[x] <= 0)
  BY <1>2, <1>3, UpdateIsWeights
<1>. HIDE DEF weights
<1>5. Difference(c, k) \in Int /\ Difference(c, k) = Feature(c.chosen, k) - Feature(c.alternative, k)
  BY <1>3, FeatureIsInt DEF Difference
<1>6. LET w == EffectiveWeight(weights, k)
      IN  /\ w \in Int
          /\ Difference(c, k) >= 0 => w >= 0
          /\ Difference(c, k) <= 0 => w <= 0
  BY <1>4, EffectOf
<1>. QED  BY <1>1, <1>2, <1>5, <1>6

\* What an observation says, and how far it is from the mean.
Told(e) == 50 * e.value * e.weight
Off(value, e) == e.weight * Size(50 * e.value - value)
ValueIn(model, key, s) == ScopeWeight[s] * model[<<key, s>>].value
TrustIn(model, key, s) == ScopeWeight[s] * model[<<key, s>>].confidence

LEMMA FeaturesInAll ==
  ASSUME NEW options, NEW n, NEW S
  PROVE  Total(LAMBDA x : Feature(options[x], n), S) = SumOf([x \in S |-> Feature(options[x], n)], S)
<1>. DEFINE w == [x \in S |-> Feature(options[x], n)]
            body(t) == [s \in SUBSET S |-> IF s = {} THEN 0 ELSE Feature(options[First(s)], n) + t[s \ {First(s)}]]
            bodyOf(t) == [s \in SUBSET S |-> IF s = {} THEN 0 ELSE w[First(s)] + t[s \ {First(s)}]]
<1>1. Total(LAMBDA x : Feature(options[x], n), S) = (CHOOSE t : t = body(t))[S]
  BY DEF Total, MapThenSumSet, MapThenFoldSet, First
<1>2. SumOf(w, S) = (CHOOSE t : t = bodyOf(t))[S]
  BY SumOfSums DEF Sums, SumsUp
<1>3. \A t : body(t) = bodyOf(t)
  BY FirstIsOne
<1>. HIDE DEF body, bodyOf
<1>4. (CHOOSE t : t = body(t)) = (CHOOSE t : t = bodyOf(t))
  BY <1>3
<1>. QED  BY <1>1, <1>2, <1>4

LEMMA FeaturesOfOne ==
  ASSUME NEW options, NEW n, NEW y, Feature(options[y], n) \in Int
  PROVE  Total(LAMBDA x : Feature(options[x], n), {y}) = Feature(options[y], n)
<1>. DEFINE w == [x \in {y} |-> Feature(options[x], n)]
<1>1. Total(LAMBDA x : Feature(options[x], n), {y}) = SumOf(w, {y})
  BY FeaturesInAll
<1>2. w[y] = Feature(options[y], n)
  OBVIOUS
<1>. HIDE DEF w
<1>. QED  BY <1>1, <1>2, SumOfOne

LEMMA ObservedInAll ==
  ASSUME NEW S
  PROVE  Total(LAMBDA x : x.weight, S) = SumOf([x \in S |-> x.weight], S)
<1>. DEFINE w == [x \in S |-> x.weight]
            body(t) == [s \in SUBSET S |-> IF s = {} THEN 0 ELSE First(s).weight + t[s \ {First(s)}]]
            bodyOf(t) == [s \in SUBSET S |-> IF s = {} THEN 0 ELSE w[First(s)] + t[s \ {First(s)}]]
<1>1. Total(LAMBDA x : x.weight, S) = (CHOOSE t : t = body(t))[S]
  BY DEF Total, MapThenSumSet, MapThenFoldSet, First
<1>2. SumOf(w, S) = (CHOOSE t : t = bodyOf(t))[S]
  BY SumOfSums DEF Sums, SumsUp
<1>3. \A t : body(t) = bodyOf(t)
  BY FirstIsOne
<1>. HIDE DEF body, bodyOf
<1>4. (CHOOSE t : t = body(t)) = (CHOOSE t : t = bodyOf(t))
  BY <1>3
<1>. QED  BY <1>1, <1>2, <1>4

LEMMA ObservedOfOne ==
  ASSUME NEW y, y.weight \in Int
  PROVE  Total(LAMBDA x : x.weight, {y}) = y.weight
<1>. DEFINE w == [x \in {y} |-> x.weight]
<1>1. Total(LAMBDA x : x.weight, {y}) = SumOf(w, {y})
  BY ObservedInAll
<1>2. w[y] = y.weight
  OBVIOUS
<1>. HIDE DEF w
<1>. QED  BY <1>1, <1>2, SumOfOne

LEMMA ToldInAll ==
  ASSUME NEW S
  PROVE  Total(LAMBDA x : Told(x), S) = SumOf([x \in S |-> Told(x)], S)
<1>. DEFINE w == [x \in S |-> Told(x)]
            body(t) == [s \in SUBSET S |-> IF s = {} THEN 0 ELSE Told(First(s)) + t[s \ {First(s)}]]
            bodyOf(t) == [s \in SUBSET S |-> IF s = {} THEN 0 ELSE w[First(s)] + t[s \ {First(s)}]]
<1>1. Total(LAMBDA x : Told(x), S) = (CHOOSE t : t = body(t))[S]
  BY DEF Total, MapThenSumSet, MapThenFoldSet, First
<1>2. SumOf(w, S) = (CHOOSE t : t = bodyOf(t))[S]
  BY SumOfSums DEF Sums, SumsUp
<1>3. \A t : body(t) = bodyOf(t)
  BY FirstIsOne
<1>. HIDE DEF body, bodyOf
<1>4. (CHOOSE t : t = body(t)) = (CHOOSE t : t = bodyOf(t))
  BY <1>3
<1>. QED  BY <1>1, <1>2, <1>4

LEMMA ToldOfOne ==
  ASSUME NEW y, Told(y) \in Int
  PROVE  Total(LAMBDA x : Told(x), {y}) = Told(y)
<1>. DEFINE w == [x \in {y} |-> Told(x)]
<1>1. Total(LAMBDA x : Told(x), {y}) = SumOf(w, {y})
  BY ToldInAll
<1>2. w[y] = Told(y)
  OBVIOUS
<1>. HIDE DEF w
<1>. QED  BY <1>1, <1>2, SumOfOne

LEMMA OffsInAll ==
  ASSUME NEW value, NEW S
  PROVE  Total(LAMBDA x : Off(value, x), S) = SumOf([x \in S |-> Off(value, x)], S)
<1>. DEFINE w == [x \in S |-> Off(value, x)]
            body(t) == [s \in SUBSET S |-> IF s = {} THEN 0 ELSE Off(value, First(s)) + t[s \ {First(s)}]]
            bodyOf(t) == [s \in SUBSET S |-> IF s = {} THEN 0 ELSE w[First(s)] + t[s \ {First(s)}]]
<1>1. Total(LAMBDA x : Off(value, x), S) = (CHOOSE t : t = body(t))[S]
  BY DEF Total, MapThenSumSet, MapThenFoldSet, First
<1>2. SumOf(w, S) = (CHOOSE t : t = bodyOf(t))[S]
  BY SumOfSums DEF Sums, SumsUp
<1>3. \A t : body(t) = bodyOf(t)
  BY FirstIsOne
<1>. HIDE DEF body, bodyOf
<1>4. (CHOOSE t : t = body(t)) = (CHOOSE t : t = bodyOf(t))
  BY <1>3
<1>. QED  BY <1>1, <1>2, <1>4

LEMMA OffsOfOne ==
  ASSUME NEW value, NEW y, Off(value, y) \in Int
  PROVE  Total(LAMBDA x : Off(value, x), {y}) = Off(value, y)
<1>. DEFINE w == [x \in {y} |-> Off(value, x)]
<1>1. Total(LAMBDA x : Off(value, x), {y}) = SumOf(w, {y})
  BY OffsInAll
<1>2. w[y] = Off(value, y)
  OBVIOUS
<1>. HIDE DEF w
<1>. QED  BY <1>1, <1>2, SumOfOne

LEMMA ScopeWeightsInAll ==
  ASSUME NEW S
  PROVE  Total(LAMBDA x : ScopeWeight[x], S) = SumOf([x \in S |-> ScopeWeight[x]], S)
<1>. DEFINE w == [x \in S |-> ScopeWeight[x]]
            body(t) == [s \in SUBSET S |-> IF s = {} THEN 0 ELSE ScopeWeight[First(s)] + t[s \ {First(s)}]]
            bodyOf(t) == [s \in SUBSET S |-> IF s = {} THEN 0 ELSE w[First(s)] + t[s \ {First(s)}]]
<1>1. Total(LAMBDA x : ScopeWeight[x], S) = (CHOOSE t : t = body(t))[S]
  BY DEF Total, MapThenSumSet, MapThenFoldSet, First
<1>2. SumOf(w, S) = (CHOOSE t : t = bodyOf(t))[S]
  BY SumOfSums DEF Sums, SumsUp
<1>3. \A t : body(t) = bodyOf(t)
  BY FirstIsOne
<1>. HIDE DEF body, bodyOf
<1>4. (CHOOSE t : t = body(t)) = (CHOOSE t : t = bodyOf(t))
  BY <1>3
<1>. QED  BY <1>1, <1>2, <1>4

LEMMA ScopeWeightsOfOne ==
  ASSUME NEW y, ScopeWeight[y] \in Int
  PROVE  Total(LAMBDA x : ScopeWeight[x], {y}) = ScopeWeight[y]
<1>. DEFINE w == [x \in {y} |-> ScopeWeight[x]]
<1>1. Total(LAMBDA x : ScopeWeight[x], {y}) = SumOf(w, {y})
  BY ScopeWeightsInAll
<1>2. w[y] = ScopeWeight[y]
  OBVIOUS
<1>. HIDE DEF w
<1>. QED  BY <1>1, <1>2, SumOfOne

LEMMA ValueInAll ==
  ASSUME NEW model, NEW key, NEW S
  PROVE  Total(LAMBDA x : ValueIn(model, key, x), S) = SumOf([x \in S |-> ValueIn(model, key, x)], S)
<1>. DEFINE w == [x \in S |-> ValueIn(model, key, x)]
            body(t) == [s \in SUBSET S |-> IF s = {} THEN 0 ELSE ValueIn(model, key, First(s)) + t[s \ {First(s)}]]
            bodyOf(t) == [s \in SUBSET S |-> IF s = {} THEN 0 ELSE w[First(s)] + t[s \ {First(s)}]]
<1>1. Total(LAMBDA x : ValueIn(model, key, x), S) = (CHOOSE t : t = body(t))[S]
  BY DEF Total, MapThenSumSet, MapThenFoldSet, First
<1>2. SumOf(w, S) = (CHOOSE t : t = bodyOf(t))[S]
  BY SumOfSums DEF Sums, SumsUp
<1>3. \A t : body(t) = bodyOf(t)
  BY FirstIsOne
<1>. HIDE DEF body, bodyOf
<1>4. (CHOOSE t : t = body(t)) = (CHOOSE t : t = bodyOf(t))
  BY <1>3
<1>. QED  BY <1>1, <1>2, <1>4

LEMMA ValueInOfOne ==
  ASSUME NEW model, NEW key, NEW y, ValueIn(model, key, y) \in Int
  PROVE  Total(LAMBDA x : ValueIn(model, key, x), {y}) = ValueIn(model, key, y)
<1>. DEFINE w == [x \in {y} |-> ValueIn(model, key, x)]
<1>1. Total(LAMBDA x : ValueIn(model, key, x), {y}) = SumOf(w, {y})
  BY ValueInAll
<1>2. w[y] = ValueIn(model, key, y)
  OBVIOUS
<1>. HIDE DEF w
<1>. QED  BY <1>1, <1>2, SumOfOne

LEMMA TrustInAll ==
  ASSUME NEW model, NEW key, NEW S
  PROVE  Total(LAMBDA x : TrustIn(model, key, x), S) = SumOf([x \in S |-> TrustIn(model, key, x)], S)
<1>. DEFINE w == [x \in S |-> TrustIn(model, key, x)]
            body(t) == [s \in SUBSET S |-> IF s = {} THEN 0 ELSE TrustIn(model, key, First(s)) + t[s \ {First(s)}]]
            bodyOf(t) == [s \in SUBSET S |-> IF s = {} THEN 0 ELSE w[First(s)] + t[s \ {First(s)}]]
<1>1. Total(LAMBDA x : TrustIn(model, key, x), S) = (CHOOSE t : t = body(t))[S]
  BY DEF Total, MapThenSumSet, MapThenFoldSet, First
<1>2. SumOf(w, S) = (CHOOSE t : t = bodyOf(t))[S]
  BY SumOfSums DEF Sums, SumsUp
<1>3. \A t : body(t) = bodyOf(t)
  BY FirstIsOne
<1>. HIDE DEF body, bodyOf
<1>4. (CHOOSE t : t = body(t)) = (CHOOSE t : t = bodyOf(t))
  BY <1>3
<1>. QED  BY <1>1, <1>2, <1>4

LEMMA TrustInOfOne ==
  ASSUME NEW model, NEW key, NEW y, TrustIn(model, key, y) \in Int
  PROVE  Total(LAMBDA x : TrustIn(model, key, x), {y}) = TrustIn(model, key, y)
<1>. DEFINE w == [x \in {y} |-> TrustIn(model, key, x)]
<1>1. Total(LAMBDA x : TrustIn(model, key, x), {y}) = SumOf(w, {y})
  BY TrustInAll
<1>2. w[y] = TrustIn(model, key, y)
  OBVIOUS
<1>. HIDE DEF w
<1>. QED  BY <1>1, <1>2, SumOfOne

LEMMA OnePreference ==
  ASSUME NEW e, e.weight = 81, e.value \in -2..2
  PROVE  AggregatePreference({e}) = [value |-> 50 * e.value, confidence |-> 44]
<1>. DEFINE total == Total(LAMBDA x : x.weight, {e})
            said == Total(LAMBDA x : Told(x), {e})
            value == said \div total
            off == Total(LAMBDA x : Off(value, x), {e})
            agreement == 100 - off \div (2 * total)
<1>1. AggregatePreference({e}) = [value |-> value, confidence |-> (total * agreement) \div (total + 100)]
  BY DEF AggregatePreference, Told, Off
<1>2. total = 81
  BY ObservedOfOne
<1>3. Told(e) \in Int /\ Told(e) = 81 * (50 * e.value)
  BY DEF Told
<1>4. said = 81 * (50 * e.value)
  BY <1>3, ToldOfOne
<1>. HIDE DEF total, said
<1>5. value = 50 * e.value
  BY <1>2, <1>4
<1>. HIDE DEF value
<1>6. Off(value, e) = 0
  BY <1>5 DEF Off, Size
<1>7. off = 0
  <2>1. Total(LAMBDA x : Off(value, x), {e}) = Off(value, e)
    <3>1. Off(value, e) \in Int
      BY <1>6
    <3>. QED  BY <3>1, OffsOfOne
  <2>. QED  BY <1>6, <2>1
<1>. HIDE DEF off
<1>8. (total * agreement) \div (total + 100) = 44
  BY <1>2, <1>7
<1>. HIDE DEF agreement
<1>. QED  BY <1>1, <1>5, <1>8

LEMMA MatchedInDomain ==
  ASSUME NEW model, NEW key, NEW v \in Int, NEW c \in Int,
         {s \in DOMAIN ScopeWeight : <<key, s>> \in DOMAIN model} = {"domain"},
         model[<<key, "domain">>] = [value |-> v, confidence |-> c]
  PROVE  MatchedWeight(model, key) = v * c
<1>. DEFINE scopes == {s \in DOMAIN ScopeWeight : <<key, s>> \in DOMAIN model}
            value == Total(LAMBDA s : ValueIn(model, key, s), scopes)
            trust == Total(LAMBDA s : TrustIn(model, key, s), scopes)
            weight == Total(LAMBDA s : ScopeWeight[s], scopes)
<1>1. MatchedWeight(model, key) = IF scopes = {} THEN 0 ELSE (value \div weight) * (trust \div weight)
  BY DEF MatchedWeight, ValueIn, TrustIn
<1>2. /\ ScopeWeight["domain"] = 30 /\ ValueIn(model, key, "domain") = 30 * v
      /\ TrustIn(model, key, "domain") = 30 * c
  BY DEF ScopeWeight, ValueIn, TrustIn
<1>3. scopes = {"domain"}
  OBVIOUS
<1>. HIDE DEF scopes
<1>4. value = 30 * v
  <2>1. ValueIn(model, key, "domain") \in Int
    BY <1>2
  <2>2. Total(LAMBDA s : ValueIn(model, key, s), {"domain"}) = ValueIn(model, key, "domain")
    BY <2>1, ValueInOfOne
  <2>. QED  BY <1>2, <1>3, <2>2
<1>5. trust = 30 * c
  <2>1. TrustIn(model, key, "domain") \in Int
    BY <1>2
  <2>2. Total(LAMBDA s : TrustIn(model, key, s), {"domain"}) = TrustIn(model, key, "domain")
    BY <2>1, TrustInOfOne
  <2>. QED  BY <1>2, <1>3, <2>2
<1>6. weight = 30
  <2>1. ScopeWeight["domain"] \in Int
    BY <1>2
  <2>2. Total(LAMBDA s : ScopeWeight[s], {"domain"}) = ScopeWeight["domain"]
    BY <2>1, ScopeWeightsOfOne
  <2>. QED  BY <1>2, <1>3, <2>2
<1>. HIDE DEF value, trust, weight
<1>7. (30 * v) \div 30 = v /\ (30 * c) \div 30 = c
  OBVIOUS
<1>. QED  BY <1>1, <1>3, <1>4, <1>5, <1>6, <1>7

\* What a choice between two options says of a name.
Over(past, n) ==
  Clip(-2, 2, Feature(Chosen(past), n)
         - Total(LAMBDA i : Feature(past.options[i], n), Alternatives(past)) \div Cardinality(Alternatives(past)))
Names(past) == UNION {DOMAIN past.options[i] : i \in DOMAIN past.options}
Telling(past) == {n \in Names(past) : Over(past, n) # 0}
Where(past) == IF past.here THEN "domain" ELSE "elsewhere"

LEMMA EvidenceOfChoice ==
  ASSUME NEW past
  PROVE  ResolutionEvidence(past) = {Observation(n, Over(past, n), 81, Where(past), n) : n \in Telling(past)}
  BY DEF ResolutionEvidence, Over, Names, Telling, Where

LEMMA OverIs ==
  ASSUME NEW past, DOMAIN past.options = {1, 2}, past.chosen \in {1, 2},
         AreFeatures(past.options[1]), AreFeatures(past.options[2]), NEW n
  PROVE  LET d == Feature(Chosen(past), n) - Feature(past.options[3 - past.chosen], n)
         IN  d \in Int /\ Over(past, n) = Clip(-2, 2, d)
<1>. DEFINE other == 3 - past.chosen
            total == Total(LAMBDA i : Feature(past.options[i], n), Alternatives(past))
<1>1. Alternatives(past) = {other} /\ other \in {1, 2}
  BY DEF Alternatives
<1>2. Feature(past.options[other], n) \in Int /\ Feature(Chosen(past), n) \in Int
  BY <1>1, FeatureIsInt DEF Chosen
<1>. HIDE DEF other
<1>3. total = Feature(past.options[other], n)
  BY <1>1, <1>2, FeaturesOfOne
<1>4. Cardinality(Alternatives(past)) = 1
  BY <1>1, FS_Singleton
<1>5. Over(past, n) = Clip(-2, 2, Feature(Chosen(past), n) - total \div Cardinality(Alternatives(past)))
  BY DEF Over
<1>. HIDE DEF total
<1>6. Over(past, n) = Clip(-2, 2, Feature(Chosen(past), n) - Feature(past.options[other], n))
  BY <1>2, <1>3, <1>4, <1>5
<1>. QED  BY <1>2, <1>6 DEF other

\* What a choice tells of a name, retold of its key.
Retold(past, n) ==
  Observation(AliasOf(n).key, AliasOf(n).polarity * Over(past, n), 81, Where(past), n)

\* phase-5-report, P5-04: nor does the evidence of a choice speak against it, for
\* any names and values, as long as no two of the names are aliases of one key.
THEOREM EvidenceFavoursTheChoice ==
  ASSUME NEW past, DOMAIN past.options = {1, 2}, past.chosen \in {1, 2},
         AreFeatures(past.options[1]), AreFeatures(past.options[2]),
         \A m, n \in Names(past) : AliasOf(m).key = AliasOf(n).key => m = n, NEW k
  PROVE  LET w == MatchedWeight(Aggregate(ResolutionEvidence(past)), k)
         IN  /\ w \in Int
             /\ \A n \in Names(past) :
                  AliasOf(n).key = k =>
                    LET d == AliasOf(n).polarity * (Feature(Chosen(past), n) - Feature(past.options[3 - past.chosen], n))
                    IN  (d >= 0 => w >= 0) /\ (d <= 0 => w <= 0)
<1>. DEFINE C == {Retold(past, n) : n \in Telling(past)}
            model == Aggregate(ResolutionEvidence(past))
            scopes == {s \in DOMAIN ScopeWeight : <<k, s>> \in DOMAIN model}
            w == MatchedWeight(model, k)
            diff(n) == Feature(Chosen(past), n) - Feature(past.options[3 - past.chosen], n)
<1>1. \A n : /\ Retold(past, n).name = AliasOf(n).key /\ Retold(past, n).scope = Where(past)
             /\ Retold(past, n).weight = 81
             /\ Retold(past, n).value = AliasOf(n).polarity * Over(past, n)
  BY DEF Retold, Observation
<1>2. {CanonicalEvidence(e) : e \in ResolutionEvidence(past)} = C
  <2>1. \A n : CanonicalEvidence(Observation(n, Over(past, n), 81, Where(past), n)) = Retold(past, n)
    BY CanonicalOf DEF Retold
  <2>. QED  BY <2>1, EvidenceOfChoice
<1>3. model = [ks \in {<<e.name, e.scope>> : e \in C} |->
                 AggregatePreference({e \in C : <<e.name, e.scope>> = ks})]
  BY <1>2 DEF Aggregate
<1>4. \A n : diff(n) \in Int /\ Over(past, n) = Clip(-2, 2, diff(n))
  BY OverIs
<1>5. \A n : AliasOf(n).polarity \in {1, -1}
  BY DEF AliasOf
<1>. HIDE DEF C, model, diff
<1>6. CASE \E n \in Telling(past) : AliasOf(n).key = k /\ past.here
  <2>1. PICK n \in Telling(past) : AliasOf(n).key = k /\ past.here
    BY <1>6
  <2>. DEFINE e == Retold(past, n)
              v == AliasOf(n).polarity * Over(past, n)
  <2>2. e \in C /\ e.name = k /\ e.scope = "domain" /\ e.weight = 81 /\ e.value = v
    BY <1>1, <2>1 DEF C, Where
  <2>3. {x \in C : <<x.name, x.scope>> = <<k, "domain">>} = {e}
    <3>1. ASSUME NEW x \in C, x.name = k PROVE x = e
      <4>1. PICK m \in Telling(past) : x = Retold(past, m)
        BY DEF C
      <4>2. AliasOf(m).key = k
        BY <1>1, <3>1, <4>1
      <4>. QED  BY <2>1, <4>1, <4>2 DEF Telling
    <3>. HIDE DEF e
    <3>. QED  BY <2>2, <3>1
  <2>4. \A s : <<k, s>> \in DOMAIN model <=> s = "domain"
    <3>1. \A x \in C : x.scope = "domain"
      BY <1>1, <2>1 DEF C, Where
    <3>. HIDE DEF e
    <3>. QED  BY <1>3, <2>2, <3>1
  <2>5. v \in -2..2 /\ v \in Int /\ (AliasOf(n).polarity * diff(n) >= 0 => v >= 0)
        /\ (AliasOf(n).polarity * diff(n) <= 0 => v <= 0)
    <3>1. CASE AliasOf(n).polarity = 1
      BY <1>4, <3>1 DEF Clip
    <3>2. CASE AliasOf(n).polarity = -1
      BY <1>4, <3>2 DEF Clip
    <3>. QED  BY <1>5, <3>1, <3>2
  <2>6. model[<<k, "domain">>] = [value |-> 50 * v, confidence |-> 44]
    <3>1. <<k, "domain">> \in DOMAIN model
      BY <2>4
    <3>2. model[<<k, "domain">>] = AggregatePreference({e})
      <4>. HIDE DEF e
      <4>. QED  BY <1>3, <2>3, <3>1
    <3>. HIDE DEF e, v
    <3>. QED  BY <2>2, <2>5, <3>2, OnePreference
  <2>7. scopes = {"domain"}
    BY <2>4 DEF ScopeWeight
  <2>. HIDE DEF v, e
  <2>8. w = (50 * v) * 44
    BY <2>5, <2>6, <2>7, MatchedInDomain
  <2>9. \A m \in Names(past) : AliasOf(m).key = k => m = n
    BY <2>1 DEF Telling
  <2>. HIDE DEF w
  <2>10. w \in Int /\ (v >= 0 => w >= 0) /\ (v <= 0 => w <= 0)
    BY <2>5, <2>8
  <2>. QED  BY <2>5, <2>9, <2>10 DEF w, model, diff
<1>7. CASE ~\E n \in Telling(past) : AliasOf(n).key = k /\ past.here
  <2>1. scopes = {}
    <3>1. ASSUME NEW s \in DOMAIN ScopeWeight, <<k, s>> \in DOMAIN model PROVE FALSE
      <4>1. PICK x \in C : x.name = k /\ x.scope = s
        BY <1>3, <3>1
      <4>2. PICK n \in Telling(past) : x = Retold(past, n)
        BY DEF C
      <4>3. AliasOf(n).key = k /\ Where(past) = s
        BY <1>1, <4>1, <4>2
      <4>4. s # "elsewhere"
        BY DEF ScopeWeight
      <4>. QED  BY <1>7, <4>3, <4>4 DEF Where
    <3>. QED  BY <3>1
  <2>2. w = 0
    BY <2>1 DEF MatchedWeight
  <2>. QED  BY <2>2 DEF w, model
<1>. QED  BY <1>6, <1>7

LEMMA NamesTold ==
  ASSUME NEW past
  PROVE  ModelKeys(Aggregate(ResolutionEvidence(past))) = {AliasOf(n).key : n \in Telling(past)}
<1>1. Canonicals(ResolutionEvidence(past)) = {Retold(past, n) : n \in Telling(past)}
  <2>1. \A n : CanonicalEvidence(Observation(n, Over(past, n), 81, Where(past), n)) = Retold(past, n)
    BY CanonicalOf DEF Retold
  <2>. QED  BY <2>1, EvidenceOfChoice DEF Canonicals
<1>2. \A n : Retold(past, n).name = AliasOf(n).key
  BY DEF Retold, Observation
<1>. QED  BY <1>1, <1>2, KnownKeys

-----------------------------------------------------------------------------
(* Likeness and utility, of the features that cases have. *)
\* Features of up to two keys, of the values that cases have.
Vector == UNION {[D -> {2, -2}] : D \in {{k, "light"} : k \in Spelling} \cup {{k} : k \in Spelling \cup {"light"}}}

LEMMA VectorKeys ==
  ASSUME NEW v \in Vector
  PROVE  IsFiniteSet(DOMAIN v) /\ DOMAIN v # {} /\ \A k \in DOMAIN v : v[k] \in Int
<1>1. PICK a \in Spelling : DOMAIN v = {a} \/ DOMAIN v = {"light"} \/ DOMAIN v = {a} \cup {"light"}
  BY DEF Vector, Spelling
<1>a. IsFiniteSet({a}) /\ IsFiniteSet({"light"}) /\ IsFiniteSet({a} \cup {"light"})
  BY FS_Singleton, FS_Union
<1>2. \A k \in DOMAIN v : v[k] \in Int
  BY DEF Vector
<1>. QED  BY <1>1, <1>a, <1>2

LEMMA VectorsAreFeatures ==
  ASSUME NEW v \in Vector
  PROVE  AreFeatures(v)
  BY VectorKeys DEF AreFeatures

Products(u, v, S) == Total(LAMBDA k : u[k] * v[k], S)

LEMMA ProductsInAll ==
  ASSUME NEW u, NEW v, NEW S
  PROVE  Products(u, v, S) = SumOf([k \in S |-> u[k] * v[k]], S)
<1>. DEFINE w == [k \in S |-> u[k] * v[k]]
            body(t) == [s \in SUBSET S |-> IF s = {} THEN 0
                          ELSE u[First(s)] * v[First(s)] + t[s \ {First(s)}]]
            bodyOf(t) == [s \in SUBSET S |-> IF s = {} THEN 0 ELSE w[First(s)] + t[s \ {First(s)}]]
<1>1. Products(u, v, S) = (CHOOSE t : t = body(t))[S]
  BY DEF Products, Total, MapThenSumSet, MapThenFoldSet, First
<1>2. SumOf(w, S) = (CHOOSE t : t = bodyOf(t))[S]
  BY SumOfSums DEF Sums, SumsUp
<1>3. \A t : body(t) = bodyOf(t)
  BY FirstIsOne
<1>. HIDE DEF body, bodyOf
<1>4. (CHOOSE t : t = body(t)) = (CHOOSE t : t = bodyOf(t))
  BY <1>3
<1>. QED  BY <1>1, <1>2, <1>4

\* Of two keys, what each has in both.
Both(u, v, k) == IF k \in DOMAIN u \cap DOMAIN v THEN u[k] * v[k] ELSE 0

LEMMA TwoKeys ==
  ASSUME NEW u, NEW v, NEW a, a # "light", DOMAIN u \cap DOMAIN v \subseteq {a, "light"},
         \A k \in DOMAIN u \cap DOMAIN v : u[k] * v[k] \in Int
  PROVE  /\ Products(u, v, DOMAIN u \cap DOMAIN v) = Both(u, v, a) + Both(u, v, "light")
         /\ Both(u, v, a) \in Int /\ Both(u, v, "light") \in Int
<1>. DEFINE S == DOMAIN u \cap DOMAIN v
            w == [k \in S |-> u[k] * v[k]]
<1>1. Products(u, v, S) = SumOf(w, S)
  BY ProductsInAll
<1>2. \A k \in S : w[k] = u[k] * v[k] /\ w[k] \in Int
  OBVIOUS
<1>3. S = {} \/ S = {a} \/ S = {"light"} \/ S = {a, "light"}
  OBVIOUS
<1>4. /\ Both(u, v, a) = IF a \in S THEN w[a] ELSE 0
      /\ Both(u, v, "light") = IF "light" \in S THEN w["light"] ELSE 0
  BY <1>2 DEF Both
<1>. HIDE DEF S, w
<1>5. SumOf(w, S) = Both(u, v, a) + Both(u, v, "light")
  <2>1. CASE S = {}
    BY <1>4, <2>1, SumOfNone
  <2>2. CASE S = {a}
    <3>1. SumOf(w, {a}) = w[a]
      BY <1>2, <2>2, SumOfOne
    <3>. QED  BY <1>2, <1>4, <2>2, <3>1
  <2>3. CASE S = {"light"}
    <3>1. SumOf(w, {"light"}) = w["light"]
      BY <1>2, <2>3, SumOfOne
    <3>. QED  BY <1>2, <1>4, <2>3, <3>1
  <2>4. CASE S = {a, "light"}
    <3>1. SumOf(w, {a, "light"}) = w[a] + w["light"]
      BY <1>2, <2>4, SumOfTwo
    <3>. QED  BY <1>2, <1>4, <2>4, <3>1
  <2>. QED  BY <1>3, <2>1, <2>2, <2>3, <2>4
<1>6. Both(u, v, a) \in Int /\ Both(u, v, "light") \in Int
  BY <1>2, <1>4
<1>. QED  BY <1>1, <1>5, <1>6 DEF S

Dot(u, v) == Products(u, v, DOMAIN u \cap DOMAIN v)

IsRoot(r, n) == r * r <= 10000 * n /\ (r + 1) * (r + 1) > 10000 * n

LEMMA SquaresGrow ==
  ASSUME NEW a \in Nat, NEW b \in Nat, a <= b
  PROVE  a * a <= b * b
<1>1. a * a <= a * b /\ b * a <= b * b
  BY ProductsCompare
<1>. QED  BY <1>1

LEMMA RootIs ==
  ASSUME NEW n \in 0..64, NEW r \in 0..800, IsRoot(r, n)
  PROVE  Root[n] = r
<1>1. \A q \in 0..800 : IsRoot(q, n) => q = r
  <2>. SUFFICES ASSUME NEW q \in 0..800, IsRoot(q, n), q # r PROVE FALSE
    OBVIOUS
  <2>1. q \in Nat /\ r \in Nat /\ q + 1 \in Nat /\ r + 1 \in Nat
    OBVIOUS
  <2>2. CASE q + 1 <= r
    BY <2>1, <2>2, SquaresGrow DEF IsRoot
  <2>3. CASE r + 1 <= q
    BY <2>1, <2>3, SquaresGrow DEF IsRoot
  <2>. QED  BY <2>1, <2>2, <2>3
<1>. DEFINE root(m) == CHOOSE q \in 0..800 : IsRoot(q, m)
<1>2. root(n) = r
  BY <1>1
<1>3. Root = [m \in 0..64 |-> root(m)]
  BY DEF Root, IsRoot
<1>. HIDE DEF root
<1>. QED  BY <1>2, <1>3

LEMMA RootsOf == Root[16] = 400 /\ Root[32] = 565 /\ Root[64] = 800
<1>1. ASSUME NEW n, NEW r, n = 16, r = 400 PROVE Root[n] = r
  <2>1. n \in 0..64 /\ r \in 0..800 /\ IsRoot(r, n)
    BY <1>1 DEF IsRoot
  <2>. QED  BY <2>1, RootIs
<1>2. ASSUME NEW n, NEW r, n = 32, r = 565 PROVE Root[n] = r
  <2>1. n \in 0..64 /\ r \in 0..800 /\ IsRoot(r, n)
    BY <1>2 DEF IsRoot
  <2>. QED  BY <2>1, RootIs
<1>3. ASSUME NEW n, NEW r, n = 64, r = 800 PROVE Root[n] = r
  <2>1. n \in 0..64 /\ r \in 0..800 /\ IsRoot(r, n)
    BY <1>3 DEF IsRoot
  <2>. QED  BY <2>1, RootIs
<1>. QED  BY <1>1, <1>2, <1>3

LEMMA SquareOf == \A v \in Vector : Square(v) \in {4, 8}
<1>. SUFFICES ASSUME NEW v \in Vector PROVE Square(v) \in {4, 8}
  OBVIOUS
<1>1. PICK a \in Spelling : DOMAIN v \subseteq {a, "light"} /\ DOMAIN v # {}
  BY DEF Vector, Spelling
<1>2. \A k \in DOMAIN v : v[k] * v[k] = 4
  <2>1. \A k \in DOMAIN v : v[k] \in {2, -2}
    BY DEF Vector
  <2>. QED  BY <2>1
<1>3. Square(v) = Both(v, v, a) + Both(v, v, "light")
  <2>1. a # "light" /\ DOMAIN v \cap DOMAIN v = DOMAIN v
    BY DEF Spelling
  <2>2. Square(v) = Products(v, v, DOMAIN v \cap DOMAIN v)
    BY <2>1 DEF Square, Products
  <2>. QED  BY <1>1, <1>2, <2>1, <2>2, TwoKeys
<1>. QED  BY <1>1, <1>2, <1>3 DEF Both

\* No vector is as much like v as v itself.
LEMMA DotBound ==
  ASSUME NEW u \in Vector, NEW v \in Vector
  PROVE  /\ Dot(u, v) \in Int /\ Dot(u, v) <= Square(u) /\ Dot(u, v) <= Square(v)
         /\ Dot(v, v) = Square(v)
<1>. DEFINE bounded(x, y, a) == /\ Both(u, v, a) \in Int /\ Both(x, x, a) \in Int
                                /\ Both(u, v, a) <= Both(x, x, a)
<1>1. \A k : /\ k \in DOMAIN u => u[k] \in {2, -2}
             /\ k \in DOMAIN v => v[k] \in {2, -2}
  BY DEF Vector
<1>2. \A k : /\ Both(u, v, k) \in Int /\ Both(u, u, k) \in Int /\ Both(v, v, k) \in Int
             /\ Both(u, v, k) <= Both(u, u, k) /\ Both(u, v, k) <= Both(v, v, k)
  BY <1>1 DEF Both
<1>3. \A x \in {u, v} : Dot(u, v) \in Int /\ Dot(u, v) <= Square(x)
  <2>. SUFFICES ASSUME NEW x \in {u, v} PROVE Dot(u, v) \in Int /\ Dot(u, v) <= Square(x)
    OBVIOUS
  <2>1. PICK a \in Spelling : DOMAIN x \subseteq {a, "light"}
    BY DEF Vector, Spelling
  <2>2. a # "light"
    BY DEF Spelling
  <2>3. \A k \in DOMAIN x : x[k] * x[k] \in Int
    BY <1>1
  <2>4. \A k \in DOMAIN u \cap DOMAIN v : u[k] * v[k] \in Int
    BY <1>1
  <2>5. Dot(x, x) = Both(x, x, a) + Both(x, x, "light") /\ Dot(x, x) = Square(x)
    <3>1. DOMAIN x \cap DOMAIN x = DOMAIN x
      OBVIOUS
    <3>2. Dot(x, x) = Both(x, x, a) + Both(x, x, "light")
      BY <2>1, <2>2, <2>3, <3>1, TwoKeys DEF Dot
    <3>. QED  BY <3>1, <3>2 DEF Dot, Products, Square
  <2>6. Dot(u, v) = Both(u, v, a) + Both(u, v, "light")
    BY <2>1, <2>2, <2>4, TwoKeys DEF Dot
  <2>. QED  BY <1>2, <2>5, <2>6
<1>4. Dot(v, v) = Square(v)
  <2>1. DOMAIN v \cap DOMAIN v = DOMAIN v
    OBVIOUS
  <2>. QED  BY <2>1 DEF Dot, Products, Square
<1>. QED  BY <1>3, <1>4

LEMMA CosineSign ==
  ASSUME NEW u \in Vector, NEW v \in Vector
  PROVE  /\ Cosine(u, v) \in Int /\ Dot(u, v) \in Int
         /\ Dot(u, v) >= 0 => Cosine(u, v) >= 0
         /\ Dot(u, v) <= 0 => Cosine(u, v) <= 0
<1>. DEFINE norms == Square(u) * Square(v)
<1>1. norms \in {16, 32, 64}
  BY SquareOf
<1>2. Cosine(u, v) = OverRoot(Dot(u, v), norms)
  BY DEF Cosine, Dot, Products
<1>. HIDE DEF norms
<1>3. Cosine(u, v) = (Dot(u, v) * Root[norms]) \div norms
  BY <1>1, <1>2 DEF OverRoot
<1>4. Dot(u, v) \in Int
  BY DotBound
<1>5. Root[norms] \in Int /\ Root[norms] >= 0
  BY <1>1, RootsOf
<1>. DEFINE p == Dot(u, v) * Root[norms]
<1>6. p \in Int /\ (Dot(u, v) >= 0 => p >= 0) /\ (Dot(u, v) <= 0 => p <= 0)
  BY <1>4, <1>5
<1>. HIDE DEF p
<1>7. p \div norms \in Int /\ (p >= 0 => p \div norms >= 0) /\ (p <= 0 => p \div norms <= 0)
  BY <1>1, <1>6
<1>. QED  BY <1>3, <1>4, <1>6, <1>7 DEF p

LEMMA CosineBound ==
  ASSUME NEW u \in Vector, NEW v \in Vector
  PROVE  Cosine(u, v) <= 100 /\ Cosine(v, v) = 100
<1>. DEFINE cosine(d, n, m) == IF n * m = 0 THEN 0 ELSE (d * Root[n * m]) \div (n * m)
<1>1. \A x, y : Cosine(x, y) = cosine(Dot(x, y), Square(x), Square(y))
  BY DEF Cosine, OverRoot, Dot, Products
<1>2. \A n, m \in {4, 8} : \A d \in Int : d <= n /\ d <= m => cosine(d, n, m) <= 100
  <2>1. \A d \in Int : /\ d <= 4 => (d * 400) \div 16 <= 100
                       /\ d <= 4 => (d * 565) \div 32 <= 100
                       /\ d <= 8 => (d * 800) \div 64 <= 100
    OBVIOUS
  <2>. QED  BY <2>1, RootsOf
<1>3. \A n \in {4, 8} : cosine(n, n, n) = 100
  BY RootsOf
<1>4. /\ Square(u) \in {4, 8} /\ Square(v) \in {4, 8}
      /\ Dot(u, v) \in Int /\ Dot(u, v) <= Square(u) /\ Dot(u, v) <= Square(v)
      /\ Dot(v, v) = Square(v)
  BY SquareOf, DotBound
<1>. HIDE DEF cosine
<1>. QED  BY <1>1, <1>2, <1>3, <1>4

LEMMA FeaturesAre ==
  ASSUME NEW f \in Features
  PROVE  /\ f \in Vector /\ f \in Option
         /\ DOMAIN f \in SUBSET {"quiet", "light"} /\ f = [k \in DOMAIN f |-> f[k]]
         /\ \A k \in DOMAIN f : f[k] \in {2, -2}
         /\ "light" \in DOMAIN f => f["light"] = 2 /\ ("quiet" \in DOMAIN f => f["quiet"] = 2)
<1>1. CASE f \in [{"quiet"} -> {2, -2}]
  BY <1>1 DEF Vector, Option, Spelling
<1>2. CASE f = [k \in {"quiet", "light"} |-> 2]
  BY <1>2 DEF Vector, Option, Spelling
<1>3. CASE f = [k \in {"light"} |-> 2]
  BY <1>3 DEF Vector, Option, Spelling
<1>. QED  BY <1>1, <1>2, <1>3 DEF Features

LEMMA SpelledAre ==
  ASSUME NEW f \in Features, NEW way \in Spelling
  PROVE  /\ Spelled(f, way) \in Vector
         /\ DOMAIN Spelled(f, way) = {IF k = "quiet" THEN way ELSE k : k \in DOMAIN f}
         /\ "quiet" \in DOMAIN f => /\ way \in DOMAIN Spelled(f, way)
                                   /\ Spelled(f, way)[way] = AliasOf(way).polarity * f["quiet"]
         /\ way \in DOMAIN Spelled(f, way) => "quiet" \in DOMAIN f
         /\ "light" \in DOMAIN f <=> "light" \in DOMAIN Spelled(f, way)
         /\ "light" \in DOMAIN f => Spelled(f, way)["light"] = f["light"]
<1>. DEFINE D == {IF k = "quiet" THEN way ELSE k : k \in DOMAIN f}
            g == Spelled(f, way)
<1>1. /\ g = [n \in D |-> IF n = "light" THEN f[n] ELSE AliasOf(way).polarity * f["quiet"]]
      /\ way # "light"
  BY DEF Spelled, Spelling
<1>2. AliasOf(way).polarity \in {1, -1}
  BY DEF AliasOf
<1>3. DOMAIN f \in {{"quiet"}, {"light"}, {"quiet", "light"}}
  BY DEF Features
<1>4. D = {way} \/ D = {"light"} \/ D = {way, "light"}
  BY <1>3
<1>5. \A n \in D : (IF n = "light" THEN f[n] ELSE AliasOf(way).polarity * f["quiet"]) \in {2, -2}
  <2>1. "light" \in D => f["light"] = 2
    BY <1>1, FeaturesAre
  <2>2. ASSUME NEW n \in D, n # "light" PROVE f["quiet"] \in {2, -2}
    BY <2>2, FeaturesAre
  <2>. QED  BY <1>2, <2>1, <2>2
<1>6. g \in [D -> {2, -2}]
  BY <1>1, <1>5
<1>7. g \in Vector
  BY <1>4, <1>6 DEF Vector
<1>. QED  BY <1>1, <1>7, FeaturesAre

LEMMA SpelledFeatures ==
  ASSUME NEW f \in Features, NEW way \in Spelling
  PROVE  /\ Feature(Spelled(f, way), way) = AliasOf(way).polarity * Feature(f, "quiet")
         /\ Feature(Spelled(f, way), "light") = Feature(f, "light")
         /\ DOMAIN Spelled(f, way) \subseteq {way, "light"}
         /\ Feature(f, "quiet") \in Int /\ Feature(f, "light") \in Int
<1>1. AliasOf(way).polarity \in {1, -1} /\ way # "light"
  BY DEF AliasOf, Spelling
<1>2. AliasOf(way).polarity * 0 = 0
  BY <1>1
<1>3. Feature(f, "quiet") \in Int /\ Feature(f, "light") \in Int
  BY FeaturesAre, VectorsAreFeatures, FeatureIsInt
<1>4. Feature(Spelled(f, way), way) = AliasOf(way).polarity * Feature(f, "quiet")
  BY <1>2, SpelledAre DEF Feature
<1>5. Feature(Spelled(f, way), "light") = Feature(f, "light")
  BY SpelledAre DEF Feature
<1>6. DOMAIN Spelled(f, way) \subseteq {way, "light"}
  <2>1. DOMAIN f \subseteq {"quiet", "light"}
    BY FeaturesAre
  <2>2. DOMAIN Spelled(f, way) = {IF k = "quiet" THEN way ELSE k : k \in DOMAIN f}
    BY SpelledAre
  <2>. QED  BY <2>1, <2>2
<1>. QED  BY <1>3, <1>4, <1>5, <1>6

LEMMA SpelledDot ==
  ASSUME NEW f \in Features, NEW g \in Features, NEW a \in Spelling, NEW b \in Spelling
  PROVE  /\ Dot(f, g) = Both(f, g, "quiet") + Both(f, g, "light")
         /\ Dot(Spelled(f, a), Spelled(g, b))
              = (IF a = b THEN Both(f, g, "quiet") ELSE 0) + Both(f, g, "light")
         /\ Both(f, g, "quiet") \in Int /\ Both(f, g, "light") \in {0, 4}
         /\ Both(f, g, "light") = 4 => Both(f, g, "quiet") >= 0
<1>. DEFINE u == Spelled(f, a)
            v == Spelled(g, b)
<1>a. /\ DOMAIN f \subseteq {"quiet", "light"} /\ DOMAIN g \subseteq {"quiet", "light"}
      /\ \A k \in DOMAIN f : f[k] \in {2, -2}
      /\ \A k \in DOMAIN g : g[k] \in {2, -2}
  BY FeaturesAre
<1>b. /\ u \in Vector
      /\ DOMAIN u = {IF k = "quiet" THEN a ELSE k : k \in DOMAIN f}
      /\ "quiet" \in DOMAIN f => a \in DOMAIN u /\ u[a] = AliasOf(a).polarity * f["quiet"]
      /\ a \in DOMAIN u => "quiet" \in DOMAIN f
      /\ "light" \in DOMAIN f <=> "light" \in DOMAIN u
      /\ "light" \in DOMAIN f => u["light"] = f["light"]
  BY SpelledAre
<1>c. /\ v \in Vector
      /\ DOMAIN v = {IF k = "quiet" THEN b ELSE k : k \in DOMAIN g}
      /\ "quiet" \in DOMAIN g => b \in DOMAIN v /\ v[b] = AliasOf(b).polarity * g["quiet"]
      /\ b \in DOMAIN v => "quiet" \in DOMAIN g
      /\ "light" \in DOMAIN g <=> "light" \in DOMAIN v
      /\ "light" \in DOMAIN g => v["light"] = g["light"]
  BY SpelledAre
<1>. HIDE DEF u, v
<1>1. /\ Dot(f, g) = Both(f, g, "quiet") + Both(f, g, "light")
      /\ Both(f, g, "quiet") \in Int /\ Both(f, g, "light") \in {0, 4}
      /\ Both(f, g, "light") = 4 => Both(f, g, "quiet") >= 0
  <2>1. \A k \in DOMAIN f \cap DOMAIN g : f[k] * g[k] \in {4, -4}
    <3>1. \A k \in DOMAIN f \cap DOMAIN g : f[k] \in {2, -2} /\ g[k] \in {2, -2}
      BY FeaturesAre
    <3>. QED  BY <3>1
  <2>2. Dot(f, g) = Both(f, g, "quiet") + Both(f, g, "light")
    BY <2>1, FeaturesAre, TwoKeys DEF Dot
  <2>3. Both(f, g, "quiet") \in Int /\ Both(f, g, "light") \in {0, 4}
    BY <2>1, FeaturesAre DEF Both
  <2>4. Both(f, g, "light") = 4 => Both(f, g, "quiet") >= 0
    BY FeaturesAre DEF Both
  <2>. QED  BY <2>2, <2>3, <2>4
<1>2. /\ Dot(u, v) = Both(u, v, a) + Both(u, v, "light")
      /\ Both(u, v, "light") = Both(f, g, "light")
      /\ Both(u, v, a) = IF a = b THEN Both(f, g, "quiet") ELSE 0
  <2>1. DOMAIN u \cap DOMAIN v \subseteq {a, "light"}
    BY <1>a, <1>b
  <2>2. \A k \in DOMAIN u \cap DOMAIN v : u[k] * v[k] \in Int
    <3>1. \A k \in DOMAIN u \cap DOMAIN v : u[k] \in {2, -2} /\ v[k] \in {2, -2}
      BY <1>b, <1>c DEF Vector
    <3>. QED  BY <3>1
  <2>3. Dot(u, v) = Both(u, v, a) + Both(u, v, "light")
    BY <2>1, <2>2, TwoKeys DEF Dot, Spelling
  <2>4. Both(u, v, "light") = Both(f, g, "light")
    BY <1>b, <1>c DEF Both
  <2>5. CASE a = b
    <3>1. AliasOf(a).polarity \in {1, -1}
      BY DEF AliasOf
    <3>2. "quiet" \in DOMAIN f \cap DOMAIN g => u[a] * v[a] = f["quiet"] * g["quiet"]
      <4>1. "quiet" \in DOMAIN f \cap DOMAIN g =>
              /\ f["quiet"] \in Int /\ g["quiet"] \in Int
              /\ u[a] = AliasOf(a).polarity * f["quiet"] /\ v[a] = AliasOf(a).polarity * g["quiet"]
        BY <1>a, <1>b, <1>c, <2>5
      <4>. QED  BY <3>1, <4>1
    <3>3. a \in DOMAIN u \cap DOMAIN v <=> "quiet" \in DOMAIN f \cap DOMAIN g
      BY <1>b, <1>c, <2>5
    <3>. QED  BY <2>3, <2>4, <2>5, <3>2, <3>3 DEF Both
  <2>6. CASE a # b
    <3>1. a \notin DOMAIN v
      BY <1>a, <1>c, <2>6 DEF Spelling
    <3>. QED  BY <2>3, <2>4, <2>6, <3>1 DEF Both
  <2>. QED  BY <2>5, <2>6
<1>. QED  BY <1>1, <1>2 DEF u, v

LEMMA SpelledDots ==
  ASSUME NEW f \in Features, NEW g \in Features, NEW a \in Spelling, NEW b \in Spelling
  PROVE  /\ Dot(f, g) > 0 => Dot(Spelled(f, a), Spelled(g, b)) >= 0
         /\ Dot(f, g) < 0 => Dot(Spelled(f, a), Spelled(g, b)) <= 0
  BY SpelledDot

LEMMA CosinesCompare ==
  ASSUME NEW f \in Features, NEW g \in Features, f # g, NEW P \in Spelling, NEW Q \in Spelling,
         P = Q \/ Feature(f, "quiet") = Feature(g, "quiet")
  PROVE  /\ Cosine(Spelled(f, P), Spelled(f, Q)) \in Int /\ Cosine(Spelled(g, P), Spelled(f, Q)) \in Int
         /\ Cosine(Spelled(g, P), Spelled(f, Q)) <= Cosine(Spelled(f, P), Spelled(f, Q))
<1>. DEFINE u == Spelled(f, P)
            v == Spelled(g, P)
            c == Spelled(f, Q)
<1>1. u \in Vector /\ v \in Vector /\ c \in Vector
  BY SpelledAre
<1>2. Dot(u, c) = (IF P = Q THEN Both(f, f, "quiet") ELSE 0) + Both(f, f, "light")
  BY SpelledDot
<1>3. Dot(v, c) = (IF P = Q THEN Both(g, f, "quiet") ELSE 0) + Both(g, f, "light")
  BY SpelledDot
<1>4. P = Q => u = c
  OBVIOUS
<1>. HIDE DEF u, v, c
<1>5. Cosine(u, c) \in Int /\ Cosine(v, c) \in Int
  BY <1>1, CosineSign
<1>6. CASE P = Q
  BY <1>1, <1>4, <1>5, <1>6, CosineBound DEF u, v, c
<1>7. CASE P # Q /\ Feature(f, "quiet") = Feature(g, "quiet")
  <2>1. "light" \notin DOMAIN f \/ "light" \notin DOMAIN g
    <3>1. SUFFICES ASSUME "light" \in DOMAIN f, "light" \in DOMAIN g PROVE f = g
      OBVIOUS
    <3>2. \A h \in {f, g} : h = [k \in {"quiet", "light"} |-> 2] \/ h = [k \in {"light"} |-> 2]
      BY <3>1 DEF Features
    <3>. QED  BY <1>7, <3>2 DEF Feature
  <2>2. Dot(v, c) = 0 /\ Dot(u, c) >= 0
    <3>1. Both(g, f, "light") = 0
      BY <2>1 DEF Both
    <3>2. Both(f, f, "light") \in {0, 4}
      BY SpelledDot
    <3>. QED  BY <1>2, <1>3, <1>7, <3>1, <3>2
  <2>3. Cosine(v, c) <= 0 /\ Cosine(u, c) >= 0
    <3>1. Dot(v, c) <= 0 /\ Dot(u, c) >= 0
      BY <2>2
    <3>. QED  BY <1>1, <3>1, CosineSign
  <2>. QED  BY <1>5, <2>3 DEF u, v, c
<1>. QED  BY <1>6, <1>7

LEMMA FoldsAreSpelled ==
  ASSUME NEW os \in [1..2 -> Features], NEW way \in Spelling,
         NEW known, ~("quiet" \in known /\ "Quiet" \in known)
  PROVE  /\ SpelledAll(os, way) \in [1..2 -> Vector]
         /\ Folded(SpelledAll(os, way), known) = SpelledAll(os, KeyFor(way, known))
         /\ Folded(SpelledAll(os, way), known) \in [1..2 -> Vector]
<1>1. \A w \in Spelling : SpelledAll(os, w) \in [1..2 -> Vector]
  <2>1. \A w \in Spelling, f \in Features : Spelled(f, w) \in Vector
    BY SpelledAre
  <2>. QED  BY <2>1 DEF SpelledAll
<1>2. KeyFor(way, known) \in Spelling
  BY SpellingResolves DEF Spelling
<1>3. Folded(SpelledAll(os, way), known) = SpelledAll(os, KeyFor(way, known))
  <2>1. \A f \in Features : CanonicalOption(Spelled(f, way), known) = Spelled(f, KeyFor(way, known))
    BY FeaturesAre, SpellingFolds
  <2>. QED  BY <2>1 DEF Folded, SpelledAll
<1>. QED  BY <1>1, <1>2, <1>3

LEMMA PushedInAll ==
  ASSUME NEW u, NEW model, NEW weights, NEW S
  PROVE  Total(LAMBDA x : Pushed(u, model, weights, x), S) = SumOf([x \in S |-> Pushed(u, model, weights, x)], S)
<1>. DEFINE w == [x \in S |-> Pushed(u, model, weights, x)]
            body(t) == [s \in SUBSET S |-> IF s = {} THEN 0 ELSE Pushed(u, model, weights, First(s)) + t[s \ {First(s)}]]
            bodyOf(t) == [s \in SUBSET S |-> IF s = {} THEN 0 ELSE w[First(s)] + t[s \ {First(s)}]]
<1>1. Total(LAMBDA x : Pushed(u, model, weights, x), S) = (CHOOSE t : t = body(t))[S]
  BY DEF Total, MapThenSumSet, MapThenFoldSet, First
<1>2. SumOf(w, S) = (CHOOSE t : t = bodyOf(t))[S]
  BY SumOfSums DEF Sums, SumsUp
<1>3. \A t : body(t) = bodyOf(t)
  BY FirstIsOne
<1>. HIDE DEF body, bodyOf
<1>4. (CHOOSE t : t = body(t)) = (CHOOSE t : t = bodyOf(t))
  BY <1>3
<1>. QED  BY <1>1, <1>2, <1>4

LEMMA AlikeInAll ==
  ASSUME NEW u, NEW history, NEW similarity, NEW S
  PROVE  Total(LAMBDA x : Alike(u, history, similarity, x), S) = SumOf([x \in S |-> Alike(u, history, similarity, x)], S)
<1>. DEFINE w == [x \in S |-> Alike(u, history, similarity, x)]
            body(t) == [s \in SUBSET S |-> IF s = {} THEN 0 ELSE Alike(u, history, similarity, First(s)) + t[s \ {First(s)}]]
            bodyOf(t) == [s \in SUBSET S |-> IF s = {} THEN 0 ELSE w[First(s)] + t[s \ {First(s)}]]
<1>1. Total(LAMBDA x : Alike(u, history, similarity, x), S) = (CHOOSE t : t = body(t))[S]
  BY DEF Total, MapThenSumSet, MapThenFoldSet, First
<1>2. SumOf(w, S) = (CHOOSE t : t = bodyOf(t))[S]
  BY SumOfSums DEF Sums, SumsUp
<1>3. \A t : body(t) = bodyOf(t)
  BY FirstIsOne
<1>. HIDE DEF body, bodyOf
<1>4. (CHOOSE t : t = body(t)) = (CHOOSE t : t = bodyOf(t))
  BY <1>3
<1>. QED  BY <1>1, <1>2, <1>4

\* The utility of an option of two keys.
Worth(model, weights, k) == MatchedWeight(model, k) + EffectiveWeight(weights, k)

LEMMA PushedOf ==
  ASSUME NEW u \in Vector, NEW P, P # "light", DOMAIN u \subseteq {P, "light"}, NEW model, NEW weights,
         Worth(model, weights, P) \in Int, Worth(model, weights, "light") \in Int
  PROVE  Total(LAMBDA k : Pushed(u, model, weights, k), DOMAIN u)
           = Feature(u, P) * Worth(model, weights, P) + Feature(u, "light") * Worth(model, weights, "light")
<1>. DEFINE S == DOMAIN u
            w == [k \in S |-> Pushed(u, model, weights, k)]
            total == Total(LAMBDA k : Pushed(u, model, weights, k), S)
            p == Feature(u, P) * Worth(model, weights, P)
            l == Feature(u, "light") * Worth(model, weights, "light")
<1>1. total = SumOf(w, S)
  <2>1. \A T : Total(LAMBDA k : Pushed(u, model, weights, k), T)
                 = SumOf([k \in T |-> Pushed(u, model, weights, k)], T)
    BY PushedInAll
  <2>. QED  BY <2>1
<1>2. /\ P \in S => w[P] = p
      /\ P \notin S => p = 0
      /\ "light" \in S => w["light"] = l
      /\ "light" \notin S => l = 0
      /\ p \in Int /\ l \in Int
  <2>1. /\ P \in S => w[P] = u[P] * Worth(model, weights, P)
        /\ "light" \in S => w["light"] = u["light"] * Worth(model, weights, "light")
    BY DEF Pushed, Worth
  <2>2. Feature(u, P) \in Int /\ Feature(u, "light") \in Int
    BY VectorsAreFeatures, FeatureIsInt
  <2>. HIDE DEF w
  <2>. QED  BY <2>1, <2>2 DEF Feature
<1>3. S = {P} \/ S = {"light"} \/ S = {P, "light"}
  BY VectorKeys
<1>. HIDE DEF total, w, S, p, l
<1>4. SumOf(w, S) = p + l
  <2>1. CASE S = {P}
    <3>1. SumOf(w, {P}) = w[P]
      BY <1>2, <2>1, SumOfOne
    <3>. QED  BY <1>2, <2>1, <3>1
  <2>2. CASE S = {"light"}
    <3>1. SumOf(w, {"light"}) = w["light"]
      BY <1>2, <2>2, SumOfOne
    <3>. QED  BY <1>2, <2>2, <3>1
  <2>3. CASE S = {P, "light"}
    <3>1. SumOf(w, {P, "light"}) = w[P] + w["light"]
      BY <1>2, <2>3, SumOfTwo
    <3>. QED  BY <1>2, <2>3, <3>1
  <2>. QED  BY <1>3, <2>1, <2>2, <2>3
<1>. QED  BY <1>1, <1>4 DEF total, p, l, S

LEMMA SimilarityIsNat ==
  ASSUME NEW options \in [1..2 -> Vector], NEW past, past.options \in [1..2 -> Vector]
  PROVE  Similarity(options, past) \in Nat
<1>. DEFINE keys(os) == UNION {DOMAIN os[i] : i \in DOMAIN os}
            both == keys(options) \cap keys(past.options)
            all == keys(options) \cup keys(past.options)
<1>1. \A os \in [1..2 -> Vector] : keys(os) = DOMAIN os[1] \cup DOMAIN os[2]
  OBVIOUS
<1>2. \A os \in [1..2 -> Vector] : IsFiniteSet(keys(os))
  <2>1. \A os \in [1..2 -> Vector] : IsFiniteSet(DOMAIN os[1]) /\ IsFiniteSet(DOMAIN os[2])
    BY VectorKeys
  <2>2. \A os \in [1..2 -> Vector] : IsFiniteSet(DOMAIN os[1] \cup DOMAIN os[2])
    BY <2>1, FS_Union
  <2>. HIDE DEF keys
  <2>. QED  BY <1>1, <2>2
<1>3. Similarity(options, past) =
        (IF past.here THEN 50 ELSE 0)
          + (IF all = {} THEN 0 ELSE (30 * Cardinality(both)) \div Cardinality(all))
  BY DEF Similarity
<1>4. IsFiniteSet(both) /\ IsFiniteSet(all)
  <2>. HIDE DEF keys
  <2>. QED  BY <1>2, FS_Union, FS_Intersection
<1>. HIDE DEF both, all
<1>5. /\ Cardinality(both) \in Nat /\ Cardinality(all) \in Nat
      /\ all # {} => Cardinality(all) > 0
  BY <1>4, FS_CardinalityType, FS_EmptySet
<1>. QED  BY <1>3, <1>5

LEMMA PriorsCompare ==
  ASSUME NEW u, NEW v, NEW past, NEW similarity \in [{1} -> Nat],
         Cosine(u, Chosen(past)) \in Int, Cosine(v, Chosen(past)) \in Int,
         Cosine(v, Chosen(past)) <= Cosine(u, Chosen(past))
  PROVE  /\ Prior(u, <<past>>, similarity) \in Int /\ Prior(v, <<past>>, similarity) \in Int
         /\ Prior(v, <<past>>, similarity) <= Prior(u, <<past>>, similarity)
<1>. DEFINE total == Total(LAMBDA h : similarity[h], {1})
            alike(x) == Total(LAMBDA h : Alike(x, <<past>>, similarity, h), {1})
<1>1. \A x : Prior(x, <<past>>, similarity) = IF total = 0 THEN 0 ELSE alike(x) \div total
  BY DEF Prior, Alike
<1>2. total = similarity[1] /\ total \in Nat
  <2>1. total = SumOf(similarity, {1})
    BY DEF SumOf
  <2>. QED  BY <2>1, SumOfOne
<1>3. \A x : Cosine(x, Chosen(past)) \in Int => alike(x) = total * Cosine(x, Chosen(past))
  <2>. SUFFICES ASSUME NEW x, Cosine(x, Chosen(past)) \in Int
                PROVE  alike(x) = total * Cosine(x, Chosen(past))
    OBVIOUS
  <2>. DEFINE w == [h \in {1} |-> Alike(x, <<past>>, similarity, h)]
  <2>1. alike(x) = SumOf(w, {1})
    <3>1. \A S : Total(LAMBDA h : Alike(x, <<past>>, similarity, h), S)
                  = SumOf([h \in S |-> Alike(x, <<past>>, similarity, h)], S)
      BY AlikeInAll
    <3>. QED  BY <3>1
  <2>2. w[1] = similarity[1] * Cosine(x, Chosen(past)) /\ w[1] \in Int
    BY DEF Alike
  <2>. HIDE DEF w
  <2>. QED  BY <1>2, <2>1, <2>2, SumOfOne
<1>. HIDE DEF total, alike
<1>. DEFINE cu == Cosine(u, Chosen(past))
            cv == Cosine(v, Chosen(past))
<1>4. alike(u) = total * cu /\ alike(v) = total * cv /\ cu \in Int /\ cv \in Int /\ cv <= cu
  BY <1>3
<1>. HIDE DEF cu, cv
<1>5. alike(u) \in Int /\ alike(v) \in Int /\ alike(v) <= alike(u)
  BY <1>2, <1>4, ProductsCompare
<1>6. CASE total = 0
  BY <1>1, <1>6
<1>7. CASE total # 0
  <2>1. total \in Int /\ total > 0
    BY <1>2, <1>7
  <2>. QED  BY <1>1, <1>5, <1>7, <2>1, QuotientsCompare
<1>. QED  BY <1>6, <1>7

LEMMA NothingMatched ==
  ASSUME NEW model, DOMAIN model = {}, NEW k
  PROVE  MatchedWeight(model, k) = 0
  BY DEF MatchedWeight

LEMMA UtilityIsInt ==
  ASSUME NEW model, DOMAIN model = {}, NEW options \in [1..2 -> Vector],
         NEW past, past.options \in [1..2 -> Vector], past.chosen = 1, NEW i \in 1..2
  PROVE  FoldedUtilities(model, options, <<past>>)[i] \in Int
<1>. DEFINE weights == Fit(<<past>>)
            similarity == [h \in DOMAIN <<past>> |-> Similarity(options, <<past>>[h])]
            u == options[i]
            pushed == Total(LAMBDA k : Pushed(u, model, weights, k), DOMAIN u)
<1>1. FoldedUtilities(model, options, <<past>>)[i] = pushed + 50 * Prior(u, <<past>>, similarity)
  BY DEF FoldedUtilities, WeighedUtilities, Pushed
<1>2. u \in Vector
  OBVIOUS
<1>3. \A k : EffectiveWeight(weights, k) \in Int
  <2>1. /\ DOMAIN past.options = {1, 2}
        /\ AreFeatures(past.options[1]) /\ AreFeatures(past.options[2])
    BY VectorsAreFeatures
  <2>. QED  BY <2>1, LearnsTheChoice
<1>4. Prior(u, <<past>>, similarity) \in Int
  <2>1. similarity \in [{1} -> Nat]
    BY SimilarityIsNat
  <2>2. Chosen(past) \in Vector
    BY DEF Chosen
  <2>. HIDE DEF similarity, u
  <2>3. Cosine(u, Chosen(past)) \in Int
    BY <1>2, <2>2, CosineSign
  <2>. QED  BY <2>1, <2>3, PriorsCompare
<1>. HIDE DEF weights, u
<1>5. pushed \in Int
  <2>. DEFINE w == [k \in DOMAIN u |-> Pushed(u, model, weights, k)]
  <2>1. pushed = SumOf(w, DOMAIN u)
    <3>1. \A S : Total(LAMBDA k : Pushed(u, model, weights, k), S)
                  = SumOf([k \in S |-> Pushed(u, model, weights, k)], S)
      BY PushedInAll
    <3>. QED  BY <3>1
  <2>2. \A k \in DOMAIN u : Pushed(u, model, weights, k) \in Int
    BY <1>2, <1>3, VectorKeys, NothingMatched DEF Pushed
  <2>3. w \in [DOMAIN u -> Int]
    BY <2>2
  <2>. HIDE DEF w, pushed
  <2>. QED  BY <1>2, <2>1, <2>3, VectorKeys, SumIsInt
<1>. HIDE DEF pushed, similarity
<1>. QED  BY <1>1, <1>4, <1>5

LEMMA UtilitiesCompare ==
  ASSUME NEW model, NEW options \in [1..2 -> Vector],
         NEW past, past.options \in [1..2 -> Vector],
         NEW P, P # "light", DOMAIN options[1] \subseteq {P, "light"}, DOMAIN options[2] \subseteq {P, "light"},
         \A k \in {P, "light"} :
           /\ Worth(model, Fit(<<past>>), k) \in Int
           /\ Feature(options[2], k) * Worth(model, Fit(<<past>>), k)
                <= Feature(options[1], k) * Worth(model, Fit(<<past>>), k),
         Cosine(options[1], Chosen(past)) \in Int, Cosine(options[2], Chosen(past)) \in Int,
         Cosine(options[2], Chosen(past)) <= Cosine(options[1], Chosen(past))
  PROVE  FoldedUtilities(model, options, <<past>>)[1] >= FoldedUtilities(model, options, <<past>>)[2]
<1>. DEFINE weights == Fit(<<past>>)
            similarity == [h \in DOMAIN <<past>> |-> Similarity(options, <<past>>[h])]
            pushed(i) == Total(LAMBDA k : Pushed(options[i], model, weights, k), DOMAIN options[i])
            worth(i, k) == Feature(options[i], k) * Worth(model, weights, k)
<1>1. \A i \in 1..2 : FoldedUtilities(model, options, <<past>>)[i]
                        = pushed(i) + 50 * Prior(options[i], <<past>>, similarity)
  BY DEF FoldedUtilities, WeighedUtilities, Pushed
<1>2. \A i \in 1..2 : pushed(i) = worth(i, P) + worth(i, "light")
  <2>1. \A u \in Vector : DOMAIN u \subseteq {P, "light"} =>
          Total(LAMBDA k : Pushed(u, model, weights, k), DOMAIN u)
            = Feature(u, P) * Worth(model, weights, P) + Feature(u, "light") * Worth(model, weights, "light")
    BY PushedOf
  <2>2. \A i \in 1..2 : options[i] \in Vector /\ DOMAIN options[i] \subseteq {P, "light"}
    OBVIOUS
  <2>. HIDE DEF weights
  <2>. QED  BY <2>1, <2>2
<1>3. \A i \in 1..2 : worth(i, P) \in Int /\ worth(i, "light") \in Int
  <2>1. \A i \in 1..2 : \A k : Feature(options[i], k) \in Int
    BY VectorsAreFeatures, FeatureIsInt
  <2>. QED  BY <2>1
<1>4. similarity \in [{1} -> Nat]
  BY SimilarityIsNat
<1>5. worth(2, P) <= worth(1, P) /\ worth(2, "light") <= worth(1, "light")
  OBVIOUS
<1>. HIDE DEF pushed, worth, similarity
<1>6. /\ Prior(options[1], <<past>>, similarity) \in Int /\ Prior(options[2], <<past>>, similarity) \in Int
      /\ Prior(options[2], <<past>>, similarity) <= Prior(options[1], <<past>>, similarity)
  BY <1>4, PriorsCompare
<1>. QED  BY <1>1, <1>2, <1>3, <1>5, <1>6

\* One choice of two options, in any spelling, asked about again in any.
LEMMA SpelledChoiceIsReinforced ==
  ASSUME NEW os \in [1..2 -> Features], os[1] # os[2], NEW a \in Spelling, NEW b \in Spelling,
         NEW past, past.options = SpelledAll(os, b), past.chosen = 1,
         DOMAIN past = {"options", "chosen", "here"}
  PROVE  LET again == Utilities(ResolutionEvidence(past), SpelledAll(os, a), <<past>>)
         IN  again[1] >= again[2]
<1>. DEFINE f == os[1]
            g == os[2]
            model == Aggregate(ResolutionEvidence(past))
            known == ModelKeys(model)
            P == KeyFor(a, known)
            Q == KeyFor(b, known)
            dq == Feature(f, "quiet") - Feature(g, "quiet")
            dl == Feature(f, "light") - Feature(g, "light")
            folded == [past EXCEPT !.options = Folded(@, known)]
            options == Folded(SpelledAll(os, a), known)
            matched(k) == MatchedWeight(model, k)
            effect(k) == EffectiveWeight(Fit(<<folded>>), k)
<1>1. f \in Features /\ g \in Features /\ f # g /\ f \in Option /\ g \in Option
  BY FeaturesAre
<1>2. /\ DOMAIN past.options = {1, 2} /\ past.chosen \in {1, 2} /\ 3 - past.chosen = 2
      /\ past.options[1] = Spelled(f, b) /\ past.options[2] = Spelled(g, b)
      /\ Chosen(past) = Spelled(f, b)
  BY DEF SpelledAll, Chosen
<1>3. AreFeatures(Spelled(f, b)) /\ AreFeatures(Spelled(g, b))
  BY <1>1, SpelledAre, VectorsAreFeatures
<1>4. /\ Feature(f, "quiet") \in Int /\ Feature(g, "quiet") \in Int
      /\ Feature(f, "light") \in Int /\ Feature(g, "light") \in Int
      /\ dq \in Int /\ dl \in Int
      /\ AliasOf(b).polarity \in {1, -1} /\ AliasOf("light").polarity = 1 /\ AliasOf("light").key = "light"
      /\ AliasOf(b).key \in {"quiet", "Quiet"}
  <2>1. /\ Feature(f, "quiet") \in Int /\ Feature(g, "quiet") \in Int
        /\ Feature(f, "light") \in Int /\ Feature(g, "light") \in Int
    BY <1>1, SpelledFeatures
  <2>2. /\ AliasOf(b).polarity \in {1, -1} /\ AliasOf("light").polarity = 1 /\ AliasOf("light").key = "light"
        /\ AliasOf(b).key \in {"quiet", "Quiet"}
    BY DEF AliasOf, Spelling
  <2>. QED  BY <2>1, <2>2
<1>. HIDE DEF f, g
<1>5. Names(past) \subseteq {b, "light"}
  <2>1. Names(past) = DOMAIN Spelled(f, b) \cup DOMAIN Spelled(g, b)
    BY <1>2 DEF Names
  <2>. QED  BY <1>1, <2>1, SpelledFeatures
<1>6. \A m, n \in Names(past) : AliasOf(m).key = AliasOf(n).key => m = n
  BY <1>4, <1>5
<1>7. \A n : Over(past, n) = Clip(-2, 2, Feature(Spelled(f, b), n) - Feature(Spelled(g, b), n))
  BY <1>2, <1>3, OverIs
<1>8. known = {AliasOf(n).key : n \in Telling(past)}
  BY NamesTold
<1>9. known \subseteq {AliasOf(b).key, "light"}
  BY <1>4, <1>5, <1>8 DEF Telling
<1>10. dq # 0 => AliasOf(b).key \in known /\ b \in Names(past)
  <2>. SUFFICES ASSUME dq # 0 PROVE AliasOf(b).key \in known /\ b \in Names(past)
    OBVIOUS
  <2>1. Over(past, b) # 0
    <3>1. Over(past, b) = Clip(-2, 2, AliasOf(b).polarity * Feature(f, "quiet")
                                        - AliasOf(b).polarity * Feature(g, "quiet"))
      BY <1>1, <1>7, SpelledFeatures
    <3>. QED  BY <1>4, <3>1 DEF Clip
  <2>2. b \in Names(past)
    <3>1. b \in DOMAIN Spelled(f, b) \/ b \in DOMAIN Spelled(g, b)
      <4>1. "quiet" \in DOMAIN f \/ "quiet" \in DOMAIN g
        BY DEF Feature
      <4>. QED  BY <1>1, <4>1, SpelledAre
    <3>. QED  BY <1>2, <3>1 DEF Names
  <2>. QED  BY <1>8, <2>1, <2>2 DEF Telling
<1>. HIDE DEF known
<1>11. /\ P \in {"quiet", "Quiet"} /\ Q \in {"quiet", "Quiet"}
       /\ ResolveName(a, known).polarity = AliasOf(a).polarity
       /\ ResolveName(b, known).polarity = AliasOf(b).polarity
       /\ ResolveName("light", known).key = "light" /\ ResolveName("light", known).polarity = 1
       /\ dq # 0 => P = AliasOf(b).key /\ Q = AliasOf(b).key
  <2>1. ~("quiet" \in known /\ "Quiet" \in known)
    BY <1>4, <1>9
  <2>2. \A way \in Spelling :
          /\ KeyFor(way, known) \in {"quiet", "Quiet"}
          /\ ResolveName(way, known).polarity = AliasOf(way).polarity
          /\ ResolveName("light", known).key = "light" /\ ResolveName("light", known).polarity = 1
          /\ \A K \in {"quiet", "Quiet"} : K \in known => KeyFor(way, known) = K
    BY <2>1, SpellingResolves
  <2>3. dq # 0 => AliasOf(b).key \in known /\ AliasOf(b).key \in {"quiet", "Quiet"}
    BY <1>4, <1>10
  <2>. HIDE DEF dq
  <2>. QED  BY <2>2, <2>3
<1>12. /\ options \in [1..2 -> Vector] /\ options[1] = Spelled(f, P) /\ options[2] = Spelled(g, P)
       /\ folded.options \in [1..2 -> Vector]
       /\ folded.options[1] = Spelled(f, Q) /\ folded.options[2] = Spelled(g, Q)
  <2>1. ~("quiet" \in known /\ "Quiet" \in known)
    BY <1>4, <1>9
  <2>2. /\ options = SpelledAll(os, P) /\ options \in [1..2 -> Vector]
        /\ folded.options = SpelledAll(os, Q) /\ folded.options \in [1..2 -> Vector]
    BY <2>1, FoldsAreSpelled
  <2>. HIDE DEF options, folded, P, Q
  <2>. QED  BY <2>2 DEF SpelledAll, f, g
<1>13. folded.chosen = 1 /\ Chosen(folded) = Spelled(f, Q)
  <2>1. folded.chosen = 1
    OBVIOUS
  <2>. HIDE DEF folded
  <2>. QED  BY <1>12, <2>1 DEF Chosen
<1>14. Utilities(ResolutionEvidence(past), SpelledAll(os, a), <<past>>)
         = FoldedUtilities(model, options, <<folded>>)
  <2>1. [h \in DOMAIN <<past>> |-> [<<past>>[h] EXCEPT !.options = Folded(@, known)]] = <<folded>>
    OBVIOUS
  <2>. HIDE DEF folded
  <2>. QED  BY <2>1 DEF Utilities, UtilitiesUnder, known
<1>. HIDE DEF model, options, folded
<1>15. \A k : matched(k) \in Int /\ effect(k) \in Int
  <2>1. \A k : matched(k) \in Int
    BY <1>2, <1>3, <1>6, EvidenceFavoursTheChoice DEF model
  <2>2. DOMAIN folded.options = {1, 2} /\ AreFeatures(folded.options[1]) /\ AreFeatures(folded.options[2])
    BY <1>12, VectorsAreFeatures
  <2>. QED  BY <1>13, <2>1, <2>2, LearnsTheChoice
<1>16. /\ dq > 0 => effect(Q) >= 0
       /\ dq < 0 => effect(Q) <= 0
       /\ dl > 0 => effect("light") >= 0
       /\ dl < 0 => effect("light") <= 0
  <2>1. DOMAIN folded.options = {1, 2} /\ AreFeatures(folded.options[1]) /\ AreFeatures(folded.options[2])
    BY <1>12, VectorsAreFeatures
  <2>2. /\ Feature(Spelled(f, Q), Q) - Feature(Spelled(g, Q), Q) = dq
        /\ Feature(Spelled(f, Q), "light") - Feature(Spelled(g, Q), "light") = dl
    <3>1. Q \in Spelling /\ AliasOf(Q).polarity = 1
      BY <1>11 DEF Spelling, AliasOf
    <3>. HIDE DEF Q
    <3>2. /\ Feature(Spelled(f, Q), Q) = 1 * Feature(f, "quiet")
          /\ Feature(Spelled(g, Q), Q) = 1 * Feature(g, "quiet")
          /\ Feature(Spelled(f, Q), "light") = Feature(f, "light")
          /\ Feature(Spelled(g, Q), "light") = Feature(g, "light")
      BY <1>1, <3>1, SpelledFeatures
    <3>. QED  BY <1>4, <3>2
  <2>3. \A k : LET d == Feature(Spelled(f, Q), k) - Feature(Spelled(g, Q), k)
               IN  (d >= 0 => effect(k) >= 0) /\ (d <= 0 => effect(k) <= 0)
    <3>1. folded.options[3 - folded.chosen] = Spelled(g, Q) /\ folded.chosen \in {1, 2}
      BY <1>12, <1>13
    <3>. HIDE DEF Q
    <3>. QED  BY <1>13, <2>1, <3>1, LearnsTheChoice
  <2>. HIDE DEF effect, Q
  <2>. QED  BY <1>4, <2>2, <2>3
<1>17. /\ dq > 0 => matched(AliasOf(b).key) >= 0
       /\ dq < 0 => matched(AliasOf(b).key) <= 0
       /\ dl > 0 => matched("light") >= 0
       /\ dl < 0 => matched("light") <= 0
  <2>1. \A n \in Names(past) :
          LET d == AliasOf(n).polarity * (Feature(Spelled(f, b), n) - Feature(Spelled(g, b), n))
          IN  (d >= 0 => matched(AliasOf(n).key) >= 0) /\ (d <= 0 => matched(AliasOf(n).key) <= 0)
    BY <1>2, <1>3, <1>6, EvidenceFavoursTheChoice DEF model
  <2>. HIDE DEF matched
  <2>2. AliasOf(b).polarity * (Feature(Spelled(f, b), b) - Feature(Spelled(g, b), b)) = dq
    <3>1. /\ Feature(Spelled(f, b), b) = AliasOf(b).polarity * Feature(f, "quiet")
          /\ Feature(Spelled(g, b), b) = AliasOf(b).polarity * Feature(g, "quiet")
      BY <1>1, SpelledFeatures
    <3>2. CASE AliasOf(b).polarity = 1
      BY <1>4, <3>1, <3>2
    <3>3. CASE AliasOf(b).polarity = -1
      BY <1>4, <3>1, <3>3
    <3>. QED  BY <1>4, <3>2, <3>3
  <2>3. AliasOf("light").polarity * (Feature(Spelled(f, b), "light") - Feature(Spelled(g, b), "light")) = dl
    <3>1. /\ Feature(Spelled(f, b), "light") = Feature(f, "light")
          /\ Feature(Spelled(g, b), "light") = Feature(g, "light")
      BY <1>1, SpelledFeatures
    <3>. QED  BY <1>4, <3>1
  <2>4. dl # 0 => "light" \in Names(past)
    <3>. SUFFICES ASSUME dl # 0 PROVE "light" \in Names(past)
      OBVIOUS
    <3>1. "light" \in DOMAIN f \/ "light" \in DOMAIN g
      BY DEF Feature
    <3>2. "light" \in DOMAIN Spelled(f, b) \/ "light" \in DOMAIN Spelled(g, b)
      BY <1>1, <3>1, SpelledAre
    <3>. QED  BY <1>2, <3>2 DEF Names
  <2>. QED  BY <1>4, <1>10, <2>1, <2>2, <2>3, <2>4
<1>18. /\ \A k : Worth(model, Fit(<<folded>>), k) = matched(k) + effect(k)
       /\ \A k : Worth(model, Fit(<<folded>>), k) \in Int
  <2>1. \A k : Worth(model, Fit(<<folded>>), k) = matched(k) + effect(k)
    BY DEF Worth
  <2>. HIDE DEF matched, effect
  <2>. QED  BY <1>15, <2>1
<1>19. /\ Feature(options[1], P) = Feature(f, "quiet") /\ Feature(options[2], P) = Feature(g, "quiet")
       /\ Feature(options[1], "light") = Feature(f, "light")
       /\ Feature(options[2], "light") = Feature(g, "light")
       /\ DOMAIN options[1] \subseteq {P, "light"} /\ DOMAIN options[2] \subseteq {P, "light"}
  <2>1. P \in Spelling /\ AliasOf(P).polarity = 1
    BY <1>11 DEF Spelling, AliasOf
  <2>. HIDE DEF P
  <2>2. 1 * Feature(f, "quiet") = Feature(f, "quiet") /\ 1 * Feature(g, "quiet") = Feature(g, "quiet")
    BY <1>4
  <2>. QED  BY <1>1, <1>12, <2>1, <2>2, SpelledFeatures
<1>20. /\ Feature(options[2], P) * Worth(model, Fit(<<folded>>), P)
            <= Feature(options[1], P) * Worth(model, Fit(<<folded>>), P)
       /\ Feature(options[2], "light") * Worth(model, Fit(<<folded>>), "light")
            <= Feature(options[1], "light") * Worth(model, Fit(<<folded>>), "light")
  <2>. HIDE DEF matched, effect, P, Q
  <2>1. /\ dq > 0 => Worth(model, Fit(<<folded>>), P) >= 0
        /\ dq < 0 => Worth(model, Fit(<<folded>>), P) <= 0
        /\ dl > 0 => Worth(model, Fit(<<folded>>), "light") >= 0
        /\ dl < 0 => Worth(model, Fit(<<folded>>), "light") <= 0
    <3>1. dq # 0 => P = Q /\ P = AliasOf(b).key
      BY <1>11
    <3>. QED  BY <1>4, <1>15, <1>16, <1>17, <1>18, <3>1
  <2>2. Feature(g, "quiet") * Worth(model, Fit(<<folded>>), P)
          <= Feature(f, "quiet") * Worth(model, Fit(<<folded>>), P)
    BY <1>4, <1>18, <2>1, TermsCompare
  <2>3. Feature(g, "light") * Worth(model, Fit(<<folded>>), "light")
          <= Feature(f, "light") * Worth(model, Fit(<<folded>>), "light")
    BY <1>4, <1>18, <2>1, TermsCompare
  <2>. QED  BY <1>19, <2>2, <2>3
<1>21. /\ Cosine(options[1], Chosen(folded)) \in Int /\ Cosine(options[2], Chosen(folded)) \in Int
       /\ Cosine(options[2], Chosen(folded)) <= Cosine(options[1], Chosen(folded))
  <2>1. P \in Spelling /\ Q \in Spelling /\ (P = Q \/ Feature(f, "quiet") = Feature(g, "quiet"))
    <3>1. dq = 0 => Feature(f, "quiet") = Feature(g, "quiet")
      BY <1>4
    <3>. QED  BY <1>11, <3>1 DEF Spelling
  <2>. HIDE DEF P, Q
  <2>. QED  BY <1>1, <1>12, <1>13, <2>1, CosinesCompare
<1>22. FoldedUtilities(model, options, <<folded>>)[1] >= FoldedUtilities(model, options, <<folded>>)[2]
  <2>1. P # "light"
    BY <1>11
  <2>. HIDE DEF P, Q, matched, effect
  <2>. QED  BY <1>12, <1>13, <1>18, <1>19, <1>20, <1>21, <2>1, UtilitiesCompare
<1>. QED  BY <1>14, <1>22

LEMMA CasesReinforce == ReasoningInv => ChoiceIsReinforced
<1>. SUFFICES ASSUME ReasoningInv, NEW i \in Unsaid
              PROVE  LET past == AsSpelled(given[i]).past
                         again == Rated([said |-> ResolutionEvidence(past), past |-> past,
                                         options |-> SpelledAll(given[i].past.options, given[i].spelling)])
                     IN  again[1] >= again[2]
  BY DEF ChoiceIsReinforced
<1>. DEFINE case == given[1]
            past == AsSpelled(case).past
            os == case.past.options
<1>1. given # <<>> /\ i = 1 /\ case.past \in Past /\ case.spelling \in Spelling /\ case.pastSpelling \in Spelling
  BY DEF ReasoningInv, Unsaid
<1>. HIDE DEF case
<1>2. /\ os \in [1..2 -> Features] /\ os[1] # os[2] /\ case.past.chosen = 1
      /\ DOMAIN case.past = {"options", "chosen", "here"}
  BY <1>1, PastsAre DEF Past
<1>3. past = [case.past EXCEPT !.options = SpelledAll(os, case.pastSpelling)]
  BY DEF AsSpelled, SpelledPast
<1>. HIDE DEF os, past
<1>4. /\ past.options = SpelledAll(os, case.pastSpelling) /\ past.chosen = 1
      /\ DOMAIN past = {"options", "chosen", "here"}
  BY <1>2, <1>3
<1>5. Rated([said |-> ResolutionEvidence(past), past |-> past, options |-> SpelledAll(os, case.spelling)])
        = Utilities(ResolutionEvidence(past), SpelledAll(os, case.spelling), <<past>>)
  BY DEF Rated
<1>. DEFINE again == Utilities(ResolutionEvidence(past), SpelledAll(os, case.spelling), <<past>>)
<1>6. again[1] >= again[2]
  BY <1>1, <1>2, <1>4, SpelledChoiceIsReinforced
<1>. HIDE DEF again
<1>. QED  BY <1>1, <1>5, <1>6 DEF again, case, past, os

\* All of it together, in any spelling: the evidence, the comparison and the similar
\* decision of a choice.
THEOREM ChoicesAreReinforced == ReasoningSpec => []ChoiceIsReinforced
<1>. QED  BY ReasoningStart, ReasoningStep, CasesReinforce, PTL DEF ReasoningSpec

-----------------------------------------------------------------------------
(* Advice, by whatever outcomes. *)
\* What outcome i weighs, and what it says in that weight.
Weigh(outcomes, size, i) == size[i] * (IF outcomes[i].here THEN 2 ELSE 1)
Signal(o) == Clip(-100, 100, 2 * o.satisfaction - 100 - (IF o.regret THEN 35 ELSE 0))
Says(outcomes, like, size, i) == (Weigh(outcomes, size, i) * like[i] * Signal(outcomes[i])) \div 100
Near(outcomes, like) == {i \in DOMAIN outcomes : like[i] # 0}

LEMMA SaidInAll ==
  ASSUME NEW outcomes, NEW like, NEW size, NEW S
  PROVE  Total(LAMBDA i : Says(outcomes, like, size, i), S)
           = SumOf([i \in S |-> Says(outcomes, like, size, i)], S)
<1>. DEFINE w == [i \in S |-> Says(outcomes, like, size, i)]
            body(t) == [s \in SUBSET S |-> IF s = {} THEN 0
                          ELSE Says(outcomes, like, size, First(s)) + t[s \ {First(s)}]]
            bodyOf(t) == [s \in SUBSET S |-> IF s = {} THEN 0 ELSE w[First(s)] + t[s \ {First(s)}]]
<1>1. Total(LAMBDA i : Says(outcomes, like, size, i), S) = (CHOOSE t : t = body(t))[S]
  BY DEF Total, MapThenSumSet, MapThenFoldSet, First
<1>2. SumOf(w, S) = (CHOOSE t : t = bodyOf(t))[S]
  BY SumOfSums DEF Sums, SumsUp
<1>3. \A t : body(t) = bodyOf(t)
  BY FirstIsOne
<1>. HIDE DEF body, bodyOf
<1>4. (CHOOSE t : t = body(t)) = (CHOOSE t : t = bodyOf(t))
  BY <1>3
<1>. QED  BY <1>1, <1>2, <1>4

LEMMA WeighedInAll ==
  ASSUME NEW outcomes, NEW size, NEW S
  PROVE  Total(LAMBDA i : Size(Weigh(outcomes, size, i)), S)
           = SumOf([i \in S |-> Size(Weigh(outcomes, size, i))], S)
<1>. DEFINE w == [i \in S |-> Size(Weigh(outcomes, size, i))]
            body(t) == [s \in SUBSET S |-> IF s = {} THEN 0
                          ELSE Size(Weigh(outcomes, size, First(s))) + t[s \ {First(s)}]]
            bodyOf(t) == [s \in SUBSET S |-> IF s = {} THEN 0 ELSE w[First(s)] + t[s \ {First(s)}]]
<1>1. Total(LAMBDA i : Size(Weigh(outcomes, size, i)), S) = (CHOOSE t : t = body(t))[S]
  BY DEF Total, MapThenSumSet, MapThenFoldSet, First
<1>2. SumOf(w, S) = (CHOOSE t : t = bodyOf(t))[S]
  BY SumOfSums DEF Sums, SumsUp
<1>3. \A t : body(t) = bodyOf(t)
  BY FirstIsOne
<1>. HIDE DEF body, bodyOf
<1>4. (CHOOSE t : t = body(t)) = (CHOOSE t : t = bodyOf(t))
  BY <1>3
<1>. QED  BY <1>1, <1>2, <1>4

\* OutcomeMean in terms of what was said and what it weighs.
LEMMA MeanBySums ==
  ASSUME NEW outcomes, NEW like, NEW size
  PROVE  LET near == Near(outcomes, like)
         IN  OutcomeMean(outcomes, like, size) =
               IF near = {} THEN <<>>
               ELSE <<50 + SumOf([i \in near |-> Says(outcomes, like, size, i)], near)
                         \div (2 * SumOf([i \in near |-> Size(Weigh(outcomes, size, i))], near))>>
<1>. DEFINE near == Near(outcomes, like)
            said == Total(LAMBDA i : Says(outcomes, like, size, i), near)
            weighed == Total(LAMBDA i : Size(Weigh(outcomes, size, i)), near)
<1>1. OutcomeMean(outcomes, like, size) =
        IF near = {} THEN <<>> ELSE <<50 + said \div (2 * weighed)>>
  BY DEF OutcomeMean, Says, Weigh, Signal, Near
<1>2. /\ said = SumOf([i \in near |-> Says(outcomes, like, size, i)], near)
      /\ weighed = SumOf([i \in near |-> Size(Weigh(outcomes, size, i))], near)
  BY SaidInAll, WeighedInAll
<1>. HIDE DEF said, weighed
<1>. QED  BY <1>1, <1>2

\* The same choices, of which what is like the option went no better, and what
\* is unlike it no worse.
AtMost(a, b) == a.satisfaction <= b.satisfaction /\ (b.regret => a.regret)
IsOutcome(o) == o.satisfaction \in Int /\ o.regret \in BOOLEAN /\ o.here \in BOOLEAN
WentWorse(bad, good, like) ==
  /\ IsFiniteSet(DOMAIN good) /\ DOMAIN bad = DOMAIN good
  /\ \A i \in DOMAIN good :
       /\ IsOutcome(bad[i]) /\ IsOutcome(good[i]) /\ bad[i].here = good[i].here
       /\ like[i] > 0 => AtMost(bad[i], good[i])
       /\ like[i] < 0 => AtMost(good[i], bad[i])

LEMMA SignalsCompare ==
  ASSUME NEW a, NEW b, IsOutcome(a), IsOutcome(b)
  PROVE  Signal(a) \in Int /\ Signal(b) \in Int /\ (AtMost(a, b) => Signal(a) <= Signal(b))
  BY DEF Signal, IsOutcome, AtMost, Clip

Magnitude(like) == [i \in DOMAIN like |-> Size(like[i])]
\* Nothing is known under either, or no more under the first.
NoHigher(a, b) == \/ a = <<>> /\ b = <<>>
                  \/ \E x, y \in Int : a = <<x>> /\ b = <<y>> /\ x <= y

\* ADR-010: outcomes of any number of choices that went worse than others, where
\* they resemble an option, or better, where they oppose it, never speak better
\* of it: _wellbeing is monotone, for any satisfaction, similarity and domain.
THEOREM WorseOutcomesNeverPraise ==
  ASSUME NEW bad, NEW good, NEW like \in [DOMAIN good -> Int], WentWorse(bad, good, like)
  PROVE  NoHigher(OutcomeMean(bad, like, Magnitude(like)), OutcomeMean(good, like, Magnitude(like)))
<1>. DEFINE size == Magnitude(like)
            near == Near(good, like)
            w == [i \in near |-> Says(bad, like, size, i)]
            v == [i \in near |-> Says(good, like, size, i)]
            d == [i \in near |-> Size(Weigh(good, size, i))]
<1>1. Near(bad, like) = near /\ IsFiniteSet(near) /\ near \subseteq DOMAIN good
  BY FS_Subset DEF Near, WentWorse
<1>2. ASSUME NEW i \in near
      PROVE  /\ Weigh(bad, size, i) = Weigh(good, size, i)
             /\ Weigh(good, size, i) \in Int /\ Weigh(good, size, i) > 0
             /\ like[i] \in Int /\ like[i] # 0
             /\ IsOutcome(bad[i]) /\ IsOutcome(good[i])
             /\ like[i] > 0 => AtMost(bad[i], good[i])
             /\ like[i] < 0 => AtMost(good[i], bad[i])
  BY DEF Weigh, Size, Near, WentWorse, IsOutcome, Magnitude
<1>3. [i \in near |-> Size(Weigh(bad, size, i))] = d
  BY <1>2
<1>. HIDE DEF size, near
<1>4. ASSUME NEW i \in near
      PROVE  /\ Says(bad, like, size, i) \in Int /\ Says(good, like, size, i) \in Int
             /\ Says(bad, like, size, i) <= Says(good, like, size, i)
  <2>. DEFINE m == Weigh(good, size, i) * like[i]
  <2>1. m \in Int /\ (like[i] > 0 => m >= 0) /\ (like[i] < 0 => m <= 0)
    BY <1>2
  <2>. HIDE DEF m
  <2>2. /\ Signal(bad[i]) \in Int /\ Signal(good[i]) \in Int
        /\ like[i] > 0 => Signal(bad[i]) <= Signal(good[i])
        /\ like[i] < 0 => Signal(good[i]) <= Signal(bad[i])
    BY <1>2, SignalsCompare
  <2>3. /\ m * Signal(bad[i]) \in Int /\ m * Signal(good[i]) \in Int
        /\ m * Signal(bad[i]) <= m * Signal(good[i])
    BY <1>2, <2>1, <2>2, ProductsCompare
  <2>4. /\ Says(bad, like, size, i) = (m * Signal(bad[i])) \div 100
        /\ Says(good, like, size, i) = (m * Signal(good[i])) \div 100
    BY <1>2 DEF Says, m
  <2>. QED  BY <2>3, <2>4, QuotientsCompare
<1>5. /\ SumOf(w, near) \in Int /\ SumOf(v, near) \in Int /\ SumOf(w, near) <= SumOf(v, near)
  BY <1>1, <1>4, SumsCompare
<1>6. near # {} => SumOf(d, near) \in Int /\ SumOf(d, near) > 0
  <2>1. \A i \in near : d[i] \in Int /\ d[i] > 0
    BY <1>2 DEF Size
  <2>. QED  BY <1>1, <2>1, SumsCompare
<1>7. /\ OutcomeMean(bad, like, size) =
           IF near = {} THEN <<>> ELSE <<50 + SumOf(w, near) \div (2 * SumOf(d, near))>>
      /\ OutcomeMean(good, like, size) =
           IF near = {} THEN <<>> ELSE <<50 + SumOf(v, near) \div (2 * SumOf(d, near))>>
  BY <1>1, <1>3, MeanBySums DEF near
<1>. HIDE DEF w, v, d
<1>8. near # {} => /\ SumOf(w, near) \div (2 * SumOf(d, near)) \in Int
                   /\ SumOf(v, near) \div (2 * SumOf(d, near)) \in Int
                   /\ SumOf(w, near) \div (2 * SumOf(d, near)) <= SumOf(v, near) \div (2 * SumOf(d, near))
  BY <1>5, <1>6, QuotientsCompare
<1>. QED  BY <1>7, <1>8 DEF size, NoHigher

\* advise: the weighted mean of behaviour, outcomes and goals.
Value(parts, j) == parts[j][1] * parts[j][2]

LEMMA ValuesInAll ==
  ASSUME NEW parts, NEW S
  PROVE  Total(LAMBDA j : Value(parts, j), S) = SumOf([j \in S |-> Value(parts, j)], S)
<1>. DEFINE w == [j \in S |-> Value(parts, j)]
            body(t) == [s \in SUBSET S |-> IF s = {} THEN 0
                          ELSE Value(parts, First(s)) + t[s \ {First(s)}]]
            bodyOf(t) == [s \in SUBSET S |-> IF s = {} THEN 0 ELSE w[First(s)] + t[s \ {First(s)}]]
<1>1. Total(LAMBDA j : Value(parts, j), S) = (CHOOSE t : t = body(t))[S]
  BY DEF Total, MapThenSumSet, MapThenFoldSet, First
<1>2. SumOf(w, S) = (CHOOSE t : t = bodyOf(t))[S]
  BY SumOfSums DEF Sums, SumsUp
<1>3. \A t : body(t) = bodyOf(t)
  BY FirstIsOne
<1>. HIDE DEF body, bodyOf
<1>4. (CHOOSE t : t = body(t)) = (CHOOSE t : t = bodyOf(t))
  BY <1>3
<1>. QED  BY <1>1, <1>2, <1>4

LEMMA WeightsInAll ==
  ASSUME NEW parts, NEW S
  PROVE  Total(LAMBDA j : parts[j][2], S) = SumOf([j \in S |-> parts[j][2]], S)
<1>. DEFINE w == [j \in S |-> parts[j][2]]
            body(t) == [s \in SUBSET S |-> IF s = {} THEN 0
                          ELSE parts[First(s)][2] + t[s \ {First(s)}]]
            bodyOf(t) == [s \in SUBSET S |-> IF s = {} THEN 0 ELSE w[First(s)] + t[s \ {First(s)}]]
<1>1. Total(LAMBDA j : parts[j][2], S) = (CHOOSE t : t = body(t))[S]
  BY DEF Total, MapThenSumSet, MapThenFoldSet, First
<1>2. SumOf(w, S) = (CHOOSE t : t = bodyOf(t))[S]
  BY SumOfSums DEF Sums, SumsUp
<1>3. \A t : body(t) = bodyOf(t)
  BY FirstIsOne
<1>. HIDE DEF body, bodyOf
<1>4. (CHOOSE t : t = body(t)) = (CHOOSE t : t = bodyOf(t))
  BY <1>3
<1>. QED  BY <1>1, <1>2, <1>4

\* Parts of the same weights, the first ones of no higher value.
Comparable(a, b, n) ==
  /\ DOMAIN a = 1..n /\ DOMAIN b = 1..n
  /\ \A j \in 1..n : /\ a[j][1] \in Int /\ b[j][1] \in Int /\ a[j][1] <= b[j][1]
                     /\ a[j][2] = b[j][2] /\ b[j][2] \in Int /\ b[j][2] > 0

LEMMA WeightedMeansCompare ==
  ASSUME NEW n \in Nat, n > 0, NEW a, NEW b, Comparable(a, b, n)
  PROVE  WeightedMean(a) \in Int /\ WeightedMean(b) \in Int /\ WeightedMean(a) <= WeightedMean(b)
<1>. DEFINE S == 1..n
            w == [j \in S |-> Value(a, j)]
            v == [j \in S |-> Value(b, j)]
            d == [j \in S |-> b[j][2]]
            valueA == Total(LAMBDA j : Value(a, j), S)
            valueB == Total(LAMBDA j : Value(b, j), S)
            weightA == Total(LAMBDA j : a[j][2], S)
            weightB == Total(LAMBDA j : b[j][2], S)
<1>1. /\ WeightedMean(a) = valueA \div weightA
      /\ WeightedMean(b) = valueB \div weightB
  BY DEF WeightedMean, Value, Comparable
<1>2. /\ valueA = SumOf(w, S) /\ valueB = SumOf(v, S)
      /\ weightA = SumOf([j \in S |-> a[j][2]], S) /\ weightB = SumOf(d, S)
  BY ValuesInAll, WeightsInAll
<1>3. [j \in S |-> a[j][2]] = d
  BY DEF Comparable
<1>. HIDE DEF valueA, valueB, weightA, weightB
<1>4. IsFiniteSet(S) /\ S # {}
  <2>1. IsFiniteSet(S)
    BY FS_Interval
  <2>2. 1 \in S
    OBVIOUS
  <2>. QED  BY <2>1, <2>2
<1>5. \A j \in S : /\ a[j][1] \in Int /\ b[j][1] \in Int /\ a[j][1] <= b[j][1]
                   /\ a[j][2] = b[j][2] /\ b[j][2] \in Int /\ b[j][2] > 0
  BY DEF Comparable
<1>. HIDE DEF S
<1>6. ASSUME NEW j \in S
      PROVE  Value(a, j) \in Int /\ Value(b, j) \in Int /\ Value(a, j) <= Value(b, j)
  <2>. DEFINE x == a[j][1]
              y == b[j][1]
              m == b[j][2]
  <2>1. /\ x \in Int /\ y \in Int /\ x <= y /\ m \in Int /\ m > 0
        /\ Value(a, j) = x * m /\ Value(b, j) = y * m
    BY <1>5 DEF Value
  <2>. HIDE DEF x, y, m
  <2>2. x * m = m * x /\ y * m = m * y /\ m >= 0
    BY <2>1
  <2>. QED  BY <2>1, <2>2, ProductsCompare
<1>7. w \in [S -> Int] /\ v \in [S -> Int] /\ \A j \in S : w[j] <= v[j]
  BY <1>6
<1>8. d \in [S -> Int] /\ \A j \in S : d[j] <= d[j] /\ d[j] > 0
  BY <1>5
<1>. HIDE DEF w, v, d
<1>9. SumOf(w, S) \in Int /\ SumOf(v, S) \in Int /\ SumOf(w, S) <= SumOf(v, S)
  BY <1>4, <1>7, SumsCompare
<1>10. SumOf(d, S) \in Int /\ SumOf(d, S) > 0
  BY <1>4, <1>8, SumsCompare
<1>. QED  BY <1>1, <1>2, <1>3, <1>9, <1>10, QuotientsCompare

LEMMA PairsJoin ==
  ASSUME NEW p, NEW q, NEW r
  PROVE  /\ <<p>> \o <<>> = <<p>> /\ <<p>> \o <<q>> = <<p, q>>
         /\ <<p, q>> \o <<>> = <<p, q>> /\ <<p, q>> \o <<r>> = <<p, q, r>>
<1>. DEFINE S == {p, q, r}
<1>1. <<p>> \in Seq(S) /\ <<q>> \in Seq(S) /\ <<r>> \in Seq(S) /\ <<p, q>> \in Seq(S)
  OBVIOUS
<1>2. <<p>> \o <<q>> = <<p, q>>
  <2>. DEFINE s == <<p>> \o <<q>>
              t == <<p, q>>
  <2>1. s \in Seq(S) /\ Len(s) = 2 /\ s[1] = p /\ s[2] = q
    BY <1>1, ConcatProperties
  <2>2. t \in Seq(S) /\ Len(t) = 2 /\ t[1] = p /\ t[2] = q
    BY <1>1
  <2>. HIDE DEF s, t, S
  <2>3. \A i \in 1..2 : s[i] = t[i]
    BY <2>1, <2>2
  <2>4. s = t
    BY <2>1, <2>2, <2>3, SeqEqual
  <2>. QED  BY <2>4 DEF s, t
<1>3. <<p, q>> \o <<r>> = <<p, q, r>>
  <2>. DEFINE s == <<p, q>> \o <<r>>
              t == <<p, q, r>>
  <2>1. s \in Seq(S) /\ Len(s) = 3 /\ s[1] = p /\ s[2] = q /\ s[3] = r
    BY <1>1, ConcatProperties
  <2>2. t \in Seq(S) /\ Len(t) = 3 /\ t[1] = p /\ t[2] = q /\ t[3] = r
    OBVIOUS
  <2>. HIDE DEF s, t, S
  <2>3. \A i \in 1..3 : s[i] = t[i]
    BY <2>1, <2>2
  <2>4. s = t
    BY <2>1, <2>2, <2>3, SeqEqual
  <2>. QED  BY <2>4 DEF s, t
<1>. QED  BY <1>1, <1>2, <1>3

Parts(liking, mean, goal) == <<<<liking, 35>>>> \o Part(mean, 45) \o Part(goal, 20)

LEMMA PartsAre ==
  ASSUME NEW l, NEW m, NEW g
  PROVE  /\ Parts(l, <<>>, <<>>) = <<<<l, 35>>>>
         /\ Parts(l, <<m>>, <<>>) = <<<<l, 35>>, <<m, 45>>>>
         /\ Parts(l, <<>>, <<g>>) = <<<<l, 35>>, <<g, 20>>>>
         /\ Parts(l, <<m>>, <<g>>) = <<<<l, 35>>, <<m, 45>>, <<g, 20>>>>
<1>. DEFINE p == <<l, 35>>
            q == <<m, 45>>
            r == <<g, 20>>
<1>1. Part(<<>>, 45) = <<>> /\ Part(<<>>, 20) = <<>> /\ Part(<<m>>, 45) = <<q>> /\ Part(<<g>>, 20) = <<r>>
  BY DEF Part
<1>. HIDE DEF p, q, r
<1>2. /\ <<p>> \o <<>> = <<p>> /\ <<p>> \o <<q>> = <<p, q>> /\ <<p>> \o <<r>> = <<p, r>>
      /\ <<p, q>> \o <<>> = <<p, q>> /\ <<p, q>> \o <<r>> = <<p, q, r>>
  BY PairsJoin
<1>3. \A mean, goal : Parts(l, mean, goal) = (<<p>> \o Part(mean, 45)) \o Part(goal, 20)
  BY DEF Parts, p
<1>4. /\ Parts(l, <<>>, <<>>) = <<p>> /\ Parts(l, <<m>>, <<>>) = <<p, q>>
      /\ Parts(l, <<>>, <<g>>) = <<p, r>> /\ Parts(l, <<m>>, <<g>>) = <<p, q, r>>
  <2>1. /\ (<<p>> \o <<>>) \o <<>> = <<p>> /\ (<<p>> \o <<q>>) \o <<>> = <<p, q>>
        /\ (<<p>> \o <<>>) \o <<r>> = <<p, r>> /\ (<<p>> \o <<q>>) \o <<r>> = <<p, q, r>>
    BY <1>2
  <2>2. /\ Parts(l, <<>>, <<>>) = (<<p>> \o <<>>) \o <<>>
        /\ Parts(l, <<m>>, <<>>) = (<<p>> \o <<q>>) \o <<>>
        /\ Parts(l, <<>>, <<g>>) = (<<p>> \o <<>>) \o <<r>>
        /\ Parts(l, <<m>>, <<g>>) = (<<p>> \o <<q>>) \o <<r>>
    BY <1>1, <1>3
  <2>. QED  BY <2>1, <2>2
<1>. QED  BY <1>4 DEF p, q, r

LEMMA PartsCompare ==
  ASSUME NEW l \in Int, NEW a, NEW b, NoHigher(a, b),
         NEW goal, goal = <<>> \/ \E g \in Int : goal = <<g>>
  PROVE  WeightedMean(Parts(l, a, goal)) <= WeightedMean(Parts(l, b, goal))
<1>1. PICK n \in {1, 2, 3} : Comparable(Parts(l, a, goal), Parts(l, b, goal), n)
  <2>. SUFFICES \E n \in {1, 2, 3} : Comparable(Parts(l, a, goal), Parts(l, b, goal), n)
    OBVIOUS
  <2>1. CASE a = <<>> /\ b = <<>> /\ goal = <<>>
    <3>1. Comparable(<<<<l, 35>>>>, <<<<l, 35>>>>, 1)
      BY DEF Comparable
    <3>. QED  BY <2>1, <3>1, PartsAre
  <2>2. ASSUME NEW g \in Int, a = <<>>, b = <<>>, goal = <<g>>
        PROVE  Comparable(Parts(l, a, goal), Parts(l, b, goal), 2)
    <3>1. Comparable(<<<<l, 35>>, <<g, 20>>>>, <<<<l, 35>>, <<g, 20>>>>, 2)
      BY DEF Comparable
    <3>. QED  BY <2>2, <3>1, PartsAre
  <2>3. ASSUME NEW x \in Int, NEW y \in Int, x <= y, a = <<x>>, b = <<y>>, goal = <<>>
        PROVE  Comparable(Parts(l, a, goal), Parts(l, b, goal), 2)
    <3>1. Comparable(<<<<l, 35>>, <<x, 45>>>>, <<<<l, 35>>, <<y, 45>>>>, 2)
      BY <2>3 DEF Comparable
    <3>. QED  BY <2>3, <3>1, PartsAre
  <2>4. ASSUME NEW x \in Int, NEW y \in Int, x <= y, a = <<x>>, b = <<y>>,
               NEW g \in Int, goal = <<g>>
        PROVE  Comparable(Parts(l, a, goal), Parts(l, b, goal), 3)
    <3>1. Comparable(<<<<l, 35>>, <<x, 45>>, <<g, 20>>>>, <<<<l, 35>>, <<y, 45>>, <<g, 20>>>>, 3)
      BY <2>4 DEF Comparable
    <3>2. /\ Parts(l, <<x>>, <<g>>) = <<<<l, 35>>, <<x, 45>>, <<g, 20>>>>
          /\ Parts(l, <<y>>, <<g>>) = <<<<l, 35>>, <<y, 45>>, <<g, 20>>>>
      BY PartsAre
    <3>. QED  BY <2>4, <3>1, <3>2
  <2>. QED  BY <2>1, <2>2, <2>3, <2>4 DEF NoHigher
<1>. QED  BY <1>1, WeightedMeansCompare

LEMMA LogisticIsInt ==
  ASSUME NEW x \in Int
  PROVE  Logistic(x) \in Int
  BY DEF Logistic, Clip

\* ADR-010: nor do they raise the advice for the option, however much behaviour
\* and goals speak for it, known or not.
THEOREM RegretNeverRaisesAdvice ==
  ASSUME NEW options, NEW utilities, NEW goals, NEW i \in DOMAIN options,
         utilities[i] \in Int, utilities[3 - i] \in Int,
         GoalAlignment(options[i], goals) \in {<<>>} \cup {<<g>> : g \in Int},
         NEW bad, NEW good, \A k \in DOMAIN good : bad[k].chosen = good[k].chosen,
         Likeness(options[i], good) \in [DOMAIN good -> Int],
         WentWorse(bad, good, Likeness(options[i], good))
  PROVE  RecommendationScores(options, utilities, bad, goals)[i]
           <= RecommendationScores(options, utilities, good, goals)[i]
<1>. DEFINE like == Likeness(options[i], good)
            liking == Logistic((utilities[i] - utilities[3 - i]) \div 200)
            goal == GoalAlignment(options[i], goals)
            worse == Wellbeing(options[i], bad)
            better == Wellbeing(options[i], good)
<1>1. liking \in Int
  <2>1. (utilities[i] - utilities[3 - i]) \div 200 \in Int
    OBVIOUS
  <2>. QED  BY <2>1, LogisticIsInt
<1>2. Likeness(options[i], bad) = like
  BY DEF Likeness, WentWorse
<1>3. NoHigher(worse, better)
  <2>1. worse = OutcomeMean(bad, like, Magnitude(like)) /\ better = OutcomeMean(good, like, Magnitude(like))
    BY <1>2 DEF Wellbeing, WentWorse, Magnitude
  <2>2. like \in [DOMAIN good -> Int] /\ WentWorse(bad, good, like)
    OBVIOUS
  <2>. HIDE DEF like, worse, better
  <2>. QED  BY <2>1, <2>2, WorseOutcomesNeverPraise
<1>4. /\ RecommendationScores(options, utilities, bad, goals)[i] = WeightedMean(Parts(liking, worse, goal))
      /\ RecommendationScores(options, utilities, good, goals)[i] = WeightedMean(Parts(liking, better, goal))
  BY DEF RecommendationScores, Parts
<1>5. goal = <<>> \/ \E g \in Int : goal = <<g>>
  OBVIOUS
<1>. HIDE DEF liking, goal, worse, better
<1>. QED  BY <1>1, <1>3, <1>4, <1>5, PartsCompare

Leans(option, g) == g.confidence * (50 + 25 * option[g.key] * g.direction)

LEMMA LeansInAll ==
  ASSUME NEW option, NEW S
  PROVE  Total(LAMBDA x : Leans(option, x), S) = SumOf([x \in S |-> Leans(option, x)], S)
<1>. DEFINE w == [x \in S |-> Leans(option, x)]
            body(t) == [s \in SUBSET S |-> IF s = {} THEN 0 ELSE Leans(option, First(s)) + t[s \ {First(s)}]]
            bodyOf(t) == [s \in SUBSET S |-> IF s = {} THEN 0 ELSE w[First(s)] + t[s \ {First(s)}]]
<1>1. Total(LAMBDA x : Leans(option, x), S) = (CHOOSE t : t = body(t))[S]
  BY DEF Total, MapThenSumSet, MapThenFoldSet, First
<1>2. SumOf(w, S) = (CHOOSE t : t = bodyOf(t))[S]
  BY SumOfSums DEF Sums, SumsUp
<1>3. \A t : body(t) = bodyOf(t)
  BY FirstIsOne
<1>. HIDE DEF body, bodyOf
<1>4. (CHOOSE t : t = body(t)) = (CHOOSE t : t = bodyOf(t))
  BY <1>3
<1>. QED  BY <1>1, <1>2, <1>4

LEMMA ConfidenceInAll ==
  ASSUME NEW S
  PROVE  Total(LAMBDA x : x.confidence, S) = SumOf([x \in S |-> x.confidence], S)
<1>. DEFINE w == [x \in S |-> x.confidence]
            body(t) == [s \in SUBSET S |-> IF s = {} THEN 0 ELSE First(s).confidence + t[s \ {First(s)}]]
            bodyOf(t) == [s \in SUBSET S |-> IF s = {} THEN 0 ELSE w[First(s)] + t[s \ {First(s)}]]
<1>1. Total(LAMBDA x : x.confidence, S) = (CHOOSE t : t = body(t))[S]
  BY DEF Total, MapThenSumSet, MapThenFoldSet, First
<1>2. SumOf(w, S) = (CHOOSE t : t = bodyOf(t))[S]
  BY SumOfSums DEF Sums, SumsUp
<1>3. \A t : body(t) = bodyOf(t)
  BY FirstIsOne
<1>. HIDE DEF body, bodyOf
<1>4. (CHOOSE t : t = body(t)) = (CHOOSE t : t = bodyOf(t))
  BY <1>3
<1>. QED  BY <1>1, <1>2, <1>4

\* One goal says something of an option, or nothing.
LEMMA OneGoalAligns ==
  ASSUME NEW u \in Vector, NEW g, g.key = "light", g.direction \in Int, g.confidence \in Nat
  PROVE  GoalAlignment(u, {g}) \in {<<>>} \cup {<<n>> : n \in Int}
<1>. DEFINE named == {h \in {g} : h.key \in DOMAIN u}
            total == Total(LAMBDA h : h.confidence, named)
            leans == Total(LAMBDA h : Leans(u, h), named)
<1>1. GoalAlignment(u, {g}) = IF total = 0 THEN <<>> ELSE <<leans \div total>>
  BY DEF GoalAlignment, Leans
<1>2. /\ total = SumOf([h \in named |-> h.confidence], named)
      /\ leans = SumOf([h \in named |-> Leans(u, h)], named)
  BY ConfidenceInAll, LeansInAll
<1>. HIDE DEF total, leans
<1>3. CASE named = {}
  <2>1. total = 0
    BY <1>2, <1>3, SumOfNone
  <2>. QED  BY <1>1, <2>1
<1>4. CASE named = {g}
  <2>. DEFINE w == [h \in {g} |-> h.confidence]
              v == [h \in {g} |-> Leans(u, h)]
  <2>1. w[g] = g.confidence /\ v[g] = Leans(u, g)
    OBVIOUS
  <2>2. Leans(u, g) \in Int
    <3>1. u["light"] \in Int
      BY <1>4, VectorKeys
    <3>. QED  BY <3>1 DEF Leans
  <2>3. total = SumOf(w, {g}) /\ leans = SumOf(v, {g})
    BY <1>2, <1>4
  <2>. HIDE DEF w, v, named
  <2>4. total = g.confidence /\ leans = Leans(u, g)
    <3>1. w[g] \in Int /\ v[g] \in Int
      BY <2>1, <2>2
    <3>2. SumOf(w, {g}) = w[g] /\ SumOf(v, {g}) = v[g]
      BY <3>1, SumOfOne
    <3>. QED  BY <2>1, <2>3, <3>2
  <2>5. total = 0 \/ leans \div total \in Int
    BY <2>2, <2>4
  <2>. QED  BY <1>1, <2>5
<1>. QED  BY <1>3, <1>4

\* The outcomes and the goal of the advice.
Other == [chosen |-> [k \in {"light"} |-> 2], here |-> TRUE, satisfaction |-> 80, regret |-> FALSE]
Outcome(way, o) == [chosen |-> Chosen(way.past), here |-> way.past.here,
                    satisfaction |-> o.satisfaction, regret |-> o.regret]
Goal == [key |-> "light", direction |-> 1, confidence |-> 70]

\* Of two reports, that which is worse for what is like the choice, and better for
\* what is unlike it, does not raise the score.
LEMMA AdviceCompares ==
  ASSUME NEW way, way.options \in [1..2 -> Vector], Chosen(way.past) \in Vector,
         way.past.here \in BOOLEAN, NEW rated, rated[1] \in Int, rated[2] \in Int,
         NEW j \in 1..2, NEW x \in Reported, NEW y \in Reported,
         Cosine(way.options[j], Chosen(way.past)) > 0 => AtMost(x, y),
         Cosine(way.options[j], Chosen(way.past)) < 0 => AtMost(y, x)
  PROVE  Advised(way, rated)[x][j] <= Advised(way, rated)[y][j]
<1>. DEFINE u == way.options[j]
            bad == <<Outcome(way, x), Other>>
            good == <<Outcome(way, y), Other>>
            like == Likeness(u, good)
<1>1. /\ Advised(way, rated)[x] = RecommendationScores(way.options, rated, bad, {Goal})
      /\ Advised(way, rated)[y] = RecommendationScores(way.options, rated, good, {Goal})
  BY DEF Advised, Outcome, Other, Goal
<1>2. u \in Vector /\ Other.chosen \in Vector
  <2>1. Other.chosen \in [{"light"} -> {2, -2}]
    BY DEF Other
  <2>2. [{"light"} -> {2, -2}] \subseteq Vector
    BY DEF Vector
  <2>. QED  BY <2>1, <2>2
<1>3. Cosine(u, Chosen(way.past)) \in Int /\ Cosine(u, Other.chosen) \in Int
  BY <1>2, CosineSign
<1>4. /\ DOMAIN good = {1, 2} /\ DOMAIN bad = {1, 2}
      /\ good[1] = Outcome(way, y) /\ bad[1] = Outcome(way, x) /\ good[2] = Other /\ bad[2] = Other
  OBVIOUS
<1>5. \A o \in Reported : o.satisfaction \in Int /\ o.regret \in BOOLEAN
  BY DEF Reported
<1>6. /\ \A o : Outcome(way, o).chosen = Chosen(way.past) /\ Outcome(way, o).here = way.past.here
      /\ \A o : Outcome(way, o).satisfaction = o.satisfaction /\ Outcome(way, o).regret = o.regret
      /\ IsOutcome(Other) /\ AtMost(Other, Other)
  BY DEF Outcome, Other, IsOutcome, AtMost
<1>. HIDE DEF u, bad, good
<1>7. /\ DOMAIN like = {1, 2}
      /\ like[1] = Cosine(u, Chosen(way.past)) /\ like[2] = Cosine(u, Other.chosen)
  BY <1>4, <1>6 DEF Likeness
<1>8. like \in [DOMAIN good -> Int]
  <2>1. like = [i \in DOMAIN good |-> Cosine(u, good[i].chosen)]
    BY DEF Likeness
  <2>2. \A i \in DOMAIN good : Cosine(u, good[i].chosen) \in Int
    BY <1>3, <1>4, <1>6
  <2>. QED  BY <2>1, <2>2
<1>. HIDE DEF like
<1>9. WentWorse(bad, good, like)
  <2>1. IsFiniteSet(DOMAIN good)
    <3>1. IsFiniteSet({1} \cup {2}) /\ {1, 2} = {1} \cup {2}
      BY FS_Singleton, FS_Union
    <3>. QED  BY <1>4, <3>1
  <2>2. /\ IsOutcome(Outcome(way, x)) /\ IsOutcome(Outcome(way, y))
        /\ AtMost(x, y) => AtMost(Outcome(way, x), Outcome(way, y))
        /\ AtMost(y, x) => AtMost(Outcome(way, y), Outcome(way, x))
    BY <1>5, <1>6 DEF IsOutcome, AtMost
  <2>3. /\ like[1] > 0 => AtMost(bad[1], good[1])
        /\ like[1] < 0 => AtMost(good[1], bad[1])
    BY <1>4, <1>7, <2>2 DEF u
  <2>. QED  BY <1>4, <1>6, <2>1, <2>2, <2>3 DEF WentWorse
<1>10. GoalAlignment(u, {Goal}) \in {<<>>} \cup {<<n>> : n \in Int}
  <2>1. Goal.key = "light" /\ Goal.direction \in Int /\ Goal.confidence \in Nat
    BY DEF Goal
  <2>. QED  BY <1>2, <2>1, OneGoalAligns
<1>11. \A k \in DOMAIN good : bad[k].chosen = good[k].chosen
  BY <1>4, <1>6
<1>12. j \in DOMAIN way.options /\ rated[j] \in Int /\ rated[3 - j] \in Int
  OBVIOUS
<1>13. RecommendationScores(way.options, rated, bad, {Goal})[j]
         <= RecommendationScores(way.options, rated, good, {Goal})[j]
  BY <1>8, <1>9, <1>10, <1>11, <1>12, RegretNeverRaisesAdvice DEF u, like
<1>. QED  BY <1>1, <1>13

\* What is known of nothing said.
LEMMA NothingKnown == DOMAIN Aggregate({}) = {} /\ ModelKeys(Aggregate({})) = {}
  BY DEF Aggregate, ModelKeys

LEMMA CasesNeverPraise == ReasoningInv => RegretNeverPraises
<1>. SUFFICES ASSUME ReasoningInv, NEW i \in Unsaid
              PROVE  NeverPraised(Advised(AsSpelled(given[i]), Rated(AsSpelled(given[i]))),
                                  [j \in 1..2 |-> Cosine(given[i].options[j], Chosen(given[i].past))])
  BY DEF RegretNeverPraises
<1>1. given # <<>> /\ i = 1 /\ given[1].said = <<>>
  BY DEF ReasoningInv, Unsaid
<1>. DEFINE case == given[1]
            way == AsSpelled(case)
            rated == Rated(way)
<1>2. /\ case.options \in [1..2 -> Features]
      /\ case.past \in [options : [1..2 -> Features], chosen : {1}, here : BOOLEAN]
      /\ case.spelling \in Spelling /\ case.pastSpelling \in Spelling /\ case.said = <<>>
  <2>1. /\ case.options \in [1..2 -> Features] /\ case.past \in Past /\ case.said = <<>>
        /\ case.spelling \in Spelling /\ case.pastSpelling \in Spelling
    BY <1>1 DEF ReasoningInv
  <2>. HIDE DEF case
  <2>. QED  BY <2>1, PastsAre DEF Past
<1>. HIDE DEF case
<1>3. /\ way.said = {} /\ way.options = SpelledAll(case.options, case.spelling)
      /\ way.past = SpelledPast(case.past, case.pastSpelling)
  BY <1>2 DEF AsSpelled
<1>. HIDE DEF way
<1>4. /\ way.past.options = SpelledAll(case.past.options, case.pastSpelling)
      /\ way.past.chosen = 1 /\ way.past.here \in BOOLEAN
  BY <1>2, <1>3 DEF SpelledPast
<1>5. way.options \in [1..2 -> Vector] /\ Folded(way.options, {}) \in [1..2 -> Vector]
  BY <1>2, <1>3, FoldsAreSpelled
<1>6. way.past.options \in [1..2 -> Vector] /\ Folded(way.past.options, {}) \in [1..2 -> Vector]
  BY <1>2, <1>4, FoldsAreSpelled
<1>7. \A k \in 1..2 : rated[k] \in Int
  <2>. DEFINE past == [way.past EXCEPT !.options = Folded(@, {})]
  <2>1. past.options = Folded(way.past.options, {}) /\ past.chosen = 1
    BY <1>2, <1>3, <1>4 DEF SpelledPast
  <2>2. rated = FoldedUtilities(Aggregate({}), Folded(way.options, {}),
                  [h \in DOMAIN <<way.past>> |->
                     [<<way.past>>[h] EXCEPT !.options = Folded(@, {})]])
    BY <1>3, NothingKnown DEF Rated, Utilities, UtilitiesUnder
  <2>3. [h \in DOMAIN <<way.past>> |-> [<<way.past>>[h] EXCEPT !.options = Folded(@, {})]] = <<past>>
    OBVIOUS
  <2>. HIDE DEF past, rated
  <2>. QED  BY <1>5, <1>6, <2>1, <2>2, <2>3, NothingKnown, UtilityIsInt
<1>. HIDE DEF rated
<1>8. ASSUME NEW good \in Reported, NEW bad \in Reported, AtMost(bad, good), NEW j \in 1..2
      PROVE  LET like == Cosine(case.options[j], Chosen(case.past))
             IN  /\ like > 0 => Advised(way, rated)[bad][j] <= Advised(way, rated)[good][j]
                 /\ like < 0 => Advised(way, rated)[bad][j] >= Advised(way, rated)[good][j]
  <2>. DEFINE f == case.options[j]
              g == case.past.options[1]
              u == Spelled(f, case.spelling)
              v == Spelled(g, case.pastSpelling)
  <2>1. /\ f \in Features /\ g \in Features
        /\ f \in Vector /\ g \in Vector /\ u \in Vector /\ v \in Vector
    <3>1. f \in Features /\ g \in Features
      BY <1>2
    <3>. HIDE DEF f, g
    <3>2. f \in Vector /\ g \in Vector
      BY <3>1, FeaturesAre
    <3>3. u \in Vector /\ v \in Vector
      BY <1>2, <3>1, SpelledAre
    <3>. QED  BY <3>1, <3>2, <3>3
  <2>2. /\ Chosen(case.past) = g /\ Chosen(way.past) = v /\ way.options[j] = u
    BY <1>2, <1>3, <1>4 DEF Chosen, SpelledAll
  <2>3. /\ Dot(f, g) > 0 => Dot(u, v) >= 0
        /\ Dot(f, g) < 0 => Dot(u, v) <= 0
    BY <1>2, <2>1, SpelledDots
  <2>. HIDE DEF f, g, u, v
  <2>4. /\ Dot(f, g) \in Int /\ Cosine(f, g) \in Int /\ Dot(u, v) \in Int /\ Cosine(u, v) \in Int
        /\ Dot(f, g) >= 0 => Cosine(f, g) >= 0
        /\ Dot(f, g) <= 0 => Cosine(f, g) <= 0
        /\ Dot(u, v) >= 0 => Cosine(u, v) >= 0
        /\ Dot(u, v) <= 0 => Cosine(u, v) <= 0
    BY <2>1, CosineSign
  <2>5. /\ Cosine(f, g) > 0 => Cosine(u, v) >= 0
        /\ Cosine(f, g) < 0 => Cosine(u, v) <= 0
    BY <2>3, <2>4
  <2>6. rated[1] \in Int /\ rated[2] \in Int
    BY <1>7
  <2>7. ASSUME Cosine(f, g) > 0
        PROVE  Advised(way, rated)[bad][j] <= Advised(way, rated)[good][j]
    <3>1. ~(Cosine(u, v) < 0)
      BY <2>4, <2>5, <2>7
    <3>. QED  BY <1>4, <1>5, <1>8, <2>1, <2>2, <2>6, <3>1, AdviceCompares
  <2>8. ASSUME Cosine(f, g) < 0
        PROVE  Advised(way, rated)[good][j] <= Advised(way, rated)[bad][j]
    <3>1. ~(Cosine(u, v) > 0)
      BY <2>4, <2>5, <2>8
    <3>. QED  BY <1>4, <1>5, <1>8, <2>1, <2>2, <2>6, <3>1, AdviceCompares
  <2>9. \A x, y : x >= y <=> y <= x
    OBVIOUS
  <2>. QED  BY <2>2, <2>7, <2>8, <2>9 DEF f
<1>. DEFINE like == [j \in 1..2 |-> Cosine(case.options[j], Chosen(case.past))]
<1>9. DOMAIN like = 1..2 /\ \A j \in 1..2 : like[j] = Cosine(case.options[j], Chosen(case.past))
  OBVIOUS
<1>10. NeverPraised(Advised(way, rated), like)
  <2>. HIDE DEF like
  <2>. QED  BY <1>8, <1>9 DEF NeverPraised, AtMost
<1>. QED  BY <1>1, <1>10 DEF like, rated, way, case

\* ADR-010, of every case: the same in any spelling, next to a good outcome of something
\* else and a goal.
THEOREM RegretDoesNotPraise == ReasoningSpec => []RegretNeverPraises
<1>. QED  BY ReasoningStart, ReasoningStep, CasesNeverPraise, PTL DEF ReasoningSpec
=============================================================================
