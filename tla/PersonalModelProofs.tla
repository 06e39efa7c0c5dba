------------------------ MODULE PersonalModelProofs ------------------------
(***************************************************************************)
(* What holds of the Personal Model for every number of requests, every    *)
(* set of evidence and aliases and every number of restarts; and of the    *)
(* questions by which it asks the owner for more.                          *)
(***************************************************************************)
EXTENDS PersonalModel, ActiveLearning, TLAPS

\* Each step keeps every variable in its type.
LEMMA TypeInit == Init => TypeOK
  BY ModelAssumption DEF Init, TypeOK, Label, ContentType, Content

LEMMA TypeStep == TypeOK /\ [Next]_vars => TypeOK'
<1> SUFFICES ASSUME TypeOK, [Next]_vars PROVE TypeOK'
  OBVIOUS
<1> USE DEF TypeOK, Label, ContentType, SnapshotType, Content, Snapshot, Goto, Begin, Bump,
            Stored, ActiveAliases, database, daemon, request, reading
<1>1. ASSUME NEW r \in Request, BeginLearn(r) PROVE TypeOK'
  BY <1>1 DEF BeginLearn
<1>2. ASSUME NEW r \in Request, AddEvidence(r) PROVE TypeOK'
  BY <1>2 DEF AddEvidence
<1>3. ASSUME NEW r \in Request, RegisterAlias(r) PROVE TypeOK'
  BY <1>3 DEF RegisterAlias, Upserted
<1>4. ASSUME NEW r \in Request, RegisterDone(r) PROVE TypeOK'
  BY <1>4 DEF RegisterDone
<1>5. ASSUME NEW r \in Request, BeginForget(r) PROVE TypeOK'
  BY <1>5 DEF BeginForget
<1>6. ASSUME NEW r \in Request, RemoveEvidence(r) PROVE TypeOK'
  <2>1. CASE items[r] \subseteq Stored
    <3>1. /\ status' = [e \in Evidence |-> IF e \in items[r] THEN "deleted" ELSE status[e]]
          /\ aliases' \subseteq aliases
          /\ Bump /\ Goto(r, "evidence")
      BY <1>6, <2>1 DEF RemoveEvidence, Pruned
    <3>2. status' \in [Evidence -> {"unused", "stored", "deleted"}]
      BY <3>1
    <3> QED
      BY <1>6, <3>1, <3>2 DEF RemoveEvidence
  <2>2. CASE ~(items[r] \subseteq Stored)
    BY <1>6, <2>2 DEF RemoveEvidence
  <2> QED
    BY <2>1, <2>2
<1>7. ASSUME NEW r \in Request, WriteAlias(r) PROVE TypeOK'
  BY <1>7 DEF WriteAlias, Upserted
<1>8. ASSUME NEW r \in Request, BeginCurrent(r) PROVE TypeOK'
  BY <1>8 DEF BeginCurrent
<1>9. ASSUME NEW r \in Request, ReadLatest(r) PROVE TypeOK'
  BY <1>9 DEF ReadLatest
<1>10. ASSUME NEW r \in Request, CompareRevision(r) PROVE TypeOK'
  <2>1. CASE snapshots[version[r]].revision = revision
    <3>1. Goto(r, "done") /\ result' = [result EXCEPT ![r] = version[r]]
      BY <1>10, <2>1 DEF CompareRevision
    <3> QED
      BY <1>10, <3>1 DEF CompareRevision
  <2>2. CASE snapshots[version[r]].revision # revision
    <3>1. Goto(r, "evidence") /\ UNCHANGED result
      BY <1>10, <2>2 DEF CompareRevision
    <3> QED
      BY <1>10, <3>1 DEF CompareRevision
  <2> QED
    BY <2>1, <2>2
<1>11. ASSUME NEW r \in Request, ReadEvidence(r) PROVE TypeOK'
  BY <1>11 DEF ReadEvidence
<1>12. ASSUME NEW r \in Request, ReadRevision(r) PROVE TypeOK'
  BY <1>12 DEF ReadRevision
<1>13. ASSUME NEW r \in Request, ReadAliases(r) PROVE TypeOK'
  BY <1>13 DEF ReadAliases
<1>14. ASSUME NEW r \in Request, ReadVersion(r) PROVE TypeOK'
  BY <1>14 DEF ReadVersion
<1>15. ASSUME NEW r \in Request, Replace(r) PROVE TypeOK'
  <2> DEFINE new == Snapshot(seenEvidence[r], seenAliases[r], stamp[r], enabled)
  <2>1. new \in SnapshotType /\ new.content \in ContentType
    OBVIOUS
  <2>2. CASE version[r] = Len(snapshots)
    <3>1. snapshots' = Append(snapshots, new) /\ derived' = new.content
      BY <1>15, <2>2 DEF Replace
    <3>2. snapshots' \in Seq(SnapshotType) /\ derived' \in ContentType
      BY <2>1, <3>1
    <3>3. /\ pc' = [pc EXCEPT ![r] = "done"]
          /\ result' = [result EXCEPT ![r] = version[r] + 1]
      BY <1>15, <2>2 DEF Replace
    <3> QED
      BY <1>15, <3>2, <3>3 DEF Replace
  <2>3. CASE version[r] # Len(snapshots)
    BY <1>15, <2>3 DEF Replace
  <2> QED
    BY <2>2, <2>3
<1>16. ASSUME NEW r \in Request, Fail(r) PROVE TypeOK'
  BY <1>16 DEF Fail
<1>17. CASE WriteLabel
  BY <1>17 DEF WriteLabel
<1>18. CASE Restart
  <2> DEFINE applied == IF enabled' THEN aliases ELSE {}
             new == Snapshot(Stored, applied, revision, enabled')
  <2>3. enabled' \in BOOLEAN
    BY <1>18 DEF Restart
  <2>4. new \in SnapshotType /\ new.content \in ContentType
    BY <2>3
  <2>5. \/ UNCHANGED <<snapshots, derived>>
        \/ snapshots' = Append(snapshots, new) /\ derived' = new.content
    BY <1>18 DEF Restart
  <2>1. snapshots' \in Seq(SnapshotType) /\ derived' \in ContentType
    <3> HIDE DEF new
    <3>1. CASE UNCHANGED <<snapshots, derived>>
      BY <3>1
    <3>2. CASE snapshots' = Append(snapshots, new) /\ derived' = new.content
      BY <2>4, <3>2
    <3> QED
      BY <2>5, <3>1, <3>2
  <2>2. pc' \in [Request -> Label] /\ restarts' \in Nat /\ enabled' \in BOOLEAN
    BY <1>18 DEF Restart
  <2> QED
    BY <1>18, <2>1, <2>2 DEF Restart
<1>19. CASE UNCHANGED vars
  BY <1>19 DEF vars
<1> QED
  BY <1>1, <1>2, <1>3, <1>4, <1>5, <1>6, <1>7, <1>8, <1>9, <1>10, <1>11, <1>12, <1>13,
     <1>14, <1>15, <1>16, <1>17, <1>18, <1>19 DEF Next

\* Every variable keeps its type.
THEOREM TypeCorrect == Spec => []TypeOK
  BY TypeInit, TypeStep, PTL DEF Spec

-----------------------------------------------------------------------------
(***************************************************************************)
(* The inductive invariant.  A stamp is never ahead of the revision, and   *)
(* while it equals the revision no alias write can have happened since it  *)
(* was read, because each advances the revision: so the aliases read       *)
(* afterwards are still the active ones.                                   *)
(***************************************************************************)
Applied(active, algorithm) == IF algorithm THEN active ELSE {}

SnapshotsCorrect ==
  \A v \in 1..Len(snapshots) :
    /\ snapshots[v].revision <= revision
    /\ snapshots[v].revision = revision =>
         snapshots[v].content.aliases = Applied(aliases, snapshots[v].aliased)

\* What request r has read, and what is true of it now.
ReadCorrect(r) ==
  /\ start[r] <= revision
  /\ pc[r] \in {"aliases", "version", "replace"} =>
       start[r] <= stamp[r] /\ stamp[r] <= revision
  /\ pc[r] \in {"version", "replace"} /\ stamp[r] = revision =>
       seenAliases[r] = Applied(aliases, enabled)
  /\ pc[r] = "compare" => version[r] \in 1..Len(snapshots)

ReadsCorrect == \A r \in Request : ReadCorrect(r)

ResultsCorrect ==
  \A r \in Request :
    /\ result[r] \in 0..Len(snapshots)
    /\ pc[r] = "idle" => result[r] = 0

IInv == /\ TypeOK
        /\ SnapshotsCorrect
        /\ ReadsCorrect
        /\ ResultsCorrect
        /\ CurrentIsRecent
        /\ AlgorithmMatchesSettings
        /\ DerivedRowsMatchLatest

\* What a step may do to the snapshots: nothing, or append one that is correct.
SnapshotsStep ==
  \/ UNCHANGED <<snapshots, derived>>
  \/ \E s \in SnapshotType :
       /\ snapshots' = Append(snapshots, s)
       /\ derived' = s.content
       /\ s.aliased = enabled'
       /\ s.revision <= revision'
       /\ s.revision = revision' => s.content.aliases = Applied(aliases', s.aliased)

LEMMA InitInv == Init => IInv
<1> SUFFICES ASSUME Init PROVE IInv
  OBVIOUS
<1>1. TypeOK
  BY TypeInit
<1>2. snapshots = <<>> /\ Len(snapshots) = 0
  BY DEF Init
<1> QED
  BY <1>1, <1>2 DEF Init, IInv, SnapshotsCorrect, ReadsCorrect, ReadCorrect, ResultsCorrect,
     CurrentIsRecent, AlgorithmMatchesSettings, DerivedRowsMatchLatest

LEMMA SnapshotsShape == IInv /\ [Next]_vars => SnapshotsStep
<1> SUFFICES ASSUME IInv, [Next]_vars PROVE SnapshotsStep
  OBVIOUS
<1> USE DEF IInv
<1>1. ASSUME NEW r \in Request, Replace(r) PROVE SnapshotsStep
  <2> DEFINE new == Snapshot(seenEvidence[r], seenAliases[r], stamp[r], enabled)
  <2>1. new \in SnapshotType
    BY DEF TypeOK, SnapshotType, ContentType, Snapshot, Content
  <2>2. /\ new.aliased = enabled /\ new.revision = stamp[r]
        /\ new.content.aliases = seenAliases[r]
        /\ new.content = Content(seenEvidence[r], seenAliases[r])
    BY DEF Snapshot, Content
  <2>3. UNCHANGED <<aliases, revision, enabled>> /\ pc[r] = "replace"
    BY <1>1 DEF Replace, daemon
  <2>4. stamp[r] <= revision /\ (stamp[r] = revision => seenAliases[r] = Applied(aliases, enabled))
    BY <2>3 DEF ReadsCorrect, ReadCorrect
  <2>5. CASE version[r] = Len(snapshots)
    <3>1. snapshots' = Append(snapshots, new) /\ derived' = new.content
      BY <1>1, <2>2, <2>5 DEF Replace
    <3> HIDE DEF new
    <3> QED
      BY <2>1, <2>2, <2>3, <2>4, <3>1 DEF SnapshotsStep, Applied
  <2>6. CASE version[r] # Len(snapshots)
    BY <1>1, <2>6 DEF Replace, SnapshotsStep
  <2> QED
    BY <2>5, <2>6
<1>2. CASE Restart
  <2> DEFINE applied == IF enabled' THEN aliases ELSE {}
             new == Snapshot(Stored, applied, revision, enabled')
  <2>1. UNCHANGED <<aliases, revision>> /\ enabled' \in BOOLEAN /\ aliases \subseteq Alias
    BY <1>2 DEF Restart, TypeOK
  <2>2. new \in SnapshotType
    BY <2>1 DEF TypeOK, SnapshotType, ContentType, Snapshot, Content, Stored
  <2>3. /\ new.aliased = enabled' /\ new.revision = revision
        /\ new.content.aliases = applied /\ new.content = Content(Stored, applied)
    BY DEF Snapshot, Content
  <2>4. CASE snapshots = <<>> \/ Fresh(enabled')
    BY <1>2, <2>4 DEF Restart, SnapshotsStep
  <2>5. CASE ~(snapshots = <<>> \/ Fresh(enabled'))
    <3>1. snapshots' = Append(snapshots, new) /\ derived' = new.content
      BY <1>2, <2>3, <2>5 DEF Restart
    <3>2. new.content.aliases = Applied(aliases', new.aliased)
      BY <2>1, <2>3 DEF Applied
    <3>3. new.revision <= revision'
      BY <2>1, <2>3 DEF TypeOK
    <3> HIDE DEF new
    <3> QED
      BY <2>2, <2>3, <3>1, <3>2, <3>3 DEF SnapshotsStep
  <2> QED
    BY <2>4, <2>5
<1>3. CASE UNCHANGED <<snapshots, derived>>
  BY <1>3 DEF SnapshotsStep
<1>4. ASSUME NEW r \in Request,
             BeginLearn(r) \/ AddEvidence(r) \/ RegisterAlias(r) \/ RegisterDone(r)
             \/ BeginForget(r) \/ RemoveEvidence(r) \/ WriteAlias(r)
             \/ BeginCurrent(r) \/ ReadLatest(r) \/ CompareRevision(r)
             \/ ReadEvidence(r) \/ ReadRevision(r) \/ ReadAliases(r)
             \/ ReadVersion(r) \/ Fail(r)
      PROVE UNCHANGED <<snapshots, derived>>
  BY <1>4 DEF database, BeginLearn, AddEvidence, RegisterAlias, RegisterDone, BeginForget,
     RemoveEvidence, WriteAlias, BeginCurrent, ReadLatest, CompareRevision, ReadEvidence,
     ReadRevision, ReadAliases, ReadVersion, Fail
<1>5. CASE WriteLabel \/ UNCHANGED vars
  BY <1>3, <1>5 DEF WriteLabel, vars, database
<1> QED
  BY <1>1, <1>2, <1>3, <1>4, <1>5 DEF Next

\* The revision never goes back, and whatever changes the active aliases
\* advances it.
RevisionStep ==
  \/ UNCHANGED <<aliases, revision>>
  \/ revision' = revision + 1 /\ UNCHANGED enabled

LEMMA RevisionShape == TypeOK /\ [Next]_vars => RevisionStep
<1> SUFFICES ASSUME TypeOK, [Next]_vars PROVE RevisionStep
  OBVIOUS
<1> USE DEF RevisionStep, Bump, database, daemon
<1>1. ASSUME NEW r \in Request,
             BeginLearn(r) \/ RegisterDone(r) \/ BeginForget(r) \/ BeginCurrent(r)
             \/ ReadLatest(r) \/ CompareRevision(r) \/ ReadEvidence(r) \/ ReadRevision(r)
             \/ ReadAliases(r) \/ ReadVersion(r) \/ Replace(r) \/ Fail(r)
      PROVE UNCHANGED <<aliases, revision>>
  BY <1>1 DEF BeginLearn, RegisterDone, BeginForget, BeginCurrent, ReadLatest,
     CompareRevision, ReadEvidence, ReadRevision, ReadAliases, ReadVersion, Replace, Fail
<1>2. ASSUME NEW r \in Request,
             AddEvidence(r) \/ RegisterAlias(r) \/ RemoveEvidence(r) \/ WriteAlias(r)
      PROVE RevisionStep
  BY <1>2 DEF AddEvidence, RegisterAlias, RemoveEvidence, WriteAlias, Begin
<1>3. CASE WriteLabel \/ Restart \/ UNCHANGED vars
  BY <1>3 DEF WriteLabel, Restart, vars
<1> QED
  BY <1>1, <1>2, <1>3 DEF Next

LEMMA SnapshotsCorrectStep == IInv /\ [Next]_vars => SnapshotsCorrect'
<1> SUFFICES ASSUME IInv, [Next]_vars, NEW v \in 1..Len(snapshots')
             PROVE /\ snapshots'[v].revision <= revision'
                   /\ snapshots'[v].revision = revision' =>
                        snapshots'[v].content.aliases = Applied(aliases', snapshots'[v].aliased)
  BY DEF SnapshotsCorrect, Applied
<1>1. TypeOK /\ SnapshotsCorrect
  BY DEF IInv
<1>2. RevisionStep /\ SnapshotsStep
  BY <1>1, SnapshotsShape, RevisionShape
<1>3. ASSUME v \in 1..Len(snapshots), snapshots'[v] = snapshots[v]
      PROVE /\ snapshots'[v].revision <= revision'
            /\ snapshots'[v].revision = revision' =>
                 snapshots'[v].content.aliases = Applied(aliases', snapshots'[v].aliased)
  <2>1. snapshots[v] \in SnapshotType /\ revision \in Nat
    BY <1>1, <1>3 DEF TypeOK
  <2>2. /\ snapshots[v].revision \in Nat
        /\ snapshots[v].revision <= revision
        /\ snapshots[v].revision = revision =>
             snapshots[v].content.aliases = Applied(aliases, snapshots[v].aliased)
    BY <1>1, <1>3, <2>1 DEF SnapshotsCorrect, SnapshotType
  <2>3. CASE UNCHANGED <<aliases, revision>>
    BY <1>3, <2>2, <2>3 DEF Applied
  <2>4. CASE revision' = revision + 1
    BY <1>3, <2>1, <2>2, <2>4
  <2> QED
    BY <1>2, <2>3, <2>4 DEF RevisionStep
<1>4. CASE UNCHANGED <<snapshots, derived>>
  BY <1>3, <1>4
<1>5. CASE \E s \in SnapshotType :
             /\ snapshots' = Append(snapshots, s)
             /\ s.revision <= revision'
             /\ s.revision = revision' => s.content.aliases = Applied(aliases', s.aliased)
  <2>1. PICK s \in SnapshotType :
             /\ snapshots' = Append(snapshots, s)
             /\ s.revision <= revision'
             /\ s.revision = revision' => s.content.aliases = Applied(aliases', s.aliased)
    BY <1>5
  <2>2. snapshots \in Seq(SnapshotType)
    BY <1>1 DEF TypeOK
  <2>3. CASE v = Len(snapshots) + 1
    <3>1. snapshots'[v] = s
      BY <2>1, <2>2, <2>3
    <3> QED
      BY <2>1, <3>1 DEF Applied
  <2>4. CASE v # Len(snapshots) + 1
    <3>1. v \in 1..Len(snapshots) /\ snapshots'[v] = snapshots[v]
      BY <2>1, <2>2, <2>4
    <3> QED
      BY <1>3, <3>1
  <2> QED
    BY <2>3, <2>4
<1> QED
  BY <1>2, <1>4, <1>5 DEF SnapshotsStep

LEMMA LatestStep ==
  IInv /\ [Next]_vars => AlgorithmMatchesSettings' /\ DerivedRowsMatchLatest'
<1> SUFFICES ASSUME IInv, [Next]_vars
             PROVE  AlgorithmMatchesSettings' /\ DerivedRowsMatchLatest'
  OBVIOUS
<1>1. TypeOK /\ SnapshotsStep /\ AlgorithmMatchesSettings /\ DerivedRowsMatchLatest
  BY SnapshotsShape DEF IInv
<1>2. ASSUME NEW s \in SnapshotType, snapshots' = Append(snapshots, s),
             derived' = s.content, s.aliased = enabled'
      PROVE  AlgorithmMatchesSettings' /\ DerivedRowsMatchLatest'
  <2>1. snapshots' # <<>> /\ snapshots'[Len(snapshots')] = s
    BY <1>1, <1>2 DEF TypeOK
  <2> QED
    BY <1>2, <2>1 DEF AlgorithmMatchesSettings, DerivedRowsMatchLatest, Latest
<1>3. ASSUME UNCHANGED <<snapshots, derived>>, UNCHANGED enabled
      PROVE  AlgorithmMatchesSettings' /\ DerivedRowsMatchLatest'
  BY <1>1, <1>3 DEF AlgorithmMatchesSettings, DerivedRowsMatchLatest, Latest
<1>4. ASSUME UNCHANGED <<snapshots, derived>>, Restart
      PROVE  AlgorithmMatchesSettings' /\ DerivedRowsMatchLatest'
  <2>1. snapshots # <<>> => Latest.aliased = enabled'
    <3>1. CASE snapshots = <<>> \/ Fresh(enabled')
      BY <3>1 DEF Fresh
    <3>2. CASE ~(snapshots = <<>> \/ Fresh(enabled'))
      <4>1. \E s : snapshots' = Append(snapshots, s)
        BY <1>4, <3>2 DEF Restart
      <4> QED
        BY <1>1, <1>4, <4>1 DEF TypeOK
    <3> QED
      BY <3>1, <3>2
  <2> QED
    BY <1>1, <1>4, <2>1 DEF AlgorithmMatchesSettings, DerivedRowsMatchLatest, Latest
<1>5. Restart \/ UNCHANGED enabled
  BY DEF Next, daemon, vars, Begin, BeginLearn, AddEvidence, RegisterAlias, RegisterDone,
     BeginForget, RemoveEvidence, WriteAlias, BeginCurrent, ReadLatest, CompareRevision,
     ReadEvidence, ReadRevision, ReadAliases, ReadVersion, Replace, Fail, WriteLabel
<1> QED
  BY <1>1, <1>2, <1>3, <1>4, <1>5 DEF SnapshotsStep

\* A step of another request, or of none, that leaves r's locals alone.
LEMMA ReadUndisturbed ==
  ASSUME IInv, [Next]_vars, NEW r \in Request,
         pc'[r] = pc[r], start'[r] = start[r], stamp'[r] = stamp[r],
         seenAliases'[r] = seenAliases[r], version'[r] = version[r],
         UNCHANGED enabled
  PROVE  ReadCorrect(r)'
<1>1. TypeOK /\ RevisionStep /\ SnapshotsStep /\ ReadsCorrect
  BY SnapshotsShape, RevisionShape DEF IInv
<1>2. Len(snapshots) <= Len(snapshots') /\ Len(snapshots) \in Nat /\ Len(snapshots') \in Nat
  <2>1. CASE UNCHANGED snapshots
    BY <1>1, <2>1 DEF TypeOK
  <2>2. CASE \E s \in SnapshotType : snapshots' = Append(snapshots, s)
    BY <1>1, <2>2 DEF TypeOK
  <2> QED
    BY <1>1, <2>1, <2>2 DEF SnapshotsStep
<1>3. /\ start[r] \in Nat /\ stamp[r] \in Nat /\ version[r] \in Nat /\ revision \in Nat
  BY <1>1 DEF TypeOK
<1>4. CASE UNCHANGED <<aliases, revision>>
  BY <1>1, <1>2, <1>3, <1>4 DEF ReadsCorrect, ReadCorrect, Applied
<1>5. CASE revision' = revision + 1
  BY <1>1, <1>2, <1>3, <1>5 DEF ReadsCorrect, ReadCorrect
<1> QED
  BY <1>1, <1>4, <1>5 DEF RevisionStep

LEMMA ReadsCorrectStep == IInv /\ [Next]_vars => ReadsCorrect'
<1> SUFFICES ASSUME IInv, [Next]_vars, NEW q \in Request PROVE ReadCorrect(q)'
  BY DEF ReadsCorrect
<1>1. TypeOK /\ ReadCorrect(q) /\ RevisionStep
  BY RevisionShape DEF IInv, ReadsCorrect
<1>2. /\ start[q] \in Nat /\ stamp[q] \in Nat /\ version[q] \in Nat /\ revision \in Nat
      /\ Len(snapshots) \in Nat
  BY <1>1 DEF TypeOK
\* A step that moves q to a label where nothing is claimed of its reads.
<1>3. ASSUME start'[q] <= revision',
             pc'[q] \notin {"aliases", "version", "replace", "compare"}
      PROVE  ReadCorrect(q)'
  BY <1>3 DEF ReadCorrect
<1>4. ASSUME NEW r \in Request,
             BeginLearn(r) \/ BeginForget(r) \/ WriteAlias(r) \/ BeginCurrent(r)
      PROVE  ReadCorrect(q)'
  <2>1. CASE q = r
    <3>1. /\ start'[q] = revision /\ revision <= revision'
          /\ pc'[q] \in {"add", "remove", "evidence", "latest"}
      BY <1>1, <1>2, <1>4, <2>1 DEF TypeOK, Begin, Goto, Bump, database,
         BeginLearn, BeginForget, WriteAlias, BeginCurrent
    <3> QED
      BY <1>3, <3>1
  <2>2. CASE q # r
    <3>1. /\ pc'[q] = pc[q] /\ start'[q] = start[q]
          /\ UNCHANGED <<stamp, seenAliases, version, enabled>>
      BY <1>1, <1>4, <2>2 DEF TypeOK, Begin, Goto, daemon, reading,
         BeginLearn, BeginForget, WriteAlias, BeginCurrent
    <3> QED
      BY <3>1, ReadUndisturbed
  <2> QED
    BY <2>1, <2>2
<1>5. ASSUME NEW r \in Request,
             AddEvidence(r) \/ RegisterAlias(r) \/ RegisterDone(r) \/ RemoveEvidence(r)
             \/ ReadEvidence(r) \/ Fail(r) \/ Replace(r) \/ CompareRevision(r)
      PROVE  ReadCorrect(q)'
  <2>1. UNCHANGED <<start, stamp, seenAliases, version, enabled>>
    BY <1>5 DEF daemon, request, reading, AddEvidence, RegisterAlias, RegisterDone,
       RemoveEvidence, ReadEvidence, Fail, Replace, CompareRevision
  <2>2. CASE pc'[q] = pc[q]
    BY <2>1, <2>2, ReadUndisturbed
  <2>3. CASE pc'[q] # pc[q]
    <3>1. pc'[q] \notin {"aliases", "version", "replace", "compare"}
      BY <1>1, <1>5, <2>3 DEF TypeOK, Goto, AddEvidence, RegisterAlias, RegisterDone,
         RemoveEvidence, ReadEvidence, Fail, Replace, CompareRevision
    <3>2. start[q] <= revision'
      BY <1>1, <1>2 DEF ReadCorrect, RevisionStep
    <3> QED
      BY <1>3, <2>1, <3>1, <3>2
  <2> QED
    BY <2>2, <2>3
<1>6. ASSUME NEW r \in Request,
             ReadLatest(r) \/ ReadRevision(r) \/ ReadAliases(r) \/ ReadVersion(r)
      PROVE  ReadCorrect(q)'
  <2>1. UNCHANGED <<database, daemon, request>>
    BY <1>6 DEF ReadLatest, ReadRevision, ReadAliases, ReadVersion
  <2>2. CASE q # r
    <3>1. /\ pc'[q] = pc[q] /\ stamp'[q] = stamp[q]
          /\ seenAliases'[q] = seenAliases[q] /\ version'[q] = version[q]
      BY <1>1, <1>6, <2>2 DEF TypeOK, Goto, ReadLatest, ReadRevision, ReadAliases, ReadVersion
    <3> QED
      BY <2>1, <3>1, ReadUndisturbed DEF daemon, request
  <2>3. CASE q = r /\ ReadLatest(r)
    <3>1. version'[q] = Len(snapshots) /\ pc'[q] \in {"compare", "evidence"}
      BY <1>1, <2>3 DEF ReadLatest, Goto, TypeOK
    <3>2. pc'[q] = "compare" => Len(snapshots) \in 1..Len(snapshots)
      BY <1>1, <2>3 DEF ReadLatest, Goto, TypeOK
    <3> QED
      BY <1>1, <2>1, <3>1, <3>2 DEF ReadCorrect, database, request
  <2>4. CASE q = r /\ ReadRevision(r)
    <3>1. stamp'[q] = revision /\ pc'[q] = "aliases"
      BY <1>1, <2>4 DEF ReadRevision, Goto, TypeOK
    <3> QED
      BY <1>1, <1>2, <2>1, <3>1 DEF ReadCorrect, database, request
  <2>5. CASE q = r /\ ReadAliases(r)
    <3>1. /\ pc[q] = "aliases" /\ pc'[q] = "version"
          /\ seenAliases'[q] = Applied(aliases, enabled) /\ stamp' = stamp
      BY <1>1, <2>5 DEF ReadAliases, Goto, TypeOK, ActiveAliases, Applied
    <3> QED
      BY <1>1, <2>1, <3>1 DEF ReadCorrect, database, daemon, request, Applied
  <2>6. CASE q = r /\ ReadVersion(r)
    <3>1. pc[q] = "version" /\ pc'[q] = "replace" /\ UNCHANGED <<stamp, seenAliases>>
      BY <1>1, <2>6 DEF ReadVersion, Goto, TypeOK
    <3> QED
      BY <1>1, <2>1, <3>1 DEF ReadCorrect, database, daemon, request, Applied
  <2> QED
    BY <1>6, <2>2, <2>3, <2>4, <2>5, <2>6
<1>7. CASE WriteLabel \/ UNCHANGED vars
  BY <1>7, ReadUndisturbed DEF WriteLabel, vars, daemon, request, reading
<1>8. CASE Restart
  <2>1. pc'[q] \in {"idle", "done", "failed"} /\ UNCHANGED <<start, revision>>
    BY <1>8 DEF Restart, request
  <2> QED
    BY <1>1, <1>3, <2>1 DEF ReadCorrect
<1> QED
  BY <1>4, <1>5, <1>6, <1>7, <1>8 DEF Next

\* A step keeps every snapshot and its version.
SnapshotsKept ==
  \A v \in 1..Len(snapshots) : v <= Len(snapshots') /\ snapshots'[v] = snapshots[v]

LEMMA KeptStep == TypeOK /\ SnapshotsStep => SnapshotsKept
<1> SUFFICES ASSUME TypeOK, SnapshotsStep, NEW v \in 1..Len(snapshots)
             PROVE  v <= Len(snapshots') /\ snapshots'[v] = snapshots[v]
  BY DEF SnapshotsKept
<1>1. snapshots \in Seq(SnapshotType)
  BY DEF TypeOK
<1>2. CASE UNCHANGED snapshots
  BY <1>1, <1>2
<1>3. CASE \E s \in SnapshotType : snapshots' = Append(snapshots, s)
  BY <1>1, <1>3
<1> QED
  BY <1>2, <1>3 DEF SnapshotsStep

\* A request that ends a read hands out a version that exists and that is not
\* older than the request.
ResultCorrect(r) ==
  /\ result[r] \in 0..Len(snapshots)
  /\ pc[r] = "idle" => result[r] = 0
  /\ kind[r] = "current" /\ result[r] # 0 => snapshots[result[r]].revision >= start[r]

LEMMA ResultUndisturbed ==
  ASSUME IInv, [Next]_vars, NEW r \in Request, result'[r] = result[r],
         pc'[r] = "idle" => pc[r] = "idle",
         pc[r] = "idle" \/ (kind'[r] = kind[r] /\ start'[r] = start[r])
  PROVE  ResultCorrect(r)'
<1>1. TypeOK /\ SnapshotsKept
  BY SnapshotsShape, KeptStep DEF IInv
<1>2. /\ result[r] \in 0..Len(snapshots) /\ (pc[r] = "idle" => result[r] = 0)
      /\ kind[r] = "current" /\ result[r] # 0 => snapshots[result[r]].revision >= start[r]
  BY DEF IInv, ResultsCorrect, CurrentIsRecent
<1>3. Len(snapshots) \in Nat /\ Len(snapshots') \in Nat
  BY <1>1, TypeStep DEF TypeOK
<1>4. CASE result[r] = 0
  BY <1>2, <1>3, <1>4 DEF ResultCorrect
<1>5. CASE result[r] # 0
  BY <1>1, <1>2, <1>3, <1>5 DEF ResultCorrect, SnapshotsKept
<1> QED
  BY <1>4, <1>5

LEMMA ResultsCorrectStep == IInv /\ [Next]_vars => ResultsCorrect' /\ CurrentIsRecent'
<1> SUFFICES ASSUME IInv, [Next]_vars, NEW q \in Request PROVE ResultCorrect(q)'
  BY DEF ResultsCorrect, CurrentIsRecent, ResultCorrect
<1>1. TypeOK /\ TypeOK' /\ ReadCorrect(q)
  BY TypeStep DEF IInv, ReadsCorrect
<1>2. /\ start[q] \in Nat /\ stamp[q] \in Nat /\ version[q] \in Nat /\ revision \in Nat
      /\ Len(snapshots) \in Nat
  BY <1>1 DEF TypeOK
<1>3. ASSUME NEW r \in Request,
             BeginLearn(r) \/ BeginForget(r) \/ WriteAlias(r) \/ BeginCurrent(r)
      PROVE  ResultCorrect(q)'
  <2>1. /\ UNCHANGED result
        /\ q # r => pc'[q] = pc[q] /\ kind'[q] = kind[q] /\ start'[q] = start[q]
        /\ q = r => pc[q] = "idle"
    BY <1>1, <1>3 DEF TypeOK, Begin, Goto, BeginLearn, BeginForget, WriteAlias, BeginCurrent
  <2> QED
    BY <2>1, ResultUndisturbed
<1>4. ASSUME NEW r \in Request,
             AddEvidence(r) \/ RegisterAlias(r) \/ RegisterDone(r) \/ RemoveEvidence(r)
             \/ ReadEvidence(r) \/ ReadLatest(r) \/ ReadRevision(r) \/ ReadAliases(r)
             \/ ReadVersion(r) \/ Fail(r)
      PROVE  ResultCorrect(q)'
  <2>1. UNCHANGED <<kind, start, result>>
    BY <1>4 DEF request, AddEvidence, RegisterAlias, RegisterDone, RemoveEvidence,
       ReadEvidence, ReadLatest, ReadRevision, ReadAliases, ReadVersion, Fail
  <2>2. pc'[q] = "idle" => pc[q] = "idle"
    BY <1>1, <1>4 DEF TypeOK, Goto, AddEvidence, RegisterAlias, RegisterDone, RemoveEvidence,
       ReadEvidence, ReadLatest, ReadRevision, ReadAliases, ReadVersion, Fail
  <2> QED
    BY <2>1, <2>2, ResultUndisturbed
<1>5. ASSUME NEW r \in Request, CompareRevision(r) PROVE ResultCorrect(q)'
  <2>1. CASE q = r /\ snapshots[version[r]].revision = revision
    <3>1. result' = [result EXCEPT ![r] = version[r]] /\ Goto(r, "done") /\ pc[r] = "compare"
      BY <1>5, <2>1 DEF CompareRevision
    <3>2. result'[q] = version[q] /\ pc'[q] = "done" /\ UNCHANGED <<snapshots, start>>
      BY <1>1, <1>5, <2>1, <3>1 DEF TypeOK, Goto, CompareRevision, database, request
    <3>3. version[q] \in 1..Len(snapshots) /\ start[q] <= revision
      BY <1>1, <2>1, <3>1 DEF ReadCorrect
    <3> QED
      BY <1>2, <2>1, <3>2, <3>3 DEF ResultCorrect
  <2>2. CASE ~(q = r /\ snapshots[version[r]].revision = revision)
    <3>1. result'[q] = result[q] /\ (pc'[q] = "idle" => pc[q] = "idle")
      BY <1>1, <1>5, <2>2 DEF TypeOK, Goto, CompareRevision
    <3> QED
      BY <1>5, <3>1, ResultUndisturbed DEF CompareRevision, request
  <2> QED
    BY <2>1, <2>2
<1>6. ASSUME NEW r \in Request, Replace(r) PROVE ResultCorrect(q)'
  <2>1. CASE q = r /\ version[r] = Len(snapshots)
    <3> DEFINE new == Snapshot(seenEvidence[r], seenAliases[r], stamp[r], enabled)
    <3>1. /\ snapshots' = Append(snapshots, new) /\ pc[r] = "replace" /\ UNCHANGED start
          /\ result' = [result EXCEPT ![r] = version[r] + 1] /\ Goto(r, "done")
      BY <1>6, <2>1 DEF Replace, request
    <3>2. new \in SnapshotType /\ new.revision = stamp[r]
      BY <1>1 DEF TypeOK, SnapshotType, ContentType, Snapshot, Content
    <3>3. start[q] <= stamp[q]
      BY <1>1, <2>1, <3>1 DEF ReadCorrect
    <3> HIDE DEF new
    <3>4. result'[q] = Len(snapshots) + 1 /\ pc'[q] = "done"
      BY <1>1, <2>1, <3>1 DEF TypeOK, Goto
    <3>5. Len(snapshots') = Len(snapshots) + 1 /\ snapshots'[Len(snapshots) + 1] = new
      BY <1>1, <3>1, <3>2 DEF TypeOK
    <3> QED
      BY <1>2, <2>1, <3>1, <3>2, <3>3, <3>4, <3>5 DEF ResultCorrect
  <2>2. CASE ~(q = r /\ version[r] = Len(snapshots))
    <3>1. result'[q] = result[q] /\ (pc'[q] = "idle" => pc[q] = "idle")
      <4>1. CASE version[r] = Len(snapshots)
        BY <1>1, <1>6, <2>2, <4>1 DEF TypeOK, Goto, Replace
      <4>2. CASE version[r] # Len(snapshots)
        BY <1>1, <1>6, <4>2 DEF TypeOK, Goto, Replace
      <4> QED
        BY <4>1, <4>2
    <3> QED
      BY <1>6, <3>1, ResultUndisturbed DEF Replace, request
  <2> QED
    BY <2>1, <2>2
<1>7. CASE WriteLabel \/ UNCHANGED vars
  BY <1>7, ResultUndisturbed DEF WriteLabel, vars, request
<1>8. CASE Restart
  <2>1. UNCHANGED <<kind, start, result>> /\ (pc'[q] = "idle" => pc[q] = "idle")
    BY <1>1, <1>8 DEF Restart, request, TypeOK
  <2> QED
    BY <2>1, ResultUndisturbed
<1> QED
  BY <1>3, <1>4, <1>5, <1>6, <1>7, <1>8 DEF Next

LEMMA InvStep == IInv /\ [Next]_vars => IInv'
  BY TypeStep, SnapshotsCorrectStep, ReadsCorrectStep, ResultsCorrectStep, LatestStep DEF IInv

THEOREM InvCorrect == Spec => []IInv
  BY InitInv, InvStep, PTL DEF Spec

-----------------------------------------------------------------------------
\* Whatever writes alias rows, rebuilds, fails or restarts at the same time, a
\* snapshot that current() serves without rebuilding has the active aliases.
THEOREM AliasesFresh == Spec => []FreshSnapshotHasActiveAliases
<1>1. IInv => FreshSnapshotHasActiveAliases
  <2> SUFFICES ASSUME IInv, Fresh(enabled)
               PROVE  Latest.content.aliases = ActiveAliases
    BY DEF FreshSnapshotHasActiveAliases
  <2>1. Len(snapshots) \in 1..Len(snapshots)
    BY DEF IInv, TypeOK, Fresh
  <2> QED
    BY <2>1 DEF IInv, SnapshotsCorrect, Fresh, Latest, ActiveAliases, Applied
<1> QED
  BY <1>1, InvCorrect, PTL

\* current() never answers with a snapshot older than its request.
THEOREM CurrentRecent == Spec => []CurrentIsRecent
<1>1. IInv => CurrentIsRecent
  BY DEF IInv
<1> QED
  BY <1>1, InvCorrect, PTL

\* After any restart the latest snapshot is of the configured algorithm.
THEOREM AlgorithmMatches == Spec => []AlgorithmMatchesSettings
<1>1. IInv => AlgorithmMatchesSettings
  BY DEF IInv
<1> QED
  BY <1>1, InvCorrect, PTL

\* The derived rows are those of the latest snapshot.
THEOREM DerivedRowsMatch == Spec => []DerivedRowsMatchLatest
<1>1. IInv => DerivedRowsMatchLatest
  BY DEF IInv
<1> QED
  BY <1>1, InvCorrect, PTL

\* No step changes or drops a stored snapshot.
THEOREM SnapshotsImmutable == Spec => SnapshotsAreImmutable
<1>1. IInv /\ [Next]_vars =>
        [\A v \in 1..Len(snapshots) :
           v <= Len(snapshots') /\ snapshots'[v] = snapshots[v]]_vars
  BY SnapshotsShape, KeptStep DEF IInv, SnapshotsKept
<1> QED
  BY <1>1, InvCorrect, PTL DEF Spec, SnapshotsAreImmutable

-----------------------------------------------------------------------------
(* What a request that learns or forgets has written, and what it answers. *)
Building == {"evidence", "revision", "aliases", "version", "replace"}
HasRead == {"revision", "aliases", "version", "replace"}
Writing(r) == CASE pc[r] \in {"add", "register"} -> "learn" [] pc[r] = "remove" -> "forget"
                [] pc[r] \in {"latest", "compare"} -> "current" [] OTHER -> kind[r]

\* Evidence that the request adds is unused until it is added, and nobody
\* else's; what it deletes stays deleted; it has read what it has written.
OwnOK(r) ==
  /\ kind[r] = Writing(r)
  /\ todo[r] \subseteq items[r] /\ \A e \in todo[r] : status[e] = "unused"
  /\ todo[r] # {} => kind[r] = "learn" /\ pc[r] \in {"add", "failed"}
  /\ kind[r] = "learn" => \A e \in items[r] \ todo[r] : status[e] # "unused"
  /\ kind[r] = "forget" /\ (pc[r] \in Building \/ result[r] # 0) =>
       \A e \in items[r] : status[e] = "deleted"
  /\ pc[r] \in HasRead =>
       /\ kind[r] = "learn" => items[r] \cap Stored \subseteq seenEvidence[r]
       /\ kind[r] = "forget" => items[r] \cap seenEvidence[r] = {}
  /\ result[r] # 0 =>
       /\ pc[r] = "done"
       /\ kind[r] = "learn" => items[r] \cap Stored \subseteq snapshots[result[r]].content.evidence
       /\ kind[r] = "forget" => items[r] \cap snapshots[result[r]].content.evidence = {}

OwnInv ==
  /\ \A r \in Request : OwnOK(r)
  /\ \A q, r \in Request : q # r => todo[q] \cap items[r] = {}

LEMMA OwnStart == Init => OwnInv
BY DEF Init, OwnInv, OwnOK, Writing, HasRead, Building

\* Evidence that is not a request's own to add only goes.
Goes(e) == status'[e] = status[e] \/ (status[e] = "stored" /\ status'[e] = "deleted")

\* The requests that a step leaves alone, or fails.
LEMMA OwnUndisturbed ==
  ASSUME IInv, [Next]_vars, NEW q \in Request, OwnOK(q),
         kind'[q] = kind[q], items'[q] = items[q], todo'[q] = todo[q],
         seenEvidence'[q] = seenEvidence[q], result'[q] = result[q],
         pc'[q] = pc[q] \/ (pc'[q] = "failed" /\ pc[q] # "done"),
         \A e \in items[q] : Goes(e)
  PROVE  OwnOK(q)'
<1>1. TypeOK /\ SnapshotsKept /\ result[q] \in 0..Len(snapshots) /\ Len(snapshots) \in Nat
  BY SnapshotsShape, KeptStep DEF IInv, ResultsCorrect, TypeOK
<1>2. result[q] # 0 => snapshots'[result[q]] = snapshots[result[q]]
  BY <1>1 DEF SnapshotsKept
<1>3. items[q] \subseteq Evidence /\ todo[q] \subseteq items[q]
  BY <1>1 DEF TypeOK, OwnOK
<1>4. items[q] \cap Stored' \subseteq items[q] \cap Stored
  BY <1>3 DEF Stored, Goes
<1>5. kind'[q] = Writing(q)' /\ (pc'[q] \in Building => pc[q] \in Building)
      /\ (pc'[q] \in HasRead => pc[q] \in HasRead)
  BY DEF OwnOK, Writing, Building, HasRead
<1>6. /\ \A e \in todo[q] : status'[e] = "unused"
      /\ todo[q] # {} => kind[q] = "learn" /\ pc'[q] \in {"add", "failed"}
  BY <1>3 DEF OwnOK, Goes
<1>7. /\ kind[q] = "learn" => \A e \in items[q] \ todo[q] : status'[e] # "unused"
      /\ kind[q] = "forget" /\ (pc'[q] \in Building \/ result[q] # 0) =>
           \A e \in items[q] : status'[e] = "deleted"
  BY <1>5 DEF OwnOK, Goes
<1>8. pc'[q] \in HasRead =>
        /\ kind[q] = "learn" => items[q] \cap Stored' \subseteq seenEvidence[q]
        /\ kind[q] = "forget" => items[q] \cap seenEvidence[q] = {}
  BY <1>4, <1>5 DEF OwnOK
<1>9. result[q] # 0 =>
        /\ pc'[q] = "done"
        /\ kind[q] = "learn" => items[q] \cap Stored' \subseteq snapshots'[result[q]].content.evidence
        /\ kind[q] = "forget" => items[q] \cap snapshots'[result[q]].content.evidence = {}
  BY <1>2, <1>4 DEF OwnOK
<1>. QED  BY <1>3, <1>5, <1>6, <1>7, <1>8, <1>9 DEF OwnOK

LEMMA OwnBegins ==
  ASSUME IInv, [Next]_vars, OwnInv, NEW r \in Request,
         BeginLearn(r) \/ BeginForget(r) \/ WriteAlias(r) \/ BeginCurrent(r)
  PROVE  OwnInv'
<1>1. TypeOK /\ OwnOK(r) /\ pc[r] = "idle" /\ result[r] = 0 /\ todo[r] = {}
  BY DEF IInv, ResultsCorrect, OwnInv, OwnOK, BeginLearn, BeginForget, WriteAlias, BeginCurrent, Begin
<1>2. PICK k, S : Begin(r, k, S)
  BY DEF BeginLearn, BeginForget, WriteAlias, BeginCurrent
<1>3. /\ kind' = [kind EXCEPT ![r] = k] /\ items' = [items EXCEPT ![r] = S]
      /\ UNCHANGED <<seenEvidence, result, status>>
  BY <1>2 DEF Begin, reading, BeginLearn, BeginForget, WriteAlias, BeginCurrent, database
<1>4. \E l : pc' = [pc EXCEPT ![r] = l]
  BY DEF BeginLearn, BeginForget, WriteAlias, BeginCurrent, Goto
<1>5. \A q \in Request : q # r => todo'[q] = todo[q]
  BY <1>1 DEF BeginLearn, BeginForget, WriteAlias, BeginCurrent, TypeOK
<1>6. ASSUME NEW q \in Request, q # r PROVE OwnOK(q)'
  BY <1>1, <1>3, <1>4, <1>5, <1>6, OwnUndisturbed DEF OwnInv, Goes, TypeOK
<1>7. CASE BeginLearn(r)
  <2>1. PICK T \in SUBSET {e \in Evidence : status[e] = "unused"} :
          /\ \A q \in Request : T \cap items[q] = {}
          /\ Begin(r, "learn", T) /\ todo' = [todo EXCEPT ![r] = T] /\ Goto(r, "add")
    BY <1>7 DEF BeginLearn
  <2>2. kind'[r] = "learn" /\ items'[r] = T /\ todo'[r] = T /\ pc'[r] = "add"
    BY <1>1, <2>1 DEF Begin, Goto, TypeOK
  <2>3. OwnOK(r)'
    BY <1>1, <1>3, <2>1, <2>2 DEF OwnOK, Writing, HasRead, Building
  <2>4. \A p, q \in Request : p # q => todo'[p] \cap items'[q] = {}
    <3>1. ASSUME NEW p \in Request, NEW q \in Request, p # q PROVE todo'[p] \cap items'[q] = {}
      <4>1. q # r => items'[q] = items[q]
        BY <1>1, <1>3 DEF TypeOK
      <4>2. todo[p] \subseteq items[p] /\ todo[p] \cap items[q] = {}
        BY <3>1 DEF OwnInv, OwnOK
      <4>. QED  BY <1>5, <2>1, <2>2, <3>1, <4>1, <4>2
    <3>. QED  BY <3>1
  <2>. QED  BY <1>6, <2>3, <2>4 DEF OwnInv
<1>8. CASE BeginForget(r) \/ WriteAlias(r) \/ BeginCurrent(r)
  <2>1. /\ todo' = todo /\ items'[r] \subseteq Stored
        /\ \/ kind'[r] = "forget" /\ pc'[r] = "remove"
           \/ kind'[r] = "alias" /\ pc'[r] = "evidence"
           \/ kind'[r] = "current" /\ pc'[r] = "latest"
    BY <1>1, <1>8 DEF BeginForget, WriteAlias, BeginCurrent, Begin, Goto, TypeOK
  <2>2. OwnOK(r)'
    BY <1>1, <1>3, <2>1 DEF OwnOK, Writing, HasRead, Building
  <2>3. \A p, q \in Request : p # q => todo'[p] \cap items'[q] = {}
    <3>1. ASSUME NEW p \in Request, NEW q \in Request, p # q PROVE todo'[p] \cap items'[q] = {}
      <4>1. q # r => items'[q] = items[q]
        BY <1>1, <1>3 DEF TypeOK
      <4>2. todo[p] \cap items[q] = {} /\ todo[p] \cap Stored = {}
        BY <3>1 DEF OwnInv, OwnOK, Stored
      <4>. QED  BY <2>1, <3>1, <4>1, <4>2
    <3>. QED  BY <3>1
  <2>. QED  BY <1>6, <2>2, <2>3 DEF OwnInv
<1>. QED  BY <1>7, <1>8

\* What a step of one request that goes on says of its own part.
LEMMA OwnEnds ==
  ASSUME IInv, [Next]_vars, OwnInv, NEW r \in Request, OwnOK(r)',
         UNCHANGED items, \A q \in Request : todo'[q] \subseteq todo[q],
         \A q \in Request : q # r =>
           /\ kind'[q] = kind[q] /\ todo'[q] = todo[q] /\ pc'[q] = pc[q]
           /\ seenEvidence'[q] = seenEvidence[q] /\ result'[q] = result[q]
           /\ \A e \in items[q] : Goes(e)
  PROVE  OwnInv'
<1>1. ASSUME NEW q \in Request, q # r PROVE OwnOK(q)'
  BY <1>1, OwnUndisturbed DEF OwnInv
<1>. QED  BY <1>1 DEF OwnInv

LEMMA OwnWrites ==
  ASSUME IInv, [Next]_vars, OwnInv, NEW r \in Request,
         AddEvidence(r) \/ RegisterDone(r) \/ RemoveEvidence(r)
  PROVE  OwnInv'
<1>1. /\ TypeOK /\ OwnOK(r) /\ pc[r] \in {"add", "register", "remove"} /\ result[r] = 0
      /\ UNCHANGED <<kind, items, seenEvidence, result>>
  BY DEF IInv, OwnInv, OwnOK, AddEvidence, RegisterDone, RemoveEvidence, request, reading
<1>2. \A q \in Request : q # r => pc'[q] = pc[q]
  BY <1>1 DEF AddEvidence, RegisterDone, RemoveEvidence, Goto, TypeOK
<1>3. CASE AddEvidence(r)
  <2>1. PICK e \in todo[r] :
          /\ status' = [status EXCEPT ![e] = "stored"] /\ todo' = [todo EXCEPT ![r] = @ \ {e}]
          /\ Goto(r, IF todo[r] = {e} THEN "register" ELSE "add") /\ pc[r] = "add"
    BY <1>3 DEF AddEvidence
  <2>2. /\ todo'[r] = todo[r] \ {e} /\ \A q \in Request : q # r => todo'[q] = todo[q]
        /\ pc'[r] = IF todo[r] = {e} THEN "register" ELSE "add"
        /\ e \in Evidence /\ status'[e] = "stored" /\ \A f \in Evidence : f # e => status'[f] = status[f]
    BY <1>1, <2>1 DEF TypeOK, Goto
  <2>3. items[r] \subseteq Evidence /\ todo[r] \subseteq items[r] /\ kind[r] = "learn"
    BY <1>1, <2>1 DEF TypeOK, OwnOK, Writing
  <2>4. OwnOK(r)'
    BY <1>1, <2>1, <2>2, <2>3 DEF OwnOK, Writing, HasRead, Building
  <2>5. \A q \in Request : q # r => \A f \in items[q] : Goes(f)
    BY <1>1, <2>1, <2>2 DEF OwnInv, Goes, TypeOK
  <2>. QED  BY <1>1, <1>2, <2>2, <2>4, <2>5, OwnEnds
<1>4. CASE RegisterDone(r)
  <2>1. pc[r] = "register" /\ pc'[r] = "evidence" /\ UNCHANGED <<status, todo>>
    BY <1>1, <1>4 DEF RegisterDone, Goto, TypeOK, database
  <2>2. OwnOK(r)'
    BY <1>1, <2>1 DEF OwnOK, Writing, HasRead, Building
  <2>. QED  BY <1>1, <1>2, <2>1, <2>2, OwnEnds DEF Goes
<1>5. CASE RemoveEvidence(r)
  <2>1. pc[r] = "remove" /\ UNCHANGED todo /\ kind[r] = "forget" /\ todo[r] = {}
    BY <1>1, <1>5 DEF RemoveEvidence, OwnOK, Writing
  <2>2. CASE items[r] \subseteq Stored /\ pc'[r] = "evidence"
             /\ status' = [e \in Evidence |-> IF e \in items[r] THEN "deleted" ELSE status[e]]
    <3>1. OwnOK(r)'
      BY <1>1, <2>1, <2>2 DEF OwnOK, Writing, HasRead, Building, TypeOK
    <3>2. \A e \in Evidence : Goes(e)
      BY <2>2 DEF Goes, Stored
    <3>. QED  BY <1>1, <1>2, <2>1, <3>1, <3>2, OwnEnds DEF TypeOK
  <2>3. CASE pc'[r] = "done" /\ UNCHANGED status
    <3>1. OwnOK(r)'
      BY <1>1, <2>1, <2>3 DEF OwnOK, Writing, HasRead, Building
    <3>. QED  BY <1>1, <1>2, <2>1, <2>3, <3>1, OwnEnds DEF Goes
  <2>. QED  BY <1>1, <1>5, <2>2, <2>3 DEF RemoveEvidence, Goto, TypeOK
<1>. QED  BY <1>3, <1>4, <1>5

LEMMA OwnReads ==
  ASSUME IInv, [Next]_vars, OwnInv, NEW r \in Request,
         ReadLatest(r) \/ CompareRevision(r) \/ ReadEvidence(r) \/ ReadRevision(r) \/ ReadAliases(r) \/ ReadVersion(r)
  PROVE  OwnInv'
<1>1. /\ TypeOK /\ OwnOK(r) /\ pc[r] \in {"latest", "compare", "evidence", "revision", "aliases", "version"} /\ result[r] = 0
      /\ UNCHANGED <<kind, items, todo, status, snapshots>>
  BY DEF IInv, OwnInv, OwnOK, ReadLatest, CompareRevision, ReadEvidence, ReadRevision, ReadAliases, ReadVersion,
         request, database
<1>2. \A q \in Request : q # r =>
        pc'[q] = pc[q] /\ seenEvidence'[q] = seenEvidence[q] /\ result'[q] = result[q]
  BY <1>1 DEF ReadLatest, CompareRevision, ReadEvidence, ReadRevision, ReadAliases, ReadVersion, Goto, TypeOK, reading
<1>3. CASE ReadEvidence(r)
  <2>1. pc[r] = "evidence" /\ pc'[r] = "revision" /\ seenEvidence'[r] = Stored /\ result'[r] = 0
    BY <1>1, <1>3 DEF ReadEvidence, Goto, TypeOK
  <2>2. OwnOK(r)'
    BY <1>1, <2>1 DEF OwnOK, Writing, HasRead, Building, Stored
  <2>. QED  BY <1>1, <1>2, <2>2, OwnEnds DEF Goes
<1>4. CASE ReadRevision(r) \/ ReadAliases(r) \/ ReadVersion(r)
  <2>1. pc[r] \in HasRead /\ pc'[r] \in HasRead /\ UNCHANGED <<seenEvidence, result>>
    BY <1>1, <1>4 DEF ReadRevision, ReadAliases, ReadVersion, Goto, TypeOK, HasRead
  <2>2. OwnOK(r)'
    BY <1>1, <2>1 DEF OwnOK, Writing, HasRead, Building, Stored
  <2>. QED  BY <1>1, <1>2, <2>2, OwnEnds DEF Goes
<1>5. CASE ReadLatest(r) \/ CompareRevision(r)
  <2>1. /\ pc[r] \in {"latest", "compare"} /\ pc'[r] \in {"compare", "evidence", "done"}
        /\ result'[r] # 0 => pc'[r] = "done"
    BY <1>1, <1>5 DEF ReadLatest, CompareRevision, Goto, TypeOK
  <2>2. kind[r] = "current" /\ todo[r] = {}
    BY <1>1, <2>1 DEF OwnOK, Writing
  <2>3. OwnOK(r)'
    BY <1>1, <2>1, <2>2 DEF OwnOK, Writing, HasRead, Building
  <2>. QED  BY <1>1, <1>2, <2>3, OwnEnds DEF Goes
<1>. QED  BY <1>3, <1>4, <1>5

LEMMA OwnReplaces ==
  ASSUME IInv, [Next]_vars, OwnInv, NEW r \in Request, Replace(r)
  PROVE  OwnInv'
<1>1. /\ TypeOK /\ OwnOK(r) /\ pc[r] = "replace" /\ result[r] = 0 /\ todo[r] = {}
      /\ UNCHANGED <<kind, items, todo, status, seenEvidence>>
  BY DEF IInv, OwnInv, OwnOK, Replace, request, reading
<1>2. \A q \in Request : q # r => pc'[q] = pc[q] /\ result'[q] = result[q]
  BY <1>1 DEF Replace, Goto, TypeOK
<1>3. CASE version[r] = Len(snapshots)
  <2>. DEFINE new == Snapshot(seenEvidence[r], seenAliases[r], stamp[r], enabled)
  <2>1. /\ snapshots' = Append(snapshots, new)
        /\ result' = [result EXCEPT ![r] = version[r] + 1] /\ Goto(r, "done")
    BY <1>3 DEF Replace
  <2>2. new \in SnapshotType /\ new.content.evidence = seenEvidence[r]
    BY <1>1 DEF TypeOK, SnapshotType, ContentType, Snapshot, Content
  <2>. HIDE DEF new
  <2>3. result'[r] = Len(snapshots) + 1 /\ pc'[r] = "done"
    BY <1>1, <1>3, <2>1 DEF TypeOK, Goto
  <2>4. snapshots'[Len(snapshots) + 1] = new
    BY <1>1, <2>1, <2>2 DEF TypeOK
  <2>5. snapshots'[result'[r]].content.evidence = seenEvidence[r]
    BY <2>2, <2>3, <2>4
  <2>6. kind[r] = "forget" => \A e \in items[r] : status[e] = "deleted"
    BY <1>1 DEF OwnOK, Building
  <2>7. /\ kind[r] = "learn" => items[r] \cap Stored \subseteq seenEvidence[r]
        /\ kind[r] = "forget" => items[r] \cap seenEvidence[r] = {}
    BY <1>1 DEF OwnOK, HasRead
  <2>8. Stored' = Stored
    BY <1>1 DEF Stored
  <2>9. OwnOK(r)'
    BY <1>1, <2>3, <2>5, <2>6, <2>7, <2>8 DEF OwnOK, Writing, HasRead, Building
  <2>. QED  BY <1>1, <1>2, <2>9, OwnEnds DEF Goes
<1>4. CASE version[r] # Len(snapshots)
  <2>1. pc'[r] = "failed" /\ UNCHANGED result
    BY <1>1, <1>4 DEF Replace, Goto, TypeOK
  <2>2. OwnOK(r)'
    BY <1>1, <2>1 DEF OwnOK, Writing, HasRead, Building
  <2>. QED  BY <1>1, <1>2, <2>2, OwnEnds DEF Goes
<1>. QED  BY <1>3, <1>4

LEMMA OwnStep == IInv /\ OwnInv /\ [Next]_vars => OwnInv'
<1>. SUFFICES ASSUME IInv, OwnInv, [Next]_vars PROVE OwnInv'
  OBVIOUS
<1>1. ASSUME UNCHANGED <<kind, items, todo, seenEvidence, result, status>>,
             \A q \in Request : pc'[q] = pc[q] \/ (pc'[q] = "failed" /\ pc[q] # "done")
      PROVE  OwnInv'
  BY <1>1, OwnUndisturbed DEF OwnInv, Goes
<1>2. ASSUME NEW r \in Request, RegisterAlias(r) \/ Fail(r) PROVE OwnInv'
  BY <1>1, <1>2 DEF RegisterAlias, Fail, Goto, IInv, TypeOK, database, request, reading
<1>3. CASE WriteLabel \/ UNCHANGED vars
  BY <1>1, <1>3 DEF WriteLabel, vars, database, request, reading
<1>4. CASE Restart
  BY <1>1, <1>4 DEF Restart, request, reading
<1>. QED  BY <1>2, <1>3, <1>4, OwnBegins, OwnWrites, OwnReads, OwnReplaces DEF Next

\* A correction or an extraction answers with a snapshot that has learned its
\* evidence, a deletion with one that does not rest on what it deleted: for any
\* requests, evidence and aliases, racing, failing and restarted.
THEOREM OwnChangeAnswered == Spec => []OwnChangeInSnapshot
<1>1. OwnInv => OwnChangeInSnapshot
  BY DEF OwnInv, OwnOK, OwnChangeInSnapshot
<1>2. IInv /\ OwnInv /\ [Next]_vars /\ IInv' => OwnInv'
  BY OwnStep
<1>. QED  BY <1>1, <1>2, OwnStart, InvCorrect, PTL DEF Spec

-----------------------------------------------------------------------------
(* What the two SELECTs of list_for_profile_with_revision would give in one  *)
(* transaction.                                                              *)
\* No evidence changes while a request is between the two.
ReadInOne == [][\A r \in Request : pc[r] = "revision" => status' = status]_vars

Stamped == {"aliases", "version", "replace"}

\* What was read with the present revision is what is stored.
EvidenceRead(r) ==
  /\ pc[r] = "revision" => seenEvidence[r] = Stored
  /\ pc[r] \in Stamped /\ stamp[r] = revision => seenEvidence[r] = Stored

EvidenceInv ==
  /\ \A r \in Request : EvidenceRead(r)
  /\ \A v \in 1..Len(snapshots) :
       snapshots[v].revision = revision => snapshots[v].content.evidence = Stored

LEMMA EvidenceStart == Init => EvidenceInv
BY DEF Init, EvidenceInv, EvidenceRead, Stamped

\* The steps that neither read nor build: they change evidence with the
\* revision, or not at all.
LEMMA EvidenceWritten ==
  ASSUME IInv, EvidenceInv, UNCHANGED <<snapshots, seenEvidence, stamp>>,
         revision' = revision + 1 \/ UNCHANGED <<status, revision>>,
         \A q \in Request : pc'[q] = pc[q] \/ pc'[q] \notin Stamped \cup {"revision"},
         \A q \in Request : pc[q] = "revision" => status' = status
  PROVE  EvidenceInv'
<1>1. /\ revision \in Nat
      /\ \A q \in Request : stamp[q] \in Nat /\ (pc[q] \in Stamped => stamp[q] <= revision)
      /\ \A v \in 1..Len(snapshots) : snapshots[v].revision \in Nat /\ snapshots[v].revision <= revision
  <2>1. \A v \in 1..Len(snapshots) : snapshots[v] \in SnapshotType
    BY DEF IInv, TypeOK
  <2>. QED  BY <2>1 DEF IInv, TypeOK, ReadsCorrect, ReadCorrect, Stamped, SnapshotsCorrect, SnapshotType
<1>2. CASE UNCHANGED <<status, revision>>
  BY <1>2 DEF EvidenceInv, EvidenceRead, Stored
<1>3. CASE revision' = revision + 1
  <2>1. ASSUME NEW q \in Request PROVE EvidenceRead(q)'
    <3>1. pc'[q] = "revision" => pc[q] = "revision" /\ Stored' = Stored
      BY DEF Stored
    <3>2. pc'[q] \in Stamped => stamp'[q] # revision'
      BY <1>1, <1>3
    <3>. QED  BY <3>1, <3>2 DEF EvidenceInv, EvidenceRead
  <2>2. \A v \in 1..Len(snapshots') : snapshots'[v].revision # revision'
    BY <1>1, <1>3
  <2>. QED  BY <2>1, <2>2 DEF EvidenceInv
<1>. QED  BY <1>2, <1>3

LEMMA EvidenceReadStep ==
  ASSUME IInv, EvidenceInv, NEW r \in Request, ReadEvidence(r) \/ ReadRevision(r) \/ ReadAliases(r) \/ ReadVersion(r)
  PROVE  EvidenceInv'
<1>1. TypeOK /\ UNCHANGED <<status, revision, snapshots>> /\ Stored' = Stored
  BY DEF IInv, ReadEvidence, ReadRevision, ReadAliases, ReadVersion, database, Stored
<1>2. \A q \in Request : q # r => pc'[q] = pc[q] /\ seenEvidence'[q] = seenEvidence[q] /\ stamp'[q] = stamp[q]
  BY <1>1 DEF ReadEvidence, ReadRevision, ReadAliases, ReadVersion, Goto, TypeOK
<1>3. EvidenceRead(r)'
  <2>1. CASE ReadEvidence(r)
    BY <1>1, <2>1 DEF ReadEvidence, Goto, TypeOK, EvidenceRead, Stamped
  <2>2. CASE ReadRevision(r) \/ ReadAliases(r) \/ ReadVersion(r)
    <3>1. UNCHANGED seenEvidence /\ pc'[r] \in Stamped
      BY <1>1, <2>2 DEF ReadRevision, ReadAliases, ReadVersion, Goto, TypeOK, Stamped
    <3>2. pc[r] = "revision" \/ (pc[r] \in Stamped /\ UNCHANGED stamp)
      BY <2>2 DEF ReadRevision, ReadAliases, ReadVersion, Stamped
    <3>. QED  BY <1>1, <3>1, <3>2 DEF EvidenceInv, EvidenceRead, Stamped
  <2>. QED  BY <2>1, <2>2
<1>. QED  BY <1>1, <1>2, <1>3 DEF EvidenceInv, EvidenceRead

\* A snapshot is added, of what is stored if it is of the present revision.
LEMMA EvidenceBuilt ==
  ASSUME IInv, EvidenceInv, UNCHANGED <<status, revision, seenEvidence, stamp>>,
         \A q \in Request : pc'[q] = pc[q] \/ pc'[q] \notin Stamped \cup {"revision"},
         \/ UNCHANGED snapshots
         \/ \E s \in SnapshotType : /\ snapshots' = Append(snapshots, s)
                                    /\ s.revision = revision => s.content.evidence = Stored
  PROVE  EvidenceInv'
<1>1. snapshots \in Seq(SnapshotType) /\ Stored' = Stored
  BY DEF IInv, TypeOK, Stored
<1>2. \A q \in Request : EvidenceRead(q)'
  BY <1>1 DEF EvidenceInv, EvidenceRead
<1>3. ASSUME NEW s \in SnapshotType, snapshots' = Append(snapshots, s),
             s.revision = revision => s.content.evidence = Stored,
             NEW v \in 1..Len(snapshots')
      PROVE  snapshots'[v].revision = revision => snapshots'[v].content.evidence = Stored
  <2>1. CASE v = Len(snapshots) + 1
    <3>1. snapshots'[v] = s
      BY <1>1, <1>3, <2>1
    <3>. QED  BY <1>3, <3>1
  <2>2. CASE v # Len(snapshots) + 1
    <3>1. v \in 1..Len(snapshots) /\ snapshots'[v] = snapshots[v]
      BY <1>1, <1>3, <2>2
    <3>. QED  BY <3>1 DEF EvidenceInv
  <2>. QED  BY <2>1, <2>2
<1>. QED  BY <1>1, <1>2, <1>3 DEF EvidenceInv

LEMMA EvidenceStep ==
  ASSUME IInv, EvidenceInv, [Next]_vars,
         [\A r \in Request : pc[r] = "revision" => status' = status]_vars
  PROVE  EvidenceInv'
<1>1. TypeOK /\ \A r \in Request : pc[r] = "revision" => status' = status
  BY DEF IInv, vars, database
<1>2. ASSUME NEW r \in Request,
             BeginLearn(r) \/ AddEvidence(r) \/ RegisterAlias(r) \/ RegisterDone(r)
             \/ BeginForget(r) \/ RemoveEvidence(r) \/ WriteAlias(r)
             \/ BeginCurrent(r) \/ ReadLatest(r) \/ CompareRevision(r) \/ Fail(r)
      PROVE  EvidenceInv'
  <2>1. UNCHANGED <<snapshots, seenEvidence, stamp>>
    BY <1>2 DEF BeginLearn, AddEvidence, RegisterAlias, RegisterDone, BeginForget, RemoveEvidence, WriteAlias,
         BeginCurrent, ReadLatest, CompareRevision, Fail, Begin, database, reading
  <2>2. revision' = revision + 1 \/ UNCHANGED <<status, revision>>
    BY <1>2 DEF BeginLearn, AddEvidence, RegisterAlias, RegisterDone, BeginForget, RemoveEvidence, WriteAlias,
         BeginCurrent, ReadLatest, CompareRevision, Fail, Bump, database
  <2>3. \A q \in Request : pc'[q] = pc[q] \/ pc'[q] \notin Stamped \cup {"revision"}
    BY <1>1, <1>2 DEF BeginLearn, AddEvidence, RegisterAlias, RegisterDone, BeginForget, RemoveEvidence, WriteAlias,
         BeginCurrent, ReadLatest, CompareRevision, Fail, Goto, TypeOK, Stamped
  <2>. QED  BY <1>1, <2>1, <2>2, <2>3, EvidenceWritten
<1>3. CASE WriteLabel \/ UNCHANGED vars
  BY <1>1, <1>3, EvidenceWritten DEF WriteLabel, Bump, vars, database, reading
<1>4. ASSUME NEW r \in Request, Replace(r) PROVE EvidenceInv'
  <2>. DEFINE new == Snapshot(seenEvidence[r], seenAliases[r], stamp[r], enabled)
  <2>1. /\ UNCHANGED <<status, revision, seenEvidence, stamp>> /\ pc[r] = "replace"
        /\ snapshots' = snapshots \/ snapshots' = Append(snapshots, new)
    BY <1>4 DEF Replace, reading
  <2>2. \A q \in Request : pc'[q] = pc[q] \/ pc'[q] \notin Stamped \cup {"revision"}
    BY <1>1, <1>4 DEF Replace, Goto, TypeOK, Stamped
  <2>3. new \in SnapshotType /\ new.content.evidence = seenEvidence[r] /\ new.revision = stamp[r]
    BY <1>1 DEF TypeOK, SnapshotType, ContentType, Snapshot, Content
  <2>4. stamp[r] = revision => seenEvidence[r] = Stored
    BY <2>1 DEF EvidenceInv, EvidenceRead, Stamped
  <2>. HIDE DEF new
  <2>. QED  BY <2>1, <2>2, <2>3, <2>4, EvidenceBuilt
<1>5. CASE Restart
  <2>. DEFINE new == Snapshot(Stored, IF enabled' THEN aliases ELSE {}, revision, enabled')
  <2>1. /\ UNCHANGED <<status, revision, seenEvidence, stamp>>
        /\ snapshots' = snapshots \/ snapshots' = Append(snapshots, new)
        /\ enabled' \in BOOLEAN
    BY <1>5 DEF Restart, reading
  <2>2. \A q \in Request : pc'[q] = pc[q] \/ pc'[q] \notin Stamped \cup {"revision"}
    BY <1>1, <1>5 DEF Restart, TypeOK, Stamped
  <2>3. new \in SnapshotType /\ new.content.evidence = Stored
    BY <1>1, <2>1 DEF TypeOK, SnapshotType, ContentType, Snapshot, Content, Stored
  <2>. HIDE DEF new
  <2>. QED  BY <2>1, <2>2, <2>3, EvidenceBuilt
<1>. QED  BY <1>2, <1>3, <1>4, <1>5, EvidenceReadStep DEF Next

\* The race between the two SELECTs is the only way to a snapshot that counts
\* as fresh without the stored evidence: were they one transaction, there would
\* be none, whatever else races, fails or restarts.
THEOREM OnlyTheReadsRace == Spec /\ ReadInOne => []FreshSnapshotHasStoredEvidence
<1>1. IInv /\ EvidenceInv => FreshSnapshotHasStoredEvidence
  <2>1. ASSUME IInv, Fresh(enabled) PROVE Len(snapshots) \in 1..Len(snapshots)
    BY <2>1 DEF IInv, TypeOK, Fresh
  <2>. QED  BY <2>1 DEF EvidenceInv, FreshSnapshotHasStoredEvidence, Fresh, Latest
<1>2. /\ IInv /\ EvidenceInv /\ [Next]_vars
      /\ [\A r \in Request : pc[r] = "revision" => status' = status]_vars
      => EvidenceInv'
  BY EvidenceStep
<1>. QED  BY <1>1, <1>2, EvidenceStart, InvCorrect, PTL DEF Spec, ReadInOne
-----------------------------------------------------------------------------
(* Questions and their answers, for any askers, traits and situations. *)
Learning == [question : Question, event : 1..MaxAnswer, key : Trait, value : {1, 2}]

\* The requests, by what they hold at each step.
Ask ==
  [at : {"list"}, before : SUBSET Question]
  \cup [at : {"add"}, drafts : SUBSET (Pairs \cup Alone), before : SUBSET Question]
  \cup [at : {"answer"}, question : Question, choice : {"a", "b"}, event : 1..MaxAnswer]
  \cup [at : {"learn"}, left : SUBSET Learning]

LearningTypes ==
  /\ questions \in [Question -> QuestionRow \cup {Unused}]
  /\ answers \in [Question -> AnswerRow \cup {Unused}]
  /\ pairwise \subseteq Learning /\ sent \in 0..MaxAnswer
  /\ asks \in [Asker -> Ask \cup {Unused}]

\* What is learned is said by the answer that is stored.
IsAnswered(e) ==
  /\ e.question \in Asking
  /\ answers[e.question] # Unused /\ answers[e.question].event = e.event
  /\ e \in AnswerEvidence(e.question, answers[e.question].choice, e.event)

\* A request knows of questions that are stored, and asks about none of them.
AskOK(t) ==
  /\ AskAt(t, "list") => asks[t].before \subseteq Asking
  /\ AskAt(t, "add") =>
       /\ asks[t].before \subseteq Asking
       /\ \A d \in asks[t].drafts : \A r \in asks[t].before : ~SameTradeOff(d, questions[r].asks)
  /\ AskAt(t, "answer") => asks[t].question \in Asking
  /\ AskAt(t, "learn") => \A e \in asks[t].left : IsAnswered(e)

LearningInv ==
  /\ LearningTypes
  /\ \A q \in Asking : /\ questions[q].before \subseteq Asking
                       /\ \A r \in questions[q].before : ~SameTradeOff(questions[q].asks, questions[r].asks)
  /\ \A e \in pairwise : IsAnswered(e)
  /\ \A t \in Asker : AskOK(t)

-----------------------------------------------------------------------------
\* Rows stay: what was said of them is said for good.
LEMMA RowsStay ==
  ASSUME LearningTypes, LearningTypes',
         \A q \in Asking : questions'[q] # Unused /\ questions'[q].asks = questions[q].asks,
         \A q \in Question : answers[q] # Unused => answers'[q] = answers[q]
  PROVE  /\ Asking \subseteq Asking'
         /\ \A e : IsAnswered(e) => IsAnswered(e)'
<1>1. Asking \subseteq Asking'
  BY DEF Asking
<1>2. ASSUME NEW e, IsAnswered(e) PROVE IsAnswered(e)'
  BY <1>1, <1>2 DEF IsAnswered, AnswerEvidence, Sign, Asking
<1>. QED  BY <1>1, <1>2

\* The requests that a step leaves alone stay sound.
LEMMA OthersAsk ==
  ASSUME LearningInv, LearningTypes',
         \A q \in Asking : questions'[q] # Unused /\ questions'[q].asks = questions[q].asks,
         \A q \in Question : answers[q] # Unused => answers'[q] = answers[q],
         NEW t \in Asker, asks'[t] = asks[t]
  PROVE  AskOK(t)'
<1>1. Asking \subseteq Asking' /\ \A e : IsAnswered(e) => IsAnswered(e)'
  BY RowsStay DEF LearningInv
<1>2. \A r \in Asking : \A d : ~SameTradeOff(d, questions[r].asks) => ~SameTradeOff(d, questions'[r].asks)
  OBVIOUS
<1>3. AskOK(t)
  BY DEF LearningInv
<1>4. AskAt(t, "add")' =>
        \A d \in asks[t].drafts : \A r \in asks[t].before : ~SameTradeOff(d, questions'[r].asks)
  BY <1>2, <1>3 DEF AskOK, AskAt
<1>. QED  BY <1>1, <1>3, <1>4 DEF AskOK, AskAt, SameTradeOff

\* A draft has one key or two.
LEMMA KeysOfDraft ==
  ASSUME NEW d \in Pairs \cup Alone
  PROVE  DOMAIN d.keys \in {{1}, {1, 2}} /\ \A i \in DOMAIN d.keys : d.keys[i] \in Trait
<1>1. CASE d \in Pairs
  <2>1. PICK k \in Trait, l \in Trait : d.keys = <<k, l>>
    BY <1>1 DEF Pairs
  <2>2. DOMAIN <<k, l>> = {1, 2}
    OBVIOUS
  <2>. QED  BY <2>1, <2>2
<1>2. CASE d \in Alone
  <2>1. PICK k \in Trait : d.keys = <<k>>
    BY <1>2 DEF Alone, Draft
  <2>2. DOMAIN <<k>> = {1}
    OBVIOUS
  <2>. QED  BY <2>1, <2>2
<1>. QED  BY <1>1, <1>2

LEMMA LearningStart == LearningInit => LearningInv
  BY ActiveLearningAssumption DEF LearningInit, LearningInv, LearningTypes, Asking, AskOK, AskAt

LEMMA GenerateStep ==
  ASSUME LearningInv, NEW t \in Asker, BeginGenerate(t) \/ Generate(t)
  PROVE  LearningInv'
<1>. UNCHANGED <<pairwise, questions, answers, sent>>
  BY DEF BeginGenerate, Generate
<1>1. \A q \in Asking : /\ questions'[q] # Unused /\ questions'[q].asks = questions[q].asks
                        /\ questions[q].asks \in Pairs \cup Alone
  BY DEF Asking, LearningInv, LearningTypes, QuestionRow
<1>2. LearningTypes' /\ AskOK(t)' /\ \A s \in Asker \ {t} : asks'[s] = asks[s]
  <2>1. CASE BeginGenerate(t)
    BY <2>1 DEF LearningInv, LearningTypes, BeginGenerate, Ask, AskOK, AskAt, Asking
  <2>2. CASE Generate(t)
    <3>1. PICK drafts \in Generations({questions[q].asks : q \in Asking}) :
            asks' = [asks EXCEPT ![t] = IF drafts = {} THEN Unused
                                   ELSE [at |-> "add", drafts |-> drafts, before |-> @.before]]
      BY <2>2 DEF Generate
    <3>2. /\ drafts \subseteq Pairs \cup Alone
          /\ \A d \in drafts : \A q \in Asking : ~SameTradeOff(d, questions[q].asks)
      BY <3>1 DEF Generations, New
    <3>3. asks[t].before \subseteq Asking /\ asks[t].before \in SUBSET Question
      BY <2>2 DEF Generate, LearningInv, AskOK, Asking
    <3>. QED  BY <3>1, <3>2, <3>3 DEF LearningInv, LearningTypes, Ask, AskOK, AskAt, Asking
  <2>. QED  BY <2>1, <2>2
<1>3. \A s \in Asker : AskOK(s)'
  BY <1>1, <1>2, OthersAsk
<1>4. \A e : IsAnswered(e) => IsAnswered(e)'
  BY <1>1, <1>2, RowsStay DEF LearningInv
<1>5. /\ \A q \in Asking' : /\ questions'[q].before \subseteq Asking'
                            /\ \A r \in questions'[q].before : ~SameTradeOff(questions'[q].asks, questions'[r].asks)
      /\ \A e \in pairwise' : IsAnswered(e)'
  BY <1>4 DEF LearningInv, Asking
<1>. QED  BY <1>2, <1>3, <1>5 DEF LearningInv, SameTradeOff

LEMMA AddQuestionStep ==
  ASSUME LearningInv, NEW t \in Asker, NEW q \in Question, AddQuestion(t, q)
  PROVE  LearningInv'
<1>1. PICK d \in asks[t].drafts :
       /\ questions' = [questions EXCEPT ![q] = [asks |-> d, status |-> "pending", before |-> asks[t].before]]
       /\ IF asks[t].drafts = {d} THEN AskEnd(t)
                                 ELSE asks' = [asks EXCEPT ![t].drafts = @ \ {d}]
  BY DEF AddQuestion
<1>2. /\ AskAt(t, "add") /\ q \notin Asking /\ UNCHANGED <<pairwise, answers, sent>>
      /\ asks[t] \in [at : {"add"}, drafts : SUBSET (Pairs \cup Alone), before : SUBSET Question]
      /\ asks[t].before \subseteq Asking /\ d \in Pairs \cup Alone
      /\ \A r \in asks[t].before : ~SameTradeOff(d, questions[r].asks)
  BY <1>1 DEF AddQuestion, LearningInv, LearningTypes, AskOK, AskAt, Ask, Asking
<1>3. /\ \A r \in Asking : questions'[r] = questions[r] /\ r # q
      /\ questions'[q] = [asks |-> d, status |-> "pending", before |-> asks[t].before]
  BY <1>1, <1>2 DEF LearningInv, LearningTypes, Asking
<1>4. /\ \A s \in Asker \ {t} : asks'[s] = asks[s]
      /\ \/ asks'[t] = Unused
         \/ asks'[t] = [asks[t] EXCEPT !.drafts = @ \ {d}]
  BY <1>1 DEF LearningInv, LearningTypes, AskEnd
<1>5. LearningTypes'
  <2>1. questions' \in [Question -> QuestionRow \cup {Unused}]
    BY <1>1, <1>2 DEF LearningInv, LearningTypes, QuestionRow
  <2>2. asks' \in [Asker -> Ask \cup {Unused}]
    BY <1>1, <1>2 DEF LearningInv, LearningTypes, Ask, AskEnd
  <2>. QED  BY <1>2, <2>1, <2>2 DEF LearningInv, LearningTypes
<1>6. AskOK(t)'
  <2>. SUFFICES ASSUME asks'[t] # Unused PROVE AskOK(t)'
    BY DEF AskOK, AskAt
  <2>1. /\ asks'[t].at = "add" /\ asks'[t].before = asks[t].before
        /\ asks'[t].drafts \subseteq asks[t].drafts
    BY <1>2, <1>4
  <2>2. \A e \in asks[t].drafts : \A r \in asks[t].before : ~SameTradeOff(e, questions[r].asks)
    BY <1>2 DEF LearningInv, AskOK
  <2>3. \A r \in asks[t].before : questions'[r] = questions[r] /\ r \in Asking'
    BY <1>2, <1>3 DEF Asking
  <2>. QED  BY <2>1, <2>2, <2>3 DEF AskOK, AskAt, SameTradeOff
<1>7. \A s \in Asker : AskOK(s)'
  <2>1. \A r \in Asking : questions'[r] # Unused /\ questions'[r].asks = questions[r].asks
    BY <1>3 DEF Asking
  <2>. QED  BY <1>2, <1>4, <1>5, <1>6, <2>1, OthersAsk
<1>8. \A e : IsAnswered(e) => IsAnswered(e)'
  <2>1. \A r \in Asking : questions'[r] # Unused /\ questions'[r].asks = questions[r].asks
    BY <1>3 DEF Asking
  <2>. QED  BY <1>2, <1>5, <2>1, RowsStay DEF LearningInv
<1>9. ASSUME NEW r \in Asking'
      PROVE  /\ questions'[r].before \subseteq Asking'
             /\ \A p \in questions'[r].before : ~SameTradeOff(questions'[r].asks, questions'[p].asks)
  <2>1. Asking \subseteq Asking'
    BY <1>3 DEF Asking
  <2>2. CASE r = q
    BY <1>2, <1>3, <2>1, <2>2
  <2>3. CASE r # q
    <3>1. r \in Asking /\ questions'[r] = questions[r]
      BY <1>1, <1>3, <2>3 DEF Asking, LearningInv, LearningTypes
    <3>2. \A p \in questions[r].before : questions'[p] = questions[p]
      BY <1>3, <3>1 DEF LearningInv
    <3>. QED  BY <2>1, <3>1, <3>2 DEF LearningInv
  <2>. QED  BY <2>2, <2>3
<1>. QED  BY <1>2, <1>5, <1>7, <1>8, <1>9 DEF LearningInv, SameTradeOff

\* A step that asks nothing new and learns what is answered.
LEMMA AnswersFrame ==
  ASSUME LearningInv, LearningTypes', NEW t \in Asker,
         \A q \in Question : \/ questions'[q] = questions[q]
           \/ /\ questions[q] # Unused
              /\ questions'[q] = [questions[q] EXCEPT !.status = "answered"],
         \A q \in Question : answers[q] # Unused => answers'[q] = answers[q],
         \A s \in Asker \ {t} : asks'[s] = asks[s],
         (\A e : IsAnswered(e) => IsAnswered(e)') => AskOK(t)',
         \A e \in pairwise' : e \in pairwise \/ IsAnswered(e)
  PROVE  LearningInv'
<1>1. /\ \A q \in Asking : questions'[q] # Unused /\ questions'[q].asks = questions[q].asks
                           /\ questions'[q].before = questions[q].before
      /\ Asking' = Asking
  <2>1. ASSUME NEW q \in Question, questions[q] # Unused
        PROVE  /\ questions'[q].asks = questions[q].asks /\ questions'[q].before = questions[q].before
               /\ questions'[q] # Unused
    <3>1. questions[q] \in QuestionRow
      BY <2>1 DEF LearningInv, LearningTypes
    <3>2. CASE questions'[q] = questions[q]
      BY <2>1, <3>2
    <3>3. CASE questions'[q] = [questions[q] EXCEPT !.status = "answered"]
      <4>1. questions'[q] \in QuestionRow /\ questions'[q].asks = questions[q].asks
            /\ questions'[q].before = questions[q].before
        BY <3>1, <3>3 DEF QuestionRow
      <4>. QED  BY <4>1, UnusedAssumption
    <3>. QED  BY <2>1, <3>2, <3>3
  <2>. QED  BY <2>1 DEF Asking
<1>2. \A e : IsAnswered(e) => IsAnswered(e)'
  BY <1>1, RowsStay DEF LearningInv
<1>3. \A s \in Asker : AskOK(s)'
  BY <1>1, <1>2, OthersAsk
<1>4. \A q \in Asking : \A r \in questions[q].before :
          r \in Asking /\ ~SameTradeOff(questions'[q].asks, questions'[r].asks)
  BY <1>1 DEF LearningInv
<1>. QED  BY <1>1, <1>2, <1>3, <1>4 DEF LearningInv, SameTradeOff

LEMMA AnswerStep ==
  ASSUME LearningInv, NEW t \in Asker,
         (\E q \in Question, choice \in {"a", "b"} : BeginAnswer(t, q, choice)) \/ AskFails(t)
         \/ AddAnswer(t) \/ AddAnswerEvidence(t)
  PROVE  LearningInv'
<1>1. ASSUME NEW q \in Question, NEW choice \in {"a", "b"}, BeginAnswer(t, q, choice) PROVE LearningInv'
  <2>1. LearningTypes'
    BY <1>1, ActiveLearningAssumption DEF BeginAnswer, LearningInv, LearningTypes, Ask, Asking
  <2>2. AskOK(t)'
    BY <1>1 DEF BeginAnswer, LearningInv, LearningTypes, AskOK, AskAt, Asking
  <2>3. /\ UNCHANGED <<questions, answers, pairwise>> /\ \A s \in Asker \ {t} : asks'[s] = asks[s]
    BY <1>1 DEF BeginAnswer, LearningInv, LearningTypes
  <2>. QED  BY <2>1, <2>2, <2>3, AnswersFrame
<1>2. CASE AskFails(t)
  <2>1. LearningTypes' /\ AskOK(t)'
    BY <1>2 DEF AskFails, AskEnd, LearningInv, LearningTypes, AskOK, AskAt
  <2>2. /\ UNCHANGED <<questions, answers, pairwise>> /\ \A s \in Asker \ {t} : asks'[s] = asks[s]
    BY <1>2 DEF AskFails, AskEnd, LearningInv, LearningTypes
  <2>. QED  BY <2>1, <2>2, AnswersFrame
<1>3. CASE AddAnswer(t)
  <2>1. asks[t] \in [at : {"answer"}, question : Question, choice : {"a", "b"}, event : 1..MaxAnswer]
        /\ asks[t].question \in Asking
    BY <1>3 DEF AddAnswer, LearningInv, LearningTypes, Ask, AskAt, AskOK
  <2>2. CASE asks' = [asks EXCEPT ![t] = Unused] /\ UNCHANGED <<answers, questions, pairwise, sent>>
    <3>1. LearningTypes' /\ AskOK(t)'
      BY <2>2 DEF LearningInv, LearningTypes, AskOK, AskAt
    <3>2. \A s \in Asker \ {t} : asks'[s] = asks[s]
      BY <2>2 DEF LearningInv, LearningTypes
    <3>. QED  BY <2>2, <3>1, <3>2, AnswersFrame
  <2>3. CASE /\ answers[asks[t].question] = Unused /\ UNCHANGED <<pairwise, sent>>
             /\ answers' = [answers EXCEPT ![asks[t].question] = [choice |-> asks[t].choice, event |-> asks[t].event]]
             /\ questions' = [questions EXCEPT ![asks[t].question].status = "answered"]
             /\ asks' = [asks EXCEPT ![t] = [at |-> "learn",
                           left |-> AnswerEvidence(asks[t].question, asks[t].choice, asks[t].event)]]
    <3>1. questions[asks[t].question] \in QuestionRow
      BY <2>1 DEF LearningInv, LearningTypes, Asking
    <3>2. /\ DOMAIN questions[asks[t].question].asks.keys \in {{1}, {1, 2}}
          /\ \A i \in DOMAIN questions[asks[t].question].asks.keys :
               questions[asks[t].question].asks.keys[i] \in Trait
      BY <3>1, KeysOfDraft DEF QuestionRow
    <3>3. AnswerEvidence(asks[t].question, asks[t].choice, asks[t].event) \subseteq Learning
      BY <2>1, <3>2 DEF AnswerEvidence, Learning, Sign
    <3>4. LearningTypes'
      BY <2>1, <2>3, <3>1, <3>3 DEF LearningInv, LearningTypes, Ask, QuestionRow, AnswerRow
    <3>5. AskOK(t)'
      <4>1. questions'[asks[t].question].asks = questions[asks[t].question].asks
            /\ questions'[asks[t].question] # Unused /\ answers'[asks[t].question] # Unused
        BY <2>1, <2>3, <3>1, UnusedAssumption DEF LearningInv, LearningTypes, QuestionRow, AnswerRow
      <4>2. ASSUME NEW e \in AnswerEvidence(asks[t].question, asks[t].choice, asks[t].event) PROVE IsAnswered(e)'
        <5>1. e.question = asks[t].question /\ e.event = asks[t].event
          BY DEF AnswerEvidence
        <5>2. answers'[asks[t].question] = [choice |-> asks[t].choice, event |-> asks[t].event]
          BY <2>1, <2>3 DEF LearningInv, LearningTypes
        <5>. QED  BY <2>1, <4>1, <5>1, <5>2 DEF IsAnswered, Asking, AnswerEvidence, Sign
      <4>3. asks'[t].at = "learn"
            /\ asks'[t].left = AnswerEvidence(asks[t].question, asks[t].choice, asks[t].event)
        BY <2>3 DEF LearningInv, LearningTypes
      <4>. QED  BY <4>2, <4>3 DEF AskOK, AskAt
    <3>6. /\ \A q \in Question : \/ questions'[q] = questions[q]
               \/ /\ questions[q] # Unused
                  /\ questions'[q] = [questions[q] EXCEPT !.status = "answered"]
          /\ \A q \in Question : answers[q] # Unused => answers'[q] = answers[q]
          /\ \A s \in Asker \ {t} : asks'[s] = asks[s]
      BY <2>1, <2>3 DEF LearningInv, LearningTypes, Asking
    <3>. QED  BY <2>3, <3>4, <3>5, <3>6, AnswersFrame
  <2>. QED  BY <1>3, <2>2, <2>3 DEF AddAnswer, AskEnd
<1>4. CASE AddAnswerEvidence(t)
  <2>1. asks[t] \in [at : {"learn"}, left : SUBSET Learning] /\ \A e \in asks[t].left : IsAnswered(e)
    BY <1>4 DEF AddAnswerEvidence, LearningInv, LearningTypes, Ask, AskAt, AskOK
  <2>2. PICK e \in asks[t].left :
          /\ pairwise' = pairwise \cup {e}
          /\ IF asks[t].left = {e} THEN AskEnd(t) ELSE asks' = [asks EXCEPT ![t].left = @ \ {e}]
          /\ UNCHANGED <<questions, answers, sent>>
    BY <1>4 DEF AddAnswerEvidence
  <2>3. LearningTypes'
    BY <2>1, <2>2 DEF LearningInv, LearningTypes, Ask, AskEnd
  <2>4. (\A f : IsAnswered(f) => IsAnswered(f)') => AskOK(t)'
    BY <2>1, <2>2 DEF LearningInv, LearningTypes, AskEnd, AskOK, AskAt
  <2>5. \A s \in Asker \ {t} : asks'[s] = asks[s]
    BY <2>2 DEF LearningInv, LearningTypes, AskEnd
  <2>. QED  BY <2>1, <2>2, <2>3, <2>4, <2>5, AnswersFrame
<1>. QED  BY <1>1, <1>2, <1>3, <1>4

LEMMA LearningStep == LearningInv /\ [LearningNext]_learningVars => LearningInv'
<1>. SUFFICES ASSUME LearningInv, [LearningNext]_learningVars PROVE LearningInv'
  OBVIOUS
<1>1. CASE LearningNext
  BY <1>1, GenerateStep, AddQuestionStep, AnswerStep DEF LearningNext
<1>2. CASE UNCHANGED learningVars
  <2>1. UNCHANGED <<questions, answers, pairwise, sent, asks>>
    BY <1>2 DEF learningVars
  <2>2. LearningTypes' /\ Asking' = Asking
    BY <2>1 DEF LearningInv, LearningTypes, Asking
  <2>3. \A t \in Asker : (\A e : IsAnswered(e) => IsAnswered(e)') => AskOK(t)'
    BY <2>1, <2>2, OthersAsk DEF Asking
  <2>4. \A e : IsAnswered(e) => IsAnswered(e)'
    BY <2>1, <2>2, RowsStay DEF Asking, LearningInv
  <2>. QED  BY <2>1, <2>2, <2>3, <2>4 DEF LearningInv, SameTradeOff
<1>. QED  BY <1>1, <1>2

\* A generate asks for no trade-off, in either order, that was stored when it
\* began, for any number of questions, traits and situations.
THEOREM QuestionsNotRepeated == LearningSpec => []NotAskedAgain
<1>1. LearningInv => NotAskedAgain
  BY DEF LearningInv, NotAskedAgain, SameTradeOff
<1>. QED  BY <1>1, LearningStart, LearningStep, PTL DEF LearningSpec

\* Of the answers that race only the stored one is learned, as one key's gain
\* and the other's loss.
THEOREM StoredAnswerLearned == LearningSpec => []OneAnswerIsLearned
<1>1. LearningInv => OneAnswerIsLearned
  <2>. SUFFICES ASSUME LearningInv, NEW e \in pairwise, NEW f \in pairwise,
                       f.question = e.question, f.key # e.key
                PROVE  f.value # e.value
    BY DEF OneAnswerIsLearned, LearningInv, IsAnswered
  <2>1. /\ questions[e.question] \in QuestionRow /\ answers[e.question] \in AnswerRow
        /\ e \in AnswerEvidence(e.question, answers[e.question].choice, e.event)
        /\ f \in AnswerEvidence(e.question, answers[e.question].choice, e.event)
    BY DEF LearningInv, LearningTypes, IsAnswered, Asking
  <2>2. DOMAIN questions[e.question].asks.keys \in {{1}, {1, 2}}
    BY <2>1, KeysOfDraft DEF QuestionRow
  <2>. QED  BY <2>1, <2>2 DEF AnswerEvidence, Sign
<1>. QED  BY <1>1, LearningStart, LearningStep, PTL DEF LearningSpec
=============================================================================
