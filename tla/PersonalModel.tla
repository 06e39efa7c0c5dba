--------------------------- MODULE PersonalModel ---------------------------
(***************************************************************************)
(* The derived Personal Model of one profile: evidence rows, the active    *)
(* key aliases, the evidence revision that every write advances, and the   *)
(* versioned snapshots that ModelRebuilder derives from them.              *)
(*                                                                         *)
(* Requests run on threads of one daemon.  A repository write is one       *)
(* SQLite transaction and one action.  A SELECT outside a transaction is   *)
(* an action of its own: the driver opens a transaction only before the    *)
(* first write, so each SELECT of a rebuild sees its own committed state.  *)
(*                                                                         *)
(* aggregate_evidence is a pure function of the evidence and the active    *)
(* aliases, so a snapshot's content is represented by these two inputs.    *)
(***************************************************************************)
EXTENDS Naturals, Sequences

CONSTANTS Request,       \* request threads; each serves one request
          Evidence,      \* evidence ids; a deleted id is never stored again
          Key,           \* target keys
          Alias,         \* alias rows an owner or the normaliser may activate
          KeyOf,         \* target key of each evidence
          AliasKey,      \* the key an alias maps away from
          CanonicalKey,  \* the key it maps onto
          MaxRevision,   \* bound on evidence and alias writes
          MaxRestart     \* bound on restarts of the daemon

ASSUME ModelAssumption ==
  /\ KeyOf \in [Evidence -> Key]
  /\ AliasKey \in [Alias -> Key]
  /\ CanonicalKey \in [Alias -> Key]
  /\ MaxRevision \in Nat
  /\ MaxRestart \in Nat

VARIABLES
  \* the database
  status,      \* status[e]: "unused", "stored" or "deleted"
  aliases,     \* active alias rows
  revision,    \* EvidenceRevisionRow.revision
  snapshots,   \* UserModelSnapshotRow by version: snapshots[v] has version v
  derived,     \* preference, fact, goal and constraint rows
  \* the daemon
  enabled,     \* settings.key_aliases.enabled
  restarts,
  \* locals of the request threads
  pc, kind,
  items,       \* evidence the request adds or deletes
  todo,        \* items it has not written yet
  start,       \* revision committed when the request began
  seenEvidence, stamp, seenAliases,  \* what rebuild() has read
  version,     \* max(version) read by replace(), or the latest one read
  result       \* version returned; 0 when none is

database == <<status, aliases, revision, snapshots, derived>>
daemon   == <<enabled, restarts>>
request  == <<kind, items, start>>
reading  == <<seenEvidence, stamp, seenAliases, version>>
vars == <<database, daemon, pc, request, todo, reading, result>>

-----------------------------------------------------------------------------
Stored == {e \in Evidence : status[e] = "stored"}

\* _supported_keys: keys the given evidence uses, closed under active aliases.
SupportedKeys(evidence, active) ==
  {k \in Key : \A K \in SUBSET Key :
      (/\ \A e \in evidence : KeyOf[e] \in K
       /\ \A a \in active : AliasKey[a] \in K => CanonicalKey[a] \in K) => k \in K}

\* prune_unsupported_keys: active aliases survive while their key is supported.
Pruned(evidence, active) ==
  {a \in active : AliasKey[a] \in SupportedKeys(evidence, active)}

\* upsert: a key has one alias row, so a new one replaces the old.
Upserted(active, a) == {b \in active : AliasKey[b] # AliasKey[a]} \cup {a}

\* ModelRebuilder._active_aliases: nothing is read when aliases are disabled.
ActiveAliases == IF enabled THEN aliases ELSE {}

Content(evidence, active) == [evidence |-> evidence, aliases |-> active]

Snapshot(evidence, active, rev, algorithm) ==
  [content |-> Content(evidence, active), revision |-> rev, aliased |-> algorithm]

Latest == snapshots[Len(snapshots)]

\* _fresh_snapshot, for a daemon with or without aliases
Fresh(algorithm) ==
  snapshots # <<>> /\ Latest.aliased = algorithm /\ Latest.revision = revision

Bump == revision < MaxRevision /\ revision' = revision + 1

Goto(r, label) == pc' = [pc EXCEPT ![r] = label]

Begin(r, k, S) ==
  /\ pc[r] = "idle"
  /\ kind' = [kind EXCEPT ![r] = k]
  /\ items' = [items EXCEPT ![r] = S]
  /\ start' = [start EXCEPT ![r] = revision]
  /\ UNCHANGED <<daemon, reading, result>>

-----------------------------------------------------------------------------
Init ==
  /\ status = [e \in Evidence |-> "unused"]
  /\ aliases = {}
  /\ revision = 0
  /\ snapshots = <<>>
  /\ derived = Content({}, {})
  /\ enabled \in BOOLEAN
  /\ restarts = 0
  /\ pc = [r \in Request |-> "idle"]
  /\ kind = [r \in Request |-> "none"]
  /\ items = [r \in Request |-> {}]
  /\ todo = [r \in Request |-> {}]
  /\ start = [r \in Request |-> 0]
  /\ seenEvidence = [r \in Request |-> {}]
  /\ stamp = [r \in Request |-> 0]
  /\ seenAliases = [r \in Request |-> {}]
  /\ version = [r \in Request |-> 0]
  /\ result = [r \in Request |-> 0]

\* A correction or an accepted extraction: its evidence ids are new.
BeginLearn(r) ==
  \E S \in SUBSET {e \in Evidence : status[e] = "unused"} :
    /\ S # {}
    /\ \A q \in Request : S \cap items[q] = {}
    /\ Begin(r, "learn", S)
    /\ todo' = [todo EXCEPT ![r] = S]
    /\ Goto(r, "add")
    /\ UNCHANGED database

\* SqliteEvidenceRepository.add, once per accepted item.
AddEvidence(r) ==
  /\ pc[r] = "add"
  /\ \E e \in todo[r] :
       /\ status' = [status EXCEPT ![e] = "stored"]
       /\ todo' = [todo EXCEPT ![r] = @ \ {e}]
       /\ Goto(r, IF todo[r] = {e} THEN "register" ELSE "add")
  /\ Bump
  /\ UNCHANGED <<aliases, snapshots, derived, daemon, request, reading, result>>

\* Fault: the alias is written without advancing the revision.
RegisterSilently(r) ==
  /\ pc[r] = "register"
  /\ enabled
  /\ \E a \in Alias \ aliases : aliases' = Upserted(aliases, a)
  /\ UNCHANGED <<status, revision, snapshots, derived, daemon, pc, request, todo,
                 reading, result>>

\* register_normalized_aliases: each proposal is upserted in a transaction of
\* its own.  Which keys are proposed depends on their spelling: any may be.
RegisterAlias(r) ==
  /\ pc[r] = "register"
  /\ enabled
  /\ \E a \in Alias \ aliases : aliases' = Upserted(aliases, a)
  /\ Bump
  /\ UNCHANGED <<status, snapshots, derived, daemon, pc, request, todo, reading, result>>

RegisterDone(r) ==
  /\ pc[r] = "register"
  /\ Goto(r, "evidence")
  /\ UNCHANGED <<database, daemon, request, todo, reading, result>>

\* delete_evidence answers 404 unless the row exists.
BeginForget(r) ==
  \E e \in Stored :
    /\ Begin(r, "forget", {e})
    /\ Goto(r, "remove")
    /\ UNCHANGED <<database, todo>>

\* SqliteEvidenceRepository.remove; a row another request deleted is a 404.
RemoveEvidence(r) ==
  /\ pc[r] = "remove"
  /\ \/ /\ items[r] \subseteq Stored
        /\ status' = [e \in Evidence |-> IF e \in items[r] THEN "deleted" ELSE status[e]]
        /\ aliases' = Pruned(Stored \ items[r], aliases)
        /\ Bump
        /\ Goto(r, "evidence")
     \/ /\ ~(items[r] \subseteq Stored)
        /\ Goto(r, "done")
        /\ UNCHANGED <<status, aliases, revision>>
  /\ UNCHANGED <<snapshots, derived, daemon, request, todo, reading, result>>

\* Owner merge, review or removal of an alias, then a rebuild.
WriteAlias(r) ==
  /\ enabled
  /\ Begin(r, "alias", {})
  /\ \/ \E a \in Alias \ aliases : aliases' = Upserted(aliases, a)
     \/ \E a \in aliases : aliases' = aliases \ {a}
  /\ Bump
  /\ Goto(r, "evidence")
  /\ UNCHANGED <<status, snapshots, derived, todo>>

\* An owner label or its removal: the revision moves, the model does not.
WriteLabel ==
  /\ Bump
  /\ UNCHANGED <<status, aliases, snapshots, derived, daemon, pc, request, todo,
                 reading, result>>

-----------------------------------------------------------------------------
(* ModelRebuilder.current                                                  *)

BeginCurrent(r) ==
  /\ Begin(r, "current", {})
  /\ Goto(r, "latest")
  /\ UNCHANGED <<database, todo>>

ReadLatest(r) ==
  /\ pc[r] = "latest"
  /\ version' = [version EXCEPT ![r] = Len(snapshots)]
  /\ Goto(r, IF snapshots # <<>> /\ Latest.aliased = enabled
             THEN "compare" ELSE "evidence")
  /\ UNCHANGED <<database, daemon, request, todo, seenEvidence, stamp, seenAliases, result>>

\* Fault: any snapshot of the right algorithm is served.
CompareNothing(r) ==
  /\ pc[r] = "compare"
  /\ result' = [result EXCEPT ![r] = version[r]]
  /\ Goto(r, "done")
  /\ UNCHANGED <<database, daemon, request, todo, reading>>

CompareRevision(r) ==
  /\ pc[r] = "compare"
  /\ \/ /\ snapshots[version[r]].revision = revision
        /\ result' = [result EXCEPT ![r] = version[r]]
        /\ Goto(r, "done")
     \/ /\ snapshots[version[r]].revision # revision
        /\ Goto(r, "evidence")
        /\ UNCHANGED result
  /\ UNCHANGED <<database, daemon, request, todo, reading>>

-----------------------------------------------------------------------------
(* ModelRebuilder.rebuild: three reads, then replace() reads and writes    *)

ReadEvidence(r) ==
  /\ pc[r] = "evidence"
  /\ seenEvidence' = [seenEvidence EXCEPT ![r] = Stored]
  /\ Goto(r, "revision")
  /\ UNCHANGED <<database, daemon, request, todo, stamp, seenAliases, version, result>>

ReadRevision(r) ==
  /\ pc[r] = "revision"
  /\ stamp' = [stamp EXCEPT ![r] = revision]
  /\ Goto(r, "aliases")
  /\ UNCHANGED <<database, daemon, request, todo, seenEvidence, seenAliases, version, result>>

ReadAliases(r) ==
  /\ pc[r] = "aliases"
  /\ seenAliases' = [seenAliases EXCEPT ![r] = ActiveAliases]
  /\ Goto(r, "version")
  /\ UNCHANGED <<database, daemon, request, todo, seenEvidence, stamp, version, result>>

ReadVersion(r) ==
  /\ pc[r] = "version"
  /\ version' = [version EXCEPT ![r] = Len(snapshots)]
  /\ Goto(r, "replace")
  /\ UNCHANGED <<database, daemon, request, todo, seenEvidence, stamp, seenAliases, result>>

\* Fault: the derived rows are committed before the snapshot is inserted.
ReplaceInTwo(r) ==
  /\ pc[r] = "replace"
  /\ derived' = Content(seenEvidence[r], seenAliases[r])
  /\ \/ /\ version[r] = Len(snapshots)
        /\ snapshots' = Append(snapshots,
                          Snapshot(seenEvidence[r], seenAliases[r], stamp[r], enabled))
        /\ result' = [result EXCEPT ![r] = version[r] + 1]
        /\ Goto(r, "done")
     \/ /\ version[r] # Len(snapshots)
        /\ Goto(r, "failed")
        /\ UNCHANGED <<snapshots, result>>
  /\ UNCHANGED <<status, aliases, revision, daemon, request, todo, reading>>

\* The derived rows and the snapshot are written in one transaction; a version
\* another rebuild took in the meantime violates the key and rolls all back.
Replace(r) ==
  /\ pc[r] = "replace"
  /\ \/ /\ version[r] = Len(snapshots)
        /\ snapshots' = Append(snapshots,
                          Snapshot(seenEvidence[r], seenAliases[r], stamp[r], enabled))
        /\ derived' = Content(seenEvidence[r], seenAliases[r])
        /\ result' = [result EXCEPT ![r] = version[r] + 1]
        /\ Goto(r, "done")
     \/ /\ version[r] # Len(snapshots)
        /\ Goto(r, "failed")
        /\ UNCHANGED <<snapshots, derived, result>>
  /\ UNCHANGED <<status, aliases, revision, daemon, request, todo, reading>>

\* A statement fails (a busy database, a full disk): the request ends and what
\* it committed before stays.
Fail(r) ==
  /\ pc[r] \notin {"idle", "done", "failed"}
  /\ Goto(r, "failed")
  /\ UNCHANGED <<database, daemon, request, todo, reading, result>>

\* The daemon dies and starts with any configuration.  lifespan() brings an
\* existing model up to date before any request is served.
Restart ==
  /\ restarts < MaxRestart
  /\ restarts' = restarts + 1
  /\ enabled' \in BOOLEAN
  /\ pc' = [r \in Request |-> IF pc[r] \in {"idle", "done"} THEN pc[r] ELSE "failed"]
  /\ IF snapshots = <<>> \/ Fresh(enabled')
     THEN UNCHANGED <<snapshots, derived>>
     ELSE LET applied == IF enabled' THEN aliases ELSE {}
          IN  /\ snapshots' = Append(snapshots, Snapshot(Stored, applied, revision, enabled'))
              /\ derived' = Content(Stored, applied)
  /\ UNCHANGED <<status, aliases, revision, request, todo, reading, result>>

Next ==
  \/ \E r \in Request :
       \/ BeginLearn(r) \/ AddEvidence(r) \/ RegisterAlias(r) \/ RegisterDone(r)
       \/ BeginForget(r) \/ RemoveEvidence(r) \/ WriteAlias(r)
       \/ BeginCurrent(r) \/ ReadLatest(r) \/ CompareRevision(r)
       \/ ReadEvidence(r) \/ ReadRevision(r) \/ ReadAliases(r)
       \/ ReadVersion(r) \/ Replace(r) \/ Fail(r)
  \/ WriteLabel
  \/ Restart

Spec == Init /\ [][Next]_vars

-----------------------------------------------------------------------------
Label == {"idle", "add", "register", "remove", "latest", "compare", "evidence",
          "revision", "aliases", "version", "replace", "done", "failed"}

ContentType == [evidence : SUBSET Evidence, aliases : SUBSET Alias]
SnapshotType == [content : ContentType, revision : Nat, aliased : BOOLEAN]

\* Every variable has its type: the database rows and each request's locals.
TypeOK ==
  /\ status \in [Evidence -> {"unused", "stored", "deleted"}]
  /\ aliases \in SUBSET Alias
  /\ revision \in Nat
  /\ snapshots \in Seq(SnapshotType)
  /\ derived \in ContentType
  /\ enabled \in BOOLEAN
  /\ restarts \in Nat
  /\ pc \in [Request -> Label]
  /\ kind \in [Request -> {"none", "learn", "forget", "alias", "current"}]
  /\ items \in [Request -> SUBSET Evidence]
  /\ todo \in [Request -> SUBSET Evidence]
  /\ start \in [Request -> Nat]
  /\ seenEvidence \in [Request -> SUBSET Evidence]
  /\ stamp \in [Request -> Nat]
  /\ seenAliases \in [Request -> SUBSET Alias]
  /\ version \in [Request -> Nat]
  /\ result \in [Request -> Nat]

\* The comment in ModelRebuilder.rebuild: because aliases are read after the
\* revision, a snapshot that current() would serve as fresh was built with the
\* aliases that are active now, whatever was written while it was built.
FreshSnapshotHasActiveAliases ==
  Fresh(enabled) => Latest.content.aliases = ActiveAliases

\* The docstring of current(): the snapshot served as fresh was rebuilt since
\* the evidence last changed.  list_for_profile_with_revision reads the rows
\* before the revision, so a write between the two SELECTs refutes this.
FreshSnapshotHasStoredEvidence ==
  Fresh(enabled) => Latest.content.evidence = Stored

\* current() never hands out a snapshot older than the moment it was asked:
\* what was committed before the request began is covered by its revision.
CurrentIsRecent ==
  \A r \in Request :
    kind[r] = "current" /\ result[r] # 0 => snapshots[result[r]].revision >= start[r]

\* A correction or an extraction answers with a snapshot that has learned its
\* evidence, unless that was deleted meanwhile; a deletion answers with one
\* that no longer rests on the deleted row.
OwnChangeInSnapshot ==
  \A r \in Request : result[r] # 0 =>
    LET used == snapshots[result[r]].content.evidence
    IN  /\ kind[r] = "learn" => items[r] \cap Stored \subseteq used
        /\ kind[r] = "forget" => items[r] \cap used = {}

\* lifespan(): after a restart that toggled key_aliases.enabled no request is
\* served a model of the other algorithm.
AlgorithmMatchesSettings == snapshots # <<>> => Latest.aliased = enabled

\* The preference, fact, goal and constraint rows are those of the latest
\* snapshot, although two requests may be replacing them at the same time.
DerivedRowsMatchLatest == snapshots # <<>> => derived = Latest.content

\* A stored snapshot never changes: predictions and delegations that quote its
\* version keep meaning what they meant.
SnapshotsAreImmutable ==
  [][\A v \in 1..Len(snapshots) :
       v <= Len(snapshots') /\ snapshots'[v] = snapshots[v]]_vars
=============================================================================
