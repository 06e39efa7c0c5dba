---------------------------- MODULE Portability ----------------------------
(***************************************************************************)
(* Archives and restore: ArchiveService, stage_restore and                 *)
(* apply_pending_restore of portability.py, their endpoints in data_api.py *)
(* and the remote backups of remote_backup.py.  The owner backs an         *)
(* installation up, moves to a new computer and restores there; the        *)
(* process may be killed between any two steps on the disk.  Encryption,   *)
(* the zip container and the checks of damaged archives are left out: an   *)
(* archive is read whole or refused.                                       *)
(***************************************************************************)
EXTENDS Naturals

CONSTANTS Worker,      \* threads that back up or stage
          Row,         \* the owner's rows in the tables of FRESHNESS_QUERIES
          File,        \* files of the archived directories
          MaxHomes,    \* bound: installations
          MaxArchives, \* bound: archives made
          MaxKills,    \* bound: kills of the process
          None

VARIABLES db,       \* the database file
          wal,      \* None, or the installation whose pages the -wal file holds
          files,    \* files in the archived directories
          archives, \* what was sent to the remote store
          marker,   \* None, or the staged archive that waits for the next start
          daemon,   \* "up", "down", or the step of the start it is at
          workers, homes, made, kills

disk == <<db, wal, files, marker>>
bounds == <<homes, made, kills>>
portabilityVars == <<disk, archives, daemon, workers, bounds>>

\* A database: rows, the installations whose devices and credentials it holds,
\* LAST_REMOTE_BACKUP_AT, and its own installation, 0 for none.
Fresh == [rows |-> {}, keys |-> {}, success |-> 0, home |-> 0]

Database == [rows : SUBSET Row, keys : SUBSET Nat, success : Nat, home : Nat]
Archive == [made : Nat, db : Database, files : SUBSET File]

ASSUME PortabilityAssumption ==
  {MaxHomes, MaxArchives, MaxKills} \subseteq Nat /\ None \notin Archive

PortabilityInit ==
  /\ db = Fresh /\ wal = None /\ files = {} /\ archives = {} /\ marker = None
  /\ daemon = "down" /\ workers = [w \in Worker |-> None]
  /\ homes = 0 /\ made = 0 /\ kills = 0

\* is_fresh_installation: devices and service identities count like data.
IsFresh == db.rows = {} /\ db.keys = {}

\* current_matches: the file is, by its checksum, the staged one.
Matches(archive) == db = archive.db

WorkerAt(w, step) == workers[w] # None /\ workers[w].at = step
Advances(w, step) == workers' = [workers EXCEPT ![w].at = step]
Quits(w) == workers' = [workers EXCEPT ![w] = None]

\* Every write of the open database goes to its -wal first.
Commits(new) == db' = new /\ wal' = new.home

-----------------------------------------------------------------------------
\* The owner adds and removes data, pairs devices and issues keys.
OwnerWrites(r) ==
  /\ daemon = "up"
  /\ Commits([db EXCEPT !.rows = IF r \in @ THEN @ \ {r} ELSE @ \cup {r}])
  /\ UNCHANGED <<files, marker, archives, daemon, workers, bounds>>

OwnerIssuesKey ==
  /\ daemon = "up"
  /\ Commits([db EXCEPT !.keys = @ \cup {db.home}])
  /\ UNCHANGED <<files, marker, archives, daemon, workers, bounds>>

StoreFile(f) ==
  /\ daemon = "up"
  /\ files' = files \cup {f}
  /\ UNCHANGED <<db, wal, marker, archives, daemon, workers, bounds>>

-----------------------------------------------------------------------------
\* create: a consistent copy of the live database, -wal included, ...
BackupTo(w) ==
  /\ daemon = "up" /\ workers[w] = None /\ made < MaxArchives
  /\ made' = made + 1
  /\ workers' = [workers EXCEPT ![w] = [at |-> "sanitize", made |-> made + 1, db |-> db, files |-> {}]]
  /\ UNCHANGED <<disk, archives, daemon, homes, kills>>

\* Fault: only the installation id is taken out of the copy.
SanitizeHome(w) ==
  /\ WorkerAt(w, "sanitize")
  /\ workers' = [workers EXCEPT ![w].at = "zip", ![w].db.home = 0]
  /\ UNCHANGED <<disk, archives, daemon, bounds>>

\* ... without its keys and its installation id, ...
Sanitize(w) ==
  /\ WorkerAt(w, "sanitize")
  /\ workers' = [workers EXCEPT ![w].at = "zip", ![w].db.home = 0, ![w].db.keys = {}]
  /\ UNCHANGED <<disk, archives, daemon, bounds>>

\* ... packed with the files as they are by then and written in one piece.
Zip(w) ==
  /\ WorkerAt(w, "zip")
  /\ workers' = [workers EXCEPT ![w].at = "upload", ![w].files = files]
  /\ UNCHANGED <<disk, archives, daemon, bounds>>

\* create_and_upload: the archive is sent ...
Upload(w) ==
  /\ WorkerAt(w, "upload")
  /\ archives' = archives \cup {[made |-> workers[w].made, db |-> workers[w].db, files |-> workers[w].files]}
  /\ Advances(w, "success")
  /\ UNCHANGED <<disk, daemon, bounds>>

\* ... and then its time is stored.
RecordSuccess(w) ==
  /\ WorkerAt(w, "success")
  /\ Commits([db EXCEPT !.success = workers[w].made])
  /\ Quits(w)
  /\ UNCHANGED <<files, marker, archives, daemon, bounds>>

\* Any step of a backup or of staging may fail; what it wrote is removed.
Refuse(w) ==
  /\ workers[w] # None
  /\ Quits(w)
  /\ UNCHANGED <<disk, archives, daemon, bounds>>

-----------------------------------------------------------------------------
\* stage_restore: no restore may wait and the installation must be fresh; ...
BeginStage(w, a) ==
  /\ daemon = "up" /\ workers[w] = None
  /\ marker = None /\ IsFresh
  /\ workers' = [workers EXCEPT ![w] = [at |-> "extract", archive |-> a]]
  /\ UNCHANGED <<disk, archives, daemon, bounds>>

\* ... the archive is unpacked and checked in a directory of its own, and then
\* the marker is written over what is there.
MarkRestore(w) ==
  /\ WorkerAt(w, "extract")
  /\ marker' = workers[w].archive
  /\ Quits(w)
  /\ UNCHANGED <<db, wal, files, archives, daemon, bounds>>

-----------------------------------------------------------------------------
\* apply_pending_restore, at every start, before the database is opened.
Starts(step) ==
  /\ daemon' = step
  /\ UNCHANGED <<archives, workers, bounds>>

\* Fault: a database that is not fresh is refused, the restored one included.
StartFreshOnly ==
  /\ daemon = "down"
  /\ IF marker = None THEN Starts("open") ELSE IsFresh /\ Starts("files")
  /\ UNCHANGED disk

\* Fault: what was fresh when the archive was staged is taken to be so still.
StartUnchecked ==
  /\ daemon = "down"
  /\ Starts(IF marker = None THEN "open" ELSE "files")
  /\ UNCHANGED disk

\* A restore that no longer finds the installation fresh fails, and the start
\* with it; the marker stays.
StartRestore ==
  /\ daemon = "down"
  /\ IF marker = None THEN Starts("open") ELSE (Matches(marker) \/ IsFresh) /\ Starts("files")
  /\ UNCHANGED disk

\* A file that is there already, from an interrupted start, is kept.
CopyRestoreFile(f) ==
  /\ daemon = "files" /\ f \in marker.files \ files
  /\ files' = files \cup {f}
  /\ Starts("files")
  /\ UNCHANGED <<db, wal, marker>>

FilesCopied ==
  /\ daemon = "files" /\ marker.files \subseteq files
  /\ Starts(IF Matches(marker) THEN "unmark" ELSE "wal")
  /\ UNCHANGED disk

\* Fault: the pages of the old database are left to the new one.
KeepWal ==
  /\ daemon = "wal"
  /\ Starts("replace")
  /\ UNCHANGED disk

\* The -wal of the old database goes before the database does.
UnlinkWal ==
  /\ daemon = "wal"
  /\ wal' = None
  /\ Starts("replace")
  /\ UNCHANGED <<db, files, marker>>

\* Fault: the marker goes together with the old database's last step.
ReplaceLater ==
  /\ daemon = "replace"
  /\ Starts("unmark")
  /\ UNCHANGED disk

ReplaceDatabase ==
  /\ daemon = "replace"
  /\ db' = marker.db
  /\ Starts("unmark")
  /\ UNCHANGED <<wal, files, marker>>

Unmark ==
  /\ daemon = "unmark"
  /\ marker' = None
  /\ Starts("open")
  /\ UNCHANGED <<db, wal, files>>

\* ensure_installation: a database without an installation id gets a new one.
EnsureInstallation ==
  /\ daemon = "open" /\ daemon' = "up"
  /\ IF db.home # 0 THEN UNCHANGED <<db, wal, homes>>
     ELSE /\ homes < MaxHomes
          /\ homes' = homes + 1
          /\ Commits([db EXCEPT !.home = homes + 1])
  /\ UNCHANGED <<files, marker, archives, workers, made, kills>>

\* A clean stop checkpoints the database.
StopDaemon ==
  /\ daemon = "up"
  /\ daemon' = "down" /\ wal' = None /\ workers' = [w \in Worker |-> None]
  /\ UNCHANGED <<db, files, marker, archives, bounds>>

KillDaemon ==
  /\ daemon # "down" /\ kills < MaxKills
  /\ kills' = kills + 1 /\ daemon' = "down" /\ workers' = [w \in Worker |-> None]
  /\ UNCHANGED <<disk, archives, homes, made>>

\* Another computer: only what was sent is there.
NewComputer ==
  /\ daemon = "down" /\ archives # {}
  /\ db' = Fresh /\ wal' = None /\ files' = {} /\ marker' = None
  /\ UNCHANGED <<archives, daemon, workers, bounds>>

StartStep ==
  \/ StartRestore \/ (\E f \in File : CopyRestoreFile(f)) \/ FilesCopied \/ UnlinkWal \/ ReplaceDatabase
  \/ Unmark \/ EnsureInstallation

PortabilityNext ==
  \/ (\E r \in Row : OwnerWrites(r)) \/ OwnerIssuesKey \/ (\E f \in File : StoreFile(f))
  \/ \E w \in Worker :
       \/ BackupTo(w) \/ Sanitize(w) \/ Zip(w) \/ Upload(w) \/ RecordSuccess(w) \/ Refuse(w)
       \/ (\E a \in archives : BeginStage(w, a)) \/ MarkRestore(w)
  \/ StartStep \/ StopDaemon \/ KillDaemon \/ NewComputer

PortabilitySpec ==
  PortabilityInit /\ [][PortabilityNext]_portabilityVars /\ WF_portabilityVars(StartStep)

-----------------------------------------------------------------------------
\* ADR-011: no "former devices or external API-key holders reach the restored
\* installation": the devices and credentials of a database are those of its own
\* installation, whatever was backed up, restored and killed before.
NoKeyTravels == db.keys \subseteq {db.home}

\* The pages of one database are never read into another: the -wal file on the
\* disk belongs to the database next to it, also when the start is killed.
WalBelongs == wal # None => wal = db.home

\* P10-T07: "Restore refuses to overwrite owner-created data": between two runs
\* of the daemon nothing the owner stored is lost, although it was stored after
\* the archive was staged.
OwnedIsKept == [][daemon # "up" /\ daemon' # "down" => db.rows \subseteq db'.rows]_portabilityVars

\* A restore ends with all of the archive in place, database and files, however
\* often the start was killed in it.
AppliedWhole ==
  [][marker # None /\ marker' = None /\ daemon # "down" =>
       Matches(marker) /\ marker.files \subseteq files]_portabilityVars

\* A start that was killed in a restore takes it up again: what waits for a
\* fresh or half-restored installation is applied.
RestoreIsApplied ==
  marker # None /\ daemon = "down" /\ (IsFresh \/ Matches(marker)) ~> marker = None
=============================================================================
