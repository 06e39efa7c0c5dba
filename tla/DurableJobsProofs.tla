-------------------------- MODULE DurableJobsProofs --------------------------
(***************************************************************************)
(* The jobs table keeps its contract for any set of jobs, any limits and   *)
(* delays, and any pattern of crashes, repository errors and time; and     *)
(* what it is killed in the midst of, a restore, ends whole.               *)
(***************************************************************************)
EXTENDS DurableJobs, Portability, TLAPS

\* The part of the state the contract rests on.  The delays are left out: when
\* a job is claimed does not matter to what becomes of it.
JobTypes ==
  /\ status \in [Job -> {"absent", "queued", "running", "succeeded", "failed"}]
  /\ attempts \in [Job -> 0..MaxAttempts]
  /\ worker \in {"polling", "handling", "succeeding", "failing", "dead"}
  /\ completed \in SUBSET Job

\* Only a claim makes a job RUNNING, and it counts an attempt.
AttemptsCounted ==
  \A j \in Job : /\ status[j] = "absent" => attempts[j] = 0
                 /\ status[j] = "running" => attempts[j] > 0

\* A job about to be marked succeeded has been handled to the end.
SuccessEarned == worker = "succeeding" => current \in completed

JInv == JobTypes /\ AttemptsCounted /\ HeldJobIsRunning /\ SuccessEarned

LEMMA JInit == Init => JInv
  BY JobsAssumption DEF Init, JInv, JobTypes, AttemptsCounted, HeldJobIsRunning, SuccessEarned

\* What Claim does to each job.
LEMMA ClaimEffect ==
  ASSUME JInv, Claim
  PROVE  /\ current' \in Job /\ status[current'] \in {"queued", "running"}
         /\ attempts[current'] < MaxAttempts
         /\ status' = [i \in Job |-> IF i = current' THEN "running"
                                     ELSE IF i \in Exhausted THEN "failed" ELSE status[i]]
         /\ attempts' = [attempts EXCEPT ![current'] = @ + 1]
         /\ worker' = "handling" /\ completed' = completed
  BY DEF Claim, Claimable, Due, Interrupted, Stale

LEMMA SweptJobs ==
  ASSUME JInv, NEW i \in Exhausted
  PROVE  i \in Job /\ status[i] = "running" /\ attempts[i] = MaxAttempts
  BY JobsAssumption DEF Exhausted, Stale, JInv, JobTypes

LEMMA JStep == JInv /\ [Next]_vars => JInv'
<1> SUFFICES ASSUME JInv, [Next]_vars PROVE JInv'
  OBVIOUS
<1> USE JobsAssumption DEF JInv, JobTypes, AttemptsCounted, HeldJobIsRunning, SuccessEarned
<1>1. ASSUME NEW j \in Job, Enqueue(j) PROVE JInv'
  BY <1>1 DEF Enqueue, process
<1>2. ASSUME NEW j \in Job, Requeue(j) PROVE JInv'
  BY <1>2 DEF Requeue, process
<1>3. CASE Claim
  <2>1. /\ current' \in Job /\ status[current'] \in {"queued", "running"}
        /\ attempts[current'] < MaxAttempts
        /\ status' = [i \in Job |-> IF i = current' THEN "running"
                                    ELSE IF i \in Exhausted THEN "failed" ELSE status[i]]
        /\ attempts' = [attempts EXCEPT ![current'] = @ + 1]
        /\ worker' = "handling" /\ completed' = completed
    BY <1>3, ClaimEffect
  <2>2. JobTypes'
    BY <2>1
  <2>3. AttemptsCounted'
    BY <2>1
  <2> QED
    BY <2>1, <2>2, <2>3
<1>4. CASE SweepOnly
  <2>1. /\ status' = [i \in Job |-> IF i \in Exhausted THEN "failed" ELSE status[i]]
        /\ worker = "polling" /\ UNCHANGED <<attempts, worker, current, completed>>
    BY <1>4 DEF SweepOnly, process
  <2> QED
    BY <2>1
<1>5. CASE HandlerReturns
  BY <1>5 DEF HandlerReturns, table
<1>6. CASE HandlerRaises
  BY <1>6 DEF HandlerRaises, table
<1>7. CASE MarkSucceeded
  BY <1>7 DEF MarkSucceeded
<1>8. CASE MarkFailed
  <2>1. /\ worker = "failing" /\ worker' = "polling" /\ UNCHANGED <<attempts, completed>>
        /\ \E s \in {"failed", "queued"} : status' = [status EXCEPT ![current] = s]
    BY <1>8 DEF MarkFailed
  <2> QED
    BY <2>1
<1>9. CASE RepositoryError
  BY <1>9 DEF RepositoryError, table
<1>10. CASE Restart
  BY <1>10 DEF Restart, table
<1>11. CASE Tick
  BY <1>11 DEF Tick, process
<1>12. CASE UNCHANGED vars
  BY <1>12 DEF vars, table, process
<1> QED
  BY <1>1, <1>2, <1>3, <1>4, <1>5, <1>6, <1>7, <1>8, <1>9, <1>10, <1>11, <1>12 DEF Next

THEOREM JCorrect == Spec => []JInv
  BY JInit, JStep, PTL DEF Spec

\* A job the worker holds is RUNNING, for any number of jobs and crashes.
THEOREM HeldRunning == Spec => []HeldJobIsRunning
<1>1. JInv => HeldJobIsRunning
  BY DEF JInv
<1> QED
  BY <1>1, JCorrect, PTL

-----------------------------------------------------------------------------
(* The refinement: each step of the table is a step of the contract.       *)

\* It is enough to say what becomes of each job.
LEMMA PerJob ==
  ASSUME JInv, JInv',
         ASSUME NEW j \in Job
         PROVE  \/ Contract!Submitted(j) \/ Contract!Tried(j) \/ Contract!Effected(j)
                \/ Contract!Succeeded(j) \/ Contract!GivenUp(j) \/ Contract!Resubmitted(j)
                \/ Contract!Kept(j)
  PROVE  Contract!Next
<1>1. /\ Outcome' \in [Job -> {"absent", "pending", "succeeded", "failed"}]
      /\ attempts' \in [Job -> Nat]
      /\ completed' \in SUBSET Job
  BY JobsAssumption DEF JInv, JobTypes, Outcome
<1> QED
  BY <1>1 DEF Contract!Next

LEMMA StepKeepsContract == JInv /\ [Next]_vars => [Contract!Next]_(Contract!vars)
<1> SUFFICES ASSUME JInv, Next PROVE Contract!Next
  BY DEF vars, table, process, Contract!vars, Outcome
<1>1. JInv'
  BY JStep
<1> DEFINE Fate(j) == \/ Contract!Submitted(j) \/ Contract!Tried(j) \/ Contract!Effected(j)
                      \/ Contract!Succeeded(j) \/ Contract!GivenUp(j)
                      \/ Contract!Resubmitted(j) \/ Contract!Kept(j)
<1> SUFFICES ASSUME NEW j \in Job PROVE Fate(j)
  BY <1>1, PerJob
<1> USE DEF JInv, JobTypes, Outcome
<1>2. ASSUME NEW i \in Job, Enqueue(i) PROVE Fate(j)
  BY <1>2 DEF Enqueue, process, AttemptsCounted, Contract!Submitted, Contract!Kept
<1>3. ASSUME NEW i \in Job, Requeue(i) PROVE Fate(j)
  BY <1>3 DEF Requeue, process, Contract!Resubmitted, Contract!Kept
<1>4. ASSUME UNCHANGED <<attempts, completed>>,
             status' = [i \in Job |-> IF i \in Exhausted THEN "failed" ELSE status[i]]
      PROVE  Fate(j)
  <2>1. CASE j \in Exhausted
    BY <1>4, <2>1, SweptJobs DEF Contract!GivenUp
  <2>2. CASE j \notin Exhausted
    BY <1>4, <2>2 DEF Contract!Kept
  <2> QED
    BY <2>1, <2>2
<1>5. CASE Claim
  <2>1. /\ current' \in Job /\ status[current'] \in {"queued", "running"}
        /\ attempts[current'] < MaxAttempts
        /\ status' = [i \in Job |-> IF i = current' THEN "running"
                                    ELSE IF i \in Exhausted THEN "failed" ELSE status[i]]
        /\ attempts' = [attempts EXCEPT ![current'] = @ + 1]
        /\ completed' = completed
    BY <1>5, ClaimEffect
  <2>2. CASE j = current'
    BY JobsAssumption, <2>1, <2>2 DEF Contract!Tried
  <2>3. CASE j # current' /\ j \in Exhausted
    BY <2>1, <2>3, SweptJobs DEF Contract!GivenUp
  <2>4. CASE j # current' /\ j \notin Exhausted
    BY <2>1, <2>4 DEF Contract!Kept
  <2> QED
    BY <2>2, <2>3, <2>4
<1>6. CASE SweepOnly
  BY <1>4, <1>6 DEF SweepOnly, process
<1>7. CASE HandlerReturns \/ HandlerRaises
  <2>1. /\ completed' \in {completed, completed \cup {current}}
        /\ UNCHANGED <<status, attempts>>
        /\ current \in Job /\ status[current] = "running" /\ attempts[current] > 0
    BY <1>7 DEF HandlerReturns, HandlerRaises, table, HeldJobIsRunning, AttemptsCounted
  <2>2. CASE j = current
    BY <2>1, <2>2 DEF Contract!Effected, Contract!Kept
  <2>3. CASE j # current
    BY <2>1, <2>3 DEF Contract!Kept
  <2> QED
    BY <2>2, <2>3
<1>8. CASE MarkSucceeded
  <2>1. /\ current \in Job /\ status[current] = "running" /\ current \in completed
        /\ status' = [status EXCEPT ![current] = "succeeded"]
        /\ UNCHANGED <<attempts, completed>>
    BY <1>8 DEF MarkSucceeded, HeldJobIsRunning, SuccessEarned
  <2>2. CASE j = current
    BY <2>1, <2>2 DEF Contract!Succeeded
  <2>3. CASE j # current
    BY <2>1, <2>3 DEF Contract!Kept
  <2> QED
    BY <2>2, <2>3
<1>9. CASE MarkFailed
  <2>1. /\ current \in Job /\ status[current] = "running"
        /\ status' = [status EXCEPT ![current] =
                        IF attempts[current] >= MaxAttempts THEN "failed" ELSE "queued"]
        /\ UNCHANGED <<attempts, completed>>
    BY <1>9 DEF MarkFailed, HeldJobIsRunning
  <2>2. CASE j = current /\ attempts[j] >= MaxAttempts
    <3>1. attempts[j] = MaxAttempts
      BY JobsAssumption, <2>2
    <3> QED
      BY <2>1, <2>2, <3>1 DEF Contract!GivenUp
  <2>3. CASE ~(j = current /\ attempts[j] >= MaxAttempts)
    BY <2>1, <2>3 DEF Contract!Kept
  <2> QED
    BY <2>2, <2>3
<1>10. CASE RepositoryError \/ Restart \/ Tick
  BY <1>10 DEF RepositoryError, Restart, Tick, table, process, Contract!Kept
<1> QED
  BY <1>2, <1>3, <1>5, <1>6, <1>7, <1>8, <1>9, <1>10 DEF Next

\* The jobs table and its worker implement the abstract queue.
THEOREM JobsKeepContract == Spec => KeepsContract
<1>1. Init => Contract!Init
  BY DEF Init, Outcome, Contract!Init
<1> QED
  BY <1>1, StepKeepsContract, JCorrect, PTL DEF Spec, KeepsContract, Contract!Spec

\* A job that has succeeded is never touched again.
THEOREM SucceededForGood == Spec => SucceededStays
<1>1. JInv /\ [Next]_vars =>
        [\A j \in Job : status[j] = "succeeded" => status'[j] = "succeeded"]_vars
  <2> SUFFICES ASSUME JInv, Next, NEW j \in Job, status[j] = "succeeded"
               PROVE  status'[j] = "succeeded"
    OBVIOUS
  <2>1. Contract!Next \/ UNCHANGED Contract!vars
    BY StepKeepsContract
  <2>2. Outcome[j] = "succeeded"
    BY DEF Outcome
  <2>3. Outcome'[j] = "succeeded"
    BY <2>1, <2>2 DEF Contract!Next, Contract!vars, Contract!Submitted, Contract!Tried,
       Contract!Effected, Contract!Succeeded, Contract!GivenUp, Contract!Resubmitted,
       Contract!Kept
  <2> QED
    BY <2>3 DEF Outcome
<1> QED
  BY <1>1, JCorrect, PTL DEF Spec, SucceededStays

-----------------------------------------------------------------------------
(* Backups and restores, for any workers, rows, files and number of kills. *)
\* A copy of a database without keys and installation id.
Sanitized == {d \in Database : d.keys = {} /\ d.home = 0}

Packed == [made : Nat, db : Sanitized, files : SUBSET File]

\* What a thread has in hands at each step of a backup, or of staging.
WorkerRow ==
  [at : {"sanitize"}, made : Nat, db : Database, files : SUBSET File]
  \cup [at : {"zip", "upload", "success"}, made : Nat, db : Sanitized, files : SUBSET File]
  \cup [at : {"extract"}, archive : Packed]

PortabilityTypes ==
  /\ db \in Database /\ files \subseteq File /\ archives \subseteq Packed
  /\ marker \in Packed \cup {None}
  /\ daemon \in {"up", "down", "files", "wal", "replace", "unmark", "open"}
  /\ workers \in [Worker -> WorkerRow \cup {None}]
  /\ homes \in Nat /\ made \in Nat

\* What a start has made sure of at each of its steps.
StartSound ==
  /\ daemon # "up" => \A w \in Worker : workers[w] = None
  /\ daemon \in {"files", "wal", "replace", "unmark"} => marker # None
  /\ daemon \in {"files", "wal", "replace"} => IsFresh \/ Matches(marker)
  /\ daemon \in {"wal", "replace", "unmark"} => marker.files \subseteq files
  /\ daemon = "replace" => wal = None
  /\ daemon = "unmark" => Matches(marker)

PortabilityInv ==
  /\ PortabilityTypes /\ StartSound
  /\ NoKeyTravels /\ WalBelongs
  /\ (daemon = "up" => db.home # 0) /\ 0 \notin db.keys

LEMMA PortabilityStart == PortabilityInit => PortabilityInv
  BY DEF PortabilityInit, PortabilityInv, PortabilityTypes, StartSound, NoKeyTravels, WalBelongs,
         Fresh, Database

\* While the daemon is up, it may write; its threads hold what they have made.
LEMMA UpStep ==
  ASSUME PortabilityInv, daemon = "up", daemon' = "up", UNCHANGED homes,
         db' \in Database, files' \subseteq File, archives' \subseteq Packed,
         marker' \in Packed \cup {None}, made' \in Nat, PortabilityTypes',
         db'.home = db.home, db'.keys \subseteq {db.home},
         UNCHANGED wal \/ wal' = db.home
  PROVE  PortabilityInv'
  BY DEF PortabilityInv, PortabilityTypes, StartSound, NoKeyTravels, WalBelongs

LEMMA OwnerStep ==
  ASSUME PortabilityInv,
         (\E r \in Row : OwnerWrites(r)) \/ OwnerIssuesKey \/ (\E f \in File : StoreFile(f))
  PROVE  PortabilityInv'
<1>1. /\ daemon = "up" /\ daemon' = "up" /\ UNCHANGED <<homes, archives, marker, made, workers>>
  BY DEF OwnerWrites, OwnerIssuesKey, StoreFile, bounds
<1>2. /\ db' \in Database /\ db'.home = db.home /\ db'.keys \subseteq {db.home}
      /\ UNCHANGED wal \/ wal' = db.home
  BY DEF OwnerWrites, OwnerIssuesKey, StoreFile, Commits, PortabilityInv, PortabilityTypes, Database, NoKeyTravels
<1>3. files' \subseteq File
  BY DEF OwnerWrites, OwnerIssuesKey, StoreFile, PortabilityInv, PortabilityTypes
<1>4. PortabilityTypes'
  BY <1>1, <1>2, <1>3 DEF PortabilityInv, PortabilityTypes
<1>. QED  BY <1>1, <1>2, <1>3, <1>4, UpStep DEF PortabilityTypes

LEMMA WorkerStep ==
  ASSUME PortabilityInv, NEW w \in Worker,
         \/ BackupTo(w) \/ Sanitize(w) \/ Zip(w) \/ Upload(w) \/ RecordSuccess(w) \/ Refuse(w)
         \/ (\E a \in archives : BeginStage(w, a)) \/ MarkRestore(w)
  PROVE  PortabilityInv'
<1>1. daemon = "up" /\ daemon' = "up" /\ UNCHANGED <<homes, files>> /\ made' \in Nat
  BY DEF BackupTo, Sanitize, Zip, Upload, RecordSuccess, Refuse, BeginStage, MarkRestore, WorkerAt,
         PortabilityInv, PortabilityTypes, StartSound, bounds, disk
<1>2. CASE BackupTo(w) \/ Sanitize(w) \/ Zip(w) \/ Refuse(w) \/ \E a \in archives : BeginStage(w, a)
  <2>1. UNCHANGED <<disk, archives>>
    BY <1>2 DEF BackupTo, Sanitize, Zip, Refuse, BeginStage
  <2>2. workers' \in [Worker -> WorkerRow \cup {None}]
    <3>1. CASE BackupTo(w)
      BY <3>1 DEF BackupTo, WorkerRow, PortabilityInv, PortabilityTypes
    <3>2. CASE Sanitize(w)
      <4>1. workers[w] \in [at : {"sanitize"}, made : Nat, db : Database, files : SUBSET File]
        BY <3>2 DEF Sanitize, WorkerAt, PortabilityInv, PortabilityTypes, WorkerRow
      <4>2. [[workers[w].db EXCEPT !.home = 0] EXCEPT !.keys = {}] \in Sanitized
        BY <4>1 DEF Sanitized, Database
      <4>3. workers' = [workers EXCEPT ![w] =
                          [[[workers[w] EXCEPT !.at = "zip"] EXCEPT !.db.home = 0] EXCEPT !.db.keys = {}]]
        BY <3>2, <4>1 DEF Sanitize, PortabilityInv, PortabilityTypes
      <4>4. [[[workers[w] EXCEPT !.at = "zip"] EXCEPT !.db.home = 0] EXCEPT !.db.keys = {}] \in WorkerRow
        BY <4>1, <4>2 DEF WorkerRow
      <4>. QED  BY <4>3, <4>4 DEF PortabilityInv, PortabilityTypes
    <3>3. CASE Zip(w)
      BY <3>3 DEF Zip, WorkerRow, WorkerAt, PortabilityInv, PortabilityTypes
    <3>4. CASE Refuse(w)
      BY <3>4 DEF Refuse, Quits, PortabilityInv, PortabilityTypes
    <3>5. CASE \E a \in archives : BeginStage(w, a)
      BY <3>5 DEF WorkerRow, BeginStage, PortabilityInv, PortabilityTypes
    <3>. QED  BY <1>2, <3>1, <3>2, <3>3, <3>4, <3>5
  <2>. QED  BY <1>1, <2>1, <2>2, UpStep DEF PortabilityInv, PortabilityTypes, disk, NoKeyTravels
<1>3. CASE Upload(w) \/ RecordSuccess(w) \/ MarkRestore(w)
  <2>1. archives' \subseteq Packed /\ marker' \in Packed \cup {None}
    BY <1>3 DEF Upload, RecordSuccess, MarkRestore, WorkerAt, PortabilityInv, PortabilityTypes, WorkerRow, Packed, disk
  <2>2. workers' \in [Worker -> WorkerRow \cup {None}]
    BY <1>3 DEF Upload, RecordSuccess, MarkRestore, WorkerAt, Advances, Quits,
                PortabilityInv, PortabilityTypes, WorkerRow
  <2>3. /\ db' \in Database /\ db'.home = db.home /\ db'.keys \subseteq {db.home}
        /\ UNCHANGED wal \/ wal' = db.home
    BY <1>3 DEF Upload, RecordSuccess, MarkRestore, WorkerAt, Commits, disk, PortabilityInv, PortabilityTypes,
                WorkerRow, Database, NoKeyTravels
  <2>. QED  BY <1>1, <2>1, <2>2, <2>3, UpStep DEF PortabilityInv, PortabilityTypes
<1>. QED  BY <1>2, <1>3

LEMMA RestoreStep == ASSUME PortabilityInv, StartStep PROVE PortabilityInv'
<1>. USE DEF PortabilityInv, PortabilityTypes, StartSound, NoKeyTravels, WalBelongs, Starts,
             IsFresh, Matches, disk, bounds
<1>1. CASE StartRestore
  BY <1>1 DEF StartRestore
<1>2. CASE \E f \in File : CopyRestoreFile(f)
  BY <1>2 DEF CopyRestoreFile
<1>3. CASE FilesCopied
  BY <1>3 DEF FilesCopied
<1>4. CASE UnlinkWal
  BY <1>4 DEF UnlinkWal
<1>5. CASE ReplaceDatabase
  BY <1>5 DEF ReplaceDatabase, Packed, Sanitized
<1>6. CASE Unmark
  BY <1>6 DEF Unmark
<1>7. CASE EnsureInstallation
  <2>1. /\ daemon = "open" /\ daemon' = "up" /\ UNCHANGED <<files, marker, archives, workers, made>>
        /\ \/ db.home # 0 /\ UNCHANGED <<db, wal, homes>>
           \/ /\ db.home = 0 /\ homes' = homes + 1
              /\ db' = [db EXCEPT !.home = homes + 1] /\ wal' = db'.home
    BY <1>7 DEF EnsureInstallation, Commits
  <2>2. /\ db' \in Database /\ db'.keys = db.keys /\ homes' \in Nat
        /\ db'.home # 0 /\ (db.home # 0 => db'.home = db.home)
        /\ db.home = 0 => db'.home = homes + 1
    BY <2>1 DEF Database
  <2>3. db.home = 0 => db.keys = {}
    OBVIOUS
  <2>. QED  BY <2>1, <2>2, <2>3
<1>. QED  BY <1>1, <1>2, <1>3, <1>4, <1>5, <1>6, <1>7 DEF StartStep

LEMMA PortabilityStep == PortabilityInv /\ [PortabilityNext]_portabilityVars => PortabilityInv'
<1>. SUFFICES ASSUME PortabilityInv, [PortabilityNext]_portabilityVars PROVE PortabilityInv'
  OBVIOUS
<1>1. CASE StopDaemon \/ KillDaemon
  BY <1>1 DEF StopDaemon, KillDaemon, PortabilityInv, PortabilityTypes, StartSound, NoKeyTravels, WalBelongs,
              disk, bounds
<1>2. CASE NewComputer
  BY <1>2 DEF NewComputer, PortabilityInv, PortabilityTypes, StartSound, NoKeyTravels, WalBelongs,
              Fresh, Database, bounds
<1>3. CASE UNCHANGED portabilityVars
  BY <1>3 DEF portabilityVars, PortabilityInv, PortabilityTypes, StartSound, NoKeyTravels, WalBelongs,
              IsFresh, Matches, disk, bounds
<1>. QED  BY <1>1, <1>2, <1>3, OwnerStep, WorkerStep, RestoreStep DEF PortabilityNext

LEMMA PortabilitySound == PortabilitySpec => []PortabilityInv
  BY PortabilityStart, PortabilityStep, PTL DEF PortabilitySpec

\* However installations are backed up, restored and killed, the devices and
\* credentials of a database are those of its own installation.
THEOREM KeysStayAtHome == PortabilitySpec => []NoKeyTravels
<1>1. PortabilityInv => NoKeyTravels
  BY DEF PortabilityInv
<1>. QED  BY <1>1, PortabilitySound, PTL

\* No start, killed or not, leaves the -wal of one database to another.
THEOREM WalStaysAtHome == PortabilitySpec => []WalBelongs
<1>1. PortabilityInv => WalBelongs
  BY DEF PortabilityInv
<1>. QED  BY <1>1, PortabilitySound, PTL

\* Nothing of the owner's is overwritten between two runs of the daemon.
THEOREM RestoreKeepsOwned == PortabilitySpec => OwnedIsKept
<1>1. PortabilityInv /\ [PortabilityNext]_portabilityVars =>
        [daemon # "up" /\ daemon' # "down" => db.rows \subseteq db'.rows]_portabilityVars
  <2>. SUFFICES ASSUME PortabilityInv, PortabilityNext, daemon # "up", daemon' # "down"
                PROVE  db.rows \subseteq db'.rows
    OBVIOUS
  <2>1. StartStep
    BY DEF PortabilityInv, StartSound, PortabilityNext, OwnerWrites, OwnerIssuesKey, StoreFile, BackupTo,
           Sanitize, Zip, Upload, RecordSuccess, Refuse, BeginStage, MarkRestore, WorkerAt, StopDaemon,
           KillDaemon, NewComputer
  <2>2. CASE ReplaceDatabase
    BY <2>2 DEF ReplaceDatabase, PortabilityInv, PortabilityTypes, StartSound, IsFresh, Matches
  <2>3. CASE EnsureInstallation
    BY <2>3 DEF EnsureInstallation, Commits, PortabilityInv, PortabilityTypes, Database
  <2>4. CASE ~ReplaceDatabase /\ ~EnsureInstallation
    BY <2>1, <2>4 DEF StartStep, StartRestore, CopyRestoreFile, FilesCopied, UnlinkWal, Unmark, Starts, disk
  <2>. QED  BY <2>2, <2>3, <2>4
<1>. QED  BY <1>1, PortabilitySound, PTL DEF PortabilitySpec, OwnedIsKept

\* A restore ends with database and files in place, however often it was killed.
THEOREM RestoredWhole == PortabilitySpec => AppliedWhole
<1>1. PortabilityInv /\ [PortabilityNext]_portabilityVars =>
        [marker # None /\ marker' = None /\ daemon # "down" =>
           Matches(marker) /\ marker.files \subseteq files]_portabilityVars
  <2>. SUFFICES ASSUME PortabilityInv, PortabilityNext, marker # None, marker' = None, daemon # "down"
                PROVE  Matches(marker) /\ marker.files \subseteq files
    OBVIOUS
  <2>1. ASSUME NEW w \in Worker PROVE ~MarkRestore(w)
    <3>1. MarkRestore(w) => workers[w].archive \in Packed /\ marker' = workers[w].archive
      BY DEF MarkRestore, WorkerAt, PortabilityInv, PortabilityTypes, WorkerRow
    <3>2. Packed \subseteq Archive
      BY DEF Packed, Archive, Sanitized
    <3>. QED  BY <3>1, <3>2, PortabilityAssumption
  <2>2. Unmark
    BY <2>1 DEF PortabilityNext, StartStep, OwnerWrites, OwnerIssuesKey, StoreFile, BackupTo,
           Sanitize, Zip, Upload, RecordSuccess, Refuse, BeginStage, StopDaemon, KillDaemon, NewComputer,
           StartRestore, CopyRestoreFile, FilesCopied, UnlinkWal, ReplaceDatabase, EnsureInstallation, disk
  <2>. QED  BY <2>2 DEF Unmark, PortabilityInv, StartSound
<1>. QED  BY <1>1, PortabilitySound, PTL DEF PortabilitySpec, AppliedWhole
=============================================================================
