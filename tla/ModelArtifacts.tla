--------------------------- MODULE ModelArtifacts ---------------------------
(***************************************************************************)
(* The files of the pinned embedding model: ModelArtifactStore and         *)
(* ArtifactDownloader of model_artifacts.py under EmbeddingModelService.   *)
(* One download task runs on the event loop; imports and removals run on   *)
(* the threads of their endpoints, which look at the task and at nothing   *)
(* else.  All stage a file as its .part, hash it by name and then move it  *)
(* by name; a writer that has the .part open follows the file, not its     *)
(* name.  Privacy modes, progress and the audit are left out.              *)
(***************************************************************************)
EXTENDS Naturals, FiniteSets

CONSTANTS Importer,   \* threads of the import and remove endpoints
          Task,       \* the download task
          PinnedFile, \* files of the artifact
          MaxFetches, \* bound on downloads started
          Absent

VARIABLES staged,   \* staged[f]: Absent, or content of the .part
          active,   \* active[f]: Absent, or content of the file in place
          writer,   \* writer[w]: Absent, or the file w brings in and its step
          fetching, \* the task exists and is not done
          fetches,
          shared    \* files whose .part two writers have had in hands at once

artifactVars == <<staged, active, writer, fetching, fetches, shared>>

Writer == Importer \cup {Task}

\* A content is "pinned", with the pinned hash, "start", a beginning of it, or
\* "other".
ArtifactsInit ==
  /\ staged = [f \in PinnedFile |-> Absent]
  /\ active = [f \in PinnedFile |-> Absent]
  /\ writer = [w \in Writer |-> Absent]
  /\ fetching = FALSE /\ fetches = 0 /\ shared = {}

Installed == \A f \in PinnedFile : active[f] # Absent

Stands(w, step) == writer[w] # Absent /\ writer[w].at = step
Leaves(w) == writer' = [writer EXCEPT ![w] = Absent]
Takes(w, f, record) ==
  /\ writer' = [writer EXCEPT ![w] = record]
  /\ shared' = IF \E v \in Writer \ {w} : writer[v] # Absent /\ writer[v].file = f
               THEN shared \cup {f} ELSE shared

\* What w's open file is called by now; a deleted one has no name.
Renamed(f, name) ==
  [w \in Writer |-> IF writer[w] # Absent /\ writer[w].file = f /\ writer[w].open = "part"
                    THEN [writer[w] EXCEPT !.open = name] ELSE writer[w]]

Stages(w, content) ==
  LET f == writer[w].file IN
    /\ staged' = IF writer[w].open = "part" THEN [staged EXCEPT ![f] = content] ELSE staged
    /\ active' = IF writer[w].open = "active" THEN [active EXCEPT ![f] = content] ELSE active

-----------------------------------------------------------------------------
\* start_download, called on the event loop as the service's tests do: one task,
\* and only for a model that is not installed.  The endpoint calls it on a thread,
\* where create_task finds no loop and raises.
StartDownload ==
  /\ ~fetching /\ ~Installed /\ fetches < MaxFetches
  /\ fetching' = TRUE /\ fetches' = fetches + 1
  /\ UNCHANGED <<staged, active, writer, shared>>

\* _download_file: the next missing file is asked for from where its .part ends.
Ask(f) ==
  /\ fetching /\ writer[Task] = Absent /\ active[f] = Absent
  /\ Takes(Task, f, [file |-> f, at |-> "response", open |-> "none", from |-> staged[f]])
  /\ UNCHANGED <<staged, active, fetching, fetches>>

\* 206 appends to the .part and 200 starts it again; upstream may serve another
\* file by now.  No rest is left to ask of a .part that is complete.
Open(resumed, content) ==
  /\ Stands(Task, "response")
  /\ resumed => writer[Task].from \notin {Absent, "pinned"}
  /\ LET f == writer[Task].file
         before == IF resumed THEN staged[f] ELSE "start"
     IN staged' = [staged EXCEPT ![f] = IF before = "start" THEN content ELSE "other"]
  /\ writer' = [writer EXCEPT ![Task].at = "receive", ![Task].open = "part"]
  /\ UNCHANGED <<active, fetching, fetches, shared>>

Receive ==
  /\ Stands(Task, "receive")
  /\ Stages(Task, IF writer[Task].file \notin shared /\ staged[writer[Task].file] = "start"
                  THEN "pinned" ELSE "other")
  /\ writer' = [writer EXCEPT ![Task].at = "hash", ![Task].open = "none"]
  /\ UNCHANGED <<fetching, fetches, shared>>

\* A request or a read that fails, or cancel: the .part stays for a resume.
Interrupt ==
  /\ fetching /\ (writer[Task] # Absent => writer[Task].at \in {"response", "receive"})
  /\ fetching' = FALSE /\ Leaves(Task)
  /\ UNCHANGED <<staged, active, fetches, shared>>

DownloadDone ==
  /\ fetching /\ writer[Task] = Absent /\ Installed
  /\ fetching' = FALSE
  /\ UNCHANGED <<staged, active, writer, fetches, shared>>

-----------------------------------------------------------------------------
\* import_file: refused while a download runs; its .part is opened anew, ...
BeginImport(w, f, content) ==
  /\ ~fetching /\ writer[w] = Absent
  /\ Takes(w, f, [file |-> f, at |-> "copy", open |-> "part", from |-> content])
  /\ staged' = [staged EXCEPT ![f] = IF content = "pinned" THEN "start" ELSE "other"]
  /\ UNCHANGED <<active, fetching, fetches>>

\* ... filled; what two writers wrote into one file is neither's, or the last's.
Copy(w) ==
  /\ w \in Importer /\ Stands(w, "copy")
  /\ \E content \in {writer[w].from} \cup (IF writer[w].file \in shared THEN {"other"} ELSE {}) :
       Stages(w, content)
  /\ writer' = [writer EXCEPT ![w].at = "hash", ![w].open = "none"]
  /\ UNCHANGED <<fetching, fetches, shared>>

\* Fault: a file the owner brings is taken to be the pinned one.
HashDownloads(w) ==
  /\ Stands(w, "hash")
  /\ LET f == writer[w].file IN
       IF w # Task \/ staged[f] = "pinned"
       THEN writer' = [writer EXCEPT ![w].at = "move"] /\ UNCHANGED <<staged, fetching>>
       ELSE /\ staged' = [staged EXCEPT ![f] = Absent]
            /\ writer' = [Renamed(f, "deleted") EXCEPT ![w] = Absent]
            /\ fetching' = (fetching /\ w # Task)
  /\ UNCHANGED <<active, fetches, shared>>

\* activate: the .part is hashed, and deleted when it is not the pinned file.
Hash(w) ==
  /\ Stands(w, "hash")
  /\ LET f == writer[w].file IN
       IF staged[f] = "pinned"
       THEN writer' = [writer EXCEPT ![w].at = "move"] /\ UNCHANGED <<staged, fetching>>
       ELSE /\ staged' = [staged EXCEPT ![f] = Absent]
            /\ writer' = [Renamed(f, "deleted") EXCEPT ![w] = Absent]
            /\ fetching' = (fetching /\ w # Task)
  /\ UNCHANGED <<active, fetches, shared>>

\* Then it is moved into place, whatever is under its name by now.
Move(w) ==
  /\ Stands(w, "move")
  /\ LET f == writer[w].file IN
       IF staged[f] = Absent
       THEN Leaves(w) /\ fetching' = (fetching /\ w # Task) /\ UNCHANGED <<staged, active>>
       ELSE /\ active' = [active EXCEPT ![f] = staged[f]]
            /\ staged' = [staged EXCEPT ![f] = Absent]
            /\ writer' = [Renamed(f, "active") EXCEPT ![w] = Absent]
            /\ UNCHANGED fetching
  /\ UNCHANGED <<fetches, shared>>

-----------------------------------------------------------------------------
\* remove: refused while a download runs; every file goes.
RemoveModel ==
  /\ ~fetching
  /\ staged' = [f \in PinnedFile |-> Absent] /\ active' = [f \in PinnedFile |-> Absent]
  /\ writer' = [w \in Writer |-> IF writer[w] # Absent /\ writer[w].open # "none"
                                 THEN [writer[w] EXCEPT !.open = "deleted"] ELSE writer[w]]
  /\ UNCHANGED <<fetching, fetches, shared>>

\* The process is killed: what is on the disk stays.
KillProcess ==
  /\ writer' = [w \in Writer |-> Absent]
  /\ fetching' = FALSE /\ shared' = {f \in shared : active[f] # Absent}
  /\ UNCHANGED <<staged, active, fetches>>

ArtifactsNext ==
  \/ StartDownload \/ (\E f \in PinnedFile : Ask(f)) \/ Receive
  \/ (\E resumed \in BOOLEAN, content \in {"start", "other"} : Open(resumed, content)) \/ Interrupt \/ DownloadDone
  \/ \E w \in Importer, f \in PinnedFile, content \in {"pinned", "other"} : BeginImport(w, f, content)
  \/ \E w \in Writer : Copy(w) \/ Hash(w) \/ Move(w)
  \/ RemoveModel \/ KillProcess

ArtifactsSpec == ArtifactsInit /\ [][ArtifactsNext]_artifactVars

-----------------------------------------------------------------------------
\* embedding_models: an artifact is "verified against the pinned SHA-256 before
\* the model can be used".  A file in place is the pinned one, through failed,
\* cancelled, killed and resumed downloads, an upstream that changes under them
\* and removals at any moment.  The exception is a file two writers had in hands
\* at once: it is hashed by name and moved by name, with time in between.
ActiveIsPinned == \A f \in PinnedFile \ shared : active[f] \in {Absent, "pinned"}
=============================================================================
