----------------------------- MODULE Connectors -----------------------------
(***************************************************************************)
(* Connector registrations and their incremental synchronisation           *)
(* (ConnectorService over SqliteConnectorRegistrationRepository), composed *)
(* with the durable queue that runs the syncs.  The worker's handler gives *)
(* up the event loop while the plugin works and every transaction of it is *)
(* a step; the owner's handlers run on threads meanwhile.                  *)
(*                                                                         *)
(* There is one connector type.  What it reads is an append-only feed of   *)
(* items 1, 2, ...; its cursor is a position in it.  No handler of the     *)
(* daemon derives Evidence from connector events, so that removal is of    *)
(* events only.  Audit records, configuration and credentials are left     *)
(* out: a missing credential is one of the failures of Call.               *)
(***************************************************************************)
EXTENDS Naturals

CONSTANTS Job, MaxAttempts, Lease, NoJob,  \* of the queue: see DurableJobs
          Manifest,         \* permissions that versions of the plugin declare
          MaxFeed,          \* bound on the items of the feed
          MaxRegistration,  \* bound on registrations made, one after the other
          None              \* no row; no plugin installed

Id == 1..MaxRegistration
Item == 1..MaxFeed
Registration == [id : Id, enabled : BOOLEAN, granted : Manifest, cursor : 0..MaxFeed,
                 sync : {"never", "running", "succeeded", "failed"}]
Sync == [at : {"read", "mark", "call", "lookup", "apply", "answer", "fail"},
         row : Registration \cup {None}, result : SUBSET Item, cursor : 0..MaxFeed,
         existing : SUBSET Item]

ASSUME ConnectorsAssumption ==
  /\ {MaxFeed, MaxRegistration} \subseteq Nat
  /\ None \notin Manifest \cup Registration \cup Sync

VARIABLES status, attempts, wait, age, worker, current, handled, completed,
          registration,     \* the registration row
          registrations,    \* ids used so far
          events,           \* raw events: their source, item and the attempt that stored them
          items,            \* item identities: registration and external id
          feed,             \* items the connected service has so far
          manifest,         \* what the installed plugin declares
          requested,        \* sync requests that have passed their checks
          sync              \* what the handler is doing; None: nothing

queue == <<status, attempts, wait, age, worker, current, handled, completed>>
stored == <<registration, registrations, events, items>>
outside == <<feed, manifest>>
vars == <<queue, stored, outside, requested, sync>>

Queue == INSTANCE DurableJobs WITH
           AlwaysHandled <- Job, Requeueable <- {},
           InitialDelay <- [j \in Job |-> 0], RetryDelay <- [j \in Job |-> 0],
           MaxDelay <- 0

Idle == [at |-> "read", row |-> None, result |-> {}, cursor |-> 0, existing |-> {}]

Init ==
  /\ Queue!Init
  /\ registration = None /\ registrations = 0
  /\ events = {} /\ items = {} /\ requested = {}
  /\ feed = 0
  /\ manifest \in Manifest \cup {None}
  /\ sync = None

At(step) == sync # None /\ sync.at = step
Goto(step) == sync' = [sync EXCEPT !.at = step]
\* The row that the handler read is still the stored one.
Stored == registration # None /\ registration.id = sync.row.id
Known(id) == {i.item : i \in {k \in items : k.registration = id}}

-----------------------------------------------------------------------------
\* register: one row for each connector type, by the unique index.
Register ==
  /\ registration = None /\ manifest # None
  /\ registrations < MaxRegistration
  /\ registrations' = registrations + 1
  /\ registration' = [id |-> registrations + 1, enabled |-> TRUE, granted |-> manifest,
                      cursor |-> 0, sync |-> "never"]
  /\ UNCHANGED <<queue, events, items, outside, requested, sync>>

SetEnabled(enabled) ==
  /\ registration # None
  /\ registration' = [registration EXCEPT !.enabled = enabled]
  /\ UNCHANGED <<queue, registrations, events, items, outside, requested, sync>>

\* remove: one transaction takes the identities, the events and the row.
Remove ==
  /\ registration # None
  /\ events' = {e \in events : e.source # registration.id}
  /\ items' = {i \in items : i.registration # registration.id}
  /\ registration' = None
  /\ UNCHANGED <<queue, registrations, outside, requested, sync>>

\* enqueue_sync reads the row, then inserts the job.
RequestSync(j) ==
  /\ status[j] = "absent" /\ j \notin requested
  /\ registration # None /\ registration.enabled /\ manifest # None
  /\ requested' = requested \cup {j}
  /\ UNCHANGED <<queue, stored, outside, sync>>

EnqueueSync(j) ==
  /\ j \in requested
  /\ Queue!Enqueue(j)
  /\ requested' = requested \ {j}
  /\ UNCHANGED <<stored, outside, sync>>

-----------------------------------------------------------------------------
\* The worker claims a job: sync() starts.
Claim ==
  /\ Queue!Claim
  /\ sync' = Idle
  /\ UNCHANGED <<stored, outside, requested>>

ReadRegistration ==
  /\ At("read")
  /\ IF registration = None \/ manifest = None
     THEN sync' = [sync EXCEPT !.at = "fail", !.row = registration]
     ELSE sync' = [sync EXCEPT !.at = "mark", !.row = registration]
  /\ UNCHANGED <<queue, stored, outside, requested>>

\* mark_running updates an enabled row; then the permissions granted in the row
\* that was read are compared with the plugin's.
MarkRunning ==
  /\ At("mark")
  /\ IF Stored /\ registration.enabled
     THEN /\ registration' = [registration EXCEPT !.sync = "running"]
          /\ Goto(IF sync.row.granted = manifest THEN "call" ELSE "fail")
     ELSE /\ Goto("fail") /\ UNCHANGED registration
  /\ UNCHANGED <<queue, registrations, events, items, outside, requested>>

\* The plugin, which is external: it returns what follows its cursor, some of
\* it or all, with the new cursor, and may repeat older items; or it fails.
Call ==
  /\ At("call")
  /\ LET from == sync.row.cursor
     IN  \/ \E to \in from..feed, old \in {{}, 1..from} :
              sync' = [sync EXCEPT !.at = "lookup", !.result = old \cup (from + 1)..to,
                                   !.cursor = to]
         \/ Goto("fail")
  /\ UNCHANGED <<queue, stored, outside, requested>>

\* Fault: the new cursor is committed before the events.
LookupAndMove ==
  /\ At("lookup")
  /\ IF Stored /\ registration.enabled
     THEN /\ sync' = [sync EXCEPT !.at = "apply", !.existing = sync.result \cap Known(sync.row.id)]
          /\ registration' = [registration EXCEPT !.cursor = sync.cursor]
     ELSE Goto("fail") /\ UNCHANGED registration
  /\ UNCHANGED <<queue, registrations, events, items, outside, requested>>

\* apply_sync, its reads: an enabled row and the identities known of the result.
Lookup ==
  /\ At("lookup")
  /\ IF Stored /\ registration.enabled
     THEN sync' = [sync EXCEPT !.at = "apply", !.existing = sync.result \cap Known(sync.row.id)]
     ELSE Goto("fail")
  /\ UNCHANGED <<queue, stored, outside, requested>>

New == sync.result \ sync.existing
EventsOf(new) ==
  {[source |-> sync.row.id, item |-> i, job |-> current, attempt |-> attempts[current]] :
     i \in new}
ItemsOf(new) == {[registration |-> sync.row.id, item |-> i] : i \in new}

\* Fault: the events are stored without the identities of their items.
ApplyUnidentified ==
  /\ At("apply")
  /\ IF Stored
     THEN /\ events' = events \cup EventsOf(New)
          /\ registration' = [registration EXCEPT !.cursor = sync.cursor, !.sync = "succeeded"]
          /\ Goto("answer")
     ELSE Goto("fail") /\ UNCHANGED <<events, registration>>
  /\ UNCHANGED <<queue, registrations, items, outside, requested>>

\* Fault: nothing ties the events to a stored registration.
ApplyUnbound ==
  /\ At("apply")
  /\ events' = events \cup EventsOf(New)
  /\ items' = items \cup ItemsOf(New)
  /\ registration' = IF Stored
                     THEN [registration EXCEPT !.cursor = sync.cursor, !.sync = "succeeded"]
                     ELSE registration
  /\ Goto("answer")
  /\ UNCHANGED <<queue, registrations, outside, requested>>

\* apply_sync, its transaction: events, identities and cursor.  The foreign keys
\* and the row count of the UPDATE ask for the registration, the primary key for
\* unknown items.  Nothing asks again whether the row is enabled.
Apply ==
  /\ At("apply")
  /\ IF Stored /\ New \cap Known(sync.row.id) = {}
     THEN /\ events' = events \cup EventsOf(New)
          /\ items' = items \cup ItemsOf(New)
          /\ registration' = [registration EXCEPT !.cursor = sync.cursor, !.sync = "succeeded"]
          /\ Goto("answer")
     ELSE Goto("fail") /\ UNCHANGED <<events, items, registration>>
  /\ UNCHANGED <<queue, registrations, outside, requested>>

\* The audit record is written, or fails to be; the handler ends.
Answer ==
  /\ At("answer")
  /\ Queue!HandlerReturns \/ (Queue!HandlerRaises /\ current \in completed')
  /\ sync' = None
  /\ UNCHANGED <<stored, outside, requested>>

\* _fail: mark_failed when a row was read, which raises when it is gone.
FailSync ==
  /\ At("fail")
  /\ registration' = IF sync.row # None /\ Stored
                     THEN [registration EXCEPT !.sync = "failed"] ELSE registration
  /\ UNCHANGED completed /\ Queue!HandlerRaises
  /\ sync' = None
  /\ UNCHANGED <<registrations, events, items, outside, requested>>

\* The worker records the end of the job, sweeps, or dies of a database error.
Work ==
  /\ Queue!MarkSucceeded \/ Queue!MarkFailed \/ Queue!SweepOnly \/ Queue!RepositoryError
  /\ UNCHANGED <<stored, outside, requested, sync>>

Tick ==
  /\ Queue!Tick
  /\ UNCHANGED <<stored, outside, requested, sync>>

\* The daemon dies and starts again, perhaps with another version of the plugin.
Restart ==
  /\ Queue!Restart
  /\ sync' = None /\ requested' = {}
  /\ manifest' \in Manifest \cup {None}
  /\ UNCHANGED <<stored, feed>>

\* The connected service has one item more.
Publish ==
  /\ feed < MaxFeed
  /\ feed' = feed + 1
  /\ UNCHANGED <<queue, stored, manifest, requested, sync>>

Next ==
  \/ Register \/ Remove \/ (\E enabled \in BOOLEAN : SetEnabled(enabled))
  \/ \E j \in Job : RequestSync(j) \/ EnqueueSync(j)
  \/ Claim \/ ReadRegistration \/ MarkRunning \/ Call \/ Lookup \/ Apply \/ Answer \/ FailSync
  \/ Work \/ Tick \/ Restart \/ Publish

Spec == Init /\ [][Next]_vars

-----------------------------------------------------------------------------
\* The rows that the invariants are about.
RowsOK ==
  /\ registrations \in 0..MaxRegistration
  /\ registration \in Registration \cup {None}
  /\ feed \in 0..MaxFeed
  /\ manifest \in Manifest \cup {None}
  /\ sync \in Sync \cup {None}

\* Every variable has its type, the queue's its own; item identities refer to
\* stored events, and the handler is at work exactly while the worker is.
TypeOK ==
  /\ Queue!TypeOK /\ RowsOK
  /\ events \subseteq [source : Id, item : Item, job : Job, attempt : 1..MaxAttempts]
  /\ items \subseteq [registration : Id, item : Item]
  /\ \A i \in items : \E e \in events : e.source = i.registration /\ e.item = i.item
  /\ requested \subseteq Job
  /\ sync # None <=> worker = "handling"

\* phase-11-report, P11-T09: however often a feed is read again, after crashes
\* between a sync and the end of its job too, each of its items is stored once.
ItemsOnce ==
  \A e, f \in events : e.source = f.source /\ e.item = f.item => e = f

\* ADR-012: the cursor and the events move together: no crash, failure or retry
\* leaves a cursor past an item that was never stored.
CursorIsCovered ==
  registration # None =>
    \A i \in 1..registration.cursor :
      \E e \in events : e.source = registration.id /\ e.item = i

\* phase-11-report, P11-T13: a removed connector leaves no event, not even one
\* that a sync in flight during the removal brings home; nor does the next
\* registration of the same connector inherit any.
RemovedLeavesNothing ==
  \A e \in events : registration # None /\ e.source = registration.id

\* ADR-012: "Permission changes in a newly installed connector stop existing
\* registrations": what is stored was read by a plugin with the permissions the
\* owner granted.
StoredWithConsent ==
  [][events' \ events # {} => registration # None /\ registration.granted = manifest]_vars
=============================================================================
