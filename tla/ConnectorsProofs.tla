-------------------------- MODULE ConnectorsProofs --------------------------
(***************************************************************************)
(* The safety of connector synchronisation, for any number of sync jobs,   *)
(* attempts, registrations, items and plugin versions.                     *)
(***************************************************************************)
EXTENDS Connectors, TLAPS

\* Each event has its identity row and each identity row its event.
Identified ==
  /\ \A e \in events : [registration |-> e.source, item |-> e.item] \in items
  /\ \A i \in items : \E e \in events : e.source = i.registration /\ e.item = i.item

\* What the handler knows.  While the row it read is stored, that row's cursor
\* is still the one it read, for no other handler moves it.
Reading == {"mark", "call", "lookup", "apply"}
RowRead ==
  /\ sync.row # None => sync.row.id <= registrations
  /\ sync.at \in Reading =>
       /\ sync.row # None
       /\ Stored => /\ registration.cursor = sync.row.cursor
                    /\ registration.granted = sync.row.granted
Consented == sync.at \in {"call", "lookup", "apply"} => sync.row.granted = manifest
Fetched ==
  /\ sync.at \in {"lookup", "apply"} => (sync.row.cursor + 1)..sync.cursor \subseteq sync.result
  /\ sync.at = "apply" /\ Stored => sync.existing \subseteq Known(sync.row.id)

HandlerOK == sync # None => RowRead /\ Consented /\ Fetched

IInv ==
  /\ RowsOK
  /\ registration # None => registration.id <= registrations
  /\ Identified /\ ItemsOnce /\ CursorIsCovered /\ RemovedLeavesNothing
  /\ HandlerOK

\* Between the handler's steps the rows stay, and so does the invariant.
LEMMA RowsKept ==
  ASSUME IInv, UNCHANGED <<stored, outside, sync>>
  PROVE  IInv'
<1> USE DEF stored, outside
<1>1. RowsOK' /\ (registration # None => registration.id <= registrations)'
  BY DEF IInv, RowsOK
<1>2. (Identified /\ ItemsOnce /\ CursorIsCovered /\ RemovedLeavesNothing)'
  BY DEF IInv, Identified, ItemsOnce, CursorIsCovered, RemovedLeavesNothing
<1>3. HandlerOK'
  BY DEF IInv, HandlerOK, RowRead, Consented, Fetched, Reading, Stored, Known
<1> QED BY <1>1, <1>2, <1>3 DEF IInv

\* The handler ends, or is cut, before or after it changed the status column.
LEMMA HandlerGone ==
  ASSUME IInv, sync' = None, UNCHANGED <<registrations, events, items, feed>>,
         manifest' \in Manifest \cup {None},
         registration' = registration
         \/ (registration # None /\ registration' = [registration EXCEPT !.sync = "failed"])
  PROVE  IInv'
<1>1. RowsOK' /\ (registration # None => registration.id <= registrations)'
      /\ (registration' # None <=> registration # None)
      /\ (registration # None => /\ registration'.id = registration.id
                                 /\ registration'.cursor = registration.cursor)
  <2>1. CASE registration' = registration
    BY <2>1 DEF IInv, RowsOK
  <2>2. CASE registration # None /\ registration' = [registration EXCEPT !.sync = "failed"]
    <3>1. registration \in Registration BY <2>2 DEF IInv, RowsOK
    <3>2. registration' \in Registration BY <2>2, <3>1 DEF Registration
    <3>3. registration' # None BY <3>2, ConnectorsAssumption
    <3>4. registration'.id = registration.id /\ registration'.cursor = registration.cursor
      BY <2>2, <3>1 DEF Registration
    <3> QED BY <2>2, <3>2, <3>3, <3>4 DEF IInv, RowsOK
  <2> QED BY <2>1, <2>2
<1>2. (Identified /\ ItemsOnce)'
  BY DEF IInv, Identified, ItemsOnce
<1>3. (CursorIsCovered /\ RemovedLeavesNothing)'
  BY <1>1 DEF IInv, CursorIsCovered, RemovedLeavesNothing
<1>4. HandlerOK' BY DEF HandlerOK
<1> QED BY <1>1, <1>2, <1>3, <1>4 DEF IInv

-----------------------------------------------------------------------------
\* A new registration finds no event to inherit, and a handler that still works
\* for an earlier one finds its own gone.
LEMMA RegisterStep == IInv /\ Register => IInv'
<1> SUFFICES ASSUME IInv, Register PROVE IInv'
  OBVIOUS
<1>1. /\ registration' \in Registration /\ registration' # None
      /\ registrations' = registrations + 1
      /\ registration'.id = registrations + 1 /\ registration'.cursor = 0
  <2>1. MaxRegistration \in Nat /\ MaxFeed \in Nat
    BY ConnectorsAssumption
  <2>2. registrations \in 0..MaxRegistration /\ manifest \in Manifest
    BY DEF Register, IInv, RowsOK
  <2>3. registrations + 1 \in Id /\ 0 \in 0..MaxFeed
    BY <2>1, <2>2 DEF Register, Id
  <2>4. registration' = [id |-> registrations + 1, enabled |-> TRUE, granted |-> manifest,
                         cursor |-> 0, sync |-> "never"]
    BY DEF Register
  <2>5. registration' \in Registration
    BY <2>2, <2>3, <2>4 DEF Registration
  <2>6. registration' # None
    BY <2>5, ConnectorsAssumption
  <2>7. registrations' = registrations + 1
    BY DEF Register
  <2>8. registration'.id = registrations + 1 /\ registration'.cursor = 0
    BY <2>4
  <2> QED BY <2>5, <2>6, <2>7, <2>8
<1>2. events' = {} /\ items' = {}
  BY DEF Register, IInv, RemovedLeavesNothing, Identified
<1>3. RowsOK' /\ (registration # None => registration.id <= registrations)'
  BY <1>1, ConnectorsAssumption DEF Register, IInv, RowsOK, outside, Id
<1>4. (Identified /\ ItemsOnce /\ RemovedLeavesNothing)'
  BY <1>2 DEF Identified, ItemsOnce, RemovedLeavesNothing
<1>5. CursorIsCovered'
  BY <1>1 DEF CursorIsCovered
<1>6. HandlerOK'
  <2> SUFFICES ASSUME sync # None PROVE (RowRead /\ Consented /\ Fetched)'
    BY DEF HandlerOK, Register
  <2>1. RowRead /\ Consented /\ Fetched
    BY DEF IInv, HandlerOK
  <2>2. sync.row # None => sync.row.id \in Nat /\ sync.row.id <= registrations
    BY <2>1 DEF IInv, RowsOK, Sync, Registration, Id, RowRead
  <2>3. sync.row # None => ~Stored'
    BY <1>1, <2>2 DEF Stored, Register, IInv, RowsOK
  <2>4. sync.at \in Reading => sync.row # None
    BY <2>1 DEF RowRead
  <2>5. RowRead'
    BY <1>1, <2>1, <2>2, <2>3, <2>4 DEF RowRead, Register, IInv, RowsOK
  <2>6. Consented'
    BY <2>1 DEF Consented, Register, outside
  <2>7. Fetched'
    BY <2>1, <2>3, <2>4 DEF Fetched, Register, Reading
  <2> QED BY <2>5, <2>6, <2>7
<1> QED BY <1>3, <1>4, <1>5, <1>6 DEF IInv

\* The row's columns that the handler relies on stay when others are written.
LEMMA RowUpdated ==
  ASSUME IInv, registration # None, registration' \in Registration,
         registration'.id = registration.id, registration'.cursor = registration.cursor,
         registration'.granted = registration.granted,
         UNCHANGED <<registrations, events, items, outside>>
  PROVE  /\ (registration # None => registration.id <= registrations)'
         /\ (Identified /\ ItemsOnce /\ CursorIsCovered /\ RemovedLeavesNothing)'
         /\ registration' # None
<1>1. registration' # None BY ConnectorsAssumption
<1> QED BY <1>1 DEF IInv, Identified, ItemsOnce, CursorIsCovered, RemovedLeavesNothing

LEMMA SetEnabledStep == ASSUME IInv, NEW on \in BOOLEAN, SetEnabled(on) PROVE IInv'
<1>1. registration \in Registration /\ registration # None
  BY DEF IInv, RowsOK, SetEnabled
<1>2. registration' \in Registration
  BY <1>1 DEF SetEnabled, Registration
<1>3. /\ registration'.id = registration.id /\ registration'.cursor = registration.cursor
      /\ registration'.granted = registration.granted
  BY <1>1 DEF SetEnabled, Registration
<1>4. UNCHANGED <<registrations, events, items, outside, sync>>
  BY DEF SetEnabled
<1>5. /\ (registration # None => registration.id <= registrations)'
      /\ (Identified /\ ItemsOnce /\ CursorIsCovered /\ RemovedLeavesNothing)'
      /\ registration' # None
  BY <1>1, <1>2, <1>3, <1>4, RowUpdated
<1>6. RowsOK'
  BY <1>2, <1>4 DEF IInv, RowsOK, outside
<1>7. HandlerOK'
  BY <1>1, <1>3, <1>4, <1>5
     DEF IInv, HandlerOK, RowRead, Consented, Fetched, Stored, Known, outside
<1> QED BY <1>5, <1>6, <1>7 DEF IInv

\* The removal takes what Identified and the cursor are about together.
LEMMA RemoveStep == IInv /\ Remove => IInv'
<1> SUFFICES ASSUME IInv, Remove PROVE IInv'
  OBVIOUS
<1>1. events' = {} /\ items' = {}
  <2>1. events' = {} BY DEF Remove, IInv, RemovedLeavesNothing
  <2>2. items' = {} BY DEF Remove, IInv, Identified, RemovedLeavesNothing
  <2> QED BY <2>1, <2>2
<1>2. RowsOK' /\ registration' = None
  BY DEF Remove, IInv, RowsOK, outside
<1>3. (Identified /\ ItemsOnce /\ RemovedLeavesNothing /\ CursorIsCovered)'
  BY <1>1, <1>2 DEF Identified, ItemsOnce, RemovedLeavesNothing, CursorIsCovered
<1>4. HandlerOK'
  BY <1>2 DEF Remove, IInv, HandlerOK, RowRead, Consented, Fetched, Stored, outside
<1> QED BY <1>2, <1>3, <1>4 DEF IInv

-----------------------------------------------------------------------------
\* A step of the handler that writes no row needs to keep only its knowledge.
LEMMA HandlerStep ==
  ASSUME IInv, UNCHANGED <<stored, outside>>, sync' \in Sync, HandlerOK'
  PROVE  IInv'
<1> USE DEF stored, outside
<1>1. RowsOK' /\ (registration # None => registration.id <= registrations)'
  BY DEF IInv, RowsOK
<1>2. (Identified /\ ItemsOnce /\ CursorIsCovered /\ RemovedLeavesNothing)'
  BY DEF IInv, Identified, ItemsOnce, CursorIsCovered, RemovedLeavesNothing
<1> QED BY <1>1, <1>2 DEF IInv

\* Giving up is a matter of the program counter alone.
LEMMA GivingUp ==
  ASSUME IInv, sync # None, Goto("fail"), registrations' = registrations
  PROVE  sync' \in Sync /\ HandlerOK'
<1>1. sync \in Sync BY DEF IInv, RowsOK
<1>2. sync' \in Sync /\ sync'.at = "fail" /\ sync'.row = sync.row
  BY <1>1 DEF Goto, Sync
<1>3. sync.row # None => sync.row.id <= registrations
  BY DEF IInv, HandlerOK, RowRead
<1>4. HandlerOK' BY <1>2, <1>3 DEF HandlerOK, RowRead, Consented, Fetched, Reading
<1> QED BY <1>2, <1>4

LEMMA ClaimStep == IInv /\ Claim => IInv'
<1> SUFFICES ASSUME IInv, Claim PROVE IInv'
  OBVIOUS
<1>1. sync' \in Sync /\ sync'.at = "read" /\ sync'.row = None
  <2>1. 0 \in 0..MaxFeed BY ConnectorsAssumption
  <2> QED BY <2>1 DEF Claim, Idle, Sync
<1>2. HandlerOK'
  BY <1>1 DEF HandlerOK, RowRead, Consented, Fetched, Reading
<1> QED BY <1>1, <1>2, HandlerStep DEF Claim

LEMMA ReadRegistrationStep == IInv /\ ReadRegistration => IInv'
<1> SUFFICES ASSUME IInv, ReadRegistration PROVE IInv'
  OBVIOUS
<1>1. sync \in Sync BY DEF IInv, RowsOK, ReadRegistration, At
<1>2. /\ sync' \in Sync /\ sync'.at \in {"fail", "mark"} /\ sync'.row = registration
      /\ sync'.at = "mark" => registration # None
  <2>1. registration \in Registration \cup {None} BY DEF IInv, RowsOK
  <2>2. CASE registration = None \/ manifest = None
    BY <1>1, <2>1, <2>2 DEF ReadRegistration, Sync
  <2>3. CASE ~(registration = None \/ manifest = None)
    BY <1>1, <2>1, <2>3 DEF ReadRegistration, Sync
  <2> QED BY <2>2, <2>3
<1>3. UNCHANGED <<stored, outside>> BY DEF ReadRegistration
<1>4. HandlerOK'
  BY <1>2, <1>3 DEF IInv, HandlerOK, RowRead, Consented, Fetched, Reading, stored
<1> QED BY <1>2, <1>3, <1>4, HandlerStep

LEMMA MarkRunningStep == IInv /\ MarkRunning => IInv'
<1> SUFFICES ASSUME IInv, MarkRunning PROVE IInv'
  OBVIOUS
<1>1. sync \in Sync /\ sync # None /\ sync.at = "mark" /\ HandlerOK
  BY DEF IInv, RowsOK, MarkRunning, At
<1>2. UNCHANGED <<registrations, events, items, outside>> BY DEF MarkRunning
<1>3. CASE Stored /\ registration.enabled
  <2>1. registration \in Registration /\ registration # None
    BY <1>3 DEF Stored, IInv, RowsOK
  <2>2. registration' = [registration EXCEPT !.sync = "running"]
    BY <1>3 DEF MarkRunning
  <2>3. /\ registration' \in Registration
        /\ registration'.id = registration.id /\ registration'.cursor = registration.cursor
        /\ registration'.granted = registration.granted
    BY <2>1, <2>2 DEF Registration
  <2>4. /\ (registration # None => registration.id <= registrations)'
        /\ (Identified /\ ItemsOnce /\ CursorIsCovered /\ RemovedLeavesNothing)'
        /\ registration' # None
    BY <1>2, <2>1, <2>3, RowUpdated
  <2>5. sync' \in Sync /\ HandlerOK'
    <3>1. CASE sync.row.granted = manifest
      <4>1. Goto("call") BY <1>3, <3>1 DEF MarkRunning
      <4>2. sync' \in Sync /\ sync'.at = "call" /\ sync'.row = sync.row
        BY <1>1, <4>1 DEF Goto, Sync
      <4>3. RowRead'
        BY <1>1, <1>2, <1>3, <2>1, <2>3, <4>2 DEF HandlerOK, RowRead, Reading, Stored
      <4>4. (Consented /\ Fetched)'
        BY <1>2, <3>1, <4>2 DEF Consented, Fetched, outside
      <4> QED BY <4>2, <4>3, <4>4 DEF HandlerOK
    <3>2. CASE sync.row.granted # manifest
      BY <1>1, <1>2, <1>3, <3>2, GivingUp DEF MarkRunning
    <3> QED BY <3>1, <3>2
  <2>6. RowsOK' BY <1>2, <2>3, <2>5 DEF IInv, RowsOK, outside
  <2> QED BY <2>4, <2>5, <2>6 DEF IInv
<1>4. CASE ~(Stored /\ registration.enabled)
  <2>1. Goto("fail") /\ UNCHANGED <<stored, outside>>
    BY <1>4 DEF MarkRunning, stored
  <2>2. sync' \in Sync /\ HandlerOK' BY <1>1, <1>2, <2>1, GivingUp
  <2> QED BY <2>1, <2>2, HandlerStep
<1> QED BY <1>3, <1>4

\* The plugin's answer covers the stretch between the two cursors.
LEMMA CallStep == IInv /\ Call => IInv'
<1> SUFFICES ASSUME IInv, Call PROVE IInv'
  OBVIOUS
<1>1. sync \in Sync /\ sync # None /\ sync.at = "call" /\ HandlerOK
  BY DEF IInv, RowsOK, Call, At
<1>2. UNCHANGED <<stored, outside>> BY DEF Call
<1>3. CASE Goto("fail")
  BY <1>1, <1>2, <1>3, GivingUp, HandlerStep DEF stored
<1>4. ASSUME NEW to \in sync.row.cursor..feed, NEW old \in {{}, 1..sync.row.cursor},
             sync' = [sync EXCEPT !.at = "lookup",
                                  !.result = old \cup (sync.row.cursor + 1)..to, !.cursor = to]
      PROVE  IInv'
  <2>1. sync.row \in Registration /\ sync.row # None
    BY <1>1 DEF HandlerOK, RowRead, Reading, Sync
  <2>2. sync.row.cursor \in 0..MaxFeed BY <2>1 DEF Registration
  <2>3. feed \in 0..MaxFeed /\ MaxFeed \in Nat
    BY ConnectorsAssumption DEF IInv, RowsOK
  <2>4. to \in 0..MaxFeed /\ old \cup (sync.row.cursor + 1)..to \subseteq Item
    BY <2>2, <2>3 DEF Item
  <2>5. sync' \in Sync
    BY <1>1, <1>4, <2>4 DEF Sync
  <2>6. /\ sync'.at = "lookup" /\ sync'.row = sync.row
        /\ (sync'.row.cursor + 1)..sync'.cursor \subseteq sync'.result
    BY <1>1, <1>4 DEF Sync
  <2>7. HandlerOK'
    BY <1>1, <1>2, <2>6
       DEF HandlerOK, RowRead, Consented, Fetched, Reading, Stored, stored, outside
  <2> QED BY <1>2, <2>5, <2>7, HandlerStep
<1> QED BY <1>3, <1>4 DEF Call

LEMMA LookupStep == IInv /\ Lookup => IInv'
<1> SUFFICES ASSUME IInv, Lookup PROVE IInv'
  OBVIOUS
<1>1. sync \in Sync /\ sync # None /\ sync.at = "lookup" /\ HandlerOK
  BY DEF IInv, RowsOK, Lookup, At
<1>2. UNCHANGED <<stored, outside>> BY DEF Lookup
<1>3. CASE ~(Stored /\ registration.enabled)
  BY <1>1, <1>2, <1>3, GivingUp, HandlerStep DEF Lookup, stored
<1>4. CASE Stored /\ registration.enabled
  <2>1. sync' = [sync EXCEPT !.at = "apply", !.existing = sync.result \cap Known(sync.row.id)]
    BY <1>4 DEF Lookup
  <2>2. sync' \in Sync
    BY <1>1, <2>1 DEF Sync
  <2>3. /\ sync'.at = "apply" /\ sync'.row = sync.row /\ sync'.result = sync.result
        /\ sync'.cursor = sync.cursor /\ sync'.existing \subseteq Known(sync.row.id)
    BY <1>1, <2>1 DEF Sync
  <2>4. HandlerOK'
    BY <1>1, <1>2, <2>3
       DEF HandlerOK, RowRead, Consented, Fetched, Reading, Stored, Known, stored, outside
  <2> QED BY <1>2, <2>2, <2>4, HandlerStep
<1> QED BY <1>3, <1>4

-----------------------------------------------------------------------------
\* The one step that stores events.  New items are unknown to the registration,
\* so no event of it is of one of them; the known rest of the result, what the
\* old cursor covered and the new events together reach up to the new cursor.
LEMMA ApplyStep == IInv /\ Apply => IInv'
<1> SUFFICES ASSUME IInv, Apply PROVE IInv'
  OBVIOUS
<1>1. sync \in Sync /\ sync # None /\ sync.at = "apply" /\ HandlerOK
  BY DEF IInv, RowsOK, Apply, At
<1>2. UNCHANGED <<registrations, outside>> BY DEF Apply
<1>3. CASE ~(Stored /\ New \cap Known(sync.row.id) = {})
  <2>1. Goto("fail") /\ UNCHANGED <<stored, outside>>
    BY <1>3 DEF Apply, stored
  <2> QED BY <1>1, <1>2, <2>1, GivingUp, HandlerStep
<1>4. CASE Stored /\ New \cap Known(sync.row.id) = {}
  <2> DEFINE id == sync.row.id
  <2>1. /\ events' = events \cup EventsOf(New) /\ items' = items \cup ItemsOf(New)
        /\ registration' = [registration EXCEPT !.cursor = sync.cursor, !.sync = "succeeded"]
        /\ Goto("answer")
    BY <1>4 DEF Apply
  <2>2. registration \in Registration /\ registration # None /\ registration.id = id
    BY <1>4 DEF Stored, IInv, RowsOK
  <2>3. sync.cursor \in 0..MaxFeed /\ sync.result \subseteq Item
    BY <1>1 DEF Sync
  <2>4. registration' \in Registration /\ registration'.id = id /\ registration'.cursor = sync.cursor
    BY <2>1, <2>2, <2>3 DEF Registration
  <2>5. registration' # None BY <2>4, ConnectorsAssumption
  <2>6. sync' \in Sync /\ sync'.at = "answer" /\ sync'.row = sync.row
    BY <1>1, <2>1 DEF Goto, Sync
  <2>7. RowsOK' /\ (registration # None => registration.id <= registrations)'
    BY <1>2, <2>2, <2>4, <2>6 DEF IInv, RowsOK, outside
  <2>8. HandlerOK'
    BY <1>1, <1>2, <2>6 DEF HandlerOK, RowRead, Consented, Fetched, Reading
  <2>9. \A e \in EventsOf(New) : /\ e.source = id /\ e.item \in New
                                 /\ [registration |-> id, item |-> e.item] \in ItemsOf(New)
    BY DEF EventsOf, ItemsOf
  <2>10. \A i \in New : \E e \in EventsOf(New) : e.source = id /\ e.item = i
    <3> SUFFICES ASSUME NEW i \in New
                 PROVE  \E e \in EventsOf(New) : e.source = id /\ e.item = i
      OBVIOUS
    <3> DEFINE e == [source |-> id, item |-> i, job |-> current, attempt |-> attempts[current]]
    <3>1. e \in EventsOf(New) /\ e.source = id /\ e.item = i BY DEF EventsOf
    <3> QED BY <3>1
  <2>11. Identified'
    <3>1. \A i \in ItemsOf(New) : i.registration = id /\ i.item \in New BY DEF ItemsOf
    <3>2. Identified BY DEF IInv
    <3>3. ASSUME NEW e \in events' PROVE [registration |-> e.source, item |-> e.item] \in items'
      BY <2>1, <2>9, <3>2, <3>3 DEF Identified
    <3>4. ASSUME NEW i \in items'
          PROVE  \E e \in events' : e.source = i.registration /\ e.item = i.item
      BY <2>1, <2>10, <3>1, <3>2, <3>4 DEF Identified
    <3> QED BY <3>3, <3>4 DEF Identified
  <2>12. ItemsOnce'
    <3>1. \A e \in events, f \in EventsOf(New) : ~(e.source = f.source /\ e.item = f.item)
      <4> SUFFICES ASSUME NEW e \in events, NEW f \in EventsOf(New),
                          e.source = f.source, e.item = f.item
                   PROVE  FALSE
        OBVIOUS
      <4>1. e.source = id /\ e.item \in New BY <2>9
      <4>2. [registration |-> id, item |-> e.item] \in items BY <4>1 DEF IInv, Identified
      <4>3. e.item \in Known(id) BY <4>2 DEF Known
      <4> QED BY <1>4, <4>1, <4>3
    <3>2. \A e, f \in EventsOf(New) : e.item = f.item => e = f BY DEF EventsOf
    <3> QED BY <2>1, <3>1, <3>2 DEF IInv, ItemsOnce
  <2>13. CursorIsCovered'
    <3> SUFFICES ASSUME NEW i \in 1..sync.cursor
                 PROVE  \E e \in events' : e.source = id /\ e.item = i
      BY <2>4 DEF CursorIsCovered
    <3>1. registration.cursor = sync.row.cursor /\ registration.cursor \in 0..MaxFeed
      BY <1>1, <1>4, <2>2 DEF HandlerOK, RowRead, Reading, Registration
    <3>2. CASE i <= registration.cursor
      <4>1. i \in 1..registration.cursor BY <3>1, <3>2
      <4>2. \E e \in events : e.source = id /\ e.item = i
        BY <2>2, <4>1 DEF IInv, CursorIsCovered
      <4> QED BY <2>1, <4>2
    <3>3. CASE i > registration.cursor
      <4>1. i \in (sync.row.cursor + 1)..sync.cursor BY <2>3, <3>1, <3>3
      <4>2. i \in sync.result /\ sync.existing \subseteq Known(id)
        BY <1>1, <1>4, <4>1 DEF HandlerOK, Fetched
      <4>3. CASE i \in New BY <2>1, <2>10, <4>3
      <4>4. CASE i \notin New
        <5>1. i \in Known(id) BY <4>2, <4>4 DEF New
        <5>2. PICK k \in items : k.registration = id /\ k.item = i BY <5>1 DEF Known
        <5>3. \E e \in events : e.source = id /\ e.item = i
          BY <5>2 DEF IInv, Identified
        <5> QED BY <2>1, <5>3
      <4> QED BY <4>3, <4>4
    <3> QED BY <2>3, <3>1, <3>2, <3>3
  <2>14. RemovedLeavesNothing'
    <3>1. \A e \in events : e.source = id BY <2>2 DEF IInv, RemovedLeavesNothing
    <3>2. \A e \in events' : e.source = id BY <2>1, <2>9, <3>1
    <3> QED BY <2>4, <2>5, <3>2 DEF RemovedLeavesNothing
  <2> QED BY <2>7, <2>8, <2>11, <2>12, <2>13, <2>14 DEF IInv
<1> QED BY <1>3, <1>4

LEMMA PublishStep == IInv /\ Publish => IInv'
<1> SUFFICES ASSUME IInv, Publish PROVE IInv'
  OBVIOUS
<1>1. RowsOK' /\ (registration # None => registration.id <= registrations)'
  BY ConnectorsAssumption DEF Publish, IInv, RowsOK, stored
<1>2. (Identified /\ ItemsOnce /\ CursorIsCovered /\ RemovedLeavesNothing)'
  BY DEF Publish, stored, IInv, Identified, ItemsOnce, CursorIsCovered, RemovedLeavesNothing
<1>3. HandlerOK'
  BY DEF Publish, stored, IInv, HandlerOK, RowRead, Consented, Fetched, Reading, Stored, Known
<1> QED BY <1>1, <1>2, <1>3 DEF IInv

-----------------------------------------------------------------------------
LEMMA InitInv == Init => IInv
<1> SUFFICES ASSUME Init PROVE IInv
  OBVIOUS
<1>1. RowsOK /\ HandlerOK
  BY ConnectorsAssumption DEF Init, RowsOK, HandlerOK
<1>2. Identified /\ ItemsOnce /\ CursorIsCovered /\ RemovedLeavesNothing
  BY DEF Init, Identified, ItemsOnce, CursorIsCovered, RemovedLeavesNothing
<1> QED BY <1>1, <1>2 DEF Init, IInv

\* A step of the worker and the clock, or of the queue's other callers, touches
\* no row of the connector's.
LEMMA NextInv == IInv /\ [Next]_vars => IInv'
<1> SUFFICES ASSUME IInv, [Next]_vars PROVE IInv'
  OBVIOUS
<1>1. CASE Register BY <1>1, RegisterStep
<1>2. CASE Remove BY <1>2, RemoveStep
<1>3. ASSUME NEW on \in BOOLEAN, SetEnabled(on) PROVE IInv' BY <1>3, SetEnabledStep
<1>4. ASSUME NEW j \in Job, RequestSync(j) PROVE IInv' BY <1>4, RowsKept DEF RequestSync
<1>5. ASSUME NEW j \in Job, EnqueueSync(j) PROVE IInv' BY <1>5, RowsKept DEF EnqueueSync
<1>6. CASE Claim BY <1>6, ClaimStep
<1>7. CASE ReadRegistration BY <1>7, ReadRegistrationStep
<1>8. CASE MarkRunning BY <1>8, MarkRunningStep
<1>9. CASE Call BY <1>9, CallStep
<1>10. CASE Lookup BY <1>10, LookupStep
<1>11. CASE Apply BY <1>11, ApplyStep
<1>12. CASE Answer
  <2>1. sync' = None /\ UNCHANGED <<stored, outside>> BY <1>12 DEF Answer
  <2>2. manifest' \in Manifest \cup {None} BY <2>1 DEF outside, IInv, RowsOK
  <2> QED BY <2>1, <2>2, HandlerGone DEF stored, outside
<1>13. CASE FailSync
  <2>1. registration' = registration
        \/ (registration # None /\ registration' = [registration EXCEPT !.sync = "failed"])
    BY <1>13 DEF FailSync, Stored
  <2>2. sync' = None /\ UNCHANGED <<registrations, events, items, outside>>
    BY <1>13 DEF FailSync
  <2>3. manifest' \in Manifest \cup {None} BY <2>2 DEF outside, IInv, RowsOK
  <2> QED BY <2>1, <2>2, <2>3, HandlerGone DEF outside
<1>14. CASE Work BY <1>14, RowsKept DEF Work
<1>15. CASE Tick BY <1>15, RowsKept DEF Tick
<1>16. CASE Restart
  <2>1. sync' = None /\ manifest' \in Manifest \cup {None} /\ UNCHANGED <<stored, feed>>
    BY <1>16 DEF Restart
  <2> QED BY <2>1, HandlerGone DEF stored
<1>17. CASE Publish BY <1>17, PublishStep
<1>18. CASE UNCHANGED vars BY <1>18, RowsKept DEF vars
<1> QED BY <1>1, <1>2, <1>3, <1>4, <1>5, <1>6, <1>7, <1>8, <1>9, <1>10, <1>11, <1>12,
           <1>13, <1>14, <1>15, <1>16, <1>17, <1>18 DEF Next

LEMMA InvHolds == Spec => []IInv
BY InitInv, NextInv, PTL DEF Spec

\* Each item of the feed is stored once for a registration, whatever is retried,
\* repeated by the plugin, or run again after a crash.
THEOREM OnceEach == Spec => []ItemsOnce
<1>1. IInv => ItemsOnce BY DEF IInv
<1> QED BY <1>1, InvHolds, PTL

\* The stored cursor never passes an item whose event was not stored.
THEOREM NothingSkipped == Spec => []CursorIsCovered
<1>1. IInv => CursorIsCovered BY DEF IInv
<1> QED BY <1>1, InvHolds, PTL

\* Every event belongs to the registration that is stored now.
THEOREM NothingOutlives == Spec => []RemovedLeavesNothing
<1>1. IInv => RemovedLeavesNothing BY DEF IInv
<1> QED BY <1>1, InvHolds, PTL

\* Only Apply adds events, after MarkRunning compared the permissions with the
\* same plugin process; the restart that changes the plugin ends the handler.
LEMMA OnlyWithConsent ==
  ASSUME IInv, [Next]_vars, events' \ events # {}
  PROVE  registration # None /\ registration.granted = manifest
<1>1. Apply
  BY DEF Next, vars, stored, Register, Remove, SetEnabled, RequestSync, EnqueueSync, Claim,
         ReadRegistration, MarkRunning, Call, Lookup, Answer, FailSync, Work, Tick, Restart, Publish
<1>2. sync # None /\ sync.at = "apply" /\ HandlerOK BY <1>1 DEF Apply, At, IInv
<1>3. Stored BY <1>1 DEF Apply
<1> QED BY <1>2, <1>3 DEF HandlerOK, RowRead, Consented, Reading, Stored

THEOREM ConsentKept == Spec => StoredWithConsent
<1>1. IInv /\ [Next]_vars
        => [events' \ events # {} => registration # None /\ registration.granted = manifest]_vars
  BY OnlyWithConsent
<1> QED BY <1>1, InvHolds, PTL DEF Spec, StoredWithConsent
=============================================================================
