-------------------------- MODULE DelegationProofs --------------------------
(***************************************************************************)
(* Delegation keeps ADR-013's lifecycle, and what it approves without the  *)
(* owner stays within its limits, for any number of threads, requests,     *)
(* policies, snapshots and confidences.                                    *)
(***************************************************************************)
EXTENDS Delegation, TLAPS

Automatic(row) == row.reason = "automatic_threshold_met"

\* Every stored or read policy has a threshold at or above its impact's floor.
Floored(q) == q.minimum >= Floor[q.impact]

\* A row and the number of times it was used.
RowSound(row, uses) ==
  IF row = None THEN uses = 0
  ELSE /\ uses = (IF row.status = "completed" THEN 1 ELSE 0)
       /\ Automatic(row) => /\ row.status = "approved"
                            /\ row.impact \notin NeedsOwner
                            /\ row.confidence >= Floor[row.impact]

\* What a row read by a review or a completion says of the row stored now.
Seen(h, rows) ==
  /\ rows[h.key] # None /\ h.seen # None
  /\ rows[h.key].expires = h.seen.expires
  /\ Automatic(rows[h.key]) => h.seen.status = "approved"

\* What a thread has made sure of on its way.
Sound(h, rows, version) ==
  /\ h.asked <= version
  /\ h.at # "upsert" => h.key \in Key /\ h.op \in Operations
  /\ h.at = "row" /\ h.op = "request" => h.label \in Label
  /\ h.at \in {"policy", "prediction", "snapshot", "insert"} => h.label \in Label
  /\ h.at \in {"prediction", "snapshot", "insert", "upsert"} => h.read # None /\ Floored(h.read)
  /\ h.at \in {"snapshot", "insert"} => h.found # None
  /\ h.at = "insert" => h.found.version >= h.asked
  /\ h.at \in {"refresh", "transition"} => Seen(h, rows)
  /\ h.at = "transition" =>
       /\ Allowed(h.op, h.seen)
       /\ h.op = "complete" /\ Automatic(rows[h.key]) => h.now < rows[h.key].expires

DInv ==
  /\ TypeOK
  /\ policy # None => Floored(policy)
  /\ \A k \in Key : RowSound(requests[k], completions[k])
  /\ \A p \in Proc : handlers[p] # None => Sound(handlers[p], requests, snapshot)

-----------------------------------------------------------------------------
LEMMA Apart == None \notin Policy /\ None \notin Prediction /\ None \notin Row /\ None \notin Handler
  BY NoneAssumption

LEMMA Floors == \A i \in Impact : Floor[i] \in 90..100
  BY DEF Floor, Impact

LEMMA HandlerTyped ==
  ASSUME TypeOK, NEW p \in Proc, handlers[p] # None
  PROVE  handlers[p] \in Handler
  BY DEF TypeOK

\* A row that moves keeps all but its status, its reason and its time.
LEMMA MovedRow ==
  ASSUME NEW row \in Row, NEW at \in 0..MaxClock, NEW to,
         to = Expired \/ \E o \in Operations : to = Target(o)
  PROVE  /\ Moved(row, to, at) \in Row
         /\ Moved(row, to, at).expires = row.expires
         /\ Moved(row, to, at).status = to.status
         /\ Moved(row, to, at).changed = at
         /\ ~Automatic(Moved(row, to, at))
<1>1. to \in [status : {"approved", "rejected", "completed", "expired"},
              reason : {"owner_approved", "owner_rejected", "agent_completed", "request_expired"}]
  BY DEF Expired, Target
<1>. QED  BY <1>1 DEF Moved, Row, Automatic

\* A new row is within the floor of the policy that was read.
LEMMA InsertedRow ==
  ASSUME NEW h \in Handler, h.label \in Label, h.read # None, Floored(h.read), h.found # None
  PROVE  /\ NewRow(h) \in Row
         /\ NewRow(h).status \in {"pending", "approved"}
         /\ NewRow(h).policy = h.read.id
         /\ NewRow(h).version = h.found.version
         /\ RowSound(NewRow(h), 0)
<1> DEFINE outcome == Classify(h.read, h.found.confidence)
<1>1. h.read \in Policy /\ h.found \in Prediction /\ h.now \in 0..MaxClock
  BY DEF Handler
<1>2. h.read.impact \in Impact /\ h.read.minimum \in 90..100 /\ h.found.confidence \in Confidence
  BY <1>1 DEF Policy, Prediction
<1>3. /\ outcome.status \in {"pending", "approved"}
      /\ outcome.reason \in {"automatic_threshold_met", "owner_approval_required"}
      /\ outcome.reason = "automatic_threshold_met" =>
           /\ outcome.status = "approved" /\ h.read.impact \notin NeedsOwner
           /\ h.found.confidence >= h.read.minimum
  BY DEF Classify
<1>4. Floor[h.read.impact] \in 90..100 /\ h.read.minimum >= Floor[h.read.impact]
  BY <1>2, Floors DEF Floored
<1>5. h.found.confidence \in Nat
  BY <1>2, DelegationAssumption
<1>6. h.now + TTL \in 1..MaxClock + TTL
  BY <1>1, DelegationAssumption
<1>7. NewRow(h) = [label |-> h.label, policy |-> h.read.id, impact |-> h.read.impact,
        confidence |-> h.found.confidence, version |-> h.found.version,
        status |-> outcome.status, reason |-> outcome.reason,
        expires |-> h.now + TTL, changed |-> h.now]
  BY DEF NewRow
<1> HIDE DEF outcome
<1>8. h.read.id \in 0..MaxPolicy /\ h.found.version \in 1..MaxSnapshot
  BY <1>1, DelegationAssumption DEF Policy, Prediction
<1>9. NewRow(h) \in Row
  BY <1>1, <1>2, <1>3, <1>6, <1>7, <1>8 DEF Row
<1>10. RowSound(NewRow(h), 0)
  <2>1. NewRow(h).status # "completed" /\ NewRow(h) # None
    BY <1>3, <1>7, <1>9, Apart
  <2>2. Automatic(NewRow(h)) =>
          /\ NewRow(h).status = "approved" /\ NewRow(h).impact \notin NeedsOwner
          /\ NewRow(h).confidence >= Floor[NewRow(h).impact]
    BY <1>2, <1>3, <1>4, <1>5, <1>7 DEF Automatic
  <2>. QED  BY <2>1, <2>2 DEF RowSound
<1>. QED  BY <1>3, <1>7, <1>9, <1>10

\* A thread's knowledge outlives what the others do to the rows.
Evolve(old, new) ==
  \A k \in Key : old[k] # None =>
    /\ new[k] # None /\ new[k].expires = old[k].expires
    /\ Automatic(new[k]) => Automatic(old[k])

LEMMA SoundStays ==
  ASSUME NEW h \in Handler, NEW old, NEW new, Evolve(old, new),
         NEW v \in Nat, NEW w \in Nat, v <= w, Sound(h, old, v)
  PROVE  Sound(h, new, w)
<1>1. h.asked <= w
  BY DEF Sound, Handler
<1>2. h.at \in {"refresh", "transition"} => h.key \in Key /\ Seen(h, old) /\ Seen(h, new)
  BY DEF Sound, Seen, Evolve
<1>3. h.at = "transition" /\ h.op = "complete" /\ Automatic(new[h.key]) => h.now < new[h.key].expires
  BY <1>2 DEF Sound, Seen, Evolve
<1>. QED  BY <1>1, <1>2, <1>3 DEF Sound

\* One thread moves on, the others keep what they know.
LEMMA OneHandler ==
  ASSUME DInv, TypeOK', NEW p \in Proc, NEW h, handlers' = [handlers EXCEPT ![p] = h],
         Evolve(requests, requests'), snapshot <= snapshot',
         h # None => Sound(h, requests', snapshot')
  PROVE  (\A q \in Proc : handlers[q] # None => Sound(handlers[q], requests, snapshot))'
<1> SUFFICES ASSUME NEW q \in Proc, handlers'[q] # None
             PROVE  Sound(handlers'[q], requests', snapshot')
  OBVIOUS
<1>1. handlers \in [Proc -> Handler \cup {None}] /\ snapshot \in Nat /\ snapshot' \in Nat
  BY DEF DInv, TypeOK
<1>2. CASE q = p
  BY <1>1, <1>2
<1>3. CASE q # p
  <2>1. handlers'[q] = handlers[q] /\ handlers[q] \in Handler /\ Sound(handlers[q], requests, snapshot)
    BY <1>1, <1>3 DEF DInv
  <2>2. Sound(handlers[q], requests', snapshot')
    BY <1>1, <2>1, SoundStays
  <2>. QED  BY <2>1, <2>2
<1>. QED  BY <1>2, <1>3

LEMMA SameRows == Evolve(requests, requests)
  BY DEF Evolve

\* A step that only moves one thread.
LEMMA QuietStep ==
  ASSUME DInv, NEW p \in Proc, NEW h \in Handler \cup {None},
         handlers' = [handlers EXCEPT ![p] = h],
         h # None => Sound(h, requests, snapshot),
         UNCHANGED <<environment, policy, requests, completions>>,
         policyIds' \in 0..MaxPolicy
  PROVE  DInv'
<1> USE DEF environment
<1>1. TypeOK'
  BY DEF DInv, TypeOK
<1>2. (\A q \in Proc : handlers[q] # None => Sound(handlers[q], requests, snapshot))'
  <2>1. snapshot <= snapshot'
    BY DEF DInv, TypeOK
  <2>2. Evolve(requests, requests') /\ (h # None => Sound(h, requests', snapshot'))
    BY SameRows
  <2>. QED  BY <1>1, <2>1, <2>2, OneHandler
<1>. QED  BY <1>1, <1>2 DEF DInv

\* A thread that ends, having changed at most one row.
LEMMA FinalStep ==
  ASSUME DInv, NEW p \in Proc, Done(p), UNCHANGED <<environment, policies>>,
         requests' \in [Key -> Row \cup {None}], completions' \in [Key -> Nat],
         Evolve(requests, requests'),
         \A k \in Key : RowSound(requests'[k], completions'[k])
  PROVE  DInv'
<1> USE DEF environment, policies
<1>1. TypeOK'
  BY DEF DInv, TypeOK, Done
<1>2. (\A q \in Proc : handlers[q] # None => Sound(handlers[q], requests, snapshot))'
  <2>1. snapshot <= snapshot'
    BY DEF DInv, TypeOK
  <2>2. handlers' = [handlers EXCEPT ![p] = None]
    BY DEF Done
  <2>. QED  BY <1>1, <2>1, <2>2, OneHandler
<1>. QED  BY <1>1, <1>2 DEF DInv

LEMMA BeginStep ==
  ASSUME DInv, NEW p \in Proc, NEW op \in Operation, NEW k \in Key, NEW l \in Label \cup {None},
         Begin(p, op, k, l)
  PROVE  DInv'
<1> DEFINE h == [at |-> "row", op |-> op, key |-> k, label |-> l, now |-> clock,
        asked |-> IF op = "request" THEN snapshot ELSE 0,
        seen |-> None, read |-> None, found |-> None]
<1>1. /\ snapshot \in 1..MaxSnapshot /\ clock \in 0..MaxClock /\ op \in Operations
      /\ policyIds \in 0..MaxPolicy
  BY DelegationAssumption DEF DInv, TypeOK
<1>2. (IF op = "request" THEN snapshot ELSE 0) \in 0..MaxSnapshot
  BY <1>1, DelegationAssumption
<1>3. h \in Handler
  BY <1>1, <1>2 DEF Handler
<1>4. Sound(h, requests, snapshot)
  BY <1>1 DEF Sound, Begin
<1>5. handlers' = [handlers EXCEPT ![p] = h]
  BY DEF Begin
<1>6. UNCHANGED <<environment, policy, requests, completions>> /\ policyIds' = policyIds
  BY DEF Begin, policies
<1> HIDE DEF h
<1>. QED  BY <1>1, <1>3, <1>4, <1>5, <1>6, QuietStep

LEMMA ReadRowStep ==
  ASSUME DInv, NEW p \in Proc, ReadRow(p)
  PROVE  DInv'
<1> DEFINE h == handlers[p]
           row == requests[h.key]
<1>1. h \in Handler /\ h # None /\ Sound(h, requests, snapshot) /\ h.at = "row"
  BY HandlerTyped DEF DInv, ReadRow, At
<1>2. h.key \in Key /\ (h.op = "request" => h.label \in Label) /\ h.op \in Operations
  BY <1>1 DEF Sound
<1>3. /\ row \in Row \cup {None} /\ handlers \in [Proc -> Handler \cup {None}]
      /\ policyIds \in 0..MaxPolicy /\ snapshot \in 1..MaxSnapshot
  BY <1>2 DEF DInv, TypeOK
<1>4. UNCHANGED <<environment, policy, requests, completions>> /\ policyIds' = policyIds
  BY DEF ReadRow, policies
<1>5. CASE row # None /\ handlers' = [handlers EXCEPT ![p].at = "refresh", ![p].seen = row,
                                                      ![p].asked = 0]
  <2> DEFINE g == [h EXCEPT !.at = "refresh", !.seen = row, !.asked = 0]
  <2>0. 0 \in 0..MaxSnapshot
    BY DelegationAssumption
  <2> HIDE DEF row
  <2>1. g \in Handler
    BY <1>1, <1>3, <2>0 DEF Handler
  <2> USE DEF row
  <2>2. handlers' = [handlers EXCEPT ![p] = g]
    BY <1>3, <1>5
  <2>3. RowSound(row, completions[h.key])
    BY <1>2 DEF DInv
  <2>4. /\ g.at = "refresh" /\ g.seen = row /\ g.asked = 0 /\ g.key = h.key /\ g.op = h.op
    BY <1>1 DEF Handler
  <2>5. Sound(g, requests, snapshot)
    BY <1>2, <1>3, <1>5, <2>3, <2>4 DEF Sound, Seen, RowSound
  <2> HIDE DEF g
  <2>. QED  BY <1>3, <1>4, <2>1, <2>2, <2>5, QuietStep
<1>6. CASE Done(p)
  BY <1>3, <1>4, <1>6, QuietStep DEF Done
<1>7. CASE h.op = "request" /\ Goto(p, "policy")
  <2> DEFINE g == [h EXCEPT !.at = "policy"]
  <2>1. g \in Handler
    BY <1>1 DEF Handler
  <2>2. handlers' = [handlers EXCEPT ![p] = g]
    BY <1>3, <1>7 DEF Goto
  <2>3. g.at = "policy" /\ g.key = h.key /\ g.op = h.op /\ g.label = h.label /\ g.asked = h.asked
    BY <1>1 DEF Handler
  <2>4. Sound(g, requests, snapshot)
    BY <1>1, <1>2, <1>7, <2>3 DEF Sound
  <2> HIDE DEF g
  <2>. QED  BY <1>3, <1>4, <2>1, <2>2, <2>4, QuietStep
<1>. QED  BY <1>5, <1>6, <1>7 DEF ReadRow

LEMMA ReadsStep ==
  ASSUME DInv, NEW p \in Proc, ReadPolicy(p) \/ ReadPrediction(p) \/ ReadSnapshot(p)
  PROVE  DInv'
<1> DEFINE h == handlers[p]
<1>1. h \in Handler /\ h # None /\ Sound(h, requests, snapshot)
  BY HandlerTyped DEF DInv, ReadPolicy, ReadPrediction, ReadSnapshot, At
<1>2. /\ handlers \in [Proc -> Handler \cup {None}] /\ policyIds \in 0..MaxPolicy
      /\ snapshot \in 1..MaxSnapshot /\ policy \in Policy \cup {None}
      /\ prediction \in Prediction \cup {None} /\ (policy # None => Floored(policy))
  BY DEF DInv, TypeOK
<1>3. UNCHANGED <<environment, policy, requests, completions>> /\ policyIds' = policyIds
  BY DEF ReadPolicy, ReadPrediction, ReadSnapshot, policies
<1>4. CASE Done(p)
  BY <1>2, <1>3, <1>4, QuietStep DEF Done
<1>5. CASE h.at = "policy" /\ policy # None
           /\ handlers' = [handlers EXCEPT ![p].at = "prediction", ![p].read = policy]
  <2> DEFINE g == [h EXCEPT !.at = "prediction", !.read = policy]
  <2>1. g \in Handler /\ handlers' = [handlers EXCEPT ![p] = g]
    BY <1>1, <1>2, <1>5 DEF Handler
  <2>2. /\ g.at = "prediction" /\ g.read = policy /\ g.key = h.key /\ g.op = h.op
        /\ g.label = h.label /\ g.asked = h.asked
    BY <1>1 DEF Handler
  <2>3. Sound(g, requests, snapshot)
    BY <1>1, <1>2, <1>5, <2>2 DEF Sound
  <2> HIDE DEF g
  <2>. QED  BY <1>2, <1>3, <2>1, <2>3, QuietStep
<1>6. CASE h.at = "prediction" /\ prediction # None
           /\ handlers' = [handlers EXCEPT ![p].at = "snapshot", ![p].found = prediction]
  <2> DEFINE g == [h EXCEPT !.at = "snapshot", !.found = prediction]
  <2>1. g \in Handler /\ handlers' = [handlers EXCEPT ![p] = g]
    BY <1>1, <1>2, <1>6 DEF Handler
  <2>2. /\ g.at = "snapshot" /\ g.found = prediction /\ g.key = h.key /\ g.op = h.op
        /\ g.label = h.label /\ g.asked = h.asked /\ g.read = h.read
    BY <1>1 DEF Handler
  <2>3. Sound(g, requests, snapshot)
    BY <1>1, <1>2, <1>6, <2>2 DEF Sound
  <2> HIDE DEF g
  <2>. QED  BY <1>2, <1>3, <2>1, <2>3, QuietStep
<1>7. CASE h.at = "snapshot" /\ h.found.version = snapshot /\ Goto(p, "insert")
  <2> DEFINE g == [h EXCEPT !.at = "insert"]
  <2>1. g \in Handler /\ handlers' = [handlers EXCEPT ![p] = g]
    BY <1>1, <1>2, <1>7 DEF Handler, Goto
  <2>2. /\ g.at = "insert" /\ g.found = h.found /\ g.key = h.key /\ g.op = h.op
        /\ g.label = h.label /\ g.asked = h.asked /\ g.read = h.read
    BY <1>1 DEF Handler
  <2>3. Sound(g, requests, snapshot)
    BY <1>1, <1>2, <1>7, <2>2 DEF Sound
  <2> HIDE DEF g
  <2>. QED  BY <1>2, <1>3, <2>1, <2>3, QuietStep
<1>. QED  BY <1>4, <1>5, <1>6, <1>7 DEF ReadPolicy, ReadPrediction, ReadSnapshot, At

LEMMA BeginSetPolicyStep ==
  ASSUME DInv, NEW p \in Proc, NEW q \in Proposal, BeginSetPolicy(p, q)
  PROVE  DInv'
<1> DEFINE read == [id |-> IF policy = None THEN policyIds + 1 ELSE policy.id,
                    impact |-> q.impact, minimum |-> q.minimum, automatic |-> q.automatic]
           h == [at |-> "upsert", op |-> "set_policy", key |-> None, label |-> None, now |-> 0,
                 asked |-> 0, seen |-> None, found |-> None, read |-> read]
<1>1. /\ policyIds \in 0..MaxPolicy /\ policy \in Policy \cup {None}
      /\ snapshot \in 1..MaxSnapshot
  BY DEF DInv, TypeOK
<1>2. q \in [impact : Impact, minimum : 0..100, automatic : BOOLEAN]
      /\ MaxClock \in Nat /\ MaxSnapshot \in Nat /\ MaxPolicy \in Nat
  BY DelegationAssumption
<1>3. Floor[q.impact] \in 90..100 /\ q.minimum >= Floor[q.impact]
  BY <1>2, Floors DEF BeginSetPolicy, Accepted
<1>4. (IF policy = None THEN policyIds + 1 ELSE policy.id) \in 1..MaxPolicy
      /\ policyIds' \in 0..MaxPolicy
  BY <1>1, <1>2 DEF BeginSetPolicy, Policy
<1>5. read \in Policy /\ Floored(read)
  BY <1>2, <1>3, <1>4 DEF Policy, Floored
<1>6. handlers' = [handlers EXCEPT ![p] = h]
  BY DEF BeginSetPolicy
<1> HIDE DEF read
<1>7. h \in Handler
  BY <1>2, <1>5 DEF Handler
<1>8. read # None
  BY <1>5, Apart
<1>9. Sound(h, requests, snapshot)
  BY <1>1, <1>5, <1>8 DEF Sound
<1>10. UNCHANGED <<environment, policy, requests, completions>>
  BY DEF BeginSetPolicy
<1> HIDE DEF h
<1>. QED  BY <1>4, <1>6, <1>7, <1>9, <1>10, QuietStep

\* A lapsed row that has not moved since it was read expires.
LEMMA RefreshStep ==
  ASSUME DInv, NEW p \in Proc, Refresh(p)
  PROVE  DInv'
<1> DEFINE h == handlers[p]
           row == requests[h.key]
           after == IF Lapsed(h.seen, h.now)
                    THEN IF row.status = h.seen.status THEN Moved(row, Expired, h.now) ELSE row
                    ELSE h.seen
<1>1. h \in Handler /\ h # None /\ Sound(h, requests, snapshot) /\ h.at = "refresh"
  BY HandlerTyped DEF DInv, Refresh, At
<1>2. h.key \in Key /\ Seen(h, requests) /\ h.now \in 0..MaxClock /\ h.op \in Operations
  BY <1>1 DEF Sound, Handler
<1>3. row \in Row /\ h.seen \in Row /\ requests \in [Key -> Row \cup {None}]
      /\ handlers \in [Proc -> Handler \cup {None}] /\ snapshot \in Nat
      /\ completions \in [Key -> Nat]
  BY <1>1, <1>2 DEF DInv, TypeOK, Seen, Handler
<1>4. /\ Moved(row, Expired, h.now) \in Row /\ Moved(row, Expired, h.now).expires = row.expires
      /\ Moved(row, Expired, h.now).status = "expired" /\ ~Automatic(Moved(row, Expired, h.now))
  BY <1>2, <1>3, MovedRow DEF Expired
<1>5. RowSound(row, completions[h.key]) /\ row # None /\ row.expires = h.seen.expires
      /\ (Automatic(row) => h.seen.status = "approved")
  BY <1>2, <1>3 DEF DInv, Seen
<1>6. /\ after \in Row /\ after.expires = row.expires
      /\ Lapsed(h.seen, h.now) => ~Automatic(after) /\ RowSound(after, completions[h.key])
      /\ ~Lapsed(h.seen, h.now) => after = h.seen
  <2>1. CASE ~Lapsed(h.seen, h.now)
    BY <1>3, <1>5, <2>1
  <2>2. CASE Lapsed(h.seen, h.now) /\ row.status = h.seen.status
    <3>1. row.status # "completed" /\ after = Moved(row, Expired, h.now)
      BY <2>2 DEF Lapsed, Live
    <3>2. RowSound(after, completions[h.key])
      BY <1>4, <1>5, <3>1, Apart DEF RowSound
    <3>. QED  BY <1>4, <2>2, <3>1, <3>2
  <2>3. CASE Lapsed(h.seen, h.now) /\ row.status # h.seen.status
    BY <1>3, <1>5, <2>3 DEF RowSound
  <2>. QED  BY <2>1, <2>2, <2>3
<1>7. /\ requests' = IF Lapsed(h.seen, h.now) THEN [requests EXCEPT ![h.key] = after]
                                              ELSE requests
      /\ IF Allowed(h.op, after)
         THEN handlers' = [handlers EXCEPT ![p].at = "transition", ![p].seen = after]
         ELSE Done(p)
      /\ UNCHANGED <<environment, policies, completions>>
  BY DEF Refresh
<1> HIDE DEF after
<1>8. requests' \in [Key -> Row \cup {None}] /\ Evolve(requests, requests')
      /\ \A k \in Key : RowSound(requests'[k], completions'[k])
  <2>1. requests' \in [Key -> Row \cup {None}]
    BY <1>2, <1>3, <1>6, <1>7
  <2>2. ASSUME NEW k \in Key
        PROVE  /\ RowSound(requests'[k], completions'[k])
               /\ requests[k] # None =>
                    /\ requests'[k] # None /\ requests'[k].expires = requests[k].expires
                    /\ Automatic(requests'[k]) => Automatic(requests[k])
    <3>1. CASE Lapsed(h.seen, h.now) /\ k = h.key
      BY <1>3, <1>6, <1>7, <3>1, Apart
    <3>2. CASE ~(Lapsed(h.seen, h.now) /\ k = h.key)
      BY <1>2, <1>3, <1>7, <3>2 DEF DInv
    <3>. QED  BY <3>1, <3>2
  <2>. QED  BY <2>1, <2>2 DEF Evolve
<1>9. CASE Done(p)
  BY <1>3, <1>7, <1>8, <1>9, FinalStep
<1>10. CASE Allowed(h.op, after)
            /\ handlers' = [handlers EXCEPT ![p].at = "transition", ![p].seen = after]
  <2> DEFINE g == [h EXCEPT !.at = "transition", !.seen = after]
  <2>1. g \in Handler /\ handlers' = [handlers EXCEPT ![p] = g]
    BY <1>1, <1>3, <1>6, <1>10 DEF Handler
  <2>2. /\ g.at = "transition" /\ g.seen = after /\ g.key = h.key /\ g.op = h.op
        /\ g.asked = h.asked /\ g.now = h.now
    BY <1>1 DEF Handler
  <2>3. snapshot' = snapshot
    BY <1>7 DEF environment
  <2>4. after # None /\ requests'[h.key] # None /\ requests'[h.key].expires = after.expires
    BY <1>2, <1>3, <1>5, <1>6, <1>8, Apart DEF Evolve
  <2>5. Automatic(requests'[h.key]) =>
          /\ after = h.seen /\ after.status = "approved" /\ ~Lapsed(h.seen, h.now)
    BY <1>2, <1>3, <1>5, <1>6, <1>7
  <2>6. Automatic(requests'[h.key]) => h.now < requests'[h.key].expires
    <3>1. h.now \in Nat /\ h.seen.expires \in Nat
      BY <1>2, <1>3, DelegationAssumption DEF Row
    <3>. QED  BY <2>4, <2>5, <3>1 DEF Lapsed, Live
  <2>7. Sound(g, requests', snapshot')
    <3>1. Seen(g, requests')
      BY <2>2, <2>4, <2>5 DEF Seen
    <3>. QED  BY <1>1, <1>2, <1>10, <2>2, <2>3, <2>6, <3>1 DEF Sound
  <2> HIDE DEF g
  <2>8. TypeOK'
    BY <1>3, <1>7, <1>8, <2>1 DEF DInv, TypeOK, environment, policies
  <2>9. (\A q \in Proc : handlers[q] # None => Sound(handlers[q], requests, snapshot))'
    <3>1. snapshot <= snapshot'
      BY <1>3, <2>3
    <3>. QED  BY <1>8, <2>1, <2>7, <2>8, <3>1, OneHandler
  <2>. QED  BY <1>7, <1>8, <2>8, <2>9 DEF DInv, policies
<1>. QED  BY <1>7, <1>9, <1>10

\* What a review or a completion writes, and when.
LEMMA TransitionEffect ==
  ASSUME DInv, NEW p \in Proc, Transition(p),
         requests[handlers[p].key].status = handlers[p].seen.status
  PROVE  LET h == handlers[p]
             row == requests[h.key]
             new == Moved(row, Target(h.op), h.now)
         IN  /\ h.key \in Key /\ row \in Row /\ row # None /\ new \in Row /\ new # None
             /\ requests' = [requests EXCEPT ![h.key] = new]
             /\ new.status = Target(h.op).status /\ ~Automatic(new)
             /\ new.expires = row.expires /\ new.changed = h.now
             /\ Allowed(h.op, row) /\ h.op \in {"approve", "reject", "complete"}
             /\ h.op = "complete" /\ Automatic(row) => h.now < row.expires
             /\ RowSound(row, completions[h.key])
<1> DEFINE h == handlers[p]
           row == requests[h.key]
<1>1. h \in Handler /\ h # None /\ Sound(h, requests, snapshot) /\ h.at = "transition"
  BY HandlerTyped DEF DInv, Transition, At
<1>2. /\ h.key \in Key /\ Seen(h, requests) /\ h.now \in 0..MaxClock /\ h.op \in Operations
      /\ Allowed(h.op, h.seen) /\ (h.op = "complete" /\ Automatic(row) => h.now < row.expires)
  BY <1>1 DEF Sound, Handler
<1>3. row \in Row /\ row # None /\ RowSound(row, completions[h.key])
  BY <1>2 DEF DInv, TypeOK, Seen
<1>4. /\ Moved(row, Target(h.op), h.now) \in Row
      /\ Moved(row, Target(h.op), h.now).expires = row.expires
      /\ Moved(row, Target(h.op), h.now).status = Target(h.op).status
      /\ Moved(row, Target(h.op), h.now).changed = h.now
      /\ ~Automatic(Moved(row, Target(h.op), h.now))
  BY <1>2, <1>3, MovedRow
<1>5. Allowed(h.op, row) /\ h.op \in {"approve", "reject", "complete"}
  BY <1>2 DEF Allowed, Live
<1>6. requests' = [requests EXCEPT ![h.key] = Moved(row, Target(h.op), h.now)]
  BY DEF Transition
<1>. QED  BY <1>2, <1>3, <1>4, <1>5, <1>6, Apart

LEMMA TransitionStep ==
  ASSUME DInv, NEW p \in Proc, Transition(p)
  PROVE  DInv'
<1> DEFINE h == handlers[p]
           row == requests[h.key]
<1>1. UNCHANGED <<environment, policies>> /\ Done(p)
  BY DEF Transition
<1>2. requests \in [Key -> Row \cup {None}] /\ completions \in [Key -> Nat]
      /\ \A k \in Key : RowSound(requests[k], completions[k])
  BY DEF DInv, TypeOK
<1>3. CASE UNCHANGED <<requests, completions>>
  BY <1>1, <1>2, <1>3, SameRows, FinalStep
<1>4. CASE row.status = h.seen.status
           /\ completions' = IF h.op = "complete" THEN [completions EXCEPT ![h.key] = @ + 1]
                                                  ELSE completions
  <2> DEFINE new == Moved(row, Target(h.op), h.now)
  <2>1. /\ h.key \in Key /\ row \in Row /\ row # None /\ new \in Row /\ new # None
        /\ requests' = [requests EXCEPT ![h.key] = new]
        /\ new.status = Target(h.op).status /\ ~Automatic(new)
        /\ new.expires = row.expires
        /\ Allowed(h.op, row) /\ h.op \in {"approve", "reject", "complete"}
        /\ RowSound(row, completions[h.key])
    BY <1>4, TransitionEffect
  <2> HIDE DEF new
  <2>2. requests' \in [Key -> Row \cup {None}] /\ completions' \in [Key -> Nat]
    BY <1>2, <1>4, <2>1
  <2>3. row.status # "completed"
    BY <2>1 DEF Allowed, Live
  <2>4. RowSound(new, completions'[h.key])
    <3>1. completions[h.key] = 0
      BY <2>1, <2>3 DEF RowSound
    <3>2. completions'[h.key] = IF h.op = "complete" THEN 1 ELSE 0
      BY <1>2, <1>4, <2>1, <3>1
    <3>3. new.status = "completed" <=> h.op = "complete"
      BY <2>1 DEF Target
    <3>. QED  BY <2>1, <3>2, <3>3 DEF RowSound
  <2>5. Evolve(requests, requests')
    BY <1>2, <2>1 DEF Evolve
  <2>6. ASSUME NEW k \in Key PROVE RowSound(requests'[k], completions'[k])
    <3>1. CASE k = h.key
      BY <1>2, <2>1, <2>4, <3>1
    <3>2. CASE k # h.key
      BY <1>2, <1>4, <2>1, <3>2
    <3>. QED  BY <3>1, <3>2
  <2>. QED  BY <1>1, <2>2, <2>5, <2>6, FinalStep
<1>. QED  BY <1>3, <1>4 DEF Transition

\* What an insertion writes, and when.
LEMMA InsertEffect ==
  ASSUME DInv, NEW p \in Proc, Insert(p)
  PROVE  LET h == handlers[p]
         IN  /\ h \in Handler /\ h.key \in Key /\ NewRow(h) \in Row /\ NewRow(h) # None
             /\ NewRow(h).status \in {"pending", "approved"}
             /\ NewRow(h).policy = h.read.id
             /\ NewRow(h).version >= h.asked
             /\ RowSound(NewRow(h), 0)
<1> DEFINE h == handlers[p]
<1>1. h \in Handler /\ h # None /\ Sound(h, requests, snapshot) /\ h.at = "insert"
  BY HandlerTyped DEF DInv, Insert, At
<1>2. /\ h.label \in Label /\ h.read # None /\ Floored(h.read) /\ h.found # None
      /\ h.key \in Key /\ h.found.version >= h.asked
  BY <1>1 DEF Sound
<1>3. /\ NewRow(h) \in Row /\ NewRow(h).status \in {"pending", "approved"}
      /\ NewRow(h).policy = h.read.id /\ NewRow(h).version = h.found.version
      /\ RowSound(NewRow(h), 0)
  BY <1>1, <1>2, InsertedRow
<1>. QED  BY <1>1, <1>2, <1>3, Apart

LEMMA InsertStep ==
  ASSUME DInv, NEW p \in Proc, Insert(p)
  PROVE  DInv'
<1> DEFINE h == handlers[p]
           new == NewRow(h)
<1>1. h.key \in Key /\ new \in Row /\ new # None /\ RowSound(new, 0)
  BY InsertEffect
<1>2. requests \in [Key -> Row \cup {None}] /\ completions \in [Key -> Nat]
      /\ \A k \in Key : RowSound(requests[k], completions[k])
  BY DEF DInv, TypeOK
<1>3. /\ \/ requests' = requests
         \/ requests[h.key] = None /\ requests' = [requests EXCEPT ![h.key] = new]
      /\ Done(p) /\ UNCHANGED <<environment, policies, completions>>
  BY DEF Insert
<1> HIDE DEF new
<1>4. requests' \in [Key -> Row \cup {None}] /\ completions' \in [Key -> Nat]
  BY <1>1, <1>2, <1>3
<1>5. Evolve(requests, requests')
  BY <1>1, <1>2, <1>3 DEF Evolve
<1>6. ASSUME NEW k \in Key PROVE RowSound(requests'[k], completions'[k])
  <2>1. requests[h.key] = None => completions[h.key] = 0
    BY <1>1, <1>2 DEF RowSound
  <2>. QED  BY <1>1, <1>2, <1>3, <2>1
<1>. QED  BY <1>3, <1>4, <1>5, <1>6, FinalStep

LEMMA UpsertStep ==
  ASSUME DInv, NEW p \in Proc, Upsert(p)
  PROVE  DInv'
<1> DEFINE h == handlers[p]
<1>1. h \in Handler /\ h.read # None /\ Floored(h.read)
  BY HandlerTyped DEF DInv, Upsert, At, Sound
<1>2. policy \in Policy \cup {None} /\ h.read \in Policy
  BY <1>1 DEF DInv, TypeOK, Handler
<1>3. policy' \in Policy /\ Floored(policy')
  <2>1. CASE policy = None
    BY <1>1, <1>2, <2>1 DEF Upsert
  <2>2. CASE policy # None
    <3> DEFINE new == [h.read EXCEPT !.id = policy.id]
    <3>1. new \in Policy /\ new.impact = h.read.impact /\ new.minimum = h.read.minimum
      BY <1>2, <2>2 DEF Policy
    <3>2. policy' = new
      BY <2>2 DEF Upsert
    <3> HIDE DEF new
    <3>. QED  BY <1>1, <3>1, <3>2 DEF Floored
  <2>. QED  BY <2>1, <2>2
<1>4. /\ handlers' = [handlers EXCEPT ![p] = None]
      /\ UNCHANGED <<clock, snapshot, prediction, policyIds, requests, completions>>
  BY DEF Upsert, Done, environment
<1>5. TypeOK'
  BY <1>3, <1>4 DEF DInv, TypeOK
<1>6. (\A q \in Proc : handlers[q] # None => Sound(handlers[q], requests, snapshot))'
  <2>1. snapshot <= snapshot'
    BY <1>4 DEF DInv, TypeOK
  <2>2. Evolve(requests, requests')
    BY <1>4, SameRows
  <2>. QED  BY <1>4, <1>5, <2>1, <2>2, OneHandler
<1>. QED  BY <1>3, <1>4, <1>5, <1>6 DEF DInv

\* A removal leaves every request its authority and only takes its policy.
LEMMA RemovalEffect ==
  ASSUME DInv, RemovePolicy, NEW k \in Key
  PROVE  /\ requests'[k] = None <=> requests[k] = None
         /\ requests[k] # None =>
              /\ requests'[k] \in Row
              /\ requests'[k].status = requests[k].status
              /\ requests'[k].reason = requests[k].reason
              /\ requests'[k].impact = requests[k].impact
              /\ requests'[k].confidence = requests[k].confidence
              /\ requests'[k].expires = requests[k].expires
<1>1. requests[k] \in Row \cup {None} /\ MaxPolicy \in Nat
  BY DelegationAssumption DEF DInv, TypeOK
<1>2. requests'[k] = IF requests[k] # None /\ requests[k].policy = policy.id
                     THEN [requests[k] EXCEPT !.policy = 0] ELSE requests[k]
  BY DEF RemovePolicy
<1>3. requests[k] # None => [requests[k] EXCEPT !.policy = 0] \in Row
  BY <1>1 DEF Row
<1>. QED  BY <1>1, <1>2, <1>3, Apart DEF Row

\* The steps of the owner, of time and of the model.
LEMMA OtherStep ==
  ASSUME DInv, RemovePolicy \/ Rebuild \/ Predict \/ Tick
  PROVE  DInv'
<1> USE DEF environment, policies
<1>1. /\ handlers \in [Proc -> Handler \cup {None}] /\ requests \in [Key -> Row \cup {None}]
      /\ snapshot \in 1..MaxSnapshot /\ clock \in 0..MaxClock
      /\ MaxSnapshot \in Nat /\ MaxClock \in Nat
  BY DelegationAssumption DEF DInv, TypeOK
<1>2. /\ handlers' = handlers /\ completions' = completions /\ policyIds' = policyIds
      /\ policy' \in {policy, None}
      /\ snapshot' \in snapshot..MaxSnapshot /\ clock' \in 0..MaxClock
  BY <1>1 DEF RemovePolicy, Rebuild, Predict, Tick
<1>3. prediction' \in Prediction \cup {None}
  <2>1. CASE Predict
    <3>1. PICK v \in 1..snapshot, c \in Confidence : prediction' = [version |-> v, confidence |-> c]
      BY <2>1 DEF Predict
    <3>. QED  BY <1>1, <3>1 DEF Prediction
  <2>2. CASE prediction' = prediction
    BY <2>2 DEF DInv, TypeOK
  <2>. QED  BY <2>1, <2>2 DEF RemovePolicy, Rebuild, Tick
<1>4. /\ requests' \in [Key -> Row \cup {None}] /\ Evolve(requests, requests')
      /\ \A k \in Key : RowSound(requests'[k], completions'[k])
  <2>1. CASE RemovePolicy
    <3>1. requests' \in [Key -> Row \cup {None}]
      <4>1. requests' = [k \in Key |-> requests'[k]]
        BY <2>1 DEF RemovePolicy
      <4>2. \A k \in Key : requests'[k] \in Row \cup {None}
        BY <2>1, RemovalEffect
      <4>. QED  BY <4>1, <4>2
    <3>2. Evolve(requests, requests')
      BY <2>1, RemovalEffect DEF Evolve, Automatic
    <3>3. \A k \in Key : RowSound(requests'[k], completions'[k])
      BY <1>2, <2>1, RemovalEffect DEF DInv, RowSound, Automatic
    <3>. QED  BY <3>1, <3>2, <3>3
  <2>2. CASE requests' = requests
    BY <1>1, <1>2, <2>2, SameRows DEF DInv
  <2>. QED  BY <2>1, <2>2 DEF Rebuild, Predict, Tick
<1>5. TypeOK'
  BY <1>1, <1>2, <1>3, <1>4 DEF DInv, TypeOK
<1>6. (\A p \in Proc : handlers[p] # None => Sound(handlers[p], requests, snapshot))'
  <2> SUFFICES ASSUME NEW p \in Proc, handlers[p] # None
               PROVE  Sound(handlers[p], requests', snapshot')
    BY <1>2
  <2>1. handlers[p] \in Handler /\ Sound(handlers[p], requests, snapshot)
    BY <1>1 DEF DInv
  <2>2. snapshot \in Nat /\ snapshot' \in Nat /\ snapshot <= snapshot'
    BY <1>1, <1>2
  <2>. QED  BY <1>4, <2>1, <2>2, SoundStays
<1>. QED  BY <1>2, <1>4, <1>5, <1>6 DEF DInv

-----------------------------------------------------------------------------
LEMMA DInit == Init => DInv
<1> SUFFICES ASSUME Init PROVE DInv
  OBVIOUS
<1>1. TypeOK
  BY DelegationAssumption DEF Init, TypeOK
<1>. QED  BY <1>1 DEF Init, DInv, RowSound

LEMMA DStep == DInv /\ [Next]_vars => DInv'
<1> SUFFICES ASSUME DInv, [Next]_vars PROVE DInv'
  OBVIOUS
<1>1. ASSUME NEW p \in Proc, NEW op \in Operation, NEW k \in Key, NEW l \in Label \cup {None},
             Begin(p, op, k, l)
      PROVE  DInv'
  BY <1>1, BeginStep
<1>2. ASSUME NEW p \in Proc, ReadRow(p) \/ Refresh(p) \/ Transition(p) PROVE DInv'
  BY <1>2, ReadRowStep, RefreshStep, TransitionStep
<1>3. ASSUME NEW p \in Proc, ReadPolicy(p) \/ ReadPrediction(p) \/ ReadSnapshot(p) PROVE DInv'
  BY <1>3, ReadsStep
<1>4. ASSUME NEW p \in Proc, Insert(p) \/ Upsert(p) PROVE DInv'
  BY <1>4, InsertStep, UpsertStep
<1>5. ASSUME NEW p \in Proc, NEW q \in Proposal, BeginSetPolicy(p, q) PROVE DInv'
  BY <1>5, BeginSetPolicyStep
<1>6. ASSUME NEW p \in Proc, Fail(p) PROVE DInv'
  <2>1. requests \in [Key -> Row \cup {None}] /\ completions \in [Key -> Nat]
        /\ \A k \in Key : RowSound(requests[k], completions[k])
    BY DEF DInv, TypeOK
  <2>2. Done(p) /\ UNCHANGED <<environment, policies, requests, completions>>
    BY <1>6 DEF Fail
  <2>. QED  BY <2>1, <2>2, SameRows, FinalStep
<1>7. CASE RemovePolicy \/ Rebuild \/ Predict \/ Tick
  BY <1>7, OtherStep
<1>8. CASE UNCHANGED vars
  <2>1. /\ UNCHANGED <<clock, snapshot, prediction, policy, policyIds>>
        /\ UNCHANGED <<requests, completions, handlers>>
    BY <1>8 DEF vars, environment, policies
  <2>. QED  BY <2>1 DEF DInv, TypeOK
<1>. QED  BY <1>1, <1>2, <1>3, <1>4, <1>5, <1>6, <1>7, <1>8 DEF Next

LEMMA DCorrect == Spec => []DInv
  BY DInit, DStep, PTL DEF Spec

\* Every variable keeps its type, however many threads race.
THEOREM DelegationTyped == Spec => []TypeOK
<1>1. DInv => TypeOK
  BY DEF DInv
<1>. QED  BY <1>1, DCorrect, PTL

\* Nothing is approved without the owner below the floor of its impact.
THEOREM ApprovedWithinFloor == Spec => []AutomaticWithinFloor
<1>1. DInv => AutomaticWithinFloor
  BY DEF DInv, RowSound, Automatic, AutomaticWithinFloor
<1>. QED  BY <1>1, DCorrect, PTL

-----------------------------------------------------------------------------
\* What a step may do to a request.
Kept(k) ==
  /\ requests'[k] = None <=> requests[k] = None
  /\ requests[k] # None => /\ requests'[k].status = requests[k].status
                           /\ requests'[k].reason = requests[k].reason
  /\ completions'[k] = completions[k]

Inserted(k) ==
  /\ requests[k] = None /\ requests'[k] # None
  /\ requests'[k].status \in {"pending", "approved"}
  /\ policy # None /\ requests'[k].policy = policy.id
  /\ completions'[k] = completions[k]
  /\ \E p \in Proc : /\ handlers' = [handlers EXCEPT ![p] = None]
                     /\ requests'[k].version >= handlers[p].asked

Expires(k) ==
  /\ requests[k] # None /\ Live(requests[k])
  /\ requests'[k] # None /\ requests'[k].status = "expired"
  /\ completions'[k] = completions[k]

Moves(k) ==
  \E o \in {"approve", "reject", "complete"} :
    /\ requests[k] # None /\ Allowed(o, requests[k])
    /\ requests'[k] # None /\ requests'[k].status = Target(o).status
    /\ IF o = "complete"
       THEN /\ completions[k] = 0 /\ completions'[k] = 1
            /\ Automatic(requests[k]) => requests'[k].changed < requests'[k].expires
       ELSE completions'[k] = completions[k]

\* A step changes one request at most, in one of these ways.
LEMMA OneRequest ==
  ASSUME DInv, Next
  PROVE  \/ \A k \in Key : Kept(k)
         \/ \E j \in Key : /\ Inserted(j) \/ Expires(j) \/ Moves(j)
                           /\ \A k \in Key \ {j} : Kept(k)
<1>1. requests \in [Key -> Row \cup {None}] /\ completions \in [Key -> Nat]
  BY DEF DInv, TypeOK
<1>2. ASSUME UNCHANGED <<requests, completions>> PROVE \A k \in Key : Kept(k)
  BY <1>2 DEF Kept
<1>3. ASSUME RemovePolicy PROVE \A k \in Key : Kept(k)
  BY <1>3, RemovalEffect DEF Kept, RemovePolicy
<1>4. ASSUME NEW p \in Proc, Refresh(p), ~UNCHANGED <<requests, completions>>
      PROVE  \E j \in Key : Expires(j) /\ \A k \in Key \ {j} : Kept(k)
  <2> DEFINE h == handlers[p]
             row == requests[h.key]
  <2>1. h \in Handler /\ h # None /\ Sound(h, requests, snapshot) /\ h.at = "refresh"
    BY <1>4, HandlerTyped DEF DInv, Refresh, At
  <2>2. h.key \in Key /\ row \in Row /\ row # None /\ h.now \in 0..MaxClock
    BY <1>1, <2>1 DEF Sound, Seen, Handler
  <2>3. row.status = h.seen.status /\ Lapsed(h.seen, h.now)
        /\ requests' = [requests EXCEPT ![h.key] = Moved(row, Expired, h.now)]
        /\ completions' = completions
    <3>1. completions' = completions
      BY <1>4 DEF Refresh
    <3>2. Lapsed(h.seen, h.now) /\ requests' # requests
      BY <1>4, <3>1 DEF Refresh
    <3>3. requests' = [requests EXCEPT ![h.key] = IF row.status = h.seen.status
                         THEN Moved(row, Expired, h.now) ELSE row]
      BY <1>4, <3>2 DEF Refresh
    <3>4. row.status = h.seen.status
      BY <1>1, <2>2, <3>2, <3>3
    <3>. QED  BY <3>1, <3>2, <3>3, <3>4
  <2>4. Moved(row, Expired, h.now) \in Row /\ Moved(row, Expired, h.now).status = "expired"
    BY <2>2, MovedRow DEF Expired
  <2>5. Moved(row, Expired, h.now) # None
    BY <2>4, Apart
  <2>6. Expires(h.key)
    BY <1>1, <2>2, <2>3, <2>4, <2>5 DEF Expires, Lapsed, Live
  <2>7. \A k \in Key \ {h.key} : Kept(k)
    BY <1>1, <2>2, <2>3 DEF Kept
  <2>. QED  BY <2>2, <2>6, <2>7
<1>5. ASSUME NEW p \in Proc, Transition(p), ~UNCHANGED <<requests, completions>>
      PROVE  \E j \in Key : Moves(j) /\ \A k \in Key \ {j} : Kept(k)
  <2> DEFINE h == handlers[p]
             row == requests[h.key]
             new == Moved(row, Target(h.op), h.now)
  <2>1. row.status = h.seen.status
        /\ completions' = IF h.op = "complete" THEN [completions EXCEPT ![h.key] = @ + 1]
                                               ELSE completions
    BY <1>5 DEF Transition
  <2>2. /\ h.key \in Key /\ row \in Row /\ row # None /\ new # None
        /\ requests' = [requests EXCEPT ![h.key] = new]
        /\ new.status = Target(h.op).status
        /\ new.expires = row.expires /\ new.changed = h.now
        /\ Allowed(h.op, row) /\ h.op \in {"approve", "reject", "complete"}
        /\ (h.op = "complete" /\ Automatic(row) => h.now < row.expires)
        /\ RowSound(row, completions[h.key])
    BY <1>5, <2>1, TransitionEffect
  <2> HIDE DEF new
  <2>3. requests'[h.key] = new
    BY <1>1, <2>2
  <2>4. h.op = "complete" => completions[h.key] = 0 /\ completions'[h.key] = 1
    BY <1>1, <2>1, <2>2 DEF RowSound, Allowed
  <2>5. h.op # "complete" => completions'[h.key] = completions[h.key]
    BY <2>1
  <2>6. Moves(h.key)
    BY <2>2, <2>3, <2>4, <2>5 DEF Moves
  <2>7. \A k \in Key \ {h.key} : Kept(k)
    BY <1>1, <2>1, <2>2 DEF Kept
  <2>. QED  BY <2>2, <2>6, <2>7
<1>6. ASSUME NEW p \in Proc, Insert(p), ~UNCHANGED <<requests, completions>>
      PROVE  \E j \in Key : Inserted(j) /\ \A k \in Key \ {j} : Kept(k)
  <2> DEFINE h == handlers[p]
             new == NewRow(h)
  <2>1. /\ h.key \in Key /\ new # None /\ new.status \in {"pending", "approved"}
        /\ new.policy = h.read.id /\ new.version >= h.asked
    BY <1>6, InsertEffect
  <2>2. /\ requests[h.key] = None /\ policy # None /\ policy.id = h.read.id
        /\ requests' = [requests EXCEPT ![h.key] = new] /\ completions' = completions
        /\ handlers' = [handlers EXCEPT ![p] = None]
    BY <1>6 DEF Insert, Done
  <2> HIDE DEF new
  <2>3. requests'[h.key] = new
    BY <1>1, <2>1, <2>2
  <2>4. Inserted(h.key)
    BY <2>1, <2>2, <2>3 DEF Inserted
  <2>5. \A k \in Key \ {h.key} : Kept(k)
    BY <1>1, <2>2 DEF Kept
  <2>. QED  BY <2>1, <2>4, <2>5
<1>7. CASE UNCHANGED <<requests, completions>>
  BY <1>2, <1>7
<1>8. CASE ~UNCHANGED <<requests, completions>>
  <2>1. \/ RemovePolicy
        \/ \E p \in Proc : Refresh(p) \/ Transition(p) \/ Insert(p)
    BY <1>8 DEF Next, Begin, ReadRow, ReadPolicy, ReadPrediction, ReadSnapshot, BeginSetPolicy,
                Upsert, Fail, Rebuild, Predict, Tick
  <2>. QED  BY <1>3, <1>4, <1>5, <1>6, <1>8, <2>1
<1>. QED  BY <1>7, <1>8

\* A step of the engine is a step of the lifecycle, or none.
LEMMA StepKeepsLifecycle == DInv /\ [Next]_vars => [Contract!Next]_(Contract!vars)
<1> DEFINE State(rows) == [k \in Key |-> IF rows[k] = None THEN "absent" ELSE rows[k].status]
<1> SUFFICES ASSUME DInv, Next PROVE [Contract!Next]_(Contract!vars)
  BY DEF vars, Contract!vars
<1>1. completions \in [Key -> Nat] /\ completions' \in [Key -> Nat]
  BY DStep DEF DInv, TypeOK
<1>2. CASE \A k \in Key : Kept(k)
  <2>1. State(requests') = State(requests)
    BY <1>2 DEF Kept
  <2>2. completions' = completions
    BY <1>1, <1>2 DEF Kept
  <2>. QED  BY <2>1, <2>2 DEF Contract!vars
<1>3. ASSUME NEW j \in Key, Inserted(j) \/ Expires(j) \/ Moves(j),
             \A k \in Key \ {j} : Kept(k)
      PROVE  Contract!Next
  <2>1. State(requests') = [State(requests) EXCEPT ![j] = requests'[j].status]
    <3>1. requests'[j] # None
      BY <1>3 DEF Inserted, Expires, Moves
    <3>2. \A k \in Key \ {j} : State(requests')[k] = State(requests)[k]
      BY <1>3 DEF Kept
    <3>. QED  BY <3>1, <3>2
  <2>2. \A k \in Key \ {j} : completions'[k] = completions[k]
    BY <1>3 DEF Kept
  <2>3. CASE completions'[j] = completions[j]
             /\ requests'[j].status \in Contract!After(State(requests)[j])
    <3>1. completions' = completions
      BY <1>1, <2>2, <2>3
    <3>2. Contract!Move(j)
      BY <2>1, <2>3, <3>1 DEF Contract!Move
    <3>. QED  BY <3>2 DEF Contract!Next
  <2>4. CASE /\ State(requests)[j] = "approved" /\ requests'[j].status = "completed"
             /\ completions[j] = 0 /\ completions'[j] = 1
    <3>1. completions' = [completions EXCEPT ![j] = 1]
      BY <1>1, <2>2, <2>4
    <3>2. Contract!Use(j)
      BY <2>1, <2>4, <3>1 DEF Contract!Use
    <3>. QED  BY <3>2 DEF Contract!Next
  <2>5. CASE Inserted(j)
    BY <2>3, <2>5 DEF Inserted, Contract!After
  <2>6. CASE Expires(j)
    BY <2>3, <2>6 DEF Expires, Live, Contract!After
  <2>7. CASE Moves(j)
    <3>1. PICK o \in {"approve", "reject", "complete"} :
            /\ requests[j] # None /\ Allowed(o, requests[j])
            /\ requests'[j] # None /\ requests'[j].status = Target(o).status
            /\ IF o = "complete" THEN completions[j] = 0 /\ completions'[j] = 1
                                 ELSE completions'[j] = completions[j]
      BY <2>7 DEF Moves
    <3>2. State(requests)[j] = requests[j].status
      BY <3>1
    <3>3. CASE o = "approve"
      BY <2>3, <3>1, <3>2, <3>3 DEF Allowed, Target, Contract!After
    <3>4. CASE o = "reject"
      BY <2>3, <3>1, <3>2, <3>4 DEF Allowed, Live, Target, Contract!After
    <3>5. CASE o = "complete"
      BY <2>4, <3>1, <3>2, <3>5 DEF Allowed, Target
    <3>. QED  BY <3>1, <3>3, <3>4, <3>5
  <2>. QED  BY <1>3, <2>5, <2>6, <2>7
<1>. QED  BY <1>2, <1>3, OneRequest

\* The engine implements ADR-013's lifecycle: above all, a request is used once.
THEOREM LifecycleKept == Spec => KeepsLifecycle
<1>1. Init => Contract!Init
  BY DEF Init, Contract!Init
<1>. QED  BY <1>1, StepKeepsLifecycle, DCorrect, PTL DEF Spec, KeepsLifecycle, Contract!Spec

\* A removed policy authorises no new request.
THEOREM RemovedGrantsNothing == Spec => RemovedPolicyGrantsNothing
<1>1. DInv /\ [Next]_vars =>
        [\A k \in Key : requests[k] = None /\ requests'[k] # None =>
           policy # None /\ requests'[k].policy = policy.id]_vars
  BY OneRequest DEF Kept, Inserted, Expires, Moves
<1>. QED  BY <1>1, DCorrect, PTL DEF Spec, RemovedPolicyGrantsNothing

\* Authority given without the owner is used before it expires.
THEOREM UsedInTime == Spec => AutomaticUsedInTime
<1>1. DInv /\ [Next]_vars =>
        [\A k \in Key :
           /\ requests[k] # None /\ requests[k].reason = "automatic_threshold_met"
           /\ requests'[k].status = "completed"
           => requests'[k].changed < requests'[k].expires]_vars
  <2> SUFFICES ASSUME DInv, Next, NEW k \in Key,
                      requests[k] # None, Automatic(requests[k]),
                      requests'[k].status = "completed"
               PROVE  requests'[k].changed < requests'[k].expires
    BY DEF Automatic
  <2>1. requests[k].status = "approved"
    BY DEF DInv, RowSound
  <2>2. ~Kept(k) /\ ~Inserted(k) /\ ~Expires(k)
    BY <2>1 DEF Kept, Inserted, Expires
  <2>3. Moves(k)
    BY <2>2, OneRequest
  <2>. QED  BY <2>3 DEF Moves, Target
<1>. QED  BY <1>1, DCorrect, PTL DEF Spec, AutomaticUsedInTime

\* Authority rests on a snapshot no older than the one current when it was asked.
THEOREM AskedFresh == Spec => FreshWhenAsked
<1>1. DInv /\ [Next]_vars =>
        [\A p \in Proc, k \in Key :
           /\ requests[k] = None /\ requests'[k] # None
           /\ handlers[p] # None /\ handlers'[p] = None
           => requests'[k].version >= handlers[p].asked]_vars
  <2> SUFFICES ASSUME DInv, Next, NEW p \in Proc, NEW k \in Key,
                      requests[k] = None, requests'[k] # None,
                      handlers[p] # None, handlers'[p] = None
               PROVE  requests'[k].version >= handlers[p].asked
    OBVIOUS
  <2>1. Inserted(k)
    BY OneRequest DEF Kept, Expires, Moves
  <2>2. handlers \in [Proc -> Handler \cup {None}]
    BY DEF DInv, TypeOK
  <2>. QED  BY <2>1, <2>2 DEF Inserted
<1>. QED  BY <1>1, DCorrect, PTL DEF Spec, FreshWhenAsked

-----------------------------------------------------------------------------
\* Every completion, of a request that the owner approved as well, is stored
\* before the request expires: what _refresh_expiry is called for.
CompletedInTime ==
  [][\A k \in Key :
       /\ requests[k] # None /\ requests[k].status # "completed"
       /\ requests'[k].status = "completed"
       => requests'[k].changed < requests'[k].expires]_vars

\* The hypothesis: the owner approves no request that a completion has read and
\* has yet to check for its expiry.
NoApprovalUnderCompletion ==
  [][\A p \in Proc :
       /\ At(p, "refresh") /\ handlers[p].op = "complete"
       /\ requests[handlers[p].key].status = "pending"
       => requests'[handlers[p].key].status # "approved"]_vars

\* A completion that may find its request approved has read it approved, and
\* one that will complete it began before the expiry.
InTime(p) ==
  LET h == handlers[p]
  IN  h # None /\ h.op = "complete" =>
        /\ h.at = "refresh" /\ requests[h.key].status = "approved" => h.seen.status = "approved"
        /\ h.at = "transition" => h.now < requests[h.key].expires

\* A thread comes to its expiry check by a read and to its update by the check.
LEMMA CompletingMoves ==
  ASSUME DInv, Next, NEW p \in Proc, handlers'[p] # None, handlers'[p].at \in {"refresh", "transition"}
  PROVE  handlers'[p] = handlers[p] \/ ReadRow(p) \/ Refresh(p)
<1>0. handlers \in [Proc -> Handler \cup {None}]
  BY DEF DInv, TypeOK
<1>1. ASSUME NEW q \in Proc, Done(q) PROVE handlers'[p] = handlers[p]
  BY <1>0, <1>1 DEF Done
<1>2. ASSUME NEW q \in Proc,
             \/ \E op \in Operation, k \in Key, l \in Label \cup {None} : Begin(q, op, k, l)
             \/ \E r \in Proposal : BeginSetPolicy(q, r)
      PROVE  handlers'[p] = handlers[p]
  BY <1>0, <1>2 DEF Begin, BeginSetPolicy
<1>3. ASSUME NEW q \in Proc, ReadPolicy(q) \/ ReadPrediction(q) \/ ReadSnapshot(q)
      PROVE  handlers'[p] = handlers[p]
  BY <1>0, <1>1, <1>3 DEF ReadPolicy, ReadPrediction, ReadSnapshot, Goto, At, Handler
<1>4. ASSUME NEW q \in Proc, Transition(q) \/ Insert(q) \/ Upsert(q) \/ Fail(q)
      PROVE  handlers'[p] = handlers[p]
  BY <1>1, <1>4 DEF Transition, Insert, Upsert, Fail
<1>5. ASSUME NEW q \in Proc, q # p, ReadRow(q) \/ Refresh(q) PROVE handlers'[p] = handlers[p]
  BY <1>0, <1>5 DEF ReadRow, Refresh, Goto, Done
<1>6. ASSUME RemovePolicy \/ Rebuild \/ Predict \/ Tick PROVE handlers' = handlers
  BY <1>6 DEF RemovePolicy, Rebuild, Predict, Tick
<1>. QED  BY <1>2, <1>3, <1>4, <1>5, <1>6 DEF Next

LEMMA InTimeStep ==
  DInv /\ DInv' /\ (\A p \in Proc : InTime(p)) /\ [Next]_vars
  /\ [\A p \in Proc :
        /\ At(p, "refresh") /\ handlers[p].op = "complete"
        /\ requests[handlers[p].key].status = "pending"
        => requests'[handlers[p].key].status # "approved"]_vars
  => (\A p \in Proc : InTime(p))'
<1> SUFFICES ASSUME DInv, DInv', \A p \in Proc : InTime(p), [Next]_vars,
                    [\A p \in Proc :
                       /\ At(p, "refresh") /\ handlers[p].op = "complete"
                       /\ requests[handlers[p].key].status = "pending"
                       => requests'[handlers[p].key].status # "approved"]_vars,
                    NEW p \in Proc
             PROVE  InTime(p)'
  OBVIOUS
<1>1. CASE UNCHANGED vars
  BY <1>1 DEF InTime, vars
<1>2. CASE Next /\ vars' # vars
  <2> DEFINE h == handlers[p]
             g == handlers'[p]
  <2> SUFFICES ASSUME g # None, g.op = "complete", g.at \in {"refresh", "transition"}
               PROVE  /\ g.at = "refresh" /\ requests'[g.key].status = "approved" => g.seen.status = "approved"
                      /\ g.at = "transition" => g.now < requests'[g.key].expires
    BY DEF InTime
  <2>1. /\ requests \in [Key -> Row \cup {None}] /\ handlers \in [Proc -> Handler \cup {None}]
        /\ \A q \in Proc : handlers[q] # None => handlers[q] \in Handler /\ Sound(handlers[q], requests, snapshot)
        /\ g \in Handler /\ Sound(g, requests', snapshot')
    BY DEF DInv, TypeOK
  <2>2. g.key \in Key /\ Seen(g, requests')
    BY <2>1 DEF Sound
  <2>3. CASE g = h
    <3>1. h # None /\ h.op = "complete" /\ Seen(h, requests) /\ InTime(p)
      BY <2>1, <2>3 DEF Sound
    <3>2. requests'[h.key].expires = requests[h.key].expires /\ requests[h.key] # None
      BY <2>2, <2>3, <3>1 DEF Seen
    <3>3. ASSUME h.at = "refresh", requests'[h.key].status = "approved"
          PROVE  requests[h.key].status = "approved"
      <4>1. requests[h.key].status # "pending"
        BY <1>2, <2>3, <3>3 DEF At
      <4>2. Kept(h.key) \/ Inserted(h.key) \/ Expires(h.key) \/ Moves(h.key)
        BY <1>2, <2>2, <2>3, OneRequest
      <4>3. ~Inserted(h.key) /\ ~Expires(h.key)
        BY <3>2, <3>3 DEF Inserted, Expires
      <4>4. ASSUME Moves(h.key) PROVE FALSE
        BY <3>3, <4>1, <4>4 DEF Moves, Allowed, Target
      <4>. QED  BY <3>2, <3>3, <4>2, <4>3, <4>4 DEF Kept
    <3>. QED  BY <2>3, <3>1, <3>2, <3>3 DEF InTime
  <2>4. CASE ReadRow(p)
    <3>1. h \in Handler /\ h # None /\ requests' = requests /\ g # h
      BY <2>1, <2>4 DEF ReadRow, At
    <3>2. g.at = "refresh" /\ g.key = h.key /\ g.seen = requests[h.key]
      BY <2>1, <2>4, <3>1 DEF ReadRow, Goto, Done, Handler
    <3>. QED  BY <3>1, <3>2
  <2>5. CASE Refresh(p)
    <3> DEFINE row == requests[h.key]
               after == IF Lapsed(h.seen, h.now)
                        THEN IF row.status = h.seen.status THEN Moved(row, Expired, h.now) ELSE row
                        ELSE h.seen
    <3>1. h \in Handler /\ h # None /\ h.at = "refresh" /\ Sound(h, requests, snapshot) /\ Seen(h, requests)
      BY <2>1, <2>5 DEF Refresh, At, Sound
    <3>2. /\ Allowed(h.op, after) /\ g = [h EXCEPT !.at = "transition", !.seen = after]
          /\ requests' = IF Lapsed(h.seen, h.now) THEN [requests EXCEPT ![h.key] = after] ELSE requests
      BY <2>1, <2>5 DEF Refresh, Done
    <3> HIDE DEF after
    <3>3. /\ g.at = "transition" /\ g.key = h.key /\ g.now = h.now /\ h.op = "complete"
          /\ after.status = "approved"
      BY <3>1, <3>2 DEF Handler, Allowed
    <3>4. row \in Row /\ h.seen \in Row /\ h.now \in 0..MaxClock
      BY <2>1, <2>2, <3>1, <3>3 DEF Seen, Handler
    <3>5. ~Lapsed(h.seen, h.now)
      <4>1. SUFFICES ASSUME Lapsed(h.seen, h.now) PROVE FALSE
        OBVIOUS
      <4>2. CASE row.status = h.seen.status
        <5>1. after.status = "expired"
          BY <3>4, <4>1, <4>2, MovedRow DEF after, Expired
        <5>. QED  BY <3>3, <5>1
      <4>3. CASE row.status # h.seen.status
        <5>1. row.status = "approved"
          BY <3>3, <4>1, <4>3 DEF after
        <5>2. InTime(p)
          OBVIOUS
        <5>. QED  BY <3>1, <3>3, <4>3, <5>1, <5>2 DEF InTime
      <4>. QED  BY <4>2, <4>3
    <3>6. after = h.seen /\ requests' = requests
      BY <3>2, <3>5 DEF after
    <3>7. h.now < h.seen.expires
      BY <3>3, <3>4, <3>5, <3>6, DelegationAssumption DEF Lapsed, Live, Row
    <3>. QED  BY <3>1, <3>3, <3>6, <3>7 DEF Seen
  <2>. QED  BY <1>2, <2>3, <2>4, <2>5, CompletingMoves
<1>. QED  BY <1>1, <1>2

LEMMA CompletionInTime ==
  DInv /\ (\A p \in Proc : InTime(p)) /\ [Next]_vars
  => [\A k \in Key :
        /\ requests[k] # None /\ requests[k].status # "completed"
        /\ requests'[k].status = "completed"
        => requests'[k].changed < requests'[k].expires]_vars
<1> SUFFICES ASSUME DInv, \A p \in Proc : InTime(p), Next, NEW k \in Key,
                    requests[k] # None, requests[k].status # "completed",
                    requests'[k].status = "completed"
             PROVE  requests'[k].changed < requests'[k].expires
  OBVIOUS
<1>1. requests \in [Key -> Row \cup {None}] /\ requests' # requests
  BY DEF DInv, TypeOK
<1>2. ~RemovePolicy
  BY RemovalEffect
<1>3. ASSUME NEW p \in Proc, Transition(p) PROVE requests'[k].changed < requests'[k].expires
  <2> DEFINE h == handlers[p]
             row == requests[h.key]
             new == Moved(row, Target(h.op), h.now)
  <2>1. row.status = h.seen.status
    BY <1>1, <1>3 DEF Transition
  <2>2. /\ h.key \in Key /\ requests' = [requests EXCEPT ![h.key] = new]
        /\ new.status = Target(h.op).status /\ new.expires = row.expires /\ new.changed = h.now
        /\ h.op \in {"approve", "reject", "complete"}
    BY <1>3, <2>1, TransitionEffect
  <2> HIDE DEF new
  <2>3. h.key = k /\ requests'[k] = new
    BY <1>1, <2>2
  <2>4. h.op = "complete" /\ h.at = "transition" /\ h # None
    BY <1>3, <2>2, <2>3 DEF Target, Transition, At
  <2>. QED  BY <2>2, <2>3, <2>4 DEF InTime
<1>4. ASSUME NEW p \in Proc, Insert(p) PROVE FALSE
  BY <1>1, <1>4 DEF Insert
<1>5. ASSUME NEW p \in Proc, Refresh(p) PROVE FALSE
  <2>1. Kept(k) \/ Inserted(k) \/ Expires(k) \/ Moves(k)
    BY OneRequest
  <2>2. completions' = completions
    BY <1>5 DEF Refresh
  <2>3. ~Kept(k) /\ ~Inserted(k) /\ ~Expires(k)
    BY DEF Kept, Inserted, Expires
  <2>4. ASSUME Moves(k) PROVE completions[k] # completions'[k]
    BY <2>4 DEF Moves, Target
  <2>. QED  BY <2>1, <2>2, <2>3, <2>4
<1>6. \E p \in Proc : Refresh(p) \/ Transition(p) \/ Insert(p)
  BY <1>1, <1>2 DEF Next, Begin, ReadRow, ReadPolicy, ReadPrediction, ReadSnapshot, BeginSetPolicy,
              Upsert, Fail, Rebuild, Predict, Tick
<1>. QED  BY <1>3, <1>4, <1>5, <1>6

\* A request that is completed after its expiry has one cause: the owner's
\* approval between the completion's read of it and the expiry check.
THEOREM LateHasOneCause == Spec /\ NoApprovalUnderCompletion => CompletedInTime
<1>1. Init => \A p \in Proc : InTime(p)
  BY DEF Init, InTime
<1>. QED  BY <1>1, InTimeStep, CompletionInTime, DCorrect, PTL
          DEF Spec, NoApprovalUnderCompletion, CompletedInTime
=============================================================================
