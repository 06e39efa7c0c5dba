----------------------------- MODULE Delegation -----------------------------
(***************************************************************************)
(* The delegation policy engine (DelegationPolicyEngine) over its SQLite   *)
(* tables, for one external agent and one action type: rows of other       *)
(* agents and actions are disjoint from these.  Handlers run on threads of *)
(* the daemon; every SELECT and every transaction is a step, and a handler *)
(* may die between any two of them.                                        *)
(*                                                                         *)
(* Requests whose lookup fails before they touch a row (another agent's    *)
(* id, an unknown id) change nothing and are left out.                     *)
(***************************************************************************)
EXTENDS Naturals

CONSTANTS Proc,         \* handler threads
          Key,          \* external request ids
          Operation,    \* operations used, of those in Operations
          Label,        \* what else a request says: decision and action label
          Proposal,     \* policies the owner tries to set
          Confidence,   \* confidences, in hundredths, of predictions
          TTL,          \* DEFAULT_DELEGATION_TTL
          MaxClock,     \* bound on the clock
          MaxSnapshot,  \* bound on Personal Model snapshot versions
          MaxPolicy,    \* bound on policy ids; 0 stands for NULL
          None          \* no row

Impact == {"low", "medium", "high", "safety_critical"}

Operations == {"request", "get", "approve", "reject", "complete"}

ASSUME DelegationAssumption ==
  /\ Operation \subseteq Operations
  /\ Proposal \subseteq [impact : Impact, minimum : 0..100, automatic : BOOLEAN]
  /\ Confidence \subseteq Nat
  /\ {TTL, MaxSnapshot} \subseteq Nat \ {0} /\ {MaxClock, MaxPolicy} \subseteq Nat
  /\ None \notin Label

VARIABLES clock,
          policy,      \* the owner's policy row
          policyIds,   \* policy ids used so far
          snapshot,    \* version of the latest snapshot
          prediction,  \* the decision's latest prediction
          requests,    \* the row of each external request id
          completions, \* successful answers to complete() for each of them
          handlers     \* what each thread is doing; None: nothing

environment == <<clock, snapshot, prediction>>
policies == <<policy, policyIds>>
vars == <<environment, policies, requests, completions, handlers>>

-----------------------------------------------------------------------------
\* IMPACT_CONFIDENCE_FLOORS
Floor == [i \in Impact |-> CASE i = "low" -> 90 [] i = "medium" -> 95 [] OTHER -> 100]
NeedsOwner == {"high", "safety_critical"}

\* set_policy and DelegationPolicy refuse every other policy.
Accepted(q) == q.minimum >= Floor[q.impact] /\ ~(q.automatic /\ q.impact \in NeedsOwner)

\* Fault: the confidence is not compared with the threshold.
ClassifyByImpact(q, confidence) ==
  IF q.impact \notin NeedsOwner /\ q.automatic
  THEN [status |-> "approved", reason |-> "automatic_threshold_met"]
  ELSE [status |-> "pending", reason |-> "owner_approval_required"]

\* "owner_approval_required" stands for the three reasons to wait for the owner.
Classify(q, confidence) ==
  IF q.impact \notin NeedsOwner /\ q.automatic /\ confidence >= q.minimum
  THEN [status |-> "approved", reason |-> "automatic_threshold_met"]
  ELSE [status |-> "pending", reason |-> "owner_approval_required"]

Live(row) == row.status \in {"pending", "approved"}

\* Fault: the last instant counts as unexpired.
LapsedLate(row, at) == Live(row) /\ at > row.expires

Lapsed(row, at) == Live(row) /\ at >= row.expires

\* What review and complete ask of the row they read, and what they write.
Allowed(o, row) ==
  CASE o = "approve"  -> row.status = "pending"
    [] o = "reject"   -> Live(row)
    [] o = "complete" -> row.status = "approved"
    [] OTHER          -> FALSE
Target(o) ==
  CASE o = "approve"  -> [status |-> "approved", reason |-> "owner_approved"]
    [] o = "reject"   -> [status |-> "rejected", reason |-> "owner_rejected"]
    [] OTHER          -> [status |-> "completed", reason |-> "agent_completed"]

\* transition: the row moves only from the expected status.
Moved(row, to, at) ==
  [row EXCEPT !.status = to.status, !.reason = to.reason, !.changed = at]
Expired == [status |-> "expired", reason |-> "request_expired"]

Init ==
  /\ clock = 0 /\ snapshot = 1 /\ policyIds = 0
  /\ policy = None /\ prediction = None
  /\ requests = [k \in Key |-> None]
  /\ completions = [k \in Key |-> 0]
  /\ handlers = [p \in Proc |-> None]

At(p, step) == handlers[p] # None /\ handlers[p].at = step
Goto(p, step) == handlers' = [handlers EXCEPT ![p].at = step]
Done(p) == handlers' = [handlers EXCEPT ![p] = None]

-----------------------------------------------------------------------------
\* A handler notes the time.  asked is a history of the version then current.
Begin(p, op, k, l) ==
  /\ handlers[p] = None
  /\ l = None <=> op # "request"
  /\ handlers' = [handlers EXCEPT ![p] =
       [at |-> "row", op |-> op, key |-> k, label |-> l, now |-> clock,
        asked |-> IF op = "request" THEN snapshot ELSE 0,
        seen |-> None, read |-> None, found |-> None]]
  /\ UNCHANGED <<environment, policies, requests, completions>>

\* request finds its external id used: idempotent for the same content only.
\* The other handlers need the row.
ReadRow(p) ==
  /\ At(p, "row")
  /\ LET h == handlers[p]
         row == requests[h.key]
     IN  \/ /\ row # None
            /\ h.op # "request" \/ row.label = h.label
            /\ handlers' = [handlers EXCEPT ![p].at = "refresh", ![p].seen = row,
                                            ![p].asked = 0]
         \/ /\ row # None
            /\ h.op = "request" /\ row.label # h.label
            /\ Done(p)
         \/ /\ row = None
            /\ IF h.op = "request" THEN Goto(p, "policy") ELSE Done(p)
  /\ UNCHANGED <<environment, policies, requests, completions>>

\* _refresh_expiry: a lapsed row expires unless it has moved since it was read;
\* then it is read again.  A row never moves back to a status it has left, so
\* the read may be taken together with the failed update.
Refresh(p) ==
  /\ At(p, "refresh")
  /\ LET h == handlers[p]
         row == requests[h.key]
         after == IF Lapsed(h.seen, h.now)
                  THEN IF row.status = h.seen.status THEN Moved(row, Expired, h.now) ELSE row
                  ELSE h.seen
     IN  /\ requests' = IF Lapsed(h.seen, h.now) THEN [requests EXCEPT ![h.key] = after]
                                                 ELSE requests
         /\ IF Allowed(h.op, after)
            THEN handlers' = [handlers EXCEPT ![p].at = "transition", ![p].seen = after]
            ELSE Done(p)
  /\ UNCHANGED <<environment, policies, completions>>

\* Fault: transition updates the row whatever its status is now.
TransitionAny(p) ==
  /\ At(p, "transition")
  /\ LET h == handlers[p]
         row == requests[h.key]
     IN  /\ requests' = [requests EXCEPT ![h.key] = Moved(row, Target(h.op), h.now)]
         /\ completions' = IF h.op = "complete" THEN [completions EXCEPT ![h.key] = @ + 1]
                                                ELSE completions
  /\ Done(p)
  /\ UNCHANGED <<environment, policies>>

\* review and complete: one UPDATE that succeeds from the status read only.
Transition(p) ==
  /\ At(p, "transition")
  /\ LET h == handlers[p]
         row == requests[h.key]
     IN  \/ /\ row.status = h.seen.status
            /\ requests' = [requests EXCEPT ![h.key] = Moved(row, Target(h.op), h.now)]
            /\ completions' = IF h.op = "complete" THEN [completions EXCEPT ![h.key] = @ + 1]
                                                   ELSE completions
         \/ /\ row.status # h.seen.status
            /\ UNCHANGED <<requests, completions>>
  /\ Done(p)
  /\ UNCHANGED <<environment, policies>>

-----------------------------------------------------------------------------
\* request, continued: the policy, the prediction and the snapshot are read one
\* after the other, each with its refusal.
ReadPolicy(p) ==
  /\ At(p, "policy")
  /\ IF policy = None THEN Done(p)
     ELSE handlers' = [handlers EXCEPT ![p].at = "prediction", ![p].read = policy]
  /\ UNCHANGED <<environment, policies, requests, completions>>

ReadPrediction(p) ==
  /\ At(p, "prediction")
  /\ IF prediction = None THEN Done(p)
     ELSE handlers' = [handlers EXCEPT ![p].at = "snapshot", ![p].found = prediction]
  /\ UNCHANGED <<environment, policies, requests, completions>>

ReadSnapshot(p) ==
  /\ At(p, "snapshot")
  /\ IF handlers[p].found.version = snapshot THEN Goto(p, "insert") ELSE Done(p)
  /\ UNCHANGED <<environment, policies, requests, completions>>

NewRow(h) ==
  LET outcome == Classify(h.read, h.found.confidence)
  IN  [label |-> h.label, policy |-> h.read.id, impact |-> h.read.impact,
       confidence |-> h.found.confidence, version |-> h.found.version,
       status |-> outcome.status, reason |-> outcome.reason,
       expires |-> h.now + TTL, changed |-> h.now]

\* Fault: the policy's row is not required to exist any more.
InsertUnbound(p) ==
  /\ At(p, "insert")
  /\ LET h == handlers[p]
     IN  requests' = IF requests[h.key] = None
                     THEN [requests EXCEPT ![h.key] = NewRow(h)] ELSE requests
  /\ Done(p)
  /\ UNCHANGED <<environment, policies, completions>>

\* The INSERT needs the external id free (unique index) and the policy stored
\* (foreign key); otherwise the handler fails and nothing is written.
Insert(p) ==
  /\ At(p, "insert")
  /\ LET h == handlers[p]
     IN  requests' = IF requests[h.key] = None /\ policy # None /\ policy.id = h.read.id
                     THEN [requests EXCEPT ![h.key] = NewRow(h)] ELSE requests
  /\ Done(p)
  /\ UNCHANGED <<environment, policies, completions>>

-----------------------------------------------------------------------------
\* The owner sets the policy: the stored id is read first, a fresh one used
\* when there is none, and the row is inserted or updated in place.
BeginSetPolicy(p, q) ==
  /\ handlers[p] = None
  /\ Accepted(q)
  /\ policy = None => policyIds < MaxPolicy
  /\ policyIds' = IF policy = None THEN policyIds + 1 ELSE policyIds
  /\ handlers' = [handlers EXCEPT ![p] =
       [at |-> "upsert", op |-> "set_policy", key |-> None, label |-> None, now |-> 0,
        asked |-> 0, seen |-> None, found |-> None,
        read |-> [id |-> IF policy = None THEN policyIds + 1 ELSE policy.id,
                  impact |-> q.impact, minimum |-> q.minimum, automatic |-> q.automatic]]]
  /\ UNCHANGED <<environment, policy, requests, completions>>

Upsert(p) ==
  /\ At(p, "upsert")
  /\ policy' = IF policy = None THEN handlers[p].read
               ELSE [handlers[p].read EXCEPT !.id = policy.id]
  /\ Done(p)
  /\ UNCHANGED <<environment, policyIds, requests, completions>>

\* One DELETE; ON DELETE SET NULL leaves the requests of the policy behind.
RemovePolicy ==
  /\ policy # None
  /\ policy' = None
  /\ requests' = [k \in Key |-> IF requests[k] # None /\ requests[k].policy = policy.id
                                THEN [requests[k] EXCEPT !.policy = 0] ELSE requests[k]]
  /\ UNCHANGED <<environment, policyIds, completions, handlers>>

\* Rebuilds elsewhere store new snapshots; predict stores a prediction made
\* from a snapshot that was the latest when it read it.
Rebuild ==
  /\ snapshot < MaxSnapshot
  /\ snapshot' = snapshot + 1
  /\ UNCHANGED <<clock, prediction, policies, requests, completions, handlers>>

Predict ==
  /\ \E v \in 1..snapshot, c \in Confidence : prediction' = [version |-> v, confidence |-> c]
  /\ UNCHANGED <<clock, snapshot, policies, requests, completions, handlers>>

Tick ==
  /\ clock < MaxClock
  /\ clock' = clock + 1
  /\ UNCHANGED <<snapshot, prediction, policies, requests, completions, handlers>>

\* The thread's request ends without an answer: an error, or the daemon dies.
Fail(p) ==
  /\ handlers[p] # None
  /\ Done(p)
  /\ UNCHANGED <<environment, policies, requests, completions>>

Next ==
  \/ \E p \in Proc :
       \/ \E op \in Operation, k \in Key, l \in Label \cup {None} : Begin(p, op, k, l)
       \/ ReadRow(p) \/ Refresh(p) \/ Transition(p)
       \/ ReadPolicy(p) \/ ReadPrediction(p) \/ ReadSnapshot(p) \/ Insert(p)
       \/ \E q \in Proposal : BeginSetPolicy(p, q)
       \/ Upsert(p) \/ Fail(p)
  \/ RemovePolicy \/ Rebuild \/ Predict \/ Tick

Spec == Init /\ [][Next]_vars

-----------------------------------------------------------------------------
Policy == [id : 1..MaxPolicy, impact : Impact, minimum : 90..100, automatic : BOOLEAN]
Prediction == [version : 1..MaxSnapshot, confidence : Confidence]
Row == [label : Label, policy : 0..MaxPolicy, impact : Impact, confidence : Confidence,
        version : 1..MaxSnapshot,
        status : {"pending", "approved", "rejected", "completed", "expired"},
        reason : {"automatic_threshold_met", "owner_approval_required", "owner_approved",
                  "owner_rejected", "agent_completed", "request_expired"},
        expires : 1..MaxClock + TTL, changed : 0..MaxClock]
Handler == [at : {"row", "refresh", "transition", "policy", "prediction", "snapshot",
                  "insert", "upsert"},
            op : Operations \cup {"set_policy"}, key : Key \cup {None},
            label : Label \cup {None}, now : 0..MaxClock, asked : 0..MaxSnapshot,
            seen : Row \cup {None}, read : Policy \cup {None}, found : Prediction \cup {None}]

\* No row is None.
ASSUME NoneAssumption == None \notin Policy \cup Prediction \cup Row \cup Handler

\* Every variable has its type, the stored policy a threshold at or above the
\* lowest floor.
TypeOK ==
  /\ clock \in 0..MaxClock /\ snapshot \in 1..MaxSnapshot /\ policyIds \in 0..MaxPolicy
  /\ policy \in Policy \cup {None} /\ prediction \in Prediction \cup {None}
  /\ requests \in [Key -> Row \cup {None}]
  /\ completions \in [Key -> Nat]
  /\ handlers \in [Proc -> Handler \cup {None}]

\* ADR-013, impact and confidence: whatever the owner changed while the handler
\* ran, a request that was approved without the owner carries an impact that
\* allows it and a confidence at or above that impact's floor.
AutomaticWithinFloor ==
  \A k \in Key :
    requests[k] # None /\ requests[k].reason = "automatic_threshold_met" =>
      /\ requests[k].impact \notin NeedsOwner
      /\ requests[k].confidence >= Floor[requests[k].impact]

\* phase-12-report, P12-T11: a request that was approved without the owner is
\* used before its expiry or not at all, however handlers and clock interleave.
AutomaticUsedInTime ==
  [][\A k \in Key :
       /\ requests[k] # None /\ requests[k].reason = "automatic_threshold_met"
       /\ requests'[k].status = "completed"
       => requests'[k].changed < requests'[k].expires]_vars

\* phase-12-report, P12-T06: authority never rests on a prediction from a
\* snapshot older than the one that was current when the agent asked.
FreshWhenAsked ==
  [][\A p \in Proc, k \in Key :
       /\ requests[k] = None /\ requests'[k] # None
       /\ handlers[p] # None /\ handlers'[p] = None
       => requests'[k].version >= handlers[p].asked]_vars

\* phase-12-report, P12-T13: a removed policy authorises no new request, not
\* even one whose handler read it before the removal.
RemovedPolicyGrantsNothing ==
  [][\A k \in Key : requests[k] = None /\ requests'[k] # None =>
       policy # None /\ requests'[k].policy = policy.id]_vars

\* ADR-013's lifecycle, above all that an approved request completes once.
Contract == INSTANCE DelegationContract WITH
              state <- [k \in Key |-> IF requests[k] = None THEN "absent"
                                      ELSE requests[k].status],
              uses <- completions
KeepsLifecycle == Contract!Spec
=============================================================================
