----------------------------- MODULE DecisionIo -----------------------------
(***************************************************************************)
(* Decision I/O: agents report decisions, choices and results over sources *)
(* the owner approved; the owner confirms or rejects what they observed    *)
(* and removes sources (DecisionIoService, decision_io_api.py, over        *)
(* SqliteDecisionIoRepository).  Handlers run on threads and may die; a    *)
(* SELECT before the first write is a step, a write transaction is a step. *)
(*                                                                         *)
(* A raw event is named after the report it stores, a decision after its   *)
(* source and external id; ids of removed sources are not used again.      *)
(* Rebuilds, audit records and the deletion of outcomes are left out.      *)
(***************************************************************************)
EXTENDS EventPolicy, FiniteSets

CONSTANTS Proc,     \* request threads
          Source,   \* ids of sources
          Grant,    \* Grant[s]: the provenance the owner approves for s
          Report,   \* what agents report, any number of times
          Option,   \* options of reported choices
          Offered   \* the options that decisions are reported with

ASSUME GrantAssumption == \A s \in Source : Grant[s] \in Registered \cup {Compatibility}

Decision == {<<r.source, r.decision>> : r \in {q \in Report : q.type = "decision_candidate"}}

\* A wellbeing report names a stored decision, the others an external id.
ASSUME ReportAssumption ==
  \A r \in Report :
    /\ r.source \in Source /\ r.actor \in EventActorType
    /\ \/ r.type \in ResolutionTypes /\ r.option \in Option
       \/ r.type = "technical_outcome" /\ r.content \in TechnicalOutcomeStatus
       \/ r.type = "user_outcome" /\ r.content \in UserDisposition
       \/ r.type \in DecisionIoEventType \ (ResolutionTypes \cup OutcomeTypes)
       \/ r.type = "wellbeing" /\ r.decision \in Decision /\ Grant[r.source] = Compatibility

\* Rows as the tables hold them: an observation of a choice or of a result.
Resolution == [option : Offered, event : Report \cup {None}]
DecisionRow == [event : Report, resolution : Resolution \cup {None}]
ExternalId == {r.decision : r \in {q \in Report : q.type # "wellbeing"}}
Wellbeing == {r.content : r \in {q \in Report : q.type = "wellbeing"}}
ChoiceRow ==
  [kind : {"choice"}, decision : Decision \cup {None}, external : ExternalId,
   option : Option \cup {None}, status : ObservationStatus, confirmed : BOOLEAN]
OutcomeRow ==
  [kind : OutcomeKind, decision : Decision \cup {None}, external : ExternalId \cup {None},
   status : ObservationStatus, confirmed : BOOLEAN,
   technical : TechnicalOutcomeStatus \cup {None}, disposition : UserDisposition \cup {None},
   satisfaction : Wellbeing \cup {None}, regret : Wellbeing \cup {None}]

\* Where a handler stands, the report it is about, and what it has read.
Handler ==
  [at : {"find", "ingest", "decision", "expected", "confirm", "outcome", "mark", "reject"},
   report : Report, found : {"none", "open", "resolved"}, seen : ChoiceRow \cup OutcomeRow \cup {None}]

ASSUME NoneAssumption ==
  /\ None \notin Report /\ None \notin Decision /\ None \notin ExternalId
  /\ None \notin Option /\ None \notin Wellbeing
  /\ None \notin TechnicalOutcomeStatus /\ None \notin UserDisposition
  /\ None \notin Resolution /\ None \notin DecisionRow
  /\ None \notin ChoiceRow /\ None \notin OutcomeRow /\ None \notin Handler

VARIABLES sources,      \* "new", "live" or "gone"
          events,       \* stored raw events
          decisions,    \* decision rows with their resolutions
          observations, \* the observation of each event
          evidence,     \* choice evidence
          outcomes,     \* decisions with an outcome of the owner's
          handlers

tables == <<sources, events, decisions, observations, evidence, outcomes>>
vars == <<tables, handlers>>

Init ==
  /\ sources = [s \in Source |-> "new"]
  /\ events = {} /\ evidence = {} /\ outcomes = {}
  /\ decisions = [d \in Decision |-> None]
  /\ observations = [r \in Report |-> None]
  /\ handlers = [p \in Proc |-> None]

At(p, step) == handlers[p] # None /\ handlers[p].at = step
Goto(p, step) == handlers' = [handlers EXCEPT ![p].at = step]
Done(p) == handlers' = [handlers EXCEPT ![p] = None]
Start(p, step, r, seen) ==
  handlers' = [handlers EXCEPT ![p] = [at |-> step, report |-> r, found |-> "none", seen |-> seen]]

IsChoice(r) == r.type \in ResolutionTypes
IsResult(r) == r.type \in OutcomeTypes \cup {"wellbeing"}

\* What find_decision_by_external_id returns of a decision.
Status(d) == IF d \notin Decision \/ decisions[d] = None THEN "none"
             ELSE IF decisions[d].resolution = None THEN "open" ELSE "resolved"
About(r) == IF r.type = "wellbeing" THEN r.decision ELSE <<r.source, r.decision>>

-----------------------------------------------------------------------------
\* register_source
RegisterSource(s) ==
  /\ sources[s] = "new" /\ Grant[s] \in Registered
  /\ sources' = [sources EXCEPT ![s] = "live"]
  /\ UNCHANGED <<events, decisions, observations, evidence, outcomes, handlers>>

\* record_event: the source, then classify_event.
BeginReport(p, r) ==
  /\ handlers[p] = None /\ r.type # "wellbeing"
  /\ sources[r.source] = "live"
  /\ Accepts(Grant[r.source], r.type, r.actor)
  /\ Start(p, "find", r, None)
  /\ UNCHANGED tables

\* external_record_outcome: about a resolved decision, of any source; the
\* compatibility source is added by the first report.
BeginWellbeing(p, r) ==
  /\ handlers[p] = None /\ r.type = "wellbeing"
  /\ sources[r.source] # "gone"
  /\ Status(r.decision) = "resolved"
  /\ sources' = [sources EXCEPT ![r.source] = "live"]
  /\ handlers' = [handlers EXCEPT ![p] =
       [at |-> "ingest", report |-> r, found |-> "resolved", seen |-> None]]
  /\ UNCHANGED <<events, decisions, observations, evidence, outcomes>>

\* A choice of an option the stored decision does not have is refused.
FindDecision(p) ==
  /\ At(p, "find")
  /\ LET r == handlers[p].report
         status == Status(About(r))
     IN  IF IsChoice(r) /\ status # "none" /\ r.option \notin Offered
         THEN Done(p)
         ELSE handlers' = [handlers EXCEPT ![p].at = "ingest", ![p].found = status]
  /\ UNCHANGED tables

\* ingest: an event stored under the same id, found by its first SELECT or by
\* the unique index, is a retry or a conflict; both leave the tables alone.
Replay(p) ==
  /\ At(p, "ingest")
  /\ \E e \in events : e.source = handlers[p].report.source /\ e.id = handlers[p].report.id
  /\ Done(p)
  /\ UNCHANGED tables

\* Fault: whose choice it is, is not asked for.
PromotedUnasked(r, found) == IsChoice(r) /\ found = "open"

Promoted(r, found) ==
  IsChoice(r) /\ found = "open" /\ MayPromoteResolution(Grant[r.source], r.type, r.actor)

\* _resolution_observation: the choice is of a stored option only when the
\* decision is known; _outcome_observation.
ResolutionObservation(r, found) ==
  [kind |-> "choice", decision |-> IF found = "none" THEN None ELSE About(r),
   external |-> r.decision, option |-> IF found = "none" THEN None ELSE r.option,
   status |-> IF Promoted(r, found) THEN "confirmed"
              ELSE IF found # "none" THEN "pending" ELSE "unmatched",
   confirmed |-> Promoted(r, found)]

OutcomeObservation(r, found) ==
  LET kind == IF r.type = "wellbeing" THEN "owner_reported" ELSE OutcomeKindFor(r.type)
  IN  [kind |-> kind, decision |-> IF found = "none" THEN None ELSE About(r),
       external |-> IF r.type = "wellbeing" THEN None ELSE r.decision,
       status |-> IF found # "none" THEN "pending" ELSE "unmatched", confirmed |-> FALSE,
       technical |-> IF kind = "technical" THEN r.content ELSE None,
       disposition |-> IF kind = "user_behavior" THEN r.content ELSE None,
       satisfaction |-> IF kind = "owner_reported" THEN r.content ELSE None,
       regret |-> IF kind = "owner_reported" THEN r.content ELSE None]

\* Fault: the source of an observation is not compared.
AttachAnySource(rows, d) ==
  [r \in Report |-> IF /\ rows[r] # None /\ rows[r].status = "unmatched"
                       /\ rows[r].external = d[2]
                    THEN [rows[r] EXCEPT !.decision = d, !.status = "pending"]
                    ELSE rows[r]]

\* _attach_unmatched
AttachUnmatched(rows, d) ==
  [r \in Report |-> IF /\ rows[r] # None /\ rows[r].status = "unmatched"
                       /\ r.source = d[1] /\ rows[r].external = d[2]
                    THEN [rows[r] EXCEPT !.decision = d, !.status = "pending"]
                    ELSE rows[r]]

\* What the indexes and foreign keys demand of the rows of a report.
EventInsertable(r) ==
  /\ sources[r.source] = "live"
  /\ \A e \in events : ~(e.source = r.source /\ e.id = r.id)
DecisionInsertable(r) == r.type = "decision_candidate" => decisions[About(r)] = None
ObservationInsertable(r, found) ==
  (IsChoice(r) \/ IsResult(r)) /\ found # "none" => Status(About(r)) # "none"

\* Fault: the promotion does not ask whether the decision is still open.
ApplyResolutionAgain(d, o, r) ==
  /\ decisions[d] # None
  /\ decisions' = [decisions EXCEPT ![d].resolution = [option |-> o, event |-> r]]
  /\ evidence' = evidence \cup {[decision |-> d, option |-> o, event |-> r]}

\* _apply_resolution: resolution, status and evidence are of one transaction.
ApplyResolution(d, o, r) ==
  /\ Status(d) = "open" /\ o \in Offered
  /\ decisions' = [decisions EXCEPT ![d].resolution = [option |-> o, event |-> r]]
  /\ evidence' = evidence \cup {[decision |-> d, option |-> o, event |-> r]}

\* ingest, its transaction: event, decision, observations that waited for it,
\* observation, and a promoted choice with its evidence; or nothing.
Ingest(p) ==
  /\ At(p, "ingest")
  /\ LET r == handlers[p].report
         found == handlers[p].found
     IN  /\ EventInsertable(r) /\ DecisionInsertable(r) /\ ObservationInsertable(r, found)
         /\ events' = events \cup {r}
         /\ \/ /\ IsChoice(r)
               /\ observations' = [observations EXCEPT ![r] = ResolutionObservation(r, found)]
               /\ IF Promoted(r, found) THEN ApplyResolution(About(r), r.option, r)
                                        ELSE UNCHANGED <<decisions, evidence>>
            \/ /\ IsResult(r)
               /\ observations' = [observations EXCEPT ![r] = OutcomeObservation(r, found)]
               /\ UNCHANGED <<decisions, evidence>>
            \/ /\ r.type = "decision_candidate"
               /\ decisions' = [decisions EXCEPT ![About(r)] = [event |-> r, resolution |-> None]]
               /\ observations' = AttachUnmatched(observations, About(r))
               /\ UNCHANGED evidence
            \/ /\ ~IsChoice(r) /\ ~IsResult(r) /\ r.type # "decision_candidate"
               /\ UNCHANGED <<decisions, observations, evidence>>
  /\ Done(p)
  /\ UNCHANGED <<sources, outcomes>>

-----------------------------------------------------------------------------
\* confirm_observation and confirm_resolution: a matched, pending choice of a
\* decision that is not resolved.  One without an option is refused as changed.
BeginConfirm(p, r) ==
  /\ handlers[p] = None /\ IsChoice(r)
  /\ observations[r] # None /\ observations[r].status = "pending"
  /\ Start(p, "decision", r, observations[r])
  /\ UNCHANGED tables

ReadDecision(p) ==
  /\ At(p, "decision")
  /\ LET h == handlers[p]
     IN  IF Status(h.seen.decision) = "open" /\ h.seen.option # None
         THEN Goto(p, "expected") ELSE Done(p)
  /\ UNCHANGED tables

\* confirm_resolution_observation reads the observation once more, ...
ReadObservation(p) ==
  /\ At(p, "expected")
  /\ LET h == handlers[p]
     IN  IF /\ observations[h.report] # None /\ observations[h.report].status = "pending"
            /\ observations[h.report].option = h.seen.option
         THEN Goto(p, "confirm") ELSE Done(p)
  /\ UNCHANGED tables

\* ... and updates it by its key, whatever its status is by now.
Confirm(p) ==
  /\ At(p, "confirm")
  /\ LET h == handlers[p]
     IN  /\ observations[h.report] # None
         /\ ApplyResolution(h.seen.decision, h.seen.option, h.report)
         /\ observations' = [observations EXCEPT ![h.report].status = "confirmed",
                                                 ![h.report].confirmed = TRUE]
  /\ Done(p)
  /\ UNCHANGED <<sources, events, outcomes>>

\* Fault: the report is marked, the outcome left to whoever asks for it.
BeginConfirmMarking(p, r) ==
  /\ handlers[p] = None /\ r.type = "wellbeing"
  /\ observations[r] # None /\ observations[r].status = "pending"
  /\ Start(p, "mark", r, observations[r])
  /\ UNCHANGED tables

\* confirm_observation of a wellbeing report: the owner's outcome (record_outcome
\* of module Decisions), then a compare-and-set whose result nobody asks for.
BeginConfirmWellbeing(p, r) ==
  /\ handlers[p] = None /\ r.type = "wellbeing"
  /\ observations[r] # None /\ observations[r].status = "pending"
  /\ Start(p, "outcome", r, observations[r])
  /\ UNCHANGED tables

RecordOutcome(p) ==
  /\ At(p, "outcome")
  /\ LET d == handlers[p].seen.decision
     IN  IF Status(d) = "resolved" /\ d \notin outcomes
         THEN outcomes' = outcomes \cup {d} /\ Goto(p, "mark")
         ELSE Done(p) /\ UNCHANGED outcomes
  /\ UNCHANGED <<sources, events, decisions, observations, evidence>>

\* set_outcome_observation_status, set_resolution_observation_status
CompareAndSet(r, expected, status) ==
  observations' = IF observations[r] # None /\ observations[r].status = expected
                  THEN [observations EXCEPT ![r].status = status,
                                            ![r].confirmed = (status = "confirmed")]
                  ELSE observations

MarkConfirmed(p) ==
  /\ At(p, "mark")
  /\ CompareAndSet(handlers[p].report, "pending", "confirmed")
  /\ Done(p)
  /\ UNCHANGED <<sources, events, decisions, evidence, outcomes>>

\* reject_observation, whatever the status is.
BeginReject(p, r) ==
  /\ handlers[p] = None
  /\ observations[r] # None
  /\ Start(p, "reject", r, observations[r])
  /\ UNCHANGED tables

Reject(p) ==
  /\ At(p, "reject")
  /\ CompareAndSet(handlers[p].report, handlers[p].seen.status, "rejected")
  /\ Done(p)
  /\ UNCHANGED <<sources, events, decisions, evidence, outcomes>>

-----------------------------------------------------------------------------
\* The owner resolves a decision in the app (module Decisions): the event, and
\* the evidence that comes of it, belong to no source.
OwnerResolves(d, o) ==
  /\ Status(d) = "open"
  /\ decisions' = [decisions EXCEPT ![d].resolution = [option |-> o, event |-> None]]
  /\ evidence' = evidence \cup {[decision |-> d, option |-> o, event |-> None]}
  /\ UNCHANGED <<sources, events, observations, outcomes, handlers>>

Reported(e, s) == e.event # None /\ e.event.source = s

\* Fault: decisions, which no foreign key ties to their source, are forgotten.
RemoveSourceOnly(s) ==
  /\ sources[s] = "live"
  /\ sources' = [sources EXCEPT ![s] = "gone"]
  /\ events' = {r \in events : r.source # s}
  /\ observations' = [r \in Report |-> IF r.source = s THEN None ELSE observations[r]]
  /\ evidence' = {e \in evidence : ~Reported(e, s)}
  /\ UNCHANGED <<decisions, outcomes, handlers>>

\* remove_source: observations, decisions with what hangs on them, evidence of
\* the source's events, the events, the source, in one transaction.
RemoveSource(s) ==
  /\ sources[s] = "live"
  /\ sources' = [sources EXCEPT ![s] = "gone"]
  /\ events' = {r \in events : r.source # s}
  /\ decisions' = [d \in Decision |-> IF d[1] = s THEN None ELSE decisions[d]]
  /\ observations' = [r \in Report |->
       IF observations[r] = None \/ r.source = s THEN None
       ELSE IF observations[r].decision # None /\ observations[r].decision[1] = s THEN None
       ELSE observations[r]]
  /\ evidence' = {e \in evidence : ~Reported(e, s)}
  /\ outcomes' = {d \in outcomes : d[1] # s}
  /\ UNCHANGED handlers

\* A failed statement rolls its transaction back; a crash ends any handler.
Fail(p) ==
  /\ handlers[p] # None
  /\ Done(p)
  /\ UNCHANGED tables

Next ==
  \/ \E s \in Source : RegisterSource(s) \/ RemoveSource(s)
  \/ \E d \in Decision, o \in Offered : OwnerResolves(d, o)
  \/ \E p \in Proc :
       \/ \E r \in Report : \/ BeginReport(p, r) \/ BeginWellbeing(p, r)
                            \/ BeginConfirm(p, r) \/ BeginConfirmWellbeing(p, r)
                            \/ BeginReject(p, r)
       \/ FindDecision(p) \/ Replay(p) \/ Ingest(p)
       \/ ReadDecision(p) \/ ReadObservation(p) \/ Confirm(p)
       \/ RecordOutcome(p) \/ MarkConfirmed(p) \/ Reject(p)
       \/ Fail(p)

Spec == Init /\ [][Next]_vars

-----------------------------------------------------------------------------
\* Rows are of their tables, can be read back by the domain, and refer to rows
\* that exist.
TypeOK ==
  /\ sources \in [Source -> {"new", "live", "gone"}]
  /\ events \subseteq Report
  /\ \A q, r \in events : q.source = r.source /\ q.id = r.id => q = r
  /\ decisions \in [Decision -> DecisionRow \cup {None}]
  /\ observations \in [Report -> ChoiceRow \cup OutcomeRow \cup {None}]
  /\ evidence \subseteq [decision : Decision, option : Offered, event : Report \cup {None}]
  /\ outcomes \subseteq Decision
  /\ handlers \in [Proc -> Handler \cup {None}]
  /\ \A r \in Report :
       observations[r] # None =>
         /\ r \in events
         /\ IF IsChoice(r) THEN ReadableChoice(observations[r]) /\ AcceptedChoice(observations[r])
            ELSE ReadableOutcome(observations[r]) /\ AcceptedOutcome(observations[r])
         /\ observations[r].decision # None => decisions[observations[r].decision] # None

\* phase-13-report, P13-T19, P13-T13: of a report everything persists or
\* nothing, and of a removed source nothing, whoever else wrote meanwhile.
WholeOrNothing ==
  /\ \A r \in events :
       /\ sources[r.source] = "live"
       /\ r.type = "decision_candidate" => decisions[About(r)] # None /\ decisions[About(r)].event = r
       /\ IsChoice(r) => observations[r] # None
       /\ IsResult(r) => observations[r] # None \/ Status(About(r)) = "none"
  /\ \A d \in Decision : decisions[d] # None => decisions[d].event \in events
  /\ \A e \in evidence : e.event # None => e.event \in events
  /\ \A d \in outcomes : Status(d) = "resolved"

\* P13-T06: "Canonical resolution and choice Evidence once": however promotion,
\* confirmation and the owner's own choice race, what is learned of a decision
\* is its one resolution, and a confirmed choice is that resolution.
ChoiceIsLearnedOnce ==
  /\ \A e \in evidence :
       decisions[e.decision] # None =>
         decisions[e.decision].resolution = [option |-> e.option, event |-> e.event]
  /\ \A r \in events :
       IsChoice(r) /\ observations[r].status = "confirmed" =>
         [decision |-> observations[r].decision, option |-> observations[r].option,
          event |-> r] \in evidence

\* P13-T04, P13-T10: "agent-only content cannot change derived beliefs": evidence
\* comes of the owner in the app, of the owner's confirmation, or of a choice
\* the owner made and the source was approved to report.
OnlyTheOwnerIsLearned ==
  [][\A e \in evidence' \ evidence :
       \/ e.event = None
       \/ \E p \in Proc : At(p, "confirm") /\ handlers[p].report = e.event
       \/ /\ e.event.actor = "owner"
          /\ EventDataClass(e.event.type) \in Grant[e.event.source].classes
          /\ Grant[e.event.source].scope # "agent_only"]_vars

\* P13-T08: "never to an unrelated decision": an observation is of the decision
\* its own source reported under the id it names, also when it waited for it.
NeverUnrelated ==
  \A r \in Report :
    observations[r] # None /\ observations[r].decision # None /\ observations[r].external # None
    => observations[r].decision = <<r.source, observations[r].external>>

\* phase-13-report: "an interruption leaves the owner's outcome in place and
\* the report still open, never the reverse".
ConfirmedWellbeingIsTheOwners ==
  \A r \in Report :
    r.type = "wellbeing" /\ observations[r] # None /\ observations[r].status = "confirmed"
    => r.decision \in outcomes

\* phase-13-report: "An owner choice that arrives before its decision becomes
\* `pending` once matched and needs the owner's confirmation": who confirms a
\* choice of an open decision is refused only because "The observation state
\* changed before review".
RefusedBecauseItChanged ==
  [][\A p \in Proc :
       ReadDecision(p) /\ handlers'[p] = None
       /\ Status(handlers[p].seen.decision) = "open"
       => observations[handlers[p].report] # handlers[p].seen]_vars

\* A report nothing more can be observed of: it, or the decision that it is
\* about, went with a source that was removed.
Lost(r) ==
  \/ sources[r.source] = "gone"
  \/ r.type = "wellbeing" /\ sources[r.decision[1]] = "gone"

\* The tables as the lifecycle of reports and decisions sees them.
ReportState(r) ==
  IF observations[r] # None THEN observations[r].status
  ELSE IF Lost(r) THEN "gone" ELSE "new"
Standing(d) ==
  IF decisions[d] # None THEN "stored" ELSE IF sources[d[1]] = "gone" THEN "gone" ELSE "absent"
Matched == {r \in Report : /\ observations[r] # None
                           /\ observations[r].decision \in Decision \cap {About(r)}}
LearnedBy == {<<e.decision, e.event>> : e \in evidence}

\* ADR-014's lifecycle: whatever races, fails or is removed, reports wait, are
\* matched, learned, confirmed, rejected and forgotten as it says.
Contract == INSTANCE ReportContract WITH
              Choice <- {r \in Report : IsChoice(r)},
              Wellbeing <- {r \in Report : r.type = "wellbeing"},
              Of <- [r \in Report |-> About(r)],
              From <- [r \in Report |-> r.source],
              Home <- [d \in Decision |-> d[1]],
              Owner <- None,
              state <- [r \in Report |-> ReportState(r)],
              matched <- Matched,
              standing <- [d \in Decision |-> Standing(d)],
              learned <- LearnedBy,
              recorded <- outcomes
KeepsReportLifecycle == Contract!Spec
=============================================================================
