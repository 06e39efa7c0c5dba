------------------------------ MODULE Decisions ------------------------------
(***************************************************************************)
(* Decisions, their resolutions, outcomes, predictions and advice          *)
(* (DecisionService over the SQLite repositories).  Requests run on        *)
(* threads; each transaction and each read that a later step depends on is *)
(* a step, and a request may die between any two of them.                  *)
(*                                                                         *)
(* A raw event is named after the request that stores it.  Rankings,       *)
(* probabilities and the text of options are left out: an advice keeps     *)
(* what it was derived from.  Decisions that an import stores are left     *)
(* out; so is the owner's deletion of single evidence (PersonalModel).     *)
(***************************************************************************)
EXTENDS Naturals, FiniteSets

CONSTANTS Proc,         \* request threads
          Decision,     \* decisions the owner may ask about
          Option,       \* options of each decision
          Item,         \* evidence items that a resolution yields
          MaxRequest,   \* bound on the requests that store an event
          MaxPredict,   \* bound on the predictions asked for
          MaxSnapshot,  \* bound on Personal Model snapshot versions
          MaxAdvice,    \* bound on stored advice
          None          \* no row

ASSUME DecisionsAssumption ==
  /\ {MaxRequest, MaxPredict, MaxAdvice} \subseteq Nat /\ MaxSnapshot \in Nat \ {0}
  /\ None \notin Option \cup Nat

VARIABLES snapshot,     \* version of the latest snapshot
          decisions,    \* the decision rows
          resolution,   \* the resolution row of each decision
          evidence,     \* actual_choice evidence
          outcome,      \* the outcome row of each decision: its event
          events,       \* raw events of resolutions and outcomes
          prediction,   \* the latest prediction row of each decision
          advice,       \* stored advice
          requests,     \* requests so far that store an event
          asked,        \* predictions asked for so far: their dates
          handlers

tables == <<resolution, evidence, outcome, events, prediction, advice>>
counters == <<requests, asked>>
vars == <<snapshot, decisions, tables, counters, handlers>>

Init ==
  /\ snapshot = 1 /\ decisions = {} /\ requests = 0 /\ asked = 0
  /\ resolution = [d \in Decision |-> None] /\ outcome = [d \in Decision |-> None]
  /\ prediction = [d \in Decision |-> [asked |-> 0, version |-> 0]]
  /\ evidence = {} /\ events = {} /\ advice = {}
  /\ handlers = [p \in Proc |-> None]

Resolved(d) == resolution[d] # None
Open(d) == d \in decisions /\ ~Resolved(d)

At(p, step) == handlers[p] # None /\ handlers[p].at = step
Goto(p, step) == handlers' = [handlers EXCEPT ![p].at = step]
Done(p) == handlers' = [handlers EXCEPT ![p] = None]
Asking(step, d, n) ==
  [at |-> step, decision |-> d, option |-> None, event |-> 0, items |-> {},
   version |-> 0, asked |-> n, predicted |-> 0, resolved |-> {}]
Storing(step, d, o, event) ==
  [at |-> step, decision |-> d, option |-> o, event |-> event, items |-> Item,
   version |-> 0, asked |-> 0, predicted |-> 0, resolved |-> {}]
Start(p, h) == handlers' = [handlers EXCEPT ![p] = h]

-----------------------------------------------------------------------------
\* create: the snapshot, the resolved decisions and the provider's answer only
\* decide what the options of the row say; the row and its options come in one
\* transaction, or not at all when an option was not extracted.
Create(d) ==
  /\ d \notin decisions
  /\ decisions' = decisions \cup {d}
  /\ UNCHANGED <<snapshot, tables, counters, handlers>>

-----------------------------------------------------------------------------
\* resolve: the status is read, the event is stored, the resolution is stored,
\* then the evidence one transaction at a time, then the model is rebuilt.
BeginResolve(p, d, o) ==
  /\ handlers[p] = None /\ Open(d)
  /\ requests < MaxRequest
  /\ requests' = requests + 1
  /\ Start(p, Storing("event", d, o, requests + 1))
  /\ UNCHANGED <<snapshot, decisions, tables, asked>>

AddResolutionEvent(p) ==
  /\ At(p, "event")
  /\ events' = events \cup {handlers[p].event}
  /\ Goto(p, "resolve")
  /\ UNCHANGED <<snapshot, decisions, resolution, evidence, outcome, prediction, advice, counters>>

\* Fault: the evidence is stored whether or not the resolution is.
ResolveAny(p) ==
  /\ At(p, "resolve")
  /\ LET h == handlers[p]
     IN  resolution' = IF Resolved(h.decision) THEN resolution
                       ELSE [resolution EXCEPT ![h.decision] =
                               [option |-> h.option, event |-> h.event]]
  /\ Goto(p, "learn")
  /\ UNCHANGED <<snapshot, decisions, evidence, outcome, events, prediction, advice, counters>>

\* The repository asks for an OPEN decision, and the unique index on the
\* decision settles what that read misses; the loser's event stays behind.
Resolve(p) ==
  /\ At(p, "resolve")
  /\ LET h == handlers[p]
     IN  \/ /\ ~Resolved(h.decision)
            /\ resolution' = [resolution EXCEPT ![h.decision] =
                                [option |-> h.option, event |-> h.event]]
            /\ Goto(p, "learn")
         \/ /\ Resolved(h.decision)
            /\ Done(p)
            /\ UNCHANGED resolution
  /\ UNCHANGED <<snapshot, decisions, evidence, outcome, events, prediction, advice, counters>>

\* Fault: the loop over the evidence ends with its first item.
LearnOne(p, i) ==
  /\ At(p, "learn") /\ i \in handlers[p].items
  /\ LET h == handlers[p]
     IN  /\ evidence' = evidence \cup
              {[decision |-> h.decision, option |-> h.option, event |-> h.event, item |-> i]}
         /\ handlers' = [handlers EXCEPT ![p].items = {}]
  /\ UNCHANGED <<snapshot, decisions, resolution, outcome, events, prediction, advice, counters>>

Learn(p, i) ==
  /\ At(p, "learn") /\ i \in handlers[p].items
  /\ LET h == handlers[p]
     IN  /\ evidence' = evidence \cup
              {[decision |-> h.decision, option |-> h.option, event |-> h.event, item |-> i]}
         /\ handlers' = [handlers EXCEPT ![p].items = @ \ {i}]
  /\ UNCHANGED <<snapshot, decisions, resolution, outcome, events, prediction, advice, counters>>

\* The rebuild stores a new snapshot and the request is answered.
ResolveAnswered(p) ==
  /\ At(p, "learn") /\ handlers[p].items = {}
  /\ snapshot < MaxSnapshot
  /\ snapshot' = snapshot + 1
  /\ Done(p)
  /\ UNCHANGED <<decisions, tables, counters>>

-----------------------------------------------------------------------------
\* record_outcome: a resolved decision without an outcome; the event first.
BeginOutcome(p, d) ==
  /\ handlers[p] = None
  /\ Resolved(d) /\ outcome[d] = None
  /\ requests < MaxRequest
  /\ requests' = requests + 1
  /\ Start(p, Storing("outcome_event", d, None, requests + 1))
  /\ UNCHANGED <<snapshot, decisions, tables, asked>>

AddOutcomeEvent(p) ==
  /\ At(p, "outcome_event")
  /\ events' = events \cup {handlers[p].event}
  /\ Goto(p, "outcome")
  /\ UNCHANGED <<snapshot, decisions, resolution, evidence, outcome, prediction, advice, counters>>

\* Unique on the decision: of two concurrent outcomes one fails.
AddOutcome(p) ==
  /\ At(p, "outcome")
  /\ LET h == handlers[p]
     IN  outcome' = IF outcome[h.decision] = None THEN [outcome EXCEPT ![h.decision] = h.event]
                                                  ELSE outcome
  /\ Done(p)
  /\ UNCHANGED <<snapshot, decisions, resolution, evidence, events, prediction, advice, counters>>

\* delete_outcome: one transaction takes the profile's advice, the outcome and
\* its event.
DeleteOutcome(d) ==
  /\ outcome[d] # None
  /\ advice' = {}
  /\ events' = events \ {outcome[d]}
  /\ outcome' = [outcome EXCEPT ![d] = None]
  /\ UNCHANGED <<snapshot, decisions, resolution, evidence, prediction, counters, handlers>>

-----------------------------------------------------------------------------
\* predict: an open decision, then the snapshot current() returns.  Predictions
\* are dated before that read, and the latest date is the latest prediction.
BeginPredict(p, d) ==
  /\ handlers[p] = None /\ Open(d)
  /\ asked < MaxPredict
  /\ asked' = asked + 1
  /\ Start(p, Asking("predict_snapshot", d, asked + 1))
  /\ UNCHANGED <<snapshot, decisions, tables, requests>>

PredictSnapshot(p) ==
  /\ At(p, "predict_snapshot")
  /\ handlers' = [handlers EXCEPT ![p].at = "predict", ![p].predicted = snapshot]
  /\ UNCHANGED <<snapshot, decisions, tables, counters>>

AddPrediction(p) ==
  /\ At(p, "predict")
  /\ LET h == handlers[p]
     IN  /\ prediction' = IF h.asked < prediction[h.decision].asked THEN prediction
                          ELSE [prediction EXCEPT ![h.decision] =
                                  [asked |-> h.asked, version |-> h.predicted]]
         /\ IF h.version = 0 THEN Done(p) ELSE Goto(p, "history")
  /\ UNCHANGED <<snapshot, decisions, resolution, evidence, outcome, events, advice, counters>>

\* advise: an open decision, the snapshot, a prediction from it or a new one,
\* the resolved decisions, their outcomes, then the advice.
BeginAdvise(p, d) ==
  /\ handlers[p] = None /\ Open(d)
  /\ Cardinality(advice) < MaxAdvice
  /\ Start(p, Asking("advise", d, 0))
  /\ UNCHANGED <<snapshot, decisions, tables, counters>>

AdviseSnapshot(p) ==
  /\ At(p, "advise")
  /\ handlers' = [handlers EXCEPT ![p].at = "prediction", ![p].version = snapshot]
  /\ UNCHANGED <<snapshot, decisions, tables, counters>>

\* Fault: any stored prediction will do.
AnyPrediction(p) ==
  /\ At(p, "prediction")
  /\ LET h == handlers[p]
     IN  /\ prediction[h.decision].version # 0
         /\ handlers' = [handlers EXCEPT ![p].at = "history",
                                         ![p].predicted = prediction[h.decision].version]
  /\ UNCHANGED <<snapshot, decisions, tables, counters>>

\* A latest prediction of another version will not do: advise calls predict,
\* which asks the status again.
ReadPrediction(p) ==
  /\ At(p, "prediction")
  /\ LET h == handlers[p]
     IN  \/ /\ prediction[h.decision].version = h.version
            /\ handlers' = [handlers EXCEPT ![p].at = "history", ![p].predicted = h.version]
            /\ UNCHANGED asked
         \/ /\ prediction[h.decision].version # h.version /\ ~Resolved(h.decision)
            /\ asked < MaxPredict
            /\ asked' = asked + 1
            /\ handlers' = [handlers EXCEPT ![p].at = "predict_snapshot", ![p].asked = asked + 1]
         \/ /\ prediction[h.decision].version # h.version /\ Resolved(h.decision)
            /\ Done(p)
            /\ UNCHANGED asked
  /\ UNCHANGED <<snapshot, decisions, tables, requests>>

ReadResolved(p) ==
  /\ At(p, "history")
  /\ handlers' = [handlers EXCEPT ![p].at = "outcomes",
                                  ![p].resolved = {d \in Decision : Resolved(d)}]
  /\ UNCHANGED <<snapshot, decisions, tables, counters>>

\* The outcomes become the items the advice rests on.
ReadOutcomes(p) ==
  /\ At(p, "outcomes")
  /\ handlers' = [handlers EXCEPT ![p].at = "advice",
                    ![p].items = {outcome[d] : d \in {e \in handlers[p].resolved : outcome[e] # None}}]
  /\ UNCHANGED <<snapshot, decisions, tables, counters>>

AddAdvice(p) ==
  /\ At(p, "advice")
  /\ LET h == handlers[p]
     IN  advice' = advice \cup {[decision |-> h.decision, version |-> h.version,
                                 predicted |-> h.predicted, outcomes |-> h.items]}
  /\ Done(p)
  /\ UNCHANGED <<snapshot, decisions, resolution, evidence, outcome, events, prediction, counters>>

-----------------------------------------------------------------------------
\* Other evidence makes current() store new snapshots.
Rebuild ==
  /\ snapshot < MaxSnapshot
  /\ snapshot' = snapshot + 1
  /\ UNCHANGED <<decisions, tables, counters, handlers>>

\* An error, or the daemon dies.
Fail(p) ==
  /\ handlers[p] # None
  /\ Done(p)
  /\ UNCHANGED <<snapshot, decisions, tables, counters>>

Next ==
  \/ Rebuild
  \/ \E d \in Decision : Create(d) \/ DeleteOutcome(d)
  \/ \E p \in Proc :
       \/ \E d \in Decision : \/ BeginOutcome(p, d) \/ BeginPredict(p, d) \/ BeginAdvise(p, d)
                              \/ \E o \in Option : BeginResolve(p, d, o)
       \/ AddResolutionEvent(p) \/ Resolve(p) \/ (\E i \in Item : Learn(p, i))
       \/ ResolveAnswered(p)
       \/ AddOutcomeEvent(p) \/ AddOutcome(p)
       \/ PredictSnapshot(p) \/ AddPrediction(p)
       \/ AdviseSnapshot(p) \/ ReadPrediction(p) \/ ReadResolved(p) \/ ReadOutcomes(p) \/ AddAdvice(p)
       \/ Fail(p)

Spec == Init /\ [][Next]_vars

-----------------------------------------------------------------------------
Event == 1..MaxRequest
Resolution == [option : Option, event : Event]
Learning == [decision : Decision, option : Option, event : Event, item : Item]
Advice == [decision : Decision, version : 1..MaxSnapshot, predicted : 1..MaxSnapshot,
           outcomes : SUBSET Event]
Handler == [at : {"event", "resolve", "learn", "outcome_event", "outcome", "predict_snapshot",
                  "predict", "advise", "prediction", "history", "outcomes", "advice"},
            decision : Decision, option : Option \cup {None}, event : 0..MaxRequest,
            items : SUBSET (Item \cup Event), version : 0..MaxSnapshot,
            asked : 0..MaxPredict, predicted : 0..MaxSnapshot, resolved : SUBSET Decision]

\* No row is None.
ASSUME NoRowAssumption == None \notin Resolution \cup Handler

\* Every variable has its type; the rows refer to stored events, as their
\* foreign keys demand.
TypeOK ==
  /\ snapshot \in 1..MaxSnapshot /\ decisions \subseteq Decision /\ requests \in 0..MaxRequest /\ asked \in 0..MaxPredict
  /\ resolution \in [Decision -> Resolution \cup {None}]
  /\ evidence \subseteq Learning
  /\ events \subseteq Event
  /\ outcome \in [Decision -> Event \cup {None}]
  /\ prediction \in [Decision -> [asked : 0..MaxPredict, version : 0..MaxSnapshot]]
  /\ advice \subseteq Advice
  /\ handlers \in [Proc -> Handler \cup {None}]
  /\ \A d \in Decision : /\ outcome[d] # None => outcome[d] \in events
                         /\ Resolved(d) => resolution[d].event \in events

\* However many resolutions of a decision race, only the choice that is stored
\* is learned, with the event that the resolution names.
OnlyTheStoredChoiceIsLearned ==
  \A e \in evidence : resolution[e.decision] = [option |-> e.option, event |-> e.event]

\* phase-4-report, P4-10: a resolution is answered with its evidence stored,
\* all of it, and a snapshot made after it.
AnsweredIsLearned ==
  [][\A p \in Proc :
       At(p, "learn") /\ handlers'[p] = None /\ snapshot' # snapshot
       => \A i \in Item :
            \E e \in evidence : e.event = handlers[p].event /\ e.item = i]_vars

\* phase-8-report, P8-T17: advice never joins a snapshot with a prediction from
\* an older one.
AdviceIsNotOutrun == \A a \in advice : a.predicted >= a.version
=============================================================================
