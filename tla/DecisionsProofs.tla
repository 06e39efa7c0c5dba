--------------------------- MODULE DecisionsProofs ---------------------------
(***************************************************************************)
(* What is learned of a decision is the choice that is stored, and advice  *)
(* is derived from the model it names, for any number of threads,          *)
(* decisions, requests and snapshots.                                      *)
(***************************************************************************)
EXTENDS Decisions, TLAPS

\* The threads with an event of their own that no row names yet.
Stores(p) == handlers[p] # None /\ handlers[p].at \in {"event", "resolve", "outcome_event", "outcome"}

\* Such an event is named after a request, and after no one else's.
OwnEvent(p) ==
  Stores(p) =>
    /\ handlers[p].event \in 1..requests
    /\ handlers[p].at \in {"resolve", "outcome"} => handlers[p].event \in events
    /\ \A d \in Decision : /\ Resolved(d) => resolution[d].event # handlers[p].event
                           /\ outcome[d] # handlers[p].event
    /\ \A q \in Proc \ {p} : Stores(q) => handlers[q].event # handlers[p].event

\* No two rows name the same event.
RowEvents ==
  \A d \in Decision :
    /\ Resolved(d) => resolution[d].event \in 1..requests
    /\ outcome[d] # None => outcome[d] \in 1..requests
    /\ \A e \in Decision : /\ Resolved(d) => outcome[e] # resolution[d].event
                           /\ outcome[d] # None /\ d # e => outcome[e] # outcome[d]

\* A thread that learns has stored the resolution and some of the evidence.
Learns(p) ==
  LET h == handlers[p]
  IN  /\ h.at \in {"event", "resolve"} => h.option \in Option /\ h.items = Item
      /\ h.at = "learn" =>
           /\ resolution[h.decision] = [option |-> h.option, event |-> h.event]
           /\ h.option \in Option /\ h.event \in Event /\ h.items \subseteq Item
           /\ \A i \in Item \ h.items : \E e \in evidence : e.event = h.event /\ e.item = i

\* A thread that advises has a snapshot, then a prediction that is no older.
Advises(p) ==
  LET h == handlers[p]
  IN  /\ h.version <= snapshot
      /\ h.at = "predict" => h.predicted >= h.version
      /\ h.at \in {"prediction", "history", "outcomes", "advice"} => h.version >= 1
      /\ h.at \in {"history", "outcomes", "advice"} => h.predicted >= h.version
      /\ h.at = "advice" => h.items \subseteq Event

DInv ==
  /\ TypeOK /\ RowEvents
  /\ \A p \in Proc : OwnEvent(p)
  /\ \A p \in Proc : handlers[p] # None => Learns(p) /\ Advises(p)
  /\ OnlyTheStoredChoiceIsLearned /\ AdviceIsNotOutrun

-----------------------------------------------------------------------------
LEMMA Numbers ==
  /\ MaxRequest \in Nat /\ MaxPredict \in Nat /\ MaxAdvice \in Nat /\ MaxSnapshot \in Nat
  /\ MaxSnapshot >= 1
  /\ None \notin Option /\ None \notin Event /\ None \notin Resolution /\ None \notin Handler
  BY DecisionsAssumption, NoRowAssumption DEF Event

LEMMA Tables ==
  ASSUME DInv
  PROVE  /\ snapshot \in 1..MaxSnapshot /\ requests \in 0..MaxRequest /\ asked \in 0..MaxPredict
         /\ resolution \in [Decision -> Resolution \cup {None}]
         /\ outcome \in [Decision -> Event \cup {None}]
         /\ prediction \in [Decision -> [asked : 0..MaxPredict, version : 0..MaxSnapshot]]
         /\ handlers \in [Proc -> Handler \cup {None}]
         /\ decisions \subseteq Decision /\ evidence \subseteq Learning /\ events \subseteq Event /\ advice \subseteq Advice
         /\ \A d \in Decision : /\ outcome[d] # None => outcome[d] \in events
                                /\ Resolved(d) => resolution[d].event \in events
         /\ \A p \in Proc : handlers[p] # None => handlers[p] \in Handler
  BY DEF DInv, TypeOK

\* The invariant of all threads when one of them moves on.
LEMMA OneThread ==
  ASSUME DInv, NEW p \in Proc, NEW g \in Handler \cup {None}, handlers' = [handlers EXCEPT ![p] = g],
         OwnEvent(p)', g # None => Learns(p)' /\ Advises(p)',
         snapshot <= snapshot', snapshot' \in Nat, evidence \subseteq evidence', requests <= requests',
         requests' \in Nat,
         \A d \in Decision : Resolved(d) => resolution'[d] = resolution[d],
         \A q \in Proc \ {p} : Stores(q) =>
           /\ handlers[q].event \in events => handlers[q].event \in events'
           /\ \A d \in Decision :
                /\ resolution'[d] = resolution[d] \/ resolution'[d].event # handlers[q].event
                /\ outcome'[d] = outcome[d] \/ outcome'[d] # handlers[q].event
           /\ Stores(p)' => handlers[q].event # g.event
  PROVE  /\ \A q \in Proc : OwnEvent(q)'
         /\ \A q \in Proc : handlers'[q] # None => Learns(q)' /\ Advises(q)'
<1>1. /\ handlers \in [Proc -> Handler \cup {None}] /\ handlers'[p] = g
      /\ \A q \in Proc \ {p} : handlers'[q] = handlers[q]
      /\ snapshot \in Nat /\ requests \in Nat
      /\ \A q \in Proc : handlers[q] # None => handlers[q] \in Handler
  BY Tables, Numbers
<1>2. ASSUME NEW q \in Proc, q # p PROVE OwnEvent(q)'
  <2> SUFFICES ASSUME Stores(q)' PROVE
          /\ handlers'[q].event \in 1..requests'
          /\ handlers'[q].at \in {"resolve", "outcome"} => handlers'[q].event \in events'
          /\ \A d \in Decision : /\ Resolved(d)' => resolution'[d].event # handlers'[q].event
                                 /\ outcome'[d] # handlers'[q].event
          /\ \A r \in Proc \ {q} : Stores(r)' => handlers'[r].event # handlers'[q].event
    BY DEF OwnEvent
  <2>1. Stores(q) /\ handlers'[q] = handlers[q] /\ OwnEvent(q)
    BY <1>1, <1>2 DEF Stores, DInv
  <2>2. handlers[q].event \in 1..requests'
    BY <1>1, <2>1 DEF OwnEvent
  <2>3. handlers[q].at \in {"resolve", "outcome"} => handlers[q].event \in events'
    BY <1>2, <2>1 DEF OwnEvent
  <2>4. ASSUME NEW d \in Decision
        PROVE  /\ Resolved(d)' => resolution'[d].event # handlers[q].event
               /\ outcome'[d] # handlers[q].event
    BY <1>2, <2>1 DEF OwnEvent, Resolved
  <2>5. ASSUME NEW r \in Proc \ {q}, Stores(r)' PROVE handlers'[r].event # handlers[q].event
    <3>1. CASE r = p
      BY <1>1, <1>2, <2>1, <2>5, <3>1
    <3>2. CASE r # p
      BY <1>1, <2>1, <2>5, <3>2 DEF OwnEvent, Stores
    <3>. QED  BY <3>1, <3>2
  <2>. QED  BY <2>1, <2>2, <2>3, <2>4, <2>5
<1>3. ASSUME NEW q \in Proc, q # p, handlers'[q] # None PROVE Learns(q)' /\ Advises(q)'
  <2>1. handlers'[q] = handlers[q] /\ handlers[q] \in Handler /\ Learns(q) /\ Advises(q)
    BY <1>1, <1>3 DEF DInv
  <2>2. handlers[q].decision \in Decision /\ handlers[q].version \in Nat
    BY <2>1, Numbers DEF Handler
  <2>3. Learns(q)'
    <3>1. handlers[q].at = "learn" => Resolved(handlers[q].decision)
      <4>1. SUFFICES ASSUME handlers[q].at = "learn" PROVE resolution[handlers[q].decision] \in Resolution
        BY Numbers DEF Resolved
      <4>. QED  BY <2>1, <4>1 DEF Learns, Resolution
    <3>2. handlers[q].at = "learn" =>
            resolution'[handlers[q].decision] = resolution[handlers[q].decision]
      BY <2>2, <3>1
    <3>. QED  BY <2>1, <3>2 DEF Learns
  <2>4. Advises(q)'
    BY <1>1, <2>1, <2>2 DEF Advises
  <2>. QED  BY <2>3, <2>4
<1>. QED  BY <1>1, <1>2, <1>3

\* A step of one thread that leaves the rows alone that the properties are about.
LEMMA QuietStep ==
  ASSUME DInv, NEW p \in Proc, NEW g \in Handler \cup {None}, handlers' = [handlers EXCEPT ![p] = g],
         UNCHANGED <<decisions, resolution, evidence, outcome, advice>>,
         snapshot <= snapshot', snapshot' \in 1..MaxSnapshot,
         requests <= requests', requests' \in 0..MaxRequest, asked' \in 0..MaxPredict,
         prediction' \in [Decision -> [asked : 0..MaxPredict, version : 0..MaxSnapshot]],
         events \subseteq events', events' \subseteq Event,
         OwnEvent(p)', g # None => Learns(p)' /\ Advises(p)',
         \A q \in Proc \ {p} : Stores(q) /\ Stores(p)' => handlers[q].event # g.event
  PROVE  DInv'
<1>1. TypeOK'
  <2>1. handlers' \in [Proc -> Handler \cup {None}]
    BY Tables
  <2>. QED  BY <2>1, Tables DEF TypeOK, DInv, Resolved
<1>2. RowEvents'
  <2>1. requests \in Nat /\ requests' \in Nat
    BY Tables, Numbers
  <2>. QED  BY <2>1 DEF DInv, RowEvents, Resolved
<1>3. /\ \A q \in Proc : OwnEvent(q)'
      /\ \A q \in Proc : handlers'[q] # None => Learns(q)' /\ Advises(q)'
  <2>1. snapshot' \in Nat /\ requests' \in Nat
    BY Numbers
  <2>. QED  BY <2>1, OneThread
<1>4. OnlyTheStoredChoiceIsLearned' /\ AdviceIsNotOutrun'
  BY DEF DInv, OnlyTheStoredChoiceIsLearned, AdviceIsNotOutrun
<1>. QED  BY <1>1, <1>2, <1>3, <1>4 DEF DInv

\* A thread that has nothing stored to answer for.
LEMMA Idle ==
  ASSUME NEW p \in Proc, handlers \in [Proc -> Handler \cup {None}],
         NEW g \in Handler \cup {None}, handlers' = [handlers EXCEPT ![p] = g],
         g # None => g.at \notin {"event", "resolve", "outcome_event", "outcome"}
  PROVE  OwnEvent(p)' /\ ~Stores(p)' /\ handlers'[p] = g
<1>1. handlers'[p] = g
  OBVIOUS
<1>2. ~Stores(p)'
  BY <1>1 DEF Stores
<1>. QED  BY <1>1, <1>2 DEF OwnEvent

LEMMA EndStep ==
  ASSUME DInv, NEW p \in Proc, Done(p), UNCHANGED <<decisions, resolution, evidence, outcome, advice, events>>,
         snapshot <= snapshot', snapshot' \in 1..MaxSnapshot, UNCHANGED counters,
         prediction' \in [Decision -> [asked : 0..MaxPredict, version : 0..MaxSnapshot]]
  PROVE  DInv'
<1>1. handlers' = [handlers EXCEPT ![p] = None] /\ requests' = requests /\ asked' = asked
  BY DEF Done, counters
<1>2. OwnEvent(p)' /\ ~Stores(p)'
  BY <1>1, Tables, Idle
<1>3. requests <= requests' /\ requests' \in 0..MaxRequest /\ asked' \in 0..MaxPredict
      /\ events \subseteq events' /\ events' \subseteq Event
  BY <1>1, Tables, Numbers
<1>. QED  BY <1>1, <1>2, <1>3, QuietStep

-----------------------------------------------------------------------------
\* A request that stores an event begins.
LEMMA StartStep ==
  ASSUME DInv, NEW p \in Proc, NEW step \in {"event", "outcome_event"}, NEW d \in Decision,
         NEW o \in Option \cup {None}, step = "event" => o \in Option,
         Start(p, Storing(step, d, o, requests + 1)), requests < MaxRequest, requests' = requests + 1,
         UNCHANGED <<snapshot, decisions, tables, asked>>
  PROVE  DInv'
<1> DEFINE g == Storing(step, d, o, requests + 1)
<1>1. /\ requests \in 0..MaxRequest /\ snapshot \in 1..MaxSnapshot /\ requests \in Nat
      /\ requests + 1 \in 0..MaxRequest /\ requests + 1 \in 1..(requests + 1)
  BY Tables, Numbers
<1>2. g = [at |-> step, decision |-> d, option |-> o, event |-> requests + 1, items |-> Item,
           version |-> 0, asked |-> 0, predicted |-> 0, resolved |-> {}]
  BY DEF Storing
<1>3. handlers' = [handlers EXCEPT ![p] = g]
  BY DEF Start
<1> HIDE DEF g
<1>4. g \in Handler
  BY <1>1, <1>2, Numbers DEF Handler
<1>5. handlers'[p] = g
  BY <1>3, Tables
<1>6. \A q \in Proc \ {p} : Stores(q) => handlers[q].event \in 1..requests /\ handlers'[q] = handlers[q]
  BY <1>3, Tables DEF DInv, OwnEvent
<1>7. OwnEvent(p)'
  <2>1. \A e \in Decision : /\ Resolved(e)' => resolution'[e].event # requests + 1
                            /\ outcome'[e] # requests + 1
    <3>1. \A e \in Decision : outcome[e] # None => outcome[e] \in 1..requests
      BY DEF DInv, RowEvents
    <3>2. requests + 1 # None
      <4>1. requests + 1 \in Event
        BY <1>1, Numbers DEF Event
      <4>. QED  BY <4>1, Numbers
    <3>3. \A e \in Decision : Resolved(e) => resolution[e].event \in 1..requests
      BY DEF DInv, RowEvents
    <3>. QED  BY <1>1, <3>1, <3>2, <3>3 DEF tables, Resolved
  <2>2. \A q \in Proc \ {p} : Stores(q)' => handlers'[q].event # requests + 1
    <3>1. \A q \in Proc \ {p} : Stores(q)' => Stores(q)
      BY <1>3, Tables DEF Stores
    <3>. QED  BY <1>1, <1>6, <3>1
  <2>3. g.event = requests + 1 /\ g.at \notin {"resolve", "outcome"}
    BY <1>2
  <2>. QED  BY <1>1, <1>5, <2>1, <2>2, <2>3 DEF OwnEvent
<1>8. Learns(p)' /\ Advises(p)'
  BY <1>1, <1>2, <1>5 DEF Learns, Advises
<1>9. \A q \in Proc \ {p} : Stores(q) => handlers[q].event # g.event
  BY <1>1, <1>2, <1>6
<1>10. /\ UNCHANGED <<decisions, resolution, evidence, outcome, advice, events, prediction, asked, snapshot>>
       /\ snapshot <= snapshot' /\ requests <= requests' /\ requests' \in 0..MaxRequest
  BY <1>1 DEF tables
<1>. QED  BY <1>1, <1>3, <1>4, <1>7, <1>8, <1>9, <1>10, Tables, QuietStep

\* The event of a request is stored.
LEMMA EventStep ==
  ASSUME DInv, NEW p \in Proc, AddResolutionEvent(p) \/ AddOutcomeEvent(p)
  PROVE  DInv'
<1> DEFINE h == handlers[p]
           step == IF h.at = "event" THEN "resolve" ELSE "outcome"
           g == [h EXCEPT !.at = step]
<1>1. /\ h # None /\ h \in Handler /\ Stores(p) /\ OwnEvent(p) /\ Learns(p) /\ Advises(p)
      /\ h.at \in {"event", "outcome_event"}
  BY Tables DEF AddResolutionEvent, AddOutcomeEvent, At, Stores, DInv
<1>2. /\ handlers' = [handlers EXCEPT ![p] = g] /\ events' = events \cup {h.event}
      /\ UNCHANGED <<snapshot, decisions, resolution, evidence, outcome, prediction, advice, requests, asked>>
  BY <1>1, Tables DEF AddResolutionEvent, AddOutcomeEvent, At, Goto, counters
<1>3. /\ g \in Handler /\ g.at = step /\ g.event = h.event /\ g.option = h.option /\ g.items = h.items
      /\ g.version = h.version
  BY <1>1 DEF Handler
<1>4. handlers'[p] = g /\ \A q \in Proc \ {p} : handlers'[q] = handlers[q]
  BY <1>2, Tables
<1> HIDE DEF g
<1>5. h.event \in 1..requests /\ h.event \in Event /\ requests \in 0..MaxRequest
      /\ snapshot \in 1..MaxSnapshot /\ asked \in 0..MaxPredict
  BY <1>1, Tables, Numbers DEF OwnEvent, Event
<1>6. OwnEvent(p)'
  BY <1>1, <1>2, <1>3, <1>4 DEF OwnEvent, Stores, Resolved
<1>7. Learns(p)' /\ Advises(p)'
  BY <1>1, <1>2, <1>3, <1>4 DEF Learns, Advises
<1>8. \A q \in Proc \ {p} : Stores(q) => handlers[q].event # g.event
  BY <1>1, <1>3 DEF OwnEvent
<1>9. snapshot <= snapshot' /\ requests <= requests' /\ events' \subseteq Event
  BY <1>2, <1>5, Tables, Numbers
<1>. QED  BY <1>2, <1>3, <1>5, <1>6, <1>7, <1>8, <1>9, Tables, QuietStep

-----------------------------------------------------------------------------
\* The unique resolution of a decision.
LEMMA ResolveStep ==
  ASSUME DInv, NEW p \in Proc, Resolve(p)
  PROVE  DInv'
<1> DEFINE h == handlers[p]
           row == [option |-> h.option, event |-> h.event]
           g == [h EXCEPT !.at = "learn"]
<1>1. /\ h # None /\ h \in Handler /\ Stores(p) /\ OwnEvent(p) /\ Learns(p) /\ Advises(p)
      /\ h.at = "resolve" /\ h.decision \in Decision
  BY Tables DEF Resolve, At, Stores, DInv, Handler
<1>2. UNCHANGED <<snapshot, decisions, evidence, outcome, events, prediction, advice, requests, asked>>
  BY DEF Resolve, counters
<1>3. /\ requests \in 0..MaxRequest /\ snapshot \in 1..MaxSnapshot /\ snapshot \in Nat
      /\ requests \in Nat /\ h.event \in 1..requests /\ h.event \in Event /\ h.event \in events
      /\ h.option \in Option /\ h.items = Item
  BY <1>1, Tables, Numbers DEF OwnEvent, Learns, Event
<1>4. CASE Resolved(h.decision)
  <2>1. Done(p) /\ UNCHANGED resolution
    BY <1>4 DEF Resolve
  <2>2. UNCHANGED counters /\ snapshot <= snapshot'
    BY <1>2, <1>3 DEF counters
  <2>. QED  BY <1>2, <1>3, <2>1, <2>2, Tables, EndStep
<1>5. CASE ~Resolved(h.decision)
  <2>1. /\ resolution' = [resolution EXCEPT ![h.decision] = row]
        /\ handlers' = [handlers EXCEPT ![p] = g]
    BY <1>5, Tables DEF Resolve, Goto
  <2>2. row \in Resolution /\ row # None /\ row.event = h.event
    BY <1>3, Numbers DEF Resolution
  <2>3. /\ g \in Handler /\ g # None /\ g.at = "learn" /\ g.event = h.event /\ g.option = h.option
        /\ g.items = h.items /\ g.version = h.version /\ g.decision = h.decision
    BY <1>1, Numbers DEF Handler
  <2>4. handlers'[p] = g /\ resolution'[h.decision] = row
        /\ \A d \in Decision \ {h.decision} : resolution'[d] = resolution[d]
    BY <1>1, <2>1, Tables
  <2> HIDE DEF g
  <2>5. \A d \in Decision : Resolved(d) => resolution'[d] = resolution[d]
    BY <1>5, <2>4
  <2>6. OwnEvent(p)' /\ ~Stores(p)'
    BY <2>3, <2>4 DEF OwnEvent, Stores
  <2>7. Learns(p)'
    BY <1>2, <1>3, <2>3, <2>4 DEF Learns
  <2>8. Advises(p)'
    BY <1>1, <1>2, <2>3, <2>4 DEF Advises
  <2>9. /\ \A q \in Proc : OwnEvent(q)'
        /\ \A q \in Proc : handlers'[q] # None => Learns(q)' /\ Advises(q)'
    <3>1. \A q \in Proc \ {p} : Stores(q) =>
            /\ handlers[q].event \in events => handlers[q].event \in events'
            /\ \A d \in Decision :
                 /\ resolution'[d] = resolution[d] \/ resolution'[d].event # handlers[q].event
                 /\ outcome'[d] = outcome[d] \/ outcome'[d] # handlers[q].event
      BY <1>1, <1>2, <2>2, <2>4 DEF OwnEvent
    <3>2. snapshot <= snapshot' /\ snapshot' \in Nat /\ evidence \subseteq evidence'
          /\ requests <= requests' /\ requests' \in Nat
      BY <1>2, <1>3
    <3>. QED  BY <2>1, <2>3, <2>5, <2>6, <2>7, <2>8, <3>1, <3>2, OneThread
  <2>10. TypeOK'
    <3>1. handlers' \in [Proc -> Handler \cup {None}] /\ resolution' \in [Decision -> Resolution \cup {None}]
      BY <2>1, <2>2, <2>3, Tables
    <3>2. \A d \in Decision : Resolved(d)' => resolution'[d].event \in events'
      BY <1>2, <1>3, <2>2, <2>4, Tables DEF Resolved
    <3>. QED  BY <1>2, <3>1, <3>2, Tables DEF TypeOK
  <2>11. RowEvents'
    <3>1. \A e \in Decision : outcome[e] # h.event
      BY <1>1 DEF OwnEvent
    <3>. QED  BY <1>2, <1>3, <2>2, <2>4, <3>1 DEF DInv, RowEvents, Resolved
  <2>12. OnlyTheStoredChoiceIsLearned'
    <3> SUFFICES ASSUME NEW e \in evidence
                 PROVE  resolution'[e.decision] = [option |-> e.option, event |-> e.event]
      BY <1>2 DEF OnlyTheStoredChoiceIsLearned
    <3>1. e \in Learning /\ resolution[e.decision] = [option |-> e.option, event |-> e.event]
      BY Tables DEF DInv, OnlyTheStoredChoiceIsLearned
    <3>2. e.decision \in Decision /\ resolution[e.decision] \in Resolution
      BY <3>1 DEF Learning, Resolution
    <3>3. Resolved(e.decision)
      BY <3>2, Numbers DEF Resolved
    <3>. QED  BY <2>5, <3>1, <3>2, <3>3
  <2>13. AdviceIsNotOutrun'
    BY <1>2 DEF DInv, AdviceIsNotOutrun
  <2>. QED  BY <2>9, <2>10, <2>11, <2>12, <2>13 DEF DInv
<1>. QED  BY <1>4, <1>5

\* One more item of the evidence of a resolution.
LEMMA LearnStep ==
  ASSUME DInv, NEW p \in Proc, NEW i \in Item, Learn(p, i)
  PROVE  DInv'
<1> DEFINE h == handlers[p]
           new == [decision |-> h.decision, option |-> h.option, event |-> h.event, item |-> i]
           g == [h EXCEPT !.items = h.items \ {i}]
<1>1. /\ h # None /\ h \in Handler /\ Learns(p) /\ Advises(p)
      /\ h.at = "learn" /\ h.decision \in Decision
  BY Tables DEF Learn, At, DInv, Handler
<1>2. /\ UNCHANGED <<snapshot, decisions, resolution, outcome, events, prediction, advice, requests, asked>>
      /\ evidence' = evidence \cup {new} /\ handlers' = [handlers EXCEPT ![p] = g]
  BY Tables DEF Learn, counters
<1>3. h.option \in Option /\ h.event \in Event /\ h.items \subseteq Item
      /\ resolution[h.decision] = [option |-> h.option, event |-> h.event]
      /\ \A j \in Item \ h.items : \E e \in evidence : e.event = h.event /\ e.item = j
  BY <1>1 DEF Learns
<1>4. /\ g \in Handler /\ g # None /\ g.at = "learn" /\ g.event = h.event /\ g.option = h.option
      /\ g.items = h.items \ {i} /\ g.version = h.version /\ g.decision = h.decision
  BY <1>1, Numbers DEF Handler
<1>5. new \in Learning /\ new.event = h.event /\ new.item = i /\ new.decision = h.decision
      /\ new.option = h.option
  BY <1>1, <1>3 DEF Learning
<1> HIDE DEF g, new
<1>6. handlers'[p] = g /\ snapshot \in Nat /\ requests \in Nat
  BY <1>2, Tables, Numbers
<1>7. OwnEvent(p)' /\ ~Stores(p)'
  BY <1>4, <1>6 DEF OwnEvent, Stores
<1>8. Learns(p)'
  <2>1. \A j \in Item \ g.items : \E e \in evidence' : e.event = g.event /\ e.item = j
    BY <1>2, <1>3, <1>4, <1>5
  <2>. QED  BY <1>2, <1>3, <1>4, <1>6, <2>1 DEF Learns
<1>9. Advises(p)'
  BY <1>1, <1>2, <1>4, <1>6 DEF Advises
<1>10. /\ \A q \in Proc : OwnEvent(q)'
       /\ \A q \in Proc : handlers'[q] # None => Learns(q)' /\ Advises(q)'
  <2>1. snapshot <= snapshot' /\ snapshot' \in Nat /\ evidence \subseteq evidence'
        /\ requests <= requests' /\ requests' \in Nat
    BY <1>2, <1>6
  <2>. QED  BY <1>2, <1>4, <1>7, <1>8, <1>9, <2>1, OneThread
<1>11. TypeOK'
  <2>1. handlers' \in [Proc -> Handler \cup {None}] /\ evidence' \subseteq Learning
    BY <1>2, <1>4, <1>5, Tables
  <2>. QED  BY <1>2, <2>1, Tables DEF TypeOK, Resolved
<1>12. RowEvents' /\ AdviceIsNotOutrun'
  BY <1>2 DEF DInv, RowEvents, AdviceIsNotOutrun, Resolved
<1>13. OnlyTheStoredChoiceIsLearned'
  BY <1>2, <1>3, <1>5 DEF DInv, OnlyTheStoredChoiceIsLearned
<1>. QED  BY <1>10, <1>11, <1>12, <1>13 DEF DInv

-----------------------------------------------------------------------------
\* The unique outcome of a decision.
LEMMA AddOutcomeStep ==
  ASSUME DInv, NEW p \in Proc, AddOutcome(p)
  PROVE  DInv'
<1> DEFINE h == handlers[p]
<1>1. /\ h # None /\ h \in Handler /\ Stores(p) /\ OwnEvent(p) /\ h.at = "outcome" /\ h.decision \in Decision
  BY Tables DEF AddOutcome, At, Stores, DInv, Handler
<1>2. /\ UNCHANGED <<snapshot, decisions, resolution, evidence, events, prediction, advice, requests, asked>>
      /\ outcome' = IF outcome[h.decision] = None THEN [outcome EXCEPT ![h.decision] = h.event] ELSE outcome
      /\ handlers' = [handlers EXCEPT ![p] = None]
  BY DEF AddOutcome, counters, Done
<1>3. /\ requests \in 0..MaxRequest /\ snapshot \in Nat /\ requests \in Nat
      /\ h.event \in 1..requests /\ h.event \in Event /\ h.event \in events
  BY <1>1, Tables, Numbers DEF OwnEvent, Event
<1>4. \A d \in Decision : \/ outcome'[d] = outcome[d]
                          \/ d = h.decision /\ outcome[d] = None /\ outcome'[d] = h.event
  BY <1>1, <1>2, Tables
<1>5. OwnEvent(p)' /\ ~Stores(p)'
  BY <1>2, Tables, Idle
<1>6. /\ \A q \in Proc : OwnEvent(q)'
      /\ \A q \in Proc : handlers'[q] # None => Learns(q)' /\ Advises(q)'
  <2>1. \A q \in Proc \ {p} : Stores(q) =>
          /\ handlers[q].event \in events => handlers[q].event \in events'
          /\ \A d \in Decision :
               /\ resolution'[d] = resolution[d] \/ resolution'[d].event # handlers[q].event
               /\ outcome'[d] = outcome[d] \/ outcome'[d] # handlers[q].event
    BY <1>1, <1>2, <1>4 DEF OwnEvent
  <2>2. snapshot <= snapshot' /\ snapshot' \in Nat /\ evidence \subseteq evidence'
        /\ requests <= requests' /\ requests' \in Nat
    BY <1>2, <1>3
  <2>. QED  BY <1>2, <1>5, <2>1, <2>2, OneThread
<1>7. TypeOK'
  <2>1. handlers' \in [Proc -> Handler \cup {None}] /\ outcome' \in [Decision -> Event \cup {None}]
    BY <1>2, <1>3, Tables
  <2>2. \A d \in Decision : outcome'[d] # None => outcome'[d] \in events'
    BY <1>2, <1>3, <1>4, Tables
  <2>. QED  BY <1>2, <2>1, <2>2, Tables DEF TypeOK, Resolved
<1>8. RowEvents'
  <2>1. \A d \in Decision : /\ Resolved(d) => resolution[d].event # h.event
                            /\ outcome[d] # h.event
    BY <1>1 DEF OwnEvent
  <2>. QED  BY <1>2, <1>3, <1>4, <2>1 DEF DInv, RowEvents, Resolved
<1>9. OnlyTheStoredChoiceIsLearned' /\ AdviceIsNotOutrun'
  BY <1>2 DEF DInv, OnlyTheStoredChoiceIsLearned, AdviceIsNotOutrun
<1>. QED  BY <1>6, <1>7, <1>8, <1>9 DEF DInv

\* An outcome is deleted with its event, which is no one else's.
LEMMA DeleteOutcomeStep ==
  ASSUME DInv, NEW d \in Decision, DeleteOutcome(d)
  PROVE  DInv'
<1>1. /\ UNCHANGED <<snapshot, decisions, resolution, evidence, prediction, requests, asked, handlers>>
      /\ advice' = {} /\ events' = events \ {outcome[d]} /\ outcome' = [outcome EXCEPT ![d] = None]
      /\ outcome[d] # None
  BY DEF DeleteOutcome, counters
<1>2. outcome'[d] = None /\ \A e \in Decision \ {d} : outcome'[e] = outcome[e]
  BY <1>1, Tables
<1>3. TypeOK'
  <2>1. outcome' \in [Decision -> Event \cup {None}]
    BY <1>1, Tables
  <2>2. \A e \in Decision : /\ outcome'[e] # None => outcome'[e] \in events'
                            /\ Resolved(e) => resolution[e].event \in events'
    BY <1>1, <1>2, Tables DEF DInv, RowEvents
  <2>. QED  BY <1>1, <2>1, <2>2, Tables DEF TypeOK, Resolved
<1>4. RowEvents'
  <2>1. ASSUME NEW e \in Decision
        PROVE  /\ Resolved(e)' => resolution'[e].event \in 1..requests'
               /\ outcome'[e] # None => outcome'[e] \in 1..requests'
    BY <1>1, <1>2 DEF DInv, RowEvents, Resolved
  <2>2. ASSUME NEW e \in Decision, NEW f \in Decision, Resolved(e)'
        PROVE  outcome'[f] # resolution'[e].event
    <3>1. resolution[e].event \in Event /\ outcome[f] # resolution[e].event
      BY <1>1, <2>2, Tables DEF DInv, RowEvents, Resolved
    <3>. QED  BY <1>1, <1>2, <3>1, Numbers
  <2>3. ASSUME NEW e \in Decision, NEW f \in Decision, outcome'[e] # None, e # f
        PROVE  outcome'[f] # outcome'[e]
    BY <1>1, <1>2, <2>3 DEF DInv, RowEvents
  <2>. QED  BY <2>1, <2>2, <2>3 DEF RowEvents
<1>5. ASSUME NEW p \in Proc PROVE OwnEvent(p)'
  <2>1. \A q \in Proc : Stores(q)' <=> Stores(q)
    BY <1>1 DEF Stores
  <2>2. Stores(p) => None # handlers[p].event
    <3>1. Stores(p) => handlers[p].event \in Event
      BY Tables, Numbers DEF DInv, OwnEvent, Event
    <3>. QED  BY <3>1, Numbers
  <2>. QED  BY <1>1, <1>2, <2>1, <2>2 DEF DInv, OwnEvent, Resolved
<1>6. \A p \in Proc : handlers'[p] # None => Learns(p)' /\ Advises(p)'
  BY <1>1 DEF DInv, Learns, Advises
<1>7. OnlyTheStoredChoiceIsLearned' /\ AdviceIsNotOutrun'
  BY <1>1 DEF DInv, OnlyTheStoredChoiceIsLearned, AdviceIsNotOutrun
<1>. QED  BY <1>3, <1>4, <1>5, <1>6, <1>7 DEF DInv

LEMMA OtherStep ==
  ASSUME DInv, Rebuild \/ \E d \in Decision : Create(d)
  PROVE  DInv'
<1>1. UNCHANGED <<resolution, evidence, outcome, events, prediction, advice, requests, asked, handlers>>
  BY DEF Rebuild, Create, tables, counters
<1>2. decisions' \subseteq Decision /\ snapshot' \in 1..MaxSnapshot /\ snapshot <= snapshot' /\ snapshot \in Nat
  BY Tables, Numbers DEF Rebuild, Create
<1>3. TypeOK'
  BY <1>1, <1>2, Tables DEF TypeOK, Resolved
<1>4. \A p \in Proc : OwnEvent(p)'
  BY <1>1 DEF DInv, OwnEvent, Stores, Resolved
<1>5. ASSUME NEW p \in Proc, handlers'[p] # None PROVE Learns(p)' /\ Advises(p)'
  <2>1. handlers[p].version \in Nat
    BY <1>1, <1>5, Tables, Numbers DEF Handler
  <2>. QED  BY <1>1, <1>2, <1>5, <2>1 DEF DInv, Learns, Advises
<1>6. RowEvents' /\ OnlyTheStoredChoiceIsLearned' /\ AdviceIsNotOutrun'
  BY <1>1 DEF DInv, RowEvents, OnlyTheStoredChoiceIsLearned, AdviceIsNotOutrun, Resolved
<1>. QED  BY <1>3, <1>4, <1>5, <1>6 DEF DInv

-----------------------------------------------------------------------------
\* A thread that predicts or advises moves on, having at most a date of its own
\* and perhaps a prediction stored.
LEMMA ThinkStep ==
  ASSUME DInv, NEW p \in Proc, NEW g \in Handler, handlers' = [handlers EXCEPT ![p] = g],
         g.at \in {"predict_snapshot", "predict", "advise", "prediction", "history", "outcomes", "advice"},
         UNCHANGED <<snapshot, decisions, resolution, evidence, outcome, events, advice, requests>>,
         asked' \in 0..MaxPredict,
         prediction' \in [Decision -> [asked : 0..MaxPredict, version : 0..MaxSnapshot]],
         g.version <= snapshot,
         g.at = "predict" => g.predicted >= g.version,
         g.at \in {"prediction", "history", "outcomes", "advice"} => g.version >= 1,
         g.at \in {"history", "outcomes", "advice"} => g.predicted >= g.version,
         g.at = "advice" => g.items \subseteq Event
  PROVE  DInv'
<1>1. OwnEvent(p)' /\ ~Stores(p)' /\ handlers'[p] = g
  BY Tables, Idle
<1>2. Learns(p)' /\ Advises(p)'
  BY <1>1 DEF Learns, Advises
<1>3. /\ snapshot <= snapshot' /\ snapshot' \in 1..MaxSnapshot /\ requests <= requests'
      /\ requests' \in 0..MaxRequest /\ events \subseteq events' /\ events' \subseteq Event
  BY Tables, Numbers
<1>. QED  BY <1>1, <1>2, <1>3, QuietStep

LEMMA AskStep ==
  ASSUME DInv, NEW p \in Proc, NEW d \in Decision, BeginPredict(p, d) \/ BeginAdvise(p, d)
  PROVE  DInv'
<1>1. PICK step \in {"predict_snapshot", "advise"}, n \in 0..MaxPredict :
        handlers' = [handlers EXCEPT ![p] = Asking(step, d, n)] /\ asked' \in 0..MaxPredict
  <2>1. CASE BeginPredict(p, d)
    <3>1. asked + 1 \in 0..MaxPredict /\ asked' = asked + 1
      BY <2>1, Tables, Numbers DEF BeginPredict
    <3>. QED  BY <2>1, <3>1 DEF BeginPredict, Start
  <2>2. CASE BeginAdvise(p, d)
    <3>1. 0 \in 0..MaxPredict /\ asked' = asked
      BY <2>2, Numbers DEF BeginAdvise, counters
    <3>. QED  BY <2>2, <3>1, Tables DEF BeginAdvise, Start
  <2>. QED  BY <2>1, <2>2
<1> DEFINE g == Asking(step, d, n)
<1>2. g \in Handler /\ g.at = step /\ g.version = 0
  BY Numbers DEF Asking, Handler
<1>3. UNCHANGED <<snapshot, decisions, resolution, evidence, outcome, events, prediction, advice, requests>>
  BY DEF BeginPredict, BeginAdvise, tables, counters
<1> HIDE DEF g
<1>4. g.version <= snapshot
  BY <1>2, Tables, Numbers
<1>. QED  BY <1>1, <1>2, <1>3, <1>4, Tables, ThinkStep DEF g

LEMMA SnapshotsStep ==
  ASSUME DInv, NEW p \in Proc, PredictSnapshot(p) \/ AdviseSnapshot(p)
  PROVE  DInv'
<1> DEFINE h == handlers[p]
<1>1. h # None /\ h \in Handler /\ Advises(p) /\ snapshot \in 1..MaxSnapshot /\ snapshot \in 0..MaxSnapshot
  BY Tables, Numbers DEF PredictSnapshot, AdviseSnapshot, At, DInv
<1>2. UNCHANGED <<snapshot, decisions, resolution, evidence, outcome, events, prediction, advice, requests, asked>>
  BY DEF PredictSnapshot, AdviseSnapshot, tables, counters
<1>3. CASE PredictSnapshot(p)
  <2> DEFINE g == [h EXCEPT !.at = "predict", !.predicted = snapshot]
  <2>1. handlers' = [handlers EXCEPT ![p] = g]
    BY <1>3, Tables DEF PredictSnapshot
  <2>2. g \in Handler /\ g.at = "predict" /\ g.predicted = snapshot /\ g.version = h.version
    BY <1>1 DEF Handler
  <2>3. g.version <= snapshot /\ g.predicted >= g.version
    BY <1>1, <2>2 DEF Advises, Handler
  <2> HIDE DEF g
  <2>. QED  BY <1>2, <2>1, <2>2, <2>3, Tables, ThinkStep
<1>4. CASE AdviseSnapshot(p)
  <2> DEFINE g == [h EXCEPT !.at = "prediction", !.version = snapshot]
  <2>1. handlers' = [handlers EXCEPT ![p] = g]
    BY <1>4, Tables DEF AdviseSnapshot
  <2>2. g \in Handler /\ g.at = "prediction" /\ g.version = snapshot
    BY <1>1 DEF Handler
  <2>3. g.version <= snapshot /\ g.version >= 1
    BY <1>1, <2>2
  <2> HIDE DEF g
  <2>. QED  BY <1>2, <2>1, <2>2, <2>3, Tables, ThinkStep
<1>. QED  BY <1>3, <1>4

LEMMA AddPredictionStep ==
  ASSUME DInv, NEW p \in Proc, AddPrediction(p)
  PROVE  DInv'
<1> DEFINE h == handlers[p]
<1>1. h # None /\ h \in Handler /\ Advises(p) /\ h.at = "predict"
  BY Tables DEF AddPrediction, At, DInv
<1>2. /\ h.decision \in Decision /\ h.asked \in 0..MaxPredict /\ h.predicted \in 0..MaxSnapshot
      /\ h.version \in 0..MaxSnapshot /\ h.version <= snapshot /\ h.predicted >= h.version
  BY <1>1 DEF Handler, Advises
<1>3. UNCHANGED <<snapshot, decisions, resolution, evidence, outcome, events, advice, requests, asked>>
  BY DEF AddPrediction, counters
<1>4. prediction' \in [Decision -> [asked : 0..MaxPredict, version : 0..MaxSnapshot]]
  BY <1>2, Tables DEF AddPrediction
<1>5. CASE h.version = 0
  <2>1. Done(p)
    BY <1>5 DEF AddPrediction
  <2>2. UNCHANGED counters /\ snapshot <= snapshot' /\ snapshot' \in 1..MaxSnapshot
    BY <1>3, Tables, Numbers DEF counters
  <2>. QED  BY <1>3, <1>4, <2>1, <2>2, EndStep
<1>6. CASE h.version # 0
  <2> DEFINE g == [h EXCEPT !.at = "history"]
  <2>1. handlers' = [handlers EXCEPT ![p] = g]
    BY <1>6, Tables DEF AddPrediction, Goto
  <2>2. g \in Handler /\ g.at = "history" /\ g.predicted = h.predicted /\ g.version = h.version
    BY <1>1 DEF Handler
  <2>3. g.version <= snapshot /\ g.predicted >= g.version /\ g.version >= 1
    BY <1>2, <1>6, <2>2, Numbers
  <2> HIDE DEF g
  <2>. QED  BY <1>3, <1>4, <2>1, <2>2, <2>3, Tables, ThinkStep
<1>. QED  BY <1>5, <1>6

LEMMA ReadPredictionStep ==
  ASSUME DInv, NEW p \in Proc, ReadPrediction(p)
  PROVE  DInv'
<1> DEFINE h == handlers[p]
<1>1. h # None /\ h \in Handler /\ Advises(p) /\ h.at = "prediction"
  BY Tables DEF ReadPrediction, At, DInv
<1>2. h.version \in 0..MaxSnapshot /\ h.version <= snapshot /\ h.version >= 1
  BY <1>1 DEF Handler, Advises
<1>3. UNCHANGED <<snapshot, decisions, resolution, evidence, outcome, events, prediction, advice, requests>>
  BY DEF ReadPrediction, tables
<1>4. CASE handlers' = [handlers EXCEPT ![p].at = "history", ![p].predicted = h.version] /\ UNCHANGED asked
  <2> DEFINE g == [h EXCEPT !.at = "history", !.predicted = h.version]
  <2>1. handlers' = [handlers EXCEPT ![p] = g]
    BY <1>4, Tables
  <2>2. g \in Handler /\ g.at = "history" /\ g.predicted = h.version /\ g.version = h.version
    BY <1>1, <1>2 DEF Handler
  <2>3. g.version <= snapshot /\ g.predicted >= g.version /\ g.version >= 1
    BY <1>2, <2>2, Numbers
  <2> HIDE DEF g
  <2>. QED  BY <1>3, <1>4, <2>1, <2>2, <2>3, Tables, ThinkStep
<1>5. CASE /\ asked < MaxPredict /\ asked' = asked + 1
           /\ handlers' = [handlers EXCEPT ![p].at = "predict_snapshot", ![p].asked = asked + 1]
  <2> DEFINE g == [h EXCEPT !.at = "predict_snapshot", !.asked = asked + 1]
  <2>1. handlers' = [handlers EXCEPT ![p] = g]
    BY <1>5, Tables
  <2>2. asked + 1 \in 0..MaxPredict
    BY <1>5, Tables, Numbers
  <2>3. g \in Handler /\ g.at = "predict_snapshot" /\ g.version = h.version
    BY <1>1, <2>2 DEF Handler
  <2>4. g.version <= snapshot
    BY <1>2, <2>3
  <2> HIDE DEF g
  <2>. QED  BY <1>3, <1>5, <2>1, <2>2, <2>3, <2>4, Tables, ThinkStep
<1>6. CASE Done(p) /\ UNCHANGED asked
  <2>1. UNCHANGED counters /\ snapshot <= snapshot' /\ snapshot' \in 1..MaxSnapshot
    BY <1>3, <1>6, Tables, Numbers DEF counters
  <2>. QED  BY <1>3, <1>6, <2>1, Tables, EndStep
<1>. QED  BY <1>4, <1>5, <1>6 DEF ReadPrediction

LEMMA ReadHistoryStep ==
  ASSUME DInv, NEW p \in Proc, ReadResolved(p) \/ ReadOutcomes(p)
  PROVE  DInv'
<1> DEFINE h == handlers[p]
<1>1. h # None /\ h \in Handler /\ Advises(p) /\ h.at \in {"history", "outcomes"}
  BY Tables DEF ReadResolved, ReadOutcomes, At, DInv
<1>2. h.version <= snapshot /\ h.version >= 1 /\ h.predicted >= h.version
  BY <1>1 DEF Advises
<1>3. UNCHANGED <<snapshot, decisions, resolution, evidence, outcome, events, prediction, advice, requests, asked>>
  BY DEF ReadResolved, ReadOutcomes, tables, counters
<1>4. CASE ReadResolved(p)
  <2> DEFINE rs == {d \in Decision : Resolved(d)}
             g == [h EXCEPT !.at = "outcomes", !.resolved = rs]
  <2>1. handlers' = [handlers EXCEPT ![p] = g]
    BY <1>4, Tables DEF ReadResolved
  <2>2. rs \in SUBSET Decision
    OBVIOUS
  <2> HIDE DEF rs
  <2>3. g \in Handler /\ g.at = "outcomes" /\ g.version = h.version /\ g.predicted = h.predicted
    BY <1>1, <2>2 DEF Handler
  <2> HIDE DEF g
  <2>. QED  BY <1>2, <1>3, <2>1, <2>3, Tables, ThinkStep
<1>5. CASE ReadOutcomes(p)
  <2> DEFINE os == {outcome[d] : d \in {e \in h.resolved : outcome[e] # None}}
             g == [h EXCEPT !.at = "advice", !.items = os]
  <2>1. handlers' = [handlers EXCEPT ![p] = g]
    BY <1>5, Tables DEF ReadOutcomes
  <2>2. os \in SUBSET Event
    <3>1. h.resolved \subseteq Decision
      BY <1>1 DEF Handler
    <3>. QED  BY <3>1, Tables
  <2> HIDE DEF os
  <2>3. g \in Handler /\ g.at = "advice" /\ g.version = h.version /\ g.predicted = h.predicted /\ g.items = os
    BY <1>1, <2>2 DEF Handler
  <2> HIDE DEF g
  <2>. QED  BY <1>2, <1>3, <2>1, <2>2, <2>3, Tables, ThinkStep
<1>. QED  BY <1>4, <1>5

LEMMA AddAdviceStep ==
  ASSUME DInv, NEW p \in Proc, AddAdvice(p)
  PROVE  DInv'
<1> DEFINE h == handlers[p]
           new == [decision |-> h.decision, version |-> h.version, predicted |-> h.predicted,
                   outcomes |-> h.items]
<1>1. h # None /\ h \in Handler /\ Advises(p) /\ h.at = "advice"
  BY Tables DEF AddAdvice, At, DInv
<1>2. /\ UNCHANGED <<snapshot, decisions, resolution, evidence, outcome, events, prediction, requests, asked>>
      /\ advice' = advice \cup {new} /\ handlers' = [handlers EXCEPT ![p] = None]
  BY DEF AddAdvice, counters, Done
<1>3. new \in Advice /\ new.predicted >= new.version
  <2>1. h.version \in 0..MaxSnapshot /\ h.predicted \in 0..MaxSnapshot /\ h.decision \in Decision
    BY <1>1 DEF Handler
  <2>2. h.version >= 1 /\ h.predicted >= h.version /\ h.items \subseteq Event
    BY <1>1 DEF Advises
  <2>3. h.version \in 1..MaxSnapshot /\ h.predicted \in 1..MaxSnapshot
    BY <2>1, <2>2, Numbers
  <2>. QED  BY <2>1, <2>2, <2>3 DEF Advice
<1> HIDE DEF new
<1>4. OwnEvent(p)' /\ ~Stores(p)'
  BY <1>2, Tables, Idle
<1>5. /\ \A q \in Proc : OwnEvent(q)'
      /\ \A q \in Proc : handlers'[q] # None => Learns(q)' /\ Advises(q)'
  <2>1. snapshot <= snapshot' /\ snapshot' \in Nat /\ requests <= requests' /\ requests' \in Nat
    BY <1>2, Tables, Numbers
  <2>. QED  BY <1>2, <1>4, <2>1, OneThread
<1>6. TypeOK'
  <2>1. handlers' \in [Proc -> Handler \cup {None}] /\ advice' \subseteq Advice
    BY <1>2, <1>3, Tables
  <2>. QED  BY <1>2, <2>1, Tables DEF TypeOK, Resolved
<1>7. RowEvents' /\ OnlyTheStoredChoiceIsLearned'
  BY <1>2 DEF DInv, RowEvents, OnlyTheStoredChoiceIsLearned, Resolved
<1>8. AdviceIsNotOutrun'
  BY <1>2, <1>3 DEF DInv, AdviceIsNotOutrun
<1>. QED  BY <1>5, <1>6, <1>7, <1>8 DEF DInv

-----------------------------------------------------------------------------
LEMMA DInit == Init => DInv
<1> SUFFICES ASSUME Init PROVE DInv
  OBVIOUS
<1>1. TypeOK
  BY Numbers DEF Init, TypeOK, Resolved
<1>. QED  BY <1>1 DEF Init, DInv, RowEvents, OwnEvent, Stores, Resolved,
                      OnlyTheStoredChoiceIsLearned, AdviceIsNotOutrun

LEMMA DStep == DInv /\ [Next]_vars => DInv'
<1> SUFFICES ASSUME DInv, [Next]_vars PROVE DInv'
  OBVIOUS
<1>1. ASSUME NEW d \in Decision, Create(d) \/ DeleteOutcome(d) PROVE DInv'
  BY <1>1, OtherStep, DeleteOutcomeStep
<1>2. ASSUME NEW p \in Proc, NEW d \in Decision, NEW o \in Option, BeginResolve(p, d, o) PROVE DInv'
  BY <1>2, StartStep DEF BeginResolve
<1>3. ASSUME NEW p \in Proc, NEW d \in Decision, BeginOutcome(p, d) PROVE DInv'
  BY <1>3, StartStep DEF BeginOutcome
<1>4. ASSUME NEW p \in Proc, NEW d \in Decision, BeginPredict(p, d) \/ BeginAdvise(p, d) PROVE DInv'
  BY <1>4, AskStep
<1>5. ASSUME NEW p \in Proc,
             \/ AddResolutionEvent(p) \/ Resolve(p) \/ (\E i \in Item : Learn(p, i))
             \/ AddOutcomeEvent(p) \/ AddOutcome(p)
      PROVE  DInv'
  BY <1>5, EventStep, ResolveStep, LearnStep, AddOutcomeStep
<1>6. ASSUME NEW p \in Proc,
             \/ PredictSnapshot(p) \/ AddPrediction(p) \/ AdviseSnapshot(p)
             \/ ReadPrediction(p) \/ ReadResolved(p) \/ ReadOutcomes(p) \/ AddAdvice(p)
      PROVE  DInv'
  BY <1>6, SnapshotsStep, AddPredictionStep, ReadPredictionStep, ReadHistoryStep, AddAdviceStep
<1>7. ASSUME NEW p \in Proc, ResolveAnswered(p) \/ Fail(p) PROVE DInv'
  <2>1. /\ UNCHANGED <<decisions, resolution, evidence, outcome, advice, events, prediction>>
        /\ UNCHANGED counters /\ Done(p)
    BY <1>7 DEF ResolveAnswered, Fail, tables
  <2>2. snapshot <= snapshot' /\ snapshot' \in 1..MaxSnapshot
    BY <1>7, Tables, Numbers DEF ResolveAnswered, Fail
  <2>. QED  BY <2>1, <2>2, Tables, EndStep
<1>8. CASE Rebuild
  BY <1>8, OtherStep
<1>9. CASE UNCHANGED vars
  <2>1. /\ UNCHANGED <<snapshot, decisions, resolution, evidence, outcome, events, prediction, advice>>
        /\ UNCHANGED <<requests, asked, handlers>>
    BY <1>9 DEF vars, tables, counters
  <2>. QED  BY <2>1 DEF DInv, TypeOK, RowEvents, OwnEvent, Stores, Learns, Advises, Resolved,
                        OnlyTheStoredChoiceIsLearned, AdviceIsNotOutrun
<1>. QED  BY <1>1, <1>2, <1>3, <1>4, <1>5, <1>6, <1>7, <1>8, <1>9 DEF Next

LEMMA DCorrect == Spec => []DInv
  BY DInit, DStep, PTL DEF Spec

\* Every variable keeps its type, and every row that names an event its event.
THEOREM DecisionsTyped == Spec => []TypeOK
<1>1. DInv => TypeOK
  BY DEF DInv
<1>. QED  BY <1>1, DCorrect, PTL

\* Whatever races, the evidence of a choice is of the stored resolution.
THEOREM StoredChoiceLearned == Spec => []OnlyTheStoredChoiceIsLearned
<1>1. DInv => OnlyTheStoredChoiceIsLearned
  BY DEF DInv
<1>. QED  BY <1>1, DCorrect, PTL

\* Advice rests on a prediction from its own snapshot or a later one.
THEOREM AdviceOnOwnModel == Spec => []AdviceIsNotOutrun
<1>1. DInv => AdviceIsNotOutrun
  BY DEF DInv
<1>. QED  BY <1>1, DCorrect, PTL

\* A resolution that is answered has been learned to the last item.
THEOREM AnsweredLearned == Spec => AnsweredIsLearned
<1>1. DInv /\ [Next]_vars =>
        [\A p \in Proc :
           At(p, "learn") /\ handlers'[p] = None /\ snapshot' # snapshot
           => \A i \in Item :
                \E e \in evidence : e.event = handlers[p].event /\ e.item = i]_vars
  <2> SUFFICES ASSUME DInv, Next, NEW p \in Proc,
                      At(p, "learn"), handlers'[p] = None, snapshot' # snapshot, NEW i \in Item
               PROVE  \E e \in evidence : e.event = handlers[p].event /\ e.item = i
    OBVIOUS
  <2>1. PICK q \in Proc : ResolveAnswered(q)
    <3>1. Rebuild => handlers' = handlers
      BY DEF Rebuild
    <3>2. handlers' # handlers
      BY DEF At
    <3>. QED  BY <3>1, <3>2 DEF Next, Create, DeleteOutcome, BeginOutcome, BeginPredict, BeginAdvise,
                BeginResolve, AddResolutionEvent, Resolve, Learn, AddOutcomeEvent, AddOutcome,
                PredictSnapshot, AddPrediction, AdviseSnapshot, ReadPrediction, ReadResolved,
                ReadOutcomes, AddAdvice, Fail
  <2>2. q = p
    BY <2>1, Tables DEF ResolveAnswered, Done, At
  <2>3. Learns(p) /\ handlers[p].at = "learn" /\ handlers[p].items = {}
    BY <2>1, <2>2 DEF DInv, At, ResolveAnswered
  <2>. QED  BY <2>3 DEF Learns
<1>. QED  BY <1>1, DCorrect, PTL DEF Spec, AnsweredIsLearned

-----------------------------------------------------------------------------
\* The outcomes that are stored.
StoredOutcomes == {outcome[d] : d \in {e \in Decision : outcome[e] # None}}

\* Stored advice rests on stored outcomes only: delete_outcome takes the advice
\* with the outcome, as its docstring says of every advice that used it.
AdviceRestsOnStoredOutcomes == \A a \in advice : a.outcomes \subseteq StoredOutcomes

\* The hypothesis: while a request has outcomes in hand for the advice that it
\* is about to store, none of these outcomes is deleted.
OutcomesKeptWhileAdvising ==
  [][\A p \in Proc : At(p, "advice") =>
       handlers[p].items \cap StoredOutcomes \subseteq StoredOutcomes']_vars

\* A request about to store advice has stored outcomes in hand.
AdvisesOnStored(p) == At(p, "advice") => handlers[p].items \subseteq StoredOutcomes

RestInv == AdviceRestsOnStoredOutcomes /\ \A p \in Proc : AdvisesOnStored(p)

\* Advice comes from the thread that stores it; an outcome goes with the advice.
LEMMA AdviceMoves ==
  ASSUME DInv, Next
  PROVE  \/ advice' = {}
         \/ /\ StoredOutcomes \subseteq StoredOutcomes'
            /\ \/ advice' = advice
               \/ \E p \in Proc : AddAdvice(p)
<1>1. ASSUME NEW p \in Proc, AddOutcome(p) PROVE StoredOutcomes \subseteq StoredOutcomes' /\ advice' = advice
  <2>1. \A d \in Decision : outcome[d] # None => outcome'[d] = outcome[d]
    BY <1>1, Tables DEF AddOutcome
  <2>. QED  BY <1>1, <2>1 DEF StoredOutcomes, AddOutcome
<1>2. ASSUME outcome' = outcome PROVE StoredOutcomes' = StoredOutcomes
  BY <1>2 DEF StoredOutcomes
<1>3. ASSUME NEW d \in Decision, DeleteOutcome(d) PROVE advice' = {}
  BY <1>3 DEF DeleteOutcome
<1>4. ASSUME NEW p \in Proc, NEW d \in Decision,
             \/ BeginOutcome(p, d) \/ BeginPredict(p, d) \/ BeginAdvise(p, d)
             \/ \E o \in Option : BeginResolve(p, d, o)
      PROVE  outcome' = outcome /\ advice' = advice
  BY <1>4 DEF BeginOutcome, BeginPredict, BeginAdvise, BeginResolve, tables
<1>5. ASSUME NEW p \in Proc,
             \/ AddResolutionEvent(p) \/ Resolve(p) \/ (\E i \in Item : Learn(p, i))
             \/ ResolveAnswered(p) \/ AddOutcomeEvent(p) \/ Fail(p)
      PROVE  outcome' = outcome /\ advice' = advice
  BY <1>5 DEF AddResolutionEvent, Resolve, Learn, ResolveAnswered, AddOutcomeEvent, Fail, tables
<1>6. ASSUME NEW p \in Proc,
             \/ PredictSnapshot(p) \/ AddPrediction(p) \/ AdviseSnapshot(p)
             \/ ReadPrediction(p) \/ ReadResolved(p) \/ ReadOutcomes(p)
      PROVE  outcome' = outcome /\ advice' = advice
  BY <1>6 DEF PredictSnapshot, AddPrediction, AdviseSnapshot, ReadPrediction, ReadResolved,
              ReadOutcomes, tables
<1>7. \A p \in Proc : AddAdvice(p) => outcome' = outcome
  BY DEF AddAdvice
<1>8. ASSUME Rebuild \/ \E d \in Decision : Create(d) PROVE outcome' = outcome /\ advice' = advice
  BY <1>8 DEF Rebuild, Create, tables
<1>. QED  BY <1>1, <1>2, <1>3, <1>4, <1>5, <1>6, <1>7, <1>8 DEF Next

\* A thread comes to its advice by reading the outcomes.
LEMMA AdvisingMoves ==
  ASSUME DInv, Next, NEW p \in Proc, At(p, "advice")'
  PROVE  (At(p, "advice") /\ handlers'[p] = handlers[p]) \/ ReadOutcomes(p)
<1>0. handlers \in [Proc -> Handler \cup {None}] /\ handlers'[p] # None /\ handlers'[p].at = "advice"
  BY Tables DEF At
<1>1. ASSUME handlers'[p] = handlers[p] PROVE At(p, "advice")
  BY <1>0, <1>1 DEF At
<1>2. ASSUME NEW q \in Proc, NEW g \in {"event", "outcome_event", "predict_snapshot", "advise"},
             NEW h, h.at = g, handlers' = [handlers EXCEPT ![q] = h]
      PROVE  handlers'[p] = handlers[p]
  BY <1>0, <1>2
<1>3. ASSUME NEW q \in Proc, Done(q) PROVE handlers'[p] = handlers[p]
  BY <1>0, <1>3 DEF Done
<1>4. ASSUME NEW q \in Proc, NEW d \in Decision,
             \/ BeginOutcome(q, d) \/ BeginPredict(q, d) \/ BeginAdvise(q, d)
             \/ \E o \in Option : BeginResolve(q, d, o)
      PROVE  handlers'[p] = handlers[p]
  BY <1>2, <1>4 DEF BeginOutcome, BeginPredict, BeginAdvise, BeginResolve, Start, Asking, Storing
<1>5. ASSUME NEW q \in Proc,
             \/ AddResolutionEvent(q) \/ Resolve(q) \/ (\E i \in Item : Learn(q, i))
             \/ ResolveAnswered(q) \/ AddOutcomeEvent(q) \/ AddOutcome(q) \/ AddAdvice(q) \/ Fail(q)
      PROVE  handlers'[p] = handlers[p]
  BY <1>0, <1>3, <1>5
     DEF AddResolutionEvent, Resolve, Learn, ResolveAnswered, AddOutcomeEvent, AddOutcome, AddAdvice,
         Fail, Goto, At, Handler
<1>6. ASSUME NEW q \in Proc,
             PredictSnapshot(q) \/ AddPrediction(q) \/ AdviseSnapshot(q) \/ ReadPrediction(q) \/ ReadResolved(q)
      PROVE  handlers'[p] = handlers[p]
  BY <1>0, <1>3, <1>6
     DEF PredictSnapshot, AddPrediction, AdviseSnapshot, ReadPrediction, ReadResolved, Goto, At, Handler
<1>7. ASSUME NEW q \in Proc, ReadOutcomes(q), q # p PROVE handlers'[p] = handlers[p]
  BY <1>0, <1>7 DEF ReadOutcomes
<1>8. ASSUME NEW d \in Decision, Create(d) \/ DeleteOutcome(d) \/ Rebuild PROVE handlers'[p] = handlers[p]
  BY <1>8 DEF Create, DeleteOutcome, Rebuild
<1>9. Rebuild => handlers'[p] = handlers[p]
  BY DEF Rebuild
<1>. QED  BY <1>1, <1>4, <1>5, <1>6, <1>7, <1>8, <1>9 DEF Next

LEMMA RestStep ==
  DInv /\ RestInv /\ [Next]_vars
  /\ [\A p \in Proc : At(p, "advice") =>
        handlers[p].items \cap StoredOutcomes \subseteq StoredOutcomes']_vars
  => RestInv'
<1> SUFFICES ASSUME DInv, RestInv, [Next]_vars,
                    [\A p \in Proc : At(p, "advice") =>
                       handlers[p].items \cap StoredOutcomes \subseteq StoredOutcomes']_vars
             PROVE  RestInv'
  OBVIOUS
<1>1. CASE UNCHANGED vars
  BY <1>1 DEF RestInv, AdviceRestsOnStoredOutcomes, AdvisesOnStored, StoredOutcomes, At, vars, tables
<1>2. CASE Next /\ vars' # vars
  <2>1. \A p \in Proc : At(p, "advice") => handlers[p].items \subseteq StoredOutcomes'
    BY <1>2 DEF RestInv, AdvisesOnStored
  <2>2. AdviceRestsOnStoredOutcomes'
    <3>1. CASE advice' = {}
      BY <3>1 DEF AdviceRestsOnStoredOutcomes
    <3>2. CASE StoredOutcomes \subseteq StoredOutcomes' /\ advice' = advice
      BY <3>2 DEF RestInv, AdviceRestsOnStoredOutcomes
    <3>3. ASSUME NEW p \in Proc, AddAdvice(p), StoredOutcomes \subseteq StoredOutcomes'
          PROVE  AdviceRestsOnStoredOutcomes'
      BY <2>1, <3>3 DEF RestInv, AdviceRestsOnStoredOutcomes, AddAdvice
    <3>. QED  BY <1>2, <3>1, <3>2, <3>3, AdviceMoves
  <2>3. ASSUME NEW p \in Proc, At(p, "advice")' PROVE handlers'[p].items \subseteq StoredOutcomes'
    <3>1. CASE At(p, "advice") /\ handlers'[p] = handlers[p]
      BY <2>1, <3>1
    <3>2. CASE ReadOutcomes(p)
      <4>1. handlers[p] \in Handler /\ handlers[p].resolved \subseteq Decision
        BY <3>2, Tables DEF ReadOutcomes, At, Handler
      <4>2. handlers'[p].items = {outcome[d] : d \in {e \in handlers[p].resolved : outcome[e] # None}}
        BY <3>2, <4>1, Tables DEF ReadOutcomes
      <4>3. StoredOutcomes' = StoredOutcomes
        BY <3>2 DEF ReadOutcomes, tables, StoredOutcomes
      <4>. QED  BY <4>1, <4>2, <4>3 DEF StoredOutcomes
    <3>. QED  BY <1>2, <2>3, <3>1, <3>2, AdvisingMoves
  <2>. QED  BY <2>2, <2>3 DEF RestInv, AdvisesOnStored
<1>. QED  BY <1>1, <1>2

\* Advice that outlives an outcome it rests on has one cause: a deletion between
\* the read of the outcomes and the insert of the advice.
THEOREM AdviceRests == Spec /\ OutcomesKeptWhileAdvising => []AdviceRestsOnStoredOutcomes
<1>1. Init => RestInv
  BY DEF Init, RestInv, AdviceRestsOnStoredOutcomes, AdvisesOnStored, At
<1>2. RestInv => AdviceRestsOnStoredOutcomes
  BY DEF RestInv
<1>. QED  BY <1>1, <1>2, RestStep, DCorrect, PTL DEF Spec, OutcomesKeptWhileAdvising
=============================================================================
