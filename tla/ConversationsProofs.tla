------------------------ MODULE ConversationsProofs ------------------------
(***************************************************************************)
(* The safety of deferred learning, for any number of messages, attempts   *)
(* and statements that a provider may find.                                *)
(***************************************************************************)
EXTENDS Conversations, TLAPS

ChatState == {"idle", "ask", "answered", "failed"} \cup Writing
JobState == {"absent", "queued", "running", "succeeded", "failed"}

Tables ==
  /\ status \in [Job -> JobState] /\ attempts \in [Job -> Nat]
  /\ chat \in [Job -> ChatState] /\ home \in [Job -> {"own", "import"}]
  /\ import \in {"none", "stored", "removed"}
  /\ handler \in Handler \cup {None} /\ current \in Job \cup {NoJob}
  /\ found \in [Job -> SUBSET SUBSET Item]
  /\ evidence \subseteq [message : Job, item : Item, attempt : Nat]

\* A job exists for exactly the messages whose chat was answered, and each chat
\* has stored what comes before its next write, unless its import is gone.
Told ==
  \A m \in Job :
    /\ chat[m] = "answered" <=> status[m] # "absent"
    /\ home[m] = "import" => import # "none"
    /\ chat[m] \in {"event", "answer", "touch", "enqueue", "answered"} =>
         m \in messages \/ ~HasHome(m)
    /\ chat[m] \in {"answer", "touch", "enqueue", "answered"} => m \in events
    /\ chat[m] \in {"touch", "enqueue", "answered"} => m \in replies \/ ~HasHome(m)

\* The worker's job is RUNNING, so that no one else touches its row.
Held ==
  /\ handler # None => worker = "handling"
  /\ worker \in {"handling", "succeeding", "failing"} =>
       current \in Job /\ status[current] = "running"

Items(m) == {e.item : e \in Of(m)}
Complete(m) == found[m] \subseteq {Items(m)}

\* A provider is asked about a message without evidence, so that all evidence of
\* the message is of this attempt, and what is left is what is missing.
Learning ==
  /\ At("read") \/ At("extract") => Of(current) = {}
  /\ At("accept") =>
       /\ handler.left \subseteq handler.accepted
       /\ \A e \in Of(current) : e.attempt = attempts[current]
       /\ current \in messages =>
            \A R \in found[current] :
              R = handler.accepted /\ Items(current) = handler.accepted \ handler.left

\* Evidence that is there is complete, but for the message being learned.
Whole ==
  \A m \in messages :
    /\ Of(m) # {} /\ ~(At("accept") /\ m = current) => Complete(m)
    /\ worker = "succeeding" /\ m = current => Complete(m)
    /\ status[m] = "succeeded" => Complete(m)

IInv == Tables /\ messages \subseteq Job /\ Told /\ Held /\ Learning /\ Whole
        /\ EvidenceHasItsMessage /\ OneReading

-----------------------------------------------------------------------------
\* What the queue's steps do to the rows of its table.
LEMMA QueueRows ==
  ASSUME Tables
  PROVE  /\ \A m \in Job : Queue!Enqueue(m) =>
              /\ status' = [status EXCEPT ![m] = "queued"] /\ status[m] = "absent"
              /\ UNCHANGED <<attempts, worker, current>>
         /\ Queue!Claim =>
              /\ worker = "polling" /\ worker' = "handling" /\ current' \in Job
              /\ status' \in [Job -> JobState] /\ status'[current'] = "running"
              /\ attempts' \in [Job -> Nat]
              /\ \A m \in Job : /\ status'[m] = "absent" <=> status[m] = "absent"
                                /\ status'[m] = "succeeded" => status[m] = "succeeded"
         /\ Queue!HandlerReturns =>
              worker' = "succeeding" /\ UNCHANGED <<status, attempts, current>>
         /\ Queue!HandlerRaises =>
              worker' = "failing" /\ UNCHANGED <<status, attempts, current>>
         /\ \A m \in Job : Queue!Requeue(m) =>
              /\ status' = [status EXCEPT ![m] = "queued"] /\ status[m] = "failed"
              /\ attempts' = [attempts EXCEPT ![m] = 0]
              /\ UNCHANGED <<worker, current>>
         /\ Queue!Tick => UNCHANGED <<status, attempts, worker, current>>
         /\ Queue!Restart =>
              worker' = "polling" /\ current' = NoJob /\ UNCHANGED <<status, attempts>>
<1>1. ASSUME NEW m \in Job, Queue!Enqueue(m)
      PROVE  /\ status' = [status EXCEPT ![m] = "queued"] /\ status[m] = "absent"
             /\ UNCHANGED <<attempts, worker, current>>
  BY <1>1 DEF Queue!Enqueue, Queue!process
<1>2. ASSUME Queue!Claim
      PROVE  /\ worker = "polling" /\ worker' = "handling" /\ current' \in Job
             /\ status' \in [Job -> JobState] /\ status'[current'] = "running"
             /\ attempts' \in [Job -> Nat]
             /\ \A m \in Job : /\ status'[m] = "absent" <=> status[m] = "absent"
                               /\ status'[m] = "succeeded" => status[m] = "succeeded"
  <2>1. PICK j \in Queue!Claimable :
          /\ status' = [i \in Job |-> IF i = j THEN "running"
                                      ELSE IF i \in Queue!Exhausted THEN "failed" ELSE status[i]]
          /\ attempts' = [attempts EXCEPT ![j] = @ + 1]
          /\ worker' = "handling" /\ current' = j
    BY <1>2 DEF Queue!Claim
  <2>2. j \in Job /\ status[j] \in {"queued", "running"}
    BY DEF Queue!Claimable, Queue!Due, Queue!Interrupted, Queue!Stale
  <2>3. \A i \in Queue!Exhausted : i \in Job /\ status[i] = "running"
    BY DEF Queue!Exhausted, Queue!Stale
  <2>4. worker = "polling" BY <1>2 DEF Queue!Claim
  <2>5. status' \in [Job -> JobState] /\ status'[j] = "running"
    BY <2>1, <2>2 DEF Tables, JobState
  <2>6. attempts' \in [Job -> Nat] BY <2>1, <2>2 DEF Tables
  <2>7. \A m \in Job : /\ status'[m] = "absent" <=> status[m] = "absent"
                       /\ status'[m] = "succeeded" => status[m] = "succeeded"
    BY <2>1, <2>2, <2>3 DEF Tables
  <2> QED BY <2>1, <2>2, <2>4, <2>5, <2>6, <2>7
<1>3. Queue!HandlerReturns => worker' = "succeeding" /\ UNCHANGED <<status, attempts, current>>
  BY DEF Queue!HandlerReturns, Queue!table
<1>4. Queue!HandlerRaises => worker' = "failing" /\ UNCHANGED <<status, attempts, current>>
  BY DEF Queue!HandlerRaises, Queue!table
<1>5. ASSUME NEW m \in Job, Queue!Requeue(m)
      PROVE  /\ status' = [status EXCEPT ![m] = "queued"] /\ status[m] = "failed"
             /\ attempts' = [attempts EXCEPT ![m] = 0]
             /\ UNCHANGED <<worker, current>>
  BY <1>5 DEF Queue!Requeue, Queue!process
<1>6. Queue!Tick => UNCHANGED <<status, attempts, worker, current>>
  BY DEF Queue!Tick, Queue!process
<1>7. Queue!Restart => worker' = "polling" /\ current' = NoJob /\ UNCHANGED <<status, attempts>>
  BY DEF Queue!Restart, Queue!table
<1> QED BY <1>1, <1>2, <1>3, <1>4, <1>5, <1>6, <1>7

RecordQueue == Queue!MarkSucceeded \/ Queue!MarkFailed \/ Queue!SweepOnly \/ Queue!RepositoryError

\* The worker records an end only while it holds the job, and frees it.
LEMMA RecordRows ==
  ASSUME Tables, Held, RecordQueue
  PROVE  /\ worker # "handling" /\ worker' \in {"polling", "dead"}
         /\ current' \in Job \cup {NoJob}
         /\ status' \in [Job -> JobState] /\ attempts' = attempts
         /\ \A m \in Job :
              /\ status'[m] = "absent" <=> status[m] = "absent"
              /\ status'[m] = "succeeded" =>
                   status[m] = "succeeded" \/ (worker = "succeeding" /\ m = current)
<1>1. CASE Queue!MarkSucceeded
  BY <1>1 DEF Queue!MarkSucceeded, Tables, Held, JobState
<1>2. CASE Queue!MarkFailed
  <2>1. /\ worker = "failing" /\ worker' = "polling" /\ current' = NoJob /\ attempts' = attempts
        /\ \/ status' = [status EXCEPT ![current] = "failed"]
           \/ status' = [status EXCEPT ![current] = "queued"]
    BY <1>2 DEF Queue!MarkFailed
  <2> QED BY <2>1 DEF Tables, Held, JobState
<1>3. CASE Queue!SweepOnly
  <2>1. /\ worker = "polling" /\ UNCHANGED <<worker, current, attempts>>
        /\ status' = [i \in Job |-> IF i \in Queue!Exhausted THEN "failed" ELSE status[i]]
    BY <1>3 DEF Queue!SweepOnly, Queue!process
  <2>2. \A i \in Queue!Exhausted : i \in Job /\ status[i] = "running"
    BY DEF Queue!Exhausted, Queue!Stale
  <2> QED BY <2>1, <2>2 DEF Tables, JobState
<1>4. CASE Queue!RepositoryError
  BY <1>4 DEF Queue!RepositoryError, Queue!table, Tables
<1> QED BY <1>1, <1>2, <1>3, <1>4 DEF RecordQueue

-----------------------------------------------------------------------------
\* Every action keeps the tables typed.
LEMMA ChatTables ==
  ASSUME Tables, messages \subseteq Job, NEW m \in Job,
         Ask(m) \/ Reply(m) \/ AddMessage(m) \/ AddEvent(m) \/ AddAnswer(m)
         \/ Touch(m) \/ Enqueue(m) \/ ChatFails(m)
  PROVE  Tables' /\ messages' \subseteq Job
<1> USE DEF Tables, Chat, ChatState, Writing
<1>1. CASE Ask(m) BY <1>1 DEF Ask, queue, said
<1>2. CASE Reply(m) BY <1>2 DEF Reply, queue, said
<1>3. CASE AddMessage(m) BY <1>3 DEF AddMessage, queue
<1>4. CASE AddEvent(m) BY <1>4 DEF AddEvent, queue
<1>5. CASE AddAnswer(m) BY <1>5 DEF AddAnswer, queue
<1>6. CASE Touch(m) BY <1>6 DEF Touch, queue, said
<1>7. CASE Enqueue(m) BY <1>7, QueueRows DEF Enqueue, JobState, said
<1>8. CASE ChatFails(m) BY <1>8 DEF ChatFails, queue, said
<1> QED BY <1>1, <1>2, <1>3, <1>4, <1>5, <1>6, <1>7, <1>8

LEMMA OwnerTables ==
  ASSUME Tables, messages \subseteq Job,
         Import \/ RemoveImport \/ (\E e \in evidence : DeleteEvidence(e)) \/ Tick \/ Restart
         \/ (\E m \in Job : Retry(m)) \/ Claim \/ Record \/ UNCHANGED vars, Held
  PROVE  Tables' /\ messages' \subseteq Job
<1> USE DEF Tables
<1>1. CASE Import BY <1>1 DEF Import, queue, said
<1>2. CASE RemoveImport BY <1>2 DEF RemoveImport, queue
<1>3. ASSUME NEW e \in evidence, DeleteEvidence(e) PROVE Tables' /\ messages' \subseteq Job
  BY <1>3 DEF DeleteEvidence, queue, said
<1>4. CASE Tick BY <1>4, QueueRows DEF Tick, Work, said
<1>5. CASE Restart
  <2>1. chat' \in [Job -> ChatState] BY <1>5 DEF Restart, ChatState
  <2>2. found' \in [Job -> SUBSET SUBSET Item]
    <3>1. found' = found \/ found' = [found EXCEPT ![current] = {}]
      BY <1>5 DEF Restart, Cut
    <3> QED BY <3>1
  <2> QED BY <1>5, <2>1, <2>2, QueueRows DEF Restart, said
<1>6. ASSUME NEW m \in Job, Retry(m) PROVE Tables' /\ messages' \subseteq Job
  BY <1>6, QueueRows DEF Retry, Work, said, JobState
<1>7. CASE Claim
  <2>1. handler' \in Handler BY <1>7 DEF Claim, Handler
  <2> QED BY <1>7, <2>1, QueueRows DEF Claim, Work, said
<1>8. CASE Record
  BY <1>8, RecordRows DEF Record, RecordQueue, Work, said
<1>9. CASE UNCHANGED vars BY <1>9 DEF vars, queue, said
<1> QED BY <1>1, <1>2, <1>3, <1>4, <1>5, <1>6, <1>7, <1>8, <1>9

LEMMA WorkerTables ==
  ASSUME Tables, messages \subseteq Job, Held,
         Check \/ ReadSource \/ Extract \/ Accept \/ AcceptFails \/ Learn
  PROVE  Tables' /\ messages' \subseteq Job
<1>1. ASSUME Return \/ Raise PROVE UNCHANGED <<status, attempts, current>> /\ handler' = None
  BY <1>1, QueueRows DEF Return, Raise
<1>2. ASSUME NEW step \in {"check", "read", "extract", "accept"}, Goto(step), handler # None
      PROVE  handler' \in Handler
  BY <1>2 DEF Goto, Tables, Handler
<1> USE DEF Tables
<1>3. CASE Check BY <1>1, <1>2, <1>3 DEF Check, Work, said, queue, At
<1>4. CASE ReadSource BY <1>1, <1>2, <1>4 DEF ReadSource, Work, said, queue, At
<1>5. CASE Extract
  <2>1. CASE Raise /\ UNCHANGED found
    BY <1>1, <1>5, <2>1 DEF Extract, Work, said
  <2>2. ASSUME NEW accepted \in SUBSET Item, UNCHANGED queue,
               handler' = [at |-> "accept", accepted |-> accepted, left |-> accepted],
               found' = [found EXCEPT ![current] = {accepted}]
        PROVE  Tables' /\ messages' \subseteq Job
    <3>1. handler' \in Handler BY <2>2 DEF Handler
    <3>2. found' \in [Job -> SUBSET SUBSET Item] BY <2>2
    <3> QED BY <1>5, <2>2, <3>1, <3>2 DEF Extract, Work, said, queue
  <2> QED BY <1>5, <2>1, <2>2 DEF Extract
<1>6. CASE Accept
  <2>1. PICK item \in handler.left :
          /\ evidence' = evidence \cup {Row(item)}
          /\ handler' = [handler EXCEPT !.left = @ \ {item}]
    BY <1>6 DEF Accept
  <2>2. handler \in Handler /\ handler # None BY <1>6 DEF Accept, At
  <2>3. handler' \in Handler /\ item \in Item BY <2>1, <2>2 DEF Handler
  <2>4. Row(item) \in [message : Job, item : Item, attempt : Nat]
    BY <2>2, <2>3 DEF Row, Held
  <2> QED BY <1>6, <2>1, <2>3, <2>4 DEF Accept, Work, said, queue
<1>7. CASE AcceptFails
  <2>1. found' \in [Job -> SUBSET SUBSET Item]
    <3>1. found' = found \/ found' = [found EXCEPT ![current] = {}]
      BY <1>7 DEF AcceptFails, Cut
    <3> QED BY <3>1
  <2> QED BY <1>1, <1>7, <2>1 DEF AcceptFails, Work, said
<1>8. CASE Learn BY <1>1, <1>8 DEF Learn, Work, said
<1> QED BY <1>3, <1>4, <1>5, <1>6, <1>7, <1>8

-----------------------------------------------------------------------------
\* Chats advance with what they store; an import's removal excuses them.
LEMMA ChatTold ==
  ASSUME Tables, Told, messages \subseteq Job, NEW m \in Job,
         Ask(m) \/ Reply(m) \/ AddMessage(m) \/ AddEvent(m) \/ AddAnswer(m)
         \/ Touch(m) \/ Enqueue(m) \/ ChatFails(m)
  PROVE  Told'
<1> USE DEF Told, Tables, Chat, HasHome
<1>1. CASE Ask(m) BY <1>1 DEF Ask, queue, said
<1>2. CASE Reply(m) BY <1>2 DEF Reply, queue, said
<1>3. CASE AddMessage(m) BY <1>3 DEF AddMessage, queue
<1>4. CASE AddEvent(m) BY <1>4 DEF AddEvent, queue
<1>5. CASE AddAnswer(m) BY <1>5 DEF AddAnswer, queue
<1>6. CASE Touch(m) BY <1>6 DEF Touch, queue, said
<1>7. CASE Enqueue(m) BY <1>7, QueueRows DEF Enqueue, said
<1>8. CASE ChatFails(m) BY <1>8 DEF ChatFails, queue, said, Writing
<1> QED BY <1>1, <1>2, <1>3, <1>4, <1>5, <1>6, <1>7, <1>8

\* The others leave the chats and what they stored alone, or cut a chat short.
LEMMA ToldKept ==
  ASSUME Told, UNCHANGED <<home, import, said>>,
         \A m \in Job : /\ status'[m] = "absent" <=> status[m] = "absent"
                        /\ \/ chat'[m] = chat[m]
                           \/ chat'[m] = "failed" /\ chat[m] # "answered"
  PROVE  Told'
BY DEF Told, HasHome, said

\* Only the worker's own steps change the status of its job.
LEMMA HeldKept ==
  ASSUME Tables, Held, UNCHANGED <<handler, worker, current>>,
         \A m \in Job : status[m] = "running" => status'[m] = "running"
  PROVE  Held'
BY DEF Held

Learned == Learning /\ Whole /\ EvidenceHasItsMessage /\ OneReading

\* Nothing is learned or forgotten while evidence and messages stay.
LEMMA LearnedKept ==
  ASSUME Held, Learned, UNCHANGED <<evidence, messages, found>>,
         \/ /\ handler' = handler
            /\ handler # None => current' = current /\ attempts'[current] = attempts[current]
         \/ handler = None /\ handler'.at = "check",
         worker' = "succeeding" => worker = "succeeding" /\ current' = current,
         \A m \in messages : status'[m] = "succeeded" =>
            status[m] = "succeeded" \/ (worker = "succeeding" /\ m = current)
  PROVE  Learned'
<1>1. \A m : Of(m)' = Of(m) /\ Items(m)' = Items(m) /\ (Complete(m)' <=> Complete(m))
  BY DEF Of, Items, Complete
<1>2. (EvidenceHasItsMessage /\ OneReading)'
  BY DEF Learned, EvidenceHasItsMessage, OneReading
<1>3. CASE handler = None /\ handler'.at = "check"
  <2>1. Learning' BY <1>3 DEF Learning, At
  <2>2. ~At("accept") /\ ~At("accept")' BY <1>3 DEF At
  <2>3. Whole' BY <1>1, <2>2 DEF Learned, Whole
  <2> QED BY <1>2, <2>1, <2>3 DEF Learned
<1>4. CASE /\ handler' = handler
           /\ handler # None => current' = current /\ attempts'[current] = attempts[current]
  <2>1. Learning'
    <3>1. CASE handler = None BY <1>4, <3>1 DEF Learning, At
    <3>2. CASE handler # None
      <4>1. current' = current /\ attempts'[current] = attempts[current] BY <1>4, <3>2
      <4> QED BY <1>1, <1>4, <4>1 DEF Learned, Learning, At, Of, Items
    <3> QED BY <3>1, <3>2
  <2>2. \A m : (At("accept") /\ m = current)' <=> (At("accept") /\ m = current)
    BY <1>4 DEF At
  <2>3. Whole' BY <1>1, <2>2 DEF Learned, Whole
  <2> QED BY <1>2, <2>1, <2>3 DEF Learned
<1> QED BY <1>3, <1>4

\* A new message has no evidence yet, and no job.
LEMMA AddMessageLearned ==
  ASSUME Tables, Told, Held, Learned, NEW m \in Job, AddMessage(m)
  PROVE  Learned'
<1>1. CASE ~HasHome(m)
  <2>1. UNCHANGED <<evidence, messages, found, handler, current, attempts, worker, status>>
    BY <1>1 DEF AddMessage, queue
  <2> QED BY <2>1, LearnedKept
<1>2. CASE HasHome(m)
  <2>1. messages' = messages \cup {m} /\ chat[m] = "message"
        /\ UNCHANGED <<evidence, found, handler, current, attempts, worker, status>>
    BY <1>2 DEF AddMessage, queue, Chat
  <2>2. \A n : Of(n)' = Of(n) /\ Items(n)' = Items(n) /\ (Complete(n)' <=> Complete(n))
    BY <2>1 DEF Of, Items, Complete
  <2>3. (EvidenceHasItsMessage /\ OneReading)'
    BY <2>1 DEF Learned, EvidenceHasItsMessage, OneReading
  <2>4. status[m] = "absent" BY <2>1 DEF Told
  <2>5. worker \in {"handling", "succeeding"} => m # current
    BY <2>4 DEF Held
  <2>6. Learning'
    <3>1. At("accept") => worker = "handling" BY DEF At, Held
    <3>2. \A step : At(step)' <=> At(step) BY <2>1 DEF At
    <3>3. At("accept") => (current \in messages' <=> current \in messages)
      BY <2>1, <2>5, <3>1
    <3> QED BY <2>1, <2>2, <3>2, <3>3 DEF Learned, Learning
  <2>7. Whole'
    <3>1. ASSUME m \notin messages PROVE Of(m) = {}
      BY <3>1 DEF Of, Learned, EvidenceHasItsMessage
    <3>2. At("accept")' <=> At("accept") BY <2>1 DEF At
    <3> QED BY <2>1, <2>2, <2>4, <2>5, <3>1, <3>2 DEF Learned, Whole
  <2> QED BY <2>3, <2>6, <2>7 DEF Learned
<1> QED BY <1>1, <1>2

\* The removal takes the messages of the import and their evidence together.
LEMMA RemoveImportLearned ==
  ASSUME Tables, Learned, RemoveImport
  PROVE  Learned'
<1>1. /\ messages' = {m \in messages : home[m] = "own"}
      /\ evidence' = {e \in evidence : home[e.message] = "own"}
      /\ UNCHANGED <<found, handler, current, attempts, worker, status>>
  BY DEF RemoveImport, queue
<1>2. (EvidenceHasItsMessage /\ OneReading)'
  BY <1>1 DEF Learned, EvidenceHasItsMessage, OneReading
<1>3. \A m \in messages' : Of(m)' = Of(m)
  BY <1>1 DEF Of
<1>4. \A m \in messages' : m \in messages /\ Items(m)' = Items(m) /\ (Complete(m)' <=> Complete(m))
  BY <1>1, <1>3 DEF Items, Complete
<1>5. \A step : At(step)' <=> At(step) BY <1>1 DEF At
<1>6. Of(current)' \subseteq Of(current) BY <1>1 DEF Of
<1>7. Learning'
  BY <1>1, <1>4, <1>5, <1>6 DEF Learned, Learning
<1>8. Whole'
  BY <1>1, <1>3, <1>4, <1>5 DEF Learned, Whole
<1> QED BY <1>2, <1>7, <1>8 DEF Learned

\* Evidence that the owner deleted is not missed.
LEMMA DeleteEvidenceLearned ==
  ASSUME Tables, messages \subseteq Job, Learned, NEW e \in evidence, DeleteEvidence(e)
  PROVE  Learned'
<1>1. /\ evidence' = evidence \ {e} /\ found' = [found EXCEPT ![e.message] = {}]
      /\ UNCHANGED <<messages, handler, current, attempts, worker, status>>
  BY DEF DeleteEvidence, queue, said
<1>2. (EvidenceHasItsMessage /\ OneReading)'
  BY <1>1 DEF Learned, EvidenceHasItsMessage, OneReading
<1>3. e.message \in Job /\ found'[e.message] = {}
  BY <1>1 DEF Tables
<1>4. \A m : Of(m)' \subseteq Of(m) /\ (m # e.message => Of(m)' = Of(m))
  BY <1>1 DEF Of
<1>5. \A m \in Job : m # e.message => found'[m] = found[m] /\ Items(m)' = Items(m)
  BY <1>1, <1>4 DEF Items, Tables
<1>6. \A m \in Job : Complete(m) => Complete(m)'
  BY <1>3, <1>5 DEF Complete
<1>7. \A step : At(step)' <=> At(step) BY <1>1 DEF At
<1>8. Learning'
  <2>1. ASSUME At("accept"), current \in messages
        PROVE  \A R \in found'[current] :
                 R = handler.accepted /\ Items(current)' = handler.accepted \ handler.left
    <3>1. CASE current = e.message BY <1>3, <3>1
    <3>2. CASE current # e.message
      <4>1. found'[current] = found[current] BY <1>1, <2>1, <3>2 DEF Tables
      <4>2. {f.item : f \in {d \in evidence' : d.message = current'}}
            = {f.item : f \in {d \in evidence : d.message = current}}
        BY <1>1, <3>2
      <4>3. Items(current)' = Items(current) BY <4>2 DEF Items, Of
      <4> QED BY <2>1, <4>1, <4>3 DEF Learned, Learning
    <3> QED BY <3>1, <3>2
  <2>2. Of(current)' \subseteq Of(current) BY <1>1 DEF Of
  <2> QED BY <1>1, <1>7, <2>1, <2>2 DEF Learned, Learning
<1>9. Whole'
  BY <1>1, <1>4, <1>6, <1>7 DEF Learned, Whole
<1> QED BY <1>2, <1>8, <1>9 DEF Learned

-----------------------------------------------------------------------------
\* A message whose evidence is all there, or not begun, is whole.
LEMMA WholeUnlessHalf ==
  ASSUME Learned, NEW m \in messages, Of(m) # {},
         ~(At("accept") /\ m = current /\ handler.left \notin {{}, handler.accepted})
  PROVE  Complete(m)
<1>1. CASE ~(At("accept") /\ m = current)
  BY <1>1 DEF Learned, Whole
<1>2. CASE At("accept") /\ m = current
  <2>1. \A R \in found[m] : R = handler.accepted /\ Items(m) = handler.accepted \ handler.left
    BY <1>2 DEF Learned, Learning
  <2>2. Items(m) # {} BY DEF Items
  <2>3. CASE handler.left = {} BY <2>1, <2>3 DEF Complete
  <2>4. CASE handler.left = handler.accepted BY <2>1, <2>2, <2>4 DEF Complete
  <2> QED BY <1>2, <2>3, <2>4
<1> QED BY <1>1, <1>2

\* A handler that fails, or is cut, leaves half of a message only unmissed.
LEMMA FailedLearned ==
  ASSUME Tables, Held, Learned, UNCHANGED <<evidence, messages, status>>,
         messages \subseteq Job, handler' = None, Cut, worker' # "succeeding"
  PROVE  Learned'
<1>1. Learning' BY DEF Learning, At
<1>2. (EvidenceHasItsMessage /\ OneReading)'
  BY DEF Learned, EvidenceHasItsMessage, OneReading
<1>3. \A m : Of(m)' = Of(m) /\ Items(m)' = Items(m) BY DEF Of, Items
<1>4. ASSUME NEW m \in messages, Complete(m) PROVE Complete(m)'
  <2>1. found'[m] = found[m] \/ found'[m] = {} BY DEF Cut, Tables
  <2> QED BY <1>3, <1>4, <2>1 DEF Complete
<1>5. ASSUME NEW m \in messages, Of(m) # {} PROVE Complete(m)'
  <2>1. CASE At("accept") /\ m = current /\ handler.left \notin {{}, handler.accepted}
    <3>1. found' = [found EXCEPT ![current] = {}] BY <2>1 DEF Cut
    <3>2. found'[m] = {} BY <2>1, <3>1 DEF Tables
    <3> QED BY <3>2 DEF Complete
  <2>2. CASE ~(At("accept") /\ m = current /\ handler.left \notin {{}, handler.accepted})
    BY <1>4, <1>5, <2>2, WholeUnlessHalf
  <2> QED BY <2>1, <2>2
<1>6. Whole'
  BY <1>3, <1>4, <1>5 DEF Learned, Whole
<1> QED BY <1>1, <1>2, <1>6 DEF Learned

\* A handler that returns leaves a complete message.
LEMMA ReturnedLearned ==
  ASSUME Learned, UNCHANGED <<evidence, messages, status, found, current>>,
         handler' = None, current \in messages => Complete(current),
         At("accept") => handler.left = {}
  PROVE  Learned'
<1>1. Learning' BY DEF Learning, At
<1>2. (EvidenceHasItsMessage /\ OneReading)'
  BY DEF Learned, EvidenceHasItsMessage, OneReading
<1>3. \A m : Of(m)' = Of(m) /\ (Complete(m)' <=> Complete(m))
  BY DEF Of, Complete, Items
<1>4. \A m \in messages : Of(m) # {} => Complete(m) BY WholeUnlessHalf
<1>5. Whole' BY <1>3, <1>4 DEF Learned, Whole
<1> QED BY <1>1, <1>2, <1>5 DEF Learned

LEMMA CheckLearned == ASSUME Tables, Held, Learned, Check PROVE Learned'
<1>1. At("check") /\ UNCHANGED <<messages, evidence, found>> BY DEF Check, Work, said
<1>2. ~At("accept") /\ worker = "handling" BY <1>1 DEF At, Held
<1>3. CASE Of(current) # {} /\ Return
  <2>1. current \in messages => Complete(current)
    BY <1>2, <1>3 DEF Learned, Whole
  <2> QED BY <1>1, <1>2, <1>3, <2>1, QueueRows, ReturnedLearned DEF Return
<1>4. CASE Of(current) = {} /\ Goto("read") /\ UNCHANGED queue
  <2>1. /\ UNCHANGED <<status, attempts, worker, current>> /\ handler \in Handler
        /\ handler # None /\ handler' = [handler EXCEPT !.at = "read"]
    BY <1>1, <1>4 DEF queue, Tables, At, Goto
  <2>2. handler' # None => ~At("accept")' BY <2>1 DEF At, Handler
  <2>3. Of(current)' = {} BY <1>1, <1>4, <2>1 DEF Of
  <2>4. ~At("accept")' BY <2>2 DEF At
  <2>5. Learning' BY <2>3, <2>4 DEF Learning
  <2>6. \A m : Of(m)' = Of(m) /\ (Complete(m)' <=> Complete(m))
    BY <1>1 DEF Of, Complete, Items
  <2>7. Whole' BY <1>1, <1>2, <2>1, <2>4, <2>6 DEF Learned, Whole
  <2>8. (EvidenceHasItsMessage /\ OneReading)'
    BY <1>1 DEF Learned, EvidenceHasItsMessage, OneReading
  <2> QED BY <2>5, <2>7, <2>8 DEF Learned
<1> QED BY <1>3, <1>4 DEF Check

LEMMA ReadSourceLearned ==
  ASSUME Tables, Held, Learned, messages \subseteq Job, ReadSource
  PROVE  Learned'
<1>1. At("read") /\ UNCHANGED <<messages, evidence, found>> BY DEF ReadSource, Work, said
<1>2. ~At("accept") /\ worker = "handling" /\ Of(current) = {}
  BY <1>1 DEF At, Held, Learned, Learning
<1>3. CASE Raise
  <2>1. Cut BY <1>1, <1>2 DEF Cut
  <2> QED BY <1>1, <1>3, <2>1, QueueRows, FailedLearned DEF Raise
<1>4. CASE Goto("extract") /\ UNCHANGED queue
  <2>1. /\ UNCHANGED <<status, attempts, worker, current>> /\ handler \in Handler
        /\ handler # None /\ handler' = [handler EXCEPT !.at = "extract"]
    BY <1>1, <1>4 DEF queue, Tables, At, Goto
  <2>2. ~At("accept")' BY <2>1 DEF At, Handler
  <2>3. Of(current)' = {} BY <1>1, <1>2, <2>1 DEF Of
  <2>4. Learning' BY <2>3, <2>2 DEF Learning
  <2>5. \A m : Of(m)' = Of(m) /\ (Complete(m)' <=> Complete(m))
    BY <1>1 DEF Of, Complete, Items
  <2>6. Whole' BY <1>1, <1>2, <2>1, <2>2, <2>5 DEF Learned, Whole
  <2>7. (EvidenceHasItsMessage /\ OneReading)'
    BY <1>1 DEF Learned, EvidenceHasItsMessage, OneReading
  <2> QED BY <2>4, <2>6, <2>7 DEF Learned
<1> QED BY <1>3, <1>4 DEF ReadSource

LEMMA ExtractLearned ==
  ASSUME Tables, Held, Learned, messages \subseteq Job, Extract
  PROVE  Learned'
<1>1. At("extract") /\ UNCHANGED <<messages, evidence>> BY DEF Extract, Work, said
<1>2. /\ ~At("accept") /\ worker = "handling" /\ Of(current) = {}
      /\ current \in Job /\ status[current] = "running"
  BY <1>1 DEF At, Held, Learned, Learning
<1>3. CASE Raise /\ UNCHANGED found
  <2>1. Cut BY <1>2, <1>3 DEF Cut
  <2> QED BY <1>1, <1>3, <2>1, QueueRows, FailedLearned DEF Raise
<1>4. ASSUME NEW accepted \in SUBSET Item, UNCHANGED queue,
             handler' = [at |-> "accept", accepted |-> accepted, left |-> accepted],
             found' = [found EXCEPT ![current] = {accepted}]
      PROVE  Learned'
  <2>1. /\ UNCHANGED <<status, attempts, worker, current>>
        /\ handler'.at = "accept" /\ handler'.accepted = accepted /\ handler'.left = accepted
    BY <1>4 DEF queue
  <2>2. \A m : Of(m)' = Of(m) /\ Items(m)' = Items(m) BY <1>1 DEF Of, Items
  <2>3. Of(current)' = {} /\ Items(current)' = {} BY <1>1, <1>2, <2>1 DEF Of, Items
  <2>4. found'[current] = {accepted} /\ \A m \in Job : m # current => found'[m] = found[m]
    BY <1>2, <1>4 DEF Tables
  <2>5. \A m \in Job : m # current => (Complete(m)' <=> Complete(m))
    BY <2>2, <2>4 DEF Complete
  <2>6. Learning' BY <2>1, <2>3, <2>4 DEF Learning, At
  <2>7. Whole'
    <3>1. \A m \in messages : m # current /\ Of(m) # {} => Complete(m)
      BY WholeUnlessHalf
    <3> QED BY <1>1, <1>2, <2>1, <2>2, <2>5, <3>1 DEF Learned, Whole
  <2>8. (EvidenceHasItsMessage /\ OneReading)'
    BY <1>1 DEF Learned, EvidenceHasItsMessage, OneReading
  <2> QED BY <2>6, <2>7, <2>8 DEF Learned
<1> QED BY <1>3, <1>4 DEF Extract

\* One statement moves from what is left to what is stored.
LEMMA AcceptLearned ==
  ASSUME Tables, Held, Learned, messages \subseteq Job, Accept
  PROVE  Learned'
<1>1. /\ At("accept") /\ current \in messages
      /\ UNCHANGED <<messages, found, status, attempts, worker, current>>
  BY DEF Accept, Work, said, queue
<1>2. worker = "handling" /\ current \in Job /\ status[current] = "running"
  BY <1>1 DEF At, Held
<1>3. PICK item \in handler.left :
        /\ evidence' = evidence \cup {Row(item)}
        /\ handler' = [handler EXCEPT !.left = @ \ {item}]
  BY DEF Accept
<1>4. /\ Row(item).message = current /\ Row(item).item = item
      /\ Row(item).attempt = attempts[current]
  BY DEF Row
<1>5. handler \in Handler /\ handler # None BY <1>1 DEF At, Tables
<1>6. /\ handler'.at = "accept" /\ handler'.accepted = handler.accepted
      /\ handler'.left = handler.left \ {item}
  BY <1>1, <1>3, <1>5 DEF Handler, At
<1>7. /\ Of(current)' = Of(current) \cup {Row(item)}
      /\ \A m : m # current => Of(m)' = Of(m) /\ Items(m)' = Items(m)
  BY <1>1, <1>3, <1>4 DEF Of, Items
<1>8. Items(current)' = Items(current) \cup {item}
  <2>1. {e.item : e \in {d \in evidence \cup {Row(item)} : d.message = current}}
        = {e.item : e \in {d \in evidence : d.message = current}} \cup {item}
    BY <1>4
  <2> QED BY <1>1, <1>3, <2>1 DEF Items, Of
<1>9. \A m : m # current => (Complete(m)' <=> Complete(m))
  BY <1>1, <1>7 DEF Complete
<1>10. \A e \in Of(current) : e.attempt = attempts[current]
  BY <1>1 DEF Learned, Learning
<1>11. EvidenceHasItsMessage'
  BY <1>1, <1>3, <1>4 DEF Learned, EvidenceHasItsMessage
<1>12. OneReading'
  BY <1>3, <1>4, <1>10 DEF Learned, OneReading, Of
<1>13. Learning'
  <2>1. handler'.left \subseteq handler'.accepted
    BY <1>1, <1>6 DEF Learned, Learning
  <2>2. \A e \in Of(current)' : e.attempt = attempts[current]
    BY <1>4, <1>7, <1>10
  <2>3. \A R \in found[current] :
          R = handler'.accepted /\ Items(current)' = handler'.accepted \ handler'.left
    BY <1>1, <1>3, <1>6, <1>8 DEF Learned, Learning
  <2>4. ~At("read")' /\ ~At("extract")' BY <1>6 DEF At
  <2> QED BY <1>1, <2>1, <2>2, <2>3, <2>4 DEF Learning
<1>14. Whole'
  <2>1. At("accept")'
    <3>1. handler' \in Handler BY <1>3, <1>5 DEF Handler
    <3> QED BY <1>6, <3>1, ConversationsAssumption DEF At
  <2>2. \A m \in messages : m # current /\ Of(m) # {} => Complete(m)
    BY WholeUnlessHalf
  <2> QED BY <1>1, <1>2, <1>7, <1>9, <2>1, <2>2 DEF Learned, Whole
<1> QED BY <1>11, <1>12, <1>13, <1>14 DEF Learned

LEMMA LearnLearned ==
  ASSUME Tables, Held, Learned, messages \subseteq Job, Learn
  PROVE  Learned'
<1>1. /\ At("accept") /\ handler.left = {} /\ UNCHANGED <<messages, evidence, found>>
  BY DEF Learn, Work, said
<1>2. CASE Return
  <2>1. current \in messages => Complete(current)
    BY <1>1 DEF Learned, Learning, Complete
  <2> QED BY <1>1, <1>2, <2>1, QueueRows, ReturnedLearned DEF Return
<1>3. CASE Raise
  <2>1. Cut BY <1>1 DEF Cut
  <2> QED BY <1>1, <1>3, <2>1, QueueRows, FailedLearned DEF Raise
<1> QED BY <1>2, <1>3 DEF Learn

-----------------------------------------------------------------------------
LEMMA InitInv == Init => IInv
<1> SUFFICES ASSUME Init PROVE IInv
  OBVIOUS
<1>1. Tables BY DEF Init, Queue!Init, Tables, ChatState, JobState
<1>2. Told BY DEF Init, Queue!Init, Told, HasHome
<1>3. Held BY DEF Init, Queue!Init, Held
<1>4. Learning /\ EvidenceHasItsMessage /\ OneReading
  BY DEF Init, Learning, At, EvidenceHasItsMessage, OneReading
<1>5. Whole BY DEF Init, Whole
<1> QED BY <1>1, <1>2, <1>3, <1>4, <1>5 DEF Init, IInv

\* A chat's step, message by message.
LEMMA ChatStep ==
  ASSUME IInv, NEW m \in Job,
         Ask(m) \/ Reply(m) \/ AddMessage(m) \/ AddEvent(m) \/ AddAnswer(m)
         \/ Touch(m) \/ Enqueue(m) \/ ChatFails(m)
  PROVE  IInv'
<1>1. Tables' /\ messages' \subseteq Job BY ChatTables DEF IInv
<1>2. Told' BY ChatTold DEF IInv
<1>3. CASE AddMessage(m)
  <2>1. Learned' BY <1>3, AddMessageLearned DEF IInv, Learned
  <2>2. UNCHANGED <<handler, worker, current, status>> BY <1>3 DEF AddMessage, queue
  <2>3. Held' BY <2>2 DEF IInv, Held
  <2> QED BY <1>1, <1>2, <2>1, <2>3 DEF IInv, Learned
<1>4. CASE Enqueue(m)
  <2>1. /\ UNCHANGED <<handler, worker, current, attempts, evidence, messages, found>>
        /\ status' = [status EXCEPT ![m] = "queued"] /\ status[m] = "absent"
    BY <1>4, QueueRows DEF Enqueue, IInv, said
  <2>2. /\ \A n \in Job : status[n] = "running" => status'[n] = "running"
        /\ \A n \in messages : status'[n] = "succeeded" => status[n] = "succeeded"
    BY <2>1 DEF IInv, Tables
  <2>3. Held' BY <2>1, <2>2, HeldKept DEF IInv
  <2>4. Learned' BY <2>1, <2>2, LearnedKept DEF IInv, Learned
  <2> QED BY <1>1, <1>2, <2>3, <2>4 DEF IInv, Learned
<1>5. CASE ~(AddMessage(m) \/ Enqueue(m))
  <2>1. UNCHANGED <<handler, worker, current, attempts, status, evidence, messages, found>>
    BY <1>5 DEF Ask, Reply, AddEvent, AddAnswer, Touch, ChatFails, queue, said
  <2>2. Held' BY <2>1, HeldKept DEF IInv
  <2>3. Learned' BY <2>1, LearnedKept DEF IInv, Learned
  <2> QED BY <1>1, <1>2, <2>2, <2>3 DEF IInv, Learned
<1> QED BY <1>3, <1>4, <1>5

\* The owner's requests, the clock, the worker's table and a restart.
LEMMA OwnerStep ==
  ASSUME IInv,
         Import \/ RemoveImport \/ (\E e \in evidence : DeleteEvidence(e)) \/ Tick \/ Restart
         \/ (\E m \in Job : Retry(m)) \/ Claim \/ Record \/ UNCHANGED vars
  PROVE  IInv'
<1>1. Tables' /\ messages' \subseteq Job BY OwnerTables DEF IInv
<1>2. Tables /\ Told /\ Held /\ Learned /\ messages \subseteq Job BY DEF IInv, Learned
<1>3. CASE Import
  <2>1. UNCHANGED <<handler, worker, current, attempts, status, evidence, messages, found>>
    BY <1>3 DEF Import, queue, said
  <2>2. Told'
    <3>1. \A m \in Job : home[m] = "own" BY <1>2, <1>3 DEF Import, Told, Tables
    <3>2. \A m \in Job : HasHome(m) /\ HasHome(m)' BY <1>3, <3>1 DEF Import, HasHome
    <3>3. import' # "none" /\ UNCHANGED <<chat, home, status, messages, replies, events>>
      BY <1>3 DEF Import, queue, said
    <3> QED BY <1>2, <3>2, <3>3 DEF Told
  <2>3. Held' /\ Learned' BY <1>2, <2>1, HeldKept, LearnedKept
  <2> QED BY <1>1, <2>2, <2>3 DEF IInv, Learned
<1>4. CASE RemoveImport
  <2>1. UNCHANGED <<handler, worker, current, status>> BY <1>4 DEF RemoveImport, queue
  <2>2. Told' BY <1>2, <1>4 DEF RemoveImport, Told, Tables, HasHome, queue
  <2>3. Held' BY <1>2, <2>1, HeldKept
  <2>4. Learned' BY <1>2, <1>4, RemoveImportLearned
  <2> QED BY <1>1, <2>2, <2>3, <2>4 DEF IInv, Learned
<1>5. ASSUME NEW e \in evidence, DeleteEvidence(e) PROVE IInv'
  <2>1. UNCHANGED <<handler, worker, current, status, chat, home, import, said>>
    BY <1>5 DEF DeleteEvidence, queue
  <2>2. Told' BY <1>2, <2>1, ToldKept
  <2>3. Held' BY <1>2, <2>1, HeldKept
  <2>4. Learned' BY <1>2, <1>5, DeleteEvidenceLearned
  <2> QED BY <1>1, <2>2, <2>3, <2>4 DEF IInv, Learned
<1>6. CASE Tick \/ UNCHANGED vars
  <2>1. /\ UNCHANGED <<handler, worker, current, attempts, status, evidence, found>>
        /\ UNCHANGED <<chat, home, import, said>>
    BY <1>2, <1>6, QueueRows DEF Tick, vars, queue, Work
  <2>2. messages' = messages BY <2>1 DEF said
  <2>3. Told' BY <1>2, <2>1, ToldKept
  <2>4. Held' /\ Learned' BY <1>2, <2>1, <2>2, HeldKept, LearnedKept
  <2> QED BY <1>1, <2>3, <2>4 DEF IInv, Learned
<1>7. CASE Restart
  <2>1. /\ worker' = "polling" /\ handler' = None /\ current' = NoJob
        /\ UNCHANGED <<status, attempts, home, import, said, evidence>> /\ Cut
        /\ \A m \in Job : chat'[m] = chat[m] \/ (chat'[m] = "failed" /\ chat[m] # "answered")
    BY <1>2, <1>7, QueueRows DEF Restart
  <2>2. messages' = messages BY <2>1 DEF said
  <2>3. Told' BY <1>2, <2>1, ToldKept
  <2>4. Held' BY <2>1 DEF Held
  <2>5. Learned' BY <1>2, <2>1, <2>2, FailedLearned
  <2> QED BY <1>1, <2>3, <2>4, <2>5 DEF IInv, Learned
<1>8. ASSUME NEW m \in Job, Retry(m) PROVE IInv'
  <2>1. /\ status' = [status EXCEPT ![m] = "queued"] /\ status[m] = "failed"
        /\ attempts' = [attempts EXCEPT ![m] = 0]
        /\ UNCHANGED <<worker, current, handler, evidence, found, chat, home, import, said>>
    BY <1>2, <1>8, QueueRows DEF Retry, Work
  <2>2. messages' = messages BY <2>1 DEF said
  <2>3. \A n \in Job : /\ status'[n] = "absent" <=> status[n] = "absent"
                       /\ status[n] = "running" => status'[n] = "running"
                       /\ status'[n] = "succeeded" => status[n] = "succeeded"
    BY <1>2, <2>1 DEF Tables
  <2>4. Told' BY <1>2, <2>1, <2>3, ToldKept
  <2>5. Held' BY <1>2, <2>1, <2>3, HeldKept
  <2>6. handler # None => m # current BY <1>2, <2>1 DEF Held
  <2>7. handler # None => attempts'[current] = attempts[current]
    BY <1>2, <2>1, <2>6 DEF Tables, Held
  <2>8. Learned' BY <1>2, <2>1, <2>2, <2>3, <2>7, LearnedKept
  <2> QED BY <1>1, <2>4, <2>5, <2>8 DEF IInv, Learned
<1>9. CASE Claim
  <2>1. /\ worker = "polling" /\ worker' = "handling" /\ current' \in Job
        /\ status'[current'] = "running" /\ handler'.at = "check"
        /\ UNCHANGED <<evidence, found, chat, home, import, said>>
        /\ \A m \in Job : /\ status'[m] = "absent" <=> status[m] = "absent"
                          /\ status'[m] = "succeeded" => status[m] = "succeeded"
    BY <1>2, <1>9, QueueRows DEF Claim, Work
  <2>2. messages' = messages /\ handler = None BY <1>2, <2>1 DEF said, Held
  <2>3. Told' BY <1>2, <2>1, ToldKept
  <2>4. Held' BY <2>1 DEF Held
  <2>5. Learned' BY <1>2, <2>1, <2>2, LearnedKept
  <2> QED BY <1>1, <2>3, <2>4, <2>5 DEF IInv, Learned
<1>10. CASE Record
  <2>1. RecordQueue /\ UNCHANGED <<evidence, found, handler, chat, home, import, said>>
    BY <1>10 DEF Record, RecordQueue, Work
  <2>2. /\ worker # "handling" /\ worker' \in {"polling", "dead"} /\ attempts' = attempts
        /\ \A m \in Job :
             /\ status'[m] = "absent" <=> status[m] = "absent"
             /\ status'[m] = "succeeded" =>
                  status[m] = "succeeded" \/ (worker = "succeeding" /\ m = current)
    BY <1>2, <2>1, RecordRows
  <2>3. messages' = messages /\ handler = None BY <1>2, <2>1, <2>2 DEF said, Held
  <2>4. Told' BY <1>2, <2>1, <2>2, ToldKept
  <2>5. Held' BY <2>1, <2>2, <2>3 DEF Held
  <2>6. Learned' BY <1>2, <2>1, <2>2, <2>3, LearnedKept
  <2> QED BY <1>1, <2>4, <2>5, <2>6 DEF IInv, Learned
<1> QED BY <1>3, <1>4, <1>5, <1>6, <1>7, <1>8, <1>9, <1>10

LEMMA WorkerStep ==
  ASSUME IInv, Check \/ ReadSource \/ Extract \/ Accept \/ AcceptFails \/ Learn
  PROVE  IInv'
<1>1. Tables /\ Told /\ Held /\ Learned /\ messages \subseteq Job BY DEF IInv, Learned
<1>2. Tables' /\ messages' \subseteq Job BY <1>1, WorkerTables
<1>3. UNCHANGED <<chat, home, import, said>>
  BY DEF Check, ReadSource, Extract, Accept, AcceptFails, Learn, Work
<1>4. handler # None BY DEF Check, ReadSource, Extract, Accept, AcceptFails, Learn, At
<1>5. /\ UNCHANGED <<status, current>>
      /\ \/ worker' = worker
         \/ handler' = None /\ worker' \in {"succeeding", "failing"}
  <2>1. CASE UNCHANGED queue BY <2>1 DEF queue
  <2>2. CASE Return BY <1>1, <2>2, QueueRows DEF Return
  <2>3. CASE Raise BY <1>1, <2>3, QueueRows DEF Raise
  <2> QED BY <2>1, <2>2, <2>3 DEF Check, ReadSource, Extract, Accept, AcceptFails, Learn
<1>6. Told' BY <1>1, <1>3, <1>5, ToldKept
<1>7. Held' BY <1>1, <1>4, <1>5 DEF Held
<1>8. CASE AcceptFails
  <2>1. Raise /\ Cut /\ UNCHANGED <<evidence, messages>> BY <1>8 DEF AcceptFails, Work, said
  <2>2. Learned' BY <1>1, <2>1, QueueRows, FailedLearned DEF Raise
  <2> QED BY <1>2, <1>6, <1>7, <2>2 DEF IInv, Learned
<1>9. CASE ~AcceptFails
  <2>1. Learned'
    BY <1>1, <1>9, CheckLearned, ReadSourceLearned, ExtractLearned, AcceptLearned, LearnLearned
  <2> QED BY <1>2, <1>6, <1>7, <2>1 DEF IInv, Learned
<1> QED BY <1>8, <1>9

LEMMA NextInv == IInv /\ [Next]_vars => IInv'
<1> SUFFICES ASSUME IInv, [Next]_vars PROVE IInv'
  OBVIOUS
<1>1. CASE \/ Import \/ RemoveImport \/ (\E e \in evidence : DeleteEvidence(e))
           \/ Tick \/ Restart \/ (\E m \in Job : Retry(m)) \/ Claim \/ Record
           \/ UNCHANGED vars
  BY <1>1, OwnerStep
<1>2. ASSUME NEW m \in Job,
             Ask(m) \/ Reply(m) \/ AddMessage(m) \/ AddEvent(m) \/ AddAnswer(m)
             \/ Touch(m) \/ Enqueue(m) \/ ChatFails(m)
      PROVE  IInv'
  BY <1>2, ChatStep
<1>3. CASE Check \/ ReadSource \/ Extract \/ Accept \/ AcceptFails \/ Learn
  BY <1>3, WorkerStep
<1> QED BY <1>1, <1>2, <1>3 DEF Next

LEMMA InvHolds == Spec => []IInv
BY InitInv, NextInv, PTL DEF Spec

\* A returned reply is stored with its message and event, and its learning is
\* queued, whatever runs beside the chat.
THEOREM AnsweredKept == Spec => []AnsweredIsStored
<1>1. IInv => AnsweredIsStored BY DEF IInv, Told, AnsweredIsStored
<1> QED BY <1>1, InvHolds, PTL

\* Evidence never outlives the message it came from.
THEOREM EvidenceBound == Spec => []EvidenceHasItsMessage
<1>1. IInv => EvidenceHasItsMessage BY DEF IInv
<1> QED BY <1>1, InvHolds, PTL

\* No two readings of a message are mixed, through crashes and retries.
THEOREM ReadOnce == Spec => []OneReading
<1>1. IInv => OneReading BY DEF IInv
<1> QED BY <1>1, InvHolds, PTL

\* What succeeded is complete, but for deletions and attempts cut half way.
THEOREM LearnedInFull == Spec => []SucceededIsComplete
<1>1. IInv => SucceededIsComplete
  BY DEF IInv, Whole, SucceededIsComplete, Complete, Items
<1> QED BY <1>1, InvHolds, PTL
=============================================================================
