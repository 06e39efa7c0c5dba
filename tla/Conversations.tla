--------------------------- MODULE Conversations ---------------------------
(***************************************************************************)
(* Chat and the deferred learning from it (ConversationService), composed  *)
(* with the durable queue: a chat stores what was said and queues a job    *)
(* for the message; the job has a provider extract evidence from it.       *)
(*                                                                         *)
(* Chats and the worker share one event loop: each runs alone from the     *)
(* answer of a provider to its next call of one.  The owner's requests to  *)
(* delete evidence, retry learning and remove an import run on threads,    *)
(* between any two transactions.  A message is named by its job.           *)
(*                                                                         *)
(* A chat continues the one imported conversation or starts its own; only  *)
(* imported conversations are ever deleted.  What follows the evidence     *)
(* (labels, aliases, the rebuild of the model) is in KeyAliases and        *)
(* PersonalModel and is here one step that may fail.                       *)
(***************************************************************************)
EXTENDS Naturals

CONSTANTS Job, MaxAttempts, Lease, NoJob,  \* of the queue: see DurableJobs
          Item,      \* statements that a provider may find in a message
          None       \* no handler at work

Evidence == [message : Job, item : Item, attempt : 1..MaxAttempts]
Handler == [at : {"check", "read", "extract", "accept"},
            accepted : SUBSET Item, left : SUBSET Item]

ASSUME ConversationsAssumption == None \notin Handler

VARIABLES status, attempts, wait, age, worker, current, handled, completed,
          chat,      \* chat[m]: what the chat of m does next
          home,      \* home[m]: the conversation of m, "own" or "import"
          import,    \* the imported conversation: "none", "stored" or "removed"
          messages, replies, events,  \* rows of each chat
          evidence,  \* evidence rows, with the attempt that added each
          handler,   \* what retry_learning is doing
          found      \* what the evidence of each message should amount to: one of
                     \* anything, then its last reading; nothing is expected any
                     \* more once some of that was deleted or not added

queue == <<status, attempts, wait, age, worker, current, handled, completed>>
said == <<messages, replies, events>>
vars == <<queue, chat, home, import, said, evidence, handler, found>>

Queue == INSTANCE DurableJobs WITH
           AlwaysHandled <- Job, Requeueable <- Job,
           InitialDelay <- [j \in Job |-> 0], RetryDelay <- [j \in Job |-> 0],
           MaxDelay <- 0

Init ==
  /\ Queue!Init
  /\ chat = [m \in Job |-> "idle"]
  /\ home = [m \in Job |-> "own"]
  /\ import = "none"
  /\ messages = {} /\ replies = {} /\ events = {} /\ evidence = {}
  /\ handler = None
  /\ found = [m \in Job |-> SUBSET Item]

Of(m) == {e \in evidence : e.message = m}
Chat(m, now, next) == chat[m] = now /\ chat' = [chat EXCEPT ![m] = next]
HasHome(m) == home[m] = "own" \/ import = "stored"

\* Whoever has the event loop keeps it until it awaits a provider, or ends.
Writing == {"message", "event", "answer", "touch", "enqueue"}
ChatRuns == \E m \in Job : chat[m] \in Writing
WorkerRuns == \/ handler # None /\ handler.at # "extract"
              \/ worker \in {"succeeding", "failing"}

-----------------------------------------------------------------------------
\* add_import stores source, conversations, messages and events in one
\* transaction; it queues no job.
Import ==
  /\ import = "none"
  /\ import' = "stored"
  /\ UNCHANGED <<queue, chat, home, said, evidence, handler, found>>

\* remove_import: the evidence first, then the conversation, which takes its
\* messages along.  The event of a chat has no source and stays.
RemoveImport ==
  /\ import = "stored"
  /\ import' = "removed"
  /\ messages' = {m \in messages : home[m] = "own"}
  /\ replies' = {m \in replies : home[m] = "own"}
  /\ evidence' = {e \in evidence : home[e.message] = "own"}
  /\ UNCHANGED <<queue, chat, home, events, handler, found>>

DeleteEvidence(e) ==
  /\ evidence' = evidence \ {e}
  /\ found' = [found EXCEPT ![e.message] = {}]
  /\ UNCHANGED <<queue, chat, home, import, said, handler>>

-----------------------------------------------------------------------------
\* The chat finds its conversation, if it names one, and asks the provider.
Ask(m) ==
  /\ ~ChatRuns /\ ~WorkerRuns
  /\ Chat(m, "idle", "ask")
  /\ \E h \in {"own", "import"} :
       /\ h = "import" => import = "stored"
       /\ home' = [home EXCEPT ![m] = h]
  /\ UNCHANGED <<queue, import, said, evidence, handler, found>>

\* The provider answers, or fails and the chat with it.
Reply(m) ==
  /\ ~ChatRuns /\ ~WorkerRuns
  /\ Chat(m, "ask", "message") \/ Chat(m, "ask", "failed")
  /\ UNCHANGED <<queue, home, import, said, evidence, handler, found>>

\* Each write is a transaction; those of messages need the conversation's row.
AddMessage(m) ==
  /\ IF HasHome(m) THEN Chat(m, "message", "event") /\ messages' = messages \cup {m}
                   ELSE Chat(m, "message", "failed") /\ UNCHANGED messages
  /\ UNCHANGED <<queue, home, import, replies, events, evidence, handler, found>>

AddEvent(m) ==
  /\ Chat(m, "event", "answer") /\ events' = events \cup {m}
  /\ UNCHANGED <<queue, home, import, messages, replies, evidence, handler, found>>

AddAnswer(m) ==
  /\ IF HasHome(m) THEN Chat(m, "answer", "touch") /\ replies' = replies \cup {m}
                   ELSE Chat(m, "answer", "failed") /\ UNCHANGED replies
  /\ UNCHANGED <<queue, home, import, messages, events, evidence, handler, found>>

\* Fault: the chat is answered before its learning is queued.
TouchAndAnswer(m) ==
  /\ Chat(m, "touch", "answered") \/ Chat(m, "touch", "enqueue")
  /\ UNCHANGED <<queue, home, import, said, evidence, handler, found>>

Touch(m) ==
  /\ Chat(m, "touch", IF HasHome(m) THEN "enqueue" ELSE "failed")
  /\ UNCHANGED <<queue, home, import, said, evidence, handler, found>>

Enqueue(m) ==
  /\ Chat(m, "enqueue", "answered")
  /\ Queue!Enqueue(m)
  /\ UNCHANGED <<home, import, said, evidence, handler, found>>

\* A write fails; what was written before it stays.
ChatFails(m) ==
  /\ \E now \in Writing : Chat(m, now, "failed")
  /\ UNCHANGED <<queue, home, import, said, evidence, handler, found>>

-----------------------------------------------------------------------------
At(step) == handler # None /\ handler.at = step
Goto(step) == handler' = [handler EXCEPT !.at = step]
Work == <<chat, home, import, said>>  \* what no step of the worker changes

\* process_once claims a job and starts its handler without a pause.
Claim ==
  /\ ~ChatRuns /\ Queue!Claim
  /\ handler' = [at |-> "check", accepted |-> {}, left |-> {}]
  /\ UNCHANGED <<Work, evidence, found>>

\* The handler ends, well or badly.
Return == Queue!HandlerReturns /\ handler' = None
Raise == UNCHANGED completed /\ Queue!HandlerRaises /\ handler' = None

\* Fault: learning ends early for any evidence of the profile.
CheckAny ==
  /\ At("check")
  /\ \/ evidence # {} /\ Return
     \/ evidence = {} /\ Goto("read") /\ UNCHANGED queue
  /\ UNCHANGED <<Work, evidence, found>>

\* A message that any evidence came from has been learned.
Check ==
  /\ At("check")
  /\ \/ Of(current) # {} /\ Return
     \/ Of(current) = {} /\ Goto("read") /\ UNCHANGED queue
  /\ UNCHANGED <<Work, evidence, found>>

\* The message and its event are read; the provider is asked.
ReadSource ==
  /\ At("read")
  /\ \/ current \in messages \cap events /\ Goto("extract") /\ UNCHANGED queue
     \/ current \notin messages \cap events /\ Raise
  /\ UNCHANGED <<Work, evidence, found>>

\* The provider, which need not find the same every time, or fails; invalid and
\* sensitive proposals are not accepted.
Extract ==
  /\ ~ChatRuns /\ At("extract")
  /\ \/ Raise /\ UNCHANGED found
     \/ \E accepted \in SUBSET Item :
          /\ handler' = [at |-> "accept", accepted |-> accepted, left |-> accepted]
          /\ found' = [found EXCEPT ![current] = {accepted}]
          /\ UNCHANGED queue
  /\ UNCHANGED <<Work, evidence>>

Row(item) == [message |-> current, item |-> item, attempt |-> attempts[current]]

\* evidence.add asks for the event, the message and its conversation.
Accept ==
  /\ At("accept")
  /\ current \in messages \cap events
  /\ \E item \in handler.left :
       /\ evidence' = evidence \cup {Row(item)}
       /\ handler' = [handler EXCEPT !.left = @ \ {item}]
  /\ UNCHANGED <<queue, Work, found>>

\* The handler fails or is cut with some of the evidence added.
Cut == found' = IF At("accept") /\ handler.left \notin {{}, handler.accepted}
                THEN [found EXCEPT ![current] = {}] ELSE found

\* evidence.add fails, for want of the message or of the database.
AcceptFails ==
  /\ At("accept") /\ handler.left # {}
  /\ Raise /\ Cut
  /\ UNCHANGED <<Work, evidence>>

\* All evidence is stored; the model is rebuilt, unless that fails.
Learn ==
  /\ At("accept") /\ handler.left = {}
  /\ Return \/ (handler.accepted # {} /\ Raise)
  /\ UNCHANGED <<Work, evidence, found>>

Record ==
  /\ ~ChatRuns
  /\ Queue!MarkSucceeded \/ Queue!MarkFailed \/ Queue!SweepOnly \/ Queue!RepositoryError
  /\ UNCHANGED <<Work, evidence, handler, found>>

\* The owner retries the learning of a message whose job has failed.
Retry(m) ==
  /\ Queue!Requeue(m)
  /\ UNCHANGED <<Work, evidence, handler, found>>

Tick ==
  /\ Queue!Tick
  /\ UNCHANGED <<Work, evidence, handler, found>>

Restart ==
  /\ Queue!Restart
  /\ chat' = [m \in Job |-> IF chat[m] \in {"idle", "answered"} THEN chat[m] ELSE "failed"]
  /\ handler' = None
  /\ Cut
  /\ UNCHANGED <<home, import, said, evidence>>

Next ==
  \/ Import \/ RemoveImport \/ \E e \in evidence : DeleteEvidence(e)
  \/ \E m \in Job : \/ Ask(m) \/ Reply(m) \/ AddMessage(m) \/ AddEvent(m) \/ AddAnswer(m)
                    \/ Touch(m) \/ Enqueue(m) \/ ChatFails(m) \/ Retry(m)
  \/ Claim \/ Check \/ ReadSource \/ Extract \/ Accept \/ AcceptFails \/ Learn
  \/ Record \/ Tick \/ Restart

Spec == Init /\ [][Next]_vars

-----------------------------------------------------------------------------
RowsOK ==
  /\ chat \in [Job -> {"idle", "ask", "answered", "failed"} \cup Writing]
  /\ home \in [Job -> {"own", "import"}]
  /\ import \in {"none", "stored", "removed"}
  /\ messages \subseteq Job /\ replies \subseteq Job /\ events \subseteq Job
  /\ evidence \subseteq Evidence
  /\ handler \in Handler \cup {None}
  /\ found \in [Job -> SUBSET SUBSET Item]

\* Every variable has its type, the queue's its own; the handler is at work
\* exactly while the worker is, and only one party has the event loop.
TypeOK ==
  /\ Queue!TypeOK /\ RowsOK
  /\ handler # None <=> worker = "handling"
  /\ ~(ChatRuns /\ WorkerRuns)

\* ADR-005: a reply that was returned has its message and event stored, and a
\* job for its learning, until the owner removes the conversation.
AnsweredIsStored ==
  \A m \in Job : chat[m] = "answered" =>
    /\ status[m] # "absent" /\ m \in events
    /\ m \in messages \cap replies \/ ~HasHome(m)

\* phase-10-report, P10-T11: evidence never outlives the message it came from,
\* not even when the import is removed while a provider reads that message.
EvidenceHasItsMessage ==
  \A e \in evidence : e.message \in messages

\* The evidence of a message comes from one reading of it: readings differ, and
\* a retry after a crash or the owner's retry must not mix two of them.
OneReading ==
  \A e, f \in evidence : e.message = f.message => e.attempt = f.attempt

\* Learning that succeeded has stored all that was found in the message, unless
\* the owner deleted some or an attempt was cut between two items.
SucceededIsComplete ==
  \A m \in messages :
    status[m] = "succeeded" => found[m] \subseteq {{e.item : e \in Of(m)}}
=============================================================================
