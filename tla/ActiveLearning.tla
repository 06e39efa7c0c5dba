---------------------------- MODULE ActiveLearning ----------------------------
(***************************************************************************)
(* Questions about trade-offs (ActiveLearningService): generate asks about *)
(* pairs of preferences of the current snapshot, answer turns the owner's  *)
(* choice into evidence.  Each read a later step depends on and each       *)
(* transaction is a step; a request may die between any two.               *)
(*                                                                         *)
(* The snapshot is left to PersonalModel, and the ranking by uncertainty   *)
(* with it: which preferences are known, which candidates a generate picks *)
(* and which key of a pair comes first is any choice.                      *)
(***************************************************************************)
EXTENDS Naturals, FiniteSets

CONSTANTS Asker,       \* request threads
          Question,    \* ids of questions
          Trait,       \* keys of preferences
          Situation,   \* their contexts
          MaxLimit,    \* bound on the questions one generate may ask for
          MaxAnswer,   \* bound on the answers sent
          Unused       \* no row, no request

ASSUME ActiveLearningAssumption ==
  MaxLimit \in Nat /\ MaxAnswer \in Nat /\ Unused \notin Question \cup Trait

VARIABLES questions,  \* the question rows
          answers,    \* the answer row of each question
          pairwise,   \* evidence of source type pairwise_calibration
          sent,       \* answers sent so far; each stores its own event
          asks        \* the requests under way

learningVars == <<questions, answers, pairwise, sent, asks>>

LearningInit ==
  /\ questions = [q \in Question |-> Unused]
  /\ answers = [q \in Question |-> Unused]
  /\ pairwise = {} /\ sent = 0
  /\ asks = [t \in Asker |-> Unused]

Asking == {q \in Question : questions[q] # Unused}
AskAt(t, step) == asks[t] # Unused /\ asks[t].at = step
AskEnd(t) == asks' = [asks EXCEPT ![t] = Unused]

-----------------------------------------------------------------------------
\* What is asked: one or two keys in order, and their context.
KeySet(draft) == {draft.keys[i] : i \in DOMAIN draft.keys}

\* Fault: the pair is not sorted before it is looked up.
SameTradeOffOrdered(c, d) == c = d

SameTradeOff(c, d) == KeySet(c) = KeySet(d) /\ c.context = d.context

New(drafts, existing) == {d \in drafts : \A e \in existing : ~SameTradeOff(d, e)}

Draft(keys, context) == [keys |-> keys, context |-> context]

\* generate_active_questions: pairs in one context that were not asked, each
\* with the target if there is one, as many as the limit allows; when there is
\* none, the first signal alone.  Whatever the snapshot knows and the target
\* is, these are the outcomes.
Pairs == {d \in [keys : Trait \X Trait, context : Situation] : d.keys[1] # d.keys[2]}
Alone == {Draft(<<k>>, c) : k \in Trait, c \in Situation}

QuestionRow == [asks : Pairs \cup Alone, status : {"pending", "answered"}, before : SUBSET Question]
AnswerRow == [choice : {"a", "b"}, event : 1..MaxAnswer]

\* No row is Unused.
ASSUME UnusedAssumption == Unused \notin QuestionRow \cup AnswerRow

Generations(existing) ==
  {s \in SUBSET New(Pairs, existing) :
     Cardinality(s) <= MaxLimit /\ \A c, d \in s : c # d => ~SameTradeOff(c, d)}
  \cup {{d} : d \in New(Alone, existing)}

-----------------------------------------------------------------------------
BeginGenerate(t) ==
  /\ asks[t] = Unused
  /\ asks' = [asks EXCEPT ![t] = [at |-> "list", before |-> Asking]]
  /\ UNCHANGED <<pairwise, questions, answers, sent>>

Generate(t) ==
  /\ AskAt(t, "list")
  /\ \E drafts \in Generations({questions[q].asks : q \in Asking}) :
       asks' = [asks EXCEPT ![t] = IF drafts = {} THEN Unused
                                   ELSE [at |-> "add", drafts |-> drafts, before |-> @.before]]
  /\ UNCHANGED <<pairwise, questions, answers, sent>>

AddQuestion(t, q) ==
  /\ AskAt(t, "add") /\ questions[q] = Unused
  /\ \E d \in asks[t].drafts :
       /\ questions' = [questions EXCEPT ![q] =
            [asks |-> d, status |-> "pending", before |-> asks[t].before]]
       /\ IF asks[t].drafts = {d} THEN AskEnd(t)
                                 ELSE asks' = [asks EXCEPT ![t].drafts = @ \ {d}]
  /\ UNCHANGED <<pairwise, answers, sent>>

-----------------------------------------------------------------------------
\* answer: the question is read, the event stored, the answer stored, then the
\* evidence one transaction at a time, then the model rebuilt.
BeginAnswer(t, q, choice) ==
  /\ asks[t] = Unused /\ q \in Asking /\ questions[q].status = "pending"
  /\ sent < MaxAnswer
  /\ sent' = sent + 1
  /\ asks' = [asks EXCEPT ![t] = [at |-> "answer", question |-> q, choice |-> choice, event |-> sent + 1]]
  /\ UNCHANGED <<pairwise, questions, answers>>

\* option a is the first key at the second's cost, option b the reverse.
Sign(choice, i) == IF (choice = "a") = (i = 1) THEN 1 ELSE 2
AnswerEvidence(q, choice, event) ==
  {[question |-> q, event |-> event, key |-> questions[q].asks.keys[i], value |-> Sign(choice, i)] :
     i \in DOMAIN questions[q].asks.keys}

\* Fault: the status read at the start of the request is relied on.
AddAnswerAgain(t) ==
  /\ AskAt(t, "answer")
  /\ LET a == asks[t]
     IN  /\ answers' = [answers EXCEPT ![a.question] = [choice |-> a.choice, event |-> a.event]]
         /\ questions' = [questions EXCEPT ![a.question].status = "answered"]
         /\ asks' = [asks EXCEPT ![t] = [at |-> "learn", left |-> AnswerEvidence(a.question, a.choice, a.event)]]
  /\ UNCHANGED <<pairwise, sent>>

\* add_answer asks for a pending question in its own transaction; the loser's
\* event stays behind.
AddAnswer(t) ==
  /\ AskAt(t, "answer")
  /\ LET a == asks[t]
     IN  \/ /\ questions[a.question].status = "pending" /\ answers[a.question] = Unused
            /\ answers' = [answers EXCEPT ![a.question] = [choice |-> a.choice, event |-> a.event]]
            /\ questions' = [questions EXCEPT ![a.question].status = "answered"]
            /\ asks' = [asks EXCEPT ![t] = [at |-> "learn", left |-> AnswerEvidence(a.question, a.choice, a.event)]]
         \/ /\ questions[a.question].status # "pending"
            /\ AskEnd(t) /\ UNCHANGED <<answers, questions>>
  /\ UNCHANGED <<pairwise, sent>>

\* After the last item come the rebuild and the answer to the request.
AddAnswerEvidence(t) ==
  /\ AskAt(t, "learn")
  /\ \E e \in asks[t].left :
       /\ pairwise' = pairwise \cup {e}
       /\ IF asks[t].left = {e} THEN AskEnd(t)
                               ELSE asks' = [asks EXCEPT ![t].left = @ \ {e}]
  /\ UNCHANGED <<questions, answers, sent>>

-----------------------------------------------------------------------------
\* An error, or the daemon dies.
AskFails(t) ==
  /\ asks[t] # Unused
  /\ AskEnd(t)
  /\ UNCHANGED <<pairwise, questions, answers, sent>>

LearningNext ==
  \E t \in Asker :
       \/ BeginGenerate(t) \/ Generate(t)
       \/ \E q \in Question : \/ AddQuestion(t, q)
                              \/ \E choice \in {"a", "b"} : BeginAnswer(t, q, choice)
       \/ AddAnswer(t) \/ AddAnswerEvidence(t) \/ AskFails(t)

LearningSpec == LearningInit /\ [][LearningNext]_learningVars

-----------------------------------------------------------------------------
\* phase-8-report, P8-03: a stored question is not repeated.  Two generates that run at
\* the same time may both ask it; a generate never asks what was stored when
\* it began, whatever the snapshot has become and in whichever order the keys
\* now rank.
NotAskedAgain ==
  \A q \in Asking : \A r \in questions[q].before :
    questions[q].asks.context = questions[r].asks.context
    => KeySet(questions[q].asks) # KeySet(questions[r].asks)

\* However many answers to a question race, what is learned is one of them:
\* the one stored, and one key's gain is the other's loss.
OneAnswerIsLearned ==
  \A e \in pairwise :
    /\ answers[e.question] # Unused /\ answers[e.question].event = e.event
    /\ e \in AnswerEvidence(e.question, answers[e.question].choice, e.event)
    /\ \A f \in pairwise : f.question = e.question /\ f.key # e.key => f.value # e.value
=============================================================================
