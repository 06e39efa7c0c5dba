----------------------------- MODULE DurableJobs -----------------------------
(***************************************************************************)
(* The jobs table (SqliteJobRepository) and the one in-process worker that *)
(* polls it (DurableJobWorker).  Enqueuers and the owner run on other      *)
(* threads; the process may die anywhere and starts again with a handler   *)
(* for each feature its settings enable.                                   *)
(*                                                                         *)
(* Times are relative: wait[j] ticks remain until available_at, age[j]     *)
(* ticks have passed since locked_at.  Among the claimable jobs of one     *)
(* class any may be chosen; the code takes the oldest.                     *)
(***************************************************************************)
EXTENDS Naturals

CONSTANTS Job,           \* job ids
          AlwaysHandled, \* jobs of connector syncs and conversation extraction
          Requeueable,   \* jobs of conversation extraction
          MaxAttempts,   \* Job.max_attempts
          InitialDelay,  \* ticks before a job's first attempt
          RetryDelay,    \* ticks before its second one; 0 when none is configured
          MaxDelay,      \* max_retry_delay
          Lease,         \* lease_timeout
          NoJob          \* the worker holds none

ASSUME JobsAssumption ==
  /\ AlwaysHandled \subseteq Job /\ Requeueable \subseteq AlwaysHandled
  /\ MaxAttempts \in Nat \ {0}
  /\ InitialDelay \in [Job -> Nat] /\ RetryDelay \in [Job -> Nat]
  /\ MaxDelay \in Nat /\ Lease \in Nat \ {0}
  /\ NoJob \notin Job

VARIABLES status,     \* status[j]: "absent" or JobStatus
          attempts,
          wait, age,
          worker,     \* "polling", "handling", "succeeding", "failing", "dead"
          current,    \* the job process_once() holds
          handled,    \* jobs whose type has a handler in this process
          completed   \* jobs whose handler has run to the end

table == <<status, attempts, wait, age>>
process == <<worker, current, handled, completed>>
vars == <<table, process>>

-----------------------------------------------------------------------------
Stale(j) == status[j] = "running" /\ age[j] > Lease

\* claimable, in the order claim_next prefers
Due(j) == j \in handled /\ attempts[j] < MaxAttempts /\ status[j] = "queued" /\ wait[j] = 0
Interrupted(j) == j \in handled /\ attempts[j] < MaxAttempts /\ Stale(j)
Claimable == IF \E j \in Job : Due(j) THEN {j \in Job : Due(j)}
                                      ELSE {j \in Job : Interrupted(j)}

\* Fault: interrupted final attempts stay as they are.
NoneExhausted == {}

\* The sweep that opens claim_next: an interrupted final attempt has failed.
Exhausted == {j \in Job : Stale(j) /\ attempts[j] >= MaxAttempts}

\* process_once: exponential in the attempts made, capped.
Backoff(j, made) ==
  LET delay == RetryDelay[j] * 2 ^ (IF made > 0 THEN made - 1 ELSE 0)
  IN  IF delay <= MaxDelay THEN delay ELSE MaxDelay

Init ==
  /\ status = [j \in Job |-> "absent"]
  /\ attempts = [j \in Job |-> 0]
  /\ wait = [j \in Job |-> 0]
  /\ age = [j \in Job |-> 0]
  /\ worker = "polling"
  /\ current = NoJob
  /\ handled \in {H \in SUBSET Job : AlwaysHandled \subseteq H}
  /\ completed = {}

-----------------------------------------------------------------------------
\* Chat, connector, backup and embedding code insert a row with a new id.
Enqueue(j) ==
  /\ status[j] = "absent"
  /\ status' = [status EXCEPT ![j] = "queued"]
  /\ wait' = [wait EXCEPT ![j] = InitialDelay[j]]
  /\ UNCHANGED <<attempts, age, process>>

\* claim_next: one transaction sweeps the exhausted jobs and claims one.
Claim ==
  /\ worker = "polling"
  /\ \E j \in Claimable :
       /\ status' = [i \in Job |-> IF i = j THEN "running"
                                   ELSE IF i \in Exhausted THEN "failed" ELSE status[i]]
       /\ attempts' = [attempts EXCEPT ![j] = @ + 1]
       /\ age' = [age EXCEPT ![j] = 0]
       /\ worker' = "handling"
       /\ current' = j
  /\ UNCHANGED <<wait, handled, completed>>

\* claim_next with nothing to claim.
SweepOnly ==
  /\ worker = "polling"
  /\ Claimable = {} /\ Exhausted # {}
  /\ status' = [i \in Job |-> IF i \in Exhausted THEN "failed" ELSE status[i]]
  /\ UNCHANGED <<attempts, wait, age, process>>

\* The handler returns: what it does is done.
HandlerReturns ==
  /\ worker = "handling"
  /\ worker' = "succeeding"
  /\ completed' = completed \cup {current}
  /\ UNCHANGED <<table, current, handled>>

\* The handler raises; it may have done all of its work before that.
HandlerRaises ==
  /\ worker = "handling"
  /\ worker' = "failing"
  /\ completed' \in {completed, completed \cup {current}}
  /\ UNCHANGED <<table, current, handled>>

MarkSucceeded ==
  /\ worker = "succeeding"
  /\ status' = [status EXCEPT ![current] = "succeeded"]
  /\ worker' = "polling"
  /\ current' = NoJob
  /\ UNCHANGED <<attempts, wait, age, handled, completed>>

\* Fault: an off-by-one gives a job up one attempt early.
MarkFailedEarly ==
  /\ worker = "failing"
  /\ LET spent == attempts[current] + 1 >= MaxAttempts
     IN  /\ status' = [status EXCEPT ![current] = IF spent THEN "failed" ELSE "queued"]
         /\ wait' = [wait EXCEPT ![current] =
                       IF spent THEN @ ELSE Backoff(current, attempts[current])]
  /\ worker' = "polling"
  /\ current' = NoJob
  /\ UNCHANGED <<attempts, age, handled, completed>>

MarkFailed ==
  /\ worker = "failing"
  /\ LET spent == attempts[current] >= MaxAttempts
     IN  /\ status' = [status EXCEPT ![current] = IF spent THEN "failed" ELSE "queued"]
         /\ wait' = [wait EXCEPT ![current] =
                       IF spent THEN @ ELSE Backoff(current, attempts[current])]
  /\ worker' = "polling"
  /\ current' = NoJob
  /\ UNCHANGED <<attempts, age, handled, completed>>

\* run() does not guard process_once: an error of the repository itself ends
\* the worker task, and nothing in the process starts another.
RepositoryError ==
  /\ worker \in {"polling", "succeeding", "failing"}
  /\ worker' = "dead"
  /\ current' = NoJob
  /\ UNCHANGED <<table, handled, completed>>

\* Fault: requeue_failed does not look at the status.
RequeueAny(j) ==
  /\ j \in Requeueable /\ status[j] # "absent"
  /\ status' = [status EXCEPT ![j] = "queued"]
  /\ attempts' = [attempts EXCEPT ![j] = 0]
  /\ wait' = [wait EXCEPT ![j] = 0]
  /\ UNCHANGED <<age, process>>

\* The owner retries the learning of a message whose job has failed.
Requeue(j) ==
  /\ j \in Requeueable /\ status[j] = "failed"
  /\ status' = [status EXCEPT ![j] = "queued"]
  /\ attempts' = [attempts EXCEPT ![j] = 0]
  /\ wait' = [wait EXCEPT ![j] = 0]
  /\ UNCHANGED <<age, process>>

\* The process dies, whatever the worker was doing, and starts again.
Restart ==
  /\ worker' = "polling"
  /\ current' = NoJob
  /\ handled' \in {H \in SUBSET Job : AlwaysHandled \subseteq H}
  /\ UNCHANGED <<table, completed>>

\* Time passes; an age past the lease is as good as any other.
Tick ==
  /\ wait' = [j \in Job |-> IF wait[j] > 0 THEN wait[j] - 1 ELSE 0]
  /\ age' = [j \in Job |-> IF status[j] = "running" /\ age[j] <= Lease
                           THEN age[j] + 1 ELSE age[j]]
  /\ UNCHANGED <<status, attempts, process>>

HandlerEnds == HandlerReturns \/ HandlerRaises
Mark == MarkSucceeded \/ MarkFailed
Poll == Claim \/ SweepOnly

Next ==
  \/ \E j \in Job : Enqueue(j) \/ Requeue(j)
  \/ Claim \/ SweepOnly
  \/ HandlerReturns \/ HandlerRaises
  \/ MarkSucceeded \/ MarkFailed
  \/ RepositoryError \/ Restart \/ Tick

\* The event loop keeps polling, handlers end because every call they make has
\* a timeout, and the clock advances.  Nothing is assumed of crashes.
Fairness == WF_vars(Poll) /\ WF_vars(HandlerEnds) /\ WF_vars(Mark) /\ WF_vars(Tick)

Spec == Init /\ [][Next]_vars
FairSpec == Spec /\ Fairness

-----------------------------------------------------------------------------
\* Every variable has its type; no job is tried more often than allowed.
TypeOK ==
  /\ status \in [Job -> {"absent", "queued", "running", "succeeded", "failed"}]
  /\ attempts \in [Job -> 0..MaxAttempts]
  /\ wait \in [Job -> Nat]
  /\ age \in [Job -> 0..Lease + 1]
  /\ worker \in {"polling", "handling", "succeeding", "failing", "dead"}
  /\ current \in Job \cup {NoJob}
  /\ handled \in SUBSET Job
  /\ completed \in SUBSET Job

\* While the worker holds a job, however long its handler takes, the job is
\* RUNNING: no sweep, requeue or claim takes it away, so mark_succeeded, which
\* does not look at the status, overwrites nothing.
HeldJobIsRunning ==
  worker \in {"handling", "succeeding", "failing"} =>
    current \in Job /\ status[current] = "running"

\* A job that has succeeded is never queued, claimed, swept or failed again,
\* although none of these transactions names the status it overwrites.
SucceededStays ==
  [][\A j \in Job : status[j] = "succeeded" => status'[j] = "succeeded"]_vars

\* The abstract queue: pending covers every way of waiting and running.
Outcome == [j \in Job |-> IF status[j] \in {"queued", "running"} THEN "pending"
                          ELSE status[j]]
Contract == INSTANCE JobContract WITH
              outcome <- Outcome, tries <- attempts, effected <- completed

\* The table and the worker keep the queue's promise to each job: bounded
\* attempts, success only after the handler ended, failure only at the limit.
KeepsContract == Contract!Spec

\* phase-1-report, P1-06: retry limits, leases and interrupted-job recovery.
\* A job whose type always has a handler is brought to an end, through crashes
\* during any attempt, once the repository stops failing under the worker.
JobsEnd ==
  \A j \in AlwaysHandled :
    <>[](worker # "dead") =>
      (status[j] \in {"queued", "running"} ~> status[j] \in {"succeeded", "failed"})
=============================================================================
