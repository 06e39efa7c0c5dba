----------------------------- MODULE JobContract -----------------------------
(***************************************************************************)
(* What the durable queue promises of each job, whatever the worker, the   *)
(* leases and the crashes do: it is tried at most MaxAttempts times, it is *)
(* reported as succeeded only after its handler has run to the end, and it *)
(* is given up only when its attempts are used up.                         *)
(***************************************************************************)
EXTENDS Naturals

CONSTANTS Job,          \* job ids
          MaxAttempts   \* attempts allowed to each job

VARIABLES outcome,      \* "absent", "pending", "succeeded" or "failed"
          tries,        \* attempts since the job was last queued
          effected      \* jobs whose handler has run to the end at least once

vars == <<outcome, tries, effected>>

Init ==
  /\ outcome = [j \in Job |-> "absent"]
  /\ tries = [j \in Job |-> 0]
  /\ effected = {}

\* What may become of job j in one step.
Submitted(j) ==
  /\ outcome[j] = "absent" /\ outcome'[j] = "pending"
  /\ tries'[j] = 0 /\ (j \in effected' <=> j \in effected)

Tried(j) ==
  /\ outcome[j] = "pending" /\ outcome'[j] = "pending"
  /\ tries[j] < MaxAttempts /\ tries'[j] = tries[j] + 1
  /\ (j \in effected' <=> j \in effected)

Effected(j) ==
  /\ outcome[j] = "pending" /\ outcome'[j] = "pending"
  /\ tries[j] > 0 /\ tries'[j] = tries[j]
  /\ j \in effected'

Succeeded(j) ==
  /\ outcome[j] = "pending" /\ outcome'[j] = "succeeded"
  /\ j \in effected
  /\ tries'[j] = tries[j] /\ (j \in effected' <=> j \in effected)

GivenUp(j) ==
  /\ outcome[j] = "pending" /\ outcome'[j] = "failed"
  /\ tries[j] = MaxAttempts
  /\ tries'[j] = tries[j] /\ (j \in effected' <=> j \in effected)

Resubmitted(j) ==
  /\ outcome[j] = "failed" /\ outcome'[j] = "pending"
  /\ tries'[j] = 0 /\ (j \in effected' <=> j \in effected)

Kept(j) ==
  /\ outcome'[j] = outcome[j] /\ tries'[j] = tries[j] /\ (j \in effected' <=> j \in effected)

\* One transaction may give up several jobs and try another.
Next ==
  /\ outcome' \in [Job -> {"absent", "pending", "succeeded", "failed"}]
  /\ tries' \in [Job -> Nat]
  /\ effected' \in SUBSET Job
  /\ \A j \in Job : \/ Submitted(j) \/ Tried(j) \/ Effected(j) \/ Succeeded(j)
                    \/ GivenUp(j) \/ Resubmitted(j) \/ Kept(j)

Spec == Init /\ [][Next]_vars
=============================================================================
