--------------------------- MODULE MCDurableJobs ---------------------------
(***************************************************************************)
(* What the daemon does by itself: the worker with two jobs (an extraction *)
(* delayed, retried with backoff and requeueable, and a backup or refresh  *)
(* whose handler a restart may take away), and the archives that backups   *)
(* make and restores apply.  They share no variable that is modelled: a    *)
(* behaviour is one of either, next to the other at rest.                  *)
(***************************************************************************)
EXTENDS DurableJobs, Portability

MCJob == {"extract", "backup"}
MCAlwaysHandled == {"extract"}
MCRequeueable == {"extract"}
MCInitialDelay == [j \in MCJob |-> IF j = "extract" THEN 1 ELSE 0]
MCRetryDelay == [j \in MCJob |-> IF j = "extract" THEN 1 ELSE 0]

NoJobYet == Init /\ handled = Job

BackgroundInit == Init /\ PortabilityInit

BackgroundNext ==
  \/ PortabilityInit /\ Next /\ UNCHANGED portabilityVars
  \/ NoJobYet /\ PortabilityNext /\ UNCHANGED vars

\* Each part is scheduled as it is alone, as long as the other rests.
BackgroundSpec ==
  /\ BackgroundInit /\ [][BackgroundNext]_<<vars, portabilityVars>>
  /\ Fairness
  /\ WF_<<vars, portabilityVars>>(NoJobYet /\ StartStep /\ UNCHANGED vars)
=============================================================================
