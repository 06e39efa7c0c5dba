--------------------------- MODULE ReportContract ---------------------------
(***************************************************************************)
(* ADR-014 as a lifecycle: a report waits for the decision it names or is  *)
(* matched with it; a choice becomes the decision's, once, by promotion or *)
(* by the owner's confirmation; what an agent says of a result is never    *)
(* confirmed, what it says of the owner's wellbeing only over the owner's  *)
(* own outcome; a removed source takes all of it.                          *)
(***************************************************************************)
CONSTANTS Report,    \* reports of choices and of results
          Choice,    \* the reports of choices
          Wellbeing, \* the reports of the owner's wellbeing
          Decision,
          Source,
          Of,        \* Of[r]: the decision that r names, reported or not
          From,      \* From[r]: the source of r
          Home,      \* Home[d]: the source of d
          Owner      \* by whom decisions are resolved in the app

VARIABLES state,     \* "new", ObservationStatus or "gone"
          matched,   \* the reports that were given their decision
          standing,  \* of each decision: "absent", "stored" or "gone"
          learned,   \* <<d, by>>: d was resolved, and learned, by a report or the owner
          recorded   \* decisions with an outcome of the owner's

vars == <<state, matched, standing, learned, recorded>>

Init ==
  /\ state = [r \in Report |-> "new"] /\ matched = {}
  /\ standing = [d \in Decision |-> "absent"]
  /\ learned = {} /\ recorded = {}

Stored(d) == d \in Decision /\ standing[d] = "stored"
Resolved(d) == Stored(d) /\ \E l \in learned : l[1] = d
Open(d) == Stored(d) /\ ~Resolved(d)

\* Another source's reports never wait for d, whatever they call it.
Waiting(d) == {r \in Report : state[r] = "unmatched" /\ Of[r] = d}

Wait(r) ==
  /\ state[r] = "new" /\ r \notin Wellbeing
  /\ state' = [state EXCEPT ![r] = "unmatched"]
  /\ UNCHANGED <<matched, standing, learned, recorded>>

Match(r) ==
  /\ state[r] = "new" /\ Stored(Of[r])
  /\ state' = [state EXCEPT ![r] = "pending"]
  /\ matched' = matched \cup {r}
  /\ UNCHANGED <<standing, learned, recorded>>

\* A decision is reported, and what waited for it is matched at once.
Arrive(d) ==
  /\ standing[d] = "absent"
  /\ standing' = [standing EXCEPT ![d] = "stored"]
  /\ state' = [r \in Report |-> IF r \in Waiting(d) THEN "pending" ELSE state[r]]
  /\ matched' = matched \cup Waiting(d)
  /\ UNCHANGED <<learned, recorded>>

\* By promotion of a new report or by confirmation; a confirmation under way
\* wins over a rejection.
Learn(r) ==
  /\ r \in Choice /\ Open(Of[r])
  /\ state[r] = "new" \/ (r \in matched /\ state[r] \in {"pending", "rejected"})
  /\ state' = [state EXCEPT ![r] = "confirmed"]
  /\ matched' = matched \cup {r}
  /\ learned' = learned \cup {<<Of[r], r>>}
  /\ UNCHANGED <<standing, recorded>>

Choose(d) ==
  /\ Open(d)
  /\ learned' = learned \cup {<<d, Owner>>}
  /\ UNCHANGED <<state, matched, standing, recorded>>

Record(d) ==
  /\ Resolved(d) /\ d \notin recorded
  /\ recorded' = recorded \cup {d}
  /\ UNCHANGED <<state, matched, standing, learned>>

Confirm(r) ==
  /\ r \in Wellbeing /\ r \in matched /\ state[r] = "pending" /\ Of[r] \in recorded
  /\ state' = [state EXCEPT ![r] = "confirmed"]
  /\ UNCHANGED <<matched, standing, learned, recorded>>

Reject(r) ==
  /\ state[r] \in {"unmatched", "pending", "confirmed", "rejected"}
  /\ state' = [state EXCEPT ![r] = "rejected"]
  /\ UNCHANGED <<matched, standing, learned, recorded>>

\* With a source go its reports, its decisions, other reports about these and
\* what was learned of its reports; the owner's own choices stay learned.
Remove(s) ==
  LET leaves(r) == From[r] = s \/ (Of[r] \in Decision /\ Home[Of[r]] = s)
  IN  /\ state' = [r \in Report |-> IF leaves(r) THEN "gone" ELSE state[r]]
      /\ matched' = {r \in matched : ~leaves(r)}
      /\ standing' = [d \in Decision |-> IF Home[d] = s THEN "gone" ELSE standing[d]]
      /\ learned' = {l \in learned : l[2] = Owner \/ ~leaves(l[2])}
      /\ recorded' = {d \in recorded : Home[d] # s}

Next ==
  \/ \E r \in Report : Wait(r) \/ Match(r) \/ Learn(r) \/ Confirm(r) \/ Reject(r)
  \/ \E d \in Decision : Arrive(d) \/ Choose(d) \/ Record(d)
  \/ \E s \in Source : Remove(s)

Spec == Init /\ [][Next]_vars
=============================================================================
