---------------------------- MODULE ExternalAccess ----------------------------
(***************************************************************************)
(* External services: the owner creates identities with scopes, issues,    *)
(* rotates and revokes their credentials; services call with them          *)
(* (ExternalIdentityService, external_api.py, security.py's authorize and  *)
(* the tables behind them).  Threads may die between two statements.       *)
(* Secrets, names, replies and audit records are left out.                 *)
(***************************************************************************)
EXTENDS Naturals

CONSTANTS Thread,      \* request threads
          Identity,    \* ids of service identities, each used at most once
          Credential,  \* ids of API credentials, each used at most once
          Nothing

Operation ==
  {"predict-choice", "rank-options", "preference-summary", "model-summary", "find-similar-decisions",
   "record-decision", "record-outcome", "delegation-requests",
   "decision-io/interactions", "decision-io/decisions", "decision-io/resolutions", "decision-io/outcomes"}

CONSTANTS Called,   \* the operations that are called
          ScopeSet  \* the sets of scopes the owner grants

VARIABLES identities,   \* Nothing, or the scopes and whether it is active
          credentials,  \* Nothing, or the identity and whether it is active
          calls

externalVars == <<identities, credentials, calls>>

ExternalInit ==
  /\ identities = [i \in Identity |-> Nothing]
  /\ credentials = [c \in Credential |-> Nothing]
  /\ calls = [p \in Thread |-> Nothing]

\* external_scope: the one scope an operation needs.
RequiredScope(op) ==
  CASE op \in {"predict-choice", "rank-options", "find-similar-decisions"} -> "decision:predict"
    [] op = "preference-summary" -> "preference:summary:read"
    [] op = "model-summary" -> "model:summary:read"
    [] op \in {"record-decision", "decision-io/decisions"} -> "decision:record"
    [] op = "record-outcome" -> "outcome:record"
    [] op = "delegation-requests" -> "agent:delegate"
    [] op = "decision-io/interactions" -> "interaction:record"
    [] op = "decision-io/resolutions" -> "decision:resolution:record"
    [] op = "decision-io/outcomes" -> "outcome:observe"

\* The tools of the MCP server, each a call of one operation with the agent's key.
ToolRoute ==
  [predict_choice |-> "predict-choice", rank_options |-> "rank-options",
   get_preference_summary |-> "preference-summary", find_similar_decisions |-> "find-similar-decisions",
   record_decision |-> "record-decision", record_outcome |-> "record-outcome",
   request_delegation |-> "delegation-requests", get_delegation |-> "delegation-requests",
   complete_delegation |-> "delegation-requests"]

ServiceScopes == {RequiredScope(op) : op \in Operation}

\* validate_scopes
Grantable(scopes) == scopes # {} /\ scopes \subseteq ServiceScopes

\* No row and no request is Nothing.
ASSUME NothingAssumption ==
  /\ Nothing \notin [scopes : SUBSET ServiceScopes, active : BOOLEAN]
  /\ Nothing \notin [identity : Identity, active : BOOLEAN]

ASSUME ScopeAssumption == Called \subseteq Operation /\ \A scopes \in ScopeSet : Grantable(scopes)

IsAt(p, step) == calls[p] # Nothing /\ calls[p].at = step
Ends(p) == calls' = [calls EXCEPT ![p] = Nothing]
Goes(p, step) == calls' = [calls EXCEPT ![p].at = step]
Active(i) == identities[i] # Nothing /\ identities[i].active

-----------------------------------------------------------------------------
\* create: identity and scopes are one transaction, its first credential is
\* issued after it.
CreateIdentity(p, i, scopes) ==
  /\ calls[p] = Nothing /\ identities[i] = Nothing
  /\ identities' = [identities EXCEPT ![i] = [scopes |-> scopes, active |-> TRUE]]
  /\ calls' = [calls EXCEPT ![p] = [at |-> "check", identity |-> i]]
  /\ UNCHANGED credentials

\* issue_credential: of an identity that is active when it is read.
BeginIssue(p, i) ==
  /\ calls[p] = Nothing /\ identities[i] # Nothing
  /\ calls' = [calls EXCEPT ![p] = [at |-> "check", identity |-> i]]
  /\ UNCHANGED <<identities, credentials>>

CheckActive(p) ==
  /\ IsAt(p, "check")
  /\ IF Active(calls[p].identity) THEN Goes(p, "issue") ELSE Ends(p)
  /\ UNCHANGED <<identities, credentials>>

AddCredential(p, c) ==
  /\ IsAt(p, "issue") /\ credentials[c] = Nothing
  /\ credentials' = [credentials EXCEPT ![c] = [identity |-> calls[p].identity, active |-> TRUE]]
  /\ Ends(p)
  /\ UNCHANGED identities

\* What a call may still come to use: the scopes granted while it is under way.
Granting(i, scopes) ==
  [p \in Thread |-> IF calls[p] # Nothing /\ "granted" \in DOMAIN calls[p]
                       /\ credentials[calls[p].credential].identity = i
                    THEN [calls[p] EXCEPT !.granted = @ \cup scopes] ELSE calls[p]]

\* replace_scopes: an active identity is read, then its scopes are replaced.
BeginReplace(p, i, scopes) ==
  /\ calls[p] = Nothing /\ Active(i)
  /\ calls' = [calls EXCEPT ![p] = [at |-> "replace", identity |-> i, scopes |-> scopes]]
  /\ UNCHANGED <<identities, credentials>>

ReplaceScopes(p) ==
  /\ IsAt(p, "replace")
  /\ LET i == calls[p].identity
     IN  /\ identities' = [identities EXCEPT ![i].scopes = calls[p].scopes]
         /\ calls' = [Granting(i, calls[p].scopes) EXCEPT ![p] = Nothing]
  /\ UNCHANGED credentials

\* revoke_identity leaves the credentials as they are; revoke_credential.
RevokeIdentity(i) ==
  /\ Active(i)
  /\ identities' = [identities EXCEPT ![i].active = FALSE]
  /\ UNCHANGED <<credentials, calls>>

RevokeCredential(c) ==
  /\ credentials[c] # Nothing /\ credentials[c].active
  /\ credentials' = [credentials EXCEPT ![c].active = FALSE]
  /\ UNCHANGED <<identities, calls>>

-----------------------------------------------------------------------------
\* A call of a service; "barred" remembers whether its credential or identity
\* was revoked when it came in, "granted" what its identity was granted since.
BeginCall(p, c, op) ==
  /\ calls[p] = Nothing /\ credentials[c] # Nothing
  /\ LET i == credentials[c].identity
     IN  calls' = [calls EXCEPT ![p] =
           [at |-> "credential", credential |-> c, op |-> op, scopes |-> {},
            barred |-> ~credentials[c].active \/ ~Active(i), granted |-> identities[i].scopes,
            wrote |-> {}]]
  /\ UNCHANGED <<identities, credentials>>

\* resolve_tool_request: an agent's call is that of the tool's operation.
CallTool(p, c, tool) == ToolRoute[tool] \in Called /\ BeginCall(p, c, ToolRoute[tool])

ReadCredential(p) ==
  /\ IsAt(p, "credential")
  /\ IF credentials[calls[p].credential].active THEN Goes(p, "identity") ELSE Ends(p)
  /\ UNCHANGED <<identities, credentials>>

\* Fault: the identity of an active credential is taken to be active.
ReadIdentityAny(p) ==
  /\ IsAt(p, "identity")
  /\ Goes(p, "scopes")
  /\ UNCHANGED <<identities, credentials>>

ReadIdentity(p) ==
  /\ IsAt(p, "identity")
  /\ IF Active(credentials[calls[p].credential].identity) THEN Goes(p, "scopes") ELSE Ends(p)
  /\ UNCHANGED <<identities, credentials>>

\* The scopes come of a second SELECT.
ReadScopes(p) ==
  /\ IsAt(p, "scopes")
  /\ calls' = [calls EXCEPT ![p].at = "authorize",
                 ![p].scopes = identities[credentials[calls[p].credential].identity].scopes]
  /\ UNCHANGED <<identities, credentials>>

\* authorize, after the credential's last use is stored.
Authorize(p) ==
  /\ IsAt(p, "authorize")
  /\ IF RequiredScope(calls[p].op) \in calls[p].scopes THEN Goes(p, "handle") ELSE Ends(p)
  /\ UNCHANGED <<identities, credentials>>

\* What the endpoints of external_api.py write; delegation and Decision I/O are
\* modules of their own.
Writes(p, kinds, step) ==
  /\ calls' = [calls EXCEPT ![p].wrote = @ \cup kinds, ![p].at = step]
  /\ UNCHANGED <<identities, credentials>>

RecordDecision(p) == IsAt(p, "handle") /\ calls[p].op = "record-decision" /\ Writes(p, {"decision"}, "answer")
\* predict: the decision is stored before, and without, its prediction.
PredictChoice(p) ==
  /\ IsAt(p, "handle") /\ calls[p].op \in {"predict-choice", "rank-options"}
  /\ Writes(p, {"decision"}, "predict")
StorePrediction(p) == IsAt(p, "predict") /\ Writes(p, {"prediction"}, "answer")
PreferenceSummary(p) == IsAt(p, "handle") /\ calls[p].op = "preference-summary" /\ Writes(p, {}, "answer")
ModelSummary(p) == IsAt(p, "handle") /\ calls[p].op = "model-summary" /\ Writes(p, {}, "answer")
FindSimilar(p) == IsAt(p, "handle") /\ calls[p].op = "find-similar-decisions" /\ Writes(p, {}, "answer")
\* A report of wellbeing is an observation only (module DecisionIo).
RecordReport(p) == IsAt(p, "handle") /\ calls[p].op = "record-outcome" /\ Writes(p, {"observation"}, "answer")
Delegated(p) ==
  /\ IsAt(p, "handle")
  /\ calls[p].op \in Operation \ {"record-decision", "predict-choice", "rank-options", "preference-summary",
                                  "model-summary", "find-similar-decisions", "record-outcome"}
  /\ Writes(p, {"elsewhere"}, "answer")

\* The reply is sent, or the thread dies anywhere.
End(p) ==
  /\ calls[p] # Nothing
  /\ Ends(p)
  /\ UNCHANGED <<identities, credentials>>

ExternalNext ==
  \/ \E i \in Identity : RevokeIdentity(i)
  \/ \E c \in Credential : RevokeCredential(c)
  \/ \E p \in Thread :
       \/ \E i \in Identity :
            \/ BeginIssue(p, i)
            \/ \E scopes \in ScopeSet : CreateIdentity(p, i, scopes) \/ BeginReplace(p, i, scopes)
       \/ \E c \in Credential : AddCredential(p, c) \/ \E op \in Called : BeginCall(p, c, op)
       \/ \E c \in Credential, tool \in DOMAIN ToolRoute : CallTool(p, c, tool)
       \/ CheckActive(p) \/ ReplaceScopes(p)
       \/ ReadCredential(p) \/ ReadIdentity(p) \/ ReadScopes(p) \/ Authorize(p)
       \/ RecordDecision(p) \/ PredictChoice(p) \/ StorePrediction(p)
       \/ PreferenceSummary(p) \/ ModelSummary(p) \/ FindSimilar(p) \/ RecordReport(p) \/ Delegated(p)
       \/ End(p)

ExternalSpec == ExternalInit /\ [][ExternalNext]_externalVars

-----------------------------------------------------------------------------
Admitted(p) == calls[p] # Nothing /\ calls[p].at \in {"handle", "predict", "answer"}

\* P9-T08: "Credential or identity revoked: the next request returns 401", and
\* P9-T05, P9-T09, P9-T13: a call reaches an endpoint only if it came in before
\* its credential and its identity were revoked, and with the scope of that
\* endpoint, granted when the call came in or while it was under way; never with
\* a scope that was taken away before.
CallWasAllowed ==
  \A p \in Thread : Admitted(p) =>
    ~calls[p].barred /\ RequiredScope(calls[p].op) \in calls[p].granted
=============================================================================
