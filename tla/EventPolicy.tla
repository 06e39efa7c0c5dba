----------------------------- MODULE EventPolicy -----------------------------
(***************************************************************************)
(* Decision I/O without state: the vocabulary of reported events, what the *)
(* daemon makes of an event of a source (core/decision_io/policy.py), and  *)
(* when the records it builds are ones the domain can read back            *)
(* (core/domain/provenance.py, ingestion.py) and the tables accept         *)
(* (storage/schema.py).  Ids, texts and times are either there or not.     *)
(***************************************************************************)
EXTENDS Naturals

CONSTANT None

AcquisitionMethod == {"owner_input", "owner_import", "connector_pull", "agent_push", "legacy_unverified"}
ConsentMode == {"owner_explicit", "owner_implicit", "legacy_unverified"}
DataClass == {"metadata", "decision", "correction", "outcome", "prompt", "response", "file_content", "diff"}
AuthorScope == {"owner_only", "agent_only", "mixed"}
RawRetentionPolicy == {"metadata_only", "structured_only", "full_content", "delete_after_extraction"}
EventActorType == {"owner", "agent", "assistant", "system", "third_party", "unknown"}
DecisionIoEventType ==
  {"interaction", "decision_candidate", "decision_resolution", "agent_proposal", "user_override",
   "action", "technical_outcome", "user_outcome", "correction", "context"}
ObservationStatus == {"unmatched", "pending", "confirmed", "rejected"}
OutcomeKind == {"technical", "user_behavior", "owner_reported"}
TechnicalOutcomeStatus == {"succeeded", "failed", "partial", "unknown"}
UserDisposition == {"accepted", "modified", "replaced", "reverted", "unknown"}

\* What the endpoints let a service report.
InteractionTypes == {"interaction", "action", "context", "agent_proposal"}
ResolutionTypes == {"decision_resolution", "user_override"}
OutcomeTypes == {"technical_outcome", "user_outcome"}

-----------------------------------------------------------------------------
\* SourceProvenance: how a source acquires what it reports, and with which
\* consent.
SourceProvenance ==
  {s \in [method : AcquisitionMethod, consent : ConsentMode, dated : BOOLEAN,
          classes : SUBSET DataClass, scope : AuthorScope,
          retention : RawRetentionPolicy, identified : BOOLEAN] :
     /\ s.classes # {}
     /\ s.consent = "owner_explicit" => s.dated
     /\ s.method = "agent_push" => s.identified}

\* register_source: what the owner approves of an active service identity.
UnsupportedRetentionPolicies == {"delete_after_extraction"}
Registered ==
  {s \in SourceProvenance :
     /\ s.method = "agent_push" /\ s.consent = "owner_explicit" /\ s.dated /\ s.identified
     /\ s.retention \notin UnsupportedRetentionPolicies}

\* compatibility_source: what stands for the writes of older clients.
Compatibility ==
  [method |-> "agent_push", consent |-> "owner_implicit", dated |-> TRUE, classes |-> {"outcome"},
   scope |-> "agent_only", retention |-> "structured_only", identified |-> TRUE]

AllowsActor(source, actor) ==
  \/ source.scope = "mixed"
  \/ source.scope = "owner_only" /\ actor = "owner"
  \/ source.scope = "agent_only" /\ actor # "owner"

EventDataClass(type) ==
  CASE type \in {"decision_candidate", "decision_resolution", "agent_proposal"} -> "decision"
    [] type \in {"user_override", "correction"} -> "correction"
    [] type \in {"technical_outcome", "user_outcome"} -> "outcome"
    [] OTHER -> "metadata"

OwnerAuthoredEventTypes == {"decision_resolution", "user_override", "correction", "user_outcome"}
IgnoredEventTypes == {"technical_outcome"}

\* derive_eligibility
Eligibility(source, type, actor) ==
  IF type \in IgnoredEventTypes THEN "ignored"
  ELSE IF /\ actor = "owner"
          /\ source.consent # "legacy_unverified" /\ source.method # "legacy_unverified"
          /\ EventDataClass(type) \in source.classes
          /\ type \in OwnerAuthoredEventTypes
       THEN "eligible" ELSE "contextual_only"

\* classify_event: an event outside what was approved is refused before
\* anything is stored, and so is one that is not well formed.
Accepts(source, type, actor) ==
  /\ source.method = "agent_push"
  /\ AllowsActor(source, actor)
  /\ EventDataClass(type) \in source.classes

MayPromoteResolution(source, type, actor) ==
  /\ type \in ResolutionTypes
  /\ actor = "owner"
  /\ Eligibility(source, type, actor) = "eligible"

OutcomeKindFor(type) ==
  CASE type = "technical_outcome" -> "technical"
    [] type = "user_outcome" -> "user_behavior"
    [] OTHER -> None

-----------------------------------------------------------------------------
\* ResolutionObservation.__post_init__: a row that fails it cannot be read.
ReadableChoice(o) ==
  /\ o.decision # None \/ o.external # None
  /\ o.status = "unmatched" => o.decision = None
  /\ o.status = "confirmed" <=> o.confirmed
  /\ o.status = "confirmed" => o.decision # None

\* OutcomeObservation.__post_init__
ReadableOutcome(o) ==
  /\ o.decision # None \/ o.external # None
  /\ o.status = "unmatched" => o.decision = None
  /\ o.status = "confirmed" <=> o.confirmed
  /\ o.status = "confirmed" => o.decision # None
  /\ o.kind = "technical" <=> o.technical # None
  /\ o.kind = "user_behavior" <=> o.disposition # None
  /\ o.kind = "owner_reported" <=> o.satisfaction # None
  /\ o.kind = "owner_reported" <=> o.regret # None

\* The CHECK constraints of the two tables.
AcceptedChoice(o) ==
  /\ o.status \in ObservationStatus
  /\ o.decision # None \/ o.external # None
  /\ o.status = "confirmed" <=> o.confirmed

AcceptedOutcome(o) ==
  /\ o.kind \in OutcomeKind /\ o.status \in ObservationStatus
  /\ o.kind = "technical" <=> o.technical # None
  /\ o.kind = "user_behavior" <=> o.disposition # None
  /\ o.kind = "owner_reported" \/ (o.satisfaction = None /\ o.regret = None)
  /\ o.kind # "owner_reported" \/ (o.satisfaction # None /\ o.regret # None)
  /\ o.decision # None \/ o.external # None
  /\ o.status = "confirmed" <=> o.confirmed
=============================================================================
