------------------------------- MODULE Pairing -------------------------------
(***************************************************************************)
(* Owner devices: the owner invites, a phone redeems the invitation once   *)
(* and calls with the credential it got, the owner revokes the device      *)
(* (DevicePairingService, DeviceAccessService, access_api.py, and authorize*)
(* of security.py for callers from the network).  Requests run on threads  *)
(* and may die between two statements.  Hashing, names and audit records   *)
(* are left out; an invitation is lost with its five minutes, at any time. *)
(***************************************************************************)
CONSTANTS Phone,   \* request threads
          Token,   \* invitations, each issued at most once
          Device,  \* ids of devices, each used at most once
          Asked,   \* the paths that are called from the network
          Nobody

ASSUME NobodyAssumption == Nobody \notin Device

VARIABLES lan,      \* whether the daemon listens to the network
          tokens,   \* Nobody, or who redeemed the token and whether it is late
          issued,   \* tokens whose secret was shown to the owner
          devices,  \* Nobody, or the token of the device and whether it is active
          phones

pairingVars == <<lan, tokens, issued, devices, phones>>

PairingInit ==
  /\ lan = TRUE
  /\ tokens = [t \in Token |-> Nobody] /\ issued = {}
  /\ devices = [d \in Device |-> Nobody]
  /\ phones = [p \in Phone |-> Nobody]

\* Rows: a token is redeemed by one device, a device is active until it is revoked.
FreshToken == [device |-> Nobody, late |-> FALSE]
PairedDevice(t) == [token |-> t, active |-> TRUE]
Redeemable(t) == tokens[t] # Nobody /\ tokens[t].device = Nobody

Stands(p, step) == phones[p] # Nobody /\ phones[p].at = step
Hangs(p) == phones' = [phones EXCEPT ![p] = Nobody]
Moves(p, step) == phones' = [phones EXCEPT ![p].at = step]
Rings(p, step, token, device, path, barred) ==
  phones' = [phones EXCEPT ![p] =
    [at |-> step, token |-> token, device |-> device, path |-> path, barred |-> barred]]

\* path_requirement; of /v1/evidence and /v1/decisions only a DELETE is the owner's.
OwnerOnly ==
  {"pairing/start", "devices", "network", "DELETE evidence", "DELETE decisions", "service-identities",
   "audit/events", "data", "connectors", "delegation-policies", "delegation-requests", "decision-io",
   "key-aliases", "key-labels", "embedding-model"}
Public == {"health", "pairing/complete"}

PathRequirement(path) ==
  CASE path \in OwnerOnly -> "owner"
    [] path \in Public -> "public"
    [] OTHER -> "device"

-----------------------------------------------------------------------------
\* start_pairing, issue_token: late tokens are dropped, then one is added.
DeleteExpired(p) ==
  /\ phones[p] = Nobody /\ lan
  /\ tokens' = [t \in Token |-> IF tokens[t] # Nobody /\ tokens[t].late THEN Nobody ELSE tokens[t]]
  /\ Rings(p, "add", Nobody, Nobody, Nobody, FALSE)
  /\ UNCHANGED <<lan, issued, devices>>

AddToken(p, t) ==
  /\ Stands(p, "add") /\ t \notin issued
  /\ tokens' = [tokens EXCEPT ![t] = FreshToken]
  /\ issued' = issued \cup {t}
  /\ Hangs(p)
  /\ UNCHANGED <<lan, devices>>

Expire(t) ==
  /\ tokens[t] # Nobody /\ ~tokens[t].late
  /\ tokens' = [tokens EXCEPT ![t].late = TRUE]
  /\ UNCHANGED <<lan, issued, devices, phones>>

\* complete: the token is read and asked for its use and its time, ...
ReadToken(p, t, d) ==
  /\ phones[p] = Nobody /\ lan /\ t \in issued
  /\ Redeemable(t) /\ ~tokens[t].late
  /\ devices[d] = Nobody /\ \A q \in Phone : phones[q] # Nobody => phones[q].device # d
  /\ Rings(p, "consume", t, d, Nobody, FALSE)
  /\ UNCHANGED <<lan, tokens, issued, devices>>

\* Fault: the claim does not ask whether the token is still free.
ConsumeAny(p) ==
  /\ Stands(p, "consume")
  /\ LET t == phones[p].token
     IN  IF tokens[t] # Nobody
         THEN tokens' = [tokens EXCEPT ![t].device = phones[p].device] /\ Moves(p, "device")
         ELSE Hangs(p) /\ UNCHANGED tokens
  /\ UNCHANGED <<lan, issued, devices>>

\* ... claimed by one conditional update, ...
Consume(p) ==
  /\ Stands(p, "consume")
  /\ LET t == phones[p].token
     IN  IF Redeemable(t)
         THEN tokens' = [tokens EXCEPT ![t].device = phones[p].device] /\ Moves(p, "device")
         ELSE Hangs(p) /\ UNCHANGED tokens
  /\ UNCHANGED <<lan, issued, devices>>

\* ... and only then the device is added, in a transaction of its own.
AddDevice(p) ==
  /\ Stands(p, "device")
  /\ devices' = [devices EXCEPT ![phones[p].device] = PairedDevice(phones[p].token)]
  /\ Hangs(p)
  /\ UNCHANGED <<lan, tokens, issued>>

-----------------------------------------------------------------------------
\* authorize: a call from the network with the credential of a device, which is
\* looked at on public paths too; "barred" remembers whether the device was
\* revoked when the call came in.
BeginVisit(p, d, path) ==
  /\ phones[p] = Nobody /\ devices[d] # Nobody
  /\ lan /\ PathRequirement(path) # "owner"
  /\ Rings(p, "authenticate", Nobody, d, path, ~devices[d].active)
  /\ UNCHANGED <<lan, tokens, issued, devices>>

\* ... and one without a credential.
AnonymousVisit(p, path) ==
  /\ phones[p] = Nobody
  /\ lan /\ PathRequirement(path) = "public"
  /\ Rings(p, "handle", Nobody, Nobody, path, FALSE)
  /\ UNCHANGED <<lan, tokens, issued, devices>>

\* Fault: any device that was paired is let in.
AuthenticatePaired(p) ==
  /\ Stands(p, "authenticate")
  /\ Moves(p, "touch")
  /\ UNCHANGED <<lan, tokens, issued, devices>>

\* authenticate: the device as it is read; then its last contact is stored.
Authenticate(p) ==
  /\ Stands(p, "authenticate")
  /\ IF devices[phones[p].device].active THEN Moves(p, "touch") ELSE Hangs(p)
  /\ UNCHANGED <<lan, tokens, issued, devices>>

Touch(p) ==
  /\ Stands(p, "touch")
  /\ Moves(p, "handle")
  /\ UNCHANGED <<lan, tokens, issued, devices>>

\* The endpoint answers, or the thread dies anywhere.
Hang(p) ==
  /\ phones[p] # Nobody
  /\ Hangs(p)
  /\ UNCHANGED <<lan, tokens, issued, devices>>

\* revoke: of an active device; of another it changes nothing.
RevokeDevice(d) ==
  /\ devices[d] # Nobody
  /\ devices' = [devices EXCEPT ![d].active = FALSE]
  /\ UNCHANGED <<lan, tokens, issued, phones>>

\* The daemon is stopped, or killed, and started with other settings.
RestartDaemon(on) ==
  /\ lan' = on
  /\ phones' = [p \in Phone |-> Nobody]
  /\ UNCHANGED <<tokens, issued, devices>>

PairingNext ==
  \/ \E on \in BOOLEAN : RestartDaemon(on)
  \/ \E t \in Token : Expire(t)
  \/ \E d \in Device : RevokeDevice(d)
  \/ \E p \in Phone :
       \/ DeleteExpired(p) \/ Consume(p) \/ AddDevice(p) \/ Authenticate(p) \/ Touch(p) \/ Hang(p)
       \/ \E t \in Token : AddToken(p, t)
       \/ \E path \in Asked : AnonymousVisit(p, path) \/ \E d \in Device : BeginVisit(p, d, path)
       \/ \E d \in Device, t \in Token : ReadToken(p, t, d)

PairingSpec == PairingInit /\ [][PairingNext]_pairingVars

-----------------------------------------------------------------------------
\* ADR-009: "the token is claimed atomically so it can never be redeemed twice":
\* of one invitation comes at most one device, whoever raced for it.
TokenPairsOnce ==
  \A c, d \in Device :
    devices[c] # Nobody /\ devices[d] # Nobody /\ devices[c].token = devices[d].token => c = d

\* ADR-009: "revocation takes effect on the next request", and authorize: "can
\* never reach owner-only paths": a caller from the network that reaches an
\* endpoint came while the network was served, to a path that is not the
\* owner's (every DELETE among them), and before its device was revoked.
VisitWasAllowed ==
  \A p \in Phone : Stands(p, "handle") =>
    /\ lan /\ ~phones[p].barred
    /\ phones[p].path \notin OwnerOnly
=============================================================================
