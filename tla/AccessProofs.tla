---------------------------- MODULE AccessProofs ----------------------------
(***************************************************************************)
(* Who gets in: one device for each invitation, and no call of a device or *)
(* of a service after what let it in was revoked, for any number of        *)
(* threads, invitations, devices, identities and credentials; and what the *)
(* reports of those who are in may make the model learn.                   *)
(***************************************************************************)
EXTENDS Pairing, ExternalAccess, DecisionIo, TLAPS

-----------------------------------------------------------------------------
(* Devices. *)
PhoneStep == {"add", "consume", "device", "authenticate", "touch", "handle"}

PairingTables ==
  /\ tokens \in [Token -> [device : Device \cup {Nobody}, late : BOOLEAN] \cup {Nobody}]
  /\ devices \in [Device -> [token : Token, active : BOOLEAN] \cup {Nobody}]
  /\ phones \in [Phone -> [at : PhoneStep, token : Token \cup {Nobody}, device : Device \cup {Nobody},
                           path : Asked \cup {Nobody}, barred : BOOLEAN] \cup {Nobody}]
  /\ issued \subseteq Token
  /\ \A t \in Token : tokens[t] # Nobody => t \in issued

Redeems(p) == Stands(p, "consume") \/ Stands(p, "device")

\* A thread that redeems a token has an id of its own for the device to be.
OwnDevice ==
  \A p \in Phone : Redeems(p) =>
    /\ phones[p].token \in issued /\ phones[p].device \in Device
    /\ devices[phones[p].device] = Nobody
    /\ \A q \in Phone \ {p} : phones[q] # Nobody => phones[q].device # phones[p].device

\* What came, or is about to come, of a token.
Claim(t, d) ==
  \/ devices[d] # Nobody /\ devices[d].token = t
  \/ \E p \in Phone : Stands(p, "device") /\ phones[p].token = t /\ phones[p].device = d

\* One device, also after the row of the token was deleted; none as long as
\* the token may be redeemed.
OneClaim ==
  \A t \in Token :
    /\ \A c, d \in Device : Claim(t, c) /\ Claim(t, d) => c = d
    /\ Redeemable(t) \/ t \notin issued => \A d \in Device : ~Claim(t, d)

\* A revoked device stays revoked: a caller that was barred is still barred when
\* its device is read.
Visiting ==
  \A p \in Phone :
    /\ Stands(p, "authenticate") =>
         /\ phones[p].device \in Device
         /\ phones[p].barred => ~devices[phones[p].device].active
    /\ Stands(p, "touch") \/ Stands(p, "handle") => ~phones[p].barred
    /\ Stands(p, "authenticate") \/ Stands(p, "touch") \/ Stands(p, "handle") =>
         lan /\ phones[p].path \notin OwnerOnly

PairingInv == PairingTables /\ OwnDevice /\ OneClaim /\ Visiting

-----------------------------------------------------------------------------
\* No step leaves the types of the tables and of the threads.
LEMMA TablesStep ==
  ASSUME PairingInv, [PairingNext]_pairingVars
  PROVE  PairingTables'
<1> USE NobodyAssumption DEF PairingInv, PairingTables, OwnDevice, Redeems, PhoneStep, Rings, Moves, Hangs, Stands, Redeemable, FreshToken, PairedDevice
<1>1. ASSUME NEW on \in BOOLEAN, RestartDaemon(on) PROVE PairingTables'
  BY <1>1 DEF RestartDaemon
<1>2. ASSUME NEW t \in Token, Expire(t) PROVE PairingTables'
  <2>1. tokens[t] \in [device : Device \cup {Nobody}, late : BOOLEAN]
    BY <1>2 DEF Expire
  <2>2. [tokens[t] EXCEPT !.late = TRUE] \in [device : Device \cup {Nobody}, late : BOOLEAN]
    BY <2>1
  <2>. QED  BY <1>2, <2>2 DEF Expire
<1>3. ASSUME NEW d \in Device, RevokeDevice(d) PROVE PairingTables'
  <2>1. devices[d] \in [token : Token, active : BOOLEAN]
    BY <1>3 DEF RevokeDevice
  <2>2. [devices[d] EXCEPT !.active = FALSE] \in [token : Token, active : BOOLEAN]
    BY <2>1
  <2>. QED  BY <1>3, <2>2 DEF RevokeDevice
<1>4. ASSUME NEW p \in Phone, DeleteExpired(p) PROVE PairingTables'
  BY <1>4 DEF DeleteExpired
<1>5. ASSUME NEW p \in Phone, NEW t \in Token, AddToken(p, t) PROVE PairingTables'
  BY <1>5 DEF AddToken
<1>6. ASSUME NEW p \in Phone, NEW t \in Token, NEW d \in Device, ReadToken(p, t, d) PROVE PairingTables'
  BY <1>6 DEF ReadToken
<1>7. ASSUME NEW p \in Phone, Consume(p) PROVE PairingTables'
  BY <1>7 DEF Consume
<1>8. ASSUME NEW p \in Phone, AddDevice(p) PROVE PairingTables'
  BY <1>8 DEF AddDevice
<1>9. ASSUME NEW p \in Phone, NEW d \in Device, NEW path \in Asked, BeginVisit(p, d, path) PROVE PairingTables'
  BY <1>9 DEF BeginVisit
<1>10. ASSUME NEW p \in Phone, NEW path \in Asked, AnonymousVisit(p, path) PROVE PairingTables'
  BY <1>10 DEF AnonymousVisit
<1>11. ASSUME NEW p \in Phone, Authenticate(p) PROVE PairingTables'
  BY <1>11 DEF Authenticate
<1>12. ASSUME NEW p \in Phone, Touch(p) PROVE PairingTables'
  BY <1>12 DEF Touch
<1>13. ASSUME NEW p \in Phone, Hang(p) PROVE PairingTables'
  BY <1>13 DEF Hang
<1>14. CASE UNCHANGED pairingVars
  BY <1>14 DEF pairingVars
<1>15. QED  BY <1>1, <1>2, <1>3, <1>4, <1>5, <1>6, <1>7, <1>8, <1>9, <1>10, <1>11, <1>12, <1>13, <1>14 DEF PairingNext

\* The ids that threads redeem tokens with stay free and apart.
LEMMA OwnDeviceStep ==
  ASSUME PairingInv, [PairingNext]_pairingVars
  PROVE  OwnDevice'
<1> USE NobodyAssumption DEF PairingInv, PairingTables, OwnDevice, Redeems, PhoneStep, Rings, Moves, Hangs, Stands, Redeemable, FreshToken, PairedDevice
<1>1. ASSUME NEW on \in BOOLEAN, RestartDaemon(on) PROVE OwnDevice'
  BY <1>1 DEF RestartDaemon
<1>2. ASSUME NEW t \in Token, Expire(t) PROVE OwnDevice'
  BY <1>2 DEF Expire
<1>3. ASSUME NEW d \in Device, RevokeDevice(d) PROVE OwnDevice'
  BY <1>3 DEF RevokeDevice
<1>4. ASSUME NEW p \in Phone, DeleteExpired(p) PROVE OwnDevice'
  BY <1>4 DEF DeleteExpired
<1>5. ASSUME NEW p \in Phone, NEW t \in Token, AddToken(p, t) PROVE OwnDevice'
  BY <1>5 DEF AddToken
<1>6. ASSUME NEW p \in Phone, NEW t \in Token, NEW d \in Device, ReadToken(p, t, d) PROVE OwnDevice'
  BY <1>6 DEF ReadToken
<1>7. ASSUME NEW p \in Phone, Consume(p) PROVE OwnDevice'
  BY <1>7 DEF Consume
<1>8. ASSUME NEW p \in Phone, AddDevice(p) PROVE OwnDevice'
  BY <1>8 DEF AddDevice
<1>9. ASSUME NEW p \in Phone, NEW d \in Device, NEW path \in Asked, BeginVisit(p, d, path) PROVE OwnDevice'
  BY <1>9 DEF BeginVisit
<1>10. ASSUME NEW p \in Phone, NEW path \in Asked, AnonymousVisit(p, path) PROVE OwnDevice'
  BY <1>10 DEF AnonymousVisit
<1>11. ASSUME NEW p \in Phone, Authenticate(p) PROVE OwnDevice'
  BY <1>11 DEF Authenticate
<1>12. ASSUME NEW p \in Phone, Touch(p) PROVE OwnDevice'
  BY <1>12 DEF Touch
<1>13. ASSUME NEW p \in Phone, Hang(p) PROVE OwnDevice'
  BY <1>13 DEF Hang
<1>14. CASE UNCHANGED pairingVars
  BY <1>14 DEF pairingVars
<1>15. QED  BY <1>1, <1>2, <1>3, <1>4, <1>5, <1>6, <1>7, <1>8, <1>9, <1>10, <1>11, <1>12, <1>13, <1>14 DEF PairingNext

\* Only a token that nothing came of is claimed, and by one thread.
LEMMA OneClaimStep ==
  ASSUME PairingInv, [PairingNext]_pairingVars
  PROVE  OneClaim'
<1> USE NobodyAssumption DEF PairingInv, PairingTables, OwnDevice, Redeems, OneClaim, Claim, PhoneStep, Rings, Moves, Hangs, Stands, Redeemable, FreshToken, PairedDevice
<1>1. ASSUME NEW on \in BOOLEAN, RestartDaemon(on) PROVE OneClaim'
  BY <1>1 DEF RestartDaemon
<1>2. ASSUME NEW t \in Token, Expire(t) PROVE OneClaim'
  BY <1>2 DEF Expire
<1>3. ASSUME NEW d \in Device, RevokeDevice(d) PROVE OneClaim'
  BY <1>3 DEF RevokeDevice
<1>4. ASSUME NEW p \in Phone, DeleteExpired(p) PROVE OneClaim'
  BY <1>4 DEF DeleteExpired
<1>5. ASSUME NEW p \in Phone, NEW t \in Token, AddToken(p, t) PROVE OneClaim'
  BY <1>5 DEF AddToken
<1>6. ASSUME NEW p \in Phone, NEW t \in Token, NEW d \in Device, ReadToken(p, t, d) PROVE OneClaim'
  BY <1>6 DEF ReadToken
<1>7. ASSUME NEW p \in Phone, Consume(p) PROVE OneClaim'
  <2>1. CASE ~Redeemable(phones[p].token)
    BY <1>7, <2>1 DEF Consume
  <2>2. CASE Redeemable(phones[p].token)
    <3>1. /\ tokens' = [tokens EXCEPT ![phones[p].token].device = phones[p].device]
          /\ phones' = [phones EXCEPT ![p].at = "device"]
          /\ UNCHANGED <<devices, issued>>
      BY <1>7, <2>2 DEF Consume
    <3>2. /\ phones[p].token \in Token /\ phones[p].device \in Device
          /\ phones[p] # Nobody /\ phones[p].token \in issued
      BY <1>7 DEF Consume
    <3>3. ~Redeemable(phones[p].token)' /\ \A t \in Token \ {phones[p].token} : tokens'[t] = tokens[t]
      BY <3>1, <3>2
    <3>4. \A t \in Token, d \in Device :
            Claim(t, d)' => Claim(t, d) \/ (t = phones[p].token /\ d = phones[p].device)
      BY <3>1, <3>2
    <3>5. \A d \in Device : ~Claim(phones[p].token, d)
      BY <2>2, <3>2
    <3>. QED  BY <3>1, <3>2, <3>3, <3>4, <3>5
  <2>. QED  BY <2>1, <2>2
<1>8. ASSUME NEW p \in Phone, AddDevice(p) PROVE OneClaim'
  BY <1>8 DEF AddDevice
<1>9. ASSUME NEW p \in Phone, NEW d \in Device, NEW path \in Asked, BeginVisit(p, d, path) PROVE OneClaim'
  BY <1>9 DEF BeginVisit
<1>10. ASSUME NEW p \in Phone, NEW path \in Asked, AnonymousVisit(p, path) PROVE OneClaim'
  BY <1>10 DEF AnonymousVisit
<1>11. ASSUME NEW p \in Phone, Authenticate(p) PROVE OneClaim'
  BY <1>11 DEF Authenticate
<1>12. ASSUME NEW p \in Phone, Touch(p) PROVE OneClaim'
  BY <1>12 DEF Touch
<1>13. ASSUME NEW p \in Phone, Hang(p) PROVE OneClaim'
  BY <1>13 DEF Hang
<1>14. CASE UNCHANGED pairingVars
  BY <1>14 DEF pairingVars
<1>15. QED  BY <1>1, <1>2, <1>3, <1>4, <1>5, <1>6, <1>7, <1>8, <1>9, <1>10, <1>11, <1>12, <1>13, <1>14 DEF PairingNext

\* path_requirement: the owner's paths are no one else's.
LEMMA OwnersPath == \A path : path \in OwnerOnly => PathRequirement(path) = "owner"
<1>1. \A path : path \in OwnerOnly => path \notin Public
  BY DEF OwnerOnly, Public
<1>. QED  BY <1>1 DEF PathRequirement

\* A caller is let in before its device is revoked, or not at all.
LEMMA VisitingStep ==
  ASSUME PairingInv, [PairingNext]_pairingVars
  PROVE  Visiting'
<1> USE NobodyAssumption DEF PairingInv, PairingTables, OwnDevice, Redeems, Visiting, PhoneStep, Rings, Moves, Hangs, Stands, Redeemable, FreshToken, PairedDevice
<1>1. ASSUME NEW on \in BOOLEAN, RestartDaemon(on) PROVE Visiting'
  BY <1>1 DEF RestartDaemon
<1>2. ASSUME NEW t \in Token, Expire(t) PROVE Visiting'
  BY <1>2 DEF Expire
<1>3. ASSUME NEW d \in Device, RevokeDevice(d) PROVE Visiting'
  BY <1>3 DEF RevokeDevice
<1>4. ASSUME NEW p \in Phone, DeleteExpired(p) PROVE Visiting'
  BY <1>4 DEF DeleteExpired
<1>5. ASSUME NEW p \in Phone, NEW t \in Token, AddToken(p, t) PROVE Visiting'
  BY <1>5 DEF AddToken
<1>6. ASSUME NEW p \in Phone, NEW t \in Token, NEW d \in Device, ReadToken(p, t, d) PROVE Visiting'
  BY <1>6 DEF ReadToken
<1>7. ASSUME NEW p \in Phone, Consume(p) PROVE Visiting'
  BY <1>7 DEF Consume
<1>8. ASSUME NEW p \in Phone, AddDevice(p) PROVE Visiting'
  BY <1>8 DEF AddDevice
<1>9. ASSUME NEW p \in Phone, NEW d \in Device, NEW path \in Asked, BeginVisit(p, d, path) PROVE Visiting'
  <2>1. path \notin OwnerOnly
    BY <1>9, OwnersPath DEF BeginVisit
  <2>. QED  BY <1>9, <2>1 DEF BeginVisit
<1>10. ASSUME NEW p \in Phone, NEW path \in Asked, AnonymousVisit(p, path) PROVE Visiting'
  <2>1. path \notin OwnerOnly
    BY <1>10, OwnersPath DEF AnonymousVisit
  <2>. QED  BY <1>10, <2>1 DEF AnonymousVisit
<1>11. ASSUME NEW p \in Phone, Authenticate(p) PROVE Visiting'
  BY <1>11 DEF Authenticate
<1>12. ASSUME NEW p \in Phone, Touch(p) PROVE Visiting'
  BY <1>12 DEF Touch
<1>13. ASSUME NEW p \in Phone, Hang(p) PROVE Visiting'
  BY <1>13 DEF Hang
<1>14. CASE UNCHANGED pairingVars
  BY <1>14 DEF pairingVars
<1>15. QED  BY <1>1, <1>2, <1>3, <1>4, <1>5, <1>6, <1>7, <1>8, <1>9, <1>10, <1>11, <1>12, <1>13, <1>14 DEF PairingNext

\* The invariant of the devices.
LEMMA PairingInvariant == PairingSpec => []PairingInv
<1>1. PairingInit => PairingInv
  BY NobodyAssumption
  DEF PairingInit, PairingInv, PairingTables, OwnDevice, Redeems, Stands, OneClaim, Claim, Redeemable, Visiting
<1>2. PairingInv /\ [PairingNext]_pairingVars => PairingInv'
  BY TablesStep, OwnDeviceStep, OneClaimStep, VisitingStep DEF PairingInv
<1>. QED  BY <1>1, <1>2, PTL DEF PairingSpec

\* ADR-009: an invitation pairs one device at most, however many threads read it
\* as free, whatever dies between its claim and the device, and also when its
\* row is deleted and others are issued.
THEOREM PairsOnce == PairingSpec => []TokenPairsOnce
<1>1. PairingInv => TokenPairsOnce
  BY DEF PairingInv, PairingTables, OneClaim, Claim, TokenPairsOnce
<1>. QED  BY <1>1, PairingInvariant, PTL

\* authorize and authenticate: whoever reaches an endpoint from the network came
\* before the revocation of its device, while the network was served, and to a
\* path that is not the owner's.
THEOREM VisitsAllowed == PairingSpec => []VisitWasAllowed
<1>1. PairingInv => VisitWasAllowed
  BY DEF PairingInv, Visiting, VisitWasAllowed
<1>. QED  BY <1>1, PairingInvariant, PTL

-----------------------------------------------------------------------------
(* Services. *)
IdentityRow == [scopes : SUBSET ServiceScopes, active : BOOLEAN]
CredentialRow == [identity : Identity, active : BOOLEAN]
CallStep == {"credential", "identity", "scopes", "authorize", "handle", "predict", "answer"}
Kind == {"decision", "prediction", "observation", "elsewhere"}
Issuing == [at : {"check", "issue"}, identity : Identity]
Replacing == [at : {"replace"}, identity : Identity, scopes : SUBSET ServiceScopes]
Calling == [at : CallStep, credential : Credential, op : Operation, scopes : SUBSET ServiceScopes,
            barred : BOOLEAN, granted : SUBSET ServiceScopes, wrote : SUBSET Kind]

Calls(p) == calls[p] # Nothing /\ calls[p] \in Calling

\* A credential names an identity that is there.
ExternalTables ==
  /\ identities \in [Identity -> IdentityRow \cup {Nothing}]
  /\ credentials \in [Credential -> CredentialRow \cup {Nothing}]
  /\ calls \in [Thread -> Issuing \cup Replacing \cup Calling \cup {Nothing}]
  /\ \A c \in Credential : credentials[c] # Nothing => identities[credentials[c].identity] # Nothing
  /\ \A p \in Thread :
       /\ calls[p] # Nothing /\ calls[p] \in Issuing \cup Replacing => identities[calls[p].identity] # Nothing
       /\ Calls(p) => credentials[calls[p].credential] # Nothing

CallerOf(p) == credentials[calls[p].credential].identity

\* Nothing that was revoked comes back, so that what barred a call still bars it
\* when it is read; and whatever is read of the scopes was granted.
CallsInTime ==
  \A p \in Thread : Calls(p) =>
    /\ identities[CallerOf(p)].scopes \subseteq calls[p].granted
    /\ calls[p].scopes \subseteq calls[p].granted
    /\ IsAt(p, "credential") /\ calls[p].barred =>
         ~credentials[calls[p].credential].active \/ ~identities[CallerOf(p)].active
    /\ IsAt(p, "identity") /\ calls[p].barred => ~identities[CallerOf(p)].active
    /\ calls[p].at \in CallStep \ {"credential", "identity"} => ~calls[p].barred
    /\ Admitted(p) => RequiredScope(calls[p].op) \in calls[p].granted

ExternalInv == ExternalTables /\ CallsInTime

\* The records of a thread differ by their fields.
LEMMA CallRecords ==
  /\ \A r \in Issuing \cup Replacing : "granted" \notin DOMAIN r /\ r \notin Calling
  /\ \A r \in Calling : "granted" \in DOMAIN r
  BY DEF Issuing, Replacing, Calling

\* A row of identities or of credentials is a row.
LEMMA NoRowIsNothing == \A r \in IdentityRow \cup CredentialRow : r # Nothing
  BY NothingAssumption DEF IdentityRow, CredentialRow

\* The owner grants scopes of services, and the operations are theirs.
LEMMA Scopes == Called \subseteq Operation /\ \A scopes \in ScopeSet : scopes \subseteq ServiceScopes
  BY ScopeAssumption DEF Grantable

\* Every endpoint writes for a call that was admitted.
LEMMA EndpointsWrite ==
  ASSUME NEW p \in Thread,
         RecordDecision(p) \/ PredictChoice(p) \/ StorePrediction(p) \/ PreferenceSummary(p)
           \/ ModelSummary(p) \/ FindSimilar(p) \/ RecordReport(p) \/ Delegated(p)
  PROVE  Admitted(p) /\ \E kinds \in SUBSET Kind, step \in {"predict", "answer"} : Writes(p, kinds, step)
  BY DEF RecordDecision, PredictChoice, StorePrediction, PreferenceSummary, ModelSummary, FindSimilar,
         RecordReport, Delegated, Admitted, IsAt, Kind

\* No step leaves the types, or a credential without its identity.
LEMMA ExternalTablesStep ==
  ASSUME ExternalInv, [ExternalNext]_externalVars
  PROVE  ExternalTables'
<1> USE NothingAssumption, CallRecords, Scopes DEF ExternalInv, ExternalTables, IdentityRow, CredentialRow, CallStep, Issuing, Replacing, Calling, Calls, IsAt, Ends, Goes, Active, Admitted
<1>1. ASSUME NEW i \in Identity, RevokeIdentity(i) PROVE ExternalTables'
  <2>1. identities[i] \in IdentityRow
    BY <1>1 DEF RevokeIdentity
  <2>2. [identities[i] EXCEPT !.active = FALSE] \in IdentityRow
    BY <2>1
  <2>3. [identities[i] EXCEPT !.active = FALSE] # Nothing
    BY <2>2, NoRowIsNothing
  <2>. QED  BY <1>1, <2>2, <2>3 DEF RevokeIdentity
<1>2. ASSUME NEW c \in Credential, RevokeCredential(c) PROVE ExternalTables'
  <2>1. credentials[c] \in CredentialRow
    BY <1>2 DEF RevokeCredential
  <2>2. [credentials[c] EXCEPT !.active = FALSE] \in CredentialRow
        /\ [credentials[c] EXCEPT !.active = FALSE].identity = credentials[c].identity
    BY <2>1
  <2>3. [credentials[c] EXCEPT !.active = FALSE] # Nothing
    BY <2>2, NoRowIsNothing
  <2>. QED  BY <1>2, <2>2, <2>3 DEF RevokeCredential
<1>3. ASSUME NEW p \in Thread, NEW i \in Identity, BeginIssue(p, i) PROVE ExternalTables'
  BY <1>3 DEF BeginIssue
<1>4. ASSUME NEW p \in Thread, NEW i \in Identity, NEW scopes \in ScopeSet, CreateIdentity(p, i, scopes) PROVE ExternalTables'
  <2>0. [scopes |-> scopes, active |-> TRUE] \in IdentityRow
    OBVIOUS
  <2>1. [scopes |-> scopes, active |-> TRUE] \in IdentityRow /\ [scopes |-> scopes, active |-> TRUE] # Nothing
    BY <2>0, NoRowIsNothing
  <2>2. [at |-> "check", identity |-> i] \in Issuing
    OBVIOUS
  <2>3. identities' = [identities EXCEPT ![i] = [scopes |-> scopes, active |-> TRUE]] /\ UNCHANGED credentials
        /\ calls' = [calls EXCEPT ![p] = [at |-> "check", identity |-> i]]
    BY <1>4 DEF CreateIdentity
  <2>4. \A j \in Identity : identities[j] # Nothing => identities'[j] # Nothing
    BY <2>1, <2>3
  <2>. QED  BY <2>1, <2>2, <2>3, <2>4
<1>5. ASSUME NEW p \in Thread, NEW i \in Identity, NEW scopes \in ScopeSet, BeginReplace(p, i, scopes) PROVE ExternalTables'
  BY <1>5 DEF BeginReplace
<1>6. ASSUME NEW p \in Thread, NEW c \in Credential, AddCredential(p, c) PROVE ExternalTables'
  BY <1>6 DEF AddCredential
<1>7. ASSUME NEW p \in Thread, NEW c \in Credential, NEW op \in Called, BeginCall(p, c, op) PROVE ExternalTables'
  BY <1>7 DEF BeginCall
<1>8. ASSUME NEW p \in Thread, CheckActive(p) PROVE ExternalTables'
  BY <1>8 DEF CheckActive
<1>9. ASSUME NEW p \in Thread, ReplaceScopes(p) PROVE ExternalTables'
  <2> DEFINE j == calls[p].identity
  <2>1. calls[p] \in Replacing /\ j \in Identity /\ identities[j] \in IdentityRow
    BY <1>9 DEF ReplaceScopes
  <2>2. [identities[j] EXCEPT !.scopes = calls[p].scopes] \in IdentityRow
    BY <2>1
  <2>3. [identities[j] EXCEPT !.scopes = calls[p].scopes] \in IdentityRow \ {Nothing}
    BY <2>2, NoRowIsNothing
  <2>4. identities' = [identities EXCEPT ![j].scopes = calls[p].scopes] /\ UNCHANGED credentials
        /\ calls' = [Granting(j, calls[p].scopes) EXCEPT ![p] = Nothing]
    BY <1>9 DEF ReplaceScopes
  <2>5. identities' \in [Identity -> IdentityRow \cup {Nothing}] /\ \A i \in Identity : identities[i] # Nothing => identities'[i] # Nothing
    BY <2>1, <2>3, <2>4
  <2> DEFINE g == Granting(j, calls[p].scopes)
             Request == Issuing \cup Replacing \cup Calling \cup {Nothing}
  <2>6. \A q \in Thread :
          /\ g[q] \in Request
          /\ g[q] # calls[q] => Calls(q) /\ g[q] \in Calling /\ g[q].credential = calls[q].credential
    BY <2>1 DEF Granting
  <2>7. g = [q \in Thread |-> g[q]] /\ (\A q \in Thread : g[q] \in Request) /\ Nothing \in Request
    <3>1. g = [q \in Thread |-> g[q]]
      BY Zenon DEF Granting
    <3> HIDE DEF Issuing, Replacing, Calling, Calls
    <3>. QED  BY ONLY <2>6, <3>1
  <2>8. calls' = [g EXCEPT ![p] = Nothing]
    BY <2>4
  <2>9. calls' \in [Thread -> Request]
    <3> HIDE DEF g, Request
    <3>1. g \in [Thread -> Request]
      BY ONLY <2>7
    <3>. QED  BY ONLY <2>7, <2>8, <3>1
  <2>10. \A q \in Thread : calls'[q] = IF q = p THEN Nothing ELSE g[q]
    <3> HIDE DEF g
    <3>. QED  BY ONLY <2>7, <2>8
  <2>11. ASSUME NEW q \in Thread, calls'[q] # Nothing
        PROVE  calls'[q] = calls[q] \/ (Calls(q) /\ calls'[q] \in Calling /\ calls'[q].credential = calls[q].credential)
    <3> HIDE DEF Issuing, Replacing, Calling, Calls
    <3>. QED  BY ONLY <2>6, <2>10, <2>11
  <2>12. ASSUME NEW q \in Thread, calls'[q] # Nothing
        PROVE  /\ calls'[q] \in Issuing \cup Replacing => identities'[calls'[q].identity] # Nothing
               /\ calls'[q] \in Calling => credentials[calls'[q].credential] # Nothing
    <3>1. CASE calls'[q] = calls[q]
      BY <2>5, <2>12, <3>1
    <3>2. CASE Calls(q) /\ calls'[q] \in Calling /\ calls'[q].credential = calls[q].credential
      <4>1. credentials[calls[q].credential] # Nothing
        BY <3>2
      <4>2. calls'[q] \notin Issuing \cup Replacing
        BY <3>2, CallRecords
      <4>. QED  BY <3>2, <4>1, <4>2
    <3>. QED  BY <2>11, <2>12, <3>1, <3>2
  <2>13. \A c \in Credential : credentials[c] # Nothing => identities'[credentials[c].identity] # Nothing
    BY <2>5
  <2>. QED  BY <2>4, <2>5, <2>9, <2>12, <2>13
<1>10. ASSUME NEW p \in Thread, ReadCredential(p) PROVE ExternalTables'
  BY <1>10 DEF ReadCredential
<1>11. ASSUME NEW p \in Thread, ReadIdentity(p) PROVE ExternalTables'
  BY <1>11 DEF ReadIdentity
<1>12. ASSUME NEW p \in Thread, ReadScopes(p) PROVE ExternalTables'
  <2> DEFINE j == credentials[calls[p].credential].identity
  <2>1. calls[p] \in Calling /\ calls[p] # Nothing /\ credentials[calls[p].credential] \in CredentialRow
    BY <1>12 DEF ReadScopes
  <2>2. identities[j] \in IdentityRow
    BY <2>1
  <2>3. [calls[p] EXCEPT !.at = "authorize", !.scopes = identities[j].scopes] \in Calling
    BY <2>1, <2>2
  <2>. QED  BY <1>12, <2>1, <2>3 DEF ReadScopes
<1>13. ASSUME NEW p \in Thread, Authorize(p) PROVE ExternalTables'
  BY <1>13 DEF Authorize
<1>14. ASSUME NEW p \in Thread, NEW kinds \in SUBSET Kind, NEW step \in {"predict", "answer"}, Admitted(p), Writes(p, kinds, step) PROVE ExternalTables'
  <2>1. calls[p] \in Calling /\ calls[p] # Nothing
    BY <1>14
  <2>2. [calls[p] EXCEPT !.wrote = @ \cup kinds, !.at = step] \in Calling
    BY <2>1
  <2>. QED  BY <1>14, <2>1, <2>2 DEF Writes
<1>15. ASSUME NEW p \in Thread, End(p) PROVE ExternalTables'
  BY <1>15 DEF End
<1>16. CASE UNCHANGED externalVars
  BY <1>16 DEF externalVars
<1>17. ASSUME NEW p \in Thread, NEW c \in Credential, NEW tool \in DOMAIN ToolRoute, CallTool(p, c, tool) PROVE ExternalTables'
  BY <1>17, <1>7 DEF CallTool
<1>18. ASSUME NEW p \in Thread,
              RecordDecision(p) \/ PredictChoice(p) \/ StorePrediction(p) \/ PreferenceSummary(p)
                \/ ModelSummary(p) \/ FindSimilar(p) \/ RecordReport(p) \/ Delegated(p)
       PROVE  ExternalTables'
  <2>1. Admitted(p) /\ \E kinds \in SUBSET Kind, step \in {"predict", "answer"} : Writes(p, kinds, step)
    BY <1>18, EndpointsWrite
  <2>. QED  BY <2>1, <1>14
<1>19. CASE ExternalNext
  <2> HIDE DEF ExternalInv, ExternalTables, IdentityRow, CredentialRow, CallStep, Issuing, Replacing, Calling, Calls, IsAt, Ends, Goes, Active, Admitted
  <2>. QED  BY <1>19, <1>1, <1>2, <1>3, <1>4, <1>5, <1>6, <1>7, <1>8, <1>9, <1>10, <1>11, <1>12, <1>13, <1>15, <1>17, <1>18 DEF ExternalNext
<1>. QED  BY <1>16, <1>19

\* What bars a call, and what is granted to it, stays.
LEMMA CallsInTimeStep ==
  ASSUME ExternalInv, [ExternalNext]_externalVars
  PROVE  CallsInTime'
<1> USE NothingAssumption, CallRecords, Scopes DEF ExternalInv, ExternalTables, IdentityRow, CredentialRow, CallStep, Issuing, Replacing, Calling, Calls, IsAt, Ends, Goes, Active, Admitted, CallsInTime, CallerOf
<1>1. ASSUME NEW i \in Identity, RevokeIdentity(i) PROVE CallsInTime'
  BY <1>1 DEF RevokeIdentity
<1>2. ASSUME NEW c \in Credential, RevokeCredential(c) PROVE CallsInTime'
  BY <1>2 DEF RevokeCredential
<1>3. ASSUME NEW p \in Thread, NEW i \in Identity, BeginIssue(p, i) PROVE CallsInTime'
  BY <1>3 DEF BeginIssue
<1>4. ASSUME NEW p \in Thread, NEW i \in Identity, NEW scopes \in ScopeSet, CreateIdentity(p, i, scopes) PROVE CallsInTime'
  BY <1>4 DEF CreateIdentity
<1>5. ASSUME NEW p \in Thread, NEW i \in Identity, NEW scopes \in ScopeSet, BeginReplace(p, i, scopes) PROVE CallsInTime'
  BY <1>5 DEF BeginReplace
<1>6. ASSUME NEW p \in Thread, NEW c \in Credential, AddCredential(p, c) PROVE CallsInTime'
  BY <1>6 DEF AddCredential
<1>7. ASSUME NEW p \in Thread, NEW c \in Credential, NEW op \in Called, BeginCall(p, c, op) PROVE CallsInTime'
  <2> DEFINE i == credentials[c].identity
  <2>1. i \in Identity /\ identities[i] \in IdentityRow /\ credentials[c] \in CredentialRow
    BY <1>7 DEF BeginCall
  <2>2. /\ calls' = [calls EXCEPT ![p] =
             [at |-> "credential", credential |-> c, op |-> op, scopes |-> {},
              barred |-> ~credentials[c].active \/ ~Active(i), granted |-> identities[i].scopes,
              wrote |-> {}]]
        /\ UNCHANGED <<identities, credentials>>
    BY <1>7 DEF BeginCall
  <2>3. Active(i) => identities[i].active
    OBVIOUS
  <2>4. ~Active(i) => ~identities[i].active
    BY <1>7, <2>1 DEF BeginCall
  <2>. QED  BY <2>1, <2>2, <2>3, <2>4
<1>8. ASSUME NEW p \in Thread, CheckActive(p) PROVE CallsInTime'
  BY <1>8 DEF CheckActive
<1>9. ASSUME NEW p \in Thread, ReplaceScopes(p) PROVE CallsInTime'
  <2> DEFINE j == calls[p].identity
             granting == Granting(j, calls[p].scopes)
  <2>1. calls[p] \in Replacing /\ j \in Identity /\ identities[j] \in IdentityRow
    BY <1>9 DEF ReplaceScopes
  <2>2. identities' = [identities EXCEPT ![j].scopes = calls[p].scopes] /\ UNCHANGED credentials
        /\ calls' = [granting EXCEPT ![p] = Nothing]
    BY <1>9 DEF ReplaceScopes
  <2>3. \A q \in Thread : Calls(q) => granting[q] =
          IF CallerOf(q) = j THEN [calls[q] EXCEPT !.granted = @ \cup calls[p].scopes] ELSE calls[q]
    BY DEF Granting
  <2>4. \A q \in Thread : ~Calls(q) => granting[q] = calls[q]
    BY DEF Granting
  <2>5. \A i \in Identity \ {j} : identities'[i] = identities[i]
    BY <2>2
  <2>6. identities'[j].scopes = calls[p].scopes /\ identities'[j].active = identities[j].active
    BY <2>1, <2>2
  <2>7. ASSUME NEW q \in Thread, Calls(q)'
        PROVE  /\ q # p /\ Calls(q) /\ calls'[q] = granting[q]
               /\ calls'[q].at = calls[q].at /\ calls'[q].credential = calls[q].credential
               /\ calls'[q].op = calls[q].op /\ calls'[q].barred = calls[q].barred
               /\ calls'[q].scopes = calls[q].scopes /\ calls[q].granted \subseteq calls'[q].granted
               /\ CallerOf(q) = j => calls[p].scopes \subseteq calls'[q].granted
    BY <2>2, <2>3, <2>4, <2>7 DEF Granting
  <2>8. SUFFICES ASSUME NEW q \in Thread, Calls(q)'
                 PROVE  /\ identities'[CallerOf(q)'].scopes \subseteq calls'[q].granted
                        /\ calls'[q].scopes \subseteq calls'[q].granted
                        /\ calls'[q].at = "credential" /\ calls'[q].barred =>
                             ~credentials'[calls'[q].credential].active \/ ~identities'[CallerOf(q)'].active
                        /\ calls'[q].at = "identity" /\ calls'[q].barred => ~identities'[CallerOf(q)'].active
                        /\ calls'[q].at \in CallStep \ {"credential", "identity"} => ~calls'[q].barred
                        /\ calls'[q].at \in {"handle", "predict", "answer"} => RequiredScope(calls'[q].op) \in calls'[q].granted
    OBVIOUS
  <2>9. /\ Calls(q) /\ calls[q] # Nothing /\ CallerOf(q)' = CallerOf(q) /\ CallerOf(q) \in Identity
        /\ identities'[CallerOf(q)].active = identities[CallerOf(q)].active
    BY <2>2, <2>5, <2>6, <2>7, <2>8
  <2>10. identities'[CallerOf(q)].scopes \subseteq calls'[q].granted
    <3>1. CASE CallerOf(q) = j
      BY <2>6, <2>7, <2>8, <3>1
    <3>2. CASE CallerOf(q) # j
      BY <2>5, <2>7, <2>8, <2>9, <3>2
    <3>. QED  BY <3>1, <3>2
  <2>. QED  BY <2>2, <2>7, <2>8, <2>9, <2>10
<1>10. ASSUME NEW p \in Thread, ReadCredential(p) PROVE CallsInTime'
  BY <1>10 DEF ReadCredential
<1>11. ASSUME NEW p \in Thread, ReadIdentity(p) PROVE CallsInTime'
  BY <1>11 DEF ReadIdentity
<1>12. ASSUME NEW p \in Thread, ReadScopes(p) PROVE CallsInTime'
  <2>1. /\ UNCHANGED <<identities, credentials>>
        /\ calls[p] \in Calling /\ IsAt(p, "scopes") /\ Calls(p)
        /\ calls' = [calls EXCEPT ![p] = [calls[p] EXCEPT !.at = "authorize", !.scopes = identities[CallerOf(p)].scopes]]
    BY <1>12 DEF ReadScopes
  <2>2. \A q \in Thread \ {p} : calls'[q] = calls[q]
    BY <2>1
  <2>3. /\ calls'[p].at = "authorize" /\ calls'[p].scopes = identities[CallerOf(p)].scopes
        /\ calls'[p].credential = calls[p].credential /\ calls'[p].granted = calls[p].granted
        /\ calls'[p].op = calls[p].op /\ calls'[p].barred = calls[p].barred
    BY <2>1
  <2>. QED  BY <2>1, <2>2, <2>3
<1>13. ASSUME NEW p \in Thread, Authorize(p) PROVE CallsInTime'
  BY <1>13 DEF Authorize
<1>14. ASSUME NEW p \in Thread, NEW kinds \in SUBSET Kind, NEW step \in {"predict", "answer"}, Admitted(p), Writes(p, kinds, step) PROVE CallsInTime'
  BY <1>14 DEF Writes
<1>15. ASSUME NEW p \in Thread, End(p) PROVE CallsInTime'
  BY <1>15 DEF End
<1>16. CASE UNCHANGED externalVars
  BY <1>16 DEF externalVars
<1>17. ASSUME NEW p \in Thread, NEW c \in Credential, NEW tool \in DOMAIN ToolRoute, CallTool(p, c, tool) PROVE CallsInTime'
  BY <1>17, <1>7 DEF CallTool
<1>18. ASSUME NEW p \in Thread,
              RecordDecision(p) \/ PredictChoice(p) \/ StorePrediction(p) \/ PreferenceSummary(p)
                \/ ModelSummary(p) \/ FindSimilar(p) \/ RecordReport(p) \/ Delegated(p)
       PROVE  CallsInTime'
  <2>1. Admitted(p) /\ \E kinds \in SUBSET Kind, step \in {"predict", "answer"} : Writes(p, kinds, step)
    BY <1>18, EndpointsWrite
  <2>. QED  BY <2>1, <1>14
<1>19. CASE ExternalNext
  <2> HIDE DEF ExternalInv, ExternalTables, IdentityRow, CredentialRow, CallStep, Issuing, Replacing, Calling, Calls, IsAt, Ends, Goes, Active, Admitted, CallsInTime, CallerOf
  <2>. QED  BY <1>19, <1>1, <1>2, <1>3, <1>4, <1>5, <1>6, <1>7, <1>8, <1>9, <1>10, <1>11, <1>12, <1>13, <1>15, <1>17, <1>18 DEF ExternalNext
<1>. QED  BY <1>16, <1>19

\* The invariant of the services.
LEMMA ExternalInvariant == ExternalSpec => []ExternalInv
<1>1. ExternalInit => ExternalInv
  BY NothingAssumption
  DEF ExternalInit, ExternalInv, ExternalTables, CallsInTime, Calls, IsAt, Admitted
<1>2. ExternalInv /\ [ExternalNext]_externalVars => ExternalInv'
  BY ExternalTablesStep, CallsInTimeStep DEF ExternalInv
<1>. QED  BY <1>1, <1>2, PTL DEF ExternalSpec

\* authenticate, then authorize: whatever is revoked or granted between the reads
\* of a call, it reaches an endpoint only if it came in before the revocation of
\* its credential and of its identity, with a scope it was granted since.
THEOREM CallsAllowed == ExternalSpec => []CallWasAllowed
<1>1. ASSUME ExternalInv, NEW p \in Thread, Admitted(p)
      PROVE  ~calls[p].barred /\ RequiredScope(calls[p].op) \in calls[p].granted
  <2>1. calls[p] \notin Issuing \cup Replacing
    BY <1>1 DEF Admitted, Issuing, Replacing
  <2>2. Calls(p)
    BY <1>1, <2>1 DEF ExternalInv, ExternalTables, Admitted, Calls
  <2>. QED  BY <1>1, <2>2 DEF ExternalInv, CallsInTime, Admitted, CallStep
<1>2. ExternalInv => CallWasAllowed
  BY <1>1 DEF CallWasAllowed
<1>. QED  BY <1>2, ExternalInvariant, PTL

-----------------------------------------------------------------------------
(* What services report, for any handlers, sources, grants and reports. *)
Row == ChoiceRow \cup OutcomeRow

DecisionIoTables ==
  /\ sources \in [Source -> {"new", "live", "gone"}]
  /\ events \subseteq Report
  /\ decisions \in [Decision -> DecisionRow \cup {None}]
  /\ observations \in [Report -> Row \cup {None}]
  /\ evidence \subseteq [decision : Decision, option : Offered, event : Report \cup {None}]
  /\ outcomes \subseteq Decision
  /\ handlers \in [Proc -> Handler \cup {None}]

\* What an observation says is what its own report says.
ObservationOK(r) ==
  LET o == observations[r]
  IN  o # None =>
        /\ \/ IsChoice(r) /\ o \in ChoiceRow /\ ReadableChoice(o) /\ AcceptedChoice(o)
           \/ IsResult(r) /\ o \in OutcomeRow /\ ReadableOutcome(o) /\ AcceptedOutcome(o)
        /\ o.decision \in {None, About(r)}
        /\ o.external = (IF r.type = "wellbeing" THEN None ELSE r.decision)
        /\ r.type = "wellbeing" \/ o.status = "pending" => o.decision # None

\* What a handler has read still holds, or can never be written again.
Reviews(h) ==
  /\ h.seen \in Row /\ h.seen.status = "pending"
  /\ h.seen.decision = About(h.report) /\ h.seen.decision # None
  /\ IF observations[h.report] = None THEN Lost(h.report)
     ELSE /\ observations[h.report].decision = h.seen.decision
          /\ IsChoice(h.report) =>
               h.seen \in ChoiceRow /\ observations[h.report].option = h.seen.option

HandlerOK(h) ==
  /\ h.at = "find" => h.report.type # "wellbeing"
  /\ h.at \in {"find", "ingest"} /\ h.report.type # "wellbeing" =>
       AllowsActor(Grant[h.report.source], h.report.actor)
  /\ h.at = "ingest" /\ h.report.type = "wellbeing" => h.found = "resolved"
  /\ h.at \in {"decision", "expected", "confirm"} => IsChoice(h.report) /\ Reviews(h)
  /\ h.at \in {"outcome", "mark"} => h.report.type = "wellbeing" /\ Reviews(h)
  /\ h.at = "mark" => observations[h.report] = None \/ h.report.decision \in outcomes
  /\ h.at = "reject" => h.seen \in Row

\* Rows refer to rows that exist, and what has a source goes with it.
Belongs ==
  /\ \A r \in events : sources[r.source] = "live"
  /\ \A q, r \in events : q.source = r.source /\ q.id = r.id => q = r
  /\ \A r \in events : r.type = "decision_candidate" =>
       decisions[About(r)] # None /\ decisions[About(r)].event = r
  /\ \A d \in Decision : decisions[d] # None =>
       decisions[d].event \in events /\ About(decisions[d].event) = d /\ decisions[d].event.type = "decision_candidate"
  /\ \A r \in Report : observations[r] # None =>
       r \in events /\ (observations[r].decision # None => decisions[observations[r].decision] # None)
  /\ \A r \in events : (IsChoice(r) \/ IsResult(r)) /\ observations[r] = None => Lost(r)
  /\ \A e \in evidence : e.event # None => e.event \in events
  /\ \A d \in outcomes : Status(d) = "resolved"

\* What is learned of a decision is its resolution, also after it is gone.
Learned ==
  /\ \A e \in evidence :
       IF decisions[e.decision] = None THEN sources[e.decision[1]] = "gone"
       ELSE decisions[e.decision].resolution = [option |-> e.option, event |-> e.event]
  /\ \A r \in Report : observations[r] # None /\ observations[r].status = "confirmed" =>
       IF IsChoice(r)
       THEN [decision |-> observations[r].decision, option |-> observations[r].option, event |-> r] \in evidence
       ELSE r.type = "wellbeing" => r.decision \in outcomes

DecisionIoInv ==
  /\ DecisionIoTables
  /\ \A r \in Report : ObservationOK(r)
  /\ \A p \in Proc : handlers[p] # None => HandlerOK(handlers[p])
  /\ Belongs
  /\ Learned

-----------------------------------------------------------------------------
\* A report is of one kind, and what it is about is a decision or nothing yet.
LEMMA ReportKinds ==
  ASSUME NEW r \in Report
  PROVE  /\ r.source \in Source
         /\ r.type # "wellbeing" => About(r) = <<r.source, r.decision>> /\ r.decision \in ExternalId
         /\ r.type = "wellbeing" => /\ About(r) = r.decision /\ r.decision \in Decision
                                    /\ r.content \in Wellbeing
         /\ r.type = "decision_candidate" => About(r) \in Decision
         /\ ~(IsChoice(r) /\ IsResult(r))
         /\ IsChoice(r) => r.type \notin {"decision_candidate", "wellbeing"} /\ r.option \in Option
         /\ IsResult(r) => r.type \in {"technical_outcome", "user_outcome", "wellbeing"}
         /\ r.type = "technical_outcome" => r.content \in TechnicalOutcomeStatus
         /\ r.type = "user_outcome" => r.content \in UserDisposition
  BY ReportAssumption DEF About, IsChoice, IsResult, Decision, ExternalId, Wellbeing,
                          ResolutionTypes, OutcomeTypes, DecisionIoEventType

LEMMA PairsAre ==
  ASSUME NEW d \in Decision
  PROVE  d = <<d[1], d[2]>> /\ d[1] \in Source /\ d[2] \in ExternalId
<1>1. PICK r \in {q \in Report : q.type = "decision_candidate"} : d = <<r.source, r.decision>>
  BY DEF Decision
<1>. QED  BY <1>1, ReportAssumption DEF ExternalId

\* A new status leaves what was observed as it was.
LEMMA Restated ==
  ASSUME NEW o \in Row, NEW status \in ObservationStatus, NEW n,
         n = [o EXCEPT !.status = status, !.confirmed = (status = "confirmed")]
  PROVE  /\ n \in Row /\ (o \in ChoiceRow => n \in ChoiceRow) /\ (o \in OutcomeRow => n \in OutcomeRow)
         /\ n.decision = o.decision /\ n.external = o.external
         /\ n.status = status /\ (n.confirmed <=> status = "confirmed")
         /\ o \in ChoiceRow => n.option = o.option
         /\ o \in OutcomeRow => /\ n.kind = o.kind /\ n.technical = o.technical
                                /\ n.disposition = o.disposition
                                /\ n.satisfaction = o.satisfaction /\ n.regret = o.regret
<1>1. CASE o \in ChoiceRow
  BY <1>1 DEF Row, ChoiceRow, OutcomeRow
<1>2. CASE o \in OutcomeRow
  BY <1>2 DEF Row, ChoiceRow, OutcomeRow
<1>. QED  BY <1>1, <1>2 DEF Row

\* What a report about a decision, or about none yet, is observed to say.
LEMMA ChoiceObserved ==
  ASSUME NEW r \in Report, IsChoice(r), NEW found \in {"none", "open", "resolved"},
         found # "none" => About(r) \in Decision,
         NEW o, o = ResolutionObservation(r, found)
  PROVE  /\ o \in ChoiceRow /\ ReadableChoice(o) /\ AcceptedChoice(o)
         /\ o.decision = (IF found = "none" THEN None ELSE About(r)) /\ o.external = r.decision
         /\ o.status = (IF Promoted(r, found) THEN "confirmed" ELSE IF found # "none" THEN "pending" ELSE "unmatched")
         /\ Promoted(r, found) => o.option = r.option
<1>. USE ReportKinds, NoneAssumption DEF ChoiceRow, ObservationStatus
<1>1. o = [kind |-> "choice", decision |-> IF found = "none" THEN None ELSE About(r),
           external |-> r.decision, option |-> IF found = "none" THEN None ELSE r.option,
           status |-> IF Promoted(r, found) THEN "confirmed"
                      ELSE IF found # "none" THEN "pending" ELSE "unmatched",
           confirmed |-> Promoted(r, found)]
  BY DEF ResolutionObservation
<1>2. Promoted(r, found) \in BOOLEAN /\ (Promoted(r, found) => found = "open")
  BY DEF Promoted
<1>. QED  BY <1>1, <1>2 DEF ReadableChoice, AcceptedChoice

LEMMA OutcomeObserved ==
  ASSUME NEW r \in Report, IsResult(r), NEW found \in {"none", "open", "resolved"},
         found # "none" => About(r) \in Decision, r.type = "wellbeing" => found = "resolved",
         NEW o, o = OutcomeObservation(r, found)
  PROVE  /\ o \in OutcomeRow /\ ReadableOutcome(o) /\ AcceptedOutcome(o)
         /\ o.decision = (IF found = "none" THEN None ELSE About(r))
         /\ o.external = (IF r.type = "wellbeing" THEN None ELSE r.decision)
         /\ o.status = (IF found # "none" THEN "pending" ELSE "unmatched")
<1>. DEFINE kind == IF r.type = "wellbeing" THEN "owner_reported" ELSE OutcomeKindFor(r.type)
<1>1. o = [kind |-> kind, decision |-> IF found = "none" THEN None ELSE About(r),
       external |-> IF r.type = "wellbeing" THEN None ELSE r.decision,
       status |-> IF found # "none" THEN "pending" ELSE "unmatched", confirmed |-> FALSE,
       technical |-> IF kind = "technical" THEN r.content ELSE None,
       disposition |-> IF kind = "user_behavior" THEN r.content ELSE None,
       satisfaction |-> IF kind = "owner_reported" THEN r.content ELSE None,
       regret |-> IF kind = "owner_reported" THEN r.content ELSE None]
  BY DEF OutcomeObservation
<1>2. CASE r.type = "wellbeing"
  <2>1. kind = "owner_reported" /\ r.content \in Wellbeing /\ About(r) \in Decision /\ About(r) # None /\ r.content # None
    BY <1>2, ReportKinds, NoneAssumption
  <2>. HIDE DEF kind
  <2>. QED  BY <1>1, <1>2, <2>1 DEF OutcomeRow, ReadableOutcome, AcceptedOutcome, ObservationStatus, OutcomeKind
<1>3. CASE r.type = "technical_outcome"
  <2>1. /\ kind = "technical" /\ r.content \in TechnicalOutcomeStatus /\ r.content # None
        /\ r.decision \in ExternalId /\ r.decision # None /\ None \notin Decision
    BY <1>3, ReportKinds, NoneAssumption DEF OutcomeKindFor
  <2>. HIDE DEF kind
  <2>. QED  BY <1>1, <1>3, <2>1 DEF OutcomeRow, ReadableOutcome, AcceptedOutcome, ObservationStatus, OutcomeKind
<1>4. CASE r.type = "user_outcome"
  <2>1. /\ kind = "user_behavior" /\ r.content \in UserDisposition /\ r.content # None
        /\ r.decision \in ExternalId /\ r.decision # None /\ None \notin Decision
    BY <1>4, ReportKinds, NoneAssumption DEF OutcomeKindFor
  <2>. HIDE DEF kind
  <2>. QED  BY <1>1, <1>4, <2>1 DEF OutcomeRow, ReadableOutcome, AcceptedOutcome, ObservationStatus, OutcomeKind
<1>. QED  BY <1>2, <1>3, <1>4, ReportKinds

\* A stored decision is of a source that is still there.
LEMMA DecisionLives ==
  ASSUME DecisionIoInv, NEW d \in Decision, decisions[d] # None
  PROVE  /\ decisions[d] \in DecisionRow /\ decisions[d].event \in events
         /\ decisions[d].event.source = d[1] /\ sources[d[1]] = "live"
<1>1. /\ decisions[d] \in DecisionRow /\ decisions[d].event \in events /\ decisions[d].event \in Report
      /\ About(decisions[d].event) = d /\ decisions[d].event.type = "decision_candidate"
  BY DEF DecisionIoInv, DecisionIoTables, Belongs
<1>2. decisions[d].event.source = d[1]
  BY <1>1, ReportKinds
<1>. QED  BY <1>1, <1>2 DEF DecisionIoInv, Belongs

\* What the transaction of a report finds.
LEMMA IngestStarts ==
  ASSUME DecisionIoInv, NEW p \in Proc, Ingest(p)
  PROVE  LET r == handlers[p].report
             found == handlers[p].found
         IN  /\ handlers[p] \in Handler /\ handlers' = [handlers EXCEPT ![p] = None]
             /\ r \in Report /\ r \notin events /\ sources[r.source] = "live" /\ ~Lost(r)
             /\ events' = events \cup {r} /\ UNCHANGED <<sources, outcomes>>
             /\ \A e \in events : ~(e.source = r.source /\ e.id = r.id)
             /\ observations[r] = None
             /\ (IsChoice(r) \/ IsResult(r)) /\ found # "none" =>
                  About(r) \in Decision /\ decisions[About(r)] # None
             /\ r.type = "wellbeing" => found = "resolved"
             /\ r.type # "wellbeing" => AllowsActor(Grant[r.source], r.actor)
             /\ r.type = "decision_candidate" => decisions[About(r)] = None
<1>. DEFINE r == handlers[p].report
            found == handlers[p].found
<1>1. handlers[p] \in Handler /\ handlers[p].at = "ingest" /\ HandlerOK(handlers[p])
  BY DEF Ingest, At, DecisionIoInv, DecisionIoTables
<1>2. r \in Report /\ found \in {"none", "open", "resolved"}
  BY <1>1 DEF Handler
<1>3. /\ EventInsertable(r) /\ DecisionInsertable(r) /\ ObservationInsertable(r, found)
      /\ events' = events \cup {r} /\ UNCHANGED <<sources, outcomes>>
      /\ handlers' = [handlers EXCEPT ![p] = None]
  BY DEF Ingest, Done
<1>4. /\ sources[r.source] = "live" /\ r \notin events
      /\ \A e \in events : ~(e.source = r.source /\ e.id = r.id)
  BY <1>3 DEF EventInsertable
<1>5. observations[r] = None
  BY <1>2, <1>4 DEF DecisionIoInv, Belongs
<1>6. (IsChoice(r) \/ IsResult(r)) /\ found # "none" => About(r) \in Decision /\ decisions[About(r)] # None
  BY <1>3 DEF ObservationInsertable, Status
<1>7. /\ r.type = "wellbeing" => found = "resolved"
      /\ r.type # "wellbeing" => AllowsActor(Grant[r.source], r.actor)
  BY <1>1 DEF HandlerOK
<1>8. ~Lost(r)
  <2>1. CASE r.type = "wellbeing"
    <3>1. r.decision \in Decision /\ decisions[r.decision] # None
      BY <1>2, <1>6, <1>7, <2>1, ReportKinds DEF IsResult
    <3>. QED  BY <3>1, <1>4, DecisionLives DEF Lost
  <2>. QED  BY <2>1, <1>4 DEF Lost
<1>9. r.type = "decision_candidate" => decisions[About(r)] = None
  BY <1>3 DEF DecisionInsertable
<1>. QED  BY <1>1, <1>2, <1>3, <1>4, <1>5, <1>6, <1>7, <1>8, <1>9

-----------------------------------------------------------------------------
\* An observation may go, with the source that it is lost with; its status may
\* change; what it is of does not.
Kept(q) ==
  /\ Lost(q) => Lost(q)'
  /\ observations[q] = None /\ Lost(q) => observations'[q] = None
  /\ observations[q] # None /\ observations'[q] = None => Lost(q)'
  /\ observations[q] # None /\ observations'[q] # None /\ observations[q].decision # None =>
       /\ observations'[q].decision = observations[q].decision
       /\ IsChoice(q) => observations'[q].option = observations[q].option

\* The steps that store, restate or remove no observation.
LEMMA ObservationsStay ==
  ASSUME DecisionIoInv, UNCHANGED observations,
         \A s \in Source : sources'[s] = "gone" <=> sources[s] = "gone"
  PROVE  \A q \in Report : ObservationOK(q)' /\ Kept(q)
<1>. TAKE q \in Report
<1>1. ObservationOK(q)'
  BY DEF DecisionIoInv, ObservationOK, About, IsChoice, IsResult
<1>2. Lost(q)' <=> Lost(q)
  BY ReportKinds, PairsAre DEF Lost
<1>. QED  BY <1>1, <1>2 DEF Kept

LEMMA ObservationRestated ==
  ASSUME DecisionIoInv, UNCHANGED sources, NEW r \in Report, observations[r] # None,
         NEW status \in {"confirmed", "rejected"},
         status = "confirmed" => observations[r].decision # None,
         observations' = [observations EXCEPT ![r] =
            [observations[r] EXCEPT !.status = status, !.confirmed = (status = "confirmed")]]
  PROVE  \A q \in Report : ObservationOK(q)' /\ Kept(q)
<1>. TAKE q \in Report
<1>1. Lost(q)' <=> Lost(q)
  BY DEF Lost
<1>2. CASE q # r
  <2>1. observations'[q] = observations[q]
    BY <1>2 DEF DecisionIoInv, DecisionIoTables
  <2>. QED  BY <1>1, <2>1 DEF Kept, DecisionIoInv, ObservationOK, About, IsChoice, IsResult
<1>3. CASE q = r
  <2>. DEFINE o == observations[r]
              n == [o EXCEPT !.status = status, !.confirmed = (status = "confirmed")]
  <2>1. o \in Row /\ status \in ObservationStatus /\ observations'[r] = n
    BY DEF DecisionIoInv, DecisionIoTables, ObservationStatus
  <2>2. ObservationOK(r)
    BY DEF DecisionIoInv
  <2>. HIDE DEF n
  <2>3. /\ n \in Row /\ (o \in ChoiceRow => n \in ChoiceRow) /\ (o \in OutcomeRow => n \in OutcomeRow)
        /\ n.decision = o.decision /\ n.external = o.external
        /\ n.status = status /\ (n.confirmed <=> status = "confirmed")
        /\ o \in ChoiceRow => n.option = o.option
        /\ o \in OutcomeRow => /\ n.kind = o.kind /\ n.technical = o.technical
                               /\ n.disposition = o.disposition
                               /\ n.satisfaction = o.satisfaction /\ n.regret = o.regret
    <3>1. n = [o EXCEPT !.status = status, !.confirmed = (status = "confirmed")]
      BY DEF n
    <3>. HIDE DEF o
    <3>. QED  BY <2>1, <3>1, Restated
  <2>4. n # None
    BY <2>3, NoneAssumption DEF Row
  <2>5. ObservationOK(r)'
    BY <2>1, <2>2, <2>3 DEF ObservationOK, ReadableChoice, AcceptedChoice, ReadableOutcome,
                            AcceptedOutcome, ObservationStatus, About, IsChoice, IsResult
  <2>6. IsChoice(r) => o \in ChoiceRow
    BY <2>2, ReportKinds DEF ObservationOK
  <2>. QED  BY <1>1, <1>3, <2>1, <2>3, <2>4, <2>5, <2>6 DEF Kept
<1>. QED  BY <1>2, <1>3

\* What waited for a decision is of the source and the id of that decision.
LEMMA ObservationAttached ==
  ASSUME DecisionIoInv, UNCHANGED sources, NEW d \in Decision,
         observations' = AttachUnmatched(observations, d)
  PROVE  /\ observations' \in [Report -> Row \cup {None}]
         /\ \A q \in Report : ObservationOK(q)' /\ Kept(q)
         /\ \A q \in Report : observations[q] = None <=> observations'[q] = None
         /\ \A q \in Report : observations[q] # None =>
              \/ observations'[q] = observations[q]
              \/ observations'[q].status = "pending" /\ observations'[q].decision = d
<1>. SUFFICES ASSUME NEW q \in Report
              PROVE  /\ observations'[q] \in Row \cup {None}
                     /\ ObservationOK(q)' /\ Kept(q)
                     /\ observations[q] = None <=> observations'[q] = None
                     /\ observations[q] # None =>
                          \/ observations'[q] = observations[q]
                          \/ observations'[q].status = "pending" /\ observations'[q].decision = d
  BY DEF AttachUnmatched
<1>. DEFINE o == observations[q]
            waits == o # None /\ o.status = "unmatched" /\ q.source = d[1] /\ o.external = d[2]
            n == [o EXCEPT !.decision = d, !.status = "pending"]
<1>1. observations'[q] = IF waits THEN n ELSE o
  BY DEF AttachUnmatched
<1>2. Lost(q)' <=> Lost(q)
  BY DEF Lost
<1>3. ObservationOK(q) /\ o \in Row \cup {None}
  BY DEF DecisionIoInv, DecisionIoTables
<1>4. CASE ~waits
  <2>1. observations'[q] = observations[q]
    BY <1>1, <1>4
  <2>. QED  BY <1>2, <1>3, <2>1 DEF Kept, ObservationOK, About, IsChoice, IsResult
<1>5. CASE waits
  <2>1. /\ o # None /\ o \in Row /\ o.status = "unmatched" /\ o.decision = None /\ ~o.confirmed
        /\ q.type # "wellbeing" /\ o.external = q.decision
    BY <1>3, <1>5 DEF ObservationOK, ReadableChoice, ReadableOutcome
  <2>2. About(q) = d /\ d # None
    BY <1>5, <2>1, ReportKinds, PairsAre, NoneAssumption
  <2>3. /\ n \in Row /\ (o \in ChoiceRow => n \in ChoiceRow) /\ (o \in OutcomeRow => n \in OutcomeRow)
        /\ n.decision = d /\ n.external = o.external /\ n.status = "pending" /\ n.confirmed = o.confirmed
        /\ o \in OutcomeRow => /\ n.kind = o.kind /\ n.technical = o.technical
                               /\ n.disposition = o.disposition
                               /\ n.satisfaction = o.satisfaction /\ n.regret = o.regret
    <3>1. CASE o \in ChoiceRow
      BY <3>1 DEF Row, ChoiceRow, OutcomeRow, ObservationStatus
    <3>2. CASE o \in OutcomeRow
      BY <3>2 DEF Row, ChoiceRow, OutcomeRow, ObservationStatus
    <3>. QED  BY <3>1, <3>2, <2>1 DEF Row
  <2>4. observations'[q] = n
    BY <1>1, <1>5
  <2>. HIDE DEF n, waits
  <2>5. n # None
    BY <2>3, NoneAssumption DEF Row
  <2>6. ObservationOK(q)'
    BY <1>3, <2>1, <2>2, <2>3, <2>4 DEF ObservationOK, ReadableChoice, AcceptedChoice, ReadableOutcome,
                            AcceptedOutcome, ObservationStatus, About, IsChoice, IsResult
  <2>. QED  BY <1>2, <2>1, <2>3, <2>4, <2>5, <2>6 DEF Kept
<1>. QED  BY <1>4, <1>5

\* The observation of a report that was not stored before.
LEMMA ObservationStored ==
  ASSUME DecisionIoInv, UNCHANGED sources, NEW r \in Report, observations[r] = None, ~Lost(r),
         NEW found \in {"none", "open", "resolved"}, found # "none" => About(r) \in Decision,
         r.type = "wellbeing" => found = "resolved",
         NEW n, observations' = [observations EXCEPT ![r] = n],
         \/ IsChoice(r) /\ n = ResolutionObservation(r, found)
         \/ IsResult(r) /\ n = OutcomeObservation(r, found)
  PROVE  n \in Row /\ \A q \in Report : ObservationOK(q)' /\ Kept(q)
<1>1. /\ \/ IsChoice(r) /\ n \in ChoiceRow /\ ReadableChoice(n) /\ AcceptedChoice(n)
         \/ IsResult(r) /\ n \in OutcomeRow /\ ReadableOutcome(n) /\ AcceptedOutcome(n)
      /\ n.decision = (IF found = "none" THEN None ELSE About(r))
      /\ n.external = (IF r.type = "wellbeing" THEN None ELSE r.decision)
      /\ n.status = "pending" => found # "none"
  <2>1. CASE IsChoice(r) /\ n = ResolutionObservation(r, found)
    <3>1. /\ n \in ChoiceRow /\ ReadableChoice(n) /\ AcceptedChoice(n)
          /\ n.decision = (IF found = "none" THEN None ELSE About(r)) /\ n.external = r.decision
          /\ n.status = (IF Promoted(r, found) THEN "confirmed"
                         ELSE IF found # "none" THEN "pending" ELSE "unmatched")
      BY <2>1, ChoiceObserved
    <3>. QED  BY <2>1, <3>1, ReportKinds
  <2>2. CASE IsResult(r) /\ n = OutcomeObservation(r, found)
    BY <2>2, OutcomeObserved
  <2>. QED  BY <2>1, <2>2
<1>2. n \in Row /\ n # None
  BY <1>1, NoneAssumption DEF Row
<1>3. ASSUME NEW q \in Report PROVE ObservationOK(q)' /\ Kept(q)
  <2>1. Lost(q)' <=> Lost(q)
    BY DEF Lost
  <2>2. CASE q # r
    <3>1. observations'[q] = observations[q]
      BY <2>2 DEF DecisionIoInv, DecisionIoTables
    <3>. QED  BY <2>1, <3>1 DEF Kept, DecisionIoInv, ObservationOK, About, IsChoice, IsResult
  <2>3. CASE q = r
    <3>1. observations'[r] = n
      BY DEF DecisionIoInv, DecisionIoTables
    <3>2. found # "none" => About(r) # None
      BY NoneAssumption
    <3>3. ObservationOK(r)'
      BY <1>1, <3>1, <3>2 DEF ObservationOK, ReadableChoice, AcceptedChoice, ReadableOutcome,
                            AcceptedOutcome, ObservationStatus, About, IsChoice, IsResult
    <3>. QED  BY <1>2, <2>1, <2>3, <3>1, <3>3 DEF Kept
  <2>. QED  BY <2>2, <2>3
<1>. QED  BY <1>2, <1>3

LEMMA ObservationsRemoved ==
  ASSUME DecisionIoInv, NEW s \in Source, RemoveSource(s)
  PROVE  /\ \A q \in Report : observations'[q] \in {None, observations[q]}
         /\ \A q \in Report : ObservationOK(q)' /\ Kept(q)
<1>1. \A q \in Report : observations'[q] =
        IF observations[q] = None \/ q.source = s THEN None
        ELSE IF observations[q].decision # None /\ observations[q].decision[1] = s THEN None
        ELSE observations[q]
  BY DEF RemoveSource
<1>2. ASSUME NEW q \in Report PROVE ObservationOK(q)' /\ Kept(q)
  <2>1. Lost(q) => Lost(q)'
    BY ReportKinds, PairsAre DEF Lost, RemoveSource, DecisionIoInv, DecisionIoTables
  <2>2. ASSUME observations[q] # None, observations'[q] = None PROVE Lost(q)'
    <3>1. CASE q.source = s
      BY <3>1 DEF Lost, RemoveSource, DecisionIoInv, DecisionIoTables
    <3>2. CASE observations[q].decision # None /\ observations[q].decision[1] = s
      <4>1. observations[q].decision = About(q)
        BY <2>2, <3>2 DEF DecisionIoInv, ObservationOK
      <4>. QED  BY <3>2, <4>1, ReportKinds, PairsAre DEF Lost, RemoveSource, DecisionIoInv, DecisionIoTables
    <3>. QED  BY <1>1, <2>2, <3>1, <3>2
  <2>3. ObservationOK(q)'
    BY <1>1 DEF DecisionIoInv, ObservationOK, About, IsChoice, IsResult
  <2>. QED  BY <1>1, <2>1, <2>2, <2>3 DEF Kept
<1>. QED  BY <1>1, <1>2

-----------------------------------------------------------------------------
\* The steps of a handler that only read.
Reads(p) ==
  \/ \E r \in Report : \/ BeginReport(p, r) \/ BeginConfirm(p, r)
                       \/ BeginConfirmWellbeing(p, r) \/ BeginReject(p, r)
  \/ FindDecision(p) \/ Replay(p) \/ ReadDecision(p) \/ ReadObservation(p) \/ Fail(p)

LEMMA ReadsKeepTables ==
  ASSUME NEW p \in Proc, Reads(p)
  PROVE  UNCHANGED <<sources, events, decisions, observations, evidence, outcomes>>
  BY DEF Reads, BeginReport, BeginConfirm, BeginConfirmWellbeing, BeginReject, FindDecision, Replay,
         ReadDecision, ReadObservation, Fail, tables

\* The steps that restate an observation: a confirmation of a pending choice or
\* result, a rejection.
LEMMA RestatedStep ==
  ASSUME DecisionIoInv, NEW p \in Proc, Confirm(p) \/ MarkConfirmed(p) \/ Reject(p)
  PROVE  LET r == handlers[p].report
         IN  /\ handlers[p] # None /\ handlers[p] \in Handler /\ r \in Report /\ HandlerOK(handlers[p])
             /\ UNCHANGED <<sources, events, outcomes>> /\ handlers' = [handlers EXCEPT ![p] = None]
             /\ \/ observations' = observations
                \/ /\ observations[r] # None
                   /\ \E status \in {"confirmed", "rejected"} :
                        /\ status = "confirmed" => observations[r].decision # None /\ ~Reject(p)
                        /\ observations' = [observations EXCEPT ![r] =
                             [observations[r] EXCEPT !.status = status, !.confirmed = (status = "confirmed")]]
<1>. DEFINE r == handlers[p].report
<1>1. /\ handlers[p] # None /\ handlers[p] \in Handler /\ r \in Report /\ HandlerOK(handlers[p])
  BY DEF Confirm, MarkConfirmed, Reject, At, DecisionIoInv, DecisionIoTables, Handler
<1>2. UNCHANGED <<sources, events, outcomes>> /\ handlers' = [handlers EXCEPT ![p] = None]
  BY DEF Confirm, MarkConfirmed, Reject, Done
<1>3. observations[r] # None => r \in DOMAIN observations /\ observations[r] \in Row
  BY <1>1 DEF DecisionIoInv, DecisionIoTables
<1>. DEFINE to(status) == [observations EXCEPT ![r] =
              [observations[r] EXCEPT !.status = status, !.confirmed = (status = "confirmed")]]
<1>4. CASE Confirm(p)
  <2>1. /\ observations[r] # None /\ handlers[p].at = "confirm"
        /\ observations' = [observations EXCEPT ![r].status = "confirmed", ![r].confirmed = TRUE]
        /\ Status(handlers[p].seen.decision) = "open"
    BY <1>4 DEF Confirm, ApplyResolution, At
  <2>2. observations[r].decision \in Decision
    BY <1>1, <2>1 DEF HandlerOK, Reviews, Status
  <2>3. observations' = to("confirmed")
    BY <2>1
  <2>4. ~Reject(p)
    BY <2>1 DEF Reject, At
  <2>. QED  BY <1>1, <1>2, <2>1, <2>2, <2>3, <2>4, NoneAssumption
<1>5. CASE MarkConfirmed(p)
  <2>1. /\ handlers[p].at = "mark"
        /\ \/ observations' = observations
           \/ /\ observations[r] # None /\ observations[r].status = "pending"
              /\ observations' = [observations EXCEPT ![r].status = "confirmed",
                                                      ![r].confirmed = ("confirmed" = "confirmed")]
    BY <1>5 DEF MarkConfirmed, CompareAndSet, At
  <2>2. observations[r] # None /\ observations[r].status = "pending" => observations[r].decision # None
    BY <1>1 DEF DecisionIoInv, ObservationOK
  <2>3. ~Reject(p)
    BY <2>1 DEF Reject, At
  <2>4. observations' # observations => observations' = to("confirmed")
    BY <2>1
  <2>. QED  BY <1>1, <1>2, <2>1, <2>2, <2>3, <2>4
<1>6. CASE Reject(p)
  <2>1. \/ observations' = observations
        \/ /\ observations[r] # None
           /\ observations' = [observations EXCEPT ![r].status = "rejected",
                                                   ![r].confirmed = ("rejected" = "confirmed")]
    BY <1>6 DEF Reject, CompareAndSet
  <2>2. observations' # observations => observations' = to("rejected")
    BY <2>1
  <2>. QED  BY <1>1, <1>2, <2>1, <2>2
<1>. QED  BY <1>4, <1>5, <1>6

LEMMA ObservationsStep ==
  ASSUME DecisionIoInv, [Next]_vars
  PROVE  /\ observations' \in [Report -> Row \cup {None}]
         /\ \A q \in Report : ObservationOK(q)' /\ Kept(q)
<1>1. CASE UNCHANGED observations /\ \A s \in Source : sources'[s] = "gone" <=> sources[s] = "gone"
  BY <1>1, ObservationsStay DEF DecisionIoInv, DecisionIoTables
<1>2. ASSUME NEW p \in Proc, Confirm(p) \/ MarkConfirmed(p) \/ Reject(p)
      PROVE  /\ observations' \in [Report -> Row \cup {None}]
             /\ \A q \in Report : ObservationOK(q)' /\ Kept(q)
  <2>1. CASE observations' = observations
    BY <1>1, <1>2, <2>1, RestatedStep
  <2>2. CASE observations' # observations
    <3>. DEFINE r == handlers[p].report
    <3>1. /\ r \in Report /\ observations[r] # None /\ UNCHANGED sources
          /\ \E status \in {"confirmed", "rejected"} :
               /\ status = "confirmed" => observations[r].decision # None
               /\ observations' = [observations EXCEPT ![r] =
                    [observations[r] EXCEPT !.status = status, !.confirmed = (status = "confirmed")]]
      BY <1>2, <2>2, RestatedStep
    <3>2. PICK status \in {"confirmed", "rejected"} :
               /\ status = "confirmed" => observations[r].decision # None
               /\ observations' = [observations EXCEPT ![r] =
                    [observations[r] EXCEPT !.status = status, !.confirmed = (status = "confirmed")]]
      BY <3>1
    <3>3. /\ observations[r] \in Row /\ status \in ObservationStatus
          /\ observations \in [Report -> Row \cup {None}]
      BY <3>1 DEF DecisionIoInv, DecisionIoTables, ObservationStatus
    <3>. HIDE DEF r
    <3>4. [observations[r] EXCEPT !.status = status, !.confirmed = (status = "confirmed")] \in Row
      BY <3>3, Restated
    <3>5. observations' \in [Report -> Row \cup {None}]
      BY <3>1, <3>2, <3>3, <3>4
    <3>. QED  BY <3>1, <3>2, <3>5, ObservationRestated
  <2>. QED  BY <2>1, <2>2
<1>3. ASSUME NEW p \in Proc, Ingest(p)
      PROVE  /\ observations' \in [Report -> Row \cup {None}]
             /\ \A q \in Report : ObservationOK(q)' /\ Kept(q)
  <2>. DEFINE r == handlers[p].report
              found == handlers[p].found
  <2>1. /\ r \in Report /\ found \in {"none", "open", "resolved"} /\ ~Lost(r) /\ UNCHANGED sources
        /\ observations[r] = None
        /\ (IsChoice(r) \/ IsResult(r)) /\ found # "none" => About(r) \in Decision
        /\ r.type = "wellbeing" => found = "resolved"
    BY <1>3, IngestStarts DEF Handler
  <2>2. \/ IsChoice(r) /\ observations' = [observations EXCEPT ![r] = ResolutionObservation(r, found)]
        \/ IsResult(r) /\ observations' = [observations EXCEPT ![r] = OutcomeObservation(r, found)]
        \/ r.type = "decision_candidate" /\ observations' = AttachUnmatched(observations, About(r))
        \/ UNCHANGED observations
    BY <1>3 DEF Ingest
  <2>. HIDE DEF r, found
  <2>3. CASE \/ IsChoice(r) /\ observations' = [observations EXCEPT ![r] = ResolutionObservation(r, found)]
             \/ IsResult(r) /\ observations' = [observations EXCEPT ![r] = OutcomeObservation(r, found)]
    <3>1. PICK n : /\ observations' = [observations EXCEPT ![r] = n]
                   /\ \/ IsChoice(r) /\ n = ResolutionObservation(r, found)
                      \/ IsResult(r) /\ n = OutcomeObservation(r, found)
      BY <2>3
    <3>2. n \in Row /\ \A q \in Report : ObservationOK(q)' /\ Kept(q)
      BY <2>1, <3>1, ObservationStored
    <3>. QED  BY <2>1, <3>1, <3>2 DEF DecisionIoInv, DecisionIoTables
  <2>4. CASE r.type = "decision_candidate" /\ observations' = AttachUnmatched(observations, About(r))
    BY <2>1, <2>4, ReportKinds, ObservationAttached
  <2>5. CASE UNCHANGED observations
    BY <1>1, <2>1, <2>5
  <2>. QED  BY <2>2, <2>3, <2>4, <2>5
<1>4. ASSUME NEW s \in Source, RemoveSource(s)
      PROVE  /\ observations' \in [Report -> Row \cup {None}]
             /\ \A q \in Report : ObservationOK(q)' /\ Kept(q)
  <2>1. DOMAIN observations' = Report /\ observations' = [q \in Report |-> observations'[q]]
    BY <1>4 DEF RemoveSource
  <2>. QED  BY <1>4, <2>1, ObservationsRemoved DEF DecisionIoInv, DecisionIoTables
<1>5. ASSUME NEW p \in Proc, Reads(p)
      PROVE UNCHANGED observations /\ \A s \in Source : sources'[s] = "gone" <=> sources[s] = "gone"
  BY <1>5, ReadsKeepTables
<1>6. ASSUME \/ UNCHANGED vars
             \/ \E s \in Source : RegisterSource(s)
             \/ \E d \in Decision, o \in Offered : OwnerResolves(d, o)
             \/ \E p \in Proc : RecordOutcome(p) \/ \E r \in Report : BeginWellbeing(p, r)
      PROVE UNCHANGED observations /\ \A s \in Source : sources'[s] = "gone" <=> sources[s] = "gone"
  BY <1>6, ReportKinds DEF vars, tables, RegisterSource, OwnerResolves, RecordOutcome, BeginWellbeing, DecisionIoInv, DecisionIoTables
<1>. QED  BY <1>1, <1>2, <1>3, <1>4, <1>5, <1>6 DEF Next, Reads

LEMMA OutcomesStay ==
  ASSUME DecisionIoInv, [Next]_vars, NEW r \in Report, r.type = "wellbeing",
         observations'[r] # None, r.decision \in outcomes
  PROVE  r.decision \in outcomes'
<1>1. CASE \E s \in Source : RemoveSource(s)
  <2>1. PICK s \in Source : RemoveSource(s)
    BY <1>1
  <2>2. observations'[r] = observations[r] /\ ~(observations[r].decision # None /\ observations[r].decision[1] = s)
    BY <2>1 DEF RemoveSource
  <2>3. observations[r].decision = r.decision /\ r.decision # None
    BY <2>2, ReportKinds DEF DecisionIoInv, ObservationOK
  <2>. QED  BY <2>1, <2>2, <2>3 DEF RemoveSource
<1>2. CASE ~\E s \in Source : RemoveSource(s)
  BY <1>2 DEF Next, vars, tables, RegisterSource, OwnerResolves, BeginReport, BeginWellbeing, BeginConfirm,
              BeginConfirmWellbeing, BeginReject, FindDecision, Replay, Ingest, ReadDecision,
              ReadObservation, Confirm, RecordOutcome, MarkConfirmed, Reject, Fail
<1>. QED  BY <1>1, <1>2

-----------------------------------------------------------------------------
\* What holds of a handler holds after any step, also of others.
LEMMA HandlerStays ==
  ASSUME DecisionIoInv, [Next]_vars, NEW h \in Handler, HandlerOK(h)
  PROVE  HandlerOK(h)'
<1>1. h.report \in Report /\ Kept(h.report)
  BY ObservationsStep DEF Handler
<1>2. Reviews(h) => Reviews(h)'
  BY <1>1 DEF Reviews, Kept, About, IsChoice
<1>3. h.at = "mark" => observations'[h.report] = None \/ h.report.decision \in outcomes'
  BY <1>1, OutcomesStay DEF HandlerOK, Kept, Reviews
<1>. QED  BY <1>2, <1>3 DEF HandlerOK, IsChoice

\* What a handler that begins holds.
LEMMA HandlerBegins ==
  ASSUME DecisionIoInv, NEW p \in Proc, NEW r \in Report,
         \/ BeginReport(p, r) \/ BeginWellbeing(p, r)
         \/ BeginConfirm(p, r) \/ BeginConfirmWellbeing(p, r) \/ BeginReject(p, r)
  PROVE  \E h \in Handler : handlers' = [handlers EXCEPT ![p] = h] /\ HandlerOK(h)'
<1>1. CASE BeginReport(p, r)
  <2>. DEFINE h == [at |-> "find", report |-> r, found |-> "none", seen |-> None]
  <2>1. handlers' = [handlers EXCEPT ![p] = h] /\ AllowsActor(Grant[r.source], r.actor) /\ r.type # "wellbeing"
    BY <1>1 DEF BeginReport, Start, Accepts
  <2>2. h \in Handler
    BY <2>1 DEF Handler
  <2>3. HandlerOK(h)'
    BY <2>1 DEF HandlerOK
  <2>. QED  BY <2>1, <2>2, <2>3
<1>2. CASE BeginWellbeing(p, r)
  <2>. DEFINE h == [at |-> "ingest", report |-> r, found |-> "resolved", seen |-> None]
  <2>1. handlers' = [handlers EXCEPT ![p] = h] /\ r.type = "wellbeing"
    BY <1>2 DEF BeginWellbeing
  <2>2. h \in Handler
    BY <2>1 DEF Handler
  <2>3. HandlerOK(h)'
    BY <2>1 DEF HandlerOK
  <2>. QED  BY <2>1, <2>2, <2>3
<1>3. ASSUME NEW step \in {"decision", "outcome", "reject"}, Start(p, step, r, observations[r]),
             observations[r] # None, UNCHANGED tables,
             step # "reject" => observations[r].status = "pending",
             step = "decision" => IsChoice(r), step = "outcome" => r.type = "wellbeing"
      PROVE  \E h \in Handler : handlers' = [handlers EXCEPT ![p] = h] /\ HandlerOK(h)'
  <2>. DEFINE h == [at |-> step, report |-> r, found |-> "none", seen |-> observations[r]]
  <2>1. handlers' = [handlers EXCEPT ![p] = h] /\ UNCHANGED <<observations, sources>>
    BY <1>3 DEF Start, tables
  <2>2. observations[r] \in Row /\ ObservationOK(r)
    BY <1>3 DEF DecisionIoInv, DecisionIoTables
  <2>3. h \in Handler
    BY <1>3, <2>2 DEF Handler, Row
  <2>4. observations[r].status = "pending" => observations[r].decision = About(r) /\ observations[r].decision # None
    BY <1>3, <2>2 DEF ObservationOK
  <2>5. IsChoice(r) => observations[r] \in ChoiceRow
    BY <1>3, <2>2, ReportKinds DEF ObservationOK
  <2>6. PICK seen : seen = observations[r]
    OBVIOUS
  <2>7. step # "reject" => Reviews([at |-> step, report |-> r, found |-> "none", seen |-> seen])'
    BY <1>3, <2>1, <2>2, <2>4, <2>5, <2>6 DEF Reviews, About, IsChoice
  <2>8. HandlerOK([at |-> step, report |-> r, found |-> "none", seen |-> seen])'
    BY <1>3, <2>2, <2>6, <2>7 DEF HandlerOK, IsChoice
  <2>. QED  BY <2>1, <2>3, <2>6, <2>8
<1>4. CASE BeginConfirm(p, r)
  BY <1>3, <1>4 DEF BeginConfirm
<1>5. CASE BeginConfirmWellbeing(p, r)
  BY <1>3, <1>5, ReportKinds DEF BeginConfirmWellbeing
<1>6. CASE BeginReject(p, r)
  BY <1>3, <1>6 DEF BeginReject
<1>. QED  BY <1>1, <1>2, <1>4, <1>5, <1>6

\* What a handler that goes on holds.
LEMMA HandlerGoesOn ==
  ASSUME DecisionIoInv, NEW p \in Proc,
         FindDecision(p) \/ ReadDecision(p) \/ ReadObservation(p) \/ RecordOutcome(p)
  PROVE  \/ handlers' = [handlers EXCEPT ![p] = None]
         \/ \E h \in Handler : handlers' = [handlers EXCEPT ![p] = h] /\ HandlerOK(h)'
<1>. PICK h : h = handlers[p]
  OBVIOUS
<1>1. h \in Handler /\ HandlerOK(h) /\ h.report \in Report
  <2>1. handlers[p] \in Handler /\ HandlerOK(handlers[p])
    BY DEF DecisionIoInv, DecisionIoTables, FindDecision, ReadDecision, ReadObservation, RecordOutcome, At
  <2>. QED  BY <2>1 DEF Handler
<1>2. UNCHANGED <<sources, observations>>
  BY DEF FindDecision, ReadDecision, ReadObservation, RecordOutcome, tables
<1>3. Reviews(h) => Reviews(h)'
  BY <1>2 DEF Reviews, Lost, About, IsChoice
<1>4. ASSUME NEW step \in {"expected", "confirm", "mark"},
             handlers' = [handlers EXCEPT ![p].at = step],
             h.at = "outcome" <=> step = "mark", h.at \in {"decision", "expected", "outcome"},
             step = "mark" => h.report.decision \in outcomes'
      PROVE  \E n \in Handler : handlers' = [handlers EXCEPT ![p] = n] /\ HandlerOK(n)'
  <2>. DEFINE n == [h EXCEPT !.at = step]
  <2>1. /\ n \in Handler /\ n.at = step /\ n.report = h.report /\ n.seen = h.seen
        /\ handlers' = [handlers EXCEPT ![p] = n]
    BY <1>1, <1>4 DEF Handler
  <2>. HIDE DEF n
  <2>2. Reviews(h)'
    BY <1>1, <1>3, <1>4 DEF HandlerOK
  <2>3. Reviews(n)'
    BY <2>1, <2>2 DEF Reviews
  <2>4. HandlerOK(n)'
    BY <1>1, <1>4, <2>1, <2>3 DEF HandlerOK, IsChoice
  <2>. QED  BY <2>1, <2>4
<1>5. CASE FindDecision(p)
  <2>. DEFINE status == Status(About(h.report))
              n == [h EXCEPT !.at = "ingest", !.found = status]
  <2>1. \/ handlers' = [handlers EXCEPT ![p] = None]
        \/ handlers' = [handlers EXCEPT ![p].at = "ingest", ![p].found = status]
    BY <1>5 DEF FindDecision, Done
  <2>2. h.at = "find" /\ status \in {"none", "open", "resolved"}
    BY <1>5 DEF FindDecision, At, Status
  <2>3. PICK found \in {"none", "open", "resolved"} : found = status
    BY <2>2
  <2>4. \/ handlers' = [handlers EXCEPT ![p] = None]
        \/ handlers' = [handlers EXCEPT ![p] = [h EXCEPT !.at = "ingest", !.found = found]]
    BY <2>1, <2>3
  <2>5. [h EXCEPT !.at = "ingest", !.found = found] \in Handler
    BY <1>1, <2>3 DEF Handler
  <2>6. HandlerOK([h EXCEPT !.at = "ingest", !.found = found])'
    BY <1>1, <2>2 DEF HandlerOK, Handler
  <2>. QED  BY <2>4, <2>5, <2>6
<1>6. CASE ReadDecision(p)
  BY <1>4, <1>6 DEF ReadDecision, Goto, Done, At
<1>7. CASE ReadObservation(p)
  BY <1>4, <1>7 DEF ReadObservation, Goto, Done, At
<1>8. CASE RecordOutcome(p)
  <2>1. h.at = "outcome" /\ h.seen.decision = h.report.decision
    BY <1>1, <1>8, ReportKinds DEF RecordOutcome, At, HandlerOK, Reviews
  <2>. QED  BY <1>4, <1>8, <2>1 DEF RecordOutcome, Goto, Done
<1>. QED  BY <1>5, <1>6, <1>7, <1>8

LEMMA HandlersStep ==
  ASSUME DecisionIoInv, [Next]_vars
  PROVE  /\ handlers' \in [Proc -> Handler \cup {None}]
         /\ \A p \in Proc : handlers'[p] # None => HandlerOK(handlers[p])'
<1>1. handlers \in [Proc -> Handler \cup {None}]
  BY DEF DecisionIoInv, DecisionIoTables
<1>2. ASSUME NEW p \in Proc, handlers'[p] = handlers[p], handlers'[p] # None
      PROVE  HandlerOK(handlers[p])'
  <2>1. PICK h : h = handlers[p]
    OBVIOUS
  <2>2. h \in Handler /\ HandlerOK(h)
    BY <1>1, <1>2, <2>1 DEF DecisionIoInv
  <2>3. HandlerOK(h)'
    BY <2>2, HandlerStays
  <2>. QED  BY <1>2, <2>1, <2>3 DEF HandlerOK, Reviews, Lost, About, IsChoice
<1>3. CASE \E p \in Proc : \/ handlers' = [handlers EXCEPT ![p] = None]
                           \/ \E h \in Handler : handlers' = [handlers EXCEPT ![p] = h] /\ HandlerOK(h)'
  <2>1. PICK p \in Proc, h \in Handler \cup {None} :
          handlers' = [handlers EXCEPT ![p] = h] /\ (h # None => HandlerOK(h)')
    BY <1>3
  <2>2. handlers' \in [Proc -> Handler \cup {None}] /\ handlers'[p] = h
    BY <1>1, <2>1
  <2>3. ASSUME NEW q \in Proc, handlers'[q] # None PROVE HandlerOK(handlers[q])'
    <3>1. CASE q = p
      BY <2>1, <2>2, <2>3, <3>1 DEF HandlerOK, Reviews, Lost, About, IsChoice
    <3>2. CASE q # p
      BY <1>1, <1>2, <2>1, <2>3, <3>2
    <3>. QED  BY <3>1, <3>2
  <2>. QED  BY <2>2, <2>3
<1>4. CASE UNCHANGED handlers
  BY <1>1, <1>2, <1>4
<1>5. ASSUME NEW p \in Proc, Replay(p) \/ Ingest(p) \/ Confirm(p) \/ MarkConfirmed(p) \/ Reject(p) \/ Fail(p)
      PROVE  handlers' = [handlers EXCEPT ![p] = None]
  BY <1>5 DEF Replay, Ingest, Confirm, MarkConfirmed, Reject, Fail, Done
<1>6. CASE \/ UNCHANGED vars
           \/ \E s \in Source : RegisterSource(s) \/ RemoveSource(s)
           \/ \E d \in Decision, o \in Offered : OwnerResolves(d, o)
  BY <1>4, <1>6 DEF vars, RegisterSource, RemoveSource, OwnerResolves
<1>. QED  BY <1>3, <1>5, <1>6, HandlerBegins, HandlerGoesOn DEF Next

-----------------------------------------------------------------------------
\* A decision is resolved once, and what is learned of it is that resolution.
LearnedOnce ==
  \A e \in evidence :
    IF decisions[e.decision] = None THEN sources[e.decision[1]] = "gone"
    ELSE decisions[e.decision].resolution = [option |-> e.option, event |-> e.event]

LEMMA Resolved ==
  ASSUME DecisionIoInv, UNCHANGED sources, NEW d \in Decision, Status(d) = "open",
         NEW o \in Offered, NEW q \in Report \cup {None},
         decisions' = [decisions EXCEPT ![d].resolution = [option |-> o, event |-> q]],
         evidence' = evidence \cup {[decision |-> d, option |-> o, event |-> q]}
  PROVE  /\ decisions' \in [Decision -> DecisionRow \cup {None}]
         /\ evidence' \subseteq [decision : Decision, option : Offered, event : Report \cup {None}]
         /\ \A c \in Decision : decisions'[c] = None <=> decisions[c] = None
         /\ \A c \in Decision : decisions[c] # None => decisions'[c].event = decisions[c].event
         /\ \A c \in Decision : Status(c) = "resolved" => Status(c)' = "resolved"
         /\ LearnedOnce'
<1>. DEFINE new == [decision |-> d, option |-> o, event |-> q]
            row == [decisions[d] EXCEPT !.resolution = [option |-> o, event |-> q]]
<1>1. /\ decisions \in [Decision -> DecisionRow \cup {None}]
      /\ evidence \subseteq [decision : Decision, option : Offered, event : Report \cup {None}]
      /\ LearnedOnce
  BY DEF DecisionIoInv, DecisionIoTables, Learned, LearnedOnce
<1>2. decisions[d] \in DecisionRow /\ decisions[d].resolution = None
  BY <1>1 DEF Status
<1>3. /\ row \in DecisionRow /\ row # None /\ row.event = decisions[d].event
      /\ row.resolution = [option |-> o, event |-> q] /\ row.resolution # None
  BY <1>2, NoneAssumption DEF DecisionRow, Resolution
<1>4. decisions'[d] = row /\ \A c \in Decision \ {d} : decisions'[c] = decisions[c]
  BY <1>1
<1>5. decisions' \in [Decision -> DecisionRow \cup {None}]
  BY <1>1, <1>3
<1>. HIDE DEF row
<1>6. \A c \in Decision : /\ decisions'[c] = None <=> decisions[c] = None
                          /\ decisions[c] # None => decisions'[c].event = decisions[c].event
  BY <1>2, <1>3, <1>4, NoneAssumption
<1>7. \A c \in Decision : Status(c) = "resolved" => Status(c)' = "resolved"
  BY <1>4 DEF Status
<1>8. evidence' \subseteq [decision : Decision, option : Offered, event : Report \cup {None}]
  BY <1>1
<1>9. ASSUME NEW e \in evidence'
      PROVE  IF decisions'[e.decision] = None THEN sources'[e.decision[1]] = "gone"
             ELSE decisions'[e.decision].resolution = [option |-> e.option, event |-> e.event]
  <2>1. CASE e = new
    BY <1>3, <1>4, <2>1
  <2>2. CASE e \in evidence
    <3>1. [option |-> e.option, event |-> e.event] # None /\ e.decision \in Decision
      BY <1>1, <2>2, NoneAssumption DEF Resolution
    <3>2. e.decision # d
      BY <1>1, <1>2, <2>2, <3>1, NoneAssumption DEF LearnedOnce
    <3>. QED  BY <1>1, <1>4, <2>2, <3>1, <3>2 DEF LearnedOnce
  <2>. QED  BY <1>9, <2>1, <2>2
<1>10. LearnedOnce'
  BY <1>9 DEF LearnedOnce
<1>. QED  BY <1>5, <1>6, <1>7, <1>8, <1>10

Tables ==
  /\ sources \in [Source -> {"new", "live", "gone"}]
  /\ events \subseteq Report
  /\ decisions \in [Decision -> DecisionRow \cup {None}]
  /\ evidence \subseteq [decision : Decision, option : Offered, event : Report \cup {None}]
  /\ outcomes \subseteq Decision

LEMMA SourcesStep ==
  ASSUME DecisionIoInv, UNCHANGED <<events, decisions, observations, evidence, outcomes>>,
         sources' \in [Source -> {"new", "live", "gone"}],
         \A s \in Source : /\ sources'[s] = "gone" <=> sources[s] = "gone"
                           /\ sources[s] = "live" => sources'[s] = "live"
  PROVE  Tables' /\ Belongs' /\ Learned'
<1>1. Tables'
  BY DEF DecisionIoInv, DecisionIoTables, Tables
<1>2. Belongs'
  <2>1. \A r \in Report : Lost(r) => Lost(r)'
    BY ReportKinds, PairsAre DEF Lost
  <2>2. \A r \in events : sources'[r.source] = "live"
    BY ReportKinds DEF DecisionIoInv, DecisionIoTables, Belongs
  <2>. QED  BY <2>1, <2>2 DEF DecisionIoInv, DecisionIoTables, Belongs, About, IsChoice, IsResult, Status
<1>3. Learned'
  <2>1. \A e \in evidence : e.decision[1] \in Source
    BY PairsAre DEF DecisionIoInv, DecisionIoTables
  <2>. QED  BY <2>1 DEF DecisionIoInv, Learned, IsChoice
<1>. QED  BY <1>1, <1>2, <1>3

LEMMA OutcomeRecorded ==
  ASSUME DecisionIoInv, NEW p \in Proc, RecordOutcome(p)
  PROVE  Tables' /\ Belongs' /\ Learned'
<1>1. UNCHANGED <<sources, events, decisions, observations, evidence>>
  BY DEF RecordOutcome
<1>2. /\ outcomes \subseteq outcomes'
      /\ \A d \in outcomes' \ outcomes : d \in Decision /\ Status(d) = "resolved"
  BY DEF RecordOutcome, Status
<1>3. Tables'
  BY <1>1, <1>2 DEF DecisionIoInv, DecisionIoTables, Tables
<1>4. Belongs'
  BY <1>1, <1>2 DEF DecisionIoInv, Belongs, About, IsChoice, IsResult, Status, Lost
<1>5. Learned'
  BY <1>1, <1>2 DEF DecisionIoInv, Learned, IsChoice
<1>. QED  BY <1>3, <1>4, <1>5

LEMMA OwnerStep ==
  ASSUME DecisionIoInv, NEW d \in Decision, NEW o \in Offered, OwnerResolves(d, o)
  PROVE  Tables' /\ Belongs' /\ Learned'
<1>1. /\ UNCHANGED <<sources, events, observations, outcomes>> /\ Status(d) = "open"
      /\ decisions' = [decisions EXCEPT ![d].resolution = [option |-> o, event |-> None]]
      /\ evidence' = evidence \cup {[decision |-> d, option |-> o, event |-> None]}
  BY DEF OwnerResolves
<1>2. /\ decisions' \in [Decision -> DecisionRow \cup {None}]
      /\ evidence' \subseteq [decision : Decision, option : Offered, event : Report \cup {None}]
      /\ \A c \in Decision : decisions'[c] = None <=> decisions[c] = None
      /\ \A c \in Decision : decisions[c] # None => decisions'[c].event = decisions[c].event
      /\ \A c \in Decision : Status(c) = "resolved" => Status(c)' = "resolved"
      /\ LearnedOnce'
  BY <1>1, Resolved
<1>3. Tables'
  BY <1>1, <1>2 DEF DecisionIoInv, DecisionIoTables, Tables
<1>4. Belongs'
  <2>1. \A r \in Report : observations[r] # None /\ observations[r].decision # None =>
           observations[r].decision \in Decision
    BY NoneAssumption DEF DecisionIoInv, DecisionIoTables, Row, ChoiceRow, OutcomeRow
  <2>. QED  BY <1>1, <1>2, <2>1, ReportKinds DEF DecisionIoInv, DecisionIoTables, Belongs, About, IsChoice, IsResult, Lost
<1>5. Learned'
  BY <1>1, <1>2 DEF DecisionIoInv, Learned, LearnedOnce, IsChoice
<1>. QED  BY <1>3, <1>4, <1>5

LEMMA RestatedRows ==
  ASSUME DecisionIoInv, NEW p \in Proc, Confirm(p) \/ MarkConfirmed(p) \/ Reject(p)
  PROVE  Tables' /\ Belongs' /\ Learned'
<1>. DEFINE r == handlers[p].report
<1>1. /\ r \in Report /\ HandlerOK(handlers[p]) /\ UNCHANGED <<sources, events, outcomes>>
      /\ \/ observations' = observations
         \/ /\ observations[r] # None
            /\ \E status \in {"confirmed", "rejected"} :
                 /\ status = "confirmed" => observations[r].decision # None /\ ~Reject(p)
                 /\ observations' = [observations EXCEPT ![r] =
                      [observations[r] EXCEPT !.status = status, !.confirmed = (status = "confirmed")]]
  BY RestatedStep
<1>2. \A q \in Report : /\ observations'[q] = None <=> observations[q] = None
                        /\ observations[q] # None =>
                             /\ observations'[q].decision = observations[q].decision
                             /\ IsChoice(q) => observations'[q].option = observations[q].option
                             /\ q # r \/ Reject(p) => observations'[q] = observations[q] \/ observations'[q].status = "rejected"
  <2>1. CASE observations' = observations
    BY <2>1
  <2>2. CASE observations' # observations
    <3>1. PICK status \in {"confirmed", "rejected"} :
                 /\ status = "confirmed" => observations[r].decision # None /\ ~Reject(p)
                 /\ observations' = [observations EXCEPT ![r] =
                      [observations[r] EXCEPT !.status = status, !.confirmed = (status = "confirmed")]]
      BY <1>1, <2>2
    <3>2. PICK o : o = observations[r]
      OBVIOUS
    <3>3. PICK n : n = [o EXCEPT !.status = status, !.confirmed = (status = "confirmed")]
      OBVIOUS
    <3>4. /\ observations \in [Report -> Row \cup {None}] /\ o # None /\ o \in Row
          /\ IsChoice(r) => o \in ChoiceRow
      BY <1>1, <2>2, <3>2, ReportKinds DEF DecisionIoInv, DecisionIoTables, ObservationOK
    <3>5. /\ n \in Row /\ n # None /\ n.decision = o.decision /\ n.status = status
          /\ IsChoice(r) => n.option = o.option
      <4>1. status \in ObservationStatus
        BY DEF ObservationStatus
      <4>. HIDE DEF r
      <4>2. /\ n \in Row /\ n.decision = o.decision /\ n.status = status
            /\ o \in ChoiceRow => n.option = o.option
        <5>1. CASE o \in ChoiceRow
          BY <3>3, <4>1, <5>1 DEF Row, ChoiceRow, OutcomeRow
        <5>2. CASE o \in OutcomeRow
          BY <3>3, <4>1, <5>2 DEF Row, ChoiceRow, OutcomeRow
        <5>. QED  BY <3>4, <5>1, <5>2 DEF Row
      <4>. QED  BY <3>4, <4>2, NoneAssumption DEF Row
    <3>6. observations' = [observations EXCEPT ![r] = n]
      BY <3>1, <3>2, <3>3
    <3>. HIDE DEF r
    <3>. QED  BY <1>1, <3>1, <3>2, <3>4, <3>5, <3>6
  <2>. QED  BY <2>1, <2>2
<1>3. CASE ~Confirm(p)
  <2>1. UNCHANGED <<decisions, evidence>>
    BY <1>3 DEF MarkConfirmed, Reject
  <2>2. Belongs'
    <3>1. Belongs /\ events \subseteq Report
      BY DEF DecisionIoInv, DecisionIoTables
    <3>. QED  BY <1>1, <1>2, <2>1, <3>1 DEF Belongs, About, IsChoice, IsResult, Status, Lost
  <2>3. ASSUME NEW q \in Report, observations'[q] # None, observations'[q].status = "confirmed",
               observations'[q] # observations[q]
        PROVE  q.type = "wellbeing" /\ q.decision \in outcomes
    <3>1. q = r /\ ~Reject(p) /\ observations[q] # None
      BY <1>2, <2>3
    <3>. QED  BY <1>1, <1>3, <3>1 DEF MarkConfirmed, At, HandlerOK
  <2>4. Learned'
    BY <1>1, <2>1, <2>3, ReportKinds DEF DecisionIoInv, Learned, IsChoice, IsResult, ResolutionTypes
  <2>. QED  BY <1>1, <2>1, <2>2, <2>4 DEF DecisionIoInv, DecisionIoTables, Tables
<1>4. CASE Confirm(p)
  <2>. DEFINE d == handlers[p].seen.decision
              o == handlers[p].seen.option
  <2>1. /\ IsChoice(r) /\ Reviews(handlers[p]) /\ observations[r] # None /\ ApplyResolution(d, o, r)
    BY <1>1, <1>4 DEF Confirm, At, HandlerOK
  <2>2. /\ observations[r].decision = d /\ observations[r].option = o
        /\ d \in Decision /\ o \in Offered /\ Status(d) = "open"
        /\ decisions' = [decisions EXCEPT ![d].resolution = [option |-> o, event |-> r]]
        /\ evidence' = evidence \cup {[decision |-> d, option |-> o, event |-> r]}
    BY <2>1 DEF Reviews, ApplyResolution, Status
  <2>. HIDE DEF d, o, r
  <2>3. /\ decisions' \in [Decision -> DecisionRow \cup {None}]
        /\ evidence' \subseteq [decision : Decision, option : Offered, event : Report \cup {None}]
        /\ \A c \in Decision : decisions'[c] = None <=> decisions[c] = None
        /\ \A c \in Decision : decisions[c] # None => decisions'[c].event = decisions[c].event
        /\ \A c \in Decision : Status(c) = "resolved" => Status(c)' = "resolved"
        /\ LearnedOnce'
    BY <1>1, <2>2, Resolved
  <2>4. r \in events
    BY <1>1, <2>1 DEF DecisionIoInv, Belongs
  <2>5. Belongs'
    <3>1. \A q \in Report : observations[q] # None /\ observations[q].decision # None =>
             observations[q].decision \in Decision
      BY NoneAssumption DEF DecisionIoInv, DecisionIoTables, Row, ChoiceRow, OutcomeRow
    <3>2. outcomes \subseteq Decision /\ events \subseteq Report
      BY DEF DecisionIoInv, DecisionIoTables
    <3>. QED  BY <1>1, <1>2, <2>2, <2>3, <2>4, <3>1, <3>2, ReportKinds DEF DecisionIoInv, Belongs, About, IsChoice, IsResult, Lost
  <2>6. ASSUME NEW q \in Report, observations'[q] # None, observations'[q].status = "confirmed"
        PROVE  IF IsChoice(q)
               THEN [decision |-> observations'[q].decision, option |-> observations'[q].option, event |-> q] \in evidence'
               ELSE q.type = "wellbeing" => q.decision \in outcomes'
    <3>1. CASE q = r
      BY <1>2, <2>1, <2>2, <2>6, <3>1
    <3>2. CASE q # r
      <4>1. observations'[q] = observations[q]
        BY <1>2, <2>6, <3>2
      <4>. QED  BY <1>1, <2>2, <2>6, <4>1 DEF DecisionIoInv, Learned
    <3>. QED  BY <3>1, <3>2
  <2>7. Learned'
    BY <2>3, <2>6 DEF Learned, LearnedOnce, IsChoice
  <2>. QED  BY <1>1, <2>3, <2>5, <2>7 DEF DecisionIoInv, DecisionIoTables, Tables
<1>. QED  BY <1>3, <1>4

\* A report of a decision: nothing was learned of it yet, or its source would
\* have been removed.
LEMMA CandidateStored ==
  ASSUME DecisionIoInv, NEW r \in Report, r.type = "decision_candidate",
         r \notin events, sources[r.source] = "live", decisions[About(r)] = None,
         \A e \in events : ~(e.source = r.source /\ e.id = r.id),
         events' = events \cup {r}, UNCHANGED <<sources, evidence, outcomes>>,
         decisions' = [decisions EXCEPT ![About(r)] = [event |-> r, resolution |-> None]],
         observations' = AttachUnmatched(observations, About(r))
  PROVE  Tables' /\ Belongs' /\ Learned'
<1>. DEFINE d == About(r)
            row == [event |-> r, resolution |-> None]
<1>1. d \in Decision /\ d[1] = r.source
  BY ReportKinds
<1>2. row \in DecisionRow /\ row # None /\ row.event = r
  BY NoneAssumption DEF DecisionRow
<1>3. /\ \A q \in Report : observations[q] = None <=> observations'[q] = None
      /\ \A q \in Report : observations[q] # None =>
              \/ observations'[q] = observations[q]
              \/ observations'[q].status = "pending" /\ observations'[q].decision = d
  BY <1>1, ObservationAttached
<1>4. decisions'[d] = row /\ \A c \in Decision \ {d} : decisions'[c] = decisions[c]
  BY <1>1 DEF DecisionIoInv, DecisionIoTables
<1>5. Tables'
  BY <1>1, <1>2 DEF DecisionIoInv, DecisionIoTables, Tables
<1>6. Belongs /\ events \subseteq Report /\ outcomes \subseteq Decision /\ decisions[d] = None
  BY DEF DecisionIoInv, DecisionIoTables
<1>. HIDE DEF row, d
<1>7. Belongs'
  <2>1. \A q \in events' : sources'[q.source] = "live"
    BY <1>6 DEF Belongs
  <2>2. \A q, e \in events' : q.source = e.source /\ q.id = e.id => q = e
    BY <1>6 DEF Belongs
  <2>3. \A q \in events' : q.type = "decision_candidate" =>
          decisions'[About(q)] # None /\ decisions'[About(q)].event = q
    BY <1>2, <1>4, <1>6, ReportKinds DEF Belongs, d
  <2>4. \A c \in Decision : decisions'[c] # None =>
          decisions'[c].event \in events' /\ About(decisions'[c].event) = c /\ decisions'[c].event.type = "decision_candidate"
    BY <1>2, <1>4, <1>6 DEF Belongs, d
  <2>5. \A q \in Report : observations'[q] # None =>
          q \in events' /\ (observations'[q].decision # None => decisions'[observations'[q].decision] # None)
    <3>1. \A q \in Report : observations[q] # None /\ observations[q].decision # None =>
             observations[q].decision \in Decision
      BY NoneAssumption DEF DecisionIoInv, DecisionIoTables, Row, ChoiceRow, OutcomeRow
    <3>. QED  BY <1>2, <1>3, <1>4, <1>6, <3>1 DEF Belongs
  <2>6. \A q \in events' : (IsChoice(q) \/ IsResult(q)) /\ observations'[q] = None => Lost(q)'
    BY <1>3, <1>6, ReportKinds DEF Belongs, Lost
  <2>7. \A e \in outcomes' : Status(e)' = "resolved"
    BY <1>4, <1>6 DEF Belongs, Status
  <2>. QED  BY <1>6, <2>1, <2>2, <2>3, <2>4, <2>5, <2>6, <2>7 DEF Belongs, About, IsChoice, IsResult
<1>8. Learned'
  <2>1. LearnedOnce'
    <3>1. LearnedOnce /\ \A e \in evidence : e.decision \in Decision
      BY DEF DecisionIoInv, DecisionIoTables, Learned, LearnedOnce
    <3>2. \A e \in evidence : e.decision # d
      BY <1>1, <1>6, <3>1 DEF LearnedOnce
    <3>. QED  BY <1>4, <3>1, <3>2 DEF LearnedOnce
  <2>. QED  BY <1>3, <2>1 DEF DecisionIoInv, Learned, LearnedOnce, IsChoice
<1>. QED  BY <1>5, <1>7, <1>8

\* A report of a choice or of a result.
LEMMA ObservedStored ==
  ASSUME DecisionIoInv, NEW r \in Report, IsChoice(r) \/ IsResult(r),
         r \notin events, sources[r.source] = "live", ~Lost(r), observations[r] = None,
         \A e \in events : ~(e.source = r.source /\ e.id = r.id),
         events' = events \cup {r}, UNCHANGED <<sources, outcomes>>,
         NEW found \in {"none", "open", "resolved"},
         found # "none" => About(r) \in Decision /\ decisions[About(r)] # None,
         r.type = "wellbeing" => found = "resolved",
         NEW n, observations' = [observations EXCEPT ![r] = n],
         \/ IsChoice(r) /\ n = ResolutionObservation(r, found)
         \/ IsResult(r) /\ n = OutcomeObservation(r, found),
         IF IsChoice(r) /\ Promoted(r, found) THEN ApplyResolution(About(r), r.option, r)
                                              ELSE UNCHANGED <<decisions, evidence>>
  PROVE  Tables' /\ Belongs' /\ Learned'
<1>. DEFINE d == About(r)
            promoted == IsChoice(r) /\ Promoted(r, found)
<1>1. n \in Row /\ n # None
  BY ObservationStored, NoneAssumption DEF Row
<1>2. /\ n.decision = (IF found = "none" THEN None ELSE d)
      /\ n.status = "confirmed" => promoted /\ n.decision = d /\ n.option = r.option
  <2>1. CASE IsChoice(r)
    <3>1. n = ResolutionObservation(r, found)
      BY <2>1, ReportKinds
    <3>2. /\ n.decision = (IF found = "none" THEN None ELSE About(r))
          /\ n.status = (IF Promoted(r, found) THEN "confirmed"
                         ELSE IF found # "none" THEN "pending" ELSE "unmatched")
          /\ Promoted(r, found) => n.option = r.option
      BY <2>1, <3>1, ChoiceObserved
    <3>3. Promoted(r, found) => found = "open"
      BY DEF Promoted
    <3>. QED  BY <2>1, <3>2, <3>3
  <2>2. CASE IsResult(r)
    <3>1. n = OutcomeObservation(r, found)
      BY <2>2, ReportKinds
    <3>. QED  BY <2>2, <3>1, OutcomeObserved
  <2>. QED  BY <2>1, <2>2
<1>3. observations'[r] = n /\ \A q \in Report \ {r} : observations'[q] = observations[q]
  BY DEF DecisionIoInv, DecisionIoTables
<1>4. /\ decisions' \in [Decision -> DecisionRow \cup {None}]
      /\ evidence' \subseteq [decision : Decision, option : Offered, event : Report \cup {None}]
      /\ \A c \in Decision : decisions'[c] = None <=> decisions[c] = None
      /\ \A c \in Decision : decisions[c] # None => decisions'[c].event = decisions[c].event
      /\ \A c \in Decision : Status(c) = "resolved" => Status(c)' = "resolved"
      /\ LearnedOnce'
      /\ evidence \subseteq evidence' /\ \A e \in evidence' \ evidence : e.event = r
      /\ promoted => [decision |-> d, option |-> r.option, event |-> r] \in evidence'
  <2>1. CASE promoted
    <3>1. /\ Status(d) = "open" /\ d \in Decision /\ r.option \in Offered
          /\ decisions' = [decisions EXCEPT ![d].resolution = [option |-> r.option, event |-> r]]
          /\ evidence' = evidence \cup {[decision |-> d, option |-> r.option, event |-> r]}
      BY <2>1 DEF ApplyResolution, Status
    <3>2. r.option \in Offered /\ r \in Report \cup {None}
      BY <3>1
    <3>. HIDE DEF d, promoted
    <3>3. /\ decisions' \in [Decision -> DecisionRow \cup {None}]
          /\ evidence' \subseteq [decision : Decision, option : Offered, event : Report \cup {None}]
          /\ \A c \in Decision : decisions'[c] = None <=> decisions[c] = None
          /\ \A c \in Decision : decisions[c] # None => decisions'[c].event = decisions[c].event
          /\ \A c \in Decision : Status(c) = "resolved" => Status(c)' = "resolved"
          /\ LearnedOnce'
      BY <3>1, <3>2, Resolved
    <3>4. /\ evidence \subseteq evidence' /\ \A e \in evidence' \ evidence : e.event = r
          /\ [decision |-> d, option |-> r.option, event |-> r] \in evidence'
      BY <3>1
    <3>. QED  BY <3>3, <3>4
  <2>2. CASE ~promoted
    <3>1. UNCHANGED <<decisions, evidence>>
      BY <2>2
    <3>. QED  BY <2>2, <3>1 DEF DecisionIoInv, DecisionIoTables, Learned, LearnedOnce, Status
  <2>. QED  BY <2>1, <2>2
<1>5. Tables'
  BY <1>4 DEF DecisionIoInv, DecisionIoTables, Tables
<1>6. /\ Belongs /\ events \subseteq Report /\ outcomes \subseteq Decision
      /\ r.type # "decision_candidate"
  BY ReportKinds DEF DecisionIoInv, DecisionIoTables
<1>. HIDE DEF d, promoted
<1>7. Belongs'
  <2>1. \A q \in events' : sources'[q.source] = "live"
    BY <1>6 DEF Belongs
  <2>2. \A q, e \in events' : q.source = e.source /\ q.id = e.id => q = e
    BY <1>6 DEF Belongs
  <2>3. \A q \in events' : q.type = "decision_candidate" =>
          decisions'[About(q)] # None /\ decisions'[About(q)].event = q
    BY <1>4, <1>6, ReportKinds DEF Belongs
  <2>4. \A c \in Decision : decisions'[c] # None =>
          decisions'[c].event \in events' /\ About(decisions'[c].event) = c /\ decisions'[c].event.type = "decision_candidate"
    BY <1>4, <1>6 DEF Belongs
  <2>5. \A q \in Report : observations'[q] # None =>
          q \in events' /\ (observations'[q].decision # None => decisions'[observations'[q].decision] # None)
    <3>1. \A q \in Report : observations[q] # None /\ observations[q].decision # None =>
             observations[q].decision \in Decision
      BY NoneAssumption DEF DecisionIoInv, DecisionIoTables, Row, ChoiceRow, OutcomeRow
    <3>. QED  BY <1>2, <1>3, <1>4, <1>6, <3>1 DEF Belongs, d
  <2>6. \A q \in events' : (IsChoice(q) \/ IsResult(q)) /\ observations'[q] = None => Lost(q)'
    BY <1>1, <1>3, <1>6 DEF Belongs, Lost
  <2>7. \A e \in evidence' : e.event # None => e.event \in events'
    BY <1>4, <1>6 DEF Belongs
  <2>8. \A e \in outcomes' : Status(e)' = "resolved"
    BY <1>4, <1>6 DEF Belongs
  <2>. QED  BY <2>1, <2>2, <2>3, <2>4, <2>5, <2>6, <2>7, <2>8 DEF Belongs, About, IsChoice, IsResult
<1>8. Learned'
  <2>1. ASSUME NEW q \in Report, observations'[q] # None, observations'[q].status = "confirmed"
        PROVE  IF IsChoice(q)
               THEN [decision |-> observations'[q].decision, option |-> observations'[q].option, event |-> q] \in evidence'
               ELSE q.type = "wellbeing" => q.decision \in outcomes'
    <3>1. CASE q = r
      BY <1>2, <1>3, <1>4, <2>1, <3>1 DEF promoted
    <3>2. CASE q # r
      BY <1>3, <1>4, <2>1, <3>2 DEF DecisionIoInv, Learned
    <3>. QED  BY <3>1, <3>2
  <2>. QED  BY <1>4, <2>1 DEF Learned, LearnedOnce, IsChoice
<1>. QED  BY <1>5, <1>7, <1>8

LEMMA IngestRows ==
  ASSUME DecisionIoInv, NEW p \in Proc, Ingest(p)
  PROVE  Tables' /\ Belongs' /\ Learned'
<1>. DEFINE r == handlers[p].report
            found == handlers[p].found
<1>1. /\ r \in Report /\ found \in {"none", "open", "resolved"}
      /\ r \notin events /\ sources[r.source] = "live" /\ ~Lost(r)
      /\ events' = events \cup {r} /\ UNCHANGED <<sources, outcomes>>
      /\ \A e \in events : ~(e.source = r.source /\ e.id = r.id)
      /\ observations[r] = None
      /\ (IsChoice(r) \/ IsResult(r)) /\ found # "none" => About(r) \in Decision /\ decisions[About(r)] # None
      /\ r.type = "wellbeing" => found = "resolved"
      /\ r.type = "decision_candidate" => decisions[About(r)] = None
  BY IngestStarts DEF Handler
<1>2. \/ /\ IsChoice(r)
         /\ observations' = [observations EXCEPT ![r] = ResolutionObservation(r, found)]
         /\ IF Promoted(r, found) THEN ApplyResolution(About(r), r.option, r)
                                  ELSE UNCHANGED <<decisions, evidence>>
      \/ /\ IsResult(r)
         /\ observations' = [observations EXCEPT ![r] = OutcomeObservation(r, found)]
         /\ UNCHANGED <<decisions, evidence>>
      \/ /\ r.type = "decision_candidate"
         /\ decisions' = [decisions EXCEPT ![About(r)] = [event |-> r, resolution |-> None]]
         /\ observations' = AttachUnmatched(observations, About(r))
         /\ UNCHANGED evidence
      \/ /\ ~IsChoice(r) /\ ~IsResult(r) /\ r.type # "decision_candidate"
         /\ UNCHANGED <<decisions, observations, evidence>>
  BY DEF Ingest
<1>. HIDE DEF r, found
<1>3. CASE /\ IsChoice(r) \/ IsResult(r)
           /\ \E n : /\ observations' = [observations EXCEPT ![r] = n]
                     /\ \/ IsChoice(r) /\ n = ResolutionObservation(r, found)
                        \/ IsResult(r) /\ n = OutcomeObservation(r, found)
           /\ IF IsChoice(r) /\ Promoted(r, found) THEN ApplyResolution(About(r), r.option, r)
                                                   ELSE UNCHANGED <<decisions, evidence>>
  <2>1. PICK n : /\ observations' = [observations EXCEPT ![r] = n]
                 /\ \/ IsChoice(r) /\ n = ResolutionObservation(r, found)
                    \/ IsResult(r) /\ n = OutcomeObservation(r, found)
    BY <1>3
  <2>. QED  BY <1>1, <1>3, <2>1, ObservedStored
<1>4. CASE /\ r.type = "decision_candidate"
           /\ decisions' = [decisions EXCEPT ![About(r)] = [event |-> r, resolution |-> None]]
           /\ observations' = AttachUnmatched(observations, About(r))
           /\ UNCHANGED evidence
  BY <1>1, <1>4, CandidateStored
<1>5. CASE /\ ~IsChoice(r) /\ ~IsResult(r) /\ r.type # "decision_candidate"
           /\ UNCHANGED <<decisions, observations, evidence>>
  <2>1. Tables'
    BY <1>1, <1>5 DEF DecisionIoInv, DecisionIoTables, Tables
  <2>2. Belongs'
    BY <1>1, <1>5 DEF DecisionIoInv, Belongs, About, IsChoice, IsResult, Lost, Status
  <2>3. Learned'
    BY <1>1, <1>5 DEF DecisionIoInv, Learned, IsChoice
  <2>. QED  BY <2>1, <2>2, <2>3
<1>6. IsChoice(r) => ~IsResult(r)
  BY <1>1, ReportKinds
<1>. QED  BY <1>2, <1>3, <1>4, <1>5, <1>6

\* What is of a source goes with it, and what is of another stays whole.
LEMMA RemovedRows ==
  ASSUME DecisionIoInv, NEW s \in Source, RemoveSource(s)
  PROVE  Tables' /\ Belongs' /\ Learned'
<1>1. /\ sources' = [sources EXCEPT ![s] = "gone"]
      /\ events' = {r \in events : r.source # s}
      /\ \A d \in Decision : decisions'[d] = IF d[1] = s THEN None ELSE decisions[d]
      /\ evidence' = {e \in evidence : ~Reported(e, s)}
      /\ outcomes' = {d \in outcomes : d[1] # s}
  BY DEF RemoveSource
<1>2. /\ \A q \in Report : observations'[q] \in {None, observations[q]}
      /\ \A q \in Report : Kept(q)
  BY ObservationsRemoved
<1>3. DecisionIoTables /\ Belongs /\ Learned
  BY DEF DecisionIoInv
<1>4. \A t \in Source : sources'[t] = IF t = s THEN "gone" ELSE sources[t]
  BY <1>1, <1>3 DEF DecisionIoTables
<1>5. Tables'
  <2>1. decisions' \in [Decision -> DecisionRow \cup {None}]
    <3>1. decisions' = [d \in Decision |-> IF d[1] = s THEN None ELSE decisions[d]]
      BY DEF RemoveSource
    <3>. QED  BY <1>3, <3>1 DEF DecisionIoTables
  <2>. QED  BY <1>1, <1>3, <2>1 DEF DecisionIoTables, Tables
<1>6. \A d \in Decision : decisions[d] # None => decisions[d].event.source = d[1]
  BY DecisionLives
<1>7. \A q \in Report : observations'[q] # None =>
        /\ observations'[q] = observations[q] /\ q.source # s
        /\ observations[q].decision # None => observations[q].decision \in Decision /\ observations[q].decision[1] # s
  <2>1. ASSUME NEW q \in Report, observations'[q] # None
        PROVE  /\ observations'[q] = observations[q] /\ q.source # s
               /\ observations[q].decision # None => observations[q].decision \in Decision /\ observations[q].decision[1] # s
    <3>1. observations'[q] = observations[q] /\ q.source # s
             /\ ~(observations[q].decision # None /\ observations[q].decision[1] = s)
      BY <2>1 DEF RemoveSource
    <3>2. observations[q] \in Row
      BY <1>3, <2>1, <3>1 DEF DecisionIoTables
    <3>. QED  BY <3>1, <3>2 DEF Row, ChoiceRow, OutcomeRow
  <2>. QED  BY <2>1
<1>8. Belongs'
  <2>1. \A q \in events' : sources'[q.source] = "live"
    BY <1>1, <1>3, <1>4, ReportKinds DEF Belongs, DecisionIoTables
  <2>2. \A q, e \in events' : q.source = e.source /\ q.id = e.id => q = e
    BY <1>1, <1>3 DEF Belongs
  <2>3. \A q \in events' : q.type = "decision_candidate" =>
          decisions'[About(q)] # None /\ decisions'[About(q)].event = q
    BY <1>1, <1>3, ReportKinds DEF Belongs, DecisionIoTables
  <2>4. \A c \in Decision : decisions'[c] # None =>
          decisions'[c].event \in events' /\ About(decisions'[c].event) = c /\ decisions'[c].event.type = "decision_candidate"
    BY <1>1, <1>3, <1>6 DEF Belongs
  <2>5. \A q \in Report : observations'[q] # None =>
          q \in events' /\ (observations'[q].decision # None => decisions'[observations'[q].decision] # None)
    BY <1>1, <1>3, <1>7 DEF Belongs
  <2>6. \A q \in events' : (IsChoice(q) \/ IsResult(q)) /\ observations'[q] = None => Lost(q)'
    BY <1>1, <1>2, <1>3 DEF Belongs, DecisionIoTables, Kept
  <2>7. \A e \in evidence' : e.event # None => e.event \in events'
    BY <1>1, <1>3 DEF Belongs, Reported
  <2>8. \A e \in outcomes' : Status(e)' = "resolved"
    BY <1>1, <1>3 DEF Belongs, Status, DecisionIoTables
  <2>. QED  BY <2>1, <2>2, <2>3, <2>4, <2>5, <2>6, <2>7, <2>8 DEF Belongs, About, IsChoice, IsResult
<1>9. Learned'
  <2>1. ASSUME NEW e \in evidence'
        PROVE  IF decisions'[e.decision] = None THEN sources'[e.decision[1]] = "gone"
               ELSE decisions'[e.decision].resolution = [option |-> e.option, event |-> e.event]
    <3>1. e \in evidence /\ e.decision \in Decision /\ e.decision[1] \in Source
      BY <1>1, <1>3, <2>1, PairsAre DEF DecisionIoTables
    <3>. QED  BY <1>1, <1>3, <1>4, <3>1 DEF Learned
  <2>2. ASSUME NEW q \in Report, observations'[q] # None, observations'[q].status = "confirmed"
        PROVE  IF IsChoice(q)
               THEN [decision |-> observations'[q].decision, option |-> observations'[q].option, event |-> q] \in evidence'
               ELSE q.type = "wellbeing" => q.decision \in outcomes'
    <3>1. CASE IsChoice(q)
      BY <1>1, <1>3, <1>7, <2>2, <3>1 DEF Learned, Reported
    <3>2. CASE ~IsChoice(q) /\ q.type = "wellbeing"
      <4>1. observations[q].decision = q.decision /\ observations[q].decision # None
        BY <1>7, <2>2, <3>2, ReportKinds DEF DecisionIoInv, ObservationOK
      <4>. QED  BY <1>1, <1>3, <1>7, <2>2, <3>2, <4>1 DEF Learned
    <3>. QED  BY <3>1, <3>2
  <2>. QED  BY <2>1, <2>2 DEF Learned, IsChoice
<1>. QED  BY <1>5, <1>8, <1>9

-----------------------------------------------------------------------------
LEMMA DecisionIoStarts == Init => DecisionIoInv
<1>. SUFFICES ASSUME Init PROVE DecisionIoInv
  OBVIOUS
<1>1. DecisionIoTables
  BY DEF Init, DecisionIoTables
<1>2. \A r \in Report : ObservationOK(r)
  BY DEF Init, ObservationOK
<1>3. Belongs
  BY DEF Init, Belongs
<1>4. Learned
  BY DEF Init, Learned
<1>. QED  BY <1>1, <1>2, <1>3, <1>4 DEF Init, DecisionIoInv

LEMMA DecisionIoStep == DecisionIoInv /\ [Next]_vars => DecisionIoInv'
<1>. SUFFICES ASSUME DecisionIoInv, [Next]_vars PROVE DecisionIoInv'
  OBVIOUS
<1>1. Tables' /\ Belongs' /\ Learned'
  <2>1. CASE \/ UNCHANGED vars
             \/ \E s \in Source : RegisterSource(s)
             \/ \E p \in Proc : Reads(p) \/ \E r \in Report : BeginWellbeing(p, r)
    <3>1. UNCHANGED <<events, decisions, observations, evidence, outcomes>>
      BY <2>1, ReadsKeepTables DEF vars, tables, RegisterSource, BeginWellbeing
    <3>2. /\ sources' \in [Source -> {"new", "live", "gone"}]
          /\ \A s \in Source : /\ sources'[s] = "gone" <=> sources[s] = "gone"
                               /\ sources[s] = "live" => sources'[s] = "live"
      BY <2>1, ReadsKeepTables DEF vars, tables, RegisterSource, BeginWellbeing, DecisionIoInv, DecisionIoTables
    <3>. QED  BY <3>1, <3>2, SourcesStep
  <2>. QED  BY <2>1, OutcomeRecorded, OwnerStep, RestatedRows, IngestRows, RemovedRows DEF Next, Reads
<1>. QED  BY <1>1, ObservationsStep, HandlersStep DEF DecisionIoInv, DecisionIoTables, Tables

LEMMA DecisionIoHolds == Spec => []DecisionIoInv
  BY DecisionIoStarts, DecisionIoStep, PTL DEF Spec

\* Rows are of their tables, readable, and refer to rows that exist.
THEOREM RowsAreReadable == Spec => []TypeOK
<1>1. DecisionIoInv => TypeOK
  <2>. SUFFICES ASSUME DecisionIoInv PROVE TypeOK
    OBVIOUS
  <2>1. ASSUME NEW r \in Report, observations[r] # None
        PROVE  IF IsChoice(r) THEN ReadableChoice(observations[r]) /\ AcceptedChoice(observations[r])
               ELSE ReadableOutcome(observations[r]) /\ AcceptedOutcome(observations[r])
    BY <2>1, ReportKinds DEF DecisionIoInv, ObservationOK
  <2>. QED  BY <2>1 DEF DecisionIoInv, DecisionIoTables, Belongs, TypeOK, Row
<1>. QED  BY <1>1, DecisionIoHolds, PTL

\* Of a report everything is stored or nothing, and of a removed source nothing:
\* for any handlers, sources and reports, racing, repeated and failing.
THEOREM StoredWhole == Spec => []WholeOrNothing
<1>1. DecisionIoInv => WholeOrNothing
  <2>. SUFFICES ASSUME DecisionIoInv PROVE WholeOrNothing
    OBVIOUS
  <2>1. ASSUME NEW r \in events
        PROVE  /\ IsChoice(r) => observations[r] # None
               /\ IsResult(r) => observations[r] # None \/ Status(About(r)) = "none"
    <3>1. r \in Report /\ sources[r.source] = "live"
      BY DEF DecisionIoInv, DecisionIoTables, Belongs
    <3>2. CASE Lost(r)
      <4>1. r.type = "wellbeing" /\ sources[About(r)[1]] = "gone" /\ About(r) \in Decision
        BY <3>1, <3>2, ReportKinds DEF Lost
      <4>2. decisions[About(r)] = None
        BY <4>1, DecisionLives
      <4>. QED  BY <3>1, <4>1, <4>2, ReportKinds DEF Status
    <3>. QED  BY <3>2 DEF DecisionIoInv, Belongs
  <2>. QED  BY <2>1 DEF DecisionIoInv, Belongs, WholeOrNothing
<1>. QED  BY <1>1, DecisionIoHolds, PTL

\* What is learned of a decision is its one resolution, and a confirmed choice is
\* that resolution, however promotion, confirmation and the owner race.
THEOREM LearnedAtMostOnce == Spec => []ChoiceIsLearnedOnce
<1>1. DecisionIoInv => ChoiceIsLearnedOnce
  <2>. SUFFICES ASSUME DecisionIoInv PROVE ChoiceIsLearnedOnce
    OBVIOUS
  <2>1. ASSUME NEW r \in events, IsChoice(r) PROVE r \in Report /\ observations[r] # None
    <3>1. r \in Report /\ sources[r.source] = "live" /\ r.type # "wellbeing"
      BY <2>1, ReportKinds DEF DecisionIoInv, DecisionIoTables, Belongs
    <3>. QED  BY <2>1, <3>1 DEF DecisionIoInv, Belongs, Lost
  <2>. QED  BY <2>1 DEF DecisionIoInv, Learned, ChoiceIsLearnedOnce
<1>. QED  BY <1>1, DecisionIoHolds, PTL

\* An observation is of the decision that its own source reported, also when it
\* came before it.
THEOREM AboutItsOwnDecision == Spec => []NeverUnrelated
<1>1. DecisionIoInv => NeverUnrelated
  BY ReportKinds DEF DecisionIoInv, ObservationOK, NeverUnrelated
<1>. QED  BY <1>1, DecisionIoHolds, PTL

\* A report of wellbeing is marked confirmed only after the owner's outcome is
\* stored, whatever is removed, rejected or confirmed meanwhile.
THEOREM WellbeingIsTheOwners == Spec => []ConfirmedWellbeingIsTheOwners
<1>1. DecisionIoInv => ConfirmedWellbeingIsTheOwners
  BY ReportKinds DEF DecisionIoInv, Learned, ConfirmedWellbeingIsTheOwners
<1>. QED  BY <1>1, DecisionIoHolds, PTL

\* Evidence comes of the owner: of a choice in the app, of a confirmation, or of
\* a choice that a source may report as the owner's.
THEOREM LearnedOfTheOwner == Spec => OnlyTheOwnerIsLearned
<1>. DEFINE Owned ==
       \A e \in evidence' \ evidence :
         \/ e.event = None
         \/ \E p \in Proc : At(p, "confirm") /\ handlers[p].report = e.event
         \/ /\ e.event.actor = "owner"
            /\ EventDataClass(e.event.type) \in Grant[e.event.source].classes
            /\ Grant[e.event.source].scope # "agent_only"
<1>1. DecisionIoInv /\ [Next]_vars => [Owned]_vars
  <2>. SUFFICES ASSUME DecisionIoInv, Next PROVE Owned
    BY DEF vars
  <2>1. ASSUME NEW d \in Decision, NEW o \in Offered, OwnerResolves(d, o) PROVE Owned
    BY <2>1 DEF OwnerResolves
  <2>2. ASSUME NEW p \in Proc, Confirm(p) PROVE Owned
    BY <2>2 DEF Confirm, ApplyResolution
  <2>3. ASSUME NEW p \in Proc, Ingest(p) PROVE Owned
    <3>. DEFINE r == handlers[p].report
                found == handlers[p].found
    <3>1. /\ r.type # "wellbeing" => AllowsActor(Grant[r.source], r.actor)
          /\ r.type = "wellbeing" => ~IsChoice(r)
      BY <2>3, IngestStarts, ReportKinds
    <3>2. CASE IsChoice(r) /\ Promoted(r, found) /\ ApplyResolution(About(r), r.option, r)
      <4>1. /\ r.actor = "owner" /\ EventDataClass(r.type) \in Grant[r.source].classes
            /\ Grant[r.source].scope # "agent_only"
        BY <3>1, <3>2 DEF Promoted, MayPromoteResolution, Eligibility, AllowsActor
      <4>. QED  BY <3>2, <4>1 DEF ApplyResolution
    <3>3. CASE evidence' = evidence
      BY <3>3
    <3>. QED  BY <2>3, <3>2, <3>3 DEF Ingest
  <2>4. ASSUME NEW s \in Source, RemoveSource(s) PROVE Owned
    BY <2>4 DEF RemoveSource
  <2>5. ASSUME NEW s \in Source, RegisterSource(s) PROVE Owned
    BY <2>5 DEF RegisterSource
  <2>6. ASSUME NEW p \in Proc,
               \/ Reads(p) \/ RecordOutcome(p) \/ MarkConfirmed(p) \/ Reject(p)
               \/ \E r \in Report : BeginWellbeing(p, r)
        PROVE  Owned
    <3>1. evidence' = evidence
      BY <2>6, ReadsKeepTables DEF RecordOutcome, MarkConfirmed, Reject, BeginWellbeing
    <3>. QED  BY <3>1
  <2>. QED  BY <2>1, <2>2, <2>3, <2>4, <2>5, <2>6 DEF Next, Reads
<1>. QED  BY <1>1, DecisionIoHolds, PTL DEF Spec, OnlyTheOwnerIsLearned

-----------------------------------------------------------------------------
(* ADR-014's lifecycle, step by step. *)

\* What is resolved is learned, of a choice about it or of the owner.
Resolutions ==
  /\ \A d \in Decision : Status(d) = "resolved" => \E e \in evidence : e.decision = d
  /\ \A e \in evidence : e.event # None => IsChoice(e.event) /\ About(e.event) = e.decision

LEMMA ChosenIsLearned ==
  ASSUME DecisionIoInv, Resolutions, NEW d \in Decision, Status(d) = "open",
         NEW o \in Offered, NEW q \in Report \cup {None},
         q # None => IsChoice(q) /\ About(q) = d,
         decisions' = [decisions EXCEPT ![d].resolution = [option |-> o, event |-> q]],
         evidence' = evidence \cup {[decision |-> d, option |-> o, event |-> q]}
  PROVE  Resolutions'
<1>1. ASSUME NEW c \in Decision, c # d PROVE Status(c)' = Status(c)
  BY <1>1 DEF DecisionIoInv, DecisionIoTables, Status
<1>2. \E e \in evidence' : e.decision = d
  <2>1. [decision |-> d, option |-> o, event |-> q] \in evidence'
    OBVIOUS
  <2>. QED  BY <2>1
<1>3. \A e \in evidence' : e.event # None => IsChoice(e.event) /\ About(e.event) = e.decision
  BY DEF Resolutions
<1>. QED  BY <1>1, <1>2, <1>3 DEF Resolutions, IsChoice, About

\* The promotion of a report's choice, and a confirmation, resolve a decision
\* that the report is about.
LEMMA ApplyResolves ==
  ASSUME DecisionIoInv, NEW p \in Proc,
         \/ Confirm(p)
         \/ Ingest(p) /\ IsChoice(handlers[p].report) /\ Promoted(handlers[p].report, handlers[p].found)
  PROVE  LET r == handlers[p].report
         IN  /\ r \in Report /\ IsChoice(r) /\ Status(About(r)) = "open" /\ About(r) \in Decision
             /\ \E o \in Offered :
                  /\ decisions' = [decisions EXCEPT ![About(r)].resolution = [option |-> o, event |-> r]]
                  /\ evidence' = evidence \cup {[decision |-> About(r), option |-> o, event |-> r]}
<1>. DEFINE r == handlers[p].report
<1>1. handlers[p] \in Handler /\ HandlerOK(handlers[p]) /\ r \in Report
  BY DEF Confirm, Ingest, At, DecisionIoInv, DecisionIoTables, Handler
<1>2. CASE Confirm(p)
  <2>1. /\ IsChoice(r) /\ handlers[p].seen.decision = About(r)
        /\ ApplyResolution(About(r), handlers[p].seen.option, r)
    BY <1>1, <1>2 DEF Confirm, At, HandlerOK, Reviews
  <2>. QED  BY <1>1, <2>1 DEF ApplyResolution, Status
<1>3. CASE Ingest(p) /\ IsChoice(r) /\ Promoted(r, handlers[p].found)
  <2>1. r.type # "decision_candidate" /\ ~IsResult(r)
    BY <1>1, <1>3, ReportKinds
  <2>2. ApplyResolution(About(r), r.option, r)
    BY <1>3, <2>1 DEF Ingest
  <2>. QED  BY <1>1, <1>3, <2>2 DEF ApplyResolution, Status
<1>. QED  BY <1>2, <1>3

LEMMA ResolutionsStep ==
  ASSUME DecisionIoInv, Resolutions, [Next]_vars
  PROVE  Resolutions'
<1>1. ASSUME UNCHANGED <<decisions, evidence>> PROVE Resolutions'
  BY <1>1 DEF Resolutions, Status, IsChoice, About
<1>2. ASSUME NEW d \in Decision, NEW o \in Offered, OwnerResolves(d, o) PROVE Resolutions'
  BY <1>2, ChosenIsLearned DEF OwnerResolves
<1>3. ASSUME NEW p \in Proc,
             \/ Confirm(p)
             \/ Ingest(p) /\ IsChoice(handlers[p].report) /\ Promoted(handlers[p].report, handlers[p].found)
      PROVE  Resolutions'
  <2>. DEFINE r == handlers[p].report
  <2>1. /\ r \in Report /\ IsChoice(r) /\ Status(About(r)) = "open" /\ About(r) \in Decision
        /\ \E o \in Offered :
             /\ decisions' = [decisions EXCEPT ![About(r)].resolution = [option |-> o, event |-> r]]
             /\ evidence' = evidence \cup {[decision |-> About(r), option |-> o, event |-> r]}
    BY <1>3, ApplyResolves
  <2>. HIDE DEF r
  <2>. QED  BY <2>1, ChosenIsLearned
<1>4. ASSUME NEW p \in Proc, Ingest(p), handlers[p].report.type = "decision_candidate" PROVE Resolutions'
  <2>. DEFINE r == handlers[p].report
  <2>1. r \in Report /\ ~IsChoice(r) /\ ~IsResult(r) /\ About(r) \in Decision /\ decisions[About(r)] = None
    BY <1>4, IngestStarts, ReportKinds DEF IsResult, OutcomeTypes
  <2>2. /\ decisions' = [decisions EXCEPT ![About(r)] = [event |-> r, resolution |-> None]]
        /\ evidence' = evidence
    BY <1>4, <2>1 DEF Ingest
  <2>3. \A d \in Decision : Status(d)' = "resolved" => Status(d) = "resolved"
    BY <2>1, <2>2 DEF DecisionIoInv, DecisionIoTables, Status
  <2>. QED  BY <2>2, <2>3 DEF Resolutions, IsChoice, About
<1>5. ASSUME NEW s \in Source, RemoveSource(s) PROVE Resolutions'
  <2>1. /\ \A d \in Decision : decisions'[d] = IF d[1] = s THEN None ELSE decisions[d]
        /\ evidence' = {e \in evidence : ~Reported(e, s)}
    BY <1>5 DEF RemoveSource
  <2>2. ASSUME NEW d \in Decision, Status(d)' = "resolved" PROVE \E e \in evidence' : e.decision = d
    <3>1. d[1] # s /\ Status(d) = "resolved"
      BY <2>1, <2>2 DEF Status
    <3>2. PICK e \in evidence : e.decision = d
      BY <3>1 DEF Resolutions
    <3>3. e.event # None => e.event \in Report /\ e.event.source = d[1]
      BY <3>2, ReportKinds DEF Resolutions, DecisionIoInv, DecisionIoTables
    <3>. QED  BY <2>1, <3>1, <3>2, <3>3 DEF Reported
  <2>. QED  BY <2>1, <2>2 DEF Resolutions, IsChoice, About
<1>6. ASSUME NEW p \in Proc, Ingest(p), handlers[p].report.type # "decision_candidate",
             ~(IsChoice(handlers[p].report) /\ Promoted(handlers[p].report, handlers[p].found))
      PROVE  UNCHANGED <<decisions, evidence>>
  BY <1>6 DEF Ingest
<1>7. ASSUME \/ UNCHANGED vars
             \/ \E s \in Source : RegisterSource(s)
             \/ \E p \in Proc : \/ Reads(p) \/ RecordOutcome(p) \/ MarkConfirmed(p) \/ Reject(p)
                                \/ \E r \in Report : BeginWellbeing(p, r)
      PROVE  UNCHANGED <<decisions, evidence>>
  BY <1>7, ReadsKeepTables DEF vars, tables, RegisterSource, RecordOutcome, MarkConfirmed, Reject, BeginWellbeing
<1>. QED  BY <1>1, <1>2, <1>3, <1>4, <1>5, <1>6, <1>7 DEF Next, Reads

\* The lifecycle's view of all reports and of all decisions.
StateOf == [r \in Report |-> ReportState(r)]
StandingOf == [d \in Decision |-> Standing(d)]

LEMMA LearnedIsResolved ==
  ASSUME DecisionIoInv, NEW e \in evidence, decisions[e.decision] # None
  PROVE  Status(e.decision) = "resolved"
<1>1. /\ e.decision \in Decision /\ e.option \in Offered /\ e.event \in Report \cup {None}
      /\ decisions[e.decision].resolution = [option |-> e.option, event |-> e.event]
  BY DEF DecisionIoInv, DecisionIoTables, Learned
<1>2. [option |-> e.option, event |-> e.event] \in Resolution
  BY <1>1 DEF Resolution
<1>. QED  BY <1>1, <1>2, NoneAssumption DEF Status

\* The lifecycle and the tables tell the same of a decision.
LEMMA DecisionsAre ==
  ASSUME DecisionIoInv, Resolutions, NEW d
  PROVE  /\ Contract!Stored(d) <=> d \in Decision /\ decisions[d] # None
         /\ Contract!Open(d) <=> Status(d) = "open"
         /\ Contract!Resolved(d) <=> Status(d) = "resolved"
<1>1. Contract!Stored(d) <=> d \in Decision /\ decisions[d] # None
  BY DEF Contract!Stored, Standing
<1>2. CASE ~Contract!Stored(d)
  BY <1>1, <1>2 DEF Contract!Open, Contract!Resolved, Status
<1>3. CASE Contract!Stored(d)
  <2>1. (\E l \in LearnedBy : l[1] = d) <=> \E e \in evidence : e.decision = d
    <3>1. ASSUME NEW e \in evidence, e.decision = d PROVE \E l \in LearnedBy : l[1] = d
      <4>1. <<e.decision, e.event>> \in LearnedBy
        BY DEF LearnedBy
      <4>. QED  BY <3>1, <4>1
    <3>2. ASSUME NEW l \in LearnedBy, l[1] = d PROVE \E e \in evidence : e.decision = d
      BY <3>2 DEF LearnedBy
    <3>. QED  BY <3>1, <3>2
  <2>2. \A e \in evidence : e.decision = d => Status(d) = "resolved"
    BY <1>1, <1>3, LearnedIsResolved
  <2>. QED  BY <1>1, <1>3, <2>1, <2>2 DEF Contract!Open, Contract!Resolved, Status, Resolutions
<1>. QED  BY <1>2, <1>3

LEMMA LearnedGrows ==
  ASSUME NEW d, NEW o, NEW q, evidence' = evidence \cup {[decision |-> d, option |-> o, event |-> q]}
  PROVE  LearnedBy' = LearnedBy \cup {<<d, q>>}
<1>. DEFINE n == [decision |-> d, option |-> o, event |-> q]
<1>1. n \in evidence' /\ n.decision = d /\ n.event = q
  OBVIOUS
<1>. HIDE DEF n
<1>2. \A l \in LearnedBy' : l \in LearnedBy \cup {<<d, q>>}
  BY <1>1 DEF LearnedBy, n
<1>3. \A l \in LearnedBy \cup {<<d, q>>} : l \in LearnedBy'
  BY <1>1 DEF LearnedBy
<1>. QED  BY <1>2, <1>3

LEMMA StandingStays ==
  ASSUME \A d \in Decision : decisions'[d] = None <=> decisions[d] = None,
         \A s \in Source : sources'[s] = "gone" <=> sources[s] = "gone"
  PROVE  StandingOf' = StandingOf
  BY PairsAre DEF StandingOf, Standing

\* A source that is registered, and reports that are not touched.
LEMMA LostStays ==
  ASSUME NEW r \in Report, \A s \in Source : sources'[s] = "gone" <=> sources[s] = "gone"
  PROVE  Lost(r)' <=> Lost(r)
  BY ReportKinds, PairsAre DEF Lost

LEMMA ReportsStay ==
  ASSUME UNCHANGED observations, \A s \in Source : sources'[s] = "gone" <=> sources[s] = "gone"
  PROVE  StateOf' = StateOf /\ Matched' = Matched
<1>1. StateOf' = StateOf
  BY LostStays DEF StateOf, ReportState
<1>. QED  BY <1>1 DEF Matched, About

\* One report is observed, or observed otherwise.
LEMMA ReportMoves ==
  ASSUME DecisionIoInv, NEW r \in Report, NEW n \in Row, observations' = [observations EXCEPT ![r] = n],
         n.decision \in {None, About(r)}, UNCHANGED sources
  PROVE  /\ StateOf' = [StateOf EXCEPT ![r] = n.status]
         /\ Matched' = IF n.decision \in Decision THEN Matched \cup {r} ELSE Matched \ {r}
<1>1. n # None /\ observations'[r] = n /\ \A q \in Report \ {r} : observations'[q] = observations[q]
  BY NoneAssumption DEF DecisionIoInv, DecisionIoTables, Row
<1>2. StateOf' = [StateOf EXCEPT ![r] = n.status]
  <2>1. \A q \in Report : ReportState(q)' = IF q = r THEN n.status ELSE ReportState(q)
    BY <1>1, LostStays DEF ReportState
  <2>. QED  BY <2>1 DEF StateOf
<1>3. \A q \in Report : q \in Matched' <=> IF q = r THEN n.decision \in Decision ELSE q \in Matched
  BY <1>1, NoneAssumption DEF Matched, About
<1>. QED  BY <1>2, <1>3 DEF Matched

LEMMA ReportRestated ==
  ASSUME DecisionIoInv, NEW r \in Report, observations[r] # None, NEW status \in ObservationStatus,
         observations' = [observations EXCEPT ![r] =
           [observations[r] EXCEPT !.status = status, !.confirmed = (status = "confirmed")]],
         UNCHANGED sources
  PROVE  StateOf' = [StateOf EXCEPT ![r] = status] /\ Matched' = Matched
<1>. DEFINE o == observations[r]
            n == [o EXCEPT !.status = status, !.confirmed = (status = "confirmed")]
<1>1. o \in Row /\ o.decision \in {None, About(r)} /\ status \in ObservationStatus
  BY DEF DecisionIoInv, DecisionIoTables, ObservationOK
<1>2. observations' = [observations EXCEPT ![r] = n] /\ n = [o EXCEPT !.status = status, !.confirmed = (status = "confirmed")]
  OBVIOUS
<1>. HIDE DEF o, n
<1>3. n \in Row /\ n.decision = o.decision /\ n.status = status
  <2>1. CASE o \in ChoiceRow
    BY <1>1, <1>2, <2>1 DEF Row, ChoiceRow, OutcomeRow
  <2>2. CASE o \in OutcomeRow
    BY <1>1, <1>2, <2>2 DEF Row, ChoiceRow, OutcomeRow
  <2>. QED  BY <1>1, <2>1, <2>2 DEF Row
<1>4. /\ StateOf' = [StateOf EXCEPT ![r] = n.status]
      /\ Matched' = IF n.decision \in Decision THEN Matched \cup {r} ELSE Matched \ {r}
  <2>1. n.decision \in {None, About(r)}
    BY <1>1, <1>3
  <2>. QED  BY <1>2, <1>3, <2>1, ReportMoves
<1>. QED  BY <1>1, <1>3, <1>4 DEF Matched, o

LEMMA ResolutionStands ==
  ASSUME DecisionIoInv, NEW d \in Decision, Status(d) = "open", NEW o \in Offered,
         NEW q \in Report \cup {None}, UNCHANGED sources,
         decisions' = [decisions EXCEPT ![d].resolution = [option |-> o, event |-> q]]
  PROVE  StandingOf' = StandingOf
<1>1. decisions[d] \in DecisionRow /\ decisions[d] # None
  BY DEF Status, DecisionIoInv, DecisionIoTables
<1>2. [decisions[d] EXCEPT !.resolution = [option |-> o, event |-> q]] \in DecisionRow
  BY <1>1 DEF DecisionRow, Resolution
<1>. QED  BY <1>1, <1>2, StandingStays, NoneAssumption DEF DecisionIoInv, DecisionIoTables

-----------------------------------------------------------------------------
\* The owner's own choice.
LEMMA OwnerChooses ==
  ASSUME DecisionIoInv, Resolutions, NEW d \in Decision, NEW o \in Offered, OwnerResolves(d, o)
  PROVE  Contract!Next
<1>1. Contract!Open(d)
  BY DecisionsAre DEF OwnerResolves
<1>2. LearnedBy' = LearnedBy \cup {<<d, None>>}
  BY LearnedGrows DEF OwnerResolves
<1>3. StateOf' = StateOf /\ Matched' = Matched /\ outcomes' = outcomes
  BY ReportsStay DEF OwnerResolves
<1>4. StandingOf' = StandingOf
  BY ResolutionStands DEF OwnerResolves
<1>5. Contract!Choose(d)
  BY <1>1, <1>2, <1>3, <1>4 DEF Contract!Choose, StateOf, StandingOf
<1>. QED  BY <1>5 DEF Contract!Next

\* A confirmation that came through makes the choice the decision's.
LEMMA ChoiceConfirmed ==
  ASSUME DecisionIoInv, Resolutions, NEW p \in Proc, Confirm(p)
  PROVE  Contract!Next
<1>. DEFINE r == handlers[p].report
<1>1. /\ r \in Report /\ IsChoice(r) /\ Status(About(r)) = "open" /\ About(r) \in Decision
      /\ \E o \in Offered :
           /\ decisions' = [decisions EXCEPT ![About(r)].resolution = [option |-> o, event |-> r]]
           /\ evidence' = evidence \cup {[decision |-> About(r), option |-> o, event |-> r]}
  BY ApplyResolves
<1>2. /\ observations[r] # None /\ observations[r] \in Row /\ observations[r].decision = About(r)
      /\ observations' = [observations EXCEPT ![r].status = "confirmed", ![r].confirmed = TRUE]
      /\ UNCHANGED <<sources, outcomes>>
  <2>1. HandlerOK(handlers[p]) /\ handlers[p].at = "confirm" /\ observations[r] # None
    BY DEF Confirm, At, DecisionIoInv
  <2>2. observations[r].decision = About(r)
    BY <2>1 DEF HandlerOK, Reviews
  <2>. QED  BY <1>1, <2>1, <2>2 DEF Confirm, DecisionIoInv, DecisionIoTables
<1>. HIDE DEF r
<1>3. observations[r].status \in {"pending", "rejected"}
  <2>1. observations[r].status \in ObservationStatus
    BY <1>2 DEF Row, ChoiceRow, OutcomeRow
  <2>2. ASSUME observations[r].status = "confirmed" PROVE FALSE
    <3>1. PICK e \in evidence : e.decision = About(r)
      BY <1>1, <1>2, <2>2 DEF DecisionIoInv, Learned
    <3>. QED  BY <1>1, <3>1, LearnedIsResolved DEF Status
  <2>3. observations[r].status # "unmatched"
    BY <1>1, <1>2, NoneAssumption, ReportKinds DEF DecisionIoInv, ObservationOK, ReadableChoice
  <2>. QED  BY <2>1, <2>2, <2>3 DEF ObservationStatus
<1>4. StateOf' = [StateOf EXCEPT ![r] = "confirmed"] /\ Matched' = Matched
  <2>1. observations' = [observations EXCEPT ![r] =
          [observations[r] EXCEPT !.status = "confirmed", !.confirmed = ("confirmed" = "confirmed")]]
    BY <1>1, <1>2 DEF DecisionIoInv, DecisionIoTables
  <2>. QED  BY <1>1, <1>2, <2>1, ReportRestated DEF ObservationStatus
<1>5. PICK o \in Offered :
        /\ decisions' = [decisions EXCEPT ![About(r)].resolution = [option |-> o, event |-> r]]
        /\ evidence' = evidence \cup {[decision |-> About(r), option |-> o, event |-> r]}
  BY <1>1
<1>6. LearnedBy' = LearnedBy \cup {<<About(r), r>>} /\ StandingOf' = StandingOf
  BY <1>1, <1>2, <1>5, LearnedGrows, ResolutionStands
<1>7. StateOf[r] \in {"pending", "rejected"} /\ r \in Matched /\ Contract!Open(About(r))
  BY <1>1, <1>2, <1>3, DecisionsAre DEF StateOf, ReportState, Matched
<1>8. Contract!Learn(r)
  BY <1>1, <1>2, <1>4, <1>6, <1>7 DEF Contract!Learn, StateOf, StandingOf
<1>. QED  BY <1>1, <1>8 DEF Contract!Next

\* A rejection, and the confirmation of a report of the owner's wellbeing.
LEMMA ReportReviewed ==
  ASSUME DecisionIoInv, NEW p \in Proc, MarkConfirmed(p) \/ Reject(p)
  PROVE  [Contract!Next]_(Contract!vars)
<1>. DEFINE r == handlers[p].report
<1>1. /\ r \in Report /\ HandlerOK(handlers[p])
      /\ UNCHANGED <<sources, decisions, evidence, outcomes>>
  BY RestatedStep DEF MarkConfirmed, Reject
<1>2. StandingOf' = StandingOf /\ LearnedBy' = LearnedBy
  BY <1>1, StandingStays DEF LearnedBy
<1>3. CASE observations' = observations
  <2>1. StateOf' = StateOf /\ Matched' = Matched
    BY <1>1, <1>3, ReportsStay
  <2>. QED  BY <1>1, <1>2, <2>1 DEF Contract!vars, StateOf, StandingOf
<1>4. ASSUME observations' # observations PROVE observations[r] # None
  BY <1>4 DEF MarkConfirmed, Reject, CompareAndSet
<1>5. ASSUME NEW status \in {"confirmed", "rejected"}, observations[r] # None,
             observations' = [observations EXCEPT ![r].status = status, ![r].confirmed = (status = "confirmed")]
      PROVE  StateOf' = [StateOf EXCEPT ![r] = status] /\ Matched' = Matched /\ StateOf[r] = observations[r].status
  <2>1. observations' = [observations EXCEPT ![r] =
          [observations[r] EXCEPT !.status = status, !.confirmed = (status = "confirmed")]]
    BY <1>1, <1>5 DEF DecisionIoInv, DecisionIoTables
  <2>. HIDE DEF r
  <2>2. StateOf' = [StateOf EXCEPT ![r] = status] /\ Matched' = Matched
    BY <1>1, <1>5, <2>1, ReportRestated DEF ObservationStatus
  <2>. QED  BY <1>1, <1>5, <2>2 DEF StateOf, ReportState
<1>6. CASE MarkConfirmed(p) /\ observations' # observations
  <2>1. /\ observations[r] # None /\ observations[r].status = "pending" /\ handlers[p].at = "mark"
        /\ observations' = [observations EXCEPT ![r].status = "confirmed", ![r].confirmed = ("confirmed" = "confirmed")]
    BY <1>6 DEF MarkConfirmed, CompareAndSet, At
  <2>2. /\ r.type = "wellbeing" /\ r.decision \in outcomes /\ r.decision = About(r) /\ r.decision \in Decision
        /\ observations[r].decision = About(r)
    BY <1>1, <2>1, ReportKinds DEF HandlerOK, Reviews
  <2>3. StateOf' = [StateOf EXCEPT ![r] = "confirmed"] /\ Matched' = Matched /\ StateOf[r] = "pending"
    BY <1>5, <2>1
  <2>4. r \in Matched
    BY <1>1, <2>1, <2>2 DEF Matched
  <2>. HIDE DEF r
  <2>5. Contract!Confirm(r)
    BY <1>1, <1>2, <2>2, <2>3, <2>4 DEF Contract!Confirm, StateOf, StandingOf
  <2>. QED  BY <1>1, <2>5 DEF Contract!Next
<1>7. CASE Reject(p) /\ observations' # observations
  <2>1. /\ observations[r] # None
        /\ observations' = [observations EXCEPT ![r].status = "rejected", ![r].confirmed = ("rejected" = "confirmed")]
    BY <1>7 DEF Reject, CompareAndSet
  <2>2. StateOf' = [StateOf EXCEPT ![r] = "rejected"] /\ Matched' = Matched /\ StateOf[r] = observations[r].status
    BY <1>5, <2>1
  <2>. HIDE DEF r
  <2>3. StateOf[r] \in {"unmatched", "pending", "confirmed", "rejected"}
    BY <1>1, <2>1, <2>2 DEF DecisionIoInv, DecisionIoTables, Row, ChoiceRow, OutcomeRow, ObservationStatus
  <2>4. Contract!Reject(r)
    BY <1>1, <1>2, <2>2, <2>3 DEF Contract!Reject, StateOf, StandingOf
  <2>. QED  BY <1>1, <2>4 DEF Contract!Next
<1>. QED  BY <1>3, <1>6, <1>7

\* The owner's outcome, and what leaves the tables of reports alone.
LEMMA OutcomeStored ==
  ASSUME DecisionIoInv, Resolutions, NEW p \in Proc, RecordOutcome(p)
  PROVE  [Contract!Next]_(Contract!vars)
<1>1. UNCHANGED <<sources, decisions, observations, evidence>>
  BY DEF RecordOutcome
<1>2. StateOf' = StateOf /\ Matched' = Matched /\ StandingOf' = StandingOf /\ LearnedBy' = LearnedBy
  BY <1>1, ReportsStay, StandingStays DEF LearnedBy
<1>3. CASE outcomes' = outcomes
  BY <1>2, <1>3 DEF Contract!vars, StateOf, StandingOf
<1>4. CASE outcomes' # outcomes
  <2>1. PICK d : Status(d) = "resolved" /\ d \notin outcomes /\ outcomes' = outcomes \cup {d}
    BY <1>4 DEF RecordOutcome
  <2>2. Contract!Record(d) /\ d \in Decision
    BY <1>2, <2>1, DecisionsAre DEF Contract!Record, StateOf, StandingOf, Status
  <2>. QED  BY <2>2 DEF Contract!Next
<1>. QED  BY <1>3, <1>4

LEMMA ReportsNotConcerned ==
  ASSUME DecisionIoInv, UNCHANGED <<decisions, observations, evidence, outcomes>>,
         \A s \in Source : sources'[s] = "gone" <=> sources[s] = "gone"
  PROVE  UNCHANGED Contract!vars
<1>1. StateOf' = StateOf /\ Matched' = Matched /\ StandingOf' = StandingOf /\ LearnedBy' = LearnedBy
  BY ReportsStay, StandingStays DEF LearnedBy
<1>. QED  BY <1>1 DEF Contract!vars, StateOf, StandingOf

\* A source goes with what it reported, and with what was said of it.
LEMMA SourceForgotten ==
  ASSUME DecisionIoInv, Resolutions, NEW s \in Source, RemoveSource(s)
  PROVE  Contract!Next
<1>. DEFINE Leaves(r) == r.source = s \/ (About(r) \in Decision /\ About(r)[1] = s)
<1>1. /\ sources[s] = "live" /\ \A t \in Source : sources'[t] = IF t = s THEN "gone" ELSE sources[t]
      /\ \A d \in Decision : decisions'[d] = IF d[1] = s THEN None ELSE decisions[d]
      /\ evidence' = {e \in evidence : ~Reported(e, s)}
      /\ outcomes' = {d \in outcomes : d[1] # s}
  BY DEF RemoveSource, DecisionIoInv, DecisionIoTables
<1>2. ASSUME NEW r \in Report
      PROVE  /\ observations'[r] = IF Leaves(r) THEN None ELSE observations[r]
             /\ Leaves(r) => Lost(r)'
             /\ ~Leaves(r) => (Lost(r)' <=> Lost(r))
  <2>1. /\ r.source \in Source
        /\ r.type # "wellbeing" => (About(r) \in Decision => About(r)[1] = r.source)
        /\ r.type = "wellbeing" => About(r) = r.decision /\ r.decision \in Decision /\ r.decision[1] \in Source
    BY ReportKinds, PairsAre
  <2>2. observations[r] # None =>
          /\ observations[r].decision # None => observations[r].decision = About(r) /\ About(r) \in Decision
          /\ r.type = "wellbeing" => observations[r].decision # None
    BY DEF DecisionIoInv, DecisionIoTables, ObservationOK, Row, ChoiceRow, OutcomeRow
  <2>3. observations'[r] =
          IF observations[r] = None \/ r.source = s THEN None
          ELSE IF observations[r].decision # None /\ observations[r].decision[1] = s THEN None
          ELSE observations[r]
    BY DEF RemoveSource
  <2>4. observations'[r] = IF Leaves(r) THEN None ELSE observations[r]
    BY <2>1, <2>2, <2>3
  <2>. QED  BY <1>1, <2>1, <2>4 DEF Lost
<1>3. \A r \in Report : ReportState(r)' = IF Leaves(r) THEN "gone" ELSE ReportState(r)
  BY <1>2 DEF ReportState
<1>4. \A r \in Report : r \in Matched' <=> r \in Matched /\ ~Leaves(r)
  BY <1>2 DEF Matched, About
<1>5. \A d \in Decision : Standing(d)' = IF d[1] = s THEN "gone" ELSE Standing(d)
  BY <1>1, PairsAre DEF Standing
<1>6. LearnedBy' = {l \in LearnedBy : l[2] = None \/ ~Leaves(l[2])}
  <2>1. ASSUME NEW e \in evidence PROVE Reported(e, s) <=> e.event # None /\ Leaves(e.event)
    <3>1. e.event # None => /\ e.event \in Report /\ IsChoice(e.event)
      BY NoneAssumption DEF Resolutions, DecisionIoInv, DecisionIoTables
    <3>2. e.event # None => (Leaves(e.event) <=> e.event.source = s)
      BY <3>1, ReportKinds
    <3>. QED  BY <3>2 DEF Reported
  <2>2. \A e \in evidence : e \in evidence' <=> e.event = None \/ ~Leaves(e.event)
    BY <1>1, <2>1
  <2>. HIDE DEF Leaves
  <2>3. ASSUME NEW l \in LearnedBy' PROVE l \in {m \in LearnedBy : m[2] = None \/ ~Leaves(m[2])}
    <3>1. PICK e \in evidence' : l = <<e.decision, e.event>>
      BY DEF LearnedBy
    <3>2. e \in evidence
      BY <1>1, <3>1
    <3>. QED  BY <2>2, <3>1, <3>2 DEF LearnedBy
  <2>4. ASSUME NEW l \in LearnedBy, l[2] = None \/ ~Leaves(l[2]) PROVE l \in LearnedBy'
    <3>1. PICK e \in evidence : l = <<e.decision, e.event>>
      BY DEF LearnedBy
    <3>2. e \in evidence'
      BY <2>2, <2>4, <3>1
    <3>. QED  BY <3>1, <3>2 DEF LearnedBy
  <2>. QED  BY <2>3, <2>4
<1>7. Contract!Remove(s)
  <2>1. Matched \subseteq Report /\ Matched' \subseteq Report /\ outcomes \subseteq Decision
    BY DEF Matched, DecisionIoInv, DecisionIoTables
  <2>2. \A l \in LearnedBy : l[2] \in Report \cup {None}
    BY DEF LearnedBy, DecisionIoInv, DecisionIoTables
  <2>. DEFINE leaves(r) == \/ [q \in Report |-> q.source][r] = s
                           \/ /\ [q \in Report |-> About(q)][r] \in Decision
                              /\ [d \in Decision |-> d[1]][[q \in Report |-> About(q)][r]] = s
  <2>3. \A r \in Report : leaves(r) <=> Leaves(r)
    OBVIOUS
  <2>4. [r \in Report |-> ReportState(r)]' = [r \in Report |-> IF leaves(r) THEN "gone" ELSE [q \in Report |-> ReportState(q)][r]]
    BY <1>3, <2>3
  <2>5. Matched' = {r \in Matched : ~leaves(r)}
    BY <1>4, <2>1, <2>3
  <2>6. LearnedBy' = {l \in LearnedBy : l[2] = None \/ ~leaves(l[2])}
    BY <1>6, <2>2, <2>3
  <2>7. [d \in Decision |-> Standing(d)]' =
          [d \in Decision |-> IF [c \in Decision |-> c[1]][d] = s THEN "gone" ELSE [c \in Decision |-> Standing(c)][d]]
    BY <1>5
  <2>8. outcomes' = {d \in outcomes : [c \in Decision |-> c[1]][d] # s}
    BY <1>1, <2>1
  <2>. QED  BY <2>4, <2>5, <2>6, <2>7, <2>8 DEF Contract!Remove
<1>. QED  BY <1>7 DEF Contract!Next

-----------------------------------------------------------------------------
\* What the transaction of a report finds, as the lifecycle sees it.
LEMMA ReportIsNew ==
  ASSUME DecisionIoInv, NEW p \in Proc, Ingest(p)
  PROVE  LET r == handlers[p].report
         IN  /\ r \in Report /\ StateOf[r] = "new" /\ r \notin Matched
             /\ UNCHANGED <<sources, outcomes>> /\ observations[r] = None
             /\ handlers[p].found \in {"none", "open", "resolved"}
             /\ (IsChoice(r) \/ IsResult(r)) /\ handlers[p].found # "none" =>
                  About(r) \in Decision /\ decisions[About(r)] # None
             /\ r.type = "wellbeing" => handlers[p].found = "resolved"
  BY IngestStarts DEF StateOf, ReportState, Matched, Handler

\* A choice or a result that is new waits for its decision or is matched.
LEMMA ReportArrives ==
  ASSUME DecisionIoInv, Resolutions, NEW p \in Proc, Ingest(p), NEW r, r = handlers[p].report,
         NEW found, found = handlers[p].found, IsChoice(r) \/ IsResult(r),
         NEW n, observations' = [observations EXCEPT ![r] = n],
         \/ IsChoice(r) /\ n = ResolutionObservation(r, found)
         \/ IsResult(r) /\ n = OutcomeObservation(r, found),
         UNCHANGED <<decisions, evidence>>, ~Promoted(r, found)
  PROVE  Contract!Next
<1>1. /\ r \in Report /\ StateOf[r] = "new" /\ r \notin Matched
      /\ UNCHANGED <<sources, outcomes>> /\ found \in {"none", "open", "resolved"}
      /\ found # "none" => About(r) \in Decision /\ decisions[About(r)] # None
      /\ r.type = "wellbeing" => found = "resolved"
  BY ReportIsNew
<1>2. /\ n \in Row /\ n.decision = (IF found = "none" THEN None ELSE About(r))
      /\ n.status = (IF found = "none" THEN "unmatched" ELSE "pending")
  BY <1>1, ChoiceObserved, OutcomeObserved DEF Row
<1>3. StandingOf' = StandingOf /\ LearnedBy' = LearnedBy
  BY <1>1, StandingStays DEF LearnedBy
<1>4. /\ StateOf' = [StateOf EXCEPT ![r] = n.status]
      /\ Matched' = IF n.decision \in Decision THEN Matched \cup {r} ELSE Matched \ {r}
  BY <1>1, <1>2, ReportMoves
<1>5. CASE found = "none"
  <2>1. StateOf' = [StateOf EXCEPT ![r] = "unmatched"] /\ Matched' = Matched
    BY <1>1, <1>2, <1>4, <1>5, NoneAssumption
  <2>2. Contract!Wait(r)
    BY <1>1, <1>3, <1>5, <2>1 DEF Contract!Wait, StateOf, StandingOf
  <2>. QED  BY <1>1, <2>2 DEF Contract!Next
<1>6. CASE found # "none"
  <2>1. StateOf' = [StateOf EXCEPT ![r] = "pending"] /\ Matched' = Matched \cup {r}
    BY <1>1, <1>2, <1>4, <1>6
  <2>2. Contract!Stored(About(r))
    BY <1>1, <1>6, DecisionsAre
  <2>3. Contract!Match(r)
    BY <1>1, <1>3, <2>1, <2>2 DEF Contract!Match, StateOf, StandingOf
  <2>. QED  BY <1>1, <2>3 DEF Contract!Next
<1>. QED  BY <1>5, <1>6

\* A choice that the source may report as the owner's is promoted.
LEMMA ChoicePromoted ==
  ASSUME DecisionIoInv, Resolutions, NEW p \in Proc, Ingest(p), NEW r, r = handlers[p].report,
         NEW found, found = handlers[p].found, IsChoice(r), Promoted(r, found)
  PROVE  Contract!Next
<1>1. /\ r \in Report /\ StateOf[r] = "new" /\ r \notin Matched
      /\ UNCHANGED <<sources, outcomes>> /\ found \in {"none", "open", "resolved"} /\ found # "none"
      /\ About(r) \in Decision /\ ~IsResult(r) /\ r.type # "decision_candidate"
  BY ReportIsNew, ReportKinds DEF Promoted
<1>2. PICK o \in Offered :
        /\ decisions' = [decisions EXCEPT ![About(r)].resolution = [option |-> o, event |-> r]]
        /\ evidence' = evidence \cup {[decision |-> About(r), option |-> o, event |-> r]}
  BY ApplyResolves
<1>3. Status(About(r)) = "open"
  BY ApplyResolves
<1>4. PICK n : n = ResolutionObservation(r, found) /\ observations' = [observations EXCEPT ![r] = n]
  BY <1>1 DEF Ingest
<1>5. n \in Row /\ n.decision = About(r) /\ n.status = "confirmed"
  BY <1>1, <1>4, ChoiceObserved DEF Row
<1>6. StateOf' = [StateOf EXCEPT ![r] = "confirmed"] /\ Matched' = Matched \cup {r}
  <2>1. /\ StateOf' = [StateOf EXCEPT ![r] = n.status]
        /\ Matched' = IF n.decision \in Decision THEN Matched \cup {r} ELSE Matched \ {r}
    BY <1>1, <1>4, <1>5, ReportMoves
  <2>. QED  BY <1>1, <1>5, <2>1
<1>7. LearnedBy' = LearnedBy \cup {<<About(r), r>>} /\ StandingOf' = StandingOf
  BY <1>1, <1>2, <1>3, LearnedGrows, ResolutionStands
<1>8. Contract!Open(About(r))
  BY <1>3, DecisionsAre
<1>9. Contract!Learn(r)
  BY <1>1, <1>6, <1>7, <1>8 DEF Contract!Learn, StateOf, StandingOf
<1>. QED  BY <1>1, <1>9 DEF Contract!Next

\* A decision is reported, and what waited for it is matched.
LEMMA DecisionArrives ==
  ASSUME DecisionIoInv, Resolutions, NEW p \in Proc, Ingest(p), NEW r, r = handlers[p].report,
         r.type = "decision_candidate"
  PROVE  Contract!Next
<1>. DEFINE row == [event |-> r, resolution |-> None]
<1>1. /\ r \in Report /\ ~IsChoice(r) /\ ~IsResult(r) /\ UNCHANGED <<sources, outcomes>>
      /\ sources[r.source] = "live" /\ decisions[About(r)] = None
  BY IngestStarts, ReportKinds DEF IsResult, OutcomeTypes
<1>2. PICK d \in Decision : d = About(r) /\ d[1] = r.source /\ d = <<d[1], d[2]>>
  BY <1>1, ReportKinds, PairsAre
<1>3. /\ decisions' = [decisions EXCEPT ![d] = row] /\ row # None
      /\ observations' = AttachUnmatched(observations, d) /\ evidence' = evidence
  <2>1. row \in DecisionRow
    BY <1>1 DEF DecisionRow
  <2>. QED  BY <1>1, <1>2, <2>1, NoneAssumption DEF Ingest
<1>. HIDE DEF row
<1>4. /\ Standing(d) = "absent" /\ Standing(d)' = "stored"
      /\ \A c \in Decision \ {d} : Standing(c)' = Standing(c)
  BY <1>1, <1>2, <1>3 DEF Standing, DecisionIoInv, DecisionIoTables
<1>. DEFINE Waits(q) == observations[q] # None /\ observations[q].status = "unmatched" /\ About(q) = d
<1>5. ASSUME NEW q \in Report
      PROVE  /\ Waits(q) => observations'[q] = [observations[q] EXCEPT !.decision = d, !.status = "pending"]
             /\ ~Waits(q) => observations'[q] = observations[q]
  <2>1. observations[q] # None /\ observations[q].status = "unmatched" =>
          q.type # "wellbeing" /\ observations[q].external = q.decision
    BY NoneAssumption DEF DecisionIoInv, ObservationOK, ReadableChoice, ReadableOutcome
  <2>2. Waits(q) <=> /\ observations[q] # None /\ observations[q].status = "unmatched"
                     /\ q.source = d[1] /\ observations[q].external = d[2]
    BY <1>2, <2>1, ReportKinds
  <2>. QED  BY <1>3, <2>2 DEF AttachUnmatched
<1>6. ASSUME NEW q \in Report, Waits(q)
      PROVE  observations'[q] # None /\ observations'[q].decision = d /\ observations'[q].status = "pending"
  <2>1. observations[q] \in Row /\ observations'[q] = [observations[q] EXCEPT !.decision = d, !.status = "pending"]
    BY <1>5, <1>6 DEF DecisionIoInv, DecisionIoTables
  <2>2. observations'[q].decision = d /\ observations'[q].status = "pending"
    BY <2>1 DEF Row, ChoiceRow, OutcomeRow
  <2>3. observations'[q] # None
    BY <1>1, <1>3, <1>6, ObservationAttached
  <2>. QED  BY <2>2, <2>3
<1>7. \A q \in Report : ReportState(q)' = IF Waits(q) THEN "pending" ELSE ReportState(q)
  BY <1>1, <1>5, <1>6, LostStays DEF ReportState
<1>8. \A q \in Report : q \in Matched' <=> q \in Matched \/ Waits(q)
  BY <1>2, <1>5, <1>6 DEF Matched, About
<1>9. LearnedBy' = LearnedBy
  BY <1>3 DEF LearnedBy
<1>10. Contract!Arrive(d)
  <2>. DEFINE waiting == {q \in Report : [e \in Report |-> ReportState(e)][q] = "unmatched" /\ [e \in Report |-> About(e)][q] = d}
  <2>1. \A q \in Report : q \in waiting <=> Waits(q)
    BY DEF ReportState
  <2>2. Contract!Waiting(d) = waiting
    BY DEF Contract!Waiting
  <2>. HIDE DEF waiting, Waits
  <2>3. [e \in Report |-> ReportState(e)]' =
          [q \in Report |-> IF q \in waiting THEN "pending" ELSE [e \in Report |-> ReportState(e)][q]]
    BY <1>7, <2>1
  <2>4. Matched' = Matched \cup waiting
    <3>1. waiting \subseteq Report /\ Matched \subseteq Report /\ Matched' \subseteq Report
      BY DEF waiting, Matched
    <3>. QED  BY <1>8, <2>1, <3>1
  <2>5. [c \in Decision |-> Standing(c)]' = [[c \in Decision |-> Standing(c)] EXCEPT ![d] = "stored"]
    BY <1>4
  <2>. QED  BY <1>1, <1>4, <1>9, <2>2, <2>3, <2>4, <2>5 DEF Contract!Arrive
<1>. QED  BY <1>10 DEF Contract!Next

LEMMA ReportIngested ==
  ASSUME DecisionIoInv, Resolutions, NEW p \in Proc, Ingest(p)
  PROVE  [Contract!Next]_(Contract!vars)
<1>. DEFINE r == handlers[p].report
            found == handlers[p].found
<1>1. r \in Report /\ UNCHANGED <<sources, outcomes>>
  BY ReportIsNew
<1>2. CASE IsChoice(r) /\ Promoted(r, found)
  BY <1>2, ChoicePromoted
<1>3. CASE r.type = "decision_candidate"
  BY <1>3, DecisionArrives
<1>4. CASE (IsChoice(r) \/ IsResult(r)) /\ ~Promoted(r, found)
  <2>1. r.type # "decision_candidate"
    BY <1>1, <1>4, ReportKinds
  <2>2. PICK n : /\ observations' = [observations EXCEPT ![r] = n] /\ UNCHANGED <<decisions, evidence>>
                 /\ \/ IsChoice(r) /\ n = ResolutionObservation(r, found)
                    \/ IsResult(r) /\ n = OutcomeObservation(r, found)
    BY <1>1, <1>4, <2>1 DEF Ingest
  <2>. HIDE DEF r, found
  <2>. QED  BY <1>4, <2>2, ReportArrives DEF r, found
<1>5. CASE ~IsChoice(r) /\ ~IsResult(r) /\ r.type # "decision_candidate"
  <2>1. UNCHANGED <<sources, decisions, observations, evidence, outcomes>>
    BY <1>1, <1>5 DEF Ingest
  <2>. QED  BY <2>1, ReportsNotConcerned
<1>6. IsResult(r) => ~Promoted(r, found)
  BY <1>1, ReportKinds DEF Promoted
<1>. QED  BY <1>2, <1>3, <1>4, <1>5, <1>6

LEMMA StepKeepsReports == DecisionIoInv /\ Resolutions /\ [Next]_vars => [Contract!Next]_(Contract!vars)
<1>. SUFFICES ASSUME DecisionIoInv, Resolutions, [Next]_vars PROVE [Contract!Next]_(Contract!vars)
  OBVIOUS
<1>1. ASSUME NEW p \in Proc, Reads(p) PROVE UNCHANGED Contract!vars
  <2>1. UNCHANGED <<sources, decisions, observations, evidence, outcomes>>
    BY <1>1, ReadsKeepTables
  <2>. QED  BY <2>1, ReportsNotConcerned
<1>2. ASSUME \/ UNCHANGED vars
             \/ \E s \in Source : RegisterSource(s)
             \/ \E p \in Proc, r \in Report : BeginWellbeing(p, r)
      PROVE  UNCHANGED Contract!vars
  <2>1. /\ UNCHANGED <<decisions, observations, evidence, outcomes>>
        /\ \A s \in Source : sources'[s] = "gone" <=> sources[s] = "gone"
    BY <1>2, ReportKinds DEF vars, tables, RegisterSource, BeginWellbeing, DecisionIoInv, DecisionIoTables
  <2>. QED  BY <2>1, ReportsNotConcerned
<1>. QED  BY <1>1, <1>2, OwnerChooses, ChoiceConfirmed, ReportReviewed, OutcomeStored, SourceForgotten,
             ReportIngested DEF Next, Reads

\* ADR-014, over any sources, grants, reports and threads: a report waits, is
\* matched, learned, confirmed, rejected and forgotten as the lifecycle says,
\* whatever handlers race, fail or act on what they read before a removal.
THEOREM ReportLifecycle == Spec => KeepsReportLifecycle
<1>1. Init => Contract!Init /\ Resolutions
  <2>. SUFFICES ASSUME Init PROVE Contract!Init /\ Resolutions
    OBVIOUS
  <2>1. Resolutions
    BY DEF Init, Resolutions, Status
  <2>2. /\ [r \in Report |-> ReportState(r)] = [r \in Report |-> "new"] /\ Matched = {}
        /\ [d \in Decision |-> Standing(d)] = [d \in Decision |-> "absent"]
        /\ LearnedBy = {} /\ outcomes = {}
    BY ReportKinds, PairsAre DEF Init, ReportState, Lost, Matched, Standing, LearnedBy
  <2>. QED  BY <2>1, <2>2 DEF Contract!Init
<1>. QED  BY <1>1, DecisionIoHolds, ResolutionsStep, StepKeepsReports, PTL
          DEF Spec, KeepsReportLifecycle, Contract!Spec

-----------------------------------------------------------------------------
(* Why a confirmation of a choice is refused. *)

\* Hypothesis of the theorem below: no choice is reported before its decision.
DecisionsComeFirst ==
  \A r \in Report : IsChoice(r) /\ observations[r] # None => observations[r].status # "unmatched"

\* Every choice says which of the decision's options it is of, and so does what
\* a confirmation has read.
OptionsKnown ==
  /\ \A r \in Report : IsChoice(r) /\ observations[r] # None => observations[r].option # None
  /\ \A p \in Proc : At(p, "decision") => handlers[p].seen.option # None

LEMMA OptionsStay ==
  ASSUME DecisionIoInv, OptionsKnown, DecisionsComeFirst, DecisionsComeFirst', [Next]_vars,
         NEW r \in Report, IsChoice(r), observations'[r] # None
  PROVE  observations'[r].option # None
<1>1. CASE observations'[r] = observations[r]
  BY <1>1 DEF OptionsKnown
<1>2. ASSUME NEW p \in Proc, Confirm(p) \/ MarkConfirmed(p) \/ Reject(p), observations'[r] # observations[r]
      PROVE  observations'[r].option # None
  <2>1. PICK status \in {"confirmed", "rejected"} :
          /\ observations[handlers[p].report] # None /\ handlers[p].report \in Report
          /\ observations' = [observations EXCEPT ![handlers[p].report] =
               [observations[handlers[p].report] EXCEPT !.status = status, !.confirmed = (status = "confirmed")]]
    BY <1>2, RestatedStep
  <2>2. handlers[p].report = r
    BY <1>2, <2>1 DEF DecisionIoInv, DecisionIoTables
  <2>3. /\ observations[r] # None /\ observations[r] \in ChoiceRow
        /\ observations'[r] = [observations[r] EXCEPT !.status = status, !.confirmed = (status = "confirmed")]
    BY <2>1, <2>2, ReportKinds DEF DecisionIoInv, DecisionIoTables, ObservationOK
  <2>4. observations'[r].option = observations[r].option
    BY <2>3 DEF ChoiceRow
  <2>. QED  BY <2>3, <2>4 DEF OptionsKnown
<1>3. ASSUME NEW p \in Proc, Ingest(p), observations'[r] # observations[r] PROVE observations'[r].option # None
  <2>. DEFINE q == handlers[p].report
              found == handlers[p].found
  <2>1. /\ q \in Report /\ found \in {"none", "open", "resolved"} /\ observations[q] = None
        /\ (IsChoice(q) \/ IsResult(q)) /\ found # "none" => About(q) \in Decision
    BY <1>3, IngestStarts DEF Handler
  <2>2. q = r /\ observations'[r] = ResolutionObservation(r, found)
    <3>1. ASSUME observations' = AttachUnmatched(observations, About(q)) PROVE FALSE
      BY <1>3, <3>1 DEF AttachUnmatched, DecisionsComeFirst
    <3>2. q = r => ~IsResult(q)
      BY <2>1, ReportKinds
    <3>. QED  BY <1>3, <2>1, <3>1, <3>2 DEF Ingest, DecisionIoInv, DecisionIoTables
  <2>. HIDE DEF q, found
  <2>3. found # "none"
    <3>1. found = "none" => observations'[r].status = "unmatched"
      BY <2>2 DEF ResolutionObservation, Promoted
    <3>. QED  BY <3>1 DEF DecisionsComeFirst, IsChoice
  <2>4. observations'[r].option = r.option
    BY <2>2, <2>3 DEF ResolutionObservation
  <2>. QED  BY <2>4, ReportKinds, NoneAssumption
<1>4. ASSUME NEW s \in Source, RemoveSource(s) PROVE observations'[r] = observations[r]
  BY <1>4, ObservationsRemoved
<1>5. ASSUME \/ UNCHANGED vars
             \/ \E s \in Source : RegisterSource(s)
             \/ \E d \in Decision, o \in Offered : OwnerResolves(d, o)
             \/ \E p \in Proc : Reads(p) \/ RecordOutcome(p) \/ \E q \in Report : BeginWellbeing(p, q)
      PROVE  observations'[r] = observations[r]
  BY <1>5, ReadsKeepTables DEF vars, tables, RegisterSource, OwnerResolves, RecordOutcome, BeginWellbeing
<1>. QED  BY <1>1, <1>2, <1>3, <1>4, <1>5 DEF Next, Reads

LEMMA OptionsStep ==
  ASSUME DecisionIoInv, OptionsKnown, DecisionsComeFirst, DecisionsComeFirst', [Next]_vars
  PROVE  OptionsKnown'
<1>1. \A r \in Report : IsChoice(r) /\ observations'[r] # None => observations'[r].option # None
  BY OptionsStay
<1>2. ASSUME NEW p \in Proc, At(p, "decision")' PROVE handlers'[p].seen.option # None
  <2>1. CASE handlers'[p] = handlers[p]
    BY <1>2, <2>1 DEF OptionsKnown, At
  <2>2. ASSUME NEW r \in Report, BeginConfirm(p, r) PROVE handlers'[p].seen.option # None
    BY <2>2 DEF BeginConfirm, Start, OptionsKnown, DecisionIoInv, DecisionIoTables
  <2>3. ASSUME NEW q \in Proc, NEW x, handlers' = [handlers EXCEPT ![q] = x], x # None => x.at # "decision"
        PROVE  handlers'[p] = handlers[p]
    BY <1>2, <2>3 DEF At, DecisionIoInv, DecisionIoTables
  <2>4. ASSUME NEW q \in Proc, NEW r \in Report,
               BeginReport(q, r) \/ BeginWellbeing(q, r) \/ BeginConfirmWellbeing(q, r) \/ BeginReject(q, r)
        PROVE  handlers'[p] = handlers[p]
    <3>1. PICK step \in {"find", "ingest", "outcome", "reject"}, found \in {"none", "resolved"}, seen \in {None, observations[r]} :
            handlers' = [handlers EXCEPT ![q] = [at |-> step, report |-> r, found |-> found, seen |-> seen]]
      BY <2>4 DEF BeginReport, BeginWellbeing, BeginConfirmWellbeing, BeginReject, Start
    <3>. QED  BY <2>3, <3>1
  <2>5. ASSUME NEW q \in Proc, FindDecision(q) \/ ReadDecision(q) \/ ReadObservation(q) \/ RecordOutcome(q),
               handlers' # [handlers EXCEPT ![q] = None]
        PROVE  handlers'[p] = handlers[p]
    <3>1. handlers[q] \in Handler
      BY <2>5 DEF FindDecision, ReadDecision, ReadObservation, RecordOutcome, At, DecisionIoInv, DecisionIoTables
    <3>2. PICK x : handlers' = [handlers EXCEPT ![q] = x] /\ x.at # "decision"
      <4>1. CASE FindDecision(q)
        <5>1. handlers' = [handlers EXCEPT ![q].at = "ingest", ![q].found = Status(About(handlers[q].report))]
          BY <2>5, <4>1 DEF FindDecision, Done
        <5>2. handlers' = [handlers EXCEPT ![q] = [handlers[q] EXCEPT !.at = "ingest", !.found = Status(About(handlers[q].report))]]
          BY <5>1 DEF DecisionIoInv, DecisionIoTables
        <5>3. [handlers[q] EXCEPT !.at = "ingest", !.found = Status(About(handlers[q].report))].at # "decision"
          BY <3>1 DEF Handler
        <5>. QED  BY <5>2, <5>3
      <4>2. CASE ReadDecision(q) \/ ReadObservation(q) \/ RecordOutcome(q)
        <5>1. PICK step \in {"expected", "confirm", "mark"} : handlers' = [handlers EXCEPT ![q].at = step]
          BY <2>5, <4>2 DEF ReadDecision, ReadObservation, RecordOutcome, Done, Goto
        <5>2. handlers' = [handlers EXCEPT ![q] = [handlers[q] EXCEPT !.at = step]]
          BY <5>1 DEF DecisionIoInv, DecisionIoTables
        <5>3. [handlers[q] EXCEPT !.at = step].at # "decision"
          BY <3>1 DEF Handler
        <5>. QED  BY <5>2, <5>3
      <4>. QED  BY <2>5, <4>1, <4>2
    <3>. QED  BY <2>3, <3>2
  <2>6. ASSUME NEW q \in Proc, handlers' = [handlers EXCEPT ![q] = None] PROVE handlers'[p] = handlers[p]
    BY <2>3, <2>6
  <2>7. ASSUME \/ UNCHANGED vars
               \/ \E s \in Source : RegisterSource(s) \/ RemoveSource(s)
               \/ \E d \in Decision, o \in Offered : OwnerResolves(d, o)
        PROVE  handlers' = handlers
    BY <2>7 DEF vars, RegisterSource, RemoveSource, OwnerResolves
  <2>8. ASSUME NEW q \in Proc, Replay(q) \/ Ingest(q) \/ Confirm(q) \/ MarkConfirmed(q) \/ Reject(q) \/ Fail(q)
        PROVE  handlers' = [handlers EXCEPT ![q] = None]
    BY <2>8 DEF Replay, Ingest, Confirm, MarkConfirmed, Reject, Fail, Done
  <2>9. ASSUME NEW q \in Proc, NEW r \in Report, BeginConfirm(q, r), q # p PROVE handlers'[p] = handlers[p]
    BY <2>9 DEF BeginConfirm, Start, DecisionIoInv, DecisionIoTables
  <2>. QED  BY <2>1, <2>2, <2>4, <2>5, <2>6, <2>7, <2>8, <2>9 DEF Next
<1>. QED  BY <1>1, <1>2 DEF OptionsKnown, IsChoice

\* Without a choice that arrives before its decision, whoever confirms a choice
\* of an open decision is refused only because the report changed meanwhile.
THEOREM RefusedForOneCause == Spec /\ []DecisionsComeFirst => RefusedBecauseItChanged
<1>. DEFINE Rightly ==
       \A p \in Proc :
         ReadDecision(p) /\ handlers'[p] = None /\ Status(handlers[p].seen.decision) = "open"
         => observations[handlers[p].report] # handlers[p].seen
<1>1. Init => OptionsKnown
  BY DEF Init, OptionsKnown, At
<1>2. DecisionIoInv /\ OptionsKnown /\ [Next]_vars => [Rightly]_vars
  <2>1. ASSUME DecisionIoInv, OptionsKnown, NEW p \in Proc, ReadDecision(p), handlers'[p] = None
        PROVE  Status(handlers[p].seen.decision) # "open"
    <3>1. handlers[p].seen.option # None
      BY <2>1 DEF OptionsKnown, ReadDecision
    <3>2. CASE Status(handlers[p].seen.decision) = "open"
      <4>1. handlers' = [handlers EXCEPT ![p].at = "expected"] /\ handlers[p] # None
        BY <2>1, <3>1, <3>2 DEF ReadDecision, Goto, At
      <4>. QED  BY <2>1, <4>1, NoneAssumption DEF DecisionIoInv, DecisionIoTables, Handler
    <3>. QED  BY <3>2
  <2>. QED  BY <2>1
<1>. QED  BY <1>1, <1>2, DecisionIoHolds, OptionsStep, PTL DEF Spec, RefusedBecauseItChanged
=============================================================================
