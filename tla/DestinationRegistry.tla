-------------------------- MODULE DestinationRegistry --------------------------
(***************************************************************************)
(* What the registry of one partner promises: recipients, the identifiers  *)
(* bound to them, their destinations in one corridor (asset network) and   *)
(* the attestations recorded so far, each operation taken as ONE step.     *)
(* AttestationIngestion shows that the code's interleaved transactions     *)
(* implement this module.                                                  *)
(*                                                                         *)
(* An attestation of a type other than DESTINATION_REVOCATION makes its    *)
(* address the recipient's only ACTIVE destination; a revocation retires   *)
(* the one it names.  Both bind the identifier and activate the recipient. *)
(***************************************************************************)
EXTENDS Integers

CONSTANTS
  Recipients,   \* externalRecipientId values of the partner
  Identifiers,  \* (kind, normalizedValue) pairs of the partner
  Addresses,    \* (addressNormalized, memoValue) pairs of the corridor
  Payloads,     \* the attestations the partner has signed
  Times,        \* instants a dashboard user may choose for a validity window
  Never         \* expiresAt = null

(* A signed attestation, reduced to what its ingestion depends on.         *)
Payload == [revocation: BOOLEAN, recipient: Recipients,
            identifier: Identifiers, address: Addresses, sequence: Nat,
            effectiveFrom: Nat, expiresAt: Nat \cup {Never}]

ASSUME PayloadsAssumption == Payloads \subseteq Payload
ASSUME TimesAssumption == Times \subseteq Nat /\ Never \notin Nat

VARIABLES
  recipientStatus, \* Recipient.status
  binding,         \* RecipientIdentifier: the recipient it names, visibility
  destination,     \* RecipientDestination rows
  attestations,    \* Attestation rows: the payloads recorded
  now              \* the clock

registryVars == <<recipientStatus, binding, destination, attestations, now>>

RecipientStatus == {"ABSENT", "ACTIVE", "SUSPENDED"}
DestinationStatus == {"ABSENT", "PENDING", "ACTIVE", "REVOKED"}
Unbound == <<>>
Binding == [recipient: Recipients, resolvable: BOOLEAN] \cup {Unbound}
Row == [status: DestinationStatus, effectiveFrom: Nat,
        expiresAt: Nat \cup {Never}]
AbsentRow == [status |-> "ABSENT", effectiveFrom |-> 0, expiresAt |-> Never]

RegistryTypeOK ==
  /\ recipientStatus \in [Recipients -> RecipientStatus]
  /\ binding \in [Identifiers -> Binding]
  /\ destination \in [Recipients -> [Addresses -> Row]]
  /\ attestations \subseteq Payloads
  /\ now \in Nat

RegistryInit ==
  /\ recipientStatus = [r \in Recipients |-> "ABSENT"]
  /\ binding = [i \in Identifiers |-> Unbound]
  /\ destination = [r \in Recipients |-> [a \in Addresses |-> AbsentRow]]
  /\ attestations = {}
  /\ now = 0

-----------------------------------------------------------------------------
(* applyDestinationAttestation, on the rows of one recipient.              *)

(* Mutant: superseded rows are marked EXPIRED.                             *)
MutExpired(row) == [row EXCEPT !.status = "EXPIRED"]

Revoked(row) == [row EXCEPT !.status = "REVOKED"]

Activated(p) == [status |-> "ACTIVE", effectiveFrom |-> p.effectiveFrom,
                 expiresAt |-> p.expiresAt]

Retired(row, p) == [row EXCEPT !.status = "REVOKED",
                               !.expiresAt = p.expiresAt]

Applied(rows, p) ==
  [a \in Addresses |->
     IF p.revocation
     THEN IF a = p.address THEN Retired(rows[a], p) ELSE rows[a]
     ELSE IF a = p.address THEN Activated(p)
          ELSE IF rows[a].status = "ACTIVE" THEN Revoked(rows[a])
          ELSE rows[a]]

Attest(p) ==
  /\ \A q \in attestations : q.sequence # p.sequence
  /\ p.revocation => destination[p.recipient][p.address].status # "ABSENT"
  /\ recipientStatus' = [recipientStatus EXCEPT ![p.recipient] = "ACTIVE"]
  /\ binding' = [binding EXCEPT ![p.identifier] =
                   [recipient |-> p.recipient, resolvable |-> TRUE]]
  /\ destination' = [destination EXCEPT ![p.recipient] =
                       Applied(destination[p.recipient], p)]
  /\ attestations' = attestations \cup {p}
  /\ UNCHANGED now

(* Dashboard: createPartnerRecipient and disablePartnerRecipient.          *)
CreateRecipient(r, i, visible) ==
  /\ recipientStatus[r] = "ABSENT"
  /\ binding[i] = Unbound
  /\ recipientStatus' = [recipientStatus EXCEPT ![r] = "ACTIVE"]
  /\ binding' = [binding EXCEPT ![i] = [recipient |-> r, resolvable |-> visible]]
  /\ UNCHANGED <<destination, attestations, now>>

DisableRecipient(r) ==
  /\ recipientStatus[r] # "ABSENT"
  /\ recipientStatus' = [recipientStatus EXCEPT ![r] = "SUSPENDED"]
  /\ UNCHANGED <<binding, destination, attestations, now>>

(* Dashboard: createPartnerDestination and revokePartnerDestination; a     *)
(* replacement is one of each.                                             *)
CreateDestination(r, a, from, until) ==
  /\ recipientStatus[r] # "ABSENT"
  /\ destination[r][a].status = "ABSENT"
  /\ until # Never => until > from
  /\ destination' = [destination EXCEPT ![r][a] =
       [status |-> "PENDING", effectiveFrom |-> from, expiresAt |-> until]]
  /\ UNCHANGED <<recipientStatus, binding, attestations, now>>

RevokeDestination(r, a) ==
  /\ destination[r][a].status # "ABSENT"
  /\ destination' = [destination EXCEPT ![r][a].status = "REVOKED",
                                        ![r][a].expiresAt = now]
  /\ UNCHANGED <<recipientStatus, binding, attestations, now>>

RegistryTick ==
  /\ now' = now + 1
  /\ UNCHANGED <<recipientStatus, binding, destination, attestations>>

RegistryNext ==
  \/ \E p \in Payloads : Attest(p)
  \/ \E r \in Recipients, i \in Identifiers, visible \in BOOLEAN :
       CreateRecipient(r, i, visible)
  \/ \E r \in Recipients : DisableRecipient(r)
  \/ \E r \in Recipients, a \in Addresses, from \in Times,
        until \in Times \cup {Never} : CreateDestination(r, a, from, until)
  \/ \E r \in Recipients, a \in Addresses : RevokeDestination(r, a)
  \/ RegistryTick

RegistrySpec == RegistryInit /\ [][RegistryNext]_registryVars

-----------------------------------------------------------------------------
(* A recipient never has two ACTIVE destinations in a corridor, however    *)
(* attestations and dashboard changes interleave: a lookup that finds two  *)
(* answers AMBIGUOUS (resolution.service.ts:1451-1465).  It rests on the   *)
(* row lock that upsertRecipient takes, not on any constraint.             *)
OneActiveDestination ==
  \A r \in Recipients, a, b \in Addresses :
    destination[r][a].status = "ACTIVE" /\ destination[r][b].status = "ACTIVE"
      => a = b
=============================================================================
