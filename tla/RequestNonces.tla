---------------------------- MODULE RequestNonces ----------------------------
(***************************************************************************)
(* The replay protection of attestation requests: the freshness check and  *)
(* the nonce table of request-hardening.service.ts, with the clean-up of   *)
(* the processor tick.                                                     *)
(*                                                                         *)
(* A handler reads the clock once, for the freshness of the timestamp and  *)
(* for the expiry of the nonce, and inserts the nonce later; between the   *)
(* two the clock goes on, other handlers insert and the clean-up deletes.  *)
(* How long that takes nothing in the code bounds.                         *)
(*                                                                         *)
(* Abstracted: a nonce stands for the pair of credential and nonce that    *)
(* the table's unique index is on; payloads are their hashes.  Malformed   *)
(* headers are refused before any of this.                                 *)
(***************************************************************************)
EXTENDS Integers, FiniteSets

CONSTANTS
  Handlers,   \* concurrent requests the server processes
  Nonces,     \* pairs of credentialId and X-Request-Nonce
  Hashes,     \* payload hashes
  MaxAge,     \* ATTESTATION_REQUEST_MAX_AGE_MS
  NonceTtl,   \* ATTESTATION_REQUEST_NONCE_TTL_MS
  MaxCalls,   \* bound: requests received
  MaxClock    \* bound: the clock, and the timestamps of requests

ASSUME NonceAssumption ==
  /\ {MaxAge, NonceTtl, MaxCalls, MaxClock} \subseteq Nat
  /\ MaxAge > 0 /\ NonceTtl > 0
  /\ Nonces # {} /\ Hashes # {}

VARIABLES
  nonces,    \* the PartnerRequestNonce table
  session,   \* what each handler holds between its statements
  accepted,  \* history: the calls that passed, with their insertion times
  refused,   \* history: what the refused calls were told
  now, calls

vars == <<nonces, session, accepted, refused, now, calls>>

Request == [nonce : Nonces, hash : Hashes, timestamp : Nat]
Row == [nonce : Nonces, hash : Hashes, expiresAt : Nat]

Session ==
  [pc : {"idle", "insert", "explain"}, request : Request,
   call : Nat, checkedAt : Nat]

Accepted == [call : Nat, request : Request, checkedAt : Nat, insertedAt : Nat]
Refused ==
  [request : Request, reason : {"used", "other payload", "unsafe"}]

\* Rows, sessions and histories keep their types.
TypeOK ==
  /\ nonces \subseteq Row
  /\ session \in [Handlers -> Session]
  /\ accepted \subseteq Accepted
  /\ refused \subseteq Refused
  /\ now \in Nat
  /\ calls \in Nat

Idle == [pc |-> "idle", call |-> 0, checkedAt |-> 0,
         request |-> [nonce |-> CHOOSE n \in Nonces : TRUE,
                      hash |-> CHOOSE x \in Hashes : TRUE, timestamp |-> 0]]

Init ==
  /\ nonces = {}
  /\ session = [h \in Handlers |-> Idle]
  /\ accepted = {}
  /\ refused = {}
  /\ now = 0
  /\ calls = 0

-----------------------------------------------------------------------------
MutPastOnly(timestamp) == now - timestamp <= MaxAge

\* Math.abs(now - timestamp) <= maxAge.  A stale request is refused at once.
Fresh(timestamp) == now - timestamp <= MaxAge /\ timestamp - now <= MaxAge

Check(h, request) ==
  /\ session[h].pc = "idle"
  /\ calls < MaxCalls
  /\ calls' = calls + 1
  /\ Fresh(request.timestamp)
  /\ session' = [session EXCEPT ![h] =
                   [pc |-> "insert", request |-> request, call |-> calls + 1,
                    checkedAt |-> now]]
  /\ UNCHANGED <<nonces, accepted, refused, now>>

ExpiresAt(checkedAt) == checkedAt + NonceTtl

MutPayloadUnused(request) ==
  \A row \in nonces : row.nonce = request.nonce => row.hash # request.hash

\* What the unique index on credential and nonce allows.
Unused(request) == \A row \in nonces : row.nonce # request.nonce

Insert(h) ==
  LET s == session[h] IN
  /\ s.pc = "insert"
  /\ Unused(s.request)
  /\ nonces' = nonces \union {[nonce |-> s.request.nonce,
                               hash |-> s.request.hash,
                               expiresAt |-> ExpiresAt(s.checkedAt)]}
  /\ accepted' = accepted \union {[call |-> s.call, request |-> s.request,
                                   checkedAt |-> s.checkedAt,
                                   insertedAt |-> now]}
  /\ session' = [session EXCEPT ![h] = Idle]
  /\ UNCHANGED <<refused, now, calls>>

InsertConflicts(h) ==
  /\ session[h].pc = "insert"
  /\ ~Unused(session[h].request)
  /\ session' = [session EXCEPT ![h].pc = "explain"]
  /\ UNCHANGED <<nonces, accepted, refused, now, calls>>

MutReasonSwapped(request) ==
  {IF row.hash = request.hash THEN "other payload" ELSE "used" :
     row \in {r \in nonces : r.nonce = request.nonce}}

\* The row that was in the way, if it is still there, tells why.
Reason(request) ==
  {IF row.hash = request.hash THEN "used" ELSE "other payload" :
     row \in {r \in nonces : r.nonce = request.nonce}}

Explain(h) ==
  LET request == session[h].request IN
  /\ session[h].pc = "explain"
  /\ \E reason \in IF Reason(request) = {} THEN {"unsafe"} ELSE Reason(request) :
       refused' = refused \union {[request |-> request, reason |-> reason]}
  /\ session' = [session EXCEPT ![h] = Idle]
  /\ UNCHANGED <<nonces, accepted, now, calls>>

\* A statement fails or the process ends; the partner may send it again.
Fail(h) ==
  /\ session[h].pc # "idle"
  /\ session' = [session EXCEPT ![h] = Idle]
  /\ UNCHANGED <<nonces, accepted, refused, now, calls>>

\* cleanupExpiredRequestNonces.
Cleanup ==
  /\ nonces' = {row \in nonces : row.expiresAt >= now}
  /\ nonces' # nonces
  /\ UNCHANGED <<session, accepted, refused, now, calls>>

\* The clock.
Tick ==
  /\ now < MaxClock
  /\ now' = now + 1
  /\ UNCHANGED <<nonces, session, accepted, refused, calls>>

Next ==
  \/ \E h \in Handlers :
       \/ \E n \in Nonces, x \in Hashes, t \in 0 .. MaxClock :
            Check(h, [nonce |-> n, hash |-> x, timestamp |-> t])
       \/ Insert(h)
       \/ InsertConflicts(h)
       \/ Explain(h)
       \/ Fail(h)
  \/ Cleanup
  \/ Tick

Spec == Init /\ [][Next]_vars

-----------------------------------------------------------------------------
\* How long a call that passed took from reading the clock to inserting.
Delay(a) == a.insertedAt - a.checkedAt

(* A request, with its nonce and timestamp, passes once, however often and *)
(* whenever it is sent (assertAttestationReplayProtection), unless one of  *)
(* the calls took longer from its check to its insert than the nonce       *)
(* outlives the 2 * MaxAge in which the timestamp is fresh.  With the      *)
(* settings of environment.ts, TTL = 2 * age, that is any time at all.     *)
PassesOnce ==
  \A a, b \in accepted :
    /\ a.request.nonce = b.request.nonce
    /\ a.request.timestamp = b.request.timestamp
    /\ a.call # b.call
    => \E c \in {a, b} : Delay(c) > NonceTtl - 2 * MaxAge

(* Whatever the timestamps: two uses of a nonce that both pass are more    *)
(* than its time to live apart.                                            *)
ReuseIsSpaced ==
  \A a, b \in accepted :
    a.request.nonce = b.request.nonce /\ a.call # b.call =>
      \/ a.insertedAt > b.checkedAt + NonceTtl
      \/ b.insertedAt > a.checkedAt + NonceTtl

(* A refusal is true: a call with that nonce passed, with the same payload *)
(* or with another one as the partner is told.                             *)
RefusalsAreTrue ==
  \A r \in refused : \E a \in accepted :
    /\ a.request.nonce = r.request.nonce
    /\ r.reason = "used" => a.request.hash = r.request.hash
    /\ r.reason = "other payload" => a.request.hash # r.request.hash
=============================================================================
