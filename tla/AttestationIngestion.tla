------------------------- MODULE AttestationIngestion -------------------------
(***************************************************************************)
(* Ingestion of signed attestations (attestations.service.ts,              *)
(* createAttestation) beside the dashboard's changes to the same rows      *)
(* (recipients.service.ts, destinations.service.ts).                       *)
(*                                                                         *)
(* Every database statement is one step.  A transaction runs at Postgres'  *)
(* default isolation, READ COMMITTED: a statement sees the committed       *)
(* tables and its own transaction's writes, a row written by an open       *)
(* transaction is locked until that transaction ends, and a statement that *)
(* needs a locked row waits.  tx[h] holds the writes that handler h's      *)
(* transaction has made and not committed; a lock is what tx and pc say    *)
(* has been written.  Of the dashboard's calls only the one that makes its *)
(* destination the default holds a lock while it waits for another: it     *)
(* clears the flag of every default row before it inserts its own.         *)
(*                                                                         *)
(* A request enters the model when its signature, key, corridor and replay *)
(* headers have been accepted: those checks only read, and a request they  *)
(* refuse changes no table of this module.                                 *)
(***************************************************************************)
EXTENDS DestinationRegistry, FiniteSets

CONSTANTS
  Handlers,       \* concurrent POST /v1/attestations requests
  Desks,          \* concurrent dashboard calls
  Unwritten,      \* a row that a transaction has not written
  MaxSubmissions, \* bound: attestation requests
  MaxCalls,       \* bound: dashboard calls
  MaxFaults,      \* bound: failed transactions and interrupted calls
  MaxClock        \* bound: time

ASSUME UnwrittenAssumption == Unwritten \notin Row

ASSUME BoundsAssumption ==
  /\ MaxSubmissions \in Nat
  /\ MaxCalls \in Nat
  /\ MaxFaults \in Nat
  /\ MaxClock \in Nat

VARIABLES
  pc,          \* the next statement of each handler
  request,     \* the payload each handler ingests
  tx,          \* uncommitted destination rows of each handler's transaction
  enqueued,    \* its uncommitted webhook enqueues
  outbox,      \* committed webhook enqueues, per payload
  defaults,    \* the rows of each recipient whose isDefault is set
  desk,        \* what a dashboard call has read and will act on
  submissions, \* bounded counters
  calls, faults

vars == <<registryVars, pc, request, tx, enqueued, outbox, defaults, desk,
          submissions, calls, faults>>
deskVars == <<defaults, desk, calls>>

NoWrites == [a \in Addresses |-> Unwritten]
NoRequest == <<>>
NoCall == <<>>
Revocation == [op: {"revoke"}, recipient: Recipients, address: Addresses]

(* A "default" call is inside its transaction: the updateMany has the rows *)
(* `todo' still to reach and holds the ones in `locked'; `next' is what    *)
(* the call does after the commit.                                         *)
DeskCall == Revocation
            \cup [op: {"disable"}, recipient: Recipients]
            \cup [op: {"replace"}, recipient: Recipients, address: Addresses,
                  replacement: Addresses]
            \cup [op: {"default"}, recipient: Recipients, address: Addresses,
                  todo: SUBSET Addresses, locked: SUBSET Addresses,
                  next: Revocation \cup {NoCall}]

PC == {"idle", "upsertRecipient", "upsertIdentifier", "applyDestination",
       "activateDestination", "createAttestation", "enqueue", "commit"}

TypeOK ==
  /\ RegistryTypeOK
  /\ pc \in [Handlers -> PC]
  /\ request \in [Handlers -> Payloads \cup {NoRequest}]
  /\ \A h \in Handlers : pc[h] # "idle" => request[h] \in Payloads
  /\ tx \in [Handlers -> [Addresses -> Row \cup {Unwritten}]]
  /\ enqueued \in [Handlers -> Nat]
  /\ outbox \in [Payloads -> Nat]
  /\ defaults \in [Recipients -> SUBSET Addresses]
  /\ desk \in [Desks -> DeskCall \cup {NoCall}]
  /\ submissions \in Nat
  /\ calls \in Nat
  /\ faults \in Nat

Init ==
  /\ RegistryInit
  /\ pc = [h \in Handlers |-> "idle"]
  /\ request = [h \in Handlers |-> NoRequest]
  /\ tx = [h \in Handlers |-> NoWrites]
  /\ enqueued = [h \in Handlers |-> 0]
  /\ outbox = [p \in Payloads |-> 0]
  /\ defaults = [r \in Recipients |-> {}]
  /\ desk = [k \in Desks |-> NoCall]
  /\ submissions = 0
  /\ calls = 0
  /\ faults = 0

-----------------------------------------------------------------------------
(* Row locks.                                                              *)

(* Mutant: the recipient is only looked up, not updated.                   *)
MutNoRecipientLock(h, r) == FALSE

LocksRecipient(h, r) ==
  pc[h] \notin {"idle", "upsertRecipient"} /\ request[h].recipient = r

LocksIdentifier(h, i) ==
  /\ pc[h] \notin {"idle", "upsertRecipient", "upsertIdentifier"}
  /\ request[h].identifier = i

LocksDestination(h, r, a) ==
  pc[h] # "idle" /\ request[h].recipient = r /\ tx[h][a] # Unwritten

(* An uncommitted row of the unique index (partnerId, sequenceNumber).     *)
LocksSequence(h, s) ==
  pc[h] \in {"enqueue", "commit"} /\ request[h].sequence = s

(* A row that the updateMany of a dashboard call has reached: it stays     *)
(* locked, also when its flag turns out to be cleared already.             *)
DeskLocks(k, r, a) ==
  /\ desk[k] # NoCall
  /\ desk[k].op = "default"
  /\ desk[k].recipient = r
  /\ a \in desk[k].locked

Others(h) == Handlers \ {h}

(* No other transaction than h's holds the destination row.                *)
Reachable(h, r, a) ==
  /\ \A g \in Others(h) : ~LocksDestination(g, r, a)
  /\ \A k \in Desks : ~DeskLocks(k, r, a)

(* The destination rows that h's next statement writes.                    *)
NextRows(h) ==
  LET p == request[h] IN
  {a \in Addresses :
     \/ /\ pc[h] = "applyDestination"
        /\ p.revocation
        /\ a = p.address
        /\ destination[p.recipient][a].status # "ABSENT"
     \/ /\ pc[h] = "applyDestination"
        /\ ~p.revocation
        /\ a # p.address
        /\ destination[p.recipient][a].status = "ACTIVE"
     \/ pc[h] = "activateDestination" /\ a = p.address}

(* A statement of h's transaction that only takes locks and goes on.       *)
Continue(h, next) ==
  /\ pc' = [pc EXCEPT ![h] = next]
  /\ UNCHANGED <<registryVars, request, outbox, deskVars, submissions, faults>>

EndRequest(h) ==
  /\ pc' = [pc EXCEPT ![h] = "idle"]
  /\ request' = [request EXCEPT ![h] = NoRequest]
  /\ tx' = [tx EXCEPT ![h] = NoWrites]
  /\ enqueued' = [enqueued EXCEPT ![h] = 0]

-----------------------------------------------------------------------------
(* createAttestation.  A sequence number that is already recorded ends the *)
(* request here: the stored attestation is returned for the same payload,  *)
(* 409 for another one.                                                    *)
Submit(h, p) ==
  /\ pc[h] = "idle"
  /\ submissions < MaxSubmissions
  /\ \A q \in attestations : q.sequence # p.sequence
  /\ pc' = [pc EXCEPT ![h] = "upsertRecipient"]
  /\ request' = [request EXCEPT ![h] = p]
  /\ submissions' = submissions + 1
  /\ UNCHANGED <<registryVars, tx, enqueued, outbox, deskVars, faults>>

UpsertRecipient(h) ==
  /\ pc[h] = "upsertRecipient"
  /\ \A g \in Others(h) : ~LocksRecipient(g, request[h].recipient)
  /\ Continue(h, "upsertIdentifier")
  /\ UNCHANGED <<tx, enqueued>>

(* Mutant: the identifier's previous recipient is touched as well, after   *)
(* the new one.                                                            *)
MutTouchPreviousOwner(h) ==
  LET b == binding[request[h].identifier] IN
  /\ pc[h] = "upsertIdentifier"
  /\ \A g \in Others(h) : ~LocksIdentifier(g, request[h].identifier)
  /\ b # Unbound =>
       \A g \in Others(h) : ~LocksRecipient(g, b.recipient)
  /\ Continue(h, "applyDestination")
  /\ UNCHANGED <<tx, enqueued>>

UpsertIdentifier(h) ==
  /\ pc[h] = "upsertIdentifier"
  /\ \A g \in Others(h) : ~LocksIdentifier(g, request[h].identifier)
  /\ Continue(h, "applyDestination")
  /\ UNCHANGED <<tx, enqueued>>

(* Revocation: the row is found and updated; without it the transaction    *)
(* fails (see Rollback).                                                   *)
RetireDestination(h) ==
  LET p == request[h]
      row == destination[p.recipient][p.address] IN
  /\ pc[h] = "applyDestination"
  /\ p.revocation
  /\ row.status # "ABSENT"
  /\ Reachable(h, p.recipient, p.address)
  /\ tx' = [tx EXCEPT ![h][p.address] = Retired(row, p)]
  /\ Continue(h, "createAttestation")
  /\ UNCHANGED enqueued

(* Any other type first revokes the recipient's other ACTIVE rows, of      *)
(* which there is at most one ...                                          *)
RevokeOthers(h) ==
  LET p == request[h]
      rows == destination[p.recipient]
      others == {a \in Addresses \ {p.address} : rows[a].status = "ACTIVE"} IN
  /\ pc[h] = "applyDestination"
  /\ ~p.revocation
  /\ \A a \in others : Reachable(h, p.recipient, a)
  /\ tx' = [tx EXCEPT ![h] =
       [a \in Addresses |-> IF a \in others THEN Revoked(rows[a]) ELSE @[a]]]
  /\ Continue(h, "activateDestination")
  /\ UNCHANGED enqueued

(* ... then inserts or updates its own.                                    *)
ActivateDestination(h) ==
  LET p == request[h] IN
  /\ pc[h] = "activateDestination"
  /\ Reachable(h, p.recipient, p.address)
  /\ tx' = [tx EXCEPT ![h][p.address] = Activated(p)]
  /\ Continue(h, "createAttestation")
  /\ UNCHANGED enqueued

CreateAttestation(h) ==
  /\ pc[h] = "createAttestation"
  /\ \A g \in Others(h) : ~LocksSequence(g, request[h].sequence)
  /\ \A q \in attestations : q.sequence # request[h].sequence
  /\ Continue(h, "enqueue")
  /\ UNCHANGED <<tx, enqueued>>

(* Mutant: the webhook rows are written outside the transaction.           *)
MutEnqueueOutside(h) ==
  /\ pc[h] = "enqueue"
  /\ pc' = [pc EXCEPT ![h] = "commit"]
  /\ outbox' = [outbox EXCEPT ![request[h]] = @ + 1]
  /\ UNCHANGED <<registryVars, request, tx, enqueued, deskVars, submissions,
                 faults>>

(* The webhook rows, through the same transaction.                         *)
Enqueue(h) ==
  /\ pc[h] = "enqueue"
  /\ enqueued' = [enqueued EXCEPT ![h] = 1]
  /\ Continue(h, "commit")
  /\ UNCHANGED tx

Commit(h) ==
  LET p == request[h] IN
  /\ pc[h] = "commit"
  /\ recipientStatus' = [recipientStatus EXCEPT ![p.recipient] = "ACTIVE"]
  /\ binding' = [binding EXCEPT ![p.identifier] =
                   [recipient |-> p.recipient, resolvable |-> TRUE]]
  /\ destination' = [destination EXCEPT ![p.recipient] =
       [a \in Addresses |->
          IF tx[h][a] # Unwritten THEN tx[h][a] ELSE @[a]]]
  /\ defaults' = [defaults EXCEPT ![p.recipient] =
       {a \in Addresses : IF tx[h][a] # Unwritten
                          THEN tx[h][a].status = "ACTIVE" ELSE a \in @}]
  /\ attestations' = attestations \cup {p}
  /\ outbox' = [outbox EXCEPT ![p] = @ + enqueued[h]]
  /\ EndRequest(h)
  /\ UNCHANGED <<now, desk, calls, submissions, faults>>

(* The transaction throws and is rolled back: the row to revoke is missing,*)
(* the sequence number was recorded meanwhile, ...                         *)
Refuse(h) ==
  LET p == request[h] IN
  /\ \/ /\ pc[h] = "applyDestination"
        /\ p.revocation
        /\ destination[p.recipient][p.address].status = "ABSENT"
     \/ /\ pc[h] = "createAttestation"
        /\ \E q \in attestations : q.sequence = p.sequence
  /\ EndRequest(h)
  /\ UNCHANGED <<registryVars, outbox, deskVars, submissions, faults>>

(* ... the transaction times out, loses its connection or its process.     *)
Fail(h) ==
  /\ pc[h] # "idle"
  /\ faults < MaxFaults
  /\ faults' = faults + 1
  /\ EndRequest(h)
  /\ UNCHANGED <<registryVars, outbox, deskVars, submissions>>

-----------------------------------------------------------------------------
(* Dashboard calls read a row, decide, and write it by id in a later       *)
(* statement, which waits for the row's lock like any other.               *)
RecipientFree(r) == \A h \in Handlers : ~LocksRecipient(h, r)
IdentifierFree(i) == \A h \in Handlers : ~LocksIdentifier(h, i)
UnwrittenByRequests(r, a) == \A h \in Handlers : ~LocksDestination(h, r, a)

(* Neither a request nor one of the calls in K holds the row.              *)
DestinationFree(K, r, a) ==
  UnwrittenByRequests(r, a) /\ \A k \in K : ~DeskLocks(k, r, a)

Call(k, call) ==
  /\ desk[k] = NoCall
  /\ calls < MaxCalls
  /\ desk' = [desk EXCEPT ![k] = call]
  /\ calls' = calls + 1
  /\ UNCHANGED <<registryVars, pc, request, tx, enqueued, outbox, defaults,
                 submissions, faults>>

EndCall(k) ==
  /\ desk' = [desk EXCEPT ![k] = NoCall]
  /\ UNCHANGED <<pc, request, tx, enqueued, outbox, submissions, calls, faults>>

(* Calls whose reads only refuse take effect in one transaction.           *)
OneStep ==
  /\ calls < MaxCalls
  /\ calls' = calls + 1
  /\ UNCHANGED <<pc, request, tx, enqueued, outbox, defaults, desk, submissions,
                 faults>>

DeskCreateRecipient(r, i, visible) ==
  /\ RecipientFree(r)
  /\ IdentifierFree(i)
  /\ CreateRecipient(r, i, visible)
  /\ OneStep

(* A destination that is not to be the default: no other row is written.   *)
DeskCreateDestination(r, a, from, until) ==
  /\ DestinationFree(Desks, r, a)
  /\ CreateDestination(r, a, from, until)
  /\ OneStep

ReadForDisable(k, r) ==
  /\ recipientStatus[r] = "ACTIVE"
  /\ Call(k, [op |-> "disable", recipient |-> r])

FinishDisable(k) ==
  /\ desk[k] # NoCall
  /\ desk[k].op = "disable"
  /\ RecipientFree(desk[k].recipient)
  /\ DisableRecipient(desk[k].recipient)
  /\ EndCall(k)
  /\ UNCHANGED defaults

ReadForRevoke(k, r, a) ==
  /\ destination[r][a].status \notin {"ABSENT", "REVOKED"}
  /\ Call(k, [op |-> "revoke", recipient |-> r, address |-> a])

ClearDefault(r, a) == defaults' = [defaults EXCEPT ![r] = @ \ {a}]

(* Mutant: the write does not wait for the row's lock.                     *)
MutRevokeUnlocked(k) ==
  /\ desk[k] # NoCall
  /\ desk[k].op = "revoke"
  /\ RevokeDestination(desk[k].recipient, desk[k].address)
  /\ ClearDefault(desk[k].recipient, desk[k].address)
  /\ EndCall(k)

FinishRevoke(k) ==
  /\ desk[k] # NoCall
  /\ desk[k].op = "revoke"
  /\ DestinationFree(Desks, desk[k].recipient, desk[k].address)
  /\ RevokeDestination(desk[k].recipient, desk[k].address)
  /\ ClearDefault(desk[k].recipient, desk[k].address)
  /\ EndCall(k)

(* replacePartnerDestination creates the new row, then revokes the old one.*)
ReadForReplace(k, r, a, b) ==
  /\ destination[r][a].status # "ABSENT"
  /\ Call(k, [op |-> "replace", recipient |-> r, address |-> a,
              replacement |-> b])

Replaced(c) ==
  [op |-> "revoke", recipient |-> c.recipient, address |-> c.address]

CreateReplacement(k, from, until) ==
  LET c == desk[k] IN
  /\ c # NoCall
  /\ c.op = "replace"
  /\ DestinationFree(Desks, c.recipient, c.replacement)
  /\ CreateDestination(c.recipient, c.replacement, from, until)
  /\ desk' = [desk EXCEPT ![k] = Replaced(c)]
  /\ UNCHANGED <<pc, request, tx, enqueued, outbox, defaults, submissions,
                 calls, faults>>

(* The replacement exists already: 409, and the old row stays.             *)
RefuseReplacement(k) ==
  LET c == desk[k] IN
  /\ c # NoCall
  /\ c.op = "replace"
  /\ destination[c.recipient][c.replacement].status # "ABSENT"
  /\ EndCall(k)
  /\ UNCHANGED <<registryVars, defaults>>

(* A new row, or a replacement, that is to be the default: the statement   *)
(* that clears the flag of the others starts with the rows it finds set.   *)
(* The existence check before it only refuses, and the insert checks again.*)
Clearing(r, a, next) ==
  [op |-> "default", recipient |-> r, address |-> a, todo |-> defaults[r],
   locked |-> {}, next |-> next]

ReadForDefault(k, r, a) ==
  /\ recipientStatus[r] # "ABSENT"
  /\ destination[r][a].status = "ABSENT"
  /\ Call(k, Clearing(r, a, NoCall))

ReplaceDefault(k) ==
  LET c == desk[k] IN
  /\ c # NoCall
  /\ c.op = "replace"
  /\ destination[c.recipient][c.replacement].status = "ABSENT"
  /\ desk' = [desk EXCEPT ![k] =
                Clearing(c.recipient, c.replacement, Replaced(c))]
  /\ UNCHANGED <<registryVars, pc, request, tx, enqueued, outbox, defaults,
                 submissions, calls, faults>>

(* It takes their locks one after the other, in no order the code chooses. *)
LockDefault(k, a) ==
  LET c == desk[k] IN
  /\ c # NoCall
  /\ c.op = "default"
  /\ a \in c.todo
  /\ DestinationFree(Desks \ {k}, c.recipient, a)
  /\ desk' = [desk EXCEPT ![k] = [c EXCEPT !.todo = @ \ {a},
                                           !.locked = @ \cup {a}]]
  /\ UNCHANGED <<registryVars, pc, request, tx, enqueued, outbox, defaults,
                 submissions, calls, faults>>

(* The insert and the commit, which releases the locks.                    *)
InsertDefault(k, from, until) ==
  LET c == desk[k] IN
  /\ c # NoCall
  /\ c.op = "default"
  /\ c.todo = {}
  /\ DestinationFree(Desks \ {k}, c.recipient, c.address)
  /\ CreateDestination(c.recipient, c.address, from, until)
  /\ defaults' = [defaults EXCEPT ![c.recipient] =
                    (@ \ c.locked) \cup {c.address}]
  /\ desk' = [desk EXCEPT ![k] = c.next]
  /\ UNCHANGED <<pc, request, tx, enqueued, outbox, submissions, calls, faults>>

(* The row has been inserted meanwhile: the unique index refuses this one. *)
RefuseInsert(k) ==
  LET c == desk[k] IN
  /\ c # NoCall
  /\ c.op = "default"
  /\ c.todo = {}
  /\ DestinationFree(Desks \ {k}, c.recipient, c.address)
  /\ destination[c.recipient][c.address].status # "ABSENT"
  /\ EndCall(k)
  /\ UNCHANGED <<registryVars, defaults>>

InterruptCall(k) ==
  /\ desk[k] # NoCall
  /\ faults < MaxFaults
  /\ faults' = faults + 1
  /\ desk' = [desk EXCEPT ![k] = NoCall]
  /\ UNCHANGED <<registryVars, pc, request, tx, enqueued, outbox, defaults,
                 submissions, calls>>

-----------------------------------------------------------------------------
(* Waiting: for which transactions' locks a transaction waits, now or in   *)
(* the statement it is executing.                                          *)
WaitsFor(h, g) ==
  LET p == request[h] IN
  /\ g # h
  /\ \/ pc[h] = "upsertRecipient" /\ LocksRecipient(g, p.recipient)
     \/ pc[h] = "upsertIdentifier" /\ LocksIdentifier(g, p.identifier)
     \/ \E a \in NextRows(h) : LocksDestination(g, p.recipient, a)
     \/ pc[h] = "createAttestation" /\ LocksSequence(g, p.sequence)

WaitsForDesk(h, k) ==
  \E a \in NextRows(h) : DeskLocks(k, request[h].recipient, a)

DeskNextRows(k) ==
  LET c == desk[k] IN
  {a \in Addresses :
     /\ c # NoCall
     /\ c.op = "default"
     /\ IF c.todo = {} THEN a = c.address ELSE a \in c.todo}

DeskWaitsFor(k, h) ==
  \E a \in DeskNextRows(k) : LocksDestination(h, desk[k].recipient, a)

DeskWaitsForDesk(k, l) ==
  l # k /\ \E a \in DeskNextRows(k) : DeskLocks(l, desk[k].recipient, a)

(* None of these transactions can end before another of them has.          *)
Stuck(H, K) ==
  /\ H # {} \/ K # {}
  /\ \A h \in H : \/ \E g \in H : WaitsFor(h, g)
                  \/ \E k \in K : WaitsForDesk(h, k)
  /\ \A k \in K : \/ \E h \in H : DeskWaitsFor(k, h)
                  \/ \E l \in K : DeskWaitsForDesk(k, l)

Circle(H, K) ==
  /\ Stuck(H, K)
  /\ \A H2 \in SUBSET H, K2 \in SUBSET K :
       Stuck(H2, K2) => H2 = H /\ K2 = K

(* PostgreSQL ends a circle by aborting one of its transactions.           *)
AbortRequest(h) ==
  /\ \E H \in SUBSET Handlers, K \in SUBSET Desks : h \in H /\ Circle(H, K)
  /\ EndRequest(h)
  /\ UNCHANGED <<registryVars, outbox, deskVars, submissions, faults>>

AbortCall(k) ==
  /\ \E H \in SUBSET Handlers, K \in SUBSET Desks : k \in K /\ Circle(H, K)
  /\ EndCall(k)
  /\ UNCHANGED <<registryVars, defaults>>

Tick ==
  /\ now < MaxClock
  /\ RegistryTick
  /\ UNCHANGED <<pc, request, tx, enqueued, outbox, deskVars, submissions,
                 faults>>

-----------------------------------------------------------------------------
Ingest(h) ==
  \/ UpsertRecipient(h)
  \/ UpsertIdentifier(h)
  \/ RetireDestination(h)
  \/ RevokeOthers(h)
  \/ ActivateDestination(h)
  \/ CreateAttestation(h)
  \/ Enqueue(h)
  \/ Commit(h)
  \/ Refuse(h)

(* The statements of the transaction that creates a default destination.   *)
CreateDefault(k) ==
  \/ \E a \in Addresses : LockDefault(k, a)
  \/ \E from \in Times, until \in Times \cup {Never} :
       InsertDefault(k, from, until)
  \/ RefuseInsert(k)

DeskStep(k) ==
  \/ \E r \in Recipients : ReadForDisable(k, r)
  \/ \E r \in Recipients, a \in Addresses : ReadForRevoke(k, r, a)
  \/ \E r \in Recipients, a \in Addresses, b \in Addresses :
       ReadForReplace(k, r, a, b)
  \/ FinishDisable(k)
  \/ FinishRevoke(k)
  \/ \E from \in Times, until \in Times \cup {Never} :
       CreateReplacement(k, from, until)
  \/ RefuseReplacement(k)
  \/ \E r \in Recipients, a \in Addresses : ReadForDefault(k, r, a)
  \/ ReplaceDefault(k)
  \/ CreateDefault(k)
  \/ InterruptCall(k)
  \/ AbortCall(k)

Next ==
  \/ \E h \in Handlers, p \in Payloads : Submit(h, p)
  \/ \E h \in Handlers : Ingest(h)
  \/ \E h \in Handlers : Fail(h) \/ AbortRequest(h)
  \/ \E k \in Desks : DeskStep(k)
  \/ \E r \in Recipients, i \in Identifiers, visible \in BOOLEAN :
       DeskCreateRecipient(r, i, visible)
  \/ \E r \in Recipients, a \in Addresses, from \in Times,
        until \in Times \cup {Never} : DeskCreateDestination(r, a, from, until)
  \/ Tick

Spec == Init /\ [][Next]_vars

(* A handler, and a dashboard call inside its transaction, is an await     *)
(* chain: each statement it can run is run.  The database's own abort of a *)
(* circle is not counted on.                                               *)
FairSpec ==
  /\ Spec
  /\ \A h \in Handlers : WF_vars(Ingest(h))
  /\ \A k \in Desks : WF_vars(CreateDefault(k))

-----------------------------------------------------------------------------
(* The partner is told of an attestation once, and of nothing that was     *)
(* rolled back: enqueuePartnerWebhookEvent runs in the transaction that    *)
(* records the attestation (attestations.service.ts:280-304).              *)
OutboxMatchesLedger ==
  \A p \in Payloads :
    outbox[p] = IF p \in attestations THEN 1 ELSE 0

(* The interleaved transactions have the effect of executing each          *)
(* operation at one instant: an attestation when it commits.               *)
ImplementsRegistry == RegistrySpec

(* h waits in or behind a circle in which a dashboard call has a part.     *)
CaughtByDesk(h) ==
  \E H \in SUBSET Handlers, K \in SUBSET Desks :
    /\ h \in H
    /\ Stuck(H, K)
    /\ \A H2 \in SUBSET H : ~Stuck(H2, {})

(* Every ingestion ends by itself, whatever requests and dashboard calls   *)
(* it waits for, because a request takes its rows in the order recipient,  *)
(* identifier, destinations, attestation.  The one thing that can hold it  *)
(* until the database steps in is a dashboard call making a new            *)
(* destination the default: it locks the recipient's default rows without  *)
(* the recipient's lock (destinations.service.ts:281-317), and may hold    *)
(* the row that the attestation is about to activate while it waits for    *)
(* the one that the attestation has just revoked.                          *)
EveryRequestEnds ==
  \A h \in Handlers :
    pc[h] # "idle" ~> (pc[h] = "idle" \/ CaughtByDesk(h))
=============================================================================
