---------------------- MODULE AttestationIngestionProofs ----------------------
(***************************************************************************)
(* Attestation ingestion implements the atomic registry, for any number of *)
(* recipients, identifiers, addresses, attestations and requests.          *)
(*                                                                         *)
(* LockInv says whom the row locks keep apart, PlanInv what an open        *)
(* transaction is about to write relative to the tables as they are now:   *)
(* its writes stay right because nobody else may touch what it has read.   *)
(***************************************************************************)
EXTENDS AttestationIngestion, TLAPS

LEMMA RowWritesType ==
  ASSUME NEW row \in Row, NEW p \in Payload
  PROVE  /\ Revoked(row) \in Row
         /\ Activated(p) \in Row
         /\ Retired(row, p) \in Row
         /\ [row EXCEPT !.status = "REVOKED"] \in Row
  BY DEF Row, Revoked, Activated, Retired, Payload, DestinationStatus

LEMMA PayloadFields ==
  ASSUME NEW p \in Payloads
  PROVE  /\ p \in Payload
         /\ p.recipient \in Recipients
         /\ p.identifier \in Identifiers
         /\ p.address \in Addresses
  BY PayloadsAssumption DEF Payload

(* The registry's own steps keep its tables well typed.                    *)
LEMMA RegistryStepsType ==
  ASSUME RegistryTypeOK
  PROVE  /\ \A r \in Recipients, i \in Identifiers, visible \in BOOLEAN :
              CreateRecipient(r, i, visible) => RegistryTypeOK'
         /\ \A r \in Recipients : DisableRecipient(r) => RegistryTypeOK'
         /\ \A r \in Recipients, a \in Addresses, from \in Times,
               until \in Times \cup {Never} :
              CreateDestination(r, a, from, until) => RegistryTypeOK'
         /\ \A r \in Recipients, a \in Addresses :
              RevokeDestination(r, a) => RegistryTypeOK'
         /\ RegistryTick => RegistryTypeOK'
<1>1. ASSUME NEW r \in Recipients, NEW i \in Identifiers,
             NEW visible \in BOOLEAN, CreateRecipient(r, i, visible)
      PROVE  RegistryTypeOK'
  BY <1>1 DEF RegistryTypeOK, CreateRecipient, RecipientStatus, Binding
<1>2. ASSUME NEW r \in Recipients, DisableRecipient(r)
      PROVE  RegistryTypeOK'
  BY <1>2 DEF RegistryTypeOK, DisableRecipient, RecipientStatus
<1>3. ASSUME NEW r \in Recipients, NEW a \in Addresses,
             NEW from \in Times, NEW until \in Times \cup {Never},
             CreateDestination(r, a, from, until)
      PROVE  RegistryTypeOK'
  <2>1. [status |-> "PENDING", effectiveFrom |-> from, expiresAt |-> until]
          \in Row
    BY TimesAssumption DEF Row, DestinationStatus
  <2>2. destination' \in [Recipients -> [Addresses -> Row]]
    BY <1>3, <2>1 DEF RegistryTypeOK, CreateDestination
  <2>. QED BY <1>3, <2>2 DEF RegistryTypeOK, CreateDestination
<1>4. ASSUME NEW r \in Recipients, NEW a \in Addresses,
             RevokeDestination(r, a)
      PROVE  RegistryTypeOK'
  <2>1. destination[r][a] \in Row /\ now \in Nat
    BY DEF RegistryTypeOK
  <2>2. [[destination[r][a] EXCEPT !.status = "REVOKED"]
           EXCEPT !.expiresAt = now] \in Row
    BY <2>1 DEF Row, DestinationStatus
  <2>3. destination' \in [Recipients -> [Addresses -> Row]]
    BY <1>4, <2>2 DEF RegistryTypeOK, RevokeDestination
  <2>. QED BY <1>4, <2>3 DEF RegistryTypeOK, RevokeDestination
<1>5. RegistryTick => RegistryTypeOK'
  BY DEF RegistryTypeOK, RegistryTick
<1>. QED BY <1>1, <1>2, <1>3, <1>4, <1>5

LEMMA RegistryUnchanged ==
  RegistryTypeOK /\ UNCHANGED registryVars => RegistryTypeOK'
  BY DEF RegistryTypeOK, registryVars

(* The calls a dashboard step makes, and what one it has made holds.       *)
LEMMA CallTypes ==
  ASSUME NEW r \in Recipients, NEW a \in Addresses
  PROVE  /\ [op |-> "revoke", recipient |-> r, address |-> a] \in Revocation
         /\ \A b \in Addresses :
              [op |-> "replace", recipient |-> r, address |-> a,
               replacement |-> b] \in DeskCall
         /\ \A todo, locked \in SUBSET Addresses,
               next \in Revocation \cup {NoCall} :
              [op |-> "default", recipient |-> r, address |-> a,
               todo |-> todo, locked |-> locked, next |-> next] \in DeskCall
  BY DEF DeskCall, Revocation

LEMMA CallFields ==
  ASSUME NEW c \in DeskCall
  PROVE  /\ c.recipient \in Recipients
         /\ c.op \in {"revoke", "replace", "default"} => c.address \in Addresses
         /\ c.op = "replace" => c.replacement \in Addresses
         /\ c.op = "default" => /\ c.todo \in SUBSET Addresses
                                /\ c.locked \in SUBSET Addresses
                                /\ c.next \in Revocation \cup {NoCall}
  BY DEF DeskCall, Revocation

(* Every table and every handler, transaction and call keeps its type.     *)
THEOREM TypeCorrect == Spec => []TypeOK
<1>1. Init => TypeOK
  BY TimesAssumption
     DEF Init, TypeOK, RegistryInit, RegistryTypeOK, RecipientStatus, Binding,
         Row, AbsentRow, DestinationStatus, NoWrites, PC
<1>2. TypeOK /\ [Next]_vars => TypeOK'
  <2>. SUFFICES ASSUME TypeOK, [Next]_vars PROVE TypeOK'
    OBVIOUS
  <2>. USE DEF TypeOK
  <2>1. ASSUME NEW h \in Handlers, NEW p \in Payloads, Submit(h, p)
        PROVE  TypeOK'
    BY <2>1 DEF Submit, PC, registryVars, deskVars, RegistryTypeOK
  <2>2. ASSUME NEW h \in Handlers,
               \/ UpsertRecipient(h) \/ UpsertIdentifier(h)
               \/ CreateAttestation(h) \/ Enqueue(h)
        PROVE  TypeOK'
    <3>1. ASSUME NEW next \in PC, pc[h] # "idle", Continue(h, next),
                 UNCHANGED tx, enqueued' \in [Handlers -> Nat]
          PROVE  TypeOK'
      BY <3>1, RegistryUnchanged DEF Continue, deskVars
    <3>2. CASE UpsertRecipient(h)
      BY <3>1, <3>2 DEF UpsertRecipient, PC
    <3>3. CASE UpsertIdentifier(h)
      BY <3>1, <3>3 DEF UpsertIdentifier, PC
    <3>4. CASE CreateAttestation(h)
      BY <3>1, <3>4 DEF CreateAttestation, PC
    <3>5. CASE Enqueue(h)
      BY <3>1, <3>5 DEF Enqueue, PC
    <3>. QED BY <2>2, <3>2, <3>3, <3>4, <3>5
  <2>3. ASSUME NEW h \in Handlers, RetireDestination(h)
        PROVE  TypeOK'
    <3>. DEFINE p == request[h]
    <3>1. p \in Payloads /\ p \in Payload /\ p.recipient \in Recipients
          /\ p.address \in Addresses
      BY <2>3, PayloadFields DEF RetireDestination
    <3>2. destination[p.recipient][p.address] \in Row
      BY <3>1 DEF RegistryTypeOK
    <3>3. Retired(destination[p.recipient][p.address], p) \in Row
      BY <3>1, <3>2, RowWritesType
    <3>4. tx' \in [Handlers -> [Addresses -> Row \cup {Unwritten}]]
      BY <2>3, <3>1, <3>3 DEF RetireDestination
    <3>. QED
      BY <2>3, <3>4 DEF RetireDestination, Continue, PC, registryVars, deskVars,
           RegistryTypeOK
  <2>4. ASSUME NEW h \in Handlers, RevokeOthers(h)
        PROVE  TypeOK'
    <3>. DEFINE p == request[h]
                rows == destination[p.recipient]
                others == {a \in Addresses \ {p.address} :
                             rows[a].status = "ACTIVE"}
                new == [a \in Addresses |->
                          IF a \in others THEN Revoked(rows[a]) ELSE tx[h][a]]
    <3>1. p \in Payloads /\ p \in Payload /\ p.recipient \in Recipients
      BY <2>4, PayloadFields DEF RevokeOthers
    <3>2. \A a \in Addresses : rows[a] \in Row /\ Revoked(rows[a]) \in Row
      BY <3>1, RowWritesType DEF RegistryTypeOK
    <3>3. new \in [Addresses -> Row \cup {Unwritten}]
      BY <3>2
    <3>4. tx' = [tx EXCEPT ![h] = new]
      BY <2>4 DEF RevokeOthers
    <3>5. tx' \in [Handlers -> [Addresses -> Row \cup {Unwritten}]]
      BY <3>3, <3>4
    <3>. QED
      BY <2>4, <3>5 DEF RevokeOthers, Continue, PC, registryVars, deskVars,
           RegistryTypeOK
  <2>5. ASSUME NEW h \in Handlers, ActivateDestination(h)
        PROVE  TypeOK'
    <3>. DEFINE p == request[h]
    <3>1. p \in Payloads /\ p \in Payload /\ p.address \in Addresses
      BY <2>5, PayloadFields DEF ActivateDestination
    <3>2. Activated(p) \in Row
      BY <3>1 DEF Activated, Row, Payload, DestinationStatus
    <3>3. tx' \in [Handlers -> [Addresses -> Row \cup {Unwritten}]]
      BY <2>5, <3>1, <3>2 DEF ActivateDestination
    <3>. QED
      BY <2>5, <3>3 DEF ActivateDestination, Continue, PC, registryVars,
           deskVars, RegistryTypeOK
  <2>6. ASSUME NEW h \in Handlers, Commit(h)
        PROVE  TypeOK'
    <3>. DEFINE p == request[h]
                new == [a \in Addresses |-> IF tx[h][a] # Unwritten
                          THEN tx[h][a] ELSE destination[p.recipient][a]]
    <3>1. p \in Payloads /\ p.recipient \in Recipients
          /\ p.identifier \in Identifiers
      BY <2>6, PayloadFields DEF Commit
    <3>2. new \in [Addresses -> Row]
      BY <3>1 DEF RegistryTypeOK
    <3>3. destination' = [destination EXCEPT ![p.recipient] = new]
      BY <2>6 DEF Commit
    <3>4. destination' \in [Recipients -> [Addresses -> Row]]
      BY <3>2, <3>3 DEF RegistryTypeOK
    <3>5. [recipient |-> p.recipient, resolvable |-> TRUE] \in Binding
      BY <3>1 DEF Binding
    <3>6. binding' \in [Identifiers -> Binding]
      BY <2>6, <3>5 DEF Commit, RegistryTypeOK
    <3>7. RegistryTypeOK'
      BY <2>6, <3>1, <3>4, <3>6 DEF Commit, RegistryTypeOK, RecipientStatus
    <3>8. tx' \in [Handlers -> [Addresses -> Row \cup {Unwritten}]]
      BY <2>6 DEF Commit, EndRequest, NoWrites
    <3>9. outbox' \in [Payloads -> Nat]
      BY <2>6 DEF Commit
    <3>10. defaults' \in [Recipients -> SUBSET Addresses]
      BY <2>6, <3>1 DEF Commit
    <3>. QED
      BY <2>6, <3>7, <3>8, <3>9, <3>10 DEF Commit, EndRequest, PC
  <2>7. ASSUME NEW h \in Handlers, Refuse(h) \/ Fail(h) \/ AbortRequest(h)
        PROVE  TypeOK'
    <3>1. tx' \in [Handlers -> [Addresses -> Row \cup {Unwritten}]]
      BY <2>7 DEF Refuse, Fail, AbortRequest, EndRequest, NoWrites
    <3>2. RegistryTypeOK'
      BY <2>7, RegistryUnchanged DEF Refuse, Fail, AbortRequest
    <3>3. EndRequest(h) /\ UNCHANGED <<outbox, deskVars, submissions>>
          /\ faults' \in Nat
      BY <2>7 DEF Refuse, Fail, AbortRequest
    <3>. QED BY <3>1, <3>2, <3>3 DEF EndRequest, PC, deskVars
  <2>8. ASSUME NEW k \in Desks, DeskStep(k)
        PROVE  TypeOK'
    <3>. DEFINE c == desk[k]
    <3>0. Revocation \subseteq DeskCall
      BY DEF DeskCall
    <3>1. ASSUME NEW call \in DeskCall, Call(k, call)
          PROVE  TypeOK'
      BY <3>1 DEF Call, registryVars, RegistryTypeOK
    <3>2. ASSUME NEW next \in DeskCall \cup {NoCall}, RegistryTypeOK',
                 desk' = [desk EXCEPT ![k] = next],
                 defaults' \in [Recipients -> SUBSET Addresses],
                 faults' \in Nat,
                 UNCHANGED <<pc, request, tx, enqueued, outbox, submissions,
                             calls>>
          PROVE  TypeOK'
      BY <3>2
    <3>3. CASE \/ \E r \in Recipients : ReadForDisable(k, r)
               \/ \E r \in Recipients, a \in Addresses : ReadForRevoke(k, r, a)
               \/ \E r \in Recipients, a \in Addresses, b \in Addresses :
                    ReadForReplace(k, r, a, b)
      <4>1. ASSUME NEW r \in Recipients, ReadForDisable(k, r)
            PROVE  TypeOK'
        <5>1. [op |-> "disable", recipient |-> r] \in DeskCall
          BY DEF DeskCall
        <5>. QED BY <3>1, <4>1, <5>1 DEF ReadForDisable
      <4>2. ASSUME NEW r \in Recipients, NEW a \in Addresses,
                   ReadForRevoke(k, r, a)
            PROVE  TypeOK'
        BY <3>0, <3>1, <4>2, CallTypes DEF ReadForRevoke
      <4>3. ASSUME NEW r \in Recipients, NEW a \in Addresses,
                   NEW b \in Addresses, ReadForReplace(k, r, a, b)
            PROVE  TypeOK'
        <5>1. [op |-> "replace", recipient |-> r, address |-> a,
               replacement |-> b] \in DeskCall
          BY CallTypes
        <5>. QED BY <3>1, <4>3, <5>1 DEF ReadForReplace
      <4>. QED BY <3>3, <4>1, <4>2, <4>3
    <3>4. ASSUME NEW r \in Recipients, NEW a \in Addresses,
                 ReadForDefault(k, r, a)
          PROVE  TypeOK'
      <4>1. Clearing(r, a, NoCall) \in DeskCall
        BY CallTypes DEF Clearing
      <4>. QED BY <3>1, <3>4, <4>1 DEF ReadForDefault
    <3>5. ASSUME FinishDisable(k)
          PROVE  TypeOK'
      <4>1. c \in DeskCall /\ c.recipient \in Recipients
        BY <3>5, CallFields DEF FinishDisable
      <4>2. RegistryTypeOK'
        BY <3>5, <4>1, RegistryStepsType DEF FinishDisable
      <4>. QED BY <3>2, <3>5, <4>2 DEF FinishDisable, EndCall
    <3>6. ASSUME FinishRevoke(k)
          PROVE  TypeOK'
      <4>1. c \in DeskCall /\ c.recipient \in Recipients /\ c.address \in Addresses
        BY <3>6, CallFields DEF FinishRevoke
      <4>2. RegistryTypeOK'
        BY <3>6, <4>1, RegistryStepsType DEF FinishRevoke
      <4>3. defaults' \in [Recipients -> SUBSET Addresses]
        BY <3>6, <4>1 DEF FinishRevoke, ClearDefault
      <4>. QED BY <3>2, <3>6, <4>2, <4>3 DEF FinishRevoke, EndCall
    <3>7. ASSUME NEW from \in Times, NEW until \in Times \cup {Never},
                 CreateReplacement(k, from, until)
          PROVE  TypeOK'
      <4>1. /\ c \in DeskCall
            /\ c.recipient \in Recipients
            /\ c.address \in Addresses
            /\ c.replacement \in Addresses
        BY <3>7, CallFields DEF CreateReplacement
      <4>2. Replaced(c) \in DeskCall
        BY <3>0, <4>1, CallTypes DEF Replaced
      <4>3. RegistryTypeOK'
        BY <3>7, <4>1, RegistryStepsType DEF CreateReplacement
      <4>. QED BY <3>2, <3>7, <4>2, <4>3 DEF CreateReplacement
    <3>8. ASSUME ReplaceDefault(k)
          PROVE  TypeOK'
      <4>1. /\ c \in DeskCall
            /\ c.recipient \in Recipients
            /\ c.address \in Addresses
            /\ c.replacement \in Addresses
        BY <3>8, CallFields DEF ReplaceDefault
      <4>2. Replaced(c) \in Revocation
        BY <4>1, CallTypes DEF Replaced
      <4>3. Clearing(c.recipient, c.replacement, Replaced(c)) \in DeskCall
        BY <4>1, <4>2, CallTypes DEF Clearing
      <4>4. RegistryTypeOK'
        BY <3>8, RegistryUnchanged DEF ReplaceDefault
      <4>. QED BY <3>2, <3>8, <4>3, <4>4 DEF ReplaceDefault
    <3>9. ASSUME NEW a \in Addresses, LockDefault(k, a)
          PROVE  TypeOK'
      <4>. DEFINE next == [c EXCEPT !.todo = @ \ {a}, !.locked = @ \cup {a}]
      <4>1. /\ c \in DeskCall
            /\ c.op = "default"
            /\ desk' = [desk EXCEPT ![k] = next]
        BY <3>9 DEF LockDefault
      <4>2. next \in DeskCall
        BY <4>1 DEF DeskCall, Revocation
      <4>3. RegistryTypeOK'
        BY <3>9, RegistryUnchanged DEF LockDefault
      <4>. QED BY <3>2, <3>9, <4>1, <4>2, <4>3 DEF LockDefault
    <3>10. ASSUME NEW from \in Times, NEW until \in Times \cup {Never},
                  InsertDefault(k, from, until)
           PROVE  TypeOK'
      <4>1. /\ c \in DeskCall
            /\ c.recipient \in Recipients
            /\ c.address \in Addresses
            /\ c.next \in DeskCall \cup {NoCall}
        BY <3>0, <3>10, CallFields DEF InsertDefault
      <4>2. RegistryTypeOK'
        BY <3>10, <4>1, RegistryStepsType DEF InsertDefault
      <4>3. defaults' \in [Recipients -> SUBSET Addresses]
        BY <3>10, <4>1 DEF InsertDefault
      <4>. QED BY <3>2, <3>10, <4>1, <4>2, <4>3 DEF InsertDefault
    <3>11. ASSUME \/ RefuseReplacement(k) \/ RefuseInsert(k)
                  \/ InterruptCall(k) \/ AbortCall(k)
           PROVE  TypeOK'
      <4>1. /\ UNCHANGED <<registryVars, defaults>>
            /\ desk' = [desk EXCEPT ![k] = NoCall]
            /\ UNCHANGED <<pc, request, tx, enqueued, outbox, submissions, calls>>
            /\ faults' \in Nat
        BY <3>11 DEF RefuseReplacement, RefuseInsert, InterruptCall, AbortCall,
             EndCall
      <4>2. RegistryTypeOK'
        BY <4>1, RegistryUnchanged
      <4>. QED BY <3>2, <4>1, <4>2
    <3>. QED
      BY <2>8, <3>3, <3>4, <3>5, <3>6, <3>7, <3>8, <3>9, <3>10, <3>11
         DEF DeskStep, CreateDefault
  <2>9. ASSUME NEW r \in Recipients, NEW i \in Identifiers,
               NEW visible \in BOOLEAN, DeskCreateRecipient(r, i, visible)
        PROVE  TypeOK'
    BY <2>9, RegistryStepsType DEF DeskCreateRecipient, OneStep
  <2>10. ASSUME NEW r \in Recipients, NEW a \in Addresses, NEW from \in Times,
                NEW until \in Times \cup {Never},
                DeskCreateDestination(r, a, from, until)
         PROVE  TypeOK'
    BY <2>10, RegistryStepsType DEF DeskCreateDestination, OneStep
  <2>11. CASE Tick
    BY <2>11, RegistryStepsType DEF Tick, deskVars
  <2>12. CASE UNCHANGED vars
    BY <2>12 DEF vars, registryVars, RegistryTypeOK
  <2>. QED
    BY <2>1, <2>2, <2>3, <2>4, <2>5, <2>6, <2>7, <2>8, <2>9, <2>10, <2>11,
       <2>12 DEF Next, Ingest
<1>. QED BY <1>1, <1>2, PTL DEF Spec

-----------------------------------------------------------------------------
(* Nobody else holds the locks that a transaction holds, and a sequence    *)
(* number that is being inserted is not recorded yet.                      *)
LockInv ==
  /\ \A g, h \in Handlers, r \in Recipients :
       LocksRecipient(g, r) /\ LocksRecipient(h, r) => g = h
  /\ \A g, h \in Handlers, s \in Nat :
       LocksSequence(g, s) /\ LocksSequence(h, s) => g = h
  /\ \A h \in Handlers, q \in attestations :
       ~LocksSequence(h, q.sequence)

(* What an open transaction has written on the rows that are not its own:  *)
(* the ACTIVE ones, and those only, are being revoked.                     *)
SupersedesActive(h, a) ==
  LET row == destination[request[h].recipient][a] IN
  IF row.status = "ACTIVE" THEN tx[h][a] = Revoked(row)
                           ELSE tx[h][a] = Unwritten

Applies(h, a) ==
  LET p == request[h]
      row == destination[p.recipient][a] IN
  IF a = p.address
  THEN IF p.revocation
       THEN row.status # "ABSENT" /\ tx[h][a] = Retired(row, p)
       ELSE tx[h][a] = Activated(p)
  ELSE IF p.revocation THEN tx[h][a] = Unwritten ELSE SupersedesActive(h, a)

(* PlanInv for one handler; it reads only h's request, transaction, and    *)
(* the destination rows of h's recipient.                                  *)
PlanOf(h) ==
  \A a \in Addresses :
    /\ pc[h] \in {"idle", "upsertRecipient", "upsertIdentifier",
                  "applyDestination"} => tx[h][a] = Unwritten
    /\ pc[h] = "activateDestination" =>
         /\ ~request[h].revocation
         /\ IF a = request[h].address THEN tx[h][a] = Unwritten
                                      ELSE SupersedesActive(h, a)
    /\ pc[h] \in {"createAttestation", "enqueue", "commit"} => Applies(h, a)

PlanInv == \A h \in Handlers : PlanOf(h)

OutboxInv ==
  /\ OutboxMatchesLedger
  /\ \A h \in Handlers : enqueued[h] = IF pc[h] = "commit" THEN 1 ELSE 0

IInv == LockInv /\ PlanInv /\ OutboxInv

LEMMA WrittenRows ==
  ASSUME NEW row \in Row, NEW p \in Payload
  PROVE  /\ Revoked(row) # Unwritten
         /\ Activated(p) # Unwritten
         /\ Retired(row, p) # Unwritten
  BY RowWritesType, UnwrittenAssumption

(* A dashboard step changes no request and no attestation, and changes a   *)
(* destination only if no transaction has written it: by inserting it or   *)
(* by revoking it.                                                         *)
DeskOnly ==
  \/ \E k \in Desks : DeskStep(k)
  \/ \E r \in Recipients, i \in Identifiers, visible \in BOOLEAN :
       DeskCreateRecipient(r, i, visible)
  \/ \E r \in Recipients, a \in Addresses, from \in Times,
        until \in Times \cup {Never} : DeskCreateDestination(r, a, from, until)
  \/ Tick

LEMMA DeskFrame ==
  ASSUME TypeOK, DeskOnly
  PROVE  /\ UNCHANGED <<pc, request, tx, enqueued, outbox, attestations>>
         /\ \/ UNCHANGED destination
            \/ \E r \in Recipients, a \in Addresses :
                 /\ UnwrittenByRequests(r, a)
                 /\ \/ /\ destination[r][a].status = "ABSENT"
                       /\ \E row \in Row :
                            /\ row.status = "PENDING"
                            /\ destination' =
                                 [destination EXCEPT ![r][a] = row]
                    \/ \E row \in Row :
                         /\ row.status = "REVOKED"
                         /\ destination' = [destination EXCEPT ![r][a] = row]
                         /\ destination[r][a].status # "ABSENT"
         /\ [RegistryNext]_registryVars
<1>. DEFINE Effect ==
       \/ UNCHANGED destination
       \/ \E r \in Recipients, a \in Addresses :
            /\ UnwrittenByRequests(r, a)
            /\ \/ /\ destination[r][a].status = "ABSENT"
                  /\ \E row \in Row :
                       /\ row.status = "PENDING"
                       /\ destination' = [destination EXCEPT ![r][a] = row]
               \/ \E row \in Row :
                    /\ row.status = "REVOKED"
                    /\ destination' = [destination EXCEPT ![r][a] = row]
                    /\ destination[r][a].status # "ABSENT"
            Goal == /\ UNCHANGED <<pc, request, tx, enqueued, outbox,
                                   attestations>>
                    /\ Effect
                    /\ [RegistryNext]_registryVars
<1>1. ASSUME NEW r \in Recipients, NEW a \in Addresses, NEW from \in Times,
             NEW until \in Times \cup {Never},
             UnwrittenByRequests(r, a), CreateDestination(r, a, from, until)
      PROVE  Effect /\ RegistryNext /\ UNCHANGED attestations
  <2>. DEFINE row == [status |-> "PENDING", effectiveFrom |-> from,
                      expiresAt |-> until]
  <2>1. row \in Row /\ row.status = "PENDING"
    BY TimesAssumption DEF Row, DestinationStatus
  <2>2. destination' = [destination EXCEPT ![r][a] = row]
        /\ destination[r][a].status = "ABSENT"
    BY <1>1 DEF CreateDestination
  <2>3. Effect
    BY <1>1, <2>1, <2>2
  <2>4. RegistryNext
    BY <1>1 DEF RegistryNext
  <2>. QED BY <1>1, <2>3, <2>4 DEF CreateDestination
<1>2. ASSUME NEW r \in Recipients, NEW a \in Addresses,
             UnwrittenByRequests(r, a), RevokeDestination(r, a)
      PROVE  Effect /\ RegistryNext /\ UNCHANGED attestations
  <2>. DEFINE row == [[destination[r][a] EXCEPT !.status = "REVOKED"]
                        EXCEPT !.expiresAt = now]
  <2>0. destination[r][a] \in Row /\ now \in Nat
    BY DEF TypeOK, RegistryTypeOK
  <2>1. row \in Row /\ row.status = "REVOKED"
    BY <2>0 DEF Row, DestinationStatus
  <2>2. destination' = [destination EXCEPT ![r][a] = row]
        /\ destination[r][a].status # "ABSENT"
    BY <1>2 DEF RevokeDestination, TypeOK, RegistryTypeOK
  <2>3. Effect
    BY <1>2, <2>1, <2>2
  <2>4. RegistryNext
    BY <1>2 DEF RegistryNext
  <2>. QED BY <1>2, <2>3, <2>4 DEF RevokeDestination
<1>3. ASSUME NEW k \in Desks, DeskStep(k)
      PROVE  Goal
  <2>1. CASE \/ \E r \in Recipients : ReadForDisable(k, r)
             \/ \E r \in Recipients, a \in Addresses : ReadForRevoke(k, r, a)
             \/ \E r \in Recipients, a \in Addresses, b \in Addresses :
                  ReadForReplace(k, r, a, b)
    BY <2>1 DEF ReadForDisable, ReadForRevoke, ReadForReplace, Call,
         registryVars
  <2>2. CASE \/ \E r \in Recipients, a \in Addresses : ReadForDefault(k, r, a)
             \/ ReplaceDefault(k)
             \/ \E a \in Addresses : LockDefault(k, a)
    BY <2>2 DEF ReadForDefault, ReplaceDefault, LockDefault, Call, registryVars
  <2>6. CASE \/ RefuseReplacement(k) \/ RefuseInsert(k)
             \/ InterruptCall(k) \/ AbortCall(k)
    BY <2>6 DEF RefuseReplacement, RefuseInsert, InterruptCall, AbortCall,
         EndCall, registryVars
  <2>3. CASE FinishDisable(k)
    <3>1. desk[k].recipient \in Recipients
      BY <2>3, CallFields DEF FinishDisable, TypeOK
    <3>2. RegistryNext
      BY <2>3, <3>1 DEF FinishDisable, RegistryNext
    <3>. QED BY <2>3, <3>2 DEF FinishDisable, EndCall, DisableRecipient
  <2>4. CASE FinishRevoke(k)
    <3>1. desk[k].recipient \in Recipients /\ desk[k].address \in Addresses
      BY <2>4, CallFields DEF FinishRevoke, TypeOK
    <3>2. Effect /\ RegistryNext /\ UNCHANGED attestations
      BY <1>2, <2>4, <3>1 DEF FinishRevoke, DestinationFree
    <3>. QED BY <2>4, <3>2 DEF FinishRevoke, EndCall
  <2>5. CASE \E from \in Times, until \in Times \cup {Never} :
               CreateReplacement(k, from, until)
    <3>1. PICK from \in Times, until \in Times \cup {Never} :
            CreateReplacement(k, from, until)
      BY <2>5
    <3>2. desk[k].recipient \in Recipients /\ desk[k].replacement \in Addresses
      BY <3>1, CallFields DEF CreateReplacement, TypeOK
    <3>3. Effect /\ RegistryNext /\ UNCHANGED attestations
      BY <1>1, <3>1, <3>2 DEF CreateReplacement, DestinationFree
    <3>. QED BY <3>1, <3>3 DEF CreateReplacement
  <2>7. CASE \E from \in Times, until \in Times \cup {Never} :
               InsertDefault(k, from, until)
    <3>1. PICK from \in Times, until \in Times \cup {Never} :
            InsertDefault(k, from, until)
      BY <2>7
    <3>2. desk[k].recipient \in Recipients /\ desk[k].address \in Addresses
      BY <3>1, CallFields DEF InsertDefault, TypeOK
    <3>3. Effect /\ RegistryNext /\ UNCHANGED attestations
      BY <1>1, <3>1, <3>2 DEF InsertDefault, DestinationFree
    <3>. QED BY <3>1, <3>3 DEF InsertDefault
  <2>. QED
    BY <1>3, <2>1, <2>2, <2>3, <2>4, <2>5, <2>6, <2>7
       DEF DeskStep, CreateDefault
<1>4. ASSUME NEW r \in Recipients, NEW i \in Identifiers,
             NEW visible \in BOOLEAN, DeskCreateRecipient(r, i, visible)
      PROVE  Goal
  <2>1. RegistryNext
    BY <1>4 DEF DeskCreateRecipient, RegistryNext
  <2>. QED BY <1>4, <2>1 DEF DeskCreateRecipient, OneStep, CreateRecipient
<1>5. ASSUME NEW r \in Recipients, NEW a \in Addresses, NEW from \in Times,
             NEW until \in Times \cup {Never},
             DeskCreateDestination(r, a, from, until)
      PROVE  Goal
  <2>1. Effect /\ RegistryNext /\ UNCHANGED attestations
    BY <1>1, <1>5 DEF DeskCreateDestination, DestinationFree
  <2>. QED BY <1>5, <2>1 DEF DeskCreateDestination, OneStep
<1>6. CASE Tick
  BY <1>6 DEF Tick, RegistryTick, RegistryNext, deskVars
<1>. QED BY <1>3, <1>4, <1>5, <1>6 DEF DeskOnly

LEMMA NextCases ==
  ASSUME [Next]_vars
  PROVE  \/ \E h \in Handlers, p \in Payloads : Submit(h, p)
         \/ \E h \in Handlers :
              \/ UpsertRecipient(h) \/ UpsertIdentifier(h)
              \/ RetireDestination(h) \/ RevokeOthers(h)
              \/ ActivateDestination(h) \/ CreateAttestation(h)
              \/ Enqueue(h) \/ Commit(h)
              \/ Refuse(h) \/ Fail(h) \/ AbortRequest(h)
         \/ DeskOnly
         \/ UNCHANGED vars
  BY DEF Next, Ingest, DeskOnly

LEMMA LockInductive ==
  ASSUME TypeOK, LockInv, [Next]_vars
  PROVE  LockInv'
<1>. USE DEF TypeOK, LockInv
<1>1. ASSUME UNCHANGED <<pc, request, attestations>>
      PROVE  LockInv'
  BY <1>1 DEF LocksRecipient, LocksSequence
<1>2. ASSUME NEW h \in Handlers, NEW p \in Payloads, Submit(h, p)
      PROVE  LockInv'
  BY <1>2 DEF Submit, LocksRecipient, LocksSequence, registryVars
<1>3. CASE \E h \in Handlers : UpsertRecipient(h)
  <2>1. PICK h \in Handlers : UpsertRecipient(h)
    BY <1>3
  <2>2. /\ pc' = [pc EXCEPT ![h] = "upsertIdentifier"]
        /\ UNCHANGED <<request, attestations>>
        /\ \A g \in Handlers \ {h} : ~LocksRecipient(g, request[h].recipient)
    BY <2>1 DEF UpsertRecipient, Continue, registryVars, Others
  <2>. QED BY <2>2 DEF LocksRecipient, LocksSequence
<1>4. CASE \E h \in Handlers : CreateAttestation(h)
  <2>1. PICK h \in Handlers : CreateAttestation(h)
    BY <1>4
  <2>2. /\ pc[h] = "createAttestation"
        /\ pc' = [pc EXCEPT ![h] = "enqueue"]
        /\ UNCHANGED <<request, attestations>>
        /\ \A g \in Handlers \ {h} : ~LocksSequence(g, request[h].sequence)
        /\ \A q \in attestations : q.sequence # request[h].sequence
    BY <2>1 DEF CreateAttestation, Continue, registryVars, Others
  <2>. QED BY <2>2 DEF LocksRecipient, LocksSequence
<1>5. CASE \E h \in Handlers :
             \/ UpsertIdentifier(h) \/ RetireDestination(h)
             \/ RevokeOthers(h) \/ ActivateDestination(h)
  <2>1. PICK h \in Handlers :
           \/ UpsertIdentifier(h) \/ RetireDestination(h)
           \/ RevokeOthers(h) \/ ActivateDestination(h)
    BY <1>5
  <2>2. PICK next \in {"applyDestination", "activateDestination",
                       "createAttestation"} :
          /\ pc' = [pc EXCEPT ![h] = next]
          /\ pc[h] \notin {"idle", "upsertRecipient", "enqueue", "commit"}
          /\ UNCHANGED <<request, attestations>>
    BY <2>1 DEF UpsertIdentifier, RetireDestination, RevokeOthers,
         ActivateDestination, Continue, registryVars
  <2>. QED BY <2>2 DEF LocksRecipient, LocksSequence
<1>6. CASE \E h \in Handlers : Enqueue(h)
  <2>1. PICK h \in Handlers : Enqueue(h)
    BY <1>6
  <2>2. /\ pc[h] = "enqueue"
        /\ pc' = [pc EXCEPT ![h] = "commit"]
        /\ UNCHANGED <<request, attestations>>
    BY <2>1 DEF Enqueue, Continue, registryVars
  <2>. QED BY <2>2 DEF LocksRecipient, LocksSequence
<1>7. CASE \E h \in Handlers : Commit(h)
  <2>1. PICK h \in Handlers : Commit(h)
    BY <1>7
  <2>2. /\ pc[h] = "commit"
        /\ pc' = [pc EXCEPT ![h] = "idle"]
        /\ request' = [request EXCEPT ![h] = NoRequest]
        /\ attestations' = attestations \cup {request[h]}
    BY <2>1 DEF Commit, EndRequest
  <2>3. request[h] \in Payloads /\ request[h].sequence \in Nat
    BY <2>2, PayloadFields DEF Payload
  <2>4. LocksSequence(h, request[h].sequence)
    BY <2>2 DEF LocksSequence
  <2>5. \A g \in Handlers \ {h} : ~LocksSequence(g, request[h].sequence)
    BY <2>3, <2>4
  <2>6. \A g \in Handlers : \A r \in Recipients :
          LocksRecipient(g, r)' => g # h /\ LocksRecipient(g, r)
    BY <2>2 DEF LocksRecipient
  <2>7. \A g \in Handlers : \A s : LocksSequence(g, s)' =>
          g # h /\ LocksSequence(g, s)
    BY <2>2 DEF LocksSequence
  <2>. QED BY <2>2, <2>5, <2>6, <2>7
<1>8. CASE \E h \in Handlers : Refuse(h) \/ Fail(h) \/ AbortRequest(h)
  <2>1. PICK h \in Handlers : Refuse(h) \/ Fail(h) \/ AbortRequest(h)
    BY <1>8
  <2>2. /\ pc' = [pc EXCEPT ![h] = "idle"]
        /\ request' = [request EXCEPT ![h] = NoRequest]
        /\ UNCHANGED attestations
    BY <2>1 DEF Refuse, Fail, AbortRequest, EndRequest, registryVars
  <2>. QED BY <2>2 DEF LocksRecipient, LocksSequence
<1>9. CASE DeskOnly
  BY <1>1, <1>9, DeskFrame
<1>10. CASE UNCHANGED vars
  BY <1>1, <1>10 DEF vars, registryVars
<1>. QED
  BY NextCases, <1>2, <1>3, <1>4, <1>5, <1>6, <1>7, <1>8, <1>9, <1>10

(* The transactions of one recipient are apart, so what h holds open is    *)
(* not another handler's to change.                                        *)
LEMMA OpenIsLocked ==
  ASSUME TypeOK, NEW h \in Handlers,
         pc[h] \notin {"idle", "upsertRecipient"}
  PROVE  /\ request[h] \in Payload
         /\ request[h].recipient \in Recipients
         /\ request[h].address \in Addresses
         /\ LocksRecipient(h, request[h].recipient)
  BY PayloadFields DEF TypeOK, LocksRecipient

LEMMA PlanKept ==
  ASSUME TypeOK, NEW h \in Handlers, PlanOf(h),
         UNCHANGED <<pc[h], request[h], tx[h]>>,
         pc[h] \in {"idle", "upsertRecipient", "upsertIdentifier",
                    "applyDestination"}
           \/ destination'[request[h].recipient]
                = destination[request[h].recipient]
  PROVE  PlanOf(h)'
  BY DEF PlanOf, SupersedesActive, Applies

LEMMA PlanSurvivesDesk ==
  ASSUME TypeOK, DeskOnly, NEW h \in Handlers, PlanOf(h)
  PROVE  PlanOf(h)'
<1>1. UNCHANGED <<pc, request, tx, enqueued, outbox, attestations>>
  BY DeskFrame
<1>2. CASE pc[h] \in {"idle", "upsertRecipient", "upsertIdentifier",
                      "applyDestination"}
  BY <1>1, <1>2, PlanKept
<1>3. CASE pc[h] \notin {"idle", "upsertRecipient", "upsertIdentifier",
                         "applyDestination"}
  <2>. DEFINE p == request[h]
  <2>1. p \in Payload /\ p.recipient \in Recipients /\ p.address \in Addresses
    BY <1>3, OpenIsLocked
  <2>2. CASE UNCHANGED destination
    BY <1>1, <2>2, PlanKept
  <2>3. CASE \E r \in Recipients, a \in Addresses :
               /\ UnwrittenByRequests(r, a)
               /\ \/ /\ destination[r][a].status = "ABSENT"
                     /\ \E row \in Row :
                          /\ row.status = "PENDING"
                          /\ destination' = [destination EXCEPT ![r][a] = row]
                  \/ \E row \in Row :
                       /\ row.status = "REVOKED"
                       /\ destination' = [destination EXCEPT ![r][a] = row]
                       /\ destination[r][a].status # "ABSENT"
    <3>1. PICK r \in Recipients, a \in Addresses, row \in Row :
            /\ UnwrittenByRequests(r, a)
            /\ row.status # "ACTIVE"
            /\ destination' = [destination EXCEPT ![r][a] = row]
      BY <2>3
    <3>2. CASE r # p.recipient
      <4>1. destination'[p.recipient] = destination[p.recipient]
        BY <2>1, <3>1, <3>2 DEF TypeOK, RegistryTypeOK
      <4>. QED BY <1>1, <4>1, PlanKept
    <3>3. CASE r = p.recipient
      <4>1. tx[h][a] = Unwritten
        BY <1>3, <3>1, <3>3 DEF UnwrittenByRequests, LocksDestination
      <4>2. \A b \in Addresses \ {a} :
              destination'[p.recipient][b] = destination[p.recipient][b]
        BY <3>1, <3>3 DEF TypeOK, RegistryTypeOK
      <4>3. destination'[p.recipient][a] = row
        BY <3>1, <3>3 DEF TypeOK, RegistryTypeOK
      <4>4. destination[p.recipient][a] \in Row
        BY <2>1 DEF TypeOK, RegistryTypeOK
      <4>5. a = p.address => pc[h] = "activateDestination"
        BY <1>3, <2>1, <4>1, <4>4, WrittenRows
           DEF PlanOf, Applies, TypeOK, PC
      <4>6. ASSUME NEW b \in Addresses
            PROVE  /\ pc[h] = "activateDestination" =>
                        /\ ~p.revocation
                        /\ IF b = p.address THEN tx[h][b] = Unwritten
                           ELSE SupersedesActive(h, b)'
                   /\ pc[h] \in {"createAttestation", "enqueue", "commit"} =>
                        Applies(h, b)'
        <5>1. CASE b = a
          BY <1>1, <3>1, <4>1, <4>3, <4>5, <5>1
             DEF PlanOf, SupersedesActive, Applies
        <5>2. CASE b # a
          BY <1>1, <4>2, <5>2 DEF PlanOf, SupersedesActive, Applies
        <5>. QED BY <5>1, <5>2
      <4>. QED BY <1>1, <1>3, <4>6 DEF PlanOf
    <3>. QED BY <3>2, <3>3
  <2>. QED BY <2>2, <2>3, DeskFrame
<1>. QED BY <1>2, <1>3

LEMMA PlanInductive ==
  ASSUME TypeOK, LockInv, PlanInv, [Next]_vars
  PROVE  PlanInv'
<1>1. ASSUME NEW h \in Handlers, NEW g \in Handlers \ {h},
             UNCHANGED <<pc[g], request[g], tx[g]>>, UNCHANGED destination
      PROVE  PlanOf(g)'
  BY <1>1, PlanKept DEF PlanInv
<1>2. CASE \E h \in Handlers, p \in Payloads : Submit(h, p)
  <2>1. PICK h \in Handlers, p \in Payloads : Submit(h, p)
    BY <1>2
  <2>2. PlanOf(h)'
    BY <2>1 DEF Submit, PlanInv, PlanOf, TypeOK
  <2>3. \A g \in Handlers \ {h} : PlanOf(g)'
    BY <1>1, <2>1 DEF Submit, registryVars, TypeOK
  <2>. QED BY <2>2, <2>3 DEF PlanInv
<1>3. CASE \E h \in Handlers : UpsertRecipient(h) \/ UpsertIdentifier(h)
  <2>1. PICK h \in Handlers : UpsertRecipient(h) \/ UpsertIdentifier(h)
    BY <1>3
  <2>2. PICK next \in {"upsertIdentifier", "applyDestination"} :
          /\ pc[h] \in {"upsertRecipient", "upsertIdentifier"}
          /\ pc' = [pc EXCEPT ![h] = next]
          /\ UNCHANGED <<request, tx, destination>>
    BY <2>1 DEF UpsertRecipient, UpsertIdentifier, Continue, registryVars
  <2>3. PlanOf(h)'
    BY <2>2 DEF PlanInv, PlanOf, TypeOK
  <2>4. \A g \in Handlers \ {h} : PlanOf(g)'
    BY <1>1, <2>2 DEF TypeOK
  <2>. QED BY <2>3, <2>4 DEF PlanInv
<1>4. CASE \E h \in Handlers : RetireDestination(h)
  <2>1. PICK h \in Handlers : RetireDestination(h)
    BY <1>4
  <2>. DEFINE p == request[h]
              row == destination[p.recipient][p.address]
  <2>2. /\ pc[h] = "applyDestination"
        /\ p.revocation
        /\ row.status # "ABSENT"
        /\ pc' = [pc EXCEPT ![h] = "createAttestation"]
        /\ tx' = [tx EXCEPT ![h] = [tx[h] EXCEPT ![p.address] =
                                      Retired(row, p)]]
        /\ UNCHANGED <<request, destination>>
    BY <2>1 DEF RetireDestination, Continue, registryVars
  <2>3. p.address \in Addresses
    BY <2>2, OpenIsLocked
  <2>4. \A a \in Addresses : tx[h][a] = Unwritten
    BY <2>2 DEF PlanInv, PlanOf
  <2>5. \A a \in Addresses :
          tx'[h][a] = IF a = p.address THEN Retired(row, p) ELSE Unwritten
    BY <2>2, <2>3, <2>4 DEF TypeOK
  <2>6. \A a \in Addresses : Applies(h, a)'
    BY <2>2, <2>5 DEF Applies
  <2>7. PlanOf(h)'
    BY <2>2, <2>6 DEF PlanOf, TypeOK
  <2>8. \A g \in Handlers \ {h} : PlanOf(g)'
    BY <1>1, <2>2 DEF TypeOK
  <2>. QED BY <2>7, <2>8 DEF PlanInv
<1>5. CASE \E h \in Handlers : RevokeOthers(h)
  <2>1. PICK h \in Handlers : RevokeOthers(h)
    BY <1>5
  <2>. DEFINE p == request[h]
              rows == destination[p.recipient]
              others == {a \in Addresses \ {p.address} :
                           rows[a].status = "ACTIVE"}
  <2>2. /\ pc[h] = "applyDestination"
        /\ ~p.revocation
        /\ pc' = [pc EXCEPT ![h] = "activateDestination"]
        /\ tx' = [tx EXCEPT ![h] = [a \in Addresses |->
                    IF a \in others THEN Revoked(rows[a]) ELSE tx[h][a]]]
        /\ UNCHANGED <<request, destination>>
    BY <2>1 DEF RevokeOthers, Continue, registryVars
  <2>3. \A a \in Addresses : tx[h][a] = Unwritten
    BY <2>2 DEF PlanInv, PlanOf
  <2>4. \A a \in Addresses :
          tx'[h][a] = IF a \in others THEN Revoked(rows[a]) ELSE Unwritten
    BY <2>2, <2>3 DEF TypeOK
  <2>5. PlanOf(h)'
    BY <2>2, <2>4 DEF PlanOf, SupersedesActive, TypeOK
  <2>6. \A g \in Handlers \ {h} : PlanOf(g)'
    BY <1>1, <2>2 DEF TypeOK
  <2>. QED BY <2>5, <2>6 DEF PlanInv
<1>6. CASE \E h \in Handlers : ActivateDestination(h)
  <2>1. PICK h \in Handlers : ActivateDestination(h)
    BY <1>6
  <2>. DEFINE p == request[h]
  <2>2. /\ pc[h] = "activateDestination"
        /\ pc' = [pc EXCEPT ![h] = "createAttestation"]
        /\ tx' = [tx EXCEPT ![h] = [tx[h] EXCEPT ![p.address] = Activated(p)]]
        /\ UNCHANGED <<request, destination>>
    BY <2>1 DEF ActivateDestination, Continue, registryVars
  <2>3. p.address \in Addresses
    BY <2>2, OpenIsLocked
  <2>4. /\ ~p.revocation
        /\ \A a \in Addresses : a # p.address => SupersedesActive(h, a)
    BY <2>2, <2>3 DEF PlanInv, PlanOf
  <2>5. \A a \in Addresses :
          tx'[h][a] = IF a = p.address THEN Activated(p) ELSE tx[h][a]
    BY <2>2, <2>3 DEF TypeOK
  <2>6. \A a \in Addresses : Applies(h, a)'
    BY <2>2, <2>4, <2>5 DEF Applies, SupersedesActive
  <2>7. PlanOf(h)'
    BY <2>2, <2>6 DEF PlanOf, TypeOK
  <2>8. \A g \in Handlers \ {h} : PlanOf(g)'
    BY <1>1, <2>2 DEF TypeOK
  <2>. QED BY <2>7, <2>8 DEF PlanInv
<1>7. CASE \E h \in Handlers : CreateAttestation(h) \/ Enqueue(h)
  <2>1. PICK h \in Handlers : CreateAttestation(h) \/ Enqueue(h)
    BY <1>7
  <2>2. PICK next \in {"enqueue", "commit"} :
          /\ pc[h] \in {"createAttestation", "enqueue"}
          /\ pc' = [pc EXCEPT ![h] = next]
          /\ UNCHANGED <<request, tx, destination>>
    BY <2>1 DEF CreateAttestation, Enqueue, Continue, registryVars
  <2>3. PlanOf(h)'
    BY <2>2 DEF PlanInv, PlanOf, Applies, SupersedesActive, TypeOK
  <2>4. \A g \in Handlers \ {h} : PlanOf(g)'
    BY <1>1, <2>2 DEF TypeOK
  <2>. QED BY <2>3, <2>4 DEF PlanInv
<1>8. CASE \E h \in Handlers : Commit(h)
  <2>1. PICK h \in Handlers : Commit(h)
    BY <1>8
  <2>. DEFINE p == request[h]
  <2>2. /\ pc[h] = "commit"
        /\ pc' = [pc EXCEPT ![h] = "idle"]
        /\ request' = [request EXCEPT ![h] = NoRequest]
        /\ tx' = [tx EXCEPT ![h] = NoWrites]
        /\ destination' = [destination EXCEPT ![p.recipient] =
             [a \in Addresses |-> IF tx[h][a] # Unwritten
                THEN tx[h][a] ELSE destination[p.recipient][a]]]
    BY <2>1 DEF Commit, EndRequest
  <2>3. PlanOf(h)'
    BY <2>2 DEF PlanOf, NoWrites, TypeOK
  <2>4. ASSUME NEW g \in Handlers \ {h}
        PROVE  PlanOf(g)'
    <3>1. UNCHANGED <<pc[g], request[g], tx[g]>>
      BY <2>2 DEF TypeOK
    <3>2. CASE pc[g] \in {"idle", "upsertRecipient", "upsertIdentifier",
                          "applyDestination"}
      BY <3>1, <3>2, PlanKept DEF PlanInv
    <3>3. CASE pc[g] \notin {"idle", "upsertRecipient", "upsertIdentifier",
                             "applyDestination"}
      <4>1. /\ LocksRecipient(g, request[g].recipient)
            /\ request[g].recipient \in Recipients
        BY <3>3, OpenIsLocked
      <4>2. LocksRecipient(h, p.recipient) /\ p.recipient \in Recipients
        BY <2>2, OpenIsLocked
      <4>3. request[g].recipient # p.recipient
        BY <4>1, <4>2 DEF LockInv
      <4>4. destination'[request[g].recipient]
              = destination[request[g].recipient]
        BY <2>2, <4>1, <4>2, <4>3 DEF TypeOK, RegistryTypeOK
      <4>. QED BY <3>1, <4>4, PlanKept DEF PlanInv
    <3>. QED BY <3>2, <3>3
  <2>. QED BY <2>3, <2>4 DEF PlanInv
<1>9. CASE \E h \in Handlers : Refuse(h) \/ Fail(h) \/ AbortRequest(h)
  <2>1. PICK h \in Handlers : Refuse(h) \/ Fail(h) \/ AbortRequest(h)
    BY <1>9
  <2>2. /\ pc' = [pc EXCEPT ![h] = "idle"]
        /\ request' = [request EXCEPT ![h] = NoRequest]
        /\ tx' = [tx EXCEPT ![h] = NoWrites]
        /\ UNCHANGED destination
    BY <2>1 DEF Refuse, Fail, AbortRequest, EndRequest, registryVars
  <2>3. PlanOf(h)'
    BY <2>2 DEF PlanOf, NoWrites, TypeOK
  <2>4. \A g \in Handlers \ {h} : PlanOf(g)'
    BY <1>1, <2>2 DEF TypeOK
  <2>. QED BY <2>3, <2>4 DEF PlanInv
<1>10. CASE DeskOnly
  BY <1>10, PlanSurvivesDesk DEF PlanInv
<1>11. CASE UNCHANGED vars
  BY <1>11, PlanKept DEF vars, registryVars, PlanInv
<1>. QED
  BY NextCases, <1>2, <1>3, <1>4, <1>5, <1>6, <1>7, <1>8, <1>9, <1>10, <1>11

(* What a commit does to the rows of its recipient is what the registry's  *)
(* Attest does, all at once, to the rows as they are at that instant.      *)
LEMMA CommitApplies ==
  ASSUME TypeOK, PlanInv, NEW h \in Handlers, pc[h] = "commit"
  PROVE  /\ [a \in Addresses |->
               IF tx[h][a] # Unwritten THEN tx[h][a]
               ELSE destination[request[h].recipient][a]]
              = Applied(destination[request[h].recipient], request[h])
         /\ request[h].revocation =>
              destination[request[h].recipient][request[h].address].status
                # "ABSENT"
<1>. DEFINE p == request[h]
            rows == destination[p.recipient]
<1>1. p \in Payload /\ p.recipient \in Recipients /\ p.address \in Addresses
  BY OpenIsLocked
<1>2. \A a \in Addresses : Applies(h, a)
  BY DEF PlanInv, PlanOf
<1>3. ASSUME NEW a \in Addresses
      PROVE  (IF tx[h][a] # Unwritten THEN tx[h][a] ELSE rows[a])
               = Applied(rows, p)[a]
  <2>1. rows[a] \in Row
    BY <1>1 DEF TypeOK, RegistryTypeOK
  <2>2. /\ Revoked(rows[a]) # Unwritten
        /\ Activated(p) # Unwritten
        /\ Retired(rows[a], p) # Unwritten
    BY <1>1, <2>1, WrittenRows
  <2>. QED BY <1>2, <2>2 DEF Applies, SupersedesActive, Applied
<1>4. p.revocation => rows[p.address].status # "ABSENT"
  BY <1>1, <1>2 DEF Applies
<1>. QED BY <1>3, <1>4 DEF Applied

LEMMA CommitIsAttest ==
  ASSUME TypeOK, LockInv, PlanInv, NEW h \in Handlers, Commit(h)
  PROVE  /\ request[h] \in Payloads
         /\ request[h] \notin attestations
         /\ Attest(request[h])
<1>. DEFINE p == request[h]
<1>1. pc[h] = "commit"
  BY DEF Commit
<1>2. p \in Payloads /\ p.sequence \in Nat
  BY <1>1, PayloadFields DEF TypeOK, Payload
<1>3. \A q \in attestations : q.sequence # p.sequence
  BY <1>1 DEF LockInv, LocksSequence
<1>4. destination' = [destination EXCEPT ![p.recipient] =
                        Applied(destination[p.recipient], p)]
  BY <1>1, CommitApplies DEF Commit
<1>5. p.revocation => destination[p.recipient][p.address].status # "ABSENT"
  BY <1>1, CommitApplies
<1>. QED BY <1>2, <1>3, <1>4, <1>5 DEF Commit, Attest

LEMMA OutboxInductive ==
  ASSUME TypeOK, LockInv, PlanInv, OutboxInv, [Next]_vars
  PROVE  OutboxInv'
<1>. USE DEF TypeOK, OutboxInv, OutboxMatchesLedger
<1>1. CASE \E h \in Handlers, p \in Payloads : Submit(h, p)
  BY <1>1 DEF Submit, registryVars
<1>2. CASE \E h \in Handlers :
             \/ UpsertRecipient(h) \/ UpsertIdentifier(h)
             \/ RetireDestination(h) \/ RevokeOthers(h)
             \/ ActivateDestination(h) \/ CreateAttestation(h)
  <2>1. PICK h \in Handlers :
             \/ UpsertRecipient(h) \/ UpsertIdentifier(h)
             \/ RetireDestination(h) \/ RevokeOthers(h)
             \/ ActivateDestination(h) \/ CreateAttestation(h)
    BY <1>2
  <2>2. PICK next \in PC \ {"commit"} :
          /\ pc[h] # "commit"
          /\ pc' = [pc EXCEPT ![h] = next]
          /\ UNCHANGED <<outbox, enqueued, attestations>>
    BY <2>1 DEF UpsertRecipient, UpsertIdentifier, RetireDestination,
         RevokeOthers, ActivateDestination, CreateAttestation, Continue,
         registryVars, PC
  <2>. QED BY <2>2
<1>3. CASE \E h \in Handlers : Enqueue(h)
  BY <1>3 DEF Enqueue, Continue, registryVars
<1>4. CASE \E h \in Handlers : Commit(h)
  <2>1. PICK h \in Handlers : Commit(h)
    BY <1>4
  <2>2. request[h] \in Payloads /\ request[h] \notin attestations
    BY <2>1, CommitIsAttest
  <2>3. /\ pc[h] = "commit"
        /\ pc' = [pc EXCEPT ![h] = "idle"]
        /\ enqueued' = [enqueued EXCEPT ![h] = 0]
        /\ outbox' = [outbox EXCEPT ![request[h]] = @ + enqueued[h]]
        /\ attestations' = attestations \cup {request[h]}
    BY <2>1 DEF Commit, EndRequest
  <2>4. enqueued[h] = 1 /\ outbox[request[h]] = 0
    BY <2>2, <2>3
  <2>. QED BY <2>2, <2>3, <2>4
<1>5. CASE \E h \in Handlers : Refuse(h) \/ Fail(h) \/ AbortRequest(h)
  <2>1. PICK h \in Handlers : Refuse(h) \/ Fail(h) \/ AbortRequest(h)
    BY <1>5
  <2>2. /\ pc' = [pc EXCEPT ![h] = "idle"]
        /\ enqueued' = [enqueued EXCEPT ![h] = 0]
        /\ UNCHANGED <<outbox, attestations>>
    BY <2>1 DEF Refuse, Fail, AbortRequest, EndRequest, registryVars
  <2>. QED BY <2>2
<1>6. CASE DeskOnly
  BY <1>6, DeskFrame
<1>7. CASE UNCHANGED vars
  BY <1>7 DEF vars, registryVars
<1>. QED BY NextCases, <1>1, <1>2, <1>3, <1>4, <1>5, <1>6, <1>7

LEMMA IInvInductive == Spec => []IInv
<1>1. Init => IInv
  BY DEF Init, RegistryInit, IInv, LockInv, LocksRecipient, LocksSequence,
         PlanInv, PlanOf, NoWrites, OutboxInv, OutboxMatchesLedger
<1>2. TypeOK /\ IInv /\ [Next]_vars => IInv'
  BY LockInductive, PlanInductive, OutboxInductive DEF IInv
<1>. QED BY <1>1, <1>2, TypeCorrect, PTL DEF Spec

(* An attestation is announced exactly once, and only when it is recorded: *)
(* whatever is rolled back, or raced with, leaves no webhook behind.       *)
THEOREM AnnouncedOnce == Spec => []OutboxMatchesLedger
<1>1. IInv => OutboxMatchesLedger
  BY DEF IInv, OutboxInv
<1>. QED BY <1>1, IInvInductive, PTL

(* The statement-by-statement transactions implement the atomic registry:  *)
(* a commit is the whole attestation, every other step is a dashboard      *)
(* operation or changes no table.                                          *)
THEOREM Implementation == Spec => ImplementsRegistry
<1>1. Init => RegistryInit
  BY DEF Init
<1>2. TypeOK /\ IInv /\ [Next]_vars => [RegistryNext]_registryVars
  <2>. SUFFICES ASSUME TypeOK, IInv, [Next]_vars
                PROVE  [RegistryNext]_registryVars
    OBVIOUS
  <2>1. CASE \E h \in Handlers : Commit(h)
    BY <2>1, CommitIsAttest DEF IInv, RegistryNext
  <2>2. CASE \E h \in Handlers, p \in Payloads : Submit(h, p)
    BY <2>2 DEF Submit
  <2>3. CASE \E h \in Handlers :
               \/ UpsertRecipient(h) \/ UpsertIdentifier(h)
               \/ RetireDestination(h) \/ RevokeOthers(h)
               \/ ActivateDestination(h) \/ CreateAttestation(h)
               \/ Enqueue(h)
    BY <2>3 DEF UpsertRecipient, UpsertIdentifier, RetireDestination,
         RevokeOthers, ActivateDestination, CreateAttestation, Enqueue,
         Continue
  <2>4. CASE \E h \in Handlers : Refuse(h) \/ Fail(h) \/ AbortRequest(h)
    BY <2>4 DEF Refuse, Fail, AbortRequest
  <2>5. CASE DeskOnly
    BY <2>5, DeskFrame
  <2>6. CASE UNCHANGED vars
    BY <2>6 DEF vars
  <2>. QED BY NextCases, <2>1, <2>2, <2>3, <2>4, <2>5, <2>6
<1>. QED
  BY <1>1, <1>2, TypeCorrect, IInvInductive, PTL
     DEF Spec, ImplementsRegistry, RegistrySpec

-----------------------------------------------------------------------------
(* The registry itself.                                                    *)
LEMMA AppliedType ==
  ASSUME NEW rows \in [Addresses -> Row], NEW p \in Payload
  PROVE  Applied(rows, p) \in [Addresses -> Row]
  BY RowWritesType DEF Applied

LEMMA RegistryStepCases ==
  ASSUME [RegistryNext]_registryVars
  PROVE  \/ \E p \in Payloads : Attest(p)
         \/ \E r \in Recipients, a \in Addresses, from \in Times,
               until \in Times \cup {Never} :
              CreateDestination(r, a, from, until)
         \/ \E r \in Recipients, a \in Addresses : RevokeDestination(r, a)
         \/ UNCHANGED destination
  BY DEF RegistryNext, CreateRecipient, DisableRecipient, RegistryTick,
         registryVars

LEMMA RegistryTypeCorrect == RegistrySpec => []RegistryTypeOK
<1>1. RegistryInit => RegistryTypeOK
  BY TimesAssumption
     DEF RegistryInit, RegistryTypeOK, RecipientStatus, Binding, Row, AbsentRow,
         DestinationStatus
<1>2. RegistryTypeOK /\ [RegistryNext]_registryVars => RegistryTypeOK'
  <2>. SUFFICES ASSUME RegistryTypeOK, [RegistryNext]_registryVars
                PROVE  RegistryTypeOK'
    OBVIOUS
  <2>1. ASSUME NEW p \in Payloads, Attest(p)
        PROVE  RegistryTypeOK'
    <3>1. p \in Payload /\ p.recipient \in Recipients
          /\ p.identifier \in Identifiers
      BY PayloadFields
    <3>2. destination[p.recipient] \in [Addresses -> Row]
      BY <3>1 DEF RegistryTypeOK
    <3>3. Applied(destination[p.recipient], p) \in [Addresses -> Row]
      BY <3>1, <3>2, AppliedType
    <3>4. [recipient |-> p.recipient, resolvable |-> TRUE] \in Binding
      BY <3>1 DEF Binding
    <3>. QED BY <2>1, <3>3, <3>4 DEF Attest, RegistryTypeOK, RecipientStatus
  <2>2. CASE UNCHANGED registryVars
    BY <2>2, RegistryUnchanged
  <2>. QED BY <2>1, <2>2, RegistryStepsType DEF RegistryNext
<1>. QED BY <1>1, <1>2, PTL DEF RegistrySpec

LEMMA OneActiveInductive ==
  ASSUME RegistryTypeOK, OneActiveDestination, [RegistryNext]_registryVars
  PROVE  OneActiveDestination'
<1>. DEFINE Active(r, a) == destination[r][a].status = "ACTIVE"
<1>1. ASSUME NEW p \in Payloads, Attest(p)
      PROVE  OneActiveDestination'
  <2>1. p \in Payload /\ p.recipient \in Recipients /\ p.address \in Addresses
    BY PayloadFields
  <2>2. destination[p.recipient] \in [Addresses -> Row]
    BY <2>1 DEF RegistryTypeOK
  <2>3. destination'[p.recipient] = Applied(destination[p.recipient], p)
    BY <1>1, <2>1 DEF Attest, RegistryTypeOK
  <2>4. \A r \in Recipients \ {p.recipient} : destination'[r] = destination[r]
    BY <1>1, <2>1 DEF Attest, RegistryTypeOK
  <2>5. ASSUME NEW a \in Addresses, Active(p.recipient, a)'
        PROVE  IF p.revocation THEN Active(p.recipient, a) ELSE a = p.address
    <3>1. destination[p.recipient][a] \in Row
      BY <2>2
    <3>2. Applied(destination[p.recipient], p)[a].status = "ACTIVE"
      BY <2>3, <2>5
    <3>3. CASE p.revocation
      <4>1. a # p.address
        BY <3>1, <3>2, <3>3 DEF Applied, Retired, Row
      <4>. QED BY <3>2, <3>3, <4>1 DEF Applied
    <3>4. CASE ~p.revocation
      <4>1. ASSUME a # p.address
            PROVE  FALSE
        <5>1. CASE destination[p.recipient][a].status = "ACTIVE"
          BY <3>1, <3>2, <3>4, <4>1, <5>1 DEF Applied, Revoked, Row
        <5>2. CASE destination[p.recipient][a].status # "ACTIVE"
          BY <3>2, <3>4, <4>1, <5>2 DEF Applied
        <5>. QED BY <5>1, <5>2
      <4>. QED BY <3>4, <4>1
    <3>. QED BY <3>3, <3>4
  <2>6. ASSUME NEW r \in Recipients, NEW a \in Addresses, NEW b \in Addresses,
               Active(r, a)', Active(r, b)'
        PROVE  a = b
    <3>1. CASE r = p.recipient
      BY <2>5, <2>6, <3>1 DEF OneActiveDestination
    <3>2. CASE r # p.recipient
      BY <2>4, <2>6, <3>2 DEF OneActiveDestination
    <3>. QED BY <3>1, <3>2
  <2>. QED BY <2>6 DEF OneActiveDestination
<1>2. ASSUME NEW r \in Recipients, NEW a \in Addresses, NEW row,
             row.status # "ACTIVE",
             destination' = [destination EXCEPT ![r][a] = row]
      PROVE  OneActiveDestination'
  <2>1. \A s \in Recipients, b \in Addresses :
          Active(s, b)' => Active(s, b)
    BY <1>2 DEF RegistryTypeOK
  <2>. QED BY <2>1 DEF OneActiveDestination
<1>3. ASSUME NEW r \in Recipients, NEW a \in Addresses, NEW from \in Times,
             NEW until \in Times \cup {Never},
             CreateDestination(r, a, from, until)
      PROVE  OneActiveDestination'
  <2>. DEFINE row == [status |-> "PENDING", effectiveFrom |-> from,
                      expiresAt |-> until]
  <2>1. row.status # "ACTIVE"
        /\ destination' = [destination EXCEPT ![r][a] = row]
    BY <1>3 DEF CreateDestination
  <2>. QED BY <1>2, <2>1
<1>4. ASSUME NEW r \in Recipients, NEW a \in Addresses, RevokeDestination(r, a)
      PROVE  OneActiveDestination'
  <2>. DEFINE row == [[destination[r][a] EXCEPT !.status = "REVOKED"]
                        EXCEPT !.expiresAt = now]
  <2>1. destination[r][a] \in Row
    BY DEF RegistryTypeOK
  <2>2. row.status # "ACTIVE"
    BY <2>1 DEF Row
  <2>3. destination' = [destination EXCEPT ![r][a] = row]
    BY <1>4 DEF RevokeDestination, RegistryTypeOK
  <2>. QED BY <1>2, <2>2, <2>3
<1>5. CASE UNCHANGED destination
  BY <1>5 DEF OneActiveDestination
<1>. QED BY RegistryStepCases, <1>1, <1>3, <1>4, <1>5

(* No interleaving of requests gives a recipient two ACTIVE destinations   *)
(* in a corridor: proved of the registry, and carried over to the          *)
(* transactions because they implement it.                                 *)
THEOREM NeverAmbiguous == Spec => []OneActiveDestination
<1>1. RegistryInit => OneActiveDestination
  BY DEF RegistryInit, OneActiveDestination, AbsentRow
<1>2. RegistryTypeOK /\ OneActiveDestination /\ [RegistryNext]_registryVars
        => OneActiveDestination'
  BY OneActiveInductive
<1>3. RegistrySpec => []OneActiveDestination
  BY <1>1, <1>2, RegistryTypeCorrect, PTL DEF RegistrySpec
<1>. QED BY <1>3, Implementation, PTL DEF ImplementsRegistry

-----------------------------------------------------------------------------
(* A destination in force is one that the partner has signed: some         *)
(* recorded attestation names this recipient and this address and gives    *)
(* the row its validity window.  What the dashboard creates waits PENDING, *)
(* and what was revoked comes back only by a new attestation.              *)
InForceIsSigned ==
  \A r \in Recipients, a \in Addresses :
    destination[r][a].status = "ACTIVE" =>
      \E p \in attestations :
        /\ ~p.revocation
        /\ p.recipient = r
        /\ p.address = a
        /\ destination[r][a] = Activated(p)

(* A partner's sequence number stands for one recorded attestation.        *)
SequencesDecide ==
  \A p, q \in attestations : p.sequence = q.sequence => p = q

LEMMA AppliedActive ==
  ASSUME NEW rows \in [Addresses -> Row], NEW p \in Payload,
         NEW a \in Addresses, Applied(rows, p)[a].status = "ACTIVE"
  PROVE  \/ ~p.revocation /\ a = p.address /\ Applied(rows, p)[a] = Activated(p)
         \/ rows[a].status = "ACTIVE" /\ Applied(rows, p)[a] = rows[a]
<1>1. rows[a] \in Row
  OBVIOUS
<1>2. Retired(rows[a], p).status = "REVOKED" /\ Revoked(rows[a]).status = "REVOKED"
  BY <1>1 DEF Retired, Revoked, Row
<1>3. Applied(rows, p)[a] \in {rows[a], Retired(rows[a], p), Activated(p),
                               Revoked(rows[a])}
  BY DEF Applied
<1>4. Applied(rows, p)[a] = Activated(p) =>
        (~p.revocation /\ a = p.address) \/ Applied(rows, p)[a] = rows[a]
             \/ Applied(rows, p)[a].status = "REVOKED"
  BY <1>2 DEF Applied
<1>. QED BY <1>2, <1>3, <1>4

LEMMA InForceInductive ==
  ASSUME RegistryTypeOK, InForceIsSigned, [RegistryNext]_registryVars
  PROVE  InForceIsSigned'
<1>1. ASSUME NEW p \in Payloads, Attest(p)
      PROVE  InForceIsSigned'
  <2>1. p \in Payload /\ p.recipient \in Recipients /\ p.address \in Addresses
    BY PayloadFields
  <2>2. destination[p.recipient] \in [Addresses -> Row]
    BY <2>1 DEF RegistryTypeOK
  <2>3. destination'[p.recipient] = Applied(destination[p.recipient], p)
    BY <1>1, <2>1 DEF Attest, RegistryTypeOK
  <2>4. \A r \in Recipients \ {p.recipient} : destination'[r] = destination[r]
    BY <1>1, <2>1 DEF Attest, RegistryTypeOK
  <2>5. attestations' = attestations \cup {p}
    BY <1>1 DEF Attest
  <2>6. ASSUME NEW r \in Recipients, NEW a \in Addresses,
               destination'[r][a].status = "ACTIVE"
        PROVE  \E q \in attestations' :
                 /\ ~q.revocation
                 /\ q.recipient = r
                 /\ q.address = a
                 /\ destination'[r][a] = Activated(q)
    <3>1. CASE destination[r][a].status = "ACTIVE"
               /\ destination'[r][a] = destination[r][a]
      BY <3>1, <2>5 DEF InForceIsSigned
    <3>2. CASE r = p.recipient
      <4>1. \/ ~p.revocation /\ a = p.address
               /\ destination'[r][a] = Activated(p)
            \/ destination[r][a].status = "ACTIVE"
               /\ destination'[r][a] = destination[r][a]
        BY <2>1, <2>2, <2>3, <2>6, <3>2, AppliedActive
      <4>. QED BY <2>5, <3>1, <3>2, <4>1
    <3>3. CASE r # p.recipient
      BY <2>4, <2>6, <3>1, <3>3
    <3>. QED BY <3>2, <3>3
  <2>. QED BY <2>6 DEF InForceIsSigned
<1>2. ASSUME NEW r \in Recipients, NEW a \in Addresses, NEW row,
             row.status # "ACTIVE", UNCHANGED attestations,
             destination' = [destination EXCEPT ![r][a] = row]
      PROVE  InForceIsSigned'
  <2>1. \A s \in Recipients, b \in Addresses :
          destination'[s][b].status = "ACTIVE" =>
            destination'[s][b] = destination[s][b]
    BY <1>2 DEF RegistryTypeOK
  <2>. QED BY <1>2, <2>1 DEF InForceIsSigned
<1>3. ASSUME NEW r \in Recipients, NEW a \in Addresses, NEW from \in Times,
             NEW until \in Times \cup {Never},
             CreateDestination(r, a, from, until)
      PROVE  InForceIsSigned'
  <2>. DEFINE row == [status |-> "PENDING", effectiveFrom |-> from,
                      expiresAt |-> until]
  <2>1. /\ row.status # "ACTIVE"
        /\ UNCHANGED attestations
        /\ destination' = [destination EXCEPT ![r][a] = row]
    BY <1>3 DEF CreateDestination
  <2>. QED BY <1>2, <2>1
<1>4. ASSUME NEW r \in Recipients, NEW a \in Addresses, RevokeDestination(r, a)
      PROVE  InForceIsSigned'
  <2>. DEFINE row == [[destination[r][a] EXCEPT !.status = "REVOKED"]
                        EXCEPT !.expiresAt = now]
  <2>1. destination[r][a] \in Row
    BY DEF RegistryTypeOK
  <2>2. row.status # "ACTIVE"
    BY <2>1 DEF Row
  <2>3. /\ UNCHANGED attestations
        /\ destination' = [destination EXCEPT ![r][a] = row]
    BY <1>4 DEF RevokeDestination, RegistryTypeOK
  <2>. QED BY <1>2, <2>2, <2>3
<1>5. CASE UNCHANGED destination
  <2>1. attestations \subseteq attestations'
    BY DEF RegistryNext, registryVars, Attest, CreateRecipient,
         DisableRecipient, CreateDestination, RevokeDestination, RegistryTick
  <2>. QED BY <1>5, <2>1 DEF InForceIsSigned
<1>. QED BY RegistryStepCases, <1>1, <1>3, <1>4, <1>5

(* No interleaving of requests and dashboard calls puts a destination in   *)
(* force that no recorded attestation names, or under another validity     *)
(* window than the one that was signed: proved of the registry, and        *)
(* carried over by Implementation.                                         *)
THEOREM NothingUnsignedInForce == Spec => []InForceIsSigned
<1>1. RegistryInit => InForceIsSigned
  BY DEF RegistryInit, InForceIsSigned, AbsentRow
<1>2. RegistryTypeOK /\ InForceIsSigned /\ [RegistryNext]_registryVars
        => InForceIsSigned'
  BY InForceInductive
<1>3. RegistrySpec => []InForceIsSigned
  BY <1>1, <1>2, RegistryTypeCorrect, PTL DEF RegistrySpec
<1>. QED BY <1>3, Implementation, PTL DEF ImplementsRegistry

(* Two requests with one sequence number may both pass the check before    *)
(* their transactions; of the two only one is ever recorded.               *)
THEOREM RecordedOnce == Spec => []SequencesDecide
<1>1. RegistryInit => SequencesDecide
  BY DEF RegistryInit, SequencesDecide
<1>2. SequencesDecide /\ [RegistryNext]_registryVars => SequencesDecide'
  <2>. SUFFICES ASSUME SequencesDecide, [RegistryNext]_registryVars
                PROVE  SequencesDecide'
    OBVIOUS
  <2>1. CASE \E p \in Payloads : Attest(p)
    BY <2>1 DEF Attest, SequencesDecide
  <2>2. CASE UNCHANGED attestations
    BY <2>2 DEF SequencesDecide
  <2>. QED
    BY <2>1, <2>2 DEF RegistryNext, registryVars, CreateRecipient,
         DisableRecipient, CreateDestination, RevokeDestination, RegistryTick
<1>3. RegistrySpec => []SequencesDecide
  BY <1>1, <1>2, PTL DEF RegistrySpec
<1>. QED BY <1>3, Implementation, PTL DEF ImplementsRegistry

-----------------------------------------------------------------------------
(* The waits leave none out: a request that waits for nobody has all the   *)
(* locks its statement asks for, and so has a dashboard call that is       *)
(* making its destination the default.                                     *)
LEMMA WaitsCoverGuards ==
  ASSUME TypeOK
  PROVE  /\ \A h \in Handlers :
              (/\ \A g \in Handlers : ~WaitsFor(h, g)
               /\ \A k \in Desks : ~WaitsForDesk(h, k)) =>
                /\ pc[h] = "upsertRecipient" =>
                     \A g \in Others(h) : ~LocksRecipient(g, request[h].recipient)
                /\ pc[h] = "upsertIdentifier" =>
                     \A g \in Others(h) :
                       ~LocksIdentifier(g, request[h].identifier)
                /\ \A a \in NextRows(h) : Reachable(h, request[h].recipient, a)
                /\ pc[h] = "createAttestation" =>
                     \A g \in Others(h) : ~LocksSequence(g, request[h].sequence)
         /\ \A k \in Desks :
              (/\ \A h \in Handlers : ~DeskWaitsFor(k, h)
               /\ \A l \in Desks : ~DeskWaitsForDesk(k, l)) =>
                \A a \in DeskNextRows(k) :
                  DestinationFree(Desks \ {k}, desk[k].recipient, a)
<1>1. ASSUME NEW h \in Handlers, \A g \in Handlers : ~WaitsFor(h, g),
             \A k \in Desks : ~WaitsForDesk(h, k)
      PROVE  /\ pc[h] = "upsertRecipient" =>
                  \A g \in Others(h) : ~LocksRecipient(g, request[h].recipient)
             /\ pc[h] = "upsertIdentifier" =>
                  \A g \in Others(h) :
                    ~LocksIdentifier(g, request[h].identifier)
             /\ \A a \in NextRows(h) : Reachable(h, request[h].recipient, a)
             /\ pc[h] = "createAttestation" =>
                  \A g \in Others(h) : ~LocksSequence(g, request[h].sequence)
  BY <1>1 DEF WaitsFor, WaitsForDesk, Others, Reachable
<1>2. ASSUME NEW k \in Desks, \A h \in Handlers : ~DeskWaitsFor(k, h),
             \A l \in Desks : ~DeskWaitsForDesk(k, l),
             NEW a \in DeskNextRows(k)
      PROVE  DestinationFree(Desks \ {k}, desk[k].recipient, a)
  BY <1>2 DEF DeskWaitsFor, DeskWaitsForDesk, DestinationFree,
       UnwrittenByRequests
<1>. QED BY <1>1, <1>2

(* The order in which a transaction takes its locks: the place of a        *)
(* statement behind which no lock that it waits for is held.               *)
Stage(h) ==
  CASE pc[h] = "idle" -> 0
    [] pc[h] = "upsertRecipient" -> 1
    [] pc[h] = "upsertIdentifier" -> 2
    [] pc[h] \in {"applyDestination", "activateDestination",
                  "createAttestation"} -> 3
    [] pc[h] \in {"enqueue", "commit"} -> 4

LEMMA WaitsForward ==
  ASSUME TypeOK, LockInv, PlanInv, NEW h \in Handlers, NEW g \in Handlers,
         WaitsFor(h, g)
  PROVE  Stage(h) < Stage(g) /\ Stage(h) \in 1..4
<1>. DEFINE p == request[h]
<1>0. pc[g] \in PC /\ pc[h] \in PC
  BY DEF TypeOK
<1>1. CASE pc[h] = "upsertRecipient" /\ LocksRecipient(g, p.recipient)
  BY <1>0, <1>1 DEF LocksRecipient, Stage, PC
<1>2. CASE pc[h] = "upsertIdentifier" /\ LocksIdentifier(g, p.identifier)
  BY <1>0, <1>2 DEF LocksIdentifier, Stage, PC
<1>3. CASE \E a \in NextRows(h) : LocksDestination(g, p.recipient, a)
  <2>1. PICK a \in NextRows(h) : LocksDestination(g, p.recipient, a)
    BY <1>3
  <2>2. /\ a \in Addresses
        /\ pc[h] \in {"applyDestination", "activateDestination"}
    BY <2>1 DEF NextRows
  <2>3. pc[g] \notin {"idle", "upsertRecipient"} /\ request[g].recipient = p.recipient
    BY <2>1, <2>2 DEF LocksDestination, PlanInv, PlanOf
  <2>4. LocksRecipient(g, p.recipient)
    BY <2>3 DEF LocksRecipient
  <2>5. LocksRecipient(h, p.recipient) /\ p.recipient \in Recipients
    BY <2>2, OpenIsLocked
  <2>. QED BY <2>4, <2>5 DEF LockInv, WaitsFor
<1>4. CASE pc[h] = "createAttestation" /\ LocksSequence(g, p.sequence)
  BY <1>0, <1>4 DEF LocksSequence, Stage, PC
<1>. QED BY <1>1, <1>2, <1>3, <1>4 DEF WaitsFor

(* Whenever transactions wait for each other in a circle, one of them is a *)
(* dashboard call that is making its destination the default and holds a   *)
(* row of the recipient.                                                   *)
CirclesNeedADesk ==
  \A H \in SUBSET Handlers, K \in SUBSET Desks :
    Stuck(H, K) =>
      \E k \in K, a \in Addresses : DeskLocks(k, desk[k].recipient, a)

(* Attestation requests among themselves never wait in a circle, however   *)
(* many there are: each takes the recipient, the identifier, the           *)
(* destinations and the attestation in this order, and never a second      *)
(* recipient or identifier (attestations.service.ts:184-251).  Of the      *)
(* dashboard's calls only createPartnerDestination, which clears the       *)
(* default flag of several rows without the recipient's lock               *)
(* (destinations.service.ts:281-317), can close one.                       *)
THEOREM RequestsAloneNeverCircle == Spec => []CirclesNeedADesk
<1>1. TypeOK /\ IInv => CirclesNeedADesk
  <2>. SUFFICES ASSUME TypeOK, LockInv, PlanInv,
                       NEW H \in SUBSET Handlers, NEW K \in SUBSET Desks,
                       Stuck(H, K),
                       \A k \in K, a \in Addresses :
                         ~DeskLocks(k, desk[k].recipient, a)
                PROVE  FALSE
    BY DEF IInv, CirclesNeedADesk
  <2>1. ASSUME NEW k \in K, NEW r, NEW a \in Addresses
        PROVE  ~DeskLocks(k, r, a)
    BY <2>1 DEF DeskLocks
  <2>2. \A h \in H : \E g \in H : WaitsFor(h, g)
    <3>1. \A h \in H, k \in K : ~WaitsForDesk(h, k)
      BY <2>1 DEF WaitsForDesk, NextRows
    <3>. QED BY <3>1 DEF Stuck
  <2>3. H # {}
    <3>1. \A k, l \in K : ~DeskWaitsForDesk(k, l)
      BY <2>1 DEF DeskWaitsForDesk, DeskNextRows
    <3>. QED BY <3>1 DEF Stuck
  <2>4. \A h \in H : /\ Stage(h) \in 1..4
                     /\ \E g \in H : Stage(h) < Stage(g)
    BY <2>2, WaitsForward
  <2>. HIDE DEF Stage
  <2>5. \A h \in H : Stage(h) # 4
    BY <2>4
  <2>6. \A h \in H : Stage(h) # 3
    BY <2>4, <2>5
  <2>7. \A h \in H : Stage(h) # 2
    BY <2>4, <2>5, <2>6
  <2>8. \A h \in H : Stage(h) # 1
    BY <2>4, <2>5, <2>6, <2>7
  <2>. QED BY <2>3, <2>4, <2>5, <2>6, <2>7, <2>8
<1>. QED BY <1>1, TypeCorrect, IInvInductive, PTL
=============================================================================
