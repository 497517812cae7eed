------------------------ MODULE WebhookDeliveryProofs ------------------------
(* Theorems about WebhookDelivery, for every value of its constants. *)
EXTENDS WebhookDelivery, FiniteSetTheorems, TLAPS

(* The delay of the next retry is a natural number no larger than the cap  *)
(* (calculateNextWebhookRetryDelayMs).                                     *)
LEMMA RetryDelayType ==
  ASSUME NEW n \in Nat
  PROVE  RetryDelay(n) \in Nat /\ RetryDelay(n) <= MaxDelay
BY ConstantsAssumption DEF RetryDelay

(* The batch a call selects is a sequence of row ids.                      *)
LEMMA BatchType ==
  ASSUME NEW S \in SUBSET Deliveries, NEW order \in SetToSeqs(S),
         NEW limit \in Nat
  PROVE  SubSeq(order, 1, IF limit < Len(order) THEN limit ELSE Len(order))
           \in Seq(Deliveries)
<1>1. IsFiniteSet(Deliveries)
  <2>1. IsFiniteSet(1 .. MaxEvents)
    BY FS_Interval, ConstantsAssumption
  <2>. QED  BY <2>1, FS_Product, ConstantsAssumption DEF Deliveries
<1>2. Cardinality(S) \in Nat
  BY <1>1, FS_Subset, FS_CardinalityType
<1>3. order \in [1 .. Cardinality(S) -> Deliveries]
  BY DEF SetToSeqs
<1>4. order \in Seq(Deliveries)
  BY <1>2, <1>3
<1>. QED  BY <1>4, SMT

(* What a worker remembers after a claim.                                  *)
LEMMA ClaimedJobType ==
  ASSUME NEW j \in Job, NEW t \in Nat
  PROVE  [j EXCEPT !.attemptCount = @ + 1, !.claimedAt = t] \in Job
<1>1. j.attemptCount + 1 \in Nat
  BY DEF Job
<1>. QED  BY <1>1 DEF Job

LEMMA NoJobType == NoJob \in Job
BY DEF NoJob, Job

(* A worker that is ready again remembers nothing.                         *)
LEMMA ReadyType ==
  ASSUME TypeOK, NEW w \in Workers, Ready(w)
  PROVE  /\ pc' \in [Workers ->
              {"ready", "claim", "abandon", "posting", "acked", "failed", "unsure"}]
         /\ queue' \in [Workers -> Seq(Deliveries)]
         /\ job' \in [Workers -> Job]
         /\ \A v \in Workers : pc'[v] # "ready" => job'[v].delivery \in Deliveries
<1>1. job' \in [Workers -> Job]
  BY NoJobType DEF Ready, TypeOK
<1>2. \A v \in Workers : pc'[v] # "ready" => pc'[v] = pc[v] /\ job'[v] = job[v]
  BY DEF Ready, TypeOK
<1>. QED  BY <1>1, <1>2 DEF Ready, TypeOK

(* The writes that settle a row.                                           *)
LEMMA SettledRowType ==
  ASSUME NEW r \in Row
  PROVE  /\ [r EXCEPT !.status = "SUCCEEDED"] \in Row
         /\ [r EXCEPT !.status = "SUCCEEDED"].status = "SUCCEEDED"
         /\ [r EXCEPT !.status = "SUCCEEDED"].attemptCount = r.attemptCount
         /\ [r EXCEPT !.status = "SUCCEEDED"].lastAttemptAt = r.lastAttemptAt
         /\ Abandoned(r) \in Row
         /\ Abandoned(r).status = "ABANDONED"
         /\ Abandoned(r).attemptCount = r.attemptCount
         /\ Abandoned(r).lastAttemptAt = r.lastAttemptAt
BY DEF Abandoned, Row, DeliveryStatus, None

LEMMA RescheduledType ==
  ASSUME NEW r \in Row, NEW n \in Nat, now \in Nat
  PROVE  /\ Rescheduled(r, n) \in Row
         /\ Rescheduled(r, n).status = "PENDING"
         /\ Rescheduled(r, n).attemptCount = r.attemptCount
<1>1. now + RetryDelay(n) \in Nat
  BY RetryDelayType
<1>. DEFINE next == now + RetryDelay(n)
<1>. HIDE DEF next
<1>2. /\ [r EXCEPT !.status = "PENDING", !.nextAttemptAt = next] \in Row
      /\ [r EXCEPT !.status = "PENDING", !.nextAttemptAt = next].status = "PENDING"
      /\ [r EXCEPT !.status = "PENDING", !.nextAttemptAt = next].attemptCount
           = r.attemptCount
  BY <1>1 DEF Row, DeliveryStatus, next
<1>. QED  BY <1>2 DEF Rescheduled, next

LEMMA TypeStep == TypeOK /\ [Next]_vars => TypeOK'
<1> SUFFICES ASSUME TypeOK, [Next]_vars  PROVE TypeOK'
  OBVIOUS
<1> USE DEF TypeOK, workerVars
<1>1. ASSUME NEW p \in Publishers, ReadSubscribers(p)  PROVE TypeOK'
  BY <1>1 DEF ReadSubscribers
<1>2. ASSUME NEW p \in Publishers, ReadForReplay(p)  PROVE TypeOK'
  BY <1>2 DEF ReadForReplay, Deliveries, EndpointOf
<1>3. ASSUME NEW p \in Publishers, CreateDeliveries(p)  PROVE TypeOK'
  <2>1. NewRow \in Row
    BY DEF NewRow, Row, DeliveryStatus, None
  <2>2. delivery' \in [Deliveries -> Row]
    BY <1>3, <2>1 DEF CreateDeliveries
  <2>3. lastEvent' \in 0 .. MaxEvents
    BY <1>3, ConstantsAssumption DEF CreateDeliveries
  <2>. QED  BY <1>3, <2>2, <2>3 DEF CreateDeliveries
<1>4. ASSUME NEW a \in Admins, ReadEndpoint(a)  PROVE TypeOK'
  BY <1>4 DEF ReadEndpoint, Edit
<1>5. ASSUME NEW a \in Admins, CommitEndpoint(a)  PROVE TypeOK'
  <2>1. \A r \in Row : Abandoned(r) \in Row
    BY DEF Abandoned, Row, DeliveryStatus
  <2>2. delivery' \in [Deliveries -> Row]
    BY <1>5, <2>1 DEF CommitEndpoint
  <2>3. /\ endpointStatus' \in [Endpoints -> WebhookStatus]
        /\ everDisabled' \subseteq Endpoints
    BY <1>5 DEF CommitEndpoint, Edit
  <2>. QED  BY <1>5, <2>2, <2>3 DEF CommitEndpoint
<1>6. ASSUME NEW w \in Workers, NEW ignoreSchedule \in IgnoreSchedule,
             NEW limit \in BatchLimits, SelectBatch(w, ignoreSchedule, limit)
      PROVE  TypeOK'
  <2> DEFINE S == {d \in Deliveries : Selectable(d, ignoreSchedule)}
  <2>0. PICK order \in SetToSeqs(S) :
          queue' = [queue EXCEPT ![w] = SubSeq(order, 1,
                      IF limit < Len(order) THEN limit ELSE Len(order))]
    BY <1>6 DEF SelectBatch
  <2>a. SubSeq(order, 1, IF limit < Len(order) THEN limit ELSE Len(order))
          \in Seq(Deliveries)
    BY BatchType, ConstantsAssumption
  <2>1. queue' \in [Workers -> Seq(Deliveries)]
    BY <2>0, <2>a
  <2>. QED  BY <1>6, <2>1 DEF SelectBatch
<1>7. ASSUME NEW w \in Workers, ReadDelivery(w)  PROVE TypeOK'
  <2>1. Head(queue[w]) \in Deliveries /\ Tail(queue[w]) \in Seq(Deliveries)
    BY <1>7 DEF ReadDelivery
  <2>2. PICK goTo \in {"claim", "abandon", "ready"} : TakeNext(w, goTo)
    BY <1>7 DEF ReadDelivery
  <2>3. now - StaleAfter \in Int
    BY ConstantsAssumption
  <2>. DEFINE taken == [delivery |-> Head(queue[w]),
                        attemptCount |-> delivery[Head(queue[w])].attemptCount,
                        staleThreshold |-> now - StaleAfter, claimedAt |-> 0]
  <2>a. taken \in Job
    BY <2>1, <2>3 DEF Job, Row
  <2>b. job' = [job EXCEPT ![w] = IF goTo = "ready" THEN NoJob ELSE taken]
    BY <2>2 DEF TakeNext
  <2>. HIDE DEF taken
  <2>4. job' \in [Workers -> Job]
    BY <2>a, <2>b, NoJobType
  <2>5. queue' \in [Workers -> Seq(Deliveries)]
    BY <2>1, <2>2 DEF TakeNext
  <2>6. \A v \in Workers : pc'[v] # "ready" => job'[v].delivery \in Deliveries
    BY <2>1, <2>2 DEF TakeNext
  <2>. QED  BY <2>2, <2>4, <2>5, <2>6 DEF TakeNext
<1>8. ASSUME NEW w \in Workers, Claim(w)  PROVE TypeOK'
  <2>1. delivery' \in [Deliveries -> Row]
    BY <1>8 DEF Claim, Row, DeliveryStatus, Job
  <2>2. \A j \in Job : [j EXCEPT !.attemptCount = @ + 1, !.claimedAt = now] \in Job
    BY ClaimedJobType
  <2>3. job' = [job EXCEPT ![w] =
                 [job[w] EXCEPT !.attemptCount = @ + 1, !.claimedAt = now]]
    BY <1>8 DEF Claim, Job
  <2>4. job' \in [Workers -> Job]
    BY <2>2, <2>3
  <2>5. \A v \in Workers : job'[v].delivery = job[v].delivery
    BY <2>3 DEF Job
  <2>6. pc' = [pc EXCEPT ![w] = "posting"] /\ pc[w] = "claim"
    BY <1>8 DEF Claim
  <2>7. \A v \in Workers : pc'[v] # "ready" => job'[v].delivery \in Deliveries
    BY <2>5, <2>6
  <2>8. attempts' \in [Deliveries -> Nat]
    BY <1>8 DEF Claim
  <2>. QED  BY <1>8, <2>1, <2>4, <2>6, <2>7, <2>8 DEF Claim
<1>9. ASSUME NEW w \in Workers, LoseClaim(w)  PROVE TypeOK'
  BY <1>9, ReadyType DEF LoseClaim
<1>10. ASSUME NEW w \in Workers, NEW taken \in BOOLEAN, NEW ok \in BOOLEAN,
              Post(w, taken, ok)
       PROVE  TypeOK'
  BY <1>10 DEF Post, Outcome
<1>11. ASSUME NEW w \in Workers, SettleSuccess(w)  PROVE TypeOK'
  <2>1. delivery' \in [Deliveries -> Row]
    <3>1. delivery' = [delivery EXCEPT ![job[w].delivery] =
            [delivery[job[w].delivery] EXCEPT !.status = "SUCCEEDED"]]
      BY <1>11 DEF SettleSuccess
    <3>2. job[w].delivery \in Deliveries
      BY <1>11 DEF SettleSuccess
    <3>3. delivery[job[w].delivery] \in Row
      BY <3>2
    <3>. HIDE DEF TypeOK
    <3>. QED  BY <3>1, <3>2, <3>3, SettledRowType DEF TypeOK
  <2>. QED  BY <1>11, <2>1, ReadyType DEF SettleSuccess
<1>12. ASSUME NEW w \in Workers, SuccessWriteFails(w)  PROVE TypeOK'
  BY <1>12 DEF SuccessWriteFails
<1>18. ASSUME NEW w \in Workers, SuccessAnswerLost(w)  PROVE TypeOK'
  <2>1. job[w].delivery \in Deliveries
    BY <1>18 DEF SuccessAnswerLost
  <2>2. delivery' = [delivery EXCEPT ![job[w].delivery] =
          [delivery[job[w].delivery] EXCEPT !.status = "SUCCEEDED"]]
    BY <1>18 DEF SuccessAnswerLost
  <2>3. delivery' \in [Deliveries -> Row]
    BY <2>1, <2>2, SettledRowType
  <2>. QED  BY <1>18, <2>3 DEF SuccessAnswerLost
<1>13. ASSUME NEW w \in Workers, Reschedule(w)  PROVE TypeOK'
  <2>1. job[w].delivery \in Deliveries /\ job[w].attemptCount \in Nat
    BY <1>13 DEF Reschedule, Failed, Job
  <2>2. delivery' = [delivery EXCEPT ![job[w].delivery] =
          Rescheduled(delivery[job[w].delivery], job[w].attemptCount)]
    BY <1>13 DEF Reschedule
  <2>3. delivery' \in [Deliveries -> Row]
    BY <2>1, <2>2, RescheduledType
  <2>. QED  BY <1>13, <2>3, ReadyType DEF Reschedule
<1>14. ASSUME NEW w \in Workers, GiveUp(w)  PROVE TypeOK'
  <2>1. delivery' \in [Deliveries -> Row]
    <3>1. delivery' = [delivery EXCEPT ![job[w].delivery] =
            Abandoned(delivery[job[w].delivery])]
      BY <1>14 DEF GiveUp
    <3>2. job[w].delivery \in Deliveries
      BY <1>14 DEF GiveUp, Failed
    <3>3. delivery[job[w].delivery] \in Row
      BY <3>2
    <3>. HIDE DEF TypeOK
    <3>. QED  BY <3>1, <3>2, <3>3, SettledRowType DEF TypeOK
  <2>. QED  BY <1>14, <2>1, ReadyType DEF GiveUp
<1>15. ASSUME NEW w \in Workers, Crash(w)  PROVE TypeOK'
  BY <1>15, NoJobType DEF Crash
<1>16. CASE Tick
  BY <1>16 DEF Tick
<1>17. CASE UNCHANGED vars
  BY <1>17 DEF vars
<1>. QED
  BY <1>1, <1>2, <1>3, <1>4, <1>5, <1>6, <1>7, <1>8, <1>9, <1>10, <1>11,
     <1>12, <1>13, <1>14, <1>15, <1>16, <1>17, <1>18 DEF Next, Work

(* Every reachable state is well typed.                                    *)
THEOREM TypeCorrect == Spec => []TypeOK
<1>1. Init => TypeOK
  BY ConstantsAssumption DEF Init, TypeOK, WebhookStatus, Row, AbsentRow, Job,
     NoJob, NoDelivery, None
<1>. QED  BY <1>1, TypeStep, PTL DEF Spec

-----------------------------------------------------------------------------
(* What is claimed, given up and acknowledged.  A worker's copy of the     *)
(* attempt number was read from the row, so it cannot exceed the claims    *)
(* made when it was read, and claims are never undone.                     *)
CountInv ==
  /\ AttemptCountNeverOverstates
  /\ \A w \in Workers : pc[w] # "ready" =>
       job[w].attemptCount <= attempts[job[w].delivery]
  /\ \A e \in Endpoints : endpointStatus[e] = "DISABLED" => e \in everDisabled
  /\ \A w \in Workers : pc[w] = "abandon" =>
       EndpointOf(job[w].delivery) \in everDisabled
  /\ \A w \in Workers : pc[w] = "acked" => accepted[job[w].delivery] > 0
  /\ NeverGivesUpEarly
  /\ SucceededWasAccepted

LEMMA CountInvInductive == Spec => []CountInv
<1> USE DEF CountInv, AttemptCountNeverOverstates, NeverGivesUpEarly,
            SucceededWasAccepted, EndpointOf, workerVars
<1>1. Init => CountInv
  BY ConstantsAssumption DEF Init, AbsentRow
<1>2. TypeOK /\ CountInv /\ [Next]_vars => CountInv'
  <2> SUFFICES ASSUME TypeOK, CountInv, [Next]_vars  PROVE CountInv'
    OBVIOUS
  <2> USE DEF TypeOK, Row, Job
  <2>1. ASSUME NEW p \in Publishers, ReadSubscribers(p)  PROVE CountInv'
    BY <2>1 DEF ReadSubscribers
  <2>2. ASSUME NEW p \in Publishers, ReadForReplay(p)  PROVE CountInv'
    BY <2>2 DEF ReadForReplay
  <2>3. ASSUME NEW p \in Publishers, CreateDeliveries(p)  PROVE CountInv'
    BY <2>3 DEF CreateDeliveries, NewRow
  <2>4. ASSUME NEW a \in Admins, ReadEndpoint(a)  PROVE CountInv'
    BY <2>4 DEF ReadEndpoint
  <2>5. ASSUME NEW a \in Admins, CommitEndpoint(a)  PROVE CountInv'
    <3>1. PICK x \in Edit :
            /\ endpointStatus' = [endpointStatus EXCEPT ![x.endpoint] = x.status]
            /\ everDisabled' = IF x.status = "DISABLED"
                 THEN everDisabled \cup {x.endpoint} ELSE everDisabled
            /\ \A d \in Deliveries :
                 \/ delivery'[d] = delivery[d]
                 \/ /\ delivery'[d] = Abandoned(delivery[d])
                    /\ d[2] \in everDisabled'
      BY <2>5 DEF CommitEndpoint
    <3>2. \A e \in Endpoints : endpointStatus'[e] = "DISABLED" => e \in everDisabled'
      BY <3>1
    <3>3. \A d \in Deliveries :
            /\ delivery'[d].attemptCount = delivery[d].attemptCount
            /\ \/ delivery'[d].status = delivery[d].status
               \/ delivery'[d].status = "ABANDONED" /\ d[2] \in everDisabled'
      <4>1. \A r \in Row : /\ Abandoned(r).attemptCount = r.attemptCount
                           /\ Abandoned(r).status = "ABANDONED"
        BY DEF Abandoned
      <4> TAKE d \in Deliveries
      <4>2. delivery[d] \in Row
        BY DEF Row
      <4>3. CASE delivery'[d] = delivery[d]
        BY <4>3
      <4>4. CASE delivery'[d] = Abandoned(delivery[d]) /\ d[2] \in everDisabled'
        BY <4>1, <4>2, <4>4
      <4>. QED  BY <3>1, <4>3, <4>4
    <3>4. /\ UNCHANGED <<pc, job, attempts, accepted>>
          /\ everDisabled \subseteq everDisabled'
      BY <2>5, <3>1 DEF CommitEndpoint
    <3>5. NeverGivesUpEarly' /\ SucceededWasAccepted'
      BY <3>3, <3>4
    <3>. QED  BY <3>2, <3>3, <3>4, <3>5
  <2>6. ASSUME NEW w \in Workers, NEW ignoreSchedule \in IgnoreSchedule,
               NEW limit \in BatchLimits, SelectBatch(w, ignoreSchedule, limit)  PROVE CountInv'
    BY <2>6 DEF SelectBatch
  <2>7. ASSUME NEW w \in Workers, ReadDelivery(w)  PROVE CountInv'
    <3> DEFINE d == Head(queue[w])
    <3>1. d \in Deliveries
      BY <2>7 DEF ReadDelivery
    <3>2. PICK goTo \in {"claim", "abandon", "ready"} :
            /\ TakeNext(w, goTo)
            /\ goTo = "abandon" => endpointStatus[d[2]] = "DISABLED"
      BY <2>7 DEF ReadDelivery
    <3>a. d[2] \in Endpoints
      BY <3>1 DEF Deliveries
    <3>3. /\ \A v \in Workers : v # w => pc'[v] = pc[v] /\ job'[v] = job[v]
          /\ pc'[w] = goTo
          /\ goTo # "ready" => /\ job'[w].delivery = d
                               /\ job'[w].attemptCount = delivery[d].attemptCount
          /\ UNCHANGED <<endpointStatus, delivery, attempts, accepted, everDisabled>>
      BY <3>2 DEF TakeNext
    <3>4. \A v \in Workers : pc'[v] # "ready" =>
            job'[v].attemptCount <= attempts'[job'[v].delivery]
      <4>1. goTo # "ready" => job'[w].attemptCount <= attempts[d]
        BY <3>1, <3>3
      <4>. QED  BY <3>3, <4>1
    <3>5. \A v \in Workers : pc'[v] = "abandon" => job'[v].delivery[2] \in everDisabled'
      <4>1. goTo = "abandon" => d[2] \in everDisabled
        BY <3>a, <3>2
      <4>. QED  BY <3>3, <4>1
    <3>6. \A v \in Workers : pc'[v] = "acked" => accepted'[job'[v].delivery] > 0
      BY <3>2, <3>3
    <3>. QED  BY <3>3, <3>4, <3>5, <3>6
  <2>8. ASSUME NEW w \in Workers, Claim(w)  PROVE CountInv'
    <3> DEFINE d == job[w].delivery
    <3>1. d \in Deliveries
      BY <2>8 DEF Claim
    <3>2. /\ delivery'[d].attemptCount = job[w].attemptCount + 1
          /\ delivery'[d].status = "PROCESSING"
          /\ attempts'[d] = attempts[d] + 1
          /\ \A c \in Deliveries : c # d =>
               delivery'[c] = delivery[c] /\ attempts'[c] = attempts[c]
          /\ \A v \in Workers : v # w => pc'[v] = pc[v] /\ job'[v] = job[v]
          /\ pc'[w] = "posting"
          /\ job'[w].delivery = d
          /\ job'[w].attemptCount = job[w].attemptCount + 1
          /\ UNCHANGED <<endpointStatus, accepted, everDisabled>>
      BY <2>8, <3>1 DEF Claim
    <3>3. job[w].attemptCount \in Nat /\ attempts \in [Deliveries -> Nat]
      BY <3>1
    <3>4. job[w].attemptCount <= attempts[d]
      BY <2>8 DEF Claim
    <3>5. \A c \in Deliveries : /\ attempts'[c] >= attempts[c]
                                /\ attempts'[c] \in Nat
      <4> TAKE c \in Deliveries
      <4>1. attempts[c] \in Nat
        OBVIOUS
      <4>2. CASE c = d
        BY <3>2, <4>1, <4>2
      <4>3. CASE c # d
        BY <3>2, <4>1, <4>3
      <4>. QED  BY <4>2, <4>3
    <3>6. \A c \in Deliveries : delivery'[c].attemptCount <= attempts'[c]
      <4> TAKE c \in Deliveries
      <4>1. CASE c = d
        BY <3>1, <3>2, <3>3, <3>4, <4>1
      <4>2. CASE c # d
        <5>1. delivery[c].attemptCount <= attempts[c]
          OBVIOUS
        <5>. QED  BY <3>2, <4>2, <5>1
      <4>. QED  BY <4>1, <4>2
    <3>7. \A v \in Workers : pc'[v] # "ready" =>
            job'[v].attemptCount <= attempts'[job'[v].delivery]
      <4>1. job'[w].attemptCount <= attempts'[job'[w].delivery]
        BY <3>1, <3>2, <3>3, <3>4
      <4>2. ASSUME NEW v \in Workers, v # w, pc'[v] # "ready"
            PROVE  job'[v].attemptCount <= attempts'[job'[v].delivery]
        <5>1. /\ job'[v] = job[v]
              /\ job[v].delivery \in Deliveries
              /\ job[v].attemptCount <= attempts[job[v].delivery]
          BY <3>2, <4>2
        <5>2. job[v].attemptCount \in Nat
          OBVIOUS
        <5>. QED  BY <3>3, <3>5, <5>1, <5>2
      <4>. QED  BY <4>1, <4>2
    <3>8. \A c \in Deliveries :
            /\ delivery'[c].status = "ABANDONED" => delivery[c].status = "ABANDONED"
            /\ delivery'[c].status = "SUCCEEDED" => delivery[c].status = "SUCCEEDED"
      BY <3>2
    <3>9. NeverGivesUpEarly'
      BY <3>2, <3>3, <3>5, <3>8, ConstantsAssumption
    <3>. QED  BY <3>2, <3>6, <3>7, <3>8, <3>9
  <2>9. ASSUME NEW w \in Workers, LoseClaim(w)  PROVE CountInv'
    BY <2>9 DEF LoseClaim, Ready, NoJob
  <2>10. ASSUME NEW w \in Workers, NEW taken \in BOOLEAN, NEW ok \in BOOLEAN,
                Post(w, taken, ok)  PROVE CountInv'
    BY <2>10 DEF Post, Outcome
  <2>11. ASSUME NEW w \in Workers, SettleSuccess(w)  PROVE CountInv'
    BY <2>11 DEF SettleSuccess, Ready, NoJob
  <2>12. ASSUME NEW w \in Workers, SuccessWriteFails(w)  PROVE CountInv'
    BY <2>12 DEF SuccessWriteFails
  <2>18. ASSUME NEW w \in Workers, SuccessAnswerLost(w)  PROVE CountInv'
    <3>. DEFINE d == job[w].delivery
    <3>1. d \in Deliveries /\ accepted[d] > 0
      BY <2>18 DEF SuccessAnswerLost
    <3>2. /\ pc' = [pc EXCEPT ![w] = "unsure"]
          /\ UNCHANGED <<job, attempts, accepted, endpointStatus, everDisabled>>
      BY <2>18 DEF SuccessAnswerLost
    <3>3. /\ delivery'[d].status = "SUCCEEDED"
          /\ delivery'[d].attemptCount = delivery[d].attemptCount
          /\ \A c \in Deliveries : c # d => delivery'[c] = delivery[c]
      BY <2>18, <3>1 DEF SuccessAnswerLost, Row
    <3>4. AttemptCountNeverOverstates' /\ NeverGivesUpEarly' /\ SucceededWasAccepted'
      BY <3>1, <3>2, <3>3
    <3>5. /\ \A v \in Workers : pc'[v] # "ready" => pc[v] # "ready"
          /\ \A v \in Workers : pc'[v] = "abandon" => pc[v] = "abandon"
          /\ \A v \in Workers : pc'[v] = "acked" => pc[v] = "acked"
      BY <2>18, <3>2 DEF SuccessAnswerLost
    <3>6. \A v \in Workers : pc'[v] # "ready" =>
            job'[v].attemptCount <= attempts'[job'[v].delivery]
      BY <3>2, <3>5
    <3>7. \A v \in Workers : pc'[v] = "abandon" => job'[v].delivery[2] \in everDisabled'
      BY <3>2, <3>5
    <3>8. \A v \in Workers : pc'[v] = "acked" => accepted'[job'[v].delivery] > 0
      BY <3>2, <3>5
    <3>. QED  BY <3>2, <3>4, <3>6, <3>7, <3>8
  <2>13. ASSUME NEW w \in Workers, Reschedule(w)  PROVE CountInv'
    <3>. DEFINE d == job[w].delivery
    <3>1. d \in Deliveries /\ job[w].attemptCount \in Nat /\ now \in Nat
      BY <2>13 DEF Reschedule, Failed
    <3>2. delivery' = [delivery EXCEPT ![d] = Rescheduled(delivery[d], job[w].attemptCount)]
      BY <2>13 DEF Reschedule
    <3>3. delivery[d] \in Row
      BY <3>1 DEF Row
    <3>4. \A c \in Deliveries :
            /\ delivery'[c].attemptCount = delivery[c].attemptCount
            /\ delivery'[c].status \in {delivery[c].status, "PENDING"}
      <4>1. /\ Rescheduled(delivery[d], job[w].attemptCount).status = "PENDING"
            /\ Rescheduled(delivery[d], job[w].attemptCount).attemptCount
                 = delivery[d].attemptCount
        BY <3>1, <3>3, RescheduledType
      <4>2. \A c \in Deliveries : delivery'[c] =
              IF c = d THEN Rescheduled(delivery[d], job[w].attemptCount)
              ELSE delivery[c]
        BY <3>1, <3>2
      <4>. QED  BY <4>1, <4>2
    <3>5. /\ \A v \in Workers : pc'[v] # "ready" => pc'[v] = pc[v] /\ job'[v] = job[v]
          /\ UNCHANGED <<endpointStatus, attempts, accepted, everDisabled>>
      BY <2>13 DEF Reschedule, Ready
    <3>. QED  BY <3>4, <3>5
  <2>14. ASSUME NEW w \in Workers, GiveUp(w)  PROVE CountInv'
    <3> DEFINE d == job[w].delivery
    <3>1. d \in Deliveries /\ job[w].attemptCount <= attempts[d]
      BY <2>14 DEF GiveUp, Failed
    <3>2. /\ delivery'[d].attemptCount = delivery[d].attemptCount
          /\ delivery'[d].status = "ABANDONED"
          /\ \A c \in Deliveries : c # d => delivery'[c] = delivery[c]
          /\ \A v \in Workers : v # w => pc'[v] = pc[v] /\ job'[v] = job[v]
          /\ pc'[w] = "ready"
          /\ UNCHANGED <<endpointStatus, attempts, accepted, everDisabled>>
      BY <2>14, <3>1 DEF GiveUp, Ready, Abandoned
    <3>3. d[2] \in everDisabled \/ attempts[d] >= MaxAttempts
      BY <2>14, <3>1, ConstantsAssumption DEF GiveUp, ShouldAbandon
    <3>. QED  BY <3>1, <3>2, <3>3
  <2>15. ASSUME NEW w \in Workers, Crash(w)  PROVE CountInv'
    BY <2>15 DEF Crash, NoJob
  <2>16. CASE Tick
    BY <2>16 DEF Tick
  <2>17. CASE UNCHANGED vars
    BY <2>17 DEF vars
  <2>. QED
    BY <2>1, <2>2, <2>3, <2>4, <2>5, <2>6, <2>7, <2>8, <2>9, <2>10, <2>11, <2>12, <2>13, <2>14, <2>15, <2>16, <2>17, <2>18
       DEF Next, Work
<1>. QED  BY <1>1, <1>2, TypeCorrect, PTL DEF Spec

(* A worker with a request in flight owns its row: the row still carries   *)
(* its claim, or the success it has committed without learning of it,      *)
(* unless a call that found the endpoint disabled abandoned it.            *)
Owns(w) ==
  LET row == delivery[job[w].delivery] IN
  \/ row.status = "PROCESSING" /\ row.lastAttemptAt = job[w].claimedAt
  \/ /\ row.status = "ABANDONED"
     /\ EndpointOf(job[w].delivery) \in everDisabled
  \/ row.status = "SUCCEEDED" /\ pc[w] = "unsure"

HoldInv ==
  /\ \A d \in Deliveries : delivery[d].status # "ABSENT" => d[1] <= lastEvent
  /\ \A w \in Workers : pc[w] # "ready" => job[w].delivery[1] <= lastEvent
  /\ \A w \in Workers : pc[w] = "claim" =>
       job[w].staleThreshold <= now - StaleAfter
  /\ \A w \in Workers : Holding(w) => Owns(w)
  /\ \A w \in Workers : Holding(w) => now <= job[w].claimedAt + SettleWithin
  /\ ExclusivePosting

LEMMA HoldInvInductive ==
  ASSUME SettleWithin < StaleAfter
  PROVE  Spec => []HoldInv
<1> USE DEF HoldInv, Owns, Holding, ExclusivePosting, workerVars
<1>1. Init => HoldInv
  BY ConstantsAssumption DEF Init, AbsentRow
<1>2. TypeOK /\ CountInv /\ HoldInv /\ [Next]_vars => HoldInv'
  <2> SUFFICES ASSUME TypeOK, CountInv, HoldInv, [Next]_vars  PROVE HoldInv'
    OBVIOUS
  <2> USE DEF TypeOK
  <2>1. ASSUME NEW p \in Publishers, ReadSubscribers(p)  PROVE HoldInv'
    BY <2>1 DEF ReadSubscribers
  <2>2. ASSUME NEW p \in Publishers, ReadForReplay(p)  PROVE HoldInv'
    BY <2>2 DEF ReadForReplay
  <2>3. ASSUME NEW p \in Publishers, CreateDeliveries(p)  PROVE HoldInv'
    <3>1. \A d \in Deliveries : d[1] \in Nat
      BY ConstantsAssumption DEF Deliveries
    <3>2. \A d \in Deliveries :
            delivery[d].status # "ABSENT" => delivery'[d] = delivery[d]
      BY <2>3, <3>1 DEF CreateDeliveries
    <3>3. \A d \in Deliveries : delivery'[d].status # "ABSENT" => d[1] <= lastEvent'
      BY <2>3, <3>1, <3>2 DEF CreateDeliveries
    <3>4. UNCHANGED <<pc, job, now, everDisabled>>
      BY <2>3 DEF CreateDeliveries
    <3>5. \A w \in Workers : Holding(w) => delivery'[job[w].delivery] = delivery[job[w].delivery]
      BY <3>2
    <3>6. \A w \in Workers : pc[w] # "ready" => job[w].delivery[1] <= lastEvent'
      BY <2>3, <3>1 DEF CreateDeliveries
    <3>. QED  BY <3>3, <3>4, <3>5, <3>6
  <2>4. ASSUME NEW a \in Admins, ReadEndpoint(a)  PROVE HoldInv'
    BY <2>4 DEF ReadEndpoint
  <2>5. ASSUME NEW a \in Admins, CommitEndpoint(a)  PROVE HoldInv'
    <3>1. everDisabled \subseteq everDisabled' /\ UNCHANGED <<lastEvent, now, pc, job>>
      BY <2>5 DEF CommitEndpoint
    <3>2. \A d \in Deliveries :
            \/ delivery'[d] = delivery[d]
            \/ delivery[d].status = "PENDING" /\ delivery'[d] = Abandoned(delivery[d])
      BY <2>5 DEF CommitEndpoint
    <3>3. \A d \in Deliveries : delivery'[d].status # "ABSENT" => d[1] <= lastEvent'
      BY <3>1, <3>2
    <3>4. ASSUME NEW w \in Workers, Holding(w)  PROVE Owns(w)'
      <4>1. job[w].delivery \in Deliveries /\ Owns(w)
        BY <3>4
      <4>2. delivery'[job[w].delivery] = delivery[job[w].delivery]
        BY <3>2, <4>1
      <4>. QED  BY <3>1, <4>1, <4>2
    <3>. QED  BY <3>1, <3>3, <3>4
  <2>6. ASSUME NEW w \in Workers, NEW ignoreSchedule \in IgnoreSchedule,
               NEW limit \in BatchLimits, SelectBatch(w, ignoreSchedule, limit)  PROVE HoldInv'
    BY <2>6 DEF SelectBatch
  <2>7. ASSUME NEW w \in Workers, ReadDelivery(w)  PROVE HoldInv'
    <3>1. PICK goTo \in {"claim", "abandon", "ready"} :
            /\ TakeNext(w, goTo)
            /\ goTo # "ready" => delivery[Head(queue[w])].status # "ABSENT"
      BY <2>7 DEF ReadDelivery, Claimable, Stale
    <3>2. /\ \A v \in Workers : v # w => pc'[v] = pc[v] /\ job'[v] = job[v]
          /\ pc'[w] = goTo
          /\ goTo # "ready" => job'[w].delivery = Head(queue[w])
          /\ goTo = "claim" => job'[w].staleThreshold = now - StaleAfter
          /\ UNCHANGED <<delivery, lastEvent, now, everDisabled>>
      BY <3>1 DEF TakeNext
    <3>3. now - StaleAfter <= now - StaleAfter
      BY ConstantsAssumption
    <3>4. \A v \in Workers : Holding(v)' => v # w /\ Holding(v) /\ job'[v] = job[v]
      BY <3>2
    <3>5. \A v \in Workers : pc'[v] = "claim" =>
            job'[v].staleThreshold <= now' - StaleAfter
      BY <3>2, <3>3
    <3>6. Head(queue[w]) \in Deliveries
      BY <2>7 DEF ReadDelivery
    <3>7. \A v \in Workers : pc'[v] # "ready" => job'[v].delivery[1] <= lastEvent'
      BY <3>1, <3>2, <3>6
    <3>8. \A v \in Workers : Holding(v)' => Owns(v)' /\ now' <= job'[v].claimedAt + SettleWithin
      BY <3>2, <3>4
    <3>9. ExclusivePosting'
      BY <3>4
    <3>10. \A d \in Deliveries : delivery'[d].status # "ABSENT" => d[1] <= lastEvent'
      BY <3>2
    <3>. QED  BY <3>5, <3>7, <3>8, <3>9, <3>10
  <2>8. ASSUME NEW w \in Workers, Claim(w)  PROVE HoldInv'
    <3> DEFINE d == job[w].delivery
    <3>1. d \in Deliveries /\ delivery[d].lastAttemptAt \in Nat \cup {None}
      BY <2>8 DEF Claim, Row
    <3>2. /\ delivery'[d].status = "PROCESSING"
          /\ delivery'[d].lastAttemptAt = now
          /\ \A c \in Deliveries : c # d => delivery'[c] = delivery[c]
          /\ \A v \in Workers : v # w => pc'[v] = pc[v] /\ job'[v] = job[v]
          /\ pc'[w] = "posting"
          /\ job'[w].delivery = d
          /\ job'[w].claimedAt = now
          /\ UNCHANGED <<lastEvent, now, everDisabled>>
      BY <2>8, <3>1 DEF Claim, Job
    (* No other worker holds the row: it would be PROCESSING with a claim  *)
    (* too recent for this worker's threshold.                             *)
    <3>3. ASSUME NEW v \in Workers, Holding(v)  PROVE job[v].delivery # d
      <4>1. SUFFICES ASSUME job[v].delivery = d  PROVE FALSE
        OBVIOUS
      <4>2. job[v].claimedAt \in Nat /\ job[w].staleThreshold \in Int
        BY DEF Job
      <4>3. /\ now <= job[v].claimedAt + SettleWithin
            /\ job[w].staleThreshold <= now - StaleAfter
        BY <2>8, <3>3 DEF Claim
      <4>4. job[v].claimedAt > job[w].staleThreshold
        BY <4>2, <4>3, ConstantsAssumption
      <4>5. Claimable(delivery[d], job[w].staleThreshold)
        BY <2>8 DEF Claim
      <4>6. /\ delivery[d].status = "PROCESSING"
            /\ delivery[d].lastAttemptAt = job[v].claimedAt
        BY <3>3, <4>1, <4>5 DEF Claimable, Stale
      <4>7. job[v].claimedAt # None
        BY <4>2 DEF None
      <4>. QED  BY <4>2, <4>4, <4>5, <4>6, <4>7 DEF Claimable, Stale
    <3>4. now <= now + SettleWithin
      BY ConstantsAssumption
    <3>5. delivery[d].status # "ABSENT"
      BY <2>8 DEF Claim, Claimable, Stale
    <3>6. \A v \in Workers : v # w /\ Holding(v)' =>
            Holding(v) /\ job'[v] = job[v] /\ job[v].delivery # d /\ job[v].delivery \in Deliveries
      BY <3>2, <3>3
    <3>7. ASSUME NEW v \in Workers, Holding(v)'  PROVE Owns(v)'
      <4>1. CASE v = w
        BY <3>2, <4>1
      <4>2. CASE v # w
        <5>1. Owns(v) /\ delivery'[job[v].delivery] = delivery[job[v].delivery]
          BY <3>2, <3>6, <3>7, <4>2
        <5>. QED  BY <3>2, <3>6, <3>7, <4>2, <5>1
      <4>. QED  BY <4>1, <4>2
    <3>8. ASSUME NEW u \in Workers, NEW v \in Workers, u # v, Holding(u)', Holding(v)'
          PROVE  job'[u].delivery # job'[v].delivery
      <4>1. CASE u = w
        BY <3>2, <3>6, <3>8, <4>1
      <4>2. CASE v = w
        BY <3>2, <3>6, <3>8, <4>2
      <4>3. CASE u # w /\ v # w
        BY <3>6, <3>8, <4>3
      <4>. QED  BY <4>1, <4>2, <4>3
    <3>9. \A v \in Workers : Holding(v)' => now' <= job'[v].claimedAt + SettleWithin
      BY <3>2, <3>4, <3>6
    <3>10. \A c \in Deliveries : delivery'[c].status # "ABSENT" => c[1] <= lastEvent'
      BY <3>2, <3>5
    <3>11. \A v \in Workers : pc'[v] = "claim" =>
             job'[v].staleThreshold <= now' - StaleAfter
      BY <3>2
    <3>12. \A v \in Workers : pc'[v] # "ready" => job'[v].delivery[1] <= lastEvent'
      BY <2>8, <3>2 DEF Claim
    <3>. QED  BY <3>7, <3>8, <3>9, <3>10, <3>11, <3>12
  <2>9. ASSUME NEW w \in Workers, LoseClaim(w)  PROVE HoldInv'
    BY <2>9 DEF LoseClaim, Ready, NoJob
  <2>10. ASSUME NEW w \in Workers, NEW taken \in BOOLEAN, NEW ok \in BOOLEAN,
                Post(w, taken, ok)  PROVE HoldInv'
    BY <2>10 DEF Post, Outcome
  <2>11. ASSUME NEW w \in Workers, SettleSuccess(w)  PROVE HoldInv'
    BY <2>11 DEF SettleSuccess, Ready, NoJob
  <2>12. ASSUME NEW w \in Workers, SuccessWriteFails(w)  PROVE HoldInv'
    BY <2>12 DEF SuccessWriteFails
  <2>18. ASSUME NEW w \in Workers, SuccessAnswerLost(w)  PROVE HoldInv'
    BY <2>18 DEF SuccessAnswerLost
  <2>13. ASSUME NEW w \in Workers, Reschedule(w)  PROVE HoldInv'
    BY <2>13 DEF Reschedule, Failed, Rescheduled, Ready, NoJob
  <2>14. ASSUME NEW w \in Workers, GiveUp(w)  PROVE HoldInv'
    <3> DEFINE d == job[w].delivery
    <3>1. d \in Deliveries
      BY <2>14 DEF GiveUp, Failed
    <3>2. /\ delivery'[d].status = "ABANDONED"
          /\ \A c \in Deliveries : c # d => delivery'[c] = delivery[c]
          /\ \A v \in Workers : v # w => pc'[v] = pc[v] /\ job'[v] = job[v]
          /\ pc'[w] = "ready"
          /\ UNCHANGED <<lastEvent, now, everDisabled>>
      BY <2>14, <3>1 DEF GiveUp, Ready, Abandoned, Row
    <3>3. \A v \in Workers : Holding(v)' =>
            v # w /\ Holding(v) /\ job'[v] = job[v] /\ job[v].delivery \in Deliveries
      BY <3>2
    <3>4. ASSUME NEW v \in Workers, v # w, Holding(v), job[v].delivery = d
          PROVE  EndpointOf(d) \in everDisabled
      BY <2>14, <3>4 DEF GiveUp, Failed, CountInv
    <3>5. ASSUME NEW v \in Workers, Holding(v)'  PROVE Owns(v)'
      <4>1. CASE job[v].delivery = d
        BY <3>2, <3>3, <3>4, <3>5, <4>1
      <4>2. CASE job[v].delivery # d
        <5>1. Owns(v) /\ delivery'[job[v].delivery] = delivery[job[v].delivery]
          BY <3>2, <3>3, <3>5, <4>2
        <5>. QED  BY <3>2, <3>3, <3>5, <5>1
      <4>. QED  BY <4>1, <4>2
    <3>6. \A c \in Deliveries : delivery'[c].status # "ABSENT" => c[1] <= lastEvent'
      <4>1. d[1] <= lastEvent
        BY <2>14 DEF GiveUp, Failed
      <4>. QED  BY <3>2, <4>1
    <3>7. \A v \in Workers : pc'[v] = "claim" => v # w /\ pc[v] = "claim"
      BY <3>2
    <3>8. \A v \in Workers : pc'[v] # "ready" => v # w /\ pc[v] # "ready"
      BY <3>2
    <3>9. ExclusivePosting'
      BY <3>3
    <3>10. \A v \in Workers : Holding(v)' => now' <= job'[v].claimedAt + SettleWithin
      BY <3>2, <3>3
    <3>. QED  BY <3>2, <3>5, <3>6, <3>7, <3>8, <3>9, <3>10
  <2>15. ASSUME NEW w \in Workers, Crash(w)  PROVE HoldInv'
    BY <2>15 DEF Crash, NoJob
  <2>16. CASE Tick
    <3>1. now' = now + 1 /\ UNCHANGED <<delivery, lastEvent, pc, job, everDisabled>>
      BY <2>16 DEF Tick
    <3>2. ASSUME NEW w \in Workers, Holding(w)
          PROVE  now + 1 <= job[w].claimedAt + SettleWithin
      <4>1. job[w].claimedAt \in Nat /\ now < job[w].claimedAt + SettleWithin
        BY <2>16, <3>2 DEF Tick, Job
      <4>. QED  BY <4>1, ConstantsAssumption
    <3>3. ASSUME NEW w \in Workers, pc[w] = "claim"
          PROVE  job[w].staleThreshold <= (now + 1) - StaleAfter
      <4>1. job[w].staleThreshold \in Int /\ job[w].staleThreshold <= now - StaleAfter
        BY <3>3 DEF Job
      <4>. QED  BY <4>1, ConstantsAssumption
    <3>4. \A w \in Workers : Holding(w)' => Holding(w) /\ Owns(w)'
      BY <3>1
    <3>5. \A w \in Workers : Holding(w)' => now' <= job'[w].claimedAt + SettleWithin
      BY <3>1, <3>2
    <3>6. \A w \in Workers : pc'[w] = "claim" =>
            job'[w].staleThreshold <= now' - StaleAfter
      BY <3>1, <3>3
    <3>7. ExclusivePosting'
      BY <3>1
    <3>. QED  BY <3>1, <3>4, <3>5, <3>6, <3>7
  <2>17. CASE UNCHANGED vars
    BY <2>17 DEF vars
  <2>. QED
    BY <2>1, <2>2, <2>3, <2>4, <2>5, <2>6, <2>7, <2>8, <2>9, <2>10, <2>11, <2>12, <2>13, <2>14, <2>15, <2>16, <2>17, <2>18
       DEF Next, Work
<1>. QED  BY <1>1, <1>2, TypeCorrect, CountInvInductive, PTL DEF Spec

-----------------------------------------------------------------------------
(* The attempt number of a row never exceeds the claims made on it, for    *)
(* any number of calls, crashes and late answers.                          *)
THEOREM AttemptCountBounded == Spec => []AttemptCountNeverOverstates
BY CountInvInductive, PTL DEF CountInv

(* A delivery to an endpoint that was never disabled is given up only      *)
(* after MaxAttempts claims, again without any assumption on timing.       *)
THEOREM GivesUpOnlyAfterMaxAttempts == Spec => []NeverGivesUpEarly
BY CountInvInductive, PTL DEF CountInv

(* SUCCEEDED is only ever reported for a delivery the receiver took.       *)
THEOREM SucceededMeansAccepted == Spec => []SucceededWasAccepted
BY CountInvInductive, PTL DEF CountInv

(* With outcomes written before a claim goes stale, no delivery is ever    *)
(* posted by two calls at the same time.                                   *)
THEOREM PostingIsExclusive ==
  ASSUME SettleWithin < StaleAfter
  PROVE  Spec => []ExclusivePosting
BY HoldInvInductive, PTL DEF HoldInv

(* Under the same assumption a settled delivery of an endpoint that was    *)
(* never disabled is neither overwritten nor posted again, unless the very *)
(* call that settled it takes that back because the answer to its commit   *)
(* was lost.                                                               *)
THEOREM SettledStaysSettled ==
  ASSUME SettleWithin < StaleAfter
  PROVE  Spec => SettledIsFinal
<1>1. ASSUME TypeOK, CountInv, HoldInv, Next, NEW d \in Deliveries, Settled(d),
             EndpointOf(d) \notin everDisabled
      PROVE  /\ attempts'[d] = attempts[d]
             /\ \/ delivery'[d] = delivery[d]
                \/ \E w \in Workers : Doubts(w, d) /\ pc'[w] = "ready"
  <2> USE <1>1 DEF workerVars, Settled
  <2>1. ASSUME NEW p \in Publishers, CreateDeliveries(p)
        PROVE  delivery'[d] = delivery[d] /\ attempts' = attempts
    <3>1. d[1] <= lastEvent /\ d[1] \in Nat /\ lastEvent \in Nat
      <4>1. d[1] \in Nat
        BY ConstantsAssumption DEF Deliveries
      <4>2. d[1] <= lastEvent
        BY DEF HoldInv
      <4>3. lastEvent \in Nat
        BY ConstantsAssumption DEF TypeOK
      <4>. QED  BY <4>1, <4>2, <4>3
    <3>. QED  BY <2>1, <3>1 DEF CreateDeliveries
  <2>2. ASSUME NEW a \in Admins, CommitEndpoint(a)
        PROVE  delivery'[d] = delivery[d] /\ attempts' = attempts
    BY <2>2 DEF CommitEndpoint
  <2>3. ASSUME NEW w \in Workers, Claim(w)
        PROVE  delivery'[d] = delivery[d] /\ attempts'[d] = attempts[d]
    <3>1. job[w].delivery # d
      BY <2>3 DEF Claim, Claimable, Stale
    <3>. QED  BY <2>3, <3>1 DEF Claim, TypeOK
  <2>4. ASSUME NEW w \in Workers,
               \/ SettleSuccess(w) \/ SuccessAnswerLost(w)
               \/ Reschedule(w) \/ GiveUp(w)
        PROVE  /\ attempts' = attempts
               /\ \/ delivery'[d] = delivery[d]
                  \/ Doubts(w, d) /\ pc'[w] = "ready"
    (* A worker that settles owns its row, so the row is not settled yet,  *)
    (* unless it is the worker's own doubtful success.                     *)
    <3>1. CASE pc[w] = "abandon"
      <4>1. job[w].delivery # d
        BY <3>1 DEF CountInv
      <4>. QED  BY <2>4, <3>1, <4>1 DEF SettleSuccess, SuccessAnswerLost,
                Reschedule, Failed, GiveUp, TypeOK
    <3>2. CASE Holding(w) /\ job[w].delivery # d
      BY <2>4, <3>2 DEF SettleSuccess, SuccessAnswerLost, Reschedule, GiveUp, TypeOK
    <3>3. CASE Holding(w) /\ job[w].delivery = d
      <4>1. pc[w] = "unsure"
        BY <3>3 DEF HoldInv, Owns
      <4>. QED  BY <2>4, <3>3, <4>1 DEF SettleSuccess, SuccessAnswerLost,
                Reschedule, GiveUp, Ready, Doubts, TypeOK
    <3>. QED  BY <2>4, <3>1, <3>2, <3>3 DEF SettleSuccess, SuccessAnswerLost,
              Reschedule, GiveUp, Failed, Holding
  <2>5. ASSUME UNCHANGED <<delivery, attempts>>
        PROVE  delivery'[d] = delivery[d] /\ attempts' = attempts
    BY <2>5
  <2>. QED
    BY <2>1, <2>2, <2>3, <2>4, <2>5 DEF Next, Work, ReadSubscribers,
       ReadForReplay, ReadEndpoint, SelectBatch, ReadDelivery, TakeNext,
       LoseClaim, Post, Outcome, SuccessWriteFails, Crash, Tick
<1>2. TypeOK /\ CountInv /\ HoldInv /\ [Next]_vars =>
        [\A d \in Deliveries :
           Settled(d) /\ EndpointOf(d) \notin everDisabled =>
             /\ attempts'[d] = attempts[d]
             /\ \/ delivery'[d] = delivery[d]
                \/ \E w \in Workers : Doubts(w, d) /\ pc'[w] = "ready"]_vars
  BY <1>1 DEF vars
<1>. QED
  BY <1>2, TypeCorrect, CountInvInductive, HoldInvInductive, PTL
     DEF Spec, SettledIsFinal

-----------------------------------------------------------------------------
(* The refinement.  A worker past its claim has made an attempt, and the   *)
(* row a worker works on exists.                                           *)
RowInv ==
  \A w \in Workers :
    /\ pc[w] # "ready" => delivery[job[w].delivery].status # "ABSENT"
    /\ Holding(w) => attempts[job[w].delivery] > 0

LEMMA RowsStay ==
  ASSUME TypeOK, HoldInv, Next, NEW d \in Deliveries, delivery[d].status # "ABSENT"
  PROVE  delivery'[d].status # "ABSENT" /\ attempts'[d] >= attempts[d]
<1>t. delivery[d] \in Row /\ attempts[d] \in Nat
  BY DEF TypeOK
<1>1. ASSUME NEW p \in Publishers, CreateDeliveries(p)  PROVE UNCHANGED attempts /\ delivery'[d].status # "ABSENT"
  BY <1>1, <1>t DEF CreateDeliveries, NewRow
<1>2. ASSUME NEW a \in Admins, CommitEndpoint(a)  PROVE UNCHANGED attempts /\ delivery'[d].status # "ABSENT"
  BY <1>2, <1>t DEF CommitEndpoint, Abandoned, Row
<1>3. ASSUME NEW w \in Workers, Claim(w)
      PROVE  delivery'[d].status # "ABSENT" /\ attempts'[d] >= attempts[d]
  <2>. DEFINE c == job[w].delivery
  <2>1. delivery'[d] = IF d = c
          THEN [status |-> "PROCESSING", attemptCount |-> job[w].attemptCount + 1,
                nextAttemptAt |-> None, lastAttemptAt |-> now]
          ELSE delivery[d]
    BY <1>3 DEF Claim, TypeOK
  <2>2. attempts'[d] = IF d = c THEN attempts[d] + 1 ELSE attempts[d]
    BY <1>3 DEF Claim, TypeOK
  <2>. QED  BY <1>t, <2>1, <2>2
<1>4. ASSUME NEW w \in Workers,
             \/ SettleSuccess(w) \/ SuccessAnswerLost(w)
             \/ Reschedule(w) \/ GiveUp(w)
      PROVE  UNCHANGED attempts /\ delivery'[d].status # "ABSENT"
  <2>. DEFINE c == job[w].delivery
  <2>1. UNCHANGED attempts
    BY <1>4 DEF SettleSuccess, SuccessAnswerLost, Reschedule, GiveUp
  <2>2. \/ delivery' = [delivery EXCEPT ![c] = [delivery[c] EXCEPT !.status = "SUCCEEDED"]]
        \/ delivery' = [delivery EXCEPT ![c] = Rescheduled(delivery[c], job[w].attemptCount)]
        \/ delivery' = [delivery EXCEPT ![c] = Abandoned(delivery[c])]
    BY <1>4 DEF SettleSuccess, SuccessAnswerLost, Reschedule, GiveUp
  <2>3. CASE d # c
    <3>1. delivery'[d] = delivery[d]
      BY <2>2, <2>3 DEF TypeOK
    <3>. QED  BY <2>1, <3>1
  <2>4. CASE d = c
    <3>1. \/ delivery'[d] = [delivery[d] EXCEPT !.status = "SUCCEEDED"]
          \/ delivery'[d] = Rescheduled(delivery[d], job[w].attemptCount)
          \/ delivery'[d] = Abandoned(delivery[d])
      BY <2>2, <2>4 DEF TypeOK
    <3>. QED  BY <1>t, <2>1, <3>1 DEF Rescheduled, Abandoned, Row
  <2>. QED  BY <2>3, <2>4
<1>5. ASSUME UNCHANGED <<delivery, attempts>>
      PROVE  delivery'[d].status # "ABSENT" /\ attempts'[d] >= attempts[d]
  BY <1>t, <1>5
<1>6. \/ UNCHANGED <<delivery, attempts>>
      \/ \E p \in Publishers : CreateDeliveries(p)
      \/ \E a \in Admins : CommitEndpoint(a)
      \/ \E w \in Workers : Claim(w)
      \/ \E w \in Workers : \/ SettleSuccess(w) \/ SuccessAnswerLost(w)
                           \/ Reschedule(w) \/ GiveUp(w)
  BY Zenon DEF Next, Work, ReadSubscribers, ReadForReplay, ReadEndpoint, SelectBatch,
     ReadDelivery, TakeNext, LoseClaim, Post, Outcome, SuccessWriteFails, Crash, Tick
<1>7. ASSUME UNCHANGED attempts, delivery'[d].status # "ABSENT"
      PROVE  delivery'[d].status # "ABSENT" /\ attempts'[d] >= attempts[d]
  BY <1>t, <1>7
<1>. QED  BY <1>1, <1>2, <1>3, <1>4, <1>5, <1>6, <1>7, Zenon

LEMMA RowInvInductive ==
  ASSUME SettleWithin < StaleAfter
  PROVE  Spec => []RowInv
<1>1. Init => RowInv
  BY DEF Init, RowInv, Holding
<1>2. ASSUME TypeOK, HoldInv, RowInv, Next, NEW w \in Workers, pc'[w] # "ready"
      PROVE  /\ delivery'[job'[w].delivery].status # "ABSENT"
             /\ Holding(w)' => attempts'[job'[w].delivery] > 0
  <2>1. CASE /\ job'[w].delivery = job[w].delivery /\ pc[w] # "ready"
             /\ Holding(w)' => Holding(w)
    <3>1. job[w].delivery \in Deliveries /\ delivery[job[w].delivery].status # "ABSENT"
      BY <1>2, <2>1 DEF RowInv, TypeOK
    <3>2. Holding(w)' => attempts[job[w].delivery] > 0
      BY <1>2, <2>1 DEF RowInv
    <3>3. /\ attempts'[job[w].delivery] >= attempts[job[w].delivery]
          /\ delivery'[job[w].delivery].status # "ABSENT"
      BY <1>2, <3>1, RowsStay
    <3>4. attempts[job[w].delivery] \in Nat
      BY <1>2, <3>1 DEF TypeOK
    <3>5. attempts'[job[w].delivery] \in Nat
      BY <1>2, <2>1, TypeStep, <3>1 DEF TypeOK
    <3>. QED  BY <2>1, <3>2, <3>3, <3>4, <3>5
  <2>2. CASE ReadDelivery(w)
    <3>. DEFINE d == Head(queue[w])
    <3>1. d \in Deliveries
      BY <1>2, <2>2 DEF ReadDelivery, TypeOK
    <3>2. PICK goTo \in {"claim", "abandon", "ready"} :
            TakeNext(w, goTo) /\ (goTo # "ready" => Claimable(delivery[d], now - StaleAfter))
      BY <2>2 DEF ReadDelivery
    <3>3. pc'[w] = goTo /\ UNCHANGED delivery
      BY <1>2, <3>2 DEF TakeNext, TypeOK
    <3>4. job'[w].delivery = d /\ ~ Holding(w)'
      BY <1>2, <3>2, <3>3 DEF TakeNext, TypeOK, Holding
    <3>. QED  BY <1>2, <3>2, <3>3, <3>4 DEF Claimable, Stale
  <2>3. CASE Claim(w)
    <3>. DEFINE d == job[w].delivery
    <3>1. d \in Deliveries
      BY <1>2, <2>3 DEF Claim, TypeOK
    <3>2. /\ delivery'[d].status = "PROCESSING"
          /\ attempts'[d] = attempts[d] + 1
          /\ job'[w].delivery = d
      BY <1>2, <2>3, <3>1 DEF Claim, TypeOK, Job
    <3>. QED  BY <1>2, <3>1, <3>2 DEF TypeOK
  <2>4. ASSUME NEW v \in Workers, v # w,
               Work(v) \/ SuccessWriteFails(v) \/ SuccessAnswerLost(v) \/ Crash(v)
        PROVE  pc'[w] = pc[w] /\ job'[w] = job[w]
    BY <1>2, <2>4 DEF Work, SelectBatch, ReadDelivery, TakeNext, Claim, LoseClaim,
       Ready, Post, SettleSuccess, SuccessWriteFails, SuccessAnswerLost,
       Reschedule, GiveUp, Crash, TypeOK
  <2>5. CASE \/ SuccessWriteFails(w) \/ SuccessAnswerLost(w)
             \/ \E taken, ok \in BOOLEAN : Post(w, taken, ok)
    BY <1>2, <2>1, <2>5 DEF SuccessWriteFails, SuccessAnswerLost, Post, Holding, TypeOK
  <2>6. CASE \E i \in IgnoreSchedule, l \in BatchLimits : SelectBatch(w, i, l)
    BY <1>2, <2>6 DEF SelectBatch
  <2>7. CASE LoseClaim(w) \/ SettleSuccess(w) \/ Reschedule(w) \/ GiveUp(w) \/ Crash(w)
    BY <1>2, <2>7 DEF LoseClaim, SettleSuccess, Reschedule, GiveUp, Crash, Ready,
       TypeOK
  <2>8. CASE UNCHANGED <<pc, job>>
    BY <1>2, <2>1, <2>8 DEF Holding
  <2>9. \/ \E v \in Workers :
             Work(v) \/ SuccessWriteFails(v) \/ SuccessAnswerLost(v) \/ Crash(v)
        \/ UNCHANGED <<pc, job>>
    BY <1>2 DEF Next, Tick, ReadSubscribers, ReadForReplay, CreateDeliveries,
       ReadEndpoint, CommitEndpoint, workerVars
  <2>10. ASSUME Work(w)
         PROVE  \/ ReadDelivery(w) \/ Claim(w)
                \/ \E taken, ok \in BOOLEAN : Post(w, taken, ok)
                \/ \E i \in IgnoreSchedule, l \in BatchLimits : SelectBatch(w, i, l)
                \/ LoseClaim(w) \/ SettleSuccess(w) \/ Reschedule(w) \/ GiveUp(w)
    BY <2>10 DEF Work
  <2>11. CASE \E v \in Workers :
                /\ v # w
                /\ Work(v) \/ SuccessWriteFails(v) \/ SuccessAnswerLost(v) \/ Crash(v)
    BY <1>2, <2>1, <2>4, <2>11 DEF Holding
  <2>. QED  BY <2>2, <2>3, <2>5, <2>6, <2>7, <2>8, <2>9, <2>10, <2>11
<1>3. TypeOK /\ HoldInv /\ RowInv /\ [Next]_vars => RowInv'
  <2>1. ASSUME RowInv, UNCHANGED vars  PROVE RowInv'
    BY <2>1 DEF RowInv, Holding, vars, workerVars
  <2>2. ASSUME TypeOK, HoldInv, RowInv, Next, NEW w \in Workers
        PROVE  /\ pc'[w] # "ready" => delivery'[job'[w].delivery].status # "ABSENT"
               /\ Holding(w)' => attempts'[job'[w].delivery] > 0
    BY <1>2, <2>2 DEF Holding
  <2>. QED  BY <2>1, <2>2 DEF RowInv
<1>. QED  BY <1>1, <1>3, TypeCorrect, HoldInvInductive, PTL DEF Spec

Standings == [d \in Deliveries |-> Standing(d)]
Excused == {d \in Deliveries : EndpointOf(d) \in everDisabled}
Doubted == {d \in Deliveries : \E w \in Workers : Doubts(w, d)}

(* What a step does to the mapped variables, written with the state's own  *)
(* variables: the obligations of the refinement.                           *)
PromiseStep ==
  \/ UNCHANGED <<Standings, attempts, accepted, Excused, Doubted>>
  \/ \E D \in SUBSET Deliveries : Promise!Announce(D)
  \/ \E d \in Deliveries :
       \/ Promise!Attempt(d) \/ Promise!Receive(d) \/ Promise!Deliver(d)
       \/ Promise!GiveUp(d) \/ Promise!Reopen(d)
       \/ Promise!DeliverInDoubt(d) \/ Promise!TakeBack(d) \/ Promise!LeaveAlone(d)
  \/ \E D, G \in SUBSET Deliveries : Promise!Excuse(D, G)

(* One row is written.                                                     *)
LEMMA OneRow ==
  ASSUME TypeOK, NEW d \in Deliveries, NEW row, delivery' = [delivery EXCEPT ![d] = row]
  PROVE  /\ Standing(d)' = CASE row.status = "ABSENT" -> "none"
                             [] row.status \in {"PENDING", "PROCESSING"} -> "open"
                             [] row.status = "SUCCEEDED" -> "delivered"
                             [] OTHER -> "givenUp"
         /\ \A c \in Deliveries \ {d} : Standing(c)' = Standing(c)
<1>1. delivery'[d] = row
  BY DEF TypeOK
<1>2. \A c \in Deliveries \ {d} : delivery'[c] = delivery[c]
  BY DEF TypeOK
<1>. QED  BY <1>1, <1>2 DEF Standing

(* A step that neither brings a worker into doubt nor takes one out of it. *)
LEMMA DoubtStays ==
  ASSUME TypeOK,
         \A v \in Workers : pc[v] = "unsure" \/ pc'[v] = "unsure" =>
           pc'[v] = pc[v] /\ job'[v].delivery = job[v].delivery
  PROVE  UNCHANGED Doubted
<1>1. \A w \in Workers, d \in Deliveries : Doubts(w, d)' <=> Doubts(w, d)
  BY DEF Doubts
<1>. QED  BY <1>1 DEF Doubted

(* The call that doubts a delivery ends; no other call doubts it.          *)
LEMMA DoubtEnds ==
  ASSUME TypeOK, HoldInv, NEW w \in Workers, pc[w] = "unsure", pc'[w] = "ready",
         \A v \in Workers : v # w => pc'[v] = pc[v] /\ job'[v] = job[v]
  PROVE  /\ job[w].delivery \in Doubted
         /\ Doubted' = Doubted \ {job[w].delivery}
<1>1. job[w].delivery \in Deliveries /\ Doubts(w, job[w].delivery)
  BY DEF TypeOK, Doubts
<1>2. \A v \in Workers : v # w => ~ Doubts(v, job[w].delivery)
  BY DEF HoldInv, ExclusivePosting, Holding, Doubts
<1>3. \A d \in Deliveries : ~ Doubts(w, d)'
  BY DEF Doubts
<1>4. \A v \in Workers, d \in Deliveries : v # w => (Doubts(v, d)' <=> Doubts(v, d))
  BY DEF Doubts
<1>5. \A d \in Deliveries : d # job[w].delivery => ~ Doubts(w, d)
  BY DEF Doubts
<1>. QED  BY <1>1, <1>2, <1>3, <1>4, <1>5 DEF Doubted

(* A worker that settles has made its attempts, and its row is open or     *)
(* excused, unless the worker doubts it.                                   *)
LEMMA SettlingIsOpen ==
  ASSUME TypeOK, CountInv, HoldInv, RowInv, NEW w \in Workers,
         Holding(w) \/ pc[w] = "abandon", pc[w] # "unsure"
  PROVE  /\ job[w].delivery \in Deliveries
         /\ Promise!Open(job[w].delivery)
         /\ Standing(job[w].delivery) # "none"
         /\ Standing(job[w].delivery) # "open" => job[w].delivery \in Excused
<1>. DEFINE d == job[w].delivery
<1>1. d \in Deliveries /\ delivery[d].status # "ABSENT" /\ delivery[d] \in Row
  BY DEF TypeOK, RowInv, Holding
<1>2. Standing(d) # "none"
  BY <1>1 DEF Standing
<1>3. CASE pc[w] = "abandon"
  <2>1. d \in Excused
    BY <1>1, <1>3 DEF CountInv, Excused
  <2>. QED  BY <1>1, <1>2, <2>1 DEF Promise!Open, Excused
<1>4. CASE Holding(w)
  <2>1. \/ delivery[d].status = "PROCESSING"
        \/ EndpointOf(d) \in everDisabled
    BY <1>4 DEF HoldInv, Owns
  <2>2. Standing(d) = "open" \/ d \in Excused
    BY <1>1, <2>1 DEF Standing, Excused
  <2>. QED  BY <1>1, <1>2, <2>2 DEF Promise!Open, Excused
<1>. QED  BY <1>3, <1>4

LEMMA AnnounceMaps ==
  ASSUME TypeOK, HoldInv, NEW p \in Publishers, CreateDeliveries(p)
  PROVE  PromiseStep
<1>. DEFINE D == {d \in Deliveries : d[1] = lastEvent + 1 /\ EndpointOf(d) \in publish[p]}
<1>1. ASSUME NEW d \in D  PROVE d \in Deliveries /\ Standing(d) = "none"
  <2>1. d \in Deliveries /\ d[1] \in Nat /\ lastEvent \in Nat
    BY ConstantsAssumption DEF TypeOK, Deliveries
  <2>2. delivery[d].status = "ABSENT"
    BY <2>1 DEF HoldInv
  <2>. QED  BY <2>1, <2>2 DEF Standing
<1>2. \A d \in Deliveries : Standing(d)' = IF d \in D THEN "open" ELSE Standing(d)
  BY DEF CreateDeliveries, Standing, NewRow
<1>3. UNCHANGED <<attempts, accepted, Excused, Doubted>>
  BY DEF CreateDeliveries, workerVars, Excused, Doubted, Doubts
<1>4. Promise!Announce(D)
  BY <1>1, <1>2, <1>3 DEF Promise!Announce, Promise!Set, Excused, Doubted
<1>. QED  BY <1>4 DEF PromiseStep

LEMMA ExcuseMaps ==
  ASSUME TypeOK, NEW a \in Admins, CommitEndpoint(a)
  PROVE  PromiseStep
<1>1. PICK x \in edit[a] :
        /\ delivery' = [d \in Deliveries |->
             IF /\ x.seen # "DISABLED"
                /\ x.status = "DISABLED"
                /\ EndpointOf(d) = x.endpoint
                /\ delivery[d].status = "PENDING"
             THEN Abandoned(delivery[d]) ELSE delivery[d]]
        /\ everDisabled' = IF x.status = "DISABLED"
             THEN everDisabled \cup {x.endpoint} ELSE everDisabled
  BY DEF CommitEndpoint
<1>2. UNCHANGED <<attempts, accepted, Doubted>>
  BY DEF CommitEndpoint, workerVars, Doubted, Doubts
<1>3. CASE x.status # "DISABLED"
  <2>1. UNCHANGED everDisabled /\ delivery' = [d \in Deliveries |-> delivery[d]]
    BY <1>1, <1>3
  <2>2. \A d \in Deliveries : Standing(d)' = Standing(d)
    BY <2>1 DEF Standing
  <2>. QED  BY <1>2, <2>1, <2>2 DEF PromiseStep, Standings, Excused
<1>4. CASE x.status = "DISABLED"
  <2>. DEFINE D == {d \in Deliveries : EndpointOf(d) = x.endpoint}
              G == {d \in D : x.seen # "DISABLED" /\ delivery[d].status = "PENDING"}
  <2>1. \A d \in Deliveries : Standing(d)' = IF d \in G THEN "givenUp" ELSE Standing(d)
    <3> SUFFICES ASSUME NEW d \in Deliveries
                 PROVE  Standing(d)' = IF d \in G THEN "givenUp" ELSE Standing(d)
      OBVIOUS
    <3>1. CASE d \in G
      <4>1. delivery'[d] = Abandoned(delivery[d]) /\ delivery[d] \in Row
        BY <1>1, <1>4, <3>1 DEF TypeOK
      <4>2. delivery'[d].status = "ABANDONED"
        BY <4>1, SettledRowType
      <4>. QED  BY <3>1, <4>2 DEF Standing
    <3>2. CASE d \notin G
      <4>1. delivery'[d] = delivery[d]
        BY <1>1, <1>4, <3>2
      <4>. QED  BY <3>2, <4>1 DEF Standing
    <3>. QED  BY <3>1, <3>2
  <2>2. \A d \in G : Standing(d) = "open"
    BY DEF Standing
  <2>3. Excused' = Excused \union D
    BY <1>1, <1>4 DEF Excused
  <2>4. G \subseteq Deliveries /\ D \subseteq Deliveries /\ G \subseteq D
    OBVIOUS
  <2>. HIDE DEF D, G
  <2>5. Promise!Excuse(D, G)
    BY <1>2, <2>1, <2>2, <2>3, <2>4 DEF Promise!Excuse, Promise!Set, Excused, Doubted
  <2>. QED  BY <2>4, <2>5 DEF PromiseStep
<1>. QED  BY <1>3, <1>4

LEMMA AttemptMaps ==
  ASSUME TypeOK, NEW w \in Workers, Claim(w)
  PROVE  PromiseStep
<1>. DEFINE d == job[w].delivery
            row == [status |-> "PROCESSING", attemptCount |-> job[w].attemptCount + 1,
                    nextAttemptAt |-> None, lastAttemptAt |-> now]
<1>1. d \in Deliveries /\ Standing(d) = "open"
  BY DEF Claim, Claimable, Stale, Standing, TypeOK
<1>2. delivery' = [delivery EXCEPT ![d] = row] /\ row.status = "PROCESSING"
  BY DEF Claim
<1>3. \A c \in Deliveries : Standing(c)' = Standing(c)
  <2>. HIDE DEF row
  <2>1. PICK e \in Deliveries : e = d
    BY <1>1
  <2>2. Standing(e)' = "open"
    BY <1>2, <2>1, OneRow
  <2>3. \A c \in Deliveries \ {e} : Standing(c)' = Standing(c)
    BY <1>2, <2>1, OneRow
  <2>. QED  BY <1>1, <2>1, <2>2, <2>3
<1>4. attempts' = [attempts EXCEPT ![d] = @ + 1] /\ UNCHANGED <<accepted, everDisabled>>
  BY DEF Claim
<1>6. UNCHANGED Doubted
  <2>1. pc[w] = "claim" /\ pc' = [pc EXCEPT ![w] = "posting"]
    BY DEF Claim
  <2>2. \A v \in Workers : v # w => job'[v] = job[v]
    BY DEF Claim, TypeOK
  <2>. QED  BY <2>1, <2>2, DoubtStays DEF TypeOK
<1>5. Promise!Attempt(d)
  BY <1>1, <1>3, <1>4, <1>6 DEF Promise!Attempt, Excused, Doubted
<1>. QED  BY <1>1, <1>5 DEF PromiseStep

LEMMA ReceiveMaps ==
  ASSUME TypeOK, CountInv, HoldInv, RowInv, NEW w \in Workers,
         NEW taken \in BOOLEAN, NEW ok \in BOOLEAN, Post(w, taken, ok)
  PROVE  PromiseStep
<1>. DEFINE d == job[w].delivery
<1>1. Holding(w) /\ UNCHANGED <<delivery, attempts, everDisabled>>
  BY DEF Post, Holding
<1>6. UNCHANGED Doubted
  BY DoubtStays DEF Post, TypeOK
<1>2. d \in Deliveries /\ Promise!Open(d) /\ attempts[d] > 0
  BY <1>1, SettlingIsOpen DEF RowInv, Post
<1>3. \A c \in Deliveries : Standing(c)' = Standing(c)
  BY <1>1 DEF Standing
<1>4. CASE taken
  <2>1. accepted' = [accepted EXCEPT ![d] = @ + 1]
    BY <1>4 DEF Post
  <2>2. Promise!Receive(d)
    BY <1>1, <1>2, <1>3, <1>6, <2>1 DEF Promise!Receive, Doubted
  <2>. QED  BY <1>2, <2>2 DEF PromiseStep
<1>5. CASE ~ taken
  <2>1. accepted' = accepted
    BY <1>5 DEF Post, TypeOK
  <2>. QED  BY <1>1, <1>3, <1>6, <2>1 DEF PromiseStep, Standings, Excused
<1>. QED  BY <1>4, <1>5

LEMMA SettleMaps ==
  ASSUME TypeOK, CountInv, HoldInv, RowInv, NEW w \in Workers,
         SettleSuccess(w) \/ Reschedule(w) \/ GiveUp(w), pc[w] # "unsure"
  PROVE  PromiseStep
<1>0. Holding(w) \/ pc[w] = "abandon"
  BY DEF SettleSuccess, Reschedule, GiveUp, Failed, Holding
<1>1. PICK d \in Deliveries : d = job[w].delivery
  BY <1>0, SettlingIsOpen
<1>2. /\ Promise!Open(d)
      /\ Standing(d) # "none"
      /\ Standing(d) # "open" => d \in Excused
      /\ delivery[d] \in Row
  BY <1>0, <1>1, SettlingIsOpen DEF TypeOK
<1>3. UNCHANGED <<attempts, accepted, everDisabled, Excused, Doubted>>
  <2>1. UNCHANGED Doubted
    BY DoubtStays DEF SettleSuccess, Reschedule, GiveUp, Ready, TypeOK
  <2>. QED  BY <2>1 DEF SettleSuccess, Reschedule, GiveUp, Excused
<1>4. CASE SettleSuccess(w)
  <2>1. delivery' = [delivery EXCEPT ![d] = [delivery[d] EXCEPT !.status = "SUCCEEDED"]]
    BY <1>1, <1>4 DEF SettleSuccess
  <2>2. Standing(d)' = "delivered" /\ \A c \in Deliveries \ {d} : Standing(c)' = Standing(c)
    BY <1>2, <2>1, OneRow, SettledRowType
  <2>3. accepted[d] > 0
    BY <1>1, <1>4 DEF SettleSuccess, CountInv
  <2>4. Promise!Deliver(d)
    BY <1>2, <1>3, <2>2, <2>3 DEF Promise!Deliver, Promise!Set, Excused, Doubted
  <2>. QED  BY <2>4 DEF PromiseStep
<1>5. CASE Reschedule(w)
  <2>1. delivery' = [delivery EXCEPT ![d] = Rescheduled(delivery[d], job[w].attemptCount)]
    BY <1>1, <1>5 DEF Reschedule
  <2>2. job[w].attemptCount \in Nat /\ now \in Nat
    BY DEF TypeOK, Job
  <2>3. Rescheduled(delivery[d], job[w].attemptCount).status = "PENDING"
    BY <1>2, <2>2, RescheduledType
  <2>4. Standing(d)' = "open" /\ \A c \in Deliveries \ {d} : Standing(c)' = Standing(c)
    BY <1>2, <2>1, <2>3, OneRow
  <2>5. CASE Standing(d) = "open"
    <3>1. \A c \in Deliveries : Standing(c)' = Standing(c)
      BY <2>4, <2>5
    <3>. QED  BY <1>3, <3>1 DEF PromiseStep, Standings
  <2>6. CASE d \in Excused
    <3>1. Promise!Reopen(d)
      BY <1>2, <1>3, <2>4, <2>6 DEF Promise!Reopen, Promise!Set, Excused, Doubted
    <3>. QED  BY <3>1 DEF PromiseStep
  <2>. QED  BY <1>2, <2>5, <2>6
<1>6. CASE GiveUp(w)
  <2>1. delivery' = [delivery EXCEPT ![d] = Abandoned(delivery[d])]
    BY <1>1, <1>6 DEF GiveUp
  <2>2. Standing(d)' = "givenUp" /\ \A c \in Deliveries \ {d} : Standing(c)' = Standing(c)
    BY <1>2, <2>1, OneRow, SettledRowType
  <2>3. attempts[d] >= MaxAttempts \/ d \in Excused
    <3>1. CASE pc[w] = "abandon"
      BY <1>1, <3>1 DEF CountInv, Excused
    <3>2. CASE pc[w] = "failed"
      <4>1. job[w].attemptCount <= attempts[d] /\ job[w].attemptCount >= MaxAttempts
        BY <1>1, <1>6, <3>2 DEF CountInv, GiveUp, ShouldAbandon
      <4>2. attempts[d] \in Nat /\ job[w].attemptCount \in Nat /\ MaxAttempts \in Nat
        BY ConstantsAssumption DEF TypeOK, Job
      <4>. QED  BY <4>1, <4>2
    <3>. QED  BY <1>6, <3>1, <3>2 DEF GiveUp, Failed
  <2>4. Promise!GiveUp(d)
    BY <1>2, <1>3, <2>2, <2>3
       DEF Promise!GiveUp, Promise!Spent, Promise!Set, Excused, Doubted
  <2>. QED  BY <2>4 DEF PromiseStep
<1>. QED  BY <1>4, <1>5, <1>6

(* The commit of a success took effect, and its answer was lost.           *)
LEMMA DoubtMaps ==
  ASSUME TypeOK, CountInv, HoldInv, RowInv, NEW w \in Workers, SuccessAnswerLost(w)
  PROVE  PromiseStep
<1>0. pc[w] = "acked" /\ Holding(w)
  BY DEF SuccessAnswerLost, Holding
<1>1. PICK d \in Deliveries : d = job[w].delivery
  BY <1>0, SettlingIsOpen
<1>2. Promise!Open(d) /\ accepted[d] > 0 /\ delivery[d] \in Row
  BY <1>0, <1>1, SettlingIsOpen DEF CountInv, TypeOK
<1>3. delivery' = [delivery EXCEPT ![d] = [delivery[d] EXCEPT !.status = "SUCCEEDED"]]
  BY <1>1 DEF SuccessAnswerLost
<1>4. Standing(d)' = "delivered" /\ \A c \in Deliveries \ {d} : Standing(c)' = Standing(c)
  BY <1>2, <1>3, OneRow, SettledRowType
<1>5. UNCHANGED <<attempts, accepted, Excused>>
  BY DEF SuccessAnswerLost, Excused
<1>6. Doubted' = Doubted \union {d}
  <2>1. pc' = [pc EXCEPT ![w] = "unsure"] /\ job' = job
    BY DEF SuccessAnswerLost
  <2>2. \A v \in Workers, c \in Deliveries :
          Doubts(v, c)' <=> Doubts(v, c) \/ (v = w /\ c = d)
    BY <1>0, <1>1, <2>1 DEF Doubts, TypeOK
  <2>. QED  BY <2>2 DEF Doubted
<1>7. Promise!DeliverInDoubt(d)
  BY <1>2, <1>4, <1>5, <1>6 DEF Promise!DeliverInDoubt, Promise!Set, Excused, Doubted
<1>. QED  BY <1>7 DEF PromiseStep

(* The call in doubt treats the request as failed.                         *)
LEMMA TakeBackMaps ==
  ASSUME TypeOK, CountInv, HoldInv, RowInv, NEW w \in Workers,
         Reschedule(w) \/ GiveUp(w), pc[w] = "unsure"
  PROVE  PromiseStep
<1>1. PICK d \in Deliveries : d = job[w].delivery
  BY DEF TypeOK
<1>2. /\ delivery[d] \in Row /\ delivery[d].status # "ABSENT"
      /\ \/ delivery[d].status = "SUCCEEDED" \/ delivery[d].status = "PROCESSING"
         \/ d \in Excused
  BY <1>1 DEF TypeOK, RowInv, HoldInv, Owns, Holding, Excused
<1>3. Standing(d) = "delivered" \/ Promise!Open(d)
  BY <1>2 DEF Promise!Open, Standing, Excused
<1>4. UNCHANGED <<attempts, accepted, everDisabled, Excused>>
  BY DEF Reschedule, GiveUp, Excused
<1>5. d \in Doubted /\ Doubted' = Doubted \ {d}
  BY <1>1, DoubtEnds DEF Reschedule, GiveUp, Ready, TypeOK
<1>6. CASE Reschedule(w)
  <2>1. delivery' = [delivery EXCEPT ![d] = Rescheduled(delivery[d], job[w].attemptCount)]
    BY <1>1, <1>6 DEF Reschedule
  <2>2. job[w].attemptCount \in Nat /\ now \in Nat
    BY DEF TypeOK, Job
  <2>3. Rescheduled(delivery[d], job[w].attemptCount).status = "PENDING"
    BY <1>2, <2>2, RescheduledType
  <2>4. Standing(d)' = "open" /\ \A c \in Deliveries \ {d} : Standing(c)' = Standing(c)
    BY <1>2, <2>1, <2>3, OneRow
  <2>5. Promise!TakeBack(d)
    BY <1>3, <1>4, <1>5, <2>4 DEF Promise!TakeBack, Promise!Set, Excused, Doubted
  <2>. QED  BY <2>5 DEF PromiseStep
<1>7. CASE GiveUp(w)
  <2>1. delivery' = [delivery EXCEPT ![d] = Abandoned(delivery[d])]
    BY <1>1, <1>7 DEF GiveUp
  <2>2. Standing(d)' = "givenUp" /\ \A c \in Deliveries \ {d} : Standing(c)' = Standing(c)
    BY <1>2, <2>1, OneRow, SettledRowType
  <2>3. attempts[d] >= MaxAttempts
    <3>1. job[w].attemptCount <= attempts[d] /\ job[w].attemptCount >= MaxAttempts
      BY <1>1, <1>7 DEF CountInv, GiveUp, ShouldAbandon
    <3>2. attempts[d] \in Nat /\ job[w].attemptCount \in Nat /\ MaxAttempts \in Nat
      BY ConstantsAssumption DEF TypeOK, Job
    <3>. QED  BY <3>1, <3>2
  <2>4. Promise!TakeBack(d)
    BY <1>3, <1>4, <1>5, <2>2, <2>3
       DEF Promise!TakeBack, Promise!Spent, Promise!Set, Excused, Doubted
  <2>. QED  BY <2>4 DEF PromiseStep
<1>. QED  BY <1>6, <1>7

(* A call in doubt ends without a further write.                           *)
LEMMA CrashMaps ==
  ASSUME TypeOK, HoldInv, NEW w \in Workers, Crash(w)
  PROVE  PromiseStep
<1>1. /\ UNCHANGED <<attempts, accepted, Excused>>
      /\ \A c \in Deliveries : Standing(c)' = Standing(c)
  BY DEF Crash, Excused, Standing
<1>2. CASE pc[w] = "unsure"
  <2>1. PICK d \in Deliveries : d = job[w].delivery
    BY <1>2 DEF TypeOK
  <2>2. d \in Doubted /\ Doubted' = Doubted \ {d}
    BY <1>2, <2>1, DoubtEnds DEF Crash, TypeOK
  <2>3. Promise!LeaveAlone(d)
    BY <1>1, <2>2 DEF Promise!LeaveAlone, Excused, Doubted
  <2>. QED  BY <2>3 DEF PromiseStep
<1>3. CASE pc[w] # "unsure"
  <2>1. UNCHANGED Doubted
    BY <1>3, DoubtStays DEF Crash, TypeOK
  <2>. QED  BY <1>1, <2>1 DEF PromiseStep, Standings
<1>. QED  BY <1>2, <1>3

(* The calls keep the promise of AtLeastOnce for every number of calls,    *)
(* crashes, lost answers of the database and status changes, if outcomes   *)
(* are written before a claim goes stale.                                  *)
THEOREM PromiseKept ==
  ASSUME SettleWithin < StaleAfter
  PROVE  Spec => KeepsPromise
<1>1. Init => Promise!Init
  BY DEF Init, Promise!Init, Standing, AbsentRow, Doubts
<1>2. ASSUME TypeOK, CountInv, HoldInv, RowInv, [Next]_vars  PROVE PromiseStep
  <2>1. CASE UNCHANGED <<delivery, attempts, accepted, everDisabled, Doubted>>
    <3>1. \A d \in Deliveries : Standing(d)' = Standing(d)
      BY <2>1 DEF Standing
    <3>. QED  BY <2>1, <3>1 DEF PromiseStep, Standings, Excused
  <2>7. CASE /\ UNCHANGED <<delivery, attempts, accepted, everDisabled>>
             /\ \/ UNCHANGED <<pc, job>>
                \/ \E w \in Workers :
                     \/ ReadDelivery(w) \/ LoseClaim(w) \/ SuccessWriteFails(w)
    <3>1. CASE UNCHANGED <<pc, job>>
      BY <1>2, <2>1, <2>7, <3>1, DoubtStays
    <3>2. ASSUME NEW w \in Workers,
                 ReadDelivery(w) \/ LoseClaim(w) \/ SuccessWriteFails(w)
          PROVE  UNCHANGED Doubted
      <4>1. /\ pc[w] # "unsure" /\ pc'[w] # "unsure"
            /\ \A v \in Workers \ {w} :
                 pc'[v] = pc[v] /\ job'[v] = job[v]
        BY <1>2, <3>2 DEF ReadDelivery, TakeNext, LoseClaim, Ready,
           SuccessWriteFails, TypeOK
      <4>. QED BY <1>2, <4>1, DoubtStays
    <3>. QED  BY <2>1, <2>7, <3>1, <3>2
  <2>2. \/ /\ UNCHANGED <<delivery, attempts, accepted, everDisabled>>
           /\ \/ UNCHANGED <<pc, job>>
              \/ \E w \in Workers :
                   \/ ReadDelivery(w) \/ LoseClaim(w) \/ SuccessWriteFails(w)
        \/ \E p \in Publishers : CreateDeliveries(p)
        \/ \E a \in Admins : CommitEndpoint(a)
        \/ \E w \in Workers : Claim(w) \/ (\E taken, ok \in BOOLEAN : Post(w, taken, ok))
        \/ \E w \in Workers : SettleSuccess(w) \/ Reschedule(w) \/ GiveUp(w)
        \/ \E w \in Workers : SuccessAnswerLost(w) \/ Crash(w)
    <3>. DEFINE Same ==
           /\ UNCHANGED <<delivery, attempts, accepted, everDisabled>>
           /\ \/ UNCHANGED <<pc, job>>
              \/ \E w \in Workers :
                   \/ ReadDelivery(w) \/ LoseClaim(w) \/ SuccessWriteFails(w)
    <3>1. ASSUME \/ \E p \in Publishers : ReadSubscribers(p) \/ ReadForReplay(p)
                 \/ \E a \in Admins : ReadEndpoint(a)
                 \/ \E w \in Workers, ignoreSchedule \in IgnoreSchedule,
                      limit \in BatchLimits : SelectBatch(w, ignoreSchedule, limit)
                 \/ Tick \/ UNCHANGED vars
          PROVE  Same
      BY <3>1 DEF ReadSubscribers, ReadForReplay, ReadEndpoint, SelectBatch,
         Tick, vars, workerVars
    <3>2. ASSUME \E w \in Workers :
                   ReadDelivery(w) \/ LoseClaim(w) \/ SuccessWriteFails(w)
          PROVE  Same
      BY <3>2 DEF ReadDelivery, TakeNext, LoseClaim, SuccessWriteFails
    <3>. QED  BY <1>2, <3>1, <3>2 DEF Next, Work
  <2>3. CASE \E p \in Publishers : CreateDeliveries(p)
    BY <1>2, <2>3, AnnounceMaps
  <2>4. CASE \E a \in Admins : CommitEndpoint(a)
    BY <1>2, <2>4, ExcuseMaps
  <2>5. CASE \E w \in Workers :
                Claim(w) \/ (\E taken, ok \in BOOLEAN : Post(w, taken, ok))
    BY <1>2, <2>5, AttemptMaps, ReceiveMaps
  <2>6. CASE \E w \in Workers : SettleSuccess(w) \/ Reschedule(w) \/ GiveUp(w)
    <3>1. \A w \in Workers : SettleSuccess(w) => pc[w] # "unsure"
      BY DEF SettleSuccess
    <3>. QED  BY <1>2, <2>6, <3>1, SettleMaps, TakeBackMaps
  <2>8. CASE \E w \in Workers : SuccessAnswerLost(w) \/ Crash(w)
    BY <1>2, <2>8, DoubtMaps, CrashMaps
  <2>. QED  BY <2>2, <2>3, <2>4, <2>5, <2>6, <2>7, <2>8
<1>3. PromiseStep => [Promise!Next]_(Promise!vars)
  BY DEF PromiseStep, Promise!Next, Promise!vars, Standings, Excused, Doubted
<1>. QED
  BY <1>1, <1>2, <1>3, TypeCorrect, CountInvInductive, HoldInvInductive,
     RowInvInductive, PTL DEF Spec, KeepsPromise, Promise!Spec

-----------------------------------------------------------------------------
(* The condition that the selection of a batch puts on a row (Selectable), *)
(* as it would be evaluated at time t.                                     *)
SelectedAt(row, t) ==
  \/ row.status = "PENDING" /\ (row.nextAttemptAt = None \/ row.nextAttemptAt <= t)
  \/ Stale(row, t - StaleAfter)

(* However a call ended or crashed, and whatever late answer was written   *)
(* over the row, an open delivery comes up for selection again: within the *)
(* longest retry delay if it is PENDING, within the stale window if it is  *)
(* PROCESSING.  No timing of the outcomes is assumed.                      *)
NothingIsForgotten ==
  \A d \in Deliveries :
    /\ delivery[d].status = "PENDING" => SelectedAt(delivery[d], now + MaxDelay)
    /\ delivery[d].status = "PROCESSING" => SelectedAt(delivery[d], now + StaleAfter)

(* The same of one row.                                                    *)
ComesBack(row, t) ==
  /\ row.status = "PENDING" => row.nextAttemptAt <= t + MaxDelay
  /\ row.status = "PROCESSING" => row.lastAttemptAt <= t

LEMMA ComesBackLater ==
  ASSUME NEW row \in Row, NEW t \in Nat, NEW u \in Nat, t <= u, ComesBack(row, t)
  PROVE  ComesBack(row, u)
BY ConstantsAssumption DEF ComesBack, Row, None

LEMMA RescheduledComesBack ==
  ASSUME NEW row \in Row, NEW n \in Nat, now \in Nat
  PROVE  ComesBack(Rescheduled(row, n), now)
<1>. DEFINE next == now + RetryDelay(n)
<1>1. next \in Nat /\ next <= now + MaxDelay
  BY RetryDelayType, ConstantsAssumption
<1>. HIDE DEF next
<1>2. ComesBack([row EXCEPT !.status = "PENDING", !.nextAttemptAt = next], now)
  BY <1>1 DEF ComesBack, Row
<1>. QED  BY <1>2 DEF Rescheduled, next

(* The next delay is computed from the attempt number of the claim, but    *)
(* any attempt number would do: the bound on the delay is all it takes.    *)
LEMMA ComesBackInductive ==
  ASSUME TypeOK, [Next]_vars, \A d \in Deliveries : ComesBack(delivery[d], now)
  PROVE  \A d \in Deliveries : ComesBack(delivery'[d], now')
<1>t. /\ now \in Nat /\ now' \in Nat /\ now <= now'
      /\ \A d \in Deliveries : delivery[d] \in Row
  <2>1. now' \in {now, now + 1}
    BY DEF Next, Work, vars, ReadSubscribers, ReadForReplay, CreateDeliveries,
       ReadEndpoint, CommitEndpoint, SelectBatch, ReadDelivery, TakeNext, Claim,
       LoseClaim, Post, SettleSuccess, SuccessWriteFails, SuccessAnswerLost,
       Reschedule, GiveUp, Crash, Tick
  <2>. QED  BY <2>1 DEF TypeOK
<1>k. \A d \in Deliveries : delivery'[d] = delivery[d] => ComesBack(delivery'[d], now')
  BY <1>t, ComesBackLater
<1>1. CASE UNCHANGED delivery
  BY <1>k, <1>1
<1>2. ASSUME NEW p \in Publishers, CreateDeliveries(p), NEW d \in Deliveries
      PROVE  ComesBack(delivery'[d], now')
  <2>1. delivery'[d] = NewRow \/ delivery'[d] = delivery[d]
    BY <1>2 DEF CreateDeliveries
  <2>2. ComesBack(NewRow, now) /\ now' = now
    BY <1>t, <1>2, ConstantsAssumption DEF ComesBack, NewRow, CreateDeliveries
  <2>. QED  BY <1>k, <2>1, <2>2
<1>3. ASSUME NEW a \in Admins, CommitEndpoint(a), NEW d \in Deliveries
      PROVE  ComesBack(delivery'[d], now')
  <2>1. delivery'[d] = Abandoned(delivery[d]) \/ delivery'[d] = delivery[d]
    BY <1>3 DEF CommitEndpoint
  <2>2. ComesBack(Abandoned(delivery[d]), now')
    BY <1>t, SettledRowType DEF ComesBack
  <2>. QED  BY <1>k, <2>1, <2>2
<1>4. ASSUME NEW w \in Workers, Claim(w), NEW d \in Deliveries
      PROVE  ComesBack(delivery'[d], now')
  <2>. DEFINE row == [status |-> "PROCESSING",
                      attemptCount |-> job[w].attemptCount + 1,
                      nextAttemptAt |-> None, lastAttemptAt |-> now]
  <2>1. delivery'[d] = row \/ delivery'[d] = delivery[d]
    BY <1>4 DEF Claim, TypeOK
  <2>2. ComesBack(row, now) /\ now' = now
    BY <1>t, <1>4 DEF ComesBack, Claim
  <2>. QED  BY <1>k, <2>1, <2>2
<1>5. ASSUME NEW w \in Workers,
             \/ SettleSuccess(w) \/ SuccessAnswerLost(w)
             \/ Reschedule(w) \/ GiveUp(w),
             NEW d \in Deliveries
      PROVE  ComesBack(delivery'[d], now')
  <2>. DEFINE n == job[w].attemptCount
  <2>1. n \in Nat /\ now' = now
    BY <1>5 DEF SettleSuccess, SuccessAnswerLost, Reschedule, GiveUp, TypeOK, Job
  <2>2. \/ delivery'[d] = [delivery[d] EXCEPT !.status = "SUCCEEDED"]
        \/ delivery'[d] = Rescheduled(delivery[d], n)
        \/ delivery'[d] = Abandoned(delivery[d])
        \/ delivery'[d] = delivery[d]
    BY <1>5 DEF SettleSuccess, SuccessAnswerLost, Reschedule, GiveUp, TypeOK
  <2>3. /\ ComesBack([delivery[d] EXCEPT !.status = "SUCCEEDED"], now)
        /\ ComesBack(Abandoned(delivery[d]), now)
    BY <1>t, SettledRowType DEF ComesBack
  <2>4. ComesBack(Rescheduled(delivery[d], n), now)
    BY <1>t, <2>1, RescheduledComesBack
  <2>. QED  BY <1>k, <2>1, <2>2, <2>3, <2>4
<1>6. \/ UNCHANGED delivery
      \/ \E p \in Publishers : CreateDeliveries(p)
      \/ \E a \in Admins : CommitEndpoint(a)
      \/ \E w \in Workers : Claim(w)
      \/ \E w \in Workers : \/ SettleSuccess(w) \/ SuccessAnswerLost(w)
                           \/ Reschedule(w) \/ GiveUp(w)
  BY Zenon DEF Next, Work, vars, ReadSubscribers, ReadForReplay, ReadEndpoint,
     SelectBatch, ReadDelivery, TakeNext, LoseClaim, Post, Outcome,
     SuccessWriteFails, Crash, Tick
<1>. QED  BY <1>1, <1>2, <1>3, <1>4, <1>5, <1>6

(* The safety half of EventuallySettled: no call, crash, late answer or    *)
(* status change leaves an open row that the selection of                  *)
(* processPendingDeliveries (webhooks.service.ts:738-760) would never      *)
(* match again.                                                            *)
THEOREM OpenDeliveriesComeBack == Spec => []NothingIsForgotten
<1>. DEFINE Inv == \A d \in Deliveries : ComesBack(delivery[d], now)
<1>1. Init => Inv
  BY DEF Init, ComesBack, AbsentRow
<1>2. TypeOK /\ Inv /\ [Next]_vars => Inv'
  BY ComesBackInductive
<1>3. TypeOK /\ Inv => NothingIsForgotten
  <2>. SUFFICES ASSUME TypeOK, Inv, NEW d \in Deliveries
       PROVE  /\ delivery[d].status = "PENDING" =>
                   SelectedAt(delivery[d], now + MaxDelay)
              /\ delivery[d].status = "PROCESSING" =>
                   SelectedAt(delivery[d], now + StaleAfter)
    BY DEF NothingIsForgotten
  <2>1. ComesBack(delivery[d], now) /\ now \in Nat
    BY DEF TypeOK
  <2>. QED  BY <2>1, ConstantsAssumption DEF ComesBack, SelectedAt, Stale
<1>. HIDE DEF Inv
<1>. QED  BY <1>1, <1>2, <1>3, TypeCorrect, PTL DEF Spec
=============================================================================
