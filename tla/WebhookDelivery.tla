--------------------------- MODULE WebhookDelivery ---------------------------
(***************************************************************************)
(* Delivery of partner webhooks: the WebhookDelivery and WebhookEndpoint   *)
(* tables and the requests and scheduler ticks that work on them           *)
(* concurrently (backend/src/webhooks/webhooks.service.ts).                *)
(*                                                                         *)
(* A worker is one call of processPendingDeliveries in any process of the  *)
(* deployment: the scheduler's tick, the admin route, a replay, the call   *)
(* that follows an attestation.  Every database statement or transaction   *)
(* is one step; everything a worker remembers between two statements is in *)
(* queue and job, and may be stale when it is used.                        *)
(*                                                                         *)
(* Time is counted in units of the first retry delay.                      *)
(***************************************************************************)
EXTENDS Integers, FiniteSets, SequencesExt

CONSTANTS
  Endpoints,      \* webhook endpoints of the partner, created ACTIVE
  Workers,        \* concurrent calls of processPendingDeliveries
  Publishers,     \* concurrent calls of enqueue / replay
  Admins,         \* concurrent calls of updateWebhookEndpoint
  MaxAttempts,    \* maxWebhookDeliveryAttempts
  InitialDelay,   \* webhookInitialRetryDelayMs
  MaxDelay,       \* webhookMaxRetryDelayMs
  StaleAfter,     \* WEBHOOK_DELIVERY_PROCESSING_STALE_MS
  SettleWithin,   \* longest time from a claim to the write of its outcome
  BatchLimits,    \* values of the "limit" parameter
  IgnoreSchedule, \* values of the "ignoreSchedule" parameter
  MaxEvents,      \* bound: calls of enqueue and replay
  MaxEdits,       \* bound: status updates of endpoints
  MaxFaults,      \* bound: crashes and failed writes
  MaxClock        \* bound: time

ASSUME ConstantsAssumption ==
  /\ IsFiniteSet(Endpoints)
  /\ MaxAttempts \in Nat \ {0}
  /\ InitialDelay \in Nat
  /\ MaxDelay \in Nat
  /\ StaleAfter \in Nat \ {0}
  /\ SettleWithin \in Nat
  /\ BatchLimits \subseteq Nat \ {0}
  /\ IgnoreSchedule \subseteq BOOLEAN
  /\ MaxEvents \in Nat
  /\ MaxEdits \in Nat
  /\ MaxFaults \in Nat
  /\ MaxClock \in Nat

VARIABLES
  endpointStatus, \* WebhookEndpoint.status
  delivery,       \* the WebhookDelivery table
  lastEvent,      \* number of createMany / create calls so far
  now,            \* the clock
  pc,             \* where each worker is
  queue,          \* the ids a worker selected and has not read yet
  job,            \* what a worker remembers of the delivery it works on
  publish,        \* endpoints a publisher has read and will create rows for
  edit,           \* what an admin call has read of its endpoint
  attempts,       \* history: claims won on each delivery
  accepted,       \* history: requests of each delivery the receiver took
  everDisabled,   \* history: endpoints that have been DISABLED
  edits, faults   \* bounded counters of edits and faults

workerVars == <<pc, queue, job>>
vars == <<endpointStatus, delivery, lastEvent, now, pc, queue, job, publish,
          edit, attempts, accepted, everDisabled, edits, faults>>

None == -1

WebhookStatus == {"ACTIVE", "PAUSED", "DISABLED"}
DeliveryStatus == {"PENDING", "PROCESSING", "SUCCEEDED", "ABANDONED"}

(* A row is named by the call that created it and its endpoint: one call   *)
(* creates at most one row per endpoint, and rows of later calls have a    *)
(* later createdAt.                                                        *)
Deliveries == (1 .. MaxEvents) \X Endpoints
EndpointOf(d) == d[2]

Row == [status: DeliveryStatus \cup {"ABSENT"}, attemptCount: Nat,
        nextAttemptAt: Nat \cup {None}, lastAttemptAt: Nat \cup {None}]
AbsentRow == [status |-> "ABSENT", attemptCount |-> 0,
              nextAttemptAt |-> None, lastAttemptAt |-> None]

NoDelivery == <<>>
Job == [delivery: Deliveries \cup {NoDelivery}, attemptCount: Nat,
        staleThreshold: Int, claimedAt: Nat]
NoJob == [delivery |-> NoDelivery, attemptCount |-> 0,
          staleThreshold |-> 0, claimedAt |-> 0]
Edit == [endpoint: Endpoints, seen: WebhookStatus, status: WebhookStatus]

TypeOK ==
  /\ endpointStatus \in [Endpoints -> WebhookStatus]
  /\ delivery \in [Deliveries -> Row]
  /\ lastEvent \in 0 .. MaxEvents
  /\ now \in Nat
  /\ pc \in [Workers ->
       {"ready", "claim", "abandon", "posting", "acked", "failed", "unsure"}]
  /\ queue \in [Workers -> Seq(Deliveries)]
  /\ job \in [Workers -> Job]
  /\ \A w \in Workers : pc[w] # "ready" => job[w].delivery \in Deliveries
  /\ publish \in [Publishers -> SUBSET Endpoints]
  /\ edit \in [Admins -> SUBSET Edit]
  /\ attempts \in [Deliveries -> Nat]
  /\ accepted \in [Deliveries -> Nat]
  /\ everDisabled \subseteq Endpoints
  /\ edits \in Nat
  /\ faults \in Nat

Init ==
  /\ endpointStatus = [e \in Endpoints |-> "ACTIVE"]
  /\ delivery = [d \in Deliveries |-> AbsentRow]
  /\ lastEvent = 0
  /\ now = 0
  /\ pc = [w \in Workers |-> "ready"]
  /\ queue = [w \in Workers |-> <<>>]
  /\ job = [w \in Workers |-> NoJob]
  /\ publish = [p \in Publishers |-> {}]
  /\ edit = [a \in Admins |-> {}]
  /\ attempts = [d \in Deliveries |-> 0]
  /\ accepted = [d \in Deliveries |-> 0]
  /\ everDisabled = {}
  /\ edits = 0
  /\ faults = 0

-----------------------------------------------------------------------------
(* Creating rows: enqueuePartnerWebhookEvent and replayWebhookDelivery.    *)

(* The ACTIVE endpoints subscribed to the event type are read first.       *)
ReadSubscribers(p) ==
  /\ publish[p] = {}
  /\ lastEvent < MaxEvents
  /\ \E subscribed \in SUBSET Endpoints :
       LET active == {e \in subscribed : endpointStatus[e] = "ACTIVE"} IN
       /\ active # {}
       /\ publish' = [publish EXCEPT ![p] = active]
  /\ UNCHANGED <<endpointStatus, delivery, lastEvent, now, workerVars, edit,
                 attempts, accepted, everDisabled, edits, faults>>

(* A replay copies an existing row unless its endpoint is DISABLED.        *)
ReadForReplay(p) ==
  /\ publish[p] = {}
  /\ lastEvent < MaxEvents
  /\ \E d \in Deliveries :
       /\ delivery[d].status # "ABSENT"
       /\ endpointStatus[EndpointOf(d)] # "DISABLED"
       /\ publish' = [publish EXCEPT ![p] = {EndpointOf(d)}]
  /\ UNCHANGED <<endpointStatus, delivery, lastEvent, now, workerVars, edit,
                 attempts, accepted, everDisabled, edits, faults>>

NewRow == [status |-> "PENDING", attemptCount |-> 0,
           nextAttemptAt |-> now, lastAttemptAt |-> None]

CreateDeliveries(p) ==
  /\ publish[p] # {}
  /\ lastEvent < MaxEvents
  /\ delivery' = [d \in Deliveries |->
       IF d[1] = lastEvent + 1 /\ EndpointOf(d) \in publish[p]
       THEN NewRow ELSE delivery[d]]
  /\ lastEvent' = lastEvent + 1
  /\ publish' = [publish EXCEPT ![p] = {}]
  /\ UNCHANGED <<endpointStatus, now, workerVars, edit, attempts, accepted,
                 everDisabled, edits, faults>>

-----------------------------------------------------------------------------
(* updateWebhookEndpoint and disableWebhookEndpoint.                       *)

ReadEndpoint(a) ==
  /\ edit[a] = {}
  /\ edits < MaxEdits
  /\ \E e \in Endpoints, s \in WebhookStatus :
       edit' = [edit EXCEPT ![a] =
         {[endpoint |-> e, seen |-> endpointStatus[e], status |-> s]}]
  /\ edits' = edits + 1
  /\ UNCHANGED <<endpointStatus, delivery, lastEvent, now, workerVars,
                 publish, attempts, accepted, everDisabled, faults>>

(* Mutant: the unused FAILED status of the enum.                           *)
MutFailed(row) == [row EXCEPT !.status = "FAILED", !.nextAttemptAt = None]

Abandoned(row) ==
  [row EXCEPT !.status = "ABANDONED", !.nextAttemptAt = None]

(* The decision to abandon uses the status read before the transaction.    *)
CommitEndpoint(a) ==
  /\ \E x \in edit[a] :
       /\ endpointStatus' = [endpointStatus EXCEPT ![x.endpoint] = x.status]
       /\ delivery' = [d \in Deliveries |->
            IF /\ x.seen # "DISABLED"
               /\ x.status = "DISABLED"
               /\ EndpointOf(d) = x.endpoint
               /\ delivery[d].status = "PENDING"
            THEN Abandoned(delivery[d]) ELSE delivery[d]]
       /\ everDisabled' = IF x.status = "DISABLED"
            THEN everDisabled \cup {x.endpoint} ELSE everDisabled
  /\ edit' = [edit EXCEPT ![a] = {}]
  /\ UNCHANGED <<lastEvent, now, workerVars, publish, attempts, accepted,
                 edits, faults>>

-----------------------------------------------------------------------------
(* processPendingDeliveries: the selection.                                *)

(* Mutant: rows left PROCESSING by a crash are never taken over.           *)
MutNeverStale(row, threshold) == FALSE

Stale(row, threshold) ==
  /\ row.status = "PROCESSING"
  /\ row.lastAttemptAt = None \/ row.lastAttemptAt <= threshold

Due(row) == row.nextAttemptAt = None \/ row.nextAttemptAt <= now

Selectable(d, ignoreSchedule) ==
  /\ endpointStatus[EndpointOf(d)] = "ACTIVE"
  /\ \/ delivery[d].status = "PENDING" /\ (ignoreSchedule \/ Due(delivery[d]))
     \/ Stale(delivery[d], now - StaleAfter)

(* orderBy nextAttemptAt asc (nulls last), createdAt asc.                  *)
SortsBefore(c, d) ==
  LET cNext == delivery[c].nextAttemptAt
      dNext == delivery[d].nextAttemptAt
  IN \/ cNext # None /\ (dNext = None \/ cNext < dNext)
     \/ cNext = dNext /\ c[1] < d[1]

SelectBatch(w, ignoreSchedule, limit) ==
  /\ pc[w] = "ready"
  /\ queue[w] = <<>>
  /\ \E order \in SetToSeqs({d \in Deliveries : Selectable(d, ignoreSchedule)}) :
       /\ \A i, j \in DOMAIN order : i < j => ~SortsBefore(order[j], order[i])
       /\ queue' = [queue EXCEPT ![w] =
            SubSeq(order, 1, IF limit < Len(order) THEN limit ELSE Len(order))]
  /\ UNCHANGED <<endpointStatus, delivery, lastEvent, now, pc, job, publish,
                 edit, attempts, accepted, everDisabled, edits, faults>>

-----------------------------------------------------------------------------
(* processWebhookDeliveryById.                                             *)

(* Mutants: a row in progress, or any row, may be claimed.                 *)
MutInProgress(row, threshold) == row.status \in {"PENDING", "PROCESSING"}
MutByIdOnly(row, threshold) == row.status # "ABSENT"

Claimable(row, threshold) == row.status = "PENDING" \/ Stale(row, threshold)

(* The read of the next delivery of the batch and of its endpoint; goTo is *)
(* what the worker does next.                                              *)
TakeNext(w, goTo) ==
  LET d == Head(queue[w]) IN
  /\ pc' = [pc EXCEPT ![w] = goTo]
  /\ queue' = [queue EXCEPT ![w] = Tail(@)]
  /\ job' = [job EXCEPT ![w] =
       IF goTo = "ready" THEN NoJob
       ELSE [delivery |-> d, attemptCount |-> delivery[d].attemptCount,
             staleThreshold |-> now - StaleAfter, claimedAt |-> 0]]
  /\ UNCHANGED <<endpointStatus, delivery, lastEvent, now, publish, edit,
                 attempts, accepted, everDisabled, edits, faults>>

ReadDelivery(w) ==
  /\ pc[w] = "ready"
  /\ queue[w] # <<>>
  /\ LET d == Head(queue[w])
         claimable == Claimable(delivery[d], now - StaleAfter)
         status == endpointStatus[EndpointOf(d)]
     IN \/ claimable /\ status = "ACTIVE" /\ TakeNext(w, "claim")
        \/ claimable /\ status = "DISABLED" /\ TakeNext(w, "abandon")
        \/ (~claimable \/ status = "PAUSED") /\ TakeNext(w, "ready")

Ready(w) ==
  /\ pc' = [pc EXCEPT ![w] = "ready"]
  /\ job' = [job EXCEPT ![w] = NoJob]
  /\ queue' = queue

(* The conditional update that claims the row: it checks the row's status  *)
(* again but writes the attempt number computed from the earlier read.     *)
Claim(w) ==
  LET d == job[w].delivery IN
  /\ pc[w] = "claim"
  /\ Claimable(delivery[d], job[w].staleThreshold)
  /\ delivery' = [delivery EXCEPT ![d] =
       [status |-> "PROCESSING", attemptCount |-> job[w].attemptCount + 1,
        nextAttemptAt |-> None, lastAttemptAt |-> now]]
  /\ attempts' = [attempts EXCEPT ![d] = @ + 1]
  /\ pc' = [pc EXCEPT ![w] = "posting"]
  /\ job' = [job EXCEPT ![w].attemptCount = @ + 1, ![w].claimedAt = now]
  /\ UNCHANGED <<endpointStatus, lastEvent, now, queue, publish, edit,
                 accepted, everDisabled, edits, faults>>

LoseClaim(w) ==
  /\ pc[w] = "claim"
  /\ ~Claimable(delivery[job[w].delivery], job[w].staleThreshold)
  /\ Ready(w)
  /\ UNCHANGED <<endpointStatus, delivery, lastEvent, now, publish, edit,
                 attempts, accepted, everDisabled, edits, faults>>

(* The receiver takes the request and answers 2xx; takes it but the answer *)
(* is lost, late or not 2xx; or never takes it.                            *)
Outcome(taken, ok) == ok => taken

Post(w, taken, ok) ==
  /\ pc[w] = "posting"
  /\ Outcome(taken, ok)
  /\ accepted' = [accepted EXCEPT ![job[w].delivery] = IF taken THEN @ + 1 ELSE @]
  /\ pc' = [pc EXCEPT ![w] = IF ok THEN "acked" ELSE "failed"]
  /\ UNCHANGED <<endpointStatus, delivery, lastEvent, now, queue, job, publish,
                 edit, attempts, everDisabled, edits, faults>>

(* The outcome is written by id, whatever the row has become meanwhile.    *)
SettleSuccess(w) ==
  /\ pc[w] = "acked"
  /\ delivery' = [delivery EXCEPT ![job[w].delivery].status = "SUCCEEDED"]
  /\ Ready(w)
  /\ UNCHANGED <<endpointStatus, lastEvent, now, publish, edit, attempts,
                 accepted, everDisabled, edits, faults>>

(* A failing success transaction lands in the catch block of the POST: it  *)
(* was rolled back ...                                                     *)
SuccessWriteFails(w) ==
  /\ pc[w] = "acked"
  /\ faults < MaxFaults
  /\ faults' = faults + 1
  /\ pc' = [pc EXCEPT ![w] = "failed"]
  /\ UNCHANGED <<endpointStatus, delivery, lastEvent, now, queue, job, publish,
                 edit, attempts, accepted, everDisabled, edits>>

(* ... or it was committed, and only its answer was lost.                  *)
SuccessAnswerLost(w) ==
  /\ pc[w] = "acked"
  /\ faults < MaxFaults
  /\ faults' = faults + 1
  /\ delivery' = [delivery EXCEPT ![job[w].delivery].status = "SUCCEEDED"]
  /\ pc' = [pc EXCEPT ![w] = "unsure"]
  /\ UNCHANGED <<endpointStatus, lastEvent, now, queue, job, publish, edit,
                 attempts, accepted, everDisabled, edits>>

(* The catch block knows of no difference: it handles a failed attempt.    *)
Failed(w) == pc[w] \in {"failed", "unsure"}

RetryDelay(attemptCount) ==
  LET exponential == InitialDelay * 2 ^ (attemptCount - 1)
  IN IF exponential \in 0 .. MaxDelay THEN exponential ELSE MaxDelay

(* Mutant: off by one.                                                     *)
MutAbandonEarly(attemptCount) == attemptCount + 1 >= MaxAttempts

ShouldAbandon(attemptCount) == attemptCount >= MaxAttempts

(* Mutant: the failed attempt is counted a second time.                    *)
MutCountTwice(row, attemptCount) ==
  [row EXCEPT !.status = "PENDING", !.attemptCount = attemptCount + 1,
              !.nextAttemptAt = now + RetryDelay(attemptCount)]

Rescheduled(row, attemptCount) ==
  [row EXCEPT !.status = "PENDING",
              !.nextAttemptAt = now + RetryDelay(attemptCount)]

Reschedule(w) ==
  /\ Failed(w)
  /\ ~ShouldAbandon(job[w].attemptCount)
  /\ delivery' = [delivery EXCEPT
       ![job[w].delivery] = Rescheduled(@, job[w].attemptCount)]
  /\ Ready(w)
  /\ UNCHANGED <<endpointStatus, lastEvent, now, publish, edit, attempts,
                 accepted, everDisabled, edits, faults>>

GiveUp(w) ==
  /\ \/ pc[w] = "abandon"
     \/ Failed(w) /\ ShouldAbandon(job[w].attemptCount)
  /\ delivery' = [delivery EXCEPT ![job[w].delivery] = Abandoned(@)]
  /\ Ready(w)
  /\ UNCHANGED <<endpointStatus, lastEvent, now, publish, edit, attempts,
                 accepted, everDisabled, edits, faults>>

(* A process dies, or an uncaught database error ends the call: the batch  *)
(* is lost, the rows stay as they are.                                     *)
Crash(w) ==
  /\ pc[w] # "ready" \/ queue[w] # <<>>
  /\ faults < MaxFaults
  /\ faults' = faults + 1
  /\ pc' = [pc EXCEPT ![w] = "ready"]
  /\ queue' = [queue EXCEPT ![w] = <<>>]
  /\ job' = [job EXCEPT ![w] = NoJob]
  /\ UNCHANGED <<endpointStatus, delivery, lastEvent, now, publish, edit,
                 attempts, accepted, everDisabled, edits>>

-----------------------------------------------------------------------------
Holding(w) == pc[w] \in {"posting", "acked", "failed", "unsure"}

(* Time passes when a row waits for it, and not while the outcome of a     *)
(* claim has been pending for SettleWithin.                                *)
Tick ==
  /\ now < MaxClock
  /\ \E d \in Deliveries :
       \/ /\ delivery[d].status = "PENDING"
          /\ delivery[d].nextAttemptAt > now
       \/ /\ delivery[d].status = "PROCESSING"
          /\ delivery[d].lastAttemptAt > now - StaleAfter
  /\ \A w \in Workers : Holding(w) => now < job[w].claimedAt + SettleWithin
  /\ now' = now + 1
  /\ UNCHANGED <<endpointStatus, delivery, lastEvent, workerVars, publish,
                 edit, attempts, accepted, everDisabled, edits, faults>>

Work(w) ==
  \/ \E ignoreSchedule \in IgnoreSchedule, limit \in BatchLimits :
       SelectBatch(w, ignoreSchedule, limit)
  \/ ReadDelivery(w)
  \/ Claim(w)
  \/ LoseClaim(w)
  \/ \E taken, ok \in BOOLEAN : Post(w, taken, ok)
  \/ SettleSuccess(w)
  \/ Reschedule(w)
  \/ GiveUp(w)

Next ==
  \/ \E p \in Publishers :
       ReadSubscribers(p) \/ ReadForReplay(p) \/ CreateDeliveries(p)
  \/ \E a \in Admins : ReadEndpoint(a) \/ CommitEndpoint(a)
  \/ \E w \in Workers :
       Work(w) \/ SuccessWriteFails(w) \/ SuccessAnswerLost(w) \/ Crash(w)
  \/ Tick

Spec == Init /\ [][Next]_vars

(* The scheduler calls processPendingDeliveries again and again, a POST    *)
(* ends by its own timeout, and time passes.                               *)
FairSpec == Spec /\ WF_vars(Tick) /\ \A w \in Workers : WF_vars(Work(w))

-----------------------------------------------------------------------------
(* Two calls never have a request of the same delivery in flight, provided *)
(* every outcome is written within SettleWithin < StaleAfter: the claim is *)
(* a compare-and-set on the row, and a claim can be taken over only once   *)
(* it is stale (updateMany in processWebhookDeliveryById).                 *)
ExclusivePosting ==
  \A v, w \in Workers :
    /\ v # w
    /\ Holding(v)
    /\ Holding(w)
    => job[v].delivery # job[w].delivery

(* The attempt number a row shows is written from an earlier read, so it   *)
(* may lag behind the claims made, but it never runs ahead of them.        *)
AttemptCountNeverOverstates ==
  \A d \in Deliveries : delivery[d].attemptCount <= attempts[d]

(* A delivery to an endpoint that was never disabled is given up only      *)
(* after MaxAttempts claims, however many calls and crashes worked on it   *)
(* (handleFailedDeliveryAttempt).                                          *)
NeverGivesUpEarly ==
  \A d \in Deliveries :
    /\ delivery[d].status = "ABANDONED"
    /\ EndpointOf(d) \notin everDisabled
    => attempts[d] >= MaxAttempts

(* A delivery reported SUCCEEDED was taken by the receiver at least once.  *)
SucceededWasAccepted ==
  \A d \in Deliveries :
    delivery[d].status = "SUCCEEDED" => accepted[d] > 0

(* What the table says of a delivery to someone who does not see claims.   *)
Standing(d) ==
  CASE delivery[d].status = "ABSENT" -> "none"
    [] delivery[d].status \in {"PENDING", "PROCESSING"} -> "open"
    [] delivery[d].status = "SUCCEEDED" -> "delivered"
    [] OTHER -> "givenUp"

(* A call that committed the success of d without learning of it.          *)
Doubts(w, d) == pc[w] = "unsure" /\ job[w].delivery = d

Promise == INSTANCE AtLeastOnce WITH
  standing <- [d \in Deliveries |-> Standing(d)],
  attempted <- attempts,
  received <- accepted,
  doubted <- {d \in Deliveries : \E w \in Workers : Doubts(w, d)},
  excused <- {d \in Deliveries : EndpointOf(d) \in everDisabled}

(* The calls, with their stale reads, late answers and crashes, keep the   *)
(* promise of AtLeastOnce, provided outcomes are written in time: what is  *)
(* delivered was taken, what is given up had its attempts, and nothing is  *)
(* attempted, taken or rewritten afterwards, unless the call that settled  *)
(* it takes that back because it never learnt that its commit had taken    *)
(* effect (processWebhookDeliveryById).                                    *)
KeepsPromise == Promise!Spec

Settled(d) == delivery[d].status \in {"SUCCEEDED", "ABANDONED"}

(* Provided outcomes are written in time, a settled delivery of an         *)
(* endpoint that was never disabled stays as it is: no late answer of      *)
(* another call overwrites it and no call posts it again.  Only the call   *)
(* that settled it can take that back, from the catch block it is in       *)
(* because the answer to its commit was lost, and only once: the step that *)
(* overwrites the row is the call's last.                                  *)
SettledIsFinal ==
  [][\A d \in Deliveries :
       Settled(d) /\ EndpointOf(d) \notin everDisabled =>
         /\ attempts'[d] = attempts[d]
         /\ \/ delivery'[d] = delivery[d]
            \/ \E w \in Workers : Doubts(w, d) /\ pc'[w] = "ready"]_vars

(* README: "up to five attempts".                                          *)
AttemptsAreCapped == \A d \in Deliveries : attempts[d] <= MaxAttempts

(* Every delivery whose endpoint is ACTIVE from some point on is settled   *)
(* in the end, whatever crashes and status changes came before.            *)
EventuallySettled ==
  \A d \in Deliveries :
    <>[](delivery[d].status # "ABSENT" /\ endpointStatus[EndpointOf(d)] = "ACTIVE")
      => <>[]Settled(d)

=============================================================================
