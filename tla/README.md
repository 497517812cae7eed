# Verification of Vervet Network

Vervet Network lets institutions publish where their customers may be paid and
lets other institutions check a payment destination before they use it.
Partners send signed **attestations** ("this recipient receives this asset on
this network at this address"); other partners **resolve** a recipient,
**verify** an address against a recipient or **confirm** that an address is
attested; every attestation is announced by **webhooks**; and a partner gets
**production access** by an approval that administrators review.

The program is a NestJS service over PostgreSQL (`backend/`), with a Next.js
dashboard (`dashboard/`) and a static site (`site/`) as clients. All lasting
state is in the database. The service takes no explicit locks: handlers are
chains of awaited statements, most of them single statements in autocommit,
some in a transaction at PostgreSQL's default isolation, and any number of
processes may run them. What is hard about this code is therefore what happens
*between* two statements of one handler, and that is what the modules model:
one action per statement or transaction, with everything a handler remembers
from earlier statements kept in a variable where it can be stale. The dashboard keeps its state in the
browser's cookies, and renders pages from what it asks the service; there the
question is whether what it offers is what the service admits.

Contents: [inventory](#inventory), [plan](#plan), [how the modules are
written](#how-the-modules-are-written), [the modules](#the-modules),
[runs](#runs), [proofs](#proofs), [findings](#findings), [what is not
modelled](#what-is-not-modelled). Run with
`tlc -workers 2 -config <Run>.cfg MC<Module>` and `tlapm <Module>Proofs.tla`.
Source paths below are relative to `backend/src` unless they start with a dot.

## Inventory

| Part (source) | State it keeps | Operations | Hard behaviour | What makes it correct |
|---|---|---|---|---|
| Webhook delivery (`webhooks/webhooks.service.ts`, `delivery-retry.util.ts`, `operations/webhook-delivery-processor.service.ts`) | `WebhookEndpoint`, `WebhookDelivery` | enqueue, replay, process a batch, claim, POST, settle, retry, abandon; update and disable an endpoint | several calls work on one row; outcomes are written by id after an await of up to 5 s; processes die between claim and outcome | one request of a delivery in flight; settled is final; the row tells the truth; every delivery of an active endpoint is settled |
| Attestation ingestion (`attestations/attestations.service.ts`) | `Attestation`; writes recipients, identifiers, destinations, deliveries | `createAttestation` | two requests for one recipient, one identifier or one sequence number; rollback; waiting for row locks | one destination in force per recipient and corridor; one attestation per sequence number, announced exactly once; whole operations |
| Recipient and destination registry (`recipients/`, `destinations/`) | `Recipient`, `RecipientIdentifier`, `RecipientDestination` | create, update, disable, revoke, replace from the dashboard | decided on an earlier read, written by id, beside ingestion | as above |
| Replay protection (`security/request-hardening.service.ts`) | `PartnerRequestNonce` | check, insert, clean up | clock read before the insert; clean-up in between | a signed request passes once |
| Resolution (`resolution/resolution.service.ts`, limiter in `security/`) | `ResolutionRequest`, `RiskSignal` | resolve, verify, confirm; idempotent retry; limit; retention | retries that overlap; counting before recording; retention deletes what retries need | one answer per idempotency key; no answer that is not on record; the limit |
| Batch verification (`resolution.service.ts`) | `ResolutionBatchRun`, `ResolutionBatchRow` | `batchVerify` | many statements around a per-row catch clause, no transaction | rows, requests and counters agree |
| Production approval (`partners/partners.service.ts`) | `Partner` stage and capabilities, `ProductionApprovalRequest`, `PartnerProductionCorridor` | file, cancel, review, administrators' updates, grant and revoke corridors | check and write in separate statements, by several users and administrators | decisions stand; access rests on an approved request; stage and capabilities stay consistent |
| Partner access (`partners/partners.service.ts`, `auth/`) | `PartnerUser`, `PartnerUserInvite`, `DashboardSession`, `PartnerApiCredential`, `PartnerSigningKey` | create, invite, accept, log in and out, change role, deactivate; issue and revoke credentials and keys | last-owner and last-key checks before the write; login beside deactivation; two acceptances | an owner and a key remain; no session outlives its user |
| Security settings (`partners/partners.service.ts`) | `PartnerSecuritySettings` | read (which creates), update | two first reads; updates of different fields | one row; nothing acknowledged is lost |
| Signing secrets (`webhooks/`) | `signingSecretVersion` | rotate | two rotations | every returned secret is a version of its own |
| Audit log and exports (`audit/audit.service.ts`) | `AuditLog`, `AuditExportJob` | record, export, download, expire | download beside the clean-up | expired content is gone and stays gone |
| Scheduler (`operations/`) | one flag per process | tick: nonces, retention, exports, deliveries, in one `try` | an early job that fails keeps the later ones from running | each job runs again and again |
| Lookup semantics (`resolution.service.ts`, `recipients/`) | none | what is found, and the verdict on it | the parts are read at different moments | a verdict on any combination |
| API routes (every controller, `auth/` guards) | none | scopes and access policies of each route | the same rules are written down again in the dashboard | callers meet the rules they were told of |
| Sealed data, encrypted submission, configuration, data-feed health, overview, platforms, metadata, pricing | none of their own | pure functions and read-only reports | | |
| Dashboard (`./dashboard/src`) | session, admin and flash cookies | sign in and out, open pages, post forms, the administrator's console | tabs share cookies; sessions end and roles change meanwhile; a secret is shown once | a page it links to opens, a form it offers is admitted, a secret is seen |
| Static site (`./site`) | none | | | |

Interactions. `createAttestation` first spends a nonce (replay protection),
then checks signature, key, corridor and sequence, then runs one transaction
over recipients, identifiers, destinations, attestations, audit log and webhook
deliveries, and at last starts a delivery batch that it does not wait for. The
scheduler's tick starts batches too and calls the three clean-ups. Lookups read
the registry and write only their own log, which is also the store of
idempotent responses and the sample the limiter counts. Approval changes the
partner row that the access guards read. Audit rows are written in the
transaction they report or right after it, and no handler decides by them. The
dashboard is a client of the service like any other: it can do nothing that a
route does not do.

The hazards found in this code, each at its line and with the properties that
cover it, are listed in `PROJECT.json`.

## Plan

The order in which the modules were written, by importance to the users of the
service; all of it is done, with the change noted.

1. `WebhookDelivery`; 2. `DestinationRegistry` (abstract) and
`AttestationIngestion`, which implements it; 3. `ResolutionRequests`;
4. `ProductionApproval`; 5. `RequestNonces`; 6. `PartnerAccess` (which took in
the signing secrets and the security settings); 7. `AtLeastOnce` (abstract),
which `WebhookDelivery` implements; 8. `ApiRoutes`, `DashboardClient`,
`DashboardPages` and `Dashboard`; 9. `LookupVerdicts`, `BatchVerification` and
`AuditExports`, composed with the scheduler's tick in `Operations`.

The queries behind a lookup (matching and ranking of candidates) were planned
as operators over the tables of `DestinationRegistry`. They were left out: the
statements of a lookup see different moments of the registry, so the modules
let a lookup find any combination, which is all that the properties need.

| Composition | How |
|---|---|
| `Operations` = `BatchVerification` + `AuditExports` + tick | `INSTANCE` of both over shared `now` and `faults` |
| `BatchVerification` + `LookupVerdicts` | `EXTENDS` |
| `Dashboard` > `DashboardPages` > `DashboardClient` > `ApiRoutes` | `EXTENDS`, a layer each |
| `AttestationIngestion` implements `DestinationRegistry` | refinement, checked and proved |
| `WebhookDelivery` implements `AtLeastOnce` | refinement, checked and proved |

## How the modules are written

* A handler is a `session`, `pc` or `job` entry; an action is one database
  statement, or one transaction where nothing else can see its inside. A
  function called `Read...` stores what was read; the write that follows uses
  the stored values.
* A row is a record; a table is a set of rows or a function from names to rows
  with an `ABSENT` or `NONE` status. Strings, hashes, labels and response
  bodies are model values or members of small sets.
* Time is a number. Deadlines are compared as in the code, `<` or `<=`.
* Failures are explicit: `Crash`, `Fail`, `InterruptCall` end a handler between
  two statements and leave what it committed; a failing transaction leaves
  nothing.
* History variables (`attempts`, `accepted`, `everDisabled`, `ledger`,
  `replies`, `contested`, `overlapped`, `refused`, `acked`, `raced`, `written`,
  `recorded`, `disturbed`, `overtaken`, `late`) are written and never decide what an action does.
* Several properties are of the form "unless two calls of this kind
  overlapped". The code checks before it writes, so the plain rule is false;
  the history variable states exactly which overlap breaks it, and what is
  checked is that nothing else does.
* Operators that begin with `Mut` are deliberate mistakes. They stand before
  the definition they would replace, are used by nothing, and exist so that
  each checked property can be seen to fail when the code is wrong in a
  plausible way; `PROJECT.json` says which mistake breaks which property.
* Every bound is a constant whose name begins with `Max`. Proofs put no limit
  on any of them.

## The modules

### WebhookDelivery

State: `endpointStatus` and `delivery` are the two tables; `pc`, `queue`, `job`
are the calls of `processPendingDeliveries` (the scheduler of any process, the
operator's route, a replay, the call after an attestation); `publish` and
`edit` are calls of enqueue or replay and of the endpoint update between their
read and their write.

| Action | Code |
|---|---|
| `ReadSubscribers`, `ReadForReplay`, `CreateDeliveries` | the reads and the `createMany`/`create` of `enqueuePartnerWebhookEvent` and `replayWebhookDelivery` |
| `ReadEndpoint`, `CommitEndpoint` | `updateWebhookEndpoint` and `disableWebhookEndpoint`: status read first, pending rows abandoned in the transaction if that *read* status changes to DISABLED |
| `SelectBatch` | the `findMany` of due or stale rows, sorted by `nextAttemptAt` with nulls last, limited |
| `ReadDelivery` | the read in `processWebhookDeliveryById` with its early returns |
| `Claim`, `LoseClaim` | the conditional `updateMany`: checks the status again, writes the attempt number of the earlier read |
| `Post` | the request with its 5 s abort; taken and 2xx, taken without 2xx or answer, not taken |
| `SettleSuccess`, `SuccessWriteFails`, `SuccessAnswerLost`, `Reschedule`, `GiveUp` | the outcome written *by id*; a success transaction that was rolled back, or that was committed without an answer, is caught by the catch clause of the POST and handled as a failed attempt |
| `Crash` | the process dies, or an exception ends the batch |
| `Tick` | the clock |

`testWebhookEndpoint` posts but changes no row. What follows a claim is bound to
`SettleWithin` time units; whether that is shorter than `StaleAfter` decides
what can be promised. By default the code has 5 s for the POST against a stale
window of 60 s, but any positive window is accepted by `config/environment.ts`
and nothing limits the time of the database write, so `SettleWithin <
StaleAfter` is an assumption about the deployment. It is stated as such where
it is needed and nowhere else. It *is* needed: without it a late outcome
resets the row while a newer request is in flight, and a third call may claim.

`AtLeastOnce` is the promise without tables, calls or time: an announcement is
open until it is delivered or given up, delivered only if the receiver took it,
given up only after the allowed attempts, and neither is taken back - but for a
delivery whose deliverer is in doubt: `DeliverInDoubt` records it without telling
the one who did, who may take it back (`TakeBack`) or not (`LeaveAlone`). An
endpoint that was ever disabled is excused from all but one of these.
`KeepsPromise` maps the rows and histories of `WebhookDelivery` to it; the
mapping is in `WebhookDelivery`. The doubt is no weakness of the model: the
commit may take effect and its answer be lost, and the catch clause then writes
over the SUCCEEDED row. `SettledIsFinal` and `KeepsPromise` say that this is the
only way, that only the call that settled the row does it, and only once.

### DestinationRegistry and AttestationIngestion

`DestinationRegistry` is the abstract specification: recipients, the bindings
of identifiers, destination rows and recorded attestations of one partner in
one corridor, where each operation (`Attest`, and the dashboard's create,
disable, revoke and replace) is one step. It says what readers of the code
expect: an attestation makes its address the only one in force, a revocation
retires the one it names, one attestation is recorded per sequence number.

`AttestationIngestion` has the statements of `createAttestation`'s transaction
(`UpsertRecipient`, `UpsertIdentifier`, the revocation of the ACTIVE rows,
activation, `CreateAttestation`, the webhook enqueue, commit) for any number of
handlers. PostgreSQL at READ COMMITTED is modelled by what it guarantees: a
statement sees committed rows and its own transaction's writes, and waits while
another open transaction has written the row it needs. `tx[h]` holds a
transaction's uncommitted destination writes; `LocksRecipient` and its
companions say which rows `pc` and `tx` have locked. Dashboard calls
(`desk`) read, then write, in statements of their own, as
`destinations.service.ts` and `recipients.service.ts` do; a replacement may be
cut off after its first half (`InterruptCall`). A new destination that is to be
the default is a transaction of several waits: `ReadForDefault` or
`ReplaceDefault` starts the `updateMany` with the rows whose flag it finds set
(`defaults`), `LockDefault` takes their locks one by one, `InsertDefault` or
`RefuseInsert` ends it.

Waiting is a matter of its own. `WaitsFor` and its three companions say which
transaction waits for which, `Stuck` that a set of them can only wait, and
`AbortRequest` and `AbortCall` are PostgreSQL, which ends a circle by aborting
one of its members. `EveryRequestEnds` does not count on that: it asks who can
be caught. Requests among themselves cannot; a request and a call that makes a
destination the default can (`CaughtByDesk`), which is a finding below.

The refinement maps the tables to the tables and the commit of an ingestion to
`Attest`. `ImplementsRegistry` is the specification of the registry, checked by TLC and
proved.
The unexpected part of the argument: nothing in the schema forbids two ACTIVE
destinations. What forbids them is that every ingestion begins with
`upsertRecipient`, whose row lock makes ingestions of one recipient exclude each
other. The mutant that drops that lock breaks the invariant.

### ResolutionRequests

One requesting partner. State: `rows` (the `ResolutionRequest` table),
`signals`, `session` per handler, `replies`, and what the environment changes:
`registry` (what a subject resolves to), `mode` (retention), time. Actions
follow `resolve`, `verify` and `confirmAddress`, which run the same statements:
`Find` the stored response by key, `Count` recent rows and their distinct
lookups for the limiter, `LookUp`, insert the row, insert its risk signals,
reply; the catch clause (`Throw`, `Recheck`), which looks for the row of a
winner after a failed insert; and `Cleanup` of the tick. `Recheck` differs per
route where the code does. `UniqueIndex` says whether (partner, query type,
idempotency key) is unique: it is not in the schema as migrated, but the catch
clauses are written for a schema where it is.

### ProductionApproval

One partner. `partner` (stage and three capability flags), `requests` in the
order of `requestedAt`, `corridors`; `session` holds what a call has read.
Users file (`requestProductionApproval`: partner, latest request and corridors
are read by separate statements) and cancel; administrators review, update
stage and capabilities (`updatePartnerAdminState` with its rules on the merged
state) and grant or revoke corridors. The write of each is one transaction that
updates by primary key and repeats none of the checks. `contested` records
requests that two calls were deciding at once; `overlapped` records that two
filings, or an update and another call that decides about the partner, were
open at once.

### RequestNonces

`Check` reads the clock once; `Insert` or `InsertConflicts` is the insert
against the unique index on credential and nonce; `Explain` is the read after a
failed insert that chooses the wording of the refusal; `Cleanup` is the tick's.
Nothing bounds the time between a handler's check and its insert.

### PartnerAccess

The tables `users`, `invites`, `sessions`, `credentials`, `keys`, `settings` of
one partner and the version of a webhook secret. `Begin` is the guard: it
authenticates the caller (a user with a live session, an API credential, the
operator or the public) and fixes role, scopes and input for the rest of the
call. Each operation then has its reads (`ReadInvitee`, `ReadForRole`,
`CountOwners`, `ReadLogin`, `CountKeys`, `ReadVersion`, ...) and its write
(`WriteInvite`, `WriteUser`, `WriteAcceptance`, `WriteRole`,
`WriteDeactivation`, `WriteLogin`, `Issue`, `RevokeKey`, `Rotate`,
`WriteSettings`, ...). `Fail` ends any call between two statements. A
deactivation marks the logins that have found the user active and are still
verifying the password as `overtaken`; the session of such a login is `late`,
the one exception of `DisabledAreLoggedOut`. It is never accepted, since the
guard asks for an active user.

### ApiRoutes, DashboardClient, DashboardPages, Dashboard

`ApiRoutes` has one definition per route with the scopes and policies of its
decorators, and `Admits`, which is `PartnerApiKeyAuthGuard` with the ranks of
plans and stages. `DashboardClient` maps every function of
`lib/vervet-api.ts` to its route and translates the predicates pages ask
(`canAccessModule`, `canAccessScope`, `hasReachedOnboardingStage`).
`DashboardPages` gives each of the 34 pages as what a rendering amounts to:
the calls it makes, the forms it offers, whether it shows the flash message;
and each form as the calls its action makes and where it goes back to.

`Dashboard` puts these into a browser whose tabs share three cookies. Posting a
form, the answer and the redirect are separate steps; other tabs, expiry, the
administrators and the end of sessions come between them. A page renders in one
step: it only reads, and what it shows of the cookies it was given with the
request. Any of its calls may fail or take longer than `backendRequestTimeoutMs`:
if it is the profile that `OperationsLayout` asks for, the whole tab shows the
error boundary; if it is a call of the page, the page's own catch clause shows an
error panel inside the frame (`./dashboard/src/app/(ops)/access/api-keys/page.tsx:219`,
`./dashboard/src/app/(ops)/webhooks/[webhookId]/page.tsx:222`); the console of an
administrator fails whole. None of these shows or clears the flash message
(`ShowError`, a tab that is `Failed`): the user may load the page once more
(`Reload`), go elsewhere (`Open`) or leave it until the cookie is gone
(`FlashExpires`). A page cannot delete a cookie (Next.js allows that in actions
and route handlers only), so a session that the backend has ended stays in the
browser: `RenderPage` and `RenderHome` show what follows.
`disturbed` records that something got between a secret and its page while
nobody had seen it: an answer or clear request of another form, a change of
session, role or partner; that the user turned away from an error that stood
where the secret was to be shown, or left it for the five minutes of the cookie
(`Withholds`); or that the form was posted from a page of an earlier session and
the cookie's session lacks the scopes the form asks for (`Covers`): the backend
goes by the role of now, the page the answer leads to by the cookie. Nothing else
may cost the user a secret, a page that fails to render included: as long as
`disturbed` is false a tab is loading the page that shows it, or loading it once
more would (`SecretsAreShown`, `Shows`). A clear request that arrives late counts
as an interference: that it may delete the next secret
(`./dashboard/src/components/dashboard-flash-banner.tsx:13`) is a weakness of the
code that the property exempts.

### LookupVerdicts, BatchVerification, AuditExports, Operations

`LookupVerdicts` is pure: the verdict of `evaluateVerifyLookup` and
`evaluateConfirmLookup` on anything their queries may have found.
`BatchVerification` is `batchVerify`: `Begin` creates the run, `Evaluate` looks
a row up, `RecordRequest` and `RecordSignals` are `recordResolutionRequest`,
`WriteRow` stores the row; `Unreadable`, `StatementFails` and `AnswerLost` lead
to the catch clause (`WriteErrorRow`), `AuditRow` counts and decides whether to
stop, `Finish` completes the run, `Interrupt` loses the call. `CleanRows` and
`CleanRequests` are the two statements of the retention clean-up, which use one
reading of the clock. `AuditExports` creates exports, empties them on a late
download and in the clean-up. `Operations` runs the jobs of `runTick` in their
order, one statement each, over both; `TickFails` ends a tick at any job;
`processing` is the flag that keeps the ticks of a process apart.

## Runs

Every run is exhaustive within its bounds; model sets are given in the `.cfg`.

| Run | Question | Bounds and why they are enough |
|---|---|---|
| `WebhookCalls` | Is a delivery posted by one call at a time, is a settled one final but for the call that was not told of its commit, is the row truthful, is the promise of `AtLeastOnce` kept? | 2 calls, 1 endpoint, 1 event, 2 attempts, 2 status edits, 1 fault, 12 time units: a retry, a takeover of a stale claim and an abandonment all fit; the second call is the adversary and a third adds none, as the proofs confirm |
| `WebhookLiveness` | Is every delivery of an endpoint that ends up ACTIVE settled? | 1 worker (the fair scheduler), 2 events or a replay competing for batches of one, 2 edits, 1 crash |
| `WebhookAttemptCap` | "up to five attempts" (violated) | the code's five attempts, one crash |
| `Attestations` | Do interleaved transactions act like whole operations, and end? | 2 handlers, 1 dashboard call, 2 recipients whose two identifiers change hands, 5 attestations, some with the same sequence number, 3 submissions (one more than are under way at a time, so that one can be resent after its outcome, and enough to catch a request behind a dashboard call), 1 failure |
| `LookupRetries` | Which retries are executed twice, is every answer on record, and by how much can concurrency exceed the limit? | 2 handlers, 3 requests with or without the key, a limit of one request per instant (`Window = 0`: a request counts in the instant it was made, so that limits refill within the bounded time), 1 failing statement, 1 change of registry or settings, clean-ups |
| `LookupConcurrentRetries` | One answer per key (violated) | 2 handlers, 2 requests, 1 change |
| `ApprovalCalls` | What holds whoever interleaves, and what unless two calls of a kind overlap? | 2 users, 2 administrators, 2 requests, 1 update: two filings, two reviews, a review beside a cancellation or an update all fit |
| `ApprovalCancelRace` | "Only pending requests can be ..." (violated) | 1 user, 1 administrator |
| `NoncesOnce` | Does a request pass once, and are refusals true? | 2 handlers, 3 requests of one nonce, 2 payloads, all timestamps up to 4, age 1 and time to live 2, in the proportion of the code's defaults |
| `AccessCalls` | Who remains able to act for a partner, and does what one caller was told survive the others? | 2 handlers, 2 users (one an owner at first), 2 keys, 1 credential, 2 settings, 5 calls: enough for two owners to be made and to act against each other |
| `Dashboard` | Does every page and form the dashboard offers work, and is every secret seen, or one reload away after a page that failed? | 2 tabs, 2 sign-ins and 1 change of role, partner, session or administrator's token; 2 roles and 2 kinds of partner, which differ in what the pages ask of them; all 34 pages and their forms are judged in every state, while one page with secrets and the administrator's console are the ones the tabs open and post. The other roles and partners, every other page and form, and longer histories - the exception `Covers` of a form posted from an earlier session takes two changes of role - are covered by the proofs |
| `Operations` | Are completed batches true to their rows, do errors have causes, and does retention end? | 1 batch of up to 2 rows, each safe, on an unsupported network or unreadable; every retention mode; 1 fault anywhere; 1 export; the ticks of 1 process; clock up to 1, retention by age and of exports 0, a partner's own retention 1: everything stored can expire while the batch runs. A second process would only clean up more often |

Deadlock is checked where the system can always go on; the runs that switch it
off stop because a bound (requests, submissions, calls) is used up.
Symmetry is used for interchangeable handlers and only in runs without
temporal liveness properties.

Fairness. `WebhookDelivery!FairSpec` assumes weak fairness of each worker's own
steps and of time. The scheduler calls `runTick` from `setInterval` for as long
as the process lives and never lets two overlap in one process; a POST ends by
`AbortSignal.timeout(5000)`; every other step is an awaited statement of a
running handler. Crashes and failing writes are not prevented by fairness, only
bounded in number. It also assumes that the clean-ups which precede the
deliveries in a tick succeed, since a failing one ends the tick;
`Operations` shows that a job which fails a bounded number of times only delays
the later ones. `Operations!FairSpec` assumes weak fairness of each process's
ticks: the `finally` of `runTick` resets the flag, and every job is an awaited
statement that completes or fails.
`AttestationIngestion!FairSpec` assumes weak fairness of each handler's next
statement and of the open transaction of a dashboard call: PostgreSQL gives a
lock to a waiter when its holder ends, and a statement that waits for nothing
completes. Its abort of a circle is not assumed. No fairness is assumed of users,
administrators or partners.

## Proofs

TLAPS checks the following for **every** value of the constants that satisfies
the named assumption of the module (`ConstantsAssumption`, `PayloadsAssumption`,
`TimesAssumption`, `UnwrittenAssumption`, `BoundsAssumption`,
`ResolutionAssumption`, `ApprovalAssumption`, `NonceAssumption`,
`AccessAssumption`, `OperationsAssumption`, `FindingsAssumption`,
`VisitedAssumption`, `FormsAssumption`, `UserAssumption`; these say only that
constants have the right type, that the handlers of lookups are finitely many,
that the forms lead back to pages, and that markers such as `Never` are not
ordinary values). `PartnersAssumption` says more: the partners the dashboard is
used by are consistent in the sense that `PartnerIsConsistent` and
`StageNeedsApproval` of `ProductionApproval` describe, which the code keeps true
unless two calls of the kind named there overlap. Further assumptions are part
of the theorem.

`WebhookDeliveryProofs`
: `TypeCorrect`. `CountInv` - a worker that has claimed holds an attempt number
  not above the claims made, and a worker that may settle as successful has had
  its request taken - gives `AttemptCountBounded`, `GivesUpOnlyAfterMaxAttempts`
  and `SucceededMeansAccepted` without any timing assumption. `HoldInv` - a
  worker with a request in flight *owns* its row: the row still carries its
  claim, or is the SUCCEEDED row that it doubts, or was abandoned on a disabled
  endpoint - gives `PostingIsExclusive`
  and `SettledStaysSettled` under `SettleWithin < StaleAfter`. Neither property
  is inductive: exclusiveness follows only from what the row looks like while a
  worker holds it. Two workers never doubt the same row, and a doubt ends with
  the step that takes the row back or lets it be. `PromiseKept` is the refinement of `AtLeastOnce`, from both
  and `RowInv`: every step of a call is a step of the promise or a stutter.
  `OpenDeliveriesComeBack` needs no timing assumption: an open row is due within
  the longest delay, or its claim goes stale, whatever crashes or answers late.

`AttestationIngestionProofs`
: `TypeCorrect`; `Implementation` (`Spec => ImplementsRegistry`), from `LockInv`
  (two ingestions of one recipient are never both past `upsertRecipient`),
  `PlanInv` (the uncommitted writes of a transaction are what `Attest` would
  write to the *committed* rows of its recipient, whatever is committed
  meanwhile) and `OutboxInv`; `NeverAmbiguous`, obtained from the abstract
  specification through the refinement; `AnnouncedOnce`. Through the refinement
  also `NothingUnsignedInForce`: a destination in force was named by a recorded
  attestation with exactly its recipient, address and validity window. It
  needs no more than the abstract operations, which is what the refinement is
  for. `RecordedOnce`: the unique index decides between requests that both
  passed the early check. `RequestsAloneNeverCircle`: the stages at which a request
  takes its locks are ordered (`Stage`), a request waits only for one that is
  further on (`WaitsForward`), and of requests that wait for each other one
  would be furthest on. So whatever is `Stuck` includes a call that is making
  its destination the default and holds a row; `WaitsCoverGuards` shows that
  the waits are what the guards ask for.

`ResolutionRequestsProofs`
: `TypeCorrect`; `SequentialRetries` and `NothingUnrecorded` from `CallInv`
  (what a session knows of the rows of its call), `FreshInv` and `OwedInv`
  (signals that a flagged answer still owes); `IndexSuffices` from `IndexInv`,
  under `UniqueIndex = TRUE`: the catch clauses are right for the schema they
  were written for. `LimitHolds` states `OvershootBounded`, which counts the answered
  rows that the clean-up has not taken and is not inductive; that it takes only
  expired rows is `ForgottenInv`. `LimitInv` counts with them the handlers that
  have passed the limiter and not yet recorded (`Admitted`): together they stay
  below the limit plus the number of handlers. A handler that counts fewer rows
  than the limit may be admitted, because the *others* admitted are fewer than
  the handlers (`SumsBounded`), whatever was recorded since it read the clock; a
  handler that records moves from one set to the other (`SumsMove`).

`ProductionApprovalProofs`
: `TypeCorrect`; `StageIsEarned`, `DecidedOnce`, `AccessOnRecord`,
  `ApprovalTakesEffect` for any number of callers, from `StageInv` and
  `DecisionInv` (what a pending session read is still so unless its request is
  contested). `FilingAloneOnePending` (`FilingInv`) and `EditsAloneConsistent`
  (`ConsoleInv`) rest on `OverlapInv`: as long as `overlapped` says that no two
  calls of a kind were open at once, at most one session holds a check that is
  not yet written. They say exactly which kind of concurrency each rule of the
  code does not survive: one pending request, a second filing; the partner's
  consistency, an update beside an approval or another update.

`RequestNoncesProofs`
: `TypeCorrect`; `SpacedReuse` and `AtMostOnce` for any settings, from `NonceInv`
  (the nonce of a call that passed is in the table until it expires);
  `RefusedTruthfully` from `RowsInv`. `AtMostOnce` says what a second acceptance
  of one request takes: a call that was longer on its way from check to insert
  than `NonceTtl - 2 * MaxAge`. The factor two is there because a timestamp may
  lie in the future by `MaxAge`. With the defaults of `config/environment.ts`
  that difference is zero, see the findings.

`PartnerAccessProofs`
: `TypeCorrect`, from `TypeInv`, which also says what a call holds at each step;
  and one invariant for each promise. `OwnerInv` and `KeyInv` count: a call that
  has passed a last-owner or last-key check knows of another one, which only a
  second such call can take (and is then recorded in `raced`). `ManagerInv`: a
  call that takes a user's standing leaves its own caller's. `SecretInv`: a
  rotation under way has read the present version. `InviteInv`, `LoginInv` (a
  login about to write has found its user active, who still is unless the login
  was overtaken) and `SettingsInv` (what was acknowledged is in the one row)
  need no exception.

`OperationsProofs`
: `OperationsType`; `CompletedRuns` and `ErrorCauses` from `BatchInv`, for any
  number of runs, rows, processes and faults, with the clean-ups of the ticks in
  between. What a completed run promises says nothing of a run before its last
  statement; `BatchInv` says it of every point of the loop: rows without a gap
  up to the index (`RowsInv`), each evaluated one backed by a recorded request
  (`BackedInv`), the counts those of the rows before the index (`CountInv`),
  no dangerous row before it if the run is to stop at one (`StopInv`), and, as
  long as nothing failed, requests taken only by retention (`CauseInv`,
  `RetentionInv`). The difficult statement is the catch clause: it may find the
  row it reports on already written, when only the answer was lost.
  `SafeRowsWereConfirmed` follows what the loop carries from row to row: only a
  lookup that confirmed its destination makes a row safe to send to.
  `NothingGoesEarly` says of rows, requests and exports that what is gone had
  expired; it holds because each clean-up goes by a time that is not ahead of
  the clock (`RetentionInv`), and an expired row stays expired.
  `FlagsAreReleased`: `isProcessing` is set exactly while a tick runs.

`DashboardProofs`
: `LinksOpen` and `FormsMayBeSent` for every partner that
  `PartnersAssumption` allows, every role and every session, from lemmas that
  compare three texts: what the guard makes of the scopes and policies of a route
  (`CallsForUsers`), what the profile and the session tell a page
  (`ProfileTells`, `SessionTells`), and what each page asks before it calls
  or offers a form (`PagesKeepTheirPromises`). `DashboardTypes` and
  `SecretsReachTheUser` from `DashboardInv`, for any number of tabs, sign-ins,
  secrets and changes: while nothing came between, a form waits with the session
  that is in the cookie now, at most one secret is unseen, it is in the flash
  cookie, no clear request is under way, and a tab is loading, or has failed to
  load, a page that *would* show it with the cookie, role and partner of now
  (`SecretInv`); an error offers nothing but to sign out. The attempt to
  prove this without `Covers` failed for a reason, which TLC finds too in an
  instance with a second change (`MaxChanges = 2`). `OnlyExpiryUnlocks` is an
  action property of a browser that is locked out: its cookie is of a session
  that has ended and no tab shows a form. Nothing but the cookie's expiry leads
  out, since the home page shows its form only to a browser without a cookie
  and no page may delete one.

The types of `ResolutionRequests` and `RequestNonces` are proved and not part of
a run. Every safety property and every refinement that the passing runs check is
proved. Only model-checked: liveness (`EventuallySettled`, `EveryRequestEnds`,
`TicksDoTheirJobs`), which is out of the prover's reach under fairness, and what
the violation runs show. The safety half of each of the three is proved - an
open delivery is always selectable again (`OpenDeliveriesComeBack`), requests
never wait in a circle of their own (`RequestsAloneNeverCircle`), the flag of a
finished tick is released (`FlagsAreReleased`) - so that TLC is left with the question of whether
fairness turns them into progress. These three, `NothingUnsignedInForce`,
`RecordedOnce`, `OnlyExpiryUnlocks`, `NothingGoesEarly` and
`SafeRowsWereConfirmed` state formulas that stand beside their proofs and are
part of no run.

## Findings

Three disagreements between the code and what its documents or messages say are
shown by runs that end in a counterexample.

* **A sixth attempt** (`WebhookAttemptCap`). The README promises "up to five
  attempts". The maximum is compared only when an attempt is settled; a claim
  that goes stale is taken over whatever its attempt number, so a crash after
  the fifth claim is followed by a sixth.
* **Overlapping retries** (`LookupConcurrentRetries`). The README promises the
  stored response to a retry with the same idempotency key. A retry that
  overlaps its original finds no stored row and is executed too, and the index
  that the catch clauses rely on was dropped by a migration. What does hold:
  only *overlapping* retries are executed twice (`DuplicatesOverlap`).
* **Cancelled and approved** (`ApprovalCancelRace`). A cancellation that was
  checked before a review commits is written over the review: the partner has
  access and its request says CANCELLED. What does hold: decisions that nobody
  contests stand (`DecisionsStand`) and access rests on an approved request
  unless it was contested.

Seen while modelling, without a run of their own because the repository states
no contrary:

* A delivery that was taken and recorded is posted again, or recorded as
  abandoned, if the answer to the commit of its success is lost
  (`webhooks/webhooks.service.ts:946`).
* Two calls that selected the same due delivery may post it twice in a row
  without the backoff between (`webhooks/webhooks.service.ts:853`).
* Creating a default destination locks the recipient's default rows without the
  recipient's own lock, and then inserts: it and an attestation that moves the
  recipient to one of those rows may wait for each other until PostgreSQL aborts
  one of them, and neither is retried (`destinations/destinations.service.ts:283`;
  `CaughtByDesk`). Two destinations may be the default at once, since an
  attestation clears the flag of the ACTIVE rows only.
* Two users who file at once both get a pending request; an administrator's
  update that was checked before an approval takes the partner out of the
  production stage again. These are the exceptions of `OnePending` and
  `PartnerIsConsistent`.
* Two owners who deactivate each other at once leave none; a change of role may
  take the last owner's role in sequence, since only deactivation counts
  (`partners/partners.service.ts:740`, `:826`). A user who can manage the
  others always remains unless two such calls cross.
* A `PENDING` invite that has expired stays in the table, and the unique index
  on partner, email and status refuses a new one (`partners/partners.service.ts:643`).
* The limiter counts rows of `ResolutionRequest`, and under `NO_RETAIN` the next
  tick deletes them: such a partner's lookups are limited between two ticks and
  not per window (`./backend/src/security/request-hardening.service.ts:138`,
  `resolution/resolution.service.ts:1207`). `OvershootBounded` therefore speaks
  of answered lookups that are not forgotten, and says which may be.
* With the default settings a signed request may pass twice: its nonce lives
  exactly `2 * MaxAge` from the first check, so a timestamp that was a whole age
  ahead then is still fresh at the last moment the row exists, and an insert a
  moment later meets no row (`./backend/src/config/environment.ts:113`,
  `security/request-hardening.service.ts:72`). `PassesOnce` says this exactly.
* Two rotations of a webhook secret may return the same secret (`raced`).
* With `NO_RETAIN`, the clean-up may delete the request of a batch row before
  its risk signals are written, which makes the row an `ERROR`; this is the
  exception of `ErrorsHaveCauses`. The rows of a batch whose lookup failed
  count as blocked; a batch that is lost half way keeps counts of zero and no
  `completedAt` for ever. `warningCount` can never be more than zero, since
  every verdict that is not verified is HIGH or CRITICAL, and an unsupported
  network therefore stops a batch with `stopOnFirstHighRisk`.
  `requireExactAttestedMatch` is stored and used by no lookup.
* Content of an expired audit export is still part of the list of exports until
  the clean-up or a download empties it.
* A session that the backend has ended locks the browser out until the cookie
  expires: the layout throws, the home page sends the browser to the overview,
  and no page may delete the cookie
  (`./dashboard/src/app/(ops)/layout.tsx:16`; `OnlyExpiryUnlocks`). A late 401
  of an old post deletes the cookie of a newer login.
* The page of lookup logs asks for the supported platforms, which the backend
  refuses a partner without an environment
  (`./dashboard/src/app/(ops)/resolution/logs/page.tsx:95`): the exception of
  `NavigationIsHonest`.
* The client gives up after 10 s; a secret that the backend makes later is lost.
  The idempotency key of a lookup from the dashboard is a hash of its input
  (`./dashboard/src/lib/vervet-api.ts:2607`), so the same lookup again gives the
  stored answer for as long as its row is retained.

## What is not modelled

* In `WebhookDelivery`: payloads, signatures, event types (an endpoint is
  subscribed or not), the audit rows of each transition.
* In `AttestationIngestion`: the checks before the transaction, which only read
  (signature, key, corridor); corridors other than one; display data. Address
  and memo are one value. The order in which PostgreSQL visits the rows of one
  statement is left open.
* In `ResolutionRequests`: what a lookup reads is one step, and its result one
  value per subject; log and detail queries only read.
* In `ProductionApproval`: onboarding counts and feed health, which other parts
  change, are free inputs of each request; requests are ordered by insertion,
  where the code orders by `requestedAt`; notes and audit rows.
* In `PartnerAccess`: passwords, hashes and secrets that do not match end a call
  before it begins; names and labels; several partners. A webhook secret is a
  function of endpoint and version, so signing is not a step.
* In the dashboard: layout, wording and client-side forms; filters and
  pagination of queries; what pages show of the data they fetch.
* In `BatchVerification`: form and number of the rows, checked before anything is
  written; disclosure and candidates in the answers.
* In `LookupVerdicts`: the queries, ranking and disclosure of a lookup.
* Normalization is string functions and an alias table. Sealed data, blind
  indexes and signatures are functions of their inputs and are represented by
  the inputs. Reports (overview, data-feed health, platforms, metadata, pricing)
  change no state and nothing but the guards of `ApiRoutes` decides who reads
  them. Parsing of the configuration appears as assumptions on constants.
  Migrations, seed data and the static site have no behaviour of their own.
