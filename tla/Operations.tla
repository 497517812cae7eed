------------------------------ MODULE Operations ------------------------------
(***************************************************************************)
(* The tick of webhook-delivery-processor.service.ts beside what it cleans *)
(* up: batches with their rows and requests (BatchVerification) and audit  *)
(* exports (AuditExports), under one clock.                                *)
(*                                                                         *)
(* A tick runs its jobs one after the other in one try: nonces, retention  *)
(* in two statements, exports, deliveries.  A job that fails ends the tick *)
(* and keeps the later ones from running until the next; a flag keeps the  *)
(* ticks of one process apart.                                             *)
(*                                                                         *)
(* Abstracted: what the first and the last job do to their tables          *)
(* (RequestNonces, WebhookDelivery).                                       *)
(***************************************************************************)
EXTENDS Integers

CONSTANTS
  Runs, MaxRows, Findings, Retention, ShortRetention, ByAge, MaxFaults,
  Exports, ExportTtl,
  Processes,  \* processes with WEBHOOK_DELIVERY_PROCESSOR_ENABLED
  MaxClock    \* bound: the clock

ASSUME OperationsAssumption ==
  /\ {MaxRows, Retention, ShortRetention, ExportTtl, MaxFaults, MaxClock} \subseteq Nat
  /\ ByAge \notin Nat

VARIABLES
  run, rows, requests, call, written, recorded,   \* BatchVerification
  exports,                                        \* AuditExports
  job,         \* the statement each process's tick is at
  processing,  \* isProcessing of each process
  asOf,        \* the time its retention clean-up goes by
  now, faults

Batch == INSTANCE BatchVerification
Audit == INSTANCE AuditExports

ASSUME FindingsAssumption == Findings \subseteq Batch!Found

batchTables == <<run, rows, requests, call, written, recorded>>
tick == <<job, processing, asOf>>

vars == <<batchTables, exports, tick, now, faults>>

Jobs == {"nonces", "rows", "requests", "exports", "deliveries"}

\* The tables and the ticks keep their types.
TypeOK ==
  /\ Batch!TypeOK
  /\ Audit!TypeOK
  /\ job \in [Processes -> Jobs \union {"idle"}]
  /\ processing \in [Processes -> BOOLEAN]
  /\ asOf \in [Processes -> Nat]

Init ==
  /\ Batch!Init
  /\ Audit!Init
  /\ job = [p \in Processes |-> "idle"]
  /\ processing = [p \in Processes |-> FALSE]
  /\ asOf = [p \in Processes |-> 0]

-----------------------------------------------------------------------------
(* runTick.                                                                *)

After(j) ==
  CASE j = "nonces" -> "rows"
    [] j = "rows" -> "requests"
    [] j = "requests" -> "exports"
    [] j = "exports" -> "deliveries"
    [] j = "deliveries" -> "idle"

StartTick(p) ==
  /\ ~processing[p]
  /\ processing' = [processing EXCEPT ![p] = TRUE]
  /\ job' = [job EXCEPT ![p] = "nonces"]
  /\ UNCHANGED <<batchTables, exports, asOf, now, faults>>

\* The job that the tick is at succeeds.
Work(p) ==
  CASE job[p] = "rows" -> Batch!CleanRows(now) /\ UNCHANGED exports
    [] job[p] = "requests" -> Batch!CleanRequests(asOf[p]) /\ UNCHANGED exports
    [] job[p] = "exports" -> Audit!CleanExports /\ UNCHANGED <<batchTables, faults>>
    [] OTHER -> UNCHANGED <<batchTables, exports, now, faults>>

DoJob(p) ==
  /\ job[p] \in Jobs
  /\ Work(p)
  /\ job' = [job EXCEPT ![p] = After(job[p])]
  /\ processing' = [processing EXCEPT ![p] = job[p] # "deliveries"]
  /\ asOf' = [asOf EXCEPT ![p] = IF job[p] = "rows" THEN now ELSE 0]

\* Mutant: the flag is reset at the end of the try, not in its finally.
MutStillProcessing == TRUE

StillProcessing == FALSE

\* A job throws, or the process dies and is started again.
TickFails(p) ==
  /\ job[p] \in Jobs
  /\ faults < MaxFaults
  /\ faults' = faults + 1
  /\ job' = [job EXCEPT ![p] = "idle"]
  /\ processing' = [processing EXCEPT ![p] = StillProcessing]
  /\ asOf' = [asOf EXCEPT ![p] = 0]
  /\ UNCHANGED <<batchTables, exports, now>>

-----------------------------------------------------------------------------
BatchStep(b) == Batch!Step(b) /\ UNCHANGED <<exports, tick>>

AuditStep ==
  /\ \E x \in Exports : Audit!CreateExport(x) \/ Audit!ExpireOnDownload(x)
  /\ UNCHANGED <<batchTables, tick, faults>>

TimePasses ==
  /\ now < MaxClock
  /\ now' = now + 1
  /\ UNCHANGED <<batchTables, exports, tick, faults>>

Next ==
  \/ \E p \in Processes : StartTick(p) \/ DoJob(p) \/ TickFails(p)
  \/ \E b \in Runs : BatchStep(b)
  \/ AuditStep
  \/ TimePasses

Spec == Init /\ [][Next]_vars

\* setInterval goes on for as long as the process lives, and the statements of
\* a tick complete or fail.
FairSpec ==
  Spec /\ \A p \in Processes : WF_vars(StartTick(p) \/ DoJob(p))

-----------------------------------------------------------------------------
(* BatchVerification's two, with the clean-ups of real ticks in between.   *)
CompletedRunsAreTrue == Batch!CompletedRunsAreTrue
ErrorsHaveCauses == Batch!ErrorsHaveCauses

\* Something that the clean-ups of a tick would delete now.
Overdue ==
  \/ \E r \in rows \union requests : r.expiresAt <= now
  \/ \E x \in Exports : exports[x].content /\ exports[x].expiresAt < now

(* What retention and expiry promise, although one failing job ends a tick *)
(* with all the later ones: overdue rows, requests and contents of exports *)
(* are gone some time later, and the deliveries have their turn.           *)
TicksDoTheirJobs ==
  /\ Overdue ~> ~Overdue
  /\ \A p \in Processes : job[p] = "idle" ~> job[p] = "deliveries"
===============================================================================
