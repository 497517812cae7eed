--------------------------- MODULE BatchVerification ---------------------------
(***************************************************************************)
(* batchVerify of resolution.service.ts: a list of rows, each looked up,   *)
(* recorded as a ResolutionRequest and stored as a ResolutionBatchRow, and *)
(* a ResolutionBatchRun that is completed with the counts at the end; with *)
(* the retention clean-up that deletes rows and requests meanwhile.        *)
(*                                                                         *)
(* Nothing of this is a transaction.  A row's statements stand in a try    *)
(* whose catch clause stores the row as an ERROR; a failure anywhere else  *)
(* ends the call and leaves the run as it is.                              *)
(*                                                                         *)
(* Abstracted: inputs and answers are what a lookup finds (LookupVerdicts) *)
(* and its verdict; the limits on the number and form of rows, which are   *)
(* checked before anything is written.                                     *)
(***************************************************************************)
EXTENDS Integers, FiniteSets, LookupVerdicts

CONSTANTS
  Runs,            \* the calls, each of which creates one run
  MaxRows,         \* RESOLUTION_BATCH_MAX_ROWS
  Findings,        \* what lookups of rows may find
  Retention,       \* RESOLUTION_REQUEST_RETENTION_MS
  ShortRetention,  \* rawVerificationRetentionHours
  ByAge,           \* a retentionExpiresAt that is null
  MaxFaults        \* bound: failing statements and lost calls

VARIABLES
  run,       \* the ResolutionBatchRun rows
  rows,      \* the ResolutionBatchRow table
  requests,  \* the ResolutionRequest rows of the runs
  call,      \* what each call holds between its statements
  written,   \* history: the last row stored for each index
  recorded,  \* history: every request ever recorded
  now, faults

Categories == {"verified", "warning", "blocked", "unsupported"}

Run ==
  [status : {"none", "open", "completed"}, size : Nat, stop : BOOLEAN,
   counts : [Categories -> Nat]]

Record == [run : Runs, index : Nat, verdict : Verdict, expiresAt : Nat]

Call ==
  [pc : {"idle", "evaluate", "record", "signals", "row", "errorRow", "audit",
         "finish", "done"},
   index : Nat, found : Verdict,   \* the evaluation of the row
   answered : Verdict,             \* rowResponse
   tallied : Verdict,              \* recordedRiskLevel, recordedRecommendation
   counts : [Categories -> Nat], expiresAt : Nat \union {ByAge}]

\* Runs, rows, requests and calls keep their types.
TypeOK ==
  /\ run \in [Runs -> Run]
  /\ \A table \in {rows, requests, written, recorded} : table \subseteq Record
  /\ call \in [Runs -> Call]
  /\ {now, faults} \subseteq Nat

Invalid == Refusal("ERROR", "HIGH", "invalid_request")
NoCounts == [c \in Categories |-> 0]

Idle == [pc |-> "idle", index |-> 0, found |-> Invalid, answered |-> Invalid,
         tallied |-> Invalid, counts |-> NoCounts, expiresAt |-> ByAge]

Init ==
  /\ run = [b \in Runs |-> [status |-> "none", size |-> 0, stop |-> FALSE,
                            counts |-> NoCounts]]
  /\ rows = {}
  /\ requests = {}
  /\ call = [b \in Runs |-> Idle]
  /\ written = {}
  /\ recorded = {}
  /\ now = 0
  /\ faults = 0

Go(b, s) == call' = [call EXCEPT ![b] = s]
At(b, pc) == call[b].pc = pc
MoveTo(b, pc) == Go(b, [call[b] EXCEPT !.pc = pc])
End(b) == Go(b, [Idle EXCEPT !.pc = "done", !.index = call[b].index])

-----------------------------------------------------------------------------
(* The call.                                                               *)

\* buildRetentionExpiresAt, once for the batch; null is ByAge:
\* then the age decides.
ExpiryModes == {now, now + ShortRetention, ByAge}

Begin(b, size, stop) ==
  /\ At(b, "idle")
  /\ size \in 1 .. MaxRows
  /\ run' = [run EXCEPT ![b] = [status |-> "open", size |-> size, stop |-> stop,
                                counts |-> NoCounts]]
  /\ \E expiry \in ExpiryModes :
       Go(b, [Idle EXCEPT !.pc = "evaluate", !.index = 1, !.expiresAt = expiry])
  /\ UNCHANGED <<rows, requests, written, recorded, now, faults>>

\* Mutant: a retention that is null is stored as it is.
MutNullExpiry(b) == call[b].expiresAt

\* The time from which the clean-up deletes what is stored now: a cut-off on
\* the time of creation is exclusive, retentionExpiresAt is inclusive.
ExpiryOf(b) ==
  IF call[b].expiresAt = ByAge THEN now + Retention + 1 ELSE call[b].expiresAt

Entry(b, verdict) ==
  [run |-> b, index |-> call[b].index, verdict |-> verdict,
   expiresAt |-> ExpiryOf(b)]

Evaluate(b) ==
  /\ At(b, "evaluate")
  /\ \E found \in Findings :
       Go(b, [call[b] EXCEPT !.pc = "record", !.found = VerdictOn(found)])
  /\ UNCHANGED <<run, rows, requests, written, recorded, now, faults>>

\* An encrypted value does not open, or an input cannot be normalized.
Unreadable(b) ==
  /\ At(b, "evaluate")
  /\ MoveTo(b, "errorRow")
  /\ UNCHANGED <<run, rows, requests, written, recorded, now, faults>>

Store(b) ==
  /\ requests' = requests \union {Entry(b, call[b].found)}
  /\ recorded' = recorded \union {Entry(b, call[b].found)}

\* recordResolutionRequest: the request, then its risk signals, which need it.
RecordRequest(b) ==
  /\ At(b, "record")
  /\ Store(b)
  /\ MoveTo(b, IF Dangerous(call[b].found) THEN "signals" ELSE "row")
  /\ UNCHANGED <<run, rows, written, now, faults>>

HasRequest(b) == \E q \in requests : q.run = b /\ q.index = call[b].index

RecordSignals(b) ==
  /\ At(b, "signals")
  /\ MoveTo(b, IF HasRequest(b) THEN "row" ELSE "errorRow")
  /\ UNCHANGED <<run, rows, requests, written, recorded, now, faults>>

Keep(b, verdict) ==
  /\ rows' = rows \union {Entry(b, verdict)}
  /\ written' = {r \in written : r.run # b \/ r.index # call[b].index}
                  \union {Entry(b, verdict)}

WriteRow(b) ==
  /\ At(b, "row")
  /\ Keep(b, call[b].found)
  /\ Go(b, [call[b] EXCEPT !.pc = "audit", !.answered = call[b].found,
                           !.tallied = call[b].found])
  /\ UNCHANGED <<run, requests, recorded, now, faults>>

-----------------------------------------------------------------------------
(* The catch clause, and what is left to do for a row.                     *)

\* A statement of the try fails.
StatementFails(b) ==
  /\ call[b].pc \in {"evaluate", "record", "signals", "row"}
  /\ faults < MaxFaults
  /\ faults' = faults + 1
  /\ MoveTo(b, "errorRow")
  /\ UNCHANGED <<run, rows, requests, written, recorded, now>>

\* It succeeds, but its answer is lost.
AnswerLost(b) ==
  /\ faults < MaxFaults
  /\ faults' = faults + 1
  /\ \/ At(b, "record") /\ Store(b) /\ UNCHANGED <<rows, written>>
     \/ At(b, "row") /\ Keep(b, call[b].found) /\ UNCHANGED <<requests, recorded>>
  /\ MoveTo(b, "errorRow")
  /\ UNCHANGED <<run, now>>

\* The unique index on run and index refuses a second row: the call ends.
WriteErrorRow(b) ==
  /\ At(b, "errorRow")
  /\ IF \E r \in rows : r.run = b /\ r.index = call[b].index
     THEN End(b) /\ UNCHANGED <<rows, written>>
     ELSE /\ Keep(b, Invalid)
          /\ Go(b, [call[b] EXCEPT !.pc = "audit", !.answered = Invalid])
  /\ UNCHANGED <<run, requests, recorded, now, faults>>

CategoryOf(answered, tallied) ==
  CASE answered.verified -> "verified"
    [] ~answered.verified /\ tallied.recommendation = "unsupported_asset_network" ->
         "unsupported"
    [] OTHER -> IF Dangerous(tallied) THEN "blocked" ELSE "warning"

\* Mutant: the variables of a row declared outside the loop.
MutOfLastRow(b) == call[b].tallied

\* What the next row is taken for unless it is evaluated.
Presumed(b) == Invalid

\* The row is counted and audited; the loop may stop at a high risk.
AuditRow(b) ==
  LET s == call[b]
      counts == [s.counts EXCEPT ![CategoryOf(s.answered, s.tallied)] = @ + 1]
      last == \/ s.index = run[b].size
              \/ run[b].stop /\ Dangerous(s.tallied)
  IN /\ At(b, "audit")
     /\ Go(b, IF last THEN [s EXCEPT !.pc = "finish", !.counts = counts]
              ELSE [Idle EXCEPT !.pc = "evaluate", !.index = s.index + 1,
                                !.counts = counts, !.tallied = Presumed(b),
                                !.expiresAt = s.expiresAt])
     /\ UNCHANGED <<run, rows, requests, written, recorded, now, faults>>

Finish(b) ==
  /\ At(b, "finish")
  /\ run' = [run EXCEPT ![b] = [@ EXCEPT !.status = "completed",
                                         !.counts = call[b].counts]]
  /\ End(b)
  /\ UNCHANGED <<rows, requests, written, recorded, now, faults>>

\* The process ends, or a statement outside the try fails.
Interrupt(b) ==
  /\ call[b].pc \notin {"idle", "done"}
  /\ faults < MaxFaults
  /\ faults' = faults + 1
  /\ End(b)
  /\ UNCHANGED <<run, rows, requests, written, recorded, now>>

-----------------------------------------------------------------------------
(* cleanupHistoricalResolutionRequests: two statements, which both use the *)
(* time asOf that was read before the first.                               *)

\* Mutant: rows are deleted one unit of time before they expire.
MutKeptShort(table, asOf) == {r \in table : r.expiresAt > asOf + 1}

Kept(table, asOf) == {r \in table : r.expiresAt > asOf}

CleanRows(asOf) ==
  /\ rows' = Kept(rows, asOf)
  /\ UNCHANGED <<run, requests, call, written, recorded, now, faults>>

CleanRequests(asOf) ==
  /\ requests' = Kept(requests, asOf)
  /\ UNCHANGED <<run, rows, call, written, recorded, now, faults>>

Step(b) ==
  \/ \E size \in 1 .. MaxRows, stop \in BOOLEAN : Begin(b, size, stop)
  \/ Evaluate(b)
  \/ Unreadable(b)
  \/ RecordRequest(b)
  \/ RecordSignals(b)
  \/ WriteRow(b)
  \/ StatementFails(b)
  \/ AnswerLost(b)
  \/ WriteErrorRow(b)
  \/ AuditRow(b)
  \/ Finish(b)
  \/ Interrupt(b)

-----------------------------------------------------------------------------
RowsOf(b) == {r \in written : r.run = b}

\* The rows that each count of a run is about.
Counted(b) ==
  LET Refused == {r \in RowsOf(b) : ~r.verdict.verified}
      NoNetwork ==
        {r \in Refused : r.verdict.recommendation = "unsupported_asset_network"}
  IN [verified |-> RowsOf(b) \ Refused, unsupported |-> NoNetwork,
      blocked |-> {r \in Refused \ NoNetwork : r.verdict.risk # "LOW"},
      warning |-> {r \in Refused \ NoNetwork : r.verdict.risk = "LOW"}]

(* A completed run is true to its rows, whatever failed on the way and     *)
(* whatever retention has deleted since: one row for each index it reached,*)
(* the counts of each kind, every evaluated row backed by a recorded       *)
(* request with that verdict, and an early end only after a high risk.     *)
CompletedRunsAreTrue ==
  \A b \in Runs : run[b].status = "completed" =>
    LET n == call[b].index IN
    /\ {r.index : r \in RowsOf(b)} = 1 .. n
    /\ Cardinality(RowsOf(b)) = n
    /\ \A c \in Categories : run[b].counts[c] = Cardinality(Counted(b)[c])
    /\ \A r \in RowsOf(b) : r.verdict = Invalid \/
         \E q \in recorded : q.run = b /\ q.index = r.index /\ q.verdict = r.verdict
    /\ \A r \in RowsOf(b) : run[b].stop /\ Dangerous(r.verdict) => r.index = n
    /\ n = run[b].size \/ \E r \in RowsOf(b) :
                            r.index = n /\ run[b].stop /\ Dangerous(r.verdict)

(* A run stays open, or a row whose request is on record is an ERROR, only *)
(* if something failed or retention took the request away in between.      *)
ErrorsHaveCauses ==
  \A b \in Runs : faults = 0 =>
    /\ call[b].pc = "done" => run[b].status = "completed"
    /\ \A r \in RowsOf(b), q \in recorded :
         q.run = b /\ r.run = b /\ q.index = r.index /\ r.verdict = Invalid
           => q.expiresAt <= now
===============================================================================
