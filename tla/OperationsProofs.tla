--------------------------- MODULE OperationsProofs ---------------------------
(***************************************************************************)
(* What batches promise beside the ticks that clean up after them, for any *)
(* number of runs, rows, processes and faults.                             *)
(*                                                                         *)
(* BatchInv relates what a call holds between two statements to the rows   *)
(* and requests written so far: the rows reach up to the index of the loop *)
(* without a gap, the counts are those of the rows before it, and nothing  *)
(* but retention takes a request away.  CompletedRunsAreTrue alone says    *)
(* nothing of a run before its last statement.                             *)
(***************************************************************************)
EXTENDS Operations, FiniteSetTheorems, TLAPS

RowsOf(b) == Batch!RowsOf(b)
RecordedOf(b) == {q \in recorded : q.run = b}
Stored(b) == {r.index : r \in RowsOf(b)}

InCategory(S, c) ==
  {r \in S : Batch!CategoryOf(r.verdict, r.verdict) = c}

CountsOf(counts, S) ==
  \A c \in Batch!Categories : counts[c] = Cardinality(InCategory(S, c))

Working == {"evaluate", "record", "signals", "row", "errorRow", "audit", "finish"}
Trying == {"evaluate", "record", "signals", "row"}
Completed(b) == run[b].status = "completed"
Ending(b) == call[b].pc = "finish" \/ Completed(b)

\* The call and the run are at the same point.
StatusInv(b) ==
  /\ call[b].pc = "idle" => run[b].status = "none" /\ call[b].index = 0
  /\ call[b].pc \in Working =>
       run[b].status = "open" /\ call[b].index \in 1 .. run[b].size
  /\ Completed(b) => call[b].pc = "done" /\ call[b].index \in Nat

\* One row for each index up to that of the loop.
RowsInv(b) ==
  /\ \A r1, r2 \in RowsOf(b) : r1.index = r2.index => r1 = r2
  /\ call[b].pc \in Trying \union {"idle"} => Stored(b) = 1 .. call[b].index - 1
  /\ call[b].pc = "errorRow" =>
       Stored(b) \in {1 .. call[b].index - 1, 1 .. call[b].index}
  /\ call[b].pc = "audit" \/ Ending(b) => Stored(b) = 1 .. call[b].index

\* A row that is no ERROR has the verdict of a request that was recorded.
BackedInv(b) ==
  /\ \A q \in RecordedOf(b) : q.index <= call[b].index
  /\ call[b].pc \in {"idle", "evaluate", "record"} =>
       \A q \in RecordedOf(b) : q.index < call[b].index
  /\ \A r \in RowsOf(b) : r.verdict = Batch!Invalid \/
       \E q \in RecordedOf(b) : q.index = r.index /\ q.verdict = r.verdict
  /\ call[b].pc \in {"record", "signals", "row"} => call[b].found # Batch!Invalid
  /\ call[b].pc \in {"signals", "row"} =>
       \E q \in RecordedOf(b) :
          q.index = call[b].index /\ q.verdict = call[b].found

\* What is counted next is the row at the index.
TalliedInv(b) ==
  /\ call[b].pc \in Trying \union {"errorRow"} => call[b].tallied = Batch!Invalid
  /\ call[b].pc = "audit" =>
       /\ call[b].answered = call[b].tallied
       /\ \E r \in RowsOf(b) :
            r.index = call[b].index /\ r.verdict = call[b].tallied

\* The loop goes on after a row unless it is told to stop there.
StopInv(b) ==
  LET stops(r) == run[b].stop /\ Batch!Dangerous(r.verdict) IN
  /\ call[b].pc \in Working \/ Completed(b) =>
       \A r \in RowsOf(b) : r.index < call[b].index => ~stops(r)
  /\ Ending(b) =>
       \/ call[b].index = run[b].size
       \/ \E r \in RowsOf(b) : r.index = call[b].index /\ stops(r)

Counts(b) == IF Completed(b) THEN run[b].counts ELSE call[b].counts

\* The counts are those of the rows before the index, at the end of all.
CountInv(b) ==
  LET S == IF Ending(b) THEN RowsOf(b)
           ELSE {r \in RowsOf(b) : r.index < call[b].index}
  IN call[b].pc \in Working \/ Completed(b) =>
       /\ CountsOf(Counts(b), S)
       /\ Cardinality(S) = IF Ending(b) THEN call[b].index ELSE call[b].index - 1

\* Without faults, an ERROR row has no request that outlives it.
CauseInv(b) ==
  faults = 0 =>
    /\ call[b].pc = "done" => Completed(b)
    /\ call[b].pc = "errorRow" =>
         /\ Stored(b) = 1 .. call[b].index - 1
         /\ \A q \in RecordedOf(b) : q.index = call[b].index => q.expiresAt <= now
    /\ \A r \in RowsOf(b), q \in RecordedOf(b) :
         q.index = r.index /\ r.verdict = Batch!Invalid => q.expiresAt <= now

RunInv(b) ==
  /\ StatusInv(b)
  /\ RowsInv(b)
  /\ BackedInv(b)
  /\ TalliedInv(b)
  /\ StopInv(b)
  /\ CountInv(b)
  /\ CauseInv(b)

\* Only retention deletes, and only what has expired.
RetentionInv ==
  /\ IsFiniteSet(written)
  /\ rows \subseteq written
  /\ \A q \in recorded : q \in requests \/ q.expiresAt <= now
  /\ \A p \in Processes : asOf[p] <= now

BatchInv ==
  /\ TypeOK
  /\ RetentionInv
  /\ \A b \in Runs : RunInv(b)
-----------------------------------------------------------------------------
(* Types.                                                                  *)

\* A lookup has a verdict, and it is not that of a row that failed.
LEMMA VerdictType ==
  ASSUME NEW found \in Findings
  PROVE  /\ Batch!VerdictOn(found) \in Batch!Verdict
         /\ Batch!VerdictOn(found) # Batch!Invalid
<1>1. found \in Batch!Found
  BY FindingsAssumption
<1>2. ASSUME found.direction = "BY_RECIPIENT"
      PROVE  /\ Batch!VerdictOn(found) \in Batch!Verdict
             /\ Batch!VerdictOn(found).outcome # "ERROR"
  BY <1>1, <1>2 DEF Batch!Found, Batch!VerdictOn, Batch!VerifyVerdict,
     Batch!Verdict, Batch!Risks, Batch!Refusal, Batch!Safe, Batch!Unsupported,
     Batch!Several
<1>3. ASSUME found.direction # "BY_RECIPIENT"
      PROVE  /\ Batch!VerdictOn(found) \in Batch!Verdict
             /\ Batch!VerdictOn(found).outcome # "ERROR"
  BY <1>1, <1>3 DEF Batch!Found, Batch!VerdictOn, Batch!ConfirmVerdict,
     Batch!Verdict, Batch!Risks, Batch!Refusal, Batch!Safe, Batch!Unsupported,
     Batch!Several
<1>. QED BY <1>2, <1>3 DEF Batch!Invalid, Batch!Refusal

LEMMA InvalidType == Batch!Invalid \in Batch!Verdict
  BY DEF Batch!Invalid, Batch!Refusal, Batch!Verdict, Batch!Risks

LEMMA IdleType ==
  /\ Batch!Idle \in Batch!Call
  /\ Batch!NoCounts \in [Batch!Categories -> Nat]
  BY InvalidType DEF Batch!Idle, Batch!Call, Batch!NoCounts

\* What a call stores is a record of its own row.
LEMMA EntryType ==
  ASSUME TypeOK, NEW b \in Runs, NEW verdict \in Batch!Verdict
  PROVE  /\ Batch!Entry(b, verdict) \in Batch!Record
         /\ Batch!Entry(b, verdict).run = b
         /\ Batch!Entry(b, verdict).index = call[b].index
         /\ Batch!Entry(b, verdict).verdict = verdict
<1>1. call[b] \in Batch!Call /\ now \in Nat
  BY DEF TypeOK, Batch!TypeOK
<1>2. Batch!ExpiryOf(b) \in Nat
  BY <1>1, OperationsAssumption DEF Batch!Call, Batch!ExpiryOf
<1>. QED BY <1>1, <1>2 DEF Batch!Entry, Batch!Record, Batch!Call

\* What a call holds after a statement is typed like what it held before.
LEMMA GoType ==
  ASSUME TypeOK, NEW b \in Runs, NEW s \in Batch!Call, Batch!Go(b, s)
  PROVE  /\ call' \in [Runs -> Batch!Call]
         /\ call'[b] = s
         /\ \A c \in Runs \ {b} : call'[c] = call[c]
  BY DEF TypeOK, Batch!TypeOK, Batch!Go

LEMMA MoveToType ==
  ASSUME TypeOK, NEW b \in Runs, NEW pc, Batch!MoveTo(b, pc),
         pc \in {"record", "signals", "row", "errorRow", "audit", "finish"}
  PROVE  /\ call' \in [Runs -> Batch!Call]
         /\ call'[b] = [call[b] EXCEPT !.pc = pc]
         /\ \A c \in Runs \ {b} : call'[c] = call[c]
<1>1. [call[b] EXCEPT !.pc = pc] \in Batch!Call
  BY DEF TypeOK, Batch!TypeOK, Batch!Call
<1>. QED BY <1>1, GoType DEF Batch!MoveTo

LEMMA EndType ==
  ASSUME TypeOK, NEW b \in Runs, Batch!End(b)
  PROVE  /\ call' \in [Runs -> Batch!Call]
         /\ call'[b].pc = "done"
         /\ call'[b].index = call[b].index
         /\ \A c \in Runs \ {b} : call'[c] = call[c]
<1> DEFINE s == [Batch!Idle EXCEPT !.pc = "done", !.index = call[b].index]
<1>1. s \in Batch!Call /\ s.pc = "done" /\ s.index = call[b].index
  BY IdleType DEF TypeOK, Batch!TypeOK, Batch!Call
<1>. QED BY <1>1, GoType DEF Batch!End

\* The category of a row, and that the counts of a run are about the same rows.
LEMMA CategoryType ==
  ASSUME NEW answered \in Batch!Verdict, NEW tallied \in Batch!Verdict
  PROVE  Batch!CategoryOf(answered, tallied) \in Batch!Categories
  BY DEF Batch!CategoryOf, Batch!Categories, Batch!Verdict

LEMMA CountedIsInCategory ==
  ASSUME TypeOK, NEW b \in Runs, NEW c \in Batch!Categories
  PROVE  Batch!Counted(b)[c] = InCategory(RowsOf(b), c)
<1>1. \A r \in RowsOf(b) : r.verdict \in Batch!Verdict
  BY DEF TypeOK, Batch!TypeOK, RowsOf, Batch!RowsOf, Batch!Record
<1>2. \A r \in RowsOf(b) :
        Batch!Dangerous(r.verdict) <=> r.verdict.risk # "LOW"
  BY <1>1 DEF Batch!Dangerous, Batch!Verdict, Batch!Risks
<1>3. CASE c = "verified"
  BY <1>3 DEF Batch!Counted, InCategory, RowsOf, Batch!CategoryOf
<1>4. CASE c = "unsupported"
  BY <1>1, <1>4 DEF Batch!Counted, InCategory, RowsOf, Batch!CategoryOf,
     Batch!Verdict
<1>5. CASE c = "blocked"
  BY <1>1, <1>2, <1>5 DEF Batch!Counted, InCategory, RowsOf, Batch!CategoryOf,
     Batch!Verdict
<1>6. CASE c = "warning"
  BY <1>1, <1>2, <1>6 DEF Batch!Counted, InCategory, RowsOf, Batch!CategoryOf,
     Batch!Verdict
<1>. QED BY <1>3, <1>4, <1>5, <1>6 DEF Batch!Categories

\* Counting one more row.
LEMMA CountOneMore ==
  ASSUME NEW S, IsFiniteSet(S), NEW r, r \notin S,
         r.verdict \in Batch!Verdict,
         NEW counts \in [Batch!Categories -> Nat], CountsOf(counts, S)
  PROVE  /\ CountsOf([counts EXCEPT
                        ![Batch!CategoryOf(r.verdict, r.verdict)] = @ + 1],
                     S \union {r})
         /\ Cardinality(S \union {r}) = Cardinality(S) + 1
<1> DEFINE k == Batch!CategoryOf(r.verdict, r.verdict)
           more == [counts EXCEPT ![k] = @ + 1]
<1>1. k \in Batch!Categories
  BY CategoryType
<1>2. ASSUME NEW c \in Batch!Categories
      PROVE  more[c] = Cardinality(InCategory(S \union {r}, c))
  <2>1. /\ IsFiniteSet(InCategory(S, c))
        /\ r \notin InCategory(S, c)
    BY FS_Subset DEF InCategory
  <2>2. CASE c = k
    <3>1. InCategory(S \union {r}, c) = InCategory(S, c) \union {r}
      BY <2>2 DEF InCategory
    <3>2. Cardinality(InCategory(S, c) \union {r}) =
            Cardinality(InCategory(S, c)) + 1
      BY <2>1, FS_AddElement
    <3>. QED BY <1>1, <2>2, <3>1, <3>2 DEF CountsOf
  <2>3. CASE c # k
    <3>1. InCategory(S \union {r}, c) = InCategory(S, c)
      BY <2>3 DEF InCategory
    <3>. QED BY <1>1, <2>3, <3>1 DEF CountsOf
  <2>. QED BY <2>2, <2>3
<1>3. CountsOf(more, S \union {r})
  BY <1>2 DEF CountsOf
<1>. QED BY <1>3, FS_AddElement
-----------------------------------------------------------------------------
(* The steps of a call keep the types.                                     *)

LEMMA StepType ==
  ASSUME TypeOK, NEW b \in Runs, Batch!Step(b)
  PROVE  Batch!TypeOK'
<1> USE DEF TypeOK, Batch!TypeOK
<1>. call[b] \in Batch!Call /\ run[b] \in Batch!Run
  OBVIOUS
<1>1. ASSUME NEW size \in 1 .. MaxRows, NEW stop \in BOOLEAN,
             Batch!Begin(b, size, stop)
      PROVE  Batch!TypeOK'
  <2>1. run' \in [Runs -> Batch!Run]
    <3>1. [status |-> "open", size |-> size, stop |-> stop,
           counts |-> Batch!NoCounts] \in Batch!Run
      BY IdleType, OperationsAssumption DEF Batch!Run
    <3>. QED BY <1>1, <3>1 DEF Batch!Begin
  <2>2. PICK expiry \in Batch!ExpiryModes :
          Batch!Go(b, [Batch!Idle EXCEPT !.pc = "evaluate", !.index = 1,
                                         !.expiresAt = expiry])
    BY <1>1 DEF Batch!Begin
  <2>3. expiry \in Nat \union {ByAge}
    BY OperationsAssumption DEF Batch!ExpiryModes
  <2>4. [Batch!Idle EXCEPT !.pc = "evaluate", !.index = 1,
                           !.expiresAt = expiry] \in Batch!Call
    BY <2>3, IdleType DEF Batch!Call
  <2>. QED BY <1>1, <2>1, <2>2, <2>4, GoType DEF Batch!Begin
<1>2. ASSUME Batch!Evaluate(b)
      PROVE  Batch!TypeOK'
  <2>1. PICK found \in Findings :
          Batch!Go(b, [call[b] EXCEPT !.pc = "record",
                                      !.found = Batch!VerdictOn(found)])
    BY <1>2 DEF Batch!Evaluate
  <2>2. [call[b] EXCEPT !.pc = "record",
                        !.found = Batch!VerdictOn(found)] \in Batch!Call
    BY VerdictType DEF Batch!Call
  <2>. QED BY <1>2, <2>1, <2>2, GoType DEF Batch!Evaluate
<1>3. ASSUME Batch!Unreadable(b)
      PROVE  Batch!TypeOK'
  BY <1>3, MoveToType DEF Batch!Unreadable
<1>4. ASSUME NEW verdict \in Batch!Verdict
      PROVE  /\ Batch!Keep(b, verdict) =>
                  rows' \subseteq Batch!Record /\ written' \subseteq Batch!Record
             /\ Batch!Store(b) =>
                  requests' \subseteq Batch!Record /\ recorded' \subseteq Batch!Record
  BY EntryType DEF Batch!Keep, Batch!Store, Batch!Call
<1>5. call[b].found \in Batch!Verdict
  BY DEF Batch!Call
<1>6. ASSUME Batch!RecordRequest(b)
      PROVE  Batch!TypeOK'
  <2>1. requests' \subseteq Batch!Record /\ recorded' \subseteq Batch!Record
    BY <1>4, <1>5, <1>6, EntryType DEF Batch!RecordRequest, Batch!Store
  <2>. QED BY <1>6, <2>1, MoveToType DEF Batch!RecordRequest
<1>7. ASSUME Batch!RecordSignals(b)
      PROVE  Batch!TypeOK'
  BY <1>7, MoveToType DEF Batch!RecordSignals
<1>8. ASSUME Batch!WriteRow(b)
      PROVE  Batch!TypeOK'
  <2>1. [call[b] EXCEPT !.pc = "audit", !.answered = call[b].found,
                        !.tallied = call[b].found] \in Batch!Call
    BY DEF Batch!Call
  <2>2. rows' \subseteq Batch!Record /\ written' \subseteq Batch!Record
    BY <1>4, <1>5, <1>8 DEF Batch!WriteRow
  <2>. QED BY <1>8, <2>1, <2>2, GoType DEF Batch!WriteRow
<1>9. ASSUME Batch!StatementFails(b)
      PROVE  Batch!TypeOK'
  <2>1. call' \in [Runs -> Batch!Call]
    BY <1>9, MoveToType DEF Batch!StatementFails
  <2>. QED BY <1>9, <2>1 DEF Batch!StatementFails
<1>10. ASSUME Batch!AnswerLost(b)
       PROVE  Batch!TypeOK'
  <2>1. /\ rows' \subseteq Batch!Record /\ written' \subseteq Batch!Record
        /\ requests' \subseteq Batch!Record /\ recorded' \subseteq Batch!Record
    BY <1>4, <1>5, <1>10, EntryType DEF Batch!AnswerLost, Batch!Store
  <2>2. call' \in [Runs -> Batch!Call]
    BY <1>10, MoveToType DEF Batch!AnswerLost
  <2>. QED BY <1>10, <2>1, <2>2 DEF Batch!AnswerLost
<1>11. ASSUME Batch!WriteErrorRow(b)
       PROVE  Batch!TypeOK'
  <2>1. CASE \E r \in rows : r.run = b /\ r.index = call[b].index
    BY <1>11, <2>1, EndType DEF Batch!WriteErrorRow
  <2>2. CASE ~\E r \in rows : r.run = b /\ r.index = call[b].index
    <3>1. [call[b] EXCEPT !.pc = "audit", !.answered = Batch!Invalid]
            \in Batch!Call
      BY InvalidType DEF Batch!Call
    <3>2. rows' \subseteq Batch!Record /\ written' \subseteq Batch!Record
      BY <1>4, <1>11, <2>2, InvalidType DEF Batch!WriteErrorRow
    <3>. QED BY <1>11, <2>2, <3>1, <3>2, GoType DEF Batch!WriteErrorRow
  <2>. QED BY <2>1, <2>2
<1>12. ASSUME Batch!AuditRow(b)
       PROVE  Batch!TypeOK'
  <2> DEFINE s == call[b]
             k == Batch!CategoryOf(s.answered, s.tallied)
             counts == [s.counts EXCEPT ![k] = @ + 1]
             stop == [s EXCEPT !.pc = "finish", !.counts = counts]
             next == [Batch!Idle EXCEPT !.pc = "evaluate", !.index = s.index + 1,
                        !.counts = counts, !.tallied = Batch!Presumed(b),
                        !.expiresAt = s.expiresAt]
  <2>0. k \in Batch!Categories /\ s.counts \in [Batch!Categories -> Nat]
    BY CategoryType DEF Batch!Call
  <2>1. counts \in [Batch!Categories -> Nat]
    BY <2>0
  <2>2. stop \in Batch!Call
    BY <2>1 DEF Batch!Call
  <2>3. next \in Batch!Call
    <3>1. s.index + 1 \in Nat /\ s.expiresAt \in Nat \union {ByAge}
      BY DEF Batch!Call
    <3>2. Batch!Presumed(b) \in Batch!Verdict
      BY InvalidType DEF Batch!Presumed
    <3>. HIDE DEF counts
    <3>. QED BY <2>1, <3>1, <3>2, IdleType DEF Batch!Call
  <2>4. Batch!Go(b, stop) \/ Batch!Go(b, next)
    BY <1>12 DEF Batch!AuditRow
  <2>5. call' \in [Runs -> Batch!Call]
    BY <2>2, <2>3, <2>4, GoType
  <2>. QED BY <1>12, <2>5 DEF Batch!AuditRow
<1>13. ASSUME Batch!Finish(b)
       PROVE  Batch!TypeOK'
  <2>1. run' \in [Runs -> Batch!Run]
    BY <1>13 DEF Batch!Finish, Batch!Run, Batch!Call
  <2>. QED BY <1>13, <2>1, EndType DEF Batch!Finish
<1>14. ASSUME Batch!Interrupt(b)
       PROVE  Batch!TypeOK'
  BY <1>14, EndType DEF Batch!Interrupt
<1>. QED BY <1>1, <1>2, <1>3, <1>6, <1>7, <1>8, <1>9, <1>10, <1>11, <1>12,
        <1>13, <1>14 DEF Batch!Step
\* The statements of a tick keep the types.
LEMMA TickType ==
  ASSUME TypeOK, NEW p \in Processes, StartTick(p) \/ DoJob(p) \/ TickFails(p)
  PROVE  TypeOK'
<1> USE DEF TypeOK
<1>1. ASSUME StartTick(p)
      PROVE  TypeOK'
  BY <1>1 DEF StartTick, Jobs, Batch!TypeOK, Audit!TypeOK, batchTables
<1>2. ASSUME TickFails(p)
      PROVE  TypeOK'
  <2>1. Batch!TypeOK' /\ Audit!TypeOK'
    BY <1>2 DEF TickFails, Batch!TypeOK, Audit!TypeOK, batchTables
  <2>. QED BY <1>2, <2>1 DEF TickFails, StillProcessing
<1>3. ASSUME DoJob(p)
      PROVE  TypeOK'
  <2>1. /\ job' \in [Processes -> Jobs \union {"idle"}]
        /\ processing' \in [Processes -> BOOLEAN]
    <3>1. \A j \in Jobs : After(j) \in Jobs \union {"idle"}
      BY DEF After, Jobs
    <3>2. (job[p] # "deliveries") \in BOOLEAN
      OBVIOUS
    <3>. QED BY <1>3, <3>1, <3>2 DEF DoJob
  <2>2. asOf' \in [Processes -> Nat]
    BY <1>3 DEF DoJob, Batch!TypeOK
  <2>3. CASE job[p] = "rows"
    <3>1. Batch!CleanRows(now) /\ UNCHANGED exports
      BY <1>3, <2>3 DEF DoJob, Work
    <3>2. Batch!TypeOK'
      BY <3>1 DEF Batch!CleanRows, Batch!Kept, Batch!TypeOK
    <3>. QED BY <2>1, <2>2, <3>1, <3>2 DEF Audit!TypeOK
  <2>4. CASE job[p] = "requests"
    <3>1. Batch!CleanRequests(asOf[p]) /\ UNCHANGED exports
      BY <1>3, <2>4 DEF DoJob, Work
    <3>2. Batch!TypeOK'
      BY <3>1 DEF Batch!CleanRequests, Batch!Kept, Batch!TypeOK
    <3>. QED BY <2>1, <2>2, <3>1, <3>2 DEF Audit!TypeOK
  <2>5. CASE job[p] = "exports"
    <3>1. Audit!CleanExports /\ UNCHANGED <<batchTables, faults>>
      BY <1>3, <2>5 DEF DoJob, Work
    <3>. \A x \in Exports : /\ exports[x] \in Audit!Export
                           /\ Audit!Emptied(exports[x]) \in Audit!Export
      BY DEF Audit!Emptied, Audit!TypeOK, Audit!Export
    <3>2. Audit!TypeOK'
      BY <3>1 DEF Audit!CleanExports, Audit!TypeOK
    <3>3. Batch!TypeOK'
      BY <3>1 DEF Audit!CleanExports, batchTables, Batch!TypeOK
    <3>. QED BY <2>1, <2>2, <3>2, <3>3
  <2>6. CASE job[p] \notin {"rows", "requests", "exports"}
    <3>1. UNCHANGED <<batchTables, exports, now, faults>>
      BY <1>3, <2>6 DEF DoJob, Work
    <3>. QED BY <2>1, <2>2, <3>1 DEF batchTables, Batch!TypeOK, Audit!TypeOK
  <2>. QED BY <2>3, <2>4, <2>5, <2>6
<1>. QED BY <1>1, <1>2, <1>3

LEMMA NextType ==
  ASSUME TypeOK, [Next]_vars
  PROVE  TypeOK'
<1>1. ASSUME NEW p \in Processes, StartTick(p) \/ DoJob(p) \/ TickFails(p)
      PROVE  TypeOK'
  BY <1>1, TickType
<1>2. ASSUME NEW b \in Runs, BatchStep(b)
      PROVE  TypeOK'
  <2>1. Batch!TypeOK'
    BY <1>2, StepType DEF BatchStep
  <2>. QED BY <1>2, <2>1 DEF BatchStep, tick, TypeOK, Audit!TypeOK
<1>3. ASSUME AuditStep
      PROVE  TypeOK'
  <2>1. PICK x \in Exports : Audit!CreateExport(x) \/ Audit!ExpireOnDownload(x)
    BY <1>3 DEF AuditStep
  <2>2. now + ExportTtl \in Nat
    BY OperationsAssumption DEF TypeOK, Batch!TypeOK
  <2>3. Audit!TypeOK'
    <3>1. CASE Audit!CreateExport(x)
      BY <2>2, <3>1 DEF TypeOK, Audit!TypeOK, Audit!CreateExport, Audit!Export
    <3>2. CASE Audit!ExpireOnDownload(x)
      BY <3>2 DEF TypeOK, Audit!TypeOK, Audit!ExpireOnDownload, Audit!Emptied,
         Audit!Export
    <3>. QED BY <2>1, <3>1, <3>2
  <2>4. UNCHANGED now
    BY <2>1 DEF Audit!CreateExport, Audit!ExpireOnDownload
  <2>. QED BY <1>3, <2>3, <2>4 DEF AuditStep, TypeOK, Batch!TypeOK, batchTables,
          tick
<1>4. ASSUME TimePasses
      PROVE  TypeOK'
  BY <1>4 DEF TimePasses, TypeOK, Batch!TypeOK, Audit!TypeOK, batchTables, tick
<1>5. ASSUME UNCHANGED vars
      PROVE  TypeOK'
  BY <1>5 DEF vars, TypeOK, Batch!TypeOK, Audit!TypeOK, batchTables, tick
<1>. QED BY <1>1, <1>2, <1>3, <1>4, <1>5 DEF Next

-----------------------------------------------------------------------------
(* What a step does to the rows and requests of a run.                     *)

\* A row is stored when no other is: it replaces none that retention has left.
LEMMA KeepRows ==
  ASSUME TypeOK, RetentionInv, NEW b \in Runs, NEW verdict \in Batch!Verdict,
         Batch!Keep(b, verdict),
         \A r \in rows : ~(r.run = b /\ r.index = call[b].index)
  PROVE  /\ RowsOf(b)' = {r \in RowsOf(b) : r.index # call[b].index}
                           \union {Batch!Entry(b, verdict)}
         /\ \A c \in Runs \ {b} : RowsOf(c)' = RowsOf(c)
         /\ IsFiniteSet(written')
         /\ rows' \subseteq written'
<1>1. Batch!Entry(b, verdict).run = b
  BY EntryType
<1>2. IsFiniteSet(written')
  <2>1. IsFiniteSet({r \in written : r.run # b \/ r.index # call[b].index})
    BY FS_Subset DEF RetentionInv
  <2>. QED BY <2>1, FS_AddElement DEF Batch!Keep
<1>3. rows' \subseteq written'
  BY DEF Batch!Keep, RetentionInv
<1>4. RowsOf(b)' = {r \in RowsOf(b) : r.index # call[b].index}
                     \union {Batch!Entry(b, verdict)}
  BY <1>1 DEF Batch!Keep, RowsOf, Batch!RowsOf
<1>5. \A c \in Runs \ {b} : RowsOf(c)' = RowsOf(c)
  BY <1>1 DEF Batch!Keep, RowsOf, Batch!RowsOf
<1>. QED BY <1>2, <1>3, <1>4, <1>5

LEMMA StoreRequest ==
  ASSUME TypeOK, RetentionInv, NEW b \in Runs, Batch!Store(b), UNCHANGED now
  PROVE  /\ RecordedOf(b)' =
              RecordedOf(b) \union {Batch!Entry(b, call[b].found)}
         /\ \A c \in Runs \ {b} : RecordedOf(c)' = RecordedOf(c)
         /\ \A q \in recorded' : q \in requests' \/ q.expiresAt <= now'
<1>1. Batch!Entry(b, call[b].found).run = b
  BY EntryType DEF TypeOK, Batch!TypeOK, Batch!Call
<1>. QED BY <1>1 DEF Batch!Store, RetentionInv, RecordedOf

\* The invariant of a run that a step leaves alone.
LEMMA RunFrame ==
  ASSUME TypeOK, TypeOK', NEW b \in Runs, RunInv(b),
         call'[b] = call[b], run'[b] = run[b],
         RowsOf(b)' = RowsOf(b), RecordedOf(b)' = RecordedOf(b),
         now <= now', faults <= faults'
  PROVE  RunInv(b)'
<1>1. (call[b])' = call[b] /\ (run[b])' = run[b]
  OBVIOUS
<1>2. faults' = 0 => faults = 0
  BY DEF TypeOK, Batch!TypeOK
<1>3. \A q \in RecordedOf(b) : q.expiresAt <= now => q.expiresAt <= now'
  <2>1. \A q \in RecordedOf(b) : q.expiresAt \in Nat
    BY DEF TypeOK, Batch!TypeOK, Batch!Record, RecordedOf
  <2>. QED BY <2>1 DEF TypeOK, Batch!TypeOK
<1>4. (Completed(b) <=> Completed(b)') /\ Stored(b)' = Stored(b)
  BY <1>1 DEF Completed, Stored
<1>5. CauseInv(b)'
  BY <1>1, <1>2, <1>3, <1>4 DEF RunInv, CauseInv
<1>6. StatusInv(b)' /\ RowsInv(b)'
  BY <1>1, <1>4 DEF RunInv, StatusInv, RowsInv, Ending
<1>7. BackedInv(b)' /\ TalliedInv(b)' /\ StopInv(b)'
  BY <1>1, <1>4 DEF RunInv, BackedInv, TalliedInv, StopInv, Ending
<1>8. CountInv(b)'
  BY <1>1, <1>4 DEF RunInv, CountInv, Ending, Counts
<1>. QED BY <1>5, <1>6, <1>7, <1>8 DEF RunInv
-----------------------------------------------------------------------------
(* Each statement of a call preserves the invariant of its run.            *)

LEMMA RunTypes ==
  ASSUME TypeOK, NEW b \in Runs
  PROVE  /\ call[b] \in Batch!Call
         /\ call[b].index \in Nat
         /\ call[b].counts \in [Batch!Categories -> Nat]
         /\ call[b].found \in Batch!Verdict
         /\ run[b] \in Batch!Run
         /\ run[b].size \in Nat
         /\ faults \in Nat /\ now \in Nat
         /\ \A r \in RowsOf(b) : r.index \in Nat /\ r.verdict \in Batch!Verdict
         /\ \A q \in RecordedOf(b) : q.index \in Nat /\ q.expiresAt \in Nat
  BY DEF TypeOK, Batch!TypeOK, Batch!Call, Batch!Run, Batch!Record, RowsOf,
     Batch!RowsOf, RecordedOf

\* A statement that stores no row, from one point of the try to another.
LEMMA WithinTry ==
  ASSUME TypeOK, NEW b \in Runs, RunInv(b), call[b].pc \in Trying,
         call'[b].pc \in Trying \union {"errorRow"},
         call'[b].index = call[b].index,
         call'[b].tallied = call[b].tallied,
         call'[b].counts = call[b].counts,
         run'[b] = run[b], RowsOf(b)' = RowsOf(b)
  PROVE  StatusInv(b)' /\ RowsInv(b)' /\ TalliedInv(b)' /\ StopInv(b)' /\ CountInv(b)'
<1>1. run[b].status = "open" /\ ~Completed(b) /\ ~Completed(b)' /\ ~Ending(b)
      /\ ~Ending(b)'
  BY DEF RunInv, StatusInv, Completed, Ending, Trying, Working
<1>2. StatusInv(b)'
  BY <1>1 DEF RunInv, StatusInv, Trying, Working
<1>3. Stored(b)' = Stored(b) /\ Stored(b) = 1 .. call[b].index - 1
  BY DEF RunInv, RowsInv, Stored
<1>4. RowsInv(b)'
  BY <1>1, <1>3 DEF RunInv, RowsInv, Trying
<1>5. TalliedInv(b)' /\ StopInv(b)'
  BY <1>1 DEF RunInv, TalliedInv, StopInv, Trying, Working
<1>6. CountInv(b)'
  BY <1>1 DEF RunInv, CountInv, Counts, Trying, Working
<1>. QED BY <1>2, <1>4, <1>5, <1>6

\* The call ends, and leaves its run open.
LEMMA EndsOpen ==
  ASSUME TypeOK, NEW b \in Runs, RunInv(b), call[b].pc \notin {"idle", "done"},
         Batch!End(b), faults' # 0, run'[b] = run[b],
         RowsOf(b)' = RowsOf(b), RecordedOf(b)' = RecordedOf(b)
  PROVE  RunInv(b)'
<1>1. call'[b].pc = "done" /\ call'[b].index = call[b].index
  BY EndType
<1>2. ~Completed(b) /\ ~Completed(b)' /\ ~Ending(b)'
  BY <1>1 DEF RunInv, StatusInv, Completed, Ending
<1>3. StatusInv(b)' /\ TalliedInv(b)' /\ StopInv(b)' /\ CountInv(b)' /\ CauseInv(b)'
  BY <1>1, <1>2 DEF StatusInv, TalliedInv, StopInv, CountInv, CauseInv, Trying,
     Working
<1>4. RowsInv(b)' /\ BackedInv(b)'
  BY <1>1, <1>2 DEF RunInv, RowsInv, BackedInv, Trying
<1>. QED BY <1>3, <1>4 DEF RunInv

\* A statement that stores the row at the index.
LEMMA KeepInv ==
  ASSUME TypeOK, RetentionInv, NEW b \in Runs, RunInv(b),
         call[b].pc \in Trying \union {"errorRow"},
         NEW verdict \in Batch!Verdict, Batch!Keep(b, verdict),
         \A r \in rows : ~(r.run = b /\ r.index = call[b].index),
         verdict = Batch!Invalid \/
           \E q \in RecordedOf(b) : q.index = call[b].index /\ q.verdict = verdict,
         call'[b].pc \in {"errorRow", "audit"},
         call'[b].index = call[b].index,
         call'[b].counts = call[b].counts,
         run'[b] = run[b], RecordedOf(b)' = RecordedOf(b)
  PROVE  /\ StatusInv(b)' /\ RowsInv(b)' /\ BackedInv(b)' /\ StopInv(b)'
         /\ CountInv(b)'
         /\ \A r \in RowsOf(b)' :
              \/ r \in RowsOf(b) /\ r.index # call[b].index
              \/ r.index = call[b].index /\ r.verdict = verdict
         /\ \E r \in RowsOf(b)' : r.index = call[b].index /\ r.verdict = verdict
<1> DEFINE i == call[b].index
           e == Batch!Entry(b, verdict)
<1>1. e.index = i /\ e.verdict = verdict
  BY EntryType
<1>2. RowsOf(b)' = {r \in RowsOf(b) : r.index # i} \union {e}
  BY KeepRows
<1>3. i \in Nat \ {0} /\ \A r \in RowsOf(b) : r.index \in Nat
  BY RunTypes DEF RunInv, StatusInv, Working, Trying
<1>4. Stored(b) \in {1 .. i - 1, 1 .. i}
  BY DEF RunInv, RowsInv
<1>5. /\ run[b].status = "open" /\ ~Completed(b) /\ ~Completed(b)'
      /\ ~Ending(b) /\ ~Ending(b)'
  BY DEF RunInv, StatusInv, Completed, Ending, Trying, Working
<1>. HIDE DEF e
<1>6. StatusInv(b)'
  BY <1>5 DEF RunInv, StatusInv, Trying, Working
<1>7. \A r \in RowsOf(b) : r.index <= i
  BY <1>3, <1>4 DEF Stored
<1>8. Stored(b)' = 1 .. i
  <2>1. \A r \in RowsOf(b)' : r.index \in 1 .. i
    BY <1>1, <1>2, <1>3, <1>4 DEF Stored
  <2>2. ASSUME NEW k \in 1 .. i
        PROVE  \E r \in RowsOf(b)' : r.index = k
    BY <1>1, <1>2, <1>3, <1>4 DEF Stored
  <2>. QED BY <2>1, <2>2 DEF Stored
<1>9. \A r1, r2 \in RowsOf(b)' : r1.index = r2.index => r1 = r2
  BY <1>1, <1>2 DEF RunInv, RowsInv
<1>10. RowsInv(b)'
  BY <1>5, <1>8, <1>9 DEF RowsInv, Trying
<1>11. BackedInv(b)'
  BY <1>1, <1>2 DEF RunInv, BackedInv
<1>12. {r \in RowsOf(b)' : r.index < i} = {r \in RowsOf(b) : r.index < i}
  BY <1>1, <1>2, <1>3
<1>13. StopInv(b)'
  BY <1>5, <1>12 DEF RunInv, StopInv, Trying, Working
<1>14. CountInv(b)'
  BY <1>5, <1>12 DEF RunInv, CountInv, Counts, Trying, Working
<1>. QED BY <1>1, <1>2, <1>6, <1>10, <1>11, <1>13, <1>14
LEMMA BeginRun ==
  ASSUME BatchInv, TypeOK', NEW b \in Runs,
         NEW size \in 1 .. MaxRows, NEW stop \in BOOLEAN, Batch!Begin(b, size, stop)
  PROVE  RunInv(b)'
<1>1. /\ run'[b].status = "open" /\ run'[b].size = size
      /\ UNCHANGED <<rows, requests, written, recorded, now, faults>>
  BY DEF Batch!Begin, BatchInv, TypeOK, Batch!TypeOK
<1>2. PICK expiry \in Batch!ExpiryModes :
        Batch!Go(b, [Batch!Idle EXCEPT !.pc = "evaluate", !.index = 1,
                                       !.expiresAt = expiry])
  BY DEF Batch!Begin
<1>3. /\ call'[b].pc = "evaluate" /\ call'[b].index = 1
      /\ call'[b].tallied = Batch!Invalid /\ call'[b].counts = Batch!NoCounts
  BY <1>2 DEF BatchInv, TypeOK, Batch!TypeOK, Batch!Go, Batch!Idle
<1>4. call[b].pc = "idle" /\ call[b].index = 0
  BY DEF Batch!Begin, Batch!At, BatchInv, RunInv, StatusInv
<1>5. ~Completed(b)' /\ ~Ending(b)'
  BY <1>1, <1>3 DEF Completed, Ending
<1>6. RowsOf(b)' = {} /\ RecordedOf(b)' = {}
  <2>1. RowsOf(b)' = RowsOf(b) /\ RecordedOf(b)' = RecordedOf(b)
    BY <1>1 DEF RowsOf, Batch!RowsOf, RecordedOf
  <2>2. Stored(b) = {}
    BY <1>4 DEF BatchInv, RunInv, RowsInv
  <2>3. RecordedOf(b) = {}
    BY <1>4, RunTypes DEF BatchInv, RunInv, BackedInv
  <2>. QED BY <2>1, <2>2, <2>3 DEF Stored
<1>7. StatusInv(b)'
  BY <1>1, <1>3, <1>5, OperationsAssumption DEF StatusInv
<1>8. RowsInv(b)' /\ BackedInv(b)' /\ TalliedInv(b)' /\ StopInv(b)'
  BY <1>3, <1>5, <1>6 DEF RowsInv, BackedInv, TalliedInv, StopInv, Stored
<1>9. CountInv(b)'
  <2>1. \A c \in Batch!Categories : InCategory({}, c) = {}
    BY DEF InCategory
  <2>2. CountsOf(Batch!NoCounts, {})
    BY <2>1, FS_EmptySet DEF CountsOf, Batch!NoCounts
  <2>3. Counts(b)' = Batch!NoCounts
    BY <1>3, <1>5 DEF Counts
  <2>4. Cardinality({}) = 0
    BY FS_EmptySet
  <2>5. ~Ending(b)' /\ (call[b].index)' = 1
    BY <1>3, <1>5
  <2>6. {r \in RowsOf(b) : r.index < call[b].index}' = {}
    BY <1>6
  <2>. QED BY <2>2, <2>3, <2>4, <2>5, <2>6 DEF CountInv
<1>10. CauseInv(b)'
  BY <1>3, <1>6 DEF CauseInv
<1>. QED BY <1>7, <1>8, <1>9, <1>10 DEF RunInv

LEMMA EvaluateRun ==
  ASSUME BatchInv, TypeOK', NEW b \in Runs, Batch!Evaluate(b) \/ Batch!Unreadable(b)
  PROVE  RunInv(b)'
<1>1. /\ call[b].pc = "evaluate"
      /\ UNCHANGED <<run, rows, requests, written, recorded, now, faults>>
  BY DEF Batch!Evaluate, Batch!Unreadable, Batch!At
<1>2. RowsOf(b)' = RowsOf(b) /\ RecordedOf(b)' = RecordedOf(b)
  BY <1>1 DEF RowsOf, Batch!RowsOf, RecordedOf
<1>3. /\ call'[b].index = call[b].index /\ call'[b].tallied = call[b].tallied
      /\ call'[b].counts = call[b].counts
      /\ \/ call'[b].pc = "record" /\ call'[b].found # Batch!Invalid
         \/ call'[b].pc = "errorRow"
  <2>1. CASE Batch!Evaluate(b)
    <3>1. PICK found \in Findings :
            Batch!Go(b, [call[b] EXCEPT !.pc = "record",
                                        !.found = Batch!VerdictOn(found)])
      BY <2>1 DEF Batch!Evaluate
    <3>. QED BY <3>1, VerdictType DEF BatchInv, TypeOK, Batch!TypeOK, Batch!Go,
            Batch!Call
  <2>2. CASE Batch!Unreadable(b)
    BY <2>2 DEF Batch!Unreadable, Batch!MoveTo, BatchInv, TypeOK, Batch!TypeOK,
       Batch!Go, Batch!Call
  <2>. QED BY <2>1, <2>2
<1>4. StatusInv(b)' /\ RowsInv(b)' /\ TalliedInv(b)' /\ StopInv(b)' /\ CountInv(b)'
  BY <1>1, <1>2, <1>3, WithinTry DEF BatchInv, Trying
<1>5. BackedInv(b)'
  BY <1>1, <1>2, <1>3, RunTypes DEF BatchInv, RunInv, BackedInv
<1>6. CauseInv(b)'
  <2>1. \A q \in RecordedOf(b) : q.index # call[b].index
    BY <1>1, RunTypes DEF BatchInv, RunInv, BackedInv
  <2>2. Stored(b)' = 1 .. call[b].index - 1
    BY <1>1, <1>2 DEF BatchInv, RunInv, RowsInv, Stored, Trying
  <2>. QED BY <1>1, <1>2, <1>3, <2>1, <2>2 DEF BatchInv, RunInv, CauseInv
<1>. QED BY <1>4, <1>5, <1>6 DEF RunInv

LEMMA RecordRun ==
  ASSUME BatchInv, TypeOK', NEW b \in Runs, Batch!RecordRequest(b)
  PROVE  RunInv(b)'
<1> DEFINE e == Batch!Entry(b, call[b].found)
<1>1. /\ call[b].pc = "record"
      /\ UNCHANGED <<run, rows, written, now, faults>>
  BY DEF Batch!RecordRequest, Batch!At
<1>2. RowsOf(b)' = RowsOf(b) /\ RecordedOf(b)' = RecordedOf(b) \union {e}
  BY <1>1, StoreRequest DEF Batch!RecordRequest, RowsOf, Batch!RowsOf, BatchInv
<1>3. e.index = call[b].index /\ e.verdict = call[b].found
  BY EntryType, RunTypes DEF BatchInv
<1>4. /\ call'[b].index = call[b].index /\ call'[b].tallied = call[b].tallied
      /\ call'[b].counts = call[b].counts /\ call'[b].found = call[b].found
      /\ call'[b].pc \in {"signals", "row"}
  BY DEF Batch!RecordRequest, Batch!MoveTo, BatchInv, TypeOK, Batch!TypeOK,
     Batch!Go, Batch!Call
<1>. HIDE DEF e
<1>5. StatusInv(b)' /\ RowsInv(b)' /\ TalliedInv(b)' /\ StopInv(b)' /\ CountInv(b)'
  BY <1>1, <1>2, <1>4, WithinTry DEF BatchInv, Trying
<1>6. BackedInv(b)'
  <2>1. \A q \in RecordedOf(b) : q.index < call[b].index /\ q.index \in Nat
    BY <1>1, RunTypes DEF BatchInv, RunInv, BackedInv
  <2>. QED BY <1>1, <1>2, <1>3, <1>4, <2>1, RunTypes
          DEF BatchInv, RunInv, BackedInv
<1>7. CauseInv(b)'
  <2>1. \A r \in RowsOf(b) : r.index # call[b].index
    <3>1. Stored(b) = 1 .. call[b].index - 1
      BY <1>1 DEF BatchInv, RunInv, RowsInv, Trying
    <3>. QED BY <3>1, RunTypes DEF BatchInv, Stored
  <2>. QED BY <1>1, <1>2, <1>3, <1>4, <2>1 DEF BatchInv, RunInv, CauseInv
<1>. QED BY <1>5, <1>6, <1>7 DEF RunInv

\* A request that is not there any more has expired.
LEMMA SignalsRun ==
  ASSUME BatchInv, TypeOK', NEW b \in Runs, Batch!RecordSignals(b)
  PROVE  RunInv(b)'
<1>1. /\ call[b].pc = "signals"
      /\ UNCHANGED <<run, rows, requests, written, recorded, now, faults>>
  BY DEF Batch!RecordSignals, Batch!At
<1>2. RowsOf(b)' = RowsOf(b) /\ RecordedOf(b)' = RecordedOf(b)
  BY <1>1 DEF RowsOf, Batch!RowsOf, RecordedOf
<1>3. /\ call'[b].index = call[b].index /\ call'[b].tallied = call[b].tallied
      /\ call'[b].counts = call[b].counts /\ call'[b].found = call[b].found
      /\ call'[b].pc \in {"row", "errorRow"}
      /\ call'[b].pc = "errorRow" => ~Batch!HasRequest(b)
  BY DEF Batch!RecordSignals, Batch!MoveTo, BatchInv, TypeOK, Batch!TypeOK,
     Batch!Go, Batch!Call
<1>4. StatusInv(b)' /\ RowsInv(b)' /\ TalliedInv(b)' /\ StopInv(b)' /\ CountInv(b)'
  BY <1>1, <1>2, <1>3, WithinTry DEF BatchInv, Trying
<1>5. BackedInv(b)'
  BY <1>1, <1>2, <1>3 DEF BatchInv, RunInv, BackedInv
<1>6. CauseInv(b)'
  <2>1. ~Batch!HasRequest(b) =>
          \A q \in RecordedOf(b) : q.index = call[b].index => q.expiresAt <= now
    BY DEF BatchInv, RetentionInv, Batch!HasRequest, RecordedOf
  <2>2. Stored(b)' = 1 .. call[b].index - 1
    BY <1>1, <1>2 DEF BatchInv, RunInv, RowsInv, Stored, Trying
  <2>. QED BY <1>1, <1>2, <1>3, <2>1, <2>2 DEF BatchInv, RunInv, CauseInv
<1>. QED BY <1>4, <1>5, <1>6 DEF RunInv
\* No row of a try is stored yet: rows can be deleted, but not come back.
LEMMA NothingStored ==
  ASSUME TypeOK, RetentionInv, NEW b \in Runs, RunInv(b), call[b].pc \in Trying
  PROVE  /\ \A r \in RowsOf(b) : r.index # call[b].index
         /\ \A r \in rows : ~(r.run = b /\ r.index = call[b].index)
<1>1. Stored(b) = 1 .. call[b].index - 1
  BY DEF RunInv, RowsInv
<1>2. \A r \in RowsOf(b) : r.index # call[b].index
  BY <1>1, RunTypes DEF Stored
<1>. QED BY <1>2 DEF RetentionInv, RowsOf, Batch!RowsOf

LEMMA WriteRowRun ==
  ASSUME BatchInv, TypeOK', NEW b \in Runs, Batch!WriteRow(b)
  PROVE  RunInv(b)'
<1>1. /\ call[b].pc = "row" /\ Batch!Keep(b, call[b].found)
      /\ UNCHANGED <<run, requests, recorded, now, faults>>
  BY DEF Batch!WriteRow, Batch!At
<1>2. /\ call'[b].pc = "audit" /\ call'[b].index = call[b].index
      /\ call'[b].counts = call[b].counts
      /\ call'[b].answered = call[b].found /\ call'[b].tallied = call[b].found
  BY DEF Batch!WriteRow, BatchInv, TypeOK, Batch!TypeOK, Batch!Go, Batch!Call
<1>3. RecordedOf(b)' = RecordedOf(b)
  BY <1>1 DEF RecordedOf
<1>4. /\ \E q \in RecordedOf(b) :
            q.index = call[b].index /\ q.verdict = call[b].found
      /\ call[b].found # Batch!Invalid
  BY <1>1 DEF BatchInv, RunInv, BackedInv
<1>5. /\ StatusInv(b)' /\ RowsInv(b)' /\ BackedInv(b)' /\ StopInv(b)' /\ CountInv(b)'
      /\ \A r \in RowsOf(b)' :
           \/ r \in RowsOf(b) /\ r.index # call[b].index
           \/ r.index = call[b].index /\ r.verdict = call[b].found
      /\ \E r \in RowsOf(b)' : r.index = call[b].index /\ r.verdict = call[b].found
  BY <1>1, <1>2, <1>3, <1>4, KeepInv, NothingStored, RunTypes DEF BatchInv, Trying
<1>6. TalliedInv(b)'
  BY <1>2, <1>5 DEF TalliedInv, Trying
<1>7. CauseInv(b)'
  BY <1>1, <1>2, <1>3, <1>4, <1>5 DEF BatchInv, RunInv, CauseInv
<1>. QED BY <1>5, <1>6, <1>7 DEF RunInv

LEMMA FailRun ==
  ASSUME BatchInv, TypeOK', NEW b \in Runs, Batch!StatementFails(b)
  PROVE  RunInv(b)'
<1>1. /\ call[b].pc \in Trying
      /\ UNCHANGED <<run, rows, requests, written, recorded, now>>
  BY DEF Batch!StatementFails, Trying
<1>2. RowsOf(b)' = RowsOf(b) /\ RecordedOf(b)' = RecordedOf(b)
  BY <1>1 DEF RowsOf, Batch!RowsOf, RecordedOf
<1>3. /\ call'[b].index = call[b].index /\ call'[b].tallied = call[b].tallied
      /\ call'[b].counts = call[b].counts /\ call'[b].pc = "errorRow"
  BY DEF Batch!StatementFails, Batch!MoveTo, BatchInv, TypeOK, Batch!TypeOK,
     Batch!Go, Batch!Call
<1>4. StatusInv(b)' /\ RowsInv(b)' /\ TalliedInv(b)' /\ StopInv(b)' /\ CountInv(b)'
  BY <1>1, <1>2, <1>3, WithinTry DEF BatchInv
<1>5. BackedInv(b)'
  BY <1>2, <1>3 DEF BatchInv, RunInv, BackedInv
<1>6. faults' # 0
  BY RunTypes DEF Batch!StatementFails, BatchInv
<1>. QED BY <1>4, <1>5, <1>6 DEF RunInv, CauseInv

LEMMA AnswerLostRun ==
  ASSUME BatchInv, TypeOK', NEW b \in Runs, Batch!AnswerLost(b)
  PROVE  RunInv(b)'
<1>1. UNCHANGED <<run, now>> /\ faults' # 0
  BY RunTypes DEF Batch!AnswerLost, BatchInv
<1>2. /\ call'[b].index = call[b].index /\ call'[b].tallied = call[b].tallied
      /\ call'[b].counts = call[b].counts /\ call'[b].pc = "errorRow"
  BY DEF Batch!AnswerLost, Batch!MoveTo, BatchInv, TypeOK, Batch!TypeOK,
     Batch!Go, Batch!Call
<1>3. CauseInv(b)'
  BY <1>1 DEF CauseInv
<1>4. CASE Batch!At(b, "record") /\ Batch!Store(b) /\ UNCHANGED <<rows, written>>
  <2> DEFINE e == Batch!Entry(b, call[b].found)
  <2>1. call[b].pc = "record"
    BY <1>4 DEF Batch!At
  <2>2. RowsOf(b)' = RowsOf(b) /\ RecordedOf(b)' = RecordedOf(b) \union {e}
    BY <1>1, <1>4, StoreRequest DEF RowsOf, Batch!RowsOf, BatchInv
  <2>3. e.index = call[b].index
    BY EntryType, RunTypes DEF BatchInv
  <2>. HIDE DEF e
  <2>4. StatusInv(b)' /\ RowsInv(b)' /\ TalliedInv(b)' /\ StopInv(b)' /\ CountInv(b)'
    BY <1>1, <1>2, <2>1, <2>2, WithinTry DEF BatchInv, Trying
  <2>5. BackedInv(b)'
    BY <1>2, <2>2, <2>3, RunTypes DEF BatchInv, RunInv, BackedInv
  <2>. QED BY <1>3, <2>4, <2>5 DEF RunInv
<1>5. CASE /\ Batch!At(b, "row") /\ Batch!Keep(b, call[b].found)
           /\ UNCHANGED <<requests, recorded>>
  <2>1. call[b].pc = "row" /\ RecordedOf(b)' = RecordedOf(b)
    BY <1>5 DEF Batch!At, RecordedOf
  <2>2. \E q \in RecordedOf(b) : q.index = call[b].index /\ q.verdict = call[b].found
    BY <2>1 DEF BatchInv, RunInv, BackedInv
  <2>3. StatusInv(b)' /\ RowsInv(b)' /\ BackedInv(b)' /\ StopInv(b)' /\ CountInv(b)'
    BY <1>1, <1>2, <1>5, <2>1, <2>2, KeepInv, NothingStored, RunTypes
       DEF BatchInv, Trying
  <2>4. TalliedInv(b)'
    BY <1>2, <2>1 DEF BatchInv, RunInv, TalliedInv, Trying
  <2>. QED BY <1>3, <2>3, <2>4 DEF RunInv
<1>. QED BY <1>4, <1>5 DEF Batch!AnswerLost

LEMMA ErrorRowRun ==
  ASSUME BatchInv, TypeOK', NEW b \in Runs, Batch!WriteErrorRow(b)
  PROVE  RunInv(b)'
<1>1. /\ call[b].pc = "errorRow"
      /\ UNCHANGED <<run, requests, recorded, now, faults>>
  BY DEF Batch!WriteErrorRow, Batch!At
<1>2. RecordedOf(b)' = RecordedOf(b)
  BY <1>1 DEF RecordedOf
<1>3. CASE \E r \in rows : r.run = b /\ r.index = call[b].index
  <2>1. Batch!End(b) /\ RowsOf(b)' = RowsOf(b)
    BY <1>3 DEF Batch!WriteErrorRow, RowsOf, Batch!RowsOf
  <2>2. \E r \in RowsOf(b) : r.index = call[b].index
    BY <1>3 DEF BatchInv, RetentionInv, RowsOf, Batch!RowsOf
  <2>3. Stored(b) # 1 .. call[b].index - 1
    BY <2>2, RunTypes DEF BatchInv, Stored
  <2>4. faults' # 0
    BY <1>1, <2>3 DEF BatchInv, RunInv, CauseInv
  <2>. QED BY <1>1, <1>2, <2>1, <2>4, EndsOpen DEF BatchInv
<1>4. CASE ~\E r \in rows : r.run = b /\ r.index = call[b].index
  <2>1. Batch!Keep(b, Batch!Invalid)
    BY <1>4 DEF Batch!WriteErrorRow
  <2>2. /\ call'[b].pc = "audit" /\ call'[b].index = call[b].index
        /\ call'[b].counts = call[b].counts
        /\ call'[b].answered = Batch!Invalid
        /\ call'[b].tallied = call[b].tallied
    <3>1. Batch!Go(b, [call[b] EXCEPT !.pc = "audit", !.answered = Batch!Invalid])
      BY <1>4 DEF Batch!WriteErrorRow
    <3>. QED BY <3>1 DEF BatchInv, TypeOK, Batch!TypeOK, Batch!Go, Batch!Call
  <2>3. /\ StatusInv(b)' /\ RowsInv(b)' /\ BackedInv(b)' /\ StopInv(b)'
        /\ CountInv(b)'
        /\ \A r \in RowsOf(b)' :
             \/ r \in RowsOf(b) /\ r.index # call[b].index
             \/ r.index = call[b].index /\ r.verdict = Batch!Invalid
        /\ \E r \in RowsOf(b)' :
             r.index = call[b].index /\ r.verdict = Batch!Invalid
    BY <1>1, <1>2, <1>4, <2>1, <2>2, KeepInv, InvalidType DEF BatchInv
  <2>4. TalliedInv(b)'
    BY <1>1, <2>2, <2>3 DEF BatchInv, RunInv, TalliedInv, Trying
  <2>5. CauseInv(b)'
    BY <1>1, <1>2, <2>2, <2>3 DEF BatchInv, RunInv, CauseInv
  <2>. QED BY <2>3, <2>4, <2>5 DEF RunInv
<1>. QED BY <1>3, <1>4
\* The row at the index is the one that is counted, and the only one left.
LEMMA AuditRun ==
  ASSUME BatchInv, TypeOK', NEW b \in Runs, Batch!AuditRow(b)
  PROVE  RunInv(b)'
<1> DEFINE s == call[b]
           k == Batch!CategoryOf(s.answered, s.tallied)
           counts == [s.counts EXCEPT ![k] = @ + 1]
           last == \/ s.index = run[b].size
                   \/ run[b].stop /\ Batch!Dangerous(s.tallied)
           S == {r \in RowsOf(b) : r.index < s.index}
<1>1. /\ s.pc = "audit"
      /\ UNCHANGED <<run, rows, requests, written, recorded, now, faults>>
  BY DEF Batch!AuditRow, Batch!At
<1>2. RowsOf(b)' = RowsOf(b) /\ RecordedOf(b)' = RecordedOf(b)
  BY <1>1 DEF RowsOf, Batch!RowsOf, RecordedOf
<1>3. /\ run[b].status = "open" /\ s.index \in 1 .. run[b].size
      /\ ~Completed(b) /\ ~Completed(b)' /\ ~Ending(b)
  BY <1>1 DEF BatchInv, RunInv, StatusInv, Completed, Ending, Working
<1>4. Stored(b) = 1 .. s.index
  BY <1>1 DEF BatchInv, RunInv, RowsInv
<1>5. PICK e \in RowsOf(b) : e.index = s.index /\ e.verdict = s.tallied
  BY <1>1 DEF BatchInv, RunInv, TalliedInv
<1>6. k = Batch!CategoryOf(e.verdict, e.verdict) /\ e.verdict \in Batch!Verdict
  BY <1>1, <1>5, RunTypes DEF BatchInv, RunInv, TalliedInv
<1>7. /\ e \notin S
      /\ RowsOf(b) = S \union {e}
      /\ \A r \in RowsOf(b) : r.index <= s.index
  <2>1. \A r \in RowsOf(b) : r.index \in 1 .. s.index
    BY <1>4 DEF Stored
  <2>2. \A r \in RowsOf(b) : r.index = s.index => r = e
    BY <1>5 DEF BatchInv, RunInv, RowsInv
  <2>. QED BY <1>3, <1>5, <2>1, <2>2, RunTypes DEF BatchInv
<1>8. IsFiniteSet(S) /\ CountsOf(s.counts, S) /\ Cardinality(S) = s.index - 1
  <2>1. IsFiniteSet(S)
    BY FS_Subset DEF BatchInv, RetentionInv, RowsOf, Batch!RowsOf
  <2>. QED BY <1>1, <1>3, <2>1 DEF BatchInv, RunInv, CountInv, Counts, Working
<1>9. CountsOf(counts, RowsOf(b)) /\ Cardinality(RowsOf(b)) = s.index
  <2>. HIDE DEF S
  <2>1. s.counts \in [Batch!Categories -> Nat] /\ s.index \in Nat
    BY RunTypes DEF BatchInv
  <2>2. /\ CountsOf([s.counts EXCEPT
                       ![Batch!CategoryOf(e.verdict, e.verdict)] = @ + 1],
                    S \union {e})
        /\ Cardinality(S \union {e}) = Cardinality(S) + 1
    BY <1>6, <1>7, <1>8, <2>1, CountOneMore
  <2>. QED BY <1>6, <1>7, <1>8, <2>1, <2>2
<1>. HIDE DEF k, S, counts
<1>10. CASE last
  <2>1. Batch!Go(b, [s EXCEPT !.pc = "finish", !.counts = counts])
    BY <1>10 DEF Batch!AuditRow, counts, k
  <2>2. /\ call'[b].pc = "finish" /\ call'[b].index = s.index
        /\ call'[b].counts = counts
    BY <2>1 DEF BatchInv, TypeOK, Batch!TypeOK, Batch!Go, Batch!Call
  <2>3. StatusInv(b)'
    BY <1>1, <1>3, <2>2 DEF StatusInv
  <2>4. RowsInv(b)' /\ BackedInv(b)' /\ TalliedInv(b)'
    BY <1>1, <1>2, <1>4, <2>2
       DEF BatchInv, RunInv, RowsInv, BackedInv, TalliedInv, Stored, Trying
  <2>5. StopInv(b)'
    <3>1. \A r \in RowsOf(b) : r.index < s.index =>
            ~(run[b].stop /\ Batch!Dangerous(r.verdict))
      BY <1>1 DEF BatchInv, RunInv, StopInv, Working
    <3>. QED BY <1>1, <1>2, <1>5, <1>10, <2>2, <3>1 DEF StopInv
  <2>6. CountInv(b)'
    <3>1. Ending(b)' /\ Counts(b)' = counts
      BY <1>3, <2>2 DEF Ending, Counts
    <3>. QED BY <1>2, <1>9, <2>2, <3>1 DEF CountInv
  <2>7. CauseInv(b)'
    BY <1>1, <1>2, <2>2 DEF BatchInv, RunInv, CauseInv
  <2>. QED BY <2>3, <2>4, <2>5, <2>6, <2>7 DEF RunInv
<1>11. CASE ~last
  <2>1. Batch!Go(b, [Batch!Idle EXCEPT !.pc = "evaluate", !.index = s.index + 1,
                       !.counts = counts, !.tallied = Batch!Presumed(b),
                       !.expiresAt = s.expiresAt])
    BY <1>11 DEF Batch!AuditRow, counts, k
  <2>2. /\ call'[b].pc = "evaluate" /\ call'[b].index = s.index + 1
        /\ call'[b].counts = counts /\ call'[b].tallied = Batch!Invalid
    BY <2>1 DEF BatchInv, TypeOK, Batch!TypeOK, Batch!Go, Batch!Idle,
       Batch!Presumed
  <2>3. ~Ending(b)' /\ s.index \in Nat /\ run[b].size \in Nat
    BY <1>3, <2>2, RunTypes DEF Ending, BatchInv
  <2>4. StatusInv(b)'
    BY <1>1, <1>3, <1>11, <2>2, <2>3 DEF StatusInv
  <2>5. RowsInv(b)'
    BY <1>2, <1>4, <2>2, <2>3 DEF BatchInv, RunInv, RowsInv, Stored
  <2>6. BackedInv(b)'
    BY <1>2, <2>2, <2>3, RunTypes DEF BatchInv, RunInv, BackedInv
  <2>7. TalliedInv(b)'
    BY <2>2 DEF TalliedInv
  <2>8. StopInv(b)'
    <3>1. \A r \in RowsOf(b) : r.index < s.index =>
            ~(run[b].stop /\ Batch!Dangerous(r.verdict))
      BY <1>1 DEF BatchInv, RunInv, StopInv, Working
    <3>2. ~(run[b].stop /\ Batch!Dangerous(e.verdict))
      BY <1>5, <1>11
    <3>3. \A r \in RowsOf(b) : r.index < s.index \/ r = e
      BY <1>7 DEF S
    <3>. QED BY <1>1, <1>2, <2>3, <3>1, <3>2, <3>3 DEF StopInv
  <2>9. CountInv(b)'
    <3>1. Counts(b)' = counts
      BY <1>3, <2>2 DEF Counts
    <3>2. {r \in RowsOf(b) : r.index < s.index}' = RowsOf(b)
      BY <1>2, <1>7, <2>2, <2>3, RunTypes DEF BatchInv
    <3>3. (s.index)' - 1 = s.index
      BY <2>2, <2>3
    <3>. QED BY <1>9, <2>3, <3>1, <3>2, <3>3 DEF CountInv
  <2>10. CauseInv(b)'
    BY <1>1, <1>2, <2>2 DEF BatchInv, RunInv, CauseInv
  <2>. QED BY <2>4, <2>5, <2>6, <2>7, <2>8, <2>9, <2>10 DEF RunInv
<1>. QED BY <1>10, <1>11

LEMMA FinishRun ==
  ASSUME BatchInv, TypeOK', NEW b \in Runs, Batch!Finish(b)
  PROVE  RunInv(b)'
<1>1. /\ call[b].pc = "finish" /\ Batch!End(b)
      /\ UNCHANGED <<rows, requests, written, recorded, now, faults>>
  BY DEF Batch!Finish, Batch!At
<1>2. RowsOf(b)' = RowsOf(b) /\ RecordedOf(b)' = RecordedOf(b)
  BY <1>1 DEF RowsOf, Batch!RowsOf, RecordedOf
<1>3. call'[b].pc = "done" /\ call'[b].index = call[b].index
  BY <1>1, EndType DEF BatchInv
<1>4. /\ run'[b].status = "completed" /\ run'[b].counts = call[b].counts
      /\ run'[b].size = run[b].size /\ run'[b].stop = run[b].stop
  BY DEF Batch!Finish, BatchInv, TypeOK, Batch!TypeOK, Batch!Run
<1>5. Completed(b)' /\ Ending(b)' /\ Ending(b) /\ ~Completed(b)
  BY <1>1, <1>4 DEF Completed, Ending, BatchInv, RunInv, StatusInv
<1>6. StatusInv(b)'
  BY <1>3, <1>4, RunTypes DEF StatusInv, Working, BatchInv
<1>7. RowsInv(b)' /\ BackedInv(b)' /\ TalliedInv(b)'
  BY <1>2, <1>3, <1>5 DEF BatchInv, RunInv, RowsInv, BackedInv, TalliedInv,
     Stored, Trying
<1>8. StopInv(b)'
  BY <1>1, <1>2, <1>3, <1>4, <1>5 DEF BatchInv, RunInv, StopInv, Working
<1>9. CountInv(b)'
  BY <1>1, <1>2, <1>3, <1>4, <1>5 DEF BatchInv, RunInv, CountInv, Counts, Working
<1>10. CauseInv(b)'
  BY <1>1, <1>2, <1>3, <1>5 DEF BatchInv, RunInv, CauseInv
<1>. QED BY <1>6, <1>7, <1>8, <1>9, <1>10 DEF RunInv

LEMMA InterruptRun ==
  ASSUME BatchInv, NEW b \in Runs, Batch!Interrupt(b)
  PROVE  RunInv(b)'
<1>1. /\ call[b].pc \notin {"idle", "done"} /\ Batch!End(b)
      /\ UNCHANGED <<run, rows, requests, written, recorded, now>>
  BY DEF Batch!Interrupt
<1>2. RowsOf(b)' = RowsOf(b) /\ RecordedOf(b)' = RecordedOf(b)
  BY <1>1 DEF RowsOf, Batch!RowsOf, RecordedOf
<1>3. faults' # 0
  BY RunTypes DEF Batch!Interrupt, BatchInv
<1>. QED BY <1>1, <1>2, <1>3, EndsOpen DEF BatchInv
\* A statement of one call leaves the other runs, and the tables, in order.
LEMMA StepFrame ==
  ASSUME TypeOK, RetentionInv, NEW b \in Runs, RunInv(b), Batch!Step(b)
  PROVE  /\ now' = now /\ faults \in Nat /\ faults' >= faults
         /\ IsFiniteSet(written') /\ rows' \subseteq written'
         /\ \A q \in recorded' : q \in requests' \/ q.expiresAt <= now'
         /\ \A c \in Runs \ {b} :
              /\ call'[c] = call[c] /\ run'[c] = run[c]
              /\ RowsOf(c)' = RowsOf(c) /\ RecordedOf(c)' = RecordedOf(c)
<1>0. now' = now /\ (faults' = faults \/ faults' = faults + 1)
  BY DEF Batch!Step, Batch!Begin, Batch!Evaluate, Batch!Unreadable,
     Batch!RecordRequest, Batch!RecordSignals, Batch!WriteRow,
     Batch!StatementFails, Batch!AnswerLost, Batch!WriteErrorRow, Batch!AuditRow,
     Batch!Finish, Batch!Interrupt
<1>1. now' = now /\ faults \in Nat /\ faults' >= faults
  BY <1>0, RunTypes
<1>2. \A c \in Runs \ {b} : call'[c] = call[c]
  BY DEF TypeOK, Batch!TypeOK, Batch!Step, Batch!Begin, Batch!Evaluate,
     Batch!Unreadable, Batch!RecordRequest, Batch!RecordSignals, Batch!WriteRow,
     Batch!StatementFails, Batch!AnswerLost, Batch!WriteErrorRow, Batch!AuditRow,
     Batch!Finish, Batch!Interrupt, Batch!Go, Batch!MoveTo, Batch!End
<1>3. \A c \in Runs \ {b} : run'[c] = run[c]
  BY DEF TypeOK, Batch!TypeOK, Batch!Step, Batch!Begin, Batch!Evaluate,
     Batch!Unreadable, Batch!RecordRequest, Batch!RecordSignals, Batch!WriteRow,
     Batch!StatementFails, Batch!AnswerLost, Batch!WriteErrorRow, Batch!AuditRow,
     Batch!Finish, Batch!Interrupt
<1>4. \/ UNCHANGED <<rows, written>>
      \/ \E verdict \in Batch!Verdict :
           /\ Batch!Keep(b, verdict)
           /\ \A r \in rows : ~(r.run = b /\ r.index = call[b].index)
  <2>1. CASE Batch!WriteRow(b) \/ Batch!AnswerLost(b)
    BY <2>1, NothingStored, RunTypes DEF Batch!WriteRow, Batch!AnswerLost, Batch!At,
       Trying
  <2>2. CASE Batch!WriteErrorRow(b)
    BY <2>2, InvalidType DEF Batch!WriteErrorRow
  <2>3. CASE ~(Batch!WriteRow(b) \/ Batch!AnswerLost(b) \/ Batch!WriteErrorRow(b))
    BY <2>3 DEF Batch!Step, Batch!Begin, Batch!Evaluate, Batch!Unreadable,
       Batch!RecordRequest, Batch!RecordSignals, Batch!StatementFails,
       Batch!AuditRow, Batch!Finish, Batch!Interrupt
  <2>. QED BY <2>1, <2>2, <2>3
<1>5. Batch!Store(b) \/ UNCHANGED <<requests, recorded>>
  BY DEF Batch!Step, Batch!Begin, Batch!Evaluate, Batch!Unreadable,
     Batch!RecordRequest, Batch!RecordSignals, Batch!WriteRow,
     Batch!StatementFails, Batch!AnswerLost, Batch!WriteErrorRow, Batch!AuditRow,
     Batch!Finish, Batch!Interrupt
<1>6. /\ IsFiniteSet(written') /\ rows' \subseteq written'
      /\ \A c \in Runs \ {b} : RowsOf(c)' = RowsOf(c)
  <2>1. CASE UNCHANGED <<rows, written>>
    BY <2>1 DEF RetentionInv, RowsOf, Batch!RowsOf
  <2>2. CASE ~UNCHANGED <<rows, written>>
    BY <1>4, <2>2, KeepRows
  <2>. QED BY <2>1, <2>2
<1>7. /\ \A q \in recorded' : q \in requests' \/ q.expiresAt <= now'
      /\ \A c \in Runs \ {b} : RecordedOf(c)' = RecordedOf(c)
  <2>1. CASE UNCHANGED <<requests, recorded>>
    BY <1>1, <2>1 DEF RetentionInv, RecordedOf
  <2>2. CASE Batch!Store(b)
    BY <1>1, <2>2, StoreRequest
  <2>. QED BY <1>5, <2>1, <2>2
<1>. QED BY <1>1, <1>2, <1>3, <1>6, <1>7

LEMMA StepInv ==
  ASSUME BatchInv, TypeOK', NEW b \in Runs, BatchStep(b)
  PROVE  BatchInv'
<1>1. Batch!Step(b) /\ UNCHANGED tick
  BY DEF BatchStep
<1>2. RunInv(b)'
  BY <1>1, BeginRun, EvaluateRun, RecordRun, SignalsRun, WriteRowRun, FailRun,
     AnswerLostRun, ErrorRowRun, AuditRun, FinishRun, InterruptRun DEF Batch!Step
<1>3. /\ now' = now /\ faults \in Nat /\ faults' >= faults
      /\ IsFiniteSet(written') /\ rows' \subseteq written'
      /\ \A q \in recorded' : q \in requests' \/ q.expiresAt <= now'
      /\ \A c \in Runs \ {b} :
           /\ call'[c] = call[c] /\ run'[c] = run[c]
           /\ RowsOf(c)' = RowsOf(c) /\ RecordedOf(c)' = RecordedOf(c)
  BY <1>1, StepFrame DEF BatchInv
<1>4. RetentionInv'
  BY <1>1, <1>3 DEF BatchInv, RetentionInv, tick
<1>5. ASSUME NEW c \in Runs \ {b}
      PROVE  RunInv(c)'
  <2>1. now <= now' /\ faults <= faults'
    BY <1>3 DEF BatchInv, TypeOK, Batch!TypeOK
  <2>. QED BY <1>3, <2>1, RunFrame DEF BatchInv
<1>. QED BY <1>2, <1>4, <1>5 DEF BatchInv

\* Whatever else happens, and retention, only shrink the tables that may shrink.
LEMMA OtherStepsInv ==
  ASSUME BatchInv, TypeOK',
         UNCHANGED <<run, call, written, recorded>>,
         now <= now', faults <= faults',
         rows' \subseteq rows,
         \A q \in requests : q \in requests' \/ q.expiresAt <= now',
         \A p \in Processes : asOf'[p] <= now'
  PROVE  BatchInv'
<1>1. \A q \in recorded : q.expiresAt \in Nat
  BY DEF BatchInv, TypeOK, Batch!TypeOK, Batch!Record
<1>2. now \in Nat /\ now' \in Nat
  BY DEF BatchInv, TypeOK, Batch!TypeOK
<1>3. RetentionInv'
  BY <1>1, <1>2 DEF BatchInv, RetentionInv
<1>4. ASSUME NEW b \in Runs
      PROVE  RunInv(b)'
  <2>1. RowsOf(b)' = RowsOf(b) /\ RecordedOf(b)' = RecordedOf(b)
    BY DEF RowsOf, Batch!RowsOf, RecordedOf
  <2>. QED BY <2>1, RunFrame DEF BatchInv
<1>. QED BY <1>3, <1>4 DEF BatchInv

LEMMA TickInv ==
  ASSUME BatchInv, TypeOK', NEW p \in Processes, StartTick(p) \/ DoJob(p) \/ TickFails(p)
  PROVE  BatchInv'
<1>1. now \in Nat /\ faults \in Nat /\ asOf \in [Processes -> Nat]
      /\ (\A x \in Processes : asOf[x] <= now)
  BY DEF BatchInv, TypeOK, Batch!TypeOK, RetentionInv
<1>2. UNCHANGED <<run, call, written, recorded, now>> /\ faults <= faults'
  BY <1>1 DEF StartTick, DoJob, TickFails, Work, Batch!CleanRows,
     Batch!CleanRequests, Audit!CleanExports, batchTables
<1>3. rows' \subseteq rows
  BY DEF StartTick, DoJob, TickFails, Work, Batch!CleanRows, Batch!Kept,
     Batch!CleanRequests, Audit!CleanExports, batchTables
<1>4. \A x \in Processes : asOf'[x] <= now'
  BY <1>1, <1>2 DEF StartTick, DoJob, TickFails
<1>5. \A q \in requests : q \in requests' \/ q.expiresAt <= now'
  <2>1. CASE UNCHANGED requests
    BY <2>1
  <2>2. CASE requests' # requests
    <3>1. Batch!CleanRequests(asOf[p])
      BY <2>2 DEF StartTick, DoJob, TickFails, Work, Batch!CleanRows,
         Audit!CleanExports, batchTables
    <3>2. \A q \in requests : q.expiresAt \in Nat
      BY DEF BatchInv, TypeOK, Batch!TypeOK, Batch!Record
    <3>. QED BY <1>1, <1>2, <3>1, <3>2 DEF Batch!CleanRequests, Batch!Kept
  <2>. QED BY <2>1, <2>2
<1>. QED BY <1>1, <1>2, <1>3, <1>4, <1>5, OtherStepsInv

LEMMA InitInv ==
  ASSUME Init
  PROVE  BatchInv
<1>1. TypeOK
  <2>1. Batch!TypeOK
    BY IdleType DEF Init, Batch!Init, Batch!TypeOK, Batch!Run
  <2>2. Audit!TypeOK
    BY DEF Init, Audit!Init, Audit!TypeOK, Audit!Export, Audit!NoExport
  <2>. QED BY <2>1, <2>2 DEF Init, TypeOK
<1>2. RetentionInv
  BY FS_EmptySet DEF Init, Batch!Init, RetentionInv
<1>3. ASSUME NEW b \in Runs
      PROVE  RunInv(b)
  <2>1. /\ call[b].pc = "idle" /\ call[b].index = 0
        /\ run[b].status = "none" /\ RowsOf(b) = {} /\ RecordedOf(b) = {}
    BY DEF Init, Batch!Init, Batch!Idle, RowsOf, Batch!RowsOf, RecordedOf
  <2>2. ~Completed(b) /\ ~Ending(b)
    BY <2>1 DEF Completed, Ending
  <2>3. StatusInv(b) /\ RowsInv(b) /\ BackedInv(b)
    BY <2>1, <2>2 DEF StatusInv, RowsInv, BackedInv, Stored, Trying, Working
  <2>4. TalliedInv(b) /\ StopInv(b) /\ CountInv(b) /\ CauseInv(b)
    BY <2>1, <2>2 DEF TalliedInv, StopInv, CountInv, CauseInv, Trying, Working
  <2>. QED BY <2>3, <2>4 DEF RunInv
<1>. QED BY <1>1, <1>2, <1>3 DEF BatchInv

LEMMA NextInv ==
  ASSUME BatchInv, [Next]_vars
  PROVE  BatchInv'
<1>1. TypeOK'
  BY NextType DEF BatchInv
<1>2. now \in Nat /\ faults \in Nat
  BY DEF BatchInv, TypeOK, Batch!TypeOK
<1>3. CASE \E p \in Processes : StartTick(p) \/ DoJob(p) \/ TickFails(p)
  BY <1>1, <1>3, TickInv
<1>4. CASE \E b \in Runs : BatchStep(b)
  BY <1>1, <1>4, StepInv
<1>5. CASE AuditStep \/ TimePasses \/ UNCHANGED vars
  <2>1. UNCHANGED <<batchTables, asOf, faults>> /\ now <= now'
    BY <1>2, <1>5 DEF AuditStep, TimePasses, vars, tick, Audit!CreateExport,
       Audit!ExpireOnDownload
  <2>2. \A p \in Processes : asOf'[p] <= now'
    <3>1. \A p \in Processes : asOf[p] \in Nat /\ asOf[p] <= now
      BY DEF BatchInv, TypeOK, RetentionInv
    <3>. QED BY <1>1, <1>2, <2>1, <3>1 DEF TypeOK, Batch!TypeOK
  <2>. QED BY <1>1, <1>2, <2>1, <2>2, OtherStepsInv DEF batchTables
<1>. QED BY <1>3, <1>4, <1>5 DEF Next

\* BatchInv holds at every point of every call, whatever the ticks do.
THEOREM BatchInvariance == Spec => []BatchInv
<1>1. Init => BatchInv
  BY InitInv
<1>2. BatchInv /\ [Next]_vars => BatchInv'
  BY NextInv
<1>. QED BY <1>1, <1>2, PTL DEF Spec

-----------------------------------------------------------------------------
(* What the runs check, for every instance.                                *)

\* Batches, exports and ticks keep their types.
THEOREM OperationsType == Spec => []TypeOK
<1>1. BatchInv => TypeOK
  BY DEF BatchInv
<1>. QED BY <1>1, BatchInvariance, PTL

\* BatchVerification counts by the same module.
LEMMA SameCardinality == \A S : Batch!Cardinality(S) = Cardinality(S)
  BY DEF Batch!Cardinality, Cardinality

\* A completed run is true to its rows, whatever failed and whatever ticks of
\* any number of processes have deleted since.
THEOREM CompletedRuns == Spec => []CompletedRunsAreTrue
<1>1. BatchInv => CompletedRunsAreTrue
  <2> SUFFICES ASSUME BatchInv, NEW b \in Runs, run[b].status = "completed"
               PROVE  /\ {r.index : r \in RowsOf(b)} = 1 .. call[b].index
                      /\ Cardinality(RowsOf(b)) = call[b].index
                      /\ \A c \in Batch!Categories :
                           run[b].counts[c] = Cardinality(Batch!Counted(b)[c])
                      /\ \A r \in RowsOf(b) : r.verdict = Batch!Invalid \/
                           \E q \in recorded :
                             q.run = b /\ q.index = r.index /\ q.verdict = r.verdict
                      /\ \A r \in RowsOf(b) :
                           run[b].stop /\ Batch!Dangerous(r.verdict) =>
                             r.index = call[b].index
                      /\ call[b].index = run[b].size \/ \E r \in RowsOf(b) :
                           r.index = call[b].index
                             /\ run[b].stop /\ Batch!Dangerous(r.verdict)
    BY SameCardinality DEF CompletedRunsAreTrue, Batch!CompletedRunsAreTrue, RowsOf
  <2>1. Completed(b) /\ Ending(b) /\ RunInv(b)
    BY DEF Completed, Ending, BatchInv
  <2>2. Stored(b) = 1 .. call[b].index
    BY <2>1 DEF RunInv, RowsInv
  <2>3. /\ Cardinality(RowsOf(b)) = call[b].index
        /\ CountsOf(run[b].counts, RowsOf(b))
    BY <2>1 DEF RunInv, CountInv, Counts
  <2>4. \A c \in Batch!Categories :
          run[b].counts[c] = Cardinality(Batch!Counted(b)[c])
    BY <2>3, CountedIsInCategory DEF BatchInv, CountsOf
  <2>5. \A r \in RowsOf(b) : r.verdict = Batch!Invalid \/
          \E q \in recorded :
            q.run = b /\ q.index = r.index /\ q.verdict = r.verdict
    BY <2>1 DEF RunInv, BackedInv, RecordedOf
  <2>6. \A r \in RowsOf(b) :
          run[b].stop /\ Batch!Dangerous(r.verdict) => r.index = call[b].index
    <3>1. \A r \in RowsOf(b) : r.index < call[b].index \/ r.index = call[b].index
      BY <2>2, RunTypes DEF BatchInv, Stored
    <3>. QED BY <2>1, <3>1 DEF RunInv, StopInv
  <2>7. call[b].index = run[b].size \/ \E r \in RowsOf(b) :
          r.index = call[b].index /\ run[b].stop /\ Batch!Dangerous(r.verdict)
    BY <2>1 DEF RunInv, StopInv
  <2>. QED BY <2>2, <2>3, <2>4, <2>5, <2>6, <2>7 DEF Stored
<1>. QED BY <1>1, BatchInvariance, PTL

\* Without a fault, no run stays open, and a row whose request is on record is
\* an ERROR only after retention took that request away.
THEOREM ErrorCauses == Spec => []ErrorsHaveCauses
<1>1. BatchInv => ErrorsHaveCauses
  <2> SUFFICES ASSUME BatchInv, NEW b \in Runs, faults = 0
               PROVE  /\ call[b].pc = "done" => run[b].status = "completed"
                      /\ \A r \in RowsOf(b), q \in recorded :
                           q.run = b /\ r.run = b /\ q.index = r.index
                             /\ r.verdict = Batch!Invalid => q.expiresAt <= now
    BY DEF ErrorsHaveCauses, Batch!ErrorsHaveCauses, RowsOf
  <2>1. CauseInv(b)
    BY DEF BatchInv, RunInv
  <2>. QED BY <2>1 DEF CauseInv, Completed, RecordedOf
<1>. QED BY <1>1, BatchInvariance, PTL

-----------------------------------------------------------------------------
(* What clean-ups and failed ticks may not do.                             *)

\* A row, a request or the content of an export that was stored and is no
\* longer there had expired; an export is READY exactly while it has content.
GoneIsExpired ==
  /\ \A r \in written : r \in rows \/ r.expiresAt <= now
  /\ \A q \in recorded : q \in requests \/ q.expiresAt <= now
  /\ \A x \in Exports :
       /\ exports[x].content <=> exports[x].status = "READY"
       /\ exports[x].status = "EXPIRED" => exports[x].expiresAt <= now

\* The parts of it that BatchInv does not have.
RowsGo == \A r \in written : r \in rows \/ r.expiresAt <= now
ExportGoes(export, t) ==
  /\ export.content <=> export.status = "READY"
  /\ export.status = "EXPIRED" => export.expiresAt <= t

LEMMA TablesOnlyShrinkByAge ==
  ASSUME BatchInv, [Next]_vars
  PROVE  /\ now \in Nat /\ now' \in Nat /\ now <= now'
         /\ \A r \in rows : r \in rows' \/ r.expiresAt <= now'
         /\ \A r \in written' : r \in written \/ r \in rows'
<1>0. /\ now \in Nat /\ now' \in Nat
      /\ \A r \in rows : r.expiresAt \in Nat
  BY NextType DEF BatchInv, TypeOK, Batch!TypeOK, Batch!Record
<1>1. CASE \E p \in Processes : StartTick(p) \/ DoJob(p) \/ TickFails(p)
  <2>1. PICK p \in Processes : StartTick(p) \/ DoJob(p) \/ TickFails(p)
    BY <1>1
  <2>2. UNCHANGED <<written, now>>
    BY <2>1 DEF StartTick, DoJob, TickFails, Work, Batch!CleanRows,
       Batch!CleanRequests, Audit!CleanExports, batchTables
  <2>3. rows' = rows \/ Batch!CleanRows(now)
    BY <2>1 DEF StartTick, DoJob, TickFails, Work, Batch!CleanRequests,
       Audit!CleanExports, batchTables
  <2>4. \A r \in rows : r \in rows' \/ r.expiresAt <= now
    <3>1. CASE rows' = rows
      BY <3>1
    <3>2. CASE Batch!CleanRows(now)
      BY <1>0, <3>2 DEF Batch!CleanRows, Batch!Kept
    <3>. QED BY <2>3, <3>1, <3>2
  <2>. QED BY <1>0, <2>2, <2>4
<1>2. CASE \E b \in Runs : BatchStep(b)
  <2>1. PICK b \in Runs : Batch!Step(b)
    BY <1>2 DEF BatchStep
  <2>2. UNCHANGED now
    BY <2>1, StepFrame DEF BatchInv
  <2>3. UNCHANGED <<rows, written>> \/ \E verdict : Batch!Keep(b, verdict)
    BY <2>1 DEF Batch!Step, Batch!Begin, Batch!Evaluate, Batch!Unreadable,
       Batch!RecordRequest, Batch!RecordSignals, Batch!WriteRow,
       Batch!StatementFails, Batch!AnswerLost, Batch!WriteErrorRow,
       Batch!AuditRow, Batch!Finish, Batch!Interrupt
  <2>4. rows \subseteq rows' /\ \A r \in written' : r \in written \/ r \in rows'
    BY <2>3 DEF Batch!Keep
  <2>. QED BY <1>0, <2>2, <2>4
<1>3. CASE AuditStep \/ TimePasses \/ UNCHANGED vars
  BY <1>0, <1>3 DEF AuditStep, TimePasses, vars, batchTables,
     Audit!CreateExport, Audit!ExpireOnDownload
<1>. QED BY <1>1, <1>2, <1>3 DEF Next

LEMMA EmptiedGoes ==
  ASSUME NEW export \in Audit!Export, NEW t, export.expiresAt <= t
  PROVE  ExportGoes(Audit!Emptied(export), t)
  BY DEF ExportGoes, Audit!Emptied, Audit!Export

LEMMA ExportStep ==
  ASSUME BatchInv, [Next]_vars, NEW x \in Exports, ExportGoes(exports[x], now)
  PROVE  ExportGoes(exports'[x], now')
<1>0. /\ now \in Nat /\ now' \in Nat /\ now <= now'
      /\ exports[x] \in Audit!Export /\ exports[x].expiresAt \in Nat
  BY TablesOnlyShrinkByAge DEF BatchInv, TypeOK, Audit!TypeOK, Audit!Export
<1>1. exports'[x] = exports[x] => ExportGoes(exports'[x], now')
  BY <1>0 DEF ExportGoes
<1>2. CASE UNCHANGED exports
  BY <1>1, <1>2
<1>3. ASSUME NEW y \in Exports, Audit!CreateExport(y)
      PROVE  ExportGoes(exports'[x], now')
  <2>. DEFINE new == [status |-> "READY", content |-> TRUE,
                      expiresAt |-> now + ExportTtl]
  <2>1. exports'[x] = new \/ exports'[x] = exports[x]
    BY <1>3 DEF Audit!CreateExport, BatchInv, TypeOK, Audit!TypeOK
  <2>2. ExportGoes(new, now')
    BY DEF ExportGoes
  <2>. HIDE DEF new
  <2>. QED BY <1>1, <2>1, <2>2
<1>4. ASSUME NEW y \in Exports, Audit!ExpireOnDownload(y)
      PROVE  ExportGoes(exports'[x], now')
  <2>1. \/ exports'[x] = exports[x]
        \/ exports'[x] = Audit!Emptied(exports[x]) /\ exports[x].expiresAt <= now
    BY <1>4 DEF Audit!ExpireOnDownload, BatchInv, TypeOK, Audit!TypeOK
  <2>2. now' = now
    BY <1>4 DEF Audit!ExpireOnDownload
  <2>. QED BY <1>0, <1>1, <2>1, <2>2, EmptiedGoes
<1>5. ASSUME Audit!CleanExports
      PROVE  ExportGoes(exports'[x], now')
  <2>1. \/ exports'[x] = exports[x]
        \/ exports'[x] = Audit!Emptied(exports[x]) /\ exports[x].expiresAt < now
    BY <1>5 DEF Audit!CleanExports
  <2>2. now' = now
    BY <1>5 DEF Audit!CleanExports
  <2>. QED BY <1>0, <1>1, <2>1, <2>2, EmptiedGoes
<1>6. \/ UNCHANGED exports
      \/ Audit!CleanExports
      \/ \E y \in Exports : Audit!CreateExport(y) \/ Audit!ExpireOnDownload(y)
  BY DEF Next, StartTick, DoJob, Work, TickFails, BatchStep, AuditStep,
     TimePasses, vars
<1>. QED BY <1>2, <1>3, <1>4, <1>5, <1>6

\* No clean-up of any tick or download, however delayed or repeated, deletes
\* what has not expired: retention in two statements that go by a time read
\* before the first (cleanupHistoricalResolutionRequests), exports by an update
\* by id (audit.service.ts).  What an export lost does not come back.
THEOREM NothingGoesEarly == Spec => []GoneIsExpired
<1>. DEFINE Inv == RowsGo /\ \A x \in Exports : ExportGoes(exports[x], now)
<1>1. Init => Inv
  BY DEF Init, Batch!Init, Audit!Init, Audit!NoExport, RowsGo, ExportGoes
<1>2. BatchInv /\ Inv /\ [Next]_vars => Inv'
  <2>. SUFFICES ASSUME BatchInv, Inv, [Next]_vars PROVE Inv'
    OBVIOUS
  <2>1. \A r \in written : r.expiresAt \in Nat
    BY DEF BatchInv, TypeOK, Batch!TypeOK, Batch!Record
  <2>2. RowsGo'
    BY <2>1, TablesOnlyShrinkByAge DEF RowsGo
  <2>3. \A x \in Exports : ExportGoes(exports'[x], now')
    BY ExportStep
  <2>. QED BY <2>2, <2>3
<1>3. BatchInv /\ Inv => GoneIsExpired
  BY DEF BatchInv, RetentionInv, GoneIsExpired, RowsGo, ExportGoes
<1>. HIDE DEF Inv
<1>. QED BY <1>1, <1>2, <1>3, BatchInvariance, PTL DEF Spec

\* The flag isProcessing is set exactly while its process is in a tick.
FlagsTellTicks == \A p \in Processes : processing[p] <=> job[p] # "idle"

\* However a tick ends, by its last job, by one that fails or with its
\* process, it leaves the flag that lets the next one start (runTick's
\* finally): the safety half of TicksDoTheirJobs.
THEOREM FlagsAreReleased == Spec => []FlagsTellTicks
<1>1. Init => FlagsTellTicks
  BY DEF Init, FlagsTellTicks
<1>2. TypeOK /\ FlagsTellTicks /\ [Next]_vars => FlagsTellTicks'
  <2>. SUFFICES ASSUME TypeOK, FlagsTellTicks, [Next]_vars PROVE FlagsTellTicks'
    OBVIOUS
  <2>. USE DEF TypeOK, FlagsTellTicks
  <2>1. ASSUME NEW p \in Processes, StartTick(p)
        PROVE  FlagsTellTicks'
    BY <2>1 DEF StartTick
  <2>2. ASSUME NEW p \in Processes, DoJob(p)
        PROVE  FlagsTellTicks'
    <3>1. /\ job[p] \in Jobs
          /\ job' = [job EXCEPT ![p] = After(job[p])]
          /\ processing' = [processing EXCEPT ![p] = job[p] # "deliveries"]
      BY <2>2 DEF DoJob
    <3>2. After(job[p]) # "idle" <=> job[p] # "deliveries"
      BY <3>1 DEF After, Jobs
    <3>. QED BY <3>1, <3>2
  <2>3. ASSUME NEW p \in Processes, TickFails(p)
        PROVE  FlagsTellTicks'
    BY <2>3 DEF TickFails, StillProcessing
  <2>4. ASSUME UNCHANGED tick
        PROVE  FlagsTellTicks'
    BY <2>4 DEF tick
  <2>. QED
    BY <2>1, <2>2, <2>3, <2>4 DEF Next, BatchStep, AuditStep, TimePasses, vars
<1>. QED BY <1>1, <1>2, OperationsType, PTL DEF Spec

-----------------------------------------------------------------------------
(* What a batch tells its caller to send to.                               *)

\* The lookup found exactly one destination in force on a network in use and,
\* if it went by the recipient, the identifier and the address given.
Confirmed(found) ==
  /\ found.supported
  /\ found.destinations = 1
  /\ found.direction = "BY_RECIPIENT" => found.identified /\ found.matches

\* Verified and LOW risk go together, and a verdict that has them was found.
Vouched(verdict) ==
  /\ verdict.verified <=> verdict.risk = "LOW"
  /\ verdict.verified => \E found \in Findings :
                           Confirmed(found) /\ Batch!VerdictOn(found) = verdict

\* Every row and request of a batch, those that retention deleted included.
OnlyConfirmedIsSafe == \A e \in written \union recorded : Vouched(e.verdict)

LEMMA VerdictsAreVouched ==
  /\ \A found \in Findings : Vouched(Batch!VerdictOn(found))
  /\ Vouched(Batch!Invalid)
<1>1. ASSUME NEW found \in Findings, found.direction = "BY_RECIPIENT"
      PROVE  Vouched(Batch!VerdictOn(found))
  <2>1. found \in Batch!Found
    BY FindingsAssumption
  <2>2. /\ Batch!VerdictOn(found).verified <=> Batch!VerdictOn(found).risk = "LOW"
        /\ Batch!VerdictOn(found).verified => Confirmed(found)
    BY <1>1, <2>1 DEF Batch!Found, Batch!VerdictOn, Batch!VerifyVerdict, Confirmed,
       Batch!Refusal, Batch!Safe, Batch!Unsupported, Batch!Several
  <2>. QED BY <2>2 DEF Vouched
<1>2. ASSUME NEW found \in Findings, found.direction # "BY_RECIPIENT"
      PROVE  Vouched(Batch!VerdictOn(found))
  <2>1. found \in Batch!Found
    BY FindingsAssumption
  <2>2. /\ Batch!VerdictOn(found).verified <=> Batch!VerdictOn(found).risk = "LOW"
        /\ Batch!VerdictOn(found).verified => Confirmed(found)
    BY <1>2, <2>1 DEF Batch!Found, Batch!VerdictOn, Batch!ConfirmVerdict, Confirmed,
       Batch!Refusal, Batch!Safe, Batch!Unsupported, Batch!Several
  <2>. QED BY <2>2 DEF Vouched
<1>3. Vouched(Batch!Invalid)
  BY DEF Vouched, Batch!Invalid, Batch!Refusal
<1>. QED BY <1>1, <1>2, <1>3

\* No fault, lost answer, overwritten row or clean-up makes batchVerify store
\* "safe_to_send" for a row whose lookup did not confirm the destination
\* (resolution.service.ts:638-1018): what the loop carries from row to row and
\* what the catch clause writes are never safe by themselves.
THEOREM SafeRowsWereConfirmed == Spec => []OnlyConfirmedIsSafe
<1>. DEFINE Carried == \A b \in Runs : Vouched(call[b].found)
            Inv == Carried /\ OnlyConfirmedIsSafe
<1>1. Init => Inv
  BY VerdictsAreVouched DEF Init, Batch!Init, Batch!Idle, OnlyConfirmedIsSafe
<1>2. TypeOK /\ Inv /\ [Next]_vars => Inv'
  <2>. SUFFICES ASSUME TypeOK, Inv, [Next]_vars PROVE Inv'
    OBVIOUS
  <2>. USE DEF OnlyConfirmedIsSafe
  <2>1. ASSUME NEW b \in Runs, Batch!Step(b)
        PROVE  Inv'
    <3>1. call \in [Runs -> Batch!Call]
      BY DEF TypeOK, Batch!TypeOK
    <3>2. \/ call'[b].found = call[b].found
          \/ call'[b].found = Batch!Invalid
          \/ \E found \in Findings : call'[b].found = Batch!VerdictOn(found)
      <4>1. ASSUME NEW size, NEW stop, Batch!Begin(b, size, stop)
            PROVE  call'[b].found = Batch!Invalid
        BY <3>1, <4>1 DEF Batch!Begin, Batch!Go, Batch!Idle
      <4>2. ASSUME Batch!Evaluate(b)
            PROVE  \E found \in Findings : call'[b].found = Batch!VerdictOn(found)
        <5>1. PICK found \in Findings :
                call' = [call EXCEPT ![b] = [call[b] EXCEPT
                           !.pc = "record", !.found = Batch!VerdictOn(found)]]
          BY <4>2 DEF Batch!Evaluate, Batch!Go
        <5>2. call'[b].found = Batch!VerdictOn(found)
          BY <3>1, <5>1 DEF Batch!Call
        <5>. QED BY <5>2
      <4>3. ASSUME Batch!Finish(b) \/ Batch!Interrupt(b) \/ Batch!WriteErrorRow(b)
            PROVE  call'[b].found \in {call[b].found, Batch!Invalid}
        <5>1. \/ call' = [call EXCEPT ![b] =
                            [Batch!Idle EXCEPT !.pc = "done", !.index = call[b].index]]
              \/ call' = [call EXCEPT ![b] =
                            [call[b] EXCEPT !.pc = "audit", !.answered = Batch!Invalid]]
          BY <4>3, Zenon DEF Batch!Finish, Batch!Interrupt, Batch!WriteErrorRow,
             Batch!Go, Batch!End
        <5>2. CASE call' = [call EXCEPT ![b] =
                        [Batch!Idle EXCEPT !.pc = "done", !.index = call[b].index]]
          BY <3>1, <5>2 DEF Batch!Idle
        <5>3. CASE call' = [call EXCEPT ![b] =
                        [call[b] EXCEPT !.pc = "audit", !.answered = Batch!Invalid]]
          BY <3>1, <5>3 DEF Batch!Call
        <5>. QED BY <5>1, <5>2, <5>3
      <4>4. ASSUME Batch!AuditRow(b)
            PROVE  call'[b].found \in {call[b].found, Batch!Invalid}
        <5>1. PICK counts, index, tallied, expiresAt :
                \/ call' = [call EXCEPT ![b] = [call[b] EXCEPT
                             !.pc = "finish", !.counts = counts]]
                \/ call' = [call EXCEPT ![b] = [Batch!Idle EXCEPT
                             !.pc = "evaluate", !.index = index, !.counts = counts,
                             !.tallied = tallied, !.expiresAt = expiresAt]]
          BY <4>4, Zenon DEF Batch!AuditRow, Batch!Go
        <5>2. CASE call' = [call EXCEPT ![b] = [call[b] EXCEPT
                              !.pc = "finish", !.counts = counts]]
          BY <3>1, <5>2 DEF Batch!Call
        <5>3. CASE call' = [call EXCEPT ![b] = [Batch!Idle EXCEPT
                              !.pc = "evaluate", !.index = index, !.counts = counts,
                              !.tallied = tallied, !.expiresAt = expiresAt]]
          BY <3>1, <5>3 DEF Batch!Idle
        <5>. QED BY <5>1, <5>2, <5>3
      <4>5. ASSUME Batch!Unreadable(b) \/ Batch!RecordRequest(b)
                     \/ Batch!RecordSignals(b) \/ Batch!WriteRow(b)
                     \/ Batch!StatementFails(b) \/ Batch!AnswerLost(b)
            PROVE  call'[b].found = call[b].found
        BY <3>1, <4>5 DEF Batch!Unreadable, Batch!RecordRequest,
           Batch!RecordSignals, Batch!WriteRow, Batch!StatementFails,
           Batch!AnswerLost, Batch!Go, Batch!MoveTo, Batch!Call
      <4>. QED BY <2>1, <4>1, <4>2, <4>3, <4>4, <4>5 DEF Batch!Step
    <3>3. \A c \in Runs \ {b} : call'[c] = call[c]
      BY <2>1, <3>1 DEF Batch!Step, Batch!Begin, Batch!Evaluate, Batch!Unreadable,
         Batch!RecordRequest, Batch!RecordSignals, Batch!WriteRow,
         Batch!StatementFails, Batch!AnswerLost, Batch!WriteErrorRow,
         Batch!AuditRow, Batch!Finish, Batch!Interrupt, Batch!Go, Batch!MoveTo,
         Batch!End
    <3>4. Carried'
      BY <3>2, <3>3, VerdictsAreVouched
    <3>5. /\ \/ UNCHANGED written
             \/ Batch!Keep(b, call[b].found)
             \/ Batch!Keep(b, Batch!Invalid)
          /\ UNCHANGED recorded \/ Batch!Store(b)
      BY <2>1 DEF Batch!Step, Batch!Begin, Batch!Evaluate, Batch!Unreadable,
         Batch!RecordRequest, Batch!RecordSignals, Batch!WriteRow,
         Batch!StatementFails, Batch!AnswerLost, Batch!WriteErrorRow,
         Batch!AuditRow, Batch!Finish, Batch!Interrupt
    <3>6. \A e \in written' \union recorded' :
            \/ e \in written \union recorded
            \/ e.verdict \in {call[b].found, Batch!Invalid}
      BY <3>5 DEF Batch!Keep, Batch!Store, Batch!Entry
    <3>7. OnlyConfirmedIsSafe'
      BY <3>6, VerdictsAreVouched
    <3>. QED BY <3>4, <3>7
  <2>2. ASSUME UNCHANGED <<call, written, recorded>>
        PROVE  Inv'
    BY <2>2
  <2>3. \/ \E b \in Runs : Batch!Step(b)
        \/ UNCHANGED <<call, written, recorded>>
    BY DEF Next, StartTick, DoJob, Work, TickFails, BatchStep, AuditStep,
       TimePasses, vars, batchTables, Batch!CleanRows, Batch!CleanRequests,
       Audit!CleanExports
  <2>. QED BY <2>1, <2>2, <2>3
<1>. HIDE DEF Carried
<1>. QED BY <1>1, <1>2, OperationsType, PTL DEF Spec
===============================================================================
