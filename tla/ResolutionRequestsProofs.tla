----------------------- MODULE ResolutionRequestsProofs -----------------------
(***************************************************************************)
(* Proofs about ResolutionRequests: the types, and what idempotent replay  *)
(* promises on the schema as it is (DuplicatesOverlap, AnswersAreRecorded) *)
(* and with the unique index (OneAnswerPerKey), and how far concurrent     *)
(* lookups overshoot the rate limit (OvershootBounded).                    *)
(***************************************************************************)
EXTENDS ResolutionRequests, FiniteSetTheorems, TLAPS

-----------------------------------------------------------------------------
(* Types.                                                                  *)

LEMMA IdleType == Idle \in Session
  BY ResolutionAssumption DEF Idle, Session, Modes, Time, Outcomes

\* A response ends the session and adds one well-typed reply.
LEMMA RespondType ==
  ASSUME TypeOK, NEW h \in Handlers,
         NEW kind \in {"answer", "conflict", "throttled", "error"},
         NEW outcome \in Outcomes \union {"blocked"}, Respond(h, kind, outcome)
  PROVE  session' \in [Handlers -> Session] /\ replies' \subseteq Reply
  <1>1. session[h] \in Session
    BY DEF TypeOK
  <1>. QED BY <1>1, IdleType DEF TypeOK, Respond, Session, Reply

LEMMA AdvanceType ==
  ASSUME TypeOK, NEW h \in Handlers,
         NEW pc \in {"idle", "find", "count", "sample", "throttle", "suspect",
                     "lookup", "record", "signal", "recheck", "rethrow"},
         Advance(h, pc)
  PROVE  session' \in [Handlers -> Session]
  BY DEF TypeOK, Advance, Session

\* The fields a handler changes while it works, for sessions whose fields are
\* drawn from any sets.
LEMMA FieldsUpdated ==
  ASSUME NEW P, NEW C, NEW K, NEW L, NEW M, NEW D, NEW R, NEW O, NEW S,
         S = [pc : P, call : C, key : K, lookup : L, mode : M,
              decidedAt : D, retention : R, outcome : O]
  PROVE  /\ \A s \in S, pc \in P, d \in D, r \in R :
              [s EXCEPT !.pc = pc, !.decidedAt = d, !.retention = r] \in S
         /\ \A s \in S, pc \in P, o \in O :
              [s EXCEPT !.pc = pc, !.outcome = o] \in S
  <1>1. ASSUME NEW s \in S, NEW pc \in P, NEW d \in D, NEW r \in R
        PROVE  [s EXCEPT !.pc = pc, !.decidedAt = d, !.retention = r] \in S
    OBVIOUS
  <1>2. ASSUME NEW s \in S, NEW pc \in P, NEW o \in O
        PROVE  [s EXCEPT !.pc = pc, !.outcome = o] \in S
    OBVIOUS
  <1>. QED BY <1>1, <1>2

LEMMA DecideType ==
  ASSUME NEW h \in Handlers, session \in [Handlers -> Session],
         NEW t \in Time, NEW r \in Time \union {Never},
         session' = [session EXCEPT ![h] = [session[h] EXCEPT
                       !.pc = "count", !.decidedAt = t, !.retention = r]]
  PROVE  session' \in [Handlers -> Session]
  <1>. DEFINE P == {"idle", "find", "count", "sample", "throttle", "suspect",
                    "lookup", "record", "signal", "recheck", "rethrow"}
              R == Time \union {Never}
  <1>1. \A s \in Session, pc \in P, d \in Time, q \in R :
          [s EXCEPT !.pc = pc, !.decidedAt = d, !.retention = q] \in Session
    <2>. HIDE DEF P, R
    <2>1. Session = [pc : P, call : Nat, key : Keys \union {NoKey},
                     lookup : Lookups, mode : Modes, decidedAt : Time,
                     retention : R, outcome : Outcomes \union {"blocked"}]
      BY Zenon DEF Session, P, R
    <2>. QED BY <2>1, FieldsUpdated, Zenon
  <1>2. session[h] \in Session /\ "count" \in P
    OBVIOUS
  <1>3. [session[h] EXCEPT !.pc = "count", !.decidedAt = t, !.retention = r]
          \in Session
    <2>. HIDE DEF P
    <2>. QED BY <1>1, <1>2, Zenon
  <1>. QED BY <1>3

LEMMA OutcomeSetType ==
  ASSUME NEW h \in Handlers, session \in [Handlers -> Session],
         NEW o \in Outcomes \union {"blocked"}, NEW pc \in {"record", "signal"},
         session' = [session EXCEPT ![h] = [session[h] EXCEPT
                       !.pc = pc, !.outcome = o]]
  PROVE  session' \in [Handlers -> Session]
  <1>. DEFINE P == {"idle", "find", "count", "sample", "throttle", "suspect",
                    "lookup", "record", "signal", "recheck", "rethrow"}
              O == Outcomes \union {"blocked"}
  <1>1. \A s \in Session, p \in P, q \in O :
          [s EXCEPT !.pc = p, !.outcome = q] \in Session
    <2>. HIDE DEF P, O
    <2>1. Session = [pc : P, call : Nat, key : Keys \union {NoKey},
                     lookup : Lookups, mode : Modes, decidedAt : Time,
                     retention : Time \union {Never}, outcome : O]
      BY Zenon DEF Session, P, O
    <2>. QED BY <2>1, FieldsUpdated, Zenon
  <1>2. session[h] \in Session /\ pc \in P
    OBVIOUS
  <1>3. [session[h] EXCEPT !.pc = pc, !.outcome = o] \in Session
    <2>. HIDE DEF P
    <2>. QED BY <1>1, <1>2, Zenon
  <1>. QED BY <1>3

LEMMA ReplyStoredType ==
  ASSUME TypeOK, NEW h \in Handlers, NEW row \in rows, ReplyStored(h, row)
  PROVE  session' \in [Handlers -> Session] /\ replies' \subseteq Reply
  <1>1. row.outcome \in Outcomes \union {"blocked"}
    BY DEF TypeOK, Row
  <1>. QED BY <1>1, RespondType DEF ReplyStored, Outcomes

LEMMA ThrowType ==
  ASSUME TypeOK, NEW h \in Handlers, Throw(h)
  PROVE  session' \in [Handlers -> Session] /\ replies' \subseteq Reply
  BY RespondType, AdvanceType DEF Throw, Outcomes, TypeOK

LEMMA RetentionType ==
  ASSUME TypeOK, NEW m \in Modes
  PROVE  RetentionExpiresAt(m) \in Time \union {Never}
  BY ResolutionAssumption DEF RetentionExpiresAt, Modes, TypeOK, Time

LEMMA InsertType ==
  ASSUME TypeOK, NEW h \in Handlers, NEW key \in Keys \union {NoKey},
         NEW outcome \in Outcomes \union {"blocked"},
         NEW retention \in Time \union {Never},
         Insert(RowOf(h, key, outcome, retention))
  PROVE  rows' \subseteq Row /\ ledger' \subseteq Row
  BY DEF TypeOK, Insert, RowOf, Row, Session, Time

LEMMA OutcomeType ==
  ASSUME NEW lookup \in Lookups, NEW found \in Addresses \union {Nothing}
  PROVE  OutcomeOf(lookup, found) \in Outcomes
  BY ResolutionAssumption DEF OutcomeOf, Outcomes, Types

LEMMA TypeInductive == TypeOK /\ [Next]_vars => TypeOK'
<1> SUFFICES ASSUME TypeOK, [Next]_vars
             PROVE  TypeOK'
  OBVIOUS
<1>1. CASE UNCHANGED vars
  BY <1>1 DEF vars, TypeOK
<1>2. ASSUME NEW h \in Handlers, NEW key \in Keys \union {NoKey},
             NEW lookup \in Lookups, Receive(h, key, lookup)
      PROVE  TypeOK'
  <2>1. calls' \in Nat
    BY <1>2 DEF Receive, TypeOK
  <2>2. session'[h] \in Session
    <3>1. session'[h] = [Idle EXCEPT !.pc = "find", !.call = calls + 1,
                           !.key = key, !.lookup = lookup, !.mode = mode]
      BY <1>2 DEF Receive, TypeOK
    <3>2. calls + 1 \in Nat /\ mode \in Modes
      BY DEF TypeOK
    <3>. QED BY <3>1, <3>2, IdleType DEF Session
  <2>3. session' \in [Handlers -> Session]
    BY <1>2, <2>2 DEF Receive, TypeOK
  <2>. QED BY <1>2, <2>1, <2>3 DEF Receive, TypeOK, world
<1>3. ASSUME NEW h \in Handlers, Find(h)
      PROVE  TypeOK'
  <2>1. session' \in [Handlers -> Session] /\ replies' \subseteq Reply
    <3>1. CASE \E row \in Stored(h) : ReplyStored(h, row)
      BY <3>1, ReplyStoredType DEF Stored
    <3>2. CASE UNCHANGED replies /\ session' = [session EXCEPT
             ![h].pc = "count", ![h].decidedAt = now,
             ![h].retention = RetentionExpiresAt(session[h].mode)]
      <4>1. RetentionExpiresAt(session[h].mode) \in Time \union {Never}
        BY RetentionType DEF TypeOK, Session
      <4>2. session' = [session EXCEPT ![h] = [session[h] EXCEPT
              !.pc = "count", !.decidedAt = now,
              !.retention = RetentionExpiresAt(session[h].mode)]]
        BY <3>2 DEF TypeOK
      <4>3. now \in Time /\ session \in [Handlers -> Session]
        BY DEF TypeOK, Time
      <4>4. session' \in [Handlers -> Session]
        BY <4>1, <4>2, <4>3, DecideType
      <4>5. replies' \subseteq Reply
        BY <3>2 DEF TypeOK
      <4>. QED BY <4>4, <4>5
    <3>. QED BY <1>3, <3>1, <3>2 DEF Find
  <2>. QED BY <1>3, <2>1 DEF Find, TypeOK, world
<1>4. ASSUME NEW h \in Handlers, Count(h)
      PROVE  TypeOK'
  BY <1>4, AdvanceType DEF Count, TypeOK, world
<1>5. ASSUME NEW h \in Handlers, Sample(h)
      PROVE  TypeOK'
  <2>1. Advance(h, "lookup") \/ Advance(h, "suspect")
    BY <1>5 DEF Sample
  <2>. QED BY <1>5, <2>1, AdvanceType DEF Sample, TypeOK, world
<1>6. ASSUME NEW h \in Handlers, Block(h)
      PROVE  TypeOK'
  <2>1. rows' \subseteq Row /\ ledger' \subseteq Row
    <3>1. RetentionExpiresAt(mode) \in Time \union {Never}
      BY RetentionType DEF TypeOK
    <3>. QED BY <1>6, <3>1, InsertType DEF Block
  <2>2. session' \in [Handlers -> Session] /\ replies' \subseteq Reply
    <3>1. CASE Respond(h, "throttled", "blocked")
      BY <3>1, RespondType
    <3>2. CASE UNCHANGED replies /\ session' =
            [session EXCEPT ![h].pc = "signal", ![h].outcome = "blocked"]
      <4>1. session' = [session EXCEPT ![h] = [session[h] EXCEPT
              !.pc = "signal", !.outcome = "blocked"]]
        BY <3>2 DEF TypeOK
      <4>. QED BY <3>2, <4>1, OutcomeSetType DEF TypeOK
    <3>. QED BY <1>6, <3>1, <3>2 DEF Block
  <2>. QED BY <1>6, <2>1, <2>2 DEF Block, TypeOK, world
<1>7. ASSUME NEW h \in Handlers, LookUp(h)
      PROVE  TypeOK'
  <2>1. session[h].lookup \in Lookups
    BY DEF TypeOK, Session
  <2>2. OutcomeOf(session[h].lookup, registry[session[h].lookup.subject])
          \in Outcomes
    BY <2>1, OutcomeType, ResolutionAssumption DEF TypeOK
  <2>3. session' = [session EXCEPT ![h] = [session[h] EXCEPT
          !.pc = "record",
          !.outcome = OutcomeOf(session[h].lookup,
                                registry[session[h].lookup.subject])]]
    BY <1>7 DEF LookUp, TypeOK
  <2>4. session' \in [Handlers -> Session]
    BY <2>2, <2>3, OutcomeSetType DEF TypeOK
  <2>. QED BY <1>7, <2>4 DEF LookUp, TypeOK, world
<1>8. ASSUME NEW h \in Handlers, Record(h)
      PROVE  TypeOK'
  <2>1. /\ session[h].key \in Keys \union {NoKey}
        /\ session[h].outcome \in Outcomes \union {"blocked"}
        /\ session[h].retention \in Time \union {Never}
    BY DEF TypeOK, Session
  <2>2. rows' \subseteq Row /\ ledger' \subseteq Row
    BY <1>8, <2>1, InsertType DEF Record, TypeOK
  <2>3. session' \in [Handlers -> Session] /\ replies' \subseteq Reply
    BY <1>8, <2>1, RespondType, AdvanceType DEF Record, TypeOK
  <2>. QED BY <1>8, <2>2, <2>3 DEF Record, TypeOK, world
<1>9. ASSUME NEW h \in Handlers, Signal(h)
      PROVE  TypeOK'
  <2>1. session[h].outcome \in Outcomes \union {"blocked"} /\ session[h].call \in Nat
    BY DEF TypeOK, Session
  <2>2. session' \in [Handlers -> Session] /\ replies' \subseteq Reply
    BY <1>9, <2>1, RespondType, ThrowType DEF Signal
  <2>3. signals' \subseteq Nat
    BY <1>9, <2>1 DEF Signal, TypeOK
  <2>. QED BY <1>9, <2>2, <2>3 DEF Signal, TypeOK, world
<1>10. ASSUME NEW h \in Handlers, Recheck(h)
       PROVE  TypeOK'
  <2>1. session' \in [Handlers -> Session] /\ replies' \subseteq Reply
    BY <1>10, RespondType, ReplyStoredType DEF Recheck, Stored, Outcomes
  <2>. QED BY <1>10, <2>1 DEF Recheck, TypeOK, world
<1>11. ASSUME NEW h \in Handlers, Fail(h)
       PROVE  TypeOK'
  <2>1. session' \in [Handlers -> Session] /\ replies' \subseteq Reply
    BY <1>11, RespondType, ThrowType DEF Fail, Outcomes
  <2>2. faults' \in Nat
    BY <1>11 DEF Fail, TypeOK
  <2>. QED BY <1>11, <2>1, <2>2 DEF Fail, TypeOK
<1>12. CASE Cleanup
  BY <1>12 DEF Cleanup, TypeOK, world
<1>13. ASSUME NEW s \in Subjects, NEW found \in Addresses \union {Nothing},
              ChangeRegistry(s, found)
       PROVE  TypeOK'
  BY <1>13 DEF ChangeRegistry, TypeOK
<1>14. ASSUME NEW m \in PartnerModes, ChangeMode(m)
       PROVE  TypeOK'
  BY <1>14, ResolutionAssumption DEF ChangeMode, TypeOK
<1>15. CASE Tick
  BY <1>15 DEF Tick, TypeOK
<1>. QED
  BY <1>1, <1>2, <1>3, <1>4, <1>5, <1>6, <1>7, <1>8, <1>9, <1>10, <1>11,
     <1>12, <1>13, <1>14, <1>15 DEF Next, HandlerStep

LEMMA TypeInit == Init => TypeOK
  BY IdleType, ResolutionAssumption DEF Init, TypeOK

(* Every row, session and reply keeps its type, for any set of partners'   *)
(* requests, any limits and any retention.                                 *)
THEOREM TypeCorrect == Spec => []TypeOK
<1>1. Init => TypeOK
  BY TypeInit
<1>2. TypeOK /\ [Next]_vars => TypeOK'
  BY TypeInductive
<1>. QED BY <1>1, <1>2, PTL DEF Spec

-----------------------------------------------------------------------------
(* What the properties rest on.  A call number names one request, its row  *)
(* and its reply; a handler past Find knows that rows with its key were    *)
(* inserted after its request arrived; a handler that still owes signals   *)
(* has its row; and with the index, a key has one row.                     *)

Active(h) == session[h].pc # "idle"

CallInv ==
  /\ rows \subseteq ledger
  /\ \A h \in Handlers : Active(h) => session[h].call <= calls
  /\ \A g, h \in Handlers : Active(g) /\ Active(h) /\ g # h =>
       session[g].call # session[h].call
  /\ \A row \in ledger : row.call <= row.calls /\ row.calls <= calls
  /\ \A row \in ledger, h \in Handlers :
       Active(h) /\ row.call = session[h].call =>
         session[h].pc \in {"signal", "rethrow"}
  /\ \A a, b \in ledger : a.call = b.call => a = b
  /\ \A p \in replies : p.call <= calls
  /\ \A p \in replies, h \in Handlers : Active(h) => session[h].call # p.call

Working == {"count", "sample", "throttle", "suspect", "lookup", "record"}

FreshInv ==
  \A h \in Handlers : session[h].pc \in Working =>
    \A row \in Stored(h) : session[h].call <= row.calls

OwedInv ==
  \A h \in Handlers : session[h].pc = "signal" /\ session[h].outcome # "blocked" =>
    \E row \in ledger :
      /\ row.call = session[h].call
      /\ row.key = session[h].key
      /\ row.lookup = session[h].lookup
      /\ row.outcome = session[h].outcome

IndexInv ==
  UniqueIndex => \A a, b \in rows : SameScope(a, b) => a = b

IInv == TypeOK /\ CallInv /\ FreshInv /\ OwedInv /\ IndexInv
          /\ DuplicatesOverlap /\ AnswersAreRecorded

-----------------------------------------------------------------------------
(* The shapes a step can have.                                             *)

Untouched(h) == \A g \in Handlers \ {h} : session'[g] = session[g]

SameRequest(h) ==
  /\ session'[h].call = session[h].call
  /\ session'[h].key = session[h].key
  /\ session'[h].lookup = session[h].lookup

\* The handler goes on and nothing is written.
Works(h) ==
  /\ UNCHANGED <<rows, ledger, signals, replies, calls>>
  /\ Untouched(h)
  /\ SameRequest(h)
  /\ Active(h)
  /\ \/ /\ session[h].pc = "find" /\ Stored(h) = {}
        /\ session'[h].pc = "count"
     \/ /\ session[h].pc \in Working
        /\ session'[h].pc \in Working \union {"recheck", "rethrow"}
     \/ session[h].pc = "signal" /\ session'[h].pc = "rethrow"

\* The handler inserts row r and owes its signals, or answers.
Inserts(h, r) ==
  /\ session[h].pc \in Working
  /\ Untouched(h)
  /\ Insert(r)
  /\ r.call = session[h].call
  /\ r.lookup = session[h].lookup
  /\ r.calls = calls
  /\ \/ r.key = NoKey
     \/ r.key = session[h].key /\ (UniqueIndex => Stored(h) = {})
  /\ UNCHANGED <<signals, calls>>
  /\ \/ /\ UNCHANGED replies
        /\ SameRequest(h)
        /\ session'[h].pc = "signal"
        /\ session'[h].outcome = r.outcome
        /\ r.outcome # "blocked" => r.key = session[h].key
     \/ /\ session'[h].pc = "idle"
        /\ \E p \in Reply :
             /\ replies' = replies \union {p}
             /\ p.call = session[h].call
             /\ p.key = session[h].key
             /\ p.lookup = session[h].lookup
             /\ p.kind = "answer" => /\ p.outcome = r.outcome
                                     /\ p.key = r.key
                                     /\ ~Flagged(p.outcome)

\* The handler ends with reply p.
Ends(h, p) ==
  /\ Active(h)
  /\ Untouched(h)
  /\ session'[h].pc = "idle"
  /\ UNCHANGED <<rows, ledger, calls>>
  /\ replies' = replies \union {p}
  /\ p.call = session[h].call
  /\ p.key = session[h].key
  /\ p.lookup = session[h].lookup
  /\ \/ /\ UNCHANGED signals
        /\ p.kind = "answer" =>
             /\ session[h].pc \in {"find", "recheck"}
             /\ \E row \in Stored(h) :
                  row.lookup = p.lookup /\ row.outcome = p.outcome
     \/ /\ session[h].pc = "signal"
        /\ signals' = signals \union {session[h].call}
        /\ p.kind = "answer" => p.outcome = session[h].outcome
                                /\ p.outcome # "blocked"

Outside == UNCHANGED <<rows, ledger, signals, session, replies, calls>>

StepShape ==
  \/ Outside
  \/ Cleanup
  \/ \E h \in Handlers, key \in Keys \union {NoKey}, lookup \in Lookups :
       Receive(h, key, lookup)
  \/ \E h \in Handlers : Works(h)
  \/ \E h \in Handlers, r \in Row : Inserts(h, r)
  \/ \E h \in Handlers, p \in Reply : Ends(h, p)

\* Respond as an explicit reply.
LEMMA RespondShape ==
  ASSUME TypeOK, NEW h \in Handlers,
         NEW kind \in {"answer", "conflict", "throttled", "error"},
         NEW outcome \in Outcomes \union {"blocked"}, Respond(h, kind, outcome)
  PROVE  \E p \in Reply :
           /\ p = [call |-> session[h].call, key |-> session[h].key,
                   lookup |-> session[h].lookup, kind |-> kind,
                   outcome |-> outcome]
           /\ replies' = replies \union {p}
           /\ session'[h].pc = "idle"
           /\ Untouched(h)
  <1>1. session[h] \in Session
    BY DEF TypeOK
  <1>2. [call |-> session[h].call, key |-> session[h].key,
         lookup |-> session[h].lookup, kind |-> kind, outcome |-> outcome]
          \in Reply
    BY <1>1 DEF Session, Reply
  <1>3. session'[h].pc = "idle" /\ Untouched(h)
    BY DEF Respond, Untouched, TypeOK, Idle
  <1>. QED BY <1>2, <1>3 DEF Respond

\* A reply that is no answer, with nothing else written.
LEMMA RefuseShape ==
  ASSUME TypeOK, NEW h \in Handlers, Active(h),
         NEW kind \in {"conflict", "throttled", "error"},
         NEW outcome \in Outcomes \union {"blocked"}, Respond(h, kind, outcome),
         UNCHANGED <<rows, ledger, signals, calls>>
  PROVE  \E p \in Reply : Ends(h, p)
  <1>1. PICK p \in Reply :
          /\ p = [call |-> session[h].call, key |-> session[h].key,
                  lookup |-> session[h].lookup, kind |-> kind,
                  outcome |-> outcome]
          /\ replies' = replies \union {p}
          /\ session'[h].pc = "idle"
          /\ Untouched(h)
    BY RespondShape
  <1>. QED BY <1>1 DEF Ends

LEMMA StoredShape ==
  ASSUME TypeOK, NEW h \in Handlers, NEW row \in Stored(h),
         session[h].pc \in {"find", "recheck"} \/ row.lookup # session[h].lookup,
         Active(h), ReplyStored(h, row),
         UNCHANGED <<rows, ledger, signals, calls>>
  PROVE  \E p \in Reply : Ends(h, p)
  <1>1. CASE row.lookup # session[h].lookup
    BY <1>1, RefuseShape DEF ReplyStored, Outcomes
  <1>2. CASE row.lookup = session[h].lookup
    <2>1. row.outcome \in Outcomes \union {"blocked"}
      BY DEF Stored, TypeOK, Row
    <2>2. Respond(h, "answer", row.outcome)
      BY <1>2 DEF ReplyStored
    <2>3. PICK p \in Reply :
            /\ p = [call |-> session[h].call, key |-> session[h].key,
                    lookup |-> session[h].lookup, kind |-> "answer",
                    outcome |-> row.outcome]
            /\ replies' = replies \union {p}
            /\ session'[h].pc = "idle"
            /\ Untouched(h)
      BY <2>1, <2>2, RespondShape
    <2>. QED BY <1>2, <2>3 DEF Ends
  <1>. QED BY <1>1, <1>2

LEMMA ThrowShape ==
  ASSUME TypeOK, NEW h \in Handlers, Active(h), Throw(h),
         UNCHANGED <<rows, ledger, signals, calls>>
  PROVE  Works(h) \/ \E p \in Reply : Ends(h, p)
  <1>1. CASE Advance(h, "rethrow") /\ UNCHANGED replies
             /\ session[h].pc \in {"record", "signal"}
    <2>1. Untouched(h) /\ SameRequest(h) /\ session'[h].pc = "rethrow"
      BY <1>1 DEF Advance, Untouched, SameRequest, TypeOK, Session
    <2>. QED BY <1>1, <2>1 DEF Works, Working
  <1>2. CASE Respond(h, "error", "unverified")
    BY <1>2, RefuseShape DEF Outcomes
  <1>. QED BY <1>1, <1>2 DEF Throw

LEMMA BlockShape ==
  ASSUME TypeOK, NEW h \in Handlers, Block(h)
  PROVE  \E r \in Row : Inserts(h, r)
  <1> DEFINE r == RowOf(h, NoKey, "blocked", RetentionExpiresAt(mode))
  <1>1. r \in Row
    <2>1. RetentionExpiresAt(mode) \in Time \union {Never}
      BY RetentionType DEF TypeOK
    <2>. QED BY <2>1 DEF RowOf, TypeOK, Row, Session, Time
  <1>2. /\ Insert(r) /\ session[h].pc \in Working
        /\ UNCHANGED <<signals, calls>>
    BY DEF Block, Working
  <1>3. /\ r.call = session[h].call /\ r.lookup = session[h].lookup
        /\ r.calls = calls /\ r.key = NoKey /\ r.outcome = "blocked"
    BY DEF RowOf
  <1>4. CASE Respond(h, "throttled", "blocked")
    <2>1. PICK p \in Reply :
            /\ p = [call |-> session[h].call, key |-> session[h].key,
                    lookup |-> session[h].lookup, kind |-> "throttled",
                    outcome |-> "blocked"]
            /\ replies' = replies \union {p}
            /\ session'[h].pc = "idle"
            /\ Untouched(h)
      BY <1>4, RespondShape
    <2>. QED BY <1>1, <1>2, <1>3, <2>1 DEF Inserts
  <1>5. CASE UNCHANGED replies /\ session' =
          [session EXCEPT ![h].pc = "signal", ![h].outcome = "blocked"]
    <2>1. session' = [session EXCEPT ![h] = [session[h] EXCEPT
            !.pc = "signal", !.outcome = "blocked"]]
      BY <1>5 DEF TypeOK
    <2>2. /\ Untouched(h) /\ SameRequest(h) /\ session'[h].pc = "signal"
          /\ session'[h].outcome = "blocked"
      BY <2>1 DEF Untouched, SameRequest, TypeOK, Session
    <2>. QED BY <1>1, <1>2, <1>3, <1>5, <2>2 DEF Inserts
  <1>. QED BY <1>4, <1>5 DEF Block

LEMMA RecordShape ==
  ASSUME TypeOK, NEW h \in Handlers, Record(h)
  PROVE  Works(h) \/ \E r \in Row : Inserts(h, r)
  <1>0. /\ session[h].pc = "record" /\ Active(h)
        /\ UNCHANGED <<signals, calls>>
        /\ session[h] \in Session
    BY DEF Record, Active, TypeOK
  <1>1. CASE /\ Advance(h, "recheck")
             /\ UNCHANGED <<rows, ledger, replies>>
    <2>1. Untouched(h) /\ SameRequest(h) /\ session'[h].pc = "recheck"
      BY <1>1, <1>0 DEF Advance, Untouched, SameRequest, TypeOK, Session
    <2>. QED BY <1>0, <1>1, <2>1 DEF Works, Working
  <1>2. CASE /\ ~(UniqueIndex /\ Stored(h) # {})
             /\ Insert(RowOf(h, session[h].key, session[h].outcome,
                             session[h].retention))
             /\ IF Flagged(session[h].outcome)
                THEN Advance(h, "signal") /\ UNCHANGED replies
                ELSE Respond(h, "answer", session[h].outcome)
    <2> DEFINE r == RowOf(h, session[h].key, session[h].outcome,
                          session[h].retention)
    <2>1. r \in Row
      BY <1>0 DEF RowOf, TypeOK, Row, Session, Time
    <2>2. /\ r.call = session[h].call /\ r.lookup = session[h].lookup
          /\ r.calls = calls /\ r.key = session[h].key
          /\ r.outcome = session[h].outcome
      BY DEF RowOf
    <2>3. /\ Insert(r) /\ session[h].pc \in Working
          /\ UniqueIndex => Stored(h) = {}
      BY <1>0, <1>2 DEF Working
    <2>4. CASE Advance(h, "signal") /\ UNCHANGED replies
      <3>1. /\ Untouched(h) /\ SameRequest(h) /\ session'[h].pc = "signal"
            /\ session'[h].outcome = session[h].outcome
        BY <2>4, <1>0 DEF Advance, Untouched, SameRequest, TypeOK, Session
      <3>. QED BY <1>0, <2>1, <2>2, <2>3, <2>4, <3>1 DEF Inserts
    <2>5. CASE ~Flagged(session[h].outcome)
               /\ Respond(h, "answer", session[h].outcome)
      <3>1. session[h].outcome \in Outcomes \union {"blocked"}
        BY <1>0 DEF Session
      <3>2. PICK p \in Reply :
              /\ p = [call |-> session[h].call, key |-> session[h].key,
                      lookup |-> session[h].lookup, kind |-> "answer",
                      outcome |-> session[h].outcome]
              /\ replies' = replies \union {p}
              /\ session'[h].pc = "idle"
              /\ Untouched(h)
        BY <3>1, <2>5, RespondShape
      <3>. QED BY <1>0, <2>1, <2>2, <2>3, <2>5, <3>2 DEF Inserts
    <2>. QED BY <1>2, <2>4, <2>5
  <1>. QED BY <1>1, <1>2 DEF Record

LEMMA SignalShape ==
  ASSUME TypeOK, NEW h \in Handlers, Signal(h)
  PROVE  Works(h) \/ \E p \in Reply : Ends(h, p)
  <1>0. /\ session[h].pc = "signal" /\ Active(h)
        /\ UNCHANGED <<rows, ledger, calls>>
        /\ session[h].outcome \in Outcomes \union {"blocked"}
    BY DEF Signal, Active, TypeOK, Session
  <1>1. CASE UNCHANGED signals /\ Throw(h)
    BY <1>0, <1>1, ThrowShape
  <1>2. CASE /\ signals' = signals \union {session[h].call}
             /\ Respond(h, IF session[h].outcome = "blocked" THEN "throttled"
                           ELSE "answer", session[h].outcome)
    <2> DEFINE kind == IF session[h].outcome = "blocked" THEN "throttled"
                       ELSE "answer"
    <2>1. kind \in {"answer", "conflict", "throttled", "error"}
      OBVIOUS
    <2>2. Respond(h, kind, session[h].outcome)
      BY <1>2
    <2>3. PICK p \in Reply :
            /\ p = [call |-> session[h].call, key |-> session[h].key,
                    lookup |-> session[h].lookup, kind |-> kind,
                    outcome |-> session[h].outcome]
            /\ replies' = replies \union {p}
            /\ session'[h].pc = "idle"
            /\ Untouched(h)
      BY <1>0, <2>1, <2>2, RespondShape
    <2>4. p.kind = "answer" =>
            p.outcome = session[h].outcome /\ p.outcome # "blocked"
      BY <2>3
    <2>5. /\ p.call = session[h].call /\ p.key = session[h].key
          /\ p.lookup = session[h].lookup
      BY <2>3
    <2>. QED BY <1>0, <1>2, <2>3, <2>4, <2>5 DEF Ends
  <1>. QED BY <1>1, <1>2 DEF Signal

LEMMA NextShape == TypeOK /\ [Next]_vars => StepShape
<1> SUFFICES ASSUME TypeOK, [Next]_vars
             PROVE  StepShape
  OBVIOUS
<1>1. CASE UNCHANGED vars
  BY <1>1 DEF vars, StepShape, Outside
<1>2. ASSUME NEW h \in Handlers, Find(h)
      PROVE  Works(h) \/ \E p \in Reply : Ends(h, p)
  <2>0. session[h].pc = "find" /\ Active(h)
        /\ UNCHANGED <<rows, ledger, signals, calls>>
    BY <1>2 DEF Find, Active
  <2>1. CASE \E row \in Stored(h) : ReplyStored(h, row)
    BY <2>0, <2>1, StoredShape
  <2>2. CASE Stored(h) = {} /\ UNCHANGED replies /\ session' = [session EXCEPT
             ![h].pc = "count", ![h].decidedAt = now,
             ![h].retention = RetentionExpiresAt(session[h].mode)]
    <3>1. session' = [session EXCEPT ![h] = [session[h] EXCEPT
              !.pc = "count", !.decidedAt = now,
              !.retention = RetentionExpiresAt(session[h].mode)]]
      BY <2>2 DEF TypeOK
    <3>2. Untouched(h) /\ SameRequest(h) /\ session'[h].pc = "count"
      BY <3>1 DEF Untouched, SameRequest, TypeOK, Session
    <3>. QED BY <2>0, <2>2, <3>2 DEF Works
  <2>. QED BY <1>2, <2>1, <2>2 DEF Find
<1>3. ASSUME NEW h \in Handlers, Count(h) \/ Sample(h)
      PROVE  Works(h)
  <2>1. PICK pc \in {"throttle", "sample", "lookup", "suspect"} : Advance(h, pc)
    BY <1>3 DEF Count, Sample
  <2>2. Untouched(h) /\ SameRequest(h) /\ session'[h].pc = pc
    BY <2>1 DEF Advance, Untouched, SameRequest, TypeOK, Session
  <2>3. session[h].pc \in {"count", "sample"}
        /\ UNCHANGED <<rows, ledger, signals, replies, calls>>
    BY <1>3 DEF Count, Sample
  <2>. QED BY <2>2, <2>3 DEF Works, Working, Active
<1>4. ASSUME NEW h \in Handlers, LookUp(h)
      PROVE  Works(h)
  <2>1. session' = [session EXCEPT ![h] = [session[h] EXCEPT
          !.pc = "record",
          !.outcome = OutcomeOf(session[h].lookup,
                                registry[session[h].lookup.subject])]]
    BY <1>4 DEF LookUp, TypeOK
  <2>2. Untouched(h) /\ SameRequest(h) /\ session'[h].pc = "record"
    BY <2>1 DEF Untouched, SameRequest, TypeOK, Session
  <2>3. session[h].pc = "lookup"
        /\ UNCHANGED <<rows, ledger, signals, replies, calls>>
    BY <1>4 DEF LookUp
  <2>. QED BY <2>2, <2>3 DEF Works, Working, Active
<1>5. ASSUME NEW h \in Handlers, Recheck(h)
      PROVE  \E p \in Reply : Ends(h, p)
  <2>0. Active(h) /\ UNCHANGED <<rows, ledger, signals, calls>>
        /\ session[h].pc \in {"recheck", "rethrow"}
    BY <1>5 DEF Recheck, Active
  <2>1. CASE Respond(h, "error", "unverified")
    BY <2>0, <2>1, RefuseShape DEF Outcomes
  <2>2. CASE \E row \in Stored(h) :
               (session[h].pc = "recheck" \/ row.lookup # session[h].lookup)
               /\ ReplyStored(h, row)
    BY <2>0, <2>2, StoredShape
  <2>. QED BY <1>5, <2>1, <2>2 DEF Recheck
<1>6. ASSUME NEW h \in Handlers, Fail(h)
      PROVE  Works(h) \/ \E p \in Reply : Ends(h, p)
  <2>0. Active(h) /\ UNCHANGED <<rows, ledger, signals, calls>>
    BY <1>6 DEF Fail, Active
  <2>1. CASE Throw(h)
    BY <2>0, <2>1, ThrowShape
  <2>2. CASE Respond(h, "error", "unverified")
    BY <2>0, <2>2, RefuseShape DEF Outcomes
  <2>. QED BY <1>6, <2>1, <2>2 DEF Fail
<1>7. CASE \/ \E s \in Subjects, found \in Addresses \union {Nothing} :
                 ChangeRegistry(s, found)
           \/ \E m \in PartnerModes : ChangeMode(m)
           \/ Tick
  BY <1>7 DEF ChangeRegistry, ChangeMode, Tick, StepShape, Outside
<1>8. ASSUME NEW h \in Handlers, HandlerStep(h) \/ Fail(h)
      PROVE  \/ Works(h)
             \/ \E r \in Row : Inserts(h, r)
             \/ \E p \in Reply : Ends(h, p)
  BY <1>2, <1>3, <1>4, <1>5, <1>6, <1>8, BlockShape, RecordShape, SignalShape
     DEF HandlerStep
<1>. QED BY <1>1, <1>7, <1>8 DEF Next, StepShape

-----------------------------------------------------------------------------
(* The invariants, shape by shape.                                         *)

LEMMA CallInductive ==
  ASSUME TypeOK, CallInv, StepShape
  PROVE  CallInv'
<1>0. /\ calls \in Nat
      /\ \A h \in Handlers : session[h].call \in Nat
      /\ \A row \in ledger : row.call \in Nat /\ row.calls \in Nat
      /\ \A p \in replies : p.call \in Nat
  BY DEF TypeOK, Session, Row, Reply
<1>1. CASE Outside
  BY <1>1 DEF Outside, CallInv, Active
<1>2. CASE Cleanup
  <2>1. rows' \subseteq rows /\ UNCHANGED <<ledger, session, replies, calls>>
    BY <1>2 DEF Cleanup
  <2>. QED BY <2>1 DEF CallInv, Active
<1>3. ASSUME NEW h \in Handlers, NEW key \in Keys \union {NoKey},
             NEW lookup \in Lookups, Receive(h, key, lookup)
      PROVE  CallInv'
  <2>1. /\ calls' = calls + 1
        /\ UNCHANGED <<rows, ledger, replies>>
        /\ Untouched(h)
    BY <1>3 DEF Receive, Untouched, TypeOK
  <2>2. session'[h].call = calls + 1
    <3>1. session'[h] = [Idle EXCEPT !.pc = "find", !.call = calls + 1,
                           !.key = key, !.lookup = lookup, !.mode = mode]
      BY <1>3 DEF Receive, TypeOK
    <3>. QED BY <3>1 DEF Idle
  <2>3. \A g \in Handlers : g # h => session'[g] = session[g]
    BY <2>1 DEF Untouched
  <2>. QED BY <1>0, <2>1, <2>2, <2>3 DEF CallInv, Active
<1>4. ASSUME NEW h \in Handlers, Works(h)
      PROVE  CallInv'
  <2>1. /\ UNCHANGED <<rows, ledger, replies, calls>>
        /\ session'[h].call = session[h].call
        /\ Active(h)
        /\ \A g \in Handlers : g # h => session'[g] = session[g]
    BY <1>4 DEF Works, Untouched, SameRequest
  <2>2. \A row \in ledger : row.call = session[h].call =>
          session'[h].pc \in {"signal", "rethrow"}
    BY <1>4 DEF Works, Working, CallInv, Active
  <2>. QED BY <1>0, <2>1, <2>2 DEF CallInv, Active
<1>5. ASSUME NEW h \in Handlers, NEW r \in Row, Inserts(h, r)
      PROVE  CallInv'
  <2>1. /\ rows' = rows \union {r} /\ ledger' = ledger \union {r}
        /\ r.call = session[h].call /\ r.calls = calls
        /\ calls' = calls
        /\ Active(h)
        /\ \A g \in Handlers : g # h => session'[g] = session[g]
    BY <1>5 DEF Inserts, Insert, Untouched, Active, Working
  <2>2. \A row \in ledger : row.call # session[h].call
    BY <1>5 DEF Inserts, Working, CallInv, Active
  <2>3. CASE /\ UNCHANGED replies
             /\ session'[h].call = session[h].call
             /\ session'[h].pc = "signal"
    BY <1>0, <2>1, <2>2, <2>3 DEF CallInv, Active
  <2>4. CASE /\ session'[h].pc = "idle"
             /\ \E p \in Reply : /\ replies' = replies \union {p}
                                 /\ p.call = session[h].call
    <3>1. PICK p \in Reply : /\ replies' = replies \union {p}
                             /\ p.call = session[h].call
      BY <2>4
    <3>. QED BY <1>0, <2>1, <2>2, <2>4, <3>1 DEF CallInv, Active
  <2>. QED BY <1>5, <2>3, <2>4 DEF Inserts, SameRequest
<1>6. ASSUME NEW h \in Handlers, NEW p \in Reply, Ends(h, p)
      PROVE  CallInv'
  <2>1. /\ UNCHANGED <<rows, ledger, calls>>
        /\ replies' = replies \union {p} /\ p.call = session[h].call
        /\ session'[h].pc = "idle"
        /\ Active(h)
        /\ \A g \in Handlers : g # h => session'[g] = session[g]
    BY <1>6 DEF Ends, Untouched
  <2>. QED BY <1>0, <2>1 DEF CallInv, Active
<1>. QED BY <1>1, <1>2, <1>3, <1>4, <1>5, <1>6 DEF StepShape

LEMMA FreshInductive ==
  ASSUME TypeOK, CallInv, FreshInv, StepShape
  PROVE  FreshInv'
<1>0. /\ calls \in Nat
      /\ \A h \in Handlers : session[h].call \in Nat
      /\ \A row \in ledger : row.call \in Nat /\ row.calls \in Nat
  BY DEF TypeOK, Session, Row
<1>1. CASE Outside
  BY <1>1 DEF Outside, FreshInv, Stored
<1>2. CASE Cleanup
  <2>1. rows' \subseteq rows /\ UNCHANGED session
    BY <1>2 DEF Cleanup
  <2>. QED BY <2>1 DEF FreshInv, Stored
<1>3. ASSUME NEW h \in Handlers, NEW key \in Keys \union {NoKey},
             NEW lookup \in Lookups, Receive(h, key, lookup)
      PROVE  FreshInv'
  <2>1. UNCHANGED rows /\ Untouched(h)
    BY <1>3 DEF Receive, Untouched, TypeOK
  <2>2. session'[h].pc = "find"
    <3>1. session'[h] = [Idle EXCEPT !.pc = "find", !.call = calls + 1,
                           !.key = key, !.lookup = lookup, !.mode = mode]
      BY <1>3 DEF Receive, TypeOK
    <3>. QED BY <3>1 DEF Idle
  <2>. QED BY <2>1, <2>2 DEF FreshInv, Stored, Working, Untouched
<1>4. ASSUME NEW h \in Handlers, Works(h)
      PROVE  FreshInv'
  <2>1. /\ UNCHANGED rows
        /\ session'[h].call = session[h].call
        /\ session'[h].key = session[h].key
        /\ session'[h].lookup = session[h].lookup
        /\ \A g \in Handlers : g # h => session'[g] = session[g]
    BY <1>4 DEF Works, Untouched, SameRequest
  <2>2. session'[h].pc \in Working =>
          session[h].pc \in Working \/ Stored(h) = {}
    BY <1>4 DEF Works, Working
  <2>. QED BY <2>1, <2>2 DEF FreshInv, Stored
<1>5. ASSUME NEW h \in Handlers, NEW r \in Row, Inserts(h, r)
      PROVE  FreshInv'
  <2>1. /\ rows' = rows \union {r} /\ r.calls = calls
        /\ session'[h].pc \notin Working
        /\ \A g \in Handlers : g # h => session'[g] = session[g]
    BY <1>5 DEF Inserts, Insert, Untouched, Working
  <2>2. \A g \in Handlers : session[g].pc \in Working =>
          session[g].call <= r.calls
    BY <2>1 DEF CallInv, Active, Working
  <2>. QED BY <2>1, <2>2 DEF FreshInv, Stored
<1>6. ASSUME NEW h \in Handlers, NEW p \in Reply, Ends(h, p)
      PROVE  FreshInv'
  <2>1. /\ UNCHANGED rows
        /\ session'[h].pc \notin Working
        /\ \A g \in Handlers : g # h => session'[g] = session[g]
    BY <1>6 DEF Ends, Untouched, Working
  <2>. QED BY <2>1 DEF FreshInv, Stored
<1>. QED BY <1>1, <1>2, <1>3, <1>4, <1>5, <1>6 DEF StepShape

LEMMA OwedInductive ==
  ASSUME TypeOK, OwedInv, StepShape
  PROVE  OwedInv'
<1>1. CASE Outside
  BY <1>1 DEF Outside, OwedInv
<1>2. CASE Cleanup
  BY <1>2 DEF Cleanup, OwedInv
<1>3. ASSUME NEW h \in Handlers, NEW key \in Keys \union {NoKey},
             NEW lookup \in Lookups, Receive(h, key, lookup)
      PROVE  OwedInv'
  <2>1. UNCHANGED ledger /\ Untouched(h)
    BY <1>3 DEF Receive, Untouched, TypeOK
  <2>2. session'[h].pc = "find"
    <3>1. session'[h] = [Idle EXCEPT !.pc = "find", !.call = calls + 1,
                           !.key = key, !.lookup = lookup, !.mode = mode]
      BY <1>3 DEF Receive, TypeOK
    <3>. QED BY <3>1 DEF Idle
  <2>. QED BY <2>1, <2>2 DEF OwedInv, Untouched
<1>4. ASSUME NEW h \in Handlers, Works(h)
      PROVE  OwedInv'
  <2>1. /\ UNCHANGED ledger
        /\ session'[h].pc # "signal"
        /\ \A g \in Handlers : g # h => session'[g] = session[g]
    BY <1>4 DEF Works, Untouched, Working
  <2>. QED BY <2>1 DEF OwedInv
<1>5. ASSUME NEW h \in Handlers, NEW r \in Row, Inserts(h, r)
      PROVE  OwedInv'
  <2>1. /\ ledger' = ledger \union {r}
        /\ r.call = session[h].call /\ r.lookup = session[h].lookup
        /\ \A g \in Handlers : g # h => session'[g] = session[g]
    BY <1>5 DEF Inserts, Insert, Untouched
  <2>2. session'[h].pc = "signal" =>
          /\ session'[h].call = session[h].call
          /\ session'[h].key = session[h].key
          /\ session'[h].lookup = session[h].lookup
          /\ session'[h].outcome = r.outcome
          /\ r.outcome # "blocked" => r.key = session[h].key
    BY <1>5 DEF Inserts, SameRequest
  <2>. QED BY <2>1, <2>2 DEF OwedInv
<1>6. ASSUME NEW h \in Handlers, NEW p \in Reply, Ends(h, p)
      PROVE  OwedInv'
  <2>1. /\ UNCHANGED ledger
        /\ session'[h].pc # "signal"
        /\ \A g \in Handlers : g # h => session'[g] = session[g]
    BY <1>6 DEF Ends, Untouched
  <2>. QED BY <2>1 DEF OwedInv
<1>. QED BY <1>1, <1>2, <1>3, <1>4, <1>5, <1>6 DEF StepShape

\* A step changes the rows by deleting some or by inserting one.
LEMMA RowsShape ==
  ASSUME StepShape
  PROVE  \/ rows' \subseteq rows
         \/ \E h \in Handlers, r \in Row : Inserts(h, r)
  BY DEF StepShape, Outside, Cleanup, Receive, Works, Ends

LEMMA IndexInductive ==
  ASSUME TypeOK, IndexInv, StepShape
  PROVE  IndexInv'
<1>1. CASE rows' \subseteq rows
  BY <1>1 DEF IndexInv, SameScope
<1>2. ASSUME NEW h \in Handlers, NEW r \in Row, Inserts(h, r)
      PROVE  IndexInv'
  <2>1. rows' = rows \union {r}
    BY <1>2 DEF Inserts, Insert
  <2>2. UniqueIndex => \A row \in rows : ~SameScope(row, r) /\ ~SameScope(r, row)
    BY <1>2 DEF Inserts, SameScope, Stored
  <2>. QED BY <2>1, <2>2 DEF IndexInv, SameScope
<1>. QED BY <1>1, <1>2, RowsShape

LEMMA OverlapInductive ==
  ASSUME TypeOK, CallInv, FreshInv, DuplicatesOverlap, StepShape
  PROVE  DuplicatesOverlap'
<1>1. CASE rows' \subseteq rows
  BY <1>1 DEF DuplicatesOverlap, SameScope
<1>2. ASSUME NEW h \in Handlers, NEW r \in Row, Inserts(h, r)
      PROVE  DuplicatesOverlap'
  <2>1. /\ rows' = rows \union {r}
        /\ r.call = session[h].call /\ r.calls = calls
        /\ r.lookup = session[h].lookup
        /\ r.key # NoKey => r.key = session[h].key
        /\ session[h].pc \in Working
    BY <1>2 DEF Inserts, Insert
  <2>2. \A row \in rows : SameScope(row, r) => r.call <= row.calls
    BY <2>1 DEF FreshInv, Stored, SameScope
  <2>3. \A row \in rows : row.call <= r.calls
    <3>1. \A row \in rows : row \in ledger /\ row.call \in Nat /\ row.calls \in Nat
      BY DEF CallInv, TypeOK, Row
    <3>2. calls \in Nat
      BY DEF TypeOK
    <3>. QED BY <2>1, <3>1, <3>2 DEF CallInv
  <2>. QED BY <2>1, <2>2, <2>3 DEF DuplicatesOverlap, SameScope
<1>. QED BY <1>1, <1>2, RowsShape

\* The two halves of AnswersAreRecorded for one answer.
OnRecord(p) ==
  \E row \in ledger :
    /\ row.key = p.key
    /\ row.lookup = p.lookup
    /\ row.outcome = p.outcome
    /\ row.call = p.call \/ p.key # NoKey

Signalled(p) ==
  \A row \in rows : row.call = p.call /\ Flagged(p.outcome) => p.call \in signals

LEMMA RecordedInductive ==
  ASSUME TypeOK, CallInv, OwedInv, AnswersAreRecorded, StepShape
  PROVE  AnswersAreRecorded'
<1> USE DEF OnRecord, Signalled
<1>0. \A p \in replies : p.kind = "answer" => OnRecord(p) /\ Signalled(p)
  BY DEF AnswersAreRecorded
<1>1. CASE Outside
  BY <1>1 DEF Outside, AnswersAreRecorded
<1>2. CASE Cleanup
  <2>1. /\ rows' \subseteq rows /\ UNCHANGED <<ledger, replies>>
        /\ signals' = signals \ {row.call : row \in rows \ rows'}
    BY <1>2 DEF Cleanup
  <2>2. \A a, b \in rows : a.call = b.call => a = b
    BY DEF CallInv
  <2>. QED BY <1>0, <2>1, <2>2 DEF AnswersAreRecorded
<1>3. CASE \/ \E h \in Handlers, key \in Keys \union {NoKey}, lookup \in Lookups :
                Receive(h, key, lookup)
           \/ \E h \in Handlers : Works(h)
  <2>1. UNCHANGED <<rows, ledger, replies, signals>>
    BY <1>3 DEF Receive, Works
  <2>. QED BY <2>1 DEF AnswersAreRecorded
<1>4. ASSUME NEW h \in Handlers, NEW r \in Row, Inserts(h, r)
      PROVE  AnswersAreRecorded'
  <2>1. /\ rows' = rows \union {r} /\ ledger' = ledger \union {r}
        /\ r.call = session[h].call /\ r.lookup = session[h].lookup
        /\ UNCHANGED signals
        /\ Active(h)
    BY <1>4 DEF Inserts, Insert, Active, Working
  <2>2. \A p \in replies : r.call # p.call
    BY <2>1 DEF CallInv
  <2>3. \A p \in replies : p.kind = "answer" => OnRecord(p)' /\ Signalled(p)'
    BY <1>0, <2>1, <2>2
  <2>4. CASE UNCHANGED replies
    BY <2>3, <2>4 DEF AnswersAreRecorded
  <2>5. ASSUME NEW p \in Reply, replies' = replies \union {p},
               p.call = session[h].call, p.lookup = session[h].lookup,
               p.kind = "answer" => /\ p.outcome = r.outcome
                                    /\ p.key = r.key
                                    /\ ~Flagged(p.outcome)
        PROVE  AnswersAreRecorded'
    <3>1. p.kind = "answer" => OnRecord(p)' /\ Signalled(p)'
      BY <2>1, <2>5
    <3>. QED BY <2>3, <2>5, <3>1 DEF AnswersAreRecorded
  <2>. QED BY <1>4, <2>4, <2>5 DEF Inserts
<1>5. ASSUME NEW h \in Handlers, NEW p \in Reply, Ends(h, p)
      PROVE  AnswersAreRecorded'
  <2>1. /\ UNCHANGED <<rows, ledger>>
        /\ replies' = replies \union {p}
        /\ p.call = session[h].call /\ p.key = session[h].key
        /\ p.lookup = session[h].lookup
        /\ Active(h)
        /\ signals \subseteq signals'
    BY <1>5 DEF Ends
  <2>2. \A q \in replies : q.kind = "answer" => OnRecord(q)' /\ Signalled(q)'
    BY <1>0, <2>1
  <2>3. p.kind = "answer" => OnRecord(p)' /\ Signalled(p)'
    <3>1. CASE /\ session[h].pc \in {"find", "recheck"}
               /\ \E row \in Stored(h) :
                    row.lookup = p.lookup /\ row.outcome = p.outcome
      <4>1. \A row \in rows : row.call # p.call
        BY <2>1, <3>1 DEF CallInv
      <4>2. PICK row \in Stored(h) : row.lookup = p.lookup /\ row.outcome = p.outcome
        BY <3>1
      <4>3. row \in ledger /\ row.key = p.key /\ p.key # NoKey
        BY <2>1, <4>2 DEF Stored, CallInv
      <4>. QED BY <2>1, <4>1, <4>2, <4>3
    <3>2. CASE /\ session[h].pc = "signal"
               /\ signals' = signals \union {session[h].call}
               /\ p.outcome = session[h].outcome
               /\ p.outcome # "blocked"
      BY <2>1, <3>2 DEF OwedInv
    <3>. QED BY <1>5, <3>1, <3>2 DEF Ends
  <2>. QED BY <2>1, <2>2, <2>3 DEF AnswersAreRecorded
<1>. QED BY <1>1, <1>2, <1>3, <1>4, <1>5 DEF StepShape

LEMMA IInvInductive == IInv /\ [Next]_vars => IInv'
  BY TypeInductive, NextShape, CallInductive, FreshInductive, OwedInductive,
     IndexInductive, OverlapInductive, RecordedInductive DEF IInv

LEMMA IInvInit == Init => IInv
<1> SUFFICES ASSUME Init
             PROVE  IInv
  OBVIOUS
<1>1. /\ rows = {} /\ ledger = {} /\ replies = {}
      /\ \A h \in Handlers : session[h].pc = "idle"
  BY DEF Init, Idle
<1>2. CallInv /\ FreshInv /\ OwedInv /\ IndexInv
  BY <1>1 DEF CallInv, FreshInv, OwedInv, IndexInv, Active, Working
<1>3. DuplicatesOverlap /\ AnswersAreRecorded
  BY <1>1 DEF DuplicatesOverlap, AnswersAreRecorded
<1>. QED BY <1>2, <1>3, TypeInit DEF IInv

(* On the schema as it is, with or without the index: only overlapping     *)
(* requests are executed for one key.                                      *)
THEOREM SequentialRetries == Spec => []DuplicatesOverlap
<1>1. IInv => DuplicatesOverlap
  BY DEF IInv
<1>. QED BY <1>1, IInvInit, IInvInductive, PTL DEF Spec

(* No partner is told what is not on record.                               *)
THEOREM NothingUnrecorded == Spec => []AnswersAreRecorded
<1>1. IInv => AnswersAreRecorded
  BY DEF IInv
<1>. QED BY <1>1, IInvInit, IInvInductive, PTL DEF Spec

(* With the unique index that the handlers' catch clause expects, a key    *)
(* answers one request with one answer, as README promises, until          *)
(* retention deletes its row.                                              *)
THEOREM IndexSuffices == Spec => [](UniqueIndex => OneAnswerPerKey)
<1>1. IInv => (UniqueIndex => OneAnswerPerKey)
  <2> SUFFICES ASSUME IInv, UniqueIndex, NEW p \in replies, NEW q \in replies,
                      p.kind = "answer", q.kind = "answer", SameScope(p, q),
                      \A row \in ledger \ rows : ~SameScope(p, row)
               PROVE  p.lookup = q.lookup /\ p.outcome = q.outcome
    BY DEF OneAnswerPerKey
  <2>1. PICK a \in ledger : /\ a.key = p.key /\ a.lookup = p.lookup
                            /\ a.outcome = p.outcome
    BY DEF IInv, AnswersAreRecorded
  <2>2. PICK b \in ledger : /\ b.key = q.key /\ b.lookup = q.lookup
                            /\ b.outcome = q.outcome
    BY DEF IInv, AnswersAreRecorded
  <2>3. SameScope(p, a) /\ SameScope(p, b) /\ SameScope(a, b)
    BY <2>1, <2>2 DEF SameScope
  <2>4. a \in rows /\ b \in rows
    BY <2>3
  <2>5. a = b
    BY <2>3, <2>4 DEF IInv, IndexInv
  <2>. QED BY <2>1, <2>2, <2>5
<1>. QED BY <1>1, IInvInit, IInvInductive, PTL DEF Spec

-----------------------------------------------------------------------------
(* The rate limit.  A handler that was counted and has not recorded its    *)
(* lookup will add a row the count did not see; the rows of the window and *)
(* these handlers together stay below the limit and the handlers there are.*)

Answered(t) == {row \in Since(t) : row.outcome # "blocked"}

Counted == {"sample", "lookup", "record"}
Admitted == {h \in Handlers : session[h].pc \in Counted}

LimitInv ==
  /\ IsFiniteSet(rows)
  /\ \A h \in Handlers : session[h].pc = "count" => session[h].decidedAt <= now
  /\ Cardinality(Answered(now - Window)) + Cardinality(Admitted)
       < MaxRequests + Cardinality(Handlers)

\* What the sum does when rows go and handlers end, when a handler records, and
\* when the count is below the limit.
LEMMA SumsShrink ==
  ASSUME NEW A, NEW B, IsFiniteSet(A), IsFiniteSet(B), NEW C \in SUBSET A,
         NEW D \in SUBSET B, NEW n \in Nat, Cardinality(A) + Cardinality(B) < n
  PROVE  Cardinality(C) + Cardinality(D) < n
<1>1. /\ Cardinality(A) \in Nat /\ Cardinality(B) \in Nat
      /\ Cardinality(C) \in Nat /\ Cardinality(D) \in Nat
      /\ Cardinality(C) <= Cardinality(A) /\ Cardinality(D) <= Cardinality(B)
  BY FS_CardinalityType, FS_Subset
<1>. QED BY <1>1

LEMMA SumsMove ==
  ASSUME NEW A, NEW B, IsFiniteSet(A), IsFiniteSet(B), NEW r, NEW h \in B,
         NEW C \in SUBSET (A \union {r}), NEW D \in SUBSET (B \ {h}), NEW n \in Nat,
         Cardinality(A) + Cardinality(B) < n
  PROVE  Cardinality(C) + Cardinality(D) < n
<1>1. /\ IsFiniteSet(A \union {r}) /\ IsFiniteSet(B \ {h})
      /\ Cardinality(A) \in Nat /\ Cardinality(B) \in Nat
  BY FS_AddElement, FS_RemoveElement, FS_CardinalityType
<1>2. /\ Cardinality(A \union {r}) <= Cardinality(A) + 1
      /\ Cardinality(B \ {h}) = Cardinality(B) - 1
  BY <1>1, FS_AddElement, FS_RemoveElement
<1>3. /\ Cardinality(C) <= Cardinality(A \union {r})
      /\ Cardinality(D) <= Cardinality(B \ {h})
      /\ Cardinality(C) \in Nat /\ Cardinality(D) \in Nat
      /\ Cardinality(A \union {r}) \in Nat
  BY <1>1, FS_Subset, FS_CardinalityType
<1>. QED BY <1>1, <1>2, <1>3

LEMMA SumsBounded ==
  ASSUME NEW A, NEW B, IsFiniteSet(A), IsFiniteSet(B), NEW C \in SUBSET A,
         NEW D \in SUBSET B, NEW n \in Nat, Cardinality(A) < n
  PROVE  Cardinality(C) + Cardinality(D) < n + Cardinality(B)
<1>1. /\ Cardinality(A) \in Nat /\ Cardinality(B) \in Nat
      /\ Cardinality(C) \in Nat /\ Cardinality(D) \in Nat
      /\ Cardinality(C) <= Cardinality(A) /\ Cardinality(D) <= Cardinality(B)
  BY FS_CardinalityType, FS_Subset
<1>. QED BY <1>1

LEMMA LimitBasics ==
  ASSUME TypeOK, LimitInv
  PROVE  /\ IsFiniteSet(Answered(now - Window)) /\ IsFiniteSet(Admitted)
         /\ MaxRequests + Cardinality(Handlers) \in Nat
         /\ Window \in Nat /\ MaxRequests \in Nat /\ now \in Nat
         /\ \A row \in rows : row.requestedAt \in Nat
<1>1. IsFiniteSet(Handlers) /\ Window \in Nat /\ MaxRequests \in Nat
  BY ResolutionAssumption
<1>2. IsFiniteSet(Admitted)
  BY <1>1, FS_Subset DEF Admitted
<1>3. IsFiniteSet(Answered(now - Window))
  BY FS_Subset DEF LimitInv, Answered, Since
<1>4. Cardinality(Handlers) \in Nat
  BY <1>1, FS_CardinalityType
<1>. QED BY <1>1, <1>2, <1>3, <1>4 DEF TypeOK, Row, Time

\* A step that adds no answered row to the window and no handler to those
\* admitted.
LEMMA LimitKept ==
  ASSUME TypeOK, LimitInv, IsFiniteSet(rows'),
         Answered(now - Window)' \subseteq Answered(now - Window),
         Admitted' \subseteq Admitted,
         \A h \in Handlers :
           session'[h].pc = "count" => session'[h].decidedAt <= now'
  PROVE  LimitInv'
<1> DEFINE A == Answered(now - Window)
           C == Answered(now - Window)'
           n == MaxRequests + Cardinality(Handlers)
<1>1. /\ IsFiniteSet(A) /\ IsFiniteSet(Admitted) /\ n \in Nat
      /\ Cardinality(A) + Cardinality(Admitted) < n
  BY LimitBasics DEF LimitInv
<1> HIDE DEF A, C, n
<1>2. C \subseteq A
  BY DEF A, C
<1>3. Cardinality(C) + Cardinality(Admitted') < n
  BY <1>1, <1>2, SumsShrink
<1>. QED BY <1>3 DEF LimitInv, C, n

\* A handler goes on or ends without being admitted, and no row is inserted that
\* counts.
LEMMA HandlerKept ==
  ASSUME TypeOK, LimitInv, NEW h \in Handlers, now' = now,
         \A g \in Handlers \ {h} : session'[g] = session[g],
         session'[h].pc \in Counted => session[h].pc \in Counted,
         session'[h].pc = "count" => session'[h].decidedAt <= now,
         \/ UNCHANGED rows
         \/ \E r \in Row : r.outcome = "blocked" /\ rows' = rows \union {r}
  PROVE  LimitInv'
<1>1. IsFiniteSet(rows')
  BY FS_AddElement DEF LimitInv
<1>2. Answered(now - Window)' \subseteq Answered(now - Window)
  BY DEF Answered, Since
<1>3. Admitted' \subseteq Admitted
  BY DEF Admitted
<1>4. \A g \in Handlers :
        session'[g].pc = "count" => session'[g].decidedAt <= now'
  BY DEF LimitInv
<1>. QED BY <1>1, <1>2, <1>3, <1>4, LimitKept

\* What the handler's statements leave alone, and where they lead.
LEMMA RespondEnds ==
  ASSUME TypeOK, NEW h \in Handlers, NEW kind, NEW outcome, Respond(h, kind, outcome)
  PROVE  /\ session'[h].pc = "idle"
         /\ \A g \in Handlers \ {h} : session'[g] = session[g]
  BY DEF Respond, Idle, TypeOK

LEMMA AdvanceMoves ==
  ASSUME TypeOK, NEW h \in Handlers, NEW pc, Advance(h, pc)
  PROVE  /\ session'[h].pc = pc /\ session'[h].decidedAt = session[h].decidedAt
         /\ \A g \in Handlers \ {h} : session'[g] = session[g]
  BY DEF Advance, TypeOK, Session

LEMMA ThrowEnds ==
  ASSUME TypeOK, NEW h \in Handlers, Throw(h)
  PROVE  /\ session'[h].pc \in {"idle", "rethrow"}
         /\ \A g \in Handlers \ {h} : session'[g] = session[g]
  BY RespondEnds, AdvanceMoves DEF Throw

LEMMA ReplyStoredEnds ==
  ASSUME TypeOK, NEW h \in Handlers, NEW row, ReplyStored(h, row)
  PROVE  /\ session'[h].pc = "idle"
         /\ \A g \in Handlers \ {h} : session'[g] = session[g]
  BY RespondEnds DEF ReplyStored

\* The count: below the limit, whatever is admitted beside it.
LEMMA CountLimit ==
  ASSUME TypeOK, LimitInv, NEW h \in Handlers, Count(h)
  PROVE  LimitInv'
<1> DEFINE recent == Since(session[h].decidedAt - Window)
           below == Cardinality(recent) < MaxRequests
<1>1. /\ session[h].pc = "count"
      /\ Advance(h, IF Cardinality(recent) >= MaxRequests THEN "throttle" ELSE "sample")
      /\ UNCHANGED <<rows, now>>
  BY DEF Count, world
<1>2. IsFiniteSet(recent) /\ Cardinality(recent) \in Nat
  <2>1. recent \in SUBSET rows
    BY DEF Since
  <2>. QED BY <2>1, FS_Subset, FS_CardinalityType DEF LimitInv
<1>3. session'[h].pc # "count" /\ \A g \in Handlers \ {h} : session'[g] = session[g]
  BY <1>1, AdvanceMoves
<1>4. CASE ~below
  <2>1. session'[h].pc = "throttle"
    BY <1>1, <1>2, <1>4, LimitBasics, AdvanceMoves
  <2>. QED BY <1>1, <1>3, <2>1, HandlerKept DEF Counted
<1>5. CASE below
  <2>1. Answered(now - Window) \subseteq recent
    <3>1. session[h].decidedAt <= now /\ session[h].decidedAt \in Nat
      BY <1>1 DEF LimitInv, TypeOK, Session, Time
    <3>. QED BY <3>1, LimitBasics DEF Answered, Since
  <2>2. Answered(now - Window)' = Answered(now - Window)
    BY <1>1 DEF Answered, Since
  <2>3. Admitted' \in SUBSET Handlers
    BY DEF Admitted
  <2> DEFINE A == Answered(now - Window)
  <2> HIDE DEF A, recent
  <2>4. Cardinality(A) + Cardinality(Admitted') < MaxRequests + Cardinality(Handlers)
    BY <1>2, <1>5, <2>1, <2>3, LimitBasics, ResolutionAssumption, SumsBounded DEF A
  <2>5. \A g \in Handlers :
          session'[g].pc = "count" => session'[g].decidedAt <= now'
    BY <1>1, <1>3 DEF LimitInv
  <2>. QED BY <1>1, <2>2, <2>4, <2>5 DEF LimitInv, A
<1>. QED BY <1>4, <1>5

\* Recording takes a handler out of the admitted and adds one row.
LEMMA RecordLimit ==
  ASSUME TypeOK, LimitInv, NEW h \in Handlers, Record(h)
  PROVE  LimitInv'
<1>1. session[h].pc = "record" /\ now' = now
  BY DEF Record, world
<1>2. /\ session'[h].pc \in {"recheck", "signal", "idle"}
      /\ \A g \in Handlers \ {h} : session'[g] = session[g]
  BY RespondEnds, AdvanceMoves DEF Record
<1>3. CASE UNCHANGED rows
  BY <1>1, <1>2, <1>3, HandlerKept DEF Counted
<1>4. ASSUME NEW r, rows' = rows \union {r}
      PROVE  LimitInv'
  <2>1. IsFiniteSet(rows')
    BY <1>4, FS_AddElement DEF LimitInv
  <2>2. Answered(now - Window)' \subseteq Answered(now - Window) \union {r}
    BY <1>1, <1>4 DEF Answered, Since
  <2>3. h \in Admitted /\ Admitted' \subseteq Admitted \ {h}
    BY <1>1, <1>2 DEF Admitted, Counted
  <2> DEFINE A == Answered(now - Window)
             C == Answered(now - Window)'
             n == MaxRequests + Cardinality(Handlers)
  <2>4. /\ IsFiniteSet(A) /\ IsFiniteSet(Admitted) /\ n \in Nat
        /\ Cardinality(A) + Cardinality(Admitted) < n
    BY LimitBasics DEF LimitInv
  <2>5. C \subseteq A \union {r}
    BY <2>2
  <2> HIDE DEF A, C, n
  <2>6. Cardinality(C) + Cardinality(Admitted') < n
    BY <2>3, <2>4, <2>5, SumsMove
  <2>7. \A g \in Handlers :
          session'[g].pc = "count" => session'[g].decidedAt <= now'
    BY <1>1, <1>2 DEF LimitInv
  <2>. QED BY <2>1, <2>6, <2>7 DEF LimitInv, C, n
<1>. QED BY <1>3, <1>4 DEF Record, Insert

LEMMA LimitInductive ==
  ASSUME TypeOK, LimitInv, [Next]_vars
  PROVE  LimitInv'
<1>1. ASSUME NEW h \in Handlers, NEW key \in Keys \union {NoKey},
             NEW lookup \in Lookups, Receive(h, key, lookup)
      PROVE  LimitInv'
  <2>1. /\ session'[h].pc = "find"
        /\ \A g \in Handlers \ {h} : session'[g] = session[g]
        /\ UNCHANGED <<rows, now>>
    BY <1>1 DEF Receive, Idle, TypeOK, world
  <2>. QED BY <2>1, HandlerKept DEF Counted
<1>2. ASSUME NEW h \in Handlers, Find(h)
      PROVE  LimitInv'
  <2>1. UNCHANGED <<rows, now>> /\ now \in Nat
    BY <1>2 DEF Find, world, TypeOK
  <2>2. CASE \E row \in Stored(h) : ReplyStored(h, row)
    <3>1. session'[h].pc = "idle" /\ \A g \in Handlers \ {h} : session'[g] = session[g]
      BY <2>2, ReplyStoredEnds
    <3>. QED BY <2>1, <3>1, HandlerKept DEF Counted
  <2>3. CASE session' = [session EXCEPT
               ![h].pc = "count", ![h].decidedAt = now,
               ![h].retention = RetentionExpiresAt(session[h].mode)]
    <3>1. /\ session'[h].pc = "count" /\ session'[h].decidedAt = now
          /\ \A g \in Handlers \ {h} : session'[g] = session[g]
      BY <2>3 DEF TypeOK, Session
    <3>. QED BY <2>1, <3>1, HandlerKept DEF Counted
  <2>. QED BY <1>2, <2>2, <2>3 DEF Find
<1>3. ASSUME NEW h \in Handlers, Count(h)
      PROVE  LimitInv'
  BY <1>3, CountLimit
<1>4. ASSUME NEW h \in Handlers, Sample(h)
      PROVE  LimitInv'
  <2>1. PICK pc \in {"lookup", "suspect"} : Advance(h, pc)
    BY <1>4 DEF Sample
  <2>2. session[h].pc = "sample" /\ UNCHANGED <<rows, now>>
    BY <1>4 DEF Sample, world
  <2>. QED BY <2>1, <2>2, AdvanceMoves, HandlerKept DEF Counted
<1>5. ASSUME NEW h \in Handlers, Block(h)
      PROVE  LimitInv'
  <2>1. /\ session'[h].pc \in {"idle", "signal"}
        /\ \A g \in Handlers \ {h} : session'[g] = session[g]
    BY <1>5, RespondEnds DEF Block, TypeOK, Session
  <2> DEFINE r == RowOf(h, NoKey, "blocked", RetentionExpiresAt(mode))
  <2>2. rows' = rows \union {r} /\ now' = now
    BY <1>5 DEF Block, Insert, world
  <2>3. r \in Row /\ r.outcome = "blocked"
    <3>1. RetentionExpiresAt(mode) \in Time \union {Never}
      BY RetentionType DEF TypeOK
    <3>. QED BY <3>1 DEF RowOf, Row, TypeOK, Session, Time
  <2> HIDE DEF r
  <2>. QED BY <2>1, <2>2, <2>3, HandlerKept DEF Counted
<1>6. ASSUME NEW h \in Handlers, LookUp(h)
      PROVE  LimitInv'
  <2>1. /\ session[h].pc = "lookup" /\ session'[h].pc = "record"
        /\ \A g \in Handlers \ {h} : session'[g] = session[g]
        /\ UNCHANGED <<rows, now>>
    BY <1>6 DEF LookUp, TypeOK, Session, world
  <2>. QED BY <2>1, HandlerKept DEF Counted
<1>7. ASSUME NEW h \in Handlers, Record(h)
      PROVE  LimitInv'
  BY <1>7, RecordLimit
<1>8. ASSUME NEW h \in Handlers, Signal(h) \/ Recheck(h) \/ Fail(h)
      PROVE  LimitInv'
  <2>1. /\ session'[h].pc \in {"idle", "rethrow"}
        /\ \A g \in Handlers \ {h} : session'[g] = session[g]
    BY <1>8, RespondEnds, ThrowEnds, ReplyStoredEnds DEF Signal, Recheck, Fail
  <2>2. UNCHANGED <<rows, now>>
    BY <1>8 DEF Signal, Recheck, Fail, world
  <2>. QED BY <2>1, <2>2, HandlerKept DEF Counted
<1>9. CASE Cleanup
  <2>1. rows' \subseteq rows /\ UNCHANGED <<session, now>>
    BY <1>9 DEF Cleanup, world
  <2>2. IsFiniteSet(rows')
    BY <2>1, FS_Subset DEF LimitInv
  <2>3. /\ Answered(now - Window)' \subseteq Answered(now - Window)
        /\ Admitted' \subseteq Admitted
    BY <2>1 DEF Answered, Since, Admitted
  <2>. QED BY <2>1, <2>2, <2>3, LimitKept DEF LimitInv
<1>10. CASE Tick
  <2>1. now' = now + 1 /\ UNCHANGED <<rows, session>>
    BY <1>10 DEF Tick
  <2>2. Answered(now - Window)' \subseteq Answered(now - Window)
    BY <2>1, LimitBasics DEF Answered, Since
  <2>3. Admitted' \subseteq Admitted
    BY <2>1 DEF Admitted
  <2>4. \A h \in Handlers :
          session'[h].pc = "count" => session'[h].decidedAt <= now'
    BY <2>1, LimitBasics DEF LimitInv, TypeOK, Session, Time
  <2>. QED BY <2>1, <2>2, <2>3, <2>4, LimitKept DEF LimitInv
<1>11. CASE UNCHANGED <<rows, session, now>>
  BY <1>11, LimitKept DEF LimitInv, Answered, Since, Admitted
<1>12. ASSUME \/ \E s \in Subjects, found \in Addresses \union {Nothing} :
                   ChangeRegistry(s, found)
              \/ \E m \in PartnerModes : ChangeMode(m)
              \/ UNCHANGED vars
       PROVE  UNCHANGED <<rows, session, now>>
  BY <1>12 DEF ChangeRegistry, ChangeMode, vars
<1>. QED BY <1>1, <1>2, <1>3, <1>4, <1>5, <1>6, <1>7, <1>8, <1>9, <1>10, <1>11,
        <1>12 DEF Next, HandlerStep

LEMMA LimitInit == Init => LimitInv
<1> SUFFICES ASSUME Init
             PROVE  LimitInv
  OBVIOUS
<1>1. rows = {} /\ \A h \in Handlers : session[h].pc = "idle"
  BY DEF Init, Idle
<1>2. Answered(now - Window) = {} /\ Admitted = {}
  BY <1>1 DEF Answered, Since, Admitted, Counted
<1>3. /\ Cardinality({}) = 0 /\ IsFiniteSet({})
      /\ Cardinality(Handlers) \in Nat /\ MaxRequests \in Nat \ {0}
  BY ResolutionAssumption, FS_EmptySet, FS_CardinalityType
<1>4. IsFiniteSet(rows)
  BY <1>1, <1>3
<1>5. \A h \in Handlers : session[h].pc # "count"
  BY <1>1
<1>6. Cardinality(Answered(now - Window)) = 0 /\ Cardinality(Admitted) = 0
  BY <1>2, <1>3
<1>7. Cardinality(Answered(now - Window)) + Cardinality(Admitted)
        < MaxRequests + Cardinality(Handlers)
  <2>1. \A a, b \in Nat : b # 0 => 0 + 0 < b + a
    OBVIOUS
  <2>. QED BY <1>3, <1>6, <2>1
<1>. QED BY <1>4, <1>5, <1>7 DEF LimitInv

\* Only rows whose retention is over are missing from the table.
ForgottenInv ==
  /\ rows \subseteq ledger
  /\ \A row \in ledger \ rows : Expired(row)

LEMMA StaysExpired ==
  ASSUME TypeOK, [Next]_vars, NEW row \in Row, Expired(row)
  PROVE  Expired(row)'
<1>1. now \in Nat /\ now' \in {now, now + 1}
  BY DEF Next, HandlerStep, Receive, Find, Count, Sample, Block, LookUp, Record,
     Signal, Recheck, Fail, Cleanup, ChangeRegistry, ChangeMode, Tick, vars,
     world, TypeOK
<1>2. /\ row.requestedAt \in Nat /\ Retention \in Nat
      /\ row.retention # Never => row.retention \in Nat
  BY ResolutionAssumption DEF Row, Time
<1>. QED  BY <1>1, <1>2 DEF Expired

LEMMA ForgottenInductive == TypeOK /\ ForgottenInv /\ [Next]_vars => ForgottenInv'
<1> SUFFICES ASSUME TypeOK, ForgottenInv, [Next]_vars
             PROVE  ForgottenInv'
  OBVIOUS
<1>1. \A row \in ledger : Expired(row) => Expired(row)'
  BY StaysExpired DEF TypeOK
<1>2. CASE UNCHANGED <<rows, ledger>>
  BY <1>1, <1>2 DEF ForgottenInv
<1>3. CASE Cleanup
  <2>1. ledger' = ledger /\ rows' = {row \in rows : ~Expired(row)}
    BY <1>3 DEF Cleanup
  <2>. QED  BY <1>1, <2>1 DEF ForgottenInv
<1>4. ASSUME NEW h \in Handlers, NEW r \in Row, Inserts(h, r)
      PROVE  ForgottenInv'
  <2>1. rows' = rows \union {r} /\ ledger' = ledger \union {r}
    BY <1>4 DEF Inserts, Insert
  <2>. QED  BY <1>1, <2>1 DEF ForgottenInv
<1>. QED  BY <1>2, <1>3, <1>4, NextShape DEF StepShape, Outside, Receive, Works, Ends

(* However many lookups run at once, those answered in one rate window     *)
(* exceed the limit by less than the number of concurrent handlers, not    *)
(* counting rows that the clean-up has taken, all of which had expired: a  *)
(* handler counts once, and only those that counted before it recorded are *)
(* missing from its count.                                                 *)
THEOREM LimitHolds == Spec => []OvershootBounded
<1>1. ASSUME TypeOK, LimitInv, ForgottenInv
      PROVE  OvershootBounded
  <2>. DEFINE answered == {row \in ledger : /\ row.requestedAt >= now - Window
                                            /\ row.outcome # "blocked"}
  <2>1. Cardinality(Admitted) \in Nat /\ Cardinality(Answered(now - Window)) \in Nat
    BY <1>1, LimitBasics, FS_CardinalityType
  <2>2. Cardinality(Answered(now - Window)) < MaxRequests + Cardinality(Handlers)
    BY <1>1, <2>1, LimitBasics DEF LimitInv
  <2>3. answered \ (answered \ rows) = Answered(now - Window)
    BY <1>1 DEF ForgottenInv, Answered, Since
  <2>4. \A row \in answered \ rows : Expired(row)
    BY <1>1 DEF ForgottenInv
  <2>. HIDE DEF answered
  <2>5. Cardinality(answered \ (answered \ rows))
          < MaxRequests + Cardinality(Handlers)
    BY <2>2, <2>3
  <2>. QED BY <2>4, <2>5 DEF OvershootBounded, answered
<1>2. TypeOK /\ LimitInv /\ [Next]_vars => LimitInv'
  BY LimitInductive
<1>3. Init => ForgottenInv
  BY DEF Init, ForgottenInv
<1>. QED BY <1>1, <1>2, <1>3, ForgottenInductive, TypeInit, TypeInductive, LimitInit,
            PTL DEF Spec
=============================================================================
