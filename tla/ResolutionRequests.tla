-------------------------- MODULE ResolutionRequests --------------------------
(***************************************************************************)
(* The lookups of one requesting partner: the handlers of resolve,         *)
(* confirmAddress and verify in resolution.service.ts, the limiter of      *)
(* request-hardening.service.ts they consult, and the retention clean-up   *)
(* of the processor tick, over the ResolutionRequest table.                *)
(*                                                                         *)
(* A handler is a chain of awaited statements; between two of them other   *)
(* handlers run, the registry and the partner's privacy settings change,   *)
(* rows are cleaned up and time passes.  The three routes run the same     *)
(* statements and differ in what they look up, which Lookup.type tells.    *)
(*                                                                         *)
(* Abstracted: what a partner's identifiers resolve to is one value per    *)
(* subject (module DestinationRegistry has its rows); response bodies are  *)
(* reduced to an outcome; the retention of SHORT_RETENTION is a constant.  *)
(***************************************************************************)
EXTENDS Integers, FiniteSets, FiniteSetsExt

CONSTANTS
  Handlers,        \* concurrent requests the server processes
  Keys,            \* Idempotency-Key headers
  NoKey,           \* a request without the header, or null in a row
  Subjects,        \* normalized identifiers and, for CONFIRM_ADDRESS, addresses
  Addresses,       \* addresses a subject resolves to
  Nothing,         \* no verified destination, or no address in the request
  Lookups,         \* the request payloads, what requestFingerprint tells apart
  Never,           \* a retentionExpiresAt that is null
  Window,          \* RESOLUTION_LOOKUP_RATE_LIMIT_WINDOW_MS
  MaxRequests,     \* RESOLUTION_LOOKUP_RATE_LIMIT_MAX_REQUESTS
  DistinctWindow,  \* RESOLUTION_LOOKUP_ENUMERATION_WINDOW_MS
  MaxIdentifiers,  \* RESOLUTION_LOOKUP_ENUMERATION_MAX_IDENTIFIERS
  Slack,           \* rows findMany takes beyond MaxIdentifiers (10)
  Retention,       \* RESOLUTION_REQUEST_RETENTION_MS
  ShortRetention,  \* rawVerificationRetentionHours
  PartnerModes,    \* the retention modes the partner chooses from
  UniqueIndex,     \* whether (partner, queryType, idempotencyKey) is unique
  MaxCalls,        \* bound: requests received
  MaxFaults,       \* bound: failing statements and lost handlers
  MaxChanges,      \* bound: changes of the registry and of the settings
  MaxClock         \* bound: ticks of the clock

Types == {"RESOLVE", "CONFIRM_ADDRESS", "VERIFY_ADDRESS"}
Modes == {"NO_RETAIN", "SHORT_RETENTION", "STANDARD_RETENTION"}
Outcomes == Addresses \union {"match", "mismatch", "confirmed", "unverified"}

ASSUME ResolutionAssumption ==
  /\ IsFiniteSet(Handlers)
  /\ Lookups # {}
  /\ Lookups \subseteq [type : Types, subject : Subjects,
                        provided : Addresses \union {Nothing}]
  /\ PartnerModes \subseteq Modes
  /\ NoKey \notin Keys
  /\ Nothing \notin Addresses
  /\ Never \notin Int
  /\ UniqueIndex \in BOOLEAN
  /\ {Window, DistinctWindow, Slack} \subseteq Nat
  /\ {MaxRequests, MaxIdentifiers, Retention, ShortRetention} \subseteq Nat \ {0}
  /\ {MaxCalls, MaxFaults, MaxChanges, MaxClock} \subseteq Nat

VARIABLES
  rows,      \* the ResolutionRequest table
  ledger,    \* history: every row ever inserted
  signals,   \* calls whose row has its RiskSignal rows
  session,   \* what each handler holds between its statements
  replies,   \* history: what the partner received
  registry,  \* what each subject resolves to
  mode,      \* the partner's rawVerificationRetentionMode
  now, calls, faults, changes

vars == <<rows, ledger, signals, session, replies, registry, mode,
          now, calls, faults, changes>>

Time == Nat

Row ==
  [call : Nat, key : Keys \union {NoKey}, lookup : Lookups,
   outcome : Outcomes \union {"blocked"}, requestedAt : Time,
   retention : Time \union {Never},
   calls : Nat]                 \* history: requests received when inserted

Session ==
  [pc : {"idle", "find", "count", "sample", "throttle", "suspect", "lookup",
         "record", "signal", "recheck", "rethrow"},
   call : Nat, key : Keys \union {NoKey}, lookup : Lookups, mode : Modes,
   decidedAt : Time, retention : Time \union {Never},
   outcome : Outcomes \union {"blocked"}]

Reply ==
  [call : Nat, key : Keys \union {NoKey}, lookup : Lookups,
   kind : {"answer", "conflict", "throttled", "error"},
   outcome : Outcomes \union {"blocked"}]

\* Rows, sessions and replies keep their types.
TypeOK ==
  /\ rows \subseteq Row
  /\ ledger \subseteq Row
  /\ signals \subseteq Nat
  /\ session \in [Handlers -> Session]
  /\ replies \subseteq Reply
  /\ registry \in [Subjects -> Addresses \union {Nothing}]
  /\ mode \in Modes
  /\ {now, calls, faults, changes} \subseteq Nat

Idle == [pc |-> "idle", call |-> 0, key |-> NoKey,
         lookup |-> CHOOSE l \in Lookups : TRUE, mode |-> "SHORT_RETENTION",
         decidedAt |-> 0, retention |-> Never, outcome |-> "unverified"]

Init ==
  /\ rows = {}
  /\ ledger = {}
  /\ signals = {}
  /\ session = [h \in Handlers |-> Idle]
  /\ replies = {}
  /\ registry \in [Subjects -> Addresses \union {Nothing}]
  /\ mode \in PartnerModes
  /\ now = 0
  /\ calls = 0
  /\ faults = 0
  /\ changes = 0

-----------------------------------------------------------------------------
(* What the statements read and compute.                                   *)

\* Responses that carry flags, for which risk signals are recorded.
Flagged(outcome) == outcome \in {"unverified", "mismatch"}

\* Mutant: only safe answers are replayed.
MutStoredIfSafe(h) ==
  {row \in rows : /\ session[h].key # NoKey
                  /\ row.key = session[h].key
                  /\ row.lookup.type = session[h].lookup.type
                  /\ ~Flagged(row.outcome)}

\* findStoredIdempotentRequest: the rows that carry the request's key.  There
\* is no ordering: findFirst returns any of them.
Stored(h) ==
  {row \in rows : /\ session[h].key # NoKey
                  /\ row.key = session[h].key
                  /\ row.lookup.type = session[h].lookup.type}

\* buildRetentionExpiresAt.
RetentionExpiresAt(m) ==
  CASE m = "NO_RETAIN" -> now
    [] m = "SHORT_RETENTION" -> now + ShortRetention
    [] m = "STANDARD_RETENTION" -> Never

\* buildDistinctLookupKey.
DistinctKey(lookup) == <<lookup.type = "CONFIRM_ADDRESS", lookup.subject>>

Since(t) == {row \in rows : row.requestedAt >= t}

\* The outcome of a lookup that found `found` for the lookup's subject.
OutcomeOf(lookup, found) ==
  CASE found = Nothing -> "unverified"
    [] found # Nothing /\ lookup.type = "RESOLVE" -> found
    [] found # Nothing /\ lookup.type = "CONFIRM_ADDRESS" -> "confirmed"
    [] found # Nothing /\ lookup.type = "VERIFY_ADDRESS" ->
         IF lookup.provided = found THEN "match" ELSE "mismatch"

Advance(h, pc) == session' = [session EXCEPT ![h].pc = pc]

\* The handler returns or throws and the connection is answered.
Respond(h, kind, outcome) ==
  /\ replies' = replies \union
       {[call |-> session[h].call, key |-> session[h].key,
         lookup |-> session[h].lookup, kind |-> kind, outcome |-> outcome]}
  /\ session' = [session EXCEPT ![h] = Idle]

Insert(row) ==
  /\ rows' = rows \union {row}
  /\ ledger' = ledger \union {row}

RowOf(h, key, outcome, retention) ==
  [call |-> session[h].call, key |-> key, lookup |-> session[h].lookup,
   outcome |-> outcome, requestedAt |-> now, retention |-> retention,
   calls |-> calls]

\* A stored row answers the request, or refuses it when the payload differs.
ReplyStored(h, row) ==
  IF row.lookup = session[h].lookup
  THEN Respond(h, "answer", row.outcome)
  ELSE Respond(h, "conflict", "unverified")

\* An error of recordResolutionRequest goes through the catch clause of the
\* handler, any other ends the request.
Throw(h) ==
  IF session[h].pc \in {"record", "signal"} /\ session[h].outcome # "blocked"
  THEN Advance(h, "rethrow") /\ UNCHANGED replies
  ELSE Respond(h, "error", "unverified")

world == <<registry, mode, now, faults, changes>>

-----------------------------------------------------------------------------
(* The statements of a handler.                                            *)

\* A request arrives; the handler reads the partner's privacy settings and
\* normalizes the payload.
Receive(h, key, lookup) ==
  /\ session[h].pc = "idle"
  /\ calls < MaxCalls
  /\ calls' = calls + 1
  /\ session' = [session EXCEPT ![h] =
       [Idle EXCEPT !.pc = "find", !.call = calls + 1, !.key = key,
                    !.lookup = lookup, !.mode = mode]]
  /\ UNCHANGED <<rows, ledger, signals, replies, world>>

\* The stored response for the key, if there is one; if not, the handler
\* fixes the row's retention and the limiter's clock and goes on.
Find(h) ==
  /\ session[h].pc = "find"
  /\ \/ \E row \in Stored(h) : ReplyStored(h, row)
     \/ /\ Stored(h) = {}
        /\ session' = [session EXCEPT
             ![h].pc = "count", ![h].decidedAt = now,
             ![h].retention = RetentionExpiresAt(session[h].mode)]
        /\ UNCHANGED replies
  /\ UNCHANGED <<rows, ledger, signals, calls, world>>

\* Mutant: the limit is checked off by one.
MutCountTooMany(h) ==
  /\ session[h].pc = "count"
  /\ LET recent == Since(session[h].decidedAt - Window)
     IN  Advance(h, IF Cardinality(recent) > MaxRequests THEN "throttle"
                    ELSE "sample")
  /\ UNCHANGED <<rows, ledger, signals, replies, calls, world>>

\* evaluateResolutionLookup: the requests of the rate window.
Count(h) ==
  /\ session[h].pc = "count"
  /\ LET recent == Since(session[h].decidedAt - Window)
     IN  Advance(h, IF Cardinality(recent) >= MaxRequests THEN "throttle"
                    ELSE "sample")
  /\ UNCHANGED <<rows, ledger, signals, replies, calls, world>>

\* evaluateResolutionLookup: the lookups of the enumeration window, of which
\* findMany takes a bounded number in no particular order.
Sample(h) ==
  /\ session[h].pc = "sample"
  /\ LET recent == Since(session[h].decidedAt - DistinctWindow)
         taken == Min({Cardinality(recent), MaxIdentifiers + Slack})
     IN  \E sample \in kSubset(taken, recent) :
           LET seen == {DistinctKey(row.lookup) : row \in sample}
           IN  Advance(h, IF \/ DistinctKey(session[h].lookup) \in seen
                             \/ Cardinality(seen) < MaxIdentifiers
                          THEN "lookup" ELSE "suspect")
  /\ UNCHANGED <<rows, ledger, signals, replies, calls, world>>

\* blockResolutionLookup: the refusal is recorded without key, fingerprint or
\* response, with the retention of the settings as they are now, and the
\* partner gets 429, after the risk signal if enumeration is suspected.
Block(h) ==
  /\ session[h].pc \in {"throttle", "suspect"}
  /\ Insert(RowOf(h, NoKey, "blocked", RetentionExpiresAt(mode)))
  /\ \/ /\ session[h].pc = "throttle"
        /\ Respond(h, "throttled", "blocked")
     \/ /\ session[h].pc = "suspect"
        /\ session' = [session EXCEPT ![h].pc = "signal",
                                      ![h].outcome = "blocked"]
        /\ UNCHANGED replies
  /\ UNCHANGED <<signals, calls, world>>

\* lookupVerifiedDestination or lookupRecipientConfirmation.
LookUp(h) ==
  /\ session[h].pc = "lookup"
  /\ session' = [session EXCEPT
       ![h].pc = "record",
       ![h].outcome = OutcomeOf(session[h].lookup,
                                registry[session[h].lookup.subject])]
  /\ UNCHANGED <<rows, ledger, signals, replies, calls, world>>

\* recordResolutionRequest: the row, refused by the index if there is one and
\* the key is taken.
Record(h) ==
  /\ session[h].pc = "record"
  /\ LET s == session[h]
         taken == UniqueIndex /\ Stored(h) # {}
     IN  \/ /\ taken
            /\ Advance(h, "recheck")
            /\ UNCHANGED <<rows, ledger, replies>>
         \/ /\ ~taken
            /\ Insert(RowOf(h, s.key, s.outcome, s.retention))
            /\ IF Flagged(s.outcome)
               THEN Advance(h, "signal") /\ UNCHANGED replies
               ELSE Respond(h, "answer", s.outcome)
  /\ UNCHANGED <<signals, calls, world>>

\* recordResolutionRequest: a risk signal per flag, unless the row is gone.
Signal(h) ==
  /\ session[h].pc = "signal"
  /\ IF \E row \in rows : row.call = session[h].call
     THEN /\ signals' = signals \union {session[h].call}
          /\ Respond(h, IF session[h].outcome = "blocked" THEN "throttled"
                        ELSE "answer", session[h].outcome)
     ELSE Throw(h) /\ UNCHANGED signals
  /\ UNCHANGED <<rows, ledger, calls, world>>

\* Mutant: a failure to record is swallowed, the partner gets the answer.
MutSwallow(h) ==
  /\ session[h].pc \in {"recheck", "rethrow"}
  /\ Respond(h, "answer", session[h].outcome)
  /\ UNCHANGED <<rows, ledger, signals, calls, world>>

\* The catch clause: the stored response if the error was the unique index,
\* the error otherwise; a row with another payload is a conflict either way.
Recheck(h) ==
  /\ session[h].pc \in {"recheck", "rethrow"}
  /\ \/ /\ Stored(h) = {}
        /\ Respond(h, "error", "unverified")
     \/ \E row \in Stored(h) :
          IF session[h].pc = "recheck" \/ row.lookup # session[h].lookup
          THEN ReplyStored(h, row)
          ELSE Respond(h, "error", "unverified")
  /\ UNCHANGED <<rows, ledger, signals, calls, world>>

\* A statement fails, or the server stops and the partner gets no answer:
\* what was inserted stays.
Fail(h) ==
  /\ session[h].pc # "idle"
  /\ faults < MaxFaults
  /\ faults' = faults + 1
  /\ Throw(h) \/ Respond(h, "error", "unverified")
  /\ UNCHANGED <<rows, ledger, signals, registry, mode, now, calls, changes>>

-----------------------------------------------------------------------------
(* What happens beside the handlers.                                       *)

\* cleanupHistoricalResolutionRequests, of the processor's tick: rows and, by
\* cascade, their signals.
Expired(row) ==
  IF row.retention = Never
  THEN row.requestedAt < now - Retention
  ELSE row.retention <= now

Cleanup ==
  /\ \E row \in rows : Expired(row)
  /\ rows' = {row \in rows : ~Expired(row)}
  /\ signals' = signals \ {row.call : row \in rows \ rows'}
  /\ UNCHANGED <<ledger, session, replies, calls, world>>

\* An attestation or a dashboard operation changes what a subject resolves to.
ChangeRegistry(s, found) ==
  /\ changes < MaxChanges
  /\ registry[s] # found
  /\ registry' = [registry EXCEPT ![s] = found]
  /\ changes' = changes + 1
  /\ UNCHANGED <<rows, ledger, signals, session, replies, mode, now, calls, faults>>

\* updateSecuritySettings changes the retention of later requests.
ChangeMode(m) ==
  /\ changes < MaxChanges
  /\ mode # m
  /\ mode' = m
  /\ changes' = changes + 1
  /\ UNCHANGED <<rows, ledger, signals, session, replies, registry, now, calls, faults>>

Tick ==
  /\ now < MaxClock
  /\ now' = now + 1
  /\ UNCHANGED <<rows, ledger, signals, session, replies, registry, mode,
                 calls, faults, changes>>

HandlerStep(h) ==
  \/ Find(h)
  \/ Count(h)
  \/ Sample(h)
  \/ Block(h)
  \/ LookUp(h)
  \/ Record(h)
  \/ Signal(h)
  \/ Recheck(h)

Next ==
  \/ \E h \in Handlers, key \in Keys \union {NoKey}, lookup \in Lookups :
       Receive(h, key, lookup)
  \/ \E h \in Handlers : HandlerStep(h) \/ Fail(h)
  \/ Cleanup
  \/ \E s \in Subjects, found \in Addresses \union {Nothing} :
       ChangeRegistry(s, found)
  \/ \E m \in PartnerModes : ChangeMode(m)
  \/ Tick

Spec == Init /\ [][Next]_vars

-----------------------------------------------------------------------------
(* Properties.                                                             *)

SameScope(a, b) ==
  /\ a.key # NoKey
  /\ a.key = b.key
  /\ a.lookup.type = b.lookup.type

\* A key answers one request (README: a retry gets the stored response, a
\* different payload 409): two answers under one key are for one payload and
\* agree, as long as no row of that key was cleaned up.
OneAnswerPerKey ==
  \A p, q \in replies :
    /\ p.kind = "answer" /\ q.kind = "answer" /\ SameScope(p, q)
    /\ \A row \in ledger \ rows : ~SameScope(p, row)
    => p.lookup = q.lookup /\ p.outcome = q.outcome

\* A request is never executed for a key whose row it could have found:
\* two rows of one key are both retained only if their requests overlapped,
\* neither received after the other was recorded.  It holds across faults,
\* clean-ups and changes of the settings, with or without the index.
DuplicatesOverlap ==
  \A a, b \in rows :
    SameScope(a, b) /\ a.call # b.call => b.call <= a.calls

\* Of the lookups of one rate window that were answered rather than refused,
\* those that are not forgotten exceed the limit by less than the number of
\* concurrent handlers, although counting and recording are separate
\* statements; and forgotten are only those whose retention was over.  Under
\* NO_RETAIN it is over at once: what the clean-up has taken
\* (cleanupHistoricalResolutionRequests), evaluateResolutionLookup does not
\* count, and so many more may be answered in the window.
OvershootBounded ==
  LET answered  == {row \in ledger : /\ row.requestedAt >= now - Window
                                     /\ row.outcome # "blocked"}
      forgotten == answered \ rows
  IN  /\ Cardinality(answered \ forgotten) < MaxRequests + Cardinality(Handlers)
      /\ \A row \in forgotten : Expired(row)

\* No answer without its record: whatever the partner was told, by the
\* handler itself or by a stored response, was recorded for that payload
\* before it was sent, and a flagged answer given by its own handler has its
\* signals as long as its row is retained.
AnswersAreRecorded ==
  \A p \in replies : p.kind = "answer" =>
    /\ \E row \in ledger :
         /\ row.key = p.key
         /\ row.lookup = p.lookup
         /\ row.outcome = p.outcome
         /\ row.call = p.call \/ p.key # NoKey
    /\ \A row \in rows : row.call = p.call /\ Flagged(p.outcome) =>
         p.call \in signals

=============================================================================
