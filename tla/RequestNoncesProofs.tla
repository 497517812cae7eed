------------------------- MODULE RequestNoncesProofs -------------------------
(* Theorems about RequestNonces, for every value of its constants. *)
EXTENDS RequestNonces, TLAPS

LEMMA ConstantTypes ==
  /\ MaxAge \in Nat /\ NonceTtl \in Nat
  /\ MaxCalls \in Nat /\ MaxClock \in Nat
BY NonceAssumption

(* The handlers only ever hold typed requests.                             *)
LEMMA CheckedType ==
  ASSUME TypeOK, NEW r \in Request
  PROVE  [pc |-> "insert", request |-> r, call |-> calls + 1,
          checkedAt |-> now] \in Session
BY DEF TypeOK, Session

LEMMA IdleType ==
  ASSUME NEW r \in Request
  PROVE  Idle \in Session
BY DEF Idle, Session, Request

LEMMA SessionAfter ==
  ASSUME TypeOK, NEW h \in Handlers, NEW s,
         session' = [session EXCEPT ![h] = s]
  PROVE  \A g \in Handlers : session'[g] = IF g = h THEN s ELSE session[g]
BY DEF TypeOK

LEMMA TypeInductive == TypeOK /\ [Next]_vars => TypeOK'
<1> SUFFICES ASSUME TypeOK, Next  PROVE TypeOK'
  BY DEF TypeOK, vars
<1>s. \A h \in Handlers : session[h] \in Session /\ session[h].request \in Request
  BY DEF TypeOK, Session
<1>i. \A h \in Handlers : Idle \in Session
  BY <1>s, IdleType
<1>1. ASSUME NEW h \in Handlers, NEW r \in Request, Check(h, r)
      PROVE  TypeOK'
  BY <1>1, CheckedType DEF Check, TypeOK
<1>2. ASSUME NEW h \in Handlers, Insert(h)  PROVE TypeOK'
  <2>. DEFINE s == session[h]
  <2>1. s \in Session /\ s.request \in Request /\ s.call \in Nat /\ s.checkedAt \in Nat
    BY <1>s DEF Session
  <2>2. [nonce |-> s.request.nonce, hash |-> s.request.hash,
         expiresAt |-> ExpiresAt(s.checkedAt)] \in Row
    BY <2>1, ConstantTypes DEF Row, Request, ExpiresAt
  <2>3. [call |-> s.call, request |-> s.request, checkedAt |-> s.checkedAt,
         insertedAt |-> now] \in Accepted
    BY <2>1 DEF Accepted, TypeOK
  <2>. QED  BY <1>2, <1>i, <2>2, <2>3 DEF Insert, TypeOK
<1>3. ASSUME NEW h \in Handlers, InsertConflicts(h)  PROVE TypeOK'
  <2>1. [session[h] EXCEPT !.pc = "explain"] \in Session
    BY <1>s DEF Session
  <2>2. session' = [session EXCEPT ![h] = [session[h] EXCEPT !.pc = "explain"]]
    BY <1>3 DEF InsertConflicts
  <2>. QED  BY <1>3, <2>1, <2>2 DEF InsertConflicts, TypeOK
<1>4. ASSUME NEW h \in Handlers, Explain(h)  PROVE TypeOK'
  <2>. DEFINE request == session[h].request
  <2>1. PICK reason \in IF Reason(request) = {} THEN {"unsafe"}
                        ELSE Reason(request) :
          refused' = refused \union {[request |-> request, reason |-> reason]}
    BY <1>4 DEF Explain
  <2>2. reason \in {"used", "other payload", "unsafe"}
    BY <2>1 DEF Reason
  <2>3. [request |-> request, reason |-> reason] \in Refused
    BY <1>s, <2>2 DEF Refused
  <2>. QED  BY <1>4, <1>i, <2>1, <2>3 DEF Explain, TypeOK
<1>5. ASSUME NEW h \in Handlers, Fail(h)  PROVE TypeOK'
  BY <1>5, <1>i DEF Fail, TypeOK
<1>6. CASE Cleanup
  BY <1>6 DEF Cleanup, TypeOK
<1>7. CASE Tick
  BY <1>7 DEF Tick, TypeOK
<1>8. ASSUME NEW h \in Handlers, NEW n \in Nonces, NEW x \in Hashes,
             NEW t \in 0 .. MaxClock,
             Check(h, [nonce |-> n, hash |-> x, timestamp |-> t])
      PROVE  TypeOK'
  <2>1. [nonce |-> n, hash |-> x, timestamp |-> t] \in Request
    BY ConstantTypes DEF Request
  <2>. QED  BY <1>1, <1>8, <2>1
<1>. QED  BY <1>2, <1>3, <1>4, <1>5, <1>6, <1>7, <1>8 DEF Next

(* Rows, sessions and histories keep their types.                          *)
THEOREM TypeCorrect == Spec => []TypeOK
<1>1. Init => TypeOK
  <2>1. [nonce |-> CHOOSE n \in Nonces : TRUE,
         hash |-> CHOOSE x \in Hashes : TRUE, timestamp |-> 0] \in Request
    BY NonceAssumption DEF Request
  <2>2. Idle \in Session
    BY <2>1, IdleType
  <2>. QED  BY <2>2 DEF Init, TypeOK
<1>. QED  BY <1>1, TypeInductive, PTL DEF Spec

-----------------------------------------------------------------------------
(* The inductive invariant.  A call between check and insert has found its *)
(* timestamp fresh, and so had every call that passed; and the nonce of a  *)
(* call that passed is in the table until it expires.                      *)

InTime(request, checkedAt, t) ==
  /\ checkedAt <= t
  /\ checkedAt <= request.timestamp + MaxAge
  /\ request.timestamp <= checkedAt + MaxAge

Guarded(a, rows, t) ==
  \/ \E row \in rows : /\ row.nonce = a.request.nonce
                       /\ row.expiresAt = a.checkedAt + NonceTtl
  \/ t > a.checkedAt + NonceTtl

NonceInv ==
  /\ \A h \in Handlers : session[h].pc = "insert" =>
       InTime(session[h].request, session[h].checkedAt, now)
  /\ \A a \in accepted : InTime(a.request, a.checkedAt, a.insertedAt)
  /\ \A a \in accepted : a.insertedAt <= now /\ Guarded(a, nonces, now)
  /\ ReuseIsSpaced

LEMMA NonceInductive == TypeOK /\ NonceInv /\ [Next]_vars => NonceInv'
<1> SUFFICES ASSUME TypeOK, NonceInv, [Next]_vars  PROVE NonceInv'
  OBVIOUS
<1>t. /\ now \in Nat /\ MaxAge \in Nat /\ NonceTtl \in Nat
      /\ \A h \in Handlers : /\ session[h] \in Session
                            /\ session[h].request.timestamp \in Nat
                            /\ session[h].checkedAt \in Nat
      /\ \A a \in accepted : /\ a.request.timestamp \in Nat
                            /\ a.checkedAt \in Nat /\ a.insertedAt \in Nat
      /\ \A row \in nonces : row.expiresAt \in Nat
  BY ConstantTypes DEF TypeOK, Session, Accepted, Row, Request
<1>1. ASSUME UNCHANGED <<nonces, accepted, now>>,
             \A h \in Handlers : session'[h].pc = "insert" =>
               InTime(session'[h].request, session'[h].checkedAt, now)
      PROVE  NonceInv'
  BY <1>1 DEF NonceInv, ReuseIsSpaced, Guarded, InTime
<1>2. ASSUME NEW h \in Handlers, NEW r \in Request, Check(h, r)
      PROVE  NonceInv'
  <2>1. \A g \in Handlers : session'[g] =
          IF g = h THEN [pc |-> "insert", request |-> r, call |-> calls + 1,
                         checkedAt |-> now]
          ELSE session[g]
    BY <1>2, SessionAfter DEF Check
  <2>2. InTime(r, now, now)
    <3>1. r.timestamp \in Nat
      BY DEF Request
    <3>2. now - r.timestamp <= MaxAge /\ r.timestamp - now <= MaxAge
      BY <1>2 DEF Check, Fresh
    <3>. QED BY <1>t, <3>1, <3>2 DEF InTime
  <2>3. UNCHANGED <<nonces, accepted, now>>
    BY <1>2 DEF Check
  <2>4. ASSUME NEW g \in Handlers, session'[g].pc = "insert"
        PROVE  InTime(session'[g].request, session'[g].checkedAt, now)
    <3>1. CASE g = h
      BY <2>1, <2>2, <3>1
    <3>2. CASE g # h
      BY <2>1, <2>4, <3>2 DEF NonceInv
    <3>. QED BY <3>1, <3>2
  <2>. QED  BY <1>1, <2>3, <2>4
<1>3. ASSUME NEW h \in Handlers, NEW s, s.pc # "insert",
             session' = [session EXCEPT ![h] = s],
             UNCHANGED <<nonces, accepted, now>>
      PROVE  NonceInv'
  <2>1. \A g \in Handlers : session'[g] = IF g = h THEN s ELSE session[g]
    BY <1>3, SessionAfter
  <2>. QED  BY <1>1, <1>3, <2>1 DEF NonceInv
<1>4. ASSUME NEW h \in Handlers, Insert(h)
      PROVE  NonceInv'
  <2>. DEFINE s == session[h]
              b == [call |-> s.call, request |-> s.request,
                    checkedAt |-> s.checkedAt, insertedAt |-> now]
              new == [nonce |-> s.request.nonce, hash |-> s.request.hash,
                      expiresAt |-> ExpiresAt(s.checkedAt)]
  <2>1. /\ accepted' = accepted \union {b}
        /\ nonces' = nonces \union {new}
        /\ now' = now
        /\ Unused(s.request)
        /\ s.pc = "insert"
    BY <1>4 DEF Insert
  <2>2. /\ b.request = s.request /\ b.checkedAt = s.checkedAt
        /\ b.insertedAt = now /\ b.call = s.call
        /\ new.nonce = s.request.nonce
        /\ new.expiresAt = s.checkedAt + NonceTtl
    BY DEF ExpiresAt
  <2>3. \A g \in Handlers : session'[g] = IF g = h THEN Idle ELSE session[g]
    BY <1>4, SessionAfter DEF Insert
  <2>. HIDE DEF b, new
  <2>4. /\ InTime(b.request, b.checkedAt, b.insertedAt)
        /\ b.insertedAt <= now'
        /\ Guarded(b, nonces', now')
    <3>1. InTime(s.request, s.checkedAt, now)
      BY <2>1 DEF NonceInv
    <3>2. new \in nonces'
      BY <2>1
    <3>3. Guarded(b, nonces', now')
      BY <2>2, <3>2 DEF Guarded
    <3>. QED  BY <1>t, <2>1, <2>2, <3>1, <3>3
  <2>5. \A a \in accepted : Guarded(a, nonces', now')
    BY <2>1 DEF NonceInv, Guarded
  <2>6. \A a \in accepted : a.request.nonce = b.request.nonce =>
          b.insertedAt > a.checkedAt + NonceTtl
    <3> SUFFICES ASSUME NEW a \in accepted, a.request.nonce = s.request.nonce
                 PROVE  now > a.checkedAt + NonceTtl
      BY <2>2
    <3>1. ~\E row \in nonces : row.nonce = a.request.nonce
      BY <2>1 DEF Unused
    <3>. QED  BY <3>1 DEF NonceInv, Guarded
  <2>7. ReuseIsSpaced'
    BY <2>1, <2>6 DEF NonceInv, ReuseIsSpaced
  <2>8. \A g \in Handlers : session'[g].pc = "insert" =>
          InTime(session'[g].request, session'[g].checkedAt, now')
    <3>1. Idle.pc # "insert"
      BY DEF Idle
    <3>2. \A g \in Handlers : session'[g].pc = "insert" =>
            session'[g] = session[g]
      BY <2>3, <3>1
    <3>. QED  BY <2>1, <3>2 DEF NonceInv, InTime
  <2>9. \A a \in accepted' : /\ InTime(a.request, a.checkedAt, a.insertedAt)
                             /\ a.insertedAt <= now' /\ Guarded(a, nonces', now')
    <3> SUFFICES ASSUME NEW a \in accepted'
                 PROVE  /\ InTime(a.request, a.checkedAt, a.insertedAt)
                        /\ a.insertedAt <= now' /\ Guarded(a, nonces', now')
      OBVIOUS
    <3>1. CASE a \in accepted
      BY <2>1, <2>5, <3>1 DEF NonceInv
    <3>2. CASE a = b
      BY <2>4, <3>2
    <3>. QED  BY <2>1, <3>1, <3>2
  <2>. QED  BY <2>7, <2>8, <2>9 DEF NonceInv, InTime
<1>5. CASE Cleanup
  <2>1. \A a \in accepted : Guarded(a, nonces', now')
    BY <1>5, <1>t DEF Cleanup, NonceInv, Guarded
  <2>. QED  BY <1>5, <2>1 DEF Cleanup, NonceInv, ReuseIsSpaced, InTime
<1>6. CASE Tick
  <2>1. now' = now + 1
    BY <1>6 DEF Tick
  <2>2. \A a \in accepted : a.insertedAt <= now' /\ Guarded(a, nonces', now')
    BY <1>6, <1>t, <2>1 DEF Tick, NonceInv, Guarded
  <2>3. \A h \in Handlers : session'[h].pc = "insert" =>
          InTime(session'[h].request, session'[h].checkedAt, now')
    BY <1>6, <1>t, <2>1 DEF Tick, NonceInv, InTime
  <2>. QED  BY <1>6, <2>2, <2>3 DEF Tick, NonceInv, ReuseIsSpaced, InTime
<1>7. ASSUME NEW h \in Handlers, InsertConflicts(h)  PROVE NonceInv'
  <2>1. session' = [session EXCEPT ![h] = [session[h] EXCEPT !.pc = "explain"]]
    BY <1>7 DEF InsertConflicts
  <2>2. [session[h] EXCEPT !.pc = "explain"].pc # "insert"
    BY <1>t DEF Session
  <2>. QED  BY <1>3, <1>7, <2>1, <2>2 DEF InsertConflicts
<1>8. ASSUME NEW h \in Handlers, Explain(h) \/ Fail(h)  PROVE NonceInv'
  BY <1>3, <1>8 DEF Explain, Fail, Idle
<1>9. CASE UNCHANGED vars
  BY <1>1, <1>9 DEF vars, NonceInv
<1>10. ASSUME NEW h \in Handlers, NEW n \in Nonces, NEW x \in Hashes,
              NEW t \in 0 .. MaxClock,
              Check(h, [nonce |-> n, hash |-> x, timestamp |-> t])
       PROVE  NonceInv'
  <2>1. [nonce |-> n, hash |-> x, timestamp |-> t] \in Request
    BY ConstantTypes DEF Request
  <2>. QED  BY <1>2, <1>10, <2>1
<1>. QED  BY <1>4, <1>5, <1>6, <1>7, <1>8, <1>9, <1>10 DEF Next

LEMMA NonceInvariant == Spec => [](TypeOK /\ NonceInv)
<1>1. Init => NonceInv
  BY DEF Init, NonceInv, ReuseIsSpaced, Idle
<1>. QED  BY <1>1, NonceInductive, TypeCorrect, PTL DEF Spec

(* Two uses of one nonce that pass are more than its time to live apart    *)
(* (assertAttestationReplayProtection), whatever the settings.             *)
THEOREM SpacedReuse == Spec => []ReuseIsSpaced
<1>1. NonceInv => ReuseIsSpaced
  BY DEF NonceInv
<1>. QED  BY <1>1, NonceInvariant, PTL

(* A request passes a second time only if one of the two calls took longer *)
(* between its check and its insert than the nonce outlives the freshness  *)
(* of the timestamp, whatever the settings.                                *)
THEOREM AtMostOnce == Spec => []PassesOnce
<1>1. TypeOK /\ NonceInv => PassesOnce
  <2> SUFFICES ASSUME TypeOK, NonceInv,
                      NEW a \in accepted, NEW b \in accepted,
                      a.request.nonce = b.request.nonce,
                      a.request.timestamp = b.request.timestamp,
                      a.call # b.call
               PROVE  \E c \in {a, b} : Delay(c) > NonceTtl - 2 * MaxAge
    BY DEF PassesOnce
  <2>t. /\ a.request.timestamp \in Nat /\ a.checkedAt \in Nat /\ a.insertedAt \in Nat
        /\ b.request.timestamp \in Nat /\ b.checkedAt \in Nat /\ b.insertedAt \in Nat
        /\ MaxAge \in Nat /\ NonceTtl \in Nat
    BY ConstantTypes DEF TypeOK, Accepted, Request
  <2>1. /\ InTime(a.request, a.checkedAt, a.insertedAt)
        /\ InTime(b.request, b.checkedAt, b.insertedAt)
    BY DEF NonceInv
  <2>2. \/ a.insertedAt > b.checkedAt + NonceTtl
        \/ b.insertedAt > a.checkedAt + NonceTtl
    BY DEF NonceInv, ReuseIsSpaced
  <2>3. CASE a.insertedAt > b.checkedAt + NonceTtl
    <3>1. a.insertedAt - a.checkedAt > NonceTtl - 2 * MaxAge
      BY <2>1, <2>3, <2>t DEF InTime
    <3>. QED  BY <3>1 DEF Delay
  <2>4. CASE b.insertedAt > a.checkedAt + NonceTtl
    <3>1. b.insertedAt - b.checkedAt > NonceTtl - 2 * MaxAge
      BY <2>1, <2>4, <2>t DEF InTime
    <3>. QED  BY <3>1 DEF Delay
  <2>. QED  BY <2>2, <2>3, <2>4
<1>. QED  BY <1>1, NonceInvariant, PTL

-----------------------------------------------------------------------------
(* Every nonce in the table is that of a call that passed.                 *)
RowsInv ==
  /\ \A row \in nonces : \E a \in accepted :
       a.request.nonce = row.nonce /\ a.request.hash = row.hash
  /\ \A h \in Handlers : session[h].pc = "explain" =>
       \E a \in accepted : a.request.nonce = session[h].request.nonce
  /\ RefusalsAreTrue

LEMMA RowsInductive == TypeOK /\ RowsInv /\ [Next]_vars => RowsInv'
<1> SUFFICES ASSUME TypeOK, RowsInv, [Next]_vars  PROVE RowsInv'
  OBVIOUS
<1>s. \A h \in Handlers : session[h] \in Session
  BY DEF TypeOK
<1>1. ASSUME nonces' \subseteq nonces, accepted \subseteq accepted',
             refused' = refused,
             \A h \in Handlers : session'[h].pc = "explain" =>
               \E a \in accepted' : a.request.nonce = session'[h].request.nonce
      PROVE  RowsInv'
  BY <1>1 DEF RowsInv, RefusalsAreTrue
<1>2. ASSUME NEW h \in Handlers, NEW s, s.pc # "explain",
             session' = [session EXCEPT ![h] = s],
             UNCHANGED <<nonces, accepted, refused>>
      PROVE  RowsInv'
  <2>1. \A g \in Handlers : session'[g] = IF g = h THEN s ELSE session[g]
    BY <1>2, SessionAfter
  <2>. QED  BY <1>1, <1>2, <2>1 DEF RowsInv
<1>3. ASSUME NEW h \in Handlers, Insert(h)  PROVE RowsInv'
  <2>. DEFINE s == session[h]
              b == [call |-> s.call, request |-> s.request,
                    checkedAt |-> s.checkedAt, insertedAt |-> now]
              new == [nonce |-> s.request.nonce, hash |-> s.request.hash,
                      expiresAt |-> ExpiresAt(s.checkedAt)]
  <2>1. /\ accepted' = accepted \union {b}
        /\ nonces' = nonces \union {new}
        /\ refused' = refused
    BY <1>3 DEF Insert
  <2>2. /\ b.request = s.request
        /\ new.nonce = s.request.nonce /\ new.hash = s.request.hash
    OBVIOUS
  <2>. HIDE DEF b, new
  <2>3. \A g \in Handlers : session'[g] = IF g = h THEN Idle ELSE session[g]
    BY <1>3, SessionAfter DEF Insert
  <2>4. b \in accepted' /\ accepted \subseteq accepted'
    BY <2>1
  <2>5. \A row \in nonces' : \E a \in accepted' :
          a.request.nonce = row.nonce /\ a.request.hash = row.hash
    BY <2>1, <2>2, <2>4 DEF RowsInv
  <2>6. \A g \in Handlers : session'[g].pc = "explain" =>
          \E a \in accepted' : a.request.nonce = session'[g].request.nonce
    <3>1. Idle.pc # "explain"
      BY DEF Idle
    <3>. QED  BY <2>3, <2>4, <3>1 DEF RowsInv
  <2>7. RefusalsAreTrue'
    BY <2>1, <2>4 DEF RowsInv, RefusalsAreTrue
  <2>. QED  BY <2>5, <2>6, <2>7 DEF RowsInv
<1>4. ASSUME NEW h \in Handlers, InsertConflicts(h)  PROVE RowsInv'
  <2>. DEFINE s == [session[h] EXCEPT !.pc = "explain"]
  <2>1. session' = [session EXCEPT ![h] = s]
    BY <1>4 DEF InsertConflicts
  <2>2. s.request = session[h].request
    BY <1>s DEF Session
  <2>. HIDE DEF s
  <2>3. \A g \in Handlers : session'[g] = IF g = h THEN s ELSE session[g]
    BY <2>1, SessionAfter
  <2>4. \E a \in accepted : a.request.nonce = session[h].request.nonce
    BY <1>4 DEF InsertConflicts, Unused, RowsInv
  <2>. QED  BY <1>1, <1>4, <2>2, <2>3, <2>4 DEF InsertConflicts, RowsInv
<1>5. ASSUME NEW h \in Handlers, Explain(h)  PROVE RowsInv'
  <2>. DEFINE request == session[h].request
  <2>1. PICK reason \in IF Reason(request) = {} THEN {"unsafe"}
                        ELSE Reason(request) :
          refused' = refused \union {[request |-> request, reason |-> reason]}
    BY <1>5 DEF Explain
  <2>2. \E a \in accepted :
          /\ a.request.nonce = request.nonce
          /\ reason = "used" => a.request.hash = request.hash
          /\ reason = "other payload" => a.request.hash # request.hash
    <3>1. CASE Reason(request) = {}
      <4>1. reason = "unsafe"
        BY <2>1, <3>1
      <4>. QED  BY <1>5, <4>1 DEF Explain, RowsInv
    <3>2. CASE Reason(request) # {}
      <4>1. PICK row \in nonces :
              /\ row.nonce = request.nonce
              /\ reason = IF row.hash = request.hash THEN "used"
                          ELSE "other payload"
        BY <2>1, <3>2 DEF Reason
      <4>2. PICK a \in accepted :
              a.request.nonce = row.nonce /\ a.request.hash = row.hash
        BY DEF RowsInv
      <4>. QED  BY <4>1, <4>2
    <3>. QED  BY <3>1, <3>2
  <2>3. \A g \in Handlers : session'[g] = IF g = h THEN Idle ELSE session[g]
    BY <1>5, SessionAfter DEF Explain
  <2>4. UNCHANGED <<nonces, accepted>>
    BY <1>5 DEF Explain
  <2>5. RefusalsAreTrue'
    <3> SUFFICES ASSUME NEW r \in refused'
                 PROVE  \E a \in accepted :
                          /\ a.request.nonce = r.request.nonce
                          /\ r.reason = "used" => a.request.hash = r.request.hash
                          /\ r.reason = "other payload" =>
                               a.request.hash # r.request.hash
      BY <2>4 DEF RefusalsAreTrue
    <3>1. CASE r \in refused
      BY <3>1 DEF RowsInv, RefusalsAreTrue
    <3>2. CASE r = [request |-> request, reason |-> reason]
      <4>1. r.request = request /\ r.reason = reason
        BY <3>2
      <4>. HIDE DEF request
      <4>. QED  BY <2>2, <4>1
    <3>. QED  BY <2>1, <3>1, <3>2
  <2>6. \A g \in Handlers : session'[g].pc = "explain" =>
          \E a \in accepted' : a.request.nonce = session'[g].request.nonce
    <3>1. Idle.pc # "explain"
      BY DEF Idle
    <3>. QED  BY <2>3, <2>4, <3>1 DEF RowsInv
  <2>. QED  BY <2>4, <2>5, <2>6 DEF RowsInv
<1>6. ASSUME NEW h \in Handlers, NEW r \in Request, Check(h, r)  PROVE RowsInv'
  BY <1>2, <1>6 DEF Check
<1>7. ASSUME NEW h \in Handlers, Fail(h)  PROVE RowsInv'
  BY <1>2, <1>7 DEF Fail, Idle
<1>8. CASE Cleanup \/ Tick \/ UNCHANGED vars
  BY <1>1, <1>8 DEF Cleanup, Tick, vars, RowsInv
<1>9. ASSUME NEW h \in Handlers, NEW n \in Nonces, NEW x \in Hashes,
             NEW t \in 0 .. MaxClock,
             Check(h, [nonce |-> n, hash |-> x, timestamp |-> t])
      PROVE  RowsInv'
  <2>1. [nonce |-> n, hash |-> x, timestamp |-> t] \in Request
    BY ConstantTypes DEF Request
  <2>. QED  BY <1>6, <1>9, <2>1
<1>. QED  BY <1>3, <1>4, <1>5, <1>7, <1>8, <1>9 DEF Next

(* What a refused partner is told of its nonce is true.                    *)
THEOREM RefusedTruthfully == Spec => []RefusalsAreTrue
<1>1. Init => RowsInv
  BY DEF Init, RowsInv, RefusalsAreTrue, Idle
<1>2. RowsInv => RefusalsAreTrue
  BY DEF RowsInv
<1>. QED  BY <1>1, <1>2, RowsInductive, TypeCorrect, PTL DEF Spec
=============================================================================
