----------------------- MODULE ProductionApprovalProofs -----------------------
(* Theorems about ProductionApproval, for every value of its constants. *)
EXTENDS ProductionApproval, TLAPS

Handlers == Users \union Admins

-----------------------------------------------------------------------------
(* Type correctness.                                                       *)

LEMMA IdleType == Idle \in Session
BY DEF Idle, NoUpdate, Session, Update, Statuses

LEMMA HoldType ==
  ASSUME NEW h \in Handlers, NEW s \in Session, Hold(h, s),
         session \in [Handlers -> Session],
         overlapped \subseteq {"filings", "edits"}
  PROVE  /\ session' \in [Handlers -> Session]
         /\ overlapped' \subseteq {"filings", "edits"}
<1>1. Kind(s) \in {"filings", "edits", "neither"}
  BY DEF Kind
<1>. QED  BY <1>1 DEF Hold

LEMMA WrittenType ==
  ASSUME NEW p \in Partner, NEW u \in Update
  PROVE  Written(p, u) \in Partner
<1>1. u.stage # Unset => u.stage \in Stages
  BY DEF Update
<1>2. u.data # Unset => u.data \in BOOLEAN
  BY DEF Update
<1>3. u.full # Unset => u.full \in BOOLEAN
  BY DEF Update
<1>. QED  BY <1>1, <1>2, <1>3 DEF Written, Partner

(* A write of one request row.                                             *)
LEMMA RowWritten ==
  ASSUME requests \in Seq(Request), NEW r, NEW row,
         r \in DOMAIN requests => row \in Request,
         requests' = [requests EXCEPT ![r] = row]
  PROVE  /\ requests' \in Seq(Request)
         /\ DOMAIN requests' = DOMAIN requests
         /\ Len(requests') = Len(requests)
         /\ \A q \in DOMAIN requests :
              requests'[q] = IF q = r THEN row ELSE requests[q]
<1>1. PICK n \in Nat : requests \in [1 .. n -> Request]
  OBVIOUS
<1>2. requests' \in [1 .. n -> Request]
  BY <1>1
<1>3. requests' \in Seq(Request)
  BY <1>2
<1>4. Len(requests') = n /\ Len(requests) = n
  BY <1>1, <1>2
<1>. QED  BY <1>1, <1>2, <1>3, <1>4

(* The rows are requests.                                                  *)
LEMMA RowType ==
  ASSUME requests \in Seq(Request), NEW r \in DOMAIN requests
  PROVE  requests[r] \in Request
OBVIOUS

LEMMA TypeInit == Init => TypeOK
BY IdleType DEF Init, TypeOK, Partner, Stages

LEMMA TypeInductive == TypeOK /\ [Next]_vars => TypeOK'
<1> SUFFICES ASSUME TypeOK, Next  PROVE TypeOK'
  BY DEF TypeOK, vars
<1> USE DEF TypeOK
<1>. DEFINE Rest == /\ partner' \in Partner
                    /\ requests' \in Seq(Request)
                    /\ corridors' \in [Corridors -> {"NONE", "GRANTED", "REVOKED"}]
                    /\ contested' \subseteq Nat
                    /\ updates' \in Nat
<1>a. ASSUME NEW h \in Handlers, NEW s \in Session, Hold(h, s), Rest
      PROVE  TypeOK'
  BY <1>a, HoldType DEF Handlers
<1>1. ASSUME NEW u \in Users, NEW wanted \in SUBSET Corridors, File(u, wanted)
      PROVE  TypeOK'
  <2>1. [Idle EXCEPT !.op = "file", !.chosen = wanted] \in Session
    BY IdleType DEF Session
  <2>. QED  BY <1>a, <1>1, <2>1 DEF File, Handlers
<1>2. ASSUME NEW u \in Users, ReadPartner(u)  PROVE TypeOK'
  <2>1. [session[u] EXCEPT !.partnerRead = TRUE] \in Session
    BY DEF Session
  <2>2. PICK ready \in BOOLEAN :
          Hold(u, IF ready /\ ~partner.enabled
                  THEN [session[u] EXCEPT !.partnerRead = TRUE] ELSE Idle)
    BY <1>2 DEF ReadPartner
  <2>. QED  BY <1>a, <1>2, <2>1, <2>2, IdleType DEF ReadPartner, Handlers
<1>3. ASSUME NEW u \in Users, ReadLatest(u)  PROVE TypeOK'
  <2>1. [session[u] EXCEPT !.latestRead = TRUE] \in Session
    BY DEF Session
  <2>. QED  BY <1>a, <1>3, <2>1, IdleType DEF ReadLatest, Handlers
<1>4. ASSUME NEW u \in Users, Insert(u)  PROVE TypeOK'
  <2>1. session[u].chosen \in SUBSET Corridors
    BY DEF Session
  <2>2. [status |-> "PENDING", requested |-> session[u].chosen,
         approved |-> {}] \in Request
    BY <2>1 DEF Request, Statuses
  <2>3. requests' \in Seq(Request)
    BY <1>4, <2>2 DEF Insert
  <2>. QED  BY <1>a, <1>4, <2>3, IdleType DEF Insert, Release, Handlers
<1>5. ASSUME NEW h \in Handlers, NEW r \in DOMAIN requests,
             NEW status \in Statuses, NEW chosen \in SUBSET Corridors,
             Decide(h, r, status, chosen)
      PROVE  TypeOK'
  <2>1. r \in Nat
    OBVIOUS
  <2>2. [Idle EXCEPT !.op = "decide", !.request = r, !.status = status,
                     !.chosen = chosen] \in Session
    BY <2>1, IdleType DEF Session
  <2>. QED  BY <1>a, <1>5, <2>1, <2>2 DEF Decide
<1>6. ASSUME NEW u \in Users, NEW r \in DOMAIN requests, CheckCancel(u, r)
      PROVE  TypeOK'
  BY <1>5, <1>6 DEF CheckCancel, Handlers, Statuses
<1>7. ASSUME NEW a \in Admins, NEW r \in DOMAIN requests,
             NEW override \in SUBSET Corridors,
             NEW decision \in {"APPROVED", "REJECTED"},
             CheckReview(a, r, decision, override)
      PROVE  TypeOK'
  <2>1. requests[r].requested \in SUBSET Corridors
    BY RowType DEF Request
  <2>2. (IF override = {} THEN requests[r].requested ELSE override)
          \in SUBSET Corridors
    BY <2>1
  <2>. QED  BY <1>5, <1>7, <2>2 DEF CheckReview, Handlers, Statuses
<1>8. ASSUME NEW h \in Handlers, NEW status \in Statuses, Release(h),
             UNCHANGED <<partner, corridors, contested, updates>>,
             requests' = [requests EXCEPT ![session[h].request].status = status]
      PROVE  TypeOK'
  <2>1. session[h].request \in Nat
    BY DEF Session, Handlers
  <2>2. requests' \in Seq(Request)
    <3>1. \A row \in Request : [row EXCEPT !.status = status] \in Request
      BY DEF Request
    <3>. DEFINE r == session[h].request
    <3>2. requests' = [requests EXCEPT ![r] =
                         [requests[r] EXCEPT !.status = status]]
      BY <1>8
    <3>3. r \in DOMAIN requests =>
            [requests[r] EXCEPT !.status = status] \in Request
      BY <3>1, RowType
    <3>. QED  BY <3>2, <3>3, RowWritten
  <2>. QED  BY <1>a, <1>8, <2>2, IdleType DEF Release
<1>9. ASSUME NEW u \in Users, WriteCancel(u)  PROVE TypeOK'
  BY <1>8, <1>9 DEF WriteCancel, Statuses, Handlers
<1>10. ASSUME NEW a \in Admins, WriteRejection(a)  PROVE TypeOK'
  BY <1>8, <1>10 DEF WriteRejection, Statuses, Handlers
<1>11. ASSUME NEW a \in Admins, WriteApproval(a)  PROVE TypeOK'
  <2>1. /\ session[a].request \in Nat
        /\ session[a].chosen \in SUBSET Corridors
    BY DEF Session, Handlers
  <2>2. requests' \in Seq(Request)
    <3>1. \A row \in Request :
            [row EXCEPT !.status = "APPROVED", !.approved = session[a].chosen]
              \in Request
      BY <2>1 DEF Request, Statuses
    <3>. DEFINE r == session[a].request
                row == [requests[r] EXCEPT !.status = "APPROVED",
                                           !.approved = session[a].chosen]
    <3>2. requests' = [requests EXCEPT ![r] = row]
      BY <1>11 DEF WriteApproval
    <3>3. r \in DOMAIN requests => row \in Request
      BY <3>1, RowType
    <3>. HIDE DEF row
    <3>. QED  BY <3>2, <3>3, RowWritten
  <2>3. partner' \in Partner
    BY <1>11 DEF WriteApproval, Granted, Partner, Stages
  <2>4. corridors' \in [Corridors -> {"NONE", "GRANTED", "REVOKED"}]
    BY <1>11 DEF WriteApproval
  <2>. QED  BY <1>a, <1>11, <2>2, <2>3, <2>4, IdleType
       DEF WriteApproval, Release, Handlers
<1>12. ASSUME NEW a \in Admins, NEW u \in Update, CheckUpdate(a, u)
       PROVE  TypeOK'
  <2>1. [Idle EXCEPT !.op = "update", !.update = u] \in Session
    BY IdleType DEF Session
  <2>. QED  BY <1>a, <1>12, <2>1 DEF CheckUpdate, Handlers
<1>13. ASSUME NEW a \in Admins, WriteUpdate(a)  PROVE TypeOK'
  <2>1. session[a].update \in Update
    BY DEF Session, Handlers
  <2>. QED  BY <1>a, <1>13, <2>1, WrittenType, IdleType
       DEF WriteUpdate, Release, Handlers
<1>14. ASSUME NEW a \in Admins, NEW c \in Corridors, NEW enable \in BOOLEAN,
              CheckCorridor(a, c, enable)
       PROVE  TypeOK'
  <2>1. [Idle EXCEPT !.op = "corridor", !.chosen = {c}, !.enable = enable,
                     !.existed = corridors[c] # "NONE"] \in Session
    BY IdleType DEF Session
  <2>. QED  BY <1>a, <1>14, <2>1 DEF CheckCorridor, Handlers
<1>15. ASSUME NEW a \in Admins, WriteCorridor(a)  PROVE TypeOK'
  <2>1. corridors' \in [Corridors -> {"NONE", "GRANTED", "REVOKED"}]
    BY <1>15 DEF WriteCorridor
  <2>. QED  BY <1>a, <1>15, <2>1, IdleType DEF WriteCorridor, Release, Handlers
<1>16. ASSUME NEW h \in Handlers, Abandon(h)  PROVE TypeOK'
  BY <1>a, <1>16, IdleType DEF Abandon, Release
<1>. QED  BY <1>1, <1>2, <1>3, <1>4, <1>6, <1>7, <1>9, <1>10, <1>11, <1>12,
             <1>13, <1>14, <1>15, <1>16
     DEF Next, UserStep, AdminStep, Handlers

(* The partner, its requests and its corridors keep their types.           *)
THEOREM TypeCorrect == Spec => []TypeOK
<1>. QED  BY TypeInit, TypeInductive, PTL DEF Spec

-----------------------------------------------------------------------------
(* What a step may do, for one handler h whose session becomes s.          *)

Quiet == UNCHANGED <<partner, requests, corridors, contested>>

\* It drops its session, or begins or ends an edit of a corridor row.
Aside(h, s) ==
  /\ s.op \in {"idle", "corridor"}
  /\ UNCHANGED <<partner, requests, contested>>
  /\ \A c \in Corridors : corridors[c] # "NONE" => corridors'[c] # "NONE"

\* It begins to file a request or reads for it.
Reads(h, s) ==
  /\ h \in Users
  /\ s.op = "file"
  /\ s.latestRead => \/ session[h].op = "file" /\ session[h].latestRead
                     \/ ~LatestPending
  /\ Quiet

\* It files the request.
Files(h, s) ==
  /\ h \in Users
  /\ session[h].op = "file"
  /\ session[h].latestRead
  /\ s = Idle
  /\ \E row \in Request : /\ row.status = "PENDING"
                         /\ requests' = Append(requests, row)
  /\ UNCHANGED <<partner, corridors, contested>>

\* It has checked a decision.
Checks(h, s) ==
  /\ s.op = "decide"
  /\ s.request \in DOMAIN requests
  /\ Pending(s.request)
  /\ s.status = "APPROVED" => s.chosen # {}
  /\ contested' = contested \union
       {q \in {s.request} : \E g \in Handlers : Deciding(g, q)}
  /\ session[h].op = "idle"
  /\ UNCHANGED <<partner, requests, corridors>>

\* It writes a cancellation or a rejection.
Refuses(h, s) ==
  /\ session[h].op = "decide"
  /\ s = Idle
  /\ \E status \in {"CANCELLED", "REJECTED"} :
       requests' = [requests EXCEPT ![session[h].request] =
                      [requests[session[h].request] EXCEPT !.status = status]]
  /\ UNCHANGED <<partner, corridors, contested>>

\* It writes an approval.
Approves(h, s) ==
  /\ h \in Admins
  /\ session[h].op = "decide"
  /\ session[h].status = "APPROVED"
  /\ s = Idle
  /\ requests' = [requests EXCEPT ![session[h].request] =
                    [requests[session[h].request] EXCEPT
                       !.status = "APPROVED", !.approved = session[h].chosen]]
  /\ partner' = Granted(partner)
  /\ \A c \in Corridors : corridors[c] # "NONE" => corridors'[c] # "NONE"
  /\ \A c \in session[h].chosen : corridors'[c] # "NONE"
  /\ contested' = contested

\* It has checked an update of the partner.
Prepares(h, s) ==
  /\ h \in Admins
  /\ s.op = "update"
  /\ Acceptable(Written(partner, s.update))
  /\ Quiet

\* It writes that update.
Updates(h, s) ==
  /\ h \in Admins
  /\ session[h].op = "update"
  /\ s = Idle
  /\ partner' = Written(partner, session[h].update)
  /\ UNCHANGED <<requests, corridors, contested>>

Shape(h, s) ==
  /\ Hold(h, s)
  /\ \/ Aside(h, s)
     \/ Reads(h, s)
     \/ Files(h, s)
     \/ Checks(h, s)
     \/ Refuses(h, s)
     \/ Approves(h, s)
     \/ Prepares(h, s)
     \/ Updates(h, s)

LEMMA StepShape ==
  ASSUME TypeOK, Next
  PROVE  \E h \in Handlers, s \in Session : Shape(h, s)
<1> USE IdleType
<1>t. \A h \in Handlers : session[h] \in Session
  BY DEF TypeOK, Handlers
<1>1. ASSUME NEW u \in Users, NEW wanted \in SUBSET Corridors, File(u, wanted)
      PROVE  Shape(u, [Idle EXCEPT !.op = "file", !.chosen = wanted])
  BY <1>1 DEF File, Shape, Reads, Quiet, Idle
<1>2. ASSUME NEW u \in Users, ReadPartner(u)
      PROVE  \E s \in Session : Shape(u, s)
  <2>1. session[u] \in Session /\ session[u].op = "file"
    BY <1>2, <1>t DEF ReadPartner, Handlers
  <2>2. [session[u] EXCEPT !.partnerRead = TRUE] \in Session
    BY <2>1 DEF Session
  <2>3. PICK ready \in BOOLEAN :
          Hold(u, IF ready /\ ~partner.enabled
                  THEN [session[u] EXCEPT !.partnerRead = TRUE] ELSE Idle)
    BY <1>2 DEF ReadPartner
  <2>4. Hold(u, Idle) => Shape(u, Idle)
    BY <1>2 DEF ReadPartner, Shape, Aside, Idle
  <2>5. Hold(u, [session[u] EXCEPT !.partnerRead = TRUE])
          => Shape(u, [session[u] EXCEPT !.partnerRead = TRUE])
    <3>1. /\ [session[u] EXCEPT !.partnerRead = TRUE].op = session[u].op
          /\ [session[u] EXCEPT !.partnerRead = TRUE].latestRead
               = session[u].latestRead
      BY <2>1 DEF Session
    <3>. QED  BY <1>2, <2>1, <3>1 DEF ReadPartner, Shape, Reads, Quiet
  <2>. QED  BY <2>2, <2>3, <2>4, <2>5
<1>3. ASSUME NEW u \in Users, ReadLatest(u)
      PROVE  \E s \in Session : Shape(u, s)
  <2>1. session[u] \in Session /\ session[u].op = "file"
    BY <1>3, <1>t DEF ReadLatest, Handlers
  <2>2. [session[u] EXCEPT !.latestRead = TRUE] \in Session
    BY <2>1 DEF Session
  <2>3. CASE LatestPending
    BY <1>3, <2>3 DEF ReadLatest, Shape, Aside, Idle
  <2>4. CASE ~LatestPending
    <3>1. [session[u] EXCEPT !.latestRead = TRUE].op = "file"
      BY <2>1 DEF Session
    <3>. QED  BY <1>3, <2>2, <2>4, <3>1 DEF ReadLatest, Shape, Reads, Quiet
  <2>. QED  BY <2>3, <2>4
<1>4. ASSUME NEW u \in Users, Insert(u)  PROVE Shape(u, Idle)
  <2>1. session[u].chosen \in SUBSET Corridors
    BY <1>t DEF Session, Handlers
  <2>2. [status |-> "PENDING", requested |-> session[u].chosen,
         approved |-> {}] \in Request
    BY <2>1 DEF Request, Statuses
  <2>. QED  BY <1>4, <2>2 DEF Insert, Release, Shape, Files
<1>5. ASSUME NEW h \in Handlers, NEW r \in DOMAIN requests,
             NEW status \in Statuses, NEW chosen \in SUBSET Corridors,
             status = "APPROVED" => chosen # {}, Decide(h, r, status, chosen)
      PROVE  \E s \in Session : Shape(h, s)
  <2>. DEFINE s == [Idle EXCEPT !.op = "decide", !.request = r,
                                !.status = status, !.chosen = chosen]
  <2>1. r \in Nat
    BY DEF TypeOK
  <2>2. s \in Session
    BY <2>1 DEF Session
  <2>3. /\ s.op = "decide" /\ s.request = r
        /\ s.status = status /\ s.chosen = chosen
    BY DEF Idle
  <2>4. Hold(h, s) /\ Pending(r) /\ session[h].op = "idle"
    BY <1>5 DEF Decide
  <2>. HIDE DEF s
  <2>. QED  BY <1>5, <2>2, <2>3, <2>4 DEF Decide, Shape, Checks, Handlers
<1>6. ASSUME NEW u \in Users, NEW r \in DOMAIN requests, CheckCancel(u, r)
      PROVE  \E s \in Session : Shape(u, s)
  BY <1>5, <1>6 DEF CheckCancel, Statuses, Handlers
<1>7. ASSUME NEW a \in Admins, NEW r \in DOMAIN requests,
             NEW override \in SUBSET Corridors,
             NEW decision \in {"APPROVED", "REJECTED"},
             CheckReview(a, r, decision, override)
      PROVE  \E s \in Session : Shape(a, s)
  <2>1. requests[r].requested \in SUBSET Corridors
    BY RowType DEF Request, TypeOK
  <2>2. (IF override = {} THEN requests[r].requested ELSE override)
          \in SUBSET Corridors
    BY <2>1
  <2>. QED  BY <1>5, <1>7, <2>2 DEF CheckReview, Statuses, Handlers
<1>8. ASSUME NEW u \in Users, WriteCancel(u)  PROVE Shape(u, Idle)
  BY <1>8 DEF WriteCancel, Release, Shape, Refuses
<1>9. ASSUME NEW a \in Admins, WriteRejection(a)  PROVE Shape(a, Idle)
  BY <1>9 DEF WriteRejection, Release, Shape, Refuses
<1>10. ASSUME NEW a \in Admins, WriteApproval(a)  PROVE Shape(a, Idle)
  <2>1. session[a].chosen \in SUBSET Corridors
    BY <1>t DEF Session, Handlers
  <2>2. corridors \in [Corridors -> {"NONE", "GRANTED", "REVOKED"}]
    BY DEF TypeOK
  <2>3. /\ \A c \in Corridors : corridors[c] # "NONE" => corridors'[c] # "NONE"
        /\ \A c \in session[a].chosen : corridors'[c] # "NONE"
    BY <1>10, <2>1, <2>2 DEF WriteApproval
  <2>. QED  BY <1>10, <2>3 DEF WriteApproval, Release, Shape, Approves
<1>11. ASSUME NEW a \in Admins, NEW u \in Update, CheckUpdate(a, u)
       PROVE  \E s \in Session : Shape(a, s)
  <2>. DEFINE s == [Idle EXCEPT !.op = "update", !.update = u]
  <2>1. s \in Session /\ s.op = "update" /\ s.update = u
    BY DEF Session, Idle
  <2>2. Hold(a, s)
    BY <1>11 DEF CheckUpdate
  <2>. HIDE DEF s
  <2>. QED  BY <1>11, <2>1, <2>2 DEF CheckUpdate, Shape, Prepares, Quiet
<1>12. ASSUME NEW a \in Admins, WriteUpdate(a)  PROVE Shape(a, Idle)
  BY <1>12 DEF WriteUpdate, Release, Shape, Updates
<1>13. ASSUME NEW a \in Admins, NEW c \in Corridors, NEW enable \in BOOLEAN,
              CheckCorridor(a, c, enable)
       PROVE  \E s \in Session : Shape(a, s)
  <2>. DEFINE s == [Idle EXCEPT !.op = "corridor", !.chosen = {c},
                      !.enable = enable, !.existed = corridors[c] # "NONE"]
  <2>1. s \in Session /\ s.op = "corridor"
    BY DEF Session, Idle
  <2>2. Hold(a, s)
    BY <1>13 DEF CheckCorridor
  <2>. HIDE DEF s
  <2>. QED  BY <1>13, <2>1, <2>2 DEF CheckCorridor, Shape, Aside
<1>14. ASSUME NEW a \in Admins, WriteCorridor(a)  PROVE Shape(a, Idle)
  BY <1>14 DEF WriteCorridor, Release, Shape, Aside, Idle, TypeOK
<1>15. ASSUME NEW h \in Handlers, Abandon(h)  PROVE Shape(h, Idle)
  BY <1>15 DEF Abandon, Release, Shape, Aside, Idle
<1>16. ASSUME NEW u \in Users, UserStep(u)
       PROVE  \E s \in Session : Shape(u, s)
  <2>1. CASE \E wanted \in SUBSET Corridors : File(u, wanted)
    <3>1. PICK wanted \in SUBSET Corridors : File(u, wanted)
      BY <2>1
    <3>2. [Idle EXCEPT !.op = "file", !.chosen = wanted] \in Session
      BY DEF Session
    <3>. QED  BY <1>1, <3>1, <3>2
  <2>. QED  BY <1>2, <1>3, <1>4, <1>6, <1>8, <1>16, <2>1 DEF UserStep
<1>17. ASSUME NEW a \in Admins, AdminStep(a)
       PROVE  \E s \in Session : Shape(a, s)
  BY <1>7, <1>9, <1>10, <1>11, <1>12, <1>13, <1>14, <1>17 DEF AdminStep
<1>. QED  BY <1>15, <1>16, <1>17 DEF Next, Handlers

LEMMA SessionAfter ==
  ASSUME TypeOK, NEW h \in Handlers, NEW s, Hold(h, s)
  PROVE  \A g \in Handlers : session'[g] = IF g = h THEN s ELSE session[g]
BY DEF TypeOK, Hold, Handlers

(* What the writes of requests do to them.                                 *)
LEMMA FiledRows ==
  ASSUME requests \in Seq(Request), NEW row \in Request,
         requests' = Append(requests, row)
  PROVE  /\ Len(requests') = Len(requests) + 1
         /\ DOMAIN requests' = 1 .. Len(requests')
         /\ DOMAIN requests = 1 .. Len(requests)
         /\ Len(requests) \in Nat
         /\ requests'[Len(requests')] = row
         /\ \A r \in DOMAIN requests : requests'[r] = requests[r]
OBVIOUS

LEMMA RefusedRows ==
  ASSUME TypeOK, NEW h \in Handlers, NEW s, Refuses(h, s)
  PROVE  /\ DOMAIN requests' = DOMAIN requests
         /\ Len(requests') = Len(requests)
         /\ \A r \in DOMAIN requests :
              IF r = session[h].request
              THEN /\ requests'[r].status \in {"CANCELLED", "REJECTED"}
                   /\ requests'[r].approved = requests[r].approved
              ELSE requests'[r] = requests[r]
<1>. DEFINE r == session[h].request
<1>s. requests \in Seq(Request)
  BY DEF TypeOK
<1>1. PICK status \in {"CANCELLED", "REJECTED"} :
        requests' = [requests EXCEPT ![r] = [requests[r] EXCEPT !.status = status]]
  BY DEF Refuses
<1>. DEFINE row == [requests[r] EXCEPT !.status = status]
<1>2. r \in DOMAIN requests =>
        row \in Request /\ row.status = status /\ row.approved = requests[r].approved
  BY <1>s, RowType DEF Request, Statuses
<1>. HIDE DEF row, r
<1>3. requests' = [requests EXCEPT ![r] = row]
  BY <1>1 DEF row
<1>4. /\ DOMAIN requests' = DOMAIN requests
      /\ Len(requests') = Len(requests)
      /\ \A q \in DOMAIN requests :
           requests'[q] = IF q = r THEN row ELSE requests[q]
  BY <1>s, <1>2, <1>3, RowWritten
<1>. QED  BY <1>2, <1>4 DEF r

LEMMA ApprovedRows ==
  ASSUME TypeOK, NEW h \in Handlers, NEW s, Approves(h, s)
  PROVE  /\ DOMAIN requests' = DOMAIN requests
         /\ Len(requests') = Len(requests)
         /\ \A r \in DOMAIN requests :
              IF r = session[h].request
              THEN /\ requests'[r].status = "APPROVED"
                   /\ requests'[r].approved = session[h].chosen
              ELSE requests'[r] = requests[r]
<1>. DEFINE r == session[h].request
            row == [requests[r] EXCEPT !.status = "APPROVED",
                                       !.approved = session[h].chosen]
<1>s. requests \in Seq(Request) /\ session[h].chosen \in SUBSET Corridors
  BY DEF TypeOK, Handlers, Session
<1>2. r \in DOMAIN requests =>
        /\ row \in Request
        /\ row.status = "APPROVED" /\ row.approved = session[h].chosen
  BY <1>s, RowType DEF Request, Statuses
<1>3. requests' = [requests EXCEPT ![r] = row]
  BY DEF Approves
<1>. HIDE DEF row, r
<1>4. /\ DOMAIN requests' = DOMAIN requests
      /\ Len(requests') = Len(requests)
      /\ \A q \in DOMAIN requests :
           requests'[q] = IF q = r THEN row ELSE requests[q]
  BY <1>s, <1>2, <1>3, RowWritten
<1>. QED  BY <1>2, <1>4 DEF r

-----------------------------------------------------------------------------
(* The stage needs the approval, because access is never taken back: what  *)
(* an administrator's update has checked still holds when it is written.   *)

StageInv ==
  /\ StageNeedsApproval
  /\ \A h \in Handlers :
       session[h].op = "update" /\ session[h].update.stage = "PRODUCTION_APPROVED"
         => partner.enabled

LEMMA WrittenStage ==
  ASSUME NEW p \in Partner, NEW u \in Update
  PROVE  /\ Written(p, u).enabled = p.enabled
         /\ Written(p, u).stage = IF u.stage = Unset THEN p.stage ELSE u.stage
BY DEF Written, Partner

LEMMA StageInductive ==
  ASSUME TypeOK, StageInv, Next
  PROVE  StageInv'
<1>1. PICK h \in Handlers, s \in Session : Shape(h, s)
  BY StepShape
<1>2. \A g \in Handlers : session'[g] = IF g = h THEN s ELSE session[g]
  BY <1>1, SessionAfter DEF Shape
<1>t. /\ partner \in Partner
      /\ \A g \in Handlers : session[g].update \in Update
      /\ s.update \in Update
      /\ Unset # "PRODUCTION_APPROVED"
  BY ApprovalAssumption DEF TypeOK, Session, Handlers
<1>3. CASE \/ Aside(h, s) \/ Reads(h, s) \/ Files(h, s) \/ Checks(h, s)
           \/ Refuses(h, s)
  <2>1. partner' = partner /\ s.op # "update"
    BY <1>3 DEF Aside, Reads, Files, Checks, Refuses, Quiet, Idle
  <2>. QED  BY <1>2, <2>1 DEF StageInv, StageNeedsApproval
<1>4. CASE Approves(h, s)
  <2>1. partner'.enabled /\ s.op # "update"
    BY <1>4, <1>t DEF Approves, Granted, Partner, Idle
  <2>. QED  BY <1>2, <2>1 DEF StageInv, StageNeedsApproval
<1>5. CASE Prepares(h, s)
  <2>1. partner' = partner
    BY <1>5 DEF Prepares, Quiet
  <2>2. s.update.stage = "PRODUCTION_APPROVED" => partner.enabled
    BY <1>5, <1>t, WrittenStage DEF Prepares, Acceptable
  <2>. QED  BY <1>2, <2>1, <2>2 DEF StageInv, StageNeedsApproval
<1>6. CASE Updates(h, s)
  <2>1. /\ partner'.enabled = partner.enabled
        /\ partner'.stage = IF session[h].update.stage = Unset
                            THEN partner.stage ELSE session[h].update.stage
    BY <1>6, <1>t, WrittenStage DEF Updates
  <2>2. session[h].op = "update" /\ s.op # "update"
    BY <1>6 DEF Updates, Idle
  <2>. QED  BY <1>2, <2>1, <2>2 DEF StageInv, StageNeedsApproval
<1>. QED  BY <1>1, <1>3, <1>4, <1>5, <1>6 DEF Shape

(* However calls interleave, no partner is in the stage PRODUCTION_APPROVED *)
(* without production access (updatePartnerAdminState).                    *)
THEOREM StageIsEarned == Spec => []StageNeedsApproval
<1>1. Init => StageInv
  BY DEF Init, StageInv, StageNeedsApproval, Idle, Handlers
<1>2. TypeOK /\ StageInv /\ [Next]_vars => StageInv'
  <2>1. StageInv /\ UNCHANGED vars => StageInv'
    BY DEF StageInv, StageNeedsApproval, vars
  <2>. QED  BY <2>1, StageInductive
<1>3. StageInv => StageNeedsApproval
  BY DEF StageInv
<1>. QED  BY <1>1, <1>2, <1>3, TypeCorrect, PTL DEF Spec

-----------------------------------------------------------------------------
(* Decisions.  A call that holds a decision about a request found it       *)
(* pending; if it is not pending any more, another call decided it while   *)
(* both were under way.                                                    *)

DecisionInv ==
  /\ \A g, h \in Handlers, r \in DOMAIN requests :
       Deciding(g, r) /\ Deciding(h, r) => g = h \/ r \in contested
  /\ \A h \in Handlers : session[h].op = "decide" =>
       /\ session[h].request \in DOMAIN requests
       /\ Pending(session[h].request) \/ session[h].request \in contested
       /\ session[h].status = "APPROVED" => session[h].chosen # {}

LEMMA DecisionInductive ==
  ASSUME TypeOK, DecisionInv, Next
  PROVE  /\ DecisionInv'
         /\ \A r \in DOMAIN requests : ~Pending(r) /\ r \notin contested =>
              requests'[r].status = requests[r].status
<1>1. PICK h \in Handlers, s \in Session : Shape(h, s)
  BY StepShape
<1>2. \A g \in Handlers : session'[g] = IF g = h THEN s ELSE session[g]
  BY <1>1, SessionAfter DEF Shape
<1>3. CASE \/ Aside(h, s) \/ Reads(h, s) \/ Prepares(h, s) \/ Updates(h, s)
  <2>1. requests' = requests /\ contested' = contested /\ s.op # "decide"
    BY <1>3 DEF Aside, Reads, Prepares, Updates, Quiet, Idle
  <2>. QED  BY <1>2, <2>1 DEF DecisionInv, Deciding, Pending
<1>4. CASE Files(h, s)
  <2>1. PICK row \in Request : requests' = Append(requests, row)
    BY <1>4 DEF Files
  <2>2. /\ DOMAIN requests \subseteq DOMAIN requests'
        /\ \A r \in DOMAIN requests : requests'[r] = requests[r]
    BY <2>1, FiledRows DEF TypeOK
  <2>3. contested' = contested /\ s.op # "decide"
    BY <1>4 DEF Files, Idle
  <2>. QED  BY <1>2, <2>2, <2>3 DEF DecisionInv, Deciding, Pending
<1>5. CASE Checks(h, s)
  <2>1. /\ requests' = requests
        /\ contested \subseteq contested'
        /\ \A g \in Handlers : Deciding(g, s.request)
                                => s.request \in contested'
    BY <1>5 DEF Checks
  <2>2. \A g \in Handlers, r \in DOMAIN requests :
          g # h /\ Deciding(g, r)' => Deciding(g, r)
    BY <1>2 DEF Deciding
  <2>3. \A r : Deciding(h, r)' => r = s.request
    BY <1>2 DEF Deciding
  <2>4. \A f, g \in Handlers, r \in DOMAIN requests :
          Deciding(f, r)' /\ Deciding(g, r)' => f = g \/ r \in contested'
    BY <2>1, <2>2, <2>3 DEF DecisionInv
  <2>5. \A g \in Handlers : session'[g].op = "decide" =>
         /\ session'[g].request \in DOMAIN requests
         /\ Pending(session'[g].request) \/ session'[g].request \in contested'
         /\ session'[g].status = "APPROVED" => session'[g].chosen # {}
    BY <1>2, <1>5, <2>1 DEF DecisionInv, Checks
  <2>. QED  BY <2>1, <2>4, <2>5 DEF DecisionInv, Pending
<1>6. CASE Refuses(h, s) \/ Approves(h, s)
  <2>1. /\ session[h].op = "decide" /\ s.op # "decide"
        /\ contested' = contested
    BY <1>6 DEF Refuses, Approves, Idle
  <2>2. /\ DOMAIN requests' = DOMAIN requests
        /\ \A r \in DOMAIN requests :
             r # session[h].request => requests'[r] = requests[r]
    BY <1>6, RefusedRows, ApprovedRows
  <2>3. \A g \in Handlers, r \in DOMAIN requests :
          Deciding(g, r)' => g # h /\ Deciding(g, r)
    BY <1>2, <2>1 DEF Deciding
  <2>4. \A f, g \in Handlers, r \in DOMAIN requests :
          Deciding(f, r)' /\ Deciding(g, r)' => f = g \/ r \in contested'
    BY <2>1, <2>3 DEF DecisionInv
  <2>5. ASSUME NEW g \in Handlers, session'[g].op = "decide"
        PROVE  /\ session'[g].request \in DOMAIN requests'
               /\ \/ requests'[session'[g].request].status = "PENDING"
                  \/ session'[g].request \in contested'
               /\ session'[g].status = "APPROVED" => session'[g].chosen # {}
    <3>1. g # h /\ session'[g] = session[g]
      BY <1>2, <2>1, <2>5
    <3>2. CASE session[g].request = session[h].request
      BY <2>1, <2>2, <2>5, <3>1, <3>2 DEF DecisionInv, Deciding
    <3>3. CASE session[g].request # session[h].request
      BY <2>1, <2>2, <2>5, <3>1, <3>3 DEF DecisionInv, Pending
    <3>. QED  BY <3>2, <3>3
  <2>6. \A r \in DOMAIN requests : ~Pending(r) /\ r \notin contested =>
          requests'[r].status = requests[r].status
    BY <2>1, <2>2 DEF DecisionInv
  <2>. QED  BY <2>2, <2>4, <2>5, <2>6 DEF DecisionInv, Pending
<1>. QED  BY <1>1, <1>3, <1>4, <1>5, <1>6 DEF Shape

LEMMA DecisionInvariant == Spec => [](TypeOK /\ DecisionInv)
<1>1. Init => DecisionInv
  BY DEF Init, DecisionInv, Deciding, Idle, Handlers
<1>2. TypeOK /\ DecisionInv /\ [Next]_vars => DecisionInv'
  <2>1. DecisionInv /\ UNCHANGED vars => DecisionInv'
    BY DEF DecisionInv, Deciding, Pending, vars
  <2>. QED  BY <2>1, DecisionInductive
<1>. QED  BY <1>1, <1>2, TypeCorrect, PTL DEF Spec

(* A decided request is decided again only by a call that was under way    *)
(* when it was decided (cancelProductionApprovalRequest,                   *)
(* reviewProductionApprovalRequest).                                       *)
THEOREM DecidedOnce == Spec => DecisionsStand
<1>1. TypeOK /\ DecisionInv /\ [Next]_vars =>
        [\A r \in DOMAIN requests :
           requests[r].status # "PENDING" /\ r \notin contested =>
             requests'[r].status = requests[r].status]_vars
  BY DecisionInductive DEF Pending
<1>. QED  BY <1>1, DecisionInvariant, PTL DEF Spec, DecisionsStand

-----------------------------------------------------------------------------
(* What an approval leaves behind stays, and what it said can only be      *)
(* overwritten by a call that contested it.                                *)

LEMMA GrantInductive ==
  ASSUME TypeOK, DecisionInv, AccessIsAccounted, ApprovedIsGranted, Next
  PROVE  AccessIsAccounted' /\ ApprovedIsGranted'
<1>1. PICK h \in Handlers, s \in Session : Shape(h, s)
  BY StepShape
<1>t. /\ \A r \in DOMAIN requests : requests[r].approved \in SUBSET Corridors
      /\ partner \in Partner
      /\ \A g \in Handlers : /\ session[g].update \in Update
                            /\ session[g].chosen \in SUBSET Corridors
  BY RowType DEF TypeOK, Request, Handlers, Session
<1>2. ASSUME UNCHANGED <<requests, contested>>, partner'.enabled = partner.enabled,
             \A c \in Corridors : corridors[c] # "NONE" => corridors'[c] # "NONE"
      PROVE  AccessIsAccounted' /\ ApprovedIsGranted'
  BY <1>2, <1>t DEF AccessIsAccounted, ApprovedIsGranted
<1>3. CASE Aside(h, s) \/ Reads(h, s) \/ Prepares(h, s)
  BY <1>2, <1>3 DEF Aside, Reads, Prepares, Quiet
<1>4. CASE Updates(h, s)
  BY <1>2, <1>4, <1>t, WrittenStage DEF Updates
<1>5. CASE Files(h, s)
  <2>1. PICK row \in Request : /\ row.status = "PENDING"
                              /\ requests' = Append(requests, row)
    BY <1>5 DEF Files
  <2>2. /\ Len(requests') = Len(requests) + 1
        /\ DOMAIN requests' = 1 .. Len(requests')
        /\ DOMAIN requests = 1 .. Len(requests)
        /\ Len(requests) \in Nat
        /\ requests'[Len(requests')] = row
        /\ \A r \in DOMAIN requests : requests'[r] = requests[r]
    BY <2>1, FiledRows DEF TypeOK
  <2>3. UNCHANGED <<partner, corridors, contested>>
    BY <1>5 DEF Files
  <2>4. \A r \in DOMAIN requests' :
          requests'[r].status = "APPROVED" => r \in DOMAIN requests
    BY <2>1, <2>2
  <2>. QED  BY <2>2, <2>3, <2>4 DEF AccessIsAccounted, ApprovedIsGranted
<1>6. CASE Checks(h, s)
  <2>1. /\ UNCHANGED <<partner, requests, corridors>>
        /\ contested \subseteq contested'
    BY <1>6 DEF Checks
  <2>. QED  BY <2>1 DEF AccessIsAccounted, ApprovedIsGranted
<1>7. CASE Refuses(h, s)
  <2>1. /\ DOMAIN requests' = DOMAIN requests
        /\ \A r \in DOMAIN requests :
             IF r = session[h].request
             THEN /\ requests'[r].status \in {"CANCELLED", "REJECTED"}
                  /\ requests'[r].approved = requests[r].approved
             ELSE requests'[r] = requests[r]
    BY <1>7, RefusedRows
  <2>2. UNCHANGED <<partner, corridors, contested>> /\ session[h].op = "decide"
    BY <1>7 DEF Refuses
  <2>3. AccessIsAccounted'
    <3>1. ASSUME partner.enabled
          PROVE  \E r \in DOMAIN requests' :
                   /\ requests'[r].approved # {}
                   /\ requests'[r].status = "APPROVED" \/ r \in contested'
      <4>1. PICK r \in DOMAIN requests :
              /\ requests[r].approved # {}
              /\ requests[r].status = "APPROVED" \/ r \in contested
        BY <3>1 DEF AccessIsAccounted
      <4>2. CASE r = session[h].request
        <5>1. Pending(r) \/ r \in contested
          BY <2>2, <4>2 DEF DecisionInv
        <5>2. r \in contested
          BY <4>1, <5>1 DEF Pending
        <5>. QED  BY <2>1, <2>2, <4>1, <4>2, <5>2
      <4>3. CASE r # session[h].request
        BY <2>1, <2>2, <4>1, <4>3
      <4>. QED  BY <4>2, <4>3
    <3>. QED  BY <2>2, <3>1 DEF AccessIsAccounted
  <2>4. ApprovedIsGranted'
    BY <2>1, <2>2 DEF ApprovedIsGranted
  <2>. QED  BY <2>3, <2>4
<1>8. CASE Approves(h, s)
  <2>1. /\ DOMAIN requests' = DOMAIN requests
        /\ \A r \in DOMAIN requests :
             IF r = session[h].request
             THEN /\ requests'[r].status = "APPROVED"
                  /\ requests'[r].approved = session[h].chosen
             ELSE requests'[r] = requests[r]
    BY <1>8, ApprovedRows
  <2>2. /\ session[h].request \in DOMAIN requests
        /\ session[h].chosen # {}
    BY <1>8 DEF Approves, DecisionInv
  <2>3. partner'.enabled
    BY <1>8, <1>t DEF Approves, Granted, Partner
  <2>4. /\ \A c \in Corridors : corridors[c] # "NONE" => corridors'[c] # "NONE"
        /\ \A c \in session[h].chosen : corridors'[c] # "NONE"
    BY <1>8 DEF Approves
  <2>5. AccessIsAccounted'
    BY <2>1, <2>2 DEF AccessIsAccounted
  <2>6. ApprovedIsGranted'
    BY <1>t, <2>1, <2>2, <2>3, <2>4 DEF ApprovedIsGranted
  <2>. QED  BY <2>5, <2>6
<1>. QED  BY <1>1, <1>3, <1>4, <1>5, <1>6, <1>7, <1>8 DEF Shape

LEMMA GrantInvariant == Spec => [](AccessIsAccounted /\ ApprovedIsGranted)
<1>1. Init => AccessIsAccounted /\ ApprovedIsGranted
  BY DEF Init, AccessIsAccounted, ApprovedIsGranted
<1>2. TypeOK /\ DecisionInv /\ AccessIsAccounted /\ ApprovedIsGranted
        /\ [Next]_vars => (AccessIsAccounted /\ ApprovedIsGranted)'
  <2>1. AccessIsAccounted /\ ApprovedIsGranted /\ UNCHANGED vars =>
          (AccessIsAccounted /\ ApprovedIsGranted)'
    BY DEF AccessIsAccounted, ApprovedIsGranted, vars
  <2>. QED  BY <2>1, GrantInductive
<1>. QED  BY <1>1, <1>2, DecisionInvariant, PTL DEF Spec

(* Production access is on the record of an approved request, unless two   *)
(* calls contested it (reviewProductionApprovalRequest).                   *)
THEOREM AccessOnRecord == Spec => []AccessIsAccounted
<1>. QED  BY GrantInvariant, PTL

(* An approved request has given the access and the corridors it names.    *)
THEOREM ApprovalTakesEffect == Spec => []ApprovedIsGranted
<1>. QED  BY GrantInvariant, PTL

-----------------------------------------------------------------------------
(* What two calls of one kind leave behind in overlapped.                  *)

OverlapInv ==
  \A g, h \in Handlers :
    g # h /\ Kind(session[g]) = Kind(session[h])
      => Kind(session[g]) = "neither" \/ Kind(session[g]) \in overlapped

LEMMA HoldOverlap ==
  ASSUME TypeOK, OverlapInv, NEW h \in Handlers, NEW s, Hold(h, s)
  PROVE  OverlapInv' /\ overlapped \subseteq overlapped'
<1>1. \A g \in Handlers : session'[g] = IF g = h THEN s ELSE session[g]
  BY SessionAfter
<1>2. /\ overlapped \subseteq overlapped'
      /\ \A g \in Handlers : g # h /\ Kind(session[g]) = Kind(s)
           => Kind(s) = "neither" \/ Kind(s) \in overlapped'
  BY DEF Hold, Others, Handlers
<1>3. ASSUME NEW f \in Handlers, NEW g \in Handlers, f # g,
             Kind(session'[f]) = Kind(session'[g])
      PROVE  Kind(session'[f]) = "neither" \/ Kind(session'[f]) \in overlapped'
  <2>1. CASE f = h
    BY <1>1, <1>2, <1>3, <2>1
  <2>2. CASE g = h
    BY <1>1, <1>2, <1>3, <2>2
  <2>3. CASE f # h /\ g # h
    BY <1>1, <1>2, <1>3, <2>3 DEF OverlapInv
  <2>. QED  BY <2>1, <2>2, <2>3
<1>. QED  BY <1>2, <1>3 DEF OverlapInv

LEMMA OverlapInvariant == Spec => [](TypeOK /\ OverlapInv)
<1>1. Init => OverlapInv
  BY DEF Init, OverlapInv, Kind, Idle, Handlers
<1>2. TypeOK /\ OverlapInv /\ [Next]_vars => OverlapInv'
  <2>1. ASSUME TypeOK, OverlapInv, Next  PROVE OverlapInv'
    <3>1. PICK h \in Handlers, s \in Session : Shape(h, s)
      BY <2>1, StepShape
    <3>. QED  BY <2>1, <3>1, HoldOverlap DEF Shape
  <2>2. OverlapInv /\ UNCHANGED vars => OverlapInv'
    BY DEF OverlapInv, vars
  <2>. QED  BY <2>1, <2>2
<1>. QED  BY <1>1, <1>2, TypeCorrect, PTL DEF Spec

-----------------------------------------------------------------------------
(* Unless two users file at once, what a filing handler has read about the *)
(* latest request still holds: no other call files one, and none reopens   *)
(* one.                                                                    *)

FilingInv ==
  "filings" \notin overlapped =>
    /\ \A r \in DOMAIN requests : Pending(r) => r = Len(requests)
    /\ \A u \in Handlers : session[u].op = "file" /\ session[u].latestRead
                            => ~LatestPending

LEMMA FilingInductive ==
  ASSUME TypeOK, OverlapInv, FilingInv, Next
  PROVE  FilingInv'
<1>1. PICK h \in Handlers, s \in Session : Shape(h, s)
  BY StepShape
<1>2. \A u \in Handlers : session'[u] = IF u = h THEN s ELSE session[u]
  BY <1>1, SessionAfter DEF Shape
<1>o. OverlapInv' /\ overlapped \subseteq overlapped'
  BY <1>1, HoldOverlap DEF Shape
<1> SUFFICES ASSUME "filings" \notin overlapped'
             PROVE  /\ \A r \in DOMAIN requests' : Pending(r)' => r = Len(requests')
                    /\ \A u \in Handlers :
                         session'[u].op = "file" /\ session'[u].latestRead
                           => ~LatestPending'
  BY DEF FilingInv
<1>q. "filings" \notin overlapped
  BY <1>o
<1>3. CASE \/ Aside(h, s) \/ Checks(h, s) \/ Prepares(h, s) \/ Updates(h, s)
  <2>1. requests' = requests /\ s.op # "file"
    BY <1>3 DEF Aside, Checks, Prepares, Updates, Quiet, Idle
  <2>. QED  BY <1>2, <1>q, <2>1 DEF FilingInv, Pending, LatestPending
<1>4. CASE Reads(h, s)
  <2>1. requests' = requests
    BY <1>4 DEF Reads, Quiet
  <2>. QED  BY <1>2, <1>4, <1>q, <2>1 DEF Reads, FilingInv, Pending, LatestPending
<1>5. CASE Files(h, s)
  <2>1. PICK row \in Request : requests' = Append(requests, row)
    BY <1>5 DEF Files
  <2>2. /\ Len(requests') = Len(requests) + 1
        /\ DOMAIN requests' = 1 .. Len(requests')
        /\ DOMAIN requests = 1 .. Len(requests)
        /\ Len(requests) \in Nat
        /\ \A r \in DOMAIN requests : requests'[r] = requests[r]
    BY <2>1, FiledRows DEF TypeOK
  <2>3. ~LatestPending
    BY <1>5, <1>q DEF Files, FilingInv
  <2>4. \A r \in DOMAIN requests : ~Pending(r)
    BY <1>q, <2>2, <2>3 DEF FilingInv, LatestPending, Pending
  <2>5. \A u \in Handlers : session'[u].op # "file"
    <3>1. session[h].op = "file" /\ s.op # "file"
      BY <1>5 DEF Files, Idle
    <3>2. \A u \in Handlers : u # h => session[u].op # "file"
      BY <1>q, <3>1 DEF OverlapInv, Kind
    <3>. QED  BY <1>2, <3>1, <3>2
  <2>. QED  BY <2>2, <2>4, <2>5 DEF Pending
<1>6. CASE Refuses(h, s) \/ Approves(h, s)
  <2>1. /\ DOMAIN requests' = DOMAIN requests
        /\ Len(requests') = Len(requests)
        /\ \A r \in DOMAIN requests : Pending(r)' => Pending(r)
    BY <1>6, RefusedRows, ApprovedRows DEF Pending
  <2>2. LatestPending' => LatestPending
    <3>1. /\ requests \in Seq(Request)
          /\ DOMAIN requests = 1 .. Len(requests) /\ Len(requests) \in Nat
      BY DEF TypeOK
    <3>2. requests' # <<>> => Len(requests') # 0
      <4>1. requests' \in Seq(Request)
        BY TypeInductive DEF TypeOK
      <4>. QED  BY <4>1
    <3>. QED  BY <2>1, <3>1, <3>2 DEF LatestPending, Pending
  <2>3. s.op # "file"
    BY <1>6 DEF Refuses, Approves, Idle
  <2>. QED  BY <1>2, <1>q, <2>1, <2>2, <2>3 DEF FilingInv
<1>. QED  BY <1>1, <1>3, <1>4, <1>5, <1>6 DEF Shape

(* One request is pending at most (requestProductionApproval), unless two  *)
(* users were filing at once, whatever administrators do meanwhile.        *)
THEOREM FilingAloneOnePending == Spec => []OnePending
<1>1. Init => FilingInv
  BY DEF Init, FilingInv, Idle, Handlers
<1>2. TypeOK /\ OverlapInv /\ FilingInv /\ [Next]_vars => FilingInv'
  <2>1. FilingInv /\ UNCHANGED vars => FilingInv'
    BY DEF FilingInv, Pending, LatestPending, vars
  <2>. QED  BY <2>1, FilingInductive
<1>3. FilingInv => OnePending
  BY DEF FilingInv, OnePending, Pending
<1>. QED  BY <1>1, <1>2, <1>3, OverlapInvariant, PTL DEF Spec

-----------------------------------------------------------------------------
(* Unless an update overlaps another one or an approval, the partner an    *)
(* update has been checked against is the one it is written to.            *)

ConsoleInv ==
  "edits" \notin overlapped =>
    /\ Acceptable(partner)
    /\ \A a \in Handlers : session[a].op = "update" =>
         Acceptable(Written(partner, session[a].update))

LEMMA ConsoleInductive ==
  ASSUME TypeOK, OverlapInv, ConsoleInv, Next
  PROVE  ConsoleInv'
<1>1. PICK h \in Handlers, s \in Session : Shape(h, s)
  BY StepShape
<1>2. \A a \in Handlers : session'[a] = IF a = h THEN s ELSE session[a]
  BY <1>1, SessionAfter DEF Shape
<1>o. OverlapInv' /\ overlapped \subseteq overlapped'
  BY <1>1, HoldOverlap DEF Shape
<1> SUFFICES ASSUME "edits" \notin overlapped'
             PROVE  /\ Acceptable(partner')
                    /\ \A a \in Handlers : session'[a].op = "update" =>
                         Acceptable(Written(partner', session'[a].update))
  BY DEF ConsoleInv
<1>q. "edits" \notin overlapped
  BY <1>o
<1>a. ASSUME Kind(session[h]) = "edits", s.op # "update"
      PROVE  \A a \in Handlers : session'[a].op # "update"
  <2>1. \A a \in Handlers : a # h => Kind(session[a]) # "edits"
    BY <1>q, <1>a DEF OverlapInv
  <2>2. \A a \in Handlers : session[a].op = "update" => Kind(session[a]) = "edits"
    BY DEF Kind
  <2>. QED  BY <1>2, <1>a, <2>1, <2>2
<1>3. CASE \/ Aside(h, s) \/ Reads(h, s) \/ Files(h, s) \/ Checks(h, s)
           \/ Refuses(h, s)
  <2>1. partner' = partner /\ s.op # "update"
    BY <1>3 DEF Aside, Reads, Files, Checks, Refuses, Quiet, Idle
  <2>. QED  BY <1>2, <1>q, <2>1 DEF ConsoleInv
<1>4. CASE Prepares(h, s)
  <2>1. partner' = partner
    BY <1>4 DEF Prepares, Quiet
  <2>. QED  BY <1>2, <1>4, <1>q, <2>1 DEF Prepares, ConsoleInv
<1>5. CASE Approves(h, s)
  <2>1. Acceptable(Granted(partner))
    <3>1. partner \in Partner /\ Acceptable(partner)
      BY <1>q DEF TypeOK, ConsoleInv
    <3>. QED  BY <3>1 DEF Acceptable, Granted, Partner
  <2>2. partner' = Granted(partner)
    BY <1>5 DEF Approves
  <2>3. \A a \in Handlers : session'[a].op # "update"
    BY <1>5, <1>a DEF Approves, Idle, Kind
  <2>. QED  BY <2>1, <2>2, <2>3
<1>6. CASE Updates(h, s)
  <2>1. Acceptable(partner')
    BY <1>6, <1>q DEF Updates, ConsoleInv
  <2>2. \A a \in Handlers : session'[a].op # "update"
    BY <1>6, <1>a DEF Updates, Idle, Kind
  <2>. QED  BY <2>1, <2>2
<1>. QED  BY <1>1, <1>3, <1>4, <1>5, <1>6 DEF Shape

(* Unless an administrator's update overlapped an approval or another      *)
(* update (updatePartnerAdminState), a partner with production access      *)
(* stays in its stage and full attestation partners are data partners.     *)
THEOREM EditsAloneConsistent == Spec => []PartnerIsConsistent
<1>1. Init => ConsoleInv
  BY DEF Init, ConsoleInv, Acceptable, Idle, Handlers
<1>2. TypeOK /\ OverlapInv /\ ConsoleInv /\ [Next]_vars => ConsoleInv'
  <2>1. ConsoleInv /\ UNCHANGED vars => ConsoleInv'
    BY DEF ConsoleInv, vars
  <2>. QED  BY <2>1, ConsoleInductive
<1>3. ConsoleInv => PartnerIsConsistent
  BY DEF ConsoleInv, Acceptable, PartnerIsConsistent
<1>. QED  BY <1>1, <1>2, <1>3, OverlapInvariant, PTL DEF Spec
==============================================================================
