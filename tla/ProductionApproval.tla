-------------------------- MODULE ProductionApproval --------------------------
(***************************************************************************)
(* How a partner gets production access: its users file and cancel         *)
(* approval requests, administrators review them, edit the partner's       *)
(* onboarding stage and capabilities and grant or revoke corridors         *)
(* (partners.service.ts).                                                  *)
(*                                                                         *)
(* Every handler reads, checks what it read, and then writes by primary    *)
(* key in a transaction of its own.  The check is not repeated there, so   *)
(* the handlers of several callers interleave between check and write.     *)
(* A handler whose call fails or is lost leaves nothing behind.            *)
(*                                                                         *)
(* Abstracted: one partner; notes, timestamps and audit events, which are  *)
(* written in the transaction of the row they describe; the onboarding     *)
(* counts and the feed health that a request needs, which other parts of   *)
(* the system change (any answer is possible); the stages before           *)
(* production approval, which are one.                                     *)
(***************************************************************************)
EXTENDS Integers, Sequences

CONSTANTS
  Users,        \* sessions of the partner's owners and administrators
  Admins,       \* concurrent calls with the administration token
  Corridors,    \* active asset networks
  Unset,        \* a field that an administrator's update leaves out
  MaxRequests,  \* bound: requests filed
  MaxUpdates    \* bound: administrators' updates

ASSUME ApprovalAssumption ==
  /\ Users \intersect Admins = {}
  /\ Unset \notin BOOLEAN
  /\ Unset \notin {"ACCOUNT_CREATED", "PRODUCTION_APPROVED"}
  /\ MaxRequests \in Nat
  /\ MaxUpdates \in Nat

VARIABLES
  partner,    \* the capabilities and the stage of the Partner row
  requests,   \* the partner's approval requests, in the order of requestedAt
  corridors,  \* the PartnerProductionCorridor rows
  session,    \* what each handler holds between its check and its write
  contested,  \* history: requests that two calls were deciding at once
  overlapped, \* history: kinds of calls of which two were open at once
  updates

vars == <<partner, requests, corridors, session, contested, overlapped, updates>>

Stages == {"ACCOUNT_CREATED", "PRODUCTION_APPROVED"}
Statuses == {"PENDING", "APPROVED", "REJECTED", "CANCELLED"}

Partner == [enabled : BOOLEAN, stage : Stages, data : BOOLEAN, full : BOOLEAN]

Request ==
  [status : Statuses, requested : SUBSET Corridors, approved : SUBSET Corridors]

\* The fields of an administrator's update; those it leaves out are Unset.
Update == [stage : Stages \union {Unset}, data : BOOLEAN \union {Unset},
           full : BOOLEAN \union {Unset}]

Session ==
  [op : {"idle", "file", "decide", "update", "corridor"},
   partnerRead : BOOLEAN, latestRead : BOOLEAN,
   request : Nat, status : Statuses, chosen : SUBSET Corridors,
   update : Update, enable : BOOLEAN, existed : BOOLEAN]

\* The partner, its requests and its corridors keep their types.
TypeOK ==
  /\ partner \in Partner
  /\ requests \in Seq(Request)
  /\ corridors \in [Corridors -> {"NONE", "GRANTED", "REVOKED"}]
  /\ session \in [Users \union Admins -> Session]
  /\ contested \subseteq Nat
  /\ overlapped \subseteq {"filings", "edits"}
  /\ updates \in Nat

NoUpdate == [stage |-> Unset, data |-> Unset, full |-> Unset]

Idle == [op |-> "idle", partnerRead |-> FALSE, latestRead |-> FALSE,
         request |-> 0, status |-> "PENDING", chosen |-> {},
         update |-> NoUpdate, enable |-> FALSE, existed |-> FALSE]

Init ==
  /\ partner = [enabled |-> FALSE, stage |-> "ACCOUNT_CREATED",
                data |-> FALSE, full |-> FALSE]
  /\ requests = <<>>
  /\ corridors = [c \in Corridors |-> "NONE"]
  /\ session = [h \in Users \union Admins |-> Idle]
  /\ contested = {}
  /\ overlapped = {}
  /\ updates = 0

\* What a call is about to change, by what it read before: the list of
\* requests, or the stage and capabilities of the partner.
Kind(s) ==
  IF s.op = "file" THEN "filings"
  ELSE IF s.op = "update" \/ (s.op = "decide" /\ s.status = "APPROVED")
  THEN "edits" ELSE "neither"

Others(h) == {Kind(session[g]) : g \in (Users \union Admins) \ {h}}

Hold(h, s) ==
  /\ session' = [session EXCEPT ![h] = s]
  /\ overlapped' = overlapped \union (({Kind(s)} \intersect Others(h)) \ {"neither"})

Release(h) == Hold(h, Idle)

-----------------------------------------------------------------------------
(* requestProductionApproval.  It reads the partner, its counts and its    *)
(* latest request with Promise.all, in no order.                           *)

MutLatestNotChecked == FALSE

LatestPending ==
  requests # <<>> /\ requests[Len(requests)].status = "PENDING"

File(u, wanted) ==
  /\ session[u].op = "idle"
  /\ Len(requests) < MaxRequests
  /\ Hold(u, [Idle EXCEPT !.op = "file", !.chosen = wanted])
  /\ UNCHANGED <<partner, requests, corridors, contested, updates>>

\* Refused if production approved already, or if the onboarding steps are
\* incomplete or a data partner's feed unhealthy (~ready).
ReadPartner(u) ==
  /\ session[u].op = "file"
  /\ ~session[u].partnerRead
  /\ \E ready \in BOOLEAN :
       Hold(u, IF ready /\ ~partner.enabled
               THEN [session[u] EXCEPT !.partnerRead = TRUE] ELSE Idle)
  /\ UNCHANGED <<partner, requests, corridors, contested, updates>>

ReadLatest(u) ==
  /\ session[u].op = "file"
  /\ ~session[u].latestRead
  /\ Hold(u, IF LatestPending THEN Idle
             ELSE [session[u] EXCEPT !.latestRead = TRUE])
  /\ UNCHANGED <<partner, requests, corridors, contested, updates>>

Insert(u) ==
  /\ session[u].op = "file"
  /\ session[u].partnerRead
  /\ session[u].latestRead
  /\ Len(requests) < MaxRequests
  /\ requests' = Append(requests, [status |-> "PENDING",
                                   requested |-> session[u].chosen,
                                   approved |-> {}])
  /\ Release(u)
  /\ UNCHANGED <<partner, corridors, contested, updates>>

-----------------------------------------------------------------------------
(* cancelProductionApprovalRequest and reviewProductionApprovalRequest.    *)

MutAnyStatus(r) == TRUE

Pending(r) == requests[r].status = "PENDING"
Deciding(h, r) == session[h].op = "decide" /\ session[h].request = r

\* The checks of both handlers end in a session that will write status.
Decide(h, r, status, chosen) ==
  /\ session[h].op = "idle"
  /\ Pending(r)
  /\ Hold(h, [Idle EXCEPT !.op = "decide", !.request = r, !.status = status,
                          !.chosen = chosen])
  /\ contested' = contested \union
                    {q \in {r} : \E g \in Users \union Admins : Deciding(g, q)}
  /\ UNCHANGED <<partner, requests, corridors, updates>>

CheckCancel(u, r) == Decide(u, r, "CANCELLED", {})

\* The administrator may override the corridors that were asked for; an
\* approval needs one at least.
CheckReview(a, r, decision, override) ==
  LET chosen == IF override = {} THEN requests[r].requested ELSE override
  IN /\ decision = "APPROVED" => chosen # {}
     /\ Decide(a, r, decision, chosen)

WriteCancel(u) ==
  /\ session[u].op = "decide"
  /\ session[u].status = "CANCELLED"
  /\ requests' = [requests EXCEPT ![session[u].request].status = "CANCELLED"]
  /\ Release(u)
  /\ UNCHANGED <<partner, corridors, contested, updates>>

WriteRejection(a) ==
  /\ session[a].op = "decide"
  /\ session[a].status = "REJECTED"
  /\ requests' = [requests EXCEPT ![session[a].request].status = "REJECTED"]
  /\ Release(a)
  /\ UNCHANGED <<partner, corridors, contested, updates>>

MutEnabledOnly(p) == [p EXCEPT !.enabled = TRUE]

MutStageOnly(p) == [p EXCEPT !.stage = "PRODUCTION_APPROVED"]

Granted(p) == [p EXCEPT !.enabled = TRUE, !.stage = "PRODUCTION_APPROVED"]

WriteApproval(a) ==
  /\ session[a].op = "decide"
  /\ session[a].status = "APPROVED"
  /\ requests' = [requests EXCEPT ![session[a].request] =
                    [@ EXCEPT !.status = "APPROVED",
                              !.approved = session[a].chosen]]
  /\ partner' = Granted(partner)
  /\ corridors' = [c \in Corridors |-> IF c \in session[a].chosen
                                       THEN "GRANTED" ELSE corridors[c]]
  /\ Release(a)
  /\ UNCHANGED <<contested, updates>>

-----------------------------------------------------------------------------
(* updatePartnerAdminState.                                                *)

MutWritesUndefined(p, u) ==
  [p EXCEPT !.stage = u.stage,
            !.data = IF u.data = Unset THEN @ ELSE u.data,
            !.full = IF u.full = Unset THEN @ ELSE u.full]

Written(p, u) ==
  [p EXCEPT !.stage = IF u.stage = Unset THEN @ ELSE u.stage,
            !.data = IF u.data = Unset THEN @ ELSE u.data,
            !.full = IF u.full = Unset THEN @ ELSE u.full]

MutStageOnlyIfEnabled(next) ==
  /\ next.full => next.data
  /\ next.enabled => next.stage = "PRODUCTION_APPROVED"

\* What the handler checks of the row that its update would make of the one
\* it read.
Acceptable(next) ==
  /\ next.full => next.data
  /\ next.enabled <=> next.stage = "PRODUCTION_APPROVED"

CheckUpdate(a, u) ==
  /\ session[a].op = "idle"
  /\ updates < MaxUpdates
  /\ updates' = updates + 1
  /\ u # NoUpdate
  /\ Acceptable(Written(partner, u))
  /\ Hold(a, [Idle EXCEPT !.op = "update", !.update = u])
  /\ UNCHANGED <<partner, requests, corridors, contested>>

WriteUpdate(a) ==
  /\ session[a].op = "update"
  /\ partner' = Written(partner, session[a].update)
  /\ Release(a)
  /\ UNCHANGED <<requests, corridors, contested, updates>>

-----------------------------------------------------------------------------
(* updatePartnerProductionCorridor.                                        *)

CheckCorridor(a, c, enable) ==
  /\ session[a].op = "idle"
  /\ updates < MaxUpdates
  /\ updates' = updates + 1
  /\ enable \/ corridors[c] # "NONE"
  /\ Hold(a, [Idle EXCEPT !.op = "corridor", !.chosen = {c},
                          !.enable = enable, !.existed = corridors[c] # "NONE"])
  /\ UNCHANGED <<partner, requests, corridors, contested>>

\* An insert of a row that exists by now breaks the unique index: the call
\* fails (Abandon).
WriteCorridor(a) ==
  /\ session[a].op = "corridor"
  /\ \A c \in session[a].chosen : session[a].existed \/ corridors[c] = "NONE"
  /\ corridors' = [c \in Corridors |->
                     IF c \notin session[a].chosen THEN corridors[c]
                     ELSE IF session[a].enable THEN "GRANTED" ELSE "REVOKED"]
  /\ Release(a)
  /\ UNCHANGED <<partner, requests, contested, updates>>

\* A statement fails, or the process ends: the transaction is rolled back.
Abandon(h) ==
  /\ session[h].op # "idle"
  /\ Release(h)
  /\ UNCHANGED <<partner, requests, corridors, contested, updates>>

-----------------------------------------------------------------------------
UserStep(u) ==
  \/ \E wanted \in SUBSET Corridors : File(u, wanted)
  \/ ReadPartner(u)
  \/ ReadLatest(u)
  \/ Insert(u)
  \/ \E r \in DOMAIN requests : CheckCancel(u, r)
  \/ WriteCancel(u)

AdminStep(a) ==
  \/ \E r \in DOMAIN requests, override \in SUBSET Corridors,
        decision \in {"APPROVED", "REJECTED"} :
       CheckReview(a, r, decision, override)
  \/ WriteRejection(a)
  \/ WriteApproval(a)
  \/ \E u \in Update : CheckUpdate(a, u)
  \/ WriteUpdate(a)
  \/ \E c \in Corridors, enable \in BOOLEAN : CheckCorridor(a, c, enable)
  \/ WriteCorridor(a)

Next ==
  \/ \E u \in Users : UserStep(u)
  \/ \E a \in Admins : AdminStep(a)
  \/ \E h \in Users \union Admins : Abandon(h)

Spec == Init /\ [][Next]_vars

-----------------------------------------------------------------------------
(* The stage says PRODUCTION_APPROVED only once the access is granted, as  *)
(* the refusal of updatePartnerAdminState to set it promises, however the  *)
(* calls of users and administrators interleave.                           *)
StageNeedsApproval ==
  partner.stage = "PRODUCTION_APPROVED" => partner.enabled

(* A partner with production access has a request that was approved, with  *)
(* one corridor at least, and that says so still unless two calls were     *)
(* deciding it at once.                                                    *)
AccessIsAccounted ==
  partner.enabled =>
    \E r \in DOMAIN requests :
      /\ requests[r].approved # {}
      /\ requests[r].status = "APPROVED" \/ r \in contested

(* A decision stands: a cancelled or reviewed request is not decided again *)
(* by a call that did not overlap the first.                               *)
DecisionsStand ==
  [][\A r \in DOMAIN requests :
       requests[r].status # "PENDING" /\ r \notin contested =>
         requests'[r].status = requests[r].status]_vars

(* An approved request's partner has access, and each of its corridors a   *)
(* row that says whether it was revoked since.                             *)
ApprovedIsGranted ==
  \A r \in DOMAIN requests : requests[r].status = "APPROVED" =>
    /\ partner.enabled
    /\ requests[r].approved # {}
    /\ \A c \in requests[r].approved : corridors[c] # "NONE"

(* requestProductionApproval files a request only if none is pending: one  *)
(* is pending at most, unless two users were filing at once.               *)
OnePending ==
  "filings" \notin overlapped =>
    \A q, r \in DOMAIN requests :
      requests[q].status = "PENDING" /\ requests[r].status = "PENDING" => q = r

(* updatePartnerAdminState: a partner with production access remains in    *)
(* the stage PRODUCTION_APPROVED, and the full attestation capability      *)
(* needs the data partner capability, unless an update overlapped another  *)
(* update or an approval.                                                  *)
PartnerIsConsistent ==
  "edits" \notin overlapped =>
    /\ partner.enabled => partner.stage = "PRODUCTION_APPROVED"
    /\ partner.full => partner.data

(* What cancel and review say of themselves: only pending requests are     *)
(* decided.  It fails when a cancellation and a review overlap, and leaves *)
(* a partner with production access and a cancelled request.               *)
OnlyPendingIsDecided ==
  [][\A r \in DOMAIN requests :
       requests[r].status # "PENDING" =>
         requests'[r].status = requests[r].status]_vars
==============================================================================
