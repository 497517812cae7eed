------------------------- MODULE PartnerAccessProofs -------------------------
(* Theorems about PartnerAccess, for every value of its constants.         *)
EXTENDS PartnerAccess, FiniteSetTheorems, TLAPS

(* The steps of a call after its first: those that only read, and those    *)
(* that write.                                                             *)
ReadStep(h) ==
  \/ ReadExistingUser(h)
  \/ ReadInvitee(h)
  \/ ReadPendingInvite(h)
  \/ ReadInvite(h)
  \/ ReadForRole(h)
  \/ ReadForDeactivation(h)
  \/ CountOwners(h)
  \/ ReadLogin(h)
  \/ ReadCredential(h)
  \/ ReadKey(h)
  \/ CountKeys(h)
  \/ ReadVersion(h)
  \/ ReadSettings(h)

WriteStep(h) ==
  \/ WriteInvite(h)
  \/ WriteUser(h)
  \/ WriteAcceptance(h)
  \/ WriteRole(h)
  \/ WriteDeactivation(h)
  \/ WriteLogin(h)
  \/ Logout(h)
  \/ Issue(h)
  \/ RevokeCredential(h)
  \/ RegisterKey(h)
  \/ RevokeKey(h)
  \/ Rotate(h)
  \/ WriteSettings(h)

BeginStep(h) ==
  \E op \in Ops, actor \in Actors :
    \E target \in TargetsOf(op), arg \in ArgsOf(op) :
      Begin(h, op, actor, target, arg)

LEMMA StepCases ==
  ASSUME Next
  PROVE  \/ Tick
         \/ \E h \in Handlers : BeginStep(h)
         \/ \E h \in Handlers : Fail(h)
         \/ \E h \in Handlers : ReadStep(h)
         \/ \E h \in Handlers : CreateSettings(h)
         \/ \E h \in Handlers : WriteStep(h)
<1>1. ASSUME NEW h \in Handlers, UserStep(h)  PROVE ReadStep(h) \/ WriteStep(h)
  BY <1>1 DEF UserStep, ReadStep, WriteStep
<1>2. ASSUME NEW h \in Handlers, SecretStep(h)  PROVE ReadStep(h) \/ WriteStep(h)
  BY <1>2 DEF SecretStep, ReadStep, WriteStep
<1>3. ASSUME NEW h \in Handlers, SettingsStep(h)
      PROVE  ReadStep(h) \/ WriteStep(h) \/ CreateSettings(h)
  BY <1>3 DEF SettingsStep, ReadStep, WriteStep
<1>. QED  BY <1>1, <1>2, <1>3 DEF Next, BeginStep

-----------------------------------------------------------------------------
(* What a call names has the type its statements need.                     *)

Shaped(c) ==
  c.stage # "idle" =>
    /\ c.op \in {"createUser", "invite", "accept", "login"} \union TeamOps =>
         c.target \in Users
    /\ c.op \in {"createUser", "invite", "changeRole"} => c.arg \in Roles
    /\ c.op = "updateSettings" => c.arg \in Values

CallsInv == \A h \in Handlers : Shaped(call[h])

TypeInv == TypeOK /\ CallsInv

LEMMA IdleType == Idle \in Call /\ Shaped(Idle)
BY DEF Idle, Call, Shaped, Ops, PublicOps, Actors, Targets, Roles

LEMMA CallTypes ==
  ASSUME TypeInv, NEW h \in Handlers
  PROVE  /\ call[h] \in Call
         /\ call[h].op \in Ops
         /\ call[h].seen \in Nat
         /\ Shaped(call[h])
BY DEF TypeInv, TypeOK, CallsInv, Call

(* Calls change one at a time.                                             *)
LEMMA OneCall ==
  ASSUME TypeOK, NEW h \in Handlers, NEW c \in Call, Shaped(c), CallsInv,
         call' = [call EXCEPT ![h] = c]
  PROVE  call' \in [Handlers -> Call] /\ CallsInv'
BY DEF TypeOK, CallsInv

LEMMA EndsTyped ==
  ASSUME TypeInv, NEW h \in Handlers, End(h)
  PROVE  call' \in [Handlers -> Call] /\ CallsInv'
BY IdleType, OneCall DEF End, TypeInv

LEMMA GoesTyped ==
  ASSUME TypeInv, NEW h \in Handlers,
         NEW stage \in {"read", "find", "count", "create", "write"},
         call[h].stage # "idle",
         Goto(h, stage)
  PROVE  call' \in [Handlers -> Call] /\ CallsInv'
<1>. DEFINE c == [call[h] EXCEPT !.stage = stage]
<1>1. call[h] \in Call /\ Shaped(call[h])
  BY CallTypes
<1>2. c \in Call /\ Shaped(c)
  BY <1>1 DEF Call, Shaped
<1>3. call' = [call EXCEPT ![h] = c]
  BY DEF Goto
<1>. QED  BY <1>2, <1>3, OneCall DEF TypeInv

LEMMA ChecksTyped ==
  ASSUME TypeInv, NEW h \in Handlers, NEW P,
         NEW stage \in {"read", "find", "count", "create", "write"},
         call[h].stage # "idle",
         Check(h, P, stage)
  PROVE  call' \in [Handlers -> Call] /\ CallsInv'
BY EndsTyped, GoesTyped DEF Check

LEMMA ReadTyped ==
  ASSUME TypeInv, NEW h \in Handlers, ReadStep(h)
  PROVE  TypeInv' /\ UNCHANGED reads
<1>u. UNCHANGED reads
  BY DEF ReadStep, ReadExistingUser, ReadInvitee, ReadPendingInvite, ReadInvite,
     ReadForRole, ReadForDeactivation, CountOwners, ReadLogin, ReadCredential,
     ReadKey, CountKeys, ReadVersion, ReadSettings
<1>1. call' \in [Handlers -> Call] /\ CallsInv'
  <2>1. CASE \/ ReadExistingUser(h) \/ ReadInvitee(h) \/ ReadPendingInvite(h)
             \/ ReadInvite(h) \/ ReadLogin(h) \/ ReadCredential(h)
             \/ CountOwners(h) \/ CountKeys(h) \/ ReadKey(h)
    BY <2>1, ChecksTyped DEF ReadExistingUser, ReadInvitee, ReadPendingInvite,
       ReadInvite, ReadLogin, ReadCredential, CountOwners, CountKeys, ReadKey, At
  <2>2. CASE ReadForRole(h)
    BY <2>2, ChecksTyped DEF ReadForRole, At
  <2>3. CASE ReadForDeactivation(h)
    BY <2>3, ChecksTyped DEF ReadForDeactivation, At
  <2>4. CASE ReadVersion(h)
    <3>. DEFINE c == [call[h] EXCEPT !.stage = "write", !.seen = version]
    <3>1. c \in Call /\ Shaped(c)
      BY <2>4, CallTypes DEF ReadVersion, At, Call, Shaped, TypeInv, TypeOK
    <3>2. call' = [call EXCEPT ![h] = c]
      BY <2>4 DEF ReadVersion
    <3>. QED  BY <3>1, <3>2, OneCall DEF TypeInv
  <2>5. CASE ReadSettings(h)
    BY <2>5, ChecksTyped, GoesTyped DEF ReadSettings
  <2>. QED  BY <2>1, <2>2, <2>3, <2>4, <2>5 DEF ReadStep
<1>. QED  BY <1>u, <1>1 DEF TypeInv, TypeOK, reads, tables, counters

LEMMA BeginTyped ==
  ASSUME TypeInv, NEW h \in Handlers, BeginStep(h)
  PROVE  /\ TypeInv'
         /\ UNCHANGED <<tables, acked, rotations, raced, lastSession, now>>
         /\ \E g \in Handlers : /\ call[g].stage = "idle"
                               /\ overtaken' = overtaken \ {g}
<1>1. PICK op \in Ops, actor \in Actors :
        \E target \in TargetsOf(op), arg \in ArgsOf(op) :
          Begin(h, op, actor, target, arg)
  BY DEF BeginStep
<1>2. PICK target \in TargetsOf(op), arg \in ArgsOf(op) :
        Begin(h, op, actor, target, arg)
  BY <1>1
<1>. DEFINE c == [op |-> op, stage |-> FirstStage(op), actor |-> actor,
                  target |-> target, arg |-> arg, seen |-> 0]
<1>3. target \in Targets
  <2>1. op = "logout" => target \in Nat
    BY DEF TargetsOf, TypeInv, TypeOK, DashboardSession, TeamOps
  <2>2. op # "logout" => target \in Targets
    BY DEF TargetsOf, Targets, Ops, TeamOps, SecretOps, AdminOps, PublicOps
  <2>. QED  BY <2>1, <2>2 DEF Targets
<1>4. arg \in Roles \union Values
  BY AccessAssumption DEF ArgsOf, Roles
<1>5. FirstStage(op) \in {"read", "write"}
  BY DEF FirstStage
<1>6. c \in Call
  BY <1>3, <1>4, <1>5 DEF Call
<1>7. Shaped(c)
  BY AccessAssumption DEF Shaped, TargetsOf, ArgsOf, TeamOps
<1>8. call' = [call EXCEPT ![h] = c]
  BY <1>2 DEF Begin
<1>9. call' \in [Handlers -> Call] /\ CallsInv'
  BY <1>6, <1>7, <1>8, OneCall DEF TypeInv
<1>. QED  BY <1>2, <1>9 DEF TypeInv, TypeOK, Begin, tables

LEMMA CreateTyped ==
  ASSUME TypeInv, NEW h \in Handlers, CreateSettings(h)
  PROVE  TypeInv'
<1>1. call' \in [Handlers -> Call] /\ CallsInv'
  BY ChecksTyped, EndsTyped DEF CreateSettings
<1>2. settings' \subseteq Settings
  BY AccessAssumption DEF CreateSettings, TypeInv, TypeOK, DefaultSettings, Settings
<1>. QED  BY <1>1, <1>2 DEF CreateSettings, TypeInv, TypeOK, counters

LEMMA InsertTyped ==
  ASSUME TypeOK, NEW u \in Users, NEW role \in Roles,
         NEW origin \in {"admin", "invite"}, InsertUser(u, role, origin)
  PROVE  users' \in [Users -> User]
<1>1. [status |-> "ACTIVE", role |-> role, origin |-> origin] \in User
  BY DEF User
<1>. QED  BY <1>1 DEF InsertUser, TypeOK

LEMMA SessionTyped ==
  ASSUME TypeOK, NEW u \in Users, NEW late \in BOOLEAN, NewSession(u, late)
  PROVE  sessions' \subseteq DashboardSession /\ lastSession' \in Nat
<1>1. lastSession' \in Nat
  BY DEF NewSession, TypeOK
<1>2. [id |-> lastSession', user |-> u, expiresAt |-> now + SessionTtl,
       late |-> late] \in DashboardSession
  BY <1>1, AccessAssumption DEF DashboardSession, TypeOK
<1>. QED  BY <1>1, <1>2 DEF NewSession, TypeOK

LEMMA UserTyped ==
  ASSUME TypeOK, NEW u \in Users
  PROVE  /\ users[u] \in User
         /\ \A r \in Roles : [users[u] EXCEPT !.role = r] \in User
         /\ [users[u] EXCEPT !.status = "DISABLED"] \in User
BY DEF TypeOK, User

LEMMA WriteTyped ==
  ASSUME TypeInv, NEW h \in Handlers, WriteStep(h)
  PROVE  TypeInv'
<1>1. call' \in [Handlers -> Call] /\ CallsInv'
  BY EndsTyped DEF WriteStep, WriteInvite, WriteUser, WriteAcceptance, WriteRole,
     WriteDeactivation, WriteLogin, Logout, Issue, RevokeCredential, RegisterKey,
     RevokeKey, Rotate, WriteSettings
<1>. DEFINE u == call[h].target
<1>c. TypeOK /\ Shaped(call[h]) /\ call[h].seen \in Nat
  BY CallTypes DEF TypeInv
<1>2. CASE WriteInvite(h)
  <2>1. u \in Users /\ call[h].arg \in Roles
    BY <1>2, <1>c DEF WriteInvite, At, Shaped
  <2>2. [email |-> u, role |-> call[h].arg, expiresAt |-> now + InviteTtl,
         status |-> "PENDING"] \in Invite
    BY <2>1, <1>c, AccessAssumption DEF Invite, TypeOK
  <2>. QED  BY <1>1, <1>2, <2>2 DEF WriteInvite, TypeInv, TypeOK, counters
<1>3. CASE WriteUser(h)
  <2>1. u \in Users /\ call[h].arg \in Roles
    BY <1>3, <1>c DEF WriteUser, At, Shaped
  <2>2. users' \in [Users -> User]
    BY <1>3, <1>c, <2>1, InsertTyped DEF WriteUser, TypeOK
  <2>. QED  BY <1>1, <1>3, <2>2 DEF WriteUser, TypeInv, TypeOK, counters
<1>4. CASE WriteAcceptance(h)
  <2>1. u \in Users
    BY <1>4, <1>c DEF WriteAcceptance, At, Shaped
  <2>2. CASE UNCHANGED <<users, sessions, invites, lastSession>>
    BY <1>1, <1>4, <2>2 DEF WriteAcceptance, TypeInv, TypeOK
  <2>3. ASSUME NEW i \in invites, InsertUser(u, i.role, "invite"),
               NewSession(u, FALSE),
               invites' = (invites \ {i}) \union {[i EXCEPT !.status = "ACCEPTED"]}
        PROVE  TypeInv'
    <3>1. i \in Invite /\ i.role \in Roles
      BY <1>c DEF TypeOK, Invite
    <3>2. [i EXCEPT !.status = "ACCEPTED"] \in Invite
      BY <3>1 DEF Invite
    <3>3. users' \in [Users -> User]
      BY <1>c, <2>1, <2>3, <3>1, InsertTyped
    <3>4. sessions' \subseteq DashboardSession /\ lastSession' \in Nat
      BY <1>c, <2>1, <2>3, SessionTyped
    <3>5. invites' \subseteq Invite
      BY <1>c, <2>3, <3>2 DEF TypeOK
    <3>. QED  BY <1>1, <1>4, <3>3, <3>4, <3>5 DEF WriteAcceptance, TypeInv, TypeOK
  <2>. QED  BY <1>4, <2>2, <2>3 DEF WriteAcceptance
<1>5. CASE WriteRole(h)
  <2>1. u \in Users /\ call[h].arg \in Roles
    BY <1>5, <1>c DEF WriteRole, At, Shaped, TeamOps
  <2>2. users' = [users EXCEPT ![u] = [users[u] EXCEPT !.role = call[h].arg]]
    BY <1>5 DEF WriteRole
  <2>3. users' \in [Users -> User]
    BY <1>c, <2>1, <2>2, UserTyped DEF TypeOK
  <2>4. raced' \subseteq {"manager", "owner", "key", "secret"}
    BY <1>5, <1>c DEF WriteRole, TypeOK
  <2>. QED  BY <1>1, <1>5, <2>3, <2>4 DEF WriteRole, TypeInv, TypeOK
<1>6. CASE WriteDeactivation(h)
  <2>1. u \in Users
    BY <1>6, <1>c DEF WriteDeactivation, At, Shaped, TeamOps
  <2>2. users' = [users EXCEPT ![u] = [users[u] EXCEPT !.status = "DISABLED"]]
    BY <1>6 DEF WriteDeactivation
  <2>3. users' \in [Users -> User]
    BY <1>c, <2>1, <2>2, UserTyped DEF TypeOK
  <2>4. raced' \subseteq {"manager", "owner", "key", "secret"}
    BY <1>6, <1>c DEF WriteDeactivation, OwnerLost, TypeOK
  <2>5. overtaken' \subseteq Handlers
    BY <1>6, <1>c DEF WriteDeactivation, LoginsOf, TypeOK
  <2>. QED  BY <1>1, <1>6, <2>3, <2>4, <2>5 DEF WriteDeactivation, TypeInv, TypeOK
<1>7. CASE WriteLogin(h)
  <2>1. u \in Users
    BY <1>7, <1>c DEF WriteLogin, At, Shaped
  <2>2. sessions' \subseteq DashboardSession /\ lastSession' \in Nat
    <3>. DEFINE late == h \in overtaken
    <3>1. late \in BOOLEAN
      OBVIOUS
    <3>2. NewSession(u, late)
      BY <1>7 DEF WriteLogin
    <3>. HIDE DEF late
    <3>. QED  BY <1>c, <2>1, <3>1, <3>2, SessionTyped
  <2>. QED  BY <1>1, <1>7, <2>2 DEF WriteLogin, TypeInv, TypeOK
<1>8. CASE Logout(h)
  BY <1>1, <1>8 DEF Logout, TypeInv, TypeOK, counters
<1>9. CASE Issue(h) \/ RevokeCredential(h)
  BY <1>1, <1>9 DEF Issue, RevokeCredential, TypeInv, TypeOK, counters
<1>10. CASE RegisterKey(h)
  BY <1>1, <1>10 DEF RegisterKey, TypeInv, TypeOK, counters
<1>11. CASE RevokeKey(h)
  BY <1>1, <1>11 DEF RevokeKey, TypeInv, TypeOK
<1>12. CASE Rotate(h)
  BY <1>1, <1>c, <1>12 DEF Rotate, TypeInv, TypeOK
<1>13. CASE WriteSettings(h)
  <2>1. call[h].arg \in Values
    BY <1>13, <1>c DEF WriteSettings, At, Shaped
  <2>2. \A row \in Settings : [row EXCEPT ![u] = call[h].arg] \in Settings
    BY <2>1 DEF Settings
  <2>3. settings' \subseteq Settings /\ acked' \in Settings
    BY <1>13, <1>c, <2>2 DEF WriteSettings, TypeOK
  <2>. QED  BY <1>1, <1>13, <2>3 DEF WriteSettings, TypeInv, TypeOK
<1>. QED  BY <1>2, <1>3, <1>4, <1>5, <1>6, <1>7, <1>8, <1>9, <1>10, <1>11, <1>12,
             <1>13 DEF WriteStep

LEMMA TypeInductive == TypeInv /\ [Next]_vars => TypeInv'
<1> SUFFICES ASSUME TypeInv, Next  PROVE TypeInv'
  BY DEF TypeInv, TypeOK, CallsInv, vars
<1>1. CASE Tick
  BY <1>1 DEF Tick, TypeInv, TypeOK, CallsInv, tables
<1>2. ASSUME NEW h \in Handlers, Fail(h)  PROVE TypeInv'
  BY <1>2, EndsTyped DEF Fail, TypeInv, TypeOK, reads, tables, counters
<1>. QED  BY <1>1, <1>2, StepCases, BeginTyped, ReadTyped, CreateTyped, WriteTyped

LEMMA TypeInitially == Init => TypeInv
<1> SUFFICES ASSUME Init  PROVE TypeInv
  OBVIOUS
<1>1. CallsInv
  BY IdleType DEF Init, CallsInv
<1>2. users \in [Users -> User]
  BY DEF Init, User, Roles
<1>3. acked \in Settings
  BY AccessAssumption DEF Init, Settings
<1>4. call \in [Handlers -> Call]
  BY IdleType DEF Init
<1>. QED  BY <1>1, <1>2, <1>3, <1>4 DEF Init, TypeInv, TypeOK

LEMMA Typed == Spec => []TypeInv
BY TypeInitially, TypeInductive, PTL DEF Spec

(* The tables, the calls and the histories keep their types.               *)
THEOREM TypeCorrect == Spec => []TypeOK
<1>1. TypeInv => TypeOK
  BY DEF TypeInv
<1>. QED  BY <1>1, Typed, PTL

-----------------------------------------------------------------------------
(* What a step does to the calls.                                          *)

LEMMA AfterEnd ==
  ASSUME TypeInv, NEW h \in Handlers, End(h)
  PROVE  \A g \in Handlers : call'[g] = IF g = h THEN Idle ELSE call[g]
BY DEF End, TypeInv, TypeOK

LEMMA AfterGoto ==
  ASSUME TypeInv, NEW h \in Handlers, NEW stage, Goto(h, stage)
  PROVE  \A g \in Handlers :
           call'[g] = IF g = h THEN [call[h] EXCEPT !.stage = stage] ELSE call[g]
BY DEF Goto, TypeInv, TypeOK

LEMMA AfterCheck ==
  ASSUME TypeInv, NEW h \in Handlers, NEW P, NEW stage, Check(h, P, stage)
  PROVE  /\ \A g \in Handlers \ {h} : call'[g] = call[g]
         /\ \/ call'[h] = Idle
            \/ P /\ call'[h] = [call[h] EXCEPT !.stage = stage]
BY AfterEnd, AfterGoto DEF Check

Onward(h) ==
  /\ \A g \in Handlers \ {h} : call'[g] = call[g]
  /\ call[h].stage # "idle"
  /\ \/ call'[h] = Idle
     \/ /\ call'[h].op = call[h].op
        /\ call'[h].actor = call[h].actor
        /\ call'[h].target = call[h].target

LEMMA OnwardGoto ==
  ASSUME TypeInv, NEW h \in Handlers, NEW stage, Goto(h, stage),
         call[h].stage # "idle"
  PROVE  Onward(h)
<1>1. call[h] \in Call
  BY CallTypes
<1>2. call'[h] = [call[h] EXCEPT !.stage = stage]
  BY AfterGoto
<1>3. /\ call'[h].op = call[h].op
      /\ call'[h].actor = call[h].actor
      /\ call'[h].target = call[h].target
  BY <1>1, <1>2 DEF Call
<1>. QED  BY <1>3, AfterGoto DEF Onward

LEMMA OnwardCheck ==
  ASSUME TypeInv, NEW h \in Handlers, NEW P, NEW stage, Check(h, P, stage),
         call[h].stage # "idle"
  PROVE  Onward(h)
BY AfterEnd, OnwardGoto DEF Check, Onward

(* A read leaves the other calls alone; its own ends or goes on to another *)
(* stage, with the same caller and target.                                 *)
LEMMA AfterRead ==
  ASSUME TypeInv, NEW h \in Handlers, ReadStep(h) \/ CreateSettings(h)
  PROVE  Onward(h)
<1>1. CASE \/ ReadExistingUser(h) \/ ReadInvitee(h) \/ ReadPendingInvite(h)
           \/ ReadInvite(h) \/ ReadLogin(h) \/ ReadCredential(h)
           \/ CountOwners(h) \/ CountKeys(h) \/ ReadKey(h)
  BY <1>1, OnwardCheck DEF ReadExistingUser, ReadInvitee, ReadPendingInvite,
     ReadInvite, ReadLogin, ReadCredential, CountOwners, CountKeys, ReadKey, At
<1>2. CASE ReadForRole(h)
  BY <1>2, OnwardCheck DEF ReadForRole, At
<1>3. CASE ReadForDeactivation(h)
  BY <1>3, OnwardCheck DEF ReadForDeactivation, At
<1>4. CASE ReadVersion(h)
  <2>1. call[h] \in Call /\ call[h].stage # "idle"
    BY <1>4, CallTypes DEF ReadVersion, At
  <2>2. call'[h] = [call[h] EXCEPT !.stage = "write", !.seen = version]
    BY <1>4 DEF ReadVersion, TypeInv, TypeOK
  <2>3. /\ call'[h].op = call[h].op
        /\ call'[h].actor = call[h].actor
        /\ call'[h].target = call[h].target
    BY <2>1, <2>2 DEF Call
  <2>. QED  BY <1>4, <2>1, <2>3 DEF ReadVersion, Onward, TypeInv, TypeOK
<1>5. CASE ReadSettings(h)
  BY <1>5, OnwardCheck, OnwardGoto DEF ReadSettings
<1>6. CASE CreateSettings(h)
  BY <1>6, OnwardCheck, AfterEnd DEF CreateSettings, Onward
<1>. QED  BY <1>1, <1>2, <1>3, <1>4, <1>5, <1>6 DEF ReadStep

(* A write ends its call.                                                  *)
LEMMA AfterWrite ==
  ASSUME TypeInv, NEW h \in Handlers, WriteStep(h) \/ Fail(h)
  PROVE  /\ \A g \in Handlers \ {h} : call'[g] = call[g]
         /\ call'[h] = Idle
         /\ call[h].stage # "idle"
BY AfterEnd DEF WriteStep, Fail, WriteInvite, WriteUser, WriteAcceptance, WriteRole,
   WriteDeactivation, WriteLogin, Logout, Issue, RevokeCredential, RegisterKey,
   RevokeKey, Rotate, WriteSettings, At

LEMMA AfterBegin ==
  ASSUME TypeInv, NEW h \in Handlers, BeginStep(h)
  PROVE  /\ \A g \in Handlers \ {h} : call'[g] = call[g]
         /\ call'[h].stage = FirstStage(call'[h].op)
         /\ Admitted(call'[h].actor, call'[h].op)
         /\ call'[h].actor \in Actors
<1>1. PICK op \in Ops, actor \in Actors :
        \E target \in TargetsOf(op), arg \in ArgsOf(op) :
          Begin(h, op, actor, target, arg)
  BY DEF BeginStep
<1>2. PICK target \in TargetsOf(op), arg \in ArgsOf(op) :
        Begin(h, op, actor, target, arg)
  BY <1>1
<1>3. call' = [call EXCEPT ![h] =
        [op |-> op, stage |-> FirstStage(op), actor |-> actor,
         target |-> target, arg |-> arg, seen |-> 0]]
  BY <1>2 DEF Begin
<1>4. call'[h] = [op |-> op, stage |-> FirstStage(op), actor |-> actor,
                  target |-> target, arg |-> arg, seen |-> 0]
  BY <1>3 DEF TypeInv, TypeOK
<1>5. \A g \in Handlers \ {h} : call'[g] = call[g]
  BY <1>3 DEF TypeInv, TypeOK
<1>. QED  BY <1>2, <1>4, <1>5 DEF Begin

(* The steps that write users, and those that leave them alone.            *)
LEMMA UsersAfter ==
  ASSUME TypeInv, Next
  PROVE  \/ UNCHANGED <<users, raced>>
         \/ UNCHANGED users /\ raced \subseteq raced'
         \/ \E h \in Handlers : WriteUser(h) \/ WriteAcceptance(h)
         \/ \E h \in Handlers : WriteRole(h)
         \/ \E h \in Handlers : WriteDeactivation(h)
<1>1. ASSUME NEW h \in Handlers, BeginStep(h)  PROVE UNCHANGED <<users, raced>>
  BY <1>1, BeginTyped DEF tables
<1>2. ASSUME NEW h \in Handlers, ReadStep(h)  PROVE UNCHANGED <<users, raced>>
  BY <1>2, ReadTyped DEF reads, tables, counters
<1>3. ASSUME NEW h \in Handlers, WriteStep(h)
      PROVE  \/ UNCHANGED users /\ raced \subseteq raced'
             \/ WriteUser(h) \/ WriteAcceptance(h) \/ WriteRole(h)
             \/ WriteDeactivation(h)
  BY <1>3 DEF WriteStep, WriteInvite, WriteLogin, Logout, Issue, RevokeCredential,
     RegisterKey, RevokeKey, Rotate, WriteSettings, counters
<1>4. ASSUME NEW h \in Handlers, Fail(h) \/ CreateSettings(h)
      PROVE  UNCHANGED <<users, raced>>
  BY <1>4 DEF Fail, CreateSettings, reads, tables, counters
<1>5. Tick => UNCHANGED <<users, raced>>
  BY DEF Tick, tables
<1>. QED  BY <1>1, <1>2, <1>3, <1>4, <1>5, StepCases

(* A call comes to write by a read of its own.                             *)
LEMMA Reached ==
  ASSUME TypeInv, Next, NEW h \in Handlers,
         call'[h] # call[h],
         call'[h].stage = "write",
         call'[h].op \notin {"issue", "logout"}
  PROVE  /\ ReadStep(h) \/ CreateSettings(h)
         /\ UNCHANGED <<users, invites, sessions, credentials, keys, version>>
         /\ UNCHANGED counters
         /\ Onward(h)
<1>1. ~ Tick
  BY DEF Tick
<1>2. ~ \E g \in Handlers : BeginStep(g)
  BY AfterBegin DEF FirstStage
<1>3. ~ \E g \in Handlers : Fail(g) \/ WriteStep(g)
  BY AfterWrite DEF Idle
<1>4. PICK g \in Handlers : ReadStep(g) \/ CreateSettings(g)
  BY <1>1, <1>2, <1>3, StepCases
<1>5. g = h
  BY <1>4, AfterRead DEF Onward
<1>6. UNCHANGED <<users, invites, sessions, credentials, keys, version>>
      /\ UNCHANGED counters
  BY <1>4, ReadTyped DEF reads, tables, CreateSettings
<1>. QED  BY <1>4, <1>5, <1>6, AfterRead

LEMMA AnotherOne ==
  ASSUME NEW S, NEW u, IsFiniteSet(S), Cardinality(S) > 1
  PROVE  \E o \in S : o # u
<1> SUFFICES ASSUME S \subseteq {u}  PROVE FALSE
  OBVIOUS
<1>1. IsFiniteSet({u}) /\ Cardinality({u}) = 1
  BY FS_Singleton
<1>2. Cardinality(S) <= Cardinality({u})
  BY <1>1, FS_Subset
<1>. QED  BY <1>1, <1>2, FS_CardinalityType

-----------------------------------------------------------------------------
(* Owners.  Unless raced, whoever is about to deactivate has seen another. *)

OwnerInv ==
  "owner" \notin raced =>
    /\ Owners # {}
    /\ \A h \in Handlers : At(h, "deactivate", "write") =>
         \E o \in Owners : o # call[h].target

LEMMA OwnerInitially == Init => OwnerInv
BY AccessAssumption DEF Init, OwnerInv, Owners, Active, At, Idle

(* A call that comes to deactivate while the owners stay the same.         *)
LEMMA OwnerReads ==
  ASSUME TypeInv, OwnerInv, Next, "owner" \notin raced, NEW h \in Handlers,
         At(h, "deactivate", "write")'
  PROVE  \E o \in Owners : o # call'[h].target
<1>1. CASE call'[h] = call[h]
  BY <1>1 DEF OwnerInv, At
<1>2. CASE call'[h] # call[h]
  <2>1. ReadStep(h) \/ CreateSettings(h)
    BY <1>2, Reached DEF At
  <2>2. /\ call[h].op = "deactivate" /\ call'[h].target = call[h].target
        /\ call'[h] # Idle
    BY <1>2, Reached DEF At, Onward, Idle
  <2>3. ReadForDeactivation(h) \/ CountOwners(h)
    BY <2>1, <2>2 DEF ReadStep, CreateSettings, ReadExistingUser, ReadInvitee,
       ReadPendingInvite, ReadInvite, ReadForRole, ReadLogin, ReadCredential,
       ReadKey, CountKeys, ReadVersion, ReadSettings, At, SettingsOps
  <2>4. CASE CountOwners(h)
    <3>1. Cardinality(Owners) > 1
      BY <1>2, <2>2, <2>4, AfterEnd DEF CountOwners, Check
    <3>2. IsFiniteSet(Owners)
      BY AccessAssumption, FS_Subset DEF Owners
    <3>. QED  BY <3>1, <3>2, AnotherOne
  <2>5. CASE ReadForDeactivation(h)
    <3>. DEFINE u == call[h].target
                stage == IF users[u].role = "OWNER" THEN "count" ELSE "write"
    <3>1. Check(h, call[h].actor # u /\ Active(u), stage)
      BY <2>5 DEF ReadForDeactivation
    <3>2. call'[h] = [call[h] EXCEPT !.stage = stage]
      BY <2>2, <3>1, AfterCheck
    <3>3. stage = "write"
      BY <3>2, CallTypes DEF At, Call
    <3>4. u \notin Owners
      BY <3>3 DEF Owners
    <3>. QED  BY <2>2, <3>4 DEF OwnerInv
  <2>. QED  BY <2>3, <2>4, <2>5
<1>. QED  BY <1>1, <1>2

LEMMA OwnerInductive == TypeInv /\ OwnerInv /\ [Next]_vars => OwnerInv'
<1>1. ASSUME TypeInv, OwnerInv, Next, "owner" \notin raced'
      PROVE  OwnerInv'
  <2>r. "owner" \notin raced
    BY <1>1, UsersAfter DEF WriteUser, WriteAcceptance, WriteRole, WriteDeactivation,
       counters
  <2>1. ASSUME Owners \subseteq Owners'  PROVE OwnerInv'
    BY <1>1, <2>1, <2>r, OwnerReads DEF OwnerInv
  <2>2. CASE UNCHANGED users
    BY <2>1, <2>2 DEF Owners, Active
  <2>3. ASSUME NEW h \in Handlers, WriteUser(h) \/ WriteAcceptance(h)
        PROVE  OwnerInv'
    <3>1. \A u \in Users : Active(u) => users'[u] = users[u]
      BY <1>1, <2>3 DEF WriteUser, WriteAcceptance, InsertUser, Active, Existing,
         TypeInv, TypeOK
    <3>. QED  BY <2>1, <3>1 DEF Owners, Active
  <2>4. ASSUME NEW h \in Handlers, WriteRole(h)  PROVE OwnerInv'
    <3>1. call[h].target \notin Owners
      BY <1>1, <2>4 DEF WriteRole, Owners
    <3>2. \A u \in Users \ {call[h].target} : users'[u] = users[u]
      BY <1>1, <2>4 DEF WriteRole, TypeInv, TypeOK
    <3>. QED  BY <2>1, <3>1, <3>2 DEF Owners, Active
  <2>5. ASSUME NEW h \in Handlers, WriteDeactivation(h)  PROVE OwnerInv'
    <3>. DEFINE u == call[h].target
    <3>1. \A v \in Users \ {u} : users'[v] = users[v]
      BY <1>1, <2>5 DEF WriteDeactivation, TypeInv, TypeOK
    <3>2. Owners \ {u} \subseteq Owners'
      BY <3>1 DEF Owners, Active
    <3>3. \E o \in Owners : o # u
      BY <1>1, <2>5, <2>r DEF OwnerInv, WriteDeactivation
    <3>4. CASE u \notin Owners
      BY <2>1, <3>2, <3>4
    <3>5. CASE u \in Owners
      <4>1. ~ Deciding(h, {"deactivate"})
        BY <1>1, <2>5, <3>5 DEF WriteDeactivation, OwnerLost, Owners
      <4>2. \A g \in Handlers \ {h} : call'[g] = call[g]
        BY <1>1, <2>5, AfterWrite DEF WriteStep
      <4>3. call'[h] = Idle
        BY <1>1, <2>5, AfterWrite DEF WriteStep
      <4>4. \A g \in Handlers : ~ At(g, "deactivate", "write")'
        BY <4>1, <4>2, <4>3 DEF Deciding, At, Idle
      <4>. QED  BY <3>2, <3>3, <4>4 DEF OwnerInv
    <3>. QED  BY <3>4, <3>5
  <2>. QED  BY <1>1, <2>2, <2>3, <2>4, <2>5, UsersAfter
<1>2. ASSUME OwnerInv, UNCHANGED vars  PROVE OwnerInv'
  BY <1>2 DEF OwnerInv, vars, Owners, Active, At
<1>. QED  BY <1>1, <1>2 DEF OwnerInv

(* Deactivations leave an owner, unless one that had passed its check was  *)
(* overtaken by another (deactivatePartnerUser), or an owner was given     *)
(* another role (updatePartnerUser).                                       *)
THEOREM OwnerAlwaysRemains == Spec => []OwnerRemains
<1>1. OwnerInv => OwnerRemains
  BY DEF OwnerInv, OwnerRemains
<1>2. Spec => []OwnerInv
  BY OwnerInitially, OwnerInductive, Typed, PTL DEF Spec
<1>. QED  BY <1>1, <1>2, PTL

-----------------------------------------------------------------------------
(* Managers.  Unless raced, whoever takes a user's standing keeps theirs.  *)

Manager(u) == Active(u) /\ users[u].role \in Managers

TeamCall(h) == call[h].stage # "idle" /\ call[h].op \in TeamOps

\* updatePartnerUser and deactivatePartnerUser check, before they go on, that
\* the caller is somebody else.
OtherInv == \A h \in Handlers :
  TeamCall(h) =>
    /\ call[h].actor \in Users
    /\ call[h].stage # "read" => call[h].actor # call[h].target

ManagerInv ==
  "manager" \notin raced =>
    /\ \E u \in Users : Manager(u)
    /\ \A h \in Handlers : TeamCall(h) => Manager(call[h].actor)

LEMMA ManagerInitially == Init => OtherInv /\ ManagerInv
BY AccessAssumption DEF Init, OtherInv, ManagerInv, Manager, Managers, Active,
   TeamCall, TeamOps, Idle

LEMMA TeamOpIsChecked ==
  ASSUME TypeInv, NEW h \in Handlers, ReadStep(h) \/ CreateSettings(h),
         call[h].op \in TeamOps, call'[h] # Idle,
         call[h].stage # "read" => call[h].actor # call[h].target
  PROVE  call[h].actor # call[h].target
<1>1. ReadForRole(h) \/ ReadForDeactivation(h) \/ CountOwners(h)
  BY DEF ReadStep, CreateSettings, ReadExistingUser, ReadInvitee, TeamOps,
     ReadPendingInvite, ReadInvite, ReadLogin, ReadCredential,
     ReadKey, CountKeys, ReadVersion, ReadSettings, At, SettingsOps
<1>2. CASE ReadForRole(h)
  BY <1>2, AfterEnd DEF ReadForRole, Check
<1>3. CASE ReadForDeactivation(h)
  BY <1>3, AfterEnd DEF ReadForDeactivation, Check
<1>4. CASE CountOwners(h)
  BY <1>4 DEF CountOwners, At
<1>. QED  BY <1>1, <1>2, <1>3, <1>4

LEMMA AdmittedToTeam ==
  ASSUME NEW actor \in Actors, NEW op \in TeamOps, Admitted(actor, op)
  PROVE  actor \in Users /\ Manager(actor)
BY DEF Admitted, TeamOps, PublicOps, AdminOps, SecretOps, LoggedIn, RolesOf, Manager

LEMMA OtherInductive == TypeInv /\ OtherInv /\ [Next]_vars => OtherInv'
<1>1. ASSUME TypeInv, OtherInv, Next, NEW h \in Handlers, TeamCall(h)'
      PROVE  /\ call'[h].actor \in Users
             /\ call'[h].stage # "read" => call'[h].actor # call'[h].target
  <2>1. CASE call'[h] = call[h]
    BY <1>1, <2>1 DEF OtherInv, TeamCall
  <2>2. CASE call'[h] # call[h]
    <3>1. ASSUME NEW g \in Handlers, BeginStep(g)  PROVE g = h /\ BeginStep(h)
      BY <1>1, <2>2, <3>1, AfterBegin
    <3>2. CASE BeginStep(h)
      BY <1>1, <3>2, AfterBegin, AdmittedToTeam DEF TeamCall, FirstStage, TeamOps
    <3>3. ASSUME NEW g \in Handlers, ReadStep(g) \/ CreateSettings(g)
          PROVE  g = h
      BY <1>1, <2>2, <3>3, AfterRead DEF Onward
    <3>4. CASE ReadStep(h) \/ CreateSettings(h)
      <4>1. call'[h] # Idle
        BY <1>1 DEF TeamCall, Idle
      <4>2. Onward(h)
        BY <1>1, <3>4, AfterRead
      <4>3. TeamCall(h)
        BY <1>1, <4>1, <4>2 DEF Onward, TeamCall
      <4>4. call[h].actor # call[h].target
        BY <1>1, <3>4, <4>1, <4>3, TeamOpIsChecked DEF OtherInv, TeamCall
      <4>. QED  BY <1>1, <4>1, <4>2, <4>3, <4>4 DEF OtherInv, Onward
    <3>5. ~ \E g \in Handlers : Fail(g) \/ WriteStep(g)
      BY <1>1, <2>2, AfterWrite DEF TeamCall, Idle
    <3>6. ~ Tick
      BY <2>2 DEF Tick
    <3>. QED  BY <1>1, <3>1, <3>2, <3>3, <3>4, <3>5, <3>6, StepCases
  <2>. QED  BY <2>1, <2>2
<1>2. ASSUME OtherInv, UNCHANGED vars  PROVE OtherInv'
  BY <1>2 DEF OtherInv, TeamCall, vars
<1>. QED  BY <1>1, <1>2 DEF OtherInv

(* The caller of a call that goes on is the caller it had.                 *)
LEMMA SameCaller ==
  ASSUME TypeInv, Next, NEW h \in Handlers, TeamCall(h)'
  PROVE  \/ BeginStep(h)
         \/ TeamCall(h) /\ call'[h].actor = call[h].actor
<1>1. CASE call'[h] = call[h]
  BY <1>1 DEF TeamCall
<1>2. CASE call'[h] # call[h]
  <2>1. ASSUME NEW g \in Handlers, BeginStep(g)  PROVE BeginStep(h)
    BY <1>2, <2>1, AfterBegin
  <2>2. ASSUME NEW g \in Handlers, ReadStep(g) \/ CreateSettings(g)
        PROVE  TeamCall(h) /\ call'[h].actor = call[h].actor
    BY <1>2, <2>2, AfterRead DEF Onward, TeamCall, Idle
  <2>3. ~ \E g \in Handlers : Fail(g) \/ WriteStep(g)
    BY <1>2, AfterWrite DEF TeamCall, Idle
  <2>4. ~ Tick
    BY <1>2 DEF Tick
  <2>. QED  BY <2>1, <2>2, <2>3, <2>4, StepCases
<1>. QED  BY <1>1, <1>2

(* A call that takes u's standing, and is not crossed, disturbs no caller. *)
LEMMA StandingTaken ==
  ASSUME TypeInv, OtherInv, ManagerInv, Next, NEW h \in Handlers,
         WriteRole(h) \/ WriteDeactivation(h), "manager" \notin raced'
  PROVE  ManagerInv'
<1>. DEFINE u == call[h].target
<1>1. "manager" \notin raced /\ ~ Crossed(h, u)
  BY DEF WriteRole, WriteDeactivation
<1>2. \A v \in Users \ {u} : users'[v] = users[v]
  BY DEF WriteRole, WriteDeactivation, TypeInv, TypeOK
<1>3. TeamCall(h) /\ call[h].stage # "read"
  BY DEF WriteRole, WriteDeactivation, At, TeamCall, TeamOps
<1>4. call[h].actor \in Users /\ call[h].actor # u /\ Manager(call[h].actor)
  BY <1>1, <1>3 DEF OtherInv, ManagerInv
<1>5. \E v \in Users : Manager(v)'
  BY <1>2, <1>4 DEF Manager, Active
<1>6. WriteStep(h) /\ call'[h] = Idle /\ \A g \in Handlers \ {h} : call'[g] = call[g]
  BY AfterWrite DEF WriteStep
<1>7. ASSUME NEW g \in Handlers, TeamCall(g)'  PROVE Manager(call[g].actor)'
  <2>1. g # h /\ TeamCall(g) /\ call'[g] = call[g]
    BY <1>6, <1>7 DEF TeamCall, Idle
  <2>2. call[g].actor \in Users /\ call[g].actor # u /\ Manager(call[g].actor)
    BY <1>1, <2>1 DEF OtherInv, ManagerInv, Crossed, TeamCall
  <2>. QED  BY <1>2, <2>1, <2>2 DEF Manager, Active
<1>. QED  BY <1>5, <1>7 DEF ManagerInv

LEMMA ManagerInductive ==
  TypeInv /\ OtherInv /\ ManagerInv /\ [Next]_vars => ManagerInv'
<1>1. ASSUME TypeInv, OtherInv, ManagerInv, Next, "manager" \notin raced'
      PROVE  ManagerInv'
  <2>r. "manager" \notin raced
    BY <1>1, UsersAfter DEF WriteUser, WriteAcceptance, WriteRole, WriteDeactivation,
       counters
  <2>1. ASSUME \A u \in Users : Manager(u) => Manager(u)'  PROVE ManagerInv'
    <3>1. ASSUME NEW h \in Handlers, TeamCall(h)'  PROVE Manager(call[h].actor)'
      <4>1. CASE BeginStep(h)
        <5>1. /\ Admitted(call'[h].actor, call'[h].op) /\ call'[h].actor \in Actors
              /\ call'[h].op \in TeamOps
          BY <1>1, <3>1, <4>1, AfterBegin DEF TeamCall
        <5>2. call'[h].actor \in Users /\ Manager(call'[h].actor)
          BY <5>1, AdmittedToTeam
        <5>. QED  BY <2>1, <5>2 DEF Manager, Active
      <4>2. CASE TeamCall(h) /\ call'[h].actor = call[h].actor
        BY <1>1, <2>1, <2>r, <4>2 DEF ManagerInv, OtherInv, Manager, Active
      <4>. QED  BY <1>1, <3>1, <4>1, <4>2, SameCaller
    <3>. QED  BY <1>1, <2>1, <2>r, <3>1 DEF ManagerInv
  <2>2. CASE UNCHANGED users
    BY <2>1, <2>2 DEF Manager, Active
  <2>3. ASSUME NEW h \in Handlers, WriteUser(h) \/ WriteAcceptance(h)
        PROVE  ManagerInv'
    <3>1. \A u \in Users : Active(u) => users'[u] = users[u]
      BY <1>1, <2>3 DEF WriteUser, WriteAcceptance, InsertUser, Active, Existing,
         TypeInv, TypeOK
    <3>. QED  BY <2>1, <3>1 DEF Manager, Active
  <2>. QED  BY <1>1, <2>2, <2>3, StandingTaken, UsersAfter
<1>2. ASSUME ManagerInv, UNCHANGED vars  PROVE ManagerInv'
  BY <1>2 DEF ManagerInv, vars, Manager, Active, TeamCall
<1>. QED  BY <1>1, <1>2 DEF ManagerInv

(* A partner keeps a user who can manage its users, unless two calls that  *)
(* take a user's standing crossed: each is made by another manager.        *)
THEOREM ManagerAlwaysRemains == Spec => []ManagerRemains
<1>1. ManagerInv => ManagerRemains
  BY DEF ManagerInv, ManagerRemains, Manager
<1>2. Spec => []ManagerInv
  BY ManagerInitially, OtherInductive, ManagerInductive, Typed, PTL DEF Spec
<1>. QED  BY <1>1, <1>2, PTL

-----------------------------------------------------------------------------
(* Signing keys: as for owners.                                            *)

LEMMA RacedGrows ==
  ASSUME TypeInv, Next  PROVE raced \subseteq raced'
BY UsersAfter DEF WriteUser, WriteAcceptance, WriteRole, WriteDeactivation, counters

LEMMA SecretsAfter ==
  ASSUME TypeInv, Next
  PROVE  /\ \/ UNCHANGED keys
            \/ \E h \in Handlers : RegisterKey(h) \/ RevokeKey(h)
         /\ \/ UNCHANGED <<version, rotations>>
            \/ \E h \in Handlers : Rotate(h)
<1>1. ASSUME NEW h \in Handlers, BeginStep(h)
      PROVE  UNCHANGED <<keys, version, rotations>>
  BY <1>1, BeginTyped DEF tables
<1>2. ASSUME NEW h \in Handlers, ReadStep(h)
      PROVE  UNCHANGED <<keys, version, rotations>>
  BY <1>2, ReadTyped DEF reads, tables, counters
<1>3. ASSUME NEW h \in Handlers, WriteStep(h)
      PROVE  /\ UNCHANGED keys \/ RegisterKey(h) \/ RevokeKey(h)
             /\ UNCHANGED <<version, rotations>> \/ Rotate(h)
  BY <1>3 DEF WriteStep, WriteInvite, WriteLogin, Logout, Issue, RevokeCredential,
     WriteUser, WriteAcceptance, WriteRole, WriteDeactivation, RegisterKey,
     RevokeKey, Rotate, WriteSettings, counters
<1>4. ASSUME NEW h \in Handlers, Fail(h) \/ CreateSettings(h)
      PROVE  UNCHANGED <<keys, version, rotations>>
  BY <1>4 DEF Fail, CreateSettings, reads, tables, counters
<1>5. Tick => UNCHANGED <<keys, version, rotations>>
  BY DEF Tick, tables
<1>. QED  BY <1>1, <1>2, <1>3, <1>4, <1>5, StepCases

KeyInv ==
  "key" \notin raced =>
    /\ (\E k \in Keys : keys[k] # "ABSENT") => ActiveKeys # {}
    /\ \A h \in Handlers : At(h, "revokeKey", "write") =>
         \E k \in ActiveKeys : k # call[h].target

LEMMA KeyInitially == Init => KeyInv
BY DEF Init, KeyInv, At, Idle

LEMMA KeyReads ==
  ASSUME TypeInv, KeyInv, Next, "key" \notin raced, NEW h \in Handlers,
         At(h, "revokeKey", "write")'
  PROVE  \E k \in ActiveKeys : k # call'[h].target
<1>1. CASE call'[h] = call[h]
  BY <1>1 DEF KeyInv, At
<1>2. CASE call'[h] # call[h]
  <2>1. ReadStep(h) \/ CreateSettings(h)
    BY <1>2, Reached DEF At
  <2>2. /\ call[h].op = "revokeKey" /\ call'[h].target = call[h].target
        /\ call'[h] # Idle
    BY <1>2, Reached DEF At, Onward, Idle
  <2>3. CASE CountKeys(h)
    <3>1. Cardinality(ActiveKeys) > 1
      BY <2>2, <2>3, AfterEnd DEF CountKeys, Check
    <3>2. IsFiniteSet(ActiveKeys)
      BY AccessAssumption, FS_Subset DEF ActiveKeys
    <3>. QED  BY <3>1, <3>2, AnotherOne
  <2>4. ReadKey(h) \/ CountKeys(h)
    BY <2>1, <2>2 DEF ReadStep, CreateSettings, ReadExistingUser, ReadInvitee,
       ReadPendingInvite, ReadInvite, ReadForRole, ReadForDeactivation, CountOwners,
       ReadLogin, ReadCredential, ReadVersion, ReadSettings, At, SettingsOps
  <2>5. CASE ReadKey(h)
    <3>1. Check(h, keys[call[h].target] = "ACTIVE", "count")
      BY <2>2, <2>5 DEF ReadKey, At
    <3>2. call'[h] = [call[h] EXCEPT !.stage = "count"]
      BY <2>2, <3>1, AfterCheck
    <3>. QED  BY <3>2, CallTypes DEF At, Call
  <2>. QED  BY <2>3, <2>4, <2>5
<1>. QED  BY <1>1, <1>2

LEMMA KeyInductive == TypeInv /\ KeyInv /\ [Next]_vars => KeyInv'
<1>1. ASSUME TypeInv, KeyInv, Next, "key" \notin raced'
      PROVE  KeyInv'
  <2>r. "key" \notin raced
    BY <1>1, RacedGrows
  <2>1. CASE UNCHANGED keys
    BY <1>1, <2>1, <2>r, KeyReads DEF KeyInv, ActiveKeys
  <2>2. ASSUME NEW h \in Handlers, RegisterKey(h)  PROVE KeyInv'
    <3>1. ActiveKeys \subseteq ActiveKeys'
      BY <1>1, <2>2 DEF RegisterKey, ActiveKeys, TypeInv, TypeOK
    <3>2. \A k \in Keys : keys'[k] = keys[k] \/ k \in ActiveKeys'
      BY <1>1, <2>2 DEF RegisterKey, ActiveKeys, TypeInv, TypeOK
    <3>3. (\E k \in Keys : keys'[k] # "ABSENT") => ActiveKeys' # {}
      BY <1>1, <2>r, <3>1, <3>2 DEF KeyInv
    <3>4. ASSUME NEW g \in Handlers, At(g, "revokeKey", "write")'
          PROVE  \E k \in ActiveKeys' : k # call'[g].target
      BY <1>1, <2>r, <3>1, <3>4, KeyReads
    <3>. QED  BY <3>3, <3>4 DEF KeyInv
  <2>3. ASSUME NEW h \in Handlers, RevokeKey(h)  PROVE KeyInv'
    <3>1. PICK k \in ActiveKeys : k # call[h].target
      BY <1>1, <2>3, <2>r DEF KeyInv, RevokeKey
    <3>2. k \in ActiveKeys'
      BY <1>1, <2>3, <3>1 DEF RevokeKey, ActiveKeys, TypeInv, TypeOK
    <3>3. ~ Deciding(h, {"revokeKey"})
      BY <1>1, <2>3 DEF RevokeKey
    <3>4. call'[h] = Idle /\ \A g \in Handlers \ {h} : call'[g] = call[g]
      BY <1>1, <2>3, AfterWrite DEF WriteStep
    <3>5. \A g \in Handlers : ~ At(g, "revokeKey", "write")'
      BY <3>3, <3>4 DEF Deciding, At, Idle
    <3>. QED  BY <3>2, <3>5 DEF KeyInv
  <2>. QED  BY <1>1, <2>1, <2>2, <2>3, SecretsAfter
<1>2. ASSUME KeyInv, UNCHANGED vars  PROVE KeyInv'
  BY <1>2 DEF KeyInv, vars, ActiveKeys, At
<1>. QED  BY <1>1, <1>2 DEF KeyInv

(* A partner that has registered a signing key keeps an active one, unless *)
(* a revocation was overtaken by another (revokePartnerSigningKey).        *)
THEOREM KeyAlwaysRemains == Spec => []KeyRemains
<1>1. KeyInv => KeyRemains
  BY DEF KeyInv, KeyRemains
<1>2. Spec => []KeyInv
  BY KeyInitially, KeyInductive, Typed, PTL DEF Spec
<1>. QED  BY <1>1, <1>2, PTL

-----------------------------------------------------------------------------
(* Webhook secrets: unless raced, a rotation writes over what it read.     *)

SecretInv ==
  "secret" \notin raced =>
    /\ version = 1 + rotations
    /\ \A h \in Handlers : At(h, "rotate", "write") => call[h].seen = version

LEMMA SecretInitially == Init => SecretInv
BY DEF Init, SecretInv, At, Idle

LEMMA SecretReads ==
  ASSUME TypeInv, SecretInv, Next, "secret" \notin raced, NEW h \in Handlers,
         At(h, "rotate", "write")'
  PROVE  call'[h].seen = version
<1>1. CASE call'[h] = call[h]
  BY <1>1 DEF SecretInv, At
<1>2. CASE call'[h] # call[h]
  <2>1. ReadStep(h) \/ CreateSettings(h)
    BY <1>2, Reached DEF At
  <2>2. call[h].op = "rotate"
    BY <1>2, Reached DEF At, Onward, Idle
  <2>3. ReadVersion(h)
    BY <2>1, <2>2 DEF ReadStep, CreateSettings, ReadExistingUser, ReadInvitee,
       ReadPendingInvite, ReadInvite, ReadForRole, ReadForDeactivation, CountOwners,
       ReadLogin, ReadCredential, ReadKey, CountKeys, ReadSettings, At, SettingsOps
  <2>4. call'[h] = [call[h] EXCEPT !.stage = "write", !.seen = version]
    BY <2>3 DEF ReadVersion, TypeInv, TypeOK
  <2>. QED  BY <2>4, CallTypes DEF Call
<1>. QED  BY <1>1, <1>2

LEMMA SecretInductive == TypeInv /\ SecretInv /\ [Next]_vars => SecretInv'
<1>1. ASSUME TypeInv, SecretInv, Next, "secret" \notin raced'
      PROVE  SecretInv'
  <2>r. "secret" \notin raced
    BY <1>1, RacedGrows
  <2>1. CASE UNCHANGED <<version, rotations>>
    BY <1>1, <2>1, <2>r, SecretReads DEF SecretInv
  <2>2. ASSUME NEW h \in Handlers, Rotate(h)  PROVE SecretInv'
    <3>1. call[h].seen = version /\ version = 1 + rotations
      BY <1>1, <2>2, <2>r DEF SecretInv, Rotate
    <3>2. version' = 1 + rotations'
      BY <1>1, <2>2, <3>1 DEF Rotate, TypeInv, TypeOK
    <3>3. ~ Deciding(h, {"rotate"})
      BY <1>1, <2>2 DEF Rotate
    <3>4. call'[h] = Idle /\ \A g \in Handlers \ {h} : call'[g] = call[g]
      BY <1>1, <2>2, AfterWrite DEF WriteStep
    <3>5. \A g \in Handlers : ~ At(g, "rotate", "write")'
      BY <3>3, <3>4 DEF Deciding, At, Idle
    <3>. QED  BY <3>2, <3>5 DEF SecretInv
  <2>. QED  BY <1>1, <2>1, <2>2, SecretsAfter
<1>2. ASSUME SecretInv, UNCHANGED vars  PROVE SecretInv'
  BY <1>2 DEF SecretInv, vars, At
<1>. QED  BY <1>1, <1>2 DEF SecretInv

(* Every signing secret that was returned is a version of its own and the  *)
(* last one is in force, unless rotations overlapped                       *)
(* (rotateWebhookSigningSecret).                                           *)
THEOREM DistinctSecrets == Spec => []SecretsAreDistinct
<1>1. SecretInv => SecretsAreDistinct
  BY DEF SecretInv, SecretsAreDistinct
<1>2. Spec => []SecretInv
  BY SecretInitially, SecretInductive, Typed, PTL DEF Spec
<1>. QED  BY <1>1, <1>2, PTL

-----------------------------------------------------------------------------
(* Invites, sessions and settings.                                         *)

LEMMA AccountsAfter ==
  ASSUME TypeInv, Next
  PROVE  /\ \/ UNCHANGED <<users, invites>>
            \/ \E h \in Handlers : \/ WriteInvite(h) \/ WriteUser(h)
                                   \/ WriteAcceptance(h) \/ WriteRole(h)
                                   \/ WriteDeactivation(h)
         /\ \/ UNCHANGED <<users, sessions>>
            \/ \E h \in Handlers : \/ WriteUser(h) \/ WriteAcceptance(h)
                                   \/ WriteRole(h) \/ WriteDeactivation(h)
                                   \/ WriteLogin(h) \/ Logout(h)
         /\ \/ UNCHANGED <<settings, acked>>
            \/ \E h \in Handlers : CreateSettings(h) \/ WriteSettings(h)
<1>. DEFINE Same == UNCHANGED <<users, invites, sessions, settings, acked>>
<1>1. ASSUME NEW h \in Handlers, BeginStep(h)  PROVE Same
  BY <1>1, BeginTyped DEF tables
<1>2. ASSUME NEW h \in Handlers, ReadStep(h)  PROVE Same
  BY <1>2, ReadTyped DEF reads, tables, counters
<1>3. ASSUME NEW h \in Handlers, Fail(h) \/ Tick  PROVE Same
  BY <1>3 DEF Fail, Tick, reads, tables, counters
<1>4. ASSUME NEW h \in Handlers, CreateSettings(h)
      PROVE  UNCHANGED <<users, invites, sessions>>
  BY <1>4 DEF CreateSettings
<1>5. ASSUME NEW h \in Handlers, WriteStep(h)
      PROVE  /\ \/ UNCHANGED <<users, invites>>
                \/ WriteInvite(h) \/ WriteUser(h) \/ WriteAcceptance(h)
                \/ WriteRole(h) \/ WriteDeactivation(h)
             /\ \/ UNCHANGED <<users, sessions>>
                \/ WriteUser(h) \/ WriteAcceptance(h) \/ WriteRole(h)
                \/ WriteDeactivation(h) \/ WriteLogin(h) \/ Logout(h)
             /\ UNCHANGED <<settings, acked>> \/ WriteSettings(h)
  BY <1>5 DEF WriteStep, WriteInvite, WriteLogin, Logout, Issue, RevokeCredential,
     WriteUser, WriteAcceptance, WriteRole, WriteDeactivation, RegisterKey,
     RevokeKey, Rotate, WriteSettings, counters
<1>6. Tick => Same
  BY DEF Tick, tables
<1>. QED  BY <1>1, <1>2, <1>3, <1>4, <1>5, <1>6, StepCases

Accepted(u) == \E i \in invites : i.email = u /\ i.status = "ACCEPTED"

InviteInv ==
  \A u \in Users :
    /\ users[u].origin = "invite" <=> Accepted(u)
    /\ ~ Existing(u) => users[u].origin = "none"

LEMMA InviteInitially == Init => InviteInv
BY DEF Init, InviteInv, Accepted, Existing

LEMMA InviteInductive == TypeInv /\ InviteInv /\ [Next]_vars => InviteInv'
<1>1. ASSUME TypeInv, InviteInv, Next  PROVE InviteInv'
  <2>t. /\ \A u \in Users : users[u] \in User
        /\ invites \subseteq Invite
    BY <1>1 DEF TypeInv, TypeOK
  <2>1. CASE UNCHANGED <<users, invites>>
    BY <1>1, <2>1 DEF InviteInv, Accepted, Existing
  <2>2. ASSUME NEW h \in Handlers, WriteInvite(h)  PROVE InviteInv'
    <3>1. UNCHANGED users
      BY <2>2 DEF WriteInvite
    <3>2. \A u \in Users : Accepted(u)' <=> Accepted(u)
      BY <2>2 DEF WriteInvite, Accepted
    <3>. QED  BY <1>1, <3>1, <3>2 DEF InviteInv, Existing
  <2>3. ASSUME NEW h \in Handlers, WriteUser(h)  PROVE InviteInv'
    <3>. DEFINE u == call[h].target
    <3>1. u \in Users
      BY <1>1, <2>3, CallTypes DEF WriteUser, At, Shaped
    <3>2. UNCHANGED invites
      BY <2>3 DEF WriteUser
    <3>3. \/ UNCHANGED users
          \/ /\ ~ Existing(u)
             /\ users' = [users EXCEPT ![u] =
                  [status |-> "ACTIVE", role |-> call[h].arg, origin |-> "admin"]]
      BY <2>3 DEF WriteUser, InsertUser, Existing
    <3>4. CASE UNCHANGED users
      BY <1>1, <3>2, <3>4 DEF InviteInv, Accepted, Existing
    <3>5. CASE ~ Existing(u) /\ ~ UNCHANGED users
      <4>1. /\ users'[u].origin = "admin" /\ users'[u].status = "ACTIVE"
            /\ \A v \in Users \ {u} : users'[v] = users[v]
        BY <1>1, <3>1, <3>3, <3>5 DEF TypeInv, TypeOK
      <4>2. ~ Accepted(u)
        BY <1>1, <3>1, <3>5 DEF InviteInv
      <4>. QED  BY <1>1, <3>2, <4>1, <4>2 DEF InviteInv, Accepted, Existing
    <3>. QED  BY <3>3, <3>4, <3>5
  <2>4. ASSUME NEW h \in Handlers, WriteAcceptance(h)  PROVE InviteInv'
    <3>1. PICK u \in Users : u = call[h].target
      BY <1>1, <2>4, CallTypes DEF WriteAcceptance, At, Shaped
    <3>2. CASE UNCHANGED <<users, invites>>
      BY <2>1, <3>2
    <3>3. CASE ~ UNCHANGED <<users, invites>>
      <4>1. PICK i \in invites :
              /\ i.email = u
              /\ i.status = "PENDING"
              /\ InsertUser(u, i.role, "invite")
              /\ invites' = (invites \ {i}) \union {[i EXCEPT !.status = "ACCEPTED"]}
        BY <2>4, <3>1, <3>3 DEF WriteAcceptance
      <4>2. /\ users'[u].origin = "invite" /\ users'[u].status = "ACTIVE"
            /\ \A v \in Users \ {u} : users'[v] = users[v]
        BY <1>1, <3>1, <4>1 DEF InsertUser, TypeInv, TypeOK
      <4>3. i \in Invite
        BY <2>t, <4>1
      <4>4. /\ [i EXCEPT !.status = "ACCEPTED"].email = u
            /\ [i EXCEPT !.status = "ACCEPTED"].status = "ACCEPTED"
        BY <4>1, <4>3 DEF Invite
      <4>. DEFINE accepted == [i EXCEPT !.status = "ACCEPTED"]
      <4>. HIDE DEF accepted
      <4>5. /\ accepted \in invites' /\ invites' \subseteq invites \union {accepted}
            /\ \A j \in invites : j.email # u => j \in invites'
            /\ accepted.email = u /\ accepted.status = "ACCEPTED"
        BY <4>1, <4>4 DEF accepted
      <4>6. \A v \in Users \ {u} : Accepted(v)' <=> Accepted(v)
        BY <4>5 DEF Accepted
      <4>7. Accepted(u)'
        BY <4>5 DEF Accepted
      <4>. QED  BY <1>1, <4>2, <4>6, <4>7 DEF InviteInv, Existing
    <3>. QED  BY <3>2, <3>3
  <2>5. ASSUME NEW h \in Handlers, WriteRole(h) \/ WriteDeactivation(h)
        PROVE  InviteInv'
    <3>. DEFINE u == call[h].target
    <3>1. u \in Users
      BY <1>1, <2>5, CallTypes DEF WriteRole, WriteDeactivation, At, Shaped, TeamOps
    <3>2. UNCHANGED invites
      BY <2>5 DEF WriteRole, WriteDeactivation
    <3>3. \/ users' = [users EXCEPT ![u] = [users[u] EXCEPT !.role = call[h].arg]]
          \/ users' = [users EXCEPT ![u] = [users[u] EXCEPT !.status = "DISABLED"]]
      BY <2>5 DEF WriteRole, WriteDeactivation
    <3>4. /\ users'[u].origin = users[u].origin
          /\ users'[u].status \in {users[u].status, "DISABLED"}
          /\ \A v \in Users \ {u} : users'[v] = users[v]
      BY <1>1, <2>t, <3>1, <3>3 DEF TypeInv, TypeOK, User
    <3>. QED  BY <1>1, <3>2, <3>4 DEF InviteInv, Accepted, Existing
  <2>. QED  BY <1>1, <2>1, <2>2, <2>3, <2>4, <2>5, AccountsAfter
<1>2. ASSUME InviteInv, UNCHANGED vars  PROVE InviteInv'
  BY <1>2 DEF InviteInv, Accepted, Existing, vars
<1>. QED  BY <1>1, <1>2

(* An invite is accepted if and only if it made its user                   *)
(* (acceptPartnerUserInvite).                                              *)
THEOREM InvitesMakeUsers == Spec => []AcceptedMadeUser
<1>1. InviteInv => AcceptedMadeUser
  BY DEF InviteInv, Accepted, AcceptedMadeUser
<1>2. Spec => []InviteInv
  BY InviteInitially, InviteInductive, Typed, PTL DEF Spec
<1>. QED  BY <1>1, <1>2, PTL

(* Logins.  One that is about to write has found its user active, who is   *)
(* active still unless the login was overtaken.                            *)
LoginInv ==
  /\ \A h \in Handlers :
       At(h, "login", "write") => Active(call[h].target) \/ h \in overtaken
  /\ DisabledAreLoggedOut

LEMMA LoginInitially == Init => LoginInv
BY DEF Init, LoginInv, DisabledAreLoggedOut, At, Idle

(* A call that was overtaken stays so until the next one begins.           *)
LEMMA OvertakenAfter ==
  ASSUME TypeInv, Next, NEW h \in overtaken, call[h].stage # "idle"
  PROVE  h \in overtaken'
<1>1. ASSUME NEW g \in Handlers, BeginStep(g)  PROVE h \in overtaken'
  BY <1>1, BeginTyped
<1>2. ASSUME NEW g \in Handlers, ReadStep(g)  PROVE h \in overtaken'
  BY <1>2, ReadTyped DEF reads, counters
<1>3. ASSUME NEW g \in Handlers, WriteStep(g)  PROVE h \in overtaken'
  BY <1>3 DEF WriteStep, WriteInvite, WriteUser, WriteAcceptance, WriteRole,
     WriteDeactivation, WriteLogin, Logout, Issue, RevokeCredential,
     RegisterKey, RevokeKey, Rotate, WriteSettings, counters
<1>4. ASSUME NEW g \in Handlers, Fail(g) \/ CreateSettings(g)
      PROVE  h \in overtaken'
  BY <1>4 DEF Fail, CreateSettings, reads, counters
<1>5. Tick => h \in overtaken'
  BY DEF Tick
<1>. QED  BY <1>1, <1>2, <1>3, <1>4, <1>5, StepCases

(* Only a deactivation makes an active user anything else.                 *)
LEMMA ActiveStay ==
  ASSUME TypeInv, Next, NEW u \in Users, Active(u),
         ~ \E h \in Handlers : WriteDeactivation(h) /\ call[h].target = u
  PROVE  Active(u)'
<1>1. ASSUME NEW h \in Handlers, WriteUser(h) \/ WriteAcceptance(h)
      PROVE  Active(u)'
  BY <1>1 DEF WriteUser, WriteAcceptance, InsertUser, Existing, Active,
     TypeInv, TypeOK
<1>2. ASSUME NEW h \in Handlers, WriteRole(h)  PROVE Active(u)'
  <2>1. users' = [users EXCEPT ![call[h].target] =
          [users[call[h].target] EXCEPT !.role = call[h].arg]]
    BY <1>2 DEF WriteRole
  <2>. QED  BY <2>1 DEF Active, TypeInv, TypeOK, User
<1>3. ASSUME NEW h \in Handlers, WriteDeactivation(h)  PROVE Active(u)'
  <2>1. users' = [users EXCEPT ![call[h].target] =
          [users[call[h].target] EXCEPT !.status = "DISABLED"]]
        /\ call[h].target # u
    BY <1>3 DEF WriteDeactivation
  <2>. QED  BY <2>1 DEF Active, TypeInv, TypeOK
<1>. QED  BY <1>1, <1>2, <1>3, AccountsAfter DEF Active, WriteInvite

(* A login goes on to its write with a user it has found active.           *)
LEMMA LoginReads ==
  ASSUME TypeInv, Next, NEW h \in Handlers, call'[h] # call[h],
         At(h, "login", "write")'
  PROVE  Active(call[h].target)' /\ call'[h].target = call[h].target
<1>1. /\ ReadStep(h) \/ CreateSettings(h)
      /\ UNCHANGED users
      /\ call[h].op = "login" /\ call'[h].target = call[h].target
      /\ call'[h] # Idle
  BY Reached DEF At, Onward, Idle
<1>2. ReadLogin(h)
  BY <1>1 DEF ReadStep, CreateSettings, ReadExistingUser, ReadInvitee,
     ReadPendingInvite, ReadInvite, ReadForRole, ReadForDeactivation, CountOwners,
     ReadVersion, ReadCredential, ReadKey, CountKeys, ReadSettings, At, SettingsOps
<1>3. Active(call[h].target)
  BY <1>1, <1>2, AfterEnd DEF ReadLogin, Check
<1>. QED  BY <1>1, <1>3 DEF Active

LEMMA LoginInductive == TypeInv /\ LoginInv /\ [Next]_vars => LoginInv'
<1>1. ASSUME TypeInv, LoginInv, Next  PROVE LoginInv'
  <2>1. ASSUME NEW h \in Handlers, At(h, "login", "write")'
        PROVE  (Active(call[h].target) \/ h \in overtaken)'
    <3>1. CASE call'[h] # call[h]
      BY <1>1, <2>1, <3>1, LoginReads DEF Active
    <3>2. CASE call'[h] = call[h] /\ h \in overtaken
      BY <1>1, <2>1, <3>2, OvertakenAfter DEF At
    <3>3. CASE call'[h] = call[h] /\ Active(call[h].target)
      <4>1. call[h] \in Call /\ Shaped(call[h])
        BY <1>1 DEF TypeInv, TypeOK, CallsInv
      <4>2. PICK u \in Users : u = call[h].target
        BY <2>1, <3>3, <4>1 DEF Shaped, At
      <4>3. ASSUME NEW g \in Handlers, WriteDeactivation(g), call[g].target = u
            PROVE  h \in overtaken'
        BY <2>1, <3>3, <4>2, <4>3 DEF WriteDeactivation, LoginsOf, At
      <4>. QED  BY <1>1, <3>3, <4>2, <4>3, ActiveStay DEF Active
    <3>. QED  BY <1>1, <2>1, <3>1, <3>2, <3>3 DEF LoginInv, At
  <2>2. ASSUME NEW s \in sessions'  PROVE Active(s.user)' \/ s.late
    <3>t. \A r \in sessions : r.user \in Users
      BY <1>1 DEF TypeInv, TypeOK, DashboardSession
    <3>1. CASE UNCHANGED <<users, sessions>>
      BY <1>1, <2>2, <3>1 DEF LoginInv, DisabledAreLoggedOut, Active
    <3>2. CASE s \in sessions
      <4>1. ASSUME NEW g \in Handlers, WriteDeactivation(g),
                   call[g].target = s.user
            PROVE  FALSE
        BY <2>2, <4>1 DEF WriteDeactivation
      <4>. QED  BY <1>1, <3>t, <3>2, <4>1, ActiveStay
                DEF LoginInv, DisabledAreLoggedOut
    <3>3. CASE s \notin sessions
      <4>1. PICK h \in Handlers : WriteAcceptance(h) \/ WriteLogin(h)
        BY <1>1, <2>2, <3>3, AccountsAfter
           DEF WriteUser, WriteRole, WriteDeactivation, Logout, counters
      <4>2. PICK u \in Users : u = call[h].target
        BY <1>1, <4>1, CallTypes DEF WriteAcceptance, WriteLogin, At, Shaped
      <4>3. CASE WriteAcceptance(h)
        <5>1. PICK i \in invites : InsertUser(u, i.role, "invite")
                                   /\ NewSession(u, FALSE)
          BY <2>2, <3>3, <4>2, <4>3 DEF WriteAcceptance
        <5>2. users'[u].status = "ACTIVE" /\ s.user = u
          BY <1>1, <2>2, <3>3, <5>1 DEF InsertUser, NewSession, TypeInv, TypeOK
        <5>. QED  BY <5>2 DEF Active
      <4>4. CASE WriteLogin(h)
        <5>1. s.user = u /\ s.late = (h \in overtaken)
          BY <2>2, <3>3, <4>2, <4>4 DEF WriteLogin, NewSession
        <5>2. Active(u) \/ h \in overtaken
          BY <1>1, <4>2, <4>4 DEF LoginInv, WriteLogin
        <5>. QED  BY <4>4, <5>1, <5>2 DEF WriteLogin, Active
      <4>. QED  BY <4>1, <4>3, <4>4
    <3>. QED  BY <3>2, <3>3
  <2>. QED  BY <2>1, <2>2 DEF LoginInv, DisabledAreLoggedOut
<1>2. ASSUME LoginInv, UNCHANGED vars  PROVE LoginInv'
  BY <1>2 DEF LoginInv, DisabledAreLoggedOut, Active, At, vars
<1>. QED  BY <1>1, <1>2

(* A disabled user holds no session but that of a login which had found it *)
(* active when the deactivation overtook it (loginDashboardUser,           *)
(* deactivatePartnerUser).                                                 *)
THEOREM DisabledLoseSessions == Spec => []DisabledAreLoggedOut
<1>1. LoginInv => DisabledAreLoggedOut
  BY DEF LoginInv
<1>2. Spec => []LoginInv
  BY LoginInitially, LoginInductive, Typed, PTL DEF Spec
<1>. QED  BY <1>1, <1>2, PTL

SettingsInv ==
  /\ settings = {} \/ settings = {acked}
  /\ settings = {} => acked = DefaultSettings
  /\ \A h \in Handlers : At(h, "updateSettings", "write") => settings # {}

LEMMA SettingsInitially == Init => SettingsInv
BY DEF Init, SettingsInv, DefaultSettings, At, Idle

LEMMA SettingsReads ==
  ASSUME TypeInv, SettingsInv, Next, NEW h \in Handlers,
         At(h, "updateSettings", "write")'
  PROVE  settings' # {}
<1>1. CASE call'[h] = call[h]
  BY <1>1, AccountsAfter DEF SettingsInv, At, CreateSettings, WriteSettings
<1>2. CASE call'[h] # call[h]
  <2>1. ReadStep(h) \/ CreateSettings(h)
    BY <1>2, Reached DEF At
  <2>2. call[h].op = "updateSettings" /\ call'[h] # Idle
    BY <1>2, Reached DEF At, Onward, Idle
  <2>3. ReadSettings(h) \/ CreateSettings(h)
    BY <2>1, <2>2 DEF ReadStep, ReadExistingUser, ReadInvitee, ReadLogin,
       ReadPendingInvite, ReadInvite, ReadForRole, ReadForDeactivation, CountOwners,
       ReadVersion, ReadCredential, ReadKey, CountKeys, At
  <2>4. CASE CreateSettings(h)
    BY <2>4 DEF CreateSettings
  <2>5. CASE ReadSettings(h) /\ settings = {}
    <3>1. Goto(h, "create")
      BY <2>5 DEF ReadSettings
    <3>c. call[h] \in Call /\ call'[h] = [call[h] EXCEPT !.stage = "create"]
      BY <1>1, <3>1, CallTypes, AfterGoto
    <3>2. call'[h].stage = "create"
      BY <3>c DEF Call
    <3>. QED  BY <3>2 DEF At
  <2>6. CASE ReadSettings(h) /\ settings # {}
    BY <2>6 DEF ReadSettings, reads, tables
  <2>. QED  BY <2>3, <2>4, <2>5, <2>6
<1>. QED  BY <1>1, <1>2

LEMMA SettingsInductive == TypeInv /\ SettingsInv /\ [Next]_vars => SettingsInv'
<1>1. ASSUME TypeInv, SettingsInv, Next  PROVE SettingsInv'
  <2>1. \A h \in Handlers : At(h, "updateSettings", "write")' => settings' # {}
    BY <1>1, SettingsReads
  <2>2. CASE UNCHANGED <<settings, acked>>
    BY <1>1, <2>1, <2>2 DEF SettingsInv, DefaultSettings
  <2>3. ASSUME NEW h \in Handlers, CreateSettings(h)  PROVE SettingsInv'
    BY <1>1, <2>1, <2>3 DEF SettingsInv, CreateSettings, DefaultSettings, counters
  <2>4. ASSUME NEW h \in Handlers, WriteSettings(h)  PROVE SettingsInv'
    <3>1. settings = {acked}
      BY <1>1, <2>4 DEF SettingsInv, WriteSettings
    <3>2. settings' = {acked'}
      BY <2>4, <3>1 DEF WriteSettings
    <3>. QED  BY <2>1, <3>2 DEF SettingsInv
  <2>. QED  BY <1>1, <2>2, <2>3, <2>4, AccountsAfter
<1>2. ASSUME SettingsInv, UNCHANGED vars  PROVE SettingsInv'
  BY <1>2 DEF SettingsInv, DefaultSettings, At, vars
<1>. QED  BY <1>1, <1>2

(* Security settings that a partner was told are stored stay stored:       *)
(* neither a first reader nor an update of another field undoes them       *)
(* (getOrCreateSecuritySettings, updateSecuritySettings).                  *)
THEOREM SettingsKept == Spec => []SettingsAreKept
<1>1. SettingsInv => SettingsAreKept
  <2>1. Cardinality({}) = 0 /\ Cardinality({acked}) = 1
    BY FS_EmptySet, FS_Singleton
  <2>. QED  BY <2>1 DEF SettingsInv, SettingsAreKept
<1>2. Spec => []SettingsInv
  BY SettingsInitially, SettingsInductive, Typed, PTL DEF Spec
<1>. QED  BY <1>1, <1>2, PTL
=============================================================================
