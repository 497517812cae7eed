---------------------------- MODULE PartnerAccess ----------------------------
(***************************************************************************)
(* Who may act for a partner: dashboard users, invites and sessions, API   *)
(* credentials, signing keys, webhook secrets and security settings        *)
(* (partners/partners.service.ts, webhooks.service.ts), and the guard that *)
(* authenticates each call.                                                *)
(*                                                                         *)
(* A call is authenticated once, when it arrives.  It then reads, checks   *)
(* and writes in statements of their own; the write is one transaction     *)
(* that names its row by id and repeats none of the checks.  Any number of *)
(* calls run at once.                                                      *)
(*                                                                         *)
(* A user is named by the email, which is unique.  A revoked session is    *)
(* one that is no longer in `sessions`.  The scopes of a user are written  *)
(* with the role and by nothing else, so the role stands for both.  One    *)
(* partner with status ACTIVE and every capability; passwords and secrets  *)
(* that do not match end a call before it begins.                          *)
(***************************************************************************)
EXTENDS Integers, FiniteSets

CONSTANTS
  Handlers,     \* concurrent calls
  Users,        \* emails
  Founders,     \* users that exist initially, owners
  Credentials,  \* API credentials
  Keys,         \* key ids of signing keys
  Fields,       \* fields of PartnerSecuritySettings
  Values,       \* their values
  Default,      \* the value every field is created with
  AdminToken,   \* the operator, behind admin-token-auth.guard.ts
  Anyone,       \* a caller who is not authenticated
  NoTarget,     \* a call without a row to name
  GrantedRoles, \* the roles that invites and updates give
  SessionTtl,   \* PARTNER_DASHBOARD_SESSION_TTL_MS
  InviteTtl,    \* PARTNER_USER_INVITE_TTL_MS
  MaxCalls,     \* bound: calls
  MaxClock      \* bound: ticks of the clock

Roles == {"OWNER", "ADMIN", "DEVELOPER", "ANALYST", "READ_ONLY"}
Managers == {"OWNER", "ADMIN"}

\* Calls of a manager that take a user's standing away.
TeamOps == {"changeRole", "deactivate"}
SecretOps == {"issue", "revokeCredential", "registerKey", "revokeKey", "rotate"}
AdminOps == {"createUser", "issue", "registerKey"}
PublicOps == {"login", "accept"}
Ops == TeamOps \union SecretOps \union AdminOps \union PublicOps
         \union {"invite", "logout", "readSettings", "updateSettings"}

Actors == Users \union Credentials \union {AdminToken, Anyone}

ASSUME AccessAssumption ==
  /\ Founders \subseteq Users
  /\ Founders # {}
  /\ GrantedRoles \subseteq Roles
  /\ IsFiniteSet(Users)
  /\ IsFiniteSet(Keys)
  /\ {AdminToken, Anyone} \intersect (Users \union Credentials) = {}
  /\ Users \intersect Credentials = {}
  /\ AdminToken # Anyone
  /\ Default \in Values
  /\ {SessionTtl, InviteTtl} \subseteq Nat
  /\ {MaxCalls, MaxClock} \subseteq Nat

VARIABLES
  users,        \* PartnerUser rows
  invites,      \* PartnerUserInvite rows
  sessions,     \* DashboardSession rows that are not revoked
  credentials,  \* status of each PartnerApiCredential
  keys,         \* status of each PartnerSigningKey
  version,      \* WebhookEndpoint.signingSecretVersion of the endpoint
  settings,     \* the PartnerSecuritySettings row, if there is one
  call,         \* what each call holds between its statements
  acked,        \* history: settings a partner was told were stored
  rotations,    \* history: signing secrets returned
  raced,        \* history: the checks that a concurrent call made void
  overtaken,    \* history: the calls whose user was disabled after their check
  lastSession, now, calls

vars == <<users, invites, sessions, credentials, keys, version, settings, call,
          acked, rotations, raced, overtaken, lastSession, now, calls>>

User == [status : {"ABSENT", "ACTIVE", "DISABLED"}, role : Roles,
         origin : {"none", "admin", "invite"}]
Invite == [email : Users, role : Roles, expiresAt : Nat,
           status : {"PENDING", "ACCEPTED"}]
DashboardSession ==
  [id : Nat, user : Users, expiresAt : Nat,
   late : BOOLEAN]               \* history: made by an overtaken login
Settings == [Fields -> Values]
Targets == Users \union Credentials \union Keys \union Fields \union Nat
             \union {NoTarget}
Call == [op : Ops, stage : {"idle", "read", "find", "count", "create", "write"},
         actor : Actors, target : Targets, arg : Roles \union Values,
         seen : Nat]

Idle == [op |-> "login", stage |-> "idle", actor |-> Anyone,
         target |-> NoTarget, arg |-> "READ_ONLY", seen |-> 0]

TypeOK ==
  /\ users \in [Users -> User]
  /\ invites \subseteq Invite
  /\ sessions \subseteq DashboardSession
  /\ credentials \in [Credentials -> {"ABSENT", "ACTIVE", "DISABLED"}]
  /\ keys \in [Keys -> {"ABSENT", "ACTIVE", "REVOKED"}]
  /\ version \in Nat
  /\ settings \subseteq Settings
  /\ acked \in Settings
  /\ call \in [Handlers -> Call]
  /\ raced \subseteq {"manager", "owner", "key", "secret"}
  /\ overtaken \subseteq Handlers
  /\ {rotations, lastSession, now, calls} \subseteq Nat

Init ==
  /\ users = [u \in Users |->
       IF u \in Founders
       THEN [status |-> "ACTIVE", role |-> "OWNER", origin |-> "admin"]
       ELSE [status |-> "ABSENT", role |-> "READ_ONLY", origin |-> "none"]]
  /\ invites = {}
  /\ sessions = {}
  /\ credentials = [c \in Credentials |-> "ABSENT"]
  /\ keys = [k \in Keys |-> "ABSENT"]
  /\ version = 1
  /\ settings = {}
  /\ call = [h \in Handlers |-> Idle]
  /\ acked = [f \in Fields |-> Default]
  /\ rotations = 0
  /\ raced = {}
  /\ overtaken = {}
  /\ lastSession = 0
  /\ now = 0
  /\ calls = 0

-----------------------------------------------------------------------------
(* The guards: partner-api-key-auth.guard.ts with the scopes and the policy *)
(* of each route, admin-token-auth.guard.ts, and the public routes.        *)

\* The roles a route admits, by its policy or by the scopes of the roles.
RolesOf(op) ==
  CASE op \in TeamOps \union {"invite", "readSettings"} -> Managers
    [] op \in SecretOps -> Managers \union {"DEVELOPER"}
    [] op = "updateSettings" -> {"OWNER"}
    [] op = "logout" -> Roles
    [] OTHER -> {}

Active(u) == users[u].status = "ACTIVE"

Existing(u) == users[u].status # "ABSENT"

\* authenticateDashboardSession reads session, user and partner at once.
LoggedIn(u) ==
  /\ Active(u)
  /\ \E s \in sessions : s.user = u /\ s.expiresAt > now

\* authenticateApiCredential; every credential has the scopes of SecretOps.
InForce(c) == credentials[c] = "ACTIVE"

Admitted(actor, op) ==
  \/ actor = Anyone /\ op \in PublicOps
  \/ actor = AdminToken /\ op \in AdminOps
  \/ actor \in Credentials /\ InForce(actor) /\ op \in SecretOps
  \/ actor \in Users /\ LoggedIn(actor) /\ users[actor].role \in RolesOf(op)

\* What each route names in its path or body.
TargetsOf(op) ==
  CASE op \in TeamOps \union {"createUser", "invite", "login", "accept"} -> Users
    [] op = "revokeCredential" -> Credentials
    [] op \in {"registerKey", "revokeKey"} -> Keys
    [] op = "updateSettings" -> Fields
    [] op \in {"issue", "rotate", "readSettings"} -> {NoTarget}
    [] op = "logout" -> {s.id : s \in sessions}

ArgsOf(op) ==
  CASE op \in {"createUser", "invite", "changeRole"} -> GrantedRoles
    [] op = "updateSettings" -> Values
    [] OTHER -> {"READ_ONLY"}

\* The statement a call begins with.
FirstStage(op) == IF op \in {"issue", "logout"} THEN "write" ELSE "read"

Begin(h, op, actor, target, arg) ==
  /\ call[h].stage = "idle"
  /\ calls < MaxCalls
  /\ Admitted(actor, op)
  /\ call' = [call EXCEPT ![h] =
       [op |-> op, stage |-> FirstStage(op), actor |-> actor,
        target |-> target, arg |-> arg, seen |-> 0]]
  /\ calls' = calls + 1
  /\ overtaken' = overtaken \ {h}
  /\ UNCHANGED <<users, invites, sessions, credentials, keys, version, settings,
                 acked, rotations, raced, lastSession, now>>

At(h, op, stage) == call[h].op = op /\ call[h].stage = stage

End(h) == call' = [call EXCEPT ![h] = Idle]

Goto(h, stage) == call' = [call EXCEPT ![h].stage = stage]

\* A check: the call goes on, or is refused.
Check(h, holds, stage) == IF holds THEN Goto(h, stage) ELSE End(h)

tables == <<users, invites, sessions, credentials, keys, version, settings>>
counters == <<acked, rotations, raced, overtaken, lastSession, now, calls>>
reads == <<tables, counters>>

\* A call that ends here leaves what it wrote: the process stops, or a
\* statement fails.
Fail(h) ==
  /\ call[h].stage # "idle"
  /\ End(h)
  /\ UNCHANGED reads

\* Another call is about to write what it decided on earlier reads.
Deciding(h, ops) == \E g \in Handlers \ {h} :
  call[g].stage = "write" /\ call[g].op \in ops

-----------------------------------------------------------------------------
(* Users: createPartnerUser, invitePartnerUser, acceptPartnerUserInvite.   *)

ReadExistingUser(h) ==
  /\ At(h, "createUser", "read") \/ At(h, "accept", "find")
  /\ Check(h, ~Existing(call[h].target), "write")
  /\ UNCHANGED reads

ReadInvitee(h) ==
  /\ At(h, "invite", "read")
  /\ Check(h, ~Active(call[h].target), "find")
  /\ UNCHANGED reads

PendingFor(u) == {i \in invites : i.email = u /\ i.status = "PENDING"}

\* An expired invite is still PENDING, and is not found here.
ReadPendingInvite(h) ==
  /\ At(h, "invite", "find")
  /\ Check(h, \A i \in PendingFor(call[h].target) : i.expiresAt <= now, "write")
  /\ UNCHANGED reads

\* The unique index on partner, email and status has the last word.
WriteInvite(h) ==
  /\ At(h, "invite", "write")
  /\ invites' = IF PendingFor(call[h].target) = {}
       THEN invites \union {[email |-> call[h].target, role |-> call[h].arg,
                             expiresAt |-> now + InviteTtl,
                             status |-> "PENDING"]}
       ELSE invites
  /\ End(h)
  /\ UNCHANGED <<users, sessions, credentials, keys, version, settings, counters>>

ReadInvite(h) ==
  /\ At(h, "accept", "read")
  /\ Check(h, \E i \in PendingFor(call[h].target) : i.expiresAt > now, "find")
  /\ UNCHANGED reads

NewSession(u, late) ==
  /\ lastSession' = lastSession + 1
  /\ sessions' = sessions \union
       {[id |-> lastSession', user |-> u, expiresAt |-> now + SessionTtl,
         late |-> late]}

\* Mutant: an acceptance of an existing user takes the user over.
MutUpsertUser(u, role, origin) ==
  users' = [users EXCEPT ![u] =
    [status |-> "ACTIVE", role |-> role, origin |-> origin]]

\* The unique index on the email decides between two creations.
InsertUser(u, role, origin) ==
  /\ ~Existing(u)
  /\ users' = [users EXCEPT ![u] =
       [status |-> "ACTIVE", role |-> role, origin |-> origin]]

WriteUser(h) ==
  /\ At(h, "createUser", "write")
  /\ \/ InsertUser(call[h].target, call[h].arg, "admin")
     \/ Existing(call[h].target) /\ UNCHANGED users
  /\ End(h)
  /\ UNCHANGED <<invites, sessions, credentials, keys, version, settings, counters>>

\* User, session and invite are written in one transaction.
WriteAcceptance(h) ==
  /\ At(h, "accept", "write")
  /\ LET u == call[h].target
     IN  \/ \E i \in invites :
              /\ i.email = u
              /\ i.status = "PENDING"
              /\ InsertUser(u, i.role, "invite")
              /\ NewSession(u, FALSE)
              /\ invites' = (invites \ {i}) \union
                              {[i EXCEPT !.status = "ACCEPTED"]}
         \/ /\ Existing(u)
            /\ UNCHANGED <<users, sessions, invites, lastSession>>
  /\ End(h)
  /\ UNCHANGED <<credentials, keys, version, settings, acked, rotations, raced,
                 overtaken, now, calls>>

-----------------------------------------------------------------------------
(* Users: updatePartnerUser and deactivatePartnerUser.                     *)

\* A call takes the standing of a user whose own call against another user
\* is under way.
Crossed(h, u) ==
  \E g \in Handlers \ {h} :
    /\ call[g].stage # "idle"
    /\ call[g].op \in TeamOps
    /\ call[g].actor = u

\* What the loss of an owner, by h, makes void.
OwnerLost(h, u) ==
  IF Active(u) /\ users[u].role = "OWNER" /\ Deciding(h, {"deactivate"})
  THEN {"owner"} ELSE {}

\* Mutant: managers may change their own role.
MutOwnRole(h) ==
  /\ At(h, "changeRole", "read")
  /\ LET u == call[h].target
     IN  Check(h, Existing(u) /\ call[h].arg # users[u].role,
               "write")
  /\ UNCHANGED reads

\* updatePartnerUser: anyone but oneself, whatever the role and the status.
ReadForRole(h) ==
  /\ At(h, "changeRole", "read")
  /\ LET u == call[h].target
     IN  Check(h, /\ Existing(u)
                  /\ call[h].arg # users[u].role
                  /\ call[h].actor # u, "write")
  /\ UNCHANGED reads

\* A change of an owner's role is not held against the owners that remain:
\* the history says so.
WriteRole(h) ==
  /\ At(h, "changeRole", "write")
  /\ LET u == call[h].target
     IN  /\ users' = [users EXCEPT ![u].role = call[h].arg]
         /\ raced' = raced
              \union (IF Crossed(h, u) THEN {"manager"} ELSE {})
              \union (IF Active(u) /\ users[u].role = "OWNER" THEN {"owner"}
                      ELSE {})
  /\ End(h)
  /\ UNCHANGED <<invites, sessions, credentials, keys, version, settings, acked,
                 rotations, overtaken, lastSession, now, calls>>

ReadForDeactivation(h) ==
  /\ At(h, "deactivate", "read")
  /\ LET u == call[h].target
     IN  Check(h, call[h].actor # u /\ Active(u),
               IF users[u].role = "OWNER" THEN "count" ELSE "write")
  /\ UNCHANGED reads

Owners == {u \in Users : Active(u) /\ users[u].role = "OWNER"}

\* Mutant: an owner is enough to let the last one go.
MutCountOwners(h) ==
  /\ At(h, "deactivate", "count")
  /\ Check(h, Cardinality(Owners) > 0, "write")
  /\ UNCHANGED reads

CountOwners(h) ==
  /\ At(h, "deactivate", "count")
  /\ Check(h, Cardinality(Owners) > 1, "write")
  /\ UNCHANGED reads

\* Logins that have found u active and have not yet written its session.
LoginsOf(u) ==
  {g \in Handlers : At(g, "login", "write") /\ call[g].target = u}

\* User and sessions are written in one transaction.
WriteDeactivation(h) ==
  /\ At(h, "deactivate", "write")
  /\ LET u == call[h].target
     IN  /\ users' = [users EXCEPT ![u].status = "DISABLED"]
         /\ sessions' = {s \in sessions : s.user # u}
         /\ raced' = raced \union OwnerLost(h, u)
              \union (IF Crossed(h, u) THEN {"manager"} ELSE {})
         /\ overtaken' = overtaken \union LoginsOf(u)
  /\ End(h)
  /\ UNCHANGED <<invites, credentials, keys, version, settings, acked, rotations,
                 lastSession, now, calls>>

-----------------------------------------------------------------------------
(* Sessions: loginDashboardUser, logoutDashboardSession.                   *)

\* Mutant: the password is enough, whatever the status.
MutReadLogin(h) ==
  /\ At(h, "login", "read")
  /\ Check(h, Existing(call[h].target), "write")
  /\ UNCHANGED reads

\* The password is verified between this and the session, which takes a while.
ReadLogin(h) ==
  /\ At(h, "login", "read")
  /\ Check(h, Active(call[h].target), "write")
  /\ UNCHANGED reads

WriteLogin(h) ==
  /\ At(h, "login", "write")
  /\ NewSession(call[h].target, h \in overtaken)
  /\ End(h)
  /\ UNCHANGED <<users, invites, credentials, keys, version, settings, acked,
                 rotations, raced, overtaken, now, calls>>

Logout(h) ==
  /\ At(h, "logout", "write")
  /\ sessions' = {s \in sessions :
       ~(s.id = call[h].target /\ s.user = call[h].actor)}
  /\ End(h)
  /\ UNCHANGED <<users, invites, credentials, keys, version, settings, counters>>

-----------------------------------------------------------------------------
(* Credentials, signing keys and webhook secrets.                          *)

\* The prefix is generated until it is unused.
Issue(h) ==
  /\ At(h, "issue", "write")
  /\ \E c \in Credentials :
       /\ credentials[c] = "ABSENT"
       /\ credentials' = [credentials EXCEPT ![c] = "ACTIVE"]
  /\ End(h)
  /\ UNCHANGED <<users, invites, sessions, keys, version, settings, counters>>

ReadCredential(h) ==
  /\ At(h, "revokeCredential", "read")
  /\ Check(h, /\ call[h].actor # call[h].target
              /\ credentials[call[h].target] = "ACTIVE", "write")
  /\ UNCHANGED reads

RevokeCredential(h) ==
  /\ At(h, "revokeCredential", "write")
  /\ credentials' = [credentials EXCEPT ![call[h].target] = "DISABLED"]
  /\ End(h)
  /\ UNCHANGED <<users, invites, sessions, keys, version, settings, counters>>

ReadKey(h) ==
  /\ \/ /\ At(h, "registerKey", "read")
        /\ Check(h, keys[call[h].target] = "ABSENT", "write")
     \/ /\ At(h, "revokeKey", "read")
        /\ Check(h, keys[call[h].target] = "ACTIVE", "count")
  /\ UNCHANGED reads

\* The unique index on partner and key id decides between two registrations.
RegisterKey(h) ==
  /\ At(h, "registerKey", "write")
  /\ LET k == call[h].target
     IN  keys' = IF keys[k] = "ABSENT" THEN [keys EXCEPT ![k] = "ACTIVE"]
                 ELSE keys
  /\ End(h)
  /\ UNCHANGED <<users, invites, sessions, credentials, version, settings, counters>>

ActiveKeys == {k \in Keys : keys[k] = "ACTIVE"}

\* Mutant: off by one.
MutCountKeys(h) ==
  /\ At(h, "revokeKey", "count")
  /\ Check(h, Cardinality(ActiveKeys) >= 1, "write")
  /\ UNCHANGED reads

\* Keys whose validity is over count too.
CountKeys(h) ==
  /\ At(h, "revokeKey", "count")
  /\ Check(h, Cardinality(ActiveKeys) > 1, "write")
  /\ UNCHANGED reads

\* Mutant: the status of a revoked credential.
MutDisableKey(h) ==
  /\ At(h, "revokeKey", "write")
  /\ keys' = [keys EXCEPT ![call[h].target] = "DISABLED"]
  /\ End(h)
  /\ UNCHANGED <<users, invites, sessions, credentials, version, settings, counters>>

RevokeKey(h) ==
  /\ At(h, "revokeKey", "write")
  /\ keys' = [keys EXCEPT ![call[h].target] = "REVOKED"]
  /\ raced' = raced \union
       (IF Deciding(h, {"revokeKey"}) THEN {"key"} ELSE {})
  /\ End(h)
  /\ UNCHANGED <<users, invites, sessions, credentials, version, settings, acked,
                 rotations, overtaken, lastSession, now, calls>>

ReadVersion(h) ==
  /\ At(h, "rotate", "read")
  /\ call' = [call EXCEPT ![h].stage = "write", ![h].seen = version]
  /\ UNCHANGED reads

\* Mutant: the version is taken from the caller's first secret.
MutRotate(h) ==
  /\ At(h, "rotate", "write")
  /\ version' = call[h].seen
  /\ rotations' = rotations + 1
  /\ raced' = raced \union (IF Deciding(h, {"rotate"}) THEN {"secret"} ELSE {})
  /\ End(h)
  /\ UNCHANGED <<users, invites, sessions, credentials, keys, settings, acked,
                 overtaken, lastSession, now, calls>>

\* The version that was read, plus one, whatever it has become.
Rotate(h) ==
  /\ At(h, "rotate", "write")
  /\ version' = call[h].seen + 1
  /\ rotations' = rotations + 1
  /\ raced' = raced \union (IF Deciding(h, {"rotate"}) THEN {"secret"} ELSE {})
  /\ End(h)
  /\ UNCHANGED <<users, invites, sessions, credentials, keys, settings, acked,
                 overtaken, lastSession, now, calls>>

-----------------------------------------------------------------------------
(* Security settings: the first reader creates the row.                    *)

SettingsOps == {"readSettings", "updateSettings"}

ReadSettings(h) ==
  /\ call[h].op \in SettingsOps
  /\ call[h].stage = "read"
  /\ \/ settings = {} /\ Goto(h, "create")
     \/ settings # {} /\ Check(h, call[h].op = "updateSettings", "write")
  /\ UNCHANGED reads

DefaultSettings == [f \in Fields |-> Default]

\* Mutant: the row is written over.
MutUpsertSettings(h) ==
  /\ call[h].op \in SettingsOps
  /\ call[h].stage = "create"
  /\ settings' = {DefaultSettings}
  /\ Check(h, call[h].op = "updateSettings", "write")
  /\ UNCHANGED <<users, invites, sessions, credentials, keys, version, counters>>

\* The unique index on the partner refuses the second creation.
CreateSettings(h) ==
  /\ call[h].op \in SettingsOps
  /\ call[h].stage = "create"
  /\ \/ /\ settings = {}
        /\ settings' = {DefaultSettings}
        /\ Check(h, call[h].op = "updateSettings", "write")
     \/ /\ settings # {}
        /\ UNCHANGED settings
        /\ End(h)
  /\ UNCHANGED <<users, invites, sessions, credentials, keys, version, counters>>

\* Only the fields of the request are written.
WriteSettings(h) ==
  /\ At(h, "updateSettings", "write")
  /\ settings' = {[row EXCEPT ![call[h].target] = call[h].arg] : row \in settings}
  /\ acked' = [acked EXCEPT ![call[h].target] = call[h].arg]
  /\ End(h)
  /\ UNCHANGED <<users, invites, sessions, credentials, keys, version, rotations,
                 raced, overtaken, lastSession, now, calls>>

Tick ==
  /\ now < MaxClock
  /\ now' = now + 1
  /\ UNCHANGED <<tables, call, acked, rotations, raced, overtaken, lastSession,
                 calls>>

-----------------------------------------------------------------------------
UserStep(h) ==
  \/ ReadExistingUser(h)
  \/ ReadInvitee(h)
  \/ ReadPendingInvite(h)
  \/ WriteInvite(h)
  \/ ReadInvite(h)
  \/ WriteUser(h)
  \/ WriteAcceptance(h)
  \/ ReadForRole(h)
  \/ WriteRole(h)
  \/ ReadForDeactivation(h)
  \/ CountOwners(h)
  \/ WriteDeactivation(h)
  \/ ReadLogin(h)
  \/ WriteLogin(h)
  \/ Logout(h)

SecretStep(h) ==
  \/ Issue(h)
  \/ ReadCredential(h)
  \/ RevokeCredential(h)
  \/ ReadKey(h)
  \/ RegisterKey(h)
  \/ CountKeys(h)
  \/ RevokeKey(h)
  \/ ReadVersion(h)
  \/ Rotate(h)

SettingsStep(h) ==
  \/ ReadSettings(h)
  \/ CreateSettings(h)
  \/ WriteSettings(h)

Next ==
  \/ \E h \in Handlers, op \in Ops, actor \in Actors :
       \E target \in TargetsOf(op), arg \in ArgsOf(op) :
         Begin(h, op, actor, target, arg)
  \/ \E h \in Handlers : UserStep(h) \/ SecretStep(h) \/ SettingsStep(h) \/ Fail(h)
  \/ Tick

Spec == Init /\ [][Next]_vars

-----------------------------------------------------------------------------
(* Properties.                                                             *)

\* A partner keeps a user who can manage its users: every call that takes a
\* user's standing is made by another manager, who keeps theirs, unless two
\* such calls crossed (the checks of updatePartnerUser and
\* deactivatePartnerUser against the caller's own account).
ManagerRemains ==
  "manager" \notin raced => \E u \in Users : Active(u) /\ users[u].role \in Managers

\* Deactivations leave an owner, unless one that had passed its check was
\* overtaken by another (deactivatePartnerUser counts before it writes), or
\* an owner was given another role.
OwnerRemains == "owner" \notin raced => Owners # {}

\* A partner that has registered a signing key keeps an active one, unless a
\* revocation was overtaken by another (revokePartnerSigningKey).
KeyRemains ==
  "key" \notin raced /\ (\E k \in Keys : keys[k] # "ABSENT") => ActiveKeys # {}

\* Every signing secret that was returned is a version of its own and the
\* last one is in force, unless two rotations overlapped.
SecretsAreDistinct == "secret" \notin raced => version = 1 + rotations

\* An invite is accepted if and only if it made its user: two acceptances, an
\* acceptance and the operator, or invites for one email, make one user.
AcceptedMadeUser ==
  \A u \in Users :
    users[u].origin = "invite" <=>
      \E i \in invites : i.email = u /\ i.status = "ACCEPTED"

\* A disabled user has no session: a deactivation ends them all, and a login
\* made after it fails.  The one exception is a login that had found the user
\* active when it was overtaken by the deactivation (loginDashboardUser checks
\* the status, then verifies the password, then writes the session).
DisabledAreLoggedOut ==
  \A s \in sessions : Active(s.user) \/ s.late

\* What a partner was told is stored stays stored, whoever reads the settings
\* for the first time at the same moment, and updates of different fields do
\* not undo each other.
SettingsAreKept ==
  /\ Cardinality(settings) <= 1
  /\ \A row \in settings : row = acked
=============================================================================
