------------------------------ MODULE Dashboard ------------------------------
(***************************************************************************)
(* The dashboard of a partner in one browser: sign-in and the sealed       *)
(* session cookie (lib/session.ts), the flash cookie that carries the      *)
(* outcome of a form, and any secret it made, to the next page             *)
(* (lib/flash.ts), and the pages and form actions that read both.          *)
(*                                                                         *)
(* Cookies are the browser's: a request carries those of the moment it is  *)
(* sent, a response changes those of the moment it arrives.  A form action *)
(* is two steps, its post and its answer; the redirect it answers with is  *)
(* a third.  A page renders in one step.  Between them other tabs act, the *)
(* backend ends sessions, and administrators change roles and partners.    *)
(* Any call of a page or a form to the backend may fail or time out.       *)
(*                                                                         *)
(* cookies().delete throws while a page renders (Next.js allows it in      *)
(* actions and route handlers only): a page whose session is dead shows    *)
(* the error boundary and leaves the cookie.                               *)
(***************************************************************************)
EXTENDS DashboardPages, Integers

CONSTANTS
  Tabs,         \* the tabs of the browser
  Partners,     \* the partner profiles considered: capabilities, plan, stage
  UserRoles,    \* the roles considered for the user
  Visited,      \* the pages opened
  Forms,        \* the form actions posted
  MaxSignIns,   \* bound: sign-ins of the user
  MaxSecrets,   \* bound: secrets made
  MaxChanges,   \* bound: changes of role, partner, session or admin token
  MaxClears     \* bound: clear requests under way

\* What updatePartnerAdminState keeps true of every partner.
ASSUME PartnersAssumption ==
  \A p \in Partners :
    /\ p \in [capabilities : SUBSET Capabilities, plan : Plans, stage : Stages]
    /\ "fullAttestation" \in p.capabilities
         => "dataPartner" \in p.capabilities
    /\ "production" \in p.capabilities <=> p.stage = "PRODUCTION_APPROVED"

ASSUME VisitedAssumption == Visited \subseteq Pages

ASSUME FormsAssumption ==
  /\ Forms \subseteq PartnerForms \cup AdminForms
  /\ \A form \in Forms \cap PartnerForms : Actions[form].back \in Pages

ASSUME UserAssumption ==
  /\ UserRoles \subseteq Roles
  /\ {MaxSignIns, MaxSecrets, MaxChanges, MaxClears} \subseteq Nat

VARIABLES
  partner,      \* the partner's capabilities, plan and stage
  role,         \* the user's role
  live,         \* the tokens of the sessions the backend accepts
  signIns,      \* tokens issued so far
  adminToken,   \* the admin token the backend is configured with
  cookie,       \* the session cookie
  adminCookie,  \* the admin cookie: a token, or 0 when there is none
  flash,        \* the flash cookie: NoFlash, Notice, or the secret it carries
  clears,       \* posts to /flash/clear under way
  tab,          \* what each tab offers and waits for
  received,     \* number of secrets the dashboard was given
  shown,        \* the secrets some page showed
  disturbed,    \* history: something got between a secret and its page
  changes       \* changes so far

vars == <<partner, role, live, signIns, adminToken, cookie, adminCookie,
          flash, clears, tab, received, shown, disturbed, changes>>

backend == <<partner, role, adminToken, changes>>
secrets == <<received, shown>>

NoFlash == -1
Notice == 0

\* Cookies hold the token and the scopes of the sign-in; token 0 is no cookie.
NoSession == [token |-> 0, scopes |-> {}]

\* A tab shows a page (and its forms), waits for the answer to a post it
\* sent with the cookies of then, waits for a page, or shows an error in the
\* place of a page.
Idle(offers) ==
  [doing |-> "idle", offers |-> offers, form |-> "", session |-> NoSession,
   page |-> ""]
Posting(form, session) ==
  [doing |-> "posting", offers |-> {}, form |-> form, session |-> session,
   page |-> ""]
Loading(page) ==
  [doing |-> "loading", offers |-> {}, form |-> "", session |-> NoSession,
   page |-> page]
Failed(page, offers) ==
  [doing |-> "failed", offers |-> offers, form |-> "", session |-> NoSession,
   page |-> page]

Buttons == Forms \cup {"sign-in", "sign-out", "admin-sign-in", "admin-sign-out"}

\* The user as GET /partners/me reports it, and as the guard sees it.
Account ==
  [capabilities |-> partner.capabilities, plan |-> partner.plan,
   stage |-> partner.stage, scopes |-> RoleScopes(role), role |-> role]
Caller ==
  [actorType |-> "PARTNER_USER", role |-> role, scopes |-> RoleScopes(role),
   capabilities |-> partner.capabilities, plan |-> partner.plan,
   stage |-> partner.stage]

AllAdmitted(calls) == \A call \in calls : Admits(Caller, Client[call])

IsAdmin(form) == form \in AdminForms
Home(form) == IF IsAdmin(form) THEN "/setup" ELSE "/"
Back(form) == IF IsAdmin(form) THEN "/setup" ELSE Actions[form].back

\* A request for the page at a path shows the flash message, unless the
\* backend fails it.
Shows(path) ==
  LET page == PageAt(path, cookie, Account)
  IN  /\ path \in Pages
      /\ cookie.token # 0 /\ cookie.token \in live
      /\ page.banner /\ AllAdmitted(page.calls)

\* The flash cookie carries a secret that no page has shown.
Unread == flash \in 1 .. received \ shown

\* The tab shows an error where it was to show the secret: to load the page
\* once more would.
Withholds(t) == Unread /\ tab[t].doing = "failed" /\ Shows(tab[t].page)

\* A secret nobody has seen, or a clear request under way: an answer to
\* another form may cost the user a secret.
Unsettled == clears > 0 \/ Unread
Overtake == disturbed' = (disturbed \/ Unsettled)

\* So may a change of the session, the role or the partner, and already while
\* a form waits for its answer.
Disturb ==
  disturbed' =
    (disturbed \/ Unsettled \/ \E t \in Tabs : tab[t].doing = "posting")

TypeOK ==
  /\ partner \in Partners
  /\ role \in UserRoles
  /\ signIns \in 0 .. MaxSignIns
  /\ live \subseteq 1 .. signIns
  /\ adminToken \in 1 .. MaxChanges + 1
  /\ cookie.token \in 0 .. signIns
  /\ cookie.scopes \in {{}} \cup {RoleScopes(r) : r \in UserRoles}
  /\ adminCookie \in 0 .. adminToken
  /\ flash \in NoFlash .. received
  /\ clears \in 0 .. MaxClears
  /\ DOMAIN tab = Tabs
  /\ \A t \in Tabs :
       /\ tab[t].doing \in {"idle", "posting", "loading", "failed"}
       /\ tab[t].offers \subseteq Buttons
       /\ tab[t].doing = "posting" <=> tab[t].form \in Forms
       /\ tab[t].doing \in {"loading", "failed"}
            <=> tab[t].page \in Pages \cup {"/"}
       /\ tab[t].session.token \in (0 .. signIns) \cup (1 .. adminToken)
  /\ received \in 0 .. MaxSecrets
  /\ shown \subseteq 1 .. received
  /\ disturbed \in BOOLEAN
  /\ changes \in 0 .. MaxChanges

Init ==
  /\ partner \in Partners
  /\ role \in UserRoles
  /\ live = {}
  /\ signIns = 0
  /\ adminToken = 1
  /\ cookie = NoSession
  /\ adminCookie = 0
  /\ flash = NoFlash
  /\ clears = 0
  /\ tab = [t \in Tabs |-> Loading("/")]
  /\ received = 0
  /\ shown = {}
  /\ disturbed = FALSE
  /\ changes = 0

-----------------------------------------------------------------------------
(* Signing in and out (session-actions.ts) *)

\* What setDashboardSession stores: the token and the scopes of now.
Session(token) == [token |-> token, scopes |-> RoleScopes(role)]

\* loginAction; a refused sign-in changes nothing.
loginAction(t) ==
  /\ "sign-in" \in tab[t].offers
  /\ signIns < MaxSignIns
  /\ signIns' = signIns + 1
  /\ live' = live \cup {signIns'}
  /\ cookie' = Session(signIns')
  /\ tab' = [tab EXCEPT ![t] = Loading("/overview")]
  /\ Disturb
  /\ UNCHANGED <<backend, adminCookie, flash, clears, secrets>>

\* logoutAction: the cookie goes even if the backend could not be told.
logoutAction(t) ==
  /\ "sign-out" \in tab[t].offers
  /\ live' \in {live, live \ {cookie.token}}
  /\ cookie' = NoSession
  /\ tab' = [tab EXCEPT ![t] = Loading("/")]
  /\ Disturb
  /\ UNCHANGED <<backend, signIns, adminCookie, flash, clears, secrets>>

\* adminSetupLoginAction stores the token the backend accepted.
adminSetupLoginAction(t) ==
  /\ "admin-sign-in" \in tab[t].offers
  /\ adminCookie' = adminToken
  /\ tab' = [tab EXCEPT ![t] = Loading("/setup")]
  /\ UNCHANGED <<backend, live, signIns, cookie, flash, clears, secrets,
                 disturbed>>

adminSetupLogoutAction(t) ==
  /\ "admin-sign-out" \in tab[t].offers
  /\ adminCookie' = 0
  /\ tab' = [tab EXCEPT ![t] = Loading("/setup")]
  /\ Disturb
  /\ UNCHANGED <<backend, live, signIns, cookie, flash, clears, secrets>>

-----------------------------------------------------------------------------
(* Form actions *)

\* The browser posts a form with the cookies of now.
Submit(t, form) ==
  /\ form \in tab[t].offers
  /\ tab' = [tab EXCEPT ![t] =
               Posting(form, IF IsAdmin(form)
                               THEN [token |-> adminCookie, scopes |-> {}]
                               ELSE cookie)]
  /\ UNCHANGED <<backend, live, signIns, cookie, adminCookie, flash, clears,
                 secrets, disturbed>>

Accepts(form, token) ==
  IF IsAdmin(form) THEN AdmitsAdmin(token, adminToken) ELSE token \in live

\* No cookie came with the post: to the sign-in page.
AnswerSignedOut(t) ==
  /\ tab[t].doing = "posting"
  /\ tab[t].session.token = 0
  /\ tab' = [tab EXCEPT ![t] = Loading(Home(tab[t].form))]
  /\ UNCHANGED <<backend, live, signIns, cookie, adminCookie, flash, clears,
                 secrets, disturbed>>

\* The backend answers 401: the cookie the browser holds now is deleted; an
\* administrator also gets a message.
AnswerUnauthorized(t) ==
  LET form == tab[t].form
  IN  /\ tab[t].doing = "posting"
      /\ tab[t].session.token # 0
      /\ ~Accepts(form, tab[t].session.token)
      /\ IF IsAdmin(form)
           THEN /\ adminCookie' = 0
                /\ flash' = Notice
                /\ UNCHANGED cookie
           ELSE /\ cookie' = NoSession
                /\ UNCHANGED <<adminCookie, flash>>
      /\ tab' = [tab EXCEPT ![t] = Loading(Home(form))]
      /\ Disturb
      /\ UNCHANGED <<backend, live, signIns, clears, secrets>>

\* A field is missing, the backend refuses or fails, or its answer does not
\* come within backendRequestTimeoutMs: an error message.
AnswerFailed(t) ==
  /\ tab[t].doing = "posting"
  /\ tab[t].session.token # 0
  /\ flash' = Notice
  /\ tab' = [tab EXCEPT ![t] = Loading(Back(tab[t].form))]
  /\ Overtake
  /\ UNCHANGED <<backend, live, signIns, cookie, adminCookie, clears, secrets>>

\* The session in the cookie has the scopes the form asks for.  It may not, if
\* the page with the form was rendered for an earlier session: the backend goes
\* by the role of now, the page the answer leads to by the cookie.
Covers(session, form) ==
  \A call \in Actions[form].calls : Client[call].scopes \subseteq session.scopes

\* Done: the flash message carries the secret the backend made, if any.
AnswerDone(t) ==
  LET form == tab[t].form
  IN  /\ tab[t].doing = "posting"
      /\ tab[t].session.token # 0
      /\ Accepts(form, tab[t].session.token)
      /\ \/ IsAdmin(form)
         \/ ~IsAdmin(form) /\ AllAdmitted(Actions[form].calls)
      /\ IF ~IsAdmin(form) /\ Actions[form].secret
           THEN /\ received < MaxSecrets
                /\ received' = received + 1
                /\ flash' = received'
                /\ disturbed' = (disturbed \/ Unsettled \/ ~Covers(cookie, form))
           ELSE /\ flash' = Notice
                /\ Overtake
                /\ UNCHANGED received
      /\ tab' = [tab EXCEPT ![t] = Loading(Back(form))]
      /\ UNCHANGED <<backend, live, signIns, cookie, adminCookie, clears,
                     shown>>

-----------------------------------------------------------------------------
(* Pages *)

\* The user goes to another page; an error left behind is not seen again.
Open(t, page) ==
  /\ tab[t].doing \in {"idle", "failed"}
  /\ page # tab[t].page
  /\ tab' = [tab EXCEPT ![t] = Loading(page)]
  /\ disturbed' = (disturbed \/ Withholds(t))
  /\ UNCHANGED <<backend, live, signIns, cookie, adminCookie, flash, clears,
                 secrets>>

\* The user loads the page once more that failed.
Reload(t) ==
  /\ tab[t].doing = "failed"
  /\ tab' = [tab EXCEPT ![t] = Loading(tab[t].page)]
  /\ UNCHANGED <<backend, live, signIns, cookie, adminCookie, flash, clears,
                 secrets, disturbed>>

\* A page with its banner, whose effect posts to /flash/clear.
Show(t, page, buttons) ==
  /\ tab' = [tab EXCEPT ![t] =
               Idle((page.offers \cup buttons) \cap Buttons)]
  /\ IF page.banner /\ flash # NoFlash
       THEN /\ clears < MaxClears
            /\ clears' = clears + 1
            /\ shown' = shown \cup ({flash} \cap 1 .. received)
       ELSE UNCHANGED <<shown, clears>>

\* Mutant: the error page clears the message it does not show.
MutShowError(t, buttons) ==
  /\ tab' = [tab EXCEPT ![t] = Failed(tab[t].page, buttons)]
  /\ IF flash # NoFlash
       THEN clears < MaxClears /\ clears' = clears + 1
       ELSE UNCHANGED clears
  /\ UNCHANGED shown

\* An error instead of the page: the flash message stays unseen.
ShowError(t, buttons) ==
  /\ tab' = [tab EXCEPT ![t] = Failed(tab[t].page, buttons)]
  /\ UNCHANGED <<shown, clears>>

Redirect(t, page) ==
  /\ tab' = [tab EXCEPT ![t] = Loading(page)]
  /\ UNCHANGED <<shown, clears>>

\* HomePage sends a browser with a session cookie to the overview, whether
\* or not the backend still accepts it.
RenderHome(t) ==
  /\ tab[t].page = "/"
  /\ IF cookie # NoSession
       THEN Redirect(t, "/overview")
       ELSE /\ tab' = [tab EXCEPT ![t] = Idle({"sign-in"})]
            /\ UNCHANGED <<shown, clears>>

\* SetupPage without a session cookie: the administrator's workspace.  With
\* the token of an administrator it asks the backend first.
RenderAdmin(t) ==
  /\ tab[t].page = "/setup"
  /\ cookie = NoSession
  /\ \/ /\ adminCookie = 0
        /\ Show(t, AdminWorkspace(FALSE), {"admin-sign-in"})
     \/ /\ adminCookie # 0
        /\ AdmitsAdmin(adminCookie, adminToken)
        /\ Show(t, AdminWorkspace(TRUE), {"admin-sign-out"})
     \/ /\ adminCookie # 0
        /\ ShowError(t, {})

\* A page of the partner.  OperationsLayout asks for the profile: it fails for
\* a session that has ended, and may fail for any other.  Then comes the frame
\* with the sign-out button (SetupPage has none), and in it the page, or an
\* error if one of its calls is refused, fails or times out.
RenderPage(t) ==
  LET path   == tab[t].page
      page   == PageAt(path, cookie, Account)
      layout == path # "/setup"
      frame  == IF layout THEN {"sign-out"} ELSE {}
  IN  /\ path \in Pages
      /\ cookie = NoSession => layout
      /\ IF cookie = NoSession
           THEN Redirect(t, "/")
           ELSE \/ ShowError(t, {})
                \/ /\ cookie.token \in live
                   /\ page.calls # {}
                   /\ ShowError(t, frame)
                \/ /\ cookie.token \in live
                   /\ AllAdmitted(page.calls)
                   /\ Show(t, page, frame)

Render(t) ==
  /\ tab[t].doing = "loading"
  /\ \/ RenderHome(t)
     \/ RenderAdmin(t)
     \/ RenderPage(t)
  /\ UNCHANGED <<backend, live, signIns, cookie, adminCookie, flash, received,
                 disturbed>>

-----------------------------------------------------------------------------
(* The flash cookie goes, by request or after five minutes, which is longer *)
(* than a page takes to load, but not than a user may look at an error.     *)

\* Mutant: a clear request nobody sent.
MutClearFlash ==
  /\ clears' = clears - 1
  /\ flash' = NoFlash
  /\ UNCHANGED <<backend, live, signIns, cookie, adminCookie, tab, secrets,
                 disturbed>>

ClearFlash ==
  /\ clears > 0
  /\ clears' = clears - 1
  /\ flash' = NoFlash
  /\ UNCHANGED <<backend, live, signIns, cookie, adminCookie, tab, secrets,
                 disturbed>>

FlashExpires ==
  /\ flash # NoFlash
  /\ \A t \in Tabs : tab[t].doing \in {"idle", "failed"}
  /\ flash' = NoFlash
  /\ disturbed' = (disturbed \/ \E t \in Tabs : Withholds(t))
  /\ UNCHANGED <<backend, live, signIns, cookie, adminCookie, clears, tab,
                 secrets>>

\* The session cookie and the admin cookie live for twelve hours.
CookieExpires ==
  /\ \/ cookie # NoSession /\ cookie' = NoSession /\ UNCHANGED adminCookie
     \/ adminCookie # 0 /\ adminCookie' = 0 /\ UNCHANGED cookie
  /\ Disturb
  /\ UNCHANGED <<backend, live, signIns, flash, clears, tab, secrets>>

-----------------------------------------------------------------------------
(* The world *)

Change ==
  /\ changes < MaxChanges
  /\ changes' = changes + 1
  /\ Disturb
  /\ UNCHANGED <<signIns, cookie, adminCookie, flash, clears, tab, secrets>>

\* An owner gives the user another role.
ChangeRole ==
  /\ Change
  /\ role' \in UserRoles \ {role}
  /\ UNCHANGED <<partner, live, adminToken>>

\* An administrator changes the partner.
ChangePartner ==
  /\ Change
  /\ partner' \in Partners \ {partner}
  /\ UNCHANGED <<role, live, adminToken>>

\* Sessions end: they expire, or the user is deactivated.
EndSessions ==
  /\ Change
  /\ live # {}
  /\ live' = {}
  /\ UNCHANGED <<partner, role, adminToken>>

\* The backend restarts with another admin token.
ChangeAdminToken ==
  /\ Change
  /\ adminToken' = adminToken + 1
  /\ UNCHANGED <<partner, role, live>>

-----------------------------------------------------------------------------
Next ==
  \/ \E t \in Tabs :
       \/ loginAction(t)
       \/ logoutAction(t)
       \/ adminSetupLoginAction(t)
       \/ adminSetupLogoutAction(t)
       \/ \E form \in Forms : Submit(t, form)
       \/ AnswerSignedOut(t)
       \/ AnswerUnauthorized(t)
       \/ AnswerFailed(t)
       \/ AnswerDone(t)
       \/ \E page \in Visited \cup {"/"} : Open(t, page)
       \/ Reload(t)
       \/ Render(t)
  \/ ClearFlash
  \/ FlashExpires
  \/ CookieExpires
  \/ ChangeRole
  \/ ChangePartner
  \/ EndSessions
  \/ ChangeAdminToken

Spec == Init /\ [][Next]_vars

-----------------------------------------------------------------------------
(* Properties *)

\* The session is one the backend accepts, and nobody has changed the user's
\* role since it began: the scopes it carries are those of the user.
UpToDate ==
  /\ cookie.token \in live
  /\ cookie.scopes = RoleScopes(role)

\* Every page the dashboard links to opens: the backend admits all the calls
\* it makes.  The scopes and modules of the navigation (dashboard-nav.tsx),
\* the conditions inside 34 pages and the guards of the backend's
\* controllers are written down three times.  The page of the lookup logs is
\* left out where the partner has no environment: it also asks for the
\* supported platforms, which the backend refuses such a partner.
NavigationIsHonest ==
  UpToDate =>
    \A path \in Reachable(cookie, Account) :
      \/ AllAdmitted(PageAt(path, cookie, Account).calls)
      \/ /\ path = "/resolution/logs"
         /\ partner.capabilities \cap {"sandbox", "production"} = {}

\* Every form a page offers is one the backend lets this user send, as the
\* partner stands; so the dashboard never asks for input it cannot use.
FormsAreHonest ==
  UpToDate =>
    \A path \in Reachable(cookie, Account) :
      \A form \in PageAt(path, cookie, Account).offers :
        AllAdmitted(Actions[form].calls)

\* A secret the backend made and told the dashboard of is shown: until then
\* the flash cookie holds it, and some tab is loading a page that shows it, or
\* has failed to, so that loading the page once more shows it (the error panels
\* leave the cookie alone).  It is lost only where something interferes while
\* it is unseen: an answer or a clear request of another form, a change of the
\* session, the role or the partner; the user turns away from the error, or
\* leaves it for the five minutes of the cookie; or where the form was posted
\* from a page of an earlier session, and the scopes of the session in the
\* cookie do not cover it.
SecretsAreShown ==
  ~disturbed =>
    \A secret \in 1 .. received \ shown :
      /\ flash = secret
      /\ \E t \in Tabs :
           tab[t].doing \in {"loading", "failed"} /\ Shows(tab[t].page)
=============================================================================
