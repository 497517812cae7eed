--------------------------- MODULE DashboardPages ----------------------------
(***************************************************************************)
(* The pages and the form actions of the dashboard.  A page is what one    *)
(* rendering of it amounts to, for a session s and a profile p:            *)
(*   calls   the client functions it awaits before it can render,          *)
(*   offers  the form actions it offers an enabled submit button for,      *)
(*   banner  whether it shows the flash message.                           *)
(* A page that is not open to the profile renders an explanation instead:  *)
(* it makes fewer calls, offers nothing and shows no banner.               *)
(***************************************************************************)
EXTENDS DashboardClient

When(condition, set) == IF condition THEN set ELSE {}

Page(calls, offers, banner) ==
  [calls |-> calls, offers |-> offers, banner |-> banner]

Profile == {"fetchPartnerProfile"}
ProfileAndMetadata == Profile \cup {"fetchPartnerDashboardMetadata"}

\* A page that first asks for `before` and goes on only when it is open.
Gated(open, before, calls, offers, banner) ==
  Page(before \cup When(open, calls), When(open, offers), open /\ banner)

\* Mutant: the stage is forgotten.
MutCanWrite(s, p, scope) == canAccessScope(s.scopes, {scope})

\* The registry may be written from an onboarding stage on.
CanWrite(s, p, scope) ==
  /\ canAccessScope(s.scopes, {scope})
  /\ hasReachedOnboardingStage(p.stage, "DATA_MAPPING_IN_PROGRESS")

-----------------------------------------------------------------------------
(* Overview, data feed, plan *)

OverviewPage(s, p) ==
  Page({"fetchOverview"} \cup Profile
         \cup When(canAccessModule(p, "data_feed"), {"fetchDataFeedHealth"}),
       {}, FALSE)

PlanUsagePage(s, p) == Page(Profile, {}, FALSE)

DataFeedHealthPage(s, p) ==
  Gated(canAccessModule(p, "data_feed"), Profile,
        {"fetchDataFeedHealth", "fetchPartnerDashboardMetadata"}, {}, FALSE)

-----------------------------------------------------------------------------
(* Keys and access *)

ApiKeysPage(s, p) ==
  Gated(/\ canAccessModule(p, "api_keys")
        /\ canAccessScope(s.scopes, {"partners:write"}),
        ProfileAndMetadata, {"fetchPartnerApiCredentials"},
        {"create-credential", "revoke-credential"}, TRUE)

SigningKeysPage(s, p) ==
  Gated(/\ canAccessModule(p, "signing_keys")
        /\ canAccessScope(s.scopes, {"partners:write"}),
        ProfileAndMetadata, {"fetchPartnerSigningKeys"},
        {"register-signing-key", "revoke-signing-key"}, TRUE)

TeamPage(s, p) ==
  Page({"fetchPartnerDashboardMetadata", "fetchPartnerUsers"},
       When(canAccessScope(s.scopes, {"team:write"}),
            {"invite-user", "update-user", "deactivate-user"}),
       TRUE)

SecurityPage(s, p) ==
  Page({"fetchPartnerSecuritySettings", "fetchAuditLogs"} \cup Profile,
       When(canAccessScope(s.scopes, {"security:write"}),
            {"update-security"}),
       TRUE)

-----------------------------------------------------------------------------
(* Resolution: the forms of these pages load the page again with a query,   *)
(* which then makes the lookup; it is among the calls of the page.          *)

LookupPage(p, lookups) ==
  Gated(canAccessModule(p, "resolution") /\ canRunOperationalResolution(p),
        ProfileAndMetadata, lookups, {}, FALSE)

ByRecipientPage(s, p) == LookupPage(p, {"resolveRecipient"})

ByAddressPage(s, p) ==
  [LookupPage(p, {"fetchSupportedPlatforms", "confirmRecipientByAddress"})
     EXCEPT !.offers = When(canRunOperationalResolution(p), {"platforms"})]

VerifyTransferPage(s, p) ==
  [LookupPage(p, {"fetchSupportedPlatforms", "verifyDestination",
                  "confirmRecipientByAddress"})
     EXCEPT !.offers = When(canRunOperationalResolution(p), {"platforms"})]

BatchPage(s, p) ==
  Gated(/\ canAccessModule(p, "resolution")
        /\ canAccessModule(p, "batch_verification")
        /\ canRunOperationalResolution(p),
        ProfileAndMetadata, {}, {"batch"}, FALSE)

ResolutionLogsPage(s, p) ==
  Gated(canAccessModule(p, "resolution"), ProfileAndMetadata,
        {"fetchResolutionLogs", "fetchSupportedPlatforms"}, {}, FALSE)

ResolutionLogPage(s, p) == Page({"fetchResolutionLog"}, {}, FALSE)

-----------------------------------------------------------------------------
(* The registry *)

RecipientsPage(s, p) ==
  Gated(canAccessModule(p, "registry"), ProfileAndMetadata,
        {"fetchRecipients", "fetchDataFeedHealth"},
        When(CanWrite(s, p, "recipients:write"), {"create-recipient"}), TRUE)

RecipientPage(s, p) ==
  Gated(canAccessModule(p, "registry"), Profile,
        {"fetchRecipient", "fetchDestinations", "fetchAttestations"},
        When(CanWrite(s, p, "recipients:write"),
             {"update-recipient", "disable-recipient"}), TRUE)

RecipientAttestationsPage(s, p) ==
  Gated(canAccessModule(p, "registry"), Profile,
        {"fetchRecipient", "fetchAttestations"}, {}, FALSE)

RecipientDestinationsPage(s, p) ==
  Gated(canAccessModule(p, "registry"), Profile,
        {"fetchRecipient", "fetchDestinations"}, {}, FALSE)

DestinationsPage(s, p) ==
  Gated(canAccessModule(p, "registry"), ProfileAndMetadata,
        {"fetchDestinations", "fetchRecipients", "fetchDataFeedHealth"},
        When(CanWrite(s, p, "destinations:write"), {"create-destination"}),
        TRUE)

DestinationPage(s, p) ==
  Gated(canAccessModule(p, "registry"), Profile, {"fetchDestination"},
        When(CanWrite(s, p, "destinations:write"),
             {"replace-destination", "revoke-destination"}), TRUE)

AttestationsPage(s, p) ==
  Gated(canAccessModule(p, "registry"), ProfileAndMetadata,
        {"fetchAttestations", "fetchDataFeedHealth"}, {}, FALSE)

AttestationPage(s, p) ==
  Gated(canAccessModule(p, "registry"), Profile, {"fetchAttestation"}, {},
        FALSE)

-----------------------------------------------------------------------------
(* Webhooks *)

WebhooksPage(s, p) ==
  Gated("webhooks" \in p.capabilities, ProfileAndMetadata,
        {"fetchWebhookEndpoints"},
        When(canAccessScope(s.scopes, {"webhooks:write"}),
             {"create-webhook"}), TRUE)

WebhookPage(s, p) ==
  Gated(canAccessModule(p, "webhooks"), Profile, {"fetchWebhookEndpoint"},
        When(canAccessScope(s.scopes, {"webhooks:write"}),
             {"test-webhook", "rotate-secret", "webhook-status"}), TRUE)

DeliveriesPage(s, p) ==
  Gated(canAccessModule(p, "webhooks"), ProfileAndMetadata,
        {"fetchWebhookDeliveries"}, {}, TRUE)

DeliveryPage(s, p) ==
  Gated(canAccessModule(p, "webhooks"), Profile, {"fetchWebhookDelivery"},
        When(canAccessScope(s.scopes, {"webhooks:replay"}),
             {"replay-delivery"}), TRUE)

-----------------------------------------------------------------------------
(* Audit, documentation, sandbox, onboarding *)

AuditLogsPage(s, p) ==
  Page({"fetchPartnerDashboardMetadata", "fetchAuditLogs"}, {}, FALSE)

AuditLogPage(s, p) == Page({"fetchAuditLog"}, {}, FALSE)

AuditExportsPage(s, p) ==
  Gated("auditExports" \in p.capabilities, ProfileAndMetadata,
        {"fetchAuditExports"}, {"create-export"}, TRUE)

DocsPage(s, p) == Page(ProfileAndMetadata, {}, FALSE)
ApiDocsPage(s, p) == Page(ProfileAndMetadata, {}, FALSE)
QuickstartPage(s, p) == Page(ProfileAndMetadata, {}, FALSE)

WebhookDocsPage(s, p) ==
  Page(ProfileAndMetadata
         \cup When(isDataContributorEnabled(p), {"fetchDataFeedHealth"}),
       {}, FALSE)

\* Mutant: the health of a feed is asked for whether or not there is one.
MutSandboxPage(s, p) ==
  Gated("sandbox" \in p.capabilities, ProfileAndMetadata,
        {"fetchDataFeedHealth"}, {}, FALSE)

SandboxPage(s, p) ==
  Gated("sandbox" \in p.capabilities, ProfileAndMetadata,
        When(isDataContributorEnabled(p), {"fetchDataFeedHealth"}), {}, FALSE)

\* /setup for a signed-in user.  Whether a request may be made or cancelled
\* also depends on the approval requests, which the profile reports.
OnboardingPage(s, p) ==
  Page(ProfileAndMetadata \cup {"fetchProductionApprovalRequests",
                                "fetchAvailableProductionCorridors"},
       When(canManageProductionApproval(p.role),
            {"request-production-approval", "cancel-production-approval"}),
       TRUE)

\* /setup for the administrator: the sign-in form and nothing else before
\* the token was accepted, the workspace with its banner afterwards.
AdminWorkspace(signedIn) ==
  Page(When(signedIn, {"fetchAdminPartners",
                       "fetchAdminProductionApprovalRequests",
                       "fetchAdminAvailableProductionCorridors",
                       "fetchAdminSetupMetadata"}),
       When(signedIn, {"create-partner", "create-owner-user",
                       "register-initial-signing-key",
                       "review-production-approval",
                       "update-partner-admin-state",
                       "update-production-corridor"}),
       signedIn)

Pages ==
  {"/overview", "/access/plan-usage", "/data-feed-health",
   "/resolution/by-recipient", "/resolution/by-address",
   "/resolution/verify-transfer", "/resolution/batch", "/resolution/logs",
   "/resolution/logs/id", "/recipients", "/recipients/id",
   "/recipients/id/attestations", "/recipients/id/destinations",
   "/destinations", "/destinations/id", "/attestations", "/attestations/id",
   "/webhooks", "/webhooks/id", "/webhooks/deliveries",
   "/webhooks/deliveries/id", "/access/api-keys", "/access/signing-keys",
   "/access/team", "/access/security", "/audit/logs", "/audit/logs/id",
   "/audit/exports", "/docs", "/docs/quickstart", "/docs/api",
   "/docs/webhooks", "/sandbox", "/setup"}

\* The folders of app/(ops): which page a path shows.
PageAt(path, s, p) ==
  CASE path = "/overview" -> OverviewPage(s, p)
    [] path = "/access/plan-usage" -> PlanUsagePage(s, p)
    [] path = "/data-feed-health" -> DataFeedHealthPage(s, p)
    [] path = "/resolution/by-recipient" -> ByRecipientPage(s, p)
    [] path = "/resolution/by-address" -> ByAddressPage(s, p)
    [] path = "/resolution/verify-transfer" -> VerifyTransferPage(s, p)
    [] path = "/resolution/batch" -> BatchPage(s, p)
    [] path = "/resolution/logs" -> ResolutionLogsPage(s, p)
    [] path = "/resolution/logs/id" -> ResolutionLogPage(s, p)
    [] path = "/recipients" -> RecipientsPage(s, p)
    [] path = "/recipients/id" -> RecipientPage(s, p)
    [] path = "/recipients/id/attestations" -> RecipientAttestationsPage(s, p)
    [] path = "/recipients/id/destinations" -> RecipientDestinationsPage(s, p)
    [] path = "/destinations" -> DestinationsPage(s, p)
    [] path = "/destinations/id" -> DestinationPage(s, p)
    [] path = "/attestations" -> AttestationsPage(s, p)
    [] path = "/attestations/id" -> AttestationPage(s, p)
    [] path = "/webhooks" -> WebhooksPage(s, p)
    [] path = "/webhooks/id" -> WebhookPage(s, p)
    [] path = "/webhooks/deliveries" -> DeliveriesPage(s, p)
    [] path = "/webhooks/deliveries/id" -> DeliveryPage(s, p)
    [] path = "/access/api-keys" -> ApiKeysPage(s, p)
    [] path = "/access/signing-keys" -> SigningKeysPage(s, p)
    [] path = "/access/team" -> TeamPage(s, p)
    [] path = "/access/security" -> SecurityPage(s, p)
    [] path = "/audit/logs" -> AuditLogsPage(s, p)
    [] path = "/audit/logs/id" -> AuditLogPage(s, p)
    [] path = "/audit/exports" -> AuditExportsPage(s, p)
    [] path = "/docs" -> DocsPage(s, p)
    [] path = "/docs/quickstart" -> QuickstartPage(s, p)
    [] path = "/docs/api" -> ApiDocsPage(s, p)
    [] path = "/docs/webhooks" -> WebhookDocsPage(s, p)
    [] path = "/sandbox" -> SandboxPage(s, p)
    [] path = "/setup" -> OnboardingPage(s, p)
-----------------------------------------------------------------------------
(* Navigation.  An item is shown when the session holds its scopes and the *)
(* profile has its module; the rows of a list link to their details.       *)

Item(module, scopes) == [module |-> module, scopes |-> scopes]

Linked ==
  {"/overview", "/access/plan-usage", "/data-feed-health",
   "/resolution/by-recipient", "/resolution/by-address",
   "/resolution/verify-transfer", "/resolution/batch", "/resolution/logs",
   "/recipients", "/destinations", "/attestations", "/webhooks",
   "/webhooks/deliveries", "/access/api-keys", "/access/signing-keys",
   "/access/team", "/access/security", "/audit/logs", "/audit/exports",
   "/docs/quickstart", "/docs/api", "/docs/webhooks", "/sandbox"}

NavigationItems ==
  [path \in Linked |->
     CASE path = "/overview" -> Item("overview", {})
       [] path = "/access/plan-usage" -> Item("plan_usage", {"partners:read"})
       [] path = "/data-feed-health" -> Item("data_feed", {"partners:read"})
       [] path \in {"/resolution/by-recipient", "/resolution/by-address",
                    "/resolution/verify-transfer", "/resolution/logs"} ->
            Item("resolution", {"resolution:read"})
       [] path = "/resolution/batch" ->
            Item("batch_verification", {"resolution:batch"})
       [] path = "/recipients" -> Item("registry", {"recipients:read"})
       [] path = "/destinations" -> Item("registry", {"destinations:read"})
       [] path = "/attestations" -> Item("registry", {"attestations:read"})
       [] path \in {"/webhooks", "/webhooks/deliveries"} ->
            Item("webhooks", {"webhooks:read"})
       [] path = "/access/api-keys" -> Item("api_keys", {"partners:write"})
       [] path = "/access/signing-keys" ->
            Item("signing_keys", {"partners:write"})
       [] path = "/access/team" -> Item("team", {"team:read"})
       [] path = "/access/security" -> Item("security", {"security:read"})
       [] path = "/audit/logs" -> Item("audit", {"audit:read"})
       [] path = "/audit/exports" -> Item("audit_exports", {"audit:export"})
       [] path \in {"/docs/quickstart", "/docs/api", "/docs/webhooks"} ->
            Item("docs", {})
       [] path = "/sandbox" -> Item("sandbox", {})]

Shown(s, p) ==
  {path \in Linked :
     /\ canAccessScope(s.scopes, NavigationItems[path].scopes)
     /\ canAccessModule(p, NavigationItems[path].module)}

\* The links of the rows and the buttons of a page, where they lead to pages
\* that are not in the navigation.
Details ==
  [path \in Pages |->
     CASE path = "/resolution/logs" -> {"/resolution/logs/id"}
       [] path = "/recipients" ->
            {"/recipients/id", "/recipients/id/attestations",
             "/recipients/id/destinations"}
       [] path = "/destinations" -> {"/destinations/id"}
       [] path = "/attestations" -> {"/attestations/id"}
       [] path = "/webhooks" -> {"/webhooks/id"}
       [] path = "/webhooks/deliveries" -> {"/webhooks/deliveries/id"}
       [] path = "/audit/logs" -> {"/audit/logs/id"}
       [] path = "/overview" -> {"/setup"}
       [] OTHER -> {}]

\* Where a user can get by the links of the dashboard.
Reachable(s, p) ==
  Shown(s, p) \cup UNION {Details[path] : path \in Shown(s, p)}

-----------------------------------------------------------------------------
(* The form actions (app/.../actions/.../route.ts).  Each reads the session *)
(* cookie, calls the backend with it and answers with a redirect back to a  *)
(* page and a flash message, which carries the secret where there is one.   *)

FormAction(calls, back) == [calls |-> calls, back |-> back, secret |-> FALSE]
SecretAction(calls, back) == [calls |-> calls, back |-> back, secret |-> TRUE]

CreateCredentialAction ==
  SecretAction({"issuePartnerApiCredential"}, "/access/api-keys")
RevokeCredentialAction ==
  FormAction({"revokePartnerApiCredential"}, "/access/api-keys")
RegisterSigningKeyAction ==
  FormAction({"registerPartnerSigningKey"}, "/access/signing-keys")
RevokeSigningKeyAction ==
  FormAction({"revokePartnerSigningKey"}, "/access/signing-keys")
InviteUserAction == SecretAction({"invitePartnerUser"}, "/access/team")
UpdateUserAction == FormAction({"updatePartnerUser"}, "/access/team")
DeactivateUserAction == FormAction({"deactivatePartnerUser"}, "/access/team")
UpdateSecurityAction ==
  FormAction({"updatePartnerSecuritySettings"}, "/access/security")

CreateRecipientAction == FormAction({"createRecipient"}, "/recipients")
UpdateRecipientAction == FormAction({"updateRecipient"}, "/recipients/id")
DisableRecipientAction == FormAction({"disableRecipient"}, "/recipients/id")
CreateDestinationAction == FormAction({"createDestination"}, "/destinations")
ReplaceDestinationAction ==
  FormAction({"replaceDestination"}, "/destinations/id")
RevokeDestinationAction ==
  FormAction({"revokeDestination"}, "/destinations/id")

CreateWebhookAction == SecretAction({"createWebhookEndpoint"}, "/webhooks")
TestWebhookAction == FormAction({"testWebhookEndpoint"}, "/webhooks/id")
RotateSecretAction ==
  SecretAction({"rotateWebhookSigningSecret"}, "/webhooks/id")
\* DISABLED goes to one route and the other states to another.
WebhookStatusAction ==
  FormAction({"disableWebhookEndpoint", "updateWebhookEndpoint"},
             "/webhooks/id")
ReplayDeliveryAction ==
  FormAction({"replayWebhookDelivery"}, "/webhooks/deliveries/id")

CreateExportAction == FormAction({"createAuditExport"}, "/audit/exports")
RequestApprovalAction == FormAction({"requestProductionApproval"}, "/setup")
CancelApprovalAction ==
  FormAction({"cancelProductionApprovalRequest"}, "/setup")

\* Called by scripts of the page, which stays where it is: no flash message.
PlatformsAction == FormAction({"fetchSupportedPlatforms"}, "")
BatchAction ==
  FormAction({"fetchPartnerDashboardMetadata", "batchVerifyDestinations"}, "")

PartnerForms ==
  {"create-credential", "revoke-credential", "register-signing-key",
   "revoke-signing-key", "invite-user", "update-user", "deactivate-user",
   "update-security", "create-recipient", "update-recipient",
   "disable-recipient", "create-destination", "replace-destination",
   "revoke-destination", "create-webhook", "test-webhook", "rotate-secret",
   "webhook-status", "replay-delivery", "create-export",
   "request-production-approval", "cancel-production-approval", "platforms",
   "batch"}

Actions ==
  [form \in PartnerForms |->
     CASE form = "create-credential" -> CreateCredentialAction
       [] form = "revoke-credential" -> RevokeCredentialAction
       [] form = "register-signing-key" -> RegisterSigningKeyAction
       [] form = "revoke-signing-key" -> RevokeSigningKeyAction
       [] form = "invite-user" -> InviteUserAction
       [] form = "update-user" -> UpdateUserAction
       [] form = "deactivate-user" -> DeactivateUserAction
       [] form = "update-security" -> UpdateSecurityAction
       [] form = "create-recipient" -> CreateRecipientAction
       [] form = "update-recipient" -> UpdateRecipientAction
       [] form = "disable-recipient" -> DisableRecipientAction
       [] form = "create-destination" -> CreateDestinationAction
       [] form = "replace-destination" -> ReplaceDestinationAction
       [] form = "revoke-destination" -> RevokeDestinationAction
       [] form = "create-webhook" -> CreateWebhookAction
       [] form = "test-webhook" -> TestWebhookAction
       [] form = "rotate-secret" -> RotateSecretAction
       [] form = "webhook-status" -> WebhookStatusAction
       [] form = "replay-delivery" -> ReplayDeliveryAction
       [] form = "create-export" -> CreateExportAction
       [] form = "request-production-approval" -> RequestApprovalAction
       [] form = "cancel-production-approval" -> CancelApprovalAction
       [] form = "platforms" -> PlatformsAction
       [] form = "batch" -> BatchAction]

\* The actions of the administrator's workspace return to /setup.
AdminForms ==
  {"create-partner", "create-owner-user", "register-initial-signing-key",
   "review-production-approval", "update-partner-admin-state",
   "update-production-corridor"}

AdminActions ==
  [form \in AdminForms |->
     CASE form = "create-partner" -> {"createPartner"}
       [] form = "create-owner-user" -> {"createOwnerUser"}
       [] form = "register-initial-signing-key" ->
            {"registerInitialSigningKey"}
       [] form = "review-production-approval" ->
            {"reviewAdminProductionApprovalRequest"}
       [] form = "update-partner-admin-state" ->
            {"updateAdminPartnerState"}
       [] form = "update-production-corridor" ->
            {"updateAdminPartnerProductionCorridor"}]
=============================================================================
