--------------------------- MODULE DashboardClient ---------------------------
(***************************************************************************)
(* The API client of the dashboard (lib/vervet-api.ts): the route each     *)
(* client function calls, and the questions the pages ask of the profile   *)
(* and of the session cookie before they call it.                          *)
(*                                                                         *)
(* A profile is what GET /partners/me says of the partner and its user at  *)
(* the moment of the call; a session is what the cookie says, which holds  *)
(* the scopes of the sign-in.                                              *)
(***************************************************************************)
EXTENDS ApiRoutes

AccountClient ==
  [fetchPartnerProfile               |-> GetProfile,
   fetchPartnerPlanUsage             |-> GetPartnerPlanUsage,
   fetchPartnerDashboardMetadata     |-> GetDashboardMetadata,
   fetchPartnerProductionCorridors   |-> ListProductionCorridors,
   fetchAvailableProductionCorridors |-> ListAvailableProductionCorridors,
   fetchSupportedPlatforms           |-> ListPlatforms,
   fetchOverview                     |-> GetOverview,
   fetchDataFeedHealth               |-> GetDataFeedHealth]

AccessClient ==
  [fetchPartnerApiCredentials   |-> ListApiCredentials,
   issuePartnerApiCredential    |-> CreateApiCredential,
   revokePartnerApiCredential   |-> RevokeApiCredential,
   fetchPartnerSigningKeys      |-> ListSigningKeys,
   registerPartnerSigningKey    |-> RegisterSigningKey,
   revokePartnerSigningKey      |-> RevokeSigningKey,
   fetchPartnerUsers            |-> ListPartnerUsers,
   invitePartnerUser            |-> InvitePartnerUser,
   updatePartnerUser            |-> UpdatePartnerUser,
   deactivatePartnerUser        |-> DeactivatePartnerUser]

PolicyClient ==
  [fetchPartnerSecuritySettings    |-> GetSecuritySettings,
   updatePartnerSecuritySettings   |-> UpdateSecuritySettings,
   fetchProductionApprovalRequests |-> ListProductionApprovalRequests,
   requestProductionApproval       |-> RequestProductionApproval,
   cancelProductionApprovalRequest |-> CancelProductionApprovalRequest]

ResolutionClient ==
  [resolveRecipient          |-> ResolveRecipientByRoute,
   confirmRecipientByAddress |-> ConfirmRecipientByAddress,
   verifyDestination         |-> VerifyTransfer,
   batchVerifyDestinations   |-> BatchVerify,
   fetchResolutionLogs       |-> ListResolutionLogs,
   fetchResolutionLog        |-> GetResolutionLog]

RecipientClient ==
  [fetchRecipients  |-> ListRecipients,
   fetchRecipient   |-> GetRecipient,
   createRecipient  |-> CreateRecipient,
   updateRecipient  |-> UpdateRecipient,
   disableRecipient |-> DisableRecipient]

DestinationClient ==
  [fetchDestinations  |-> ListDestinations,
   fetchDestination   |-> GetDestination,
   createDestination  |-> CreateDestination,
   revokeDestination  |-> RevokeDestination,
   replaceDestination |-> ReplaceDestination,
   fetchAttestations  |-> ListAttestations,
   fetchAttestation   |-> GetAttestation]

WebhookClient ==
  [fetchWebhookEndpoints      |-> ListWebhookEndpoints,
   fetchWebhookEndpoint       |-> GetWebhookEndpoint,
   createWebhookEndpoint      |-> CreateWebhookEndpoint,
   updateWebhookEndpoint      |-> UpdateWebhookEndpoint,
   rotateWebhookSigningSecret |-> RotateWebhookSigningSecret,
   disableWebhookEndpoint     |-> DisableWebhookEndpoint,
   testWebhookEndpoint        |-> TestWebhookEndpoint,
   fetchWebhookDeliveries     |-> ListWebhookDeliveries,
   fetchWebhookDelivery       |-> GetWebhookDelivery,
   replayWebhookDelivery      |-> ReplayWebhookDelivery]

AuditClient ==
  [fetchAuditLogs     |-> ListAuditLogs,
   fetchAuditLog      |-> GetAuditLog,
   fetchAuditExports  |-> ListAuditExports,
   createAuditExport  |-> CreateAuditExport,
   fetchAuditExport   |-> GetAuditExport]

Client ==
  [call \in UNION {DOMAIN AccountClient, DOMAIN AccessClient,
                   DOMAIN PolicyClient, DOMAIN ResolutionClient,
                   DOMAIN RecipientClient, DOMAIN DestinationClient,
                   DOMAIN WebhookClient, DOMAIN AuditClient} |->
     CASE call \in DOMAIN AccountClient -> AccountClient[call]
       [] call \in DOMAIN AccessClient -> AccessClient[call]
       [] call \in DOMAIN PolicyClient -> PolicyClient[call]
       [] call \in DOMAIN ResolutionClient -> ResolutionClient[call]
       [] call \in DOMAIN RecipientClient -> RecipientClient[call]
       [] call \in DOMAIN DestinationClient -> DestinationClient[call]
       [] call \in DOMAIN WebhookClient -> WebhookClient[call]
       [] call \in DOMAIN AuditClient -> AuditClient[call]]

\* The functions that carry the admin token.
AdminClient ==
  [verifyAdminSetupToken                 |-> "getSetupStatus",
   createPartner                         |-> "createPartner",
   createOwnerUser                       |-> "createPartnerUser",
   registerInitialSigningKey             |-> "registerSigningKey",
   fetchAdminPartners                    |-> "listPartners",
   fetchAdminAvailableProductionCorridors
                                         |-> "listAvailableProductionCorridors",
   fetchAdminSetupMetadata               |-> "getSetupMetadata",
   fetchAdminProductionApprovalRequests  |-> "listProductionApprovalRequests",
   reviewAdminProductionApprovalRequest  |-> "reviewProductionApprovalRequest",
   updateAdminPartnerState               |-> "updatePartnerAdminState",
   updateAdminPartnerProductionCorridor  |-> "updatePartnerProductionCorridor"]

-----------------------------------------------------------------------------
(* What the pages ask. *)

canAccessScope(scopes, required) == required \subseteq scopes

isDataContributorEnabled(profile) ==
  {"dataPartner", "fullAttestation"} \cap profile.capabilities # {}

hasReachedOnboardingStage(current, required) ==
  StageRank[current] >= StageRank[required]

resolutionEnabled(profile) ==
  "apiConsumer" \in profile.capabilities \/ isDataContributorEnabled(profile)

canAccessModule(profile, module) ==
  CASE module \in {"overview", "plan_usage", "docs"} -> TRUE
    [] module \in {"data_feed", "registry", "signing_keys"} ->
         isDataContributorEnabled(profile)
    [] module \in {"resolution", "api_keys"} -> resolutionEnabled(profile)
    [] module = "batch_verification" ->
         /\ resolutionEnabled(profile)
         /\ "batchVerification" \in profile.capabilities
         /\ profile.plan \in BulkPlans
    [] module \in {"webhooks", "sandbox"} -> module \in profile.capabilities
    [] module = "team" -> canAccessScope(profile.scopes, {"team:read"})
    [] module = "security" -> canAccessScope(profile.scopes, {"security:read"})
    [] module = "audit" -> canAccessScope(profile.scopes, {"audit:read"})
    [] module = "audit_exports" ->
         /\ "auditExports" \in profile.capabilities
         /\ canAccessScope(profile.scopes, {"audit:export"})

canRunOperationalResolution(profile) ==
  /\ canAccessModule(profile, "resolution")
  /\ {"sandbox", "production"} \cap profile.capabilities # {}

canManageProductionApproval(role) == role \in {"OWNER", "ADMIN"}
=============================================================================
