------------------------------ MODULE ApiRoutes ------------------------------
(***************************************************************************)
(* Who may call which route of the backend.  Every route names the scopes  *)
(* its caller must hold (@RequireCredentialScopes) and up to two access    *)
(* policies (@RequirePartnerAccessPolicy), one of its controller and one   *)
(* of its handler; PartnerApiKeyAuthGuard admits a caller that holds the   *)
(* scopes and satisfies both policies.                                     *)
(*                                                                         *)
(* A caller is a record of what authenticatePartnerAccessToken puts in     *)
(* request.authenticatedPartner: the kind of actor, the role of a          *)
(* dashboard user, the scopes, and the partner's capabilities, plan and    *)
(* onboarding stage.                                                       *)
(***************************************************************************)
EXTENDS Naturals, FiniteSets

Roles == {"OWNER", "ADMIN", "DEVELOPER", "ANALYST", "READ_ONLY"}

ActorTypes == {"API_CREDENTIAL", "PARTNER_USER"}

Capabilities ==
  {"apiConsumer", "dataPartner", "fullAttestation", "webhooks",
   "batchVerification", "auditExports", "sandbox", "production"}

Plans == {"STARTER", "GROWTH", "SCALE", "ENTERPRISE"}

\* The order of the stages (getOnboardingStageRank).
StageRank ==
  [ACCOUNT_CREATED           |-> 0,
   API_ACCESS_READY          |-> 1,
   TRUST_SETUP_READY         |-> 2,
   DATA_MAPPING_IN_PROGRESS  |-> 3,
   BOOTSTRAP_IMPORT_COMPLETED |-> 4,
   LIVE_FEED_CONNECTED       |-> 5,
   PRODUCTION_APPROVED       |-> 6]

Stages == DOMAIN StageRank

-----------------------------------------------------------------------------
(* The scopes of a dashboard user follow from the role alone. *)

ReadScopes ==
  {"partners:read", "attestations:read", "recipients:read",
   "destinations:read", "resolution:read", "webhooks:read", "audit:read"}

DeveloperScopes ==
  ReadScopes \cup {"partners:write", "resolution:batch", "webhooks:write",
                   "webhooks:replay"}

AdminScopes ==
  DeveloperScopes \cup {"attestations:write", "recipients:write",
                        "destinations:write", "team:read", "team:write",
                        "security:read", "audit:export"}

OwnerScopes == AdminScopes \cup {"security:write"}

\* getPartnerUserScopes.
RoleScopes(role) ==
  CASE role = "OWNER" -> OwnerScopes
    [] role = "ADMIN" -> AdminScopes
    [] role = "DEVELOPER" -> DeveloperScopes
    [] role \in {"ANALYST", "READ_ONLY"} -> ReadScopes

\* The catalogue of plans: those whose entitlements include bulk
\* verification, the one entitlement a route asks for.
BulkPlans == {"SCALE", "ENTERPRISE"}

-----------------------------------------------------------------------------
(* Policies.  NoPolicy asks for nothing; the others refine it. *)

NoPolicy ==
  [actorTypes  |-> ActorTypes,
   anyOf       |-> {},
   allOf       |-> {},
   bulk        |-> FALSE,
   stage       |-> "ACCOUNT_CREATED",
   roles       |-> Roles,
   operational |-> FALSE]

AnyOf(capabilities) == [NoPolicy EXCEPT !.anyOf = capabilities]
AllOf(capabilities) == [NoPolicy EXCEPT !.allOf = capabilities]
UserWith(roles) ==
  [NoPolicy EXCEPT !.actorTypes = {"PARTNER_USER"}, !.roles = roles]

Contributors == {"dataPartner", "fullAttestation"}
Consumers == Contributors \cup {"apiConsumer"}
Managers == {"OWNER", "ADMIN"}
Builders == Managers \cup {"DEVELOPER"}

\* assertPartnerAccessPolicy, one conjunct per refusal.
Satisfies(caller, policy) ==
  /\ caller.actorType \in policy.actorTypes
  /\ policy.anyOf # {} => policy.anyOf \cap caller.capabilities # {}
  /\ policy.allOf \subseteq caller.capabilities
  /\ policy.bulk => caller.plan \in BulkPlans
  /\ StageRank[caller.stage] >= StageRank[policy.stage]
  /\ caller.actorType = "PARTNER_USER" => caller.role \in policy.roles
  /\ policy.operational =>
       {"sandbox", "production"} \cap caller.capabilities # {}

Route(scopes, policies) == [scopes |-> scopes, policies |-> policies]

\* canActivate, for a caller whose token was accepted: the scopes first,
\* then the policies of the controller and of the handler.
Admits(caller, route) ==
  /\ route.scopes \subseteq caller.scopes
  /\ \A policy \in route.policies : Satisfies(caller, policy)

-----------------------------------------------------------------------------
(* partner-account.controller.ts *)

GetProfile == Route({"partners:read"}, {})
GetDashboardMetadata == Route({"partners:read"}, {})
GetPartnerPlanUsage == Route({"partners:read"}, {})

Credentials == [AnyOf(Consumers) EXCEPT !.roles = Builders]
ListApiCredentials == Route({"partners:read"}, {Credentials})
CreateApiCredential == Route({"partners:write"}, {Credentials})
RevokeApiCredential == Route({"partners:write"}, {Credentials})

SigningKeys == [AnyOf(Contributors) EXCEPT !.roles = Builders]
ListSigningKeys == Route({"partners:read"}, {SigningKeys})
RegisterSigningKey == Route({"partners:write"}, {SigningKeys})
RevokeSigningKey == Route({"partners:write"}, {SigningKeys})

ListPartnerUsers == Route({"team:read"}, {UserWith(Managers)})
InvitePartnerUser == Route({"team:write"}, {UserWith(Managers)})
UpdatePartnerUser == Route({"team:write"}, {UserWith(Managers)})
DeactivatePartnerUser == Route({"team:write"}, {UserWith(Managers)})

GetSecuritySettings == Route({"security:read"}, {UserWith(Managers)})
UpdateSecuritySettings == Route({"security:write"}, {UserWith({"OWNER"})})

ListProductionApprovalRequests == Route({"partners:read"}, {UserWith(Roles)})
ListProductionCorridors == Route({"partners:read"}, {UserWith(Roles)})
ListAvailableProductionCorridors ==
  Route({"partners:read"}, {UserWith(Roles)})
RequestProductionApproval == Route({"partners:write"}, {UserWith(Managers)})
CancelProductionApprovalRequest ==
  Route({"partners:write"}, {UserWith(Managers)})

-----------------------------------------------------------------------------
(* overview, platforms, data-feed-health, audit *)

GetOverview == Route({"partners:read"}, {})

ListPlatforms ==
  Route({"resolution:read"},
        {[AnyOf(Consumers) EXCEPT !.operational = TRUE]})

GetDataFeedHealth == Route({"partners:read"}, {AnyOf(Contributors)})

ListAuditLogs == Route({"audit:read"}, {})
GetAuditLog == Route({"audit:read"}, {})

\* The policy of AuditExportsController.
Exporters == [UserWith(Managers) EXCEPT !.allOf = {"auditExports"}]
ListAuditExports == Route({"audit:export"}, {Exporters})
GetAuditExport == Route({"audit:export"}, {Exporters})
CreateAuditExport == Route({"audit:export"}, {Exporters})

-----------------------------------------------------------------------------
(* attestations, destinations, recipients *)

Mapping == [NoPolicy EXCEPT !.stage = "DATA_MAPPING_IN_PROGRESS"]

ListAttestations == Route({"attestations:read"}, {AnyOf(Contributors)})
GetAttestation == Route({"attestations:read"}, {AnyOf(Contributors)})
CreateAttestation ==
  Route({"attestations:write"},
        {[Mapping EXCEPT !.allOf = {"fullAttestation"}]})

ListDestinations == Route({"destinations:read"}, {AnyOf(Contributors)})
GetDestination == Route({"destinations:read"}, {AnyOf(Contributors)})
WriteDestination ==
  Route({"destinations:write"}, {AnyOf(Contributors), Mapping})
CreateDestination == WriteDestination
RevokeDestination == WriteDestination
ReplaceDestination == WriteDestination

ListRecipients == Route({"recipients:read"}, {AnyOf(Contributors)})
GetRecipient == Route({"recipients:read"}, {AnyOf(Contributors)})
WriteRecipient == Route({"recipients:write"}, {AnyOf(Contributors), Mapping})
CreateRecipient == WriteRecipient
UpdateRecipient == WriteRecipient
DisableRecipient == WriteRecipient

-----------------------------------------------------------------------------
(* resolution *)

Operational == [NoPolicy EXCEPT !.operational = TRUE]

ListResolutionLogs == Route({"resolution:read"}, {AnyOf(Consumers)})
GetResolutionLog == Route({"resolution:read"}, {AnyOf(Consumers)})

Lookup == Route({"resolution:read"}, {AnyOf(Consumers), Operational})
ResolveRecipient == Lookup
ResolveRecipientByRoute == Lookup
ConfirmRecipientByAddress == Lookup
VerifyDestination == Lookup
VerifyTransfer == Lookup

BatchVerify ==
  Route({"resolution:batch"},
        {AnyOf(Consumers),
         [Operational EXCEPT !.allOf = {"batchVerification"}, !.bulk = TRUE]})

-----------------------------------------------------------------------------
(* webhooks *)

Hooks == AllOf({"webhooks"})

ListWebhookEndpoints == Route({"webhooks:read"}, {Hooks})
ListWebhookDeliveries == Route({"webhooks:read"}, {Hooks})
GetWebhookDelivery == Route({"webhooks:read"}, {Hooks})
GetWebhookEndpoint == Route({"webhooks:read"}, {Hooks})
CreateWebhookEndpoint == Route({"webhooks:write"}, {Hooks})
UpdateWebhookEndpoint == Route({"webhooks:write"}, {Hooks})
RotateWebhookSigningSecret == Route({"webhooks:write"}, {Hooks})
TestWebhookEndpoint == Route({"webhooks:write"}, {Hooks})
DisableWebhookEndpoint == Route({"webhooks:write"}, {Hooks})
ReplayWebhookDelivery == Route({"webhooks:replay"}, {Hooks})
-----------------------------------------------------------------------------
(* partners.controller.ts and the delivery trigger of the webhooks: guarded  *)
(* by the admin token instead.                                               *)

AdminRoutes ==
  {"getSetupStatus", "getSetupMetadata", "createPartner",
   "createApiCredential", "registerSigningKey", "createPartnerUser",
   "listPartners", "listAvailableProductionCorridors",
   "listProductionApprovalRequests", "reviewProductionApprovalRequest",
   "updatePartnerAdminState", "listPartnerProductionCorridors",
   "updatePartnerProductionCorridor"}

\* AdminTokenAuthGuard compares the token with the configured one.
AdmitsAdmin(token, configured) == token = configured
=============================================================================
