--------------------------- MODULE DashboardProofs ----------------------------
(***************************************************************************)
(* What the dashboard promises its users, for every partner, role and      *)
(* session, and any number of tabs.                                        *)
(*                                                                         *)
(* First the pages.  What a page asks before it calls the backend is       *)
(* compared with what the guard of the backend asks of the call: the       *)
(* meaning of the scopes and of each policy, then of each route, then page *)
(* by page.  The backend knows more than the session, so this needs what a *)
(* session is worth (UpToDate) and what holds of every partner.            *)
(***************************************************************************)
EXTENDS Dashboard, TLAPS

\* The functions of each part of the client.
LEMMA ClientFunctions ==
  /\ DOMAIN AccountClient =
       {"fetchPartnerProfile", "fetchPartnerPlanUsage",
        "fetchPartnerDashboardMetadata", "fetchPartnerProductionCorridors",
        "fetchAvailableProductionCorridors", "fetchSupportedPlatforms",
        "fetchOverview", "fetchDataFeedHealth"}
  /\ DOMAIN AccessClient =
       {"fetchPartnerApiCredentials", "issuePartnerApiCredential",
        "revokePartnerApiCredential", "fetchPartnerSigningKeys",
        "registerPartnerSigningKey", "revokePartnerSigningKey",
        "fetchPartnerUsers", "invitePartnerUser", "updatePartnerUser",
        "deactivatePartnerUser"}
  /\ DOMAIN PolicyClient =
       {"fetchPartnerSecuritySettings", "updatePartnerSecuritySettings",
        "fetchProductionApprovalRequests", "requestProductionApproval",
        "cancelProductionApprovalRequest"}
  /\ DOMAIN ResolutionClient =
       {"resolveRecipient", "confirmRecipientByAddress", "verifyDestination",
        "batchVerifyDestinations", "fetchResolutionLogs",
        "fetchResolutionLog"}
  /\ DOMAIN RecipientClient =
       {"fetchRecipients", "fetchRecipient", "createRecipient",
        "updateRecipient", "disableRecipient"}
  /\ DOMAIN DestinationClient =
       {"fetchDestinations", "fetchDestination", "createDestination",
        "revokeDestination", "replaceDestination", "fetchAttestations",
        "fetchAttestation"}
  /\ DOMAIN WebhookClient =
       {"fetchWebhookEndpoints", "fetchWebhookEndpoint",
        "createWebhookEndpoint", "updateWebhookEndpoint",
        "rotateWebhookSigningSecret", "disableWebhookEndpoint",
        "testWebhookEndpoint", "fetchWebhookDeliveries",
        "fetchWebhookDelivery", "replayWebhookDelivery"}
  /\ DOMAIN AuditClient =
       {"fetchAuditLogs", "fetchAuditLog", "fetchAuditExports",
        "createAuditExport", "fetchAuditExport"}
<1>1. DOMAIN AccountClient =
       {"fetchPartnerProfile", "fetchPartnerPlanUsage",
        "fetchPartnerDashboardMetadata", "fetchPartnerProductionCorridors",
        "fetchAvailableProductionCorridors", "fetchSupportedPlatforms",
        "fetchOverview", "fetchDataFeedHealth"}
  BY DEF AccountClient
<1>2. DOMAIN AccessClient =
       {"fetchPartnerApiCredentials", "issuePartnerApiCredential",
        "revokePartnerApiCredential", "fetchPartnerSigningKeys",
        "registerPartnerSigningKey", "revokePartnerSigningKey",
        "fetchPartnerUsers", "invitePartnerUser", "updatePartnerUser",
        "deactivatePartnerUser"}
  BY DEF AccessClient
<1>3. DOMAIN PolicyClient =
       {"fetchPartnerSecuritySettings", "updatePartnerSecuritySettings",
        "fetchProductionApprovalRequests", "requestProductionApproval",
        "cancelProductionApprovalRequest"}
  BY DEF PolicyClient
<1>4. DOMAIN ResolutionClient =
       {"resolveRecipient", "confirmRecipientByAddress", "verifyDestination",
        "batchVerifyDestinations", "fetchResolutionLogs",
        "fetchResolutionLog"}
  BY DEF ResolutionClient
<1>5. DOMAIN RecipientClient =
       {"fetchRecipients", "fetchRecipient", "createRecipient",
        "updateRecipient", "disableRecipient"}
  BY DEF RecipientClient
<1>6. DOMAIN DestinationClient =
       {"fetchDestinations", "fetchDestination", "createDestination",
        "revokeDestination", "replaceDestination", "fetchAttestations",
        "fetchAttestation"}
  BY DEF DestinationClient
<1>7. DOMAIN WebhookClient =
       {"fetchWebhookEndpoints", "fetchWebhookEndpoint",
        "createWebhookEndpoint", "updateWebhookEndpoint",
        "rotateWebhookSigningSecret", "disableWebhookEndpoint",
        "testWebhookEndpoint", "fetchWebhookDeliveries",
        "fetchWebhookDelivery", "replayWebhookDelivery"}
  BY DEF WebhookClient
<1>8. DOMAIN AuditClient =
       {"fetchAuditLogs", "fetchAuditLog", "fetchAuditExports",
        "createAuditExport", "fetchAuditExport"}
  BY DEF AuditClient
<1>. QED BY <1>1, <1>2, <1>3, <1>4, <1>5, <1>6, <1>7, <1>8

\* The client functions are those of its parts.
LEMMA ClientParts ==
  /\ \A call \in DOMAIN AccountClient : Client[call] = AccountClient[call]
  /\ \A call \in DOMAIN AccessClient : Client[call] = AccessClient[call]
  /\ \A call \in DOMAIN PolicyClient : Client[call] = PolicyClient[call]
  /\ \A call \in DOMAIN ResolutionClient : Client[call] = ResolutionClient[call]
  /\ \A call \in DOMAIN RecipientClient : Client[call] = RecipientClient[call]
  /\ \A call \in DOMAIN DestinationClient : Client[call] = DestinationClient[call]
  /\ \A call \in DOMAIN WebhookClient : Client[call] = WebhookClient[call]
  /\ \A call \in DOMAIN AuditClient : Client[call] = AuditClient[call]
<1>1. \A call \in DOMAIN AccountClient : Client[call] = AccountClient[call]
  BY ClientFunctions DEF Client
<1>2. \A call \in DOMAIN AccessClient : Client[call] = AccessClient[call]
  BY ClientFunctions DEF Client
<1>3. \A call \in DOMAIN PolicyClient : Client[call] = PolicyClient[call]
  BY ClientFunctions DEF Client
<1>4. \A call \in DOMAIN ResolutionClient : Client[call] = ResolutionClient[call]
  BY ClientFunctions DEF Client
<1>5. \A call \in DOMAIN RecipientClient : Client[call] = RecipientClient[call]
  BY ClientFunctions DEF Client
<1>6. \A call \in DOMAIN DestinationClient : Client[call] = DestinationClient[call]
  BY ClientFunctions DEF Client
<1>7. \A call \in DOMAIN WebhookClient : Client[call] = WebhookClient[call]
  BY ClientFunctions DEF Client
<1>8. \A call \in DOMAIN AuditClient : Client[call] = AuditClient[call]
  BY ClientFunctions DEF Client
<1>. QED BY <1>1, <1>2, <1>3, <1>4, <1>5, <1>6, <1>7, <1>8

-----------------------------------------------------------------------------
(* What the guard asks.                                                    *)

\* The scopes of a role.
LEMMA ScopesOfRoles ==
  ASSUME NEW r \in Roles
  PROVE  /\ ReadScopes \subseteq RoleScopes(r)
         /\ \A scope \in DeveloperScopes \ ReadScopes :
              scope \in RoleScopes(r) <=> r \in Builders
         /\ \A scope \in AdminScopes \ DeveloperScopes :
              scope \in RoleScopes(r) <=> r \in Managers
         /\ "security:write" \in RoleScopes(r) <=> r = "OWNER"
  BY DEF Roles, RoleScopes, ReadScopes, DeveloperScopes, AdminScopes, OwnerScopes,
     Builders, Managers

\* A user and a partner as they can be.
Known ==
  /\ role \in Roles
  /\ partner \in [capabilities : SUBSET Capabilities, plan : Plans, stage : Stages]

Environment == {"sandbox", "production"} \cap partner.capabilities # {}
Contributes == Contributors \cap partner.capabilities # {}
Consumes == Consumers \cap partner.capabilities # {}
Mapped == StageRank[partner.stage] >= 3
Batches ==
  /\ Consumes /\ Environment /\ role \in Builders
  /\ "batchVerification" \in partner.capabilities
  /\ partner.plan \in BulkPlans

\* The policies of the routes that the dashboard calls.
LEMMA PoliciesForUsers ==
  ASSUME Known
  PROVE  /\ Satisfies(Caller, AnyOf(Contributors)) <=> Contributes
         /\ Satisfies(Caller, AnyOf(Consumers)) <=> Consumes
         /\ Satisfies(Caller, Credentials) <=> Consumes /\ role \in Builders
         /\ Satisfies(Caller, SigningKeys) <=> Contributes /\ role \in Builders
         /\ Satisfies(Caller, UserWith(Managers)) <=> role \in Managers
         /\ Satisfies(Caller, UserWith({"OWNER"})) <=> role = "OWNER"
         /\ Satisfies(Caller, UserWith(Roles))
         /\ Satisfies(Caller, Exporters) <=>
              role \in Managers /\ "auditExports" \in partner.capabilities
         /\ Satisfies(Caller, Mapping) <=> Mapped
         /\ Satisfies(Caller, Operational) <=> Environment
         /\ Satisfies(Caller, [AnyOf(Consumers) EXCEPT !.operational = TRUE]) <=>
              Consumes /\ Environment
         /\ Satisfies(Caller, [Operational EXCEPT !.allOf = {"batchVerification"},
                                                  !.bulk = TRUE]) <=>
              /\ Environment
              /\ "batchVerification" \in partner.capabilities
              /\ partner.plan \in BulkPlans
         /\ Satisfies(Caller, Hooks) <=> "webhooks" \in partner.capabilities
<1> USE DEF Known, Caller, Satisfies, NoPolicy, ActorTypes
<1>0. StageRank[partner.stage] \in Nat /\ StageRank["ACCOUNT_CREATED"] = 0
      /\ StageRank["DATA_MAPPING_IN_PROGRESS"] = 3
  BY DEF Stages, StageRank
<1>1. Satisfies(Caller, AnyOf(Contributors)) <=> Contributes
  BY <1>0 DEF AnyOf, Contributors, Contributes
<1>2. Satisfies(Caller, AnyOf(Consumers)) <=> Consumes
  BY <1>0 DEF AnyOf, Contributors, Consumers, Consumes
<1>3. Satisfies(Caller, Credentials) <=> Consumes /\ role \in Builders
  BY <1>0 DEF AnyOf, Contributors, Consumers, Consumes, Credentials
<1>4. Satisfies(Caller, SigningKeys) <=> Contributes /\ role \in Builders
  BY <1>0 DEF AnyOf, Contributors, Contributes, SigningKeys
<1>5. /\ Satisfies(Caller, UserWith(Managers)) <=> role \in Managers
      /\ Satisfies(Caller, UserWith({"OWNER"})) <=> role = "OWNER"
      /\ Satisfies(Caller, UserWith(Roles))
  BY <1>0 DEF UserWith
<1>6. Satisfies(Caller, Exporters) <=>
        role \in Managers /\ "auditExports" \in partner.capabilities
  BY <1>0 DEF UserWith, Exporters
<1>7. Satisfies(Caller, Mapping) <=> Mapped
  BY <1>0 DEF Mapping, Mapped
<1>8. Satisfies(Caller, Operational) <=> Environment
  BY <1>0 DEF Operational, Environment
<1>9. Satisfies(Caller, [AnyOf(Consumers) EXCEPT !.operational = TRUE]) <=>
        Consumes /\ Environment
  BY <1>0 DEF AnyOf, Contributors, Consumers, Consumes, Environment
<1>10. Satisfies(Caller, [Operational EXCEPT !.allOf = {"batchVerification"},
                                             !.bulk = TRUE]) <=>
         /\ Environment
         /\ "batchVerification" \in partner.capabilities
         /\ partner.plan \in BulkPlans
  BY <1>0 DEF Operational, Environment
<1>11. Satisfies(Caller, Hooks) <=> "webhooks" \in partner.capabilities
  BY <1>0 DEF AllOf, Hooks
<1>. QED BY <1>1, <1>2, <1>3, <1>4, <1>5, <1>6, <1>7, <1>8, <1>9, <1>10, <1>11
\* A route asks for one scope and up to two policies.
LEMMA RoutesForUsers ==
  ASSUME NEW scope, NEW P, NEW Q
  PROVE  /\ Admits(Caller, Route({scope}, {})) <=> scope \in RoleScopes(role)
         /\ Admits(Caller, Route({scope}, {P})) <=>
              scope \in RoleScopes(role) /\ Satisfies(Caller, P)
         /\ Admits(Caller, Route({scope}, {P, Q})) <=>
              /\ scope \in RoleScopes(role)
              /\ Satisfies(Caller, P) /\ Satisfies(Caller, Q)
  BY DEF Admits, Route, Caller

\* Client functions by what they ask of a user and the partner.
ForAll ==
  {"fetchPartnerProfile", "fetchPartnerDashboardMetadata", "fetchOverview",
   "fetchAuditLogs", "fetchAuditLog", "fetchProductionApprovalRequests",
   "fetchAvailableProductionCorridors"}
ForContributors ==
  {"fetchDataFeedHealth", "fetchRecipients", "fetchRecipient", "fetchDestinations",
   "fetchDestination", "fetchAttestations", "fetchAttestation"}
ForConsumers == {"fetchResolutionLogs", "fetchResolutionLog"}
ForLookups ==
  {"resolveRecipient", "confirmRecipientByAddress", "verifyDestination",
   "fetchSupportedPlatforms"}
ForHooks ==
  {"fetchWebhookEndpoints", "fetchWebhookEndpoint", "fetchWebhookDeliveries",
   "fetchWebhookDelivery"}
ForHookWriters ==
  {"createWebhookEndpoint", "updateWebhookEndpoint", "rotateWebhookSigningSecret",
   "disableWebhookEndpoint", "testWebhookEndpoint", "replayWebhookDelivery"}
ForManagers ==
  {"fetchPartnerUsers", "invitePartnerUser", "updatePartnerUser",
   "deactivatePartnerUser", "fetchPartnerSecuritySettings",
   "requestProductionApproval", "cancelProductionApprovalRequest"}
ForExporters == {"fetchAuditExports", "createAuditExport"}
ForWriters ==
  {"createRecipient", "updateRecipient", "disableRecipient", "createDestination",
   "revokeDestination", "replaceDestination"}
ForCredentials ==
  {"fetchPartnerApiCredentials", "issuePartnerApiCredential",
   "revokePartnerApiCredential"}
ForSigningKeys ==
  {"fetchPartnerSigningKeys", "registerPartnerSigningKey", "revokePartnerSigningKey"}

LEMMA CallsForUsers ==
  ASSUME Known
  PROVE  /\ \A call \in ForAll : Admits(Caller, Client[call])
         /\ \A call \in ForContributors : Admits(Caller, Client[call]) <=> Contributes
         /\ \A call \in ForConsumers : Admits(Caller, Client[call]) <=> Consumes
         /\ \A call \in ForLookups :
              Admits(Caller, Client[call]) <=> Consumes /\ Environment
         /\ \A call \in ForHooks :
              Admits(Caller, Client[call]) <=> "webhooks" \in partner.capabilities
         /\ \A call \in ForHookWriters :
              Admits(Caller, Client[call]) <=>
                "webhooks" \in partner.capabilities /\ role \in Builders
         /\ \A call \in ForManagers :
              Admits(Caller, Client[call]) <=> role \in Managers
         /\ \A call \in ForExporters :
              Admits(Caller, Client[call]) <=>
                "auditExports" \in partner.capabilities /\ role \in Managers
         /\ \A call \in ForWriters :
              Admits(Caller, Client[call]) <=>
                Contributes /\ Mapped /\ role \in Managers
         /\ \A call \in ForCredentials :
              Admits(Caller, Client[call]) <=> Consumes /\ role \in Builders
         /\ \A call \in ForSigningKeys :
              Admits(Caller, Client[call]) <=> Contributes /\ role \in Builders
         /\ Admits(Caller, Client["updatePartnerSecuritySettings"]) <=> role = "OWNER"
         /\ Admits(Caller, Client["batchVerifyDestinations"]) <=> Batches
<1>1. /\ ReadScopes \subseteq RoleScopes(role)
      /\ \A scope \in {"partners:write", "resolution:batch", "webhooks:write",
                       "webhooks:replay"} :
           scope \in RoleScopes(role) <=> role \in Builders
      /\ \A scope \in {"recipients:write", "destinations:write", "team:read",
                       "team:write", "security:read", "audit:export"} :
           scope \in RoleScopes(role) <=> role \in Managers
      /\ "security:write" \in RoleScopes(role) <=> role = "OWNER"
  BY ScopesOfRoles DEF Known, ReadScopes, DeveloperScopes, AdminScopes
<1>2. Managers \subseteq Builders /\ "OWNER" \in Managers
  BY DEF Managers, Builders
<1>0. {"partners:read", "audit:read", "resolution:read", "webhooks:read"}
        \subseteq RoleScopes(role)
  BY <1>1 DEF ReadScopes
<1>3. \A call \in ForAll : Admits(Caller, Client[call])
  <2>1. \A call \in ForAll :
          Client[call] \in {Route({"partners:read"}, {}), Route({"audit:read"}, {}),
                            Route({"partners:read"}, {UserWith(Roles)})}
    BY ClientParts, ClientFunctions DEF ForAll, AccountClient, PolicyClient,
       AuditClient, GetProfile, GetDashboardMetadata, GetOverview, ListAuditLogs,
       GetAuditLog, ListProductionApprovalRequests, ListAvailableProductionCorridors
  <2>2. /\ Admits(Caller, Route({"partners:read"}, {}))
        /\ Admits(Caller, Route({"audit:read"}, {}))
    BY <1>0, RoutesForUsers
  <2>3. Admits(Caller, Route({"partners:read"}, {UserWith(Roles)}))
    BY <1>0, RoutesForUsers, PoliciesForUsers
  <2>. QED BY <2>1, <2>2, <2>3
<1>4. \A call \in ForContributors : Admits(Caller, Client[call]) <=> Contributes
  <2>1. \A call \in ForContributors : \E scope \in ReadScopes :
          Client[call] = Route({scope}, {AnyOf(Contributors)})
    BY ClientParts, ClientFunctions DEF ForContributors, AccountClient,
       RecipientClient, DestinationClient, GetDataFeedHealth, ListRecipients,
       GetRecipient, ListDestinations, GetDestination, ListAttestations,
       GetAttestation, ReadScopes
  <2>. QED BY <1>1, <2>1, RoutesForUsers, PoliciesForUsers
<1>5. \A call \in ForConsumers : Admits(Caller, Client[call]) <=> Consumes
  <2>1. \A call \in ForConsumers :
          Client[call] = Route({"resolution:read"}, {AnyOf(Consumers)})
    BY ClientParts, ClientFunctions DEF ForConsumers, ResolutionClient,
       ListResolutionLogs, GetResolutionLog
  <2>2. Admits(Caller, Route({"resolution:read"}, {AnyOf(Consumers)})) <=> Consumes
    BY <1>0, RoutesForUsers, PoliciesForUsers
  <2>. QED BY <2>1, <2>2
<1>6. \A call \in ForLookups :
        Admits(Caller, Client[call]) <=> Consumes /\ Environment
  <2>1. \A call \in ForLookups : Client[call] \in
          {Route({"resolution:read"}, {AnyOf(Consumers), Operational}),
           Route({"resolution:read"}, {[AnyOf(Consumers) EXCEPT !.operational = TRUE]})}
    BY ClientParts, ClientFunctions DEF ForLookups, AccountClient, ResolutionClient,
       ListPlatforms, Lookup, ResolveRecipientByRoute, ConfirmRecipientByAddress,
       VerifyTransfer
  <2>2. Admits(Caller, Route({"resolution:read"}, {AnyOf(Consumers), Operational}))
          <=> Consumes /\ Environment
    BY <1>0, RoutesForUsers, PoliciesForUsers
  <2> DEFINE P == [AnyOf(Consumers) EXCEPT !.operational = TRUE]
  <2>4. Satisfies(Caller, P) <=> Consumes /\ Environment
    BY PoliciesForUsers
  <2> HIDE DEF P
  <2>5. Admits(Caller, Route({"resolution:read"}, {P})) <=> Consumes /\ Environment
    BY <1>0, <2>4, RoutesForUsers
  <2>. QED BY <2>1, <2>2, <2>5 DEF P
<1>7. \A call \in ForHooks :
        Admits(Caller, Client[call]) <=> "webhooks" \in partner.capabilities
  <2>1. \A call \in ForHooks : Client[call] = Route({"webhooks:read"}, {Hooks})
    BY ClientParts, ClientFunctions DEF ForHooks, WebhookClient,
       ListWebhookEndpoints, GetWebhookEndpoint, ListWebhookDeliveries,
       GetWebhookDelivery
  <2>2. Admits(Caller, Route({"webhooks:read"}, {Hooks})) <=>
          "webhooks" \in partner.capabilities
    BY <1>0, RoutesForUsers, PoliciesForUsers
  <2>. QED BY <2>1, <2>2
<1>8. \A call \in ForHookWriters :
        Admits(Caller, Client[call]) <=>
          "webhooks" \in partner.capabilities /\ role \in Builders
  <2>1. \A call \in ForHookWriters :
          Client[call] \in {Route({"webhooks:write"}, {Hooks}),
                            Route({"webhooks:replay"}, {Hooks})}
    BY ClientParts, ClientFunctions DEF ForHookWriters, WebhookClient,
       CreateWebhookEndpoint, UpdateWebhookEndpoint, RotateWebhookSigningSecret,
       DisableWebhookEndpoint, TestWebhookEndpoint, ReplayWebhookDelivery
  <2>. QED BY <1>1, <2>1, RoutesForUsers, PoliciesForUsers
<1>9. \A call \in ForManagers : Admits(Caller, Client[call]) <=> role \in Managers
  <2>1. \A call \in ForManagers :
          \E scope \in {"team:read", "team:write", "security:read", "partners:write"} :
            Client[call] = Route({scope}, {UserWith(Managers)})
    BY ClientParts, ClientFunctions DEF ForManagers, AccessClient, PolicyClient,
       ListPartnerUsers, InvitePartnerUser, UpdatePartnerUser, DeactivatePartnerUser,
       GetSecuritySettings, RequestProductionApproval,
       CancelProductionApprovalRequest
  <2>2. ASSUME NEW scope \in {"team:read", "team:write", "security:read",
                              "partners:write"}
        PROVE  Admits(Caller, Route({scope}, {UserWith(Managers)})) <=>
                 role \in Managers
    <3>1. role \in Managers => scope \in RoleScopes(role)
      BY <1>1, <1>2
    <3>2. Satisfies(Caller, UserWith(Managers)) <=> role \in Managers
      BY PoliciesForUsers
    <3>. QED BY <3>1, <3>2, RoutesForUsers
  <2>. QED BY <2>1, <2>2
<1>10. \A call \in ForExporters :
         Admits(Caller, Client[call]) <=>
           "auditExports" \in partner.capabilities /\ role \in Managers
  <2>1. \A call \in ForExporters : Client[call] = Route({"audit:export"}, {Exporters})
    BY ClientParts, ClientFunctions DEF ForExporters, AuditClient, ListAuditExports,
       CreateAuditExport
  <2>. QED BY <1>1, <2>1, RoutesForUsers, PoliciesForUsers
<1>11. \A call \in ForWriters :
         Admits(Caller, Client[call]) <=> Contributes /\ Mapped /\ role \in Managers
  <2>1. \A call \in ForWriters :
          \E scope \in {"recipients:write", "destinations:write"} :
            Client[call] = Route({scope}, {AnyOf(Contributors), Mapping})
    BY ClientParts, ClientFunctions DEF ForWriters, RecipientClient,
       DestinationClient, WriteRecipient, WriteDestination, CreateRecipient,
       UpdateRecipient, DisableRecipient, CreateDestination, RevokeDestination,
       ReplaceDestination
  <2>2. ASSUME NEW scope \in {"recipients:write", "destinations:write"}
        PROVE  Admits(Caller, Route({scope}, {AnyOf(Contributors), Mapping})) <=>
                 Contributes /\ Mapped /\ role \in Managers
    <3>1. scope \in RoleScopes(role) <=> role \in Managers
      BY <1>1
    <3>2. /\ Satisfies(Caller, AnyOf(Contributors)) <=> Contributes
          /\ Satisfies(Caller, Mapping) <=> Mapped
      BY PoliciesForUsers
    <3>. QED BY <3>1, <3>2, RoutesForUsers
  <2>. QED BY <2>1, <2>2
<1>12. \A call \in ForCredentials :
         Admits(Caller, Client[call]) <=> Consumes /\ role \in Builders
  <2>1. \A call \in ForCredentials :
          \E scope \in {"partners:read", "partners:write"} :
            Client[call] = Route({scope}, {Credentials})
    BY ClientParts, ClientFunctions DEF ForCredentials, AccessClient,
       ListApiCredentials, CreateApiCredential, RevokeApiCredential
  <2>2. ASSUME NEW scope \in {"partners:read", "partners:write"}
        PROVE  Admits(Caller, Route({scope}, {Credentials})) <=>
                 Consumes /\ role \in Builders
    <3>1. role \in Builders => scope \in RoleScopes(role)
      BY <1>0, <1>1
    <3>2. Satisfies(Caller, Credentials) <=> Consumes /\ role \in Builders
      BY PoliciesForUsers
    <3>. QED BY <3>1, <3>2, RoutesForUsers
  <2>. QED BY <2>1, <2>2
<1>13. \A call \in ForSigningKeys :
         Admits(Caller, Client[call]) <=> Contributes /\ role \in Builders
  <2>1. \A call \in ForSigningKeys :
          \E scope \in {"partners:read", "partners:write"} :
            Client[call] = Route({scope}, {SigningKeys})
    BY ClientParts, ClientFunctions DEF ForSigningKeys, AccessClient,
       ListSigningKeys, RegisterSigningKey, RevokeSigningKey
  <2>2. ASSUME NEW scope \in {"partners:read", "partners:write"}
        PROVE  Admits(Caller, Route({scope}, {SigningKeys})) <=>
                 Contributes /\ role \in Builders
    <3>1. role \in Builders => scope \in RoleScopes(role)
      BY <1>0, <1>1
    <3>2. Satisfies(Caller, SigningKeys) <=> Contributes /\ role \in Builders
      BY PoliciesForUsers
    <3>. QED BY <3>1, <3>2, RoutesForUsers
  <2>. QED BY <2>1, <2>2
<1>14. Admits(Caller, Client["updatePartnerSecuritySettings"]) <=> role = "OWNER"
  <2>1. Client["updatePartnerSecuritySettings"] =
          Route({"security:write"}, {UserWith({"OWNER"})})
    BY ClientParts, ClientFunctions DEF PolicyClient, UpdateSecuritySettings
  <2>. QED BY <1>1, <2>1, RoutesForUsers, PoliciesForUsers
<1>15. Admits(Caller, Client["batchVerifyDestinations"]) <=> Batches
  <2>1. Client["batchVerifyDestinations"] =
          Route({"resolution:batch"},
                {AnyOf(Consumers),
                 [Operational EXCEPT !.allOf = {"batchVerification"}, !.bulk = TRUE]})
    BY ClientParts, ClientFunctions DEF ResolutionClient, BatchVerify
  <2> DEFINE P == [Operational EXCEPT !.allOf = {"batchVerification"}, !.bulk = TRUE]
  <2>2. /\ Satisfies(Caller, AnyOf(Consumers)) <=> Consumes
        /\ Satisfies(Caller, P) <=> /\ Environment
                                   /\ "batchVerification" \in partner.capabilities
                                   /\ partner.plan \in BulkPlans
    BY PoliciesForUsers
  <2> HIDE DEF P
  <2>3. Admits(Caller, Route({"resolution:batch"}, {AnyOf(Consumers), P})) <=>
          /\ "resolution:batch" \in RoleScopes(role)
          /\ Satisfies(Caller, AnyOf(Consumers)) /\ Satisfies(Caller, P)
    BY RoutesForUsers
  <2>. QED BY <1>1, <2>1, <2>2, <2>3 DEF P, Batches
<1>. QED BY <1>3, <1>4, <1>5, <1>6, <1>7, <1>8, <1>9, <1>10, <1>11, <1>12, <1>13,
        <1>14, <1>15

-----------------------------------------------------------------------------
(* What the pages ask.  The profile tells the truth about the partner and  *)
(* the user, and the session about the user while it is up to date.        *)

\* What the modules of the profile mean.
LEMMA ProfileTells ==
  ASSUME Known
  PROVE  /\ isDataContributorEnabled(Account) <=> Contributes
         /\ \A module \in {"data_feed", "registry", "signing_keys"} :
              canAccessModule(Account, module) <=> Contributes
         /\ \A module \in {"resolution", "api_keys"} :
              canAccessModule(Account, module) <=> Consumes
         /\ canAccessModule(Account, "batch_verification") <=>
              /\ Consumes
              /\ "batchVerification" \in partner.capabilities
              /\ partner.plan \in BulkPlans
         /\ canAccessModule(Account, "webhooks") <=>
              "webhooks" \in partner.capabilities
         /\ canRunOperationalResolution(Account) <=> Consumes /\ Environment
         /\ canManageProductionApproval(Account.role) <=> role \in Managers
<1>1. /\ Account.capabilities = partner.capabilities /\ Account.plan = partner.plan
      /\ Account.role = role
  BY DEF Account
<1>2. isDataContributorEnabled(Account) <=> Contributes
  BY <1>1 DEF isDataContributorEnabled, Contributes, Contributors
<1>3. resolutionEnabled(Account) <=> Consumes
  BY <1>1, <1>2 DEF resolutionEnabled, Consumes, Consumers, Contributes
<1>4. /\ \A module \in {"data_feed", "registry", "signing_keys"} :
           canAccessModule(Account, module) <=> Contributes
      /\ \A module \in {"resolution", "api_keys"} :
           canAccessModule(Account, module) <=> Consumes
  BY <1>2, <1>3 DEF canAccessModule
<1>5. canAccessModule(Account, "batch_verification") <=>
        /\ Consumes
        /\ "batchVerification" \in partner.capabilities
        /\ partner.plan \in BulkPlans
  BY <1>1, <1>3 DEF canAccessModule
<1>6. canAccessModule(Account, "webhooks") <=> "webhooks" \in partner.capabilities
  BY <1>1 DEF canAccessModule
<1>7. canRunOperationalResolution(Account) <=> Consumes /\ Environment
  BY <1>1, <1>4 DEF canRunOperationalResolution, Environment
<1>8. canManageProductionApproval(Account.role) <=> role \in Managers
  BY <1>1 DEF canManageProductionApproval, Managers
<1>. QED BY <1>2, <1>4, <1>5, <1>6, <1>7, <1>8

\* What the scopes of a session that is up to date mean.
LEMMA SessionTells ==
  ASSUME Known, cookie.scopes = RoleScopes(role)
  PROVE  /\ \A scope \in {"partners:write", "resolution:batch", "webhooks:write",
                          "webhooks:replay"} :
              canAccessScope(cookie.scopes, {scope}) <=> role \in Builders
         /\ \A scope \in {"team:read", "team:write", "security:read",
                          "audit:export"} :
              canAccessScope(cookie.scopes, {scope}) <=> role \in Managers
         /\ canAccessScope(cookie.scopes, {"security:write"}) <=> role = "OWNER"
         /\ \A scope \in {"recipients:write", "destinations:write"} :
              CanWrite(cookie, Account, scope) <=> Mapped /\ role \in Managers
<1>1. /\ \A scope \in {"partners:write", "resolution:batch", "webhooks:write",
                       "webhooks:replay"} :
           scope \in RoleScopes(role) <=> role \in Builders
      /\ \A scope \in {"recipients:write", "destinations:write", "team:read",
                       "team:write", "security:read", "audit:export"} :
           scope \in RoleScopes(role) <=> role \in Managers
      /\ "security:write" \in RoleScopes(role) <=> role = "OWNER"
  BY ScopesOfRoles DEF Known, ReadScopes, DeveloperScopes, AdminScopes
<1>2. Account.stage = partner.stage
  BY DEF Account
<1>3. \A scope \in {"partners:write", "resolution:batch", "webhooks:write",
                    "webhooks:replay"} :
        canAccessScope(cookie.scopes, {scope}) <=> role \in Builders
  BY <1>1 DEF canAccessScope
<1>4. \A scope \in {"team:read", "team:write", "security:read", "audit:export"} :
        canAccessScope(cookie.scopes, {scope}) <=> role \in Managers
  BY <1>1 DEF canAccessScope
<1>5. canAccessScope(cookie.scopes, {"security:write"}) <=> role = "OWNER"
  BY <1>1 DEF canAccessScope
<1>6. \A scope \in {"recipients:write", "destinations:write"} :
        CanWrite(cookie, Account, scope) <=> Mapped /\ role \in Managers
  BY <1>1, <1>2 DEF CanWrite, canAccessScope, hasReachedOnboardingStage, Mapped,
     StageRank
<1>. QED BY <1>3, <1>4, <1>5, <1>6

\* A set of forms whose calls the backend admits.
Sendable(forms) == \A form \in forms : AllAdmitted(Actions[form].calls)

\* The calls of each form.
LEMMA CallsOfForms ==
  /\ Actions["create-credential"].calls = {"issuePartnerApiCredential"}
  /\ Actions["revoke-credential"].calls = {"revokePartnerApiCredential"}
  /\ Actions["register-signing-key"].calls = {"registerPartnerSigningKey"}
  /\ Actions["revoke-signing-key"].calls = {"revokePartnerSigningKey"}
  /\ Actions["invite-user"].calls = {"invitePartnerUser"}
  /\ Actions["update-user"].calls = {"updatePartnerUser"}
  /\ Actions["deactivate-user"].calls = {"deactivatePartnerUser"}
  /\ Actions["update-security"].calls = {"updatePartnerSecuritySettings"}
  /\ Actions["create-recipient"].calls = {"createRecipient"}
  /\ Actions["update-recipient"].calls = {"updateRecipient"}
  /\ Actions["disable-recipient"].calls = {"disableRecipient"}
  /\ Actions["create-destination"].calls = {"createDestination"}
  /\ Actions["replace-destination"].calls = {"replaceDestination"}
  /\ Actions["revoke-destination"].calls = {"revokeDestination"}
  /\ Actions["create-webhook"].calls = {"createWebhookEndpoint"}
  /\ Actions["test-webhook"].calls = {"testWebhookEndpoint"}
  /\ Actions["rotate-secret"].calls = {"rotateWebhookSigningSecret"}
  /\ Actions["webhook-status"].calls =
       {"disableWebhookEndpoint", "updateWebhookEndpoint"}
  /\ Actions["replay-delivery"].calls = {"replayWebhookDelivery"}
  /\ Actions["create-export"].calls = {"createAuditExport"}
  /\ Actions["request-production-approval"].calls = {"requestProductionApproval"}
  /\ Actions["cancel-production-approval"].calls =
       {"cancelProductionApprovalRequest"}
  /\ Actions["platforms"].calls = {"fetchSupportedPlatforms"}
  /\ Actions["batch"].calls =
       {"fetchPartnerDashboardMetadata", "batchVerifyDestinations"}
  BY DEF Actions, PartnerForms, FormAction, SecretAction, CreateCredentialAction,
     RevokeCredentialAction, RegisterSigningKeyAction, RevokeSigningKeyAction,
     InviteUserAction, UpdateUserAction, DeactivateUserAction, UpdateSecurityAction,
     CreateRecipientAction, UpdateRecipientAction, DisableRecipientAction,
     CreateDestinationAction, ReplaceDestinationAction, RevokeDestinationAction,
     CreateWebhookAction, TestWebhookAction, RotateSecretAction,
     WebhookStatusAction, ReplayDeliveryAction, CreateExportAction,
     RequestApprovalAction, CancelApprovalAction, PlatformsAction, BatchAction

\* Who may send which form.
LEMMA FormsForUsers ==
  ASSUME Known
  PROVE  /\ Consumes /\ role \in Builders
              => Sendable({"create-credential", "revoke-credential"})
         /\ Contributes /\ role \in Builders
              => Sendable({"register-signing-key", "revoke-signing-key"})
         /\ role \in Managers
              => Sendable({"invite-user", "update-user", "deactivate-user",
                           "request-production-approval",
                           "cancel-production-approval"})
         /\ role = "OWNER" => Sendable({"update-security"})
         /\ Contributes /\ Mapped /\ role \in Managers
              => Sendable({"create-recipient", "update-recipient",
                           "disable-recipient", "create-destination",
                           "replace-destination", "revoke-destination"})
         /\ "webhooks" \in partner.capabilities /\ role \in Builders
              => Sendable({"create-webhook", "test-webhook", "rotate-secret",
                           "webhook-status", "replay-delivery"})
         /\ "auditExports" \in partner.capabilities /\ role \in Managers
              => Sendable({"create-export"})
         /\ Consumes /\ Environment => Sendable({"platforms"})
         /\ Batches => Sendable({"batch"})
<1>1. Consumes /\ role \in Builders
        => Sendable({"create-credential", "revoke-credential"})
  BY CallsForUsers, CallsOfForms DEF Sendable, AllAdmitted, ForCredentials
<1>2. Contributes /\ role \in Builders
        => Sendable({"register-signing-key", "revoke-signing-key"})
  BY CallsForUsers, CallsOfForms DEF Sendable, AllAdmitted, ForSigningKeys
<1>3. role \in Managers
        => Sendable({"invite-user", "update-user", "deactivate-user",
                     "request-production-approval", "cancel-production-approval"})
  BY CallsForUsers, CallsOfForms DEF Sendable, AllAdmitted, ForManagers
<1>4. role = "OWNER" => Sendable({"update-security"})
  BY CallsForUsers, CallsOfForms DEF Sendable, AllAdmitted
<1>5. Contributes /\ Mapped /\ role \in Managers
        => Sendable({"create-recipient", "update-recipient", "disable-recipient",
                     "create-destination", "replace-destination",
                     "revoke-destination"})
  BY CallsForUsers, CallsOfForms DEF Sendable, AllAdmitted, ForWriters
<1>6. "webhooks" \in partner.capabilities /\ role \in Builders
        => Sendable({"create-webhook", "test-webhook", "rotate-secret",
                     "webhook-status", "replay-delivery"})
  BY CallsForUsers, CallsOfForms DEF Sendable, AllAdmitted, ForHookWriters
<1>7. "auditExports" \in partner.capabilities /\ role \in Managers
        => Sendable({"create-export"})
  BY CallsForUsers, CallsOfForms DEF Sendable, AllAdmitted, ForExporters
<1>8. Consumes /\ Environment => Sendable({"platforms"})
  BY CallsForUsers, CallsOfForms DEF Sendable, AllAdmitted, ForLookups
<1>9. Batches => Sendable({"batch"})
  <2>1. Admits(Caller, Client["fetchPartnerDashboardMetadata"])
    BY CallsForUsers DEF ForAll
  <2>2. Batches => Admits(Caller, Client["batchVerifyDestinations"])
    BY CallsForUsers
  <2>. QED BY <2>1, <2>2, CallsOfForms DEF Sendable, AllAdmitted
<1>. QED BY <1>1, <1>2, <1>3, <1>4, <1>5, <1>6, <1>7, <1>8, <1>9

\* Who may make which calls of the pages.
LEMMA CallsOfPages ==
  ASSUME Known
  PROVE  /\ AllAdmitted(ProfileAndMetadata) /\ AllAdmitted(Profile)
         /\ AllAdmitted(ForAll)
         /\ Contributes => AllAdmitted(ForContributors)
         /\ Consumes => AllAdmitted(ForConsumers)
         /\ Consumes /\ Environment => AllAdmitted(ForLookups)
         /\ "webhooks" \in partner.capabilities => AllAdmitted(ForHooks)
         /\ role \in Managers => AllAdmitted(ForManagers)
         /\ "auditExports" \in partner.capabilities /\ role \in Managers
              => AllAdmitted(ForExporters)
         /\ Consumes /\ role \in Builders => AllAdmitted(ForCredentials)
         /\ Contributes /\ role \in Builders => AllAdmitted(ForSigningKeys)
<1>1. AllAdmitted(ForAll)
  BY CallsForUsers DEF AllAdmitted
<1>2. ProfileAndMetadata \subseteq ForAll /\ Profile \subseteq ForAll
  BY DEF ProfileAndMetadata, Profile, ForAll
<1>. QED BY <1>1, <1>2, CallsForUsers DEF AllAdmitted

\* A gated page, by its gate.
LEMMA GatedPages ==
  ASSUME NEW open, NEW before, NEW calls, NEW offers, NEW banner,
         AllAdmitted(before)
  PROVE  /\ (open => AllAdmitted(calls))
              => AllAdmitted(Gated(open, before, calls, offers, banner).calls)
         /\ (open => Sendable(offers))
              => Sendable(Gated(open, before, calls, offers, banner).offers)
  BY DEF Gated, Page, When, AllAdmitted, Sendable

\* Forms that are offered on a condition.
LEMMA OfferedWhen ==
  ASSUME NEW condition, NEW forms, condition => Sendable(forms)
  PROVE  Sendable(When(condition, forms))
  BY DEF When, Sendable

\* A page opens when its calls are admitted, and is honest about the forms it
\* offers when theirs are.
Opens(path) == AllAdmitted(PageAt(path, cookie, Account).calls)
Honest(path) == Sendable(PageAt(path, cookie, Account).offers)

\* What it takes to get to a page that does not ask by itself.
LEMMA WhatLinksTell ==
  ASSUME Known, cookie.scopes = RoleScopes(role),
         NEW path \in Reachable(cookie, Account)
  PROVE  /\ path \in Pages
         /\ path \in {"/access/team", "/access/security", "/audit/exports"}
              => role \in Managers
         /\ path = "/resolution/logs/id" => Consumes
         /\ path = "/resolution/batch" => role \in Builders
<1>1. ASSUME NEW p \in Shown(cookie, Account)
      PROVE  /\ p \in Linked
             /\ p \in {"/access/team", "/access/security", "/audit/exports"}
                  => role \in Managers
             /\ p = "/resolution/logs" => Consumes
             /\ p = "/resolution/batch" => role \in Builders
  <2>1. /\ p \in Linked
        /\ canAccessScope(cookie.scopes, NavigationItems[p].scopes)
        /\ canAccessModule(Account, NavigationItems[p].module)
    BY DEF Shown
  <2>2. /\ p = "/access/team" => NavigationItems[p].scopes = {"team:read"}
        /\ p = "/access/security" => NavigationItems[p].scopes = {"security:read"}
        /\ p = "/audit/exports" => NavigationItems[p].scopes = {"audit:export"}
        /\ p = "/resolution/batch" => NavigationItems[p].scopes = {"resolution:batch"}
        /\ p = "/resolution/logs" => NavigationItems[p].module = "resolution"
    BY DEF NavigationItems, Linked, Item
  <2>. QED BY <2>1, <2>2, ProfileTells, SessionTells
<1>2. Linked \subseteq Pages
  BY DEF Linked, Pages
<1>3. CASE path \in Shown(cookie, Account)
  BY <1>1, <1>2, <1>3 DEF Linked
<1>4. CASE path \notin Shown(cookie, Account)
  <2>1. PICK p \in Shown(cookie, Account) : path \in Details[p]
    BY <1>4 DEF Reachable
  <2>2. p \in Pages
    BY <1>1, <1>2
  <2>3. /\ path \in {"/resolution/logs/id", "/recipients/id",
                     "/recipients/id/attestations", "/recipients/id/destinations",
                     "/destinations/id", "/attestations/id", "/webhooks/id",
                     "/webhooks/deliveries/id", "/audit/logs/id", "/setup"}
        /\ path = "/resolution/logs/id" => p = "/resolution/logs"
    BY <2>1, <2>2 DEF Details
  <2>. QED BY <1>1, <2>3 DEF Pages
<1>. QED BY <1>3, <1>4

\* The page at each path.
LEMMA PagesAtPaths ==
  ASSUME NEW s, NEW p
  PROVE  /\ PageAt("/overview", s, p) = OverviewPage(s, p)
         /\ PageAt("/access/plan-usage", s, p) = PlanUsagePage(s, p)
         /\ PageAt("/data-feed-health", s, p) = DataFeedHealthPage(s, p)
         /\ PageAt("/resolution/by-recipient", s, p) = ByRecipientPage(s, p)
         /\ PageAt("/resolution/by-address", s, p) = ByAddressPage(s, p)
         /\ PageAt("/resolution/verify-transfer", s, p) = VerifyTransferPage(s, p)
         /\ PageAt("/resolution/batch", s, p) = BatchPage(s, p)
         /\ PageAt("/resolution/logs", s, p) = ResolutionLogsPage(s, p)
         /\ PageAt("/resolution/logs/id", s, p) = ResolutionLogPage(s, p)
         /\ PageAt("/recipients", s, p) = RecipientsPage(s, p)
         /\ PageAt("/recipients/id", s, p) = RecipientPage(s, p)
         /\ PageAt("/recipients/id/attestations", s, p) =
              RecipientAttestationsPage(s, p)
         /\ PageAt("/recipients/id/destinations", s, p) =
              RecipientDestinationsPage(s, p)
         /\ PageAt("/destinations", s, p) = DestinationsPage(s, p)
         /\ PageAt("/destinations/id", s, p) = DestinationPage(s, p)
         /\ PageAt("/attestations", s, p) = AttestationsPage(s, p)
         /\ PageAt("/attestations/id", s, p) = AttestationPage(s, p)
         /\ PageAt("/webhooks", s, p) = WebhooksPage(s, p)
         /\ PageAt("/webhooks/id", s, p) = WebhookPage(s, p)
         /\ PageAt("/webhooks/deliveries", s, p) = DeliveriesPage(s, p)
         /\ PageAt("/webhooks/deliveries/id", s, p) = DeliveryPage(s, p)
         /\ PageAt("/access/api-keys", s, p) = ApiKeysPage(s, p)
         /\ PageAt("/access/signing-keys", s, p) = SigningKeysPage(s, p)
         /\ PageAt("/access/team", s, p) = TeamPage(s, p)
         /\ PageAt("/access/security", s, p) = SecurityPage(s, p)
         /\ PageAt("/audit/logs", s, p) = AuditLogsPage(s, p)
         /\ PageAt("/audit/logs/id", s, p) = AuditLogPage(s, p)
         /\ PageAt("/audit/exports", s, p) = AuditExportsPage(s, p)
         /\ PageAt("/docs", s, p) = DocsPage(s, p)
         /\ PageAt("/docs/quickstart", s, p) = QuickstartPage(s, p)
         /\ PageAt("/docs/api", s, p) = ApiDocsPage(s, p)
         /\ PageAt("/docs/webhooks", s, p) = WebhookDocsPage(s, p)
         /\ PageAt("/sandbox", s, p) = SandboxPage(s, p)
         /\ PageAt("/setup", s, p) = OnboardingPage(s, p)
  BY DEF PageAt

\* A page with other forms makes the same calls.
LEMMA OtherOffers ==
  ASSUME NEW calls, NEW offers, NEW banner, NEW others
  PROVE  LET page == [Page(calls, offers, banner) EXCEPT !.offers = others]
         IN  page.calls = calls /\ page.offers = others
  BY DEF Page

\* Every page opens and is honest for the users who get to it.
LEMMA PagesKeepTheirPromises ==
  ASSUME Known, cookie.scopes = RoleScopes(role), NEW path \in Pages,
         path \in {"/access/team", "/access/security", "/audit/exports"}
           => role \in Managers,
         path = "/resolution/logs/id" => Consumes,
         path = "/resolution/batch" => role \in Builders
  PROVE  /\ Opens(path) \/ (path = "/resolution/logs" /\ ~Environment)
         /\ Honest(path)
<1> USE DEF Opens, Honest, AllAdmitted, Sendable, Gated, Page, When
<1>1. CASE path = "/overview"
  BY <1>1, PagesAtPaths, ProfileTells, SessionTells, CallsOfPages, FormsForUsers
     DEF OverviewPage, ForAll, ForContributors
<1>2. CASE path = "/access/plan-usage"
  BY <1>2, PagesAtPaths, ProfileTells, SessionTells, CallsOfPages, FormsForUsers
     DEF PlanUsagePage
<1>3. CASE path = "/data-feed-health"
  BY <1>3, PagesAtPaths, ProfileTells, SessionTells, CallsOfPages, FormsForUsers
     DEF DataFeedHealthPage, ForAll, ForContributors
<1>4. CASE path = "/resolution/by-recipient"
  BY <1>4, PagesAtPaths, ProfileTells, SessionTells, CallsOfPages, FormsForUsers
     DEF ByRecipientPage, LookupPage, ForLookups
<1>5. CASE path = "/resolution/by-address"
  <2> DEFINE open == /\ canAccessModule(Account, "resolution")
                     /\ canRunOperationalResolution(Account)
             lookups == {"fetchSupportedPlatforms", "confirmRecipientByAddress"}
             platforms == When(canRunOperationalResolution(Account), {"platforms"})
  <2> HIDE DEF platforms
  <2>0. PageAt(path, cookie, Account) =
          [Page(ProfileAndMetadata \cup When(open, lookups), When(open, {}),
                open /\ FALSE) EXCEPT !.offers = platforms]
    BY <1>5, PagesAtPaths DEF ByAddressPage, LookupPage, platforms
  <2>1. /\ PageAt(path, cookie, Account).calls =
             ProfileAndMetadata \cup When(open, lookups)
        /\ PageAt(path, cookie, Account).offers = platforms
    BY ONLY <2>0, OtherOffers
  <2>2. Opens(path)
    BY <2>1, ProfileTells, SessionTells, CallsOfPages DEF ForLookups
  <2>3. Honest(path)
    BY <2>1, ProfileTells, SessionTells, FormsForUsers DEF platforms
  <2>. QED BY <2>2, <2>3
<1>6. CASE path = "/resolution/verify-transfer"
  <2> DEFINE open == /\ canAccessModule(Account, "resolution")
                     /\ canRunOperationalResolution(Account)
             lookups == {"fetchSupportedPlatforms", "verifyDestination",
                      "confirmRecipientByAddress"}
             platforms == When(canRunOperationalResolution(Account), {"platforms"})
  <2> HIDE DEF platforms
  <2>0. PageAt(path, cookie, Account) =
          [Page(ProfileAndMetadata \cup When(open, lookups), When(open, {}),
                open /\ FALSE) EXCEPT !.offers = platforms]
    BY <1>6, PagesAtPaths DEF VerifyTransferPage, LookupPage, platforms
  <2>1. /\ PageAt(path, cookie, Account).calls =
             ProfileAndMetadata \cup When(open, lookups)
        /\ PageAt(path, cookie, Account).offers = platforms
    BY ONLY <2>0, OtherOffers
  <2>2. Opens(path)
    BY <2>1, ProfileTells, SessionTells, CallsOfPages DEF ForLookups
  <2>3. Honest(path)
    BY <2>1, ProfileTells, SessionTells, FormsForUsers DEF platforms
  <2>. QED BY <2>2, <2>3
<1>7. CASE path = "/resolution/logs/id"
  BY <1>7, PagesAtPaths, ProfileTells, SessionTells, CallsOfPages, FormsForUsers
     DEF ResolutionLogPage, ForConsumers
<1>8. CASE path = "/resolution/batch"
  BY <1>8, PagesAtPaths, ProfileTells, SessionTells, CallsOfPages, FormsForUsers
     DEF BatchPage, Batches
<1>9. CASE path = "/recipients"
  BY <1>9, PagesAtPaths, ProfileTells, SessionTells, CallsOfPages, FormsForUsers
     DEF RecipientsPage, ForContributors
<1>10. CASE path = "/recipients/id"
  BY <1>10, PagesAtPaths, ProfileTells, SessionTells, CallsOfPages, FormsForUsers
     DEF RecipientPage, ForContributors
<1>11. CASE path = "/recipients/id/attestations"
  BY <1>11, PagesAtPaths, ProfileTells, SessionTells, CallsOfPages, FormsForUsers
     DEF RecipientAttestationsPage, ForContributors
<1>12. CASE path = "/recipients/id/destinations"
  BY <1>12, PagesAtPaths, ProfileTells, SessionTells, CallsOfPages, FormsForUsers
     DEF RecipientDestinationsPage, ForContributors
<1>13. CASE path = "/destinations"
  BY <1>13, PagesAtPaths, ProfileTells, SessionTells, CallsOfPages, FormsForUsers
     DEF DestinationsPage, ForContributors
<1>14. CASE path = "/destinations/id"
  BY <1>14, PagesAtPaths, ProfileTells, SessionTells, CallsOfPages, FormsForUsers
     DEF DestinationPage, ForContributors
<1>15. CASE path = "/attestations"
  BY <1>15, PagesAtPaths, ProfileTells, SessionTells, CallsOfPages, FormsForUsers
     DEF AttestationsPage, ForContributors
<1>16. CASE path = "/attestations/id"
  BY <1>16, PagesAtPaths, ProfileTells, SessionTells, CallsOfPages, FormsForUsers
     DEF AttestationPage, ForContributors
<1>17. CASE path = "/webhooks"
  BY <1>17, PagesAtPaths, ProfileTells, SessionTells, CallsOfPages, FormsForUsers
     DEF WebhooksPage, ForHooks, Account
<1>18. CASE path = "/webhooks/id"
  BY <1>18, PagesAtPaths, ProfileTells, SessionTells, CallsOfPages, FormsForUsers
     DEF WebhookPage, ForHooks
<1>19. CASE path = "/webhooks/deliveries"
  BY <1>19, PagesAtPaths, ProfileTells, SessionTells, CallsOfPages, FormsForUsers
     DEF DeliveriesPage, ForHooks
<1>20. CASE path = "/webhooks/deliveries/id"
  BY <1>20, PagesAtPaths, ProfileTells, SessionTells, CallsOfPages, FormsForUsers
     DEF DeliveryPage, ForHooks
<1>21. CASE path = "/access/api-keys"
  BY <1>21, PagesAtPaths, ProfileTells, SessionTells, CallsOfPages, FormsForUsers
     DEF ApiKeysPage, ForCredentials
<1>22. CASE path = "/access/signing-keys"
  BY <1>22, PagesAtPaths, ProfileTells, SessionTells, CallsOfPages, FormsForUsers
     DEF SigningKeysPage, ForSigningKeys
<1>23. CASE path = "/access/team"
  BY <1>23, PagesAtPaths, ProfileTells, SessionTells, CallsOfPages, FormsForUsers
     DEF TeamPage, ForAll, ForManagers
<1>24. CASE path = "/access/security"
  BY <1>24, PagesAtPaths, ProfileTells, SessionTells, CallsOfPages, FormsForUsers
     DEF SecurityPage, ForAll, ForManagers
<1>25. CASE path = "/audit/logs"
  BY <1>25, PagesAtPaths, ProfileTells, SessionTells, CallsOfPages, FormsForUsers
     DEF AuditLogsPage, ForAll
<1>26. CASE path = "/audit/logs/id"
  BY <1>26, PagesAtPaths, ProfileTells, SessionTells, CallsOfPages, FormsForUsers
     DEF AuditLogPage, ForAll
<1>27. CASE path = "/audit/exports"
  BY <1>27, PagesAtPaths, ProfileTells, SessionTells, CallsOfPages, FormsForUsers
     DEF AuditExportsPage, ForExporters, Account
<1>28. CASE path = "/docs/webhooks"
  BY <1>28, PagesAtPaths, ProfileTells, SessionTells, CallsOfPages, FormsForUsers
     DEF WebhookDocsPage, ForContributors
<1>29. CASE path = "/sandbox"
  BY <1>29, PagesAtPaths, ProfileTells, SessionTells, CallsOfPages, FormsForUsers
     DEF SandboxPage, ForContributors, Account
<1>30. CASE path = "/setup"
  BY <1>30, PagesAtPaths, ProfileTells, SessionTells, CallsOfPages, FormsForUsers
     DEF OnboardingPage, ForAll
<1>31. CASE path \in {"/docs", "/docs/quickstart", "/docs/api"}
  BY <1>31, PagesAtPaths, CallsOfPages DEF DocsPage, QuickstartPage, ApiDocsPage
<1>32. CASE path = "/resolution/logs"
  BY <1>32, PagesAtPaths, ProfileTells, SessionTells, CallsOfPages
     DEF ResolutionLogsPage, ForConsumers, ForLookups
<1>. QED BY <1>1, <1>2, <1>3, <1>4, <1>5, <1>6, <1>7, <1>8, <1>9, <1>10, <1>11,
        <1>12, <1>13, <1>14, <1>15, <1>16, <1>17, <1>18, <1>19, <1>20, <1>21,
        <1>22, <1>23, <1>24, <1>25, <1>26, <1>27, <1>28, <1>29, <1>30, <1>31,
        <1>32 DEF Pages
-----------------------------------------------------------------------------
(* The browser.  What holds in every state.                                *)

\* The scopes a session cookie can hold.
Scopes == {{}} \cup {RoleScopes(r) : r \in UserRoles}

TabState ==
  [doing : {"idle", "posting", "loading", "failed"}, offers : SUBSET Buttons,
   form : Forms \cup {""}, session : [token : Nat, scopes : Scopes],
   page : Pages \cup {"/", ""}]

\* The type invariant, in a form that is kept by every step: what a tab waits
\* for, and only a tab that shows something offers anything, an error nothing
\* but to sign out.
BrowserInv ==
  /\ partner \in Partners
  /\ role \in UserRoles
  /\ signIns \in 0 .. MaxSignIns
  /\ live \subseteq 1 .. signIns
  /\ changes \in 0 .. MaxChanges
  /\ adminToken \in 1 .. changes + 1
  /\ cookie \in [token : 0 .. signIns, scopes : Scopes]
  /\ adminCookie \in 0 .. adminToken
  /\ clears \in 0 .. MaxClears
  /\ received \in 0 .. MaxSecrets
  /\ flash \in NoFlash .. received
  /\ shown \subseteq 1 .. received
  /\ disturbed \in BOOLEAN

TabInv(t) ==
  /\ tab[t].doing = "idle" => tab[t].form = "" /\ tab[t].page = ""
  /\ tab[t].doing = "posting" => tab[t].form \in Forms /\ tab[t].page = ""
  /\ tab[t].doing \in {"loading", "failed"} => tab[t].form = "" /\ tab[t].page # ""
  /\ tab[t].offers \subseteq {"sign-out"} \/ tab[t].doing = "idle"
  /\ tab[t].offers = {} \/ tab[t].doing \in {"idle", "failed"}
  /\ tab[t].session.token \in (0 .. signIns) \cup (1 .. adminToken)

TabsInv == tab \in [Tabs -> TabState] /\ \A t \in Tabs : TabInv(t)

Unseen == 1 .. received \ shown

\* While nothing got between a secret and its page: a form waits for its answer
\* with the session of now, and a secret nobody has seen is in the flash cookie,
\* safe from a clear request, and a tab loads, or failed to load, a page that
\* shows it.
SecretInv ==
  ~disturbed =>
    /\ \A t \in Tabs :
         tab[t].doing = "posting" /\ ~IsAdmin(tab[t].form)
           => tab[t].session = cookie
    /\ Unseen # {} =>
         /\ clears = 0
         /\ Unseen = {received} /\ flash = received
         /\ \E t \in Tabs, path \in Pages :
              /\ tab[t].doing \in {"loading", "failed"} /\ tab[t].page = path
              /\ Shows(path)

DashboardInv == BrowserInv /\ TabsInv /\ SecretInv
\* The names of the pages and the forms do not overlap with the absence of one.
LEMMA PagesAndForms ==
  /\ "sign-out" \in Buttons \ Forms
  /\ "" \notin Forms /\ "" \notin Pages \cup {"/"} /\ "/" \notin Pages
  /\ {"/overview", "/setup"} \subseteq Pages /\ Visited \subseteq Pages
  /\ \A form \in Forms : Back(form) \in Pages /\ Home(form) \in Pages \cup {"/"}
<1>1. /\ "" \notin Pages \cup {"/"} /\ "/" \notin Pages
      /\ {"/overview", "/setup"} \subseteq Pages
  BY DEF Pages
<1>2. {"", "sign-out"} \cap (PartnerForms \cup AdminForms) = {}
  BY DEF PartnerForms, AdminForms
<1>3. \A form \in Forms : Back(form) \in Pages /\ Home(form) \in Pages \cup {"/"}
  BY <1>1, FormsAssumption DEF Back, Home, IsAdmin
<1>. QED BY <1>1, <1>2, <1>3, FormsAssumption, VisitedAssumption DEF Buttons

\* What rendering a page does to its tab, to the flash message and to the count
\* of clear requests.
LEMMA Renderings ==
  ASSUME NEW t \in Tabs, Render(t)
  PROVE  /\ tab[t].doing = "loading"
         /\ \/ \E offers \in SUBSET Buttons : tab' = [tab EXCEPT ![t] = Idle(offers)]
            \/ \E offers \in SUBSET {"sign-out"} :
                 tab' = [tab EXCEPT ![t] = Failed(tab[t].page, offers)]
            \/ \E path \in {"/", "/overview"} :
                 tab' = [tab EXCEPT ![t] = Loading(path)]
         /\ \/ /\ UNCHANGED <<shown, clears>>
               /\ \/ flash = NoFlash \/ ~Shows(tab[t].page)
                  \/ \E offers \in SUBSET {"sign-out"} :
                       tab' = [tab EXCEPT ![t] = Failed(tab[t].page, offers)]
            \/ /\ clears < MaxClears /\ clears' = clears + 1
               /\ shown' = shown \cup ({flash} \cap 1 .. received)
<1> DEFINE
    Broken == \E offers \in SUBSET {"sign-out"} :
                tab' = [tab EXCEPT ![t] = Failed(tab[t].page, offers)]
    Settled ==
      \/ /\ UNCHANGED <<shown, clears>>
         /\ (flash = NoFlash \/ ~Shows(tab[t].page)) \/ Broken
      \/ /\ clears < MaxClears /\ clears' = clears + 1
         /\ shown' = shown \cup ({flash} \cap 1 .. received)
    Moved ==
      \/ \E offers \in SUBSET Buttons : tab' = [tab EXCEPT ![t] = Idle(offers)]
      \/ Broken
      \/ \E path \in {"/", "/overview"} : tab' = [tab EXCEPT ![t] = Loading(path)]
<1>1. tab[t].doing = "loading"
  BY DEF Render
<1>2. {"sign-in", "sign-out", "admin-sign-in", "admin-sign-out"} \subseteq Buttons
  BY DEF Buttons
<1>3. ASSUME NEW page, NEW buttons, Show(t, page, buttons)
      PROVE  /\ Moved
             /\ \/ UNCHANGED <<shown, clears>> /\ ~(page.banner /\ flash # NoFlash)
                \/ /\ clears < MaxClears /\ clears' = clears + 1
                   /\ shown' = shown \cup ({flash} \cap 1 .. received)
  BY <1>3 DEF Show
<1>4. ASSUME NEW buttons \in SUBSET {"sign-out"}, ShowError(t, buttons)
      PROVE  Moved /\ Settled
  BY <1>4 DEF ShowError
<1>5. ASSUME NEW path \in {"/", "/overview"}, Redirect(t, path)
      PROVE  Moved /\ UNCHANGED <<shown, clears>>
  BY <1>5 DEF Redirect
<1>. SUFFICES Moved /\ Settled
  BY <1>1
<1> HIDE DEF Moved
<1>6. CASE RenderHome(t)
  <2>1. ~Shows(tab[t].page)
    BY <1>6, PagesAndForms DEF RenderHome, Shows
  <2>2. Moved /\ UNCHANGED <<shown, clears>>
    BY <1>2, <1>5, <1>6 DEF RenderHome, Moved
  <2>. QED BY <2>1, <2>2
<1>7. CASE RenderAdmin(t)
  <2>1. ~Shows(tab[t].page)
    BY <1>7 DEF RenderAdmin, Shows, NoSession
  <2>2. CASE ShowError(t, {})
    BY <1>4, <2>2
  <2>3. CASE \E open, buttons :
               Show(t, AdminWorkspace(open), buttons)
    BY <1>3, <2>1, <2>3
  <2>. QED BY <1>7, <2>2, <2>3 DEF RenderAdmin
<1>8. CASE RenderPage(t)
  <2> DEFINE page == PageAt(tab[t].page, cookie, Account)
             frame == IF tab[t].page # "/setup" THEN {"sign-out"} ELSE {}
  <2> HIDE DEF page, frame
  <2>1. frame \in SUBSET {"sign-out"}
    BY DEF frame
  <2>2. IF cookie = NoSession
          THEN Redirect(t, "/")
          ELSE \/ ShowError(t, {})
               \/ /\ cookie.token \in live
                  /\ page.calls # {}
                  /\ ShowError(t, frame)
               \/ /\ cookie.token \in live
                  /\ AllAdmitted(page.calls)
                  /\ Show(t, page, frame)
    BY <1>8 DEF RenderPage, page, frame
  <2>3. Shows(tab[t].page) => cookie # NoSession /\ page.banner
    BY DEF Shows, NoSession, page
  <2>4. CASE cookie = NoSession
    BY <1>5, <2>2, <2>3, <2>4
  <2>5. CASE ShowError(t, {}) \/ ShowError(t, frame)
    BY <1>4, <2>1, <2>5
  <2>6. CASE Show(t, page, frame)
    BY <1>3, <2>3, <2>6
  <2>. QED BY <2>2, <2>4, <2>5, <2>6
<1>. QED BY <1>6, <1>7, <1>8 DEF Render

\* A secret is made by a form whose page shows it, if the session covers what
\* the form asks for.
LEMMA SecretPages ==
  ASSUME Known, NEW form \in PartnerForms, Actions[form].secret,
         AllAdmitted(Actions[form].calls), Covers(cookie, form)
  PROVE  LET page == PageAt(Actions[form].back, cookie, Account)
         IN  page.banner /\ AllAdmitted(page.calls)
<1>1. /\ Actions["create-credential"] = CreateCredentialAction
      /\ Actions["invite-user"] = InviteUserAction
      /\ Actions["create-webhook"] = CreateWebhookAction
      /\ Actions["rotate-secret"] = RotateSecretAction
  BY DEF Actions, PartnerForms
<1>2. form \in {"create-credential", "invite-user", "create-webhook", "rotate-secret"}
  BY DEF Actions, PartnerForms, FormAction, CreateCredentialAction,
     RevokeCredentialAction, RegisterSigningKeyAction, RevokeSigningKeyAction,
     InviteUserAction, UpdateUserAction, DeactivateUserAction, UpdateSecurityAction,
     CreateRecipientAction, UpdateRecipientAction, DisableRecipientAction,
     CreateDestinationAction, ReplaceDestinationAction, RevokeDestinationAction,
     CreateWebhookAction, TestWebhookAction, RotateSecretAction,
     WebhookStatusAction, ReplayDeliveryAction, CreateExportAction,
     RequestApprovalAction, CancelApprovalAction, PlatformsAction, BatchAction
<1>0. ASSUME NEW open, NEW before, NEW calls, NEW offers,
             open, AllAdmitted(before), AllAdmitted(calls)
      PROVE  LET page == Gated(open, before, calls, offers, TRUE)
             IN  page.banner /\ AllAdmitted(page.calls)
  BY <1>0 DEF Gated, Page, When, AllAdmitted
<1> USE DEF SecretAction
<1>3. CASE form = "create-credential"
  <2>1. /\ Actions[form].calls = {"issuePartnerApiCredential"}
        /\ Actions[form].back = "/access/api-keys"
    BY <1>1, <1>3 DEF CreateCredentialAction
  <2>2. Consumes /\ role \in Builders
    BY <2>1, CallsForUsers DEF ForCredentials, AllAdmitted
  <2>3. Client["issuePartnerApiCredential"].scopes = {"partners:write"}
    BY ClientParts, ClientFunctions DEF AccessClient, CreateApiCredential, Route
  <2>4. canAccessScope(cookie.scopes, {"partners:write"})
    BY <2>1, <2>3 DEF Covers, canAccessScope
  <2>5. AllAdmitted({"fetchPartnerApiCredentials"}) /\ AllAdmitted(ProfileAndMetadata)
    BY <2>2, CallsOfPages DEF ForCredentials, AllAdmitted
  <2>6. canAccessModule(Account, "api_keys")
    BY <2>2, ProfileTells
  <2>7. PageAt(Actions[form].back, cookie, Account) = ApiKeysPage(cookie, Account)
    BY <2>1, PagesAtPaths
  <2>. QED BY <1>0, <2>4, <2>5, <2>6, <2>7 DEF ApiKeysPage
<1>4. CASE form = "invite-user"
  <2>1. Actions[form].calls = {"invitePartnerUser"} /\ Actions[form].back = "/access/team"
    BY <1>1, <1>4 DEF InviteUserAction
  <2>2. role \in Managers
    BY <2>1, CallsForUsers DEF ForManagers, AllAdmitted
  <2>. QED BY <2>1, <2>2, PagesAtPaths, CallsOfPages
       DEF TeamPage, ForAll, ForManagers, Page, AllAdmitted
<1>5. CASE form = "create-webhook"
  <2>1. Actions[form].calls = {"createWebhookEndpoint"} /\ Actions[form].back = "/webhooks"
    BY <1>1, <1>5 DEF CreateWebhookAction
  <2>2. "webhooks" \in partner.capabilities
    BY <2>1, CallsForUsers DEF ForHookWriters, AllAdmitted
  <2>3. AllAdmitted({"fetchWebhookEndpoints"}) /\ AllAdmitted(ProfileAndMetadata)
    BY <2>2, CallsOfPages DEF ForHooks, AllAdmitted
  <2>4. "webhooks" \in Account.capabilities
    BY <2>2 DEF Account
  <2>5. PageAt(Actions[form].back, cookie, Account) = WebhooksPage(cookie, Account)
    BY <2>1, PagesAtPaths
  <2>. QED BY <1>0, <2>3, <2>4, <2>5 DEF WebhooksPage
<1>6. CASE form = "rotate-secret"
  <2>1. /\ Actions[form].calls = {"rotateWebhookSigningSecret"}
        /\ Actions[form].back = "/webhooks/id"
    BY <1>1, <1>6 DEF RotateSecretAction
  <2>2. "webhooks" \in partner.capabilities
    BY <2>1, CallsForUsers DEF ForHookWriters, AllAdmitted
  <2>3. AllAdmitted({"fetchWebhookEndpoint"}) /\ AllAdmitted(Profile)
    BY <2>2, CallsOfPages DEF ForHooks, AllAdmitted
  <2>4. canAccessModule(Account, "webhooks")
    BY <2>2, ProfileTells
  <2>5. PageAt(Actions[form].back, cookie, Account) = WebhookPage(cookie, Account)
    BY <2>1, PagesAtPaths
  <2>. QED BY <1>0, <2>3, <2>4, <2>5 DEF WebhookPage
<1>. QED BY <1>2, <1>3, <1>4, <1>5, <1>6
-----------------------------------------------------------------------------
(* The invariant is kept by every step.                                    *)

\* What a tab is while it shows a page, waits for an answer, or for a page.
LEMMA IdleTabs ==
  ASSUME NEW offers
  PROVE  /\ Idle(offers).doing = "idle" /\ Idle(offers).offers = offers
         /\ Idle(offers).form = "" /\ Idle(offers).page = ""
         /\ Idle(offers).session.token = 0
         /\ offers \in SUBSET Buttons => Idle(offers) \in TabState
  BY DEF Idle, NoSession, TabState, Scopes

LEMMA PostingTabs ==
  ASSUME NEW form, NEW session
  PROVE  /\ Posting(form, session).doing = "posting"
         /\ Posting(form, session).offers = {}
         /\ Posting(form, session).form = form /\ Posting(form, session).page = ""
         /\ Posting(form, session).session = session
         /\ form \in Forms /\ session \in [token : Nat, scopes : Scopes]
              => Posting(form, session) \in TabState
  BY DEF Posting, TabState

LEMMA LoadingTabs ==
  ASSUME NEW page
  PROVE  /\ Loading(page).doing = "loading" /\ Loading(page).offers = {}
         /\ Loading(page).form = "" /\ Loading(page).page = page
         /\ Loading(page).session.token = 0
         /\ page \in Pages \cup {"/"} => Loading(page) \in TabState
  BY DEF Loading, NoSession, TabState, Scopes

LEMMA FailedTabs ==
  ASSUME NEW page, NEW offers
  PROVE  /\ Failed(page, offers).doing = "failed"
         /\ Failed(page, offers).offers = offers
         /\ Failed(page, offers).form = "" /\ Failed(page, offers).page = page
         /\ Failed(page, offers).session.token = 0
         /\ page \in Pages \cup {"/"} /\ offers \in SUBSET Buttons
              => Failed(page, offers) \in TabState
  BY DEF Failed, NoSession, TabState, Scopes

\* A step that gives one tab another state.
LEMMA TabUpdates ==
  ASSUME TabsInv, NEW t \in Tabs, NEW state \in TabState,
         tab' = [tab EXCEPT ![t] = state]
  PROVE  /\ tab' \in [Tabs -> TabState]
         /\ tab'[t] = state
         /\ \A u \in Tabs \ {t} : tab'[u] = tab[u]
  BY DEF TabsInv

LEMMA InitDashboard == Init => DashboardInv
<1>. SUFFICES ASSUME Init PROVE DashboardInv
  OBVIOUS
<1>0. /\ MaxSignIns \in Nat /\ MaxChanges \in Nat /\ MaxClears \in Nat
      /\ MaxSecrets \in Nat
  BY UserAssumption
<1>1. BrowserInv
  <2>1. cookie \in [token : 0 .. signIns, scopes : Scopes]
    BY DEF Init, NoSession, Scopes
  <2>2. signIns \in 0 .. MaxSignIns /\ changes \in 0 .. MaxChanges
        /\ clears \in 0 .. MaxClears /\ received \in 0 .. MaxSecrets
    BY <1>0 DEF Init
  <2>3. adminToken \in 1 .. changes + 1 /\ adminCookie \in 0 .. adminToken
        /\ flash \in NoFlash .. received
    BY DEF Init, NoFlash
  <2>4. disturbed \in BOOLEAN
    BY DEF Init
  <2>5. live \subseteq 1 .. signIns /\ shown \subseteq 1 .. received
    BY DEF Init
  <2>6. partner \in Partners /\ role \in UserRoles
    BY DEF Init
  <2>. QED BY <2>1, <2>2, <2>3, <2>4, <2>5, <2>6 DEF BrowserInv
<1>2. TabsInv
  <2>1. Loading("/") \in TabState
    BY PagesAndForms DEF TabState, Loading, NoSession, Scopes
  <2>2. \A t \in Tabs : tab[t] = Loading("/")
    BY DEF Init
  <2>3. ASSUME NEW t \in Tabs
        PROVE  TabInv(t)
    <3> DEFINE first == Loading("/")
    <3>1. /\ first.doing = "loading" /\ first.form = "" /\ first.page = "/"
          /\ first.offers = {} /\ first.session.token = 0
      BY LoadingTabs
    <3>2. tab[t] = first
      BY <2>2
    <3> HIDE DEF first
    <3>3. 0 \in 0 .. signIns
      BY DEF Init
    <3>. QED BY <3>1, <3>2, <3>3 DEF TabInv
  <2>. QED BY <2>1, <2>3 DEF Init, TabsInv
<1>3. SecretInv
  <2>1. Unseen = {}
    BY DEF Init, Unseen
  <2>2. \A t \in Tabs : tab[t].doing = "loading"
    BY DEF Init, Loading
  <2>. QED BY <2>1, <2>2 DEF SecretInv
<1>. QED BY <1>1, <1>2, <1>3 DEF DashboardInv

LEMMA BrowserStep ==
  ASSUME BrowserInv, TabsInv, [Next]_vars
  PROVE  BrowserInv'
<1> USE UserAssumption DEF BrowserInv, backend, secrets
<1>1. ASSUME NEW t \in Tabs, loginAction(t)
      PROVE  BrowserInv'
  BY <1>1 DEF loginAction, Session, Scopes, Disturb
<1>2. ASSUME NEW t \in Tabs, logoutAction(t)
      PROVE  BrowserInv'
  BY <1>2 DEF logoutAction, NoSession, Scopes, Disturb
<1>3. ASSUME NEW t \in Tabs, adminSetupLoginAction(t)
      PROVE  BrowserInv'
  BY <1>3 DEF adminSetupLoginAction
<1>4. ASSUME NEW t \in Tabs, adminSetupLogoutAction(t)
      PROVE  BrowserInv'
  BY <1>4 DEF adminSetupLogoutAction, Disturb
<1>5. ASSUME NEW t \in Tabs, NEW form \in Forms, Submit(t, form)
      PROVE  BrowserInv'
  BY <1>5 DEF Submit
<1>6. ASSUME NEW t \in Tabs, AnswerSignedOut(t)
      PROVE  BrowserInv'
  BY <1>6 DEF AnswerSignedOut
<1>7. ASSUME NEW t \in Tabs, AnswerUnauthorized(t)
      PROVE  BrowserInv'
  BY <1>7 DEF AnswerUnauthorized, NoSession, NoFlash, Notice, Scopes, Disturb
<1>8. ASSUME NEW t \in Tabs, AnswerFailed(t)
      PROVE  BrowserInv'
  BY <1>8 DEF AnswerFailed, NoFlash, Notice, Overtake
<1>9. ASSUME NEW t \in Tabs, AnswerDone(t)
      PROVE  BrowserInv'
  <2>1. UNCHANGED <<backend, live, signIns, cookie, adminCookie, clears, shown>>
    BY <1>9 DEF AnswerDone
  <2>2. /\ received' \in 0 .. MaxSecrets /\ received' \in {received, received + 1}
        /\ flash' \in {Notice, received'}
    BY <1>9 DEF AnswerDone
  <2>3. disturbed' \in BOOLEAN
    BY <1>9 DEF AnswerDone, Overtake
  <2>. QED BY <2>1, <2>2, <2>3 DEF NoFlash, Notice
<1>10. ASSUME NEW t \in Tabs, NEW page \in Visited \cup {"/"}, Open(t, page)
       PROVE  BrowserInv'
  BY <1>10 DEF Open
<1>20. ASSUME NEW t \in Tabs, Reload(t)
       PROVE  BrowserInv'
  BY <1>20 DEF Reload
<1>11. ASSUME NEW t \in Tabs, Render(t)
       PROVE  BrowserInv'
  <2>1. UNCHANGED <<backend, live, signIns, cookie, adminCookie, flash, received,
                    disturbed>>
    BY <1>11 DEF Render
  <2>2. \/ UNCHANGED <<shown, clears>>
        \/ /\ clears < MaxClears /\ clears' = clears + 1
           /\ shown' = shown \cup ({flash} \cap 1 .. received)
    BY <1>11, Renderings
  <2>3. clears' \in 0 .. MaxClears
    BY <2>2
  <2>4. shown' \subseteq 1 .. received
    BY <2>2
  <2>. QED BY <2>1, <2>3, <2>4
<1>12. CASE ClearFlash
  BY <1>12 DEF ClearFlash, NoFlash
<1>13. CASE FlashExpires
  BY <1>13 DEF FlashExpires, NoFlash
<1>14. CASE CookieExpires
  BY <1>14 DEF CookieExpires, NoSession, Scopes, Disturb
<1>15. CASE ChangeRole
  BY <1>15 DEF ChangeRole, Change, Disturb
<1>16. CASE ChangePartner
  BY <1>16 DEF ChangePartner, Change, Disturb
<1>17. CASE EndSessions
  BY <1>17 DEF EndSessions, Change, Disturb
<1>18. CASE ChangeAdminToken
  BY <1>18 DEF ChangeAdminToken, Change, Disturb
<1>19. CASE UNCHANGED vars
  BY <1>19 DEF vars
<1>. QED BY <1>1, <1>2, <1>3, <1>4, <1>5, <1>6, <1>7, <1>8, <1>9, <1>10, <1>11, <1>12, <1>13, <1>14, <1>15, <1>16, <1>17, <1>18, <1>19,
        <1>20 DEF Next

LEMMA Numbers ==
  ASSUME BrowserInv
  PROVE  /\ signIns \in Nat /\ changes \in Nat /\ adminToken \in Nat
         /\ adminCookie \in Nat /\ clears \in Nat /\ received \in Nat
<1>1. /\ MaxSignIns \in Nat /\ MaxChanges \in Nat /\ MaxClears \in Nat
      /\ MaxSecrets \in Nat
  BY UserAssumption
<1>2. signIns \in Nat /\ changes \in Nat /\ clears \in Nat /\ received \in Nat
  BY <1>1 DEF BrowserInv
<1>3. adminToken \in Nat
  BY <1>2 DEF BrowserInv
<1>. QED BY <1>2, <1>3 DEF BrowserInv

LEMMA Ranges ==
  ASSUME NEW n \in Nat, NEW m \in {n, n + 1}
  PROVE  (0 .. n) \subseteq (0 .. m) /\ 0 \in 0 .. m
<1>1. m \in Nat /\ n <= m
  OBVIOUS
<1>. QED BY <1>1

\* The tokens only grow, so a tab that a step leaves alone keeps its invariant.
LEMMA TabsKept ==
  ASSUME BrowserInv, BrowserInv', TabsInv, NEW t \in Tabs, NEW state \in TabState,
         tab' = [tab EXCEPT ![t] = state],
         signIns' \in {signIns, signIns + 1}, adminToken' = adminToken,
         \/ /\ state.doing = "idle" /\ state.form = "" /\ state.page = ""
            /\ state.session.token = 0
         \/ /\ state.doing = "loading" /\ state.form = "" /\ state.page # ""
            /\ state.offers = {} /\ state.session.token = 0
         \/ /\ state.doing = "failed" /\ state.form = "" /\ state.page # ""
            /\ state.offers \subseteq {"sign-out"} /\ state.session.token = 0
         \/ /\ state.doing = "posting" /\ state.form \in Forms /\ state.page = ""
            /\ state.offers = {}
            /\ state.session.token \in (0 .. signIns) \cup (1 .. adminToken)
  PROVE  TabsInv'
<1>1. /\ tab' \in [Tabs -> TabState] /\ tab'[t] = state
      /\ \A u \in Tabs \ {t} : tab'[u] = tab[u]
  BY TabUpdates
<1>2. signIns \in Nat
  BY Numbers
<1>3. (0 .. signIns) \subseteq (0 .. signIns') /\ 0 \in 0 .. signIns'
  BY <1>2, Ranges
<1>4. ASSUME NEW u \in Tabs \ {t}
      PROVE  TabInv(u)'
  <2>1. tab'[u] = tab[u] /\ TabInv(u)
    BY <1>1 DEF TabsInv
  <2>. QED BY <1>3, <2>1 DEF TabInv
<1>5. TabInv(t)'
  BY <1>1, <1>3 DEF TabInv
<1>. QED BY <1>1, <1>4, <1>5 DEF TabsInv

\* A tab goes to wait for a page.
LEMMA TabsLoad ==
  ASSUME BrowserInv, BrowserInv', TabsInv, NEW t \in Tabs,
         NEW page \in Pages \cup {"/"}, tab' = [tab EXCEPT ![t] = Loading(page)],
         signIns' \in {signIns, signIns + 1}, adminToken' = adminToken
  PROVE  TabsInv'
<1>1. page # ""
  BY PagesAndForms
<1>. QED BY <1>1, LoadingTabs, TabsKept

LEMMA TabsStep ==
  ASSUME BrowserInv, BrowserInv', TabsInv, [Next]_vars
  PROVE  TabsInv'
<1>0. {"/", "/overview", "/setup"} \subseteq Pages \cup {"/"}
  BY PagesAndForms
<1>1. ASSUME NEW t \in Tabs, loginAction(t)
      PROVE  TabsInv'
  BY <1>0, <1>1, TabsLoad DEF loginAction, backend
<1>2. ASSUME NEW t \in Tabs, logoutAction(t)
      PROVE  TabsInv'
  BY <1>0, <1>2, TabsLoad DEF logoutAction, backend
<1>3. ASSUME NEW t \in Tabs, adminSetupLoginAction(t)
      PROVE  TabsInv'
  BY <1>0, <1>3, TabsLoad DEF adminSetupLoginAction, backend
<1>4. ASSUME NEW t \in Tabs, adminSetupLogoutAction(t)
      PROVE  TabsInv'
  BY <1>0, <1>4, TabsLoad DEF adminSetupLogoutAction, backend
<1>5. ASSUME NEW t \in Tabs, NEW form \in Forms, Submit(t, form)
      PROVE  TabsInv'
  <2> DEFINE session == IF IsAdmin(form) THEN [token |-> adminCookie, scopes |-> {}]
                                         ELSE cookie
  <2>1. /\ session \in [token : Nat, scopes : Scopes]
        /\ session.token \in (0 .. signIns) \cup (1 .. adminToken)
    <3>1. /\ adminCookie \in Nat /\ adminCookie \in (0 .. signIns) \cup (1 .. adminToken)
          /\ {} \in Scopes
      BY UserAssumption DEF BrowserInv, Scopes
    <3>2. /\ cookie \in [token : Nat, scopes : Scopes]
          /\ cookie.token \in 0 .. signIns
      BY UserAssumption DEF BrowserInv
    <3>. QED BY <3>1, <3>2
  <2> HIDE DEF session
  <2>2. /\ tab' = [tab EXCEPT ![t] = Posting(form, session)]
        /\ signIns' = signIns /\ adminToken' = adminToken
    BY <1>5 DEF Submit, backend, session
  <2> DEFINE state == Posting(form, session)
  <2>3. /\ state \in TabState /\ state.doing = "posting" /\ state.form \in Forms
        /\ state.page = "" /\ state.offers = {} /\ state.session = session
    <3>1. state \in TabState
      BY <2>1, PostingTabs
    <3>2. /\ state.doing = "posting" /\ state.form = form
          /\ state.page = "" /\ state.offers = {} /\ state.session = session
      BY DEF Posting
    <3> HIDE DEF state
    <3>. QED BY <3>1, <3>2
  <2>4. tab' = [tab EXCEPT ![t] = state]
    BY <2>2
  <2> HIDE DEF state
  <2>. QED BY <2>1, <2>2, <2>3, <2>4, TabsKept
<1>6. ASSUME NEW t \in Tabs, AnswerSignedOut(t)
      PROVE  TabsInv'
  <2>1. tab[t].form \in Forms
    BY <1>6 DEF AnswerSignedOut, TabsInv, TabInv
  <2>. QED BY <1>6, <2>1, PagesAndForms, TabsLoad DEF AnswerSignedOut, backend
<1>7. ASSUME NEW t \in Tabs, AnswerUnauthorized(t)
      PROVE  TabsInv'
  <2>1. tab[t].form \in Forms
    BY <1>7 DEF AnswerUnauthorized, TabsInv, TabInv
  <2>. QED BY <1>7, <2>1, PagesAndForms, TabsLoad DEF AnswerUnauthorized, backend
<1>8. ASSUME NEW t \in Tabs, AnswerFailed(t)
      PROVE  TabsInv'
  <2>1. tab[t].form \in Forms
    BY <1>8 DEF AnswerFailed, TabsInv, TabInv
  <2>. QED BY <1>8, <2>1, PagesAndForms, TabsLoad DEF AnswerFailed, backend
<1>9. ASSUME NEW t \in Tabs, AnswerDone(t)
      PROVE  TabsInv'
  <2>1. tab[t].form \in Forms
    BY <1>9 DEF AnswerDone, TabsInv, TabInv
  <2>. QED BY <1>9, <2>1, PagesAndForms, TabsLoad DEF AnswerDone, backend
<1>10. ASSUME NEW t \in Tabs, NEW page \in Visited \cup {"/"}, Open(t, page)
       PROVE  TabsInv'
  BY <1>10, PagesAndForms, TabsLoad DEF Open, backend
<1>14. ASSUME NEW t \in Tabs, Reload(t)
       PROVE  TabsInv'
  <2>1. tab[t].page \in Pages \cup {"/"}
    BY <1>14 DEF Reload, TabsInv, TabInv, TabState
  <2>. QED BY <1>14, <2>1, TabsLoad DEF Reload, backend
<1>11. ASSUME NEW t \in Tabs, Render(t)
       PROVE  TabsInv'
  <2>1. signIns' = signIns /\ adminToken' = adminToken
    BY <1>11 DEF Render, backend
  <2>2. CASE \E offers \in SUBSET Buttons : tab' = [tab EXCEPT ![t] = Idle(offers)]
    <3>1. PICK offers \in SUBSET Buttons : tab' = [tab EXCEPT ![t] = Idle(offers)]
      BY <2>2
    <3> DEFINE state == Idle(offers)
    <3>2. /\ state \in TabState /\ state.doing = "idle" /\ state.form = ""
          /\ state.page = "" /\ state.session.token = 0
      BY IdleTabs
    <3>3. tab' = [tab EXCEPT ![t] = state]
      BY <3>1
    <3> HIDE DEF state
    <3>. QED BY <2>1, <3>2, <3>3, TabsKept
  <2>3. CASE \E path \in {"/", "/overview"} : tab' = [tab EXCEPT ![t] = Loading(path)]
    BY <1>0, <2>1, <2>3, TabsLoad
  <2>4. CASE \E offers \in SUBSET {"sign-out"} :
               tab' = [tab EXCEPT ![t] = Failed(tab[t].page, offers)]
    <3>1. PICK offers \in SUBSET {"sign-out"} :
            tab' = [tab EXCEPT ![t] = Failed(tab[t].page, offers)]
      BY <2>4
    <3> DEFINE state == Failed(tab[t].page, offers)
    <3>2. tab[t].page \in Pages \cup {"/"} /\ tab[t].page # ""
      BY <1>11, Renderings DEF TabsInv, TabInv, TabState
    <3>3. /\ state \in TabState /\ state.doing = "failed" /\ state.form = ""
          /\ state.page # "" /\ state.offers \subseteq {"sign-out"}
          /\ state.session.token = 0
      <4>1. offers \in SUBSET Buttons
        BY PagesAndForms
      <4>2. state \in TabState
        BY <3>2, <4>1, FailedTabs
      <4>3. /\ state.doing = "failed" /\ state.form = ""
            /\ state.page = tab[t].page /\ state.offers = offers
            /\ state.session.token = 0
        BY DEF Failed, NoSession
      <4> HIDE DEF state
      <4>. QED BY <3>2, <4>2, <4>3
    <3>4. tab' = [tab EXCEPT ![t] = state]
      BY <3>1
    <3> HIDE DEF state
    <3>. QED BY <2>1, <3>3, <3>4, TabsKept
  <2>. QED BY <1>11, <2>2, <2>3, <2>4, Renderings
<1>12. CASE UNCHANGED <<tab, signIns>> /\ adminToken' \in {adminToken, adminToken + 1}
  <2>1. adminToken \in Nat
    BY UserAssumption DEF BrowserInv
  <2>2. (1 .. adminToken) \subseteq (1 .. adminToken')
    BY <1>12, <2>1
  <2>. QED BY <1>12, <2>2 DEF TabsInv, TabInv
<1>13. CASE ClearFlash \/ FlashExpires \/ CookieExpires \/ ChangeRole \/ ChangePartner
              \/ EndSessions \/ ChangeAdminToken \/ UNCHANGED vars
  BY <1>12, <1>13 DEF ClearFlash, FlashExpires, CookieExpires, ChangeRole,
     ChangePartner, EndSessions, ChangeAdminToken, Change, backend, vars
<1>. QED BY <1>1, <1>2, <1>3, <1>4, <1>5, <1>6, <1>7, <1>8, <1>9, <1>10, <1>11,
        <1>13, <1>14 DEF Next

\* With nothing unsettled, every secret was seen.
LEMMA NothingPending ==
  ASSUME BrowserInv, SecretInv, ~disturbed, ~Unsettled
  PROVE  Unseen = {}
<1>. SUFFICES ASSUME Unseen # {} PROVE FALSE
  OBVIOUS
<1>1. Unseen = {received} /\ flash = received
  BY DEF SecretInv
<1>. QED BY <1>1 DEF Unsettled, Unread, Unseen

\* Whether a page would show the flash message is up to the session, the role and
\* the partner.
LEMMA ShowsKept ==
  ASSUME NEW path, UNCHANGED <<partner, role, live, cookie>>
  PROVE  Shows(path)' <=> Shows(path)
<1>1. Account' = Account /\ Caller' = Caller
  BY DEF Account, Caller
<1>. QED BY <1>1 DEF Shows, AllAdmitted

\* A step that disturbs if a secret is pending or a form posted, and sends a tab
\* at most to another page.
LEMMA DisturbSteps ==
  ASSUME BrowserInv, TabsInv, SecretInv, Disturb, UNCHANGED secrets,
         \/ UNCHANGED tab
         \/ \E t \in Tabs, page \in Pages \cup {"/"} :
              tab' = [tab EXCEPT ![t] = Loading(page)]
  PROVE  SecretInv'
<1>. SUFFICES ASSUME ~disturbed' PROVE SecretInv'
  BY DEF SecretInv
<1>1. ~disturbed /\ ~Unsettled /\ \A t \in Tabs : tab[t].doing # "posting"
  BY DEF Disturb
<1>2. Unseen' = {}
  BY <1>1, NothingPending DEF Unseen, secrets
<1>3. \A t \in Tabs : tab'[t].doing # "posting"
  <2>1. CASE UNCHANGED tab
    BY <1>1, <2>1
  <2>2. ASSUME NEW t \in Tabs, NEW page \in Pages \cup {"/"},
               tab' = [tab EXCEPT ![t] = Loading(page)]
        PROVE  \A u \in Tabs : tab'[u].doing # "posting"
    <3> DEFINE state == Loading(page)
    <3>1. state \in TabState /\ state.doing = "loading"
      BY LoadingTabs
    <3> HIDE DEF state
    <3>. QED BY <1>1, <2>2, <3>1, TabUpdates DEF state
  <2>. QED BY <2>1, <2>2
<1>. QED BY <1>2, <1>3 DEF SecretInv

\* A step of a tab that does not wait for a page, with no answer from the backend:
\* if it posts a form, it does so with the session of now, and if it shows an
\* error in the place of a secret, it loads that page once more.
LEMMA CalmSteps ==
  ASSUME BrowserInv, TabsInv, SecretInv,
         UNCHANGED <<partner, role, live, cookie, flash, clears, received, shown>>,
         NEW t \in Tabs, NEW state \in TabState, tab' = [tab EXCEPT ![t] = state],
         tab[t].doing # "loading",
         \/ disturbed' = (disturbed \/ Withholds(t))
         \/ /\ disturbed' = disturbed
            /\ \/ tab[t].doing # "failed"
               \/ state.doing = "loading" /\ state.page = tab[t].page,
         state.doing = "posting" /\ ~IsAdmin(state.form) => state.session = cookie
  PROVE  SecretInv'
<1>. SUFFICES ASSUME ~disturbed' PROVE SecretInv'
  BY DEF SecretInv
<1>0. /\ ~disturbed
      /\ \/ ~Withholds(t)
         \/ state.doing = "loading" /\ state.page = tab[t].page
  <2>1. CASE disturbed' = (disturbed \/ Withholds(t))
    BY <2>1
  <2>2. CASE disturbed' = disturbed
    BY <2>2 DEF Withholds
  <2>. QED BY <2>1, <2>2
<1>1. tab'[t] = state /\ \A u \in Tabs \ {t} : tab'[u] = tab[u]
  BY TabUpdates
<1>2. ASSUME NEW u \in Tabs, tab'[u].doing = "posting", ~IsAdmin(tab'[u].form)
      PROVE  tab'[u].session = cookie'
  BY <1>0, <1>1, <1>2 DEF SecretInv
<1>3. ASSUME Unseen' # {}
      PROVE  /\ clears' = 0 /\ Unseen' = {received'} /\ flash' = received'
             /\ \E u \in Tabs, path \in Pages :
                  /\ tab'[u].doing \in {"loading", "failed"} /\ tab'[u].page = path
                  /\ Shows(path)'
  <2>1. Unseen' = Unseen
    BY DEF Unseen
  <2>2. clears = 0 /\ Unseen = {received} /\ flash = received
    BY <1>0, <1>3, <2>1 DEF SecretInv
  <2>3. PICK u \in Tabs, path \in Pages :
          /\ tab[u].doing \in {"loading", "failed"} /\ tab[u].page = path
          /\ Shows(path)
    BY <1>0, <1>3, <2>1 DEF SecretInv
  <2>4. Shows(path)'
    BY <2>3, ShowsKept
  <2>5. CASE u = t
    <3>1. tab[t].doing = "failed"
      BY <2>3, <2>5
    <3>2. Withholds(t)
      BY <2>2, <2>3, <2>5, <3>1 DEF Withholds, Unread, Unseen
    <3>3. tab'[t].doing = "loading" /\ tab'[t].page = path
      BY <1>0, <1>1, <2>3, <2>5, <3>2
    <3>. QED BY <2>1, <2>2, <2>4, <3>3
  <2>6. CASE u # t
    BY <1>1, <2>1, <2>2, <2>3, <2>4, <2>6
  <2>. QED BY <2>5, <2>6
<1>. QED BY <1>2, <1>3 DEF SecretInv

\* An answer that carries no secret.
LEMMA AnswerSteps ==
  ASSUME BrowserInv, TabsInv, SecretInv, Overtake,
         UNCHANGED <<cookie, received, shown>>,
         NEW t \in Tabs, NEW page \in Pages \cup {"/"},
         tab' = [tab EXCEPT ![t] = Loading(page)]
  PROVE  SecretInv'
<1>. SUFFICES ASSUME ~disturbed' PROVE SecretInv'
  BY DEF SecretInv
<1>1. ~disturbed /\ ~Unsettled
  BY DEF Overtake
<1>2. Unseen' = {}
  BY <1>1, NothingPending DEF Unseen
<1> DEFINE state == Loading(page)
<1>3. state \in TabState /\ state.doing = "loading"
  BY LoadingTabs
<1> HIDE DEF state
<1>4. tab'[t] = state /\ \A u \in Tabs \ {t} : tab'[u] = tab[u]
  BY <1>3, TabUpdates DEF state
<1>5. ASSUME NEW u \in Tabs, tab'[u].doing = "posting", ~IsAdmin(tab'[u].form)
      PROVE  tab'[u].session = cookie'
  BY <1>1, <1>3, <1>4, <1>5 DEF SecretInv
<1>. QED BY <1>2, <1>5 DEF SecretInv

\* An answer that carries one.
LEMMA SecretSteps ==
  ASSUME BrowserInv, BrowserInv', TabsInv, SecretInv, NEW t \in Tabs, AnswerDone(t),
         ~IsAdmin(tab[t].form), Actions[tab[t].form].secret
  PROVE  SecretInv'
<1>. SUFFICES ASSUME ~disturbed' PROVE SecretInv'
  BY DEF SecretInv
<1>1. PICK form \in Forms : tab[t].form = form
  BY DEF AnswerDone, TabsInv, TabInv
<1>2. /\ tab[t].doing = "posting" /\ tab[t].session.token # 0
      /\ tab[t].session.token \in live /\ AllAdmitted(Actions[form].calls)
      /\ received' = received + 1 /\ flash' = received'
      /\ disturbed' = (disturbed \/ Unsettled \/ ~Covers(cookie, form))
      /\ tab' = [tab EXCEPT ![t] = Loading(Back(form))]
      /\ UNCHANGED <<partner, role, live, cookie, clears, shown>>
  BY <1>1 DEF AnswerDone, Accepts, backend
<1>3. ~disturbed /\ ~Unsettled /\ Covers(cookie, form)
  BY <1>2
<1>4. tab[t].session = cookie
  BY <1>1, <1>2, <1>3 DEF SecretInv
<1>5. Unseen = {} /\ clears = 0
  <2>1. clears \in Nat
    BY Numbers
  <2>. QED BY <1>3, <2>1, NothingPending DEF Unsettled
<1>6. Unseen' = {received'}
  <2>1. received \in Nat /\ shown \subseteq 1 .. received
    BY Numbers DEF BrowserInv
  <2>. QED BY <1>2, <1>5, <2>1 DEF Unseen
<1>7. form \in PartnerForms /\ Back(form) = Actions[form].back /\ Back(form) \in Pages
  BY <1>1, FormsAssumption, PagesAndForms DEF IsAdmin, Back
<1>8. PICK path \in Pages : path = Back(form)
  BY <1>7
<1>9. Known
  BY UserAssumption, PartnersAssumption DEF BrowserInv, Known
<1>10. Shows(path)
  BY <1>1, <1>2, <1>3, <1>4, <1>7, <1>8, <1>9, SecretPages DEF Shows
<1>11. Shows(path)'
  BY <1>2, <1>10, ShowsKept
<1> DEFINE state == Loading(path)
<1>12. state \in TabState /\ state.doing = "loading" /\ state.page = path
  BY LoadingTabs
<1>13. tab' = [tab EXCEPT ![t] = state]
  BY <1>2, <1>8
<1> HIDE DEF state
<1>14. tab'[t] = state /\ \A u \in Tabs \ {t} : tab'[u] = tab[u]
  BY <1>12, <1>13, TabUpdates
<1>15. ASSUME NEW u \in Tabs, tab'[u].doing = "posting", ~IsAdmin(tab'[u].form)
       PROVE  tab'[u].session = cookie'
  BY <1>2, <1>3, <1>12, <1>14, <1>15 DEF SecretInv
<1>16. \E u \in Tabs, p \in Pages :
         /\ tab'[u].doing \in {"loading", "failed"} /\ tab'[u].page = p
         /\ Shows(p)'
  BY <1>11, <1>12, <1>14
<1>. QED BY <1>2, <1>5, <1>6, <1>15, <1>16 DEF SecretInv
\* A page: it shows the secret, or another tab still waits for one that does.
LEMMA RenderSteps ==
  ASSUME BrowserInv, TabsInv, SecretInv, NEW t \in Tabs, Render(t)
  PROVE  SecretInv'
<1>. SUFFICES ASSUME ~disturbed' PROVE SecretInv'
  BY DEF SecretInv
<1>1. UNCHANGED <<partner, role, live, cookie, flash, received, disturbed>>
  BY DEF Render, backend
<1>2. PICK state \in TabState :
        /\ tab' = [tab EXCEPT ![t] = state]
        /\ state.doing # "posting"
  <2>1. CASE \E offers \in SUBSET Buttons : tab' = [tab EXCEPT ![t] = Idle(offers)]
    <3>1. PICK offers \in SUBSET Buttons : tab' = [tab EXCEPT ![t] = Idle(offers)]
      BY <2>1
    <3>2. Idle(offers) \in TabState /\ Idle(offers).doing = "idle"
      BY IdleTabs
    <3>. QED BY <3>1, <3>2
  <2>2. CASE \E path \in {"/", "/overview"} : tab' = [tab EXCEPT ![t] = Loading(path)]
    <3>1. PICK path \in {"/", "/overview"} : tab' = [tab EXCEPT ![t] = Loading(path)]
      BY <2>2
    <3>2. path \in Pages \cup {"/"}
      BY PagesAndForms
    <3>3. Loading(path) \in TabState /\ Loading(path).doing = "loading"
      BY <3>2, LoadingTabs
    <3>. QED BY <3>1, <3>3
  <2>3. CASE \E offers \in SUBSET {"sign-out"} :
               tab' = [tab EXCEPT ![t] = Failed(tab[t].page, offers)]
    <3>1. PICK offers \in SUBSET {"sign-out"} :
            tab' = [tab EXCEPT ![t] = Failed(tab[t].page, offers)]
      BY <2>3
    <3>2. tab[t].page \in Pages \cup {"/"} /\ offers \in SUBSET Buttons
      BY PagesAndForms, Renderings DEF TabsInv, TabInv, TabState
    <3> DEFINE broken == Failed(tab[t].page, offers)
    <3>3. broken \in TabState
      BY <3>2, FailedTabs
    <3>4. broken.doing = "failed"
      BY DEF Failed
    <3>5. tab' = [tab EXCEPT ![t] = broken]
      BY <3>1
    <3> HIDE DEF broken
    <3>. QED BY <3>3, <3>4, <3>5
  <2>. QED BY <2>1, <2>2, <2>3, Renderings
<1>3. tab'[t] = state /\ \A u \in Tabs \ {t} : tab'[u] = tab[u]
  BY <1>2, TabUpdates
<1>4. ASSUME NEW u \in Tabs, tab'[u].doing = "posting", ~IsAdmin(tab'[u].form)
      PROVE  tab'[u].session = cookie'
  BY <1>1, <1>2, <1>3, <1>4 DEF SecretInv
<1>5. CASE /\ UNCHANGED <<shown, clears>>
           /\ \/ flash = NoFlash \/ ~Shows(tab[t].page)
              \/ \E offers \in SUBSET {"sign-out"} :
                   tab' = [tab EXCEPT ![t] = Failed(tab[t].page, offers)]
  <2>1. ASSUME Unseen' # {}
        PROVE  /\ clears' = 0 /\ Unseen' = {received'} /\ flash' = received'
               /\ \E u \in Tabs, path \in Pages :
                    /\ tab'[u].doing \in {"loading", "failed"}
                    /\ tab'[u].page = path
                    /\ Shows(path)'
    <3>1. Unseen' = Unseen
      BY <1>1, <1>5 DEF Unseen
    <3>2. clears = 0 /\ Unseen = {received} /\ flash = received
      BY <1>1, <2>1, <3>1 DEF SecretInv
    <3>3. flash # NoFlash
      BY <3>2, Numbers DEF NoFlash
    <3>4. PICK u \in Tabs, path \in Pages :
            /\ tab[u].doing \in {"loading", "failed"} /\ tab[u].page = path
            /\ Shows(path)
      BY <1>1, <2>1, <3>1 DEF SecretInv
    <3>5. Shows(path)'
      BY <1>1, <3>4, ShowsKept
    <3>6. CASE u # t
      BY <1>1, <1>3, <1>5, <3>1, <3>2, <3>4, <3>5, <3>6
    <3>7. CASE u = t
      <4>1. PICK offers \in SUBSET {"sign-out"} :
              tab' = [tab EXCEPT ![t] = Failed(path, offers)]
        BY <1>5, <3>3, <3>4, <3>7
      <4>2. state = Failed(path, offers)
        BY <1>3, <4>1 DEF TabsInv
      <4>3. tab'[t].doing = "failed" /\ tab'[t].page = path
        <5> DEFINE broken == Failed(path, offers)
        <5>1. broken.doing = "failed" /\ broken.page = path
          BY DEF Failed
        <5>2. tab'[t] = broken
          BY <1>3, <4>2
        <5> HIDE DEF broken
        <5>. QED BY <5>1, <5>2
      <4>. QED BY <1>1, <1>5, <3>1, <3>2, <3>5, <4>3
    <3>. QED BY <3>6, <3>7
  <2>. QED BY <1>4, <2>1 DEF SecretInv
<1>6. CASE shown' = shown \cup ({flash} \cap 1 .. received)
  <2>1. Unseen = {} \/ (Unseen = {received} /\ flash = received)
    BY <1>1 DEF SecretInv
  <2>2. Unseen' = {}
    BY <1>1, <1>6, <2>1 DEF Unseen
  <2>. QED BY <1>4, <2>2 DEF SecretInv
<1>. QED BY <1>5, <1>6, Renderings

LEMMA SecretStep ==
  ASSUME BrowserInv, BrowserInv', TabsInv, SecretInv, [Next]_vars
  PROVE  SecretInv'
<1>0. {"/", "/overview", "/setup"} \subseteq Pages \cup {"/"}
  BY PagesAndForms
<1>1. ASSUME NEW t \in Tabs,
             loginAction(t) \/ logoutAction(t) \/ adminSetupLogoutAction(t)
      PROVE  SecretInv'
  BY <1>0, <1>1, DisturbSteps DEF loginAction, logoutAction, adminSetupLogoutAction
<1>2. ASSUME NEW t \in Tabs, adminSetupLoginAction(t)
      PROVE  SecretInv'
  <2>1. /\ tab' = [tab EXCEPT ![t] = Loading("/setup")] /\ tab[t].offers # {}
        /\ UNCHANGED <<partner, role, live, cookie, flash, clears, received, shown,
                       disturbed>>
    BY <1>2 DEF adminSetupLoginAction, backend, secrets
  <2>2. tab[t].doing \notin {"loading", "failed"}
    BY <1>2 DEF adminSetupLoginAction, TabsInv, TabInv
  <2> DEFINE state == Loading("/setup")
  <2>3. state \in TabState /\ state.doing = "loading"
    BY <1>0, LoadingTabs
  <2>4. tab' = [tab EXCEPT ![t] = state]
    BY <2>1
  <2> HIDE DEF state
  <2>. QED BY <2>1, <2>2, <2>3, <2>4, CalmSteps
<1>3. ASSUME NEW t \in Tabs, NEW form \in Forms, Submit(t, form)
      PROVE  SecretInv'
  <2> DEFINE session == IF IsAdmin(form) THEN [token |-> adminCookie, scopes |-> {}]
                                         ELSE cookie
             state == Posting(form, session)
  <2>1. session \in [token : Nat, scopes : Scopes]
    <3>1. adminCookie \in Nat /\ {} \in Scopes
      BY Numbers DEF Scopes
    <3>2. cookie \in [token : Nat, scopes : Scopes]
      BY Numbers DEF BrowserInv
    <3>. QED BY <3>1, <3>2
  <2>2. ~IsAdmin(form) => session = cookie
    OBVIOUS
  <2>3. /\ tab' = [tab EXCEPT ![t] = state] /\ tab[t].offers # {}
        /\ UNCHANGED <<partner, role, live, cookie, flash, clears, received, shown,
                       disturbed>>
    BY <1>3 DEF Submit, backend, secrets
  <2> HIDE DEF session
  <2>4. state \in TabState
    BY <2>1, PostingTabs
  <2>5. state.form = form /\ state.session = session
    BY DEF Posting
  <2>6. tab[t].doing \notin {"loading", "failed"}
    BY <1>3, PagesAndForms DEF Submit, TabsInv, TabInv
  <2> HIDE DEF state
  <2>. QED BY <2>2, <2>3, <2>4, <2>5, <2>6, CalmSteps
<1>4. ASSUME NEW t \in Tabs, AnswerSignedOut(t)
      PROVE  SecretInv'
  <2>1. tab[t].form \in Forms
    BY <1>4 DEF AnswerSignedOut, TabsInv, TabInv
  <2> DEFINE state == Loading(Home(tab[t].form))
  <2>2. state \in TabState /\ state.doing = "loading"
    BY <2>1, PagesAndForms, LoadingTabs
  <2>3. /\ tab' = [tab EXCEPT ![t] = state]
        /\ tab[t].doing \notin {"loading", "failed"}
        /\ UNCHANGED <<partner, role, live, cookie, flash, clears, received, shown,
                       disturbed>>
    BY <1>4 DEF AnswerSignedOut, backend, secrets
  <2> HIDE DEF state
  <2>. QED BY <2>2, <2>3, CalmSteps
<1>5. ASSUME NEW t \in Tabs, AnswerUnauthorized(t)
      PROVE  SecretInv'
  <2>1. Home(tab[t].form) \in Pages \cup {"/"}
    BY <1>5, PagesAndForms DEF AnswerUnauthorized, TabsInv, TabInv
  <2>. QED BY <1>5, <2>1, DisturbSteps DEF AnswerUnauthorized
<1>6. ASSUME NEW t \in Tabs, AnswerFailed(t)
      PROVE  SecretInv'
  <2>1. Back(tab[t].form) \in Pages \cup {"/"}
    BY <1>6, PagesAndForms DEF AnswerFailed, TabsInv, TabInv
  <2>. QED BY <1>6, <2>1, AnswerSteps DEF AnswerFailed, secrets
<1>7. ASSUME NEW t \in Tabs, AnswerDone(t)
      PROVE  SecretInv'
  <2>1. Back(tab[t].form) \in Pages \cup {"/"}
    BY <1>7, PagesAndForms DEF AnswerDone, TabsInv, TabInv
  <2>2. CASE ~IsAdmin(tab[t].form) /\ Actions[tab[t].form].secret
    BY <1>7, <2>2, SecretSteps
  <2>3. CASE ~(~IsAdmin(tab[t].form) /\ Actions[tab[t].form].secret)
    BY <1>7, <2>1, <2>3, AnswerSteps DEF AnswerDone
  <2>. QED BY <2>2, <2>3
<1>8. ASSUME NEW t \in Tabs, NEW page \in Visited \cup {"/"}, Open(t, page)
      PROVE  SecretInv'
  <2> DEFINE state == Loading(page)
  <2>1. state \in TabState /\ state.doing = "loading"
    BY PagesAndForms, LoadingTabs
  <2>2. /\ tab' = [tab EXCEPT ![t] = state] /\ tab[t].doing # "loading"
        /\ UNCHANGED <<partner, role, live, cookie, flash, clears, received, shown>>
        /\ disturbed' = (disturbed \/ Withholds(t))
    BY <1>8 DEF Open, backend, secrets
  <2> HIDE DEF state
  <2>. QED BY <2>1, <2>2, CalmSteps
<1>14. ASSUME NEW t \in Tabs, Reload(t)
       PROVE  SecretInv'
  <2> DEFINE state == Loading(tab[t].page)
  <2>1. tab[t].page \in Pages \cup {"/"}
    BY <1>14 DEF Reload, TabsInv, TabInv, TabState
  <2>2. state \in TabState /\ state.doing = "loading" /\ state.page = tab[t].page
    BY <2>1, LoadingTabs
  <2>3. /\ tab' = [tab EXCEPT ![t] = state] /\ tab[t].doing # "loading"
        /\ UNCHANGED <<partner, role, live, cookie, flash, clears, received, shown,
                       disturbed>>
    BY <1>14 DEF Reload, backend, secrets
  <2> HIDE DEF state
  <2>. QED BY <2>2, <2>3, CalmSteps
<1>9. ASSUME NEW t \in Tabs, Render(t)
      PROVE  SecretInv'
  BY <1>9, RenderSteps
<1>10. CASE ClearFlash
  <2>1. clears # 0
    BY <1>10, Numbers DEF ClearFlash
  <2>. QED BY <1>10, <2>1 DEF ClearFlash, SecretInv, Unseen, secrets
<1>11. CASE FlashExpires
  <2>. SUFFICES ASSUME ~disturbed' PROVE SecretInv'
    BY DEF SecretInv
  <2>1. /\ ~disturbed /\ \A t \in Tabs : ~Withholds(t)
        /\ \A t \in Tabs : tab[t].doing \in {"idle", "failed"}
        /\ UNCHANGED <<tab, cookie, clears, received, shown>>
    BY <1>11 DEF FlashExpires, secrets
  <2>2. ASSUME Unseen # {}
        PROVE  FALSE
    <3>1. Unread
      BY <2>1, <2>2 DEF SecretInv, Unread, Unseen
    <3>2. PICK t \in Tabs : tab[t].doing \in {"loading", "failed"}
                          /\ Shows(tab[t].page)
      BY <2>1, <2>2 DEF SecretInv
    <3>. QED BY <2>1, <3>1, <3>2 DEF Withholds
  <2>. QED BY <2>1, <2>2 DEF SecretInv, Unseen
<1>12. CASE CookieExpires \/ ChangeRole \/ ChangePartner \/ EndSessions
              \/ ChangeAdminToken
  BY <1>12, DisturbSteps DEF CookieExpires, ChangeRole, ChangePartner, EndSessions,
     ChangeAdminToken, Change
<1>13. CASE UNCHANGED vars
  <2>1. /\ UNCHANGED <<partner, role, live, cookie>>
        /\ UNCHANGED <<tab, clears, flash, received, shown, disturbed>>
    BY <1>13 DEF vars
  <2>. QED BY <2>1, ShowsKept DEF SecretInv, Unseen
<1>. QED BY <1>1, <1>2, <1>3, <1>4, <1>5, <1>6, <1>7, <1>8, <1>9, <1>10, <1>11,
        <1>12, <1>13, <1>14 DEF Next

-----------------------------------------------------------------------------
(* The theorems.                                                           *)

\* Every state of the browser is as the invariant says.
THEOREM BrowserInvariance == Spec => []DashboardInv
<1>1. DashboardInv /\ [Next]_vars => DashboardInv'
  BY BrowserStep, TabsStep, SecretStep DEF DashboardInv
<1>. QED BY <1>1, InitDashboard, PTL DEF Spec
\* The type invariant of the run.
THEOREM DashboardTypes == Spec => []TypeOK
<1>1. ASSUME DashboardInv
      PROVE  TypeOK
  <2>. /\ BrowserInv /\ TabsInv
    BY <1>1 DEF DashboardInv
  <2>1. MaxChanges \in Nat
    BY UserAssumption
  <2>2. adminToken \in 1 .. MaxChanges + 1
    BY <2>1, Numbers DEF BrowserInv
  <2>3. cookie.token \in 0 .. signIns /\ cookie.scopes \in Scopes
    BY DEF BrowserInv
  <2>4. ASSUME NEW t \in Tabs
        PROVE  /\ tab[t].doing \in {"idle", "posting", "loading", "failed"}
               /\ tab[t].offers \subseteq Buttons
               /\ tab[t].doing = "posting" <=> tab[t].form \in Forms
               /\ tab[t].doing \in {"loading", "failed"}
                    <=> tab[t].page \in Pages \cup {"/"}
               /\ tab[t].session.token \in (0 .. signIns) \cup (1 .. adminToken)
    <3>1. tab[t] \in TabState /\ TabInv(t)
      BY DEF TabsInv
    <3>. QED BY <3>1, PagesAndForms DEF TabState, TabInv
  <2>5. DOMAIN tab = Tabs
    BY DEF TabsInv
  <2>. QED BY <2>2, <2>3, <2>4, <2>5 DEF TypeOK, BrowserInv, Scopes
<1>. QED BY <1>1, BrowserInvariance, PTL

\* Every link of the dashboard leads to a page that opens, for every partner, role
\* and history of the session, as long as the session is up to date: the backend
\* admits every call the page makes.
THEOREM LinksOpen == Spec => []NavigationIsHonest
<1>1. ASSUME DashboardInv
      PROVE  NavigationIsHonest
  <2>. SUFFICES ASSUME UpToDate, NEW path \in Reachable(cookie, Account)
                PROVE  \/ AllAdmitted(PageAt(path, cookie, Account).calls)
                       \/ /\ path = "/resolution/logs"
                          /\ partner.capabilities \cap {"sandbox", "production"} = {}
    BY DEF NavigationIsHonest
  <2>1. Known /\ cookie.scopes = RoleScopes(role)
    BY <1>1, UserAssumption, PartnersAssumption
       DEF DashboardInv, BrowserInv, Known, UpToDate
  <2>2. Opens(path) \/ (path = "/resolution/logs" /\ ~Environment)
    BY <2>1, WhatLinksTell, PagesKeepTheirPromises
  <2>. QED BY <2>2 DEF Opens, Environment
<1>. QED BY <1>1, BrowserInvariance, PTL

\* And every form such a page offers is one the user may send.
THEOREM FormsMayBeSent == Spec => []FormsAreHonest
<1>1. ASSUME DashboardInv
      PROVE  FormsAreHonest
  <2>. SUFFICES ASSUME UpToDate, NEW path \in Reachable(cookie, Account)
                PROVE  \A form \in PageAt(path, cookie, Account).offers :
                         AllAdmitted(Actions[form].calls)
    BY DEF FormsAreHonest
  <2>1. Known /\ cookie.scopes = RoleScopes(role)
    BY <1>1, UserAssumption, PartnersAssumption
       DEF DashboardInv, BrowserInv, Known, UpToDate
  <2>2. Honest(path)
    BY <2>1, WhatLinksTell, PagesKeepTheirPromises
  <2>. QED BY <2>2 DEF Honest, Sendable
<1>. QED BY <1>1, BrowserInvariance, PTL

\* A secret the backend made is in the flash cookie, and a tab is on its way to a
\* page that shows it or shows an error in its place, until the user has seen it:
\* whatever the pages and forms, the other tabs, the failures and the changes of
\* the backend, as long as nothing gets between.
THEOREM SecretsReachTheUser == Spec => []SecretsAreShown
<1>1. ASSUME DashboardInv
      PROVE  SecretsAreShown
  <2>. SUFFICES ASSUME ~disturbed, NEW secret \in 1 .. received \ shown
                PROVE  /\ flash = secret
                       /\ \E t \in Tabs :
                            /\ tab[t].doing \in {"loading", "failed"}
                            /\ Shows(tab[t].page)
    BY DEF SecretsAreShown
  <2>1. Unseen # {} /\ secret \in Unseen
    BY DEF Unseen
  <2>. QED BY <1>1, <2>1 DEF DashboardInv, SecretInv
<1>. QED BY <1>1, BrowserInvariance, PTL

-----------------------------------------------------------------------------
(* Locked out *)

\* The browser holds the cookie of a session that the backend has ended, and
\* no tab shows a page with a form on it or waits for the answer to one.
LockedOut ==
  /\ cookie # NoSession
  /\ cookie.token \notin live
  /\ \A t \in Tabs : tab[t].doing # "posting" /\ tab[t].offers = {}

\* Only the end of the cookie ends it: opening or reloading any page, in any
\* tab, leads to an error page or back to the overview, and offers no form,
\* neither the one for signing in nor the one for signing out.
LockoutLasts ==
  [][LockedOut /\ ~LockedOut' => CookieExpires /\ cookie' = NoSession]_vars

LEMMA LockedTabs ==
  ASSUME LockedOut, TabsInv, NEW t \in Tabs, NEW state,
         state.doing # "posting", state.offers = {},
         tab' = [tab EXCEPT ![t] = state], UNCHANGED <<cookie, live>>
  PROVE  LockedOut'
  <1>1. \A u \in Tabs : tab'[u] = state \/ tab'[u] = tab[u]
    BY DEF TabsInv
  <1>. QED BY <1>1 DEF LockedOut

\* A dead session renders no page: the home page redirects, every other fails.
LEMMA LockedRender ==
  ASSUME LockedOut, NEW t \in Tabs, Render(t)
  PROVE  /\ UNCHANGED <<cookie, live>>
         /\ \/ tab' = [tab EXCEPT ![t] = Loading("/overview")]
            \/ tab' = [tab EXCEPT ![t] = Failed(tab[t].page, {})]
<1>1. UNCHANGED <<cookie, live>>
  BY DEF Render
<1>2. CASE RenderHome(t)
  BY <1>1, <1>2 DEF RenderHome, Redirect, LockedOut
<1>3. CASE RenderAdmin(t)
  BY <1>3 DEF RenderAdmin, LockedOut
<1>4. CASE RenderPage(t)
  <2>1. ShowError(t, {})
    BY <1>4, Zenon DEF RenderPage, LockedOut
  <2>. QED BY <1>1, <2>1 DEF ShowError
<1>5. RenderHome(t) \/ RenderAdmin(t) \/ RenderPage(t)
  BY Zenon DEF Render
<1>. QED BY <1>2, <1>3, <1>4, <1>5, Zenon

LEMMA LockoutStep ==
  ASSUME LockedOut, TabsInv, Next
  PROVE  LockedOut' \/ (CookieExpires /\ cookie' = NoSession)
<1>. DEFINE Goal == LockedOut' \/ (CookieExpires /\ cookie' = NoSession)
<1>1. ASSUME NEW t \in Tabs,
             \/ loginAction(t) \/ logoutAction(t)
             \/ adminSetupLoginAction(t) \/ adminSetupLogoutAction(t)
             \/ \E form \in Forms : Submit(t, form)
      PROVE  Goal
  BY <1>1 DEF LockedOut, loginAction, logoutAction, adminSetupLoginAction,
       adminSetupLogoutAction, Submit
<1>2. ASSUME NEW t \in Tabs,
             \/ AnswerSignedOut(t) \/ AnswerUnauthorized(t)
             \/ AnswerFailed(t) \/ AnswerDone(t)
      PROVE  Goal
  BY <1>2 DEF LockedOut, AnswerSignedOut, AnswerUnauthorized, AnswerFailed,
       AnswerDone
<1>3. ASSUME NEW t \in Tabs, NEW page \in Visited \cup {"/"}, Open(t, page)
      PROVE  Goal
  <2>1. /\ tab' = [tab EXCEPT ![t] = Loading(page)]
        /\ UNCHANGED <<cookie, live>>
    BY <1>3 DEF Open
  <2>. QED BY <2>1, LoadingTabs, LockedTabs
<1>9. ASSUME NEW t \in Tabs, Reload(t)
      PROVE  Goal
  <2> DEFINE state == Loading(tab[t].page)
  <2>1. tab' = [tab EXCEPT ![t] = state] /\ UNCHANGED <<cookie, live>>
    BY <1>9 DEF Reload
  <2>2. state.doing = "loading" /\ state.offers = {}
    BY DEF Loading
  <2> HIDE DEF state
  <2>. QED BY <2>1, <2>2, LockedTabs
<1>4. ASSUME NEW t \in Tabs, Render(t)
      PROVE  Goal
  <2>1. UNCHANGED <<cookie, live>>
    BY <1>4, LockedRender
  <2>2. CASE tab' = [tab EXCEPT ![t] = Loading("/overview")]
    <3>. DEFINE state == Loading("/overview")
    <3>1. state.doing = "loading" /\ state.offers = {}
      BY DEF Loading
    <3>. HIDE DEF state
    <3>2. tab' = [tab EXCEPT ![t] = state]
      BY <2>2 DEF state
    <3>. QED BY <2>1, <3>1, <3>2, LockedTabs
  <2>3. CASE tab' = [tab EXCEPT ![t] = Failed(tab[t].page, {})]
    <3>. DEFINE state == Failed(tab[t].page, {})
    <3>1. state.doing = "failed" /\ state.offers = {}
      BY DEF Failed
    <3>. HIDE DEF state
    <3>2. tab' = [tab EXCEPT ![t] = state]
      BY <2>3 DEF state
    <3>. QED BY <2>1, <3>1, <3>2, LockedTabs
  <2>4. \/ tab' = [tab EXCEPT ![t] = Loading("/overview")]
        \/ tab' = [tab EXCEPT ![t] = Failed(tab[t].page, {})]
    BY <1>4, LockedRender
  <2>. QED BY <2>2, <2>3, <2>4
<1>5. ASSUME UNCHANGED <<cookie, tab>>, live' \in {live, {}}
      PROVE  LockedOut'
  BY <1>5 DEF LockedOut
<1>6. CASE ClearFlash \/ FlashExpires
  BY <1>5, <1>6 DEF ClearFlash, FlashExpires
<1>7. CASE CookieExpires
  BY <1>5, <1>7 DEF CookieExpires
<1>8. CASE ChangeRole \/ ChangePartner \/ EndSessions \/ ChangeAdminToken
  BY <1>5, <1>8 DEF ChangeRole, ChangePartner, EndSessions, ChangeAdminToken,
       Change
<1>. QED BY <1>1, <1>2, <1>3, <1>4, <1>6, <1>7, <1>8, <1>9 DEF Next

\* A session that the backend ended keeps the browser from signing in again
\* for as long as its cookie lives: OperationsLayout throws, HomePage redirects
\* whoever has a cookie (app/page.tsx:12-14), and a page may not delete it.
THEOREM OnlyExpiryUnlocks == Spec => LockoutLasts
<1>1. DashboardInv /\ [Next]_vars
        => [LockedOut /\ ~LockedOut' => CookieExpires /\ cookie' = NoSession]_vars
  BY LockoutStep DEF DashboardInv
<1>. QED BY <1>1, BrowserInvariance, PTL DEF Spec, LockoutLasts
=============================================================================
