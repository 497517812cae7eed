----------------------------- MODULE MCDashboard -----------------------------
EXTENDS Dashboard, TLC

MCSymmetry == Permutations(Tabs)

AtStage(capabilities, plan, stage) ==
  [capabilities |-> capabilities, plan |-> plan, stage |-> stage]

\* A data partner on its way that has no environment yet, and a partner in
\* production that may do everything but attest.
MCPartners ==
  {AtStage({"apiConsumer", "dataPartner", "webhooks", "auditExports"}, "GROWTH",
           "TRUST_SETUP_READY"),
   AtStage(Capabilities \ Contributors, "ENTERPRISE", "PRODUCTION_APPROVED")}

MCVisited == {"/access/api-keys", "/setup"}
MCForms == {"create-credential", "create-partner"}
=============================================================================
