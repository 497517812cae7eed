SPECIFICATION Spec
CONSTANTS
  Handlers = {h1, h2}
  Users = {ann, bob}
  Founders = {ann}
  Credentials = {c1}
  Keys = {k1, k2}
  Fields = {f1, f2}
  Values = {default, other}
  Default = default
  AdminToken = AdminToken
  Anyone = Anyone
  NoTarget = NoTarget
  GrantedRoles = {"OWNER", "ADMIN", "READ_ONLY"}
  SessionTtl = 1
  InviteTtl = 1
  MaxCalls = 5
  MaxClock = 1
SYMMETRY Symmetry
INVARIANTS
  TypeOK
  ManagerRemains
  OwnerRemains
  KeyRemains
  SecretsAreDistinct
  AcceptedMadeUser
  DisabledAreLoggedOut
  SettingsAreKept
CHECK_DEADLOCK FALSE
