SPECIFICATION Spec
CONSTANTS
  h1 = h1
  h2 = h2
  k1 = k1
  nokey = nokey
  s1 = s1
  a1 = a1
  a2 = a2
  nothing = nothing
  never = never
  Handlers = {h1, h2}
  Keys = {k1}
  NoKey = nokey
  Subjects = {s1}
  Addresses = {a1, a2}
  Nothing = nothing
  Lookups <- OneLookup
  Never = never
  Window = 1
  MaxRequests = 9
  DistinctWindow = 1
  MaxIdentifiers = 9
  Slack = 1
  PartnerModes = {"NO_RETAIN", "STANDARD_RETENTION"}
  Retention = 2
  ShortRetention = 1
  UniqueIndex = FALSE
  MaxCalls = 2
  MaxFaults = 0
  MaxChanges = 1
  MaxClock = 0
INVARIANT OneAnswerPerKey
SYMMETRY Slots
CHECK_DEADLOCK FALSE
