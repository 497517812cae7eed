SPECIFICATION FairSpec
CONSTANTS
  r1 = r1
  r2 = r2
  i1 = i1
  i2 = i2
  a1 = a1
  a2 = a2
  h1 = h1
  h2 = h2
  k1 = k1
  never = never
  unwritten = unwritten
  Recipients = {r1, r2}
  Identifiers = {i1, i2}
  Addresses = {a1, a2}
  Payloads <- Signed
  Times = {0}
  Never = never
  Unwritten = unwritten
  Handlers = {h1, h2}
  Desks = {k1}
  MaxSubmissions = 3
  MaxCalls = 1
  MaxFaults = 1
  MaxClock = 1
INVARIANT TypeOK
INVARIANT OutboxMatchesLedger
INVARIANT OneActiveDestination
PROPERTY EveryRequestEnds
PROPERTY ImplementsRegistry
CHECK_DEADLOCK FALSE
