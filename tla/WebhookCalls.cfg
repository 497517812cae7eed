SPECIFICATION Spec
CONSTANTS
  e1 = e1
  e2 = e2
  w1 = w1
  w2 = w2
  p1 = p1
  a1 = a1
  Endpoints = {e1}
  Workers = {w1, w2}
  Publishers = {p1}
  Admins = {a1}
  MaxAttempts = 2
  InitialDelay = 1
  MaxDelay = 2
  StaleAfter = 2
  SettleWithin = 1
  BatchLimits = {1}
  IgnoreSchedule = {TRUE, FALSE}
  MaxEvents = 1
  MaxEdits = 2
  MaxFaults = 1
  MaxClock = 12
INVARIANTS
  TypeOK
  ExclusivePosting
  AttemptCountNeverOverstates
PROPERTIES
  SettledIsFinal
  KeepsPromise
