SPECIFICATION Spec
CONSTANTS
  e1 = e1
  e2 = e2
  w1 = w1
  w2 = w2
  p1 = p1
  a1 = a1
  Endpoints = {e1}
  Workers = {w1}
  Publishers = {p1}
  Admins = {a1}
  MaxAttempts = 5
  InitialDelay = 1
  MaxDelay = 2
  StaleAfter = 1
  SettleWithin = 0
  BatchLimits = {1}
  IgnoreSchedule = {TRUE}
  MaxEvents = 1
  MaxEdits = 0
  MaxFaults = 1
  MaxClock = 20
INVARIANT AttemptsAreCapped
