SPECIFICATION Spec
CONSTANTS
  Users = {u1}
  Admins = {a1}
  Corridors = {c1}
  Unset = unset
  MaxRequests = 2
  MaxUpdates = 1
SYMMETRY Callers
PROPERTIES OnlyPendingIsDecided
CHECK_DEADLOCK FALSE
