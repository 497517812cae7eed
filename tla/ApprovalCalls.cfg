SPECIFICATION Spec
CONSTANTS
  Users = {u1, u2}
  Admins = {a1, a2}
  Corridors = {c1}
  Unset = unset
  MaxRequests = 2
  MaxUpdates = 1
SYMMETRY Callers
INVARIANTS TypeOK OnePending PartnerIsConsistent StageNeedsApproval
  AccessIsAccounted ApprovedIsGranted
PROPERTIES DecisionsStand
CHECK_DEADLOCK FALSE
