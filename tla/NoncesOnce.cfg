SPECIFICATION Spec
CONSTANTS
  Handlers = {h1, h2}
  Nonces = {n1}
  Hashes = {x1, x2}
  MaxAge = 1
  NonceTtl = 2
  MaxCalls = 3
  MaxClock = 4
SYMMETRY Alike
INVARIANTS PassesOnce ReuseIsSpaced RefusalsAreTrue
CHECK_DEADLOCK FALSE
