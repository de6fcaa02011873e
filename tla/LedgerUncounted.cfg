SPECIFICATION Spec
CONSTANTS
  Sessions = {s1, s2}
  Idems = {k1, k2}
  Runs = {b1, b2}
  Calls = {c1, c2}
  SessionTTL = 2
  LeaseTTL = 2
  Idle = 0
  Window = 2
  MaxFailures = 1
  MaxRuns = 2
  Lifetime = 2
  MaxTime = 2
  MaxCalls = 3
  Nil = Nil
SYMMETRY Interchangeable
INVARIANTS GrantsAreCounted
CHECK_DEADLOCK FALSE
