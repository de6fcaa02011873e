SPECIFICATION JSpec
CONSTANTS
  c1 = c1  s1 = s1  s2 = s2  j1 = j1  j2 = j2
  png = png
  Nil = Nil
  Keys = {j1, j2}
  DemoKeys = {}
  Ids = {i1, i2}
  Requests = {r1, r2, r3}
  Assets = {png}
  Renders <- MCRenders
  Keep = 0
  Faults = {}
  Capabilities = {c1}
  Sessions = {s1, s2}
  CapOf <- MCCapOf
  ScopeOf <- MCScopeOf
  MaxRuns = 1
SYMMETRY Symmetry
INVARIANTS SpendWithinQuota
CHECK_DEADLOCK FALSE
