SPECIFICATION Spec
CONSTANTS
  l1 = l1  l2 = l2  d1 = d1
  x = x  y = y  svg1 = svg1  svg2 = svg2
  Nil = Nil
  Runs = {l1, l2, d1}
  DemoRuns = {d1}
  WeakFirst = {d1}
  Demanding = {d1}
  Digests = {x, y, svg1, svg2}
  Draws <- MCDraws
  Fragile = {x}
  MaxIterations = 2
  MaxAttempts <- MCAttempts
  MaxFaults = 1
  MaxOverlap = 2
  CanCrash = TRUE
INVARIANTS TypeOK ResultIsDurable QualityIsMet
PROPERTIES ObjectsAreKept ExecutionEnds
CHECK_DEADLOCK FALSE
