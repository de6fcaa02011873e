SPECIFICATION FairSpec
CONSTANTS
  d1 = d1  d2 = d2  l1 = l1
  svg = svg  png = png
  Nil = Nil
  Keys = {d1, d2}
  DemoKeys = {d1, d2}
  Ids = {i1, i2, i3}
  Requests = {r1, r2, r3}
  Assets = {svg, png}
  Renders <- MCRenders
  Keep = 0
  Faults = {"crash", "corrupt"}
INVARIANTS TypeOK QueuedIsOwed RunningHasExecutor CompletedHasArtifact
PROPERTIES RunsSettle
CHECK_DEADLOCK FALSE
