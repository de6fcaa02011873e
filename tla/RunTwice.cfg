SPECIFICATION Spec
CONSTANTS
  d1 = d1  d2 = d2  l1 = l1
  svg = svg  png = png
  Nil = Nil
  Keys = {l1}
  DemoKeys = {}
  Ids = {i1}
  Requests = {r1, r2, r3}
  Assets = {svg, png}
  Renders <- MCRenders
  Keep = 0
  Faults = {"corrupt"}
INVARIANTS AtMostOneExecutor
CHECK_DEADLOCK FALSE
