SPECIFICATION Spec
CONSTANTS
  a1 = a1  a2 = a2  bad1 = bad1  bad2 = bad2  proxy = proxy
  Nil = Nil
  Requests = {q1, q2, q3, q4, q5}
  Origins <- MCOrigins
  Addresses = {a1, a2}
  TrustEdge = TRUE
  Window = 3
  Limit = 2
  Cap = 2
  MaxLag = 1
  MaxTime = 4
SYMMETRY Symmetry
INVARIANTS TypeOK AdmissionsSpaced LimitedIsDeserved FullIsDeserved
CHECK_DEADLOCK FALSE
