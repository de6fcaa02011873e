SPECIFICATION PSpec
CONSTANTS
  a1 = a1
  a2 = a2
  a3 = a3
  v1 = v1
  Reviews <- ThreeApprovals
  RunOf <- OneRun
  Visits <- OneVisit
  MaxGeneration = 1
  MaxFaults = 1
  CanCrash = TRUE
  Nil = Nil
  Garbage = Garbage
INVARIANTS PTypeOK FailedIsUnpublished ShowcaseLoads VisitorsAreServed
PROPERTIES PublicationSettles PublishIsAtomic
CHECK_DEADLOCK FALSE
