SPECIFICATION PSpec
CONSTANTS
  a1 = a1
  a2 = a2
  a3 = a3
  v1 = v1
  Reviews <- TwoApprovals
  RunOf <- OneRun
  Visits <- OneVisit
  MaxGeneration = 1
  MaxFaults = 2
  CanCrash = FALSE
  Nil = Nil
  Garbage = Garbage
INVARIANTS FailedIsUnpublished
CHECK_DEADLOCK FALSE
