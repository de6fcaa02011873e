SPECIFICATION PSpec
CONSTANTS
  a1 = a1
  a2 = a2
  a3 = a3
  v1 = v1
  Reviews <- TwoApprovals
  RunOf <- OneRun
  Visits <- OneVisit
  MaxGeneration = 2
  MaxFaults = 0
  CanCrash = FALSE
  Nil = Nil
  Garbage = Garbage
INVARIANTS ShownWasViewed
CHECK_DEADLOCK FALSE
