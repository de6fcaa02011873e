SPECIFICATION Spec
CONSTANTS
  Starts = {s1, s2, s3}
  Runs = {old}
  Attempts = 2
  CanDie = TRUE
  Nil = Nil
INVARIANTS TypeOK OneKey ServesMigrated ServesRecovered FailsForCause
CHECK_DEADLOCK FALSE
