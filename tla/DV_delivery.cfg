SPECIFICATION Spec
CONSTANTS
  d1 = d1  d2 = d2  api = api  scratch = scratch
  Dictations = {d1, d2}
  Long = {d1}
  Targets = {api, scratch}
  TestTargets = {scratch}
  Nothing = Nothing
  Plans <- SomePlans
  AckAfter = 1
  RetryDelay = 1
  Budget = 1
  MaxTime = 2
  MaxFaults = 1
CHECK_DEADLOCK FALSE
INVARIANTS FailuresHeard OwnWords ReportsAreTrue
