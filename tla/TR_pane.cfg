SPECIFICATION FairSpec
CONSTANTS
  c1 = c1
  c2 = c2
  c3 = c3
  Him = Him
  Calls <- MCCalls
  Plans <- MCPlans
  ProcOf <- MCProcOf
  Waits = 2
  Polls = 2
  Settles = 2
  Steady = TRUE
  MaxMoves = 3
  MaxLost = 1
CHECK_DEADLOCK FALSE
INVARIANTS SentAlone NoStrayKeys OkMeansDone
PROPERTIES NothingSticks
