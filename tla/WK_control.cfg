SPECIFICATION WakeFairSpec
CONSTANTS
  p1 = p1  p2 = p2
  Pids = {p1, p2}
  NoPid = NoPid
  MaxStarts = 2
  MaxPresses = 3
  MaxFaults = 1
CHECK_DEADLOCK FALSE
INVARIANTS StoppedIsTrue OneOfOurs
PROPERTIES QuitWarns MicCloses
