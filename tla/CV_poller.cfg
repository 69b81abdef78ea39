SPECIFICATION SpecOfEither
CONSTANTS
  s1 = s1
  s2 = s2
  Order <- TwoMembers
  Settle = 1
  MaxAsks = 1
  MaxDeaths = 1
  StaleAfter = 3
  MaxCheck = 4
INVARIANTS SpokenOnce ShownIsTrue MisreadOnce OneClock
