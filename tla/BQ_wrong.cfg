SPECIFICATION BlockedSpec
CONSTANTS
  s1 = s1
  s2 = s2
  Order <- TwoMembers
  Settle = 1
  MaxAsks = 2
  MaxDeaths = 0
INVARIANTS NeverWrongQuestion
