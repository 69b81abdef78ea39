SPECIFICATION BlockedFairSpec
CONSTANTS
  s1 = s1
  s2 = s2
  Order <- OneMember
  Settle = 2
  MaxAsks = 2
  MaxDeaths = 1
INVARIANT AnswerHitsItsQuestion
PROPERTY Escalated
