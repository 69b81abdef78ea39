SPECIFICATION CSpec
CONSTANTS
  d1 = d1
  d2 = d2
  NoRef = NoRef
  Refs <- TwoRefs
  Forwarder <- TwoHops
  Abandon = 1
  MaxCrashes = 1
INVARIANTS NoFalseNews AnswersAreTrue 
PROPERTIES NothingForwardedForever
