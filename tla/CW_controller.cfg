SPECIFICATION SpecOfEither
CONSTANTS
  r1 = r1
  r2 = r2
  routerA = routerA
  Rounds <- MCRounds
  Router <- MCRouter
  Real <- MCReal
  Window = 2
  Heedful = TRUE
  MaxDictations = 1
  MaxStalls = 1
  MaxCrashes = 1
  MinSpeech = 2
  MinChunk = 2
  SilenceToCut = 2
  SafetyNet = 3
  OpeningGrace = 4
  MaxChunk = 5
  HoldTime = 7
  VerifyBuffer = 5
  MaxSounds = 6
INVARIANTS CancelHonoured WindowsAreMeant NothingLost PhrasesCount EndsOnTime
PROPERTIES WindowCloses
