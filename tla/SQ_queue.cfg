SPECIFICATION SpeechFairSpec
CONSTANTS
  router = router
  confirm = confirm
  news = news
  answer = answer
  Procs <- MCProcs
  Calls <- MCCalls
  Home <- MCHome
  Priority <- MCPriority
  Windowed <- MCWindowed
  MaxFaults = 1
CHECK_DEADLOCK FALSE
INVARIANTS OneAtATime NoOvertaking WindowFollowsSpeech
PROPERTIES ConfirmReturns
