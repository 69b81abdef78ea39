SPECIFICATION Spec
CONSTANTS
  concierge = concierge
  router = router
  m1 = m1
  m2 = m2
  m3 = m3
  Procs <- MCProcs
  Items <- ThreeItems
  Kind <- MixedKinds
  Settle = 1
  MaxHold = 2
  MaxFaults = 1
SYMMETRY ProcSymmetry
INVARIANTS NothingMislaid OneVoicePerMessage HoldBounded
PROPERTIES ImplementsChannel
