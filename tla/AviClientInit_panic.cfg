CONSTANTS
  a1 = a1
  a2 = a2
  k1 = k1
  k2 = k2
  x1 = x1
  x2 = x2
  y1 = y1
  ADCs = {a1, a2}
  Controller <- TwoControllers
  CAs <- TwoCAs
  EmptyCA = EmptyCA
  Missing = Missing
  NoADC = NoADC
  FaultKinds = {"new"}
  MaxFaults = 1
  MaxChanges = 0
SPECIFICATION Spec
INVARIANTS NoPanic
CHECK_DEADLOCK FALSE
