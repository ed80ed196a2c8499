CONSTANTS
  a1 = a1
  a2 = a2
  k1 = k1
  k2 = k2
  x1 = x1
  x2 = x2
  y1 = y1
  ADCs = {a1, a2}
  Controller <- TwoControllers
  CAs <- TwoCAs
  EmptyCA = EmptyCA
  Missing = Missing
  NoADC = NoADC
  FaultKinds = {"ca", "new", "version", "phase", "save", "crash"}
  MaxFaults = 2
  MaxChanges = 2
SPECIFICATION FairSpec
INVARIANTS ClientsAgree  InitInv
PROPERTIES CAFollowed VersionFollowed
CHECK_DEADLOCK FALSE
