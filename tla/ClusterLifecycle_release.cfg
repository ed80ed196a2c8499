CONSTANTS
  c1 = c1
  Clusters = {c1}
  NoCluster = NoCluster
  Management = {}
  LBProvider <- AllLB
  IPFamilyValid = {c1}
  ManagementADC = FALSE
  CustomerManaged = FALSE
  Deletions = {"cluster"}
  FaultKinds = {"avi"}
  MaxFaults = 1
  MaxEdits = 0
SPECIFICATION FairSpec
PROPERTIES ReleasedOnceFinished
CHECK_DEADLOCK FALSE
