CONSTANTS
  c1 = c1
  Clusters = {c1}
  NoCluster = NoCluster
  Management = {}
  LBProvider <- AllLB
  IPFamilyValid = {c1}
  ManagementADC = FALSE
  CustomerManaged = FALSE
  Deletions = {"adc", "cluster"}
  FaultKinds = {}
  MaxFaults = 0
  MaxEdits = 0
SPECIFICATION Spec
PROPERTIES AbandonsOnlyLive
CHECK_DEADLOCK FALSE
