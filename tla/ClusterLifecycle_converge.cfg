CONSTANTS
  c1 = c1
  Clusters = {c1}
  NoCluster = NoCluster
  Management = {}
  LBProvider <- AllLB
  IPFamilyValid = {c1}
  ManagementADC = FALSE
  CustomerManaged = FALSE
  Deletions = {"cluster"}
  FaultKinds = {"avi"}
  MaxFaults = 1
  MaxEdits = 1
SPECIFICATION NewClusters
PROPERTIES Converges LetGo AccountReclaimed 
CHECK_DEADLOCK FALSE
