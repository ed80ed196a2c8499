CONSTANTS
  c1 = c1
  Clusters = {c1}
  NoCluster = NoCluster
  Management = {}
  LBProvider <- AllLB
  IPFamilyValid = {c1}
  ManagementADC = FALSE
  CustomerManaged = TRUE
  Deletions = {"adc", "cluster"}
  FaultKinds = {"list", "remote", "patchStatus", "patchMeta", "patchADC"}
  MaxFaults = 1
  MaxEdits = 0
SPECIFICATION FairSpec
PROPERTIES  AdcDeletionCompletes
CHECK_DEADLOCK FALSE
