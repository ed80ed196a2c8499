CONSTANTS
  c1 = c1
  Clusters = {c1}
  NoCluster = NoCluster
  Management = {}
  LBProvider <- AllLB
  IPFamilyValid = {c1}
  ManagementADC = FALSE
  CustomerManaged = FALSE
  Deletions = {"adc", "cluster"}
  FaultKinds = {"list", "aviPhase", "avi", "remote", "addonSecret", "patchStatus", "patchMeta", "patchADC", "crash"}
  MaxFaults = 1
  MaxEdits = 0
SPECIFICATION Spec
INVARIANTS UserCleanupSound  CleanupInv
PROPERTIES ReleasedOnlyClean AdcOutlivesCleanup ImplementsProtocol
CHECK_DEADLOCK FALSE
