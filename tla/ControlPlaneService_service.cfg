CONSTANTS
  def = def
  mgmt = mgmt
  blue = blue
  Adcs = {def, mgmt, blue}
  DefaultADC = def
  ManagementADC = mgmt
  NoADC = NoADC
  Teams = {"plain", "management", "blue"}
  Selects <- SelectorOf
  NoHost = NoHost
  VIPs = {"vip1", "vip2"}
  UserIP = "asked"
  Fqdn = "fqdn"
  Resolves = "resolved"
  OwnNetwork = {mgmt, blue}
  LBProvider = TRUE
  Configurations <- Kinds
  MaxUpsets = 1
SPECIFICATION FairSpec
INVARIANTS TypeOK ManagementServiceAnnotated EndpointInv
PROPERTIES OwnerSettles EndpointAgrees AdvertisedAddressKept
CHECK_DEADLOCK FALSE
