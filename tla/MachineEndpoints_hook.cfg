CONSTANTS
  m1 = m1
  m2 = m2
  a4 = a4
  b4 = b4
  c6 = c6
  host = host
  Machines = {m1, m2}
  ControlPlane = {m1, m2}
  IPs = {a4, b4, c6}
  FamilyOf <- Family
  Reports <- GoodLists
  IpFamily = "V4"
  VIPProvider = TRUE
  LBProvider = TRUE
  SystemNS = FALSE
  NoMachine = NoMachine
  MaxUpsets = 1
SPECIFICATION Spec
PROPERTIES HookHeldForCleanup
CHECK_DEADLOCK FALSE
