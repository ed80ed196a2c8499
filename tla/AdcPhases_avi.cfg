SPECIFICATION Spec
CONSTANTS
  Nil = Nil
  Specs <- ManySpecs
  ClusterKinds <- Kinds
  Versions = {1, 2}
  Authorities = {c1, c2}
  AkoRolePermissionMap <- RoleMap
  deprecatePermissionMap <- Dropped
  OtherResources = {"gslb"}
  MaxUpsets = 2
SYMMETRY Same
INVARIANTS
  TypeOK
  
  QuietAccount
  PassInv
  QuietAddon
  
  DeployedWhereItWorks
PROPERTIES
  PasswordKept
  OthersKept
CHECK_DEADLOCK FALSE
