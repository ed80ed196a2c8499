------------------------------- MODULE AkoRole -------------------------------
(***************************************************************************)
(* The AVI role of the accounts the operator creates                       *)
(* (controllers/akodeploymentconfig/user/ako_role.go, user_controller.go). *)
(* A role maps resources to types of access.                               *)
(***************************************************************************)
EXTENDS Naturals

CONSTANTS
  AkoRolePermissionMap,    \* resource to type of access, what AKO needs
  deprecatePermissionMap,  \* resource to the version that dropped it
  OtherResources           \* resources of AVI that AKO does not use

ASSUME Permissions ==
  /\ AkoRolePermissionMap \in [DOMAIN AkoRolePermissionMap -> STRING]
  /\ deprecatePermissionMap \in [DOMAIN deprecatePermissionMap -> Nat]
  /\ OtherResources \cap DOMAIN AkoRolePermissionMap = {}

Essential == DOMAIN AkoRolePermissionMap

Deprecated(resource, version) ==
  /\ resource \in DOMAIN deprecatePermissionMap
  /\ deprecatePermissionMap[resource] <= version

\* The privileges of a new role.
filterAkoRolePermissionByVersion(version) ==
  [r \in {x \in Essential : ~Deprecated(x, version)} |-> AkoRolePermissionMap[r]]

\* Mutant: only what is missing is added.
MutantTypesKept(role, version) ==
  [r \in DOMAIN role \cup {x \in Essential : ~Deprecated(x, version)} |->
     IF r \in DOMAIN role THEN role[r] ELSE AkoRolePermissionMap[r]]

\* The privileges after a sync.
syncAkoUserRole(role, version) ==
  [r \in DOMAIN role \cup {x \in Essential : ~Deprecated(x, version)} |->
     IF r \in Essential THEN AkoRolePermissionMap[r] ELSE role[r]]

\* A role allows AKO what it needs, and no more of it: a resource may be missing
\* only if the version of AVI no longer has it.
Complete(role, version) ==
  \A r \in Essential :
    IF r \in DOMAIN role THEN role[r] = AkoRolePermissionMap[r] ELSE Deprecated(r, version)
=============================================================================
