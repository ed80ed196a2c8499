---------------------------- MODULE AdcPhasesProofs ----------------------------
(***************************************************************************)
(* What the passes over an ADC leave in AVI and on a Cluster, for any      *)
(* specifications, versions, Clusters and permissions and any number of    *)
(* edits, failures and restarts.                                           *)
(***************************************************************************)
EXTENDS AdcPhases, AdcDataProofs

\* Nil is no function, so none of the records that may stand in its place, and no IP family.
NilApart == Nil # [x \in DOMAIN Nil |-> Nil[x]] /\ Nil \notin {"V4", "V6"}

LEMMA RecordsApart ==
  ASSUME NilApart
  PROVE  /\ \A p, c : [pw |-> p, ca |-> c] # Nil
         /\ \A p, t : [pw |-> p, tenant |-> t] # Nil
         /\ \A s, v : [spec |-> s, version |-> v] # Nil
         /\ \A s, v, c : NewValues(s, v, c) # Nil
  BY DEF NilApart, NewValues

\* The fields of the variables that matter to the credentials.
Shape ==
  /\ DOMAIN cl = {"kind", "service", "labelled", "refused"}
  /\ DOMAIN avi = {"version", "subnets", "usable", "ipam", "role", "user"}
  /\ DOMAIN run = {"obj", "read", "found", "pw", "failed"}
  /\ secret # Nil => secret = [pw |-> secret.pw, ca |-> secret.ca]
  /\ avi.user # Nil => avi.user = [pw |-> avi.user.pw, tenant |-> avi.user.tenant]
  /\ queue \in BOOLEAN /\ unseen \in BOOLEAN /\ run.failed \in BOOLEAN

\* What may be written to AVI's account keeps its shape.
LEMMA AccountShape ==
  ASSUME NilApart, NEW user, user # Nil => user = [pw |-> user.pw, tenant |-> user.tenant]
  PROVE  LET new == createOrUpdateAviUser(user)
         IN /\ new # Nil /\ new.pw = run.pw
            /\ new = [pw |-> new.pw, tenant |-> new.tenant]
<1>1. CASE user = Nil
  BY <1>1, RecordsApart DEF createOrUpdateAviUser
<1>2. CASE user # Nil
  <2>1. createOrUpdateAviUser(user) = [pw |-> run.pw, tenant |-> user.tenant]
    BY <1>2 DEF createOrUpdateAviUser
  <2> QED
    BY <2>1, RecordsApart
<1> QED
  BY <1>1, <1>2

\* And so does what is written to the Cluster's Secret.
LEMMA SecretShape ==
  ASSUME NilApart, NEW old, old # Nil => old = [pw |-> old.pw, ca |-> old.ca]
  PROVE  LET new == NewSecret(old)
         IN /\ new # Nil /\ new.ca = ca
            /\ new = [pw |-> new.pw, ca |-> new.ca]
            /\ old # Nil => new.pw = old.pw
<1>1. CASE old = Nil
  BY <1>1, RecordsApart DEF NewSecret
<1>2. CASE old # Nil
  <2>1. NewSecret(old) = [pw |-> old.pw, ca |-> ca]
    BY <1>2 DEF NewSecret
  <2> QED
    BY <1>2, <2>1, RecordsApart
<1> QED
  BY <1>1, <1>2

LEMMA InitShape == Init => Shape
<1> SUFFICES ASSUME Init PROVE Shape
  OBVIOUS
<1>1. run = Idle /\ queue = TRUE /\ unseen = FALSE
  BY DEF Init
<1>2. DOMAIN run = {"obj", "read", "found", "pw", "failed"} /\ run.failed = FALSE
  BY <1>1 DEF Idle
<1>3. DOMAIN cl = {"kind", "service", "labelled", "refused"}
  BY DEF Init
<1>4. DOMAIN avi = {"version", "subnets", "usable", "ipam", "role", "user"} /\ avi.user = Nil
  BY DEF Init
<1>5. secret # Nil => secret = [pw |-> secret.pw, ca |-> secret.ca]
  BY DEF Init
<1> QED
  BY Zenon, <1>1, <1>2, <1>3, <1>4, <1>5 DEF Shape

\* What leaves the credentials alone.
SameCredentials ==
  /\ cl'.kind = cl.kind /\ avi'.user = avi.user /\ avi'.role = avi.role /\ avi'.version = avi.version
  /\ UNCHANGED <<secret, ca, admin>>

\* A patch of the Cluster does not change what kind of Cluster it is.
LEMMA PatchShape ==
  ASSUME Shape, NEW b, PatchCluster(b)
  PROVE  /\ cl'.kind = cl.kind /\ DOMAIN cl' = DOMAIN cl
         /\ queue' \in BOOLEAN /\ (queue => queue')
<1>1. cl'.kind = cl.kind /\ DOMAIN cl' = DOMAIN cl
  BY DEF PatchCluster, Shape
<1>2. queue' \in BOOLEAN /\ (queue => queue')
  BY DEF PatchCluster, Shape
<1> QED
  BY <1>1, <1>2

LEMMA FailShape ==
  ASSUME Shape, NEW next, Failing(next)
  PROVE  pc' = next /\ run'.failed = TRUE /\ DOMAIN run' = DOMAIN run
  BY DEF Failing, Goto, Shape

\* The phases over AVI's networks, and the version.
NetworkPhases ==
  \/ reconcileNetworkSubnets \/ reconcileCloudUsableNetwork
  \/ reconcileAviInfraSetting \/ reconcileControllerVersion

LEMMA NetworkStep ==
  ASSUME Shape, NetworkPhases
  PROVE  /\ Shape' /\ SameCredentials
         /\ pc' \in {"usable", "infra", "version", "secret"}
<1>1. DOMAIN avi' = DOMAIN avi /\ avi'.user = avi.user /\ avi'.role = avi.role
      /\ avi'.version = avi.version
  BY DEF NetworkPhases, reconcileNetworkSubnets, reconcileCloudUsableNetwork, AddUsableNetwork,
         reconcileAviInfraSetting, reconcileControllerVersion, Shape, objects
<1>2. UNCHANGED <<cl, secret, ca, admin, queue>>
  BY DEF NetworkPhases, reconcileNetworkSubnets, reconcileCloudUsableNetwork,
         reconcileAviInfraSetting, reconcileControllerVersion, objects
<1>3. DOMAIN run' = DOMAIN run /\ run'.failed \in BOOLEAN
  BY Zenon DEF NetworkPhases, reconcileNetworkSubnets, reconcileCloudUsableNetwork, Failing,
         reconcileAviInfraSetting, reconcileControllerVersion, Shape
<1>4. unseen' \in BOOLEAN
  BY Zenon DEF NetworkPhases, reconcileNetworkSubnets, reconcileCloudUsableNetwork,
         reconcileAviInfraSetting, reconcileControllerVersion, Shape
<1>5. pc' \in {"usable", "infra", "version", "secret"}
  BY DEF NetworkPhases, reconcileNetworkSubnets, reconcileCloudUsableNetwork, Failing, Goto,
         reconcileAviInfraSetting, reconcileControllerVersion
<1> QED
  BY <1>1, <1>2, <1>3, <1>4, <1>5 DEF Shape, SameCredentials

LEMMA SameDone ==
  ASSUME SameCredentials
  PROVE  /\ AccountDone => AccountDone'
         /\ Workload' <=> Workload
  BY DEF SameCredentials, AccountDone, Workload

KeepsPassword ==
  Workload /\ secret # Nil /\ secret' # Nil => secret'.pw = secret.pw

LEMMA SecretStep ==
  ASSUME NilApart, Shape, CredentialsInv, reconcileAviUserNormal
  PROVE  Shape' /\ CredentialsInv' /\ KeepsPassword
<1>1. UNCHANGED <<avi, ca, admin, unseen>>
  BY DEF reconcileAviUserNormal
<1>2. CASE UserFails /\ UNCHANGED secret
  <2>1. /\ pc' = "addon" /\ run'.failed = TRUE /\ DOMAIN run' = DOMAIN run
        /\ DOMAIN cl' = DOMAIN cl /\ queue' \in BOOLEAN
    BY Zenon, <1>2, FailShape, PatchShape DEF UserFails
  <2>2. Shape'
    BY Zenon, <1>1, <1>2, <2>1 DEF Shape
  <2>3. CredentialsInv'
    BY <2>1 DEF CredentialsInv, Clear
  <2> QED
    BY <1>2, <2>2, <2>3 DEF KeepsPassword
<1>3. CASE /\ PatchCluster(cl.refused) /\ pc' = "addon" /\ ~Workload /\ UNCHANGED run
           /\ cl.kind.management => secret' = [pw |-> admin, ca |-> ca]
           /\ ~cl.kind.management => UNCHANGED secret
  <2>1. cl'.kind = cl.kind /\ DOMAIN cl' = DOMAIN cl /\ queue' \in BOOLEAN
    BY <1>3, PatchShape
  <2>2. Shape'
    BY <1>1, <1>3, <2>1 DEF Shape
  <2>3. AccountDone'
    BY <1>1, <1>3, <2>1 DEF AccountDone, Workload
  <2>4. CredentialsInv'
    BY <1>3, <2>3 DEF CredentialsInv, Clear
  <2> QED
    BY <1>3, <2>2, <2>4 DEF KeepsPassword
<1>4. CASE /\ Workload /\ secret' = NewSecret(secret) /\ run' = [run EXCEPT !.pw = secret'.pw]
           /\ pc' = "role" /\ UNCHANGED <<cl, queue>>
  <2>1. DOMAIN run' = DOMAIN run /\ run'.failed = run.failed /\ run'.pw = secret'.pw
    BY <1>4 DEF Shape
  <2>2. /\ secret' # Nil /\ secret'.ca = ca
        /\ secret' = [pw |-> secret'.pw, ca |-> secret'.ca]
        /\ secret # Nil => secret'.pw = secret.pw
    BY <1>4, SecretShape DEF Shape
  <2>3. Shape'
    BY <1>1, <1>4, <2>1, <2>2 DEF Shape
  <2>4. CredentialsInv'
    BY <1>1, <1>4, <2>1, <2>2 DEF CredentialsInv, Clear, Workload
  <2> QED
    BY <2>2, <2>3, <2>4 DEF KeepsPassword
<1> QED
  BY <1>2, <1>3, <1>4 DEF reconcileAviUserNormal, Goto, Workload

LEMMA RoleStep ==
  ASSUME Shape, CredentialsInv, EnsureRole, Permissions
  PROVE  Shape' /\ CredentialsInv' /\ KeepsPassword
<1>1. UNCHANGED <<secret, ca, admin, unseen>> /\ Workload
  BY DEF EnsureRole, CredentialsInv, Clear
<1>2. CASE UserFails /\ UNCHANGED avi
  <2>1. /\ pc' = "addon" /\ run'.failed = TRUE /\ DOMAIN run' = DOMAIN run
        /\ DOMAIN cl' = DOMAIN cl /\ queue' \in BOOLEAN
    BY Zenon, <1>2, FailShape, PatchShape DEF UserFails
  <2>2. Shape'
    BY Zenon, <1>1, <1>2, <2>1 DEF Shape
  <2>3. CredentialsInv'
    BY <2>1 DEF CredentialsInv, Clear
  <2> QED
    BY <1>1, <2>2, <2>3 DEF KeepsPassword
<1> DEFINE found == avi.user # Nil
           role == IF avi.role = Nil THEN filterAkoRolePermissionByVersion(avi.version)
                   ELSE syncAkoUserRole(avi.role, avi.version)
<1>3. CASE /\ avi' = [avi EXCEPT !.role = role] /\ run' = [run EXCEPT !.found = found]
           /\ pc' = "account" /\ UNCHANGED <<cl, queue>>
  <2>1. /\ avi' = [avi EXCEPT !.role = role] /\ run' = [run EXCEPT !.found = found]
        /\ pc' = "account" /\ UNCHANGED <<cl, queue>>
    BY <1>3
  <2>2. Complete(role, avi.version)
    BY DEF Complete, filterAkoRolePermissionByVersion, syncAkoUserRole, Essential
  <2>3. DOMAIN avi' = DOMAIN avi /\ avi'.role = role /\ avi'.version = avi.version
        /\ avi'.user = avi.user
    BY <2>1 DEF Shape
  <2>4. DOMAIN run' = DOMAIN run /\ run'.failed = run.failed /\ run'.pw = run.pw
    BY <2>1 DEF Shape
  <2>5. Shape'
    BY <1>1, <2>1, <2>3, <2>4 DEF Shape
  <2>6. Complete(avi.role, avi.version)'
    BY <2>2, <2>3
  <2>7. CredentialsInv'
    <3>1. pc = "role"
      BY DEF EnsureRole
    <3> QED
      BY <1>1, <2>1, <2>4, <2>6, <3>1 DEF CredentialsInv, Clear, Workload
  <2> QED
    BY <1>1, <2>5, <2>7 DEF KeepsPassword
<1> QED
  BY <1>2, <1>3 DEF EnsureRole, Goto

LEMMA AccountStep ==
  ASSUME NilApart, Shape, CredentialsInv, EnsureAccount
  PROVE  Shape' /\ CredentialsInv' /\ KeepsPassword
<1>1. UNCHANGED <<secret, ca, admin, unseen>> /\ Workload /\ pc = "account"
  BY DEF EnsureAccount, CredentialsInv, Clear
<1>2. CASE UserFails /\ UNCHANGED avi
  <2>1. /\ pc' = "addon" /\ run'.failed = TRUE /\ DOMAIN run' = DOMAIN run
        /\ DOMAIN cl' = DOMAIN cl /\ queue' \in BOOLEAN
    BY Zenon, <1>2, FailShape, PatchShape DEF UserFails
  <2>2. Shape'
    BY Zenon, <1>1, <1>2, <2>1 DEF Shape
  <2>3. CredentialsInv'
    BY <2>1 DEF CredentialsInv, Clear
  <2> QED
    BY <1>1, <2>2, <2>3 DEF KeepsPassword
<1>3. CASE /\ avi' = [avi EXCEPT !.user = createOrUpdateAviUser(avi.user)] /\ UNCHANGED run
           /\ pc' = "addon" /\ PatchCluster(cl.refused)
  <2> DEFINE user == createOrUpdateAviUser(avi.user)
  <2>1. /\ avi' = [avi EXCEPT !.user = user] /\ UNCHANGED run
        /\ pc' = "addon" /\ PatchCluster(cl.refused)
    BY <1>3
  <2>2. cl'.kind = cl.kind /\ DOMAIN cl' = DOMAIN cl /\ queue' \in BOOLEAN /\ (queue => queue')
    BY <2>1, PatchShape
  <2>3. user # Nil /\ user.pw = run.pw /\ user = [pw |-> user.pw, tenant |-> user.tenant]
    BY AccountShape DEF Shape
  <2> HIDE DEF user
  <2>4. DOMAIN avi' = DOMAIN avi /\ avi'.role = avi.role /\ avi'.version = avi.version
        /\ avi'.user = user
    BY <2>1 DEF Shape
  <2>5. Shape'
    BY <1>1, <2>1, <2>2, <2>3, <2>4 DEF Shape
  <2>6. ASSUME ~queue', ~unseen', ~run'.failed PROVE AccountDone'
    <3>1. ~queue /\ ~unseen /\ ~run.failed
      BY <1>1, <2>1, <2>2, <2>6
    <3>2. secret # Nil /\ secret.ca = ca /\ secret.pw = run.pw /\ Complete(avi.role, avi.version)
      BY <1>1, <3>1 DEF CredentialsInv, Clear
    <3> QED
      BY <1>1, <2>2, <2>3, <2>4, <3>2 DEF AccountDone, Workload
  <2>7. CredentialsInv'
    BY <2>1, <2>6 DEF CredentialsInv, Clear
  <2> QED
    BY <1>1, <2>5, <2>7 DEF KeepsPassword
<1> QED
  BY <1>2, <1>3 DEF EnsureAccount, Goto

\* The rest of a pass: the add-on Secret, the ClusterBootstrap and the patch of the ADC.
AddonPhases == ReconcileAddonSecret \/ patchAkoPackageRefToClusterBootstrap

LEMMA AddonStep ==
  ASSUME Shape, CredentialsInv, AddonPhases
  PROVE  Shape' /\ CredentialsInv' /\ KeepsPassword
<1>1. UNCHANGED <<avi, secret, ca, admin, unseen>> /\ pc \in {"addon", "package"}
  BY Zenon DEF AddonPhases, ReconcileAddonSecret, patchAkoPackageRefToClusterBootstrap
<1>2. CASE AddonFails
  <2>1. /\ pc' = "patch" /\ run'.failed = TRUE /\ DOMAIN run' = DOMAIN run
        /\ DOMAIN cl' = DOMAIN cl /\ queue' \in BOOLEAN
    BY Zenon, <1>2, FailShape, PatchShape DEF AddonFails
  <2>2. Shape'
    BY Zenon, <1>1, <2>1 DEF Shape
  <2>3. CredentialsInv'
    BY <2>1 DEF CredentialsInv, Clear
  <2> QED
    BY <1>1, <2>2, <2>3 DEF KeepsPassword
<1>3. CASE /\ UNCHANGED run /\ pc' \in {"package", "patch"}
           /\ UNCHANGED <<cl, queue>> \/ \E b : PatchCluster(b)
  <2>1. cl'.kind = cl.kind /\ DOMAIN cl' = DOMAIN cl /\ queue' \in BOOLEAN /\ (queue => queue')
    <3>1. CASE UNCHANGED <<cl, queue>>
      BY <3>1 DEF Shape
    <3>2. CASE \E b : PatchCluster(b)
      BY <3>2, PatchShape
    <3> QED
      BY <1>3, <3>1, <3>2
  <2>2. Shape'
    BY <1>1, <1>3, <2>1 DEF Shape
  <2>3. SameCredentials
    BY <1>1, <2>1 DEF SameCredentials
  <2>4. CredentialsInv'
    BY <1>1, <1>3, <2>1, <2>3, SameDone DEF CredentialsInv, Clear
  <2> QED
    BY <1>1, <2>2, <2>4 DEF KeepsPassword
<1>4. CASE ReconcileAddonSecret
  <2>1. \/ AddonFails
        \/ pc' = "patch" /\ PatchCluster(TRUE) /\ UNCHANGED run
        \/ pc' = "package" /\ UNCHANGED <<cl, queue>> /\ UNCHANGED run
        \/ pc' = "patch" /\ PatchCluster(cl.refused) /\ UNCHANGED run
    BY Zenon, <1>4 DEF ReconcileAddonSecret, Goto
  <2> QED
    BY Zenon, <1>2, <1>3, <2>1
<1>5. CASE patchAkoPackageRefToClusterBootstrap
  <2>1. \/ AddonFails
        \/ pc' = "patch" /\ PatchCluster(cl.refused) /\ UNCHANGED run
    BY <1>5 DEF patchAkoPackageRefToClusterBootstrap, Goto
  <2> QED
    BY <1>2, <1>3, <2>1
<1> QED
  BY <1>4, <1>5 DEF AddonPhases

\* A pass ends, with another one due if it failed.
LEMMA PatchStep ==
  ASSUME Shape, CredentialsInv, PatchADC
  PROVE  Shape' /\ CredentialsInv' /\ KeepsPassword
<1>1. /\ UNCHANGED <<cl, avi, secret, ca, admin, unseen>> /\ pc = "patch"
      /\ pc' = "idle" /\ run' = Idle
  BY DEF PatchADC, Goto
<1>2. queue' = (queue \/ run.failed) \/ queue' = TRUE
  BY DEF PatchADC
<1>3. DOMAIN run' = {"obj", "read", "found", "pw", "failed"} /\ run'.failed = FALSE
  BY <1>1 DEF Idle
<1>4. queue' \in BOOLEAN /\ (~queue' => ~queue /\ ~run.failed)
  BY Zenon, <1>2 DEF Shape
<1>5. Shape'
  BY Zenon, <1>1, <1>3, <1>4 DEF Shape
<1>6. SameCredentials
  BY <1>1 DEF SameCredentials
<1>7. CredentialsInv'
  BY <1>1, <1>3, <1>4, <1>6, SameDone DEF CredentialsInv, Clear
<1> QED
  BY <1>1, <1>5, <1>7 DEF KeepsPassword

\* A pass starts, or is cut short by a restart that queues the ADC again.
LEMMA StartStep ==
  ASSUME Shape, Take \/ Restart
  PROVE  Shape' /\ CredentialsInv' /\ KeepsPassword
<1>1. UNCHANGED <<cl, avi, secret>>
  BY DEF Take, Restart, objects
<1>2. CASE Take
  <2>1. /\ DOMAIN run' = {"obj", "read", "found", "pw", "failed"} /\ run'.failed = (ca = Nil)
        /\ queue' = FALSE /\ unseen' = FALSE
    BY <1>2 DEF Take, Idle
  <2>2. pc' = IF ca = Nil THEN "addon" ELSE "subnets"
    BY <1>2 DEF Take, Goto
  <2>3. Shape'
    BY Zenon, <1>1, <2>1 DEF Shape
  <2>4. CredentialsInv'
    BY Zenon, <2>1, <2>2 DEF CredentialsInv, Clear
  <2> QED
    BY <1>1, <2>3, <2>4 DEF KeepsPassword
<1>3. CASE Restart
  <2>1. /\ DOMAIN run' = {"obj", "read", "found", "pw", "failed"} /\ run'.failed = FALSE
        /\ queue' = TRUE /\ unseen' = unseen /\ pc' = "idle"
    BY <1>3 DEF Restart, Idle, Goto
  <2>2. Shape'
    BY Zenon, <1>1, <2>1 DEF Shape
  <2>3. CredentialsInv'
    BY <2>1 DEF CredentialsInv, Clear
  <2> QED
    BY <1>1, <2>2, <2>3 DEF KeepsPassword
<1> QED
  BY <1>2, <1>3

\* What goes on around a pass either leaves the credentials alone or makes a pass due.
Around ==
  \/ SyncADC \/ Resync \/ Edits \/ RestoreAuthority \/ ServiceCreated \/ ResolveRelease

\* An administrator's edit of AVI.
LEMMA EditAviShape ==
  ASSUME Shape, NilApart, EditAvi
  PROVE  /\ DOMAIN avi' = DOMAIN avi
         /\ avi'.user # Nil => avi'.user = [pw |-> avi'.user.pw, tenant |-> avi'.user.tenant]
<1>1. CASE avi.user # Nil /\ avi' = [avi EXCEPT !.user.pw = 0]
  <2>1. avi.user = [pw |-> avi.user.pw, tenant |-> avi.user.tenant]
    BY <1>1 DEF Shape
  <2>2. DOMAIN avi' = DOMAIN avi /\ avi'.user = [avi.user EXCEPT !.pw = 0]
    BY <1>1 DEF Shape
  <2>3. avi'.user = [pw |-> 0, tenant |-> avi.user.tenant]
    BY <2>1, <2>2
  <2> QED
    BY <2>2, <2>3
<1>2. CASE avi' = [avi EXCEPT !.user = Nil]
  BY <1>2 DEF Shape
<1>3. CASE \/ \E v : avi' = [avi EXCEPT !.version = v]
           \/ \E v : avi' = [avi EXCEPT !.ipam = v]
           \/ \E v : avi' = [avi EXCEPT !.usable = v]
           \/ \E v : avi' = [avi EXCEPT !.subnets = v]
           \/ \E v : avi' = [avi EXCEPT !.role = v]
  <2>1. DOMAIN avi' = DOMAIN avi /\ avi'.user = avi.user
    BY <1>3 DEF Shape
  <2> QED
    BY <2>1 DEF Shape
<1> QED
  BY Zenon, <1>1, <1>2, <1>3 DEF EditAvi

LEMMA AroundShape ==
  ASSUME NilApart, Shape, Around
  PROVE  Shape' /\ cl'.kind = cl.kind
<1>1. DOMAIN cl' = DOMAIN cl /\ cl'.kind = cl.kind /\ UNCHANGED run
  BY Zenon DEF Around, SyncADC, Resync, Edits, EditADC, EditAuthority, EditAdmin, DeleteSecret,
         EditAvi, RestoreAuthority, ServiceCreated, ResolveRelease, objects, Shape
<1>2. queue' \in BOOLEAN /\ unseen' \in BOOLEAN
  BY Zenon DEF Around, SyncADC, Resync, Edits, EditADC, EditAuthority, EditAdmin, DeleteSecret,
         EditAvi, RestoreAuthority, ServiceCreated, ResolveRelease, Shape
<1>3. secret' = secret \/ secret' = Nil
  BY Zenon DEF Around, SyncADC, Resync, Edits, EditADC, EditAuthority, EditAdmin, DeleteSecret,
         EditAvi, RestoreAuthority, ServiceCreated, ResolveRelease, objects
<1>4. EditAvi \/ UNCHANGED avi
  BY DEF Around, SyncADC, Resync, Edits, EditADC, EditAuthority, EditAdmin, DeleteSecret,
         RestoreAuthority, ServiceCreated, ResolveRelease
<1>5. /\ DOMAIN avi' = DOMAIN avi
      /\ avi'.user # Nil => avi'.user = [pw |-> avi'.user.pw, tenant |-> avi'.user.tenant]
  BY <1>4, EditAviShape DEF Shape
<1> QED
  BY <1>1, <1>2, <1>3, <1>5 DEF Shape

LEMMA AroundStep ==
  ASSUME NilApart, Shape, CredentialsInv, Around
  PROVE  Shape' /\ CredentialsInv' /\ KeepsPassword
<1>1. Shape' /\ cl'.kind = cl.kind
  BY Zenon, AroundShape
<1>2. UNCHANGED <<pc, run>>
  BY DEF Around, SyncADC, Resync, Edits, EditADC, EditAuthority, EditAdmin, DeleteSecret,
         EditAvi, RestoreAuthority, ServiceCreated, ResolveRelease
<1>3. KeepsPassword
  BY Zenon DEF Around, SyncADC, Resync, Edits, EditADC, EditAuthority, EditAdmin, DeleteSecret,
         EditAvi, RestoreAuthority, ServiceCreated, ResolveRelease, objects, KeepsPassword
<1>4. CASE queue' = TRUE \/ unseen' = TRUE
  <2>1. CredentialsInv'
    BY <1>1, <1>2, <1>4 DEF CredentialsInv, Clear, Workload
  <2> QED
    BY <1>1, <1>3, <2>1
<1>5. CASE UNCHANGED <<avi, secret, ca, admin, queue, unseen>>
  <2>1. SameCredentials
    BY <1>1, <1>5 DEF SameCredentials
  <2>2. /\ AccountDone => AccountDone'
        /\ Workload' <=> Workload
    BY <2>1, SameDone
  <2>3. CredentialsInv'
    BY <1>2, <1>5, <2>2 DEF CredentialsInv, Clear
  <2> QED
    BY <1>1, <1>3, <2>3
<1> QED
  BY Zenon, <1>1, <1>3, <1>4, <1>5
     DEF Around, SyncADC, Resync, Edits, EditADC, EditAuthority, EditAdmin, DeleteSecret,
         EditAvi, RestoreAuthority, ServiceCreated, ResolveRelease, objects

-----------------------------------------------------------------------------

LEMMA InitCredentials == Init => CredentialsInv
<1> SUFFICES ASSUME Init PROVE CredentialsInv
  OBVIOUS
<1>1. pc = "idle" /\ run = Idle /\ queue = TRUE
  BY DEF Init
<1>2. run.failed = FALSE
  BY <1>1 DEF Idle
<1> QED
  BY <1>1, <1>2 DEF CredentialsInv, Clear

LEMMA StepCredentials ==
  ASSUME NilApart, Permissions, Shape, CredentialsInv, [Next]_vars
  PROVE  Shape' /\ CredentialsInv' /\ KeepsPassword
<1>1. CASE NetworkPhases
  <2>1. Shape' /\ SameCredentials /\ pc' \in {"usable", "infra", "version", "secret"}
    BY <1>1, NetworkStep
  <2>2. CredentialsInv'
    BY <2>1 DEF CredentialsInv, Clear
  <2> QED
    BY <2>1, <2>2 DEF SameCredentials, KeepsPassword
<1>2. CASE reconcileAviUserNormal
  BY <1>2, SecretStep
<1>3. CASE EnsureRole
  BY <1>3, RoleStep
<1>4. CASE EnsureAccount
  BY <1>4, AccountStep
<1>5. CASE AddonPhases
  BY <1>5, AddonStep
<1>6. CASE PatchADC
  BY <1>6, PatchStep
<1>7. CASE Take \/ Restart
  BY <1>7, StartStep
<1>8. CASE Around
  BY <1>8, AroundStep
<1>9. CASE UNCHANGED vars
  <2>1. UNCHANGED <<cl, avi, ca, admin, secret, pc, run, queue, unseen>>
    BY <1>9 DEF vars
  <2>2. Shape'
    BY <2>1 DEF Shape
  <2>3. SameCredentials
    BY <2>1 DEF SameCredentials
  <2>4. CredentialsInv'
    BY <2>1, <2>3, SameDone DEF CredentialsInv, Clear
  <2> QED
    BY <2>1, <2>2, <2>4 DEF KeepsPassword
<1> QED
  BY <1>1, <1>2, <1>3, <1>4, <1>5, <1>6, <1>7, <1>8, <1>9
     DEF Next, Pass, NetworkPhases, AddonPhases, Around

-----------------------------------------------------------------------------
(***************************************************************************)
(* The well-formed state, part by part.                                    *)
(***************************************************************************)

CopiesOK ==
  /\ adc \in ADCs /\ adcCache \in ADCs
  /\ pc = "idle" <=> run = Idle
  /\ pc # "idle" => run.obj \in ADCs /\ run.read \in ADCs

SubnetsOK ==
  /\ avi.subnets \in Seq(Subnets)
  /\ \A i \in DOMAIN avi.subnets : AviAccepts(avi.subnets[i])

CountsOK ==
  /\ cl.kind \in ClusterKinds
  /\ avi.usable \subseteq {"control", "data"} /\ avi.version \in Versions
  /\ bootstrap \in [release : 0..2, package : {Nil} \cup 1..2]
  /\ upsets \in 0..MaxUpsets

PasswordsOK ==
  /\ avi.user # Nil => avi.role # Nil /\ avi.user.pw \in 0..passwords
  /\ passwords \in Nat /\ passwords + (IF secret = Nil THEN 1 ELSE 0) <= upsets + 1
  /\ Workload /\ secret # Nil => secret.pw \in 1..passwords
  /\ pc \in {"role", "account"} => run.pw \in 1..passwords

LEMMA TypeParts == TypeOK <=> CopiesOK /\ SubnetsOK /\ CountsOK /\ PasswordsOK
  BY DEF TypeOK, CopiesOK, SubnetsOK, CountsOK, PasswordsOK

\* The calls of a pass, up to the patch of the ADC that ends it.
Calls ==
  NetworkPhases \/ reconcileAviUserNormal \/ EnsureRole \/ EnsureAccount \/ AddonPhases

\* A call works on the same ADC as the one before, and a failure, an event that is due or
\* a change that brings no event are not forgotten.
LEMMA CallFrame ==
  ASSUME Shape, CopiesOK, CountsOK, Calls
  PROVE  /\ UNCHANGED <<adc, adcCache>> /\ cl'.kind = cl.kind
         /\ pc # "idle" /\ pc' \notin {"idle", "subnets"}
         /\ run'.read = run.read /\ run'.obj \in ADCs /\ run'.obj.spec = run.obj.spec
         /\ (Clear' => Clear) /\ (~queue' => ~queue)
<1>1. UNCHANGED <<adc, adcCache>>
  BY Zenon DEF Calls, NetworkPhases, AddonPhases, reconcileNetworkSubnets, reconcileCloudUsableNetwork,
         reconcileAviInfraSetting, reconcileControllerVersion, reconcileAviUserNormal, EnsureRole,
         EnsureAccount, ReconcileAddonSecret, patchAkoPackageRefToClusterBootstrap, objects
<1>2. pc \in {"subnets", "usable", "infra", "version", "secret", "role", "account", "addon", "package"}
  BY Zenon DEF Calls, NetworkPhases, AddonPhases, reconcileNetworkSubnets, reconcileCloudUsableNetwork,
         reconcileAviInfraSetting, reconcileControllerVersion, reconcileAviUserNormal, EnsureRole,
         EnsureAccount, ReconcileAddonSecret, patchAkoPackageRefToClusterBootstrap
<1>3. pc' \in {"usable", "infra", "version", "secret", "role", "account", "addon", "package", "patch"}
  BY Zenon DEF Calls, NetworkPhases, AddonPhases, reconcileNetworkSubnets, reconcileCloudUsableNetwork,
         reconcileAviInfraSetting, reconcileControllerVersion, reconcileAviUserNormal, EnsureRole,
         EnsureAccount, ReconcileAddonSecret, patchAkoPackageRefToClusterBootstrap,
         Failing, Goto, UserFails, AddonFails
<1>4. \/ run' = run
      \/ run' = [run EXCEPT !.failed = TRUE]
      \/ run' = [run EXCEPT !.obj.version = avi.version]
      \/ \E v : run' = [run EXCEPT !.pw = v]
      \/ \E v : run' = [run EXCEPT !.found = v]
  BY Zenon DEF Calls, NetworkPhases, AddonPhases, reconcileNetworkSubnets, reconcileCloudUsableNetwork,
         reconcileAviInfraSetting, reconcileControllerVersion, reconcileAviUserNormal, EnsureRole,
         EnsureAccount, ReconcileAddonSecret, patchAkoPackageRefToClusterBootstrap,
         Failing, UserFails, AddonFails
<1>5. UNCHANGED <<cl, queue>> \/ \E b : PatchCluster(b)
  BY Zenon DEF Calls, NetworkPhases, AddonPhases, reconcileNetworkSubnets, reconcileCloudUsableNetwork,
         reconcileAviInfraSetting, reconcileControllerVersion, reconcileAviUserNormal, EnsureRole,
         EnsureAccount, ReconcileAddonSecret, patchAkoPackageRefToClusterBootstrap,
         UserFails, AddonFails, objects
<1>6. unseen' = unseen \/ unseen' = TRUE
  BY Zenon DEF Calls, NetworkPhases, AddonPhases, reconcileNetworkSubnets, reconcileCloudUsableNetwork,
         reconcileAviInfraSetting, reconcileControllerVersion, reconcileAviUserNormal, EnsureRole,
         EnsureAccount, ReconcileAddonSecret, patchAkoPackageRefToClusterBootstrap
<1>7. run.obj \in ADCs /\ avi.version \in Versions
  BY <1>2 DEF CopiesOK, CountsOK
<1>8. run'.read = run.read /\ run'.obj \in ADCs /\ run'.obj.spec = run.obj.spec
  BY <1>4, <1>7 DEF Shape, ADCs
<1>9. run'.failed = run.failed \/ run'.failed = TRUE
  BY <1>4 DEF Shape
<1>10. cl'.kind = cl.kind /\ (~queue' => ~queue)
  BY <1>5, PatchShape
<1>11. Clear' => Clear
  BY <1>6, <1>9, <1>10 DEF Clear
<1> QED
  BY Zenon, <1>1, <1>2, <1>3, <1>8, <1>10, <1>11

LEMMA CopiesStep ==
  ASSUME NilApart, Shape, CopiesOK, CountsOK, [Next]_vars
  PROVE  CopiesOK'
<1>1. CASE Calls
  <2>1. /\ UNCHANGED <<adc, adcCache>> /\ pc # "idle" /\ pc' # "idle"
        /\ run'.read = run.read /\ run'.obj \in ADCs
    BY <1>1, CallFrame
  <2>2. run' # Idle
    BY <2>1, RecordsApart DEF ADCs, Idle
  <2> QED
    BY <2>1, <2>2 DEF CopiesOK
<1>2. CASE PatchADC
  <2>1. /\ UNCHANGED adcCache /\ pc = "patch" /\ pc' = "idle" /\ run' = Idle
        /\ adc' = [adc EXCEPT !.version = run.obj.version] \/ adc' = adc
    BY <1>2 DEF PatchADC, Goto
  <2>2. run.obj \in ADCs /\ adc \in ADCs
    BY <2>1 DEF CopiesOK
  <2>3. adc' \in ADCs
    BY <2>1, <2>2 DEF ADCs
  <2> QED
    BY <2>1, <2>3 DEF CopiesOK
<1>3. CASE Take
  <2>1. /\ UNCHANGED <<adc, adcCache>> /\ pc' \in {"addon", "subnets"}
        /\ run' = [Idle EXCEPT !.obj = adcCache, !.read = adcCache, !.failed = ca = Nil]
    BY <1>3 DEF Take, Goto, objects
  <2>2. run'.obj = adcCache /\ run'.read = adcCache
    BY <2>1 DEF Idle
  <2>3. run' # Idle
    BY <2>2, RecordsApart DEF CopiesOK, ADCs, Idle
  <2> QED
    BY <2>1, <2>2, <2>3 DEF CopiesOK
<1>4. CASE Restart
  BY <1>4 DEF Restart, Goto, CopiesOK
<1>5. CASE Around \/ UNCHANGED vars
  <2>1. UNCHANGED <<pc, run>>
    BY Zenon, <1>5 DEF Around, SyncADC, Resync, Edits, EditADC, EditAuthority, EditAdmin, DeleteSecret,
         EditAvi, RestoreAuthority, ServiceCreated, ResolveRelease, vars
  <2>2. \/ \E s \in Specs : adc' = [adc EXCEPT !.spec = s]
        \/ adc' = adc
    BY Zenon, <1>5 DEF Around, SyncADC, Resync, Edits, EditADC, EditAuthority, EditAdmin, DeleteSecret,
         EditAvi, RestoreAuthority, ServiceCreated, ResolveRelease, objects, vars
  <2>3. adcCache' = adcCache \/ adcCache' = adc
    BY Zenon, <1>5 DEF Around, SyncADC, Resync, Edits, EditADC, EditAuthority, EditAdmin, DeleteSecret,
         EditAvi, RestoreAuthority, ServiceCreated, ResolveRelease, objects, vars
  <2>4. adc' \in ADCs /\ adcCache' \in ADCs
    BY <2>2, <2>3 DEF CopiesOK, ADCs
  <2> QED
    BY Zenon, <2>1, <2>4 DEF CopiesOK
<1> QED
  BY <1>1, <1>2, <1>3, <1>4, <1>5 DEF Next, Pass, Calls, NetworkPhases, AddonPhases, Around

-----------------------------------------------------------------------------
(***************************************************************************)
(* The subnets of the data network.                                        *)
(***************************************************************************)

Distinct == \A i, j \in DOMAIN avi.subnets : avi.subnets[i].prefix = avi.subnets[j].prefix => i = j

LEMMA ConcatFacts ==
  ASSUME NEW T, NEW b \in Seq(T), NEW c \in Seq(T)
  PROVE  b \o c \in Seq(T) /\ Len(b \o c) = Len(b) + Len(c)
  OBVIOUS

\* A list without one of its elements.
LEMMA RemoveFacts ==
  ASSUME NEW T, NEW s \in Seq(T), NEW i \in DOMAIN s
  PROVE  LET a == SubSeq(s, 1, i - 1) \o SubSeq(s, i + 1, Len(s))
         IN /\ a \in Seq(T) /\ DOMAIN a = 1..(Len(s) - 1)
            /\ \A j \in DOMAIN a : LET k == IF j < i THEN j ELSE j + 1
                                   IN k \in DOMAIN s /\ a[j] = s[k]
<1> DEFINE n == Len(s)
           b == SubSeq(s, 1, i - 1)
           c == SubSeq(s, i + 1, n)
           a == b \o c
<1>1. n \in Nat /\ i \in 1..n /\ DOMAIN s = 1..n
  OBVIOUS
<1>2. b \in Seq(T) /\ Len(b) = i - 1 /\ \A j \in 1..(i - 1) : b[j] = s[j]
  BY <1>1
<1>3. c \in Seq(T) /\ Len(c) = n - i /\ \A j \in 1..(n - i) : c[j] = s[i + j]
  BY <1>1
<1> HIDE DEF b, c, n
<1>4. a \in Seq(T) /\ Len(a) = n - 1 /\ DOMAIN a = 1..(n - 1)
  <2>1. a \in Seq(T) /\ Len(a) = Len(b) + Len(c)
    BY Zenon, <1>2, <1>3, ConcatFacts
  <2>2. Len(a) = n - 1
    BY <1>1, <1>2, <1>3, <2>1
  <2> HIDE DEF a
  <2> QED
    BY <2>1, <2>2, SeqFacts
<1>5. ASSUME NEW j \in 1..(n - 1), j < i PROVE j \in 1..n /\ a[j] = s[j]
  BY <1>1, <1>2, <1>3, <1>5
<1>6. ASSUME NEW j \in 1..(n - 1), ~(j < i) PROVE j + 1 \in 1..n /\ a[j] = s[j + 1]
  <2>1. j - (i - 1) \in 1..(n - i) /\ j > i - 1 /\ i + (j - (i - 1)) = j + 1
    BY <1>1, <1>6
  <2>2. a[j] = c[j - (i - 1)]
    BY <1>1, <1>2, <1>3, <2>1
  <2> QED
    <3> DEFINE l == j - (i - 1)
    <3>1. l \in 1..(n - i) /\ i + l = j + 1 /\ a[j] = c[l]
      BY <2>1, <2>2
    <3>2. c[l] = s[i + l]
      BY <1>3, <3>1
    <3>3. j + 1 \in 1..n
      BY <1>1, <1>6
    <3> QED
      BY <3>1, <3>2, <3>3
<1> QED
  BY Zenon, <1>1, <1>4, <1>5, <1>6 DEF n, b, c

LEMMA TailFacts ==
  ASSUME NEW T, NEW s \in Seq(T), s # <<>>
  PROVE  LET a == Tail(s)
         IN a \in Seq(T) /\ \A i \in DOMAIN a : i \in Nat /\ i + 1 \in DOMAIN s /\ a[i] = s[i + 1]
  OBVIOUS

\* What AVI accepts, it accepts without the first range.
LEMMA TailAccepted ==
  ASSUME NEW old \in Subnets, old.ranges # <<>>, AviAccepts(old)
  PROVE  LET new == [old EXCEPT !.ranges = Tail(@)]
         IN new \in Subnets /\ new.prefix = old.prefix /\ AviAccepts(new)
<1> DEFINE new == [old EXCEPT !.ranges = Tail(@)]
           s == old.ranges
           a == Tail(s)
<1>1. s \in Seq(Pools) /\ s # <<>>
  BY DEF Subnets
<1>2. new.ranges = a /\ new.prefix = old.prefix /\ DOMAIN new = DOMAIN old
  BY DEF Subnets
<1> HIDE DEF s
<1>3. a \in Seq(Pools) /\ \A i \in DOMAIN a : i \in Nat /\ i + 1 \in DOMAIN s /\ a[i] = s[i + 1]
  BY <1>1, TailFacts
<1> HIDE DEF a
<1>4. new \in Subnets
  BY Zenon, <1>2, <1>3 DEF Subnets, a
<1> HIDE DEF new
<1>5. AviAccepts(new)
  <2> SUFFICES ASSUME NEW i \in DOMAIN a
               PROVE  LET r == a[i]
                      IN /\ Inside(old.prefix, r.begin) /\ Inside(old.prefix, r.end)
                         /\ r.begin <= r.end
                         /\ \A j \in DOMAIN a \ {i} : r.end < a[j].begin \/ a[j].end < r.begin
    BY <1>2 DEF AviAccepts
  <2>1. /\ Inside(old.prefix, s[i + 1].begin) /\ Inside(old.prefix, s[i + 1].end)
        /\ s[i + 1].begin <= s[i + 1].end
        /\ \A j \in DOMAIN s \ {i + 1} : s[i + 1].end < s[j].begin \/ s[j].end < s[i + 1].begin
    BY <1>3 DEF AviAccepts, s
  <2>2. \A j \in DOMAIN a \ {i} : j + 1 \in DOMAIN s \ {i + 1}
    BY <1>3
  <2> QED
    BY <1>3, <2>1, <2>2
<1> QED
  BY <1>2, <1>4, <1>5 DEF new

\* The data network of a specification, as EnsureAviNetwork leaves it.
LEMMA NetworkOfSpec ==
  ASSUME SubnetsOK, Distinct, NEW spec \in Specs
  PROVE  LET new == EnsureAviNetwork(avi.subnets, spec.cidr, spec.pools)
         IN new \in Seq(Subnets) /\ Brought(new, avi.subnets, spec.cidr, spec.pools)
<1> DEFINE C == {s.cidr : s \in Specs}
           cidr == spec.cidr
           pools == spec.pools
           subnets == avi.subnets
<1>1. C \in SUBSET Prefixes /\ cidr \in C
  BY PhasesAssumption
<1>2. \A c, d \in C : c.addr = d.addr /\ c.size = d.size => c = d
  BY PhasesAssumption
<1>3. pools # Nil => pools \in Seq(Pools)
  BY PhasesAssumption
<1>4. Subnets = [prefix : C, ranges : Seq(Pools)]
  BY DEF Subnets
<1>5. subnets \in Seq([prefix : C, ranges : Seq(Pools)])
  BY <1>4 DEF SubnetsOK
<1>6. \A i, j \in DOMAIN subnets : subnets[i].prefix = subnets[j].prefix => i = j
  BY DEF Distinct
<1> HIDE DEF C, cidr, pools, subnets
<1>7. LET new == EnsureAviNetwork(subnets, cidr, pools)
      IN new \in Seq([prefix : C, ranges : Seq(Pools)]) /\ Brought(new, subnets, cidr, pools)
  BY Zenon, <1>1, <1>2, <1>3, <1>5, <1>6, NetworkEnsured
<1> QED
  BY Zenon, <1>4, <1>7 DEF cidr, pools, subnets

LEMMA OneSubnet ==
  ASSUME NEW new, NEW cidr, NEW i \in DOMAIN new, new[i].prefix = cidr,
         \A j, k \in DOMAIN new : new[j].prefix = new[k].prefix => j = k
  PROVE  Cardinality({j \in DOMAIN new : new[j].prefix = cidr}) = 1
<1>1. {j \in DOMAIN new : new[j].prefix = cidr} = {i}
  OBVIOUS
<1> QED
  BY <1>1, FS_Singleton

\* The call for the subnets, in the pass over some ADC.
LEMMA SubnetsCall ==
  ASSUME Shape, CopiesOK, SubnetsOK, Distinct, reconcileNetworkSubnets
  PROVE  /\ SubnetsOK' /\ Distinct'
         /\ Clear' => SubnetDone(run.obj.spec)'
         /\ \A i \in DOMAIN avi.subnets : avi.subnets[i].prefix # run.obj.spec.cidr =>
              i \in DOMAIN avi'.subnets /\ avi'.subnets[i] = avi.subnets[i]
<1> DEFINE spec == run.obj.spec
           subnets == EnsureAviNetwork(avi.subnets, spec.cidr, spec.pools)
<1>1. spec \in Specs
  BY DEF reconcileNetworkSubnets, CopiesOK, ADCs
<1>2. CASE /\ \A i \in DOMAIN subnets : AviAccepts(subnets[i])
           /\ avi' = [avi EXCEPT !.subnets = subnets] /\ run' = run
  <2>1. avi'.subnets = subnets /\ run'.obj.spec = spec
    BY <1>2 DEF Shape
  <2>2. /\ subnets \in Seq(Subnets)
        /\ \A i, j \in DOMAIN subnets : subnets[i].prefix = subnets[j].prefix => i = j
        /\ \E i \in DOMAIN subnets :
             /\ subnets[i].prefix = spec.cidr
             /\ spec.pools # Nil => Range(Bounds(subnets[i].ranges)) = Range(Bounds(spec.pools))
        /\ \A i \in DOMAIN avi.subnets : avi.subnets[i].prefix # spec.cidr =>
             i \in DOMAIN subnets /\ subnets[i] = avi.subnets[i]
    BY Zenon, <1>1, NetworkOfSpec DEF Brought
  <2>3. \A i \in DOMAIN subnets : AviAccepts(subnets[i])
    BY <1>2
  <2> HIDE DEF subnets, spec
  <2>4. Cardinality({j \in DOMAIN subnets : subnets[j].prefix = spec.cidr}) = 1
    BY <2>2, OneSubnet
  <2>5. spec.pools # Nil =>
          \A i \in DOMAIN subnets : subnets[i].prefix = spec.cidr =>
            Range(Bounds(subnets[i].ranges)) = Range(Bounds(spec.pools))
    BY <2>2
  <2>6. SubnetDone(run.obj.spec)'
    BY <2>1, <2>4, <2>5 DEF SubnetDone
  <2>7. SubnetsOK' /\ Distinct'
    BY <2>1, <2>2, <2>3 DEF SubnetsOK, Distinct
  <2> QED
    BY <2>1, <2>2, <2>6, <2>7 DEF spec
<1>3. CASE UNCHANGED avi /\ ~Clear'
  BY <1>3 DEF SubnetsOK, Distinct
<1>4. ASSUME Failing("usable") \/ unseen' = TRUE PROVE ~Clear'
  BY Zenon, <1>4, FailShape DEF Clear
<1> QED
  BY Zenon, <1>2, <1>3, <1>4 DEF reconcileNetworkSubnets

\* An administrator's edit of AVI leaves subnets with different prefixes and ranges that
\* are apart.
LEMMA EditSubnets ==
  ASSUME Shape, SubnetsOK, Distinct, EditAvi
  PROVE  SubnetsOK' /\ Distinct'
<1> DEFINE s == avi.subnets
<1>1. s \in Seq(Subnets) /\ \A i \in DOMAIN s : AviAccepts(s[i])
  BY DEF SubnetsOK
<1>2. Len(s) \in Nat /\ DOMAIN s = 1..Len(s) /\ \A i \in DOMAIN s : s[i] \in Subnets
  BY <1>1, SeqFacts
<1>3. \A i, j \in DOMAIN s : s[i].prefix = s[j].prefix => i = j
  BY Zenon DEF Distinct
<1>4. \/ avi'.subnets = s
      \/ \E c \in Specs :
           /\ \A i \in DOMAIN s : s[i].prefix # c.cidr
           /\ avi'.subnets = Append(s, [prefix |-> c.cidr, ranges |-> <<>>])
      \/ \E i \in DOMAIN s : avi'.subnets = SubSeq(s, 1, i - 1) \o SubSeq(s, i + 1, Len(s))
      \/ \E i \in DOMAIN s :
           s[i].ranges # <<>> /\ avi'.subnets = [s EXCEPT ![i].ranges = Tail(@)]
  <2>1. \/ \E f \in {"version", "ipam", "usable", "user", "role"} : \E v : avi' = [avi EXCEPT ![f] = v]
        \/ avi' = [avi EXCEPT !.user.pw = 0]
        \/ \E c \in Specs :
             /\ \A i \in DOMAIN s : s[i].prefix # c.cidr
             /\ avi' = [avi EXCEPT !.subnets = Append(@, [prefix |-> c.cidr, ranges |-> <<>>])]
        \/ \E i \in DOMAIN s :
             avi' = [avi EXCEPT !.subnets = SubSeq(@, 1, i - 1) \o SubSeq(@, i + 1, Len(@))]
        \/ \E i \in DOMAIN s :
             s[i].ranges # <<>> /\ avi' = [avi EXCEPT !.subnets[i].ranges = Tail(@)]
    BY Zenon DEF EditAvi
  <2>2. ASSUME NEW f \in {"version", "ipam", "usable", "user", "role"}, NEW v, avi' = [avi EXCEPT ![f] = v]
        PROVE  avi'.subnets = s
    BY <2>2 DEF Shape
  <2>3. ASSUME avi' = [avi EXCEPT !.user.pw = 0] PROVE avi'.subnets = s
    BY <2>3 DEF Shape
  <2>4. ASSUME NEW v, avi' = [avi EXCEPT !.subnets = v] PROVE avi'.subnets = v
    BY <2>4 DEF Shape
  <2>5. ASSUME NEW i \in DOMAIN s, avi' = [avi EXCEPT !.subnets[i].ranges = Tail(@)]
        PROVE  avi'.subnets = [s EXCEPT ![i].ranges = Tail(@)]
    BY <2>5 DEF Shape
  <2> QED
    BY Zenon, <2>1, <2>2, <2>3, <2>4, <2>5
<1> HIDE DEF s
<1>5. CASE avi'.subnets = s
  BY <1>1, <1>3, <1>5 DEF SubnetsOK, Distinct
<1>6. ASSUME NEW c \in Specs, \A i \in DOMAIN s : s[i].prefix # c.cidr,
             avi'.subnets = Append(s, [prefix |-> c.cidr, ranges |-> <<>>])
      PROVE  SubnetsOK' /\ Distinct'
  <2> DEFINE x == [prefix |-> c.cidr, ranges |-> <<>>]
             n == Len(s)
             a == avi'.subnets
  <2>1. x \in Subnets /\ x.prefix = c.cidr /\ AviAccepts(x)
    BY DEF Subnets, AviAccepts
  <2>2. a = Append(s, x)
    BY <1>6
  <2> HIDE DEF x, a
  <2>3. /\ a \in Seq(Subnets) /\ DOMAIN a = 1..(n + 1) /\ a[n + 1] = x
        /\ \A i \in 1..n : a[i] = s[i]
    BY <1>1, <2>1, <2>2, AppendFacts
  <2>4. \A i \in 1..(n + 1) : i \in 1..n \/ i = n + 1
    BY <1>2
  <2>5. \A i \in DOMAIN a : AviAccepts(a[i])
    BY <1>1, <1>2, <2>1, <2>3, <2>4
  <2>6. \A i, j \in DOMAIN a : a[i].prefix = a[j].prefix => i = j
    BY <1>2, <1>3, <1>6, <2>1, <2>3, <2>4
  <2> QED
    BY <2>3, <2>5, <2>6 DEF SubnetsOK, Distinct, a
<1>7. ASSUME NEW i \in DOMAIN s, avi'.subnets = SubSeq(s, 1, i - 1) \o SubSeq(s, i + 1, Len(s))
      PROVE  SubnetsOK' /\ Distinct'
  <2> DEFINE a == avi'.subnets
             at(j) == IF j < i THEN j ELSE j + 1
  <2>1. /\ a \in Seq(Subnets) /\ DOMAIN a = 1..(Len(s) - 1)
        /\ \A j \in DOMAIN a : at(j) \in DOMAIN s /\ a[j] = s[at(j)]
    <3>1. a = SubSeq(s, 1, i - 1) \o SubSeq(s, i + 1, Len(s)) /\ s \in Seq(Subnets)
      BY <1>1, <1>7
    <3> HIDE DEF a
    <3> QED
      BY Zenon, <3>1, RemoveFacts
  <2>2. \A j, k \in 1..(Len(s) - 1) : at(j) = at(k) => j = k
    BY <1>2
  <2> HIDE DEF a, at
  <2>3. \A j \in DOMAIN a : AviAccepts(a[j])
    BY <1>1, <2>1
  <2>4. \A j, k \in DOMAIN a : a[j].prefix = a[k].prefix => j = k
    BY <1>3, <2>1, <2>2
  <2> QED
    BY Zenon, <2>1, <2>3, <2>4 DEF SubnetsOK, Distinct, a
<1>8. ASSUME NEW i \in DOMAIN s, s[i].ranges # <<>>,
             avi'.subnets = [s EXCEPT ![i].ranges = Tail(@)]
      PROVE  SubnetsOK' /\ Distinct'
  <2> DEFINE old == s[i]
             x == [old EXCEPT !.ranges = Tail(@)]
             a == avi'.subnets
  <2>1. old \in Subnets /\ old.ranges # <<>> /\ AviAccepts(old)
    BY <1>1, <1>2, <1>8
  <2>2. a = [s EXCEPT ![i] = x]
    BY <1>8
  <2> HIDE DEF old, a
  <2>3. x \in Subnets /\ x.prefix = old.prefix /\ AviAccepts(x)
    BY <2>1, TailAccepted
  <2> HIDE DEF x
  <2>4. /\ a \in Seq(Subnets) /\ DOMAIN a = DOMAIN s /\ a[i] = x
        /\ \A j \in DOMAIN s : j # i => a[j] = s[j]
    BY <1>1, <2>2, <2>3, ExceptFacts
  <2>5. \A j \in DOMAIN a : AviAccepts(a[j]) /\ a[j].prefix = s[j].prefix
    BY <1>1, <2>3, <2>4 DEF old
  <2> QED
    BY <1>3, <2>4, <2>5 DEF SubnetsOK, Distinct, a
<1> QED
  BY Zenon, <1>4, <1>5, <1>6, <1>7, <1>8

LEMMA SubnetsStep ==
  ASSUME NilApart, Shape, CopiesOK, SubnetsOK, Distinct, [Next]_vars
  PROVE  SubnetsOK' /\ Distinct'
<1>1. CASE reconcileNetworkSubnets
  BY <1>1, SubnetsCall
<1>2. CASE EditAvi
  BY <1>2, EditSubnets
<1>3. CASE avi'.subnets = avi.subnets
  BY <1>3 DEF SubnetsOK, Distinct
<1>4. \/ reconcileNetworkSubnets \/ EditAvi
      \/ \E v : avi' = [avi EXCEPT !.usable = v]
      \/ \E v : avi' = [avi EXCEPT !.role = v]
      \/ \E v : avi' = [avi EXCEPT !.user = v]
      \/ UNCHANGED avi
  BY Zenon DEF Next, Pass, Edits, Take, Restart, reconcileCloudUsableNetwork, AddUsableNetwork,
         reconcileAviInfraSetting, reconcileControllerVersion, reconcileAviUserNormal, EnsureRole,
         EnsureAccount, ReconcileAddonSecret, patchAkoPackageRefToClusterBootstrap, PatchADC,
         SyncADC, Resync, EditADC, EditAuthority, EditAdmin, DeleteSecret, RestoreAuthority,
         ServiceCreated, ResolveRelease, vars
<1>5. reconcileNetworkSubnets \/ EditAvi \/ avi'.subnets = avi.subnets
  BY <1>4 DEF Shape
<1> QED
  BY <1>1, <1>2, <1>3, <1>5

-----------------------------------------------------------------------------
(***************************************************************************)
(* Counters, versions and passwords.                                       *)
(***************************************************************************)

LEMMA UpsetStep ==
  ASSUME [Next]_vars
  PROVE  upsets' = upsets \/ Upset
  BY Zenon DEF Next, Pass, Edits, Take, Restart, reconcileNetworkSubnets, reconcileCloudUsableNetwork,
         reconcileAviInfraSetting, reconcileControllerVersion, reconcileAviUserNormal, EnsureRole,
         EnsureAccount, ReconcileAddonSecret, patchAkoPackageRefToClusterBootstrap, PatchADC,
         SyncADC, Resync, EditADC, EditAuthority, EditAdmin, DeleteSecret, EditAvi,
         RestoreAuthority, ServiceCreated, ResolveRelease, vars

LEMMA KindStep ==
  ASSUME NilApart, Shape, CopiesOK, CountsOK, [Next]_vars
  PROVE  cl'.kind = cl.kind
<1>1. CASE Calls
  BY <1>1, CallFrame
<1>2. CASE Around
  BY <1>2, AroundShape
<1>3. CASE PatchADC \/ Take \/ Restart \/ UNCHANGED vars
  BY <1>3 DEF PatchADC, Take, Restart, objects, vars
<1> QED
  BY <1>1, <1>2, <1>3 DEF Next, Pass, Calls, NetworkPhases, AddonPhases, Around

LEMMA UsableNames ==
  ASSUME NEW spec
  PROVE  /\ Len(UsableNetworks(spec)) \in Nat
         /\ \A i \in 1..Len(UsableNetworks(spec)) : UsableNetworks(spec)[i] \in {"control", "data"}
         /\ Range(UsableNetworks(spec)) = {UsableNetworks(spec)[i] : i \in 1..Len(UsableNetworks(spec))}
  BY DEF UsableNetworks, Range

\* The usable networks and the version of AVI.
LEMMA AviStep ==
  ASSUME Shape, CountsOK, [Next]_vars
  PROVE  avi'.usable \subseteq {"control", "data"} /\ avi'.version \in Versions
<1>1. \/ \E v : avi' = [avi EXCEPT !.subnets = v]
      \/ \E v : avi' = [avi EXCEPT !.role = v]
      \/ \E v : avi' = [avi EXCEPT !.user = v]
      \/ \E v : avi' = [avi EXCEPT !.ipam = v]
      \/ \E v \in Versions : avi' = [avi EXCEPT !.version = v]
      \/ \E n \in avi.usable : avi' = [avi EXCEPT !.usable = @ \ {n}]
      \/ avi' = [avi EXCEPT !.user.pw = 0]
      \/ \E i : avi' = [avi EXCEPT !.subnets[i].ranges = Tail(@)]
      \/ reconcileCloudUsableNetwork
      \/ UNCHANGED avi
  BY Zenon DEF Next, Pass, Edits, Take, Restart, reconcileNetworkSubnets,
         reconcileAviInfraSetting, reconcileControllerVersion, reconcileAviUserNormal, EnsureRole,
         EnsureAccount, ReconcileAddonSecret, patchAkoPackageRefToClusterBootstrap, PatchADC,
         SyncADC, Resync, EditADC, EditAuthority, EditAdmin, DeleteSecret, EditAvi,
         RestoreAuthority, ServiceCreated, ResolveRelease, vars
<1>2. CASE reconcileCloudUsableNetwork
  <2> DEFINE networks == UsableNetworks(run.obj.spec)
  <2>1. PICK k \in 0..Len(networks) : avi' = AddUsableNetwork(networks, k)
    BY <1>2 DEF reconcileCloudUsableNetwork
  <2>2. Len(networks) \in Nat /\ \A i \in 1..Len(networks) : networks[i] \in {"control", "data"}
    BY UsableNames
  <2> HIDE DEF networks
  <2>3. \A i \in 1..k : networks[i] \in {"control", "data"}
    BY <2>2
  <2>4. /\ avi'.version = avi.version
        /\ avi'.usable = avi.usable \cup IF avi.ipam THEN {networks[i] : i \in 1..k} ELSE {}
    BY <2>1 DEF AddUsableNetwork, Shape
  <2> QED
    BY <2>3, <2>4 DEF CountsOK
<1>3. CASE ~reconcileCloudUsableNetwork
  <2>1. /\ avi'.version \in Versions
        /\ avi'.usable = avi.usable \/ \E n : avi'.usable = avi.usable \ {n}
    BY Zenon, <1>1, <1>3 DEF CountsOK, Shape
  <2> QED
    BY <2>1 DEF CountsOK
<1> QED
  BY <1>2, <1>3

LEMMA BootstrapStep ==
  ASSUME CountsOK, [Next]_vars
  PROVE  bootstrap' \in [release : 0..2, package : {Nil} \cup 1..2]
<1>1. \/ UNCHANGED bootstrap
      \/ bootstrap.release # 0 /\ bootstrap' = WithAkoPackage(bootstrap)
      \/ bootstrap.release \in {0, 1} /\ bootstrap' = [bootstrap EXCEPT !.release = @ + 1]
  BY Zenon DEF Next, Pass, Edits, Take, Restart, reconcileNetworkSubnets, reconcileCloudUsableNetwork,
         reconcileAviInfraSetting, reconcileControllerVersion, reconcileAviUserNormal, EnsureRole,
         EnsureAccount, ReconcileAddonSecret, patchAkoPackageRefToClusterBootstrap, PatchADC,
         SyncADC, Resync, EditADC, EditAuthority, EditAdmin, DeleteSecret, EditAvi,
         RestoreAuthority, ServiceCreated, ResolveRelease, vars, objects
<1>2. bootstrap \in [release : 0..2, package : {Nil} \cup 1..2]
  BY DEF CountsOK
<1>3. CASE bootstrap.release # 0 /\ bootstrap' = WithAkoPackage(bootstrap)
  <2>1. bootstrap.release \in 1..2
    BY <1>2, <1>3
  <2> QED
    BY <1>2, <1>3, <2>1 DEF WithAkoPackage
<1>4. CASE bootstrap.release \in {0, 1} /\ bootstrap' = [bootstrap EXCEPT !.release = @ + 1]
  <2>1. bootstrap.release + 1 \in 0..2
    BY <1>2, <1>4
  <2> QED
    BY <1>2, <1>4, <2>1
<1> QED
  BY <1>1, <1>2, <1>3, <1>4

LEMMA CountsStep ==
  ASSUME NilApart, Shape, CopiesOK, CountsOK, [Next]_vars
  PROVE  CountsOK'
<1>1. cl'.kind \in ClusterKinds
  BY KindStep DEF CountsOK
<1>2. upsets' \in 0..MaxUpsets
  BY UpsetStep, PhasesAssumption DEF Upset, CountsOK
<1> QED
  BY <1>1, <1>2, AviStep, BootstrapStep DEF CountsOK

\* The account has a role and one of the passwords.
AccountOK == avi.user # Nil => avi.role # Nil /\ avi.user.pw \in 0..passwords

\* The Secret: a password is generated when there is none.
LEMMA SecretPasswords ==
  ASSUME NilApart, Shape, CountsOK, PasswordsOK, reconcileAviUserNormal
  PROVE  PasswordsOK'
<1>1. /\ UNCHANGED avi /\ passwords \in Nat /\ upsets \in Nat
      /\ upsets' = upsets \/ upsets' = upsets + 1
  BY DEF reconcileAviUserNormal, PasswordsOK, Upset, CountsOK
<1>2. CASE UserFails /\ UNCHANGED <<secret, passwords>>
  <2>1. cl'.kind = cl.kind /\ pc' = "addon"
    BY Zenon, <1>2, PatchShape, FailShape DEF UserFails
  <2> QED
    BY <1>1, <1>2, <2>1 DEF PasswordsOK, Workload
<1>3. CASE /\ ~Workload /\ PatchCluster(cl.refused) /\ pc' = "addon" /\ UNCHANGED <<passwords, upsets>>
           /\ secret' = [pw |-> admin, ca |-> ca] \/ secret' = secret
  <2>1. cl'.kind = cl.kind
    BY <1>3, PatchShape
  <2>2. secret' = Nil => secret = Nil
    BY <1>3, RecordsApart
  <2>3. passwords' + (IF secret' = Nil THEN 1 ELSE 0) <= upsets' + 1
    BY <1>1, <1>3, <2>2 DEF PasswordsOK
  <2> QED
    BY <1>1, <1>3, <2>1, <2>3 DEF PasswordsOK, Workload
<1>4. CASE /\ Workload /\ secret' = NewSecret(secret) /\ run' = [run EXCEPT !.pw = secret'.pw]
           /\ passwords' = passwords + (IF secret'.pw = passwords + 1 THEN 1 ELSE 0)
           /\ pc' = "role" /\ UNCHANGED <<cl, queue, upsets>>
  <2>1. secret' # Nil /\ (secret # Nil => secret'.pw = secret.pw)
    BY <1>4, SecretShape DEF Shape
  <2>2. run'.pw = secret'.pw
    BY <1>4 DEF Shape
  <2>3. CASE secret = Nil
    <3>1. secret'.pw = passwords + 1 /\ passwords' = passwords + 1
      BY <1>4, <2>3 DEF NewSecret
    <3>2. passwords + 1 <= upsets + 1
      BY <2>3 DEF PasswordsOK
    <3>3. passwords' + 0 <= upsets' + 1 /\ passwords' \in Nat /\ secret'.pw \in 1..passwords'
      BY <1>1, <1>4, <3>1, <3>2
    <3>4. AccountOK'
      BY <1>1, <3>1 DEF PasswordsOK, AccountOK
    <3> QED
      BY <1>4, <2>1, <2>2, <3>3, <3>4 DEF PasswordsOK, AccountOK
  <2>4. CASE secret # Nil
    <3>1. secret.pw \in 1..passwords
      BY <1>4, <2>4 DEF PasswordsOK
    <3>2. secret'.pw = secret.pw /\ passwords' = passwords
      BY <1>1, <1>4, <2>1, <2>4, <3>1
    <3>3. passwords' + 0 <= upsets' + 1
      BY <1>4, <2>4, <3>2 DEF PasswordsOK
    <3>4. AccountOK'
      BY <1>1, <3>2 DEF PasswordsOK, AccountOK
    <3> QED
      BY Zenon, <1>1, <1>4, <2>1, <2>2, <3>1, <3>2, <3>3, <3>4 DEF PasswordsOK, AccountOK
  <2> QED
    BY <2>3, <2>4
<1> QED
  BY <1>2, <1>3, <1>4 DEF reconcileAviUserNormal, Goto, Workload

\* A role is never Nil, whatever is edited in it.
LEMMA RolesApart ==
  ASSUME NilApart
  PROVE  /\ \A v : filterAkoRolePermissionByVersion(v) # Nil
         /\ \A role, v : syncAkoUserRole(role, v) # Nil
         /\ \A role \in EditedRoles : role # Nil
<1>1. \A v : filterAkoRolePermissionByVersion(v) # Nil
  BY DEF NilApart, filterAkoRolePermissionByVersion
<1>2. \A role, v : syncAkoUserRole(role, v) # Nil
  BY DEF NilApart, syncAkoUserRole
<1>3. ASSUME NEW r PROVE [avi.role EXCEPT ![r] = "NO_ACCESS"] # Nil
  BY DEF NilApart
<1>4. ASSUME NEW x PROVE [r \in DOMAIN avi.role \ {x} |-> avi.role[r]] # Nil
  BY DEF NilApart
<1>5. ASSUME NEW x
      PROVE  [r \in DOMAIN avi.role \cup {x} |-> IF r = x THEN "READ_ACCESS" ELSE avi.role[r]] # Nil
  BY DEF NilApart
<1>6. \A role \in EditedRoles : role # Nil
  BY Zenon, <1>3, <1>4, <1>5 DEF EditedRoles
<1> QED
  BY <1>1, <1>2, <1>6

\* What happens to the account and the role.
LEMMA AccountOKStep ==
  ASSUME NilApart, Shape, PasswordsOK, [Next]_vars, UNCHANGED passwords
  PROVE  AccountOK'
<1>1. \/ UNCHANGED avi
      \/ \E v : avi' = [avi EXCEPT !.subnets = v]
      \/ \E v : avi' = [avi EXCEPT !.usable = v]
      \/ \E v : avi' = [avi EXCEPT !.ipam = v]
      \/ \E v : avi' = [avi EXCEPT !.version = v]
      \/ \E i : avi' = [avi EXCEPT !.subnets[i].ranges = Tail(@)]
      \/ EnsureRole
      \/ EnsureAccount
      \/ avi' = [avi EXCEPT !.user = Nil]
      \/ avi.user # Nil /\ avi' = [avi EXCEPT !.user.pw = 0]
      \/ avi.user = Nil /\ avi' = [avi EXCEPT !.role = Nil]
      \/ \E r \in EditedRoles : avi' = [avi EXCEPT !.role = r]
  BY Zenon DEF Next, Pass, Edits, Take, Restart, reconcileNetworkSubnets, reconcileCloudUsableNetwork,
         AddUsableNetwork, reconcileAviInfraSetting, reconcileControllerVersion,
         reconcileAviUserNormal, ReconcileAddonSecret, patchAkoPackageRefToClusterBootstrap, PatchADC,
         SyncADC, Resync, EditADC, EditAuthority, EditAdmin, DeleteSecret, EditAvi,
         RestoreAuthority, ServiceCreated, ResolveRelease, vars
<1>2. AccountOK /\ passwords \in Nat
  BY DEF PasswordsOK, AccountOK
<1>3. CASE avi'.user = avi.user /\ avi'.role = avi.role
  BY <1>2, <1>3 DEF AccountOK
<1>4. ASSUME NEW r, r # Nil, avi' = [avi EXCEPT !.role = r] PROVE AccountOK'
  <2>1. avi'.user = avi.user /\ avi'.role = r
    BY <1>4 DEF Shape
  <2> QED
    BY <1>2, <1>4, <2>1 DEF AccountOK
<1>5. CASE EnsureRole
  BY <1>3, <1>4, <1>5, RolesApart DEF EnsureRole
<1>6. CASE EnsureAccount
  <2>1. CASE avi.role # Nil /\ avi' = [avi EXCEPT !.user = createOrUpdateAviUser(avi.user)]
    <3> DEFINE user == createOrUpdateAviUser(avi.user)
    <3>1. user # Nil /\ user.pw = run.pw
      BY AccountShape DEF Shape
    <3>2. avi'.user = user /\ avi'.role = avi.role
      BY <2>1 DEF Shape
    <3>3. run.pw \in 1..passwords
      BY <1>6 DEF EnsureAccount, PasswordsOK
    <3> HIDE DEF user
    <3> QED
      BY <1>2, <2>1, <3>1, <3>2, <3>3 DEF AccountOK
  <2> QED
    BY <1>3, <1>6, <2>1 DEF EnsureAccount
<1>7. CASE avi' = [avi EXCEPT !.user = Nil]
  BY <1>7 DEF Shape, AccountOK
<1>8. CASE avi.user # Nil /\ avi' = [avi EXCEPT !.user.pw = 0]
  <2>1. avi'.role = avi.role /\ avi'.user = [avi.user EXCEPT !.pw = 0]
    BY <1>8 DEF Shape
  <2>2. avi'.user = [pw |-> 0, tenant |-> avi.user.tenant]
    BY <1>8, <2>1 DEF Shape
  <2> QED
    BY <1>2, <1>8, <2>1, <2>2 DEF AccountOK
<1>9. CASE avi.user = Nil /\ avi' = [avi EXCEPT !.role = Nil]
  BY <1>9 DEF Shape, AccountOK
<1>10. ASSUME \/ UNCHANGED avi
              \/ \E v : avi' = [avi EXCEPT !.subnets = v]
              \/ \E v : avi' = [avi EXCEPT !.usable = v]
              \/ \E v : avi' = [avi EXCEPT !.ipam = v]
              \/ \E v : avi' = [avi EXCEPT !.version = v]
              \/ \E i : avi' = [avi EXCEPT !.subnets[i].ranges = Tail(@)]
       PROVE  avi'.user = avi.user /\ avi'.role = avi.role
  BY <1>10 DEF Shape
<1> QED
  BY Zenon, <1>1, <1>3, <1>4, <1>5, <1>6, <1>7, <1>8, <1>9, <1>10, RolesApart

LEMMA PasswordsStep ==
  ASSUME NilApart, Shape, CopiesOK, CountsOK, PasswordsOK, [Next]_vars
  PROVE  PasswordsOK'
<1>1. CASE reconcileAviUserNormal
  BY <1>1, SecretPasswords
<1>2. CASE ~reconcileAviUserNormal
  <2>1. UNCHANGED passwords
    BY Zenon, <1>2 DEF Next, Pass, Edits, Take, Restart, reconcileNetworkSubnets,
         reconcileCloudUsableNetwork, reconcileAviInfraSetting, reconcileControllerVersion, EnsureRole,
         EnsureAccount, ReconcileAddonSecret, patchAkoPackageRefToClusterBootstrap, PatchADC,
         SyncADC, Resync, EditADC, EditAuthority, EditAdmin, DeleteSecret, EditAvi,
         RestoreAuthority, ServiceCreated, ResolveRelease, vars, objects
  <2>2. UNCHANGED secret \/ (Upset /\ secret' = Nil)
    BY Zenon, <1>2 DEF Next, Pass, Edits, Take, Restart, reconcileNetworkSubnets,
         reconcileCloudUsableNetwork, reconcileAviInfraSetting, reconcileControllerVersion, EnsureRole,
         EnsureAccount, ReconcileAddonSecret, patchAkoPackageRefToClusterBootstrap, PatchADC,
         SyncADC, Resync, EditADC, EditAuthority, EditAdmin, DeleteSecret, EditAvi,
         RestoreAuthority, ServiceCreated, ResolveRelease, vars, objects
  <2>3. AccountOK'
    BY <2>1, AccountOKStep
  <2>4. passwords \in Nat /\ upsets \in Nat /\ (upsets' = upsets \/ upsets' = upsets + 1)
    BY UpsetStep DEF Upset, PasswordsOK, CountsOK
  <2>5. passwords' \in Nat /\ passwords' + (IF secret' = Nil THEN 1 ELSE 0) <= upsets' + 1
    <3>1. CASE UNCHANGED secret
      BY <2>1, <2>4, <3>1 DEF PasswordsOK
    <3>2. CASE Upset /\ secret' = Nil
      BY <2>1, <2>4, <3>2 DEF PasswordsOK, Upset
    <3> QED
      BY <2>2, <3>1, <3>2
  <2>6. Workload' /\ secret' # Nil => secret'.pw \in 1..passwords'
    BY <2>1, <2>2, KindStep DEF PasswordsOK, Workload
  <2>7. pc' \in {"role", "account"} => run'.pw \in 1..passwords'
    <3>1. \/ pc' \notin {"role", "account"}
          \/ EnsureRole
          \/ UNCHANGED <<pc, run>>
      BY Zenon, <1>2 DEF Next, Pass, Edits, Take, Restart, reconcileNetworkSubnets,
         reconcileCloudUsableNetwork, reconcileAviInfraSetting, reconcileControllerVersion,
         EnsureAccount, ReconcileAddonSecret, patchAkoPackageRefToClusterBootstrap, PatchADC,
         SyncADC, Resync, EditADC, EditAuthority, EditAdmin, DeleteSecret, EditAvi,
         RestoreAuthority, ServiceCreated, ResolveRelease, vars, Goto, Failing, UserFails, AddonFails
    <3>2. CASE EnsureRole
      <4>1. pc = "role" /\ (run' = [run EXCEPT !.found = avi.user # Nil] \/ pc' = "addon")
        BY Zenon, <3>2, FailShape DEF EnsureRole, UserFails
      <4> QED
        BY <2>1, <4>1 DEF PasswordsOK, Shape
    <3> QED
      BY Zenon, <2>1, <3>1, <3>2 DEF PasswordsOK
  <2> QED
    BY Zenon, <2>3, <2>5, <2>6, <2>7 DEF PasswordsOK, AccountOK
<1> QED
  BY <1>1, <1>2

\* Versions are numbers, so AVI starts with the smallest.
LEMMA InitType == Init => TypeOK /\ Distinct
<1> SUFFICES ASSUME Init PROVE TypeOK /\ Distinct
  OBVIOUS
<1>1. adc \in ADCs /\ adcCache \in ADCs
  BY DEF Init, ADCs
<1>2. avi.version \in Versions
  <2>1. \E v \in Versions : \A w \in Versions : v <= w
    BY Zenon, PhasesAssumption, LeastExists
  <2> QED
    BY <2>1 DEF Init
<1>3. avi.subnets = <<>> /\ avi.usable = {} /\ avi.user = Nil
  BY DEF Init
<1>4. CopiesOK
  BY <1>1 DEF Init, CopiesOK
<1>5. SubnetsOK /\ Distinct
  <2>1. avi.subnets \in Seq(Subnets) /\ DOMAIN avi.subnets = {}
    BY <1>3
  <2> QED
    BY Zenon, <2>1 DEF SubnetsOK, Distinct
<1>6. CountsOK
  <2>1. /\ bootstrap = [release |-> 0, package |-> Nil] /\ upsets = 0
        /\ \E k \in ClusterKinds : cl = [kind |-> k, service |-> FALSE, labelled |-> FALSE, refused |-> FALSE]
    BY DEF Init
  <2>2. cl.kind \in ClusterKinds
    BY <2>1
  <2>3. bootstrap \in [release : 0..2, package : {Nil} \cup 1..2] /\ upsets \in 0..MaxUpsets
    BY <2>1, PhasesAssumption
  <2> QED
    BY Zenon, <1>2, <1>3, <2>2, <2>3 DEF CountsOK
<1>7. PasswordsOK
  <2>1. /\ passwords = 0 /\ upsets = 0 /\ pc = "idle"
        /\ secret \in {Nil} \cup IF cl.kind.customer THEN {[pw |-> "customer", ca |-> ca]} ELSE {}
    BY DEF Init
  <2>2. Workload => secret = Nil
    BY <2>1 DEF Workload
  <2>3. passwords \in Nat /\ passwords + (IF secret = Nil THEN 1 ELSE 0) <= upsets + 1
    BY <2>1
  <2>4. pc \notin {"role", "account"}
    BY <2>1
  <2> QED
    BY Zenon, <1>3, <2>2, <2>3, <2>4 DEF PasswordsOK
<1> QED
  BY <1>4, <1>5, <1>6, <1>7, TypeParts

-----------------------------------------------------------------------------
(***************************************************************************)
(* What a pass has done for the networks, the version and AKO.             *)
(***************************************************************************)

\* What leaves the networks and the version of AVI alone.
SameNetwork ==
  /\ avi'.subnets = avi.subnets /\ avi'.usable = avi.usable
  /\ avi'.ipam = avi.ipam /\ avi'.version = avi.version

LEMMA SameNetworkDone ==
  ASSUME SameNetwork, UNCHANGED adcCache
  PROVE  /\ SubnetDone(adcCache.spec) => SubnetDone(adcCache.spec)'
         /\ UsableDone(adcCache.spec) => UsableDone(adcCache.spec)'
  BY DEF SameNetwork, SubnetDone, UsableDone

\* The calls after the two for the networks.
LaterCalls ==
  \/ reconcileAviInfraSetting \/ reconcileControllerVersion \/ reconcileAviUserNormal
  \/ EnsureRole \/ EnsureAccount \/ AddonPhases

LEMMA LaterFrame ==
  ASSUME Shape, CopiesOK, LaterCalls
  PROVE  /\ SameNetwork /\ pc \notin {"idle", "subnets", "usable"}
         /\ pc' \notin {"infra", "version"} => run'.failed = TRUE \/ run'.obj.version = avi.version
                                               \/ (pc # "version" /\ pc # "infra" /\ run'.obj = run.obj)
<1>1. \/ UNCHANGED avi
      \/ \E v : avi' = [avi EXCEPT !.role = v]
      \/ \E v : avi' = [avi EXCEPT !.user = v]
  BY Zenon DEF LaterCalls, AddonPhases, reconcileAviInfraSetting, reconcileControllerVersion,
         reconcileAviUserNormal, EnsureRole, EnsureAccount, ReconcileAddonSecret,
         patchAkoPackageRefToClusterBootstrap
<1>2. SameNetwork
  BY <1>1 DEF SameNetwork, Shape
<1>3. pc \in {"infra", "version", "secret", "role", "account", "addon", "package"}
  BY Zenon DEF LaterCalls, AddonPhases, reconcileAviInfraSetting, reconcileControllerVersion,
         reconcileAviUserNormal, EnsureRole, EnsureAccount, ReconcileAddonSecret,
         patchAkoPackageRefToClusterBootstrap
<1>4. CASE reconcileAviInfraSetting
  <2>1. pc' = "version"
    BY <1>4 DEF reconcileAviInfraSetting, Goto, Failing
  <2> QED
    BY <1>2, <1>3, <2>1
<1>5. CASE reconcileControllerVersion
  <2>1. run' = [run EXCEPT !.obj.version = avi.version] \/ run' = [run EXCEPT !.failed = TRUE]
    BY <1>5 DEF reconcileControllerVersion, Failing
  <2>2. run.obj \in ADCs
    BY <1>3 DEF CopiesOK
  <2>3. run'.failed = TRUE \/ run'.obj.version = avi.version
    BY <2>1, <2>2 DEF Shape, ADCs
  <2> QED
    BY <1>2, <1>3, <2>3
<1>6. CASE ~reconcileAviInfraSetting /\ ~reconcileControllerVersion
  <2>1. \/ run' = run
        \/ run' = [run EXCEPT !.failed = TRUE]
        \/ \E v : run' = [run EXCEPT !.pw = v]
        \/ \E v : run' = [run EXCEPT !.found = v]
    BY Zenon, <1>6 DEF LaterCalls, AddonPhases, reconcileAviUserNormal, EnsureRole, EnsureAccount,
         ReconcileAddonSecret, patchAkoPackageRefToClusterBootstrap, Failing, UserFails, AddonFails
  <2>2. run'.obj = run.obj
    BY <2>1 DEF Shape
  <2>3. pc \in {"secret", "role", "account", "addon", "package"}
    BY Zenon, <1>6 DEF LaterCalls, AddonPhases, reconcileAviUserNormal, EnsureRole, EnsureAccount,
         ReconcileAddonSecret, patchAkoPackageRefToClusterBootstrap
  <2> QED
    BY <1>2, <2>2, <2>3
<1> QED
  BY Zenon, <1>4, <1>5, <1>6

\* The call for the usable networks.
LEMMA UsableCall ==
  ASSUME Shape, CountsOK, reconcileCloudUsableNetwork
  PROVE  /\ avi'.subnets = avi.subnets /\ avi'.ipam = avi.ipam /\ avi.usable \subseteq avi'.usable
         /\ run'.failed = TRUE \/ (avi.ipam => Range(UsableNetworks(run.obj.spec)) \subseteq avi'.usable)
<1> DEFINE networks == UsableNetworks(run.obj.spec)
<1>1. PICK k \in 0..Len(networks) :
        /\ avi' = AddUsableNetwork(networks, k)
        /\ k # Len(networks) => Failing("infra")
  BY DEF reconcileCloudUsableNetwork
<1>2. Range(networks) = {networks[i] : i \in 1..Len(networks)}
  BY UsableNames
<1> HIDE DEF networks
<1>3. /\ avi'.subnets = avi.subnets /\ avi'.ipam = avi.ipam
      /\ avi'.usable = avi.usable \cup IF avi.ipam THEN {networks[i] : i \in 1..k} ELSE {}
  BY <1>1 DEF AddUsableNetwork, Shape
<1>4. CASE k = Len(networks)
  BY <1>2, <1>3, <1>4 DEF networks
<1>5. CASE k # Len(networks)
  <2>1. run'.failed = TRUE
    BY Zenon, <1>1, <1>5, FailShape
  <2> QED
    BY <1>3, <2>1
<1> QED
  BY Zenon, <1>4, <1>5

LEMMA NetworkCalls ==
  ASSUME Shape, CopiesOK, SubnetsOK, CountsOK, NetworkInv, Calls, Distinct'
  PROVE  NetworkInv'
<1>1. /\ UNCHANGED <<adc, adcCache>> /\ pc # "idle" /\ pc' \notin {"idle", "subnets"}
      /\ run'.read = run.read /\ run'.obj.spec = run.obj.spec
      /\ (Clear' => Clear) /\ (~queue' => ~queue)
  BY CallFrame
<1>2. run.obj.spec = run.read.spec /\ (~queue => run.read = adcCache)
  BY <1>1 DEF NetworkInv
<1>3. Clear' => Clear /\ run.obj.spec = adcCache.spec /\ ~(run'.failed = TRUE)
  BY <1>1, <1>2 DEF Clear
<1>4. run'.obj.spec = run'.read.spec /\ (~queue' => run'.read = adcCache')
  BY <1>1, <1>2
<1>5. CASE reconcileNetworkSubnets
  <2>1. pc' = "usable"
    BY Zenon, <1>5 DEF reconcileNetworkSubnets, Goto, Failing
  <2>2. Clear' => SubnetDone(run.obj.spec)'
    BY <1>5, SubnetsCall DEF NetworkInv, Distinct
  <2>3. Clear' => run'.obj.spec = adcCache'.spec
    BY <1>1, <1>3
  <2>4. Clear' => SubnetDone(adcCache.spec)'
    BY Zenon, <2>2, <2>3
  <2> QED
    BY <1>1, <1>4, <2>1, <2>4 DEF NetworkInv, Distinct
<1>6. CASE reconcileCloudUsableNetwork
  <2>1. pc = "usable" /\ pc' = "infra"
    BY <1>6 DEF reconcileCloudUsableNetwork, Goto, Failing
  <2>2. /\ avi'.subnets = avi.subnets /\ avi'.ipam = avi.ipam
        /\ run'.failed = TRUE \/ (avi.ipam => Range(UsableNetworks(run.obj.spec)) \subseteq avi'.usable)
    BY Zenon, <1>6, UsableCall
  <2>3. Clear' => SubnetDone(adcCache.spec)
    BY <1>3, <2>1 DEF NetworkInv
  <2>4. Clear' => SubnetDone(adcCache.spec)'
    BY <1>1, <2>2, <2>3 DEF SubnetDone
  <2>5. Clear' => UsableDone(adcCache.spec)'
    BY Zenon, <1>1, <1>3, <2>2 DEF UsableDone
  <2> QED
    BY <1>1, <1>4, <2>1, <2>4, <2>5 DEF NetworkInv, Distinct
<1>7. CASE LaterCalls
  <2>1. /\ SameNetwork /\ pc \notin {"idle", "subnets", "usable"}
        /\ pc' \notin {"infra", "version"} => run'.failed = TRUE \/ run'.obj.version = avi.version
                                              \/ (pc # "version" /\ pc # "infra" /\ run'.obj = run.obj)
    BY Zenon, <1>7, LaterFrame
  <2>2. Clear' => SubnetDone(adcCache.spec) /\ UsableDone(adcCache.spec)
    BY <1>3, <2>1 DEF NetworkInv
  <2>3. Clear' => SubnetDone(adcCache.spec)' /\ UsableDone(adcCache.spec)'
    BY Zenon, <1>1, <2>1, <2>2, SameNetworkDone
  <2>4. ASSUME Clear', pc' \notin {"infra", "version"} PROVE run'.obj.version = avi'.version
    <3>1. ~(run'.failed = TRUE) /\ Clear
      BY <1>3, <2>4
    <3>2. run'.obj.version = avi.version
      BY <2>1, <2>4, <3>1 DEF NetworkInv
    <3> QED
      BY <2>1, <3>2 DEF SameNetwork
  <2> QED
    BY Zenon, <1>1, <1>4, <2>3, <2>4 DEF NetworkInv, Distinct
<1> QED
  BY <1>5, <1>6, <1>7 DEF Calls, NetworkPhases, LaterCalls

LEMMA NetworkStepInv ==
  ASSUME NilApart, Shape, CopiesOK, SubnetsOK, CountsOK, NetworkInv, [Next]_vars
  PROVE  NetworkInv'
<1>1. Distinct'
  BY SubnetsStep DEF NetworkInv, Distinct
<1>2. CASE Calls
  BY <1>1, <1>2, NetworkCalls
<1>3. CASE PatchADC
  <2>1. /\ UNCHANGED <<adcCache, avi, unseen>> /\ pc = "patch" /\ pc' = "idle" /\ run' = Idle
        /\ \/ queue' = (queue \/ run.failed)
              /\ adc' = IF run.obj.version # run.read.version
                        THEN [adc EXCEPT !.version = run.obj.version] ELSE adc
           \/ queue' = TRUE
    BY <1>3 DEF PatchADC, Goto
  <2>2. SameNetwork
    BY <2>1 DEF SameNetwork
  <2>3. Clear' => Clear /\ run.read = adcCache /\ avi.version = run.obj.version
    <3>1. Clear' => Clear
      BY <2>1 DEF Clear, Shape
    <3> QED
      BY <2>1, <3>1 DEF NetworkInv, Clear
  <2>4. Clear' => SubnetDone(adcCache.spec)' /\ UsableDone(adcCache.spec)'
    BY <2>1, <2>2, <2>3, SameNetworkDone DEF NetworkInv
  <2>5. ASSUME Clear' PROVE avi'.version \in {adc'.version, adcCache'.version}
    <3>1. avi.version = run.obj.version /\ run.read = adcCache
      BY <2>3, <2>5
    <3>2. adc' = IF run.obj.version # run.read.version
                 THEN [adc EXCEPT !.version = run.obj.version] ELSE adc
      BY <2>1, <2>5 DEF Clear
    <3>3. adc \in ADCs
      BY DEF CopiesOK
    <3> QED
      BY <2>1, <3>1, <3>2, <3>3 DEF ADCs
  <2> QED
    BY <1>1, <2>1, <2>4, <2>5 DEF NetworkInv, Distinct
<1>4. CASE Take
  <2>1. /\ run' = [Idle EXCEPT !.obj = adcCache, !.read = adcCache, !.failed = ca = Nil]
        /\ pc' = (IF ca = Nil THEN "addon" ELSE "subnets") /\ UNCHANGED adcCache
    BY <1>4 DEF Take, Goto, objects
  <2>2. run'.obj = adcCache /\ run'.read = adcCache /\ run'.failed = (ca = Nil)
    BY <2>1 DEF Idle
  <2>3. pc' = "subnets" \/ (pc' = "addon" /\ ~Clear')
    BY Zenon, <2>1, <2>2 DEF Clear
  <2> QED
    BY <1>1, <2>1, <2>2, <2>3 DEF NetworkInv, Distinct
<1>5. CASE Restart
  <2>1. pc' = "idle" /\ ~Clear'
    BY Zenon, <1>5 DEF Restart, Goto, Clear
  <2> QED
    BY <1>1, <2>1 DEF NetworkInv, Distinct
<1>6. CASE (Around \/ UNCHANGED vars) /\ (queue' = TRUE \/ unseen' = TRUE)
  <2>1. UNCHANGED <<pc, run>> /\ ~Clear'
    BY Zenon, <1>6 DEF Around, SyncADC, Resync, Edits, EditADC, EditAuthority, EditAdmin, DeleteSecret,
         EditAvi, RestoreAuthority, ServiceCreated, ResolveRelease, vars, Clear
  <2>2. queue' = TRUE \/ UNCHANGED <<queue, adcCache>>
    BY Zenon, <1>6 DEF Around, SyncADC, Resync, Edits, EditADC, EditAuthority, EditAdmin, DeleteSecret,
         EditAvi, RestoreAuthority, ServiceCreated, ResolveRelease, vars, objects
  <2> QED
    BY Zenon, <1>1, <2>1, <2>2 DEF NetworkInv, Distinct
<1>7. CASE (EditADC \/ ServiceCreated \/ UNCHANGED vars)
  <2>1. UNCHANGED <<pc, run, queue, unseen, adcCache, avi>>
    BY <1>7 DEF EditADC, ServiceCreated, vars
  <2>2. SameNetwork /\ Clear' = Clear
    BY <2>1 DEF SameNetwork, Clear
  <2>3. adc'.version = adc.version
    BY <1>7 DEF EditADC, ServiceCreated, vars, CopiesOK, ADCs
  <2>4. /\ SubnetDone(adcCache.spec) => SubnetDone(adcCache.spec)'
        /\ UsableDone(adcCache.spec) => UsableDone(adcCache.spec)'
    BY <2>1, <2>2, SameNetworkDone
  <2> QED
    BY Zenon, <1>1, <2>1, <2>2, <2>3, <2>4 DEF NetworkInv, Distinct
<1>8. ASSUME SyncADC \/ Resync \/ EditAuthority \/ EditAdmin \/ DeleteSecret \/ EditAvi
              \/ RestoreAuthority \/ ResolveRelease
      PROVE  queue' = TRUE \/ unseen' = TRUE
  BY Zenon, <1>8 DEF SyncADC, Resync, EditAuthority, EditAdmin, DeleteSecret, EditAvi,
         RestoreAuthority, ResolveRelease
<1> QED
  BY Zenon, <1>2, <1>3, <1>4, <1>5, <1>6, <1>7, <1>8
     DEF Next, Pass, Calls, NetworkPhases, AddonPhases, Around, Edits

LEMMA AddonSame ==
  ASSUME AddonInv, cl'.kind = cl.kind, avi'.version = avi.version, Clear' => Clear,
         UNCHANGED <<adcCache, addon, secret, bootstrap, skipped>>,
         pc' = pc \/ (pc = "patch" /\ pc' = "idle")
  PROVE  AddonInv'
<1>1. IpFamilyAllowed(adcCache.spec)' = IpFamilyAllowed(adcCache.spec)
  BY DEF IpFamilyAllowed
<1>2. NewValues(adcCache.spec, avi.version, secret)' = NewValues(adcCache.spec, avi.version, secret)
  OBVIOUS
<1> QED
  BY Zenon, <1>1, <1>2 DEF AddonInv

LEMMA AddonWritten ==
  ASSUME Shape, CopiesOK, CountsOK, NetworkInv, ReconcileAddonSecret
  PROVE  AddonInv'
<1>1. /\ UNCHANGED <<adcCache, avi, secret>> /\ cl'.kind = cl.kind /\ pc = "addon"
      /\ pc' \in {"package", "patch"}
  <2>1. UNCHANGED <<adcCache, avi, secret>> /\ pc = "addon" /\ pc' \in {"package", "patch"}
    BY Zenon DEF ReconcileAddonSecret, Goto, Failing, AddonFails
  <2> QED
    BY <2>1, CallFrame DEF Calls, AddonPhases
<1>2. Clear' => /\ Clear /\ run.obj.spec = adcCache.spec /\ run.obj.version = avi.version
                /\ ~(run'.failed = TRUE)
  <2>1. Clear' => Clear /\ ~(run'.failed = TRUE)
    BY Zenon, CallFrame DEF Calls, AddonPhases, Clear
  <2> QED
    BY <1>1, <2>1 DEF NetworkInv, Clear
<1>3. IpFamilyAllowed(adcCache.spec)' = IpFamilyAllowed(adcCache.spec)
  BY Zenon, <1>1 DEF IpFamilyAllowed
<1>4. CASE AddonFails
  <2>1. ~Clear'
    BY Zenon, <1>2, <1>4, FailShape DEF AddonFails
  <2> QED
    BY <2>1 DEF AddonInv
<1>5. CASE ~IpFamilyAllowed(run.obj.spec)
  BY Zenon, <1>2, <1>3, <1>5 DEF AddonInv
<1>6. CASE /\ addon' = NewValues(run.obj.spec, run.obj.version, secret)
           /\ skipped' = (addon = Nil)
           /\ pc' = "package" \/ addon = Nil \/ ~cl.kind.classy
  <2>1. Clear' => addon' = NewValues(adcCache.spec, avi.version, secret)'
    BY <1>1, <1>2, <1>6
  <2>2. pc' = "package" \/ ~cl'.kind.classy \/ skipped'
    BY Zenon, <1>1, <1>6
  <2> QED
    BY <2>1, <2>2 DEF AddonInv
<1> QED
  BY Zenon, <1>4, <1>5, <1>6 DEF ReconcileAddonSecret, Goto

LEMMA PackageWritten ==
  ASSUME Shape, CopiesOK, CountsOK, AddonInv, patchAkoPackageRefToClusterBootstrap
  PROVE  AddonInv'
<1>1. UNCHANGED <<adcCache, avi, secret, addon, skipped>> /\ pc = "package"
  BY DEF patchAkoPackageRefToClusterBootstrap
<1>2. cl'.kind = cl.kind /\ (Clear' => Clear)
  BY CallFrame DEF Calls, AddonPhases
<1>3. CASE AddonFails
  <2>1. ~Clear'
    BY Zenon, <1>3, FailShape DEF AddonFails, Clear
  <2> QED
    BY <2>1 DEF AddonInv
<1>4. CASE bootstrap' = WithAkoPackage(bootstrap) /\ pc' = "patch"
  <2>1. bootstrap'.package = bootstrap'.release
    BY <1>4 DEF WithAkoPackage, CountsOK
  <2>2. IpFamilyAllowed(adcCache.spec)' = IpFamilyAllowed(adcCache.spec)
    BY <1>1, <1>2 DEF IpFamilyAllowed
  <2>3. NewValues(adcCache.spec, avi.version, secret)' = NewValues(adcCache.spec, avi.version, secret)
    BY <1>1
  <2> QED
    BY <1>1, <1>2, <2>1, <2>2, <2>3 DEF AddonInv
<1> QED
  BY <1>3, <1>4 DEF patchAkoPackageRefToClusterBootstrap, Goto

LEMMA AddonStepInv ==
  ASSUME NilApart, Shape, CopiesOK, CountsOK, NetworkInv, AddonInv, [Next]_vars
  PROVE  AddonInv'
<1>1. CASE NetworkPhases \/ reconcileAviUserNormal \/ EnsureRole \/ EnsureAccount
  <2>1. pc' \in {"usable", "infra", "version", "secret", "role", "account", "addon"}
    BY Zenon, <1>1 DEF NetworkPhases, reconcileNetworkSubnets, reconcileCloudUsableNetwork,
         reconcileAviInfraSetting, reconcileControllerVersion, reconcileAviUserNormal, EnsureRole,
         EnsureAccount, Failing, Goto, UserFails
  <2> QED
    BY <2>1 DEF AddonInv
<1>2. CASE ReconcileAddonSecret
  BY <1>2, AddonWritten
<1>3. CASE patchAkoPackageRefToClusterBootstrap
  BY <1>3, PackageWritten
<1>4. CASE PatchADC
  <2>1. /\ UNCHANGED <<adcCache, cl, avi, secret, addon, bootstrap, unseen, skipped>>
        /\ pc = "patch" /\ pc' = "idle"
        /\ queue' = (queue \/ run.failed) \/ queue' = TRUE
    BY <1>4 DEF PatchADC, Goto
  <2>2. Clear' => Clear
    BY Zenon, <2>1 DEF Clear, Shape
  <2> QED
    BY <2>1, <2>2, AddonSame
<1>5. CASE Take
  <2>1. pc' \in {"addon", "subnets"}
    BY Zenon, <1>5 DEF Take, Goto
  <2> QED
    BY <2>1 DEF AddonInv
<1>6. CASE queue' = TRUE \/ unseen' = TRUE
  BY <1>6 DEF AddonInv, Clear
<1>7. CASE (EditADC \/ ServiceCreated \/ UNCHANGED vars)
  <2>1. UNCHANGED <<pc, run, queue, unseen, adcCache, avi, addon, secret, bootstrap, skipped>>
    BY <1>7 DEF EditADC, ServiceCreated, vars
  <2>2. (Clear' => Clear) /\ avi'.version = avi.version
    BY <2>1 DEF Clear
  <2>3. cl'.kind = cl.kind
    BY KindStep
  <2> QED
    BY <2>1, <2>2, <2>3, AddonSame
<1>8. ASSUME Restart \/ SyncADC \/ Resync \/ EditAuthority \/ EditAdmin \/ DeleteSecret \/ EditAvi
              \/ RestoreAuthority \/ ResolveRelease
      PROVE  queue' = TRUE \/ unseen' = TRUE
  BY Zenon, <1>8 DEF Restart, SyncADC, Resync, EditAuthority, EditAdmin, DeleteSecret, EditAvi,
         RestoreAuthority, ResolveRelease
<1> QED
  BY Zenon, <1>1, <1>2, <1>3, <1>4, <1>5, <1>6, <1>7, <1>8
     DEF Next, Pass, NetworkPhases, Edits

LEMMA FamilyOption ==
  ASSUME NEW x
  PROVE  NewAKOSettings(x).ip_family = x.ipFamily
  BY SMTT(20) DEF NewAKOSettings

\* Only ReconcileAddonSecret writes the values, for a Cluster whose IP family it allows.
LEMMA DeployedStep ==
  ASSUME NilApart, Shape, CopiesOK, CountsOK, DeployedWhereItWorks, [Next]_vars
  PROVE  DeployedWhereItWorks'
<1>1. cl'.kind = cl.kind
  BY Zenon, KindStep
<1>2. \/ UNCHANGED addon
      \/ /\ IpFamilyAllowed(run.obj.spec)
         /\ addon' = NewValues(run.obj.spec, run.obj.version, secret)
  BY Zenon DEF Next, Pass, Edits, Take, Restart, reconcileNetworkSubnets, reconcileCloudUsableNetwork,
         reconcileAviInfraSetting, reconcileControllerVersion, reconcileAviUserNormal, EnsureRole,
         EnsureAccount, ReconcileAddonSecret, patchAkoPackageRefToClusterBootstrap, PatchADC,
         SyncADC, Resync, EditADC, EditAuthority, EditAdmin, DeleteSecret, EditAvi,
         RestoreAuthority, ServiceCreated, ResolveRelease, vars, objects
<1>3. CASE UNCHANGED addon
  BY Zenon, <1>1, <1>3 DEF DeployedWhereItWorks
<1>4. CASE /\ IpFamilyAllowed(run.obj.spec)
           /\ addon' = NewValues(run.obj.spec, run.obj.version, secret)
  <2> DEFINE net == cl.kind.net
             family == Set(run.obj.spec.extra.ipFamily, "V4")
  <2>1. addon'.ako_settings.ip_family = run.obj.spec.extra.ipFamily
    <3>1. addon'.ako_settings = NewAKOSettings(run.obj.spec.extra)
      BY <1>4 DEF NewValues
    <3> QED
      BY <3>1, FamilyOption
  <2>2. addon'.ako_settings.ip_family = "V6" => family = "V6"
    <3>1. Nil # "V6"
      BY Zenon DEF NilApart
    <3> QED
      BY <2>1, <3>1 DEF Set
  <2>3. /\ net.pods \in Seq({"V4", "V6", "INVALID"}) /\ net.services \in Seq({"V4", "V6", "INVALID"})
        /\ ValidateClusterIpFamily(net, cl.kind.vip, family)
    BY Zenon, <1>4, PhasesAssumption DEF CountsOK, IpFamilyAllowed
  <2> HIDE DEF net, family
  <2>4. /\ net.pods # <<>> => Head(net.pods) # "V6"
        /\ family = "V6" =>
             ~cl.kind.vip /\ \E cidrs \in {net.pods, net.services} : Range(cidrs) = {"V4", "V6"}
    BY Zenon, <2>3, FamilyWorks
  <2>5. cl'.kind.net = net /\ cl'.kind.vip = cl.kind.vip
    BY <1>1 DEF net
  <2> QED
    BY Zenon, <2>2, <2>4, <2>5 DEF DeployedWhereItWorks
<1> QED
  BY <1>2, <1>3, <1>4

\* What a pass leaves alone in AVI.
KeepsOthers ==
  pc # "idle" /\ pc' # pc =>
    /\ \A i \in DOMAIN avi.subnets : avi.subnets[i].prefix # run.obj.spec.cidr =>
         i \in DOMAIN avi'.subnets /\ avi'.subnets[i] = avi.subnets[i]
    /\ avi.usable \subseteq avi'.usable
    /\ avi.role # Nil =>
         \A r \in DOMAIN avi.role \ Essential :
           r \in DOMAIN avi'.role /\ avi'.role[r] = avi.role[r]

LEMMA OthersStep ==
  ASSUME NilApart, Shape, CopiesOK, SubnetsOK, CountsOK, Distinct, [Next]_vars
  PROVE  KeepsOthers
<1>1. CASE reconcileNetworkSubnets
  <2>1. \A i \in DOMAIN avi.subnets : avi.subnets[i].prefix # run.obj.spec.cidr =>
          i \in DOMAIN avi'.subnets /\ avi'.subnets[i] = avi.subnets[i]
    BY <1>1, SubnetsCall
  <2>2. avi'.usable = avi.usable /\ avi'.role = avi.role
    BY <1>1 DEF reconcileNetworkSubnets, Shape
  <2> QED
    BY Zenon, <2>1, <2>2 DEF KeepsOthers
<1>2. CASE reconcileCloudUsableNetwork
  <2>1. avi'.subnets = avi.subnets /\ avi.usable \subseteq avi'.usable
    BY <1>2, UsableCall
  <2>2. avi'.role = avi.role
    BY Zenon, <1>2 DEF reconcileCloudUsableNetwork, AddUsableNetwork, Shape
  <2> QED
    BY Zenon, <2>1, <2>2 DEF KeepsOthers
<1>3. CASE LaterCalls
  <2>1. SameNetwork
    BY <1>3, LaterFrame
  <2>2. \/ avi' = [avi EXCEPT !.role = IF avi.role = Nil THEN filterAkoRolePermissionByVersion(avi.version)
                                       ELSE syncAkoUserRole(avi.role, avi.version)]
        \/ \E v : avi' = [avi EXCEPT !.user = v]
        \/ UNCHANGED avi
    BY Zenon, <1>3 DEF LaterCalls, AddonPhases, reconcileAviInfraSetting, reconcileControllerVersion,
         reconcileAviUserNormal, EnsureRole, EnsureAccount, ReconcileAddonSecret,
         patchAkoPackageRefToClusterBootstrap
  <2>3. avi'.role = avi.role \/ (avi.role # Nil => avi'.role = syncAkoUserRole(avi.role, avi.version))
    BY <2>2 DEF Shape
  <2>4. avi.version \in Nat
    BY Zenon, PhasesAssumption DEF CountsOK
  <2>5. avi.role # Nil =>
          \A r \in DOMAIN avi.role \ Essential : r \in DOMAIN avi'.role /\ avi'.role[r] = avi.role[r]
    BY <2>3, <2>4, SyncCompletes
  <2> QED
    BY <2>1, <2>5 DEF KeepsOthers, SameNetwork
<1>4. CASE pc = "idle" \/ pc' = pc \/ UNCHANGED avi
  BY <1>4 DEF KeepsOthers
<1> QED
  BY Zenon, <1>1, <1>2, <1>3, <1>4
     DEF Next, Pass, LaterCalls, AddonPhases, Take, PatchADC, SyncADC, Resync, Restart, Edits, EditADC,
         EditAuthority, EditAdmin, DeleteSecret, EditAvi, RestoreAuthority, ServiceCreated,
         ResolveRelease, vars

\* The inductive invariant: a pass so far, with the types it rests on.
Inductive == Shape /\ TypeOK /\ PassInv

LEMMA InitInductive ==
  ASSUME NilApart
  PROVE  Init => Inductive /\ DeployedWhereItWorks
<1> SUFFICES ASSUME Init
             PROVE  Inductive /\ DeployedWhereItWorks
  OBVIOUS
<1>1. Shape /\ CredentialsInv
  BY InitShape, InitCredentials
<1>2. TypeOK /\ Distinct
  BY Zenon, InitType
<1>3. pc = "idle" /\ ~Clear /\ addon = Nil
  BY Zenon DEF Init, Clear
<1>4. NetworkInv /\ AddonInv
  BY Zenon, <1>2, <1>3 DEF NetworkInv, AddonInv, Distinct
<1> QED
  BY <1>1, <1>2, <1>3, <1>4 DEF Inductive, PassInv, DeployedWhereItWorks

LEMMA StepInductive ==
  ASSUME NilApart, Inductive, [Next]_vars
  PROVE  /\ Inductive' /\ KeepsPassword /\ KeepsOthers
         /\ DeployedWhereItWorks => DeployedWhereItWorks'
<1>1. /\ Shape /\ CredentialsInv /\ NetworkInv /\ AddonInv
      /\ CopiesOK /\ SubnetsOK /\ CountsOK /\ PasswordsOK
  BY Zenon, TypeParts DEF Inductive, PassInv
<1>2. Distinct
  BY Zenon, <1>1 DEF NetworkInv, Distinct
<1>3. Shape' /\ CredentialsInv' /\ KeepsPassword
  BY <1>1, Permissions, StepCredentials
<1>4. CopiesOK'
  BY <1>1, CopiesStep
<1>5. SubnetsOK'
  BY <1>1, <1>2, SubnetsStep
<1>6. CountsOK'
  BY <1>1, CountsStep
<1>7. PasswordsOK'
  BY <1>1, PasswordsStep
<1>8. TypeOK'
  BY <1>4, <1>5, <1>6, <1>7, TypeParts, PTL
<1>9. NetworkInv' /\ AddonInv'
  BY <1>1, NetworkStepInv, AddonStepInv
<1>10. KeepsOthers /\ (DeployedWhereItWorks => DeployedWhereItWorks')
  BY <1>1, <1>2, OthersStep, DeployedStep
<1> QED
  BY <1>3, <1>8, <1>9, <1>10 DEF Inductive, PassInv

LEMMA AlwaysInductive ==
  ASSUME NilApart
  PROVE  Spec => []Inductive
<1>1. Init => Inductive
  BY InitInductive
<1>2. Inductive /\ [Next]_vars => Inductive'
  BY StepInductive
<1> QED
  BY <1>1, <1>2, PTL DEF Spec

\* The state stays well formed, for any specifications, versions, Clusters and number of
\* failures: an account has a role, the ranges AVI has are apart, and a password is
\* generated only for the first Secret and for one that was lost.
THEOREM WellFormed ==
  ASSUME NilApart
  PROVE  Spec => []TypeOK
<1>1. Inductive => TypeOK
  BY DEF Inductive
<1> QED
  BY <1>1, AlwaysInductive, PTL

\* What a pass has done so far holds, for the networks, the version, the credentials and
\* AKO, unless it has failed or another pass or event is due (reconcileAVI,
\* reconcileClusters).
THEOREM PassInvariant ==
  ASSUME NilApart
  PROVE  Spec => []PassInv
<1>1. Inductive => PassInv
  BY DEF Inductive
<1> QED
  BY <1>1, AlwaysInductive, PTL

\* A quiet controller leaves the network with one subnet that has the prefix of the ADC,
\* its ranges equal to the pools, and the networks usable (EnsureAviNetwork,
\* AddUsableNetwork).
THEOREM NetworkInPlace ==
  ASSUME NilApart
  PROVE  Spec => []QuietNetwork
<1>1. PassInv /\ Quiet => Clear
  BY Zenon DEF PassInv, CredentialsInv, Quiet, Clear
<1>2. PassInv => QuietNetwork
  BY Zenon, <1>1 DEF PassInv, NetworkInv, QuietNetwork, Quiet
<1> QED
  BY <1>2, PassInvariant, PTL

\* A quiet controller leaves a workload Cluster with the account, role and Secret AKO
\* needs, and the management Cluster with the administrator's (ReconcileAviUser).
THEOREM AccountInPlace ==
  ASSUME NilApart
  PROVE  Spec => []QuietAccount
<1>1. PassInv => QuietAccount
  BY DEF PassInv, CredentialsInv, QuietAccount, Quiet, Clear
<1> QED
  BY <1>1, PassInvariant, PTL

\* A quiet controller leaves a Cluster whose IP family is allowed with an add-on Secret
\* that has AVI's version, the Cluster's credentials and the options of the ADC
\* (ReconcileAddonSecret, NewValues).
THEOREM AddonInPlace ==
  ASSUME NilApart
  PROVE  Spec => []QuietAddon
<1>1. PassInv => QuietAddon
  <2> SUFFICES ASSUME PassInv, Quiet, IpFamilyAllowed(adc.spec)
               PROVE  QuietAddon
    BY Zenon DEF QuietAddon
  <2>1. Clear /\ pc = "idle" /\ adcCache = adc
    BY DEF PassInv, CredentialsInv, Quiet, Clear
  <2>2. addon = NewValues(adc.spec, avi.version, secret)
    BY Zenon, <2>1 DEF PassInv, AddonInv
  <2>3. adc.version = avi.version
    BY Zenon, <2>1 DEF PassInv, NetworkInv
  <2>4. addon # Nil
    BY Zenon, <2>2, RecordsApart
  <2>5. /\ addon.controller_settings.controller_version = avi.version
        /\ addon.avi_credentials = [password |-> secret.pw, certificate_authority_data |-> secret.ca]
    BY <2>2 DEF NewValues, NewControllerSettings
  <2>6. (\A o \in Misplaced : adc.spec.extra[o] = Nil) => Reflects(addon, adc.spec.extra)
    BY Zenon, <2>2, ValuesReflect
  <2> QED
    BY Zenon, <2>3, <2>4, <2>5, <2>6 DEF QuietAddon
<1> QED
  BY <1>1, PassInvariant, PTL

\* A quiet controller leaves a Cluster of a class with the AKO package of its release,
\* unless its last pass was the one that created the add-on Secret
\* (patchAkoPackageRefToClusterBootstrap).
THEOREM PackageInPlace ==
  ASSUME NilApart
  PROVE  Spec => []QuietPackaged
<1>1. PassInv => QuietPackaged
  BY DEF PassInv, CredentialsInv, AddonInv, QuietPackaged, Quiet, Clear
<1> QED
  BY <1>1, PassInvariant, PTL

\* The add-on Secret is only ever written for a Cluster that works with its IP family
\* (ValidateClusterIpFamily), whatever order the edits and passes come in.
THEOREM NeverDeployedInVain ==
  ASSUME NilApart
  PROVE  Spec => []DeployedWhereItWorks
<1>1. Init => DeployedWhereItWorks
  BY InitInductive
<1>2. Inductive /\ DeployedWhereItWorks /\ [Next]_vars => DeployedWhereItWorks'
  BY StepInductive
<1> QED
  BY <1>1, <1>2, AlwaysInductive, PTL DEF Spec

\* No step changes the password in a Cluster's Secret once it is there ("this can only
\* happen once" in reconcileAviUserNormal).
THEOREM PasswordStays ==
  ASSUME NilApart
  PROVE  Spec => PasswordKept
<1>1. Inductive /\ [Next]_vars =>
        [Workload /\ secret # Nil /\ secret' # Nil => secret'.pw = secret.pw]_vars
  BY StepInductive DEF KeepsPassword
<1> QED
  BY <1>1, AlwaysInductive, PTL DEF Spec, PasswordKept

\* No pass changes a subnet with another prefix, makes a network unusable or takes a
\* permission from the role that AKO does not need (EnsureAviNetwork, AddUsableNetwork,
\* syncAkoUserRole).
THEOREM OthersStay ==
  ASSUME NilApart
  PROVE  Spec => OthersKept
<1>1. Inductive /\ [Next]_vars => [KeepsOthers]_vars
  BY StepInductive
<1> QED
  BY <1>1, AlwaysInductive, PTL DEF Spec, OthersKept, KeepsOthers
=============================================================================
