------------------------------ MODULE AdcPhases ------------------------------
(***************************************************************************)
(* The passes of the AKODeploymentConfig controller over one ADC and one   *)
(* Cluster it selects, call by call: the network, the usable networks, the *)
(* AviInfraSetting, the version, the credentials, role and account of the  *)
(* Cluster in AVI, its add-on Secret and its ClusterBootstrap              *)
(* (reconcileAVI and reconcileClusters with the functions they call).      *)
(* Neither the ADC nor the Cluster is being deleted here, and the client   *)
(* for AVI works: ClusterLifecycle and AviClientInit are about these.      *)
(*                                                                         *)
(* Users edit the ADC and the Secrets, administrators edit AVI, calls fail *)
(* and the process stops, MaxUpsets times in all.  Most of what happens in *)
(* AVI, and some of what happens in Kubernetes, reaches the controller by  *)
(* no event: unseen is TRUE from such a change until a pass starts.        *)
(***************************************************************************)
EXTENDS AviNetworks, AkoValues, AkoRole, FiniteSets

CONSTANTS
  Specs,       \* the specifications an ADC may have
  ClusterKinds,\* the Clusters, with management, customer, classy, vip and net
  Versions,    \* versions of AVI, numbers
  Authorities, \* contents of the Secret with the certificate authority
  MaxUpsets    \* edits, failures and stops

\* Versions are ordered, an address has one family, and what matters of a CIDR of a
\* Cluster is its family.
ASSUME PhasesAssumption ==
  /\ Versions \in SUBSET Nat /\ Versions # {} /\ MaxUpsets \in Nat
  /\ \A s \in Specs : s.cidr \in Prefixes /\ (s.pools # Nil => s.pools \in Seq(Pools))
  /\ \A s, t \in Specs : s.cidr.addr = t.cidr.addr /\ s.cidr.size = t.cidr.size => s.cidr = t.cidr
  /\ \A k \in ClusterKinds :
       /\ {k.net.pods, k.net.services} \subseteq Seq({"V4", "V6", "INVALID"})
       /\ {k.management, k.customer, k.classy, k.vip} \subseteq BOOLEAN

VARIABLES
  adc,       \* the ADC at the API server: its spec and its controllerVersion
  adcCache,  \* the informer's copy
  cl,        \* the Cluster, with what the passes leave on it
  avi,       \* AVI: its version, subnets, usable networks, IPAM, role and account
  ca,        \* the Secret with AVI's certificate authority, or Nil
  admin,     \* the password in the Secret with AVI's administrator
  secret,    \* the Cluster's Secret: password and authority, or Nil
  passwords, \* how many passwords were generated
  infra,     \* the AviInfraSetting, or Nil
  addon,     \* the values in the add-on Secret, or Nil
  bootstrap, \* the ClusterBootstrap: its resolved release, and its AKO package
  pc,        \* the call the pass is about to make, "idle" between passes
  run,       \* the pass: the copy of the ADC it works on, and what it remembers
  queue,     \* the ADC is in the work queue
  unseen,    \* something changed that brings no event, since a pass started
  skipped,   \* the last pass created the add-on Secret, and stopped there
  upsets

vars == <<adc, adcCache, cl, avi, ca, admin, secret, passwords, infra, addon,
          bootstrap, pc, run, queue, unseen, skipped, upsets>>
objects == <<adc, adcCache, cl, secret, passwords, infra, addon, bootstrap>>

Idle == [obj |-> Nil, read |-> Nil, found |-> FALSE, pw |-> Nil, failed |-> FALSE]

\* The Secret with credentials that a customer manages is there from the start; it
\* may be the Cluster's own, or another one.
Init ==
  /\ adc \in {[spec |-> s, version |-> v] : s \in {x \in Specs : validateAviDataNetworks(x)},
                                            v \in Versions}
  /\ adcCache = adc
  /\ cl \in {[kind |-> k, service |-> FALSE, labelled |-> FALSE, refused |-> FALSE] : k \in ClusterKinds}
  /\ avi = [version |-> CHOOSE v \in Versions : \A w \in Versions : v <= w,
            subnets |-> <<>>, usable |-> {}, ipam |-> TRUE, role |-> Nil, user |-> Nil]
  /\ ca \in Authorities
  /\ admin = "first"
  /\ secret \in {Nil} \cup IF cl.kind.customer THEN {[pw |-> "customer", ca |-> ca]} ELSE {}
  /\ passwords = 0
  /\ infra = Nil /\ addon = Nil
  /\ bootstrap = [release |-> 0, package |-> Nil]
  /\ pc = "idle" /\ run = Idle
  /\ queue = TRUE /\ unseen = FALSE /\ skipped = FALSE /\ upsets = 0

Upset == upsets < MaxUpsets /\ upsets' = upsets + 1

-----------------------------------------------------------------------------
(***************************************************************************)
(* A pass.  A phase that fails is noted, and the next phase runs.          *)
(***************************************************************************)

Goto(next) == pc' = next
Failing(next) == Goto(next) /\ run' = [run EXCEPT !.failed = TRUE]

\* Reconcile reads the ADC from the cache, and initAVI the authority.
Take ==
  /\ pc = "idle" /\ queue
  /\ queue' = FALSE /\ unseen' = FALSE /\ skipped' = FALSE
  /\ run' = [Idle EXCEPT !.obj = adcCache, !.read = adcCache, !.failed = ca = Nil]
  /\ Goto(IF ca = Nil THEN "addon" ELSE "subnets")
  /\ UNCHANGED <<objects, avi, ca, admin, upsets>>

\* A network that cannot be read is no error: the phase ends in success.
reconcileNetworkSubnets ==
  LET spec == run.obj.spec
      subnets == EnsureAviNetwork(avi.subnets, spec.cidr, spec.pools)
  IN /\ pc = "subnets"
     /\ \/ /\ \A i \in DOMAIN subnets : AviAccepts(subnets[i])
           /\ avi' = [avi EXCEPT !.subnets = subnets]
           /\ Goto("usable") /\ UNCHANGED <<run, unseen, upsets>>
        \/ /\ \/ subnets # avi.subnets /\ Upset
              \/ (\E i \in DOMAIN subnets : ~AviAccepts(subnets[i])) /\ UNCHANGED upsets
           /\ Failing("usable") /\ UNCHANGED <<avi, unseen>>
        \/ /\ Upset /\ unseen' = TRUE
           /\ Goto("usable") /\ UNCHANGED <<avi, run>>
     /\ UNCHANGED <<objects, ca, admin, queue, skipped>>

\* AVI after the first k calls.  A cloud without an IPAM provider is no error.
AddUsableNetwork(networks, k) ==
  [avi EXCEPT !.usable = @ \cup IF avi.ipam THEN {networks[i] : i \in 1..k} ELSE {}]

reconcileCloudUsableNetwork ==
  LET networks == UsableNetworks(run.obj.spec)
  IN /\ pc = "usable"
     /\ \E k \in 0..Len(networks) :
          /\ avi' = AddUsableNetwork(networks, k)
          /\ IF k = Len(networks) THEN Goto("infra") /\ UNCHANGED <<run, upsets>>
             ELSE Upset /\ Failing("infra")
     /\ UNCHANGED <<objects, ca, admin, queue, unseen, skipped>>

createAviInfraSetting(spec) ==
  [shard |-> Set(spec.extra.shardVSSize, "SMALL"), t1lr |-> spec.extra.nsxtT1LR,
   cidr |-> IF spec.control.family = "V6" THEN Nil ELSE spec.control,
   v6cidr |-> IF spec.control.family = "V6" THEN spec.control ELSE Nil]

reconcileAviInfraSetting ==
  LET spec == run.obj.spec
  IN /\ pc = "infra"
     /\ \/ /\ infra' = IF spec.control = Nil THEN infra ELSE createAviInfraSetting(spec)
           /\ Goto("version") /\ UNCHANGED <<run, upsets>>
        \/ /\ spec.control # Nil /\ Upset
           /\ Failing("version") /\ UNCHANGED infra
     /\ UNCHANGED <<adc, adcCache, cl, avi, ca, admin, secret, passwords, addon, bootstrap,
                    queue, unseen, skipped>>

\* The version goes into the copy of the ADC, for the phases that follow and the patch.
reconcileControllerVersion ==
  /\ pc = "version"
  /\ \/ /\ run' = [run EXCEPT !.obj.version = avi.version]
        /\ Goto("secret") /\ UNCHANGED upsets
     \/ Upset /\ Failing("secret")
  /\ UNCHANGED <<objects, avi, ca, admin, queue, unseen, skipped>>

-----------------------------------------------------------------------------
(***************************************************************************)
(* ReconcileAviUser: the Cluster's Secret, then the role, then the account *)
(* in AVI.  When it ends, the Cluster is patched with the label of the     *)
(* ADC, and that patch brings an event.                                    *)
(***************************************************************************)

PatchCluster(refused) ==
  /\ cl' = [cl EXCEPT !.labelled = TRUE, !.refused = refused]
  /\ queue' = (queue \/ cl' # cl)

\* Mutant: the Secret is written anew in every pass.
MutantSecretAnew(old) == [pw |-> passwords + 1, ca |-> ca]

\* A password is generated with the Secret; afterwards only the authority changes.
NewSecret(old) == IF old = Nil THEN [pw |-> passwords + 1, ca |-> ca] ELSE [old EXCEPT !.ca = ca]

\* Mutant: the error is logged and dropped.
MutantUserErrorDropped ==
  Goto("addon") /\ PatchCluster(cl.refused) /\ UNCHANGED run

UserFails ==
  Failing("addon") /\ PatchCluster(cl.refused)

reconcileAviUserNormal ==
  /\ pc = "secret"
  /\ \/ ca = Nil /\ UserFails /\ UNCHANGED <<secret, passwords, upsets>>
     \/ Upset /\ UserFails /\ UNCHANGED <<secret, passwords>>
     \/ /\ ca # Nil /\ UNCHANGED upsets
        /\ \/ /\ cl.kind.management
              /\ secret' = [pw |-> admin, ca |-> ca]
              /\ Goto("addon") /\ PatchCluster(cl.refused) /\ UNCHANGED <<run, passwords>>
           \/ /\ cl.kind.customer /\ ~cl.kind.management
              /\ Goto("addon") /\ PatchCluster(cl.refused) /\ UNCHANGED <<run, secret, passwords>>
           \/ /\ ~cl.kind.management /\ ~cl.kind.customer
              /\ secret' = NewSecret(secret)
              /\ passwords' = passwords + (IF secret'.pw = passwords + 1 THEN 1 ELSE 0)
              /\ run' = [run EXCEPT !.pw = secret'.pw]
              /\ Goto("role") /\ UNCHANGED <<cl, queue>>
  /\ UNCHANGED <<adc, adcCache, avi, ca, admin, infra, addon, bootstrap, unseen, skipped>>

\* createOrUpdateAviUser up to the role.  A role is created only for a new account.
EnsureRole ==
  LET found == avi.user # Nil
      role == IF avi.role = Nil THEN filterAkoRolePermissionByVersion(avi.version)
              ELSE syncAkoUserRole(avi.role, avi.version)
  IN /\ pc = "role"
     /\ \/ /\ ~(found /\ avi.role = Nil)
           /\ avi' = [avi EXCEPT !.role = role]
           /\ run' = [run EXCEPT !.found = found]
           /\ Goto("account") /\ UNCHANGED <<cl, queue, upsets>>
        \/ /\ found /\ avi.role = Nil
           /\ UserFails /\ UNCHANGED <<avi, upsets>>
        \/ Upset /\ UserFails /\ UNCHANGED avi
     /\ UNCHANGED <<adc, adcCache, ca, admin, secret, passwords, infra, addon, bootstrap,
                    unseen, skipped>>

\* Mutant: the account gets a password of its own.
MutantOwnPassword(user) == [pw |-> passwords + 1, tenant |-> Set(run.obj.spec.tenant, "admin")]

\* The account after a create, or after an update of its password.
createOrUpdateAviUser(user) ==
  IF user = Nil THEN [pw |-> run.pw, tenant |-> Set(run.obj.spec.tenant, "admin")]
  ELSE [user EXCEPT !.pw = run.pw]

\* The account was looked up before the role: AVI refuses to create one that has
\* appeared or whose role has gone, and to update one that has gone.
EnsureAccount ==
  /\ pc = "account"
  /\ \/ /\ run.found = (avi.user # Nil) /\ avi.role # Nil
        /\ avi' = [avi EXCEPT !.user = createOrUpdateAviUser(avi.user)]
        /\ Goto("addon") /\ PatchCluster(cl.refused) /\ UNCHANGED <<run, upsets>>
     \/ /\ run.found # (avi.user # Nil) \/ avi.role = Nil
        /\ UserFails /\ UNCHANGED <<avi, upsets>>
     \/ Upset /\ UserFails /\ UNCHANGED avi
  /\ UNCHANGED <<adc, adcCache, ca, admin, secret, passwords, infra, addon, bootstrap,
                 unseen, skipped>>

-----------------------------------------------------------------------------
(***************************************************************************)
(* ReconcileAddonSecret, and the patch of the ADC that ends the pass.      *)
(***************************************************************************)

AddonFails == Failing("patch") /\ PatchCluster(cl.refused)

\* The Cluster's own Secret is missing, also when a customer's is to be used, or the
\* Service of the management Cluster is.
AddonWaits == secret = Nil \/ (cl.kind.management /\ cl.kind.vip /\ ~cl.service)

IpFamilyAllowed(spec) ==
  ValidateClusterIpFamily(cl.kind.net, cl.kind.vip, Set(spec.extra.ipFamily, "V4"))

\* A Cluster whose IP family is refused keeps the add-on Secret it may have.  A new
\* add-on Secret ends the phase: the ClusterBootstrap is left for another pass.
ReconcileAddonSecret ==
  /\ pc = "addon"
  /\ \/ AddonWaits /\ AddonFails /\ UNCHANGED <<addon, skipped, upsets>>
     \/ Upset /\ AddonFails /\ UNCHANGED <<addon, skipped>>
     \/ /\ ~AddonWaits /\ ~IpFamilyAllowed(run.obj.spec)
        /\ Goto("patch") /\ PatchCluster(TRUE)
        /\ UNCHANGED <<addon, skipped, run, upsets>>
     \/ /\ ~AddonWaits /\ IpFamilyAllowed(run.obj.spec)
        /\ addon' = NewValues(run.obj.spec, run.obj.version, secret)
        /\ skipped' = (addon = Nil)
        /\ IF addon # Nil /\ cl.kind.classy
           THEN Goto("package") /\ UNCHANGED <<cl, queue>>
           ELSE Goto("patch") /\ PatchCluster(cl.refused)
        /\ UNCHANGED <<run, upsets>>
  /\ UNCHANGED <<adc, adcCache, avi, ca, admin, secret, passwords, infra, bootstrap, unseen>>

\* Mutant: a package that is there is left as it is.
MutantPackageKept(b) == IF b.package = Nil THEN [b EXCEPT !.package = b.release] ELSE b

\* The package of the resolved release replaces the one that is there.
WithAkoPackage(b) == [b EXCEPT !.package = b.release]

patchAkoPackageRefToClusterBootstrap ==
  /\ pc = "package"
  /\ \/ /\ bootstrap.release # 0
        /\ bootstrap' = WithAkoPackage(bootstrap)
        /\ Goto("patch") /\ PatchCluster(cl.refused) /\ UNCHANGED <<run, upsets>>
     \/ /\ bootstrap.release = 0
        /\ AddonFails /\ UNCHANGED <<bootstrap, upsets>>
     \/ Upset /\ AddonFails /\ UNCHANGED bootstrap
  /\ UNCHANGED <<adc, adcCache, avi, ca, admin, secret, passwords, infra, addon, unseen, skipped>>

\* Only what the pass changed is patched, which is the version.
PatchADC ==
  LET changed == run.obj.version # run.read.version
      admitted == ValidateUpdate(adc.spec, adc.spec, ca)
  IN /\ pc = "patch"
     /\ \/ /\ changed => admitted
           /\ adc' = IF changed THEN [adc EXCEPT !.version = run.obj.version] ELSE adc
           /\ queue' = (queue \/ run.failed) /\ UNCHANGED upsets
        \/ /\ changed /\ (Upset \/ (~admitted /\ UNCHANGED upsets))
           /\ queue' = TRUE /\ UNCHANGED adc
     /\ Goto("idle") /\ run' = Idle
     /\ UNCHANGED <<adcCache, cl, avi, ca, admin, secret, passwords, infra, addon, bootstrap,
                    unseen, skipped>>

-----------------------------------------------------------------------------
(***************************************************************************)
(* Around the controller.                                                  *)
(***************************************************************************)

SyncADC ==
  /\ adcCache # adc
  /\ adcCache' = adc /\ queue' = TRUE
  /\ UNCHANGED <<adc, cl, avi, ca, admin, secret, passwords, infra, addon, bootstrap, pc, run,
                 unseen, skipped, upsets>>

\* The informers' periodic resync.
Resync ==
  /\ (unseen \/ skipped) /\ ~queue /\ pc = "idle"
  /\ queue' = TRUE
  /\ UNCHANGED <<objects, avi, ca, admin, pc, run, unseen, skipped, upsets>>

\* The process stops; the next one lists the ADCs.
Restart ==
  /\ pc # "idle" /\ Upset
  /\ Goto("idle") /\ run' = Idle
  /\ adcCache' = adc /\ queue' = TRUE
  /\ UNCHANGED <<adc, cl, avi, ca, admin, secret, passwords, infra, addon, bootstrap,
                 unseen, skipped>>

EditADC ==
  /\ Upset
  /\ \E spec \in Specs : ValidateUpdate(adc.spec, spec, ca) /\ adc' = [adc EXCEPT !.spec = spec]
  /\ UNCHANGED <<adcCache, cl, avi, ca, admin, secret, passwords, infra, addon, bootstrap,
                 pc, run, queue, unseen, skipped>>

\* These two Secrets are the ones secretToAKODeploymentConfig answers to.
EditAuthority ==
  /\ Upset
  /\ ca' \in (Authorities \cup {Nil}) \ {ca}
  /\ queue' = TRUE
  /\ UNCHANGED <<objects, avi, admin, pc, run, unseen, skipped>>

RestoreAuthority ==
  /\ ca = Nil
  /\ ca' \in Authorities
  /\ queue' = TRUE
  /\ UNCHANGED <<objects, avi, admin, pc, run, unseen, skipped, upsets>>

EditAdmin ==
  /\ Upset
  /\ admin' \in {"first", "second"} \ {admin}
  /\ queue' = TRUE
  /\ UNCHANGED <<objects, avi, ca, pc, run, unseen, skipped>>

\* No event comes of the Cluster's own Secret.
DeleteSecret ==
  /\ Upset /\ secret # Nil /\ ~cl.kind.customer
  /\ secret' = Nil /\ unseen' = TRUE
  /\ UNCHANGED <<adc, adcCache, cl, avi, ca, admin, passwords, infra, addon, bootstrap,
                 pc, run, queue, skipped>>

\* The Cluster controller creates the Service of the control plane.
ServiceCreated ==
  /\ cl.kind.management /\ cl.kind.vip /\ ~cl.service
  /\ cl' = [cl EXCEPT !.service = TRUE]
  /\ UNCHANGED <<adc, adcCache, avi, ca, admin, secret, passwords, infra, addon, bootstrap,
                 pc, run, queue, unseen, skipped, upsets>>

\* A release is resolved for a Cluster of a class, and another one for an upgrade.
ResolveRelease ==
  /\ cl.kind.classy
  /\ \/ bootstrap.release = 0 /\ UNCHANGED upsets
     \/ bootstrap.release = 1 /\ Upset
  /\ bootstrap' = [bootstrap EXCEPT !.release = @ + 1]
  /\ unseen' = TRUE
  /\ UNCHANGED <<adc, adcCache, cl, avi, ca, admin, secret, passwords, infra, addon,
                 pc, run, queue, skipped>>

\* A role of an account cannot be deleted.
EditedRoles ==
  {[avi.role EXCEPT ![r] = "NO_ACCESS"] : r \in DOMAIN avi.role}
  \cup {[r \in DOMAIN avi.role \ {x} |-> avi.role[r]] : x \in DOMAIN avi.role}
  \cup {[r \in DOMAIN avi.role \cup {x} |-> IF r = x THEN "READ_ACCESS" ELSE avi.role[r]] :
           x \in OtherResources}

EditAvi ==
  /\ Upset
  /\ \/ \E v \in Versions : v > avi.version /\ avi' = [avi EXCEPT !.version = v]
     \/ avi' = [avi EXCEPT !.ipam = ~@]
     \/ \E n \in avi.usable : avi' = [avi EXCEPT !.usable = @ \ {n}]
     \/ \E s \in Specs :
          /\ \A i \in DOMAIN avi.subnets : avi.subnets[i].prefix # s.cidr
          /\ avi' = [avi EXCEPT !.subnets = Append(@, [prefix |-> s.cidr, ranges |-> <<>>])]
     \/ \E i \in DOMAIN avi.subnets :
          avi' = [avi EXCEPT !.subnets = SubSeq(@, 1, i - 1) \o SubSeq(@, i + 1, Len(@))]
     \/ \E i \in DOMAIN avi.subnets :
          avi.subnets[i].ranges # <<>> /\ avi' = [avi EXCEPT !.subnets[i].ranges = Tail(@)]
     \/ avi.user # Nil /\ avi' = [avi EXCEPT !.user = Nil]
     \/ avi.user # Nil /\ avi' = [avi EXCEPT !.user.pw = 0]
     \/ avi.user = Nil /\ avi.role # Nil /\ avi' = [avi EXCEPT !.role = Nil]
     \/ avi.role # Nil /\ \E r \in EditedRoles : avi' = [avi EXCEPT !.role = r]
  /\ unseen' = TRUE
  /\ UNCHANGED <<objects, ca, admin, pc, run, queue, skipped>>

Pass ==
  \/ reconcileNetworkSubnets \/ reconcileCloudUsableNetwork \/ reconcileAviInfraSetting
  \/ reconcileControllerVersion \/ reconcileAviUserNormal \/ EnsureRole \/ EnsureAccount
  \/ ReconcileAddonSecret \/ patchAkoPackageRefToClusterBootstrap \/ PatchADC

Edits == EditADC \/ EditAuthority \/ EditAdmin \/ DeleteSecret \/ EditAvi

Next ==
  \/ Take \/ Pass \/ SyncADC \/ Resync \/ Restart
  \/ Edits \/ RestoreAuthority \/ ServiceCreated \/ ResolveRelease

Spec == Init /\ [][Next]_vars

-----------------------------------------------------------------------------

Quiet == pc = "idle" /\ ~queue /\ adcCache = adc /\ ~unseen

Workload == ~cl.kind.management /\ ~cl.kind.customer

ADCs == [spec : Specs, version : Versions]
Subnets == [prefix : {s.cidr : s \in Specs}, ranges : Seq(Pools)]

\* The state is well formed: a pass has copies of an ADC, the ranges of a subnet are apart,
\* an account always has a role and one of the passwords that were generated (0 is the
\* administrator's), and a password is generated only for the first Secret and for one
\* that was lost.
TypeOK ==
  /\ adc \in ADCs /\ adcCache \in ADCs
  /\ pc = "idle" <=> run = Idle
  /\ pc # "idle" => run.obj \in ADCs /\ run.read \in ADCs
  /\ cl.kind \in ClusterKinds
  /\ avi.subnets \in Seq(Subnets)
  /\ \A i \in DOMAIN avi.subnets : AviAccepts(avi.subnets[i])
  /\ avi.usable \subseteq {"control", "data"} /\ avi.version \in Versions
  /\ avi.user # Nil => avi.role # Nil /\ avi.user.pw \in 0..passwords
  /\ bootstrap \in [release : 0..2, package : {Nil} \cup 1..2]
  /\ upsets \in 0..MaxUpsets
  /\ passwords \in Nat /\ passwords + (IF secret = Nil THEN 1 ELSE 0) <= upsets + 1
  /\ Workload /\ secret # Nil => secret.pw \in 1..passwords
  /\ pc \in {"role", "account"} => run.pw \in 1..passwords

\* The network has one subnet with the prefix, and its ranges are the pools.
SubnetDone(spec) ==
  /\ Cardinality({i \in DOMAIN avi.subnets : avi.subnets[i].prefix = spec.cidr}) = 1
  /\ spec.pools # Nil =>
       \A i \in DOMAIN avi.subnets : avi.subnets[i].prefix = spec.cidr =>
         Range(Bounds(avi.subnets[i].ranges)) = Range(Bounds(spec.pools))

UsableDone(spec) == avi.ipam => Range(UsableNetworks(spec)) \subseteq avi.usable

\* Once the controller is quiet, the data network has one subnet with the prefix of the
\* ADC, its static ranges are the pools, and the cloud may use the networks
\* (EnsureAviNetwork, AddUsableNetwork), whatever failed or was edited on the way.
QuietNetwork == Quiet => SubnetDone(adc.spec) /\ UsableDone(adc.spec)

\* The credentials are in place.
AccountDone ==
  /\ cl.kind.management => secret = [pw |-> admin, ca |-> ca]
  /\ Workload =>
       /\ secret # Nil /\ secret.ca = ca
       /\ avi.user # Nil /\ avi.user.pw = secret.pw
       /\ Complete(avi.role, avi.version)

\* Once the controller is quiet, a workload Cluster has an account whose password is the
\* one in its Secret and whose role allows what AKO needs, the management Cluster has the
\* administrator's, and both have the current authority (reconcileAviUserNormal).
QuietAccount == Quiet => AccountDone

Clear == ~queue /\ ~unseen /\ ~run.failed

\* What a pass has done for the credentials so far.
CredentialsInv ==
  /\ pc = "idle" => ~run.failed
  /\ pc \in {"role", "account"} => Workload
  /\ Clear /\ pc \in {"idle", "addon", "package", "patch"} => AccountDone
  /\ Clear /\ pc \in {"role", "account"} =>
       secret # Nil /\ secret.ca = ca /\ secret.pw = run.pw
  /\ Clear /\ pc = "account" => Complete(avi.role, avi.version)

\* What it has done for the networks and the version.
NetworkInv ==
  /\ \A i, j \in DOMAIN avi.subnets : avi.subnets[i].prefix = avi.subnets[j].prefix => i = j
  /\ pc # "idle" => run.obj.spec = run.read.spec /\ (~queue => run.read = adcCache)
  /\ Clear /\ pc # "subnets" => SubnetDone(adcCache.spec)
  /\ Clear /\ pc \notin {"subnets", "usable"} => UsableDone(adcCache.spec)
  /\ Clear /\ pc \notin {"idle", "subnets", "usable", "infra", "version"} =>
       run.obj.version = avi.version
  /\ Clear /\ pc = "idle" => avi.version \in {adc.version, adcCache.version}

\* What it has done for AKO.
AddonInv ==
  Clear /\ IpFamilyAllowed(adcCache.spec) =>
    /\ pc \in {"idle", "package", "patch"} => addon = NewValues(adcCache.spec, avi.version, secret)
    /\ pc \in {"idle", "patch"} /\ cl.kind.classy /\ ~skipped => bootstrap.package = bootstrap.release

\* The inductive invariant behind what holds of a quiet controller: what a pass has done
\* so far holds of the ADC it read, unless the pass has failed or another pass or event is
\* due (reconcileAVI, reconcileClusters).
PassInv == CredentialsInv /\ NetworkInv /\ AddonInv

\* Once the controller is quiet, a Cluster whose IP family is allowed has an add-on
\* Secret with the options of the ADC, the actual version of AVI and the Cluster's
\* credentials (ReconcileAddonSecret), unless the ADC sets one of the options that
\* values.go writes to another's place.
QuietAddon ==
  Quiet /\ IpFamilyAllowed(adc.spec) =>
    /\ addon # Nil
    /\ addon.controller_settings.controller_version = avi.version /\ adc.version = avi.version
    /\ addon.avi_credentials = [password |-> secret.pw, certificate_authority_data |-> secret.ca]
    /\ (\A o \in Misplaced : adc.spec.extra[o] = Nil) => Reflects(addon, adc.spec.extra)

\* Once the controller is quiet, a Cluster of a class with an add-on Secret has the AKO
\* package of its release, except when the pass that created the add-on Secret was the
\* last (ReconcileAddonSecret returns before patchAkoPackageRefToClusterBootstrap).
QuietPackaged ==
  Quiet /\ cl.kind.classy /\ addon # Nil /\ ~skipped /\ IpFamilyAllowed(adc.spec) =>
    bootstrap.package = bootstrap.release

\* An add-on Secret was only ever written for a Cluster that works with its IP family
\* (ValidateClusterIpFamily): the first range of Pods is not IPv6, and AKO uses IPv6 only
\* beside IPv4 and not for the control plane.
DeployedWhereItWorks ==
  addon # Nil =>
    LET net == cl.kind.net
    IN /\ net.pods # <<>> => Head(net.pods) # "V6"
       /\ addon.ako_settings.ip_family = "V6" =>
            /\ ~cl.kind.vip
            /\ \E cidrs \in {net.pods, net.services} : Range(cidrs) = {"V4", "V6"}

\* A Cluster's password is generated once: no step changes it in a Secret that is there
\* (reconcileAviUserNormal, "this can only happen once").
PasswordKept ==
  [][Workload /\ secret # Nil /\ secret' # Nil => secret'.pw = secret.pw]_vars

\* A pass leaves alone what is not its own in AVI: subnets with another prefix, networks
\* that are usable already, and permissions of the role that AKO does not need
\* (EnsureAviNetwork, AddUsableNetwork, syncAkoUserRole).
OthersKept ==
  [][pc # "idle" /\ pc' # pc =>
       /\ \A i \in DOMAIN avi.subnets : avi.subnets[i].prefix # run.obj.spec.cidr =>
            i \in DOMAIN avi'.subnets /\ avi'.subnets[i] = avi.subnets[i]
       /\ avi.usable \subseteq avi'.usable
       /\ avi.role # Nil =>
            \A r \in DOMAIN avi.role \ Essential :
              r \in DOMAIN avi'.role /\ avi'.role[r] = avi.role[r]]_vars
=============================================================================
