--------------------------- MODULE ClusterLifecycle ---------------------------
(***************************************************************************)
(* The life of the Clusters that one AKODeploymentConfig (ADC) selects:    *)
(* the ADC controller adopts a Cluster (AVI user, finalizer, add-on        *)
(* secret), and releases it when the Cluster or the ADC is deleted.        *)
(*                                                                         *)
(* Processes                                                               *)
(*   - the worker of the ADC controller, controllers/akodeploymentconfig:  *)
(*     one reconcile is a list of phases, each of which lists the Clusters *)
(*     from the informer cache and, Cluster by Cluster, runs functions on  *)
(*     an in-memory copy and then patches the Cluster;                     *)
(*   - the worker of the Cluster controller, controllers/cluster;          *)
(*   - the informer cache both of them read ADCs and Clusters from;        *)
(*   - users, Cluster API, the add-on manager and AKO itself (external).   *)
(* Each controller runs one reconcile at a time (the controller-runtime    *)
(* default, which this repository does not change).  Secrets are read and  *)
(* written uncached (main.go), so they have no cached copy here.           *)
(*                                                                         *)
(* Abstractions: the ADC is created once; a Cluster is two records, what   *)
(* these controllers write (cluster) and what they only read (facts);      *)
(* "AVI is the control plane VIP provider" is left to another module.      *)
(***************************************************************************)
EXTENDS Naturals

CONSTANTS
  Clusters,        \* the Clusters of the management cluster's API server
  NoCluster,       \* "no Cluster is being worked on"
  Management,      \* those in namespace tkg-system
  LBProvider,      \* IsLoadBalancerProvider's answer for each Cluster
  IPFamilyValid,   \* the Clusters that pass ValidateClusterIpFamily
  ManagementADC,   \* is the ADC install-ako-for-management-cluster?
  CustomerManaged, \* is spec.workloadCredentialRef set?
  Deletions,       \* what users delete: "adc", "cluster"
  FaultKinds,      \* which remote calls may fail
  MaxFaults,       \* and how many failures there are in all
  MaxEdits         \* how often users and Cluster API change a live Cluster

AllFaults == {"list", "aviPhase", "avi", "remote", "addonSecret", "addonDelete",
              "patchStatus", "patchMeta", "patchADC", "crash"}

ASSUME ConstantsAssumption ==
  /\ NoCluster \notin Clusters
  /\ Management \subseteq Clusters
  /\ LBProvider \in [Clusters -> {"yes", "no", "error"}]
  /\ IPFamilyValid \subseteq Clusters
  /\ ManagementADC \in BOOLEAN
  /\ CustomerManaged \in BOOLEAN
  /\ Deletions \subseteq {"adc", "cluster"}
  /\ FaultKinds \subseteq AllFaults
  /\ MaxFaults \in Nat
  /\ MaxEdits \in Nat

VARIABLES
  adc,          \* the ADC in the API server
  cluster,      \* the Clusters in the API server
  facts,        \* what users and Cluster API say of them
  adcCache,     \* the informer cache's copies of the three
  clusterCache,
  factsCache,
  mcSecret,     \* does Secret <cluster>-avi-credentials exist?
  addonSecret,  \* does the AKO add-on Secret exist?
  aviUser,      \* does the Cluster's account exist in the AVI controller?
  ako,          \* AKO in the workload cluster
  faults,       \* failures so far
  edits,        \* changes by users and Cluster API so far
  pc,           \* where the ADC worker is in Reconcile
  obj,          \* its copy of the ADC, as read
  again,        \* has a phase returned an error or asked to be requeued?
  snap,         \* the Clusters the current phase listed, as it listed them; of
                \* those it is done with, only whether they are being deleted
  todo,         \* the Clusters the current phase has not run on yet
  cur,          \* the Cluster it ran on and has not patched yet
  work,         \* the in-memory copy of cur after its phase functions
  cc            \* the Cluster worker: its Cluster, the metadata as read and
                \* as changed

apiVars == <<adc, cluster, facts, edits>>
cacheVars == <<adcCache, clusterCache, factsCache>>
sideVars == <<mcSecret, addonSecret, aviUser, ako>>
workerVars == <<pc, obj, again, snap, todo, cur, work>>
vars == <<apiVars, cacheVars, sideVars, faults, workerVars, cc>>

Finalizers == {"akoo", "capi"}
Condition == {"absent", "false", "true"}

\* A Cluster: its deletion timestamp, finalizers and avi label, and the
\* conditions AviResourceCleanupSucceeded and AviUserCleanupSucceeded.
ClusterObj == [deleting: BOOLEAN, fins: SUBSET Finalizers, avi: BOOLEAN,
               res: Condition, user: Condition]

\* Does the ADC's selector match its labels; is its Ready condition not False?
Facts == [matches: BOOLEAN, ready: BOOLEAN]

\* The part of a Cluster that the Cluster controller changes.
MetaObj == [fins: SUBSET Finalizers, avi: BOOLEAN]
Meta(o) == [fins |-> o.fins, avi |-> o.avi]

AdcObj == [state: {"absent", "live", "deleting"}, fin: BOOLEAN]

NoADC == [state |-> "absent", fin |-> FALSE]

\* An object with a deletion timestamp and no finalizers is removed.
Gone(o) == o.deleting /\ o.fins = {}

\* AKO in the workload cluster, as CleanupFinished and cleanup tell it apart:
\* no data-values Secret; the Secret but no StatefulSet yet; serving; serving
\* with deleteConfig "true"; StatefulSet gone, or annotated Done or Timeout.
AkoState == {"none", "installing", "running", "cleaning", "finished"}

Phase == {"idle", "listAVI", "avi", "listClusters", "clusters", "patchADC"}

TypeOK ==
  /\ adc \in AdcObj /\ adcCache \in AdcObj /\ obj \in AdcObj
  /\ cluster \in [Clusters -> ClusterObj]
  /\ clusterCache \in [Clusters -> ClusterObj]
  /\ facts \in [Clusters -> Facts] /\ factsCache \in [Clusters -> Facts]
  /\ mcSecret \in [Clusters -> BOOLEAN]
  /\ addonSecret \in [Clusters -> BOOLEAN]
  /\ aviUser \in [Clusters -> BOOLEAN]
  /\ ako \in [Clusters -> AkoState]
  /\ faults \in 0..MaxFaults /\ edits \in 0..MaxEdits
  /\ pc \in Phase
  /\ again \in BOOLEAN
  /\ snap \in [Clusters -> ClusterObj]
  /\ todo \subseteq Clusters
  /\ cur \in Clusters \cup {NoCluster}
  /\ work \in ClusterObj
  /\ cc \in [c: Clusters \cup {NoCluster}, before: MetaObj, after: MetaObj]

\* The value of the copies that hold nothing.
Blank == [deleting |-> FALSE, fins |-> {}, avi |-> FALSE,
          res |-> "absent", user |-> "absent"]
NoReconcile == [c |-> NoCluster, before |-> Meta(Blank), after |-> Meta(Blank)]

Init ==
  /\ adc = [state |-> "live", fin |-> FALSE]
  /\ adcCache = NoADC
  /\ cluster \in [Clusters -> {Blank, [Blank EXCEPT !.fins = {"capi"}]}]
  /\ clusterCache = cluster
  /\ facts \in [Clusters -> Facts] /\ factsCache = facts
  /\ mcSecret = [c \in Clusters |-> FALSE]
  /\ addonSecret = [c \in Clusters |-> FALSE]
  /\ aviUser = [c \in Clusters |-> FALSE]
  /\ ako = [c \in Clusters |-> "none"]
  /\ faults = 0 /\ edits = 0
  /\ pc = "idle" /\ obj = NoADC
  /\ again = FALSE
  /\ snap = [c \in Clusters |-> Blank]
  /\ todo = {} /\ cur = NoCluster /\ work = Blank
  /\ cc = NoReconcile

-----------------------------------------------------------------------------
(***************************************************************************)
(* Failures: a call of kind k that may fail either succeeds or uses up one *)
(* of the failures left.                                                   *)
(***************************************************************************)

Outcome(k, ok) == ok \/ (k \in FaultKinds /\ faults < MaxFaults)
CountFault(ok) == faults' = IF ok THEN faults ELSE faults + 1

(***************************************************************************)
(* The patch helper of Cluster API (util/patch): the difference between    *)
(* the copy as read and the copy as changed, if any, is sent in two        *)
(* requests.  The first patches the conditions, and fails if another       *)
(* writer changed a condition it changes; the second is a merge patch of   *)
(* the labels and of the WHOLE list of finalizers, without optimistic      *)
(* lock; the API server refuses it if it adds a finalizer to an object     *)
(* being deleted.  Neither brings a removed object back.                   *)
(***************************************************************************)

CondConflict(s, before, after) ==
  \/ after.res # before.res /\ s.res \notin {before.res, after.res}
  \/ after.user # before.user /\ s.user \notin {before.user, after.user}

PatchConditions(s, before, after) ==
  [s EXCEPT !.res = IF after.res # before.res THEN after.res ELSE @,
            !.user = IF after.user # before.user THEN after.user ELSE @]

PatchMetadata(s, before, after) ==
  [s EXCEPT !.avi = IF after.avi # before.avi THEN after.avi ELSE @,
            !.fins = IF after.fins # before.fins THEN after.fins ELSE @]

MetadataForbidden(s, before, after) ==
  s.deleting /\ ~(PatchMetadata(s, before, after).fins \subseteq s.fins)

PatchedStatus(s, before, after, ok) ==
  IF ~ok \/ Gone(s) \/ CondConflict(s, before, after)
    THEN s ELSE PatchConditions(s, before, after)

PatchedMeta(s, before, after, ok) ==
  IF ~ok \/ Gone(s) \/ MetadataForbidden(s, before, after)
    THEN s ELSE PatchMetadata(s, before, after)

-----------------------------------------------------------------------------
(***************************************************************************)
(* The ADC controller.                                                     *)
(***************************************************************************)

\* Reconcile reads the ADC.  A live one gets the finalizer in memory only,
\* and its phases run at once; the finalizer is stored by PatchADC.
StartReconcile ==
  /\ pc = "idle"
  /\ adcCache.state = "live" \/ adcCache.fin
  /\ obj' = adcCache
  /\ pc' = IF adcCache.state = "live" THEN "listAVI" ELSE "listClusters"
  /\ again' = FALSE
  /\ UNCHANGED <<apiVars, cacheVars, sideVars, faults, snap, todo, cur, work, cc>>

\* The phase after p: reconcileNormal runs reconcileAVI and then
\* reconcileClusters, reconcileDelete their deletions in the other order.
PhaseAfter(p) ==
  CASE p = "avi"      -> IF obj.state = "live" THEN "listClusters" ELSE "patchADC"
    [] p = "clusters" -> IF obj.state = "live" THEN "patchADC" ELSE "listAVI"

SkipCluster(c) == ~factsCache[c].ready /\ ~clusterCache[c].deleting

\* ListAkoDeploymentConfigSelectClusters.
ListedClusters ==
  {c \in Clusters : /\ ~Gone(clusterCache[c])
                    /\ factsCache[c].matches
                    /\ ~SkipCluster(c)
                    /\ c \in Management => ManagementADC}

\* The head of ReconcileClustersPhases: the list, and the Clusters it skips
\* because AVI is not their load balancer or their variables do not parse.
ListInto(p) ==
  /\ todo' = {c \in ListedClusters : LBProvider[c] = "yes"}
  /\ snap' = [c \in Clusters |-> IF c \in todo' THEN clusterCache[c] ELSE Blank]
  /\ pc' = p

ListErrors == \E c \in ListedClusters : LBProvider[c] = "error"

\* reconcileAVI and reconcileAVIDelete up to their phase over the Clusters:
\* a failed initAVI or list skips that phase, a failure of another phase
\* (networks, AviInfraSetting, version) does not.
ListAVI ==
  /\ pc = "listAVI"
  /\ \/ /\ \E ok \in BOOLEAN :
             /\ Outcome("aviPhase", ok) /\ CountFault(ok)
             /\ again' = (again \/ ~ok \/ ListErrors)
        /\ ListInto("avi")
     \/ /\ Outcome("list", FALSE) /\ CountFault(FALSE)
        /\ again' = TRUE /\ todo' = {} /\ pc' = PhaseAfter("avi")
        /\ UNCHANGED snap
  /\ UNCHANGED <<apiVars, cacheVars, sideVars, obj, cur, work, cc>>

\* reconcileClusters and reconcileClustersDelete up to their loop.
ListClusters ==
  /\ pc = "listClusters"
  /\ \/ /\ again' = (again \/ ListErrors)
        /\ ListInto("clusters")
        /\ UNCHANGED faults
     \/ /\ Outcome("list", FALSE) /\ CountFault(FALSE)
        /\ again' = TRUE /\ todo' = {} /\ pc' = PhaseAfter("clusters")
        /\ UNCHANGED snap
  /\ UNCHANGED <<apiVars, cacheVars, sideVars, obj, cur, work, cc>>

\* The phase function on Cluster c leaves o in memory; PatchCluster stores it.
RunOn(c, o) == cur' = c /\ work' = o

\* ApplyClusterLabel comes before the phase functions.
Labelled(c) == [snap[c] EXCEPT !.avi = TRUE]

\* Mutant: an existing Secret is taken to mean that the account exists.
MutantUserOnlyWithNewSecret(c) ==
  /\ obj.state = "live" /\ ~snap[c].deleting
  /\ \E done \in 0..2 :
       LET own == c \notin Management /\ ~CustomerManaged
           secret == c \in Management \/ ~CustomerManaged
       IN /\ Outcome("avi", done = 2) /\ CountFault(done = 2)
          /\ again' = (again \/ done < 2)
          /\ mcSecret' = [mcSecret EXCEPT ![c] = @ \/ (secret /\ done > 0)]
          /\ aviUser' = [aviUser EXCEPT ![c] = @ \/ (own /\ done = 2 /\ ~mcSecret[c])]
  /\ RunOn(c, Labelled(c))
  /\ UNCHANGED <<addonSecret, ako>>

\* reconcileAviUserNormal: "done" counts the steps that succeeded, the Secret
\* (copied from the admin's for the management cluster) and then the account.
AviUserNormal(c) ==
  /\ obj.state = "live" /\ ~snap[c].deleting
  /\ \E done \in 0..2 :
       LET own == c \notin Management /\ ~CustomerManaged
           secret == c \in Management \/ ~CustomerManaged
       IN /\ Outcome("avi", done = 2) /\ CountFault(done = 2)
          /\ again' = (again \/ done < 2)
          /\ mcSecret' = [mcSecret EXCEPT ![c] = @ \/ (secret /\ done > 0)]
          /\ aviUser' = [aviUser EXCEPT ![c] = @ \/ (own /\ done = 2)]
  /\ RunOn(c, Labelled(c))
  /\ UNCHANGED <<addonSecret, ako>>

\* Mutant: "workload cluster existing" is returned as an error.
MutantKeptIsError(c) ==
  /\ obj.state = "deleting" /\ ~snap[c].deleting
  /\ RunOn(c, Labelled(c))
  /\ again' = TRUE
  /\ UNCHANGED <<sideVars, faults>>

\* ReconcileAviUserDelete on a Cluster that is not being deleted.
AviUserKept(c) ==
  /\ obj.state = "deleting" /\ ~snap[c].deleting
  /\ RunOn(c, Labelled(c))
  /\ UNCHANGED <<sideVars, faults, again>>

CleaningUser(c) ==
  [Labelled(c) EXCEPT !.user = IF @ = "absent" THEN "false" ELSE @]

\* ReconcileAviUserDelete on a Cluster being deleted: AKO is not done yet.
AviUserWaits(c) ==
  /\ snap[c].deleting /\ snap[c].res # "true"
  /\ RunOn(c, CleaningUser(c))
  /\ again' = TRUE
  /\ UNCHANGED <<sideVars, faults>>

\* Mutants: the condition's presence instead of its status; the customer's
\* credentials are not told apart.
MutantHasForIsTrue(c) ==
  c \in Management \/ CustomerManaged \/ snap[c].user # "absent"
MutantForgetsCustomer(c) == c \in Management \/ snap[c].user = "true"

\* No account of the operator's to delete, or it was deleted before.
NothingToDelete(c) ==
  c \in Management \/ CustomerManaged \/ snap[c].user = "true"

AviUserDeleteSkipped(c) ==
  /\ snap[c].deleting /\ snap[c].res = "true"
  /\ NothingToDelete(c)
  /\ RunOn(c, [CleaningUser(c) EXCEPT !.user = "true"])
  /\ UNCHANGED <<sideVars, faults, again>>

\* UserDeleteByName returns an error for a name no account has.  The name is
\* read from the Secret, and is empty when the Secret is missing.
UserDeleteByNameFinds(c) == mcSecret[c] /\ aviUser[c]

\* Mutant: the condition is set before the Secret is deleted.
MutantConditionFirst(c) ==
  /\ snap[c].deleting /\ snap[c].res = "true"
  /\ ~NothingToDelete(c)
  /\ UserDeleteByNameFinds(c)
  /\ \E done \in 0..2 :
       /\ Outcome("avi", done = 2) /\ CountFault(done = 2)
       /\ again' = (again \/ done < 2)
       /\ aviUser' = [aviUser EXCEPT ![c] = @ /\ done = 0]
       /\ mcSecret' = [mcSecret EXCEPT ![c] = @ /\ done < 2]
       /\ RunOn(c, IF done > 0 THEN [CleaningUser(c) EXCEPT !.user = "true"]
                               ELSE CleaningUser(c))
  /\ UNCHANGED <<addonSecret, ako>>

\* Mutant: the account goes whether AKO has finished with it or not.
MutantAccountFirst(c) ==
  /\ snap[c].deleting
  /\ ~NothingToDelete(c)
  /\ UserDeleteByNameFinds(c)
  /\ aviUser' = [aviUser EXCEPT ![c] = FALSE]
  /\ mcSecret' = [mcSecret EXCEPT ![c] = FALSE]
  /\ RunOn(c, [CleaningUser(c) EXCEPT !.user = "true"])
  /\ UNCHANGED <<addonSecret, ako, faults, again>>

\* reconcileAviUserDelete: first the account and then the Secret.
AviUserDelete(c) ==
  /\ snap[c].deleting /\ snap[c].res = "true"
  /\ ~NothingToDelete(c)
  /\ UserDeleteByNameFinds(c)
  /\ \E done \in 0..2 :
       /\ Outcome("avi", done = 2) /\ CountFault(done = 2)
       /\ again' = (again \/ done < 2)
       /\ aviUser' = [aviUser EXCEPT ![c] = @ /\ done = 0]
       /\ mcSecret' = [mcSecret EXCEPT ![c] = @ /\ done < 2]
       /\ RunOn(c, IF done = 2 THEN [CleaningUser(c) EXCEPT !.user = "true"]
                               ELSE CleaningUser(c))
  /\ UNCHANGED <<addonSecret, ako>>

AviUserDeleteFails(c) ==
  /\ snap[c].deleting /\ snap[c].res = "true"
  /\ ~NothingToDelete(c)
  /\ ~UserDeleteByNameFinds(c)
  /\ RunOn(c, CleaningUser(c))
  /\ again' = TRUE
  /\ UNCHANGED <<sideVars, faults>>

\* One turn of the loop of ReconcileClustersPhases in reconcileAVI[Delete].
RunAVI(c) ==
  /\ pc = "avi" /\ cur = NoCluster /\ c \in todo
  /\ \/ AviUserNormal(c) \/ AviUserKept(c) \/ AviUserWaits(c)
     \/ AviUserDeleteSkipped(c) \/ AviUserDelete(c) \/ AviUserDeleteFails(c)
  /\ UNCHANGED <<apiVars, cacheVars, pc, obj, snap, todo, cc>>

\* ReconcileAddonSecret: the user's Secret has to be there, and a Cluster
\* whose IP family is refused gets no add-on Secret and no error.
AddonSecretOn(c) ==
  \E ok \in BOOLEAN :
    /\ Outcome("addonSecret", ok) /\ CountFault(ok)
    /\ again' = (again \/ ~ok \/ ~mcSecret[c])
    /\ addonSecret' = [addonSecret EXCEPT
         ![c] = @ \/ (ok /\ mcSecret[c] /\ c \in IPFamilyValid)]

\* ReconcileAddonSecretDelete.  The Secret may outlive a failed deletion.
AddonSecretOff(c, ok) ==
  /\ Outcome("addonDelete", ok)
  /\ addonSecret' = [addonSecret EXCEPT ![c] = @ /\ ~ok]

\* reconcileClusters on a live Cluster: addClusterFinalizer and
\* ReconcileAddonSecret.
AdoptCluster(c) ==
  /\ obj.state = "live" /\ ~snap[c].deleting
  /\ AddonSecretOn(c)
  /\ RunOn(c, [Labelled(c) EXCEPT
       !.fins = IF c \in Management THEN @ ELSE @ \cup {"akoo"}])
  /\ UNCHANGED <<mcSecret, aviUser, ako>>

\* Mutant: the whole list of finalizers is cleared.
MutantClearFinalizers(o) == [o EXCEPT !.fins = {}]

RemoveFinalizer(o) == [o EXCEPT !.fins = @ \ {"akoo"}]

\* reconcileClustersDelete on a live Cluster: removeClusterFinalizer and
\* ReconcileAddonSecretDelete.
AbandonCluster(c) ==
  /\ obj.state = "deleting" /\ ~snap[c].deleting
  /\ \E ok \in BOOLEAN :
       AddonSecretOff(c, ok) /\ CountFault(ok) /\ again' = (again \/ ~ok)
  /\ RunOn(c, RemoveFinalizer(Labelled(c)))
  /\ UNCHANGED <<mcSecret, aviUser, ako>>

\* What cleanup does to AKO: deleteConfig becomes "true".
AfterDeleteConfig(a) ==
  CASE a = "running"    -> "cleaning"
    [] a = "installing" -> "finished"
    [] OTHER            -> a

\* Mutant: status "Started" counts as finished.
MutantStartedIsFinished(a) == a \in {"none", "cleaning", "finished"}

\* CleanupFinished; the missing data-values Secret counts as finished too.
CleanupFinished(a) == a \in {"none", "finished"}

\* Mutant: the user's condition is not asked for.
MutantResourcesSuffice(o, finished) == "akoo" \in o.fins /\ finished

\* ReconcileDelete's test: AVI's resources are gone, and so is the user.
Releasable(o, finished) == "akoo" \in o.fins /\ finished /\ o.user = "true"

\* cleanup reaches the workload cluster unless the condition is already true.
AsksAko(o) == "akoo" \in o.fins /\ o.res # "true"

\* The copy that ReconcileDelete leaves.
AfterReconcileDelete(o, finished) ==
  [(IF Releasable(o, finished) THEN RemoveFinalizer(o) ELSE o) EXCEPT
     !.res = IF ~AsksAko(o) THEN @ ELSE IF finished THEN "true" ELSE "false"]

\* A Cluster being deleted, whether the ADC is or not:
\* ReconcileAddonSecretDelete and then, whatever it returned, ReconcileDelete
\* with cleanup.  told is "deleteConfig was set", ok "and no call to the
\* workload cluster failed".
ReleaseCluster(c) ==
  /\ snap[c].deleting
  /\ \E okAddon, told, ok, finished \in BOOLEAN :
       LET o == Labelled(c)
       IN /\ AddonSecretOff(c, okAddon)
          /\ ok => told
          /\ Outcome("remote", ok) /\ (~ok => AsksAko(o))
          /\ CountFault(okAddon /\ ok)
          /\ ako' = [ako EXCEPT
               ![c] = IF AsksAko(o) /\ told THEN AfterDeleteConfig(@) ELSE @]
          /\ finished <=> o.res = "true" \/ (ok /\ CleanupFinished(ako'[c]))
          /\ again' = (again \/ ~okAddon
                         \/ ("akoo" \in o.fins /\ ~Releasable(o, finished)))
          /\ RunOn(c, AfterReconcileDelete(o, finished))
  /\ UNCHANGED <<mcSecret, aviUser>>

\* One turn of the loop of ReconcileClustersPhases in reconcileClusters[Delete].
RunClusters(c) ==
  /\ pc = "clusters" /\ cur = NoCluster /\ c \in todo
  /\ AdoptCluster(c) \/ AbandonCluster(c) \/ ReleaseCluster(c)
  /\ UNCHANGED <<apiVars, cacheVars, pc, obj, snap, todo, cc>>

\* The end of the turn.  An error of the patch is logged and dropped.
PatchCluster(c) ==
  /\ cur = c
  /\ \E okStatus, okMeta \in BOOLEAN :
       LET o == PatchedStatus(cluster[c], snap[c], work, okStatus)
       IN /\ Outcome("patchStatus", okStatus) /\ Outcome("patchMeta", okMeta)
          /\ CountFault(okStatus /\ okMeta)
          /\ cluster' = [cluster EXCEPT ![c] = PatchedMeta(o, snap[c], work, okMeta)]
  /\ cur' = NoCluster /\ work' = Blank
  /\ snap' = [snap EXCEPT ![c] = [Blank EXCEPT !.deleting = snap[c].deleting]]
  /\ todo' = todo \ {c}
  /\ UNCHANGED <<adc, facts, edits, cacheVars, sideVars, pc, obj, again, cc>>

EndPhase ==
  /\ pc \in {"avi", "clusters"} /\ todo = {}
  /\ pc' = PhaseAfter(pc)
  /\ UNCHANGED <<apiVars, cacheVars, sideVars, faults, obj, again, snap,
                 todo, cur, work, cc>>

\* Mutant: the finalizer goes even after an error.
MutantIgnoresErrors == obj.state = "live"

\* The finalizer the ADC's copy has when Reconcile returns.
FinalizerAtExit == obj.state = "live" \/ again

\* Reconcile's deferred patch of the ADC.
PatchADC ==
  /\ pc = "patchADC"
  /\ \E ok \in BOOLEAN :
       /\ Outcome("patchADC", ok) /\ CountFault(ok)
       /\ adc' = IF ~ok \/ FinalizerAtExit = obj.fin \/ adc.state = "absent"
                   THEN adc
                 ELSE IF FinalizerAtExit THEN [adc EXCEPT !.fin = TRUE]
                 ELSE NoADC
  /\ pc' = "idle" /\ obj' = NoADC
  /\ snap' = [c \in Clusters |-> Blank]
  /\ again' = FALSE
  /\ UNCHANGED <<cluster, facts, edits, cacheVars, sideVars, todo, cur, work, cc>>

\* A restart of the operator: everything in memory is lost, and the informers
\* list afresh.
Crash ==
  /\ Outcome("crash", FALSE) /\ CountFault(FALSE)
  /\ pc' = "idle" /\ obj' = NoADC
  /\ again' = FALSE
  /\ snap' = [c \in Clusters |-> Blank]
  /\ todo' = {} /\ cur' = NoCluster /\ work' = Blank
  /\ cc' = NoReconcile
  /\ adcCache' = adc /\ clusterCache' = cluster /\ factsCache' = facts
  /\ UNCHANGED <<apiVars, sideVars>>

-----------------------------------------------------------------------------
(***************************************************************************)
(* The Cluster controller.                                                 *)
(***************************************************************************)

\* GetAKODeploymentConfigForCluster: the ADC matches, being deleted or not.
MatchedADC(c) == adcCache.state # "absent" /\ factsCache[c].matches

\* Mutant: the label stays.
MutantKeepsLabel(o, matched) ==
  IF matched THEN [o EXCEPT !.avi = TRUE] ELSE RemoveFinalizer(o)

\* ApplyClusterLabel, or RemoveClusterLabel and RemoveFinalizer.
Reconciled(o, matched) ==
  IF matched THEN [o EXCEPT !.avi = TRUE]
             ELSE [RemoveFinalizer(o) EXCEPT !.avi = FALSE]

\* Reconcile reads the Cluster and the ADCs; without a difference there is
\* nothing to patch.
ReconcileCluster(c) ==
  /\ cc.c = NoCluster
  /\ ~Gone(clusterCache[c])
  /\ LBProvider[c] = "yes"
  /\ LET o == Meta(clusterCache[c])
     IN /\ Reconciled(o, MatchedADC(c)) # o
        /\ cc' = [c |-> c, before |-> o, after |-> Reconciled(o, MatchedADC(c))]
  /\ UNCHANGED <<apiVars, cacheVars, sideVars, faults, workerVars>>

\* Its deferred patch.
PatchReconciled(c) ==
  /\ cc.c = c
  /\ \E ok \in BOOLEAN :
       /\ Outcome("patchMeta", ok) /\ CountFault(ok)
       /\ cluster' = [cluster EXCEPT ![c] = PatchedMeta(@, cc.before, cc.after, ok)]
  /\ cc' = NoReconcile
  /\ UNCHANGED <<adc, facts, edits, cacheVars, sideVars, workerVars>>

-----------------------------------------------------------------------------
(***************************************************************************)
(* The informer cache, users and the external systems.                     *)
(***************************************************************************)

SyncADC ==
  /\ adcCache # adc
  /\ adcCache' = adc
  /\ UNCHANGED <<apiVars, clusterCache, factsCache, sideVars, faults, workerVars, cc>>

SyncCluster(c) ==
  /\ <<clusterCache[c], factsCache[c]>> # <<cluster[c], facts[c]>>
  /\ clusterCache' = [clusterCache EXCEPT ![c] = cluster[c]]
  /\ factsCache' = [factsCache EXCEPT ![c] = facts[c]]
  /\ UNCHANGED <<apiVars, adcCache, sideVars, faults, workerVars, cc>>

\* The webhook's ValidateDelete refuses the deletion of the management ADC.
DeleteADC ==
  /\ "adc" \in Deletions
  /\ adc.state = "live" /\ ~ManagementADC
  /\ adc' = IF adc.fin THEN [adc EXCEPT !.state = "deleting"] ELSE NoADC
  /\ UNCHANGED <<cluster, facts, edits, cacheVars, sideVars, faults, workerVars, cc>>

\* A deletion, and the end of Cluster API's own.
DeleteCluster(c) ==
  /\ "cluster" \in Deletions
  /\ ~cluster[c].deleting
  /\ cluster' = [cluster EXCEPT ![c].deleting = TRUE]
  /\ UNCHANGED <<adc, facts, edits, cacheVars, sideVars, faults, workerVars, cc>>

CapiRemovesFinalizer(c) ==
  /\ cluster[c].deleting /\ "capi" \in cluster[c].fins
  /\ cluster' = [cluster EXCEPT ![c].fins = @ \ {"capi"}]
  /\ UNCHANGED <<adc, facts, edits, cacheVars, sideVars, faults, workerVars, cc>>

\* The bounded changes of a live Cluster: its labels and readiness, and the
\* arrival of Cluster API's finalizer.
Edit(c, o, f) ==
  /\ ~cluster[c].deleting /\ edits < MaxEdits
  /\ edits' = edits + 1
  /\ cluster' = [cluster EXCEPT ![c] = o]
  /\ facts' = [facts EXCEPT ![c] = f]
  /\ UNCHANGED <<adc, cacheVars, sideVars, faults, workerVars, cc>>

Relabel(c) == Edit(c, cluster[c], [facts[c] EXCEPT !.matches = ~@])
ReadyChanges(c) == Edit(c, cluster[c], [facts[c] EXCEPT !.ready = ~@])
CapiAddsFinalizer(c) ==
  /\ "capi" \notin cluster[c].fins
  /\ Edit(c, [cluster[c] EXCEPT !.fins = @ \cup {"capi"}], facts[c])

\* The Secret of a Cluster's account is owned by the ADC.
CollectSecret(c) ==
  /\ adc.state = "absent" /\ mcSecret[c] /\ c \notin Management
  /\ mcSecret' = [mcSecret EXCEPT ![c] = FALSE]
  /\ UNCHANGED <<apiVars, cacheVars, addonSecret, aviUser, ako, faults,
                 workerVars, cc>>

AkoStep(c, a) ==
  /\ ~Gone(cluster[c])
  /\ ako' = [ako EXCEPT ![c] = a]
  /\ UNCHANGED <<apiVars, cacheVars, mcSecret, addonSecret, aviUser, faults,
                 workerVars, cc>>

\* The add-on manager installs AKO while there is an add-on Secret, and
\* uninstalls it without one, but not from a Cluster that is being deleted
\* (annotation skip-packageinstall-deletion).
InstallAddon(c) ==
  addonSecret[c] /\ ako[c] = "none" /\ AkoStep(c, "installing")

UninstallAddon(c) ==
  /\ ~addonSecret[c] /\ ~cluster[c].deleting /\ ako[c] # "none"
  /\ AkoStep(c, "none")

StartAko(c) == ako[c] = "installing" /\ AkoStep(c, "running")
FinishAko(c) == ako[c] = "cleaning" /\ AkoStep(c, "finished")

-----------------------------------------------------------------------------
AdcWorker ==
  \/ StartReconcile \/ ListAVI \/ ListClusters \/ EndPhase \/ PatchADC
  \/ \E c \in Clusters : RunAVI(c) \/ RunClusters(c) \/ PatchCluster(c)

ClusterWorker ==
  \E c \in Clusters : ReconcileCluster(c) \/ PatchReconciled(c)

Environment ==
  \/ SyncADC \/ DeleteADC
  \/ \E c \in Clusters :
       \/ SyncCluster(c) \/ DeleteCluster(c) \/ Relabel(c) \/ ReadyChanges(c)
       \/ CapiAddsFinalizer(c) \/ CapiRemovesFinalizer(c) \/ CollectSecret(c)
       \/ InstallAddon(c) \/ UninstallAddon(c) \/ StartAko(c) \/ FinishAko(c)

Next == AdcWorker \/ ClusterWorker \/ Crash \/ Environment

Spec == Init /\ [][Next]_vars

\* The workers, the informers, Cluster API, the add-on manager and AKO keep
\* running.  The work queue of a controller is first-in first-out and every
\* object is queued again on each resync, so no Cluster is passed over for ever.
Fairness ==
  /\ WF_vars(AdcWorker)
  /\ WF_vars(SyncADC)
  /\ \A c \in Clusters :
       /\ SF_vars(ReconcileCluster(c)) /\ WF_vars(PatchReconciled(c))
       /\ WF_vars(SyncCluster(c)) /\ WF_vars(CapiRemovesFinalizer(c))
       /\ WF_vars(InstallAddon(c)) /\ WF_vars(StartAko(c)) /\ WF_vars(FinishAko(c))

FairSpec == Spec /\ Fairness

-----------------------------------------------------------------------------
(***************************************************************************)
(* Properties.                                                             *)
(***************************************************************************)

\* Has the operator an account of its own for Cluster c?
OwnAccount(c) == c \notin Management /\ ~CustomerManaged

AccountGone(c) == OwnAccount(c) => ~aviUser[c] /\ ~mcSecret[c]

\* AKO is not there, or has deleted its objects in the AVI controller.
AkoGone(c) == ako[c] \in {"none", "finished"}

\* AviUserCleanupSucceeded is never True while the account of the Cluster, or
\* the Secret with its password, exists: reconcileAviUserDelete sets it last,
\* and no later reconcileAviUserNormal, from whatever copy of the Cluster,
\* creates the account again.
UserCleanupSound ==
  \A c \in Clusters : cluster[c].user = "true" => AccountGone(c)

\* AviResourceCleanupSucceeded is never True while AKO is at work or the
\* add-on Secret, from which it would be installed again, exists (cleanup,
\* after ReconcileAddonSecretDelete).
ResourceCleanupSound ==
  \A c \in Clusters : cluster[c].res = "true" => AkoGone(c) /\ ~addonSecret[c]

\* The ADC controller takes its finalizer off a Cluster it saw being deleted
\* only when AKO has finished and the account is gone (ReconcileDelete).
ReleasedOnlyClean ==
  [][\A c \in Clusters :
       (/\ cur = c /\ cur' # c /\ snap[c].deleting
        /\ "akoo" \in cluster[c].fins /\ "akoo" \notin cluster'[c].fins)
       => AkoGone(c) /\ AccountGone(c)]_vars

\* Patching a Cluster it saw being deleted, the ADC controller never drops
\* another controller's finalizer, although it writes the whole list from a
\* copy that may be old.
OthersFinalizersKept ==
  [][\A c \in Clusters :
       (cur = c /\ cur' # c /\ snap[c].deleting /\ "capi" \in cluster[c].fins)
       => "capi" \in cluster'[c].fins]_vars

\* The ADC's finalizer goes, and with it the ADC, only after every Cluster
\* being deleted that its last list returned has been cleaned up, although
\* failed patches of Clusters are dropped (reconcileDelete).
AdcOutlivesCleanup ==
  [][(adc.state = "deleting" /\ adc'.state = "absent") =>
       \A c \in Clusters : snap[c].deleting => AkoGone(c) /\ AccountGone(c)]_vars

\* A Cluster that stays ready and selected by a live ADC ends up, for good,
\* with the label, the finalizer, an account and a running AKO, whatever was
\* lost, refused or overwritten before (reconcileNormal).
Converges ==
  \A c \in Clusters :
    <>[](/\ adc.state = "live" /\ facts[c].matches /\ facts[c].ready
         /\ ~cluster[c].deleting)
    => <>[](/\ cluster[c].avi /\ "akoo" \in cluster[c].fins
            /\ mcSecret[c] /\ aviUser[c] /\ ako[c] = "running")

\* A Cluster that no ADC selects any more ends up without label and finalizer
\* (the Cluster controller's Reconcile), although the ADC controller may still
\* be writing both from an old copy.
LetGo ==
  \A c \in Clusters :
    <>[](adc.state = "absent" \/ ~facts[c].matches)
    => <>[](Gone(cluster[c]) \/ (~cluster[c].avi /\ "akoo" \notin cluster[c].fins))

\* The account of a Cluster that is deleted under a live ADC goes
\* (ReconcileAviUserDelete once cleanup has finished).
AccountReclaimed ==
  \A c \in Clusters :
    <>[](adc.state = "live" /\ facts[c].matches)
    => ((cluster[c].deleting /\ "akoo" \in cluster[c].fins) ~> ~aviUser[c])

\* A deleted Cluster is released once AKO has finished its cleanup.
ReleasedOnceFinished ==
  \A c \in Clusters :
    (cluster[c].deleting /\ cluster[c].res = "true")
    ~> "akoo" \notin cluster[c].fins

\* A deleted Cluster is released in the end, whatever was lost before.
DeletionCompletes ==
  \A c \in Clusters : cluster[c].deleting ~> "akoo" \notin cluster[c].fins

\* A deleted ADC goes in the end: no Cluster holds it up for ever.
AdcDeletionCompletes == adc.state = "deleting" ~> adc.state = "absent"

\* The clean-up protocol's view of Cluster c.
StageOf(c) ==
  IF cluster[c].user = "true" THEN "done"
  ELSE IF cluster[c].res = "true" THEN "drained"
  ELSE IF cluster[c].deleting THEN "deleting" ELSE "serving"
AccountOf(c) == OwnAccount(c) /\ aviUser[c]
SecretOf(c) == OwnAccount(c) /\ mcSecret[c]
AkoOf(c) == ~AkoGone(c) \/ addonSecret[c]

Protocol ==
  INSTANCE CleanupProtocol WITH
    stage <- [c \in Clusters |-> StageOf(c)],
    account <- [c \in Clusters |-> AccountOf(c)],
    secret <- [c \in Clusters |-> SecretOf(c)],
    ako <- [c \in Clusters |-> AkoOf(c)]

\* The lifecycle implements the clean-up protocol: the account stays while AKO
\* may need it, each report is true when it is made, and nothing is created
\* after it, although the account and AKO are cleaned up by different phases
\* from different copies of the Cluster (ReconcileAviUserDelete, cleanup).
ImplementsProtocol == Protocol!Spec

\* removeClusterFinalizer takes effect only on Clusters not being deleted.
AbandonsOnlyLive ==
  [][\A c \in Clusters :
       (/\ cur = c /\ cur' # c /\ ~snap[c].deleting
        /\ "akoo" \in cluster[c].fins /\ "akoo" \notin cluster'[c].fins)
       => ~cluster[c].deleting]_vars

-----------------------------------------------------------------------------
(***************************************************************************)
(* The inductive invariant behind the safety properties.  A condition that *)
(* is True in ANY copy of a Cluster (server, cache, list, memory) already  *)
(* implies what it promises, and that every copy the ADC worker can still  *)
(* act on shows the deletion, so that nothing is created again.            *)
(***************************************************************************)

UserDone(c) ==
  \/ cluster[c].user = "true" \/ clusterCache[c].user = "true"
  \/ snap[c].user = "true" \/ (cur = c /\ work.user = "true")

ResDone(c) ==
  \/ cluster[c].res = "true" \/ clusterCache[c].res = "true"
  \/ snap[c].res = "true" \/ (cur = c /\ work.res = "true")

SeenDeleting(c) ==
  cluster[c].deleting /\ clusterCache[c].deleting /\ (c \in todo => snap[c].deleting)

\* Older copies never show a deletion that newer ones do not, and an object
\* being deleted only loses finalizers.
CopiesInv ==
  /\ pc \notin {"avi", "clusters"} => todo = {}
  /\ cur # NoCluster => cur \in todo
  /\ \A c \in Clusters :
       /\ clusterCache[c].deleting =>
            cluster[c].deleting /\ cluster[c].fins \subseteq clusterCache[c].fins
       /\ snap[c].deleting => clusterCache[c].deleting
       /\ (c \in todo /\ snap[c].deleting) => clusterCache[c].fins \subseteq snap[c].fins

UserInv ==
  \A c \in Clusters : UserDone(c) => AccountGone(c) /\ SeenDeleting(c)

\* ReconcileDelete runs even if ReconcileAddonSecretDelete failed, so what it
\* finds in the workload cluster is final only if that never happens.
AddonDeletionReliable == "addonDelete" \notin FaultKinds

ResInv ==
  AddonDeletionReliable =>
    \A c \in Clusters : ResDone(c) => AkoGone(c) /\ ~addonSecret[c] /\ SeenDeleting(c)

\* What the ADC worker is about to write on a Cluster it saw being deleted.
WorkInv ==
  \A c \in Clusters :
    (cur = c /\ snap[c].deleting) =>
      \/ work.fins = snap[c].fins
      \/ /\ work.fins = snap[c].fins \ {"akoo"}
         /\ snap[c].user = "true" /\ work.res = "true"

\* A reconcile of a deleted ADC that nothing has held up so far.
AdcInv ==
  (obj.state # "live" /\ pc \in {"avi", "patchADC"} /\ ~again) =>
    \A c \in Clusters :
      (snap[c].deleting /\ (c \notin todo \/ cur = c)) =>
        AccountGone(c) /\ (AddonDeletionReliable => AkoGone(c) /\ ~addonSecret[c])

\* A condition is set to False once, and then to True for good.
Forward(from, to) ==
  to = from \/ to = "true" \/ (from = "absent" /\ to = "false")

\* A True in an older copy is still there in the API server, whatever was
\* patched from other copies since, and the user's condition is True in no
\* copy before the resources' is in the API server (ReconcileAviUserDelete,
\* ReconcileDelete and the patch helper's conflicts).
OrderInv ==
  /\ \A c \in Clusters :
       /\ (clusterCache[c].res = "true" \/ snap[c].res = "true") => cluster[c].res = "true"
       /\ UserDone(c) => cluster[c].res = "true"
  /\ cur # NoCluster =>
       /\ Forward(snap[cur].res, work.res)
       /\ Forward(snap[cur].user, work.user)

\* The invariant as a whole: what every copy of a Cluster and every step in
\* flight may claim about the cleanup (reconcileAVI, reconcileClusters and
\* their deletions, with the informer cache between them).
CleanupInv == CopiesInv /\ UserInv /\ ResInv /\ WorkInv /\ AdcInv
=============================================================================
