----------------------- MODULE ClusterRefinementProofs -----------------------
(***************************************************************************)
(* ClusterLifecycle implements CleanupProtocol.  On top of the clean-up    *)
(* invariant the proof needs OrderInv: a condition that is True in the API *)
(* server is never patched back from an older copy, and the resources'     *)
(* condition comes first.                                                  *)
(***************************************************************************)
EXTENDS ClusterLifecycleProofs

\* The conditions under the two requests of the patch helper.
LEMMA PatchForward ==
  ASSUME TypeOK, CleanupInv, OrderInv, NEW c \in Clusters, PatchCluster(c)
  PROVE  /\ cluster[c].res = "true" => cluster'[c].res = "true"
         /\ cluster[c].user = "true" => cluster'[c].user = "true"
<1>1. /\ cluster[c] \in ClusterObj /\ snap[c] \in ClusterObj /\ work \in ClusterObj
  BY DEF TypeOK
<1>2. /\ cur = c /\ c # NoCluster
      /\ Forward(snap[c].res, work.res) /\ Forward(snap[c].user, work.user)
  BY ConstantsAssumption DEF PatchCluster, OrderInv
<1>3. PICK ok1 \in BOOLEAN, ok2 \in BOOLEAN :
        cluster' = [cluster EXCEPT ![c] =
          PatchedMeta(PatchedStatus(cluster[c], snap[c], work, ok1), snap[c], work, ok2)]
  BY Zenon DEF PatchCluster
<1> DEFINE o == PatchedStatus(cluster[c], snap[c], work, ok1)
           p == PatchedMeta(o, snap[c], work, ok2)
<1>4. o \in ClusterObj /\ p = PatchedMeta(o, snap[c], work, ok2)
  BY Zenon, <1>1, PatchedStatusType
<1>5. cluster'[c] = p
  BY Zenon, <1>3 DEF TypeOK
<1>6. /\ cluster[c].res = "true" => o.res = "true"
      /\ cluster[c].user = "true" => o.user = "true"
  BY <1>1, <1>2 DEF PatchedStatus, PatchConditions, CondConflict, Forward, ClusterObj
<1> HIDE DEF o, p
<1>7. p.user = o.user /\ p.res = o.res
  BY <1>4, PatchedFacts
<1> QED
  BY <1>5, <1>6, <1>7

-----------------------------------------------------------------------------
(***************************************************************************)
(* OrderInv.                                                               *)
(***************************************************************************)

LEMMA InitOrder == Init => OrderInv
<1> SUFFICES ASSUME Init PROVE OrderInv
  OBVIOUS
<1>1. cur = NoCluster /\ NoCluster \notin Clusters /\ clusterCache = cluster
  BY ConstantsAssumption DEF Init
<1>2. \A c \in Clusters : /\ snap[c] = Blank
                          /\ cluster[c] \in {Blank, [Blank EXCEPT !.fins = {"capi"}]}
  BY Zenon DEF Init
<1>3. \A o \in {Blank, [Blank EXCEPT !.fins = {"capi"}]} :
        o.user # "true" /\ o.res # "true"
  BY DEF Blank
<1> QED
  BY Zenon, <1>1, <1>2, <1>3 DEF OrderInv, UserDone

\* A step that leaves the conditions in the API server, and the copies but
\* for refreshing them, as they were.
LEMMA CopyOrder ==
  ASSUME TypeOK, OrderInv,
         \A d \in Clusters :
           /\ cluster'[d].user = cluster[d].user /\ cluster'[d].res = cluster[d].res
           /\ clusterCache'[d] \in {clusterCache[d], cluster[d]}
           /\ snap'[d] \in {snap[d], clusterCache[d], Blank},
         \/ cur' = NoCluster
         \/ UNCHANGED <<snap, cur, work>>
  PROVE  OrderInv'
<1>1. NoCluster \notin Clusters /\ Blank.user # "true" /\ Blank.res # "true"
  BY ConstantsAssumption DEF Blank
<1>2. \A d \in Clusters :
        /\ (clusterCache'[d].res = "true" \/ snap'[d].res = "true") => cluster'[d].res = "true"
        /\ UserDone(d)' => cluster'[d].res = "true"
  <2> TAKE d \in Clusters
  <2>1. /\ (clusterCache[d].res = "true" \/ snap[d].res = "true") => cluster[d].res = "true"
        /\ UserDone(d) => cluster[d].res = "true"
    BY DEF OrderInv
  <2>2. UserDone(d)' => UserDone(d)
    BY <1>1 DEF UserDone
  <2> QED
    BY <1>1, <2>1, <2>2
<1> QED
  BY <1>2 DEF OrderInv

\* A step of the ADC worker on Cluster c.
LEMMA RunOrder ==
  ASSUME TypeOK, OrderInv, NEW c \in Clusters, cur' = c,
         UNCHANGED <<cluster, clusterCache, snap>>,
         Forward(snap[c].res, work'.res), Forward(snap[c].user, work'.user),
         work'.user = "true" => snap[c].user = "true" \/ snap[c].res = "true"
  PROVE  OrderInv'
<1>1. \A d \in Clusters : UserDone(d)' => UserDone(d) \/ (d = c /\ snap[c].res = "true")
  BY DEF UserDone
<1> QED
  BY <1>1 DEF OrderInv

LEMMA AviOrder ==
  ASSUME TypeOK, OrderInv, NEW c \in Clusters, RunAVI(c)
  PROVE  OrderInv'
<1>1. /\ snap \in [Clusters -> ClusterObj] /\ snap[c] \in ClusterObj
      /\ UNCHANGED <<cluster, clusterCache, snap>>
  BY DEF RunAVI, TypeOK, apiVars, cacheVars
<1>2. /\ cur' = c
      /\ \/ work' \in {Labelled(c), CleaningUser(c)}
         \/ work' = [CleaningUser(c) EXCEPT !.user = "true"] /\ snap[c].res = "true"
  BY Zenon DEF RunAVI, RunOn, AviUserNormal, AviUserKept, AviUserWaits,
     AviUserDeleteSkipped, AviUserDelete, AviUserDeleteFails
<1>3. /\ Labelled(c).user = snap[c].user /\ Labelled(c).res = snap[c].res
      /\ CleaningUser(c).res = snap[c].res
      /\ [CleaningUser(c) EXCEPT !.user = "true"].res = snap[c].res
  BY Zenon, <1>1, CopyFacts
<1>4. /\ CleaningUser(c).user = IF snap[c].user = "absent" THEN "false" ELSE snap[c].user
      /\ [CleaningUser(c) EXCEPT !.user = "true"].user = "true"
  BY Zenon, <1>1, <1>3, LabelledType DEF CleaningUser, ClusterObj
<1>5. Forward(snap[c].res, work'.res) /\ Forward(snap[c].user, work'.user)
  BY Zenon, <1>2, <1>3, <1>4 DEF Forward
<1>6. work'.user = "true" => snap[c].user = "true" \/ snap[c].res = "true"
  BY <1>2, <1>3, <1>4
<1> QED
  BY <1>1, <1>2, <1>5, <1>6, RunOrder

LEMMA ClustersOrder ==
  ASSUME TypeOK, OrderInv, NEW c \in Clusters, RunClusters(c)
  PROVE  OrderInv'
<1>1. /\ snap \in [Clusters -> ClusterObj] /\ snap[c] \in ClusterObj
      /\ UNCHANGED <<cluster, clusterCache, snap>>
  BY DEF RunClusters, TypeOK, apiVars, cacheVars
<1>2. cur' = c
  BY DEF RunClusters, AdoptCluster, AbandonCluster, ReleaseCluster, RunOn
<1>3. /\ Labelled(c) \in ClusterObj
      /\ Labelled(c).user = snap[c].user /\ Labelled(c).res = snap[c].res
  BY Zenon, <1>1, LabelledType, CopyFacts
<1>4. work'.user = snap[c].user /\ Forward(snap[c].res, work'.res)
  <2>1. CASE AdoptCluster(c)
    <3>1. work' = [Labelled(c) EXCEPT
                     !.fins = IF c \in Management THEN @ ELSE @ \cup {"akoo"}]
      BY <2>1 DEF AdoptCluster, RunOn
    <3> QED
      BY <1>3, <3>1 DEF ClusterObj, Forward
  <2>2. CASE AbandonCluster(c)
    BY <1>1, <2>2, CopyFacts DEF AbandonCluster, RunOn, Forward
  <2>3. CASE ReleaseCluster(c)
    <3>1. PICK finished \in BOOLEAN : work' = AfterReconcileDelete(Labelled(c), finished)
      BY Zenon, <2>3 DEF ReleaseCluster, RunOn
    <3> DEFINE o == Labelled(c)
    <3>2. work' = AfterReconcileDelete(o, finished) /\ o \in ClusterObj
          /\ o.user = snap[c].user /\ o.res = snap[c].res
      BY <1>3, <3>1
    <3> HIDE DEF o
    <3>3. /\ work'.user = o.user
          /\ work'.res = IF ~AsksAko(o) THEN o.res ELSE IF finished THEN "true" ELSE "false"
      BY Zenon, <3>2, AfterDeleteFacts
    <3>4. AsksAko(o) => o.res \in {"absent", "false"}
      BY <3>2 DEF AsksAko, ClusterObj, Condition
    <3> QED
      BY <3>2, <3>3, <3>4 DEF Forward
  <2> QED
    BY <2>1, <2>2, <2>3 DEF RunClusters
<1> QED
  BY <1>1, <1>2, <1>4, RunOrder DEF Forward

LEMMA PatchOrder ==
  ASSUME TypeOK, CleanupInv, OrderInv, NEW c \in Clusters, PatchCluster(c)
  PROVE  OrderInv'
<1>1. /\ cur = c /\ cur' = NoCluster /\ NoCluster \notin Clusters
      /\ UNCHANGED clusterCache
  BY ConstantsAssumption DEF PatchCluster, cacheVars
<1>2. /\ snap'[c].user # "true" /\ snap'[c].res # "true"
      /\ \A d \in Clusters : d # c => snap'[d] = snap[d]
  BY DEF PatchCluster, TypeOK, Blank
<1>3. /\ \A d \in Clusters : d # c => cluster'[d] = cluster[d]
      /\ cluster'[c].user \in {cluster[c].user, work.user}
  BY Zenon, PatchWrites
<1>4. cluster[c].res = "true" => cluster'[c].res = "true"
  BY Zenon, PatchForward
<1>5. \A d \in Clusters : UserDone(d)' => UserDone(d)
  <2> TAKE d \in Clusters
  <2>1. CASE d = c
    BY <1>1, <1>2, <1>3, <2>1 DEF UserDone
  <2>2. CASE d # c
    BY <1>1, <1>2, <1>3, <2>2 DEF UserDone
  <2> QED
    BY <2>1, <2>2
<1>6. \A d \in Clusters : cluster[d].res = "true" => cluster'[d].res = "true"
  BY <1>3, <1>4
<1>7. \A d \in Clusters : snap'[d].res = "true" => snap[d].res = "true"
  BY <1>2
<1> QED
  BY <1>1, <1>5, <1>6, <1>7 DEF OrderInv

\* The steps of the other writers of a Cluster leave its conditions alone.
LEMMA OtherWriters ==
  ASSUME TypeOK, NEW c \in Clusters,
         \/ PatchReconciled(c) \/ DeleteCluster(c) \/ CapiRemovesFinalizer(c)
         \/ Relabel(c) \/ ReadyChanges(c) \/ CapiAddsFinalizer(c)
  PROVE  /\ \A d \in Clusters : d # c => cluster'[d] = cluster[d]
         /\ cluster'[c].user = cluster[c].user /\ cluster'[c].res = cluster[c].res
         /\ DeleteCluster(c) \/ cluster'[c].deleting = cluster[c].deleting
         /\ UNCHANGED <<clusterCache, snap, cur, work, sideVars>>
<1>0. cluster[c] \in ClusterObj /\ cluster \in [Clusters -> ClusterObj]
  BY DEF TypeOK
<1>1. UNCHANGED <<clusterCache, snap, cur, work, sideVars>>
  BY DEF PatchReconciled, DeleteCluster, CapiRemovesFinalizer, Relabel, ReadyChanges,
     CapiAddsFinalizer, Edit, cacheVars, workerVars
<1>2. CASE PatchReconciled(c)
  <2>1. PICK ok \in BOOLEAN :
          cluster' = [cluster EXCEPT ![c] = PatchedMeta(cluster[c], cc.before, cc.after, ok)]
    BY Zenon, <1>2 DEF PatchReconciled
  <2> DEFINE o == PatchedMeta(cluster[c], cc.before, cc.after, ok)
  <2>2. o = PatchedMeta(cluster[c], cc.before, cc.after, ok)
    OBVIOUS
  <2>3. cluster'[c] = o /\ \A d \in Clusters : d # c => cluster'[d] = cluster[d]
    BY Zenon, <1>0, <2>1
  <2> HIDE DEF o
  <2>4. o.deleting = cluster[c].deleting /\ o.user = cluster[c].user /\ o.res = cluster[c].res
    BY <1>0, <2>2, PatchedFacts
  <2> QED
    BY <1>1, <2>3, <2>4
<1>3. CASE DeleteCluster(c)
  BY Zenon, <1>0, <1>1, <1>3 DEF DeleteCluster, ClusterObj
<1>4. CASE CapiRemovesFinalizer(c)
  BY Zenon, <1>0, <1>1, <1>4 DEF CapiRemovesFinalizer, ClusterObj
<1>5. CASE Relabel(c) \/ ReadyChanges(c) \/ CapiAddsFinalizer(c)
  BY <1>0, <1>1, <1>5 DEF Relabel, ReadyChanges, CapiAddsFinalizer, Edit, ClusterObj
<1> QED
  BY <1>2, <1>3, <1>4, <1>5

LEMMA BetweenOrder ==
  ASSUME TypeOK, CleanupInv, OrderInv,
         StartReconcile \/ ListAVI \/ ListClusters \/ EndPhase \/ PatchADC \/ Crash
  PROVE  OrderInv'
<1>1. CASE StartReconcile \/ EndPhase
  BY <1>1, CopyOrder DEF StartReconcile, EndPhase, apiVars, cacheVars
<1>2. CASE ListAVI \/ ListClusters
  <2>1. cur = NoCluster /\ UNCHANGED <<cluster, clusterCache, cur>>
    BY Zenon, <1>2, ConstantsAssumption DEF ListAVI, ListClusters, CleanupInv, CopiesInv, apiVars,
       cacheVars
  <2>2. \A d \in Clusters : snap'[d] \in {snap[d], clusterCache[d], Blank}
    BY Zenon, <1>2 DEF ListAVI, ListClusters, ListInto
  <2> QED
    BY <2>1, <2>2, CopyOrder
<1>3. CASE PatchADC
  <2>1. cur = NoCluster /\ UNCHANGED <<cluster, clusterCache, cur>>
    BY <1>3, ConstantsAssumption DEF PatchADC, CleanupInv, CopiesInv, cacheVars
  <2>2. \A d \in Clusters : snap'[d] = Blank
    BY <1>3 DEF PatchADC
  <2> QED
    BY <2>1, <2>2, CopyOrder
<1>4. CASE Crash
  BY <1>4, CopyOrder DEF Crash, apiVars
<1> QED
  BY <1>1, <1>2, <1>3, <1>4

LEMMA NextOrder == TypeOK /\ CleanupInv /\ OrderInv /\ [Next]_vars => OrderInv'
<1> SUFFICES ASSUME TypeOK, CleanupInv, OrderInv, [Next]_vars PROVE OrderInv'
  OBVIOUS
<1>1. CASE AdcWorker
  BY <1>1, BetweenOrder, AviOrder, ClustersOrder, PatchOrder DEF AdcWorker
<1>2. ASSUME UNCHANGED <<cluster, clusterCache, snap, cur, work>> PROVE OrderInv'
  BY <1>2, CopyOrder
<1>3. ASSUME NEW c \in Clusters,
             \/ PatchReconciled(c) \/ DeleteCluster(c) \/ CapiRemovesFinalizer(c)
             \/ Relabel(c) \/ ReadyChanges(c) \/ CapiAddsFinalizer(c)
      PROVE  OrderInv'
  <2>1. /\ \A d \in Clusters : /\ cluster'[d].user = cluster[d].user
                               /\ cluster'[d].res = cluster[d].res
        /\ UNCHANGED <<clusterCache, snap, cur, work>>
    BY Zenon, <1>3, OtherWriters
  <2> QED
    BY <2>1, CopyOrder
<1>4. CASE ClusterWorker
  <2>1. ASSUME NEW c \in Clusters, ReconcileCluster(c) PROVE OrderInv'
    BY <1>2, <2>1 DEF ReconcileCluster, apiVars, cacheVars, workerVars
  <2> QED
    BY <1>3, <1>4, <2>1 DEF ClusterWorker
<1>5. CASE Crash
  BY <1>5, BetweenOrder
<1>6. CASE Environment
  <2>1. ASSUME NEW c \in Clusters, SyncCluster(c) PROVE OrderInv'
    <3>1. /\ \A d \in Clusters : clusterCache'[d] \in {clusterCache[d], cluster[d]}
          /\ UNCHANGED <<cluster, snap, cur, work>>
      BY <2>1 DEF SyncCluster, TypeOK, apiVars, workerVars
    <3> QED
      BY <3>1, CopyOrder
  <2>2. ASSUME NEW c \in Clusters,
               \/ CollectSecret(c) \/ InstallAddon(c) \/ UninstallAddon(c)
               \/ StartAko(c) \/ FinishAko(c)
        PROVE  OrderInv'
    BY <1>2, <2>2 DEF CollectSecret, InstallAddon, UninstallAddon, StartAko, FinishAko,
       AkoStep, apiVars, cacheVars, workerVars
  <2>3. CASE SyncADC \/ DeleteADC
    BY <1>2, <2>3 DEF SyncADC, DeleteADC, apiVars, cacheVars, workerVars
  <2> QED
    BY <1>3, <1>6, <2>1, <2>2, <2>3 DEF Environment
<1>7. CASE UNCHANGED vars
  BY <1>2, <1>7 DEF vars, apiVars, cacheVars, workerVars
<1> QED
  BY <1>1, <1>4, <1>5, <1>6, <1>7 DEF Next

\* Whatever older copies are still patched, a condition that is True in the API
\* server stays True, and the resources' condition is the first.
THEOREM OrderInvariant == Spec => []OrderInv
  BY TypeCorrect, CleanupInvariant, InitOrder, NextOrder, PTL DEF Spec

-----------------------------------------------------------------------------
(***************************************************************************)
(* The simulation.  The four functions the protocol's variables stand for  *)
(* are named, so that a step is compared with the protocol's point by      *)
(* point.                                                                  *)
(***************************************************************************)

\* The view of Cluster d does not change.
Same(d) == /\ StageOf(d)' = StageOf(d) /\ AccountOf(d)' = AccountOf(d)
           /\ SecretOf(d)' = SecretOf(d) /\ AkoOf(d)' = AkoOf(d)

LEMMA SameAll ==
  ASSUME \A d \in Clusters : Same(d)
  PROVE  UNCHANGED Protocol!vars
  BY DEF Same, Protocol!vars

LEMMA ViewType ==
  ASSUME NEW d \in Clusters
  PROVE  AccountOf(d) \in BOOLEAN /\ SecretOf(d) \in BOOLEAN /\ AkoOf(d) \in BOOLEAN
         /\ AccountOf(d)' \in BOOLEAN /\ SecretOf(d)' \in BOOLEAN /\ AkoOf(d)' \in BOOLEAN
  BY DEF AccountOf, SecretOf, AkoOf

LEMMA UseStep ==
  ASSUME NEW c \in Clusters, StageOf(c) \in {"serving", "deleting"},
         StageOf(c)' = StageOf(c), AccountOf(c) => AccountOf(c)',
         \A d \in Clusters : d # c => Same(d)
  PROVE  Protocol!Next
<1>1. Protocol!Use(c)
  <2>1. [d \in Clusters |-> StageOf(d)]' = [d \in Clusters |-> StageOf(d)]
    BY DEF Same
  <2>2. /\ [d \in Clusters |-> AccountOf(d)]' =
             [[d \in Clusters |-> AccountOf(d)] EXCEPT ![c] = AccountOf(c)']
        /\ [d \in Clusters |-> SecretOf(d)]' =
             [[d \in Clusters |-> SecretOf(d)] EXCEPT ![c] = SecretOf(c)']
        /\ [d \in Clusters |-> AkoOf(d)]' =
             [[d \in Clusters |-> AkoOf(d)] EXCEPT ![c] = AkoOf(c)']
    BY Zenon DEF Same
  <2> QED
    BY Zenon, <2>1, <2>2, ViewType DEF Protocol!Use
<1> QED
  BY <1>1 DEF Protocol!Next

LEMMA ReclaimStep ==
  ASSUME NEW c \in Clusters, StageOf(c) = "drained", StageOf(c)' = StageOf(c),
         AccountOf(c)' => AccountOf(c), SecretOf(c)' => SecretOf(c),
         AkoOf(c)' = AkoOf(c),
         \A d \in Clusters : d # c => Same(d)
  PROVE  Protocol!Next
<1>1. Protocol!Reclaim(c)
  <2>1. /\ [d \in Clusters |-> StageOf(d)]' = [d \in Clusters |-> StageOf(d)]
        /\ [d \in Clusters |-> AkoOf(d)]' = [d \in Clusters |-> AkoOf(d)]
    BY DEF Same
  <2>2. /\ [d \in Clusters |-> AccountOf(d)]' =
             [[d \in Clusters |-> AccountOf(d)] EXCEPT ![c] = AccountOf(c)']
        /\ [d \in Clusters |-> SecretOf(d)]' =
             [[d \in Clusters |-> SecretOf(d)] EXCEPT ![c] = SecretOf(c)']
    BY Zenon DEF Same
  <2> QED
    BY Zenon, <2>1, <2>2, ViewType DEF Protocol!Reclaim
<1> QED
  BY <1>1 DEF Protocol!Next

\* The steps that move a Cluster on to the next stage.
LEMMA AdvanceStep ==
  ASSUME NEW c \in Clusters,
         \A d \in Clusters : /\ d # c => Same(d)
                             /\ AccountOf(d)' = AccountOf(d) /\ SecretOf(d)' = SecretOf(d)
                             /\ AkoOf(d)' = AkoOf(d),
         \/ StageOf(c) = "serving" /\ StageOf(c)' = "deleting"
         \/ StageOf(c) = "deleting" /\ StageOf(c)' = "drained" /\ ~AkoOf(c)
         \/ /\ StageOf(c) = "drained" /\ StageOf(c)' = "done"
            /\ ~AccountOf(c) /\ ~SecretOf(c)
  PROVE  Protocol!Next
<1>1. /\ [d \in Clusters |-> AccountOf(d)]' = [d \in Clusters |-> AccountOf(d)]
      /\ [d \in Clusters |-> SecretOf(d)]' = [d \in Clusters |-> SecretOf(d)]
      /\ [d \in Clusters |-> AkoOf(d)]' = [d \in Clusters |-> AkoOf(d)]
      /\ [d \in Clusters |-> StageOf(d)]' =
           [[d \in Clusters |-> StageOf(d)] EXCEPT ![c] = StageOf(c)']
  BY Zenon DEF Same
<1>2. Protocol!Delete(c) \/ Protocol!ReportDrained(c) \/ Protocol!ReportDone(c)
  BY <1>1, Zenon DEF Protocol!Delete, Protocol!ReportDrained, Protocol!ReportDone, Protocol!Advance
<1> QED
  BY <1>2 DEF Protocol!Next

\* What the invariants say of a Cluster in each stage.
LEMMA StageFacts ==
  ASSUME AddonDeletionReliable, TypeOK, CleanupInv, OrderInv, NEW c \in Clusters
  PROVE  /\ StageOf(c) \in {"serving", "deleting", "drained", "done"}
         /\ StageOf(c) \in {"drained", "done"} =>
              ~AkoOf(c) /\ cluster[c].res = "true" /\ SeenDeleting(c)
         /\ StageOf(c) = "done" => ~AccountOf(c) /\ ~SecretOf(c)
         /\ cluster[c].res = "true" => StageOf(c) \in {"drained", "done"}
<1>1. cluster[c].res = "true" => AkoGone(c) /\ ~addonSecret[c] /\ SeenDeleting(c)
  BY DEF CleanupInv, ResInv, ResDone
<1>2. cluster[c].user = "true" => AccountGone(c) /\ cluster[c].res = "true"
  BY DEF CleanupInv, UserInv, OrderInv, UserDone
<1> QED
  BY <1>1, <1>2 DEF StageOf, AkoOf, AccountOf, SecretOf, AccountGone

LEMMA AviSimulates ==
  ASSUME AddonDeletionReliable, TypeOK, CleanupInv, OrderInv, NEW c \in Clusters, RunAVI(c)
  PROVE  [Protocol!Next]_(Protocol!vars)
<1>1. c \in todo /\ UNCHANGED <<cluster, addonSecret, ako>>
  BY DEF RunAVI, apiVars, sideVars, AviUserNormal, AviUserKept, AviUserWaits,
     AviUserDeleteSkipped, AviUserDelete, AviUserDeleteFails
<1>2. \A d \in Clusters : StageOf(d)' = StageOf(d) /\ AkoOf(d)' = AkoOf(d)
  BY <1>1 DEF StageOf, AkoOf, AkoGone
<1>3. CASE AviUserNormal(c)
  <2>1. \A d \in Clusters : d # c => Same(d)
    BY <1>2, <1>3 DEF AviUserNormal, Same, AccountOf, SecretOf, TypeOK
  <2>2. AccountOf(c) => AccountOf(c)'
    BY Zenon, <1>3 DEF AviUserNormal, AccountOf, OwnAccount, TypeOK
  <2>3. StageOf(c) \in {"serving", "deleting"}
    BY <1>1, <1>3, StageFacts DEF AviUserNormal, SeenDeleting
  <2> QED
    BY Zenon, <1>2, <2>1, <2>2, <2>3, UseStep
<1>4. CASE \/ AviUserKept(c) \/ AviUserWaits(c) \/ AviUserDeleteSkipped(c)
           \/ AviUserDeleteFails(c)
  <2>1. UNCHANGED <<aviUser, mcSecret>>
    BY <1>4 DEF AviUserKept, AviUserWaits, AviUserDeleteSkipped, AviUserDeleteFails, sideVars
  <2> QED
    BY <1>2, <2>1, SameAll DEF Same, AccountOf, SecretOf
<1>5. CASE AviUserDelete(c)
  <2>1. \A d \in Clusters : d # c => Same(d)
    BY <1>2, <1>5 DEF AviUserDelete, Same, AccountOf, SecretOf, TypeOK
  <2>2. (AccountOf(c)' => AccountOf(c)) /\ (SecretOf(c)' => SecretOf(c))
    BY Zenon, <1>5 DEF AviUserDelete, AccountOf, SecretOf, OwnAccount, TypeOK
  <2>3. cluster[c].res = "true"
    BY <1>5 DEF AviUserDelete, OrderInv
  <2>4. AccountOf(c)
    BY <1>5 DEF AviUserDelete, NothingToDelete, UserDeleteByNameFinds, AccountOf, OwnAccount
  <2>5. StageOf(c) = "drained"
    BY <2>3, <2>4, StageFacts
  <2> QED
    BY Zenon, <1>2, <2>1, <2>2, <2>5, ReclaimStep
<1> QED
  BY <1>3, <1>4, <1>5 DEF RunAVI

LEMMA ClustersSimulates ==
  ASSUME AddonDeletionReliable, TypeOK, CleanupInv, OrderInv, NEW c \in Clusters,
         RunClusters(c)
  PROVE  [Protocol!Next]_(Protocol!vars)
<1>1. c \in todo /\ UNCHANGED <<cluster, aviUser, mcSecret>>
  BY DEF RunClusters, apiVars, AdoptCluster, AbandonCluster, ReleaseCluster
<1>2. \A d \in Clusters : /\ StageOf(d)' = StageOf(d) /\ AccountOf(d)' = AccountOf(d)
                          /\ SecretOf(d)' = SecretOf(d)
  BY <1>1 DEF StageOf, AccountOf, SecretOf
<1>3. \A d \in Clusters : d # c => addonSecret'[d] = addonSecret[d] /\ ako'[d] = ako[d]
  <2>1. CASE AdoptCluster(c)
    BY <2>1 DEF AdoptCluster, AddonSecretOn, TypeOK
  <2>2. CASE AbandonCluster(c)
    BY <2>2 DEF AbandonCluster, AddonSecretOff, TypeOK
  <2>3. CASE ReleaseCluster(c)
    BY <2>3 DEF ReleaseCluster, AddonSecretOff, TypeOK
  <2> QED
    BY <2>1, <2>2, <2>3 DEF RunClusters
<1>4. \A d \in Clusters : d # c => Same(d)
  BY <1>2, <1>3 DEF Same, AkoOf, AkoGone
<1>5. CASE StageOf(c) \in {"serving", "deleting"}
  BY <1>2, <1>4, <1>5, UseStep
<1>6. CASE StageOf(c) \in {"drained", "done"}
  <2>1. ReleaseCluster(c) /\ ~AkoOf(c)
    BY <1>1, <1>6, StageFacts DEF RunClusters, AdoptCluster, AbandonCluster, SeenDeleting
  <2>2. PICK okAddon, told \in BOOLEAN :
          /\ addonSecret' = [addonSecret EXCEPT ![c] = @ /\ ~okAddon]
          /\ ako' = [ako EXCEPT
               ![c] = IF AsksAko(Labelled(c)) /\ told THEN AfterDeleteConfig(@) ELSE @]
    BY Zenon, <2>1 DEF ReleaseCluster, AddonSecretOff
  <2>3. ~addonSecret'[c]
    BY <2>1, <2>2 DEF AkoOf, TypeOK
  <2>4. AkoGone(c)'
    BY <2>1, <2>2 DEF AkoOf, AkoGone, AfterDeleteConfig, TypeOK
  <2>5. Same(c)
    BY <1>2, <2>1, <2>3, <2>4 DEF Same, AkoOf
  <2> QED
    BY <1>4, <2>5, SameAll
<1> QED
  BY <1>5, <1>6, StageFacts

LEMMA PatchSimulates ==
  ASSUME AddonDeletionReliable, TypeOK, CleanupInv, OrderInv, NEW c \in Clusters,
         PatchCluster(c)
  PROVE  [Protocol!Next]_(Protocol!vars)
<1>1. cur = c /\ UNCHANGED <<mcSecret, addonSecret, aviUser, ako>>
  BY DEF PatchCluster, sideVars
<1>2. /\ \A d \in Clusters : d # c => cluster'[d] = cluster[d]
      /\ cluster'[c].deleting = cluster[c].deleting
      /\ cluster'[c].user \in {cluster[c].user, work.user}
      /\ cluster'[c].res \in {cluster[c].res, work.res}
  BY Zenon, PatchWrites
<1>3. /\ cluster[c].res = "true" => cluster'[c].res = "true"
      /\ cluster[c].user = "true" => cluster'[c].user = "true"
  BY Zenon, PatchForward
<1>4. \A d \in Clusters : /\ AccountOf(d)' = AccountOf(d) /\ SecretOf(d)' = SecretOf(d)
                          /\ AkoOf(d)' = AkoOf(d)
  BY <1>1 DEF AccountOf, SecretOf, AkoOf, AkoGone
<1>5. \A d \in Clusters : d # c => Same(d)
  BY <1>2, <1>4 DEF Same, StageOf
<1>6. CASE cluster'[c].user = "true" /\ cluster[c].user # "true"
  <2>1. UserDone(c)
    BY <1>1, <1>2, <1>6 DEF UserDone
  <2>2. cluster[c].res = "true" /\ AccountGone(c)
    BY <2>1 DEF CleanupInv, UserInv, OrderInv
  <2>3. StageOf(c) = "drained" /\ StageOf(c)' = "done"
    BY <1>6, <2>2 DEF StageOf
  <2>4. ~AccountOf(c) /\ ~SecretOf(c)
    BY <2>2 DEF AccountOf, SecretOf, AccountGone
  <2> QED
    BY <1>4, <1>5, <2>3, <2>4, AdvanceStep
<1>7. CASE /\ cluster'[c].user # "true" /\ cluster[c].user # "true"
           /\ cluster'[c].res = "true" /\ cluster[c].res # "true"
  <2>1. ResDone(c)
    BY <1>1, <1>2, <1>7 DEF ResDone
  <2>2. AkoGone(c) /\ ~addonSecret[c] /\ cluster[c].deleting
    BY <2>1 DEF CleanupInv, ResInv, SeenDeleting
  <2>3. StageOf(c) = "deleting" /\ StageOf(c)' = "drained" /\ ~AkoOf(c)
    BY <1>7, <2>2 DEF StageOf, AkoOf
  <2> QED
    BY <1>4, <1>5, <2>3, AdvanceStep
<1>8. CASE /\ (cluster'[c].user = "true") = (cluster[c].user = "true")
           /\ (cluster'[c].res = "true") = (cluster[c].res = "true")
  <2>1. Same(c)
    BY <1>2, <1>4, <1>8 DEF Same, StageOf
  <2> QED
    BY <1>5, <2>1, SameAll
<1>9. CASE cluster'[c].user = "true" /\ cluster[c].user = "true"
  <2>1. Same(c)
    BY <1>4, <1>9 DEF Same, StageOf
  <2> QED
    BY <1>5, <2>1, SameAll
<1> QED
  BY Zenon, <1>3, <1>6, <1>7, <1>8, <1>9

\* The other writers of a Cluster: only its deletion is a step of the protocol.
LEMMA WritersSimulate ==
  ASSUME AddonDeletionReliable, TypeOK, CleanupInv, OrderInv, NEW c \in Clusters,
         \/ PatchReconciled(c) \/ DeleteCluster(c) \/ CapiRemovesFinalizer(c)
         \/ Relabel(c) \/ ReadyChanges(c) \/ CapiAddsFinalizer(c)
  PROVE  [Protocol!Next]_(Protocol!vars)
<1>1. /\ \A d \in Clusters : d # c => cluster'[d] = cluster[d]
      /\ cluster'[c].user = cluster[c].user /\ cluster'[c].res = cluster[c].res
      /\ DeleteCluster(c) \/ cluster'[c].deleting = cluster[c].deleting
      /\ UNCHANGED <<mcSecret, addonSecret, aviUser, ako>>
  BY Zenon, OtherWriters DEF sideVars
<1>2. \A d \in Clusters : /\ AccountOf(d)' = AccountOf(d) /\ SecretOf(d)' = SecretOf(d)
                          /\ AkoOf(d)' = AkoOf(d)
  BY <1>1 DEF AccountOf, SecretOf, AkoOf, AkoGone
<1>3. \A d \in Clusters : d # c => Same(d)
  BY <1>1, <1>2 DEF Same, StageOf
<1>4. CASE DeleteCluster(c)
  <2>1. ~cluster[c].deleting /\ cluster'[c].deleting
    BY <1>4 DEF DeleteCluster, TypeOK, ClusterObj
  <2>2. StageOf(c) \in {"serving", "deleting"}
    BY <2>1, StageFacts DEF SeenDeleting
  <2>3. StageOf(c) = "serving" /\ StageOf(c)' = "deleting"
    BY <1>1, <2>1, <2>2 DEF StageOf
  <2> QED
    BY <1>2, <1>3, <2>3, AdvanceStep
<1>5. CASE cluster'[c].deleting = cluster[c].deleting
  <2>1. Same(c)
    BY <1>1, <1>2, <1>5 DEF Same, StageOf
  <2> QED
    BY <1>3, <2>1, SameAll
<1> QED
  BY <1>1, <1>4, <1>5

\* The garbage collector, the add-on manager and AKO.
LEMMA OutsideSimulates ==
  ASSUME AddonDeletionReliable, TypeOK, CleanupInv, OrderInv, NEW c \in Clusters,
         \/ CollectSecret(c) \/ InstallAddon(c) \/ UninstallAddon(c)
         \/ StartAko(c) \/ FinishAko(c)
  PROVE  [Protocol!Next]_(Protocol!vars)
<1>1. UNCHANGED <<cluster, aviUser, addonSecret>>
  BY DEF CollectSecret, InstallAddon, UninstallAddon, StartAko, FinishAko, AkoStep, apiVars
<1>2. \A d \in Clusters : /\ StageOf(d)' = StageOf(d) /\ AccountOf(d)' = AccountOf(d)
                          /\ d # c => mcSecret'[d] = mcSecret[d] /\ ako'[d] = ako[d]
  BY <1>1 DEF CollectSecret, InstallAddon, UninstallAddon, StartAko, FinishAko, AkoStep,
     StageOf, AccountOf, TypeOK
<1>3. \A d \in Clusters : d # c => Same(d)
  BY <1>1, <1>2 DEF Same, SecretOf, AkoOf, AkoGone
<1>4. CASE StageOf(c) \in {"serving", "deleting"}
  BY <1>2, <1>3, <1>4, UseStep
<1>5. CASE StageOf(c) \in {"drained", "done"}
  <2>1. ~AkoOf(c)
    BY <1>5, StageFacts
  <2>2. AkoOf(c)' = AkoOf(c)
    BY <1>1, <2>1 DEF CollectSecret, InstallAddon, UninstallAddon, StartAko, FinishAko,
       AkoStep, AkoOf, AkoGone, TypeOK
  <2>3. SecretOf(c)' => SecretOf(c)
    BY DEF CollectSecret, InstallAddon, UninstallAddon, StartAko, FinishAko, AkoStep,
       SecretOf, TypeOK
  <2>4. CASE StageOf(c) = "drained"
    BY Zenon, <1>2, <1>3, <2>2, <2>3, <2>4, ReclaimStep
  <2>5. CASE StageOf(c) = "done"
    <3>1. ~SecretOf(c)
      BY <2>5, StageFacts
    <3>2. Same(c)
      BY <1>2, <2>2, <2>3, <3>1, ViewType DEF Same
    <3> QED
      BY <1>3, <3>2, SameAll
  <2> QED
    BY <1>5, <2>4, <2>5
<1> QED
  BY <1>4, <1>5, StageFacts

LEMMA InitSimulates == Init => Protocol!Init
<1> SUFFICES ASSUME Init PROVE Protocol!Init
  OBVIOUS
<1>1. \A o \in {Blank, [Blank EXCEPT !.fins = {"capi"}]} :
        o.deleting = FALSE /\ o.user # "true" /\ o.res # "true"
  BY DEF Blank
<1>2. \A c \in Clusters : cluster[c] \in {Blank, [Blank EXCEPT !.fins = {"capi"}]}
  BY Zenon DEF Init
<1>3. \A c \in Clusters : StageOf(c) = "serving"
  BY Zenon, <1>1, <1>2 DEF StageOf
<1>4. \A c \in Clusters : /\ AccountOf(c) = FALSE /\ SecretOf(c) = FALSE
                          /\ AkoOf(c) = FALSE
  BY Zenon DEF Init, AccountOf, SecretOf, AkoOf, AkoGone
<1> QED
  BY Zenon, <1>3, <1>4 DEF Protocol!Init

LEMMA NextSimulates ==
  ASSUME AddonDeletionReliable
  PROVE  TypeOK /\ CleanupInv /\ OrderInv /\ [Next]_vars =>
           [Protocol!Next]_(Protocol!vars)
<1> SUFFICES ASSUME TypeOK, CleanupInv, OrderInv, [Next]_vars
             PROVE  [Protocol!Next]_(Protocol!vars)
  OBVIOUS
<1>1. ASSUME UNCHANGED <<cluster, sideVars>> PROVE [Protocol!Next]_(Protocol!vars)
  <2>1. \A d \in Clusters : Same(d)
    BY <1>1 DEF Same, StageOf, AccountOf, SecretOf, AkoOf, AkoGone, sideVars
  <2> QED
    BY <2>1, SameAll
<1>2. CASE AdcWorker
  <2>1. CASE StartReconcile \/ ListAVI \/ ListClusters \/ EndPhase \/ PatchADC
    BY Zenon, <1>1, <2>1 DEF StartReconcile, ListAVI, ListClusters, EndPhase, PatchADC, apiVars
  <2> QED
    BY <1>2, <2>1, AviSimulates, ClustersSimulates, PatchSimulates DEF AdcWorker
<1>3. CASE ClusterWorker
  <2>1. ASSUME NEW c \in Clusters, ReconcileCluster(c) PROVE [Protocol!Next]_(Protocol!vars)
    BY <1>1, <2>1 DEF ReconcileCluster, apiVars
  <2> QED
    BY <1>3, <2>1, WritersSimulate DEF ClusterWorker
<1>4. CASE Crash
  BY <1>1, <1>4 DEF Crash, apiVars
<1>5. CASE Environment
  <2>1. CASE SyncADC \/ DeleteADC
    BY <1>1, <2>1 DEF SyncADC, DeleteADC, apiVars
  <2>2. ASSUME NEW c \in Clusters, SyncCluster(c) PROVE [Protocol!Next]_(Protocol!vars)
    BY <1>1, <2>2 DEF SyncCluster, apiVars
  <2> QED
    BY <1>5, <2>1, <2>2, WritersSimulate, OutsideSimulates DEF Environment
<1>6. CASE UNCHANGED vars
  BY <1>1, <1>6 DEF vars, apiVars
<1> QED
  BY <1>2, <1>3, <1>4, <1>5, <1>6 DEF Next

\* Two controllers, an informer cache that lags, patches that are lost or
\* refused and restarts add up to the clean-up protocol, provided that no
\* deletion of an add-on Secret fails: the account of a Cluster stays while AKO
\* may need it, and nothing is created again after it was reported clean
\* (ReconcileAviUserDelete, ReconcileDelete, cleanup).
THEOREM Refinement ==
  ASSUME AddonDeletionReliable
  PROVE  Spec => ImplementsProtocol
<1>1. TypeOK /\ CleanupInv /\ OrderInv /\ [Next]_vars => [Protocol!Next]_(Protocol!vars)
  BY NextSimulates
<1> QED
  BY <1>1, TypeCorrect, CleanupInvariant, OrderInvariant, InitSimulates, PTL
     DEF Spec, ImplementsProtocol, Protocol!Spec
=============================================================================
