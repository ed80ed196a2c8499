------------------------ MODULE ClusterLifecycleProofs ------------------------
(***************************************************************************)
(* Theorems about ClusterLifecycle, for every set of Clusters, every       *)
(* number of failures and edits and every interleaving.                    *)
(***************************************************************************)
EXTENDS ClusterLifecycle, TLAPS

(***************************************************************************)
(* The records and the operators on them.                                  *)
(***************************************************************************)

\* Blank, Meta and NoReconcile have the types their names say.
LEMMA BlankType == Blank \in ClusterObj /\ Meta(Blank) \in MetaObj
  BY DEF Blank, ClusterObj, Finalizers, Condition, Meta, MetaObj

LEMMA MetaType == ASSUME NEW o \in ClusterObj PROVE Meta(o) \in MetaObj
  BY DEF ClusterObj, Meta, MetaObj

\* The two requests of the patch helper keep a Cluster a Cluster.
LEMMA PatchedStatusType ==
  ASSUME NEW s \in ClusterObj, NEW before \in ClusterObj,
         NEW after \in ClusterObj, NEW ok \in BOOLEAN
  PROVE  PatchedStatus(s, before, after, ok) \in ClusterObj
  BY Zenon DEF PatchedStatus, PatchConditions, ClusterObj

LEMMA PatchedMetaType ==
  ASSUME NEW s \in ClusterObj, NEW before, NEW after,
         after.fins \in SUBSET Finalizers, after.avi \in BOOLEAN,
         NEW ok \in BOOLEAN
  PROVE  PatchedMeta(s, before, after, ok) \in ClusterObj
  BY Zenon DEF PatchedMeta, PatchMetadata, ClusterObj

LEMMA SetUserType ==
  ASSUME NEW o \in ClusterObj, NEW u \in Condition
  PROVE  [o EXCEPT !.user = u] \in ClusterObj
  BY DEF ClusterObj

\* So do the changes the phase functions make to their copies.
LEMMA LabelledType ==
  ASSUME NEW c \in Clusters, snap \in [Clusters -> ClusterObj]
  PROVE  /\ Labelled(c) \in ClusterObj
         /\ CleaningUser(c) \in ClusterObj
         /\ [CleaningUser(c) EXCEPT !.user = "true"] \in ClusterObj
         /\ RemoveFinalizer(Labelled(c)) \in ClusterObj
<1>1. snap[c] \in ClusterObj
  OBVIOUS
<1>2. Labelled(c) \in ClusterObj
  BY Zenon, <1>1 DEF Labelled, ClusterObj
<1>3. CleaningUser(c) \in ClusterObj
  <2>1. Labelled(c).user \in Condition /\ "false" \in Condition
    BY <1>2 DEF ClusterObj, Condition
  <2>2. (IF Labelled(c).user = "absent" THEN "false" ELSE Labelled(c).user) \in Condition
    BY <2>1
  <2> QED
    BY <1>2, <2>2, SetUserType DEF CleaningUser
<1>4. [CleaningUser(c) EXCEPT !.user = "true"] \in ClusterObj
  <2>1. "true" \in Condition
    BY DEF Condition
  <2> QED
    BY <1>3, <2>1, SetUserType
<1>5. RemoveFinalizer(Labelled(c)) \in ClusterObj
  BY <1>2 DEF RemoveFinalizer, ClusterObj
<1> QED
  BY <1>2, <1>3, <1>4, <1>5

LEMMA InitType == Init => TypeOK
<1> SUFFICES ASSUME Init PROVE TypeOK
  OBVIOUS
<1>1. [Blank EXCEPT !.fins = {"capi"}] \in ClusterObj
  BY Zenon DEF Blank, ClusterObj, Finalizers, Condition
<1>2. cluster \in [Clusters -> ClusterObj] /\ clusterCache \in [Clusters -> ClusterObj]
  BY Zenon, <1>1, BlankType DEF Init
<1>3. snap \in [Clusters -> ClusterObj] /\ work \in ClusterObj
  BY BlankType DEF Init
<1>4. cc \in [c: Clusters \cup {NoCluster}, before: MetaObj, after: MetaObj]
  BY BlankType DEF Init, NoReconcile
<1>5. adc \in AdcObj /\ adcCache \in AdcObj /\ obj \in AdcObj
  BY DEF Init, AdcObj, NoADC
<1>6. /\ mcSecret \in [Clusters -> BOOLEAN] /\ addonSecret \in [Clusters -> BOOLEAN]
      /\ aviUser \in [Clusters -> BOOLEAN] /\ ako \in [Clusters -> AkoState]
  BY DEF Init, AkoState
<1>7. faults \in 0..MaxFaults /\ edits \in 0..MaxEdits
  <2>1. MaxFaults \in Nat /\ MaxEdits \in Nat /\ faults = 0 /\ edits = 0
    BY ConstantsAssumption DEF Init
  <2> QED
    BY <2>1
<1>8. /\ pc \in Phase /\ again \in BOOLEAN
      /\ todo \subseteq Clusters /\ cur \in Clusters \cup {NoCluster}
      /\ facts \in [Clusters -> Facts] /\ factsCache \in [Clusters -> Facts]
  BY Zenon DEF Init, Phase
<1> QED
  BY <1>2, <1>3, <1>4, <1>5, <1>6, <1>7, <1>8 DEF TypeOK

\* TypeOK, action by action.
LEMMA AviStepType ==
  ASSUME TypeOK, NEW c \in Clusters, RunAVI(c)
  PROVE  TypeOK'
<1>0. UNCHANGED <<apiVars, cacheVars, pc, obj, snap, todo, cc>>
  BY DEF RunAVI
<1>1. cur' \in Clusters \cup {NoCluster} /\ work' \in ClusterObj /\ again' \in BOOLEAN
  BY Zenon, LabelledType DEF RunAVI, TypeOK, RunOn, AviUserNormal, AviUserKept, AviUserWaits,
     AviUserDeleteSkipped, AviUserDelete, AviUserDeleteFails
<1>2. /\ mcSecret' \in [Clusters -> BOOLEAN] /\ addonSecret' \in [Clusters -> BOOLEAN]
      /\ aviUser' \in [Clusters -> BOOLEAN] /\ ako' \in [Clusters -> AkoState]
  BY Zenon DEF RunAVI, TypeOK, RunOn, AviUserNormal, AviUserKept, AviUserWaits, sideVars,
     AviUserDeleteSkipped, AviUserDelete, AviUserDeleteFails
<1>3. faults' \in 0..MaxFaults
  BY ConstantsAssumption DEF RunAVI, TypeOK, AviUserNormal, AviUserKept, AviUserWaits,
     AviUserDeleteSkipped, AviUserDelete, AviUserDeleteFails, Outcome, CountFault
<1> QED
  BY <1>0, <1>1, <1>2, <1>3 DEF TypeOK, apiVars, cacheVars

LEMMA ClustersStepType ==
  ASSUME TypeOK, NEW c \in Clusters, RunClusters(c)
  PROVE  TypeOK'
<1>0. UNCHANGED <<apiVars, cacheVars, pc, obj, snap, todo, cc>>
  BY DEF RunClusters
<1>1. CASE AdoptCluster(c)
  <2>1. cur' = c /\ work' \in ClusterObj
    BY Zenon, <1>1, LabelledType DEF AdoptCluster, RunOn, TypeOK, ClusterObj, Finalizers
  <2>2. /\ again' \in BOOLEAN /\ faults' \in 0..MaxFaults
        /\ addonSecret' \in [Clusters -> BOOLEAN]
        /\ UNCHANGED <<mcSecret, aviUser, ako>>
    BY <1>1, ConstantsAssumption
    DEF AdoptCluster, AddonSecretOn, Outcome, CountFault, TypeOK
  <2> QED
    BY <1>0, <2>1, <2>2 DEF TypeOK, apiVars, cacheVars
<1>2. CASE AbandonCluster(c)
  <2>1. cur' = c /\ work' \in ClusterObj
    BY Zenon, <1>2, LabelledType DEF AbandonCluster, RunOn, TypeOK
  <2>2. /\ again' \in BOOLEAN /\ faults' \in 0..MaxFaults
        /\ addonSecret' \in [Clusters -> BOOLEAN]
        /\ UNCHANGED <<mcSecret, aviUser, ako>>
    BY <1>2, ConstantsAssumption
    DEF AbandonCluster, AddonSecretOff, Outcome, CountFault, TypeOK
  <2> QED
    BY <1>0, <2>1, <2>2 DEF TypeOK, apiVars, cacheVars
<1>3. CASE ReleaseCluster(c)
  <2>1. cur' = c /\ work' \in ClusterObj
    <3>1. Labelled(c) \in ClusterObj /\ RemoveFinalizer(Labelled(c)) \in ClusterObj
      BY Zenon, LabelledType DEF TypeOK
    <3>2. \A o \in ClusterObj : \A v \in Condition : [o EXCEPT !.res = v] \in ClusterObj
      BY DEF ClusterObj
    <3>3. \A o \in ClusterObj : o.res \in Condition
      BY DEF ClusterObj
    <3>4. "true" \in Condition /\ "false" \in Condition
      BY DEF Condition
    <3>5. \A finished \in BOOLEAN : AfterReconcileDelete(Labelled(c), finished) \in ClusterObj
      BY <3>1, <3>2, <3>3, <3>4 DEF AfterReconcileDelete
    <3> QED
      BY <1>3, <3>5 DEF ReleaseCluster, RunOn
  <2>2. /\ again' \in BOOLEAN
        /\ addonSecret' \in [Clusters -> BOOLEAN]
        /\ UNCHANGED <<mcSecret, aviUser>>
    BY <1>3 DEF ReleaseCluster, AddonSecretOff, TypeOK
  <2>3. faults' \in 0..MaxFaults
    BY <1>3, ConstantsAssumption
    DEF ReleaseCluster, AddonSecretOff, Outcome, CountFault, TypeOK
  <2>4. ako' \in [Clusters -> AkoState]
    <3>1. \A a \in AkoState : AfterDeleteConfig(a) \in AkoState
      BY DEF AkoState, AfterDeleteConfig
    <3> QED
      BY <1>3, <3>1 DEF ReleaseCluster, TypeOK
  <2> QED
    BY <1>0, <2>1, <2>2, <2>3, <2>4 DEF TypeOK, apiVars, cacheVars
<1> QED
  BY <1>1, <1>2, <1>3 DEF RunClusters

LEMMA PatchStepType ==
  ASSUME TypeOK, NEW c \in Clusters, PatchCluster(c) \/ PatchReconciled(c)
  PROVE  TypeOK'
<1>1. CASE PatchCluster(c)
  <2>1. cluster' \in [Clusters -> ClusterObj]
    <3>1. /\ cluster[c] \in ClusterObj /\ snap[c] \in ClusterObj /\ work \in ClusterObj
          /\ work.fins \in SUBSET Finalizers /\ work.avi \in BOOLEAN
      BY DEF TypeOK, ClusterObj
    <3>2. \A ok1, ok2 \in BOOLEAN :
            PatchedMeta(PatchedStatus(cluster[c], snap[c], work, ok1),
                        snap[c], work, ok2) \in ClusterObj
      BY Zenon, <3>1, PatchedStatusType, PatchedMetaType
    <3> QED
      BY <1>1, <3>2 DEF PatchCluster, TypeOK
  <2>2. faults' \in 0..MaxFaults
    BY <1>1, ConstantsAssumption DEF PatchCluster, Outcome, CountFault, TypeOK
  <2>3. snap' \in [Clusters -> ClusterObj]
    <3>1. [Blank EXCEPT !.deleting = snap[c].deleting] \in ClusterObj
      BY Zenon, BlankType DEF TypeOK, ClusterObj
    <3> QED
      BY <1>1, <3>1 DEF PatchCluster, TypeOK
  <2>4. cur' \in Clusters \cup {NoCluster} /\ work' \in ClusterObj /\ todo' \subseteq Clusters
    BY <1>1, BlankType DEF PatchCluster, TypeOK
  <2>5. UNCHANGED <<adc, facts, edits, cacheVars, sideVars, pc, obj, again, cc>>
    BY <1>1 DEF PatchCluster
  <2> QED
    BY <2>1, <2>2, <2>3, <2>4, <2>5 DEF TypeOK, cacheVars, sideVars
<1>2. CASE PatchReconciled(c)
  <2>1. cluster' \in [Clusters -> ClusterObj]
    <3>1. cluster[c] \in ClusterObj /\ cc.after.fins \in SUBSET Finalizers
          /\ cc.after.avi \in BOOLEAN
      BY DEF TypeOK, MetaObj
    <3> QED
      BY <1>2, <3>1, PatchedMetaType DEF PatchReconciled, TypeOK
  <2>2. faults' \in 0..MaxFaults
    BY <1>2, ConstantsAssumption DEF PatchReconciled, Outcome, CountFault, TypeOK
  <2>3. cc' \in [c: Clusters \cup {NoCluster}, before: MetaObj, after: MetaObj]
    BY <1>2, BlankType DEF PatchReconciled, NoReconcile
  <2>4. UNCHANGED <<adc, facts, edits, cacheVars, sideVars, workerVars>>
    BY <1>2 DEF PatchReconciled
  <2> QED
    BY <2>1, <2>2, <2>3, <2>4 DEF TypeOK, cacheVars, sideVars, workerVars
<1> QED
  BY <1>1, <1>2

LEMMA WorkerStepType ==
  ASSUME TypeOK,
         StartReconcile \/ ListAVI \/ ListClusters \/ EndPhase \/ PatchADC \/ Crash
  PROVE  TypeOK'
<1>1. CASE StartReconcile
  BY Zenon, <1>1 DEF StartReconcile, TypeOK, Phase, apiVars, cacheVars, sideVars
<1>2. ASSUME NEW p \in Phase, ListInto(p)
      PROVE  /\ todo' \subseteq Clusters /\ pc' \in Phase
             /\ snap' \in [Clusters -> ClusterObj]
  BY <1>2, BlankType DEF ListInto, ListedClusters, TypeOK
<1>3. CASE ListAVI
  <2>1. /\ todo' \subseteq Clusters /\ pc' \in Phase
        /\ snap' \in [Clusters -> ClusterObj]
    <3>1. "avi" \in Phase /\ PhaseAfter("avi") \in Phase
      BY DEF PhaseAfter, Phase
    <3>2. CASE ListInto("avi")
      BY <1>2, <3>1, <3>2
    <3>3. CASE todo' = {} /\ pc' = PhaseAfter("avi") /\ UNCHANGED snap
      BY <3>1, <3>3 DEF TypeOK
    <3>4. \/ ListInto("avi")
          \/ todo' = {} /\ pc' = PhaseAfter("avi") /\ UNCHANGED snap
      BY Zenon, <1>3 DEF ListAVI
    <3> QED
      BY <3>2, <3>3, <3>4
  <2>2. again' \in BOOLEAN /\ faults' \in 0..MaxFaults
    <3>1. again' \in BOOLEAN
      BY Zenon, <1>3 DEF ListAVI, ListErrors, TypeOK
    <3>2. faults' \in 0..MaxFaults
      BY <1>3, ConstantsAssumption DEF ListAVI, Outcome, CountFault, TypeOK
    <3> QED
      BY <3>1, <3>2
  <2>3. UNCHANGED <<apiVars, cacheVars, sideVars, obj, cur, work, cc>>
    BY <1>3 DEF ListAVI
  <2> QED
    BY <2>1, <2>2, <2>3 DEF TypeOK, apiVars, cacheVars, sideVars
<1>4. CASE ListClusters
  <2>1. /\ todo' \subseteq Clusters /\ pc' \in Phase
        /\ snap' \in [Clusters -> ClusterObj]
    <3>1. "clusters" \in Phase /\ PhaseAfter("clusters") \in Phase
      BY DEF PhaseAfter, Phase
    <3>2. CASE ListInto("clusters")
      BY <1>2, <3>1, <3>2
    <3>3. CASE todo' = {} /\ pc' = PhaseAfter("clusters") /\ UNCHANGED snap
      BY <3>1, <3>3 DEF TypeOK
    <3>4. \/ ListInto("clusters")
          \/ todo' = {} /\ pc' = PhaseAfter("clusters") /\ UNCHANGED snap
      BY Zenon, <1>4 DEF ListClusters
    <3> QED
      BY <3>2, <3>3, <3>4
  <2>2. again' \in BOOLEAN /\ faults' \in 0..MaxFaults
    <3>1. again' \in BOOLEAN
      BY Zenon, <1>4 DEF ListClusters, ListErrors, TypeOK
    <3>2. faults' \in 0..MaxFaults
      BY <1>4, ConstantsAssumption DEF ListClusters, Outcome, CountFault, TypeOK
    <3> QED
      BY <3>1, <3>2
  <2>3. UNCHANGED <<apiVars, cacheVars, sideVars, obj, cur, work, cc>>
    BY <1>4 DEF ListClusters
  <2> QED
    BY <2>1, <2>2, <2>3 DEF TypeOK, apiVars, cacheVars, sideVars
<1>5. CASE EndPhase
  BY <1>5 DEF EndPhase, PhaseAfter, Phase, TypeOK, apiVars, cacheVars, sideVars
<1>6. CASE PatchADC
  <2>1. adc' \in AdcObj /\ obj' \in AdcObj
    <3>1. NoADC \in AdcObj /\ [adc EXCEPT !.fin = TRUE] \in AdcObj /\ adc \in AdcObj
      BY Zenon DEF TypeOK, AdcObj, NoADC
    <3> QED
      BY <1>6, <3>1 DEF PatchADC
  <2>2. snap' \in [Clusters -> ClusterObj] /\ pc' \in Phase /\ again' \in BOOLEAN
    BY Zenon, <1>6, BlankType DEF PatchADC, Phase
  <2>3. faults' \in 0..MaxFaults
    BY <1>6, ConstantsAssumption DEF PatchADC, Outcome, CountFault, TypeOK
  <2>4. UNCHANGED <<cluster, facts, edits, cacheVars, sideVars, todo, cur, work, cc>>
    BY <1>6 DEF PatchADC
  <2> QED
    BY <2>1, <2>2, <2>3, <2>4 DEF TypeOK, cacheVars, sideVars
<1>7. CASE Crash
  <2>1. /\ snap' \in [Clusters -> ClusterObj] /\ work' \in ClusterObj
        /\ pc' \in Phase /\ again' \in BOOLEAN /\ todo' \subseteq Clusters
        /\ cur' \in Clusters \cup {NoCluster} /\ obj' \in AdcObj
    BY Zenon, <1>7, BlankType DEF Crash, Phase, NoADC, AdcObj
  <2>2. cc' \in [c: Clusters \cup {NoCluster}, before: MetaObj, after: MetaObj]
    BY <1>7, BlankType DEF Crash, NoReconcile
  <2>3. faults' \in 0..MaxFaults
    BY <1>7, ConstantsAssumption DEF Crash, Outcome, CountFault, TypeOK
  <2>4. /\ UNCHANGED <<apiVars, sideVars>>
        /\ adcCache' = adc /\ clusterCache' = cluster /\ factsCache' = facts
    BY <1>7 DEF Crash
  <2> QED
    BY <2>1, <2>2, <2>3, <2>4 DEF TypeOK, apiVars, sideVars
<1> QED
  BY <1>1, <1>3, <1>4, <1>5, <1>6, <1>7

LEMMA ReconcileClusterType ==
  ASSUME TypeOK, NEW c \in Clusters, ReconcileCluster(c)
  PROVE  TypeOK'
<1>1. Meta(clusterCache[c]) \in MetaObj
  BY MetaType DEF TypeOK
<1>2. \A o \in MetaObj : \A m \in BOOLEAN : Reconciled(o, m) \in MetaObj
  BY Zenon DEF MetaObj, Reconciled, RemoveFinalizer
<1>3. MatchedADC(c) \in BOOLEAN
  BY DEF MatchedADC, TypeOK, Facts
<1>4. cc' \in [c: Clusters \cup {NoCluster}, before: MetaObj, after: MetaObj]
  BY <1>1, <1>2, <1>3 DEF ReconcileCluster
<1>5. UNCHANGED <<apiVars, cacheVars, sideVars, faults, workerVars>>
  BY DEF ReconcileCluster
<1> QED
  BY <1>4, <1>5 DEF TypeOK, apiVars, cacheVars, sideVars, workerVars

LEMMA EnvironmentType == ASSUME TypeOK, Environment PROVE TypeOK'
<1>1. CASE SyncADC
  BY <1>1 DEF SyncADC, TypeOK, apiVars, sideVars, workerVars
<1>2. CASE DeleteADC
  <2>1. adc' \in AdcObj
    BY <1>2 DEF DeleteADC, TypeOK, AdcObj, NoADC
  <2> QED
    BY <1>2, <2>1 DEF DeleteADC, TypeOK, cacheVars, sideVars, workerVars
<1>3. ASSUME NEW c \in Clusters, SyncCluster(c) PROVE TypeOK'
  BY <1>3 DEF SyncCluster, TypeOK, apiVars, sideVars, workerVars
<1>4. ASSUME NEW c \in Clusters, DeleteCluster(c) \/ CapiRemovesFinalizer(c) PROVE TypeOK'
  <2>1. cluster' \in [Clusters -> ClusterObj]
    <3>1. cluster[c] \in ClusterObj
      BY DEF TypeOK
    <3>2. [cluster[c] EXCEPT !.deleting = TRUE] \in ClusterObj
      BY Zenon, <3>1 DEF ClusterObj
    <3>3. [cluster[c] EXCEPT !.fins = @ \ {"capi"}] \in ClusterObj
      BY <3>1 DEF ClusterObj
    <3> QED
      BY Zenon, <1>4, <3>2, <3>3 DEF DeleteCluster, CapiRemovesFinalizer, TypeOK
  <2> QED
    BY <1>4, <2>1 DEF DeleteCluster, CapiRemovesFinalizer, TypeOK, cacheVars, sideVars, workerVars
<1>5. ASSUME NEW c \in Clusters, NEW o \in ClusterObj, NEW f \in Facts, Edit(c, o, f)
      PROVE TypeOK'
  <2>1. cluster' \in [Clusters -> ClusterObj] /\ facts' \in [Clusters -> Facts]
    BY <1>5 DEF Edit, TypeOK
  <2>2. edits' \in 0..MaxEdits
    BY <1>5, ConstantsAssumption DEF Edit, TypeOK
  <2> QED
    BY <1>5, <2>1, <2>2 DEF Edit, TypeOK, cacheVars, sideVars, workerVars
<1>6. ASSUME NEW c \in Clusters, Relabel(c) \/ ReadyChanges(c) \/ CapiAddsFinalizer(c)
      PROVE TypeOK'
  <2>1. cluster[c] \in ClusterObj /\ facts[c] \in Facts
    BY DEF TypeOK
  <2>2. /\ [facts[c] EXCEPT !.matches = ~@] \in Facts
        /\ [facts[c] EXCEPT !.ready = ~@] \in Facts
    BY Zenon, <2>1 DEF Facts
  <2>3. [cluster[c] EXCEPT !.fins = @ \cup {"capi"}] \in ClusterObj
    BY <2>1 DEF ClusterObj, Finalizers
  <2> QED
    BY <1>5, <1>6, <2>1, <2>2, <2>3 DEF Relabel, ReadyChanges, CapiAddsFinalizer
<1>7. ASSUME NEW c \in Clusters, CollectSecret(c) PROVE TypeOK'
  BY <1>7 DEF CollectSecret, TypeOK, apiVars, cacheVars, workerVars
<1>8. ASSUME NEW c \in Clusters, NEW a \in AkoState, AkoStep(c, a) PROVE TypeOK'
  BY <1>8 DEF AkoStep, TypeOK, apiVars, cacheVars, workerVars
<1>9. ASSUME NEW c \in Clusters,
             InstallAddon(c) \/ UninstallAddon(c) \/ StartAko(c) \/ FinishAko(c)
      PROVE TypeOK'
  <2>1. {"installing", "none", "running", "finished"} \subseteq AkoState
    BY DEF AkoState
  <2> QED
    BY <1>8, <1>9, <2>1 DEF InstallAddon, UninstallAddon, StartAko, FinishAko
<1> QED
  BY <1>1, <1>2, <1>3, <1>4, <1>6, <1>7, <1>9 DEF Environment

LEMMA NextType == TypeOK /\ [Next]_vars => TypeOK'
<1> SUFFICES ASSUME TypeOK, [Next]_vars PROVE TypeOK'
  OBVIOUS
<1>1. CASE AdcWorker
  BY <1>1, AviStepType, ClustersStepType, PatchStepType, WorkerStepType DEF AdcWorker
<1>2. CASE ClusterWorker
  BY <1>2, ReconcileClusterType, PatchStepType DEF ClusterWorker
<1>3. CASE Crash
  BY <1>3, WorkerStepType
<1>4. CASE Environment
  BY <1>4, EnvironmentType
<1>5. CASE UNCHANGED vars
  BY <1>5 DEF vars, apiVars, cacheVars, sideVars, workerVars, TypeOK
<1> QED
  BY <1>1, <1>2, <1>3, <1>4, <1>5 DEF Next

\* Every variable keeps its type: in particular no more failures and edits
\* happen than the bounds allow, and every in-memory copy is a whole Cluster.
THEOREM TypeCorrect == Spec => []TypeOK
  BY InitType, NextType, PTL DEF Spec

-----------------------------------------------------------------------------
(***************************************************************************)
(* The cleanup invariant, by the part of the state a step writes.          *)
(***************************************************************************)

\* What the patch helper may do to the server's copy s.
LEMMA PatchedFacts ==
  ASSUME NEW s \in ClusterObj, NEW before, NEW after, NEW ok \in BOOLEAN,
         NEW o, o = PatchedMeta(s, before, after, ok)
  PROVE  /\ o.deleting = s.deleting /\ o.user = s.user /\ o.res = s.res
         /\ s.deleting => o.fins \subseteq s.fins
         /\ o.fins = s.fins \/ (o.fins = after.fins /\ after.fins # before.fins)
  BY DEF PatchedMeta, PatchMetadata, MetadataForbidden, ClusterObj

LEMMA PatchedStatusFacts ==
  ASSUME NEW s \in ClusterObj, NEW before, NEW after, NEW ok \in BOOLEAN,
         NEW o, o = PatchedStatus(s, before, after, ok)
  PROVE  /\ o.deleting = s.deleting /\ o.fins = s.fins
         /\ o.user \in {s.user, after.user} /\ o.res \in {s.res, after.res}
  BY DEF PatchedStatus, PatchConditions, ClusterObj

\* The state the invariant reads, without the server's copies.
ReadVars == <<clusterCache, snap, todo, cur, work, pc, obj, again,
              mcSecret, addonSecret, aviUser, ako>>

\* A write of the server's copy alone that does not touch the conditions.
LEMMA ServerWrite ==
  ASSUME TypeOK, CleanupInv, NEW c \in Clusters, NEW o,
         cluster' = [cluster EXCEPT ![c] = o],
         cluster[c].deleting => o.deleting /\ o.fins \subseteq cluster[c].fins,
         o.user = cluster[c].user, o.res = cluster[c].res,
         UNCHANGED ReadVars
  PROVE  CleanupInv'
<1>1. /\ cluster'[c] = o
      /\ \A d \in Clusters : d # c => cluster'[d] = cluster[d]
  BY DEF TypeOK
<1>2. CopiesInv'
  BY <1>1 DEF CleanupInv, CopiesInv, ReadVars
<1>3. \A d \in Clusters : UserDone(d)' = UserDone(d) /\ ResDone(d)' = ResDone(d)
  BY <1>1 DEF UserDone, ResDone, ReadVars
<1>4. \A d \in Clusters : SeenDeleting(d) => SeenDeleting(d)'
  BY <1>1 DEF SeenDeleting, ReadVars
<1>5. \A d \in Clusters : AccountGone(d)' = AccountGone(d) /\ AkoGone(d)' = AkoGone(d)
  BY DEF AccountGone, AkoGone, OwnAccount, ReadVars
<1>6. UserInv'
  BY <1>3, <1>4, <1>5 DEF CleanupInv, UserInv
<1>7. ResInv'
  BY <1>3, <1>4, <1>5 DEF CleanupInv, ResInv, ReadVars
<1>8. WorkInv'
  BY DEF CleanupInv, WorkInv, ReadVars
<1>9. AdcInv'
  BY <1>5 DEF CleanupInv, AdcInv, ReadVars
<1> QED
  BY <1>2, <1>6, <1>7, <1>8, <1>9 DEF CleanupInv

\* A step that writes nothing the invariant reads.
LEMMA NoWrite ==
  ASSUME CleanupInv, UNCHANGED cluster, UNCHANGED ReadVars
  PROVE  CleanupInv'
  BY DEF CleanupInv, CopiesInv, UserInv, ResInv, WorkInv, AdcInv, UserDone, ResDone,
     SeenDeleting, AccountGone, AkoGone, OwnAccount, AddonDeletionReliable, ReadVars

\* The informer: the cached copy catches up.
LEMMA SyncKeeps ==
  ASSUME TypeOK, CleanupInv, NEW c \in Clusters, SyncCluster(c)
  PROVE  CleanupInv'
<1>1. /\ clusterCache'[c] = cluster[c]
      /\ \A d \in Clusters : d # c => clusterCache'[d] = clusterCache[d]
      /\ UNCHANGED <<cluster, snap, todo, cur, work, pc, obj, again, sideVars>>
  BY DEF SyncCluster, TypeOK, apiVars, workerVars
<1>2. CopiesInv'
  BY Zenon, <1>1 DEF CleanupInv, CopiesInv
<1>3. \A d \in Clusters :
        /\ UserDone(d)' => UserDone(d)
        /\ ResDone(d)' => ResDone(d)
        /\ SeenDeleting(d) => SeenDeleting(d)'
  BY <1>1 DEF UserDone, ResDone, SeenDeleting
<1>4. \A d \in Clusters : AccountGone(d)' = AccountGone(d) /\ AkoGone(d)' = AkoGone(d)
  BY Zenon, <1>1 DEF AccountGone, AkoGone, OwnAccount, sideVars
<1>5. UserInv'
  <2> SUFFICES ASSUME NEW d \in Clusters, UserDone(d)'
               PROVE  (AccountGone(d) /\ SeenDeleting(d))'
    BY DEF UserInv
  <2>1. AccountGone(d) /\ SeenDeleting(d)
    BY <1>3 DEF CleanupInv, UserInv
  <2> QED
    BY <1>3, <1>4, <2>1
<1>6. ResInv'
  <2> SUFFICES ASSUME AddonDeletionReliable, NEW d \in Clusters, ResDone(d)'
               PROVE  (AkoGone(d) /\ ~addonSecret[d] /\ SeenDeleting(d))'
    BY DEF ResInv
  <2>1. AkoGone(d) /\ ~addonSecret[d] /\ SeenDeleting(d)
    BY <1>3 DEF CleanupInv, ResInv
  <2> QED
    BY <1>1, <1>3, <1>4, <2>1 DEF sideVars
<1>7. WorkInv' /\ AdcInv'
  BY <1>1, <1>4 DEF CleanupInv, WorkInv, AdcInv, sideVars
<1> QED
  BY <1>2, <1>5, <1>6, <1>7 DEF CleanupInv

\* The outside world: the garbage collector, the add-on manager and AKO.
LEMMA OutsideKeeps ==
  ASSUME TypeOK, CleanupInv, NEW c \in Clusters,
         \/ CollectSecret(c) \/ InstallAddon(c) \/ UninstallAddon(c)
         \/ StartAko(c) \/ FinishAko(c)
  PROVE  CleanupInv'
<1>1. UNCHANGED <<cluster, clusterCache, snap, todo, cur, work, pc, obj, again,
                  addonSecret, aviUser>>
  BY Zenon DEF CollectSecret, InstallAddon, UninstallAddon, StartAko, FinishAko, AkoStep,
     apiVars, cacheVars, workerVars
<1>2. \A d \in Clusters : AccountGone(d) => AccountGone(d)'
  BY <1>1 DEF CollectSecret, InstallAddon, UninstallAddon, StartAko, FinishAko, AkoStep,
     AccountGone, OwnAccount, TypeOK
<1>3. \A d \in Clusters : AkoGone(d) /\ ~addonSecret[d] => AkoGone(d)'
  BY <1>1 DEF CollectSecret, InstallAddon, UninstallAddon, StartAko, FinishAko, AkoStep,
     AkoGone, TypeOK
<1>4. \A d \in Clusters :
        /\ UserDone(d)' = UserDone(d) /\ ResDone(d)' = ResDone(d)
        /\ SeenDeleting(d)' = SeenDeleting(d)
  BY <1>1 DEF UserDone, ResDone, SeenDeleting
<1>5. CopiesInv' /\ WorkInv'
  BY Zenon, <1>1 DEF CleanupInv, CopiesInv, WorkInv
<1>6. UserInv'
  BY <1>2, <1>4 DEF CleanupInv, UserInv
<1>7. ResInv'
  <2> SUFFICES ASSUME AddonDeletionReliable, NEW d \in Clusters, ResDone(d)'
               PROVE  (AkoGone(d) /\ ~addonSecret[d] /\ SeenDeleting(d))'
    BY DEF ResInv
  <2>1. AkoGone(d) /\ ~addonSecret[d] /\ SeenDeleting(d)
    BY <1>4 DEF CleanupInv, ResInv
  <2> QED
    BY <1>1, <1>3, <1>4, <2>1
<1>8. AdcInv'
  <2> SUFFICES ASSUME (obj.state # "live" /\ pc \in {"avi", "patchADC"} /\ ~again)',
                      NEW d \in Clusters,
                      (snap[d].deleting /\ (d \notin todo \/ cur = d))'
               PROVE  (AccountGone(d) /\ (AddonDeletionReliable =>
                         AkoGone(d) /\ ~addonSecret[d]))'
    BY DEF AdcInv
  <2>1. AccountGone(d) /\ (AddonDeletionReliable => AkoGone(d) /\ ~addonSecret[d])
    BY <1>1 DEF CleanupInv, AdcInv
  <2> QED
    BY <1>1, <1>2, <1>3, <2>1
<1> QED
  BY <1>5, <1>6, <1>7, <1>8 DEF CleanupInv


\* A new list replaces the copies the worker acts on.
LEMMA ListKeeps ==
  ASSUME TypeOK, CleanupInv, NEW p \in {"avi", "clusters"}, ListInto(p),
         pc \notin {"avi", "clusters"},
         UNCHANGED <<cluster, clusterCache, cur, work, obj, sideVars>>
  PROVE  CleanupInv'
<1>1. todo = {} /\ cur = NoCluster /\ NoCluster \notin Clusters
  BY ConstantsAssumption DEF CleanupInv, CopiesInv
<1>2. /\ \A d \in Clusters : snap'[d] = IF d \in todo' THEN clusterCache[d] ELSE Blank
      /\ todo' \subseteq Clusters /\ pc' = p
  BY DEF ListInto, ListedClusters
<1>3. Blank.deleting = FALSE /\ Blank.user # "true" /\ Blank.res # "true"
  BY DEF Blank
<1>4. \A d \in Clusters :
        /\ UserDone(d)' => UserDone(d)
        /\ ResDone(d)' => ResDone(d)
  BY <1>1, <1>2, <1>3 DEF UserDone, ResDone
<1>5. \A d \in Clusters : SeenDeleting(d) => SeenDeleting(d)'
  BY <1>2 DEF SeenDeleting
<1>6. \A d \in Clusters : AccountGone(d)' = AccountGone(d) /\ AkoGone(d)' = AkoGone(d)
  BY DEF AccountGone, AkoGone, OwnAccount, sideVars
<1>7. CopiesInv'
  BY <1>1, <1>2, <1>3 DEF CleanupInv, CopiesInv
<1>8. UserInv'
  BY <1>4, <1>5, <1>6 DEF CleanupInv, UserInv
<1>9. ResInv'
  BY <1>4, <1>5, <1>6 DEF CleanupInv, ResInv, sideVars
<1>10. WorkInv' /\ AdcInv'
  BY <1>1, <1>2, <1>3 DEF WorkInv, AdcInv
<1> QED
  BY <1>7, <1>8, <1>9, <1>10 DEF CleanupInv

\* So does a restart, or the end of a reconcile, with nothing.
LEMMA BlankKeeps ==
  ASSUME TypeOK, CleanupInv, snap' = [d \in Clusters |-> Blank], todo' = {},
         cur' = NoCluster, pc' = "idle", clusterCache' \in {clusterCache, cluster},
         UNCHANGED <<cluster, sideVars>>
  PROVE  CleanupInv'
<1>1. NoCluster \notin Clusters
  BY ConstantsAssumption
<1>2. \A d \in Clusters : snap'[d] = Blank
  OBVIOUS
<1>3. Blank.deleting = FALSE /\ Blank.user # "true" /\ Blank.res # "true"
  BY DEF Blank
<1>4. \A d \in Clusters :
        /\ UserDone(d)' => UserDone(d)
        /\ ResDone(d)' => ResDone(d)
  BY <1>1, <1>2, <1>3 DEF UserDone, ResDone
<1>5. \A d \in Clusters : SeenDeleting(d) => SeenDeleting(d)'
  BY DEF SeenDeleting
<1>6. \A d \in Clusters : AccountGone(d)' = AccountGone(d) /\ AkoGone(d)' = AkoGone(d)
  BY DEF AccountGone, AkoGone, OwnAccount, sideVars
<1>7. CopiesInv'
  BY <1>1, <1>2, <1>3 DEF CleanupInv, CopiesInv
<1>8. UserInv'
  BY <1>4, <1>5, <1>6 DEF CleanupInv, UserInv
<1>9. ResInv'
  BY <1>4, <1>5, <1>6 DEF CleanupInv, ResInv, sideVars
<1>10. WorkInv' /\ AdcInv'
  BY <1>1 DEF WorkInv, AdcInv
<1> QED
  BY <1>7, <1>8, <1>9, <1>10 DEF CleanupInv

\* The copies stay, and the worker goes to where nothing is claimed of them.
LEMMA MoveKeeps ==
  ASSUME TypeOK, CleanupInv, todo = {}, todo' = {},
         \/ again' = TRUE \/ obj'.state = "live"
         \/ pc' \notin {"avi", "patchADC"}
         \/ pc = "avi" /\ UNCHANGED <<obj, again>>,
         UNCHANGED <<cluster, clusterCache, snap, cur, work, sideVars>>
  PROVE  CleanupInv'
<1>1. cur = NoCluster /\ NoCluster \notin Clusters
  BY ConstantsAssumption DEF CleanupInv, CopiesInv
<1>2. \A d \in Clusters : AccountGone(d)' = AccountGone(d) /\ AkoGone(d)' = AkoGone(d)
  BY DEF AccountGone, AkoGone, OwnAccount, sideVars
<1>3. CopiesInv' /\ WorkInv'
  BY <1>1 DEF CleanupInv, CopiesInv, WorkInv
<1>4. \A d \in Clusters :
        /\ UserDone(d)' = UserDone(d) /\ ResDone(d)' = ResDone(d)
        /\ SeenDeleting(d) => SeenDeleting(d)'
  BY DEF UserDone, ResDone, SeenDeleting
<1>5. UserInv'
  BY <1>2, <1>4 DEF CleanupInv, UserInv
<1>6. ResInv'
  BY <1>2, <1>4 DEF CleanupInv, ResInv, sideVars
<1>7. AdcInv'
  BY <1>1, <1>2 DEF CleanupInv, AdcInv, sideVars
<1> QED
  BY <1>3, <1>5, <1>6, <1>7 DEF CleanupInv

\* The steps of the ADC worker between Clusters, and a restart.
LEMMA BetweenKeeps ==
  ASSUME TypeOK, CleanupInv,
         StartReconcile \/ ListAVI \/ ListClusters \/ EndPhase \/ PatchADC \/ Crash
  PROVE  CleanupInv'
<1>1. CASE StartReconcile
  <2>1. todo = {} /\ todo' = {}
    BY <1>1 DEF StartReconcile, CleanupInv, CopiesInv
  <2> QED
    BY <1>1, <2>1, MoveKeeps DEF StartReconcile, apiVars, cacheVars
<1>2. CASE ListAVI
  <2>1. todo = {} /\ pc \notin {"avi", "clusters"}
    BY <1>2 DEF ListAVI, CleanupInv, CopiesInv
  <2>2. UNCHANGED <<cluster, clusterCache, cur, work, obj, sideVars>>
    BY <1>2 DEF ListAVI, apiVars, cacheVars
  <2>3. ListInto("avi") \/ (again' = TRUE /\ todo' = {} /\ UNCHANGED snap)
    BY Zenon, <1>2 DEF ListAVI
  <2> QED
    BY Zenon, <2>1, <2>2, <2>3, ListKeeps, MoveKeeps
<1>3. CASE ListClusters
  <2>1. todo = {} /\ pc \notin {"avi", "clusters"}
    BY <1>3 DEF ListClusters, CleanupInv, CopiesInv
  <2>2. UNCHANGED <<cluster, clusterCache, cur, work, obj, sideVars>>
    BY <1>3 DEF ListClusters, apiVars, cacheVars
  <2>3. ListInto("clusters") \/ (again' = TRUE /\ todo' = {} /\ UNCHANGED snap)
    BY Zenon, <1>3 DEF ListClusters
  <2> QED
    BY Zenon, <2>1, <2>2, <2>3, ListKeeps, MoveKeeps
<1>4. CASE EndPhase
  <2>1. CASE obj.state = "live"
    BY <1>4, <2>1, MoveKeeps DEF EndPhase, apiVars, cacheVars
  <2>2. CASE obj.state # "live" /\ pc = "avi"
    BY <1>4, <2>2, MoveKeeps DEF EndPhase, apiVars, cacheVars
  <2>3. CASE obj.state # "live" /\ pc = "clusters"
    <3>1. pc' = "listAVI"
      BY <1>4, <2>3 DEF EndPhase, PhaseAfter
    <3> QED
      BY <1>4, <3>1, MoveKeeps DEF EndPhase, apiVars, cacheVars
  <2> QED
    BY <1>4, <2>1, <2>2, <2>3 DEF EndPhase
<1>5. CASE PatchADC
  <2>1. todo = {} /\ cur = NoCluster
    BY <1>5 DEF PatchADC, CleanupInv, CopiesInv
  <2> QED
    BY <1>5, <2>1, BlankKeeps DEF PatchADC, cacheVars
<1>6. CASE Crash
  BY <1>6, BlankKeeps DEF Crash, apiVars
<1> QED
  BY <1>1, <1>2, <1>3, <1>4, <1>5, <1>6

\* The phase functions on one Cluster: what they may undo of others' and of
\* its cleanup, and what has to hold for what they leave in memory.
LEMMA RunKeeps ==
  ASSUME TypeOK, CleanupInv, NEW c \in Clusters, c \in todo, cur' = c,
         pc \in {"avi", "clusters"},
         UNCHANGED <<cluster, clusterCache, snap, todo, pc, obj>>,
         \A d \in Clusters :
           AccountGone(d) /\ (d = c => snap[c].deleting) => AccountGone(d)',
         \A d \in Clusters :
           AkoGone(d) /\ ~addonSecret[d] /\ (d = c => snap[c].deleting)
           => AkoGone(d)' /\ ~addonSecret'[d],
         work'.user = "true" => AccountGone(c)' /\ snap[c].deleting,
         AddonDeletionReliable /\ work'.res = "true" =>
           AkoGone(c)' /\ ~addonSecret'[c] /\ snap[c].deleting,
         snap[c].deleting =>
           \/ work'.fins = snap[c].fins
           \/ /\ work'.fins = snap[c].fins \ {"akoo"}
              /\ snap[c].user = "true" /\ work'.res = "true",
         (obj.state # "live" /\ pc = "avi" /\ ~again') =>
           /\ ~again
           /\ snap[c].deleting => AccountGone(c)'
           /\ (snap[c].deleting /\ AddonDeletionReliable) =>
                AkoGone(c)' /\ ~addonSecret'[c]
  PROVE  CleanupInv'
<1>1. CopiesInv'
  BY DEF CleanupInv, CopiesInv
<1>2. \A d \in Clusters : SeenDeleting(d)' = SeenDeleting(d)
  BY DEF SeenDeleting
<1>3. snap[c].deleting => SeenDeleting(c)
  BY DEF SeenDeleting, CleanupInv, CopiesInv
<1>4. \A d \in Clusters : SeenDeleting(d) => (d = c => snap[c].deleting)
  BY DEF SeenDeleting
<1>5. \A d \in Clusters :
        /\ UserDone(d)' => UserDone(d) \/ (d = c /\ work'.user = "true")
        /\ ResDone(d)' => ResDone(d) \/ (d = c /\ work'.res = "true")
  BY DEF UserDone, ResDone
<1>6. UserInv'
  <2> SUFFICES ASSUME NEW d \in Clusters, UserDone(d)'
               PROVE  (AccountGone(d) /\ SeenDeleting(d))'
    BY Zenon DEF UserInv
  <2>1. CASE UserDone(d)
    <3>1. AccountGone(d) /\ SeenDeleting(d)
      BY <2>1 DEF CleanupInv, UserInv
    <3> QED
      BY <1>2, <1>4, <3>1
  <2>2. CASE d = c /\ work'.user = "true"
    BY <1>2, <1>3, <2>2
  <2> QED
    BY Zenon, <1>5, <2>1, <2>2
<1>7. ResInv'
  <2> SUFFICES ASSUME AddonDeletionReliable, NEW d \in Clusters, ResDone(d)'
               PROVE  (AkoGone(d) /\ ~addonSecret[d] /\ SeenDeleting(d))'
    BY DEF ResInv
  <2>1. CASE ResDone(d)
    BY Zenon, <1>2, <1>4, <2>1 DEF CleanupInv, ResInv
  <2>2. CASE d = c /\ work'.res = "true"
    BY <1>2, <1>3, <2>2
  <2> QED
    BY Zenon, <1>5, <2>1, <2>2
<1>8. WorkInv'
  BY DEF WorkInv
<1>9. AdcInv'
  <2> SUFFICES ASSUME (obj.state # "live" /\ pc \in {"avi", "patchADC"} /\ ~again)',
                      NEW d \in Clusters,
                      (snap[d].deleting /\ (d \notin todo \/ cur = d))'
               PROVE  (AccountGone(d) /\ (AddonDeletionReliable =>
                         AkoGone(d) /\ ~addonSecret[d]))'
    BY DEF AdcInv
  <2>1. obj.state # "live" /\ pc = "avi" /\ ~again
    OBVIOUS
  <2>2. CASE d = c
    BY <2>1, <2>2
  <2>3. CASE d # c
    <3>1. AccountGone(d) /\ (AddonDeletionReliable => AkoGone(d) /\ ~addonSecret[d])
      BY <2>1, <2>3 DEF CleanupInv, AdcInv
    <3> QED
      BY <2>3, <3>1
  <2> QED
    BY <2>2, <2>3
<1> QED
  BY <1>1, <1>6, <1>7, <1>8, <1>9 DEF CleanupInv

\* The fields of the copies the phase functions leave.
LEMMA CopyFacts ==
  ASSUME NEW c \in Clusters, snap \in [Clusters -> ClusterObj]
  PROVE  /\ Labelled(c).deleting = snap[c].deleting
         /\ Labelled(c).fins = snap[c].fins
         /\ Labelled(c).res = snap[c].res /\ Labelled(c).user = snap[c].user
         /\ CleaningUser(c).fins = snap[c].fins
         /\ CleaningUser(c).res = snap[c].res
         /\ CleaningUser(c).user = "true" => snap[c].user = "true"
         /\ [CleaningUser(c) EXCEPT !.user = "true"].fins = snap[c].fins
         /\ [CleaningUser(c) EXCEPT !.user = "true"].res = snap[c].res
         /\ RemoveFinalizer(Labelled(c)).fins = snap[c].fins \ {"akoo"}
         /\ RemoveFinalizer(Labelled(c)).res = snap[c].res
         /\ RemoveFinalizer(Labelled(c)).user = snap[c].user
<1>1. snap[c] \in ClusterObj
  OBVIOUS
<1>2. /\ Labelled(c).deleting = snap[c].deleting /\ Labelled(c).fins = snap[c].fins
      /\ Labelled(c).res = snap[c].res /\ Labelled(c).user = snap[c].user
  BY <1>1 DEF Labelled, ClusterObj
<1>3. /\ CleaningUser(c).fins = snap[c].fins /\ CleaningUser(c).res = snap[c].res
      /\ CleaningUser(c).user = "true" => snap[c].user = "true"
  BY Zenon, <1>2, LabelledType DEF CleaningUser, ClusterObj
<1>4. /\ [CleaningUser(c) EXCEPT !.user = "true"].fins = snap[c].fins
      /\ [CleaningUser(c) EXCEPT !.user = "true"].res = snap[c].res
  BY <1>3, LabelledType DEF ClusterObj
<1>5. /\ RemoveFinalizer(Labelled(c)).fins = snap[c].fins \ {"akoo"}
      /\ RemoveFinalizer(Labelled(c)).res = snap[c].res
      /\ RemoveFinalizer(Labelled(c)).user = snap[c].user
  BY <1>2, LabelledType DEF RemoveFinalizer, ClusterObj
<1> QED
  BY <1>2, <1>3, <1>4, <1>5

\* What a list entry with a true condition tells.
LEMMA EntryFacts ==
  ASSUME TypeOK, CleanupInv, NEW c \in Clusters, c \in todo
  PROVE  /\ snap[c].user = "true" => AccountGone(c) /\ snap[c].deleting
         /\ AddonDeletionReliable /\ snap[c].res = "true" =>
              AkoGone(c) /\ ~addonSecret[c] /\ snap[c].deleting
  BY DEF CleanupInv, UserInv, ResInv, UserDone, ResDone, SeenDeleting

LEMMA AviKeeps ==
  ASSUME TypeOK, CleanupInv, NEW c \in Clusters, RunAVI(c)
  PROVE  CleanupInv'
<1>1. /\ c \in todo /\ pc = "avi" /\ snap \in [Clusters -> ClusterObj]
      /\ UNCHANGED <<cluster, clusterCache, snap, todo, pc, obj, addonSecret, ako>>
  BY DEF RunAVI, TypeOK, apiVars, cacheVars, sideVars, AviUserNormal, AviUserKept,
     AviUserWaits, AviUserDeleteSkipped, AviUserDelete, AviUserDeleteFails
<1>2. \A d \in Clusters : AkoGone(d)' = AkoGone(d) /\ addonSecret'[d] = addonSecret[d]
  BY <1>1 DEF AkoGone
<1>3. CASE AviUserNormal(c)
  <2>1. \A d \in Clusters : d # c /\ AccountGone(d) => AccountGone(d)'
    BY <1>3 DEF AviUserNormal, AccountGone, OwnAccount, TypeOK
  <2>2. ~snap[c].deleting /\ obj.state = "live" /\ cur' = c /\ work' = Labelled(c)
    BY <1>3 DEF AviUserNormal, RunOn
  <2>3. work'.user = snap[c].user /\ work'.res = snap[c].res
    BY <1>1, <2>2, CopyFacts
  <2> QED
    BY Zenon, <1>1, <1>2, <2>1, <2>2, <2>3, EntryFacts, RunKeeps
<1>4. CASE AviUserKept(c) \/ AviUserWaits(c) \/ AviUserDeleteFails(c)
  <2>1. \A d \in Clusters : AccountGone(d)' = AccountGone(d)
    BY Zenon, <1>4 DEF AviUserKept, AviUserWaits, AviUserDeleteFails, AccountGone, OwnAccount, sideVars
  <2>2. cur' = c /\ work' \in {Labelled(c), CleaningUser(c)}
    BY <1>4 DEF AviUserKept, AviUserWaits, AviUserDeleteFails, RunOn
  <2>3. /\ work'.user = "true" => snap[c].user = "true"
        /\ work'.res = snap[c].res /\ work'.fins = snap[c].fins
    BY <1>1, <2>2, CopyFacts
  <2>4. ~again' => ~again /\ ~snap[c].deleting
    BY <1>4 DEF AviUserKept, AviUserWaits, AviUserDeleteFails
  <2> QED
    BY Zenon, <1>1, <1>2, <2>1, <2>2, <2>3, <2>4, EntryFacts, RunKeeps
<1>5. CASE AviUserDeleteSkipped(c)
  <2>1. \A d \in Clusters : AccountGone(d)' = AccountGone(d)
    BY <1>5 DEF AviUserDeleteSkipped, AccountGone, OwnAccount, sideVars
  <2>2. /\ cur' = c /\ work' = [CleaningUser(c) EXCEPT !.user = "true"]
        /\ snap[c].deleting /\ snap[c].res = "true" /\ again' = again
        /\ NothingToDelete(c)
    BY <1>5 DEF AviUserDeleteSkipped, RunOn
  <2>3. work'.res = snap[c].res /\ work'.fins = snap[c].fins
    BY <1>1, <2>2, CopyFacts
  <2>4. AccountGone(c)
    BY <1>1, <2>2, EntryFacts DEF NothingToDelete, AccountGone, OwnAccount
  <2> QED
    BY <1>1, <1>2, <2>1, <2>2, <2>3, <2>4, EntryFacts, RunKeeps
<1>6. CASE AviUserDelete(c)
  <2>1. \A d \in Clusters : AccountGone(d) => AccountGone(d)'
    BY <1>6 DEF AviUserDelete, AccountGone, OwnAccount, TypeOK
  <2>2. /\ cur' = c /\ snap[c].deleting /\ snap[c].res = "true"
        /\ \/ work' = CleaningUser(c) /\ again' = TRUE
           \/ /\ work' = [CleaningUser(c) EXCEPT !.user = "true"]
              /\ ~aviUser'[c] /\ ~mcSecret'[c] /\ again' = again
    <3>1. PICK done \in 0..2 :
            /\ again' = (again \/ done < 2)
            /\ aviUser' = [aviUser EXCEPT ![c] = @ /\ done = 0]
            /\ mcSecret' = [mcSecret EXCEPT ![c] = @ /\ done < 2]
            /\ RunOn(c, IF done = 2 THEN [CleaningUser(c) EXCEPT !.user = "true"]
                                    ELSE CleaningUser(c))
      BY Zenon, <1>6 DEF AviUserDelete
    <3>2. CASE done = 2
      <4>1. ~aviUser'[c] /\ ~mcSecret'[c]
        <5>1. /\ aviUser'[c] = (aviUser[c] /\ done = 0)
              /\ mcSecret'[c] = (mcSecret[c] /\ done < 2)
          BY <3>1, Zenon DEF TypeOK
        <5>2. ~(done < 2) /\ done # 0
          BY <3>2
        <5> QED
          BY <5>1, <5>2, Zenon
      <4>2. ~(done < 2)
        BY <3>2
      <4>3. again' = again
        <5>1. again \in BOOLEAN
          BY DEF TypeOK
        <5> QED
          BY <3>1, <4>2, <5>1, Zenon
      <4>4. cur' = c /\ work' = [CleaningUser(c) EXCEPT !.user = "true"]
        BY <3>1, <3>2 DEF RunOn
      <4> QED
        BY <1>6, <4>1, <4>3, <4>4, Zenon DEF AviUserDelete
    <3>3. CASE done < 2
      <4>1. again' = TRUE
        BY <3>1, <3>3, Zenon
      <4>2. cur' = c /\ work' = CleaningUser(c)
        BY <3>1, <3>3 DEF RunOn
      <4> QED
        BY <1>6, <4>1, <4>2, Zenon DEF AviUserDelete
    <3>4. done = 2 \/ done < 2
      OBVIOUS
    <3> QED
      BY <3>2, <3>3, <3>4, Zenon
  <2>3. work'.res = snap[c].res /\ work'.fins = snap[c].fins
    BY Zenon, <1>1, <2>2, CopyFacts
  <2>4. /\ work'.user = "true" => AccountGone(c)'
        /\ ~again' => AccountGone(c)' /\ ~again
    <3>1. CASE work' = CleaningUser(c) /\ again' = TRUE
      BY <1>1, <2>1, <3>1, CopyFacts, EntryFacts
    <3>2. CASE ~aviUser'[c] /\ ~mcSecret'[c] /\ again' = again
      BY <3>2 DEF AccountGone, OwnAccount
    <3> QED
      BY Zenon, <2>2, <3>1, <3>2
  <2> QED
    BY <1>1, <1>2, <2>1, <2>2, <2>3, <2>4, EntryFacts, RunKeeps
<1> QED
  BY <1>3, <1>4, <1>5, <1>6 DEF RunAVI

LEMMA AfterDeleteFacts ==
  ASSUME NEW o \in ClusterObj, NEW finished \in BOOLEAN
  PROVE  LET w == AfterReconcileDelete(o, finished)
         IN /\ w.user = o.user
            /\ w.fins = IF Releasable(o, finished) THEN o.fins \ {"akoo"} ELSE o.fins
            /\ w.res = IF ~AsksAko(o) THEN o.res ELSE IF finished THEN "true" ELSE "false"
<1>1. CASE Releasable(o, finished)
  <2>1. RemoveFinalizer(o) \in ClusterObj /\ RemoveFinalizer(o).user = o.user
        /\ RemoveFinalizer(o).fins = o.fins \ {"akoo"} /\ RemoveFinalizer(o).res = o.res
    BY DEF RemoveFinalizer, ClusterObj
  <2> QED
    BY <1>1, <2>1 DEF AfterReconcileDelete, ClusterObj
<1>2. CASE ~Releasable(o, finished)
  BY <1>2 DEF AfterReconcileDelete, ClusterObj
<1> QED
  BY Zenon, <1>1, <1>2

LEMMA ClustersKeeps ==
  ASSUME TypeOK, CleanupInv, NEW c \in Clusters, RunClusters(c)
  PROVE  CleanupInv'
<1>1. /\ c \in todo /\ pc = "clusters" /\ snap \in [Clusters -> ClusterObj]
      /\ UNCHANGED <<cluster, clusterCache, snap, todo, pc, obj, mcSecret, aviUser>>
  BY DEF RunClusters, TypeOK, apiVars, cacheVars, AdoptCluster, AbandonCluster,
     ReleaseCluster
<1>2. \A d \in Clusters : AccountGone(d)' = AccountGone(d)
  BY <1>1 DEF AccountGone, OwnAccount
<1>3. CASE AdoptCluster(c)
  <2>1. ~snap[c].deleting /\ cur' = c /\ UNCHANGED ako
    BY <1>3 DEF AdoptCluster, RunOn
  <2>2. \A d \in Clusters : d # c => addonSecret'[d] = addonSecret[d]
    BY <1>3 DEF AdoptCluster, AddonSecretOn, TypeOK
  <2>3. work'.user = snap[c].user /\ work'.res = snap[c].res
    <3>1. work' = [Labelled(c) EXCEPT
                     !.fins = IF c \in Management THEN @ ELSE @ \cup {"akoo"}]
      BY <1>3 DEF AdoptCluster, RunOn
    <3>2. Labelled(c) \in ClusterObj
      BY Zenon, <1>1, LabelledType
    <3>3. work'.user = Labelled(c).user /\ work'.res = Labelled(c).res
      BY <3>1, <3>2 DEF ClusterObj
    <3> QED
      BY <1>1, <3>3, CopyFacts
  <2>4. \A d \in Clusters : AkoGone(d)' = AkoGone(d)
    BY <2>1 DEF AkoGone
  <2> QED
    BY Zenon, <1>1, <1>2, <2>1, <2>2, <2>3, <2>4, EntryFacts, RunKeeps
<1>4. CASE AbandonCluster(c)
  <2>1. ~snap[c].deleting /\ cur' = c /\ UNCHANGED ako
    BY <1>4 DEF AbandonCluster, RunOn
  <2>2. \A d \in Clusters : d # c => addonSecret'[d] = addonSecret[d]
    BY <1>4 DEF AbandonCluster, AddonSecretOff, TypeOK
  <2>3. work'.user = snap[c].user /\ work'.res = snap[c].res
    BY <1>1, <1>4, CopyFacts DEF AbandonCluster, RunOn
  <2>4. \A d \in Clusters : AkoGone(d)' = AkoGone(d)
    BY <2>1 DEF AkoGone
  <2> QED
    BY Zenon, <1>1, <1>2, <2>1, <2>2, <2>3, <2>4, EntryFacts, RunKeeps
<1>5. CASE ReleaseCluster(c)
  <2> DEFINE o == Labelled(c)
  <2>1. PICK okAddon \in BOOLEAN, told \in BOOLEAN, ok \in BOOLEAN, finished \in BOOLEAN :
          /\ AddonSecretOff(c, okAddon)
          /\ ako' = [ako EXCEPT
               ![c] = IF AsksAko(o) /\ told THEN AfterDeleteConfig(@) ELSE @]
          /\ finished => o.res = "true" \/ CleanupFinished(ako'[c])
          /\ work' = AfterReconcileDelete(o, finished)
    BY Zenon, <1>5 DEF ReleaseCluster, RunOn
  <2>2. cur' = c /\ snap[c].deleting
    BY <1>5 DEF ReleaseCluster, RunOn
  <2>3. o \in ClusterObj /\ o.fins = snap[c].fins /\ o.res = snap[c].res /\ o.user = snap[c].user
    BY Zenon, <1>1, LabelledType, CopyFacts
  <2> HIDE DEF o
  <2>4. /\ work'.user = o.user
        /\ work'.fins = IF Releasable(o, finished) THEN o.fins \ {"akoo"} ELSE o.fins
        /\ work'.res = IF ~AsksAko(o) THEN o.res ELSE IF finished THEN "true" ELSE "false"
    BY Zenon, <2>1, <2>3, AfterDeleteFacts
  <2>5. \A d \in Clusters : AkoGone(d) /\ ~addonSecret[d] => AkoGone(d)' /\ ~addonSecret'[d]
    BY <2>1 DEF AddonSecretOff, AkoGone, AfterDeleteConfig, TypeOK
  <2>6. AddonDeletionReliable => ~addonSecret'[c]
    BY Zenon, <2>1 DEF AddonDeletionReliable, AddonSecretOff, Outcome, TypeOK
  <2>7. AddonDeletionReliable /\ work'.res = "true" => AkoGone(c)' /\ ~addonSecret'[c]
    <3>1. CASE o.res = "true"
      BY Zenon, <1>1, <2>3, <2>5, <3>1, EntryFacts
    <3>2. CASE o.res # "true"
      BY <2>1, <2>4, <2>6, <3>2 DEF CleanupFinished, AkoGone
    <3> QED
      BY <3>1, <3>2
  <2>9. \/ work'.fins = snap[c].fins
        \/ /\ work'.fins = snap[c].fins \ {"akoo"}
           /\ snap[c].user = "true" /\ work'.res = "true"
    <3>1. CASE Releasable(o, finished)
      BY <2>1, <2>3, <2>4, <3>1 DEF Releasable, AsksAko
    <3>2. CASE ~Releasable(o, finished)
      BY <2>3, <2>4, <3>2
    <3> QED
      BY <3>1, <3>2
  <2>10. work'.user = "true" => AccountGone(c)'
    BY Zenon, <1>1, <1>2, <2>3, <2>4, EntryFacts
  <2> QED
    BY Zenon, <1>1, <1>2, <2>2, <2>5, <2>7, <2>9, <2>10, RunKeeps
<1> QED
  BY <1>3, <1>4, <1>5 DEF RunClusters

\* What a patch of the ADC worker does to the server's copy.
LEMMA PatchWrites ==
  ASSUME TypeOK, CleanupInv, NEW c \in Clusters, PatchCluster(c)
  PROVE  /\ \A d \in Clusters : d # c => cluster'[d] = cluster[d]
         /\ cluster'[c].deleting = cluster[c].deleting
         /\ cluster[c].deleting => cluster'[c].fins \subseteq cluster[c].fins
         /\ cluster'[c].fins = cluster[c].fins
              \/ (cluster'[c].fins = work.fins /\ work.fins # snap[c].fins)
         /\ cluster'[c].user \in {cluster[c].user, work.user}
         /\ cluster'[c].res \in {cluster[c].res, work.res}
<1>1. /\ cluster[c] \in ClusterObj /\ snap[c] \in ClusterObj /\ work \in ClusterObj
  BY DEF TypeOK
<1>2. PICK ok1 \in BOOLEAN, ok2 \in BOOLEAN :
        cluster' = [cluster EXCEPT ![c] =
          PatchedMeta(PatchedStatus(cluster[c], snap[c], work, ok1), snap[c], work, ok2)]
  BY Zenon DEF PatchCluster
<1> DEFINE o == PatchedStatus(cluster[c], snap[c], work, ok1)
           p == PatchedMeta(o, snap[c], work, ok2)
<1>3. o \in ClusterObj
  BY Zenon, <1>1, PatchedStatusType
<1>4. /\ o = PatchedStatus(cluster[c], snap[c], work, ok1)
      /\ p = PatchedMeta(o, snap[c], work, ok2)
  OBVIOUS
<1>5. cluster'[c] = p /\ \A d \in Clusters : d # c => cluster'[d] = cluster[d]
  BY Zenon, <1>2 DEF TypeOK
<1> HIDE DEF o, p
<1>6. /\ o.deleting = cluster[c].deleting /\ o.fins = cluster[c].fins
      /\ o.user \in {cluster[c].user, work.user} /\ o.res \in {cluster[c].res, work.res}
  BY <1>1, <1>4, PatchedStatusFacts
<1>7. /\ p.deleting = o.deleting /\ p.user = o.user /\ p.res = o.res
      /\ o.deleting => p.fins \subseteq o.fins
      /\ p.fins = o.fins \/ (p.fins = work.fins /\ work.fins # snap[c].fins)
  BY <1>3, <1>4, PatchedFacts
<1> QED
  BY <1>5, <1>6, <1>7

LEMMA PatchKeeps ==
  ASSUME TypeOK, CleanupInv, NEW c \in Clusters, PatchCluster(c)
  PROVE  CleanupInv'
<1>1. /\ cur = c /\ c \in todo /\ NoCluster \notin Clusters
      /\ cur' = NoCluster /\ todo' = todo \ {c}
      /\ UNCHANGED <<clusterCache, sideVars, pc, obj, again>>
  BY ConstantsAssumption DEF PatchCluster, CleanupInv, CopiesInv, cacheVars
<1>2. /\ snap'[c].deleting = snap[c].deleting
      /\ snap'[c].user # "true" /\ snap'[c].res # "true"
      /\ \A d \in Clusters : d # c => snap'[d] = snap[d]
  BY DEF PatchCluster, TypeOK, Blank
<1>3. /\ \A d \in Clusters : d # c => cluster'[d] = cluster[d]
      /\ cluster'[c].deleting = cluster[c].deleting
      /\ cluster[c].deleting => cluster'[c].fins \subseteq cluster[c].fins
      /\ cluster'[c].user \in {cluster[c].user, work.user}
      /\ cluster'[c].res \in {cluster[c].res, work.res}
  BY Zenon, PatchWrites
<1>4. CopiesInv'
  BY Zenon, <1>1, <1>2, <1>3 DEF CleanupInv, CopiesInv
<1>5. \A d \in Clusters :
        /\ UserDone(d)' => UserDone(d)
        /\ ResDone(d)' => ResDone(d)
        /\ SeenDeleting(d) => SeenDeleting(d)'
  <2> SUFFICES ASSUME NEW d \in Clusters
               PROVE  /\ UserDone(d)' => UserDone(d)
                      /\ ResDone(d)' => ResDone(d)
                      /\ SeenDeleting(d) => SeenDeleting(d)'
    OBVIOUS
  <2>1. CASE d = c
    BY Zenon, <1>1, <1>2, <1>3, <2>1 DEF UserDone, ResDone, SeenDeleting
  <2>2. CASE d # c
    BY <1>1, <1>2, <1>3, <2>2 DEF UserDone, ResDone, SeenDeleting
  <2> QED
    BY <2>1, <2>2
<1>6. \A d \in Clusters : AccountGone(d)' = AccountGone(d) /\ AkoGone(d)' = AkoGone(d)
  BY <1>1 DEF AccountGone, AkoGone, OwnAccount, sideVars
<1>7. UserInv'
  BY <1>5, <1>6 DEF CleanupInv, UserInv
<1>8. ResInv'
  BY <1>1, <1>5, <1>6 DEF CleanupInv, ResInv, sideVars
<1>9. WorkInv'
  BY <1>1 DEF WorkInv
<1>10. AdcInv'
  <2> SUFFICES ASSUME (obj.state # "live" /\ pc \in {"avi", "patchADC"} /\ ~again)',
                      NEW d \in Clusters,
                      (snap[d].deleting /\ (d \notin todo \/ cur = d))'
               PROVE  (AccountGone(d) /\ (AddonDeletionReliable =>
                         AkoGone(d) /\ ~addonSecret[d]))'
    BY DEF AdcInv
  <2>1. snap[d].deleting /\ (d \notin todo \/ cur = d)
    BY <1>1, <1>2
  <2>2. AccountGone(d) /\ (AddonDeletionReliable => AkoGone(d) /\ ~addonSecret[d])
    BY <1>1, <2>1 DEF CleanupInv, AdcInv
  <2> QED
    BY <1>1, <1>6, <2>2 DEF sideVars
<1> QED
  BY <1>4, <1>7, <1>8, <1>9, <1>10 DEF CleanupInv

\* The Cluster worker, and what users and Cluster API do to the objects.
LEMMA ServerKeeps ==
  ASSUME TypeOK, CleanupInv, NEW c \in Clusters,
         \/ PatchReconciled(c) \/ DeleteCluster(c) \/ CapiRemovesFinalizer(c)
         \/ Relabel(c) \/ ReadyChanges(c) \/ CapiAddsFinalizer(c)
  PROVE  CleanupInv'
<1>0. cluster[c] \in ClusterObj
  BY DEF TypeOK
<1>1. CASE PatchReconciled(c)
  <2>1. PICK ok \in BOOLEAN :
          cluster' = [cluster EXCEPT ![c] = PatchedMeta(cluster[c], cc.before, cc.after, ok)]
    BY Zenon, <1>1 DEF PatchReconciled
  <2>2. UNCHANGED ReadVars
    BY <1>1 DEF PatchReconciled, ReadVars, cacheVars, sideVars, workerVars
  <2> DEFINE o == PatchedMeta(cluster[c], cc.before, cc.after, ok)
  <2>3. /\ o = PatchedMeta(cluster[c], cc.before, cc.after, ok)
        /\ cluster' = [cluster EXCEPT ![c] = o]
    BY <2>1
  <2> HIDE DEF o
  <2>4. /\ o.deleting = cluster[c].deleting /\ o.user = cluster[c].user
        /\ o.res = cluster[c].res
        /\ cluster[c].deleting => o.fins \subseteq cluster[c].fins
    BY <1>0, <2>3 DEF PatchedMeta, PatchMetadata, MetadataForbidden, ClusterObj
  <2> QED
    BY Zenon, <2>2, <2>3, <2>4, ServerWrite
<1>2. CASE DeleteCluster(c)
  <2> DEFINE o == [cluster[c] EXCEPT !.deleting = TRUE]
  <2>1. cluster' = [cluster EXCEPT ![c] = o] /\ ~cluster[c].deleting /\ UNCHANGED ReadVars
    BY <1>2 DEF DeleteCluster, ReadVars, cacheVars, sideVars, workerVars
  <2>2. o.user = cluster[c].user /\ o.res = cluster[c].res
    BY <1>0 DEF ClusterObj
  <2> HIDE DEF o
  <2> QED
    BY Zenon, <2>1, <2>2, ServerWrite
<1>3. CASE CapiRemovesFinalizer(c)
  <2> DEFINE o == [cluster[c] EXCEPT !.fins = @ \ {"capi"}]
  <2>1. cluster' = [cluster EXCEPT ![c] = o] /\ UNCHANGED ReadVars
    BY <1>3 DEF CapiRemovesFinalizer, ReadVars, cacheVars, sideVars, workerVars
  <2>2. /\ o.user = cluster[c].user /\ o.res = cluster[c].res
        /\ o.deleting = cluster[c].deleting /\ o.fins \subseteq cluster[c].fins
    BY <1>0 DEF ClusterObj
  <2> HIDE DEF o
  <2> QED
    BY Zenon, <2>1, <2>2, ServerWrite
<1>4. ASSUME NEW o, NEW f, Edit(c, o, f), o.user = cluster[c].user, o.res = cluster[c].res
      PROVE  CleanupInv'
  <2>1. cluster' = [cluster EXCEPT ![c] = o] /\ ~cluster[c].deleting /\ UNCHANGED ReadVars
    BY <1>4 DEF Edit, ReadVars, cacheVars, sideVars, workerVars
  <2> QED
    BY Zenon, <1>4, <2>1, ServerWrite
<1>5. CASE Relabel(c) \/ ReadyChanges(c)
  BY <1>4, <1>5 DEF Relabel, ReadyChanges
<1>6. CASE CapiAddsFinalizer(c)
  <2> DEFINE o == [cluster[c] EXCEPT !.fins = @ \cup {"capi"}]
  <2>1. o.user = cluster[c].user /\ o.res = cluster[c].res
    BY <1>0 DEF ClusterObj
  <2>2. Edit(c, o, facts[c])
    BY <1>6 DEF CapiAddsFinalizer
  <2> HIDE DEF o
  <2> QED
    BY Zenon, <1>4, <2>1, <2>2
<1> QED
  BY <1>1, <1>2, <1>3, <1>5, <1>6

LEMMA InitCleanup == Init => CleanupInv
<1> SUFFICES ASSUME Init PROVE CleanupInv
  OBVIOUS
<1>1. /\ NoCluster \notin Clusters /\ todo = {} /\ cur = NoCluster /\ pc = "idle"
      /\ clusterCache = cluster
  BY ConstantsAssumption DEF Init
<1>2. \A c \in Clusters : /\ snap[c] = Blank
                          /\ cluster[c] \in {Blank, [Blank EXCEPT !.fins = {"capi"}]}
  BY Zenon DEF Init
<1>3. \A o \in {Blank, [Blank EXCEPT !.fins = {"capi"}]} :
        o.deleting = FALSE /\ o.user # "true" /\ o.res # "true"
  BY DEF Blank
<1>4. \A c \in Clusters : ~UserDone(c) /\ ~ResDone(c)
  BY Zenon, <1>1, <1>2, <1>3 DEF UserDone, ResDone
<1>5. CopiesInv
  BY <1>1, <1>2, <1>3 DEF CopiesInv
<1> QED
  BY Zenon, <1>1, <1>4, <1>5 DEF CleanupInv, UserInv, ResInv, WorkInv, AdcInv

LEMMA NextCleanup == TypeOK /\ CleanupInv /\ [Next]_vars => CleanupInv'
<1> SUFFICES ASSUME TypeOK, CleanupInv, [Next]_vars PROVE CleanupInv'
  OBVIOUS
<1>1. CASE AdcWorker
  BY <1>1, BetweenKeeps, AviKeeps, ClustersKeeps, PatchKeeps DEF AdcWorker
<1>2. CASE ClusterWorker
  <2>1. ASSUME NEW c \in Clusters, ReconcileCluster(c) PROVE CleanupInv'
    BY <2>1, NoWrite DEF ReconcileCluster, ReadVars, apiVars, cacheVars, sideVars, workerVars
  <2> QED
    BY <1>2, <2>1, ServerKeeps DEF ClusterWorker
<1>3. CASE Crash
  BY <1>3, BetweenKeeps
<1>4. CASE Environment
  <2>1. CASE SyncADC \/ DeleteADC
    BY <2>1, NoWrite DEF SyncADC, DeleteADC, ReadVars, apiVars, cacheVars, sideVars, workerVars
  <2> QED
    BY <1>4, <2>1, SyncKeeps, ServerKeeps, OutsideKeeps DEF Environment
<1>5. CASE UNCHANGED vars
  BY <1>5, NoWrite DEF vars, ReadVars, apiVars, cacheVars, sideVars, workerVars
<1> QED
  BY <1>1, <1>2, <1>3, <1>4, <1>5 DEF Next

-----------------------------------------------------------------------------
(***************************************************************************)
(* The theorems.                                                           *)
(***************************************************************************)

\* Whatever copies of a Cluster the API server, the informer cache, the last
\* list and the worker hold, and whatever fails between their steps, a cleanup
\* condition that is True in any of them is earned and stays so.
THEOREM CleanupInvariant == Spec => []CleanupInv
  BY TypeCorrect, InitCleanup, NextCleanup, PTL DEF Spec

\* AviUserCleanupSucceeded is True only of Clusters without account and Secret
\* (reconcileAviUserDelete, and no reconcileAviUserNormal afterwards).
THEOREM UserCleanupIsSound == Spec => []UserCleanupSound
<1>1. CleanupInv => UserCleanupSound
  BY DEF CleanupInv, UserInv, UserDone, UserCleanupSound
<1> QED
  BY <1>1, CleanupInvariant, PTL

\* AviResourceCleanupSucceeded is True only of Clusters where AKO is gone and
\* will not be installed again, provided that no deletion of an add-on Secret
\* fails (cleanup, which runs even then).
THEOREM ResourceCleanupIsSound ==
  ASSUME AddonDeletionReliable
  PROVE  Spec => []ResourceCleanupSound
<1>1. CleanupInv => ResourceCleanupSound
  BY DEF CleanupInv, ResInv, ResDone, ResourceCleanupSound
<1> QED
  BY <1>1, CleanupInvariant, PTL

\* The ADC worker is done with a Cluster when it patches it, or restarts.
LEMMA LeavingCluster ==
  ASSUME TypeOK, [Next]_vars, NEW c \in Clusters, cur = c, cur' # c
  PROVE  PatchCluster(c) \/ UNCHANGED cluster
<1>0. c # NoCluster
  BY ConstantsAssumption
<1>1. CASE AdcWorker
  <2>1. ASSUME NEW d \in Clusters, PatchCluster(d) PROVE PatchCluster(c)
    BY Zenon, <2>1 DEF PatchCluster
  <2> QED
    BY Zenon, <1>0, <1>1, <2>1 DEF AdcWorker, StartReconcile, ListAVI, ListClusters, EndPhase,
       PatchADC, RunAVI, RunClusters, apiVars
<1>2. CASE ClusterWorker
  BY Zenon, <1>2 DEF ClusterWorker, ReconcileCluster, PatchReconciled, workerVars
<1>3. CASE Crash
  BY <1>3 DEF Crash, apiVars
<1>4. CASE Environment
  BY <1>4 DEF Environment, SyncADC, SyncCluster, DeleteADC, DeleteCluster, Edit, Relabel,
     ReadyChanges, CapiAddsFinalizer, CapiRemovesFinalizer, CollectSecret, AkoStep,
     InstallAddon, UninstallAddon, StartAko, FinishAko, workerVars
<1>5. CASE UNCHANGED vars
  BY <1>5 DEF vars, workerVars
<1> QED
  BY <1>1, <1>2, <1>3, <1>4, <1>5 DEF Next

\* ReconcileDelete's release of a Cluster comes after AKO's cleanup and after
\* the deletion of the account, under the same proviso.
THEOREM ReleasedClean ==
  ASSUME AddonDeletionReliable
  PROVE  Spec => ReleasedOnlyClean
<1>1. ASSUME TypeOK, CleanupInv, [Next]_vars, NEW c \in Clusters,
             cur = c, cur' # c, snap[c].deleting,
             "akoo" \in cluster[c].fins, "akoo" \notin cluster'[c].fins
      PROVE  AkoGone(c) /\ AccountGone(c)
  <2>1. PatchCluster(c)
    BY <1>1, LeavingCluster
  <2>2. cluster'[c].fins = work.fins /\ work.fins # snap[c].fins
    BY <1>1, <2>1, PatchWrites
  <2>3. snap[c].user = "true" /\ work.res = "true"
    BY <1>1, <2>2 DEF CleanupInv, WorkInv
  <2> QED
    BY <1>1, <2>3 DEF CleanupInv, UserInv, ResInv, UserDone, ResDone
<1>2. TypeOK /\ CleanupInv /\ [Next]_vars =>
        [\A c \in Clusters :
           (/\ cur = c /\ cur' # c /\ snap[c].deleting
            /\ "akoo" \in cluster[c].fins /\ "akoo" \notin cluster'[c].fins)
           => AkoGone(c) /\ AccountGone(c)]_vars
  BY <1>1
<1> QED
  BY <1>2, TypeCorrect, CleanupInvariant, PTL DEF Spec, ReleasedOnlyClean

\* The merge patch of a Cluster seen being deleted writes a list of finalizers
\* that lacks no one else's, however old the copy it was computed from.
THEOREM FinalizersKept == Spec => OthersFinalizersKept
<1>1. ASSUME TypeOK, CleanupInv, [Next]_vars, NEW c \in Clusters,
             cur = c, cur' # c, snap[c].deleting, "capi" \in cluster[c].fins
      PROVE  "capi" \in cluster'[c].fins
  <2>1. CASE UNCHANGED cluster
    BY <1>1, <2>1
  <2>2. CASE PatchCluster(c)
    <3>1. c \in todo /\ cluster[c].fins \subseteq snap[c].fins
      BY <1>1, ConstantsAssumption DEF CleanupInv, CopiesInv
    <3>2. work.fins = snap[c].fins \/ work.fins = snap[c].fins \ {"akoo"}
      BY <1>1 DEF CleanupInv, WorkInv
    <3>3. cluster'[c].fins = cluster[c].fins \/ cluster'[c].fins = work.fins
      BY <1>1, <2>2, PatchWrites
    <3> QED
      BY <1>1, <3>1, <3>2, <3>3
  <2> QED
    BY <1>1, <2>1, <2>2, LeavingCluster
<1>2. TypeOK /\ CleanupInv /\ [Next]_vars =>
        [\A c \in Clusters :
           (cur = c /\ cur' # c /\ snap[c].deleting /\ "capi" \in cluster[c].fins)
           => "capi" \in cluster'[c].fins]_vars
  BY <1>1
<1> QED
  BY <1>2, TypeCorrect, CleanupInvariant, PTL DEF Spec, OthersFinalizersKept

\* The ADC's finalizer is removed only after a reconcile in which every
\* Cluster listed as being deleted had been cleaned up (reconcileDelete).
THEOREM AdcGoesLast ==
  ASSUME AddonDeletionReliable
  PROVE  Spec => AdcOutlivesCleanup
<1>1. ASSUME TypeOK, CleanupInv, [Next]_vars, adc.state = "deleting", adc'.state = "absent",
             NEW c \in Clusters, snap[c].deleting
      PROVE  AkoGone(c) /\ AccountGone(c)
  <2>1. PatchADC
    <3>1. adc' # adc
      BY <1>1
    <3>2. CASE AdcWorker
      BY Zenon, <3>1, <3>2 DEF AdcWorker, StartReconcile, ListAVI, ListClusters, EndPhase,
         PatchCluster, RunAVI, RunClusters, apiVars
    <3>3. CASE ClusterWorker
      BY Zenon, <3>1, <3>3 DEF ClusterWorker, ReconcileCluster, PatchReconciled, apiVars
    <3>4. CASE Crash
      BY <3>1, <3>4 DEF Crash, apiVars
    <3>5. CASE Environment
      BY <1>1, <3>1, <3>5 DEF Environment, SyncADC, SyncCluster, DeleteADC, DeleteCluster,
         Edit, Relabel, ReadyChanges, CapiAddsFinalizer, CapiRemovesFinalizer,
         CollectSecret, AkoStep, InstallAddon, UninstallAddon, StartAko, FinishAko, apiVars
    <3>6. CASE UNCHANGED vars
      BY <3>1, <3>6 DEF vars, apiVars
    <3> QED
      BY <1>1, <3>2, <3>3, <3>4, <3>5, <3>6 DEF Next
  <2>2. pc = "patchADC" /\ todo = {}
    BY <1>1, <2>1 DEF PatchADC, CleanupInv, CopiesInv
  <2>3. obj.state # "live" /\ ~again
    <3>1. ~FinalizerAtExit
      BY <1>1, <2>1 DEF PatchADC, TypeOK, AdcObj
    <3> QED
      BY <3>1 DEF FinalizerAtExit
  <2> QED
    BY <1>1, <2>2, <2>3 DEF CleanupInv, AdcInv
<1>2. TypeOK /\ CleanupInv /\ [Next]_vars =>
        [(adc.state = "deleting" /\ adc'.state = "absent") =>
           \A c \in Clusters : snap[c].deleting => AkoGone(c) /\ AccountGone(c)]_vars
  BY <1>1
<1> QED
  BY <1>2, TypeCorrect, CleanupInvariant, PTL DEF Spec, AdcOutlivesCleanup
=============================================================================
