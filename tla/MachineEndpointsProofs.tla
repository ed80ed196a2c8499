------------------------ MODULE MachineEndpointsProofs ------------------------
(***************************************************************************)
(* The safety properties of MachineEndpoints, for any number of Machines,  *)
(* addresses and failures.  The invariant is EndpointsInv, with TypeOK.    *)
(***************************************************************************)
EXTENDS MachineEndpoints, TLAPS, WellFoundedInduction

LEMMA SmallestExists ==
  ASSUME NEW S \in SUBSET Nat, S # {}
  PROVE  \E i \in S : \A j \in S : i <= j
<1> DEFINE R == OpToRel(<, Nat)
<1>1. IsWellFoundedOn(R, Nat)
  BY Zenon, NatLessThanWellFounded
<1>2. \A x, y \in Nat : x < y => <<x, y>> \in R
  BY DEF OpToRel
<1> HIDE DEF R
<1>3. PICK i \in S : \A j \in S : ~(<<j, i>> \in R)
  BY Zenon, <1>1, WFMin
<1>4. i \in Nat /\ \A j \in S : j \in Nat
  OBVIOUS
<1>5. \A j \in S : ~(j < i)
  BY Zenon, <1>2, <1>3, <1>4
<1>6. \A j \in S : i <= j
  BY <1>4, <1>5
<1> QED
  BY <1>6

LEMMA LargestExists ==
  ASSUME NEW n \in Nat, NEW S \in SUBSET (1..n), S # {}
  PROVE  \E i \in S : \A j \in S : j <= i
<1> DEFINE T == {n - i : i \in S}
<1>1. \A i \in S : i \in 1..n /\ n - i \in Nat
  OBVIOUS
<1>2. T \in SUBSET Nat /\ T # {}
  BY Zenon, <1>1
<1>3. PICK k \in T : \A j \in T : k <= j
  BY Zenon, <1>2, SmallestExists
<1>4. PICK i \in S : k = n - i
  BY <1>3
<1>5. \A j \in S : j <= i
  BY <1>1, <1>3, <1>4
<1> QED
  BY <1>5

-----------------------------------------------------------------------------
(***************************************************************************)
(* The Endpoints.                                                          *)
(***************************************************************************)

\* The address a Machine's list is searched for is there.
LEMMA ChosenAddress ==
  ASSUME NEW r \in Reports \cup {<<>>}, External(r) # {}
  PROVE  Last(External(r)) \in External(r)
<1>1. Len(r) \in Nat /\ DOMAIN r = 1..Len(r)
  BY Constants
<1>2. External(r) \in SUBSET (1..Len(r))
  BY <1>1 DEF External
<1>3. \E i \in External(r) : \A j \in External(r) : j <= i
  BY Zenon, <1>1, <1>2, LargestExists
<1> QED
  BY <1>3 DEF Last

\* Replacing an address keeps the Machine and yields an IP address.
LEMMA SyncType ==
  ASSUME NEW a \in Address, NEW r \in Reports \cup {<<>>}
  PROVE  /\ syncEndpointMachineIP(a, r) \in Address
         /\ syncEndpointMachineIP(a, r).node = a.node
<1>1. CASE External(r) = {} \/ \E i \in External(r) : r[i].address = a.ip
  BY <1>1 DEF syncEndpointMachineIP
<1>2. CASE ~(External(r) = {} \/ \E i \in External(r) : r[i].address = a.ip)
  <2>1. r[Last(External(r))].address \in IPs
    BY <1>2, ChosenAddress DEF External
  <2> DEFINE x == r[Last(External(r))].address
  <2>2. syncEndpointMachineIP(a, r) = [a EXCEPT !.ip = x]
    BY <1>2 DEF syncEndpointMachineIP
  <2> HIDE DEF x
  <2> QED
    BY <2>1, <2>2 DEF Address, x
<1> QED
  BY <1>1, <1>2

Unique(S) == \A a, b \in S : a.node = b.node => a = b

\* Adding or refreshing Machine m touches no other Machine's address.
LEMMA AddFacts ==
  ASSUME NEW S \in SUBSET Address, NEW m \in Machines, NEW r \in Reports \cup {<<>>},
         Unique(S), NEW T, T = addMachineIpToEndpoints(S, m, r)
  PROVE  /\ T \in SUBSET Address
         /\ Nodes(S) \subseteq Nodes(T) /\ Nodes(T) \subseteq Nodes(S) \cup {m}
         /\ Unique(T)
<1>1. CASE m \in Nodes(S)
  <2> DEFINE f(a) == IF a.node = m THEN syncEndpointMachineIP(a, r) ELSE a
  <2>1. T = {f(a) : a \in S}
    BY <1>1 DEF addMachineIpToEndpoints
  <2>2. \A a \in S : f(a) \in Address /\ f(a).node = a.node
    BY SyncType
  <2> HIDE DEF f
  <2>3. T \in SUBSET Address
    BY <2>1, <2>2
  <2>4. Nodes(T) = Nodes(S)
    BY <2>1, <2>2 DEF Nodes
  <2>5. Unique(T)
    BY <2>1, <2>2 DEF Unique
  <2> QED
    BY <2>3, <2>4, <2>5
<1>2. CASE m \notin Nodes(S)
  <2> DEFINE A == {[node |-> m, ip |-> r[i].address] :
                     i \in {j \in Suitable(r) : j = First(Suitable(r))}}
  <2>1. T = S \cup A
    BY <1>2 DEF addMachineIpToEndpoints
  <2>2. /\ \A a \in A : a \in Address /\ a.node = m
        /\ \A a, b \in A : a = b
    <3>1. \A i \in Suitable(r) : r[i].address \in IPs
      BY DEF Suitable, External
    <3>2. \A a \in A : \E i \in Suitable(r) :
            i = First(Suitable(r)) /\ a = [node |-> m, ip |-> r[i].address]
      OBVIOUS
    <3> HIDE DEF A
    <3> QED
      BY <3>1, <3>2 DEF Address
  <2> HIDE DEF A
  <2>3. T \in SUBSET Address
    BY <2>1, <2>2
  <2>4. Nodes(S) \subseteq Nodes(T) /\ Nodes(T) \subseteq Nodes(S) \cup {m}
    BY <2>1, <2>2 DEF Nodes
  <2>5. Unique(T)
    BY <1>2, <2>1, <2>2 DEF Unique, Nodes
  <2> QED
    BY <2>3, <2>4, <2>5
<1> QED
  BY <1>1, <1>2

\* The addresses a reconcile of Machine m wants, from an up-to-date copy.
LEMMA WantedFacts ==
  ASSUME TypeOK, EndpointsInv, UpToDate, NEW m \in Machines
  PROVE  /\ Wanted(m) \in SUBSET Address
         /\ Nodes(Wanted(m)) \subseteq Nodes(ep.addrs) \cup {m}
         /\ Nodes(ep.addrs) \ {m} \subseteq Nodes(Wanted(m))
         /\ mcache[m].phase = "deleting" =>
              /\ m \notin Nodes(Wanted(m))
              /\ Nodes(Wanted(m)) \subseteq Nodes(ep.addrs)
         /\ mcache[m].phase # "deleting" => Nodes(ep.addrs) \subseteq Nodes(Wanted(m))
         /\ Unique(Wanted(m))
<1>1. /\ epCache.addrs = ep.addrs /\ ep.addrs \in SUBSET Address /\ Unique(ep.addrs)
      /\ mcache[m].addrs \in Reports \cup {<<>>}
  BY DEF UpToDate, TypeOK, EndpointsObj, MachineObj, EndpointsInv, OneAddressEach, Unique
<1>2. CASE mcache[m].phase = "deleting"
  <2>1. Wanted(m) = {a \in ep.addrs : a.node # m}
    BY <1>1, <1>2 DEF Wanted, removeMachineIpFromEndpoints
  <2> QED
    BY <1>1, <1>2, <2>1 DEF Nodes, Unique
<1>3. CASE mcache[m].phase # "deleting"
  <2>1. Wanted(m) = addMachineIpToEndpoints(ep.addrs, m, mcache[m].addrs)
    BY <1>1, <1>3 DEF Wanted
  <2> QED
    BY <1>1, <1>3, <2>1, AddFacts
<1> QED
  BY <1>2, <1>3

\* What CreateOrUpdateHAEndpoints does to the Endpoints for Machine m.
LEMMA EndpointsWrite ==
  ASSUME TypeOK, EndpointsInv, NEW m \in Machines,
         mcache[m].phase \in {"live", "deleting"},
         HAEndpointsOK(m) \/ HAEndpointsFail(m)
  PROVE  /\ ep' \in EndpointsObj /\ (~ep'.exists => ep'.addrs = {})
         /\ OneAddressEach'
         /\ \A n \in Nodes(ep'.addrs) \ Nodes(ep.addrs) : mcache[n].phase = "live"
         /\ \A n \in Nodes(ep.addrs) \ Nodes(ep'.addrs) : mcache[n].phase = "deleting"
         /\ (HAEndpointsOK(m) /\ VIPProvider /\ m \in ControlPlane
              /\ mcache[m].phase = "deleting") => m \notin Nodes(ep'.addrs)
<1>1. /\ ep \in EndpointsObj /\ (~ep.exists => ep.addrs = {}) /\ OneAddressEach
      /\ ep.addrs \in SUBSET Address
  BY DEF TypeOK, EndpointsInv, EndpointsObj
<1>2. CASE HAEndpointsOK(m) /\ VIPProvider /\ m \in ControlPlane
  <2>1. UpToDate /\ ep' = [exists |-> TRUE, addrs |-> Wanted(m)]
    BY <1>2 DEF HAEndpointsOK, WriteEndpoints
  <2>2. ep'.addrs = Wanted(m) /\ ep'.exists
    BY <2>1
  <2>3. /\ Wanted(m) \in SUBSET Address
        /\ Nodes(Wanted(m)) \subseteq Nodes(ep.addrs) \cup {m}
        /\ Nodes(ep.addrs) \ {m} \subseteq Nodes(Wanted(m))
        /\ mcache[m].phase = "deleting" =>
             /\ m \notin Nodes(Wanted(m))
             /\ Nodes(Wanted(m)) \subseteq Nodes(ep.addrs)
        /\ mcache[m].phase # "deleting" => Nodes(ep.addrs) \subseteq Nodes(Wanted(m))
        /\ Unique(Wanted(m))
    BY Zenon, <2>1, WantedFacts
  <2>4. ep' \in EndpointsObj
    BY <2>1, <2>3 DEF EndpointsObj
  <2>5. OneAddressEach'
    BY <2>2, <2>3 DEF OneAddressEach, Unique
  <2>6. \A n \in Nodes(ep'.addrs) \ Nodes(ep.addrs) : n = m /\ mcache[m].phase = "live"
    BY <2>2, <2>3
  <2>7. \A n \in Nodes(ep.addrs) \ Nodes(ep'.addrs) : n = m /\ mcache[m].phase = "deleting"
    BY <2>2, <2>3
  <2> QED
    BY <2>2, <2>3, <2>4, <2>5, <2>6, <2>7
<1>3. CASE HAEndpointsOK(m) /\ ~(VIPProvider /\ m \in ControlPlane)
  BY <1>1, <1>3 DEF HAEndpointsOK, OneAddressEach
<1>4. CASE HAEndpointsFail(m) /\ ~HAEndpointsOK(m)
  <2>1. UNCHANGED ep \/ ep' = [exists |-> TRUE, addrs |-> ep.addrs]
    BY <1>4 DEF HAEndpointsFail, WriteEndpoints
  <2>2. ep'.addrs = ep.addrs /\ (ep'.exists = ep.exists \/ ep'.exists) /\ ep' \in EndpointsObj
    <3>1. CASE UNCHANGED ep
      BY <1>1, <3>1
    <3>2. CASE ep' = [exists |-> TRUE, addrs |-> ep.addrs]
      BY Zenon, <1>1, <3>2 DEF EndpointsObj
    <3> QED
      BY <2>1, <3>1, <3>2
  <2>3. OneAddressEach'
    BY <1>1, <2>2 DEF OneAddressEach
  <2>4. (~ep'.exists => ep'.addrs = {}) /\ Nodes(ep'.addrs) = Nodes(ep.addrs)
    BY <1>1, <2>2
  <2> QED
    BY <1>4, <2>2, <2>3, <2>4
<1> QED
  BY <1>2, <1>3, <1>4

-----------------------------------------------------------------------------
(***************************************************************************)
(* The invariant.                                                          *)
(***************************************************************************)

LEMMA InitInv == Init => TypeOK /\ EndpointsInv
<1> SUFFICES ASSUME Init PROVE TypeOK /\ EndpointsInv
  OBVIOUS
<1>1. machine \in [Machines -> MachineObj] /\ mcache = machine
  BY DEF Init, MachineObj
<1>2. cluster \in ClusterObj /\ cluster.phase = "live" /\ ccache = cluster
  <2>1. PICK b \in BOOLEAN : cluster = [phase |-> "live", avi |-> b, fin |-> b, ready |-> TRUE]
    BY DEF Init
  <2> QED
    BY Zenon, <2>1 DEF Init, ClusterObj
<1>3. ep \in EndpointsObj /\ epCache = ep /\ ep.addrs = {}
  BY DEF Init, EndpointsObj
<1>4. run \in RunObj /\ run.hook = "keep"
  BY Zenon DEF Init, Idle, RunObj
<1>5. queue = {} /\ upsets \in 0..MaxUpsets
  BY Constants DEF Init
<1>6. \A m \in Machines : mcache[m].phase = "new"
  BY DEF Init
<1>7. TypeOK
  BY <1>1, <1>2, <1>3, <1>4, <1>5 DEF TypeOK
<1>8. EndpointsInv
  BY <1>2, <1>3, <1>4, <1>6 DEF EndpointsInv, OneAddressEach
<1> QED
  BY <1>7, <1>8

LEMMA UpsetType ==
  ASSUME upsets \in 0..MaxUpsets, Upset \/ UNCHANGED upsets
  PROVE  upsets' \in 0..MaxUpsets
  BY Constants DEF Upset

\* The hook comes off for the Cluster's sake only without the finalizer.
LEMMA HookFacts ==
  ASSUME TypeOK, NEW m \in Machines
  PROVE  /\ HookPatch(m) \in {"add", "remove", "keep"}
         /\ (HookPatch(m) = "remove" /\ ccache.phase = "deleting" /\ ccache.avi) => ~ccache.fin
<1>1. HookPatch(m) \in {"add", "remove", "keep"}
  BY DEF HookPatch
<1>2. HookPatch(m) = "remove" => HookDecision(m) = "remove"
  BY DEF HookPatch
<1>3. (HookDecision(m) = "remove" /\ ccache.phase = "deleting" /\ ccache.avi) => ~ccache.fin
  BY Constants DEF HookDecision, TypeOK, ClusterObj
<1> QED
  BY <1>1, <1>2, <1>3

\* The work of a reconcile up to its deferred patch.
LEMMA ReconcileKeeps ==
  ASSUME TypeOK, EndpointsInv, NEW m \in Machines, Reconcile(m) \/ ReconcileFails(m)
  PROVE  TypeOK' /\ EndpointsInv'
<1>1. /\ mcache[m].phase \in {"live", "deleting"} /\ queue' \subseteq Machines
      /\ UNCHANGED <<machine, cluster, mcache, ccache, epCache>>
  BY Zenon DEF Reconcile, ReconcileFails, Take, caches, TypeOK
<1>2. \/ HAEndpointsOK(m) \/ HAEndpointsFail(m)
      \/ UNCHANGED ep
  BY Zenon DEF Reconcile, ReconcileFails
<1>3. /\ ep' \in EndpointsObj /\ (~ep'.exists => ep'.addrs = {})
      /\ OneAddressEach'
  <2>1. CASE UNCHANGED ep
    BY <2>1 DEF TypeOK, EndpointsInv, OneAddressEach
  <2>2. CASE HAEndpointsOK(m) \/ HAEndpointsFail(m)
    BY Zenon, <1>1, <2>2, EndpointsWrite
  <2> QED
    BY <1>2, <2>1, <2>2
<1>4. upsets' \in 0..MaxUpsets
  BY Zenon, UpsetType DEF TypeOK, Reconcile, ReconcileFails, HAEndpointsFail
<1>5. PICK h \in {HookPatch(m), "keep"}, f \in BOOLEAN :
        /\ run' = [m |-> m, hook |-> h, failed |-> f,
                   dying |-> mcache[m].phase = "deleting",
                   cleaning |-> ccache.phase = "deleting" /\ ccache.avi]
        /\ h = "keep" \/ HAEndpointsOK(m)
  BY Zenon DEF Reconcile, ReconcileFails, EndWork
<1>6. /\ run'.m = m /\ run'.hook = h
      /\ run'.dying = (mcache[m].phase = "deleting")
      /\ run'.cleaning = (ccache.phase = "deleting" /\ ccache.avi)
  BY Zenon, <1>5
<1>7. run' \in RunObj
  <2>1. h \in {"add", "remove", "keep"}
    BY HookFacts
  <2>2. (ccache.phase = "deleting" /\ ccache.avi) \in BOOLEAN
    BY DEF TypeOK, ClusterObj
  <2> QED
    BY Zenon, <1>5, <2>1, <2>2 DEF RunObj
<1>8. TypeOK'
  BY <1>1, <1>3, <1>4, <1>7 DEF TypeOK
<1>9. (run.hook = "remove" /\ run.cleaning)' => cluster.phase # "live" /\ ~cluster.fin
  <2>1. ccache.phase # "live" => cluster.phase # "live" /\ (cluster.fin => ccache.fin)
    BY DEF EndpointsInv
  <2> QED
    BY Zenon, <1>5, <1>6, <2>1, HookFacts
<1>10. (run.hook = "remove" /\ run.dying /\ VIPProvider /\ run.m \in ControlPlane)' =>
         m \notin Nodes(ep'.addrs)
  BY Zenon, <1>1, <1>5, <1>6, EndpointsWrite
<1>11. EndpointsInv'
  BY <1>1, <1>3, <1>6, <1>9, <1>10 DEF EndpointsInv
<1> QED
  BY <1>8, <1>11

\* A step on one Machine's object never undoes its deletion.
LEMMA MachineWrite ==
  ASSUME TypeOK, EndpointsInv, NEW m \in Machines, NEW o \in MachineObj,
         machine' = [machine EXCEPT ![m] = o],
         machine[m].phase = "deleting" => o.phase \in {"deleting", "gone"},
         machine[m].phase = "gone" => o.phase = "gone",
         UNCHANGED <<cluster, ep, mcache, ccache, epCache>>,
         queue' \subseteq Machines, upsets' \in 0..MaxUpsets,
         run' = run \/ run' = Idle
  PROVE  TypeOK' /\ EndpointsInv'
<1>1. machine' \in [Machines -> MachineObj] /\ machine'[m] = o
      /\ \A n \in Machines : n # m => machine'[n] = machine[n]
  BY DEF TypeOK
<1>2. run' \in RunObj /\ (run' = run \/ run'.hook = "keep")
  <2>1. Idle \in RunObj /\ Idle.hook = "keep"
    BY Zenon DEF Idle, RunObj
  <2> QED
    BY <2>1 DEF TypeOK
<1>3. TypeOK'
  BY <1>1, <1>2 DEF TypeOK
<1>4. \A n \in Machines : mcache'[n].phase = "deleting" => machine'[n].phase \in {"deleting", "gone"}
  BY <1>1 DEF EndpointsInv
<1>5. EndpointsInv'
  BY <1>2, <1>4 DEF EndpointsInv, OneAddressEach
<1> QED
  BY <1>3, <1>5

LEMMA PatchKeeps ==
  ASSUME TypeOK, EndpointsInv, PatchMachine
  PROVE  TypeOK' /\ EndpointsInv'
<1> DEFINE m == run.m
<1>1. /\ m \in Machines /\ run' = Idle /\ queue' \subseteq Machines
      /\ UNCHANGED <<cluster, ep, mcache, ccache, epCache>>
  BY DEF PatchMachine, TypeOK, RunObj, caches
<1>2. upsets' \in 0..MaxUpsets
  BY UpsetType DEF PatchMachine, TypeOK
<1>3. machine[m] \in MachineObj
  BY <1>1 DEF TypeOK
<1>4. \E b \in BOOLEAN : machine' = [machine EXCEPT ![m] = [machine[m] EXCEPT !.hook = b]]
  <2>1. machine[m].hook \in BOOLEAN
    BY <1>3 DEF MachineObj
  <2>2. machine = [machine EXCEPT ![m] = [machine[m] EXCEPT !.hook = machine[m].hook]]
    <3>1. [machine[m] EXCEPT !.hook = machine[m].hook] = machine[m]
      BY <1>3 DEF MachineObj
    <3> QED
      BY <3>1 DEF TypeOK
  <2>3. \/ machine' = machine
        \/ machine' = [machine EXCEPT ![m].hook = (run.hook = "add")]
    BY DEF PatchMachine
  <2> QED
    BY Zenon, <2>1, <2>2, <2>3
<1>5. PICK b \in BOOLEAN : machine' = [machine EXCEPT ![m] = [machine[m] EXCEPT !.hook = b]]
  BY Zenon, <1>4
<1>6. /\ [machine[m] EXCEPT !.hook = b] \in MachineObj
      /\ [machine[m] EXCEPT !.hook = b].phase = machine[m].phase
  BY <1>3 DEF MachineObj
<1> HIDE DEF m
<1> QED
  BY Zenon, <1>1, <1>2, <1>5, <1>6, MachineWrite

LEMMA MachinesKeep ==
  ASSUME TypeOK, EndpointsInv, NEW m \in Machines,
         \/ CreateMachine(m) \/ ReportAddresses(m) \/ DeleteMachine(m) \/ TerminateMachine(m)
  PROVE  TypeOK' /\ EndpointsInv'
<1>1. machine[m] \in MachineObj /\ upsets' \in 0..MaxUpsets
  BY Zenon, UpsetType DEF TypeOK, CreateMachine, ReportAddresses, DeleteMachine, TerminateMachine
<1>2. ASSUME NEW from, NEW o \in MachineObj, MachineStep(m, from, o),
             machine[m].phase = "deleting" => o.phase \in {"deleting", "gone"},
             machine[m].phase = "gone" => o.phase = "gone"
      PROVE  TypeOK' /\ EndpointsInv'
  BY Zenon, <1>1, <1>2, MachineWrite DEF MachineStep, caches, TypeOK
<1>3. CASE CreateMachine(m)
  <2>1. PICK r \in Reports \cup {<<>>} :
          MachineStep(m, {"new"}, [machine[m] EXCEPT !.phase = "live", !.addrs = r])
    BY Zenon, <1>3 DEF CreateMachine
  <2>2. machine[m].phase = "new"
    BY <2>1 DEF MachineStep
  <2>3. [machine[m] EXCEPT !.phase = "live", !.addrs = r] \in MachineObj
    BY Zenon, <1>1 DEF MachineObj
  <2> QED
    BY <1>2, <2>1, <2>2, <2>3
<1>4. CASE ReportAddresses(m)
  <2>1. PICK r \in Reports : MachineStep(m, {"live"}, [machine[m] EXCEPT !.addrs = r])
    BY Zenon, <1>4 DEF ReportAddresses
  <2>2. machine[m].phase = "live"
    BY <2>1 DEF MachineStep
  <2>3. [machine[m] EXCEPT !.addrs = r] \in MachineObj
    BY <1>1 DEF MachineObj
  <2> QED
    BY <1>2, <2>1, <2>2, <2>3
<1>5. CASE DeleteMachine(m)
  <2>1. [machine[m] EXCEPT !.phase = "deleting"] \in MachineObj /\ machine[m].phase = "live"
    BY <1>1, <1>5 DEF MachineObj, DeleteMachine, MachineStep
  <2> QED
    BY <1>2, <1>5, <2>1 DEF DeleteMachine
<1>6. CASE TerminateMachine(m)
  <2>1. /\ [machine[m] EXCEPT !.phase = "gone"] \in MachineObj
        /\ [machine[m] EXCEPT !.phase = "gone"].phase = "gone"
    BY <1>1 DEF MachineObj
  <2> QED
    BY Zenon, <1>2, <1>6, <2>1 DEF TerminateMachine
<1> QED
  BY <1>3, <1>4, <1>5, <1>6

\* A step on the Cluster's object: a Cluster being deleted stays so, and gets
\* its finalizer back no more.
LEMMA ClusterWrite ==
  ASSUME TypeOK, EndpointsInv, NEW from, NEW o \in ClusterObj, ClusterStep(from, o),
         upsets' \in 0..MaxUpsets,
         cluster.phase # "live" => o.phase # "live" /\ (o.fin => cluster.fin)
  PROVE  TypeOK' /\ EndpointsInv'
<1>1. cluster' = o /\ UNCHANGED <<machine, ep, mcache, ccache, epCache, queue, run>>
  BY DEF ClusterStep, caches
<1>2. TypeOK'
  BY <1>1 DEF TypeOK
<1>3. /\ ccache.phase # "live" => cluster'.phase # "live" /\ (cluster'.fin => ccache.fin)
      /\ run.hook = "remove" /\ run.cleaning => cluster'.phase # "live" /\ ~cluster'.fin
  BY <1>1 DEF EndpointsInv
<1>4. EndpointsInv'
  BY <1>1, <1>3 DEF EndpointsInv, OneAddressEach
<1> QED
  BY <1>2, <1>4

LEMMA ClusterKeeps ==
  ASSUME TypeOK, EndpointsInv,
         \/ ManageCluster \/ LetGoCluster \/ ReadyChanges \/ DeleteCluster
         \/ ReleaseCluster \/ ClusterGone
  PROVE  TypeOK' /\ EndpointsInv'
<1>1. cluster \in ClusterObj /\ upsets' \in 0..MaxUpsets
  BY UpsetType DEF TypeOK, ManageCluster, LetGoCluster, ReadyChanges, DeleteCluster,
     ReleaseCluster, ClusterGone
<1>2. CASE ManageCluster
  <2>1. [cluster EXCEPT !.avi = TRUE, !.fin = TRUE] \in ClusterObj
    BY Zenon, <1>1 DEF ClusterObj
  <2>2. cluster.phase = "live"
    BY <1>2 DEF ManageCluster, ClusterStep
  <2> QED
    BY Zenon, <1>1, <1>2, <2>1, <2>2, ClusterWrite DEF ManageCluster
<1>3. CASE LetGoCluster
  <2>1. [cluster EXCEPT !.avi = FALSE, !.fin = FALSE] \in ClusterObj
    BY Zenon, <1>1 DEF ClusterObj
  <2>2. cluster.phase = "live"
    BY <1>3 DEF LetGoCluster, ClusterStep
  <2> QED
    BY Zenon, <1>1, <1>3, <2>1, <2>2, ClusterWrite DEF LetGoCluster
<1>4. CASE ReadyChanges
  <2>1. [cluster EXCEPT !.ready = ~@] \in ClusterObj
    BY Zenon, <1>1 DEF ClusterObj
  <2>2. cluster.phase = "live"
    BY <1>4 DEF ReadyChanges, ClusterStep
  <2> QED
    BY Zenon, <1>1, <1>4, <2>1, <2>2, ClusterWrite DEF ReadyChanges
<1>5. CASE DeleteCluster
  <2>1. [cluster EXCEPT !.phase = "deleting"] \in ClusterObj
    BY <1>1 DEF ClusterObj
  <2>2. cluster.phase = "live"
    BY <1>5 DEF DeleteCluster, ClusterStep
  <2> QED
    BY Zenon, <1>1, <1>5, <2>1, <2>2, ClusterWrite DEF DeleteCluster
<1>6. CASE ReleaseCluster
  <2> DEFINE o == [cluster EXCEPT !.fin = FALSE]
  <2>1. o \in ClusterObj /\ o.phase = cluster.phase /\ ~o.fin
    BY Zenon, <1>1 DEF ClusterObj
  <2>2. ClusterStep("deleting", o)
    BY <1>6 DEF ReleaseCluster
  <2> HIDE DEF o
  <2> QED
    BY <1>1, <2>1, <2>2, ClusterWrite
<1>7. CASE ClusterGone
  <2> DEFINE o == [cluster EXCEPT !.phase = "gone"]
  <2>1. o \in ClusterObj /\ o.phase = "gone" /\ o.fin = cluster.fin
    BY <1>1 DEF ClusterObj
  <2>2. ClusterStep("deleting", o)
    BY <1>7 DEF ClusterGone
  <2> HIDE DEF o
  <2> QED
    BY <1>1, <2>1, <2>2, ClusterWrite
<1> QED
  BY <1>2, <1>3, <1>4, <1>5, <1>6, <1>7

\* Filling the caches, from the objects as they are.
LEMMA CachesKeep ==
  ASSUME TypeOK, EndpointsInv,
         \A m \in Machines : mcache'[m] \in {mcache[m], machine[m]},
         mcache' \in [Machines -> MachineObj],
         ccache' \in {ccache, cluster}, epCache' \in {epCache, ep},
         UNCHANGED <<machine, cluster, ep>>, queue' \subseteq Machines,
         run' = run \/ run' = Idle, upsets' \in 0..MaxUpsets
  PROVE  TypeOK' /\ EndpointsInv'
<1>1. run' \in RunObj /\ (run' = run \/ run'.hook = "keep")
  <2>1. Idle \in RunObj /\ Idle.hook = "keep"
    BY Zenon DEF Idle, RunObj
  <2> QED
    BY <2>1 DEF TypeOK
<1>2. TypeOK'
  BY <1>1 DEF TypeOK
<1>3. \A m \in Machines :
        mcache'[m].phase = "deleting" => machine[m].phase \in {"deleting", "gone"}
  BY DEF EndpointsInv
<1>4. ccache'.phase # "live" => cluster.phase # "live" /\ (cluster.fin => ccache'.fin)
  BY DEF EndpointsInv
<1>5. EndpointsInv'
  BY <1>1, <1>3, <1>4 DEF EndpointsInv, OneAddressEach
<1> QED
  BY <1>2, <1>5

LEMMA RestKeeps ==
  ASSUME TypeOK, EndpointsInv,
         \/ Restart \/ Informers \/ EnsureEndpoints
         \/ \E m \in Machines : ReconcileMissing(m)
         \/ UNCHANGED vars
  PROVE  TypeOK' /\ EndpointsInv'
<1>1. CASE Restart
  <2>1. upsets' \in 0..MaxUpsets
    BY <1>1, UpsetType DEF Restart, TypeOK
  <2> QED
    BY <1>1, <2>1, CachesKeep DEF Restart, TypeOK
<1>2. CASE SyncCluster \/ SyncEndpoints
  BY <1>2, CachesKeep DEF SyncCluster, SyncEndpoints, TypeOK
<1>3. ASSUME NEW m \in Machines, SyncMachine(m) PROVE TypeOK' /\ EndpointsInv'
  <2>1. /\ mcache' \in [Machines -> MachineObj]
        /\ \A n \in Machines : mcache'[n] \in {mcache[n], machine[n]}
    BY <1>3 DEF SyncMachine, TypeOK
  <2> QED
    BY <1>3, <2>1, CachesKeep DEF SyncMachine, TypeOK
<1>4. CASE EnsureEndpoints
  <2>1. ep' = [exists |-> TRUE, addrs |-> {}] /\ ep.addrs = {}
        /\ UNCHANGED <<machine, cluster, mcache, ccache, epCache, queue, run, upsets>>
    BY <1>4 DEF EnsureEndpoints, WriteEndpoints, caches, EndpointsInv
  <2>2. ep' \in EndpointsObj /\ ep'.exists /\ ep'.addrs = ep.addrs
    BY <2>1 DEF EndpointsObj
  <2>3. TypeOK'
    BY <2>1, <2>2 DEF TypeOK
  <2>4. EndpointsInv'
    BY <2>1, <2>2 DEF EndpointsInv, OneAddressEach
  <2> QED
    BY <2>3, <2>4
<1>5. CASE UNCHANGED vars \/ \E m \in Machines : ReconcileMissing(m)
  <2>1. /\ UNCHANGED <<machine, cluster, ep, mcache, ccache, epCache, run, upsets>>
        /\ queue' \subseteq Machines
    BY <1>5 DEF vars, ReconcileMissing, Take, caches, TypeOK
  <2> QED
    BY <2>1, CachesKeep DEF TypeOK
<1> QED
  BY <1>1, <1>2, <1>3, <1>4, <1>5 DEF Informers

LEMMA NextInv == TypeOK /\ EndpointsInv /\ [Next]_vars => TypeOK' /\ EndpointsInv'
  BY ReconcileKeeps, PatchKeeps, RestKeeps, MachinesKeep, ClusterKeeps
     DEF Next, Worker, Environment

-----------------------------------------------------------------------------
(***************************************************************************)
(* The theorems.                                                           *)
(***************************************************************************)

\* The types, and with them that only IP addresses get into the Endpoints
\* (addMachineIpToEndpoints, syncEndpointMachineIP).
THEOREM TypeCorrect == Spec => []TypeOK
  BY InitInv, NextInv, PTL DEF Spec

\* The invariant: what the informer cache shows of a deletion is right, and
\* what Reconcile decided stays justified until its deferred patch.
THEOREM Invariant == Spec => []EndpointsInv
  BY InitInv, NextInv, PTL DEF Spec

\* No Machine has two addresses in the Endpoints (addMachineIpToEndpoints).
THEOREM OneAddress == Spec => []OneAddressEach
<1>1. EndpointsInv => OneAddressEach
  BY DEF EndpointsInv
<1> QED
  BY <1>1, Invariant, PTL

\* Only the deferred patch of the Machine controller takes hooks off, and only
\* the hook of the Machine it is for.
LEMMA OnlyThePatch ==
  ASSUME TypeOK, [Next]_vars, NEW m \in Machines, HookRemoved(m)
  PROVE  PatchMachine /\ run.m = m /\ run.hook = "remove"
<1>1. machine[m] \in MachineObj /\ machine \in [Machines -> MachineObj]
  BY DEF TypeOK
<1>2. machine' # machine
  BY DEF HookRemoved
<1>3. ASSUME NEW n \in Machines, NEW from, NEW o, MachineStep(n, from, o),
             o.hook = machine[n].hook
      PROVE  FALSE
  BY <1>1, <1>3 DEF MachineStep, HookRemoved
<1>4. ASSUME NEW n \in Machines,
             \/ CreateMachine(n) \/ ReportAddresses(n) \/ DeleteMachine(n)
             \/ TerminateMachine(n)
      PROVE  FALSE
  <2>1. machine[n] \in MachineObj
    BY DEF TypeOK
  <2>2. \A r : /\ [machine[n] EXCEPT !.phase = "live", !.addrs = r].hook = machine[n].hook
              /\ [machine[n] EXCEPT !.addrs = r].hook = machine[n].hook
    BY Zenon, <2>1 DEF MachineObj
  <2>3. /\ [machine[n] EXCEPT !.phase = "deleting"].hook = machine[n].hook
        /\ [machine[n] EXCEPT !.phase = "gone"].hook = machine[n].hook
    BY <2>1 DEF MachineObj
  <2> QED
    BY Zenon, <1>3, <1>4, <2>2, <2>3 DEF CreateMachine, ReportAddresses, DeleteMachine,
       TerminateMachine
<1>5. PatchMachine
  <2>1. CASE Worker
    BY Zenon, <1>2, <2>1 DEF Worker, ReconcileMissing, Reconcile, ReconcileFails
  <2>2. CASE Environment
    BY <1>2, <1>4, <2>2 DEF Environment, ManageCluster, LetGoCluster, ReadyChanges,
       DeleteCluster, ReleaseCluster, ClusterGone, ClusterStep, EnsureEndpoints
  <2>3. CASE Restart \/ Informers \/ UNCHANGED vars
    BY <1>2, <2>3 DEF Restart, Informers, SyncCluster, SyncEndpoints, SyncMachine, vars
  <2> QED
    BY <2>1, <2>2, <2>3 DEF Next
<1>6. machine' = [machine EXCEPT ![run.m].hook = (run.hook = "add")] /\ run.hook # "keep"
  BY <1>2, <1>5 DEF PatchMachine
<1>7. run.m \in Machines /\ run.hook \in {"add", "remove", "keep"}
  BY <1>5 DEF PatchMachine, TypeOK, RunObj
<1>8. run.m = m
  BY <1>1, <1>6, <1>7 DEF HookRemoved
<1>9. machine'[m].hook = (run.hook = "add")
  BY <1>1, <1>6, <1>8 DEF MachineObj
<1> QED
  BY Zenon, <1>5, <1>6, <1>7, <1>8, <1>9 DEF HookRemoved

\* A control plane Machine is out of the Endpoints before its termination goes
\* on, for every interleaving of events and failures (Reconcile's early return
\* on the errors of CreateOrUpdateHAEndpoints).
THEOREM EndpointsLeftFirst == Spec => LeavesEndpointsFirst
<1>1. TypeOK /\ EndpointsInv /\ [Next]_vars =>
        [\A m \in ControlPlane :
           HookRemoved(m) /\ run.dying /\ VIPProvider => m \notin Nodes(ep.addrs)]_vars
  BY OnlyThePatch, Constants DEF EndpointsInv
<1> QED
  BY <1>1, TypeCorrect, Invariant, PTL DEF Spec, LeavesEndpointsFirst

\* The hook comes off the Machines of a Cluster seen being deleted only after
\* the finalizer is gone (reconcileMachineDeletionHook).
THEOREM HookGoesLast == Spec => HookOutlivesFinalizer
<1>1. TypeOK /\ EndpointsInv /\ [Next]_vars =>
        [\A m \in Machines : HookRemoved(m) /\ run.cleaning => ~cluster.fin]_vars
  BY OnlyThePatch DEF EndpointsInv
<1> QED
  BY <1>1, TypeCorrect, Invariant, PTL DEF Spec, HookOutlivesFinalizer

\* An update of the Endpoints adds no Machine known to be going, and drops none
\* that is staying, whatever copies it was computed from (the resource version
\* in CreateOrUpdateHAEndpoints' Update).
THEOREM EditsAreOwn == Spec => EndpointsEditsAreOwn
<1>1. ASSUME TypeOK, EndpointsInv, [Next]_vars
      PROVE  \A n \in Machines :
               /\ n \in Nodes(ep'.addrs) \ Nodes(ep.addrs) => mcache[n].phase = "live"
               /\ n \in Nodes(ep.addrs) \ Nodes(ep'.addrs) =>
                    machine[n].phase \in {"deleting", "gone"}
  <2>1. CASE UNCHANGED ep
    BY <2>1
  <2>2. ASSUME NEW m \in Machines, mcache[m].phase \in {"live", "deleting"},
               HAEndpointsOK(m) \/ HAEndpointsFail(m)
        PROVE  \A n \in Machines :
                 /\ n \in Nodes(ep'.addrs) \ Nodes(ep.addrs) => mcache[n].phase = "live"
                 /\ n \in Nodes(ep.addrs) \ Nodes(ep'.addrs) =>
                      machine[n].phase \in {"deleting", "gone"}
    <3>1. /\ \A n \in Nodes(ep'.addrs) \ Nodes(ep.addrs) : mcache[n].phase = "live"
          /\ \A n \in Nodes(ep.addrs) \ Nodes(ep'.addrs) : mcache[n].phase = "deleting"
      BY Zenon, <1>1, <2>2, EndpointsWrite
    <3> QED
      BY <1>1, <3>1 DEF EndpointsInv
  <2>3. CASE Worker
    BY Zenon, <2>1, <2>2, <2>3 DEF Worker, PatchMachine, ReconcileMissing, Reconcile, ReconcileFails
  <2>4. CASE EnsureEndpoints
    <3>1. ep'.addrs = {} /\ ep.addrs = {}
      BY <1>1, <2>4 DEF EnsureEndpoints, WriteEndpoints, EndpointsInv
    <3> QED
      BY <3>1
  <2>5. CASE Environment /\ ~EnsureEndpoints
    BY Zenon, <2>1, <2>5 DEF Environment, ManageCluster, LetGoCluster, ReadyChanges, DeleteCluster,
       ReleaseCluster, ClusterGone, ClusterStep, CreateMachine, ReportAddresses,
       DeleteMachine, TerminateMachine, MachineStep
  <2>6. CASE Restart \/ Informers \/ UNCHANGED vars
    BY <2>1, <2>6 DEF Restart, Informers, SyncCluster, SyncEndpoints, SyncMachine, vars
  <2> QED
    BY <1>1, <2>3, <2>4, <2>5, <2>6 DEF Next
<1>2. TypeOK /\ EndpointsInv /\ [Next]_vars =>
        [\A m \in Machines :
           /\ m \in Nodes(ep'.addrs) \ Nodes(ep.addrs) => mcache[m].phase = "live"
           /\ m \in Nodes(ep.addrs) \ Nodes(ep'.addrs) =>
                machine[m].phase \in {"deleting", "gone"}]_vars
  BY <1>1
<1> QED
  BY <1>2, TypeCorrect, Invariant, PTL DEF Spec, EndpointsEditsAreOwn
=============================================================================
