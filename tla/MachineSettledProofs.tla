------------------------- MODULE MachineSettledProofs -------------------------
(***************************************************************************)
(* What a quiet Machine controller has achieved, for any number of         *)
(* Machines, addresses and failures.  The invariant is SettledInv, on top  *)
(* of TypeOK and EndpointsInv.                                             *)
(***************************************************************************)
EXTENDS MachineEndpointsProofs

\* The Machines the controller knows of and has nothing to do for.
Resting == {m \in Machines \ queue : mcache[m].phase \in {"live", "deleting"}}

HooksSettled == \A m \in Resting : HookSettled(m)
AllEndpointsSettled == \A m \in Resting : EndpointsSettled(m)

LEMMA SettledParts ==
  SettledInv <=>
    /\ HooksSettled /\ AllEndpointsSettled
    /\ Nodes(ep.addrs) \subseteq ControlPlane
    /\ cluster.phase = "gone" => \A m \in Machines : ~Exists(m)
  BY DEF SettledInv, HooksSettled, AllEndpointsSettled, Resting

-----------------------------------------------------------------------------
(***************************************************************************)
(* The hooks.                                                              *)
(***************************************************************************)

\* What the environment does to a Machine leaves its hook alone.
LEMMA HooksStay ==
  ASSUME TypeOK, NEW n \in Machines,
         CreateMachine(n) \/ ReportAddresses(n) \/ DeleteMachine(n) \/ TerminateMachine(n)
  PROVE  /\ \A m \in Machines : machine'[m].hook = machine[m].hook
         /\ UNCHANGED <<cluster, ep, mcache, ccache, epCache, queue, run>>
<1>1. machine[n] \in MachineObj /\ machine \in [Machines -> MachineObj]
  BY DEF TypeOK
<1>2. ASSUME NEW from, NEW o, MachineStep(n, from, o), o.hook = machine[n].hook
      PROVE  /\ \A m \in Machines : machine'[m].hook = machine[m].hook
             /\ UNCHANGED <<cluster, ep, mcache, ccache, epCache, queue, run>>
  BY <1>1, <1>2 DEF MachineStep, caches
<1>3. \A r : /\ [machine[n] EXCEPT !.phase = "live", !.addrs = r].hook = machine[n].hook
             /\ [machine[n] EXCEPT !.addrs = r].hook = machine[n].hook
  BY Zenon, <1>1 DEF MachineObj
<1>4. /\ [machine[n] EXCEPT !.phase = "deleting"].hook = machine[n].hook
      /\ [machine[n] EXCEPT !.phase = "gone"].hook = machine[n].hook
  BY <1>1 DEF MachineObj
<1> QED
  BY Zenon, <1>2, <1>3, <1>4 DEF CreateMachine, ReportAddresses, DeleteMachine, TerminateMachine

\* HookPatch(m) goes by the copies of Machine m and of the Cluster only.
LEMMA SamePatch ==
  ASSUME NEW m, mcache'[m] = mcache[m], UNCHANGED ccache
  PROVE  HookPatch(m)' = HookPatch(m) /\ (Informed(m)' <=> Informed(m))
  BY DEF HookPatch, HookDecision, Informed, SkipCluster

LEMMA HookSame ==
  ASSUME HooksSettled,
         \A m \in Machines : machine'[m].hook = machine[m].hook,
         UNCHANGED <<mcache, ccache, queue, run>>
  PROVE  HooksSettled'
<1> SUFFICES ASSUME NEW m \in Resting' PROVE HookSettled(m)'
  BY DEF HooksSettled
<1>1. m \in Machines /\ m \in Resting /\ HookSettled(m)
  BY DEF Resting, HooksSettled
<1>2. HookPatch(m)' = HookPatch(m) /\ (Informed(m)' <=> Informed(m))
  BY SamePatch
<1> QED
  BY <1>1, <1>2 DEF HookSettled

LEMMA HookReconcile ==
  ASSUME TypeOK, HooksSettled, NEW n \in Machines, Reconcile(n) \/ ReconcileFails(n)
  PROVE  HooksSettled'
<1> SUFFICES ASSUME NEW m \in Resting' PROVE HookSettled(m)'
  BY DEF HooksSettled
<1>1. /\ UNCHANGED <<machine, mcache, ccache>> /\ queue' = queue \ {n} /\ run.m = NoMachine
      /\ m \in Machines
  BY Zenon DEF Reconcile, ReconcileFails, Take, caches, Resting
<1>2. run'.m = n /\ (run'.failed \/ run'.hook = HookPatch(n))
  BY DEF Reconcile, ReconcileFails, EndWork
<1>3. HookPatch(m)' = HookPatch(m) /\ (Informed(m)' <=> Informed(m))
  BY <1>1, SamePatch
<1>4. CASE m = n
  BY <1>2, <1>3, <1>4 DEF HookSettled
<1>5. CASE m # n
  <2>1. m \in Resting
    BY <1>1, <1>5 DEF Resting
  <2>2. HookSettled(m) /\ run.m # m
    BY <1>1, <2>1, Constants DEF HooksSettled
  <2> QED
    BY <1>1, <1>2, <1>3, <1>5, <2>2 DEF HookSettled
<1> QED
  BY <1>4, <1>5

\* The deferred patch makes the hook what the caches want, or what they do not show yet.
LEMMA HookPatched ==
  ASSUME TypeOK, HooksSettled, PatchMachine
  PROVE  HooksSettled'
<1> DEFINE n == run.m
<1> SUFFICES ASSUME NEW m \in Resting' PROVE HookSettled(m)'
  BY DEF HooksSettled
<1>1. /\ UNCHANGED <<mcache, ccache>> /\ queue \subseteq queue' /\ n \in Machines
      /\ m \in Machines
  BY DEF PatchMachine, caches, Resting, TypeOK, RunObj
<1>2. run'.m = NoMachine /\ m # NoMachine
  BY <1>1, Constants DEF PatchMachine, Idle
<1>3. HookPatch(m)' = HookPatch(m) /\ (Informed(m)' <=> Informed(m))
  BY <1>1, SamePatch
<1>4. HookSettled(m)
  BY <1>1 DEF HooksSettled, Resting
<1>5. machine[n] \in MachineObj /\ machine \in [Machines -> MachineObj]
  BY <1>1 DEF TypeOK
<1>6. CASE m # n
  <2>1. machine'[m] = machine[m]
    BY <1>1, <1>5, <1>6 DEF PatchMachine
  <2> QED
    BY <1>1, <1>2, <1>3, <1>4, <1>6, <2>1 DEF HookSettled
<1>7. CASE m = n
  <2>1. m \notin queue'
    BY DEF Resting
  <2>2. /\ ~run.failed
        /\ machine' = IF run.hook # "keep" THEN [machine EXCEPT ![m].hook = (run.hook = "add")]
                      ELSE machine
    BY <1>7, <2>1 DEF PatchMachine
  <2>3. Informed(m) => run.hook = HookPatch(m)
    BY <1>4, <1>7, <2>2 DEF HookSettled
  <2>4. CASE run.hook = "keep"
    BY <1>2, <1>3, <2>3, <2>4 DEF HookSettled
  <2>5. CASE run.hook # "keep"
    <3>1. machine'[m].hook = (run.hook = "add")
      <4>1. machine' = [machine EXCEPT ![m].hook = (run.hook = "add")]
        BY <2>2, <2>5
      <4> QED
        BY <1>1, <1>5, <1>7, <4>1 DEF MachineObj
    <3>2. Informed(m) => (mcache[m].hook <=> run.hook # "add")
      BY <2>3, <2>5 DEF HookPatch
    <3>3. mcache[m].hook \in BOOLEAN
      BY <1>1 DEF TypeOK, MachineObj
    <3>4. Informed(m)' => machine'[m].hook # mcache'[m].hook
      BY Zenon, <1>1, <1>3, <3>1, <3>2, <3>3
    <3> QED
      BY <1>2, <3>4 DEF HookSettled
  <2> QED
    BY <2>4, <2>5
<1> QED
  BY <1>6, <1>7

\* A change of the Cluster wakes every known Machine, or makes no difference to
\* those being deleted.
LEMMA HookCluster ==
  ASSUME TypeOK, EndpointsInv, HooksSettled, SyncCluster
  PROVE  HooksSettled'
<1> SUFFICES ASSUME NEW m \in Resting' PROVE HookSettled(m)'
  BY DEF HooksSettled
<1>1. /\ UNCHANGED <<machine, mcache, run>> /\ ccache' = cluster /\ m \in Machines
      /\ mcache[m].phase \in {"live", "deleting"} /\ m \notin queue'
  BY DEF SyncCluster, Resting
<1>2. SkipCluster(cluster) /\ queue' = queue
  BY <1>1 DEF SyncCluster
<1>3. HookSettled(m)
  BY <1>1, <1>2 DEF HooksSettled, Resting
<1>4. cluster.phase = "live" /\ ccache.phase = "live"
  BY <1>2 DEF SkipCluster, EndpointsInv
<1>5. CASE mcache[m].phase = "deleting"
  <2>1. Informed(m)
    BY <1>4, <1>5 DEF Informed
  <2>2. HookDecision(m) = (IF LBProvider THEN "remove" ELSE "keep")
    BY <1>4, <1>5, Constants DEF HookDecision, TypeOK, ClusterObj
  <2>3. HookDecision(m)' = (IF LBProvider THEN "remove" ELSE "keep")
    BY <1>1, <1>4, <1>5, Constants DEF HookDecision, TypeOK, ClusterObj
  <2>4. HookPatch(m)' = HookPatch(m)
    BY <1>1, <2>2, <2>3 DEF HookPatch
  <2> QED
    BY <1>1, <1>3, <2>1, <2>4 DEF HookSettled
<1>6. CASE mcache[m].phase # "deleting"
  BY <1>1, <1>2, <1>6 DEF HookSettled, Informed
<1> QED
  BY <1>5, <1>6

\* A restart, or news of a Machine, queues the Machines it is about.
LEMMA HookNews ==
  ASSUME TypeOK, HooksSettled,
         \/ Restart \/ \E n \in Machines : SyncMachine(n) \/ ReconcileMissing(n)
  PROVE  HooksSettled'
<1> SUFFICES ASSUME NEW m \in Resting' PROVE HookSettled(m)'
  BY DEF HooksSettled
<1>1. CASE Restart
  BY <1>1 DEF Restart, Resting, Exists
<1>2. ASSUME NEW n \in Machines, SyncMachine(n) \/ ReconcileMissing(n)
      PROVE  HookSettled(m)'
  <2>1. m # n /\ m \in Machines /\ m \notin queue /\ mcache'[m] = mcache[m]
        /\ UNCHANGED <<machine, ccache, run>>
    BY <1>2 DEF SyncMachine, ReconcileMissing, Take, caches, Resting, TypeOK
  <2>2. HookSettled(m)
    BY <2>1 DEF HooksSettled, Resting
  <2>3. HookPatch(m)' = HookPatch(m) /\ (Informed(m)' <=> Informed(m))
    BY <2>1, SamePatch
  <2> QED
    BY <2>1, <2>2, <2>3 DEF HookSettled
<1> QED
  BY <1>1, <1>2

LEMMA HookStep ==
  ASSUME TypeOK, EndpointsInv, HooksSettled, [Next]_vars
  PROVE  HooksSettled'
<1>1. CASE SyncEndpoints \/ EnsureEndpoints \/ UNCHANGED vars
  BY <1>1, HookSame DEF SyncEndpoints, EnsureEndpoints, vars, caches
<1>2. CASE \/ ManageCluster \/ LetGoCluster \/ ReadyChanges \/ DeleteCluster
           \/ ReleaseCluster \/ ClusterGone
  <2>1. UNCHANGED <<machine, mcache, ccache, queue, run>>
    BY <1>2 DEF ManageCluster, LetGoCluster, ReadyChanges, DeleteCluster, ReleaseCluster,
       ClusterGone, ClusterStep, caches
  <2> QED
    BY <2>1, HookSame
<1>3. ASSUME NEW n \in Machines,
             CreateMachine(n) \/ ReportAddresses(n) \/ DeleteMachine(n) \/ TerminateMachine(n)
      PROVE  HooksSettled'
  BY <1>3, HooksStay, HookSame
<1> QED
  BY <1>1, <1>2, <1>3, HookReconcile, HookPatched, HookCluster, HookNews
     DEF Next, Worker, Informers, Environment
-----------------------------------------------------------------------------
(***************************************************************************)
(* The Endpoints.                                                          *)
(***************************************************************************)

\* An address that is replaced, or kept, is one the Machine reports.
LEMMA SyncReported ==
  ASSUME NEW a \in Address, NEW r \in Reports \cup {<<>>}, External(r) # {}
  PROVE  \E i \in External(r) : syncEndpointMachineIP(a, r).ip = r[i].address
<1>1. CASE \E i \in External(r) : r[i].address = a.ip
  BY <1>1 DEF syncEndpointMachineIP
<1>2. CASE ~ \E i \in External(r) : r[i].address = a.ip
  <2> DEFINE x == r[Last(External(r))].address
  <2>1. syncEndpointMachineIP(a, r) = [a EXCEPT !.ip = x]
    BY <1>2 DEF syncEndpointMachineIP
  <2> HIDE DEF x
  <2>2. syncEndpointMachineIP(a, r).ip = x
    BY <2>1 DEF Address
  <2> QED
    BY <2>2, ChosenAddress DEF x
<1> QED
  BY <1>1, <1>2

LEMMA FirstSuitable ==
  ASSUME NEW r \in Reports \cup {<<>>}, Suitable(r) # {}
  PROVE  First(Suitable(r)) \in Suitable(r) /\ Suitable(r) \subseteq External(r)
<1>1. Len(r) \in Nat /\ DOMAIN r = 1..Len(r)
  BY Constants
<1>2. Suitable(r) \in SUBSET Nat
  BY <1>1 DEF Suitable, External
<1>3. \E i \in Suitable(r) : \A j \in Suitable(r) : i <= j
  BY <1>2, SmallestExists
<1> QED
  BY <1>3 DEF First, Suitable

\* Machine m is served after its address was added or refreshed, and the entries of
\* the others are what they were.
LEMMA AddServes ==
  ASSUME NEW S \in SUBSET Address, NEW m \in Machines, NEW r \in Reports \cup {<<>>},
         NEW T, T = addMachineIpToEndpoints(S, m, r)
  PROVE  /\ \A a : a.node # m => (a \in T <=> a \in S)
         /\ Suitable(r) # {} =>
              \E a \in T : \E i \in External(r) : a.node = m /\ a.ip = r[i].address
<1>1. CASE m \in Nodes(S)
  <2> DEFINE f(a) == IF a.node = m THEN syncEndpointMachineIP(a, r) ELSE a
  <2>1. T = {f(a) : a \in S}
    BY <1>1 DEF addMachineIpToEndpoints
  <2>2. \A a \in S : f(a) \in Address /\ f(a).node = a.node /\ (a.node # m => f(a) = a)
    BY SyncType
  <2>3. ASSUME Suitable(r) # {}
        PROVE  \E a \in T : \E i \in External(r) : a.node = m /\ a.ip = r[i].address
    <3>1. PICK b \in S : b.node = m
      BY <1>1 DEF Nodes
    <3>2. External(r) # {}
      BY <2>3 DEF Suitable
    <3>3. PICK i \in External(r) : syncEndpointMachineIP(b, r).ip = r[i].address
      BY <3>2, SyncReported
    <3>4. f(b) \in T /\ f(b).node = m /\ f(b).ip = r[i].address
      BY <2>1, <2>2, <3>1, <3>3
    <3> QED
      BY <3>3, <3>4
  <2> HIDE DEF f
  <2>4. \A a : a.node # m => (a \in T <=> a \in S)
    BY <2>1, <2>2
  <2> QED
    BY <2>3, <2>4
<1>2. CASE m \notin Nodes(S)
  <2> DEFINE A == {[node |-> m, ip |-> r[i].address] :
                     i \in {j \in Suitable(r) : j = First(Suitable(r))}}
  <2>1. T = S \cup A
    BY <1>2 DEF addMachineIpToEndpoints
  <2>2. \A a \in A : a.node = m
    OBVIOUS
  <2>3. ASSUME Suitable(r) # {}
        PROVE  \E a \in T : \E i \in External(r) : a.node = m /\ a.ip = r[i].address
    <3> DEFINE i == First(Suitable(r))
               b == [node |-> m, ip |-> r[i].address]
    <3>1. i \in Suitable(r) /\ i \in External(r)
      BY <2>3, FirstSuitable
    <3>2. b \in A
      BY <3>1
    <3>3. b.node = m /\ b.ip = r[i].address
      OBVIOUS
    <3> QED
      BY <2>1, <3>1, <3>2, <3>3
  <2> HIDE DEF A
  <2> QED
    BY <2>1, <2>2, <2>3
<1> QED
  BY <1>1, <1>2

\* What CreateOrUpdateHAEndpoints achieves for Machine n without an error.
LEMMA EndpointsServe ==
  ASSUME TypeOK, NEW n \in Machines, HAEndpointsOK(n), VIPProvider, n \in ControlPlane
  PROVE  /\ \A a : a.node # n => (a \in ep'.addrs <=> a \in ep.addrs)
         /\ mcache[n].phase = "deleting" => n \notin Nodes(ep'.addrs)
         /\ mcache[n].phase = "live" /\ Suitable(mcache[n].addrs) # {} =>
              \E a \in ep'.addrs : \E i \in External(mcache[n].addrs) :
                a.node = n /\ a.ip = mcache[n].addrs[i].address
<1>1. epCache.addrs = ep.addrs /\ ep'.addrs = Wanted(n)
  BY DEF HAEndpointsOK, UpToDate, WriteEndpoints
<1>2. ep.addrs \in SUBSET Address /\ mcache[n].addrs \in Reports \cup {<<>>}
  BY DEF TypeOK, EndpointsObj, MachineObj
<1>3. CASE mcache[n].phase = "deleting"
  <2>1. ep'.addrs = {a \in ep.addrs : a.node # n}
    BY <1>1, <1>3 DEF Wanted, removeMachineIpFromEndpoints
  <2> QED
    BY <1>3, <2>1 DEF Nodes
<1>4. CASE mcache[n].phase # "deleting"
  <2>1. ep'.addrs = addMachineIpToEndpoints(ep.addrs, n, mcache[n].addrs)
    BY <1>1, <1>4 DEF Wanted
  <2>2. /\ \A a : a.node # n => (a \in ep'.addrs <=> a \in ep.addrs)
        /\ Suitable(mcache[n].addrs) # {} =>
             \E a \in ep'.addrs : \E i \in External(mcache[n].addrs) :
               a.node = n /\ a.ip = mcache[n].addrs[i].address
    <3> DEFINE S == ep.addrs
               r == mcache[n].addrs
               T == ep'.addrs
    <3>1. S \in SUBSET Address /\ r \in Reports \cup {<<>>} /\ T = addMachineIpToEndpoints(S, n, r)
      BY <1>2, <2>1
    <3> HIDE DEF S, r, T
    <3>2. /\ \A a : a.node # n => (a \in T <=> a \in S)
          /\ Suitable(r) # {} => \E a \in T : \E i \in External(r) : a.node = n /\ a.ip = r[i].address
      BY <3>1, AddServes
    <3> QED
      BY <3>2 DEF S, r, T
  <2> QED
    BY <1>4, <2>2
<1> QED
  BY <1>3, <1>4

LEMMA EndpointsSame ==
  ASSUME AllEndpointsSettled, NEW m \in Resting, mcache'[m] = mcache[m],
         \A a : a.node = m => (a \in ep'.addrs <=> a \in ep.addrs),
         run.m = m /\ run.failed => run'.m = m /\ run'.failed
  PROVE  EndpointsSettled(m)'
<1>1. EndpointsSettled(m)
  BY DEF AllEndpointsSettled
<1>2. m \in Nodes(ep'.addrs) <=> m \in Nodes(ep.addrs)
  BY DEF Nodes
<1>3. Suitable(mcache[m].addrs)' = Suitable(mcache[m].addrs)
  BY DEF Suitable, External
<1>4. Served(m, mcache[m].addrs) => Served(m, mcache[m].addrs)'
  BY DEF Served, External
<1> QED
  BY <1>1, <1>2, <1>3, <1>4 DEF EndpointsSettled

LEMMA EndpointsReconcile ==
  ASSUME TypeOK, AllEndpointsSettled, NEW n \in Machines, Reconcile(n) \/ ReconcileFails(n)
  PROVE  AllEndpointsSettled'
<1> SUFFICES ASSUME NEW m \in Resting' PROVE EndpointsSettled(m)'
  BY DEF AllEndpointsSettled
<1>1. /\ UNCHANGED mcache /\ queue' = queue \ {n} /\ run.m = NoMachine /\ m \in Machines
      /\ mcache[m].phase \in {"live", "deleting"} /\ m \notin queue'
  BY Zenon DEF Reconcile, ReconcileFails, Take, caches, Resting
<1>2. m # n => m \in Resting /\ run.m # m
  BY <1>1, Constants DEF Resting
<1>3. CASE ReconcileFails(n)
  <2>1. run'.m = n /\ run'.failed
    BY <1>3 DEF ReconcileFails, EndWork
  <2>2. CASE m = n
    BY <2>1, <2>2 DEF EndpointsSettled
  <2>3. CASE m # n
    <3>1. ep'.addrs = ep.addrs
      BY <1>3 DEF ReconcileFails, HAEndpointsFail, WriteEndpoints
    <3> QED
      BY <1>1, <1>2, <2>3, <3>1, EndpointsSame
  <2> QED
    BY <2>2, <2>3
<1>4. CASE Reconcile(n)
  <2>1. HAEndpointsOK(n)
    BY <1>4 DEF Reconcile
  <2>2. CASE m = n /\ VIPProvider /\ n \in ControlPlane
    <3>1. /\ mcache[m].phase = "deleting" => m \notin Nodes(ep'.addrs)
          /\ mcache[m].phase = "live" /\ Suitable(mcache[m].addrs) # {} =>
               \E a \in ep'.addrs : \E i \in External(mcache[m].addrs) :
                 a.node = m /\ a.ip = mcache[m].addrs[i].address
      BY <2>1, <2>2, EndpointsServe
    <3>2. /\ Suitable(mcache[m].addrs)' = Suitable(mcache[m].addrs)
          /\ External(mcache[m].addrs)' = External(mcache[m].addrs)
      BY <1>1 DEF Suitable, External
    <3> QED
      BY <1>1, <3>1, <3>2 DEF EndpointsSettled, Served
  <2>3. CASE m = n /\ ~(VIPProvider /\ n \in ControlPlane)
    BY <2>3 DEF EndpointsSettled
  <2>4. CASE m # n
    <3>1. \A a : a.node # n => (a \in ep'.addrs <=> a \in ep.addrs)
      <4>1. CASE VIPProvider /\ n \in ControlPlane
        BY <2>1, <4>1, EndpointsServe
      <4>2. CASE ~(VIPProvider /\ n \in ControlPlane)
        BY <2>1, <4>2 DEF HAEndpointsOK
      <4> QED
        BY <4>1, <4>2
    <3>2. \A a : a.node = m => (a \in ep'.addrs <=> a \in ep.addrs)
      BY <2>4, <3>1
    <3> QED
      BY <1>1, <1>2, <2>4, <3>2, EndpointsSame
  <2> QED
    BY <2>2, <2>3, <2>4
<1> QED
  BY <1>3, <1>4

\* No other step changes what the Endpoints say.
LEMMA AddressesStay ==
  ASSUME EndpointsInv, [Next]_vars, ~ \E n \in Machines : Reconcile(n) \/ ReconcileFails(n)
  PROVE  ep'.addrs = ep.addrs
<1>1. CASE EnsureEndpoints
  BY <1>1 DEF EnsureEndpoints, WriteEndpoints, EndpointsInv
<1>2. CASE Worker \/ Restart \/ Informers \/ UNCHANGED vars
  BY <1>2 DEF Worker, PatchMachine, ReconcileMissing, Restart, Informers, SyncCluster,
     SyncEndpoints, SyncMachine, vars
<1>3. CASE Environment /\ ~EnsureEndpoints
  BY Zenon, <1>3 DEF Environment, ManageCluster, LetGoCluster, ReadyChanges, DeleteCluster,
     ReleaseCluster, ClusterGone, ClusterStep, CreateMachine, ReportAddresses,
     DeleteMachine, TerminateMachine, MachineStep
<1> QED
  BY <1>1, <1>2, <1>3 DEF Next

\* A Machine that rests after such a step rested before it, with the same copy, and
\* the end of a failed reconcile queues its Machine.
LEMMA RestingStays ==
  ASSUME TypeOK, [Next]_vars, ~ \E n \in Machines : Reconcile(n) \/ ReconcileFails(n),
         NEW m \in Resting'
  PROVE  /\ m \in Resting /\ mcache'[m] = mcache[m]
         /\ run.m = m /\ run.failed => run'.m = m /\ run'.failed
<1>1. CASE PatchMachine
  <2>1. UNCHANGED mcache /\ queue \subseteq queue' /\ (run.failed => run.m \in queue')
    BY <1>1 DEF PatchMachine, caches
  <2> QED
    BY <2>1 DEF Resting
<1>2. CASE Restart
  BY <1>2 DEF Restart, Resting, Exists
<1>3. CASE \E n \in Machines : SyncMachine(n) \/ ReconcileMissing(n)
  BY <1>3 DEF SyncMachine, ReconcileMissing, Take, caches, Resting, TypeOK
<1>4. CASE SyncCluster \/ SyncEndpoints
  BY <1>4 DEF SyncCluster, SyncEndpoints, Resting
<1>5. CASE Environment \/ UNCHANGED vars
  <2>1. UNCHANGED <<mcache, queue, run>>
    BY Zenon, <1>5 DEF Environment, ManageCluster, LetGoCluster, ReadyChanges, DeleteCluster,
       ReleaseCluster, ClusterGone, ClusterStep, CreateMachine, ReportAddresses,
       DeleteMachine, TerminateMachine, MachineStep, EnsureEndpoints, caches, vars
  <2> QED
    BY <2>1 DEF Resting
<1> QED
  BY <1>1, <1>2, <1>3, <1>4, <1>5 DEF Next, Worker, Informers

LEMMA EndpointsStep ==
  ASSUME TypeOK, EndpointsInv, AllEndpointsSettled, [Next]_vars
  PROVE  AllEndpointsSettled'
<1>1. CASE \E n \in Machines : Reconcile(n) \/ ReconcileFails(n)
  BY <1>1, EndpointsReconcile
<1>2. CASE ~ \E n \in Machines : Reconcile(n) \/ ReconcileFails(n)
  <2> SUFFICES ASSUME NEW m \in Resting' PROVE EndpointsSettled(m)'
    BY DEF AllEndpointsSettled
  <2>1. /\ m \in Resting /\ mcache'[m] = mcache[m]
        /\ run.m = m /\ run.failed => run'.m = m /\ run'.failed
    BY <1>2, RestingStays
  <2>2. ep'.addrs = ep.addrs
    BY <1>2, AddressesStay
  <2> QED
    BY <2>1, <2>2, EndpointsSame
<1> QED
  BY <1>1, <1>2

\* Only control plane Machines get into the Endpoints.
LEMMA NodesStep ==
  ASSUME TypeOK, EndpointsInv, Nodes(ep.addrs) \subseteq ControlPlane, [Next]_vars
  PROVE  Nodes(ep'.addrs) \subseteq ControlPlane
<1>1. ASSUME NEW n \in Machines, HAEndpointsOK(n)
      PROVE  Nodes(ep'.addrs) \subseteq ControlPlane
  <2>1. CASE VIPProvider /\ n \in ControlPlane
    <3>1. \A a : a.node # n => (a \in ep'.addrs <=> a \in ep.addrs)
      BY <1>1, <2>1, EndpointsServe
    <3> QED
      BY <2>1, <3>1 DEF Nodes
  <2>2. CASE ~(VIPProvider /\ n \in ControlPlane)
    BY <1>1, <2>2 DEF HAEndpointsOK
  <2> QED
    BY <2>1, <2>2
<1>2. ASSUME NEW n \in Machines, ReconcileFails(n)
      PROVE  Nodes(ep'.addrs) \subseteq ControlPlane
  BY <1>2 DEF ReconcileFails, HAEndpointsFail, WriteEndpoints
<1> QED
  BY Zenon, <1>1, <1>2, AddressesStay DEF Reconcile

\* A Cluster that is gone has no Machines.
LEMMA GoneStep ==
  ASSUME TypeOK, cluster.phase = "gone" => \A m \in Machines : ~Exists(m), [Next]_vars
  PROVE  cluster'.phase = "gone" => \A m \in Machines : ~Exists(m)'
<1> SUFFICES ASSUME cluster'.phase = "gone", NEW m \in Machines PROVE ~Exists(m)'
  OBVIOUS
<1>1. cluster \in ClusterObj /\ machine \in [Machines -> MachineObj] /\ machine[m] \in MachineObj
  BY DEF TypeOK
<1>2. CASE cluster.phase = "gone"
  <2>1. ASSUME NEW n \in Machines,
               CreateMachine(n) \/ ReportAddresses(n) \/ DeleteMachine(n) \/ TerminateMachine(n)
        PROVE  FALSE
    <3>1. machine[n].phase \notin {"live", "deleting"}
      BY <1>2 DEF Exists
    <3> QED
      BY Zenon, <1>2, <2>1, <3>1 DEF CreateMachine, ReportAddresses, DeleteMachine, TerminateMachine,
         MachineStep
  <2>2. UNCHANGED machine \/ PatchMachine
    BY Zenon, <2>1 DEF Next, Worker, Reconcile, ReconcileFails, ReconcileMissing, Restart, Informers,
       SyncCluster, SyncEndpoints, SyncMachine, Environment, ManageCluster, LetGoCluster,
       ReadyChanges, DeleteCluster, ReleaseCluster, ClusterGone, ClusterStep, EnsureEndpoints, vars
  <2>3. CASE PatchMachine
    <3>1. \/ machine' = machine
          \/ machine' = [machine EXCEPT ![run.m].hook = (run.hook = "add")]
      BY <2>3 DEF PatchMachine
    <3>2. machine'[m].phase = machine[m].phase
      BY <1>1, <3>1 DEF MachineObj
    <3> QED
      BY <1>2, <3>2 DEF Exists
  <2> QED
    BY <1>2, <2>2, <2>3 DEF Exists
<1>3. CASE cluster.phase # "gone"
  <2>1. ClusterGone
    <3>1. cluster' # cluster
      BY <1>3
    <3>2. \/ ManageCluster \/ LetGoCluster \/ ReadyChanges \/ DeleteCluster
          \/ ReleaseCluster \/ ClusterGone
      BY Zenon, <3>1 DEF Next, Worker, PatchMachine, Reconcile, ReconcileFails, ReconcileMissing, Restart,
         Informers, SyncCluster, SyncEndpoints, SyncMachine, Environment, EnsureEndpoints,
         CreateMachine, ReportAddresses, DeleteMachine, TerminateMachine, MachineStep, vars
    <3>3. CASE ManageCluster \/ LetGoCluster \/ ReadyChanges \/ ReleaseCluster
      <4>1. \/ \E b, c : cluster' = [cluster EXCEPT !.avi = b, !.fin = c]
            \/ \E b : cluster' = [cluster EXCEPT !.ready = b]
            \/ \E b : cluster' = [cluster EXCEPT !.fin = b]
        BY Zenon, <3>3 DEF ManageCluster, LetGoCluster, ReadyChanges, ReleaseCluster, ClusterStep
      <4>2. cluster'.phase = cluster.phase
        BY Zenon, <1>1, <4>1 DEF ClusterObj
      <4> QED
        BY <1>3, <4>2
    <3>4. CASE DeleteCluster
      BY <1>1, <3>4 DEF DeleteCluster, ClusterStep, ClusterObj
    <3> QED
      BY <3>2, <3>3, <3>4
  <2> QED
    BY <2>1 DEF ClusterGone, ClusterStep, Exists
<1> QED
  BY <1>2, <1>3

-----------------------------------------------------------------------------
(***************************************************************************)
(* The theorems.                                                           *)
(***************************************************************************)

LEMMA InitSettled == Init => SettledInv
<1> SUFFICES ASSUME Init PROVE SettledInv
  OBVIOUS
<1>1. \A m \in Machines : mcache[m].phase = "new"
  BY DEF Init
<1>2. ep.addrs = {} /\ cluster.phase = "live"
  BY DEF Init
<1> QED
  BY <1>1, <1>2 DEF SettledInv, Nodes

LEMMA NextSettled ==
  ASSUME TypeOK, EndpointsInv, SettledInv, [Next]_vars
  PROVE  SettledInv'
<1>1. /\ HooksSettled /\ AllEndpointsSettled
      /\ Nodes(ep.addrs) \subseteq ControlPlane
      /\ cluster.phase = "gone" => \A m \in Machines : ~Exists(m)
  BY SettledParts
<1>2. HooksSettled' /\ AllEndpointsSettled'
  BY <1>1, HookStep, EndpointsStep
<1>3. Nodes(ep'.addrs) \subseteq ControlPlane
  BY <1>1, NodesStep
<1>4. cluster'.phase = "gone" => \A m \in Machines : ~Exists(m)'
  BY <1>1, GoneStep
<1> QED
  BY <1>2, <1>3, <1>4 DEF SettledInv, HooksSettled, AllEndpointsSettled, Resting

\* Whatever fails or happens in between, a Machine that is not queued is as its last
\* reconcile should leave it, or that reconcile will queue it again.
THEOREM Settled == Spec => []SettledInv
<1>1. TypeOK /\ EndpointsInv /\ SettledInv /\ [Next]_vars => SettledInv'
  BY NextSettled
<1> QED
  BY <1>1, InitSettled, TypeCorrect, Invariant, PTL DEF Spec

\* Between events nobody is at work.
LEMMA QuietRests ==
  ASSUME TypeOK, Quiet, NEW m \in Machines, Exists(m)
  PROVE  m \in Resting /\ run.m # m /\ mcache[m] = machine[m] /\ ccache = cluster
  BY Constants DEF Quiet, Idle, Resting, Exists

\* Every Machine of a managed Cluster that is ready has the hook once the controller
\* is quiet (reconcileNormal; MachinesForCluster drops the events of other Clusters).
THEOREM HookedWhenQuiet == Spec => []QuietHooked
<1>1. TypeOK /\ SettledInv => QuietHooked
  <2> SUFFICES ASSUME TypeOK, SettledInv, Quiet, LBProvider, ~SystemNS, Managed, cluster.ready,
                      NEW m \in Machines, machine[m].phase = "live"
               PROVE  machine[m].hook
    BY DEF QuietHooked
  <2>1. m \in Resting /\ run.m # m /\ mcache[m] = machine[m] /\ ccache = cluster
    BY QuietRests DEF Exists
  <2>2. HookSettled(m)
    BY <2>1, SettledParts DEF HooksSettled
  <2>3. Informed(m)
    BY <2>1 DEF Informed, SkipCluster, Managed
  <2>4. HookPatch(m) = "keep"
    BY <2>1, <2>2, <2>3 DEF HookSettled
  <2>5. HookDecision(m) = "add"
    BY <2>1 DEF HookDecision, Managed
  <2> QED
    BY <2>1, <2>4, <2>5 DEF HookPatch
<1> QED
  BY <1>1, TypeCorrect, Settled, PTL

\* Every control plane Machine with a suitable address is in the Endpoints at one of its
\* addresses once the controller is quiet (addMachineIpToEndpoints).
THEOREM ServedWhenQuiet == Spec => []QuietServed
<1>1. TypeOK /\ SettledInv => QuietServed
  <2> SUFFICES ASSUME TypeOK, SettledInv, Quiet, VIPProvider, NEW m \in ControlPlane,
                      machine[m].phase = "live", Suitable(machine[m].addrs) # {}
               PROVE  Served(m, machine[m].addrs)
    BY DEF QuietServed
  <2>1. m \in Machines
    BY Constants
  <2>2. m \in Resting /\ run.m # m /\ mcache[m] = machine[m]
    BY <2>1, QuietRests DEF Exists
  <2>3. EndpointsSettled(m)
    BY <2>2, SettledParts DEF AllEndpointsSettled
  <2> QED
    BY <2>2, <2>3 DEF EndpointsSettled
<1> QED
  BY <1>1, TypeCorrect, Settled, PTL

\* No Machine being deleted is left with the hook or in the Endpoints once the controller
\* is quiet, unless the cleanup of its Cluster is still to come (reconcileDeletion,
\* removeMachineIpFromEndpoints).
THEOREM TerminatesWhenQuiet == Spec => []QuietTerminates
<1>1. TypeOK /\ SettledInv => QuietTerminates
  <2> SUFFICES ASSUME TypeOK, SettledInv, Quiet, NEW m \in Machines,
                      machine[m].phase = "deleting"
               PROVE  /\ LBProvider /\ machine[m].hook =>
                           cluster.phase = "deleting" /\ cluster.avi /\ cluster.fin
                      /\ VIPProvider => m \notin Nodes(ep.addrs)
    BY DEF QuietTerminates
  <2>1. m \in Resting /\ run.m # m /\ mcache[m] = machine[m] /\ ccache = cluster /\ Exists(m)
    BY QuietRests DEF Exists
  <2>2. HookSettled(m) /\ EndpointsSettled(m) /\ cluster.phase # "gone"
        /\ Nodes(ep.addrs) \subseteq ControlPlane
    BY <2>1, SettledParts DEF HooksSettled, AllEndpointsSettled
  <2>3. VIPProvider => m \notin Nodes(ep.addrs)
    BY <2>1, <2>2 DEF EndpointsSettled
  <2>4. ASSUME LBProvider, machine[m].hook
        PROVE  cluster.phase = "deleting" /\ cluster.avi /\ cluster.fin
    <3>1. HookPatch(m) = "keep"
      BY <2>1, <2>2 DEF HookSettled, Informed
    <3>2. HookDecision(m) # "remove"
      BY <2>1, <2>4, <3>1 DEF HookPatch
    <3>3. cluster.avi
      BY <2>1, <2>4, <3>2 DEF HookDecision
    <3>4. cluster.phase # "live"
      BY <2>1, <2>4, <3>2, <3>3 DEF HookDecision
    <3>5. cluster.phase = "deleting"
      BY <2>2, <3>4 DEF TypeOK, ClusterObj
    <3> QED
      BY <2>1, <2>4, <3>2, <3>3, <3>5 DEF HookDecision
  <2> QED
    BY <2>3, <2>4
<1> QED
  BY <1>1, TypeCorrect, Settled, PTL
=============================================================================
