--------------------------- MODULE MachineEndpoints ---------------------------
(***************************************************************************)
(* The Machine controller (controllers/machine) and the Endpoints half of  *)
(* the control plane HA provider (pkg/haprovider): the Machines of one     *)
(* Cluster, the pre-terminate hook that holds up their termination, and    *)
(* the Endpoints object behind the Cluster's control plane Service.        *)
(*                                                                         *)
(* One worker serves the queue of Machines.  It reads Machines, the        *)
(* Cluster and the Endpoints from the informer cache, which lags.  Updates *)
(* of Endpoints carry the resource version that was read, and one from an  *)
(* old copy is refused.  Versions are told apart by what they say: an old  *)
(* copy that says the same would only be refused and read again.           *)
(*                                                                         *)
(* The Cluster's label and finalizer are written by the two controllers of *)
(* ClusterLifecycle; here only the outcome is of interest, and each step   *)
(* that writes one of them is a step of the environment.                   *)
(***************************************************************************)
EXTENDS Naturals, Sequences, FiniteSets

CONSTANTS
  Machines,      \* the Machines of the Cluster
  ControlPlane,  \* those with the label of control plane Machines
  IPs,           \* addresses that net.ParseIP accepts
  FamilyOf,      \* "V4" or "V6" for each of them
  Reports,       \* the lists of addresses infrastructure may report
  IpFamily,      \* extraConfigs.ipFamily of the Cluster's ADC, "V4" if empty
  VIPProvider,   \* does IsControlPlaneVIPProvider hold of the Cluster?
  LBProvider,    \* does IsLoadBalancerProvider?
  SystemNS,      \* is the Cluster in the namespace tkg-system?
  NoMachine,     \* the worker is idle
  MaxUpsets      \* bound: failed requests, restarts, changes of addresses, and
                 \* times the Cluster is managed, let go, ready or not

ASSUME Constants ==
  /\ ControlPlane \subseteq Machines /\ NoMachine \notin Machines
  /\ FamilyOf \in [IPs -> {"V4", "V6"}]
  /\ IpFamily \in {"V4", "V6"}
  /\ VIPProvider \in BOOLEAN /\ LBProvider \in BOOLEAN /\ SystemNS \in BOOLEAN
  /\ MaxUpsets \in Nat
  /\ \A r \in Reports : Len(r) \in Nat /\ DOMAIN r = 1..Len(r)

VARIABLES
  machine,   \* the Machines on the API server
  cluster,   \* the Cluster on the API server
  ep,        \* the Endpoints object: does it exist, and its addresses
  mcache, ccache, epCache,   \* what the informer cache knows of them
  queue,     \* Machines waiting to be reconciled
  run,       \* the reconcile between its work and its deferred patch
  upsets

vars == <<machine, cluster, ep, mcache, ccache, epCache, queue, run, upsets>>
caches == <<mcache, ccache, epCache>>

Upset == upsets < MaxUpsets /\ upsets' = upsets + 1

Address == [node : Machines, ip : IPs]
Idle == [m |-> NoMachine, hook |-> "keep", failed |-> FALSE, dying |-> FALSE,
         cleaning |-> FALSE]

Init ==
  /\ machine = [m \in Machines |-> [phase |-> "new", hook |-> FALSE, addrs |-> <<>>]]
  /\ cluster \in {[phase |-> "live", avi |-> b, fin |-> b, ready |-> TRUE] : b \in BOOLEAN}
  /\ ep = [exists |-> FALSE, addrs |-> {}]
  /\ mcache = machine /\ ccache = cluster /\ epCache = ep
  /\ queue = {} /\ run = Idle
  /\ upsets = 0

-----------------------------------------------------------------------------
(***************************************************************************)
(* The Endpoints of the control plane Service.                             *)
(***************************************************************************)

\* Positions of the external addresses of a Machine that are IP addresses.
External(addrs) == {i \in DOMAIN addrs : addrs[i].external /\ addrs[i].address \in IPs}

Suitable(addrs) == {i \in External(addrs) : FamilyOf[addrs[i].address] = IpFamily}

First(S) == CHOOSE i \in S : \A j \in S : i <= j
Last(S) == CHOOSE i \in S : \A j \in S : j <= i

Nodes(addresses) == {a.node : a \in addresses}

\* Mutant: a host name may take the place of an address.
MutantAnyExternal(a, addrs) ==
  IF \E i \in DOMAIN addrs : addrs[i].address = a.ip \/ ~addrs[i].external THEN a
  ELSE [a EXCEPT !.ip = IF addrs = <<>> THEN @ ELSE addrs[Len(addrs)].address]

\* Mutant: an address stays, whatever the Machine reports.
MutantAddressStays(a, addrs) == a

\* An address the Machine still reports stays; otherwise the last address it
\* reports, of whatever family, takes its place.
syncEndpointMachineIP(a, addrs) ==
  IF External(addrs) = {} \/ \E i \in External(addrs) : addrs[i].address = a.ip
  THEN a
  ELSE [a EXCEPT !.ip = addrs[Last(External(addrs))].address]

removeMachineIpFromEndpoints(addresses, m) == {a \in addresses : a.node # m}

addMachineIpToEndpoints(addresses, m, addrs) ==
  IF m \in Nodes(addresses)
  THEN {IF a.node = m THEN syncEndpointMachineIP(a, addrs) ELSE a : a \in addresses}
  ELSE addresses \cup
       {[node |-> m, ip |-> addrs[i].address] :
          i \in {j \in Suitable(addrs) : j = First(Suitable(addrs))}}

\* The addresses CreateOrUpdateHAEndpoints wants for Machine m.
Wanted(m) ==
  IF mcache[m].phase = "deleting"
  THEN removeMachineIpFromEndpoints(epCache.addrs, m)
  ELSE addMachineIpToEndpoints(epCache.addrs, m, mcache[m].addrs)

\* The API server takes no subset without addresses.  That is what is left of
\* a subset just created for a Machine that reports no suitable address.
Refused(m) == mcache[m].phase # "deleting" /\ Wanted(m) = {}

UpToDate == epCache = ep

WriteEndpoints(addresses) == ep' = [exists |-> TRUE, addrs |-> addresses]

\* Mutant: the Endpoints are written whatever version was read.
MutantLastWriterWins(m) ==
  IF VIPProvider /\ m \in ControlPlane
  THEN ~Refused(m) /\ WriteEndpoints(Wanted(m))
  ELSE UNCHANGED ep

\* CreateOrUpdateHAEndpoints, as far as it goes without error ...
HAEndpointsOK(m) ==
  IF VIPProvider /\ m \in ControlPlane
  THEN UpToDate /\ ~Refused(m) /\ WriteEndpoints(Wanted(m))
  ELSE UNCHANGED ep

\* ... and with one.  ensureEndpoints may have created the object by then.
HAEndpointsFail(m) ==
  /\ VIPProvider /\ m \in ControlPlane
  /\ \/ UpToDate /\ Refused(m) /\ WriteEndpoints(ep.addrs) /\ UNCHANGED upsets
     \/ ~UpToDate /\ UNCHANGED <<ep, upsets>>
     \/ Upset /\ UNCHANGED ep

-----------------------------------------------------------------------------
(***************************************************************************)
(* The Machine controller.                                                 *)
(***************************************************************************)

\* Mutant: whether the finalizer is still there is not looked at.
MutantFinalizerIgnored(m) ==
  CASE ~LBProvider -> "keep"
    [] LBProvider /\ (~ccache.avi \/ mcache[m].phase = "deleting") -> "remove"
    [] OTHER -> IF SystemNS THEN "keep" ELSE "add"

\* Mutant: a Machine deleted by itself is treated like any other.
MutantNoDirectDeletion(m) ==
  CASE ~LBProvider -> "keep"
    [] LBProvider /\ ~ccache.avi -> "remove"
    [] LBProvider /\ ccache.avi /\ ccache.phase = "deleting" ->
         IF ccache.fin THEN "keep" ELSE "remove"
    [] OTHER -> IF SystemNS THEN "keep" ELSE "add"

\* What Reconcile makes of the hook once the Endpoints are done with.
HookDecision(m) ==
  CASE ~LBProvider -> "keep"
    [] LBProvider /\ ~ccache.avi -> "remove"
    [] LBProvider /\ ccache.avi /\ mcache[m].phase = "deleting"
         /\ ccache.phase = "live" -> "remove"
    [] LBProvider /\ ccache.avi /\ ccache.phase = "deleting" ->
         IF ccache.fin THEN "keep" ELSE "remove"
    [] OTHER -> IF SystemNS THEN "keep" ELSE "add"

\* The deferred patch carries the difference to the copy that was read.
HookPatch(m) ==
  CASE HookDecision(m) = "add" /\ ~mcache[m].hook -> "add"
    [] HookDecision(m) = "remove" /\ mcache[m].hook -> "remove"
    [] OTHER -> "keep"

EndWork(m, hook, failed) ==
  run' = [m |-> m, hook |-> hook, failed |-> failed,
          dying |-> mcache[m].phase = "deleting",
          cleaning |-> ccache.phase = "deleting" /\ ccache.avi]

Take(m) ==
  /\ run.m = NoMachine /\ m \in queue
  /\ queue' = queue \ {m}

\* The Machine is not in the cache: nothing to do.
ReconcileMissing(m) ==
  /\ Take(m)
  /\ mcache[m].phase \in {"new", "gone"}
  /\ UNCHANGED <<machine, cluster, ep, caches, run, upsets>>

Reconcile(m) ==
  /\ Take(m)
  /\ mcache[m].phase \in {"live", "deleting"} /\ ccache.phase # "gone"
  /\ HAEndpointsOK(m)
  /\ EndWork(m, HookPatch(m), FALSE)
  /\ UNCHANGED <<machine, cluster, caches, upsets>>

\* Mutant: the hook is looked at after an error, too.
MutantErrorIgnored(m) ==
  /\ Take(m)
  /\ mcache[m].phase \in {"live", "deleting"}
  /\ \/ HAEndpointsFail(m)
     \/ ccache.phase = "gone" /\ UNCHANGED <<ep, upsets>>
  /\ EndWork(m, HookPatch(m), TRUE)
  /\ UNCHANGED <<machine, cluster, caches>>

\* An error on the way, also that the Cluster is not found, ends the reconcile
\* before the hook is looked at.
ReconcileFails(m) ==
  /\ Take(m)
  /\ mcache[m].phase \in {"live", "deleting"}
  /\ \/ HAEndpointsFail(m)
     \/ ccache.phase = "gone" /\ UNCHANGED <<ep, upsets>>
  /\ EndWork(m, "keep", TRUE)
  /\ UNCHANGED <<machine, cluster, caches>>

Exists(m) == machine[m].phase \in {"live", "deleting"}

\* The deferred patch; the Machine is queued again on any error.
PatchMachine ==
  /\ run.m # NoMachine
  /\ run' = Idle
  /\ LET m == run.m
         done == run.hook = "keep" \/ Exists(m)
     IN \/ /\ machine' = IF run.hook # "keep" /\ done
                         THEN [machine EXCEPT ![m].hook = run.hook = "add"]
                         ELSE machine
           /\ queue' = IF run.failed \/ ~done THEN queue \cup {m} ELSE queue
           /\ UNCHANGED upsets
        \/ /\ run.hook # "keep" /\ Upset
           /\ queue' = queue \cup {m}
           /\ UNCHANGED machine
  /\ UNCHANGED <<cluster, ep, caches>>

\* The operator restarts: the caches are filled anew and every Machine queued.
Restart ==
  /\ Upset
  /\ mcache' = machine /\ ccache' = cluster /\ epCache' = ep
  /\ queue' = {m \in Machines : Exists(m)} /\ run' = Idle
  /\ UNCHANGED <<machine, cluster, ep>>

-----------------------------------------------------------------------------
(***************************************************************************)
(* The informers and the mapping of events to Machines.                    *)
(***************************************************************************)

SyncMachine(m) ==
  /\ mcache[m] # machine[m]
  /\ mcache' = [mcache EXCEPT ![m] = machine[m]]
  /\ queue' = queue \cup {m}
  /\ UNCHANGED <<machine, cluster, ep, ccache, epCache, run, upsets>>

SkipCluster(c) == ~c.ready /\ c.phase = "live"

\* Mutant: only the Machines of a Cluster being deleted are queued.
MutantOnlyDeletion ==
  /\ ccache # cluster
  /\ ccache' = cluster
  /\ queue' = IF cluster.phase # "deleting" THEN queue
              ELSE queue \cup {m \in Machines : mcache[m].phase \in {"live", "deleting"}}
  /\ UNCHANGED <<machine, cluster, ep, mcache, epCache, run, upsets>>

\* MachinesForCluster queues the Machines known by then.
SyncCluster ==
  /\ ccache # cluster
  /\ ccache' = cluster
  /\ queue' = IF SkipCluster(cluster) THEN queue
              ELSE queue \cup {m \in Machines : mcache[m].phase \in {"live", "deleting"}}
  /\ UNCHANGED <<machine, cluster, ep, mcache, epCache, run, upsets>>

SyncEndpoints ==
  /\ ~UpToDate /\ epCache' = ep
  /\ UNCHANGED <<machine, cluster, ep, mcache, ccache, queue, run, upsets>>

-----------------------------------------------------------------------------
(***************************************************************************)
(* Users, Cluster API, and the operator's other controllers.               *)
(***************************************************************************)

MachineStep(m, from, new) ==
  /\ machine[m].phase \in from
  /\ machine' = [machine EXCEPT ![m] = new]
  /\ UNCHANGED <<cluster, ep, caches, queue, run>>

CreateMachine(m) ==
  /\ cluster.phase = "live" /\ UNCHANGED upsets
  /\ \E r \in Reports \cup {<<>>} :
       MachineStep(m, {"new"}, [machine[m] EXCEPT !.phase = "live", !.addrs = r])

ReportAddresses(m) ==
  /\ Upset
  /\ \E r \in Reports \ {machine[m].addrs} :
       MachineStep(m, {"live"}, [machine[m] EXCEPT !.addrs = r])

DeleteMachine(m) ==
  /\ UNCHANGED upsets
  /\ MachineStep(m, {"live"}, [machine[m] EXCEPT !.phase = "deleting"])

\* Cluster API terminates a Machine that has no pre-terminate hook.
TerminateMachine(m) ==
  /\ ~machine[m].hook /\ UNCHANGED upsets
  /\ MachineStep(m, {"deleting"}, [machine[m] EXCEPT !.phase = "gone"])

ClusterStep(from, new) ==
  /\ cluster.phase = from
  /\ cluster' = new
  /\ UNCHANGED <<machine, ep, caches, queue, run>>

\* An ADC selects the Cluster: label and finalizer arrive with one patch.
ManageCluster ==
  /\ Upset /\ cluster.ready
  /\ ClusterStep("live", [cluster EXCEPT !.avi = TRUE, !.fin = TRUE])

\* No ADC does any more.
LetGoCluster ==
  /\ Upset /\ cluster.avi
  /\ ClusterStep("live", [cluster EXCEPT !.avi = FALSE, !.fin = FALSE])

ReadyChanges ==
  /\ Upset
  /\ ClusterStep("live", [cluster EXCEPT !.ready = ~@])

DeleteCluster ==
  /\ UNCHANGED upsets
  /\ ClusterStep("live", [cluster EXCEPT !.phase = "deleting"])

\* The cleanup of AVI has finished: the finalizer is taken off.
ReleaseCluster ==
  /\ cluster.fin /\ UNCHANGED upsets
  /\ ClusterStep("deleting", [cluster EXCEPT !.fin = FALSE])

\* Cluster API lets the Cluster go after its Machines.
ClusterGone ==
  /\ ~cluster.fin /\ \A m \in Machines : ~Exists(m)
  /\ UNCHANGED upsets
  /\ ClusterStep("deleting", [cluster EXCEPT !.phase = "gone"])

\* CreateOrUpdateHAService of the Cluster controller ends in ensureEndpoints.
EnsureEndpoints ==
  /\ VIPProvider /\ cluster.phase # "gone" /\ ~ep.exists
  /\ WriteEndpoints({})
  /\ UNCHANGED <<machine, cluster, caches, queue, run, upsets>>

-----------------------------------------------------------------------------
Worker ==
  \/ PatchMachine
  \/ \E m \in Machines : ReconcileMissing(m) \/ Reconcile(m) \/ ReconcileFails(m)

Informers == SyncCluster \/ SyncEndpoints \/ \E m \in Machines : SyncMachine(m)

Environment ==
  \/ ManageCluster \/ LetGoCluster \/ ReadyChanges \/ DeleteCluster
  \/ ReleaseCluster \/ ClusterGone \/ EnsureEndpoints
  \/ \E m \in Machines : \/ CreateMachine(m) \/ ReportAddresses(m)
                         \/ DeleteMachine(m) \/ TerminateMachine(m)

Next == Worker \/ Restart \/ Informers \/ Environment

Spec == Init /\ [][Next]_vars

-----------------------------------------------------------------------------
(***************************************************************************)
(* Properties.                                                             *)
(***************************************************************************)

MachineObj == [phase : {"new", "live", "deleting", "gone"}, hook : BOOLEAN,
               addrs : Reports \cup {<<>>}]
ClusterObj == [phase : {"live", "deleting", "gone"}, avi : BOOLEAN, fin : BOOLEAN,
               ready : BOOLEAN]
EndpointsObj == [exists : BOOLEAN, addrs : SUBSET Address]
RunObj == [m : Machines \cup {NoMachine}, hook : {"add", "remove", "keep"},
           failed : BOOLEAN, dying : BOOLEAN, cleaning : BOOLEAN]

\* The Endpoints hold addresses of known Machines that net.ParseIP accepts,
\* although Machines report host names too (addMachineIpToEndpoints,
\* syncEndpointMachineIP); the rest is the types of the variables.
TypeOK ==
  /\ machine \in [Machines -> MachineObj] /\ mcache \in [Machines -> MachineObj]
  /\ cluster \in ClusterObj /\ ccache \in ClusterObj
  /\ ep \in EndpointsObj /\ epCache \in EndpointsObj
  /\ queue \subseteq Machines
  /\ run \in RunObj
  /\ upsets \in 0..MaxUpsets

HookRemoved(m) == machine[m].hook /\ ~machine'[m].hook

\* The hook comes off a control plane Machine that Reconcile saw being deleted
\* only when the Machine is out of the Endpoints: CreateOrUpdateHAEndpoints
\* goes first and its errors end the reconcile.
LeavesEndpointsFirst ==
  [][\A m \in ControlPlane :
       HookRemoved(m) /\ run.dying /\ VIPProvider => m \notin Nodes(ep.addrs)]_vars

\* A Machine that the informer has shown being deleted is never added to the
\* Endpoints again, and no update, from however old a copy, drops a Machine
\* that is not being deleted (the resource version in Update).
EndpointsEditsAreOwn ==
  [][\A m \in Machines :
       /\ m \in Nodes(ep'.addrs) \ Nodes(ep.addrs) => mcache[m].phase = "live"
       /\ m \in Nodes(ep.addrs) \ Nodes(ep'.addrs) => machine[m].phase \in {"deleting", "gone"}]_vars

\* No Machine has two addresses in the Endpoints, however often it is
\* reconciled and whatever addresses it reports (addMachineIpToEndpoints).
OneAddressEach ==
  \A a, b \in ep.addrs : a.node = b.node => a = b

\* In a Cluster the operator saw being deleted, the hook comes off only after
\* the finalizer is really gone, hence after the cleanup, although the
\* finalizer is looked for in a copy (reconcileMachineDeletionHook).
HookOutlivesFinalizer ==
  [][\A m \in Machines : HookRemoved(m) /\ run.cleaning => ~cluster.fin]_vars

\* The inductive invariant behind these properties.  A copy that shows a
\* deletion is right about it, and about a finalizer that is gone (the first
\* part); and until its deferred patch, what Reconcile has decided about the
\* hook remains justified, whatever happens in between (the second).
EndpointsInv ==
  /\ \A m \in Machines :
       mcache[m].phase = "deleting" => machine[m].phase \in {"deleting", "gone"}
  /\ ccache.phase # "live" => cluster.phase # "live" /\ (cluster.fin => ccache.fin)
  /\ ~ep.exists => ep.addrs = {}
  /\ run.hook = "remove" /\ run.cleaning => cluster.phase # "live" /\ ~cluster.fin
  /\ run.hook = "remove" /\ run.dying /\ VIPProvider /\ run.m \in ControlPlane =>
       run.m \notin Nodes(ep.addrs)
  /\ OneAddressEach

\* Reconcile removes the hook of a Machine "being deleted directly" only if at
\* that time its Cluster is not being deleted with the cleanup still to come.
HookHeldForCleanup ==
  [][\A m \in Machines :
       /\ run.m = NoMachine /\ run'.m = m /\ run'.dying /\ run'.hook = "remove"
       /\ cluster.phase = "deleting"
       => ~cluster.fin]_vars

Managed == cluster.phase = "live" /\ cluster.avi

\* Nothing is left to do: the caches are up to date and the queue is empty.
\* The worker and the informers always get there unless an error repeats, and
\* only an event takes the operator out of it again.
Quiet ==
  /\ mcache = machine /\ ccache = cluster /\ UpToDate
  /\ queue = {} /\ run = Idle

\* When all is quiet, every Machine of a managed Cluster has the hook: no event
\* that should have led to it was dropped, although those of a Cluster that is
\* not ready are (MachinesForCluster, reconcileNormal).
QuietHooked ==
  Quiet /\ LBProvider /\ ~SystemNS /\ Managed /\ cluster.ready =>
    \A m \in Machines : machine[m].phase = "live" => machine[m].hook

Served(m, addrs) ==
  \E a \in ep.addrs : \E i \in External(addrs) : a.node = m /\ a.ip = addrs[i].address

\* When all is quiet, every control plane Machine with a suitable address is in
\* the Endpoints, at an address it reports now: no update, conflict or error
\* was lost (addMachineIpToEndpoints, syncEndpointMachineIP).
QuietServed ==
  Quiet /\ VIPProvider /\ cluster.phase # "gone" => \A m \in ControlPlane :
    machine[m].phase = "live" /\ Suitable(machine[m].addrs) # {} => Served(m, machine[m].addrs)

\* When all is quiet, no Machine being deleted is held by the hook or still in
\* the Endpoints, unless it is held for the cleanup of its Cluster: the release
\* of the Cluster, its deletion or its loss of the label wakes every Machine.
QuietTerminates ==
  Quiet => \A m \in Machines : machine[m].phase = "deleting" =>
    /\ LBProvider /\ machine[m].hook => cluster.phase = "deleting" /\ cluster.avi /\ cluster.fin
    /\ VIPProvider => m \notin Nodes(ep.addrs)

\* Does the last reconcile of Machine m go by what the cache shows of the Cluster
\* now?  A Cluster that is not ready wakes no Machine, which makes no difference
\* to one being deleted.
Informed(m) ==
  ccache.phase # "gone" /\ (SkipCluster(ccache) => mcache[m].phase = "deleting")

\* The hook is as the caches want it, or an informer has yet to show that it was
\* patched; or the patch that makes it so is under way.
HookSettled(m) ==
  Informed(m) =>
    /\ run.m # m /\ machine[m].hook = mcache[m].hook => HookPatch(m) = "keep"
    /\ run.m = m /\ ~run.failed => run.hook = HookPatch(m)

\* The Endpoints are as the copy of the Machine wants them.
EndpointsSettled(m) ==
  VIPProvider /\ m \in ControlPlane /\ ~(run.m = m /\ run.failed) =>
    /\ mcache[m].phase = "deleting" => m \notin Nodes(ep.addrs)
    /\ mcache[m].phase = "live" /\ Suitable(mcache[m].addrs) # {} => Served(m, mcache[m].addrs)

\* The inductive invariant behind the last three: all is settled for a Machine
\* that waits in no queue, unless its reconcile failed and will queue it
\* (Reconcile, the deferred patch, the mappings of events to Machines).
SettledInv ==
  /\ \A m \in Machines \ queue :
       mcache[m].phase \in {"live", "deleting"} => HookSettled(m) /\ EndpointsSettled(m)
  /\ Nodes(ep.addrs) \subseteq ControlPlane
  /\ cluster.phase = "gone" => \A m \in Machines : ~Exists(m)
=============================================================================
