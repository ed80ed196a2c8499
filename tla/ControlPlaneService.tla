------------------------- MODULE ControlPlaneService -------------------------
(***************************************************************************)
(* The Cluster controller (controllers/cluster) with the Service half of   *)
(* the control plane HA provider (pkg/haprovider), and the ADC             *)
(* controller's handling of AviInfraSettings and of the Cluster's label.   *)
(*                                                                         *)
(* One Cluster whose control plane AVI serves, some ADCs, their            *)
(* AviInfraSettings and the Cluster's Service.  Both controllers read      *)
(* informer caches, which lag behind the API server.  A reconcile reads    *)
(* caches only and writes each object at most once, so it is one step with *)
(* every way it can end.  Retries, events and the periodic resync let      *)
(* either controller reconcile at any time, so there are no queues.        *)
(***************************************************************************)
EXTENDS AdcSelection, Naturals

CONSTANTS
  NoHost,        \* no address or host name is set
  VIPs,          \* addresses AKO hands out
  UserIP,        \* an address the user may ask for
  Fqdn,          \* a host name the user may ask for
  Resolves,      \* the address the host name resolves to
  OwnNetwork,    \* ADCs with a control plane network apart from the data network
  LBProvider,    \* does IsLoadBalancerProvider hold of the Cluster?
  Configurations,  \* the kinds of Cluster looked at, see conf
  MaxUpsets      \* bound: failed requests, users creating and deleting ADCs,
                 \* relabelling the Cluster, deleting the Service; not ready

ASSUME Hosts ==
  /\ NoHost \notin VIPs \cup {UserIP, Resolves, Fqdn}
  /\ Fqdn \notin VIPs \cup {UserIP, Resolves}
  /\ OwnNetwork \subseteq Adcs /\ LBProvider \in BOOLEAN /\ MaxUpsets \in Nat
  /\ Configurations \subseteq [vip : BOOLEAN, management : BOOLEAN, classy : BOOLEAN,
                              emptyDefault : BOOLEAN, given : {NoHost, UserIP, Fqdn}]

VARIABLES
  conf,      \* what never changes: is AVI the provider of the control plane
             \* VIP, is it the management cluster, has it a topology, the endpoint
             \* asked for, and is the selector of the default ADC empty
  adc,       \* the ADCs on the API server
  cl,        \* the Cluster: team, avi label, ready, endpoint host and variable
  ais,       \* the ADCs whose AviInfraSetting exists
  svc,       \* the Service: preferred address, ingress address, AviInfraSetting
  adcCache, clCache, aisCache, svcCache,
  upsets

caches == <<adcCache, clCache, aisCache, svcCache>>
vars == <<conf, adc, cl, ais, svc, caches, upsets>>

IPAddrs == VIPs \cup {UserIP, Resolves}
NoService == [exists |-> FALSE, pref |-> NoHost, ingress |-> NoHost, infra |-> NoADC]

Upset == upsets < MaxUpsets /\ upsets' = upsets + 1

\* The labels of the management cluster, and those of any other.
TeamsOf(management) ==
  IF management THEN Selects[ManagementADC] ELSE Teams \ Selects[ManagementADC]

Init ==
  /\ conf \in Configurations
  /\ \E team \in TeamsOf(conf.management) :
       cl = [team |-> team, avi |-> NoADC, ready |-> TRUE, host |-> NoHost,
             var |-> IF conf.classy THEN conf.given ELSE NoHost]
  /\ \E known \in SUBSET Adcs :
       adc = [a \in Adcs |-> IF a \in known THEN "new" ELSE "absent"]
  /\ ais = {} /\ svc = NoService
  /\ adcCache = adc /\ clCache = cl /\ aisCache = ais /\ svcCache = svc
  /\ upsets = 0

-----------------------------------------------------------------------------
(***************************************************************************)
(* The control plane endpoint.                                             *)
(***************************************************************************)

\* Mutant: the host the Cluster advertises is not fallen back to.
MutantGivenOnly(c) == IF conf.classy THEN c.var ELSE conf.given

\* A Cluster with a topology is given the endpoint in a variable, any other in
\* an annotation.
GetControlPlaneEndpoint(c) ==
  CASE conf.classy /\ c.var # NoHost -> c.var
    [] ~conf.classy /\ conf.given # NoHost -> conf.given
    [] OTHER -> c.host

\* Mutant: host names are taken for addresses.
MutantUnresolved(host) == host

QueryFQDN(host) == IF host = Fqdn THEN Resolves ELSE host

SetControlPlaneEndpoint(c, ip) == IF conf.classy THEN [c EXCEPT !.var = ip] ELSE c

\* Mutant: a host name is replaced by the address.
MutantHostNameLost(c, ip) == SetControlPlaneEndpoint([c EXCEPT !.host = ip], ip)

updateClusterControlPlaneEndpoint(c, ip) ==
  IF GetControlPlaneEndpoint(c) = Fqdn
  THEN [c EXCEPT !.host = Fqdn]
  ELSE SetControlPlaneEndpoint([c EXCEPT !.host = ip], ip)

\* The deferred patch writes what differs from the copy that was read, or fails.
Merged(c) == [f \in DOMAIN cl |-> IF c[f] # clCache[f] THEN c[f] ELSE cl[f]]

PatchCluster(c) ==
  \/ cl' = Merged(c) /\ UNCHANGED upsets
  \/ c # clCache /\ Upset /\ UNCHANGED cl

-----------------------------------------------------------------------------
(***************************************************************************)
(* The Cluster controller.                                                 *)
(***************************************************************************)

\* The ADC found for the Cluster.
AdcForCluster == GetAKODeploymentConfigForCluster(adcCache, conf.emptyDefault, clCache)

\* Mutant: an AviInfraSetting that is not there yet is left out.
MutantInfraOptional(a) == conf.management => a # NoADC

\* annotateService: the management cluster waits for an ADC, and for the
\* AviInfraSetting of its control plane network.
MayAnnotate(a) ==
  conf.management => a # NoADC /\ (a \in OwnNetwork => a \in aisCache)

\* createService with the annotations for ADC a.  The new Service has no
\* ingress yet, so the reconcile ends with an error and is tried again.
CreateService(a) ==
  /\ conf.vip /\ ~svcCache.exists /\ ~svc.exists
  /\ MayAnnotate(a)
  /\ svc' = [exists |-> TRUE, pref |-> QueryFQDN(GetControlPlaneEndpoint(clCache)),
             ingress |-> NoHost, infra |-> IF a \in aisCache THEN a ELSE NoADC]
  /\ UNCHANGED <<conf, adc, cl, ais, caches, upsets>>

\* The Cluster once its Service has an ingress address.
Served == updateClusterControlPlaneEndpoint(clCache, svcCache.ingress)

\* The last part of Reconcile: the label.
Labelled(c, a) == IF LBProvider THEN [c EXCEPT !.avi = a] ELSE c

Written == [svc EXCEPT !.pref = QueryFQDN(Served.host)]

\* The Service is there with an ingress address: both ends of the endpoint are
\* brought in line, then the label is set.
UpdateService(a) ==
  /\ svcCache.ingress # NoHost /\ svcCache = svc
  /\ svc' = Written
  /\ PatchCluster(Labelled(Served, a))
  /\ UNCHANGED <<conf, adc, ais, caches>>

\* The host name is not resolved, the Service is not updated since it has changed
\* or the request fails, or then the Endpoints cannot be created: the Cluster is
\* patched all the same, without the label.
UpdateServiceFails ==
  /\ svcCache.ingress # NoHost
  /\ \/ svcCache # svc /\ PatchCluster(Served) /\ UNCHANGED svc
     \/ /\ Upset /\ cl' = Merged(Served)
        /\ UNCHANGED svc \/ (svcCache = svc /\ svc' = Written)
  /\ UNCHANGED <<conf, adc, ais, caches>>

\* AVI does not provide the VIP: there is only the label to set.
LabelOnly(a) ==
  /\ ~conf.vip
  /\ PatchCluster(Labelled(clCache, a))
  /\ UNCHANGED <<conf, adc, ais, svc, caches>>

ReconcileCluster ==
  \/ UpdateServiceFails
  \/ \E a \in AdcForCluster : CreateService(a) \/ UpdateService(a) \/ LabelOnly(a)

-----------------------------------------------------------------------------
(***************************************************************************)
(* The ADC controller, as far as the Cluster's label and AviInfraSettings  *)
(* go.  A phase that fails does not keep the others from running.          *)
(***************************************************************************)

Listed(a) == ListedFor(a, adcCache, conf.emptyDefault, conf.management, clCache)

\* ReconcileClustersPhases applies the label; an error of its patch is dropped.
LabelCluster(a) ==
  IF Listed(a) /\ LBProvider THEN PatchCluster([clCache EXCEPT !.avi = a])
  ELSE UNCHANGED <<cl, upsets>>

\* reconcileAviInfraSetting creates or updates from the cached copy; either is
\* refused if the copy is wrong about the object being there.
EnsureInfra(a) ==
  IF a \in OwnNetwork /\ ~(a \in aisCache /\ a \notin ais) THEN ais' = ais \cup {a}
  ELSE UNCHANGED ais

reconcileNormal(a) ==
  /\ adcCache[a] \in {"new", "live"}
  /\ EnsureInfra(a)
  /\ LabelCluster(a)
  /\ adc' = IF adc[a] = "new" THEN [adc EXCEPT ![a] = "live"] ELSE adc
  /\ UNCHANGED <<conf, svc, caches>>

\* Deletion of the AviInfraSetting: kept while the ADC has Clusters.
DropInfra(a) == IF a \in aisCache /\ ~Listed(a) THEN ais' = ais \ {a} ELSE UNCHANGED ais
DropInfraFails(a) == a \in aisCache /\ ~Listed(a) /\ a \notin ais

reconcileDelete(a) ==
  /\ adcCache[a] = "deleting"
  /\ LabelCluster(a)
  /\ DropInfra(a)
  /\ adc' = IF adc[a] = "deleting" /\ ~DropInfraFails(a)
            THEN [adc EXCEPT ![a] = "absent"] ELSE adc
  /\ UNCHANGED <<conf, svc, caches>>

ReconcileADC(a) == reconcileNormal(a) \/ reconcileDelete(a)

-----------------------------------------------------------------------------
(***************************************************************************)
(* Informers, AKO and users.                                               *)
(***************************************************************************)

SyncAdcs ==
  /\ adcCache # adc /\ adcCache' = adc
  /\ UNCHANGED <<conf, adc, cl, ais, svc, clCache, aisCache, svcCache, upsets>>

SyncCluster ==
  /\ clCache # cl /\ clCache' = cl
  /\ UNCHANGED <<conf, adc, cl, ais, svc, adcCache, aisCache, svcCache, upsets>>

SyncInfra ==
  /\ aisCache # ais /\ aisCache' = ais
  /\ UNCHANGED <<conf, adc, cl, ais, svc, adcCache, clCache, svcCache, upsets>>

SyncService ==
  /\ svcCache # svc /\ svcCache' = svc
  /\ UNCHANGED <<conf, adc, cl, ais, svc, adcCache, clCache, aisCache, upsets>>

\* AKO serves the Service at the preferred address, or at one it picks.
AssignIngress ==
  /\ svc.exists
  /\ \/ /\ svc.ingress = NoHost /\ svc.pref = NoHost
        /\ \E ip \in VIPs : svc' = [svc EXCEPT !.ingress = ip]
     \/ /\ svc.pref \notin {NoHost, svc.ingress}
        /\ svc' = [svc EXCEPT !.ingress = svc.pref]
  /\ UNCHANGED <<conf, adc, cl, ais, caches, upsets>>

UserStep == Upset /\ UNCHANGED <<conf, caches>>

CreateADC(a) ==
  /\ adc[a] = "absent"
  /\ adc' = [adc EXCEPT ![a] = "new"]
  /\ UserStep /\ UNCHANGED <<cl, ais, svc>>

\* The webhook refuses to delete the management cluster's ADC.  An ADC that has
\* no finalizer yet is gone at once.
DeleteADC(a) ==
  /\ a # ManagementADC /\ adc[a] \in {"new", "live"}
  /\ adc' = [adc EXCEPT ![a] = IF adc[a] = "new" THEN "absent" ELSE "deleting"]
  /\ UserStep /\ UNCHANGED <<cl, ais, svc>>

RelabelCluster ==
  /\ \E t \in TeamsOf(conf.management) \ {cl.team} : cl' = [cl EXCEPT !.team = t]
  /\ UserStep /\ UNCHANGED <<adc, ais, svc>>

ReadyChanges ==
  /\ cl' = [cl EXCEPT !.ready = ~@]
  /\ UserStep /\ UNCHANGED <<adc, ais, svc>>

\* The finalizer of the management cluster's Service keeps it.
DeleteService ==
  /\ svc.exists /\ ~conf.management
  /\ svc' = NoService
  /\ UserStep /\ UNCHANGED <<adc, cl, ais>>

-----------------------------------------------------------------------------
Informers == SyncAdcs \/ SyncCluster \/ SyncInfra \/ SyncService

Users ==
  \/ RelabelCluster \/ ReadyChanges \/ DeleteService
  \/ \E a \in Adcs : CreateADC(a) \/ DeleteADC(a)

Next ==
  \/ ReconcileCluster \/ AssignIngress \/ Informers \/ Users
  \/ \E a \in Adcs : ReconcileADC(a)

Spec == Init /\ [][Next]_vars

\* The operator reconciles every object again after an error and at every
\* resync, its informers catch up, and AKO serves the Service.
Fairness ==
  /\ WF_vars(ReconcileCluster) /\ WF_vars(AssignIngress)
  /\ WF_vars(SyncAdcs) /\ WF_vars(SyncCluster) /\ WF_vars(SyncInfra) /\ WF_vars(SyncService)
  /\ \A a \in Adcs : WF_vars(ReconcileADC(a))

FairSpec == Spec /\ Fairness

-----------------------------------------------------------------------------
(***************************************************************************)
(* Properties.                                                             *)
(***************************************************************************)

ClusterType == [team : Teams, avi : Adcs \cup {NoADC}, ready : BOOLEAN,
                host : IPAddrs \cup {Fqdn, NoHost}, var : IPAddrs \cup {Fqdn, NoHost}]
ServiceType == [exists : BOOLEAN, pref : IPAddrs \cup {NoHost},
                ingress : IPAddrs \cup {NoHost}, infra : Adcs \cup {NoADC}]
AdcType == [Adcs -> {"absent", "new", "live", "deleting"}]

\* Every variable has its type; in particular a host name is never handed to
\* AKO unresolved (createService, updateControlPlaneEndpointToService).
TypeOK ==
  /\ cl \in ClusterType /\ clCache \in ClusterType
  /\ svc \in ServiceType /\ svcCache \in ServiceType
  /\ adc \in AdcType /\ adcCache \in AdcType
  /\ ais \subseteq OwnNetwork /\ aisCache \subseteq OwnNetwork

\* The ADCs the Cluster may belong to now.
Owners == GetAKODeploymentConfigForCluster(adc, conf.emptyDefault, cl)

\* The two controllers come to agree on the ADC in the Cluster's label, and it
\* is the one that selects the Cluster: whatever ADCs come and go and however
\* late either learns of it, they do not keep overwriting each other
\* (ListAkoDeploymentConfigSelectClusters, GetAKODeploymentConfigForCluster).
OwnerSettles == LBProvider => <>[](cl.avi \in Owners)

\* AVI serves the control plane and nothing is missing for it.
MayServe == conf.vip /\ (conf.management => NoADC \notin Owners)

\* In the end the Service exists and is served at its preferred address, which
\* is the one asked for if there is one, and the Cluster advertises that
\* address or the host name asked for (CreateOrUpdateHAService).
EndpointAgrees ==
  <>[](MayServe =>
         /\ svc.exists /\ svc.ingress # NoHost /\ svc.pref = svc.ingress
         /\ conf.given # NoHost => svc.ingress = QueryFQDN(conf.given)
         /\ cl.host = IF conf.given = Fqdn THEN Fqdn ELSE svc.ingress)

\* The annotation with the AviInfraSetting is given to a Service only when it
\* is created.  That of the management cluster is not created before the
\* AviInfraSetting of its ADC, unless the default ADC stands in for that ADC
\* since its selector is empty (annotateService).
ManagementServiceAnnotated ==
  /\ conf.management /\ svc.exists /\ ~conf.emptyDefault
  /\ ManagementADC \in OwnNetwork
  => svc.infra = ManagementADC

\* A Service that is created again asks for the address the Cluster advertises,
\* unless the operator has not seen that address yet (createService).
AdvertisedAddressKept ==
  [][~svc.exists /\ svc'.exists /\ clCache.host = cl.host /\ cl.host # NoHost =>
       svc'.pref = QueryFQDN(cl.host)]_vars

\* The inductive invariant behind these two.  Every copy of the Cluster and of its
\* Service agrees on the endpoint: with one asked for, the Cluster advertises that or
\* nothing yet, and the Service is served there or not yet; with none, the variable of
\* a Cluster with a topology follows the host, although a merge patch writes each of
\* the two only if it differs from a copy (updateClusterControlPlaneEndpoint).
EndpointInv ==
  /\ \A c \in {cl, clCache} :
       /\ conf.management => c.team \in Selects[ManagementADC]
       /\ conf.given = NoHost => c.host # Fqdn /\ (conf.classy => c.var = c.host)
       /\ conf.given # NoHost =>
            c.host \in {NoHost, conf.given} /\ (conf.classy => c.var = conf.given)
  /\ \A s \in {svc, svcCache} :
       /\ s.ingress # NoHost => s.exists
       /\ s.exists /\ conf.given # NoHost =>
            s.pref = QueryFQDN(conf.given) /\ s.ingress \in {NoHost, s.pref}
=============================================================================
