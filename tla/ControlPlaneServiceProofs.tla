----------------------- MODULE ControlPlaneServiceProofs -----------------------
(***************************************************************************)
(* The control plane endpoint, for any ADCs, selectors, addresses and      *)
(* kinds of Cluster: the address a Cluster advertises is not lost, and the *)
(* Service of the management cluster is never without its AviInfraSetting. *)
(***************************************************************************)
EXTENDS ControlPlaneService, TLAPS

Configured == TypeOK /\ conf \in Configurations

\* What the assumptions say of a configuration and of addresses.
LEMMA ConfFacts ==
  ASSUME conf \in Configurations
  PROVE  /\ conf.given \in {NoHost, UserIP, Fqdn}
         /\ conf.classy \in BOOLEAN /\ conf.management \in BOOLEAN /\ conf.vip \in BOOLEAN
         /\ conf.emptyDefault \in BOOLEAN
         /\ Fqdn \notin IPAddrs /\ NoHost \notin IPAddrs /\ Fqdn # NoHost
         /\ UserIP \in IPAddrs /\ Resolves \in IPAddrs /\ VIPs \subseteq IPAddrs
<1>1. conf \in [vip : BOOLEAN, management : BOOLEAN, classy : BOOLEAN,
                emptyDefault : BOOLEAN, given : {NoHost, UserIP, Fqdn}]
  BY Zenon, Hosts
<1> QED
  BY <1>1, Hosts DEF IPAddrs

\* A host name becomes an address, anything else stays as it is.
LEMMA QueryFacts ==
  ASSUME conf \in Configurations
  PROVE  /\ QueryFQDN(Fqdn) = Resolves
         /\ \A h \in IPAddrs \cup {NoHost} : QueryFQDN(h) = h
         /\ \A h \in IPAddrs \cup {NoHost, Fqdn} : QueryFQDN(h) \in IPAddrs \cup {NoHost}
  BY ConfFacts DEF QueryFQDN

\* The fields of a patched Cluster.
LEMMA MergedFacts ==
  ASSUME TypeOK, NEW c \in ClusterType
  PROVE  /\ Merged(c) \in ClusterType
         /\ Merged(c).team = IF c.team # clCache.team THEN c.team ELSE cl.team
         /\ Merged(c).host = IF c.host # clCache.host THEN c.host ELSE cl.host
         /\ Merged(c).var = IF c.var # clCache.var THEN c.var ELSE cl.var
<1> DEFINE new == [team |-> IF c.team # clCache.team THEN c.team ELSE cl.team,
                   avi |-> IF c.avi # clCache.avi THEN c.avi ELSE cl.avi,
                   ready |-> IF c.ready # clCache.ready THEN c.ready ELSE cl.ready,
                   host |-> IF c.host # clCache.host THEN c.host ELSE cl.host,
                   var |-> IF c.var # clCache.var THEN c.var ELSE cl.var]
<1>1. DOMAIN cl = {"team", "avi", "ready", "host", "var"}
  BY DEF TypeOK, ClusterType
<1>2. Merged(c) = new
  BY <1>1 DEF Merged
<1>3. new \in ClusterType
  BY DEF TypeOK, ClusterType
<1> QED
  BY <1>2, <1>3

\* The endpoint of a Cluster in the cache, and the Cluster once it is served.
LEMMA EndpointType ==
  ASSUME Configured
  PROVE  GetControlPlaneEndpoint(clCache) \in IPAddrs \cup {Fqdn, NoHost}
<1>1. clCache.var \in IPAddrs \cup {Fqdn, NoHost} /\ clCache.host \in IPAddrs \cup {Fqdn, NoHost}
  BY DEF Configured, TypeOK, ClusterType
<1> QED
  BY <1>1, ConfFacts DEF Configured, GetControlPlaneEndpoint

LEMMA ServedType ==
  ASSUME Configured, svcCache.ingress # NoHost
  PROVE  /\ svcCache.ingress \in IPAddrs
         /\ Served \in ClusterType /\ Served.team = clCache.team
<1>1. svcCache.ingress \in IPAddrs /\ clCache \in ClusterType
  BY DEF Configured, TypeOK, ServiceType
<1>2. conf.classy \in BOOLEAN
  BY ConfFacts DEF Configured
<1>3. /\ [clCache EXCEPT !.host = Fqdn] \in ClusterType
      /\ [clCache EXCEPT !.host = svcCache.ingress] \in ClusterType
      /\ [[clCache EXCEPT !.host = svcCache.ingress] EXCEPT !.var = svcCache.ingress] \in ClusterType
  BY Zenon, <1>1 DEF ClusterType
<1>4. Served \in ClusterType
  BY <1>2, <1>3 DEF Served, updateClusterControlPlaneEndpoint, SetControlPlaneEndpoint
<1>5. Served.team = clCache.team
  BY <1>1 DEF ClusterType, Served, updateClusterControlPlaneEndpoint, SetControlPlaneEndpoint
<1> QED
  BY <1>1, <1>4, <1>5

\* Setting the label changes nothing else.
LEMMA LabelledType ==
  ASSUME NEW c \in ClusterType, NEW a \in Adcs \cup {NoADC}
  PROVE  /\ Labelled(c, a) \in ClusterType
         /\ Labelled(c, a).team = c.team
         /\ Labelled(c, a).host = c.host /\ Labelled(c, a).var = c.var
  BY DEF Labelled, ClusterType

LEMMA PatchType ==
  ASSUME TypeOK, NEW c \in ClusterType, PatchCluster(c)
  PROVE  cl' \in ClusterType
  BY MergedFacts DEF PatchCluster, TypeOK

LEMMA OwnerType ==
  ASSUME NEW a \in AdcForCluster
  PROVE  a \in Adcs \cup {NoADC}
  BY Selection DEF AdcForCluster, GetAKODeploymentConfigForCluster, Customized, Known

LEMMA ReconcileClusterType ==
  ASSUME Configured, ReconcileCluster
  PROVE  Configured'
<1> USE DEF Configured
<1>1. CASE UpdateServiceFails
  <2>1. /\ Served \in ClusterType
        /\ Merged(Served) \in ClusterType
    BY <1>1, ServedType, MergedFacts DEF UpdateServiceFails
  <2>2. cl' \in ClusterType
    BY <1>1, <2>1, PatchType DEF UpdateServiceFails
  <2>3. QueryFQDN(Served.host) \in IPAddrs \cup {NoHost}
    BY <2>1, QueryFacts DEF ClusterType
  <2>4. Written \in ServiceType
    BY <2>3 DEF Written, TypeOK, ServiceType
  <2>5. svc' \in ServiceType
    BY <1>1, <2>4 DEF UpdateServiceFails, TypeOK
  <2> QED
    BY <1>1, <2>2, <2>5 DEF UpdateServiceFails, TypeOK, caches
<1>2. ASSUME NEW a \in AdcForCluster, CreateService(a)
      PROVE  Configured'
  <2>1. a \in Adcs \cup {NoADC}
    BY <1>2, OwnerType
  <2>2. QueryFQDN(GetControlPlaneEndpoint(clCache)) \in IPAddrs \cup {NoHost}
    BY EndpointType, QueryFacts
  <2>3. svc' \in ServiceType
    BY <1>2, <2>1, <2>2 DEF CreateService, ServiceType
  <2> QED
    BY <1>2, <2>3 DEF CreateService, TypeOK, caches
<1>3. ASSUME NEW a \in AdcForCluster, UpdateService(a)
      PROVE  Configured'
  <2>1. Served \in ClusterType
    BY <1>3, ServedType DEF UpdateService
  <2>2. a \in Adcs \cup {NoADC}
    BY <1>3, OwnerType
  <2>3. cl' \in ClusterType
    BY <1>3, <2>1, <2>2, LabelledType, PatchType DEF UpdateService
  <2>4. QueryFQDN(Served.host) \in IPAddrs \cup {NoHost}
    BY <2>1, QueryFacts DEF ClusterType
  <2>5. svc' \in ServiceType
    BY <1>3, <2>4 DEF UpdateService, Written, TypeOK, ServiceType
  <2> QED
    BY <1>3, <2>3, <2>5 DEF UpdateService, TypeOK, caches
<1>4. ASSUME NEW a \in AdcForCluster, LabelOnly(a)
      PROVE  Configured'
  <2>1. cl' \in ClusterType
    BY <1>4, OwnerType, LabelledType, PatchType DEF LabelOnly, TypeOK
  <2> QED
    BY <1>4, <2>1 DEF LabelOnly, TypeOK, caches
<1> QED
  BY <1>1, <1>2, <1>3, <1>4 DEF ReconcileCluster

LEMMA ReconcileADCType ==
  ASSUME Configured, NEW a \in Adcs, ReconcileADC(a)
  PROVE  Configured'
<1> USE DEF Configured
<1>1. [clCache EXCEPT !.avi = a] \in ClusterType
  BY DEF TypeOK, ClusterType
<1>2. ASSUME LabelCluster(a) PROVE cl' \in ClusterType
  BY <1>1, <1>2, PatchType DEF LabelCluster, TypeOK
<1>3. CASE reconcileNormal(a)
  <2>1. ais' \subseteq OwnNetwork
    BY <1>3 DEF reconcileNormal, EnsureInfra, TypeOK
  <2>2. adc' \in AdcType
    BY <1>3 DEF reconcileNormal, TypeOK, AdcType
  <2> QED
    BY <1>2, <1>3, <2>1, <2>2 DEF reconcileNormal, TypeOK, caches
<1>4. CASE reconcileDelete(a)
  <2>1. ais' \subseteq OwnNetwork
    BY <1>4 DEF reconcileDelete, DropInfra, TypeOK
  <2>2. adc' \in AdcType
    BY <1>4 DEF reconcileDelete, TypeOK, AdcType
  <2> QED
    BY <1>2, <1>4, <2>1, <2>2 DEF reconcileDelete, TypeOK, caches
<1> QED
  BY <1>3, <1>4 DEF ReconcileADC

LEMMA AroundType ==
  ASSUME Configured, AssignIngress \/ Informers \/ Users
  PROVE  Configured'
<1> USE DEF Configured
<1>1. CASE AssignIngress
  <2>1. svc' \in ServiceType
    <3>1. \A ip \in IPAddrs : [svc EXCEPT !.ingress = ip] \in ServiceType
      BY DEF TypeOK, ServiceType
    <3>2. svc.pref \in IPAddrs \cup {NoHost}
      BY DEF TypeOK, ServiceType
    <3> QED
      BY <1>1, <3>1, <3>2, ConfFacts DEF AssignIngress
  <2> QED
    BY <1>1, <2>1 DEF AssignIngress, TypeOK, caches
<1>2. CASE Informers
  BY <1>2 DEF Informers, SyncAdcs, SyncCluster, SyncInfra, SyncService, TypeOK, caches
<1>3. CASE RelabelCluster \/ ReadyChanges
  <2>1. TeamsOf(conf.management) \subseteq Teams
    BY Selection DEF TeamsOf
  <2>2. \A t \in Teams : [cl EXCEPT !.team = t] \in ClusterType
    BY DEF TypeOK, ClusterType
  <2>3. [cl EXCEPT !.ready = ~@] \in ClusterType
    BY Zenon DEF TypeOK, ClusterType
  <2>4. cl' \in ClusterType
    BY <1>3, <2>1, <2>2, <2>3 DEF RelabelCluster, ReadyChanges
  <2> QED
    BY <1>3, <2>4 DEF RelabelCluster, ReadyChanges, UserStep, TypeOK, caches
<1>4. CASE DeleteService
  <2>1. svc' \in ServiceType
    BY <1>4 DEF DeleteService, NoService, ServiceType
  <2> QED
    BY <1>4, <2>1 DEF DeleteService, UserStep, TypeOK, caches
<1>5. ASSUME NEW a \in Adcs, CreateADC(a) \/ DeleteADC(a) PROVE Configured'
  <2>1. adc' \in AdcType
    BY <1>5 DEF CreateADC, DeleteADC, TypeOK, AdcType
  <2> QED
    BY <1>5, <2>1 DEF CreateADC, DeleteADC, UserStep, TypeOK, caches
<1> QED
  BY <1>1, <1>2, <1>3, <1>4, <1>5 DEF Users

LEMMA InitType == Init => Configured
<1> SUFFICES ASSUME Init PROVE Configured
  OBVIOUS
<1>1. PICK team \in TeamsOf(conf.management) :
        cl = [team |-> team, avi |-> NoADC, ready |-> TRUE, host |-> NoHost,
              var |-> IF conf.classy THEN conf.given ELSE NoHost]
  BY Zenon DEF Init
<1>2. team \in Teams
  BY Selection DEF TeamsOf
<1>3. conf.given \in IPAddrs \cup {Fqdn, NoHost}
  BY ConfFacts DEF Init
<1>4. cl \in ClusterType
  BY <1>1, <1>2, <1>3 DEF ClusterType
<1>5. svc \in ServiceType
  BY DEF Init, NoService, ServiceType
<1>6. adc \in AdcType
  BY DEF Init, AdcType
<1> QED
  BY <1>4, <1>5, <1>6 DEF Init, Configured, TypeOK

LEMMA NextType == Configured /\ [Next]_vars => Configured'
<1> SUFFICES ASSUME Configured, [Next]_vars PROVE Configured'
  OBVIOUS
<1>1. CASE UNCHANGED vars
  BY <1>1 DEF vars, caches, Configured, TypeOK
<1> QED
  BY <1>1, ReconcileClusterType, ReconcileADCType, AroundType DEF Next

\* Every variable keeps its type; in particular AKO is never handed a host name
\* (createService, updateControlPlaneEndpointToService).
THEOREM TypeCorrect == Spec => []TypeOK
<1>1. Configured => TypeOK
  BY DEF Configured
<1> QED
  BY <1>1, InitType, NextType, PTL DEF Spec

-----------------------------------------------------------------------------
(***************************************************************************)
(* The copies of the Cluster and of the Service agree on the endpoint.     *)
(***************************************************************************)

\* What EndpointInv says of a copy of the Cluster, and of one of the Service.
Agrees(c) ==
  /\ conf.management => c.team \in Selects[ManagementADC]
  /\ conf.given = NoHost => c.host # Fqdn /\ (conf.classy => c.var = c.host)
  /\ conf.given # NoHost =>
       c.host \in {NoHost, conf.given} /\ (conf.classy => c.var = conf.given)

ServedAsAsked(s) ==
  /\ s.ingress # NoHost => s.exists
  /\ s.exists /\ conf.given # NoHost =>
       s.pref = QueryFQDN(conf.given) /\ s.ingress \in {NoHost, s.pref}

LEMMA InvParts ==
  EndpointInv <=> Agrees(cl) /\ Agrees(clCache) /\ ServedAsAsked(svc) /\ ServedAsAsked(svcCache)
  BY DEF EndpointInv, Agrees, ServedAsAsked

\* The endpoint the operator works with is the one asked for, if there is one.
LEMMA EndpointFacts ==
  ASSUME Configured, Agrees(clCache)
  PROVE  /\ conf.given # NoHost => GetControlPlaneEndpoint(clCache) = conf.given
         /\ conf.given = NoHost => /\ GetControlPlaneEndpoint(clCache) = clCache.host
                                   /\ clCache.host # Fqdn
  BY ConfFacts DEF Configured, Agrees, GetControlPlaneEndpoint

\* A Cluster that has just been served agrees.
LEMMA ServedAgrees ==
  ASSUME Configured, Agrees(clCache), ServedAsAsked(svcCache), svcCache.ingress # NoHost
  PROVE  /\ Agrees(Served)
         /\ conf.given # NoHost => Served.host = conf.given
<1> DEFINE ip == svcCache.ingress
<1>1. /\ ip \in IPAddrs /\ clCache \in ClusterType
      /\ Served.team = clCache.team
  BY ServedType DEF Configured, TypeOK
<1>2. conf.classy \in BOOLEAN /\ ip # Fqdn /\ conf.given \in {NoHost, UserIP, Fqdn} /\ Fqdn # NoHost
  BY <1>1, ConfFacts DEF Configured
<1>3. CASE conf.given = Fqdn
  <2>1. Served = [clCache EXCEPT !.host = Fqdn]
    BY <1>2, <1>3, EndpointFacts DEF Served, updateClusterControlPlaneEndpoint
  <2>2. Served.host = Fqdn /\ Served.var = clCache.var
    BY <1>1, <2>1 DEF ClusterType
  <2> QED
    BY <1>1, <1>2, <1>3, <2>2 DEF Agrees
<1>4. CASE conf.given # Fqdn
  <2>1. GetControlPlaneEndpoint(clCache) # Fqdn
    BY <1>2, <1>4, EndpointFacts
  <2>2. Served = SetControlPlaneEndpoint([clCache EXCEPT !.host = ip], ip)
    BY <2>1 DEF Served, updateClusterControlPlaneEndpoint
  <2>3. Served.host = ip /\ (conf.classy => Served.var = ip)
    BY <1>1, <2>2 DEF SetControlPlaneEndpoint, ClusterType
  <2>4. conf.given # NoHost => ip = conf.given
    BY <1>2, <1>4, QueryFacts, ConfFacts DEF ServedAsAsked, Configured
  <2> QED
    BY <1>1, <1>2, <2>3, <2>4 DEF Agrees
<1> QED
  BY <1>3, <1>4

\* A patch writes host and variable both or neither, since they agree in the copy
\* that was read.
LEMMA PatchAgrees ==
  ASSUME Configured, Agrees(cl), Agrees(clCache),
         NEW c \in ClusterType, Agrees(c), c.team = clCache.team
  PROVE  /\ Agrees(Merged(c))
         /\ UNCHANGED conf /\ PatchCluster(c) => Agrees(cl)'
<1>1. Agrees(Merged(c))
  BY MergedFacts DEF Agrees, Configured
<1> QED
  BY <1>1 DEF PatchCluster, Agrees

LEMMA ReconcileClusterInv ==
  ASSUME Configured, EndpointInv, ReconcileCluster
  PROVE  EndpointInv'
<1>1. Agrees(cl) /\ Agrees(clCache) /\ ServedAsAsked(svc) /\ ServedAsAsked(svcCache)
  BY InvParts
<1>2. UNCHANGED <<conf, clCache, svcCache>>
  BY DEF ReconcileCluster, UpdateServiceFails, CreateService, UpdateService, LabelOnly, caches
<1>3. Agrees(clCache)' /\ ServedAsAsked(svcCache)'
  BY <1>1, <1>2 DEF Agrees, ServedAsAsked
<1>inv. Agrees(cl)' /\ Agrees(clCache)' /\ ServedAsAsked(svc)' /\ ServedAsAsked(svcCache)'
         => EndpointInv'
  BY DEF EndpointInv, Agrees, ServedAsAsked
<1>4. ASSUME svcCache.ingress # NoHost
      PROVE  Served \in ClusterType /\ Agrees(Served) /\ Served.team = clCache.team
  BY <1>1, <1>4, ServedType, ServedAgrees
<1>5. ASSUME svcCache.ingress # NoHost, svcCache = svc, svc' = Written
      PROVE  ServedAsAsked(svc)'
  <2>1. svc \in ServiceType
    BY DEF Configured, TypeOK
  <2>2. /\ svc'.pref = QueryFQDN(Served.host)
        /\ svc'.ingress = svc.ingress /\ svc'.exists = svc.exists
    BY <1>5, <2>1 DEF Written, ServiceType
  <2>3. conf.given # NoHost => Served.host = conf.given
    BY <1>1, <1>5, ServedAgrees
  <2> QED
    BY <1>1, <1>2, <2>2, <2>3 DEF ServedAsAsked
<1>6. ASSUME UNCHANGED svc PROVE ServedAsAsked(svc)'
  BY <1>1, <1>2, <1>6 DEF ServedAsAsked
<1>7. ASSUME UNCHANGED cl PROVE Agrees(cl)'
  BY <1>1, <1>2, <1>7 DEF Agrees
<1>8. CASE UpdateServiceFails
  <2>1. Agrees(cl)'
    <3>1. Agrees(Merged(Served)) /\ (PatchCluster(Served) => Agrees(cl)')
      BY <1>1, <1>2, <1>4, <1>8, PatchAgrees DEF UpdateServiceFails
    <3>2. CASE cl' = Merged(Served)
      BY <1>2, <3>1, <3>2 DEF Agrees
    <3> QED
      BY <1>8, <3>1, <3>2 DEF UpdateServiceFails
  <2>2. ServedAsAsked(svc)'
    BY <1>5, <1>6, <1>8 DEF UpdateServiceFails
  <2> QED
    BY <1>3, <2>1, <2>2, <1>inv
<1>9. ASSUME NEW a \in AdcForCluster, CreateService(a) PROVE EndpointInv'
  <2>1. ServedAsAsked(svc)'
    <3>1. /\ svc'.ingress = NoHost
          /\ svc'.pref = QueryFQDN(GetControlPlaneEndpoint(clCache))
      BY <1>9 DEF CreateService
    <3> QED
      BY <1>1, <1>2, <3>1, EndpointFacts DEF ServedAsAsked
  <2> QED
    BY <1>3, <1>7, <1>9, <2>1, <1>inv DEF CreateService
<1>10. ASSUME NEW a \in AdcForCluster, UpdateService(a) PROVE EndpointInv'
  <2> DEFINE c == Labelled(Served, a)
  <2>1. c \in ClusterType /\ c.team = Served.team /\ c.host = Served.host /\ c.var = Served.var
    BY <1>4, <1>10, OwnerType, LabelledType DEF UpdateService
  <2>2. Agrees(c) /\ c.team = clCache.team
    BY <1>4, <1>10, <2>1 DEF Agrees, UpdateService
  <2>3. Agrees(cl)'
    BY <1>1, <1>2, <1>10, <2>1, <2>2, PatchAgrees DEF UpdateService
  <2> QED
    BY <1>3, <1>5, <1>10, <2>3, <1>inv DEF UpdateService
<1>11. ASSUME NEW a \in AdcForCluster, LabelOnly(a) PROVE EndpointInv'
  <2> DEFINE c == Labelled(clCache, a)
  <2>1. c \in ClusterType /\ c.team = clCache.team /\ c.host = clCache.host /\ c.var = clCache.var
    BY <1>11, OwnerType, LabelledType DEF Configured, TypeOK
  <2>2. Agrees(c)
    BY <1>1, <2>1 DEF Agrees
  <2>3. Agrees(cl)'
    BY <1>1, <1>2, <1>11, <2>1, <2>2, PatchAgrees DEF LabelOnly
  <2> QED
    BY <1>3, <1>6, <1>11, <2>3, <1>inv DEF LabelOnly
<1> QED
  BY <1>8, <1>9, <1>10, <1>11 DEF ReconcileCluster

LEMMA ReconcileADCInv ==
  ASSUME Configured, EndpointInv, NEW a \in Adcs, ReconcileADC(a)
  PROVE  EndpointInv'
<1>1. Agrees(cl) /\ Agrees(clCache) /\ ServedAsAsked(svc) /\ ServedAsAsked(svcCache)
  BY InvParts
<1>2. UNCHANGED <<conf, svc, clCache, svcCache>> /\ LabelCluster(a)
  BY DEF ReconcileADC, reconcileNormal, reconcileDelete, caches
<1> DEFINE c == [clCache EXCEPT !.avi = a]
<1>3. c \in ClusterType /\ c.team = clCache.team /\ c.host = clCache.host /\ c.var = clCache.var
  BY DEF Configured, TypeOK, ClusterType
<1>4. Agrees(c)
  BY <1>1, <1>3 DEF Agrees
<1>5. CASE PatchCluster(c)
  BY Zenon, <1>1, <1>2, <1>3, <1>4, <1>5, PatchAgrees DEF EndpointInv, Agrees, ServedAsAsked
<1>6. CASE UNCHANGED cl
  BY <1>2, <1>6 DEF EndpointInv
<1> QED
  BY <1>2, <1>5, <1>6 DEF LabelCluster

LEMMA AroundInv ==
  ASSUME Configured, EndpointInv, AssignIngress \/ Informers \/ Users
  PROVE  EndpointInv'
<1>1. CASE AssignIngress
  <2>1. UNCHANGED <<conf, cl, clCache, svcCache>>
    BY <1>1 DEF AssignIngress, caches
  <2>2. ServedAsAsked(svc)'
    <3>1. svc \in ServiceType /\ svc.exists
      BY <1>1 DEF AssignIngress, Configured, TypeOK
    <3>2. PICK ip : svc' = [svc EXCEPT !.ingress = ip] /\ (svc.pref # NoHost => ip = svc.pref)
      BY <1>1 DEF AssignIngress
    <3>3. svc'.exists /\ svc'.pref = svc.pref /\ svc'.ingress = ip
      BY <3>1, <3>2 DEF ServiceType
    <3>4. conf.given # NoHost => svc.pref = QueryFQDN(conf.given) /\ svc.pref # NoHost
      BY <3>1, ConfFacts, QueryFacts DEF EndpointInv, Configured
    <3> QED
      BY <2>1, <3>2, <3>3, <3>4 DEF ServedAsAsked
  <2> QED
    BY <2>1, <2>2 DEF EndpointInv, ServedAsAsked
<1>2. CASE Informers
  BY <1>2 DEF Informers, SyncAdcs, SyncCluster, SyncInfra, SyncService, EndpointInv
<1>3. CASE Users
  <2>1. UNCHANGED <<conf, clCache, svcCache>>
    BY <1>3 DEF Users, RelabelCluster, ReadyChanges, DeleteService, CreateADC, DeleteADC,
                UserStep, caches
  <2>2. Agrees(cl)'
    <3>1. CASE UNCHANGED cl
      BY <2>1, <3>1 DEF EndpointInv, Agrees
    <3>2. CASE RelabelCluster
      <4>1. PICK t \in TeamsOf(conf.management) : cl' = [cl EXCEPT !.team = t]
        BY <3>2 DEF RelabelCluster
      <4>2. cl'.team = t /\ cl'.host = cl.host /\ cl'.var = cl.var
        BY <4>1 DEF Configured, TypeOK, ClusterType
      <4> QED
        BY <2>1, <4>1, <4>2 DEF EndpointInv, Agrees, TeamsOf
    <3>3. CASE ReadyChanges
      <4>1. cl'.team = cl.team /\ cl'.host = cl.host /\ cl'.var = cl.var
        BY <3>3 DEF ReadyChanges, Configured, TypeOK, ClusterType
      <4> QED
        BY <2>1, <4>1 DEF EndpointInv, Agrees
    <3> QED
      BY <1>3, <3>1, <3>2, <3>3 DEF Users, DeleteService, CreateADC, DeleteADC
  <2>3. ServedAsAsked(svc)'
    <3>1. CASE UNCHANGED svc
      BY <2>1, <3>1 DEF EndpointInv, ServedAsAsked
    <3>2. CASE svc' = NoService
      BY <2>1, <3>2 DEF NoService, ServedAsAsked
    <3> QED
      BY <1>3, <3>1, <3>2
      DEF Users, RelabelCluster, ReadyChanges, DeleteService, CreateADC, DeleteADC
  <2> QED
    BY <2>1, <2>2, <2>3 DEF EndpointInv, Agrees, ServedAsAsked
<1> QED
  BY <1>1, <1>2, <1>3

LEMMA InitInv == Init => EndpointInv
<1> SUFFICES ASSUME Init PROVE EndpointInv
  OBVIOUS
<1>1. PICK team \in TeamsOf(conf.management) :
        cl = [team |-> team, avi |-> NoADC, ready |-> TRUE, host |-> NoHost,
              var |-> IF conf.classy THEN conf.given ELSE NoHost]
  BY Zenon DEF Init
<1>2. Agrees(cl)
  BY <1>1, ConfFacts DEF Agrees, TeamsOf, Init
<1>3. ServedAsAsked(svc)
  BY DEF Init, NoService, ServedAsAsked
<1> QED
  BY <1>2, <1>3, InvParts DEF Init

\* The copies of Cluster and Service agree on the endpoint, for any selectors and
\* addresses and any number of failures and edits.
THEOREM EndpointInvariant == Spec => []EndpointInv
<1>1. Configured /\ EndpointInv /\ [Next]_vars => EndpointInv'
  <2> SUFFICES ASSUME Configured, EndpointInv, [Next]_vars PROVE EndpointInv'
    OBVIOUS
  <2>1. CASE UNCHANGED vars
    BY <2>1 DEF vars, caches, EndpointInv
  <2> QED
    BY <2>1, ReconcileClusterInv, ReconcileADCInv, AroundInv DEF Next
<1> QED
  BY <1>1, InitType, NextType, InitInv, PTL DEF Spec

\* A Service that is created again asks for the address the Cluster advertises
\* (createService).
THEOREM AddressKept == Spec => AdvertisedAddressKept
<1>1. Configured /\ EndpointInv /\ [Next]_vars =>
        [~svc.exists /\ svc'.exists /\ clCache.host = cl.host /\ cl.host # NoHost =>
           svc'.pref = QueryFQDN(cl.host)]_vars
  <2> SUFFICES ASSUME Configured, EndpointInv, Next, ~svc.exists, svc'.exists,
                      clCache.host = cl.host, cl.host # NoHost
               PROVE  svc'.pref = QueryFQDN(cl.host)
    OBVIOUS
  <2>1. PICK a \in AdcForCluster : CreateService(a)
    <3>1. svc \in ServiceType
      BY DEF Configured, TypeOK
    <3>2. svc' # svc /\ svc' # NoService
      BY DEF NoService
    <3>3. \A ip : [svc EXCEPT !.ingress = ip].exists = svc.exists
      BY <3>1 DEF ServiceType
    <3>4. Written.exists = svc.exists
      BY <3>1 DEF Written, ServiceType
    <3>5. ~(\E a \in Adcs : ReconcileADC(a))
      BY <3>2 DEF ReconcileADC, reconcileNormal, reconcileDelete
    <3>6. ~AssignIngress
      BY <3>3 DEF AssignIngress
    <3>7. ~Informers
      BY <3>2 DEF Informers, SyncAdcs, SyncCluster, SyncInfra, SyncService
    <3>8. ~Users
      BY <3>2 DEF Users, RelabelCluster, ReadyChanges, DeleteService, CreateADC, DeleteADC
    <3>9. ~UpdateServiceFails
      BY <3>2, <3>4 DEF UpdateServiceFails
    <3>10. \A a : ~UpdateService(a) /\ ~LabelOnly(a)
      BY <3>2, <3>4 DEF UpdateService, LabelOnly
    <3> QED
      BY <3>5, <3>6, <3>7, <3>8, <3>9, <3>10 DEF Next, ReconcileCluster
  <2>2. svc'.pref = QueryFQDN(GetControlPlaneEndpoint(clCache))
    BY <2>1 DEF CreateService
  <2>3. GetControlPlaneEndpoint(clCache) = cl.host
    BY EndpointFacts, InvParts, ConfFacts DEF Agrees, Configured
  <2> QED
    BY <2>2, <2>3
<1> QED
  BY <1>1, InitType, NextType, InitInv, EndpointInvariant, PTL DEF Spec, AdvertisedAddressKept

-----------------------------------------------------------------------------

\* No other ADC's selector matches the labels of a management cluster.
ManagementSelectsAlone ==
  \A a \in Adcs \ {ManagementADC} : Selects[a] \cap Selects[ManagementADC] = {}

\* The Service of the management cluster has the annotation with its AviInfraSetting
\* from the start (annotateService), if selectors keep the management cluster apart.
THEOREM ManagementAnnotated ==
  ASSUME ManagementSelectsAlone
  PROVE  Spec => []ManagementServiceAnnotated
<1> DEFINE Meant == conf.management /\ ~conf.emptyDefault /\ ManagementADC \in OwnNetwork
<1>1. ASSUME EndpointInv, Meant, NEW a \in AdcForCluster, CreateService(a)
      PROVE  svc'.infra = ManagementADC
  <2>1. a # NoADC /\ clCache.team \in Selects[ManagementADC]
    BY <1>1 DEF CreateService, MayAnnotate, EndpointInv
  <2>2. a \in Customized(adcCache, conf.emptyDefault, clCache)
    BY <1>1, <2>1 DEF AdcForCluster, GetAKODeploymentConfigForCluster, defaultADCHasEmptySelector,
                      EmptySelector
  <2>3. a = ManagementADC
    BY <2>1, <2>2, ManagementSelectsAlone DEF Customized, Known, ManagementSelectsAlone
  <2> QED
    BY <1>1, <2>3 DEF CreateService, MayAnnotate
<1>2. ASSUME Configured, EndpointInv, ManagementServiceAnnotated, [Next]_vars
      PROVE  ManagementServiceAnnotated'
  <2>1. svc \in ServiceType
    BY <1>2 DEF Configured, TypeOK
  <2>2. UNCHANGED conf
    BY <1>2 DEF Next, ReconcileCluster, UpdateServiceFails, CreateService, UpdateService, LabelOnly,
                ReconcileADC, reconcileNormal, reconcileDelete, AssignIngress, Informers, SyncAdcs,
                SyncCluster, SyncInfra, SyncService, Users, RelabelCluster, ReadyChanges,
                DeleteService, CreateADC, DeleteADC, UserStep, vars
  <2>3. CASE svc'.exists = svc.exists /\ svc'.infra = svc.infra
    BY <1>2, <2>2, <2>3 DEF ManagementServiceAnnotated
  <2>4. CASE ~svc'.exists
    BY <2>4 DEF ManagementServiceAnnotated
  <2>5. ASSUME NEW a \in AdcForCluster, CreateService(a) PROVE ManagementServiceAnnotated'
    BY <1>1, <1>2, <2>2, <2>5 DEF ManagementServiceAnnotated
  <2>6. CASE svc' = Written
    <3>1. svc'.exists = svc.exists /\ svc'.infra = svc.infra
      BY <2>1, <2>6 DEF Written, ServiceType
    <3> QED
      BY <2>3, <3>1
  <2>7. CASE AssignIngress
    <3>1. svc'.exists = svc.exists /\ svc'.infra = svc.infra
      BY Zenon, <2>1, <2>7 DEF AssignIngress, ServiceType
    <3> QED
      BY <2>3, <3>1
  <2>8. CASE svc' = NoService
    BY <2>4, <2>8 DEF NoService
  <2>9. CASE UNCHANGED svc
    BY <2>3, <2>9
  <2>10. CASE ReconcileCluster
    BY <2>5, <2>6, <2>9, <2>10 DEF ReconcileCluster, UpdateServiceFails, UpdateService, LabelOnly
  <2>11. CASE Informers \/ Users
    BY <2>8, <2>9, <2>11 DEF Informers, SyncAdcs, SyncCluster, SyncInfra, SyncService, Users,
                             RelabelCluster, ReadyChanges, DeleteService, CreateADC, DeleteADC
  <2>12. ASSUME NEW a \in Adcs, ReconcileADC(a) PROVE ManagementServiceAnnotated'
    BY <2>9, <2>12 DEF ReconcileADC, reconcileNormal, reconcileDelete
  <2> QED
    BY <1>2, <2>7, <2>9, <2>10, <2>11, <2>12 DEF Next, vars
<1>3. Init => ManagementServiceAnnotated
  BY DEF Init, NoService, ManagementServiceAnnotated
<1> QED
  BY <1>2, <1>3, InitType, NextType, EndpointInvariant, PTL DEF Spec
=============================================================================
