------------------------------ MODULE AkoValues ------------------------------
(***************************************************************************)
(* The values handed to AKO in the add-on Secret (pkg/ako/values.go), and  *)
(* the check of IP families that decides whether AKO is deployed at all    *)
(* (pkg/utils/get_ipfamily.go, cluster_controller_addon_secret.go).        *)
(*                                                                         *)
(* A value that is left to AKO is Nil.  Sections and values have the names *)
(* they have in YAML.                                                      *)
(***************************************************************************)
EXTENDS AdcSpec

-----------------------------------------------------------------------------
(***************************************************************************)
(* IP families.  A CIDR is represented by what GetIPFamilyFromCidr makes   *)
(* of it: "V4", "V6" or "INVALID".                                         *)
(***************************************************************************)

Families(cidrs) == {cidrs[i] : i \in DOMAIN cidrs} \ {"INVALID"}

ipFamilyFromCIDRStrings(cidrs) ==
  CASE Len(cidrs) > 2 \/ Families(cidrs) = {} -> "INVALID"
    [] Len(cidrs) <= 2 /\ Families(cidrs) = {"V4", "V6"} -> "DUAL"
    [] Len(cidrs) <= 2 /\ Families(cidrs) = {"V4"} -> "V4"
    [] Len(cidrs) <= 2 /\ Families(cidrs) = {"V6"} -> "V6"

Primary(cidrs) == IF cidrs[1] = "V4" THEN "V4,V6" ELSE "V6,V4"

\* A Cluster's network is a pair of lists of CIDRs, either of them may be empty.
GetClusterIPFamily(net) ==
  LET given == {cidrs \in {net.pods, net.services} : cidrs # <<>>}
      families == {ipFamilyFromCIDRStrings(cidrs) : cidrs \in given}
      leading == IF net.pods # <<>> THEN net.pods ELSE net.services
  IN IF given = {} THEN "V4"
     ELSE IF "INVALID" \in families \/ \E f, g \in families : f # g THEN "INVALID"
     ELSE IF families = {"DUAL"} THEN Primary(leading)
     ELSE CHOOSE f \in families : TRUE

\* Mutant: the ADC's own family is not looked at.
MutantClusterFamilyOnly(net, vip, adcFamily) ==
  GetClusterIPFamily(net) \in {"V4", "V4,V6"}

ValidateClusterIpFamily(net, vip, adcFamily) ==
  LET family == GetClusterIPFamily(net)
  IN /\ family \in {"V4", "V4,V6"}
     /\ adcFamily = "V6" => family # "V4" /\ ~(vip /\ family = "V4,V6")

-----------------------------------------------------------------------------
(***************************************************************************)
(* The values.  x is the set of options of spec.extraConfigs.              *)
(***************************************************************************)

FormatBool(b) == IF b THEN "true" ELSE "false"
Set(option, default) == IF option = Nil THEN default ELSE option
SetBool(option, default) == IF option = Nil THEN default ELSE FormatBool(option)

\* Layer7Only and EnableEvents are written where EnableEVH belongs.
NewAKOSettings(x) ==
  [log_level |-> Set(x.logLevel, "INFO"),
   full_sync_frequency |-> Set(x.fullSyncFrequency, "1800"),
   api_server_port |-> Set(x.apiServerPort, 8080),
   delete_config |-> "false",
   disable_static_route_sync |-> SetBool(x.disableStaticRouteSync, "true"),
   primary_instance |-> SetBool(x.primaryInstance, Nil),
   cni_plugin |-> x.cniPlugin,
   enable_EVH |-> SetBool(x.enableEvents, SetBool(x.layer7Only, SetBool(x.enableEVH, Nil))),
   layer_7_only |-> Nil,
   enable_events |-> Nil,
   services_api |-> SetBool(x.servicesAPI, Nil),
   vip_per_namespace |-> SetBool(x.vipPerNamespace, Nil),
   label_key |-> x.labelKey,
   label_value |-> x.labelValue,
   istio_enabled |-> SetBool(x.istioEnabled, Nil),
   use_default_secrets_only |-> SetBool(x.useDefaultSecretsOnly, Nil),
   blocked_namespace_list |-> x.blockedNamespaceList,
   ip_family |-> x.ipFamily]

\* The CIDR goes into the field of its family, and the data network stands in
\* for a control plane network that is not given.
NewNetworkSettings(spec) ==
  LET x == spec.extra
      data == [name |-> "data", cidr |-> spec.cidr]
      control == IF spec.control = Nil THEN data ELSE [name |-> "control", cidr |-> spec.control]
  IN [subnet |-> spec.cidr,
      vip_network_list |-> [network |-> "data",
        cidr |-> IF spec.cidr.family = "V6" THEN Nil ELSE spec.cidr,
        v6cidr |-> IF spec.cidr.family = "V6" THEN spec.cidr ELSE Nil],
      node_network_list |-> x.nodeNetworkList,
      control_plane_network |-> control,
      enable_rhi |-> SetBool(x.enableRHI, Nil),
      nsxt_t1_lr |-> x.nsxtT1LR,
      bgp_peer_labels |-> x.bgpPeerLabels]

NewL7Settings(x) ==
  [disable_ingress_class |-> Set(x.disableIngressClass, FALSE),
   default_ing_controller |-> Set(x.defaultIngressController, FALSE),
   shard_vs_size |-> x.shardVSSize,
   service_type |-> Set(x.serviceType, "NodePort"),
   pass_through_shardsize |-> x.passthroughShardSize,
   no_pg_for_SNI |-> Set(x.noPGForSNI, FALSE),
   enable_MCI |-> SetBool(x.enableMCI, Nil)]

NewL4Settings(x) == [default_domain |-> x.defaultDomain, auto_fqdn |-> x.autoFQDN]

\* The value, too, is written where the key belongs.
NewNodePortSelector(x) ==
  [node_port_key |-> Set(x.nodePortValue, x.nodePortKey), node_port_value |-> Nil]

NewRbac(x) ==
  [psp_enabled |-> Set(x.pspEnabled, FALSE), psp_policy_api_version |-> x.pspPolicyAPIVersion]

NewFeatureGates(x) == [gateway_api |-> SetBool(x.gatewayAPI, Nil)]

NewControllerSettings(spec, version) ==
  [tenant_name |-> spec.tenant, controller_version |-> version]

\* Mutant: the number of replicas is left at its default.
MutantReplicas(x) == 1

Replicas(x) == Set(x.replicaCount, 1)

\* NewValues, with the credentials AkoAddonSecretDataYaml adds.
NewValues(spec, version, secret) ==
  LET x == spec.extra
  IN [replica_count |-> Replicas(x),
      ako_settings |-> NewAKOSettings(x),
      network_settings |-> NewNetworkSettings(spec),
      l7_settings |-> NewL7Settings(x),
      l4_settings |-> NewL4Settings(x),
      controller_settings |-> NewControllerSettings(spec, version),
      nodeport_selector |-> NewNodePortSelector(x),
      rbac |-> NewRbac(x),
      feature_gates |-> NewFeatureGates(x),
      avi_credentials |-> [password |-> secret.pw, certificate_authority_data |-> secret.ca]]

-----------------------------------------------------------------------------
(***************************************************************************)
(* What the values should say, for the options whose name is the one of    *)
(* their value, by section: as text for some of the Booleans, as they are  *)
(* for the others.                                                         *)
(***************************************************************************)

Textual ==
  [ako_settings |->
     [disableStaticRouteSync |-> "disable_static_route_sync",
      primaryInstance |-> "primary_instance", enableEVH |-> "enable_EVH",
      servicesAPI |-> "services_api", vipPerNamespace |-> "vip_per_namespace",
      istioEnabled |-> "istio_enabled", useDefaultSecretsOnly |-> "use_default_secrets_only"],
   network_settings |-> [enableRHI |-> "enable_rhi"],
   l7_settings |-> [enableMCI |-> "enable_MCI"],
   feature_gates |-> [gatewayAPI |-> "gateway_api"]]

Plain ==
  [ako_settings |->
     [logLevel |-> "log_level", fullSyncFrequency |-> "full_sync_frequency",
      apiServerPort |-> "api_server_port", cniPlugin |-> "cni_plugin", labelKey |-> "label_key",
      labelValue |-> "label_value", blockedNamespaceList |-> "blocked_namespace_list",
      ipFamily |-> "ip_family"],
   network_settings |->
     [nodeNetworkList |-> "node_network_list", nsxtT1LR |-> "nsxt_t1_lr",
      bgpPeerLabels |-> "bgp_peer_labels"],
   l7_settings |->
     [disableIngressClass |-> "disable_ingress_class",
      defaultIngressController |-> "default_ing_controller", shardVSSize |-> "shard_vs_size",
      serviceType |-> "service_type", passthroughShardSize |-> "pass_through_shardsize",
      noPGForSNI |-> "no_pg_for_SNI"],
   l4_settings |-> [defaultDomain |-> "default_domain", autoFQDN |-> "auto_fqdn"],
   nodeport_selector |-> [nodePortKey |-> "node_port_key"],
   rbac |-> [pspEnabled |-> "psp_enabled", pspPolicyAPIVersion |-> "psp_policy_api_version"]]

Misplaced == {"layer7Only", "enableEvents", "nodePortValue"}

OptionsOf(names) == UNION {DOMAIN names[section] : section \in DOMAIN names}
Options == OptionsOf(Textual) \cup OptionsOf(Plain) \cup Misplaced \cup {"replicaCount"}

Reflects(values, x) ==
  /\ \A section \in DOMAIN Textual : \A o \in DOMAIN Textual[section] :
       x[o] # Nil => values[section][Textual[section][o]] = IF x[o] THEN "true" ELSE "false"
  /\ \A section \in DOMAIN Plain : \A o \in DOMAIN Plain[section] :
       x[o] # Nil => values[section][Plain[section][o]] = x[o]
  /\ x.replicaCount # Nil => values.replica_count = x.replicaCount
=============================================================================
