----------------------------- MODULE MCAdcPhases -----------------------------
(***************************************************************************)
(* AdcPhases for TLC.                                                      *)
(***************************************************************************)
EXTENDS AdcPhases, TLC

Same == Permutations(Authorities)

V4(addr, size) == [addr |-> addr, size |-> size, family |-> "V4"]
Pool(b, e) == [begin |-> b, end |-> e, family |-> "V4"]

None == [o \in Options |-> Nil]

\* Every option that arrives in its place, each unlike its default.
Full ==
  [o \in Options |->
     CASE o \in OptionsOf(Textual) -> (o # "disableStaticRouteSync")
       [] o \in {"disableIngressClass", "defaultIngressController", "noPGForSNI", "pspEnabled"} -> TRUE
       [] o = "replicaCount" -> 2
       [] o \in Misplaced \cup {"ipFamily"} -> Nil
       [] OTHER -> o]

Plainly == [cidr |-> V4(0, 4), pools |-> <<Pool(2, 3), Pool(0, 1)>>, control |-> Nil,
            tenant |-> Nil, extra |-> None]

\* A longer prefix at the same address with all options, other pools with a control
\* plane network, pools that overlap, and no pools with IPv6 and a misplaced option.
ManySpecs ==
  {Plainly,
   [Plainly EXCEPT !.cidr = V4(0, 8), !.extra = Full, !.tenant = "team"],
   [Plainly EXCEPT !.pools = <<Pool(0, 2)>>, !.control = [addr |-> 0, size |-> 2, family |-> "V6"]],
   [Plainly EXCEPT !.pools = <<Pool(0, 2), Pool(1, 3)>>],
   [Plainly EXCEPT !.pools = Nil, !.extra.enableEvents = TRUE, !.extra.ipFamily = "V6"]}

Kind(management, customer, classy, vip, pods, services) ==
  [management |-> management, customer |-> customer, classy |-> classy, vip |-> vip,
   net |-> [pods |-> pods, services |-> services]]

\* A workload Cluster of a class, one with the customer's credentials, the management
\* Cluster, and a workload Cluster that is refused; with two families or none given.
Kinds ==
  {Kind(FALSE, FALSE, TRUE, FALSE, <<"V4", "V6">>, <<"V4", "V6">>),
   Kind(FALSE, TRUE, FALSE, FALSE, <<>>, <<>>),
   Kind(TRUE, FALSE, FALSE, TRUE, <<"V4", "V6">>, <<>>),
   Kind(FALSE, FALSE, FALSE, FALSE, <<"V6", "V4">>, <<"V6", "V4">>)}

\* Two resources AKO needs, one of which AVI dropped in version 2.
RoleMap == [pool |-> "WRITE_ACCESS", ping |-> "READ_ACCESS"]
Dropped == [ping |-> 2]
=============================================================================
