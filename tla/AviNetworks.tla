----------------------------- MODULE AviNetworks -----------------------------
(***************************************************************************)
(* How the data network of an ADC is brought into AVI                      *)
(* (akodeploymentconfig_controller_avi_phase.go, netprovider).  A network  *)
(* of AVI has a list of subnets, each with its prefix and its list of      *)
(* static ranges, which are pairs of addresses like the pools of an ADC.   *)
(***************************************************************************)
EXTENDS AdcSpec, Functions

isIPLessThan(r, s) == r.begin < s.begin

\* sort.Slice: some order in which no range is less than an earlier one.
SortStaticRanges(ranges) ==
  LET sorting == CHOOSE p \in Bijection(DOMAIN ranges, DOMAIN ranges) :
                   \A i, j \in DOMAIN ranges : i < j => ~isIPLessThan(ranges[p[j]], ranges[p[i]])
  IN [i \in DOMAIN ranges |-> ranges[sorting[i]]]

\* The family of a range is not compared.
Bounds(ranges) == [i \in DOMAIN ranges |-> <<ranges[i].begin, ranges[i].end>>]

IsStaticIPRangeEqual(r, s) == Bounds(SortStaticRanges(r)) = Bounds(SortStaticRanges(s))

\* Mutant: ranges are only compared by their number.
MutantCountRanges(subnet, pools) ==
  IF pools = Nil \/ Len(pools) = Len(subnet.ranges) THEN subnet
  ELSE [subnet EXCEPT !.ranges = SortStaticRanges(pools)]

EnsureStaticRanges(subnet, pools) ==
  IF pools = Nil \/ IsStaticIPRangeEqual(pools, subnet.ranges) THEN subnet
  ELSE [subnet EXCEPT !.ranges = SortStaticRanges(pools)]

\* Mutant: the mask is not compared.
MutantSameAddress(subnets, cidr) == {i \in DOMAIN subnets : subnets[i].prefix.addr = cidr.addr}

\* The subnets with this address and mask.
AviNetworkContainsSubnet(subnets, cidr) ==
  {i \in DOMAIN subnets :
     subnets[i].prefix.addr = cidr.addr /\ subnets[i].prefix.size = cidr.size}

\* The pools go to the first such subnet, or to a new one.
EnsureAviNetwork(subnets, cidr, pools) ==
  LET found == AviNetworkContainsSubnet(subnets, cidr)
      first == CHOOSE i \in found : \A j \in found : i <= j
  IN IF found # {} THEN [subnets EXCEPT ![first] = EnsureStaticRanges(@, pools)]
     ELSE Append(subnets, [prefix |-> cidr, ranges |-> IF pools = Nil THEN <<>> ELSE pools])

\* AVI takes a subnet whose ranges are in order, inside the prefix and apart.
AviAccepts(subnet) ==
  \A i \in DOMAIN subnet.ranges :
    LET r == subnet.ranges[i]
    IN /\ Inside(subnet.prefix, r.begin) /\ Inside(subnet.prefix, r.end)
       /\ r.begin <= r.end
       /\ \A j \in DOMAIN subnet.ranges \ {i} :
            r.end < subnet.ranges[j].begin \/ subnet.ranges[j].end < r.begin

\* The networks reconcileCloudUsableNetwork asks for, in this order.
UsableNetworks(spec) == IF spec.control = Nil THEN <<"data">> ELSE <<"control", "data">>
=============================================================================
