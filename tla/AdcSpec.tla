------------------------------- MODULE AdcSpec -------------------------------
(***************************************************************************)
(* The part of an ADC's specification that matters to AVI and to AKO, and  *)
(* what the webhook checks of it (api/v1alpha1/                            *)
(* akodeploymentconfig_webhook.go).  A specification has                   *)
(*   cidr     the prefix of the data network: the addresses from addr to   *)
(*            addr + size - 1 (addresses are numbers), of a family,        *)
(*   pools    the list of IP pools, pairs of addresses of a family,        *)
(*   control  the prefix of the control plane network,                     *)
(*   tenant   the AVI tenant,                                              *)
(*   extra    the options of extraConfigs, by name.                        *)
(* What is not set is Nil.                                                 *)
(***************************************************************************)
EXTENDS Naturals, Sequences

CONSTANT Nil

Prefixes == [addr : Nat, size : Nat, family : {"V4", "V6"}]
Pools == [begin : Nat, end : Nat, family : {"V4", "V6"}]

Inside(cidr, address) == address >= cidr.addr /\ address < cidr.addr + cidr.size

\* Every pool lies inside the prefix and has its family.  Whether pools overlap is
\* not looked at.
validateAviDataNetworks(spec) ==
  spec.pools # Nil =>
    \A i \in DOMAIN spec.pools :
      LET pool == spec.pools[i]
      IN /\ Inside(spec.cidr, pool.begin) /\ Inside(spec.cidr, pool.end)
         /\ pool.begin <= pool.end
         /\ pool.family = spec.cidr.family

validateReplicaCount(spec) ==
  spec.extra.replicaCount = Nil \/ spec.extra.replicaCount \in {1, 2}

validateAviSecret(secret) == secret # Nil

\* Any update, also one by the operator: the Secret with the certificate authority
\* must be there, the control plane network may not change, and the data network is
\* looked at only if its prefix changes.
ValidateUpdate(old, new, authority) ==
  /\ validateAviSecret(authority)
  /\ validateReplicaCount(new)
  /\ new.control = old.control
  /\ new.cidr # old.cidr => validateAviDataNetworks(new)
=============================================================================
