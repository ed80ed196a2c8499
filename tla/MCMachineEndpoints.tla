-------------------------- MODULE MCMachineEndpoints --------------------------
(***************************************************************************)
(* MachineEndpoints for TLC.                                               *)
(***************************************************************************)
EXTENDS MachineEndpoints, TLC

CONSTANTS m1, m2, a4, b4, c6, host

Family == (a4 :> "V4") @@ (b4 :> "V4") @@ (c6 :> "V6")

Ext(x) == [external |-> TRUE, address |-> x]
Int(x) == [external |-> FALSE, address |-> x]

\* One external address of the family; another, between one of the other family
\* and a host name.
GoodLists == {<<Ext(a4)>>, <<Ext(c6), Ext(b4), Ext(host)>>}

\* The Machines are interchangeable in every safety property.
Symmetry == Permutations(Machines)
=============================================================================
