------------------------ MODULE MCControlPlaneService ------------------------
EXTENDS ControlPlaneService, TLC
CONSTANTS def, mgmt, blue

\* Disjoint selectors: no Cluster matches two of them.
SelectorOf == (def :> {"plain"}) @@ (mgmt :> {"management"}) @@ (blue :> {"blue"})

Kind(vip, management, classy, given, emptyDefault) ==
  [vip |-> vip, management |-> management, classy |-> classy, given |-> given,
   emptyDefault |-> emptyDefault]

\* Management clusters; Clusters that ask for nothing, for an address, for a
\* host name; and those whose control plane AVI does not serve.
Kinds == {Kind(TRUE, TRUE, TRUE, NoHost, FALSE), Kind(TRUE, TRUE, FALSE, Fqdn, TRUE),
          Kind(TRUE, FALSE, TRUE, NoHost, TRUE), Kind(TRUE, FALSE, FALSE, NoHost, FALSE),
          Kind(TRUE, FALSE, TRUE, UserIP, FALSE), Kind(TRUE, FALSE, FALSE, UserIP, TRUE),
          Kind(TRUE, FALSE, FALSE, Fqdn, TRUE), Kind(TRUE, FALSE, TRUE, Fqdn, TRUE),
          Kind(FALSE, FALSE, FALSE, NoHost, TRUE), Kind(FALSE, TRUE, TRUE, NoHost, FALSE)}
=============================================================================
