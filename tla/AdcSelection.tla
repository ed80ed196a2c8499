----------------------------- MODULE AdcSelection -----------------------------
(***************************************************************************)
(* Which AKODeploymentConfig (ADC) a Cluster belongs to: the two functions *)
(* of pkg/ako-operator that decide it from either side.  The Cluster       *)
(* controller asks for the ADC of a Cluster; the ADC controller lists the  *)
(* Clusters of an ADC, and leaves out those that carry another's label.    *)
(*                                                                         *)
(* A Cluster is a record with fields team (its labels, as far as selectors *)
(* look at them), avi (the label networking.tkg.tanzu.vmware.com/avi) and  *)
(* ready; adcs maps every ADC to "absent" or to a state it exists in.      *)
(***************************************************************************)

CONSTANTS
  Adcs,            \* AKODeploymentConfigs
  DefaultADC,      \* install-ako-for-all
  ManagementADC,   \* install-ako-for-management-cluster
  NoADC,
  Teams,           \* what the labels of a Cluster may say
  Selects          \* the labels a selector that is not empty matches

ASSUME Selection ==
  /\ {DefaultADC, ManagementADC} \subseteq Adcs /\ DefaultADC # ManagementADC
  /\ NoADC \notin Adcs
  /\ Selects \in [Adcs -> SUBSET Teams]

Known(adcs) == {a \in Adcs : adcs[a] # "absent"}

\* The webhook admits an empty selector for the default ADC only, and no change
\* of a selector: whether the default's is empty is settled once.
EmptySelector(a, emptyDefault) == a = DefaultADC /\ emptyDefault

isDefaultWcADC(a) == a = DefaultADC

defaultADCHasEmptySelector(adcs, emptyDefault) ==
  DefaultADC \in Known(adcs) /\ EmptySelector(DefaultADC, emptyDefault)

SkipCluster(c) == ~c.ready

\* ADCs with a selector of their own that matches.
Customized(adcs, emptyDefault, c) ==
  {a \in Known(adcs) : ~EmptySelector(a, emptyDefault) /\ c.team \in Selects[a]}

\* What the function may return: the list comes in no particular order and the
\* first match wins.
GetAKODeploymentConfigForCluster(adcs, emptyDefault, c) ==
  LET customized == Customized(adcs, emptyDefault, c)
  IN IF customized # {} THEN customized
     ELSE IF defaultADCHasEmptySelector(adcs, emptyDefault) THEN {DefaultADC}
     ELSE {NoADC}

\* Mutant: whose label the Cluster carries is not looked at.
MutantListedWhateverLabel(a, adcs, emptyDefault, management, c) ==
  /\ EmptySelector(a, emptyDefault) \/ c.team \in Selects[a]
  /\ ~SkipCluster(c)
  /\ management => a = ManagementADC

\* Is the Cluster in the list ListAkoDeploymentConfigSelectClusters makes for a?
ListedFor(a, adcs, emptyDefault, management, c) ==
  /\ EmptySelector(a, emptyDefault) \/ c.team \in Selects[a]
  /\ ~SkipCluster(c)
  /\ management => a = ManagementADC
  /\ \/ c.avi \in {NoADC, a}
     \/ isDefaultWcADC(c.avi) /\ defaultADCHasEmptySelector(adcs, emptyDefault)
=============================================================================
