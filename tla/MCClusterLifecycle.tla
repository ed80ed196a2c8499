-------------------------- MODULE MCClusterLifecycle --------------------------
EXTENDS ClusterLifecycle, FiniteSets, TLC
CONSTANT c1

AllLB == [c \in Clusters |-> "yes"]

\* Clusters that Cluster API has not put its finalizer on yet: its arrival is one
\* of the edits.
NewInit == Init /\ \A c \in Clusters : cluster[c].fins = {}

NewClusters == NewInit /\ [][Next]_vars /\ Fairness
=============================================================================
