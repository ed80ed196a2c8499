--------------------------- MODULE CleanupProtocol ---------------------------
(***************************************************************************)
(* What the operator promises about a workload Cluster it has adopted, as  *)
(* the two conditions it reports promise it: AKO's objects are cleaned up  *)
(* first, with the Cluster's own AVI account, which stays until then; the  *)
(* account goes next; and what has been reported clean is never used or    *)
(* created again.  ClusterLifecycle implements this specification.         *)
(***************************************************************************)
CONSTANT Clusters

VARIABLES
  stage,    \* how far the Cluster's clean-up has been reported
  account,  \* does its AVI account exist?
  secret,   \* does the Secret with the account's password exist?
  ako       \* is AKO at work in it, or about to be?

vars == <<stage, account, secret, ako>>

\* In use; being deleted; AKO reported clean; the account reported clean.
Stages == {"serving", "deleting", "drained", "done"}

Init ==
  /\ stage = [c \in Clusters |-> "serving"]
  /\ account = [c \in Clusters |-> FALSE]
  /\ secret = [c \in Clusters |-> FALSE]
  /\ ako = [c \in Clusters |-> FALSE]

Advance(c, from, to) ==
  /\ stage[c] = from
  /\ stage' = [stage EXCEPT ![c] = to]
  /\ UNCHANGED <<account, secret, ako>>

\* Until AKO is reported clean, anything may be created, and everything but
\* the account may go.
Use(c) ==
  /\ stage[c] \in {"serving", "deleting"}
  /\ \E a, s, k \in BOOLEAN :
       /\ account[c] => a
       /\ account' = [account EXCEPT ![c] = a]
       /\ secret' = [secret EXCEPT ![c] = s]
       /\ ako' = [ako EXCEPT ![c] = k]
  /\ UNCHANGED stage

Delete(c) == Advance(c, "serving", "deleting")

ReportDrained(c) == ~ako[c] /\ Advance(c, "deleting", "drained")

\* After that nothing is created, and the account and its Secret go.
Reclaim(c) ==
  /\ stage[c] = "drained"
  /\ \E a, s \in BOOLEAN :
       /\ a => account[c]
       /\ s => secret[c]
       /\ account' = [account EXCEPT ![c] = a]
       /\ secret' = [secret EXCEPT ![c] = s]
  /\ UNCHANGED <<stage, ako>>

ReportDone(c) == ~account[c] /\ ~secret[c] /\ Advance(c, "drained", "done")

Next ==
  \E c \in Clusters :
    Use(c) \/ Delete(c) \/ ReportDrained(c) \/ Reclaim(c) \/ ReportDone(c)

Spec == Init /\ [][Next]_vars
=============================================================================
