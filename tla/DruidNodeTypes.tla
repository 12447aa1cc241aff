--------------------------- MODULE DruidNodeTypes ---------------------------
(* The node types of a Druid cluster, the order in which the operator deploys *)
(* them, and the kinds of Kubernetes object one node of the spec turns into.  *)
EXTENDS Integers, Sequences

(* The order in which getAllNodeSpecsInDruidPrescribedOrder concatenates its  *)
(* per-type lists.                                                            *)
PrescribedOrder ==
    <<"historical", "overlord", "middleManager", "indexer",
      "broker", "coordinator", "router">>

DruidTypes == {PrescribedOrder[i] : i \in 1..7}

TypeRank(t) == CHOOSE i \in 1..7 : PrescribedOrder[i] = t

(* The order in which the node loop of deployDruidCluster writes the objects  *)
(* of one node.                                                               *)
WriteOrder ==
    <<"ConfigMap", "Service", "StatefulSet", "Deployment", "Ingress",
      "PodDisruptionBudget", "HPAutoScaler", "PersistentVolumeClaim">>

WrittenKinds == {WriteOrder[i] : i \in 1..8}

WriteRank(k) == CHOOSE i \in 1..8 : WriteOrder[i] = k

(* The order of the deleteUnusedResources calls that follow the loop.         *)
PruneOrder ==
    <<"StatefulSet", "Deployment", "HPAutoScaler", "Ingress",
      "PodDisruptionBudget", "Service", "ConfigMap">>

PrunedKinds == {PruneOrder[i] : i \in 1..7}

PruneRank(k) == CHOOSE i \in 1..7 : PruneOrder[i] = k

WorkloadKinds == {"StatefulSet", "Deployment"}

(* "VolumeClaim" is the claim the StatefulSet controller makes from a         *)
(* volumeClaimTemplate; "PersistentVolumeClaim" is one the operator writes.   *)
(* To the API server both are PersistentVolumeClaims with the druid_cr label. *)
ClaimKinds == {"PersistentVolumeClaim", "VolumeClaim"}
=============================================================================
