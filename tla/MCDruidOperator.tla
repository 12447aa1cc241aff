--------------------------- MODULE MCDruidOperator --------------------------
(* Values for the constants of DruidOperator, shared by its configurations.   *)
EXTENDS DruidProperties

MCNodes == {"h", "b"}
MCNodeType == [n \in MCNodes |-> IF n = "h" THEN "historical" ELSE "broker"]

(* A cluster with a StatefulSet for the historicals and a Deployment for the  *)
(* brokers.                                                                   *)
Both == [n \in MCNodes |-> IF n = "h" THEN {"ConfigMap", "StatefulSet"}
                                      ELSE {"ConfigMap", "Deployment"}]

SpecOf(common, h, b, parts) ==
    [common |-> common, ver |-> [n \in MCNodes |-> IF n = "h" THEN h ELSE b],
     parts |-> parts, rolling |-> TRUE, noFinalizer |-> FALSE,
     deleteOrphans |-> FALSE, forceDelete |-> FALSE, ignored |-> FALSE,
     valid |-> TRUE]

(* The common configuration changes, so that both nodes roll; the new version *)
(* of the historicals never comes up.                                         *)
RollingSpecs ==
    {[s EXCEPT !.forceDelete = TRUE] :
        s \in {SpecOf(1, 1, 1, Both), SpecOf(2, 1, 2, Both)}}
FaultyHistorical == {[common |-> 2, node |-> 1, owner |-> 0]}

(* The last broker, a StatefulSet with a claim, leaves the cluster and comes  *)
(* back, and so does the historicals' disruption budget; orphaned claims are  *)
(* deleted, and nothing rolls in order.                                       *)
Budgeted == {"ConfigMap", "Service", "StatefulSet", "PodDisruptionBudget"}
Shrunk(h, b) == [n \in MCNodes |-> IF n = "h" THEN h ELSE b]
ShrinkingSpecs ==
    {[s EXCEPT !.rolling = FALSE, !.deleteOrphans = TRUE] :
        s \in {SpecOf(1, 1, 1, Shrunk(Budgeted, {"ConfigMap", "StatefulSet"})),
               SpecOf(2, 1, 1, Shrunk(Budgeted \ {"PodDisruptionBudget"}, {}))}}

(* Only the historicals; or also brokers whose Deployment cannot be built.    *)
HistoricalSpec == {SpecOf(1, 1, 1, [Both EXCEPT !["b"] = {}])}
UnbuildableSpecs == HistoricalSpec \cup {SpecOf(1, 1, 2, Both)}
UnbuildableBroker == {[common |-> 1, node |-> 2, owner |-> 0]}

(* Two tiers of historicals.                                                  *)
TierNodes == {"hot", "cold"}
TierType == [n \in TierNodes |-> "historical"]
Tiers == [n \in TierNodes |-> {"ConfigMap", "StatefulSet"}]
TierSpecs ==
    {[SpecOf(c, 1, 1, Tiers) EXCEPT !.ver = [n \in TierNodes |-> 1]] : c \in 1..2}

(* An edit that verifyDruidSpec rejects.                                      *)
InvalidatedSpecs ==
    {SpecOf(1, 1, 1, Both), [SpecOf(1, 1, 1, Both) EXCEPT !.valid = FALSE]}

NoHashes == {}
NoNodes == {}
Historicals == {"h"}
Brokers == {"b"}
NoLag == {}
StsLag == {"StatefulSet"}
CrLag == {"Druid"}
NoDeletion == {}
CrDeletion == {<<"cr", 1>>}
AnyDeletion == {<<"cr", 1>>, <<"cr", 2>>, <<"namespace", 1>>}
WithServices ==
    {"ConfigMap", "Service", "StatefulSet", "Deployment", "PodDisruptionBudget"}
WorkloadsOnly == {"ConfigMap", "StatefulSet", "Deployment"}
=============================================================================
