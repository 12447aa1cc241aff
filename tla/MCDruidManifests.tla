-------------------------- MODULE MCDruidManifests --------------------------
(* Values for the constants of DruidManifests.  The specs of a run differ in  *)
(* what nodes share.                                                          *)
EXTENDS DruidManifests, TLC

CONSTANTS Store, Query, Gate

ThreeNodes == {Store, Query, Gate}
Each(x, y, z) == (Store :> x) @@ (Query :> y) @@ (Gate :> z)
ThreeTypes == Each("historical", "broker", "router")
TwoTypes == Each("historical", "broker", "broker")

Plainest == [selector |-> None, annotations |-> None]

(* Three ports, a label on the historicals, and nothing shared.               *)
Plain ==
    [port |-> Each(8083, 8082, 8888), podLabels |-> None,
     nodeLabels |-> Each([tier |-> "hot"], None, None),
     probe |-> None, nodeProbe |-> Each(8083, Unset, None),
     service |-> Plainest, nodeService |-> Each(None, None, None)]

(* A common probe, and a common service with a selector and annotations.      *)
Common ==
    [Plain EXCEPT !.probe = Unset, !.nodeProbe = Each(None, None, None),
                  !.service = [selector |-> [app |-> "druid"], annotations |-> Unset]]

(* The same with the broker on another port, and with a service, a probe and  *)
(* labels of its own.                                                         *)
Overridden ==
    [Common EXCEPT !.port = Each(8083, 8083, 8888),
                   !.nodeLabels = Each([tier |-> "hot"], [team |-> "a"], None),
                   !.nodeProbe = Each(None, 8082, None),
                   !.nodeService = Each(None, Plainest, None)]

(* Labels for all pods that have none of their own.                           *)
Relabelled == [Plain EXCEPT !.podLabels = [team |-> "a"]]

Manifests ==
    [plain |-> Plain, common |-> Common, overridden |-> Overridden,
     relabelled |-> Relabelled]
AllSpecs == DOMAIN Manifests
CommonOnly == {"common"}
PlainSpecs == {"plain", "relabelled"}
=============================================================================
