---------------------------- MODULE ProfileHooks ----------------------------
(* The versions of the profile controller's sync hook in kubeflow/pipelines:  *)
(* which webhook protocol each of them speaks, and which objects it asks      *)
(* metacontroller to keep in the namespace of a profile.                      *)
EXTENDS Naturals, FiniteSets

CONSTANT RootInEnv      \* is KFP_DEFAULT_PIPELINE_ROOT set for the hook?

None == "none"

Secret == <<"Secret", "mlpipeline-minio-artifact">>
Launcher == <<"ConfigMap", "kfp-launcher">>
Grpc == <<"ConfigMap", "metadata-grpc-configmap">>
Repositories == <<"ConfigMap", "artifact-repositories">>
Visualization == <<"Deployment", "ml-pipeline-visualizationserver">>
Artifact == <<"Deployment", "ml-pipeline-ui-artifact">>

(* Objects the hook relies on and others have to put into the namespace.      *)
AwsSecret == <<"Secret", "aws-secret">>
ServerPatches == <<"ConfigMap", "k8s-server-patches">>
Extras == {AwsSecret, ServerPatches}

Servers ==
    {Visualization, Artifact,
     <<"Service", "ml-pipeline-visualizationserver">>,
     <<"Service", "ml-pipeline-ui-artifact">>,
     <<"DestinationRule", "ml-pipeline-visualizationserver">>,
     <<"AuthorizationPolicy", "ml-pipeline-visualizationserver">>}
Deployments == {Visualization, Artifact}

Objects == Servers \cup {Secret, Launcher, Grpc, Repositories}
KindsKept == {o[1] : o \in Objects}

(***************************************************************************)
(* The hooks.  asks and answers name the metacontroller resource whose      *)
(* request the hook reads and whose response it gives: a "decorator" sends   *)
(* object and attachments, a "composite" sends parent and children.          *)
(***************************************************************************)
SyncRoot == TRUE
SyncVisualization == {}
SyncArtifact == {Secret}
SyncHook ==
    [asks |-> "decorator", answers |-> "decorator", root |-> SyncRoot,
     serves |-> Servers, maps |-> {Grpc},
     needs |-> [d \in Deployments |->
                  IF d = Visualization THEN SyncVisualization ELSE SyncArtifact]]

(* The request of a decorator is read and the response of a composite given.  *)
NewRoot == RootInEnv
NewVisualization == {AwsSecret}
NewArtifact == {Secret, AwsSecret}
NewHook ==
    [SyncHook EXCEPT !.answers = "composite", !.root = NewRoot,
       !.needs = [d \in Deployments |->
                    IF d = Visualization THEN NewVisualization ELSE NewArtifact]]

OldRoot == RootInEnv
OldVisualization == {AwsSecret}
OldArtifact == {Secret, AwsSecret}
OldHook ==
    [SyncHook EXCEPT !.asks = "composite", !.answers = "composite", !.root = OldRoot,
       !.needs = [d \in Deployments |->
                    IF d = Visualization THEN OldVisualization ELSE OldArtifact]]

DebugRoot == RootInEnv
DebugVisualization == {}
DebugArtifact == {Secret, ServerPatches}
DebugHook ==
    [SyncHook EXCEPT !.asks = "composite", !.answers = "composite", !.root = DebugRoot,
       !.needs = [d \in Deployments |->
                    IF d = Visualization THEN DebugVisualization ELSE DebugArtifact]]

(* No servers, three ConfigMaps, and a key of the namespace's own.            *)
SeaweedMaps == {Grpc, Repositories}
SeaweedHook ==
    [SyncHook EXCEPT !.root = TRUE, !.serves = {}, !.maps = SeaweedMaps]

Versions == {"sync", "new", "old", "debug", "seaweed"}
Hook(v) ==
    CASE v = "sync" -> SyncHook
      [] v = "new" -> NewHook
      [] v = "old" -> OldHook
      [] v = "debug" -> DebugHook
      [] v = "seaweed" -> SeaweedHook

Kept(v) ==
    Hook(v).serves \cup Hook(v).maps \cup {Secret}
        \cup (IF Hook(v).root THEN {Launcher} ELSE {})

(* Which version wrote an object shows where the manifests differ.            *)
Manifest(v, o) == IF o \in Deployments \cup {Launcher} THEN v ELSE "any"

(***************************************************************************)
(* kubeflow-pipelines-ready, from the number of objects of every kind; a      *)
(* variant that always expects the one ConfigMap.                             *)
(***************************************************************************)
OneMap(v) == 1
MapCount(v) ==
    IF v = "seaweed" THEN 3 ELSE IF Hook(v).root THEN 2 ELSE 1

Count(seen, k) == Cardinality({o \in DOMAIN seen : o[1] = k /\ seen[o] # None})

Ready(v, seen) ==
    /\ Count(seen, "Secret") = 1
    /\ Count(seen, "ConfigMap") = MapCount(v)
    /\ Count(seen, "Deployment") = 2
    /\ Count(seen, "Service") = 2
    /\ Count(seen, "DestinationRule") = 1
    /\ Count(seen, "AuthorizationPolicy") = 1
=============================================================================
