--------------------------- MODULE DruidManifests ---------------------------
(* What makeService and makePodSpec make of one copy of the CR.  Fields given *)
(* once for all nodes are Go maps and pointers that the nodes of a pass       *)
(* share, and that the make functions change in place: a node is made from    *)
(* what the nodes before it have left.  The copy is read anew by every pass.  *)
(* One service stands for the list of services, one probe for the three.      *)
EXTENDS DruidNodeTypes

CONSTANTS
    Nodes,      \* the keys of the nodes of the spec
    NodeType,   \* their types
    None,       \* nil
    Unset,      \* not filled in: a port of a probe, a hash in annotations
    Ports,      \* the ports a node or a probe may have
    Specs,      \* names of the specs the user applies
    Content,    \* what each of them says
    Rolling,    \* rollingDeploy
    MaxEdits,   \* bound on edits of the spec
    MaxFaults   \* bound on passes that are cut

Probes == Ports \cup {None, Unset}

IsSpec(s) ==
    /\ DOMAIN s = {"port", "podLabels", "nodeLabels", "probe", "nodeProbe", "service",
                   "nodeService"}
    /\ s.port \in [Nodes -> Ports]
    /\ s.probe \in Probes /\ s.nodeProbe \in [Nodes -> Probes]

ASSUME ManifestsAssumption ==
    /\ NodeType \in [Nodes -> DruidTypes]
    /\ None # Unset /\ {None, Unset} \cap Ports = {}
    /\ \A s \in Specs : IsSpec(Content[s])
    /\ Rolling \in BOOLEAN /\ MaxEdits \in Nat /\ MaxFaults \in Nat

VARIABLES
    cr,         \* the spec in the API server
    services,   \* the service of each node there
    workloads,  \* its StatefulSet or Deployment
    pc,         \* what the pass writes next
    node,       \* the node it has come to
    read,       \* the spec the pass has read
    m,          \* its content, as the pass has left it
    todo,       \* the nodes the pass has still to write
    edits, faults

api == <<services, workloads>>
vars == <<cr, api, pc, node, read, m, todo, edits, faults>>

FirstNonNil(x, y) == IF x # None THEN x ELSE y

(* Entries are added to a map; those there are replaced.  A variant in which  *)
(* they are kept.                                                             *)
Kept(map, new) ==
    [k \in DOMAIN map \cup DOMAIN new |-> IF k \in DOMAIN map THEN map[k] ELSE new[k]]
Merged(map, new) ==
    [k \in DOMAIN map \cup DOMAIN new |-> IF k \in DOMAIN new THEN new[k] ELSE map[k]]

(***************************************************************************)
(* One node                                                                *)
(***************************************************************************)
OwnLabels(n) == [app |-> "druid", nodeSpecUniqueStr |-> n]

makeLabelsForNodeSpec(c, n) ==
    LET given == FirstNonNil(c.nodeLabels[n], c.podLabels)
    IN  IF given = None THEN OwnLabels(n) ELSE Merged(given, OwnLabels(n))

(* The map that was given is the one that now has the node's labels too.      *)
LabelsLeft(c, n) ==
    IF c.nodeLabels[n] # None
    THEN [c EXCEPT !.nodeLabels[n] = makeLabelsForNodeSpec(c, n)]
    ELSE IF c.podLabels # None
         THEN [c EXCEPT !.podLabels = makeLabelsForNodeSpec(c, n)]
         ELSE c

(* The service to be hashed.  The annotations may already hold the hash of    *)
(* the service made before from the same map, which stands for all of it.     *)
GivenService(c, n) == FirstNonNil(c.nodeService[n], c.service)

makeService(c, n) ==
    LET svc == GivenService(c, n)
        lm == makeLabelsForNodeSpec(c, n)
    IN  [selector |-> IF svc.selector = None THEN lm ELSE Merged(svc.selector, lm),
         port |-> c.port[n],
         annotations |-> svc.annotations]

(* addHashToObject puts the hash into the annotations if there are any.       *)
ServiceLeft(c, n) ==
    LET svc == GivenService(c, n)
        made == makeService(c, n)
        left == [selector |-> IF svc.selector = None THEN None ELSE made.selector,
                 annotations |-> IF svc.annotations = None THEN None ELSE made]
    IN  IF c.nodeService[n] # None
        THEN [LabelsLeft(c, n) EXCEPT !.nodeService[n] = left]
        ELSE [LabelsLeft(c, n) EXCEPT !.service = left]

(* A variant that leaves the port to the API server.                          *)
PortAsGiven(probe, port) == probe
updateDefaultPortInProbe(probe, port) == IF probe = Unset THEN port ELSE probe

ProbeOf(c, n) ==
    updateDefaultPortInProbe(FirstNonNil(c.nodeProbe[n], c.probe), c.port[n])

makePodSpec(c, n) ==
    [labels |-> makeLabelsForNodeSpec(c, n), port |-> c.port[n], probe |-> ProbeOf(c, n)]

ProbeLeft(c, n) ==
    IF c.nodeProbe[n] # None THEN [c EXCEPT !.nodeProbe[n] = ProbeOf(c, n)]
    ELSE [c EXCEPT !.probe = ProbeOf(c, n)]

(***************************************************************************)
(* A pass                                                                  *)
(***************************************************************************)
(* Hashes are compared; a variant that does not hash ports.                   *)
PortsApart(stored, obj) == [stored.obj EXCEPT !.port = obj.port] # obj
Changed(stored, obj) == stored.obj # obj

(* An object is created, or updated if it has changed.                        *)
Written(stored, obj) ==
    IF stored = None \/ Changed(stored, obj) THEN [obj |-> obj, by |-> read] ELSE stored

(* The nodes in the prescribed order, those of one type in any.               *)
NextNode(n) ==
    n \in todo /\ \A k \in todo : TypeRank(NodeType[n]) <= TypeRank(NodeType[k])

(* A variant that goes on with the copy it has, if the spec is the same.      *)
KeptCopy == IF read = cr THEN m ELSE Content[cr]
FreshCopy == Content[cr]

StartReconcile ==
    /\ pc = "idle"
    /\ read' = cr /\ m' = FreshCopy /\ todo' = Nodes
    /\ pc' = "service"
    /\ UNCHANGED <<cr, api, node, edits, faults>>

WriteService(n) ==
    /\ pc = "service" /\ NextNode(n)
    /\ services' = [services EXCEPT ![n] = Written(@, makeService(m, n))]
    /\ m' = ServiceLeft(m, n)
    /\ pc' = "workload" /\ node' = n
    /\ UNCHANGED <<cr, workloads, read, todo, edits, faults>>

(* The selector of a workload, which is its labels, cannot be changed: the    *)
(* API server refuses, and the pass ends.                                     *)
Refused(n) ==
    workloads[n] # None /\ workloads[n].obj.labels # makeLabelsForNodeSpec(m, n)

WorkloadRefused ==
    /\ pc = "workload" /\ Refused(node)
    /\ pc' = "idle"
    /\ UNCHANGED <<cr, api, node, read, m, todo, edits, faults>>

(* A rolling deploy stops at a workload that it has updated.                  *)
WriteWorkload ==
    LET written == Written(workloads[node], makePodSpec(m, node))
    IN  /\ pc = "workload" /\ ~Refused(node)
        /\ workloads' = [workloads EXCEPT ![node] = written]
        /\ m' = ProbeLeft(m, node)
        /\ todo' = todo \ {node}
        /\ pc' = IF todo' = {} \/ (Rolling /\ workloads[node] \notin {None, written})
                 THEN "idle" ELSE "service"
        /\ UNCHANGED <<cr, services, node, read, edits, faults>>

(* A call fails, with or without effect, a rollout is waited for, or the      *)
(* operator crashes.                                                          *)
PassCut ==
    /\ pc # "idle" /\ faults < MaxFaults
    /\ pc' = "idle" /\ faults' = faults + 1
    /\ UNCHANGED <<cr, api, node, read, m, todo, edits>>

EditSpec ==
    /\ edits < MaxEdits /\ edits' = edits + 1
    /\ cr' \in Specs \ {cr}
    /\ UNCHANGED <<api, pc, node, read, m, todo, faults>>

Init ==
    /\ cr \in Specs
    /\ services = [n \in Nodes |-> None] /\ workloads = [n \in Nodes |-> None]
    /\ pc = "idle" /\ node = None
    /\ read = cr /\ m = Content[cr] /\ todo = {}
    /\ edits = 0 /\ faults = 0

Pass ==
    \/ StartReconcile
    \/ \E n \in Nodes : WriteService(n)
    \/ WorkloadRefused \/ WriteWorkload

Next == Pass \/ PassCut \/ EditSpec

Spec == Init /\ [][Next]_vars

(* controller-runtime calls Reconcile again and again.                        *)
FairSpec == Spec /\ WF_vars(Pass)

(***************************************************************************)
(* Properties                                                              *)
(***************************************************************************)
Selects(selector, labels) ==
    \A k \in DOMAIN selector : k \in DOMAIN labels /\ labels[k] = selector[k]

(* updateDefaultPortInProbe: no workload is stored with a probe without a     *)
(* port, whatever nodes before it have made of the one they share.            *)
ProbesHavePorts ==
    \A n \in Nodes :
        workloads[n] # None =>
            /\ workloads[n].obj.probe \in Ports \cup {None}
            /\ workloads[n].obj.port = Content[workloads[n].by].port[n]

(* makeService: although nodes share the map of a selector, no service ever   *)
(* selects the pods of another node.                                          *)
OnlyOwnPods ==
    \A n, k \in Nodes :
        n # k /\ services[n] # None /\ workloads[k] # None =>
            ~Selects(services[n].obj.selector, workloads[k].obj.labels)

(* "resource already exists, updated it if needed": an object is replaced     *)
(* only by one made for another spec, not once more for the same one.         *)
WrittenOnce ==
    [][\A n \in Nodes :
          /\ services[n] # None /\ services'[n] # services[n] => services[n].by # read
          /\ workloads[n] # None /\ workloads'[n] # workloads[n] =>
                 workloads[n].by # read]_vars

LabelsOf(s, n) == makeLabelsForNodeSpec(Content[s], n)

(* "custom labels to be populated in Druid pods": the labels of the last spec *)
(* come to the pods.                                                          *)
LabelsArrive ==
    <>[](\A n \in Nodes : workloads[n] # None /\ workloads[n].obj.labels = LabelsOf(cr, n))

(* What the last spec says of ports and of a node's own probe comes into      *)
(* effect, unless it changes the labels of some node's pods.                  *)
SpecArrives ==
    <>[](\/ \A n \in Nodes :
             /\ services[n] # None /\ services[n].obj.port = Content[cr].port[n]
             /\ workloads[n] # None /\ workloads[n].obj.port = Content[cr].port[n]
             /\ Content[cr].nodeProbe[n] \in Ports =>
                    workloads[n].obj.probe = Content[cr].nodeProbe[n]
         \/ \E n \in Nodes :
             workloads[n] # None /\ workloads[n].obj.labels # LabelsOf(cr, n))

(* "port is set to druid.port if not specified": a probe without a port is    *)
(* for the port of the node.                                                  *)
OwnPortProbed ==
    \A n \in Nodes :
        workloads[n] # None =>
            LET s == Content[workloads[n].by]
            IN  FirstNonNil(s.nodeProbe[n], s.probe) = Unset =>
                    workloads[n].obj.probe = s.port[n]

(* "Service resources backed by above Pods": the service of a node selects    *)
(* the node's pods, if what the spec gives for a selector does.               *)
BackedByPods ==
    \A n \in Nodes :
        services[n] # None /\ workloads[n] # None /\ services[n].by = workloads[n].by =>
            LET s == Content[services[n].by]
                given == FirstNonNil(s.nodeService[n], s.service).selector
                labels == workloads[n].obj.labels
            IN  given = None \/ Selects(given, labels) =>
                    Selects(services[n].obj.selector, labels)
=============================================================================
