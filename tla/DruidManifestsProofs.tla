----------------------- MODULE DruidManifestsProofs ------------------------
(* What sharing never does, for any nodes and any specs: no probe goes        *)
(* without a port, and no service to the pods of another node.                *)
EXTENDS DruidManifests, TLAPS

(***************************************************************************)
(* Ports                                                                   *)
(***************************************************************************)
(* A pass changes probes in its copy of the spec, but no port of a node.      *)
CopyInv ==
    /\ cr \in Specs /\ read \in Specs
    /\ IsSpec(m) /\ m.port = Content[read].port
    /\ pc = "workload" => node \in Nodes

PortInv ==
    /\ CopyInv
    /\ DOMAIN workloads = Nodes
    /\ \A n \in Nodes :
         workloads[n] # None =>
             /\ workloads[n].obj.probe \in Ports \cup {None}
             /\ workloads[n].obj.port = Content[workloads[n].by].port[n]

LEMMA PortInit == Init => PortInv
BY ManifestsAssumption DEF Init, PortInv, CopyInv

LEMMA ServiceLeavesSpec ==
    ASSUME IsSpec(m), NEW n \in Nodes
    PROVE  IsSpec(ServiceLeft(m, n)) /\ ServiceLeft(m, n).port = m.port
<1>1. IsSpec(LabelsLeft(m, n)) /\ LabelsLeft(m, n).port = m.port
  BY DEF LabelsLeft, IsSpec
<1>. QED  BY <1>1 DEF ServiceLeft, IsSpec

LEMMA ProbeLeavesSpec ==
    ASSUME IsSpec(m), NEW n \in Nodes
    PROVE  IsSpec(ProbeLeft(m, n)) /\ ProbeLeft(m, n).port = m.port /\ ProbeOf(m, n) \in Ports \cup {None}
<1>1. ProbeOf(m, n) \in Ports \cup {None}
  BY DEF ProbeOf, updateDefaultPortInProbe, FirstNonNil, IsSpec, Probes
<1>. QED  BY <1>1 DEF ProbeLeft, IsSpec, Probes

LEMMA PortStep == PortInv /\ [Next]_vars => PortInv'
<1>. SUFFICES ASSUME PortInv, [Next]_vars PROVE PortInv'
  OBVIOUS
<1>. USE DEF PortInv, CopyInv
<1>1. CASE StartReconcile
  BY <1>1, ManifestsAssumption DEF StartReconcile, FreshCopy, api
<1>2. ASSUME NEW n \in Nodes, WriteService(n) PROVE PortInv'
  <2>1. m' = ServiceLeft(m, n) /\ pc' = "workload" /\ node' = n
        /\ UNCHANGED <<cr, read, workloads>>
    BY <1>2 DEF WriteService
  <2>. QED  BY <2>1, ServiceLeavesSpec
<1>3. CASE WorkloadRefused
  BY <1>3 DEF WorkloadRefused, api
<1>4. CASE WriteWorkload
  <2>1. /\ m' = ProbeLeft(m, node) /\ UNCHANGED <<cr, read>> /\ node \in Nodes
        /\ pc' # "workload"
        /\ workloads' = [workloads EXCEPT ![node] =
                            Written(workloads[node], makePodSpec(m, node))]
    BY <1>4 DEF WriteWorkload
  <2>2. CopyInv'
    BY <2>1, ProbeLeavesSpec
  <2>3. /\ makePodSpec(m, node).probe \in Ports \cup {None}
        /\ makePodSpec(m, node).port = Content[read].port[node]
    BY <2>1, ProbeLeavesSpec DEF makePodSpec
  <2>. QED  BY <2>1, <2>2, <2>3 DEF Written
<1>5. CASE PassCut
  BY <1>5 DEF PassCut, api
<1>6. CASE EditSpec
  BY <1>6 DEF EditSpec, api
<1>7. CASE UNCHANGED vars
  BY <1>7 DEF vars, api
<1>. QED
  BY <1>1, <1>2, <1>3, <1>4, <1>5, <1>6, <1>7 DEF Next, Pass

(* Every stored probe has a port and every workload its node's.               *)
THEOREM StoredProbesHavePorts == Spec => []ProbesHavePorts
<1>1. PortInv => ProbesHavePorts
  BY DEF PortInv, ProbesHavePorts
<1>. QED  BY <1>1, PortInit, PortStep, PTL DEF Spec

(***************************************************************************)
(* Selectors                                                               *)
(***************************************************************************)
(* The node's own string is entered last, into whatever map it is given.      *)
Names(map, n) == "nodeSpecUniqueStr" \in DOMAIN map /\ map["nodeSpecUniqueStr"] = n

SelectorInv ==
    /\ DOMAIN services = Nodes /\ DOMAIN workloads = Nodes
    /\ \A n \in Nodes :
         /\ services[n] # None => Names(services[n].obj.selector, n)
         /\ workloads[n] # None => Names(workloads[n].obj.labels, n)

LEMMA LabelsName == ASSUME NEW n PROVE Names(makeLabelsForNodeSpec(m, n), n)
BY DEF Names, makeLabelsForNodeSpec, OwnLabels, Merged

LEMMA SelectorNames == ASSUME NEW n PROVE Names(makeService(m, n).selector, n)
<1>. DEFINE lm == makeLabelsForNodeSpec(m, n)
<1>1. Names(lm, n)
  BY LabelsName
<1>2. ASSUME NEW map PROVE Names(Merged(map, lm), n)
  BY <1>1 DEF Merged, Names
<1>3. makeService(m, n).selector \in {lm, Merged(GivenService(m, n).selector, lm)}
  BY DEF makeService
<1>. QED  BY <1>1, <1>2, <1>3

LEMMA SelectorStep == PortInv /\ SelectorInv /\ [Next]_vars => SelectorInv'
<1>. SUFFICES ASSUME PortInv, SelectorInv, [Next]_vars PROVE SelectorInv'
  OBVIOUS
<1>. USE DEF SelectorInv
<1>1. ASSUME NEW n \in Nodes, WriteService(n) PROVE SelectorInv'
  <2>1. services' = [services EXCEPT ![n] = Written(services[n], makeService(m, n))]
        /\ UNCHANGED workloads
    BY <1>1 DEF WriteService
  <2>. QED  BY <2>1, SelectorNames DEF Written
<1>2. CASE WriteWorkload
  <2>1. /\ workloads' = [workloads EXCEPT ![node] =
                            Written(workloads[node], makePodSpec(m, node))]
        /\ UNCHANGED services
    BY <1>2 DEF WriteWorkload
  <2>2. Names(makePodSpec(m, node).labels, node)
    BY LabelsName DEF makePodSpec
  <2>. QED  BY <2>1, <2>2 DEF Written
<1>3. ASSUME UNCHANGED api PROVE SelectorInv'
  BY <1>3 DEF api
<1>. QED
  BY <1>1, <1>2, <1>3
     DEF Next, Pass, StartReconcile, WorkloadRefused, PassCut, EditSpec, vars

LEMMA SelectorInit == Init => SelectorInv
BY DEF Init, SelectorInv

(* Whatever is shared, a service selects no pods of a node but its own.       *)
THEOREM ServicesKeepToOwnPods == Spec => []OnlyOwnPods
<1>1. SelectorInv => OnlyOwnPods
  BY DEF SelectorInv, OnlyOwnPods, Names, Selects
<1>. QED
  BY <1>1, SelectorInit, PortInit, PortStep, SelectorStep, PTL DEF Spec

(***************************************************************************)
(* Objects that stay                                                       *)
(***************************************************************************)
(* Nodes of one type come in any order, and differently in the next pass.     *)
DistinctTypes == \A n, k \in Nodes : NodeType[n] = NodeType[k] => n = k

Turn(n) == TypeRank(NodeType[n])

(* The copy when it is the turn of rank r, in a pass that has not been cut:   *)
(* the nodes before have been written from it.                                *)
CopyAfter(c, r) ==
    IF \E n \in Nodes : Turn(n) = r
    THEN LET n == CHOOSE k \in Nodes : Turn(k) = r
         IN  ProbeLeft(ServiceLeft(c, n), n)
    ELSE c

Copies(s) ==
    LET f[r \in 1..8] == IF r = 1 THEN Content[s] ELSE CopyAfter(f[r - 1], r - 1)
    IN  f

CopyFor(s, n) == Copies(s)[Turn(n)]

(* What a pass is about to write, and whatever has been written, is made of   *)
(* the copy that every pass over that spec has when it comes to the node.     *)
PassInv ==
    /\ todo \subseteq Nodes
    /\ \A n \in todo, k \in Nodes \ todo : Turn(k) < Turn(n)
    /\ pc = "service" => \A n \in Nodes : NextNode(n) => m = CopyFor(read, n)
    /\ pc = "workload" =>
           node \in Nodes /\ NextNode(node) /\ m = ServiceLeft(CopyFor(read, node), node)

StoredInv ==
    /\ DOMAIN services = Nodes /\ DOMAIN workloads = Nodes
    /\ \A n \in Nodes :
         /\ services[n] # None =>
                services[n].obj = makeService(CopyFor(services[n].by, n), n)
         /\ workloads[n] # None =>
                workloads[n].obj =
                    makePodSpec(ServiceLeft(CopyFor(workloads[n].by, n), n), n)

LEMMA Turns ==
    /\ \A n \in Nodes : Turn(n) \in 1..7
    /\ DistinctTypes => \A n, k \in Nodes : Turn(n) = Turn(k) => n = k
<1>1. ASSUME NEW t \in DruidTypes PROVE TypeRank(t) \in 1..7 /\ PrescribedOrder[TypeRank(t)] = t
  BY DEF TypeRank, DruidTypes
<1>. QED  BY <1>1, ManifestsAssumption DEF Turn, DistinctTypes

(* The recursion over the seven ranks, unfolded.                              *)
LEMMA CopiesUnfold ==
    ASSUME NEW s
    PROVE  /\ Copies(s)[1] = Content[s]
           /\ \A r \in 1..7 : Copies(s)[r + 1] = CopyAfter(Copies(s)[r], r)
<1>. DEFINE Step(f) ==
              [r \in 1..8 |-> IF r = 1 THEN Content[s] ELSE CopyAfter(f[r - 1], r - 1)]
            c2 == CopyAfter(Content[s], 1)
            c3 == CopyAfter(c2, 2)
            c4 == CopyAfter(c3, 3)
            c5 == CopyAfter(c4, 4)
            c6 == CopyAfter(c5, 5)
            c7 == CopyAfter(c6, 6)
            c8 == CopyAfter(c7, 7)
            g == [r \in 1..8 |-> CASE r = 1 -> Content[s] [] r = 2 -> c2 [] r = 3 -> c3
                                   [] r = 4 -> c4 [] r = 5 -> c5 [] r = 6 -> c6
                                   [] r = 7 -> c7 [] r = 8 -> c8]
<1>1. g = Step(g)
  <2>1. /\ g[1] = Content[s] /\ g[2] = c2 /\ g[3] = c3 /\ g[4] = c4
        /\ g[5] = c5 /\ g[6] = c6 /\ g[7] = c7 /\ g[8] = c8
    <3>. HIDE DEF c2, c3, c4, c5, c6, c7, c8
    <3>. QED  OBVIOUS
  <2>2. ASSUME NEW r \in 1..8 PROVE g[r] = Step(g)[r]
    <3>. HIDE DEF g
    <3>. QED  BY <2>1
  <2>. QED  BY <2>2
<1>2. Copies(s) = CHOOSE f : f = Step(f)
  BY DEF Copies
<1>3. Copies(s) = Step(Copies(s))
  <2>. HIDE DEF Step, g
  <2>. QED  BY <1>1, <1>2
<1>. QED  BY <1>3

(* A rank without a node leaves the copy as it is.                            *)
LEMMA RanksSkipped ==
    ASSUME NEW s, NEW i \in 1..8, NEW j \in 1..8, i <= j,
           \A n \in Nodes : ~(i <= Turn(n) /\ Turn(n) < j)
    PROVE  Copies(s)[j] = Copies(s)[i]
<1>. DEFINE b == Copies(s)
<1>1. ASSUME NEW r \in 1..7, i <= r, r < j PROVE b[r + 1] = b[r]
  <2>1. ~\E n \in Nodes : Turn(n) = r
    BY <1>1
  <2>2. CopyAfter(b[r], r) = b[r]
    BY <2>1 DEF CopyAfter
  <2>. QED  BY <2>2, CopiesUnfold
<1>. HIDE DEF b
<1>2. /\ i <= 1 /\ 1 < j => b[2] = b[1]
      /\ i <= 2 /\ 2 < j => b[3] = b[2]
      /\ i <= 3 /\ 3 < j => b[4] = b[3]
      /\ i <= 4 /\ 4 < j => b[5] = b[4]
      /\ i <= 5 /\ 5 < j => b[6] = b[5]
      /\ i <= 6 /\ 6 < j => b[7] = b[6]
      /\ i <= 7 /\ 7 < j => b[8] = b[7]
  BY <1>1
<1>3. b[j] = b[i]
  BY <1>2
<1>. QED  BY <1>3 DEF b

(* Once a node is written, the next one finds the copy that is meant for it.  *)
LEMMA NextCopy ==
    ASSUME DistinctTypes, NEW s, NEW k \in Nodes, NEW n \in Nodes, Turn(k) < Turn(n),
           \A j \in Nodes : ~(Turn(k) < Turn(j) /\ Turn(j) < Turn(n))
    PROVE  CopyFor(s, n) = ProbeLeft(ServiceLeft(CopyFor(s, k), k), k)
<1>1. Turn(k) \in 1..7 /\ Turn(n) \in 1..7
  BY Turns
<1>2. Copies(s)[Turn(n)] = Copies(s)[Turn(k) + 1]
  <2>1. \A j \in Nodes : ~(Turn(k) + 1 <= Turn(j) /\ Turn(j) < Turn(n))
    BY <1>1, Turns
  <2>2. Turn(k) + 1 \in 1..8 /\ Turn(n) \in 1..8 /\ Turn(k) + 1 <= Turn(n)
    BY <1>1
  <2>. QED  BY <2>1, <2>2, RanksSkipped
<1>3. k = CHOOSE j \in Nodes : Turn(j) = Turn(k)
  BY Turns
<1>4. CopyAfter(Copies(s)[Turn(k)], Turn(k)) =
        ProbeLeft(ServiceLeft(Copies(s)[Turn(k)], k), k)
  BY <1>3 DEF CopyAfter
<1>. QED  BY <1>1, <1>2, <1>4, CopiesUnfold DEF CopyFor

LEMMA FirstCopy ==
    ASSUME NEW s, NEW n \in Nodes, \A j \in Nodes : Turn(n) <= Turn(j)
    PROVE  CopyFor(s, n) = Content[s]
<1>1. Turn(n) \in 1..8 /\ 1 <= Turn(n) /\ 1 \in 1..8
  BY Turns
<1>2. \A j \in Nodes : ~(1 <= Turn(j) /\ Turn(j) < Turn(n))
  BY Turns
<1>3. Copies(s)[Turn(n)] = Copies(s)[1]
  BY <1>1, <1>2, RanksSkipped
<1>. QED  BY <1>3, CopiesUnfold DEF CopyFor

LEMMA PassInit == Init => PassInv /\ StoredInv
BY DEF Init, PassInv, StoredInv

LEMMA PassStep == DistinctTypes /\ PassInv /\ [Next]_vars => PassInv'
<1>. SUFFICES ASSUME DistinctTypes, PassInv, [Next]_vars PROVE PassInv'
  OBVIOUS
<1>1. CASE StartReconcile
  <2>1. m' = Content[read'] /\ todo' = Nodes /\ pc' = "service"
    BY <1>1 DEF StartReconcile, FreshCopy
  <2>2. ASSUME NEW n \in Nodes, NextNode(n)' PROVE m' = CopyFor(read', n)
    <3>1. \A j \in Nodes : Turn(n) <= Turn(j)
      BY <2>1, <2>2 DEF NextNode, Turn
    <3>. QED  BY <2>1, <3>1, FirstCopy
  <2>. QED  BY <2>1, <2>2 DEF PassInv
<1>2. ASSUME NEW n \in Nodes, WriteService(n) PROVE PassInv'
  <2>1. /\ m' = ServiceLeft(m, n) /\ m = CopyFor(read, n) /\ read' = read
        /\ NextNode(n) /\ todo' = todo /\ pc' = "workload" /\ node' = n
    BY <1>2 DEF WriteService, PassInv
  <2>. QED  BY <2>1 DEF PassInv, NextNode
<1>3. CASE WriteWorkload
  <2>1. /\ m' = ProbeLeft(m, node) /\ m = ServiceLeft(CopyFor(read, node), node)
        /\ node \in Nodes /\ NextNode(node) /\ todo' = todo \ {node} /\ read' = read
        /\ pc' \in {"idle", "service"}
    BY <1>3 DEF WriteWorkload, PassInv
  <2>2. \A n \in todo' : Turn(node) < Turn(n)
    <3>1. \A n \in todo' : n \in Nodes /\ n # node /\ Turn(node) <= Turn(n)
      BY <2>1 DEF PassInv, NextNode, Turn
    <3>. QED  BY <2>1, <3>1, Turns
  <2>3. todo' \subseteq Nodes /\ \A n \in todo', k \in Nodes \ todo' : Turn(k) < Turn(n)
    BY <2>1, <2>2 DEF PassInv
  <2>4. ASSUME NEW n \in Nodes, NextNode(n)' PROVE m' = CopyFor(read', n)
    <3>1. n \in todo' /\ \A j \in todo' : Turn(n) <= Turn(j)
      BY <2>4 DEF NextNode, Turn
    <3>2. \A j \in Nodes \ todo' : Turn(j) <= Turn(node)
      BY <2>1, Turns DEF PassInv, NextNode
    <3>3. \A j \in Nodes : ~(Turn(node) < Turn(j) /\ Turn(j) < Turn(n))
      BY <2>1, <3>1, <3>2, Turns
    <3>. QED  BY <2>1, <2>2, <3>1, <3>3, NextCopy
  <2>. QED  BY <2>1, <2>3, <2>4 DEF PassInv
<1>4. CASE WorkloadRefused \/ PassCut
  <2>1. pc' = "idle" /\ todo' = todo
    BY <1>4 DEF WorkloadRefused, PassCut
  <2>. QED  BY <2>1 DEF PassInv
<1>5. CASE EditSpec \/ UNCHANGED vars
  <2>1. UNCHANGED <<pc, node, read, m, todo>>
    BY <1>5 DEF EditSpec, vars
  <2>. QED  BY <2>1 DEF PassInv, NextNode
<1>. QED  BY <1>1, <1>2, <1>3, <1>4, <1>5 DEF Next, Pass

LEMMA StoredStep == PassInv /\ StoredInv /\ [Next]_vars => StoredInv'
<1>. SUFFICES ASSUME PassInv, StoredInv, [Next]_vars PROVE StoredInv'
  OBVIOUS
<1>1. ASSUME NEW n \in Nodes, WriteService(n) PROVE StoredInv'
  <2>1. /\ services' = [services EXCEPT ![n] = Written(services[n], makeService(m, n))]
        /\ m = CopyFor(read, n) /\ UNCHANGED workloads
    BY <1>1 DEF WriteService, PassInv
  <2>2. services'[n] \in {services[n], [obj |-> makeService(CopyFor(read, n), n), by |-> read]}
    BY <2>1 DEF Written, StoredInv
  <2>. QED  BY <2>1, <2>2 DEF StoredInv
<1>2. CASE WriteWorkload
  <2>. DEFINE made == makePodSpec(ServiceLeft(CopyFor(read, node), node), node)
  <2>1. /\ workloads' = [workloads EXCEPT ![node] =
                            Written(workloads[node], makePodSpec(m, node))]
        /\ node \in Nodes /\ m = ServiceLeft(CopyFor(read, node), node)
        /\ UNCHANGED services
    BY <1>2 DEF WriteWorkload, PassInv
  <2>2. workloads'[node] \in {workloads[node], [obj |-> made, by |-> read]}
    BY <2>1 DEF Written, StoredInv
  <2>. QED  BY <2>1, <2>2 DEF StoredInv
<1>3. ASSUME UNCHANGED api PROVE StoredInv'
  BY <1>3 DEF api, StoredInv
<1>. QED
  BY <1>1, <1>2, <1>3
     DEF Next, Pass, StartReconcile, WorkloadRefused, PassCut, EditSpec, vars

(* With one node of each type, an object is made anew only for another spec:  *)
(* although the passes over a spec share maps and pointers among nodes, each  *)
(* of them makes the same of it.                                              *)
THEOREM WritesOnce ==
    ASSUME DistinctTypes PROVE Spec => WrittenOnce
<1>. DEFINE Keeps ==
         \A n \in Nodes :
             /\ services[n] # None /\ services'[n] # services[n] => services[n].by # read
             /\ workloads[n] # None /\ workloads'[n] # workloads[n] =>
                    workloads[n].by # read
<1>1. PassInv /\ StoredInv /\ [Next]_vars => [Keeps]_vars
  <2>. SUFFICES ASSUME PassInv, StoredInv, Next PROVE Keeps
    OBVIOUS
  <2>1. ASSUME NEW n \in Nodes, WriteService(n) PROVE Keeps
    <3>1. /\ services' = [services EXCEPT ![n] = Written(services[n], makeService(m, n))]
          /\ m = CopyFor(read, n) /\ UNCHANGED workloads
      BY <2>1 DEF WriteService, PassInv
    <3>. QED  BY <3>1 DEF Written, Changed, StoredInv
  <2>2. CASE WriteWorkload
    <3>1. /\ workloads' = [workloads EXCEPT ![node] =
                              Written(workloads[node], makePodSpec(m, node))]
          /\ node \in Nodes /\ m = ServiceLeft(CopyFor(read, node), node)
          /\ UNCHANGED services
      BY <2>2 DEF WriteWorkload, PassInv
    <3>. QED  BY <3>1 DEF Written, Changed, StoredInv
  <2>3. CASE UNCHANGED api
    BY <2>3 DEF api
  <2>. QED
    BY <2>1, <2>2, <2>3
       DEF Next, Pass, StartReconcile, WorkloadRefused, PassCut, EditSpec
<1>. QED
  BY <1>1, PassInit, PassStep, StoredStep, PTL DEF Spec, WrittenOnce
=============================================================================
