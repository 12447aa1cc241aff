--------------------------- MODULE DruidReadsProofs ---------------------------
(* The order of updates and of the finalizer's deletes, proved without any    *)
(* assumption on caches, controllers, specs, faults or lives of the CR: what  *)
(* a pass has read of a workload is right unless the workload is misread.     *)
EXTENDS DruidPassProofs, DruidReads

(***************************************************************************)
(* The invariant                                                           *)
(***************************************************************************)
(* A Deployment whose replicas are all ready has finished rolling out what    *)
(* its controller has seen of it.                                             *)
WlInv == \A w \in Workloads : w[1] = "Deployment" /\ wl[w].ready => wl[w].cur = wl[w].upd

(* The node loop goes up the node types.                                      *)
LoopInv ==
    /\ pc \in {"idle", "common", "finalizer"} => node = Common
    /\ pc = "finalizer" => names \cap Workloads = {}
    /\ pc \in NodePhase =>
         /\ todo \subseteq Planned(m.spec)
         /\ node \in Nodes => \A o \in todo : Rank(node) <= Rank(o[2])

OnVersion(w) == Template(store[w]) = Content(m.spec, w)

(* Is the pass waiting to look at the rollout of this workload?               *)
Awaited(w) == pc \in {"crash", "rollout"} /\ w[2] = node

(* A workload the node loop has left behind, and has not misread, has the     *)
(* version the pass wants and has finished rolling out.                       *)
DoneInv ==
    pc \in NodePhase /\ m.spec.rolling /\ m.gen > 1 =>
        \A w \in (Workloads \cap Planned(m.spec)) \ misread :
            w \notin todo /\ store[w] # None =>
                OnVersion(w) /\ (~Awaited(w) => RolledOut(w))

(* Nobody takes it away while the CR the pass has read lives.                 *)
KeptInv ==
    pc \in NodePhase /\ CrLives =>
        \A w \in (Workloads \cap names) \ misread : store[w] # None

(* Between the list of the StatefulSets and their deletion nobody makes one,  *)
(* and the claims made from templates belong to nobody.                       *)
ListedInv ==
    /\ pc = "finalize" =>
         \A w \in Workloads :
            w[1] = "StatefulSet" /\ store[w] # None => w \in listed \cup misread
    /\ \A o \in Objects : o[1] = "VolumeClaim" /\ store[o] # None => store[o].owner = 0

ReadInv == OperatorInv /\ WlInv /\ LoopInv /\ DoneInv /\ KeptInv /\ ListedInv

(***************************************************************************)
(* What a step does to the workloads                                       *)
(***************************************************************************)
LEMMA WorkloadFacts ==
    /\ \A w \in Workloads : w \in Objects /\ w \notin Claims /\ w # CommonObject
    /\ \A w \in Workloads : w[1] \in WorkloadKinds /\ w[2] \in Nodes
    /\ \A w \in Workloads : w = <<w[1], w[2]>> /\ ~Mounted(w)
BY ObjectFacts, KindFacts
   DEF Workloads, Objects, Claims, ClaimKinds, WorkloadKinds, CommonObject, Mounted

LEMMA RankType == \A n \in Nodes : Rank(n) \in 1..7 /\ PrescribedOrder[Rank(n)] = NodeType[n]
<1>. SUFFICES ASSUME NEW n \in Nodes
              PROVE  Rank(n) \in 1..7 /\ PrescribedOrder[Rank(n)] = NodeType[n]
  OBVIOUS
<1>1. NodeType[n] \in DruidTypes
  BY ClusterAssumption
<1>2. \E i \in 1..7 : PrescribedOrder[i] = NodeType[n]
  BY <1>1 DEF DruidTypes
<1>. QED  BY <1>2 DEF Rank, TypeRank

(* A spec gives a node one workload at most.                                  *)
LEMMA OneWorkload ==
    ASSUME NEW s \in Specs, NEW v \in Workloads \cap Planned(s),
           NEW w \in Workloads \cap Planned(s), v[2] = w[2]
    PROVE  v = w
<1>1. v[1] \in s.parts[v[2]] \cap WorkloadKinds /\ w[1] \in s.parts[v[2]] \cap WorkloadKinds
  BY WorkloadFacts DEF Planned
<1>2. \E k \in WorkloadKinds : s.parts[v[2]] \cap WorkloadKinds = {k}
  BY <1>1, WorkloadFacts, ClusterAssumption
<1>3. v[1] = w[1]
  BY <1>1, <1>2
<1>. QED  BY <1>3, WorkloadFacts

(* What the operator writes is the version its spec asks for.                 *)
LEMMA HashTemplate ==
    ASSUME NEW c \in CrType, NEW o \in Objects
    PROVE  Template(Hash(c, o)) = Content(c.spec, o)
<1>1. Content(c.spec, o).owner = 0
  BY DEF Content, CommonConfig, NodeObject, PodTemplate
<1>2. Content(c.spec, o) \in Hashes
  BY ContentType DEF CrType
<1>. QED  BY <1>1, <1>2 DEF Template, Hash, Hashes

WritesWorkload(w) ==
    pc = "node" /\ Due(w) /\ PutObject(w, Hash(m, w)) /\ m' = m

(* What the controller of a workload does to its status.                      *)
Reacts(v) ==
    \/ wl[v].upd # Template(store[v]) /\ wl'[v] = Observed(v, store[v])
    \/ wl'[v] = [wl[v] EXCEPT !.cur = wl[v].upd, !.ready = TRUE]
    \/ wl'[v] = [wl[v] EXCEPT !.ready = FALSE]

Gone(v) == store'[v] = None /\ wl'[v] = NoStatus
Stays(v) == store'[v] = store[v] /\ (wl'[v] = wl[v] \/ Reacts(v))

LEMMA DeletedWorkload ==
    ASSUME NEW S, DeleteObjects(S), NEW v \in Workloads
    PROVE  (Gone(v) /\ v \in S) \/ Stays(v)
BY WorkloadFacts DEF DeleteObjects, Gone, Stays

LEMMA WrittenObject ==
    ASSUME StoreTypeOK, NEW p \in Objects, NEW h, PutObject(p, h),
           NEW v \in Workloads, v # p
    PROVE  Stays(v)
BY WorkloadFacts DEF PutObject, Stays, StoreTypeOK

(* The environment takes a workload away only as garbage.                     *)
LEMMA EnvironmentSteps ==
    ASSUME OperatorInv, Environment, NEW v \in Workloads
    PROVE  Stays(v) \/ (Gone(v) /\ (Ownerless(v) \/ ns = "terminating"))
<1>0. StoreTypeOK /\ v \in Objects
  BY TypeSplit, WorkloadFacts DEF OperatorInv
<1>1. ASSUME UNCHANGED storeVars PROVE Stays(v)
  BY <1>1 DEF storeVars, Stays
<1>2. ASSUME NEW w \in Workloads, WorkloadController(w) PROVE Stays(v)
  <2>1. CASE Observe(w) \/ CompleteRollout(w) \/ LoseReadiness(w)
    <3>1. store' = store
      BY <2>1 DEF Observe, CompleteRollout, LoseReadiness
    <3>2. wl'[v] = wl[v] \/ Reacts(v)
      BY <2>1, <1>0
         DEF Observe, CompleteRollout, LoseReadiness, Reacts, StoreTypeOK, StatusType
    <3>. QED  BY <3>1, <3>2 DEF Stays
  <2>2. CASE ClaimVolume(w)
    <3>1. <<"VolumeClaim", w[2]>> \notin Workloads
      BY DEF Workloads, WorkloadKinds
    <3>. QED  BY <2>2, <3>1, <1>0 DEF ClaimVolume, Stays, StoreTypeOK
  <2>. QED
    BY <1>1, <1>2, <2>1, <2>2
       DEF WorkloadController, StartPod, PodComesUp, ReplacePod, ReapPod
<1>3. ASSUME NEW k \in WrittenKinds, SyncKind(k) PROVE Stays(v)
  BY <1>3 DEF SyncKind, Stays
<1>4. ASSUME NEW o \in Claims, ReapClaim(o) PROVE Stays(v)
  BY <1>4, DeletedWorkload, WorkloadFacts DEF ReapClaim
<1>5. ASSUME NEW o \in Objects, CollectGarbage(o)
      PROVE  Stays(v) \/ (Gone(v) /\ (Ownerless(v) \/ ns = "terminating"))
  BY <1>5, DeletedWorkload DEF CollectGarbage
<1>. QED
  BY <1>1, <1>2, <1>3, <1>4, <1>5
     DEF Environment, User, EditCr, Recreate, DeleteCr, DeleteNamespace, SyncCr,
         SyncPods, PodLost

(* The operator writes a workload only where the node loop is due to.         *)
LEMMA WorkloadSteps ==
    ASSUME OperatorInv, [Next]_vars, NEW v \in Workloads
    PROVE  Stays(v) \/ Gone(v) \/ WritesWorkload(v)
<1>0. StoreTypeOK
  BY TypeSplit DEF OperatorInv
<1>1. ASSUME UNCHANGED storeVars PROVE Stays(v)
  BY <1>1 DEF storeVars, Stays
<1>2. ASSUME NEW S, DeleteObjects(S) PROVE Stays(v) \/ Gone(v)
  BY <1>2, DeletedWorkload
<1>3. CASE Environment
  BY <1>3, EnvironmentSteps
<1>4. CASE \E k \in PrunedKinds : PruneKind(k) \/ PruneFault(k)
  BY <1>4, <1>2 DEF PruneKind, PruneFault, Prune
<1>5. CASE ReconcileCommon
  BY <1>0, <1>5, <1>1, WrittenObject, WorkloadFacts, ObjectFacts DEF ReconcileCommon, Apply
<1>6. CASE \E p \in Objects : DeleteListed(p) \/ DeleteOrphan(p) \/ WriteRefused(p)
  BY <1>6, <1>1, <1>2 DEF DeleteListed, DeleteOrphan, WriteRefused, clusterVars
<1>7. ASSUME NEW p \in Objects, ReconcileObject(p) \/ AnswerLost(p)
      PROVE  Stays(v) \/ WritesWorkload(v)
  <2>1. /\ pc = "node" /\ Due(p) /\ m' = m
        /\ UNCHANGED storeVars \/ PutObject(p, Hash(m, p))
    BY <1>7 DEF ReconcileObject, AnswerLost, Apply, EndPass
  <2>. QED  BY <1>0, <2>1, <1>1, WrittenObject DEF WritesWorkload
<1>8. CASE UNCHANGED vars \/ PassCut \/ CrashCheckFails \/ OrphansFail
  BY <1>8, <1>1 DEF PassCut, CrashCheckFails, OrphansFail, vars, clusterVars
<1>9. CASE \/ StartReconcile \/ AddFinalizer \/ SkipFinalizer
           \/ ListClaims \/ ListSts \/ RemoveFinalizer
           \/ CrashCheck \/ CrashCheckPanics \/ CheckRollout \/ EndNodes
           \/ ListOrphanPods \/ ListOrphanClaims \/ EndOrphans \/ PatchStatus
  BY <1>9, <1>1
     DEF StartReconcile, AddFinalizer, SkipFinalizer, ListClaims, ListSts,
         RemoveFinalizer, CrashCheck, CrashCheckPanics, CheckRollout, EndNodes,
         ListOrphanPods, ListOrphanClaims, EndOrphans, PatchStatus, clusterVars
<1>. QED
  BY <1>3, <1>4, <1>5, <1>6, <1>7, <1>8, <1>9 DEF Next, OperatorStep, OperatorFault

LEMMA WlStep ==
    ASSUME OperatorInv, WlInv, [Next]_vars
    PROVE  WlInv'
<1>. SUFFICES ASSUME NEW v \in Workloads, v[1] = "Deployment", wl'[v].ready
              PROVE  wl'[v].cur = wl'[v].upd
  BY DEF WlInv
<1>0. wl[v] \in StatusType /\ wl \in [Workloads -> StatusType] /\ v \in Objects
  BY WorkloadFacts DEF OperatorInv, TypeOK, ClusterTypeOK
<1>1. ASSUME NEW h, wl'[v] = Observed(v, h) PROVE wl'[v].cur = wl'[v].upd
  <2>1. Observed(v, h) = wl[v] \/ ~Observed(v, h).ready
    BY DEF Observed
  <2>. QED  BY <1>1, <2>1 DEF WlInv
<1>2. CASE WritesWorkload(v)
  <2>1. wl'[v] = Observed(v, Hash(m, v)) \/ wl'[v] = wl[v]
    BY <1>0, <1>2 DEF WritesWorkload, PutObject
  <2>. QED  BY <2>1, <1>1 DEF WlInv
<1>3. CASE Gone(v)
  BY <1>3 DEF Gone, NoStatus
<1>4. CASE Stays(v)
  BY <1>0, <1>1, <1>4 DEF Stays, Reacts, WlInv, StatusType
<1>. QED  BY <1>2, <1>3, <1>4, WorkloadSteps

(* What is on its version and has rolled out stays so unless it is written.   *)
LEMMA RolledStays ==
    ASSUME OperatorInv, NEW v \in Workloads, Stays(v), RolledOut(v)
    PROVE  RolledOut(v)'
<1>0. wl[v] \in StatusType
  BY DEF OperatorInv, TypeOK, ClusterTypeOK
<1>. QED  BY <1>0 DEF Stays, Reacts, RolledOut, StatusType, Template

(***************************************************************************)
(* The node loop                                                           *)
(***************************************************************************)
(* The pass goes over object o and goes on with the loop.                     *)
GoesOver(o) ==
    /\ pc = "node" /\ Due(o) /\ Outcome(o, Hash(m, o)) # "error"
    /\ Apply(o, Hash(m, o))
    /\ pc' = AfterWrite(o, Outcome(o, Hash(m, o)))
    /\ todo' = todo \ {o} /\ node' = o[2] /\ names' = names \cup {o}
    /\ m' = m

LoopStarts ==
    /\ pc = "finalizer" /\ todo' = Planned(m'.spec)
    /\ UNCHANGED <<node, names, storeVars>>

(* A crash check that comes to its end, or that fails half-way.               *)
CrashChecked ==
    /\ pc \in {"crash", "crashAfter"} /\ AfterCrashCheck
    /\ UNCHANGED <<cr, ns, storeVars, m, passVars>>

RolloutChecked ==
    /\ pc = "rollout" /\ FullyDeployed(CurrentWorkload)
    /\ pc' \in {"crashAfter", "node"}
    /\ UNCHANGED <<cr, ns, storeVars, m, passVars>>

(* What may happen in the node loop, or lead into it.                         *)
LEMMA NodeSteps ==
    ASSUME TypeOK, [Next]_vars, pc' \in NodePhase
    PROVE  \/ UNCHANGED operatorVars /\ (Environment \/ UNCHANGED vars)
           \/ LoopStarts
           \/ \E o \in Objects : GoesOver(o) /\ UNCHANGED <<cr, ns>>
           \/ CrashChecked
           \/ RolloutChecked
<1>. USE DEF NodePhase
<1>1. CASE (Environment /\ UNCHANGED operatorVars) \/ UNCHANGED vars
  BY <1>1 DEF vars
<1>2. CASE AddFinalizer \/ SkipFinalizer
  <2>1. StartNodes /\ UNCHANGED storeVars /\ pc = "finalizer"
    BY <1>2 DEF AddFinalizer, SkipFinalizer, EndPass, clusterVars
  <2>2. m'.spec = m.spec
    BY <1>2 DEF AddFinalizer, SkipFinalizer, EndPass, TypeOK, CrType
  <2>. QED  BY <2>1, <2>2 DEF StartNodes, LoopStarts, Planned
<1>3. ASSUME NEW o \in Objects, ReconcileObject(o)
      PROVE  GoesOver(o) /\ UNCHANGED <<cr, ns>>
  <2>1. AfterWrite(o, Outcome(o, Hash(m, o))) # "idle"
    BY <1>3 DEF ReconcileObject, EndPass
  <2>. QED  BY <1>3, <2>1 DEF ReconcileObject, GoesOver
<1>4. CASE CheckRollout
  BY <1>4 DEF CheckRollout, RolloutChecked, EndPass, clusterVars
<1>5. CASE CrashCheck \/ CrashCheckFails
  BY <1>5 DEF CrashCheck, CrashCheckFails, CrashChecked
<1>6. CASE OperatorFault /\ ~CrashCheckFails
  BY <1>6 DEF OperatorFault, PassCut, OrphansFail, AnswerLost, PruneFault, Prune, EndPass
<1>7. CASE OperatorStep /\ ~SkipFinalizer /\ ~AddFinalizer /\ ~CheckRollout
             /\ ~CrashCheck /\ ~\E o \in Objects : ReconcileObject(o)
  BY <1>7 DEF OperatorStep, StartReconcile, ReconcileCommon,
              ListClaims, ListSts, RemoveFinalizer, CrashCheckPanics, EndNodes,
              ListOrphanPods, ListOrphanClaims, EndOrphans, DeleteListed,
              WriteRefused, DeleteOrphan, PruneKind, Prune,
              PatchStatus, EndPass, passVars
<1>. QED  BY <1>1, <1>2, <1>3, <1>4, <1>5, <1>6, <1>7 DEF Next

(* Objects of earlier types than a due one have been gone over already.       *)
LEMMA DueFirst ==
    ASSUME LoopInv, pc = "node", NEW o \in Objects, Due(o),
           NEW p \in Planned(m.spec), Rank(p[2]) < Rank(o[2])
    PROVE  p \notin todo
<1>0. todo \subseteq Planned(m.spec) /\ o \in todo
  BY DEF LoopInv, NodePhase, Due
<1>1. o[2] \in Nodes /\ p[2] \in Nodes
  BY <1>0 DEF Planned
<1>2. Rank(o[2]) \in Int /\ Rank(p[2]) \in Int /\ p[2] # o[2]
  BY <1>1, RankType
<1>3. CASE o[2] = node
  BY <1>1, <1>2, <1>3 DEF LoopInv, NodePhase
<1>4. CASE o[2] # node
  BY <1>2, <1>4 DEF Due
<1>. QED  BY <1>3, <1>4

(* Neither the beginning of a pass nor its end leaves a node being written.   *)
LEMMA LoopStep ==
    ASSUME OperatorInv, LoopInv, [Next]_vars
    PROVE  LoopInv'
<1>0. TypeOK /\ Common \notin Nodes /\ CommonObject \notin Workloads
  BY ClusterAssumption, ObjectFacts DEF OperatorInv
<1>1. ASSUME pc' \in NodePhase
      PROVE  /\ todo' \subseteq Planned(m'.spec)
             /\ node' \in Nodes => \A o \in todo' : Rank(node') <= Rank(o[2])
  <2>1. CASE UNCHANGED operatorVars
    BY <1>1, <2>1 DEF LoopInv, operatorVars, passVars
  <2>2. CASE LoopStarts
    BY <2>2, <1>0 DEF LoopStarts, LoopInv
  <2>3. ASSUME NEW o \in Objects, GoesOver(o)
        PROVE  /\ todo' \subseteq Planned(m'.spec)
               /\ node' \in Nodes => \A p \in todo' : Rank(node') <= Rank(p[2])
    <3>1. /\ pc = "node" /\ Due(o) /\ m' = m
          /\ todo' = todo \ {o} /\ node' = o[2]
      BY <2>3 DEF GoesOver
    <3>2. todo \subseteq Planned(m.spec) /\ o \in todo
      BY <3>1 DEF LoopInv, NodePhase, Due
    <3>3. ASSUME NEW p \in todo PROVE Rank(o[2]) <= Rank(p[2])
      <4>1. p \in Planned(m.spec) /\ o[2] \in Nodes /\ p[2] \in Nodes
        BY <3>2 DEF Planned
      <4>2. ~(Rank(p[2]) < Rank(o[2]))
        BY <3>1, <4>1, DueFirst
      <4>. QED  BY <4>1, <4>2, RankType
    <3>. QED  BY <3>1, <3>2, <3>3
  <2>4. CASE CrashChecked \/ RolloutChecked
    BY <2>4 DEF LoopInv, CrashChecked, RolloutChecked, passVars, NodePhase
  <2>. QED  BY <1>0, <1>1, <2>1, <2>2, <2>3, <2>4, NodeSteps
<1>2. ASSUME pc' \in {"idle", "common", "finalizer"}
      PROVE  node' = Common /\ (pc' = "finalizer" => names' \cap Workloads = {})
  <2>1. CASE EndPass
    BY <2>1 DEF EndPass, ClearPass
  <2>2. CASE UNCHANGED operatorVars
    BY <1>2, <2>2 DEF LoopInv, operatorVars, passVars
  <2>3. CASE StartReconcile
    BY <2>3 DEF StartReconcile, passVars, LoopInv
  <2>4. CASE ReconcileCommon
    BY <2>4, <1>0 DEF ReconcileCommon, LoopInv
  <2>5. ASSUME NEW o \in Objects, ReconcileObject(o)
        PROVE  EndPass
    BY <2>5, <1>2 DEF ReconcileObject, AfterWrite
  <2>6. CASE OperatorFault
    BY <2>6, <1>2, <2>1
       DEF OperatorFault, PassCut, CrashCheckFails, AfterCrashCheck, OrphansFail,
           AnswerLost, PruneFault, Prune
  <2>7. CASE OperatorStep /\ ~StartReconcile /\ ~ReconcileCommon
               /\ ~\E o \in Objects : ReconcileObject(o)
    BY <2>7, <1>2, <2>1
       DEF OperatorStep, AddFinalizer, SkipFinalizer, StartNodes, ListClaims, ListSts,
           RemoveFinalizer, CrashCheck, AfterCrashCheck, CrashCheckPanics, CheckRollout,
           EndNodes, ListOrphanPods, ListOrphanClaims, EndOrphans, DeleteListed,
           WriteRefused, DeleteOrphan, PruneKind, Prune, PatchStatus
  <2>. QED  BY <2>1, <2>2, <2>3, <2>4, <2>5, <2>6, <2>7 DEF Next, vars
<1>. QED  BY <1>1, <1>2 DEF LoopInv, Planned

(***************************************************************************)
(* What the pass has read                                                  *)
(***************************************************************************)
LEMMA ReadSteps ==
    ASSUME [ReadNext]_readVars
    PROVE  /\ [Next]_vars
           /\ pc' # "idle" => misread \subseteq misread'
           /\ UNCHANGED readVars \/ (pc' # "idle" => Misreads \subseteq misread')
BY DEF ReadNext, readVars

(* A workload the pass goes over without misreading it exists and has the     *)
(* version the pass wants.                                                    *)
LEMMA GoneOver ==
    ASSUME OperatorInv, NEW w \in Workloads, GoesOver(w),
           Misreads \subseteq misread', w \notin misread'
    PROVE  store'[w] # None /\ OnVersion(w)'
<1>0. /\ w \in Objects /\ m \in CrType /\ store \in [Objects -> Hashes \cup {None}]
      /\ m' = m
  BY WorkloadFacts DEF OperatorInv, TypeOK, ClusterTypeOK, GoesOver
<1>1. Hash(m, w) # None /\ Template(Hash(m, w)) = Content(m.spec, w)
  BY <1>0, HashOwner, HashTemplate
<1>2. View(w) = store[w]
  BY DEF Misreads, MisreadObject, GoesOver, Due
<1>3. CASE Outcome(w, Hash(m, w)) \in {"created", "updated"}
  <2>1. store' = [store EXCEPT ![w] = Hash(m, w)]
    BY <1>3 DEF GoesOver, Apply, PutObject
  <2>2. store'[w] = Hash(m, w)
    BY <2>1, <1>0
  <2>. QED  BY <2>2, <1>0, <1>1 DEF OnVersion, Template
<1>4. CASE Outcome(w, Hash(m, w)) = "same"
  <2>1. View(w) = Hash(m, w) /\ store' = store
    BY <1>4 DEF GoesOver, Outcome, Creating, Updating, Apply, storeVars
  <2>. QED  BY <2>1, <1>0, <1>1, <1>2 DEF OnVersion, Template
<1>. QED  BY <1>3, <1>4 DEF GoesOver, Outcome, Creating, Updating

(* A rollout check that finds a workload deployed, and has not misread it, is *)
(* one of a workload that has rolled out.                                     *)
LEMMA CheckedWorkload ==
    ASSUME OperatorInv, WlInv, RolloutChecked,
           NEW w \in Workloads \cap Planned(m.spec), w[2] = node,
           Misreads \subseteq misread', w \notin misread'
    PROVE  RolledOut(w)
<1>0. m.spec \in Specs
  BY DEF OperatorInv, TypeOK, CrType
<1>1. w[1] \in m.spec.parts[node]
  BY WorkloadFacts DEF Planned
<1>2. ASSUME NEW v \in Workloads, v[2] = node, v[1] \in m.spec.parts[node] PROVE v = w
  <2>1. v \in Planned(m.spec)
    BY <1>2, WorkloadFacts, ClusterAssumption DEF Planned
  <2>. QED  BY <1>0, <1>2, <2>1, OneWorkload
<1>3. CurrentWorkload = w
  BY <1>1, <1>2 DEF CurrentWorkload
<1>4. FullyDeployed(w) /\ ~MisreadRollout(w)
  BY <1>3 DEF RolloutChecked, Misreads
<1>5. View(w) = store[w] /\ ViewWl(w) = wl[w] /\ store[w] # None
      /\ wl[w].upd = Template(store[w])
  BY <1>3, <1>4 DEF MisreadRollout, RolloutChecked, FullyDeployed
<1>. QED
  BY <1>4, <1>5, WorkloadFacts DEF FullyDeployed, WlInv, RolledOut, WorkloadKinds

(* The node loop leaves a node behind only when its workload is as it should. *)
LEMMA DoneStep ==
    ASSUME OperatorInv, WlInv, LoopInv, DoneInv, [ReadNext]_readVars
    PROVE  DoneInv'
<1>. SUFFICES ASSUME pc' \in NodePhase, m'.spec.rolling, m'.gen > 1, NEW w \in Workloads,
                     w \in Planned(m'.spec), w \notin misread', w \notin todo',
                     store'[w] # None
              PROVE  OnVersion(w)' /\ (~Awaited(w)' => RolledOut(w)')
  BY DEF DoneInv, Planned
<1>0. /\ TypeOK /\ [Next]_vars /\ pc' # "idle" /\ w \notin misread
      /\ UNCHANGED readVars \/ Misreads \subseteq misread'
  BY ReadSteps DEF OperatorInv, NodePhase
<1>1. ASSUME m' = m, w \notin todo, pc \in NodePhase
      PROVE  /\ store'[w] = store[w] /\ OnVersion(w)'
             /\ ~Awaited(w) => RolledOut(w)'
  <2>1. Stays(w)
    BY <1>0, <1>1, WorkloadSteps DEF Gone, WritesWorkload, Due
  <2>2. store[w] # None /\ store'[w] = store[w]
    BY <2>1 DEF Stays
  <2>3. OnVersion(w) /\ (~Awaited(w) => RolledOut(w))
    BY <1>0, <1>1, <2>2 DEF DoneInv, Planned
  <2>. QED  BY <1>1, <2>1, <2>2, <2>3, RolledStays DEF OnVersion, Template
<1>2. CASE UNCHANGED operatorVars
  <2>1. w \notin todo /\ pc \in NodePhase /\ m' = m /\ (Awaited(w)' <=> Awaited(w))
    BY <1>2 DEF operatorVars, passVars, Awaited
  <2>. QED  BY <2>1, <1>1
<1>3. CASE LoopStarts
  BY <1>3 DEF LoopStarts
<1>4. ASSUME NEW o \in Objects, o # w, GoesOver(o)
      PROVE  OnVersion(w)' /\ (~Awaited(w)' => RolledOut(w)')
  <2>1. w \notin todo /\ pc \in NodePhase /\ m' = m /\ ~Awaited(w)
    BY <1>4 DEF GoesOver, Awaited, NodePhase
  <2>. QED  BY <2>1, <1>1
<1>5. CASE GoesOver(w)
  <2>1. Misreads \subseteq misread'
    BY <1>0, <1>5 DEF readVars, vars, operatorVars, passVars, GoesOver, Due
  <2>2. OnVersion(w)'
    BY <1>5, <2>1, GoneOver
  <2>3. m' = m /\ node' = w[2] /\ pc' = AfterWrite(w, Outcome(w, Hash(m, w)))
    BY <1>5 DEF GoesOver
  <2>4. pc' \in {"crash", "rollout"}
    BY <2>3, WorkloadFacts DEF AfterWrite, Watched, NodePhase
  <2>. QED  BY <2>2, <2>3, <2>4 DEF Awaited
<1>6. CASE CrashChecked
  <2>1. w \notin todo /\ m' = m /\ pc \in NodePhase
    BY <1>6 DEF CrashChecked, passVars, NodePhase
  <2>2. Awaited(w) => Awaited(w)'
    BY <1>6, <2>1 DEF CrashChecked, AfterCrashCheck, passVars, Awaited, Watched
  <2>. QED  BY <2>1, <2>2, <1>1
<1>7. CASE RolloutChecked
  <2>1. w \notin todo /\ m' = m /\ pc \in NodePhase
    BY <1>7 DEF RolloutChecked, passVars, NodePhase
  <2>2. Misreads \subseteq misread'
    BY <1>0, <1>7 DEF readVars, vars, operatorVars, RolloutChecked
  <2>3. Awaited(w) => RolledOut(w)
    BY <1>7, <2>1, <2>2, CheckedWorkload DEF Awaited
  <2>4. RolledOut(w) => RolledOut(w)'
    BY <1>7 DEF RolloutChecked, storeVars, RolledOut, Template
  <2>. QED  BY <2>1, <2>3, <2>4, <1>1
<1>. QED  BY <1>0, <1>2, <1>3, <1>4, <1>5, <1>6, <1>7, NodeSteps

LEMMA NamespaceStays ==
    ASSUME Environment, ns' = "active"
    PROVE  ns = "active"
<1>1. ASSUME NEW w \in Workloads, WorkloadController(w) PROVE ns' = ns
  BY <1>1 DEF WorkloadController, Observe, ClaimVolume, StartPod, PodComesUp,
              ReplacePod, CompleteRollout, LoseReadiness, ReapPod
<1>. QED
  BY <1>1 DEF Environment, User, EditCr, Recreate, DeleteCr, DeleteNamespace, SyncCr,
              SyncPods, SyncKind, PodLost, ReapClaim, CollectGarbage

(* While the CR of the pass lives, what it has named stays.                   *)
LEMMA KeptStep ==
    ASSUME OperatorInv, LoopInv, KeptInv, [ReadNext]_readVars
    PROVE  KeptInv'
<1>. SUFFICES ASSUME pc' \in NodePhase, CrLives', NEW w \in Workloads, w \in names',
                     w \notin misread'
              PROVE  store'[w] # None
  BY DEF KeptInv
<1>0. /\ TypeOK /\ [Next]_vars /\ pc' # "idle" /\ w \notin misread /\ w \in Objects
      /\ UNCHANGED readVars \/ Misreads \subseteq misread'
      /\ store \in [Objects -> Hashes \cup {None}]
      /\ m \in CrType /\ cr \in CrType /\ cachedCr \in CrType /\ cr' \in CrType
      /\ CopyInv /\ CrEvolves
  BY ReadSteps, CrSteps, NextType, WorkloadFacts
     DEF OperatorInv, TypeOK, ClusterTypeOK, NodePhase
<1>1. ASSUME pc \in NodePhase, w \in names, CrLives PROVE store[w] # None
  BY <1>0, <1>1 DEF KeptInv
<1>2. CASE UNCHANGED operatorVars /\ Environment
  <2>1. pc \in NodePhase /\ w \in names /\ m' = m
    BY <1>2 DEF operatorVars, passVars
  <2>2. CrLives
    <3>1. /\ m.uid \in Nat /\ cr.uid \in Nat /\ cr'.uid \in Nat /\ cachedCr.uid \in Nat
      BY <1>0 DEF CrType
    <3>2. cr.uid = cr'.uid
      BY <1>0, <2>1, <3>1 DEF CrLives, CopyInv, ViewCr, CrEvolves
    <3>. QED  BY <1>0, <1>2, <2>1, <3>2, NamespaceStays DEF CrLives, CrEvolves
  <2>3. store[w] # None /\ store[w].owner = cr.uid
    BY <2>1, <2>2, <1>1 DEF OperatorInv, AdoptsWhatItNames, CrLives
  <2>. QED
    BY <1>2, <2>2, <2>3, EnvironmentSteps DEF Stays, Ownerless, CrLives
<1>3. CASE LoopStarts
  BY <1>3 DEF LoopStarts, LoopInv
<1>4. ASSUME NEW o \in Objects, GoesOver(o), UNCHANGED <<cr, ns>> PROVE store'[w] # None
  <2>1. /\ pc = "node" /\ names' = names \cup {o} /\ CrLives
        /\ Apply(o, Hash(m, o)) /\ Due(o) /\ todo' = todo \ {o}
    BY <1>4 DEF GoesOver, CrLives
  <2>2. CASE w = o
    <3>1. Misreads \subseteq misread'
      BY <1>0, <2>1 DEF readVars, vars, operatorVars, passVars, Due
    <3>. QED  BY <1>4, <2>2, <3>1, GoneOver
  <2>3. CASE w # o
    <3>1. store'[w] = store[w]
      BY <1>0, <2>1, <2>3 DEF Apply, PutObject, storeVars
    <3>. QED  BY <1>1, <2>1, <2>3, <3>1 DEF NodePhase
  <2>. QED  BY <2>2, <2>3
<1>5. CASE CrashChecked \/ RolloutChecked \/ UNCHANGED vars
  <2>1. /\ pc \in NodePhase /\ w \in names /\ CrLives /\ store' = store
    BY <1>5
       DEF CrashChecked, RolloutChecked, vars, clusterVars, operatorVars, storeVars,
           passVars, NodePhase, CrLives
  <2>. QED  BY <2>1, <1>1
<1>. QED  BY <1>0, <1>2, <1>3, <1>4, <1>5, NodeSteps

(***************************************************************************)
(* The finalizer                                                           *)
(***************************************************************************)
LEMMA ListedStep ==
    ASSUME OperatorInv, ListedInv, [ReadNext]_readVars
    PROVE  ListedInv'
<1>0. /\ [Next]_vars
      /\ pc' # "idle" => misread \subseteq misread'
      /\ UNCHANGED readVars \/ (pc' # "idle" => Misreads \subseteq misread')
  BY ReadSteps
<1>1. ASSUME NEW o \in Objects, o[1] = "VolumeClaim", store'[o] # None
      PROVE  store'[o].owner = 0
  BY <1>0, <1>1, StoreSteps DEF ListedInv
<1>2. ASSUME pc' = "finalize", NEW w \in Workloads, w[1] = "StatefulSet", store'[w] # None
      PROVE  w \in listed' \cup misread'
  <2>0. /\ w \in Objects /\ w \notin Claims /\ w # CommonObject /\ ~Mounted(w)
        /\ misread \subseteq misread'
    BY <1>0, <1>2, ObjectFacts DEF Claims, ClaimKinds, Mounted
  <2>1. CASE ListSts
    <3>1. pc = "listSts" /\ store' = store
      BY <2>1 DEF ListSts, clusterVars, storeVars
    <3>2. Misreads \subseteq misread'
      BY <1>0, <1>2, <3>1 DEF readVars, vars, operatorVars
    <3>3. View(w) = None => w \in Misreads
      BY <1>2, <3>1 DEF Misreads, MisreadList
    <3>. QED  BY <1>2, <2>0, <2>1, <3>2, <3>3 DEF ListSts
  <2>2. CASE \E o \in Objects : DeleteListed(o)
    <3>1. PICK o \in Objects : DeleteListed(o)
      BY <2>2
    <3>2. /\ pc = "finalize" /\ DeleteObjects({o}) /\ listed' = listed \ {o}
      BY <1>2, <3>1 DEF DeleteListed, EndPass
    <3>3. w # o /\ store'[w] = store[w]
      BY <1>2, <2>0, <3>2 DEF DeleteObjects
    <3>. QED  BY <1>2, <2>0, <3>2, <3>3 DEF ListedInv
  <2>3. CASE UNCHANGED operatorVars
    <3>1. pc = "finalize" /\ listed' = listed
      BY <1>2, <2>3 DEF operatorVars, passVars
    <3>2. store'[w] = store[w]
      BY <1>0, <1>2, <2>0, <3>1, StoreSteps
    <3>. QED  BY <1>2, <2>0, <3>1, <3>2 DEF ListedInv
  <2>4. CASE OperatorFault
    BY <1>2, <2>4
       DEF OperatorFault, PassCut, CrashCheckFails, AfterCrashCheck, OrphansFail,
           AnswerLost, PruneFault, Prune, EndPass
  <2>5. ASSUME NEW o \in Objects, ReconcileObject(o) PROVE FALSE
    BY <1>2, <2>5 DEF ReconcileObject, AfterWrite, EndPass
  <2>6. CASE /\ OperatorStep /\ ~ListSts
             /\ ~\E o \in Objects : DeleteListed(o) \/ ReconcileObject(o)
    <3>1. CASE \/ StartReconcile \/ ReconcileCommon \/ AddFinalizer \/ SkipFinalizer
               \/ ListClaims \/ RemoveFinalizer \/ PatchStatus
               \/ \E o \in Objects : WriteRefused(o)
      BY <1>2, <3>1
         DEF StartReconcile, ReconcileCommon, AddFinalizer, SkipFinalizer, StartNodes,
             ListClaims, RemoveFinalizer, PatchStatus, WriteRefused, EndPass
    <3>2. CASE \/ CrashCheck \/ CrashCheckPanics \/ CheckRollout \/ EndNodes
               \/ ListOrphanPods \/ ListOrphanClaims \/ EndOrphans
               \/ \E o \in Objects : DeleteOrphan(o)
               \/ \E k \in PrunedKinds : PruneKind(k)
      BY <1>2, <3>2
         DEF CrashCheck, AfterCrashCheck, CrashCheckPanics, CheckRollout, EndNodes,
             ListOrphanPods, ListOrphanClaims, EndOrphans, DeleteOrphan, PruneKind,
             Prune, EndPass
    <3>. QED  BY <2>6, <3>1, <3>2 DEF OperatorStep
  <2>. QED  BY <1>0, <2>1, <2>2, <2>3, <2>4, <2>5, <2>6 DEF Next, vars
<1>. QED  BY <1>1, <1>2 DEF ListedInv

(* While the finalizer runs in a living namespace nobody but the finalizer    *)
(* deletes a claim made from a template.                                      *)
LEMMA ClaimDeleted ==
    ASSUME OperatorInv, ListedInv, [Next]_vars, pc = "finalize", ns = "active",
           NEW c \in Claims, c[1] = "VolumeClaim", store[c] # None, c \notin terminating,
           store'[c] = None \/ c \in terminating'
    PROVE  DeleteListed(c)
<1>0. c \in Objects /\ store[c].owner = 0 /\ StoreTypeOK
  BY ObjectFacts, TypeSplit DEF ListedInv, OperatorInv
<1>1. ASSUME UNCHANGED <<store, terminating>> PROVE FALSE
  BY <1>1
<1>2. ASSUME NEW o \in Objects, DeleteObjects({o}), o # c PROVE FALSE
  BY <1>0, <1>2 DEF DeleteObjects
<1>3. CASE Environment
  <2>1. ASSUME NEW w \in Workloads, WorkloadController(w) PROVE FALSE
    <3>1. CASE ClaimVolume(w)
      BY <1>0, <3>1, ClusterAssumption, ObjectFacts DEF ClaimVolume, StoreTypeOK, Hashes
    <3>. QED
      BY <1>1, <2>1, <3>1
         DEF WorkloadController, Observe, StartPod, PodComesUp, ReplacePod,
             CompleteRollout, LoseReadiness, ReapPod, storeVars
  <2>2. ASSUME NEW o \in Claims, ReapClaim(o) PROVE FALSE
    BY <1>2, <2>2, ObjectFacts DEF ReapClaim
  <2>3. ASSUME NEW o \in Objects, CollectGarbage(o) PROVE FALSE
    BY <1>0, <1>2, <2>3 DEF CollectGarbage, Ownerless
  <2>. QED
    BY <1>1, <1>3, <2>1, <2>2, <2>3
       DEF Environment, User, EditCr, Recreate, DeleteCr, DeleteNamespace, SyncCr,
           SyncPods, SyncKind, PodLost, storeVars
<1>4. CASE OperatorFault \/ UNCHANGED vars
  BY <1>1, <1>4
     DEF OperatorFault, PassCut, CrashCheckFails, OrphansFail, AnswerLost, PruneFault,
         Prune, vars, clusterVars, storeVars
<1>5. ASSUME NEW o \in Objects, DeleteListed(o) PROVE o = c
  BY <1>1, <1>2, <1>5 DEF DeleteListed, storeVars
<1>6. CASE OperatorStep /\ ~\E o \in Objects : DeleteListed(o)
  BY <1>1, <1>6
     DEF OperatorStep, StartReconcile, ReconcileCommon, AddFinalizer, SkipFinalizer,
         ListClaims, ListSts, RemoveFinalizer, CrashCheck, CrashCheckPanics,
         CheckRollout, EndNodes, ListOrphanPods, ListOrphanClaims, EndOrphans,
         ReconcileObject, WriteRefused, DeleteOrphan, PruneKind, Prune, PatchStatus,
         clusterVars, storeVars
<1>. QED  BY <1>3, <1>4, <1>5, <1>6 DEF Next

(***************************************************************************)
(* Theorems                                                                *)
(***************************************************************************)
(* What a pass knows of the objects it has left behind holds throughout.      *)
THEOREM ReadInvariant == ReadSpec => []ReadInv
<1>1. ReadInit => ReadInv
  <2>. SUFFICES ASSUME ReadInit PROVE ReadInv
    OBVIOUS
  <2>1. OperatorInv
    BY InitInv DEF ReadInit
  <2>. QED
    BY <2>1 DEF ReadInit, Init, ClusterInit, NoStatus, ReadInv, WlInv, LoopInv, DoneInv,
                KeptInv, ListedInv, NodePhase
<1>2. ReadInv /\ [ReadNext]_readVars => ReadInv'
  BY ReadSteps, NextInv, WlStep, LoopStep, DoneStep, KeptStep, ListedStep DEF ReadInv
<1>. QED  BY <1>1, <1>2, PTL DEF ReadSpec

(* A step that moves a workload to another version writes it in the node      *)
(* loop, when all workloads of earlier types have been left behind.           *)
LEMMA MoveInOrder ==
    ASSUME ReadInv, [ReadNext]_readVars,
           NEW w \in Workloads, Moves(w), m.spec.rolling, m.gen > 1,
           NEW p \in (Workloads \cap Planned(m.spec)) \ misread, Rank(p[2]) < Rank(w[2])
    PROVE  /\ CrLives => store[p] # None
           /\ store[p] # None => RolledOut(p) /\ wl[p].cur = Content(m.spec, p)
<1>1. WritesWorkload(w)
  BY ReadSteps, WorkloadSteps DEF ReadInv, Moves, Stays, Gone, Template
<1>2. pc = "node" /\ Due(w) /\ w \in Objects
  BY <1>1, WorkloadFacts DEF WritesWorkload
<1>3. p \notin todo
  BY <1>2, DueFirst DEF ReadInv
<1>4. p \in names
  BY <1>2, <1>3 DEF ReadInv, OperatorInv, PassInv, NodePhase
<1>5. CrLives => store[p] # None
  BY <1>2, <1>4 DEF ReadInv, KeptInv, NodePhase
<1>6. store[p] # None => RolledOut(p) /\ OnVersion(p)
  BY <1>2, <1>3 DEF ReadInv, DoneInv, NodePhase, Awaited
<1>. QED  BY <1>5, <1>6 DEF RolledOut, OnVersion

(* rollingDeploy keeps to the order of the node types, for any caches,        *)
(* controllers, edits, deletions, faults and CRs, but for what it misreads.   *)
THEOREM RollsInOrder == ReadSpec => UpdatesInOrder
<1>1. ReadInv /\ [ReadNext]_readVars =>
        [\A w \in Workloads : Moves(w) /\ m.spec.rolling /\ m.gen > 1 =>
           \A p \in (Workloads \cap Planned(m.spec)) \ misread :
              Rank(p[2]) < Rank(w[2]) =>
                /\ CrLives => store[p] # None
                /\ store[p] # None =>
                     RolledOut(p) /\ wl[p].cur = Content(m.spec, p)]_readVars
  BY MoveInOrder
<1>. QED  BY <1>1, ReadInvariant, PTL DEF ReadSpec, UpdatesInOrder

(* The finalizer deletes no claim before its StatefulSet, for any caches,     *)
(* edits, deletions, faults and CRs, unless its list misses the StatefulSet.  *)
THEOREM FinalizerOrder == ReadSpec => ClaimsInOrder
<1>. DEFINE Ordered ==
        pc = "finalize" /\ ns = "active" =>
         \A n \in Claiming :
            LET c == <<"VolumeClaim", n>>  w == <<"StatefulSet", n>>
                kept == store[c] # None /\ c \notin terminating
            IN  kept /\ (store'[c] = None \/ c \in terminating')
                  => store[w] = None \/ w \in misread
<1>1. ReadInv /\ [ReadNext]_readVars => [Ordered]_readVars
  <2>. SUFFICES ASSUME ReadInv, [ReadNext]_readVars, pc = "finalize", ns = "active",
                       NEW n \in Claiming, store[<<"VolumeClaim", n>>] # None,
                       <<"VolumeClaim", n>> \notin terminating,
                       \/ store'[<<"VolumeClaim", n>>] = None
                       \/ <<"VolumeClaim", n>> \in terminating'
                PROVE  store[<<"StatefulSet", n>>] = None \/ <<"StatefulSet", n>> \in misread
    OBVIOUS
  <2>1. DeleteListed(<<"VolumeClaim", n>>)
    BY ReadSteps, ClaimDeleted, ObjectFacts DEF ReadInv
  <2>2. listed \subseteq Claims
    BY <2>1, ObjectFacts DEF DeleteListed, NextListed
  <2>3. <<"StatefulSet", n>> \in Workloads /\ <<"StatefulSet", n>> \notin Claims
    BY ClusterAssumption, KindFacts
       DEF Workloads, Objects, WorkloadKinds, Claims, ClaimKinds
  <2>. QED  BY <2>2, <2>3 DEF ReadInv, ListedInv
<1>. QED  BY <1>1, ReadInvariant, PTL DEF ReadSpec, ClaimsInOrder
=============================================================================
