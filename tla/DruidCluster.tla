---------------------------- MODULE DruidCluster ----------------------------
(* What surrounds the druid operator: the API server that stores the Druid    *)
(* custom resource (CR) and the objects made from it, the informer caches     *)
(* the operator reads, the workload controllers that turn StatefulSets and    *)
(* Deployments into pods and claims, the garbage collector and the user.      *)
(* None of it is code of the repository; it is modelled from what the         *)
(* operator's calls rely on.  The operator itself is module DruidOperator.    *)
EXTENDS DruidNodeTypes, FiniteSets

CONSTANTS
    Nodes,          \* the keys spec.nodes may hold
    NodeType,       \* the nodeType of each of them
    Common,         \* stands for "no node": the common ConfigMap has no node
    None,           \* no object, no hash
    Kinds,          \* the kinds of object the specs below ask for
    Claiming,       \* nodes whose StatefulSet has a volumeClaimTemplate
    Specs,          \* the specs the user applies
    Faulty,         \* pod templates whose pods crash
    Rejected,       \* pod templates no workload can be made from
    NodeOrdered,    \* nodes with podManagementPolicy OrderedReady of their own
    ClusterOrdered, \* is it the cluster-wide podManagementPolicy?
    Lagging,        \* the kinds whose informer cache lags behind the API server
    Prompt,         \* has a workload controller reacted before the next read?
    Deletions,      \* what the user may delete, "cr" or "namespace", and while
                    \* which CR of that name
    MaxGen,         \* bound on metadata.generation: the number of edits
    MaxLives,       \* bound on the CRs created, one after the other, under the name
    MaxFaults       \* bound on lost pods, failed requests, operator crashes

Objects == {<<"ConfigMap", Common>>} \cup (Kinds \X Nodes)
                \cup ({"VolumeClaim"} \X Claiming)
Workloads == {o \in Objects : o[1] \in WorkloadKinds}
Claims == {o \in Objects : o[1] \in ClaimKinds}

(* The operator's client keeps one informer cache per kind it reads.          *)
Informers == WrittenKinds \cup {"Druid", "Pod"}

(* What the hash annotation of an object depends on: the version of the       *)
(* common configuration, of the node's spec, or of both, and the uid of the   *)
(* CR in the owner reference (0: no owner).                                   *)
Hashes == [common : Nat, node : Nat, owner : Nat]

SpecType ==
    [common : Nat, ver : [Nodes -> Nat], parts : [Nodes -> SUBSET Kinds],
     rolling : BOOLEAN, noFinalizer : BOOLEAN, deleteOrphans : BOOLEAN,
     forceDelete : BOOLEAN, ignored : BOOLEAN, valid : BOOLEAN]

ASSUME ClusterAssumption ==
    /\ IsFiniteSet(Nodes)
    /\ Common \notin Nodes
    /\ None \notin Hashes
    /\ NodeType \in [Nodes -> DruidTypes]
    /\ Kinds \subseteq WrittenKinds /\ WorkloadKinds \subseteq Kinds
    /\ Claiming \subseteq Nodes
    /\ Specs \subseteq SpecType
    /\ \A s \in Specs, n \in Nodes :
         s.parts[n] # {} => \E k \in WorkloadKinds : s.parts[n] \cap WorkloadKinds = {k}
    /\ NodeOrdered \subseteq Nodes
    /\ {ClusterOrdered, Prompt} \subseteq BOOLEAN
    /\ Lagging \subseteq Informers
    /\ MaxGen \in Nat /\ MaxLives \in Nat /\ MaxFaults \in Nat

VARIABLES
    cr,          \* the CR: uid, life, gen, spec, fin(alizer present), status
    store,       \* the hash of every object the API server holds, or None
    terminating, \* claims whose deletion waits for the pod that mounts them
    wl,          \* the status of every workload
    pods,        \* the pod of every workload (one replica)
    ns,          \* the phase of the namespace
    faults,      \* faults so far
    cachedCr, cachedStore, cachedWl, cachedPods,  \* the informer caches
    dirty        \* objects written since their kind was last synchronised

storeVars == <<store, terminating, wl, dirty>>
cacheVars == <<cachedCr, cachedStore, cachedWl, cachedPods>>
clusterVars == <<cr, storeVars, pods, ns, faults, cacheVars>>

NoPod == [rev |-> None, st |-> "none"]
NoStatus == [upd |-> None, cur |-> None, ready |-> TRUE]

(***************************************************************************)
(* What the operator's client sees                                         *)
(***************************************************************************)
Informer(o) == IF o \in Claims THEN "PersistentVolumeClaim" ELSE o[1]

View(o) == IF Informer(o) \in Lagging THEN cachedStore[o] ELSE store[o]
ViewWl(w) == IF w[1] \in Lagging THEN cachedWl[w] ELSE wl[w]
ViewPod(w) == IF "Pod" \in Lagging THEN cachedPods[w] ELSE pods[w]
ViewCr == IF "Druid" \in Lagging THEN cachedCr ELSE cr

(***************************************************************************)
(* Effects of a write on the API server                                    *)
(***************************************************************************)
IsOrdered(n) == n \in NodeOrdered \/ ClusterOrdered

Mounted(o) ==
    /\ o[1] = "VolumeClaim"
    /\ pods[<<"StatefulSet", o[2]>>].st # "none"

(* The pod template of a workload says nothing of its owner.                  *)
Template(h) == [h EXCEPT !.owner = 0]

(* A controller that has acted on workload w with hash h: a StatefulSet       *)
(* reports its template as its update revision, a Deployment is no longer     *)
(* fully ready.  The first template a StatefulSet is given is its current     *)
(* revision too.  A new owner alone is no new template.                       *)
Observed(w, h) ==
    IF wl[w].upd = Template(h) THEN wl[w]
    ELSE [upd |-> Template(h),
          cur |-> IF wl[w].cur = None THEN Template(h) ELSE wl[w].cur,
          ready |-> w[1] = "StatefulSet"]

Dirtied(S) == dirty' = dirty \cup {o \in S : Informer(o) \in Lagging}

PutObject(o, h) ==
    /\ store' = [store EXCEPT ![o] = h]
    /\ wl' = IF o \in Workloads /\ Prompt
             THEN [wl EXCEPT ![o] = Observed(o, h)] ELSE wl
    /\ Dirtied({o})
    /\ UNCHANGED terminating

(* Deleting a set of objects: a mounted claim stays until its pod is gone.    *)
DeleteObjects(S) ==
    LET held == {o \in S : Mounted(o)}
        gone == S \ held
    IN  /\ store' = [o \in Objects |-> IF o \in gone THEN None ELSE store[o]]
        /\ terminating' = (terminating \cup held) \ gone
        /\ wl' = [w \in Workloads |-> IF w \in gone THEN NoStatus ELSE wl[w]]
        /\ Dirtied(S)

(***************************************************************************)
(* The workload controllers and the kubelet                                *)
(***************************************************************************)
Observe(w) ==
    /\ store[w] # None /\ wl[w].upd # Template(store[w])
    /\ wl' = [wl EXCEPT ![w] = Observed(w, store[w])]
    /\ Dirtied({w})
    /\ UNCHANGED <<cr, store, terminating, pods, ns, faults, cacheVars>>

(* The StatefulSet controller makes the claim before the pod that mounts it.  *)
ClaimVolume(w) ==
    LET c == <<"VolumeClaim", w[2]>>
    IN  /\ w[1] = "StatefulSet" /\ wl[w].upd # None /\ pods[w] = NoPod
        /\ w[2] \in Claiming
        /\ store[c] = None /\ ns = "active"
        /\ store' = [store EXCEPT ![c] = [common |-> 0, node |-> 0, owner |-> 0]]
        /\ Dirtied({c})
        /\ UNCHANGED <<cr, terminating, wl, pods, ns, faults, cacheVars>>

StartPod(w) ==
    LET c == <<"VolumeClaim", w[2]>>
    IN  /\ wl[w].upd # None /\ pods[w] = NoPod /\ ns = "active"
        /\ (w[1] = "StatefulSet" /\ w[2] \in Claiming)
              => (store[c] # None /\ c \notin terminating)
        /\ pods' = [pods EXCEPT ![w] = [rev |-> wl[w].upd, st |-> "starting"]]
        /\ UNCHANGED <<cr, storeVars, ns, faults, cacheVars>>

PodComesUp(w) ==
    /\ pods[w].st = "starting"
    /\ pods' = [pods EXCEPT ![w].st =
                    IF pods[w].rev \in Faulty THEN "crashed" ELSE "running"]
    /\ UNCHANGED <<cr, storeVars, ns, faults, cacheVars>>

(* A StatefulSet's rolling update deletes the old pod and starts a new one;   *)
(* with OrderedReady it waits for ever for a pod that never becomes ready.    *)
ReplacePod(w) ==
    /\ wl[w].upd # None
    /\ pods[w] # NoPod /\ pods[w].rev # wl[w].upd
    /\ \/ /\ w[1] = "StatefulSet"
          /\ IsOrdered(w[2]) => pods[w].st = "running"
          /\ pods' = [pods EXCEPT ![w] = NoPod]
       \/ /\ w[1] = "Deployment"
          /\ pods' = [pods EXCEPT ![w] = [rev |-> wl[w].upd, st |-> "starting"]]
    /\ UNCHANGED <<cr, storeVars, ns, faults, cacheVars>>

CompleteRollout(w) ==
    /\ wl[w].upd # None
    /\ pods[w].rev = wl[w].upd /\ pods[w].st = "running"
    /\ wl[w].cur # wl[w].upd \/ ~wl[w].ready
    /\ wl' = [wl EXCEPT ![w] = [@ EXCEPT !.cur = wl[w].upd, !.ready = TRUE]]
    /\ Dirtied({w})
    /\ UNCHANGED <<cr, store, terminating, pods, ns, faults, cacheVars>>

LoseReadiness(w) ==
    /\ w[1] = "Deployment" /\ wl[w].ready
    /\ pods[w].st \in {"starting", "crashed"}
    /\ wl' = [wl EXCEPT ![w].ready = FALSE]
    /\ Dirtied({w})
    /\ UNCHANGED <<cr, store, terminating, pods, ns, faults, cacheVars>>

ReapPod(w) ==
    /\ store[w] = None /\ pods[w] # NoPod
    /\ pods' = [pods EXCEPT ![w] = NoPod]
    /\ UNCHANGED <<cr, storeVars, ns, faults, cacheVars>>

ReapClaim(o) ==
    /\ o \in terminating /\ ~Mounted(o)
    /\ DeleteObjects({o})
    /\ UNCHANGED <<cr, pods, ns, faults, cacheVars>>

WorkloadController(w) ==
    \/ Observe(w) \/ ClaimVolume(w) \/ StartPod(w) \/ PodComesUp(w)
    \/ ReplacePod(w) \/ CompleteRollout(w) \/ LoseReadiness(w) \/ ReapPod(w)

(* A pod is evicted or its machine dies.                                      *)
PodLost(w) ==
    /\ faults < MaxFaults /\ faults' = faults + 1
    /\ pods[w] # NoPod
    /\ pods' = [pods EXCEPT ![w] = NoPod]
    /\ UNCHANGED <<cr, storeVars, ns, cacheVars>>

(***************************************************************************)
(* The user, the garbage collector and the informers                       *)
(***************************************************************************)
EditCr(s) ==
    /\ cr.life # "absent" /\ cr.gen < MaxGen /\ s # cr.spec
    /\ cr' = [cr EXCEPT !.spec = s, !.gen = @ + 1]
    /\ UNCHANGED <<storeVars, pods, ns, faults, cacheVars>>

(* With a finalizer the CR stays, marked with a deletion timestamp, which     *)
(* makes a new generation of it.                                              *)
Deleted(c) == IF c.fin THEN [c EXCEPT !.life = "deleting", !.gen = @ + 1]
                       ELSE [c EXCEPT !.life = "absent"]

DeleteCr ==
    /\ <<"cr", cr.uid>> \in Deletions /\ cr.life = "present"
    /\ cr' = Deleted(cr)
    /\ UNCHANGED <<storeVars, pods, ns, faults, cacheVars>>

(* A terminating namespace admits no new object and loses the ones it has.    *)
DeleteNamespace ==
    /\ <<"namespace", cr.uid>> \in Deletions /\ ns = "active"
    /\ ns' = "terminating"
    /\ cr' = IF cr.life = "present" THEN Deleted(cr) ELSE cr
    /\ UNCHANGED <<storeVars, pods, faults, cacheVars>>

(* The user applies the CR again once the previous one is gone: same name,    *)
(* another uid, and nothing of the old one's state.                           *)
NewCr(u, s) ==
    [uid |-> u, life |-> "present", gen |-> 1, spec |-> s, fin |-> FALSE,
     status |-> [k \in PrunedKinds |-> {}]]

Recreate(s) ==
    /\ cr.life = "absent" /\ ns = "active" /\ cr.uid < MaxLives
    /\ cr' = NewCr(cr.uid + 1, s)
    /\ UNCHANGED <<storeVars, pods, ns, faults, cacheVars>>

(* Everything the operator wrote has an owner reference to the CR it read; a  *)
(* claim made from a template has none.                                       *)
Ownerless(o) ==
    store[o].owner # 0 /\ (cr.life = "absent" \/ store[o].owner # cr.uid)

CollectGarbage(o) ==
    /\ store[o] # None /\ o \notin terminating
    /\ Ownerless(o) \/ ns = "terminating"
    /\ DeleteObjects({o})
    /\ UNCHANGED <<cr, pods, ns, faults, cacheVars>>

SyncCr ==
    /\ "Druid" \in Lagging /\ cachedCr # cr
    /\ cachedCr' = cr
    /\ UNCHANGED <<cr, storeVars, pods, ns, faults, cachedStore, cachedWl, cachedPods>>

SyncPods ==
    /\ "Pod" \in Lagging /\ cachedPods # pods
    /\ cachedPods' = pods
    /\ UNCHANGED <<cr, storeVars, pods, ns, faults, cachedCr, cachedStore, cachedWl>>

(* The informer of one kind catches up.                                       *)
SyncKind(k) ==
    /\ \E o \in dirty : Informer(o) = k
    /\ cachedStore' = [o \in Objects |->
                          IF Informer(o) = k THEN store[o] ELSE cachedStore[o]]
    /\ cachedWl' = [w \in Workloads |->
                          IF Informer(w) = k THEN wl[w] ELSE cachedWl[w]]
    /\ dirty' = {o \in dirty : Informer(o) # k}
    /\ UNCHANGED <<cr, store, terminating, wl, pods, ns, faults, cachedCr, cachedPods>>

User == DeleteCr \/ DeleteNamespace \/ \E s \in Specs : EditCr(s) \/ Recreate(s)

Environment ==
    \/ User
    \/ SyncCr \/ SyncPods \/ \E k \in WrittenKinds : SyncKind(k)
    \/ \E w \in Workloads : WorkloadController(w) \/ PodLost(w)
    \/ \E o \in Claims : ReapClaim(o)
    \/ \E o \in Objects : CollectGarbage(o)

(* The CR has just been applied; nothing has been made from it yet.           *)
ClusterInit ==
    /\ \E s \in Specs : cr = NewCr(1, s)
    /\ store = [o \in Objects |-> None]
    /\ terminating = {}
    /\ wl = [w \in Workloads |-> NoStatus]
    /\ pods = [w \in Workloads |-> NoPod]
    /\ ns = "active" /\ faults = 0
    /\ cachedCr = cr /\ cachedStore = store /\ cachedWl = wl /\ cachedPods = pods
    /\ dirty = {}
=============================================================================
