---------------------------- MODULE DruidOperator ---------------------------
(* The druid operator: DruidReconciler.Reconcile and deployDruidCluster, one  *)
(* action per call they make to the API server.  Between two actions          *)
(* anything in DruidCluster may happen, and a pass may be cut short by an     *)
(* error or by a crash of the operator, which starts again from the CR.       *)
EXTENDS DruidCluster

VARIABLES
    pc,         \* the call the pass makes next
    m,          \* the CR as the pass read it
    todo,       \* objects the node loop has still to write
    node,       \* the node whose objects it is writing
    names,      \* the objects the pass has named so far (the names maps)
    listed,     \* objects a list call returned and a delete call awaits
    mounted,    \* claims the listed pods mount
    pruneLeft,  \* kinds deleteUnusedResources has still to go through
    survivors   \* the status under construction

passVars == <<todo, node, names, listed, mounted, pruneLeft, survivors>>
operatorVars == <<pc, m, passVars>>
vars == <<clusterVars, operatorVars>>

Steps == {"idle", "common", "finalizer", "listSts", "finalize", "node", "crash",
          "rollout", "crashAfter", "orphanPods", "orphanClaims", "orphanDelete",
          "prune", "status"}

NoStatusYet == [k \in PrunedKinds |-> {}]

(***************************************************************************)
(* What a spec asks for                                                    *)
(***************************************************************************)
Planned(s) == {o \in Kinds \X Nodes : o[1] \in s.parts[o[2]]}

CommonObject == <<"ConfigMap", Common>>

(* What the content of an object is made from.  The pod template carries the  *)
(* hashes of both ConfigMaps in its environment, so that a workload changes   *)
(* with either of them; the owner reference is added only afterwards.         *)
CommonConfig(s) == [common |-> s.common, node |-> 0, owner |-> 0]
NodeObject(s, n) == [common |-> 0, node |-> s.ver[n], owner |-> 0]
PodTemplate(s, n) == [common |-> s.common, node |-> s.ver[n], owner |-> 0]

Content(s, o) ==
    IF o = CommonObject THEN CommonConfig(s)
    ELSE IF o[1] \in WorkloadKinds THEN PodTemplate(s, o[2])
    ELSE NodeObject(s, o[2])

(* addOwnerRefToObject, then addHashToObject: the hash covers the owner.      *)
Hash(c, o) == [Content(c.spec, o) EXCEPT !.owner = c.uid]

(***************************************************************************)
(* The end of a pass: nothing the pass knows outlives it                   *)
(***************************************************************************)
ClearPass ==
    /\ todo' = {} /\ node' = Common /\ names' = {} /\ listed' = {}
    /\ mounted' = {} /\ pruneLeft' = {} /\ survivors' = NoStatusYet

EndPass == pc' = "idle" /\ m' = m /\ ClearPass

(* The verdict of verifyDruidSpec; deployDruidCluster returns before its      *)
(* first call when it is negative, or when the spec is to be ignored.         *)
Verified(s) == s.valid

StartReconcile ==
    /\ pc = "idle"
    /\ ViewCr.life # "absent" /\ ~ViewCr.spec.ignored /\ Verified(ViewCr.spec)
    /\ pc' = "common" /\ m' = ViewCr
    /\ UNCHANGED <<clusterVars, passVars>>

(***************************************************************************)
(* sdkCreateOrUpdateAsNeeded                                               *)
(***************************************************************************)
(* What a create and an update come to: the API server refuses an object that *)
(* exists, one in a terminating namespace, and one read in an old version.    *)
Creating(o) == IF store[o] = None /\ ns = "active" THEN "created" ELSE "error"
Updating(o) == IF o \in dirty THEN "error" ELSE "updated"

(* Building some workloads fails: getRollingUpdateStrategy dereferences the   *)
(* missing one of maxSurge and maxUnavailable.                                *)
Buildable(o, h) == ~(o \in Workloads /\ Template(h) \in Rejected)

(* Variants that never update, and that hash an object before it has an owner.*)
CreateOnly(o, h) == IF View(o) = None THEN Creating(o) ELSE "same"
HashedFirst(o, h) ==
    IF View(o) = None THEN Creating(o)
    ELSE IF Template(View(o)) = Template(h) THEN "same" ELSE Updating(o)

Outcome(o, h) ==
    IF ~Buildable(o, h) THEN "error"
    ELSE IF View(o) = None THEN Creating(o)
    ELSE IF View(o) = h THEN "same" ELSE Updating(o)

Apply(o, h) ==
    IF Outcome(o, h) \in {"created", "updated"}
    THEN PutObject(o, h) ELSE UNCHANGED storeVars

ReconcileCommon ==
    /\ pc = "common"
    /\ Outcome(CommonObject, Hash(m, CommonObject)) # "error"
    /\ Apply(CommonObject, Hash(m, CommonObject))
    /\ names' = {CommonObject}
    /\ pc' = "finalizer"
    /\ UNCHANGED <<cr, pods, ns, faults, cacheVars,
                   m, todo, node, listed, mounted, pruneLeft, survivors>>

(***************************************************************************)
(* The finalizer                                                           *)
(***************************************************************************)
StartNodes ==
    /\ pc' = "node" /\ todo' = Planned(m.spec)
    /\ UNCHANGED <<node, names, listed, mounted, pruneLeft, survivors>>

(* checkIfCRExists and the search for the finalizer on the copy of the CR; a  *)
(* variant with the first test inverted.                                      *)
LacksFinalizerInverted == ViewCr.life = "absent" /\ ~m.fin
LacksFinalizer == ViewCr.life # "absent" /\ ~m.fin

(* The branch on the deletion timestamp; checkIfCRExists reads the cache, and *)
(* the Update is refused unless the pass holds the latest version of the CR.  *)
AddFinalizer ==
    /\ pc = "finalizer"
    /\ ~m.spec.noFinalizer /\ m.life = "present"
    /\ LacksFinalizer
    /\ \/ /\ m = cr
          /\ cr' = [cr EXCEPT !.fin = TRUE] /\ m' = [m EXCEPT !.fin = TRUE]
          /\ StartNodes
       \/ /\ m # cr
          /\ cr' = cr /\ EndPass
    /\ UNCHANGED <<storeVars, pods, ns, faults, cacheVars>>

SkipFinalizer ==
    /\ pc = "finalizer"
    /\ \/ m.spec.noFinalizer
       \/ m.life = "present" /\ ~LacksFinalizer
    /\ StartNodes /\ m' = m
    /\ UNCHANGED clusterVars

(* executeFinalizers, one call at a time.                                     *)
ListClaims ==
    /\ pc = "finalizer" /\ ~m.spec.noFinalizer /\ m.life = "deleting" /\ m.fin
    /\ listed' = {o \in Claims : View(o) # None}
    /\ pc' = "listSts"
    /\ UNCHANGED <<clusterVars, m, todo, node, names, mounted, pruneLeft, survivors>>

ListSts ==
    /\ pc = "listSts"
    /\ listed' = listed \cup {o \in Workloads : o[1] = "StatefulSet" /\ View(o) # None}
    /\ pc' = "finalize"
    /\ UNCHANGED <<clusterVars, m, todo, node, names, mounted, pruneLeft, survivors>>

(* deleteSTSAndPVC ranges over the StatefulSets and then over the claims; a   *)
(* variant that mixes them.                                                   *)
AnyListed(o) == o \in listed
NextListed(o) == o \in listed /\ (o \in Claims => listed \subseteq Claims)

(* A delete of something already gone is an error and ends the pass.          *)
DeleteListed(o) ==
    /\ pc = "finalize" /\ NextListed(o)
    /\ IF store[o] # None
       THEN /\ DeleteObjects({o})
            /\ listed' = listed \ {o}
            /\ UNCHANGED <<pc, m, todo, node, names, mounted, pruneLeft, survivors>>
       ELSE EndPass /\ UNCHANGED storeVars
    /\ UNCHANGED <<cr, pods, ns, faults, cacheVars>>

(* A variant that takes the finalizer off the copy and never sends it.        *)
ForgetFinalizer ==
    /\ pc = "finalize" /\ listed = {}
    /\ EndPass
    /\ UNCHANGED clusterVars

RemoveFinalizer ==
    /\ pc = "finalize" /\ listed = {}
    /\ cr' = IF m = cr THEN [cr EXCEPT !.life = "absent", !.fin = FALSE] ELSE cr
    /\ EndPass
    /\ UNCHANGED <<storeVars, pods, ns, faults, cacheVars>>

(***************************************************************************)
(* The node loop                                                           *)
(***************************************************************************)
Rank(n) == TypeRank(NodeType[n])

(* The next object to write: all of one node before any other node, nodes of  *)
(* an earlier type first, nodes of one type in any order (a Go map).          *)
Due(o) ==
    /\ o \in todo
    /\ (\E p \in todo : p[2] = node) => o[2] = node
    /\ \A p \in todo : p[2] = o[2] => WriteRank(o[1]) <= WriteRank(p[1])
    /\ \A p \in todo : p[2] # o[2] /\ o[2] # node => Rank(o[2]) <= Rank(p[2])

(* The rollout is watched from the second generation of the CR on; a variant  *)
(* that starts one too late.                                                  *)
WatchedLate == m.gen > 2
Watched == m.gen > 1

AfterWrite(o, outcome) ==
    IF o[1] \notin WorkloadKinds THEN "node"
    ELSE IF m.spec.rolling /\ outcome = "updated" THEN "idle"
    ELSE IF o[1] = "StatefulSet" THEN IF m.spec.rolling THEN "crash" ELSE "crashAfter"
    ELSE IF m.spec.rolling /\ Watched THEN "rollout" ELSE "node"

ReconcileObject(o) ==
    LET h == Hash(m, o)
        next == AfterWrite(o, Outcome(o, h))
    IN  /\ pc = "node" /\ Due(o) /\ Outcome(o, h) # "error"
        /\ Apply(o, h)
        /\ IF next = "idle" THEN EndPass
           ELSE /\ pc' = next
                /\ todo' = todo \ {o} /\ node' = o[2] /\ names' = names \cup {o}
                /\ UNCHANGED <<m, listed, mounted, pruneLeft, survivors>>
        /\ UNCHANGED <<cr, pods, ns, faults, cacheVars>>

(* The write is refused, by a conflict, for an object the cache does not know *)
(* yet or in a namespace that is going away; or the operator panics building  *)
(* the object and starts again.                                               *)
WriteRefused(o) ==
    /\ \/ pc = "common" /\ o = CommonObject
       \/ pc = "node" /\ Due(o)
    /\ Outcome(o, Hash(m, o)) = "error"
    /\ EndPass
    /\ UNCHANGED clusterVars

(* execCheckCrashStatus asks for it node by node; a variant that mistakes the *)
(* policy for its opposite.                                                   *)
ChecksParallel == m.spec.forceDelete /\ node \notin NodeOrdered
ChecksPods == m.spec.forceDelete /\ node \in NodeOrdered

(* The crashing pods of the whole cluster.                                    *)
Doomed == {w \in Workloads : ChecksPods /\ ViewPod(w).st = "crashed"}

AfterCrashCheck ==
    pc' = IF pc = "crashAfter" THEN "node"
          ELSE IF Watched THEN "rollout" ELSE "crashAfter"

(* checkCrashStatus, before and after the rollout check.  The first delete    *)
(* that fails, because the pod is another one by now, silently ends it.       *)
CrashCheck ==
    /\ pc \in {"crash", "crashAfter"}
    /\ \E gone \in SUBSET Doomed :
         /\ gone = Doomed \/ \E w \in Doomed : pods[w] # ViewPod(w)
         /\ pods' = [w \in Workloads |-> IF w \in gone THEN NoPod ELSE pods[w]]
    /\ AfterCrashCheck
    /\ UNCHANGED <<cr, storeVars, ns, faults, cacheVars, m, passVars>>

(* A list or a delete fails: nobody looks at that, and the pass goes on.      *)
CrashCheckFails ==
    /\ pc \in {"crash", "crashAfter"} /\ ChecksPods
    /\ faults < MaxFaults /\ faults' = faults + 1
    /\ \E gone \in SUBSET Doomed :
         pods' = [w \in Workloads |-> IF w \in gone THEN NoPod ELSE pods[w]]
    /\ AfterCrashCheck
    /\ UNCHANGED <<cr, storeVars, ns, cacheVars, m, passVars>>

(* A pod whose containers have not been created has no ContainerStatuses[0]:  *)
(* the operator panics, with some of the pods already deleted.                *)
CrashCheckPanics ==
    /\ pc \in {"crash", "crashAfter"} /\ ChecksPods
    /\ \E w \in Workloads : ViewPod(w).st = "starting"
    /\ \E gone \in SUBSET Doomed :
         pods' = [w \in Workloads |-> IF w \in gone THEN NoPod ELSE pods[w]]
    /\ EndPass
    /\ UNCHANGED <<cr, storeVars, ns, faults, cacheVars>>

CurrentWorkload ==
    CHOOSE w \in Workloads : w[2] = node /\ w[1] \in m.spec.parts[node]

(* isObjFullyDeployed; a variant that only looks whether the object exists.   *)
Present(w) == View(w) # None
FullyDeployed(w) ==
    /\ View(w) # None
    /\ IF w[1] = "StatefulSet" THEN ViewWl(w).cur = ViewWl(w).upd ELSE ViewWl(w).ready

CheckRollout ==
    /\ pc = "rollout"
    /\ IF FullyDeployed(CurrentWorkload)
       THEN /\ pc' = IF CurrentWorkload[1] = "StatefulSet" THEN "crashAfter" ELSE "node"
            /\ UNCHANGED <<m, passVars>>
       ELSE EndPass
    /\ UNCHANGED clusterVars

EndNodes ==
    /\ pc = "node" /\ todo = {}
    /\ pc' = IF m.spec.deleteOrphans THEN "orphanPods" ELSE "prune"
    /\ pruneLeft' = PrunedKinds
    /\ UNCHANGED <<clusterVars, m, todo, node, names, listed, mounted, survivors>>

(***************************************************************************)
(* deleteOrphanPVC                                                         *)
(***************************************************************************)
(* The claims the volumes of the listed pods name; a variant that collects    *)
(* the pods, and one that takes every claim for mounted.                      *)
PodsThemselves(up) == up
EveryClaim(up) == Claims
MountedBy(up) ==
    {o \in Claims : o[1] = "VolumeClaim" /\ <<"StatefulSet", o[2]>> \in up}

ListOrphanPods ==
    LET up == {w \in Workloads : ViewPod(w) # NoPod}
    IN  /\ pc = "orphanPods"
        /\ pc' = IF \A w \in up : ViewPod(w).st = "running"
                 THEN "orphanClaims" ELSE "prune"
        /\ mounted' = MountedBy(up)
        /\ UNCHANGED <<clusterVars, m, todo, node, names, listed, pruneLeft, survivors>>

ListOrphanClaims ==
    /\ pc = "orphanClaims"
    /\ listed' = {o \in Claims : View(o) # None} \ mounted
    /\ pc' = "orphanDelete"
    /\ UNCHANGED <<clusterVars, m, todo, node, names, mounted, pruneLeft, survivors>>

(* A delete of something already gone ends the clean-up but not the pass.     *)
DeleteOrphan(o) ==
    /\ pc = "orphanDelete" /\ o \in listed
    /\ IF store[o] # None
       THEN DeleteObjects({o}) /\ listed' = listed \ {o}
       ELSE UNCHANGED storeVars /\ listed' = {}
    /\ UNCHANGED <<cr, pods, ns, faults, cacheVars,
                   pc, m, todo, node, names, mounted, pruneLeft, survivors>>

EndOrphans ==
    /\ pc = "orphanDelete" /\ listed = {}
    /\ pc' = "prune"
    /\ UNCHANGED <<clusterVars, m, passVars>>

(* A list or a delete fails: that is logged, and the pass goes on.            *)
OrphansFail ==
    /\ pc \in {"orphanPods", "orphanClaims", "orphanDelete"}
    /\ faults < MaxFaults /\ faults' = faults + 1
    /\ pc' = "prune" /\ listed' = {}
    /\ UNCHANGED <<cr, storeVars, pods, ns, cacheVars,
                   m, todo, node, names, mounted, pruneLeft, survivors>>

(***************************************************************************)
(* deleteUnusedResources and the status                                    *)
(***************************************************************************)
OfKind(k) == {o \in Objects : o[1] = k /\ View(o) # None}

(* What the pass has not named; a variant whose names map is made anew for    *)
(* every node.                                                                *)
UnusedByLastNode(k) == OfKind(k) \ {o \in names : o[2] = node}
Unused(k) == OfKind(k) \ names

(* The survivors are what is named and what could not be deleted; a variant   *)
(* that records only the latter.                                              *)
Undeletable(k, gone) == {o[2] : o \in Unused(k) \ gone}
Survivors(k, gone) == {o[2] : o \in OfKind(k) \ gone}

Prune(k, gone, kept) ==
    /\ pc = "prune" /\ k \in pruneLeft
    /\ \A j \in pruneLeft : PruneRank(k) <= PruneRank(j)
    /\ DeleteObjects(gone)
    /\ survivors' = [survivors EXCEPT ![k] = kept]
    /\ pruneLeft' = pruneLeft \ {k}
    /\ pc' = IF pruneLeft = {k} THEN "status" ELSE "prune"
    /\ UNCHANGED <<cr, pods, ns, cacheVars, m, todo, node, names, listed, mounted>>

(* What the pass has not named is deleted; an object whose delete fails, for  *)
(* instance because it is gone already, counts as a survivor.                 *)
PruneKind(k) ==
    LET gone == {o \in Unused(k) : store[o] # None}
    IN  Prune(k, gone, Survivors(k, gone)) /\ UNCHANGED faults

(* Some deletes fail, or the list call does: then no survivor is recorded.    *)
PruneFault(k) ==
    /\ faults < MaxFaults /\ faults' = faults + 1
    /\ \/ Prune(k, {}, {})
       \/ \E gone \in SUBSET {o \in Unused(k) : store[o] # None} :
            Prune(k, gone, Survivors(k, gone))

(* The status goes out as a JSON merge patch of a struct whose lists are all  *)
(* omitempty: a list that has become empty is left out of the patch.          *)
PatchStatus ==
    /\ pc = "status"
    /\ LET differs == survivors # m.status \/ \E k \in PrunedKinds : survivors[k] = {}
           merged == [k \in PrunedKinds |->
                        IF survivors[k] = {} THEN cr.status[k] ELSE survivors[k]]
       IN  cr' = IF differs /\ cr.life # "absent"
                 THEN [cr EXCEPT !.status = merged] ELSE cr
    /\ EndPass
    /\ UNCHANGED <<storeVars, pods, ns, faults, cacheVars>>

(***************************************************************************)
(* Failures                                                                *)
(***************************************************************************)
(* A request fails whose error the pass returns, or the operator crashes:     *)
(* either way the next pass starts from the CR.                               *)
PassCut ==
    /\ pc # "idle" /\ faults < MaxFaults
    /\ faults' = faults + 1
    /\ EndPass
    /\ UNCHANGED <<cr, storeVars, pods, ns, cacheVars>>

(* A write takes effect but its answer is lost.                               *)
AnswerLost(o) ==
    /\ pc = "node" /\ Due(o) /\ faults < MaxFaults
    /\ Outcome(o, Hash(m, o)) \in {"created", "updated"}
    /\ PutObject(o, Hash(m, o))
    /\ faults' = faults + 1
    /\ EndPass
    /\ UNCHANGED <<cr, pods, ns, cacheVars>>

(***************************************************************************)
(* The specification                                                       *)
(***************************************************************************)
OperatorStep ==
    \/ StartReconcile \/ ReconcileCommon \/ AddFinalizer \/ SkipFinalizer
    \/ ListClaims \/ ListSts \/ RemoveFinalizer
    \/ CrashCheck \/ CrashCheckPanics \/ CheckRollout \/ EndNodes
    \/ ListOrphanPods \/ ListOrphanClaims \/ EndOrphans \/ PatchStatus
    \/ \E o \in Objects : \/ DeleteListed(o) \/ ReconcileObject(o)
                          \/ WriteRefused(o) \/ DeleteOrphan(o)
    \/ \E k \in PrunedKinds : PruneKind(k)

OperatorFault ==
    \/ PassCut \/ CrashCheckFails \/ OrphansFail
    \/ \E o \in Objects : AnswerLost(o)
    \/ \E k \in PrunedKinds : PruneFault(k)

Init ==
    /\ ClusterInit
    /\ pc = "idle" /\ m = cr
    /\ todo = {} /\ node = Common /\ names = {} /\ listed = {}
    /\ mounted = {} /\ pruneLeft = {} /\ survivors = NoStatusYet

Next ==
    \/ OperatorStep \/ OperatorFault
    \/ Environment /\ UNCHANGED operatorVars

Spec == Init /\ [][Next]_vars
=============================================================================
