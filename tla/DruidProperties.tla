--------------------------- MODULE DruidProperties --------------------------
(* What the druid operator should guarantee, stated over DruidOperator.       *)
EXTENDS DruidOperator

(***************************************************************************)
(* Type correctness                                                        *)
(***************************************************************************)
CrType ==
    [uid : Nat, life : {"present", "deleting", "absent"}, gen : Nat,
     spec : Specs, fin : BOOLEAN,
     status : [PrunedKinds -> SUBSET (Nodes \cup {Common})]]
StatusType ==
    [upd : Hashes \cup {None}, cur : Hashes \cup {None}, ready : BOOLEAN]
PodType ==
    [rev : Hashes \cup {None}, st : {"none", "starting", "running", "crashed"}]

ClusterTypeOK ==
    /\ cr \in CrType /\ cachedCr \in CrType
    /\ store \in [Objects -> Hashes \cup {None}]
    /\ cachedStore \in [Objects -> Hashes \cup {None}]
    /\ terminating \subseteq Claims
    /\ dirty \subseteq Objects
    /\ wl \in [Workloads -> StatusType] /\ cachedWl \in [Workloads -> StatusType]
    /\ pods \in [Workloads -> PodType] /\ cachedPods \in [Workloads -> PodType]
    /\ ns \in {"active", "terminating"}
    /\ faults \in 0..MaxFaults

(* Every variable of the cluster and of the reconcile pass keeps its type;    *)
(* in particular a pass only ever writes hashes of specs the user applied.    *)
TypeOK ==
    /\ ClusterTypeOK
    /\ pc \in Steps /\ m \in CrType
    /\ todo \subseteq Objects /\ names \subseteq Objects
    /\ node \in Nodes \cup {Common}
    /\ listed \subseteq Objects /\ mounted \subseteq Claims
    /\ pruneLeft \subseteq PrunedKinds
    /\ survivors \in [PrunedKinds -> SUBSET (Nodes \cup {Common})]

(***************************************************************************)
(* Rolling updates                                                         *)
(***************************************************************************)
RolledOut(w) ==
    store[w] # None /\ wl[w].upd = Template(store[w]) /\ wl[w].cur = wl[w].upd

Rollout == INSTANCE RolloutOrder WITH
    Nodes <- Workloads,
    Versions <- Hashes,
    Order <- [w \in Workloads |-> Rank(w[2])],
    want <- [w \in Workloads |->
                IF w \in Planned(m.spec) THEN Content(m.spec, w) ELSE None],
    have <- [w \in Workloads |->
                IF store[w] = None THEN None ELSE Template(store[w])],
    settled <- {w \in Workloads : RolledOut(w)}

(* With rollingDeploy, prompt controllers and workloads read as they are, it  *)
(* only moves a workload to a new version when the workloads of all earlier   *)
(* node types are on the version the pass wants and have finished rolling     *)
(* out, however edits, crashes and lost answers fall: it implements           *)
(* RolloutOrder.                                                              *)
RollsOutInOrder == Rollout!ROSpec

MidRollout(w) == store[w] # None /\ wl[w].cur # wl[w].upd

(* docs/upgrade.md: "each node is update one by one": in an upgrade, which is *)
(* one edit of the CR, no two workloads are ever in the middle of a rollout.  *)
(* A second edit may overtake the first: the rollout it finds under way runs  *)
(* its course while the next one starts with the first node type again.       *)
OneNodeAtATime ==
    cr.gen <= 2 =>
        \A v, w \in Workloads : MidRollout(v) /\ MidRollout(w) => v = w

(***************************************************************************)
(* Objects                                                                 *)
(***************************************************************************)
Wanted(s) == {CommonObject} \cup Planned(s)

Indispensable == {o \in Objects \ Claims : \A s \in Specs : o \in Wanted(s)}

OfTheCr(o) == store[o] # None /\ store[o].owner = cr.uid

(* However often the spec is edited, and wherever a pass is cut short, an     *)
(* object that every spec asks for and the CR owns is not deleted while the   *)
(* CR lives: the clean-up of one pass never takes what the node loop has not  *)
(* named yet, nor does the late finalizer of an earlier CR of that name.      *)
IndispensableStays ==
    [][\A o \in Indispensable :
         (cr.life = "present" /\ ns = "active" /\ OfTheCr(o))
            => store'[o] # None]_vars

(* While no spec disables it, the finalizer that will reclaim the claims is   *)
(* on the CR before the first workload is created for it.                     *)
FinalizerFirst ==
    (\A s \in Specs : ~s.noFinalizer) =>
        \A w \in Workloads : OfTheCr(w) => cr.fin \/ cr.life = "absent"

(* addOwnerRefToObject before addHashToObject: what a pass has gone over has  *)
(* the CR it read for owner, also where an earlier CR of that name left it,   *)
(* so that collecting the garbage of that one takes nothing the pass relies   *)
(* on.                                                                        *)
AdoptsWhatItNames ==
    \A o \in names : store[o] # None => store[o].owner = m.uid

(***************************************************************************)
(* Deletion                                                                *)
(***************************************************************************)
(* handler.go: "PVC must be deleted after sts termination has been executed": *)
(* the finalizer never deletes the claim of a StatefulSet that still exists.  *)
ClaimsAfterSts ==
    [][pc = "finalize" /\ ns = "active" =>
         \A n \in Claiming :
            LET c == <<"VolumeClaim", n>>
                kept == store[c] # None /\ c \notin terminating
            IN  kept /\ (store'[c] = None \/ c \in terminating')
                  => store[<<"StatefulSet", n>>] = None]_vars

(* getting_started.md: "after deletion of CR, any pvc's provisioned in sts    *)
(* shall be deleted": no claim outlives the CR, its StatefulSet and its pod,  *)
(* when nobody is left who would delete it.                                   *)
NoClaimLeaks ==
    \A n \in Claiming :
        LET c == <<"VolumeClaim", n>>  w == <<"StatefulSet", n>>
        IN  cr.life = "absent" /\ store[w] = None /\ pods[w] = NoPod
              => store[c] = None \/ c \in terminating

(***************************************************************************)
(* Liveness                                                                *)
(***************************************************************************)
(* The reconcile loop, the informers, the controllers and the garbage         *)
(* collector keep going; the user and the faults need not do anything.        *)
Fairness ==
    /\ WF_vars(OperatorStep)
    /\ WF_vars(SyncCr /\ UNCHANGED operatorVars)
    /\ WF_vars(SyncPods /\ UNCHANGED operatorVars)
    /\ \A k \in WrittenKinds : WF_vars(SyncKind(k) /\ UNCHANGED operatorVars)
    /\ \A w \in Workloads : WF_vars(WorkloadController(w) /\ UNCHANGED operatorVars)
    /\ WF_vars((\E o \in Claims : ReapClaim(o)) /\ UNCHANGED operatorVars)
    /\ WF_vars((\E o \in Objects : CollectGarbage(o)) /\ UNCHANGED operatorVars)

FairSpec == Spec /\ Fairness

(* The StatefulSet controller makes a claim and the pod that mounts it in one *)
(* go, while passes that delete orphaned claims are ten seconds apart: not    *)
(* every one of them falls between the two.                                   *)
SteadyPods ==
    \A n \in Claiming :
        SF_vars(StartPod(<<"StatefulSet", n>>) /\ UNCHANGED operatorVars)

SteadySpec == FairSpec /\ SteadyPods

Deployed(c) ==
    /\ \A o \in Wanted(c.spec) : store[o] = Hash(c, o)
    /\ \A o \in Objects \ (Claims \cup Wanted(c.spec)) : store[o] = None
    /\ \A w \in Workloads \cap Wanted(c.spec) :
         RolledOut(w) /\ pods[w] = [rev |-> Content(c.spec, w), st |-> "running"]

Healthy(s) ==
    /\ s.valid /\ ~s.ignored
    /\ \A w \in Workloads \cap Wanted(s) : Content(s, w) \notin Faulty \cup Rejected

(* Once the user and the faults are done, the cluster is what the last spec   *)
(* asks for and stays so, whatever happened before: edits in mid-pass, lost   *)
(* answers, conflicts on stale reads, crashes, a version whose pods crash, an *)
(* earlier CR of that name whose objects are still being collected.           *)
Converges ==
    <>[](cr.life = "present" /\ Healthy(cr.spec) => Deployed(cr))

(* ... and the status then names every object made from the spec.             *)
StatusCovers ==
    <>[](cr.life = "present" /\ Healthy(cr.spec) =>
            \A o \in Wanted(cr.spec) \ Claims : o[2] \in cr.status[o[1]])

(* With deleteOrphanPvc, the claim of a node that left the spec or became a   *)
(* Deployment goes too.                                                       *)
OrphansReclaimed ==
    <>[](cr.life = "present" /\ Healthy(cr.spec) /\ cr.spec.deleteOrphans =>
            \A n \in Claiming : "StatefulSet" \notin cr.spec.parts[n] =>
                store[<<"VolumeClaim", n>>] = None)

(* handler.go: "Finalizer shall be always executed": a CR marked for deletion *)
(* is eventually gone, unless the whole namespace goes.                       *)
DeletionCompletes ==
    cr.life = "deleting" ~> (cr.life = "absent" \/ ns = "terminating")
=============================================================================
