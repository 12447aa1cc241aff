--------------------------- MODULE DruidPassProofs --------------------------
(* What a reconcile pass knows while it runs, and what follows: an object     *)
(* every spec asks for is never deleted, no workload precedes the finalizer,  *)
(* and what a pass has named belongs to its CR.  Type correctness comes from  *)
(* DruidProofs.                                                               *)
EXTENDS DruidProofs

(***************************************************************************)
(* How the CR evolves                                                      *)
(***************************************************************************)
Guarded == cr.fin \/ cr.life = "absent"

(* A CR marked for deletion stays so, one that is gone stays gone, and the    *)
(* finalizer only goes with the CR, until another CR takes the name.          *)
CrEvolves ==
    /\ cr.uid <= cr'.uid
    /\ cr'.uid = cr.uid =>
         /\ cr.life = "absent" => cr'.life = "absent"
         /\ cr.life # "present" => cr'.life # "present"
         /\ Guarded => Guarded'

LEMMA CrSteps ==
    ASSUME TypeOK, [Next]_vars
    PROVE  CrEvolves
<1>0. cr \in CrType /\ m \in CrType
  BY TypeSplit DEF ClusterRestOK, PassTypeOK
<1>u. CASE UNCHANGED cr
  BY <1>0, <1>u DEF CrEvolves, Guarded, CrType
<1>c. CASE \E s \in Specs : Recreate(s)
  BY <1>0, <1>c DEF Recreate, NewCr, CrEvolves, CrType
<1>1. CASE \E s \in Specs : EditCr(s)
  BY <1>0, <1>1 DEF EditCr, CrEvolves, Guarded, CrType
<1>2. CASE cr.life = "present" /\ cr' = Deleted(cr)
  BY <1>0, <1>2 DEF Deleted, CrEvolves, Guarded, CrType
<1>3. CASE AddFinalizer
  BY <1>0, <1>3, <1>u DEF AddFinalizer, CrEvolves, Guarded, CrType
<1>4. CASE RemoveFinalizer
  BY <1>0, <1>4, <1>u DEF RemoveFinalizer, CrEvolves, Guarded, CrType
<1>5. CASE PatchStatus
  BY <1>0, <1>5, <1>u DEF PatchStatus, CrEvolves, Guarded, CrType
<1>6. CASE Environment
  <2>1. CASE User
    BY <2>1, <1>u, <1>c, <1>1, <1>2 DEF User, DeleteCr, DeleteNamespace
  <2>2. ASSUME NEW w \in Workloads, WorkloadController(w) PROVE UNCHANGED cr
    BY <2>2 DEF WorkloadController, Observe, ClaimVolume, StartPod, PodComesUp,
                ReplacePod, CompleteRollout, LoseReadiness, ReapPod
  <2>. QED
    BY <1>6, <2>1, <2>2, <1>u
       DEF Environment, SyncCr, SyncPods, SyncKind, PodLost, ReapClaim, CollectGarbage
<1>7. CASE OperatorFault
  <2>1. UNCHANGED cr
    BY <1>7 DEF OperatorFault, PassCut, CrashCheckFails, OrphansFail,
              AnswerLost, PruneFault, Prune
  <2>. QED  BY <2>1, <1>u
<1>8. CASE OperatorStep
  <2>1. ASSUME OperatorStep, ~AddFinalizer, ~RemoveFinalizer, ~PatchStatus
        PROVE  UNCHANGED cr
    BY <2>1 DEF OperatorStep, StartReconcile, ReconcileCommon, SkipFinalizer,
                ListClaims, ListSts, CrashCheck, CrashCheckPanics, CheckRollout, EndNodes,
                ListOrphanPods, ListOrphanClaims, EndOrphans, DeleteListed,
                ReconcileObject, WriteRefused, DeleteOrphan, PruneKind, Prune,
                clusterVars
  <2>. QED  BY <1>8, <2>1, <1>3, <1>4, <1>5, <1>u
<1>9. CASE UNCHANGED vars
  BY <1>9, <1>u DEF vars, clusterVars
<1>. QED  BY <1>6, <1>7, <1>8, <1>9 DEF Next

(***************************************************************************)
(* What a pass knows                                                       *)
(***************************************************************************)
NodePhase == {"node", "crash", "rollout", "crashAfter"}
CleanPhase == {"orphanPods", "orphanClaims", "orphanDelete", "prune", "status"}

(* The copies of the CR are never ahead of it, and the names a pass has       *)
(* gathered cover what it will not write any more.                            *)
CopyInv ==
    /\ m.uid <= ViewCr.uid /\ cachedCr.uid <= cr.uid
    /\ cachedCr.uid = cr.uid =>
         /\ cachedCr.life # "present" => cr.life # "present"
         /\ cachedCr.life = "absent" => cr.life = "absent"
         /\ cachedCr.fin => Guarded
    /\ m.uid = cr.uid =>
         /\ m.life # "present" => cr.life # "present"
         /\ m.fin => Guarded

(* No object, stored or cached, belongs to a CR the operator has not read     *)
(* yet, and what a cache shows belongs to no later CR than what is stored.    *)
OwnerInv ==
    /\ \A o \in Objects : store[o] # None => store[o].owner <= m.uid
    /\ \A o \in Objects : cachedStore[o] # None => cachedStore[o].owner <= m.uid
    /\ \A o \in Objects :
         o[1] # "VolumeClaim" /\ cachedStore[o] # None /\ store[o] # None
            => cachedStore[o].owner <= store[o].owner

PassInv ==
    /\ pc = "idle" => names = {}
    /\ \A o \in names \cup todo : o[1] # "VolumeClaim"
    /\ pc \in {"listSts", "finalize"} => m.life # "present"
    /\ pc \in {"finalizer"} \cup NodePhase \cup CleanPhase => CommonObject \in names
    /\ pc \in NodePhase => Planned(m.spec) \subseteq names \cup todo
    /\ pc \in CleanPhase => Planned(m.spec) \subseteq names
    /\ pc = "orphanDelete" => listed \subseteq Claims

(* A pass for the CR that found the finalizer disabled by no spec has seen it *)
(* on the CR.                                                                 *)
FinalizerInv ==
    (\A s \in Specs : ~s.noFinalizer) =>
        /\ pc \in NodePhase /\ m.uid = cr.uid => Guarded
        /\ \A w \in Workloads : OfTheCr(w) => Guarded

OperatorInv ==
    TypeOK /\ CopyInv /\ OwnerInv /\ PassInv /\ AdoptsWhatItNames /\ FinalizerInv

LEMMA InitInv == Init => OperatorInv
<1>. SUFFICES ASSUME Init PROVE OperatorInv
  OBVIOUS
<1>1. TypeOK
  BY InitType
<1>2. m = cr /\ cachedCr = cr /\ ViewCr = cr /\ cr.uid \in Nat
  BY <1>1 DEF Init, ClusterInit, ViewCr, TypeOK, ClusterTypeOK, CrType
<1>3. CopyInv
  BY <1>2 DEF Init, ClusterInit, NewCr, CopyInv
<1>4. OwnerInv /\ PassInv /\ AdoptsWhatItNames
  BY DEF Init, ClusterInit, OwnerInv, AdoptsWhatItNames, PassInv, NodePhase, CleanPhase
<1>5. FinalizerInv
  BY ObjectFacts DEF Init, ClusterInit, FinalizerInv, NodePhase, OfTheCr
<1>. QED  BY <1>1, <1>3, <1>4, <1>5 DEF OperatorInv

(* Between two calls of a pass its copy of the CR changes only by being read  *)
(* again or by taking the finalizer it has just added.                        *)
LEMMA CopyStep ==
    ASSUME OperatorInv, [Next]_vars
    PROVE  CopyInv'
<1>0. /\ CopyInv /\ CrEvolves /\ TypeOK
      /\ cr \in CrType /\ m \in CrType /\ cachedCr \in CrType
      /\ cr' \in CrType /\ m' \in CrType /\ cachedCr' \in CrType
  BY CrSteps, NextType DEF OperatorInv, TypeOK, ClusterTypeOK
<1>u. /\ cr.uid \in Nat /\ m.uid \in Nat /\ cachedCr.uid \in Nat
      /\ cr'.uid \in Nat /\ m'.uid \in Nat /\ cachedCr'.uid \in Nat
  BY <1>0 DEF CrType
<1>v. ViewCr \in {cr, cachedCr} /\ m.uid <= cr.uid
  BY <1>0, <1>u DEF CopyInv, ViewCr
<1>1. CASE UNCHANGED <<m, cachedCr>>
  BY <1>1, <1>0, <1>u DEF CopyInv, CrEvolves, Guarded, ViewCr
<1>2. CASE StartReconcile
  <2>1. UNCHANGED <<cr, cachedCr>> /\ m' = ViewCr /\ ViewCr' = ViewCr
    BY <1>2 DEF StartReconcile, ViewCr, clusterVars, cacheVars
  <2>. QED  BY <2>1, <1>0, <1>u, <1>v DEF CopyInv, Guarded
<1>3. CASE AddFinalizer
  <2>1. CASE cr' = [cr EXCEPT !.fin = TRUE] /\ m' = [m EXCEPT !.fin = TRUE] /\ m = cr
    <3>1. cr'.uid = cr.uid /\ cr'.life = cr.life /\ cr'.fin /\ m' = cr'
      BY <1>0, <2>1 DEF CrType
    <3>2. cachedCr' = cachedCr
      BY <1>3 DEF AddFinalizer, cacheVars
    <3>3. m'.uid <= ViewCr'.uid
      BY <1>0, <1>u, <2>1, <3>1, <3>2 DEF CopyInv, ViewCr
    <3>. QED  BY <1>0, <1>u, <2>1, <3>1, <3>2, <3>3 DEF CopyInv, Guarded
  <2>2. CASE m' = m
    BY <2>2, <1>3, <1>1 DEF AddFinalizer, cacheVars
  <2>. QED  BY <1>3, <2>1, <2>2 DEF AddFinalizer, EndPass
<1>4. CASE SyncCr /\ UNCHANGED operatorVars
  <2>1. cachedCr' = cr /\ cr' = cr /\ m' = m /\ ViewCr' = cr
    BY <1>4 DEF SyncCr, operatorVars, ViewCr
  <2>. QED  BY <2>1, <1>0, <1>u, <1>v DEF CopyInv, Guarded
<1>5. CASE Environment /\ UNCHANGED operatorVars /\ ~SyncCr
  <2>1. ASSUME NEW w \in Workloads, WorkloadController(w) PROVE UNCHANGED cachedCr
    BY <2>1 DEF WorkloadController, Observe, ClaimVolume, StartPod, PodComesUp,
                ReplacePod, CompleteRollout, LoseReadiness, ReapPod, cacheVars
  <2>2. CASE User
    BY <2>2, <1>5, <1>1
       DEF User, EditCr, Recreate, DeleteCr, DeleteNamespace, cacheVars, operatorVars
  <2>. QED
    BY <1>5, <2>1, <2>2, <1>1
       DEF Environment, SyncPods, SyncKind, PodLost, ReapClaim, CollectGarbage,
           cacheVars, operatorVars
<1>6. CASE OperatorFault
  BY <1>6, <1>1 DEF OperatorFault, PassCut, CrashCheckFails, OrphansFail,
              AnswerLost, PruneFault, Prune, EndPass, cacheVars
<1>7. CASE OperatorStep /\ ~StartReconcile /\ ~AddFinalizer
  <2>1. UNCHANGED <<m, cachedCr>>
    BY <1>7 DEF OperatorStep, ReconcileCommon, SkipFinalizer,
                ListClaims, ListSts, RemoveFinalizer, CrashCheck, CrashCheckPanics,
                CheckRollout, EndNodes,
                ListOrphanPods, ListOrphanClaims, EndOrphans, DeleteListed,
                ReconcileObject, WriteRefused, DeleteOrphan, PruneKind, Prune,
                PatchStatus, EndPass, clusterVars, cacheVars
  <2>. QED  BY <2>1, <1>1
<1>8. CASE UNCHANGED vars
  BY <1>8, <1>1 DEF vars, clusterVars, cacheVars, operatorVars
<1>. QED  BY <1>2, <1>3, <1>4, <1>5, <1>6, <1>7, <1>8 DEF Next

LEMMA EndPassInv ==
    ASSUME EndPass
    PROVE  PassInv'
BY DEF EndPass, ClearPass, PassInv, NodePhase, CleanPhase

LEMMA PassUnchanged ==
    ASSUME PassInv, UNCHANGED operatorVars
    PROVE  PassInv'
BY DEF PassInv, operatorVars, passVars, Planned

(* The operator writes no claim that a template makes.                        *)
LEMMA WrittenKindsOnly ==
    /\ CommonObject[1] # "VolumeClaim"
    /\ \A s : \A o \in Planned(s) : o[1] # "VolumeClaim"
BY ClusterAssumption, KindFacts DEF CommonObject, Planned

(* The names grow as the list of what is still to be written shrinks, and     *)
(* when the node loop ends nothing is left to name.                           *)
LEMMA PassStep ==
    ASSUME OperatorInv, OperatorStep
    PROVE  PassInv'
<1>0. PassInv /\ TypeOK /\ PassTypeOK
  BY TypeSplit DEF OperatorInv
<1>. USE DEF PassInv, NodePhase, CleanPhase
<1>1. CASE StartReconcile \/ ReconcileCommon
  <2>1. CASE StartReconcile
    BY <2>1, <1>0 DEF StartReconcile, passVars
  <2>2. CASE ReconcileCommon
    <3>1. pc' = "finalizer" /\ names' = {CommonObject} /\ todo' = todo /\ m' = m
      BY <2>2 DEF ReconcileCommon
    <3>. QED  BY <3>1, <1>0, WrittenKindsOnly
  <2>. QED  BY <1>1, <2>1, <2>2
<1>2. CASE AddFinalizer
  <2>1. CASE StartNodes /\ m' = [m EXCEPT !.fin = TRUE]
    <3>1. m'.spec = m.spec
      BY <2>1, <1>0 DEF PassTypeOK, CrType
    <3>. QED  BY <1>2, <2>1, <3>1, <1>0, WrittenKindsOnly
              DEF AddFinalizer, StartNodes, Planned
  <2>. QED  BY <1>2, <2>1, EndPassInv DEF AddFinalizer
<1>3. CASE SkipFinalizer
  BY <1>3, <1>0, WrittenKindsOnly DEF SkipFinalizer, StartNodes, Planned
<1>4. CASE ListClaims \/ ListSts
  BY <1>4, <1>0 DEF ListClaims, ListSts
<1>5. CASE RemoveFinalizer \/ PatchStatus \/ CrashCheckPanics
  BY <1>5, EndPassInv DEF RemoveFinalizer, PatchStatus, CrashCheckPanics
<1>6. CASE CrashCheck
  BY <1>6, <1>0 DEF CrashCheck, AfterCrashCheck, passVars, Planned
<1>7. CASE CheckRollout
  <2>1. CASE UNCHANGED <<m, passVars>> /\ pc' \in {"crashAfter", "node"}
    BY <1>7, <2>1, <1>0 DEF CheckRollout, passVars, Planned
  <2>. QED  BY <1>7, <2>1, EndPassInv DEF CheckRollout
<1>8. CASE EndNodes
  BY <1>8, <1>0 DEF EndNodes, Planned
<1>9. CASE ListOrphanPods
  BY <1>9, <1>0 DEF ListOrphanPods, Planned
<1>10. CASE ListOrphanClaims
  BY <1>10, <1>0 DEF ListOrphanClaims, Planned
<1>11. CASE EndOrphans
  BY <1>11, <1>0 DEF EndOrphans, passVars, Planned
<1>12. ASSUME NEW o \in Objects, DeleteListed(o) PROVE PassInv'
  <2>1. CASE store[o] # None
    BY <1>12, <2>1, <1>0 DEF DeleteListed
  <2>. QED  BY <1>12, <2>1, EndPassInv DEF DeleteListed
<1>13. ASSUME NEW o \in Objects, ReconcileObject(o) PROVE PassInv'
  <2>. DEFINE next == AfterWrite(o, Outcome(o, Hash(m, o)))
  <2>1. CASE next # "idle"
    <3>1. next \in NodePhase
      BY <2>1 DEF AfterWrite
    <3>2. pc' = next /\ m' = m
      BY <1>13, <2>1 DEF ReconcileObject
    <3>3. todo' = todo \ {o} /\ names' = names \cup {o}
      BY <1>13, <2>1 DEF ReconcileObject
    <3>4. /\ CommonObject \in names /\ Planned(m.spec) \subseteq names \cup todo
          /\ o \in todo
      BY <1>13, <1>0 DEF ReconcileObject, Due
    <3>. QED  BY <3>1, <3>2, <3>3, <3>4, <1>0 DEF Planned
  <2>. QED  BY <1>13, <2>1, EndPassInv DEF ReconcileObject
<1>14. ASSUME NEW o \in Objects, WriteRefused(o) PROVE PassInv'
  BY <1>14, EndPassInv DEF WriteRefused
<1>15. ASSUME NEW o \in Objects, DeleteOrphan(o) PROVE PassInv'
  BY <1>15, <1>0 DEF DeleteOrphan, Planned
<1>16. ASSUME NEW k \in PrunedKinds, PruneKind(k) PROVE PassInv'
  BY <1>16, <1>0 DEF PruneKind, Prune, Planned
<1>. QED
  BY <1>1, <1>2, <1>3, <1>4, <1>5, <1>6, <1>7, <1>8, <1>9, <1>10, <1>11, <1>12,
     <1>13, <1>14, <1>15, <1>16
     DEF OperatorStep

LEMMA PassInvStep ==
    ASSUME OperatorInv, [Next]_vars
    PROVE  PassInv'
<1>0. PassInv
  BY DEF OperatorInv
<1>1. CASE PassCut \/ \E o \in Objects : AnswerLost(o)
  BY <1>1, EndPassInv DEF PassCut, AnswerLost
<1>2. ASSUME NEW k \in PrunedKinds, PruneFault(k) PROVE PassInv'
  BY <1>2, <1>0 DEF PruneFault, Prune, PassInv, NodePhase, CleanPhase, Planned
<1>3. CASE Environment /\ UNCHANGED operatorVars
  BY <1>3, <1>0, PassUnchanged
<1>4. CASE UNCHANGED vars
  BY <1>4, <1>0, PassUnchanged DEF vars
<1>5. CASE CrashCheckFails
  BY <1>5, <1>0
     DEF CrashCheckFails, AfterCrashCheck, PassInv, NodePhase, CleanPhase, passVars,
         Planned
<1>6. CASE OrphansFail
  BY <1>6, <1>0 DEF OrphansFail, PassInv, NodePhase, CleanPhase, Planned
<1>. QED  BY <1>1, <1>2, <1>3, <1>4, <1>5, <1>6, PassStep DEF Next, OperatorFault

(* Whatever the step, an object keeps its content, is deleted, is a claim its *)
(* StatefulSet's controller makes, or is what the pass writes for its CR; a   *)
(* workload is only written in the node loop.                                 *)
LEMMA StoreSteps ==
    ASSUME OperatorInv, [Next]_vars, NEW o \in Objects
    PROVE  \/ store'[o] = store[o]
           \/ store'[o] = None
           \/ /\ o[1] = "VolumeClaim" /\ store'[o].owner = 0
              /\ UNCHANGED operatorVars
           \/ /\ store'[o] = Hash(m, o) /\ UNCHANGED <<m, cachedStore>>
              /\ pc = "node" \/ o = CommonObject
              /\ o[1] # "VolumeClaim"
<1>. DEFINE Stays == store'[o] \in {store[o], None}
            Made == o[1] = "VolumeClaim" /\ store'[o].owner = 0
            Written == /\ store'[o] = Hash(m, o) /\ UNCHANGED <<m, cachedStore>>
                       /\ pc = "node" \/ o = CommonObject
                       /\ o[1] # "VolumeClaim"
<1>0. StoreTypeOK /\ PassInv
  BY TypeSplit DEF OperatorInv
<1>1. ASSUME NEW S \in SUBSET Objects, DeleteObjects(S) PROVE Stays
  BY <1>1, <1>0 DEF DeleteObjects, StoreTypeOK
<1>2. ASSUME UNCHANGED storeVars PROVE Stays
  BY <1>2 DEF storeVars
<1>3. ASSUME NEW p \in Objects, PutObject(p, Hash(m, p)),
             UNCHANGED <<m, cachedStore>>,
             (pc = "node" /\ Due(p)) \/ p = CommonObject
      PROVE  Stays \/ Written
  <2>1. p[1] # "VolumeClaim"
    BY <1>0, <1>3, WrittenKindsOnly DEF PassInv, Due
  <2>. QED  BY <1>3, <1>0, <2>1 DEF PutObject, StoreTypeOK
<1>4. CASE Environment /\ UNCHANGED operatorVars
  <2>1. CASE \E v \in Workloads : WorkloadController(v)
    <3>1. PICK v \in Workloads : WorkloadController(v)
      BY <2>1
    <3>2. CASE ClaimVolume(v)
      <4>. DEFINE c == <<"VolumeClaim", v[2]>>
      <4>1. store' = [store EXCEPT ![c] = [common |-> 0, node |-> 0, owner |-> 0]]
        BY <3>2 DEF ClaimVolume
      <4>2. CASE o = c
        <5>1. store'[o] = [common |-> 0, node |-> 0, owner |-> 0]
          BY <4>1, <4>2, <1>0 DEF StoreTypeOK
        <5>. QED  BY <5>1, <4>2, <1>4
      <4>3. CASE o # c
        BY <4>1, <4>3, <1>0 DEF StoreTypeOK
      <4>. QED  BY <4>2, <4>3
    <3>. QED
      BY <3>1, <3>2, <1>2, <1>4
         DEF WorkloadController, Observe, StartPod, PodComesUp, ReplacePod,
             CompleteRollout, LoseReadiness, ReapPod
  <2>2. CASE \E p \in Objects : DeleteObjects({p})
    BY <2>2, <1>1
  <2>. QED
    BY <1>4, <2>1, <2>2, <1>2, ObjectFacts
       DEF Environment, User, EditCr, Recreate, DeleteCr, DeleteNamespace, SyncCr,
           SyncPods, SyncKind, PodLost, ReapClaim, CollectGarbage
<1>5. CASE \E k \in PrunedKinds : PruneKind(k) \/ PruneFault(k)
  <2>1. \E gone \in SUBSET Objects : DeleteObjects(gone)
    BY <1>5 DEF PruneKind, PruneFault, Prune, Unused, OfKind
  <2>. QED  BY <2>1, <1>1
<1>6. CASE ReconcileCommon
  BY <1>6, <1>2, <1>3, ObjectFacts DEF ReconcileCommon, Apply, cacheVars
<1>7. CASE \E p \in Objects : DeleteListed(p) \/ DeleteOrphan(p) \/ WriteRefused(p)
  <2>1. UNCHANGED storeVars \/ \E S \in SUBSET Objects : DeleteObjects(S)
    BY <1>7 DEF DeleteListed, DeleteOrphan, WriteRefused, clusterVars
  <2>. QED  BY <2>1, <1>1, <1>2
<1>8. CASE \E p \in Objects : ReconcileObject(p)
  <2>1. PICK p \in Objects : ReconcileObject(p)
    BY <1>8
  <2>2. UNCHANGED <<m, cachedStore>> /\ pc = "node" /\ Due(p)
    BY <2>1 DEF ReconcileObject, EndPass, cacheVars
  <2>. QED  BY <2>1, <2>2, <1>2, <1>3 DEF ReconcileObject, Apply
<1>9. CASE \E p \in Objects : AnswerLost(p)
  BY <1>9, <1>3 DEF AnswerLost, EndPass, cacheVars
<1>10. CASE UNCHANGED vars \/ PassCut \/ CrashCheckFails \/ OrphansFail
  BY <1>10, <1>2 DEF vars, clusterVars, PassCut, CrashCheckFails, OrphansFail
<1>11. CASE \/ StartReconcile \/ AddFinalizer \/ SkipFinalizer
            \/ ListClaims \/ ListSts \/ RemoveFinalizer
            \/ CrashCheck \/ CrashCheckPanics \/ CheckRollout \/ EndNodes
            \/ ListOrphanPods \/ ListOrphanClaims \/ EndOrphans \/ PatchStatus
  BY <1>11, <1>2
     DEF StartReconcile, AddFinalizer, SkipFinalizer, ListClaims, ListSts,
         RemoveFinalizer, CrashCheck, CrashCheckPanics, CheckRollout, EndNodes, ListOrphanPods,
         ListOrphanClaims, EndOrphans, PatchStatus, clusterVars
<1>. QED
  BY <1>4, <1>5, <1>6, <1>7, <1>8, <1>9, <1>10, <1>11
     DEF Next, OperatorStep, OperatorFault

(* A pass names nothing new but the object it goes over.                      *)
LEMMA NameSteps ==
    ASSUME OperatorInv, [Next]_vars, names' # {}
    PROVE  /\ m'.uid = m.uid
           /\ \/ names' = names
              \/ \E p \in Objects :
                   /\ names' \subseteq names \cup {p}
                   /\ p[1] # "VolumeClaim"
                   /\ Apply(p, Hash(m, p)) /\ Outcome(p, Hash(m, p)) # "error"
                   /\ UNCHANGED cachedStore
<1>0. PassInv /\ m \in CrType
  BY DEF OperatorInv, TypeOK
<1>1. CASE ReconcileCommon
  BY <1>1, ObjectFacts, WrittenKindsOnly DEF ReconcileCommon, cacheVars
<1>2. CASE \E p \in Objects : ReconcileObject(p)
  <2>1. PICK p \in Objects : ReconcileObject(p)
    BY <1>2
  <2>2. names' = names \cup {p} /\ m' = m /\ p[1] # "VolumeClaim"
    BY <2>1, <1>0 DEF ReconcileObject, EndPass, ClearPass, Due, PassInv
  <2>. QED  BY <2>1, <2>2 DEF ReconcileObject, cacheVars
<1>3. CASE AddFinalizer
  BY <1>3, <1>0 DEF AddFinalizer, StartNodes, EndPass, ClearPass, CrType
<1>4. CASE StartReconcile
  BY <1>4, <1>0 DEF StartReconcile, passVars, PassInv
<1>5. CASE OperatorFault
  BY <1>5 DEF OperatorFault, PassCut, CrashCheckFails, OrphansFail,
              AnswerLost, PruneFault, Prune, EndPass, ClearPass, passVars
<1>6. CASE UNCHANGED operatorVars
  BY <1>6 DEF operatorVars, passVars
<1>7. CASE OperatorStep /\ ~StartReconcile /\ ~ReconcileCommon /\ ~AddFinalizer
              /\ ~\E p \in Objects : ReconcileObject(p)
  BY <1>7
     DEF OperatorStep, SkipFinalizer, StartNodes, ListClaims, ListSts, RemoveFinalizer,
         CrashCheck, CrashCheckPanics, CheckRollout, EndNodes, ListOrphanPods,
         ListOrphanClaims, EndOrphans, DeleteListed, WriteRefused, DeleteOrphan,
         PruneKind, Prune, PatchStatus, EndPass, ClearPass, passVars
<1>. QED  BY <1>1, <1>2, <1>3, <1>4, <1>5, <1>6, <1>7 DEF Next, vars

(* The uid a hash carries is that of the CR it was made for.                  *)
LEMMA HashOwner ==
    ASSUME NEW c \in CrType, NEW o \in Objects
    PROVE  Hash(c, o).owner = c.uid /\ Hash(c, o) # None
<1>1. Content(c.spec, o) \in Hashes
  BY ContentType DEF CrType
<1>2. Hash(c, o) \in Hashes
  BY HashType
<1>. QED  BY <1>1, <1>2, ClusterAssumption DEF Hash, Hashes

LEMMA UidSteps ==
    ASSUME OperatorInv, [Next]_vars
    PROVE  /\ m.uid \in Nat /\ m'.uid \in Nat /\ m.uid <= m'.uid
           /\ pc # "idle" => m'.uid = m.uid
<1>0. m \in CrType /\ m' \in CrType /\ CopyInv
  BY NextType DEF OperatorInv, TypeOK
<1>1. m.uid \in Nat /\ m'.uid \in Nat
  BY <1>0 DEF CrType
<1>2. CASE StartReconcile
  BY <1>2, <1>1, <1>0 DEF StartReconcile, CopyInv
<1>3. CASE AddFinalizer
  BY <1>3, <1>1, <1>0 DEF AddFinalizer, EndPass, CrType
<1>4. CASE OperatorFault
  BY <1>4, <1>1 DEF OperatorFault, PassCut, CrashCheckFails, OrphansFail,
              AnswerLost, PruneFault, Prune, EndPass
<1>5. CASE UNCHANGED operatorVars
  BY <1>5, <1>1 DEF operatorVars
<1>6. CASE OperatorStep /\ ~StartReconcile /\ ~AddFinalizer
  <2>1. UNCHANGED m
    BY <1>6
       DEF OperatorStep, ReconcileCommon, SkipFinalizer, ListClaims, ListSts,
           RemoveFinalizer, CrashCheck, CrashCheckPanics, CheckRollout, EndNodes,
           ListOrphanPods, ListOrphanClaims, EndOrphans, DeleteListed,
           ReconcileObject, WriteRefused, DeleteOrphan, PruneKind, Prune,
           PatchStatus, EndPass
  <2>. QED  BY <2>1, <1>1
<1>. QED  BY <1>2, <1>3, <1>4, <1>5, <1>6 DEF Next, vars

(* A cache changes only by catching up with objects that stand still.         *)
LEMMA CacheSteps ==
    ASSUME OperatorInv, [Next]_vars, NEW o \in Objects
    PROVE  \/ cachedStore'[o] = cachedStore[o]
           \/ cachedStore'[o] = store[o] /\ UNCHANGED store
<1>1. ASSUME NEW k \in WrittenKinds, SyncKind(k)
      PROVE  \/ cachedStore'[o] = cachedStore[o]
             \/ cachedStore'[o] = store[o] /\ UNCHANGED store
  BY <1>1 DEF SyncKind
<1>2. CASE OperatorFault \/ UNCHANGED vars
  BY <1>2 DEF OperatorFault, PassCut, CrashCheckFails, OrphansFail,
              AnswerLost, PruneFault, Prune, vars, clusterVars, cacheVars
<1>3. CASE OperatorStep
  BY <1>3
     DEF OperatorStep, StartReconcile, ReconcileCommon, AddFinalizer, SkipFinalizer,
         ListClaims, ListSts, RemoveFinalizer, CrashCheck, CrashCheckPanics,
         CheckRollout, EndNodes, ListOrphanPods, ListOrphanClaims, EndOrphans,
         DeleteListed, ReconcileObject, WriteRefused, DeleteOrphan, PruneKind, Prune,
         PatchStatus, clusterVars, cacheVars
<1>4. CASE Environment
  <2>1. ASSUME NEW w \in Workloads, WorkloadController(w) PROVE UNCHANGED cachedStore
    BY <2>1 DEF WorkloadController, Observe, ClaimVolume, StartPod, PodComesUp,
                ReplacePod, CompleteRollout, LoseReadiness, ReapPod, cacheVars
  <2>. QED
    BY <1>4, <1>1, <2>1
       DEF Environment, User, EditCr, Recreate, DeleteCr, DeleteNamespace, SyncCr,
           SyncPods, PodLost, ReapClaim, CollectGarbage, cacheVars
<1>. QED  BY <1>1, <1>2, <1>3, <1>4 DEF Next

LEMMA OwnerStep ==
    ASSUME OperatorInv, [Next]_vars
    PROVE  OwnerInv'
<1>0. /\ OwnerInv /\ m \in CrType
      /\ store \in [Objects -> Hashes \cup {None}]
      /\ cachedStore \in [Objects -> Hashes \cup {None}]
      /\ store' \in [Objects -> Hashes \cup {None}]
      /\ cachedStore' \in [Objects -> Hashes \cup {None}]
  BY NextType DEF OperatorInv, TypeOK, ClusterTypeOK
<1>1. m.uid \in Nat /\ m'.uid \in Nat /\ m.uid <= m'.uid
  BY UidSteps
<1>2. ASSUME NEW o \in Objects
      PROVE  /\ store[o] # None => store[o].owner \in Nat
             /\ store'[o] # None => store'[o].owner \in Nat
             /\ cachedStore[o] # None => cachedStore[o].owner \in Nat
             /\ cachedStore'[o] # None => cachedStore'[o].owner \in Nat
  BY <1>0 DEF Hashes
<1>3. ASSUME NEW o \in Objects, store'[o] # None
      PROVE  store'[o].owner <= m'.uid
  BY <1>0, <1>1, <1>2, <1>3, StoreSteps, HashOwner DEF OwnerInv
<1>4. ASSUME NEW o \in Objects, cachedStore'[o] # None
      PROVE  cachedStore'[o].owner <= m'.uid
  BY <1>0, <1>1, <1>2, <1>4, CacheSteps DEF OwnerInv
<1>5. ASSUME NEW o \in Objects, o[1] # "VolumeClaim",
             cachedStore'[o] # None, store'[o] # None
      PROVE  cachedStore'[o].owner <= store'[o].owner
  <2>1. CASE store'[o] = store[o]
    BY <2>1, <1>0, <1>2, <1>5, CacheSteps DEF OwnerInv
  <2>2. CASE store'[o] = Hash(m, o) /\ UNCHANGED cachedStore
    BY <2>2, <1>0, <1>1, <1>2, <1>5, HashOwner DEF OwnerInv
  <2>. QED  BY <2>1, <2>2, <1>5, StoreSteps
<1>. QED  BY <1>3, <1>4, <1>5 DEF OwnerInv

(* Going over an object leaves it with the owner of the pass.                 *)
LEMMA Adopted ==
    ASSUME OperatorInv, NEW p \in Objects, p[1] # "VolumeClaim",
           Apply(p, Hash(m, p)), Outcome(p, Hash(m, p)) # "error",
           store'[p] # None
    PROVE  store'[p].owner = m.uid
<1>0. /\ OwnerInv /\ m \in CrType
      /\ store \in [Objects -> Hashes \cup {None}]
  BY DEF OperatorInv, TypeOK, ClusterTypeOK
<1>1. Hash(m, p).owner = m.uid /\ Hash(m, p) # None
  BY <1>0, HashOwner
<1>2. CASE Outcome(p, Hash(m, p)) \in {"created", "updated"}
  BY <1>2, <1>1, <1>0 DEF Apply, PutObject
<1>3. CASE Outcome(p, Hash(m, p)) = "same"
  <2>1. View(p) = Hash(m, p) /\ store'[p] = store[p]
    BY <1>3 DEF Outcome, Creating, Updating, Apply, storeVars
  <2>2. store[p].owner \in Nat /\ m.uid \in Nat
    BY <2>1, <1>0 DEF Hashes, CrType
  <2>. QED  BY <2>1, <2>2, <1>1, <1>0 DEF View, OwnerInv
<1>. QED  BY <1>2, <1>3 DEF Outcome, Creating, Updating

LEMMA AdoptStep ==
    ASSUME OperatorInv, [Next]_vars
    PROVE  AdoptsWhatItNames'
<1>. SUFFICES ASSUME NEW o \in names', store'[o] # None
              PROVE  store'[o].owner = m'.uid
  BY DEF AdoptsWhatItNames
<1>0. /\ AdoptsWhatItNames /\ PassInv /\ m \in CrType
      /\ names \subseteq Objects /\ names' \subseteq Objects
  BY NextType DEF OperatorInv, TypeOK
<1>1. m'.uid = m.uid
  BY NameSteps
<1>2. CASE o \in names
  BY <1>0, <1>1, <1>2, StoreSteps, HashOwner DEF AdoptsWhatItNames, PassInv
<1>3. CASE o \notin names
  BY <1>0, <1>1, <1>3, NameSteps, Adopted
<1>. QED  BY <1>2, <1>3

(* Unless a spec disables the finalizer, a pass enters its node loop only     *)
(* when it has seen the finalizer on the CR, has put it there, or has found   *)
(* the CR gone.                                                               *)
LEMMA LoopEntered ==
    ASSUME OperatorInv, [Next]_vars, \A s \in Specs : ~s.noFinalizer,
           pc \notin NodePhase, pc' \in NodePhase, m'.uid = cr'.uid
    PROVE  Guarded'
<1>0. /\ CopyInv /\ m.spec \in Specs
      /\ cr \in CrType /\ m \in CrType /\ cachedCr \in CrType
  BY TypeSplit DEF OperatorInv, PassTypeOK, CrType, ClusterRestOK
<1>u. cr.uid \in Nat /\ m.uid \in Nat /\ cachedCr.uid \in Nat
  BY <1>0 DEF CrType
<1>1. CASE SkipFinalizer
  <2>1. UNCHANGED <<cr, m>> /\ m.uid = cr.uid /\ ~LacksFinalizer
    BY <1>1, <1>0 DEF SkipFinalizer, clusterVars
  <2>2. ViewCr.uid = cr.uid
    BY <2>1, <1>0, <1>u DEF CopyInv, ViewCr
  <2>. QED  BY <2>1, <2>2, <1>0 DEF LacksFinalizer, CopyInv, ViewCr, Guarded
<1>2. CASE AddFinalizer
  BY <1>2, <1>0 DEF AddFinalizer, EndPass, NodePhase, Guarded, CrType
<1>. USE DEF NodePhase
<1>3. CASE OperatorFault
  BY <1>3 DEF OperatorFault, PassCut, CrashCheckFails, OrphansFail,
              AnswerLost, PruneFault, Prune, EndPass
<1>4. CASE (Environment /\ UNCHANGED operatorVars) \/ UNCHANGED vars
  BY <1>4 DEF operatorVars, vars
<1>5. CASE OperatorStep /\ ~SkipFinalizer /\ ~AddFinalizer
  BY <1>5 DEF OperatorStep, StartReconcile, ReconcileCommon,
              ListClaims, ListSts, RemoveFinalizer, CrashCheck, CrashCheckPanics,
              CheckRollout, EndNodes,
              ListOrphanPods, ListOrphanClaims, EndOrphans, DeleteListed,
              ReconcileObject, WriteRefused, DeleteOrphan, PruneKind, Prune,
              PatchStatus, EndPass, passVars
<1>. QED  BY <1>1, <1>2, <1>3, <1>4, <1>5 DEF Next

LEMMA FinalizerStep ==
    ASSUME OperatorInv, [Next]_vars
    PROVE  FinalizerInv'
<1>. SUFFICES ASSUME \A s \in Specs : ~s.noFinalizer
              PROVE  /\ pc' \in NodePhase /\ m'.uid = cr'.uid => Guarded'
                     /\ \A w \in Workloads : OfTheCr(w)' => Guarded'
  BY DEF FinalizerInv
<1>0. /\ FinalizerInv /\ CopyInv /\ OwnerInv /\ CrEvolves
      /\ cr \in CrType /\ m \in CrType /\ cachedCr \in CrType
      /\ cr' \in CrType /\ m' \in CrType
      /\ store \in [Objects -> Hashes \cup {None}]
  BY CrSteps, NextType DEF OperatorInv, TypeOK, ClusterTypeOK
<1>u. /\ cr.uid \in Nat /\ m.uid \in Nat /\ cachedCr.uid \in Nat
      /\ cr'.uid \in Nat /\ m'.uid \in Nat
      /\ m.uid <= cr.uid /\ m.uid <= m'.uid /\ cr.uid <= cr'.uid
  BY <1>0, UidSteps DEF CrType, CopyInv, ViewCr, CrEvolves
<1>1. ASSUME pc' \in NodePhase, m'.uid = cr'.uid PROVE Guarded'
  <2>1. CASE pc \notin NodePhase
    BY <2>1, <1>1, LoopEntered
  <2>2. CASE pc \in NodePhase
    <3>1. m'.uid = m.uid
      BY <2>2, UidSteps DEF NodePhase
    <3>. QED  BY <2>2, <3>1, <1>1, <1>0, <1>u DEF FinalizerInv, CrEvolves
  <2>. QED  BY <2>1, <2>2
<1>2. ASSUME NEW w \in Workloads, OfTheCr(w)' PROVE Guarded'
  <2>0. w \in Objects /\ w # CommonObject /\ w[1] # "VolumeClaim"
    BY ObjectFacts DEF Workloads, WorkloadKinds
  <2>1. CASE store'[w] = store[w]
    <3>1. store[w] # None /\ store[w].owner = cr'.uid
      BY <2>1, <1>2 DEF OfTheCr
    <3>2. cr'.uid = cr.uid
      BY <3>1, <1>0, <1>u, <2>0 DEF OwnerInv
    <3>. QED  BY <3>1, <3>2, <1>0 DEF OfTheCr, FinalizerInv, CrEvolves
  <2>2. CASE store'[w] = Hash(m, w) /\ pc = "node"
    <3>1. m.uid = cr'.uid
      BY <2>2, <2>0, <1>2, <1>0, HashOwner DEF OfTheCr
    <3>. QED  BY <3>1, <2>2, <1>u, <1>0 DEF FinalizerInv, CrEvolves, NodePhase
  <2>. QED  BY <2>0, <2>1, <2>2, <1>2, StoreSteps DEF OfTheCr
<1>. QED  BY <1>1, <1>2

LEMMA NextInv == OperatorInv /\ [Next]_vars => OperatorInv'
BY NextType, CopyStep, OwnerStep, PassInvStep, AdoptStep, FinalizerStep DEF OperatorInv

THEOREM OperatorInvariant == Spec => []OperatorInv
BY InitInv, NextInv, PTL DEF Spec

(***************************************************************************)
(* What follows                                                            *)
(***************************************************************************)
(* When no spec disables it, the finalizer that reclaims the claims is on the *)
(* CR before any workload exists, whatever the caches, faults and edits.      *)
THEOREM FinalizerComesFirst == Spec => []FinalizerFirst
<1>1. OperatorInv => FinalizerFirst
  BY DEF OperatorInv, FinalizerInv, FinalizerFirst, Guarded
<1>. QED  BY <1>1, OperatorInvariant, PTL

(* Whatever a pass has gone over belongs to the CR it read, whoever made it.  *)
THEOREM PassAdopts == Spec => []AdoptsWhatItNames
<1>1. OperatorInv => AdoptsWhatItNames
  BY DEF OperatorInv
<1>. QED  BY <1>1, OperatorInvariant, PTL

(* An object outside the claims that every spec asks for loses its place in   *)
(* the API server only when the CR or the namespace is on its way out.        *)
LEMMA IndispensableStep ==
    ASSUME OperatorInv, [Next]_vars, NEW o \in Indispensable,
           cr.life = "present", ns = "active", OfTheCr(o)
    PROVE  store'[o] # None
<1>0. /\ CopyInv /\ OwnerInv /\ PassInv /\ StoreTypeOK
      /\ cr \in CrType /\ m \in CrType /\ cachedCr \in CrType
      /\ store[o] # None /\ store[o].owner = cr.uid
      /\ o \in Objects /\ o \notin Claims /\ o \in Wanted(m.spec)
  BY TypeSplit DEF OperatorInv, PassTypeOK, TypeOK, ClusterTypeOK, CrType,
                   Indispensable, OfTheCr
<1>u. m.uid = cr.uid
  BY <1>0 DEF CopyInv, OwnerInv, ViewCr, CrType
<1>1. ASSUME NEW S \in SUBSET Objects, DeleteObjects(S), o \notin S
      PROVE  store'[o] # None
  BY <1>1, <1>0 DEF DeleteObjects
<1>2. ASSUME UNCHANGED store PROVE store'[o] # None
  BY <1>2, <1>0
<1>3. ASSUME NEW p \in Objects, NEW h \in Hashes, PutObject(p, h)
      PROVE  store'[o] # None
  BY <1>3, <1>0, ClusterAssumption DEF PutObject, StoreTypeOK
<1>4. ASSUME NEW p \in Objects, Apply(p, Hash(m, p)) PROVE store'[o] # None
  BY <1>4, <1>0, <1>2, <1>3, HashType DEF Apply, storeVars
<1>5. CASE Environment
  <2>1. CASE \E v \in Workloads : WorkloadController(v)
    <3>1. PICK v \in Workloads : WorkloadController(v)
      BY <2>1
    <3>2. CASE ClaimVolume(v)
      <4>1. <<"VolumeClaim", v[2]>> # o
        BY <3>2, <1>0, ObjectFacts DEF ClaimVolume
      <4>. QED  BY <3>2, <4>1, <1>0 DEF ClaimVolume, StoreTypeOK
    <3>. QED
      BY <3>1, <3>2, <1>2
         DEF WorkloadController, Observe, StartPod, PodComesUp, ReplacePod,
             CompleteRollout, LoseReadiness, ReapPod, storeVars
  <2>2. CASE \E p \in Claims : ReapClaim(p)
    BY <2>2, <1>0, <1>1, ObjectFacts DEF ReapClaim
  <2>3. CASE \E p \in Objects : CollectGarbage(p)
    BY <2>3, <1>0, <1>1 DEF CollectGarbage, Ownerless
  <2>. QED
    BY <1>5, <2>1, <2>2, <2>3, <1>2
       DEF Environment, User, EditCr, Recreate, DeleteCr, DeleteNamespace, SyncCr,
           SyncPods, SyncKind, PodLost, storeVars
<1>6. ASSUME NEW k \in PrunedKinds, PruneKind(k) \/ PruneFault(k)
      PROVE  store'[o] # None
  <2>1. PICK gone \in SUBSET Unused(k) : DeleteObjects(gone) /\ pc = "prune"
    BY <1>6 DEF PruneKind, PruneFault, Prune
  <2>2. o \in names
    BY <2>1, <1>0 DEF PassInv, CleanPhase, Wanted
  <2>. QED  BY <2>1, <2>2, <1>1 DEF Unused, OfKind
<1>7. ASSUME NEW p \in Objects, DeleteListed(p) PROVE store'[o] # None
  BY <1>7, <1>0, <1>u DEF DeleteListed, PassInv, CopyInv
<1>8. ASSUME NEW p \in Objects, DeleteOrphan(p) PROVE store'[o] # None
  <2>1. p \in Claims
    BY <1>8, <1>0 DEF DeleteOrphan, PassInv
  <2>. QED  BY <1>8, <2>1, <1>0, <1>1, <1>2 DEF DeleteOrphan, storeVars
<1>9. ASSUME NEW p \in Objects, ReconcileObject(p) PROVE store'[o] # None
  BY <1>9, <1>4 DEF ReconcileObject
<1>10. ASSUME NEW p \in Objects, AnswerLost(p) PROVE store'[o] # None
  BY <1>10, <1>0, <1>3, HashType DEF AnswerLost
<1>11. CASE ReconcileCommon
  BY <1>11, <1>4, ObjectFacts DEF ReconcileCommon
<1>12. CASE \/ UNCHANGED vars \/ PassCut \/ CrashCheckFails \/ OrphansFail
            \/ \E p \in Objects : WriteRefused(p)
  BY <1>12, <1>2
     DEF vars, clusterVars, storeVars, PassCut, CrashCheckFails, OrphansFail,
         WriteRefused
<1>13. CASE \/ StartReconcile \/ AddFinalizer \/ SkipFinalizer
            \/ ListClaims \/ ListSts \/ RemoveFinalizer
            \/ CrashCheck \/ CrashCheckPanics \/ CheckRollout \/ EndNodes
            \/ ListOrphanPods \/ ListOrphanClaims \/ EndOrphans \/ PatchStatus
  BY <1>13, <1>2
     DEF StartReconcile, AddFinalizer, SkipFinalizer, ListClaims, ListSts,
         RemoveFinalizer, CrashCheck, CrashCheckPanics, CheckRollout, EndNodes, ListOrphanPods,
         ListOrphanClaims, EndOrphans, PatchStatus, clusterVars, storeVars
<1>. QED
  BY <1>5, <1>6, <1>7, <1>8, <1>9, <1>10, <1>11, <1>12, <1>13
     DEF Next, OperatorStep, OperatorFault

(* No pass, however stale its reads and wherever it is cut, deletes an object *)
(* of the CR that every spec asks for while the CR lives, and neither does    *)
(* the garbage collector on behalf of an earlier CR of that name.             *)
THEOREM IndispensableIsKept == Spec => IndispensableStays
<1>1. OperatorInv /\ [Next]_vars =>
        [\A o \in Indispensable :
           (cr.life = "present" /\ ns = "active" /\ OfTheCr(o))
              => store'[o] # None]_vars
  BY IndispensableStep
<1>. QED  BY <1>1, OperatorInvariant, PTL DEF Spec, IndispensableStays
=============================================================================
