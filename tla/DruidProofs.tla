----------------------------- MODULE DruidProofs ----------------------------
(* Proofs about DruidOperator for every value of its constants.               *)
EXTENDS DruidProperties, TLAPS

(***************************************************************************)
(* The kinds and the objects                                               *)
(***************************************************************************)
LEMMA KindFacts ==
    /\ WrittenKinds = {"ConfigMap", "Service", "StatefulSet", "Deployment",
                       "Ingress", "PodDisruptionBudget", "HPAutoScaler",
                       "PersistentVolumeClaim"}
    /\ PrunedKinds = {"StatefulSet", "Deployment", "HPAutoScaler", "Ingress",
                      "PodDisruptionBudget", "Service", "ConfigMap"}
BY DEF WrittenKinds, WriteOrder, PrunedKinds, PruneOrder

LEMMA ObjectFacts ==
    /\ CommonObject \in Objects /\ CommonObject \notin Workloads \cup Claims
    /\ \A o \in Objects : o[2] \in Nodes \cup {Common}
    /\ \A o \in Objects : o # CommonObject => o[2] \in Nodes
    /\ \A w \in Workloads : w[2] \in Nodes
    /\ \A n \in Claiming : <<"VolumeClaim", n>> \in Claims
    /\ \A o \in Objects : o[1] = "VolumeClaim" => o \in Claims
    /\ Kinds \X Nodes \subseteq Objects
    /\ Workloads \subseteq Objects /\ Claims \subseteq Objects
BY ClusterAssumption, KindFacts
   DEF Objects, CommonObject, Workloads, Claims, WorkloadKinds, ClaimKinds

(* What edits and deletions make of the CR is a CR.                           *)
LEMMA CrUpdates ==
    ASSUME NEW c \in CrType
    PROVE  /\ c.gen + 1 \in Nat
           /\ \A s \in Specs, g \in Nat : [c EXCEPT !.spec = s, !.gen = g] \in CrType
           /\ \A l \in {"deleting", "absent"}, g \in Nat :
                 [c EXCEPT !.life = l, !.gen = g] \in CrType
           /\ \A l \in {"deleting", "absent"} : [c EXCEPT !.life = l] \in CrType
           /\ \A s \in Specs : NewCr(c.uid + 1, s) \in CrType
<1>1. c.gen \in Nat
  BY DEF CrType
<1>2. c.gen + 1 \in Nat
  BY <1>1
<1>3. \A s \in Specs : NewCr(c.uid + 1, s) \in CrType
  BY DEF NewCr, CrType
<1>. QED  BY <1>2, <1>3 DEF CrType

(* Every hash the operator writes for a CR with a spec of the user is a hash, *)
(* and so is its template.                                                    *)
LEMMA ContentType ==
    ASSUME NEW s \in Specs, NEW o \in Objects
    PROVE  Content(s, o) \in Hashes
<1>1. s \in SpecType
  BY ClusterAssumption
<1>2. s.common \in Nat /\ s.ver \in [Nodes -> Nat]
  BY <1>1 DEF SpecType
<1>3. o # CommonObject => s.ver[o[2]] \in Nat
  BY <1>2, ObjectFacts
<1>. QED
  BY <1>2, <1>3 DEF Content, CommonConfig, NodeObject, PodTemplate, Hashes

LEMMA HashType ==
    ASSUME NEW c \in CrType, NEW o \in Objects
    PROVE  Hash(c, o) \in Hashes
<1>1. c.spec \in Specs /\ c.uid \in Nat
  BY DEF CrType
<1>2. Content(c.spec, o) \in Hashes
  BY <1>1, ContentType
<1>. QED  BY <1>1, <1>2 DEF Hash, Hashes

LEMMA TemplateType ==
    ASSUME NEW h \in Hashes
    PROVE  Template(h) \in Hashes
BY DEF Template, Hashes

(***************************************************************************)
(* Type correctness                                                        *)
(***************************************************************************)
StoreTypeOK ==
    /\ store \in [Objects -> Hashes \cup {None}]
    /\ terminating \subseteq Claims
    /\ dirty \subseteq Objects
    /\ wl \in [Workloads -> StatusType]

(* A write keeps the objects of the API server well typed ...                 *)
LEMMA PutObjectType ==
    ASSUME StoreTypeOK, NEW o \in Objects, NEW h \in Hashes, PutObject(o, h)
    PROVE  StoreTypeOK'
<1>1. store' \in [Objects -> Hashes \cup {None}]
  BY DEF StoreTypeOK, PutObject
<1>2. dirty' \subseteq Objects /\ terminating' \subseteq Claims
  BY DEF StoreTypeOK, PutObject, Dirtied
<1>3. wl' \in [Workloads -> StatusType]
  BY TemplateType DEF StoreTypeOK, PutObject, Observed, StatusType
<1>. QED  BY <1>1, <1>2, <1>3 DEF StoreTypeOK

(* ... and so does deleting any set of objects.                               *)
LEMMA DeleteObjectsType ==
    ASSUME StoreTypeOK, NEW S \in SUBSET Objects, DeleteObjects(S)
    PROVE  StoreTypeOK'
<1>1. store' \in [Objects -> Hashes \cup {None}]
  BY DEF StoreTypeOK, DeleteObjects
<1>2. dirty' \subseteq Objects
  BY DEF StoreTypeOK, DeleteObjects, Dirtied
<1>3. terminating' \subseteq Claims
  BY ObjectFacts DEF StoreTypeOK, DeleteObjects, Mounted
<1>4. NoStatus \in StatusType
  BY DEF NoStatus, StatusType
<1>5. wl' \in [Workloads -> StatusType]
  BY <1>4 DEF StoreTypeOK, DeleteObjects
<1>. QED  BY <1>1, <1>2, <1>3, <1>5 DEF StoreTypeOK

LEMMA StoreUnchanged ==
    ASSUME StoreTypeOK, UNCHANGED storeVars
    PROVE  StoreTypeOK'
BY DEF StoreTypeOK, storeVars

ClusterRestOK ==
    /\ cr \in CrType /\ cachedCr \in CrType
    /\ cachedStore \in [Objects -> Hashes \cup {None}]
    /\ cachedWl \in [Workloads -> StatusType]
    /\ pods \in [Workloads -> PodType] /\ cachedPods \in [Workloads -> PodType]
    /\ ns \in {"active", "terminating"}
    /\ faults \in 0..MaxFaults

PassTypeOK ==
    /\ pc \in Steps /\ m \in CrType
    /\ todo \subseteq Objects /\ names \subseteq Objects
    /\ node \in Nodes \cup {Common}
    /\ listed \subseteq Objects /\ mounted \subseteq Claims
    /\ pruneLeft \subseteq PrunedKinds
    /\ survivors \in [PrunedKinds -> SUBSET (Nodes \cup {Common})]

LEMMA TypeSplit == TypeOK <=> StoreTypeOK /\ ClusterRestOK /\ PassTypeOK
BY DEF TypeOK, ClusterTypeOK, StoreTypeOK, ClusterRestOK, PassTypeOK

LEMMA PodValues ==
    /\ NoPod \in PodType
    /\ \A h \in Hashes \cup {None} : [rev |-> h, st |-> "starting"] \in PodType
BY DEF NoPod, PodType

(* One step of a workload controller.                                         *)
LEMMA ControllerType ==
    ASSUME StoreTypeOK, ClusterRestOK, NEW w \in Workloads,
           WorkloadController(w)
    PROVE  StoreTypeOK' /\ ClusterRestOK'
<1>0. StoreTypeOK /\ ClusterRestOK
  OBVIOUS
<1>s. ASSUME UNCHANGED <<cr, pods, ns, faults, cacheVars>>
      PROVE  ClusterRestOK'
  BY <1>0, <1>s DEF ClusterRestOK, cacheVars
<1>p. ASSUME UNCHANGED <<cr, ns, faults, cacheVars>>,
             pods' \in [Workloads -> PodType]
      PROVE  ClusterRestOK'
  BY <1>0, <1>p DEF ClusterRestOK, cacheVars
<1>d. ASSUME NEW o \in Objects, Dirtied({o})
      PROVE  dirty' \subseteq Objects
  BY <1>0, <1>d DEF Dirtied, StoreTypeOK
<1>w. w \in Objects
  BY ObjectFacts
<1>t. wl[w] \in StatusType /\ pods[w] \in PodType
  BY <1>0 DEF StoreTypeOK, ClusterRestOK
<1>1. CASE Observe(w)
  <2>1. store[w] \in Hashes
    BY <1>1, <1>0, <1>w DEF Observe, StoreTypeOK
  <2>2. Observed(w, store[w]) \in StatusType
    BY <1>t, <2>1, TemplateType DEF Observed, StatusType
  <2>3. StoreTypeOK'
    BY <1>1, <1>0, <1>d, <1>w, <2>2 DEF Observe, StoreTypeOK
  <2>. QED  BY <1>1, <1>s, <2>3 DEF Observe
<1>2. CASE ClaimVolume(w)
  <2>1. <<"VolumeClaim", w[2]>> \in Objects
    BY <1>2, ObjectFacts DEF ClaimVolume
  <2>2. [common |-> 0, node |-> 0, owner |-> 0] \in Hashes
    BY DEF Hashes
  <2>3. dirty' \subseteq Objects
    BY <1>2, <1>d, <2>1 DEF ClaimVolume
  <2>4. StoreTypeOK'
    BY <1>2, <1>0, <2>1, <2>2, <2>3 DEF ClaimVolume, StoreTypeOK
  <2>. QED  BY <1>2, <1>s, <2>4 DEF ClaimVolume
<1>3. CASE StartPod(w)
  <2>1. wl[w].upd \in Hashes \cup {None}
    BY <1>t DEF StatusType
  <2>2. pods' \in [Workloads -> PodType]
    BY <1>3, <1>0, <2>1, PodValues DEF StartPod, ClusterRestOK
  <2>. QED  BY <1>3, <1>0, <1>p, <2>2, StoreUnchanged DEF StartPod
<1>4. CASE PodComesUp(w)
  <2>1. pods' \in [Workloads -> PodType]
    BY <1>4, <1>0, <1>t DEF PodComesUp, ClusterRestOK, PodType
  <2>. QED  BY <1>4, <1>0, <1>p, <2>1, StoreUnchanged DEF PodComesUp
<1>5. CASE ReplacePod(w)
  <2>1. wl[w].upd \in Hashes \cup {None}
    BY <1>t DEF StatusType
  <2>2. pods' \in [Workloads -> PodType]
    BY <1>5, <1>0, <2>1, PodValues DEF ReplacePod, ClusterRestOK
  <2>. QED  BY <1>5, <1>0, <1>p, <2>2, StoreUnchanged DEF ReplacePod
<1>6. CASE CompleteRollout(w)
  <2>1. wl' \in [Workloads -> StatusType]
    BY <1>6, <1>0, <1>t DEF CompleteRollout, StoreTypeOK, StatusType
  <2>2. StoreTypeOK'
    BY <1>6, <1>0, <1>d, <1>w, <2>1 DEF CompleteRollout, StoreTypeOK
  <2>. QED  BY <1>6, <1>s, <2>2 DEF CompleteRollout
<1>7. CASE LoseReadiness(w)
  <2>1. wl' \in [Workloads -> StatusType]
    BY <1>7, <1>0, <1>t DEF LoseReadiness, StoreTypeOK, StatusType
  <2>2. StoreTypeOK'
    BY <1>7, <1>0, <1>d, <1>w, <2>1 DEF LoseReadiness, StoreTypeOK
  <2>. QED  BY <1>7, <1>s, <2>2 DEF LoseReadiness
<1>8. CASE ReapPod(w)
  <2>1. pods' \in [Workloads -> PodType]
    BY <1>8, <1>0, PodValues DEF ReapPod, ClusterRestOK
  <2>. QED  BY <1>8, <1>0, <1>p, <2>1, StoreUnchanged DEF ReapPod
<1>. QED  BY <1>1, <1>2, <1>3, <1>4, <1>5, <1>6, <1>7, <1>8 DEF WorkloadController

(* One step of anything around the operator.                                  *)
LEMMA EnvironmentType ==
    ASSUME StoreTypeOK, ClusterRestOK, Environment
    PROVE  StoreTypeOK' /\ ClusterRestOK'
<1>0. StoreTypeOK /\ ClusterRestOK
  OBVIOUS
<1>c. ASSUME cr' \in CrType, UNCHANGED <<storeVars, pods, faults, cacheVars>>,
             ns' \in {"active", "terminating"}
      PROVE  StoreTypeOK' /\ ClusterRestOK'
  <2>1. UNCHANGED storeVars /\ UNCHANGED <<pods, faults, cacheVars>>
    BY <1>c
  <2>2. ClusterRestOK'
    BY <1>0, <1>c, <2>1 DEF ClusterRestOK, cacheVars
  <2>. QED  BY <1>0, <2>1, <2>2, StoreUnchanged
<1>d. Deleted(cr) \in CrType
  BY <1>0, CrUpdates DEF ClusterRestOK, Deleted
<1>g. ASSUME NEW o \in Objects, DeleteObjects({o}),
             UNCHANGED <<cr, pods, ns, faults, cacheVars>>
      PROVE  StoreTypeOK' /\ ClusterRestOK'
  <2>1. StoreTypeOK'
    BY <1>0, <1>g, DeleteObjectsType
  <2>. QED  BY <1>0, <1>g, <2>1 DEF ClusterRestOK, cacheVars
<1>1. CASE User
  <2>1. CASE DeleteCr
    BY <2>1, <1>0, <1>c, <1>d DEF DeleteCr, ClusterRestOK
  <2>2. CASE DeleteNamespace
    <3>1. cr' \in CrType
      BY <2>2, <1>0, <1>d DEF DeleteNamespace, ClusterRestOK
    <3>. QED  BY <2>2, <3>1, <1>0, <1>c DEF DeleteNamespace, ClusterRestOK
  <2>3. ASSUME NEW s \in Specs, EditCr(s) PROVE StoreTypeOK' /\ ClusterRestOK'
    <3>1. cr' \in CrType
      BY <2>3, <1>0, CrUpdates DEF EditCr, ClusterRestOK
    <3>. QED  BY <2>3, <3>1, <1>0, <1>c DEF EditCr, ClusterRestOK
  <2>4. ASSUME NEW s \in Specs, Recreate(s) PROVE StoreTypeOK' /\ ClusterRestOK'
    <3>1. cr' \in CrType
      BY <2>4, <1>0, CrUpdates DEF Recreate, ClusterRestOK
    <3>. QED  BY <2>4, <3>1, <1>0, <1>c DEF Recreate, ClusterRestOK
  <2>. QED  BY <1>1, <2>1, <2>2, <2>3, <2>4 DEF User
<1>2. CASE SyncCr
  BY <1>2, <1>0, StoreUnchanged DEF SyncCr, ClusterRestOK
<1>3. CASE SyncPods
  BY <1>3, <1>0, StoreUnchanged DEF SyncPods, ClusterRestOK
<1>4. ASSUME NEW k \in WrittenKinds, SyncKind(k)
      PROVE  StoreTypeOK' /\ ClusterRestOK'
  <2>1. StoreTypeOK'
    BY <1>4, <1>0 DEF SyncKind, StoreTypeOK
  <2>2. cachedStore' \in [Objects -> Hashes \cup {None}]
    BY <1>4, <1>0 DEF SyncKind, StoreTypeOK, ClusterRestOK
  <2>3. cachedWl' \in [Workloads -> StatusType]
    BY <1>4, <1>0 DEF SyncKind, StoreTypeOK, ClusterRestOK
  <2>. QED  BY <1>4, <1>0, <2>1, <2>2, <2>3 DEF SyncKind, ClusterRestOK
<1>5. ASSUME NEW w \in Workloads, PodLost(w)
      PROVE  StoreTypeOK' /\ ClusterRestOK'
  <2>1. pods' \in [Workloads -> PodType]
    BY <1>5, <1>0, PodValues DEF PodLost, ClusterRestOK
  <2>2. faults' \in 0..MaxFaults
    BY <1>5, <1>0, ClusterAssumption DEF PodLost, ClusterRestOK
  <2>. QED  BY <1>5, <1>0, <2>1, <2>2, StoreUnchanged
            DEF PodLost, ClusterRestOK, cacheVars
<1>6. ASSUME NEW o \in Claims, ReapClaim(o)
      PROVE  StoreTypeOK' /\ ClusterRestOK'
  BY <1>6, <1>g, ObjectFacts DEF ReapClaim
<1>7. ASSUME NEW o \in Objects, CollectGarbage(o)
      PROVE  StoreTypeOK' /\ ClusterRestOK'
  BY <1>7, <1>g DEF CollectGarbage
<1>. QED
  BY <1>0, <1>1, <1>2, <1>3, <1>4, <1>5, <1>6, <1>7, ControllerType DEF Environment

(* A write of the operator.                                                   *)
LEMMA ApplyType ==
    ASSUME StoreTypeOK, NEW c \in CrType, NEW o \in Objects, Apply(o, Hash(c, o))
    PROVE  StoreTypeOK'
BY HashType, PutObjectType, StoreUnchanged DEF Apply

LEMMA ClearPassType ==
    ASSUME pc' \in Steps, m' \in CrType, ClearPass
    PROVE  PassTypeOK'
BY DEF ClearPass, PassTypeOK, NoStatusYet

LEMMA EndPassType ==
    ASSUME PassTypeOK, EndPass
    PROVE  PassTypeOK'
BY ClearPassType DEF EndPass, PassTypeOK, Steps

LEMMA RestUnchanged ==
    ASSUME ClusterRestOK, UNCHANGED <<cr, pods, ns, faults, cacheVars>>
    PROVE  ClusterRestOK'
BY DEF ClusterRestOK, cacheVars

LEMMA ClusterUnchanged ==
    ASSUME StoreTypeOK, ClusterRestOK, UNCHANGED clusterVars
    PROVE  StoreTypeOK' /\ ClusterRestOK'
BY StoreUnchanged, RestUnchanged DEF clusterVars

LEMMA StartNodesType ==
    ASSUME PassTypeOK, StartNodes, m' \in CrType
    PROVE  PassTypeOK'
<1>1. Planned(m.spec) \subseteq Objects
  BY ObjectFacts DEF Planned
<1>. QED  BY <1>1 DEF StartNodes, PassTypeOK, Steps

LEMMA SurvivorsType ==
    ASSUME NEW k, NEW gone
    PROVE  Survivors(k, gone) \in SUBSET (Nodes \cup {Common})
BY ObjectFacts DEF Survivors, OfKind

LEMMA PruneType ==
    ASSUME StoreTypeOK, PassTypeOK, NEW k \in PrunedKinds,
           NEW gone \in SUBSET Objects, NEW kept \in SUBSET (Nodes \cup {Common}),
           Prune(k, gone, kept)
    PROVE  StoreTypeOK' /\ PassTypeOK'
<1>1. StoreTypeOK'
  BY DeleteObjectsType DEF Prune
<1>3. survivors' \in [PrunedKinds -> SUBSET (Nodes \cup {Common})]
  BY DEF Prune, PassTypeOK
<1>4. pc' \in Steps /\ pruneLeft' \subseteq PrunedKinds
  BY DEF Prune, PassTypeOK, Steps
<1>5. PassTypeOK'
  BY <1>3, <1>4 DEF Prune, PassTypeOK
<1>. QED  BY <1>1, <1>5

(* One call of the reconcile pass.                                            *)
LEMMA OperatorType ==
    ASSUME StoreTypeOK, ClusterRestOK, PassTypeOK, OperatorStep
    PROVE  StoreTypeOK' /\ ClusterRestOK' /\ PassTypeOK'
<1>0. StoreTypeOK /\ ClusterRestOK /\ PassTypeOK
  OBVIOUS
<1>m. m \in CrType
  BY <1>0 DEF PassTypeOK
<1>1. CASE StartReconcile
  BY <1>1, <1>0, ClusterUnchanged
     DEF StartReconcile, PassTypeOK, passVars, ViewCr, ClusterRestOK, Steps
<1>2. CASE ReconcileCommon
  <2>1. StoreTypeOK'
    BY <1>2, <1>0, <1>m, ApplyType, ObjectFacts DEF ReconcileCommon
  <2>. QED  BY <1>2, <1>0, <2>1, RestUnchanged, ObjectFacts
            DEF ReconcileCommon, PassTypeOK, Steps
<1>3. CASE AddFinalizer
  <2>1. cr' \in CrType
    BY <1>3, <1>0 DEF AddFinalizer, ClusterRestOK, CrType
  <2>2. StoreTypeOK' /\ ClusterRestOK'
    BY <1>3, <1>0, <2>1, StoreUnchanged DEF AddFinalizer, ClusterRestOK, cacheVars
  <2>3. [m EXCEPT !.fin = TRUE] \in CrType
    BY <1>0 DEF PassTypeOK, CrType
  <2>. QED  BY <1>3, <1>0, <2>2, <2>3, StartNodesType, EndPassType DEF AddFinalizer
<1>4. CASE SkipFinalizer
  BY <1>4, <1>0, ClusterUnchanged, StartNodesType DEF SkipFinalizer, PassTypeOK
<1>5. CASE ListClaims \/ ListSts
  BY <1>5, <1>0, ClusterUnchanged, ObjectFacts
     DEF ListClaims, ListSts, PassTypeOK, Steps
<1>6. CASE RemoveFinalizer
  <2>1. cr' \in CrType
    BY <1>6, <1>0 DEF RemoveFinalizer, ClusterRestOK, CrType
  <2>. QED  BY <1>6, <1>0, <2>1, StoreUnchanged, EndPassType
            DEF RemoveFinalizer, ClusterRestOK, cacheVars
<1>7. CASE CrashCheck
  <2>1. pods' \in [Workloads -> PodType]
    BY <1>7, <1>0, PodValues DEF CrashCheck, ClusterRestOK
  <2>2. PassTypeOK'
    BY <1>7, <1>0 DEF CrashCheck, AfterCrashCheck, PassTypeOK, passVars, Steps
  <2>. QED  BY <1>7, <1>0, <2>1, <2>2, StoreUnchanged
            DEF CrashCheck, ClusterRestOK, cacheVars
<1>17. CASE CrashCheckPanics
  <2>1. pods' \in [Workloads -> PodType]
    BY <1>17, <1>0, PodValues DEF CrashCheckPanics, ClusterRestOK
  <2>. QED  BY <1>17, <1>0, <2>1, StoreUnchanged, EndPassType
            DEF CrashCheckPanics, ClusterRestOK, cacheVars
<1>8. CASE CheckRollout
  <2>1. CASE FullyDeployed(CurrentWorkload)
    BY <1>8, <2>1, <1>0, ClusterUnchanged
       DEF CheckRollout, PassTypeOK, passVars, Steps
  <2>2. CASE ~FullyDeployed(CurrentWorkload)
    BY <1>8, <2>2, <1>0, ClusterUnchanged, EndPassType DEF CheckRollout
  <2>. QED  BY <2>1, <2>2
<1>9. CASE EndNodes \/ ListOrphanPods \/ ListOrphanClaims
  <2>1. CASE EndNodes
    BY <2>1, <1>0, ClusterUnchanged DEF EndNodes, PassTypeOK, Steps
  <2>2. CASE ListOrphanPods
    BY <2>2, <1>0, ClusterUnchanged DEF ListOrphanPods, MountedBy, PassTypeOK, Steps
  <2>3. CASE ListOrphanClaims
    BY <2>3, <1>0, ClusterUnchanged, ObjectFacts
       DEF ListOrphanClaims, PassTypeOK, Steps
  <2>. QED  BY <1>9, <2>1, <2>2, <2>3
<1>10. CASE EndOrphans
  BY <1>10, <1>0, ClusterUnchanged DEF EndOrphans, PassTypeOK, passVars, Steps
<1>11. CASE PatchStatus
  <2>1. cr' \in CrType
    BY <1>11, <1>0 DEF PatchStatus, ClusterRestOK, PassTypeOK, CrType
  <2>. QED  BY <1>11, <1>0, <2>1, StoreUnchanged, EndPassType
            DEF PatchStatus, ClusterRestOK, cacheVars
<1>12. ASSUME NEW o \in Objects, DeleteListed(o)
       PROVE  StoreTypeOK' /\ ClusterRestOK' /\ PassTypeOK'
  <2>1. ClusterRestOK'
    BY <1>12, <1>0, RestUnchanged DEF DeleteListed
  <2>2. CASE store[o] # None
    <3>1. StoreTypeOK'
      BY <1>12, <1>0, <2>2, DeleteObjectsType DEF DeleteListed
    <3>. QED  BY <1>12, <1>0, <2>1, <2>2, <3>1 DEF DeleteListed, PassTypeOK
  <2>3. CASE store[o] = None
    BY <1>12, <1>0, <2>1, <2>3, StoreUnchanged, EndPassType DEF DeleteListed
  <2>. QED  BY <2>2, <2>3
<1>13. ASSUME NEW o \in Objects, ReconcileObject(o)
       PROVE  StoreTypeOK' /\ ClusterRestOK' /\ PassTypeOK'
  <2>1. StoreTypeOK'
    BY <1>13, <1>0, <1>m, ApplyType DEF ReconcileObject
  <2>2. ClusterRestOK'
    BY <1>13, <1>0, RestUnchanged DEF ReconcileObject
  <2>. DEFINE next == AfterWrite(o, Outcome(o, Hash(m, o)))
  <2>3. CASE next = "idle"
    BY <1>13, <1>0, <2>1, <2>2, <2>3, EndPassType DEF ReconcileObject
  <2>4. CASE next # "idle"
    <3>1. next \in Steps
      BY DEF AfterWrite, Steps
    <3>2. pc' = next /\ m' = m
      BY <1>13, <2>4 DEF ReconcileObject
    <3>3. todo' \subseteq Objects /\ names' \subseteq Objects /\ node' = o[2]
      BY <1>13, <1>0, <2>4 DEF ReconcileObject, PassTypeOK
    <3>4. UNCHANGED <<listed, mounted, pruneLeft, survivors>>
      BY <1>13, <2>4 DEF ReconcileObject
    <3>5. o[2] \in Nodes \cup {Common}
      BY ObjectFacts
    <3>. QED  BY <1>0, <2>1, <2>2, <3>1, <3>2, <3>3, <3>4, <3>5 DEF PassTypeOK
  <2>. QED  BY <2>3, <2>4
<1>14. ASSUME NEW o \in Objects, WriteRefused(o)
       PROVE  StoreTypeOK' /\ ClusterRestOK' /\ PassTypeOK'
  BY <1>14, <1>0, ClusterUnchanged, EndPassType DEF WriteRefused
<1>15. ASSUME NEW o \in Objects, DeleteOrphan(o)
       PROVE  StoreTypeOK' /\ ClusterRestOK' /\ PassTypeOK'
  <2>1. StoreTypeOK'
    BY <1>15, <1>0, StoreUnchanged, DeleteObjectsType DEF DeleteOrphan
  <2>. QED  BY <1>15, <1>0, <2>1, RestUnchanged DEF DeleteOrphan, PassTypeOK
<1>16. ASSUME NEW k \in PrunedKinds, PruneKind(k)
       PROVE  StoreTypeOK' /\ ClusterRestOK' /\ PassTypeOK'
  <2>. DEFINE gone == {o \in Unused(k) : store[o] # None}
  <2>1. Prune(k, gone, Survivors(k, gone)) /\ UNCHANGED faults
    BY <1>16 DEF PruneKind
  <2>2. gone \in SUBSET Objects
    BY DEF Unused, OfKind
  <2>. QED  BY <2>1, <2>2, <1>0, SurvivorsType, PruneType, RestUnchanged DEF Prune
<1>. QED
  BY <1>1, <1>2, <1>3, <1>4, <1>5, <1>6, <1>7, <1>8, <1>9, <1>10, <1>11, <1>12,
     <1>13, <1>14, <1>15, <1>16, <1>17
     DEF OperatorStep

(* A failed request, a lost answer, a crash of the operator.                  *)
LEMMA FaultType ==
    ASSUME StoreTypeOK, ClusterRestOK, PassTypeOK, OperatorFault
    PROVE  StoreTypeOK' /\ ClusterRestOK' /\ PassTypeOK'
<1>0. StoreTypeOK /\ ClusterRestOK /\ PassTypeOK
  OBVIOUS
<1>f. ASSUME faults < MaxFaults, faults' = faults + 1,
             UNCHANGED <<cr, pods, ns, cacheVars>>
      PROVE  ClusterRestOK'
  <2>1. faults' \in 0..MaxFaults
    BY <1>0, <1>f, ClusterAssumption DEF ClusterRestOK
  <2>. QED  BY <1>0, <1>f, <2>1 DEF ClusterRestOK, cacheVars
<1>1. CASE PassCut
  BY <1>1, <1>0, <1>f, StoreUnchanged, EndPassType DEF PassCut
<1>2. ASSUME NEW o \in Objects, AnswerLost(o)
      PROVE  StoreTypeOK' /\ ClusterRestOK' /\ PassTypeOK'
  <2>1. Hash(m, o) \in Hashes
    BY <1>0, HashType DEF PassTypeOK
  <2>2. StoreTypeOK'
    BY <1>2, <1>0, <2>1, PutObjectType DEF AnswerLost
  <2>. QED  BY <1>2, <1>0, <1>f, <2>2, EndPassType DEF AnswerLost
<1>3. ASSUME NEW k \in PrunedKinds, PruneFault(k)
      PROVE  StoreTypeOK' /\ ClusterRestOK' /\ PassTypeOK'
  <2>1. PICK gone \in SUBSET Objects, kept \in SUBSET (Nodes \cup {Common}) :
               Prune(k, gone, kept)
    <3>1. CASE Prune(k, {}, {})
      BY <3>1
    <3>2. CASE \E gone \in SUBSET {o \in Unused(k) : store[o] # None} :
                 Prune(k, gone, Survivors(k, gone))
      BY <3>2, SurvivorsType DEF Unused, OfKind
    <3>. QED  BY <1>3, <3>1, <3>2 DEF PruneFault
  <2>2. UNCHANGED <<cr, pods, ns, cacheVars>>
    BY <2>1 DEF Prune
  <2>. QED  BY <1>3, <1>0, <1>f, <2>1, <2>2, PruneType DEF PruneFault
<1>4. CASE CrashCheckFails
  <2>1. PICK gone \in SUBSET Doomed :
               pods' = [w \in Workloads |-> IF w \in gone THEN NoPod ELSE pods[w]]
    BY <1>4 DEF CrashCheckFails
  <2>2. pods' \in [Workloads -> PodType]
    BY <1>0, <2>1, PodValues DEF ClusterRestOK
  <2>3. faults' \in 0..MaxFaults
    BY <1>4, <1>0, ClusterAssumption DEF CrashCheckFails, ClusterRestOK
  <2>4. ClusterRestOK'
    BY <1>4, <1>0, <2>2, <2>3 DEF CrashCheckFails, ClusterRestOK, cacheVars
  <2>5. StoreTypeOK'
    BY <1>4, <1>0, StoreUnchanged DEF CrashCheckFails
  <2>. QED  BY <1>4, <1>0, <2>4, <2>5
            DEF CrashCheckFails, AfterCrashCheck, PassTypeOK, passVars, Steps
<1>5. CASE OrphansFail
  BY <1>5, <1>0, <1>f, StoreUnchanged DEF OrphansFail, PassTypeOK, Steps
<1>. QED  BY <1>1, <1>2, <1>3, <1>4, <1>5 DEF OperatorFault

LEMMA InitType == Init => TypeOK
<1>. SUFFICES ASSUME Init PROVE TypeOK
  OBVIOUS
<1>1. cr \in CrType
  BY DEF Init, ClusterInit, NewCr, CrType
<1>2. NoStatus \in StatusType
  BY DEF NoStatus, StatusType
<1>3. StoreTypeOK
  BY <1>2 DEF Init, ClusterInit, StoreTypeOK
<1>4. cachedCr \in CrType /\ cachedStore \in [Objects -> Hashes \cup {None}]
        /\ cachedWl \in [Workloads -> StatusType] /\ m \in CrType
  BY <1>1, <1>3 DEF Init, ClusterInit, StoreTypeOK
<1>5. ClusterRestOK
  BY <1>1, <1>4, PodValues, ClusterAssumption DEF Init, ClusterInit, ClusterRestOK
<1>6. PassTypeOK
  BY <1>4 DEF Init, PassTypeOK, NoStatusYet, Steps
<1>. QED  BY <1>3, <1>5, <1>6, TypeSplit

LEMMA NextType == TypeOK /\ [Next]_vars => TypeOK'
<1>. SUFFICES ASSUME StoreTypeOK, ClusterRestOK, PassTypeOK, [Next]_vars
              PROVE  StoreTypeOK' /\ ClusterRestOK' /\ PassTypeOK'
  BY TypeSplit DEF TypeOK, ClusterTypeOK, StoreTypeOK, ClusterRestOK, PassTypeOK
<1>1. CASE Environment /\ UNCHANGED operatorVars
  BY <1>1, EnvironmentType DEF operatorVars, passVars, PassTypeOK
<1>2. CASE UNCHANGED vars
  BY <1>2, ClusterUnchanged DEF vars, operatorVars, passVars, PassTypeOK
<1>. QED  BY <1>1, <1>2, OperatorType, FaultType DEF Next

(* Type correctness of the operator and of everything around it, for any      *)
(* nodes, specs, lags and bounds.                                             *)
THEOREM TypeCorrect == Spec => []TypeOK
BY InitType, NextType, PTL DEF Spec
=============================================================================
