---------------------------- MODULE VaultProofs ----------------------------
(* Proofs about the Vault bootstrap job: type correctness, and that it        *)
(* implements KeyCustody, for any number of pods, keys and faults.            *)
EXTENDS VaultBootstrap, TLAPS

(***************************************************************************)
(* Type correctness                                                        *)
(***************************************************************************)
LEMMA LeaderIsPod == VAULT_LEADER \in Pods
BY VaultAssumption DEF VAULT_LEADER, Pods

LEMMA JobEndsType ==
    ASSUME JobEnds
    PROVE  /\ pc' = "idle" /\ pod' \in Pods /\ left' \in 0..Keys
           /\ nodes' \subseteq Pods /\ sealSeen' \in BOOLEAN /\ file' = "none"
<1>1. 0 \in 0..Keys
  BY VaultAssumption
<1>. QED  BY <1>1, LeaderIsPod DEF JobEnds

LEMMA NextPodType ==
    ASSUME VaultTypeOK, NextPod
    PROVE  /\ pc' \in {"idle", "peers"} /\ pod' \in Pods /\ left' \in 0..Keys
           /\ nodes' \subseteq Pods /\ sealSeen' \in BOOLEAN
           /\ file' \in {file, "none"}
<1>1. CASE pod + 1 \in Pods
  BY <1>1 DEF NextPod, VaultTypeOK
<1>2. CASE pod + 1 \notin Pods
  BY <1>2, JobEndsType DEF NextPod
<1>. QED  BY <1>1, <1>2

VaultPart ==
    /\ initialized \in BOOLEAN /\ raft \in [Pods -> {"out", "joining", "in"}]
    /\ sealed \subseteq Pods /\ given \in [Pods -> SUBSET (1..Keys)]

(* A key that Vault takes leaves its state well typed and makes no cluster.   *)
LEMMA TakeKeyType ==
    ASSUME VaultPart, NEW p \in Pods, NEW k \in 1..Keys, TakeKey(p, k)
    PROVE  VaultPart' /\ initialized' = initialized
<1>1. CASE p \notin sealed \/ raft[p] = "out"
  BY <1>1 DEF TakeKey, VaultPart, vaultVars
<1>2. CASE ~(p \notin sealed \/ raft[p] = "out")
  <2>1. CASE Cardinality(given[p] \cup {k}) < Threshold
    BY <1>2, <2>1 DEF TakeKey, VaultPart
  <2>2. CASE ~(Cardinality(given[p] \cup {k}) < Threshold)
    <3>1. given' = [given EXCEPT ![p] = {}] /\ initialized' = initialized
      BY <1>2, <2>2 DEF TakeKey
    <3>2. CASE raft[p] = "in" \/ Active
      <4>1. sealed' = sealed \ {p} /\ raft' = [raft EXCEPT ![p] = "in"]
        BY <1>2, <2>2, <3>2 DEF TakeKey
      <4>. QED  BY <3>1, <4>1 DEF VaultPart
    <3>3. CASE ~(raft[p] = "in" \/ Active)
      <4>1. UNCHANGED <<sealed, raft>>
        BY <1>2, <2>2, <3>3 DEF TakeKey
      <4>. QED  BY <3>1, <4>1 DEF VaultPart
    <3>. QED  BY <3>2, <3>3
  <2>. QED  BY <2>1, <2>2
<1>. QED  BY <1>1, <1>2

LEMMA TakeJoinType ==
    ASSUME VaultPart, NEW p \in Pods, TakeJoin(p)
    PROVE  VaultPart' /\ initialized' = initialized
BY DEF TakeJoin, VaultPart

LEMMA TakeInitType ==
    ASSUME VaultPart, TakeInit
    PROVE  VaultPart' /\ initialized' = TRUE
BY LeaderIsPod DEF TakeInit, VaultPart

LEMMA AnswersType ==
    ASSUME faults \in 0..MaxFaults, NEW ok \in BOOLEAN, Answers(ok)
    PROVE  faults' \in 0..MaxFaults
BY VaultAssumption DEF Answers

(* Every action of the script and every fault keeps the types.                *)
THEOREM VaultTypeCorrect == Spec => []VaultTypeOK
<1>1. Init => VaultTypeOK
  <2>1. 0 \in 0..Keys /\ 0 \in 0..MaxFaults
    BY VaultAssumption
  <2>. QED  BY <2>1, LeaderIsPod DEF Init, VaultTypeOK, Contents, Steps
<1>2. VaultTypeOK /\ [Next]_vars => VaultTypeOK'
  <2>. SUFFICES ASSUME VaultTypeOK, [Next]_vars PROVE VaultTypeOK'
    OBVIOUS
  <2>0. VaultPart /\ faults \in 0..MaxFaults /\ Keys \in Nat
    BY VaultAssumption DEF VaultTypeOK, VaultPart
  <2>v. ASSUME UNCHANGED vaultVars PROVE VaultPart'
    BY <2>v, <2>0 DEF vaultVars, VaultPart
  <2>1. ASSUME NEW ok \in BOOLEAN, StartJob(ok) PROVE VaultTypeOK'
    BY <2>0, <2>1, AnswersType DEF StartJob, vaultVars, VaultTypeOK, Steps
  <2>2. CASE Unsealed
    BY <2>2, NextPodType DEF Unsealed, vaultVars, VaultTypeOK, Steps, Contents
  <2>3. ASSUME NEW ok \in BOOLEAN, ReadInitStatus(ok) PROVE VaultTypeOK'
    BY <2>0, <2>3, AnswersType DEF ReadInitStatus, vaultVars, VaultTypeOK, Steps
  <2>4. ASSUME NEW ok \in BOOLEAN, ReadLeaderSeal(ok) PROVE VaultTypeOK'
    BY <2>0, <2>4, AnswersType, NextPodType
       DEF ReadLeaderSeal, vaultVars, VaultTypeOK, Steps, Contents
  <2>5. ASSUME NEW ok \in BOOLEAN, vaultOperatorInit(ok) PROVE VaultTypeOK'
    <3>1. VaultPart'
      BY <2>0, <2>5, <2>v, TakeInitType DEF vaultOperatorInit
    <3>. QED
      BY <2>0, <2>5, <3>1, AnswersType
         DEF vaultOperatorInit, VaultPart, VaultTypeOK, Steps, Contents
  <2>6. ASSUME NEW ok \in BOOLEAN, createVaultK8SInitSecret(ok) PROVE VaultTypeOK'
    BY <2>0, <2>6, AnswersType DEF createVaultK8SInitSecret, vaultVars, VaultTypeOK, Steps
  <2>7. ASSUME NEW ok \in BOOLEAN, ReadKeys(ok) PROVE VaultTypeOK'
    BY <2>0, <2>7, AnswersType DEF ReadKeys, KeysRead, vaultVars, VaultTypeOK, Steps
  <2>8. ASSUME NEW ok \in BOOLEAN, Unseal(ok) PROVE VaultTypeOK'
    <3>1. left \in 1..Keys /\ left - 1 \in 0..Keys /\ pod \in Pods
      BY <2>0, <2>8 DEF Unseal, VaultTypeOK
    <3>2. VaultPart'
      BY <2>0, <2>8, <2>v, <3>1, TakeKeyType DEF Unseal
    <3>. QED
      BY <2>0, <2>8, <3>1, <3>2, AnswersType DEF Unseal, VaultPart, VaultTypeOK
  <2>9. ASSUME NEW ok \in BOOLEAN, ListPeers(ok) PROVE VaultTypeOK'
    <3>1. Members \subseteq Pods
      BY DEF Members
    <3>. QED
      BY <2>0, <2>9, <3>1, AnswersType DEF ListPeers, vaultVars, VaultTypeOK, Steps
  <2>10. ASSUME NEW ok \in BOOLEAN, ReadSeal(ok) PROVE VaultTypeOK'
    <3>1. SealStatus(ok, pod) \in BOOLEAN
      BY DEF SealStatus
    <3>2. CASE NextPod
      BY <2>0, <2>10, <3>2, AnswersType, NextPodType
         DEF ReadSeal, vaultVars, VaultTypeOK, Steps, Contents
    <3>3. CASE pc' \in {"join", "keys"} /\ sealSeen' = SealStatus(ok, pod)
                 /\ UNCHANGED <<file, pod, left, nodes>>
      BY <2>0, <2>10, <3>1, <3>3, AnswersType
         DEF ReadSeal, vaultVars, VaultTypeOK, Steps, Contents
    <3>. QED  BY <2>10, <3>2, <3>3 DEF ReadSeal
  <2>11. ASSUME NEW ok \in BOOLEAN, joinRaftLeader(ok) PROVE VaultTypeOK'
    <3>1. VaultPart'
      BY <2>0, <2>11, <2>v, TakeJoinType DEF joinRaftLeader, VaultTypeOK
    <3>. QED
      BY <2>0, <2>11, <3>1, AnswersType, NextPodType
         DEF joinRaftLeader, VaultPart, VaultTypeOK, Steps, Contents
  <2>12. CASE JobDies
    <3>1. faults' \in 0..MaxFaults
      BY <2>0, <2>12, VaultAssumption DEF JobDies
    <3>. QED
      BY <2>12, <3>1, JobEndsType DEF JobDies, vaultVars, VaultTypeOK, Steps, Contents
  <2>13. ASSUME NEW p \in Pods, PodRestarts(p) PROVE VaultTypeOK'
    <3>1. faults' \in 0..MaxFaults
      BY <2>0, <2>13, VaultAssumption DEF PodRestarts
    <3>. QED  BY <2>13, <3>1 DEF PodRestarts, jobVars, VaultTypeOK
  <2>14. CASE UNCHANGED vars
    BY <2>14 DEF vars, vaultVars, jobVars, VaultTypeOK
  <2>. QED
    BY <2>1, <2>2, <2>3, <2>4, <2>5, <2>6, <2>7, <2>8, <2>9, <2>10, <2>11, <2>12,
       <2>13, <2>14 DEF Next, Script
<1>. QED  BY <1>1, <1>2, PTL DEF Spec

(***************************************************************************)
(* The keys                                                                *)
(***************************************************************************)
(* Keys are only ever found where a cluster has been initialised; the script  *)
(* is about to initialise only what is not, and about to write the Secret     *)
(* only when the Secret does not hold the keys.                               *)
KeysInv ==
    /\ secret = "keys" \/ file = "keys" => initialized
    /\ pc = "init" => ~initialized
    /\ pc = "secret" => secret # "keys" /\ file # "none"

KeyStep == [Custody!Make \/ Custody!Store \/ Custody!Lose]_KeyState

(* A step that leaves the cluster and the Secret alone, and at most removes   *)
(* the file, moves no key or loses the ones in the file.                      *)
LEMMA KeysAtRest ==
    ASSUME KeysInv, UNCHANGED <<initialized, secret>>, file' \in {file, "none"},
           pc' = "init" => ~initialized, pc' # "secret"
    PROVE  KeysInv' /\ KeyStep
BY DEF KeysInv, KeyStep, KeyState, Custody!Make, Custody!Store, Custody!Lose

(* The script never initialises Vault a second time and never writes a Secret *)
(* that takes the place of the keys: it implements KeyCustody, so that keys   *)
(* once stored stay stored, whatever calls fail and whenever jobs die.        *)
THEOREM VaultKeepsKeys == Spec => KeysKept
<1>1. Init => KeysInv /\ Custody!KCInit
  BY DEF Init, KeysInv, KeyState, Custody!KCInit
<1>2. VaultTypeOK /\ KeysInv /\ [Next]_vars => KeysInv' /\ KeyStep
  <2>. SUFFICES ASSUME VaultTypeOK, KeysInv, [Next]_vars PROVE KeysInv' /\ KeyStep
    OBVIOUS
  <2>0. VaultPart /\ pod \in Pods
    BY DEF VaultTypeOK, VaultPart
  <2>v. ASSUME UNCHANGED vaultVars PROVE initialized' = initialized
    BY <2>v DEF vaultVars
  <2>1. ASSUME NEW ok \in BOOLEAN, StartJob(ok) PROVE KeysInv' /\ KeyStep
    BY <2>1, <2>v, KeysAtRest DEF StartJob
  <2>2. CASE Unsealed
    BY <2>2, <2>v, KeysAtRest, NextPodType DEF Unsealed
  <2>3. ASSUME NEW ok \in BOOLEAN, ReadInitStatus(ok) PROVE KeysInv' /\ KeyStep
    BY <2>3, <2>v, KeysAtRest DEF ReadInitStatus, InitStatus
  <2>4. ASSUME NEW ok \in BOOLEAN, ReadLeaderSeal(ok) PROVE KeysInv' /\ KeyStep
    BY <2>4, <2>v, KeysAtRest, NextPodType DEF ReadLeaderSeal
  <2>5. ASSUME NEW ok \in BOOLEAN, vaultOperatorInit(ok) PROVE KeysInv' /\ KeyStep
    <3>1. ~initialized /\ secret # "keys" /\ file # "keys" /\ secret' = secret
      BY <2>5 DEF vaultOperatorInit, KeysInv
    <3>2. pc' = "secret" /\ file' = (IF ok THEN "keys" ELSE "empty")
      BY <2>5, <3>1 DEF vaultOperatorInit
    <3>3. initialized' = TRUE \/ (~ok /\ initialized' = initialized)
      BY <2>5 DEF vaultOperatorInit, TakeInit, vaultVars
    <3>. QED
      BY <3>1, <3>2, <3>3
         DEF KeysInv, KeyStep, KeyState, Custody!Make, Custody!Store, Custody!Lose
  <2>6. ASSUME NEW ok \in BOOLEAN, createVaultK8SInitSecret(ok)
        PROVE  KeysInv' /\ KeyStep
    <3>1. secret # "keys" /\ secret' \in {secret, file} /\ file' = file /\ pc' = "keys"
      BY <2>6 DEF createVaultK8SInitSecret, KeysInv
    <3>2. initialized' = initialized
      BY <2>6, <2>v DEF createVaultK8SInitSecret
    <3>. QED
      BY <3>1, <3>2
         DEF KeysInv, KeyStep, KeyState, Custody!Make, Custody!Store, Custody!Lose
  <2>7. ASSUME NEW ok \in BOOLEAN, ReadKeys(ok) PROVE KeysInv' /\ KeyStep
    BY <2>7, <2>v, KeysAtRest DEF ReadKeys
  <2>8. ASSUME NEW ok \in BOOLEAN, Unseal(ok) PROVE KeysInv' /\ KeyStep
    <3>1. left \in 1..Keys /\ pc' = "unseal" /\ UNCHANGED <<secret, file>>
      BY <2>8, VaultAssumption DEF Unseal, VaultTypeOK
    <3>2. initialized' = initialized
      BY <2>0, <2>8, <2>v, <3>1, TakeKeyType DEF Unseal
    <3>. QED  BY <3>1, <3>2, KeysAtRest
  <2>9. ASSUME NEW ok \in BOOLEAN, ListPeers(ok) PROVE KeysInv' /\ KeyStep
    BY <2>9, <2>v, KeysAtRest DEF ListPeers
  <2>10. ASSUME NEW ok \in BOOLEAN, ReadSeal(ok) PROVE KeysInv' /\ KeyStep
    BY <2>10, <2>v, KeysAtRest, NextPodType DEF ReadSeal
  <2>11. ASSUME NEW ok \in BOOLEAN, joinRaftLeader(ok) PROVE KeysInv' /\ KeyStep
    <3>1. initialized' = initialized
      BY <2>0, <2>11, <2>v, TakeJoinType DEF joinRaftLeader
    <3>. QED  BY <2>11, <3>1, KeysAtRest, NextPodType DEF joinRaftLeader
  <2>12. CASE JobDies
    BY <2>12, <2>v, KeysAtRest, JobEndsType DEF JobDies
  <2>13. ASSUME NEW p \in Pods, PodRestarts(p) PROVE KeysInv' /\ KeyStep
    <3>1. UNCHANGED <<initialized, secret, file, pc>>
      BY <2>13 DEF PodRestarts, jobVars
    <3>. QED  BY <3>1 DEF KeysInv, KeyStep, KeyState
  <2>14. CASE UNCHANGED vars
    <3>1. UNCHANGED <<initialized, secret, file, pc>>
      BY <2>14 DEF vars, vaultVars, jobVars
    <3>. QED  BY <3>1 DEF KeysInv, KeyStep, KeyState
  <2>. QED
    BY <2>1, <2>2, <2>3, <2>4, <2>5, <2>6, <2>7, <2>8, <2>9, <2>10, <2>11, <2>12,
       <2>13, <2>14 DEF Next, Script
<1>. QED
  BY <1>1, <1>2, VaultTypeCorrect, PTL DEF Spec, KeysKept, KeyStep, Custody!KCSpec
=============================================================================
