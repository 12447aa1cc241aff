--------------------------- MODULE VaultBootstrap --------------------------
(* The Vault bootstrap job: the script that a CronJob runs every two minutes, *)
(* never twice at a time, one action per kubectl call.  A call may fail, with *)
(* or without its effect; the script runs on, for it does not check.  The     *)
(* job's container may die at any call and any Vault pod may restart.         *)
(* The script uses NAMESPACE and assigns NAMESAPCE: it has the value that its *)
(* environment gives it, which is none in the CronJob of the repository.      *)
EXTENDS Integers, FiniteSets

CONSTANTS
    NAMESPACE,  \* what the job's environment says, "" for nothing
    Replicas,   \* pods of the StatefulSet; pod i is prod-vault-i
    Keys,       \* unseal keys that `vault operator init` makes
    Threshold,  \* how many of them unseal a pod
    MaxFaults   \* bound on failed calls, dead jobs and pod restarts

ASSUME VaultAssumption ==
    /\ Replicas \in Nat \ {0} /\ Keys \in Nat \ {0}
    /\ Threshold \in 1..Keys
    /\ MaxFaults \in Nat

Pods == 0..(Replicas - 1)
VAULT_LEADER == 0
Contents == {"none", "empty", "keys"}

VARIABLES
    initialized, \* does the leader's storage hold a cluster?
    raft,        \* is each pod out of it, joining, or in it?
    sealed,      \* the pods that are sealed
    given,       \* the keys a sealed pod has been given since it started
    secret,      \* the Secret vault-init
    faults,      \* faults so far
    pc,          \* the call the script makes next
    file,        \* /tmp/vault_init in the job's container
    pod,         \* the pod the script works on
    left,        \* the unseal keys the loop has still to give to it
    nodes,       \* RAFT_NODES
    sealSeen     \* VAULT_SEAL_STATUS

vaultVars == <<initialized, raft, sealed, given>>
jobVars == <<pc, file, pod, left, nodes, sealSeen>>
vars == <<vaultVars, secret, faults, jobVars>>

Steps == {"idle", "status", "leaderSeal", "init", "secret", "keys", "unseal",
          "peers", "seal", "join"}

(***************************************************************************)
(* What Vault does with the calls of the script                            *)
(***************************************************************************)
Members == {p \in Pods : raft[p] = "in"}

(* The cluster can answer and take new members: a majority of it is unsealed, *)
(* and so is the pod that the script talks to.                                *)
Active ==
    /\ VAULT_LEADER \notin sealed
    /\ 2 * Cardinality(Members \ sealed) > Cardinality(Members)

(* `vault operator unseal`: a key counts once; with enough of them a member   *)
(* unseals, and a joining pod does if the cluster can answer its challenge.   *)
TakeKey(p, k) ==
    IF p \notin sealed \/ raft[p] = "out" THEN UNCHANGED vaultVars
    ELSE IF Cardinality(given[p] \cup {k}) < Threshold
    THEN /\ given' = [given EXCEPT ![p] = @ \cup {k}]
         /\ UNCHANGED <<initialized, raft, sealed>>
    ELSE /\ given' = [given EXCEPT ![p] = {}]
         /\ IF raft[p] = "in" \/ Active
            THEN sealed' = sealed \ {p} /\ raft' = [raft EXCEPT ![p] = "in"]
            ELSE UNCHANGED <<raft, sealed>>
         /\ UNCHANGED initialized

(* `vault operator raft join`; the pod remembers the leader until it restarts *)
(* and is a member once it has been unsealed.                                 *)
TakeJoin(p) ==
    /\ raft' = IF raft[p] = "out" /\ Active
               THEN [raft EXCEPT ![p] = "joining"] ELSE raft
    /\ UNCHANGED <<initialized, sealed, given>>

(* `vault operator init` on the leader; it refuses a second time.             *)
TakeInit ==
    /\ initialized' = TRUE
    /\ raft' = [raft EXCEPT ![VAULT_LEADER] = "in"]
    /\ UNCHANGED <<sealed, given>>

PodRestarts(p) ==
    /\ faults < MaxFaults /\ faults' = faults + 1
    /\ sealed' = sealed \cup {p}
    /\ given' = [given EXCEPT ![p] = {}]
    /\ raft' = IF raft[p] = "joining" THEN [raft EXCEPT ![p] = "out"] ELSE raft
    /\ UNCHANGED <<initialized, secret, jobVars>>

(***************************************************************************)
(* Calls                                                                   *)
(***************************************************************************)
(* A call that answers, or one that fails.                                    *)
Answers(ok) ==
    IF ok THEN UNCHANGED faults ELSE faults < MaxFaults /\ faults' = faults + 1

(* The job's container is gone and its files with it.                         *)
JobEnds ==
    /\ pc' = "idle" /\ file' = "none" /\ pod' = VAULT_LEADER
    /\ left' = 0 /\ nodes' = {} /\ sealSeen' = FALSE

(* The loop over the followers goes on; a variant with one round too many.    *)
OneRoundMore ==
    IF pod < Replicas
    THEN pc' = "peers" /\ pod' = pod + 1 /\ UNCHANGED <<file, left, nodes, sealSeen>>
    ELSE JobEnds
NextPod ==
    IF pod + 1 \in Pods
    THEN pc' = "peers" /\ pod' = pod + 1 /\ UNCHANGED <<file, left, nodes, sealSeen>>
    ELSE JobEnds

(***************************************************************************)
(* The script                                                              *)
(***************************************************************************)
(* VAULT_PODS is empty when the replicas cannot be read: the call fails, or   *)
(* without a namespace takes "statefulsets" for one and asks for nothing.     *)
PodsFound(ok) == ok /\ NAMESPACE # ""

(* The CronJob starts the script, which counts the replicas.  Without pods it *)
(* has no leader, so that no status is read, no key given to anything and no  *)
(* follower visited: that run comes to nothing.                               *)
StartJob(ok) ==
    /\ pc = "idle" /\ Answers(ok)
    /\ pc' = IF PodsFound(ok) THEN "status" ELSE "idle"
    /\ UNCHANGED <<vaultVars, secret, file, pod, left, nodes, sealSeen>>

(* VAULT_INIT_STATUS is empty when the call fails, and `if` takes the branch  *)
(* of a command that succeeds; a variant that compares it with "true", and    *)
(* one that takes any answer for a yes.                                       *)
InitStatusIsTrue(ok) == ok /\ initialized
InitStatus(ok) == ~ok \/ initialized

ReadInitStatus(ok) ==
    /\ pc = "status" /\ Answers(ok)
    /\ pc' = IF InitStatus(ok) THEN "leaderSeal" ELSE "init"
    /\ UNCHANGED <<vaultVars, secret, file, pod, left, nodes, sealSeen>>

(* VAULT_SEAL_STATUS is treated alike.                                        *)
SealStatus(ok, p) == ~ok \/ p \in sealed

ReadLeaderSeal(ok) ==
    /\ pc = "leaderSeal" /\ Answers(ok)
    /\ IF SealStatus(ok, VAULT_LEADER)
       THEN pc' = "keys" /\ UNCHANGED <<file, pod, left, nodes, sealSeen>>
       ELSE NextPod
    /\ UNCHANGED <<vaultVars, secret>>

(* The redirection leaves an empty file when the call fails.                  *)
vaultOperatorInit(ok) ==
    /\ pc = "init" /\ Answers(ok)
    /\ \/ TakeInit
       \/ ~ok /\ UNCHANGED vaultVars
    /\ file' = IF ok /\ ~initialized THEN "keys" ELSE "empty"
    /\ pc' = "secret"
    /\ UNCHANGED <<secret, pod, left, nodes, sealSeen>>

(* A failed apply may have had its effect.                                    *)
createVaultK8SInitSecret(ok) ==
    /\ pc = "secret" /\ Answers(ok)
    /\ \/ secret' = file
       \/ ~ok /\ UNCHANGED secret
    /\ pc' = "keys"
    /\ UNCHANGED <<vaultVars, file, pod, left, nodes, sealSeen>>

(* unsealVault reads the keys and gives them to the pod one after another; a  *)
(* variant that stops after the first.                                        *)
FirstKeyOnly(ok) == IF ok /\ secret = "keys" THEN 1 ELSE 0
KeysRead(ok) == IF ok /\ secret = "keys" THEN Keys ELSE 0

ReadKeys(ok) ==
    /\ pc = "keys" /\ Answers(ok)
    /\ pc' = "unseal" /\ left' = KeysRead(ok)
    /\ UNCHANGED <<vaultVars, secret, file, pod, nodes, sealSeen>>

Unseal(ok) ==
    /\ pc = "unseal" /\ left > 0 /\ Answers(ok)
    /\ \/ TakeKey(pod, left)
       \/ ~ok /\ UNCHANGED vaultVars
    /\ left' = left - 1
    /\ UNCHANGED <<secret, pc, file, pod, nodes, sealSeen>>

Unsealed ==
    /\ pc = "unseal" /\ left = 0
    /\ NextPod
    /\ UNCHANGED <<vaultVars, secret, faults>>

(* The root token comes from the Secret and the list from the cluster; when   *)
(* either is missing RAFT_NODES is empty.                                     *)
ListPeers(ok) ==
    /\ pc = "peers" /\ Answers(ok)
    /\ nodes' = IF ok /\ secret = "keys" /\ Active THEN Members ELSE {}
    /\ pc' = "seal"
    /\ UNCHANGED <<vaultVars, secret, file, pod, left, sealSeen>>

(* The addresses are searched for the pod's name: prod-vault-1 is found in    *)
(* prod-vault-10 too.  (For up to 100 replicas.)                              *)
PartOfRaft(p) == \E q \in nodes : q = p \/ q \div 10 = p

ReadSeal(ok) ==
    /\ pc = "seal" /\ Answers(ok)
    /\ LET seal == SealStatus(ok, pod)
       IN  CASE ~PartOfRaft(pod) ->
                  pc' = "join" /\ sealSeen' = seal /\ UNCHANGED <<file, pod, left, nodes>>
             [] PartOfRaft(pod) /\ seal ->
                  pc' = "keys" /\ sealSeen' = seal /\ UNCHANGED <<file, pod, left, nodes>>
             [] OTHER -> NextPod
    /\ UNCHANGED <<vaultVars, secret>>

joinRaftLeader(ok) ==
    /\ pc = "join" /\ Answers(ok)
    /\ \/ TakeJoin(pod)
       \/ ~ok /\ UNCHANGED vaultVars
    /\ IF sealSeen
       THEN pc' = "keys" /\ UNCHANGED <<file, pod, left, nodes, sealSeen>>
       ELSE NextPod
    /\ UNCHANGED secret

JobDies ==
    /\ pc # "idle" /\ faults < MaxFaults /\ faults' = faults + 1
    /\ JobEnds
    /\ UNCHANGED <<vaultVars, secret>>

Script ==
    \/ Unsealed
    \/ \E ok \in BOOLEAN :
         \/ StartJob(ok) \/ ReadInitStatus(ok) \/ ReadLeaderSeal(ok)
         \/ vaultOperatorInit(ok) \/ createVaultK8SInitSecret(ok) \/ ReadKeys(ok) \/ Unseal(ok)
         \/ ListPeers(ok) \/ ReadSeal(ok) \/ joinRaftLeader(ok)

(* A fresh installation: every pod is sealed and no pod has any storage.      *)
Init ==
    /\ initialized = FALSE /\ secret = "none" /\ faults = 0
    /\ raft = [p \in Pods |-> "out"]
    /\ sealed = Pods /\ given = [p \in Pods |-> {}]
    /\ pc = "idle" /\ file = "none" /\ pod = VAULT_LEADER
    /\ left = 0 /\ nodes = {} /\ sealSeen = FALSE

Next == Script \/ JobDies \/ \E p \in Pods : PodRestarts(p)

Spec == Init /\ [][Next]_vars
FairSpec == Spec /\ WF_vars(Script)

(***************************************************************************)
(* Properties                                                              *)
(***************************************************************************)
(* The script's variables and Vault's state keep their types: the loop over   *)
(* the followers ends with the last pod, and only sealed pods count keys.     *)
VaultTypeOK ==
    /\ initialized \in BOOLEAN /\ raft \in [Pods -> {"out", "joining", "in"}]
    /\ sealed \subseteq Pods /\ given \in [Pods -> SUBSET (1..Keys)]
    /\ secret \in Contents /\ file \in Contents
    /\ faults \in 0..MaxFaults
    /\ pc \in Steps /\ pod \in Pods /\ left \in 0..Keys
    /\ nodes \subseteq Pods /\ sealSeen \in BOOLEAN

KeyState ==
    IF ~initialized THEN "unmade"
    ELSE IF secret = "keys" THEN "stored"
    ELSE IF file = "keys" THEN "held"
    ELSE "lost"

Custody == INSTANCE KeyCustody WITH custody <- KeyState

(* Whatever calls fail and whenever jobs die, the keys that are in the Secret *)
(* stay there: no run of the script initialises Vault a second time or        *)
(* replaces the Secret by what a failed call left.  They are lost only by the *)
(* run that made them.                                                        *)
KeysKept == Custody!KCSpec

(* Given a namespace and the keys in the Secret, every pod joins the cluster  *)
(* and is unsealed after the last fault, however many runs were cut short or  *)
(* saw a seal status or a list of peers that no longer held.                  *)
AllPodsServe ==
    <>[](NAMESPACE # "" /\ secret = "keys"
            => \A p \in Pods : p \notin sealed /\ raft[p] = "in")

=============================================================================
