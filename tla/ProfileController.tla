-------------------------- MODULE ProfileController -------------------------
(* The profile controller of Kubeflow Pipelines: metacontroller calls the     *)
(* sync hook with the objects it has seen in a profile's namespace and        *)
(* creates, updates and deletes objects until they are those of the answer.   *)
(* The hook is the repository's; metacontroller, the IAM API of SeaweedFS,    *)
(* the Deployment controller and the user surround it.                        *)
EXTENDS ProfileHooks

CONSTANTS
    Keys,       \* the access keys the IAM API can hand out
    InPlace,    \* the kinds metacontroller updates in place
    Batches,    \* the sets of kinds it writes one after the other
    MaxEdits,   \* bound on the user's edits: label, hook version
    MaxFaults   \* bound on lost answers, failed requests, stale reads

ASSUME ProfileAssumption ==
    /\ RootInEnv \in BOOLEAN
    /\ Keys \cap {"none", "minio"} = {}
    /\ UNION Batches = KindsKept
    /\ MaxEdits \in Nat /\ MaxFaults \in Nat

VARIABLES
    api,        \* the metacontroller resource the hook is registered with
    enabled,    \* the label pipelines.kubeflow.org/enabled
    hook,       \* the version of the hook that is deployed
    extras,     \* the objects of others in the namespace
    store,      \* what every object holds, None if it does not exist
    cached,     \* store as metacontroller's informers know it
    up,         \* Deployments whose pod runs
    status,     \* the readiness last reported
    iamKeys,    \* the access keys handed out
    policy,     \* has the user of the namespace its policy?
    pc, seen, seenEnabled, want, ready, left,   \* the sync in progress
    edits, faults

world == <<api, extras>>
user == <<enabled, hook, edits>>
iam == <<iamKeys, policy>>
request == <<seen, seenEnabled>>
answer == <<want, ready, left>>
vars == <<world, user, iam, request, answer, store, cached, up, status, pc, faults>>

Nothing == [o \in Objects |-> None]

(***************************************************************************)
(* One sync                                                                *)
(***************************************************************************)
(* The hook keeps nothing from one request to the next.                       *)
ClearSync ==
    /\ pc' = "idle" /\ seen' = Nothing /\ seenEnabled' = FALSE
    /\ want' = Nothing /\ ready' = "none" /\ left' = {}

Fault == faults < MaxFaults /\ faults' = faults + 1

(* The request carries what the informers know; a stale one is a fault.       *)
SendSync ==
    /\ pc = "idle"
    /\ pc' = "hook" /\ seen' = cached /\ seenEnabled' = enabled
    /\ IF cached = store THEN UNCHANGED faults ELSE Fault
    /\ UNCHANGED <<world, user, iam, answer, store, cached, up, status>>

(* Metacontroller looks for the list of the protocol it speaks.               *)
Respond(w, r) ==
    /\ pc' = "apply" /\ left' = Batches
    /\ want' = IF Hook(hook).answers = api THEN w ELSE Nothing
    /\ ready' = r

(* The request lacks the keys the hook reads: it raises a KeyError.           *)
Misread ==
    /\ pc = "hook" /\ Hook(hook).asks # api
    /\ ClearSync
    /\ UNCHANGED <<world, user, iam, store, cached, up, status, faults>>

Understood == pc = "hook" /\ Hook(hook).asks = api

AnswerDisabled ==
    /\ Understood /\ ~seenEnabled
    /\ Respond(Nothing, "none")
    /\ UNCHANGED <<world, user, iam, request, store, cached, up, status, faults>>

(* What the hook asks for, with the given content of the Secret; a variant    *)
(* that leaves a Secret out that is there already.                            *)
WantedIfMissing(c) ==
    [o \in Objects |-> IF o = Secret THEN IF seen[o] = None THEN c ELSE None
                       ELSE IF o \in Kept(hook) THEN Manifest(hook, o) ELSE None]
Wanted(c) ==
    [o \in Objects |-> IF o = Secret THEN c
                       ELSE IF o \in Kept(hook) THEN Manifest(hook, o) ELSE None]

(* A variant without the final or "False".                                    *)
ReadinessOnly == IF Ready(hook, seen) THEN "True" ELSE "false"
Readiness == IF Ready(hook, seen) THEN "True" ELSE "False"

(* Does the SeaweedFS hook go on using the Secret?  A variant that never does.*)
NeverExisting == FALSE
UseExisting == seen[Secret] # None

AnswerShared ==
    /\ Understood /\ seenEnabled /\ hook # "seaweed"
    /\ Respond(Wanted("minio"), Readiness)
    /\ UNCHANGED <<world, user, iam, request, store, cached, up, status, faults>>

AnswerExisting ==
    /\ Understood /\ seenEnabled /\ hook = "seaweed" /\ UseExisting
    /\ Respond(Wanted(seen[Secret]), Readiness)
    /\ UNCHANGED <<world, user, iam, request, store, cached, up, status, faults>>

(* A variant answers as soon as it has the key.                               *)
AfterKeyAnswer == "apply"
AfterKey == "policy"

CreateKey ==
    /\ Understood /\ seenEnabled /\ hook = "seaweed" /\ ~UseExisting
    /\ \E k \in Keys \ iamKeys :
         /\ iamKeys' = iamKeys \cup {k}
         /\ want' = Wanted(k)
    /\ ready' = Readiness /\ left' = Batches
    /\ pc' = AfterKey
    /\ UNCHANGED <<world, user, policy, request, store, cached, up, status, faults>>

(* Keys are never given back, and the IAM API may have a quota.               *)
KeyRefused ==
    /\ Understood /\ seenEnabled /\ hook = "seaweed" /\ ~UseExisting
    /\ iamKeys = Keys
    /\ ClearSync
    /\ UNCHANGED <<world, user, iam, store, cached, up, status, faults>>

PutPolicy ==
    /\ pc = "policy"
    /\ policy' = TRUE
    /\ pc' = "apply"
    /\ UNCHANGED <<world, user, iamKeys, request, answer, store, cached, up, status, faults>>

(* The IAM API refuses, the hook crashes, or its answer comes too late: the   *)
(* sync is over, whatever it has done stays done.                             *)
SyncFails ==
    /\ pc # "idle" /\ Fault
    /\ ClearSync
    /\ UNCHANGED <<world, user, iam, store, cached, up, status>>

(***************************************************************************)
(* Metacontroller applies the answer                                       *)
(***************************************************************************)
Applied(o) ==
    IF want[o] = None THEN IF seen[o] # None THEN None ELSE store[o]
    ELSE IF store[o] = None /\ seen[o] = None THEN want[o]
    ELSE IF o[1] \in InPlace /\ seen[o] # None /\ store[o] = seen[o] THEN want[o]
    ELSE store[o]

EndBatch(b) ==
    /\ IF left = {b} THEN ClearSync /\ status' = ready
       ELSE left' = left \ {b} /\ UNCHANGED <<pc, request, want, ready, status>>
    /\ UNCHANGED <<world, user, iam, cached>>

ApplyBatch(b) ==
    /\ pc = "apply" /\ b \in left
    /\ store' = [o \in Objects |-> IF o[1] \in b THEN Applied(o) ELSE store[o]]
    /\ up' = {d \in up : store'[d] = store[d]}
    /\ EndBatch(b)
    /\ UNCHANGED faults

(* The requests of one batch fail; metacontroller goes on with the others.    *)
BatchFails(b) ==
    /\ pc = "apply" /\ b \in left /\ Fault
    /\ EndBatch(b)
    /\ UNCHANGED <<store, up>>

(***************************************************************************)
(* The rest of the world                                                   *)
(***************************************************************************)
SyncCache ==
    /\ cached # store
    /\ cached' = store
    /\ UNCHANGED <<world, user, iam, request, answer, store, up, status, pc, faults>>

(* A pod whose Secrets and ConfigMaps are not there waits for them.           *)
PodStarts(d) ==
    /\ store[d] # None /\ d \notin up
    /\ Hook(store[d]).needs[d] \subseteq
          extras \cup {o \in Objects : store[o] # None}
    /\ up' = up \cup {d}
    /\ UNCHANGED <<world, user, iam, request, answer, store, cached, status, pc, faults>>

Edit == edits < MaxEdits /\ edits' = edits + 1

ToggleLabel ==
    /\ Edit /\ enabled' = ~enabled
    /\ UNCHANGED <<world, hook, iam, request, answer, store, cached, up, status, pc, faults>>

(* Another version of the hook: the request the old one works on is lost.     *)
Redeploy(v) ==
    /\ Edit /\ v # hook /\ hook' = v
    /\ IF pc \in {"hook", "policy"} THEN ClearSync
                                   ELSE UNCHANGED <<pc, request, answer>>
    /\ UNCHANGED <<world, enabled, iam, store, cached, up, status, faults>>

(* Someone deletes the Secret by hand.                                        *)
SecretLost ==
    /\ Fault /\ store[Secret] # None
    /\ store' = [store EXCEPT ![Secret] = None]
    /\ UNCHANGED <<world, user, iam, request, answer, cached, up, status, pc>>

(***************************************************************************)
(* The specification                                                       *)
(***************************************************************************)
SyncStep ==
    \/ SendSync \/ Misread \/ AnswerDisabled \/ AnswerShared \/ AnswerExisting
    \/ CreateKey \/ KeyRefused \/ PutPolicy
    \/ \E b \in Batches : ApplyBatch(b)

Init ==
    /\ api \in {"decorator", "composite"} /\ extras \in {{}, Extras}
    /\ enabled \in BOOLEAN /\ hook \in Versions
    /\ store = Nothing /\ cached = Nothing /\ up = {} /\ status = "none"
    /\ iamKeys = {} /\ policy = FALSE
    /\ pc = "idle" /\ seen = Nothing /\ seenEnabled = FALSE
    /\ want = Nothing /\ ready = "none" /\ left = {}
    /\ edits = 0 /\ faults = 0

Next ==
    \/ SyncStep \/ SyncFails \/ SyncCache \/ ToggleLabel \/ SecretLost
    \/ \E b \in Batches : BatchFails(b)
    \/ \E d \in Deployments : PodStarts(d)
    \/ \E v \in Versions : Redeploy(v)

Spec == Init /\ [][Next]_vars

(* Metacontroller resyncs for ever, its informers catch up, pods are started. *)
FairSpec ==
    /\ Spec
    /\ WF_vars(SyncStep) /\ WF_vars(SyncCache)
    /\ \A d \in Deployments : WF_vars(PodStarts(d))

(***************************************************************************)
(* Properties                                                              *)
(***************************************************************************)
(* Every variable keeps its type.                                             *)
ProfileTypeOK ==
    /\ api \in {"decorator", "composite"} /\ extras \subseteq Extras
    /\ enabled \in BOOLEAN /\ seenEnabled \in BOOLEAN /\ hook \in Versions
    /\ {store, cached, seen, want} \subseteq
          [Objects -> Versions \cup Keys \cup {"none", "any", "minio"}]
    /\ up \subseteq Deployments
    /\ {status, ready} \subseteq {"none", "True", "False"}
    /\ iamKeys \subseteq Keys /\ policy \in BOOLEAN
    /\ pc \in {"idle", "hook", "policy", "apply"} /\ left \subseteq Batches
    /\ edits \in 0..MaxEdits /\ faults \in 0..MaxFaults

(* Whatever fails between the creation of a key and the Secret, a key that    *)
(* the namespace is given works: it exists and its user has the policy.       *)
SecretUsable ==
    store[Secret] \in Keys => store[Secret] \in iamKeys /\ policy

(* sync_seaweed.py: "Check if secret is already there ... If yes, then use    *)
(* it": the key that pods use is never replaced by another key, also when the *)
(* hook has made a second one because it was shown a stale list.              *)
SecretKept ==
    [][{store[Secret], store'[Secret]} \subseteq Keys
         => store'[Secret] = store[Secret]]_vars

(* The hook speaks the protocol it is called with, and it can have a key.     *)
Works ==
    /\ Hook(hook).asks = api /\ Hook(hook).answers = api
    /\ ~(enabled /\ hook = "seaweed" /\ store[Secret] = None /\ iamKeys = Keys)

(* Once the edits and the faults are over, a hook that works gets what it     *)
(* asks for, and nothing else is left, whatever version was there before; the *)
(* pods run if the namespace has what they need.                              *)
ProfileConverges ==
    <>[](Works =>
           /\ \A o \in Objects \ {Secret} :
                store[o] = IF enabled /\ o \in Kept(hook)
                           THEN Manifest(hook, o) ELSE None
           /\ (store[Secret] # None) = enabled
           /\ extras = Extras =>
                up = IF enabled THEN Hook(hook).serves \cap Deployments ELSE {})

(* ... and then says it is ready, except for the SeaweedFS version, which     *)
(* counts Deployments and Services that it never asks for.                    *)
ReadySettles ==
    <>[](Works /\ enabled => status = IF hook = "seaweed" THEN "False" ELSE "True")
=============================================================================
