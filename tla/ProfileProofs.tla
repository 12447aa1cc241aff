---------------------------- MODULE ProfileProofs --------------------------
(* Type correctness of the profile controller, and that the key a namespace   *)
(* is given works, for every set of keys, way of batching and bound.          *)
EXTENDS ProfileController, TLAPS

Values == Versions \cup Keys \cup {"none", "any", "minio"}
Contents == [Objects -> Values]

LEMMA NoPlaceholderKeys == "none" \notin Keys /\ "minio" \notin Keys
BY ProfileAssumption

LEMMA SecretIsKept == Secret \in Objects /\ Secret \notin Deployments \cup {Launcher}
BY DEF Objects, Deployments, Launcher, Secret, Visualization, Artifact

LEMMA NothingType == Nothing \in Contents /\ Nothing[Secret] = "none"
BY SecretIsKept DEF Nothing, Contents, Values, None

(* An answer holds manifests, and in the Secret what it was given.            *)
LEMMA WantedType ==
    ASSUME NEW c \in Values, hook \in Versions
    PROVE  Wanted(c) \in Contents /\ Wanted(c)[Secret] = c
BY SecretIsKept DEF Wanted, Contents, Values, Manifest, None

(***************************************************************************)
(* Type correctness                                                        *)
(***************************************************************************)
LEMMA ClearSyncType ==
    ASSUME ClearSync
    PROVE  /\ pc' \in {"idle", "hook", "policy", "apply"} /\ seenEnabled' \in BOOLEAN
           /\ seen' \in Contents /\ want' \in Contents
           /\ ready' \in {"none", "True", "False"} /\ left' \subseteq Batches
BY NothingType DEF ClearSync

LEMMA RespondType ==
    ASSUME NEW w \in Contents, NEW r \in {"none", "True", "False"}, Respond(w, r)
    PROVE  /\ pc' = "apply" /\ left' \subseteq Batches
           /\ want' \in Contents /\ ready' \in {"none", "True", "False"}
           /\ want'[Secret] \in {w[Secret], "none"}
BY NothingType DEF Respond

LEMMA EndBatchType ==
    ASSUME ProfileTypeOK, NEW b \in Batches, pc = "apply", EndBatch(b)
    PROVE  /\ pc' \in {"idle", "hook", "policy", "apply"} /\ seenEnabled' \in BOOLEAN
           /\ seen' \in Contents /\ want' \in Contents
           /\ {ready', status'} \subseteq {"none", "True", "False"}
           /\ left' \subseteq Batches
           /\ UNCHANGED <<world, user, iam, cached>>
<1>0. /\ seen \in Contents /\ want \in Contents /\ seenEnabled \in BOOLEAN
      /\ {ready, status} \subseteq {"none", "True", "False"} /\ left \subseteq Batches
  BY DEF ProfileTypeOK, Contents, Values
<1>1. CASE left = {b}
  BY <1>1, <1>0, ClearSyncType DEF EndBatch
<1>2. CASE left # {b}
  <2>1. seen' = seen /\ want' = want /\ pc' = "apply" /\ left' = left \ {b}
    BY <1>2 DEF EndBatch, request
  <2>2. ready' = ready /\ status' = status /\ UNCHANGED <<world, user, iam, cached>>
    BY <1>2 DEF EndBatch
  <2>3. seenEnabled' \in BOOLEAN
    BY <1>2, <1>0 DEF EndBatch, request
  <2>. QED  BY <2>1, <2>2, <2>3, <1>0
<1>. QED  BY <1>1, <1>2

LEMMA ProfileInitType == Init => ProfileTypeOK
<1>. SUFFICES ASSUME Init PROVE ProfileTypeOK
  OBVIOUS
<1>1. {store, cached, seen, want} \subseteq Contents
  BY NothingType DEF Init
<1>2. policy \in BOOLEAN /\ seenEnabled \in BOOLEAN
  BY DEF Init
<1>3. edits \in 0..MaxEdits /\ faults \in 0..MaxFaults
  BY ProfileAssumption DEF Init
<1>. QED  BY <1>1, <1>2, <1>3 DEF Init, ProfileTypeOK, Contents, Values

LEMMA ProfileNextType == ProfileTypeOK /\ [Next]_vars => ProfileTypeOK'
<1>. SUFFICES ASSUME ProfileTypeOK, [Next]_vars PROVE ProfileTypeOK'
  OBVIOUS
<1>. USE DEF ProfileTypeOK, Contents, Values
<1>1. CASE SendSync
  BY <1>1, ProfileAssumption DEF SendSync, Fault, world, user, iam, answer
<1>2. CASE Misread
  BY <1>2, ClearSyncType DEF Misread, world, user, iam
<1>3. CASE AnswerDisabled
  BY <1>3, RespondType, NothingType DEF AnswerDisabled, world, user, iam, request
<1>4. CASE AnswerShared
  BY <1>4, RespondType, WantedType DEF AnswerShared, Readiness, world, user, iam, request
<1>5. CASE AnswerExisting
  <2>1. seen[Secret] \in Values
    BY SecretIsKept
  <2>. QED  BY <1>5, <2>1, RespondType, WantedType
            DEF AnswerExisting, Readiness, world, user, iam, request
<1>6. CASE CreateKey
  <2>1. PICK k \in Keys : iamKeys' = iamKeys \cup {k} /\ want' = Wanted(k)
    BY <1>6 DEF CreateKey
  <2>2. want' \in Contents /\ iamKeys' \subseteq Keys
    BY <2>1, WantedType
  <2>. QED  BY <1>6, <2>2 DEF CreateKey, AfterKey, Readiness, world, user, request
<1>7. CASE KeyRefused
  BY <1>7, ClearSyncType DEF KeyRefused, world, user, iam
<1>8. CASE PutPolicy
  BY <1>8 DEF PutPolicy, world, user, request, answer
<1>9. CASE SyncFails
  BY <1>9, ClearSyncType, ProfileAssumption DEF SyncFails, Fault, world, user, iam
<1>10. ASSUME NEW b \in Batches, ApplyBatch(b) PROVE ProfileTypeOK'
  <2>1. store' \in Contents
    BY <1>10 DEF ApplyBatch, Applied, None
  <2>2. up' \subseteq Deployments
    BY <1>10 DEF ApplyBatch
  <2>. QED  BY <1>10, <2>1, <2>2, EndBatchType DEF ApplyBatch, world, user, iam
<1>11. ASSUME NEW b \in Batches, BatchFails(b) PROVE ProfileTypeOK'
  BY <1>11, EndBatchType, ProfileAssumption DEF BatchFails, Fault, world, user, iam
<1>12. CASE SyncCache
  BY <1>12 DEF SyncCache, world, user, iam, request, answer
<1>13. ASSUME NEW d \in Deployments, PodStarts(d) PROVE ProfileTypeOK'
  BY <1>13 DEF PodStarts, world, user, iam, request, answer
<1>14. CASE ToggleLabel
  BY <1>14, ProfileAssumption DEF ToggleLabel, Edit, world, iam, request, answer
<1>15. ASSUME NEW v \in Versions, Redeploy(v) PROVE ProfileTypeOK'
  BY <1>15, ClearSyncType, ProfileAssumption DEF Redeploy, Edit, world, iam, request, answer
<1>16. CASE SecretLost
  <2>1. store' \in Contents
    BY <1>16 DEF SecretLost, None
  <2>. QED  BY <1>16, <2>1, ProfileAssumption
            DEF SecretLost, Fault, world, user, iam, request, answer
<1>17. CASE UNCHANGED vars
  BY <1>17 DEF vars, world, user, iam, request, answer
<1>. QED
  BY <1>1, <1>2, <1>3, <1>4, <1>5, <1>6, <1>7, <1>8, <1>9, <1>10, <1>11, <1>12,
     <1>13, <1>14, <1>15, <1>16, <1>17 DEF Next, SyncStep

(* Every variable of the hook, of metacontroller and of the namespace keeps   *)
(* its type.                                                                  *)
THEOREM ProfileTypeCorrect == Spec => []ProfileTypeOK
BY ProfileInitType, ProfileNextType, PTL DEF Spec

(***************************************************************************)
(* Keys that work                                                          *)
(***************************************************************************)
Usable(c) == c \in Keys => c \in iamKeys /\ policy

(* A key on its way into the namespace, in the answer, the request or the     *)
(* informers, works already; only the hook holds one without a policy.        *)
KeyInv ==
    /\ Usable(store[Secret]) /\ Usable(cached[Secret]) /\ Usable(seen[Secret])
    /\ IF pc = "policy" THEN want[Secret] \in iamKeys ELSE Usable(want[Secret])

(* No key and no policy is ever taken back.                                   *)
LEMMA UsableStays ==
    ASSUME ProfileTypeOK, [Next]_vars, NEW c, Usable(c)
    PROVE  Usable(c)'
<1>1. iamKeys \subseteq iamKeys' /\ (policy => policy')
  BY DEF Next, SyncStep, SendSync, Misread, AnswerDisabled, AnswerShared,
         AnswerExisting, CreateKey, KeyRefused, PutPolicy, ApplyBatch, SyncFails,
         BatchFails, EndBatch, SyncCache, PodStarts, ToggleLabel, Redeploy,
         SecretLost, vars, iam
<1>. QED  BY <1>1 DEF Usable

LEMMA ClearSyncKeys ==
    ASSUME ClearSync
    PROVE  /\ pc' = "idle" /\ Usable(seen[Secret])' /\ Usable(want[Secret])'
BY NothingType, NoPlaceholderKeys DEF ClearSync, Usable

LEMMA EndBatchKeys ==
    ASSUME KeyInv, ProfileTypeOK, [Next]_vars, NEW b, pc = "apply", EndBatch(b)
    PROVE  /\ pc' # "policy" /\ Usable(seen[Secret])' /\ Usable(want[Secret])'
<1>1. CASE ClearSync
  BY <1>1, ClearSyncKeys
<1>2. CASE UNCHANGED <<pc, request, want>>
  <2>1. Usable(seen[Secret]) /\ Usable(want[Secret])
    BY DEF KeyInv
  <2>. QED  BY <1>2, <2>1, UsableStays DEF request, Usable
<1>. QED  BY <1>1, <1>2 DEF EndBatch

LEMMA KeyStep == ProfileTypeOK /\ KeyInv /\ [Next]_vars => KeyInv'
<1>. SUFFICES ASSUME ProfileTypeOK, KeyInv, [Next]_vars PROVE KeyInv'
  OBVIOUS
<1>0. /\ Usable(store[Secret])' \/ store'[Secret] # store[Secret]
      /\ Usable(cached[Secret])' \/ cached'[Secret] # cached[Secret]
      /\ Usable(seen[Secret])' \/ seen'[Secret] # seen[Secret]
      /\ \/ pc = "policy" \/ Usable(want[Secret])' \/ want'[Secret] # want[Secret]
  <2>1. Usable(store[Secret]) /\ Usable(cached[Secret]) /\ Usable(seen[Secret])
    BY DEF KeyInv
  <2>2. pc = "policy" \/ Usable(want[Secret])
    BY DEF KeyInv
  <2>. QED  BY <2>1, <2>2, UsableStays DEF Usable
<1>. USE DEF KeyInv
<1>1. CASE SendSync
  <2>1. Usable(cached[Secret])
    OBVIOUS
  <2>2. Usable(seen[Secret])'
    BY <1>1, <2>1 DEF SendSync, iam, Usable
  <2>. QED  BY <1>1, <1>0, <2>2 DEF SendSync, answer
<1>2. CASE Misread \/ KeyRefused \/ SyncFails
  BY <1>2, <1>0, ClearSyncKeys DEF Misread, KeyRefused, SyncFails
<1>3. CASE AnswerDisabled
  <2>1. want'[Secret] = "none" /\ pc' = "apply"
    BY <1>3, RespondType, NothingType DEF AnswerDisabled
  <2>. QED  BY <1>3, <1>0, <2>1, NoPlaceholderKeys DEF AnswerDisabled, request, Usable
<1>4. CASE AnswerShared
  <2>1. want'[Secret] \in {"minio", "none"} /\ pc' = "apply"
    BY <1>4, RespondType, WantedType
       DEF AnswerShared, Readiness, ProfileTypeOK, Values
  <2>. QED  BY <1>4, <1>0, <2>1, NoPlaceholderKeys DEF AnswerShared, request, Usable
<1>5. CASE AnswerExisting
  <2>0. seen[Secret] \in Values
    BY SecretIsKept DEF ProfileTypeOK, Values
  <2>1. want'[Secret] \in {seen[Secret], "none"} /\ pc' = "apply"
    BY <1>5, <2>0, RespondType, WantedType
       DEF AnswerExisting, Readiness, ProfileTypeOK, Values
  <2>2. UNCHANGED <<store, cached, seen, iam>>
    BY <1>5 DEF AnswerExisting, request
  <2>. QED  BY <2>1, <2>2, <1>0, NoPlaceholderKeys DEF Usable, iam
<1>6. CASE CreateKey
  <2>1. PICK k \in Keys : iamKeys' = iamKeys \cup {k} /\ want' = Wanted(k)
    BY <1>6 DEF CreateKey
  <2>2. want'[Secret] \in iamKeys'
    BY <2>1, WantedType DEF ProfileTypeOK, Values
  <2>. QED  BY <1>6, <1>0, <2>2 DEF CreateKey, AfterKey, request
<1>7. CASE PutPolicy
  <2>1. Usable(want[Secret])'
    BY <1>7 DEF PutPolicy, answer, Usable
  <2>. QED  BY <1>7, <1>0, <2>1 DEF PutPolicy, request
<1>8. ASSUME NEW b \in Batches, ApplyBatch(b) PROVE KeyInv'
  <2>1. store'[Secret] \in {store[Secret], want[Secret], "none"}
    BY <1>8, SecretIsKept DEF ApplyBatch, Applied, None
  <2>2. UNCHANGED <<cached, iam>> /\ pc = "apply"
    BY <1>8 DEF ApplyBatch, EndBatch
  <2>3. pc' # "policy" /\ Usable(seen[Secret])' /\ Usable(want[Secret])'
    BY <1>8, EndBatchKeys DEF ApplyBatch
  <2>. QED  BY <2>1, <2>2, <2>3, <1>0, NoPlaceholderKeys DEF iam, Usable
<1>9. ASSUME NEW b \in Batches, BatchFails(b) PROVE KeyInv'
  <2>1. pc' # "policy" /\ Usable(seen[Secret])' /\ Usable(want[Secret])'
    BY <1>9, EndBatchKeys DEF BatchFails
  <2>. QED  BY <1>9, <2>1, <1>0 DEF BatchFails, EndBatch
<1>10. CASE SyncCache
  <2>1. UNCHANGED <<store, seen, want, pc, iam>> /\ cached' = store
    BY <1>10 DEF SyncCache, request, answer
  <2>. QED  BY <2>1, <1>0 DEF iam, Usable
<1>11. CASE SecretLost
  <2>1. store'[Secret] = "none" /\ UNCHANGED <<cached, seen, want, pc, iam>>
    BY <1>11, SecretIsKept DEF SecretLost, ProfileTypeOK, None, request, answer
  <2>. QED  BY <2>1, <1>0, NoPlaceholderKeys DEF iam, Usable
<1>12. ASSUME NEW v \in Versions, Redeploy(v) PROVE KeyInv'
  <2>1. UNCHANGED <<store, cached, iam>>
    BY <1>12 DEF Redeploy
  <2>2. CASE ClearSync
    BY <2>1, <2>2, <1>0, ClearSyncKeys
  <2>3. CASE UNCHANGED <<pc, request, answer>>
    BY <2>1, <2>3, <1>0 DEF request, answer, iam
  <2>. QED  BY <1>12, <2>2, <2>3 DEF Redeploy
<1>13. CASE ToggleLabel \/ (\E d \in Deployments : PodStarts(d)) \/ UNCHANGED vars
  <2>1. UNCHANGED <<store, cached, seen, want, pc, iam>>
    BY <1>13 DEF ToggleLabel, PodStarts, vars, request, answer
  <2>. QED  BY <2>1, <1>0 DEF iam
<1>. QED
  BY <1>1, <1>2, <1>3, <1>4, <1>5, <1>6, <1>7, <1>8, <1>9, <1>10, <1>11, <1>12, <1>13
     DEF Next, SyncStep

(* Whatever call fails between the creation of a key and the Secret, whatever *)
(* is read stale and whichever version of the hook answers, the key in the    *)
(* namespace exists and its user has the policy.                              *)
THEOREM SecretIsUsable == Spec => []SecretUsable
<1>1. Init => KeyInv
  BY NothingType, NoPlaceholderKeys DEF Init, KeyInv, Usable
<1>2. KeyInv => SecretUsable
  BY DEF KeyInv, Usable, SecretUsable
<1>. QED  BY <1>1, <1>2, KeyStep, ProfileTypeCorrect, PTL DEF Spec

(***************************************************************************)
(* Keys that stay                                                          *)
(***************************************************************************)
(* Until the hook has answered there is no answer, and an answer to a request *)
(* that showed a key holds no other key.                                      *)
AnswerInv ==
    /\ pc \in {"idle", "hook"} => want[Secret] = "none"
    /\ {seen[Secret], want[Secret]} \subseteq Keys => want[Secret] = seen[Secret]

LEMMA AnswerStep == ProfileTypeOK /\ AnswerInv /\ [Next]_vars => AnswerInv'
<1>. SUFFICES ASSUME ProfileTypeOK, AnswerInv, [Next]_vars PROVE AnswerInv'
  OBVIOUS
<1>. USE DEF AnswerInv
<1>c. CASE ClearSync
  <2>1. want'[Secret] = "none"
    BY <1>c, NothingType DEF ClearSync
  <2>. QED  BY <2>1, NoPlaceholderKeys
<1>u. CASE UNCHANGED <<pc, seen, want>>
  BY <1>u
<1>1. CASE SendSync
  <2>1. want'[Secret] = "none"
    BY <1>1 DEF SendSync, answer
  <2>. QED  BY <2>1, NoPlaceholderKeys
<1>2. CASE Misread \/ KeyRefused \/ SyncFails
  BY <1>2, <1>c DEF Misread, KeyRefused, SyncFails
<1>3. CASE AnswerDisabled
  <2>1. want'[Secret] = "none" /\ pc' = "apply"
    BY <1>3, RespondType, NothingType DEF AnswerDisabled
  <2>. QED  BY <2>1, NoPlaceholderKeys
<1>4. CASE AnswerShared
  <2>1. want'[Secret] \in {"minio", "none"} /\ pc' = "apply"
    BY <1>4, RespondType, WantedType DEF AnswerShared, Readiness, ProfileTypeOK, Values
  <2>. QED  BY <2>1, NoPlaceholderKeys
<1>5. CASE AnswerExisting
  <2>1. seen[Secret] \in Values
    BY SecretIsKept DEF ProfileTypeOK, Values
  <2>2. want'[Secret] \in {seen[Secret], "none"} /\ pc' = "apply" /\ seen' = seen
    BY <1>5, <2>1, RespondType, WantedType
       DEF AnswerExisting, Readiness, ProfileTypeOK, Values, request
  <2>. QED  BY <2>2, NoPlaceholderKeys
<1>6. CASE CreateKey
  <2>1. seen'[Secret] = "none" /\ pc' = "policy"
    BY <1>6 DEF CreateKey, UseExisting, AfterKey, None, request
  <2>. QED  BY <2>1, NoPlaceholderKeys
<1>7. CASE PutPolicy
  BY <1>7 DEF PutPolicy, request, answer
<1>8. ASSUME NEW b \in Batches, ApplyBatch(b) \/ BatchFails(b) PROVE AnswerInv'
  <2>1. ClearSync \/ UNCHANGED <<pc, seen, want>>
    BY <1>8 DEF ApplyBatch, BatchFails, EndBatch, request
  <2>. QED  BY <2>1, <1>c, <1>u
<1>9. ASSUME NEW v \in Versions, Redeploy(v) PROVE AnswerInv'
  <2>1. ClearSync \/ UNCHANGED <<pc, seen, want>>
    BY <1>9 DEF Redeploy, request, answer
  <2>. QED  BY <2>1, <1>c, <1>u
<1>10. CASE \/ SyncCache \/ SecretLost \/ ToggleLabel \/ UNCHANGED vars
            \/ \E d \in Deployments : PodStarts(d)
  BY <1>10, <1>u
     DEF SyncCache, SecretLost, ToggleLabel, PodStarts, vars, request, answer
<1>. QED
  BY <1>1, <1>2, <1>3, <1>4, <1>5, <1>6, <1>7, <1>8, <1>9, <1>10 DEF Next, SyncStep

(* A key that pods of the namespace use is never replaced by another key,     *)
(* however stale the request was that the hook answered.                      *)
THEOREM SecretStays == Spec => SecretKept
<1>. DEFINE KeyStays == {store[Secret], store'[Secret]} \subseteq Keys
                        => store'[Secret] = store[Secret]
<1>1. Init => AnswerInv
  BY NothingType, NoPlaceholderKeys DEF Init, AnswerInv
<1>2. ProfileTypeOK /\ AnswerInv /\ [Next]_vars => [KeyStays]_vars
  <2>. SUFFICES ASSUME ProfileTypeOK, AnswerInv, [Next]_vars,
                       {store[Secret], store'[Secret]} \subseteq Keys
                PROVE  store'[Secret] = store[Secret]
    OBVIOUS
  <2>1. ASSUME NEW b \in Batches, ApplyBatch(b) PROVE store'[Secret] = store[Secret]
    <3>1. store'[Secret] \in {store[Secret], Applied(Secret)}
      BY <2>1, SecretIsKept DEF ApplyBatch
    <3>. QED  BY <3>1, NoPlaceholderKeys DEF Applied, None, AnswerInv
  <2>2. CASE SecretLost
    <3>1. store'[Secret] = None
      BY <2>2, SecretIsKept DEF SecretLost, ProfileTypeOK
    <3>. QED  BY <3>1, NoPlaceholderKeys DEF None
  <2>. QED
    BY <2>1, <2>2
       DEF Next, SyncStep, SendSync, Misread, AnswerDisabled, AnswerShared,
           AnswerExisting, CreateKey, KeyRefused, PutPolicy, SyncFails, BatchFails,
           SyncCache, PodStarts, ToggleLabel, Redeploy, vars
<1>. QED
  BY <1>1, <1>2, AnswerStep, ProfileTypeCorrect, PTL DEF Spec, SecretKept
=============================================================================
