------------------------------ MODULE DruidReads -----------------------------
(* What a reconcile pass achieves when nothing is assumed of its reads: the   *)
(* informer caches may lag, and the workload controllers take their time.     *)
(* Module DruidOperator is followed by a history variable that remembers of   *)
(* which workloads the running pass has been told something else than is so;  *)
(* it constrains nothing.                                                     *)
EXTENDS DruidProperties

VARIABLE misread   \* the workloads the running pass has misread

readVars == <<vars, misread>>

(* The object read before the write differs from the stored one.              *)
MisreadObject(w) ==
    pc = "node" /\ w \in todo \ todo' /\ View(w) # store[w]

(* isObjFullyDeployed looks at a copy, or at a status that is about another   *)
(* template: it does not compare observedGeneration.                          *)
MisreadRollout(w) ==
    /\ pc = "rollout" /\ pc' # "rollout" /\ w = CurrentWorkload
    /\ \/ View(w) # store[w] \/ ViewWl(w) # wl[w]
       \/ store[w] # None /\ wl[w].upd # Template(store[w])

(* The finalizer's list lacks a StatefulSet that exists.                      *)
MisreadList(w) ==
    /\ pc = "listSts" /\ pc' = "finalize"
    /\ w[1] = "StatefulSet" /\ View(w) = None /\ store[w] # None

Misreads ==
    {w \in Workloads : MisreadObject(w) \/ MisreadRollout(w) \/ MisreadList(w)}

ReadInit == Init /\ misread = {}

ReadNext ==
    /\ Next
    /\ misread' = IF pc' = "idle" THEN {} ELSE misread \cup Misreads

ReadSpec == ReadInit /\ [][ReadNext]_readVars

(***************************************************************************)
(* Properties                                                              *)
(***************************************************************************)
Moves(w) ==
    /\ store[w] # None /\ store'[w] # None
    /\ Template(store'[w]) # Template(store[w])

(* Nobody else may take what the pass has gone over.                          *)
CrLives == ns = "active" /\ cr.uid = m.uid /\ cr.life # "absent"

(* rollingDeploy, from the second generation of the CR on: whatever is edited *)
(* or deleted, wherever passes are cut and whoever is slow, a workload moves  *)
(* to another version only when every workload of an earlier node type exists *)
(* while the CR lives, is on the version the pass wants and has finished      *)
(* rolling out.  The one exception is a workload that this very pass misread: *)
(* isObjFullyDeployed cannot tell, and nothing else goes wrong.               *)
UpdatesInOrder ==
    [][\A w \in Workloads : Moves(w) /\ m.spec.rolling /\ m.gen > 1 =>
         \A p \in (Workloads \cap Planned(m.spec)) \ misread :
            Rank(p[2]) < Rank(w[2]) =>
                /\ CrLives => store[p] # None
                /\ store[p] # None =>
                     RolledOut(p) /\ wl[p].cur = Content(m.spec, p)]_readVars

(* handler.go: "PVC must be deleted after sts termination has been executed": *)
(* while its namespace lives, the finalizer deletes the claim of a            *)
(* StatefulSet that still exists only when the list it works from misses it.  *)
ClaimsInOrder ==
    [][pc = "finalize" /\ ns = "active" =>
         \A n \in Claiming :
            LET c == <<"VolumeClaim", n>>  w == <<"StatefulSet", n>>
                kept == store[c] # None /\ c \notin terminating
            IN  kept /\ (store'[c] = None \/ c \in terminating')
                  => store[w] = None \/ w \in misread]_readVars
=============================================================================
