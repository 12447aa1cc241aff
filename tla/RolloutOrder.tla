---------------------------- MODULE RolloutOrder ----------------------------
(* What rollingDeploy promises, without controllers, caches or calls: a node  *)
(* that runs is moved to another version only once every node of an earlier   *)
(* type runs the version asked of it and has finished rolling out.  Creating  *)
(* and removing nodes is free of any order.                                   *)
EXTENDS Integers

CONSTANTS Nodes, Versions, None, Order

VARIABLES
    want,     \* the version asked of each node, or None
    have,     \* the version each node was last given, or None
    settled   \* the nodes that have finished rolling out what they were given

rolloutVars == <<want, have, settled>>

ROInit ==
    /\ want \in [Nodes -> Versions \cup {None}]
    /\ have = [n \in Nodes |-> None]
    /\ settled = {}

Ready(n) == want[n] # None => have[n] = want[n] /\ n \in settled

(* The user asks for something else.                                          *)
Retarget ==
    /\ want' \in [Nodes -> Versions \cup {None}]
    /\ UNCHANGED <<have, settled>>

Create(n) ==
    /\ have[n] = None /\ want[n] # None
    /\ have' = [have EXCEPT ![n] = want[n]]
    /\ settled' \in {settled, settled \cup {n}}
    /\ UNCHANGED want

(* Going back to the version still running is finished at once.               *)
Update(n) ==
    /\ have[n] # None /\ want[n] \notin {None, have[n]}
    /\ \A p \in Nodes : Order[p] < Order[n] => Ready(p)
    /\ have' = [have EXCEPT ![n] = want[n]]
    /\ settled' \in {settled, settled \cup {n}, settled \ {n}}
    /\ UNCHANGED want

Remove(gone) ==
    /\ have' = [n \in Nodes |-> IF n \in gone THEN None ELSE have[n]]
    /\ settled' = settled \ gone
    /\ UNCHANGED want

Settle(n) ==
    /\ have[n] # None
    /\ settled' = settled \cup {n}
    /\ UNCHANGED <<want, have>>

RONext ==
    \/ Retarget
    \/ \E n \in Nodes : Create(n) \/ Update(n) \/ Settle(n)
    \/ \E gone \in SUBSET Nodes : Remove(gone)

ROSpec == ROInit /\ [][RONext]_rolloutVars
=============================================================================
