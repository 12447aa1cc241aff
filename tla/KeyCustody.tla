----------------------------- MODULE KeyCustody ----------------------------
(* Where the unseal keys of a Vault cluster are, as the bootstrap job should  *)
(* treat them.  They are made once and shown once; from then on they are with *)
(* the job that made them until they are in the Secret, and there they stay.  *)
(* Only a job that stops in between may lose them.                            *)
VARIABLE custody

KCInit == custody = "unmade"

Make == custody = "unmade" /\ custody' \in {"held", "lost"}
Store == custody = "held" /\ custody' = "stored"
Lose == custody = "held" /\ custody' = "lost"

KCSpec == KCInit /\ [][Make \/ Store \/ Lose]_custody
=============================================================================
