------------------------ MODULE MCProfileController -------------------------
(* Values for the constants of ProfileController.                             *)
EXTENDS ProfileController

MCKeys == {"k1", "k2"}

(* The Secret, the ConfigMaps, and the servers with all that belongs to them. *)
MCBatches == {{"Secret"}, {"ConfigMap"}, KindsKept \ {"Secret", "ConfigMap"}}
=============================================================================
