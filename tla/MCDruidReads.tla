---------------------------- MODULE MCDruidReads -----------------------------
(* Values for the constants of DruidReads.                                    *)
EXTENDS MCDruidOperator, DruidReads

(* The common configuration changes, and no pods are checked for crashes.     *)
CalmSpecs == {[s EXCEPT !.forceDelete = FALSE] : s \in RollingSpecs}
=============================================================================
