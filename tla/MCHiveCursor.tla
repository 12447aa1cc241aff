---------------------------- MODULE MCHiveCursor ---------------------------
(* Values for the constants of HiveCursor.                                    *)
EXTENDS HiveCursor

(* A stage that has just begun, and one whose reduce phase lags behind.       *)
TwoPercents == {<<0, 0>>, <<100, 61>>}
=============================================================================
