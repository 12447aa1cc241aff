----------------------------- MODULE HiveUpload ----------------------------
(* HiveEngineSpec.df_to_sql: uploads of data frames to one Hive table, each   *)
(* by a Superset worker of its own.  An upload writes a Parquet file under    *)
(* the table's location in the object store and then creates the table on     *)
(* that location, so that the rows of the table are the rows of every file    *)
(* there.  A call may fail, with or without its effect, and then df_to_sql    *)
(* raises; nothing is undone.                                                 *)
EXTENDS Naturals, FiniteSets

CONSTANTS
    Uploads,    \* the uploads, a retry being another upload
    None,       \* no table
    MaxFaults   \* bound on failed calls and dead workers

ASSUME UploadAssumption ==
    /\ None \notin Uploads
    /\ MaxFaults \in Nat

VARIABLES
    table,      \* the upload that created the table, or None
    files,      \* the uploads with a file in the location
    step,       \* what each upload does next
    if_exists,  \* how it was told to treat a table that exists
    alone,      \* has no upload yet run beside another one?
    faults      \* faults so far

vars == <<table, files, step, if_exists, alone, faults>>

Steps == {"idle", "check", "drop", "upload", "create", "ok", "error"}
Running(u) == step[u] \notin {"idle", "ok", "error"}

Goto(u, s) == step' = [step EXCEPT ![u] = s]

(* A call that answers, or one that fails and makes df_to_sql raise.          *)
Answers(u, ok, next) ==
    IF ok THEN Goto(u, next) /\ UNCHANGED faults
    ELSE Goto(u, "error") /\ faults < MaxFaults /\ faults' = faults + 1

(* A user uploads.  "append" is refused before anything is done; a variant    *)
(* that takes it for a mode without preparation.                              *)
AppendAllowed(mode) ==
    CASE mode = "append" -> "upload" [] mode = "fail" -> "check" [] mode = "replace" -> "drop"
Prepares(mode) ==
    CASE mode = "append" -> "error" [] mode = "fail" -> "check" [] mode = "replace" -> "drop"

Begin(u, mode) ==
    /\ step[u] = "idle"
    /\ if_exists' = [if_exists EXCEPT ![u] = mode]
    /\ Goto(u, Prepares(mode))
    /\ alone' = (alone /\ \A v \in Uploads : ~Running(v))
    /\ UNCHANGED <<table, files, faults>>

(* SHOW TABLES; a variant that does not look at what it shows.                *)
GoAhead == TRUE
NoTable == table = None

CheckTable(u, ok) ==
    /\ step[u] = "check"
    /\ Answers(u, ok, IF NoTable THEN "upload" ELSE "error")
    /\ UNCHANGED <<table, files, if_exists, alone>>

(* DROP TABLE IF EXISTS takes the files of the location with it.              *)
DropTable(u, ok) ==
    /\ step[u] = "drop"
    /\ Answers(u, ok, "upload")
    /\ \/ table' = None /\ files' = IF table = None THEN files ELSE {}
       \/ ~ok /\ UNCHANGED <<table, files>>
    /\ UNCHANGED <<if_exists, alone>>

(* The temporary file is written and put under the location with a name of    *)
(* its own.                                                                   *)
upload_to_s3(u, ok) ==
    /\ step[u] = "upload"
    /\ Answers(u, ok, "create")
    /\ \/ files' = files \cup {u}
       \/ ~ok /\ UNCHANGED files
    /\ UNCHANGED <<table, if_exists, alone>>

(* CREATE TABLE is refused when there is one.                                 *)
CreateTable(u, ok) ==
    /\ step[u] = "create"
    /\ Answers(u, ok, IF table = None THEN "ok" ELSE "error")
    /\ \/ table' = IF table = None THEN u ELSE table
       \/ ~ok /\ UNCHANGED table
    /\ UNCHANGED <<files, if_exists, alone>>

(* The worker is killed.                                                      *)
Dies(u) ==
    /\ Running(u) /\ faults < MaxFaults
    /\ Goto(u, "error") /\ faults' = faults + 1
    /\ UNCHANGED <<table, files, if_exists, alone>>

df_to_sql(u) ==
    \E ok \in BOOLEAN :
        \/ CheckTable(u, ok) \/ DropTable(u, ok)
        \/ upload_to_s3(u, ok) \/ CreateTable(u, ok)

Init ==
    /\ table = None /\ files = {} /\ alone = TRUE /\ faults = 0
    /\ step = [u \in Uploads |-> "idle"]
    /\ if_exists = [u \in Uploads |-> "fail"]

Next ==
    \E u \in Uploads :
        \/ \E mode \in {"append", "fail", "replace"} : Begin(u, mode)
        \/ df_to_sql(u) \/ Dies(u)

Spec == Init /\ [][Next]_vars

(***************************************************************************)
(* Properties                                                              *)
(***************************************************************************)
(* The variables keep their types, and an upload that was to append never     *)
(* touches the table or its location.                                         *)
UploadTypeOK ==
    /\ table \in Uploads \cup {None} /\ files \subseteq Uploads
    /\ step \in [Uploads -> Steps] /\ faults \in 0..MaxFaults
    /\ if_exists \in [Uploads -> {"append", "fail", "replace"}]
    /\ alone \in BOOLEAN
    /\ \A u \in files \cup {table} : u # None => if_exists[u] # "append"

(* As long as uploads came one after another, a table has the rows of the     *)
(* upload that created it, and other rows only from uploads that a failed     *)
(* call or a killed worker ended half-way, one for each fault: neither the    *)
(* check for a table nor its refusal leaves a file behind.                    *)
OwnRowsWhenAlone ==
    alone /\ (\A u \in Uploads : ~Running(u)) =>
        /\ table # None => table \in files
        /\ Cardinality(files \ {table}) <= faults

(* "Ensure table doesn't already exist": an upload told to fail when there is *)
(* a table adds no rows to one.                                               *)
NoRowsAdded ==
    [][\A u \in Uploads :
          if_exists[u] = "fail" /\ table # None /\ u \notin files => u \notin files']_vars
=============================================================================
