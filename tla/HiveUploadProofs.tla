-------------------------- MODULE HiveUploadProofs -------------------------
(* Type correctness of the uploads, and what the rows of a table are worth    *)
(* while uploads come one after another, for any uploads and any faults.      *)
EXTENDS HiveUpload, FiniteSetTheorems, TLAPS

Modes == {"append", "fail", "replace"}

(***************************************************************************)
(* Type correctness                                                        *)
(***************************************************************************)
(* An upload that was to append is over before it has touched anything, and   *)
(* one that has not begun has left nothing.                                   *)
UploadInv ==
    /\ UploadTypeOK
    /\ \A u \in Uploads :
         /\ step[u] \notin {"idle", "error"} => if_exists[u] # "append"
         /\ step[u] = "idle" => u \notin files /\ table # u

LEMMA UploadInitInv == Init => UploadInv
BY UploadAssumption DEF Init, UploadInv, UploadTypeOK, Steps

LEMMA FaultType ==
    ASSUME UploadTypeOK, NEW u \in Uploads, NEW ok \in BOOLEAN, NEW next \in Steps,
           Answers(u, ok, next)
    PROVE  /\ faults' \in 0..MaxFaults /\ step' \in [Uploads -> Steps]
           /\ step' = [step EXCEPT ![u] = IF ok THEN next ELSE "error"]
           /\ faults' = faults + (IF ok THEN 0 ELSE 1)
BY UploadAssumption DEF Answers, Goto, UploadTypeOK, Steps

LEMMA UploadNextInv == UploadInv /\ [Next]_vars => UploadInv'
<1>. SUFFICES ASSUME UploadInv, [Next]_vars PROVE UploadInv'
  OBVIOUS
<1>0. UploadTypeOK
  BY DEF UploadInv
<1>. USE UploadAssumption DEF UploadInv, UploadTypeOK, Steps
<1>1. ASSUME NEW u \in Uploads, NEW mode \in Modes, Begin(u, mode)
      PROVE  UploadInv'
  <2>1. Prepares(mode) \in {"check", "drop", "error"}
        /\ (Prepares(mode) # "error" => mode # "append")
    BY DEF Prepares, Modes
  <2>. DEFINE next == Prepares(mode)
  <2>2. /\ step' = [step EXCEPT ![u] = next] /\ if_exists' = [if_exists EXCEPT ![u] = mode]
        /\ alone' \in BOOLEAN /\ UNCHANGED <<table, files, faults>> /\ step[u] = "idle"
    BY <1>1 DEF Begin, Goto
  <2>3. step' \in [Uploads -> Steps] /\ if_exists' \in [Uploads -> Modes]
    BY <2>1, <2>2 DEF Modes
  <2>. HIDE DEF next
  <2>. QED  BY <1>0, <2>1, <2>2, <2>3 DEF Modes, next
<1>2. ASSUME NEW u \in Uploads, NEW ok \in BOOLEAN, CheckTable(u, ok) PROVE UploadInv'
  <2>1. Answers(u, ok, IF NoTable THEN "upload" ELSE "error")
        /\ UNCHANGED <<table, files, if_exists, alone>> /\ step[u] = "check"
    BY <1>2 DEF CheckTable
  <2>. QED  BY <2>1, <1>0, FaultType
<1>3. ASSUME NEW u \in Uploads, NEW ok \in BOOLEAN, DropTable(u, ok) PROVE UploadInv'
  <2>1. Answers(u, ok, "upload") /\ UNCHANGED <<if_exists, alone>> /\ step[u] = "drop"
    BY <1>3 DEF DropTable
  <2>2. table' \in {None, table} /\ files' \subseteq files
    BY <1>3 DEF DropTable
  <2>. QED  BY <2>1, <2>2, <1>0, FaultType
<1>4. ASSUME NEW u \in Uploads, NEW ok \in BOOLEAN, upload_to_s3(u, ok) PROVE UploadInv'
  <2>1. /\ Answers(u, ok, "create") /\ UNCHANGED <<table, if_exists, alone>>
        /\ step[u] = "upload" /\ files' \subseteq files \cup {u}
    BY <1>4 DEF upload_to_s3
  <2>. QED  BY <2>1, <1>0, FaultType
<1>5. ASSUME NEW u \in Uploads, NEW ok \in BOOLEAN, CreateTable(u, ok) PROVE UploadInv'
  <2>1. /\ Answers(u, ok, IF table = None THEN "ok" ELSE "error")
        /\ UNCHANGED <<files, if_exists, alone>>
        /\ step[u] = "create" /\ table' \in {table, u}
    BY <1>5 DEF CreateTable
  <2>. QED  BY <2>1, <1>0, FaultType
<1>6. ASSUME NEW u \in Uploads, Dies(u) PROVE UploadInv'
  <2>1. step' = [step EXCEPT ![u] = "error"] /\ faults' \in 0..MaxFaults
    BY <1>6 DEF Dies, Goto
  <2>. QED  BY <1>6, <2>1 DEF Dies
<1>7. CASE UNCHANGED vars
  BY <1>7 DEF vars
<1>. QED
  BY <1>1, <1>2, <1>3, <1>4, <1>5, <1>6, <1>7 DEF Next, df_to_sql, Modes

LEMMA UploadInvariant == Spec => []UploadInv
BY UploadInitInv, UploadNextInv, PTL DEF Spec

(* The variables of all uploads keep their types, and no upload that was to   *)
(* append ever has a file or a table.                                         *)
THEOREM UploadTypeCorrect == Spec => []UploadTypeOK
BY UploadInvariant, PTL DEF UploadInv

(***************************************************************************)
(* Files left behind                                                       *)
(***************************************************************************)
AtMost(S, n) == IsFiniteSet(S) /\ Cardinality(S) <= n

LEMMA Fewer ==
    ASSUME NEW S, NEW T, T \subseteq S, NEW n \in Nat, NEW k \in Nat, n <= k, AtMost(S, n)
    PROVE  AtMost(T, k)
<1>1. IsFiniteSet(T) /\ Cardinality(T) <= Cardinality(S)
  BY FS_Subset DEF AtMost
<1>2. Cardinality(T) \in Nat /\ Cardinality(S) \in Nat
  BY <1>1, FS_CardinalityType DEF AtMost
<1>. QED  BY <1>1, <1>2 DEF AtMost

LEMMA OneMore ==
    ASSUME NEW S, NEW T, NEW x, T \subseteq S \cup {x}, NEW n \in Nat, AtMost(S, n)
    PROVE  AtMost(T, n + 1)
<1>1. IsFiniteSet(S \cup {x}) /\ Cardinality(S) \in Nat
  BY FS_AddElement, FS_CardinalityType DEF AtMost
<1>2. Cardinality(S \cup {x}) <= n + 1 /\ Cardinality(S \cup {x}) \in Nat
  BY <1>1, FS_AddElement DEF AtMost
<1>3. AtMost(S \cup {x}, n + 1)
  BY <1>1, <1>2 DEF AtMost
<1>. QED  BY <1>3, Fewer

(* While no upload has run beside another one: the one that runs stores its   *)
(* file only when there is no table, and every file that is not the table's   *)
(* or its own has cost a fault.                                               *)
AloneInv ==
    alone =>
        /\ \A u, v \in Uploads : Running(u) /\ Running(v) => u = v
        /\ table # None => table \in files
        /\ \A u \in Uploads : step[u] \in {"upload", "create"} => table = None
        /\ \A u \in Uploads :
             step[u] = "create" => u \in files /\ AtMost(files \ {u}, faults)
        /\ (\A u \in Uploads : step[u] # "create") => AtMost(files \ {table}, faults)

LEMMA AloneInit == Init => AloneInv
BY FS_EmptySet, UploadAssumption DEF Init, AloneInv, Running, AtMost

LEMMA AloneStep == UploadInv /\ AloneInv /\ [Next]_vars => AloneInv'
<1>. SUFFICES ASSUME UploadInv, AloneInv, [Next]_vars, alone' PROVE AloneInv'
  BY DEF AloneInv
<1>0. UploadTypeOK /\ faults \in Nat /\ None \notin files
  BY UploadAssumption DEF UploadInv, UploadTypeOK
<1>. USE DEF AloneInv, Running
<1>t. step \in [Uploads -> Steps]
  BY <1>0 DEF UploadTypeOK
<1>a. alone
  BY DEF Next, df_to_sql, Begin, CheckTable, DropTable, upload_to_s3, CreateTable, Dies, vars
(* The upload that moves is the only one that runs.                           *)
<1>b. ASSUME NEW u \in Uploads, Running(u)
      PROVE  \A v \in Uploads \ {u} : step[v] \in {"idle", "ok", "error"}
  BY <1>b, <1>a
<1>1. ASSUME NEW u \in Uploads, NEW mode \in Modes, Begin(u, mode)
      PROVE  AloneInv'
  <2>1. Prepares(mode) \in {"check", "drop", "error"}
    BY DEF Prepares, Modes
  <2>2. /\ step' = [step EXCEPT ![u] = Prepares(mode)]
        /\ \A v \in Uploads : ~Running(v)
        /\ UNCHANGED <<table, files, faults>>
    BY <1>1 DEF Begin, Goto
  <2>. QED  BY <1>a, <1>t, <2>1, <2>2
<1>2. ASSUME NEW u \in Uploads, NEW ok \in BOOLEAN, CheckTable(u, ok) PROVE AloneInv'
  <2>1. /\ step' = [step EXCEPT ![u] =
                      IF ok THEN IF table = None THEN "upload" ELSE "error" ELSE "error"]
        /\ faults' \in Nat /\ faults <= faults'
        /\ UNCHANGED <<table, files>> /\ Running(u) /\ step[u] = "check"
    BY <1>2, <1>0, FaultType DEF CheckTable, NoTable, Steps
  <2>2. \A v \in Uploads : step[v] # "create"
    BY <1>b, <2>1
  <2>3. AtMost(files \ {table}, faults')
    BY <1>a, <1>0, <2>1, <2>2, Fewer
  <2>. QED  BY <1>a, <1>b, <1>t, <2>1, <2>2, <2>3
<1>3. ASSUME NEW u \in Uploads, NEW ok \in BOOLEAN, DropTable(u, ok) PROVE AloneInv'
  <2>1. /\ step' = [step EXCEPT ![u] = IF ok THEN "upload" ELSE "error"]
        /\ faults' \in Nat /\ faults <= faults' /\ Running(u) /\ step[u] = "drop"
    BY <1>3, <1>0, FaultType DEF DropTable, Steps
  <2>2. \A v \in Uploads : step[v] # "create"
    BY <1>b, <2>1
  <2>3. /\ table' = None \/ UNCHANGED <<table, files>>
        /\ ok => table' = None
        /\ files' = files \/ files' = {}
        /\ files' \ {table'} \subseteq files \ {table}
    BY <1>3, <1>0 DEF DropTable
  <2>4. AtMost(files' \ {table'}, faults')
    BY <1>a, <1>0, <2>1, <2>2, <2>3, Fewer
  <2>. QED  BY <1>a, <1>b, <1>t, <2>1, <2>2, <2>3, <2>4
<1>4. ASSUME NEW u \in Uploads, NEW ok \in BOOLEAN, upload_to_s3(u, ok) PROVE AloneInv'
  <2>1. /\ step' = [step EXCEPT ![u] = IF ok THEN "create" ELSE "error"]
        /\ faults' = faults + (IF ok THEN 0 ELSE 1)
        /\ Running(u) /\ step[u] = "upload" /\ table = None /\ table' = None
        /\ files' \subseteq files \cup {u} /\ (ok => files' = files \cup {u})
    BY <1>4, <1>0, <1>a, FaultType DEF upload_to_s3, Steps
  <2>2. AtMost(files \ {table}, faults)
    BY <1>a, <1>b, <2>1
  <2>3. CASE ok
    <3>1. AtMost(files' \ {u}, faults')
      BY <2>1, <2>2, <2>3, <1>0, Fewer
    <3>. QED  BY <1>b, <1>t, <2>1, <2>3, <3>1
  <2>4. CASE ~ok
    <3>1. AtMost(files' \ {table'}, faults')
      BY <2>1, <2>2, <2>4, <1>0, OneMore
    <3>. QED  BY <1>b, <1>t, <2>1, <2>4, <3>1
  <2>. QED  BY <2>3, <2>4
<1>5. ASSUME NEW u \in Uploads, NEW ok \in BOOLEAN, CreateTable(u, ok) PROVE AloneInv'
  <2>1. /\ table = None /\ u \in files /\ AtMost(files \ {u}, faults)
        /\ Running(u) /\ step[u] = "create"
    BY <1>5, <1>a DEF CreateTable
  <2>2. /\ step' = [step EXCEPT ![u] = IF ok THEN "ok" ELSE "error"]
        /\ faults' = faults + (IF ok THEN 0 ELSE 1) /\ files' = files
        /\ table' = u \/ (~ok /\ table' = None)
    <3>1. Answers(u, ok, "ok")
      BY <1>5, <2>1 DEF CreateTable
    <3>2. files' = files /\ (table' = u \/ (~ok /\ table' = None))
      BY <1>5, <2>1 DEF CreateTable
    <3>. QED  BY <1>0, <3>1, <3>2, FaultType DEF Steps
  <2>3. AtMost(files' \ {table'}, faults')
    <3>1. CASE table' = u
      BY <3>1, <2>1, <2>2, <1>0, Fewer
    <3>2. CASE ~ok
      BY <3>2, <2>1, <2>2, <1>0, OneMore
    <3>. QED  BY <2>2, <3>1, <3>2
  <2>. QED  BY <1>b, <1>t, <2>1, <2>2, <2>3
<1>6. ASSUME NEW u \in Uploads, Dies(u) PROVE AloneInv'
  <2>1. /\ step' = [step EXCEPT ![u] = "error"] /\ faults' = faults + 1
        /\ Running(u) /\ UNCHANGED <<table, files>>
    BY <1>6 DEF Dies, Goto
  <2>2. AtMost(files \ {table}, faults + 1)
    <3>1. CASE step[u] = "create"
      BY <3>1, <1>a, <1>0, OneMore
    <3>2. CASE step[u] # "create"
      BY <3>2, <1>a, <1>b, <2>1, <1>0, Fewer
    <3>. QED  BY <3>1, <3>2
  <2>. QED  BY <1>a, <1>b, <1>t, <2>1, <2>2
<1>7. CASE UNCHANGED vars
  BY <1>7 DEF vars
<1>. QED
  BY <1>1, <1>2, <1>3, <1>4, <1>5, <1>6, <1>7 DEF Next, df_to_sql, Modes

(* As long as no two uploads overlapped, a table has its creator's rows, and  *)
(* no more files of others than there were faults.                            *)
THEOREM RowsAreOwnWhenAlone == Spec => []OwnRowsWhenAlone
<1>1. UploadInv /\ AloneInv => OwnRowsWhenAlone
  BY DEF AloneInv, OwnRowsWhenAlone, Running, AtMost
<1>. QED  BY <1>1, AloneInit, AloneStep, UploadInvariant, PTL DEF Spec
=============================================================================
