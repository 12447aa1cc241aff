-------------------------- MODULE HiveCursorProofs -------------------------
(* The stop, the progress and the results of a query, for any query: whatever *)
(* its log, however it was configured and whatever fails.                     *)
EXTENDS HiveCursor, FiniteSetTheorems, TLAPS

(* The report that crosses a stop makes the session read the row again, and   *)
(* the loop does so before it reports once more: the rest of its way leads to *)
(* the cancel, unless Hive has ended the query.                               *)
StopInv ==
    /\ {"status", "progress"} = DOMAIN row /\ row.status \in {"running", "stopped"}
    /\ \/ late = 0
       \/ /\ late = 1 /\ row.status = "stopped"
          /\ pc \in {"again", "read", "cancel", "fetch", "answered", "raised"}
          /\ pc \in {"again", "read"} => expired

LEMMA StopInit == Init => StopInv
BY DEF Init, StopInv

LEMMA StopStep == StopInv /\ [Next]_vars => StopInv'
<1>. SUFFICES ASSUME StopInv, [Next]_vars PROVE StopInv'
  OBVIOUS
<1>. USE DEF StopInv
<1>1. CASE Poll
  BY <1>1 DEF Poll, hiveVars, dbVars
<1>2. CASE ReadQuery
  BY <1>2 DEF ReadQuery, hiveVars, dbVars
<1>3. CASE Cancel
  BY <1>3 DEF Cancel, dbVars, AfterCancel
<1>4. CASE FetchLogs
  BY <1>4 DEF FetchLogs, hiveVars, dbVars
<1>5. CASE Report
  <2>1. pc = "report" /\ late = 0 /\ pc' \in {"raised", "again"}
    BY <1>5 DEF Report
  <2>2. CASE UNCHANGED dbVars
    BY <2>1, <2>2 DEF dbVars
  <2>3. CASE ~UNCHANGED dbVars
    <3>1. /\ row' = row \/ row' = [row EXCEPT !.progress = progress(SubSeq(log, skipped + 1, fetched))]
          /\ late' = late + (IF row.status = "stopped" THEN 1 ELSE 0)
          /\ expired' = TRUE /\ pc' = "again"
      BY <1>5, <2>3 DEF Report
    <3>2. row'.status = row.status /\ DOMAIN row' = DOMAIN row
      BY <3>1
    <3>. QED  BY <2>1, <3>1, <3>2
  <2>. QED  BY <2>2, <2>3
<1>6. CASE fetch_data
  BY <1>6 DEF fetch_data, dbVars
<1>7. CASE Raises
  BY <1>7 DEF Raises, dbVars
<1>8. CASE Hive
  BY <1>8 DEF Hive, dbVars, loopVars
<1>9. CASE Stop
  BY <1>9 DEF Stop, loopVars
<1>10. CASE UNCHANGED vars
  BY <1>10 DEF vars, dbVars, loopVars
<1>. QED
  BY <1>1, <1>2, <1>3, <1>4, <1>5, <1>6, <1>7, <1>8, <1>9, <1>10 DEF Next, handle_cursor

(* A query that was stopped is reported on once more at most.                 *)
THEOREM StopIsHeard == Spec => []StopHeard
<1>1. StopInv => StopHeard
  BY DEF StopInv, StopHeard
<1>. QED  BY <1>1, StopInit, StopStep, PTL DEF Spec

(***************************************************************************)
(* Progress                                                                *)
(***************************************************************************)
(* The session's copy has the progress of the row until the session commits,  *)
(* and it is read again before the loop compares with it.                     *)
CopyInv ==
    /\ {"status", "progress"} = DOMAIN row
    /\ ~expired => copy.progress = row.progress
    /\ pc \in {"cancel", "logs", "report"} => ~expired

LEMMA CopyInit == Init => CopyInv
BY DEF Init, CopyInv

LEMMA CopyStep == CopyInv /\ [Next]_vars => CopyInv'
<1>. SUFFICES ASSUME CopyInv, [Next]_vars PROVE CopyInv'
  OBVIOUS
<1>. USE DEF CopyInv
<1>1. CASE Poll
  BY <1>1 DEF Poll, hiveVars, dbVars
<1>2. CASE ReadQuery
  BY <1>2 DEF ReadQuery, hiveVars, dbVars
<1>3. CASE Cancel
  BY <1>3 DEF Cancel, dbVars, AfterCancel
<1>4. CASE FetchLogs
  BY <1>4 DEF FetchLogs, hiveVars, dbVars
<1>5. CASE Report
  <2>1. copy' = copy /\ pc' \in {"raised", "again"}
    BY <1>5 DEF Report
  <2>2. \/ UNCHANGED <<row, expired>>
        \/ /\ expired' = TRUE
           /\ row' = row \/ row' = [row EXCEPT !.progress = progress(SubSeq(log, skipped + 1, fetched))]
    BY <1>5 DEF Report, dbVars
  <2>. QED  BY <2>1, <2>2
<1>6. CASE fetch_data
  BY <1>6 DEF fetch_data, dbVars
<1>7. CASE Raises
  BY <1>7 DEF Raises, dbVars
<1>8. CASE Hive
  BY <1>8 DEF Hive, dbVars, loopVars
<1>9. CASE Stop
  BY <1>9 DEF Stop, loopVars
<1>10. CASE UNCHANGED vars
  BY <1>10 DEF vars, dbVars, loopVars
<1>. QED
  BY <1>1, <1>2, <1>3, <1>4, <1>5, <1>6, <1>7, <1>8, <1>9, <1>10 DEF Next, handle_cursor

(* The progress shown for a query never goes back, whatever of its log a      *)
(* round gets to read: all of it, what is new, or nothing.                    *)
THEOREM ProgressOnlyGrows == Spec => ProgressGrows
<1>. DEFINE Grows == row'.progress # row.progress => row'.progress > row.progress
<1>1. CopyInv /\ [Next]_vars => [Grows]_vars
  <2>. SUFFICES ASSUME CopyInv, Next PROVE Grows
    OBVIOUS
  <2>1. CASE Report
    <3>. DEFINE lines == SubSeq(log, skipped + 1, fetched)
    <3>1. copy.progress = row.progress
      BY <2>1 DEF Report, CopyInv
    <3>2. row' = row \/ (Grown(lines) /\ row' = [row EXCEPT !.progress = progress(lines)])
      BY <2>1 DEF Report, dbVars
    <3>3. CASE Grown(lines) /\ row' = [row EXCEPT !.progress = progress(lines)]
      <4>1. row'.progress = progress(lines)
        BY <3>3 DEF CopyInv
      <4>. QED  BY <3>1, <3>3, <4>1 DEF Grown
    <3>. QED  BY <3>2, <3>3
  <2>2. CASE Stop
    BY <2>2 DEF Stop, CopyInv
  <2>3. CASE ~Report /\ ~Stop
    <3>1. row' = row
      BY <2>3 DEF Next, handle_cursor, Poll, ReadQuery, Cancel, FetchLogs, fetch_data,
                  Raises, Hive, hiveVars, dbVars
    <3>. QED  BY <3>1
  <2>. QED  BY <2>1, <2>2, <2>3
<1>. QED  BY <1>1, CopyInit, CopyStep, PTL DEF Spec, ProgressGrows

(***************************************************************************)
(* Results                                                                 *)
(***************************************************************************)
(* The loop is left for the fetch when Hive has ended the query or is taken   *)
(* to have, and what has ended stays as it is: a later poll of an ended query *)
(* answers what the first has answered.                                       *)
FinalInv ==
    /\ op \in States
    /\ pc = "fetch" => op \in Ended \/ polled \in {"PENDING", "UKNOWN"}
    /\ pc = "answered" => op \in Ended \ {"ERROR"} \/ polled \in {"PENDING", "UKNOWN"}

LEMMA FinalInit == Init => FinalInv
BY DEF Init, FinalInv, States

LEMMA FinalStep == FinalInv /\ [Next]_vars => FinalInv'
<1>. SUFFICES ASSUME FinalInv, [Next]_vars PROVE FinalInv'
  OBVIOUS
<1>. USE DEF FinalInv, States, Ended
<1>1. CASE Poll
  BY <1>1 DEF Poll, hiveVars, CurrentState, Unfinished
<1>2. CASE ReadQuery
  BY <1>2 DEF ReadQuery, hiveVars
<1>3. CASE Cancel
  BY <1>3 DEF Cancel, AfterCancel
<1>4. CASE FetchLogs
  BY <1>4 DEF FetchLogs, hiveVars
<1>5. CASE Report
  BY <1>5 DEF Report, hiveVars
<1>6. CASE fetch_data
  BY <1>6 DEF fetch_data, hiveVars
<1>7. CASE Raises
  BY <1>7 DEF Raises, hiveVars
<1>8. CASE Hive
  BY <1>8 DEF Hive, Starts, Prints, Logs, Ends, loopVars
<1>9. CASE Stop
  BY <1>9 DEF Stop, hiveVars, loopVars
<1>10. CASE UNCHANGED vars
  BY <1>10 DEF vars, hiveVars, loopVars
<1>. QED
  BY <1>1, <1>2, <1>3, <1>4, <1>5, <1>6, <1>7, <1>8, <1>9, <1>10 DEF Next, handle_cursor

(* What is fetched from has ended, one way or another, and has not failed,    *)
(* unless the last poll had found it PENDING or UKNOWN.                       *)
THEOREM FetchesWhatEnded == Spec => []ResultsAreFinal
<1>1. FinalInv => ResultsAreFinal
  BY DEF FinalInv, ResultsAreFinal
<1>. QED  BY <1>1, FinalInit, FinalStep, PTL DEF Spec

(***************************************************************************)
(* Arithmetic                                                              *)
(***************************************************************************)
(* The greatest of some numbers is one of them: what lies above it within 0..n*)
(* is a least strict subset.                                                  *)
LEMMA MaxIn ==
    ASSUME NEW n \in Nat, NEW S \in SUBSET (0..n), S # {}
    PROVE  Max(S) \in S /\ \A i \in S : i <= Max(S)
<1>. DEFINE Above(i) == {j \in 0..n : i <= j}
            U == {Above(i) : i \in S}
            R == StrictSubsetOrdering(0..n)
<1>1. IsWellFoundedOn(R, SUBSET (0..n))
  <2>1. 0 \in Int /\ n \in Int
    OBVIOUS
  <2>2. IsFiniteSet(0..n)
    BY <2>1, FS_Interval, Zenon
  <2>3. FiniteSubsetsOf(0..n) = SUBSET (0..n)
    BY <2>2, FS_FiniteSubsetsOfFinite
  <2>4. IsWellFoundedOn(R, FiniteSubsetsOf(0..n))
    BY FS_StrictSubsetOrderingWellFounded
  <2>. QED  BY <2>3, <2>4
<1>2. U \subseteq SUBSET (0..n) /\ U # {}
  OBVIOUS
<1>3. PICK u \in U : \A v \in U : <<v, u>> \notin R
  <2>. HIDE DEF U, R
  <2>. QED  BY <1>1, <1>2, WFMin
<1>4. PICK i \in S : u = Above(i)
  OBVIOUS
<1>5. ASSUME NEW j \in S, i < j PROVE FALSE
  <2>1. Above(j) \subseteq Above(i) /\ i \in Above(i) /\ i \notin Above(j)
    BY <1>5
  <2>2. Above(j) \in U /\ Above(j) \in SUBSET (0..n) /\ Above(i) \in SUBSET (0..n)
    OBVIOUS
  <2>. HIDE DEF Above, U
  <2>. QED  BY <1>3, <1>4, <2>1, <2>2 DEF StrictSubsetOrdering
<1>6. i \in S /\ \A j \in S : i >= j
  BY <1>5
<1>7. Max(S) \in S /\ \A j \in S : Max(S) >= j
  BY <1>6 DEF Max
<1>. QED  BY <1>7

(* The sum over the stages, of which none is past 200.                        *)
LEMMA SumBound ==
    ASSUME NEW D, IsFiniteSet(D), NEW f \in [D -> 0..200]
    PROVE  /\ SumOf(f) \in Nat /\ SumOf(f) <= 200 * Cardinality(D)
           /\ (\A x \in D : f[x] = 0) => SumOf(f) = 0
<1>. DEFINE P == UNION {{x} \X (1..f[x]) : x \in DOMAIN f}
<1>1. P \subseteq D \X (1..200)
  <2>1. ASSUME NEW x \in D PROVE {x} \X (1..f[x]) \subseteq D \X (1..200)
    <3>1. f[x] \in 0..200
      OBVIOUS
    <3>. QED  BY <3>1
  <2>. QED  BY <2>1
<1>2. IsFiniteSet(1..200) /\ Cardinality(1..200) = 200
  <2>1. 1 \in Int /\ 200 \in Int
    OBVIOUS
  <2>2. IsFiniteSet(1..200) /\ Cardinality(1..200) = IF 1 > 200 THEN 0 ELSE 200 - 1 + 1
    BY <2>1, FS_Interval, Zenon
  <2>. QED  BY <2>2
<1>3. IsFiniteSet(D \X (1..200)) /\ Cardinality(D \X (1..200)) = Cardinality(D) * 200
  BY <1>2, FS_Product
<1>4. IsFiniteSet(P) /\ Cardinality(P) <= Cardinality(D) * 200
  BY <1>1, <1>3, FS_Subset
<1>5. Cardinality(P) \in Nat /\ Cardinality(D) \in Nat
  BY <1>4, FS_CardinalityType
<1>6. ASSUME \A x \in D : f[x] = 0 PROVE Cardinality(P) = 0
  <2>1. P = {}
    <3>1. ASSUME NEW x \in D PROVE 1..f[x] = {}
      BY <1>6
    <3>. QED  BY <3>1
  <2>. QED  BY <2>1, FS_EmptySet
<1>7. SumOf(f) = Cardinality(P)
  BY DEF SumOf
<1>. HIDE DEF P
<1>. QED  BY <1>4, <1>5, <1>6, <1>7

(* A quotient that is cut to an integer.                                      *)
LEMMA DivBound ==
    ASSUME NEW a \in Nat, NEW b \in Nat \ {0}
    PROVE  (a \div b) \in Nat /\ b * (a \div b) <= a
OBVIOUS

LEMMA FactorOut ==
    ASSUME NEW k \in Nat \ {0}, NEW x \in Nat, NEW y \in Nat, k * x <= k * y
    PROVE  x <= y
OBVIOUS

(* Of a total of T jobs B are done; the mean adds one at most, and nothing    *)
(* when the stages have got nowhere.                                          *)
LEMMA AveragedBound ==
    ASSUME NEW k \in Nat \ {0}, NEW T \in Nat \ {0}, NEW B \in Nat,
           NEW d \in Nat, d <= 200 * k
    PROVE  /\ Averaged(d, k, B, T) \in Nat
           /\ Averaged(d, k, B, T) * T <= 100 * B + 100
           /\ d = 0 => Averaged(d, k, B, T) * T <= 100 * B
<1>. DEFINE p == Averaged(d, k, B, T)
            a == 200 * k * B + d
            b == 2 * k * T
<1>1. a \in Nat /\ b \in Nat \ {0}
  OBVIOUS
<1>2. p \in Nat /\ b * p <= a
  BY <1>1, DivBound DEF Averaged
<1>3. b * p = 2 * k * (p * T)
  BY <1>2
<1>4. a <= 2 * k * (100 * B + 100) /\ (d = 0 => a = 2 * k * (100 * B))
  OBVIOUS
<1>. HIDE DEF a, b, p
<1>5. p * T \in Nat /\ 2 * k \in Nat \ {0} /\ 100 * B + 100 \in Nat /\ 100 * B \in Nat
  BY <1>2
<1>6. 2 * k * (p * T) <= 2 * k * (100 * B + 100)
  BY <1>1, <1>2, <1>3, <1>4, <1>5
<1>7. p * T <= 100 * B + 100
  BY <1>5, <1>6, FactorOut
<1>8. ASSUME d = 0 PROVE p * T <= 100 * B
  <2>1. 2 * k * (p * T) <= 2 * k * (100 * B)
    BY <1>1, <1>2, <1>3, <1>4, <1>5, <1>8
  <2>. QED  BY <1>5, <2>1, FactorOut
<1>. QED  BY <1>2, <1>7, <1>8 DEF p

(***************************************************************************)
(* The log                                                                 *)
(***************************************************************************)
LineSet ==
    {TotalLine(jobs), UrlLine} \cup {LaunchLine(j, jobs) : j \in 1..jobs}
        \cup {StageLine(s, p) : s \in Stages, p \in Percents}

UpTo(n) == {l \in Launches : l <= n}

(* The log begins with the number of jobs, counts the launches, and has       *)
(* stages only of jobs that were launched.                                    *)
LogInv ==
    /\ jobs \in 0..MaxJobs /\ log \in Seq(LineSet) /\ Len(log) <= MaxLines
    /\ log # <<>> => log[1].line = "total"
    /\ \A i \in Launches : log[i].job = Cardinality(UpTo(i))
    /\ Job <= jobs
    /\ \A i \in 1..Len(log) : log[i].line = "stage" => \E l \in Launches : l < i

(* What Hive has done for the query, in hundredths of a job.                  *)
Honest(p) ==
    IF Job = 0 THEN p = 0 ELSE p * jobs <= 100 * (Job - 1) + (IF Worked THEN 100 ELSE 0)

(* Bounds that make a progress honest.                                        *)
LEMMA HonestUpTo ==
    ASSUME NEW p \in Nat, jobs \in Nat, Job \in Nat, Job = 0 => p = 0
    PROVE  /\ p * jobs <= 100 * (Job - 1) => Honest(p)
           /\ p * jobs <= 100 * (Job - 1) + 100 /\ Worked => Honest(p)
           /\ p = 0 => Honest(p)
<1>. DEFINE q == p * jobs
<1>1. q \in Nat /\ (p = 0 => q = 0)
  OBVIOUS
<1>2. Honest(p) <=> IF Job = 0 THEN p = 0 ELSE q <= 100 * (Job - 1) + (IF Worked THEN 100 ELSE 0)
  BY DEF Honest
<1>. HIDE DEF q
<1>3. q <= 100 * (Job - 1) => Honest(p)
  BY <1>1, <1>2
<1>4. q <= 100 * (Job - 1) + 100 /\ Worked => Honest(p)
  BY <1>1, <1>2
<1>5. p = 0 => Honest(p)
  BY <1>1, <1>2
<1>. QED  BY <1>3, <1>4, <1>5 DEF q

(* What the lines of each kind name.                                          *)
LEMMA LineFacts ==
    ASSUME NEW l \in LineSet, jobs \in Nat
    PROVE  /\ l.line \in {"total", "launch", "stage", "url"}
           /\ l.line \in {"total", "launch"} => l.total = jobs
           /\ l.line = "launch" => l.job \in 1..jobs
           /\ l.line = "stage" => l.map \in 0..100 /\ l.reduce \in 0..100
BY CursorAssumption DEF LineSet, TotalLine, UrlLine, LaunchLine, StageLine

(* The launches, and those up to some line.                                   *)
LEMMA LaunchesFinite ==
    ASSUME LogInv, NEW n \in Nat
    PROVE  /\ IsFiniteSet(Launches) /\ Job \in Nat /\ Launches \subseteq 1..Len(log)
           /\ IsFiniteSet(UpTo(n)) /\ Cardinality(UpTo(n)) \in Nat
           /\ Cardinality(UpTo(n)) <= Job
           /\ Cardinality(UpTo(n)) = Job => UpTo(n) = Launches
           /\ Cardinality(UpTo(n)) = 0 => UpTo(n) = {}
<1>1. Launches \subseteq 1..Len(log) /\ 1 \in Int /\ Len(log) \in Int
  BY DEF LogInv, Launches, LaunchesIn
<1>2. IsFiniteSet(1..Len(log))
  BY <1>1, FS_Interval, Zenon
<1>3. IsFiniteSet(Launches)
  BY <1>1, <1>2, FS_Subset
<1>4. UpTo(n) \in SUBSET Launches
  BY DEF UpTo
<1>. QED  BY <1>1, <1>3, <1>4, FS_Subset, FS_CardinalityType, FS_EmptySet DEF Job

(* What a round sees that got n lines.                                        *)
LEMMA Prefix ==
    ASSUME LogInv, NEW n \in 1..Len(log), NEW lines, lines = SubSeq(log, 1, n)
    PROVE  /\ DOMAIN lines = 1..n /\ \A i \in 1..n : lines[i] = log[i]
           /\ LaunchesIn(lines) = UpTo(n)
           /\ SinceLaunch(lines) =
                {i \in 1..n : log[i].line = "stage" /\ \A l \in UpTo(n) : l < i}
           /\ total_jobs(lines) = OrOne(jobs)
<1>1. log \in Seq(LineSet) /\ Len(log) \in Nat /\ jobs \in Nat
  BY CursorAssumption DEF LogInv
<1>2. DOMAIN lines = 1..n /\ \A i \in 1..n : lines[i] = log[i]
  BY <1>1
<1>3. LaunchesIn(lines) = UpTo(n)
  BY <1>1, <1>2 DEF LaunchesIn, UpTo, Launches
<1>4. SinceLaunch(lines) = {i \in 1..n : log[i].line = "stage" /\ \A l \in UpTo(n) : l < i}
  BY <1>2, <1>3 DEF SinceLaunch, StageLines
<1>5. total_jobs(lines) = OrOne(jobs)
  <2>. DEFINE counts == {i \in DOMAIN lines : lines[i].line \in {"total", "launch"}}
  <2>1. counts \in SUBSET (0..n) /\ 1 \in counts /\ n \in Nat
    BY <1>1, <1>2 DEF LogInv
  <2>2. Max(counts) \in counts
    <3>. HIDE DEF counts
    <3>. QED  BY <2>1, MaxIn
  <2>3. lines[Max(counts)].total = jobs
    <3>1. Max(counts) \in 1..n /\ lines[Max(counts)].line \in {"total", "launch"}
      BY <1>2, <2>2
    <3>2. lines[Max(counts)] \in LineSet
      <4>1. \A i \in 1..n : lines[i] \in LineSet
        BY <1>1, <1>2
      <4>. HIDE DEF counts
      <4>. QED  BY <3>1, <4>1
    <3>3. \A l \in LineSet : l.line \in {"total", "launch"} => l.total = jobs
      BY <1>1, LineFacts
    <3>. QED  BY <3>1, <3>2, <3>3
  <2>. QED  BY <2>1, <2>3 DEF total_jobs
<1>. QED  BY <1>2, <1>3, <1>4, <1>5

(* The stages of the job that was launched last in any lines of a log.        *)
LEMMA StageValues ==
    ASSUME jobs \in Nat, NEW lines \in Seq(LineSet)
    PROVE  LET D == DOMAIN stages(lines)
           IN  /\ IsFiniteSet(D)
               /\ stages(lines) \in [D -> 0..200]
               /\ D # {} => SinceLaunch(lines) # {}
               /\ (\A i \in SinceLaunch(lines) : lines[i].map + lines[i].reduce = 0)
                     => \A s \in D : stages(lines)[s] = 0
<1>. DEFINE D == DOMAIN stages(lines)
            since == SinceLaunch(lines)
            n == Len(lines)
            Of(s) == {i \in since : lines[i].stage = s}
<1>1. n \in Nat /\ since \subseteq 1..n /\ \A i \in since : lines[i].line = "stage"
  BY DEF SinceLaunch, StageLines
<1>2. D = {lines[i].stage : i \in since}
  BY DEF stages
<1>3. IsFiniteSet(D)
  <2>1. IsFiniteSet(1..n)
    <3>1. 1 \in Int /\ n \in Int
      BY <1>1
    <3>. HIDE DEF n
    <3>. QED  BY <3>1, FS_Interval, Zenon
  <2>2. IsFiniteSet(since)
    BY <1>1, <2>1, FS_Subset
  <2>. DEFINE f == [i \in since |-> lines[i].stage]
  <2>3. f \in Surjection(since, D)
    BY <1>2 DEF Surjection
  <2>. HIDE DEF f, since, D
  <2>. QED  BY <2>2, <2>3, FS_Surjection
<1>4. ASSUME NEW s \in D
      PROVE  \E i \in since : stages(lines)[s] = lines[i].map + lines[i].reduce
  <2>1. Of(s) \in SUBSET (0..n) /\ Of(s) # {} /\ n \in Nat
    BY <1>1, <1>2
  <2>2. Max(Of(s)) \in Of(s)
    <3>. HIDE DEF Of, n
    <3>. QED  BY <2>1, MaxIn
  <2>3. stages(lines)[s] = lines[Max(Of(s))].map + lines[Max(Of(s))].reduce
    BY <1>2 DEF stages
  <2>. QED  BY <1>1, <2>2, <2>3
<1>5. ASSUME NEW i \in since PROVE lines[i].map + lines[i].reduce \in 0..200
  <2>1. lines[i] \in LineSet /\ lines[i].line = "stage"
    BY <1>1
  <2>2. lines[i].map \in 0..100 /\ lines[i].reduce \in 0..100
    BY <2>1, LineFacts
  <2>3. \A x, y \in 0..100 : x + y \in 0..200
    OBVIOUS
  <2>. QED  BY <2>2, <2>3
<1>6. stages(lines) \in [D -> 0..200]
  <2>1. stages(lines) = [s \in D |-> stages(lines)[s]]
    BY DEF stages
  <2>. HIDE DEF D, since
  <2>. QED  BY <1>4, <1>5, <2>1
<1>7. (\A i \in since : lines[i].map + lines[i].reduce = 0) => \A s \in D : stages(lines)[s] = 0
  <2>. HIDE DEF D, since
  <2>. QED  BY <1>4
<1>8. D # {} => since # {}
  BY <1>2
<1>. QED  BY <1>3, <1>6, <1>7, <1>8

(* Whatever lines a round has got, their progress is a percentage.            *)
LEMMA ProgressRange ==
    ASSUME jobs \in Nat, NEW lines \in Seq(LineSet)
    PROVE  progress(lines) \in 0..100
<1>. DEFINE n == Len(lines)
            D == DOMAIN stages(lines)
            k == Cardinality(D)
            T == total_jobs(lines)
            b == current_job(lines) - 1
            d == SumOf(stages(lines))
            p == progress(lines)
            counts == {i \in DOMAIN lines : lines[i].line \in {"total", "launch"}}
            L == LaunchesIn(lines)
<1>1. /\ n \in Nat /\ counts \in SUBSET (0..n) /\ L \in SUBSET (0..n) /\ L \subseteq counts
      /\ \A i \in counts : lines[i] \in LineSet /\ lines[i].line \in {"total", "launch"}
      /\ \A i \in L : lines[i] \in LineSet /\ lines[i].line = "launch"
  BY DEF LaunchesIn
<1>2. counts # {} => T = OrOne(jobs)
  <2>1. ASSUME counts # {} PROVE lines[Max(counts)].total = jobs
    <3>1. Max(counts) \in counts
      <4>. HIDE DEF counts, n
      <4>. QED  BY <1>1, <2>1, MaxIn
    <3>. HIDE DEF counts
    <3>. QED  BY <1>1, <3>1, LineFacts
  <2>. QED  BY <2>1 DEF total_jobs
<1>3. counts = {} => T = 1
  BY DEF total_jobs
<1>4. L = {} => b = 0
  BY DEF current_job
<1>5. L # {} => b \in Nat /\ b + 1 \in 1..jobs
  <2>1. ASSUME L # {} PROVE lines[Max(L)].job \in 1..jobs
    <3>1. Max(L) \in L
      <4>. HIDE DEF L, n
      <4>. QED  BY <1>1, <2>1, MaxIn
    <3>. HIDE DEF L
    <3>. QED  BY <1>1, <3>1, LineFacts
  <2>2. ASSUME L # {} PROVE current_job(lines) = lines[Max(L)].job
    BY <2>2 DEF current_job
  <2>3. \A x \in 1..jobs : x - 1 \in Nat /\ (x - 1) + 1 = x
    OBVIOUS
  <2>. HIDE DEF L
  <2>. QED  BY <2>1, <2>2, <2>3
<1>6. T \in Nat \ {0} /\ b \in Nat /\ b + 1 <= T
  <2>1. OrOne(jobs) \in Nat \ {0} /\ jobs <= OrOne(jobs)
    BY DEF OrOne
  <2>2. CASE L = {}
    <3>. HIDE DEF T, b, counts, L
    <3>. QED  BY <1>2, <1>3, <1>4, <2>1, <2>2
  <2>3. CASE L # {}
    <3>1. counts # {}
      BY <1>1, <2>3
    <3>. HIDE DEF T, b, counts, L
    <3>. QED  BY <1>2, <1>5, <2>1, <2>3, <3>1
  <2>. QED  BY <2>2, <2>3
<1>7. IsFiniteSet(D) /\ stages(lines) \in [D -> 0..200] /\ k \in Nat
  BY StageValues, FS_CardinalityType
<1>8. p \in Nat /\ p * T <= 100 * b + 100
  <2>1. CASE k = 0
    <3>1. p = (100 * b) \div T
      BY <2>1 DEF progress
    <3>2. 100 * b \in Nat
      BY <1>6
    <3>3. (100 * b) \div T \in Nat /\ T * ((100 * b) \div T) <= 100 * b
      <4>. HIDE DEF T, b
      <4>. QED  BY <1>6, <3>2, DivBound
    <3>. HIDE DEF p, T, b, k
    <3>. QED  BY <1>6, <3>1, <3>2, <3>3
  <2>2. CASE k # 0
    <3>1. d \in Nat /\ d <= 200 * k
      BY <1>7, SumBound
    <3>2. p = Averaged(d, k, b, T)
      BY <2>2 DEF progress
    <3>. HIDE DEF p, T, b, k, d
    <3>. QED  BY <1>6, <1>7, <2>2, <3>1, <3>2, AveragedBound
  <2>. QED  BY <2>1, <2>2
<1>9. p <= 100
  <2>1. T * p <= T * 100 /\ 100 \in Nat
    <3>1. p * T \in Nat /\ T * p = p * T
      <4>. HIDE DEF p, T, b
      <4>. QED  BY <1>6, <1>8
    <3>2. 100 * b + 100 <= T * 100 /\ 100 * b \in Nat
      <4>. HIDE DEF p, T, b
      <4>. QED  BY <1>6
    <3>. DEFINE q == p * T
    <3>. HIDE DEF p, T, b, q
    <3>3. q \in Nat /\ q <= 100 * b + 100 /\ T \in Nat /\ b \in Nat
      BY <1>6, <1>8, <3>1 DEF q
    <3>4. q <= T * 100
      BY <3>2, <3>3
    <3>. QED  BY <3>1, <3>4 DEF q
  <2>2. p \in Nat /\ T \in Nat \ {0}
    BY <1>6, <1>8
  <2>. HIDE DEF p, T
  <2>. QED  BY <2>1, <2>2, FactorOut
<1>10. p \in 0..100
  <2>. HIDE DEF p, b, T
  <2>. QED  BY <1>8, <1>9
<1>. QED  BY <1>10

(* Progress read off the log from its start, as far as a round has got it, is *)
(* not ahead of Hive.                                                         *)
LEMMA ProgressBound ==
    ASSUME LogInv, NEW n \in 1..Len(log)
    PROVE  progress(SubSeq(log, 1, n)) \in Nat /\ Honest(progress(SubSeq(log, 1, n)))
<1>. DEFINE lines == SubSeq(log, 1, n)
            D == DOMAIN stages(lines)
            k == Cardinality(D)
            T == total_jobs(lines)
            p == progress(lines)
<1>. SUFFICES p \in Nat /\ Honest(p)
  OBVIOUS
<1>0. /\ jobs \in Nat /\ Len(log) \in Nat /\ n \in Nat
      /\ IsFiniteSet(Launches) /\ Launches \subseteq 1..Len(log)
      /\ Job \in Nat /\ Job <= jobs /\ T = OrOne(jobs) /\ T \in Nat \ {0}
  <2>1. jobs \in Nat /\ Len(log) \in Nat /\ n \in Nat /\ Job <= jobs
    BY CursorAssumption DEF LogInv
  <2>2. IsFiniteSet(Launches) /\ Job \in Nat /\ Launches \subseteq 1..Len(log)
    BY <2>1, LaunchesFinite
  <2>3. T = OrOne(jobs)
    BY Prefix
  <2>4. OrOne(jobs) \in Nat \ {0}
    BY <2>1 DEF OrOne
  <2>. HIDE DEF T
  <2>. QED  BY <2>1, <2>2, <2>3, <2>4
<1>1. /\ LaunchesIn(lines) = UpTo(n) /\ \A i \in 1..n : lines[i] = log[i]
      /\ SinceLaunch(lines) = {i \in 1..n : log[i].line = "stage" /\ \A l \in UpTo(n) : l < i}
  BY Prefix
<1>2. /\ IsFiniteSet(D) /\ stages(lines) \in [D -> 0..200]
      /\ D # {} => SinceLaunch(lines) # {}
      /\ (\A i \in SinceLaunch(lines) : log[i].map + log[i].reduce = 0)
            => \A s \in D : stages(lines)[s] = 0
  <2>1. jobs \in Nat /\ lines \in Seq(LineSet)
    BY <1>0 DEF LogInv
  <2>2. \A i \in SinceLaunch(lines) : lines[i] = log[i]
    BY <1>1
  <2>. QED  BY <2>1, <2>2, StageValues
<1>3. k \in Nat /\ (k = 0 <=> D = {})
  BY <1>2, FS_CardinalityType, FS_EmptySet
<1>4. p = IF k = 0 THEN (100 * (current_job(lines) - 1)) \div T
          ELSE Averaged(SumOf(stages(lines)), k, current_job(lines) - 1, T)
  BY DEF progress
<1>5. CASE UpTo(n) = {}
  <2>1. SinceLaunch(lines) = {}
    <3>1. ASSUME NEW i \in 1..n, log[i].line = "stage" PROVE FALSE
      <4>1. i \in 1..Len(log)
        BY <1>0
      <4>2. PICK l \in Launches : l < i
        BY <3>1, <4>1 DEF LogInv
      <4>3. l \in Nat /\ l <= n
        BY <1>0, <4>2
      <4>. QED  BY <1>5, <4>3 DEF UpTo
    <3>. QED  BY <1>1, <3>1
  <2>2. k = 0 /\ current_job(lines) = 1
    BY <1>1, <1>2, <1>3, <1>5, <2>1 DEF current_job
  <2>3. p = 0
    <3>1. 100 * (1 - 1) = 0 /\ 0 \div T = 0
      BY <1>0
    <3>. QED  BY <1>4, <2>2, <3>1
  <2>4. Honest(0)
    BY <1>0, HonestUpTo
  <2>. HIDE DEF p
  <2>. QED  BY <2>3, <2>4, Zenon
<1>6. CASE UpTo(n) # {}
  <2>. DEFINE x == Max(UpTo(n))
              j == current_job(lines)
  <2>1. x \in UpTo(n) /\ \A l \in UpTo(n) : l <= x
    <3>1. UpTo(n) \in SUBSET (0..n)
      <4>1. ASSUME NEW l \in UpTo(n) PROVE l \in 0..n
        <5>1. l \in Launches /\ l <= n
          BY DEF UpTo
        <5>2. l \in 1..Len(log)
          BY <1>0, <5>1
        <5>. QED  BY <1>0, <5>1, <5>2
      <4>. QED  BY <4>1
    <3>. QED  BY <1>0, <1>6, <3>1, MaxIn
  <2>2. x \in 1..n /\ x \in Launches /\ UpTo(x) = UpTo(n)
    <3>1. x \in 1..n /\ x \in Launches
      <4>. HIDE DEF x
      <4>. QED  BY <1>0, <2>1 DEF UpTo
    <3>2. \A l \in Launches : l \in Nat
      BY <1>0
    <3>3. \A l \in UpTo(n) : l \in UpTo(x)
      BY <2>1 DEF UpTo
    <3>4. \A l \in UpTo(x) : l \in UpTo(n)
      <4>. HIDE DEF x
      <4>1. ASSUME NEW l \in UpTo(x) PROVE l \in UpTo(n)
        <5>1. l \in Launches /\ l \in Nat /\ l <= x
          BY <3>2 DEF UpTo
        <5>. QED  BY <1>0, <3>1, <5>1 DEF UpTo
      <4>. QED  BY <4>1
    <3>. QED  BY <3>1, <3>3, <3>4
  <2>3. j = Cardinality(UpTo(n))
    <3>1. j = log[x].job
      BY <1>1, <1>6, <2>2 DEF current_job
    <3>2. log[x].job = Cardinality(UpTo(x))
      BY <2>2 DEF LogInv
    <3>. QED  BY <2>2, <3>1, <3>2
  <2>4. j \in 1..Job /\ (j = Job => UpTo(n) = Launches)
    <3>1. /\ Cardinality(UpTo(n)) \in Nat /\ Cardinality(UpTo(n)) <= Job
          /\ Cardinality(UpTo(n)) = Job => UpTo(n) = Launches
          /\ Cardinality(UpTo(n)) # 0
      BY <1>0, <1>6, LaunchesFinite
    <3>. HIDE DEF j
    <3>. QED  BY <1>0, <2>3, <3>1
  <2>5. T = jobs /\ jobs >= 1
    <3>. HIDE DEF j, T
    <3>. QED  BY <1>0, <2>4 DEF OrOne
  <2>. DEFINE b == j - 1
              idle == \A i \in SinceLaunch(lines) : log[i].map + log[i].reduce = 0
  <2>6. b \in Nat /\ 100 * b \in Nat /\ b + 1 <= Job
    <3>. HIDE DEF j
    <3>. QED  BY <1>0, <2>4
  <2>7. p \in Nat /\ p * T <= 100 * b + 100 /\ (idle => p * T <= 100 * b)
    <3>1. CASE k = 0
      <4>1. p = (100 * b) \div T
        BY <1>4, <3>1
      <4>2. (100 * b) \div T \in Nat /\ T * ((100 * b) \div T) <= 100 * b
        <5>. HIDE DEF T, b
        <5>. QED  BY <1>0, <2>6, DivBound
      <4>. HIDE DEF p, T, b, k
      <4>. QED  BY <1>0, <2>6, <4>1, <4>2
    <3>2. CASE k # 0
      <4>. DEFINE d == SumOf(stages(lines))
      <4>1. d \in Nat /\ d <= 200 * k /\ (idle => d = 0)
        BY <1>2, SumBound
      <4>2. p = Averaged(d, k, b, T)
        BY <1>4, <3>2
      <4>. HIDE DEF p, T, b, k, d, idle
      <4>. QED  BY <1>0, <1>3, <2>6, <3>2, <4>1, <4>2, AveragedBound
    <3>. QED  BY <3>1, <3>2
  <2>8. CASE j = Job
    <3>1. ~idle => Worked
      <4>1. ASSUME NEW i \in SinceLaunch(lines), log[i].map + log[i].reduce # 0
            PROVE  Worked
        <5>1. i \in 1..Len(log) /\ log[i].line = "stage" /\ \A l \in Launches : l < i
          BY <1>0, <1>1, <2>4, <2>8 DEF LogInv
        <5>2. log[i].map \in 0..100 /\ log[i].reduce \in 0..100
          <6>1. log[i] \in LineSet
            BY <5>1 DEF LogInv
          <6>. QED  BY <1>0, <5>1, <6>1, LineFacts
        <5>3. log[i].map + log[i].reduce > 0
          <6>1. \A y, z \in 0..100 : y + z # 0 => y + z > 0
            OBVIOUS
          <6>. QED  BY <4>1, <5>2, <6>1
        <5>4. i \in DOMAIN log
          BY <5>1 DEF LogInv
        <5>. QED  BY <5>1, <5>3, <5>4 DEF Worked
      <4>. QED  BY <4>1
    <3>2. p * jobs <= 100 * (Job - 1) + 100 /\ (idle => p * jobs <= 100 * (Job - 1))
      BY <2>5, <2>7, <2>8
    <3>. HIDE DEF p, T, idle, j
    <3>. QED  BY <1>0, <2>4, <2>7, <2>8, <3>1, <3>2, HonestUpTo
  <2>9. CASE j # Job
    <3>1. 100 * b + 100 <= 100 * (Job - 1)
      <4>. HIDE DEF j
      <4>. QED  BY <1>0, <2>4, <2>9
    <3>2. p * jobs <= 100 * b + 100
      BY <2>5, <2>7
    <3>. DEFINE q == p * jobs
    <3>3. q \in Nat
      <4>. HIDE DEF p, T, b, j
      <4>. QED  BY <1>0, <2>7
    <3>4. q <= 100 * (Job - 1)
      <4>. HIDE DEF q, b, p, T
      <4>. QED  BY <1>0, <2>4, <2>6, <3>1, <3>2, <3>3 DEF q
    <3>. HIDE DEF p, T, idle, b, j
    <3>. QED  BY <1>0, <2>4, <2>7, <3>4, HonestUpTo
  <2>. QED  BY <2>7, <2>8, <2>9
<1>. QED  BY <1>5, <1>6

(* Whatever Hive does, what it has been said to have done stays done.         *)
LEMMA Logged ==
    ASSUME LogInv, NEW l \in LineSet, log' = Append(log, l), jobs' = jobs,
           Len(log) < MaxLines,
           log = <<>> => l.line = "total",
           l.line = "stage" => Job > 0,
           l.line = "launch" => Job < jobs /\ l.job = Job + 1 /\ (Job > 0 => Worked)
    PROVE  LogInv' /\ \A p \in Nat : Honest(p) => Honest(p)'
<1>len. PICK n \in Nat : n = Len(log)
  <2>. QED  BY DEF LogInv
<1>0. /\ log \in Seq(LineSet) /\ Len(log) = n /\ jobs \in Nat /\ LineSet' = LineSet
      /\ Job \in Nat /\ IsFiniteSet(Launches) /\ Launches \subseteq 1..n
  <2>1. log \in Seq(LineSet) /\ Len(log) = n /\ jobs \in Nat /\ LineSet' = LineSet
    BY <1>len, CursorAssumption DEF LogInv, LineSet
  <2>2. IsFiniteSet(Launches) /\ Job \in Nat /\ Launches \subseteq 1..n
    BY <2>1, LaunchesFinite
  <2>. QED  BY <2>1, <2>2
<1>1. /\ log' \in Seq(LineSet) /\ Len(log') = n + 1 /\ DOMAIN log' = 1..(n + 1)
      /\ log'[n + 1] = l /\ \A i \in 1..n : log'[i] = log[i]
  BY <1>0
<1>2. Launches' = IF l.line = "launch" THEN Launches \cup {n + 1} ELSE Launches
  BY <1>0, <1>1 DEF Launches, LaunchesIn
<1>3. \A i \in 1..n : UpTo(i)' = UpTo(i)
  BY <1>0, <1>2 DEF UpTo
<1>4. l.line = "launch" => UpTo(n + 1)' = Launches' /\ Job' = Job + 1
  <2>1. n + 1 \notin Launches
    BY <1>0
  <2>2. Cardinality(Launches \cup {n + 1}) = Cardinality(Launches) + 1
    BY <1>0, <2>1, FS_AddElement
  <2>3. ASSUME l.line = "launch" PROVE UpTo(n + 1)' = Launches'
    <3>1. \A i \in Launches' : i <= n + 1
      BY <1>0, <1>2, <2>3
    <3>. QED  BY <3>1 DEF UpTo
  <2>4. ASSUME l.line = "launch" PROVE Job' = Job + 1
    BY <1>2, <2>2, <2>4 DEF Job
  <2>. QED  BY <2>3, <2>4
<1>5. l.line # "launch" => Job' = Job
  BY <1>2 DEF Job
<1>6. LogInv'
  <2>1. jobs' \in 0..MaxJobs /\ log' \in Seq(LineSet') /\ Len(log') <= MaxLines
    BY <1>0, <1>1, CursorAssumption DEF LogInv
  <2>2. log'[1].line = "total"
    <3>1. CASE n = 0
      BY <1>0, <1>1, <3>1
    <3>2. CASE n > 0
      BY <1>0, <1>1, <3>2 DEF LogInv
    <3>. QED  BY <1>0, <3>1, <3>2
  <2>3. ASSUME NEW i \in Launches' PROVE log'[i].job = Cardinality(UpTo(i)')
    <3>1. CASE i \in Launches
      BY <1>0, <1>1, <1>3, <3>1 DEF LogInv
    <3>2. CASE i = n + 1 /\ l.line = "launch"
      <4>1. log'[i].job = Job + 1
        BY <1>1, <3>2
      <4>2. UpTo(i)' = Launches'
        BY <1>4, <3>2
      <4>. QED  BY <1>4, <3>2, <4>1, <4>2 DEF Job
    <3>. QED  BY <1>2, <2>3, <3>1, <3>2
  <2>4. Job' <= jobs'
    BY <1>0, <1>4, <1>5 DEF LogInv
  <2>5. ASSUME NEW i \in 1..Len(log'), log'[i].line = "stage"
        PROVE  \E k \in Launches' : k < i
    <3>1. CASE i \in 1..n
      BY <1>0, <1>1, <1>2, <2>5, <3>1 DEF LogInv
    <3>2. CASE i = n + 1
      <4>1. Launches # {}
        <5>1. Job > 0
          BY <1>0, <1>1, <2>5, <3>2
        <5>. QED  BY <1>0, <5>1, FS_EmptySet DEF Job
      <4>2. PICK k \in Launches : TRUE
        BY <4>1
      <4>3. k \in Launches' /\ k < n + 1
        BY <1>0, <1>2, <4>2
      <4>. QED  BY <3>2, <4>3
    <3>. QED  BY <1>0, <1>1, <3>1, <3>2
  <2>. QED  BY <2>1, <2>2, <2>3, <2>4, <2>5 DEF LogInv
<1>7. ASSUME NEW p \in Nat, Honest(p) PROVE Honest(p)'
  <2>1. CASE l.line = "launch"
    <3>1. p * jobs \in Nat
      BY <1>0
    <3>2. p * jobs <= 100 * (Job' - 1)
      <4>1. CASE Job = 0
        BY <1>0, <1>4, <1>7, <2>1, <4>1 DEF Honest
      <4>2. CASE Job > 0
        BY <1>0, <1>4, <1>7, <2>1, <3>1, <4>2 DEF Honest
      <4>. QED  BY <1>0, <4>1, <4>2
    <3>. QED  BY <1>0, <1>4, <2>1, <3>1, <3>2 DEF Honest
  <2>2. CASE l.line # "launch"
    <3>1. Worked => Worked'
      BY <1>0, <1>1, <1>2, <2>2 DEF Worked
    <3>. QED  BY <1>0, <1>5, <1>7, <2>2, <3>1 DEF Honest
  <2>. QED  BY <2>1, <2>2
<1>. QED  BY <1>6, <1>7

(* A step of Hive, or of anybody else, keeps the log in order, and keeps what *)
(* was honest so.                                                             *)
LEMMA HiveStep ==
    ASSUME LogInv, (jobs' = jobs /\ log' = log) \/ Prints
    PROVE  /\ LogInv' /\ Len(log') \in Nat /\ Len(log) <= Len(log')
           /\ \A p \in Nat : Honest(p) => Honest(p)'
<1>0. log \in Seq(LineSet) /\ Len(log) \in Nat /\ jobs \in Nat /\ Job \in Nat
  <2>1. log \in Seq(LineSet) /\ Len(log) \in Nat /\ jobs \in Nat
    BY CursorAssumption DEF LogInv
  <2>2. Job \in Nat
    BY <2>1, LaunchesFinite
  <2>. QED  BY <2>1, <2>2
<1>1. CASE jobs' = jobs /\ log' = log
  <2>1. Launches' = Launches /\ LineSet' = LineSet
    BY <1>1 DEF Launches, LineSet
  <2>2. Job' = Job /\ (Worked <=> Worked') /\ \A i : UpTo(i)' = UpTo(i)
    BY <1>1, <2>1 DEF Job, Worked, UpTo
  <2>3. LogInv'
    BY <1>1, <2>1, <2>2 DEF LogInv
  <2>4. \A p \in Nat : Honest(p) => Honest(p)'
    BY <1>1, <2>2 DEF Honest
  <2>. QED  BY <1>0, <1>1, <2>3, <2>4
<1>2. CASE Prints
  <2>1. Job > 0 => log # <<>>
    <3>1. log = <<>> => Launches = {}
      BY DEF Launches, LaunchesIn
    <3>. QED  BY <3>1, FS_EmptySet DEF Job
  <2>2. PICK l \in LineSet :
          /\ Logs(l)
          /\ log = <<>> => l.line = "total"
          /\ l.line = "stage" => Job > 0
          /\ l.line = "launch" => Job < jobs /\ l.job = Job + 1 /\ (Job > 0 => Worked)
    <3>1. CASE log = <<>> /\ Logs(TotalLine(jobs))
      BY <3>1 DEF LineSet, TotalLine
    <3>2. CASE /\ log # <<>> /\ Job < jobs /\ (Job > 0 => Worked)
               /\ Logs(LaunchLine(Job + 1, jobs))
      <4>1. LaunchLine(Job + 1, jobs) \in LineSet
        BY <1>0, <3>2 DEF LineSet
      <4>2. /\ LaunchLine(Job + 1, jobs).line = "launch"
            /\ LaunchLine(Job + 1, jobs).job = Job + 1
        BY DEF LaunchLine
      <4>. QED  BY <3>2, <4>1, <4>2
    <3>3. CASE Job > 0 /\ Logs(UrlLine)
      BY <2>1, <3>3 DEF LineSet, UrlLine
    <3>4. ASSUME Job > 0, NEW s \in Stages, NEW p \in Percents, Logs(StageLine(s, p))
          PROVE  \E l \in LineSet :
                    /\ Logs(l)
                    /\ log = <<>> => l.line = "total"
                    /\ l.line = "stage" => Job > 0
                    /\ l.line = "launch" => Job < jobs /\ l.job = Job + 1 /\ (Job > 0 => Worked)
      <4>1. StageLine(s, p) \in LineSet
        BY DEF LineSet
      <4>2. StageLine(s, p).line = "stage"
        BY DEF StageLine
      <4>. QED  BY <2>1, <3>4, <4>1, <4>2
    <3>. QED  BY <1>2, <3>1, <3>2, <3>3, <3>4 DEF Prints
  <2>3. log' = Append(log, l) /\ jobs' = jobs /\ Len(log) < MaxLines
    BY <2>2 DEF Logs
  <2>4. LogInv' /\ \A p \in Nat : Honest(p) => Honest(p)'
    BY <2>2, <2>3, Logged
  <2>5. Len(log') = Len(log) + 1
    BY <1>0, <2>3
  <2>. QED  BY <1>0, <2>4, <2>5
<1>. QED  BY <1>1, <1>2

(* Honest progress is at most 100: no more jobs are launched than there are.  *)
LEMMA HonestSmall ==
    ASSUME LogInv, NEW p \in Nat, Honest(p)
    PROVE  p \in 0..100
<1>1. jobs \in Nat /\ Job \in Nat /\ Job <= jobs
  <2>1. jobs \in Nat /\ Job <= jobs /\ 0 \in Nat
    BY CursorAssumption DEF LogInv
  <2>. QED  BY <2>1, LaunchesFinite
<1>2. CASE Job = 0
  BY <1>2 DEF Honest
<1>3. CASE Job # 0
  <2>. DEFINE q == p * jobs
  <2>1. q \in Nat /\ q <= 100 * (Job - 1) + (IF Worked THEN 100 ELSE 0)
    BY <1>1, <1>3 DEF Honest
  <2>2. q <= 100 * jobs
    <3>. HIDE DEF q
    <3>. QED  BY <1>1, <2>1
  <2>3. jobs * p <= jobs * 100 /\ jobs \in Nat \ {0}
    BY <1>1, <1>3, <2>2
  <2>4. p <= 100
    <3>1. 100 \in Nat
      OBVIOUS
    <3>. QED  BY <2>3, <3>1, FactorOut
  <2>. QED  BY <2>4
<1>. QED  BY <1>2, <1>3

(***************************************************************************)
(* The row                                                                 *)
(***************************************************************************)
(* The progress of the row was read off the log by the session, which has the *)
(* row as it is when it compares; what it was read off only grows.            *)
QueryInv ==
    /\ CursorTypeOK /\ CopyInv /\ LogInv
    /\ whole => skipped = 0 /\ Honest(row.progress)

LEMMA QueryInit == Init => QueryInv
<1>. SUFFICES ASSUME Init PROVE QueryInv
  OBVIOUS
<1>0. log = <<>> /\ Len(log) = 0 /\ DOMAIN log = {} /\ row.progress = 0
  BY DEF Init
<1>1. Launches = {} /\ Job = 0
  <2>1. Launches = {}
    BY <1>0 DEF Launches, LaunchesIn
  <2>. QED  BY <2>1, FS_EmptySet DEF Job
<1>2. LogInv
  <2>1. jobs \in 0..MaxJobs /\ jobs \in Nat /\ 0 <= MaxLines
    BY CursorAssumption DEF Init
  <2>2. log \in Seq(LineSet) /\ 1..Len(log) = {}
    BY <1>0
  <2>. QED  BY <1>0, <1>1, <2>1, <2>2 DEF LogInv
<1>3. CursorTypeOK
  <2>1. [status |-> "running", progress |-> 0] \in Row
    BY DEF Row
  <2>2. row \in Row /\ copy \in Row /\ copy.progress <= row.progress
    BY <2>1 DEF Init
  <2>3. Len(log) <= MaxLines /\ faults \in 0..MaxFaults
    BY <1>0, CursorAssumption DEF Init
  <2>4. whole \in BOOLEAN /\ fetched \in 0..Len(log) /\ skipped \in 0..fetched
    BY <1>0 DEF Init
  <2>5. op \in States /\ polled \in States
    BY DEF Init, States
  <2>. QED  BY <2>2, <2>3, <2>4, <2>5 DEF Init, CursorTypeOK
<1>4. Honest(row.progress)
  BY <1>0, <1>1 DEF Honest
<1>. QED  BY <1>2, <1>3, <1>4, CopyInit DEF QueryInv, Init

LEMMA QueryStep == QueryInv /\ [Next]_vars => QueryInv'
<1>. SUFFICES ASSUME QueryInv, [Next]_vars PROVE QueryInv'
  OBVIOUS
<1>. USE DEF QueryInv
<1>0. /\ row \in Row /\ copy \in Row /\ copy.progress <= row.progress
      /\ fetched \in 0..Len(log) /\ Len(log) \in Nat /\ skipped \in 0..fetched
      /\ row.progress \in 0..100
  <2>1. log \in Seq(LineSet)
    BY DEF LogInv
  <2>. QED  BY <2>1 DEF CursorTypeOK, Row
<1>1. CopyInv'
  BY CopyStep
<1>2. /\ LogInv' /\ Len(log') \in Nat /\ Len(log) <= Len(log')
      /\ \A p \in Nat : Honest(p) => Honest(p)'
  <2>1. (jobs' = jobs /\ log' = log) \/ Prints
    BY DEF Next, handle_cursor, Poll, ReadQuery, Cancel, FetchLogs, Report, fetch_data,
           Raises, Hive, Starts, Ends, Stop, vars, hiveVars
  <2>. QED  BY <2>1, HiveStep
<1>3. /\ row' \in Row /\ copy' \in Row /\ copy'.progress <= row'.progress
      /\ whole => Honest(row'.progress)
  <2>1. CASE row' = row /\ copy' \in {row, copy}
    <3>1. \A x \in 0..100 : x <= x
      OBVIOUS
    <3>2. row.progress <= row.progress
      BY <1>0, <3>1, Zenon
    <3>. QED  BY <1>0, <2>1, <3>2
  <2>2. CASE row' = [row EXCEPT !.status = "stopped"] /\ copy' = copy
    <3>1. row' \in Row /\ row'.progress = row.progress
      BY <1>0, <2>2 DEF Row
    <3>. QED  BY <1>0, <2>2, <3>1
  <2>3. CASE Report /\ row' # row
    <3>. DEFINE lines == SubSeq(log, skipped + 1, fetched)
                p == progress(lines)
    <3>1. Grown(lines) /\ row' = [row EXCEPT !.progress = p] /\ copy' = copy
      BY <2>3 DEF Report, dbVars
    <3>2. lines \in Seq(LineSet) /\ jobs \in Nat
      BY <1>0, CursorAssumption DEF LogInv
    <3>3. p \in 0..100
      BY <3>2, ProgressRange
    <3>4. whole => Honest(p)
      <4>1. ASSUME whole PROVE fetched \in 1..Len(log) /\ lines = SubSeq(log, 1, fetched)
        <5>1. skipped = 0
          BY <4>1
        <5>2. fetched = 0 => lines = <<>>
          BY <1>0, <5>1 DEF LogInv
        <5>. QED  BY <1>0, <3>1, <5>1, <5>2 DEF Grown
      <4>. QED  BY <4>1, ProgressBound
    <3>5. p > copy.progress
      BY <3>1 DEF Grown
    <3>. HIDE DEF p
    <3>6. row'.progress = p /\ row' \in Row
      BY <1>0, <3>1, <3>3 DEF Row
    <3>7. copy.progress \in 0..100
      BY <1>0 DEF Row
    <3>8. copy'.progress <= row'.progress
      BY <3>1, <3>3, <3>5, <3>6, <3>7
    <3>. QED  BY <1>0, <3>1, <3>4, <3>6, <3>8
  <2>4. \/ row' = row /\ copy' \in {row, copy}
        \/ row' = [row EXCEPT !.status = "stopped"] /\ copy' = copy
        \/ Report /\ row' # row
    <3>1. CASE Report
      BY <3>1 DEF Report
    <3>2. CASE ~Report
      BY <3>2 DEF Next, handle_cursor, Poll, ReadQuery, Cancel, FetchLogs, fetch_data,
           Raises, Hive, Stop, vars, hiveVars, dbVars, loopVars
    <3>. QED  BY <3>1, <3>2
  <2>. QED  BY <2>1, <2>2, <2>3, <2>4
<1>4. whole' => skipped' = 0 /\ Honest(row.progress)'
  <2>1. whole' = whole
    BY DEF Next, handle_cursor, Poll, ReadQuery, Cancel, FetchLogs, Report, fetch_data,
           Raises, Hive, Stop, vars, hiveVars, loopVars, logVars
  <2>2. whole => skipped' = 0
    BY DEF Next, handle_cursor, Poll, ReadQuery, Cancel, FetchLogs, Report, fetch_data,
           Raises, Hive, Stop, vars, hiveVars, loopVars, logVars
  <2>3. ASSUME whole PROVE Honest(row.progress)'
    <3>1. row'.progress \in Nat
      BY <1>3 DEF Row
    <3>2. PICK p \in Nat : p = row'.progress
      BY <3>1
    <3>3. Honest(p)'
      BY <1>2, <1>3, <2>3, <3>2
    <3>. QED  BY <3>2, <3>3 DEF Honest
  <2>. QED  BY <2>1, <2>2, <2>3
<1>5. whole' \in BOOLEAN /\ fetched' \in 0..Len(log') /\ skipped' \in 0..fetched'
  <2>1. /\ whole' = whole
        /\ \/ fetched' = fetched /\ skipped' = skipped
           \/ Report /\ log' = log
           \/ FetchLogs /\ log' = log
    BY DEF Next, handle_cursor, Poll, ReadQuery, Cancel, FetchLogs, Report, fetch_data,
           Raises, Hive, Stop, vars, hiveVars, loopVars, logVars
  <2>2. whole' \in BOOLEAN
    BY <2>1 DEF CursorTypeOK
  <2>3. CASE fetched' = fetched /\ skipped' = skipped
    BY <1>0, <1>2, <2>2, <2>3
  <2>4. CASE Report /\ log' = log
    <3>1. skipped' \in {0, fetched} /\ fetched' = skipped'
      BY <2>4 DEF Report
    <3>. QED  BY <1>0, <2>2, <2>4, <3>1
  <2>5. CASE FetchLogs /\ log' = log
    <3>1. \/ fetched' \in {skipped, Len(log)} /\ skipped' = skipped
          \/ fetched' = Len(log) /\ skipped' = Len(log)
      BY <2>5 DEF FetchLogs
    <3>2. skipped <= Len(log) /\ skipped \in Nat
      BY <1>0
    <3>3. \A n \in Nat : n \in 0..n
      OBVIOUS
    <3>4. /\ skipped \in 0..skipped /\ Len(log) \in 0..Len(log)
          /\ skipped \in 0..Len(log)
      BY <1>0, <3>2, <3>3
    <3>. QED  BY <2>2, <2>5, <3>1, <3>4
  <2>. QED  BY <2>1, <2>2, <2>3, <2>4, <2>5
<1>6. /\ op' \in States /\ polled' \in States /\ expired' \in BOOLEAN
      /\ pc' \in {"poll", "again", "read", "cancel", "logs", "report", "fetch",
                  "answered", "raised"}
      /\ tracked' \in BOOLEAN /\ transformer' \in Transformers
      /\ late' \in Nat /\ faults' \in 0..MaxFaults
  <2>. DEFINE Rest == /\ op \in States /\ polled \in States /\ expired \in BOOLEAN
                      /\ pc \in {"poll", "again", "read", "cancel", "logs", "report",
                                 "fetch", "answered", "raised"}
                      /\ tracked \in BOOLEAN /\ transformer \in Transformers
                      /\ late \in Nat /\ faults \in 0..MaxFaults
  <2>0. Rest
    BY DEF CursorTypeOK
  <2>1. CASE Poll
    BY <2>0, <2>1 DEF Poll, CurrentState, hiveVars, dbVars
  <2>2. CASE ReadQuery
    BY <2>0, <2>2 DEF ReadQuery, hiveVars, dbVars
  <2>3. CASE Cancel
    BY <2>0, <2>3 DEF Cancel, AfterCancel, States, Ended, dbVars
  <2>4. CASE FetchLogs
    BY <2>0, <2>4 DEF FetchLogs, hiveVars, dbVars
  <2>5. CASE Report
    <3>1. late' = late \/ late' = late + (IF row.status = "stopped" THEN 1 ELSE 0)
      BY <2>5 DEF Report, dbVars
    <3>2. late' \in Nat
      BY <2>0, <3>1
    <3>3. tracked' \in BOOLEAN
      BY <2>0, <2>5 DEF Report
    <3>. QED  BY <2>0, <2>5, <3>2, <3>3 DEF Report, hiveVars, dbVars
  <2>6. CASE fetch_data
    BY <2>0, <2>6 DEF fetch_data, hiveVars, dbVars
  <2>7. CASE Raises
    BY <2>0, <2>7, CursorAssumption DEF Raises, hiveVars, dbVars
  <2>8. CASE Hive
    BY <2>0, <2>8 DEF Hive, Starts, Prints, Logs, Ends, States, dbVars, loopVars
  <2>9. CASE Stop
    BY <2>0, <2>9 DEF Stop, hiveVars, loopVars
  <2>10. CASE UNCHANGED vars
    BY <2>0, <2>10 DEF vars, hiveVars, dbVars, loopVars
  <2>. QED
    BY <2>1, <2>2, <2>3, <2>4, <2>5, <2>6, <2>7, <2>8, <2>9, <2>10 DEF Next, handle_cursor
<1>7. CursorTypeOK'
  <2>1. jobs' \in 0..MaxJobs /\ Len(log') <= MaxLines
    BY <1>2 DEF LogInv
  <2>2. (row \in Row)' /\ (copy \in Row)'
    BY <1>3 DEF Row
  <2>. QED  BY <1>3, <1>5, <1>6, <2>1, <2>2 DEF CursorTypeOK, States
<1>. QED  BY <1>1, <1>2, <1>4, <1>7

LEMMA QueryInvariant == Spec => []QueryInv
BY QueryInit, QueryStep, PTL DEF Spec

(* No log, and no part of one, takes the progress that is shown out of 0..100 *)
(* or the session's copy past the row.                                        *)
THEOREM CursorTypeCorrect == Spec => []CursorTypeOK
<1>1. QueryInv => CursorTypeOK
  BY DEF QueryInv
<1>. QED  BY <1>1, QueryInvariant, PTL

(* The progress shown is never ahead of the jobs that Hive has launched, for  *)
(* any number of jobs, stages and lines, when the log is read from its start. *)
THEOREM ProgressIsHonest == Spec => []ProgressHonest
<1>1. QueryInv => ProgressHonest
  BY DEF QueryInv, ProgressHonest, Honest
<1>. QED  BY <1>1, QueryInvariant, PTL
=============================================================================
