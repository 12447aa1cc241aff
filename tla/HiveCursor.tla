----------------------------- MODULE HiveCursor ----------------------------
(* HiveEngineSpec.handle_cursor and fetch_data: the loop that follows one     *)
(* Hive query while it runs, reports its progress in the query's row of       *)
(* Superset's database and cancels it when the user has stopped it there, and *)
(* the fetch after it.  One action per call the loop makes to Hive or to the  *)
(* database.  Hive's log is append-only.  fetch_logs, which is not in the     *)
(* repository, gives it from its start, as the loop's last_log_line expects,  *)
(* or only the lines since the call before: both are modelled.  The session   *)
(* keeps one copy of the row and reads it again only after a commit.          *)
EXTENDS Sequences, FiniteSetsExt

CONSTANTS
    MaxJobs,        \* bound on the jobs of the query
    Stages,         \* the stage numbers of a job
    Percents,       \* the pairs of map and reduce percentages a line may show
    Transformers,   \* what TRACKING_URL_TRANSFORMER may be configured to
    MaxLines,       \* bound on the lines of the log
    MaxFaults       \* bound on calls that raise

ASSUME CursorAssumption ==
    /\ MaxJobs \in Nat /\ MaxLines \in Nat /\ MaxFaults \in Nat
    /\ Percents \subseteq (0..100) \X (0..100)
    /\ Transformers \subseteq {"function", "text", "none"}

VARIABLES
    op,           \* Hive: the state of the operation
    jobs,         \* Hive: the number of jobs of the query
    log,          \* Hive: the lines of its log that the loop looks for
    row,          \* database: status and progress of the query
    copy,         \* the session's copy of the row
    expired,      \* will the session read the row again?
    pc,           \* the call that comes next
    polled,       \* the state the last poll returned
    whole,        \* does fetch_logs give the log from its start?
    skipped,      \* how many lines of the log a round does not get any more
    fetched,      \* the last line the round has got
    tracked,      \* is there a tracking URL already?
    transformer,  \* the configured TRACKING_URL_TRANSFORMER
    late,         \* how many commits the row of a stopped query has had
    faults        \* faults so far

hiveVars == <<op, jobs, log>>
dbVars == <<row, late>>
logVars == <<whole, skipped, fetched>>
loopVars == <<copy, expired, pc, polled, logVars, tracked, transformer>>
vars == <<hiveVars, dbVars, loopVars, faults>>

(* The operation states of Hive, and those in which it has ended the query.   *)
Ended == {"FINISHED", "CANCELED", "CLOSED", "ERROR", "TIMEDOUT"}
States == {"INITIALIZED", "PENDING", "RUNNING", "UKNOWN"} \cup Ended
Row == [status : {"running", "stopped"}, progress : 0..100]

(***************************************************************************)
(* Reading the log                                                         *)
(***************************************************************************)
TotalLine(n) == [line |-> "total", total |-> n]
LaunchLine(j, n) == [line |-> "launch", job |-> j, total |-> n]
StageLine(s, p) == [line |-> "stage", stage |-> s, map |-> p[1], reduce |-> p[2]]
UrlLine == [line |-> "url"]

OrOne(n) == IF n = 0 THEN 1 ELSE n

LaunchesIn(lines) == {i \in DOMAIN lines : lines[i].line = "launch"}

(* What the loop over the lines has at its end: the number of jobs and the    *)
(* job that were named last.                                                  *)
total_jobs(lines) ==
    LET counts == {i \in DOMAIN lines : lines[i].line \in {"total", "launch"}}
    IN  IF counts = {} THEN 1 ELSE OrOne(lines[Max(counts)].total)

current_job(lines) ==
    IF LaunchesIn(lines) = {} THEN 1 ELSE lines[Max(LaunchesIn(lines))].job

(* A launch empties the stages; a variant that keeps those of earlier jobs.   *)
StageLines(lines) == {i \in DOMAIN lines : lines[i].line = "stage"}
SinceLaunch(lines) == {i \in StageLines(lines) : \A l \in LaunchesIn(lines) : l < i}

(* Map plus reduce of each stage, as its last line says.                      *)
stages(lines) ==
    [s \in {lines[i].stage : i \in SinceLaunch(lines)} |->
        LET last == Max({i \in SinceLaunch(lines) : lines[i].stage = s})
        IN  lines[last].map + lines[last].reduce]

(* The sum of what they say, counted one by one.                              *)
SumOf(f) == Cardinality(UNION {{s} \X (1..f[s]) : s \in DOMAIN f})

(* The mean of the stages' progress, in parts of the job, is added to the     *)
(* jobs before and the sum is cut to an integer; a variant that adds them up. *)
Summed(done, k, before, total) == (100 * before + done) \div total
Averaged(done, k, before, total) == (200 * k * before + done) \div (2 * k * total)

progress(lines) ==
    LET k == Cardinality(DOMAIN stages(lines))
        before == current_job(lines) - 1
    IN  IF k = 0 THEN (100 * before) \div total_jobs(lines)
        ELSE Averaged(SumOf(stages(lines)), k, before, total_jobs(lines))

get_tracking_url(lines) == \E i \in DOMAIN lines : lines[i] = UrlLine

(***************************************************************************)
(* Hive and the user                                                       *)
(***************************************************************************)
Launches == LaunchesIn(log)
Job == Cardinality(Launches)

(* Has a stage of the job that was launched last got anywhere?                *)
Worked ==
    \E i \in DOMAIN log :
        /\ \A l \in Launches : l < i
        /\ log[i].line = "stage" /\ log[i].map + log[i].reduce > 0

(* A query that runs may get lost to Hive's sight.                            *)
Starts ==
    /\ \/ op = "INITIALIZED" /\ op' \in {"PENDING", "RUNNING"}
       \/ op = "PENDING" /\ op' = "RUNNING"
       \/ op = "RUNNING" /\ op' = "UKNOWN"
    /\ UNCHANGED <<jobs, log>>

Logs(l) ==
    /\ op = "RUNNING" /\ Len(log) < MaxLines
    /\ log' = Append(log, l)
    /\ UNCHANGED <<op, jobs>>

(* The number of jobs comes first; a job is launched when the one before has  *)
(* got somewhere; a launch is followed by a URL and by lines on its stages.   *)
Prints ==
    \/ log = <<>> /\ Logs(TotalLine(jobs))
    \/ /\ log # <<>> /\ Job < jobs /\ (Job > 0 => Worked)
       /\ Logs(LaunchLine(Job + 1, jobs))
    \/ Job > 0 /\ log[Len(log)].line = "launch" /\ Logs(UrlLine)
    \/ Job > 0 /\ \E s \in Stages, p \in Percents : Logs(StageLine(s, p))

Ends ==
    /\ op \notin Ended /\ op' \in Ended
    /\ UNCHANGED <<jobs, log>>

Hive == (Starts \/ Prints \/ Ends) /\ UNCHANGED <<dbVars, loopVars, faults>>

Stop ==
    /\ row.status = "running" /\ row' = [row EXCEPT !.status = "stopped"]
    /\ UNCHANGED <<hiveVars, late, loopVars, faults>>

(***************************************************************************)
(* The loop                                                                *)
(***************************************************************************)
(* A variant that takes a query for finished before it has started.           *)
RunningOnly == {"RUNNING"}
Unfinished == {"INITIALIZED", "RUNNING"}

(* The state asked for before each round; a variant that asks once.           *)
FirstState == IF pc = "poll" THEN op ELSE polled
CurrentState == op

Poll ==
    /\ pc \in {"poll", "again"}
    /\ polled' = CurrentState
    /\ pc' = IF CurrentState \in Unfinished THEN "read" ELSE "fetch"
    /\ UNCHANGED <<hiveVars, dbVars, copy, expired, logVars, tracked, transformer, faults>>

(* The query hands out the copy the session has, read again if a commit has   *)
(* expired it.                                                                *)
ReadQuery ==
    LET query == IF expired THEN row ELSE copy
    IN  /\ pc = "read"
        /\ copy' = query /\ expired' = FALSE
        /\ pc' = IF query.status = "stopped" THEN "cancel" ELSE "logs"
        /\ UNCHANGED <<hiveVars, dbVars, polled, logVars, tracked, transformer, faults>>

(* After the cancel the loop is left; a variant without the break.            *)
KeepGoing == "logs"
AfterCancel == "fetch"

Cancel ==
    /\ pc = "cancel"
    /\ op' = IF op \in Ended THEN op ELSE "CANCELED"
    /\ pc' = AfterCancel
    /\ UNCHANGED <<jobs, log, dbVars, copy, expired, polled, logVars, tracked,
                   transformer, faults>>

(* A failing fetch_logs counts as an empty log; lines it would have given     *)
(* only once may be lost with it.                                             *)
FetchLogs ==
    /\ pc = "logs"
    /\ \/ fetched' \in {skipped, Len(log)} /\ UNCHANGED skipped
       \/ ~whole /\ fetched' = Len(log) /\ skipped' = Len(log)
    /\ pc' = "report"
    /\ UNCHANGED <<hiveVars, dbVars, copy, expired, polled, whole, tracked, transformer,
                   faults>>

(* Is there progress to write? A variant that writes any other progress.      *)
Moved(lines) == lines # <<>> /\ progress(lines) # copy.progress
Grown(lines) == lines # <<>> /\ progress(lines) > copy.progress

(* Progress that has grown and the first tracking URL are written and         *)
(* committed.  What is stored for a URL is TRACKING_URL_TRANSFORMER itself: a *)
(* function, which no column takes, makes the commit raise, and nothing at    *)
(* all leaves the URL to be found again in the next round.                    *)
Report ==
    LET lines == SubSeq(log, skipped + 1, fetched)
        new == Grown(lines)
        found == ~tracked /\ get_tracking_url(lines)
    IN  /\ pc = "report"
        /\ tracked' = (tracked \/ (found /\ transformer # "none"))
        /\ \/ /\ found /\ transformer = "function"
              /\ pc' = "raised"
              /\ UNCHANGED <<dbVars, expired>>
           \/ /\ ~(found /\ transformer = "function") /\ (new \/ found)
              /\ pc' = "again"
              /\ row' = IF new THEN [row EXCEPT !.progress = progress(lines)] ELSE row
              /\ late' = late + (IF row.status = "stopped" THEN 1 ELSE 0)
              /\ expired' = TRUE
           \/ /\ ~new /\ ~found
              /\ pc' = "again"
              /\ UNCHANGED <<dbVars, expired>>
        /\ skipped' = IF whole THEN 0 ELSE fetched
        /\ fetched' = skipped'
        /\ UNCHANGED <<hiveVars, copy, polled, whole, transformer, faults>>

(* fetch_data polls once more and raises the error of a failed query.         *)
fetch_data ==
    /\ pc = "fetch"
    /\ pc' = IF op = "ERROR" THEN "raised" ELSE "answered"
    /\ UNCHANGED <<hiveVars, dbVars, copy, expired, polled, logVars, tracked,
                   transformer, faults>>

(* Any other call raises: nobody catches it, and the query runs on.           *)
Raises ==
    /\ pc \in {"poll", "again", "read", "cancel", "report", "fetch"}
    /\ faults < MaxFaults /\ faults' = faults + 1
    /\ pc' = "raised"
    /\ UNCHANGED <<hiveVars, dbVars, copy, expired, polled, logVars, tracked, transformer>>

handle_cursor == Poll \/ ReadQuery \/ Cancel \/ FetchLogs \/ Report

(* The query has been submitted; its row may just have been committed.        *)
Init ==
    /\ op = "INITIALIZED" /\ jobs \in 0..MaxJobs /\ log = <<>>
    /\ row = [status |-> "running", progress |-> 0]
    /\ copy = row /\ expired \in BOOLEAN
    /\ pc = "poll" /\ polled = "INITIALIZED" /\ tracked = FALSE
    /\ whole \in BOOLEAN /\ skipped = 0 /\ fetched = 0
    /\ transformer \in Transformers
    /\ late = 0 /\ faults = 0

Next == handle_cursor \/ fetch_data \/ Raises \/ Hive \/ Stop

Spec == Init /\ [][Next]_vars

(* The worker keeps going, and Hive brings the query to an end.               *)
FairSpec == Spec /\ WF_vars(handle_cursor \/ fetch_data) /\ WF_vars(Hive)

(***************************************************************************)
(* Properties                                                              *)
(***************************************************************************)
(* The variables keep their types; above all, no log makes the progress of    *)
(* the row or its copy leave 0..100, nor the copy run ahead of the row.       *)
CursorTypeOK ==
    /\ op \in States /\ jobs \in 0..MaxJobs /\ Len(log) <= MaxLines
    /\ row \in Row /\ copy \in Row /\ expired \in BOOLEAN
    /\ copy.progress <= row.progress
    /\ pc \in {"poll", "again", "read", "cancel", "logs", "report", "fetch",
               "answered", "raised"}
    /\ polled \in States /\ tracked \in BOOLEAN
    /\ whole \in BOOLEAN /\ fetched \in 0..Len(log) /\ skipped \in 0..fetched
    /\ transformer \in Transformers
    /\ late \in Nat /\ faults \in 0..MaxFaults

(* progress: when fetch_logs gives the log from its start, the row never      *)
(* shows a job for done, or begun, before Hive has launched the next one, or  *)
(* one of its own stages has got somewhere, although stage numbers start      *)
(* again with every job and a fetch may give nothing.                         *)
ProgressHonest ==
    whole => IF Job = 0 THEN row.progress = 0
             ELSE row.progress * jobs <= 100 * (Job - 1) + (IF Worked THEN 100 ELSE 0)

(* "if progress > query.progress": the progress of the row never goes back,   *)
(* although the mean over the stages falls when one more of them begins, a    *)
(* round that gets only the newest lines counts from job 1 of 1 again, and    *)
(* what it is compared with is the progress of the session's copy.            *)
ProgressGrows ==
    [][row'.progress # row.progress => row'.progress > row.progress]_vars

(* "if query.status == QueryStatus.STOPPED": a query the user has stopped     *)
(* hears of it after one more report at most; the report that crosses the     *)
(* stop makes the session read the row again.                                 *)
StopHeard == late <= 1

(* Results are fetched only from a query that is over, cancelled by the loop  *)
(* or ended by Hive, and never from one that has failed, unless the last poll *)
(* had found it PENDING or UKNOWN, which the loop takes for an end.  A query  *)
(* that is CLOSED or TIMEDOUT is fetched from like one that has FINISHED.     *)
ResultsAreFinal ==
    pc = "answered" => op \in Ended \ {"ERROR"} \/ polled \in {"PENDING", "UKNOWN"}

(* A worker is not held for longer than its query runs.                       *)
LoopEnds == <>(pc \in {"answered", "raised"})
=============================================================================
