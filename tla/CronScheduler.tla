---------------------------- MODULE CronScheduler ----------------------------
(***************************************************************************)
(* The cron scheduler: CronScheduler of apps/bot/src/cron/scheduler.ts and *)
(* the tools of cron/tools.ts that change jobs.                            *)
(*                                                                         *)
(* An execution is one call of executeJob or executeScriptJob, made by the *)
(* interval timer or by triggerJob.  It works on a copy of the job's row   *)
(* that was read before it began: copy[x], and copy[j] while the answer to *)
(* the timer's query is on its way.  Time is abstract: a job's nextRunAt   *)
(* lies behind or ahead, and of two lastRunAt only the order is kept.      *)
(***************************************************************************)
EXTENDS Naturals, FiniteSets, Sequences

CONSTANTS
  Jobs,          \* rows of cron_jobs
  Scripts,       \* those of type SCRIPT
  Suppressed,    \* heartbeat jobs of a scheduler with heartbeatEnabled = false
  DependsOn,     \* the jobs named by each job's dependentPaths
  MaxRunsOf,     \* maxRuns of each job, 0 for null
  Outcomes,      \* how the runs of each job may end
  Execs,         \* executions; as many may be in flight together
  None,          \* no copy, no job
  MaxConcurrent, \* MAX_CONCURRENT_RUNS of scheduler.ts
  MaxFailures,   \* MAX_CONSECUTIVE_FAILURES
  RunBound,      \* runs of one job that are counted
  MaxRestarts,   \* restarts of the process
  Events         \* what the environment may do, see CronEvents

CronEvents ==
  {"trigger",     \* trigger_cron_job is called
   "delete",      \* delete_cron_job is called
   "decline",     \* the budget is spent, or the condition script says no
   "stepFails",   \* an awaited call other than the run's own rejects
   "updateFails"} \* the update after a run rejects

ASSUME JobsAssumption ==
  /\ IsFiniteSet(Jobs)
  /\ Scripts \subseteq Jobs /\ Suppressed \subseteq Jobs
  /\ DependsOn \in [Jobs -> SUBSET Jobs]
  /\ Outcomes \in [Jobs -> SUBSET {"COMPLETED", "FAILED", "CANCELLED"}]
  /\ \A j \in Scripts : "CANCELLED" \notin Outcomes[j]
  /\ None \notin Jobs \cup [count : Nat, fresh : SUBSET Jobs]
ASSUME CountsAssumption ==
  /\ MaxConcurrent \in Nat /\ MaxRestarts \in Nat
  /\ MaxFailures \in Nat \ {0}
  /\ RunBound \in Nat \ {0}
  /\ MaxRunsOf \in [Jobs -> 0..RunBound]
ASSUME EventsAssumption == Events \subseteq CronEvents
ASSUME ExecsAssumption ==
  /\ IsFiniteSet(Execs)
  /\ Execs \cap (Jobs \cup {"COMPLETED", "FAILED", "CANCELLED"}) = {}

VARIABLES
  enabled,    \* jobs whose enabled column is true
  due,        \* nextRunAt of each job: "due", "later", or "never" for null
  runCount,   \* runCount column, kept for jobs with a maxRuns
  lastStatus, \* lastRunStatus column
  newer,      \* pairs of jobs: the first has the later lastRunAt, the second depends on it
  history,    \* the latest agent runs of each job: a status, or who runs it
  ticking,    \* the flag of tick()
  running,    \* the running set
  pc,         \* the await each execution is suspended at
  job,        \* its job
  timed,      \* executions that the timer started
  copy,       \* the row as an execution, or the timer for a job, has read it
  result,     \* the status an execution is about to record, "CAUGHT" is FAILED
  restarts    \* how often the process has died

rows  == <<enabled, due, runCount, lastStatus, newer>>
execs == <<job, timed, copy, result>>
vars  == <<enabled, due, runCount, lastStatus, newer, history, ticking, running,
           pc, job, timed, copy, result, restarts>>

Copies == [count : 0..RunBound, fresh : SUBSET Jobs]
Labels == {"idle", "check", "skip", "start", "running", "record", "streak", "disable", "settle"}
Idle   == {x \in Execs : pc[x] = "idle"}

\* A row as it is read: its count, and the jobs that ran later than it.
Row(j) == [count |-> runCount[j], fresh |-> {d \in DependsOn[j] : <<d, j>> \in newer}]

At(x, label, next) == pc[x] = label /\ pc' = [pc EXCEPT ![x] = next]

\* The catch block records a failure, whatever it was that failed.
Catch(x) ==
  /\ pc' = [pc EXCEPT ![x] = "record"]
  /\ result' = [result EXCEPT ![x] = "CAUGHT"]

Init ==
  /\ enabled    = Jobs
  /\ due        = [j \in Jobs |-> "later"]
  /\ runCount   = [j \in Jobs |-> 0]
  /\ lastStatus = [j \in Jobs |-> "none"]
  /\ newer      = {}
  /\ history    = [j \in Jobs |-> <<>>]
  /\ ticking    = FALSE
  /\ running    = {}
  /\ pc         = [x \in Execs |-> "idle"]
  /\ job        = [x \in Execs |-> None]
  /\ timed      = {}
  /\ copy       = [k \in Jobs \cup Execs |-> None]
  /\ result     = [x \in Execs |-> "none"]
  /\ restarts   = 0
-----------------------------------------------------------------------------
(* tick(): a query, and a loop over what it found.                         *)

TickRead ==
  LET found == {j \in enabled : due[j] = "due"} IN
  /\ ~ticking
  /\ found # {}
  /\ copy' = [k \in Jobs \cup Execs |-> IF k \in found THEN Row(k) ELSE copy[k]]
  /\ ticking' = TRUE
  /\ UNCHANGED <<rows, history, running, pc, job, timed, result, restarts>>

\* Mutant: a job that still runs is started again.
StartableAgain == {j \in Jobs : copy[j] # None /\ j \notin Suppressed}

\* The jobs the loop may start, and how many of them until it breaks.
Startable == {j \in Jobs : copy[j] # None /\ j \notin running \cup Suppressed}
Room == IF Cardinality(running) < MaxConcurrent
               THEN MaxConcurrent - Cardinality(running) ELSE 0

\* executeJob is called for every job of started; by names the execution.
Begin(started, by) ==
  LET jobOf == [x \in {by[j] : j \in started} |-> CHOOSE j \in started : by[j] = x]
      used  == DOMAIN jobOf
  IN  /\ Cardinality(used) = Cardinality(started)
      /\ pc'      = [x \in Execs |-> IF x \in used THEN "check" ELSE pc[x]]
      /\ job'     = [x \in Execs |-> IF x \in used THEN jobOf[x] ELSE job[x]]
      /\ copy'    = [k \in Jobs \cup Execs |->
                       CASE k \in Jobs -> None
                         [] k \in used -> copy[jobOf[k]]
                         [] OTHER      -> copy[k]]
      /\ timed'   = timed \cup used
      /\ running' = running \cup started

\* The rows come in no particular order.
TickLoop ==
  /\ ticking
  /\ \E started \in SUBSET Startable :
       /\ Cardinality(started) = IF Cardinality(Startable) < Room
                                   THEN Cardinality(Startable) ELSE Room
       /\ \E by \in [started -> Idle] : Begin(started, by)
  /\ ticking' = FALSE
  /\ UNCHANGED <<rows, history, result, restarts>>

\* triggerJob reads the row, enabled or not, and runs it past every condition.
Trigger(j) ==
  /\ "trigger" \in Events
  /\ runCount[j] < RunBound
  /\ \E x \in Idle :
       /\ pc'   = [pc EXCEPT ![x] = "start"]
       /\ job'  = [job EXCEPT ![x] = j]
       /\ copy' = [copy EXCEPT ![x] = Row(j)]
  /\ UNCHANGED <<rows, history, ticking, running, timed, result, restarts>>
-----------------------------------------------------------------------------
(* executeJob and executeScriptJob.                                        *)

\* checkDependencies, against the lastRunAt of the copy.
DependenciesReady(x) ==
  \A d \in DependsOn[job[x]] :
    d \in enabled /\ d \in copy[x].fresh /\ lastStatus[d] = "COMPLETED"

\* checkWorkspaceBudget: the workspace has spent its month.
BudgetSpent == "decline" \in Events

\* evaluateCondition, of a job that has a condition script.
ConditionSaysNo == "decline" \in Events

\* shouldJobRun, and shouldScriptJobRun, which does not ask for the budget.
JobDeclined(x) == BudgetSpent \/ ~DependenciesReady(x) \/ ConditionSaysNo
ScriptDeclined(x) == ~DependenciesReady(x) \/ ConditionSaysNo

Check(x) ==
  /\ pc[x] = "check"
  /\ \/ DependenciesReady(x) /\ At(x, "check", "start")
     \/ job[x] \in Scripts /\ ScriptDeclined(x) /\ At(x, "check", "skip")
     \/ job[x] \notin Scripts /\ JobDeclined(x) /\ At(x, "check", "skip")
  /\ UNCHANGED <<rows, history, ticking, running, execs, restarts>>

\* updateJobAfterSkip.
Skip(x) ==
  /\ At(x, "skip", "settle")
  /\ due' = [due EXCEPT ![job[x]] = "later"]
  /\ UNCHANGED <<enabled, runCount, lastStatus, newer, history, ticking, running,
                 execs, restarts>>

\* The rows checkConsecutiveFailures asks for.
Latest(runs) == SubSeq(runs, IF Len(runs) > MaxFailures THEN Len(runs) - MaxFailures + 1 ELSE 1,
                       Len(runs))

\* runner.run creates the row of an agent run; a script has none.
StartRun(x) ==
  /\ At(x, "start", "running")
  /\ history' = IF job[x] \in Scripts THEN history
                  ELSE [history EXCEPT ![job[x]] = Latest(Append(@, x))]
  /\ UNCHANGED <<rows, ticking, running, execs, restarts>>

Close(runs, x, status) == [i \in DOMAIN runs |-> IF runs[i] = x THEN status ELSE runs[i]]

\* The agent run closes its row and resolves or rejects; the script exits.  What
\* fails after the row is closed rejects as well.
EndRun(x) ==
  LET j == job[x] IN
  /\ pc[x] = "running"
  /\ \E outcome \in Outcomes[j] :
       LET rejects == outcome # "COMPLETED" /\ j \notin Scripts IN
       /\ history' = [history EXCEPT ![j] = Close(@, x, outcome)]
       /\ \/ /\ ~rejects
             /\ At(x, "running", "record")
             /\ result' = [result EXCEPT ![x] = outcome]
          \/ /\ rejects \/ "stepFails" \in Events
             /\ Catch(x)
  /\ UNCHANGED <<rows, ticking, running, job, timed, copy, restarts>>

\* Mutants: the count is compared with >; null is taken for a number.
ReachedMaxRunsOfNull(j, n) == n >= MaxRunsOf[j]
ReachedMaxRunsLate(j, n) == MaxRunsOf[j] # 0 /\ n > MaxRunsOf[j]

ReachedMaxRuns(j, n) == MaxRunsOf[j] # 0 /\ n >= MaxRunsOf[j]

\* lastRunAt = now: j is newer than every other row, and than every copy of one.
Dependents(j) == {k \in Jobs \ {j} : j \in DependsOn[k]}
JobOf(k)      == IF k \in Jobs THEN k ELSE job[k]

Stamp(j) ==
  /\ newer' = {p \in newer : p[2] # j} \cup {<<j, k>> : k \in Dependents(j)}
  /\ copy'  = [k \in Jobs \cup Execs |->
                 IF copy[k] # None /\ j \in DependsOn[JobOf(k)]
                   THEN [copy[k] EXCEPT !.fresh = @ \cup {j}] ELSE copy[k]]

\* updateJobAfterRun; the new count, and so the limit, is taken from the copy.
RecordRun(x) ==
  LET j == job[x]
      n == IF MaxRunsOf[j] = 0 THEN 0 ELSE copy[x].count + 1
  IN  /\ At(x, "record", IF result[x] = "CAUGHT" /\ j \notin Scripts THEN "streak" ELSE "settle")
      /\ runCount'   = [runCount EXCEPT ![j] = n]
      /\ lastStatus' = [lastStatus EXCEPT ![j] =
                          IF result[x] = "CAUGHT" THEN "FAILED" ELSE result[x]]
      /\ due'        = [due EXCEPT ![j] = IF ReachedMaxRuns(j, n) THEN "never" ELSE "later"]
      /\ enabled'    = IF ReachedMaxRuns(j, n) THEN enabled \ {j} ELSE enabled
      /\ Stamp(j)
      /\ UNCHANGED <<history, ticking, running, job, timed, result, restarts>>

\* The update rejects: inside the try block that is a failure of the job, inside
\* the catch block it ends the execution.
RecordFails(x) ==
  /\ "updateFails" \in Events
  /\ pc[x] = "record"
  /\ IF result[x] = "CAUGHT"
       THEN At(x, "record", "settle") /\ UNCHANGED result
       ELSE Catch(x)
  /\ UNCHANGED <<rows, history, ticking, running, job, timed, copy, restarts>>

\* Mutant: the number of rows is not looked at.
StreakOfAnyLength(j) == \A i \in DOMAIN history[j] : history[j][i] = "FAILED"

\* The latest runs of the job all failed; one that is in flight did not.
Streak(j) ==
  /\ Len(history[j]) >= MaxFailures
  /\ \A i \in DOMAIN history[j] : history[j][i] = "FAILED"

\* checkConsecutiveFailures: read, then disable.
CountFailures(x) ==
  /\ At(x, "streak", IF Streak(job[x]) THEN "disable" ELSE "settle")
  /\ UNCHANGED <<rows, history, ticking, running, execs, restarts>>

Disable(x) ==
  /\ At(x, "disable", "settle")
  /\ enabled' = enabled \ {job[x]}
  /\ UNCHANGED <<due, runCount, lastStatus, newer, history, ticking, running,
                 execs, restarts>>

\* Mutant: a failed execution stays in the running set.
SettleIfCompleted(x) ==
  /\ At(x, "settle", "idle")
  /\ running' = IF x \in timed /\ result[x] = "COMPLETED" THEN running \ {job[x]} ELSE running
  /\ job'     = [job EXCEPT ![x] = None]
  /\ timed'   = timed \ {x}
  /\ copy'    = [copy EXCEPT ![x] = None]
  /\ result'  = [result EXCEPT ![x] = "none"]
  /\ UNCHANGED <<rows, history, ticking, restarts>>

\* The promise of the execution settles; finally() takes a job off the set.  One
\* that rejects is not awaited by the timer, which goes on.
Settle(x) ==
  /\ At(x, "settle", "idle")
  /\ running' = IF x \in timed THEN running \ {job[x]} ELSE running
  /\ job'     = [job EXCEPT ![x] = None]
  /\ timed'   = timed \ {x}
  /\ copy'    = [copy EXCEPT ![x] = None]
  /\ result'  = [result EXCEPT ![x] = "none"]
  /\ UNCHANGED <<rows, history, ticking, restarts>>
-----------------------------------------------------------------------------
(* The environment.                                                        *)

NextRunAtPasses(j) ==
  /\ due[j] = "later"
  /\ due' = [due EXCEPT ![j] = "due"]
  /\ UNCHANGED <<enabled, runCount, lastStatus, newer, history, ticking, running, pc,
                 execs, restarts>>

\* delete_cron_job.
Delete(j) ==
  /\ "delete" \in Events
  /\ j \in enabled
  /\ enabled' = enabled \ {j}
  /\ UNCHANGED <<due, runCount, lastStatus, newer, history, ticking, running, pc,
                 execs, restarts>>

\* A query rejects: what comes before the run is caught, what comes after is not.
StepFails(x) ==
  /\ "stepFails" \in Events
  /\ \/ pc[x] \in {"check", "skip", "start"} /\ Catch(x)
     \/ pc[x] \in {"streak", "disable"}
        /\ pc' = [pc EXCEPT ![x] = "settle"] /\ UNCHANGED result
  /\ UNCHANGED <<rows, history, ticking, running, job, timed, copy, restarts>>

TickFails ==
  /\ "stepFails" \in Events
  /\ ticking
  /\ ticking' = FALSE
  /\ copy' = [k \in Jobs \cup Execs |-> IF k \in Jobs THEN None ELSE copy[k]]
  /\ UNCHANGED <<rows, history, running, pc, job, timed, result, restarts>>

\* The process dies and starts again; the rows of its runs are never FAILED.
Crash ==
  /\ restarts < MaxRestarts
  /\ ticking \/ Idle # Execs
  /\ restarts' = restarts + 1
  /\ history'  = [j \in Jobs |-> [i \in DOMAIN history[j] |->
                    IF history[j][i] \in Execs THEN "CANCELLED" ELSE history[j][i]]]
  /\ ticking'  = FALSE
  /\ running'  = {}
  /\ pc'       = [x \in Execs |-> "idle"]
  /\ job'      = [x \in Execs |-> None]
  /\ timed'    = {}
  /\ copy'     = [k \in Jobs \cup Execs |-> None]
  /\ result'   = [x \in Execs |-> "none"]
  /\ UNCHANGED rows
-----------------------------------------------------------------------------
ExecStep(x) ==
  \/ Check(x) \/ Skip(x) \/ StartRun(x) \/ EndRun(x)
  \/ RecordRun(x) \/ CountFailures(x) \/ Disable(x) \/ Settle(x)

Next ==
  \/ TickRead \/ TickLoop \/ TickFails \/ Crash
  \/ \E j \in Jobs : NextRunAtPasses(j) \/ Trigger(j) \/ Delete(j)
  \/ \E x \in Execs : ExecStep(x) \/ RecordFails(x) \/ StepFails(x)

Spec == Init /\ [][Next]_vars

\* The interval timer ticks for ever, awaits settle, and time passes.
FairSpec ==
  /\ Spec
  /\ WF_vars(TickRead) /\ WF_vars(TickLoop)
  /\ \A x \in Execs : WF_vars(ExecStep(x))
  /\ \A j \in Jobs : WF_vars(NextRunAtPasses(j))
-----------------------------------------------------------------------------
(* Properties.                                                             *)

TypeOK ==
  /\ enabled \subseteq Jobs
  /\ due \in [Jobs -> {"due", "later", "never"}]
  /\ runCount \in [Jobs -> 0..RunBound]
  /\ lastStatus \in [Jobs -> {"none", "COMPLETED", "FAILED"}]
  /\ newer \subseteq Jobs \X Jobs
  /\ history \in [Jobs -> Seq(Execs \cup {"COMPLETED", "FAILED", "CANCELLED"})]
  /\ \A j \in Jobs : Len(history[j]) <= MaxFailures
  /\ ticking \in BOOLEAN
  /\ running \subseteq Jobs
  /\ pc \in [Execs -> Labels]
  /\ job \in [Execs -> Jobs \cup {None}]
  /\ timed \subseteq Execs
  /\ copy \in [Jobs \cup Execs -> Copies \cup {None}]
  /\ result \in [Execs -> {"none", "COMPLETED", "FAILED", "CAUGHT"}]
  /\ restarts \in 0..MaxRestarts

\* The timer never has two executions of one job in flight, nor more executions
\* than the limit, also when queries are slow, steps fail and the process restarts.
\* (the running set of scheduler.ts 95-110)
TimerIsExclusive ==
  /\ \A x, y \in timed : job[x] = job[y] => x = y
  /\ Cardinality(timed) <= MaxConcurrent

\* The timer alone, with no trigger, no failing update and no restart, never gives
\* a job more than twice its maxRuns agent runs: a query that straddles the end of
\* a run costs one increment, and never two in a row.  (scheduler.ts 84-123, 306)
OvershootIsBounded ==
  Events \cap {"trigger", "updateFails"} = {} /\ MaxRestarts = 0
    => \A j \in Jobs : MaxRunsOf[j] # 0 => Len(history[j]) <= 2 * MaxRunsOf[j]

\* A job whose agent never fails is never disabled, whatever else fails around
\* its runs.  (scheduler.ts 217-234 with 326-354)
HealthyJobStaysEnabled ==
  "delete" \notin Events
    => \A j \in Jobs : Outcomes[j] = {"COMPLETED"} /\ MaxRunsOf[j] = 0 => j \in enabled

\* A job whose agent always fails is disabled in the end.  (scheduler.ts 326-354)
BrokenJobIsDisabled ==
  \A j \in Jobs \ (Scripts \cup Suppressed) : Outcomes[j] = {"FAILED"} => <>(j \notin enabled)

\* A due job is run or skipped, also when the process restarts in the middle of
\* it, unless it is disabled.  (scheduler.ts 84-123)
DueJobIsServed ==
  \A j \in Jobs \ Suppressed :
    j \in enabled /\ due[j] = "due" ~> due[j] # "due" \/ j \notin enabled
=============================================================================
