--------------------------- MODULE MCCronScheduler ---------------------------
(***************************************************************************)
(* Instances of CronScheduler for TLC: jobs of the timer, and a healthy    *)
(* job among failures.  They share no state; one run explores them one at  *)
(* a time, and which is the one a behaviour is about.                      *)
(***************************************************************************)
EXTENDS CronScheduler, TLC

CONSTANTS a1, a2, x1, x2

CONSTANT HealthyEvents  \* what may happen around the healthy job

ASSUME HealthyAssumption == HealthyEvents \subseteq CronEvents

VARIABLES which, hEnabled, hDue, hRunCount, hLastStatus, hNewer, hHistory, hTicking,
          hRunning, hPc, hJob, hTimed, hCopy, hResult, hRestarts

healthyVars == <<hEnabled, hDue, hRunCount, hLastStatus, hNewer, hHistory, hTicking,
                 hRunning, hPc, hJob, hTimed, hCopy, hResult, hRestarts>>
timerVars == <<which, vars, healthyVars>>

Independent == [j \in Jobs |-> {}]
NoLimits    == [j \in Jobs |-> 0]
OnceOrTwice == [j \in Jobs |-> IF j = a1 THEN 2 ELSE 1]

\* Agents that do as they like; a healthy one beside one that is refused or fails.
Arbitrary        == [j \in Jobs |-> {"COMPLETED", "FAILED"}]
HealthyOrRefused == [j \in Jobs |-> IF j = a1 THEN {"COMPLETED"} ELSE {"FAILED", "CANCELLED"}]

Interchangeable == Permutations(Execs)

\* No scripts, and room for one execution.
Healthy == INSTANCE CronScheduler WITH
  Scripts <- {}, MaxRunsOf <- NoLimits, Outcomes <- HealthyOrRefused,
  MaxConcurrent <- 1, MaxFailures <- 2, RunBound <- 1, Events <- HealthyEvents,
  enabled <- hEnabled, due <- hDue, runCount <- hRunCount, lastStatus <- hLastStatus,
  newer <- hNewer, history <- hHistory, ticking <- hTicking, running <- hRunning,
  pc <- hPc, job <- hJob, timed <- hTimed, copy <- hCopy, result <- hResult,
  restarts <- hRestarts
-----------------------------------------------------------------------------
TimerInit == which \in {"timer", "healthy"} /\ Init /\ Healthy!Init

TimerNext ==
  \/ which = "timer"   /\ Next         /\ UNCHANGED <<which, healthyVars>>
  \/ which = "healthy" /\ Healthy!Next /\ UNCHANGED <<which, vars>>

TimerSpec == TimerInit /\ [][TimerNext]_timerVars

\* A job whose agent never fails is never disabled, whatever else fails around its
\* runs: triggers, refusals, steps and updates.  (scheduler.ts 217-234 with 326-354)
HealthyJobSurvives == Healthy!HealthyJobStaysEnabled
=============================================================================
