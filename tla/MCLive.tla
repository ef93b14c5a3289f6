------------------------------- MODULE MCLive -------------------------------
(***************************************************************************)
(* Instances for TLC of what must happen in the end: permission gates are  *)
(* settled and due jobs served; and of runs that nothing disturbs, or      *)
(* whose calls fail.  The modules share no state here, so one run explores *)
(* them one at a time: part is the module whose behaviours a behaviour of  *)
(* this one is, and fairness is asked of its steps alone.                  *)
(***************************************************************************)
EXTENDS CronScheduler, TLC

CONSTANTS q1, c1, c2, j1, j2, j3, e1, e2, t1, r1, r2

\* Of ApprovalGate and AgentRuns.
CONSTANTS Requests, Actors, PressEvents,
          Threads, Runs, NoRun, SerialEvents, FaultEvents

VARIABLES part,
  row, recorded, late, text, gate, read, answer, acted, gateAt, wants, won, saw,
  status, phase, lockedBy, runStatus, runPc, seen, round, outcome, holds, overdue,
  slots, outlived, fate, detector

permissionVars == <<row, recorded, late, text, gate, read, answer, acted, gateAt, wants, won, saw>>
runVars == <<status, phase, lockedBy, runStatus, runPc, seen, round, outcome, holds,
             overdue, slots, outlived, fate, detector>>
mcVars == <<part, vars, permissionVars, runVars>>

\* A healthy job, a broken one that depends on it and a suppressed heartbeat.
Pipeline  == [j \in Jobs |-> IF j = j2 THEN {j1} ELSE {}]
Unlimited == [j \in Jobs |-> 0]
HealthyOrBroken == [j \in Jobs |-> IF j = j1 THEN {"COMPLETED"} ELSE {"FAILED"}]

\* Two presses, or a press and a submitted code, about one request.
Gate == INSTANCE ApprovalGate WITH
  AboutOf <- (c1 :> q1) @@ (c2 :> q1),
  Managed <- TRUE, Events <- PressEvents, at <- gateAt

\* Two messages on one thread, one after the other, or under faults.
Serial == INSTANCE AgentRuns WITH
  ThreadOf <- [r \in Runs |-> t1], MaxConcurrentRuns <- 2, MaxToolRounds <- 2,
  SharedSlots <- FALSE, Events <- SerialEvents, pc <- runPc
Faulty == INSTANCE AgentRuns WITH
  ThreadOf <- [r \in Runs |-> t1], MaxConcurrentRuns <- 1, MaxToolRounds <- 1,
  SharedSlots <- FALSE, Events <- FaultEvents, pc <- runPc

\* The second of two runs waits for the first, and no call of theirs fails; or calls
\* fail before they take effect, and those of the clean-up do not.
ASSUME RunEventsAssumption ==
  /\ t1 \in Threads /\ Runs = {r1, r2} /\ NoRun \notin Runs
  /\ SerialEvents \subseteq {"lockTimeout", "slotTimeout", "cleanupFails", "staleness"}
  /\ FaultEvents \subseteq {"overlap", "lockTimeout", "slotTimeout", "crash", "stepFails", "staleness"}
-----------------------------------------------------------------------------
MCInit ==
  /\ part \in {"gate", "timer", "serial", "faulty"}
  /\ Init /\ Gate!Init /\ Serial!Init
  /\ part \notin {"serial", "faulty"} => status[t1] = "absent"

Only(x) ==
  /\ part = x /\ part' = part
  /\ x # "gate"    => UNCHANGED permissionVars
  /\ x # "timer"   => UNCHANGED vars
  /\ x \notin {"serial", "faulty"} => UNCHANGED runVars

MCNext ==
  \/ Only("timer")   /\ Next
  \/ Only("gate")    /\ Gate!Next
  \/ Only("serial")  /\ Serial!Next
  \/ Only("faulty")  /\ Faulty!Next

\* The fairness of the two modules, asked of the part explored: awaits settle, the
\* interval timer ticks, time passes.
MCFairness ==
  /\ WF_vars(part = "timer" /\ TickRead)
  /\ WF_vars(part = "timer" /\ TickLoop)
  /\ \A x \in Execs : WF_vars(part = "timer" /\ ExecStep(x))
  /\ \A j \in Jobs : WF_vars(part = "timer" /\ NextRunAtPasses(j))
  /\ \A q \in Requests : WF_permissionVars(part = "gate" /\ Gate!RunStep(q))
  /\ \A q \in Requests : WF_permissionVars(part = "gate" /\ Gate!ExpiresAtPasses(q))

MCSpec == MCInit /\ [][MCNext]_mcVars /\ MCFairness
-----------------------------------------------------------------------------
\* A gate ends for its run, and what was approved while it is open is carried out.
\* (waitForApproval and reExecuteApprovedTool, runner.ts 703-808)
GateIsSettled == Gate!EveryGateEnds /\ Gate!ApprovalIsCarriedOut

\* A due job is run or skipped, also across a restart, and one whose agent always fails
\* is disabled in the end.  (tick and the streak, scheduler.ts 84-123 and 326-354)
JobsAreServed == DueJobIsServed /\ (part = "timer" => BrokenJobIsDisabled)

\* A run that no other run of its thread overlaps, and whose calls succeed, does not
\* fail; and a call of run() that is over left nothing behind, no lock and no slot,
\* whatever step of it failed before its clean-up.  (phases.ts, execute() and the
\* finally block, runner.ts 316-323, 392-407 and 541-641)
RunsEndClean ==
  /\ part = "serial" => Serial!OnlyFaultsFailRuns
  /\ part = "faulty" => Faulty!EndedRunsHoldNothing
=============================================================================
