\* Liveness of permission gates and of the timer, runs nothing disturbs and
\* runs whose calls fail, one at a time.
SPECIFICATION MCSpec
CONSTANTS
  q1 = q1  c1 = c1  c2 = c2
  j1 = j1  j2 = j2  j3 = j3  e1 = e1  e2 = e2  t1 = t1  r1 = r1  r2 = r2
  Requests = {q1}
  Actors = {c1, c2}
  PressEvents = {"code", "postFails", "redrawFails"}
  Jobs = {j1, j2, j3}
  Scripts = {}
  Suppressed = {j3}
  DependsOn <- Pipeline
  MaxRunsOf <- Unlimited
  Outcomes <- HealthyOrBroken
  Events = {}
  Execs = {e1, e2}
  None = None
  MaxConcurrent = 2
  MaxFailures = 2
  RunBound = 1
  MaxRestarts = 1
  Threads = {t1}
  Runs = {r1, r2}
  NoRun = NoRun
  SerialEvents = {"lockTimeout", "slotTimeout", "staleness"}
  FaultEvents = {"overlap", "lockTimeout", "slotTimeout", "crash", "stepFails", "staleness"}
INVARIANTS RunsEndClean 
PROPERTIES GateIsSettled JobsAreServed
CHECK_DEADLOCK FALSE
