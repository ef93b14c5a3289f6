\* An agent that runs twice, a script that runs once, and room for both; or a healthy
\* job and one that is refused or fails, room for one, and everything else may fail.
SPECIFICATION TimerSpec
CONSTANTS
  a1 = a1  a2 = a2  x1 = x1  x2 = x2
  None = None
  Jobs = {a1, a2}
  Scripts = {a2}
  Suppressed = {}
  DependsOn <- Independent
  MaxRunsOf <- OnceOrTwice
  Outcomes <- Arbitrary
  Execs = {x1, x2}
  MaxConcurrent = 2
  MaxFailures = 5
  RunBound = 2
  MaxRestarts = 0
  Events = {"delete", "decline", "stepFails"}
  HealthyEvents = {"trigger", "decline", "stepFails", "updateFails"}
SYMMETRY Interchangeable
INVARIANTS TypeOK TimerIsExclusive OvershootIsBounded HealthyJobSurvives
CHECK_DEADLOCK FALSE
