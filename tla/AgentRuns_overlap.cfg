\* Three messages on one thread, in flight together; leases and slots time out.
SPECIFICATION Spec
CONSTANTS
  t1 = t1  t2 = t2  r1 = r1  r2 = r2  r3 = r3
  NoRun = NoRun
  Threads = {t1}
  Runs = {r1, r2, r3}
  ThreadOf <- OneThread
  MaxConcurrentRuns = 2
  MaxToolRounds = 1
  SharedSlots = FALSE
  Events = {"overlap", "lockTimeout", "slotTimeout", "staleness"}
SYMMETRY Interchangeable
INVARIANTS TypeOK LeaseExclusive WithinLimit ThreadLeftReady WorkingRunIsRunning
PROPERTIES CallSpec
CHECK_DEADLOCK FALSE
