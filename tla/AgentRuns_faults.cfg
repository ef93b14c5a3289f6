\* Any awaited call may reject, before or after its effect, also in clean-up; leases run
\* out, the process may crash; one slot in Redis.
SPECIFICATION FairSpec
CONSTANTS
  t1 = t1  t2 = t2  r1 = r1  r2 = r2  r3 = r3
  NoRun = NoRun
  Threads = {t1}
  Runs = {r1, r2}
  ThreadOf <- Pair
  MaxConcurrentRuns = 1
  MaxToolRounds = 2
  SharedSlots = TRUE
  Events = {"overlap", "lockTimeout", "crash", "stepFails", "replyLost", "cleanupFails", "staleness"}
PROPERTIES LeaseSpec EveryRunEnds WedgedThreadRecovers OrphanRowsAreClosed
CHECK_DEADLOCK FALSE
