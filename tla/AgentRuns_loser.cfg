\* Two messages arrive together on one thread; nothing fails or times out.
SPECIFICATION Spec
CONSTANTS
  t1 = t1  t2 = t2  r1 = r1  r2 = r2  r3 = r3
  NoRun = NoRun
  Threads = {t1}
  Runs = {r1, r2}
  ThreadOf <- Pair
  MaxConcurrentRuns = 2
  MaxToolRounds = 1
  SharedSlots = FALSE
  Events = {"overlap"}
PROPERTIES LoserLeavesWinnerAlone
CHECK_DEADLOCK FALSE
