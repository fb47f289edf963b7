\* One request at a time; only whole cycles are rolled back.
CONSTANTS
  Cycles = {c1, c2}
  NoCycle = NoCycle
  Threads = {w1}
  EventLoop = loop
  Targets <- MCTargets
  Tuned <- MCTuned
  Values = {1, 2, 4, 5, 6, 7, 8, 10}
  Absent = Absent
  Torn = Torn
  Initial <- MCInitial
  Batches <- SmallBatches
  Endpoints = {"cycle", "inject", "rollback_cycle"}
  MinVal <- MCMin
  MaxVal <- MCMax
  MaxPerHour = 2
  MaxEntries = 4
  MaxRequests = 4
  MaxCrashes = 0
SPECIFICATION Spec
INVARIANT CycleRollbackRestores
CHECK_DEADLOCK FALSE
