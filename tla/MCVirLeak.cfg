\* Two overlapping cycles, auto-injection or not.
CONSTANTS
  Cycles = {c1, c2}
  NoCycle = NoCycle
  Threads = {w1, w2}
  EventLoop = loop
  Targets <- MCTargets
  Tuned <- MCTuned
  Values = {1, 2, 4, 5, 6, 7, 8, 10}
  Absent = Absent
  Torn = Torn
  Initial <- MCInitial
  Batches <- SmallBatches
  Endpoints = {"cycle"}
  MinVal <- MCMin
  MaxVal <- MCMax
  MaxPerHour = 2
  MaxEntries = 2
  MaxRequests = 2
  MaxCrashes = 0
SPECIFICATION Spec
INVARIANT NothingAppliedUnlessInjected
CHECK_DEADLOCK FALSE
