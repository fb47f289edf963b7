\* Requests one at a time, and fewer that overlap or are cut short by a restart.
CONSTANTS
  Cycles = {c1, c2}
  NoCycle = NoCycle
  Threads = {w1, w2}
  EventLoop = loop
  Targets <- MCTargets
  Tuned <- MCTuned
  Values = {1, 2, 4, 5, 6, 7, 8, 10}
  Absent = Absent
  Torn = Torn
  Initial <- MCInitial
  Batches <- MCBatches
  Endpoints = {"cycle", "inject", "rollback", "rollback_cycle"}
  MinVal <- MCMin
  MaxVal <- MCMax
  MaxPerHour = 2
  MaxEntries = 10
  MaxRequests = 5
  MaxCrashes = 1
SPECIFICATION Spec
CONSTRAINT InBounds
SYMMETRY Symmetric
INVARIANTS TypeOK OnlyApproved LedgerTruthful LedgerExact NothingInForceAsShipped
PROPERTY SmokeFailureUndone
CHECK_DEADLOCK FALSE
