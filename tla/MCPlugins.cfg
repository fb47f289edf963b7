\* A chain of three plugins that can turn into a cycle, one run of the hooks.
CONSTANTS
  p1 = p1 p2 = p2 p3 = p3
  Plugins = {p1, p2, p3}
  Manifests <- Chain
  Absent = Absent
  Settings = {set}
  Unset = Unset
  Passes = {r1}
  RecursionLimit = 4
  MaxRequests = 4
  MaxSnapshots = 1
SPECIFICATION FairSpec
INVARIANTS TypeOK HooksAccounted RestoredAsSaved
PROPERTY EveryRequestAnswered
CHECK_DEADLOCK FALSE
