\* Datagrams lost, repeated and late; one session that stops, two silences.
CONSTANTS
  Shards = {s1, s2}
  HostOf <- OwnHost
  NodeQuorum = 2
  MaxFaults = 1
  MaxOutages = 2
  MaxStops = 1
SPECIFICATION FairSpec
INVARIANTS TypeOK ConfirmedBothWays NodeBacked
PROPERTIES AdjacencyForms StoppedGivenUp NodeSettles
CHECK_DEADLOCK FALSE
