\* Three agents, two rounds, both endpoints.
CONSTANTS
  a1 = a1 a2 = a2 a3 = a3
  x = x y = y z = z
  Agents = {a1, a2, a3}
  Listing <- Three
  Answers = {x, y, z}
  Failed = Failed
  NoText = NoText
  Metrics <- Spread
  MaxRounds = 2
  SimilarityThreshold = 50
  QuorumThreshold = 66
SPECIFICATION FairSpec
INVARIANTS TypeOK FairBoard FailedStayOut ViewsOwned MeanLinkage
PROPERTIES Answered ImplementsCouncil
CHECK_DEADLOCK FALSE
