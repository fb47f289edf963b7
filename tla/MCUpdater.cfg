SPECIFICATION FairSpec
CONSTANTS
    Overlap = FALSE
    MaxCommits = 2
    MaxRequests = 1
    MaxFailures = 2
    MaxSaves = 2
    MaxEdits = 2
    MaxRestarts = 1
CHECK_DEADLOCK FALSE
INVARIANTS TypeOK NothingHidden NothingOfTheUserLost
PROPERTIES Updated
