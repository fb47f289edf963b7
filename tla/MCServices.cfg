\* One component at a time, each with its small constants.
CONSTANTS
    InstanceWorkers = {"w1"}
    MaxNumber = 4
    MaxOperations = 6
    MaxInstanceFaults = 4
    Tasks = {1, 2}
    Names = {"shard-1", "shard-2"}
    Service <- MCService
    Counts = {2, 3}
    MaxStarts = 2
    MaxClusterFaults = 2
    WeightHosts = {"h1", "h2"}
    Challenges = {"c1", "c2"}
    Grades = {0, 100}
    Window = 2
    MaxIssued = 2
    MaxGrades = 3
    MaxRestarts = 1
    Files = {"f1", "f2"}
    Layers <- MCLayers
    Unreadable = {"f2"}
    DownloadWorkers = {"w1", "w2"}
    EventLoop = "loop"
    Ranges <- MCRanges
    All <- MCAll
    MaxDownloads = 3
    Writers = {"scribe"}
    Manifests = {"m1", "m2"}
    Cartridge <- MCCartridge
    Body <- MCBody
    SigningKeys = {"k1", "k2", "k3"}
    Trusted = {"k1", "k2"}
    Threshold = 2
    MaxCrashes = 2
    Primary = Primary
    Validations = {"v1", "v2"}
    Requests = {"r1"}
    Prompts = 2
    Sessions <- MCSessions
    Limit = 4
    Torn = Torn
    MaxSessions = 4
    MaxAdopted = 4
    Adapters <- MCAdapters
    Cycles = {1, 2}
    Entries = {0, 3}
    PerFeed = 2
    MaxFed = 2
    MaxNoted = 1
    Variables = {"key", "remote"}
    Remotes = {"remote"}
    Keys = {"k1", "k2"}
    Unset = Unset
    Accepted = {"k1"}
    Given <- MCGiven
    Templates <- MCTemplates
    MaxKeyRequests = 4
SPECIFICATION Spec
INVARIANTS TypeOK ClusterConsistent TasksAccounted ReputationEarned ManifestTruthful
INVARIANTS HeadsLoad VirIsolated ProposalsRight StatsAddUp KeysKept
CHECK_DEADLOCK FALSE
