\* The programs beside the registry, one at a time.
SPECIFICATION Spec
CONSTANTS
    NoRecord = NoRecord
    NoRun = NoRun
    NoFile = NoFile
    NoVerb = NoVerb
    \* QueueWatcher
    MaxMessage = 2
    StaleSec = 1
    MaxClock = 2
    MaxUnlogged = 2
    MaxReaps = 1
    MaxRestarts = 1
    \* PeerSend
    MaxLines = 4
    \* Sidecar
    Pids = {1, 2}
    Brokers = {"a", "b"}
    MaxStarts = 4
    \* Dashboard
    Clients = {"c1", "c2"}
    MaxVersion = 3
    MaxFailures = 1
    \* DbDiscovery
    Openers = {"t1", "t2"}
    MaxKills = 1
    \* Migration
    MaxApplies = 2
    MaxRollbacks = 2
    MaxCuts = 2
    \* ColdArchive
    Dirs = {"d1", "d2", "d3"}
    Base <- Bases
    MaxCommands = 2
    MaxTouches = 2
    \* WorkDiscovery
    Scanned <- Repositories
    ByName <- Alphabetical
    Issues <- OpenIssues
    Pulls <- OpenPulls
    Outside <- Elsewhere
    Attributes <- Looks
    TopN = 1
    FreePanes = 1
    OpenLimit = 3
    RecentMerges = 1
    MaxBlockers = 1
    MaxChanges = 1
    \* EffortModel
    HomeRepository = "ja"
    HomeIssues = {1, 2, 3}
    Abroad <- ClosedAbroad
    Lengths = {0, 1, 2, 3}
    Efforts = {1, 2}
    MaxMerged = 3
    MinSamples = 3
    Short = 2
    Long = 3
    \* SetupPrune
    MaxPrunings = 2
    MaxSeconds = 2
    MaxEdits = 1
    \* Rebuild and Upkeep
    Tasks = {"t1"}
    Writers = {"w1", "w2"}
    MaxImportCommits = 2
    MaxRebuilds = 1
    MaxCommits = 3
    \* StallDetection
    Verbs = {"v1", "v2"}
    Threshold = 2
    Cap = 2
    MaxCycles = 4
    MaxFaults = 1
    \* RetroGate
    MaxAttempts = 3
    MaxInbox = 2
    MaxLosses = 1
CHECK_DEADLOCK FALSE
INVARIANTS TypeOK
    MessagesAreTrue OwnProgramIsStopped StateIsFound MovesAreWhole
    DiscoveryIsTrue EffortsAreLearned UpkeepIsSafe
PROPERTIES SecretaryIsAlarmed RebuildKeepsRuns WorkersAreWatched
