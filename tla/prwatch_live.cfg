\* An opted-in watcher or not, pushes while it works, a merge at any moment or never.
SPECIFICATION FairSpec
CONSTANTS
    Watchers = {"w1"}
    MaxHead = 2
    MaxProbes = 2
    FaultSets = {{}}
    Owner = FALSE
    Relayed = {}
CHECK_DEADLOCK FALSE
PROPERTIES NewHeadGetsVerdict RoundEnds
