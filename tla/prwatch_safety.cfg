\* Everything reliable, or failing reads, force pushes and exceptions; a second completer.
SPECIFICATION Spec
CONSTANTS
    Watchers = {"w1"}
    MaxHead = 2
    MaxProbes = 2
    FaultSets = {{}, {"probes", "rewinds", "steps"}}
    Owner = TRUE
    Relayed = {"pr_merged"}
CHECK_DEADLOCK FALSE
INVARIANTS TypeOK VerdictMatchesHead CleanMergeWasConfirmed EventBeforePush VerdictWaitsForAllChecks
