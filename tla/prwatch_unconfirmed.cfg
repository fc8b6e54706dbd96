\* The comment: an unconfirmed head is not reported as a clean merge.
SPECIFICATION Spec
CONSTANTS
    Watchers = {"w1"}
    MaxHead = 2
    MaxProbes = 1
    FaultSets = {{}}
    Owner = FALSE
    Relayed = {"pr_merged"}
CHECK_DEADLOCK FALSE
INVARIANTS UnconfirmedNotReportedClean
