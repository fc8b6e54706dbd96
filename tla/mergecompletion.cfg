\* Two calls for one PR that overlap and die, two runs that may share its branch.
SPECIFICATION Spec
CONSTANTS
    MaxRun = 2
    PRs = {"p1"}
    Branches = {"feat"}
    Callers = {c1, c2}
    EventCap = 3
    NoPR = "no_pr"
    NoBranch = "no_branch"
    c1 = c1
    c2 = c2
SYMMETRY Symmetry
INVARIANTS MergedIffEvent BriefGoneAfterMerge RecordedOncePerCaller BackfilledGoesToOwner
