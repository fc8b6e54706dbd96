\* The docstring: no double event row.
SPECIFICATION Spec
CONSTANTS
    MaxRun = 1
    PRs = {"p1"}
    Branches = {"feat"}
    Callers = {c1, c2}
    EventCap = 3
    NoPR = "no_pr"
    NoBranch = "no_branch"
    c1 = c1
    c2 = c2
SYMMETRY Symmetry
INVARIANTS NoDoubleEventRow
