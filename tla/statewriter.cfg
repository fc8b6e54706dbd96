CONSTANTS
    Writers = {w1, w2}
    Runs = {t1}
    Written = {"in_use", "completed"}
    MaxCommit = 3
SPECIFICATION Spec
SYMMETRY Symmetry
INVARIANTS ArchivedWasCompleted NothingLeftBehind SoloCommitCatchesUp
