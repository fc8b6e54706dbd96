\* Two tasks of one project, every kind of registry row, with and without misuse.
SPECIFICATION Spec
CONSTANTS
    Tasks = {t1, t2}
    Appliers = {a1, a2}
    Scenarios <- MCScenarios
    NoTask = none
    t1 = t1
    t2 = t2
    a1 = a1
    a2 = a2
    none = none
CHECK_DEADLOCK FALSE
SYMMETRY Symmetry
INVARIANTS TypeOK OneReservationPerBase WorkerFindsItsBrief NoReservationLeaks WorktreeBeforeRun
