\* Overlapping scans with every floor and limit, one pre-ledger row possible.
SPECIFICATION Spec
CONSTANTS
    MaxEvents = 2
    MaxHistory = 1
    Recipients = {"secretary"}
    Relays = {r1, r2}
    Watchers = {"w1"}
    Epoch = 1
    Floors = {0, 1, 2}
    Limits = {1, 2}
    Undeliverable = {}
    AttemptCap = 3
    MaxCrashes = 1
    r1 = r1
    r2 = r2
SYMMETRY Symmetry
CHECK_DEADLOCK FALSE
INVARIANTS ClosedOnlyAfterRelay CopiesAccounted
PROPERTIES DeliveredIsFinal KeepsPromise
