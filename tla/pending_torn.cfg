\* The docstring: the file is written atomically; here by commands that overlap.
SPECIFICATION Spec
CONSTANTS
    Tasks = {"a"}
    Writers = {"w1", "w2"}
    Threshold = 1
    MaxTime = 3
    MaxEntries = 2
INVARIANTS StoreIsWhole
