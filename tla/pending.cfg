\* Commands one after the other, killed anywhere; the dispatcher goes on with its rounds.
SPECIFICATION FairSpec
CONSTANTS
    Tasks = {"a", "b"}
    Writers = {"w1"}
    Threshold = 1
    MaxTime = 3
    MaxEntries = 2
INVARIANTS StaleTraceIsClosed RepliesInOrder
PROPERTIES QuestionsOnlyAdvance GapsAreReported
