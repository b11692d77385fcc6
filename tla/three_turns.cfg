\* Servers 1 and 2 take turns in the terms 2 to 5.
CONSTANTS
    Server = {1, 2, 3}
    Nil = Nil
    Writes = {1, 2}
    Reads = {}
    MaxBatch = 1
    MaxBackOff = 1
    Candidates <- TakeTurns
    MaxRefusals = 0
    Quota <- OneEachTo3
SPECIFICATION MCSpec
VIEW LiveView
CHECK_DEADLOCK FALSE
INVARIANTS LeaderCompleteness
PROPERTIES ImplementsReplicatedLog
