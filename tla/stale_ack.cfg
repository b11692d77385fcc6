\* Servers 1 and 2 take turns: does a write's reply name its own entry?
CONSTANTS
    Server = {1, 2, 3}
    Nil = Nil
    Writes = {1, 2}
    Reads = {}
    MaxBatch = 1
    MaxBackOff = 1
    Candidates <- TakeTurns
    MaxRefusals = 0
    Quota <- OneEachTo3
SPECIFICATION MCSpec
VIEW LiveView
CHECK_DEADLOCK FALSE
INVARIANTS WriteAckMatchesLog
