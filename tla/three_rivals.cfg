\* Servers 1 and 2 compete for the terms 2 and 3.
CONSTANTS
    Server = {1, 2, 3}
    Nil = Nil
    Writes = {1, 2}
    Reads = {}
    MaxBatch = 1
    MaxBackOff = 1
    Candidates <- TwoTo3
    MaxRefusals = 0
    Quota <- Unlimited
SPECIFICATION MCSpec
VIEW LiveView
CHECK_DEADLOCK FALSE
INVARIANTS ElectionSafety MatchIndexSound NextIndexInRange
PROPERTIES OneLogPerTerm
