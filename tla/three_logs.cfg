\* Server 1 leads the terms 2 and 4, server 2 the term 3, each with a write of its own.
CONSTANTS
    Server = {1, 2, 3}
    Nil = Nil
    Writes = {1, 2, 3}
    Reads = {}
    MaxBatch = 1
    MaxBackOff = 1
    Candidates <- TurnsTo4
    Quota <- OneEach
    MaxRefusals = 0
SPECIFICATION MCSpec
VIEW LiveView
CHECK_DEADLOCK FALSE
INVARIANTS LogMatching
