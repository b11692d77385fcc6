\* Two servers: one of them is a commit quorum, both elect a leader.
CONSTANTS
    Server = {s1, s2}
    Nil = Nil
    Writes = {1, 2, 3}
    Reads = {r1}
    MaxBatch = 2
    MaxBackOff = 2
    Candidates <- AnyoneTo4
    MaxRefusals = 1
    Quota <- OneEach
SPECIFICATION MCSpec
VIEW LiveView
SYMMETRY ServerSymmetry
CHECK_DEADLOCK FALSE
INVARIANTS TypeOK NextIndexInRange AppliedOnce LeaderCompleteness
PROPERTIES ImplementsReplicatedLog
