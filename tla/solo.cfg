\* A cluster of one server, which takes its commands one by one.
CONSTANTS
    Server = {s1}
    Nil = Nil
    Writes = {1, 2, 3}
    Reads = {r1, r2}
    MaxBatch = 1
    MaxBackOff = 1
    Election = 4
    Rpc = 8
    Jitter = {0, 4}
    Never = Never
    Delay = 1
    Gaps = {}
    Shared = 0
    Deadline = 0
SPECIFICATION TickingSpec
PROPERTIES EveryCommandAnswered ImplementsReplicatedLog
