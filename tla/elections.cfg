\* Three servers, started one after the other; a unit of time stands for 5/6 seconds.
CONSTANTS
    Server = {s1, s2, s3}
    Nil = Nil
    Writes = {1}
    Reads = {}
    MaxBatch = 1
    MaxBackOff = 1
    Election = 6
    Rpc = 12
    Jitter = {0, 3, 6}
    Never = Never
    Delay = 1
    Gaps = {2}
    Shared = 2
    Deadline = 11
SPECIFICATION MCSpec
VIEW Ahead
SYMMETRY ServerSymmetry
INVARIANTS LedInTime FollowersWait
PROPERTIES LeaderStays SettledStays
