\* The store with two clients, two keys and up to three writes; logs of up to four
\* entries, clusters of up to five; windows of up to four of three numbers; command
\* lines of up to four options.
CONSTANTS
    Clients = {c1, c2}
    Keys = {k1, k2}
    Values = {v1, v2}
    NoValue = NoValue
    MaxLog = 3
    Terms = {1, 2}
    MaxLen = 4
    MaxServers = 5
    Numbers = {1, 2, 3}
    windowSize = 4
    Targets = {50, 80, 90, 99}
    Texts <- FourTexts
    Ids = {1, 12}
    MaxOptions = 4
SPECIFICATION SequentialSpec
SYMMETRY Symmetry
CHECK_DEADLOCK FALSE
INVARIANTS TypeOK MapIsLog ReadsWhatWasTaken
INVARIANTS AppendAsWritten ApplyAsWritten CommitAsWritten
INVARIANTS PercentileOfWindow OneCluster OnlyCutIdsAreLost
