\* Four lines, of which two are reads, through a window of two.
CONSTANTS
    maxInflight = 2
    MaxUint64 = 7
    Lines = 4
    Reads = {2, 3}
    MaxLog = 5
SPECIFICATION FairSpec
INVARIANTS TypeOK OneTimePerCommand PairedByIndex
PROPERTIES AllLinesSent
CHECK_DEADLOCK FALSE
