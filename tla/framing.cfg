\* Streams of up to two messages of any type.
CONSTANTS
    MaxMessages = 2
    Chunk = 2
SPECIFICATION Spec
CHECK_DEADLOCK FALSE
INVARIANTS ReadsAsWritten
