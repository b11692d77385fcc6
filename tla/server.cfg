\* Two clients, one of which does not read its replies.
CONSTANTS
    Client = {c1, c2}
    Readers = {c1}
    MaxAsked = 3
    MaxLog = 3
    MaxChanges = 2
SPECIFICATION MCSpec
CHECK_DEADLOCK FALSE
INVARIANTS NoIdleQueue AnsweredOnce
PROPERTIES EveryReaderServed EveryNodeReleased
