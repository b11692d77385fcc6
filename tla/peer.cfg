\* A node of a peer, of which the third connection does not break, or of a client,
\* whose only connection may break.
CONSTANTS
    MaxSends = 2
    MaxSent = 6
    MaxSockets = 3
SPECIFICATION MCFairSpec
INVARIANTS TypeOK OneWriter NoGaps NothingLostWhileUp
PROPERTIES EveryMessageSettles
