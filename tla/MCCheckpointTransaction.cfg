\* Three slots, six rows, three generations of which two are kept.
SPECIFICATION Spec
CONSTANTS
    Capacity = 3
    KeepLatest = 2
    MaxRows = 6
    MaxGenerations = 3
    None = None
INVARIANTS TypeOK CommittedRowsIntact RecoveryAccepts LastKnownGoodKept
PROPERTIES ImplementsCommittedReplay
\* A run ends for good when it is closed before its first commit, or complete.
CHECK_DEADLOCK FALSE
