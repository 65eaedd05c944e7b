CONSTANTS
    c1 = c1
    c2 = c2
    Calls = {c1, c2}
    Capacity = 2
    MaxLines = 2
    LongLines = TRUE
SPECIFICATION Spec
INVARIANT TypeOK
INVARIANT NoticeAfterTail
INVARIANT LogIsNewest
INVARIANT SnapshotIsNewest
INVARIANT StopLeavesNothing
PROPERTY ImplementsContract
