CONSTANTS
    None = None
    Unreadable = Unreadable
    Width = 2
    CheckpointWidth = {1, 2, 5}
    CompactTail = 2
    Reorder = {"shrinks"}
    FailingAppends = {"retain", "close"}
    MaxRevision = 5
SPECIFICATION Spec
CHECK_DEADLOCK FALSE
INVARIANTS JournalTypeOK AckedDurable GuardKnows
PROPERTY ImplementsLog
