SPECIFICATION Spec
CONSTANTS
    Calls = {c1}
    Tags = {}
    None = None
    MaxRevision = 4
CHECK_DEADLOCK FALSE
INVARIANT InterruptedIsContinuable
INVARIANT StoreFollowsMemory
INVARIANT CompactionIsFresh
