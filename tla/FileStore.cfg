SPECIFICATION Spec
CONSTANTS
    Runtimes = {r1, r2}
    None = None
    Contended = FALSE
    MaxEntries = 3
    MaxRecords = 2
    MaxTroubles = 2
CHECK_DEADLOCK FALSE
INVARIANT LogIsCommitted
PROPERTY DeletesInOrder
PROPERTY ImplementsAgentStore
