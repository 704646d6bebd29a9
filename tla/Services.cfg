\* Two or three overlapping calls are enough for one to be answered while
\* another is sent again, dropped or overtaken; three streams or sessions are
\* one lost, one recovered and one lost again.
SPECIFICATION Spec
CONSTANTS
    SseCalls = {a, b}
    MaxStreams = 3
    None = None
    HttpCalls = {a, b}
    MaxSessions = 3
    NoSession = NoSession
    MaxResponseBytes = 2
    MaxTools = 3
    MaxToolPages = 2
    MaxPerPage = 2
    MaxRpcIds = 5
    NoHeader = NoHeader
    StdioCalls = {a, b, c}
    Nobody = Nobody
    ServerNames <- MCServerNames
    ToolNames <- MCToolNames
    MaxBytes = 6
    MaxEvent = 3
    Hosts = {"localhost", "remote.example"}
    MaxRequests = 3
    MaxCalls = 2
    Artifacts = {x, y}
    MaxHeld = 2
    MaxUpdates = 3
    A2aTasks = {x, y}
    NoA2aTask = NoA2aTask
    MaxA2aCalls = 2
    MaxArrivals = 2
    ToolTasks = {x, y}
    Contents <- MCContents
    NoField = NoField
    MaxToolCalls = 4
    Processes = {p1, p2}
    AgentKeys = {a}
    Nothing = Nothing
    LeaseTtl = 2
    MaxTime = 3
    MaxMail = 2
    MaxLosses = 2
    StoreKeys = {1, 2}
    Versions = {"u"}
    Absent = Absent
    StoreTopics = {"agents", "jobs", "team", "members", "tasks"}
    MaxClock = 2
    MaxStoreOps = 6
    MemoryAgents = {"a", "b"}
    Words = {w}
    Inside <- MCInside
    MemoryStores = {"hybrid", "volatile"}
    MaxRevision <- MCRevisions
    MaxFacts <- MCFacts
    MaxFailures = 1
INVARIANT FailuresAreHonest
INVARIANT ConversationsAreKept
INVARIANT EventsAreRead
INVARIANT WorkIsHandedOverOnce
INVARIANT SharedDatabaseIsSafe
INVARIANT StoresAnswerAlike
INVARIANT MemoryIsKept
CHECK_DEADLOCK FALSE
