\* Five entries and two compactions are a branch of a compacted path compacted
\* again; three results are one whole, one shortened and one left out; two turns
\* of two calls overlap a kept child with a fresh one; three tasks are a chain of
\* blockers; two descendants are one in the group and one that left it.
SPECIFICATION Spec
CONSTANTS
    Calls = {1, 2}
    Tags = {"c1", "c2", "k"}
    AppendKinds = {"user", "assistant", "tool", "delegation_result"}
    MaxEntries = 5
    MaxCompactions = 2
    Histories <- MCHistories
    KeepRecents = {0, 1}
    Budgets <- MCBudgets
    MinContentLen = 6
    EllipsisLen = 1
    SeparatorLen = 2
    Files = {f}
    CompactModes = {"LocalOnly", "PreferRemote", "RemoteOnly"}
    Keep = 1
    MaxAttempts = 2
    MaxItems = 5
    MaxSnapshots = 3
    TaskCalls = {1}
    KeptChild = "k"
    Fresh <- MCFresh
    NoChild = NoChild
    MaxTurns = 2
    MaxTalk = 5
    AnswerValues = {1}
    MaxTypedRuns = 2
    MaxAnswerCalls = 2
    MaxAnswerRounds = 2
    FirstRun = run
    Delegated = {child1}
    TokenLimit = 2
    MaxUsage = 1
    RetryBudget = 3
    RequestBudget = 3
    RoundLimit = 2
    BaseDelay = 1
    MaxDelay = 3
    AfterCap = 4
    FactorBits = 2
    DurationMax = 5
    RetryAfters = {0, 9}
    Unset = Unset
    TaskIds = {1, 2, 3}
    Teammates = {m}
    LeadAgent = lead
    Nobody = Nobody
    Rejected = Rejected
    NoRun = NoRun
    Runners = {m}
    MaxCaptured = 0
    Ownable = {1}
    Program = prog
    Descendants = {d1, d2}
    Texts_ <- MCTexts
    Caps = {0, 3, 6, 9, 10}
    LineCaps = {0, 2, 4}
    MarkerReserve = 4
    MarkerLength = 3
    MinCapTwoWindows = 6
    MinLinesTwoWindows = 4
    BoundaryWindow = 2
    Drafts <- MCDrafts
    Folders <- MCFolders
    NoValue = NoValue
INVARIANT TranscriptIsATree
INVARIANT WindowIsSpentWell
INVARIANT RunsKeepApart
INVARIANT BlockersAreReal
INVARIANT AnswersAreWhole
INVARIANT TextIsExact
 
CHECK_DEADLOCK FALSE
