\* Two hosts and two sessions of one project overlap a lookup with an edit of
\* the rules; two threads overlap a registration with a drop; three paths are a
\* file below another and one apart.
SPECIFICATION Spec
CONSTANTS
    None = None
    Tools = {shell}
    Inputs = {i1, i2}
    Covers <- MCCovers
    Sessions = {s1, s2}
    Hosts = {h1, h2}
    ProjectOf <- MCProjectOf
    HostRules <- MCHostRules
    HostDecisions <- MCHostDecisions
    i1 = i1
    i2 = i2
    s1 = s1
    s2 = s2
    project = project
    Inodes = {1, 2, 3}
    MaxRequests = 1
    MaxChanges = 2
    MaxFailures = 1
    Calls = {c1}
    Subagents = {a1}
    MaxTurns = 3
    MaxEvents = 6
    HookThreads = {t1, t2}
    HookKeys = {k}
    HookValues = {v1, v2}
    Audiences = {aud}
    SharedChains = {"mixed"}
    MaxHooks = 2
    MaxHandles = 2
    Everyone = Everyone
    PathOrder <- MCPathOrder
    Contents = {b1, b2}
    Writable <- MCWritable
    MaxOps = 3
    Missing = Missing
    Dir = Dir
    Unstaged = Unstaged
    Documents <- MCDocuments
    EditLists <- MCEditLists
    Segments = {"a", "b"}
    LinkTargets <- MCLinkTargets
    RawPaths <- MCRawPaths
    TaskDirs <- MCTaskDirs
    BaseDir <- MCBaseDir
    RootChoices <- MCRootChoices
    Gone = Gone
    Folder = Folder
    Refused = Refused
    MaxHops = 3
CONSTRAINT SessionRulesAreSaved
SYMMETRY MCSymmetry
INVARIANT ApprovalsAreCurrent
INVARIANT HooksAreAsked
INVARIANT EditsAreWhole
INVARIANT GrantsAreInside
PROPERTY ImplementsRuleMap
CHECK_DEADLOCK FALSE
