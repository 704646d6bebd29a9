SPECIFICATION FairSpec
CONSTANTS
    MaxCalls = 3
    ToolBudget = 2
    Tools = {"tool", "terminal", "missing"}
    MaxFaults = 1
CHECK_DEADLOCK FALSE
INVARIANT EveryCallAnswered
INVARIANT CallsRunAsAsked
PROPERTY RoundEnds
