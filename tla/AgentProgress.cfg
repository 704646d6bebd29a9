SPECIFICATION FairSpec
CONSTANTS
    Calls = {c1}
    Tags = {1, 2, 3}
    None = None
    Steers = {3}
    FollowUps = {1}
    Letters = {}
    Notes = {}
    Answers = {2}
    MaxRounds = 2
    ModelBudget = 2
    RetryBudget = 1
    Metered = TRUE
    Strategy = TRUE
    Compacts = TRUE
    Malformed = TRUE
    MaxRuns = 1
    MaxFaults = 0
    MaxCrashes = 0
    c1 = c1
CHECK_DEADLOCK FALSE
INVARIANT ModelBudgetHolds
PROPERTY RunEnds
