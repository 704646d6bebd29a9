\* Two steers are an order, a steer and a follow-up a choice between the
\* queues; a letter and a note are the two kinds of delivery.
\* Two runs let the second meet what the first left behind.
SPECIFICATION Spec
CONSTANTS
    Calls = {c1}
    Tags = {1, 2, 3, 4, 5}
    None = None
    Steers = {1, 2}
    FollowUps = {5}
    Letters = {3}
    Notes = {4}
    Answers = {}
    MaxRounds = 2
    ModelBudget = 2
    RetryBudget = 0
    Metered = FALSE
    Strategy = FALSE
    Compacts = FALSE
    Malformed = FALSE
    MaxRuns = 2
    MaxFaults = 1
    MaxCrashes = 1
CONSTRAINT OneSetting
CHECK_DEADLOCK FALSE
INVARIANT SteeringIsKept
INVARIANT FailedRunsLeaveNothing
PROPERTY ActedIsNotReplayed
