SPECIFICATION FairSpec
CONSTANTS
  Lead = lead
  Mates = {alice}
  Settings = {{"autonomy"}, {"background"}}
  MaxAgents = 2
  MaxJobs = 1
  TaskLimit = 1
  MaxLetters = 2
  MaxRequests = 1
  MaxTroubles = 1
CHECK_DEADLOCK FALSE
INVARIANT TeamIsConsistent
INVARIANT NoWakeMissed
PROPERTY WorkIsTaken
