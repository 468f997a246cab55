\* One override and time enough for the key to expire and the sweeps to run.
SPECIFICATION FairSpec
CONSTANTS
  MaxArms = 1
  MaxRequests = 1
  MaxTicks = 1
  MaxTime = 6
  LastArm = 0
  TTL = 1
  Window = 4
  Stale = 1
  Slack = 1
CHECK_DEADLOCK FALSE
INVARIANT OutcomeHonest
PROPERTY EveryRowSettles
