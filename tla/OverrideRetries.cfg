\* One override, two ticks, one cancel or wipe; writes land late by up to one
\* time unit.
SPECIFICATION Spec
CONSTANTS
  MaxArms = 1
  MaxRequests = 1
  MaxTicks = 2
  MaxTime = 3
  LastArm = 0
  TTL = 1
  Window = 5
  Stale = 1
  Slack = 1
CHECK_DEADLOCK FALSE
INVARIANTS TypeOK AtMostOneOrder ClaimHeldThroughDispatch
PROPERTIES SettledIsFinal CancelledStaysCancelled
