\* Costs 1 to 3 against a ceiling of 4 that refills in two ticks.
SPECIFICATION FairSpec
CONSTANTS
  p1 = p1
  p2 = p2
  o1 = o1
  o2 = o2
  b1 = b1
  b2 = b2
  Pods <- MCPods
  Skew <- MCSkew
  MaxSkew = 1
  Calls <- MCCalls
  PodOf <- MCPodOf
  Cost <- MCCost
  Orders <- MCOrders
  Budget = 5
  Ceiling = 4
  OrderReserve = 2
  Refill = 2
  Window = 2
  MaxLag = 1
  MaxFaults = 1
  LastStart = 1
  MaxTime = 7
CHECK_DEADLOCK FALSE
INVARIANTS TypeOK BucketBound OrdersAheadOfBulk BackstopHoldsCeiling
PROPERTY EveryReservationEnds
