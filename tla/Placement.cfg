\* Three orders, two faults, one clock correction.
SPECIFICATION Spec
CONSTANTS
  Window = 3
  Recv = 1
  Margin = 2
  MaxTime = 4
  MaxOrders = 3
  MaxFaults = 2
  MaxResigns = 1
CHECK_DEADLOCK FALSE
INVARIANTS TypeOK RejectedNeverLands  OneFaultNeverDoubles 
