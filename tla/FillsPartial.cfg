\* One order of the first profile and one gap in its stream.
SPECIFICATION Spec
CONSTANTS
  First = First
  Second = Second
  Buy = Buy
  Sell = Sell
  Hand = Hand
  Gone = Gone
  NoOne = NoOne
  Profiles = {First, Second}
  Orders = {Buy, Sell}
  Placer <- MCPlacer
  Buys = {Buy}
  Legs <- MCLegs
  Qty = 2
  Fee = 1
  Held0 = 2
  MaxPlaced = 1
  MaxFaults = 1
INVARIANTS
  FoldedOnce
CHECK_DEADLOCK FALSE
