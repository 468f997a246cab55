\* One order of the first profile, a BUY in two trades or a SELL in one; two
\* faults; the second profile is on the same account stream.
SPECIFICATION FairSpec
CONSTANTS
  First = First
  Second = Second
  Buy = Buy
  Sell = Sell
  Hand = Hand
  Gone = Gone
  NoOne = NoOne
  Profiles = {First, Second}
  Orders = {Buy, Sell}
  Placer <- MCPlacer
  Buys = {Buy}
  Legs <- MCLegs
  Qty = 2
  Fee = 1
  Held0 = 2
  MaxPlaced = 1
  MaxFaults = 2
INVARIANTS
  TypeOK
  NoForeignFold
  BasisMatchesWallet
  HeldTracksLedger

  
CHECK_DEADLOCK FALSE
