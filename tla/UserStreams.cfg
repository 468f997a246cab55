SPECIFICATION FairSpec
CONSTANTS
  p1 = p1
  p2 = p2
  pod = pod
  peer = peer
  Profiles <- MCOneProfile
  Account <- MCAccount
  Self = pod
  Peers <- MCPeers
  Score <- MCScore
  MaxPasses = 2
  MaxChanges = 1
  MaxFaults = 1
INVARIANTS TypeOK
PROPERTIES  Reconnects GapsResynced OwnershipConverges
\* The worker stops for good after the shutdown.
CHECK_DEADLOCK FALSE
