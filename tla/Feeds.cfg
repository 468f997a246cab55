SPECIFICATION FairSpec
CONSTANTS
  p1 = p1
  p2 = p2
  btc = btc
  Profiles <- MCProfiles
  Symbols <- MCSymbols
  Candles <- MCCandles
  Shared <- MCShared
  InitialDb <- MCInitialDb
  MaxHandles = 3
  MaxEdits = 2
  MaxFaults = 1
INVARIANTS TypeOK CountsMatchClaims RetainedStaysFed
PROPERTIES Converges
