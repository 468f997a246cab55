SPECIFICATION FairSpec
CONSTANTS
  btc = btc
  eth = eth
  Keys <- MCKeys
  MaxCalls = 4
INVARIANTS MutualExclusion NoLeak
PROPERTIES EveryCallRuns SerialPerKey
CHECK_DEADLOCK FALSE
