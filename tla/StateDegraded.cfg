\* Four operations on a symbol that has a row; timeouts and a crash, a sound cache.
SPECIFICATION Spec
CONSTANTS
  MaxOps = 4
  MaxCasRetries = 3
  MaxSchema = 1
  MaxDeletes = 0
  MaxCrashes = 1
  CacheFaults = {}
  Merges = FALSE
  RowExists = TRUE
CHECK_DEADLOCK FALSE
INVARIANTS ReadYourWrites OneRetrySuffices
