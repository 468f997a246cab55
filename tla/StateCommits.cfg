\* Four operations on a new symbol; timeouts, a crash, an upgrade, a deletion
\* outside the chain after which the row is inserted again, a cache that may fail.
SPECIFICATION Spec
CONSTANTS
  MaxOps = 4
  MaxCasRetries = 1
  MaxSchema = 2
  MaxDeletes = 1
  MaxCrashes = 1
  CacheFaults = {"set", "del"}
  Merges = TRUE
  RowExists = FALSE
CHECK_DEADLOCK FALSE
INVARIANTS TypeOK CommittedNeverReverted
PROPERTY SchemaNeverRegresses
