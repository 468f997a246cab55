---------------------------- MODULE SymbolState ----------------------------
(***************************************************************************)
(* The strategy state of one (profile, symbol): the durable symbol_states  *)
(* row in Postgres, its copy in the Redis cache, and the three paths that  *)
(* read and write them (the tick's load and commit, mutateSymbolState, and *)
(* the latch merge after a compare-and-set miss).                          *)
(*                                                                         *)
(* One worker process; chainByKey admits one operation at a time, held in  *)
(* op.  Three things still move under it: a persist the operation gave up  *)
(* on and which lands later (late), the API and the discovery reap, which  *)
(* delete outside the chain, and a crash.                                  *)
(*                                                                         *)
(* A body is its schemaVersion and the set of operations whose effect it   *)
(* carries: a fill it adopted, or the latch fields a tick stamped, neither *)
(* of which can be derived again.                                          *)
(***************************************************************************)
EXTENDS Integers, FiniteSets

CONSTANTS
  MaxOps,         \* bound: operations started
  MaxCasRetries,  \* MAX_CAS_RETRIES
  MaxSchema,      \* strategy versions: MaxSchema - 1 upgrades
  MaxDeletes,     \* bound: deletions of the row by the API or the reap
  MaxCrashes,     \* bound: worker crashes
  CacheFaults,    \* Redis commands of refreshStateCache that may fail
  Merges,         \* the strategy declares mergeConcurrent
  RowExists       \* the symbol has ticked before

ASSUME StateAssumption ==
  /\ {MaxOps, MaxCasRetries, MaxSchema, MaxDeletes, MaxCrashes} \subseteq Nat
  /\ MaxSchema >= 1
  /\ CacheFaults \subseteq {"set", "del"}
  /\ {Merges, RowExists} \subseteq BOOLEAN

Ops == 1 .. MaxOps

Body == [schema : 1 .. MaxSchema, effects : SUBSET Ops]

NoBody == [schema |-> 0, effects |-> {}]     \* the key is absent

Cached == Body \cup {NoBody}

NoVersion == -1        \* no row: expectedVersion is null, and an insert gives version 0

NoRow == [version |-> NoVersion, body |-> NoBody]

Row == [version : Nat, body : Body] \cup {NoRow}

\* epoch is a history field: the deletions before the operation that sent the write began.
Persist == [expected : Nat \cup {NoVersion}, body : Body, epoch : 0 .. MaxDeletes]

Kinds == {"tick", "merge", "fill", "noop"}

\* What the operation that holds the chain has read and computed.
Operations ==
  [pc : {"idle", "reading", "run", "persist", "refresh"}, kind : Kinds,
   id : 0 .. MaxOps, epoch : 0 .. MaxDeletes, attempt : 0 .. MaxCasRetries,
   gotCache : BOOLEAN, cached : Cached, gotRow : BOOLEAN, row : Row,
   body : Cached, migrated : BOOLEAN, outcome : {"none", "applied", "degraded"}]

Idle ==
  [pc |-> "idle", kind |-> "tick", id |-> 0, epoch |-> 0, attempt |-> 0,
   gotCache |-> FALSE, cached |-> NoBody, gotRow |-> FALSE, row |-> NoRow,
   body |-> NoBody, migrated |-> FALSE, outcome |-> "none"]

VARIABLES
  row,          \* the symbol_states row
  cache,        \* the Redis state key
  late,         \* persists the worker stopped waiting for, not landed yet
  op,           \* the operation inside the chain
  started,      \* number of operations started
  version,      \* the registered strategy's version
  deletes,      \* number of deletions so far
  wiping,       \* the DELETE route is between its Redis and its database half
  crashes,
  durable,      \* history: effects of every body written through and reported applied
  promised,     \* history: effects of every body a degraded commit left in the cache
  fresh,        \* history: operations started since the last deletion
  delFailed,    \* history: a SET and the DEL after it both failed
  revived       \* history: an update from before the last deletion has matched the new row

vars == <<row, cache, late, op, started, version, deletes, wiping, crashes,
          durable, promised, fresh, delFailed, revived>>

stores == <<row, cache, late>>

environment == <<version, deletes, wiping, crashes>>

history == <<durable, promised, fresh, delFailed, revived>>

TypeOK ==
  /\ row \in Row
  /\ cache \in Cached
  /\ late \subseteq Persist
  /\ op \in Operations
  /\ started \in 0 .. MaxOps
  /\ version \in 1 .. MaxSchema
  /\ deletes \in 0 .. MaxDeletes
  /\ wiping \in BOOLEAN
  /\ crashes \in 0 .. MaxCrashes
  /\ durable \subseteq Ops
  /\ promised \subseteq Ops
  /\ fresh \subseteq Ops
  /\ delFailed \in BOOLEAN /\ revived \in BOOLEAN

Init ==
  /\ LET seed == [schema |-> 1, effects |-> {}]
     IN  /\ row = IF RowExists THEN [version |-> 0, body |-> seed] ELSE NoRow
         /\ cache = IF RowExists THEN seed ELSE NoBody
  /\ late = {}
  /\ op = Idle
  /\ started = 0
  /\ version = 1
  /\ deletes = 0
  /\ wiping = FALSE
  /\ crashes = 0
  /\ durable = {}
  /\ promised = {}
  /\ fresh = {}
  /\ delFailed = FALSE
  /\ revived = FALSE
-----------------------------------------------------------------------------
(* The table *)

\* Mutant of CasUpsert: the WHERE clause on version is dropped.
BlindUpsert(r, p) == [version |-> r.version + 1, body |-> p.body]

\* casUpsert(): an INSERT ... ON CONFLICT DO NOTHING or an UPDATE ... WHERE version.
CasUpsert(r, p) ==
  IF r.version = p.expected THEN [version |-> p.expected + 1, body |-> p.body] ELSE r

\* casUpsert() returned the written row.
Applies(r, p) == r.version = p.expected
-----------------------------------------------------------------------------
(* Reading: reconcileAndMigrate and its callers' reads *)

\* An operation enters the chain: a tick job, or a fill whose mutator changes the
\* body ("fill") or returns null ("noop").
Start(kind) ==
  /\ op.pc = "idle"
  /\ started < MaxOps
  /\ started' = started + 1
  /\ op' = [Idle EXCEPT !.pc = "reading", !.kind = kind, !.id = started + 1, !.epoch = deletes]
  /\ fresh' = fresh \cup {started + 1}
  /\ UNCHANGED <<stores, environment, durable, promised, delFailed, revived>>

\* The tick's pipelined snapshot, or one half of the Promise.all of the two loops.
ReadCache ==
  /\ op.pc = "reading"
  /\ ~op.gotCache
  /\ op' = [op EXCEPT !.gotCache = TRUE, !.cached = cache]
  /\ UNCHANGED <<stores, started, environment, history>>

\* findBySymbol(): a tick reads the row after its snapshot, the loops in any order.
ReadRow ==
  /\ op.pc = "reading"
  /\ ~op.gotRow
  /\ op.kind = "tick" => op.gotCache
  /\ op' = [op EXCEPT !.gotRow = TRUE, !.row = row]
  /\ UNCHANGED <<stores, started, environment, history>>

\* The body reconcileAndMigrate settles on before it migrates: the seed without a row,
\* the cached body when its schemaVersion is the row's, else the row's.
WorkingState(r, cached) ==
  IF r = NoRow THEN [schema |-> version, effects |-> {}]
  ELSE IF cached.schema = r.body.schema THEN cached ELSE r.body

\* runStateMigration(): hop by hop to the registered version, or a failure (ReadFails).
Migrate(state) == [state EXCEPT !.schema = version]

\* reconcileAndMigrate(): an orphan cache is deleted, and the body brought to the
\* registered version.
ReconcileAndMigrate ==
  /\ op.pc = "reading"
  /\ op.gotCache
  /\ op.gotRow
  /\ LET working == WorkingState(op.row, op.cached)
     IN  op' = [op EXCEPT !.pc = "run",
                          !.body = Migrate(working),
                          !.migrated = working.schema # version]
  /\ cache' = IF op.row = NoRow /\ op.cached # NoBody THEN NoBody ELSE cache
  /\ UNCHANGED <<row, late, started, environment, history>>

\* A read throws, the profile is gone or its strategy unknown, or a migration fails:
\* the operation ends and has written nothing.
ReadFails ==
  /\ op.pc = "reading"
  /\ op' = Idle
  /\ UNCHANGED <<stores, started, environment, history>>
-----------------------------------------------------------------------------
(* Deciding what to write *)

\* strategy.tick, the caller's mutator or mergeConcurrent computes the next body.
NextBody ==
  /\ op.pc = "run"
  /\ op.kind # "noop"
  /\ op' = [op EXCEPT !.pc = "persist", !.body.effects = @ \cup {op.id}]
  /\ UNCHANGED <<stores, started, environment, history>>

\* The mutator returned null: only a seed or a migrated body is worth writing.
NoChange ==
  /\ op.pc = "run"
  /\ op.kind = "noop"
  /\ op' = IF op.row = NoRow \/ op.migrated THEN [op EXCEPT !.pc = "persist"] ELSE Idle
  /\ UNCHANGED <<stores, started, environment, history>>

\* The tick's order never executed: its state is deliberately not committed.
LeaveUnadvanced ==
  /\ op.pc = "run"
  /\ op.kind = "tick"
  /\ op' = Idle
  /\ UNCHANGED <<stores, started, environment, history>>
-----------------------------------------------------------------------------
(* Writing: persistSymbolState, then refreshStateCache *)

Pending == [expected |-> op.row.version, body |-> op.body, epoch |-> op.epoch]

Reread(kind, attempt) ==
  [Idle EXCEPT !.pc = "reading", !.kind = kind, !.id = op.id, !.epoch = op.epoch,
               !.attempt = attempt]

\* Mutant of AfterMiss: the loop writes again without reading again.
RewriteAfterMiss ==
  IF op.kind = "tick"
  THEN IF Merges THEN Reread("merge", 0) ELSE Idle
  ELSE IF op.attempt < MaxCasRetries THEN [op EXCEPT !.attempt = @ + 1] ELSE Idle

\* Mutant of AfterMiss: one retry too many.
AfterMissOnceMore ==
  IF op.kind = "tick"
  THEN IF Merges THEN Reread("merge", 0) ELSE Idle
  ELSE IF op.attempt <= MaxCasRetries THEN Reread(op.kind, op.attempt + 1) ELSE Idle

\* What follows a compare-and-set miss: a tick merges its latches if the strategy can,
\* the two loops try again on what they read anew until their retries are spent.
AfterMiss ==
  IF op.kind = "tick"
  THEN IF Merges THEN Reread("merge", 0) ELSE Idle
  ELSE IF op.attempt < MaxCasRetries THEN Reread(op.kind, op.attempt + 1) ELSE Idle

\* Mutant of PersistSettles: a missed write refreshes the cache as an applied one does.
CacheLoser ==
  /\ op.pc = "persist"
  /\ row' = CasUpsert(row, Pending)
  /\ op' = [op EXCEPT !.pc = "refresh", !.outcome = "applied"]
  /\ UNCHANGED <<cache, late, started, environment, history>>

\* The durable write settles in time.
PersistSettles ==
  /\ op.pc = "persist"
  /\ row' = CasUpsert(row, Pending)
  /\ op' = IF Applies(row, Pending)
           THEN [op EXCEPT !.pc = "refresh", !.outcome = "applied"] ELSE AfterMiss
  /\ UNCHANGED <<cache, late, started, environment, history>>

\* Mutant of PersistDegrades: a timed-out commit leaves the cache alone.
DegradeSilently ==
  /\ op.pc = "persist"
  /\ late' = late \cup {Pending}
  /\ op' = Idle
  /\ promised' = IF op.kind = "tick" THEN promised \cup op.body.effects ELSE promised
  /\ UNCHANGED <<row, cache, started, environment, durable, fresh, delFailed, revived>>

\* It does not: a tick outwaits its budget or catches the error and goes on to refresh
\* the cache; a fill throws and a merge is swallowed, both without a refresh.  The
\* statement itself may still land.
PersistDegrades ==
  /\ op.pc = "persist"
  /\ late' = late \cup {Pending}
  /\ op' = IF op.kind = "tick" THEN [op EXCEPT !.pc = "refresh", !.outcome = "degraded"]
           ELSE Idle
  /\ UNCHANGED <<row, cache, started, environment, history>>

\* A persist nobody waits for any more reaches the table.
LateLands ==
  \E p \in late :
    /\ row' = CasUpsert(row, p)
    /\ late' = late \ {p}
    /\ revived' = (revived \/ (p.epoch # deletes /\ p.expected # NoVersion /\ Applies(row, p)))
    /\ UNCHANGED <<cache, op, started, environment, durable, promised, fresh, delFailed>>

\* What the operation reports once it ends, unless the row was deleted under it.
Report ==
  LET current == op.epoch = deletes
  IN  durable' = IF current /\ op.outcome = "applied" THEN durable \cup op.body.effects
                 ELSE durable

\* refreshStateCache(): the SET succeeds.
CacheSet ==
  /\ op.pc = "refresh"
  /\ cache' = op.body
  /\ op' = Idle
  /\ Report
  /\ promised' = IF op.epoch = deletes /\ op.outcome = "degraded"
                 THEN promised \cup op.body.effects ELSE promised
  /\ UNCHANGED <<row, late, started, environment, fresh, delFailed, revived>>

\* Mutant of CacheCleared: the DEL after a failed SET is left out.
CacheKept ==
  /\ op.pc = "refresh"
  /\ "set" \in CacheFaults
  /\ op' = Idle
  /\ Report
  /\ UNCHANGED <<row, cache, late, started, environment, promised, fresh, delFailed, revived>>

\* refreshStateCache(): the SET throws and the DEL succeeds.
CacheCleared ==
  /\ op.pc = "refresh"
  /\ "set" \in CacheFaults
  /\ cache' = NoBody
  /\ op' = Idle
  /\ Report
  /\ UNCHANGED <<row, late, started, environment, promised, fresh, delFailed, revived>>

\* refreshStateCache(): both throw; the error is logged and the caller told nothing.
CacheUntouched ==
  /\ op.pc = "refresh"
  /\ {"set", "del"} \subseteq CacheFaults
  /\ op' = Idle
  /\ Report
  /\ delFailed' = TRUE
  /\ UNCHANGED <<row, cache, late, started, environment, promised, fresh, revived>>
-----------------------------------------------------------------------------
(* What happens outside the chain *)

\* Nothing an operation reported before a deletion is owed to the next binding.
Forget ==
  /\ deletes' = deletes + 1
  /\ row' = NoRow
  /\ durable' = {}
  /\ promised' = {}
  /\ fresh' = {}
  /\ revived' = FALSE

\* deleteSymbolRoute: the Redis half.
WipeRedis ==
  /\ ~wiping
  /\ deletes < MaxDeletes
  /\ wiping' = TRUE
  /\ cache' = NoBody
  /\ UNCHANGED <<row, late, op, started, version, deletes, crashes, history>>

\* deleteSymbolRoute: profileSymbols.remove, one transaction.
RemoveRows ==
  /\ wiping
  /\ wiping' = FALSE
  /\ Forget
  /\ UNCHANGED <<cache, late, op, started, version, crashes, delFailed>>

\* removeUnpinnedIfFlat and switchStrategy: the row goes, the Redis key stays.
Unbind ==
  /\ ~wiping
  /\ deletes < MaxDeletes
  /\ Forget
  /\ UNCHANGED <<cache, late, op, started, version, wiping, crashes, delFailed>>

\* The worker dies inside an operation; a statement it had sent may still land.
Crash ==
  /\ op.pc # "idle"
  /\ crashes < MaxCrashes
  /\ crashes' = crashes + 1
  /\ late' = IF op.pc = "persist" THEN late \cup {Pending} ELSE late
  /\ op' = Idle
  /\ UNCHANGED <<row, cache, started, version, deletes, wiping, history>>

\* The worker restarts with a newer strategy.
Upgrade ==
  /\ op.pc = "idle"
  /\ version < MaxSchema
  /\ version' = version + 1
  /\ UNCHANGED <<stores, op, started, deletes, wiping, crashes, history>>
-----------------------------------------------------------------------------
Operation ==
  \/ ReadCache \/ ReadRow \/ ReconcileAndMigrate \/ ReadFails
  \/ NextBody \/ NoChange \/ LeaveUnadvanced
  \/ PersistSettles \/ PersistDegrades
  \/ CacheSet \/ CacheCleared \/ CacheUntouched

Next ==
  \/ \E kind \in Kinds \ {"merge"} : Start(kind)
  \/ Operation
  \/ LateLands
  \/ WipeRedis \/ RemoveRows \/ Unbind
  \/ Crash \/ Upgrade

Spec == Init /\ [][Next]_vars
-----------------------------------------------------------------------------
(* Properties *)

\* An operation whose row has not been deleted under it has the body it works on.
Working == op.pc \in {"run", "persist", "refresh"} /\ op.epoch = deletes

\* No committed state is ever reverted: the body an operation works on carries every
\* effect that an earlier tick or fill wrote through and reported applied, whatever
\* timed-out persists landed in between, and over crashes, migrations and failed SETs
\* (casUpsert, reconcileAndMigrate, refreshStateCache).  Excepted are what refreshStateCache
\* excepts, the cache once a SET and the DEL after it have both failed, and a row that was
\* deleted and inserted again: its version restarts at 0, so that an update sent before the
\* deletion can match it.
CommittedNeverReverted ==
  Working /\ ~delFailed /\ ~revived => durable \subseteq op.body.effects

\* Read-your-writes through a slow database: a tick whose persist timed out left its body
\* in the cache, and the next operation works on that body, so it does not take the same
\* decision again (commitSymbolStateForTick, the degraded branch).
ReadYourWrites == Working => promised \subseteq op.body.effects

\* No loop is past its first retry, and no merge has missed.
OneRetry ==
  /\ op.attempt <= 1
  /\ op.kind = "merge" => op.attempt = 0

\* While nobody deletes the row, a compare-and-set loop misses at most once, and a merge
\* never: every persist still out was read at or before the version the loop read, so once
\* one of them has landed none can land again.  mutateSymbolState never throws `CAS retries
\* exhausted' and mergeLatchFieldsOnCasMiss never drops a latch for want of retries.
OneRetrySuffices == deletes = 0 => OneRetry

\* While nobody deletes the row, the durable body never goes back to an older schema: a
\* persist sent before an upgrade cannot land over the migrated row (casUpsert,
\* runStateMigration).
SchemaNeverRegresses ==
  [][deletes' = 0 /\ row' # NoRow => row.body.schema <= row'.body.schema]_row

\* The comment in commitSymbolStateForTick: at a single replica the version never moves
\* under a tick, so its commit never misses.
TickNeverMisses == op.pc = "persist" /\ op.kind = "tick" => Applies(row, Pending)

\* The comment on deleteSymbolRoute: after the deletion a symbol that is added again starts
\* from initialState and revives nothing of the position before.
FreshAfterDelete == Working => op.body.effects \subseteq fresh
=============================================================================
