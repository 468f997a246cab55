------------------------- MODULE SymbolStateProofs -------------------------
(***************************************************************************)
(* Proofs about SymbolState, for any number of operations, retries,        *)
(* deletions, crashes and upgrades.  Only StateReadYourWrites assumes more *)
(* of the constants: a row that nobody deletes, one schema and a cache     *)
(* whose SETs succeed.                                                     *)
(***************************************************************************)
EXTENDS SymbolState, TLAPS

\* Most leaves are first-order; the ones with arithmetic or records name SMT.
USE Zenon

\* TypeOK, with what an operation past its reads has in its fields.
Shape ==
  /\ TypeOK
  /\ op.pc # "idle" => op.id \in Ops
  /\ op.pc \in {"run", "persist", "refresh"} => op.gotRow /\ op.body \in Body
  /\ op.pc = "refresh" => op.outcome \in {"applied", "degraded"}
  /\ wiping => deletes < MaxDeletes

\* The bounds are natural numbers.
LEMMA Bounds ==
  /\ MaxOps \in Nat
  /\ MaxCasRetries \in Nat
  /\ MaxSchema \in Nat /\ MaxSchema >= 1
  /\ MaxDeletes \in Nat
  /\ MaxCrashes \in Nat
  /\ Merges \in BOOLEAN /\ RowExists \in BOOLEAN
  BY StateAssumption

\* The idle operation is an operation record.
LEMMA IdleType == Idle \in Operations
  BY SMT, Bounds DEF Idle, Operations, Kinds, Cached, Row, NoRow, NoBody

\* A write keeps the table's type, whether it applies or not.
LEMMA CasType ==
  ASSUME NEW r \in Row, NEW p \in Persist
  PROVE  CasUpsert(r, p) \in Row
  BY SMT DEF CasUpsert, Row, Persist, NoVersion

\* What reconcileAndMigrate settles on is a body: the cached one only ever stands in for a
\* row of the same schema, and an absent key has no schema.
LEMMA WorkingType ==
  ASSUME NEW r \in Row, NEW c \in Cached, version \in 1 .. MaxSchema
  PROVE  WorkingState(r, c) \in Body
<1>1. CASE r = NoRow
  BY <1>1 DEF WorkingState, Body
<1>2. CASE r # NoRow
  <2>1. r.body \in Body
    BY <1>2 DEF Row
  <2>2. r.body.schema # 0
    BY SMT, <2>1, Bounds DEF Body
  <2>3. c.schema = r.body.schema => c \in Body
    BY SMT, <2>2 DEF Cached, NoBody
  <2> QED
    BY <1>2, <2>1, <2>3 DEF WorkingState
<1> QED
  BY <1>1, <1>2

\* What an operation at its durable write sends is a persist of its own body.
LEMMA PendingType ==
  ASSUME Shape, op.pc = "persist"
  PROVE  /\ Pending \in Persist /\ Pending.expected = op.row.version /\ Pending.body = op.body
         /\ Pending.epoch = op.epoch
<1>1. op.body \in Body
  BY DEF Shape
<1>2. op.row \in Row /\ op.epoch \in 0 .. MaxDeletes
  BY DEF Shape, TypeOK, Operations
<1>3. op.row.version \in Nat \cup {NoVersion}
  BY SMT, <1>2 DEF Row, NoRow
<1> QED
  BY <1>1, <1>2, <1>3 DEF Pending, Persist

\* Init establishes Shape.
LEMMA ShapeInit == Init => Shape
<1> SUFFICES ASSUME Init PROVE Shape
  OBVIOUS
<1>1. op \in Operations
  BY IdleType DEF Init
<1>2. row \in Row /\ cache \in Cached
  BY SMT, Bounds DEF Init, Row, Cached, Body, NoRow, NoBody
<1>3. op.pc = "idle"
  BY DEF Init, Idle
<1>4. /\ late = {} /\ started = 0 /\ version = 1 /\ deletes = 0 /\ wiping = FALSE
      /\ crashes = 0 /\ durable = {} /\ promised = {} /\ fresh = {} /\ delFailed = FALSE
      /\ revived = FALSE
  BY DEF Init
<1>5. /\ 0 \in 0 .. MaxOps /\ 0 \in 0 .. MaxDeletes /\ 0 \in 0 .. MaxCrashes
      /\ 1 \in 1 .. MaxSchema
  BY SMT, Bounds
<1>6. TypeOK
  BY <1>1, <1>2, <1>4, <1>5, Zenon DEF TypeOK
<1> QED
  BY <1>3, <1>4, <1>6 DEF Shape

\* Every step preserves Shape.
LEMMA ShapeNext == Shape /\ [Next]_vars => Shape'
<1> SUFFICES ASSUME Shape, [Next]_vars PROVE Shape'
  OBVIOUS
<1> USE Bounds
<1>0. op \in Operations /\ TypeOK
  BY DEF Shape, TypeOK
<1>i. ASSUME op' = Idle PROVE op' \in Operations /\ op'.pc = "idle"
  BY <1>i, IdleType DEF Idle
<1>1. ASSUME NEW kind \in Kinds \ {"merge"}, Start(kind) PROVE Shape'
  <2>2. /\ started' \in 0 .. MaxOps /\ started + 1 \in Ops /\ started + 1 \in 0 .. MaxOps
        /\ fresh' = fresh \cup {started + 1}
    BY SMT, <1>0, <1>1 DEF Start, TypeOK, Ops
  <2>1. op' \in Operations /\ op'.pc = "reading" /\ op'.id \in Ops
    BY <1>0, <1>1, <2>2, IdleType DEF Start, Operations, TypeOK
  <2>3. UNCHANGED <<row, cache, late, version, deletes, wiping, crashes, durable, promised, delFailed,
                  revived>>
    BY <1>1 DEF Start, stores, environment
  <2>4. fresh' \subseteq Ops
    BY <1>0, <2>2 DEF TypeOK
  <2>5. TypeOK'
    BY <1>0, <2>1, <2>2, <2>3, <2>4, Zenon DEF TypeOK
  <2> QED
    BY <2>1, <2>3, <2>5 DEF Shape
<1>2. CASE ReadCache
  <2>1. op' \in Operations /\ op'.pc = "reading" /\ op'.id = op.id
    BY <1>0, <1>2 DEF ReadCache, Operations, TypeOK
  <2> QED
    BY <1>0, <1>2, <2>1 DEF ReadCache, Shape, TypeOK, stores, environment, history
<1>3. CASE ReadRow
  <2>1. op' \in Operations /\ op'.pc = "reading" /\ op'.id = op.id
    BY <1>0, <1>3 DEF ReadRow, Operations, TypeOK
  <2> QED
    BY <1>0, <1>3, <2>1 DEF ReadRow, Shape, TypeOK, stores, environment, history
<1>4. CASE ReconcileAndMigrate
  <2> DEFINE working == WorkingState(op.row, op.cached)
             body == [working EXCEPT !.schema = version]
  <2>1. working \in Body
    BY <1>0, WorkingType DEF TypeOK, Operations
  <2>2. body \in Body
    BY <1>0, <2>1 DEF Body, TypeOK
  <2> HIDE DEF working, body
  <2>3. op' = [op EXCEPT !.pc = "run", !.body = body, !.migrated = working.schema # version]
    BY <1>4 DEF ReconcileAndMigrate, Migrate, working, body
  <2>4. /\ op' \in Operations
        /\ op'.pc = "run" /\ op'.id = op.id /\ op'.gotRow = op.gotRow /\ op'.body = body
    BY <1>0, <2>2, <2>3 DEF Operations, Cached
  <2>5. cache' \in Cached
    BY <1>0, <1>4 DEF ReconcileAndMigrate, TypeOK, Cached
  <2> QED
    BY <1>0, <1>4, <2>2, <2>4, <2>5
    DEF ReconcileAndMigrate, Shape, TypeOK, environment, history
<1>5. CASE ReadFails
  BY <1>0, <1>5, <1>i DEF ReadFails, Shape, TypeOK, stores, environment, history
<1>6. CASE NextBody
  <2>1. op.body \in Body /\ op.id \in Ops /\ op.gotRow
    BY <1>6 DEF NextBody, Shape
  <2>2. /\ op' \in Operations
        /\ op'.pc = "persist" /\ op'.id = op.id /\ op'.gotRow = op.gotRow
        /\ op'.body = [schema |-> op.body.schema, effects |-> op.body.effects \cup {op.id}]
    BY <1>0, <1>6, <2>1 DEF NextBody, Operations, Cached, Body
  <2>3. op'.body \in Body
    BY SMT, <2>1, <2>2 DEF Body
  <2> QED
    BY <1>0, <1>6, <2>1, <2>2, <2>3
    DEF NextBody, Shape, TypeOK, stores, environment, history
<1>7. CASE NoChange
  <2>1. CASE op' = Idle
    BY <1>0, <1>7, <1>i, <2>1 DEF NoChange, Shape, TypeOK, stores, environment, history
  <2>2. CASE op' = [op EXCEPT !.pc = "persist"]
    <3>1. op' \in Operations /\ op'.pc = "persist" /\ op'.id = op.id
          /\ op'.gotRow = op.gotRow /\ op'.body = op.body
      BY <1>0, <2>2 DEF Operations
    <3> QED
      BY <1>0, <1>7, <3>1 DEF NoChange, Shape, TypeOK, stores, environment, history
  <2> QED
    BY <1>7, <2>1, <2>2 DEF NoChange
<1>8. CASE LeaveUnadvanced
  BY <1>0, <1>8, <1>i DEF LeaveUnadvanced, Shape, TypeOK, stores, environment, history
<1>p. ASSUME op.pc = "persist" PROVE Pending \in Persist
  BY <1>p, PendingType
<1>m. ASSUME op.pc = "persist"
      PROVE  AfterMiss \in Operations /\ AfterMiss.pc \in {"idle", "reading"}
             /\ (AfterMiss.pc # "idle" => AfterMiss.id \in Ops)
  <2>1. ASSUME NEW kind \in Kinds, NEW n \in 0 .. MaxCasRetries
        PROVE  Reread(kind, n) \in Operations /\ Reread(kind, n).pc = "reading"
               /\ Reread(kind, n).id \in Ops
    BY <1>0, <1>m, IdleType DEF Reread, Operations, Idle, Shape
  <2>2. "merge" \in Kinds /\ 0 \in 0 .. MaxCasRetries /\ op.kind \in Kinds
    BY SMT, <1>0 DEF Kinds, Operations
  <2>3. op.attempt < MaxCasRetries => op.attempt + 1 \in 0 .. MaxCasRetries
    BY SMT, <1>0 DEF Operations
  <2> QED
    BY <2>1, <2>2, <2>3, IdleType DEF AfterMiss, Idle
<1>9. CASE PersistSettles
  <2>1. row' \in Row
    BY <1>0, <1>9, <1>p, CasType DEF PersistSettles, TypeOK
  <2>2. CASE op' = [op EXCEPT !.pc = "refresh", !.outcome = "applied"]
    <3>1. op' \in Operations /\ op'.pc = "refresh" /\ op'.id = op.id /\ op'.outcome = "applied"
          /\ op'.gotRow = op.gotRow /\ op'.body = op.body
      BY <1>0, <2>2 DEF Operations
    <3> QED
      BY <1>0, <1>9, <2>1, <3>1 DEF PersistSettles, Shape, TypeOK, environment, history
  <2>3. CASE op' = AfterMiss
    BY <1>0, <1>9, <1>m, <2>1, <2>3 DEF PersistSettles, Shape, TypeOK, environment, history
  <2> QED
    BY <1>9, <2>2, <2>3 DEF PersistSettles
<1>10. CASE PersistDegrades
  <2>1. late' \subseteq Persist
    BY <1>0, <1>10, <1>p DEF PersistDegrades, TypeOK
  <2>2. CASE op' = [op EXCEPT !.pc = "refresh", !.outcome = "degraded"]
    <3>1. op' \in Operations /\ op'.pc = "refresh" /\ op'.id = op.id /\ op'.outcome = "degraded"
          /\ op'.gotRow = op.gotRow /\ op'.body = op.body
      BY <1>0, <2>2 DEF Operations
    <3> QED
      BY <1>0, <1>10, <2>1, <3>1 DEF PersistDegrades, Shape, TypeOK, environment, history
  <2>3. CASE op' = Idle
    BY <1>0, <1>10, <1>i, <2>1, <2>3 DEF PersistDegrades, Shape, TypeOK, environment, history
  <2> QED
    BY <1>10, <2>2, <2>3 DEF PersistDegrades
<1>r. ASSUME op.pc = "refresh", Report PROVE durable' \subseteq Ops /\ op.body \in Cached /\ op.body.effects \subseteq Ops
  BY <1>0, <1>r DEF Report, Shape, TypeOK, Body, Cached
<1>11. CASE CacheSet
  <2>1. durable' \subseteq Ops /\ cache' \in Cached /\ promised' \subseteq Ops
    BY <1>0, <1>r, <1>11 DEF CacheSet, TypeOK
  <2> QED
    BY <1>0, <1>i, <1>11, <2>1 DEF CacheSet, Shape, TypeOK, environment
<1>12. CASE CacheCleared
  <2>1. durable' \subseteq Ops /\ cache' \in Cached
    BY <1>r, <1>12 DEF CacheCleared, Cached
  <2> QED
    BY <1>0, <1>i, <1>12, <2>1 DEF CacheCleared, Shape, TypeOK, environment
<1>13. CASE CacheUntouched
  <2>1. durable' \subseteq Ops
    BY <1>r, <1>13 DEF CacheUntouched
  <2> QED
    BY <1>0, <1>i, <1>13, <2>1 DEF CacheUntouched, Shape, TypeOK, environment
<1>14. CASE LateLands
  <2>1. row' \in Row /\ late' \subseteq Persist
    BY <1>0, <1>14, CasType DEF LateLands, TypeOK
  <2>2. revived' \in BOOLEAN
    BY <1>0, <1>14 DEF LateLands, TypeOK
  <2> QED
    BY SMT, <1>0, <1>14, <2>1, <2>2 DEF LateLands, Shape, TypeOK, environment
<1>15. CASE WipeRedis
  BY <1>0, <1>15 DEF WipeRedis, Shape, TypeOK, Cached, history
<1>16. CASE RemoveRows \/ Unbind
  <2>1. deletes < MaxDeletes
    BY <1>16 DEF RemoveRows, Unbind, Shape
  <2>2. /\ row' = NoRow /\ deletes' = deletes + 1 /\ wiping' = FALSE
        /\ durable' = {} /\ promised' = {} /\ fresh' = {} /\ revived' = FALSE
        /\ UNCHANGED <<cache, late, op, started, version, crashes, delFailed>>
    BY <1>0, <1>16 DEF RemoveRows, Unbind, Forget, TypeOK
  <2>3. deletes' \in 0 .. MaxDeletes /\ row' \in Row
    BY SMT, <1>0, <2>1, <2>2 DEF TypeOK, Row
  <2>4. TypeOK'
    BY <1>0, <2>2, <2>3, Zenon DEF TypeOK
  <2> QED
    BY <2>2, <2>4 DEF Shape
<1>17. CASE Crash
  <2>1. late' \subseteq Persist
    BY <1>0, <1>17, <1>p DEF Crash, TypeOK
  <2> QED
    BY SMT, <1>0, <1>i, <1>17, <2>1 DEF Crash, Shape, TypeOK, history
<1>18. CASE Upgrade
  BY SMT, <1>0, <1>18 DEF Upgrade, Shape, TypeOK, stores, history
<1>19. CASE UNCHANGED vars
  BY <1>0, <1>19 DEF vars, Shape, TypeOK
<1> QED
  BY <1>1, <1>2, <1>3, <1>4, <1>5, <1>6, <1>7, <1>8, <1>9, <1>10, <1>11, <1>12, <1>13,
     <1>14, <1>15, <1>16, <1>17, <1>18, <1>19 DEF Next, Operation

\* The state of one symbol, its cache and the operation on it keep their types.
THEOREM StateTypes == Spec => []TypeOK
<1>1. Shape => TypeOK
  BY DEF Shape
<1> QED
  BY <1>1, ShapeInit, ShapeNext, PTL DEF Spec
-----------------------------------------------------------------------------
(* Which persists can still land *)

\* No persist still out can land any more.
Spent == \A p \in late : p.expected < row.version

\* Every persist still out, and the operation's own, was read at or before the row's
\* version; once the row has moved under an operation, no persist can move it again.
Order ==
  /\ \A p \in late : p.expected <= row.version
  /\ op.gotRow => op.row.version <= row.version
  /\ op.gotRow /\ op.row.version < row.version => Spent
  /\ op.attempt >= 1 \/ op.kind = "merge" =>
       /\ Spent
       /\ op.gotRow => op.row.version = row.version \/ op.pc = "refresh"
  /\ op.kind = "tick" => op.attempt = 0
  /\ OneRetry

\* Versions are integers.
LEMMA VersionsAreInts ==
  ASSUME Shape
  PROVE  /\ row.version \in Int /\ op.row.version \in Int
         /\ \A p \in late : p.expected \in Int
         /\ op.attempt \in Nat
         /\ op \in Operations
  BY SMT, Bounds DEF Shape, TypeOK, Operations, Row, NoRow, NoVersion, Persist

\* The fields of the idle operation.
LEMMA IdleFields ==
  /\ Idle.pc = "idle" /\ ~Idle.gotRow /\ ~Idle.gotCache /\ Idle.attempt = 0 /\ Idle.kind = "tick"
  BY DEF Idle

\* Init establishes Order.
LEMMA OrderInit == Init => Order
  BY SMT, IdleFields DEF Init, Order, OneRetry, Spent

\* What a write does to the row's version.
LEMMA CasVersion ==
  ASSUME NEW r \in Row, NEW p \in Persist
  PROVE  /\ Applies(r, p) => CasUpsert(r, p) = [version |-> r.version + 1, body |-> p.body]
         /\ ~Applies(r, p) => CasUpsert(r, p) = r
  BY DEF CasUpsert, Applies

\* A deletion is counted, and the count never goes down.
LEMMA DeletesCount ==
  ASSUME Shape, [Next]_vars
  PROVE  /\ deletes \in Nat
         /\ deletes' = deletes \/ deletes' = deletes + 1
         /\ RemoveRows \/ Unbind => deletes' = deletes + 1
         /\ ~(RemoveRows \/ Unbind) => deletes' = deletes
<1>1. ASSUME NEW kind \in Kinds \ {"merge"}, Start(kind) PROVE deletes' = deletes
  BY <1>1 DEF Start, environment
<1>2. ASSUME ReadCache \/ ReadRow \/ ReconcileAndMigrate \/ ReadFails PROVE deletes' = deletes
  BY <1>2 DEF ReadCache, ReadRow, ReconcileAndMigrate, ReadFails, environment
<1>3. ASSUME NextBody \/ NoChange \/ LeaveUnadvanced PROVE deletes' = deletes
  BY <1>3 DEF NextBody, NoChange, LeaveUnadvanced, environment
<1>4. ASSUME PersistSettles \/ PersistDegrades PROVE deletes' = deletes
  BY <1>4 DEF PersistSettles, PersistDegrades, environment
<1>5. ASSUME CacheSet \/ CacheCleared \/ CacheUntouched PROVE deletes' = deletes
  BY <1>5 DEF CacheSet, CacheCleared, CacheUntouched, environment
<1>6. ASSUME LateLands PROVE deletes' = deletes
  BY <1>6 DEF LateLands, environment
<1>7. ASSUME WipeRedis \/ Crash \/ Upgrade PROVE deletes' = deletes
  BY <1>7 DEF WipeRedis, Crash, Upgrade
<1>8. RemoveRows \/ Unbind => deletes' = deletes + 1
  BY DEF RemoveRows, Unbind, Forget
<1>9. ASSUME UNCHANGED vars PROVE deletes' = deletes
  BY <1>9 DEF vars
<1>10. deletes \in Nat
  BY SMT, Bounds DEF Shape, TypeOK
<1>11. deletes' = deletes \/ RemoveRows \/ Unbind
  BY <1>1, <1>2, <1>3, <1>4, <1>5, <1>6, <1>7, <1>9 DEF Next, Operation
<1> QED
  BY <1>8, <1>10, <1>11

\* Before the first deletion every step preserves Order.
LEMMA OrderNext ==
  ASSUME Shape, Order, [Next]_vars, deletes' = 0
  PROVE  Order'
<1>0. /\ row.version \in Int /\ op.row.version \in Int /\ op.attempt \in Nat
      /\ \A p \in late : p.expected \in Int
      /\ op \in Operations
  BY VersionsAreInts
<1>i. ASSUME op' = Idle, row' = row, \A p \in late' : p.expected <= row.version
      PROVE  Order'
  BY SMT, <1>i, IdleFields DEF Order, OneRetry, Spent
<1>s. ASSUME row' = row, late' = late, op'.gotRow = op.gotRow, op'.row = op.row,
             op'.attempt = op.attempt, op'.kind = op.kind,
             op.pc # "refresh" \/ op'.pc = "refresh"
      PROVE  Order'
  BY <1>s DEF Order, OneRetry, Spent
<1>1. ASSUME NEW kind \in Kinds \ {"merge"}, Start(kind) PROVE Order'
  <2>1. ~op'.gotRow /\ op'.attempt = 0 /\ op'.kind = kind
    BY <1>1 DEF Start, Idle
  <2> QED
    BY SMT, <1>1, <2>1 DEF Start, stores, Order, OneRetry, Spent
<1>2. CASE ReadCache
  BY <1>0, <1>2, <1>s DEF ReadCache, Operations, stores
<1>3. CASE ReadRow
  <2>1. /\ op'.gotRow /\ op'.row = row /\ op'.attempt = op.attempt /\ op'.kind = op.kind
    BY <1>0, <1>3 DEF ReadRow, Operations
  <2> QED
    BY SMT, <1>0, <1>3, <2>1 DEF ReadRow, stores, Order, OneRetry, Spent
<1>4. CASE ReconcileAndMigrate
  BY <1>0, <1>4, <1>s DEF ReconcileAndMigrate, Operations
<1>5. CASE ReadFails
  BY <1>5, <1>i DEF ReadFails, stores, Order
<1>6. CASE NextBody
  BY <1>0, <1>6, <1>s DEF NextBody, Operations, stores
<1>7. CASE NoChange
  <2>1. CASE op' = Idle
    BY <1>7, <1>i, <2>1 DEF NoChange, stores, Order
  <2>2. CASE op' = [op EXCEPT !.pc = "persist"]
    BY <1>0, <1>7, <1>s, <2>2 DEF NoChange, Operations, stores
  <2> QED
    BY <1>7, <2>1, <2>2 DEF NoChange
<1>8. CASE LeaveUnadvanced
  BY <1>8, <1>i DEF LeaveUnadvanced, stores, Order
<1>p. ASSUME op.pc = "persist"
      PROVE  Pending \in Persist /\ Pending.expected = op.row.version /\ op.gotRow
  BY <1>p, PendingType DEF Shape
<1>9. CASE PersistSettles
  <2>0. op.pc = "persist" /\ row \in Row /\ late' = late
    BY <1>9 DEF PersistSettles, Shape, TypeOK
  <2>1. CASE Applies(row, Pending)
    <3>1. row'.version = row.version + 1
      BY SMT, <1>9, <1>p, <2>0, <2>1, CasVersion DEF PersistSettles
    <3>2. /\ op'.pc = "refresh" /\ op'.gotRow = op.gotRow /\ op'.row = op.row
          /\ op'.attempt = op.attempt /\ op'.kind = op.kind
      BY <1>0, <1>9, <2>1 DEF PersistSettles, Operations
    <3> QED
      BY SMT, <1>0, <2>0, <3>1, <3>2 DEF Order, OneRetry, Spent
  <2>2. CASE ~Applies(row, Pending)
    <3>1. row' = row /\ op' = AfterMiss
      BY <1>9, <1>p, <2>0, <2>2, CasVersion DEF PersistSettles
    <3>2. op.row.version < row.version
      BY SMT, <1>0, <1>p, <2>0, <2>2 DEF Applies, Order
    <3>3. Spent /\ op.attempt = 0 /\ op.kind # "merge"
      BY SMT, <1>0, <1>p, <2>0, <3>2 DEF Order
    <3>4. \/ op' = Idle
          \/ \E kind \in Kinds : \E n \in {0, 1} :
               op' = Reread(kind, n) /\ (kind \in {"tick", "merge"} => n = 0)
      <4>1. op.kind \in Kinds /\ "merge" \in Kinds
        BY <1>0 DEF Operations, Kinds
      <4> QED
        BY SMT, <3>1, <3>3, <4>1 DEF AfterMiss
    <3>5. CASE op' = Idle
      BY <1>i, <2>0, <3>1, <3>5 DEF Order
    <3>6. ASSUME NEW kind \in Kinds, NEW n \in {0, 1},
                 op' = Reread(kind, n), kind \in {"tick", "merge"} => n = 0
          PROVE  Order'
      <4>1. ~op'.gotRow /\ op'.attempt = n /\ op'.kind = kind
        BY <3>6 DEF Reread, Idle
      <4> QED
        BY SMT, <2>0, <3>1, <3>3, <3>6, <4>1 DEF Order, OneRetry, Spent
    <3> QED
      BY <3>4, <3>5, <3>6
  <2> QED
    BY <2>1, <2>2
<1>10. CASE PersistDegrades
  <2>0. op.pc = "persist" /\ row' = row /\ late' = late \cup {Pending}
    BY <1>10 DEF PersistDegrades
  <2>1. \A p \in late' : p.expected <= row.version
    BY <1>0, <1>p, <2>0 DEF Order
  <2>2. CASE op.kind = "tick"
    <3>1. /\ op'.gotRow = op.gotRow /\ op'.row = op.row
          /\ op'.attempt = op.attempt /\ op'.kind = op.kind
      BY <1>0, <1>10, <2>2 DEF PersistDegrades, Operations
    <3>2. op.attempt = 0
      BY <2>2 DEF Order
    <3> QED
      BY SMT, <1>0, <1>p, <2>0, <2>1, <2>2, <3>1, <3>2 DEF Order, OneRetry, Spent
  <2>3. CASE op.kind # "tick"
    BY <1>10, <1>i, <2>0, <2>1, <2>3 DEF PersistDegrades
  <2> QED
    BY <2>2, <2>3
<1>11. CASE CacheSet \/ CacheCleared \/ CacheUntouched
  BY <1>11, <1>i DEF CacheSet, CacheCleared, CacheUntouched, Order
<1>14. CASE LateLands
  <2>1. PICK p \in late : row' = CasUpsert(row, p) /\ late' = late \ {p} /\ op' = op
    BY <1>14 DEF LateLands
  <2>2. row \in Row /\ p \in Persist
    BY DEF Shape, TypeOK
  <2>3. CASE ~Applies(row, p)
    BY <2>1, <2>2, <2>3, CasVersion DEF Order, OneRetry, Spent
  <2>4. CASE Applies(row, p)
    <3>1. row'.version = row.version + 1 /\ p.expected = row.version
      BY SMT, <2>1, <2>2, <2>4, CasVersion DEF Applies
    <3>2. ~(op.attempt >= 1 \/ op.kind = "merge")
      BY SMT, <1>0, <3>1 DEF Order, Spent
    <3> QED
      BY SMT, <1>0, <2>1, <3>1, <3>2 DEF Order, OneRetry, Spent
  <2> QED
    BY <2>3, <2>4
<1>15. CASE WipeRedis
  BY <1>15, <1>s DEF WipeRedis
<1>16. CASE RemoveRows \/ Unbind
  <2>1. deletes \in Nat /\ deletes' = deletes + 1
    BY <1>16, DeletesCount
  <2> QED
    BY SMT, <2>1
<1>17. CASE Crash
  <2>1. \A p \in late' : p.expected <= row.version
    BY <1>0, <1>p, <1>17 DEF Crash, Order
  <2> QED
    BY <1>i, <1>17, <2>1 DEF Crash
<1>18. CASE Upgrade
  BY <1>18, <1>s DEF Upgrade, stores
<1>19. CASE UNCHANGED vars
  BY <1>19, <1>s DEF vars
<1> QED
  BY <1>1, <1>2, <1>3, <1>4, <1>5, <1>6, <1>7, <1>8, <1>9, <1>10, <1>11,
     <1>14, <1>15, <1>16, <1>17, <1>18, <1>19 DEF Next, Operation

\* Before the first deletion the order holds.
Ordered == deletes = 0 => Order

\* Every step preserves that.
LEMMA OrderedNext ==
  ASSUME Shape, Ordered, [Next]_vars
  PROVE  Ordered'
<1>1. deletes' = 0 => deletes = 0
  BY SMT, DeletesCount
<1> QED
  BY <1>1, OrderNext DEF Ordered

\* While nobody deletes the row, no compare-and-set loop retries twice and no merge at all.
THEOREM StateOneRetry == Spec => []OneRetrySuffices
<1>1. Ordered => OneRetrySuffices
  BY DEF Ordered, Order, OneRetrySuffices
<1>2. Init => Ordered
  BY OrderInit DEF Ordered
<1> QED
  BY <1>1, <1>2, ShapeInit, ShapeNext, OrderedNext, PTL DEF Spec
-----------------------------------------------------------------------------
(* Committed effects *)

\* Nobody is of an epoch to come.
Past == op.epoch <= deletes /\ \A p \in late : p.epoch <= deletes

\* A deletion restarts the version, so the order of the persists is one of each epoch.
Level ==
  /\ \A p \in late : p.epoch = deletes => p.expected <= row.version
  /\ op.gotRow /\ op.epoch = deletes => op.row.version <= row.version
  /\ op.gotRow /\ op.epoch = deletes /\ op.row.version < row.version =>
       \A p \in late : p.epoch = deletes => p.expected < row.version

\* Every effect reported applied since the last deletion is in the row, in whatever copy
\* of the body the cache or the operation holds, and in every persist that can still land;
\* an operation from before the deletion finds none.
Kept ==
  /\ op.pc # "idle" /\ op.epoch # deletes => durable = {}
  /\ durable \subseteq row.body.effects
  /\ cache # NoBody => durable \subseteq cache.effects
  /\ op.gotCache /\ op.cached # NoBody => durable \subseteq op.cached.effects
  /\ op.gotRow => durable \subseteq op.row.body.effects
  /\ op.pc \in {"run", "persist", "refresh"} => durable \subseteq op.body.effects
  /\ \A p \in late :
       p.epoch = deletes /\ p.expected = row.version => durable \subseteq p.body.effects
  /\ op.pc = "refresh" /\ op.outcome = "applied" /\ op.epoch = deletes =>
       op.row.version < row.version /\ row.body = op.body

\* Init establishes Kept.
LEMMA KeptInit == Init => Kept
<1> SUFFICES ASSUME Init PROVE Kept
  OBVIOUS
<1>1. op = Idle /\ late = {} /\ durable = {}
  BY DEF Init
<1> QED
  BY <1>1, IdleFields DEF Kept

\* What a step does to the epochs: an operation takes the current one, a persist that of
\* its operation.
LEMMA EpochSteps ==
  ASSUME Shape, [Next]_vars
  PROVE  /\ op'.epoch \in {0, op.epoch, deletes}
         /\ \A p \in late' : p \in late \/ p.epoch = op.epoch
<1>0. op \in Operations
  BY DEF Shape, TypeOK
<1>i. Idle.epoch = 0
  BY DEF Idle
<1>p. ASSUME op.pc = "persist" PROVE Pending.epoch = op.epoch
  BY <1>p, PendingType
<1> DEFINE Steps == /\ op'.epoch \in {0, op.epoch, deletes}
                    /\ \A p \in late' : p \in late \/ p.epoch = op.epoch
<1>1. ASSUME NEW kind \in Kinds \ {"merge"}, Start(kind) PROVE Steps
  BY <1>1 DEF Start, stores, Idle
<1>2. CASE ReadCache \/ ReadRow
  BY <1>0, <1>2 DEF ReadCache, ReadRow, stores, Operations
<1>3. CASE ReconcileAndMigrate
  BY <1>0, <1>3 DEF ReconcileAndMigrate, Operations
<1>4. CASE ReadFails \/ LeaveUnadvanced
  BY <1>4, <1>i DEF ReadFails, LeaveUnadvanced, stores
<1>5. CASE NextBody
  BY <1>0, <1>5 DEF NextBody, stores, Operations
<1>6. CASE NoChange
  BY <1>0, <1>6, <1>i DEF NoChange, stores, Operations
<1>7. CASE PersistSettles
  BY <1>0, <1>7, <1>i DEF PersistSettles, AfterMiss, Reread, Idle, Operations
<1>8. CASE PersistDegrades
  BY <1>0, <1>8, <1>i, <1>p DEF PersistDegrades, Operations
<1>9. CASE CacheSet \/ CacheCleared \/ CacheUntouched
  BY <1>9, <1>i DEF CacheSet, CacheCleared, CacheUntouched
<1>10. CASE LateLands
  BY <1>10 DEF LateLands
<1>11. CASE WipeRedis \/ RemoveRows \/ Unbind
  BY <1>11 DEF WipeRedis, RemoveRows, Unbind
<1>12. CASE Crash
  BY <1>12, <1>i, <1>p DEF Crash
<1>13. CASE Upgrade \/ UNCHANGED vars
  BY <1>13 DEF Upgrade, stores, vars
<1> QED
  BY <1>1, <1>2, <1>3, <1>4, <1>5, <1>6, <1>7, <1>8, <1>9, <1>10, <1>11, <1>12, <1>13
  DEF Next, Operation

\* Every step preserves Past.
LEMMA PastNext ==
  ASSUME Shape, Past, [Next]_vars
  PROVE  Past'
<1>1. /\ op.epoch \in Nat /\ deletes \in Nat
      /\ \A p \in late : p.epoch \in Nat
  BY SMT, Bounds DEF Shape, TypeOK, Operations, Persist
<1>2. deletes' = deletes \/ deletes' = deletes + 1
  BY DeletesCount
<1>3. op'.epoch <= deletes'
  BY SMT, <1>1, <1>2, EpochSteps DEF Past
<1>4. ASSUME NEW p \in late' PROVE p.epoch <= deletes'
  BY SMT, <1>1, <1>2, <1>4, EpochSteps DEF Past
<1> QED
  BY <1>3, <1>4 DEF Past

\* A deletion leaves nobody of the new epoch.
LEMMA NewEpoch ==
  ASSUME Shape, Past, [Next]_vars, RemoveRows \/ Unbind
  PROVE  /\ op' = op /\ op'.epoch # deletes'
         /\ late' = late /\ \A p \in late' : p.epoch # deletes'
<1>1. /\ op.epoch \in Nat /\ deletes \in Nat
      /\ \A p \in late : p.epoch \in Nat
  BY SMT, Bounds DEF Shape, TypeOK, Operations, Persist
<1>2. deletes' = deletes + 1
  BY DeletesCount
<1>3. op' = op /\ late' = late
  BY DEF RemoveRows, Unbind
<1>4. op.epoch # deletes' /\ \A p \in late : p.epoch # deletes'
  BY SMT, <1>1, <1>2 DEF Past
<1> QED
  BY <1>3, <1>4

\* Every step preserves Level.
LEMMA LevelNext ==
  ASSUME Shape, Past, Level, [Next]_vars
  PROVE  Level'
<1>0. /\ row.version \in Int /\ op.row.version \in Int
      /\ \A p \in late : p.expected \in Int
      /\ op \in Operations /\ row \in Row /\ late \subseteq Persist
  BY VersionsAreInts DEF Shape, TypeOK
<1>d. ~(RemoveRows \/ Unbind) => deletes' = deletes
  BY DeletesCount
<1>i. ASSUME ~op'.gotRow, row' = row, deletes' = deletes,
             \A p \in late' : p \in late \/ (p.epoch = deletes => p.expected <= row.version)
      PROVE  Level'
  BY <1>i DEF Level
<1>s. ASSUME UNCHANGED <<row, late, deletes>>, op'.gotRow = op.gotRow, op'.row = op.row,
             op'.epoch = op.epoch
      PROVE  Level'
  BY <1>s DEF Level
<1>1. ASSUME NEW kind \in Kinds \ {"merge"}, Start(kind) PROVE Level'
  <2>1. ~op'.gotRow
    BY <1>1 DEF Start, Idle
  <2> QED
    BY <1>1, <1>i, <2>1 DEF Start, stores, environment
<1>2. CASE ReadCache
  BY <1>0, <1>2, <1>s DEF ReadCache, Operations, stores, environment
<1>3. CASE ReadRow
  <2>1. op'.gotRow /\ op'.row = row /\ op'.epoch = op.epoch
    BY <1>0, <1>3 DEF ReadRow, Operations
  <2>2. UNCHANGED <<row, late, deletes>>
    BY <1>3 DEF ReadRow, stores, environment
  <2>3. row.version <= row.version /\ ~(row.version < row.version)
    BY SMT, <1>0
  <2> QED
    BY <2>1, <2>2, <2>3 DEF Level
<1>4. CASE ReconcileAndMigrate
  BY <1>0, <1>4, <1>s DEF ReconcileAndMigrate, Operations, environment
<1>5. CASE ReadFails \/ LeaveUnadvanced
  BY <1>5, <1>i, IdleFields DEF ReadFails, LeaveUnadvanced, stores, environment
<1>6. CASE NextBody
  BY <1>0, <1>6, <1>s DEF NextBody, Operations, stores, environment
<1>7. CASE NoChange
  <2>1. CASE op' = Idle
    BY <1>7, <1>i, <2>1, IdleFields DEF NoChange, stores, environment
  <2>2. CASE op' = [op EXCEPT !.pc = "persist"]
    BY <1>0, <1>7, <1>s, <2>2 DEF NoChange, Operations, stores, environment
  <2> QED
    BY <1>7, <2>1, <2>2 DEF NoChange
<1>p. ASSUME op.pc = "persist"
      PROVE  /\ Pending \in Persist /\ Pending.expected = op.row.version /\ op.gotRow
             /\ Pending.epoch = op.epoch
  BY <1>p, PendingType DEF Shape
<1>9. CASE PersistSettles
  <2>0. op.pc = "persist" /\ UNCHANGED <<late, deletes>>
    BY <1>9 DEF PersistSettles, environment
  <2>1. CASE Applies(row, Pending)
    <3>1. row'.version = row.version + 1
      BY SMT, <1>0, <1>9, <1>p, <2>0, <2>1, CasVersion DEF PersistSettles
    <3>2. op'.gotRow = op.gotRow /\ op'.row = op.row /\ op'.epoch = op.epoch
      BY <1>0, <1>9, <2>1 DEF PersistSettles, Operations
    <3> QED
      BY SMT, <1>0, <2>0, <3>1, <3>2 DEF Level
  <2>2. CASE ~Applies(row, Pending)
    <3>1. row' = row /\ op' = AfterMiss
      BY <1>0, <1>9, <1>p, <2>0, <2>2, CasVersion DEF PersistSettles
    <3>2. ~op'.gotRow
      BY <3>1 DEF AfterMiss, Reread, Idle
    <3> QED
      BY <1>i, <2>0, <3>1, <3>2
  <2> QED
    BY <2>1, <2>2
<1>10. CASE PersistDegrades
  <2>0. op.pc = "persist" /\ UNCHANGED <<row, deletes>> /\ late' = late \cup {Pending}
    BY <1>10 DEF PersistDegrades, environment
  <2>1. CASE op.kind = "tick"
    <3>1. op'.gotRow = op.gotRow /\ op'.row = op.row /\ op'.epoch = op.epoch
      BY <1>0, <1>10, <2>1 DEF PersistDegrades, Operations
    <3> QED
      BY <1>p, <2>0, <3>1 DEF Level
  <2>2. CASE op.kind # "tick"
    <3>1. op' = Idle
      BY <1>10, <2>2 DEF PersistDegrades
    <3> QED
      BY <1>i, <1>p, <2>0, <3>1, IdleFields DEF Level
  <2> QED
    BY <2>1, <2>2
<1>11. CASE CacheSet \/ CacheCleared \/ CacheUntouched
  BY <1>11, <1>i, IdleFields DEF CacheSet, CacheCleared, CacheUntouched, environment
<1>14. CASE LateLands
  <2>1. PICK p \in late : row' = CasUpsert(row, p) /\ late' = late \ {p}
    BY <1>14 DEF LateLands
  <2>2. UNCHANGED <<op, deletes>>
    BY <1>14 DEF LateLands, environment
  <2>3. CASE ~Applies(row, p)
    <3>1. row' = row
      BY <1>0, <2>1, <2>3, CasVersion
    <3> QED
      BY <2>1, <2>2, <3>1 DEF Level
  <2>4. CASE Applies(row, p)
    <3>1. row'.version = row.version + 1
      BY SMT, <1>0, <2>1, <2>4, CasVersion DEF Applies
    <3> QED
      BY SMT, <1>0, <2>1, <2>2, <3>1 DEF Level
  <2> QED
    BY <2>3, <2>4
<1>15. CASE WipeRedis
  BY <1>15, <1>s DEF WipeRedis
<1>16. CASE RemoveRows \/ Unbind
  BY <1>16, NewEpoch DEF Level
<1>17. CASE Crash
  <2>1. \A p \in late' : p \in late \/ (op.pc = "persist" /\ p = Pending)
    BY <1>17 DEF Crash
  <2>2. op' = Idle /\ UNCHANGED <<row, deletes>>
    BY <1>17 DEF Crash
  <2> QED
    BY <1>i, <1>p, <2>1, <2>2, IdleFields DEF Level
<1>18. CASE Upgrade
  BY <1>18, <1>s DEF Upgrade, stores
<1>19. CASE UNCHANGED vars
  BY <1>19, <1>s DEF vars
<1> QED
  BY <1>1, <1>2, <1>3, <1>4, <1>5, <1>6, <1>7, <1>9, <1>10, <1>11,
     <1>14, <1>15, <1>16, <1>17, <1>18, <1>19 DEF Next, Operation

\* A deletion establishes Kept, whatever held before it.
LEMMA ForgetKept ==
  ASSUME Shape, Past, [Next]_vars, RemoveRows \/ Unbind
  PROVE  Kept'
<1>1. durable' = {}
  BY DEF RemoveRows, Unbind, Forget
<1> QED
  BY <1>1, NewEpoch DEF Kept

\* Every step preserves Kept, unless the DEL after a failed SET fails too or an update from
\* before the last deletion lands.
LEMMA KeptNext ==
  ASSUME Shape, Past, Level, Kept, [Next]_vars, ~delFailed', ~revived'
  PROVE  Kept'
<1>0. /\ row.version \in Int /\ op.row.version \in Int
      /\ \A p \in late : p.expected \in Int
      /\ op \in Operations /\ row \in Row /\ late \subseteq Persist
  BY VersionsAreInts DEF Shape, TypeOK
<1>d. ~(RemoveRows \/ Unbind) => deletes' = deletes
  BY DeletesCount
<1>e. op.pc # "idle" /\ op.epoch # deletes => durable = {}
  BY DEF Kept
<1>i. ASSUME op' = Idle, row' = row, durable' = durable, deletes' = deletes,
             cache' = cache \/ cache' = NoBody,
             \A p \in late' : p \in late \/ durable \subseteq p.body.effects
      PROVE  Kept'
  BY <1>i, IdleFields DEF Kept
<1>s. ASSUME UNCHANGED <<row, cache, late, durable, deletes>>, op.pc # "idle",
             op'.epoch = op.epoch,
             op'.gotCache = op.gotCache, op'.cached = op.cached,
             op'.gotRow = op.gotRow, op'.row = op.row,
             op'.pc \in {"run", "persist"} => durable \subseteq op'.body.effects,
             op'.pc # "refresh"
      PROVE  Kept'
  BY <1>s DEF Kept
<1>1. ASSUME NEW kind \in Kinds \ {"merge"}, Start(kind) PROVE Kept'
  <2>1. ~op'.gotRow /\ ~op'.gotCache /\ op'.pc = "reading" /\ op'.epoch = deletes
    BY <1>1 DEF Start, Idle
  <2> QED
    BY <1>1, <2>1 DEF Start, stores, environment, Kept
<1>2. CASE ReadCache
  <2>1. /\ op'.gotCache /\ op'.cached = cache /\ op'.pc = "reading"
        /\ op'.gotRow = op.gotRow /\ op'.row = op.row /\ op'.epoch = op.epoch
    BY <1>0, <1>2 DEF ReadCache, Operations
  <2> QED
    BY <1>2, <2>1 DEF ReadCache, stores, environment, history, Kept
<1>3. CASE ReadRow
  <2>1. /\ op'.gotRow /\ op'.row = row /\ op'.pc = "reading"
        /\ op'.gotCache = op.gotCache /\ op'.cached = op.cached /\ op'.epoch = op.epoch
    BY <1>0, <1>3 DEF ReadRow, Operations
  <2> QED
    BY <1>3, <2>1 DEF ReadRow, stores, environment, history, Kept
<1>4. CASE ReconcileAndMigrate
  <2> DEFINE working == WorkingState(op.row, op.cached)
             body == [working EXCEPT !.schema = version]
  <2>1. working \in Body /\ durable \subseteq working.effects
    <3>1. op.gotRow /\ op.gotCache /\ op.row \in Row /\ op.cached \in Cached
      BY <1>0, <1>4 DEF ReconcileAndMigrate, Operations
    <3>2. working \in Body
      BY <3>1, WorkingType DEF Shape, TypeOK
    <3>3. CASE op.row = NoRow
      <4>1. durable = {}
        BY SMT, <3>1, <3>3 DEF Kept, NoRow, NoBody
      <4> QED
        BY <3>2, <4>1
    <3>4. CASE op.row # NoRow /\ op.cached.schema = op.row.body.schema
      <4>1. working = op.cached
        BY <3>4 DEF WorkingState
      <4>2. op.cached # NoBody
        BY SMT, <3>2, <4>1, Bounds DEF Body, NoBody
      <4> QED
        BY <3>1, <3>2, <4>1, <4>2 DEF Kept
    <3>5. CASE op.row # NoRow /\ op.cached.schema # op.row.body.schema
      BY <3>1, <3>2, <3>5 DEF WorkingState, Kept
    <3> QED
      BY <3>3, <3>4, <3>5
  <2>2. body.effects = working.effects
    BY <2>1 DEF Body
  <2> HIDE DEF working, body
  <2>3. op' = [op EXCEPT !.pc = "run", !.body = body, !.migrated = working.schema # version]
    BY <1>4 DEF ReconcileAndMigrate, Migrate, working, body
  <2>4. /\ op'.pc = "run" /\ op'.body = body /\ op'.gotCache = op.gotCache
        /\ op'.cached = op.cached /\ op'.gotRow = op.gotRow /\ op'.row = op.row
        /\ op'.epoch = op.epoch
    BY <1>0, <2>3 DEF Operations
  <2>5. /\ UNCHANGED <<row, late, durable, deletes>> /\ (cache' = cache \/ cache' = NoBody)
        /\ op.pc = "reading"
    BY <1>4 DEF ReconcileAndMigrate, environment, history
  <2> QED
    BY <2>1, <2>2, <2>4, <2>5 DEF Kept
<1>5. CASE ReadFails
  BY <1>5, <1>i DEF ReadFails, stores, environment, history
<1>6. CASE NextBody
  <2>1. op.body \in Body /\ op.pc = "run"
    BY <1>6 DEF NextBody, Shape
  <2>2. /\ op'.pc = "persist" /\ op'.gotCache = op.gotCache /\ op'.cached = op.cached
        /\ op'.gotRow = op.gotRow /\ op'.row = op.row
        /\ op'.body.effects = op.body.effects \cup {op.id} /\ op'.epoch = op.epoch
    BY <1>0, <1>6, <2>1 DEF NextBody, Operations, Body
  <2> QED
    BY <1>6, <1>s, <2>1, <2>2 DEF NextBody, stores, environment, history, Kept
<1>7. CASE NoChange
  <2>1. CASE op' = Idle
    BY <1>7, <1>i, <2>1 DEF NoChange, stores, environment, history
  <2>2. CASE op' = [op EXCEPT !.pc = "persist"]
    <3>1. /\ op'.pc = "persist" /\ op'.gotCache = op.gotCache /\ op'.cached = op.cached
          /\ op'.gotRow = op.gotRow /\ op'.row = op.row /\ op'.body = op.body
          /\ op'.epoch = op.epoch
      BY <1>0, <2>2 DEF Operations
    <3> QED
      BY <1>7, <1>s, <3>1 DEF NoChange, stores, environment, history, Kept
  <2> QED
    BY <1>7, <2>1, <2>2 DEF NoChange
<1>8. CASE LeaveUnadvanced
  BY <1>8, <1>i DEF LeaveUnadvanced, stores, environment, history
<1>p. ASSUME op.pc = "persist"
      PROVE  /\ Pending \in Persist /\ Pending.expected = op.row.version
             /\ Pending.body = op.body /\ op.gotRow /\ durable \subseteq op.body.effects
             /\ Pending.epoch = op.epoch
  BY <1>p, PendingType DEF Shape, Kept
<1>9. CASE PersistSettles
  <2>0. op.pc = "persist" /\ UNCHANGED <<cache, late, durable, deletes>>
    BY <1>9 DEF PersistSettles, environment, history
  <2>1. CASE Applies(row, Pending)
    <3>0. row' = CasUpsert(row, Pending) /\ op.row.version = row.version
      BY <1>9, <1>p, <2>0, <2>1 DEF PersistSettles, Applies
    <3>1. row'.version = row.version + 1 /\ row'.body = op.body /\ op.row.version = row.version
      BY SMT, <1>0, <1>p, <2>0, <2>1, <3>0, CasVersion
    <3>2. /\ op'.pc = "refresh" /\ op'.gotRow = op.gotRow /\ op'.row = op.row
          /\ op'.gotCache = op.gotCache /\ op'.cached = op.cached /\ op'.body = op.body
          /\ op'.epoch = op.epoch
      BY <1>0, <1>9, <2>1 DEF PersistSettles, Operations
    <3>3. \A p \in late' : p.epoch = deletes => p.expected # row'.version
      BY SMT, <1>0, <2>0, <3>1 DEF Level
    <3>4. /\ durable' = durable /\ durable \subseteq op.body.effects
          /\ op.row.version < row'.version
      BY SMT, <1>0, <1>p, <2>0, <3>1
    <3>5. /\ cache # NoBody => durable \subseteq cache.effects
          /\ op.gotCache /\ op.cached # NoBody => durable \subseteq op.cached.effects
          /\ op.gotRow => durable \subseteq op.row.body.effects
      BY DEF Kept
    <3> QED
      BY <1>e, <2>0, <3>1, <3>2, <3>3, <3>4, <3>5 DEF Kept
  <2>2. CASE ~Applies(row, Pending)
    <3>1. row' = row /\ op' = AfterMiss
      BY <1>0, <1>9, <1>p, <2>0, <2>2, CasVersion DEF PersistSettles
    <3>2. /\ ~op'.gotRow /\ ~op'.gotCache /\ op'.pc \in {"idle", "reading"}
          /\ op'.pc = "reading" => op'.epoch = op.epoch
      BY <3>1 DEF AfterMiss, Reread, Idle
    <3> QED
      BY <1>e, <2>0, <3>1, <3>2 DEF Kept
  <2> QED
    BY <2>1, <2>2
<1>10. CASE PersistDegrades
  <2>0. /\ op.pc = "persist" /\ UNCHANGED <<row, cache, durable, deletes>>
        /\ late' = late \cup {Pending}
    BY <1>10 DEF PersistDegrades, environment, history
  <2>1. CASE op.kind = "tick"
    <3>1. /\ op'.pc = "refresh" /\ op'.outcome = "degraded"
          /\ op'.gotRow = op.gotRow /\ op'.row = op.row
          /\ op'.gotCache = op.gotCache /\ op'.cached = op.cached /\ op'.body = op.body
          /\ op'.epoch = op.epoch
      BY <1>0, <1>10, <2>1 DEF PersistDegrades, Operations
    <3> QED
      BY <1>e, <1>p, <2>0, <3>1 DEF Kept
  <2>2. CASE op.kind # "tick"
    BY <1>10, <1>i, <1>p, <2>0, <2>2 DEF PersistDegrades
  <2> QED
    BY <2>1, <2>2
<1>r. ASSUME op.pc = "refresh", Report, op' = Idle, UNCHANGED <<row, late, deletes>>,
             cache' = op.body \/ cache' = NoBody
      PROVE  Kept'
  <2>1. durable' \subseteq op.body.effects
    BY <1>r DEF Report, Kept
  <2>2. CASE durable' = durable
    BY <1>r, <2>1, <2>2, IdleFields DEF Kept
  <2>3. CASE durable' # durable
    <3>1. op.outcome = "applied" /\ op.gotRow /\ op.epoch = deletes
      BY <1>r, <2>3 DEF Report, Shape
    <3>2. op.row.version < row.version
      BY <1>r, <3>1 DEF Kept
    <3>3. \A p \in late : p.epoch = deletes => p.expected # row.version
      BY SMT, <1>0, <3>1, <3>2 DEF Level
    <3> QED
      BY <1>r, <2>1, <3>1, <3>3, IdleFields DEF Kept
  <2> QED
    BY <2>2, <2>3
<1>11. CASE CacheSet \/ CacheCleared
  BY <1>11, <1>r DEF CacheSet, CacheCleared, environment
<1>13. CASE CacheUntouched
  BY <1>13 DEF CacheUntouched
<1>14. CASE LateLands
  <2>1. PICK p \in late :
          /\ row' = CasUpsert(row, p) /\ late' = late \ {p}
          /\ revived' = (revived \/ (p.epoch # deletes /\ p.expected # NoVersion /\ Applies(row, p)))
    BY <1>14 DEF LateLands
  <2>2. UNCHANGED <<op, cache, durable, deletes>>
    BY <1>14 DEF LateLands, environment
  <2>3. CASE ~Applies(row, p)
    <3>1. row' = row
      BY <1>0, <2>1, <2>3, CasVersion
    <3> QED
      BY <2>1, <2>2, <3>1 DEF Kept
  <2>4. CASE Applies(row, p)
    <3>1. row'.version = row.version + 1 /\ row'.body = p.body /\ p.expected = row.version
      BY SMT, <1>0, <2>1, <2>4, CasVersion DEF Applies
    <3>2. \A q \in late' : q.epoch = deletes => q.expected # row'.version
      BY SMT, <1>0, <2>1, <3>1 DEF Level
    <3>3. p.epoch = deletes \/ row.version = NoVersion
      BY <2>1, <2>4, <3>1
    <3>4. durable \subseteq p.body.effects
      <4>1. CASE p.epoch = deletes
        BY <2>1, <3>1, <4>1 DEF Kept
      <4>2. CASE row.version = NoVersion
        BY SMT, <1>0, <4>2 DEF Kept, Row, NoRow, NoBody, NoVersion
      <4> QED
        BY <3>3, <4>1, <4>2
    <3>5. ~(op.pc = "refresh" /\ op.outcome = "applied" /\ op.epoch = deletes)
      <4>1. SUFFICES ASSUME op.pc = "refresh", op.outcome = "applied", op.epoch = deletes
                     PROVE  FALSE
        OBVIOUS
      <4>2. op.gotRow /\ op.row.version < row.version
        BY <4>1 DEF Kept, Shape
      <4>3. CASE p.epoch = deletes
        BY SMT, <1>0, <2>1, <3>1, <4>1, <4>2, <4>3 DEF Level
      <4>4. CASE row.version = NoVersion
        <5>1. op.row \in Row
          BY <1>0 DEF Operations
        <5> QED
          BY SMT, <4>2, <4>4, <5>1 DEF Row, NoRow, NoVersion
      <4> QED
        BY <3>3, <4>3, <4>4
    <3> QED
      BY <1>e, <2>1, <2>2, <3>1, <3>2, <3>4, <3>5 DEF Kept
  <2> QED
    BY <2>3, <2>4
<1>15. CASE WipeRedis
  BY <1>15 DEF WipeRedis, history, Kept
<1>16. CASE RemoveRows \/ Unbind
  BY <1>16, ForgetKept
<1>17. CASE Crash
  BY <1>i, <1>p, <1>17 DEF Crash, history
<1>18. CASE Upgrade
  BY <1>18 DEF Upgrade, stores, history, Kept
<1>19. CASE UNCHANGED vars
  BY <1>19 DEF vars, Kept
<1> QED
  BY <1>1, <1>2, <1>3, <1>4, <1>5, <1>6, <1>7, <1>8, <1>9, <1>10, <1>11, <1>13,
     <1>14, <1>15, <1>16, <1>17, <1>18, <1>19 DEF Next, Operation

\* That a DEL has failed is never forgotten.
LEMMA DelFailedStays ==
  ASSUME [Next]_vars, delFailed
  PROVE  delFailed'
<1>1. ASSUME NEW kind \in Kinds \ {"merge"}, Start(kind) PROVE delFailed'
  BY <1>1 DEF Start
<1>2. CASE Operation
  BY <1>2 DEF Operation, ReadCache, ReadRow, ReconcileAndMigrate, ReadFails, NextBody, NoChange,
     LeaveUnadvanced, PersistSettles, PersistDegrades, CacheSet, CacheCleared, CacheUntouched, history
<1>3. CASE LateLands \/ WipeRedis \/ RemoveRows \/ Unbind \/ Crash \/ Upgrade
  BY <1>3 DEF LateLands, WipeRedis, RemoveRows, Unbind, Crash, Upgrade, history
<1>4. CASE UNCHANGED vars
  BY <1>4 DEF vars
<1> QED
  BY <1>1, <1>2, <1>3, <1>4 DEF Next

\* That an update from before the deletion has landed is forgotten at the next deletion only.
LEMMA RevivedStays ==
  ASSUME [Next]_vars, revived, ~(RemoveRows \/ Unbind)
  PROVE  revived'
<1>1. ASSUME NEW kind \in Kinds \ {"merge"}, Start(kind) PROVE revived'
  BY <1>1 DEF Start
<1>2. CASE Operation
  BY <1>2 DEF Operation, ReadCache, ReadRow, ReconcileAndMigrate, ReadFails, NextBody, NoChange,
     LeaveUnadvanced, PersistSettles, PersistDegrades, CacheSet, CacheCleared, CacheUntouched, history
<1>3. CASE LateLands \/ WipeRedis \/ Crash \/ Upgrade
  BY <1>3 DEF LateLands, WipeRedis, Crash, Upgrade, history
<1>4. CASE UNCHANGED vars
  BY <1>4 DEF vars
<1> QED
  BY <1>1, <1>2, <1>3, <1>4 DEF Next

\* No effect committed since the last deletion is missing from the body an operation works
\* on, unless a SET of the cache and the DEL after it have both failed or an update from
\* before the deletion has matched the row inserted after it.
THEOREM StateCommitted == Spec => []CommittedNeverReverted
<1> DEFINE Safe == delFailed \/ revived \/ Kept
<1>1. Init => Past /\ Level /\ Safe
  <2> SUFFICES ASSUME Init PROVE Past /\ Level /\ Safe
    OBVIOUS
  <2>1. op = Idle /\ late = {} /\ deletes = 0
    BY DEF Init
  <2>2. Past
    BY SMT, <2>1 DEF Past, Idle
  <2> QED
    BY <2>1, <2>2, KeptInit, IdleFields DEF Level
<1>2. Shape /\ Past /\ Level /\ Safe /\ [Next]_vars => Past' /\ Level' /\ Safe'
  BY PastNext, LevelNext, KeptNext, ForgetKept, DelFailedStays, RevivedStays
<1>3. Safe => CommittedNeverReverted
  BY DEF Kept, CommittedNeverReverted, Working
<1> HIDE DEF Safe
<1> QED
  BY <1>1, <1>2, <1>3, ShapeInit, ShapeNext, PTL DEF Spec
-----------------------------------------------------------------------------
(* Schemas *)

\* A persist that can still land carries a schema at least the row's, and a working
\* operation the registered one, which no stored body is ahead of.
Schemas ==
  /\ row.body.schema <= version
  /\ op.pc \in {"run", "persist", "refresh"} => op.body.schema = version
  /\ \A p \in late : p.body.schema <= version
  /\ \A p \in late : p.expected = row.version => row.body.schema <= p.body.schema

\* Schemas are integers.
LEMMA SchemasAreInts ==
  ASSUME Shape
  PROVE  /\ version \in Int /\ row.body.schema \in Int
         /\ \A p \in late : p.body.schema \in Int
  BY SMT, Bounds DEF Shape, TypeOK, Row, NoRow, NoBody, Body, Persist

\* Init establishes Schemas.
LEMMA SchemasInit == Init => Schemas
<1> SUFFICES ASSUME Init PROVE Schemas
  OBVIOUS
<1>1. op.pc = "idle" /\ late = {} /\ version = 1
  BY IdleFields DEF Init
<1>2. row.body.schema <= 1
  BY SMT, Bounds DEF Init, NoRow, NoBody
<1> QED
  BY <1>1, <1>2 DEF Schemas

\* Before the first deletion every step preserves Schemas and takes the row to no older schema.
LEMMA SchemasNext ==
  ASSUME Shape, Order, Schemas, [Next]_vars, deletes' = 0
  PROVE  Schemas' /\ row.body.schema <= row'.body.schema
<1>0. /\ row.version \in Int /\ op.row.version \in Int
      /\ \A p \in late : p.expected \in Int
      /\ op \in Operations /\ row \in Row /\ late \subseteq Persist
      /\ version \in Int /\ row.body.schema \in Int
      /\ \A p \in late : p.body.schema \in Int
  BY VersionsAreInts, SchemasAreInts DEF Shape, TypeOK
<1>p. ASSUME op.pc = "persist"
      PROVE  /\ Pending \in Persist /\ Pending.expected = op.row.version
             /\ Pending.body = op.body /\ op.body.schema = version
  BY <1>p, PendingType DEF Schemas
<1>s. ASSUME UNCHANGED <<row, version>>,
             late' = late \/ (op.pc = "persist" /\ late' = late \cup {Pending}),
             op'.pc \in {"run", "persist", "refresh"} => op'.body.schema = version
      PROVE  Schemas' /\ row.body.schema <= row'.body.schema
  <2>1. \A p \in late' : p \in late \/ (op.pc = "persist" /\ p = Pending)
    BY <1>s
  <2>2. \A p \in late' : p.body.schema <= version
    BY SMT, <1>0, <1>p, <2>1 DEF Schemas
  <2>3. \A p \in late' : p.expected = row.version => row.body.schema <= p.body.schema
    BY <1>p, <2>1 DEF Schemas
  <2>4. row.body.schema <= row'.body.schema
    BY SMT, <1>0, <1>s
  <2> QED
    BY <1>s, <2>2, <2>3, <2>4 DEF Schemas
<1>1. ASSUME NEW kind \in Kinds \ {"merge"}, Start(kind)
      PROVE  Schemas' /\ row.body.schema <= row'.body.schema
  BY <1>1, <1>s DEF Start, Idle, stores, environment
<1>2. CASE ReadCache \/ ReadRow
  <2>1. op'.pc = "reading"
    BY <1>0, <1>2 DEF ReadCache, ReadRow, Operations
  <2> QED
    BY <1>2, <1>s, <2>1 DEF ReadCache, ReadRow, stores, environment
<1>4. CASE ReconcileAndMigrate
  <2> DEFINE working == WorkingState(op.row, op.cached)
             body == [working EXCEPT !.schema = version]
  <2>1. working \in Body
    BY <1>0, WorkingType DEF Shape, TypeOK, Operations
  <2>2. body.schema = version
    BY <2>1 DEF Body
  <2> HIDE DEF working, body
  <2>3. op' = [op EXCEPT !.pc = "run", !.body = body, !.migrated = working.schema # version]
    BY <1>4 DEF ReconcileAndMigrate, Migrate, working, body
  <2>4. op'.body = body
    BY <1>0, <2>3 DEF Operations
  <2> QED
    BY SMTT(30), <1>4, <1>s, <2>2, <2>4 DEF ReconcileAndMigrate, environment
<1>5. CASE ReadFails \/ LeaveUnadvanced
  BY <1>5, <1>s, IdleFields DEF ReadFails, LeaveUnadvanced, stores, environment
<1>6. CASE NextBody
  <2>1. op.body \in Body /\ op.body.schema = version
    BY <1>6 DEF NextBody, Shape, Schemas
  <2>2. op'.body.schema = version
    BY <1>0, <1>6, <2>1 DEF NextBody, Operations, Body
  <2> QED
    BY <1>6, <1>s, <2>2 DEF NextBody, stores, environment
<1>7. CASE NoChange
  <2>1. op'.pc = "idle" \/ op'.body = op.body
    BY <1>0, <1>7, IdleFields DEF NoChange, Operations
  <2>2. op.body.schema = version
    BY <1>7 DEF NoChange, Schemas
  <2> QED
    BY <1>7, <1>s, <2>1, <2>2 DEF NoChange, stores, environment
<1>9. CASE PersistSettles
  <2>0. op.pc = "persist" /\ UNCHANGED <<late, version>>
    BY <1>9 DEF PersistSettles, environment
  <2>1. CASE Applies(row, Pending)
    <3>1. row'.version = row.version + 1 /\ row'.body = op.body
      BY SMT, <1>0, <1>9, <1>p, <2>0, <2>1, CasVersion DEF PersistSettles
    <3>2. op'.body = op.body
      BY <1>0, <1>9, <2>1 DEF PersistSettles, Operations
    <3>3. \A p \in late' : p.expected # row'.version
      BY SMT, <1>0, <2>0, <3>1 DEF Order
    <3> QED
      BY SMT, <1>0, <1>p, <2>0, <3>1, <3>2, <3>3 DEF Schemas
  <2>2. CASE ~Applies(row, Pending)
    <3>1. row' = row /\ op' = AfterMiss
      BY <1>0, <1>9, <1>p, <2>0, <2>2, CasVersion DEF PersistSettles
    <3>2. op'.pc \in {"idle", "reading"}
      BY <3>1 DEF AfterMiss, Reread, Idle
    <3> QED
      BY <1>s, <2>0, <3>1, <3>2
  <2> QED
    BY <2>1, <2>2
<1>10. CASE PersistDegrades
  <2>1. op'.pc = "idle" \/ op'.body = op.body
    BY <1>0, <1>10, IdleFields DEF PersistDegrades, Operations
  <2> QED
    BY <1>10, <1>p, <1>s, <2>1 DEF PersistDegrades, environment
<1>11. CASE CacheSet \/ CacheCleared \/ CacheUntouched
  BY <1>11, <1>s, IdleFields DEF CacheSet, CacheCleared, CacheUntouched, environment
<1>14. CASE LateLands
  <2>1. PICK p \in late : row' = CasUpsert(row, p) /\ late' = late \ {p}
    BY <1>14 DEF LateLands
  <2>2. UNCHANGED <<op, version>>
    BY <1>14 DEF LateLands, environment
  <2>3. CASE ~Applies(row, p)
    <3>1. row' = row
      BY <1>0, <2>1, <2>3, CasVersion
    <3>2. late' \subseteq late
      BY <2>1
    <3>3. /\ \A q \in late' : q.body.schema <= version
          /\ \A q \in late' : q.expected = row.version => row.body.schema <= q.body.schema
      BY <3>2 DEF Schemas
    <3>4. row.body.schema <= row'.body.schema
      BY SMT, <1>0, <3>1
    <3> QED
      BY <2>2, <3>1, <3>3, <3>4 DEF Schemas
  <2>4. CASE Applies(row, p)
    <3>1. row'.version = row.version + 1 /\ row'.body = p.body /\ p.expected = row.version
      BY SMT, <1>0, <2>1, <2>4, CasVersion DEF Applies
    <3>2. \A q \in late' : q.expected # row'.version
      BY SMT, <1>0, <2>1, <3>1 DEF Order
    <3>3. row.body.schema <= p.body.schema /\ p.body.schema <= version
      BY <2>1, <3>1 DEF Schemas
    <3>4. \A q \in late' : q.body.schema <= version
      BY <2>1 DEF Schemas
    <3> QED
      BY <2>2, <3>1, <3>2, <3>3, <3>4 DEF Schemas
  <2> QED
    BY <2>3, <2>4
<1>15. CASE WipeRedis
  <2>1. UNCHANGED <<row, version, late, op>>
    BY <1>15 DEF WipeRedis
  <2> QED
    BY <1>s, <2>1 DEF Schemas
<1>16. CASE RemoveRows \/ Unbind
  <2>1. deletes \in Nat /\ deletes' = deletes + 1
    BY <1>16, DeletesCount
  <2> QED
    BY SMT, <2>1
<1>17. CASE Crash
  <2>1. op'.pc = "idle" /\ UNCHANGED <<row, version>>
    BY <1>17, IdleFields DEF Crash
  <2>2. late' = late \/ (op.pc = "persist" /\ late' = late \cup {Pending})
    BY <1>17 DEF Crash
  <2> QED
    BY <1>s, <2>1, <2>2
<1>18. CASE Upgrade
  <2>1. /\ op.pc = "idle" /\ version' = version + 1
        /\ UNCHANGED <<row, late, op>>
    BY <1>18 DEF Upgrade, stores
  <2>2. row.body.schema <= version' /\ \A p \in late : p.body.schema <= version'
    BY SMT, <1>0, <2>1 DEF Schemas
  <2> QED
    BY SMT, <1>0, <2>1, <2>2 DEF Schemas
<1>19. CASE UNCHANGED vars
  <2>1. UNCHANGED <<row, version, late, op>>
    BY <1>19 DEF vars
  <2> QED
    BY <1>s, <2>1 DEF Schemas
<1> QED
  BY <1>1, <1>2, <1>4, <1>5, <1>6, <1>7, <1>9, <1>10, <1>11,
     <1>14, <1>15, <1>16, <1>17, <1>18, <1>19 DEF Next, Operation

\* While nobody deletes the row, it never goes back to an older schema, even if the cache
\* fails altogether.
THEOREM StateSchema == Spec => SchemaNeverRegresses
<1> DEFINE Safe == deletes = 0 => Schemas
<1>1. Shape /\ Ordered /\ Safe /\ [Next]_vars
        => Safe' /\ [deletes' = 0 /\ row' # NoRow => row.body.schema <= row'.body.schema]_row
  <2> SUFFICES ASSUME Shape, Ordered, Safe, [Next]_vars, deletes' = 0
               PROVE  Schemas' /\ row.body.schema <= row'.body.schema
    OBVIOUS
  <2>1. deletes = 0
    BY SMT, DeletesCount
  <2> QED
    BY <2>1, SchemasNext DEF Ordered
<1>2. Init => Ordered /\ Safe
  BY OrderInit, SchemasInit DEF Ordered
<1> HIDE DEF Safe
<1> QED
  BY <1>1, <1>2, ShapeInit, ShapeNext, OrderedNext, PTL DEF Spec, SchemaNeverRegresses
-----------------------------------------------------------------------------
(* Read-your-writes *)

\* The symbol has a row, the cache holds a body, and what a degraded commit left in the
\* cache is in every copy of the body that an operation has taken from there.
Carried ==
  /\ row # NoRow
  /\ cache \in Body /\ promised \subseteq cache.effects
  /\ op.gotRow => op.row # NoRow
  /\ op.gotCache => op.cached \in Body /\ promised \subseteq op.cached.effects
  /\ op.pc \in {"run", "persist", "refresh"} => promised \subseteq op.body.effects

\* A row that has been written is a row.
LEMMA WrittenRow ==
  ASSUME NEW r \in Row, NEW p \in Persist, r # NoRow
  PROVE  CasUpsert(r, p) # NoRow
<1>1. CASE Applies(r, p)
  <2>1. r.version + 1 # NoVersion
    BY SMT DEF Row, NoVersion
  <2>2. CasUpsert(r, p).version = r.version + 1
    BY SMT, <1>1, CasVersion
  <2> QED
    BY SMT, <2>1, <2>2 DEF NoRow
<1>2. CASE ~Applies(r, p)
  BY <1>2, CasVersion
<1> QED
  BY <1>1, <1>2

\* Init establishes Carried for a symbol that has ticked before.
LEMMA CarriedInit ==
  ASSUME RowExists
  PROVE  Init => Carried
<1> SUFFICES ASSUME Init PROVE Carried
  OBVIOUS
<1>1. op = Idle /\ promised = {}
  BY DEF Init
<1>2. row.version = 0 /\ cache \in Body
  BY SMT, Bounds DEF Init, Body
<1>3. row # NoRow
  BY SMT, <1>2 DEF NoRow, NoVersion
<1> QED
  BY <1>1, <1>2, <1>3, IdleFields DEF Carried

\* With one registered version, every cached body is of the row's schema, so an operation
\* works on what it has read from the cache.
LEMMA WorksOnCache ==
  ASSUME MaxSchema = 1, NEW r \in Row, r # NoRow, NEW c \in Body
  PROVE  WorkingState(r, c) = c
<1>1. r.body \in Body
  BY DEF Row
<1>2. r.body.schema = 1 /\ c.schema = 1
  BY SMT, <1>1 DEF Body
<1> QED
  BY <1>2 DEF WorkingState

\* Without deletions, upgrades and failing SETs every step preserves Carried.
LEMMA CarriedNext ==
  ASSUME MaxDeletes = 0, MaxSchema = 1, "set" \notin CacheFaults
  PROVE  Shape /\ Carried /\ [Next]_vars => Carried'
<1> SUFFICES ASSUME Shape, Carried, [Next]_vars PROVE Carried'
  OBVIOUS
<1>0. op \in Operations /\ row \in Row /\ late \subseteq Persist
  BY DEF Shape, TypeOK
<1>i. ASSUME op' = Idle, row' = row, cache' = cache, promised' = promised PROVE Carried'
  BY <1>i, IdleFields DEF Carried
<1>s. ASSUME UNCHANGED <<cache, promised>>, row' # NoRow,
             op'.gotCache = op.gotCache, op'.cached = op.cached,
             op'.gotRow = op.gotRow, op'.row = op.row,
             op'.pc \in {"run", "persist", "refresh"} => promised \subseteq op'.body.effects
      PROVE  Carried'
  BY <1>s DEF Carried
<1>1. ASSUME NEW kind \in Kinds \ {"merge"}, Start(kind) PROVE Carried'
  <2>1. ~op'.gotRow /\ ~op'.gotCache /\ op'.pc = "reading"
    BY <1>1 DEF Start, Idle
  <2> QED
    BY <1>1, <2>1 DEF Start, stores, Carried
<1>2. CASE ReadCache
  <2>1. /\ op'.gotCache /\ op'.cached = cache /\ op'.pc = "reading"
        /\ op'.gotRow = op.gotRow /\ op'.row = op.row
    BY <1>0, <1>2 DEF ReadCache, Operations
  <2> QED
    BY <1>2, <2>1 DEF ReadCache, stores, history, Carried
<1>3. CASE ReadRow
  <2>1. /\ op'.gotRow /\ op'.row = row /\ op'.pc = "reading"
        /\ op'.gotCache = op.gotCache /\ op'.cached = op.cached
    BY <1>0, <1>3 DEF ReadRow, Operations
  <2> QED
    BY <1>3, <2>1 DEF ReadRow, stores, history, Carried
<1>4. CASE ReconcileAndMigrate
  <2> DEFINE body == [op.cached EXCEPT !.schema = version]
  <2>1. op.gotRow /\ op.gotCache /\ op.row \in Row /\ op.row # NoRow /\ op.cached \in Body
    BY <1>0, <1>4 DEF ReconcileAndMigrate, Operations, Carried
  <2>2. WorkingState(op.row, op.cached) = op.cached
    BY <2>1, WorksOnCache
  <2>3. body.effects = op.cached.effects
    BY <2>1 DEF Body
  <2>4. op' = [op EXCEPT !.pc = "run", !.body = body, !.migrated = op.cached.schema # version]
    BY <1>4, <2>2 DEF ReconcileAndMigrate, Migrate
  <2> HIDE DEF body
  <2>5. /\ op'.pc = "run" /\ op'.body = body /\ op'.gotCache = op.gotCache
        /\ op'.cached = op.cached /\ op'.gotRow = op.gotRow /\ op'.row = op.row
    BY <1>0, <2>4 DEF Operations
  <2>6. UNCHANGED <<row, cache, promised>>
    BY <1>4, <2>1 DEF ReconcileAndMigrate, history
  <2> QED
    BY <1>s, <2>1, <2>3, <2>5, <2>6 DEF Carried
<1>5. CASE ReadFails \/ LeaveUnadvanced
  BY <1>5, <1>i DEF ReadFails, LeaveUnadvanced, stores, history
<1>6. CASE NextBody
  <2>1. op.body \in Body /\ op.pc = "run"
    BY <1>6 DEF NextBody, Shape
  <2>2. /\ op'.pc = "persist" /\ op'.gotCache = op.gotCache /\ op'.cached = op.cached
        /\ op'.gotRow = op.gotRow /\ op'.row = op.row
        /\ op'.body.effects = op.body.effects \cup {op.id}
    BY <1>0, <1>6, <2>1 DEF NextBody, Operations, Body
  <2>3. UNCHANGED <<row, cache, promised>>
    BY <1>6 DEF NextBody, stores, history
  <2> QED
    BY <1>s, <2>1, <2>2, <2>3 DEF Carried

<1>7. CASE NoChange
  <2>1. CASE op' = Idle
    BY <1>7, <1>i, <2>1 DEF NoChange, stores, history
  <2>2. CASE op' = [op EXCEPT !.pc = "persist"]
    <3>1. /\ op'.gotCache = op.gotCache /\ op'.cached = op.cached
          /\ op'.gotRow = op.gotRow /\ op'.row = op.row /\ op'.body = op.body
      BY <1>0, <2>2 DEF Operations
    <3>2. op.pc = "run" /\ UNCHANGED <<row, cache, promised>>
      BY <1>7 DEF NoChange, stores, history
    <3> QED
      BY <1>s, <3>1, <3>2 DEF Carried
  <2> QED
    BY <1>7, <2>1, <2>2 DEF NoChange
<1>p. ASSUME op.pc = "persist" PROVE Pending \in Persist /\ promised \subseteq op.body.effects
  BY <1>p, PendingType DEF Carried
<1>9. CASE PersistSettles
  <2>0. op.pc = "persist" /\ UNCHANGED <<cache, promised>> /\ row' = CasUpsert(row, Pending)
    BY <1>9 DEF PersistSettles, history
  <2>1. row' # NoRow
    BY <1>0, <1>p, <2>0, WrittenRow DEF Carried
  <2>2. CASE op' = [op EXCEPT !.pc = "refresh", !.outcome = "applied"]
    <3>1. /\ op'.gotCache = op.gotCache /\ op'.cached = op.cached
          /\ op'.gotRow = op.gotRow /\ op'.row = op.row /\ op'.body = op.body
      BY <1>0, <2>2 DEF Operations
    <3> QED
      BY <1>p, <1>s, <2>0, <2>1, <3>1
  <2>3. CASE op' = AfterMiss
    <3>1. ~op'.gotRow /\ ~op'.gotCache /\ op'.pc \in {"idle", "reading"}
      BY <2>3 DEF AfterMiss, Reread, Idle
    <3> QED
      BY <2>0, <2>1, <3>1 DEF Carried
  <2> QED
    BY <1>9, <2>2, <2>3 DEF PersistSettles
<1>10. CASE PersistDegrades
  <2>0. op.pc = "persist" /\ UNCHANGED <<row, cache, promised>>
    BY <1>10 DEF PersistDegrades, history
  <2>1. CASE op' = [op EXCEPT !.pc = "refresh", !.outcome = "degraded"]
    <3>1. /\ op'.gotCache = op.gotCache /\ op'.cached = op.cached
          /\ op'.gotRow = op.gotRow /\ op'.row = op.row /\ op'.body = op.body
      BY <1>0, <2>1 DEF Operations
    <3> QED
      BY <1>p, <1>s, <2>0, <3>1 DEF Carried
  <2>2. CASE op' = Idle
    BY <1>i, <2>0, <2>2
  <2> QED
    BY <1>10, <2>1, <2>2 DEF PersistDegrades
<1>11. CASE CacheSet
  <2>1. op.pc = "refresh" /\ op.body \in Body /\ promised \subseteq op.body.effects
    BY <1>11 DEF CacheSet, Shape, Carried
  <2>2. /\ cache' = op.body /\ op' = Idle /\ row' = row
        /\ promised' \subseteq promised \cup op.body.effects
    BY <1>11 DEF CacheSet
  <2> QED
    BY <2>1, <2>2, IdleFields DEF Carried
<1>12. CASE CacheCleared \/ CacheUntouched
  BY <1>12 DEF CacheCleared, CacheUntouched
<1>14. CASE LateLands
  <2>1. UNCHANGED <<op, cache, promised>>
    BY <1>14 DEF LateLands, history
  <2>2. row' # NoRow
    BY <1>0, <1>14, WrittenRow DEF LateLands, Carried
  <2> QED
    BY <2>1, <2>2 DEF Carried
<1>15. CASE WipeRedis \/ RemoveRows \/ Unbind
  BY SMT, <1>15 DEF WipeRedis, RemoveRows, Unbind, Shape, TypeOK
<1>17. CASE Crash
  BY <1>i, <1>17 DEF Crash, history
<1>18. CASE Upgrade
  BY SMT, <1>18 DEF Upgrade, Shape, TypeOK
<1>19. CASE UNCHANGED vars
  BY <1>19 DEF vars, Carried
<1> QED
  BY <1>1, <1>2, <1>3, <1>4, <1>5, <1>6, <1>7, <1>9, <1>10, <1>11, <1>12,
     <1>14, <1>15, <1>17, <1>18, <1>19 DEF Next, Operation

\* commitSymbolStateForTick, the degraded branch: for a symbol that has a row, one version of
\* its strategy and a cache whose SETs succeed, an operation works on the body that a
\* timed-out commit left in the cache, whatever persists land, miss or are cut off meanwhile.
THEOREM StateReadYourWrites ==
  ASSUME RowExists, MaxDeletes = 0, MaxSchema = 1, "set" \notin CacheFaults
  PROVE  Spec => []ReadYourWrites
<1>1. Carried => ReadYourWrites
  BY DEF Carried, ReadYourWrites, Working
<1> QED
  BY <1>1, ShapeInit, ShapeNext, CarriedInit, CarriedNext, PTL DEF Spec

=============================================================================
