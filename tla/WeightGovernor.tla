---------------------------- MODULE WeightGovernor ----------------------------
(***************************************************************************)
(* The shared per-IP weight budget (packages/binance/src/rate-limit).      *)
(* Every REST call of every worker pod reserves its cost first: one EVAL   *)
(* of a consume-and-decay bucket kept in Redis, and, when Redis does not   *)
(* answer in time, a per-process rolling window for orders only.           *)
(*                                                                         *)
(* A tick is a few seconds: longer than the 500 ms EVAL deadline, and a    *)
(* timer fires in the tick it is due.  A pod's connection executes its     *)
(* commands in order; a command whose caller has given up may still be     *)
(* executed, up to MaxLag ticks after it was sent.                         *)
(***************************************************************************)
EXTENDS Integers, Sequences, FiniteSets, FiniteSetsExt

CONSTANTS
  Pods,          \* worker processes sharing the egress IP
  Skew,          \* Skew[p]: how far p's wall clock is ahead, in 0..MaxSkew
  MaxSkew,
  Calls,         \* the reservations made
  PodOf, Cost,   \* who makes each, and for how much weight
  Orders,        \* those made with priority: order placement and cancellation
  Budget,        \* the exchange's weight limit per window
  Ceiling,       \* floor(budget * 0.8)
  OrderReserve,  \* the band bulk reads leave free
  Refill,        \* refillPerMs: what the bucket loses in a tick
  Window,        \* WINDOW_MS
  MaxLag, MaxFaults, LastStart, MaxTime

ASSUME ConfigAssumption ==
  /\ MaxSkew \in Nat /\ Skew \in [Pods -> 0 .. MaxSkew]
  /\ IsFiniteSet(Calls) /\ Orders \subseteq Calls
  /\ PodOf \in [Calls -> Pods] /\ Cost \in [Calls -> Nat]
  /\ Refill \in Nat /\ Window \in Nat
  /\ Budget \in Nat /\ Ceiling = (Budget * 4) \div 5 /\ Ceiling = Refill * Window
  /\ OrderReserve \in Nat /\ OrderReserve < Ceiling
  /\ MaxLag \in Nat /\ MaxLag + MaxSkew <= Window
  /\ MaxFaults \in Nat /\ LastStart \in Nat /\ MaxTime \in Nat

VARIABLES
  now,           \* true time; pod p reads now + Skew[p]
  bucket,        \* the Redis hash and when it expires
  wire,          \* wire[p]: EVALs on p's connection, oldest first
  phase,         \* where each reservation is
  wake,          \* when a sleeping one looks again
  records,       \* records[p]: p's local backstop window
  admittedAt,    \* when each reservation was let through, or Never
  charged,       \* history: weight charged to the bucket, by class
  regress,       \* history: how far `ts` has been moved back, in total
  faults

vars == <<now, bucket, wire, phase, wake, records, admittedAt, charged, regress, faults>>

Never == -1
Missing == [used |-> 0, ts |-> 0, expires |-> 0]

Settled == {"admitted", "local", "skipped", "aborted"}
Phases == Settled \cup {"idle", "eval", "asleep", "parked"}

Larger(a, b) == IF a >= b THEN a ELSE b

\* Mutants of AdmissionLimit: no fallback for a wide bulk read; no band.
FlatLimit(c) == IF c \in Orders THEN Ceiling ELSE Ceiling - OrderReserve
WholeLimit(c) == Ceiling

\* computeAdmissionLimit
AdmissionLimit(c) ==
  IF c \in Orders \/ Cost[c] > Ceiling - OrderReserve
    THEN Ceiling ELSE Ceiling - OrderReserve

\* A bulk read too large for what the band leaves is charged to "wide".
Class(c) ==
  IF c \in Orders THEN "order"
  ELSE IF Cost[c] > Ceiling - OrderReserve THEN "wide" ELSE "bulk"

-----------------------------------------------------------------------------
(* BUCKET_LUA *)

Stored == IF now >= bucket.expires THEN Missing ELSE bucket

\* What is left of the stored count at the caller's clock reading `at`.
Decayed(at) == Larger(0, Stored.used - Larger(0, at - Stored.ts) * Refill)

\* Mutant of Admits: any headroom at all admits.
AdmitsOnHeadroom(c, at) == Decayed(at) < AdmissionLimit(c)

Admits(c, at) == Decayed(at) + Cost[c] <= AdmissionLimit(c)

\* math.ceil(excess / refill), at least 1
WaitFor(c, at) ==
  Larger(1, (Decayed(at) + Cost[c] - AdmissionLimit(c) + Refill - 1) \div Refill)

\* Mutant of Charge: the stored time is left as it was.
KeepTs(c, at) ==
  /\ bucket' = [used |-> Decayed(at) + Cost[c], ts |-> Stored.ts, expires |-> now + 2 * Window]
  /\ charged' = [charged EXCEPT ![Class(c)] = @ + Cost[c]]
  /\ regress' = regress

\* HSET and PEXPIRE: a rejection writes nothing.
Charge(c, at) ==
  /\ bucket' = [used |-> Decayed(at) + Cost[c], ts |-> at, expires |-> now + 2 * Window]
  /\ charged' = [charged EXCEPT ![Class(c)] = @ + Cost[c]]
  /\ regress' = regress + Larger(0, Stored.ts - at)

-----------------------------------------------------------------------------
Init ==
  /\ now = 0
  /\ bucket = Missing
  /\ wire = [p \in Pods |-> <<>>]
  /\ phase = [c \in Calls |-> "idle"]
  /\ wake = [c \in Calls |-> 0]
  /\ records = [p \in Pods |-> <<>>]
  /\ admittedAt = [c \in Calls |-> Never]
  /\ charged = [k \in {"order", "bulk", "wide"} |-> 0]
  /\ regress = 0
  /\ faults = 0

\* opts.redis.eval(...): the clock is read when the command is queued.
Send(c) ==
  /\ wire' = [wire EXCEPT ![PodOf[c]] =
                Append(@, [call |-> c, at |-> now + Skew[PodOf[c]]])]
  /\ phase' = [phase EXCEPT ![c] = "eval"]
  /\ UNCHANGED <<now, bucket, wake, records, admittedAt, charged, regress, faults>>

\* reserve(cost, opts): the guards before the loop, then its first round.  A
\* cost no window could hold throws before anything is done.
Reserve(c) ==
  /\ phase[c] = "idle" /\ now <= LastStart
  /\ Cost[c] <= Ceiling
  /\ Send(c)

\* sleepOrAbort has slept; the loop goes round.
Retry(c) ==
  /\ phase[c] = "asleep" /\ wake[c] <= now
  /\ Send(c)

\* Redis executes p's next command and its reply arrives.  A caller that has
\* given up takes no notice of the reply.
Eval(p) ==
  /\ wire[p] # <<>>
  /\ LET c == Head(wire[p]).call
         at == Head(wire[p]).at
         waiting == phase[c] = "eval"
     IN  /\ wire' = [wire EXCEPT ![p] = Tail(@)]
         /\ IF Admits(c, at)
              THEN /\ Charge(c, at)
                   /\ phase' = [phase EXCEPT ![c] = IF waiting THEN "admitted" ELSE @]
                   /\ admittedAt' = [admittedAt EXCEPT ![c] = IF waiting THEN now ELSE @]
                   /\ wake' = wake
              ELSE /\ phase' = [phase EXCEPT ![c] = IF waiting THEN "asleep" ELSE @]
                   /\ wake' = [wake EXCEPT ![c] = IF waiting THEN now + WaitFor(c, at) ELSE @]
                   /\ UNCHANGED <<bucket, charged, regress, admittedAt>>
  /\ UNCHANGED <<now, records, faults>>

\* The connection drops before the reply: the client sends the command again.
EvalResent(p) ==
  /\ wire[p] # <<>> /\ faults < MaxFaults
  /\ LET c == Head(wire[p]).call
         at == Head(wire[p]).at
     IN  Admits(c, at) /\ Charge(c, at)
  /\ faults' = faults + 1
  /\ UNCHANGED <<now, wire, phase, wake, records, admittedAt>>

\* The client gives a command up after its retries.
Lose(p) ==
  /\ wire[p] # <<>> /\ phase[Head(wire[p]).call] # "eval"
  /\ faults < MaxFaults
  /\ wire' = [wire EXCEPT ![p] = Tail(@)]
  /\ faults' = faults + 1
  /\ UNCHANGED <<now, bucket, phase, wake, records, admittedAt, charged, regress>>

-----------------------------------------------------------------------------
(* createWeightGovernor: the local backstop *)

Total(f, S) == MapThenSumSet(LAMBDA x : f[x], S)

\* usedNow
Sum(s) == Total([i \in DOMAIN s |-> s[i].cost], DOMAIN s)

\* Mutant of Pruned: the window forgets everything.
PruneAll(p) == <<>>

\* prune: records are shifted off while the first has left the rolling window.
Pruned(p) ==
  LET stale == {i \in DOMAIN records[p] :
                  \A j \in 1 .. i : records[p][j].ts <= now + Skew[p] - Window}
  IN  SubSeq(records[p], Cardinality(stale) + 1, Len(records[p]))

\* One round of the backstop's loop.
Backstop(c) ==
  LET p == PodOf[c]
      kept == Pruned(p)
  IN  IF Sum(kept) + Cost[c] <= AdmissionLimit(c) \/ kept = <<>>
        THEN /\ records' = [records EXCEPT ![p] =
                              Append(kept, [ts |-> now + Skew[p], cost |-> Cost[c]])]
             /\ phase' = [phase EXCEPT ![c] = "local"]
             /\ admittedAt' = [admittedAt EXCEPT ![c] = now]
             /\ wake' = wake
        ELSE /\ records' = [records EXCEPT ![p] = kept]
             /\ phase' = [phase EXCEPT ![c] = "parked"]
             /\ wake' = [wake EXCEPT ![c] =
                          Larger(now + 1, kept[1].ts - Skew[p] + Window)]
             /\ UNCHANGED admittedAt

\* withTimeout rejects: an order goes to the backstop, a bulk read throws.
TimedOut(c) ==
  /\ phase[c] = "eval"
  /\ IF c \in Orders
       THEN Backstop(c)
       ELSE /\ phase' = [phase EXCEPT ![c] = "skipped"]
            /\ UNCHANGED <<records, admittedAt, wake>>
  /\ UNCHANGED <<now, bucket, wire, charged, regress, faults>>

Unpark(c) ==
  /\ phase[c] = "parked" /\ wake[c] <= now
  /\ Backstop(c)
  /\ UNCHANGED <<now, bucket, wire, charged, regress, faults>>

\* The caller's signal fires while it sleeps.
Abort(c) ==
  /\ phase[c] \in {"asleep", "parked"}
  /\ faults < MaxFaults
  /\ phase' = [phase EXCEPT ![c] = "aborted"]
  /\ faults' = faults + 1
  /\ UNCHANGED <<now, bucket, wire, wake, records, admittedAt, charged, regress>>

\* Time passes when no deadline and no timer is due in this tick.
Tick ==
  /\ now < MaxTime
  /\ \A c \in Calls : /\ phase[c] # "eval"
                      /\ phase[c] \in {"asleep", "parked"} => wake[c] > now
  /\ \A p \in Pods : \A i \in 1 .. Len(wire[p]) : wire[p][i].at - Skew[p] + MaxLag > now
  /\ now' = now + 1
  /\ UNCHANGED <<bucket, wire, phase, wake, records, admittedAt, charged, regress, faults>>

Progress ==
  \/ Tick
  \/ \E c \in Calls : Retry(c) \/ TimedOut(c) \/ Unpark(c)
  \/ \E p \in Pods : Eval(p)

Next ==
  \/ Progress
  \/ \E c \in Calls : Reserve(c) \/ Abort(c)
  \/ \E p \in Pods : EvalResent(p) \/ Lose(p)

Spec == Init /\ [][Next]_vars

\* The runtime's timers fire, the clock runs and Redis answers or times out.
FairSpec == Spec /\ WF_vars(Progress)

-----------------------------------------------------------------------------
(* Properties *)

\* Type invariant.
TypeOK ==
  /\ now \in Nat
  /\ bucket \in [used : 0 .. Ceiling, ts : Nat, expires : Nat]
  /\ wire \in [Pods -> Seq([call : Calls, at : Nat])]
  /\ phase \in [Calls -> Phases]
  /\ wake \in [Calls -> Nat]
  /\ records \in [Pods -> Seq([ts : Nat, cost : Nat])]
  /\ admittedAt \in [Calls -> Nat \cup {Never}]
  /\ charged \in [{"order", "bulk", "wide"} -> Nat]
  /\ regress \in Nat
  /\ faults \in Nat

Charged == charged["order"] + charged["bulk"] + charged["wide"]

\* What the script has let through since the bucket was empty is at most one
\* full bucket plus the refill of the time elapsed, whatever is executed late,
\* twice or under a skewed clock; the one way to more is a caller whose clock
\* reading is behind the stored `ts`, which moves `ts` back and lets the same
\* interval decay the count again.
BucketBound == Charged <= Ceiling + Refill * (now + MaxSkew + regress)

\* One pod's readings reach the script in order, so `ts` never moves back.
OnePodNeverRegresses == (\A p, q \in Pods : p = q) => regress = 0

\* The band holds: an order is turned away by the bucket only when other
\* orders have filled the band or a bulk read wider than the rest took it.
OrdersAheadOfBulk ==
  \A c \in Orders : phase[c] = "asleep" =>
    charged["wide"] > 0 \/ charged["order"] + Cost[c] > OrderReserve

\* Weight let through in the ticks start .. start + Window - 1.
AdmittedFrom(start, S) ==
  Total(Cost,
    {c \in S : admittedAt[c] # Never /\ start <= admittedAt[c] /\ admittedAt[c] < start + Window})

\* A pod cut off from Redis lets at most one ceiling of orders through in any
\* window-long span.
BackstopHoldsCeiling ==
  \A p \in Pods : \A start \in 0 .. now :
    AdmittedFrom(start, {c \in Calls : PodOf[c] = p /\ phase[c] = "local"}) <= Ceiling

\* Every reservation ends: admitted, refused or aborted, never waiting on a
\* limit it cannot meet.
EveryReservationEnds == <>[](\A c \in Calls : phase[c] \in Settled \cup {"idle"})

\* "Block until at least `cost` weight is available within the rolling
\* 60-second window": what the governor lets through Redis in a window-long
\* span stays within the exchange's budget for one.
WindowWithinBudget ==
  \A start \in 0 .. now :
    AdmittedFrom(start, {c \in Calls : phase[c] = "admitted"}) <= Budget
=============================================================================
