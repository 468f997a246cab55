------------------------------ MODULE Override ------------------------------
(***************************************************************************)
(* The life of an operator override (force-buy, force-sell, manual order)  *)
(* of one (profile, symbol): the API arms it as a row plus a Redis key,    *)
(* cancels it or wipes the symbol; the worker's tick takes the key, claims *)
(* the row, dispatches the order and settles the row or re-arms the key;   *)
(* the dust-snapshot cron sweeps what is left behind.                      *)
(*                                                                         *)
(* Ticks of one symbol are serialised by ChainByKey, so there is one tick  *)
(* at a time.  A write of the tick path is bounded by a deadline that      *)
(* ABANDONS it: it either lands inside the step that issues it or joins    *)
(* `late', from where it may land at any later moment, or never.  A crash  *)
(* of the worker drops the tick and keeps what is on the wire.             *)
(***************************************************************************)
EXTENDS Integers, OverrideActions

CONSTANTS MaxArms,      \* bound on the overrides armed
          MaxRequests,  \* bound on the cancels, wipes and unbinds
          MaxTicks,     \* bound on the ticks that find a key
          MaxTime,      \* bound on the clock
          LastArm,      \* bound on the time at which an override is armed
          TTL,          \* MANUAL_OVERRIDE_TTL_SECONDS
          Window,       \* OVERRIDE_OUTCOME_WINDOW_MS
          Stale,        \* OVERRIDE_CLAIM_STALE_MS
          Slack         \* how long a tick, an arming request or an abandoned
                        \* write stays in flight at most

ASSUME BoundsAssumption ==
  /\ MaxArms \in Nat /\ MaxRequests \in Nat /\ MaxTicks \in Nat /\ MaxTime \in Nat /\ LastArm \in Nat
  /\ TTL \in Nat \ {0} /\ Window \in Nat /\ Stale \in Nat /\ Slack \in Nat

\* The two windows are far longer than anything stays in flight: five minutes
\* against deadlines of about 100 ms.  A re-arm's PX is measured when the claim is
\* released and starts to run when the SET lands, so each tick can push the key's
\* expiry by two Slacks: the rest of the tick, and the flight of the abandoned SET.
ASSUME WindowAssumption == TTL + 2 * MaxTicks * Slack <= Window /\ Slack <= Stale

Ids   == 1..MaxArms
Ticks == 1..MaxTicks
Times == 0..MaxTime

NoKey == [id |-> NoId, expires |-> 0]

IdleTick == [pc |-> "idle", id |-> NoId, deadline |-> 0, startedAt |-> 0, px |-> 0,
             claim |-> "none", attempted |-> FALSE, deterministic |-> FALSE, fate |-> "none"]

VARIABLES now,        \* the clock, in units of the key's lifetime or finer
          rows,       \* the override_actions rows
          key,        \* the Redis key override:<symbol>
          late,       \* abandoned writes that may still land
          arm,        \* arm[id]: where the request that arms id has got to
          seen,       \* seen[id]: the rows its open transaction's snapshot shows
          op,         \* the DELETE request in progress
          requests,   \* cancels, wipes and unbinds so far
          tick,       \* the tick holding the chain, with its override ticket
          ticks,      \* ticks so far; the current one stamps its claim with it
          stampAt,    \* stampAt[n]: the time in the stamp of claim n
          sweepAt,    \* the sweep's staleBefore between its two statements, or -1
          orders,     \* ghost: orders[id]: orders on the exchange for id
          told,       \* ghost: told[id]: the 204 a cancel has answered about id
          unstamped   \* ghost: the overrides dispatched before their breadcrumb landed

apiVars  == <<arm, seen>>
opVars   == <<op, requests, told>>
tickVars == <<tick, ticks, stampAt>>
vars == <<now, rows, key, late, apiVars, opVars, tickVars, sweepAt, orders, unstamped>>

Write(kind, id, stamp, px, outcome) ==
  [kind |-> kind, id |-> id, stamp |-> stamp, px |-> px, outcome |-> outcome, sentAt |-> now]

Init ==
  /\ now = 0
  /\ rows = [i \in Ids |-> NoRow]
  /\ key = NoKey
  /\ late = {}
  /\ arm = [i \in Ids |-> "new"]
  /\ seen = [i \in Ids |-> {}]
  /\ op = [pc |-> "idle", target |-> NoId]
  /\ requests = 0
  /\ tick = IdleTick
  /\ ticks = 0
  /\ stampAt = [n \in Ticks |-> 0]
  /\ sweepAt = -1
  /\ orders = [i \in Ids |-> 0]
  /\ told = [i \in Ids |-> "nothing"]
  /\ unstamped = {}

-----------------------------------------------------------------------------
(* The API arms an override: record(), then writeOverrideAndEnqueue(), with  *)
(* runOverrideOrRollbackDb() around it.                                      *)

\* The transaction starts: created_at and the snapshot are fixed.
ArmBegin(id) ==
  /\ arm[id] = "new"
  /\ \A j \in Ids : j < id => arm[j] # "new"
  /\ now <= LastArm
  /\ arm' = [arm EXCEPT ![id] = "begun"]
  /\ seen' = [seen EXCEPT ![id] = {j \in Ids : rows[j].status # "absent"}]
  /\ rows' = [rows EXCEPT ![id].createdAt = now]
  /\ UNCHANGED <<now, key, late, opVars, tickVars, sweepAt, orders, unstamped>>

ArmCommit(id) ==
  /\ arm[id] = "begun"
  /\ arm' = [arm EXCEPT ![id] = "recorded"]
  /\ rows' = Record(rows, id, seen[id])
  /\ seen' = [seen EXCEPT ![id] = {}]
  /\ UNCHANGED <<now, key, late, opVars, tickVars, sweepAt, orders, unstamped>>

\* SET with its TTL, blindly.  It may throw, before or after it has landed.
ArmSet(id) ==
  /\ arm[id] = "recorded"
  /\ \/ /\ arm' = [arm EXCEPT ![id] = "written"]
        /\ key' = [id |-> id, expires |-> now + TTL]
     \/ /\ arm' = [arm EXCEPT ![id] = "failing"]
        /\ key' \in {key, [id |-> id, expires |-> now + TTL]}
  /\ UNCHANGED <<now, rows, late, seen, opVars, tickVars, sweepAt, orders, unstamped>>

ArmEnqueue(id) ==
  /\ arm[id] = "written"
  /\ \E to \in {"over", "rollback"} : arm' = [arm EXCEPT ![id] = to]
  /\ UNCHANGED <<now, rows, key, late, seen, opVars, tickVars, sweepAt, orders, unstamped>>

\* The rollback's compare and its delete are two commands; a fault in either is
\* an OverrideRollbackError, which leaves the row pending.
RollbackGet(id) ==
  /\ arm[id] = "rollback"
  /\ \/ arm' = [arm EXCEPT ![id] = IF key.id = id THEN "rollbackDel" ELSE "failing"]
     \/ arm' = [arm EXCEPT ![id] = "over"]
  /\ UNCHANGED <<now, rows, key, late, seen, opVars, tickVars, sweepAt, orders, unstamped>>

RollbackDel(id) ==
  /\ arm[id] = "rollbackDel"
  /\ \/ /\ arm' = [arm EXCEPT ![id] = "failing"]
        /\ key' = NoKey
     \/ /\ arm' = [arm EXCEPT ![id] = "over"]
        /\ key' \in {key, NoKey}
  /\ UNCHANGED <<now, rows, late, seen, opVars, tickVars, sweepAt, orders, unstamped>>

\* runOverrideOrRollbackDb() settles the row of a failed request, best effort.
ArmSettle(id) ==
  /\ arm[id] = "failing"
  /\ arm' = [arm EXCEPT ![id] = "failed"]
  /\ rows' \in {rows, Settle(rows, id, "rejected")}
  /\ UNCHANGED <<now, key, late, seen, opVars, tickVars, sweepAt, orders, unstamped>>

Arming(id) == arm[id] \notin {"new", "failed", "over"}

\* The API process dies with the request in progress.
ArmDies(id) ==
  /\ Arming(id)
  /\ arm' = [arm EXCEPT ![id] = "over"]
  /\ UNCHANGED <<now, rows, key, late, seen, opVars, tickVars, sweepAt, orders, unstamped>>

-----------------------------------------------------------------------------
(* DELETE /override, the wipe of DELETE /symbols, and the worker's unbind.     *)

CancelFind ==
  /\ op.pc = "idle"
  /\ requests < MaxRequests
  /\ requests' = requests + 1
  /\ op' = [pc |-> "found", target |-> FindActiveForSymbol(rows)]
  /\ UNCHANGED <<now, rows, key, late, apiVars, tickVars, sweepAt, orders, told, unstamped>>

CancelDelete ==
  /\ op.pc = "found"
  /\ rows' = DeletePendingForSymbol(rows)
  /\ op' = [op EXCEPT !.pc = "deleted"]
  /\ UNCHANGED <<now, key, late, apiVars, requests, tickVars, sweepAt, orders, told, unstamped>>

ClaimAge(row) == IF row.claim = NoClaim THEN 0 ELSE now - stampAt[row.claim]

\* Mutant of CancelVerdict: any claim is taken for dead.
VerdictIgnoresAge(active) ==
  IF active = NoId THEN "evict"
  ELSE IF active = op.target \/ rows[active].claim # NoClaim THEN "evict" ELSE "leave"

\* What the read-back means: no active row evicts the key, and so does a claim past
\* the stale horizon, whose row is left alone; a live claim answers 409; a newer row
\* keeps its key.
CancelVerdict(active) ==
  IF active = NoId THEN "evict"
  ELSE IF active = op.target \/ rows[active].claim # NoClaim
       THEN IF ClaimAge(rows[active]) <= Stale THEN "conflict" ELSE "orphan"
       ELSE "leave"

\* Told of the override it was asked about, the operator stops watching it.
Answer204(how) ==
  told' = IF op.target = NoId THEN told ELSE [told EXCEPT ![op.target] = how]

CancelReadBack ==
  /\ op.pc = "deleted"
  /\ LET verdict == CancelVerdict(FindActiveForSymbol(rows)) IN
       /\ op' = IF verdict \in {"evict", "orphan"} THEN [op EXCEPT !.pc = verdict]
                ELSE [pc |-> "idle", target |-> NoId]
       /\ IF verdict = "leave" THEN Answer204("newer") ELSE UNCHANGED told
  /\ UNCHANGED <<now, rows, key, late, apiVars, requests, tickVars, sweepAt, orders, unstamped>>

CancelEvict ==
  /\ op.pc \in {"evict", "orphan"}
  /\ key' = NoKey
  /\ Answer204(op.pc)
  /\ op' = [pc |-> "idle", target |-> NoId]
  /\ UNCHANGED <<now, rows, late, apiVars, requests, tickVars, sweepAt, orders, unstamped>>

\* wipeSymbolRedis(), then profileSymbols.remove() in one transaction.
WipeRedis ==
  /\ op.pc = "idle"
  /\ requests < MaxRequests
  /\ requests' = requests + 1
  /\ key' = NoKey
  /\ op' = [op EXCEPT !.pc = "wiped"]
  /\ UNCHANGED <<now, rows, late, apiVars, tickVars, sweepAt, orders, told, unstamped>>

WipeRows ==
  /\ op.pc = "wiped"
  /\ rows' = DeletePendingForSymbol(rows)
  /\ op' = [op EXCEPT !.pc = "idle"]
  /\ UNCHANGED <<now, key, late, apiVars, requests, tickVars, sweepAt, orders, told, unstamped>>

\* removeUnpinnedIfFlat(), from the discovery cron or a tick's self-heal: the rows go
\* and the key stays, at any moment of a request or of a tick.
Unbind ==
  /\ requests < MaxRequests
  /\ requests' = requests + 1
  /\ rows' = DeletePendingForSymbol(rows)
  /\ UNCHANGED <<now, key, late, apiVars, op, tickVars, sweepAt, orders, told, unstamped>>

-----------------------------------------------------------------------------
(* Writes of the tick path.                                                  *)

\* The effect of a write on the table when it lands.
Landed(w) ==
  CASE w.kind = "claim"   -> ClaimAction(rows, w.id, w.stamp)
    [] w.kind = "release" -> ReleaseClaim(rows, w.id, w.stamp)
    [] w.kind = "pickup"  -> MarkPickedUp(rows, w.id)
    [] w.kind = "settle"  -> Settle(rows, w.id, w.outcome)
    [] OTHER              -> rows

\* SET ... PX NX: nothing when a key is there.
Rearmed(w) ==
  IF w.kind = "rearm" /\ key = NoKey THEN [id |-> w.id, expires |-> now + w.px] ELSE key

\* raceDeadline(): the write lands before the tick goes on, or is abandoned.
LandsNow(w)  == rows' = Landed(w) /\ UNCHANGED late
Abandoned(w) == late' = late \cup {w} /\ UNCHANGED rows

LateLands(w) ==
  /\ rows' = Landed(w)
  /\ key' = Rearmed(w)
  /\ late' = late \ {w}
  /\ UNCHANGED <<now, apiVars, opVars, tickVars, sweepAt, orders, unstamped>>

-----------------------------------------------------------------------------
(* The tick.                                                                 *)

\* The bundle pipeline GETs the key and its PTTL; a failed PTTL leaves no window
\* to restore.  A tick that finds no key, or an errored signal slot, changes
\* nothing here.
TickRead ==
  /\ tick.pc = "idle"
  /\ ticks < MaxTicks
  /\ key # NoKey
  /\ \E deadline \in {key.expires, 0} :
       tick' = [IdleTick EXCEPT !.pc = "read", !.id = key.id, !.startedAt = now,
                                !.deadline = deadline]
  /\ ticks' = ticks + 1
  /\ UNCHANGED <<now, rows, key, late, apiVars, opVars, stampAt, sweepAt, orders, unstamped>>

\* The separate DEL takes whatever the key holds by now.  Only when it succeeds is
\* the override projected, the ticket armed and the claim sent.
TickConsume ==
  /\ tick.pc = "read"
  /\ \/ /\ key' = NoKey
        /\ tick' = [tick EXCEPT !.pc = "body", !.claim = "sent"]
        /\ stampAt' = [stampAt EXCEPT ![ticks] = now]
     \/ /\ key' \in {key, NoKey}
        /\ tick' = IdleTick
        /\ UNCHANGED stampAt
  /\ UNCHANGED <<now, rows, late, apiVars, opVars, ticks, sweepAt, orders, unstamped>>

ClaimWrite == Write("claim", tick.id, ticks, 0, "none")

\* startClaim() runs beside the tick body: its CAS reply is won or lost, and a
\* rejection (landed or not) is unresolved.
ClaimReplies ==
  /\ tick.claim = "sent"
  /\ \/ /\ rows' = Landed(ClaimWrite)
        /\ \E verdict \in {IF Claimable(rows[tick.id]) THEN "won" ELSE "lost", "unresolved"} :
             tick' = [tick EXCEPT !.claim = verdict]
     \/ /\ tick' = [tick EXCEPT !.claim = "unresolved"]
        /\ UNCHANGED rows
  /\ UNCHANGED <<now, key, late, apiVars, opVars, ticks, stampAt, sweepAt, orders, unstamped>>

\* verdict(): the deadline runs where the answer is waited for.
ClaimTimesOut ==
  /\ tick.claim = "sent"
  /\ tick.pc \in {"gate", "compensate"}
  /\ tick' = [tick EXCEPT !.claim = "unresolved"]
  /\ Abandoned(ClaimWrite)
  /\ UNCHANGED <<now, key, apiVars, opVars, ticks, stampAt, sweepAt, orders, unstamped>>

\* What the strategy and the breakers leave of the override: its order, some other
\* order, none (the strategy emitted none, or an entry halt suppressed it), or one
\* put off (deferred by the strategy, withheld by the refusal circuit).
Plans == {"ours", "other", "none", "retriable"}

Abort(t) == [t EXCEPT !.pc = "compensate", !.fate = "aborted"]

\* From the armed ticket to the gate: the body throws or skips, the strategy
\* throws, or a plan comes out.
TickBody ==
  /\ tick.pc = "body"
  /\ \/ \E plan \in Plans : tick' = [tick EXCEPT !.pc = "gate", !.fate = plan]
     \/ \E deterministic \in BOOLEAN :
          tick' = [Abort(tick) EXCEPT !.deterministic = deterministic]
  /\ UNCHANGED <<now, rows, key, late, apiVars, opVars, ticks, stampAt, sweepAt, orders,
                 unstamped>>

Placement(t) == t.fate \in {"ours", "other"}

\* whenClaimed(), markOrderAttempted() and whenPickedUpStamped(): a claim that is
\* not won stands the whole tick down; any placement stamps the breadcrumb first.
TickGate ==
  /\ tick.pc = "gate"
  /\ tick.claim # "sent"
  /\ IF tick.claim # "won"
     THEN tick' = Abort(tick) /\ UNCHANGED <<rows, late, unstamped>>
     ELSE IF Placement(tick)
     THEN /\ tick' = [tick EXCEPT !.pc = "apply", !.attempted = TRUE]
          /\ LET w == Write("pickup", tick.id, NoClaim, 0, "none") IN
               \/ LandsNow(w) /\ UNCHANGED unstamped
               \/ Abandoned(w) /\ unstamped' = unstamped \cup {tick.id}
     ELSE tick' = [tick EXCEPT !.pc = "apply"] /\ UNCHANGED <<rows, late, unstamped>>
  /\ UNCHANGED <<now, key, apiVars, opVars, ticks, stampAt, sweepAt, orders>>

\* How the override's order ends, and whether it is on the exchange: ok, accepted
\* with a failed local write, ambiguous either way, or provably not executed.
OrderResults ==
  {<<"placed", 1>>, <<"accepted", 1>>, <<"ambiguous", 0>>, <<"ambiguous", 1>>,
   <<"retriable", 0>>, <<"refused", 0>>, <<"aborted", 0>>, <<"aborted", 1>>}

Finished(t, fate) == IF fate = "aborted" THEN Abort(t) ELSE [t EXCEPT !.pc = "settle", !.fate = fate]

\* applyAll(), the commit and the audit; "aborted" is a throw anywhere among them.
TickApply ==
  /\ tick.pc = "apply"
  /\ IF tick.fate = "ours"
     THEN \E r \in OrderResults :
            /\ tick' = Finished(tick, r[1])
            /\ orders' = [orders EXCEPT ![tick.id] = @ + r[2]]
     ELSE /\ \E fate \in {IF tick.fate = "other" THEN "none" ELSE tick.fate, "aborted"} :
               tick' = Finished(tick, fate)
          /\ UNCHANGED orders
  /\ UNCHANGED <<now, rows, key, late, apiVars, opVars, ticks, stampAt, sweepAt, unstamped>>

\* compensate(): join the claim; unless an order was attempted, go on only if the
\* row is still the live one, and stand down when the read says otherwise or fails.
TickCompensate ==
  /\ tick.pc = "compensate"
  /\ tick.claim # "sent"
  /\ \/ /\ tick.attempted \/ FindActiveForSymbol(rows) = tick.id
        /\ tick' = [tick EXCEPT !.pc = "settle"]
     \/ /\ ~tick.attempted
        /\ tick' = IdleTick
  /\ UNCHANGED <<now, rows, key, late, apiVars, opVars, ticks, stampAt, sweepAt, orders,
                 unstamped>>

-----------------------------------------------------------------------------
(* settleOverride().                                                         *)

\* Nothing executed, and a retry is neither dangerous nor futile.
Undispatched(t) ==
  t.fate = "aborted" /\ ~t.attempted /\ ~t.deterministic /\ t.claim # "unresolved"

\* Mutants of CanRearm: an ambiguous order is retried; the window is not checked.
RearmAmbiguous(t) ==
  /\ t.fate \in {"retriable", "ambiguous"} \/ Undispatched(t)
  /\ t.deadline > now
RearmPastWindow(t) ==
  t.fate = "retriable" \/ Undispatched(t)

CanRearm(t) ==
  /\ t.fate = "retriable" \/ Undispatched(t)
  /\ t.deadline > now

OutcomeOf(t) ==
  CASE t.fate \in {"placed", "accepted"}        -> "applied"
    [] t.fate = "ambiguous"                     -> "unknown"
    [] t.fate = "aborted" /\ t.attempted        -> "unknown"
    [] t.fate = "aborted" /\ Undispatched(t)    -> "expired"
    [] OTHER                                    -> "rejected"

SettleWrite(t, outcome) == Write("settle", t.id, NoClaim, 0, outcome)

\* The claim comes off before the key goes back.
TickRelease ==
  /\ tick.pc = "settle"
  /\ CanRearm(tick)
  /\ LET w == Write("release", tick.id, ticks, 0, "none") IN LandsNow(w) \/ Abandoned(w)
  /\ tick' = [tick EXCEPT !.pc = "rearm", !.px = tick.deadline - now]
  /\ UNCHANGED <<now, key, apiVars, opVars, ticks, stampAt, sweepAt, orders, unstamped>>

\* SET PX NX, bounded by a deadline that rejects: refused means superseded, a lost
\* reply or a timeout leaves the row as it is.
TickRearm ==
  /\ tick.pc = "rearm"
  /\ LET w == Write("rearm", tick.id, NoClaim, tick.px, "none") IN
       \/ /\ key' = Rearmed(w)
          /\ \/ tick' = IdleTick
             \/ key # NoKey /\ tick' = [tick EXCEPT !.pc = "superseded"]
          /\ UNCHANGED late
       \/ /\ late' = late \cup {w}
          /\ tick' = IdleTick
          /\ UNCHANGED key
  /\ UNCHANGED <<now, rows, apiVars, opVars, ticks, stampAt, sweepAt, orders, unstamped>>

\* The terminal write, after which the tick is over.
TickSettle ==
  /\ \/ tick.pc = "settle" /\ ~CanRearm(tick)
     \/ tick.pc = "superseded"
  /\ LET outcome == IF tick.pc = "superseded" THEN "superseded" ELSE OutcomeOf(tick)
         w == SettleWrite(tick, outcome)
     IN LandsNow(w) \/ Abandoned(w)
  /\ tick' = IdleTick
  /\ UNCHANGED <<now, key, apiVars, opVars, ticks, stampAt, sweepAt, orders, unstamped>>

\* The worker process dies; a claim still on the wire may land afterwards.
TickCrash ==
  /\ tick.pc # "idle"
  /\ tick' = IdleTick
  /\ late' = IF tick.claim = "sent" THEN late \cup {ClaimWrite} ELSE late
  /\ UNCHANGED <<now, rows, key, apiVars, opVars, ticks, stampAt, sweepAt, orders, unstamped>>

-----------------------------------------------------------------------------
(* The dust-snapshot cron, and time.                                         *)

Stranded(at) == {i \in Ids : Active(rows[i]) /\ rows[i].createdAt + Window < at}

\* reapExpiredForAccount(): two statements with one staleBefore.
SweepPicked ==
  /\ sweepAt = -1
  /\ Stranded(now) # {}
  /\ rows' = ReapPicked(rows, Stranded(now))
  /\ sweepAt' = now
  /\ UNCHANGED <<now, key, late, apiVars, opVars, tickVars, orders, unstamped>>

SweepUnpicked ==
  /\ sweepAt # -1
  /\ rows' = ReapUnpicked(rows, Stranded(sweepAt))
  /\ sweepAt' = -1
  /\ UNCHANGED <<now, key, late, apiVars, opVars, tickVars, orders, unstamped>>

\* Mutant of StaleStamps: a claim is stale from the threshold on, not past it.
StaleAtThreshold == {n \in 1..ticks : stampAt[n] + Stale <= now}

\* Claims older than OVERRIDE_CLAIM_STALE_MS.
StaleStamps == {n \in 1..ticks : stampAt[n] + Stale < now}

\* Above the cron's credential and live-only gates, for every active profile.
ReapStale ==
  /\ \E i \in Ids : Active(rows[i]) /\ rows[i].claim \in StaleStamps
  /\ rows' = ReapStaleProcessing(rows, StaleStamps)
  /\ UNCHANGED <<now, key, late, apiVars, opVars, tickVars, sweepAt, orders, unstamped>>

\* Time passes: the key expires, and nothing stays in flight past Slack.
Clock ==
  /\ now < MaxTime
  /\ tick.pc # "idle" => now < tick.startedAt + Slack
  /\ \A i \in Ids : Arming(i) => now < rows[i].createdAt + Slack
  /\ now' = now + 1
  /\ key' = IF key.expires <= now + 1 THEN NoKey ELSE key
  /\ late' = {w \in late : now < w.sentAt + Slack}
  /\ UNCHANGED <<rows, apiVars, opVars, tickVars, sweepAt, orders, unstamped>>

-----------------------------------------------------------------------------
Arm(id) ==
  \/ ArmBegin(id) \/ ArmCommit(id) \/ ArmSet(id) \/ ArmEnqueue(id)
  \/ RollbackGet(id) \/ RollbackDel(id) \/ ArmSettle(id) \/ ArmDies(id)

Delete ==
  \/ CancelFind \/ CancelDelete \/ CancelReadBack \/ CancelEvict
  \/ WipeRedis \/ WipeRows \/ Unbind

TickStep ==
  \/ TickConsume \/ ClaimReplies \/ ClaimTimesOut \/ TickBody \/ TickGate \/ TickApply
  \/ TickCompensate \/ TickRelease \/ TickRearm \/ TickSettle \/ TickCrash

Cron == SweepPicked \/ SweepUnpicked \/ ReapStale

Next ==
  \/ \E id \in Ids : Arm(id)
  \/ Delete
  \/ TickRead
  \/ TickStep
  \/ \E w \in late : LateLands(w)
  \/ Cron
  \/ Clock

Spec == Init /\ [][Next]_vars

\* The cron is rescheduled every five minutes, a tick runs to its end or crashes, a
\* request ends or dies, and time passes.  Nobody is obliged to arm, to cancel or to
\* tick, and an abandoned write need not land.
Fairness ==
  /\ WF_vars(Clock)
  /\ WF_vars(SweepPicked)
  /\ WF_vars(SweepUnpicked)
  /\ WF_vars(TickStep)
  /\ \A id \in Ids : WF_vars(Arming(id) /\ Arm(id))

FairSpec == Spec /\ Fairness

-----------------------------------------------------------------------------
RowType == [status : Statuses, claim : {NoClaim} \cup Ticks, pickedUp : BOOLEAN, createdAt : Times]

ArmStates == {"new", "begun", "recorded", "written", "rollback", "rollbackDel", "failing", "failed",
              "over"}

TickType ==
  [pc : {"idle", "read", "body", "gate", "apply", "compensate", "settle", "rearm", "superseded"},
   id : {NoId} \cup Ids, deadline : Nat, startedAt : Times, px : Nat,
   claim : {"none", "sent", "won", "lost", "unresolved"},
   attempted : BOOLEAN, deterministic : BOOLEAN,
   fate : Plans \cup {"placed", "accepted", "ambiguous", "refused", "aborted"}]

WriteType ==
  [kind : {"claim", "release", "pickup", "settle", "rearm"}, id : Ids,
   stamp : {NoClaim} \cup Ticks, px : Nat, outcome : Outcomes \cup {"none"}, sentAt : Times]

TypeOK ==
  /\ now \in Times
  /\ rows \in [Ids -> RowType]
  /\ key \in {NoKey} \cup [id : Ids, expires : Nat]
  /\ late \subseteq WriteType
  /\ arm \in [Ids -> ArmStates]
  /\ seen \in [Ids -> SUBSET Ids]
  /\ op \in [pc : {"idle", "found", "deleted", "evict", "orphan", "wiped"}, target : {NoId} \cup Ids]
  /\ requests \in 0..MaxRequests
  /\ tick \in TickType
  /\ ticks \in 0..MaxTicks
  /\ stampAt \in [Ticks -> Times]
  /\ sweepAt \in {-1} \cup Times
  /\ orders \in [Ids -> Nat]
  /\ told \in [Ids -> {"nothing", "newer", "evict", "orphan"}]
  /\ unstamped \subseteq Ids

\* One press of the button puts at most one order on the exchange, whatever is
\* retried, re-armed, abandoned or crashes (override-ticket.ts: "at-most-once has
\* to hold structurally").
AtMostOneOrder == \A id \in Ids : orders[id] <= 1

\* From the gate until the executor is done with the order, the row is still there
\* and, unless something has settled it, still under this tick's own claim: no late
\* release, no reaper and no cancel can take the guard off a dispatch in flight.
ClaimHeldThroughDispatch ==
  tick.pc = "apply" =>
    /\ rows[tick.id].status # "deleted"
    /\ Active(rows[tick.id]) => rows[tick.id].claim = ticks

\* A settled row's outcome is never rewritten, and a row never comes back.
SettledIsFinal ==
  [][\A id \in Ids : rows[id].status \in Outcomes \cup {"deleted"}
                       => rows'[id].status = rows[id].status]_vars

\* After a cancel has found the override gone, evicted its key and answered 204, no
\* order for it reaches the exchange: a tick that holds its key cannot claim it any
\* more, and one that had claimed it is seen.  Excepted are the 204 that leaves a row
\* under a stale claim in place (a second tick that has read the key wins the row as
\* soon as the reaper clears that claim) and a row that its own failed request
\* settled under a running dispatch; see RejectedMeansNotExecuted.
CancelledStaysCancelled ==
  [][\A id \in Ids : told[id] = "evict" /\ arm[id] # "failed" => orders'[id] = orders[id]]_vars

\* What the row says is what happened: `applied' has an order on the exchange;
\* `rejected', `superseded' and `expired' have none.  Excepted are a breadcrumb that
\* missed its deadline, the hole stampPickedUp's comment owns up to, and the rows
\* the API settled itself.
OutcomeHonest ==
  \A id \in Ids :
    /\ rows[id].status = "applied" => orders[id] = 1
    /\ rows[id].status = "rejected" /\ arm[id] # "failed" => orders[id] = 0
    /\ rows[id].status \in {"superseded", "expired"} /\ id \notin unstamped => orders[id] = 0

\* Every armed override gets an answer, or is deleted: no row stays pending.
EveryRowSettles == \A id \in Ids : Active(rows[id]) ~> ~Active(rows[id])

\* contracts/override.ts, of the status `rejected': "nothing executed and nothing
\* will".
RejectedMeansNotExecuted ==
  \A id \in Ids : rows[id].status = "rejected" => orders[id] = 0

\* override.ts: a 204 "while the trade is going through [...] is the one answer they
\* cannot recover from", so none is given before the order goes out.
No204BeforeTheOrder ==
  [][\A id \in Ids : told[id] = "newer" => orders'[id] = orders[id]]_vars
=============================================================================
