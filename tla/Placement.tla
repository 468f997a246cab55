------------------------------ MODULE Placement ------------------------------
(***************************************************************************)
(* One symbol's MARKET entry and exit, from the decision to the commit of   *)
(* the strategy's slice: placeOrderHandler and resolveAmbiguousPlacement    *)
(* (executor/decisions/place-order.ts), the duplicate guard with its Map    *)
(* and its Redis mirror (executor/placement-dedup.ts), the signing and the  *)
(* -1021 re-issue of the REST client (packages/binance/src/binance-rest.ts) *)
(* and the tick's commit rule (tick/tick-handler.ts).  Ticks of a symbol    *)
(* are serial (ChainByKey).  A strategy that believes itself flat may emit  *)
(* the BUY, one that believes itself in the SELL; the clientOrderId of each *)
(* is stable.  A pre-flight refusal changes nothing and is a stutter.       *)
(***************************************************************************)
EXTENDS Integers, Sequences

CONSTANTS Window,      \* PLACEMENT_DEDUP_WINDOW_MS
          Recv,        \* DEFAULT_RECV_WINDOW_MS
          Margin,      \* CLOCK_SKEW_MARGIN_MS
          MaxTime, MaxOrders, MaxFaults,
          MaxResigns   \* how often Binance answers -1021

ASSUME PlacementAssumption ==
  /\ Window \in Nat \ {0} /\ Recv \in Nat /\ Margin \in Nat \ {0}
  /\ MaxTime \in Nat /\ MaxOrders \in Nat /\ MaxFaults \in Nat /\ MaxResigns \in Nat

VARIABLES
  now,
  lag,      \* how far Binance's clock is behind the client's estimate, less than the margin
  slice,    \* what the strategy's committed state believes: "flat" or "in"
  tick,     \* the running placement
  log,      \* every attempt: its side and verdict, whether its timing was stamped, and
            \* whether no earlier request could still land when it began
  wire,     \* signed requests Binance has not answered: [n, signed]
  book,     \* orders Binance has accepted, filled at once: [n, time]
  holding,  \* whether the wallet holds the coin
  seen,     \* the process's Map: side -> when recorded, or Never
  mirror,   \* the Redis set of the symbol and its expiry
  late,     \* mirror writes abandoned at their deadline, still queued
  converge, \* a reconcile job is queued
  faults, resigns,
  gap       \* a process died between an order's signing and its record

vars == <<now, lag, slice, tick, log, wire, book, holding, seen, mirror, late, converge,
          faults, resigns, gap>>

exchange == <<lag, wire, book, holding>>
dedup    == <<seen, mirror, late>>
budget   == <<faults, resigns, gap>>

Sides   == {"BUY", "SELL"}
Never   == -1
Orders  == 1..MaxOrders
Idle    == [pc |-> "idle", called |-> 0, signed |-> Never]
Done    == [Idle EXCEPT !.pc = "commit"]
NoSet   == [members |-> {}, expires |-> 0]

Current == Len(log)
Side    == log[Current].side
At(pc)  == tick.pc = pc

Init ==
  /\ now = 0 /\ lag \in 0..Margin - 1 /\ slice = "flat" /\ tick = Idle /\ log = <<>>
  /\ wire = {} /\ book = {} /\ holding = FALSE
  /\ seen = [s \in Sides |-> Never] /\ mirror = NoSet /\ late = <<>> /\ converge = FALSE
  /\ faults = 0 /\ resigns = 0 /\ gap = FALSE

Fault == faults < MaxFaults /\ faults' = faults + 1

-----------------------------------------------------------------------------
(* The duplicate guard.                                                     *)

\* What MULTI SADD PEXPIRE EXEC, or DEL, leaves when Redis runs it.
Applied(cmd) ==
  IF cmd = "del" THEN NoSet
  ELSE [members |-> {cmd} \cup IF now < mirror.expires THEN mirror.members ELSE {},
        expires |-> now + Window]

\* A write through raceDeadline: it lands, is abandoned and lands later, or fails.
\* Commands of one connection run in order, so it waits for the late ones.
Write(cmd) ==
  \/ late = <<>> /\ mirror' = Applied(cmd) /\ UNCHANGED <<late, faults>>
  \/ Fault /\ late' = Append(late, cmd) /\ UNCHANGED mirror
  \/ Fault /\ UNCHANGED <<late, mirror>>

\* Mutant: the whole Map is kept.
ForgetMirrorOnly ==
  /\ Write("del")
  /\ UNCHANGED seen

\* forgetSymbol
forgetSymbol ==
  /\ seen' = [s \in Sides |-> Never]
  /\ Write("del")

\* Mutant: the Map holds the expiry where its readers want the instant.
RecordExpiry ==
  /\ seen' = [seen EXCEPT ![Side] = now + Window]
  /\ Write(Side)

\* Mutant: the record is kept in the process alone.
RecordMapOnly ==
  /\ seen' = [seen EXCEPT ![Side] = now]
  /\ UNCHANGED <<mirror, late, faults>>

\* record: Map first, then the mirror; a failed write is swallowed.
record ==
  /\ seen' = [seen EXCEPT ![Side] = now]
  /\ Write(Side)

MapHit == seen[Side] # Never /\ now - seen[Side] < Window

\* seenRecently: the Map, then the mirror; a lookup that fails or stalls reads as unseen.
seenRecently(answer) ==
  \/ MapHit /\ answer = TRUE /\ UNCHANGED faults
  \/ /\ ~MapHit /\ late = <<>> /\ UNCHANGED faults
     /\ answer = (Side \in mirror.members /\ now < mirror.expires)
  \/ ~MapHit /\ Fault /\ answer = FALSE

\* An abandoned write reaches Redis after all.
LandLate ==
  /\ late # <<>>
  /\ mirror' = Applied(Head(late))
  /\ late' = Tail(late)
  /\ UNCHANGED <<now, slice, tick, log, seen, converge, exchange, budget>>

-----------------------------------------------------------------------------
(* The handler.                                                             *)

\* Binance admits a signed request inside its receive window.
Landable(r) == now - lag - r.signed <= Recv

\* A tick emits its order, and the pre-flights let it through.  It is later than the
\* orders on the book: their instants are milliseconds, an answer and a tick apart.
Emit(side) ==
  /\ At("idle") /\ Current < MaxOrders /\ \A o \in book : o.time < now
  /\ side = IF slice = "flat" THEN "BUY" ELSE "SELL"
  /\ log' = Append(log, [side |-> side, verdict |-> "none", stamped |-> TRUE,
                         alone |-> \A r \in wire : ~Landable(r)])
  /\ tick' = [tick EXCEPT !.pc = "dedup"]
  /\ UNCHANGED <<now, slice, converge, exchange, dedup, budget>>

Verdict(v) == log' = [log EXCEPT ![Current].verdict = v]

\* A SELL forgets the symbol's records.
Forget ==
  /\ At("dedup") /\ Side = "SELL"
  /\ forgetSymbol
  /\ tick' = [tick EXCEPT !.pc = "call", !.called = now]
  /\ UNCHANGED <<now, slice, log, converge, exchange, resigns, gap>>

\* A BUY seen within the window is suppressed and reported ok; another goes out.
Check ==
  /\ At("dedup") /\ Side = "BUY"
  /\ \E hit \in BOOLEAN :
       /\ seenRecently(hit)
       /\ tick' = IF hit THEN Done ELSE [tick EXCEPT !.pc = "call", !.called = now]
       /\ IF hit THEN Verdict("suppressed") ELSE UNCHANGED log
  /\ UNCHANGED <<now, slice, converge, exchange, dedup, resigns, gap>>

\* The order budget refuses, before anything is signed.
Shed ==
  /\ At("call")
  /\ Verdict("pre-call")
  /\ tick' = Done
  /\ UNCHANGED <<now, slice, converge, exchange, dedup, budget>>

\* The governors have admitted the call; it is signed and sent.
Sign ==
  /\ At("call")
  /\ wire' = wire \cup {[n |-> Current, signed |-> now]}
  /\ tick' = [tick EXCEPT !.pc = "wire", !.signed = now]
  /\ UNCHANGED <<now, lag, slice, log, book, holding, converge, dedup, budget>>

Mine == {r \in wire : r.n = Current}
Landed == \E o \in book : o.n = Current

\* -1021: Binance refuses the timestamp, the client re-measures its clock and issues
\* the request again from the catch block.  What that second issue throws does not
\* pass the statement that stamps the signing instant.
Resign ==
  /\ At("wire") /\ Mine # {} /\ resigns < MaxResigns
  /\ resigns' = resigns + 1
  /\ wire' = (wire \ Mine) \cup {[n |-> Current, signed |-> now]}
  /\ tick' = [tick EXCEPT !.signed = now]
  /\ log' = [log EXCEPT ![Current].stamped = FALSE]
  /\ UNCHANGED <<now, lag, slice, book, holding, converge, dedup, faults, gap>>

\* The answer arrives: the order is on the exchange.
Answer ==
  /\ At("wire") /\ Landed
  /\ Verdict("ok")
  /\ tick' = [tick EXCEPT !.pc = "record"]
  /\ UNCHANGED <<now, slice, converge, exchange, dedup, budget>>

\* A coded refusal.  A SELL refused for want of the coin queues a reconcile.
Refuse ==
  /\ At("wire") /\ Mine # {}
  /\ wire' = wire \ Mine
  /\ Verdict("rejected")
  /\ converge' = (converge \/ (Side = "SELL" /\ ~holding))
  /\ tick' = Done
  /\ UNCHANGED <<now, lag, slice, book, holding, dedup, budget>>

\* A 5xx: an error with Binance's status but no word on the order.  It is not probed.
ServerError ==
  /\ At("wire") /\ Fault
  /\ Verdict("ambiguous")
  /\ tick' = Done
  /\ UNCHANGED <<now, slice, converge, exchange, dedup, resigns, gap>>

\* The transport throws, or an abort ends the wait for admission before the signature.
Throw ==
  /\ At("wire") \/ At("call")
  /\ Fault
  /\ tick' = [tick EXCEPT !.pc = "probe"]
  /\ UNCHANGED <<now, slice, log, converge, exchange, dedup, resigns, gap>>

\* Where the placement's window is counted from.
Anchor == IF tick.signed # Never /\ log[Current].stamped THEN tick.signed ELSE tick.called

\* The orders Binance may answer a lookup by this clientOrderId with: the newest.
Namesakes == {o \in book : log[o.n].side = Side}
Newest    == {o \in Namesakes : \A other \in Namesakes : other.time <= o.time}

\* Mutant: any order under the id is taken for this one.
AnyNamesake(o) == TRUE

\* A found order is this attempt's only if it is no older than the signature.
Own(o) == o.time >= Anchor

\* Mutant: absent is believed at once.
BelieveAtOnce == FALSE

\* An absent order may still be admitted.
Admissible == now < Anchor + Recv + Margin

\* What a lookup says, and what the handler makes of it: an unreadable answer and an
\* older namesake leave the attempt ambiguous, an absent order is waited for once.
Concluded(believe) ==
  \/ /\ Fault
     /\ Verdict("ambiguous")
     /\ tick' = Done
  \/ /\ Namesakes = {} /\ believe
     /\ Verdict("rejected")
     /\ tick' = Done
     /\ UNCHANGED faults
  \/ \E o \in Newest :
       /\ Verdict(IF Own(o) THEN "accepted" ELSE "ambiguous")
       /\ tick' = IF Own(o) THEN [tick EXCEPT !.pc = "record"] ELSE Done
       /\ UNCHANGED faults

Probe ==
  /\ At("probe")
  /\ \/ Concluded(~Admissible)
     \/ /\ Namesakes = {} /\ Admissible
        /\ tick' = [tick EXCEPT !.pc = "sleep"]
        /\ UNCHANGED <<log, faults>>
  /\ UNCHANGED <<now, slice, converge, exchange, dedup, resigns, gap>>

Reprobe ==
  /\ At("sleep") /\ ~Admissible
  /\ Concluded(TRUE)
  /\ UNCHANGED <<now, slice, converge, exchange, dedup, resigns, gap>>

\* recordPlacedOrder, and the tail of resolveAmbiguousPlacement: the id is recorded
\* first; the row and the notices after it do not change the verdict.
Record ==
  /\ At("record")
  /\ record
  /\ tick' = Done
  /\ UNCHANGED <<now, slice, log, converge, exchange, resigns, gap>>

\* An order that provably did not execute leaves the slice as it was.
Commits(verdict) == verdict \notin {"pre-call", "rejected"}

\* The commit; a degraded one may be lost.
Commit ==
  /\ At("commit")
  /\ \/ /\ slice' = IF Commits(log[Current].verdict)
                    THEN IF Side = "BUY" THEN "in" ELSE "flat"
                    ELSE slice
        /\ UNCHANGED faults
     \/ Fault /\ UNCHANGED slice
  /\ tick' = Idle
  /\ UNCHANGED <<now, log, converge, exchange, dedup, resigns, gap>>

-----------------------------------------------------------------------------
(* Everyone else.                                                           *)

\* Binance admits a request; a MARKET order fills at once.
Land ==
  \E r \in wire :
    /\ Landable(r)
    /\ log[r.n].side = "SELL" => holding
    /\ wire' = wire \ {r}
    /\ book' = book \cup {[n |-> r.n, time |-> now - lag]}
    /\ holding' = (log[r.n].side = "BUY")
    /\ UNCHANGED <<now, lag, slice, tick, log, converge, dedup, budget>>

\* The fill adopter, and the reconcile job, bring the slice to the wallet.
Adopted ==
  /\ At("idle") /\ holding /\ slice' = "in"
  /\ UNCHANGED <<now, tick, log, converge, exchange, dedup, budget>>

Reconciled ==
  /\ At("idle") /\ converge
  /\ converge' = FALSE
  /\ slice' = IF holding THEN slice ELSE "flat"
  /\ UNCHANGED <<now, tick, log, exchange, dedup, budget>>

\* The process dies; the next one has an empty Map and the job is tried again.
Crash ==
  /\ Fault
  /\ gap' = (gap \/ tick.pc \in {"wire", "probe", "sleep", "record"})
  /\ tick' = Idle
  /\ seen' = [s \in Sides |-> Never]
  /\ late' \in {late, <<>>}
  /\ UNCHANGED <<now, slice, log, converge, mirror, exchange, resigns>>

Clock ==
  /\ now < MaxTime /\ now' = now + 1
  /\ UNCHANGED <<slice, tick, log, converge, exchange, dedup, budget>>

Next ==
  \/ \E side \in Sides : Emit(side)
  \/ Forget \/ Check \/ Shed \/ Sign \/ Resign \/ Answer \/ Refuse \/ ServerError
  \/ Throw \/ Probe \/ Reprobe \/ Record \/ Commit
  \/ LandLate \/ Land \/ Adopted \/ Reconciled \/ Crash \/ Clock

Spec == Init /\ [][Next]_vars

-----------------------------------------------------------------------------
Pcs == {"idle", "dedup", "call", "wire", "probe", "sleep", "record", "commit"}
Verdicts == {"none", "suppressed", "pre-call", "ok", "accepted", "rejected", "ambiguous"}
Times == 0..MaxTime

\* Types; an order lands once, and nothing is both waiting and landed.
TypeOK ==
  /\ now \in Times /\ lag \in 0..Margin - 1 /\ slice \in {"flat", "in"}
  /\ tick \in [pc : Pcs, called : Times, signed : Times \cup {Never}]
  /\ log \in Seq([side : Sides, verdict : Verdicts, stamped : BOOLEAN, alone : BOOLEAN])
  /\ Current <= MaxOrders
  /\ wire \subseteq [n : Orders, signed : Times]
  /\ book \subseteq [n : Orders, time : -Margin..MaxTime]
  /\ holding \in BOOLEAN /\ converge \in BOOLEAN /\ gap \in BOOLEAN
  /\ seen \in [Sides -> Times \cup {Never}]
  /\ mirror.members \subseteq Sides /\ mirror.expires \in 0..MaxTime + Window
  /\ late \in Seq(Sides \cup {"del"})
  /\ faults \in 0..MaxFaults /\ resigns \in 0..MaxResigns
  /\ {r.n : r \in wire} \cap {o.n : o \in book} = {}

InBook(n) == \E o \in book : o.n = n

\* An attempt the handler declares rejected, by Binance's word or because a probe past
\* the receive window did not find it, never lands afterwards: the next tick re-issues it,
\* and a MARKET order that lands twice fills twice (resolveAmbiguousPlacement).  Stated for
\* the attempts whose signing instant the client put on the error.
RejectedNeverLands ==
  \A n \in 1..Current : log[n].verdict = "rejected" /\ log[n].stamped => ~InBook(n)

\* What binance-rest.ts says of every attempt: `When a retry re-signed, the LAST signing
\* instant is the one that counts, and it is the one recorded', so that an order declared
\* rejected never lands, re-signed or not.
AbsentIsConclusive ==
  \A n \in 1..Current : log[n].verdict = "rejected" => ~InBook(n)

\* A placement reported accepted is on the exchange, and it is this one, not an older
\* order under the same clientOrderId: `accepted' tells the tick never to send it again.
\* Excepted is an attempt that began while an earlier one could still land.
AcceptedIsThisOrder ==
  \A n \in 1..Current :
    log[n].verdict \in {"ok", "accepted"} /\ log[n].alone => InBook(n)

\* Two entries filled with no exit between them.
Doubled(a, b) ==
  /\ log[a.n].side = "BUY" /\ log[b.n].side = "BUY" /\ a.n < b.n
  /\ \A n \in a.n..b.n : log[n].side = "BUY"

\* No single fault fills an entry twice: not a lost answer, a 5xx, a -1021, a lost commit, a dead
\* process or a Redis failure.  Excepted are what the guard does not cover: a process that
\* died before it recorded the order, and a second entry after the window.
OneFaultNeverDoubles ==
  \A a, b \in book :
    Doubled(a, b) => faults + resigns >= 2 \/ gap \/ b.time - a.time >= Window

\* The guard suppresses only what it saw: while Redis answers, an entry is suppressed only
\* if one went out after the last exit, so a re-entry after an exit is never held back.
SuppressedOnlyDuplicates ==
  \A n \in 1..Current :
    log[n].verdict = "suppressed" /\ faults = 0
      => \E m \in 1..n-1 : InBook(m) /\ \A k \in m..n : log[k].side = "BUY"
=============================================================================
