------------------------------- MODULE Fills -------------------------------
(***************************************************************************)
(* From an exchange fill to a position: the placing tick that stamps the   *)
(* placement marker, sends the order and commits its row; the execution    *)
(* reports Binance fans out to every profile of the account; the ownership *)
(* gate that classifies them; the fill adopter that folds the owner's fill *)
(* into its ledger and its strategy state; and the backfiller that replays *)
(* the account's trades after a stream gap.                                *)
(*                                                                         *)
(* One account, one worker process and one symbol.  A placement and an     *)
(* adoption hold the chain of their (profile, symbol): queue[p] is that    *)
(* chain, its head the call that runs, step[p] the await it is at.  Reports*)
(* and backfills run outside the chain and interleave with everything.     *)
(***************************************************************************)
EXTENDS Integers, Sequences, FiniteSets, FiniteSetsExt

CONSTANTS Profiles,      \* the enabled profiles of the account
          Orders,        \* the orders of the behaviour
          Placer,        \* who placed each order: a profile, Hand or Gone
          Buys,          \* the BUY orders; the others are SELLs
          Legs,          \* the number of trades each order fills in
          Hand,          \* placed on Binance by hand: no row, no marker
          Gone,          \* placed by a deleted profile: its row is detached
          NoOne,         \* no row
          Qty, Fee,      \* quantity and base-asset commission of one trade
          Held0,         \* the position every profile starts with
          MaxPlaced,     \* how many of the orders are placed
          MaxFaults      \* failures, gaps, redeliveries, flips, crashes

ASSUME FillsAssumption ==
  /\ Placer \in [Orders -> Profiles \cup {Hand, Gone}]
  /\ Buys \subseteq Orders
  /\ Legs \in [Orders -> Nat \ {0}]
  /\ {Hand, Gone, NoOne} \cap Profiles = {}
  /\ MaxPlaced \in Nat /\ MaxFaults \in Nat
  /\ Qty \in Nat /\ Fee \in Nat /\ Fee < Qty /\ Held0 \in Nat

VARIABLES
  active,    \* profileManager's active set
  living,    \* the profiles whose row exists
  place,     \* [Orders -> stage of the placement]
  marker,    \* the orders whose placement marker is in Redis
  row,       \* [Orders -> profile_id of the orders row; Gone: NULL]
  closed,    \* the detached rows that have been closed
  tape,      \* the account's trades of the symbol; the index is the trade id
  link,      \* the profiles whose user stream is connected
  inbox,     \* [Profiles -> trade ids of the frames not yet handled]
  fees,      \* the trade ids the commission accumulator has folded
  report,    \* [Profiles -> [Orders -> where the terminal report is]]
  fill,      \* [Profiles -> the backfill after a reconnect]
  queue,     \* [Profiles -> the chain of (profile, symbol)]
  step,      \* [Profiles -> the await the head of the chain is at]
  applied,   \* [Profiles -> applied_fills rows, <<order, trade id>>]
  basis,     \* [Profiles -> quantity of the avg_entry_prices row, 0: none]
  held,      \* [Profiles -> heldQuantity of the strategy slice]
  next,      \* [Profiles -> what the transaction resolved for the slice]
  faults,    \* how many of the environment's faults have happened
  missed,    \* history: orders with a trade this process has not folded
  torn,      \* history: orders part-filled when a backfill fetched its page
  excused,   \* history: orders whose adoption was given up on
  stale      \* history: profiles whose slice write failed

store == <<marker, row, closed, applied, basis, held>>
past  == <<missed, torn, excused, stale>>
vars  == <<active, living, place, store, tape, link, inbox, fees, report, fill,
           queue, step, next, faults, past>>

Noop == -1
Done == {"none", "done"}

Own(p)    == {o \in Orders : Placer[o] = p}
LegsOf(o) == {t \in DOMAIN tape : tape[t] = o}
Filled(o) == Cardinality(LegsOf(o)) = Legs[o]
Partly(o) == LegsOf(o) # {} /\ ~Filled(o)

\* A FillEvent: the order's cumulative quantity and commission at trade t.
Event(o, t, n, charged, src) ==
  [kind |-> "adopt", order |-> o, trade |-> t, qty |-> n * Qty,
   fee |-> charged * Fee, src |-> src]
Placing(o) ==
  [kind |-> "place", order |-> o, trade |-> 0, qty |-> 0, fee |-> 0,
   src |-> "tick"]

Off == [at |-> "off", anchor |-> 0, todo |-> <<>>]

\* The ledger starts from an adopted baseline, so every anchor is set.
Init ==
  /\ active = Profiles /\ living = Profiles
  /\ place = [o \in Orders |-> IF Placer[o] \in Profiles THEN "new" ELSE "row"]
  /\ marker = {}
  /\ row = [o \in Orders |-> IF Placer[o] = Gone THEN Gone ELSE NoOne]
  /\ closed = {}
  /\ tape = <<>>
  /\ link = Profiles
  /\ inbox = [p \in Profiles |-> <<>>]
  /\ fees = {}
  /\ report = [p \in Profiles |-> [o \in Orders |-> "none"]]
  /\ fill = [p \in Profiles |-> Off]
  /\ queue = [p \in Profiles |-> <<>>]
  /\ step = [p \in Profiles |-> "idle"]
  /\ applied = [p \in Profiles |-> {}]
  /\ basis = [p \in Profiles |-> Held0]
  /\ held = [p \in Profiles |-> Held0]
  /\ next = [p \in Profiles |-> Noop]
  /\ faults = 0
  /\ missed = {} /\ torn = {} /\ excused = {} /\ stale = {}

Fault == faults < MaxFaults /\ faults' = faults + 1
-----------------------------------------------------------------------------
(* The chain of one (profile, symbol).                                     *)

\* A call joins the chain; at an idle chain it starts at once.
Join(p, call) ==
  /\ queue' = [queue EXCEPT ![p] = Append(@, call)]
  /\ step' = IF queue[p] = <<>>
             THEN [step EXCEPT ![p] = call.kind] ELSE step

\* Mutant: the successor of the running call is never started.
LeaveStrands(p) ==
  /\ queue' = [queue EXCEPT ![p] = Tail(@)]
  /\ step' = [step EXCEPT ![p] = "idle"]

\* The running call ends and its successor starts.
Leave(p) ==
  /\ queue' = [queue EXCEPT ![p] = Tail(@)]
  /\ step' = [step EXCEPT ![p] =
                IF Len(queue[p]) = 1 THEN "idle" ELSE queue[p][2].kind]

\* The caller of an adoption goes on: the router's report is handled, or the
\* backfill takes its next order.
Resume(p, e) ==
  /\ report' = IF e.src = "stream"
               THEN [report EXCEPT ![p][e.order] = "done"] ELSE report
  /\ fill' = IF e.src = "backfill"
             THEN [fill EXCEPT ![p].at = "loop"] ELSE fill

\* A tick decides to place the order and enters the chain.
Tick(p, o) ==
  /\ Placer[o] = p /\ p \in active
  /\ place[o] = "new"
  /\ \A x \in Own(p) : place[x] = "new" \/ Filled(x)
  /\ Cardinality({x \in Orders : place[x] # "new"}) < MaxPlaced
  /\ place' = [place EXCEPT ![o] = "queued"]
  /\ Join(p, Placing(o))
  /\ UNCHANGED <<active, living, store, tape, link, inbox, fees, report,
                 fill, next, faults, past>>

\* register() stamps the marker, best effort, and placeOrder sends the order:
\* from here on it exists on the exchange.  Nobody looks for the marker of an
\* order that does not exist yet, so the two awaits are one step.
Send(p) ==
  /\ step[p] = "place"
  /\ \/ marker' = marker \cup {queue[p][1].order} /\ UNCHANGED faults
     \/ Fault /\ UNCHANGED marker
  /\ place' = [place EXCEPT ![queue[p][1].order] = "sent"]
  /\ step' = [step EXCEPT ![p] = "persist"]
  /\ UNCHANGED <<active, living, row, closed, applied, basis, held, tape,
                 link, inbox, fees, report, fill, queue, next, past>>

\* recordPlacedOrder commits the row and the call leaves the chain.  When its
\* insert and the tracking insert both fail, as they do for a profile deleted
\* meanwhile, the order stays without a row.
Persist(p) ==
  /\ step[p] = "persist"
  /\ LET o == queue[p][1].order IN
       /\ \/ /\ p \in living
             /\ row' = [row EXCEPT ![o] = p]
             /\ UNCHANGED faults
          \/ /\ IF p \in living THEN Fault ELSE UNCHANGED faults
             /\ UNCHANGED row
       /\ place' = [place EXCEPT ![o] = "row"]
  /\ Leave(p)
  /\ UNCHANGED <<active, living, marker, closed, applied, basis, held, tape,
                 link, inbox, fees, report, fill, next, past>>
-----------------------------------------------------------------------------
(* adopt(): the origin gate, the transaction, the slice.                   *)

\* Mutant: the account-wide lookup is not narrowed to the profile.
AdmittedAnyRow(p, o) == p \in living /\ row[o] \notin {NoOne, Gone}

\* The origin gate: this profile still exists and the account's row of the
\* order is its own.
Admitted(p, o) == p \in living /\ row[o] = p

\* netBuyQuantity: a fee that eats the whole fill is not believed.
Credit(e) == IF e.fee < e.qty THEN e.qty - e.fee ELSE e.qty

\* resolveBuy and resolveSell, first apply: the ledger quantity after the fold.
Folded(p, e) ==
  IF e.order \in Buys THEN basis[p] + Credit(e)
  ELSE IF e.qty < basis[p] THEN basis[p] - e.qty ELSE 0

\* Mutant: a replay is taken for done and leaves the slice alone.
ResolvedFirstOnly(e, first, quantity) == IF first THEN quantity ELSE Noop

\* What the transaction resolves for the slice: a BUY replayed over an emptied
\* ledger row converges nothing, every other resolution carries the ledger.
Resolved(e, first, quantity) ==
  IF e.order \in Buys /\ ~first /\ quantity = 0 THEN Noop ELSE quantity

\* A fill that passes the gate commits applied_fills and avg_entry_prices
\* together: the first apply folds, a replay reads.  A throw rolls both back
\* and ends the call, and so does the gate.
Adopt(p) ==
  /\ step[p] = "adopt"
  /\ LET e     == queue[p][1]
         first == <<e.order, e.trade>> \notin applied[p]
         after == IF first THEN Folded(p, e) ELSE basis[p] IN
       \/ /\ Admitted(p, e.order)
          /\ applied' = [applied EXCEPT ![p] = @ \cup {<<e.order, e.trade>>}]
          /\ basis' = [basis EXCEPT ![p] = after]
          /\ next' = [next EXCEPT ![p] = Resolved(e, first, after)]
          /\ step' = [step EXCEPT ![p] = "state"]
          /\ UNCHANGED <<queue, report, fill, faults, excused>>
       \/ /\ IF Admitted(p, e.order)
             THEN Fault /\ excused' = excused \cup {e.order}
             ELSE UNCHANGED <<faults, excused>>
          /\ Leave(p) /\ Resume(p, e)
          /\ UNCHANGED <<applied, basis, next>>
  /\ UNCHANGED <<active, living, place, marker, row, closed, held, tape,
                 link, inbox, fees, missed, torn, stale>>

\* applyResolution: the slice takes the resolved quantity, unless the write
\* throws after the ledger has committed.
ApplyResolution(p) ==
  /\ step[p] = "state"
  /\ \/ /\ held' = IF next[p] = Noop \/ p \notin living
                   THEN held ELSE [held EXCEPT ![p] = next[p]]
        /\ stale' = IF basis[p] = 0 THEN stale ELSE stale \ {p}
        /\ UNCHANGED faults
     \/ /\ Fault
        /\ stale' = stale \cup {p}
        /\ UNCHANGED held
  /\ Leave(p) /\ Resume(p, queue[p][1])
  /\ next' = [next EXCEPT ![p] = Noop]
  /\ UNCHANGED <<active, living, place, marker, row, closed, applied, basis,
                 tape, link, inbox, fees, missed, torn, excused>>
-----------------------------------------------------------------------------
(* The router: one report per active profile of the account.               *)

\* Mutant: only the terminal report's own commission.
TakeLast(o) == Cardinality(fees \cap {Max(LegsOf(o))})

\* take(): the trades of the order whose commission has been folded.
Take(o) == Cardinality(fees \cap LegsOf(o))

\* A verdict of classifyOrder.  An own report takes the commission folded so
\* far (none folded: the gross quantity) and joins the chain.
Verdict(p, o, v) ==
  /\ report' = [report EXCEPT ![p][o] =
                  IF v = "own" THEN "chain"
                  ELSE IF v = "gone" THEN "close" ELSE "done"]
  /\ IF v = "own"
     THEN Join(p, Event(o, Max(LegsOf(o)), Legs[o], Take(o), "stream"))
     ELSE UNCHANGED <<queue, step>>
  /\ excused' = IF v = "sibling" /\ Placer[o] = p
                THEN excused \cup {o} ELSE excused

\* onUserEvent up to the ownership gate: a profile that left the active set
\* routes nothing; the commission is folded before the gate suspends, in
\* delivery order; only the terminal report reaches the adopter.
Receive(p) ==
  /\ inbox[p] # <<>>
  /\ inbox' = [inbox EXCEPT ![p] = Tail(@)]
  /\ LET t == Head(inbox[p])
         o == tape[t] IN
       IF p \in active
       THEN /\ fees' = fees \cup {t}
            /\ report' = IF Filled(o) /\ t = Max(LegsOf(o))
                         THEN [report EXCEPT ![p][o] = "row"] ELSE report
            /\ UNCHANGED past
       ELSE /\ missed' = missed \cup {o}
            /\ excused' = IF Placer[o] = p THEN excused \cup {o} ELSE excused
            /\ UNCHANGED <<fees, report, torn, stale>>
  /\ UNCHANGED <<active, living, place, store, tape, link, fill, queue, step,
                 next, faults>>

\* The orders row answers for the whole account; without one the marker is
\* asked.  A lookup that throws drops the report.
ClassifyRow(p, o) ==
  /\ report[p][o] = "row"
  /\ \/ /\ row[o] # NoOne
        /\ Verdict(p, o, IF row[o] = Gone THEN "gone"
                         ELSE IF row[o] = p THEN "own" ELSE "sibling")
        /\ UNCHANGED faults
     \/ /\ row[o] = NoOne
        /\ report' = [report EXCEPT ![p][o] = "marker"]
        /\ UNCHANGED <<queue, step, faults, excused>>
     \/ Fault /\ Verdict(p, o, "sibling")
  /\ UNCHANGED <<active, living, place, store, tape, link, inbox, fees, fill,
                 next, missed, torn, stale>>

\* ownerOf, which fails open to "no marker"; without one the manual_orders
\* scan finds nothing (no order here is one), and only the sole active profile
\* may answer for an order nobody names.  The marker of an order that fills no
\* longer changes, so these awaits are one step.
ClassifyUnrecorded(p, o) ==
  /\ report[p][o] = "marker"
  /\ \/ /\ o \in marker
        /\ Verdict(p, o, IF Placer[o] = p THEN "own" ELSE "sibling")
        /\ UNCHANGED faults
     \/ /\ IF o \in marker THEN Fault ELSE UNCHANGED faults
        /\ Verdict(p, o, IF active = {p} THEN "own" ELSE "sibling")
  /\ UNCHANGED <<active, living, place, store, tape, link, inbox, fees, fill,
                 next, missed, torn, stale>>

\* reconcileDetachedFill closes the row of a deleted profile, once.
CloseDetached(p, o) ==
  /\ report[p][o] = "close"
  /\ \/ row[o] = Gone /\ closed' = closed \cup {o} /\ UNCHANGED faults
     \/ Fault /\ UNCHANGED closed
  /\ report' = [report EXCEPT ![p][o] = "done"]
  /\ UNCHANGED <<active, living, place, marker, row, applied, basis, held,
                 tape, link, inbox, fees, fill, queue, step, next, past>>
-----------------------------------------------------------------------------
(* The backfill after a reconnect: onProfileResync and backfill().         *)

\* Mutant: the stream comes back without a resync.
ReconnectOnly(p) ==
  /\ p \notin link
  /\ fill[p].at = "off"
  /\ link' = link \cup {p}
  /\ UNCHANGED <<active, living, place, store, tape, inbox, fees, report,
                 fill, queue, step, next, faults, past>>

\* The pool reconnects the stream and resyncs the profile.
Reconnect(p) ==
  /\ p \notin link
  /\ fill[p].at = "off"
  /\ link' = link \cup {p}
  /\ fill' = IF p \in active THEN [fill EXCEPT ![p].at = "anchor"] ELSE fill
  /\ excused' = IF p \in active THEN excused ELSE excused \cup Own(p)
  /\ UNCHANGED <<active, living, place, store, tape, inbox, fees, report,
                 queue, step, next, faults, missed, torn, stale>>

\* maxTradeId over the profile's applied fills (0: the baseline's trade).
Anchor(p) ==
  /\ fill[p].at = "anchor"
  /\ fill' = [fill EXCEPT ![p] =
                [@ EXCEPT !.at = "fetch",
                          !.anchor = Max({0} \cup {a[2] : a \in applied[p]})]]
  /\ UNCHANGED <<active, living, place, store, tape, link, inbox, fees,
                 report, queue, step, next, faults, past>>

\* One FillEvent per order of the page: its trades past the anchor summed, at
\* the last of them, in the order of those trade ids.
Page(from) ==
  LET ids     == {t \in DOMAIN tape : t > from}
      last(o) == Max(LegsOf(o) \cap ids)
      lasts   == {last(o) : o \in {tape[t] : t \in ids}}
      legs(t) == Cardinality(LegsOf(tape[t]) \cap ids) IN
  [i \in 1..Cardinality(lasts) |->
     LET t == CHOOSE x \in lasts : Cardinality({y \in lasts : y < x}) = i - 1
     IN  Event(tape[t], t, legs(t), legs(t), "backfill")]

\* getMyTrades past the anchor; a throw ends the backfill.
Fetch(p) ==
  /\ fill[p].at = "fetch"
  /\ \/ /\ fill' = [fill EXCEPT ![p] = [Off EXCEPT !.at = "loop",
                                               !.todo = Page(fill[p].anchor)]]
        /\ torn' = torn \cup {o \in Own(p) : Partly(o)}
        /\ UNCHANGED <<faults, excused>>
     \/ /\ Fault
        /\ fill' = [fill EXCEPT ![p] = Off]
        /\ excused' = excused \cup Own(p)
        /\ UNCHANGED torn
  /\ UNCHANGED <<active, living, place, store, tape, link, inbox, fees,
                 report, queue, step, next, missed, stale>>

\* The next order of the page is handed to the adopter and awaited.
Replay(p) ==
  /\ fill[p].at = "loop"
  /\ IF fill[p].todo = <<>>
     THEN fill' = [fill EXCEPT ![p] = Off] /\ UNCHANGED <<queue, step>>
     ELSE /\ fill' = [fill EXCEPT ![p].at = "await", ![p].todo = Tail(@)]
          /\ Join(p, Head(fill[p].todo))
  /\ UNCHANGED <<active, living, place, store, tape, link, inbox, fees,
                 report, next, faults, past>>
-----------------------------------------------------------------------------
(* The exchange, the operator and the faults.                              *)

\* One trade of a live order, reported to every connected stream.
Trade(o) ==
  /\ place[o] \in {"sent", "row"}
  /\ ~Filled(o)
  /\ tape' = Append(tape, o)
  /\ inbox' = [p \in Profiles |-> IF p \in link
                 THEN Append(inbox[p], Len(tape')) ELSE inbox[p]]
  /\ missed' = IF Placer[o] \in link THEN missed ELSE missed \cup {o}
  /\ UNCHANGED <<active, living, place, store, link, fees, report, fill,
                 queue, step, next, faults, torn, excused, stale>>

\* The stream drops with the frames that were on their way.
Disconnect(p) ==
  /\ p \in link
  /\ Fault
  /\ link' = link \ {p}
  /\ inbox' = [inbox EXCEPT ![p] = <<>>]
  /\ missed' = missed \cup {tape[inbox[p][i]] : i \in DOMAIN inbox[p]}
  /\ UNCHANGED <<active, living, place, store, tape, fees, report, fill,
                 queue, step, next, torn, excused, stale>>

\* Binance delivers a terminal report once more.
Redeliver(p, o) ==
  /\ p \in link /\ report[p][o] = "done"
  /\ Fault
  /\ inbox' = [inbox EXCEPT ![p] = Append(@, Max(LegsOf(o)))]
  /\ report' = [report EXCEPT ![p][o] = "none"]
  /\ UNCHANGED <<active, living, place, store, tape, link, fees, fill, queue,
                 step, next, past>>

\* enable and disable change the active set synchronously.
Flip(p) ==
  /\ p \in living
  /\ Fault
  /\ active' = IF p \in active THEN active \ {p} ELSE active \cup {p}
  /\ UNCHANGED <<living, place, store, tape, link, inbox, fees, report, fill,
                 queue, step, next, past>>

\* The profile is deleted: its orders stay behind with profile_id NULL, its
\* applied fills, ledger and slices go with it.
Delete(p) ==
  /\ p \in living
  /\ Fault
  /\ living' = living \ {p}
  /\ active' = active \ {p}
  /\ row' = [o \in Orders |-> IF row[o] = p THEN Gone ELSE row[o]]
  /\ applied' = [applied EXCEPT ![p] = {}]
  /\ basis' = [basis EXCEPT ![p] = 0]
  /\ held' = [held EXCEPT ![p] = 0]
  /\ UNCHANGED <<place, marker, closed, tape, link, inbox, fees, report,
                 fill, queue, step, next, past>>

\* The process dies: the chains, the reports, the streams and the commission
\* totals go with it.  Boot reconnects every stream.
Crash ==
  /\ Fault
  /\ place' = [o \in Orders |->
                 IF place[o] = "queued" THEN "new"
                 ELSE IF place[o] = "sent" THEN "row" ELSE place[o]]
  /\ link' = {}
  /\ inbox' = [p \in Profiles |-> <<>>]
  /\ fees' = {}
  /\ report' = [p \in Profiles |-> [o \in Orders |->
                  IF report[p][o] = "none" THEN "none" ELSE "done"]]
  /\ fill' = [p \in Profiles |-> Off]
  /\ queue' = [p \in Profiles |-> <<>>]
  /\ step' = [p \in Profiles |-> "idle"]
  /\ next' = [p \in Profiles |-> Noop]
  /\ missed' = missed \cup {tape[t] : t \in DOMAIN tape}
  /\ stale' = stale \cup {p \in Profiles : step[p] = "state"}
  /\ UNCHANGED <<active, living, store, tape, torn, excused>>

Work(p) ==
  \/ Send(p) \/ Persist(p) \/ Adopt(p) \/ ApplyResolution(p)
  \/ Receive(p)
  \/ \E o \in Orders : \/ ClassifyRow(p, o) \/ ClassifyUnrecorded(p, o)
                       \/ CloseDetached(p, o)
  \/ Reconnect(p) \/ Anchor(p) \/ Fetch(p) \/ Replay(p)

Next ==
  \/ \E p \in Profiles : Work(p) \/ Disconnect(p) \/ Flip(p) \/ Delete(p)
  \/ \E p \in Profiles, o \in Orders : Tick(p, o) \/ Redeliver(p, o)
  \/ \E o \in Orders : Trade(o)
  \/ Crash

\* The process keeps running its callbacks and the pool keeps reconnecting.
Spec == Init /\ [][Next]_vars
FairSpec == Spec /\ \A p \in Profiles : WF_vars(Work(p))
-----------------------------------------------------------------------------
\* Every variable stays in its domain: reports, chain and backfill are at one
\* of the awaits of their code, and no ledger quantity is negative.
TypeOK ==
  /\ active \subseteq Profiles /\ link \subseteq Profiles
  /\ place \in [Orders -> {"new", "queued", "sent", "row"}]
  /\ marker \subseteq Orders /\ closed \subseteq Orders
  /\ row \in [Orders -> Profiles \cup {Gone, NoOne}]
  /\ \A t \in DOMAIN tape : tape[t] \in Orders
  /\ fees \subseteq DOMAIN tape
  /\ report \in [Profiles -> [Orders -> Done \cup
                   {"row", "marker", "close", "chain"}]]
  /\ \A p \in Profiles :
       /\ fill[p].at \in {"off", "anchor", "fetch", "loop", "await"}
       /\ (step[p] = "idle") <=> (queue[p] = <<>>)
       /\ step[p] \in {"idle", "place", "persist", "adopt", "state"}
       /\ applied[p] \subseteq Orders \X DOMAIN tape
       /\ basis[p] \in Nat /\ held[p] \in Nat

\* A profile's ledger only ever absorbs fills of orders it placed itself,
\* whatever the gate answered while rows, markers and the active set moved:
\* the origin gate of adopt() is the last word on reports and on backfills.
NoForeignFold ==
  \A p \in Profiles : \A a \in applied[p] : Placer[a[1]] = p

\* What a profile's adopted orders moved in the wallet.
Moved(o) == IF o \in Buys THEN Legs[o] * (Qty - Fee) ELSE -(Legs[o] * Qty)

\* The fees of an order some of whose reports this process has not seen.
Unseen(o) == IF o \in missed \cap Buys THEN Legs[o] * Fee ELSE 0

\* The ledger agrees with the wallet: each adopted order is folded once, with
\* all of its trades, however reports, replays, backfills and failures
\* interleave, and with all of their fees if this process saw every one of its
\* reports.  Excepted are the orders FoldedOnce is about.
BasisMatchesWallet ==
  \A p \in living :
    LET orders == {a[1] : a \in applied[p]}
        net    == Held0 + MapThenSumSet(Moved, orders) IN
    orders \cap torn = {}
      => basis[p] \in net..net + MapThenSumSet(Unseen, orders)

\* Two applied_fills rows never stand for one order: a backfilled order is
\* recognised when its live report arrives, and the other way round.
FoldedOnce ==
  \A p \in Profiles : \A a, b \in applied[p] : a[1] = b[1] => a = b

\* The strategy slice and the ledger differ only between the transaction and
\* the slice write, or after that write failed; the next adoption or replay
\* that completes brings them together again.
HeldTracksLedger ==
  \A p \in living :
    held[p] # basis[p] => step[p] = "state" \/ p \in stale

\* A filled order whose row is committed ends up in its profile's ledger, by
\* its report or, when a gap or a crash swallowed the report, by the backfill
\* of the reconnect; excused are the orders a failed lookup, a failed write, a
\* failed fetch, a disabled profile or a verdict without evidence gave up on,
\* and those below the trade id of a later fill, where no backfill looks.
FilledOrdersFolded ==
  <>[](\A p \in Profiles : \A o \in Own(p) :
         Filled(o) /\ row[o] = p
           => o \in excused \/ \E a \in applied[p] : a[2] >= Max(LegsOf(o)))
=============================================================================
