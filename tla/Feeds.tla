--------------------------------- MODULE Feeds ---------------------------------
(***************************************************************************)
(* The market feeds of a worker: which profiles are active                 *)
(* (profile-manager/profile-manager.ts), the streams they claim            *)
(* (market-data/subscriptions-manager.ts), and the two writers of both:    *)
(* the pipeline jobs (queues/pipeline-worker.ts), one at a time per        *)
(* profile, and the periodic enabled-set reconciler                        *)
(* (profile-manager/enabled-set-reconciler.ts), which takes no part in     *)
(* that order. A writer is a thread; a step of it ends at an await.        *)
(***************************************************************************)
EXTENDS Integers, FiniteSets, FiniteSetsExt, Functions, Sequences

CONSTANTS
  Profiles, Symbols,
  Candles,            \* the intervals a profile can trade on
  Shared,             \* the intervals every profile needs too: 1m, then 1d
  InitialDb,          \* the rows the worker booted with
  MaxHandles,         \* SymbolHandle names; more than ever exist at once
  MaxEdits,           \* changes the operator makes
  MaxFaults           \* failed reads and failed jobs

ASSUME FeedsAssumption ==
  /\ IsFiniteSet(Profiles) /\ Profiles # {} /\ "reconciler" \notin Profiles
  /\ IsFiniteSet(Symbols)
  /\ "" \notin Candles
  /\ Shared \in Seq(Range(Shared)) /\ IsInjective(Shared)
  /\ InitialDb \in [Profiles -> [enabled : BOOLEAN, candle : Candles, symbols : SUBSET Symbols]]
  /\ MaxHandles \in Nat \ {0} /\ MaxEdits \in Nat /\ MaxFaults \in Nat

Intervals == Candles \cup Range(Shared)
Handles == 1..MaxHandles
Reconciler == "reconciler"
Threads == Profiles \cup {Reconciler}
Kinds == {"subscribe", "unsubscribe", "reconfigure"}

VARIABLES
  db,         \* profiles and profile_symbols: [enabled, candle, symbols] of each
  jobs,       \* pending pipeline jobs of each profile
  profiles,   \* ProfileManager.profiles
  inverse,    \* ProfileManager.inverse
  feed,       \* handles: of each symbol its current handle, and every handle's streams
  thread,     \* the writers
  pass,       \* the reconciler's rows and what is left to do with them
  overlap,    \* history: two updates have met, see Meets
  edits, faults

env == <<db, jobs, edits>>
manager == <<profiles, inverse, feed>>
vars == <<env, manager, thread, pass, overlap, faults>>

Inactive == [candle |-> "", symbols |-> {}]
NoThread == [pc |-> "idle", kind |-> "subscribe", profile |-> CHOOSE p \in Profiles : TRUE,
             row |-> Inactive, plan |-> <<>>, detached |-> FALSE]
NoPass == [pc |-> "idle", rows |-> [p \in Profiles |-> Inactive], todo |-> {}]

Fault == faults < MaxFaults /\ faults' = faults + 1

(***************************************************************************)
(* subscriptions-manager.ts                                                *)
(***************************************************************************)

\* The candle first, then the shared intervals without it.
feedIntervals(candle) ==
  LET at == {i \in DOMAIN Shared : Shared[i] = candle} IN
  <<candle>> \o IF at = {} THEN Shared
                ELSE SubSeq(Shared, 1, Min(at) - 1) \o SubSeq(Shared, Min(at) + 1, Len(Shared))

NoStreams == [iv \in Intervals |-> 0]

\* The handles of s that a suspended removeSymbols still holds.
Held(s) ==
  {thread[t].plan[1].handle : t \in {u \in Threads :
     /\ thread[u].plan # <<>>
     /\ thread[u].plan[1].op = "drop" /\ thread[u].plan[1].symbol = s}}

FreshHandle(s) ==
  Min({h \in Handles \ Held(s) : feed[s].streams[h] = NoStreams /\ h \notin feed[s].tickers})

\* addSymbols for one symbol: a claim on each of its intervals.
Claimed(s, candle) ==
  LET f == feed[s]
      h == IF f.current = 0 THEN FreshHandle(s) ELSE f.current
  IN  [current |-> h,
       streams |-> [f.streams EXCEPT ![h] =
         [iv \in Intervals |-> @[iv] + IF iv \in Range(feedIntervals(candle)) THEN 1 ELSE 0]],
       tickers |-> f.tickers \cup {h}]

addSymbols(symbols, candle) ==
  feed' = [s \in Symbols |-> IF s \in symbols THEN Claimed(s, candle) ELSE feed[s]]

\* removeSymbols for one symbol, from one await to the next: claims are given
\* back until one is the last on its stream, which closes and is awaited.
LastClaims(op) ==
  {i \in 1..Len(op.intervals) : feed[op.symbol].streams[op.handle][op.intervals[i]] = 1}

\* Mutant of Released: an interval that has no stream is counted down as well.
ReleasedTwice(op, n) ==
  [iv \in Intervals |->
     LET count == feed[op.symbol].streams[op.handle][iv]
     IN  IF iv \in {op.intervals[i] : i \in 1..n} THEN count - 1 ELSE count]

Released(op, n) ==
  LET gone == {op.intervals[i] : i \in 1..n}
  IN  [iv \in Intervals |->
         LET count == feed[op.symbol].streams[op.handle][iv]
         IN  IF iv \in gone /\ count > 0 THEN count - 1 ELSE count]

\* After the last interval: a handle without streams goes, and with it whatever
\* handle the map holds for the symbol.
DropHandle(op, streams) ==
  LET f == feed[op.symbol]
  IN  IF streams = NoStreams
      THEN [current |-> 0, streams |-> [f.streams EXCEPT ![op.handle] = streams],
            tickers |-> f.tickers \ {op.handle}]
      ELSE [f EXCEPT !.streams[op.handle] = streams]

(***************************************************************************)
(* profile-manager.ts: an update is a plan, a sequence of market calls     *)
(* that ends, for setSymbols, in the assignments that follow them.         *)
(***************************************************************************)

AddOp(symbols, candle) == [op |-> "add", symbols |-> symbols, candle |-> candle]
DropOp(s, candle) ==
  [op |-> "drop", symbol |-> s, intervals |-> feedIntervals(candle), handle |-> 0]
Drops(symbols, candle) ==
  LET n == Cardinality(symbols)
      order == CHOOSE f \in Bijection(1..n, symbols) : TRUE
  IN  [i \in 1..n |-> DropOp(order[i], candle)]

\* Mutant of setSymbolsPlan: dropped symbols release the new interval.
ReleaseNewInterval(state, next) ==
  LET added == next.symbols \ state.symbols
      released == state.symbols \ next.symbols
      retained == state.symbols \cap next.symbols
      moves == next.candle # state.candle /\ retained # {}
  IN  (IF moves THEN <<AddOp(retained, next.candle)>> \o Drops(retained, state.candle) ELSE <<>>)
      \o (IF added # {} THEN <<AddOp(added, next.candle)>> ELSE <<>>)
      \o Drops(released, next.candle)
      \o <<[op |-> "commit", added |-> added, released |-> released]>>

\* Mutant of setSymbolsPlan: a change of interval drops the old one first.
DropBeforeAdd(state, next) ==
  LET added == next.symbols \ state.symbols
      released == state.symbols \ next.symbols
      retained == state.symbols \cap next.symbols
      moves == next.candle # state.candle /\ retained # {}
  IN  (IF moves THEN Drops(retained, state.candle) \o <<AddOp(retained, next.candle)>> ELSE <<>>)
      \o (IF added # {} THEN <<AddOp(added, next.candle)>> ELSE <<>>)
      \o Drops(released, state.candle)
      \o <<[op |-> "commit", added |-> added, released |-> released]>>

setSymbolsPlan(state, next) ==
  LET added == next.symbols \ state.symbols
      released == state.symbols \ next.symbols
      retained == state.symbols \cap next.symbols
      moves == next.candle # state.candle /\ retained # {}
  IN  (IF moves THEN <<AddOp(retained, next.candle)>> \o Drops(retained, state.candle) ELSE <<>>)
      \o (IF added # {} THEN <<AddOp(added, next.candle)>> ELSE <<>>)
      \o Drops(released, state.candle)
      \o <<[op |-> "commit", added |-> added, released |-> released]>>

\* Two updates meet when one runs while another of the same profile is
\* suspended, or when both are giving back claims on the same handle.
Meets(t, th) ==
  \E u \in Threads \ {t} :
    /\ thread[u].plan # <<>>
    /\ \/ thread[u].profile = th.profile
       \/ /\ th.plan # <<>> /\ th.plan[1].op = "drop" /\ thread[u].plan[1].op = "drop"
          /\ th.plan[1].symbol = thread[u].plan[1].symbol

\* The first market call of th's plan, up to its next await. The other threads
\* are those of peers.
Market(t, th, peers) ==
  LET op == Head(th.plan)
      go(plan) == thread' = [peers EXCEPT ![t] =
                    IF plan = <<>> THEN NoThread ELSE [th EXCEPT !.pc = "plan", !.plan = plan]]
      d == IF op.op = "drop" /\ op.handle = 0
           THEN [op EXCEPT !.handle = feed[op.symbol].current] ELSE op
  IN  /\ overlap' = (overlap \/ Meets(t, th))
      /\ \/ /\ op.op = "add"
            /\ addSymbols(op.symbols, op.candle)
            /\ go(Tail(th.plan))
         \/ /\ op.op = "drop"
            /\ d.handle = 0
            /\ go(Tail(th.plan))
            /\ UNCHANGED feed
         \/ /\ op.op = "drop"
            /\ d.handle # 0
            /\ IF LastClaims(d) = {}
               THEN /\ feed' = [feed EXCEPT ![op.symbol] = DropHandle(d, Released(d, Len(d.intervals)))]
                    /\ go(Tail(th.plan))
               ELSE LET n == Min(LastClaims(d))
                        rest == [d EXCEPT !.intervals = SubSeq(@, n + 1, Len(@))]
                    IN  /\ feed' = [feed EXCEPT ![op.symbol].streams[d.handle] = Released(d, n)]
                        /\ go(<<rest>> \o Tail(th.plan))

\* The assignments at the end of setSymbols. They go to the state object it
\* started from, which a disable may have removed from the map meanwhile.
Commit(t, th) ==
  LET op == Head(th.plan)
  IN  /\ op.op = "commit"
      /\ inverse' = [s \in Symbols |->
           CASE s \in op.added -> inverse[s] \cup {th.profile}
             [] s \in op.released -> inverse[s] \ {th.profile}
             [] OTHER -> inverse[s]]
      /\ profiles' = IF th.detached THEN profiles ELSE [profiles EXCEPT ![th.profile] = th.row]
      /\ thread' = [thread EXCEPT ![t] = NoThread]
      /\ overlap' = (overlap \/ Meets(t, th))
      /\ UNCHANGED feed

Run(t, th) ==
  \/ Market(t, th, thread) /\ UNCHANGED <<profiles, inverse>>
  \/ Commit(t, th)

setSymbols(t, th) ==
  Run(t, [th EXCEPT !.plan = setSymbolsPlan(profiles[th.profile], th.row)])

\* Mutant of enable: a profile that is active already is left as it is.
EnableOnce(t, th) ==
  \/ /\ profiles[th.profile] # Inactive
     /\ thread' = [thread EXCEPT ![t] = NoThread]
     /\ UNCHANGED <<manager, overlap>>
  \/ /\ profiles[th.profile] = Inactive
     /\ profiles' = [profiles EXCEPT ![th.profile] = th.row]
     /\ inverse' = [s \in Symbols |->
          IF s \in th.row.symbols THEN inverse[s] \cup {th.profile} ELSE inverse[s]]
     /\ addSymbols(th.row.symbols, th.row.candle)
     /\ thread' = [thread EXCEPT ![t] = NoThread]
     /\ overlap' = (overlap \/ Meets(t, th))

enable(t, th) ==
  \/ profiles[th.profile] # Inactive /\ setSymbols(t, th)
  \/ /\ profiles[th.profile] = Inactive
     /\ profiles' = [profiles EXCEPT ![th.profile] = th.row]
     /\ inverse' = [s \in Symbols |->
          IF s \in th.row.symbols THEN inverse[s] \cup {th.profile} ELSE inverse[s]]
     /\ addSymbols(th.row.symbols, th.row.candle)
     /\ thread' = [thread EXCEPT ![t] = NoThread]
     /\ overlap' = (overlap \/ Meets(t, th))

disable(t, th) ==
  LET state == profiles[th.profile]
      plan == Drops(state.symbols, state.candle)
      peers == [u \in Threads |->
        IF thread[u].profile = th.profile /\ thread[u].plan # <<>>
        THEN [thread[u] EXCEPT !.detached = TRUE] ELSE thread[u]]
  IN  IF plan = <<>>
      THEN /\ profiles' = [profiles EXCEPT ![th.profile] = Inactive]
           /\ thread' = [peers EXCEPT ![t] = NoThread]
           /\ overlap' = (overlap \/ Meets(t, th))
           /\ UNCHANGED <<inverse, feed>>
      ELSE /\ profiles' = [profiles EXCEPT ![th.profile] = Inactive]
           /\ inverse' = [s \in Symbols |->
                IF s \in state.symbols THEN inverse[s] \ {th.profile} ELSE inverse[s]]
           /\ Market(t, [th EXCEPT !.plan = plan], peers)

(***************************************************************************)
(* The pipeline jobs. Their reads see the database at one moment and are   *)
(* used at a later one.                                                    *)
(***************************************************************************)

JobStart(p) ==
  /\ thread[p].pc = "idle"
  /\ \E kind \in jobs[p] :
       /\ jobs' = [jobs EXCEPT ![p] = @ \ {kind}]
       /\ thread' = [thread EXCEPT ![p] = [NoThread EXCEPT !.pc = "row", !.kind = kind, !.profile = p]]
  /\ UNCHANGED <<db, edits, manager, pass, overlap, faults>>

\* profile.findById. A subscribe of a profile that is disabled and an
\* unsubscribe of one that is enabled do nothing: the operator's last action wins.
JobRow(p) ==
  /\ thread[p].pc = "row"
  /\ thread' = [thread EXCEPT ![p] =
       CASE @.kind = "subscribe" /\ ~db[p].enabled -> NoThread
         [] @.kind = "unsubscribe" /\ db[p].enabled -> NoThread
         [] @.kind = "unsubscribe" /\ ~db[p].enabled -> [@ EXCEPT !.pc = "apply"]
         [] OTHER -> [@ EXCEPT !.pc = "symbols", !.row.candle = db[p].candle]]
  /\ UNCHANGED <<env, manager, pass, overlap, faults>>

\* profileSymbols.listForProfile.
JobSymbols(p) ==
  /\ thread[p].pc = "symbols"
  /\ thread' = [thread EXCEPT ![p].pc = "apply", ![p].row.symbols = db[p].symbols]
  /\ UNCHANGED <<env, manager, pass, overlap, faults>>

handleSubscribe(p) == thread[p].kind = "subscribe" /\ enable(p, thread[p])

\* A profile that is not active is left to its next subscribe.
handleReconfigureProfile(p) ==
  /\ thread[p].kind = "reconfigure"
  /\ IF profiles[p] # Inactive THEN setSymbols(p, thread[p])
     ELSE thread' = [thread EXCEPT ![p] = NoThread] /\ UNCHANGED <<manager, overlap>>

handleUnsubscribe(p) ==
  /\ thread[p].kind = "unsubscribe"
  /\ IF profiles[p] # Inactive THEN disable(p, thread[p])
     ELSE thread' = [thread EXCEPT ![p] = NoThread] /\ UNCHANGED <<manager, overlap>>

JobApply(p) ==
  /\ thread[p].pc = "apply"
  /\ handleSubscribe(p) \/ handleReconfigureProfile(p) \/ handleUnsubscribe(p)
  /\ UNCHANGED <<env, pass, faults>>

\* A read fails and the job's retries with it.
JobFails(p) ==
  /\ thread[p].pc \in {"row", "symbols"}
  /\ Fault
  /\ thread' = [thread EXCEPT ![p] = NoThread]
  /\ UNCHANGED <<env, manager, pass, overlap>>

\* An await of an update returns.
Resume(t) ==
  /\ thread[t].pc = "plan"
  /\ Run(t, thread[t])
  /\ UNCHANGED <<env, pass, faults>>

(***************************************************************************)
(* The reconciler: one pass at a time (inFlight).                          *)
(***************************************************************************)

PassStart ==
  /\ pass.pc = "idle"
  /\ pass' = [pass EXCEPT !.pc = "list"]
  /\ UNCHANGED <<env, manager, thread, overlap, faults>>

\* listAllEnabled, then the symbols of one profile after the other.
PassList ==
  /\ pass.pc = "list"
  /\ pass' = [pc |-> "load", todo |-> {p \in Profiles : db[p].enabled},
              rows |-> [p \in Profiles |->
                IF db[p].enabled THEN [candle |-> db[p].candle, symbols |-> {}] ELSE Inactive]]
  /\ UNCHANGED <<env, manager, thread, overlap, faults>>

PassLoad(p) ==
  /\ pass.pc = "load" /\ p \in pass.todo
  /\ pass' = [pass EXCEPT !.todo = @ \ {p}, !.rows[p].symbols = db[p].symbols]
  /\ UNCHANGED <<env, manager, thread, overlap, faults>>

\* A read fails: the membership stays and the next interval tries again.
PassFails ==
  /\ pass.pc \in {"list", "load"}
  /\ Fault
  /\ pass' = NoPass
  /\ UNCHANGED <<env, manager, thread, overlap>>

\* profileManager.reconcile(rows): disable the active profiles that have no row,
\* then enable every row.
Listed == {p \in Profiles : pass.rows[p] # Inactive}
Unlisted == {p \in Profiles \ Listed : profiles[p] # Inactive}
Phase ==
  IF pass.pc = "load" /\ Unlisted # {}
  THEN [pass EXCEPT !.pc = "disable", !.todo = Unlisted]
  ELSE IF pass.pc \in {"load", "disable"} THEN [pass EXCEPT !.pc = "enable", !.todo = Listed]
  ELSE pass

PassVisit ==
  LET ps == IF pass.todo = {} THEN Phase ELSE pass
      th(p) == [NoThread EXCEPT !.profile = p, !.row = pass.rows[p]]
  IN  /\ pass.pc \in {"load", "disable", "enable"}
      /\ pass.pc = "load" => pass.todo = {}
      /\ thread[Reconciler].pc = "idle"
      /\ \/ /\ ps.todo = {}
            /\ pass' = NoPass
            /\ UNCHANGED <<manager, thread, overlap>>
         \/ \E p \in ps.todo :
              /\ pass' = [ps EXCEPT !.todo = @ \ {p}]
              /\ \/ ps.pc = "enable" /\ enable(Reconciler, th(p))
                 \/ /\ ps.pc = "disable" /\ profiles[p] # Inactive
                    /\ disable(Reconciler, th(p))
                 \/ /\ ps.pc = "disable" /\ profiles[p] = Inactive
                    /\ UNCHANGED <<manager, thread, overlap>>
      /\ UNCHANGED <<env, faults>>

(***************************************************************************)
(* The operator, through the API: each change of an enabled profile        *)
(* enqueues its job.                                                       *)
(***************************************************************************)

Edit(p, row, queued) ==
  /\ edits < MaxEdits
  /\ edits' = edits + 1
  /\ row # db[p]
  /\ db' = [db EXCEPT ![p] = row]
  /\ jobs' = [jobs EXCEPT ![p] = @ \cup queued]
  /\ UNCHANGED <<manager, thread, pass, overlap, faults>>

Start(p) == Edit(p, [db[p] EXCEPT !.enabled = TRUE], {"subscribe"})
Stop(p) == Edit(p, [db[p] EXCEPT !.enabled = FALSE], {"unsubscribe"})
Reconfigure(p) ==
  \E c \in Candles, symbols \in SUBSET Symbols :
    Edit(p, [db[p] EXCEPT !.candle = c, !.symbols = symbols],
         IF db[p].enabled THEN {"reconfigure"} ELSE {})

\* The worker has booted: start() enabled every row before jobs and passes ran.
Booted(p) == IF db[p].enabled THEN [candle |-> db[p].candle, symbols |-> db[p].symbols] ELSE Inactive
Claims(s, iv) == {p \in Profiles : s \in profiles[p].symbols /\ iv \in Range(feedIntervals(profiles[p].candle))}
BootedFeed(s) ==
  IF \A p \in Profiles : s \notin profiles[p].symbols
  THEN [current |-> 0, streams |-> [h \in Handles |-> NoStreams], tickers |-> {}]
  ELSE [current |-> 1, tickers |-> {1},
        streams |-> [[h \in Handles |-> NoStreams] EXCEPT ![1] =
                       [iv \in Intervals |-> Cardinality(Claims(s, iv))]]]

Init ==
  /\ db = InitialDb
  /\ jobs = [p \in Profiles |-> {}]
  /\ profiles = [p \in Profiles |-> Booted(p)]
  /\ inverse = [s \in Symbols |-> {p \in Profiles : s \in profiles[p].symbols}]
  /\ feed = [s \in Symbols |-> BootedFeed(s)]
  /\ thread = [t \in Threads |-> NoThread]
  /\ pass = NoPass
  /\ overlap = FALSE
  /\ edits = 0
  /\ faults = 0

JobStep(p) == JobStart(p) \/ JobRow(p) \/ JobSymbols(p) \/ JobApply(p) \/ Resume(p)
PassStep ==
  PassStart \/ PassList \/ (\E p \in Profiles : PassLoad(p)) \/ PassVisit \/ Resume(Reconciler)

Next ==
  \/ \E p \in Profiles : JobStep(p) \/ JobFails(p) \/ Start(p) \/ Stop(p) \/ Reconfigure(p)
  \/ PassStep \/ PassFails

Spec == Init /\ [][Next]_vars

\* The interval keeps firing and the awaits of a pass return; since a pass always
\* has a next step, this is its weak fairness. Nothing is assumed of the jobs.
FairSpec == Spec /\ []<><<PassStep>>_vars

(***************************************************************************)
(* Properties.                                                             *)
(***************************************************************************)

Rows == [candle : Candles, symbols : SUBSET Symbols] \cup {Inactive}
Ops ==
  [op : {"add"}, symbols : SUBSET Symbols, candle : Candles]
  \cup [op : {"drop"}, symbol : Symbols, intervals : Seq(Intervals), handle : 0..MaxHandles]
  \cup [op : {"commit"}, added : SUBSET Symbols, released : SUBSET Symbols]

\* Types; no claim count goes below zero, even when two updates of a profile both
\* give its claims back.
TypeOK ==
  /\ db \in [Profiles -> [enabled : BOOLEAN, candle : Candles, symbols : SUBSET Symbols]]
  /\ jobs \in [Profiles -> SUBSET Kinds]
  /\ profiles \in [Profiles -> Rows]
  /\ inverse \in [Symbols -> SUBSET Profiles]
  /\ feed \in [Symbols -> [current : 0..MaxHandles, tickers : SUBSET Handles,
                           streams : [Handles -> [Intervals -> Nat]]]]
  /\ \A t \in Threads :
       /\ thread[t].pc \in {"idle", "row", "symbols", "apply", "plan"}
       /\ thread[t].kind \in Kinds /\ thread[t].profile \in Profiles
       /\ thread[t].detached \in BOOLEAN
       /\ thread[t].plan \in Seq(Ops)
       /\ thread[t].pc = "plan" <=> thread[t].plan # <<>>
  /\ pass.pc \in {"idle", "list", "load", "disable", "enable"} /\ pass.todo \subseteq Profiles
  /\ overlap \in BOOLEAN
  /\ edits \in 0..MaxEdits /\ faults \in 0..MaxFaults

Settled == \A t \in Threads : thread[t].plan = <<>>

\* What the header of subscriptions-manager.ts promises of a symbol: a stream is
\* open iff an active profile claims it, its count is the number of claims, and
\* the ticker lives as long as any stream does; no handle is left behind.
Exact(s) ==
  LET f == feed[s]
      claimed == {p \in Profiles : s \in profiles[p].symbols} # {}
  IN  /\ f.tickers = IF claimed THEN {f.current} ELSE {}
      /\ f.current = 0 <=> ~claimed
      /\ \A h \in Handles, iv \in Intervals :
           f.streams[h][iv] = IF h = f.current THEN Cardinality(Claims(s, iv)) ELSE 0

\* Between updates the counts of every stream are exact and the index agrees with
\* the profiles, however jobs of different profiles and passes of the reconciler
\* were interleaved, as long as no two updates met.
CountsMatchClaims ==
  Settled /\ ~overlap =>
    \A s \in Symbols : Exact(s) /\ inverse[s] = {p \in Profiles : s \in profiles[p].symbols}

\* A change of interval keeps a retained symbol fed: its shared streams and its
\* ticker "never flicker down to zero and back" while setSymbols is under way.
RetainedStaysFed ==
  \A t \in Threads :
    LET th == thread[t]
        commit == th.plan[Len(th.plan)]
    IN  th.plan # <<>> /\ ~overlap /\ commit.op = "commit" =>
          \A s \in th.row.symbols \ commit.added :
            /\ feed[s].current \in feed[s].tickers
            /\ \A iv \in Range(Shared) : feed[s].streams[feed[s].current][iv] > 0

\* Once the operator stops, the active profiles become what the rows say and stay
\* so: the periodic pass alone sees to it, whatever jobs failed or never ran and
\* whatever stale rows a pass or a job had read.
Converges == <>[](profiles = [p \in Profiles |-> Booted(p)])

\* subscriptions-manager.ts: a stream "closes only when its last claimant leaves".
FedUntilLastClaimant ==
  Settled =>
    \A p \in Profiles : \A s \in profiles[p].symbols :
      \A iv \in Range(feedIntervals(profiles[p].candle)) :
        feed[s].current # 0 /\ feed[s].streams[feed[s].current][iv] > 0

================================================================================
