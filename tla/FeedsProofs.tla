----------------------------- MODULE FeedsProofs -----------------------------
(***************************************************************************)
(* The reference counts of the market feeds are right for every set of     *)
(* profiles, symbols and intervals, as long as no two updates have met:    *)
(* between updates a stream is open iff an active profile claims it, with  *)
(* one count per claim, and a change of interval never leaves a retained   *)
(* symbol without its shared streams.  The invariant gives every profile,  *)
(* in the middle of an update too, the claims it has on each stream: the   *)
(* ones it keeps and the ones it still owes back.                          *)
(***************************************************************************)
EXTENDS Feeds, TLAPS

\* Most leaves are first-order; the ones with arithmetic or records name SMT.
USE Zenon

\* What the account needs to know of finite sets.  The lemmas assume it and LibraryCounts
\* shows it, at the end: the library slows the provers down wherever it is in scope.
Counting ==
  /\ \A S \in SUBSET Profiles :
       /\ Cardinality(S) \in Nat /\ (Cardinality(S) = 0 <=> S = {})
       /\ \A p \in Profiles : p \notin S => Cardinality(S \cup {p}) = Cardinality(S) + 1
  /\ \A D \in SUBSET Symbols :
       Cardinality(D) \in Nat /\ \E f : f \in Bijection(1..Cardinality(D), D)
  /\ \A D : D \subseteq Nat /\ D # {} => \E d \in D : \A e \in D : d <= e

(* A profile's account.  Everything here is about one thread record th, the *)
(* update of a profile, and the state st the manager has of that profile.   *)

Fed(candle) == Range(feedIntervals(candle))

\* The update is a setSymbols, which ends in its assignments.
Commits(th) == th.plan # <<>> /\ th.plan[Len(th.plan)].op = "commit"

\* The claims on s are still to be made, and the one on iv to be given back.
Awaited(plan, s) ==
  \E i \in DOMAIN plan : plan[i].op = "add" /\ s \in plan[i].symbols
Owed(plan, s, iv) ==
  \E i \in DOMAIN plan :
    /\ plan[i].op = "drop" /\ plan[i].symbol = s
    /\ \E k \in DOMAIN plan[i].intervals : plan[i].intervals[k] = iv

\* What the profile has once the update ends.
Goal(th, st) == IF Commits(th) THEN th.row ELSE st
Kept(th, st, s, iv) ==
  s \in Goal(th, st).symbols /\ iv \in Fed(Goal(th, st).candle) /\ ~Awaited(th.plan, s)

\* The claims of the profile on one stream: none, one, or two while an interval moves.
One(b) == IF b THEN 1 ELSE 0
Weight(th, st, s, iv) == One(Kept(th, st, s, iv)) + One(Owed(th.plan, s, iv))

AddOps == [op : {"add"}, symbols : SUBSET Symbols, candle : Candles]
DropOps == [op : {"drop"}, symbol : Symbols, intervals : Seq(Intervals), handle : 0..MaxHandles]
CommitOps == [op : {"commit"}, added : SUBSET Symbols, released : SUBSET Symbols]

\* Any plan that is under way: one drop per symbol, each symbol added once.
Step(plan, i) ==
  /\ plan[i].op = "add" => plan[i] \in AddOps
  /\ plan[i].op = "drop" =>
       /\ plan[i] \in DropOps
       /\ i > 1 => plan[i].handle = 0
       /\ plan[i].handle = 0 => plan[i].intervals # <<>>
       /\ IsInjective(plan[i].intervals)
  /\ plan[i].op = "commit" => plan[i] \in CommitOps
Steps(plan) == \A i \in DOMAIN plan : plan[i] \in Ops /\ Step(plan, i)
Apart(plan) ==
  \A i, j \in DOMAIN plan : i # j =>
    /\ plan[i].op = "drop" /\ plan[j].op = "drop" => plan[i].symbol # plan[j].symbol
    /\ plan[i].op = "add" /\ plan[j].op = "add" => plan[i].symbols \cap plan[j].symbols = {}
    /\ plan[i].op = "commit" => j < i

\* The plan of th is one for the state st.  The first call may add the symbols
\* whose interval moves, later ones add only new symbols.
Fits(th, st) ==
  IF Commits(th)
  THEN LET c == th.plan[Len(th.plan)] IN
       /\ th.row.candle \in Candles
       /\ c.added = th.row.symbols \ st.symbols
       /\ c.released = st.symbols \ th.row.symbols
       /\ \A i \in DOMAIN th.plan : th.plan[i].op = "add" =>
            th.plan[i].candle = th.row.candle /\ th.plan[i].symbols \subseteq th.row.symbols
  ELSE /\ st = Inactive
       /\ \A i \in DOMAIN th.plan : th.plan[i].op = "drop"
NewOnly(th, from) ==
  Commits(th) => \A i \in DOMAIN th.plan :
    i >= from /\ th.plan[i].op = "add" => th.plan[i].symbols \subseteq th.plan[Len(th.plan)].added

Going(th, st) ==
  /\ th.plan \in Seq(Ops) /\ th.plan # <<>>
  /\ Steps(th.plan) /\ Apart(th.plan) /\ Fits(th, st)

(* The worker.  T is the threads, P the profiles and F the feed.            *)

Busy(T, t) == T[t].plan # <<>>

\* The update of p that is under way, if any.
Of(T, p) ==
  IF \E t \in Threads : Busy(T, t) /\ T[t].profile = p
  THEN T[CHOOSE t \in Threads : Busy(T, t) /\ T[t].profile = p] ELSE NoThread
OneEach(T) ==
  \A t, u \in Threads : Busy(T, t) /\ Busy(T, u) /\ T[t].profile = T[u].profile => t = u

Keepers(T, P, s, iv) == {p \in Profiles : Kept(Of(T, p), P[p], s, iv)}
Owers(T, s, iv) == {p \in Profiles : Owed(Of(T, p).plan, s, iv)}
Count(T, P, s, iv) == Cardinality(Keepers(T, P, s, iv)) + Cardinality(Owers(T, s, iv))

\* The update of t has begun to give back the claims on s.
Started(T, t, s) ==
  /\ Busy(T, t)
  /\ T[t].plan[1].op = "drop" /\ T[t].plan[1].symbol = s /\ T[t].plan[1].handle # 0

\* The handle of s is the only one with streams; it exists while a profile has a
\* claim or an update has yet to look whether it may go.
Open(T, P, F, s) ==
  /\ \A h \in Handles : h # F[s].current => F[s].streams[h] = NoStreams
  /\ \A t \in Threads : Started(T, t, s) => T[t].plan[1].handle = F[s].current
  /\ \A t, u \in Threads : Started(T, t, s) /\ Started(T, u, s) => t = u
  /\ F[s].tickers = IF F[s].current = 0 THEN {} ELSE {F[s].current}
  /\ F[s].current = 0 => \A iv \in Intervals : Count(T, P, s, iv) = 0
  /\ F[s].current # 0 =>
       /\ \A iv \in Intervals : F[s].streams[F[s].current][iv] = Count(T, P, s, iv)
       /\ \/ \E iv \in Intervals : Count(T, P, s, iv) # 0
          \/ \E t \in Threads : Started(T, t, s)

FeedOf ==
  [current : 0..MaxHandles, tickers : SUBSET Handles, streams : [Handles -> [Intervals -> Nat]]]
FeedType == [Symbols -> FeedOf]
Loose == [candle : Candles \cup {""}, symbols : SUBSET Symbols]
ThreadType ==
  [pc : {"idle", "row", "symbols", "apply", "plan"}, kind : Kinds, profile : Profiles,
   row : Loose, plan : Seq(Ops), detached : {FALSE}]

Threaded(T, P) ==
  /\ T \in [Threads -> ThreadType]
  /\ OneEach(T)
  /\ \A t \in Threads : Busy(T, t) => Going(T[t], P[T[t].profile])
Index(P, inv) ==
  /\ P \in [Profiles -> Rows]
  /\ inv \in [Symbols -> SUBSET Profiles]
  /\ \A s \in Symbols : inv[s] = {p \in Profiles : s \in P[p].symbols}
Counted(T, P, F) == F \in FeedType /\ \A s \in Symbols : Open(T, P, F, s)

Ledger(T, P, F) == Threaded(T, P) /\ Counted(T, P, F)

\* The manager between two steps.
Whole == Ledger(thread, profiles, feed) /\ Index(profiles, inverse)

\* Jobs and passes between their reads and their updates.
DbType == [Profiles -> [enabled : BOOLEAN, candle : Candles, symbols : SUBSET Symbols]]
JobsType == [Profiles -> SUBSET Kinds]
Reads(t, th) ==
  /\ th.pc = "plan" <=> th.plan # <<>>
  /\ NewOnly(th, 1)
  /\ t \in Profiles =>
       /\ th.pc # "idle" => th.profile = t
       /\ th.pc = "symbols" => th.row.candle \in Candles
       /\ th.pc = "apply" /\ th.kind # "unsubscribe" => th.row.candle \in Candles
PassType ==
  [pc : {"idle", "list", "load", "disable", "enable"}, rows : [Profiles -> Rows], todo : SUBSET Profiles]
PassReads(ps) ==
  /\ ps \in PassType
  /\ ps.pc \in {"load", "enable"} => \A p \in ps.todo : ps.rows[p] # Inactive
Reading ==
  /\ db \in DbType /\ jobs \in JobsType
  /\ \A t \in Threads : Reads(t, thread[t])
  /\ PassReads(pass)

Sound == overlap = FALSE /\ Whole /\ Reading

\* q is a followed by b.
Joins(S, a, b, q) ==
  /\ q \in Seq(S)
  /\ Len(a) \in Nat /\ Len(b) \in Nat /\ Len(q) = Len(a) + Len(b)
  /\ DOMAIN a = 1..Len(a) /\ DOMAIN b = 1..Len(b) /\ DOMAIN q = 1..(Len(a) + Len(b))
  /\ \A i \in 1..Len(a) : q[i] = a[i]
  /\ \A i \in (Len(a) + 1)..(Len(a) + Len(b)) : q[i] = b[i - Len(a)]

\* What the concatenation of two sequences holds.
LEMMA Joined ==
  ASSUME NEW S, NEW a \in Seq(S), NEW b \in Seq(S)
  PROVE  Joins(S, a, b, a \o b)
<1>1. a \o b \in Seq(S) /\ Len(a) \in Nat /\ Len(b) \in Nat /\ Len(a \o b) = Len(a) + Len(b)
  BY SMT
<1>2. DOMAIN a = 1..Len(a) /\ DOMAIN b = 1..Len(b) /\ DOMAIN (a \o b) = 1..(Len(a) + Len(b))
  BY SMT
<1>3. \A i \in 1..Len(a) : (a \o b)[i] = a[i]
  BY SMT
<1>4. \A i \in (Len(a) + 1)..(Len(a) + Len(b)) : (a \o b)[i] = b[i - Len(a)]
  BY SMT
<1> QED
  BY <1>1, <1>2, <1>3, <1>4 DEF Joins

\* feedIntervals lists the candle and the shared intervals, each once.
LEMMA FedRest ==
  ASSUME NEW c \in Range(Shared), NEW k \in DOMAIN Shared, Shared[k] = c
  PROVE  LET rest == SubSeq(Shared, 1, k - 1) \o SubSeq(Shared, k + 1, Len(Shared)) IN
         /\ rest \in Seq(Range(Shared)) /\ IsInjective(rest)
         /\ \A i \in DOMAIN rest : rest[i] # c
         /\ Range(Shared) \subseteq {c} \cup Range(rest)
<1>1. Shared \in Seq(Range(Shared)) /\ IsInjective(Shared)
  BY FeedsAssumption
<1>2. /\ k \in 1..Len(Shared) /\ Len(Shared) \in Nat
      /\ DOMAIN Shared = 1..Len(Shared)
  BY SMT, <1>1
<1> DEFINE a == SubSeq(Shared, 1, k - 1)
           b == SubSeq(Shared, k + 1, Len(Shared))
           rest == a \o b
<1>3. /\ a \in Seq(Range(Shared)) /\ b \in Seq(Range(Shared))
      /\ Len(a) = k - 1 /\ Len(b) = Len(Shared) - k
      /\ \A i \in 1..(k - 1) : a[i] = Shared[i]
      /\ \A i \in 1..(Len(Shared) - k) : b[i] = Shared[i + k]
  BY SMT, <1>1, <1>2
<1>4. rest = a \o b
  OBVIOUS
<1> HIDE DEF rest, a, b
<1>5. /\ rest \in Seq(Range(Shared))
      /\ Len(rest) = Len(Shared) - 1
      /\ DOMAIN rest = 1..(Len(Shared) - 1)
      /\ \A i \in 1..(Len(Shared) - 1) : rest[i] = IF i < k THEN Shared[i] ELSE Shared[i + 1]
  <2>1. /\ rest \in Seq(Range(Shared))
        /\ Len(rest) = Len(a) + Len(b)
        /\ DOMAIN rest = 1..(Len(a) + Len(b))
        /\ \A i \in 1..Len(a) : rest[i] = a[i]
        /\ \A i \in (Len(a) + 1)..(Len(a) + Len(b)) : rest[i] = b[i - Len(a)]
    <3>1. Joins(Range(Shared), a, b, rest)
      BY <1>3, <1>4, Joined
    <3> QED
      BY <3>1 DEF Joins
  <2>2. \A i \in 1..(Len(Shared) - 1) : i < k => rest[i] = Shared[i]
    BY SMT, <1>2, <1>3, <2>1
  <2>3. \A i \in 1..(Len(Shared) - 1) : ~(i < k) => rest[i] = Shared[i + 1]
    <3> TAKE i \in 1..(Len(Shared) - 1)
    <3>1. HAVE ~(i < k)
    <3>2. i \in (Len(a) + 1)..(Len(a) + Len(b)) /\ i - Len(a) \in 1..(Len(Shared) - k)
          /\ (i - Len(a)) + k = i + 1
      BY SMT, <1>2, <1>3, <3>1
    <3> QED
      BY <1>3, <2>1, <3>2
  <2>4. Len(a) + Len(b) = Len(Shared) - 1
    BY SMT, <1>2, <1>3
  <2> QED
    BY <2>1, <2>2, <2>3, <2>4
<1>6. IsInjective(rest) /\ \A i \in DOMAIN rest : rest[i] # c
  <2> DEFINE at(i) == IF i < k THEN i ELSE i + 1
  <2>1. ASSUME NEW i \in DOMAIN rest
        PROVE  at(i) \in DOMAIN Shared /\ at(i) # k /\ rest[i] = Shared[at(i)]
    BY SMT, <1>2, <1>5
  <2>2. \A i, j \in DOMAIN rest : at(i) = at(j) => i = j
    BY SMT, <1>2, <1>5
  <2> HIDE DEF at
  <2> QED
    BY <1>1, <2>1, <2>2 DEF IsInjective
<1>7. ASSUME NEW x \in Range(Shared), x # c PROVE x \in Range(rest)
  <2>1. PICK i \in DOMAIN Shared : x = Shared[i]
    BY DEF Range
  <2>2. \E j \in DOMAIN rest : rest[j] = x
    <3>1. CASE i < k
      BY SMT, <1>2, <1>5, <2>1, <3>1
    <3>2. CASE i > k
      <4>1. i - 1 \in DOMAIN rest /\ rest[i - 1] = x
        BY SMT, <1>2, <1>5, <2>1, <3>2
      <4> QED
        BY <4>1
    <3> QED
      BY SMT, <1>2, <1>7, <2>1, <3>1, <3>2
  <2> QED
    BY <2>2 DEF Range
<1> QED
  BY <1>5, <1>6, <1>7 DEF rest, a, b

\* feedIntervals lists what a candle interval is fed with, each once.
LEMMA FedList ==
  ASSUME NEW c \in Candles
  PROVE  /\ feedIntervals(c) \in Seq(Intervals)
         /\ feedIntervals(c) # <<>>
         /\ IsInjective(feedIntervals(c))
         /\ Fed(c) = {c} \cup Range(Shared)
<1> DEFINE one == <<c>>
           at == {i \in DOMAIN Shared : Shared[i] = c}
           rest == IF at = {} THEN Shared
                   ELSE SubSeq(Shared, 1, Min(at) - 1) \o SubSeq(Shared, Min(at) + 1, Len(Shared))
<1>1. feedIntervals(c) = one \o rest
  BY DEF feedIntervals
<1>2. /\ rest \in Seq(Range(Shared)) /\ IsInjective(rest)
      /\ \A i \in DOMAIN rest : rest[i] # c
      /\ Range(Shared) \subseteq {c} \cup Range(rest)
  <2>1. CASE c \in Range(Shared)
    <3>1. PICK k \in DOMAIN Shared : Shared[k] = c
      BY <2>1 DEF Range
    <3>2. k \in Nat /\ at = {k}
      <4>1. Shared \in Seq(Range(Shared))
        BY FeedsAssumption
      <4>2. k \in Nat
        BY SMT, <4>1
      <4> QED
        BY <3>1, <4>2, FeedsAssumption DEF IsInjective
    <3>3. Min(at) = k
      <4>1. k <= k
        BY SMT, <3>2
      <4> HIDE DEF at
      <4> QED
        BY <3>2, <4>1 DEF Min
    <3>4. rest = SubSeq(Shared, 1, k - 1) \o SubSeq(Shared, k + 1, Len(Shared))
      BY <3>2, <3>3
    <3> HIDE DEF rest
    <3> QED
      BY <2>1, <3>1, <3>4, FedRest
  <2>2. CASE c \notin Range(Shared)
    BY <2>2, FeedsAssumption DEF Range
  <2> QED
    BY <2>1, <2>2
<1> HIDE DEF rest
<1>3. /\ one \in Seq(Intervals) /\ Len(one) = 1 /\ one[1] = c
      /\ rest \in Seq(Intervals)
  <2>1. c \in Intervals /\ \A x \in Range(Shared) : x \in Intervals
    BY DEF Intervals
  <2>2. rest \in Seq(Intervals)
    BY SMT, <1>2, <2>1
  <2> QED
    BY SMT, <2>1, <2>2
<1>4. /\ \A i \in DOMAIN rest : rest[i] \in Range(Shared)
      /\ DOMAIN rest = 1..Len(rest) /\ Len(rest) \in Nat
  BY SMT, <1>2
<1> HIDE DEF one
<1> DEFINE all == one \o rest
<1>5. /\ all \in Seq(Intervals)
      /\ Len(all) = 1 + Len(rest)
      /\ DOMAIN all = 1..(1 + Len(rest))
      /\ all[1] = c
      /\ \A i \in 2..(1 + Len(rest)) : all[i] = rest[i - 1]
  <2>1. /\ all \in Seq(Intervals)
        /\ Len(all) = Len(one) + Len(rest)
        /\ DOMAIN all = 1..(Len(one) + Len(rest))
        /\ \A i \in 1..Len(one) : all[i] = one[i]
        /\ \A i \in (Len(one) + 1)..(Len(one) + Len(rest)) : all[i] = rest[i - Len(one)]
    <3>1. Joins(Intervals, one, rest, all)
      BY <1>3, Joined
    <3> HIDE DEF all
    <3> QED
      BY <3>1 DEF Joins
  <2> HIDE DEF all
  <2> QED
    BY SMT, <1>3, <2>1
<1> HIDE DEF all
<1>6. IsInjective(all)
  <2>1. ASSUME NEW i \in DOMAIN all, i # 1
        PROVE  i - 1 \in DOMAIN rest /\ all[i] = rest[i - 1]
    BY SMT, <1>4, <1>5, <2>1
  <2>2. ASSUME NEW i \in DOMAIN all, NEW j \in DOMAIN all, all[i] = all[j], i # 1, j # 1
        PROVE  i = j
    <3>1. i - 1 = j - 1
      BY <1>2, <2>1, <2>2 DEF IsInjective
    <3> QED
      BY SMT, <1>5, <3>1
  <2>3. \A i \in DOMAIN all : i # 1 => all[i] # all[1]
    BY <1>2, <1>5, <2>1
  <2> QED
    BY <2>2, <2>3 DEF IsInjective
<1>7. ASSUME NEW x \in Range(all) PROVE x \in {c} \cup Range(Shared)
  <2>1. PICK i \in DOMAIN all : x = all[i]
    BY DEF Range
  <2>2. i = 1 \/ (i - 1 \in DOMAIN rest /\ x = rest[i - 1])
    BY SMT, <1>4, <1>5, <2>1
  <2> QED
    BY <1>4, <1>5, <2>1, <2>2
<1>8. ASSUME NEW x \in {c} \cup Range(rest) PROVE x \in Range(all)
  <2>1. CASE x = c
    <3>1. 1 \in DOMAIN all
      BY SMT, <1>4, <1>5
    <3> QED
      BY <1>5, <2>1, <3>1 DEF Range
  <2>2. CASE x \in Range(rest)
    <3>1. PICK i \in DOMAIN rest : x = rest[i]
      BY <2>2 DEF Range
    <3>2. i + 1 \in DOMAIN all /\ all[i + 1] = rest[i]
      BY SMT, <1>4, <1>5, <3>1
    <3> QED
      BY <3>1, <3>2 DEF Range
  <2> QED
    BY <1>8, <2>1, <2>2
<1>9. Range(all) = {c} \cup Range(Shared)
  BY <1>2, <1>7, <1>8
<1>10. all # <<>>
  BY SMT, <1>4, <1>5
<1> QED
  BY <1>1, <1>5, <1>6, <1>9, <1>10 DEF Fed, all

(* The plans of profile-manager.ts.                                          *)

\* q adds the symbols A on candle n and drops the symbols D from candle c.
Adding(op, A, n) == \E X \in SUBSET A : op = AddOp(X, n)
Dropping(op, D, c) == \E s \in D : op = DropOp(s, c)
Part(q, A, n, D, c) ==
  /\ q \in Seq(Ops)
  /\ \A i \in DOMAIN q : Adding(q[i], A, n) \/ Dropping(q[i], D, c)
  /\ Apart(q)
  /\ \A s \in A : Awaited(q, s)
  /\ \A s \in D : \E i \in DOMAIN q : q[i] = DropOp(s, c)

\* There is a handle to take.
LEMMA SomeHandle == MaxHandles \in Nat /\ 0 \in 0..MaxHandles /\ 1 \in Handles
<1>1. MaxHandles \in Nat \ {0}
  BY FeedsAssumption
<1> QED
  BY SMT, <1>1 DEF Handles

\* What the two kinds of market calls look like.
LEMMA AddShape ==
  ASSUME NEW n \in Candles, NEW X \in SUBSET Symbols
  PROVE  /\ AddOp(X, n) \in AddOps /\ AddOp(X, n) \in Ops
         /\ AddOp(X, n).op = "add" /\ AddOp(X, n).symbols = X /\ AddOp(X, n).candle = n
<1>1. /\ AddOp(X, n) \in AddOps
      /\ AddOp(X, n).op = "add" /\ AddOp(X, n).symbols = X /\ AddOp(X, n).candle = n
  BY SMT DEF AddOp, AddOps
<1> QED
  BY <1>1 DEF AddOps, Ops

\* A removeSymbols call, by its fields.
LEMMA DropShape ==
  ASSUME NEW c \in Candles, NEW s \in Symbols
  PROVE  /\ DropOp(s, c) \in DropOps /\ DropOp(s, c) \in Ops
         /\ DropOp(s, c).op = "drop" /\ DropOp(s, c).symbol = s
         /\ DropOp(s, c).intervals = feedIntervals(c) /\ DropOp(s, c).handle = 0
<1>1. feedIntervals(c) \in Seq(Intervals)
  BY FedList
<1>2. /\ DropOp(s, c) \in DropOps
      /\ DropOp(s, c).op = "drop" /\ DropOp(s, c).symbol = s
      /\ DropOp(s, c).intervals = feedIntervals(c) /\ DropOp(s, c).handle = 0
  BY SMT, <1>1, SomeHandle DEF DropOp, DropOps
<1> QED
  BY <1>2 DEF DropOps, Ops

\* A single addSymbols call.
LEMMA AddPart ==
  ASSUME NEW n \in Candles, NEW c \in Candles, NEW X \in SUBSET Symbols
  PROVE  Part(<<AddOp(X, n)>>, X, n, {}, c)
<1> DEFINE q == <<AddOp(X, n)>>
<1>1. AddOp(X, n) \in Ops /\ AddOp(X, n).op = "add" /\ AddOp(X, n).symbols = X
  BY AddShape
<1>2. q \in Seq(Ops) /\ DOMAIN q = {1} /\ q[1] = AddOp(X, n)
  BY SMT, <1>1
<1> HIDE DEF q
<1>3. Apart(q)
  BY <1>2 DEF Apart
<1>4. \A s \in X : Awaited(q, s)
  BY <1>1, <1>2 DEF Awaited
<1> QED
  BY <1>2, <1>3, <1>4 DEF Part, Adding, q

\* A symbol can be in the plan not at all.
LEMMA EmptyPart ==
  ASSUME NEW n, NEW c
  PROVE  Part(<<>>, {}, n, {}, c)
<1>1. <<>> \in Seq(Ops) /\ DOMAIN <<>> = {}
  BY SMT
<1> QED
  BY <1>1 DEF Part, Apart

\* removeSymbols goes through its symbols, each once.
LEMMA DropsPart ==
  ASSUME Counting, NEW n \in Candles, NEW c \in Candles, NEW D \in SUBSET Symbols
  PROVE  /\ Part(Drops(D, c), {}, n, D, c)
         /\ \A i \in DOMAIN Drops(D, c) : Drops(D, c)[i].op = "drop"
         /\ Drops(D, c) = <<>> <=> D = {}
<1> DEFINE m == Cardinality(D)
           order == CHOOSE f \in Bijection(1..m, D) : TRUE
           q == Drops(D, c)
<1>1. m \in Nat /\ order \in Bijection(1..m, D)
  BY DEF Counting
<1>2. /\ order \in [1..m -> D]
      /\ \A i, j \in 1..m : order[i] = order[j] => i = j
      /\ \A s \in D : \E i \in 1..m : order[i] = s
  BY <1>1 DEF Bijection, Injection, Surjection, IsInjective
<1>3. q = [i \in 1..m |-> DropOp(order[i], c)]
  BY DEF Drops
<1> HIDE DEF m, order, q
<1>4. \A i \in 1..m : /\ q[i] = DropOp(order[i], c) /\ order[i] \in D /\ q[i] \in Ops
                      /\ q[i].op = "drop" /\ q[i].symbol = order[i]
  <2> TAKE i \in 1..m
  <2>1. q[i] = DropOp(order[i], c) /\ order[i] \in D
    BY <1>2, <1>3
  <2>2. order[i] \in Symbols
    BY <2>1
  <2>3. DropOp(order[i], c) \in Ops /\ DropOp(order[i], c).op = "drop" /\ DropOp(order[i], c).symbol = order[i]
    BY <2>2, DropShape
  <2> QED
    BY <2>1, <2>3
<1>5. q \in Seq(Ops) /\ DOMAIN q = 1..m /\ Len(q) = m
  BY SMT, <1>1, <1>3, <1>4
<1>6. Apart(q)
  <2>1. \A i, j \in DOMAIN q : i # j => q[i].symbol # q[j].symbol
    BY SMT, <1>2, <1>4, <1>5
  <2>2. \A i \in DOMAIN q : q[i].op # "add" /\ q[i].op # "commit"
    BY <1>4, <1>5
  <2> QED
    BY <2>1, <2>2 DEF Apart
<1>7. \A s \in D : \E i \in DOMAIN q : q[i] = DropOp(s, c)
  <2> TAKE s \in D
  <2>1. PICK i \in 1..m : order[i] = s
    BY <1>2
  <2>2. q[i] = DropOp(s, c)
    BY <1>4, <2>1
  <2> QED
    BY <1>5, <2>2
<1>8. Part(q, {}, n, D, c)
  BY <1>4, <1>5, <1>6, <1>7 DEF Part, Dropping
<1>9. q = <<>> <=> D = {}
  <2>1. q = <<>> <=> 1..m = {}
    BY SMT, <1>1, <1>5
  <2> QED
    BY <1>2, <2>1
<1>10. \A i \in DOMAIN q : q[i].op = "drop"
  BY <1>4, <1>5
<1> QED
  BY <1>8, <1>9, <1>10 DEF q

\* The calls of a part.
Adds(op, A, n) == op \in AddOps /\ op.op = "add" /\ op.symbols \subseteq A /\ op.candle = n
Releases(op, D, c) ==
  /\ op \in DropOps /\ op.op = "drop" /\ op.symbol \in D
  /\ op.intervals = feedIntervals(c) /\ op.handle = 0

\* The calls of a part of a plan, by what they add and release.
LEMMA CallShape ==
  ASSUME NEW n \in Candles, NEW c \in Candles, NEW A \in SUBSET Symbols, NEW D \in SUBSET Symbols,
         NEW op
  PROVE  /\ Adding(op, A, n) => Adds(op, A, n)
         /\ Dropping(op, D, c) => Releases(op, D, c)
<1>1. ASSUME Adding(op, A, n) PROVE Adds(op, A, n)
  <2>1. PICK X \in SUBSET A : op = AddOp(X, n)
    BY <1>1 DEF Adding
  <2>2. X \in SUBSET Symbols
    BY <2>1
  <2>3. /\ AddOp(X, n) \in AddOps
        /\ AddOp(X, n).op = "add" /\ AddOp(X, n).symbols = X /\ AddOp(X, n).candle = n
    BY <2>2, AddShape
  <2> QED
    BY <2>1, <2>3 DEF Adds
<1>2. ASSUME Dropping(op, D, c) PROVE Releases(op, D, c)
  <2>1. PICK s \in D : op = DropOp(s, c)
    BY <1>2 DEF Dropping
  <2>2. s \in Symbols
    BY <2>1
  <2>3. /\ DropOp(s, c) \in DropOps
        /\ DropOp(s, c).op = "drop" /\ DropOp(s, c).symbol = s
        /\ DropOp(s, c).intervals = feedIntervals(c) /\ DropOp(s, c).handle = 0
    BY <2>2, DropShape
  <2> QED
    BY <2>1, <2>3 DEF Releases
<1> QED
  BY <1>1, <1>2

\* Where the elements of a concatenation come from.
Mixes(a, b, q) ==
  /\ \A i \in DOMAIN q : \/ i \in DOMAIN a /\ q[i] = a[i]
                         \/ i - Len(a) \in DOMAIN b /\ q[i] = b[i - Len(a)]
  /\ \A i \in DOMAIN a : i \in DOMAIN q /\ q[i] = a[i]
  /\ \A i \in DOMAIN b : \E j \in DOMAIN q : q[j] = b[i]

\* A concatenation holds what its two halves hold.
LEMMA Mixed ==
  ASSUME NEW S, NEW a \in Seq(S), NEW b \in Seq(S)
  PROVE  Mixes(a, b, a \o b)
<1> DEFINE q == a \o b
<1>1. Joins(S, a, b, q)
  BY Joined
<1> HIDE DEF q
<1>2. \A i \in DOMAIN q : \/ i \in DOMAIN a /\ q[i] = a[i]
                          \/ i - Len(a) \in DOMAIN b /\ q[i] = b[i - Len(a)]
  BY SMT, <1>1 DEF Joins
<1>3. \A i \in DOMAIN a : i \in DOMAIN q /\ q[i] = a[i]
  BY SMT, <1>1 DEF Joins
<1>4. ASSUME NEW i \in DOMAIN b PROVE \E j \in DOMAIN q : q[j] = b[i]
  <2>1. Len(a) + i \in DOMAIN q /\ q[Len(a) + i] = b[i]
    BY SMT, <1>1 DEF Joins
  <2> QED
    BY <2>1
<1> QED
  BY <1>2, <1>3, <1>4 DEF q, Mixes

\* Parts with different symbols make a part.
LEMMA JoinPart ==
  ASSUME NEW n \in Candles, NEW c \in Candles,
         NEW A \in SUBSET Symbols, NEW D \in SUBSET Symbols,
         NEW B \in SUBSET Symbols, NEW E \in SUBSET Symbols,
         NEW a, NEW b, Part(a, A, n, D, c), Part(b, B, n, E, c),
         A \cap B = {}, D \cap E = {}
  PROVE  Part(a \o b, A \cup B, n, D \cup E, c)
<1> DEFINE q == a \o b
           l == Len(a)
<1>1. a \in Seq(Ops) /\ b \in Seq(Ops)
  BY DEF Part
<1>2. Mixes(a, b, q)
  BY <1>1, Mixed
<1>3. q \in Seq(Ops) /\ l \in Nat /\ DOMAIN q \subseteq Nat
  BY SMT, <1>1
<1> HIDE DEF q
<1>4. \A i \in DOMAIN q : Adding(q[i], A \cup B, n) \/ Dropping(q[i], D \cup E, c)
  <2>1. \A op : /\ Adding(op, A, n) \/ Adding(op, B, n) => Adding(op, A \cup B, n)
                /\ Dropping(op, D, c) \/ Dropping(op, E, c) => Dropping(op, D \cup E, c)
    BY DEF Adding, Dropping
  <2> QED
    BY <1>2, <2>1 DEF Part, Mixes
<1> DEFINE Clear(x, y) ==
             /\ x.op = "drop" /\ y.op = "drop" => x.symbol # y.symbol
             /\ x.op = "add" /\ y.op = "add" => x.symbols \cap y.symbols = {}
             /\ x.op # "commit" /\ y.op # "commit"
<1>5. Apart(q)
  <2>1. ASSUME NEW x, NEW y,
               Adding(x, A, n) \/ Dropping(x, D, c), Adding(y, B, n) \/ Dropping(y, E, c)
        PROVE  Clear(x, y)
    <3>1. Adds(x, A, n) \/ Releases(x, D, c)
      BY <2>1, CallShape
    <3>2. Adds(y, B, n) \/ Releases(y, E, c)
      BY <2>1, CallShape
    <3> QED
      BY <3>1, <3>2 DEF Adds, Releases
  <2>2. ASSUME NEW i \in DOMAIN a, NEW j \in DOMAIN a, i # j PROVE Clear(a[i], a[j])
    <3>1. Adds(a[i], A, n) \/ Releases(a[i], D, c)
      BY CallShape DEF Part
    <3>2. Adds(a[j], A, n) \/ Releases(a[j], D, c)
      BY CallShape DEF Part
    <3> QED
      BY <2>2, <3>1, <3>2 DEF Part, Apart, Adds, Releases
  <2>3. ASSUME NEW i \in DOMAIN b, NEW j \in DOMAIN b, i # j PROVE Clear(b[i], b[j])
    <3>1. Adds(b[i], B, n) \/ Releases(b[i], E, c)
      BY CallShape DEF Part
    <3>2. Adds(b[j], B, n) \/ Releases(b[j], E, c)
      BY CallShape DEF Part
    <3> QED
      BY <2>3, <3>1, <3>2 DEF Part, Apart, Adds, Releases
  <2>4. ASSUME NEW i \in DOMAIN q, NEW j \in DOMAIN q, i # j PROVE Clear(q[i], q[j]) \/ Clear(q[j], q[i])
    <3>1. i - l # j - l
      BY SMT, <1>3, <2>4
    <3> HIDE DEF l, Clear
    <3>2. /\ (i \in DOMAIN a /\ q[i] = a[i]) \/ (i - l \in DOMAIN b /\ q[i] = b[i - l])
          /\ (j \in DOMAIN a /\ q[j] = a[j]) \/ (j - l \in DOMAIN b /\ q[j] = b[j - l])
      BY <1>2 DEF Mixes, l
    <3> QED
      BY <2>1, <2>2, <2>3, <2>4, <3>1, <3>2 DEF Part
  <2>5. ASSUME NEW i \in DOMAIN q, NEW j \in DOMAIN q, i # j PROVE Clear(q[i], q[j])
    BY <2>4, <2>5
  <2> QED
    BY <2>5 DEF Apart
<1>6. ASSUME NEW s \in A \cup B PROVE Awaited(q, s)
  <2>1. Awaited(a, s) \/ Awaited(b, s)
    BY DEF Part
  <2> QED
    BY <1>2, <2>1 DEF Mixes, Awaited
<1>7. \A s \in D \cup E : \E i \in DOMAIN q : q[i] = DropOp(s, c)
  BY <1>2 DEF Part, Mixes
<1> QED
  BY <1>3, <1>4, <1>5, <1>6, <1>7 DEF Part, q

\* A plan and what it comes to.
Plans(plan, A, n, D, c) ==
  /\ plan \in Seq(Ops) /\ Steps(plan) /\ Apart(plan)
  /\ \A s : Awaited(plan, s) <=> s \in A
  /\ \A s, iv : Owed(plan, s, iv) <=> s \in D /\ iv \in Fed(c)
  /\ \A i \in DOMAIN plan : plan[i].op = "add" => plan[i].candle = n /\ plan[i].symbols \subseteq A
  /\ \A i \in DOMAIN plan : plan[i].op = "drop" => plan[i].handle = 0

\* A part of a plan adds A and releases D, each symbol once.
LEMMA PartPlans ==
  ASSUME NEW n \in Candles, NEW c \in Candles, NEW A \in SUBSET Symbols, NEW D \in SUBSET Symbols,
         NEW q, Part(q, A, n, D, c)
  PROVE  Plans(q, A, n, D, c) /\ \A i \in DOMAIN q : q[i].op # "commit"
<1>1. ASSUME NEW i \in DOMAIN q PROVE Adds(q[i], A, n) \/ Releases(q[i], D, c)
  BY CallShape DEF Part
<1>2. /\ feedIntervals(c) # <<>> /\ IsInjective(feedIntervals(c))
      /\ Fed(c) = Range(feedIntervals(c))
  BY FedList DEF Fed
<1>3. Steps(q)
  <2> SUFFICES ASSUME NEW i \in DOMAIN q PROVE q[i] \in Ops /\ Step(q, i)
    BY DEF Steps
  <2>1. CASE Adds(q[i], A, n)
    BY <2>1 DEF Adds, Step, AddOps, Ops
  <2>2. CASE Releases(q[i], D, c)
    BY <1>2, <2>2 DEF Releases, Step, DropOps, Ops
  <2> QED
    BY <1>1, <2>1, <2>2
<1>4. \A s : Awaited(q, s) <=> s \in A
  <2>1. ASSUME NEW s, Awaited(q, s) PROVE s \in A
    <3>1. PICK i \in DOMAIN q : q[i].op = "add" /\ s \in q[i].symbols
      BY <2>1 DEF Awaited
    <3> QED
      BY <1>1, <3>1 DEF Adds, Releases
  <2> QED
    BY <2>1 DEF Part
<1>5. ASSUME NEW s, NEW iv PROVE Owed(q, s, iv) <=> s \in D /\ iv \in Fed(c)
  <2>1. ASSUME Owed(q, s, iv) PROVE s \in D /\ iv \in Fed(c)
    <3>1. PICK i \in DOMAIN q : /\ q[i].op = "drop" /\ q[i].symbol = s
                                /\ \E k \in DOMAIN q[i].intervals : q[i].intervals[k] = iv
      BY <2>1 DEF Owed
    <3>2. Releases(q[i], D, c)
      BY <1>1, <3>1 DEF Adds
    <3>3. s \in D /\ q[i].intervals = feedIntervals(c)
      BY <3>1, <3>2 DEF Releases
    <3> QED
      BY <1>2, <3>1, <3>3 DEF Range
  <2>2. ASSUME s \in D, iv \in Fed(c) PROVE Owed(q, s, iv)
    <3>1. PICK i \in DOMAIN q : q[i] = DropOp(s, c)
      BY <2>2 DEF Part
    <3>2. s \in Symbols
      BY <2>2
    <3>3. q[i].op = "drop" /\ q[i].symbol = s /\ q[i].intervals = feedIntervals(c)
      <4>1. DropOp(s, c).op = "drop" /\ DropOp(s, c).symbol = s /\ DropOp(s, c).intervals = feedIntervals(c)
        BY <3>2, DropShape
      <4> QED
        BY <3>1, <4>1
    <3>4. \E k \in DOMAIN feedIntervals(c) : feedIntervals(c)[k] = iv
      BY <2>2 DEF Fed, Range
    <3> QED
      BY <3>3, <3>4 DEF Owed
  <2> QED
    BY <2>1, <2>2
<1>6. \A i \in DOMAIN q : /\ q[i].op # "commit"
                          /\ q[i].op = "add" => q[i].candle = n /\ q[i].symbols \subseteq A
                          /\ q[i].op = "drop" => q[i].handle = 0
  BY <1>1 DEF Adds, Releases
<1> QED
  BY <1>3, <1>4, <1>5, <1>6 DEF Plans, Part

\* The assignments at the end of setSymbols change nothing of that.
Ends(plan, q, last) ==
  /\ Len(q) \in Nat /\ Len(plan) = Len(q) + 1 /\ plan[Len(plan)] = last
  /\ \A i \in DOMAIN q : i \in DOMAIN plan /\ plan[i] = q[i]

\* The same plan, ended by its assignments.
LEMMA Closed ==
  ASSUME NEW n \in Candles, NEW c \in Candles, NEW A \in SUBSET Symbols, NEW D \in SUBSET Symbols,
         NEW q, Part(q, A, n, D, c), NEW last \in CommitOps
  PROVE  Plans(q \o <<last>>, A, n, D, c) /\ Ends(q \o <<last>>, q, last)
<1> DEFINE end == <<last>>
           plan == q \o end
<1>1. last.op = "commit" /\ last \in Ops
  BY DEF CommitOps, Ops
<1>2. /\ end \in Seq(Ops) /\ Len(end) = 1 /\ end[1] = last
      /\ q \in Seq(Ops)
  BY SMT, <1>1 DEF Part
<1> HIDE DEF end
<1>3. Joins(Ops, q, end, plan)
  BY <1>2, Joined
<1> HIDE DEF plan
<1>4. /\ Len(q) \in Nat /\ Len(plan) = Len(q) + 1
      /\ plan \in Seq(Ops) /\ plan[Len(plan)] = last
      /\ DOMAIN q = 1..Len(q) /\ DOMAIN plan = 1..(Len(q) + 1)
      /\ \A i \in DOMAIN q : i \in DOMAIN plan /\ plan[i] = q[i]
  BY SMT, <1>2, <1>3 DEF Joins
<1>5. \A i \in DOMAIN plan : \/ i \in DOMAIN q /\ plan[i] = q[i]
                             \/ i = Len(plan) /\ plan[i] = last
  BY SMT, <1>4
<1>6. Plans(q, A, n, D, c) /\ \A i \in DOMAIN q : q[i].op # "commit"
  BY PartPlans
<1>7. Steps(plan)
  <2>1. ASSUME NEW i \in DOMAIN q PROVE plan[i] \in Ops /\ Step(plan, i)
    BY <1>4, <1>6 DEF Plans, Steps, Step
  <2>2. ASSUME NEW i \in DOMAIN plan, plan[i] = last PROVE plan[i] \in Ops /\ Step(plan, i)
    <3>1. plan[i].op = "commit" /\ plan[i] \in CommitOps
      BY <1>1, <2>2
    <3>2. plan[i].op # "add" /\ plan[i].op # "drop"
      BY <3>1
    <3> QED
      BY <1>1, <2>2, <3>1, <3>2 DEF Step
  <2> QED
    BY <1>5, <2>1, <2>2 DEF Steps
<1>8. Apart(plan)
  <2>1. \A i \in DOMAIN plan : plan[i].op = "commit" => i = Len(plan)
    BY <1>4, <1>5, <1>6
  <2>2. \A i \in DOMAIN plan : i # Len(plan) => i < Len(plan)
    BY SMT, <1>4
  <2>3. \A i \in DOMAIN plan : plan[i].op # "commit" => i \in DOMAIN q /\ plan[i] = q[i]
    BY <1>1, <1>5
  <2>4. Apart(q)
    BY <1>6 DEF Plans
  <2> SUFFICES ASSUME NEW i \in DOMAIN plan, NEW j \in DOMAIN plan, i # j
               PROVE  /\ plan[i].op = "drop" /\ plan[j].op = "drop" => plan[i].symbol # plan[j].symbol
                      /\ plan[i].op = "add" /\ plan[j].op = "add" => plan[i].symbols \cap plan[j].symbols = {}
                      /\ plan[i].op = "commit" => j < i
    BY DEF Apart
  <2>5. plan[i].op = "commit" => j < i
    BY <2>1, <2>2
  <2>6. CASE plan[i].op # "commit" /\ plan[j].op # "commit"
    <3>1. i \in DOMAIN q /\ plan[i] = q[i] /\ j \in DOMAIN q /\ plan[j] = q[j]
      BY <2>3, <2>6
    <3> QED
      BY <2>4, <2>5, <3>1 DEF Apart
  <2> QED
    BY <2>5, <2>6
<1>9. \A s : Awaited(plan, s) <=> Awaited(q, s)
  BY <1>1, <1>4, <1>5 DEF Awaited
<1>10. \A s, iv : Owed(plan, s, iv) <=> Owed(q, s, iv)
  <2>1. \A i \in DOMAIN plan : plan[i].op = "drop" => i \in DOMAIN q /\ plan[i] = q[i]
    BY <1>1, <1>5
  <2>2. \A i \in DOMAIN q : i \in DOMAIN plan /\ plan[i] = q[i]
    BY <1>4
  <2>3. ASSUME NEW s, NEW iv, Owed(plan, s, iv) PROVE Owed(q, s, iv)
    BY <2>1, <2>3 DEF Owed
  <2>4. ASSUME NEW s, NEW iv, Owed(q, s, iv) PROVE Owed(plan, s, iv)
    BY <2>2, <2>4 DEF Owed
  <2> QED
    BY <2>3, <2>4
<1>11. \A i \in DOMAIN plan : plan[i].op = "add" => plan[i].candle = n /\ plan[i].symbols \subseteq A
  BY <1>1, <1>5, <1>6 DEF Plans
<1>13. \A i \in DOMAIN plan : plan[i].op = "drop" => plan[i].handle = 0
  BY <1>1, <1>5, <1>6 DEF Plans
<1>12. Plans(plan, A, n, D, c)
  BY <1>4, <1>6, <1>7, <1>8, <1>9, <1>10, <1>11, <1>13 DEF Plans
<1> QED
  BY <1>4, <1>12 DEF plan, end, Ends

\* The plan of setSymbols: it adds the new symbols and, when the interval moves, the
\* retained ones, the latter first; it drops the others and the old interval.
LEMMA SetPlan ==
  ASSUME Counting, NEW st, NEW nx, st.symbols \in SUBSET Symbols, nx.symbols \in SUBSET Symbols,
         st.candle \in Candles, nx.candle \in Candles
  PROVE  LET plan == setSymbolsPlan(st, nx)
             added == nx.symbols \ st.symbols
             released == st.symbols \ nx.symbols
             moved == IF nx.candle # st.candle THEN st.symbols \cap nx.symbols ELSE {} IN
         /\ Plans(plan, moved \cup added, nx.candle, moved \cup released, st.candle)
         /\ plan # <<>>
         /\ plan[Len(plan)] = [op |-> "commit", added |-> added, released |-> released]
         /\ moved # {} => plan[1] = AddOp(moved, nx.candle)
<1> DEFINE n == nx.candle
           c == st.candle
           added == nx.symbols \ st.symbols
           released == st.symbols \ nx.symbols
           retained == st.symbols \cap nx.symbols
           moves == n # c /\ retained # {}
           moved == IF n # c THEN retained ELSE {}
           first == IF moves THEN <<AddOp(retained, n)>> \o Drops(retained, c) ELSE <<>>
           second == IF added # {} THEN <<AddOp(added, n)>> ELSE <<>>
           third == Drops(released, c)
           last == [op |-> "commit", added |-> added, released |-> released]
           plan == setSymbolsPlan(st, nx)
<1>1. plan = ((first \o second) \o third) \o <<last>>
  BY DEF setSymbolsPlan
<1>2. last \in CommitOps
  BY SMT DEF CommitOps
<1>3. /\ n \in Candles /\ c \in Candles
      /\ added \in SUBSET Symbols /\ released \in SUBSET Symbols /\ retained \in SUBSET Symbols
      /\ moved \in SUBSET Symbols
      /\ moved \cap added = {} /\ moved \cap released = {}
      /\ moves => moved = retained
      /\ ~moves => moved = {}
  OBVIOUS
<1> HIDE DEF plan, n, c, added, released, retained, moved, last
<1>4. /\ Part(first, moved, n, moved, c)
      /\ moves => 1 \in DOMAIN first /\ first[1] = AddOp(moved, n)
  <2>1. CASE moves
    <3> DEFINE a == <<AddOp(retained, n)>>
               b == Drops(retained, c)
    <3>1. Part(a, retained, n, {}, c) /\ Part(b, {}, n, retained, c)
      BY <1>3, AddPart, DropsPart
    <3>2. a[1] = AddOp(retained, n) /\ 1 \in DOMAIN a
      BY SMT
    <3>3. first = a \o b
      BY <2>1
    <3> HIDE DEF a, b, first, moves
    <3>4. Part(a \o b, retained \cup {}, n, {} \cup retained, c)
      <4>1. {} \in SUBSET Symbols /\ retained \cap {} = {} /\ {} \cap retained = {}
        OBVIOUS
      <4> QED
        BY <1>3, <3>1, <4>1, JoinPart
    <3>5. Mixes(a, b, a \o b)
      BY <3>1, Mixed DEF Part
    <3>6. retained \cup {} = moved /\ {} \cup retained = moved
      BY <1>3, <2>1
    <3>7. Part(first, moved, n, moved, c)
      BY <3>3, <3>4, <3>6
    <3> QED
      BY <1>3, <2>1, <3>2, <3>3, <3>5, <3>7 DEF Mixes
  <2>2. CASE ~moves
    BY <1>3, <2>2, EmptyPart
  <2> QED
    BY <2>1, <2>2
<1>5. Part(second, added, n, {}, c)
  <2>1. CASE added # {}
    BY <1>3, <2>1, AddPart
  <2>2. CASE added = {}
    BY <2>2, EmptyPart
  <2> QED
    BY <2>1, <2>2
<1>6. Part(third, {}, n, released, c)
  BY <1>3, DropsPart
<1> HIDE DEF first, second, third, moves
<1> DEFINE two == first \o second
           body == two \o third
<1>7. Part(two, moved \cup added, n, moved, c)
  <2>1. Part(first \o second, moved \cup added, n, moved \cup {}, c)
    <3>1. {} \in SUBSET Symbols /\ moved \cap {} = {}
      OBVIOUS
    <3> QED
      BY <1>3, <1>4, <1>5, <3>1, JoinPart
  <2>2. moved \cup {} = moved
    OBVIOUS
  <2> QED
    BY <2>1, <2>2
<1>8. Mixes(first, second, two)
  BY <1>4, <1>5, Mixed DEF Part
<1> HIDE DEF two
<1>9. Part(body, moved \cup added, n, moved \cup released, c)
  <2>1. Part(two \o third, (moved \cup added) \cup {}, n, moved \cup released, c)
    <3>1. moved \cup added \in SUBSET Symbols /\ {} \in SUBSET Symbols /\ (moved \cup added) \cap {} = {}
      BY <1>3
    <3> QED
      BY <1>3, <1>6, <1>7, <3>1, JoinPart
  <2>2. (moved \cup added) \cup {} = moved \cup added
    OBVIOUS
  <2> QED
    BY <2>1, <2>2
<1>10. Mixes(two, third, body)
  BY <1>6, <1>7, Mixed DEF Part
<1>11. plan = body \o <<last>>
  BY <1>1 DEF two
<1> HIDE DEF body
<1>12. Plans(plan, moved \cup added, n, moved \cup released, c) /\ Ends(plan, body, last)
  <2>1. moved \cup added \in SUBSET Symbols /\ moved \cup released \in SUBSET Symbols
    BY <1>3
  <2> QED
    BY <1>2, <1>3, <1>9, <1>11, <2>1, Closed
<1>13. plan # <<>>
  BY SMT, <1>12 DEF Ends
<1>14. moves => plan[1] = AddOp(moved, n)
  BY <1>4, <1>8, <1>10, <1>12 DEF Mixes, Ends
<1>15. moved # {} => moves
  BY <1>3
<1> QED
  BY <1>12, <1>13, <1>14, <1>15 DEF Ends, plan, n, c, added, released, retained, moved, last

(* One profile's account: what each step of its update does to its claims.   *)

Runs(plan) == plan \in Seq(Ops) /\ plan # <<>> /\ Steps(plan) /\ Apart(plan)
First(op, s, iv) ==
  op.op = "drop" /\ op.symbol = s /\ \E k \in DOMAIN op.intervals : op.intervals[k] = iv

\* What is left of a plan after its first call.
LEMMA Rest ==
  ASSUME NEW plan, Runs(plan)
  PROVE  LET rest == Tail(plan) IN
         /\ rest \in Seq(Ops) /\ Steps(rest) /\ Apart(rest)
         /\ 1 \in DOMAIN plan /\ plan[1] \in Ops /\ Len(plan) \in DOMAIN plan
         /\ rest = <<>> <=> Len(plan) = 1
         /\ rest # <<>> => rest[Len(rest)] = plan[Len(plan)]
         /\ \A i \in DOMAIN rest : i + 1 \in DOMAIN plan /\ i + 1 >= 2 /\ rest[i] = plan[i + 1]
         /\ \A i \in DOMAIN plan : i # 1 => i - 1 \in DOMAIN rest /\ rest[i - 1] = plan[i]
         /\ \A s : Awaited(plan, s) <=>
              (plan[1].op = "add" /\ s \in plan[1].symbols) \/ Awaited(rest, s)
         /\ \A s, iv : Owed(plan, s, iv) <=> First(plan[1], s, iv) \/ Owed(rest, s, iv)
<1> DEFINE rest == Tail(plan)
<1>1. /\ rest \in Seq(Ops) /\ Len(plan) \in Nat \ {0} /\ Len(rest) = Len(plan) - 1
      /\ DOMAIN plan = 1..Len(plan) /\ DOMAIN rest = 1..(Len(plan) - 1)
      /\ \A i \in 1..(Len(plan) - 1) : rest[i] = plan[i + 1]
  <2>1. plan \in Seq(Ops) /\ plan # <<>>
    BY DEF Runs
  <2>2. rest \in Seq(Ops) /\ Len(plan) \in Nat \ {0} /\ Len(rest) = Len(plan) - 1
    BY SMT, <2>1
  <2>3. DOMAIN plan = 1..Len(plan) /\ DOMAIN rest = 1..(Len(plan) - 1)
    BY SMT, <2>1, <2>2
  <2>4. \A i \in 1..(Len(plan) - 1) : rest[i] = plan[i + 1]
    BY SMT, <2>1
  <2> HIDE DEF rest
  <2> QED
    BY <2>2, <2>3, <2>4
<1> HIDE DEF rest
<1>2. rest = <<>> <=> Len(plan) = 1
  BY SMT, <1>1
<1>3. 1 \in DOMAIN plan /\ Len(plan) \in DOMAIN plan
  BY SMT, <1>1
<1>4. \A i \in DOMAIN rest : i + 1 \in DOMAIN plan /\ i + 1 >= 2 /\ i + 1 > 1 /\ rest[i] = plan[i + 1]
  BY SMT, <1>1
<1>5. \A i \in DOMAIN plan : i # 1 => i - 1 \in DOMAIN rest /\ rest[i - 1] = plan[i]
  BY SMT, <1>1
<1>6. rest # <<>> => rest[Len(rest)] = plan[Len(plan)]
  BY SMT, <1>1, <1>2
<1>7. plan[1] \in Ops
  BY <1>3 DEF Runs, Steps
<1>8. Steps(rest)
  <2> SUFFICES ASSUME NEW i \in DOMAIN rest PROVE rest[i] \in Ops /\ Step(rest, i)
    BY DEF Steps
  <2>1. i + 1 \in DOMAIN plan /\ i + 1 > 1 /\ rest[i] = plan[i + 1]
    BY <1>4
  <2>2. plan[i + 1] \in Ops /\ Step(plan, i + 1)
    BY <2>1 DEF Runs, Steps
  <2> QED
    BY <2>1, <2>2 DEF Step
<1>9. Apart(rest)
  <2> SUFFICES ASSUME NEW i \in DOMAIN rest, NEW j \in DOMAIN rest, i # j
               PROVE  /\ rest[i].op = "drop" /\ rest[j].op = "drop" => rest[i].symbol # rest[j].symbol
                      /\ rest[i].op = "add" /\ rest[j].op = "add" => rest[i].symbols \cap rest[j].symbols = {}
                      /\ rest[i].op = "commit" => j < i
    BY DEF Apart
  <2>1. i + 1 # j + 1 /\ (j + 1 < i + 1 => j < i)
    BY SMT, <1>1
  <2>2. /\ i + 1 \in DOMAIN plan /\ rest[i] = plan[i + 1]
        /\ j + 1 \in DOMAIN plan /\ rest[j] = plan[j + 1]
    BY <1>4
  <2> QED
    BY <2>1, <2>2 DEF Runs, Apart
<1>10. ASSUME NEW s
       PROVE  Awaited(plan, s) <=> (plan[1].op = "add" /\ s \in plan[1].symbols) \/ Awaited(rest, s)
  <2>1. ASSUME Awaited(plan, s)
        PROVE  (plan[1].op = "add" /\ s \in plan[1].symbols) \/ Awaited(rest, s)
    BY <1>5, <2>1 DEF Awaited
  <2>2. ASSUME Awaited(rest, s) PROVE Awaited(plan, s)
    <3>1. PICK i \in DOMAIN rest : rest[i].op = "add" /\ s \in rest[i].symbols
      BY <2>2 DEF Awaited
    <3>2. i + 1 \in DOMAIN plan /\ rest[i] = plan[i + 1]
      BY <1>4
    <3> QED
      BY <3>1, <3>2 DEF Awaited
  <2> QED
    BY <1>3, <2>1, <2>2 DEF Awaited
<1>11. ASSUME NEW s, NEW iv
       PROVE  Owed(plan, s, iv) <=> First(plan[1], s, iv) \/ Owed(rest, s, iv)
  <2>1. \A q : Owed(q, s, iv) <=> \E i \in DOMAIN q : First(q[i], s, iv)
    BY DEF Owed, First
  <2>2. ASSUME Owed(plan, s, iv) PROVE First(plan[1], s, iv) \/ Owed(rest, s, iv)
    BY <1>5, <2>1, <2>2
  <2>3. ASSUME Owed(rest, s, iv) PROVE Owed(plan, s, iv)
    <3>1. PICK i \in DOMAIN rest : First(rest[i], s, iv)
      BY <2>1, <2>3
    <3>2. i + 1 \in DOMAIN plan /\ rest[i] = plan[i + 1]
      BY <1>4
    <3> QED
      BY <2>1, <3>1, <3>2
  <2> QED
    BY <1>3, <2>1, <2>2, <2>3
<1> QED
  BY <1>1, <1>2, <1>3, <1>4, <1>5, <1>6, <1>7, <1>8, <1>9, <1>10, <1>11 DEF rest

\* A profile without an update has the claims of its state.
LEMMA IdleWeight ==
  ASSUME NEW th, NEW st, NEW s, NEW iv, th.plan = <<>>
  PROVE  Weight(th, st, s, iv) = One(s \in st.symbols /\ iv \in Fed(st.candle))
<1>1. DOMAIN <<>> = {}
  BY SMT
<1>2. ~Commits(th) /\ ~Awaited(th.plan, s) /\ ~Owed(th.plan, s, iv)
  BY <1>1 DEF Commits, Awaited, Owed
<1>3. Kept(th, st, s, iv) <=> s \in st.symbols /\ iv \in Fed(st.candle)
  BY <1>2 DEF Kept, Goal
<1>4. One(Kept(th, st, s, iv)) = One(s \in st.symbols /\ iv \in Fed(st.candle))
  BY <1>3 DEF One
<1>5. One(Owed(th.plan, s, iv)) = 0
  BY <1>2 DEF One
<1> QED
  <2>1. One(s \in st.symbols /\ iv \in Fed(st.candle)) \in Nat
    BY SMT DEF One
  <2> QED
    BY SMT, <1>4, <1>5, <2>1 DEF Weight

\* Rows of the manager.
LEMMA RowShape ==
  ASSUME NEW st \in Rows
  PROVE  /\ st.symbols \in SUBSET Symbols
         /\ st # Inactive => st.candle \in Candles
         /\ st = Inactive => st.symbols = {}
<1>0. Inactive.symbols = {}
  BY DEF Inactive
<1>1. CASE st \in [candle : Candles, symbols : SUBSET Symbols]
  BY <1>0, <1>1
<1>2. CASE st = Inactive
  BY <1>0, <1>2
<1> QED
  BY <1>1, <1>2 DEF Rows

\* Threads keep their other fields when they get a plan.
LEMMA WithPlan ==
  ASSUME NEW th \in ThreadType, NEW plan
  PROVE  /\ LET t2 == [th EXCEPT !.plan = plan] IN
              /\ t2.plan = plan /\ t2.row = th.row /\ t2.profile = th.profile
              /\ plan \in Seq(Ops) => t2 \in ThreadType
         /\ LET t2 == [th EXCEPT !.pc = "plan", !.plan = plan] IN
              /\ t2.pc = "plan" /\ t2.plan = plan /\ t2.row = th.row /\ t2.profile = th.profile
              /\ plan \in Seq(Ops) => t2 \in ThreadType
<1> DEFINE t1 == [th EXCEPT !.plan = plan]
           t2 == [th EXCEPT !.pc = "plan", !.plan = plan]
<1>1. t1.plan = plan /\ t1.row = th.row /\ t1.profile = th.profile
  BY DEF ThreadType
<1>2. t2.pc = "plan" /\ t2.plan = plan /\ t2.row = th.row /\ t2.profile = th.profile
  BY DEF ThreadType
<1>3. plan \in Seq(Ops) => t1 \in ThreadType
  BY DEF ThreadType
<1>4. plan \in Seq(Ops) => t2 \in ThreadType
  BY DEF ThreadType
<1> QED
  BY <1>1, <1>2, <1>3, <1>4

\* The update has not begun to give anything back.
Fresh(th) == th.plan # <<>> /\ th.plan[1].op = "drop" => th.plan[1].handle = 0

\* setSymbols begins: the claims are the ones the state has, some now owed.
LEMMA BeginSet ==
  ASSUME Counting, NEW th \in ThreadType, NEW st \in Rows, st # Inactive, th.row.candle \in Candles
  PROVE  LET t2 == [th EXCEPT !.plan = setSymbolsPlan(st, th.row)] IN
         /\ t2 \in ThreadType /\ Going(t2, st) /\ NewOnly(t2, 2) /\ Fresh(t2)
         /\ \A s, iv : Weight(t2, st, s, iv) = Weight(NoThread, st, s, iv)
<1> DEFINE plan == setSymbolsPlan(st, th.row)
           t2 == [th EXCEPT !.plan = plan]
           added == th.row.symbols \ st.symbols
           released == st.symbols \ th.row.symbols
           moved == IF th.row.candle # st.candle THEN st.symbols \cap th.row.symbols ELSE {}
           last == [op |-> "commit", added |-> added, released |-> released]
<1>1. st.symbols \in SUBSET Symbols /\ st.candle \in Candles
  BY RowShape
<1>2. th.row.symbols \in SUBSET Symbols
  <2>1. th.row \in Loose
    BY DEF ThreadType
  <2> QED
    BY <2>1 DEF Loose
<1>3. /\ Plans(plan, moved \cup added, th.row.candle, moved \cup released, st.candle)
      /\ plan # <<>> /\ plan[Len(plan)] = last
      /\ moved # {} => plan[1] = AddOp(moved, th.row.candle)
  BY <1>1, <1>2, SetPlan
<1>4. plan \in Seq(Ops) /\ Steps(plan) /\ Apart(plan)
  BY <1>3 DEF Plans
<1>5. t2.plan = plan /\ t2.row = th.row /\ t2 \in ThreadType
  BY <1>4, WithPlan
<1>6. last.op = "commit" /\ last.added = added /\ last.released = released
  BY SMT
<1> HIDE DEF plan, t2, last
<1>7. Commits(t2)
  BY <1>3, <1>5, <1>6 DEF Commits
<1>8. Going(t2, st)
  <2>1. moved \cup added \subseteq th.row.symbols
    OBVIOUS
  <2>2. Fits(t2, st)
    <3>1. \A i \in DOMAIN plan : plan[i].op = "add" =>
            plan[i].candle = th.row.candle /\ plan[i].symbols \subseteq th.row.symbols
      BY <1>3, <2>1 DEF Plans
    <3> QED
      BY <1>3, <1>5, <1>6, <1>7, <3>1 DEF Fits
  <2> QED
    BY <1>3, <1>4, <1>5, <2>2 DEF Going
<1>9. NewOnly(t2, 2)
  <2> SUFFICES ASSUME NEW i \in DOMAIN plan, i >= 2, plan[i].op = "add"
               PROVE  plan[i].symbols \subseteq added
    BY <1>3, <1>5, <1>6 DEF NewOnly
  <2>1. plan[i].symbols \subseteq moved \cup added
    BY <1>3 DEF Plans
  <2>2. CASE moved # {}
    <3>1. moved \in SUBSET Symbols
      BY <1>1
    <3>2. AddOp(moved, th.row.candle).op = "add" /\ AddOp(moved, th.row.candle).symbols = moved
      BY <3>1, AddShape
    <3>3. 1 \in DOMAIN plan /\ i # 1
      BY SMT, <1>3, <1>4
    <3>4. plan[1].op = "add" /\ plan[1].symbols = moved
      BY <1>3, <2>2, <3>2
    <3>5. plan[i].symbols \cap moved = {}
      BY <1>4, <3>3, <3>4 DEF Apart
    <3> QED
      BY <2>1, <3>5
  <2> QED
    BY <2>1, <2>2
<1>10. ASSUME NEW s, NEW iv PROVE Weight(t2, st, s, iv) = Weight(NoThread, st, s, iv)
  <2>1. Weight(NoThread, st, s, iv) = One(s \in st.symbols /\ iv \in Fed(st.candle))
    <3>1. NoThread.plan = <<>>
      BY SMT DEF NoThread
    <3> QED
      BY <3>1, IdleWeight
  <2>2. Kept(t2, st, s, iv) <=>
          s \in th.row.symbols /\ iv \in Fed(th.row.candle) /\ s \notin moved \cup added
    BY <1>3, <1>5, <1>7 DEF Kept, Goal, Plans
  <2>3. Owed(t2.plan, s, iv) <=> s \in moved \cup released /\ iv \in Fed(st.candle)
    BY <1>3, <1>5 DEF Plans
  <2>4. CASE th.row.candle # st.candle
    <3>1. ~Kept(t2, st, s, iv) /\ (Owed(t2.plan, s, iv) <=> s \in st.symbols /\ iv \in Fed(st.candle))
      BY <2>2, <2>3, <2>4
    <3> QED
      BY SMT, <2>1, <3>1 DEF Weight, One
  <2>5. CASE th.row.candle = st.candle
    <3>1. /\ Kept(t2, st, s, iv) => s \in st.symbols /\ iv \in Fed(st.candle) /\ ~Owed(t2.plan, s, iv)
          /\ Owed(t2.plan, s, iv) => s \in st.symbols /\ iv \in Fed(st.candle)
          /\ s \in st.symbols /\ iv \in Fed(st.candle) => Kept(t2, st, s, iv) \/ Owed(t2.plan, s, iv)
      BY <2>2, <2>3, <2>5
    <3> QED
      BY SMT, <2>1, <3>1 DEF Weight, One
  <2> QED
    BY <2>4, <2>5
<1>11. Fresh(t2)
  <2>1. 1 \in DOMAIN plan
    BY SMT, <1>3, <1>4
  <2> QED
    BY <1>3, <1>5, <2>1 DEF Fresh, Plans
<1> QED
  BY <1>5, <1>8, <1>9, <1>10, <1>11 DEF t2, plan

\* disable begins: every claim is owed.
LEMMA BeginDrop ==
  ASSUME Counting, NEW th \in ThreadType, NEW st \in Rows, st # Inactive
  PROVE  LET plan == Drops(st.symbols, st.candle)
             t2 == [th EXCEPT !.plan = plan] IN
         /\ t2 \in ThreadType /\ t2.plan = plan /\ Fresh(t2)
         /\ plan = <<>> <=> st.symbols = {}
         /\ plan # <<>> => Going(t2, Inactive) /\ NewOnly(t2, 1)
         /\ \A s, iv : Weight(t2, Inactive, s, iv) = Weight(NoThread, st, s, iv)
<1> DEFINE plan == Drops(st.symbols, st.candle)
           t2 == [th EXCEPT !.plan = plan]
<1>1. st.symbols \in SUBSET Symbols /\ st.candle \in Candles /\ {} \in SUBSET Symbols
  BY RowShape
<1>2. Part(plan, {}, st.candle, st.symbols, st.candle) /\ (plan = <<>> <=> st.symbols = {})
  BY <1>1, DropsPart
<1>8. \A i \in DOMAIN plan : plan[i].op = "drop"
  BY <1>1, DropsPart
<1>3. Plans(plan, {}, st.candle, st.symbols, st.candle) /\ \A i \in DOMAIN plan : plan[i].op # "commit"
  BY <1>1, <1>2, PartPlans
<1>4. plan \in Seq(Ops) /\ Steps(plan) /\ Apart(plan)
  BY <1>3 DEF Plans
<1>5. t2 \in ThreadType /\ t2.plan = plan
  BY <1>4, WithPlan
<1> HIDE DEF plan, t2
<1>6. plan # <<>> => Len(plan) \in DOMAIN plan
  BY SMT, <1>4
<1>7. ~Commits(t2)
  BY <1>3, <1>5, <1>6 DEF Commits
<1>9. plan # <<>> => Going(t2, Inactive) /\ NewOnly(t2, 1)
  BY <1>4, <1>5, <1>7, <1>8 DEF Going, Fits, NewOnly
<1>10. ASSUME NEW s, NEW iv PROVE Weight(t2, Inactive, s, iv) = Weight(NoThread, st, s, iv)
  <2>1. Weight(NoThread, st, s, iv) = One(s \in st.symbols /\ iv \in Fed(st.candle))
    <3>1. NoThread.plan = <<>>
      BY SMT DEF NoThread
    <3> QED
      BY <3>1, IdleWeight
  <2>2. ~Kept(t2, Inactive, s, iv)
    BY <1>7 DEF Kept, Goal, Inactive
  <2>3. Owed(t2.plan, s, iv) <=> s \in st.symbols /\ iv \in Fed(st.candle)
    BY <1>3, <1>5 DEF Plans
  <2> QED
    BY SMT, <2>1, <2>2, <2>3 DEF Weight, One
<1>11. Fresh(t2)
  <2>1. plan # <<>> => 1 \in DOMAIN plan
    BY SMT, <1>4
  <2> QED
    BY <1>3, <1>5, <2>1 DEF Fresh, Plans
<1> QED
  BY <1>2, <1>5, <1>9, <1>10, <1>11 DEF plan, t2

\* The thread of an update once plan is what is left of it.
After(th, plan) ==
  IF plan = <<>> THEN NoThread ELSE [th EXCEPT !.pc = "plan", !.plan = plan]

\* An idle thread.
LEMMA IdleThread ==
  NoThread \in ThreadType /\ NoThread.plan = <<>> /\ NoThread.pc = "idle"
<1>1. (CHOOSE p \in Profiles : TRUE) \in Profiles
  BY FeedsAssumption
<1>2. <<>> \in Seq(Ops)
  BY SMT
<1>3. Inactive \in Loose
  BY DEF Inactive, Loose
<1> HIDE DEF Inactive
<1> QED
  BY <1>1, <1>2, <1>3 DEF NoThread, ThreadType, Kinds

\* The fields of the thread afterwards.
LEMMA AfterShape ==
  ASSUME NEW th \in ThreadType, NEW plan \in Seq(Ops)
  PROVE  /\ After(th, plan) \in ThreadType
         /\ After(th, plan).plan = plan
         /\ plan # <<>> => /\ After(th, plan).row = th.row /\ After(th, plan).profile = th.profile
                           /\ After(th, plan).pc = "plan"
         /\ plan = <<>> => After(th, plan) = NoThread
<1>1. CASE plan = <<>>
  BY <1>1, IdleThread DEF After
<1>2. CASE plan # <<>>
  BY <1>2, WithPlan DEF After
<1> QED
  BY <1>1, <1>2

\* The first market call of an update ends: what the profile will have stays, and its
\* claims grow by what was added and shrink by what was dropped.
Grows(th, t2, st, op) ==
  \A s, iv : Weight(t2, st, s, iv) = Weight(th, st, s, iv) + One(s \in op.symbols /\ iv \in Fed(op.candle))
Shrinks(th, t2, st, op) ==
  \A s, iv : Weight(t2, st, s, iv) = Weight(th, st, s, iv) - One(First(op, s, iv))

\* The rest of a plan after its first call.
LEMMA TailStep ==
  ASSUME NEW th \in ThreadType, NEW st, Going(th, st), th.plan[1].op # "commit"
  PROVE  LET op == th.plan[1]
             t2 == After(th, Tail(th.plan)) IN
         /\ t2 \in ThreadType /\ t2.plan = Tail(th.plan)
         /\ t2.plan # <<>> => Going(t2, st) /\ (NewOnly(th, 2) => NewOnly(t2, 1))
         /\ op.op = "add" => t2.plan # <<>>
         /\ op.op = "add" => Grows(th, t2, st, op)
         /\ op.op # "add" => Shrinks(th, t2, st, op)
<1> DEFINE plan == th.plan
           rest == Tail(th.plan)
           op == plan[1]
           t2 == After(th, rest)
<1>1. Runs(plan)
  BY DEF Going, Runs
<1>2. /\ rest \in Seq(Ops) /\ Steps(rest) /\ Apart(rest)
      /\ 1 \in DOMAIN plan /\ Len(plan) \in DOMAIN plan
      /\ rest = <<>> <=> Len(plan) = 1
      /\ rest # <<>> => rest[Len(rest)] = plan[Len(plan)]
      /\ \A i \in DOMAIN rest : i + 1 \in DOMAIN plan /\ i + 1 >= 2 /\ rest[i] = plan[i + 1]
  BY <1>1, Rest
<1>3. /\ \A s : Awaited(plan, s) <=> (op.op = "add" /\ s \in op.symbols) \/ Awaited(rest, s)
      /\ \A s, iv : Owed(plan, s, iv) <=> First(op, s, iv) \/ Owed(rest, s, iv)
  BY <1>1, Rest
<1>4. /\ t2 \in ThreadType /\ t2.plan = rest
      /\ rest # <<>> => t2.row = th.row
  BY <1>2, AfterShape
<1>5. \A i \in DOMAIN rest : i + 1 # 1
  BY SMT, <1>2
<1> HIDE DEF plan, rest, t2, op
<1>6. plan = th.plan /\ op = plan[1]
  BY DEF plan, op
<1>7. Commits(t2) <=> Commits(th)
  BY <1>1, <1>2, <1>4, <1>6 DEF Commits, Runs
<1>8. Goal(t2, st) = Goal(th, st)
  BY <1>4, <1>7 DEF Goal, Commits
<1>9. op.op = "add" => Commits(th)
  BY <1>2, <1>6 DEF Going, Fits
<1>10. op.op = "add" => t2.plan # <<>>
  BY <1>7, <1>9 DEF Commits
<1>11. rest # <<>> => Going(t2, st)
  <2> SUFFICES ASSUME rest # <<>> PROVE Fits(t2, st)
    BY <1>2, <1>4 DEF Going
  <2>1. /\ t2.plan = rest /\ t2.row = th.row /\ rest[Len(rest)] = plan[Len(plan)]
        /\ \A i \in DOMAIN rest : i + 1 \in DOMAIN plan /\ rest[i] = plan[i + 1]
    BY <1>2, <1>4
  <2>2. CASE Commits(th)
    <3> DEFINE c == plan[Len(plan)]
    <3>1. /\ th.row.candle \in Candles
          /\ c.added = th.row.symbols \ st.symbols
          /\ c.released = st.symbols \ th.row.symbols
          /\ \A i \in DOMAIN plan : plan[i].op = "add" =>
               plan[i].candle = th.row.candle /\ plan[i].symbols \subseteq th.row.symbols
      BY <1>6, <2>2 DEF Going, Fits
    <3>2. \A i \in DOMAIN rest : rest[i].op = "add" =>
            rest[i].candle = th.row.candle /\ rest[i].symbols \subseteq th.row.symbols
      <4> TAKE i \in DOMAIN rest
      <4>1. i + 1 \in DOMAIN plan /\ rest[i] = plan[i + 1]
        BY <2>1
      <4> QED
        BY <3>1, <4>1
    <3> HIDE DEF c
    <3>3. t2.plan[Len(t2.plan)] = c
      BY <2>1 DEF c
    <3>4. Commits(t2)
      BY <1>7, <2>2
    <3> QED
      BY <2>1, <3>1, <3>2, <3>3, <3>4 DEF Fits
  <2>3. CASE ~Commits(th)
    BY <1>6, <1>7, <2>1, <2>3 DEF Going, Fits
  <2> QED
    BY <2>2, <2>3
<1>12. rest # <<>> /\ NewOnly(th, 2) => NewOnly(t2, 1)
  BY <1>2, <1>4, <1>6, <1>7 DEF NewOnly
<1>13. ASSUME op.op = "add", NEW s, NEW iv
       PROVE  Weight(t2, st, s, iv) = Weight(th, st, s, iv) + One(s \in op.symbols /\ iv \in Fed(op.candle))
  <2>1. Goal(th, st) = th.row /\ op.candle = th.row.candle /\ op.symbols \subseteq th.row.symbols
    BY <1>2, <1>6, <1>9, <1>13 DEF Goal, Going, Fits
  <2>2. s \in op.symbols => ~Awaited(rest, s)
    <3> SUFFICES ASSUME s \in op.symbols, NEW i \in DOMAIN rest, rest[i].op = "add", s \in rest[i].symbols
                 PROVE  FALSE
      BY DEF Awaited
    <3>1. i + 1 \in DOMAIN plan /\ i + 1 # 1 /\ rest[i] = plan[i + 1]
      BY <1>2, <1>5
    <3>2. plan[i + 1].symbols \cap plan[1].symbols = {}
      <4>1. plan[1].op = "add" /\ plan[i + 1].op = "add"
        BY <1>6, <1>13, <3>1
      <4>2. Apart(plan)
        BY <1>1 DEF Runs
      <4> QED
        BY <1>2, <3>1, <4>1, <4>2 DEF Apart
    <3> QED
      BY <1>6, <3>1, <3>2
  <2>3. Owed(t2.plan, s, iv) <=> Owed(th.plan, s, iv)
    BY <1>3, <1>4, <1>6, <1>13 DEF First
  <2>4. /\ Kept(t2, st, s, iv) <=> Kept(th, st, s, iv) \/ (s \in op.symbols /\ iv \in Fed(op.candle))
        /\ Kept(th, st, s, iv) => ~(s \in op.symbols)
    BY <1>3, <1>4, <1>6, <1>8, <1>13, <2>1, <2>2 DEF Kept
  <2> QED
    BY SMT, <2>3, <2>4 DEF Weight, One
<1>14. ASSUME op.op # "add", NEW s, NEW iv
       PROVE  Weight(t2, st, s, iv) = Weight(th, st, s, iv) - One(First(op, s, iv))
  <2>1. Kept(t2, st, s, iv) <=> Kept(th, st, s, iv)
    BY <1>3, <1>4, <1>6, <1>8, <1>14 DEF Kept
  <2>2. First(op, s, iv) => ~Owed(rest, s, iv)
    <3> SUFFICES ASSUME First(op, s, iv), NEW i \in DOMAIN rest, rest[i].op = "drop", rest[i].symbol = s
                 PROVE  FALSE
      BY DEF Owed
    <3>1. i + 1 \in DOMAIN plan /\ i + 1 # 1 /\ rest[i] = plan[i + 1]
      BY <1>2, <1>5
    <3>2. plan[1].op = "drop" /\ plan[1].symbol = s
      BY <1>6 DEF First
    <3> QED
      BY <1>1, <1>2, <3>1, <3>2 DEF Runs, Apart
  <2>3. Owed(th.plan, s, iv) <=> First(op, s, iv) \/ Owed(t2.plan, s, iv)
    BY <1>3, <1>4, <1>6
  <2>4. First(op, s, iv) => ~Owed(t2.plan, s, iv)
    BY <1>4, <2>2
  <2> QED
    BY SMT, <2>1, <2>3, <2>4 DEF Weight, One
<1> QED
  BY <1>4, <1>10, <1>11, <1>12, <1>13, <1>14 DEF t2, rest, op, plan, Grows, Shrinks

\* A removeSymbols stops at a stream it closes: the claims up to there are given back.
Loses(th, t2, st, op, n) ==
  \A s, iv : Weight(t2, st, s, iv) =
    Weight(th, st, s, iv) - One(s = op.symbol /\ iv \in {op.intervals[i] : i \in 1..n})
Parts(th, t2, st, op, h, n) ==
  /\ t2 \in ThreadType /\ t2.plan # <<>> /\ t2.profile = th.profile /\ t2.pc = "plan"
  /\ t2.plan[1].op = "drop" /\ t2.plan[1].symbol = op.symbol /\ t2.plan[1].handle = h
  /\ Going(t2, st) /\ (NewOnly(th, 2) => NewOnly(t2, 1))
  /\ Loses(th, t2, st, op, n)

\* The rest of a plan after its first call has given back n intervals.
LEMMA PartStep ==
  ASSUME NEW th \in ThreadType, NEW st, Going(th, st), th.plan[1].op = "drop",
         NEW h \in Handles, NEW n \in 1..Len(th.plan[1].intervals)
  PROVE  LET op == th.plan[1]
             d == [op EXCEPT !.handle = h]
             rest == [d EXCEPT !.intervals = SubSeq(@, n + 1, Len(@))]
             t2 == After(th, <<rest>> \o Tail(th.plan)) IN
         Parts(th, t2, st, op, h, n)
<1> DEFINE old == th.plan
           op == old[1]
           d == [op EXCEPT !.handle = h]
           rest == [d EXCEPT !.intervals = SubSeq(@, n + 1, Len(@))]
           plan == <<rest>> \o Tail(old)
           t2 == After(th, plan)
           left == SubSeq(op.intervals, n + 1, Len(op.intervals))
<1>1. old \in Seq(Ops) /\ old # <<>> /\ Steps(old) /\ Apart(old)
  BY DEF Going
<1>2. /\ Len(old) \in Nat \ {0} /\ DOMAIN old = 1..Len(old)
      /\ 1 \in DOMAIN old /\ Len(old) \in DOMAIN old
  BY SMT, <1>1
<1>3. Step(old, 1) /\ op.op = "drop"
  BY <1>1, <1>2 DEF Steps
<1>4. op \in DropOps /\ IsInjective(op.intervals)
  BY <1>3 DEF Step
<1>5. /\ op.symbol \in Symbols /\ op.intervals \in Seq(Intervals)
      /\ op = [op |-> "drop", symbol |-> op.symbol, intervals |-> op.intervals, handle |-> op.handle]
  BY <1>4 DEF DropOps
<1> HIDE DEF op
<1>6. n \in Nat /\ n >= 1 /\ n <= Len(op.intervals) /\ Len(op.intervals) \in Nat
  BY SMT, <1>5 DEF op
<1>7. /\ left \in Seq(Intervals) /\ Len(left) = Len(op.intervals) - n
      /\ DOMAIN left = 1..(Len(op.intervals) - n)
      /\ \A i \in 1..(Len(op.intervals) - n) : left[i] = op.intervals[i + n]
      /\ DOMAIN op.intervals = 1..Len(op.intervals)
  BY SMT, <1>5, <1>6
<1> HIDE DEF left
<1>8. rest = [op |-> "drop", symbol |-> op.symbol, intervals |-> left, handle |-> h]
  <2>1. d = [op |-> "drop", symbol |-> op.symbol, intervals |-> op.intervals, handle |-> h]
    BY SMT, <1>5
  <2>2. d.intervals = op.intervals
    BY <2>1
  <2>3. rest = [d EXCEPT !.intervals = left]
    BY <2>2 DEF left
  <2> HIDE DEF d
  <2> QED
    BY SMT, <2>1, <2>3
<1>9. h \in 0..MaxHandles /\ h # 0
  BY SMT, SomeHandle DEF Handles
<1> HIDE DEF rest
<1>10. rest \in DropOps /\ rest.op = "drop" /\ rest.symbol = op.symbol /\ rest.intervals = left /\ rest.handle = h
  BY <1>5, <1>7, <1>8, <1>9 DEF DropOps
<1>11. rest \in Ops
  BY <1>10 DEF DropOps, Ops
<1>12. IsInjective(left)
  <2>1. ASSUME NEW i \in DOMAIN left, NEW j \in DOMAIN left, left[i] = left[j] PROVE i = j
    <3>1. i \in 1..(Len(op.intervals) - n) /\ j \in 1..(Len(op.intervals) - n)
      BY <1>7
    <3>2. i + n \in DOMAIN op.intervals /\ j + n \in DOMAIN op.intervals
      BY SMT, <1>6, <1>7, <3>1
    <3>3. op.intervals[i + n] = op.intervals[j + n]
      BY <1>7, <2>1, <3>1
    <3>4. i + n = j + n
      BY <1>4, <3>2, <3>3 DEF IsInjective
    <3> QED
      BY SMT, <1>6, <3>1, <3>4
  <2> QED
    BY <2>1 DEF IsInjective
<1>13. /\ plan \in Seq(Ops) /\ Len(plan) = Len(old) /\ plan # <<>>
       /\ DOMAIN plan = 1..Len(old) /\ plan[1] = rest
       /\ \A i \in 1..Len(old) : i # 1 => plan[i] = old[i]
  <2> DEFINE tail == Tail(old)
  <2>1. tail \in Seq(Ops) /\ Len(tail) = Len(old) - 1 /\ \A i \in 1..(Len(old) - 1) : tail[i] = old[i + 1]
    BY SMT, <1>1
  <2> HIDE DEF tail, old
  <2>2. plan = <<rest>> \o tail
    BY DEF tail
  <2> DEFINE one == <<rest>>
  <2>6. one \in Seq(Ops) /\ Len(one) = 1 /\ one[1] = rest
    BY SMT, <1>11
  <2> DEFINE q == one \o tail
  <2>7. Joins(Ops, one, tail, q)
    BY <2>1, <2>6, Joined
  <2>8. plan = q
    BY <2>2
  <2> HIDE DEF one, q, plan
  <2>3. q \in Seq(Ops) /\ Len(q) = Len(old) /\ DOMAIN q = 1..Len(old)
    BY SMT, <1>2, <2>1, <2>6, <2>7 DEF Joins
  <2>4. q[1] = rest
    BY SMT, <2>6, <2>7 DEF Joins
  <2>5. ASSUME NEW i \in 1..Len(old), i # 1 PROVE q[i] = old[i]
    <3>1. i - 1 \in 1..(Len(old) - 1) /\ (i - 1) + 1 = i
      BY SMT, <1>2, <2>5
    <3>2. q[i] = tail[i - 1]
      BY SMT, <1>2, <2>1, <2>5, <2>6, <2>7 DEF Joins
    <3>3. tail[i - 1] = old[(i - 1) + 1]
      BY <2>1, <3>1
    <3> QED
      BY <3>1, <3>2, <3>3
  <2>9. q # <<>>
    BY SMT, <1>2, <2>3
  <2> QED
    BY <2>3, <2>4, <2>5, <2>8, <2>9
<1>14. t2 \in ThreadType /\ t2.plan = plan /\ t2.row = th.row /\ t2.profile = th.profile /\ t2.pc = "plan"
  BY <1>13, AfterShape
<1>15. old = th.plan /\ op = old[1]
  BY DEF op
<1> HIDE DEF plan, t2, old
<1>16. \A i \in DOMAIN plan : /\ i \in DOMAIN old /\ plan[i].op = old[i].op
                              /\ plan[i].op # "drop" => plan[i] = old[i] /\ i # 1
                              /\ plan[i].op = "drop" => plan[i].symbol = old[i].symbol
  BY <1>2, <1>3, <1>10, <1>13, <1>15
<1>17. Steps(plan)
  <2> SUFFICES ASSUME NEW i \in DOMAIN plan PROVE plan[i] \in Ops /\ Step(plan, i)
    BY DEF Steps
  <2>1. CASE i = 1
    <3>1. ~(i > 1)
      BY SMT, <2>1
    <3> QED
      BY <1>9, <1>10, <1>11, <1>12, <1>13, <2>1, <3>1 DEF Step
  <2>2. CASE i # 1
    <3>1. i \in DOMAIN old /\ plan[i] = old[i]
      BY <1>2, <1>13, <2>2
    <3> QED
      BY <1>1, <3>1 DEF Steps, Step
  <2> QED
    BY <2>1, <2>2
<1>18. Apart(plan)
  <2> SUFFICES ASSUME NEW i \in DOMAIN plan, NEW j \in DOMAIN plan, i # j
               PROVE  /\ plan[i].op = "drop" /\ plan[j].op = "drop" => plan[i].symbol # plan[j].symbol
                      /\ plan[i].op = "add" /\ plan[j].op = "add" => plan[i].symbols \cap plan[j].symbols = {}
                      /\ plan[i].op = "commit" => j < i
    BY DEF Apart
  <2>1. i \in DOMAIN old /\ j \in DOMAIN old
    BY <1>16
  <2>2. /\ old[i].op = "drop" /\ old[j].op = "drop" => old[i].symbol # old[j].symbol
        /\ old[i].op = "add" /\ old[j].op = "add" => old[i].symbols \cap old[j].symbols = {}
        /\ old[i].op = "commit" => j < i
    BY <1>1, <2>1 DEF Apart
  <2>3. /\ plan[i].op = "drop" /\ plan[j].op = "drop" => plan[i].symbol # plan[j].symbol
        /\ plan[i].op = "commit" => j < i
    BY <1>16, <2>2
  <2>4. plan[i].op = "add" /\ plan[j].op = "add" => plan[i] = old[i] /\ plan[j] = old[j]
    BY <1>16
  <2> QED
    BY <2>2, <2>3, <2>4
<1>19. /\ Commits(th) <=> Commits(t2)
       /\ Commits(th) => t2.plan[Len(t2.plan)] = old[Len(old)]
  <2>1. Len(plan) \in DOMAIN plan /\ Len(plan) = Len(old)
    BY <1>2, <1>13
  <2>2. plan[Len(plan)].op = old[Len(old)].op
    BY <1>16, <2>1
  <2>3. plan[Len(plan)].op = "commit" => plan[Len(plan)] = old[Len(old)]
    <3>1. "commit" # "drop"
      OBVIOUS
    <3> QED
      BY <1>16, <2>1, <3>1
  <2> QED
    BY <1>1, <1>13, <1>14, <1>15, <2>2, <2>3 DEF Commits
<1>20. Goal(t2, st) = Goal(th, st)
  BY <1>14, <1>19 DEF Goal
<1>21. Fits(t2, st)
  <2>1. CASE Commits(th)
    <3> DEFINE c == old[Len(old)]
    <3>1. /\ th.row.candle \in Candles
          /\ c.added = th.row.symbols \ st.symbols
          /\ c.released = st.symbols \ th.row.symbols
          /\ \A i \in DOMAIN old : old[i].op = "add" =>
               old[i].candle = th.row.candle /\ old[i].symbols \subseteq th.row.symbols
      BY <1>15, <2>1 DEF Going, Fits
    <3>2. \A i \in DOMAIN plan : plan[i].op = "add" =>
            plan[i].candle = th.row.candle /\ plan[i].symbols \subseteq th.row.symbols
      <4> TAKE i \in DOMAIN plan
      <4>1. plan[i].op = "add" => i \in DOMAIN old /\ plan[i] = old[i]
        BY <1>16
      <4> HIDE DEF c
      <4> QED
        BY <3>1, <4>1
    <3> HIDE DEF c
    <3>3. t2.plan[Len(t2.plan)] = c /\ Commits(t2)
      BY <1>19, <2>1 DEF c
    <3> QED
      BY <1>14, <3>1, <3>2, <3>3 DEF Fits
  <2>2. CASE ~Commits(th)
    <3>1. st = Inactive /\ \A i \in DOMAIN old : old[i].op = "drop"
      BY <1>15, <2>2 DEF Going, Fits
    <3>2. \A i \in DOMAIN t2.plan : t2.plan[i].op = "drop"
      BY <1>14, <1>16, <3>1
    <3> QED
      BY <1>19, <2>2, <3>1, <3>2 DEF Fits
  <2> QED
    BY <2>1, <2>2
<1>22. Going(t2, st)
  BY <1>13, <1>14, <1>17, <1>18, <1>21 DEF Going
<1>23. NewOnly(th, 2) => NewOnly(t2, 1)
  <2> SUFFICES ASSUME NewOnly(th, 2), Commits(t2), NEW i \in DOMAIN plan, plan[i].op = "add"
               PROVE  plan[i].symbols \subseteq t2.plan[Len(t2.plan)].added
    BY <1>14 DEF NewOnly
  <2>1. i \in DOMAIN old /\ i # 1 /\ plan[i] = old[i]
    BY <1>16
  <2>2. i >= 2
    BY SMT, <1>2, <2>1
  <2>3. old[i].symbols \subseteq old[Len(old)].added
    BY <1>15, <1>19, <2>1, <2>2 DEF NewOnly
  <2> QED
    BY <1>19, <2>1, <2>3
<1>24. ASSUME NEW s, NEW iv
       PROVE  Weight(t2, st, s, iv) =
                Weight(th, st, s, iv) - One(s = op.symbol /\ iv \in {op.intervals[i] : i \in 1..n})
  <2> DEFINE given == {op.intervals[i] : i \in 1..n}
  <2>1. \A q : Owed(q, s, iv) <=> \E i \in DOMAIN q : First(q[i], s, iv)
    BY DEF Owed, First
  <2>2. First(op, s, iv) <=> s = op.symbol /\ (iv \in given \/ \E k \in DOMAIN left : left[k] = iv)
    <3>1. ASSUME NEW k \in DOMAIN op.intervals
          PROVE  op.intervals[k] \in given \/ \E m \in DOMAIN left : left[m] = op.intervals[k]
      <4>1. k \in 1..n \/ (k - n \in DOMAIN left /\ left[k - n] = op.intervals[k])
        BY SMT, <1>6, <1>7
      <4> QED
        BY <4>1
    <3>2. 1..n \subseteq DOMAIN op.intervals
      BY SMT, <1>6, <1>7
    <3>3. \A m \in DOMAIN left : m + n \in DOMAIN op.intervals /\ left[m] = op.intervals[m + n]
      BY SMT, <1>6, <1>7
    <3>4. ASSUME First(op, s, iv) 
          PROVE  s = op.symbol /\ (iv \in given \/ \E k \in DOMAIN left : left[k] = iv)
      BY <3>1, <3>4 DEF First
    <3>5. ASSUME s = op.symbol, iv \in given \/ \E k \in DOMAIN left : left[k] = iv
          PROVE  First(op, s, iv)
      BY <1>3, <3>2, <3>3, <3>5 DEF First
    <3> QED
      BY <3>4, <3>5
  <2>3. First(rest, s, iv) <=> s = op.symbol /\ \E k \in DOMAIN left : left[k] = iv
    BY <1>10 DEF First
  <2>4. iv \in given => ~ \E k \in DOMAIN left : left[k] = iv
    <3> SUFFICES ASSUME NEW i \in 1..n, NEW k \in DOMAIN left, left[k] = op.intervals[i] PROVE FALSE
      OBVIOUS
    <3>1. i \in DOMAIN op.intervals /\ k + n \in DOMAIN op.intervals /\ k + n # i
      BY SMT, <1>6, <1>7
    <3>2. op.intervals[k + n] = op.intervals[i]
      BY SMT, <1>7
    <3> QED
      BY <1>4, <3>1, <3>2 DEF IsInjective
  <2>5. First(op, s, iv) => \A i \in DOMAIN old : i # 1 => ~First(old[i], s, iv)
    BY <1>1, <1>2, <1>3, <1>15 DEF Apart, First
  <2>6. \A i \in DOMAIN old : i # 1 => (First(plan[i], s, iv) <=> First(old[i], s, iv))
    BY <1>2, <1>13
  <2>7. Owed(old, s, iv) <=> First(op, s, iv) \/ \E i \in DOMAIN old : i # 1 /\ First(old[i], s, iv)
    BY <1>2, <1>15, <2>1
  <2>8. Owed(plan, s, iv) <=> First(rest, s, iv) \/ \E i \in DOMAIN old : i # 1 /\ First(old[i], s, iv)
    BY <1>2, <1>13, <2>1, <2>6
  <2>9. Awaited(plan, s) <=> Awaited(old, s)
    <3>1. Awaited(plan, s) => Awaited(old, s)
      BY <1>16 DEF Awaited
    <3>2. \A i \in DOMAIN old : old[i].op = "add" => i # 1 /\ i \in DOMAIN plan
      BY <1>2, <1>3, <1>13, <1>15
    <3>3. Awaited(old, s) => Awaited(plan, s)
      BY <1>2, <1>13, <3>2 DEF Awaited
    <3> QED
      BY <3>1, <3>3
  <2>10. Kept(t2, st, s, iv) <=> Kept(th, st, s, iv)
    BY <1>14, <1>15, <1>20, <2>9 DEF Kept
  <2>11. /\ Owed(th.plan, s, iv) <=> (s = op.symbol /\ iv \in given) \/ Owed(t2.plan, s, iv)
         /\ s = op.symbol /\ iv \in given => ~Owed(t2.plan, s, iv)
    BY <1>14, <1>15, <2>2, <2>3, <2>4, <2>5, <2>7, <2>8
  <2> HIDE DEF given
  <2>12. Weight(t2, st, s, iv) = Weight(th, st, s, iv) - One(s = op.symbol /\ iv \in given)
    BY SMT, <2>10, <2>11 DEF Weight, One
  <2> QED
    BY <2>12 DEF given
<1> QED
  <2>1. Parts(th, t2, st, op, h, n)
    BY <1>10, <1>13, <1>14, <1>22, <1>23, <1>24 DEF Parts, Loses
  <2> QED
    BY <2>1 DEF t2, plan, op, old, rest

\* The assignments at the end of setSymbols: the row becomes the state, with its claims.
LEMMA CommitStep ==
  ASSUME NEW th \in ThreadType, NEW st, Going(th, st), th.plan[1].op = "commit"
  PROVE  /\ th.row.candle \in Candles
         /\ th.plan[1].added = th.row.symbols \ st.symbols
         /\ th.plan[1].released = st.symbols \ th.row.symbols
         /\ \A s, iv : Weight(NoThread, th.row, s, iv) = Weight(th, st, s, iv)
<1> DEFINE plan == th.plan
<1>1. plan \in Seq(Ops) /\ plan # <<>> /\ Apart(plan)
  BY DEF Going
<1>2. DOMAIN plan = 1..Len(plan) /\ Len(plan) \in Nat \ {0} /\ 1 \in DOMAIN plan
  BY SMT, <1>1
<1>3. ASSUME NEW j \in DOMAIN plan PROVE j = 1
  <2>1. j # 1 => j < 1
    BY <1>1, <1>2 DEF Apart
  <2> QED
    BY SMT, <1>2, <2>1
<1>4. Len(plan) = 1
  <2>1. Len(plan) \in DOMAIN plan
    BY SMT, <1>2
  <2> QED
    BY <1>3, <2>1
<1>5. Commits(th)
  BY <1>1, <1>4 DEF Commits
<1>6. /\ th.row.candle \in Candles
      /\ plan[1].added = th.row.symbols \ st.symbols
      /\ plan[1].released = st.symbols \ th.row.symbols
  BY <1>4, <1>5 DEF Going, Fits
<1>7. ASSUME NEW s, NEW iv PROVE Weight(NoThread, th.row, s, iv) = Weight(th, st, s, iv)
  <2>1. Weight(NoThread, th.row, s, iv) = One(s \in th.row.symbols /\ iv \in Fed(th.row.candle))
    BY IdleThread, IdleWeight
  <2>2. ~Awaited(plan, s) /\ ~Owed(plan, s, iv)
    BY <1>3 DEF Awaited, Owed
  <2>3. Kept(th, st, s, iv) <=> s \in th.row.symbols /\ iv \in Fed(th.row.candle)
    BY <1>5, <2>2 DEF Kept, Goal
  <2> QED
    BY SMT, <2>1, <2>2, <2>3 DEF Weight, One
<1> QED
  BY <1>6, <1>7

(* The worker's account: how the counts move when one thread takes a step.   *)

\* Min picks one of the set.
LEMMA MinIn ==
  ASSUME Counting, NEW D, D \subseteq Nat, D # {}
  PROVE  Min(D) \in D
<1>1. \E d \in D : \A e \in D : d <= e
  BY DEF Counting
<1> QED
  BY <1>1 DEF Min

\* Two sets of profiles that differ in q at most.
LEMMA OneMore ==
  ASSUME Counting, NEW q \in Profiles, NEW S \in SUBSET Profiles, NEW S1 \in SUBSET Profiles,
         \A p \in Profiles : p # q => (p \in S <=> p \in S1)
  PROVE  /\ Cardinality(S) \in Nat /\ Cardinality(S1) \in Nat
         /\ Cardinality(S) >= One(q \in S)
         /\ Cardinality(S1) = Cardinality(S) - One(q \in S) + One(q \in S1)
<1> DEFINE R == S \ {q}
<1>1. R \in SUBSET Profiles /\ q \notin R
  OBVIOUS
<1>2. Cardinality(S) \in Nat /\ Cardinality(S1) \in Nat /\ Cardinality(R) \in Nat
  BY <1>1 DEF Counting
<1>3. Cardinality(R \cup {q}) = Cardinality(R) + 1
  BY <1>1 DEF Counting
<1>5. q \in S => S = R \cup {q}
  OBVIOUS
<1>6. q \notin S => S = R
  OBVIOUS
<1>7. q \in S1 => S1 = R \cup {q}
  OBVIOUS
<1>8. q \notin S1 => S1 = R
  OBVIOUS
<1> HIDE DEF R
<1>9. /\ q \in S => Cardinality(S) = Cardinality(R) + 1
      /\ q \notin S => Cardinality(S) = Cardinality(R)
  BY <1>3, <1>5, <1>6
<1>10. /\ q \in S1 => Cardinality(S1) = Cardinality(R) + 1
       /\ q \notin S1 => Cardinality(S1) = Cardinality(R)
  BY <1>3, <1>7, <1>8
<1> QED
  BY SMT, <1>2, <1>9, <1>10 DEF One

\* The update of a profile, when there is at most one.
LEMMA OfBusy ==
  ASSUME NEW T, OneEach(T), NEW u \in Threads, Busy(T, u)
  PROVE  Of(T, T[u].profile) = T[u]
<1> DEFINE p == T[u].profile
           v == CHOOSE t \in Threads : Busy(T, t) /\ T[t].profile = p
<1>1. v \in Threads /\ Busy(T, v) /\ T[v].profile = p
  OBVIOUS
<1>2. v = u
  BY <1>1 DEF OneEach
<1> QED
  BY <1>2 DEF Of

\* A profile that no thread is updating.
LEMMA OfNone ==
  ASSUME NEW T, NEW p, \A u \in Threads : ~(Busy(T, u) /\ T[u].profile = p)
  PROVE  Of(T, p) = NoThread
BY DEF Of

\* Thread t takes a step for profile q, which no other thread is updating.
Turn(T, T1, P, P1, t, q) ==
  /\ t \in Threads /\ q \in Profiles
  /\ T \in [Threads -> ThreadType] /\ OneEach(T)
  /\ T1 \in [Threads -> ThreadType]
  /\ \A u \in Threads : u # t => T1[u] = T[u]
  /\ \A u \in Threads : u # t /\ Busy(T, u) => T[u].profile # q
  /\ Busy(T, t) => T[t].profile = q
  /\ Busy(T1, t) => T1[t].profile = q
  /\ \A p \in Profiles : p # q => P1[p] = P[p]

\* There is still at most one update of each profile, and those of the others stay.
Turned(T, T1, P, P1, t, q) ==
  /\ OneEach(T1)
  /\ \A p \in Profiles : p # q => Of(T1, p) = Of(T, p)
  /\ Of(T, q) = IF Busy(T, t) THEN T[t] ELSE NoThread
  /\ Of(T1, q) = IF Busy(T1, t) THEN T1[t] ELSE NoThread

\* A turn leaves the updates of the other profiles as they are.
LEMMA TurnOf ==
  ASSUME NEW T, NEW T1, NEW P, NEW P1, NEW t, NEW q, Turn(T, T1, P, P1, t, q)
  PROVE  Turned(T, T1, P, P1, t, q)
<1>0. t \in Threads /\ OneEach(T) /\ (Busy(T, t) => T[t].profile = q) /\ (Busy(T1, t) => T1[t].profile = q)
  BY DEF Turn
<1>1. \A u \in Threads : u # t => T1[u] = T[u] /\ (Busy(T1, u) <=> Busy(T, u))
  BY DEF Turn, Busy
<1>2. \A u \in Threads : u # t /\ Busy(T, u) => T[u].profile # q
  BY DEF Turn
<1>3. OneEach(T1)
  <2> SUFFICES ASSUME NEW u \in Threads, NEW v \in Threads, Busy(T1, u), Busy(T1, v),
                      T1[u].profile = T1[v].profile
               PROVE  u = v
    BY DEF OneEach
  <2>1. CASE u # t /\ v # t
    BY <1>0, <1>1, <2>1 DEF OneEach
  <2>2. CASE u = t \/ v = t
    BY <1>0, <1>1, <1>2, <2>2
  <2> QED
    BY <2>1, <2>2
<1>4. ASSUME NEW p \in Profiles, p # q PROVE Of(T1, p) = Of(T, p)
  <2>1. CASE \E u \in Threads : Busy(T, u) /\ T[u].profile = p
    <3>1. PICK u \in Threads : Busy(T, u) /\ T[u].profile = p
      BY <2>1
    <3>2. u # t
      BY <1>0, <1>4, <3>1
    <3>3. Busy(T1, u) /\ T1[u] = T[u]
      BY <1>1, <3>1, <3>2
    <3>4. Of(T, T[u].profile) = T[u]
      BY <1>0, <3>1, OfBusy
    <3>5. Of(T1, T1[u].profile) = T1[u]
      BY <1>3, <3>3, OfBusy
    <3> QED
      BY <3>1, <3>3, <3>4, <3>5
  <2>2. CASE \A u \in Threads : ~(Busy(T, u) /\ T[u].profile = p)
    <3>1. \A u \in Threads : ~(Busy(T1, u) /\ T1[u].profile = p)
      BY <1>0, <1>1, <1>4, <2>2
    <3> QED
      BY <2>2, <3>1, OfNone
  <2> QED
    BY <2>1, <2>2
<1>5. Of(T, q) = IF Busy(T, t) THEN T[t] ELSE NoThread
  <2>1. CASE Busy(T, t)
    BY <1>0, <2>1, OfBusy
  <2>2. CASE ~Busy(T, t)
    <3>1. \A u \in Threads : ~(Busy(T, u) /\ T[u].profile = q)
      BY <1>2, <2>2
    <3> QED
      BY <2>2, <3>1, OfNone
  <2> QED
    BY <2>1, <2>2
<1>6. Of(T1, q) = IF Busy(T1, t) THEN T1[t] ELSE NoThread
  <2>1. CASE Busy(T1, t)
    BY <1>0, <1>3, <2>1, OfBusy
  <2>2. CASE ~Busy(T1, t)
    <3>1. \A u \in Threads : ~(Busy(T1, u) /\ T1[u].profile = q)
      BY <1>1, <1>2, <2>2
    <3> QED
      BY <2>2, <3>1, OfNone
  <2> QED
    BY <2>1, <2>2
<1> QED
  BY <1>3, <1>4, <1>5, <1>6 DEF Turned

\* Claims are counted in natural numbers.
LEMMA WeightType ==
  ASSUME NEW th, NEW st, NEW s, NEW iv
  PROVE  Weight(th, st, s, iv) \in Nat
BY SMT DEF Weight, One

\* The counts move by what the claims of q do.
Shifts(T, T1, P, P1, t, q, s, iv) ==
  /\ Count(T, P, s, iv) \in Nat /\ Count(T1, P1, s, iv) \in Nat
  /\ Count(T, P, s, iv) >= Weight(T[t], P[q], s, iv)
  /\ Count(T1, P1, s, iv) =
       Count(T, P, s, iv) - Weight(T[t], P[q], s, iv) + Weight(T1[t], P1[q], s, iv)

\* A turn moves the count of a stream by what its profile's claims do.
LEMMA CountStep ==
  ASSUME Counting, NEW T, NEW T1, NEW P, NEW P1, NEW t, NEW q, Turn(T, T1, P, P1, t, q), NEW s, NEW iv
  PROVE  Shifts(T, T1, P, P1, t, q, s, iv)
<1> DEFINE K == Keepers(T, P, s, iv)
           K1 == Keepers(T1, P1, s, iv)
           O == Owers(T, s, iv)
           O1 == Owers(T1, s, iv)
<1>0. q \in Profiles /\ \A p \in Profiles : p # q => P1[p] = P[p]
  BY DEF Turn
<1>1. K \in SUBSET Profiles /\ K1 \in SUBSET Profiles /\ O \in SUBSET Profiles /\ O1 \in SUBSET Profiles
  BY DEF Keepers, Owers
<1>18. Turned(T, T1, P, P1, t, q)
  BY TurnOf
<1>2. \A p \in Profiles : p # q => Of(T1, p) = Of(T, p)
  BY <1>18 DEF Turned
<1>3. \A p \in Profiles : p # q => (p \in K <=> p \in K1)
  BY <1>0, <1>2 DEF Keepers
<1>4. \A p \in Profiles : p # q => (p \in O <=> p \in O1)
  BY <1>2 DEF Owers
<1>5. q \in K <=> Kept(Of(T, q), P[q], s, iv)
  BY <1>0 DEF Keepers
<1>6. q \in K1 <=> Kept(Of(T1, q), P1[q], s, iv)
  BY <1>0 DEF Keepers
<1>7. q \in O <=> Owed(Of(T, q).plan, s, iv)
  BY <1>0 DEF Owers
<1>8. q \in O1 <=> Owed(Of(T1, q).plan, s, iv)
  BY <1>0 DEF Owers
<1>9. Count(T, P, s, iv) = Cardinality(K) + Cardinality(O)
  BY DEF Count
<1>10. Count(T1, P1, s, iv) = Cardinality(K1) + Cardinality(O1)
  BY DEF Count
<1> HIDE DEF K, K1, O, O1
<1>11. /\ Cardinality(K) \in Nat /\ Cardinality(K1) \in Nat /\ Cardinality(K) >= One(q \in K)
       /\ Cardinality(K1) = Cardinality(K) - One(q \in K) + One(q \in K1)
  BY <1>0, <1>1, <1>3, OneMore
<1>12. /\ Cardinality(O) \in Nat /\ Cardinality(O1) \in Nat /\ Cardinality(O) >= One(q \in O)
       /\ Cardinality(O1) = Cardinality(O) - One(q \in O) + One(q \in O1)
  BY <1>0, <1>1, <1>4, OneMore
<1>13. Weight(Of(T, q), P[q], s, iv) = Weight(T[t], P[q], s, iv)
  <2>1. CASE Busy(T, t)
    BY <1>18, <2>1 DEF Turned
  <2>2. CASE ~Busy(T, t)
    <3>1. Of(T, q) = NoThread /\ T[t].plan = <<>> /\ NoThread.plan = <<>>
      BY <1>18, <2>2, IdleThread DEF Turned, Busy
    <3>2. Weight(NoThread, P[q], s, iv) = One(s \in P[q].symbols /\ iv \in Fed(P[q].candle))
      BY <3>1, IdleWeight
    <3>3. Weight(T[t], P[q], s, iv) = One(s \in P[q].symbols /\ iv \in Fed(P[q].candle))
      BY <3>1, IdleWeight
    <3> QED
      BY <3>1, <3>2, <3>3
  <2> QED
    BY <2>1, <2>2
<1>14. Weight(Of(T1, q), P1[q], s, iv) = Weight(T1[t], P1[q], s, iv)
  <2>1. CASE Busy(T1, t)
    BY <1>18, <2>1 DEF Turned
  <2>2. CASE ~Busy(T1, t)
    <3>1. Of(T1, q) = NoThread /\ T1[t].plan = <<>> /\ NoThread.plan = <<>>
      BY <1>18, <2>2, IdleThread DEF Turned, Busy
    <3>2. Weight(NoThread, P1[q], s, iv) = One(s \in P1[q].symbols /\ iv \in Fed(P1[q].candle))
      BY <3>1, IdleWeight
    <3>3. Weight(T1[t], P1[q], s, iv) = One(s \in P1[q].symbols /\ iv \in Fed(P1[q].candle))
      BY <3>1, IdleWeight
    <3> QED
      BY <3>1, <3>2, <3>3
  <2> QED
    BY <2>1, <2>2
<1>15. One(q \in K) + One(q \in O) = Weight(T[t], P[q], s, iv)
  BY <1>5, <1>7, <1>13 DEF Weight, One
<1>16. One(q \in K1) + One(q \in O1) = Weight(T1[t], P1[q], s, iv)
  BY <1>6, <1>8, <1>14 DEF Weight, One
<1>17. One(q \in K) \in Nat /\ One(q \in O) \in Nat /\ One(q \in K1) \in Nat /\ One(q \in O1) \in Nat
  BY SMT DEF One
<1> QED
  BY SMT, <1>9, <1>10, <1>11, <1>12, <1>15, <1>16, <1>17 DEF Shifts

\* Every update still has a plan that fits.
LEMMA ThreadStep ==
  ASSUME NEW T, NEW T1, NEW P, NEW P1, NEW t, NEW q, Turn(T, T1, P, P1, t, q), Threaded(T, P),
         Busy(T1, t) => Going(T1[t], P1[q])
  PROVE  Threaded(T1, P1)
<1>1. Turned(T, T1, P, P1, t, q)
  BY TurnOf
<1>2. ASSUME NEW u \in Threads, Busy(T1, u) PROVE Going(T1[u], P1[T1[u].profile])
  <2>1. CASE u = t
    BY <1>2, <2>1 DEF Turn
  <2>2. CASE u # t
    <3>1. T1[u] = T[u] /\ Busy(T, u)
      BY <1>2, <2>2 DEF Turn, Busy
    <3>2. T[u].profile # q /\ T[u].profile \in Profiles
      BY <2>2, <3>1 DEF Turn, ThreadType
    <3>3. P1[T[u].profile] = P[T[u].profile]
      BY <3>2 DEF Turn
    <3> QED
      BY <3>1, <3>3 DEF Threaded
  <2> QED
    BY <2>1, <2>2
<1> QED
  BY <1>1, <1>2 DEF Turn, Turned, Threaded

\* The same updates are giving back claims on s.
SameStarts(T, T1, s) ==
  \A u \in Threads : /\ Started(T1, u, s) <=> Started(T, u, s)
                     /\ Started(T, u, s) => T1[u].plan[1].handle = T[u].plan[1].handle

\* A symbol whose feed and claims stay.
LEMMA OpenSame ==
  ASSUME NEW T, NEW T1, NEW P, NEW P1, NEW F, NEW F1, NEW s, Open(T, P, F, s),
         F1[s] = F[s], \A iv \in Intervals : Count(T1, P1, s, iv) = Count(T, P, s, iv),
         SameStarts(T, T1, s)
  PROVE  Open(T1, P1, F1, s)
BY DEF Open, SameStarts

\* Each of the candle's intervals has one claim more.
Gains(T, T1, P, P1, s, c) ==
  \A iv \in Intervals :
    /\ Count(T, P, s, iv) \in Nat
    /\ Count(T1, P1, s, iv) = Count(T, P, s, iv) + One(iv \in Fed(c))

\* addSymbols: the symbol has a handle afterwards, the one it had if there was one.
LEMMA AddOpen ==
  ASSUME Counting, NEW T, NEW T1, NEW P, NEW P1, NEW F1, NEW s, Open(T, P, feed, s), feed[s] \in FeedOf,
         NEW c \in Candles, F1[s] = Claimed(s, c), SameStarts(T, T1, s),
         \A u \in Threads : Started(thread, u, s) => Started(T, u, s),
         Gains(T, T1, P, P1, s, c)
  PROVE  Open(T1, P1, F1, s) /\ F1[s] \in FeedOf
<1> DEFINE f == feed[s]
           h == IF f.current = 0 THEN FreshHandle(s) ELSE f.current
           more == [iv \in Intervals |-> f.streams[h][iv] + IF iv \in Range(feedIntervals(c)) THEN 1 ELSE 0]
<1>1. /\ f.current \in 0..MaxHandles /\ f.tickers \in SUBSET Handles
      /\ f.streams \in [Handles -> [Intervals -> Nat]]
  BY DEF FeedOf
<1>2. /\ \A g \in Handles : g # f.current => f.streams[g] = NoStreams
      /\ \A u \in Threads : Started(T, u, s) => T[u].plan[1].handle = f.current
      /\ \A u, v \in Threads : Started(T, u, s) /\ Started(T, v, s) => u = v
      /\ f.tickers = IF f.current = 0 THEN {} ELSE {f.current}
      /\ f.current = 0 => \A iv \in Intervals : Count(T, P, s, iv) = 0
      /\ f.current # 0 => \A iv \in Intervals : f.streams[f.current][iv] = Count(T, P, s, iv)
  BY DEF Open
<1>3. \A g \in Handles : g # 0
  BY SMT, SomeHandle DEF Handles
<1>4. f.current = 0 => FreshHandle(s) \in Handles
  <2> SUFFICES ASSUME f.current = 0 PROVE FreshHandle(s) \in Handles
    OBVIOUS
  <2> DEFINE D == {g \in Handles \ Held(s) : feed[s].streams[g] = NoStreams /\ g \notin feed[s].tickers}
  <2>1. \A u \in Threads : ~Started(T, u, s)
    BY <1>2 DEF Started
  <2>2. \A u \in Threads : ~Started(thread, u, s)
    BY <2>1
  <2>3. \A g \in Held(s) : g = 0
    BY <2>2 DEF Held, Started, Busy
  <2>4. 1 \in D
    BY <1>2, <1>3, <2>3, SomeHandle
  <2>5. D \subseteq Nat
    BY SMT, SomeHandle DEF Handles
  <2>6. Min(D) \in D
    <3> HIDE DEF D
    <3> QED
      BY <2>4, <2>5, MinIn
  <2>7. FreshHandle(s) = Min(D)
    BY DEF FreshHandle
  <2> QED
    BY <2>6, <2>7
<1>5. h \in Handles /\ h # 0 /\ (f.current # 0 => h = f.current)
  <2>1. f.current # 0 => f.current \in Handles
    BY SMT, <1>1, SomeHandle DEF Handles
  <2> QED
    BY <1>3, <1>4, <2>1
<1> HIDE DEF h
<1>6. \A g \in Handles : g # h => f.streams[g] = NoStreams
  BY <1>2, <1>3, <1>5
<1>7. \A iv \in Intervals : f.streams[h][iv] = Count(T, P, s, iv)
  BY <1>2, <1>5 DEF NoStreams
<1>8. f.tickers \cup {h} = {h}
  BY <1>2, <1>5
<1>9. F1[s] = [current |-> h, streams |-> [f.streams EXCEPT ![h] = more], tickers |-> {h}]
  BY <1>8 DEF Claimed, h
<1>10. /\ more \in [Intervals -> Nat]
       /\ \A iv \in Intervals : more[iv] = Count(T1, P1, s, iv)
  <2>1. \A iv \in Intervals : f.streams[h][iv] \in Nat
    BY <1>7 DEF Gains
  <2>2. \A iv \in Intervals : more[iv] = Count(T, P, s, iv) + One(iv \in Fed(c))
    BY <1>7 DEF One, Fed
  <2>3. ASSUME NEW iv \in Intervals PROVE Count(T, P, s, iv) + One(iv \in Fed(c)) \in Nat
    BY SMT DEF One, Gains
  <2>4. \A iv \in Intervals : more[iv] \in Nat
    BY <2>2, <2>3
  <2>5. more = [iv \in Intervals |-> more[iv]]
    OBVIOUS
  <2> HIDE DEF more
  <2> QED
    BY <2>2, <2>4, <2>5 DEF Gains
<1> HIDE DEF more
<1>11. /\ F1[s].current = h /\ F1[s].tickers = {h}
       /\ F1[s].streams = [f.streams EXCEPT ![h] = more]
  <2> DEFINE now == [f.streams EXCEPT ![h] = more]
  <2>1. F1[s] = [current |-> h, streams |-> now, tickers |-> {h}]
    BY <1>9
  <2> HIDE DEF now
  <2>2. F1[s].current = h /\ F1[s].tickers = {h} /\ F1[s].streams = now
    BY SMT, <2>1
  <2> QED
    BY <2>2 DEF now
<1>12. /\ F1[s].streams[h] = more
       /\ \A g \in Handles : g # h => F1[s].streams[g] = NoStreams
       /\ F1[s].streams \in [Handles -> [Intervals -> Nat]]
  <2>1. F1[s].streams \in [Handles -> [Intervals -> Nat]]
    BY SMT, <1>1, <1>5, <1>10, <1>11
  <2>2. F1[s].streams[h] = more
    BY SMT, <1>1, <1>5, <1>11
  <2>3. \A g \in Handles : g # h => F1[s].streams[g] = f.streams[g]
    BY SMT, <1>1, <1>5, <1>11
  <2> QED
    BY <1>6, <2>1, <2>2, <2>3
<1>13. F1[s] \in FeedOf
  <2> DEFINE st == F1[s].streams
  <2>1. h \in 0..MaxHandles
    BY SMT, <1>5, SomeHandle DEF Handles
  <2>2. F1[s] = [current |-> h, streams |-> st, tickers |-> {h}]
    BY <1>9, <1>11
  <2>3. {h} \in SUBSET Handles
    BY <1>5
  <2>4. st \in [Handles -> [Intervals -> Nat]]
    BY <1>12
  <2> HIDE DEF st
  <2> QED
    BY SMT, <2>1, <2>2, <2>3, <2>4 DEF FeedOf
<1>14. \E iv \in Intervals : Count(T1, P1, s, iv) # 0
  <2>1. c \in Intervals /\ c \in Fed(c)
    BY FedList DEF Intervals
  <2>2. Count(T1, P1, s, c) = Count(T, P, s, c) + 1 /\ Count(T, P, s, c) \in Nat
    BY <2>1 DEF One, Gains
  <2>3. Count(T1, P1, s, c) # 0
    BY SMT, <2>2
  <2> QED
    BY <2>1, <2>3
<1>15. \A u \in Threads : Started(T1, u, s) => T1[u].plan[1].handle = h
  <2> SUFFICES ASSUME NEW u \in Threads, Started(T1, u, s) PROVE T1[u].plan[1].handle = h
    OBVIOUS
  <2>1. Started(T, u, s) /\ T1[u].plan[1].handle = T[u].plan[1].handle
    BY DEF SameStarts
  <2>2. T[u].plan[1].handle = f.current /\ f.current # 0
    BY <1>2, <2>1 DEF Started
  <2> QED
    BY <1>5, <2>1, <2>2
<1>16. \A u, v \in Threads : Started(T1, u, s) /\ Started(T1, v, s) => u = v
  BY <1>2 DEF SameStarts
<1>17. Open(T1, P1, F1, s)
  BY <1>5, <1>10, <1>11, <1>12, <1>14, <1>15, <1>16 DEF Open
<1> QED
  BY <1>13, <1>17

\* The first n claims of a removeSymbols are given back.
Gives(T, T1, P, P1, d, n) ==
  \A iv \in Intervals :
    /\ Count(T, P, d.symbol, iv) \in Nat /\ Count(T1, P1, d.symbol, iv) \in Nat
    /\ Count(T1, P1, d.symbol, iv) =
         Count(T, P, d.symbol, iv) - One(iv \in {d.intervals[i] : i \in 1..n})

\* The handle they are on has the counts, and what they leave.
Serves(T, P, d) ==
  \A iv \in Intervals : feed[d.symbol].streams[d.handle][iv] = Count(T, P, d.symbol, iv)
Leaves(T1, P1, d, R) ==
  R \in [Intervals -> Nat] /\ \A iv \in Intervals : R[iv] = Count(T1, P1, d.symbol, iv)

\* Released counts a stream down where the call had a claim.
LEMMA ReleasedIs ==
  ASSUME NEW T, NEW T1, NEW P, NEW P1, NEW d, NEW n, Gives(T, T1, P, P1, d, n), Serves(T, P, d)
  PROVE  Leaves(T1, P1, d, Released(d, n))
<1> DEFINE R == Released(d, n)
           gone == {d.intervals[i] : i \in 1..n}
<1>1. R = [iv \in Intervals |-> IF iv \in gone /\ feed[d.symbol].streams[d.handle][iv] > 0
                                THEN feed[d.symbol].streams[d.handle][iv] - 1
                                ELSE feed[d.symbol].streams[d.handle][iv]]
  BY DEF Released
<1> HIDE DEF R, gone
<1>2. ASSUME NEW iv \in Intervals PROVE R[iv] = Count(T1, P1, d.symbol, iv)
  <2> DEFINE k == Count(T, P, d.symbol, iv)
             k1 == Count(T1, P1, d.symbol, iv)
  <2>1. k \in Nat /\ k1 \in Nat /\ k1 = k - One(iv \in gone)
    BY DEF gone, Gives
  <2>2. R[iv] = IF iv \in gone /\ k > 0 THEN k - 1 ELSE k
    BY <1>1 DEF Serves
  <2> HIDE DEF k, k1
  <2>3. R[iv] = k1
    BY SMT, <2>1, <2>2 DEF One
  <2> QED
    BY <2>3 DEF k1
<1>3. R = [iv \in Intervals |-> R[iv]]
  BY <1>1
<1>4. \A iv \in Intervals : R[iv] \in Nat
  BY <1>2 DEF Gives
<1>5. R \in [Intervals -> Nat]
  BY <1>3, <1>4
<1> QED
  BY <1>2, <1>5 DEF R, Leaves

\* The feed of a symbol after its handle got other streams.
Reshaped(g, f, h, R, current, tickers) ==
  /\ g \in FeedOf /\ g.current = current /\ g.tickers = tickers
  /\ g.streams[h] = R /\ \A i \in Handles : i # h => g.streams[i] = f.streams[i]

\* The fields of a feed after a release.
LEMMA FeedShape ==
  ASSUME NEW f \in FeedOf, NEW h \in Handles, NEW R \in [Intervals -> Nat]
  PROVE  /\ Reshaped([f EXCEPT !.streams[h] = R], f, h, R, f.current, f.tickers)
         /\ Reshaped([current |-> 0, streams |-> [f.streams EXCEPT ![h] = R], tickers |-> f.tickers \ {h}],
                     f, h, R, 0, f.tickers \ {h})
<1> DEFINE now == [f.streams EXCEPT ![h] = R]
           g1 == [f EXCEPT !.streams[h] = R]
           g2 == [current |-> 0, streams |-> now, tickers |-> f.tickers \ {h}]
<1>1. f.streams \in [Handles -> [Intervals -> Nat]] /\ f.tickers \in SUBSET Handles /\ f.current \in 0..MaxHandles
  BY DEF FeedOf
<1>2. /\ now \in [Handles -> [Intervals -> Nat]]
      /\ now[h] = R /\ \A i \in Handles : i # h => now[i] = f.streams[i]
  BY SMT, <1>1
<1>3. g1 = [f EXCEPT !.streams = now]
  OBVIOUS
<1> HIDE DEF now, g1, g2
<1>4. g1 \in FeedOf /\ g1.current = f.current /\ g1.tickers = f.tickers /\ g1.streams = now
  BY <1>2, <1>3 DEF FeedOf
<1>5. f.tickers \ {h} \in SUBSET Handles
  BY <1>1
<1>6. g2.current = 0 /\ g2.tickers = f.tickers \ {h} /\ g2.streams = now
  BY DEF g2
<1>7. g2 \in FeedOf
  BY SMT, <1>2, <1>5, SomeHandle DEF g2, FeedOf
<1> QED
  BY <1>2, <1>4, <1>6, <1>7 DEF g1, g2, now, Reshaped

\* removeSymbols reaches the last interval: a handle without streams goes.
LEMMA DropOpen ==
  ASSUME NEW T, NEW T1, NEW P, NEW P1, NEW F1, NEW s, Open(T, P, feed, s), feed[s] \in FeedOf,
         NEW d, d.symbol = s, d.handle = feed[s].current, d.handle # 0,
         F1[s] = DropHandle(d, Released(d, Len(d.intervals))),
         \A u \in Threads : ~Started(T1, u, s),
         Gives(T, T1, P, P1, d, Len(d.intervals))
  PROVE  Open(T1, P1, F1, s) /\ F1[s] \in FeedOf
<1> DEFINE f == feed[s]
           h == d.handle
           R == Released(d, Len(d.intervals))
<1>1. /\ \A g \in Handles : g # f.current => f.streams[g] = NoStreams
      /\ f.tickers = {f.current}
      /\ \A iv \in Intervals : f.streams[h][iv] = Count(T, P, s, iv)
  BY DEF Open
<1>2. R \in [Intervals -> Nat] /\ \A iv \in Intervals : R[iv] = Count(T1, P1, s, iv)
  <2>1. Serves(T, P, d)
    BY <1>1 DEF Serves
  <2>2. Leaves(T1, P1, d, Released(d, Len(d.intervals)))
    BY <2>1, ReleasedIs
  <2> QED
    BY <2>2 DEF Leaves
<1>3. h \in Handles
  <2>1. h \in 0..MaxHandles /\ h # 0
    BY DEF FeedOf
  <2> QED
    BY SMT, <2>1, SomeHandle DEF Handles
<1>4. F1[s] = IF R = NoStreams
              THEN [current |-> 0, streams |-> [f.streams EXCEPT ![h] = R], tickers |-> f.tickers \ {h}]
              ELSE [f EXCEPT !.streams[h] = R]
  BY DEF DropHandle
<1> HIDE DEF R
<1>5. CASE R = NoStreams
  <2>1. /\ F1[s] \in FeedOf /\ F1[s].current = 0 /\ F1[s].tickers = f.tickers \ {h}
        /\ F1[s].streams[h] = R /\ \A i \in Handles : i # h => F1[s].streams[i] = f.streams[i]
    <3> DEFINE g == [current |-> 0, streams |-> [f.streams EXCEPT ![h] = R], tickers |-> f.tickers \ {h}]
    <3>1. F1[s] = g
      BY <1>4, <1>5
    <3>2. Reshaped(g, f, h, R, 0, f.tickers \ {h})
      BY <1>2, <1>3, FeedShape
    <3> HIDE DEF g
    <3> QED
      BY <3>1, <3>2 DEF Reshaped
  <2>2. \A i \in Handles : F1[s].streams[i] = NoStreams
    BY <1>1, <1>5, <2>1
  <2>3. F1[s].tickers = {}
    BY <1>1, <2>1
  <2>4. \A iv \in Intervals : Count(T1, P1, s, iv) = 0
    BY <1>2, <1>5 DEF NoStreams
  <2> QED
    BY <2>1, <2>2, <2>3, <2>4 DEF Open
<1>6. CASE R # NoStreams
  <2>1. /\ F1[s] \in FeedOf /\ F1[s].current = f.current /\ F1[s].tickers = f.tickers
        /\ F1[s].streams[h] = R /\ \A i \in Handles : i # h => F1[s].streams[i] = f.streams[i]
    <3> DEFINE g == [f EXCEPT !.streams[h] = R]
    <3>1. F1[s] = g
      BY <1>4, <1>6
    <3>2. Reshaped(g, f, h, R, f.current, f.tickers)
      BY <1>2, <1>3, FeedShape
    <3> HIDE DEF g
    <3> QED
      BY <3>1, <3>2 DEF Reshaped
  <2>2. \A i \in Handles : i # h => F1[s].streams[i] = NoStreams
    BY <1>1, <2>1
  <2>3. \E iv \in Intervals : Count(T1, P1, s, iv) # 0
    <3>1. CASE \A iv \in Intervals : R[iv] = 0
      <4>1. R = NoStreams
        BY <1>2, <3>1 DEF NoStreams
      <4> QED
        BY <1>6, <4>1
    <3> QED
      BY <1>2, <3>1
  <2>4. /\ F1[s].current = h /\ h # 0 /\ F1[s].tickers = {h}
        /\ \A iv \in Intervals : F1[s].streams[h][iv] = Count(T1, P1, s, iv)
    BY <1>1, <1>2, <2>1
  <2> QED
    BY <2>1, <2>2, <2>3, <2>4 DEF Open
<1> QED
  BY <1>5, <1>6

\* removeSymbols is suspended at a stream it closed: the handle stays until it is back.
Closes(F1, s, d, n) == F1[s] = [feed[s] EXCEPT !.streams[d.handle] = Released(d, n)]
Holds(T1, t, s, d) ==
  /\ t \in Threads /\ Started(T1, t, s) /\ T1[t].plan[1].handle = d.handle
  /\ \A u \in Threads : Started(T1, u, s) => u = t

\* A release that stops at an await keeps the handle.
LEMMA PartOpen ==
  ASSUME NEW T, NEW T1, NEW P, NEW P1, NEW F1, NEW s, Open(T, P, feed, s), feed[s] \in FeedOf,
         NEW d, d.symbol = s, d.handle = feed[s].current, d.handle # 0, NEW n,
         Closes(F1, s, d, n), NEW t, Holds(T1, t, s, d),
         Gives(T, T1, P, P1, d, n)
  PROVE  Open(T1, P1, F1, s) /\ F1[s] \in FeedOf
<1> DEFINE f == feed[s]
           h == d.handle
           R == Released(d, n)
<1>1. /\ \A g \in Handles : g # f.current => f.streams[g] = NoStreams
      /\ f.tickers = {f.current}
      /\ \A iv \in Intervals : f.streams[h][iv] = Count(T, P, s, iv)
  BY DEF Open
<1>2. R \in [Intervals -> Nat] /\ \A iv \in Intervals : R[iv] = Count(T1, P1, s, iv)
  <2>1. Serves(T, P, d)
    BY <1>1 DEF Serves
  <2>2. Leaves(T1, P1, d, Released(d, n))
    BY <2>1, ReleasedIs
  <2> QED
    BY <2>2 DEF Leaves
<1>3. h \in Handles
  <2>1. h \in 0..MaxHandles /\ h # 0
    BY DEF FeedOf
  <2> QED
    BY SMT, <2>1, SomeHandle DEF Handles
<1>4. F1[s] = [f EXCEPT !.streams[h] = R]
  BY DEF Closes
<1> HIDE DEF R
<1>5. /\ F1[s] \in FeedOf /\ F1[s].current = f.current /\ F1[s].tickers = f.tickers
      /\ F1[s].streams[h] = R /\ \A i \in Handles : i # h => F1[s].streams[i] = f.streams[i]
  <2> DEFINE g == [f EXCEPT !.streams[h] = R]
  <2>1. F1[s] = g
    BY <1>4
  <2>2. Reshaped(g, f, h, R, f.current, f.tickers)
    BY <1>2, <1>3, FeedShape
  <2> HIDE DEF g
  <2> QED
    BY <2>1, <2>2 DEF Reshaped
<1>6. \A i \in Handles : i # h => F1[s].streams[i] = NoStreams
  BY <1>1, <1>5
<1>7. /\ F1[s].current = h /\ h # 0 /\ F1[s].tickers = {h}
      /\ \A iv \in Intervals : F1[s].streams[h][iv] = Count(T1, P1, s, iv)
  BY <1>1, <1>2, <1>5
<1>8. \A u \in Threads : Started(T1, u, s) => T1[u].plan[1].handle = h
  BY DEF Holds
<1>9. \A u, v \in Threads : Started(T1, u, s) /\ Started(T1, v, s) => u = v
  BY DEF Holds
<1>10. \E u \in Threads : Started(T1, u, s)
  BY DEF Holds
<1> QED
  BY <1>5, <1>6, <1>7, <1>8, <1>9, <1>10 DEF Open

(* The steps of an update.  A thread that begins one is first given its plan, *)
(* which moves no claim, and then makes the first call.                       *)

\* An update without a plan, or one that has given nothing back, holds no handle.
LEMMA NotStarted ==
  ASSUME NEW T, NEW t, Fresh(T[t]), NEW s
  PROVE  ~Started(T, t, s)
BY DEF Fresh, Started, Busy

\* Thread t is given a plan: no claim moves.
Even(th0, st0, st) == \A s, iv : Weight(th0, st0, s, iv) = Weight(NoThread, st, s, iv)

\* Being given a plan moves no claim and no handle.
LEMMA Begins ==
  ASSUME Counting, NEW T, NEW T0, NEW P, NEW P0, NEW F, NEW t, NEW q, Turn(T, T0, P, P0, t, q),
         Ledger(T, P, F), T[t].plan = <<>>, Fresh(T0[t]),
         Busy(T0, t) => Going(T0[t], P0[q]),
         Even(T0[t], P0[q], P[q])
  PROVE  /\ Ledger(T0, P0, F)
         /\ \A u \in Threads, s \in Symbols : Started(T, u, s) => Started(T0, u, s)
<1>1. Threaded(T0, P0)
  BY ThreadStep DEF Ledger
<1>2. t \in Threads /\ \A u \in Threads : u # t => T0[u] = T[u]
  BY DEF Turn
<1>3. \A s : ~Started(T, t, s) /\ ~Started(T0, t, s)
  BY NotStarted DEF Started, Busy
<1>4. ASSUME NEW s \in Symbols PROVE SameStarts(T, T0, s)
  <2> SUFFICES ASSUME NEW u \in Threads
               PROVE  /\ Started(T0, u, s) <=> Started(T, u, s)
                      /\ Started(T, u, s) => T0[u].plan[1].handle = T[u].plan[1].handle
    BY DEF SameStarts
  <2>1. CASE u = t
    BY <1>3, <2>1
  <2>2. CASE u # t
    <3>1. T0[u] = T[u]
      BY <1>2, <2>2
    <3> QED
      BY <3>1 DEF Started, Busy
  <2> QED
    BY <2>1, <2>2
<1>5. ASSUME NEW s \in Symbols, NEW iv \in Intervals PROVE Count(T0, P0, s, iv) = Count(T, P, s, iv)
  <2>1. Weight(T[t], P[q], s, iv) = Weight(NoThread, P[q], s, iv)
    <3>1. Weight(T[t], P[q], s, iv) = One(s \in P[q].symbols /\ iv \in Fed(P[q].candle))
      BY IdleWeight
    <3>2. Weight(NoThread, P[q], s, iv) = One(s \in P[q].symbols /\ iv \in Fed(P[q].candle))
      BY IdleThread, IdleWeight
    <3> QED
      BY <3>1, <3>2
  <2>2. Shifts(T, T0, P, P0, t, q, s, iv)
    BY CountStep
  <2>3. Weight(T0[t], P0[q], s, iv) = Weight(NoThread, P[q], s, iv) /\ Weight(NoThread, P[q], s, iv) \in Nat
    BY WeightType DEF Even
  <2> QED
    BY SMT, <2>1, <2>2, <2>3 DEF Shifts
<1>6. ASSUME NEW s \in Symbols PROVE Open(T0, P0, F, s)
  <2>1. Open(T, P, F, s)
    BY DEF Ledger, Counted
  <2> QED
    BY <1>4, <1>5, <2>1, OpenSame
<1>7. Ledger(T0, P0, F)
  BY <1>1, <1>6 DEF Ledger, Counted
<1> QED
  BY <1>4, <1>7 DEF SameStarts

\* Thread t is about to run the first call of th's plan, and meets no other update.
Virtual(t, th, T0, P0) ==
  /\ t \in Threads /\ T0[t] = th /\ \A u \in Threads : u # t => T0[u] = thread[u]
  /\ th \in ThreadType /\ th.plan # <<>> /\ NewOnly(th, 2)
  /\ Ledger(T0, P0, feed)
  /\ ~Meets(t, th)
  /\ \A u \in Threads, s \in Symbols : Started(thread, u, s) => Started(T0, u, s)

\* Afterwards it is th2.
Moved(T0, T1, t, th2) ==
  /\ T1 \in [Threads -> ThreadType] /\ T1[t] = th2
  /\ \A u \in Threads : u # t => T1[u] = T0[u]

\* A market call is a turn of its profile.
LEMMA VirtualTurn ==
  ASSUME NEW t, NEW th, NEW T0, NEW P0, Virtual(t, th, T0, P0), NEW T1, NEW th2, Moved(T0, T1, t, th2),
         th2.plan # <<>> => th2.profile = th.profile
  PROVE  /\ Turn(T0, T1, P0, P0, t, th.profile)
         /\ Going(th, P0[th.profile])
<1>1. T0 \in [Threads -> ThreadType] /\ OneEach(T0) /\ Going(th, P0[th.profile])
  BY DEF Virtual, Ledger, Threaded, Busy
<1>2. th.profile \in Profiles
  BY DEF Virtual, ThreadType
<1>3. ASSUME NEW u \in Threads, u # t, Busy(T0, u) PROVE T0[u].profile # th.profile
  BY <1>3 DEF Virtual, Meets, Busy
<1>4. Busy(T0, t) => T0[t].profile = th.profile
  BY DEF Virtual
<1>5. Busy(T1, t) => T1[t].profile = th.profile
  BY DEF Moved, Busy
<1>6. \A u \in Threads : u # t => T1[u] = T0[u]
  BY DEF Moved
<1>7. t \in Threads /\ T1 \in [Threads -> ThreadType]
  BY DEF Virtual, Moved
<1> QED
  BY <1>1, <1>2, <1>3, <1>4, <1>5, <1>6, <1>7 DEF Turn

\* The call after the first has not begun.
LEMMA TailFresh ==
  ASSUME NEW th \in ThreadType, NEW st, Going(th, st)
  PROVE  Fresh(After(th, Tail(th.plan)))
<1> DEFINE plan == th.plan
           rest == Tail(plan)
<1>1. Runs(plan)
  BY DEF Going, Runs
<1>2. rest \in Seq(Ops) /\ \A i \in DOMAIN rest : i + 1 \in DOMAIN plan /\ rest[i] = plan[i + 1]
  BY <1>1, Rest
<1>3. After(th, rest).plan = rest
  BY <1>2, AfterShape
<1> HIDE DEF rest
<1>4. ASSUME rest # <<>>, rest[1].op = "drop" PROVE rest[1].handle = 0
  <2>1. 1 \in DOMAIN rest
    BY SMT, <1>2, <1>4
  <2>2. 1 + 1 \in DOMAIN plan /\ rest[1] = plan[1 + 1]
    BY <1>2, <2>1
  <2>3. Step(plan, 1 + 1)
    BY <1>1, <2>2 DEF Runs, Steps
  <2>4. 1 + 1 > 1
    BY SMT
  <2> QED
    BY <1>4, <2>2, <2>3, <2>4 DEF Step
<1> QED
  BY <1>3, <1>4 DEF Fresh, rest, plan

\* What is known of the first call.
LEMMA VirtualCall ==
  ASSUME NEW t, NEW th, NEW T0, NEW P0, Virtual(t, th, T0, P0)
  PROVE  /\ Going(th, P0[th.profile]) /\ th.profile \in Profiles
         /\ th.plan[1] \in Ops /\ Step(th.plan, 1)
         /\ \A s \in Symbols : Open(T0, P0, feed, s) /\ feed[s] \in FeedOf
<1>1. Going(th, P0[th.profile]) /\ th.profile \in Profiles
  BY DEF Virtual, Ledger, Threaded, Busy, ThreadType
<1>2. 1 \in DOMAIN th.plan
  <2>1. th.plan \in Seq(Ops) /\ th.plan # <<>>
    BY <1>1 DEF Going
  <2> QED
    BY SMT, <2>1
<1>3. th.plan[1] \in Ops /\ Step(th.plan, 1)
  BY <1>1, <1>2 DEF Going, Steps
<1>4. \A s \in Symbols : Open(T0, P0, feed, s) /\ feed[s] \in FeedOf
  BY DEF Virtual, Ledger, Counted, FeedType
<1> QED
  BY <1>1, <1>3, <1>4

\* The other threads hold the same handles, and t the same one of s if any.
LEMMA KeepStarts ==
  ASSUME NEW t, NEW T0, NEW T1, NEW th2, Moved(T0, T1, t, th2), NEW s,
         ~Started(T0, t, s), ~Started(T1, t, s)
  PROVE  SameStarts(T0, T1, s)
<1> SUFFICES ASSUME NEW u \in Threads
             PROVE  /\ Started(T1, u, s) <=> Started(T0, u, s)
                    /\ Started(T0, u, s) => T1[u].plan[1].handle = T0[u].plan[1].handle
  BY DEF SameStarts
<1>1. CASE u = t
  BY <1>1
<1>2. CASE u # t
  <2>1. T1[u] = T0[u]
    BY <1>2 DEF Moved
  <2> QED
    BY <2>1 DEF Started, Busy
<1> QED
  BY <1>1, <1>2

\* addSymbols.
LEMMA MarketAdd ==
  ASSUME Counting, NEW t, NEW th, NEW T0, NEW P0, Virtual(t, th, T0, P0), th.plan[1].op = "add",
         NEW T1, Moved(T0, T1, t, After(th, Tail(th.plan))), NEW F1,
         F1 = [s \in Symbols |-> IF s \in th.plan[1].symbols THEN Claimed(s, th.plan[1].candle) ELSE feed[s]]
  PROVE  Ledger(T1, P0, F1)
<1> DEFINE op == th.plan[1]
           q == th.profile
           th2 == After(th, Tail(th.plan))
<1>1. /\ Going(th, P0[q]) /\ q \in Profiles /\ op.op = "add"
      /\ \A s \in Symbols : Open(T0, P0, feed, s) /\ feed[s] \in FeedOf
  BY VirtualCall
<1>2. op \in AddOps
  BY VirtualCall DEF Step
<1>3. op.candle \in Candles
  BY <1>2 DEF AddOps
<1>4. th \in ThreadType /\ T0[t] = th /\ t \in Threads /\ T1[t] = th2
  BY DEF Virtual, Moved
<1>5. /\ th2 \in ThreadType /\ th2.plan = Tail(th.plan)
      /\ th2.plan # <<>> => Going(th2, P0[q])
  BY <1>1, <1>4, TailStep
<1>6. Grows(th, th2, P0[q], op)
  BY <1>1, <1>4, TailStep
<1>7. th2.plan # <<>> => th2.profile = q
  <2>1. Tail(th.plan) \in Seq(Ops)
    BY <1>4, <1>5 DEF ThreadType
  <2> QED
    BY <1>4, <1>5, <2>1, AfterShape
<1>8. Fresh(th2)
  BY <1>1, <1>4, TailFresh
<1> HIDE DEF th2
<1>9. Moved(T0, T1, t, th2)
  BY DEF th2
<1>10. Turn(T0, T1, P0, P0, t, q)
  BY <1>7, <1>9, VirtualTurn
<1>11. Threaded(T1, P0)
  <2>1. Threaded(T0, P0)
    BY DEF Virtual, Ledger
  <2>2. Busy(T1, t) => Going(T1[t], P0[q])
    BY <1>4, <1>5 DEF Busy
  <2> QED
    BY <1>10, <2>1, <2>2, ThreadStep
<1>12. ASSUME NEW s \in Symbols PROVE Open(T1, P0, F1, s) /\ F1[s] \in FeedOf
  <2>1. SameStarts(T0, T1, s)
    <3>1. ~Started(T0, t, s)
      BY <1>1, <1>4 DEF Started
    <3>2. ~Started(T1, t, s)
      BY <1>4, <1>8, NotStarted
    <3> QED
      BY <1>9, <3>1, <3>2, KeepStarts
  <2>2. ASSUME NEW iv \in Intervals
        PROVE  /\ Count(T0, P0, s, iv) \in Nat
               /\ Count(T1, P0, s, iv) = Count(T0, P0, s, iv) + One(s \in op.symbols /\ iv \in Fed(op.candle))
    <3>1. Shifts(T0, T1, P0, P0, t, q, s, iv)
      BY <1>10, CountStep
    <3>2. /\ Weight(T1[t], P0[q], s, iv) = Weight(T0[t], P0[q], s, iv) + One(s \in op.symbols /\ iv \in Fed(op.candle))
          /\ Weight(T0[t], P0[q], s, iv) \in Nat
      BY <1>4, <1>6, WeightType DEF Grows
    <3>3. One(s \in op.symbols /\ iv \in Fed(op.candle)) \in Nat
      BY SMT DEF One
    <3> QED
      BY SMT, <3>1, <3>2, <3>3 DEF Shifts
  <2>3. CASE s \in op.symbols
    <3>1. F1[s] = Claimed(s, op.candle)
      BY <2>3
    <3>2. \A u \in Threads : Started(thread, u, s) => Started(T0, u, s)
      BY DEF Virtual
    <3>4. Gains(T0, T1, P0, P0, s, op.candle)
      BY <2>2, <2>3 DEF One, Gains
    <3>5. Open(T0, P0, feed, s) /\ feed[s] \in FeedOf
      BY <1>1
    <3> HIDE DEF op
    <3> QED
      BY <1>3, <2>1, <3>1, <3>2, <3>4, <3>5, AddOpen
  <2>4. CASE s \notin op.symbols
    <3>1. F1[s] = feed[s]
      BY <2>4
    <3>2. \A iv \in Intervals : Count(T1, P0, s, iv) = Count(T0, P0, s, iv)
      <4> TAKE iv \in Intervals
      <4>1. One(s \in op.symbols /\ iv \in Fed(op.candle)) = 0
        BY <2>4 DEF One
      <4> QED
        BY SMT, <2>2, <4>1
    <3>3. Open(T0, P0, feed, s) /\ feed[s] \in FeedOf
      BY <1>1
    <3> QED
      BY <2>1, <3>1, <3>2, <3>3, OpenSame
  <2> QED
    BY <2>3, <2>4
<1>13. F1 \in FeedType
  <2>1. F1 = [s \in Symbols |-> F1[s]]
    OBVIOUS
  <2>2. \A s \in Symbols : F1[s] \in FeedOf
    BY <1>12
  <2> QED
    BY <2>1, <2>2 DEF FeedType
<1> QED
  BY <1>11, <1>12, <1>13 DEF Ledger, Counted

\* The removeSymbols call that runs: on the handle it holds, or else on the current one.
Called(op) ==
  IF op.op = "drop" /\ op.handle = 0
  THEN [op EXCEPT !.handle = feed[op.symbol].current] ELSE op
Calls(op, d, h) ==
  /\ op \in DropOps /\ op.symbol \in Symbols /\ op.intervals \in Seq(Intervals)
  /\ h \in Handles /\ h # 0 /\ h = feed[op.symbol].current
  /\ d = [op EXCEPT !.handle = h]
  /\ d.handle = h /\ d.symbol = op.symbol /\ d.intervals = op.intervals

\* It has a handle, the current one: there is a claim to give back.
LEMMA VirtualDrop ==
  ASSUME Counting, NEW t, NEW th, NEW T0, NEW P0, Virtual(t, th, T0, P0), th.plan[1].op = "drop"
  PROVE  Calls(th.plan[1], Called(th.plan[1]), feed[th.plan[1].symbol].current)
<1> DEFINE op == th.plan[1]
           s == op.symbol
           h == feed[s].current
           q == th.profile
<1>1. /\ Going(th, P0[q]) /\ q \in Profiles /\ Step(th.plan, 1)
      /\ \A x \in Symbols : Open(T0, P0, feed, x) /\ feed[x] \in FeedOf
  BY VirtualCall
<1>2. op \in DropOps /\ (op.handle = 0 => op.intervals # <<>>)
  BY <1>1 DEF Step
<1>3. /\ op = [op |-> "drop", symbol |-> op.symbol, intervals |-> op.intervals, handle |-> op.handle]
      /\ s \in Symbols /\ op.intervals \in Seq(Intervals)
  BY <1>2 DEF DropOps
<1>4. th \in ThreadType /\ T0[t] = th /\ t \in Threads /\ th.plan # <<>>
  BY DEF Virtual
<1>5. Open(T0, P0, feed, s) /\ feed[s] \in FeedOf
  BY <1>1, <1>3
<1>6. op.handle # 0 => op.handle = h
  <2>1. op.handle # 0 => Started(T0, t, s)
    BY <1>4 DEF Started, Busy
  <2> QED
    BY <1>4, <1>5, <2>1 DEF Open
<1>7. op.handle = 0 => h # 0
  <2> SUFFICES ASSUME op.handle = 0 PROVE h # 0
    OBVIOUS
  <2>1. 1 \in DOMAIN op.intervals /\ op.intervals[1] \in Intervals
    BY SMT, <1>2, <1>3
  <2>2. PICK iv \in Intervals : iv = op.intervals[1]
    BY <2>1
  <2>3. Owed(th.plan, s, iv)
    <3>1. 1 \in DOMAIN th.plan
      BY SMT, <1>1 DEF Going
    <3> QED
      BY <2>1, <2>2, <3>1 DEF Owed
  <2>4. Moved(T0, T0, t, th)
    BY <1>4 DEF Moved, Virtual, Ledger, Threaded
  <2>5. Turn(T0, T0, P0, P0, t, q)
    BY <2>4, VirtualTurn
  <2>6. Shifts(T0, T0, P0, P0, t, q, s, iv)
    BY <2>5, CountStep
  <2>7. Weight(T0[t], P0[q], s, iv) >= 1
    BY SMT, <1>4, <2>3 DEF Weight, One
  <2>8. Weight(T0[t], P0[q], s, iv) \in Nat
    BY WeightType
  <2>9. Count(T0, P0, s, iv) # 0
    BY SMT, <2>6, <2>7, <2>8 DEF Shifts
  <2> QED
    BY <1>5, <2>9 DEF Open
<1>8. h # 0
  BY <1>6, <1>7
<1>9. h \in Handles
  <2>1. h \in 0..MaxHandles
    BY <1>5 DEF FeedOf
  <2> QED
    BY SMT, <1>8, <2>1, SomeHandle DEF Handles
<1> DEFINE e == [op EXCEPT !.handle = h]
<1> HIDE DEF h
<1>10. e.handle = h /\ e.symbol = op.symbol /\ e.intervals = op.intervals /\ (op.handle = h => e = op)
  BY SMT, <1>3
<1>11. Called(op) = e
  <2>1. CASE op.handle = 0
    BY <2>1 DEF Called, h
  <2>2. CASE op.handle # 0
    BY <1>6, <1>10, <2>2 DEF Called
  <2> QED
    BY <2>1, <2>2
<1> HIDE DEF e
<1>12. Calls(op, Called(op), h)
  BY <1>2, <1>3, <1>8, <1>9, <1>10, <1>11 DEF Calls, h, e
<1> QED
  BY <1>12 DEF h

\* No other update is giving back claims on that symbol.
LEMMA LoneDrop ==
  ASSUME NEW t, NEW th, NEW T0, NEW P0, Virtual(t, th, T0, P0), th.plan[1].op = "drop",
         NEW u \in Threads, u # t
  PROVE  ~Started(T0, u, th.plan[1].symbol)
<1>1. T0[u] = thread[u] /\ ~Meets(t, th) /\ th.plan # <<>>
  BY DEF Virtual
<1> QED
  BY <1>1 DEF Meets, Started, Busy

\* The feed changes for symbol x only.
Puts(F1, x, g) == F1 = [feed EXCEPT ![x] = g]

\* removeSymbols gives back all the claims it still has.
LEMMA MarketDrop ==
  ASSUME Counting, NEW t, NEW th, NEW T0, NEW P0, Virtual(t, th, T0, P0), th.plan[1].op = "drop",
         NEW T1, Moved(T0, T1, t, After(th, Tail(th.plan))), NEW F1, NEW d, d = Called(th.plan[1]),
         Puts(F1, th.plan[1].symbol, DropHandle(d, Released(d, Len(d.intervals))))
  PROVE  Ledger(T1, P0, F1)
<1> DEFINE op == th.plan[1]
           q == th.profile
           th2 == After(th, Tail(th.plan))
           x == op.symbol
<1>1. /\ Going(th, P0[q]) /\ q \in Profiles /\ op.op = "drop"
      /\ \A s \in Symbols : Open(T0, P0, feed, s) /\ feed[s] \in FeedOf
  BY VirtualCall
<1>2. Calls(op, d, feed[x].current)
  BY VirtualDrop
<1>4. th \in ThreadType /\ T0[t] = th /\ t \in Threads /\ T1[t] = th2
  BY DEF Virtual, Moved
<1>5. /\ th2 \in ThreadType /\ th2.plan = Tail(th.plan)
      /\ th2.plan # <<>> => Going(th2, P0[q])
  BY <1>1, <1>4, TailStep
<1>6. Shrinks(th, th2, P0[q], op)
  BY <1>1, <1>4, TailStep
<1>7. th2.plan # <<>> => th2.profile = q
  <2>1. Tail(th.plan) \in Seq(Ops)
    BY <1>4, <1>5 DEF ThreadType
  <2> QED
    BY <1>4, <1>5, <2>1, AfterShape
<1>8. Fresh(th2)
  BY <1>1, <1>4, TailFresh
<1> HIDE DEF th2
<1>9. Moved(T0, T1, t, th2)
  BY DEF th2
<1>10. Turn(T0, T1, P0, P0, t, q)
  BY <1>7, <1>9, VirtualTurn
<1>11. Threaded(T1, P0)
  <2>1. Threaded(T0, P0)
    BY DEF Virtual, Ledger
  <2>2. Busy(T1, t) => Going(T1[t], P0[q])
    BY <1>4, <1>5 DEF Busy
  <2> QED
    BY <1>10, <2>1, <2>2, ThreadStep
<1>12. ASSUME NEW s, NEW iv
       PROVE  /\ Count(T0, P0, s, iv) \in Nat /\ Count(T1, P0, s, iv) \in Nat
              /\ Count(T1, P0, s, iv) = Count(T0, P0, s, iv) - One(First(op, s, iv))
  <2>1. Shifts(T0, T1, P0, P0, t, q, s, iv)
    BY <1>10, CountStep
  <2>2. /\ Weight(T1[t], P0[q], s, iv) = Weight(T0[t], P0[q], s, iv) - One(First(op, s, iv))
        /\ Weight(T0[t], P0[q], s, iv) \in Nat
    BY <1>4, <1>6, WeightType DEF Shrinks
  <2>3. One(First(op, s, iv)) \in Nat
    BY SMT DEF One
  <2> QED
    BY SMT, <2>1, <2>2, <2>3 DEF Shifts
<1>13. feed \in FeedType /\ x \in Symbols
  BY <1>2 DEF Virtual, Ledger, Counted, Calls
<1>14. /\ F1[x] = DropHandle(d, Released(d, Len(d.intervals)))
       /\ \A s \in Symbols : s # x => F1[s] = feed[s]
       /\ F1 = [s \in Symbols |-> F1[s]]
  BY <1>13 DEF FeedType, Puts
<1>15. Open(T1, P0, F1, x) /\ F1[x] \in FeedOf
  <2>1. \A u \in Threads : ~Started(T1, u, x)
    <3> TAKE u \in Threads
    <3>1. CASE u = t
      BY <1>4, <1>8, <3>1, NotStarted
    <3>2. CASE u # t
      <4>1. ~Started(T0, u, x)
        BY <3>2, LoneDrop
      <4>2. T1[u] = T0[u]
        BY <3>2 DEF Moved
      <4> QED
        BY <4>1, <4>2 DEF Started, Busy
    <3> QED
      BY <3>1, <3>2
  <2>2. Gives(T0, T1, P0, P0, d, Len(d.intervals))
    <3>1. d.symbol = x /\ d.intervals = op.intervals /\ op.intervals \in Seq(Intervals)
      BY <1>2 DEF Calls
    <3>2. DOMAIN op.intervals = 1..Len(op.intervals)
      BY SMT, <3>1
    <3>3. ASSUME NEW iv
          PROVE  First(op, x, iv) <=> iv \in {d.intervals[i] : i \in 1..Len(d.intervals)}
      BY <1>1, <3>1, <3>2 DEF First
    <3>4. ASSUME NEW iv
          PROVE  One(First(op, x, iv)) = One(iv \in {d.intervals[i] : i \in 1..Len(d.intervals)})
      BY <3>3 DEF One
    <3> QED
      BY <1>12, <3>1, <3>4 DEF Gives
  <2>3. d.symbol = x /\ d.handle = feed[x].current /\ d.handle # 0
    BY <1>2 DEF Calls
  <2>4. Open(T0, P0, feed, x) /\ feed[x] \in FeedOf
    BY <1>1, <1>13
  <2> HIDE DEF x
  <2> QED
    BY <1>14, <2>1, <2>2, <2>3, <2>4, DropOpen
<1>16. ASSUME NEW s \in Symbols, s # x PROVE Open(T1, P0, F1, s) /\ F1[s] \in FeedOf
  <2>1. SameStarts(T0, T1, s)
    <3>1. ~Started(T0, t, s)
      BY <1>4, <1>16 DEF Started
    <3>2. ~Started(T1, t, s)
      BY <1>4, <1>8, NotStarted
    <3> QED
      BY <1>9, <3>1, <3>2, KeepStarts
  <2>2. \A iv \in Intervals : Count(T1, P0, s, iv) = Count(T0, P0, s, iv)
    <3> TAKE iv \in Intervals
    <3>1. One(First(op, s, iv)) = 0
      BY <1>16 DEF One, First
    <3>2. /\ Count(T0, P0, s, iv) \in Nat
          /\ Count(T1, P0, s, iv) = Count(T0, P0, s, iv) - One(First(op, s, iv))
      BY <1>12
    <3> QED
      BY SMT, <3>1, <3>2
  <2>3. Open(T0, P0, feed, s) /\ feed[s] \in FeedOf /\ F1[s] = feed[s]
    BY <1>1, <1>14, <1>16
  <2> QED
    BY <2>1, <2>2, <2>3, OpenSame
<1>17. \A s \in Symbols : Open(T1, P0, F1, s) /\ F1[s] \in FeedOf
  BY <1>15, <1>16
<1>18. F1 \in FeedType
  BY <1>14, <1>17 DEF FeedType
<1> QED
  BY <1>11, <1>17, <1>18 DEF Ledger, Counted

\* What is left of the update when n claims of its first call are given back.
Leftover(th, d, n) ==
  After(th, <<[d EXCEPT !.intervals = SubSeq(@, n + 1, Len(@))]>> \o Tail(th.plan))

\* What is left of a removeSymbols call that stops at an await.
LEMMA LeftoverParts ==
  ASSUME Counting, NEW t, NEW th, NEW T0, NEW P0, Virtual(t, th, T0, P0), th.plan[1].op = "drop",
         NEW d, d = Called(th.plan[1]), NEW n \in 1..Len(d.intervals)
  PROVE  Parts(th, Leftover(th, d, n), P0[th.profile], th.plan[1], d.handle, n)
<1> DEFINE op == th.plan[1]
           q == th.profile
           h == d.handle
           e == [op EXCEPT !.handle = h]
           rest == [e EXCEPT !.intervals = SubSeq(@, n + 1, Len(@))]
<1>1. Going(th, P0[q]) /\ th \in ThreadType
  BY VirtualCall DEF Virtual
<1>2. Calls(op, d, feed[op.symbol].current)
  BY VirtualDrop
<1>3. d = e /\ h \in Handles /\ n \in 1..Len(op.intervals)
  BY <1>2 DEF Calls
<1> HIDE DEF h
<1>4. Parts(th, After(th, <<rest>> \o Tail(th.plan)), P0[q], op, h, n)
  BY <1>1, <1>3, PartStep
<1> HIDE DEF e
<1>5. Leftover(th, d, n) = After(th, <<rest>> \o Tail(th.plan))
  BY <1>3 DEF Leftover
<1> QED
  BY <1>4, <1>5 DEF h

\* removeSymbols gives back claims up to a stream it closes.
LEMMA MarketPart ==
  ASSUME Counting, NEW t, NEW th, NEW T0, NEW P0, Virtual(t, th, T0, P0), th.plan[1].op = "drop",
         NEW d, d = Called(th.plan[1]), NEW n \in 1..Len(d.intervals), NEW th2,
         th2 = Leftover(th, d, n),
         NEW T1, Moved(T0, T1, t, th2), NEW F1,
         Puts(F1, th.plan[1].symbol, [feed[th.plan[1].symbol] EXCEPT !.streams[d.handle] = Released(d, n)])
  PROVE  Ledger(T1, P0, F1) /\ Parts(th, th2, P0[th.profile], th.plan[1], d.handle, n)
<1> DEFINE op == th.plan[1]
           q == th.profile
           x == op.symbol
           given == {op.intervals[i] : i \in 1..n}
<1>1. /\ Going(th, P0[q]) /\ q \in Profiles /\ op.op = "drop"
      /\ \A s \in Symbols : Open(T0, P0, feed, s) /\ feed[s] \in FeedOf
  BY VirtualCall
<1>2. Calls(op, d, feed[x].current)
  BY VirtualDrop
<1>3. /\ d = [op EXCEPT !.handle = d.handle] /\ d.handle \in Handles /\ d.handle # 0
      /\ d.handle = feed[x].current /\ d.symbol = x /\ d.intervals = op.intervals
  BY <1>2 DEF Calls
<1>4. th \in ThreadType /\ T0[t] = th /\ t \in Threads /\ T1[t] = th2
  BY DEF Virtual, Moved
<1>5. Parts(th, th2, P0[q], op, d.handle, n)
  BY LeftoverParts
<1>6. th2.plan # <<>> /\ th2.profile = q /\ Going(th2, P0[q])
  BY <1>5 DEF Parts
<1>10. Turn(T0, T1, P0, P0, t, q)
  BY <1>6, VirtualTurn
<1>11. Threaded(T1, P0)
  <2>1. Threaded(T0, P0)
    BY DEF Virtual, Ledger
  <2>2. Busy(T1, t) => Going(T1[t], P0[q])
    BY <1>4, <1>6
  <2> QED
    BY <1>10, <2>1, <2>2, ThreadStep
<1>12. ASSUME NEW s, NEW iv
       PROVE  /\ Count(T0, P0, s, iv) \in Nat /\ Count(T1, P0, s, iv) \in Nat
              /\ Count(T1, P0, s, iv) = Count(T0, P0, s, iv) - One(s = x /\ iv \in given)
  <2>1. Shifts(T0, T1, P0, P0, t, q, s, iv)
    BY <1>10, CountStep
  <2>2. /\ Weight(T1[t], P0[q], s, iv) = Weight(T0[t], P0[q], s, iv) - One(s = x /\ iv \in given)
        /\ Weight(T0[t], P0[q], s, iv) \in Nat
    <3>1. Weight(th2, P0[q], s, iv) = Weight(th, P0[q], s, iv) - One(s = x /\ iv \in given)
      BY <1>5 DEF Parts, Loses
    <3>2. Weight(T0[t], P0[q], s, iv) \in Nat
      BY WeightType
    <3> HIDE DEF given, x
    <3> QED
      BY <1>4, <3>1, <3>2
  <2>3. One(s = x /\ iv \in given) \in Nat
    BY SMT DEF One
  <2> HIDE DEF given
  <2> QED
    BY SMT, <2>1, <2>2, <2>3 DEF Shifts
<1>13. feed \in FeedType /\ x \in Symbols
  BY <1>2 DEF Virtual, Ledger, Counted, Calls
<1>14. /\ F1[x] = [feed[x] EXCEPT !.streams[d.handle] = Released(d, n)]
       /\ \A s \in Symbols : s # x => F1[s] = feed[s]
       /\ F1 = [s \in Symbols |-> F1[s]]
  BY <1>13 DEF FeedType, Puts
<1>15. Open(T1, P0, F1, x) /\ F1[x] \in FeedOf
  <2>1. Started(T1, t, x) /\ T1[t].plan[1].handle = d.handle
    BY <1>3, <1>4, <1>5 DEF Parts, Started, Busy
  <2>2. \A u \in Threads : Started(T1, u, x) => u = t
    <3> SUFFICES ASSUME NEW u \in Threads, u # t PROVE ~Started(T1, u, x)
      OBVIOUS
    <3>1. ~Started(T0, u, x)
      BY LoneDrop
    <3>2. T1[u] = T0[u]
      BY DEF Moved
    <3> QED
      BY <3>1, <3>2 DEF Started, Busy
  <2>3. Gives(T0, T1, P0, P0, d, n)
    <3> DEFINE back == {d.intervals[i] : i \in 1..n}
    <3>1. back = given
      <4>1. d.intervals = op.intervals
        BY <1>3
      <4> QED
        BY SMT, <4>1
    <3> HIDE DEF back, given
    <3>2. ASSUME NEW iv PROVE One(x = x /\ iv \in given) = One(iv \in back)
      BY <3>1 DEF One
    <3> HIDE DEF x
    <3>3. ASSUME NEW iv
          PROVE  /\ Count(T0, P0, x, iv) \in Nat /\ Count(T1, P0, x, iv) \in Nat
                 /\ Count(T1, P0, x, iv) = Count(T0, P0, x, iv) - One(iv \in back)
      BY <1>12, <3>2
    <3>4. d.symbol = x
      BY <1>3
    <3> QED
      BY <3>3, <3>4 DEF Gives, back
  <2>4. Open(T0, P0, feed, x) /\ feed[x] \in FeedOf
    BY <1>1, <1>13
  <2> HIDE DEF x
  <2>5. Closes(F1, x, d, n)
    BY <1>14 DEF Closes
  <2>6. Holds(T1, t, x, d)
    BY <1>4, <2>1, <2>2 DEF Holds
  <2>7. d.symbol = x /\ d.handle = feed[x].current /\ d.handle # 0
    BY <1>3
  <2> QED
    BY <2>3, <2>4, <2>5, <2>6, <2>7, PartOpen
<1>16. ASSUME NEW s \in Symbols, s # x PROVE Open(T1, P0, F1, s) /\ F1[s] \in FeedOf
  <2>1. SameStarts(T0, T1, s)
    <3>1. ~Started(T0, t, s)
      BY <1>4, <1>16 DEF Started
    <3>2. ~Started(T1, t, s)
      BY <1>4, <1>5, <1>16 DEF Started, Parts
    <3> QED
      BY <3>1, <3>2, KeepStarts
  <2>2. \A iv \in Intervals : Count(T1, P0, s, iv) = Count(T0, P0, s, iv)
    <3> TAKE iv \in Intervals
    <3>1. One(s = x /\ iv \in given) = 0
      BY <1>16 DEF One
    <3>2. /\ Count(T0, P0, s, iv) \in Nat
          /\ Count(T1, P0, s, iv) = Count(T0, P0, s, iv) - One(s = x /\ iv \in given)
      BY <1>12
    <3> HIDE DEF given
    <3> QED
      BY SMT, <3>1, <3>2
  <2>3. Open(T0, P0, feed, s) /\ feed[s] \in FeedOf /\ F1[s] = feed[s]
    BY <1>1, <1>14, <1>16
  <2> QED
    BY <2>1, <2>2, <2>3, OpenSame
<1>17. \A s \in Symbols : Open(T1, P0, F1, s) /\ F1[s] \in FeedOf
  BY <1>15, <1>16
<1>18. F1 \in FeedType
  BY <1>14, <1>17 DEF FeedType
<1> QED
  BY <1>5, <1>11, <1>17, <1>18 DEF Ledger, Counted

\* The update of t is over or suspended again.
Left(t2, th) ==
  \/ t2 = NoThread
  \/ /\ t2 \in ThreadType /\ t2.plan # <<>> /\ t2.pc = "plan" /\ t2.profile = th.profile
     /\ NewOnly(t2, 1)
Done(t, th, P) ==
  /\ Ledger(thread', P, feed')
  /\ \A u \in Threads : u # t => thread'[u] = thread[u]
  /\ Left(thread'[t], th)

Peers(t, peers) ==
  peers \in [Threads -> ThreadType] /\ \A u \in Threads : u # t => peers[u] = thread[u]

\* The calls, by what they do to the feed and leave of the update.
CallStep(t, th, peers, op) ==
  \/ /\ op.op = "add"
     /\ feed' = [s \in Symbols |-> IF s \in op.symbols THEN Claimed(s, op.candle) ELSE feed[s]]
     /\ thread' = [peers EXCEPT ![t] = After(th, Tail(th.plan))]
  \/ op.op = "drop" /\ Called(op).handle = 0
  \/ /\ op.op = "drop" /\ LastClaims(Called(op)) = {}
     /\ feed' = [feed EXCEPT ![op.symbol] =
                   DropHandle(Called(op), Released(Called(op), Len(Called(op).intervals)))]
     /\ thread' = [peers EXCEPT ![t] = After(th, Tail(th.plan))]
  \/ /\ op.op = "drop" /\ LastClaims(Called(op)) # {}
     /\ feed' = [feed EXCEPT ![op.symbol].streams[Called(op).handle] =
                   Released(Called(op), Min(LastClaims(Called(op))))]
     /\ thread' = [peers EXCEPT ![t] = Leftover(th, Called(op), Min(LastClaims(Called(op))))]

\* A market call, whichever it is.
LEMMA MarketStep ==
  ASSUME Counting, NEW t, NEW th, NEW T0, NEW P0, Virtual(t, th, T0, P0), NEW peers, Peers(t, peers),
         Market(t, th, peers)
  PROVE  Done(t, th, P0)
<1> DEFINE op == th.plan[1]
           d == Called(op)
           tail == Tail(th.plan)
           q == th.profile
<1>1. /\ Going(th, P0[q]) /\ q \in Profiles
      /\ \A s \in Symbols : Open(T0, P0, feed, s) /\ feed[s] \in FeedOf
  BY VirtualCall
<1>2. th \in ThreadType /\ t \in Threads /\ NewOnly(th, 2) /\ \A u \in Threads : u # t => T0[u] = thread[u]
  BY DEF Virtual
<1>3. Head(th.plan) = op
  <2>1. th.plan \in Seq(Ops) /\ th.plan # <<>>
    BY <1>1 DEF Going
  <2> QED
    BY SMT, <2>1
<1>4. CallStep(t, th, peers, op)
  <2>1. CallStep(t, th, peers, Head(th.plan))
    BY DEF Market, After, Leftover, Called, addSymbols, CallStep
  <2> QED
    BY <1>3, <2>1
<1>5. ASSUME NEW th2 \in ThreadType, thread' = [peers EXCEPT ![t] = th2]
      PROVE  Moved(T0, thread', t, th2) /\ \A u \in Threads : u # t => thread'[u] = thread[u]
  <2>1. thread' \in [Threads -> ThreadType] /\ thread'[t] = th2
    BY <1>2, <1>5 DEF Peers
  <2>2. \A u \in Threads : u # t => thread'[u] = peers[u]
    BY <1>2, <1>5 DEF Peers
  <2>3. \A u \in Threads : u # t => thread'[u] = thread[u]
    BY <2>2 DEF Peers
  <2> QED
    BY <1>2, <2>1, <2>3 DEF Moved
<1> DEFINE th1 == After(th, tail)
<1>6. ASSUME op.op \in {"add", "drop"} PROVE th1 \in ThreadType /\ Left(th1, th)
  <2>1. op.op # "commit"
    BY <1>6
  <2>6. /\ th1 \in ThreadType /\ th1.plan = tail
        /\ th1.plan # <<>> => Going(th1, P0[q]) /\ (NewOnly(th, 2) => NewOnly(th1, 1))
    BY <1>1, <1>2, <2>1, TailStep
  <2>2. /\ th1 \in ThreadType /\ th1.plan = tail
        /\ th1.plan # <<>> => NewOnly(th1, 1)
    BY <1>2, <2>6
  <2>3. tail \in Seq(Ops)
    BY <2>2 DEF ThreadType
  <2>4. CASE tail = <<>>
    <3>1. th1 = NoThread
      BY <1>2, <2>3, <2>4, AfterShape
    <3> HIDE DEF th1
    <3> QED
      BY <2>2, <3>1 DEF Left
  <2>5. CASE tail # <<>>
    <3>1. th1.profile = q /\ th1.pc = "plan"
      BY <1>2, <2>3, <2>5, AfterShape
    <3> HIDE DEF th1
    <3> QED
      BY <2>2, <2>5, <3>1 DEF Left
  <2> QED
    BY <2>2, <2>4, <2>5
<1> HIDE DEF th1
<1>7. CASE /\ op.op = "add"
           /\ feed' = [s \in Symbols |-> IF s \in op.symbols THEN Claimed(s, op.candle) ELSE feed[s]]
           /\ thread' = [peers EXCEPT ![t] = th1]
  <2>1. th1 \in ThreadType /\ Left(th1, th)
    BY <1>6, <1>7
  <2>2. Moved(T0, thread', t, th1) /\ \A u \in Threads : u # t => thread'[u] = thread[u]
    BY <1>5, <1>7, <2>1
  <2>3. Ledger(thread', P0, feed')
    BY <1>7, <2>2, MarketAdd DEF th1
  <2>4. thread'[t] = th1
    BY <2>2 DEF Moved
  <2> QED
    BY <2>1, <2>2, <2>3, <2>4 DEF Done
<1>8. CASE op.op = "drop"
  <2>1. Calls(op, d, feed[op.symbol].current)
    BY <1>8, VirtualDrop
  <2>2. /\ op.symbol \in Symbols /\ d.intervals \in Seq(Intervals) /\ d.handle # 0
        /\ d.intervals = op.intervals
    BY <2>1 DEF Calls
  <2> HIDE DEF d
  <2>3. d = Called(op)
    BY DEF d
  <2>4. CASE /\ feed' = [feed EXCEPT ![op.symbol] = DropHandle(d, Released(d, Len(d.intervals)))]
             /\ thread' = [peers EXCEPT ![t] = th1]
    <3>1. th1 \in ThreadType /\ Left(th1, th)
      BY <1>6, <1>8
    <3>2. Moved(T0, thread', t, th1) /\ \A u \in Threads : u # t => thread'[u] = thread[u]
      BY <1>5, <2>4, <3>1
    <3>3. Puts(feed', op.symbol, DropHandle(d, Released(d, Len(d.intervals))))
      BY <2>4 DEF Puts
    <3>4. Ledger(thread', P0, feed')
      BY <1>8, <2>3, <3>2, <3>3, MarketDrop DEF th1
    <3>5. thread'[t] = th1
      BY <3>2 DEF Moved
    <3> QED
      BY <3>1, <3>2, <3>4, <3>5 DEF Done
  <2>5. CASE /\ LastClaims(d) # {}
             /\ feed' = [feed EXCEPT ![op.symbol].streams[d.handle] = Released(d, Min(LastClaims(d)))]
             /\ thread' = [peers EXCEPT ![t] = Leftover(th, d, Min(LastClaims(d)))]
    <3> DEFINE n == Min(LastClaims(d))
               th2 == Leftover(th, d, n)
    <3>1. n \in 1..Len(d.intervals)
      <4>1. LastClaims(d) \subseteq 1..Len(d.intervals)
        BY DEF LastClaims
      <4>2. LastClaims(d) \subseteq Nat
        BY SMT, <4>1
      <4> QED
        BY <2>5, <4>1, <4>2, MinIn
    <3> HIDE DEF n
    <3>2. Parts(th, th2, P0[q], op, d.handle, n)
      BY <1>8, <2>3, <3>1, LeftoverParts
    <3>3. th2 = Leftover(th, d, n)
      OBVIOUS
    <3>4. thread' = [peers EXCEPT ![t] = th2]
      BY <2>5 DEF n
    <3> HIDE DEF th2
    <3>5. th2 \in ThreadType /\ Left(th2, th)
      BY <1>2, <3>2 DEF Parts, Left
    <3>6. Moved(T0, thread', t, th2) /\ \A u \in Threads : u # t => thread'[u] = thread[u]
      BY <1>5, <3>4, <3>5
    <3>7. Puts(feed', op.symbol, [feed[op.symbol] EXCEPT !.streams[d.handle] = Released(d, n)])
      BY <2>5 DEF Puts, n
    <3>8. Ledger(thread', P0, feed')
      BY <1>8, <2>3, <3>1, <3>3, <3>6, <3>7, MarketPart
    <3>9. thread'[t] = th2
      BY <3>6 DEF Moved
    <3> QED
      BY <3>5, <3>6, <3>8, <3>9 DEF Done
  <2> QED
    BY <1>4, <1>8, <2>2, <2>4, <2>5 DEF CallStep, d, th1
<1> QED
  BY <1>4, <1>7, <1>8 DEF CallStep, th1

\* A step of an update, by what it leaves of the manager.
Result(t, th) ==
  /\ Ledger(thread', profiles', feed') /\ Index(profiles', inverse')
  /\ \A u \in Threads : u # t => thread'[u] = thread[u]
  /\ Left(thread'[t], th)

\* The state of q changes, and the others stay.
LEMMA TurnTo ==
  ASSUME NEW T, NEW T1, NEW P, NEW P1, NEW t, NEW q, Turn(T, T1, P, P, t, q),
         \A p \in Profiles : p # q => P1[p] = P[p]
  PROVE  Turn(T, T1, P, P1, t, q)
BY DEF Turn

\* The index follows the profiles when q gets the row r.
Reindexed(inv, inv1, q, r) ==
  /\ inv1 \in [Symbols -> SUBSET Profiles]
  /\ \A s \in Symbols : q \in inv1[s] <=> s \in r.symbols
  /\ \A s \in Symbols, p \in Profiles : p # q => (p \in inv1[s] <=> p \in inv[s])

\* P1 is P with the row r for q.
Assigns(P, P1, q, r) == P1 = [P EXCEPT ![q] = r]
Assigned(P, P1, q, r) == P1[q] = r /\ \A p \in Profiles : p # q => P1[p] = P[p]

\* The index stays right when it follows the profiles.
LEMMA IndexStep ==
  ASSUME NEW P, NEW inv, NEW inv1, NEW q \in Profiles, NEW r \in Rows, Index(P, inv),
         Reindexed(inv, inv1, q, r), NEW P1, Assigns(P, P1, q, r)
  PROVE  Index(P1, inv1) /\ Assigned(P, P1, q, r)
<1>1. P \in [Profiles -> Rows]
  BY DEF Index
<1>2. P1 \in [Profiles -> Rows] /\ P1[q] = r /\ \A p \in Profiles : p # q => P1[p] = P[p]
  BY <1>1 DEF Assigns
<1>3. ASSUME NEW s \in Symbols PROVE inv1[s] = {p \in Profiles : s \in P1[p].symbols}
  <2>1. inv1[s] \in SUBSET Profiles /\ inv[s] = {p \in Profiles : s \in P[p].symbols}
    BY DEF Reindexed, Index
  <2>2. ASSUME NEW p \in Profiles PROVE p \in inv1[s] <=> s \in P1[p].symbols
    <3>1. CASE p = q
      BY <1>2, <3>1 DEF Reindexed
    <3>2. CASE p # q
      BY <1>2, <2>1, <3>2 DEF Reindexed
    <3> QED
      BY <3>1, <3>2
  <2> QED
    BY <2>1, <2>2
<1> QED
  BY <1>2, <1>3 DEF Index, Reindexed, Assigned

\* Profiles and threads change, the feed does not: no claim moves.
LEMMA StillOpen ==
  ASSUME Counting, NEW T, NEW T1, NEW P, NEW P1, NEW F, NEW t, NEW q, Turn(T, T1, P, P1, t, q), Ledger(T, P, F),
         Busy(T1, t) => Going(T1[t], P1[q]),
         \A s \in Symbols : ~Started(T, t, s) /\ ~Started(T1, t, s),
         \A s, iv : Weight(T1[t], P1[q], s, iv) = Weight(T[t], P[q], s, iv)
  PROVE  Ledger(T1, P1, F)
<1>1. Threaded(T1, P1)
  BY ThreadStep DEF Ledger
<1>2. ASSUME NEW s \in Symbols PROVE Open(T1, P1, F, s)
  <2>1. Open(T, P, F, s)
    BY DEF Ledger, Counted
  <2>2. Moved(T, T1, t, T1[t])
    BY DEF Turn, Moved
  <2>3. SameStarts(T, T1, s)
    BY <2>2, KeepStarts
  <2>4. ASSUME NEW iv \in Intervals PROVE Count(T1, P1, s, iv) = Count(T, P, s, iv)
    <3>1. Shifts(T, T1, P, P1, t, q, s, iv)
      BY CountStep
    <3>2. Weight(T1[t], P1[q], s, iv) = Weight(T[t], P[q], s, iv)
      OBVIOUS
    <3>3. Weight(T[t], P[q], s, iv) \in Nat
      BY WeightType
    <3> QED
      BY SMT, <3>1, <3>2, <3>3 DEF Shifts
  <2> QED
    BY <2>1, <2>3, <2>4, OpenSame
<1> QED
  BY <1>1, <1>2 DEF Ledger, Counted

\* The assignments at the end of setSymbols.
LEMMA CommitRun ==
  ASSUME Counting, NEW t, NEW th, NEW T0, Virtual(t, th, T0, profiles), thread \in [Threads -> ThreadType],
         Index(profiles, inverse), Commit(t, th)
  PROVE  Result(t, th)
<1> DEFINE op == Head(th.plan)
           q == th.profile
           new(s) == CASE s \in op.added -> inverse[s] \cup {q}
                       [] s \in op.released -> inverse[s] \ {q}
                       [] OTHER -> inverse[s]
<1>1. Going(th, profiles[q]) /\ q \in Profiles
  BY VirtualCall
<1>2. /\ th \in ThreadType /\ t \in Threads /\ T0[t] = th
      /\ Ledger(T0, profiles, feed) /\ \A u \in Threads : u # t => T0[u] = thread[u]
  BY DEF Virtual
<1>3. op = th.plan[1]
  <2>1. th.plan \in Seq(Ops) /\ th.plan # <<>>
    BY <1>1 DEF Going
  <2> QED
    BY SMT, <2>1
<1>4. /\ op.op = "commit" /\ feed' = feed /\ thread' = [thread EXCEPT ![t] = NoThread]
      /\ profiles' = [profiles EXCEPT ![q] = th.row]
  <2>1. ~th.detached
    BY <1>2 DEF ThreadType
  <2> QED
    BY <2>1 DEF Commit
<1>5. inverse' = [s \in Symbols |-> new(s)]
  BY DEF Commit
<1> HIDE DEF op
<1>6. th.plan[1].op = "commit"
  BY <1>3, <1>4
<1>7. /\ th.row.candle \in Candles
      /\ op.added = th.row.symbols \ profiles[q].symbols
      /\ op.released = profiles[q].symbols \ th.row.symbols
      /\ \A s, iv : Weight(NoThread, th.row, s, iv) = Weight(th, profiles[q], s, iv)
  <2> HIDE DEF q
  <2>1. /\ th.row.candle \in Candles
        /\ th.plan[1].added = th.row.symbols \ profiles[q].symbols
        /\ th.plan[1].released = profiles[q].symbols \ th.row.symbols
        /\ \A s, iv : Weight(NoThread, th.row, s, iv) = Weight(th, profiles[q], s, iv)
    BY <1>1, <1>2, <1>6, CommitStep
  <2> QED
    BY <1>3, <2>1
<1>8. th.row \in Rows
  <2>1. th.row \in Loose
    BY <1>2 DEF ThreadType
  <2> QED
    BY <1>7, <2>1 DEF Loose, Rows
<1>9. Reindexed(inverse, inverse', q, th.row)
  <2>1. /\ inverse \in [Symbols -> SUBSET Profiles]
        /\ \A s \in Symbols : q \in inverse[s] <=> s \in profiles[q].symbols
    BY <1>1 DEF Index
  <2>2. ASSUME NEW s \in Symbols
        PROVE  new(s) = IF s \in op.added THEN inverse[s] \cup {q}
                        ELSE IF s \in op.released THEN inverse[s] \ {q} ELSE inverse[s]
    <3>1. ~(s \in op.added /\ s \in op.released)
      BY <1>7
    <3> QED
      BY <3>1
  <2> HIDE DEF new
  <2>3. \A s \in Symbols : new(s) \in SUBSET Profiles
    BY <1>1, <2>1, <2>2
  <2>4. \A s \in Symbols : q \in new(s) <=> s \in th.row.symbols
    BY <1>7, <2>1, <2>2
  <2>5. \A s \in Symbols, p \in Profiles : p # q => (p \in new(s) <=> p \in inverse[s])
    BY <2>2
  <2>6. inverse' \in [Symbols -> SUBSET Profiles] /\ \A s \in Symbols : inverse'[s] = new(s)
    BY <1>5, <2>3
  <2> QED
    BY <2>4, <2>5, <2>6 DEF Reindexed
<1>10. /\ Index(profiles', inverse') /\ profiles'[q] = th.row
       /\ \A p \in Profiles : p # q => profiles'[p] = profiles[p]
  <2>1. Assigns(profiles, profiles', q, th.row)
    BY <1>4 DEF Assigns
  <2>2. Index(profiles', inverse') /\ Assigned(profiles, profiles', q, th.row)
    BY <1>1, <1>8, <1>9, <2>1, IndexStep
  <2> QED
    BY <2>2 DEF Assigned
<1>11. Moved(T0, thread', t, NoThread) /\ \A u \in Threads : u # t => thread'[u] = thread[u]
  <2>1. NoThread \in ThreadType
    BY IdleThread
  <2>2. /\ thread' \in [Threads -> ThreadType] /\ thread'[t] = NoThread
        /\ \A u \in Threads : u # t => thread'[u] = thread[u]
    BY <1>2, <1>4, <2>1
  <2> QED
    BY <1>2, <2>2 DEF Moved
<1>12. Turn(T0, thread', profiles, profiles', t, q)
  <2>1. Turn(T0, thread', profiles, profiles, t, q)
    BY <1>11, IdleThread, VirtualTurn
  <2> QED
    BY <1>10, <2>1, TurnTo
<1>13. thread'[t] = NoThread
  BY <1>11 DEF Moved
<1>14. Ledger(thread', profiles', feed)
  <2>1. ~Busy(thread', t)
    BY <1>13, IdleThread DEF Busy
  <2>2. \A s \in Symbols : ~Started(T0, t, s) /\ ~Started(thread', t, s)
    BY <1>2, <1>6, <2>1 DEF Started
  <2>3. \A s, iv : Weight(thread'[t], profiles'[q], s, iv) = Weight(T0[t], profiles[q], s, iv)
    BY <1>2, <1>7, <1>10, <1>13
  <2> QED
    BY <1>2, <1>12, <2>1, <2>2, <2>3, StillOpen
<1> QED
  BY <1>4, <1>10, <1>11, <1>13, <1>14 DEF Result, Left

\* Only q's row changes.
Elsewhere(P, P1, q) == \A p \in Profiles : p # q => P1[p] = P[p]

\* An update runs up to its next await.
LEMMA RunStep ==
  ASSUME Counting, NEW t, NEW th, NEW T0, Virtual(t, th, T0, profiles), Whole, Run(t, th)
  PROVE  Result(t, th)
<1>1. thread \in [Threads -> ThreadType] /\ Index(profiles, inverse)
  BY DEF Whole, Ledger, Threaded
<1>2. CASE Market(t, th, thread) /\ UNCHANGED <<profiles, inverse>>
  <2>1. Peers(t, thread)
    BY <1>1 DEF Peers
  <2>2. Done(t, th, profiles)
    BY <1>2, <2>1, MarketStep
  <2>3. profiles' = profiles /\ inverse' = inverse
    BY <1>2
  <2>4. Ledger(thread', profiles', feed') /\ Index(profiles', inverse')
    BY <1>1, <2>2, <2>3 DEF Done
  <2> QED
    BY <2>2, <2>4 DEF Done, Result
<1>3. CASE Commit(t, th)
  BY <1>1, <1>3, CommitRun
<1> QED
  BY <1>2, <1>3 DEF Run

\* A suspended update takes its next step.
LEMMA ResumeRun ==
  ASSUME Counting, NEW t \in Threads, Whole, Busy(thread, t), NewOnly(thread[t], 1), ~Meets(t, thread[t]),
         Run(t, thread[t])
  PROVE  Result(t, thread[t])
<1>1. thread[t] \in ThreadType /\ thread[t].plan \in Seq(Ops) /\ thread[t].plan # <<>>
  BY DEF Whole, Ledger, Threaded, ThreadType, Busy
<1>2. NewOnly(thread[t], 2)
  <2>1. \A i \in DOMAIN thread[t].plan : i >= 2 => i >= 1
    BY SMT, <1>1
  <2> QED
    BY <2>1 DEF NewOnly
<1>3. Virtual(t, thread[t], thread, profiles)
  BY <1>1, <1>2 DEF Virtual, Whole
<1> QED
  BY <1>3, RunStep

\* Thread t begins the update th0.
LEMMA Given ==
  ASSUME Counting, NEW t \in Threads, Whole, thread[t].plan = <<>>, NEW th0 \in ThreadType, th0.plan # <<>>,
         ~Meets(t, th0), NEW P0, Elsewhere(profiles, P0, th0.profile), Going(th0, P0[th0.profile]),
         NewOnly(th0, 2), Fresh(th0), Even(th0, P0[th0.profile], profiles[th0.profile])
  PROVE  Virtual(t, th0, [thread EXCEPT ![t] = th0], P0)
<1> DEFINE T0 == [thread EXCEPT ![t] = th0]
           q == th0.profile
<1>1. thread \in [Threads -> ThreadType] /\ OneEach(thread)
  BY DEF Whole, Ledger, Threaded
<1>2. T0 \in [Threads -> ThreadType] /\ T0[t] = th0 /\ \A u \in Threads : u # t => T0[u] = thread[u]
  BY <1>1
<1> HIDE DEF T0
<1>3. q \in Profiles
  BY DEF ThreadType
<1>4. ASSUME NEW u \in Threads, u # t, Busy(thread, u) PROVE thread[u].profile # q
  BY <1>4 DEF Meets, Busy
<1>5. ~Busy(thread, t)
  BY DEF Busy
<1>6. Turn(thread, T0, profiles, P0, t, q)
  BY <1>1, <1>2, <1>3, <1>4, <1>5 DEF Turn, Elsewhere
<1>7. /\ Ledger(T0, P0, feed)
      /\ \A u \in Threads, s \in Symbols : Started(thread, u, s) => Started(T0, u, s)
  <2>1. Ledger(thread, profiles, feed)
    BY DEF Whole
  <2>2. Fresh(T0[t]) /\ Even(T0[t], P0[q], profiles[q]) /\ (Busy(T0, t) => Going(T0[t], P0[q]))
    BY <1>2
  <2> HIDE DEF q
  <2> QED
    BY <1>6, <2>1, <2>2, Begins
<1>8. Virtual(t, th0, T0, P0)
  BY <1>2, <1>7 DEF Virtual
<1> QED
  BY <1>8 DEF T0

\* setSymbols up to its first await.
LEMMA SetRun ==
  ASSUME Counting, NEW t \in Threads, Whole, thread[t].plan = <<>>, NEW th \in ThreadType, th.row.candle \in Candles,
         profiles[th.profile] # Inactive, setSymbols(t, th), overlap' = FALSE
  PROVE  Result(t, th)
<1> DEFINE q == th.profile
           st == profiles[q]
           th0 == [th EXCEPT !.plan = setSymbolsPlan(st, th.row)]
           T0 == [thread EXCEPT ![t] = th0]
<1>1. q \in Profiles /\ profiles \in [Profiles -> Rows]
  BY DEF ThreadType, Whole, Index
<1>2. st \in Rows
  BY <1>1
<1>3. /\ th0 \in ThreadType /\ Going(th0, st) /\ NewOnly(th0, 2) /\ Fresh(th0)
      /\ Even(th0, st, st)
  BY <1>2, BeginSet DEF Even
<1>4. th0.profile = q
  BY DEF ThreadType
<1>5. Run(t, th0)
  BY DEF setSymbols
<1> HIDE DEF th0
<1>6. ~Meets(t, th0)
  BY <1>5 DEF Run, Market, Commit
<1>7. Elsewhere(profiles, profiles, q)
  BY DEF Elsewhere
<1>8. th0.plan # <<>>
  BY <1>3 DEF Going
<1>9. Virtual(t, th0, T0, profiles)
  <2> HIDE DEF T0
  <2>1. T0 = [thread EXCEPT ![t] = th0]
    BY DEF T0
  <2>2. Virtual(t, th0, [thread EXCEPT ![t] = th0], profiles)
    BY <1>3, <1>4, <1>6, <1>7, <1>8, Given
  <2> QED
    BY <2>1, <2>2
<1> HIDE DEF T0
<1>10. Result(t, th0)
  BY <1>5, <1>9, RunStep
<1> QED
  BY <1>4, <1>10 DEF Result, Left

\* enable of a profile that is not active.
Enables(t, th) ==
  /\ profiles' = [profiles EXCEPT ![th.profile] = th.row]
  /\ inverse' = [s \in Symbols |->
       IF s \in th.row.symbols THEN inverse[s] \cup {th.profile} ELSE inverse[s]]
  /\ addSymbols(th.row.symbols, th.row.candle)
  /\ thread' = [thread EXCEPT ![t] = NoThread]

\* Its claims are made at once.
LEMMA EnableRun ==
  ASSUME Counting, NEW t \in Threads, Whole, thread[t].plan = <<>>, NEW th \in ThreadType, th.row.candle \in Candles,
         profiles[th.profile] = Inactive, ~Meets(t, th), Enables(t, th)
  PROVE  Result(t, th)
<1> DEFINE q == th.profile
           r == th.row
<1>1. q \in Profiles /\ r \in Loose
  BY DEF ThreadType
<1>2. /\ thread \in [Threads -> ThreadType] /\ OneEach(thread) /\ Threaded(thread, profiles)
      /\ \A s \in Symbols : Open(thread, profiles, feed, s) /\ feed[s] \in FeedOf
      /\ Index(profiles, inverse)
  BY DEF Whole, Ledger, Threaded, Counted, FeedType
<1>3. r \in Rows
  BY <1>1 DEF Loose, Rows
<1>4. Reindexed(inverse, inverse', q, r)
  <2>1. /\ inverse \in [Symbols -> SUBSET Profiles]
        /\ \A s \in Symbols : q \notin inverse[s]
    <3>1. Inactive.symbols = {}
      BY DEF Inactive
    <3> QED
      BY <1>1, <1>2, <3>1 DEF Index
  <2>2. \A s \in Symbols : inverse'[s] = IF s \in r.symbols THEN inverse[s] \cup {q} ELSE inverse[s]
    BY DEF Enables
  <2>3. inverse' \in [Symbols -> SUBSET Profiles]
    <3>1. \A s \in Symbols : inverse'[s] \in SUBSET Profiles
      BY <1>1, <2>1, <2>2
    <3>2. inverse' = [s \in Symbols |-> inverse'[s]]
      BY DEF Enables
    <3> QED
      BY <3>1, <3>2
  <2>4. \A s \in Symbols : q \in inverse'[s] <=> s \in r.symbols
    BY <2>1, <2>2
  <2>5. \A s \in Symbols, p \in Profiles : p # q => (p \in inverse'[s] <=> p \in inverse[s])
    BY <2>2
  <2> QED
    BY <2>3, <2>4, <2>5 DEF Reindexed
<1>5. Index(profiles', inverse') /\ Assigned(profiles, profiles', q, r)
  <2>1. Assigns(profiles, profiles', q, r)
    BY DEF Assigns, Enables
  <2> QED
    BY <1>1, <1>2, <1>3, <1>4, <2>1, IndexStep
<1>6. Moved(thread, thread', t, NoThread)
  <2>1. NoThread \in ThreadType
    BY IdleThread
  <2>2. thread'[t] = NoThread /\ \A u \in Threads : u # t => thread'[u] = thread[u]
    BY <1>2 DEF Enables
  <2>3. thread' \in [Threads -> ThreadType]
    BY <1>2, <2>1 DEF Enables
  <2> QED
    BY <2>2, <2>3 DEF Moved
<1>7. ~Busy(thread, t) /\ ~Busy(thread', t) /\ thread'[t] = NoThread
  BY <1>6, IdleThread DEF Busy, Moved
<1>8. Turn(thread, thread', profiles, profiles', t, q)
  <2>1. ASSUME NEW u \in Threads, u # t, Busy(thread, u) PROVE thread[u].profile # q
    BY <2>1 DEF Meets, Busy
  <2>2. \A p \in Profiles : p # q => profiles'[p] = profiles[p]
    BY <1>5 DEF Assigned
  <2>3. thread' \in [Threads -> ThreadType] /\ \A u \in Threads : u # t => thread'[u] = thread[u]
    BY <1>6 DEF Moved
  <2> QED
    BY <1>1, <1>2, <1>7, <2>1, <2>2, <2>3 DEF Turn
<1>9. Threaded(thread', profiles')
  BY <1>2, <1>7, <1>8, ThreadStep
<1>10. \A s \in Symbols : feed'[s] = IF s \in r.symbols THEN Claimed(s, r.candle) ELSE feed[s]
  BY DEF addSymbols, Enables
<1>11. feed' = [s \in Symbols |-> feed'[s]]
  BY DEF addSymbols, Enables
<1>12. ASSUME NEW s \in Symbols PROVE Open(thread', profiles', feed', s) /\ feed'[s] \in FeedOf
  <2>1. SameStarts(thread, thread', s)
    <3>1. ~Started(thread, t, s) /\ ~Started(thread', t, s)
      BY <1>7 DEF Started
    <3> QED
      BY <1>6, <3>1, KeepStarts
  <2>2. ASSUME NEW iv \in Intervals
        PROVE  /\ Count(thread, profiles, s, iv) \in Nat
               /\ Count(thread', profiles', s, iv) =
                    Count(thread, profiles, s, iv) + One(s \in r.symbols /\ iv \in Fed(r.candle))
    <3>1. Shifts(thread, thread', profiles, profiles', t, q, s, iv)
      BY <1>8, CountStep
    <3>2. Weight(thread'[t], profiles'[q], s, iv) = One(s \in r.symbols /\ iv \in Fed(r.candle))
      <4>1. Weight(NoThread, r, s, iv) = One(s \in r.symbols /\ iv \in Fed(r.candle))
        BY IdleWeight, IdleThread
      <4> QED
        BY <1>5, <1>7, <4>1 DEF Assigned
    <3>3. Weight(thread[t], profiles[q], s, iv) = 0
      <4>1. Weight(thread[t], profiles[q], s, iv)
              = One(s \in profiles[q].symbols /\ iv \in Fed(profiles[q].candle))
        BY IdleWeight
      <4>2. s \notin profiles[q].symbols
        <5>1. Inactive.symbols = {}
          BY DEF Inactive
        <5> QED
          BY <5>1
      <4> QED
        BY <4>1, <4>2 DEF One
    <3>4. One(s \in r.symbols /\ iv \in Fed(r.candle)) \in Nat
      BY SMT DEF One
    <3> HIDE DEF q, r
    <3> QED
      BY SMT, <3>1, <3>2, <3>3, <3>4 DEF Shifts
  <2>3. Open(thread, profiles, feed, s) /\ feed[s] \in FeedOf
    BY <1>2
  <2>4. CASE s \in r.symbols
    <3>1. feed'[s] = Claimed(s, r.candle)
      BY <1>10, <2>4
    <3>2. \A u \in Threads : Started(thread, u, s) => Started(thread, u, s)
      OBVIOUS
    <3>3. Gains(thread, thread', profiles, profiles', s, r.candle)
      BY <2>2, <2>4 DEF One, Gains
    <3> QED
      BY <2>1, <2>3, <3>1, <3>2, <3>3, AddOpen
  <2>5. CASE s \notin r.symbols
    <3>1. feed'[s] = feed[s]
      BY <1>10, <2>5
    <3>2. \A iv \in Intervals : Count(thread', profiles', s, iv) = Count(thread, profiles, s, iv)
      <4> TAKE iv \in Intervals
      <4>1. ~(s \in r.symbols /\ iv \in Fed(r.candle))
        BY <2>5
      <4>2. One(s \in r.symbols /\ iv \in Fed(r.candle)) = 0
        BY <4>1 DEF One
      <4> HIDE DEF r
      <4> QED
        BY SMT, <2>2, <4>2
    <3> QED
      BY <2>1, <2>3, <3>1, <3>2, OpenSame
  <2> QED
    BY <2>4, <2>5
<1>13. feed' \in FeedType
  BY <1>11, <1>12 DEF FeedType
<1>14. \A u \in Threads : u # t => thread'[u] = thread[u]
  BY <1>6 DEF Moved
<1> QED
  BY <1>5, <1>7, <1>9, <1>12, <1>13, <1>14 DEF Result, Left, Ledger, Counted

\* What disable makes of the other threads.
Detach(q) ==
  [u \in Threads |->
     IF thread[u].profile = q /\ thread[u].plan # <<>>
     THEN [thread[u] EXCEPT !.detached = TRUE] ELSE thread[u]]

\* No other update of the profile is under way, so disable detaches none.
LEMMA NoneDetached ==
  ASSUME NEW t \in Threads, thread \in [Threads -> ThreadType], thread[t].plan = <<>>, NEW th,
         ~Meets(t, th)
  PROVE  thread = Detach(th.profile)
<1>1. \A u \in Threads : ~(thread[u].profile = th.profile /\ thread[u].plan # <<>>)
  BY DEF Meets
<1>2. \A u \in Threads : (IF thread[u].profile = th.profile /\ thread[u].plan # <<>>
                          THEN [thread[u] EXCEPT !.detached = TRUE] ELSE thread[u]) = thread[u]
  BY <1>1
<1> QED
  BY <1>2 DEF Detach

\* A profile without symbols has no claims.
LEMMA NoClaims ==
  ASSUME NEW th, NEW st, NEW s, NEW iv, th.plan = <<>>, st.symbols = {}
  PROVE  Weight(th, st, s, iv) = 0
<1>1. Weight(th, st, s, iv) = One(s \in st.symbols /\ iv \in Fed(st.candle))
  BY IdleWeight
<1>2. ~(s \in st.symbols /\ iv \in Fed(st.candle))
  OBVIOUS
<1> QED
  BY <1>1, <1>2 DEF One

\* disable of a profile without symbols.
LEMMA DisableEmpty ==
  ASSUME Counting, NEW t \in Threads, Whole, thread[t].plan = <<>>, NEW th \in ThreadType,
         profiles[th.profile].symbols = {}, ~Meets(t, th),
         Assigns(profiles, profiles', th.profile, Inactive), Assigns(thread, thread', t, NoThread),
         inverse' = inverse, feed' = feed
  PROVE  Result(t, th)
<1> DEFINE q == th.profile
<1>1. q \in Profiles
  BY DEF ThreadType
<1>2. /\ thread \in [Threads -> ThreadType] /\ OneEach(thread) /\ Ledger(thread, profiles, feed)
      /\ Index(profiles, inverse)
  BY DEF Whole, Ledger, Threaded
<1>3. Inactive \in Rows /\ Inactive.symbols = {}
  BY DEF Rows, Inactive
<1>4. Reindexed(inverse, inverse', q, Inactive)
  BY <1>1, <1>2, <1>3 DEF Reindexed, Index
<1>5. Index(profiles', inverse') /\ Assigned(profiles, profiles', q, Inactive)
  BY <1>1, <1>2, <1>3, <1>4, IndexStep
<1>6. /\ thread' \in [Threads -> ThreadType] /\ thread'[t] = NoThread
      /\ \A u \in Threads : u # t => thread'[u] = thread[u]
  <2>1. NoThread \in ThreadType
    BY IdleThread
  <2> QED
    BY <1>2, <2>1 DEF Assigns
<1>7. ~Busy(thread, t) /\ ~Busy(thread', t)
  BY <1>6, IdleThread DEF Busy
<1>8. Turn(thread, thread', profiles, profiles', t, q)
  <2>1. ASSUME NEW u \in Threads, u # t, Busy(thread, u) PROVE thread[u].profile # q
    BY <2>1 DEF Meets, Busy
  <2> QED
    BY <1>1, <1>2, <1>5, <1>6, <1>7, <2>1 DEF Turn, Assigned
<1>9. Ledger(thread', profiles', feed')
  <2>1. \A s \in Symbols : ~Started(thread, t, s) /\ ~Started(thread', t, s)
    BY <1>7 DEF Started
  <2>2. ASSUME NEW s, NEW iv
        PROVE  Weight(thread'[t], profiles'[q], s, iv) = Weight(thread[t], profiles[q], s, iv)
    <3>1. thread'[t].plan = <<>> /\ profiles'[q].symbols = {}
      BY <1>3, <1>5, <1>6, IdleThread DEF Assigned
    <3>2. Weight(thread'[t], profiles'[q], s, iv) = 0
      BY <3>1, NoClaims
    <3>3. Weight(thread[t], profiles[q], s, iv) = 0
      BY NoClaims
    <3> QED
      BY <3>2, <3>3
  <2>3. Ledger(thread', profiles', feed)
    BY <1>2, <1>7, <1>8, <2>1, <2>2, StillOpen
  <2> QED
    BY <2>3
<1> QED
  BY <1>5, <1>6, <1>9 DEF Result, Left

\* disable up to its first await.
LEMMA DisableRun ==
  ASSUME Counting, NEW t \in Threads, Whole, thread[t].plan = <<>>, NEW th \in ThreadType,
         profiles[th.profile] # Inactive, disable(t, th), overlap' = FALSE
  PROVE  Result(t, th)
<1> DEFINE q == th.profile
           st == profiles[q]
           plan == Drops(st.symbols, st.candle)
           th0 == [th EXCEPT !.plan = plan]
           P0 == [profiles EXCEPT ![q] = Inactive]
           peers == Detach(q)
<1>1. q \in Profiles /\ profiles \in [Profiles -> Rows] /\ thread \in [Threads -> ThreadType]
  BY DEF ThreadType, Whole, Index, Ledger, Threaded
<1>2. st \in Rows
  BY <1>1
<1>3. /\ th0 \in ThreadType /\ th0.plan = plan /\ Fresh(th0) /\ (plan = <<>> <=> st.symbols = {})
      /\ plan # <<>> => Going(th0, Inactive) /\ NewOnly(th0, 1)
      /\ Even(th0, Inactive, st)
  BY <1>2, BeginDrop DEF Even
<1>4. th0.profile = q
  BY DEF ThreadType
<1>5. CASE plan = <<>>
  <2>1. /\ profiles' = P0 /\ thread' = [peers EXCEPT ![t] = NoThread]
        /\ overlap' = (overlap \/ Meets(t, th)) /\ inverse' = inverse /\ feed' = feed
    BY <1>5 DEF disable, Detach
  <2> HIDE DEF peers
  <2>2. ~Meets(t, th)
    BY <2>1
  <2>3. thread = peers
    BY <1>1, <2>2, NoneDetached DEF peers
  <2>4. Assigns(profiles, profiles', q, Inactive) /\ Assigns(thread, thread', t, NoThread)
    BY <2>1, <2>3 DEF Assigns
  <2>5. profiles[th.profile].symbols = {}
    BY <1>3, <1>5
  <2> QED
    BY <2>1, <2>2, <2>4, <2>5, DisableEmpty
<1>6. CASE plan # <<>>
  <2>1. profiles' = P0 /\ Market(t, th0, peers)
    BY <1>6 DEF disable, Detach
  <2>2. inverse' = [s \in Symbols |-> IF s \in st.symbols THEN inverse[s] \ {q} ELSE inverse[s]]
    BY <1>6 DEF disable
  <2> HIDE DEF peers, th0, P0
  <2>3. ~Meets(t, th0)
    BY <2>1 DEF Market
  <2>4. thread = peers
    BY <1>1, <1>4, <2>3, NoneDetached DEF peers
  <2>5. Index(profiles', inverse') /\ Assigned(profiles, profiles', q, Inactive)
    <3>1. Inactive \in Rows /\ Inactive.symbols = {}
      BY DEF Rows, Inactive
    <3>2. /\ inverse \in [Symbols -> SUBSET Profiles] /\ Index(profiles, inverse)
          /\ \A s \in Symbols : q \in inverse[s] <=> s \in st.symbols
      BY <1>1 DEF Whole, Index
    <3>3. \A s \in Symbols : inverse'[s] = IF s \in st.symbols THEN inverse[s] \ {q} ELSE inverse[s]
      BY <2>2
    <3>4. inverse' \in [Symbols -> SUBSET Profiles]
      BY <2>2, <3>2
    <3>5. Reindexed(inverse, inverse', q, Inactive)
      BY <3>1, <3>2, <3>3, <3>4 DEF Reindexed
    <3>6. Assigns(profiles, profiles', q, Inactive)
      BY <2>1 DEF Assigns, P0
    <3> QED
      BY <1>1, <3>1, <3>2, <3>5, <3>6, IndexStep
  <2>6. Elsewhere(profiles, P0, q) /\ P0[q] = Inactive
    BY <2>1, <2>5 DEF Elsewhere, Assigned
  <2>7. NewOnly(th0, 2)
    <3>1. NewOnly(th0, 1) /\ th0.plan \in Seq(Ops)
      BY <1>3, <1>6 DEF Going
    <3>2. \A i \in DOMAIN th0.plan : i >= 2 => i >= 1
      BY SMT, <3>1
    <3> QED
      BY <3>1, <3>2 DEF NewOnly
  <2> DEFINE T0 == [thread EXCEPT ![t] = th0]
  <2>8. Virtual(t, th0, T0, P0)
    <3>1. Going(th0, P0[th0.profile]) /\ Even(th0, P0[th0.profile], profiles[th0.profile])
      BY <1>3, <1>4, <1>6, <2>6
    <3>2. th0.plan # <<>> /\ Elsewhere(profiles, P0, th0.profile)
      BY <1>3, <1>4, <1>6, <2>6
    <3> QED
      BY <1>3, <2>3, <2>7, <3>1, <3>2, Given
  <2> HIDE DEF T0
  <2>9. Peers(t, peers)
    BY <1>1, <2>4 DEF Peers
  <2>10. Done(t, th0, P0)
    BY <2>1, <2>8, <2>9, MarketStep
  <2> QED
    BY <1>4, <2>1, <2>5, <2>10 DEF Done, Result, Left
<1> QED
  BY <1>5, <1>6

\* A thread that has no update under way, before or after, moves no claim.
LEMMA IdleStep ==
  ASSUME NEW T, NEW T1, NEW P, NEW F, NEW t, Ledger(T, P, F), T1 \in [Threads -> ThreadType],
         T[t].plan = <<>>, T1[t].plan = <<>>, \A u \in Threads : u # t => T1[u] = T[u]
  PROVE  Ledger(T1, P, F)
<1>1. T \in [Threads -> ThreadType] /\ OneEach(T)
  BY DEF Ledger, Threaded
<1>2. ~Busy(T, t) /\ ~Busy(T1, t)
  BY DEF Busy
<1>3. ASSUME NEW u \in Threads PROVE (Busy(T1, u) <=> Busy(T, u)) /\ (Busy(T, u) => T1[u] = T[u])
  <2>1. CASE u = t
    BY <1>2, <2>1
  <2>2. CASE u # t
    BY <2>2 DEF Busy
  <2> QED
    BY <2>1, <2>2
<1>4. OneEach(T1)
  BY <1>1, <1>3 DEF OneEach
<1>5. Threaded(T1, P)
  <2>1. \A u \in Threads : Busy(T, u) => Going(T[u], P[T[u].profile])
    BY DEF Ledger, Threaded
  <2>2. \A u \in Threads : Busy(T1, u) => Going(T1[u], P[T1[u].profile])
    BY <1>3, <2>1
  <2> QED
    BY <1>4, <2>2 DEF Threaded
<1>6. ASSUME NEW p \in Profiles PROVE Of(T1, p) = Of(T, p)
  <2>1. CASE \E u \in Threads : Busy(T, u) /\ T[u].profile = p
    <3>1. PICK u \in Threads : Busy(T, u) /\ T[u].profile = p
      BY <2>1
    <3>2. Busy(T1, u) /\ T1[u] = T[u]
      BY <1>3, <3>1
    <3>3. Of(T, p) = T[u]
      BY <1>1, <3>1, OfBusy
    <3>4. Of(T1, p) = T1[u]
      BY <1>4, <3>1, <3>2, OfBusy
    <3> QED
      BY <3>2, <3>3, <3>4
  <2>2. CASE ~\E u \in Threads : Busy(T, u) /\ T[u].profile = p
    <3>1. \A u \in Threads : ~(Busy(T1, u) /\ T1[u].profile = p)
      BY <1>3, <2>2
    <3>2. Of(T, p) = NoThread
      BY <2>2, OfNone
    <3>3. Of(T1, p) = NoThread
      BY <3>1, OfNone
    <3> QED
      BY <3>2, <3>3
  <2> QED
    BY <2>1, <2>2
<1>7. ASSUME NEW s, NEW iv PROVE Count(T1, P, s, iv) = Count(T, P, s, iv)
  <2>1. Keepers(T1, P, s, iv) = Keepers(T, P, s, iv)
    BY <1>6 DEF Keepers
  <2>2. Owers(T1, s, iv) = Owers(T, s, iv)
    BY <1>6 DEF Owers
  <2> QED
    BY <2>1, <2>2 DEF Count
<1>8. ASSUME NEW s \in Symbols PROVE Open(T1, P, F, s)
  <2>1. Open(T, P, F, s)
    BY DEF Ledger, Counted
  <2>2. SameStarts(T, T1, s)
    BY <1>3 DEF SameStarts, Started
  <2>3. \A iv \in Intervals : Count(T1, P, s, iv) = Count(T, P, s, iv)
    BY <1>7
  <2> QED
    BY <2>1, <2>2, <2>3, OpenSame
<1> QED
  BY <1>5, <1>8 DEF Ledger, Counted

\* The thread records of a job or a pass that is between updates.
LEMMA IdleReads ==
  ASSUME NEW t, NEW th, th.plan = <<>>, th.pc # "plan",
         t \in Profiles =>
           /\ th.pc # "idle" => th.profile = t
           /\ th.pc = "symbols" => th.row.candle \in Candles
           /\ th.pc = "apply" /\ th.kind # "unsubscribe" => th.row.candle \in Candles
  PROVE  Reads(t, th)
BY DEF Reads, NewOnly, Commits

\* An update leaves a thread idle or suspended.
LEMMA LeftReads ==
  ASSUME NEW t, NEW th, NEW t2, Left(t2, th), t \in Profiles => th.profile = t
  PROVE  Reads(t, t2)
<1>1. CASE t2 = NoThread
  <2>1. t2.plan = <<>> /\ t2.pc = "idle"
    BY <1>1, IdleThread
  <2> QED
    BY <2>1, IdleReads
<1>2. CASE t2 # NoThread
  BY <1>2 DEF Left, Reads
<1> QED
  BY <1>1, <1>2

\* A job reads or ends: the manager stays as it is.
LEMMA JobIdle ==
  ASSUME Sound, NEW p \in Profiles, thread[p].plan = <<>>, NEW th2 \in ThreadType, th2.plan = <<>>,
         Reads(p, th2), Assigns(thread, thread', p, th2), jobs' \in JobsType,
         UNCHANGED <<db, manager, pass, overlap>>
  PROVE  Sound'
<1>1. /\ thread \in [Threads -> ThreadType] /\ Ledger(thread, profiles, feed)
      /\ Index(profiles, inverse) /\ p \in Threads /\ overlap = FALSE
      /\ db \in DbType /\ PassReads(pass) /\ \A t \in Threads : Reads(t, thread[t])
  BY DEF Sound, Whole, Ledger, Threaded, Threads, Reading
<1>2. /\ thread' \in [Threads -> ThreadType] /\ thread'[p] = th2
      /\ \A u \in Threads : u # p => thread'[u] = thread[u]
  BY <1>1 DEF Assigns
<1>3. Ledger(thread', profiles, feed)
  BY <1>1, <1>2, IdleStep
<1>4. \A t \in Threads : Reads(t, thread'[t])
  BY <1>1, <1>2
<1>5. profiles' = profiles /\ inverse' = inverse /\ feed' = feed /\ db' = db /\ pass' = pass /\ overlap' = overlap
  BY DEF manager
<1>6. Whole'
  BY <1>1, <1>3, <1>5 DEF Whole
<1>7. Reading'
  BY <1>1, <1>4, <1>5 DEF Reading
<1> QED
  BY <1>1, <1>5, <1>6, <1>7 DEF Sound

\* A step of an update, in the worker.
LEMMA Updated ==
  ASSUME Sound, NEW t \in Threads, NEW th, Result(t, th), overlap' = FALSE, UNCHANGED env,
         PassReads(pass'), t \in Profiles => th.profile = t
  PROVE  Sound'
<1>1. db \in DbType /\ jobs \in JobsType /\ \A u \in Threads : Reads(u, thread[u])
  BY DEF Sound, Reading
<1>2. db' = db /\ jobs' = jobs
  BY DEF env
<1>3. Whole'
  BY DEF Result, Whole
<1>4. Reads(t, thread'[t])
  BY LeftReads DEF Result
<1>5. \A u \in Threads : Reads(u, thread'[u])
  BY <1>1, <1>4 DEF Result
<1>6. Reading'
  BY <1>1, <1>2, <1>5 DEF Reading
<1> QED
  BY <1>3, <1>6 DEF Sound

\* The history only ever records that updates have met.
LEMMA Honest ==
  ASSUME Sound, NEW t, NEW th, overlap' = (overlap \/ Meets(t, th)), overlap' # TRUE
  PROVE  overlap' = FALSE /\ ~Meets(t, th)
BY DEF Sound

\* A step of an update that met no other.
LEMMA RunHonest ==
  ASSUME Sound, NEW t, NEW th, Run(t, th), overlap' # TRUE
  PROVE  overlap' = FALSE /\ ~Meets(t, th)
<1>1. overlap' = (overlap \/ Meets(t, th))
  BY DEF Run, Market, Commit
<1> QED
  BY <1>1, Honest

\* A disable that met no other update.
LEMMA DisableHonest ==
  ASSUME Sound, NEW t, NEW th, disable(t, th), overlap' # TRUE
  PROVE  overlap' = FALSE
<1> DEFINE state == profiles[th.profile]
           plan == Drops(state.symbols, state.candle)
           th0 == [th EXCEPT !.plan = plan]
<1>1. overlap' = (overlap \/ Meets(t, th)) \/ overlap' = (overlap \/ Meets(t, th0))
  BY DEF disable, Market
<1> HIDE DEF th0
<1> QED
  BY <1>1, Honest

\* enable, of a profile that is active or not.
LEMMA EnableStep ==
  ASSUME Counting, Sound, NEW t \in Threads, thread[t].plan = <<>>, NEW th \in ThreadType, th.row.candle \in Candles,
         enable(t, th), overlap' # TRUE
  PROVE  Result(t, th) /\ overlap' = FALSE
<1>1. Whole
  BY DEF Sound
<1>2. CASE profiles[th.profile] # Inactive /\ setSymbols(t, th)
  <2> DEFINE th0 == [th EXCEPT !.plan = setSymbolsPlan(profiles[th.profile], th.row)]
  <2>1. Run(t, th0)
    BY <1>2 DEF setSymbols
  <2> HIDE DEF th0
  <2>2. overlap' = FALSE
    BY <2>1, RunHonest
  <2> QED
    BY <1>1, <1>2, <2>2, SetRun
<1>3. CASE ~(profiles[th.profile] # Inactive /\ setSymbols(t, th))
  <2>1. profiles[th.profile] = Inactive /\ overlap' = (overlap \/ Meets(t, th)) /\ Enables(t, th)
    BY <1>3 DEF enable, Enables
  <2>2. overlap' = FALSE /\ ~Meets(t, th)
    BY <2>1, Honest
  <2> QED
    BY <1>1, <2>1, <2>2, EnableRun
<1> QED
  BY <1>2, <1>3

\* setSymbols of an active profile.
LEMMA SetStep ==
  ASSUME Counting, Sound, NEW t \in Threads, thread[t].plan = <<>>, NEW th \in ThreadType, th.row.candle \in Candles,
         profiles[th.profile] # Inactive, setSymbols(t, th), overlap' # TRUE
  PROVE  Result(t, th) /\ overlap' = FALSE
BY EnableStep DEF enable

\* disable of an active profile.
LEMMA DisableStep ==
  ASSUME Counting, Sound, NEW t \in Threads, thread[t].plan = <<>>, NEW th \in ThreadType,
         profiles[th.profile] # Inactive, disable(t, th), overlap' # TRUE
  PROVE  Result(t, th) /\ overlap' = FALSE
<1>1. overlap' = FALSE /\ Whole
  BY DisableHonest DEF Sound
<1> QED
  BY <1>1, DisableRun

\* What a sound state says of a job that is not in an update.
LEMMA JobState ==
  ASSUME Sound, NEW p \in Profiles, thread[p].pc # "plan"
  PROVE  /\ p \in Threads /\ thread[p] \in ThreadType /\ thread[p].plan = <<>> /\ Reads(p, thread[p])
         /\ db[p].candle \in Candles /\ db[p].symbols \in SUBSET Symbols
         /\ jobs[p] \subseteq Kinds /\ jobs \in JobsType /\ PassReads(pass)
<1>1. p \in Threads /\ thread[p] \in ThreadType
  BY DEF Threads, Sound, Whole, Ledger, Threaded
<1>2. Reads(p, thread[p]) /\ db \in DbType /\ jobs \in JobsType /\ PassReads(pass)
  BY <1>1 DEF Sound, Reading
<1>3. thread[p].plan = <<>>
  BY <1>2 DEF Reads
<1>4. db[p].candle \in Candles /\ db[p].symbols \in SUBSET Symbols /\ jobs[p] \subseteq Kinds
  BY <1>2 DEF DbType, JobsType
<1> QED
  BY <1>1, <1>2, <1>3, <1>4

\* A job ends.
LEMMA JobEnds ==
  ASSUME Sound, NEW p \in Profiles, thread[p].pc # "plan", Assigns(thread, thread', p, NoThread),
         UNCHANGED <<db, jobs, manager, pass, overlap>>
  PROVE  Sound'
<1>1. thread[p].plan = <<>> /\ jobs' \in JobsType
  BY JobState
<1>2. NoThread \in ThreadType /\ NoThread.plan = <<>> /\ NoThread.pc = "idle"
  BY IdleThread
<1>3. Reads(p, NoThread)
  BY <1>2, IdleReads
<1> QED
  BY <1>1, <1>2, <1>3, JobIdle

\* A job is taken from the queue.
LEMMA JobStartSound ==
  ASSUME Sound, NEW p \in Profiles, JobStart(p)
  PROVE  Sound'
<1>1. thread[p].pc = "idle"
  BY DEF JobStart
<1>2. PICK kind \in jobs[p] :
        /\ jobs' = [jobs EXCEPT ![p] = jobs[p] \ {kind}]
        /\ thread' = [thread EXCEPT ![p] = [NoThread EXCEPT !.pc = "row", !.kind = kind, !.profile = p]]
  BY DEF JobStart
<1> DEFINE th2 == [NoThread EXCEPT !.pc = "row", !.kind = kind, !.profile = p]
<1>3. thread[p].plan = <<>> /\ jobs[p] \subseteq Kinds /\ jobs \in JobsType
  BY <1>1, JobState
<1>4. jobs' \in JobsType
  <2>1. jobs[p] \ {kind} \in SUBSET Kinds
    BY <1>3
  <2> QED
    BY <1>2, <1>3, <2>1 DEF JobsType
<1>5. kind \in Kinds
  BY <1>2, <1>3
<1>6. NoThread \in ThreadType /\ NoThread.plan = <<>>
  BY IdleThread
<1>7. th2 \in ThreadType /\ th2.plan = <<>> /\ th2.pc = "row" /\ th2.profile = p
  BY <1>5, <1>6 DEF ThreadType
<1>8. Assigns(thread, thread', p, th2)
  BY <1>2 DEF Assigns
<1> HIDE DEF th2
<1>9. Reads(p, th2)
  BY <1>7, IdleReads
<1>10. UNCHANGED <<db, manager, pass, overlap>>
  BY DEF JobStart
<1> QED
  BY <1>3, <1>4, <1>7, <1>8, <1>9, <1>10, JobIdle

\* profile.findById has answered.
LEMMA JobRowSound ==
  ASSUME Sound, NEW p \in Profiles, JobRow(p)
  PROVE  Sound'
<1> DEFINE th == thread[p]
           gone == (th.kind = "subscribe" /\ ~db[p].enabled) \/ (th.kind = "unsubscribe" /\ db[p].enabled)
           apply == [th EXCEPT !.pc = "apply"]
           symbols == [th EXCEPT !.pc = "symbols", !.row.candle = db[p].candle]
<1>1. th.pc = "row" /\ UNCHANGED <<db, jobs, manager, pass, overlap>>
  BY DEF JobRow, env
<1>2. /\ th \in ThreadType /\ th.plan = <<>> /\ Reads(p, th) /\ db[p].candle \in Candles
      /\ jobs' \in JobsType
  BY <1>1, JobState
<1>3. th.profile = p /\ th.row \in Loose
  BY <1>1, <1>2 DEF Reads, ThreadType
<1>4. thread' = [thread EXCEPT ![p] =
                  CASE th.kind = "subscribe" /\ ~db[p].enabled -> NoThread
                    [] th.kind = "unsubscribe" /\ db[p].enabled -> NoThread
                    [] th.kind = "unsubscribe" /\ ~db[p].enabled -> apply
                    [] OTHER -> symbols]
  BY DEF JobRow
<1>5. CASE gone
  <2>1. Assigns(thread, thread', p, NoThread)
    BY <1>4, <1>5 DEF Assigns
  <2> QED
    BY <1>1, <2>1, JobEnds
<1>6. CASE ~gone /\ th.kind = "unsubscribe"
  <2>1. Assigns(thread, thread', p, apply)
    BY <1>4, <1>6 DEF Assigns
  <2>2. /\ apply \in ThreadType /\ apply.plan = <<>> /\ apply.pc = "apply" /\ apply.profile = p
        /\ apply.kind = "unsubscribe"
    BY <1>2, <1>3, <1>6 DEF ThreadType
  <2> HIDE DEF apply
  <2>3. Reads(p, apply)
    BY <2>2, IdleReads
  <2> QED
    BY <1>1, <1>2, <2>1, <2>2, <2>3, JobIdle
<1>7. CASE ~gone /\ th.kind # "unsubscribe"
  <2>1. Assigns(thread, thread', p, symbols)
    BY <1>4, <1>7 DEF Assigns
  <2>2. [th.row EXCEPT !.candle = db[p].candle] \in Loose
    BY <1>2, <1>3 DEF Loose
  <2>3. /\ symbols \in ThreadType /\ symbols.plan = <<>> /\ symbols.pc = "symbols" /\ symbols.profile = p
        /\ symbols.row.candle = db[p].candle
    BY <1>2, <1>3, <2>2 DEF ThreadType, Loose
  <2> HIDE DEF symbols
  <2>4. Reads(p, symbols)
    BY <1>2, <2>3, IdleReads
  <2> QED
    BY <1>1, <1>2, <2>1, <2>3, <2>4, JobIdle
<1> QED
  BY <1>5, <1>6, <1>7

\* profileSymbols.listForProfile has answered.
LEMMA JobSymbolsSound ==
  ASSUME Sound, NEW p \in Profiles, JobSymbols(p)
  PROVE  Sound'
<1> DEFINE th == thread[p]
           th2 == [th EXCEPT !.pc = "apply", !.row.symbols = db[p].symbols]
<1>1. th.pc = "symbols" /\ UNCHANGED <<db, jobs, manager, pass, overlap>>
  BY DEF JobSymbols, env
<1>2. /\ th \in ThreadType /\ th.plan = <<>> /\ Reads(p, th) /\ db[p].symbols \in SUBSET Symbols
      /\ jobs' \in JobsType /\ p \in Threads
  BY <1>1, JobState
<1>3. th.profile = p /\ th.row.candle \in Candles /\ th.row \in Loose
  BY <1>1, <1>2 DEF Reads, ThreadType
<1>4. Assigns(thread, thread', p, th2)
  <2>1. thread \in [Threads -> ThreadType]
    BY DEF Sound, Whole, Ledger, Threaded
  <2>2. thread' = [thread EXCEPT ![p].pc = "apply", ![p].row.symbols = db[p].symbols]
    BY DEF JobSymbols
  <2>3. [thread EXCEPT ![p].pc = "apply", ![p].row.symbols = db[p].symbols] = [thread EXCEPT ![p] = th2]
    BY <1>2, <2>1 DEF ThreadType
  <2> QED
    BY <2>2, <2>3 DEF Assigns
<1>5. [th.row EXCEPT !.symbols = db[p].symbols] \in Loose
  BY <1>2, <1>3 DEF Loose
<1>6. /\ th2 \in ThreadType /\ th2.plan = <<>> /\ th2.pc = "apply" /\ th2.profile = p
      /\ th2.row.candle = th.row.candle
  BY <1>2, <1>3, <1>5 DEF ThreadType, Loose
<1> HIDE DEF th2
<1>7. Reads(p, th2)
  BY <1>3, <1>6, IdleReads
<1> QED
  BY <1>1, <1>2, <1>4, <1>6, <1>7, JobIdle

\* The job applies what it read.
LEMMA JobApplySound ==
  ASSUME Counting, Sound, NEW p \in Profiles, JobApply(p), overlap' # TRUE
  PROVE  Sound'
<1> DEFINE th == thread[p]
<1>1. /\ th.pc = "apply" /\ UNCHANGED <<db, jobs, pass>> /\ UNCHANGED env
      /\ handleSubscribe(p) \/ handleReconfigureProfile(p) \/ handleUnsubscribe(p)
  BY DEF JobApply, env
<1>2. p \in Threads /\ th \in ThreadType /\ th.plan = <<>> /\ Reads(p, th) /\ PassReads(pass)
  BY <1>1, JobState
<1>3. th.profile = p /\ (th.kind # "unsubscribe" => th.row.candle \in Candles)
  BY <1>1, <1>2 DEF Reads
<1>4. PassReads(pass')
  BY <1>1, <1>2
<1>5. ASSUME Result(p, th), overlap' = FALSE PROVE Sound'
  BY <1>1, <1>2, <1>3, <1>4, <1>5, Updated
<1>6. ASSUME thread' = [thread EXCEPT ![p] = NoThread], UNCHANGED <<manager, overlap>> PROVE Sound'
  <2>1. Assigns(thread, thread', p, NoThread) /\ th.pc # "plan"
    BY <1>1, <1>6 DEF Assigns
  <2> QED
    BY <1>1, <1>6, <2>1, JobEnds
<1>7. CASE handleSubscribe(p)
  <2>1. enable(p, th) /\ th.row.candle \in Candles
    BY <1>3, <1>7 DEF handleSubscribe
  <2> QED
    BY <1>2, <1>5, <2>1, EnableStep
<1>8. CASE handleReconfigureProfile(p)
  <2>1. th.row.candle \in Candles
    BY <1>3, <1>8 DEF handleReconfigureProfile
  <2>2. CASE profiles[p] # Inactive
    <3>1. setSymbols(p, th) /\ profiles[th.profile] # Inactive
      BY <1>3, <1>8, <2>2 DEF handleReconfigureProfile
    <3> QED
      BY <1>2, <1>5, <2>1, <3>1, SetStep
  <2>3. CASE profiles[p] = Inactive
    BY <1>6, <1>8, <2>3 DEF handleReconfigureProfile
  <2> QED
    BY <2>2, <2>3
<1>9. CASE handleUnsubscribe(p)
  <2>1. CASE profiles[p] # Inactive
    <3>1. disable(p, th) /\ profiles[th.profile] # Inactive
      BY <1>3, <1>9, <2>1 DEF handleUnsubscribe
    <3> QED
      BY <1>2, <1>5, <3>1, DisableStep
  <2>2. CASE profiles[p] = Inactive
    BY <1>6, <1>9, <2>2 DEF handleUnsubscribe
  <2> QED
    BY <2>1, <2>2
<1> QED
  BY <1>1, <1>7, <1>8, <1>9

\* A read of the job fails.
LEMMA JobFailsSound ==
  ASSUME Sound, NEW p \in Profiles, JobFails(p)
  PROVE  Sound'
<1>1. /\ thread[p].pc # "plan" /\ Assigns(thread, thread', p, NoThread)
      /\ UNCHANGED <<db, jobs, manager, pass, overlap>>
  BY DEF JobFails, Assigns, env
<1> QED
  BY <1>1, JobEnds

\* A suspended update goes on.
LEMMA ResumeSound ==
  ASSUME Counting, Sound, NEW t \in Threads, Resume(t), overlap' # TRUE
  PROVE  Sound'
<1> DEFINE th == thread[t]
<1>1. th.pc = "plan" /\ Run(t, th) /\ UNCHANGED env /\ pass' = pass
  BY DEF Resume
<1>2. Reads(t, th) /\ PassReads(pass) /\ Whole
  BY DEF Sound, Reading
<1>3. Busy(thread, t) /\ NewOnly(th, 1) /\ (t \in Profiles => th.profile = t)
  BY <1>1, <1>2 DEF Reads, Busy
<1>4. overlap' = FALSE /\ ~Meets(t, th)
  BY <1>1, RunHonest
<1>5. Result(t, th)
  BY <1>1, <1>2, <1>3, <1>4, ResumeRun
<1>6. PassReads(pass')
  BY <1>1, <1>2
<1> QED
  BY <1>1, <1>3, <1>4, <1>5, <1>6, Updated

\* Only the pass moves.
LEMMA PassOnly ==
  ASSUME Sound, PassReads(pass'), UNCHANGED <<env, manager, thread, overlap>>
  PROVE  Sound'
<1>1. /\ db' = db /\ jobs' = jobs /\ profiles' = profiles /\ inverse' = inverse /\ feed' = feed
      /\ thread' = thread /\ overlap' = overlap
  BY DEF env, manager
<1>2. Whole'
  BY <1>1 DEF Sound, Whole
<1>3. Reading'
  BY <1>1 DEF Sound, Reading
<1> QED
  BY <1>1, <1>2, <1>3 DEF Sound

\* A pass that has not begun.
LEMMA NoPassReads == PassReads(NoPass)
<1>1. Inactive \in Rows
  BY DEF Rows
<1> HIDE DEF Inactive
<1>2. NoPass \in PassType /\ NoPass.pc = "idle"
  BY <1>1 DEF NoPass, PassType
<1> QED
  BY <1>2 DEF PassReads

\* The interval fires.
LEMMA PassStartSound ==
  ASSUME Sound, PassStart
  PROVE  Sound'
<1>1. pass' = [pass EXCEPT !.pc = "list"] /\ pass \in PassType /\ UNCHANGED <<env, manager, thread, overlap>>
  BY DEF PassStart, Sound, Reading, PassReads
<1>2. pass' \in PassType /\ pass'.pc = "list"
  BY <1>1 DEF PassType
<1>3. PassReads(pass')
  BY <1>2 DEF PassReads
<1> QED
  BY <1>1, <1>3, PassOnly

\* A row that has a candle is a row, and not that of an inactive profile.
LEMMA ActiveRow ==
  ASSUME NEW r \in [candle : Candles, symbols : SUBSET Symbols]
  PROVE  r \in Rows /\ r # Inactive
<1>1. r \in Rows
  BY DEF Rows
<1>2. r.candle \in Candles /\ Inactive.candle = ""
  BY DEF Inactive
<1>3. "" \notin Candles
  BY FeedsAssumption
<1> QED
  BY <1>1, <1>2, <1>3

\* listAllEnabled has answered.
LEMMA PassListSound ==
  ASSUME Sound, PassList
  PROVE  Sound'
<1> DEFINE row(p) == IF db[p].enabled THEN [candle |-> db[p].candle, symbols |-> {}] ELSE Inactive
           rows == [p \in Profiles |-> row(p)]
           todo == {p \in Profiles : db[p].enabled}
<1>1. /\ pass' = [pc |-> "load", todo |-> todo, rows |-> rows]
      /\ UNCHANGED <<env, manager, thread, overlap>>
  BY DEF PassList
<1>2. db \in DbType
  BY DEF Sound, Reading
<1>3. ASSUME NEW p \in Profiles PROVE row(p) \in Rows /\ (db[p].enabled => row(p) # Inactive)
  <2>1. CASE db[p].enabled
    <3>1. db[p].candle \in Candles /\ {} \in SUBSET Symbols
      BY <1>2 DEF DbType
    <3>2. row(p) \in [candle : Candles, symbols : SUBSET Symbols]
      BY <2>1, <3>1
    <3> HIDE DEF row
    <3> QED
      BY <3>2, ActiveRow
  <2>2. CASE ~db[p].enabled
    BY <2>2 DEF Rows
  <2> QED
    BY <2>1, <2>2
<1> HIDE DEF row
<1>4. rows \in [Profiles -> Rows] /\ todo \in SUBSET Profiles /\ \A p \in todo : rows[p] # Inactive
  BY <1>3
<1> HIDE DEF rows, todo
<1>5. pass' \in PassType /\ pass'.todo = todo /\ pass'.rows = rows
  BY <1>1, <1>4 DEF PassType
<1>6. PassReads(pass')
  BY <1>4, <1>5 DEF PassReads
<1> QED
  BY <1>1, <1>6, PassOnly

\* The symbols of one profile have been read.
LEMMA PassLoadSound ==
  ASSUME Sound, NEW p \in Profiles, PassLoad(p)
  PROVE  Sound'
<1> DEFINE r2 == [pass.rows[p] EXCEPT !.symbols = db[p].symbols]
           rows2 == [pass.rows EXCEPT ![p] = r2]
           todo2 == pass.todo \ {p}
<1>1. /\ pass.pc = "load" /\ p \in pass.todo /\ UNCHANGED <<env, manager, thread, overlap>>
      /\ pass' = [pass EXCEPT !.todo = pass.todo \ {p}, !.rows[p].symbols = db[p].symbols]
  BY DEF PassLoad
<1>2. /\ pass \in PassType /\ \A q \in pass.todo : pass.rows[q] # Inactive
      /\ db[p].symbols \in SUBSET Symbols
  BY <1>1 DEF Sound, Reading, PassReads, DbType
<1>3. pass.rows \in [Profiles -> Rows] /\ pass.todo \in SUBSET Profiles
  BY <1>2 DEF PassType
<1>4. pass.rows[p] \in [candle : Candles, symbols : SUBSET Symbols]
  BY <1>1, <1>2, <1>3 DEF Rows
<1>5. r2 \in [candle : Candles, symbols : SUBSET Symbols]
  BY <1>2, <1>4
<1>6. r2 \in Rows /\ r2 # Inactive
  <2> HIDE DEF r2
  <2> QED
    BY <1>5, ActiveRow
<1>7. pass' = [pass EXCEPT !.todo = todo2, !.rows = rows2]
  BY <1>1, <1>2 DEF PassType
<1> HIDE DEF r2
<1>8. rows2 \in [Profiles -> Rows] /\ todo2 \in SUBSET Profiles /\ \A q \in todo2 : rows2[q] # Inactive
  BY <1>2, <1>3, <1>6
<1> HIDE DEF rows2, todo2
<1>9. pass' \in PassType /\ pass'.todo = todo2 /\ pass'.rows = rows2
  BY <1>2, <1>7, <1>8 DEF PassType
<1>10. PassReads(pass')
  BY <1>8, <1>9 DEF PassReads
<1> QED
  BY <1>1, <1>10, PassOnly

\* A read of the pass fails.
LEMMA PassFailsSound ==
  ASSUME Sound, PassFails
  PROVE  Sound'
<1>1. pass' = NoPass /\ UNCHANGED <<env, manager, thread, overlap>>
  BY DEF PassFails
<1>2. PassReads(pass')
  BY <1>1, NoPassReads
<1> QED
  BY <1>1, <1>2, PassOnly

\* What a visit goes by: the pass, or its next phase.
Visiting == IF pass.todo = {} THEN Phase ELSE pass
Visit(p) == [NoThread EXCEPT !.profile = p, !.row = pass.rows[p]]

\* Its phases only enable profiles that have a row.
LEMMA PhaseReads ==
  ASSUME PassReads(pass)
  PROVE  PassReads(Visiting) /\ Visiting.rows = pass.rows
<1>1. pass \in PassType /\ (pass.pc \in {"load", "enable"} => \A p \in pass.todo : pass.rows[p] # Inactive)
  BY DEF PassReads
<1> DEFINE off == [pass EXCEPT !.pc = "disable", !.todo = Unlisted]
           on == [pass EXCEPT !.pc = "enable", !.todo = Listed]
<1>2. Unlisted \in SUBSET Profiles /\ Listed \in SUBSET Profiles /\ \A p \in Listed : pass.rows[p] # Inactive
  BY DEF Unlisted, Listed
<1>3. off \in PassType /\ off.pc = "disable" /\ off.rows = pass.rows
  BY <1>1, <1>2 DEF PassType
<1>4. on \in PassType /\ on.todo = Listed /\ on.rows = pass.rows
  BY <1>1, <1>2 DEF PassType
<1>5. Visiting = off \/ Visiting = on \/ Visiting = pass
  BY DEF Visiting, Phase
<1> HIDE DEF off, on
<1>6. PassReads(off) /\ PassReads(on)
  BY <1>2, <1>3, <1>4 DEF PassReads
<1> QED
  BY <1>3, <1>4, <1>5, <1>6

\* A visited profile is taken off the list.
LEMMA Visited ==
  ASSUME NEW ps, PassReads(ps), NEW p, pass' = [ps EXCEPT !.todo = ps.todo \ {p}]
  PROVE  PassReads(pass')
<1>1. ps \in PassType /\ (ps.pc \in {"load", "enable"} => \A q \in ps.todo : ps.rows[q] # Inactive)
  BY DEF PassReads
<1>2. ps.todo \in SUBSET Profiles
  BY <1>1 DEF PassType
<1>3. ps.todo \ {p} \in SUBSET Profiles
  BY <1>2
<1>4. pass' \in PassType /\ pass'.pc = ps.pc /\ pass'.rows = ps.rows /\ pass'.todo = ps.todo \ {p}
  BY <1>1, <1>3 DEF PassType
<1> QED
  BY <1>1, <1>4 DEF PassReads

\* The reconciler visits one profile, or ends its pass.
LEMMA PassVisitSound ==
  ASSUME Counting, Sound, PassVisit, overlap' # TRUE
  PROVE  Sound'
<1> DEFINE t == Reconciler
<1>1. thread[t].pc = "idle" /\ UNCHANGED env
  BY DEF PassVisit
<1>2. t \in Threads /\ t \notin Profiles
  BY FeedsAssumption DEF Threads, Reconciler
<1>3. Reads(t, thread[t]) /\ PassReads(pass) /\ pass \in PassType
  BY <1>2 DEF Sound, Reading, PassReads
<1>4. thread[t].plan = <<>>
  BY <1>1, <1>3 DEF Reads
<1>5. PassReads(Visiting) /\ Visiting.rows = pass.rows
  BY <1>3, PhaseReads
<1>6. \/ Visiting.todo = {} /\ pass' = NoPass /\ UNCHANGED <<manager, thread, overlap>>
      \/ \E p \in Visiting.todo :
           /\ pass' = [Visiting EXCEPT !.todo = Visiting.todo \ {p}]
           /\ \/ Visiting.pc = "enable" /\ enable(t, Visit(p))
              \/ Visiting.pc = "disable" /\ profiles[p] # Inactive /\ disable(t, Visit(p))
              \/ Visiting.pc = "disable" /\ profiles[p] = Inactive /\ UNCHANGED <<manager, thread, overlap>>
  BY DEF PassVisit, Visiting, Visit
<1>7. CASE pass' = NoPass /\ UNCHANGED <<manager, thread, overlap>>
  <2>1. PassReads(pass')
    BY <1>7, NoPassReads
  <2> QED
    BY <1>1, <1>7, <2>1, PassOnly
<1>8. ASSUME NEW p \in Visiting.todo, pass' = [Visiting EXCEPT !.todo = Visiting.todo \ {p}],
             \/ Visiting.pc = "enable" /\ enable(t, Visit(p))
             \/ Visiting.pc = "disable" /\ profiles[p] # Inactive /\ disable(t, Visit(p))
             \/ Visiting.pc = "disable" /\ profiles[p] = Inactive /\ UNCHANGED <<manager, thread, overlap>>
      PROVE  Sound'
  <2>1. PassReads(pass')
    BY <1>5, <1>8, Visited
  <2>2. p \in Profiles /\ pass.rows[p] \in Rows
    BY <1>3, <1>5 DEF PassReads, PassType
  <2>3. pass.rows[p] \in Loose
    <3>1. CASE pass.rows[p] = Inactive
      <4>1. Inactive \in Loose
        BY DEF Inactive, Loose
      <4> QED
        BY <3>1, <4>1
    <3>2. CASE pass.rows[p] # Inactive
      BY <2>2, <3>2 DEF Rows, Loose
    <3> QED
      BY <3>1, <3>2
  <2>4. Visit(p) \in ThreadType /\ Visit(p).profile = p /\ Visit(p).row = pass.rows[p]
    <3>1. NoThread \in ThreadType
      BY IdleThread
    <3> QED
      BY <2>2, <2>3, <3>1 DEF Visit, ThreadType
  <2>5. ASSUME Result(t, Visit(p)), overlap' = FALSE PROVE Sound'
    BY <1>1, <1>2, <2>1, <2>5, Updated
  <2>6. CASE Visiting.pc = "enable" /\ enable(t, Visit(p))
    <3>1. pass.rows[p] # Inactive
      BY <1>5, <1>8, <2>6 DEF PassReads
    <3>2. Visit(p).row.candle \in Candles
      BY <2>2, <2>4, <3>1, RowShape
    <3> QED
      BY <1>2, <1>4, <2>4, <2>5, <2>6, <3>2, EnableStep
  <2>7. CASE profiles[p] # Inactive /\ disable(t, Visit(p))
    <3>1. profiles[Visit(p).profile] # Inactive
      BY <2>4, <2>7
    <3> QED
      BY <1>2, <1>4, <2>4, <2>5, <2>7, <3>1, DisableStep
  <2>8. CASE UNCHANGED <<manager, thread, overlap>>
    BY <1>1, <2>1, <2>8, PassOnly
  <2> QED
    BY <1>8, <2>6, <2>7, <2>8
<1> QED
  BY <1>6, <1>7, <1>8

\* The operator's changes keep the tables typed.
LEMMA EditSound ==
  ASSUME Sound, NEW p \in Profiles, NEW row, NEW queued, queued \subseteq Kinds,
         row \in [enabled : BOOLEAN, candle : Candles, symbols : SUBSET Symbols], Edit(p, row, queued)
  PROVE  Sound'
<1>1. db \in DbType /\ jobs \in JobsType
  BY DEF Sound, Reading
<1>2. /\ db' = [db EXCEPT ![p] = row] /\ jobs' = [jobs EXCEPT ![p] = jobs[p] \cup queued]
      /\ profiles' = profiles /\ inverse' = inverse /\ feed' = feed
      /\ thread' = thread /\ overlap' = overlap /\ pass' = pass
  BY DEF Edit, manager
<1>3. db' \in DbType
  BY <1>1, <1>2 DEF DbType
<1>4. jobs' \in JobsType
  <2>1. jobs[p] \cup queued \in SUBSET Kinds
    BY <1>1 DEF JobsType
  <2> QED
    BY <1>1, <1>2, <2>1 DEF JobsType
<1>5. Whole'
  BY <1>2 DEF Sound, Whole
<1>6. Reading'
  BY <1>2, <1>3, <1>4 DEF Sound, Reading
<1> QED
  BY <1>2, <1>5, <1>6 DEF Sound

\* The operator starts, stops or reconfigures a profile.
LEMMA OperatorSound ==
  ASSUME Sound, NEW p \in Profiles, Start(p) \/ Stop(p) \/ Reconfigure(p)
  PROVE  Sound'
<1>1. db[p] \in [enabled : BOOLEAN, candle : Candles, symbols : SUBSET Symbols]
  BY DEF Sound, Reading, DbType
<1>2. CASE Start(p)
  <2>1. [db[p] EXCEPT !.enabled = TRUE] \in [enabled : BOOLEAN, candle : Candles, symbols : SUBSET Symbols]
    BY <1>1
  <2>2. {"subscribe"} \subseteq Kinds
    BY DEF Kinds
  <2> QED
    BY <1>2, <2>1, <2>2, EditSound DEF Start
<1>3. CASE Stop(p)
  <2>1. [db[p] EXCEPT !.enabled = FALSE] \in [enabled : BOOLEAN, candle : Candles, symbols : SUBSET Symbols]
    BY <1>1
  <2>2. {"unsubscribe"} \subseteq Kinds
    BY DEF Kinds
  <2> QED
    BY <1>3, <2>1, <2>2, EditSound DEF Stop
<1>4. CASE Reconfigure(p)
  <2> DEFINE queued == IF db[p].enabled THEN {"reconfigure"} ELSE {}
  <2>1. PICK c \in Candles, X \in SUBSET Symbols : Edit(p, [db[p] EXCEPT !.candle = c, !.symbols = X], queued)
    BY <1>4 DEF Reconfigure
  <2>2. [db[p] EXCEPT !.candle = c, !.symbols = X]
          \in [enabled : BOOLEAN, candle : Candles, symbols : SUBSET Symbols]
    BY <1>1
  <2>3. queued \subseteq Kinds
    BY DEF Kinds
  <2> HIDE DEF queued
  <2> QED
    BY <2>1, <2>2, <2>3, EditSound
<1> QED
  BY <1>2, <1>3, <1>4

\* Once two updates have met the history keeps saying so.
LEMMA OverlapStays ==
  ASSUME overlap = TRUE, [Next]_vars
  PROVE  overlap' = TRUE
<1>1. ASSUME NEW t, NEW th, NEW peers, Market(t, th, peers)
      PROVE  overlap' = (overlap \/ Meets(t, th))
  BY <1>1, ZenonT(60) DEF Market
<1>2. \A t, th : Run(t, th) => overlap' = (overlap \/ Meets(t, th))
  BY <1>1 DEF Run, Commit
<1>3. \A t, th : Run(t, th) => overlap' = TRUE
  BY <1>2
<1>4. \A t, th : setSymbols(t, th) => overlap' = TRUE
  BY <1>3 DEF setSymbols
<1>5. \A t, th : enable(t, th) => overlap' = TRUE
  BY <1>4 DEF enable
<1>6. \A t, th : disable(t, th) => overlap' = TRUE
  <2>1. \A t, th, peers : Market(t, th, peers) => overlap' = TRUE
    BY <1>1
  <2> QED
    BY <2>1 DEF disable
<1>7. \A p : JobApply(p) => overlap' = TRUE
  BY <1>4, <1>5, <1>6 DEF JobApply, handleSubscribe, handleReconfigureProfile, handleUnsubscribe
<1>8. \A t : Resume(t) => overlap' = TRUE
  BY <1>3 DEF Resume
<1>9. PassVisit => overlap' = TRUE
  BY <1>5, <1>6 DEF PassVisit
<1>10. \A p : JobStep(p) => overlap' = TRUE
  BY <1>7, <1>8 DEF JobStep, JobStart, JobRow, JobSymbols
<1>11. PassStep => overlap' = TRUE
  BY <1>8, <1>9 DEF PassStep, PassStart, PassList, PassLoad
<1>12. \A p : Start(p) \/ Stop(p) \/ Reconfigure(p) \/ JobFails(p) => overlap' = TRUE
  BY DEF Start, Stop, Reconfigure, JobFails, Edit
<1>13. PassFails => overlap' = TRUE
  BY DEF PassFails
<1>14. UNCHANGED vars => overlap' = TRUE
  BY DEF vars
<1> QED
  BY <1>10, <1>11, <1>12, <1>13, <1>14 DEF Next

\* Every step keeps the worker sound, or makes two updates meet.
LEMMA SoundStep ==
  ASSUME Counting, Sound, [Next]_vars, overlap' # TRUE
  PROVE  Sound'
<1>1. CASE UNCHANGED vars
  <2>1. PassReads(pass') /\ UNCHANGED <<env, manager, thread, overlap>>
    BY <1>1 DEF vars, Sound, Reading
  <2> QED
    BY <2>1, PassOnly
<1>2. ASSUME NEW p \in Profiles, JobStep(p) PROVE Sound'
  <2>1. p \in Threads
    BY DEF Threads
  <2> QED
    BY <1>2, <2>1, JobStartSound, JobRowSound, JobSymbolsSound, JobApplySound, ResumeSound DEF JobStep
<1>3. CASE PassStep
  <2>1. Reconciler \in Threads
    BY DEF Threads
  <2> QED
    BY <1>3, <2>1, PassStartSound, PassListSound, PassLoadSound, PassVisitSound, ResumeSound DEF PassStep
<1> QED
  BY <1>1, <1>2, <1>3, JobFailsSound, OperatorSound, PassFailsSound DEF Next

\* Between updates the account of a profile is what the manager has of it.
LEMMA QuietCount ==
  ASSUME Counting, NEW T, \A t \in Threads : ~Busy(T, t), NEW s, NEW iv
  PROVE  Count(T, profiles, s, iv) = Cardinality(Claims(s, iv)) /\ Count(T, profiles, s, iv) \in Nat
<1>1. ASSUME NEW p \in Profiles PROVE Of(T, p) = NoThread
  BY OfNone
<1>2. /\ ~Commits(NoThread) /\ ~Awaited(NoThread.plan, s) /\ ~Owed(NoThread.plan, s, iv)
  <2>1. NoThread.plan = <<>>
    BY IdleThread
  <2>2. DOMAIN <<>> = {}
    BY SMT
  <2> QED
    BY <2>1, <2>2 DEF Commits, Awaited, Owed
<1>3. Keepers(T, profiles, s, iv) = Claims(s, iv)
  BY <1>1, <1>2 DEF Keepers, Claims, Kept, Goal, Fed
<1>4. Owers(T, s, iv) = {}
  BY <1>1, <1>2 DEF Owers
<1>5. Cardinality(Claims(s, iv)) \in Nat
  BY DEF Claims, Counting
<1>6. Cardinality({}) = 0
  BY DEF Counting
<1> HIDE DEF Claims
<1> QED
  BY SMT, <1>3, <1>4, <1>5, <1>6 DEF Count

\* A symbol of an active profile has a claim on the profile's candle.
LEMMA SomeClaim ==
  ASSUME Counting, profiles \in [Profiles -> Rows], NEW s, NEW p \in Profiles, s \in profiles[p].symbols
  PROVE  \E iv \in Intervals : Cardinality(Claims(s, iv)) # 0
<1>1. profiles[p] \in Rows /\ profiles[p] # Inactive
  <2>1. profiles[p] \in Rows
    OBVIOUS
  <2> QED
    BY <2>1, RowShape
<1> DEFINE c == profiles[p].candle
<1>2. c \in Candles
  BY <1>1, RowShape
<1>3. c \in Intervals /\ c \in Fed(c)
  BY <1>2, FedList DEF Intervals
<1>4. p \in Claims(s, c)
  BY <1>3 DEF Claims, Fed
<1>5. Claims(s, c) \subseteq Profiles
  BY DEF Claims
<1>6. Cardinality(Claims(s, c)) # 0
  <2> HIDE DEF Claims, c
  <2> QED
    BY <1>4, <1>5 DEF Counting
<1> QED
  BY <1>3, <1>6

\* A stream with a claim has a claimant.
LEMMA Claimant ==
  ASSUME Counting, NEW s, NEW iv, Cardinality(Claims(s, iv)) # 0
  PROVE  \E p \in Profiles : s \in profiles[p].symbols
<1>1. Claims(s, iv) # {}
  BY DEF Counting
<1> QED
  BY <1>1 DEF Claims

\* The feeds at boot.
LEMMA BootedSound ==
  ASSUME Counting, profiles \in [Profiles -> Rows], NEW s \in Symbols, NEW T, \A t \in Threads : ~Busy(T, t),
         NEW F, F[s] = BootedFeed(s)
  PROVE  Open(T, profiles, F, s) /\ F[s] \in FeedOf
<1>1. \A t \in Threads : ~Started(T, t, s)
  BY DEF Started
<1>2. \A iv : Count(T, profiles, s, iv) = Cardinality(Claims(s, iv)) /\ Count(T, profiles, s, iv) \in Nat
  BY QuietCount
<1>3. NoStreams \in [Intervals -> Nat]
  BY SMT DEF NoStreams
<1> DEFINE none == [h \in Handles |-> NoStreams]
           counts == [iv \in Intervals |-> Cardinality(Claims(s, iv))]
<1>4. none \in [Handles -> [Intervals -> Nat]] /\ \A h \in Handles : none[h] = NoStreams
  BY <1>3
<1>5. counts \in [Intervals -> Nat] /\ \A iv \in Intervals : counts[iv] = Count(T, profiles, s, iv)
  BY <1>2
<1>6. 1 \in Handles /\ 0 \in 0..MaxHandles /\ 1 \in 0..MaxHandles /\ 1 # 0
  BY SMT, SomeHandle DEF Handles
<1>7. CASE \A p \in Profiles : s \notin profiles[p].symbols
  <2> DEFINE f == [current |-> 0, streams |-> none, tickers |-> {}]
  <2>1. F[s] = f
    BY <1>7 DEF BootedFeed
  <2> HIDE DEF none
  <2>2. f.current = 0 /\ f.streams = none /\ f.tickers = {} /\ f \in FeedOf
    BY <1>4, <1>6 DEF FeedOf
  <2> HIDE DEF f
  <2>3. F[s].current = 0 /\ F[s].streams = none /\ F[s].tickers = {} /\ F[s] \in FeedOf
    BY <2>1, <2>2
  <2>4. \A iv \in Intervals : Count(T, profiles, s, iv) = 0
    BY <1>2, <1>7, Claimant
  <2> QED
    BY <1>1, <1>4, <2>3, <2>4 DEF Open
<1>8. CASE \E p \in Profiles : s \in profiles[p].symbols
  <2> DEFINE streams == [none EXCEPT ![1] = counts]
             f == [current |-> 1, tickers |-> {1}, streams |-> streams]
  <2>1. F[s] = f
    BY <1>8 DEF BootedFeed
  <2> HIDE DEF none, counts
  <2>2. /\ streams \in [Handles -> [Intervals -> Nat]] /\ streams[1] = counts
        /\ \A h \in Handles : h # 1 => streams[h] = NoStreams
    BY <1>4, <1>5, <1>6
  <2> HIDE DEF streams
  <2>3. f.current = 1 /\ f.streams = streams /\ f.tickers = {1} /\ f \in FeedOf
    BY <1>6, <2>2 DEF FeedOf
  <2> HIDE DEF f
  <2>4. F[s].current = 1 /\ F[s].streams = streams /\ F[s].tickers = {1} /\ F[s] \in FeedOf
    BY <2>1, <2>3
  <2>5. \E iv \in Intervals : Count(T, profiles, s, iv) # 0
    BY <1>2, <1>8, SomeClaim
  <2> QED
    BY <1>1, <1>5, <1>6, <2>2, <2>4, <2>5 DEF Open
<1> QED
  BY <1>7, <1>8

\* The worker has booted.
LEMMA InitSound ==
  ASSUME Counting, Init
  PROVE  Sound
<1>1. /\ db = InitialDb /\ profiles = [p \in Profiles |-> Booted(p)]
      /\ inverse = [s \in Symbols |-> {p \in Profiles : s \in profiles[p].symbols}]
      /\ feed = [s \in Symbols |-> BootedFeed(s)] /\ thread = [t \in Threads |-> NoThread]
      /\ pass = NoPass /\ overlap = FALSE /\ jobs = [p \in Profiles |-> {}]
  BY DEF Init
<1>2. db \in DbType
  BY <1>1, FeedsAssumption DEF DbType
<1>3. profiles \in [Profiles -> Rows]
  <2>1. ASSUME NEW p \in Profiles PROVE Booted(p) \in Rows
    BY <1>2 DEF Booted, Rows, DbType
  <2> QED
    BY <1>1, <2>1
<1>4. Index(profiles, inverse)
  <2>1. \A s \in Symbols : inverse[s] = {p \in Profiles : s \in profiles[p].symbols}
    BY <1>1
  <2>2. inverse \in [Symbols -> SUBSET Profiles]
    BY <1>1
  <2> QED
    BY <1>3, <2>1, <2>2 DEF Index
<1>5. thread \in [Threads -> ThreadType] /\ \A t \in Threads : thread[t] = NoThread
  BY <1>1, IdleThread
<1>6. \A t \in Threads : ~Busy(thread, t)
  BY <1>5, IdleThread DEF Busy
<1>7. Threaded(thread, profiles)
  BY <1>5, <1>6 DEF Threaded, OneEach
<1>8. ASSUME NEW s \in Symbols PROVE Open(thread, profiles, feed, s) /\ feed[s] \in FeedOf
  <2>1. feed[s] = BootedFeed(s)
    BY <1>1
  <2> QED
    BY <1>3, <1>6, <2>1, BootedSound
<1>9. feed \in FeedType
  <2>1. feed = [s \in Symbols |-> feed[s]]
    BY <1>1
  <2> QED
    BY <1>8, <2>1 DEF FeedType
<1>10. Whole
  BY <1>4, <1>7, <1>8, <1>9 DEF Whole, Ledger, Counted
<1>11. jobs \in JobsType
  BY <1>1 DEF JobsType
<1>12. \A t \in Threads : Reads(t, thread[t])
  BY <1>5, IdleThread, IdleReads
<1>13. Reading
  BY <1>1, <1>2, <1>11, <1>12, NoPassReads DEF Reading
<1> QED
  BY <1>1, <1>10, <1>13 DEF Sound

(* The theorems.                                                            *)

FeedsInvariant == overlap = TRUE \/ Sound

\* A settled worker's account of one symbol is exact.
LEMMA SettledExact ==
  ASSUME Counting, Sound, Settled, NEW s \in Symbols
  PROVE  Exact(s)
<1> DEFINE f == feed[s]
           claimed == {p \in Profiles : s \in profiles[p].symbols} # {}
<1>1. \A t \in Threads : ~Busy(thread, t) /\ ~Started(thread, t, s)
  BY DEF Settled, Busy, Started
<1>2. Open(thread, profiles, feed, s) /\ profiles \in [Profiles -> Rows]
  BY DEF Sound, Whole, Ledger, Counted, Index
<1>3. \A iv : Count(thread, profiles, s, iv) = Cardinality(Claims(s, iv))
  BY <1>1, QuietCount
<1>4. f.current = 0 <=> ~claimed
  <2>1. CASE f.current = 0
    <3>1. \A iv \in Intervals : Cardinality(Claims(s, iv)) = 0
      BY <1>2, <1>3, <2>1 DEF Open
    <3>2. \A p \in Profiles : s \notin profiles[p].symbols
      BY <1>2, <3>1, SomeClaim
    <3> QED
      BY <2>1, <3>2
  <2>2. CASE f.current # 0
    <3>1. PICK iv \in Intervals : Cardinality(Claims(s, iv)) # 0
      BY <1>1, <1>2, <1>3, <2>2 DEF Open
    <3>2. \E p \in Profiles : s \in profiles[p].symbols
      BY <3>1, Claimant
    <3> QED
      BY <2>2, <3>2
  <2> QED
    BY <2>1, <2>2
<1>5. f.tickers = IF claimed THEN {f.current} ELSE {}
  <2>1. f.tickers = IF f.current = 0 THEN {} ELSE {f.current}
    BY <1>2 DEF Open
  <2> HIDE DEF claimed
  <2> QED
    BY <1>4, <2>1
<1>6. ASSUME NEW h \in Handles, NEW iv \in Intervals
      PROVE  f.streams[h][iv] = IF h = f.current THEN Cardinality(Claims(s, iv)) ELSE 0
  <2>1. CASE h = f.current
    <3>1. h # 0
      BY SMT, SomeHandle DEF Handles
    <3>2. f.streams[f.current][iv] = Count(thread, profiles, s, iv)
      BY <1>2, <2>1, <3>1 DEF Open
    <3> QED
      BY <1>3, <2>1, <3>2
  <2>2. CASE h # f.current
    <3>1. f.streams[h] = NoStreams
      BY <1>2, <2>2 DEF Open
    <3> QED
      BY <2>2, <3>1 DEF NoStreams
  <2> QED
    BY <2>1, <2>2
<1> QED
  BY <1>4, <1>5, <1>6 DEF Exact

\* A profile with a claim has one in the count.
LEMMA KeptCounts ==
  ASSUME Counting, NEW T, NEW P, NEW p \in Profiles, NEW s, NEW iv, Kept(Of(T, p), P[p], s, iv)
  PROVE  Count(T, P, s, iv) > 0
<1> DEFINE K == Keepers(T, P, s, iv)
           O == Owers(T, s, iv)
<1>1. p \in K /\ K \subseteq Profiles /\ O \subseteq Profiles
  BY DEF Keepers, Owers
<1> HIDE DEF K, O
<1>3. Cardinality(K) \in Nat /\ Cardinality(O) \in Nat
  BY <1>1 DEF Counting
<1>4. Cardinality(K) # 0
  BY <1>1 DEF Counting
<1> QED
  BY SMT, <1>3, <1>4 DEF Count, K, O

\* A setSymbols that is under way keeps the symbols it retains fed.
LEMMA RetainedFed ==
  ASSUME Counting, Sound, NEW t \in Threads, Busy(thread, t), Commits(thread[t]), NEW s,
         s \in thread[t].row.symbols, s \notin thread[t].plan[Len(thread[t].plan)].added,
         NEW iv \in Fed(thread[t].row.candle)
  PROVE  feed[s].current \in feed[s].tickers /\ feed[s].streams[feed[s].current][iv] > 0
<1> DEFINE th == thread[t]
           q == th.profile
<1>1. th \in ThreadType /\ OneEach(thread) /\ Going(th, profiles[q]) /\ NewOnly(th, 1)
  BY DEF Sound, Whole, Ledger, Threaded, Reading, Reads
<1>2. q \in Profiles /\ s \in Symbols /\ th.plan \in Seq(Ops)
  BY <1>1 DEF ThreadType, Loose
<1>3. th.row.candle \in Candles
  BY <1>1 DEF Going, Fits
<1>4. iv \in Intervals
  BY <1>3, FedList DEF Intervals
<1>5. Of(thread, q) = th
  BY <1>1, OfBusy
<1>6. ~Awaited(th.plan, s)
  <2>1. \A i \in DOMAIN th.plan : i >= 1
    BY SMT, <1>2
  <2> QED
    BY <1>1, <2>1 DEF Awaited, NewOnly
<1>7. Kept(Of(thread, q), profiles[q], s, iv)
  BY <1>5, <1>6 DEF Kept, Goal
<1>8. Count(thread, profiles, s, iv) > 0
  BY <1>2, <1>7, KeptCounts
<1>9. Open(thread, profiles, feed, s)
  BY <1>2 DEF Sound, Whole, Ledger, Counted
<1>10. Count(thread, profiles, s, iv) # 0
  BY SMT, <1>8
<1>11. feed[s].current # 0
  BY <1>4, <1>9, <1>10 DEF Open
<1>12. feed[s].tickers = {feed[s].current} /\ feed[s].streams[feed[s].current][iv] = Count(thread, profiles, s, iv)
  BY <1>4, <1>9, <1>11 DEF Open
<1> QED
  BY <1>8, <1>12
-----------------------------------------------------------------------------
(* The library on finite sets, and the theorems. *)

Library == INSTANCE FiniteSetTheorems

\* A non-empty set of naturals has a least element.
LEMMA LeastNat ==
  ASSUME NEW D, D \subseteq Nat, D # {}
  PROVE  \E d \in D : \A e \in D : d <= e
<1>1. PICK d \in D : \A e \in D : ~(<<e, d>> \in Library!OpToRel(<, Nat))
  BY Library!NatLessThanWellFounded, Library!WFMin
<1>2. \A e \in D : <<e, d>> \in Nat \X Nat /\ <<e, d>>[1] = e /\ <<e, d>>[2] = d
  OBVIOUS
<1>3. \A e \in D : ~(e < d)
  BY <1>1, <1>2 DEF Library!OpToRel
<1> QED
  BY SMT, <1>3

\* Counting holds of any finite sets of profiles and symbols.
LEMMA LibraryCounts == Counting
<1>1. Library!IsFiniteSet(Profiles) /\ Library!IsFiniteSet(Symbols)
  BY FeedsAssumption DEF IsFiniteSet, Library!IsFiniteSet
<1>2. \A S : Cardinality(S) = Library!Cardinality(S)
  BY DEF Cardinality, Library!Cardinality
<1>3. ASSUME NEW S \in SUBSET Profiles, NEW p \in Profiles, p \notin S
      PROVE  Library!Cardinality(S \cup {p}) = Library!Cardinality(S) + 1
  BY <1>1, <1>3, Library!FS_Subset, Library!FS_AddElement
<1>4. ASSUME NEW S \in SUBSET Profiles
      PROVE  /\ Library!Cardinality(S) \in Nat
             /\ Library!Cardinality(S) = 0 <=> S = {}
  BY <1>1, Library!FS_Subset, Library!FS_CardinalityType, Library!FS_EmptySet
<1>5. ASSUME NEW D \in SUBSET Symbols
      PROVE  /\ Library!Cardinality(D) \in Nat
             /\ \E f : f \in Bijection(1..Library!Cardinality(D), D)
  <2>1. Library!IsFiniteSet(D)
    BY <1>1, Library!FS_Subset
  <2>2. Library!Cardinality(D) \in Nat /\ Library!ExistsBijection(1..Library!Cardinality(D), D)
    BY <2>1, Library!FS_CardinalityType
  <2> QED
    BY <2>2 DEF Library!ExistsBijection, Library!Bijection, Library!Injection,
       Library!Surjection, Library!IsInjective, Bijection, Injection, Surjection, IsInjective
<1> QED
  BY <1>2, <1>3, <1>4, <1>5, LeastNat DEF Counting

\* Every reachable state is sound, unless two updates have met.
THEOREM FeedsSound == Spec => []FeedsInvariant
<1>1. Init => FeedsInvariant
  BY LibraryCounts, InitSound DEF FeedsInvariant
<1>2. FeedsInvariant /\ [Next]_vars => FeedsInvariant'
  <2> SUFFICES ASSUME FeedsInvariant, [Next]_vars PROVE FeedsInvariant'
    OBVIOUS
  <2>1. CASE overlap = TRUE
    BY <2>1, OverlapStays DEF FeedsInvariant
  <2>2. CASE Sound
    BY <2>2, LibraryCounts, SoundStep DEF FeedsInvariant
  <2> QED
    BY <2>1, <2>2 DEF FeedsInvariant
<1> QED
  BY <1>1, <1>2, PTL DEF Spec

\* Between updates a stream of a symbol is open iff an active profile claims it,
\* with one count per claim, and the index agrees with the profiles: addSymbols and
\* removeSymbols stay balanced through every interleaving of jobs and passes in
\* which no two updates met.
THEOREM FeedsCountsExact == Spec => []CountsMatchClaims
<1>1. FeedsInvariant => CountsMatchClaims
  <2> SUFFICES ASSUME FeedsInvariant, Settled, ~overlap, NEW s \in Symbols
               PROVE  Exact(s) /\ inverse[s] = {p \in Profiles : s \in profiles[p].symbols}
    BY DEF CountsMatchClaims
  <2>1. Sound
    BY DEF FeedsInvariant
  <2>2. Exact(s)
    BY <2>1, LibraryCounts, SettledExact
  <2>3. inverse[s] = {p \in Profiles : s \in profiles[p].symbols}
    BY <2>1 DEF Sound, Whole, Index
  <2> QED
    BY <2>2, <2>3
<1> QED
  BY <1>1, FeedsSound, PTL

\* While setSymbols moves a profile to another interval, the symbols it retains
\* keep their ticker and their shared streams: the new claims come before the old
\* ones go.
THEOREM FeedsRetainedFed == Spec => []RetainedStaysFed
<1>1. FeedsInvariant => RetainedStaysFed
  <2> SUFFICES ASSUME FeedsInvariant, NEW t \in Threads, thread[t].plan # <<>>, ~overlap,
                      thread[t].plan[Len(thread[t].plan)].op = "commit",
                      NEW s \in thread[t].row.symbols \ thread[t].plan[Len(thread[t].plan)].added
               PROVE  /\ feed[s].current \in feed[s].tickers
                      /\ \A iv \in Range(Shared) : feed[s].streams[feed[s].current][iv] > 0
    BY DEF RetainedStaysFed
  <2>1. Sound
    BY DEF FeedsInvariant
  <2>2. Busy(thread, t) /\ Commits(thread[t])
    BY DEF Busy, Commits
  <2>3. thread[t].row.candle \in Candles
    BY <2>1, <2>2 DEF Sound, Whole, Ledger, Threaded, Going, Fits
  <2>4. Fed(thread[t].row.candle) = {thread[t].row.candle} \cup Range(Shared)
    BY <2>3, FedList
  <2>5. ASSUME NEW iv \in Fed(thread[t].row.candle)
        PROVE  feed[s].current \in feed[s].tickers /\ feed[s].streams[feed[s].current][iv] > 0
    BY <2>1, <2>2, LibraryCounts, RetainedFed
  <2>6. thread[t].row.candle \in Fed(thread[t].row.candle)
    BY <2>4
  <2>7. feed[s].current \in feed[s].tickers
    BY <2>5, <2>6
  <2> QED
    BY <2>4, <2>5, <2>7
<1> QED
  BY <1>1, FeedsSound, PTL
==============================================================================
