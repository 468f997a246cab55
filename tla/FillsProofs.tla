------------------------------ MODULE FillsProofs ------------------------------
(***************************************************************************)
(* Proofs about Fills, for any profiles, orders, trades, quantities, fees  *)
(* and number of faults: the types, that a ledger absorbs only fills of    *)
(* its own orders, and that the slice follows the ledger.                  *)
(***************************************************************************)
EXTENDS Fills, FiniteSetTheorems, WellFoundedInduction, TLAPS

\* Most leaves are first-order; the ones with arithmetic or records name SMT.
USE Zenon


(***************************************************************************)
(* Sequences and numbers: maxima, the position of an element in a finite   *)
(* set of naturals.                                                        *)
(***************************************************************************)

\* What Append does to a sequence.
LEMMA AppendProperties ==
  \A S : \A q \in Seq(S), e \in S :
    /\ Append(q, e) \in Seq(S) /\ Append(q, e) # <<>>
    /\ Len(Append(q, e)) = Len(q) + 1
    /\ \A i \in 1..Len(q) : Append(q, e)[i] = q[i]
    /\ Append(q, e)[Len(q) + 1] = e
BY SMT

\* A sequence of members of D takes one more.
LEMMA AppendWithin ==
  ASSUME NEW D, D \subseteq Nat, NEW q \in Seq(Nat), \A i \in 1..Len(q) : q[i] \in D, NEW t \in D
  PROVE  Append(q, t) \in Seq(Nat) /\ \A i \in 1..Len(Append(q, t)) : Append(q, t)[i] \in D
<1> DEFINE b == Append(q, t)
<1>1. /\ b \in Seq(Nat) /\ Len(b) = Len(q) + 1 /\ Len(q) \in Nat
      /\ \A i \in 1..Len(q) : b[i] = q[i]
      /\ b[Len(q) + 1] = t
  BY SMT, AppendProperties
<1> HIDE DEF b
<1>2. ASSUME NEW i \in 1..Len(b) PROVE b[i] \in D
  <2>1. i \in 1..Len(q) \/ i = Len(q) + 1
    BY SMT, <1>1
  <2> QED
    BY <1>1, <2>1
<1> QED
  BY <1>1, <1>2 DEF b

\* The positions of a sequence.
LEMMA SeqDomain == \A S : \A q \in Seq(S) : DOMAIN q = 1..Len(q) /\ Len(q) \in Nat
BY SMT

\* A non-empty set of naturals has a least element.
LEMMA LeastNat ==
  ASSUME NEW D, D \subseteq Nat, D # {}
  PROVE  \E d \in D : \A e \in D : d <= e
<1>1. PICK d \in D : \A e \in D : ~(<<e, d>> \in OpToRel(<, Nat))
  BY NatLessThanWellFounded, WFMin
<1>2. \A e \in D : <<e, d>> \in Nat \X Nat /\ <<e, d>>[1] = e /\ <<e, d>>[2] = d
  OBVIOUS
<1>3. \A e \in D : ~(e < d)
  BY <1>1, <1>2 DEF OpToRel
<1> QED
  BY SMT, <1>3

\* Max of a non-empty set of naturals below a bound.
LEMMA MaxOf ==
  ASSUME NEW S, NEW n \in Nat, S \subseteq 0..n, S # {}
  PROVE  Max(S) \in S /\ \A y \in S : Max(S) >= y
<1> DEFINE U == {m \in Nat : \A y \in S : m >= y}
<1>1. n \in U
  BY SMT
<1>2. PICK m \in U : \A e \in U : m <= e
  BY <1>1, LeastNat
<1>3. m \in S
  <2> SUFFICES ASSUME m \notin S PROVE FALSE
    OBVIOUS
  <2>1. PICK y \in S : TRUE
    OBVIOUS
  <2>2. m \in Nat /\ m # 0 /\ m - 1 \in Nat
    BY SMT, <2>1
  <2>3. \A z \in S : m - 1 >= z
    BY SMT, <2>2
  <2>4. m - 1 \in U
    BY <2>2, <2>3
  <2> QED
    BY SMT, <1>2, <2>2, <2>4
<1>4. \A y \in S : m >= y
  OBVIOUS
<1> QED
  BY <1>3, <1>4 DEF Max

\* In a finite set of naturals every position is taken by one element.
LEMMA Position ==
  ASSUME NEW L, NEW n \in Nat, L \subseteq 0..n, NEW i \in 1..Cardinality(L)
  PROVE  \E x \in L : Cardinality({y \in L : y < x}) = i - 1
<1> DEFINE c == Cardinality(L)
           Below(x) == {y \in L : y < x}
           f == [x \in L |-> Cardinality(Below(x))]
           I == 0..(c - 1)
<1>1. IsFiniteSet(L) /\ c \in Nat
  <2>1. IsFiniteSet(0..n)
    BY SMT, FS_Interval
  <2> QED
    BY <2>1, FS_Subset, FS_CardinalityType
<1>2. ASSUME NEW x \in L
      PROVE  IsFiniteSet(Below(x)) /\ Cardinality(Below(x)) \in Nat /\ Cardinality(Below(x)) < c
  <2>1. Below(x) \in SUBSET L /\ Below(x) # L
    <3>1. ~(x < x)
      BY SMT
    <3> QED
      BY <3>1
  <2>2. IsFiniteSet(Below(x)) /\ Cardinality(Below(x)) <= c /\ Cardinality(Below(x)) # c
    BY <1>1, <2>1, FS_Subset
  <2>3. Cardinality(Below(x)) \in Nat
    BY <2>2, FS_CardinalityType
  <2> HIDE DEF Below, c
  <2> QED
    BY SMT, <1>1, <2>2, <2>3
<1>3. ASSUME NEW x \in L, NEW y \in L, x < y
      PROVE  Cardinality(Below(x)) # Cardinality(Below(y))
  <2>1. Below(x) \in SUBSET Below(y) /\ x \in Below(y) /\ x \notin Below(x)
    <3>1. \A z \in L : z \in Int
      BY SMT
    <3>2. ~(x < x) /\ \A z \in L : z < x => z < y
      BY SMT, <1>3, <3>1
    <3> QED
      BY <1>3, <3>2
  <2>2. Below(x) # Below(y) /\ IsFiniteSet(Below(y))
    BY <1>2, <2>1
  <2> HIDE DEF Below
  <2> QED
    BY <2>1, <2>2, FS_Subset
<1>4. f \in [L -> I]
  <2> SUFFICES ASSUME NEW x \in L PROVE Cardinality(Below(x)) \in I
    OBVIOUS
  <2> HIDE DEF Below, c
  <2> QED
    BY SMT, <1>1, <1>2
<1>5. f \in Injection(L, I)
  <2> SUFFICES ASSUME NEW x \in L, NEW y \in L, x # y PROVE f[x] # f[y]
    BY <1>4 DEF Injection, IsInjective
  <2>1. x < y \/ y < x
    BY SMT
  <2> HIDE DEF Below
  <2> QED
    BY <1>3, <2>1
<1>6. IsFiniteSet(I) /\ Cardinality(I) = c
  <2> HIDE DEF c
  <2>1. 0 \in Int /\ c - 1 \in Int /\ c >= 0
    BY SMT, <1>1
  <2> QED
    BY SMT, <1>1, <2>1, FS_Interval
<1>7. f \in Surjection(L, I)
  <2> HIDE DEF f, I
  <2> QED
    BY <1>5, <1>6, FS_Injection
<1>8. i - 1 \in I
  <2> HIDE DEF c
  <2>1. i \in 1..c
    BY DEF c
  <2> QED
    BY SMT, <1>1, <2>1
<1>9. \E x \in L : f[x] = i - 1
  <2> HIDE DEF f, I
  <2> QED
    BY <1>7, <1>8 DEF Surjection
<1> QED
  BY <1>9

(***************************************************************************)
(* The inductive invariant.                                                *)
(***************************************************************************)

Call == [kind : {"place", "adopt"}, order : Orders, trade : Nat, qty : Nat, fee : Nat,
         src : {"tick", "stream", "backfill"}]
Mode == [at : {"off", "anchor", "fetch", "loop", "await"}, anchor : Nat, todo : Seq(Call)]
Verdicts == Done \cup {"row", "marker", "close", "chain"}

\* An adoption is about a trade of the order it names.
Sound(c) == c.trade \in DOMAIN tape /\ tape[c.trade] = c.order

\* What waits in p's chain: p's own placements, and adoptions of real trades.
Proper(p, c) ==
  /\ c.kind = "place" => Placer[c.order] = p
  /\ c.kind = "adopt" => Sound(c)

\* The rows are those of the orders' placers, or detached.
Basics ==
  /\ active \subseteq Profiles /\ link \subseteq Profiles /\ living \subseteq Profiles
  /\ place \in [Orders -> {"new", "queued", "sent", "row"}]
  /\ marker \subseteq Orders /\ closed \subseteq Orders
  /\ row \in [Orders -> Profiles \cup {Gone, NoOne}]
  /\ \A o \in Orders : row[o] \in Profiles => Placer[o] = row[o]
  /\ tape \in Seq(Orders)
  /\ fees \subseteq DOMAIN tape

Inboxes ==
  /\ inbox \in [Profiles -> Seq(Nat)]
  /\ \A p \in Profiles : \A i \in 1..Len(inbox[p]) : inbox[p][i] \in DOMAIN tape

\* A report is about an order that has traded.
Reports ==
  /\ report \in [Profiles -> [Orders -> Verdicts]]
  /\ \A p \in Profiles, o \in Orders : report[p][o] # "none" => LegsOf(o) # {}

Backfills ==
  /\ fill \in [Profiles -> Mode]
  /\ \A p \in Profiles : \A i \in 1..Len(fill[p].todo) :
       fill[p].todo[i].kind = "adopt" /\ Sound(fill[p].todo[i])

\* The await a chain is at is one of its head's.
Chains ==
  /\ queue \in [Profiles -> Seq(Call)]
  /\ step \in [Profiles -> {"idle", "place", "persist", "adopt", "state"}]
  /\ \A p \in Profiles :
       /\ (step[p] = "idle") <=> (queue[p] = <<>>)
       /\ step[p] \in {"place", "persist"} => queue[p][1].kind = "place"
       /\ step[p] \in {"adopt", "state"} => queue[p][1].kind = "adopt"
       /\ \A i \in 1..Len(queue[p]) : Proper(p, queue[p][i])

\* While a slice write is due, what it will write is the ledger's quantity; a replay
\* that writes nothing leaves the slice as the ledger, or marked stale, as it found it.
Due(p) ==
  \/ next[p] = basis[p]
  \/ next[p] = Noop /\ basis[p] = 0 /\ (held[p] = basis[p] \/ p \in stale)

Ledgers ==
  /\ applied \in [Profiles -> SUBSET (Orders \X Nat)]
  /\ \A p \in Profiles : \A a \in applied[p] : a[2] \in DOMAIN tape
  /\ basis \in [Profiles -> Nat] /\ held \in [Profiles -> Nat]
  /\ next \in [Profiles -> Nat \cup {Noop}]
  /\ NoForeignFold
  /\ HeldTracksLedger
  /\ \A p \in living : step[p] = "state" => Due(p)

IInv == Basics /\ Inboxes /\ Reports /\ Backfills /\ Chains /\ Ledgers

(***************************************************************************)
(* Operators.                                                              *)
(***************************************************************************)

\* The positions of the exchange's trades.
LEMMA TapeDomain ==
  ASSUME tape \in Seq(Orders)
  PROVE  /\ DOMAIN tape = 1..Len(tape) /\ Len(tape) \in Nat
         /\ DOMAIN tape \subseteq 0..Len(tape) /\ IsFiniteSet(DOMAIN tape)
         /\ \A t \in DOMAIN tape : tape[t] \in Orders
<1>1. DOMAIN tape = 1..Len(tape) /\ Len(tape) \in Nat /\ \A t \in DOMAIN tape : tape[t] \in Orders
  BY SMT
<1>2. IsFiniteSet(1..Len(tape))
  BY SMT, <1>1, FS_Interval
<1> QED
  BY SMT, <1>1, <1>2

\* The last trade of an order that has traded.
LEMMA LastLeg ==
  ASSUME tape \in Seq(Orders), NEW o \in Orders, NEW S, S \subseteq LegsOf(o), S # {}
  PROVE  Max(S) \in S /\ Max(S) \in DOMAIN tape /\ Max(S) \in Nat /\ tape[Max(S)] = o
<1>1. S \subseteq 0..Len(tape) /\ Len(tape) \in Nat
  BY TapeDomain DEF LegsOf
<1>2. Max(S) \in S
  BY <1>1, MaxOf
<1> QED
  BY SMT, <1>1, <1>2 DEF LegsOf

\* Products of naturals are natural.
LEMMA Product == ASSUME NEW a \in Nat, NEW b \in Nat PROVE a * b \in Nat
BY SMT

\* A FillEvent of a trade of the order.
LEMMA EventType ==
  ASSUME tape \in Seq(Orders), NEW o \in Orders, NEW t \in DOMAIN tape, tape[t] = o,
         NEW n \in Nat, NEW charged \in Nat, NEW src \in {"stream", "backfill"}
  PROVE  /\ Event(o, t, n, charged, src) \in Call
         /\ Event(o, t, n, charged, src).kind = "adopt"
         /\ Sound(Event(o, t, n, charged, src))
<1>1. n * Qty \in Nat /\ charged * Fee \in Nat
  BY Product, FillsAssumption DEF FillsAssumption
<1>2. t \in Nat
  BY SMT, TapeDomain
<1> QED
  BY <1>1, <1>2 DEF Event, Call, Sound

\* One page of the backfill is a sequence of sound adoptions: its i-th element is the
\* last trade, past the anchor, of one of the orders that traded since.
LEMMA PageType ==
  ASSUME tape \in Seq(Orders), NEW from \in Nat
  PROVE  /\ Page(from) \in Seq(Call)
         /\ \A i \in 1..Len(Page(from)) : Page(from)[i].kind = "adopt" /\ Sound(Page(from)[i])
<1> DEFINE ids == {t \in DOMAIN tape : t > from}
           last(o) == Max(LegsOf(o) \cap ids)
           lasts == {last(o) : o \in {tape[t] : t \in ids}}
           legs(t) == Cardinality(LegsOf(tape[t]) \cap ids)
           at(i) == CHOOSE x \in lasts : Cardinality({y \in lasts : y < x}) = i - 1
           e(i) == Event(tape[at(i)], at(i), legs(at(i)), legs(at(i)), "backfill")
<1>1. lasts \subseteq DOMAIN tape
  <2> SUFFICES ASSUME NEW t \in ids PROVE last(tape[t]) \in DOMAIN tape
    OBVIOUS
  <2>1. t \in LegsOf(tape[t]) \cap ids /\ tape[t] \in Orders
    BY TapeDomain DEF LegsOf
  <2> HIDE DEF ids
  <2> QED
    BY <2>1, LastLeg
<1>2. lasts \subseteq 0..Len(tape) /\ Len(tape) \in Nat /\ IsFiniteSet(lasts)
  BY <1>1, TapeDomain, FS_Subset
<1>3. Cardinality(lasts) \in Nat
  BY <1>2, FS_CardinalityType
<1>4. ASSUME NEW i \in 1..Cardinality(lasts) PROVE at(i) \in DOMAIN tape
  <2> HIDE DEF lasts
  <2>1. \E x \in lasts : Cardinality({y \in lasts : y < x}) = i - 1
    BY <1>2, Position
  <2>2. at(i) \in lasts
    BY <2>1
  <2> QED
    BY <1>1, <2>2
<1>5. ASSUME NEW t \in DOMAIN tape PROVE legs(t) \in Nat
  <2>1. LegsOf(tape[t]) \cap ids \in SUBSET (DOMAIN tape)
    BY DEF LegsOf
  <2>2. IsFiniteSet(LegsOf(tape[t]) \cap ids)
    BY <2>1, TapeDomain, FS_Subset
  <2> QED
    BY <2>2, FS_CardinalityType
<1>6. ASSUME NEW i \in 1..Cardinality(lasts) PROVE e(i) \in Call /\ e(i).kind = "adopt" /\ Sound(e(i))
  <2>1. at(i) \in DOMAIN tape /\ tape[at(i)] \in Orders /\ legs(at(i)) \in Nat
    BY <1>4, <1>5, TapeDomain
  <2> HIDE DEF at, legs
  <2> QED
    BY <2>1, EventType
<1>7. Page(from) = [i \in 1..Cardinality(lasts) |-> e(i)]
  BY DEF Page
<1> HIDE DEF lasts, e
<1>8. Page(from) \in Seq(Call) /\ Len(Page(from)) = Cardinality(lasts)
  BY SMT, <1>3, <1>6, <1>7
<1> QED
  BY <1>6, <1>7, <1>8

(***************************************************************************)
(* What an operation does to one part of the invariant.                    *)
(***************************************************************************)

\* No message, no trade: the inboxes stay right.
LEMMA InboxesSame == ASSUME Inboxes, UNCHANGED <<inbox, tape>> PROVE Inboxes'
BY DEF Inboxes

\* Frames leave an inbox at its head, and all at once.
LEMMA InboxSet ==
  ASSUME Inboxes, UNCHANGED tape, NEW p \in Profiles, NEW b \in Seq(Nat),
         \A i \in 1..Len(b) : b[i] \in DOMAIN tape, inbox' = [inbox EXCEPT ![p] = b]
  PROVE  Inboxes'
<1>1. inbox' \in [Profiles -> Seq(Nat)] /\ inbox'[p] = b
      /\ \A q \in Profiles : q # p => inbox'[q] = inbox[q]
  BY DEF Inboxes
<1> QED
  BY <1>1 DEF Inboxes

\* No report, no trade: the reports stay right.
LEMMA ReportsSame == ASSUME Reports, UNCHANGED <<report, tape>> PROVE Reports'
BY DEF Reports, LegsOf

\* A verdict on an order that has trades may be reported.
LEMMA ReportSet ==
  ASSUME Reports, UNCHANGED tape, NEW p \in Profiles, NEW o \in Orders, NEW v \in Verdicts,
         LegsOf(o) # {}, report' = [report EXCEPT ![p][o] = v]
  PROVE  Reports'
<1>1. [report[p] EXCEPT ![o] = v] \in [Orders -> Verdicts]
  BY DEF Reports
<1>2. report' = [report EXCEPT ![p] = [report[p] EXCEPT ![o] = v]]
  OBVIOUS
<1>3. report' \in [Profiles -> [Orders -> Verdicts]]
  BY <1>1, <1>2 DEF Reports
<1>4. \A q \in Profiles, x \in Orders :
        <<q, x>> # <<p, o>> => report'[q][x] = report[q][x]
  BY SMT, <1>2 DEF Reports
<1>5. \A x \in Orders : LegsOf(x)' = LegsOf(x)
  BY DEF LegsOf
<1>6. ASSUME NEW q \in Profiles, NEW x \in Orders, report'[q][x] # "none" PROVE LegsOf(x) # {}
  BY <1>4, <1>6 DEF Reports
<1> QED
  BY <1>3, <1>5, <1>6 DEF Reports

\* No replay, no trade: the backfills stay right.
LEMMA BackfillsSame == ASSUME Backfills, UNCHANGED <<fill, tape>> PROVE Backfills'
BY DEF Backfills, Sound

\* A backfill may queue the adoption of trades that happened.
LEMMA BackfillSet ==
  ASSUME Backfills, UNCHANGED tape, NEW p \in Profiles, NEW f \in Mode,
         \A i \in 1..Len(f.todo) : f.todo[i].kind = "adopt" /\ Sound(f.todo[i]),
         fill' = [fill EXCEPT ![p] = f]
  PROVE  Backfills'
<1>1. fill' \in [Profiles -> Mode] /\ fill'[p] = f /\ \A q \in Profiles : q # p => fill'[q] = fill[q]
  BY DEF Backfills
<1> QED
  BY SMT, <1>1 DEF Backfills, Sound

\* The backfill moves on within the page it has.
LEMMA BackfillMoves ==
  ASSUME Backfills, UNCHANGED tape, NEW p \in Profiles,
         NEW at \in {"off", "anchor", "fetch", "loop", "await"}, NEW n \in Nat,
         fill' = [fill EXCEPT ![p] = [fill[p] EXCEPT !.at = at, !.anchor = n]]
  PROVE  Backfills'
<1> DEFINE f == [fill[p] EXCEPT !.at = at, !.anchor = n]
<1>1. fill[p] \in Mode
  BY DEF Backfills
<1>2. f \in Mode /\ f.todo = fill[p].todo
  BY <1>1 DEF Mode
<1> HIDE DEF f
<1>3. \A i \in 1..Len(f.todo) : f.todo[i].kind = "adopt" /\ Sound(f.todo[i])
  BY <1>2 DEF Backfills
<1> QED
  BY <1>2, <1>3, BackfillSet DEF f

\* A profile without a backfill has nothing to replay.
LEMMA OffType == Off \in Mode /\ Off.todo = <<>>
BY SMT DEF Off, Mode

\* A backfill may end at any time.
LEMMA BackfillEnds ==
  ASSUME Backfills, UNCHANGED tape, NEW p \in Profiles, fill' = [fill EXCEPT ![p] = Off]
  PROVE  Backfills'
<1>1. \A i \in 1..Len(Off.todo) : Off.todo[i].kind = "adopt" /\ Sound(Off.todo[i])
  BY SMT, OffType
<1> QED
  BY <1>1, OffType, BackfillSet

\* The caller of an adoption goes on.
LEMMA ResumeKeeps ==
  ASSUME Basics, Reports, Backfills, UNCHANGED tape, NEW p \in Profiles, NEW c \in Call, Sound(c),
         Resume(p, c)
  PROVE  Reports' /\ Backfills'
<1>1. Reports'
  <2>1. c.order \in Orders /\ c.trade \in LegsOf(c.order)
    BY DEF Call, Sound, LegsOf
  <2>2. "done" \in Verdicts
    BY DEF Verdicts, Done
  <2>3. CASE c.src = "stream"
    <3>1. LegsOf(c.order) # {}
      BY <2>1
    <3>2. report' = [report EXCEPT ![p][c.order] = "done"]
      BY <2>3 DEF Resume
    <3> QED
      BY <2>1, <2>2, <3>1, <3>2, ReportSet
  <2>4. CASE c.src # "stream"
    BY <2>4, ReportsSame DEF Resume
  <2> QED
    BY <2>3, <2>4
<1>2. Backfills'
  <2>1. CASE c.src = "backfill"
    <3>1. fill[p] \in Mode /\ fill[p].anchor \in Nat
      BY DEF Backfills, Mode
    <3>2. fill' = [fill EXCEPT ![p] = [fill[p] EXCEPT !.at = "loop"]]
      BY <2>1 DEF Resume
    <3>3. [fill[p] EXCEPT !.at = "loop"] = [fill[p] EXCEPT !.at = "loop", !.anchor = fill[p].anchor]
      BY <3>1 DEF Mode
    <3> QED
      BY <3>1, <3>2, <3>3, BackfillMoves
  <2>2. CASE c.src # "backfill"
    BY <2>2, BackfillsSame DEF Resume
  <2> QED
    BY <2>1, <2>2
<1> QED
  BY <1>1, <1>2

\* No call, no trade: the chains of a profile stay right.
LEMMA ChainsSame == ASSUME Chains, UNCHANGED <<queue, step, tape>> PROVE Chains'
BY DEF Chains, Proper, Sound

\* Chains but p's stay as they are.
Others(p) == \A q \in Profiles : q # p => queue'[q] = queue[q] /\ step'[q] = step[q]

\* p's chain becomes the sequence s at await w.
LEMMA ChainSet ==
  ASSUME Chains, UNCHANGED tape, NEW p \in Profiles, NEW s \in Seq(Call),
         NEW w \in {"idle", "place", "persist", "adopt", "state"},
         queue' = [queue EXCEPT ![p] = s], step' = [step EXCEPT ![p] = w],
         (w = "idle") <=> (s = <<>>),
         w \in {"place", "persist"} => s[1].kind = "place",
         w \in {"adopt", "state"} => s[1].kind = "adopt",
         \A i \in 1..Len(s) : Proper(p, s[i])
  PROVE  Chains' /\ Others(p) /\ step'[p] = w
<1>1. queue' \in [Profiles -> Seq(Call)] /\ queue'[p] = s
  BY DEF Chains
<1>2. step' \in [Profiles -> {"idle", "place", "persist", "adopt", "state"}] /\ step'[p] = w
  BY DEF Chains
<1>3. Others(p)
  BY DEF Chains, Others
<1>4. ASSUME NEW q \in Profiles, q # p
      PROVE  /\ (step'[q] = "idle") <=> (queue'[q] = <<>>)
             /\ step'[q] \in {"place", "persist"} => queue'[q][1].kind = "place"
             /\ step'[q] \in {"adopt", "state"} => queue'[q][1].kind = "adopt"
             /\ \A i \in 1..Len(queue'[q]) : Proper(q, queue'[q][i])
  BY <1>3, <1>4 DEF Others, Chains
<1>5. /\ (step'[p] = "idle") <=> (queue'[p] = <<>>)
      /\ step'[p] \in {"place", "persist"} => queue'[p][1].kind = "place"
      /\ step'[p] \in {"adopt", "state"} => queue'[p][1].kind = "adopt"
      /\ \A i \in 1..Len(queue'[p]) : Proper(p, queue'[p][i])
  BY <1>1, <1>2
<1>6. ASSUME NEW q \in Profiles
      PROVE  /\ (step'[q] = "idle") <=> (queue'[q] = <<>>)
             /\ step'[q] \in {"place", "persist"} => queue'[q][1].kind = "place"
             /\ step'[q] \in {"adopt", "state"} => queue'[q][1].kind = "adopt"
             /\ \A i \in 1..Len(queue'[q]) : Proper(q, queue'[q][i])
  BY <1>4, <1>5
<1>7. ASSUME NEW q \in Profiles PROVE \A i \in 1..Len(queue'[q]) : Proper(q, queue[q][i])'
  <2> TAKE i \in 1..Len(queue'[q])
  <2>1. Proper(q, queue'[q][i])
    BY <1>6
  <2> QED
    BY <2>1 DEF Proper, Sound
<1>8. Chains'
  BY <1>1, <1>2, <1>6, <1>7 DEF Chains
<1> QED
  BY <1>2, <1>3, <1>8

\* No chain enters or leaves the await of the slice write.
SameState == \A q \in Profiles : (step'[q] = "state") <=> (step[q] = "state")

\* A call of its own profile joins the chain; no state changes.
LEMMA JoinKeeps ==
  ASSUME Chains, UNCHANGED tape, NEW p \in Profiles, NEW c \in Call, Proper(p, c), Join(p, c)
  PROVE  Chains' /\ SameState
<1> DEFINE s == Append(queue[p], c)
           w == IF queue[p] = <<>> THEN c.kind ELSE step[p]
<1>1. queue[p] \in Seq(Call) /\ step[p] \in {"idle", "place", "persist", "adopt", "state"}
      /\ c.kind \in {"place", "adopt"}
  BY DEF Chains, Call
<1>2. /\ s \in Seq(Call) /\ s # <<>> /\ Len(s) = Len(queue[p]) + 1 /\ Len(queue[p]) \in Nat
      /\ \A i \in 1..Len(queue[p]) : s[i] = queue[p][i]
      /\ s[Len(queue[p]) + 1] = c
  BY SMT, <1>1, AppendProperties
<1>3. queue' = [queue EXCEPT ![p] = s] /\ step' = [step EXCEPT ![p] = w]
  <2>1. step = [step EXCEPT ![p] = step[p]]
    BY DEF Chains
  <2> QED
    BY <2>1 DEF Join
<1> HIDE DEF s
<1>4. CASE queue[p] = <<>>
  <2>1. s[1] = c /\ Len(s) = 1 /\ w = c.kind
    BY SMT, <1>2, <1>4
  <2>2. \A i \in 1..Len(s) : Proper(p, s[i])
    BY SMT, <2>1
  <2>3. Chains' /\ Others(p) /\ step'[p] = w
    BY <1>1, <1>2, <1>3, <2>1, <2>2, ChainSet
  <2>4. step[p] = "idle"
    BY <1>4 DEF Chains
  <2> QED
    BY <1>1, <2>1, <2>3, <2>4 DEF Others, SameState
<1>5. CASE queue[p] # <<>>
  <2>1. w = step[p] /\ step[p] # "idle" /\ Len(queue[p]) >= 1
    BY SMT, <1>1, <1>5 DEF Chains
  <2>2. s[1] = queue[p][1]
    BY SMT, <1>2, <2>1
  <2>3. ASSUME NEW i \in 1..Len(s) PROVE Proper(p, s[i])
    <3>1. CASE i \in 1..Len(queue[p])
      BY <1>2, <3>1 DEF Chains
    <3>2. CASE i = Len(queue[p]) + 1
      BY <1>2, <3>2
    <3> QED
      BY SMT, <1>2, <3>1, <3>2
  <2>4. /\ w \in {"place", "persist"} => s[1].kind = "place"
        /\ w \in {"adopt", "state"} => s[1].kind = "adopt"
    BY <2>1, <2>2 DEF Chains
  <2> HIDE DEF w
  <2>5. Chains' /\ Others(p) /\ step'[p] = w
    BY <1>1, <1>2, <1>3, <2>1, <2>3, <2>4, ChainSet
  <2> QED
    BY <2>1, <2>5 DEF Others, SameState
<1> QED
  BY <1>4, <1>5

\* The call at the head leaves; the chains of the other profiles stay.
LEMMA LeaveKeeps ==
  ASSUME Chains, UNCHANGED tape, NEW p \in Profiles, step[p] # "idle", Leave(p)
  PROVE  Chains' /\ Others(p) /\ step'[p] # "state"
<1> DEFINE s == Tail(queue[p])
           w == IF Len(queue[p]) = 1 THEN "idle" ELSE queue[p][2].kind
<1>1. queue[p] \in Seq(Call) /\ queue[p] # <<>>
  BY DEF Chains
<1>2. /\ s \in Seq(Call) /\ Len(queue[p]) \in Nat /\ Len(queue[p]) >= 1
      /\ Len(s) = Len(queue[p]) - 1 /\ \A i \in 1..Len(s) : s[i] = queue[p][i + 1]
  BY SMT, <1>1
<1>3. queue' = [queue EXCEPT ![p] = s] /\ step' = [step EXCEPT ![p] = w]
  BY DEF Leave
<1> HIDE DEF s
<1>4. ASSUME NEW i \in 1..Len(s) PROVE Proper(p, s[i])
  <2>1. i + 1 \in 1..Len(queue[p])
    BY SMT, <1>2
  <2>2. Proper(p, queue[p][i + 1])
    BY <2>1 DEF Chains
  <2> QED
    BY <1>2, <2>2
<1>5. CASE Len(queue[p]) = 1
  <2>1. s = <<>> /\ w = "idle"
    BY SMT, <1>2, <1>5
  <2>2. Len(s) = 0 /\ queue' = [queue EXCEPT ![p] = s] /\ step' = [step EXCEPT ![p] = "idle"]
    BY <1>2, <1>3, <1>5, <2>1
  <2> HIDE DEF w
  <2>3. Chains' /\ Others(p) /\ step'[p] = "idle"
    BY <1>2, <1>4, <2>1, <2>2, ChainSet
  <2> QED
    BY <2>3
<1>6. CASE Len(queue[p]) # 1
  <2>1. s # <<>> /\ s[1] = queue[p][2] /\ w = s[1].kind /\ s[1] \in Call
    <3> DEFINE n == Len(queue[p])
               m == Len(s)
    <3>1. 1 \in 1..Len(s)
      <4>1. n \in Nat /\ n >= 1 /\ n # 1 /\ m = n - 1
        BY <1>2, <1>6
      <4> HIDE DEF n, m
      <4>2. 1 \in 1..m
        BY SMT, <4>1
      <4> QED
        BY <4>2 DEF m
    <3>2. s[1] = queue[p][2]
      BY SMT, <1>2, <3>1
    <3>3. s # <<>> /\ s[1] \in Call
      BY SMT, <1>2, <3>1
    <3> QED
      BY <1>6, <3>2, <3>3
  <2>2. w \in {"place", "adopt"}
    BY <2>1 DEF Call
  <2> HIDE DEF w
  <2>3. Chains' /\ Others(p) /\ step'[p] = w
    BY <1>2, <1>3, <1>4, <2>1, <2>2, ChainSet
  <2> QED
    BY <2>2, <2>3
<1> QED
  BY <1>5, <1>6

\* The head of a chain goes on from its first await to its second.
LEMMA HeadAdvances ==
  ASSUME Chains, UNCHANGED <<tape, queue>>, NEW p \in Profiles, NEW w \in {"persist", "state"},
         step[p] = IF w = "persist" THEN "place" ELSE "adopt", step' = [step EXCEPT ![p] = w]
  PROVE  Chains' /\ Others(p) /\ step'[p] = w
<1>1. queue[p] \in Seq(Call) /\ queue' = [queue EXCEPT ![p] = queue[p]]
  BY DEF Chains
<1>2. queue[p] # <<>> /\ queue[p][1].kind = (IF w = "persist" THEN "place" ELSE "adopt")
  BY DEF Chains
<1>3. \A i \in 1..Len(queue[p]) : Proper(p, queue[p][i])
  BY DEF Chains
<1> QED
  BY <1>1, <1>2, <1>3, ChainSet

\* The running call.
LEMMA HeadType ==
  ASSUME Chains, NEW p \in Profiles, step[p] # "idle"
  PROVE  /\ queue[p][1] \in Call /\ queue[p][1].order \in Orders
         /\ step[p] \in {"place", "persist"} => Placer[queue[p][1].order] = p
         /\ step[p] \in {"adopt", "state"} => Sound(queue[p][1])
<1>1. queue[p] \in Seq(Call) /\ queue[p] # <<>>
  BY DEF Chains
<1>2. 1 \in 1..Len(queue[p]) /\ queue[p][1] \in Call
  BY SMT, <1>1
<1>3. Proper(p, queue[p][1])
  BY <1>2 DEF Chains
<1> QED
  BY <1>2, <1>3 DEF Chains, Proper, Call

\* A step that folds nothing and writes no state keeps the ledgers.
LEMMA LedgersSame ==
  ASSUME Ledgers, UNCHANGED <<applied, basis, held, next, tape, stale>>, SameState,
         living \subseteq Profiles, living' \subseteq living
  PROVE  Ledgers'
<1>1. NoForeignFold'
  BY DEF Ledgers, NoForeignFold
<1>2. HeldTracksLedger'
  BY DEF Ledgers, HeldTracksLedger, SameState
<1>3. \A q \in living' : step'[q] = "state" => Due(q)'
  BY DEF Ledgers, SameState, Due
<1> QED
  BY <1>1, <1>2, <1>3 DEF Ledgers

(***************************************************************************)
(* Placements.                                                             *)
(***************************************************************************)

\* A tick decides to place an order and joins the chain.
LEMMA TickKeeps ==
  ASSUME IInv, NEW p \in Profiles, NEW o \in Orders, Tick(p, o) PROVE IInv'
<1> USE DEF IInv
<1>1. UNCHANGED <<active, living, store, tape, link, inbox, fees, report, fill, next, faults, past>>
      /\ Join(p, Placing(o)) /\ Placer[o] = p /\ place' = [place EXCEPT ![o] = "queued"]
  BY DEF Tick
<1>2. Placing(o) \in Call /\ Placing(o).kind = "place" /\ Placing(o).order = o
  BY DEF Placing, Call
<1>3. Proper(p, Placing(o))
  BY <1>1, <1>2 DEF Proper
<1>4. Chains' /\ SameState
  BY <1>1, <1>2, <1>3, JoinKeeps
<1>5. Basics'
  BY <1>1 DEF Basics, store
<1>6. Ledgers'
  BY <1>1, <1>4, LedgersSame DEF Basics, store, past
<1> QED
  BY <1>1, <1>4, <1>5, <1>6, InboxesSame, ReportsSame, BackfillsSame

\* The order is marked and sent.
LEMMA SendKeeps ==
  ASSUME IInv, NEW p \in Profiles, Send(p) PROVE IInv'
<1> USE DEF IInv
<1>1. /\ UNCHANGED <<active, living, row, closed, applied, basis, held, tape, link, inbox, fees,
                     report, fill, queue, next, past>>
      /\ step[p] = "place" /\ step' = [step EXCEPT ![p] = "persist"]
      /\ place' = [place EXCEPT ![queue[p][1].order] = "sent"]
      /\ marker' = marker \cup {queue[p][1].order} \/ marker' = marker
  BY DEF Send
<1>2. queue[p][1].order \in Orders
  BY <1>1, HeadType
<1>3. Chains' /\ Others(p) /\ step'[p] = "persist"
  BY <1>1, HeadAdvances
<1>4. Basics'
  BY <1>1, <1>2 DEF Basics
<1>5. SameState
  BY <1>1, <1>3 DEF SameState, Others
<1>6. Ledgers'
  BY <1>1, <1>5, LedgersSame DEF Basics, past
<1> QED
  BY <1>1, <1>3, <1>4, <1>6, InboxesSame, ReportsSame, BackfillsSame

\* recordPlacedOrder writes the row of an order its own profile has placed.
LEMMA PersistKeeps ==
  ASSUME IInv, NEW p \in Profiles, Persist(p) PROVE IInv'
<1> USE DEF IInv
<1> DEFINE o == queue[p][1].order
<1>1. /\ UNCHANGED <<active, living, marker, closed, applied, basis, held, tape, link, inbox, fees,
                     report, fill, next, past>>
      /\ step[p] = "persist" /\ Leave(p)
      /\ place' = [place EXCEPT ![o] = "row"]
      /\ row' = [row EXCEPT ![o] = p] \/ row' = row
  BY DEF Persist
<1>2. o \in Orders /\ Placer[o] = p
  BY <1>1, HeadType
<1>3. Chains' /\ Others(p) /\ step'[p] # "state"
  BY <1>1, LeaveKeeps
<1> HIDE DEF o
<1>4. /\ row' \in [Orders -> Profiles \cup {Gone, NoOne}]
      /\ \A x \in Orders : row'[x] \in Profiles => Placer[x] = row'[x]
  <2>1. CASE row' = row
    BY <2>1 DEF Basics
  <2>2. CASE row' = [row EXCEPT ![o] = p]
    <3>1. row'[o] = p /\ \A x \in Orders : x # o => row'[x] = row[x]
      BY <1>2, <2>2 DEF Basics
    <3>2. row' \in [Orders -> Profiles \cup {Gone, NoOne}]
      BY <1>2, <2>2 DEF Basics
    <3> QED
      BY <1>2, <3>1, <3>2 DEF Basics
  <2> QED
    BY <1>1, <2>1, <2>2
<1>5. Basics'
  BY <1>1, <1>2, <1>4 DEF Basics
<1>6. SameState
  BY <1>1, <1>3 DEF SameState, Others
<1>7. Ledgers'
  BY <1>1, <1>6, LedgersSame DEF Basics, past
<1> QED
  BY <1>1, <1>3, <1>5, <1>7, InboxesSame, ReportsSame, BackfillsSame

(***************************************************************************)
(* Adoptions.                                                              *)
(***************************************************************************)

\* The ledger's quantity stays a natural number.
LEMMA FoldType ==
  ASSUME NEW p \in Profiles, basis[p] \in Nat, NEW e \in Call
  PROVE  Folded(p, e) \in Nat
<1>1. e.qty \in Nat /\ e.fee \in Nat
  BY DEF Call
<1>2. Credit(e) \in Nat
  BY SMT, <1>1 DEF Credit
<1>3. CASE e.order \in Buys
  BY SMT, <1>2, <1>3 DEF Folded
<1>4. CASE e.order \notin Buys
  BY SMT, <1>1, <1>4 DEF Folded
<1> QED
  BY <1>3, <1>4

\* The transaction commits: the fill is of an order whose row is this profile's, so
\* the profile placed it, and what the slice is due is what the ledger now holds.
LEMMA CommitKeeps ==
  ASSUME IInv, NEW p \in Profiles, step[p] = "adopt", NEW e, e = queue[p][1],
         NEW first \in BOOLEAN, first = (<<e.order, e.trade>> \notin applied[p]),
         NEW after, after = (IF first THEN Folded(p, e) ELSE basis[p]),
         Admitted(p, e.order),
         applied' = [applied EXCEPT ![p] = @ \cup {<<e.order, e.trade>>}],
         basis' = [basis EXCEPT ![p] = after],
         next' = [next EXCEPT ![p] = Resolved(e, first, after)],
         step' = [step EXCEPT ![p] = "state"],
         UNCHANGED <<queue, tape, held, stale, living>>
  PROVE  Chains' /\ Ledgers'
<1> USE DEF IInv
<1>1. e \in Call /\ e.order \in Orders /\ Sound(e)
  BY HeadType
<1>2. e.trade \in DOMAIN tape /\ e.trade \in Nat
  BY <1>1 DEF Sound, Call
<1>3. Placer[e.order] = p
  BY <1>1 DEF Admitted, Basics
<1>4. after \in Nat
  BY <1>1, FoldType DEF Ledgers
<1>5. Resolved(e, first, after) \in Nat \cup {Noop}
  BY <1>4 DEF Resolved
<1>6. Chains' /\ Others(p) /\ step'[p] = "state"
  BY HeadAdvances
<1>7. /\ applied' \in [Profiles -> SUBSET (Orders \X Nat)]
      /\ applied'[p] = applied[p] \cup {<<e.order, e.trade>>}
      /\ \A q \in Profiles : q # p => applied'[q] = applied[q]
  <2> DEFINE A == applied[p] \cup {<<e.order, e.trade>>}
  <2>1. applied \in [Profiles -> SUBSET (Orders \X Nat)] /\ applied' = [applied EXCEPT ![p] = A]
    BY DEF Ledgers
  <2>2. A \in SUBSET (Orders \X Nat)
    <3> DEFINE x == <<e.order, e.trade>>
    <3>1. x \in Orders \X Nat
      BY <1>1, <1>2
    <3>2. applied[p] \in SUBSET (Orders \X Nat)
      BY <2>1
    <3> HIDE DEF x
    <3>3. applied[p] \cup {x} \in SUBSET (Orders \X Nat)
      BY <3>1, <3>2
    <3> QED
      BY <3>3 DEF x
  <2> HIDE DEF A
  <2>3. /\ applied' \in [Profiles -> SUBSET (Orders \X Nat)] /\ applied'[p] = A
        /\ \A q \in Profiles : q # p => applied'[q] = applied[q]
    BY <2>1, <2>2
  <2> QED
    BY <2>3 DEF A
<1>8. /\ basis' \in [Profiles -> Nat] /\ basis'[p] = after
      /\ \A q \in Profiles : q # p => basis'[q] = basis[q]
  BY <1>4 DEF Ledgers
<1>9. /\ next' \in [Profiles -> Nat \cup {Noop}] /\ next'[p] = Resolved(e, first, after)
      /\ \A q \in Profiles : q # p => next'[q] = next[q]
  BY <1>5 DEF Ledgers
<1>10. NoForeignFold'
  <2> SUFFICES ASSUME NEW q \in Profiles, NEW a \in applied'[q] PROVE Placer[a[1]] = q
    BY DEF NoForeignFold
  <2>1. CASE q = p /\ a = <<e.order, e.trade>>
    BY <1>3, <2>1
  <2>2. CASE a \in applied[q]
    BY <2>2 DEF Ledgers, NoForeignFold
  <2> QED
    BY <1>7, <2>1, <2>2
<1>11. \A q \in Profiles : \A a \in applied'[q] : a[2] \in DOMAIN tape'
  <2> SUFFICES ASSUME NEW q \in Profiles, NEW a \in applied'[q] PROVE a[2] \in DOMAIN tape
    OBVIOUS
  <2>1. CASE q = p /\ a = <<e.order, e.trade>>
    BY <1>2, <2>1
  <2>2. CASE a \in applied[q]
    BY <2>2 DEF Ledgers
  <2> QED
    BY <1>7, <2>1, <2>2
<1>12. Due(p)'
  <2>1. CASE e.order \in Buys /\ ~first /\ after = 0
    <3>1. next'[p] = Noop /\ basis'[p] = basis[p] /\ basis[p] = 0
      BY <1>8, <1>9, <2>1 DEF Resolved
    <3>2. p \in living /\ (held[p] = basis[p] \/ p \in stale)
      BY DEF Ledgers, HeldTracksLedger, Admitted
    <3> QED
      BY <3>1, <3>2 DEF Due
  <2>2. CASE ~(e.order \in Buys /\ ~first /\ after = 0)
    BY <1>8, <1>9, <2>2 DEF Due, Resolved
  <2> QED
    BY <2>1, <2>2
<1>13. ASSUME NEW q \in living, step'[q] = "state" PROVE Due(q)'
  <2>1. CASE q = p
    BY <1>12, <2>1
  <2>2. CASE q # p
    <3>1. q \in Profiles
      BY DEF Basics
    <3>2. step[q] = "state" /\ next'[q] = next[q] /\ basis'[q] = basis[q]
      BY <1>6, <1>8, <1>9, <1>13, <2>2, <3>1 DEF Others
    <3> QED
      BY <3>2 DEF Ledgers, Due
  <2> QED
    BY <2>1, <2>2
<1>14. HeldTracksLedger'
  <2> SUFFICES ASSUME NEW q \in living, held[q] # basis'[q]
               PROVE  step'[q] = "state" \/ q \in stale
    BY DEF HeldTracksLedger
  <2>1. q \in Profiles
    BY DEF Basics
  <2> QED
    BY <1>6, <1>8, <2>1 DEF Ledgers, HeldTracksLedger, Others
<1> QED
  BY <1>6, <1>7, <1>8, <1>9, <1>10, <1>11, <1>13, <1>14 DEF Ledgers

\* The transaction that folds a fill, or its throw.
LEMMA AdoptKeeps ==
  ASSUME IInv, NEW p \in Profiles, Adopt(p) PROVE IInv'
<1> USE DEF IInv
<1> DEFINE e == queue[p][1]
           first == <<e.order, e.trade>> \notin applied[p]
           after == IF first THEN Folded(p, e) ELSE basis[p]
<1>1. /\ UNCHANGED <<active, living, place, marker, row, closed, held, tape, link, inbox, fees,
                     missed, torn, stale>>
      /\ step[p] = "adopt"
  BY DEF Adopt
<1>2. Basics' /\ Inboxes'
  BY <1>1, InboxesSame DEF Basics
<1>3. CASE /\ Admitted(p, e.order)
           /\ applied' = [applied EXCEPT ![p] = @ \cup {<<e.order, e.trade>>}]
           /\ basis' = [basis EXCEPT ![p] = after]
           /\ next' = [next EXCEPT ![p] = Resolved(e, first, after)]
           /\ step' = [step EXCEPT ![p] = "state"]
           /\ UNCHANGED <<queue, report, fill, faults, excused>>
  <2>1. first \in BOOLEAN
    OBVIOUS
  <2>2. Chains' /\ Ledgers'
    BY <1>1, <1>3, <2>1, CommitKeeps
  <2> QED
    BY <1>1, <1>2, <1>3, <2>2, ReportsSame, BackfillsSame
<1>4. CASE Leave(p) /\ Resume(p, e) /\ UNCHANGED <<applied, basis, next>>
  <2>1. Chains' /\ Others(p) /\ step'[p] # "state"
    BY <1>1, <1>4, LeaveKeeps
  <2>2. SameState
    BY <1>1, <2>1 DEF SameState, Others
  <2>3. Ledgers'
    BY <1>1, <1>4, <2>2, LedgersSame DEF Basics
  <2>4. e \in Call /\ Sound(e)
    BY <1>1, HeadType
  <2>5. Reports' /\ Backfills'
    BY <1>1, <1>4, <2>4, ResumeKeeps
  <2> QED
    BY <1>2, <2>1, <2>3, <2>5
<1> QED
  BY <1>3, <1>4 DEF Adopt

\* The slice write: it brings the slice to the ledger, or the profile is marked stale.
LEMMA ApplyKeeps ==
  ASSUME IInv, NEW p \in Profiles, ApplyResolution(p) PROVE IInv'
<1> USE DEF IInv
<1>1. /\ UNCHANGED <<active, living, place, marker, row, closed, applied, basis, tape, link, inbox,
                     fees, missed, torn, excused>>
      /\ step[p] = "state" /\ Leave(p) /\ Resume(p, queue[p][1])
      /\ next' = [next EXCEPT ![p] = Noop]
  BY DEF ApplyResolution
<1>2. Basics' /\ Inboxes'
  BY <1>1, InboxesSame DEF Basics
<1>3. Chains' /\ Others(p) /\ step'[p] # "state"
  BY <1>1, LeaveKeeps
<1>4. queue[p][1] \in Call /\ Sound(queue[p][1])
  BY <1>1, HeadType
<1>5. Reports' /\ Backfills'
  BY <1>1, <1>4, ResumeKeeps
<1>6. next' \in [Profiles -> Nat \cup {Noop}] /\ \A q \in Profiles : q # p => next'[q] = next[q]
  BY <1>1 DEF Ledgers
<1>7. /\ held' \in [Profiles -> Nat]
      /\ \A q \in Profiles : q # p => held'[q] = held[q] /\ (q \in stale <=> q \in stale')
      /\ p \in living => held'[p] = basis[p] \/ p \in stale'
  <2>1. CASE /\ held' = IF next[p] = Noop \/ p \notin living THEN held ELSE [held EXCEPT ![p] = next[p]]
             /\ stale' = IF basis[p] = 0 THEN stale ELSE stale \ {p}
    <3>1. held' \in [Profiles -> Nat] /\ \A q \in Profiles : q # p => held'[q] = held[q]
      BY <2>1 DEF Ledgers
    <3>2. \A q : q # p => (q \in stale <=> q \in stale')
      BY <2>1
    <3>3. ASSUME p \in living PROVE held'[p] = basis[p] \/ p \in stale'
      <4>1. Due(p)
        BY <1>1, <3>3 DEF Ledgers
      <4>2. basis[p] \in Nat /\ Noop \notin Nat
        BY SMT DEF Ledgers, Noop
      <4>3. CASE next[p] = Noop
        <5>1. basis[p] = 0 /\ (held[p] = basis[p] \/ p \in stale)
          BY <4>1, <4>2, <4>3 DEF Due
        <5> QED
          BY <2>1, <4>3, <5>1
      <4>4. CASE next[p] # Noop
        <5>1. next[p] = basis[p]
          BY <4>1, <4>4 DEF Due
        <5> QED
          BY <2>1, <3>3, <4>4, <5>1 DEF Ledgers
      <4> QED
        BY <4>3, <4>4
    <3> QED
      BY <3>1, <3>2, <3>3
  <2>2. CASE stale' = stale \cup {p} /\ UNCHANGED held
    BY <2>2 DEF Ledgers
  <2> QED
    BY <2>1, <2>2 DEF ApplyResolution
<1>8. HeldTracksLedger'
  <2> SUFFICES ASSUME NEW q \in living, held'[q] # basis[q]
               PROVE  step'[q] = "state" \/ q \in stale'
    BY <1>1 DEF HeldTracksLedger
  <2>1. q \in Profiles
    BY DEF Basics
  <2>2. CASE q = p
    BY <1>7, <2>2
  <2>3. CASE q # p
    BY <1>3, <1>7, <2>1, <2>3 DEF Ledgers, HeldTracksLedger, Others
  <2> QED
    BY <2>2, <2>3
<1>9. ASSUME NEW q \in living, step'[q] = "state" PROVE Due(q)'
  <2>1. q \in Profiles /\ q # p
    BY <1>3, <1>9 DEF Basics
  <2>2. step[q] = "state" /\ next'[q] = next[q] /\ held'[q] = held[q] /\ (q \in stale <=> q \in stale')
    BY <1>3, <1>6, <1>7, <1>9, <2>1 DEF Others
  <2> QED
    BY <1>1, <2>2 DEF Ledgers, Due
<1>10. NoForeignFold'
  BY <1>1 DEF Ledgers, NoForeignFold
<1>11. Ledgers'
  BY <1>1, <1>6, <1>7, <1>8, <1>9, <1>10 DEF Ledgers
<1> QED
  BY <1>2, <1>3, <1>5, <1>11

(***************************************************************************)
(* Reports.                                                                *)
(***************************************************************************)

\* onUserEvent takes the next frame.
LEMMA ReceiveKeeps ==
  ASSUME IInv, NEW p \in Profiles, Receive(p) PROVE IInv'
<1> USE DEF IInv
<1> DEFINE t == Head(inbox[p])
           o == tape[t]
<1>1. /\ UNCHANGED <<active, living, place, store, tape, link, fill, queue, step, next, faults, stale>>
      /\ inbox[p] # <<>> /\ inbox' = [inbox EXCEPT ![p] = Tail(inbox[p])]
      /\ fees' = fees \cup {t} \/ fees' = fees
      /\ report' = [report EXCEPT ![p][o] = "row"] \/ report' = report
  BY DEF Receive, past
<1>2. inbox[p] \in Seq(Nat) /\ \A i \in 1..Len(inbox[p]) : inbox[p][i] \in DOMAIN tape
  BY DEF Inboxes
<1>3. t \in DOMAIN tape
  <2>1. 1 \in 1..Len(inbox[p]) /\ t = inbox[p][1]
    BY SMT, <1>1, <1>2
  <2> QED
    BY <1>2, <2>1
<1>4. o \in Orders /\ t \in LegsOf(o)
  BY <1>3, TapeDomain DEF Basics, LegsOf
<1>5. Tail(inbox[p]) \in Seq(Nat) /\ \A i \in 1..Len(Tail(inbox[p])) : Tail(inbox[p])[i] \in DOMAIN tape
  <2>1. Tail(inbox[p]) \in Seq(Nat) /\ Len(Tail(inbox[p])) = Len(inbox[p]) - 1 /\ Len(inbox[p]) \in Nat
        /\ \A i \in 1..Len(Tail(inbox[p])) : Tail(inbox[p])[i] = inbox[p][i + 1]
    BY SMT, <1>1, <1>2
  <2>2. \A i \in 1..Len(Tail(inbox[p])) : i + 1 \in 1..Len(inbox[p])
    BY SMT, <2>1
  <2> QED
    BY <1>2, <2>1, <2>2
<1>6. Inboxes'
  BY <1>1, <1>5, InboxSet
<1> HIDE DEF t, o
<1>7. Basics'
  BY <1>1, <1>3 DEF Basics, store
<1>8. Reports'
  <2>1. "row" \in Verdicts /\ LegsOf(o) # {}
    BY <1>4 DEF Verdicts
  <2> QED
    BY <1>1, <1>4, <2>1, ReportSet, ReportsSame
<1>9. Ledgers'
  BY <1>1, LedgersSame DEF Basics, store, SameState
<1> QED
  BY <1>1, <1>6, <1>7, <1>8, <1>9, BackfillsSame, ChainsSame

\* A verdict on a report: an own one joins the chain with a trade of its order.
LEMMA VerdictKeeps ==
  ASSUME Basics, Reports, Chains, UNCHANGED tape, NEW p \in Profiles, NEW o \in Orders, NEW v,
         LegsOf(o) # {}, Verdict(p, o, v)
  PROVE  Reports' /\ Chains' /\ SameState
<1>1. tape \in Seq(Orders) /\ LegsOf(o) \subseteq DOMAIN tape
  BY DEF Basics, LegsOf
<1>2. Reports'
  <2>1. \A w \in {"chain", "close", "done"} : w \in Verdicts
    BY DEF Verdicts, Done
  <2>2. PICK w \in {"chain", "close", "done"} : report' = [report EXCEPT ![p][o] = w]
    BY DEF Verdict
  <2> QED
    BY <2>1, <2>2, ReportSet
<1>3. Chains' /\ SameState
  <2>1. CASE v = "own"
    <3> DEFINE t == Max(LegsOf(o))
               e == Event(o, t, Legs[o], Take(o), "stream")
    <3>1. t \in DOMAIN tape /\ tape[t] = o
      BY <1>1, LastLeg
    <3>2. Legs[o] \in Nat
      BY FillsAssumption DEF FillsAssumption
    <3>3. Take(o) \in Nat
      <4>1. fees \cap LegsOf(o) \in SUBSET (DOMAIN tape)
        BY DEF LegsOf
      <4>2. IsFiniteSet(fees \cap LegsOf(o))
        BY <1>1, <4>1, TapeDomain, FS_Subset
      <4> QED
        BY <4>2, FS_CardinalityType DEF Take
    <3>4. e \in Call /\ e.kind = "adopt" /\ Sound(e)
      <4> DEFINE k == Take(o)
      <4>1. tape \in Seq(Orders) /\ k \in Nat /\ "stream" \in {"stream", "backfill"}
        BY <1>1, <3>3
      <4> HIDE DEF t, k
      <4>2. LET x == Event(o, t, Legs[o], k, "stream") IN x \in Call /\ x.kind = "adopt" /\ Sound(x)
        BY <3>1, <3>2, <4>1, EventType
      <4> QED
        BY <4>2 DEF k
    <3>5. Proper(p, e)
      <4> HIDE DEF e
      <4> QED
        BY <3>4 DEF Proper
    <3>6. Join(p, e)
      BY <2>1 DEF Verdict
    <3> HIDE DEF e
    <3> QED
      BY <3>4, <3>5, <3>6, JoinKeeps
  <2>2. CASE v # "own"
    BY <2>2, ChainsSame DEF Verdict, SameState
  <2> QED
    BY <2>1, <2>2
<1> QED
  BY <1>2, <1>3

\* The lookups that decide whose order a report is about.
LEMMA ClassifyKeeps ==
  ASSUME IInv, NEW p \in Profiles, NEW o \in Orders,
         ClassifyRow(p, o) \/ ClassifyUnrecorded(p, o)
  PROVE  IInv'
<1> USE DEF IInv
<1>1. /\ UNCHANGED <<active, living, place, store, tape, link, inbox, fees, fill, next, stale>>
      /\ report[p][o] \in {"row", "marker"}
      /\ \/ \E v : Verdict(p, o, v)
         \/ report' = [report EXCEPT ![p][o] = "marker"] /\ UNCHANGED <<queue, step>>
  <2>1. CASE ClassifyRow(p, o)
    BY <2>1 DEF ClassifyRow
  <2>2. CASE ClassifyUnrecorded(p, o)
    BY <2>2 DEF ClassifyUnrecorded
  <2> QED
    BY <2>1, <2>2
<1>2. LegsOf(o) # {}
  BY <1>1 DEF Reports
<1>3. Reports' /\ Chains' /\ SameState
  <2>1. CASE \E v : Verdict(p, o, v)
    BY <1>1, <1>2, <2>1, VerdictKeeps
  <2>2. CASE report' = [report EXCEPT ![p][o] = "marker"] /\ UNCHANGED <<queue, step>>
    <3>1. "marker" \in Verdicts
      BY DEF Verdicts
    <3> QED
      BY <1>1, <1>2, <2>2, <3>1, ReportSet, ChainsSame DEF SameState
  <2> QED
    BY <1>1, <2>1, <2>2
<1>4. Basics'
  BY <1>1 DEF Basics, store
<1>5. Ledgers'
  BY <1>1, <1>3, LedgersSame DEF Basics, store
<1> QED
  BY <1>1, <1>3, <1>4, <1>5, InboxesSame, BackfillsSame

\* reconcileDetachedFill closes the row of a deleted profile.
LEMMA CloseDetachedKeeps ==
  ASSUME IInv, NEW p \in Profiles, NEW o \in Orders, CloseDetached(p, o) PROVE IInv'
<1> USE DEF IInv
<1>1. /\ UNCHANGED <<active, living, place, marker, row, applied, basis, held, tape, link, inbox, fees,
                     fill, queue, step, next, past>>
      /\ report[p][o] = "close" /\ report' = [report EXCEPT ![p][o] = "done"]
      /\ closed' = closed \cup {o} \/ closed' = closed
  BY DEF CloseDetached
<1>2. LegsOf(o) # {} /\ "done" \in Verdicts
  BY <1>1 DEF Reports, Verdicts, Done
<1>3. Reports'
  BY <1>1, <1>2, ReportSet
<1>4. Basics'
  BY <1>1 DEF Basics
<1>5. Ledgers'
  BY <1>1, LedgersSame DEF Basics, past, SameState
<1> QED
  BY <1>1, <1>3, <1>4, <1>5, InboxesSame, BackfillsSame, ChainsSame

(***************************************************************************)
(* The backfill.                                                           *)
(***************************************************************************)

\* What a step of the backfill itself leaves alone.
LEMMA OnlyBackfill ==
  ASSUME IInv, Backfills',
         UNCHANGED <<active, living, place, store, tape, inbox, fees, report, queue, step, next, stale>>,
         link' \subseteq Profiles
  PROVE  IInv'
<1> USE DEF IInv
<1>1. Basics'
  BY DEF Basics, store
<1>2. Ledgers'
  BY LedgersSame DEF Basics, store, SameState
<1> QED
  BY <1>1, <1>2, InboxesSame, ReportsSame, ChainsSame

\* The reads of a backfill: reconnect, anchor and fetch.
LEMMA BackfillKeeps ==
  ASSUME IInv, NEW p \in Profiles, Reconnect(p) \/ Anchor(p) \/ Fetch(p) PROVE IInv'
<1>1. tape \in Seq(Orders) /\ fill[p] \in Mode /\ fill[p].anchor \in Nat
  BY DEF IInv, Basics, Backfills, Mode
<1>2. CASE Reconnect(p)
  <2>1. Backfills'
    <3>1. CASE p \in active
      <4>1. fill' = [fill EXCEPT ![p] = [fill[p] EXCEPT !.at = "anchor"]] /\ UNCHANGED tape
        BY <1>2, <3>1 DEF Reconnect
      <4>2. [fill[p] EXCEPT !.at = "anchor"]
              = [fill[p] EXCEPT !.at = "anchor", !.anchor = fill[p].anchor]
        BY <1>1 DEF Mode
      <4> QED
        BY <1>1, <4>1, <4>2, BackfillMoves DEF IInv
    <3>2. CASE p \notin active
      BY <1>2, <3>2, BackfillsSame DEF Reconnect, IInv
    <3> QED
      BY <3>1, <3>2
  <2>2. link' \subseteq Profiles
    BY <1>2 DEF Reconnect, IInv, Basics
  <2> QED
    BY <1>2, <2>1, <2>2, OnlyBackfill DEF Reconnect
<1>3. CASE Anchor(p)
  <2> DEFINE S == {0} \cup {a[2] : a \in applied[p]}
  <2>1. S \subseteq 0..Len(tape) /\ Len(tape) \in Nat /\ S \subseteq Nat
    <3>1. \A a \in applied[p] : a[2] \in DOMAIN tape
      BY DEF IInv, Ledgers
    <3> QED
      BY SMT, <1>1, <3>1, TapeDomain
  <2>2. Max(S) \in Nat
    <3>1. S # {}
      OBVIOUS
    <3> HIDE DEF S
    <3>2. Max(S) \in S
      BY <2>1, <3>1, MaxOf
    <3> QED
      BY <2>1, <3>2
  <2>3. fill' = [fill EXCEPT ![p] = [fill[p] EXCEPT !.at = "fetch", !.anchor = Max(S)]]
    BY <1>3 DEF Anchor
  <2> HIDE DEF S
  <2>4. Backfills'
    BY <1>3, <2>2, <2>3, BackfillMoves DEF Anchor, IInv
  <2> QED
    BY <1>3, <2>4, OnlyBackfill DEF Anchor, past, IInv, Basics
<1>4. CASE Fetch(p)
  <2> DEFINE f == [Off EXCEPT !.at = "loop", !.todo = Page(fill[p].anchor)]
  <2>1. /\ Page(fill[p].anchor) \in Seq(Call)
        /\ \A i \in 1..Len(Page(fill[p].anchor)) :
             Page(fill[p].anchor)[i].kind = "adopt" /\ Sound(Page(fill[p].anchor)[i])
    BY <1>1, PageType
  <2>2. f \in Mode /\ f.todo = Page(fill[p].anchor)
    BY <2>1, OffType DEF Mode
  <2>3. fill' = [fill EXCEPT ![p] = f] \/ fill' = [fill EXCEPT ![p] = Off]
    BY <1>4 DEF Fetch
  <2> HIDE DEF f
  <2>4. Backfills'
    BY SMT, <1>4, <2>1, <2>2, <2>3, BackfillSet, BackfillEnds DEF Fetch, IInv
  <2> QED
    BY <1>4, <2>4, OnlyBackfill DEF Fetch, IInv, Basics
<1> QED
  BY <1>2, <1>3, <1>4

\* A backfill hands the next order of its page to the adopter.
LEMMA ReplayKeeps ==
  ASSUME IInv, NEW p \in Profiles, Replay(p) PROVE IInv'
<1> USE DEF IInv
<1>1. /\ UNCHANGED <<active, living, place, store, tape, link, inbox, fees, report, next, faults, past>>
      /\ fill[p] \in Mode /\ fill[p].todo \in Seq(Call)
  BY DEF Replay, Backfills, Mode
<1>2. CASE fill[p].todo = <<>>
  <2>1. fill' = [fill EXCEPT ![p] = Off] /\ UNCHANGED <<queue, step>>
    BY <1>2 DEF Replay
  <2>2. Backfills'
    BY <1>1, <2>1, BackfillEnds
  <2> QED
    BY <1>1, <2>1, <2>2, OnlyBackfill DEF past, Basics
<1>3. CASE fill[p].todo # <<>>
  <2> DEFINE d == fill[p].todo
             f == [fill[p] EXCEPT !.at = "await", !.todo = Tail(d)]
  <2>1. fill' = [fill EXCEPT ![p] = f] /\ Join(p, Head(d))
    <3>1. Join(p, Head(d))
      BY <1>3 DEF Replay
    <3>2. fill' = [fill EXCEPT ![p].at = "await", ![p].todo = Tail(@)]
      BY <1>3 DEF Replay
    <3>3. fill' = [fill EXCEPT ![p] = f]
      BY <3>2
    <3> QED
      BY <3>1, <3>3
  <2>2. \A i \in 1..Len(d) : d[i].kind = "adopt" /\ Sound(d[i])
    BY DEF Backfills
  <2>3. d \in Seq(Call) /\ d # <<>>
    BY <1>1, <1>3
  <2>4. f \in Mode /\ f.todo = Tail(d)
    <3>1. Tail(d) \in Seq(Call)
      BY SMT, <2>3
    <3> QED
      BY <1>1, <3>1 DEF Mode
  <2> HIDE DEF d, f
  <2>5. Head(d) \in Call /\ Head(d).kind = "adopt" /\ Sound(Head(d))
    <3>1. Head(d) = d[1] /\ 1 \in 1..Len(d) /\ d[1] \in Call
      BY SMT, <2>3
    <3> QED
      BY <2>2, <3>1
  <2>6. \A i \in 1..Len(Tail(d)) : Tail(d)[i].kind = "adopt" /\ Sound(Tail(d)[i])
    <3>1. Len(Tail(d)) = Len(d) - 1 /\ Len(d) \in Nat /\ \A i \in 1..Len(Tail(d)) : Tail(d)[i] = d[i + 1]
      BY SMT, <2>3
    <3>2. \A i \in 1..Len(Tail(d)) : i + 1 \in 1..Len(d)
      BY SMT, <3>1
    <3> QED
      BY <2>2, <3>1, <3>2
  <2>7. Backfills'
    BY <1>1, <2>1, <2>4, <2>6, BackfillSet
  <2>8. Proper(p, Head(d))
    BY <2>5 DEF Proper
  <2>9. Chains' /\ SameState
    BY <1>1, <2>1, <2>5, <2>8, JoinKeeps
  <2>10. Basics'
    BY <1>1 DEF Basics, store
  <2>11. Ledgers'
    BY <1>1, <2>9, LedgersSame DEF Basics, store, past
  <2> QED
    BY <1>1, <2>7, <2>9, <2>10, <2>11, InboxesSame, ReportsSame
<1> QED
  BY <1>2, <1>3

(***************************************************************************)
(* The exchange, the operator and the faults.                              *)
(***************************************************************************)

\* The tape grows by one trade; what was said of the earlier trades stays true.
LEMMA TradeKeeps ==
  ASSUME IInv, NEW o \in Orders, Trade(o) PROVE IInv'
<1> USE DEF IInv
<1>1. /\ UNCHANGED <<active, living, place, store, link, fees, report, fill, queue, step, next, stale>>
      /\ tape' = Append(tape, o)
      /\ inbox' = [p \in Profiles |-> IF p \in link THEN Append(inbox[p], Len(tape')) ELSE inbox[p]]
  BY DEF Trade
<1>2. /\ tape \in Seq(Orders) /\ tape' \in Seq(Orders) /\ Len(tape) \in Nat
      /\ Len(tape') = Len(tape) + 1
      /\ \A t \in 1..Len(tape) : tape'[t] = tape[t]
  <2>1. tape \in Seq(Orders) /\ Len(tape) \in Nat
    BY SeqDomain DEF Basics
  <2> QED
    BY SMT, <1>1, <2>1, AppendProperties
<1>3. DOMAIN tape = 1..Len(tape) /\ DOMAIN tape' = 1..Len(tape')
  BY <1>2, SeqDomain
<1>4. DOMAIN tape \subseteq DOMAIN tape' /\ Len(tape') \in DOMAIN tape' /\ Len(tape') \in Nat
  BY SMT, <1>2, <1>3
<1>5. \A t \in DOMAIN tape : tape'[t] = tape[t]
  BY <1>2, <1>3
<1>6. \A c : Sound(c) => Sound(c)'
  BY <1>4, <1>5 DEF Sound
<1>7. \A x : LegsOf(x) \subseteq LegsOf(x)'
  BY <1>4, <1>5 DEF LegsOf
<1>8. Basics'
  BY <1>1, <1>2, <1>4 DEF Basics, store
<1>9. Inboxes'
  <2> SUFFICES ASSUME NEW p \in Profiles
               PROVE  inbox'[p] \in Seq(Nat) /\ \A i \in 1..Len(inbox'[p]) : inbox'[p][i] \in DOMAIN tape'
    BY <1>1 DEF Inboxes
  <2>1. inbox[p] \in Seq(Nat) /\ \A i \in 1..Len(inbox[p]) : inbox[p][i] \in DOMAIN tape'
    BY <1>4 DEF Inboxes
  <2>2. CASE p \notin link
    BY <1>1, <2>1, <2>2
  <2>3. CASE p \in link
    <3>1. inbox'[p] = Append(inbox[p], Len(tape'))
      BY <1>1, <2>3
    <3>2. DOMAIN tape' \subseteq Nat
      BY SMT, <1>3
    <3> QED
      BY SMT, <1>4, <2>1, <3>1, <3>2, AppendWithin
  <2> QED
    BY <2>2, <2>3
<1>10. Reports'
  BY <1>1, <1>7 DEF Reports
<1>11. Backfills'
  BY <1>1, <1>6 DEF Backfills
<1>12. \A p, c : Proper(p, c) => Proper(p, c)'
  BY <1>6 DEF Proper
<1>13. Chains'
  BY <1>1, <1>12 DEF Chains
<1>14. Ledgers'
  <2>1. NoForeignFold' /\ HeldTracksLedger' /\ \A q \in living : step[q] = "state" => Due(q)'
    BY <1>1 DEF Ledgers, NoForeignFold, HeldTracksLedger, Due, store
  <2> QED
    BY <1>1, <1>4, <2>1 DEF Ledgers, store
<1> QED
  BY <1>8, <1>9, <1>10, <1>11, <1>13, <1>14

\* The stream drops with the frames on their way.
LEMMA DisconnectKeeps ==
  ASSUME IInv, NEW p \in Profiles, Disconnect(p) PROVE IInv'
<1> USE DEF IInv
<1>1. /\ UNCHANGED <<active, living, place, store, tape, fees, report, fill, queue, step, next, stale>>
      /\ link' \subseteq Profiles /\ inbox' = [inbox EXCEPT ![p] = <<>>]
  BY DEF Disconnect, Basics
<1>2. Basics'
  BY <1>1 DEF Basics, store
<1>3. Inboxes'
  <2>1. inbox' \in [Profiles -> Seq(Nat)] /\ inbox'[p] = <<>>
        /\ \A q \in Profiles : q # p => inbox'[q] = inbox[q]
    BY SMT, <1>1 DEF Inboxes
  <2>2. \A i \in 1..Len(<<>>) : FALSE
    BY SMT
  <2> QED
    BY <1>1, <2>1, <2>2 DEF Inboxes
<1>4. Ledgers'
  BY <1>1, LedgersSame DEF Basics, store, SameState
<1> QED
  BY <1>1, <1>2, <1>3, <1>4, ReportsSame, BackfillsSame, ChainsSame

\* A terminal report is delivered once more.
LEMMA RedeliverKeeps ==
  ASSUME IInv, NEW p \in Profiles, NEW o \in Orders, Redeliver(p, o) PROVE IInv'
<1> USE DEF IInv
<1> DEFINE t == Max(LegsOf(o))
           b == Append(inbox[p], t)
<1>1. /\ UNCHANGED <<active, living, place, store, tape, link, fees, fill, queue, step, next, past>>
      /\ report[p][o] = "done" /\ report' = [report EXCEPT ![p][o] = "none"]
      /\ inbox' = [inbox EXCEPT ![p] = b]
  BY DEF Redeliver
<1>2. LegsOf(o) # {} /\ "none" \in Verdicts
  BY <1>1 DEF Reports, Verdicts, Done
<1>3. Reports'
  BY <1>1, <1>2, ReportSet
<1>4. t \in DOMAIN tape /\ t \in Nat
  BY <1>2, LastLeg DEF Basics
<1> HIDE DEF t
<1>5. inbox[p] \in Seq(Nat) /\ \A i \in 1..Len(inbox[p]) : inbox[p][i] \in DOMAIN tape
  BY DEF Inboxes
<1>6. DOMAIN tape \subseteq Nat
  BY SMT, TapeDomain DEF Basics
<1>7. b \in Seq(Nat) /\ \A i \in 1..Len(b) : b[i] \in DOMAIN tape
  BY <1>4, <1>5, <1>6, AppendWithin
<1> HIDE DEF b
<1>8. Inboxes'
  BY <1>1, <1>7, InboxSet
<1>9. Basics'
  BY <1>1 DEF Basics, store
<1>10. Ledgers'
  BY <1>1, LedgersSame DEF Basics, store, past, SameState
<1> QED
  BY <1>1, <1>3, <1>8, <1>9, <1>10, BackfillsSame, ChainsSame

\* A profile is enabled or disabled.
LEMMA FlipKeeps ==
  ASSUME IInv, NEW p \in Profiles, Flip(p) PROVE IInv'
<1> USE DEF IInv
<1>1. /\ UNCHANGED <<living, place, store, tape, link, inbox, fees, report, fill, queue, step, next, past>>
      /\ active' \subseteq Profiles
  BY DEF Flip, Basics
<1>2. Basics'
  BY <1>1 DEF Basics, store
<1>3. Ledgers'
  BY <1>1, LedgersSame DEF Basics, store, past, SameState
<1> QED
  BY <1>1, <1>2, <1>3, InboxesSame, ReportsSame, BackfillsSame, ChainsSame

\* The profile's rows are detached and its ledger goes; the others keep theirs.
LEMMA DeleteKeeps ==
  ASSUME IInv, NEW p \in Profiles, Delete(p) PROVE IInv'
<1> USE DEF IInv
<1>1. /\ UNCHANGED <<place, marker, closed, tape, link, inbox, fees, report, fill, queue, step, next, past>>
      /\ living' = living \ {p} /\ active' = active \ {p}
      /\ row' = [o \in Orders |-> IF row[o] = p THEN Gone ELSE row[o]]
      /\ applied' = [applied EXCEPT ![p] = {}]
      /\ basis' = [basis EXCEPT ![p] = 0]
      /\ held' = [held EXCEPT ![p] = 0]
  BY DEF Delete
<1>2. Gone \notin Profiles
  BY FillsAssumption DEF FillsAssumption
<1>3. Basics'
  BY <1>1, <1>2 DEF Basics
<1>4. /\ applied' \in [Profiles -> SUBSET (Orders \X Nat)] /\ applied'[p] = {}
      /\ \A q \in Profiles : q # p => applied'[q] = applied[q]
  BY <1>1 DEF Ledgers
<1>5. basis' \in [Profiles -> Nat] /\ \A q \in Profiles : q # p => basis'[q] = basis[q]
  BY <1>1 DEF Ledgers
<1>6. held' \in [Profiles -> Nat] /\ \A q \in Profiles : q # p => held'[q] = held[q]
  BY <1>1 DEF Ledgers
<1>7. NoForeignFold'
  BY <1>4 DEF Ledgers, NoForeignFold
<1>8. \A q \in Profiles : \A a \in applied'[q] : a[2] \in DOMAIN tape'
  BY <1>1, <1>4 DEF Ledgers
<1>9. ASSUME NEW q \in living'
      PROVE  q \in living /\ q \in Profiles /\ basis'[q] = basis[q] /\ held'[q] = held[q]
  BY <1>1, <1>5, <1>6 DEF Basics
<1>10. HeldTracksLedger'
  BY <1>1, <1>9 DEF Ledgers, HeldTracksLedger, past
<1>11. \A q \in living' : step'[q] = "state" => Due(q)'
  BY <1>1, <1>9 DEF Ledgers, Due, past
<1>12. Ledgers'
  BY <1>1, <1>4, <1>5, <1>6, <1>7, <1>8, <1>10, <1>11 DEF Ledgers
<1> QED
  BY <1>1, <1>3, <1>12, InboxesSame, ReportsSame, BackfillsSame, ChainsSame

\* The chains after a crash are empty.
LEMMA Quiet ==
  /\ \A S : <<>> \in Seq(S)
  /\ \A i \in 1..Len(<<>>) : FALSE
  /\ Noop \in Nat \cup {Noop}
BY SMT

\* A crash between the transaction and the slice write marks the profile stale.
LEMMA CrashKeeps ==
  ASSUME IInv, Crash PROVE IInv'
<1> USE DEF IInv
<1>1. /\ UNCHANGED <<active, living, store, tape>> /\ link' = {} /\ fees' = {}
      /\ inbox' = [p \in Profiles |-> <<>>] /\ fill' = [p \in Profiles |-> Off]
      /\ queue' = [p \in Profiles |-> <<>>] /\ step' = [p \in Profiles |-> "idle"]
      /\ next' = [p \in Profiles |-> Noop]
      /\ stale' = stale \cup {p \in Profiles : step[p] = "state"}
  BY DEF Crash
<1>2. Basics'
  BY <1>1 DEF Crash, Basics, store
<1>3. Inboxes' /\ Chains'
  BY <1>1, Quiet DEF Inboxes, Chains
<1>4. Reports'
  <2>1. report' = [p \in Profiles |-> [o \in Orders |-> IF report[p][o] = "none" THEN "none" ELSE "done"]]
    BY DEF Crash
  <2>2. \A x \in Orders : LegsOf(x)' = LegsOf(x)
    BY <1>1 DEF LegsOf
  <2> QED
    BY <2>1, <2>2 DEF Reports, Verdicts, Done
<1>5. Backfills'
  <2>1. \A i \in 1..Len(<<>>) : FALSE
    BY SMT
  <2>2. \A p \in Profiles : fill'[p].todo = <<>>
    BY <1>1, OffType
  <2>3. fill' \in [Profiles -> Mode]
    BY <1>1, OffType
  <2> QED
    BY <2>1, <2>2, <2>3 DEF Backfills
<1>6. HeldTracksLedger'
  BY <1>1 DEF Ledgers, HeldTracksLedger, Basics, store
<1>7. Ledgers'
  BY <1>1, <1>6 DEF Ledgers, NoForeignFold, Basics, store
<1> QED
  BY <1>2, <1>3, <1>4, <1>5, <1>7

\* Every step keeps the invariant.
LEMMA StepKeeps == IInv /\ [Next]_vars => IInv'
<1> SUFFICES ASSUME IInv, [Next]_vars PROVE IInv'
  OBVIOUS
<1>1. CASE UNCHANGED vars
  <2>1. Basics' /\ Inboxes' /\ Reports' /\ Backfills' /\ Chains'
    BY <1>1, InboxesSame, ReportsSame, BackfillsSame, ChainsSame DEF IInv, vars, Basics, store
  <2>2. Ledgers'
    BY <1>1, LedgersSame DEF IInv, vars, store, past, SameState, Basics
  <2> QED
    BY <2>1, <2>2 DEF IInv
<1>2. ASSUME NEW p \in Profiles, Work(p) PROVE IInv'
  BY <1>2, SendKeeps, PersistKeeps, AdoptKeeps, ApplyKeeps, ReceiveKeeps, ClassifyKeeps,
     CloseDetachedKeeps, BackfillKeeps, ReplayKeeps DEF Work
<1>3. ASSUME NEW p \in Profiles, Disconnect(p) \/ Flip(p) \/ Delete(p) PROVE IInv'
  BY <1>3, DisconnectKeeps, FlipKeeps, DeleteKeeps
<1> QED
  BY <1>1, <1>2, <1>3, TickKeeps, RedeliverKeeps, TradeKeeps, CrashKeeps DEF Next

\* The invariant holds at the start.
LEMMA InitHolds == Init => IInv
<1> SUFFICES ASSUME Init PROVE IInv
  OBVIOUS
<1>1. Basics
  BY SMT, FillsAssumption DEF Init, Basics, FillsAssumption
<1>2. Inboxes /\ Chains
  BY Quiet DEF Init, Inboxes, Chains
<1>3. Reports
  BY DEF Init, Reports, Verdicts, Done
<1>4. Backfills
  <2>1. \A i \in 1..Len(<<>>) : FALSE
    BY SMT
  <2>2. \A p \in Profiles : fill[p].todo = <<>>
    BY OffType DEF Init
  <2>3. fill \in [Profiles -> Mode]
    BY OffType DEF Init
  <2> QED
    BY <2>1, <2>2, <2>3 DEF Backfills
<1>5. Ledgers
  BY FillsAssumption DEF Init, Ledgers, NoForeignFold, HeldTracksLedger, FillsAssumption
<1> QED
  BY <1>1, <1>2, <1>3, <1>4, <1>5 DEF IInv

\* The invariant always holds.
LEMMA InvariantHolds == Spec => []IInv
BY InitHolds, StepKeeps, PTL DEF Spec

(***************************************************************************)
(* The theorems.                                                           *)
(***************************************************************************)

\* Every variable stays in its domain: applied_fills only names trades of the account,
\* a chain is idle exactly when it is empty, and no ledger or slice quantity is negative,
\* whatever fees, partial fills and replays are folded.
THEOREM FillsTypes == Spec => []TypeOK
<1>1. IInv => TypeOK
  <2> SUFFICES ASSUME IInv PROVE TypeOK
    OBVIOUS
  <2> USE DEF IInv
  <2>1. \A t \in DOMAIN tape : tape[t] \in Orders
    BY TapeDomain DEF Basics
  <2>2. ASSUME NEW p \in Profiles PROVE applied[p] \subseteq Orders \X DOMAIN tape
    BY SMT DEF Ledgers
  <2>3. ASSUME NEW p \in Profiles PROVE fill[p].at \in {"off", "anchor", "fetch", "loop", "await"}
    BY DEF Backfills, Mode
  <2> QED
    BY <2>1, <2>2, <2>3 DEF TypeOK, Basics, Reports, Verdicts, Chains, Ledgers
<1> QED
  BY <1>1, InvariantHolds, PTL

\* fill-adopter.ts, the origin gate of adopt(): no profile's ledger ever absorbs a fill of
\* an order another profile, a hand or a deleted profile placed, whatever the router's
\* verdict was when the report was classified and whatever pages a backfill replays.
THEOREM FillsNoForeignFold == Spec => []NoForeignFold
BY InvariantHolds, PTL DEF IInv, Ledgers

\* fill-adopter.ts, adopt() and applyResolution(): the strategy slice is the ledger's
\* quantity except between the transaction and the slice write, and after a slice write
\* that failed or was cut off.
THEOREM FillsHeldTracksLedger == Spec => []HeldTracksLedger
BY InvariantHolds, PTL DEF IInv, Ledgers
================================================================================
