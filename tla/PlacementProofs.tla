--------------------------- MODULE PlacementProofs ---------------------------
(***************************************************************************)
(* What resolveAmbiguousPlacement concludes is true for every window,      *)
(* margin, receive window and number of orders, faults and re-signings: an *)
(* attempt declared rejected at a known signing instant never lands, and   *)
(* one declared accepted is the order it asked about.  The guard           *)
(* suppresses only what it saw, and no single fault makes the handler and  *)
(* the guard fill an entry twice within the window.                        *)
(***************************************************************************)
EXTENDS Placement, TLAPS

\* Most leaves are first-order; the ones with arithmetic or records name SMT.
USE Zenon

Entry == [side : Sides, verdict : Verdicts, stamped : BOOLEAN, alone : BOOLEAN]
Ticket == [pc : Pcs, called : Nat, signed : Nat \cup {Never}]

Shape ==
  /\ now \in Nat /\ lag \in Nat /\ lag < Margin
  /\ tick \in Ticket
  /\ log \in Seq(Entry)
  /\ wire \subseteq [n : Nat, signed : Nat]
  /\ book \subseteq [n : Nat, time : Int]

\* An attempt has at most one request on its way, and none once it has landed.
Numbered ==
  /\ \A r \in wire : r.n \in 1..Current
  /\ \A o \in book : o.n \in 1..Current
  /\ \A r, s \in wire : r.n = s.n => r = s
  /\ \A r \in wire : \A o \in book : r.n # o.n

\* The stages in which the running attempt has no verdict yet.
Waiting == {"dedup", "call", "wire", "probe", "sleep"}

\* The tick knows when its request was signed, and that there is none before.
Running ==
  /\ tick.pc \in Waiting => Current >= 1 /\ log[Current].verdict = "none"
  /\ tick.pc \in {"idle", "dedup", "call"} => tick.signed = Never
  /\ tick.pc \in Waiting => \A r \in wire : r.n = Current => r.signed = tick.signed
  /\ tick.pc \in Waiting /\ tick.signed = Never => ~InBook(Current)
  /\ tick.pc \in Waiting /\ tick.pc # "dedup" =>
       tick.called <= now /\ (tick.signed # Never => tick.called <= tick.signed)

\* When the attempt began.
Since == IF tick.pc = "dedup" THEN now ELSE tick.called

\* An attempt that began alone stays alone: whatever else is on the book is older.
Alone ==
  tick.pc \in Waiting /\ log[Current].alone =>
    /\ \A r \in wire : r.n # Current => ~Landable(r)
    /\ \A o \in book : o.n # Current => o.time < Since

\* A rejected attempt has not landed, and nothing of it can land any more.
Dead ==
  \A n \in 1..Current : log[n].verdict = "rejected" /\ log[n].stamped =>
    ~InBook(n) /\ \A r \in wire : r.n = n => ~Landable(r)

IInv == Shape /\ Numbered /\ Running /\ Alone /\ Dead /\ AcceptedIsThisOrder

-----------------------------------------------------------------------------
\* A verdict changes one field of the last entry.
LEMMA VerdictStep ==
  ASSUME log \in Seq(Entry), Current >= 1, NEW v \in Verdicts, Verdict(v)
  PROVE  /\ log' \in Seq(Entry) /\ Current' = Current
         /\ \A n \in 1..Current : n # Current => log'[n] = log[n]
         /\ log'[Current].verdict = v
         /\ log'[Current].stamped = log[Current].stamped
         /\ log'[Current].alone = log[Current].alone
         /\ log'[Current].side = log[Current].side
<1>1. Current \in 1..Len(log) /\ log[Current] \in Entry
  BY SMT DEF Current
<1>2. [log[Current] EXCEPT !.verdict = v] \in Entry
  BY <1>1 DEF Entry
<1>3. log' = [log EXCEPT ![Current] = [log[Current] EXCEPT !.verdict = v]]
  BY DEF Verdict
<1>4. log' \in Seq(Entry) /\ Len(log') = Len(log)
  BY SMT, <1>1, <1>2, <1>3
<1>5. log'[Current] = [log[Current] EXCEPT !.verdict = v]
  BY SMT, <1>1, <1>3
<1>6. \A n \in 1..Current : n # Current => log'[n] = log[n]
  BY SMT, <1>1, <1>3 DEF Current
<1>7. /\ log'[Current].verdict = v
      /\ log'[Current].stamped = log[Current].stamped
      /\ log'[Current].alone = log[Current].alone
      /\ log'[Current].side = log[Current].side
  BY <1>1, <1>5 DEF Entry
<1> QED
  BY <1>4, <1>6, <1>7 DEF Current

\* What cannot land now cannot land later.
LEMMA LandableLater ==
  ASSUME Shape, now' \in Nat, now' >= now, lag' = lag, NEW r \in wire, ~Landable(r),
         PlacementAssumption
  PROVE  ~(now' - lag' - r.signed <= Recv)
<1>1. r.signed \in Nat /\ now \in Nat /\ lag \in Nat /\ Recv \in Nat
  BY DEF Shape, PlacementAssumption
<1> QED
  BY SMT, <1>1 DEF Landable

\* Steps of the tick, and of time, that leave the attempts and the exchange alone.
LEMMA Frame ==
  ASSUME IInv, UNCHANGED <<lag, log, wire, book>>, now' \in Nat, now' >= now,
         tick' \in Ticket, PlacementAssumption
  PROVE  Shape' /\ Numbered' /\ Dead' /\ AcceptedIsThisOrder'
<1>1. Shape' /\ Numbered'
  BY DEF IInv, Shape, Numbered, Current
<1>2. Dead'
  <2> SUFFICES ASSUME NEW n \in 1..Current, log[n].verdict = "rejected", log[n].stamped
               PROVE  ~InBook(n) /\ \A r \in wire : r.n = n => ~(now' - lag' - r.signed <= Recv)
    BY DEF Dead, Current, InBook, Landable
  <2> QED
    BY LandableLater DEF IInv, Dead
<1>3. AcceptedIsThisOrder'
  BY DEF IInv, AcceptedIsThisOrder, Current, InBook
<1> QED
  BY <1>1, <1>2, <1>3

\* The tick reaches a stage in which its attempt has its verdict, or none runs.
LEMMA Rests ==
  ASSUME IInv, UNCHANGED <<now, lag, log, wire, book>>, tick' \in Ticket,
         tick'.pc \notin Waiting, tick'.pc = "idle" => tick'.signed = Never,
         PlacementAssumption
  PROVE  IInv'
<1>1. now' \in Nat /\ now' >= now
  BY SMT DEF IInv, Shape
<1>2. Shape' /\ Numbered' /\ Dead' /\ AcceptedIsThisOrder'
  BY <1>1, Frame
<1>3. Running' /\ Alone'
  BY DEF Running, Alone, Waiting
<1> QED
  BY <1>2, <1>3 DEF IInv

\* The running attempt gets its verdict.
LEMMA Settles ==
  ASSUME IInv, PlacementAssumption, tick.pc \in Waiting, NEW v \in Verdicts, Verdict(v),
         UNCHANGED <<now, lag, book>>, wire' \subseteq wire,
         tick' \in Ticket, tick'.pc \in {"record", "commit"},
         v = "rejected" /\ log[Current].stamped =>
           ~InBook(Current) /\ \A r \in wire' : r.n = Current => ~Landable(r),
         v \in {"ok", "accepted"} /\ log[Current].alone => InBook(Current)
  PROVE  IInv'
<1>1. log \in Seq(Entry) /\ Current >= 1 /\ Current \in Nat
  BY SMT DEF IInv, Shape, Running, Current
<1>2. /\ log' \in Seq(Entry) /\ Current' = Current
      /\ \A n \in 1..Current : n # Current => log'[n] = log[n]
      /\ log'[Current].verdict = v
      /\ log'[Current].stamped = log[Current].stamped
      /\ log'[Current].alone = log[Current].alone
  BY <1>1, VerdictStep
<1>3. Shape'
  BY <1>2 DEF IInv, Shape
<1>4. Numbered'
  BY <1>2 DEF IInv, Numbered
<1>5. Running' /\ Alone'
  BY DEF Running, Alone, Waiting
<1>6. Dead'
  <2> SUFFICES ASSUME NEW n \in 1..Current, log'[n].verdict = "rejected", log'[n].stamped
               PROVE  ~InBook(n) /\ \A r \in wire' : r.n = n => ~Landable(r)
    BY <1>2 DEF Dead, InBook, Landable
  <2>1. CASE n = Current
    BY <1>2, <2>1
  <2>2. CASE n # Current
    BY <1>2, <2>2 DEF IInv, Dead
  <2> QED
    BY <2>1, <2>2
<1>7. AcceptedIsThisOrder'
  <2> SUFFICES ASSUME NEW n \in 1..Current, log'[n].verdict \in {"ok", "accepted"}, log'[n].alone
               PROVE  InBook(n)
    BY <1>2 DEF AcceptedIsThisOrder, InBook
  <2>1. CASE n = Current
    BY <1>2, <2>1
  <2>2. CASE n # Current
    BY <1>2, <2>2 DEF IInv, AcceptedIsThisOrder
  <2> QED
    BY <2>1, <2>2
<1> QED
  BY <1>3, <1>4, <1>5, <1>6, <1>7 DEF IInv

\* The tick moves between stages without a verdict.
LEMMA Goes ==
  ASSUME IInv, PlacementAssumption, tick.pc \in Waiting, tick' \in Ticket,
         UNCHANGED <<now, lag, log, wire, book>>,
         tick'.pc \in {"call", "probe", "sleep"}, tick'.signed = tick.signed,
         tick'.pc = "call" => tick.signed = Never,
         \/ tick.pc = "dedup" /\ tick'.called = now
         \/ tick.pc # "dedup" /\ tick'.called = tick.called
  PROVE  IInv'
<1>1. now \in Nat /\ now' \in Nat /\ now' >= now /\ tick.pc \in Pcs
  BY SMT DEF IInv, Shape, Ticket
<1>2. Shape' /\ Numbered' /\ Dead' /\ AcceptedIsThisOrder'
  BY <1>1, Frame
<1>3. tick'.pc \in Waiting /\ tick'.pc # "dedup" /\ tick'.pc # "idle"
  BY DEF Waiting
<1>4. tick.pc = "dedup" => tick.signed = Never
  BY DEF IInv, Running
<1>5. tick'.called <= now /\ (tick'.signed # Never => tick'.called <= tick'.signed)
  BY <1>1, <1>4 DEF IInv, Running
<1>6. Running'
  BY <1>3, <1>5 DEF IInv, Running, Current, InBook
<1>7. Since' = Since
  BY <1>3 DEF Since
<1>8. Alone'
  BY <1>3, <1>7 DEF IInv, Alone, Current, Landable
<1> QED
  BY <1>2, <1>6, <1>8 DEF IInv

\* The invariant holds at the start.
LEMMA InitIInv == ASSUME PlacementAssumption, Init PROVE IInv
<1>1. Shape
  BY SMT DEF Init, Shape, Ticket, Idle, Pcs, Never, PlacementAssumption
<1>2. Len(log) = 0
  BY DEF Init
<1>3. Numbered /\ Dead /\ AcceptedIsThisOrder
  BY SMT, <1>2 DEF Init, Numbered, Dead, AcceptedIsThisOrder, Current
<1>4. Running /\ Alone
  BY DEF Init, Running, Alone, Waiting, Idle
<1> QED
  BY <1>1, <1>3, <1>4 DEF IInv

\* A tick places an order.
LEMMA EmitKeeps ==
  ASSUME IInv, PlacementAssumption, NEW side \in Sides, Emit(side)
  PROVE  IInv'
<1> DEFINE e == [side |-> side, verdict |-> "none", stamped |-> TRUE,
                 alone |-> \A r \in wire : ~Landable(r)]
<1>1. log \in Seq(Entry) /\ now \in Nat /\ e \in Entry
  BY DEF IInv, Shape, Entry, Verdicts
<1>2. UNCHANGED <<now, lag, wire, book>> /\ log' = Append(log, e) /\ tick.pc = "idle"
      /\ \A o \in book : o.time < now
  BY DEF Emit, At, exchange
<1>3. log' \in Seq(Entry) /\ Current \in Nat /\ Current' = Current + 1
      /\ log'[Current'] = e /\ \A n \in 1..Current : log'[n] = log[n]
  BY SMT, <1>1, <1>2 DEF Current
<1>4. tick' \in Ticket /\ tick'.pc = "dedup" /\ tick'.signed = Never
  BY <1>2 DEF Emit, IInv, Shape, Running, Ticket, Pcs
<1>5. Shape'
  BY <1>2, <1>3, <1>4 DEF IInv, Shape
<1>6. Numbered'
  BY SMT, <1>2, <1>3 DEF IInv, Numbered
<1>7. (\A r \in wire : r.n # Current') /\ (\A o \in book : o.n # Current')
  BY SMT, <1>3 DEF IInv, Numbered
<1>8. Running'
  <2>1. Current' >= 1 /\ log'[Current'].verdict = "none" /\ ~InBook(Current)'
    <3>1. Current' >= 1 /\ log'[Current'].verdict = "none"
      BY SMT, <1>3
    <3>2. \A o \in book' : o.n # Current'
      BY <1>2, <1>7
    <3> QED
      BY <3>1, <3>2 DEF InBook
  <2>2. \A r \in wire' : r.n = Current' => r.signed = tick'.signed
    BY <1>2, <1>7
  <2> QED
    BY <1>4, <2>1, <2>2 DEF Running
<1>9. Alone'
  <2>1. log'[Current'].alone => \A r \in wire : ~Landable(r)
    BY SMT, <1>3
  <2>2. Since' = now
    BY <1>2, <1>4 DEF Since
  <2>3. log'[Current'].alone => \A r \in wire' : ~Landable(r)'
    BY <1>2, <2>1 DEF Landable
  <2>4. \A o \in book' : o.time < Since'
    BY <1>2, <2>2
  <2> QED
    BY <2>3, <2>4 DEF Alone
<1>10. Dead'
  <2> SUFFICES ASSUME NEW n \in 1..Current', log'[n].verdict = "rejected", log'[n].stamped
               PROVE  ~InBook(n) /\ \A r \in wire : r.n = n => ~Landable(r)
    BY <1>2 DEF Dead, InBook, Landable
  <2>1. n # Current'
    BY SMT, <1>3
  <2> QED
    BY SMT, <1>3, <2>1 DEF IInv, Dead
<1>11. AcceptedIsThisOrder'
  <2> SUFFICES ASSUME NEW n \in 1..Current', log'[n].verdict \in {"ok", "accepted"}, log'[n].alone
               PROVE  InBook(n)
    BY <1>2 DEF AcceptedIsThisOrder, InBook
  <2>1. n # Current'
    BY SMT, <1>3
  <2> QED
    BY SMT, <1>3, <2>1 DEF IInv, AcceptedIsThisOrder
<1> QED
  BY <1>5, <1>6, <1>8, <1>9, <1>10, <1>11 DEF IInv

\* A request of the running attempt goes out, in place of the one it had.
LEMMA Sends ==
  ASSUME IInv, PlacementAssumption, tick.pc \in {"call", "wire"}, ~InBook(Current),
         wire' = (wire \ Mine) \cup {[n |-> Current, signed |-> now]},
         tick' = [tick EXCEPT !.pc = "wire", !.signed = now],
         UNCHANGED <<now, lag, book>>,
         log' \in Seq(Entry), Current' = Current,
         \A n \in 1..Current : log'[n].verdict = log[n].verdict /\ log'[n].alone = log[n].alone,
         \A n \in 1..Current : n # Current => log'[n] = log[n]
  PROVE  IInv'
<1> DEFINE q == [n |-> Current, signed |-> now]
<1>1. now \in Nat /\ tick \in Ticket /\ tick.pc \in Waiting /\ tick.pc # "dedup"
  BY DEF IInv, Shape, Waiting
<1>2. Current \in Nat /\ Current >= 1 /\ log[Current].verdict = "none" /\ tick.called <= now
  BY SMT, <1>1 DEF IInv, Shape, Running, Current
<1>3. tick' \in Ticket /\ tick'.pc = "wire" /\ tick'.signed = now /\ tick'.called = tick.called
  BY <1>1 DEF Ticket, Pcs
<1>4. \A r \in wire' : r = q \/ (r \in wire /\ r.n # Current)
  BY DEF Mine
<1>5. Shape'
  BY SMT, <1>1, <1>2, <1>3 DEF IInv, Shape
<1>6. Numbered'
  <2>1. (\A r \in wire' : r.n \in 1..Current) /\ (\A o \in book : o.n \in 1..Current)
    BY SMT, <1>2, <1>4 DEF IInv, Numbered
  <2>2. \A r, t \in wire' : r.n = t.n => r = t
    BY SMT, <1>4 DEF IInv, Numbered
  <2>3. \A r \in wire' : \A o \in book : r.n # o.n
    BY SMT, <1>4 DEF IInv, Numbered, InBook
  <2> QED
    BY <2>1, <2>2, <2>3 DEF Numbered
<1>7. Running'
  <2>1. \A r \in wire' : r.n = Current => r.signed = now
    BY SMT, <1>4
  <2>2. log'[Current].verdict = "none" /\ now # Never
    BY SMT, <1>1, <1>2 DEF Never
  <2> QED
    BY <1>1, <1>2, <1>3, <2>1, <2>2 DEF Running
<1>8. Alone'
  <2> SUFFICES ASSUME log[Current].alone
               PROVE  /\ \A r \in wire' : r.n # Current => ~Landable(r)
                      /\ \A o \in book : o.n # Current => o.time < tick.called
    BY SMT, <1>2, <1>3 DEF Alone, Since, Landable
  <2>1. /\ \A r \in wire : r.n # Current => ~Landable(r)
        /\ \A o \in book : o.n # Current => o.time < tick.called
    BY <1>1 DEF IInv, Alone, Since
  <2> QED
    BY SMT, <1>4, <2>1
<1>9. Dead'
  <2> SUFFICES ASSUME NEW n \in 1..Current, log'[n].verdict = "rejected", log'[n].stamped
               PROVE  ~InBook(n) /\ \A r \in wire' : r.n = n => ~Landable(r)
    BY DEF Dead, InBook, Landable
  <2>1. n # Current /\ log'[n] = log[n]
    BY <1>2
  <2>2. ~InBook(n) /\ \A r \in wire : r.n = n => ~Landable(r)
    BY <2>1 DEF IInv, Dead
  <2> QED
    BY SMT, <1>4, <2>1, <2>2
<1>10. AcceptedIsThisOrder'
  BY DEF IInv, AcceptedIsThisOrder, InBook
<1> QED
  BY <1>5, <1>6, <1>7, <1>8, <1>9, <1>10 DEF IInv

\* A request reaches the exchange.
LEMMA LandKeeps ==
  ASSUME IInv, PlacementAssumption, Land
  PROVE  IInv'
<1> PICK r \in wire : /\ Landable(r)
                      /\ wire' = wire \ {r}
                      /\ book' = book \cup {[n |-> r.n, time |-> now - lag]}
                      /\ UNCHANGED <<now, lag, tick, log>>
  BY DEF Land
<1> DEFINE b == [n |-> r.n, time |-> now - lag]
<1>1. r.n \in Nat /\ r.signed \in Nat /\ now \in Nat /\ lag \in Nat /\ Current' = Current
  BY DEF IInv, Shape, Current
<1>2. \A o \in book' : o \in book \/ o = b
  OBVIOUS
<1>3. Shape'
  BY SMT, <1>1 DEF IInv, Shape
<1>4. Numbered'
  <2>1. (\A t \in wire' : t.n \in 1..Current) /\ (\A o \in book' : o.n \in 1..Current)
    BY SMT, <1>2 DEF IInv, Numbered
  <2>2. \A t \in wire' : \A o \in book' : t.n # o.n
    BY SMT, <1>2 DEF IInv, Numbered
  <2> QED
    BY <1>1, <2>1, <2>2 DEF IInv, Numbered
<1>5. Running'
  <2>1. ASSUME tick.pc \in Waiting, tick.signed = Never PROVE ~InBook(Current)'
    <3>1. r.n # Current
      BY SMT, <1>1, <2>1 DEF IInv, Running, Never
    <3>2. \A o \in book : o.n # Current
      BY <2>1 DEF IInv, Running, InBook
    <3> QED
      BY SMT, <1>1, <1>2, <3>1, <3>2 DEF InBook
  <2>2. tick.pc \in Waiting => \A t \in wire' : t.n = Current => t.signed = tick.signed
    BY DEF IInv, Running
  <2> QED
    BY <1>1, <2>1, <2>2 DEF IInv, Running
<1>6. Alone'
  <2> SUFFICES ASSUME tick.pc \in Waiting, log[Current].alone
               PROVE  /\ \A t \in wire' : t.n # Current => ~Landable(t)
                      /\ \A o \in book' : o.n # Current => o.time < Since
    BY <1>1 DEF Alone, Since, Landable
  <2>1. /\ \A t \in wire : t.n # Current => ~Landable(t)
        /\ \A o \in book : o.n # Current => o.time < Since
    BY DEF IInv, Alone
  <2>2. r.n = Current
    BY <2>1
  <2> QED
    BY SMT, <1>2, <2>1, <2>2
<1>7. Dead'
  <2> SUFFICES ASSUME NEW n \in 1..Current, log[n].verdict = "rejected", log[n].stamped
               PROVE  (\A o \in book' : o.n # n) /\ \A t \in wire' : t.n = n => ~Landable(t)
    BY <1>1 DEF Dead, InBook, Landable
  <2>1. (\A o \in book : o.n # n) /\ \A t \in wire : t.n = n => ~Landable(t)
    BY DEF IInv, Dead, InBook
  <2>2. r.n # n
    BY <2>1
  <2> QED
    BY SMT, <1>2, <2>1, <2>2
<1>8. AcceptedIsThisOrder'
  BY <1>1 DEF IInv, AcceptedIsThisOrder, InBook
<1> QED
  BY <1>3, <1>4, <1>5, <1>6, <1>7, <1>8 DEF IInv

\* Time passes, or something happens that the attempts do not see.
LEMMA ClockKeeps ==
  ASSUME IInv, PlacementAssumption, now' \in Nat, now' >= now,
         UNCHANGED <<lag, tick, log, wire, book>>
  PROVE  IInv'
<1>1. Shape /\ now \in Nat /\ tick \in Ticket /\ tick.called \in Nat /\ Current' = Current
  BY DEF IInv, Shape, Ticket, Current
<1>2. Shape' /\ Numbered' /\ Dead' /\ AcceptedIsThisOrder'
  BY <1>1, Frame
<1>3. Running'
  BY SMT, <1>1 DEF IInv, Running, InBook
<1>4. Alone'
  <2> SUFFICES ASSUME tick.pc \in Waiting, log[Current].alone
               PROVE  /\ \A r \in wire : r.n # Current => ~(now' - lag' - r.signed <= Recv)
                      /\ \A o \in book : o.n # Current => o.time < Since'
    BY <1>1 DEF Alone, Landable
  <2>1. /\ \A r \in wire : r.n # Current => ~Landable(r)
        /\ \A o \in book : o.n # Current => o.time < Since
    BY DEF IInv, Alone
  <2>2. Since \in Nat /\ Since' \in Nat /\ Since <= Since'
    BY SMT, <1>1 DEF Since
  <2>3. \A o \in book : o.time \in Int
    BY <1>1 DEF Shape
  <2>4. \A o \in book : o.n # Current => o.time < Since'
    BY SMT, <2>1, <2>2, <2>3
  <2> QED
    BY <1>1, <2>1, <2>4, LandableLater
<1> QED
  BY <1>2, <1>3, <1>4 DEF IInv

\* What a lookup may conclude: an order believed absent can no longer be admitted, and
\* one that is no older than the signature is this attempt's.
LEMMA ConcludedKeeps ==
  ASSUME IInv, PlacementAssumption, tick.pc \in {"probe", "sleep"},
         NEW believe, believe => ~Admissible, Concluded(believe),
         UNCHANGED <<now, lag, wire, book>>
  PROVE  IInv'
<1>1. tick.pc \in Waiting /\ tick.pc # "dedup" /\ tick \in Ticket /\ now \in Nat /\ lag \in Nat
      /\ lag < Margin /\ Recv \in Nat /\ Margin \in Nat
  BY DEF IInv, Shape, Waiting, PlacementAssumption
<1>2. tick.called \in Nat /\ tick.signed \in Nat \cup {Never}
  BY <1>1 DEF Ticket
<1>3. Done \in Ticket /\ Done.pc = "commit"
  BY DEF Done, Idle, Ticket, Pcs
<1>4. [tick EXCEPT !.pc = "record"] \in Ticket /\ [tick EXCEPT !.pc = "record"].pc = "record"
  BY <1>1 DEF Ticket, Pcs
<1>5. CASE Verdict("ambiguous") /\ tick' = Done
  BY <1>1, <1>3, <1>5, Settles DEF Verdicts
<1>6. CASE Namesakes = {} /\ believe /\ Verdict("rejected") /\ tick' = Done
  <2>1. ~InBook(Current)
    BY <1>6 DEF Namesakes, InBook, Side
  <2>2. ASSUME log[Current].stamped, NEW r \in wire, r.n = Current PROVE ~Landable(r)
    <3>1. r.signed = tick.signed /\ r.signed \in Nat
      BY <1>1, <2>2 DEF IInv, Running, Shape
    <3>2. Anchor = r.signed
      BY SMT, <2>2, <3>1 DEF Anchor, Never
    <3>3. ~(now < r.signed + Recv + Margin)
      <4>1. ~(now < Anchor + Recv + Margin)
        BY <1>6 DEF Admissible
      <4> QED
        BY <3>2, <4>1
    <3> QED
      BY SMT, <1>1, <3>1, <3>3 DEF Landable
  <2> QED
    BY <1>1, <1>3, <1>6, <2>1, <2>2, Settles DEF Verdicts
<1>7. ASSUME NEW o \in Newest, Own(o), Verdict("accepted"), tick' = [tick EXCEPT !.pc = "record"]
      PROVE  IInv'
  <2>1. o \in book /\ o.time \in Int
    BY DEF Newest, Namesakes, IInv, Shape
  <2>2. Anchor \in Nat /\ tick.called <= Anchor
    BY SMT, <1>1, <1>2 DEF Anchor, IInv, Running, Never
  <2>3. o.time >= tick.called
    BY SMT, <1>2, <1>7, <2>1, <2>2 DEF Own
  <2>4. log[Current].alone => o.n = Current
    BY SMT, <1>1, <1>2, <2>1, <2>3 DEF IInv, Alone, Since
  <2>5. log[Current].alone => InBook(Current)
    BY <2>1, <2>4 DEF InBook
  <2> QED
    BY <1>1, <1>4, <1>7, <2>5, Settles DEF Verdicts
<1> QED
  BY <1>5, <1>6, <1>7 DEF Concluded

\* Every step keeps the invariant.
LEMMA NextKeeps == ASSUME PlacementAssumption, IInv, [Next]_vars PROVE IInv'
<1> USE DEF At, exchange
<1>1. /\ tick \in Ticket /\ now \in Nat /\ log \in Seq(Entry) /\ Current \in Nat
      /\ wire \subseteq [n : Nat, signed : Nat]
  BY SMT DEF IInv, Shape, Current
<1>2. Done \in Ticket /\ Done.pc = "commit" /\ Idle \in Ticket /\ Idle.pc = "idle"
      /\ Idle.signed = Never
  BY DEF Done, Idle, Ticket, Pcs
<1>3. ASSUME NEW pc \in Pcs
      PROVE  /\ [tick EXCEPT !.pc = pc] \in Ticket /\ [tick EXCEPT !.pc = pc].pc = pc
             /\ [tick EXCEPT !.pc = pc].called = tick.called
             /\ [tick EXCEPT !.pc = pc].signed = tick.signed
  BY <1>1 DEF Ticket
<1>4. LET t == [tick EXCEPT !.pc = "call", !.called = now]
      IN  t \in Ticket /\ t.pc = "call" /\ t.called = now /\ t.signed = tick.signed
  BY <1>1 DEF Ticket, Pcs
<1>5. tick.pc \in {"dedup", "call"} =>
        /\ tick.signed = Never /\ ~InBook(Current) /\ Mine = {}
  BY SMT, <1>1 DEF IInv, Running, Waiting, Mine, Never
<1>6. Mine # {} => ~InBook(Current)
  BY DEF IInv, Numbered, Mine, InBook
<1>7. CASE \E side \in Sides : Emit(side)
  BY <1>7, EmitKeeps
<1>8. CASE Forget
  BY <1>4, <1>5, <1>8, Goes DEF Forget, Waiting
<1>9. CASE Check
  <2>1. CASE tick' = Done /\ Verdict("suppressed")
    BY <1>2, <1>9, <2>1, Settles DEF Check, Waiting, Verdicts
  <2>2. CASE tick' = [tick EXCEPT !.pc = "call", !.called = now] /\ UNCHANGED log
    BY <1>4, <1>5, <1>9, <2>2, Goes DEF Check, Waiting
  <2> QED
    BY <1>9, <2>1, <2>2 DEF Check
<1>10. CASE Shed
  BY <1>2, <1>10, Settles DEF Shed, Waiting, Verdicts
<1>11. CASE Sign
  <2>1. wire' = (wire \ Mine) \cup {[n |-> Current, signed |-> now]}
    BY <1>5, <1>11 DEF Sign
  <2> QED
    BY <1>1, <1>5, <1>11, <2>1, Sends DEF Sign, Current
<1>12. CASE Resign
  <2>1. Current \in 1..Len(log) /\ log[Current] \in Entry
    BY SMT, <1>1, <1>12 DEF Resign, IInv, Running, Waiting, Current
  <2>2. log' = [log EXCEPT ![Current] = [log[Current] EXCEPT !.stamped = FALSE]]
        /\ [log[Current] EXCEPT !.stamped = FALSE] \in Entry
    BY <1>12, <2>1 DEF Resign, Entry
  <2>3. log' \in Seq(Entry) /\ Len(log') = Len(log)
        /\ \A n \in 1..Current : n # Current => log'[n] = log[n]
    BY SMT, <1>1, <2>1, <2>2 DEF Current
  <2>4. log'[Current].verdict = log[Current].verdict /\ log'[Current].alone = log[Current].alone
    BY SMT, <1>1, <2>1, <2>2 DEF Entry
  <2>5. tick' = [tick EXCEPT !.pc = "wire", !.signed = now]
    BY <1>1, <1>12 DEF Resign, Ticket
  <2>6. \A n \in 1..Current : log'[n].verdict = log[n].verdict /\ log'[n].alone = log[n].alone
    BY <2>3, <2>4
  <2>7. Current' = Current
    BY <2>3 DEF Current
  <2> QED
    BY <1>6, <1>12, <2>3, <2>5, <2>6, <2>7, Sends DEF Resign
<1>13. CASE Answer
  <2>1. tick' \in Ticket /\ tick'.pc = "record"
    BY <1>3, <1>13 DEF Answer, Pcs
  <2> QED
    BY <1>13, <2>1, Settles DEF Answer, Waiting, Verdicts, Landed, InBook
<1>14. CASE Refuse
  BY <1>2, <1>6, <1>14, Settles DEF Refuse, Waiting, Verdicts, Mine
<1>15. CASE ServerError
  BY <1>2, <1>15, Settles DEF ServerError, Waiting, Verdicts
<1>16. CASE Throw
  <2>1. tick' \in Ticket /\ tick'.pc = "probe" /\ tick'.called = tick.called
        /\ tick'.signed = tick.signed
    BY <1>3, <1>16 DEF Throw, Pcs
  <2> QED
    BY <1>16, <2>1, Goes DEF Throw, Waiting
<1>17. CASE Probe
  <2>1. CASE Concluded(~Admissible)
    BY <1>17, <2>1, ConcludedKeeps DEF Probe
  <2>2. CASE tick' = [tick EXCEPT !.pc = "sleep"] /\ UNCHANGED log
    <3>1. tick' \in Ticket /\ tick'.pc = "sleep" /\ tick'.called = tick.called
          /\ tick'.signed = tick.signed
      BY <1>3, <2>2 DEF Pcs
    <3> QED
      BY <1>17, <2>2, <3>1, Goes DEF Probe, Waiting
  <2> QED
    BY <1>17, <2>1, <2>2 DEF Probe
<1>18. CASE Reprobe
  BY <1>18, ConcludedKeeps DEF Reprobe
<1>19. CASE Record
  BY <1>2, <1>19, Rests DEF Record, Waiting
<1>20. CASE Commit
  BY <1>2, <1>20, Rests DEF Commit, Waiting
<1>21. CASE Crash
  BY <1>2, <1>21, Rests DEF Crash, Waiting
<1>22. CASE Land
  BY <1>22, LandKeeps
<1>23. CASE LandLate \/ Adopted \/ Reconciled \/ UNCHANGED vars
  <2>1. CASE LandLate
    BY SMT, <1>1, <2>1, ClockKeeps DEF LandLate
  <2>2. CASE Adopted
    BY SMT, <1>1, <2>2, ClockKeeps DEF Adopted
  <2>3. CASE Reconciled
    BY SMT, <1>1, <2>3, ClockKeeps DEF Reconciled
  <2>4. CASE UNCHANGED vars
    BY SMT, <1>1, <2>4, ClockKeeps DEF vars
  <2> QED
    BY <1>23, <2>1, <2>2, <2>3, <2>4
<1>24. CASE Clock
  BY SMT, <1>1, <1>24, ClockKeeps DEF Clock
<1> QED
  BY <1>7, <1>8, <1>9, <1>10, <1>11, <1>12, <1>13, <1>14, <1>15, <1>16, <1>17, <1>18, <1>19,
     <1>20, <1>21, <1>22, <1>23, <1>24 DEF Next

\* The invariant always holds.
LEMMA Inductive == Spec => []IInv
<1>1. Init => IInv
  BY InitIInv, PlacementAssumption
<1>2. IInv /\ [Next]_vars => IInv'
  BY NextKeeps, PlacementAssumption
<1> QED
  BY <1>1, <1>2, PTL DEF Spec

\* resolveAmbiguousPlacement believes an absent order only after its receive window and
\* the clock margin have passed since the signing instant: whatever else happens, nothing
\* of an attempt declared rejected at a recorded instant is on the exchange afterwards.
THEOREM RejectedStaysOff == Spec => []RejectedNeverLands
<1>1. IInv => RejectedNeverLands
  BY DEF IInv, Dead, RejectedNeverLands
<1> QED
  BY <1>1, Inductive, PTL

\* The age test of the probe tells an attempt's own order from an older namesake: an
\* attempt reported ok or accepted that began with no older one under way is on the exchange.
THEOREM AcceptedIsOnBook == Spec => []AcceptedIsThisOrder
<1>1. IInv => AcceptedIsThisOrder
  BY DEF IInv
<1> QED
  BY <1>1, Inductive, PTL

-----------------------------------------------------------------------------
(* The rest of the types, and the duplicate guard.                          *)

Commands == Sides \cup {"del"}

Span ==
  /\ now \in Times
  /\ tick.called \in Times /\ tick.signed \in Times \cup {Never}
  /\ Current <= MaxOrders /\ (tick.pc # "idle" => Current >= 1)
  /\ \A r \in wire : r.signed \in Times
  /\ \A o \in book : o.time \in -Margin..MaxTime

Budget ==
  /\ faults \in 0..MaxFaults /\ resigns \in 0..MaxResigns
  /\ slice \in {"flat", "in"} /\ holding \in BOOLEAN /\ converge \in BOOLEAN /\ gap \in BOOLEAN

Guard ==
  /\ seen \in [Sides -> Times \cup {Never}]
  /\ mirror \in [members : SUBSET Sides, expires : 0..MaxTime + Window]
  /\ late \in Seq(Commands)

\* An entry went out, and no exit was tried since.
Backed == \E m \in 1..Current : InBook(m) /\ \A k \in m..Current : log[k].side = "BUY"

Recorded == seen["BUY"] # Never \/ "BUY" \in mirror.members

\* While nothing has failed, the guard knows of an entry only if one went out: from the
\* forgetting of an exit to the next recorded entry it knows of none.
Fresh ==
  faults = 0 =>
    /\ late = <<>>
    /\ tick.pc \notin {"probe", "sleep"}
    /\ tick.pc = "record" => InBook(Current)
    /\ Recorded /\ (tick.pc = "dedup" => Side = "BUY") => Backed

\* Apart from a placement, the log changes only by a verdict or a re-signing.
LEMMA LogSteps ==
  ASSUME [Next]_vars, ~\E side \in Sides : Emit(side)
  PROVE  \/ UNCHANGED log
         \/ tick.pc \in Waiting /\ \E v \in Verdicts : Verdict(v)
         \/ Resign
<1> USE DEF At
<1> USE DEF Waiting, Verdicts
<1>1. CASE Forget \/ Throw \/ Sign \/ Record \/ Commit
  BY <1>1 DEF Forget, Throw, Sign, Record, Commit
<1>2. CASE LandLate \/ Land \/ Adopted \/ Reconciled \/ Crash \/ Clock
  BY <1>2 DEF LandLate, Land, Adopted, Reconciled, Crash, Clock
<1>3. CASE Check
  BY <1>3 DEF Check
<1>4. CASE Shed \/ Answer \/ Refuse \/ ServerError
  BY <1>4 DEF Shed, Answer, Refuse, ServerError
<1>5. ASSUME NEW believe, Concluded(believe) PROVE \E v \in Verdicts : Verdict(v)
  BY <1>5 DEF Concluded
<1>6. CASE Probe \/ Reprobe
  BY <1>5, <1>6 DEF Probe, Reprobe
<1>7. CASE UNCHANGED vars
  BY <1>7 DEF vars
<1> QED
  BY <1>1, <1>2, <1>3, <1>4, <1>6, <1>7 DEF Next

\* An attempt keeps its side, and the book only grows.
LEMMA Kept ==
  ASSUME IInv, [Next]_vars, ~\E side \in Sides : Emit(side)
  PROVE  /\ Current' = Current /\ book \subseteq book'
         /\ \A n \in 1..Current : log'[n].side = log[n].side
         /\ \A n \in 1..Current : n # Current => log'[n] = log[n]
<1> USE DEF At, exchange
<1>1. log \in Seq(Entry) /\ Current \in Nat
  BY SMT DEF IInv, Shape, Current
<1>2. \/ UNCHANGED log
      \/ tick.pc \in Waiting /\ \E v \in Verdicts : Verdict(v)
      \/ Resign
  BY LogSteps
<1>3. book \subseteq book'
  <2>1. CASE Forget \/ Throw \/ Sign \/ Record \/ Commit \/ Check
    BY <2>1 DEF Forget, Throw, Sign, Record, Commit, Check
  <2>2. CASE LandLate \/ Land \/ Adopted \/ Reconciled \/ Crash \/ Clock
    BY <2>2 DEF LandLate, Land, Adopted, Reconciled, Crash, Clock
  <2>3. CASE Shed \/ Answer \/ Refuse \/ ServerError \/ Probe \/ Reprobe \/ Resign
    BY <2>3 DEF Shed, Answer, Refuse, ServerError, Probe, Reprobe, Resign
  <2>4. CASE UNCHANGED vars
    BY <2>4 DEF vars
  <2> QED
    BY <2>1, <2>2, <2>3, <2>4 DEF Next
<1>4. CASE UNCHANGED log
  BY <1>3, <1>4 DEF Current
<1>5. ASSUME tick.pc \in Waiting, NEW v \in Verdicts, Verdict(v)
      PROVE  /\ Current' = Current
             /\ \A n \in 1..Current : log'[n].side = log[n].side
             /\ \A n \in 1..Current : n # Current => log'[n] = log[n]
  <2>1. Current >= 1
    BY <1>5 DEF IInv, Running
  <2> QED
    BY <1>1, <1>5, <2>1, VerdictStep
<1>6. CASE Resign
  <2>1. Current \in 1..Len(log) /\ log[Current] \in Entry
    BY SMT, <1>1, <1>6 DEF Resign, IInv, Running, Waiting, Current
  <2>2. log' = [log EXCEPT ![Current] = [log[Current] EXCEPT !.stamped = FALSE]]
    BY <1>6, <2>1 DEF Resign, Entry
  <2>3. Len(log') = Len(log) /\ \A n \in 1..Current : n # Current => log'[n] = log[n]
    BY SMT, <1>1, <2>1, <2>2 DEF Current
  <2>4. log'[Current].side = log[Current].side
    BY SMT, <1>1, <2>1, <2>2 DEF Entry
  <2>5. \A n \in 1..Current : log'[n].side = log[n].side
    BY <2>3, <2>4
  <2> QED
    BY <1>3, <2>3, <2>5 DEF Current
<1> QED
  BY <1>2, <1>3, <1>4, <1>5, <1>6

\* What Redis holds after a command.
LEMMA AppliedType ==
  ASSUME PlacementAssumption, Guard, now \in Times, NEW cmd \in Commands
  PROVE  Applied(cmd) \in [members : SUBSET Sides, expires : 0..MaxTime + Window]
<1>1. Window \in Nat /\ MaxTime \in Nat /\ now \in Nat /\ now <= MaxTime
  BY SMT DEF PlacementAssumption, Times
<1>2. CASE cmd = "del"
  <2>1. Applied(cmd) = [members |-> {}, expires |-> 0] /\ 0 \in 0..MaxTime + Window
    BY SMT, <1>1, <1>2 DEF Applied, NoSet
  <2> QED
    BY SMT, <2>1
<1>3. CASE cmd # "del"
  <2> DEFINE m == {cmd} \cup IF now < mirror.expires THEN mirror.members ELSE {}
             e == now + Window
  <2>1. Applied(cmd) = [members |-> m, expires |-> e]
    BY <1>3 DEF Applied
  <2>2. e \in 0..MaxTime + Window
    BY SMT, <1>1
  <2>3. m \in SUBSET Sides
    <3>1. cmd \in Sides /\ mirror.members \subseteq Sides
      BY <1>3 DEF Commands, Guard
    <3> QED
      BY <3>1
  <2> HIDE DEF m, e
  <2> QED
    BY SMT, <2>1, <2>2, <2>3
<1> QED
  BY <1>2, <1>3

\* A write, applied or late, keeps the mirror and its queue typed.
LEMMA WriteType ==
  ASSUME PlacementAssumption, Guard, now \in Times, NEW cmd \in Commands, Write(cmd)
  PROVE  mirror' \in [members : SUBSET Sides, expires : 0..MaxTime + Window] /\ late' \in Seq(Commands)
<1>1. mirror \in [members : SUBSET Sides, expires : 0..MaxTime + Window] /\ late \in Seq(Commands)
  BY DEF Guard
<1>2. Append(late, cmd) \in Seq(Commands)
  BY SMT, <1>1
<1> QED
  BY <1>1, <1>2, AppliedType DEF Write

\* A step has at most one fault.
LEMMA FaultSteps == ASSUME [Next]_vars PROVE faults' = faults \/ Fault
<1> USE DEF At, exchange, dedup, budget
<1>1. CASE (\E side \in Sides : Emit(side)) \/ Shed \/ Sign \/ Resign \/ Answer \/ Refuse
  BY <1>1 DEF Emit, Shed, Sign, Resign, Answer, Refuse
<1>2. CASE ServerError \/ Throw \/ Commit \/ Crash
  BY <1>2 DEF ServerError, Throw, Commit, Crash
<1>3. CASE Forget \/ Record
  BY <1>3 DEF Forget, Record, forgetSymbol, record, Write
<1>4. CASE Check
  BY <1>4 DEF Check, seenRecently
<1>5. CASE Probe \/ Reprobe
  BY <1>5 DEF Probe, Reprobe, Concluded
<1>6. CASE LandLate \/ Land \/ Adopted \/ Reconciled \/ Clock \/ UNCHANGED vars
  BY <1>6 DEF LandLate, Land, Adopted, Reconciled, Clock, vars
<1> QED
  BY <1>1, <1>2, <1>3, <1>4, <1>5, <1>6 DEF Next

\* A step re-signs at most once.
LEMMA ResignSteps ==
  ASSUME [Next]_vars PROVE resigns' = resigns \/ (resigns < MaxResigns /\ resigns' = resigns + 1)
<1> USE DEF At, exchange, dedup, budget
<1>1. CASE (\E side \in Sides : Emit(side)) \/ Shed \/ Sign \/ Resign \/ Answer \/ Refuse
  BY <1>1 DEF Emit, Shed, Sign, Resign, Answer, Refuse
<1>2. CASE ServerError \/ Throw \/ Commit \/ Crash \/ Forget \/ Record \/ Check
  BY <1>2 DEF ServerError, Throw, Commit, Crash, Forget, Record, Check
<1>3. CASE Probe \/ Reprobe
  BY <1>3 DEF Probe, Reprobe
<1>4. CASE LandLate \/ Land \/ Adopted \/ Reconciled \/ Clock \/ UNCHANGED vars
  BY <1>4 DEF LandLate, Land, Adopted, Reconciled, Clock, vars
<1> QED
  BY <1>1, <1>2, <1>3, <1>4 DEF Next

\* Faults and re-signings stay within their budgets.
LEMMA BudgetKeeps ==
  ASSUME PlacementAssumption, Budget, [Next]_vars PROVE Budget'
<1> USE DEF At, exchange, dedup, budget
<1>1. faults' = faults \/ Fault
  BY FaultSteps
<1>2. resigns' = resigns \/ (resigns < MaxResigns /\ resigns' = resigns + 1)
  BY ResignSteps
<1>3. faults' \in 0..MaxFaults /\ resigns' \in 0..MaxResigns
  BY SMT, <1>1, <1>2 DEF Budget, Fault, PlacementAssumption
<1>4. slice' \in {"flat", "in"} /\ holding' \in BOOLEAN /\ converge' \in BOOLEAN /\ gap' \in BOOLEAN
  <2> USE DEF Budget
  <2>1. CASE (\E side \in Sides : Emit(side)) \/ Shed \/ Sign \/ Resign \/ Answer \/ Refuse
    BY <2>1 DEF Emit, Shed, Sign, Resign, Answer, Refuse
  <2>2. CASE ServerError \/ Throw \/ Forget \/ Record \/ Check
    BY <2>2 DEF ServerError, Throw, Forget, Record, Check
  <2>3. CASE Probe \/ Reprobe
    BY <2>3 DEF Probe, Reprobe
  <2>4. CASE Commit \/ Crash
    BY <2>4 DEF Commit, Crash
  <2>5. CASE Land \/ Adopted \/ Reconciled
    BY <2>5 DEF Land, Adopted, Reconciled
  <2>6. CASE LandLate \/ Clock \/ UNCHANGED vars
    BY <2>6 DEF LandLate, Clock, vars
  <2> QED
    BY <2>1, <2>2, <2>3, <2>4, <2>5, <2>6 DEF Next
<1> QED
  BY <1>3, <1>4 DEF Budget

\* The last attempt has a side.
LEMMA SideType == ASSUME IInv, Current >= 1 PROVE Side \in Sides
<1>1. log \in Seq(Entry) /\ Current \in 1..Len(log)
  BY SMT DEF IInv, Shape, Current
<1>2. log[Current] \in Entry
  BY SMT, <1>1
<1> QED
  BY <1>2 DEF Entry, Side

\* Every step keeps the guard and its mirror typed.
LEMMA GuardKeeps ==
  ASSUME PlacementAssumption, IInv, Span, Guard, [Next]_vars PROVE Guard'
<1> USE DEF At, dedup
<1>0. now \in Times
  BY DEF Span
<1>1. CASE UNCHANGED dedup
  BY <1>1 DEF Guard
<1>2. CASE Forget
  <2>1. seen' = [s \in Sides |-> Never] /\ Write("del") /\ "del" \in Commands
    BY <1>2 DEF Forget, forgetSymbol, Commands
  <2> QED
    BY <1>0, <2>1, WriteType DEF Guard
<1>3. CASE Record
  <2>1. Side \in Sides
    <3>1. Current >= 1
      BY <1>3 DEF Record, Span
    <3> QED
      BY <3>1, SideType
  <2>2. seen' = [seen EXCEPT ![Side] = now] /\ Write(Side) /\ Side \in Commands
    BY <1>3, <2>1 DEF Record, record, Commands
  <2>3. mirror' \in [members : SUBSET Sides, expires : 0..MaxTime + Window] /\ late' \in Seq(Commands)
    BY <1>0, <2>2, WriteType
  <2>4. seen' \in [Sides -> Times \cup {Never}]
    BY <1>0, <2>2 DEF Guard
  <2> QED
    BY <2>3, <2>4 DEF Guard
<1>4. CASE LandLate
  <2>1. late \in Seq(Commands) /\ late # <<>>
    BY <1>4 DEF LandLate, Guard
  <2>2. Head(late) \in Commands /\ Tail(late) \in Seq(Commands)
    BY SMT, <2>1
  <2>3. mirror' = Applied(Head(late)) /\ late' = Tail(late) /\ seen' = seen
    BY <1>4 DEF LandLate
  <2> QED
    BY <1>0, <2>2, <2>3, AppliedType DEF Guard
<1>5. CASE Crash
  <2>1. <<>> \in Seq(Commands)
    BY SMT
  <2>2. seen' = [s \in Sides |-> Never] /\ late' \in {late, <<>>} /\ mirror' = mirror
    BY <1>5 DEF Crash
  <2> QED
    BY <2>1, <2>2 DEF Guard
<1>6. \/ UNCHANGED dedup \/ Forget \/ Record \/ LandLate \/ Crash
  <2>1. CASE (\E side \in Sides : Emit(side)) \/ Shed \/ Sign \/ Resign \/ Answer \/ Refuse
    BY <2>1 DEF Emit, Shed, Sign, Resign, Answer, Refuse
  <2>2. CASE ServerError \/ Throw \/ Commit \/ Check \/ Probe \/ Reprobe
    BY <2>2 DEF ServerError, Throw, Commit, Check, Probe, Reprobe
  <2>3. CASE Land \/ Adopted \/ Reconciled \/ Clock \/ UNCHANGED vars
    BY <2>3 DEF Land, Adopted, Reconciled, Clock, vars
  <2> QED
    BY <2>1, <2>2, <2>3 DEF Next
<1> QED
  BY <1>1, <1>2, <1>3, <1>4, <1>5, <1>6

\* Only the clock moves time.
LEMMA NowSteps == ASSUME [Next]_vars PROVE now' = now \/ Clock
<1>1. CASE (\E side \in Sides : Emit(side)) \/ Shed \/ Sign \/ Resign \/ Answer \/ Refuse
  BY <1>1 DEF Emit, Shed, Sign, Resign, Answer, Refuse
<1>2. CASE ServerError \/ Throw \/ Commit \/ Check \/ Probe \/ Reprobe
  BY <1>2 DEF ServerError, Throw, Commit, Check, Probe, Reprobe
<1>3. CASE Land \/ Adopted \/ Reconciled \/ UNCHANGED vars
  BY <1>3 DEF Land, Adopted, Reconciled, vars
<1>4. CASE LandLate \/ Crash \/ Forget \/ Record
  BY <1>4 DEF LandLate, Crash, Forget, Record
<1> QED
  BY <1>1, <1>2, <1>3, <1>4 DEF Next

\* Instants stay within the run, and attempts within their number.
LEMMA SpanKeeps ==
  ASSUME PlacementAssumption, IInv, Span, [Next]_vars PROVE Span'
<1> USE DEF At, exchange
<1>1. /\ now \in Times /\ now \in Nat /\ lag \in Nat /\ lag < Margin /\ MaxTime \in Nat /\ Margin \in Nat
      /\ Current \in Nat /\ MaxOrders \in Nat /\ tick \in Ticket /\ log \in Seq(Entry)
  BY SMT DEF Span, IInv, Shape, Current, PlacementAssumption
<1>2. now' \in Times
  <2>1. now' = now \/ Clock
    BY NowSteps
  <2> QED
    BY SMT, <1>1, <2>1 DEF Clock, Times
<1>3. Current' <= MaxOrders /\ (tick'.pc # "idle" => Current' >= 1)
  <2>1. CASE \E side \in Sides : Emit(side)
    <3>1. Current < MaxOrders /\ Current' = Current + 1
      BY SMT, <1>1, <2>1 DEF Emit, Current
    <3> QED
      BY SMT, <1>1, <3>1
  <2>2. CASE ~\E side \in Sides : Emit(side)
    <3>1. Current' = Current
      BY <2>2, Kept
    <3>2. tick'.pc # "idle" => tick.pc # "idle"
      <4>1. CASE Shed \/ Sign \/ Resign \/ Answer \/ Refuse
        BY <4>1 DEF Shed, Sign, Resign, Answer, Refuse
      <4>2. CASE ServerError \/ Throw \/ Commit \/ Check \/ Probe \/ Reprobe
        BY <4>2 DEF ServerError, Throw, Commit, Check, Probe, Reprobe, Idle
      <4>3. CASE Land \/ Adopted \/ Reconciled \/ UNCHANGED vars
        BY <4>3 DEF Land, Adopted, Reconciled, vars
      <4>4. CASE LandLate \/ Crash \/ Forget \/ Record \/ Clock
        BY SMT, <4>4 DEF LandLate, Crash, Forget, Record, Clock, Idle
      <4> QED
        BY <2>2, <4>1, <4>2, <4>3, <4>4 DEF Next
    <3> QED
      BY <1>1, <3>1, <3>2 DEF Span
  <2> QED
    BY <2>1, <2>2
<1>4. tick'.called \in Times /\ tick'.signed \in Times \cup {Never}
  <2>1. 0 \in Times
    BY SMT, <1>1 DEF Times
  <2>2. Done.called \in Times /\ Done.signed = Never /\ Idle.called \in Times /\ Idle.signed = Never
    BY <2>1 DEF Done, Idle
  <2>3. tick.called \in Times /\ tick.signed \in Times \cup {Never}
    BY DEF Span
  <2>4. \A pc : [tick EXCEPT !.pc = pc].called = tick.called /\ [tick EXCEPT !.pc = pc].signed = tick.signed
    BY <1>1 DEF Ticket
  <2>5. LET t == [tick EXCEPT !.pc = "call", !.called = now]
        IN  t.called = now /\ t.signed = tick.signed
    BY <1>1 DEF Ticket
  <2>6. LET t == [tick EXCEPT !.pc = "wire", !.signed = now]
        IN  t.called = tick.called /\ t.signed = now
    BY <1>1 DEF Ticket
  <2>7. LET t == [tick EXCEPT !.signed = now]
        IN  t.called = tick.called /\ t.signed = now
    BY <1>1 DEF Ticket
  <2>8. \/ tick' = tick \/ tick' = Done \/ tick' = Idle \/ \E pc \in Pcs : tick' = [tick EXCEPT !.pc = pc]
        \/ tick' = [tick EXCEPT !.pc = "call", !.called = now]
        \/ tick' = [tick EXCEPT !.pc = "wire", !.signed = now]
        \/ tick' = [tick EXCEPT !.signed = now]
    <3> USE DEF Pcs
    <3>1. CASE (\E side \in Sides : Emit(side)) \/ Shed \/ Sign \/ Resign \/ Answer \/ Refuse
      BY <3>1 DEF Emit, Shed, Sign, Resign, Answer, Refuse
    <3>2. CASE ServerError \/ Throw \/ Commit \/ Check
      BY <3>2 DEF ServerError, Throw, Commit, Check
    <3>3. CASE Probe \/ Reprobe
      BY <3>3 DEF Probe, Reprobe, Concluded
    <3>4. CASE Land \/ Adopted \/ Reconciled \/ UNCHANGED vars
      BY <3>4 DEF Land, Adopted, Reconciled, vars
    <3>5. CASE LandLate \/ Crash \/ Forget \/ Record \/ Clock
      BY <3>5 DEF LandLate, Crash, Forget, Record, Clock
    <3> QED
      BY <3>1, <3>2, <3>3, <3>4, <3>5 DEF Next
  <2> QED
    BY <1>1, <2>2, <2>3, <2>4, <2>5, <2>6, <2>7, <2>8
<1>5. \A r \in wire' : r.signed \in Times
  <2>1. wire' \subseteq wire \/ wire' \subseteq wire \cup {[n |-> Current, signed |-> now]}
    <3>1. CASE (\E side \in Sides : Emit(side)) \/ Shed \/ Sign \/ Resign \/ Answer \/ Refuse
      BY <3>1 DEF Emit, Shed, Sign, Resign, Answer, Refuse
    <3>2. CASE ServerError \/ Throw \/ Commit \/ Check \/ Probe \/ Reprobe
      BY <3>2 DEF ServerError, Throw, Commit, Check, Probe, Reprobe
    <3>3. CASE Land \/ Adopted \/ Reconciled \/ UNCHANGED vars
      BY <3>3 DEF Land, Adopted, Reconciled, vars
    <3>4. CASE LandLate \/ Crash \/ Forget \/ Record \/ Clock
      BY <3>4 DEF LandLate, Crash, Forget, Record, Clock
    <3> QED
      BY <3>1, <3>2, <3>3, <3>4 DEF Next
  <2> QED
    BY SMT, <1>1, <2>1 DEF Span
<1>6. \A o \in book' : o.time \in -Margin..MaxTime
  <2>1. book' = book \/ Land
    <3>1. CASE (\E side \in Sides : Emit(side)) \/ Shed \/ Sign \/ Resign \/ Answer \/ Refuse
      BY <3>1 DEF Emit, Shed, Sign, Resign, Answer, Refuse
    <3>2. CASE ServerError \/ Throw \/ Commit \/ Check \/ Probe \/ Reprobe
      BY <3>2 DEF ServerError, Throw, Commit, Check, Probe, Reprobe
    <3>3. CASE Adopted \/ Reconciled \/ UNCHANGED vars
      BY <3>3 DEF Adopted, Reconciled, vars
    <3>4. CASE LandLate \/ Crash \/ Forget \/ Record \/ Clock
      BY <3>4 DEF LandLate, Crash, Forget, Record, Clock
    <3> QED
      BY <3>1, <3>2, <3>3, <3>4 DEF Next
  <2>2. now - lag \in -Margin..MaxTime
    BY SMT, <1>1 DEF Times
  <2>3. CASE Land
    <3>1. PICK r \in wire : book' = book \cup {[n |-> r.n, time |-> now - lag]}
      BY <2>3 DEF Land
    <3> QED
      BY SMT, <2>2, <3>1 DEF Span
  <2> QED
    BY <2>1, <2>3 DEF Span
<1> QED
  BY <1>2, <1>3, <1>4, <1>5, <1>6 DEF Span

\* Faults never go down.
LEMMA Faultless ==
  ASSUME PlacementAssumption, Budget, [Next]_vars, faults' = 0 PROVE faults = 0 /\ ~Fault
<1>1. faults \in Nat
  BY SMT DEF Budget
<1> QED
  BY SMT, <1>1, FaultSteps DEF Fault

\* Steps that neither begin an attempt nor touch the guard.
LEMMA GuardRests ==
  ASSUME IInv, [Next]_vars, ~\E side \in Sides : Emit(side), Fresh, faults = 0,
         UNCHANGED <<seen, mirror, late>>, tick'.pc \notin {"probe", "sleep"},
         tick'.pc = "record" => InBook(Current),
         tick.pc = "dedup" => Side = "BUY" \/ tick'.pc = "dedup"
  PROVE  Fresh'
<1>1. /\ Current' = Current /\ book \subseteq book' /\ Current \in Nat
      /\ \A n \in 1..Current : log'[n].side = log[n].side
  BY SMT, Kept DEF IInv, Shape, Current
<1>2. InBook(Current) => InBook(Current)'
  BY <1>1 DEF InBook
<1>3. Backed => Backed'
  <2> SUFFICES ASSUME NEW m \in 1..Current, InBook(m), \A k \in m..Current : log[k].side = "BUY"
               PROVE  Backed'
    BY DEF Backed
  <2>1. \E o \in book' : o.n = m
    BY <1>1 DEF InBook
  <2>2. \A k \in m..Current : log'[k].side = "BUY"
    BY SMT, <1>1
  <2> QED
    BY <1>1, <2>1, <2>2 DEF Backed, InBook
<1>4. Recorded' = Recorded
  BY DEF Recorded
<1>5. ASSUME tick'.pc = "dedup" => Side' = "BUY" PROVE tick.pc = "dedup" => Side = "BUY"
  <2> SUFFICES ASSUME tick.pc = "dedup" PROVE Side = "BUY"
    OBVIOUS
  <2>1. Current >= 1
    BY DEF IInv, Running, Waiting
  <2>2. Side' = Side
    BY SMT, <1>1, <2>1 DEF Side
  <2> QED
    BY <1>5, <2>2
<1> QED
  BY <1>2, <1>3, <1>4, <1>5 DEF Fresh

\* No verdict but a hit of the guard is "suppressed".
LEMMA OldSuppressed ==
  ASSUME PlacementAssumption, IInv, Budget, [Next]_vars, SuppressedOnlyDuplicates,
         NEW n \in 1..Current, log[n].verdict = "suppressed", faults = 0
  PROVE  \E m \in 1..n-1 : InBook(m)' /\ \A k \in m..n : log'[k].side = "BUY"
<1>1. PICK m \in 1..n-1 : InBook(m) /\ \A k \in m..n : log[k].side = "BUY"
  BY DEF SuppressedOnlyDuplicates
<1>2. log \in Seq(Entry) /\ Current \in Nat
  BY SMT DEF IInv, Shape, Current
<1>3. CASE \E side \in Sides : Emit(side)
  <2>1. PICK e : log' = Append(log, e)
    BY <1>3 DEF Emit
  <2>2. \A k \in 1..Current : log'[k] = log[k]
    BY SMT, <1>2, <2>1 DEF Current
  <2>3. book' = book
    BY <1>3 DEF Emit, exchange
  <2>4. \A k \in m..n : k \in 1..Current
    BY SMT, <1>2
  <2>5. \A k \in m..n : log'[k].side = "BUY"
    BY <1>1, <2>2, <2>4
  <2> QED
    BY <1>1, <2>3, <2>5 DEF InBook
<1>4. CASE ~\E side \in Sides : Emit(side)
  <2>1. book \subseteq book' /\ \A k \in 1..Current : log'[k].side = log[k].side
    BY <1>4, Kept
  <2>2. \A k \in m..n : k \in 1..Current
    BY SMT, <1>2
  <2>3. \A k \in m..n : log'[k].side = "BUY"
    BY <1>1, <2>1, <2>2
  <2>4. InBook(m)'
    BY <1>1, <2>1 DEF InBook
  <2> QED
    BY <2>3, <2>4
<1> QED
  BY <1>3, <1>4

\* Until the first fault the guard stays no older than what it saw.
LEMMA FreshKeeps ==
  ASSUME PlacementAssumption, IInv, Span, Budget, Guard, Fresh, [Next]_vars, faults' = 0
  PROVE  Fresh'
<1> USE DEF At, exchange, dedup, budget
<1>1. faults = 0 /\ ~Fault
  BY Faultless
<1>2. /\ late = <<>> /\ tick.pc \notin {"probe", "sleep"} /\ (tick.pc = "record" => InBook(Current))
      /\ (Recorded /\ (tick.pc = "dedup" => Side = "BUY") => Backed)
  BY <1>1 DEF Fresh
<1>3. tick \in Ticket /\ log \in Seq(Entry) /\ Current \in Nat
  BY SMT DEF IInv, Shape, Current
<1>4. ASSUME NEW pc PROVE [tick EXCEPT !.pc = pc].pc = pc
  BY <1>3 DEF Ticket
<1>5. Done.pc = "commit" /\ Idle.pc = "idle"
  BY DEF Done, Idle
<1>6. ASSUME NEW side \in Sides, Emit(side) PROVE Fresh'
  <2>1. PICK e : log' = Append(log, e) /\ e.side = side
    BY SMT, <1>6 DEF Emit
  <2>2. Current' = Current + 1 /\ log'[Current'] = e /\ \A k \in 1..Current : log'[k] = log[k]
    BY SMT, <1>3, <2>1 DEF Current
  <2>3. tick.pc = "idle" /\ tick'.pc = "dedup" /\ UNCHANGED <<seen, mirror, late, book>>
    BY <1>4, <1>6 DEF Emit
  <2>4. Side' = side
    BY <2>1, <2>2 DEF Side
  <2>5. ASSUME Recorded', side = "BUY" PROVE Backed'
    <3>1. Backed
      BY <1>2, <2>3, <2>5 DEF Recorded
    <3>2. PICK m \in 1..Current : InBook(m) /\ \A k \in m..Current : log[k].side = "BUY"
      BY <3>1 DEF Backed
    <3>3. ASSUME NEW k \in m..Current' PROVE log'[k].side = "BUY"
      <4>1. k = Current' \/ k \in m..Current
        BY SMT, <1>3, <2>2
      <4>2. k \in m..Current => k \in 1..Current
        BY SMT, <1>3
      <4> QED
        BY <2>1, <2>2, <2>5, <3>2, <4>1, <4>2
    <3>4. InBook(m)' /\ m \in 1..Current'
      BY SMT, <1>3, <2>2, <2>3, <3>2 DEF InBook
    <3> QED
      BY <3>3, <3>4 DEF Backed
  <2> QED
    BY <1>2, <2>3, <2>4, <2>5 DEF Fresh
<1> SUFFICES ASSUME ~\E side \in Sides : Emit(side) PROVE Fresh'
  BY <1>6
<1>7. CASE Forget
  <2>1. seen' = [s \in Sides |-> Never] /\ mirror' = NoSet /\ late' = late /\ "BUY" \in Sides
    BY <1>1, <1>7 DEF Forget, forgetSymbol, Write, Applied, Sides
  <2>2. ~Recorded'
    BY <2>1 DEF Recorded, NoSet
  <2>3. tick'.pc = "call"
    BY <1>3, <1>7 DEF Forget, Ticket
  <2> QED
    BY <1>2, <2>1, <2>2, <2>3 DEF Fresh
<1>8. CASE Check
  <2>1. tick'.pc \in {"commit", "call"}
    BY <1>3, <1>5, <1>8 DEF Check, Ticket
  <2>2. UNCHANGED <<seen, mirror, late>> /\ Side = "BUY"
    BY <1>8 DEF Check
  <2> QED
    BY <1>1, <2>1, <2>2, GuardRests
<1>9. CASE Record
  <2>1. tick'.pc = "commit" /\ tick.pc = "record" /\ UNCHANGED <<log, book>>
    BY <1>5, <1>9 DEF Record
  <2>2. late' = late /\ mirror' = Applied(Side) /\ seen' = [seen EXCEPT ![Side] = now]
    BY <1>1, <1>9 DEF Record, record, Write
  <2>3. InBook(Current) /\ Current \in 1..Current
    BY SMT, <1>2, <1>3, <2>1 DEF Span
  <2>4. Side \in Sides
    BY SMT, <1>3, <2>3, SideType
  <2>5. CASE Side = "BUY"
    <3>1. \A k \in Current..Current : log[k].side = "BUY"
      BY SMT, <1>3, <2>5 DEF Side
    <3>2. Backed
      BY <2>3, <3>1 DEF Backed
    <3>3. Backed'
      BY <2>1, <3>2 DEF Backed, InBook, Current
    <3> QED
      BY <1>2, <2>1, <2>2, <3>3 DEF Fresh
  <2>6. CASE Side = "SELL"
    <3>1. seen'["BUY"] = seen["BUY"]
      BY <2>2, <2>6 DEF Guard, Sides
    <3>2. "BUY" \in mirror'.members => "BUY" \in mirror.members
      BY <2>2, <2>6 DEF Applied
    <3>3. Recorded' => Recorded
      BY <3>1, <3>2 DEF Recorded
    <3>4. Recorded' => Backed'
      BY <1>2, <2>1, <3>3 DEF Backed, InBook, Current
    <3> QED
      BY <1>2, <2>1, <2>2, <3>4 DEF Fresh
  <2> QED
    BY <2>4, <2>5, <2>6 DEF Sides
<1>10. CASE Shed \/ Sign \/ Refuse
  <2>1. UNCHANGED <<seen, mirror, late>> /\ tick.pc # "dedup" /\ tick'.pc \in {"commit", "wire"}
    BY <1>3, <1>5, <1>10 DEF Shed, Sign, Refuse, Ticket
  <2> QED
    BY <1>1, <2>1, GuardRests
<1>11. CASE Resign
  <2>1. UNCHANGED <<seen, mirror, late>> /\ tick.pc = "wire" /\ tick'.pc = "wire"
    BY <1>3, <1>11 DEF Resign, Ticket
  <2> QED
    BY <1>1, <2>1, GuardRests
<1>12. CASE Answer
  <2>1. UNCHANGED <<seen, mirror, late>> /\ tick.pc = "wire" /\ tick'.pc = "record" /\ InBook(Current)
    BY <1>4, <1>12 DEF Answer, Landed, InBook
  <2> QED
    BY <1>1, <2>1, GuardRests
<1>13. CASE ServerError \/ Throw \/ Crash \/ Probe \/ Reprobe \/ LandLate
  BY <1>1, <1>2, <1>13 DEF ServerError, Throw, Crash, Probe, Reprobe, LandLate
<1>14. CASE Commit
  <2>1. UNCHANGED <<seen, mirror, late>> /\ tick.pc = "commit" /\ tick'.pc = "idle"
    BY <1>5, <1>14 DEF Commit
  <2> QED
    BY <1>1, <2>1, GuardRests
<1>15. CASE Land \/ Adopted \/ Reconciled \/ Clock \/ UNCHANGED vars
  <2>1. UNCHANGED <<seen, mirror, late, tick>>
    BY <1>15 DEF Land, Adopted, Reconciled, Clock, vars
  <2> QED
    BY <1>1, <1>2, <2>1, GuardRests
<1> QED
  BY <1>7, <1>8, <1>9, <1>10, <1>11, <1>12, <1>13, <1>14, <1>15 DEF Next

\* Every step suppresses only duplicates.
LEMMA SuppressedKeeps ==
  ASSUME PlacementAssumption, IInv, Span, Budget, Guard, Fresh, SuppressedOnlyDuplicates, [Next]_vars
  PROVE  SuppressedOnlyDuplicates'
<1> USE DEF At
<1> SUFFICES ASSUME NEW n \in 1..Current', log'[n].verdict = "suppressed", faults' = 0
             PROVE  \E m \in 1..n-1 : InBook(m)' /\ \A k \in m..n : log'[k].side = "BUY"
  BY DEF SuppressedOnlyDuplicates
<1>1. faults = 0 /\ ~Fault /\ log \in Seq(Entry) /\ Current \in Nat
  BY SMT, Faultless DEF IInv, Shape, Current
<1>2. ASSUME n \in 1..Current, log[n].verdict = "suppressed"
      PROVE  \E m \in 1..n-1 : InBook(m)' /\ \A k \in m..n : log'[k].side = "BUY"
  BY <1>1, <1>2, OldSuppressed
<1>3. ASSUME NEW side \in Sides, Emit(side)
      PROVE  n \in 1..Current /\ log[n].verdict = "suppressed"
  <2>1. PICK e : log' = Append(log, e) /\ e.verdict = "none"
    BY SMT, <1>3 DEF Emit
  <2>2. Current' = Current + 1 /\ log'[Current'] = e /\ \A k \in 1..Current : log'[k] = log[k]
    BY SMT, <1>1, <2>1 DEF Current
  <2>3. n # Current'
    BY <2>1, <2>2
  <2>4. n \in 1..Current
    BY SMT, <1>1, <2>2, <2>3
  <2> QED
    BY <2>2, <2>4
<1> SUFFICES ASSUME ~\E side \in Sides : Emit(side)
             PROVE  \E m \in 1..n-1 : InBook(m)' /\ \A k \in m..n : log'[k].side = "BUY"
  BY <1>2, <1>3
<1>4. /\ Current' = Current /\ book \subseteq book'
      /\ \A k \in 1..Current : log'[k].side = log[k].side
      /\ \A k \in 1..Current : k # Current => log'[k] = log[k]
  BY Kept
<1>5. CASE n # Current
  BY <1>2, <1>4, <1>5
<1>6. CASE n = Current /\ UNCHANGED log
  BY <1>2, <1>4, <1>6
<1>7. ASSUME n = Current, tick.pc \in Waiting, NEW v \in Verdicts, Verdict(v)
      PROVE  v = "suppressed"
  <2>1. Current >= 1
    BY <1>7 DEF IInv, Running
  <2> QED
    BY <1>1, <1>7, <2>1, VerdictStep
<1>8. CASE n = Current /\ Resign
  <2>1. Current \in 1..Len(log) /\ log[Current] \in Entry
    BY SMT, <1>1, <1>8 DEF Resign, IInv, Running, Waiting, Current
  <2>2. log' = [log EXCEPT ![Current] = [log[Current] EXCEPT !.stamped = FALSE]]
    BY <1>8, <2>1 DEF Resign, Entry
  <2>3. log'[Current].verdict = log[Current].verdict
    BY SMT, <1>1, <2>1, <2>2 DEF Entry
  <2> QED
    BY <1>2, <1>4, <1>8, <2>3
<1>9. CASE n = Current /\ Check /\ Verdict("suppressed")
  <2>1. Side = "BUY" /\ tick.pc = "dedup" /\ \E hit \in BOOLEAN : seenRecently(hit) /\ (hit \/ UNCHANGED log)
    BY <1>9 DEF Check
  <2>2. CASE UNCHANGED log
    BY <1>6, <1>9, <2>2
  <2>3. CASE seenRecently(TRUE)
    <3>1. Recorded
      BY <1>1, <2>1, <2>3 DEF seenRecently, Recorded, MapHit
    <3>2. Backed
      BY <1>1, <2>1, <3>1 DEF Fresh
    <3>3. PICK m \in 1..Current : InBook(m) /\ \A k \in m..Current : log[k].side = "BUY"
      BY <3>2 DEF Backed
    <3>4. ~InBook(Current)
      BY <2>1 DEF IInv, Running, Waiting
    <3>5. m \in 1..n-1
      BY SMT, <1>1, <1>9, <3>3, <3>4
    <3>6. InBook(m)'
      BY <1>4, <3>3 DEF InBook
    <3>7. \A k \in m..n : k \in 1..Current
      BY SMT, <1>1, <1>9
    <3>8. \A k \in m..n : log'[k].side = "BUY"
      BY <1>4, <1>9, <3>3, <3>7
    <3> QED
      BY <3>5, <3>6, <3>8
  <2> QED
    BY <2>1, <2>2, <2>3
<1>10. CASE n = Current
  <2>1. CASE UNCHANGED log
    BY <1>6, <1>10, <2>1
  <2>2. ASSUME tick.pc \in Waiting, NEW v \in Verdicts \ {"suppressed"}, Verdict(v) PROVE FALSE
    BY <1>7, <1>10, <2>2
  <2> USE DEF Waiting, Verdicts
  <2>3. CASE Forget \/ Throw \/ Sign \/ Record \/ Commit
    BY <2>1, <2>3 DEF Forget, Throw, Sign, Record, Commit
  <2>4. CASE LandLate \/ Land \/ Adopted \/ Reconciled \/ Crash \/ Clock \/ UNCHANGED vars
    BY <2>1, <2>4 DEF LandLate, Land, Adopted, Reconciled, Crash, Clock, vars
  <2>5. CASE Check
    BY <1>9, <1>10, <2>1, <2>5 DEF Check
  <2>6. CASE Shed \/ Answer \/ Refuse \/ ServerError
    BY <2>2, <2>6 DEF Shed, Answer, Refuse, ServerError
  <2>7. ASSUME NEW believe, Concluded(believe) PROVE \E v \in Verdicts \ {"suppressed"} : Verdict(v)
    BY <2>7 DEF Concluded
  <2>8. CASE Probe \/ Reprobe
    <3>1. tick.pc \in Waiting
      BY <2>8 DEF Probe, Reprobe
    <3> QED
      BY <2>1, <2>2, <2>7, <2>8, <3>1 DEF Probe, Reprobe
  <2>9. CASE Resign
    BY <1>8, <1>10, <2>9
  <2> QED
    BY <2>3, <2>4, <2>5, <2>6, <2>8, <2>9 DEF Next
<1> QED
  BY <1>5, <1>10

Whole == IInv /\ Span /\ Budget /\ Guard /\ Fresh /\ SuppressedOnlyDuplicates

\* The invariants of the verdicts and of the guard always hold.
LEMMA WholeHolds == Spec => []Whole
<1> USE PlacementAssumption
<1>1. ASSUME Init PROVE Whole
  <2>1. MaxTime \in Nat /\ MaxOrders \in Nat /\ MaxFaults \in Nat /\ MaxResigns \in Nat /\ Window \in Nat
    BY DEF PlacementAssumption
  <2>2. Span
    BY SMT, <1>1, <2>1 DEF Init, Span, Times, Idle, Current, Never
  <2>3. Budget
    <3>1. faults \in 0..MaxFaults /\ resigns \in 0..MaxResigns /\ slice \in {"flat", "in"}
      BY SMT, <1>1, <2>1 DEF Init
    <3>2. holding \in BOOLEAN /\ converge \in BOOLEAN /\ gap \in BOOLEAN
      BY <1>1 DEF Init
    <3> QED
      BY <3>1, <3>2 DEF Budget
  <2>4. Guard
    <3>1. NoSet \in [members : SUBSET Sides, expires : 0..MaxTime + Window] /\ <<>> \in Seq(Commands)
      BY SMT, <2>1 DEF NoSet
    <3> QED
      BY <1>1, <3>1 DEF Init, Guard
  <2>5. Fresh
    BY <1>1 DEF Init, Fresh, Recorded, Idle, NoSet, Sides
  <2>6. SuppressedOnlyDuplicates
    BY SMT, <1>1 DEF Init, SuppressedOnlyDuplicates, Current
  <2> QED
    BY <1>1, <2>2, <2>3, <2>4, <2>5, <2>6, InitIInv DEF Whole
<1>2. ASSUME Whole, [Next]_vars PROVE Whole'
  <2>1. Fresh'
    <3>1. CASE faults' = 0
      BY <1>2, <3>1, FreshKeeps DEF Whole
    <3>2. CASE faults' # 0
      BY <3>2 DEF Fresh
    <3> QED
      BY <3>1, <3>2
  <2> QED
    BY <1>2, <2>1, NextKeeps, SpanKeeps, BudgetKeeps, GuardKeeps, SuppressedKeeps DEF Whole
<1> QED
  BY <1>1, <1>2, PTL DEF Spec

\* Every variable of the placement keeps its type, the instants and the attempts stay within
\* the run's bounds, and an order is never both waiting for an answer and on the book.
THEOREM PlacementTypes == Spec => []TypeOK
<1>1. Whole => TypeOK
  <2> SUFFICES ASSUME Whole PROVE TypeOK
    OBVIOUS
  <2> USE DEF Whole
  <2>1. tick \in [pc : Pcs, called : Times, signed : Times \cup {Never}]
    BY DEF IInv, Shape, Ticket, Span
  <2>2. Current \in Nat /\ MaxOrders \in Nat /\ Current <= MaxOrders /\ Margin \in Nat
    BY SMT, PlacementAssumption DEF IInv, Shape, Current, Span, PlacementAssumption
  <2>3. ASSUME NEW n \in 1..Current PROVE n \in Orders
    BY SMT, <2>2 DEF Orders
  <2>4. ASSUME NEW r \in wire PROVE r \in [n : Orders, signed : Times]
    BY <2>3 DEF IInv, Shape, Numbered, Span
  <2>5. ASSUME NEW o \in book PROVE o \in [n : Orders, time : -Margin..MaxTime]
    BY <2>3 DEF IInv, Shape, Numbered, Span
  <2>6. {r.n : r \in wire} \cap {o.n : o \in book} = {}
    BY DEF IInv, Numbered
  <2>7. mirror.members \subseteq Sides /\ mirror.expires \in 0..MaxTime + Window
        /\ late \in Seq(Sides \cup {"del"}) /\ seen \in [Sides -> Times \cup {Never}]
    BY DEF Guard, Commands
  <2>8. lag \in 0..Margin - 1
    BY SMT, <2>2 DEF IInv, Shape
  <2>9. log \in Seq([side : Sides, verdict : Verdicts, stamped : BOOLEAN, alone : BOOLEAN])
    BY DEF IInv, Shape, Entry
  <2> QED
    BY <2>1, <2>2, <2>4, <2>5, <2>6, <2>7, <2>8, <2>9 DEF TypeOK, Span, Budget
<1> QED
  BY <1>1, WholeHolds, PTL

\* placement-dedup.ts: while nothing fails the guard suppresses an entry only if one is on the
\* exchange since the last exit, for forgetSymbol empties both the Map and the mirror before an
\* exit goes out and an id is recorded only once its order has landed.
THEOREM GuardSuppressesDuplicates == Spec => []SuppressedOnlyDuplicates
<1>1. Whole => SuppressedOnlyDuplicates
  BY DEF Whole
<1> QED
  BY <1>1, WholeHolds, PTL

(* One fault.  An entry is kept from going out twice by two things: the     *)
(* slice that says "in", and the guard that knows of the entry.  Until the  *)
(* first fault both hold; one fault takes at most one of them.              *)

Still == faults = 0 /\ resigns = 0 /\ ~gap
Calm  == faults + resigns <= 1 /\ ~gap

\* When an order landed, by the client's clock.
Landing(o) == o.time + lag

\* The attempts m..n are entries.
Buys(m, n) == \A k \in m..n : log[k].side = "BUY"

Mirrored(o) == late = <<>> /\ "BUY" \in mirror.members /\ mirror.expires >= Landing(o) + Window

\* The guard keeps a further entry back until the window after this one has passed.
Protected(o) ==
  now >= Landing(o) + Window \/ seen["BUY"] >= Landing(o) \/ Mirrored(o)

Waits(n) == \E r \in wire : r.n = n /\ Landable(r)

Timely ==
  /\ \A o \in book : 0 <= Landing(o) /\ Landing(o) <= now
  /\ \A r \in wire : r.signed <= now

\* Before the first fault the slice follows the wallet, nothing is left on the wire, and a
\* second entry is not even tried.
Quiet ==
  Still =>
    /\ ~converge
    /\ \A r \in wire : tick.pc = "wire" /\ r.n = Current
    /\ tick.pc # "idle" /\ Side = "BUY" =>
         slice = "flat" /\ \A o \in book : o.n < Current => ~Buys(o.n, Current)
    /\ tick.pc = "idle" =>
         (slice = "in" => holding) /\ \A o \in book : Buys(o.n, Current) => slice = "in"
    /\ tick.pc # "idle" /\ Side = "SELL" /\ ~InBook(Current) => holding
    /\ tick.pc # "idle" /\ Side = "BUY" /\ InBook(Current) => holding
    /\ tick.pc \in {"record", "commit"} /\ Commits(log[Current].verdict) => InBook(Current)
    /\ tick.pc = "commit" /\ Side = "BUY" => \A o \in book : o.n = Current => Mirrored(o)

\* A probe follows the one fault, and with no re-signing before it the instant is known.
Informed ==
  /\ resigns = 0 => \A n \in 1..Current : log[n].stamped
  /\ tick.pc \in {"probe", "sleep"} => ~converge

\* What the strategy is told did not execute neither has landed nor can.
Refused ==
  \A n \in 1..Current :
    log[n].verdict \in {"suppressed", "pre-call", "rejected"} => ~InBook(n) /\ ~Waits(n)

\* An entry left on the wire is the last attempt before an exit; until the exit the slice
\* says "in", and no reconcile is queued that could say otherwise.
Strays ==
  \A r \in wire : Landable(r) /\ log[r.n].side = "BUY" =>
    /\ r.n < Current => log[r.n + 1].side = "SELL"
    /\ r.n = Current /\ tick.pc = "idle" => slice = "in" /\ ~converge
    /\ r.n = Current /\ tick.pc \in {"record", "commit"} => ~Still /\ ~converge

\* An entry on the book that no exit has followed is kept single by the guard or the slice.
Shelter ==
  \A o \in book : Buys(o.n, Current) =>
    /\ tick.pc = "idle" => Protected(o) \/ (slice = "in" /\ ~converge)
    /\ tick.pc = "commit" => Protected(o) \/ (o.n = Current /\ ~Still /\ ~converge)
    /\ tick.pc # "idle" /\ o.n < Current => Protected(o)
    /\ tick.pc \in {"call", "wire", "probe", "sleep"} /\ o.n < Current =>
         tick.called >= Landing(o) + Window

\* So whatever went out after it was signed when the window had passed.
Apart ==
  /\ \A r \in wire, o \in book : o.n < r.n /\ Buys(o.n, r.n) => r.signed >= Landing(o) + Window
  /\ \A a, b \in book : a.n < b.n /\ Buys(a.n, b.n) => b.time - a.time >= Window

Sheltered == Calm => Informed /\ Refused /\ Strays /\ Shelter /\ Apart

Base == PlacementAssumption /\ Whole /\ Timely

\* A gap in the slice is never forgotten.
LEMMA GapSteps == ASSUME [Next]_vars PROVE gap => gap'
<1> USE DEF budget
<1>1. CASE (\E side \in Sides : Emit(side)) \/ Shed \/ Sign \/ Resign \/ Answer \/ Refuse
  BY <1>1 DEF Emit, Shed, Sign, Resign, Answer, Refuse
<1>2. CASE ServerError \/ Throw \/ Commit \/ Crash \/ Forget \/ Record \/ Check
  BY <1>2 DEF ServerError, Throw, Commit, Crash, Forget, Record, Check
<1>3. CASE Probe \/ Reprobe
  BY <1>3 DEF Probe, Reprobe
<1>4. CASE LandLate \/ Land \/ Adopted \/ Reconciled \/ Clock \/ UNCHANGED vars
  BY <1>4 DEF LandLate, Land, Adopted, Reconciled, Clock, vars
<1> QED
  BY <1>1, <1>2, <1>3, <1>4 DEF Next

\* The first fault is the step out of the quiet states.
LEMMA Calmer ==
  ASSUME Budget, [Next]_vars
  PROVE  /\ Still' => Still /\ ~Fault /\ ~Resign
         /\ Calm' => Calm
         /\ Calm' /\ (Fault \/ Resign) => Still /\ ~Still'
<1>1. faults \in Nat /\ resigns \in Nat
  BY SMT DEF Budget
<1>2. faults' = faults \/ faults' = faults + 1
  BY FaultSteps DEF Fault
<1>3. resigns' = resigns \/ resigns' = resigns + 1
  BY ResignSteps
<1>4. (Fault => faults' = faults + 1) /\ (Resign => resigns' = resigns + 1)
  BY DEF Fault, Resign
<1>5. gap => gap'
  BY GapSteps
<1>6. Still' => Still /\ ~Fault /\ ~Resign
  BY SMT, <1>1, <1>2, <1>3, <1>4, <1>5 DEF Still
<1>7. Calm' => Calm
  BY SMT, <1>1, <1>2, <1>3, <1>5 DEF Calm
<1>8. Calm' /\ (Fault \/ Resign) => Still /\ ~Still'
  BY SMT, <1>1, <1>2, <1>3, <1>4, <1>5 DEF Still, Calm
<1> QED
  BY <1>6, <1>7, <1>8

\* Time does not go back, and the lag of the clocks is fixed.
LEMMA TimeSteps ==
  ASSUME Base, [Next]_vars PROVE lag' = lag /\ lag \in Nat /\ now \in Nat /\ now' \in Nat /\ now' >= now
<1> USE DEF exchange
<1>1. lag \in Nat /\ now \in Nat
  BY DEF Base, Whole, IInv, Shape
<1>2. now' \in Nat /\ now' >= now
  BY SMT, <1>1, NowSteps DEF Clock
<1>3. lag' = lag
  <2>1. CASE (\E side \in Sides : Emit(side)) \/ Shed \/ Sign \/ Resign \/ Answer \/ Refuse
    BY <2>1 DEF Emit, Shed, Sign, Resign, Answer, Refuse
  <2>2. CASE ServerError \/ Throw \/ Commit \/ Check \/ Probe \/ Reprobe
    BY <2>2 DEF ServerError, Throw, Commit, Check, Probe, Reprobe
  <2>3. CASE Land \/ Adopted \/ Reconciled \/ UNCHANGED vars
    BY <2>3 DEF Land, Adopted, Reconciled, vars
  <2>4. CASE LandLate \/ Crash \/ Forget \/ Record \/ Clock
    BY <2>4 DEF LandLate, Crash, Forget, Record, Clock
  <2> QED
    BY <2>1, <2>2, <2>3, <2>4 DEF Next
<1> QED
  BY <1>1, <1>2, <1>3

\* A request that is on the wire after a step was there before, or has just been signed.
LEMMA WireSteps ==
  ASSUME [Next]_vars
  PROVE  \A r \in wire' : r \in wire \/ ((Sign \/ Resign) /\ r = [n |-> Current, signed |-> now])
<1> USE DEF exchange
<1>1. CASE (\E side \in Sides : Emit(side)) \/ Shed \/ Answer
  BY <1>1 DEF Emit, Shed, Answer
<1>5. CASE Sign
  BY <1>5 DEF Sign
<1>6. CASE Resign
  BY <1>6 DEF Resign
<1>7. CASE Refuse
  BY <1>7 DEF Refuse
<1>2. CASE ServerError \/ Throw \/ Commit \/ Check \/ Probe \/ Reprobe
  BY <1>2 DEF ServerError, Throw, Commit, Check, Probe, Reprobe
<1>3. CASE Land \/ Adopted \/ Reconciled \/ UNCHANGED vars
  BY <1>3 DEF Land, Adopted, Reconciled, vars
<1>4. CASE LandLate \/ Crash \/ Forget \/ Record \/ Clock
  BY <1>4 DEF LandLate, Crash, Forget, Record, Clock
<1> QED
  BY <1>1, <1>2, <1>3, <1>4, <1>5, <1>6, <1>7 DEF Next

\* The book changes when a request lands.
LEMMA BookSteps ==
  ASSUME [Next]_vars PROVE book' = book \/ Land
<1> USE DEF exchange
<1>1. CASE (\E side \in Sides : Emit(side)) \/ Shed \/ Sign \/ Resign \/ Answer \/ Refuse
  BY <1>1 DEF Emit, Shed, Sign, Resign, Answer, Refuse
<1>2. CASE ServerError \/ Throw \/ Commit \/ Check \/ Probe \/ Reprobe
  BY <1>2 DEF ServerError, Throw, Commit, Check, Probe, Reprobe
<1>3. CASE Adopted \/ Reconciled \/ UNCHANGED vars
  BY <1>3 DEF Adopted, Reconciled, vars
<1>4. CASE LandLate \/ Crash \/ Forget \/ Record \/ Clock
  BY <1>4 DEF LandLate, Crash, Forget, Record, Clock
<1> QED
  BY <1>1, <1>2, <1>3, <1>4 DEF Next

\* What the proofs below use of the parts of the invariant.
LEMMA Facts ==
  ASSUME Base
  PROVE  /\ Current \in Nat /\ Window \in Nat /\ Recv \in Nat /\ now \in Nat /\ lag \in Nat
         /\ log \in Seq(Entry) /\ tick \in Ticket
         /\ \A r \in wire : r.n \in 1..Current /\ r.signed \in Nat /\ r.signed <= now
         /\ \A o \in book : /\ o.n \in 1..Current /\ o.time \in Int /\ Landing(o) \in Nat
                            /\ Landing(o) <= now /\ Landing(o) = o.time + lag
<1>1. Current \in Nat /\ now \in Nat /\ lag \in Nat /\ log \in Seq(Entry) /\ tick \in Ticket
      /\ wire \subseteq [n : Nat, signed : Nat] /\ book \subseteq [n : Nat, time : Int]
  BY SMT DEF Base, Whole, IInv, Shape, Current
<1>2. Window \in Nat /\ Recv \in Nat
  BY DEF Base, PlacementAssumption
<1>3. (\A r \in wire : r.n \in 1..Current) /\ (\A o \in book : o.n \in 1..Current)
  BY DEF Base, Whole, IInv, Numbered
<1>4. \A r \in wire : r.signed \in Nat /\ r.signed <= now
  BY <1>1 DEF Base, Timely
<1>5. ASSUME NEW o \in book
      PROVE  o.time \in Int /\ Landing(o) \in Nat /\ Landing(o) <= now /\ Landing(o) = o.time + lag
  <2>1. o.time \in Int
    BY <1>1
  <2> QED
    BY SMT, <1>1, <2>1 DEF Base, Timely, Landing
<1> QED
  BY <1>1, <1>2, <1>3, <1>4, <1>5

\* A landing moves one request that Binance still admits to the book.
LEMMA Landings ==
  ASSUME Base, Land
  PROVE  \E q \in wire :
           /\ Landable(q) /\ wire' = wire \ {q}
           /\ book' = book \cup {[n |-> q.n, time |-> now - lag]}
           /\ holding' = (log[q.n].side = "BUY")
           /\ UNCHANGED <<now, lag, slice, tick, log, converge, seen, mirror, late, faults, resigns, gap>>
BY DEF Land, dedup, budget

\* Nothing landed or was signed later than now.
LEMMA TimelyKeeps ==
  ASSUME Base, [Next]_vars PROVE Timely'
<1>1. /\ lag' = lag /\ lag \in Nat /\ now \in Nat /\ now' \in Nat /\ now' >= now
      /\ \A r \in wire : r.signed \in Nat /\ r.signed <= now
      /\ \A o \in book : o.time \in Int /\ o.time + lag \in Nat /\ o.time + lag <= now
  BY Facts, TimeSteps DEF Landing
<1>2. ASSUME NEW r \in wire' PROVE r.signed <= now'
  BY SMT, <1>1, WireSteps
<1>3. ASSUME NEW o \in book' PROVE 0 <= o.time + lag /\ o.time + lag <= now'
  <2>1. CASE o \in book
    BY SMT, <1>1, <2>1
  <2>2. CASE o \notin book
    <3>1. Land
      BY <2>2, BookSteps
    <3>2. PICK q \in wire : book' = book \cup {[n |-> q.n, time |-> now - lag]} /\ now' = now
      BY <3>1, Landings
    <3>3. o.time = now - lag
      BY SMT, <2>2, <3>2
    <3> QED
      BY SMT, <1>1, <3>2, <3>3
  <2> QED
    BY <2>1, <2>2
<1> QED
  BY <1>1, <1>2, <1>3 DEF Timely, Landing

\* What was on its way and cannot land does not later become landable.
LEMMA StillLandable ==
  ASSUME Base, [Next]_vars, NEW r \in wire, Landable(r)' PROVE Landable(r)
<1>1. lag' = lag /\ lag \in Nat /\ now \in Nat /\ now' \in Nat /\ now' >= now /\ r.signed \in Nat /\ Recv \in Nat
  BY Facts, TimeSteps
<1> QED
  BY SMT, <1>1 DEF Landable

\* The attempt that begins.
LEMMA Begins ==
  ASSUME Base, NEW side \in Sides, Emit(side)
  PROVE  /\ Current' = Current + 1 /\ Current \in Nat
         /\ \A k \in 1..Current : log'[k] = log[k]
         /\ log'[Current'].side = side /\ log'[Current'].verdict = "none" /\ log'[Current'].stamped
         /\ Side' = side /\ side = (IF slice = "flat" THEN "BUY" ELSE "SELL")
         /\ tick.pc = "idle" /\ tick'.pc = "dedup"
         /\ UNCHANGED <<now, lag, slice, wire, book, holding, converge, seen, mirror, late, faults, resigns, gap>>
<1>1. log \in Seq(Entry) /\ tick \in Ticket /\ Current \in Nat
  BY Facts
<1>2. PICK e : log' = Append(log, e) /\ e.side = side /\ e.verdict = "none" /\ e.stamped
  <2> DEFINE x == [side |-> side, verdict |-> "none", stamped |-> TRUE,
                   alone |-> \A r \in wire : ~Landable(r)]
  <2>1. log' = Append(log, x)
    BY DEF Emit
  <2>2. x.side = side /\ x.verdict = "none" /\ x.stamped
    OBVIOUS
  <2> HIDE DEF x
  <2> QED
    BY <2>1, <2>2
<1>3. Current' = Current + 1 /\ log'[Current'] = e /\ \A k \in 1..Current : log'[k] = log[k]
  BY SMT, <1>1, <1>2 DEF Current
<1>4. tick.pc = "idle" /\ tick'.pc = "dedup"
  BY <1>1 DEF Emit, At, Ticket
<1>5. UNCHANGED <<now, lag, slice, wire, book, holding, converge, seen, mirror, late, faults, resigns, gap>>
      /\ side = (IF slice = "flat" THEN "BUY" ELSE "SELL")
  BY DEF Emit, exchange, dedup, budget
<1> QED
  BY <1>1, <1>2, <1>3, <1>4, <1>5 DEF Side

\* The sides of a stretch of attempts do not change.
LEMMA BuysKept ==
  ASSUME Base, [Next]_vars, NEW m \in Nat, NEW n \in 1..Current, m >= 1 PROVE Buys(m, n)' = Buys(m, n)
<1>1. \A k \in 1..Current : log'[k].side = log[k].side
  <2>1. CASE \E side \in Sides : Emit(side)
    BY <2>1, Begins
  <2>2. CASE ~\E side \in Sides : Emit(side)
    BY <2>2, Kept DEF Base, Whole
  <2> QED
    BY <2>1, <2>2
<1>2. \A k \in m..n : k \in 1..Current
  BY SMT, Facts
<1> QED
  BY <1>1, <1>2 DEF Buys

\* Before its signature an attempt is nowhere on the exchange.
LEMMA Unsent ==
  ASSUME Base, tick.pc \in {"dedup", "call"}
  PROVE  ~InBook(Current) /\ \A r \in wire : r.n # Current
<1>1. tick.pc \in Waiting /\ tick.signed = Never
  BY DEF Base, Whole, IInv, Running, Waiting
<1>2. ~InBook(Current) /\ \A r \in wire : r.n = Current => r.signed = Never
  BY <1>1 DEF Base, Whole, IInv, Running
<1>3. \A r \in wire : r.signed # Never
  BY SMT, Facts DEF Never
<1> QED
  BY <1>2, <1>3

\* An order that is still on the wire is not in the book.
LEMMA OnWire == ASSUME Base, Mine # {} PROVE ~InBook(Current)
BY DEF Base, Whole, IInv, Numbered, Mine, InBook

\* The running attempt is told its verdict, its other fields and the others' stay.
LEMMA Told ==
  ASSUME Base, tick.pc \in Waiting, NEW v \in Verdicts, Verdict(v)
  PROVE  Current' = Current /\ log'[Current].verdict = v
<1>1. log \in Seq(Entry) /\ Current >= 1
  BY DEF Base, Whole, IInv, Shape, Running
<1> QED
  BY <1>1, VerdictStep

\* Only a placement or a re-signing changes a signing stamp.
LEMMA StampKept ==
  ASSUME Base, [Next]_vars, ~Resign, ~\E side \in Sides : Emit(side)
  PROVE  \A n \in 1..Current : log'[n].stamped = log[n].stamped
<1>1. CASE UNCHANGED log
  BY <1>1
<1>2. ASSUME tick.pc \in Waiting, NEW v \in Verdicts, Verdict(v)
      PROVE  \A n \in 1..Current : log'[n].stamped = log[n].stamped
  <2>1. log \in Seq(Entry) /\ Current >= 1
    BY <1>2 DEF Base, Whole, IInv, Shape, Running
  <2> QED
    BY <1>2, <2>1, VerdictStep
<1> QED
  BY <1>1, <1>2, LogSteps

\* With one fault at most, a probe knows the instant it asks about.
LEMMA InformedKeeps ==
  ASSUME Base, Quiet, Informed, [Next]_vars, Calm' PROVE Informed'
<1> USE DEF At
<1>1. ASSUME resigns' = 0, NEW n \in 1..Current' PROVE log'[n].stamped
  <2>1. resigns \in Nat
    BY SMT DEF Base, Whole, Budget
  <2>2. resigns = 0 /\ ~Resign
    BY SMT, <1>1, <2>1, ResignSteps DEF Resign
  <2>3. \A k \in 1..Current : log[k].stamped
    BY <2>2 DEF Informed
  <2>4. ASSUME NEW side \in Sides, Emit(side) PROVE log'[n].stamped
    <3>1. Current' = Current + 1 /\ Current \in Nat /\ log'[Current'].stamped
          /\ \A k \in 1..Current : log'[k] = log[k]
      BY <2>4, Begins
    <3>2. n = Current' \/ n \in 1..Current
      BY SMT, <3>1
    <3> QED
      BY <2>3, <3>1, <3>2
  <2>5. CASE ~\E side \in Sides : Emit(side)
    BY <2>2, <2>3, <2>5, StampKept, Kept DEF Base, Whole
  <2> QED
    BY <2>4, <2>5
<1>2. ASSUME tick'.pc \in {"probe", "sleep"} PROVE ~converge'
  <2>1. tick \in Ticket /\ Done.pc = "commit" /\ Idle.pc = "idle"
    BY Facts DEF Done, Idle
  <2>2. ASSUME NEW pc PROVE [tick EXCEPT !.pc = pc].pc = pc
    BY <2>1 DEF Ticket
  <2>3. CASE Throw
    <3>1. Still
      BY <2>3, Calmer DEF Throw, Base, Whole
    <3> QED
      BY <2>3, <3>1 DEF Throw, Quiet
  <2>4. CASE tick.pc \in {"probe", "sleep"} /\ UNCHANGED converge
    BY <2>4 DEF Informed
  <2>5. CASE (\E side \in Sides : Emit(side)) \/ Shed \/ Answer \/ Refuse \/ ServerError
    BY <1>2, <2>1, <2>2, <2>5 DEF Emit, Shed, Answer, Refuse, ServerError
  <2>6. CASE Sign \/ Resign \/ Forget
    BY <1>2, <2>1, <2>6 DEF Sign, Resign, Forget, Ticket
  <2>7. CASE Check
    BY <1>2, <2>1, <2>7 DEF Check, Ticket
  <2>8. CASE Record \/ Commit \/ Crash
    BY <1>2, <2>1, <2>8 DEF Record, Commit, Crash
  <2>9. CASE Probe \/ Reprobe
    BY <2>4, <2>9 DEF Probe, Reprobe
  <2>10. CASE Adopted \/ Reconciled
    BY <1>2, <2>10 DEF Adopted, Reconciled
  <2>11. CASE LandLate \/ Land \/ Clock \/ UNCHANGED vars
    BY <1>2, <2>4, <2>11 DEF LandLate, Land, Clock, vars
  <2> QED
    BY <2>3, <2>5, <2>6, <2>7, <2>8, <2>9, <2>10, <2>11 DEF Next
<1> QED
  BY <1>1, <1>2 DEF Informed

\* A verdict that says the order did not execute is given only when it has not and cannot.
LEMMA RefusedNow ==
  ASSUME Base, Base', Quiet, Informed, Informed', [Next]_vars, Calm', ~\E side \in Sides : Emit(side),
         Current >= 1, log'[Current].verdict \in {"suppressed", "pre-call", "rejected"}
  PROVE  \/ log[Current].verdict = log'[Current].verdict
         \/ ~InBook(Current)' /\ ~Waits(Current)'
<1> USE DEF At, exchange
<1> DEFINE Off == ~InBook(Current)' /\ ~Waits(Current)'
<1>1. CASE UNCHANGED log
  BY <1>1
<1>2. Current' = Current
  BY Kept DEF Base, Whole
<1>3. CASE (Check \/ Shed) /\ UNCHANGED <<wire, book>>
  <2>1. tick.pc \in {"dedup", "call"}
    BY <1>3 DEF Check, Shed
  <2> QED
    BY <1>2, <1>3, <2>1, Unsent DEF InBook, Waits
<1>4. CASE Refuse
  <2>1. wire' = wire \ Mine /\ book' = book /\ Mine # {}
    BY <1>4 DEF Refuse
  <2>2. ~InBook(Current)
    BY <2>1, OnWire
  <2> QED
    BY <1>2, <2>1, <2>2 DEF InBook, Waits, Mine
<1>5. ASSUME tick.pc \in Waiting, NEW v \in Verdicts, Verdict(v)
      PROVE  v \in {"suppressed", "pre-call", "rejected"}
  BY <1>5, Told
<1>6. CASE Probe \/ Reprobe
  <2>1. CASE Verdict("rejected")
    <3>1. tick.pc \in {"probe", "sleep"} /\ tick.pc \in Waiting
      BY <1>6 DEF Probe, Reprobe, Waiting
    <3>2. log'[Current].verdict = "rejected"
      BY <2>1, <3>1, Told DEF Verdicts
    <3>3. faults # 0
      BY <3>1 DEF Base, Whole, Fresh
    <3>4. resigns' = 0
      <4>1. faults \in Nat /\ resigns \in Nat /\ resigns' = resigns
        <5>1. faults \in Nat /\ resigns \in Nat
          BY SMT DEF Base, Whole, Budget
        <5>2. resigns' = resigns
          BY <1>6 DEF Probe, Reprobe
        <5> QED
          BY <5>1, <5>2
      <4>2. Calm
        BY Calmer DEF Base, Whole
      <4> QED
        BY SMT, <3>3, <4>1, <4>2 DEF Calm
    <3>6. Current \in 1..Current'
      BY SMT, <1>2, Facts
    <3>5. log'[Current].stamped
      BY <3>4, <3>6 DEF Informed
    <3>7. Dead'
      BY DEF Base, Whole, IInv
    <3> QED
      BY <1>2, <3>2, <3>5, <3>6, <3>7 DEF Dead, InBook, Waits
  <2>2. CASE ~Verdict("rejected")
    <3>1. tick.pc \in Waiting
      BY <1>6 DEF Probe, Reprobe, Waiting
    <3>2. ~Verdict("ambiguous") /\ ~Verdict("accepted")
      BY <1>5, <3>1 DEF Verdicts
    <3>3. ASSUME NEW believe, Concluded(believe) PROVE FALSE
      BY <2>2, <3>2, <3>3 DEF Concluded
    <3> QED
      BY <1>1, <1>6, <3>3 DEF Probe, Reprobe
  <2> QED
    BY <2>1, <2>2
<1>7. CASE Resign
  <2>1. Current \in 1..Len(log) /\ log[Current] \in Entry /\ log \in Seq(Entry)
    BY SMT, Facts DEF Current
  <2>2. log' = [log EXCEPT ![Current] = [log[Current] EXCEPT !.stamped = FALSE]]
    BY <1>7, <2>1 DEF Resign, Entry
  <2> QED
    BY SMT, <2>1, <2>2 DEF Entry
<1>8. CASE Answer \/ ServerError
  <2>1. tick.pc \in Waiting
    BY <1>8 DEF Answer, ServerError, Waiting
  <2> QED
    BY <1>5, <1>8, <2>1 DEF Answer, ServerError, Verdicts
<1>9. CASE Forget \/ Throw \/ Sign \/ Record \/ Commit
  BY <1>1, <1>9 DEF Forget, Throw, Sign, Record, Commit
<1>10. CASE LandLate \/ Land \/ Adopted \/ Reconciled \/ Crash \/ Clock \/ UNCHANGED vars
  BY <1>1, <1>10 DEF LandLate, Land, Adopted, Reconciled, Crash, Clock, vars
<1>11. Check \/ Shed => UNCHANGED <<wire, book>>
  BY DEF Check, Shed
<1> QED
  BY <1>3, <1>4, <1>6, <1>7, <1>8, <1>9, <1>10, <1>11 DEF Next

\* With one fault at most, an attempt declared not executed stays off the book.
LEMMA RefusedKeeps ==
  ASSUME Base, Base', Quiet, Informed, Informed', Refused, [Next]_vars, Calm' PROVE Refused'
<1> SUFFICES ASSUME NEW n \in 1..Current', log'[n].verdict \in {"suppressed", "pre-call", "rejected"}
             PROVE  ~InBook(n)' /\ ~Waits(n)'
  BY DEF Refused
<1>1. Current \in Nat
  BY Facts
<1>2. ASSUME n \in 1..Current, log[n].verdict = log'[n].verdict PROVE ~InBook(n)' /\ ~Waits(n)'
  <2>1. ~InBook(n) /\ ~Waits(n)
    BY <1>2 DEF Refused
  <2>2. ~InBook(n)'
    <3> SUFFICES ASSUME NEW o \in book', o.n = n PROVE FALSE
      BY DEF InBook
    <3>1. o \notin book /\ Land
      BY <2>1, BookSteps DEF InBook
    <3>2. PICK q \in wire : Landable(q) /\ book' = book \cup {[n |-> q.n, time |-> now - lag]}
      BY <3>1, Landings
    <3>3. q.n = n
      BY SMT, <3>1, <3>2
    <3> QED
      BY <2>1, <3>2, <3>3 DEF Waits
  <2>3. ~Waits(n)'
    <3> SUFFICES ASSUME NEW r \in wire', r.n = n, Landable(r)' PROVE FALSE
      BY DEF Waits
    <3>1. r \notin wire
      BY <2>1, StillLandable DEF Waits
    <3>2. (Sign \/ Resign) /\ n = Current
      BY SMT, <3>1, WireSteps
    <3>3. log[Current].verdict = "none"
      BY <3>2 DEF Sign, Resign, At, Base, Whole, IInv, Running, Waiting
    <3> QED
      BY <1>2, <3>2, <3>3
  <2> QED
    BY <2>2, <2>3
<1>3. ASSUME NEW side \in Sides, Emit(side) PROVE ~InBook(n)' /\ ~Waits(n)'
  <2>1. Current' = Current + 1 /\ log'[Current'].verdict = "none" /\ \A k \in 1..Current : log'[k] = log[k]
    BY <1>3, Begins
  <2>2. n # Current'
    BY <2>1
  <2>3. n \in 1..Current
    BY SMT, <1>1, <2>1, <2>2
  <2> QED
    BY <1>2, <2>1, <2>3
<1>4. CASE ~\E side \in Sides : Emit(side)
  <2>1. Current' = Current /\ \A k \in 1..Current : k # Current => log'[k] = log[k]
    BY <1>4, Kept DEF Base, Whole
  <2>2. CASE n # Current
    BY <1>2, <2>1, <2>2
  <2>3. CASE n = Current
    <3>1. Current >= 1 /\ n \in 1..Current
      BY SMT, <1>1, <2>1
    <3> QED
      BY <1>2, <1>4, <2>1, <2>3, <3>1, RefusedNow DEF InBook, Waits
  <2> QED
    BY <2>2, <2>3
<1> QED
  BY <1>3, <1>4

-----------------------------------------------------------------------------
\* Steps that leave the tick where it is.
Aside == LandLate \/ Land \/ Adopted \/ Reconciled \/ Clock \/ UNCHANGED vars

\* A step of the surroundings leaves the handler and the guard alone.
LEMMA AsideKeeps == ASSUME Aside PROVE UNCHANGED <<tick, log, seen, faults, resigns, gap>>
<1> USE DEF dedup, budget
<1>1. CASE LandLate \/ Land \/ Clock
  BY <1>1 DEF LandLate, Land, Clock
<1>2. CASE Adopted \/ Reconciled \/ UNCHANGED vars
  BY <1>2 DEF Adopted, Reconciled, vars
<1> QED
  BY <1>1, <1>2 DEF Aside

\* The steps by which a tick ends, gets its verdict, and is under way to Binance.
LEMMA TickSteps ==
  ASSUME Base, [Next]_vars
  PROVE  /\ tick'.pc = "idle" => Commit \/ Crash \/ Aside
         /\ tick'.pc \in {"record", "commit"} =>
              Check \/ Shed \/ Answer \/ Refuse \/ ServerError \/ Probe \/ Reprobe \/ Record \/ Aside
         /\ tick'.pc \in {"call", "wire", "probe", "sleep"} =>
              \/ Forget \/ (Check /\ tick'.called = now)
              \/ tick.pc \in {"call", "wire", "probe", "sleep"} /\ tick'.called = tick.called
         /\ tick'.pc = "dedup" => (\E side \in Sides : Emit(side)) \/ Aside
<1> USE DEF At
<1>1. tick \in Ticket /\ Done.pc = "commit" /\ Idle.pc = "idle"
  BY Facts DEF Done, Idle
<1>2. CASE \E side \in Sides : Emit(side)
  BY <1>2, Begins
<1>3. CASE Aside
  <2>1. tick' = tick
    BY <1>3, AsideKeeps
  <2> QED
    BY <1>3, <2>1
<1>4. CASE Forget
  BY <1>1, <1>4 DEF Forget, Ticket
<1>5. CASE Check
  <2>1. tick' = Done \/ tick' = [tick EXCEPT !.pc = "call", !.called = now]
    BY <1>5 DEF Check
  <2> QED
    BY <1>1, <1>5, <2>1 DEF Ticket
<1>6. CASE Shed \/ Refuse \/ ServerError \/ Record
  BY <1>1, <1>6 DEF Shed, Refuse, ServerError, Record
<1>7. CASE Sign \/ Resign
  BY <1>1, <1>7 DEF Sign, Resign, Ticket
<1>8. CASE Answer
  BY <1>1, <1>8 DEF Answer, Ticket
<1>9. CASE Throw
  BY <1>1, <1>9 DEF Throw, Ticket
<1>10. CASE Probe \/ Reprobe
  <2>1. tick' = Done \/ (\E pc \in {"record", "sleep"} : tick' = [tick EXCEPT !.pc = pc])
    BY <1>10 DEF Probe, Reprobe, Concluded
  <2>2. tick.pc \in {"probe", "sleep"}
    BY <1>10 DEF Probe, Reprobe
  <2> QED
    BY <1>1, <1>10, <2>1, <2>2 DEF Ticket
<1>11. CASE Commit \/ Crash
  BY <1>1, <1>11 DEF Commit, Crash
<1> QED
  BY <1>2, <1>3, <1>4, <1>5, <1>6, <1>7, <1>8, <1>9, <1>10, <1>11 DEF Next, Aside

\* A fault, once it has happened, has happened.
LEMMA Faulted == ASSUME Base, [Next]_vars PROVE (~Still => ~Still') /\ (faults # 0 => ~Still')
<1>1. Budget
  BY DEF Base, Whole
<1>2. ~Still => ~Still'
  BY <1>1, Calmer
<1>3. faults # 0 => ~Still
  BY DEF Still
<1> QED
  BY <1>2, <1>3

\* With one fault at most, an entry left on the wire keeps the slice "in" until an exit.
LEMMA StraysKeep ==
  ASSUME Base, Quiet, Informed, Refused, Strays, [Next]_vars, Calm' PROVE Strays'
<1> USE DEF At
<1> SUFFICES ASSUME NEW r \in wire', Landable(r)', log'[r.n].side = "BUY"
             PROVE  /\ r.n < Current' => log'[r.n + 1].side = "SELL"
                    /\ r.n = Current' /\ tick'.pc = "idle" => slice' = "in" /\ ~converge'
                    /\ r.n = Current' /\ tick'.pc \in {"record", "commit"} => ~Still' /\ ~converge'
  BY DEF Strays
<1>1. Current \in Nat /\ Calm
  BY Facts, Calmer DEF Base, Whole
<1>2. ASSUME r \in wire
      PROVE  r.n \in 1..Current /\ Landable(r)
  BY <1>2, Facts, StillLandable
<1>3. ASSUME NEW side \in Sides, Emit(side)
      PROVE  /\ r.n < Current' => log'[r.n + 1].side = "SELL"
             /\ r.n # Current'
  <2>1. /\ Current' = Current + 1 /\ \A k \in 1..Current : log'[k] = log[k]
        /\ log'[Current'].side = side /\ side = (IF slice = "flat" THEN "BUY" ELSE "SELL")
        /\ tick.pc = "idle" /\ wire' = wire
    BY <1>3, Begins
  <2>2. r \in wire /\ r.n \in 1..Current /\ Landable(r) /\ log[r.n].side = "BUY"
    BY <1>2, <2>1
  <2>3. CASE r.n = Current
    <3>1. slice = "in"
      BY <2>1, <2>2, <2>3 DEF Strays
    <3> QED
      BY <1>1, <2>1, <2>2, <2>3, <3>1
  <2>4. CASE r.n < Current
    <3>1. log[r.n + 1].side = "SELL"
      BY <2>2, <2>4 DEF Strays
    <3>2. r.n + 1 \in 1..Current
      BY SMT, <1>1, <2>2, <2>4
    <3> QED
      BY SMT, <1>1, <2>1, <2>2, <3>1, <3>2
  <2> QED
    BY SMT, <1>1, <2>2, <2>3, <2>4
<1>4. ASSUME ~\E side \in Sides : Emit(side)
      PROVE  /\ r.n < Current' => log'[r.n + 1].side = "SELL"
             /\ r.n = Current' /\ tick'.pc = "idle" => slice' = "in" /\ ~converge'
             /\ r.n = Current' /\ tick'.pc \in {"record", "commit"} => ~Still' /\ ~converge'
  <2>1. Current' = Current /\ \A k \in 1..Current : log'[k].side = log[k].side
    BY <1>4, Kept DEF Base, Whole
  <2>2. ASSUME r.n < Current PROVE log'[r.n + 1].side = "SELL"
    <3>1. r.n # Current
      BY SMT, <1>1, <2>2
    <3>2. r \in wire
      BY SMT, <3>1, WireSteps
    <3>3. r.n \in 1..Current /\ Landable(r)
      BY <1>2, <3>2
    <3>4. log[r.n + 1].side = "SELL"
      BY <2>1, <2>2, <3>2, <3>3 DEF Strays
    <3>5. r.n + 1 \in 1..Current
      BY SMT, <1>1, <2>2, <3>3
    <3> QED
      BY <2>1, <3>4, <3>5
  <2>3. tick'.pc # "wire" => r \in wire
    <3>1. Sign \/ Resign => tick'.pc = "wire"
      <4>1. tick \in Ticket
        BY Facts
      <4> QED
        BY <4>1 DEF Sign, Resign, Ticket
    <3> QED
      BY <3>1, WireSteps
  <2>4. ASSUME r.n = Current, r \in wire
        PROVE  /\ Landable(r) /\ Current \in 1..Current /\ log[r.n].side = "BUY" /\ Side = "BUY"
               /\ tick.pc = "idle" => slice = "in" /\ ~converge
               /\ tick.pc \in {"record", "commit"} => ~Still /\ ~converge
    <3>1. Landable(r) /\ Current \in 1..Current
      BY <1>2, <2>4
    <3>2. log[r.n].side = "BUY" /\ Side = "BUY"
      BY <2>1, <2>4, <3>1 DEF Side
    <3> QED
      BY <2>4, <3>1, <3>2 DEF Strays
  <2>5. ASSUME r.n = Current, tick'.pc = "idle" PROVE slice' = "in" /\ ~converge'
    <3>1. r \in wire
      BY <2>3, <2>5
    <3>2. CASE Commit
      <4>1. tick.pc = "commit" /\ converge' = converge
        BY <3>2 DEF Commit
      <4>2. ~Still /\ ~converge /\ Side = "BUY"
        BY <2>4, <2>5, <3>1, <4>1
      <4>3. ~Fault
        BY <4>2, Calmer DEF Base, Whole
      <4>4. Commits(log[Current].verdict)
        <5>1. Waits(Current) /\ Current \in 1..Current
          BY <2>4, <2>5, <3>1 DEF Waits
        <5> QED
          BY <5>1 DEF Refused, Commits
      <4> QED
        BY SMT, <3>2, <4>1, <4>2, <4>3, <4>4 DEF Commit
    <3>3. CASE Crash
      <4>1. Fault /\ (tick.pc = "wire" => gap')
        BY <3>3 DEF Crash
      <4>2. Still
        BY <4>1, Calmer DEF Base, Whole
      <4>3. tick.pc = "wire"
        BY <3>1, <4>2 DEF Quiet
      <4> QED
        BY <4>1, <4>3 DEF Calm
    <3>4. CASE Aside
      <4>1. slice = "in" /\ ~converge
        <5>1. tick' = tick
          BY <3>4, AsideKeeps
        <5> QED
          BY <2>4, <2>5, <3>1, <5>1
      <4>2. ~Reconciled
        BY <4>1 DEF Reconciled
      <4> QED
        BY SMT, <3>4, <4>1, <4>2 DEF Aside, LandLate, Land, Adopted, Clock, vars
    <3> QED
      BY <2>5, <3>2, <3>3, <3>4, TickSteps
  <2>6. ASSUME r.n = Current, tick'.pc \in {"record", "commit"} PROVE ~Still' /\ ~converge'
    <3>1. r \in wire
      BY <2>3, <2>6
    <3>2. CASE Check \/ Shed
      <4>1. tick.pc \in {"dedup", "call"}
        BY <3>2 DEF Check, Shed
      <4> QED
        BY <2>6, <3>1, <4>1, Unsent
    <3>3. CASE Answer
      BY <2>6, <3>1, <3>3 DEF Answer, Landed, Base, Whole, IInv, Numbered
    <3>4. CASE Refuse
      BY <2>6, <3>4 DEF Refuse, Mine
    <3>5. CASE ServerError
      <4>1. Still /\ ~Still'
        BY <3>5, Calmer DEF ServerError, Base, Whole
      <4> QED
        BY <3>5, <4>1 DEF ServerError, Quiet
    <3>6. CASE Probe \/ Reprobe
      <4>1. tick.pc \in {"probe", "sleep"} /\ converge' = converge
        BY <3>6 DEF Probe, Reprobe
      <4>2. faults # 0 /\ ~converge
        BY <4>1 DEF Base, Whole, Fresh, Informed
      <4> QED
        BY <4>1, <4>2, Faulted
    <3>7. CASE Record
      <4>1. tick.pc = "record" /\ converge' = converge
        BY <3>7 DEF Record
      <4> QED
        BY <2>4, <2>6, <3>1, <4>1, Faulted
    <3>8. CASE Aside
      <4>1. tick' = tick
        BY <3>8, AsideKeeps
      <4>2. ~Still /\ ~converge /\ tick.pc # "idle"
        BY <2>4, <2>6, <3>1, <4>1
      <4>3. converge' = converge
        BY <3>8, <4>2 DEF Aside, LandLate, Land, Adopted, Reconciled, Clock, vars
      <4> QED
        BY <4>2, <4>3, Faulted
    <3> QED
      BY <2>6, <3>2, <3>3, <3>4, <3>5, <3>6, <3>7, <3>8, TickSteps
  <2> QED
    BY <2>1, <2>2, <2>5, <2>6
<1> QED
  <2>1. ASSUME NEW side \in Sides, Emit(side) PROVE r.n < Current' => log'[r.n + 1].side = "SELL"
    BY <1>3, <2>1
  <2>2. ASSUME NEW side \in Sides, Emit(side) PROVE r.n # Current'
    BY <1>3, <2>2
  <2> QED
    BY <1>4, <2>1, <2>2

\* What the guard knows of an entry outlasts every step but an exit and a crash.
LEMMA ProtectedRests ==
  ASSUME Base, [Next]_vars, NEW o \in book, Protected(o), UNCHANGED <<seen, mirror, late>>
  PROVE  Protected(o)'
<1>1. lag' = lag /\ now' >= now /\ now \in Nat /\ now' \in Nat /\ Landing(o) \in Nat /\ Window \in Nat
  BY Facts, TimeSteps
<1>2. Landing(o)' = Landing(o)
  BY <1>1 DEF Landing
<1>3. CASE now >= Landing(o) + Window
  BY SMT, <1>1, <1>2, <1>3 DEF Protected
<1>4. CASE seen["BUY"] >= Landing(o)
  BY <1>2, <1>4 DEF Protected
<1>5. CASE Mirrored(o)
  BY <1>2, <1>5 DEF Protected, Mirrored
<1> QED
  BY <1>3, <1>4, <1>5 DEF Protected

\* Where only entries followed an entry, the last attempt is an entry.
LEMMA LastBuys ==
  ASSUME Base, NEW o \in book, Buys(o.n, Current) PROVE Side = "BUY" /\ Current >= 1
<1>1. o.n \in 1..Current /\ Current \in Nat
  BY Facts
<1>2. Current \in o.n..Current /\ Current >= 1
  BY SMT, <1>1
<1> QED
  BY <1>2 DEF Buys, Side

\* An entry that is recorded is known from its landing on.
LEMMA RecordProtects ==
  ASSUME Base, [Next]_vars, NEW o \in book, Buys(o.n, Current), Record PROVE Protected(o)'
<1>1. Side = "BUY"
  BY LastBuys
<1>2. seen'["BUY"] = now
  <2>1. seen \in [Sides -> Times \cup {Never}]
    BY DEF Base, Whole, Guard
  <2> QED
    BY <1>1, <2>1 DEF Record, record, Sides
<1>3. Landing(o) <= now /\ lag' = lag /\ Landing(o) \in Nat /\ now \in Nat
  BY Facts, TimeSteps
<1>4. Landing(o)' = Landing(o)
  BY <1>3 DEF Landing
<1> QED
  BY <1>2, <1>3, <1>4 DEF Protected

\* Only a crash takes an entry's protection away.
LEMMA ProtectedKept ==
  ASSUME Base, [Next]_vars, ~Crash, NEW o \in book, Buys(o.n, Current), Protected(o)
  PROVE  Protected(o)'
<1> USE DEF dedup
<1>1. CASE Record
  BY <1>1, RecordProtects
<1>2. CASE Forget
  BY <1>2, LastBuys DEF Forget
<1>3. CASE LandLate
  <2>1. ~Mirrored(o)
    BY <1>3 DEF LandLate, Mirrored
  <2>2. now' = now /\ lag' = lag /\ seen' = seen
    BY <1>3 DEF LandLate, exchange
  <2> QED
    BY <2>1, <2>2 DEF Protected, Landing
<1>4. CASE UNCHANGED <<seen, mirror, late>>
  BY <1>4, ProtectedRests
<1>5. CASE (\E side \in Sides : Emit(side)) \/ Shed \/ Sign \/ Resign \/ Answer \/ Refuse
  BY <1>4, <1>5 DEF Emit, Shed, Sign, Resign, Answer, Refuse
<1>6. CASE ServerError \/ Throw \/ Commit \/ Check \/ Probe \/ Reprobe
  BY <1>4, <1>6 DEF ServerError, Throw, Commit, Check, Probe, Reprobe
<1>7. CASE Land \/ Adopted \/ Reconciled \/ Clock \/ UNCHANGED vars
  BY <1>4, <1>7 DEF Land, Adopted, Reconciled, Clock, vars
<1> QED
  BY <1>1, <1>2, <1>3, <1>5, <1>6, <1>7 DEF Next

\* Only a tick's decision ends the idle time.
LEMMA StaysIdle ==
  ASSUME Base, [Next]_vars, ~\E side \in Sides : Emit(side), tick'.pc # "idle" PROVE tick.pc # "idle"
<1> USE DEF At
<1>1. CASE Aside
  BY <1>1, AsideKeeps
<1>2. CASE Forget \/ Check \/ Shed \/ Sign \/ Resign \/ Answer \/ Refuse
  BY <1>2 DEF Forget, Check, Shed, Sign, Resign, Answer, Refuse
<1>3. CASE ServerError \/ Throw \/ Probe \/ Reprobe \/ Record \/ Commit
  BY <1>3 DEF ServerError, Throw, Probe, Reprobe, Record, Commit
<1>4. CASE Crash
  BY <1>4 DEF Crash, Idle
<1> QED
  BY <1>1, <1>2, <1>3, <1>4 DEF Next, Aside

\* A miss of the guard, with Redis answering, says the window has passed.
LEMMA MissIsLate ==
  ASSUME Base, Quiet, Check, [Next]_vars, Calm', tick'.pc = "call",
         NEW o \in book, o.n < Current, Buys(o.n, Current), Protected(o)
  PROVE  now >= Landing(o) + Window
<1>1. Side = "BUY" /\ tick.pc = "dedup"
  BY DEF Check, At
<1>2. seenRecently(FALSE)
  <2>1. Done.pc = "commit"
    BY DEF Done, Idle
  <2> QED
    BY <2>1 DEF Check
<1>3. ~Fault
  <2>1. ~Still
    BY <1>1 DEF Quiet
  <2> QED
    BY <2>1, Calmer DEF Base, Whole
<1>4. ~MapHit /\ late = <<>> /\ ~("BUY" \in mirror.members /\ now < mirror.expires)
  BY <1>1, <1>2, <1>3 DEF seenRecently
<1>5. now \in Nat /\ Window \in Nat /\ Landing(o) \in Nat /\ PlacementAssumption
  BY Facts DEF Base
<1>6. seen["BUY"] \in Int /\ mirror.expires \in Int
  BY SMT, <1>5 DEF Base, Whole, Guard, Sides, Times, Never, PlacementAssumption
<1>7. CASE seen["BUY"] >= Landing(o)
  BY SMT, <1>1, <1>4, <1>5, <1>6, <1>7 DEF MapHit, Never
<1>8. CASE Mirrored(o)
  BY SMT, <1>4, <1>5, <1>6, <1>8 DEF Mirrored
<1> QED
  BY <1>7, <1>8 DEF Protected

\* An order that has just landed is the running attempt's, or is the last before an exit.
LEMMA ShelterLands ==
  ASSUME Base, Strays, Strays', [Next]_vars, NEW o \in book', o \notin book, Buys(o.n, Current)'
  PROVE  /\ o.n = Current'
         /\ tick'.pc = "idle" => slice' = "in" /\ ~converge'
         /\ tick'.pc = "commit" => ~Still' /\ ~converge'
<1>1. Land
  BY BookSteps
<1>2. PICK q \in wire :
           /\ Landable(q) /\ book' = book \cup {[n |-> q.n, time |-> now - lag]}
           /\ UNCHANGED <<now, lag, slice, tick, log, converge, seen, mirror, late, faults, resigns, gap>>
  BY <1>1, Landings
<1>3. o.n = q.n /\ Current' = Current /\ Current \in Nat /\ q.n \in 1..Current
  BY SMT, <1>2, Facts DEF Current
<1>4. log[q.n].side = "BUY" /\ \A k \in q.n..Current : log[k].side = "BUY"
  BY SMT, <1>2, <1>3 DEF Buys
<1>5. q.n = Current
  <2> SUFFICES ASSUME q.n < Current PROVE FALSE
    BY SMT, <1>3
  <2>1. log[q.n + 1].side = "SELL" /\ q.n + 1 \in q.n..Current
    BY SMT, <1>2, <1>3, <1>4 DEF Strays
  <2> QED
    BY <1>4, <2>1
<1>6. /\ tick.pc = "idle" => slice = "in" /\ ~converge
      /\ tick.pc = "commit" => ~Still /\ ~converge
  BY <1>2, <1>4, <1>5 DEF Strays
<1> QED
  BY <1>2, <1>3, <1>5, <1>6 DEF Still

\* The tick of an entry that has landed ends with the entry known or about to be committed.
LEMMA ShelterIdle ==
  ASSUME Base, Quiet, Refused, Shelter, [Next]_vars, Calm', tick'.pc = "idle",
         ~\E side \in Sides : Emit(side), NEW o \in book, Buys(o.n, Current)
  PROVE  Protected(o)' \/ (slice' = "in" /\ ~converge')
<1> USE DEF At
<1>1. o.n \in 1..Current /\ Current \in Nat /\ Side = "BUY"
  BY Facts, LastBuys
<1>2. CASE Commit /\ ~Crash
  <2>1. tick.pc = "commit" /\ converge' = converge
    BY <1>2 DEF Commit
  <2>2. CASE Protected(o)
    BY <1>2, <2>2, ProtectedKept
  <2>3. CASE ~Protected(o)
    <3>1. o.n = Current /\ ~Still /\ ~converge
      BY <2>1, <2>3 DEF Shelter
    <3>2. ~Fault
      BY <3>1, Calmer DEF Base, Whole
    <3>3. Commits(log[Current].verdict)
      BY <1>1, <3>1 DEF Refused, Commits, InBook
    <3> QED
      BY SMT, <1>1, <1>2, <2>1, <3>1, <3>2, <3>3 DEF Commit
  <2> QED
    BY <2>2, <2>3
<1>3. CASE Crash
  <2>1. Fault /\ (tick.pc \in {"wire", "probe", "sleep", "record"} => gap')
        /\ mirror' = mirror /\ late' \in {late, <<>>} /\ lag' = lag /\ slice' = slice /\ converge' = converge
    BY <1>3 DEF Crash, exchange
  <2>2. Still
    BY <2>1, Calmer DEF Base, Whole
  <2>3. tick.pc \in {"idle", "dedup", "call", "commit"}
    BY <2>1, Facts DEF Calm, Ticket, Pcs
  <2>4. CASE tick.pc = "idle"
    BY <2>1, <2>2, <2>4 DEF Quiet
  <2>5. CASE tick.pc \in {"dedup", "call", "commit"}
    <3>1. o.n = Current
      BY SMT, <1>1, <2>2, <2>5 DEF Quiet
    <3>2. tick.pc = "commit"
      BY <2>5, <3>1, Unsent DEF InBook
    <3>3. Mirrored(o)
      BY <1>1, <2>2, <3>1, <3>2 DEF Quiet
    <3>4. Mirrored(o)'
      BY <2>1, <3>3 DEF Mirrored, Landing
    <3> QED
      BY <3>4 DEF Protected
  <2> QED
    BY <2>3, <2>4, <2>5
<1>4. CASE Aside /\ ~Crash
  <2>1. tick.pc = "idle"
    BY <1>4, AsideKeeps
  <2>2. CASE Protected(o)
    BY <1>4, <2>2, ProtectedKept
  <2>3. CASE ~Protected(o)
    <3>1. slice = "in" /\ ~converge
      BY <2>1, <2>3 DEF Shelter
    <3>2. ~Reconciled
      BY <3>1 DEF Reconciled
    <3> QED
      BY <1>4, <3>1, <3>2 DEF Aside, LandLate, Land, Adopted, Clock, vars
  <2> QED
    BY <2>2, <2>3
<1> QED
  BY <1>2, <1>3, <1>4, TickSteps

\* An entry that is about to be committed is protected, or the one fault is spent.
LEMMA ShelterCommit ==
  ASSUME Base, Quiet, Informed, Shelter, [Next]_vars, Calm', tick'.pc = "commit",
         ~\E side \in Sides : Emit(side), NEW o \in book, Buys(o.n, Current), o.n = Current
  PROVE  Protected(o)' \/ (~Still' /\ ~converge')
<1> USE DEF At
<1>1. InBook(Current)
  BY DEF InBook
<1>2. CASE Check \/ Shed
  <2>1. tick.pc \in {"dedup", "call"}
    BY <1>2 DEF Check, Shed
  <2> QED
    BY <1>1, <2>1, Unsent
<1>3. CASE Answer
  <2>1. tick'.pc = "record"
    BY <1>3, Facts DEF Answer, Ticket
  <2> QED
    BY <2>1
<1>4. CASE Refuse
  BY <1>1, <1>4, OnWire DEF Refuse
<1>5. CASE ServerError
  <2>1. Still /\ ~Still'
    BY <1>5, Calmer DEF ServerError, Base, Whole
  <2> QED
    BY <1>5, <2>1 DEF ServerError, Quiet
<1>6. CASE Probe \/ Reprobe
  <2>1. tick.pc \in {"probe", "sleep"} /\ converge' = converge
    BY <1>6 DEF Probe, Reprobe
  <2>2. faults # 0 /\ ~converge
    BY <2>1 DEF Base, Whole, Fresh, Informed
  <2> QED
    BY <2>1, <2>2, Faulted
<1>7. CASE Record
  BY <1>7, RecordProtects
<1>8. CASE Aside
  <2>1. tick' = tick /\ seen' = seen
    BY <1>8, AsideKeeps
  <2>2. ~Crash
    BY SMT, <2>1 DEF Crash, Idle
  <2>3. CASE Protected(o)
    BY <2>2, <2>3, ProtectedKept
  <2>4. CASE ~Protected(o)
    <3>1. ~Still /\ ~converge
      BY <2>1, <2>4 DEF Shelter
    <3>2. converge' = converge
      BY <1>8, <2>1 DEF Aside, LandLate, Land, Adopted, Reconciled, Clock, vars
    <3> QED
      BY <3>1, <3>2, Faulted
  <2> QED
    BY <2>3, <2>4
<1> QED
  BY <1>2, <1>3, <1>4, <1>5, <1>6, <1>7, <1>8, TickSteps

\* Every entry on the book stays sheltered, by the guard or by the slice.
LEMMA ShelterKeeps ==
  ASSUME Base, Quiet, Informed, Refused, Strays, Strays', Shelter, [Next]_vars, Calm' PROVE Shelter'
<1> SUFFICES ASSUME NEW o \in book', Buys(o.n, Current)'
             PROVE  /\ tick'.pc = "idle" => Protected(o)' \/ (slice' = "in" /\ ~converge')
                    /\ tick'.pc = "commit" => Protected(o)' \/ (o.n = Current' /\ ~Still' /\ ~converge')
                    /\ tick'.pc # "idle" /\ o.n < Current' => Protected(o)'
                    /\ tick'.pc \in {"call", "wire", "probe", "sleep"} /\ o.n < Current' =>
                         tick'.called >= Landing(o)' + Window
  BY DEF Shelter
<1>1. Current \in Nat /\ lag' = lag
  BY Facts, TimeSteps
<1>2. CASE o \notin book
  <2>1. Current' \in Nat
    <3>1. Land
      BY <1>2, BookSteps
    <3> QED
      BY <1>1, <3>1, Landings DEF Current
  <2>2. o.n = Current' /\ ~(o.n < Current')
    BY SMT, <1>2, <2>1, ShelterLands
  <2> QED
    BY <1>2, <2>2, ShelterLands
<1>3. ASSUME o \in book, NEW side \in Sides, Emit(side)
      PROVE  Protected(o)' /\ tick'.pc = "dedup"
  <2>1. /\ Current' = Current + 1 /\ log'[Current'].side = side
        /\ \A k \in 1..Current : log'[k] = log[k]
        /\ side = (IF slice = "flat" THEN "BUY" ELSE "SELL") /\ tick.pc = "idle" /\ tick'.pc = "dedup"
        /\ UNCHANGED <<seen, mirror, late>>
    BY <1>3, Begins
  <2>2. o.n \in 1..Current /\ o.n \in Nat
    BY SMT, <1>3, Facts
  <2>3. side = "BUY" /\ Buys(o.n, Current)
    <3>1. \A k \in o.n..Current' : log'[k].side = "BUY"
      BY DEF Buys
    <3>2. Current' \in o.n..Current' /\ \A k \in o.n..Current : k \in o.n..Current' /\ k \in 1..Current
      BY SMT, <1>1, <2>1, <2>2
    <3> QED
      BY <2>1, <3>1, <3>2 DEF Buys
  <2>4. Protected(o)
    BY <1>3, <2>1, <2>3 DEF Shelter
  <2> QED
    BY <1>3, <2>1, <2>4, ProtectedRests
<1>4. ASSUME o \in book, ~\E side \in Sides : Emit(side)
      PROVE  /\ tick'.pc = "idle" => Protected(o)' \/ (slice' = "in" /\ ~converge')
             /\ tick'.pc = "commit" => Protected(o)' \/ (o.n = Current' /\ ~Still' /\ ~converge')
             /\ tick'.pc # "idle" /\ o.n < Current' => Protected(o)'
             /\ tick'.pc \in {"call", "wire", "probe", "sleep"} /\ o.n < Current' =>
                  tick'.called >= Landing(o)' + Window
  <2>1. Current' = Current /\ o.n \in 1..Current /\ o.n \in Nat
    BY SMT, <1>4, Facts, Kept DEF Base, Whole
  <2>2. Buys(o.n, Current)
    <3>1. Current \in 1..Current /\ o.n >= 1
      BY SMT, <1>1, <2>1
    <3>2. Buys(o.n, Current)' = \A k \in o.n..Current : log'[k].side = "BUY"
      BY <2>1 DEF Buys
    <3>3. \A k \in o.n..Current : k \in 1..Current
      BY SMT, <1>1, <2>1
    <3>4. \A k \in 1..Current : log'[k].side = log[k].side
      BY <1>4, Kept DEF Base, Whole
    <3> QED
      BY <3>2, <3>3, <3>4 DEF Buys
  <2>3. ASSUME tick'.pc # "idle", o.n < Current PROVE Protected(o) /\ Protected(o)' /\ tick.pc # "idle"
    <3>1. tick.pc # "idle"
      BY <1>4, <2>3, StaysIdle
    <3>2. Protected(o)
      BY <1>4, <2>2, <2>3, <3>1 DEF Shelter
    <3>3. ~Crash
      BY SMT, <2>3 DEF Crash, Idle
    <3> QED
      BY <1>4, <2>2, <3>1, <3>2, <3>3, ProtectedKept
  <2>4. ASSUME tick'.pc \in {"call", "wire", "probe", "sleep"}, o.n < Current
        PROVE  tick'.called >= Landing(o) + Window
    <3>1. CASE Forget
      BY <1>4, <2>2, <3>1, LastBuys DEF Forget
    <3>2. CASE Check /\ tick'.called = now
      <4>1. tick'.pc = "call"
        <5>1. tick' = Done \/ tick' = [tick EXCEPT !.pc = "call", !.called = now]
          BY <3>2 DEF Check
        <5>2. tick \in Ticket /\ Done.pc = "commit"
          BY Facts DEF Done, Idle
        <5> QED
          BY <2>4, <5>1, <5>2 DEF Ticket
      <4> QED
        BY <1>4, <2>2, <2>3, <2>4, <3>2, <4>1, MissIsLate
    <3>3. CASE tick.pc \in {"call", "wire", "probe", "sleep"} /\ tick'.called = tick.called
      BY <1>4, <2>2, <2>4, <3>3 DEF Shelter
    <3> QED
      BY <2>4, <3>1, <3>2, <3>3, TickSteps
  <2>5. tick'.pc = "idle" => Protected(o)' \/ (slice' = "in" /\ ~converge')
    BY <1>4, <2>2, ShelterIdle
  <2>6. ASSUME tick'.pc = "commit" PROVE Protected(o)' \/ (o.n = Current' /\ ~Still' /\ ~converge')
    <3>1. CASE o.n = Current
      BY <1>4, <2>1, <2>2, <2>6, <3>1, ShelterCommit
    <3>2. CASE o.n < Current
      BY <2>3, <2>6, <3>2
    <3> QED
      BY SMT, <1>1, <2>1, <3>1, <3>2
  <2>7. Landing(o)' = Landing(o)
    BY <1>1 DEF Landing
  <2> QED
    BY <2>1, <2>3, <2>4, <2>5, <2>6, <2>7
<1> QED
  <2>1. ASSUME o \in book, \E side \in Sides : Emit(side) PROVE Protected(o)' /\ tick'.pc = "dedup"
    BY <1>3, <2>1
  <2> QED
    BY <1>2, <1>4, <2>1

\* Two entries with no exit in between stay a window apart.
LEMMA ApartKeeps ==
  ASSUME Base, Strays, Shelter, Apart, [Next]_vars PROVE Apart'
<1>1. /\ Current \in Nat /\ Window \in Nat /\ now \in Nat /\ lag' = lag /\ lag \in Nat
      /\ \A r \in wire : r.n \in 1..Current /\ r.signed \in Nat /\ r.signed <= now
      /\ \A o \in book : o.n \in 1..Current /\ o.n \in Nat /\ o.time \in Int /\ Landing(o) = o.time + lag
  BY SMT, Facts, TimeSteps
<1>2. ASSUME NEW m \in 1..Current, NEW n \in 1..Current, Buys(m, n)' PROVE Buys(m, n)
  BY SMT, <1>2, BuysKept
<1>3. ASSUME NEW r \in wire', NEW o \in book', o.n < r.n, Buys(o.n, r.n)'
      PROVE  r.signed >= Landing(o)' + Window
  <2>1. Landing(o)' = Landing(o)
    BY <1>1 DEF Landing
  <2>2. CASE o \notin book
    <3>1. Land
      BY <2>2, BookSteps
    <3>2. PICK q \in wire : Landable(q) /\ wire' = wire \ {q} /\ log' = log
                            /\ book' = book \cup {[n |-> q.n, time |-> now - lag]}
      BY <3>1, Landings
    <3>3. o.n = q.n /\ r \in wire
      BY SMT, <2>2, <3>2
    <3>4. q.n \in 1..Current /\ r.n \in 1..Current /\ q.n < r.n
      BY <1>1, <1>3, <3>3
    <3>5. q.n \in q.n..r.n /\ q.n + 1 \in q.n..r.n /\ q.n < Current
      BY SMT, <1>1, <3>4
    <3>6. log[q.n].side = "BUY" /\ log[q.n + 1].side = "BUY"
      BY <1>3, <3>2, <3>3, <3>5 DEF Buys
    <3> QED
      BY <3>2, <3>5, <3>6 DEF Strays
  <2>3. CASE o \in book /\ r \in wire
    <3>1. o.n \in 1..Current /\ r.n \in 1..Current
      BY <1>1, <2>3
    <3> QED
      BY <1>2, <1>3, <2>1, <2>3, <3>1 DEF Apart
  <2>4. CASE o \in book /\ r \notin wire
    <3>1. (Sign \/ Resign) /\ r = [n |-> Current, signed |-> now]
      BY <2>4, WireSteps
    <3>2. tick.pc \in {"call", "wire"} /\ tick.called <= now /\ Current >= 1
      BY <3>1 DEF Sign, Resign, At, Base, Whole, IInv, Running, Waiting
    <3>3. Current \in 1..Current /\ o.n \in 1..Current
      BY SMT, <1>1, <2>4, <3>2
    <3>4. Buys(o.n, Current) /\ o.n < Current
      BY <1>2, <1>3, <3>1, <3>3
    <3>5. tick.called >= Landing(o) + Window
      BY <2>4, <3>2, <3>4 DEF Shelter
    <3>6. tick.called \in Int /\ Landing(o) \in Int
      BY SMT, <1>1, <2>4, Facts DEF Ticket, Never
    <3> QED
      BY SMT, <1>1, <2>1, <3>1, <3>2, <3>5, <3>6
  <2> QED
    BY <2>2, <2>3, <2>4
<1>4. ASSUME NEW a \in book', NEW b \in book', a.n < b.n, Buys(a.n, b.n)'
      PROVE  b.time - a.time >= Window
  <2>1. CASE a \in book /\ b \in book
    <3>1. a.n \in 1..Current /\ b.n \in 1..Current
      BY <1>1, <2>1
    <3> QED
      BY <1>2, <1>4, <2>1, <3>1 DEF Apart
  <2>2. CASE ~(a \in book /\ b \in book)
    <3>1. Land
      BY <2>2, BookSteps
    <3>2. PICK q \in wire : Landable(q) /\ log' = log
                            /\ book' = book \cup {[n |-> q.n, time |-> now - lag]}
      BY <3>1, Landings
    <3>3. q.n \in 1..Current /\ q.n \in Nat
      BY SMT, <1>1
    <3>4. a.n \in 1..Current /\ b.n \in 1..Current
      BY SMT, <1>1, <3>2, <3>3
    <3>5. CASE a \notin book
      <4>1. a.n = q.n
        BY SMT, <3>2, <3>5
      <4>2. q.n \in q.n..b.n /\ q.n + 1 \in q.n..b.n /\ q.n < Current
        BY SMT, <1>1, <1>4, <3>4, <4>1
      <4>3. log[q.n].side = "BUY" /\ log[q.n + 1].side = "BUY"
        BY <1>4, <3>2, <4>1, <4>2 DEF Buys
      <4> QED
        BY <3>2, <4>2, <4>3 DEF Strays
    <3>6. CASE a \in book /\ b \notin book
      <4>1. b.n = q.n /\ b.time = now - lag
        BY SMT, <3>2, <3>6
      <4>2. Buys(a.n, q.n)
        BY <1>2, <1>4, <3>4, <4>1
      <4>3. q.signed >= Landing(a) + Window
        BY <1>4, <3>6, <4>1, <4>2 DEF Apart
      <4>4. q.signed \in Nat /\ q.signed <= now /\ a.time \in Int /\ Landing(a) = a.time + lag
        BY <1>1, <3>6
      <4> QED
        BY SMT, <1>1, <4>1, <4>3, <4>4
    <3> QED
      BY <2>2, <3>5, <3>6
  <2> QED
    BY <2>1, <2>2
<1> QED
  BY <1>3, <1>4 DEF Apart

-----------------------------------------------------------------------------
\* The coin comes and goes with the orders that land.
LEMMA HoldingSteps == ASSUME [Next]_vars PROVE holding' = holding \/ Land
<1> USE DEF exchange
<1>1. CASE (\E side \in Sides : Emit(side)) \/ Shed \/ Sign \/ Resign \/ Answer \/ Refuse
  BY <1>1 DEF Emit, Shed, Sign, Resign, Answer, Refuse
<1>2. CASE ServerError \/ Throw \/ Commit \/ Check \/ Probe \/ Reprobe
  BY <1>2 DEF ServerError, Throw, Commit, Check, Probe, Reprobe
<1>3. CASE Adopted \/ Reconciled \/ UNCHANGED vars
  BY <1>3 DEF Adopted, Reconciled, vars
<1>4. CASE LandLate \/ Crash \/ Forget \/ Record \/ Clock
  BY <1>4 DEF LandLate, Crash, Forget, Record, Clock
<1> QED
  BY <1>1, <1>2, <1>3, <1>4 DEF Next

\* The slice changes at a commit and while the symbol is idle.
LEMMA SliceSteps ==
  ASSUME [Next]_vars, tick.pc # "idle" PROVE slice' = slice \/ Commit
<1> USE DEF At
<1>1. CASE (\E side \in Sides : Emit(side)) \/ Shed \/ Sign \/ Resign \/ Answer \/ Refuse
  BY <1>1 DEF Emit, Shed, Sign, Resign, Answer, Refuse
<1>2. CASE ServerError \/ Throw \/ Check \/ Probe \/ Reprobe
  BY <1>2 DEF ServerError, Throw, Check, Probe, Reprobe
<1>3. CASE Land \/ Adopted \/ Reconciled \/ UNCHANGED vars
  BY <1>3 DEF Land, Adopted, Reconciled, vars
<1>4. CASE LandLate \/ Crash \/ Forget \/ Record \/ Clock
  BY <1>4 DEF LandLate, Crash, Forget, Record, Clock
<1> QED
  BY <1>1, <1>2, <1>3, <1>4 DEF Next

\* Before the first fault: a step is no fault, the guard never suppresses, no probe runs.
LEMMA QuietSteps ==
  ASSUME Base, Quiet, [Next]_vars, Still'
  PROVE  /\ Still /\ Calm /\ ~Fault /\ ~Resign /\ late = <<>> /\ tick.pc \notin {"probe", "sleep"}
         /\ ~ServerError /\ ~Throw /\ ~Crash /\ ~Probe /\ ~Reprobe
         /\ Check => tick'.pc = "call" /\ UNCHANGED log
<1>1. Still /\ ~Fault /\ ~Resign
  BY Calmer DEF Base, Whole
<1>2. late = <<>> /\ tick.pc \notin {"probe", "sleep"}
  BY <1>1 DEF Still, Base, Whole, Fresh
<1>3. ~ServerError /\ ~Throw /\ ~Crash /\ ~Probe /\ ~Reprobe
  BY <1>1, <1>2 DEF ServerError, Throw, Crash, Probe, Reprobe, At
<1>4. Calm
  BY SMT, <1>1 DEF Still, Calm
<1>5. ASSUME Check PROVE tick'.pc = "call" /\ UNCHANGED log
  <2>1. tick.pc = "dedup" /\ Side = "BUY"
    BY <1>5 DEF Check, At
  <2>2. ~Recorded
    <3> SUFFICES ASSUME Recorded PROVE FALSE
      OBVIOUS
    <3>1. Backed
      BY <1>1, <2>1 DEF Still, Base, Whole, Fresh
    <3>2. PICK m \in 1..Current : InBook(m) /\ \A k \in m..Current : log[k].side = "BUY"
      BY <3>1 DEF Backed
    <3>3. PICK o \in book : o.n = m
      BY <3>2 DEF InBook
    <3>4. o.n # Current
      BY <2>1, <3>3, Unsent DEF InBook
    <3>5. o.n < Current
      BY SMT, <3>3, <3>4, Facts
    <3> QED
      BY <1>1, <2>1, <3>2, <3>3, <3>5 DEF Quiet, Buys
  <2>3. ~seenRecently(TRUE)
    BY <1>1, <2>1, <2>2 DEF seenRecently, MapHit, Recorded
  <2>4. tick' = [tick EXCEPT !.pc = "call", !.called = now] /\ UNCHANGED log
    BY <1>5, <2>3 DEF Check
  <2>5. tick \in Ticket
    BY Facts
  <2> QED
    BY <2>4, <2>5 DEF Ticket
<1> QED
  BY <1>1, <1>2, <1>3, <1>4, <1>5

\* Before the first fault the running attempt's order is the only one that can land.
LEMMA QuietLands ==
  ASSUME Base, Quiet, Still, Land
  PROVE  /\ tick.pc = "wire" /\ holding' = (Side = "BUY")
         /\ \A o \in book' : o \in book \/ o.n = Current
         /\ InBook(Current)' /\ log' = log /\ tick' = tick /\ slice' = slice /\ converge' = converge
<1>1. PICK q \in wire :
           /\ book' = book \cup {[n |-> q.n, time |-> now - lag]}
           /\ holding' = (log[q.n].side = "BUY")
           /\ UNCHANGED <<slice, tick, log, converge>>
  BY Landings
<1>2. tick.pc = "wire" /\ q.n = Current
  BY DEF Quiet
<1>3. Current' = Current
  BY <1>1 DEF Current
<1>4. \A o \in book' : o \in book \/ o.n = Current
  BY SMT, <1>1, <1>2
<1>5. InBook(Current)'
  <2> DEFINE z == [n |-> q.n, time |-> now - lag]
  <2>1. z.n = q.n
    OBVIOUS
  <2>2. z \in book'
    BY <1>1
  <2> HIDE DEF z
  <2> QED
    BY <1>2, <1>3, <2>1, <2>2 DEF InBook
<1> QED
  BY <1>1, <1>2, <1>4, <1>5 DEF Side

\* Before the first fault only the running attempt is on the wire, and no reconcile is queued.
LEMMA QuietExchange ==
  ASSUME Base, Quiet, [Next]_vars, Still'
  PROVE  ~converge' /\ \A r \in wire' : tick'.pc = "wire" /\ r.n = Current'
<1> USE DEF At, exchange
<1>1. /\ Still /\ ~Fault /\ ~Resign
      /\ ~ServerError /\ ~Throw /\ ~Crash /\ ~Probe /\ ~Reprobe
  BY QuietSteps
<1>2. ~converge /\ \A r \in wire : tick.pc = "wire" /\ r.n = Current
  BY <1>1 DEF Quiet
<1>3. CASE Refuse
  <2>1. Mine # {} /\ converge' = (converge \/ (Side = "SELL" /\ ~holding)) /\ tick.pc = "wire"
        /\ wire' = wire \ Mine
    BY <1>3 DEF Refuse
  <2>2. ~InBook(Current)
    BY <2>1, OnWire
  <2>3. Side = "SELL" => holding
    BY <1>1, <2>1, <2>2 DEF Quiet
  <2>4. wire' = {}
    BY <1>2, <2>1 DEF Mine
  <2> QED
    BY <1>2, <2>1, <2>3, <2>4
<1>4. CASE Answer
  <2>1. wire = {}
    BY <1>2, <1>4 DEF Answer, Landed, Base, Whole, IInv, Numbered
  <2> QED
    BY <1>2, <1>4, <2>1 DEF Answer
<1>5. CASE Sign
  <2>1. tick'.pc = "wire"
    BY <1>5, Facts DEF Sign, Ticket
  <2>2. wire = {} /\ log' = log /\ converge' = converge
    BY <1>2, <1>5 DEF Sign
  <2>3. \A r \in wire' : r.n = Current
    BY SMT, <1>5, <2>2 DEF Sign
  <2> QED
    BY <1>2, <2>1, <2>2, <2>3 DEF Current
<1>6. CASE (\E side \in Sides : Emit(side)) \/ Forget \/ Check \/ Shed \/ Record \/ Commit
  <2>1. tick.pc # "wire" /\ wire' = wire /\ converge' = converge
    BY <1>6 DEF Emit, Forget, Check, Shed, Record, Commit
  <2> QED
    BY <1>2, <2>1
<1>7. CASE Land \/ LandLate \/ Adopted \/ Clock \/ UNCHANGED vars
  <2>1. tick' = tick /\ log' = log /\ converge' = converge /\ wire' \subseteq wire
    BY <1>7 DEF Land, LandLate, Adopted, Clock, vars
  <2> QED
    BY <1>2, <2>1 DEF Current
<1>8. CASE Reconciled
  BY <1>2, <1>8 DEF Reconciled
<1> QED
  BY <1>1, <1>3, <1>4, <1>5, <1>6, <1>7, <1>8 DEF Next

\* Before the first fault an entry begins from a flat slice, with no entry before it.
LEMMA QuietEntry ==
  ASSUME Base, Quiet, [Next]_vars, Still', tick'.pc # "idle", Side' = "BUY"
  PROVE  slice' = "flat" /\ \A o \in book' : o.n < Current' => ~Buys(o.n, Current)'
<1>1. Still /\ Current \in Nat
  BY QuietSteps, Facts
<1>2. ASSUME NEW side \in Sides, Emit(side)
      PROVE  slice' = "flat" /\ \A o \in book' : ~Buys(o.n, Current)'
  <2>1. /\ Current' = Current + 1 /\ \A k \in 1..Current : log'[k] = log[k]
        /\ Side' = side /\ side = (IF slice = "flat" THEN "BUY" ELSE "SELL")
        /\ tick.pc = "idle" /\ slice' = slice /\ book' = book
    BY <1>2, Begins
  <2>2. slice = "flat"
    BY <2>1
  <2>3. ASSUME NEW o \in book', Buys(o.n, Current)' PROVE FALSE
    <3>1. o \in book /\ o.n \in 1..Current
      BY <2>1, Facts
    <3>2. \A k \in o.n..Current : k \in o.n..Current' /\ k \in 1..Current
      BY SMT, <1>1, <2>1, <3>1
    <3>3. Buys(o.n, Current)
      BY <2>1, <2>3, <3>2 DEF Buys
    <3> QED
      BY <1>1, <2>1, <2>2, <3>1, <3>3 DEF Quiet
  <2> QED
    BY <2>1, <2>2, <2>3
<1>3. ASSUME ~\E side \in Sides : Emit(side)
      PROVE  slice' = "flat" /\ \A o \in book' : o.n < Current' => ~Buys(o.n, Current)'
  <2>1. tick.pc # "idle"
    BY <1>3, StaysIdle
  <2>2. Current' = Current /\ Current >= 1 /\ Current \in 1..Current
        /\ \A k \in 1..Current : log'[k].side = log[k].side
    BY SMT, <1>1, <1>3, <2>1, Kept DEF Base, Whole, Span
  <2>3. Side = "BUY"
    BY <2>2 DEF Side
  <2>4. slice = "flat" /\ \A o \in book : o.n < Current => ~Buys(o.n, Current)
    BY <1>1, <2>1, <2>3 DEF Quiet
  <2>5. ~Commit
    BY SMT DEF Commit, Idle
  <2>6. slice' = slice
    BY <2>1, <2>5, SliceSteps
  <2>7. ASSUME NEW o \in book', o.n < Current', Buys(o.n, Current)' PROVE FALSE
    <3>1. o \in book
      BY SMT, <1>1, <2>2, <2>7, BookSteps, QuietLands
    <3>2. o.n \in 1..Current
      BY <3>1, Facts
    <3>3. \A k \in o.n..Current : k \in 1..Current
      BY SMT, <1>1, <3>2
    <3>4. Buys(o.n, Current)
      BY <2>2, <2>7, <3>3 DEF Buys
    <3> QED
      BY <2>2, <2>4, <2>7, <3>1, <3>4
  <2> QED
    BY <2>4, <2>6, <2>7
<1> QED
  BY <1>2, <1>3

\* Before the first fault a tick ends with the slice as the wallet is.
LEMMA QuietIdle ==
  ASSUME Base, Quiet, Refused, [Next]_vars, Still', tick'.pc = "idle"
  PROVE  (slice' = "in" => holding') /\ \A o \in book' : Buys(o.n, Current)' => slice' = "in"
<1> USE DEF At, exchange
<1>1. Still /\ ~Fault /\ ~Crash /\ Current \in Nat /\ slice \in {"flat", "in"}
  BY QuietSteps, Facts DEF Base, Whole, Budget
<1>2. CASE Commit
  <2>1. /\ tick.pc = "commit" /\ log' = log /\ book' = book /\ holding' = holding
        /\ slice' = IF Commits(log[Current].verdict) THEN IF Side = "BUY" THEN "in" ELSE "flat" ELSE slice
    BY <1>1, <1>2 DEF Commit
  <2>2. Current \in 1..Current /\ Side \in {"BUY", "SELL"}
    <3>1. Current >= 1
      BY <2>1 DEF Base, Whole, Span
    <3>2. Current \in 1..Current
      BY SMT, <1>1, <3>1
    <3>3. log[Current] \in Entry
      BY SMT, <3>2, Facts DEF Current
    <3> QED
      BY <3>2, <3>3 DEF Side, Entry, Sides
  <2>3. \A o \in book : Buys(o.n, Current) => Side = "BUY"
    BY LastBuys
  <2>4. \A o \in book' : Buys(o.n, Current)' = Buys(o.n, Current)
    BY <2>1 DEF Buys, Current
  <2>5. CASE Commits(log[Current].verdict)
    <3>1. InBook(Current)
      BY <1>1, <2>1, <2>5 DEF Quiet
    <3>2. Side = "BUY" => holding
      BY <1>1, <2>1, <3>1 DEF Quiet
    <3> QED
      BY <2>1, <2>3, <2>4, <2>5, <3>2
  <2>6. CASE ~Commits(log[Current].verdict)
    <3>1. ~InBook(Current)
      BY <2>2, <2>6 DEF Refused, Commits
    <3>2. CASE Side = "SELL"
      <4>1. holding
        BY <1>1, <2>1, <3>1, <3>2 DEF Quiet
      <4> QED
        BY <2>1, <2>3, <2>4, <3>2, <4>1
    <3>3. CASE Side = "BUY"
      <4>1. slice = "flat" /\ \A o \in book : o.n < Current => ~Buys(o.n, Current)
        BY <1>1, <2>1, <3>3 DEF Quiet
      <4>2. \A o \in book : o.n < Current
        BY SMT, <1>1, <3>1, Facts DEF InBook
      <4> QED
        BY <2>1, <2>4, <2>6, <4>1, <4>2
    <3> QED
      BY <2>2, <3>2, <3>3
  <2> QED
    BY <2>5, <2>6
<1>3. CASE Aside
  <2>1. tick' = tick /\ log' = log
    BY <1>3, AsideKeeps
  <2>2. ~Land /\ ~Reconciled
    BY <1>1, <2>1, QuietLands DEF Quiet, Reconciled
  <2>3. book' = book /\ holding' = holding
    BY <2>2, BookSteps, HoldingSteps
  <2>4. slice' = slice \/ (holding /\ slice' = "in")
    BY <1>3, <2>2 DEF Aside, LandLate, Adopted, Clock, vars
  <2>5. (slice = "in" => holding) /\ \A o \in book : Buys(o.n, Current) => slice = "in"
    BY <1>1, <2>1 DEF Quiet
  <2>6. \A o \in book' : Buys(o.n, Current)' = Buys(o.n, Current)
    BY <2>1 DEF Buys, Current
  <2> QED
    BY <2>3, <2>4, <2>5, <2>6
<1> QED
  BY <1>1, <1>2, <1>3, TickSteps

\* Before the first fault the wallet holds the coin from an entry's landing to its exit's.
LEMMA QuietWallet ==
  ASSUME Base, Quiet, [Next]_vars, Still', tick'.pc # "idle"
  PROVE  /\ Side' = "SELL" /\ ~InBook(Current)' => holding'
         /\ Side' = "BUY" /\ InBook(Current)' => holding'
<1>1. Still /\ Current \in Nat
  BY QuietSteps, Facts
<1>2. ASSUME NEW side \in Sides, Emit(side)
      PROVE  (Side' = "SELL" => holding') /\ ~InBook(Current)'
  <2>1. /\ Current' = Current + 1 /\ Side' = side /\ side = (IF slice = "flat" THEN "BUY" ELSE "SELL")
        /\ tick.pc = "idle" /\ book' = book /\ holding' = holding
    BY <1>2, Begins
  <2>2. slice = "in" => holding
    BY <1>1, <2>1 DEF Quiet
  <2>3. slice \in {"flat", "in"}
    BY DEF Base, Whole, Budget
  <2>4. ~InBook(Current)'
    BY SMT, <1>1, <2>1, Facts DEF InBook
  <2> QED
    BY <2>1, <2>2, <2>3, <2>4
<1>3. ASSUME ~\E side \in Sides : Emit(side)
      PROVE  /\ Side' = "SELL" /\ ~InBook(Current)' => holding'
             /\ Side' = "BUY" /\ InBook(Current)' => holding'
  <2>1. tick.pc # "idle"
    BY <1>3, StaysIdle
  <2>2. Current' = Current /\ Current \in 1..Current /\ \A k \in 1..Current : log'[k].side = log[k].side
    BY SMT, <1>1, <1>3, <2>1, Kept DEF Base, Whole, Span
  <2>3. Side' = Side
    BY <2>2 DEF Side
  <2>4. CASE Land
    <3>1. InBook(Current)' /\ holding' = (Side = "BUY")
      BY <1>1, <2>4, QuietLands
    <3> QED
      BY <2>3, <3>1
  <2>5. CASE ~Land
    <3>1. book' = book /\ holding' = holding
      BY <2>5, BookSteps, HoldingSteps
    <3>2. InBook(Current)' = InBook(Current)
      BY <2>2, <3>1 DEF InBook
    <3> QED
      BY <1>1, <2>1, <2>3, <3>1, <3>2 DEF Quiet
  <2> QED
    BY <2>4, <2>5
<1> QED
  <2>1. ASSUME \E side \in Sides : Emit(side) PROVE (Side' = "SELL" => holding') /\ ~InBook(Current)'
    BY <1>2, <2>1
  <2> QED
    BY <1>3, <2>1

\* Before the first fault an order the strategy is told of is on the book.
LEMMA QuietVerdict ==
  ASSUME Base, Quiet, [Next]_vars, Still', tick'.pc \in {"record", "commit"},
         Commits(log'[Current'].verdict)
  PROVE  InBook(Current)'
<1> USE DEF At, exchange
<1>1. Still /\ ~ServerError /\ ~Probe /\ ~Reprobe /\ ~Check
  BY QuietSteps
<1>2. CASE Shed \/ Refuse
  <2>1. PICK v \in {"pre-call", "rejected"} : Verdict(v)
    BY <1>2 DEF Shed, Refuse
  <2>2. tick.pc \in Waiting
    BY <1>2 DEF Shed, Refuse, Waiting
  <2>3. log'[Current'].verdict = v
    BY <2>1, <2>2, Told DEF Verdicts
  <2> QED
    BY <2>1, <2>3 DEF Commits
<1>3. CASE Answer
  <2>1. Landed /\ book' = book /\ Verdict("ok") /\ tick.pc \in Waiting
    BY <1>3 DEF Answer, Waiting
  <2>2. Current' = Current
    BY <2>1, Told DEF Verdicts
  <2> QED
    BY <2>1, <2>2 DEF Landed, InBook
<1>4. CASE Record
  <2>1. log' = log /\ book' = book /\ tick.pc = "record"
    BY <1>4 DEF Record
  <2>2. InBook(Current)
    BY <1>1, <2>1 DEF Quiet, Current
  <2> QED
    BY <2>1, <2>2 DEF InBook, Current
<1>5. CASE Aside
  <2>1. tick' = tick /\ log' = log
    BY <1>5, AsideKeeps
  <2>2. InBook(Current)
    BY <1>1, <2>1 DEF Quiet, Current
  <2>3. book \subseteq book'
    BY BookSteps, Landings
  <2> QED
    BY <2>1, <2>2, <2>3 DEF InBook, Current
<1> QED
  BY <1>1, <1>2, <1>3, <1>4, <1>5, TickSteps

\* Before the first fault an entry is in the mirror when its tick commits.
LEMMA QuietMirror ==
  ASSUME Base, Quiet, [Next]_vars, Still', tick'.pc = "commit", Side' = "BUY",
         NEW o \in book', o.n = Current'
  PROVE  Mirrored(o)'
<1> USE DEF At, exchange
<1>1. Still /\ ~Fault /\ late = <<>> /\ ~ServerError /\ ~Probe /\ ~Reprobe /\ ~Check
  BY QuietSteps
<1>2. CASE Shed
  <2>1. tick.pc = "call" /\ book' = book /\ tick.pc \in Waiting /\ Verdict("pre-call")
    BY <1>2 DEF Shed, Waiting
  <2>2. Current' = Current
    BY <2>1, Told DEF Verdicts
  <2> QED
    BY <2>1, <2>2, Unsent DEF InBook
<1>3. CASE Refuse
  <2>1. Mine # {} /\ book' = book /\ tick.pc \in Waiting /\ Verdict("rejected")
    BY <1>3 DEF Refuse, Waiting
  <2>2. Current' = Current
    BY <2>1, Told DEF Verdicts
  <2> QED
    BY <2>1, <2>2, OnWire DEF InBook
<1>4. CASE Answer
  <2>1. tick'.pc = "record"
    BY <1>4, Facts DEF Answer, Ticket
  <2> QED
    BY <2>1
<1>5. CASE Record
  <2>1. log' = log /\ book' = book /\ lag' = lag /\ Side = "BUY"
    BY <1>5 DEF Record, Side, Current
  <2>2. mirror' = Applied("BUY") /\ late' = late
    BY <1>1, <1>5, <2>1 DEF Record, record, Write
  <2>3. mirror'.members = {"BUY"} \cup (IF now < mirror.expires THEN mirror.members ELSE {})
        /\ mirror'.expires = now + Window
    BY <2>2 DEF Applied
  <2>4. Landing(o) <= now /\ Landing(o) \in Nat /\ now \in Nat /\ Window \in Nat /\ Landing(o)' = Landing(o)
    BY <2>1, Facts DEF Landing
  <2>5. mirror'.expires >= Landing(o)' + Window
    BY SMT, <2>3, <2>4
  <2>6. "BUY" \in mirror'.members
    BY <2>3
  <2> QED
    BY <1>1, <2>2, <2>5, <2>6 DEF Mirrored
<1>6. CASE Aside
  <2>1. tick' = tick /\ log' = log
    BY <1>6, AsideKeeps
  <2>2. ~Land /\ ~LandLate
    BY <1>1, <2>1, QuietLands DEF LandLate
  <2>3. book' = book
    BY <2>2, BookSteps
  <2>4. mirror' = mirror /\ late' = late /\ lag' = lag
    BY <1>6, <2>2 DEF Aside, Adopted, Reconciled, Clock, dedup, vars
  <2>5. Mirrored(o)
    BY <1>1, <2>1, <2>3 DEF Quiet, Side, Current
  <2> QED
    BY <2>4, <2>5 DEF Mirrored, Landing
<1> QED
  BY <1>1, <1>2, <1>3, <1>4, <1>5, <1>6, TickSteps

\* Before the first fault the slice follows the wallet.
LEMMA QuietKeeps == ASSUME Base, Quiet, Calm => Refused, [Next]_vars PROVE Quiet'
<1> SUFFICES ASSUME Still'
             PROVE  /\ ~converge'
                    /\ \A r \in wire' : tick'.pc = "wire" /\ r.n = Current'
                    /\ tick'.pc # "idle" /\ Side' = "BUY" =>
                         slice' = "flat" /\ \A o \in book' : o.n < Current' => ~Buys(o.n, Current)'
                    /\ tick'.pc = "idle" =>
                         (slice' = "in" => holding') /\ \A o \in book' : Buys(o.n, Current)' => slice' = "in"
                    /\ tick'.pc # "idle" /\ Side' = "SELL" /\ ~InBook(Current)' => holding'
                    /\ tick'.pc # "idle" /\ Side' = "BUY" /\ InBook(Current)' => holding'
                    /\ tick'.pc \in {"record", "commit"} /\ Commits(log'[Current'].verdict) => InBook(Current)'
                    /\ tick'.pc = "commit" /\ Side' = "BUY" => \A o \in book' : o.n = Current' => Mirrored(o)'
  BY DEF Quiet
<1>1. Refused
  BY QuietSteps
<1>2. ~converge' /\ \A r \in wire' : tick'.pc = "wire" /\ r.n = Current'
  BY QuietExchange
<1>3. tick'.pc # "idle" /\ Side' = "BUY" =>
        slice' = "flat" /\ \A o \in book' : o.n < Current' => ~Buys(o.n, Current)'
  BY QuietEntry
<1>4. tick'.pc = "idle" =>
        (slice' = "in" => holding') /\ \A o \in book' : Buys(o.n, Current)' => slice' = "in"
  BY <1>1, QuietIdle
<1>5. /\ tick'.pc # "idle" /\ Side' = "SELL" /\ ~InBook(Current)' => holding'
      /\ tick'.pc # "idle" /\ Side' = "BUY" /\ InBook(Current)' => holding'
  BY QuietWallet
<1>6. tick'.pc \in {"record", "commit"} /\ Commits(log'[Current'].verdict) => InBook(Current)'
  BY QuietVerdict
<1>7. tick'.pc = "commit" /\ Side' = "BUY" => \A o \in book' : o.n = Current' => Mirrored(o)'
  BY QuietMirror
<1> QED
  BY <1>2, <1>3, <1>4, <1>5, <1>6, <1>7

\* Every step keeps the one-fault invariant.
LEMMA ShelteredKeeps ==
  ASSUME Base, Base', Quiet, Sheltered, [Next]_vars PROVE Sheltered'
<1> SUFFICES ASSUME Calm' PROVE Informed' /\ Refused' /\ Strays' /\ Shelter' /\ Apart'
  BY DEF Sheltered
<1>1. Calm
  BY Calmer DEF Base, Whole
<1>2. Informed /\ Refused /\ Strays /\ Shelter /\ Apart
  BY <1>1 DEF Sheltered
<1>3. Informed'
  BY <1>2, InformedKeeps
<1>4. Refused'
  BY <1>2, <1>3, RefusedKeeps
<1>5. Strays'
  BY <1>2, StraysKeep
<1>6. Shelter'
  BY <1>2, <1>5, ShelterKeeps
<1>7. Apart'
  BY <1>2, ApartKeeps
<1> QED
  BY <1>3, <1>4, <1>5, <1>6, <1>7

\* The one-fault invariant always holds.
LEMMA ShelteredHolds == Spec => [](Timely /\ Quiet /\ Sheltered)
<1>1. Init => Timely /\ Quiet /\ Sheltered
  <2> SUFFICES ASSUME Init PROVE Timely /\ Quiet /\ Sheltered
    OBVIOUS
  <2>1. /\ wire = {} /\ book = {} /\ tick.pc = "idle" /\ Current = 0 /\ converge = FALSE /\ slice = "flat"
    BY DEF Init, Idle, Current
  <2>2. Timely /\ Quiet
    BY <2>1 DEF Timely, Quiet
  <2>3. Sheltered
    BY SMT, <2>1 DEF Sheltered, Informed, Refused, Strays, Shelter, Apart
  <2> QED
    BY <2>2, <2>3
<1>2. Whole /\ Whole' /\ Timely /\ Quiet /\ Sheltered /\ [Next]_vars => Timely' /\ Quiet' /\ Sheltered'
  <2> SUFFICES ASSUME Whole, Whole', Timely, Quiet, Sheltered, [Next]_vars
               PROVE  Timely' /\ Quiet' /\ Sheltered'
    OBVIOUS
  <2>1. Base
    BY PlacementAssumption DEF Base
  <2>2. Timely'
    BY <2>1, TimelyKeeps
  <2>3. Base'
    BY <2>2, PlacementAssumption DEF Base
  <2>4. Calm => Refused
    BY DEF Sheltered
  <2>5. Quiet'
    BY <2>1, <2>4, QuietKeeps
  <2>6. Sheltered'
    BY <2>1, <2>3, ShelteredKeeps
  <2> QED
    BY <2>2, <2>5, <2>6
<1> QED
  BY <1>1, <1>2, WholeHolds, PTL DEF Spec

\* No single fault makes place-order.ts and placement-dedup.ts fill an entry twice within the
\* window: a lost answer, a 5xx, a -1021, a lost commit, a failed or late Redis write and a dead
\* process each leave either the committed slice or the guard's record of the entry standing.
THEOREM OneFaultIsSheltered == Spec => []OneFaultNeverDoubles
<1>1. Whole /\ Timely /\ Sheltered => OneFaultNeverDoubles
  <2> SUFFICES ASSUME Whole, Sheltered, NEW a \in book, NEW b \in book, Doubled(a, b),
                      ~(faults + resigns >= 2), ~gap
               PROVE  b.time - a.time >= Window
    BY DEF OneFaultNeverDoubles
  <2>1. faults \in Nat /\ resigns \in Nat
    BY SMT, PlacementAssumption DEF Whole, Budget, PlacementAssumption
  <2>2. Calm
    BY SMT, <2>1 DEF Calm
  <2>3. a.n < b.n /\ Buys(a.n, b.n)
    BY DEF Doubled, Buys
  <2> QED
    BY <2>2, <2>3 DEF Sheltered, Apart
<1> QED
  BY <1>1, WholeHolds, ShelteredHolds, PTL

=============================================================================
