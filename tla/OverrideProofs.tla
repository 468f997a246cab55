--------------------------- MODULE OverrideProofs ---------------------------
(***************************************************************************)
(* The safety of the override lifecycle, for every number of overrides,    *)
(* cancels and ticks and for every choice of the time constants that       *)
(* satisfies the two assumptions of Override: the row is settled once, an  *)
(* override places at most one order, a claim stays on the row of the tick *)
(* that dispatches it, a row's outcome says what happened on the exchange, *)
(* and a cancelled override stays cancelled.                               *)
(***************************************************************************)
EXTENDS Override, TLAPS, WellFoundedInduction

\* Most leaves are first-order; the ones with arithmetic or records name SMT.
USE Zenon

Table == [Ids -> RowType]

\* The statements of override-actions.ts all carry `consumed_at is null'.
OnlyActive(R, R2) == \A i \in Ids : ~Active(R[i]) => R2[i] = R[i]

-----------------------------------------------------------------------------
\* consume() yields a table and touches active rows only.
LEMMA ConsumeStep ==
  ASSUME NEW R \in Table, NEW S, NEW outcome \in Outcomes
  PROVE  Consume(R, S, outcome) \in Table /\ OnlyActive(R, Consume(R, S, outcome))
BY DEF Table, RowType, Statuses, Consume, Active, OnlyActive

\* markPickedUp() likewise, on one row.
LEMMA MarkPickedUpStep ==
  ASSUME NEW R \in Table, NEW id \in Ids
  PROVE  MarkPickedUp(R, id) \in Table /\ OnlyActive(R, MarkPickedUp(R, id))
BY DEF Table, RowType, MarkPickedUp, Active, OnlyActive

\* claimAction() and releaseClaim() likewise.
LEMMA RowWriteStep ==
  ASSUME NEW R \in Table, NEW id \in Ids, NEW stamp \in Ticks
  PROVE  /\ ClaimAction(R, id, stamp) \in Table /\ OnlyActive(R, ClaimAction(R, id, stamp))
         /\ ReleaseClaim(R, id, stamp) \in Table /\ OnlyActive(R, ReleaseClaim(R, id, stamp))
<1>1. ClaimAction(R, id, stamp) \in Table /\ OnlyActive(R, ClaimAction(R, id, stamp))
  BY DEF Table, RowType, ClaimAction, Claimable, Active, OnlyActive
<1>2. ReleaseClaim(R, id, stamp) \in Table /\ OnlyActive(R, ReleaseClaim(R, id, stamp))
  BY DEF Table, RowType, ReleaseClaim, NoClaim, Active, OnlyActive
<1> QED
  BY <1>1, <1>2

\* reapStaleProcessing() and deletePendingForSymbol() likewise, on all rows.
LEMMA TableWriteStep ==
  ASSUME NEW R \in Table, NEW stale
  PROVE  /\ ReapStaleProcessing(R, stale) \in Table /\ OnlyActive(R, ReapStaleProcessing(R, stale))
         /\ DeletePendingForSymbol(R) \in Table /\ OnlyActive(R, DeletePendingForSymbol(R))
<1>1. ReapStaleProcessing(R, stale) \in Table /\ OnlyActive(R, ReapStaleProcessing(R, stale))
  BY DEF Table, RowType, ReapStaleProcessing, NoClaim, Active, OnlyActive
<1>2. DeletePendingForSymbol(R) \in Table /\ OnlyActive(R, DeletePendingForSymbol(R))
  BY DEF Table, RowType, Statuses, DeletePendingForSymbol, Claimable, Active, OnlyActive
<1> QED
  BY <1>1, <1>2

\* record() yields a table and, besides active rows, touches only the new one.
LEMMA RecordStep ==
  ASSUME NEW R \in Table, NEW id \in Ids, NEW S
  PROVE  /\ Record(R, id, S) \in Table
         /\ \A i \in Ids : i # id /\ ~Active(R[i]) => Record(R, id, S)[i] = R[i]
<1> DEFINE T == Consume(R, {i \in S : Claimable(R[i]) /\ ~R[i].pickedUp}, "superseded")
<1>1. T \in Table /\ OnlyActive(R, T)
  BY ConsumeStep DEF Outcomes
<1>2. Record(R, id, S) = [T EXCEPT ![id].status = "pending"]
  BY DEF Record
<1> HIDE DEF T
<1> QED
  BY SMT, <1>1, <1>2 DEF Table, RowType, Statuses, OnlyActive

\* A non-empty set of numbers has a least one.
LEMMA LeastNat ==
  ASSUME NEW D, D \subseteq Nat, D # {}
  PROVE  \E d \in D : \A e \in D : d <= e
<1>1. PICK d \in D : \A e \in D : ~(<<e, d>> \in OpToRel(<, Nat))
  BY NatLessThanWellFounded, WFMin
<1>2. \A e \in D : <<e, d>> \in Nat \X Nat /\ <<e, d>>[1] = e /\ <<e, d>>[2] = d
  OBVIOUS
<1>3. \A e \in D : ~(e < d)
  BY <1>1, <1>2 DEF OpToRel
<1> QED
  BY SMT, <1>3

\* findActiveForSymbol() returns an active row's id, or null when there is none: a
\* non-empty set of rows has a newest one.
LEMMA FindActiveType ==
  ASSUME NEW R \in Table
  PROVE  /\ FindActiveForSymbol(R) \in {NoId} \cup Ids
         /\ FindActiveForSymbol(R) # NoId => Active(R[FindActiveForSymbol(R)])
         /\ FindActiveForSymbol(R) = NoId => \A i \in Ids : ~Active(R[i])
<1> DEFINE A == {i \in Ids : Active(R[i])}
           D == {MaxArms - i : i \in A}
<1>1. DOMAIN R = Ids
  BY DEF Table
<1>2. CASE A = {}
  BY <1>1, <1>2 DEF FindActiveForSymbol
<1>3. CASE A # {}
  <2>1. D \subseteq Nat /\ D # {}
    BY SMT, <1>3, BoundsAssumption DEF Ids
  <2>2. PICK d \in D : \A e \in D : d <= e
    BY <2>1, LeastNat
  <2>4. PICK i \in A : d = MaxArms - i
    OBVIOUS
  <2>5. ASSUME NEW j \in A PROVE j <= i
    <3>1. d <= MaxArms - j
      BY <2>2
    <3>2. j \in Int /\ i \in Int /\ MaxArms \in Int
      BY SMT, BoundsAssumption DEF Ids
    <3> QED
      BY SMT, <2>4, <3>1, <3>2
  <2>6. (CHOOSE k \in A : \A j \in A : j <= k) \in A
    BY <2>5
  <2>7. NoId \notin Ids
    BY SMT DEF NoId, Ids
  <2> QED
    BY <1>1, <1>3, <2>6, <2>7 DEF FindActiveForSymbol
<1> QED
  BY <1>2, <1>3

-----------------------------------------------------------------------------
(* Types.                                                                    *)

\* A claim or a release carries a stamp, a settle an outcome.
Formed(w) ==
  /\ w.kind \in {"claim", "release"} => w.stamp \in Ticks
  /\ w.kind = "settle" => w.outcome \in Outcomes

\* A running tick holds an override and has a number; the API's new row is blank.
Shape ==
  /\ \A w \in late : Formed(w)
  /\ tick.pc = "idle" => tick = IdleTick
  /\ tick.pc # "idle" => tick.id \in Ids /\ ticks \in Ticks
  /\ \A i \in Ids : arm[i] \in {"new", "begun"} => rows[i].status = "absent"

\* The types hold before the first request and the first tick.
LEMMA InitTypes == Init => TypeOK /\ Shape
<1> SUFFICES ASSUME Init PROVE TypeOK /\ Shape
  OBVIOUS
<1>1. TypeOK
  BY SMT, BoundsAssumption DEF Init, TypeOK, Times, Ids, Ticks, RowType, NoRow, Statuses, NoClaim, NoId,
     NoKey, ArmStates, TickType, IdleTick, Plans
<1>2. Shape
  BY DEF Init, Shape, IdleTick, NoRow
<1> QED
  BY <1>1, <1>2

\* Whatever a write of the tick path does when it lands, it does to active rows.
LEMMA LandedStep ==
  ASSUME TypeOK, NEW w \in WriteType, Formed(w)
  PROVE  Landed(w) \in Table /\ OnlyActive(rows, Landed(w))
<1>1. rows \in Table /\ w.id \in Ids
  BY DEF TypeOK, Table, WriteType
<1>2. rows \in Table /\ OnlyActive(rows, rows)
  BY <1>1 DEF OnlyActive
<1>3. w.kind = "claim" \/ w.kind = "release" => w.stamp \in Ticks
  BY DEF Formed
<1>4. CASE w.kind = "claim"
  BY <1>1, <1>3, <1>4, RowWriteStep DEF Landed
<1>5. CASE w.kind = "release"
  BY <1>1, <1>3, <1>5, RowWriteStep DEF Landed
<1>6. CASE w.kind = "pickup"
  BY <1>1, <1>6, MarkPickedUpStep DEF Landed
<1>7. CASE w.kind = "settle"
  BY <1>1, <1>7, ConsumeStep DEF Landed, Settle, Formed
<1>8. CASE w.kind = "rearm"
  BY <1>2, <1>8 DEF Landed
<1> QED
  BY <1>4, <1>5, <1>6, <1>7, <1>8 DEF WriteType

\* Every step of an arming request keeps the types.
LEMMA ArmTypes ==
  ASSUME TypeOK, Shape, NEW id \in Ids, Arm(id)
  PROVE  TypeOK' /\ Shape'
<1> USE DEF opVars, tickVars, apiVars
<1>1. rows \in Table
  BY DEF TypeOK, Table
<1>2. CASE ArmBegin(id)
  <2>1. now \in Times /\ rows \in [Ids -> RowType] /\ arm \in [Ids -> ArmStates]
        /\ seen \in [Ids -> SUBSET Ids]
    BY DEF TypeOK
  <2>2. rows' \in [Ids -> RowType] /\ \A i \in Ids : rows'[i].status = rows[i].status
    BY <1>2, <2>1 DEF ArmBegin, RowType
  <2>3. arm' \in [Ids -> ArmStates] /\ \A i \in Ids : i # id => arm'[i] = arm[i]
    BY <1>2, <2>1 DEF ArmBegin, ArmStates
  <2>4. seen' \in [Ids -> SUBSET Ids]
    BY <1>2, <2>1 DEF ArmBegin
  <2>5. TypeOK'
    BY <1>2, <2>2, <2>3, <2>4 DEF ArmBegin, TypeOK
  <2>6. Shape'
    <3>1. arm[id] = "new"
      BY <1>2 DEF ArmBegin
    <3> QED
      BY <1>2, <2>2, <2>3, <3>1 DEF ArmBegin, Shape
  <2> QED
    BY <2>5, <2>6
<1>3. CASE ArmCommit(id)
  <2>1. /\ rows' \in Table
        /\ \A i \in Ids : i # id /\ ~Active(rows[i]) => rows'[i] = rows[i]
    BY <1>1, <1>3, RecordStep DEF ArmCommit
  <2> QED
    BY <1>3, <2>1 DEF ArmCommit, TypeOK, Shape, ArmStates, Table, Active
<1>4. CASE ArmSet(id)
  BY SMT, <1>4, BoundsAssumption DEF ArmSet, TypeOK, Shape, ArmStates, Times
<1>5. CASE ArmEnqueue(id)
  BY SMT, <1>5 DEF ArmEnqueue, TypeOK, Shape, ArmStates
<1>6. CASE RollbackGet(id)
  BY SMT, <1>6 DEF RollbackGet, TypeOK, Shape, ArmStates
<1>7. CASE RollbackDel(id)
  BY SMT, <1>7 DEF RollbackDel, TypeOK, Shape, ArmStates
<1>8. CASE ArmSettle(id)
  <2>1. rows' \in Table /\ OnlyActive(rows, rows')
    BY SMT, <1>1, <1>8, ConsumeStep DEF ArmSettle, Settle, Outcomes, OnlyActive
  <2> QED
    BY <1>8, <2>1 DEF ArmSettle, TypeOK, Shape, ArmStates, Table, OnlyActive, Active
<1>9. CASE ArmDies(id)
  BY <1>9 DEF ArmDies, Arming, TypeOK, Shape, ArmStates
<1> QED
  BY <1>2, <1>3, <1>4, <1>5, <1>6, <1>7, <1>8, <1>9 DEF Arm

\* Every step of a cancel or a wipe keeps the types.
LEMMA DeleteTypes ==
  ASSUME TypeOK, Shape, Delete
  PROVE  TypeOK' /\ Shape'
<1> USE DEF opVars, tickVars, apiVars
<1>1. rows \in Table
  BY DEF TypeOK, Table
<1>2. DeletePendingForSymbol(rows) \in Table /\ OnlyActive(rows, DeletePendingForSymbol(rows))
  BY <1>1, TableWriteStep
<1>3. CASE CancelFind
  <2>1. FindActiveForSymbol(rows) \in {NoId} \cup Ids
    BY <1>1, FindActiveType
  <2> QED
    BY SMT, <1>3, <2>1, BoundsAssumption DEF CancelFind, TypeOK, Shape
<1>4. CASE CancelDelete
  BY <1>2, <1>4 DEF CancelDelete, TypeOK, Shape, Table, OnlyActive, Active
<1>5. CASE CancelReadBack
  BY <1>5 DEF CancelReadBack, Answer204, TypeOK, Shape
<1>6. CASE CancelEvict
  BY <1>6 DEF CancelEvict, Answer204, TypeOK, Shape
<1>7. CASE WipeRedis
  BY SMT, <1>7, BoundsAssumption DEF WipeRedis, TypeOK, Shape
<1>8. CASE WipeRows
  BY <1>2, <1>8 DEF WipeRows, TypeOK, Shape, Table, OnlyActive, Active
<1>9. CASE Unbind
  BY SMT, <1>2, <1>9, BoundsAssumption DEF Unbind, TypeOK, Shape, Table, OnlyActive, Active
<1> QED
  BY <1>3, <1>4, <1>5, <1>6, <1>7, <1>8, <1>9 DEF Delete

\* A write of the running tick is well formed.
LEMMA WriteTypes ==
  ASSUME TypeOK, Shape, tick.pc # "idle"
  PROVE  /\ ClaimWrite \in WriteType /\ Formed(ClaimWrite)
         /\ LET w == Write("pickup", tick.id, NoClaim, 0, "none") IN w \in WriteType /\ Formed(w)
         /\ LET w == Write("release", tick.id, ticks, 0, "none") IN w \in WriteType /\ Formed(w)
         /\ LET w == Write("rearm", tick.id, NoClaim, tick.px, "none")
            IN  w \in WriteType /\ Formed(w)
         /\ \A outcome \in Outcomes :
              SettleWrite(tick, outcome) \in WriteType /\ Formed(SettleWrite(tick, outcome))
BY DEF TypeOK, Shape, TickType, ClaimWrite, SettleWrite, Write, WriteType, Formed, NoClaim

\* raceDeadline(): whether it lands or is abandoned, a write keeps table and wire.
LEMMA BoundedWrite ==
  ASSUME TypeOK, Shape, NEW w \in WriteType, Formed(w), LandsNow(w) \/ Abandoned(w)
  PROVE  /\ rows' \in Table /\ OnlyActive(rows, rows')
         /\ late' \subseteq WriteType /\ \A v \in late' : Formed(v)
<1>1. rows \in Table /\ OnlyActive(rows, rows)
  BY DEF TypeOK, Table, OnlyActive
<1>2. CASE LandsNow(w)
  BY <1>2, LandedStep DEF LandsNow, TypeOK, Shape
<1>3. CASE Abandoned(w)
  BY <1>1, <1>3 DEF Abandoned, TypeOK, Shape
<1> QED
  BY <1>2, <1>3

\* A tick is idle or holds an override.
Ticket(t) ==
  /\ t \in TickType
  /\ t.pc = "idle" => t = IdleTick
  /\ t.pc # "idle" => t.id \in Ids

\* An idle tick and an aborted one are well formed.
LEMMA TicketSteps ==
  ASSUME TypeOK, Shape
  PROVE  Ticket(tick) /\ Ticket(IdleTick) /\ (tick.pc # "idle" => Ticket(Abort(tick)))
<1>1. Ticket(tick)
  BY DEF TypeOK, Shape, Ticket
<1>2. Ticket(IdleTick)
  BY SMT, BoundsAssumption DEF Ticket, IdleTick, TickType, NoId, Plans, Times
<1>3. ASSUME tick.pc # "idle" PROVE Ticket(Abort(tick))
  BY <1>1, <1>3 DEF Ticket, TickType, Abort
<1> QED
  BY <1>1, <1>2, <1>3

\* What a step of the tick path must keep for the types to hold.
LEMMA TickFrame ==
  ASSUME TypeOK, Shape, UNCHANGED <<now, arm, seen, op, requests, told, sweepAt>>,
         Ticket(tick'), ticks' \in 0..MaxTicks, tick'.pc # "idle" => ticks' \in Ticks,
         rows' \in Table, OnlyActive(rows, rows'),
         late' \subseteq WriteType, \A w \in late' : Formed(w),
         key' \in {NoKey} \cup [id : Ids, expires : Nat],
         stampAt' \in [Ticks -> Times], orders' \in [Ids -> Nat], unstamped' \subseteq Ids
  PROVE  TypeOK' /\ Shape'
<1>1. TypeOK'
  BY DEF TypeOK, Ticket, Table
<1>2. Shape'
  BY DEF TypeOK, Shape, Ticket, OnlyActive, Active
<1> QED
  BY <1>1, <1>2

\* Every step of a tick keeps the types.
LEMMA TickTypes ==
  ASSUME TypeOK, Shape, TickRead \/ TickStep
  PROVE  TypeOK' /\ Shape'
<1> USE DEF opVars, tickVars, apiVars
<1>1. /\ rows \in Table /\ OnlyActive(rows, rows)
      /\ late \subseteq WriteType /\ \A w \in late : Formed(w)
      /\ key \in {NoKey} \cup [id : Ids, expires : Nat]
      /\ stampAt \in [Ticks -> Times] /\ orders \in [Ids -> Nat] /\ unstamped \subseteq Ids
      /\ ticks \in 0..MaxTicks /\ tick \in TickType
      /\ tick.pc # "idle" => tick.id \in Ids /\ ticks \in Ticks
  BY DEF TypeOK, Shape, Table, OnlyActive
<1>2. Ticket(IdleTick) /\ IdleTick.pc = "idle"
  BY TicketSteps DEF IdleTick
<1>3. CASE TickRead
  <2>1. ticks' \in Ticks
    BY SMT, <1>1, <1>3, BoundsAssumption DEF TickRead, Ticks
  <2>2. key.id \in Ids /\ key.expires \in Nat /\ now \in Times
    BY <1>1, <1>3 DEF TickRead, TypeOK
  <2>3. Ticket(tick')
    <3>1. PICK d \in {key.expires, 0} :
            tick' = [IdleTick EXCEPT !.pc = "read", !.id = key.id, !.startedAt = now, !.deadline = d]
      BY <1>3 DEF TickRead
    <3>2. d \in Nat
      BY SMT, <2>2
    <3> QED
      BY <2>2, <3>1, <3>2 DEF Ticket, TickType, IdleTick, Plans
  <2> QED
    BY SMT, <1>1, <1>3, <2>1, <2>3, TickFrame DEF TickRead, Ticks
<1>4. CASE TickConsume
  <2>1. Ticket(tick')
    BY <1>1, <1>2, <1>4 DEF TickConsume, Ticket, TickType
  <2>2. stampAt' \in [Ticks -> Times]
    BY <1>1, <1>4 DEF TickConsume, TypeOK
  <2> QED
    BY <1>1, <1>4, <2>1, <2>2, TickFrame DEF TickConsume
<1>5. CASE ClaimReplies
  <2>1. tick.pc # "idle"
    BY SMT, <1>5 DEF ClaimReplies, Shape, IdleTick
  <2>2. Landed(ClaimWrite) \in Table /\ OnlyActive(rows, Landed(ClaimWrite))
    BY <2>1, LandedStep, WriteTypes
  <2>3. Ticket(tick')
    BY SMT, <1>1, <1>5, <2>1 DEF ClaimReplies, Ticket, TickType
  <2> QED
    BY <1>1, <1>5, <2>1, <2>2, <2>3, TickFrame DEF ClaimReplies
<1>6. CASE ClaimTimesOut
  <2>1. tick.pc # "idle"
    BY <1>6 DEF ClaimTimesOut
  <2>2. ClaimWrite \in WriteType /\ Formed(ClaimWrite)
    BY <2>1, WriteTypes
  <2>3. Ticket(tick')
    BY <1>1, <1>6, <2>1 DEF ClaimTimesOut, Ticket, TickType
  <2> QED
    BY <1>1, <1>6, <2>1, <2>2, <2>3, TickFrame DEF ClaimTimesOut, Abandoned
<1>7. CASE TickBody
  <2>1. Ticket(tick')
    <3>1. ASSUME NEW plan \in Plans, tick' = [tick EXCEPT !.pc = "gate", !.fate = plan]
          PROVE  Ticket(tick')
      BY <1>1, <1>7, <3>1 DEF TickBody, Ticket, TickType
    <3>2. ASSUME NEW d \in BOOLEAN, tick' = [Abort(tick) EXCEPT !.deterministic = d]
          PROVE  Ticket(tick')
      <4>1. Ticket(Abort(tick)) /\ Abort(tick).pc = "compensate"
        BY <1>1, <1>7, TicketSteps DEF TickBody, Abort, TickType
      <4> QED
        BY <3>2, <4>1 DEF Ticket, TickType
    <3> QED
      BY <1>7, <3>1, <3>2 DEF TickBody
  <2> QED
    BY <1>1, <1>7, <2>1, TickFrame DEF TickBody
<1>8. CASE TickGate
  <2> DEFINE w == Write("pickup", tick.id, NoClaim, 0, "none")
  <2>1. tick.pc # "idle" /\ w \in WriteType /\ Formed(w)
    BY <1>8, WriteTypes DEF TickGate
  <2>2. LandsNow(w) \/ Abandoned(w) \/ UNCHANGED <<rows, late>>
    BY <1>8 DEF TickGate
  <2>3. Ticket(tick')
    <3>1. \/ tick' = Abort(tick)
          \/ tick' = [tick EXCEPT !.pc = "apply"]
          \/ tick' = [tick EXCEPT !.pc = "apply", !.attempted = TRUE]
      BY <1>8 DEF TickGate
    <3>2. CASE tick' = [tick EXCEPT !.pc = "apply"]
      BY <1>1, <2>1, <3>2 DEF Ticket, TickType
    <3>3. CASE tick' = [tick EXCEPT !.pc = "apply", !.attempted = TRUE]
      BY <1>1, <2>1, <3>3 DEF Ticket, TickType
    <3> QED
      BY <2>1, <3>1, <3>2, <3>3, TicketSteps
  <2>4. unstamped' \subseteq Ids
    BY <1>1, <1>8, <2>1 DEF TickGate
  <2> HIDE DEF w
  <2>5. /\ rows' \in Table /\ OnlyActive(rows, rows')
        /\ late' \subseteq WriteType /\ \A v \in late' : Formed(v)
    BY <1>1, <2>1, <2>2, BoundedWrite DEF OnlyActive
  <2> QED
    BY <1>1, <1>8, <2>1, <2>3, <2>4, <2>5, TickFrame DEF TickGate
<1>9. CASE TickApply
  <2>1. Ticket(tick')
    <3>1. PICK fate \in Plans \cup {"placed", "accepted", "ambiguous", "refused", "aborted"} :
            tick' = Finished(tick, fate)
      BY SMT, <1>1, <1>9 DEF TickApply, OrderResults, Plans, TickType
    <3>2. tick.pc # "idle"
      BY <1>9 DEF TickApply
    <3>3. CASE fate = "aborted"
      BY <3>1, <3>2, <3>3, TicketSteps DEF Finished
    <3>4. CASE fate # "aborted"
      BY <1>1, <3>1, <3>2, <3>4 DEF Finished, Ticket, TickType
    <3> QED
      BY <3>3, <3>4
  <2>2. orders' \in [Ids -> Nat]
    BY SMT, <1>1, <1>9 DEF TickApply, OrderResults
  <2> QED
    BY <1>1, <1>9, <2>1, <2>2, TickFrame DEF TickApply
<1>10. CASE TickCompensate
  <2>1. Ticket(tick')
    BY SMT, <1>1, <1>2, <1>10 DEF TickCompensate, Ticket, TickType
  <2> QED
    BY <1>1, <1>10, <2>1, TickFrame DEF TickCompensate
<1>11. CASE TickRelease
  <2>1. tick.pc # "idle" /\ tick.deadline - now \in Nat
    BY SMT, <1>11 DEF TickRelease, CanRearm, TypeOK, TickType, Times
  <2>2. /\ rows' \in Table /\ OnlyActive(rows, rows')
        /\ late' \subseteq WriteType /\ \A v \in late' : Formed(v)
    BY <1>11, <2>1, WriteTypes, BoundedWrite DEF TickRelease
  <2>3. Ticket(tick')
    BY <1>1, <1>11, <2>1 DEF TickRelease, Ticket, TickType
  <2> QED
    BY <1>1, <1>11, <2>1, <2>2, <2>3, TickFrame DEF TickRelease
<1>12. CASE TickRearm
  <2> DEFINE w == Write("rearm", tick.id, NoClaim, tick.px, "none")
  <2>1. tick.pc # "idle" /\ w \in WriteType /\ Formed(w)
    BY <1>12, WriteTypes DEF TickRearm
  <2>2. now + w.px \in Nat /\ w.id \in Ids
    BY SMT, <2>1 DEF TypeOK, WriteType, Times
  <2>3. Ticket(tick')
    <3>1. tick' = IdleTick \/ tick' = [tick EXCEPT !.pc = "superseded"]
      BY <1>12 DEF TickRearm
    <3>2. CASE tick' = IdleTick
      BY <1>2, <3>2
    <3>3. CASE tick' = [tick EXCEPT !.pc = "superseded"]
      BY <1>1, <2>1, <3>3 DEF Ticket, TickType
    <3> QED
      BY <3>1, <3>2, <3>3
  <2>4. /\ key' = Rearmed(w) \/ UNCHANGED key
        /\ late' = late \/ late' = late \cup {w}
        /\ UNCHANGED <<rows, ticks, stampAt, orders, unstamped, now, arm, seen, op, requests, told, sweepAt>>
    BY <1>12 DEF TickRearm
  <2> HIDE DEF w
  <2>5. key' = key \/ key' = [id |-> w.id, expires |-> now + w.px]
    BY <2>4 DEF Rearmed
  <2>6. key' \in {NoKey} \cup [id : Ids, expires : Nat]
    BY SMT, <1>1, <2>2, <2>5
  <2> QED
    BY <1>1, <2>1, <2>3, <2>4, <2>6, TickFrame
<1>13. CASE TickSettle
  <2> DEFINE outcome == IF tick.pc = "superseded" THEN "superseded" ELSE OutcomeOf(tick)
  <2>1. tick.pc # "idle" /\ outcome \in Outcomes
    BY <1>13 DEF TickSettle, OutcomeOf, Outcomes
  <2>2. LandsNow(SettleWrite(tick, outcome)) \/ Abandoned(SettleWrite(tick, outcome))
    BY <1>13 DEF TickSettle
  <2> HIDE DEF outcome
  <2>3. /\ rows' \in Table /\ OnlyActive(rows, rows')
        /\ late' \subseteq WriteType /\ \A v \in late' : Formed(v)
    BY <2>1, <2>2, WriteTypes, BoundedWrite
  <2> QED
    BY <1>1, <1>2, <1>13, <2>3, TickFrame DEF TickSettle
<1>14. CASE TickCrash
  <2>1. ClaimWrite \in WriteType /\ Formed(ClaimWrite)
    BY <1>14, WriteTypes DEF TickCrash
  <2>2. late' \subseteq WriteType /\ \A w \in late' : Formed(w)
    BY <1>1, <1>14, <2>1 DEF TickCrash
  <2> QED
    BY <1>1, <1>2, <1>14, <2>2, TickFrame DEF TickCrash
<1> QED
  BY <1>3, <1>4, <1>5, <1>6, <1>7, <1>8, <1>9, <1>10, <1>11, <1>12, <1>13, <1>14 DEF TickStep

\* What a write to the table from outside the tick must keep for the types to hold.
LEMMA TableFrame ==
  ASSUME TypeOK, Shape, rows' \in Table, OnlyActive(rows, rows'), late' \subseteq late,
         key' \in {NoKey} \cup [id : Ids, expires : Nat], sweepAt' \in {-1} \cup Times,
         now' \in Times, UNCHANGED <<apiVars, opVars, tickVars, orders, unstamped>>
  PROVE  TypeOK' /\ Shape'
<1> USE DEF opVars, tickVars, apiVars
<1>1. late' \subseteq WriteType
  BY DEF TypeOK
<1>2. TypeOK'
  BY <1>1 DEF TypeOK, Table
<1>3. \A w \in late' : Formed(w)
  BY DEF Shape
<1>4. \A i \in Ids : arm[i] \in {"new", "begun"} => rows'[i].status = "absent"
  BY DEF Shape, OnlyActive, Active
<1> QED
  BY <1>2, <1>3, <1>4 DEF Shape

\* A late write, the cron and the clock keep the types.
LEMMA OtherTypes ==
  ASSUME TypeOK, Shape, (\E w \in late : LateLands(w)) \/ Cron \/ Clock
  PROVE  TypeOK' /\ Shape'
<1> USE DEF opVars, tickVars, apiVars
<1>1. rows \in Table /\ now \in Times
  BY DEF TypeOK, Table
<1>2. ASSUME NEW w \in late, LateLands(w) PROVE TypeOK' /\ Shape'
  <2>1. w \in WriteType /\ Formed(w) /\ w.id \in Ids /\ now + w.px \in Nat
    BY SMT DEF TypeOK, Shape, WriteType, Times
  <2>2. rows' \in Table /\ OnlyActive(rows, rows')
    BY <1>2, <2>1, LandedStep DEF LateLands
  <2>3. key' \in {NoKey} \cup [id : Ids, expires : Nat]
    BY <1>2, <2>1 DEF LateLands, Rearmed, TypeOK
  <2>4. late' \subseteq late /\ sweepAt' \in {-1} \cup Times
    BY <1>2 DEF LateLands, TypeOK
  <2> QED
    BY <1>1, <1>2, <2>2, <2>3, <2>4, TableFrame DEF LateLands
<1>3. CASE SweepPicked
  <2>1. rows' \in Table /\ OnlyActive(rows, rows')
    BY <1>1, <1>3, ConsumeStep DEF SweepPicked, ReapPicked, Outcomes
  <2>2. /\ late' \subseteq late /\ sweepAt' \in {-1} \cup Times
        /\ key' \in {NoKey} \cup [id : Ids, expires : Nat]
    BY <1>3 DEF SweepPicked, TypeOK
  <2> QED
    BY <1>1, <1>3, <2>1, <2>2, TableFrame DEF SweepPicked
<1>4. CASE SweepUnpicked
  <2>1. rows' \in Table /\ OnlyActive(rows, rows')
    BY <1>1, <1>4, ConsumeStep DEF SweepUnpicked, ReapUnpicked, Outcomes
  <2>2. /\ late' \subseteq late /\ sweepAt' \in {-1} \cup Times
        /\ key' \in {NoKey} \cup [id : Ids, expires : Nat]
    BY <1>4 DEF SweepUnpicked, TypeOK
  <2> QED
    BY <1>1, <1>4, <2>1, <2>2, TableFrame DEF SweepUnpicked
<1>5. CASE ReapStale
  <2>1. rows' \in Table /\ OnlyActive(rows, rows')
    BY <1>1, <1>5, TableWriteStep DEF ReapStale
  <2>2. /\ late' \subseteq late /\ sweepAt' \in {-1} \cup Times
        /\ key' \in {NoKey} \cup [id : Ids, expires : Nat]
    BY <1>5 DEF ReapStale, TypeOK
  <2> QED
    BY <1>1, <1>5, <2>1, <2>2, TableFrame DEF ReapStale
<1>6. CASE Clock
  <2>1. now' \in Times
    BY SMT, <1>6, BoundsAssumption DEF Clock, TypeOK, Times
  <2>2. /\ late' \subseteq late /\ sweepAt' \in {-1} \cup Times
        /\ key' \in {NoKey} \cup [id : Ids, expires : Nat]
    BY <1>6 DEF Clock, TypeOK
  <2>3. rows' \in Table /\ OnlyActive(rows, rows')
    BY <1>1, <1>6 DEF Clock, OnlyActive
  <2> QED
    BY <1>6, <2>1, <2>2, <2>3, TableFrame DEF Clock
<1> QED
  BY <1>2, <1>3, <1>4, <1>5, <1>6 DEF Cron

\* Every step of the system keeps the types.
LEMMA NextTypes ==
  ASSUME TypeOK, Shape, [Next]_vars
  PROVE  TypeOK' /\ Shape'
<1>1. CASE UNCHANGED vars
  BY <1>1 DEF vars, apiVars, opVars, tickVars, TypeOK, Shape
<1> QED
  BY <1>1, ArmTypes, DeleteTypes, TickTypes, OtherTypes DEF Next

\* Type correctness of the override lifecycle, whatever the bounds.
THEOREM OverrideTypes == Spec => []TypeOK
<1>1. Init => TypeOK /\ Shape
  BY InitTypes
<1>2. TypeOK /\ Shape /\ [Next]_vars => TypeOK' /\ Shape'
  BY NextTypes
<1> QED
  BY <1>1, <1>2, PTL DEF Spec

-----------------------------------------------------------------------------
(* A settled row is final.                                                   *)

Final(R, R2) ==
  \A id \in Ids : R[id].status \in Outcomes \cup {"deleted"} => R2[id].status = R[id].status

\* No step rewrites the outcome of a settled row or brings a deleted one back.
LEMMA NextFinal ==
  ASSUME TypeOK, Shape, [Next]_vars
  PROVE  Final(rows, rows')
<1> USE DEF opVars, tickVars, apiVars
<1>1. rows \in Table
  BY DEF TypeOK, Table
<1>2. ASSUME OnlyActive(rows, rows') PROVE Final(rows, rows')
  BY <1>2 DEF OnlyActive, Final, Active, Outcomes
<1>3. ASSUME UNCHANGED rows PROVE Final(rows, rows')
  BY <1>3 DEF Final
<1>4. CASE UNCHANGED vars
  BY <1>3, <1>4 DEF vars
<1>5. ASSUME NEW id \in Ids, Arm(id) PROVE Final(rows, rows')
  <2>1. CASE ArmBegin(id)
    BY <1>1, <2>1 DEF ArmBegin, Final, Table, RowType
  <2>2. CASE ArmCommit(id)
    <3>1. \A i \in Ids : i # id /\ ~Active(rows[i]) => rows'[i] = rows[i]
      BY <1>1, <2>2, RecordStep DEF ArmCommit
    <3>2. rows[id].status = "absent"
      BY <2>2 DEF ArmCommit, Shape
    <3> QED
      BY SMTT(30), <3>1, <3>2 DEF Final, Active, Outcomes
  <2>3. CASE ArmSettle(id)
    BY <1>1, <1>2, <1>3, <2>3, ConsumeStep DEF ArmSettle, Settle, Outcomes
  <2> QED
    BY <1>3, <1>5, <2>1, <2>2, <2>3
       DEF Arm, ArmSet, ArmEnqueue, RollbackGet, RollbackDel, ArmDies
<1>6. CASE Delete
  BY <1>1, <1>2, <1>3, <1>6, TableWriteStep
     DEF Delete, CancelFind, CancelDelete, CancelReadBack, CancelEvict, WipeRedis, WipeRows, Unbind
<1>7. CASE TickRead \/ TickStep
  <2>1. CASE ClaimReplies
    <3>1. tick.pc # "idle"
      BY SMT, <2>1 DEF ClaimReplies, Shape, IdleTick
    <3>2. OnlyActive(rows, Landed(ClaimWrite))
      BY <3>1, LandedStep, WriteTypes
    <3> QED
      BY <1>2, <1>3, <2>1, <3>2 DEF ClaimReplies
  <2>2. CASE TickGate
    <3> DEFINE w == Write("pickup", tick.id, NoClaim, 0, "none")
    <3>1. w \in WriteType /\ Formed(w)
      BY <2>2, WriteTypes DEF TickGate
    <3>2. LandsNow(w) \/ UNCHANGED rows
      BY <2>2 DEF TickGate, Abandoned
    <3> HIDE DEF w
    <3> QED
      BY <1>2, <1>3, <3>1, <3>2, LandedStep DEF LandsNow
  <2>3. CASE TickRelease
    <3>1. tick.pc # "idle"
      BY <2>3 DEF TickRelease
    <3> QED
      BY <1>2, <2>3, <3>1, WriteTypes, BoundedWrite DEF TickRelease
  <2>4. CASE TickSettle
    <3> DEFINE outcome == IF tick.pc = "superseded" THEN "superseded" ELSE OutcomeOf(tick)
    <3>1. tick.pc # "idle" /\ outcome \in Outcomes
      BY <2>4 DEF TickSettle, OutcomeOf, Outcomes
    <3>2. LandsNow(SettleWrite(tick, outcome)) \/ Abandoned(SettleWrite(tick, outcome))
      BY <2>4 DEF TickSettle
    <3> HIDE DEF outcome
    <3> QED
      BY <1>2, <3>1, <3>2, WriteTypes, BoundedWrite
  <2> QED
    BY <1>3, <1>7, <2>1, <2>2, <2>3, <2>4
       DEF TickStep, TickRead, TickConsume, ClaimTimesOut, Abandoned, TickBody, TickApply,
           TickCompensate, TickRearm, TickCrash
<1>8. ASSUME NEW w \in late, LateLands(w) PROVE Final(rows, rows')
  <2>1. w \in WriteType /\ Formed(w)
    BY DEF TypeOK, Shape
  <2> QED
    BY <1>2, <1>8, <2>1, LandedStep DEF LateLands
<1>9. CASE Cron
  BY <1>1, <1>2, <1>9, ConsumeStep, TableWriteStep
     DEF Cron, SweepPicked, SweepUnpicked, ReapStale, ReapPicked, ReapUnpicked, Outcomes
<1>10. CASE Clock
  BY <1>3, <1>10 DEF Clock
<1> QED
  BY <1>4, <1>5, <1>6, <1>7, <1>8, <1>9, <1>10 DEF Next

\* A settled row's outcome is never rewritten, by any of its six writers.
THEOREM OverrideSettledIsFinal == Spec => SettledIsFinal
<1>1. Init => TypeOK /\ Shape
  BY InitTypes
<1>2. TypeOK /\ Shape /\ [Next]_vars => TypeOK' /\ Shape'
  BY NextTypes
<1>3. TypeOK /\ Shape /\ [Next]_vars
        => [\A id \in Ids : rows[id].status \in Outcomes \cup {"deleted"}
                              => rows'[id].status = rows[id].status]_vars
  BY NextFinal DEF Final
<1> QED
  BY <1>1, <1>2, <1>3, PTL DEF Spec, SettledIsFinal

-----------------------------------------------------------------------------
(* At most one order.  An override is a token: it is with the request that   *)
(* has not SET the key yet, in the key, with the tick that took the key, or  *)
(* in an abandoned re-arm on the wire, and never in two of these.  An order  *)
(* on the exchange uses the token up: what the tick still holds is spent.    *)

Unset(id) == arm[id] \in {"new", "begun", "recorded"}

Reads(id) == tick.id = id /\ tick.pc = "read"

Holds(id) ==
  tick.id = id /\ tick.pc \in {"body", "gate", "apply", "compensate", "settle", "rearm"}

NoRearm(id) == \A w \in late : ~(w.kind = "rearm" /\ w.id = id)

Spent(t) ==
  /\ t.pc \in {"compensate", "settle"}
  /\ t.fate \in {"placed", "accepted", "ambiguous"} \/ (t.fate = "aborted" /\ t.attempted)

Token(id) ==
  /\ Unset(id) => key.id # id /\ tick.id # id /\ NoRearm(id) /\ orders[id] = 0
  /\ key.id = id => ~Holds(id) /\ NoRearm(id)
  /\ Holds(id) \/ Reads(id) => NoRearm(id)
  /\ \A v, w \in late : v.kind = "rearm" /\ w.kind = "rearm" /\ v.id = id /\ w.id = id => v = w
  /\ orders[id] <= 1
  /\ orders[id] # 0 => key.id # id /\ ~Reads(id) /\ NoRearm(id) /\ (Holds(id) => Spent(tick))

Tokens ==
  /\ \A id \in Ids : Token(id)
  /\ tick.pc = "apply" /\ tick.fate = "ours" => tick.attempted

\* A step that moves no token: none is created, and at most one is dropped.
LEMMA TokenQuiet ==
  ASSUME TypeOK, Shape, Tokens,
         \A i \in Ids : Unset(i)' => Unset(i),
         key' = key \/ key' = NoKey,
         orders' = orders,
         \A w \in late' : w \in late \/ w.kind # "rearm",
         \/ tick' = IdleTick
         \/ /\ tick'.id = tick.id /\ tick'.pc = tick.pc
            /\ tick'.fate = tick.fate /\ tick'.attempted = tick.attempted
  PROVE  Tokens'
<1>1. NoKey.id \notin Ids /\ IdleTick.id \notin Ids /\ IdleTick.pc = "idle"
  BY SMT DEF NoKey, IdleTick, NoId, Ids
<1>2. ASSUME NEW id \in Ids PROVE Token(id)'
  <2>1. Token(id) /\ (NoRearm(id) => NoRearm(id)')
    BY DEF Tokens, NoRearm
  <2>2. (Holds(id)' => Holds(id)) /\ (Reads(id)' => Reads(id)) /\ (tick'.id = id => tick.id = id)
    BY <1>1 DEF Holds, Reads
  <2>3. Holds(id)' /\ Spent(tick) => Spent(tick)'
    BY <1>1 DEF Holds, Spent
  <2>4. key'.id = id => key.id = id
    BY <1>1
  <2> QED
    BY <2>1, <2>2, <2>3, <2>4 DEF Token
<1>3. tick'.pc = "apply" /\ tick'.fate = "ours" => tick'.attempted
  BY <1>1 DEF Tokens
<1> QED
  BY <1>2, <1>3 DEF Tokens

\* A step of the running tick that keeps the token where it is.
LEMMA TokenKept ==
  ASSUME TypeOK, Shape, Tokens, UNCHANGED <<arm, key, orders>>,
         \A w \in late' : w \in late \/ w.kind # "rearm",
         tick'.id = tick.id, Holds(tick.id), tick'.pc # "read",
         orders[tick.id] # 0 => Spent(tick'),
         tick'.pc = "apply" /\ tick'.fate = "ours" => tick'.attempted
  PROVE  Tokens'
<1>1. ASSUME NEW id \in Ids PROVE Token(id)'
  <2>1. Token(id) /\ (NoRearm(id) => NoRearm(id)') /\ (Unset(id)' => Unset(id))
    BY DEF Tokens, NoRearm, Unset
  <2>2. ~Reads(id)' /\ (Holds(id)' => Holds(id))
    BY DEF Holds, Reads
  <2>3. Holds(id) /\ orders[id] # 0 => Spent(tick)'
    BY DEF Holds, Spent
  <2> QED
    BY <2>1, <2>2, <2>3 DEF Token
<1> QED
  BY <1>1 DEF Tokens

\* No step of an arming request, a cancel, a wipe, the cron or the clock duplicates a
\* token; the SET moves it from the request to the key.
LEMMA ApiTokens ==
  ASSUME TypeOK, Shape, Tokens, (\E id \in Ids : Arm(id)) \/ Delete \/ Cron \/ Clock
  PROVE  Tokens'
<1> USE DEF opVars, tickVars, apiVars
<1>1. ASSUME NEW id \in Ids, Arm(id), ~ArmSet(id) PROVE Tokens'
  <2>1. /\ UNCHANGED <<late, tick, orders>>
        /\ key' = key \/ key' = NoKey
    <3>1. CASE ArmBegin(id) \/ ArmCommit(id) \/ ArmEnqueue(id)
      BY <3>1 DEF ArmBegin, ArmCommit, ArmEnqueue
    <3>2. CASE RollbackGet(id) \/ RollbackDel(id)
      BY <3>2 DEF RollbackGet, RollbackDel
    <3>3. CASE ArmSettle(id) \/ ArmDies(id)
      BY <3>3 DEF ArmSettle, ArmDies
    <3> QED
      BY <1>1, <3>1, <3>2, <3>3 DEF Arm
  <2>2. \A i \in Ids : Unset(i)' => Unset(i)
    <3>0. arm \in [Ids -> ArmStates]
      BY DEF TypeOK
    <3>1. CASE ArmBegin(id) \/ ArmCommit(id)
      BY <3>0, <3>1 DEF ArmBegin, ArmCommit, Unset
    <3>2. CASE ArmEnqueue(id) \/ RollbackGet(id) \/ RollbackDel(id)
      BY <3>0, <3>2 DEF ArmEnqueue, RollbackGet, RollbackDel, Unset
    <3>3. CASE ArmSettle(id) \/ ArmDies(id)
      BY <3>0, <3>3 DEF ArmSettle, ArmDies, Unset
    <3> QED
      BY <1>1, <3>1, <3>2, <3>3 DEF Arm
  <2> QED
    BY SMTT(30), <2>1, <2>2, TokenQuiet
<1>2. ASSUME NEW id \in Ids, ArmSet(id) PROVE Tokens'
  <2>1. /\ UNCHANGED <<late, tick, orders>>
        /\ key' = key \/ key' = [id |-> id, expires |-> now + TTL]
        /\ Unset(id) /\ ~Unset(id)'
        /\ \A i \in Ids : i # id => (Unset(i)' <=> Unset(i))
    BY <1>2 DEF ArmSet, Unset, TypeOK
  <2>2. ASSUME NEW i \in Ids PROVE Token(i)'
    <3>1. Token(i) /\ Token(id) /\ (NoRearm(i)' <=> NoRearm(i)) /\ (Spent(tick)' <=> Spent(tick))
          /\ (Holds(i)' <=> Holds(i)) /\ (Reads(i)' <=> Reads(i))
      BY <2>1 DEF Tokens, NoRearm, Holds, Reads, Spent
    <3>2. CASE i = id
      BY <2>1, <3>1, <3>2 DEF Token, Holds, Reads
    <3>3. CASE i # id
      <4>1. key'.id = i => key.id = i
        BY SMT, <2>1, <3>3
      <4>2. (Unset(i)' <=> Unset(i)) /\ UNCHANGED <<late, tick, orders>>
        BY <2>1, <3>3
      <4> QED
        BY <3>1, <4>1, <4>2 DEF Token
    <3> QED
      BY <3>2, <3>3
  <2> QED
    BY <2>1, <2>2 DEF Tokens
<1>3. CASE Delete \/ Cron \/ Clock
  <2>1. /\ UNCHANGED <<arm, tick, orders>>
        /\ key' = key \/ key' = NoKey
        /\ late' \subseteq late
    BY <1>3 DEF Delete, CancelFind, CancelDelete, CancelReadBack, CancelEvict, WipeRedis, WipeRows, Unbind,
                Cron, SweepPicked, SweepUnpicked, ReapStale, Clock
  <2> QED
    BY <2>1, TokenQuiet DEF Unset
<1> QED
  BY <1>1, <1>2, <1>3

\* The DEL moves the token from the key to the tick; a failed one leaves it there.
LEMMA ConsumeTokens ==
  ASSUME TypeOK, Shape, Tokens, TickRead \/ TickConsume
  PROVE  Tokens'
<1> USE DEF opVars, tickVars, apiVars
<1>1. NoKey.id \notin Ids /\ IdleTick.id \notin Ids /\ IdleTick.pc = "idle"
  BY SMT DEF NoKey, IdleTick, NoId, Ids
<1>2. CASE TickRead
  <2>1. /\ UNCHANGED <<arm, key, late, orders>>
        /\ tick'.id = key.id /\ tick'.pc = "read"
    BY <1>2 DEF TickRead, IdleTick
  <2>2. ASSUME NEW id \in Ids PROVE Token(id)'
    BY <2>1 DEF Tokens, Token, Unset, NoRearm, Holds, Reads
  <2> QED
    BY <2>1, <2>2 DEF Tokens
<1>3. CASE TickConsume
  <2>1. CASE tick' = IdleTick
    BY <1>3, <2>1, TokenQuiet DEF TickConsume, Unset
  <2>2. CASE tick' # IdleTick
    <3>1. /\ UNCHANGED <<arm, late, orders>>
          /\ key' = NoKey /\ tick.pc = "read" /\ tick'.id = tick.id /\ tick'.pc = "body"
      BY <1>3, <2>2 DEF TickConsume, TypeOK, TickType
    <3>2. ASSUME NEW id \in Ids PROVE Token(id)'
      BY SMT, <1>1, <3>1 DEF Tokens, Token, Unset, NoRearm, Holds, Reads
    <3> QED
      BY <3>1, <3>2 DEF Tokens
  <2> QED
    BY <2>1, <2>2
<1> QED
  BY <1>2, <1>3

\* The executor turns the token into at most one order, and then it is spent.
LEMMA ApplyTokens ==
  ASSUME TypeOK, Shape, Tokens, TickApply
  PROVE  Tokens'
<1> USE DEF opVars, tickVars, apiVars
<1>1. /\ tick.pc = "apply" /\ tick.id \in Ids /\ Holds(tick.id) /\ tick \in TickType
      /\ orders \in [Ids -> Nat]
  BY DEF TickApply, TypeOK, Shape, Holds
<1>2. orders[tick.id] = 0
  BY <1>1 DEF Tokens, Token, Spent
<1>3. CASE tick.fate = "ours"
  <2>1. PICK r \in OrderResults :
          tick' = Finished(tick, r[1]) /\ orders' = [orders EXCEPT ![tick.id] = @ + r[2]]
    BY <1>3 DEF TickApply
  <2>2. /\ tick'.id = tick.id /\ tick'.pc \in {"settle", "compensate"}
        /\ r[2] \in {0, 1} /\ (r[2] = 1 => Spent(tick'))
    BY SMT, <1>1, <1>3, <2>1 DEF OrderResults, Finished, Abort, Tokens, TickType, Spent
  <2>3. /\ orders'[tick.id] = r[2]
        /\ \A i \in Ids : i # tick.id => orders'[i] = orders[i]
    BY SMT, <1>1, <1>2, <2>1, <2>2
  <2>4. UNCHANGED <<arm, key, late>>
    BY DEF TickApply
  <2>5. ASSUME NEW id \in Ids PROVE Token(id)'
    <3>1. Token(id)
      BY DEF Tokens
    <3>2. CASE id = tick.id
      BY SMT, <1>1, <2>2, <2>3, <2>4, <3>1, <3>2 DEF Token, Unset, NoRearm, Holds, Reads
    <3>3. CASE id # tick.id
      BY <2>2, <2>3, <2>4, <3>1, <3>3 DEF Token, Unset, NoRearm, Holds, Reads
    <3> QED
      BY <3>2, <3>3
  <2> QED
    BY <2>2, <2>5 DEF Tokens
<1>4. CASE tick.fate # "ours"
  <2>1. /\ tick'.id = tick.id /\ tick'.pc \in {"settle", "compensate"}
        /\ UNCHANGED <<arm, key, late, orders>>
    BY <1>1, <1>4 DEF TickApply, Finished, Abort, TickType
  <2> QED
    BY <1>1, <1>2, <2>1, TokenKept
<1> QED
  BY <1>3, <1>4

\* The re-arm moves the token from the tick to the key, or to the wire.
LEMMA RearmTokens ==
  ASSUME TypeOK, Shape, Tokens, TickRearm
  PROVE  Tokens'
<1> USE DEF opVars, tickVars, apiVars
<1> DEFINE w == Write("rearm", tick.id, NoClaim, tick.px, "none")
<1>1. /\ tick.pc = "rearm" /\ tick.id \in Ids /\ Holds(tick.id)
      /\ w.kind = "rearm" /\ w.id = tick.id /\ Token(tick.id) /\ tick \in TickType
  BY DEF TickRearm, Shape, Holds, Write, Tokens, TypeOK
<1>2. orders[tick.id] = 0 /\ NoRearm(tick.id) /\ key.id # tick.id /\ ~Unset(tick.id)
  BY <1>1 DEF Token, Spent, TypeOK
<1>3. /\ UNCHANGED <<arm, orders>>
      /\ \/ key' = Rearmed(w) /\ UNCHANGED late
         \/ late' = late \cup {w} /\ UNCHANGED key /\ tick' = IdleTick
      /\ tick' = IdleTick \/ tick' = [tick EXCEPT !.pc = "superseded"]
  BY DEF TickRearm
<1>4. /\ IdleTick.id \notin Ids /\ IdleTick.pc = "idle" /\ NoKey.id \notin Ids
      /\ tick'.pc \in {"idle", "superseded"} /\ (tick'.id = tick.id \/ tick'.id \notin Ids)
  BY SMT, <1>1, <1>3 DEF IdleTick, NoKey, NoId, Ids, TickType
<1> HIDE DEF w
<1>5. key'.id = key.id \/ (key'.id = tick.id /\ UNCHANGED late)
  BY SMT, <1>1, <1>3 DEF Rearmed
<1>6. ASSUME NEW id \in Ids PROVE Token(id)'
  <2>1. Token(id)
    BY DEF Tokens
  <2>2. CASE id = tick.id
    BY <1>1, <1>2, <1>3, <1>4, <1>5, <2>1, <2>2 DEF Token, Unset, NoRearm, Holds, Reads
  <2>3. CASE id # tick.id
    BY <1>1, <1>3, <1>4, <1>5, <2>1, <2>3 DEF Token, Unset, NoRearm, Holds, Reads
  <2> QED
    BY <2>2, <2>3
<1> QED
  BY <1>4, <1>6 DEF Tokens

\* The other steps of the tick keep the token, and a spent one cannot be re-armed.
LEMMA TickTokens ==
  ASSUME TypeOK, Shape, Tokens, TickRead \/ TickStep
  PROVE  Tokens'
<1> USE DEF opVars, tickVars, apiVars
<1>1. /\ tick \in TickType
      /\ tick.pc # "idle" => tick.id \in Ids /\ Token(tick.id)
  BY DEF TypeOK, Shape, Tokens
<1>2. CASE ClaimReplies
  <2>1. /\ UNCHANGED <<arm, key, orders, late>>
        /\ tick'.id = tick.id /\ tick'.pc = tick.pc
        /\ tick'.fate = tick.fate /\ tick'.attempted = tick.attempted
    BY <1>1, <1>2 DEF ClaimReplies, TickType
  <2> QED
    BY <2>1, TokenQuiet DEF Unset
<1>3. CASE ClaimTimesOut
  <2>1. /\ UNCHANGED <<arm, key, orders>>
        /\ \A w \in late' : w \in late \/ w.kind # "rearm"
        /\ tick'.id = tick.id /\ tick'.pc = tick.pc
        /\ tick'.fate = tick.fate /\ tick'.attempted = tick.attempted
    BY SMT, <1>1, <1>3 DEF ClaimTimesOut, Abandoned, ClaimWrite, Write, TickType
  <2> QED
    BY <2>1, TokenQuiet DEF Unset
<1>4. CASE TickBody
  <2>1. /\ UNCHANGED <<arm, key, orders, late>>
        /\ tick'.id = tick.id /\ tick'.pc \in {"gate", "compensate"} /\ Holds(tick.id)
    BY <1>1, <1>4 DEF TickBody, Abort, TickType, Holds
  <2>2. orders[tick.id] = 0
    BY <1>1, <1>4, <2>1 DEF TickBody, Token, Spent
  <2> QED
    BY <2>1, <2>2, TokenKept
<1>5. CASE TickGate
  <2>1. /\ UNCHANGED <<arm, key, orders>>
        /\ tick'.id = tick.id /\ tick'.pc \in {"apply", "compensate"} /\ Holds(tick.id)
        /\ tick'.pc = "apply" /\ tick'.fate = "ours" => tick'.attempted
    BY <1>1, <1>5 DEF TickGate, Abort, Placement, TickType, Holds
  <2>2. \A w \in late' : w \in late \/ w.kind # "rearm"
    BY SMT, <1>5 DEF TickGate, LandsNow, Abandoned, Write
  <2>3. orders[tick.id] = 0
    BY <1>1, <1>5, <2>1 DEF TickGate, Token, Spent
  <2> QED
    BY <2>1, <2>2, <2>3, TokenKept
<1>6. CASE TickCompensate
  <2>1. CASE tick' = IdleTick
    BY <1>6, <2>1, TokenQuiet DEF TickCompensate, Unset
  <2>2. CASE tick' # IdleTick
    <3>1. /\ UNCHANGED <<arm, key, orders, late>>
          /\ tick.pc = "compensate" /\ tick' = [tick EXCEPT !.pc = "settle"]
      BY <1>6, <2>2 DEF TickCompensate
    <3>2. orders[tick.id] # 0 => Spent(tick')
      BY <1>1, <3>1 DEF Token, Holds, Spent, TickType
    <3> QED
      BY <1>1, <3>1, <3>2, TokenKept DEF TickType, Holds
  <2> QED
    BY <2>1, <2>2
<1>7. CASE TickRelease
  <2>1. /\ UNCHANGED <<arm, key, orders>>
        /\ tick'.id = tick.id /\ tick'.pc = "rearm" /\ Holds(tick.id)
    BY <1>1, <1>7 DEF TickRelease, TickType, Holds
  <2>2. \A w \in late' : w \in late \/ w.kind # "rearm"
    BY SMT, <1>7 DEF TickRelease, LandsNow, Abandoned, Write
  <2>3. orders[tick.id] = 0
    <3>1. ~Spent(tick)
      BY <1>7 DEF TickRelease, CanRearm, Undispatched, Spent
    <3> QED
      BY <1>1, <1>7, <2>1, <3>1 DEF TickRelease, Token
  <2> QED
    BY <2>1, <2>2, <2>3, TokenKept
<1>8. CASE TickSettle \/ TickCrash
  <2>1. /\ UNCHANGED <<arm, key, orders>>
        /\ tick' = IdleTick
        /\ \A w \in late' : w \in late \/ w.kind # "rearm"
    BY SMT, <1>8 DEF TickSettle, TickCrash, LandsNow, Abandoned, SettleWrite, ClaimWrite, Write
  <2> QED
    BY <2>1, TokenQuiet DEF Unset
<1> QED
  BY <1>2, <1>3, <1>4, <1>5, <1>6, <1>7, <1>8, ConsumeTokens, ApplyTokens, RearmTokens DEF TickStep

\* A re-arm that lands late moves its token to the key, or loses it to a newer one.
LEMMA LateTokens ==
  ASSUME TypeOK, Shape, Tokens, NEW w \in late, LateLands(w)
  PROVE  Tokens'
<1> USE DEF opVars, tickVars, apiVars
<1>1. UNCHANGED <<arm, orders, tick>> /\ late' = late \ {w} /\ key' = Rearmed(w)
  BY DEF LateLands
<1>2. CASE key' = key
  BY <1>1, <1>2, TokenQuiet DEF Unset
<1>3. CASE key' # key
  <2>1. w.kind = "rearm" /\ key'.id = w.id
    BY <1>1, <1>3 DEF Rearmed
  <2>2. ASSUME NEW id \in Ids PROVE Token(id)'
    <3>1. /\ Token(id) /\ (Unset(id)' <=> Unset(id)) /\ (Holds(id)' <=> Holds(id))
          /\ (Reads(id)' <=> Reads(id)) /\ (Spent(tick)' <=> Spent(tick))
      BY <1>1 DEF Tokens, Unset, Holds, Reads, Spent
    <3>2. NoRearm(id) => NoRearm(id)'
      BY <1>1 DEF NoRearm
    <3>3. CASE w.id = id
      <4>1. ~NoRearm(id) /\ NoRearm(id)'
        BY <1>1, <2>1, <3>1, <3>3 DEF NoRearm, Token
      <4> QED
        BY <1>1, <2>1, <3>1, <3>3, <4>1 DEF Token
    <3>4. CASE w.id # id
      BY <1>1, <2>1, <3>1, <3>2, <3>4 DEF Token
    <3> QED
      BY <3>3, <3>4
  <2> QED
    BY <1>1, <2>2 DEF Tokens
<1> QED
  BY <1>2, <1>3

\* There is no token before the first request.
LEMMA InitTokens == Init => Tokens
BY SMT DEF Init, Tokens, Token, Unset, NoRearm, Holds, Reads, IdleTick, NoKey, NoId, Ids

\* No step duplicates a token.
LEMMA NextTokens ==
  ASSUME TypeOK, Shape, Tokens, [Next]_vars
  PROVE  Tokens'
<1>1. CASE UNCHANGED vars
  BY <1>1, TokenQuiet DEF vars, apiVars, opVars, tickVars, Unset
<1> QED
  BY <1>1, ApiTokens, TickTokens, LateTokens DEF Next

\* One press of the button puts at most one order on the exchange, for every number
\* of retries, crashes, timeouts, cancels and concurrent presses.
THEOREM OverrideAtMostOneOrder == Spec => []AtMostOneOrder
<1>1. Init => TypeOK /\ Shape /\ Tokens
  BY InitTypes, InitTokens
<1>2. TypeOK /\ Shape /\ Tokens /\ [Next]_vars => TypeOK' /\ Shape' /\ Tokens'
  BY NextTypes, NextTokens
<1>3. TypeOK /\ Shape /\ Tokens => AtMostOneOrder
  BY DEF Tokens, Token, AtMostOneOrder
<1> QED
  BY <1>1, <1>2, <1>3, PTL DEF Spec

-----------------------------------------------------------------------------
(* The claim is held through the dispatch.  The stamp of the running tick is *)
(* younger than Stale, so the reaper passes over it, and every release still *)
(* on the wire is fenced on the stamp of an earlier tick.                    *)

Guarded(row, n) ==
  /\ row.status \notin {"absent", "deleted"}
  /\ Active(row) => row.claim = n

Guard ==
  /\ tick.claim = "won" /\ tick.pc \in {"body", "gate", "apply"} => Guarded(rows[tick.id], ticks)
  /\ tick.pc = "apply" => tick.claim = "won"
  /\ \A w \in late : w.kind = "release" =>
       /\ w.stamp <= ticks
       /\ tick.pc \in {"read", "body", "gate", "apply", "compensate", "settle"} => w.stamp < ticks
  /\ tick.pc # "idle" => tick.startedAt <= now /\ now <= tick.startedAt + Slack
  /\ tick.pc \notin {"idle", "read"} => tick.startedAt <= stampAt[ticks]

\* Rows guarded under claim n stay guarded.
Keeps(R, R2, n) == \A i \in Ids : Guarded(R[i], n) => Guarded(R2[i], n)

\* No statement of override-actions.ts takes claim n off an active row or deletes
\* it, but a release fenced on n itself and a reaper that finds n stale.
LEMMA StatementKeeps ==
  ASSUME NEW R \in Table, NEW n \in Ticks, NEW S, NEW outcome \in Outcomes, NEW id \in Ids,
         NEW stamp \in Ticks, NEW stale
  PROVE  /\ Keeps(R, Consume(R, S, outcome), n)
         /\ Keeps(R, ClaimAction(R, id, stamp), n)
         /\ stamp # n => Keeps(R, ReleaseClaim(R, id, stamp), n)
         /\ Keeps(R, MarkPickedUp(R, id), n)
         /\ n \notin stale => Keeps(R, ReapStaleProcessing(R, stale), n)
         /\ Keeps(R, DeletePendingForSymbol(R), n)
<1> USE DEF Keeps, Guarded, Active, Table, RowType
<1>1. Keeps(R, Consume(R, S, outcome), n)
  BY DEF Consume, Outcomes
<1>2. Keeps(R, ClaimAction(R, id, stamp), n)
  BY SMT DEF ClaimAction, Claimable, NoClaim, Ticks
<1>3. stamp # n => Keeps(R, ReleaseClaim(R, id, stamp), n)
  BY DEF ReleaseClaim
<1>4. Keeps(R, MarkPickedUp(R, id), n)
  BY DEF MarkPickedUp
<1>5. n \notin stale => Keeps(R, ReapStaleProcessing(R, stale), n)
  BY DEF ReapStaleProcessing
<1>6. Keeps(R, DeletePendingForSymbol(R), n)
  BY SMT DEF DeletePendingForSymbol, Claimable, NoClaim, Ticks
<1> QED
  BY <1>1, <1>2, <1>3, <1>4, <1>5, <1>6

\* A write of the tick path keeps the claim, unless it releases that very claim.
LEMMA LandedKeeps ==
  ASSUME TypeOK, NEW w \in WriteType, Formed(w), NEW n \in Ticks,
         w.kind = "release" => w.stamp # n
  PROVE  Keeps(rows, Landed(w), n)
<1>1. /\ rows \in Table /\ w.id \in Ids
      /\ w.kind \in {"claim", "release"} => w.stamp \in Ticks
      /\ w.kind = "settle" => w.outcome \in Outcomes
  BY DEF TypeOK, Table, WriteType, Formed
<1>2. "expired" \in Outcomes
  BY DEF Outcomes
<1>3. CASE w.kind = "claim"
  BY <1>1, <1>2, <1>3, StatementKeeps DEF Landed
<1>4. CASE w.kind = "release"
  BY <1>1, <1>2, <1>4, StatementKeeps DEF Landed
<1>5. CASE w.kind = "pickup"
  BY <1>1, <1>2, <1>5, StatementKeeps DEF Landed
<1>6. CASE w.kind = "settle"
  <2>1. Landed(w) = Consume(rows, {w.id}, w.outcome)
    BY <1>6 DEF Landed, Settle
  <2> QED
    BY <1>1, <1>6, <2>1, StatementKeeps
<1>7. CASE w.kind = "rearm"
  BY <1>7 DEF Landed, Keeps
<1> QED
  BY <1>3, <1>4, <1>5, <1>6, <1>7 DEF WriteType

\* What a step that is not the tick's own must keep for the guard to hold.
LEMMA GuardFrame ==
  ASSUME TypeOK, Shape, Guard, UNCHANGED tickVars,
         late' \subseteq late,
         ticks \in Ticks /\ tick.pc # "idle" => Keeps(rows, rows', ticks),
         now' = now \/ (now' = now + 1 /\ (tick.pc # "idle" => now < tick.startedAt + Slack))
  PROVE  Guard'
<1>1. tick.pc # "idle" => tick.id \in Ids /\ ticks \in Ticks /\ tick.startedAt \in Int
  BY SMT DEF Shape, TypeOK, TickType, Times
<1>2. now \in Int /\ Slack \in Int
  BY SMT, BoundsAssumption DEF TypeOK, Times
<1>3. UNCHANGED <<tick, ticks, stampAt>>
  BY DEF tickVars
<1>4. tick.pc # "idle" => tick.startedAt <= now' /\ now' <= tick.startedAt + Slack
  BY SMT, <1>1, <1>2 DEF Guard
<1>5. tick.claim = "won" /\ tick.pc \in {"body", "gate", "apply"} => Guarded(rows'[tick.id], ticks)
  BY <1>1 DEF Guard, Keeps
<1>6. \A w \in late' : w \in late
  OBVIOUS
<1> QED
  BY <1>3, <1>4, <1>5, <1>6 DEF Guard

\* Arming requests, cancels, wipes, late writes, the cron and the clock leave the
\* claim of a running tick alone.
LEMMA OtherGuard ==
  ASSUME TypeOK, Shape, Guard,
         \/ \E id \in Ids : Arm(id)
         \/ Delete
         \/ \E w \in late : LateLands(w)
         \/ Cron
         \/ Clock
  PROVE  Guard'
<1> USE DEF apiVars, opVars
<1>1. rows \in Table /\ "rejected" \in Outcomes /\ "superseded" \in Outcomes
      /\ "unknown" \in Outcomes /\ "expired" \in Outcomes
  BY DEF TypeOK, Table, Outcomes
<1>2. \A n \in Ticks : UNCHANGED rows => Keeps(rows, rows', n)
  BY DEF Keeps
<1>3. \A S : \A n \in Ticks, outcome \in Outcomes : Keeps(rows, Consume(rows, S, outcome), n)
  BY SMT, <1>1 DEF Keeps, Guarded, Consume, Active, Table, RowType, Outcomes
<1>4. ASSUME NEW id \in Ids, Arm(id) PROVE Guard'
  <2>1. UNCHANGED <<now, late, tickVars>>
    BY <1>4 DEF Arm, ArmBegin, ArmCommit, ArmSet, ArmEnqueue, RollbackGet, RollbackDel, ArmSettle,
                ArmDies
  <2>2. ASSUME NEW n \in Ticks PROVE Keeps(rows, rows', n)
    <3>1. CASE ArmBegin(id)
      BY <1>1, <3>1 DEF ArmBegin, Keeps, Guarded, Active, Table, RowType
    <3>2. CASE ArmCommit(id)
      <4> DEFINE T == Consume(rows, {i \in seen[id] : Claimable(rows[i]) /\ ~rows[i].pickedUp},
                              "superseded")
      <4>1. rows' = [T EXCEPT ![id].status = "pending"] /\ rows[id].status = "absent"
        BY <3>2 DEF ArmCommit, Record, Shape
      <4>2. Keeps(rows, T, n) /\ T \in Table
        BY <1>1, <1>3, ConsumeStep
      <4> HIDE DEF T
      <4> QED
        BY <4>1, <4>2 DEF Keeps, Guarded, Table
    <3>3. CASE ArmSettle(id)
      BY <1>1, <1>2, <1>3, <3>3 DEF ArmSettle, Settle
    <3> QED
      BY <1>2, <1>4, <3>1, <3>2, <3>3
         DEF Arm, ArmSet, ArmEnqueue, RollbackGet, RollbackDel, ArmDies
  <2> QED
    BY SMTT(30), <2>1, <2>2, GuardFrame
<1>5. CASE Delete
  <2>1. UNCHANGED <<now, late, tickVars>> /\ (UNCHANGED rows \/ rows' = DeletePendingForSymbol(rows))
    BY <1>5 DEF Delete, CancelFind, CancelDelete, CancelReadBack, CancelEvict, WipeRedis, WipeRows, Unbind
  <2>2. \A n \in Ticks : Keeps(rows, DeletePendingForSymbol(rows), n)
    BY SMT, <1>1 DEF Keeps, Guarded, Active, Table, RowType, DeletePendingForSymbol, Claimable, NoClaim,
                Ticks
  <2> QED
    BY <1>2, <2>1, <2>2, GuardFrame
<1>6. ASSUME NEW w \in late, LateLands(w) PROVE Guard'
  <2>1. UNCHANGED <<now, tickVars>> /\ late' \subseteq late /\ rows' = Landed(w)
    BY <1>6 DEF LateLands
  <2>2. w \in WriteType /\ Formed(w)
    BY DEF TypeOK, Shape
  <2>3. CASE w.kind = "release" /\ w.stamp = ticks
    <3>1. tick.pc \notin {"read", "body", "gate", "apply", "compensate", "settle"}
      BY SMT, <2>3 DEF Guard, TypeOK
    <3> QED
      BY <2>1, <3>1 DEF Guard, tickVars
  <2>4. CASE ~(w.kind = "release" /\ w.stamp = ticks)
    BY <2>1, <2>2, <2>4, LandedKeeps, GuardFrame
  <2> QED
    BY <2>3, <2>4
<1>7. CASE SweepPicked \/ SweepUnpicked
  <2>1. \A n \in Ticks : Keeps(rows, rows', n)
    BY <1>1, <1>3, <1>7 DEF SweepPicked, SweepUnpicked, ReapPicked, ReapUnpicked
  <2> QED
    BY <1>7, <2>1, GuardFrame DEF SweepPicked, SweepUnpicked
<1>8. CASE ReapStale
  <2>1. UNCHANGED <<now, late, tickVars>> /\ rows' = ReapStaleProcessing(rows, StaleStamps)
    BY <1>8 DEF ReapStale
  <2>2. CASE tick.pc \in {"idle", "read"}
    BY <2>1, <2>2, GuardFrame DEF Guard, tickVars
  <2>3. CASE tick.pc \notin {"idle", "read"}
    <3>1. ticks \in Ticks /\ stampAt[ticks] \in Int /\ tick.startedAt \in Int /\ now \in Int
      <4>1. ticks \in Ticks
        BY <2>3 DEF Shape
      <4>2. tick.startedAt \in Int /\ now \in Int
        BY SMT DEF TypeOK, TickType, Times
      <4> QED
        BY SMT, <4>1, <4>2 DEF TypeOK, Times
    <3>2. now <= stampAt[ticks] + Stale
      BY SMT, <2>3, <3>1, BoundsAssumption, WindowAssumption DEF Guard
    <3>3. ticks \notin StaleStamps
      BY SMT, <3>1, <3>2, BoundsAssumption DEF StaleStamps
    <3>4. Keeps(rows, rows', ticks)
      BY <1>1, <2>1, <3>3 DEF Keeps, Guarded, Active, Table, RowType, ReapStaleProcessing
    <3> QED
      BY <2>1, <3>4, GuardFrame
  <2> QED
    BY <2>2, <2>3
<1>9. CASE Clock
  BY <1>2, <1>9, GuardFrame DEF Clock
<1> QED
  BY <1>4, <1>5, <1>6, <1>7, <1>8, <1>9 DEF Cron

\* Every step of a tick keeps the guard: the claim is won under the tick's own stamp,
\* the gate lets nothing else through, and the tick's own release comes after it.
LEMMA TickGuard ==
  ASSUME TypeOK, Shape, Guard, TickRead \/ TickStep
  PROVE  Guard'
<1> USE DEF opVars, tickVars, apiVars
<1>1. /\ tick \in TickType /\ rows \in Table /\ ticks \in Nat /\ now \in Nat /\ Slack \in Nat
      /\ tick.pc # "idle" => tick.id \in Ids /\ ticks \in Ticks
      /\ stampAt \in [Ticks -> Times]
      /\ \A w \in late : w \in WriteType /\ Formed(w)
  BY SMT, BoundsAssumption DEF TypeOK, Shape, Table, Times
<1>2. IdleTick.pc = "idle" /\ IdleTick.claim = "none"
  BY DEF IdleTick
<1>3. CASE TickRead
  <2>1. /\ ticks' = ticks + 1 /\ UNCHANGED <<now, late>>
        /\ tick'.pc = "read" /\ tick'.claim = "none" /\ tick'.startedAt = now
    BY <1>3 DEF TickRead, IdleTick
  <2>2. \A w \in late : w.kind = "release" => w.stamp <= ticks /\ w.stamp \in Nat
    BY SMT, <1>1 DEF Guard, Formed, Ticks
  <2> QED
    BY SMT, <1>1, <2>1, <2>2 DEF Guard
<1>4. CASE TickConsume
  <2>1. CASE tick' = IdleTick
    BY <1>2, <1>4, <2>1 DEF TickConsume, Guard
  <2>2. CASE tick' # IdleTick
    <3>1. /\ UNCHANGED <<now, late, ticks>> /\ tick.pc = "read"
          /\ tick'.pc = "body" /\ tick'.claim = "sent" /\ tick'.startedAt = tick.startedAt
          /\ stampAt'[ticks] = now
      BY <1>1, <1>4, <2>2 DEF TickConsume, TickType
    <3> QED
      BY <3>1 DEF Guard
  <2> QED
    BY <2>1, <2>2
<1>5. CASE ClaimReplies
  <2>1. /\ tick.pc # "idle" /\ tick.pc # "apply"
    BY SMT, <1>5 DEF ClaimReplies, Shape, IdleTick, Guard
  <2>2. /\ UNCHANGED <<now, late, ticks, stampAt>>
        /\ tick'.pc = tick.pc /\ tick'.id = tick.id /\ tick'.startedAt = tick.startedAt
    BY <1>1, <1>5 DEF ClaimReplies, TickType
  <2>3. tick'.claim = "won" => Guarded(rows'[tick.id], ticks)
    <3>1. ASSUME tick'.claim = "won"
          PROVE  Claimable(rows[tick.id]) /\ rows' = ClaimAction(rows, tick.id, ticks)
      BY <1>1, <1>5, <3>1 DEF ClaimReplies, Landed, ClaimWrite, Write, TickType
    <3> QED
      BY <1>1, <2>1, <3>1 DEF ClaimAction, Claimable, Guarded, Active, Table, RowType
  <2> QED
    BY <2>1, <2>2, <2>3 DEF Guard
<1>6. CASE ClaimTimesOut
  <2>1. /\ UNCHANGED <<now, ticks, stampAt>> /\ tick'.claim = "unresolved" /\ tick.pc # "apply"
        /\ tick'.pc = tick.pc /\ tick'.id = tick.id /\ tick'.startedAt = tick.startedAt
        /\ \A w \in late' : w.kind = "release" => w \in late
    BY SMT, <1>1, <1>6 DEF ClaimTimesOut, Abandoned, ClaimWrite, Write, TickType
  <2> QED
    BY <2>1 DEF Guard
<1>7. CASE TickBody
  <2>1. /\ UNCHANGED <<now, ticks, stampAt, late, rows>> /\ tick.pc = "body"
        /\ tick'.pc \in {"gate", "compensate"}
        /\ tick'.claim = tick.claim /\ tick'.id = tick.id /\ tick'.startedAt = tick.startedAt
    BY <1>1, <1>7 DEF TickBody, Abort, TickType
  <2> QED
    BY <2>1 DEF Guard
<1>8. CASE TickGate
  <2> DEFINE w == Write("pickup", tick.id, NoClaim, 0, "none")
  <2>1. /\ UNCHANGED <<now, ticks, stampAt>> /\ tick.pc = "gate"
        /\ tick'.pc \in {"apply", "compensate"} /\ (tick'.pc = "apply" => tick.claim = "won")
        /\ tick'.claim = tick.claim /\ tick'.id = tick.id /\ tick'.startedAt = tick.startedAt
    BY <1>1, <1>8 DEF TickGate, Abort, TickType
  <2>2. w \in WriteType /\ Formed(w) /\ w.kind = "pickup"
    BY <2>1, WriteTypes DEF Write
  <2>3. \/ UNCHANGED <<rows, late>>
        \/ rows' = Landed(w) /\ UNCHANGED late
        \/ late' = late \cup {w} /\ UNCHANGED rows
    BY <1>8 DEF TickGate, LandsNow, Abandoned
  <2> HIDE DEF w
  <2>4. Keeps(rows, rows', ticks)
    <3>1. Keeps(rows, Landed(w), ticks)
      BY <1>1, <2>1, <2>2, LandedKeeps
    <3> QED
      BY <2>3, <3>1 DEF Keeps
  <2>5. \A v \in late' : v.kind = "release" => v \in late
    BY <2>2, <2>3
  <2> QED
    BY <1>1, <2>1, <2>4, <2>5 DEF Guard, Keeps
<1>9. CASE TickApply
  <2>1. /\ UNCHANGED <<now, ticks, stampAt, late, rows>> /\ tick.pc = "apply"
        /\ tick'.pc \in {"settle", "compensate"} /\ tick'.startedAt = tick.startedAt
    BY <1>1, <1>9 DEF TickApply, Finished, Abort, TickType
  <2> QED
    BY <2>1 DEF Guard
<1>10. CASE TickCompensate
  <2>1. /\ UNCHANGED <<now, ticks, stampAt, late, rows>> /\ tick.pc = "compensate"
        /\ tick' = IdleTick \/ (tick'.pc = "settle" /\ tick'.startedAt = tick.startedAt)
    BY <1>1, <1>10 DEF TickCompensate, TickType
  <2> QED
    BY <1>2, <2>1 DEF Guard
<1>11. CASE TickRelease
  <2>1. /\ UNCHANGED <<now, ticks, stampAt>> /\ tick.pc = "settle"
        /\ tick'.pc = "rearm" /\ tick'.startedAt = tick.startedAt
        /\ \A w \in late' : w \in late \/ w.stamp = ticks
    <3>1. \A w \in late' : w \in late \/ w.stamp = ticks
      BY SMT, <1>11 DEF TickRelease, LandsNow, Abandoned, Write
    <3>2. UNCHANGED <<now, ticks, stampAt>> /\ tick.pc = "settle"
          /\ tick' = [tick EXCEPT !.pc = "rearm", !.px = tick.deadline - now]
      BY <1>11 DEF TickRelease
    <3> QED
      BY <1>1, <3>1, <3>2 DEF TickType
  <2>2. \A w \in late' : w.kind = "release" => w.stamp <= ticks
    BY SMT, <1>1, <2>1 DEF Guard
  <2> QED
    BY <2>1, <2>2 DEF Guard
<1>12. CASE TickRearm
  <2>1. /\ UNCHANGED <<now, ticks, stampAt>> /\ tick.pc = "rearm"
        /\ tick' = IdleTick \/ (tick'.pc = "superseded" /\ tick'.startedAt = tick.startedAt)
        /\ \A w \in late' : w.kind = "release" => w \in late
    BY SMT, <1>1, <1>12 DEF TickRearm, Write, TickType
  <2> QED
    BY <1>2, <2>1 DEF Guard
<1>13. CASE TickSettle \/ TickCrash
  <2>1. UNCHANGED <<now, ticks, stampAt>> /\ tick' = IdleTick
    BY <1>13 DEF TickSettle, TickCrash
  <2>2. ASSUME NEW w, w.kind # "release", late' = late \/ late' = late \cup {w}
        PROVE  \A v \in late' : v.kind = "release" => v \in late
    BY <2>2
  <2>3. \A outcome : SettleWrite(tick, outcome).kind # "release"
    BY DEF SettleWrite, Write
  <2>4. ClaimWrite.kind # "release"
    BY DEF ClaimWrite, Write
  <2>5. CASE TickSettle
    <3>1. PICK outcome : LandsNow(SettleWrite(tick, outcome)) \/ Abandoned(SettleWrite(tick, outcome))
      BY <2>5, Zenon DEF TickSettle
    <3>2. \A w \in late' : w.kind = "release" => w \in late
      BY <2>3, <3>1 DEF LandsNow, Abandoned
    <3> QED
      BY <1>2, <2>1, <2>2, <3>2 DEF Guard
  <2>6. CASE TickCrash
    <3>1. late' = late \/ late' = late \cup {ClaimWrite}
      BY <2>6 DEF TickCrash
    <3>2. \A w \in late' : w.kind = "release" => w \in late
      BY <2>4, <3>1
    <3> QED
      BY <1>2, <2>1, <2>2, <3>2 DEF Guard
  <2> QED
    BY <1>13, <2>5, <2>6
<1> QED
  BY <1>3, <1>4, <1>5, <1>6, <1>7, <1>8, <1>9, <1>10, <1>11, <1>12, <1>13 DEF TickStep

\* There is no dispatch before the first tick.
LEMMA InitGuard == Init => Guard
<1>1. Init => tick.pc = "idle" /\ late = {}
  BY SMT DEF Init, IdleTick
<1> QED
  BY <1>1 DEF Guard

\* No step takes the guard off a dispatch.
LEMMA NextGuard ==
  ASSUME TypeOK, Shape, Guard, [Next]_vars
  PROVE  Guard'
<1>1. CASE UNCHANGED vars
  BY <1>1 DEF vars, tickVars, Guard
<1> QED
  BY <1>1, OtherGuard, TickGuard DEF Next

\* While the executor has the order, the row is there and, until something settles
\* it, under this tick's claim, whatever releases, claims and reapers run late.
THEOREM OverrideClaimHeld == Spec => []ClaimHeldThroughDispatch
<1>1. Init => TypeOK /\ Shape /\ Guard
  BY InitTypes, InitGuard
<1>2. TypeOK /\ Shape /\ Guard /\ [Next]_vars => TypeOK' /\ Shape' /\ Guard'
  BY NextTypes, NextGuard
<1>3. TypeOK /\ Shape /\ Guard => ClaimHeldThroughDispatch
  BY DEF Guard, Guarded, ClaimHeldThroughDispatch
<1> QED
  BY <1>1, <1>2, <1>3, PTL DEF Spec
-----------------------------------------------------------------------------
(* What a step may do to each variable.                                      *)

\* A statement that settles nothing: markers move, statuses and dates stay.
Calm(R, R2) ==
  \A i \in Ids : /\ R2[i].status = R[i].status /\ R2[i].createdAt = R[i].createdAt
                 /\ R[i].pickedUp => R2[i].pickedUp

\* A statement that gives some active rows of S the status s, and does nothing else.
Ended(R, R2, S, s) ==
  \A i \in Ids : /\ R2[i].createdAt = R[i].createdAt /\ R2[i].pickedUp = R[i].pickedUp
                 /\ R2[i].status # R[i].status => i \in S /\ Active(R[i]) /\ R2[i].status = s

\* The claim, its release, the breadcrumb and the claim reaper settle nothing.
LEMMA CalmStatements ==
  ASSUME NEW R \in Table, NEW id \in Ids, NEW stamp \in Ticks, NEW stale
  PROVE  /\ Calm(R, ClaimAction(R, id, stamp))
         /\ Calm(R, ReleaseClaim(R, id, stamp))
         /\ Calm(R, MarkPickedUp(R, id))
         /\ Calm(R, ReapStaleProcessing(R, stale))
<1> USE DEF Calm, Table, RowType
<1>1. Calm(R, ClaimAction(R, id, stamp))
  BY DEF ClaimAction
<1>2. Calm(R, ReleaseClaim(R, id, stamp))
  BY DEF ReleaseClaim
<1>3. Calm(R, MarkPickedUp(R, id))
  BY DEF MarkPickedUp
<1>4. Calm(R, ReapStaleProcessing(R, stale))
  BY DEF ReapStaleProcessing
<1> QED
  BY <1>1, <1>2, <1>3, <1>4

\* consume() ends active rows of its argument; deletePendingForSymbol() the
\* unclaimed ones.
LEMMA EndingStatements ==
  ASSUME NEW R \in Table, NEW S, NEW outcome
  PROVE  /\ Ended(R, Consume(R, S, outcome), S, outcome)
         /\ Ended(R, DeletePendingForSymbol(R), {i \in Ids : Claimable(R[i])}, "deleted")
<1> USE DEF Ended, Table, RowType, Active
<1>1. Ended(R, Consume(R, S, outcome), S, outcome)
  BY DEF Consume
<1>2. Ended(R, DeletePendingForSymbol(R), {i \in Ids : Claimable(R[i])}, "deleted")
  BY DEF DeletePendingForSymbol, Claimable
<1> QED
  BY <1>1, <1>2

\* Of the writes of the tick path, only the settle ends a row, and only its own.
LEMMA LandedRows ==
  ASSUME TypeOK, NEW w \in WriteType, Formed(w)
  PROVE  /\ w.kind # "settle" => Calm(rows, Landed(w))
         /\ w.kind = "settle" => Ended(rows, Landed(w), {w.id}, w.outcome)
<1>1. /\ rows \in Table /\ w.id \in Ids
      /\ w.kind \in {"claim", "release"} => w.stamp \in Ticks
  BY DEF TypeOK, Table, WriteType, Formed
<1>2. CASE w.kind = "claim"
  BY <1>1, <1>2, CalmStatements DEF Landed
<1>3. CASE w.kind = "release"
  BY <1>1, <1>3, CalmStatements DEF Landed
<1>4. CASE w.kind = "pickup"
  BY <1>1, <1>4 DEF Landed, MarkPickedUp, Calm, Table, RowType
<1>5. CASE w.kind = "settle"
  BY <1>1, <1>5, EndingStatements DEF Landed, Settle
<1>6. CASE w.kind = "rearm"
  BY <1>6 DEF Landed, Calm
<1> QED
  BY <1>2, <1>3, <1>4, <1>5, <1>6 DEF WriteType

\* An arming request moves only while it is open; failed and over are final.
LEMMA NextArm ==
  ASSUME TypeOK, Shape, [Next]_vars, NEW i \in Ids
  PROVE  arm'[i] = arm[i] \/ Arming(i) \/ ArmBegin(i)
<1> USE DEF opVars, tickVars, apiVars
<1>1. arm \in [Ids -> ArmStates]
  BY DEF TypeOK
<1>2. ASSUME NEW id \in Ids, Arm(id) PROVE arm'[i] = arm[i] \/ Arming(i) \/ ArmBegin(i)
  <2>1. Arming(id) \/ ArmBegin(id)
    BY <1>2 DEF Arm, ArmCommit, ArmSet, ArmEnqueue, RollbackGet, RollbackDel, ArmSettle, ArmDies, Arming
  <2>2. i # id => arm'[i] = arm[i]
    <3>1. PICK to : arm' = [arm EXCEPT ![id] = to]
      BY <1>2 DEF Arm, ArmBegin, ArmCommit, ArmSet, ArmEnqueue, RollbackGet, RollbackDel, ArmSettle, ArmDies
    <3> QED
      BY <1>1, <3>1
  <2> QED
    BY <2>1, <2>2
<1>3. CASE Delete \/ Cron \/ Clock \/ TickRead
  BY <1>3 DEF Delete, CancelFind, CancelDelete, CancelReadBack, CancelEvict, WipeRedis, WipeRows, Unbind,
              Cron, SweepPicked, SweepUnpicked, ReapStale, Clock, TickRead
<1>4. CASE TickStep
  BY <1>4 DEF TickStep, TickConsume, ClaimReplies, ClaimTimesOut, TickBody, TickGate, TickApply,
              TickCompensate, TickRelease, TickRearm, TickSettle, TickCrash
<1>5. CASE (\E w \in late : LateLands(w)) \/ UNCHANGED vars
  BY <1>5 DEF LateLands, vars
<1> QED
  BY <1>2, <1>3, <1>4, <1>5 DEF Next

\* A row is dated when its transaction begins, and never again.
LEMMA NextDates ==
  ASSUME TypeOK, Shape, [Next]_vars, NEW i \in Ids
  PROVE  ArmBegin(i) \/ rows'[i].createdAt = rows[i].createdAt
<1> USE DEF opVars, tickVars, apiVars
<1> DEFINE Kept == rows'[i].createdAt = rows[i].createdAt
<1>1. rows \in Table
  BY DEF TypeOK, Table
<1>2. ASSUME Calm(rows, rows') PROVE Kept
  BY <1>2 DEF Calm
<1>3. ASSUME NEW S, NEW s, Ended(rows, rows', S, s) PROVE Kept
  BY <1>3 DEF Ended
<1>4. ASSUME NEW id \in Ids, Arm(id), i # id \/ ~ArmBegin(id) PROVE Kept
  <2>1. CASE ArmBegin(id)
    BY <1>1, <1>4, <2>1 DEF ArmBegin, Table, RowType
  <2>2. CASE ArmCommit(id)
    <3> DEFINE S == {j \in seen[id] : Claimable(rows[j]) /\ ~rows[j].pickedUp}
               T == Consume(rows, S, "superseded")
    <3>1. Ended(rows, T, S, "superseded") /\ T \in Table
      BY <1>1, EndingStatements, ConsumeStep DEF Outcomes
    <3>2. rows' = [T EXCEPT ![id].status = "pending"]
      BY <2>2 DEF ArmCommit, Record
    <3> HIDE DEF S, T
    <3> QED
      BY <3>1, <3>2 DEF Ended, Table, RowType
  <2>3. CASE ArmSettle(id)
    BY <1>1, <1>3, <2>3, EndingStatements DEF ArmSettle, Settle
  <2> QED
    BY <1>4, <2>1, <2>2, <2>3 DEF Arm, ArmSet, ArmEnqueue, RollbackGet, RollbackDel, ArmDies
<1>5. CASE Delete
  BY <1>1, <1>3, <1>5, EndingStatements
     DEF Delete, CancelFind, CancelDelete, CancelReadBack, CancelEvict, WipeRedis, WipeRows, Unbind
<1>6. ASSUME NEW w \in WriteType, Formed(w), rows' = Landed(w) \/ UNCHANGED rows PROVE Kept
  BY <1>2, <1>3, <1>6, LandedRows
<1>7. CASE TickRead \/ TickStep
  <2>0. IdleTick.claim # "sent"
    BY DEF IdleTick
  <2>1. ClaimReplies \/ TickGate \/ TickRelease \/ TickSettle => tick.pc # "idle"
    BY <2>0 DEF ClaimReplies, TickGate, TickRelease, TickSettle, Shape
  <2>2. CASE ClaimReplies
    BY <1>6, <2>1, <2>2, WriteTypes DEF ClaimReplies
  <2>3. CASE TickGate
    BY <1>6, <2>1, <2>3, WriteTypes DEF TickGate, LandsNow, Abandoned
  <2>4. CASE TickRelease
    BY <1>6, <2>1, <2>4, WriteTypes DEF TickRelease, LandsNow, Abandoned
  <2>5. CASE TickSettle
    <3> DEFINE outcome == IF tick.pc = "superseded" THEN "superseded" ELSE OutcomeOf(tick)
    <3>1. outcome \in Outcomes
      BY DEF OutcomeOf, Outcomes
    <3>2. rows' = Landed(SettleWrite(tick, outcome)) \/ UNCHANGED rows
      BY <2>5 DEF TickSettle, LandsNow, Abandoned
    <3> HIDE DEF outcome
    <3> QED
      BY <1>6, <2>1, <2>5, <3>1, <3>2, WriteTypes
  <2> QED
    BY <1>7, <2>2, <2>3, <2>4, <2>5
       DEF TickRead, TickStep, TickConsume, ClaimTimesOut, Abandoned, TickBody, TickApply, TickCompensate,
           TickRearm, TickCrash
<1>8. ASSUME NEW w \in late, LateLands(w) PROVE Kept
  BY <1>6, <1>8 DEF LateLands, TypeOK, Shape
<1>9. CASE SweepPicked \/ SweepUnpicked
  BY <1>1, <1>3, <1>9, EndingStatements DEF SweepPicked, SweepUnpicked, ReapPicked, ReapUnpicked
<1>10. CASE ReapStale
  BY <1>1, <1>10 DEF ReapStale, ReapStaleProcessing, Table, RowType
<1>11. CASE Clock \/ UNCHANGED vars
  BY <1>11 DEF Clock, vars
<1> QED
  BY <1>4, <1>5, <1>7, <1>8, <1>9, <1>10, <1>11 DEF Next, Cron

\* The key appears by an arming SET, by a tick's re-arm or by a late one; it stays
\* only while it has time left.
LEMMA NextKey ==
  ASSUME TypeOK, Shape, [Next]_vars
  PROVE  \/ key' = NoKey
         \/ key' = key /\ (UNCHANGED now \/ (now' = now + 1 /\ ~(key.expires <= now + 1)))
         \/ \E id \in Ids : ArmSet(id) /\ key' = [id |-> id, expires |-> now + TTL]
         \/ TickRearm /\ key' = [id |-> tick.id, expires |-> now + tick.px]
         \/ \E w \in late : /\ LateLands(w) /\ w.kind = "rearm"
                            /\ key' = [id |-> w.id, expires |-> now + w.px]
<1> USE DEF opVars, tickVars, apiVars
<1>1. ASSUME NEW id \in Ids, Arm(id)
      PROVE  \/ key' = NoKey \/ (key' = key /\ UNCHANGED now)
             \/ ArmSet(id) /\ key' = [id |-> id, expires |-> now + TTL]
  BY <1>1 DEF Arm, ArmBegin, ArmCommit, ArmSet, ArmEnqueue, RollbackGet, RollbackDel, ArmSettle, ArmDies
<1>2. CASE Delete \/ Cron \/ TickRead
  <2>1. key' = NoKey \/ (key' = key /\ UNCHANGED now)
    BY <1>2 DEF Delete, CancelFind, CancelDelete, CancelReadBack, CancelEvict, WipeRedis, WipeRows, Unbind,
                Cron, SweepPicked, SweepUnpicked, ReapStale, TickRead
  <2> QED
    BY <2>1
<1>3. CASE Clock
  BY <1>3 DEF Clock
<1>4. CASE TickStep /\ ~TickRearm
  <2>1. key' = NoKey \/ (key' = key /\ UNCHANGED now)
    BY <1>4 DEF TickStep, TickConsume, ClaimReplies, ClaimTimesOut, TickBody, TickGate, TickApply,
                TickCompensate, TickRelease, TickSettle, TickCrash
  <2> QED
    BY <2>1
<1>5. CASE TickRearm
  <2> DEFINE w == Write("rearm", tick.id, NoClaim, tick.px, "none")
  <2>1. UNCHANGED now /\ (key' = key \/ key' = Rearmed(w))
    BY <1>5 DEF TickRearm
  <2>2. w.id = tick.id /\ w.px = tick.px
    BY DEF Write
  <2> HIDE DEF w
  <2> QED
    BY <1>5, <2>1, <2>2 DEF Rearmed
<1>6. ASSUME NEW w \in late, LateLands(w)
      PROVE  \/ key' = key /\ UNCHANGED now
             \/ w.kind = "rearm" /\ key' = [id |-> w.id, expires |-> now + w.px]
  BY <1>6 DEF LateLands, Rearmed
<1>7. CASE UNCHANGED vars
  BY <1>7 DEF vars
<1> QED
  BY <1>1, <1>2, <1>3, <1>4, <1>5, <1>6, <1>7 DEF Next

\* A tick begins by reading the key; until it is over it keeps its override, its
\* start and its deadline, and it re-arms only what it has released.
LEMMA NextTick ==
  ASSUME TypeOK, Shape, [Next]_vars
  PROVE  \/ tick' = IdleTick
         \/ TickRead
         \/ /\ tick.pc # "idle" /\ UNCHANGED ticks /\ tick'.id = tick.id
            /\ tick'.startedAt = tick.startedAt /\ tick'.deadline = tick.deadline
            /\ tick'.pc = "read" => tick.pc = "read"
            /\ tick'.pc = "rearm" => \/ tick.pc = "rearm" /\ tick'.px = tick.px
                                     \/ TickRelease /\ tick'.px = tick.deadline - now
            /\ tick'.pc = "superseded" => tick.pc = "superseded" \/ TickRearm
            /\ tick.pc = "superseded" => tick'.pc = "superseded"
<1> USE DEF opVars, tickVars, apiVars
<1> DEFINE Goes ==
      /\ tick.pc # "idle" /\ UNCHANGED ticks /\ tick'.id = tick.id
      /\ tick'.startedAt = tick.startedAt /\ tick'.deadline = tick.deadline
      /\ tick'.pc = "read" => tick.pc = "read"
      /\ tick'.pc = "rearm" => \/ tick.pc = "rearm" /\ tick'.px = tick.px
                               \/ TickRelease /\ tick'.px = tick.deadline - now
      /\ tick'.pc = "superseded" => tick.pc = "superseded" \/ TickRearm
      /\ tick.pc = "superseded" => tick'.pc = "superseded"
<1>1. tick \in TickType
  BY DEF TypeOK
<1>2. ASSUME UNCHANGED <<tick, ticks>> PROVE tick' = IdleTick \/ Goes
  BY <1>2 DEF Shape
<1>3. CASE (\E id \in Ids : Arm(id)) \/ Delete \/ (\E w \in late : LateLands(w)) \/ UNCHANGED vars
  BY <1>2, <1>3 DEF Arm, ArmBegin, ArmCommit, ArmSet, ArmEnqueue, RollbackGet, RollbackDel, ArmSettle,
     ArmDies, Delete, CancelFind, CancelDelete, CancelReadBack, CancelEvict, WipeRedis, WipeRows, Unbind,
     LateLands, vars
<1>4. CASE Cron \/ Clock
  BY <1>2, <1>4 DEF Cron, SweepPicked, SweepUnpicked, ReapStale, Clock
<1>5. CASE TickConsume
  BY <1>1, <1>5 DEF TickConsume, TickType
<1>6. CASE ClaimReplies
  <2>0. IdleTick.claim # "sent"
    BY DEF IdleTick
  <2>1. tick.pc # "idle"
    BY <1>6, <2>0 DEF ClaimReplies, Shape
  <2> QED
    BY <1>1, <1>6, <2>1 DEF ClaimReplies, TickType
<1>7. CASE ClaimTimesOut
  BY <1>1, <1>7 DEF ClaimTimesOut, TickType
<1>8. CASE TickBody
  BY <1>1, <1>8 DEF TickBody, Abort, TickType
<1>9. CASE TickGate
  BY <1>1, <1>9 DEF TickGate, Abort, TickType
<1>10. CASE TickApply
  BY <1>1, <1>10 DEF TickApply, Finished, Abort, TickType
<1>11. CASE TickCompensate
  BY <1>1, <1>11 DEF TickCompensate, TickType
<1>12. CASE TickRelease
  BY <1>1, <1>12 DEF TickRelease, TickType
<1>13. CASE TickRearm
  BY <1>1, <1>13 DEF TickRearm, TickType
<1>14. CASE TickSettle \/ TickCrash
  BY <1>14 DEF TickSettle, TickCrash
<1> QED
  BY <1>3, <1>4, <1>5, <1>6, <1>7, <1>8, <1>9, <1>10, <1>11, <1>12, <1>13, <1>14 DEF Next, TickStep

\* The wire gains a re-arm or a settle only from the tick's own step, and the clock
\* leaves nothing on it past its deadline.
LEMMA NextLate ==
  ASSUME TypeOK, Shape, [Next]_vars, NEW w \in late'
  PROVE  \/ w \in late /\ (UNCHANGED now \/ (now' = now + 1 /\ now < w.sentAt + Slack))
         \/ w.kind \notin {"rearm", "settle"}
         \/ TickRearm /\ w = Write("rearm", tick.id, NoClaim, tick.px, "none")
         \/ \E outcome : TickSettle /\ w = SettleWrite(tick, outcome)
                         /\ outcome = IF tick.pc = "superseded" THEN "superseded" ELSE OutcomeOf(tick)
<1> USE DEF opVars, tickVars, apiVars
<1> DEFINE Stays == w \in late /\ UNCHANGED now
<1>1. CASE (\E id \in Ids : Arm(id)) \/ Delete \/ (\E v \in late : LateLands(v)) \/ UNCHANGED vars
  <2>1. Stays
    BY <1>1 DEF Arm, ArmBegin, ArmCommit, ArmSet, ArmEnqueue, RollbackGet, RollbackDel, ArmSettle,
       ArmDies, Delete, CancelFind, CancelDelete, CancelReadBack, CancelEvict, WipeRedis, WipeRows, Unbind,
       LateLands, vars
  <2> QED
    BY <2>1
<1>2. CASE Cron \/ TickRead \/ TickConsume \/ ClaimReplies \/ TickBody \/ TickApply \/ TickCompensate
  <2>1. Stays
    BY <1>2 DEF Cron, SweepPicked, SweepUnpicked, ReapStale, TickRead, TickConsume, ClaimReplies, TickBody,
                TickApply, TickCompensate
  <2> QED
    BY <2>1
<1>3. CASE Clock
  BY <1>3 DEF Clock
<1>4. CASE ClaimTimesOut \/ TickCrash
  <2>1. UNCHANGED now /\ (late' = late \/ late' = late \cup {ClaimWrite})
    BY <1>4 DEF ClaimTimesOut, Abandoned, TickCrash
  <2>2. ClaimWrite.kind \notin {"rearm", "settle"}
    BY DEF ClaimWrite, Write
  <2> QED
    BY <2>1, <2>2
<1>5. CASE TickGate
  <2> DEFINE v == Write("pickup", tick.id, NoClaim, 0, "none")
  <2>1. UNCHANGED now /\ (late' = late \/ late' = late \cup {v})
    BY <1>5 DEF TickGate, LandsNow, Abandoned
  <2>2. v.kind \notin {"rearm", "settle"}
    BY DEF Write
  <2> HIDE DEF v
  <2> QED
    BY <2>1, <2>2
<1>6. CASE TickRelease
  <2> DEFINE v == Write("release", tick.id, ticks, 0, "none")
  <2>1. UNCHANGED now /\ (late' = late \/ late' = late \cup {v})
    BY <1>6 DEF TickRelease, LandsNow, Abandoned
  <2>2. v.kind \notin {"rearm", "settle"}
    BY DEF Write
  <2> HIDE DEF v
  <2> QED
    BY <2>1, <2>2
<1>7. CASE TickRearm
  BY <1>7 DEF TickRearm
<1>8. CASE TickSettle
  BY <1>8 DEF TickSettle, LandsNow, Abandoned
<1> QED
  BY <1>1, <1>2, <1>3, <1>4, <1>5, <1>6, <1>7, <1>8 DEF Next, TickStep

-----------------------------------------------------------------------------
(* What the row says.  The sweep of stranded rows must not settle a row that *)
(* a tick is still dispatching.  The bound on time that excludes it follows  *)
(* the token: the request SETs the key within Slack of created_at, a tick    *)
(* lasts at most Slack, and a re-arm restores what was left when the claim   *)
(* came off, at most two Slacks later.                                       *)

\* How long after created_at the n-th tick can leave the key alive.
Reach(n) == TTL + Slack + 2 * n * Slack

\* One more tick, two more Slacks.
LEMMA ReachStep ==
  ASSUME NEW n \in Nat
  PROVE  Reach(n) \in Nat /\ Reach(n + 1) = Reach(n) + 2 * Slack
<1>1. TTL \in Nat /\ Slack \in Nat /\ 2 * n * Slack \in Nat
  BY SMT, BoundsAssumption
<1>2. 2 * (n + 1) * Slack = 2 * n * Slack + 2 * Slack
  BY SMT, BoundsAssumption
<1> QED
  BY SMT, <1>1, <1>2 DEF Reach

\* The key's life plus all the pushes end within the sweep's window.
LEMMA ReachWithin ==
  ASSUME NEW n \in 0..MaxTicks
  PROVE  Reach(n) <= Window + Slack
<1>1. 2 * n * Slack <= 2 * MaxTicks * Slack
  <2>1. n \in Nat /\ MaxTicks - n \in Nat /\ Slack \in Nat /\ MaxTicks \in Nat
    BY SMT, BoundsAssumption
  <2>2. (MaxTicks - n) * Slack \in Nat
    BY SMT, <2>1
  <2>3. 2 * MaxTicks * Slack = 2 * n * Slack + 2 * ((MaxTicks - n) * Slack)
    BY SMT, <2>1
  <2> QED
    BY SMT, <2>1, <2>2, <2>3
<1>2. TTL \in Nat /\ Slack \in Nat /\ Window \in Nat /\ 2 * n * Slack \in Nat /\ 2 * MaxTicks * Slack \in Nat
  BY SMT, BoundsAssumption
<1> QED
  BY SMT, <1>1, <1>2, WindowAssumption DEF Reach

By(id, t) == t <= rows[id].createdAt + Reach(ticks)

\* Wherever the token of id is, the time it has left is bounded from created_at.
Due(id) ==
  /\ Arming(id) => now <= rows[id].createdAt + Slack
  /\ key.id = id => now < key.expires /\ By(id, key.expires)
  /\ tick.id = id =>
       /\ By(id, tick.startedAt + 1 + 2 * Slack) /\ By(id, tick.deadline + 2 * Slack)
       /\ tick.pc = "rearm" => 0 < tick.px /\ By(id, tick.startedAt + tick.px + 2 * Slack)
  /\ \A w \in late : w.kind = "rearm" /\ w.id = id =>
       0 < w.px /\ now <= w.sentAt + Slack /\ By(id, w.sentAt + w.px + Slack)

Timely ==
  /\ sweepAt <= now
  /\ \A id \in Ids : Due(id)

\* The clock is the only one to move time, by one; a tick is counted when it reads.
LEMMA NextNow ==
  ASSUME TypeOK, Shape, [Next]_vars
  PROVE  /\ UNCHANGED now \/ Clock
         /\ UNCHANGED ticks \/ TickRead
         /\ UNCHANGED sweepAt \/ sweepAt' = -1 \/ sweepAt' = now
<1> USE DEF opVars, tickVars, apiVars
<1>1. CASE (\E id \in Ids : Arm(id)) \/ Delete \/ (\E w \in late : LateLands(w)) \/ UNCHANGED vars
  BY <1>1 DEF Arm, ArmBegin, ArmCommit, ArmSet, ArmEnqueue, RollbackGet, RollbackDel, ArmSettle, ArmDies,
     Delete, CancelFind, CancelDelete, CancelReadBack, CancelEvict, WipeRedis, WipeRows, Unbind, LateLands,
     vars
<1>2. CASE TickRead \/ TickStep
  BY <1>2 DEF TickRead, TickStep, TickConsume, ClaimReplies, ClaimTimesOut, TickBody, TickGate, TickApply,
              TickCompensate, TickRelease, TickRearm, TickSettle, TickCrash
<1>3. CASE Cron \/ Clock
  BY <1>3 DEF Cron, SweepPicked, SweepUnpicked, ReapStale, Clock
<1> QED
  BY <1>1, <1>2, <1>3 DEF Next

\* The bounds travel with the token.
LEMMA NextDue ==
  ASSUME TypeOK, Shape, Tokens, Guard, TypeOK', Shape', Tokens', [Next]_vars,
         NEW id \in Ids, Due(id)
  PROVE  Due(id)'
<1> USE DEF opVars, tickVars, apiVars
<1>1. /\ now \in Nat /\ now' \in Nat /\ Slack \in Nat /\ TTL \in Nat \ {0}
      /\ rows[id].createdAt \in Nat /\ rows'[id].createdAt \in Nat
      /\ tick.startedAt \in Nat /\ tick.deadline \in Nat /\ tick.px \in Nat
  BY SMT, BoundsAssumption DEF TypeOK, Times, RowType, TickType
<1>2. ticks \in Nat /\ Reach(ticks) \in Nat /\ Reach(ticks + 1) = Reach(ticks) + 2 * Slack
  BY SMT, ReachStep, BoundsAssumption DEF TypeOK
<1>3. ticks' = ticks \/ (TickRead /\ ticks' = ticks + 1)
  BY NextNow DEF TickRead
<1>4. Reach(ticks') \in Nat /\ Reach(ticks) <= Reach(ticks')
  BY SMT, <1>1, <1>2, <1>3
<1>5. NoKey.id # id /\ IdleTick.id # id
  BY SMT DEF NoKey, IdleTick, NoId, Ids
<1>6. CASE ArmBegin(id)
  <2>1. Unset(id)' /\ rows'[id].createdAt = now /\ now' = now
    <3>1. arm \in [Ids -> ArmStates] /\ rows \in [Ids -> RowType]
      BY DEF TypeOK
    <3> QED
      BY <1>6, <3>1 DEF ArmBegin, Unset, RowType
  <2>2. key'.id # id /\ tick'.id # id /\ NoRearm(id)'
    BY <2>1 DEF Tokens, Token
  <2>3. now' <= rows'[id].createdAt + Slack
    BY SMT, <1>1, <2>1
  <2> QED
    BY <2>2, <2>3 DEF Due, NoRearm
<1>7. CASE ~ArmBegin(id)
  <2>1. rows'[id].createdAt = rows[id].createdAt
    BY <1>7, NextDates
  <2>2. ASSUME Arming(id)' PROVE now' <= rows'[id].createdAt + Slack
    <3>1. Arming(id)
      BY <1>7, <2>2, NextArm DEF Arming
    <3>2. now' = now \/ (now' = now + 1 /\ now < rows[id].createdAt + Slack)
      BY <3>1, NextNow DEF Clock
    <3>3. now <= rows[id].createdAt + Slack
      BY <3>1 DEF Due
    <3> QED
      BY SMT, <1>1, <2>1, <3>2, <3>3
  <2>3. ASSUME key'.id = id PROVE now' < key'.expires /\ By(id, key.expires)'
    <3>1. CASE key' = key /\ (UNCHANGED now \/ (now' = now + 1 /\ ~(key.expires <= now + 1)))
      <4>1. key.expires \in Nat
        BY <2>3, <1>5, <3>1 DEF TypeOK
      <4>2. now < key.expires /\ key.expires <= rows[id].createdAt + Reach(ticks)
        BY <2>3, <3>1 DEF Due, By
      <4> QED
        BY SMT, <1>1, <1>2, <1>4, <2>1, <3>1, <4>1, <4>2 DEF By
    <3>2. ASSUME NEW i \in Ids, ArmSet(i), key' = [id |-> i, expires |-> now + TTL]
          PROVE  now' < key'.expires /\ By(id, key.expires)'
      <4>1. i = id /\ key'.expires = now + TTL
        BY <2>3, <3>2
      <4>2. Arming(id) /\ now' = now
        BY <3>2, <4>1 DEF ArmSet, Arming
      <4>3. now <= rows[id].createdAt + Slack
        BY <4>2 DEF Due
      <4>4. TTL + Slack <= Reach(ticks)
        BY SMT, <1>1, <1>2, BoundsAssumption DEF Reach
      <4> QED
        BY SMT, <1>1, <1>2, <1>4, <2>1, <4>1, <4>2, <4>3, <4>4 DEF By
    <3>3. ASSUME TickRearm, key' = [id |-> tick.id, expires |-> now + tick.px]
          PROVE  now' < key'.expires /\ By(id, key.expires)'
      <4>1. tick.id = id /\ key'.expires = now + tick.px /\ tick.pc = "rearm" /\ now' = now
        BY <2>3, <3>3 DEF TickRearm
      <4>2. 0 < tick.px /\ tick.startedAt + tick.px + 2 * Slack <= rows[id].createdAt + Reach(ticks)
        BY <4>1 DEF Due, By
      <4>3. now <= tick.startedAt + Slack
        BY <4>1 DEF Guard
      <4> QED
        BY SMT, <1>1, <1>2, <1>4, <2>1, <4>1, <4>2, <4>3 DEF By
    <3>4. ASSUME NEW w \in late, LateLands(w), w.kind = "rearm",
                 key' = [id |-> w.id, expires |-> now + w.px]
          PROVE  now' < key'.expires /\ By(id, key.expires)'
      <4>1. w.id = id /\ key'.expires = now + w.px /\ now' = now
        <5>1. key'.id = w.id /\ key'.expires = now + w.px
          BY SMT, <3>4
        <5> QED
          BY <2>3, <3>4, <5>1 DEF LateLands
      <4>2. w.px \in Nat /\ w.sentAt \in Nat
        <5>1. w \in WriteType
          BY DEF TypeOK
        <5> QED
          BY SMT, <5>1 DEF WriteType, Times
      <4>3. 0 < w.px /\ now <= w.sentAt + Slack
            /\ w.sentAt + w.px + Slack <= rows[id].createdAt + Reach(ticks)
        BY <3>4, <4>1 DEF Due, By
      <4> QED
        BY SMT, <1>1, <1>2, <1>4, <2>1, <4>1, <4>2, <4>3 DEF By
    <3> QED
      BY <1>5, <2>3, <3>1, <3>2, <3>3, <3>4, NextKey
  <2>4. ASSUME tick'.id = id
        PROVE  /\ By(id, tick.startedAt + 1 + 2 * Slack)' /\ By(id, tick.deadline + 2 * Slack)'
               /\ tick'.pc = "rearm" => 0 < tick'.px /\ By(id, tick.startedAt + tick.px + 2 * Slack)'
    <3>1. CASE TickRead
      <4>1. PICK d \in {key.expires, 0} :
              tick' = [IdleTick EXCEPT !.pc = "read", !.id = key.id, !.startedAt = now, !.deadline = d]
        BY <3>1 DEF TickRead
      <4>2. tick'.startedAt = now /\ tick'.deadline = d /\ tick'.pc = "read" /\ key.id = id
            /\ ticks' = ticks + 1
        BY <2>4, <3>1, <4>1 DEF IdleTick, TickRead
      <4>3. key.expires \in Nat
        BY <1>5, <4>2 DEF TypeOK
      <4>4. now < key.expires /\ key.expires <= rows[id].createdAt + Reach(ticks)
        BY <4>2 DEF Due, By
      <4>5. d = key.expires \/ d = 0
        OBVIOUS
      <4>6. By(id, tick.startedAt + 1 + 2 * Slack)' /\ By(id, tick.deadline + 2 * Slack)'
        BY SMT, <1>1, <1>2, <2>1, <4>2, <4>3, <4>4, <4>5 DEF By
      <4> QED
        BY <4>2, <4>6
    <3>2. CASE tick.pc # "idle" /\ ~TickRead
      <4>1. /\ ticks' = ticks /\ tick'.id = tick.id
            /\ tick'.startedAt = tick.startedAt /\ tick'.deadline = tick.deadline
            /\ tick'.pc = "rearm" => \/ tick.pc = "rearm" /\ tick'.px = tick.px
                                     \/ TickRelease /\ tick'.px = tick.deadline - now
        BY <1>5, <2>4, <3>2, NextTick
      <4>2. /\ tick.startedAt + 1 + 2 * Slack <= rows[id].createdAt + Reach(ticks)
            /\ tick.deadline + 2 * Slack <= rows[id].createdAt + Reach(ticks)
        BY <2>4, <4>1 DEF Due, By
      <4>3. By(id, tick.startedAt + 1 + 2 * Slack)' /\ By(id, tick.deadline + 2 * Slack)'
        BY <2>1, <4>1, <4>2 DEF By
      <4>4. ASSUME tick.pc = "rearm", tick'.px = tick.px
            PROVE  0 < tick'.px /\ By(id, tick.startedAt + tick.px + 2 * Slack)'
        BY <2>1, <2>4, <4>1, <4>4 DEF Due, By
      <4>5. ASSUME TickRelease, tick'.px = tick.deadline - now
            PROVE  0 < tick'.px /\ By(id, tick.startedAt + tick.px + 2 * Slack)'
        <5>1. tick.deadline > now /\ tick.startedAt <= now
          BY <3>2, <4>5 DEF TickRelease, CanRearm, Guard
        <5> QED
          BY SMT, <1>1, <1>2, <2>1, <4>1, <4>2, <4>5, <5>1 DEF By
      <4> QED
        BY <4>1, <4>3, <4>4, <4>5
    <3> QED
      BY <1>5, <2>4, <3>1, <3>2, NextTick
  <2>5. ASSUME NEW w \in late', w.kind = "rearm", w.id = id
        PROVE  0 < w.px /\ now' <= w.sentAt + Slack /\ By(id, w.sentAt + w.px + Slack)'
    <3>0. w.px \in Nat /\ w.sentAt \in Nat
      BY SMT DEF TypeOK, WriteType, Times
    <3>1. CASE w \in late /\ (UNCHANGED now \/ (now' = now + 1 /\ now < w.sentAt + Slack))
      <4>1. 0 < w.px /\ now <= w.sentAt + Slack
            /\ w.sentAt + w.px + Slack <= rows[id].createdAt + Reach(ticks)
        BY <2>5, <3>1 DEF Due, By
      <4> QED
        BY SMT, <1>1, <1>2, <1>4, <2>1, <3>0, <3>1, <4>1 DEF By
    <3>2. CASE TickRearm /\ w = Write("rearm", tick.id, NoClaim, tick.px, "none")
      <4>1. w.id = tick.id /\ w.px = tick.px /\ w.sentAt = now
        BY <3>2 DEF Write
      <4>2. now' = now /\ tick.pc = "rearm"
        BY <3>2 DEF TickRearm
      <4>3. 0 < tick.px /\ tick.startedAt + tick.px + 2 * Slack <= rows[id].createdAt + Reach(ticks)
        BY <2>5, <4>1, <4>2 DEF Due, By
      <4>4. now <= tick.startedAt + Slack
        BY <4>2 DEF Guard
      <4> QED
        BY SMT, <1>1, <1>2, <1>4, <2>1, <4>1, <4>2, <4>3, <4>4 DEF By
    <3>3. \A outcome : SettleWrite(tick, outcome).kind # "rearm"
      BY DEF SettleWrite, Write
    <3> QED
      BY <2>5, <3>1, <3>2, <3>3, NextLate
  <2> QED
    BY <2>2, <2>3, <2>4, <2>5 DEF Due
<1> QED
  BY <1>6, <1>7

\* A token that is used up: id is in no key, with no tick and on no wire, and its
\* request has done its SET.
Dead(id) == ~Unset(id) /\ key.id # id /\ NoRearm(id) /\ ~Holds(id) /\ ~Reads(id)

\* A request that has done its SET has done it for good.
LEMMA NextUnset ==
  ASSUME TypeOK, Shape, [Next]_vars, NEW i \in Ids, Unset(i)'
  PROVE  Unset(i)
<1> USE DEF opVars, tickVars, apiVars
<1>1. arm \in [Ids -> ArmStates]
  BY DEF TypeOK
<1>2. ASSUME NEW id \in Ids, Arm(id) PROVE Unset(i)
  <2>1. CASE ArmBegin(id) \/ ArmCommit(id)
    BY <1>1, <2>1 DEF ArmBegin, ArmCommit, Unset
  <2>2. CASE ArmSet(id) \/ ArmEnqueue(id)
    BY <1>1, <2>2 DEF ArmSet, ArmEnqueue, Unset
  <2>3. CASE RollbackGet(id) \/ RollbackDel(id)
    BY <1>1, <2>3 DEF RollbackGet, RollbackDel, Unset
  <2>4. CASE ArmSettle(id) \/ ArmDies(id)
    BY <1>1, <2>4 DEF ArmSettle, ArmDies, Unset
  <2> QED
    BY <1>2, <2>1, <2>2, <2>3, <2>4 DEF Arm
<1>3. CASE ~\E id \in Ids : Arm(id)
  <2>1. UNCHANGED arm
    BY <1>3 DEF Next, Delete, CancelFind, CancelDelete, CancelReadBack, CancelEvict, WipeRedis, WipeRows,
       Unbind, Cron, SweepPicked, SweepUnpicked, ReapStale, Clock, TickRead, TickStep, TickConsume,
       ClaimReplies, ClaimTimesOut, TickBody, TickGate, TickApply, TickCompensate, TickRelease, TickRearm,
       TickSettle, TickCrash, LateLands, vars
  <2> QED
    BY <2>1 DEF Unset
<1> QED
  BY <1>2, <1>3

\* Only the executor puts an order on the exchange, and only for the tick's override.
LEMMA NextOrders ==
  ASSUME TypeOK, Shape, [Next]_vars, NEW i \in Ids
  PROVE  \/ orders'[i] = orders[i]
         \/ TickApply /\ tick.id = i /\ tick.fate = "ours"
<1> USE DEF opVars, tickVars, apiVars
<1>1. CASE TickApply
  <2>1. orders \in [Ids -> Nat]
    BY DEF TypeOK
  <2>2. CASE tick.fate = "ours" /\ tick.id # i
    <3>1. PICK n : orders' = [orders EXCEPT ![tick.id] = n]
      BY <1>1, <2>2 DEF TickApply
    <3> QED
      BY <2>1, <2>2, <3>1
  <2> QED
    BY <1>1, <2>2 DEF TickApply
<1>2. CASE ~TickApply
  <2>1. UNCHANGED orders
    BY <1>2 DEF Next, Arm, ArmBegin, ArmCommit, ArmSet, ArmEnqueue, RollbackGet, RollbackDel, ArmSettle,
       ArmDies, Delete, CancelFind, CancelDelete, CancelReadBack, CancelEvict, WipeRedis, WipeRows,
       Unbind, Cron, SweepPicked, SweepUnpicked, ReapStale, Clock, TickRead, TickStep, TickConsume,
       ClaimReplies, ClaimTimesOut, TickBody, TickGate, TickCompensate, TickRelease, TickRearm,
       TickSettle, TickCrash, LateLands, vars
  <2> QED
    BY <2>1
<1> QED
  BY <1>1, <1>2

\* A token that is used up stays so, and its order count is final.
LEMMA NextDead ==
  ASSUME TypeOK, Shape, Tokens, [Next]_vars, NEW id \in Ids, Dead(id)
  PROVE  Dead(id)' /\ orders'[id] = orders[id]
<1>0. NoKey.id # id /\ IdleTick.id # id
  BY SMT DEF NoKey, IdleTick, NoId, Ids
<1>1. ~Unset(id)'
  BY NextUnset DEF Dead
<1>2. key'.id # id
  <2>1. ASSUME NEW i \in Ids, ArmSet(i), key' = [id |-> i, expires |-> now + TTL] PROVE key'.id # id
    <3>1. key'.id = i /\ Unset(i)
      BY <2>1 DEF ArmSet, Unset
    <3> QED
      BY <3>1 DEF Dead
  <2>2. ASSUME TickRearm, key' = [id |-> tick.id, expires |-> now + tick.px] PROVE key'.id # id
    <3>1. key'.id = tick.id /\ Holds(tick.id)
      BY <2>2 DEF TickRearm, Holds
    <3> QED
      BY <3>1 DEF Dead
  <2>3. ASSUME NEW w \in late, w.kind = "rearm", key' = [id |-> w.id, expires |-> now + w.px]
        PROVE  key'.id # id
    <3>1. key'.id = w.id
      BY SMT, <2>3
    <3> QED
      BY <2>3, <3>1 DEF Dead, NoRearm
  <2>4. key.id # id
    BY DEF Dead
  <2> QED
    BY <1>0, <2>1, <2>2, <2>3, <2>4, NextKey
<1>3. NoRearm(id)'
  <2>1. ASSUME NEW w \in late', w.kind = "rearm" PROVE w.id # id
    <3>1. CASE w \in late
      BY <2>1, <3>1 DEF Dead, NoRearm
    <3>2. CASE TickRearm /\ w = Write("rearm", tick.id, NoClaim, tick.px, "none")
      <4>1. w.id = tick.id /\ Holds(tick.id)
        BY <3>2 DEF Write, TickRearm, Holds
      <4> QED
        BY <4>1 DEF Dead
    <3>3. \A outcome : SettleWrite(tick, outcome).kind # "rearm"
      BY DEF SettleWrite, Write
    <3> QED
      BY <2>1, <3>1, <3>2, <3>3, NextLate
  <2> QED
    BY <2>1 DEF NoRearm
<1>4. ~Holds(id)' /\ ~Reads(id)'
  <2>1. ASSUME TickRead PROVE tick'.id # id
    <3>1. tick'.id = key.id
      BY <2>1 DEF TickRead, IdleTick
    <3> QED
      BY <3>1 DEF Dead
  <2>2. ASSUME tick'.id = id, ~TickRead PROVE tick'.pc = "superseded"
    <3>1. /\ tick.pc # "idle" /\ tick.id = id
          /\ tick.pc = "superseded" => tick'.pc = "superseded"
      BY <1>0, <2>2, NextTick
    <3>2. tick.pc = "superseded"
      BY <3>1 DEF Dead, Holds, Reads, TypeOK, TickType
    <3> QED
      BY <3>1, <3>2
  <2> QED
    BY <2>1, <2>2 DEF Holds, Reads
<1>5. orders'[id] = orders[id]
  <2>1. ASSUME TickApply, tick.id = id PROVE FALSE
    BY <2>1 DEF TickApply, Dead, Holds
  <2> QED
    BY <2>1, NextOrders
<1> QED
  BY <1>1, <1>2, <1>3, <1>4, <1>5 DEF Dead

\* The terminal write of the tick in progress.
Verdict == IF tick.pc = "superseded" THEN "superseded" ELSE OutcomeOf(tick)

\* All that can happen to the status of a row in one step, and by whose hand.
RowStep(i) ==
  \/ rows'[i].status = rows[i].status /\ (rows[i].pickedUp => rows'[i].pickedUp)
  \/ ArmCommit(i) /\ rows'[i].status = "pending"
  \/ Claimable(rows[i]) /\ rows'[i].status = "deleted"
  \/ Claimable(rows[i]) /\ ~rows[i].pickedUp /\ rows'[i].status = "superseded"
  \/ Active(rows[i]) /\ ArmSettle(i) /\ rows'[i].status = "rejected"
  \/ Active(rows[i]) /\ TickSettle /\ tick.id = i /\ rows'[i].status = Verdict
  \/ \E w \in late : Active(rows[i]) /\ w.kind = "settle" /\ w.id = i /\ rows'[i].status = w.outcome
  \/ /\ Active(rows[i]) /\ (rows[i].createdAt + Window < now \/ rows[i].createdAt + Window < sweepAt)
     /\ rows'[i].status = "unknown" \/ (rows'[i].status = "expired" /\ ~rows[i].pickedUp)

\* A row is inserted once, deleted or superseded while nobody claims it, settled by
\* its request, its tick or that tick's late write, and swept when it is stranded.
LEMMA NextRow ==
  ASSUME TypeOK, Shape, [Next]_vars, NEW i \in Ids
  PROVE  RowStep(i)
<1> USE DEF opVars, tickVars, apiVars
<1>1. rows \in Table
  BY DEF TypeOK, Table
<1>2. ASSUME Calm(rows, rows') PROVE RowStep(i)
  BY <1>2 DEF Calm, RowStep
<1>3. ASSUME UNCHANGED rows PROVE RowStep(i)
  BY <1>3 DEF RowStep
<1>5. ASSUME NEW id \in Ids, Arm(id) PROVE RowStep(i)
  <2>1. CASE ArmBegin(id)
    <3>1. rows'[i].status = rows[i].status /\ rows'[i].pickedUp = rows[i].pickedUp
      BY <1>1, <2>1 DEF ArmBegin, Table, RowType
    <3> QED
      BY <3>1 DEF RowStep
  <2>2. CASE ArmCommit(id)
    <3> DEFINE S == {j \in seen[id] : Claimable(rows[j]) /\ ~rows[j].pickedUp}
               T == Consume(rows, S, "superseded")
    <3>1. Ended(rows, T, S, "superseded") /\ T \in Table
      BY <1>1, EndingStatements, ConsumeStep DEF Outcomes
    <3>2. rows' = [T EXCEPT ![id].status = "pending"]
      BY <2>2 DEF ArmCommit, Record
    <3>3. i \in S => Claimable(rows[i]) /\ ~rows[i].pickedUp
      OBVIOUS
    <3> HIDE DEF S, T
    <3>4. CASE i = id
      <4>1. rows'[i].status = "pending"
        BY <3>1, <3>2, <3>4 DEF Table, RowType
      <4> QED
        BY <2>2, <3>4, <4>1 DEF RowStep
    <3>5. CASE i # id
      <4>1. rows'[i] = T[i]
        BY <3>1, <3>2, <3>5 DEF Table
      <4>2. \/ T[i].status = rows[i].status /\ (rows[i].pickedUp => T[i].pickedUp)
            \/ i \in S /\ T[i].status = "superseded"
        BY <3>1 DEF Ended
      <4> QED
        BY <3>3, <4>1, <4>2 DEF RowStep
    <3> QED
      BY <3>4, <3>5
  <2>3. CASE ArmSettle(id)
    <3>1. UNCHANGED rows \/ Ended(rows, rows', {id}, "rejected")
      BY <1>1, <2>3, EndingStatements DEF ArmSettle, Settle
    <3>2. CASE Ended(rows, rows', {id}, "rejected")
      <4>1. \/ rows'[i].status = rows[i].status /\ (rows[i].pickedUp => rows'[i].pickedUp)
            \/ i = id /\ Active(rows[i]) /\ rows'[i].status = "rejected"
        BY <3>2 DEF Ended
      <4> QED
        BY <2>3, <4>1 DEF RowStep
    <3> QED
      BY <1>3, <3>1, <3>2
  <2> QED
    BY <1>3, <1>5, <2>1, <2>2, <2>3 DEF Arm, ArmSet, ArmEnqueue, RollbackGet, RollbackDel, ArmDies
<1>6. CASE Delete
  <2> DEFINE S == {j \in Ids : Claimable(rows[j])}
  <2>1. UNCHANGED rows \/ Ended(rows, rows', S, "deleted")
    BY <1>1, <1>6, EndingStatements
       DEF Delete, CancelFind, CancelDelete, CancelReadBack, CancelEvict, WipeRedis, WipeRows, Unbind
  <2>2. CASE Ended(rows, rows', S, "deleted")
    <3>1. \/ rows'[i].status = rows[i].status /\ (rows[i].pickedUp => rows'[i].pickedUp)
          \/ i \in S /\ rows'[i].status = "deleted"
      BY <2>2 DEF Ended
    <3> QED
      BY <3>1 DEF RowStep
  <2> QED
    BY <1>3, <2>1, <2>2
<1>7. ASSUME NEW w \in WriteType, Formed(w), w.kind # "settle", rows' = Landed(w) \/ UNCHANGED rows
      PROVE  RowStep(i)
  BY <1>2, <1>3, <1>7, LandedRows
<1>8. CASE TickRead \/ TickStep
  <2>0. IdleTick.claim # "sent"
    BY DEF IdleTick
  <2>1. ClaimReplies \/ TickGate \/ TickRelease \/ TickSettle => tick.pc # "idle"
    BY <2>0 DEF ClaimReplies, TickGate, TickRelease, TickSettle, Shape
  <2>2. CASE ClaimReplies
    <3>1. ClaimWrite.kind # "settle"
      BY DEF ClaimWrite, Write
    <3> QED
      BY <1>7, <2>1, <2>2, <3>1, WriteTypes DEF ClaimReplies
  <2>3. CASE TickGate
    <3> DEFINE w == Write("pickup", tick.id, NoClaim, 0, "none")
    <3>1. w \in WriteType /\ Formed(w) /\ w.kind # "settle"
      BY <2>1, <2>3, WriteTypes DEF Write
    <3>2. rows' = Landed(w) \/ UNCHANGED rows
      BY <2>3 DEF TickGate, LandsNow, Abandoned
    <3> HIDE DEF w
    <3> QED
      BY <1>7, <3>1, <3>2
  <2>4. CASE TickRelease
    <3> DEFINE w == Write("release", tick.id, ticks, 0, "none")
    <3>1. w \in WriteType /\ Formed(w) /\ w.kind # "settle"
      BY <2>1, <2>4, WriteTypes DEF Write
    <3>2. rows' = Landed(w) \/ UNCHANGED rows
      BY <2>4 DEF TickRelease, LandsNow, Abandoned
    <3> HIDE DEF w
    <3> QED
      BY <1>7, <3>1, <3>2
  <2>5. CASE TickSettle
    <3> DEFINE w == SettleWrite(tick, Verdict)
    <3>1. Verdict \in Outcomes
      BY DEF Verdict, OutcomeOf, Outcomes
    <3>2. rows' = Landed(w) \/ UNCHANGED rows
      BY <2>5 DEF TickSettle, LandsNow, Abandoned, Verdict
    <3>3. w \in WriteType /\ Formed(w)
      BY <2>1, <2>5, <3>1, WriteTypes
    <3>4. w.kind = "settle" /\ w.id = tick.id /\ w.outcome = Verdict
      BY DEF SettleWrite, Write
    <3> HIDE DEF w
    <3>5. CASE rows' = Landed(w)
      <4>1. Ended(rows, rows', {tick.id}, Verdict)
        BY <3>3, <3>4, <3>5, LandedRows
      <4>2. \/ rows'[i].status = rows[i].status /\ (rows[i].pickedUp => rows'[i].pickedUp)
            \/ i = tick.id /\ Active(rows[i]) /\ rows'[i].status = Verdict
        BY <4>1 DEF Ended
      <4> QED
        BY <2>5, <4>2 DEF RowStep
    <3> QED
      BY <1>3, <3>2, <3>5
  <2> QED
    BY <1>3, <1>8, <2>2, <2>3, <2>4, <2>5
       DEF TickRead, TickStep, TickConsume, ClaimTimesOut, Abandoned, TickBody, TickApply, TickCompensate,
           TickRearm, TickCrash
<1>9. ASSUME NEW w \in late, LateLands(w) PROVE RowStep(i)
  <2>1. w \in WriteType /\ Formed(w) /\ rows' = Landed(w)
    BY <1>9 DEF LateLands, TypeOK, Shape
  <2>2. CASE w.kind = "settle"
    <3>1. Ended(rows, rows', {w.id}, w.outcome)
      BY <2>1, <2>2, LandedRows
    <3>2. \/ rows'[i].status = rows[i].status /\ (rows[i].pickedUp => rows'[i].pickedUp)
          \/ i = w.id /\ Active(rows[i]) /\ rows'[i].status = w.outcome
      BY <3>1 DEF Ended
    <3> QED
      BY <2>2, <3>2 DEF RowStep
  <2> QED
    BY <1>7, <2>1, <2>2
<1>10. ASSUME NEW at, Ended(rows, rows', {j \in Stranded(at) : rows[j].pickedUp}, "unknown"),
              at = now
       PROVE  RowStep(i)
  <2>1. \/ rows'[i].status = rows[i].status /\ (rows[i].pickedUp => rows'[i].pickedUp)
        \/ i \in Stranded(at) /\ rows'[i].status = "unknown"
    BY <1>10 DEF Ended
  <2> QED
    BY <1>10, <2>1 DEF RowStep, Stranded
<1>11. ASSUME NEW at, Ended(rows, rows', {j \in Stranded(at) : ~rows[j].pickedUp}, "expired"),
              at = sweepAt
       PROVE  RowStep(i)
  <2>1. \/ rows'[i].status = rows[i].status /\ (rows[i].pickedUp => rows'[i].pickedUp)
        \/ i \in Stranded(at) /\ ~rows[i].pickedUp /\ rows'[i].status = "expired"
    BY <1>11 DEF Ended
  <2> QED
    BY <1>11, <2>1 DEF RowStep, Stranded
<1>12. CASE SweepPicked \/ SweepUnpicked
  BY <1>1, <1>10, <1>11, <1>12, EndingStatements DEF SweepPicked, SweepUnpicked, ReapPicked, ReapUnpicked
<1>13. CASE ReapStale
  <2>1. Calm(rows, rows')
    BY <1>1, <1>13 DEF ReapStale, ReapStaleProcessing, Table, RowType, Calm
  <2> QED
    BY <1>2, <2>1
<1>14. CASE Clock \/ UNCHANGED vars
  BY <1>3, <1>14 DEF Clock, vars
<1> QED
  BY <1>5, <1>6, <1>8, <1>9, <1>12, <1>13, <1>14 DEF Next, Cron

\* How the fate of the tick's override comes about.
LEMMA NextFate ==
  ASSUME TypeOK, Shape, [Next]_vars
  PROVE  \/ tick'.pc \notin {"gate", "apply", "settle", "compensate"}
         \/ tick'.pc = "compensate" /\ tick'.fate = "aborted"
         \/ tick'.pc = "gate" /\ tick'.fate \in Plans
         \/ TickApply
         \/ /\ tick'.id = tick.id /\ tick'.fate = tick.fate
            /\ \/ tick'.pc = tick.pc
               \/ TickGate /\ tick'.pc = "apply"
               \/ tick.pc = "compensate" /\ tick'.pc = "settle"
<1> USE DEF opVars, tickVars, apiVars
<1>1. tick \in TickType /\ IdleTick.pc = "idle"
  BY DEF TypeOK, IdleTick
<1>2. CASE (\E id \in Ids : Arm(id)) \/ Delete \/ (\E w \in late : LateLands(w)) \/ UNCHANGED vars
  <2>1. UNCHANGED tick
    BY <1>2 DEF Arm, ArmBegin, ArmCommit, ArmSet, ArmEnqueue, RollbackGet, RollbackDel, ArmSettle,
       ArmDies, Delete, CancelFind, CancelDelete, CancelReadBack, CancelEvict, WipeRedis, WipeRows, Unbind,
       LateLands, vars
  <2> QED
    BY <2>1
<1>3. CASE Cron \/ Clock
  BY <1>3 DEF Cron, SweepPicked, SweepUnpicked, ReapStale, Clock
<1>4. CASE TickRead
  BY <1>4 DEF TickRead, IdleTick
<1>5. CASE TickConsume
  BY <1>1, <1>5 DEF TickConsume, TickType
<1>6. CASE ClaimReplies \/ ClaimTimesOut
  BY <1>1, <1>6 DEF ClaimReplies, ClaimTimesOut, TickType
<1>7. CASE TickBody
  BY <1>1, <1>7 DEF TickBody, Abort, TickType
<1>8. CASE TickGate
  BY <1>1, <1>8 DEF TickGate, Abort, TickType
<1>9. CASE TickCompensate
  BY <1>1, <1>9 DEF TickCompensate, TickType
<1>10. CASE TickRelease \/ TickRearm
  BY <1>1, <1>10 DEF TickRelease, TickRearm, TickType
<1>11. CASE TickSettle \/ TickCrash
  BY <1>1, <1>11 DEF TickSettle, TickCrash
<1> QED
  BY <1>2, <1>3, <1>4, <1>5, <1>6, <1>7, <1>8, <1>9, <1>10, <1>11 DEF Next, TickStep

\* An outcome that agrees with the exchange.
Truth(id, outcome) ==
  /\ outcome = "applied" => orders[id] = 1
  /\ outcome \in {"rejected", "superseded", "expired"} => orders[id] = 0

\* What the tick and the wire know of the order: a terminal write is sent when the
\* token is used up, and it agrees with the exchange.
Reported ==
  /\ \A w \in late : w.kind = "settle" => Dead(w.id) /\ Truth(w.id, w.outcome)
  /\ tick.pc = "superseded" => Dead(tick.id) /\ orders[tick.id] = 0
  /\ tick.pc \in {"gate", "apply"} => tick.fate \in Plans
  /\ tick.pc \in {"settle", "compensate"} /\ tick.fate \in {"placed", "accepted"} => orders[tick.id] = 1

\* The outcome that settleOverride() derives from the tick agrees with the exchange.
LEMMA VerdictTruth ==
  ASSUME TypeOK, Shape, Tokens, Reported, TickSettle
  PROVE  Truth(tick.id, Verdict)
<1>1. tick.id \in Ids /\ (tick.pc = "settle" \/ tick.pc = "superseded")
  BY DEF TickSettle, Shape
<1>2. CASE tick.pc = "superseded"
  BY <1>2 DEF Verdict, Truth, Reported
<1>3. CASE tick.pc = "settle"
  <2>1. orders[tick.id] # 0 => Spent(tick)
    BY <1>1, <1>3 DEF Tokens, Token, Holds
  <2>2. Verdict = OutcomeOf(tick)
    BY <1>3 DEF Verdict
  <2>3. Verdict = "applied" => tick.fate \in {"placed", "accepted"}
    BY <2>2 DEF OutcomeOf
  <2>4. Verdict \in {"rejected", "superseded", "expired"} => ~Spent(tick)
    BY <2>2 DEF OutcomeOf, Spent, Undispatched
  <2> QED
    BY <1>3, <2>1, <2>3, <2>4 DEF Truth, Reported
<1> QED
  BY <1>1, <1>2, <1>3

\* A terminal write is sent only with the token used up: the step that sends it
\* drops the tick's hold.
LEMMA SettleDead ==
  ASSUME TypeOK, Shape, Tokens, Reported, TickSettle, NEW id \in Ids, id = tick.id
  PROVE  Dead(id)' /\ UNCHANGED orders
<1> USE DEF opVars, tickVars, apiVars
<1>1. tick.id \in Ids /\ (tick.pc = "settle" \/ tick.pc = "superseded")
  BY DEF TickSettle, Shape
<1>2. IdleTick.pc = "idle" /\ tick' = IdleTick /\ UNCHANGED <<arm, key, orders>>
  BY DEF TickSettle, IdleTick
<1>3. Token(tick.id)
  BY <1>1 DEF Tokens
<1>4. ~Unset(tick.id) /\ key.id # tick.id /\ NoRearm(tick.id)
  <2>1. CASE tick.pc = "settle"
    BY <1>3, <2>1 DEF Token, Holds
  <2>2. CASE tick.pc = "superseded"
    BY <2>2 DEF Reported, Dead
  <2> QED
    BY <1>1, <2>1, <2>2
<1>5. \A w \in late' : w.kind = "rearm" => w \in late
  <2>1. \A outcome : SettleWrite(tick, outcome).kind # "rearm"
    BY DEF SettleWrite, Write
  <2> QED
    BY <2>1 DEF TickSettle, LandsNow, Abandoned
<1>6. NoRearm(id)'
  BY <1>4, <1>5 DEF NoRearm
<1> QED
  BY <1>2, <1>4, <1>6 DEF Dead, Unset, Holds, Reads

\* Every step keeps what the tick and the wire know true.
LEMMA NextReported ==
  ASSUME TypeOK, Shape, Tokens, Reported, TypeOK', Shape', [Next]_vars
  PROVE  Reported'
<1> USE DEF opVars, tickVars, apiVars
<1>1. ASSUME NEW w \in late', w.kind = "settle" PROVE Dead(w.id)' /\ Truth(w.id, w.outcome)'
  <2>0. w.id \in Ids
    BY DEF TypeOK, WriteType
  <2>1. CASE w \in late
    <3>1. Dead(w.id) /\ Truth(w.id, w.outcome)
      BY <1>1, <2>1 DEF Reported
    <3>2. Dead(w.id)' /\ orders'[w.id] = orders[w.id]
      BY <2>0, <3>1, NextDead
    <3> QED
      BY <3>1, <3>2 DEF Truth
  <2>2. CASE TickSettle /\ w = SettleWrite(tick, Verdict)
    <3>1. w.id = tick.id /\ w.outcome = Verdict
      BY <2>2 DEF SettleWrite, Write
    <3>2. Truth(w.id, w.outcome)
      BY <2>2, <3>1, VerdictTruth
    <3>3. Dead(w.id)' /\ UNCHANGED orders
      BY <2>0, <2>2, <3>1, SettleDead
    <3> QED
      BY <3>2, <3>3 DEF Truth
  <2>3. CASE w = Write("rearm", tick.id, NoClaim, tick.px, "none")
    BY <1>1, <2>3 DEF Write
  <2> QED
    BY <1>1, <2>1, <2>2, <2>3, NextLate DEF Verdict
<1>2. ASSUME NEW id \in Ids, tick'.pc = "superseded", tick'.id = id
      PROVE  Dead(id)' /\ orders'[id] = 0
  <2>0. IdleTick.pc = "idle" /\ ~TickRead
    BY <1>2 DEF TickRead, IdleTick
  <2>1. tick.id = id /\ (tick.pc = "superseded" \/ TickRearm)
    BY <1>2, <2>0, NextTick
  <2>2. CASE tick.pc = "superseded"
    BY <2>1, <2>2, NextDead DEF Reported
  <2>3. CASE TickRearm
    <3>1. key' = key /\ UNCHANGED <<arm, late, orders>> /\ tick.pc = "rearm"
      BY <1>2, <2>0, <2>3 DEF TickRearm, Rearmed
    <3>2. Token(id) /\ Holds(id)
      BY <2>1, <3>1 DEF Tokens, Holds
    <3>3. key.id # id /\ NoRearm(id) /\ ~Unset(id) /\ orders[id] = 0
      BY <2>1, <3>1, <3>2 DEF Token, Spent, TypeOK
    <3> QED
      BY <1>2, <3>1, <3>3 DEF Dead, Unset, NoRearm, Holds, Reads
  <2> QED
    BY <2>1, <2>2, <2>3
<1>3. ASSUME TickApply
      PROVE  /\ tick'.pc \in {"settle", "compensate"} /\ tick'.id = tick.id
             /\ tick'.fate \in {"placed", "accepted"} => orders'[tick.id] = 1
  <2>1. /\ tick.pc = "apply" /\ tick.id \in Ids /\ tick \in TickType /\ orders \in [Ids -> Nat]
        /\ tick.fate \in Plans
    BY <1>3 DEF TickApply, TypeOK, Shape, Reported
  <2>2. orders[tick.id] = 0
    BY <2>1 DEF Tokens, Token, Holds, Spent
  <2>3. CASE tick.fate = "ours"
    <3>1. PICK r \in OrderResults :
            tick' = Finished(tick, r[1]) /\ orders' = [orders EXCEPT ![tick.id] = @ + r[2]]
      BY <1>3, <2>3 DEF TickApply
    <3>2. /\ tick'.pc \in {"settle", "compensate"} /\ tick'.id = tick.id
          /\ tick'.fate \in {"placed", "accepted"} => r[2] = 1
      BY SMT, <2>1, <3>1 DEF OrderResults, Finished, Abort, TickType
    <3>3. orders'[tick.id] = r[2]
      BY SMT, <2>1, <2>2, <3>1 DEF OrderResults
    <3> QED
      BY <3>2, <3>3
  <2>4. CASE tick.fate # "ours"
    <3>1. PICK fate \in {IF tick.fate = "other" THEN "none" ELSE tick.fate, "aborted"} :
            tick' = Finished(tick, fate)
      BY <1>3, <2>4 DEF TickApply
    <3>2. fate \notin {"placed", "accepted"}
      BY <2>1 DEF Plans
    <3>3. tick'.pc \in {"settle", "compensate"} /\ tick'.id = tick.id /\ tick'.fate = fate
      BY <2>1, <3>1 DEF Finished, Abort, TickType
    <3> QED
      BY <3>2, <3>3
  <2> QED
    BY <2>3, <2>4
<1>4. tick'.pc \in {"gate", "apply"} => tick'.fate \in Plans
  BY <1>3, NextFate DEF Reported, TickGate
<1>5. ASSUME tick'.pc \in {"settle", "compensate"}, tick'.fate \in {"placed", "accepted"}
      PROVE  orders'[tick'.id] = 1
  <2>1. CASE TickApply
    BY <1>3, <1>5, <2>1
  <2>2. CASE ~TickApply
    <3>1. tick'.id = tick.id /\ tick.pc \in {"settle", "compensate"} /\ tick.fate = tick'.fate
      BY <1>5, <2>2, NextFate
    <3>2. tick.id \in Ids /\ orders[tick.id] = 1
      BY <1>5, <3>1 DEF Reported, Shape
    <3> QED
      BY <2>2, <3>1, <3>2, NextOrders
  <2> QED
    BY <2>1, <2>2
<1>6. tick'.pc = "superseded" => tick'.id \in Ids
  BY DEF Shape
<1>7. tick'.pc = "superseded" => Dead(tick.id)' /\ orders'[tick'.id] = 0
  BY <1>2, <1>6 DEF Dead, Unset, NoRearm, Holds, Reads
<1> QED
  BY <1>1, <1>4, <1>5, <1>7 DEF Reported

\* A tick with a won claim, from the body to the end of the dispatch.
Dispatching == tick.claim = "won" /\ tick.pc \in {"body", "gate", "apply"}

\* Nothing but its own failed request settles the row under a running dispatch.
Running ==
  Dispatching => \/ Active(rows[tick.id])
                 \/ rows[tick.id].status = "rejected" /\ arm[tick.id] = "failed"

\* The breadcrumb of id is on the row, or missed its deadline.
Crumb(id) == rows[id].pickedUp \/ id \in unstamped

\* An order goes out behind its breadcrumb.
Stamped ==
  /\ \A id \in Ids : orders[id] # 0 /\ Active(rows[id]) => Crumb(id)
  /\ tick.pc = "apply" /\ tick.fate = "ours" /\ Active(rows[tick.id]) => Crumb(tick.id)

\* A claim is won by the reply to the tick's own compare-and-set on a live row.
LEMMA NextDispatching ==
  ASSUME TypeOK, Shape, Guard, [Next]_vars, Dispatching'
  PROVE  /\ tick.id \in Ids /\ tick'.id = tick.id
         /\ Dispatching \/ (ClaimReplies /\ Active(rows[tick.id]))
<1> USE DEF opVars, tickVars, apiVars
<1>1. tick \in TickType /\ IdleTick.pc = "idle"
  BY DEF TypeOK, IdleTick
<1>2. tick'.claim = "won" /\ tick'.pc \in {"body", "gate", "apply"}
  BY DEF Dispatching
<1>3. ASSUME UNCHANGED tick PROVE Dispatching /\ tick.id \in Ids /\ tick'.id = tick.id
  BY <1>2, <1>3 DEF Dispatching, Shape
<1>4. CASE (\E id \in Ids : Arm(id)) \/ Delete \/ (\E w \in late : LateLands(w)) \/ UNCHANGED vars
  BY <1>3, <1>4 DEF Arm, ArmBegin, ArmCommit, ArmSet, ArmEnqueue, RollbackGet, RollbackDel, ArmSettle,
     ArmDies, Delete, CancelFind, CancelDelete, CancelReadBack, CancelEvict, WipeRedis, WipeRows, Unbind,
     LateLands, vars
<1>5. CASE Cron \/ Clock
  BY <1>3, <1>5 DEF Cron, SweepPicked, SweepUnpicked, ReapStale, Clock
<1>6. CASE TickRead \/ TickConsume
  BY <1>1, <1>2, <1>6 DEF TickRead, TickConsume, IdleTick, TickType
<1>7. CASE ClaimReplies
  <2>1. IdleTick.claim # "sent"
    BY DEF IdleTick
  <2>2. tick.pc # "idle"
    BY <1>7, <2>1 DEF ClaimReplies, Shape
  <2>3. tick'.id = tick.id /\ tick.id \in Ids
    BY <1>1, <1>7, <2>2 DEF ClaimReplies, TickType, Shape
  <2>4. Active(rows[tick.id])
    BY <1>1, <1>2, <1>7 DEF ClaimReplies, TickType, Claimable
  <2> QED
    BY <1>7, <2>3, <2>4
<1>8. CASE ClaimTimesOut
  BY <1>1, <1>2, <1>8 DEF ClaimTimesOut, TickType
<1>9. CASE TickBody
  BY <1>1, <1>2, <1>9 DEF TickBody, Abort, TickType, Shape, Dispatching
<1>10. CASE TickGate
  BY <1>1, <1>2, <1>10 DEF TickGate, Abort, TickType, Shape, Dispatching
<1>11. CASE TickApply
  BY <1>1, <1>2, <1>11 DEF TickApply, Finished, Abort, TickType
<1>12. CASE TickCompensate \/ TickRelease \/ TickRearm
  BY <1>1, <1>2, <1>12 DEF TickCompensate, TickRelease, TickRearm, TickType
<1>13. CASE TickSettle \/ TickCrash
  BY <1>1, <1>2, <1>13 DEF TickSettle, TickCrash
<1> QED
  BY <1>4, <1>5, <1>6, <1>7, <1>8, <1>9, <1>10, <1>11, <1>12, <1>13 DEF Next, TickStep

\* A request that has failed stays failed.
LEMMA FailedStays ==
  ASSUME TypeOK, Shape, [Next]_vars, NEW i \in Ids, arm[i] = "failed"
  PROVE  arm'[i] = "failed"
BY NextArm DEF Arming, ArmBegin

\* No sweep, cancel, newer press or late settle reaches the row under a dispatch.
LEMMA NextRunning ==
  ASSUME TypeOK, Shape, Tokens, Guard, Timely, Reported, Running, [Next]_vars
  PROVE  Running'
<1> USE DEF opVars, tickVars, apiVars
<1> SUFFICES ASSUME NEW i \in Ids, Dispatching', tick'.id = i
             PROVE  Active(rows'[i]) \/ (rows'[i].status = "rejected" /\ arm'[i] = "failed")
  <2>1. Dispatching' => tick'.id \in Ids
    BY NextDispatching
  <2> QED
    BY <2>1 DEF Running, Active
<1>1. tick.id = i /\ (Dispatching \/ (ClaimReplies /\ Active(rows[i])))
  BY NextDispatching
<1>2. CASE ClaimReplies /\ Active(rows[i])
  <2>2. Calm(rows, rows')
    <3>1. IdleTick.claim # "sent"
      BY DEF IdleTick
    <3>2. tick.pc # "idle"
      BY <1>2, <3>1 DEF ClaimReplies, Shape
    <3>3. ClaimWrite.kind # "settle"
      BY DEF ClaimWrite, Write
    <3>4. Calm(rows, Landed(ClaimWrite)) /\ Calm(rows, rows)
      BY <3>2, <3>3, WriteTypes, LandedRows DEF Calm
    <3> QED
      BY <1>2, <3>4 DEF ClaimReplies
  <2> QED
    BY <1>2, <2>2 DEF Calm, Active
<1>3. CASE Dispatching
  <2>1. Holds(i) /\ tick.pc # "idle" /\ ticks \in Ticks
    BY <1>1, <1>3 DEF Dispatching, Holds, Shape
  <2>2. ~Claimable(rows[i])
    <3>1. Active(rows[i]) => rows[i].claim = ticks
      BY <1>1, <1>3 DEF Guard, Guarded, Dispatching
    <3>2. ticks # NoClaim
      BY SMT, <2>1 DEF Ticks, NoClaim
    <3> QED
      BY <3>1, <3>2 DEF Claimable
  <2>3. ~ArmCommit(i)
    BY <1>1 DEF ArmCommit, Tokens, Token, Unset
  <2>4. ~TickSettle
    BY <1>3 DEF TickSettle, Dispatching
  <2>5. \A w \in late : ~(w.kind = "settle" /\ w.id = i)
    BY <2>1 DEF Reported, Dead
  <2>6. ~(rows[i].createdAt + Window < now) /\ ~(rows[i].createdAt + Window < sweepAt)
    <3>1. tick.startedAt + 1 + 2 * Slack <= rows[i].createdAt + Reach(ticks) /\ sweepAt <= now
      BY <1>1 DEF Timely, Due, By
    <3>2. now <= tick.startedAt + Slack
      BY <2>1 DEF Guard
    <3>3. Reach(ticks) <= Window + Slack
      BY ReachWithin DEF TypeOK
    <3>4. /\ now \in Nat /\ rows[i].createdAt \in Nat /\ tick.startedAt \in Nat
          /\ sweepAt \in Int /\ Slack \in Nat /\ Window \in Nat
      BY SMT, BoundsAssumption DEF TypeOK, Times, RowType, TickType
    <3>5. Reach(ticks) \in Nat
      BY SMT, ReachStep, BoundsAssumption DEF TypeOK
    <3> QED
      BY SMT, <3>1, <3>2, <3>3, <3>4, <3>5
  <2>7. Active(rows[i]) \/ (rows[i].status = "rejected" /\ arm[i] = "failed")
    BY <1>1, <1>3 DEF Running
  <2>8. CASE rows'[i].status = rows[i].status
    BY <2>7, <2>8, FailedStays DEF Active
  <2>9. CASE ArmSettle(i) /\ rows'[i].status = "rejected"
    BY <2>9 DEF ArmSettle, TypeOK
  <2> QED
    BY <2>2, <2>3, <2>4, <2>5, <2>6, <2>8, <2>9, NextRow DEF RowStep
<1> QED
  BY <1>1, <1>2, <1>3

\* Breadcrumbs are never lost from the record.
LEMMA NextUnstamped ==
  ASSUME TypeOK, Shape, [Next]_vars
  PROVE  unstamped \subseteq unstamped'
<1> USE DEF opVars, tickVars, apiVars
<1>1. CASE TickGate
  BY <1>1 DEF TickGate
<1>2. CASE ~TickGate
  <2>1. UNCHANGED unstamped
    BY <1>2 DEF Next, Arm, ArmBegin, ArmCommit, ArmSet, ArmEnqueue, RollbackGet, RollbackDel, ArmSettle,
       ArmDies, Delete, CancelFind, CancelDelete, CancelReadBack, CancelEvict, WipeRedis, WipeRows,
       Unbind, Cron, SweepPicked, SweepUnpicked, ReapStale, Clock, TickRead, TickStep, TickConsume,
       ClaimReplies, ClaimTimesOut, TickBody, TickApply, TickCompensate, TickRelease, TickRearm,
       TickSettle, TickCrash, LateLands, vars
  <2> QED
    BY <2>1
<1> QED
  BY <1>1, <1>2

\* A row that is active after a step was active before it, or is new and has no order.
LEMMA StillActive ==
  ASSUME TypeOK, Shape, Reported, [Next]_vars, NEW i \in Ids, Active(rows'[i])
  PROVE  \/ Active(rows[i]) /\ (Crumb(i) => Crumb(i)')
         \/ ArmCommit(i)
<1>1. \A w \in late : w.kind = "settle" => w.outcome \in Outcomes
  BY DEF Shape, Formed
<1>2. Verdict \in Outcomes
  BY DEF Verdict, OutcomeOf, Outcomes
<1>3. rows'[i].status = "pending" /\ "pending" \notin Outcomes
  BY DEF Active, Outcomes
<1>4. ArmCommit(i) \/ (rows'[i].status = rows[i].status /\ (rows[i].pickedUp => rows'[i].pickedUp))
  BY <1>1, <1>2, <1>3, NextRow DEF RowStep
<1> QED
  BY <1>3, <1>4, NextUnstamped DEF Active, Crumb

\* An order goes out behind its breadcrumb, and the breadcrumb stays.
LEMMA NextStamped ==
  ASSUME TypeOK, Shape, Tokens, Guard, Reported, Stamped, TypeOK', Shape', [Next]_vars
  PROVE  Stamped'
<1> USE DEF opVars, tickVars, apiVars
<1>1. ASSUME NEW i \in Ids, orders'[i] # 0, Active(rows'[i]) PROVE Crumb(i)'
  <2>1. CASE ArmCommit(i)
    <3>1. Unset(i)
      BY <2>1 DEF ArmCommit, Unset
    <3>2. orders[i] = 0 /\ tick.id # i
      BY <3>1 DEF Tokens, Token
    <3> QED
      BY <1>1, <3>2, NextOrders
  <2>2. CASE Active(rows[i]) /\ (Crumb(i) => Crumb(i)')
    <3>1. CASE orders'[i] = orders[i]
      BY <1>1, <2>2, <3>1 DEF Stamped
    <3>2. CASE TickApply /\ tick.id = i /\ tick.fate = "ours"
      BY <2>2, <3>2 DEF TickApply, Stamped
    <3> QED
      BY <3>1, <3>2, NextOrders
  <2> QED
    BY <1>1, <2>1, <2>2, StillActive
<1>2. ASSUME NEW i \in Ids, tick'.id = i, tick'.pc = "apply", tick'.fate = "ours", Active(rows'[i])
      PROVE  Crumb(i)'
  <2>1. ~TickApply
    <3>1. ASSUME TickApply PROVE tick'.pc # "apply"
      <4>1. PICK fate : tick' = Finished(tick, fate)
        BY <3>1 DEF TickApply
      <4>2. tick \in TickType
        BY DEF TypeOK
      <4> QED
        BY <4>1, <4>2 DEF Finished, Abort, TickType
    <3> QED
      BY <1>2, <3>1
  <2>2. tick.id = i /\ tick.fate = "ours" /\ (tick.pc = "apply" \/ TickGate)
    BY <1>2, <2>1, NextFate
  <2>3. CASE tick.pc = "apply"
    <3>1. ~ArmCommit(i)
      BY <2>2 DEF ArmCommit, Tokens, Token, Unset
    <3> QED
      BY <1>2, <2>2, <2>3, <3>1, StillActive DEF Stamped
  <2>4. CASE TickGate
    <3> DEFINE w == Write("pickup", tick.id, NoClaim, 0, "none")
    <3>1. w.kind = "pickup" /\ w.id = i
      BY <2>2 DEF Write
    <3>2. rows' = Landed(w) \/ i \in unstamped'
      <4>1. tick.claim = "won"
        BY <1>2, <2>4 DEF TickGate, Abort, TypeOK, TickType
      <4> QED
        BY <2>2, <2>4, <4>1 DEF TickGate, Placement, LandsNow
    <3> HIDE DEF w
    <3>3. CASE rows' = Landed(w)
      <4>1. rows' = MarkPickedUp(rows, i) /\ rows \in [Ids -> RowType]
        BY <3>1, <3>3 DEF Landed, TypeOK
      <4> QED
        BY <1>2, <4>1 DEF MarkPickedUp, Crumb, RowType
    <3> QED
      BY <3>2, <3>3 DEF Crumb
  <2> QED
    BY <2>2, <2>3, <2>4
<1>3. tick'.pc = "apply" => tick'.id \in Ids
  BY DEF Shape
<1>4. tick'.pc = "apply" /\ tick'.fate = "ours" /\ Active(rows'[tick'.id]) => Crumb(tick.id)'
  BY <1>2, <1>3 DEF Crumb
<1> QED
  BY <1>1, <1>4 DEF Stamped, Active

\* Every step keeps the outcomes honest.
LEMMA NextHonest ==
  ASSUME TypeOK, Shape, Tokens, Guard, Timely, Reported, Running, Stamped, OutcomeHonest, [Next]_vars
  PROVE  OutcomeHonest'
<1> USE DEF opVars, tickVars, apiVars
<1> DEFINE Says(i, s) ==
      /\ s = "applied" => orders'[i] = 1
      /\ s = "rejected" /\ arm'[i] # "failed" => orders'[i] = 0
      /\ s \in {"superseded", "expired"} /\ i \notin unstamped' => orders'[i] = 0
<1>1. SUFFICES ASSUME NEW i \in Ids PROVE Says(i, rows'[i].status)
  BY DEF OutcomeHonest
<1>2. CASE rows'[i].status = rows[i].status
  <2>1. CASE orders'[i] = orders[i]
    <3>1. arm'[i] # "failed" => arm[i] # "failed"
      BY FailedStays
    <3>2. i \notin unstamped' => i \notin unstamped
      BY NextUnstamped
    <3> QED
      BY <1>2, <2>1, <3>1, <3>2 DEF OutcomeHonest
  <2>2. CASE TickApply /\ tick.id = i /\ tick.fate = "ours"
    <3>1. Dispatching /\ UNCHANGED arm
      BY <2>2 DEF TickApply, Guard, Dispatching
    <3>2. rows[i].status = "pending" \/ (rows[i].status = "rejected" /\ arm'[i] = "failed")
      BY <2>2, <3>1 DEF Running, Active
    <3> QED
      BY <1>2, <3>2
  <2> QED
    BY <2>1, <2>2, NextOrders
<1>3. CASE rows'[i].status # rows[i].status
  <2>1. orders'[i] = orders[i]
    BY <1>3, NextOrders DEF TickApply
  <2>2. CASE rows'[i].status \in {"pending", "deleted", "unknown"}
    BY <2>2
  <2>3. ASSUME Active(rows[i]), ~rows[i].pickedUp, rows'[i].status \in {"superseded", "expired"}
        PROVE  Says(i, rows'[i].status)
    <3>1. orders[i] # 0 => i \in unstamped'
      BY <2>3, NextUnstamped DEF Stamped, Crumb
    <3> QED
      BY <2>1, <2>3, <3>1
  <2>4. ASSUME ArmSettle(i), rows'[i].status = "rejected" PROVE Says(i, rows'[i].status)
    BY <2>4 DEF ArmSettle, TypeOK
  <2>5. ASSUME Truth(i, rows'[i].status) PROVE Says(i, rows'[i].status)
    BY <2>1, <2>5 DEF Truth
  <2>6. ASSUME TickSettle, tick.id = i, rows'[i].status = Verdict PROVE Says(i, rows'[i].status)
    <3>1. Truth(i, rows'[i].status)
      BY <2>6, VerdictTruth
    <3> QED
      BY <2>5, <3>1
  <2>7. ASSUME NEW w \in late, w.kind = "settle", w.id = i, rows'[i].status = w.outcome
        PROVE  Says(i, rows'[i].status)
    <3>1. Truth(i, rows'[i].status)
      BY <2>7 DEF Reported
    <3> QED
      BY <2>5, <3>1
  <2> HIDE DEF Says
  <2> QED
    BY <1>3, <2>2, <2>3, <2>4, <2>6, <2>7, NextRow DEF RowStep, Claimable
<1> QED
  BY <1>2, <1>3

\* No step takes time back.
LEMMA NextTimely ==
  ASSUME TypeOK, Shape, Tokens, Guard, Timely, TypeOK', Shape', Tokens', [Next]_vars
  PROVE  Timely'
<1>1. \A id \in Ids : Due(id)'
  BY NextDue DEF Timely
<1>2. now \in Nat /\ (now' = now \/ now' = now + 1) /\ sweepAt \in Int
  BY SMT, NextNow DEF Clock, TypeOK, Times
<1>3. sweepAt' <= now'
  BY SMT, <1>2, NextNow DEF Timely
<1> QED
  BY <1>1, <1>3 DEF Timely

\* What makes a row's outcome agree with the exchange, and a cancel's answer final.
Safe ==
  /\ TypeOK /\ Shape /\ Tokens /\ Guard
  /\ Timely /\ Reported /\ Running /\ Stamped /\ OutcomeHonest

\* Before the first request there is nothing to be wrong about.
LEMMA InitSafe == Init => Safe
<1> SUFFICES ASSUME Init PROVE Safe
  OBVIOUS
<1>1. TypeOK /\ Shape /\ Tokens /\ Guard
  BY InitTypes, InitTokens, InitGuard
<1>2. /\ tick.pc = "idle" /\ late = {} /\ now = 0 /\ sweepAt = -1
      /\ \A id \in Ids : /\ arm[id] = "new" /\ rows[id].status = "absent" /\ orders[id] = 0
  BY SMT DEF Init, IdleTick, NoRow
<1>3. \A id \in Ids : key.id # id /\ tick.id # id
  BY SMT DEF Init, IdleTick, NoKey, NoId, Ids
<1>4. Timely
  <2>1. sweepAt <= now
    BY SMT, <1>2
  <2> QED
    BY <1>2, <1>3, <2>1 DEF Timely, Due, Arming
<1>5. Reported /\ Running
  BY <1>2 DEF Reported, Running, Dispatching
<1>6. Stamped /\ OutcomeHonest
  BY <1>2 DEF Stamped, OutcomeHonest
<1> QED
  BY <1>1, <1>4, <1>5, <1>6 DEF Safe

\* Every step keeps it.
LEMMA NextSafe ==
  ASSUME Safe, [Next]_vars
  PROVE  Safe'
<1>1. TypeOK' /\ Shape' /\ Tokens' /\ Guard'
  BY NextTypes, NextTokens, NextGuard DEF Safe
<1>2. Timely' /\ Reported' /\ Running'
  BY <1>1, NextTimely, NextReported, NextRunning DEF Safe
<1>3. Stamped' /\ OutcomeHonest'
  BY <1>1, NextStamped, NextHonest DEF Safe
<1> QED
  BY <1>1, <1>2, <1>3 DEF Safe

\* What a settled row says is what happened on the exchange, for every number of
\* overrides, retries, crashes and late writes: `applied' has its order, and neither
\* a rejected, a superseded nor an expired row has one, but for a breadcrumb that
\* missed its deadline and a row that its own failed request settled.
THEOREM OverrideOutcomeHonest == Spec => []OutcomeHonest
<1>1. Safe => OutcomeHonest
  BY DEF Safe
<1> QED
  BY <1>1, InitSafe, NextSafe, PTL DEF Spec

-----------------------------------------------------------------------------
(* A cancelled override stays cancelled.                                     *)

\* The row has been settled or deleted, for good.
Gone(id) == rows[id].status \in Outcomes \cup {"deleted"}

\* A cancel that goes on to evict the key has seen its row go.
Cancelled ==
  /\ op.target # NoId /\ op.pc \in {"found", "deleted"} => rows[op.target].status # "absent"
  /\ op.target # NoId /\ op.pc = "evict" => Gone(op.target)
  /\ \A id \in Ids : told[id] = "evict" => Gone(id)

\* What a cancel has found stays found, and what is gone stays gone.
LEMMA NextCancelled ==
  ASSUME TypeOK, Shape, Cancelled, TypeOK', [Next]_vars
  PROVE  Cancelled'
<1> USE DEF opVars, tickVars, apiVars
<1>0. rows \in Table /\ NoId \notin Ids /\ op.target \in {NoId} \cup Ids
  BY SMT DEF TypeOK, Table, NoId, Ids
<1>1. ASSUME NEW i \in Ids, Gone(i) PROVE Gone(i)'
  BY <1>1, NextFinal DEF Final, Gone
<1>2. ASSUME NEW i \in Ids, rows[i].status # "absent" PROVE rows'[i].status # "absent"
  <2>1. \A w \in late : w.kind = "settle" => w.outcome \in Outcomes
    BY DEF Shape, Formed
  <2>2. Verdict \in Outcomes /\ "absent" \notin Outcomes
    BY DEF Verdict, OutcomeOf, Outcomes
  <2> QED
    BY <1>2, <2>1, <2>2, NextRow DEF RowStep
<1>3. CASE CancelFind
  <2>1. op' = [pc |-> "found", target |-> FindActiveForSymbol(rows)] /\ UNCHANGED <<rows, told>>
    BY <1>3 DEF CancelFind
  <2>2. op'.pc = "found" /\ op'.target = FindActiveForSymbol(rows)
    BY SMT, <2>1
  <2>3. op'.target # NoId => Active(rows[op'.target])
    BY <1>0, <2>2, FindActiveType
  <2> QED
    BY <2>1, <2>2, <2>3 DEF Cancelled, Gone, Active
<1>4. CASE CancelReadBack
  <2> DEFINE verdict == CancelVerdict(FindActiveForSymbol(rows))
  <2>1. UNCHANGED rows
    BY <1>4 DEF CancelReadBack
  <2>2. ASSUME NEW i \in Ids, told'[i] = "evict" PROVE told[i] = "evict"
    BY <1>4, <2>2 DEF CancelReadBack, Answer204, TypeOK
  <2>3. CASE verdict = "evict"
    <3>1. op' = [op EXCEPT !.pc = "evict"] /\ op.pc = "deleted"
      BY <1>4, <2>3 DEF CancelReadBack
    <3>2. op'.pc = "evict" /\ op'.target = op.target
      BY <3>1 DEF TypeOK
    <3>3. FindActiveForSymbol(rows) = NoId
      BY <2>3 DEF CancelVerdict
    <3>4. op.target # NoId => rows[op.target].status \in Statuses /\ ~Active(rows[op.target])
      BY <1>0, <3>3, FindActiveType DEF Table, RowType
    <3>5. op.target # NoId => rows[op.target].status # "absent"
      BY <3>1 DEF Cancelled
    <3>6. op.target # NoId => Gone(op.target)
      BY <3>4, <3>5 DEF Gone, Statuses, Active
    <3> QED
      BY <2>1, <2>2, <3>2, <3>6 DEF Cancelled, Gone
  <2>4. CASE verdict # "evict"
    <3>1. op' = [op EXCEPT !.pc = "orphan"] \/ op' = [pc |-> "idle", target |-> NoId]
      BY <1>4, <2>4 DEF CancelReadBack
    <3>2. op'.pc = "orphan" \/ op'.pc = "idle"
      BY SMT, <3>1 DEF TypeOK
    <3> QED
      BY <2>1, <2>2, <3>2 DEF Cancelled, Gone
  <2> QED
    BY <2>3, <2>4
<1>5. CASE CancelEvict
  <2>1. UNCHANGED rows /\ op'.pc = "idle" /\ op.pc \in {"evict", "orphan"}
    BY <1>5 DEF CancelEvict
  <2>2. ASSUME NEW i \in Ids, told'[i] = "evict"
        PROVE  told[i] = "evict" \/ (i = op.target /\ op.pc = "evict" /\ op.target # NoId)
    BY <1>0, <1>5, <2>2 DEF CancelEvict, Answer204, TypeOK
  <2> QED
    BY <2>1, <2>2 DEF Cancelled, Gone
<1>6. ASSUME UNCHANGED told, op'.target = op.target,
             op'.pc = op.pc \/ (op.pc = "found" /\ op'.pc = "deleted") \/ op'.pc \in {"idle", "wiped"}
      PROVE  Cancelled'
  <2>1. op.target # NoId => op.target \in Ids
    BY <1>0
  <2>2. op'.target # NoId /\ op'.pc \in {"found", "deleted"} => rows'[op'.target].status # "absent"
    BY <1>2, <1>6, <2>1 DEF Cancelled
  <2>3. op'.target # NoId /\ op'.pc = "evict" => rows'[op'.target].status \in Outcomes \cup {"deleted"}
    BY <1>1, <1>6, <2>1 DEF Cancelled, Gone
  <2>4. \A id \in Ids : told'[id] = "evict" => Gone(id)'
    BY <1>1, <1>6 DEF Cancelled
  <2> QED
    BY <2>2, <2>3, <2>4 DEF Cancelled, Gone
<1>7. CASE CancelDelete \/ WipeRedis \/ WipeRows
  <2>1. UNCHANGED told /\ ((op' = [op EXCEPT !.pc = "deleted"] /\ op.pc = "found")
                           \/ op' = [op EXCEPT !.pc = "wiped"] \/ op' = [op EXCEPT !.pc = "idle"])
    BY <1>7 DEF CancelDelete, WipeRedis, WipeRows
  <2>2. op'.target = op.target /\ ((op.pc = "found" /\ op'.pc = "deleted") \/ op'.pc \in {"idle", "wiped"})
    BY <2>1 DEF TypeOK
  <2> QED
    BY <1>6, <2>1, <2>2
<1>8. CASE ~(CancelFind \/ CancelReadBack \/ CancelEvict \/ CancelDelete \/ WipeRedis \/ WipeRows)
  <2>1. UNCHANGED <<op, told>>
    BY <1>8 DEF Next, Arm, ArmBegin, ArmCommit, ArmSet, ArmEnqueue, RollbackGet, RollbackDel, ArmSettle,
       ArmDies, Delete, Unbind, Cron, SweepPicked, SweepUnpicked, ReapStale, Clock, TickRead, TickStep,
       TickConsume, ClaimReplies, ClaimTimesOut, TickBody, TickGate, TickApply, TickCompensate,
       TickRelease, TickRearm, TickSettle, TickCrash, LateLands, vars
  <2> QED
    BY <1>6, <2>1
<1> QED
  BY <1>3, <1>4, <1>5, <1>7, <1>8

\* After the 204 of a cancel that evicted the key, no order for its override reaches
\* the exchange: the row is gone for good, and a dispatch needs its row alive.  The
\* exception is the one the property names, a row settled by its own failed request.
THEOREM OverrideCancelledStays == Spec => CancelledStaysCancelled
<1>1. Init => Safe /\ Cancelled
  <2>1. Init => op.pc = "idle" /\ \A id \in Ids : told[id] = "nothing"
    BY SMT DEF Init
  <2>2. Init => Cancelled
    BY <2>1 DEF Cancelled
  <2> QED
    BY <2>2, InitSafe
<1>2. Safe /\ Cancelled /\ [Next]_vars => Safe' /\ Cancelled'
  BY NextSafe, NextCancelled DEF Safe
<1>3. Safe /\ Cancelled /\ [Next]_vars
        => [\A id \in Ids : told[id] = "evict" /\ arm[id] # "failed" => orders'[id] = orders[id]]_vars
  <2> SUFFICES ASSUME Safe, Cancelled, [Next]_vars, NEW id \in Ids, told[id] = "evict", arm[id] # "failed"
               PROVE  orders'[id] = orders[id]
    OBVIOUS
  <2>1. ASSUME TickApply, tick.id = id PROVE FALSE
    <3>1. Dispatching
      BY <2>1 DEF TickApply, Safe, Guard, Dispatching
    <3>2. Active(rows[id])
      BY <2>1, <3>1 DEF Safe, Running
    <3> QED
      BY <3>2 DEF Cancelled, Gone, Active, Outcomes
  <2> QED
    BY <2>1, NextOrders DEF Safe
<1> QED
  BY <1>1, <1>2, <1>3, PTL DEF Spec, CancelledStaysCancelled

=============================================================================
