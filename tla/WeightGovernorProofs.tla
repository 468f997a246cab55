------------------------- MODULE WeightGovernorProofs -------------------------
(***************************************************************************)
(* The bucket's bound, the orders' band and the ceiling of a pod's own     *)
(* limiter hold for every number of pods and calls, every cost and every   *)
(* configuration the code accepts.                                         *)
(***************************************************************************)
EXTENDS WeightGovernor, FiniteSetTheorems, TLAPS

\* Most leaves are first-order; the ones with arithmetic or records name SMT.
USE Zenon

Bucket == [used : Nat, ts : Nat, expires : Nat]
Command == [call : Calls, at : Nat]
Classes == {"order", "bulk", "wide"}

Shape ==
  /\ now \in Nat
  /\ bucket \in Bucket /\ bucket.used <= Ceiling
  /\ wire \in [Pods -> Seq(Command)]
  /\ phase \in [Calls -> Phases]
  /\ charged \in [Classes -> Nat]
  /\ regress \in Nat

\* A command on the wire was sent in the last MaxLag ticks.
Fresh ==
  \A p \in Pods : \A i \in 1 .. Len(wire[p]) :
    /\ wire[p][i].at - Skew[p] + MaxLag >= now
    /\ wire[p][i].at - Skew[p] <= now

\* The hash lives two windows past the write that stored its `ts`.
Lifetime ==
  /\ bucket.ts <= now + MaxSkew
  /\ bucket = Missing \/ bucket.ts + 2 * Window <= bucket.expires + MaxSkew

\* All that was charged is still counted or has decayed.
Account == Charged <= bucket.used + Refill * (bucket.ts + regress)

\* Bulk reads alone never fill the band.
Band == charged["wide"] = 0 => bucket.used <= Ceiling - OrderReserve + charged["order"]

IInv == Shape /\ Fresh /\ Lifetime /\ Account /\ Band /\ OrdersAheadOfBulk

\* A product with a natural is monotone.
LEMMA TimesMonotone ==
  ASSUME NEW r \in Nat, NEW a \in Int, NEW b \in Int, a <= b
  PROVE  r * a <= r * b
  BY SMT

\* A product distributes over a sum.
LEMMA TimesPlus ==
  ASSUME NEW r \in Int, NEW a \in Int, NEW b \in Int
  PROVE  r * (a + b) = r * a + r * b
  BY SMT

\* A command read at `at' under skew s, in flight for less than l ticks: one tick on, and
\* on the exchange's clock.
LEMMA FlightTime ==
  ASSUME NEW at \in Nat, NEW s \in Nat, NEW l \in Nat, NEW n \in Nat, NEW m \in Nat, s <= m
  PROVE  /\ at - s + l > n /\ at - s <= n => at - s + l >= n + 1 /\ at - s <= n + 1
         /\ at - s + l >= n => at + l >= n
         /\ at - s <= n => at <= n + s /\ at <= n + m
  BY SMT

\* The hash the script reads is the stored one or an empty one.
LEMMA StoredShape ==
  ASSUME Shape
  PROVE  /\ Stored \in Bucket
         /\ Stored.used <= bucket.used
         /\ Stored = bucket \/ (Stored = Missing /\ now >= bucket.expires)
  BY SMT DEF Shape, Stored, Missing, Bucket

\* The script takes off at most the refill of the interval it measures.
LEMMA DecayBounds ==
  ASSUME Shape, ConfigAssumption, NEW at \in Nat
  PROVE  /\ Decayed(at) \in Nat
         /\ Decayed(at) <= Stored.used
         /\ Decayed(at) >= Stored.used - Refill * Larger(0, at - Stored.ts)
<1> DEFINE e == Larger(0, at - Stored.ts)
<1>1. Stored.used \in Nat /\ Stored.ts \in Nat
  BY StoredShape DEF Bucket
<1>2. e \in Nat
  BY SMT, <1>1 DEF Larger
<1>3. e * Refill \in Nat /\ e * Refill = Refill * e
  BY SMT, <1>2 DEF ConfigAssumption
<1>4. Decayed(at) = Larger(0, Stored.used - e * Refill)
  BY DEF Decayed
<1> QED
  BY SMT, <1>1, <1>3, <1>4 DEF Larger

\* What the configuration says of a call: its cost, class and admission limit.
LEMMA CostNat ==
  ASSUME ConfigAssumption, NEW c \in Calls
  PROVE  /\ Cost[c] \in Nat
         /\ AdmissionLimit(c) \in Nat
         /\ AdmissionLimit(c) <= Ceiling
         /\ Ceiling \in Nat
         /\ Class(c) \in Classes
<1>1. Ceiling \in Nat /\ Cost[c] \in Nat
  BY SMT DEF ConfigAssumption
<1> QED
  BY SMT, <1>1 DEF ConfigAssumption, AdmissionLimit, Class, Classes

\* One charge adds its cost to the total, under one class.
LEMMA ChargeTotal ==
  ASSUME Shape, ConfigAssumption, NEW c \in Calls,
         charged' = [charged EXCEPT ![Class(c)] = @ + Cost[c]]
  PROVE  /\ charged' \in [Classes -> Nat]
         /\ Charged' = Charged + Cost[c]
         /\ \A k \in Classes : charged'[k] >= charged[k]
         /\ charged'[Class(c)] = charged[Class(c)] + Cost[c]
<1>1. Cost[c] \in Nat /\ Class(c) \in {"order", "bulk", "wide"}
  BY CostNat DEF Classes
<1>2. charged["order"] \in Nat /\ charged["bulk"] \in Nat /\ charged["wide"] \in Nat
  BY DEF Shape, Classes
<1>3. \A k \in Classes : charged'[k] = IF k = Class(c) THEN charged[k] + Cost[c] ELSE charged[k]
  BY <1>1 DEF Shape, Classes
<1>4. charged' \in [Classes -> Nat]
  BY SMT, <1>1, <1>2 DEF Shape, Classes
<1> QED
  BY SMT, <1>1, <1>2, <1>3, <1>4 DEF Charged, Classes

\* What the account has to show for a charge at `at`: the total before it is
\* covered by what is left of the count and the refill up to `at`.
LEMMA DecayCovered ==
  ASSUME Shape, Lifetime, Account, ConfigAssumption, NEW at \in Nat, at + MaxLag >= now
  PROVE  Charged <= Decayed(at) + Refill * (at + (regress + Larger(0, Stored.ts - at)))
<1>1. /\ bucket.used \in Nat /\ bucket.ts \in Nat /\ bucket.expires \in Nat
      /\ regress \in Nat /\ now \in Nat /\ bucket.used <= Ceiling
  BY DEF Shape, Bucket
<1>2. /\ Refill \in Nat /\ Window \in Nat /\ MaxSkew \in Nat /\ MaxLag \in Nat
      /\ Ceiling = Refill * Window /\ MaxLag + MaxSkew <= Window
  BY DEF ConfigAssumption
<1>3. Charged \in Nat
  BY SMT DEF Charged, Shape, Classes
<1>4. /\ Decayed(at) \in Nat
      /\ Decayed(at) >= Stored.used - Refill * Larger(0, at - Stored.ts)
  BY DecayBounds
<1>5. Charged <= bucket.used + Refill * (bucket.ts + regress)
  BY DEF Account
<1>6. CASE Stored = bucket
  <2> DEFINE up == Larger(0, at - bucket.ts)
             down == Larger(0, bucket.ts - at)
  <2>1. up \in Nat /\ down \in Nat /\ at + down = bucket.ts + up
    BY SMT, <1>1 DEF Larger
  <2>2. at + (regress + down) = (bucket.ts + regress) + up
    BY SMT, <1>1, <2>1
  <2>3. Refill * (at + (regress + down)) = Refill * (bucket.ts + regress) + Refill * up
    BY SMT, <1>1, <1>2, <2>1, <2>2, TimesPlus
  <2>4. Refill * (bucket.ts + regress) \in Int /\ Refill * up \in Int
    BY SMT, <1>1, <1>2, <2>1
  <2> HIDE DEF up, down
  <2>5. Decayed(at) >= bucket.used - Refill * up
    BY <1>4, <1>6 DEF up
  <2>6. Charged <= Decayed(at) + Refill * (at + (regress + down))
    BY SMT, <1>1, <1>3, <1>4, <1>5, <2>3, <2>4, <2>5
  <2> QED
    BY <1>6, <2>6 DEF down
<1>7. CASE Stored = Missing /\ now >= bucket.expires /\ bucket # Missing
  <2>1. bucket.ts + Window <= at
    BY SMT, <1>1, <1>2, <1>7 DEF Lifetime
  <2>2. Refill * ((bucket.ts + regress) + Window) <= Refill * (at + regress)
    <3>1. (bucket.ts + regress) + Window <= at + regress
      BY SMT, <1>1, <1>2, <2>1
    <3> QED
      BY SMT, <1>1, <1>2, <3>1, TimesMonotone
  <2>3. Refill * ((bucket.ts + regress) + Window) = Refill * (bucket.ts + regress) + Ceiling
    <3>1. Refill \in Int /\ bucket.ts + regress \in Int /\ Window \in Int
      BY SMT, <1>1, <1>2
    <3>2. Refill * ((bucket.ts + regress) + Window) = Refill * (bucket.ts + regress) + Refill * Window
      BY <3>1, TimesPlus
    <3> QED
      BY <1>2, <3>2
  <2>4. Refill * (bucket.ts + regress) \in Int /\ Refill * (at + regress) \in Int /\ Ceiling \in Int
    BY SMT, <1>1, <1>2
  <2>5. Charged <= Refill * (at + regress)
    BY SMT, <1>1, <1>3, <1>5, <2>2, <2>3, <2>4
  <2>6. Larger(0, Stored.ts - at) = 0
    BY SMT, <1>7 DEF Missing, Larger
  <2>7. regress + Larger(0, Stored.ts - at) = regress
    BY SMT, <1>1, <2>6
  <2> QED
    BY SMT, <1>3, <1>4, <2>4, <2>5, <2>7
<1> QED
  BY <1>6, <1>7, StoredShape

\* The script's admission preserves everything it writes about.
LEMMA ChargeKeeps ==
  ASSUME IInv, ConfigAssumption, NEW c \in Calls, NEW at \in Nat,
         at + MaxLag >= now, at <= now + MaxSkew,
         Admits(c, at), Charge(c, at), now' = now
  PROVE  /\ bucket' \in Bucket /\ bucket'.used <= Ceiling
         /\ charged' \in [Classes -> Nat] /\ regress' \in Nat
         /\ \A k \in Classes : charged'[k] >= charged[k]
         /\ Lifetime' /\ Account' /\ Band'
<1> USE DEF IInv
<1>1. Decayed(at) \in Nat /\ Decayed(at) <= Stored.used /\ Stored \in Bucket
  BY DecayBounds, StoredShape
<1>2. /\ Cost[c] \in Nat /\ AdmissionLimit(c) \in Nat /\ AdmissionLimit(c) <= Ceiling
      /\ Ceiling \in Nat /\ Class(c) \in Classes
  BY CostNat
<1>3. /\ charged' \in [Classes -> Nat] /\ Charged' = Charged + Cost[c]
      /\ \A k \in Classes : charged'[k] >= charged[k]
      /\ charged'[Class(c)] = charged[Class(c)] + Cost[c]
  BY ChargeTotal DEF Charge
<1>4. /\ bucket' = [used |-> Decayed(at) + Cost[c], ts |-> at, expires |-> now + 2 * Window]
      /\ regress' = regress + Larger(0, Stored.ts - at)
  BY DEF Charge
<1>5. Decayed(at) + Cost[c] <= AdmissionLimit(c)
  BY DEF Admits
<1>6. now \in Nat /\ regress \in Nat /\ Window \in Nat /\ MaxSkew \in Nat /\ Refill \in Nat
  BY DEF Shape, ConfigAssumption
<1>7. bucket' \in Bucket /\ bucket'.used = Decayed(at) + Cost[c] /\ bucket'.ts = at
      /\ bucket'.expires = now + 2 * Window
  BY SMT, <1>1, <1>2, <1>4, <1>6 DEF Bucket
<1>8. Larger(0, Stored.ts - at) \in Nat
  BY SMT, <1>1 DEF Larger, Bucket
<1>9. Lifetime'
  BY SMT, <1>6, <1>7 DEF Lifetime
<1>10. Account'
  <2>1. Charged <= Decayed(at) + Refill * (at + regress')
    BY DecayCovered, <1>4
  <2>2. Refill * (at + regress') \in Int /\ Charged \in Nat
    <3>1. at + regress' \in Nat
      BY SMT, <1>4, <1>6, <1>8
    <3>2. \A k \in Classes : charged[k] \in Nat
      BY DEF Shape
    <3> QED
      BY SMT, <1>6, <3>1, <3>2 DEF Charged, Classes
  <2>3. Charged + Cost[c] <= (Decayed(at) + Cost[c]) + Refill * (at + regress')
    BY SMT, <1>1, <1>2, <2>1, <2>2
  <2> QED
    BY <1>3, <1>7, <2>3 DEF Account
<1>11. Band'
  <2> SUFFICES ASSUME charged'["wide"] = 0
               PROVE  bucket'.used <= Ceiling - OrderReserve + charged'["order"]
    BY DEF Band
  <2>1. /\ charged["wide"] \in Nat /\ charged["order"] \in Nat /\ charged'["order"] \in Nat
        /\ charged["wide"] = 0 /\ charged'["order"] >= charged["order"] /\ OrderReserve \in Nat
    BY SMT, <1>3 DEF Shape, Classes, ConfigAssumption
  <2>2. bucket.used <= Ceiling - OrderReserve + charged["order"] /\ bucket.used \in Nat
    BY <2>1 DEF Band, Shape, Bucket
  <2>3. Stored.used <= bucket.used /\ Stored.used \in Nat
    BY StoredShape DEF Bucket
  <2>4. CASE c \in Orders
    <3>1. charged'["order"] = charged["order"] + Cost[c]
      BY <1>3, <2>4 DEF Class
    <3> QED
      BY SMT, <1>1, <1>2, <1>7, <2>1, <2>2, <2>3, <3>1
  <2>5. CASE c \notin Orders /\ Cost[c] <= Ceiling - OrderReserve
    <3>1. AdmissionLimit(c) = Ceiling - OrderReserve
      BY SMT, <1>2, <2>1, <2>5 DEF AdmissionLimit
    <3> QED
      BY SMT, <1>1, <1>2, <1>5, <1>7, <2>1, <3>1
  <2>6. CASE c \notin Orders /\ Cost[c] > Ceiling - OrderReserve
    <3>1. charged'["wide"] = charged["wide"] + Cost[c] /\ Cost[c] > 0
      BY SMT, <1>2, <1>3, <2>1, <2>6 DEF Class, ConfigAssumption
    <3> QED
      BY SMT, <1>2, <2>1, <3>1
  <2> QED
    BY SMT, <1>2, <2>1, <2>4, <2>5, <2>6
<1> QED
  BY SMT, <1>1, <1>2, <1>3, <1>4, <1>5, <1>6, <1>7, <1>8, <1>9, <1>10, <1>11

\* A command on the wire, and the wire without its head.
LEMMA HeadOfWire ==
  ASSUME Shape, Fresh, ConfigAssumption, NEW p \in Pods, wire[p] # <<>>
  PROVE  /\ Head(wire[p]).call \in Calls /\ Head(wire[p]).at \in Nat
         /\ Head(wire[p]).at + MaxLag >= now /\ Head(wire[p]).at <= now + MaxSkew
<1>1. wire[p] \in Seq(Command) /\ Len(wire[p]) >= 1
  BY SMT DEF Shape
<1>2. Head(wire[p]) = wire[p][1] /\ wire[p][1] \in Command
  BY SMT, <1>1
<1>3. Skew[p] \in Nat /\ Skew[p] <= MaxSkew /\ MaxSkew \in Nat /\ MaxLag \in Nat /\ now \in Nat
  BY SMT DEF ConfigAssumption, Shape
<1>4. /\ wire[p][1].at - Skew[p] + MaxLag >= now
      /\ wire[p][1].at - Skew[p] <= now
  <2>1. 1 \in 1 .. Len(wire[p])
    BY SMT, <1>1
  <2> QED
    BY <2>1 DEF Fresh
<1>5. wire[p][1].call \in Calls /\ wire[p][1].at \in Nat
  BY <1>2 DEF Command
<1>6. wire[p][1].at + MaxLag >= now /\ wire[p][1].at <= now + MaxSkew
  BY <1>3, <1>4, <1>5, FlightTime
<1> QED
  BY <1>2, <1>5, <1>6

\* A pod's first command leaves the wire.
LEMMA TailOfWire ==
  ASSUME Shape, Fresh, NEW p \in Pods, wire[p] # <<>>, now' = now,
         wire' = [wire EXCEPT ![p] = Tail(@)]
  PROVE  wire' \in [Pods -> Seq(Command)] /\ Fresh'
<1>1. wire[p] \in Seq(Command)
  BY DEF Shape
<1>2. Tail(wire[p]) \in Seq(Command) /\ Len(Tail(wire[p])) = Len(wire[p]) - 1
  BY SMT, <1>1
<1>3. \A i \in 1 .. Len(Tail(wire[p])) : i + 1 \in 1 .. Len(wire[p]) /\ Tail(wire[p])[i] = wire[p][i + 1]
  BY SMT, <1>1, <1>2
<1>4. wire' \in [Pods -> Seq(Command)]
  BY <1>2 DEF Shape
<1>5. wire'[p] = Tail(wire[p]) /\ \A q \in Pods \ {p} : wire'[q] = wire[q]
  BY DEF Shape
<1>6. ASSUME NEW i \in 1 .. Len(wire'[p])
      PROVE  /\ wire'[p][i].at - Skew[p] + MaxLag >= now'
             /\ wire'[p][i].at - Skew[p] <= now'
  BY SMT, <1>3, <1>5, <1>6 DEF Fresh
<1>7. ASSUME NEW q \in Pods \ {p}, NEW i \in 1 .. Len(wire'[q])
      PROVE  /\ wire'[q][i].at - Skew[q] + MaxLag >= now'
             /\ wire'[q][i].at - Skew[q] <= now'
  BY <1>5, <1>7 DEF Fresh
<1> QED
  BY <1>4, <1>6, <1>7 DEF Fresh

\* A step that puts no order to sleep and only adds charges keeps the promise
\* made to the ones asleep.
LEMMA NobodyPutToSleep ==
  ASSUME IInv, ConfigAssumption, charged' \in [Classes -> Nat],
         \A k \in Classes : charged'[k] >= charged[k],
         \A c \in Calls : phase'[c] = "asleep" => phase[c] = "asleep"
  PROVE  OrdersAheadOfBulk'
<1> SUFFICES ASSUME NEW c \in Orders, phase'[c] = "asleep"
             PROVE  charged'["wide"] > 0 \/ charged'["order"] + Cost[c] > OrderReserve
  BY DEF OrdersAheadOfBulk
<1>1. c \in Calls /\ Cost[c] \in Nat /\ OrderReserve \in Nat
  BY DEF ConfigAssumption
<1>2. charged["wide"] > 0 \/ charged["order"] + Cost[c] > OrderReserve
  BY <1>1 DEF IInv, OrdersAheadOfBulk
<1>3. /\ charged["wide"] \in Nat /\ charged["order"] \in Nat
      /\ charged'["wide"] \in Nat /\ charged'["order"] \in Nat
      /\ charged'["wide"] >= charged["wide"] /\ charged'["order"] >= charged["order"]
  BY DEF IInv, Shape, Classes
<1> QED
  BY SMT, <1>1, <1>2, <1>3

\* A step that leaves the bucket alone.
LEMMA BucketAlone ==
  ASSUME IInv, UNCHANGED <<now, bucket, charged, regress>>
  PROVE  Lifetime' /\ Account' /\ Band' /\ charged' \in [Classes -> Nat]
         /\ \A k \in Classes : charged'[k] >= charged[k]
<1>1. Lifetime' /\ Account' /\ Band'
  BY DEF IInv, Lifetime, Account, Charged, Band
<1>2. \A k \in Classes : charged[k] \in Nat
  BY DEF IInv, Shape
<1> QED
  BY SMT, <1>1, <1>2 DEF IInv, Shape

\* The invariant holds at the start.
LEMMA InitIInv == ASSUME ConfigAssumption, Init PROVE IInv
<1> USE DEF Init
<1>1. Ceiling \in Nat /\ OrderReserve \in Nat /\ OrderReserve < Ceiling /\ MaxSkew \in Nat
      /\ Refill \in Nat
  BY SMT DEF ConfigAssumption
<1>2. Shape
  <2>1. wire \in [Pods -> Seq(Command)]
    BY SMT DEF Command
  <2> QED
    BY SMT, <1>1, <2>1 DEF Shape, Missing, Bucket, Phases, Settled, Classes
<1>3. Fresh /\ OrdersAheadOfBulk
  BY SMT DEF Fresh, OrdersAheadOfBulk, ConfigAssumption
<1>4. Lifetime /\ Account /\ Band
  BY SMT, <1>1 DEF Lifetime, Account, Band, Charged, Missing
<1> QED
  BY <1>2, <1>3, <1>4 DEF IInv

\* A call sends its command.
LEMMA SendKeeps ==
  ASSUME IInv, ConfigAssumption, NEW c \in Calls, Send(c)
  PROVE  IInv'
<1> USE DEF IInv, Send
<1> DEFINE p == PodOf[c]
           e == [call |-> c, at |-> now + Skew[p]]
<1>1. p \in Pods /\ Skew[p] \in Nat /\ MaxLag \in Nat /\ now \in Nat
  BY SMT DEF ConfigAssumption, Shape
<1>2. e \in Command /\ wire[p] \in Seq(Command)
  BY SMT, <1>1 DEF Command, Shape
<1>3. wire' \in [Pods -> Seq(Command)] /\ wire'[p] = Append(wire[p], e)
      /\ \A q \in Pods \ {p} : wire'[q] = wire[q]
  BY SMT, <1>1, <1>2 DEF Shape
<1>4. \A i \in 1 .. Len(wire'[p]) : wire'[p][i] = e \/ (i \in 1 .. Len(wire[p]) /\ wire'[p][i] = wire[p][i])
  BY SMT, <1>2, <1>3
<1>5. ASSUME NEW i \in 1 .. Len(wire'[p])
      PROVE  /\ wire'[p][i].at - Skew[p] + MaxLag >= now'
             /\ wire'[p][i].at - Skew[p] <= now'
  <2>1. CASE wire'[p][i] = e
    <3>1. e.at = now + Skew[p] /\ now' = now
      OBVIOUS
    <3>2. e.at - Skew[p] + MaxLag >= now' /\ e.at - Skew[p] <= now'
      <4> HIDE DEF e, p, IInv, Send
      <4> QED
        BY SMT, <1>1, <3>1
    <3> HIDE DEF e, p, IInv, Send
    <3> QED
      BY <2>1, <3>2
  <2>2. CASE i \in 1 .. Len(wire[p]) /\ wire'[p][i] = wire[p][i]
    BY <1>1, <2>2 DEF Fresh
  <2> QED
    BY <1>4, <2>1, <2>2
<1>6. Fresh'
  <2>1. now' = now
    BY DEF Send
  <2>2. ASSUME NEW q \in Pods, NEW i \in 1 .. Len(wire'[q])
        PROVE  /\ wire'[q][i].at - Skew[q] + MaxLag >= now'
               /\ wire'[q][i].at - Skew[q] <= now'
    <3>1. CASE q = p
      BY <1>5, <3>1
    <3>2. CASE q # p
      <4>1. wire'[q] = wire[q]
        BY <1>3, <3>2
      <4> QED
        BY <2>1, <4>1 DEF Fresh
    <3> QED
      BY <3>1, <3>2
  <2> QED
    BY <2>2 DEF Fresh
<1>7. phase' \in [Calls -> Phases] /\ \A d \in Calls : phase'[d] = "asleep" => phase[d] = "asleep"
  BY DEF Shape, Phases
<1>8. Lifetime' /\ Account' /\ Band' /\ OrdersAheadOfBulk'
  BY <1>7, BucketAlone, NobodyPutToSleep
<1> QED
  BY <1>3, <1>6, <1>7, <1>8 DEF Shape

\* Redis evaluates the script.
LEMMA EvalKeeps ==
  ASSUME IInv, ConfigAssumption, NEW p \in Pods, Eval(p)
  PROVE  IInv'
<1> DEFINE c == Head(wire[p]).call
           at == Head(wire[p]).at
<1> USE DEF IInv
<1>1. wire[p] # <<>> /\ now' = now /\ wire' = [wire EXCEPT ![p] = Tail(@)]
  BY DEF Eval
<1>2. c \in Calls /\ at \in Nat /\ at + MaxLag >= now /\ at <= now + MaxSkew
  BY <1>1, HeadOfWire
<1>3. wire' \in [Pods -> Seq(Command)] /\ Fresh'
  BY <1>1, TailOfWire
<1>4. now' \in Nat
  BY <1>1 DEF Shape
<1>5. CASE Admits(c, at)
  <2>1. Charge(c, at) /\ phase' = [phase EXCEPT ![c] = IF phase[c] = "eval" THEN "admitted" ELSE @]
    BY <1>5 DEF Eval
  <2>2. /\ bucket' \in Bucket /\ bucket'.used <= Ceiling
        /\ charged' \in [Classes -> Nat] /\ regress' \in Nat
        /\ \A k \in Classes : charged'[k] >= charged[k]
        /\ Lifetime' /\ Account' /\ Band'
    BY <1>1, <1>2, <1>5, <2>1, ChargeKeeps
  <2>3. phase' \in [Calls -> Phases] /\ \A d \in Calls : phase'[d] = "asleep" => phase[d] = "asleep"
    BY <1>2, <2>1 DEF Shape, Phases, Settled
  <2>4. OrdersAheadOfBulk'
    BY <2>2, <2>3, NobodyPutToSleep
  <2> QED
    BY <1>3, <1>4, <2>2, <2>3, <2>4 DEF Shape
<1>6. CASE ~Admits(c, at)
  <2>1. /\ UNCHANGED <<now, bucket, charged, regress>>
        /\ phase' = [phase EXCEPT ![c] = IF phase[c] = "eval" THEN "asleep" ELSE @]
    BY <1>1, <1>6 DEF Eval
  <2>2. Lifetime' /\ Account' /\ Band'
    BY <2>1, BucketAlone
  <2>3. phase' \in [Calls -> Phases] /\ \A d \in Calls \ {c} : phase'[d] = phase[d]
    BY <1>2, <2>1 DEF Shape, Phases
  <2>4. ASSUME c \in Orders
        PROVE  charged["wide"] > 0 \/ charged["order"] + Cost[c] > OrderReserve
    <3>2. Decayed(at) <= bucket.used /\ Decayed(at) \in Nat
      <4>1. Decayed(at) \in Nat /\ Decayed(at) <= Stored.used
        BY <1>2, DecayBounds
      <4>2. Stored.used <= bucket.used /\ Stored.used \in Nat
        BY StoredShape DEF Bucket
      <4>3. bucket.used \in Nat
        BY DEF Shape, Bucket
      <4> QED
        BY SMT, <4>1, <4>2, <4>3
    <3>3. charged["wide"] \in Nat /\ charged["order"] \in Nat /\ bucket.used \in Nat
      BY DEF Shape, Classes, Bucket
    <3>4. Cost[c] \in Nat /\ Ceiling \in Nat /\ OrderReserve \in Nat
      BY <1>2, CostNat DEF ConfigAssumption
    <3>1. Decayed(at) + Cost[c] > Ceiling
      BY SMT, <1>6, <2>4, <3>2, <3>4 DEF Admits, AdmissionLimit
    <3>5. charged["wide"] = 0 => bucket.used <= Ceiling - OrderReserve + charged["order"]
      BY DEF Band
    <3> QED
      BY SMT, <3>1, <3>2, <3>3, <3>4, <3>5
  <2>5. OrdersAheadOfBulk'
    BY <2>1, <2>3, <2>4 DEF OrdersAheadOfBulk, ConfigAssumption
  <2> QED
    BY <1>3, <1>4, <2>1, <2>2, <2>3, <2>5 DEF Shape
<1> QED
  BY <1>5, <1>6

\* The script runs and its reply is lost: the command stays on the wire.
LEMMA ResendKeeps ==
  ASSUME IInv, ConfigAssumption, NEW p \in Pods, EvalResent(p)
  PROVE  IInv'
<1> DEFINE c == Head(wire[p]).call
           at == Head(wire[p]).at
<1> USE DEF IInv
<1>1. wire[p] # <<>> /\ UNCHANGED <<now, wire, phase>> /\ Admits(c, at) /\ Charge(c, at)
  BY DEF EvalResent
<1>2. c \in Calls /\ at \in Nat /\ at + MaxLag >= now /\ at <= now + MaxSkew
  BY <1>1, HeadOfWire
<1>3. /\ bucket' \in Bucket /\ bucket'.used <= Ceiling
      /\ charged' \in [Classes -> Nat] /\ regress' \in Nat
      /\ \A k \in Classes : charged'[k] >= charged[k]
      /\ Lifetime' /\ Account' /\ Band'
  BY <1>1, <1>2, ChargeKeeps
<1>4. OrdersAheadOfBulk'
  BY <1>1, <1>3, NobodyPutToSleep
<1>5. Fresh'
  BY <1>1 DEF Fresh
<1> QED
  BY <1>1, <1>3, <1>4, <1>5 DEF Shape

\* The client gives a command up.
LEMMA LoseKeeps ==
  ASSUME IInv, ConfigAssumption, NEW p \in Pods, Lose(p)
  PROVE  IInv'
<1> USE DEF IInv
<1>1. /\ wire[p] # <<>> /\ wire' = [wire EXCEPT ![p] = Tail(@)]
      /\ UNCHANGED <<now, bucket, phase, charged, regress>>
  BY DEF Lose
<1>2. wire' \in [Pods -> Seq(Command)] /\ Fresh'
  BY <1>1, TailOfWire
<1>3. Lifetime' /\ Account' /\ Band' /\ OrdersAheadOfBulk'
  BY <1>1, BucketAlone, NobodyPutToSleep
<1> QED
  BY <1>1, <1>2, <1>3 DEF Shape

\* A caller that leaves the bucket for the backstop, or gives up.
LEMMA LeavesKeep ==
  ASSUME IInv, ConfigAssumption, NEW c \in Calls, NEW x \in Phases \ {"asleep"},
         phase' = [phase EXCEPT ![c] = x],
         UNCHANGED <<now, bucket, wire, charged, regress>>
  PROVE  IInv'
<1> USE DEF IInv
<1>1. phase' \in [Calls -> Phases] /\ \A d \in Calls : phase'[d] = "asleep" => phase[d] = "asleep"
  BY DEF Shape
<1>2. Lifetime' /\ Account' /\ Band' /\ OrdersAheadOfBulk'
  BY <1>1, BucketAlone, NobodyPutToSleep
<1>3. Fresh'
  BY DEF Fresh
<1> QED
  BY <1>1, <1>2, <1>3 DEF Shape

\* The instant in a command is a natural.
LEMMA AtNat ==
  ASSUME Shape, NEW p \in Pods, NEW i \in 1 .. Len(wire[p])
  PROVE  wire[p][i].at \in Nat
<1>1. wire[p] \in Seq(Command)
  BY DEF Shape
<1>2. wire[p][i] \in Command
  BY SMT, <1>1
<1> QED
  BY <1>2 DEF Command

\* The clock moves.
LEMMA TickKeeps == ASSUME IInv, ConfigAssumption, Tick PROVE IInv'
<1> USE DEF IInv, Tick
<1>1. now \in Nat /\ now' = now + 1 /\ MaxSkew \in Nat /\ MaxLag \in Nat
  BY DEF Shape, ConfigAssumption
<1>2. ASSUME NEW p \in Pods, NEW i \in 1 .. Len(wire[p])
      PROVE  /\ wire[p][i].at - Skew[p] + MaxLag >= now'
             /\ wire[p][i].at - Skew[p] <= now'
  <2>1. Skew[p] \in Nat
    <3> HIDE DEF IInv, Tick
    <3> QED
      BY SMT DEF ConfigAssumption
  <2>2. wire[p][i].at \in Nat
    BY AtNat
  <2>3. wire[p][i].at - Skew[p] + MaxLag > now /\ wire[p][i].at - Skew[p] <= now
    BY DEF Fresh
  <2> DEFINE at == wire[p][i].at
  <2>4. at \in Nat /\ at - Skew[p] + MaxLag > now /\ at - Skew[p] <= now
    BY <2>2, <2>3
  <2> HIDE DEF at, IInv, Tick
  <2>5. at - Skew[p] + MaxLag >= now' /\ at - Skew[p] <= now'
    BY SMT, <1>1, <2>1, <2>4
  <2> QED
    BY <2>5 DEF at
<1>3. Fresh'
  BY <1>2 DEF Fresh
<1>4. Lifetime'
  <2>1. bucket.ts \in Nat /\ bucket.ts <= now + MaxSkew
    BY DEF Lifetime, Shape, Bucket
  <2>2. bucket.ts <= now' + MaxSkew
    BY SMT, <1>1, <2>1
  <2> QED
    BY <2>2 DEF Lifetime
<1>5. Account' /\ Band' /\ OrdersAheadOfBulk'
  BY DEF Account, Charged, Band, OrdersAheadOfBulk
<1>6. Shape'
  <2>1. now' \in Nat
    BY SMT, <1>1
  <2> QED
    BY <2>1 DEF Shape
<1> QED
  BY <1>3, <1>4, <1>5, <1>6

\* A call falls back on the pod's own limiter.
LEMMA BackstopKeeps ==
  ASSUME IInv, ConfigAssumption, NEW c \in Calls, Backstop(c),
         UNCHANGED <<now, bucket, wire, charged, regress>>
  PROVE  IInv'
<1>1. phase' = [phase EXCEPT ![c] = "local"] \/ phase' = [phase EXCEPT ![c] = "parked"]
  BY DEF Backstop
<1> QED
  BY <1>1, LeavesKeep DEF Phases, Settled

\* The invariant is inductive: one step per action.
LEMMA NextKeeps == ASSUME ConfigAssumption, IInv, [Next]_vars PROVE IInv'
<1>1. CASE Tick
  BY <1>1, TickKeeps
<1>2. ASSUME NEW c \in Calls, Reserve(c) \/ Retry(c)
      PROVE  IInv'
  BY <1>2, SendKeeps DEF Reserve, Retry
<1>3. ASSUME NEW c \in Calls, TimedOut(c)
      PROVE  IInv'
  <2>1. CASE c \in Orders
    BY <1>3, <2>1, BackstopKeeps DEF TimedOut
  <2>2. CASE c \notin Orders
    BY <1>3, <2>2, LeavesKeep DEF TimedOut, Phases, Settled
  <2> QED
    BY <2>1, <2>2
<1>4. ASSUME NEW c \in Calls, Unpark(c)
      PROVE  IInv'
  BY <1>4, BackstopKeeps DEF Unpark
<1>5. ASSUME NEW c \in Calls, Abort(c)
      PROVE  IInv'
  BY <1>5, LeavesKeep DEF Abort, Phases, Settled
<1>6. ASSUME NEW p \in Pods, Eval(p)
      PROVE  IInv'
  BY <1>6, EvalKeeps
<1>7. ASSUME NEW p \in Pods, EvalResent(p)
      PROVE  IInv'
  BY <1>7, ResendKeeps
<1>8. ASSUME NEW p \in Pods, Lose(p)
      PROVE  IInv'
  BY <1>8, LoseKeeps
<1>9. CASE UNCHANGED vars
  BY <1>9 DEF vars, IInv, Shape, Fresh, Lifetime, Account, Charged, Band, OrdersAheadOfBulk
<1> QED
  BY <1>1, <1>2, <1>3, <1>4, <1>5, <1>6, <1>7, <1>8, <1>9 DEF Next, Progress

\* The invariant always holds.
LEMMA Inductive == Spec => []IInv
<1>1. Init => IInv
  BY InitIInv, ConfigAssumption
<1>2. IInv /\ [Next]_vars => IInv'
  BY NextKeeps, ConfigAssumption
<1> QED
  BY <1>1, <1>2, PTL DEF Spec

\* BUCKET_LUA: since the bucket was empty the script has let through at most
\* one ceiling plus the refill of the time elapsed, of the clocks' lead and of
\* the intervals a late clock reading made it count twice.
THEOREM BucketNeverOverfills == Spec => []BucketBound
<1>1. IInv => BucketBound
  <2> SUFFICES ASSUME IInv PROVE BucketBound
    OBVIOUS
  <2>1. /\ bucket.used \in Nat /\ bucket.ts \in Nat /\ regress \in Nat /\ now \in Nat
        /\ bucket.used <= Ceiling /\ bucket.ts <= now + MaxSkew
    BY DEF IInv, Shape, Bucket, Lifetime
  <2>2. Refill \in Nat /\ MaxSkew \in Nat /\ Ceiling \in Int
    BY SMT, ConfigAssumption DEF ConfigAssumption
  <2>3. Refill * (bucket.ts + regress) <= Refill * (now + MaxSkew + regress)
    <3>1. bucket.ts + regress <= now + MaxSkew + regress
      BY SMT, <2>1, <2>2
    <3> QED
      BY SMT, <2>1, <2>2, <3>1, TimesMonotone
  <2>4. Refill * (bucket.ts + regress) \in Int /\ Refill * (now + MaxSkew + regress) \in Int
    BY SMT, <2>1, <2>2
  <2>5. Charged <= bucket.used + Refill * (bucket.ts + regress) /\ Charged \in Nat
    BY SMT DEF IInv, Account, Charged, Shape, Classes
  <2> QED
    BY SMT, <2>1, <2>2, <2>3, <2>4, <2>5 DEF BucketBound
<1> QED
  BY <1>1, Inductive, PTL

\* computeAdmissionLimit: bulk reads never keep an order waiting unless one of
\* them is wider than what the band leaves.
THEOREM BandHolds == Spec => []OrdersAheadOfBulk
<1>1. IInv => OrdersAheadOfBulk
  BY DEF IInv
<1> QED
  BY <1>1, Inductive, PTL

-----------------------------------------------------------------------------
(* One pod: its connection keeps its clock readings in order. *)

Alone == \A p, q \in Pods : p = q

\* The readings still to come are no earlier than the one stored.
Ordered ==
  /\ regress = 0
  /\ \A p \in Pods :
       /\ bucket.ts <= now + Skew[p]
       /\ \A i \in 1 .. Len(wire[p]) : bucket.ts <= wire[p][i].at
       /\ \A i, j \in 1 .. Len(wire[p]) : i <= j => wire[p][i].at <= wire[p][j].at

\* A command joins the wire behind the older ones.
LEMMA SendOrdered ==
  ASSUME IInv, ConfigAssumption, Alone, Ordered, NEW c \in Calls, Send(c)
  PROVE  Ordered'
<1> DEFINE p == PodOf[c]
           e == [call |-> c, at |-> now + Skew[p]]
<1>1. p \in Pods /\ Pods = {p} /\ Skew[p] \in Nat /\ now \in Nat
  BY SMT DEF ConfigAssumption, IInv, Shape, Alone
<1>2. wire[p] \in Seq(Command) /\ wire'[p] = Append(wire[p], e)
      /\ UNCHANGED <<now, bucket, regress>>
  BY <1>1 DEF Send, IInv, Shape
<1>3. Len(wire'[p]) = Len(wire[p]) + 1 /\ Len(wire[p]) \in Nat
      /\ wire'[p][Len(wire[p]) + 1] = e
      /\ \A i \in 1 .. Len(wire[p]) : wire'[p][i] = wire[p][i]
  <2>1. e \in Command
    <3>1. now + Skew[p] \in Nat
      BY SMT, <1>1
    <3> QED
      BY <3>1 DEF Command
  <2> HIDE DEF e, p
  <2>2. Append(wire[p], e) \in Seq(Command) /\ Len(wire[p]) \in Nat
    BY SMT, <1>2, <2>1
  <2> QED
    BY SMT, <1>2, <2>1, <2>2
<1>4. \A i \in 1 .. Len(wire[p]) : wire[p][i].at <= now + Skew[p]
  <2> SUFFICES ASSUME NEW i \in 1 .. Len(wire[p])
               PROVE  wire[p][i].at <= now + Skew[p]
    OBVIOUS
  <2> HIDE DEF p
  <2>1. wire[p][i].at \in Nat
    BY <1>1, AtNat DEF IInv
  <2>2. wire[p][i].at - Skew[p] <= now
    BY <1>1 DEF IInv, Fresh
  <2> DEFINE at == wire[p][i].at
  <2>3. at \in Nat /\ at - Skew[p] <= now
    BY <2>1, <2>2
  <2> HIDE DEF at
  <2>4. at <= now + Skew[p]
    BY SMT, <1>1, <2>3
  <2> QED
    BY <2>4 DEF at
<1>5. e.at = now + Skew[p] /\ bucket.ts <= now + Skew[p]
  BY <1>1 DEF Ordered
<1> HIDE DEF e, p
<1>6. \A i \in 1 .. Len(wire'[p]) : bucket'.ts <= wire'[p][i].at
  <2> SUFFICES ASSUME NEW i \in 1 .. Len(wire'[p])
               PROVE  bucket.ts <= wire'[p][i].at
    BY <1>2
  <2>1. i \in 1 .. Len(wire[p]) \/ i = Len(wire[p]) + 1
    BY SMT, <1>3
  <2>2. CASE i \in 1 .. Len(wire[p])
    BY <1>1, <1>3, <2>2 DEF Ordered
  <2>3. CASE i = Len(wire[p]) + 1
    BY <1>3, <1>5, <2>3
  <2> QED
    BY <2>1, <2>2, <2>3
<1>7. \A i, j \in 1 .. Len(wire'[p]) : i <= j => wire'[p][i].at <= wire'[p][j].at
  <2> SUFFICES ASSUME NEW i \in 1 .. Len(wire'[p]), NEW j \in 1 .. Len(wire'[p]), i <= j
               PROVE  wire'[p][i].at <= wire'[p][j].at
    OBVIOUS
  <2>1. CASE j \in 1 .. Len(wire[p])
    <3>1. i \in 1 .. Len(wire[p])
      BY SMT, <1>3, <2>1
    <3>2. wire[p][i].at <= wire[p][j].at
      BY <1>1, <2>1, <3>1 DEF Ordered
    <3> QED
      BY <1>3, <2>1, <3>1, <3>2
  <2>2. CASE j = Len(wire[p]) + 1
    <3>1. CASE i = Len(wire[p]) + 1
      <4>1. wire'[p][i] = e /\ wire'[p][j] = e
        BY <1>3, <2>2, <3>1
      <4>2. now + Skew[p] \in Nat
        BY SMT, <1>1
      <4> QED
        BY SMT, <1>5, <4>1, <4>2
    <3>2. CASE i \in 1 .. Len(wire[p])
      <4>1. wire'[p][i] = wire[p][i] /\ wire'[p][j] = e
        BY <1>3, <2>2, <3>2
      <4> QED
        BY <1>4, <1>5, <3>2, <4>1
    <3>3. i \in 1 .. Len(wire[p]) \/ i = Len(wire[p]) + 1
      BY SMT, <1>3
    <3> QED
      BY <3>1, <3>2, <3>3
  <2>3. j \in 1 .. Len(wire[p]) \/ j = Len(wire[p]) + 1
    BY SMT, <1>3
  <2> QED
    BY <2>1, <2>2, <2>3
<1> QED
  BY <1>1, <1>2, <1>6, <1>7 DEF Ordered

\* The script runs p's next command, which stays on the wire if it is to be
\* sent again.
LEMMA ChargeOrdered ==
  ASSUME IInv, ConfigAssumption, Alone, Ordered, NEW p \in Pods, wire[p] # <<>>,
         Charge(Head(wire[p]).call, Head(wire[p]).at), now' = now,
         wire' = wire \/ wire' = [wire EXCEPT ![p] = Tail(@)]
  PROVE  Ordered'
<1> DEFINE at == Head(wire[p]).at
<1>1. Pods = {p} /\ wire \in [Pods -> Seq(Command)] /\ wire[p] \in Seq(Command)
  BY SMT DEF Alone, IInv, Shape
<1>2. Len(wire[p]) \in Nat /\ Len(wire[p]) >= 1 /\ Head(wire[p]) = wire[p][1]
  BY SMT, <1>1
<1>3. at \in Nat /\ at <= now + Skew[p] /\ now \in Nat /\ Skew[p] \in Nat
  <2>1. now \in Nat /\ Skew[p] \in Nat /\ MaxLag \in Nat
    BY SMT DEF IInv, Shape, ConfigAssumption
  <2>2. 1 \in 1 .. Len(wire[p])
    BY SMT, <1>2
  <2>3. at \in Nat
    BY <1>2, <2>2, AtNat DEF IInv
  <2>4. at - Skew[p] <= now
    BY <1>2, <2>2 DEF IInv, Fresh
  <2> HIDE DEF at
  <2> QED
    BY SMT, <2>1, <2>3, <2>4, FlightTime
<1>4. bucket.ts <= at
  BY SMT, <1>2 DEF Ordered
<1>5. regress' = 0 /\ bucket'.ts = at
  <2>1. Stored.ts \in Nat /\ Stored.ts <= at
    <3>1. Stored.ts \in Nat /\ (Stored.ts = bucket.ts \/ Stored.ts = 0)
      BY SMT, StoredShape DEF IInv, Missing, Bucket
    <3> HIDE DEF at
    <3> QED
      BY SMT, <1>3, <1>4, <3>1
  <2>2. Larger(0, Stored.ts - at) = 0
    <3> HIDE DEF at
    <3> QED
      BY SMT, <1>3, <2>1 DEF Larger
  <2>3. bucket'.ts = at /\ regress' = regress + Larger(0, Stored.ts - at)
    BY DEF Charge
  <2>4. regress = 0
    BY DEF Ordered
  <2> QED
    BY SMT, <2>2, <2>3, <2>4
<1>6. \A i \in 1 .. Len(wire[p]) : at <= wire[p][i].at
  <2> SUFFICES ASSUME NEW i \in 1 .. Len(wire[p]) PROVE at <= wire[p][i].at
    OBVIOUS
  <2>1. 1 \in 1 .. Len(wire[p]) /\ 1 <= i
    BY SMT, <1>2
  <2> QED
    BY <1>2, <2>1 DEF Ordered
<1> HIDE DEF at
<1>7. CASE wire' = wire
  <2>1. \A i \in 1 .. Len(wire'[p]) : bucket'.ts <= wire'[p][i].at
    BY <1>5, <1>6, <1>7
  <2>2. bucket'.ts <= now' + Skew[p]
    BY <1>3, <1>5
  <2> QED
    BY <1>1, <1>5, <1>7, <2>1, <2>2 DEF Ordered
<1>8. CASE wire' = [wire EXCEPT ![p] = Tail(@)]
  <2>1. wire'[p] = Tail(wire[p]) /\ Len(wire'[p]) = Len(wire[p]) - 1
    BY SMT, <1>1, <1>2, <1>8
  <2>2. \A i \in 1 .. Len(wire'[p]) : i + 1 \in 1 .. Len(wire[p]) /\ wire'[p][i] = wire[p][i + 1]
    BY SMT, <1>1, <1>2, <2>1
  <2>3. \A i \in 1 .. Len(wire'[p]) : bucket'.ts <= wire'[p][i].at
    BY <1>5, <1>6, <2>2
  <2>4. \A i, j \in 1 .. Len(wire'[p]) : i <= j => wire'[p][i].at <= wire'[p][j].at
    <3> SUFFICES ASSUME NEW i \in 1 .. Len(wire'[p]), NEW j \in 1 .. Len(wire'[p]), i <= j
                 PROVE  wire'[p][i].at <= wire'[p][j].at
      OBVIOUS
    <3>1. i + 1 <= j + 1 /\ i + 1 \in 1 .. Len(wire[p]) /\ j + 1 \in 1 .. Len(wire[p])
      BY SMT, <2>2
    <3>2. wire[p][i + 1].at <= wire[p][j + 1].at
      BY <3>1 DEF Ordered
    <3> QED
      BY <2>2, <3>2
  <2> QED
    BY <1>1, <1>3, <1>5, <2>3, <2>4 DEF Ordered
<1> QED
  BY <1>7, <1>8

\* A command leaves the wire without a charge.
LEMMA TailOrdered ==
  ASSUME IInv, Alone, Ordered, NEW p \in Pods, wire[p] # <<>>,
         UNCHANGED <<now, bucket, regress>>, wire' = [wire EXCEPT ![p] = Tail(@)]
  PROVE  Ordered'
<1>1. Pods = {p} /\ wire \in [Pods -> Seq(Command)] /\ wire[p] \in Seq(Command)
  BY DEF Alone, IInv, Shape
<1>2. wire'[p] = Tail(wire[p]) /\ Len(wire'[p]) = Len(wire[p]) - 1 /\ Len(wire[p]) \in Nat
  BY SMT, <1>1
<1>3. \A i \in 1 .. Len(wire'[p]) : i + 1 \in 1 .. Len(wire[p]) /\ wire'[p][i] = wire[p][i + 1]
  BY SMT, <1>1, <1>2
<1>4. \A i \in 1 .. Len(wire'[p]) : bucket'.ts <= wire'[p][i].at
  BY <1>3 DEF Ordered
<1>5. \A i, j \in 1 .. Len(wire'[p]) : i <= j => wire'[p][i].at <= wire'[p][j].at
  <2> SUFFICES ASSUME NEW i \in 1 .. Len(wire'[p]), NEW j \in 1 .. Len(wire'[p]), i <= j
               PROVE  wire'[p][i].at <= wire'[p][j].at
    OBVIOUS
  <2>1. i + 1 <= j + 1 /\ i + 1 \in 1 .. Len(wire[p]) /\ j + 1 \in 1 .. Len(wire[p])
    BY SMT, <1>3
  <2>2. wire[p][i + 1].at <= wire[p][j + 1].at
    BY <2>1 DEF Ordered
  <2> QED
    BY <1>3, <2>2
<1>6. regress' = 0 /\ \A q \in Pods : bucket'.ts <= now' + Skew[q]
  BY DEF Ordered
<1>7. ASSUME NEW q \in Pods
      PROVE  /\ \A i \in 1 .. Len(wire'[q]) : bucket'.ts <= wire'[q][i].at
             /\ \A i, j \in 1 .. Len(wire'[q]) : i <= j => wire'[q][i].at <= wire'[q][j].at
  <2>1. CASE q = p
    BY <1>4, <1>5, <2>1
  <2>2. CASE q # p
    BY <1>1, <2>2 DEF Ordered
  <2> QED
    BY <2>1, <2>2
<1> QED
  BY <1>6, <1>7 DEF Ordered

\* Every step keeps the order on the wire.
LEMMA NextOrdered ==
  ASSUME ConfigAssumption, Alone, IInv, Ordered, [Next]_vars
  PROVE  Ordered'
<1>1. ASSUME UNCHANGED <<bucket, wire, regress>>, now' = now \/ now' = now + 1
      PROVE  Ordered'
  <2>1. now \in Nat /\ bucket.ts \in Nat /\ \A p \in Pods : Skew[p] \in Nat
    BY SMT DEF IInv, Shape, Bucket, ConfigAssumption
  <2>2. \A p \in Pods : bucket'.ts <= now' + Skew[p]
    BY SMT, <1>1, <2>1 DEF Ordered
  <2> QED
    BY <1>1, <2>2 DEF Ordered
<1>2. CASE Tick
  BY <1>1, <1>2 DEF Tick
<1>3. ASSUME NEW c \in Calls, Reserve(c) \/ Retry(c)
      PROVE  Ordered'
  BY <1>3, SendOrdered DEF Reserve, Retry
<1>4. ASSUME NEW c \in Calls, TimedOut(c) \/ Unpark(c) \/ Abort(c)
      PROVE  Ordered'
  BY <1>1, <1>4 DEF TimedOut, Unpark, Abort
<1>5. ASSUME NEW p \in Pods, Eval(p)
      PROVE  Ordered'
  <2>1. wire[p] # <<>> /\ now' = now /\ wire' = [wire EXCEPT ![p] = Tail(@)]
    BY <1>5 DEF Eval
  <2>2. CASE Admits(Head(wire[p]).call, Head(wire[p]).at)
    BY <1>5, <2>1, <2>2, ChargeOrdered DEF Eval
  <2>3. CASE ~Admits(Head(wire[p]).call, Head(wire[p]).at)
    <3>1. UNCHANGED <<bucket, regress>>
      BY <1>5, <2>3 DEF Eval
    <3> QED
      BY <2>1, <3>1, TailOrdered
  <2> QED
    BY <2>2, <2>3
<1>6. ASSUME NEW p \in Pods, EvalResent(p)
      PROVE  Ordered'
  BY <1>6, ChargeOrdered DEF EvalResent
<1>7. ASSUME NEW p \in Pods, Lose(p)
      PROVE  Ordered'
  BY <1>7, TailOrdered DEF Lose
<1>8. CASE UNCHANGED vars
  BY <1>1, <1>8 DEF vars
<1> QED
  BY <1>2, <1>3, <1>4, <1>5, <1>6, <1>7, <1>8 DEF Next, Progress

\* BUCKET_LUA: with one pod `ts` never moves back, so the bound of
\* BucketNeverOverfills is the ceiling and the elapsed refill alone.
THEOREM OnePodBound == Spec => []OnePodNeverRegresses
<1>1. CASE Alone
  <2>1. Init => Ordered
    <3> SUFFICES ASSUME Init PROVE Ordered
      OBVIOUS
    <3>1. \A p \in Pods : Skew[p] \in Nat
      BY SMT, ConfigAssumption DEF ConfigAssumption
    <3>2. now = 0 /\ bucket.ts = 0 /\ regress = 0
      BY DEF Init, Missing
    <3>3. \A p \in Pods : Len(wire[p]) = 0
      BY DEF Init
    <3> QED
      BY SMT, <3>1, <3>2, <3>3 DEF Ordered
  <2>2. Ordered /\ IInv /\ [Next]_vars => Ordered'
    BY <1>1, NextOrdered, ConfigAssumption
  <2>3. Ordered => OnePodNeverRegresses
    BY DEF Ordered, OnePodNeverRegresses
  <2> QED
    BY <2>1, <2>2, <2>3, Inductive, PTL DEF Spec
<1>2. CASE ~Alone
  <2>1. OnePodNeverRegresses
    BY <1>2 DEF Alone, OnePodNeverRegresses
  <2> QED
    BY <2>1, PTL
<1> QED
  BY <1>1, <1>2
-----------------------------------------------------------------------------
(* Sums over finite sets: Total adds in the order in which CHOOSE picks.     *)

Pick(s) == CHOOSE x \in s : TRUE

\* g adds f up, over every set of D, by picking one element after the other.
Adds(f, D, g) ==
  g = [s \in D |-> IF s = {} THEN 0 ELSE f[Pick(s)] + g[s \ {Pick(s)}]]

Adder(f, S, g) == Adds(f, SUBSET S, g)

\* A non-empty set of natural numbers has a least element.
LEMMA LeastNat ==
  ASSUME NEW D, D \subseteq Nat, D # {}
  PROVE  \E d \in D : \A e \in D : d <= e
<1>1. PICK d \in D : \A e \in D : ~(<<e, d>> \in OpToRel(<, Nat))
  BY NatLessThanWellFounded, WFMin
<1>2. \A e \in D : <<e, d>> \in Nat \X Nat /\ <<e, d>>[1] = e /\ <<e, d>>[2] = d
  OBVIOUS
<1>3. \A e \in D : ~(e < d)
  BY <1>1, <1>2 DEF OpToRel
<1> QED
  BY SMT, <1>3

\* A finite set without the element picked from it is finite and one smaller.
LEMMA Picked ==
  ASSUME NEW S, IsFiniteSet(S), S # {}
  PROVE  /\ Pick(S) \in S
         /\ IsFiniteSet(S \ {Pick(S)})
         /\ Cardinality(S) \in Nat /\ Cardinality(S \ {Pick(S)}) \in Nat
         /\ Cardinality(S \ {Pick(S)}) = Cardinality(S) - 1
<1>1. Pick(S) \in S
  BY DEF Pick
<1>2. /\ IsFiniteSet(S \ {Pick(S)})
      /\ Cardinality(S \ {Pick(S)}) = IF Pick(S) \in S THEN Cardinality(S) - 1 ELSE Cardinality(S)
  BY FS_RemoveElement
<1>3. Cardinality(S) \in Nat /\ Cardinality(S \ {Pick(S)}) \in Nat
  BY <1>2, FS_CardinalityType
<1> QED
  BY <1>1, <1>2, <1>3

\* Such a g exists over the subsets of a finite set.
LEMMA AdderExists ==
  ASSUME NEW f, NEW S, IsFiniteSet(S)
  PROVE  \E g : Adder(f, S, g)
<1> DEFINE Upto(n) == {t \in SUBSET S : Cardinality(t) <= n}
           Bad == {n \in Nat : ~\E g : Adds(f, Upto(n), g)}
<1>0. \A t \in SUBSET S : IsFiniteSet(t) /\ Cardinality(t) \in Nat /\ Cardinality(t) <= Cardinality(S)
  BY FS_Subset, FS_CardinalityType
<1>1. Bad = {}
  <2> SUFFICES ASSUME Bad # {} PROVE FALSE
    OBVIOUS
  <2>1. PICK n \in Bad : \A e \in Bad : n <= e
    BY LeastNat
  <2>2. n \in Nat /\ ~\E g : Adds(f, Upto(n), g)
    OBVIOUS
  <2>3. CASE n = 0
    <3>1. \A t \in Upto(n) : t = {}
      <4> TAKE t \in Upto(n)
      <4>1. t \in SUBSET S /\ Cardinality(t) <= 0
        BY <2>3
      <4>2. IsFiniteSet(t) /\ Cardinality(t) = 0
        BY SMT, <1>0, <4>1
      <4> QED
        BY <4>2, FS_EmptySet
    <3> DEFINE g == [s \in Upto(n) |-> 0]
    <3> HIDE DEF Upto, Bad
    <3>2. Adds(f, Upto(n), g)
      BY <3>1 DEF Adds
    <3> QED
      BY <2>2, <3>2
  <2>4. CASE n # 0
    <3>1. n - 1 \in Nat /\ ~(n <= n - 1)
      BY SMT, <2>2, <2>4
    <3>2. n - 1 \notin Bad
      BY <2>1, <3>1
    <3>3. PICK g : Adds(f, Upto(n - 1), g)
      BY <3>1, <3>2
    <3> DEFINE h == [s \in Upto(n) |-> IF s = {} THEN 0 ELSE f[Pick(s)] + g[s \ {Pick(s)}]]
    <3>4. ASSUME NEW s \in Upto(n), s # {} PROVE s \ {Pick(s)} \in Upto(n - 1)
      <4>1. s \in SUBSET S /\ IsFiniteSet(s) /\ Cardinality(s) <= n
        BY <1>0
      <4>2. Cardinality(s) \in Nat /\ Cardinality(s \ {Pick(s)}) = Cardinality(s) - 1
        BY <3>4, <4>1, Picked
      <4>3. Cardinality(s \ {Pick(s)}) <= n - 1
        BY SMT, <2>2, <4>1, <4>2
      <4> QED
        BY <4>1, <4>3
    <3>5. \A t \in Upto(n - 1) : t \in Upto(n)
      <4> TAKE t \in Upto(n - 1)
      <4>1. t \in SUBSET S /\ Cardinality(t) <= n - 1
        OBVIOUS
      <4>2. Cardinality(t) <= n
        BY SMT, <1>0, <2>2, <4>1
      <4> QED
        BY <4>1, <4>2
    <3> HIDE DEF Upto, Bad
    <3>6. \A t \in Upto(n - 1) : h[t] = g[t]
      BY <3>3, <3>5 DEF Adds
    <3>7. h = [s \in Upto(n) |-> IF s = {} THEN 0 ELSE f[Pick(s)] + h[s \ {Pick(s)}]]
      <4> DEFINE k == [s \in Upto(n) |-> IF s = {} THEN 0 ELSE f[Pick(s)] + h[s \ {Pick(s)}]]
      <4>1. \A s \in Upto(n) : h[s] = k[s]
        <5> TAKE s \in Upto(n)
        <5>1. s # {} => h[s \ {Pick(s)}] = g[s \ {Pick(s)}]
          <6> HIDE DEF h
          <6> QED
            BY <3>4, <3>6
        <5> HIDE DEF k
        <5>2. h[s] = IF s = {} THEN 0 ELSE f[Pick(s)] + g[s \ {Pick(s)}]
          OBVIOUS
        <5> HIDE DEF h
        <5>3. k[s] = IF s = {} THEN 0 ELSE f[Pick(s)] + h[s \ {Pick(s)}]
          BY DEF k
        <5> QED
          BY <5>1, <5>2, <5>3
      <4> QED
        BY <4>1
    <3> HIDE DEF h
    <3> QED
      BY <2>2, <3>7 DEF Adds
  <2> QED
    BY <2>3, <2>4
<1>2. Cardinality(S) \in Nat
  BY FS_CardinalityType
<1>3. Upto(Cardinality(S)) = SUBSET S
  BY <1>0
<1> HIDE DEF Upto
<1>4. \E g : Adds(f, Upto(Cardinality(S)), g)
  BY <1>1, <1>2
<1> QED
  BY <1>3, <1>4 DEF Adder

\* Two such functions agree where both are defined.
LEMMA AdderUnique ==
  ASSUME NEW f, NEW R, NEW S, NEW g, NEW h, IsFiniteSet(R), R \subseteq S,
         Adder(f, R, g), Adder(f, S, h)
  PROVE  g[R] = h[R]
<1> DEFINE Bad == {n \in Nat : \E T \in SUBSET R : Cardinality(T) = n /\ g[T] # h[T]}
<1>0. \A t \in SUBSET R : IsFiniteSet(t) /\ Cardinality(t) \in Nat
  BY FS_Subset, FS_CardinalityType
<1>1. Bad = {}
  <2> SUFFICES ASSUME Bad # {} PROVE FALSE
    OBVIOUS
  <2>1. PICK n \in Bad : \A e \in Bad : n <= e
    BY LeastNat
  <2>2. PICK T \in SUBSET R : Cardinality(T) = n /\ g[T] # h[T]
    OBVIOUS
  <2> DEFINE P == T \ {Pick(T)}
  <2>3. /\ g[T] = IF T = {} THEN 0 ELSE f[Pick(T)] + g[P]
        /\ h[T] = IF T = {} THEN 0 ELSE f[Pick(T)] + h[P]
    BY DEF Adder, Adds
  <2>4. T # {} /\ g[P] # h[P]
    BY <2>2, <2>3
  <2>5. P \in SUBSET R /\ Cardinality(P) \in Nat /\ Cardinality(P) = n - 1 /\ n \in Nat
    BY <1>0, <2>2, <2>4, Picked
  <2>6. Cardinality(P) \in Bad
    BY <2>4, <2>5
  <2>7. n <= Cardinality(P)
    BY <2>1, <2>6
  <2> HIDE DEF P, Bad
  <2> QED
    BY SMT, <2>5, <2>7
<1> QED
  BY <1>0, <1>1

\* A total is the value of the sum function that the definition chooses.
LEMMA TotalIs ==
  ASSUME NEW f, NEW S
  PROVE  Total(f, S) = (CHOOSE g : Adder(f, S, g))[S]
  BY DEF Total, MapThenSumSet, MapThenFoldSet, Adder, Adds, Pick

\* Every such g holds the sums of all the subsets.
LEMMA AdderTotals ==
  ASSUME NEW f, NEW R, NEW S, NEW h, IsFiniteSet(S), R \subseteq S, Adder(f, S, h)
  PROVE  Total(f, R) = h[R]
<1>1. IsFiniteSet(R)
  BY FS_Subset
<1>2. ASSUME NEW g, Adder(f, R, g) PROVE g[R] = h[R]
  BY <1>1, <1>2, AdderUnique
<1>3. \E g : Adder(f, R, g)
  BY <1>1, AdderExists
<1>4. Adder(f, R, CHOOSE g : Adder(f, R, g))
  BY <1>3
<1> QED
  BY <1>2, <1>4, TotalIs

\* A sum is one element and the sum of the rest.
LEMMA TotalPick ==
  ASSUME NEW f, NEW S, IsFiniteSet(S)
  PROVE  Total(f, S) = IF S = {} THEN 0 ELSE f[Pick(S)] + Total(f, S \ {Pick(S)})
<1>1. PICK h : Adder(f, S, h)
  BY AdderExists
<1>2. S \ {Pick(S)} \subseteq S
  OBVIOUS
<1>3. Total(f, S) = h[S] /\ Total(f, S \ {Pick(S)}) = h[S \ {Pick(S)}]
  BY <1>1, <1>2, AdderTotals
<1>4. h[S] = IF S = {} THEN 0 ELSE f[Pick(S)] + h[S \ {Pick(S)}]
  BY <1>1 DEF Adder, Adds
<1> QED
  BY <1>3, <1>4

\* A sum of natural numbers is one.
LEMMA TotalNat ==
  ASSUME NEW D, NEW f \in [D -> Nat], NEW S, IsFiniteSet(S), S \subseteq D
  PROVE  Total(f, S) \in Nat
<1> DEFINE Bad == {n \in Nat : \E T \in SUBSET S : Cardinality(T) = n /\ Total(f, T) \notin Nat}
<1>0. \A t \in SUBSET S : IsFiniteSet(t) /\ Cardinality(t) \in Nat
  BY FS_Subset, FS_CardinalityType
<1>1. Bad = {}
  <2> SUFFICES ASSUME Bad # {} PROVE FALSE
    OBVIOUS
  <2>1. PICK n \in Bad : \A e \in Bad : n <= e
    BY LeastNat
  <2>2. PICK T \in SUBSET S : Cardinality(T) = n /\ Total(f, T) \notin Nat
    OBVIOUS
  <2> DEFINE P == T \ {Pick(T)}
  <2>3. Total(f, T) = IF T = {} THEN 0 ELSE f[Pick(T)] + Total(f, P)
    BY <1>0, TotalPick
  <2>4. T # {}
    BY SMT, <2>2, <2>3
  <2>5. /\ Pick(T) \in T /\ P \in SUBSET S
        /\ Cardinality(P) \in Nat /\ Cardinality(P) = n - 1 /\ n \in Nat
    BY <1>0, <2>2, <2>4, Picked
  <2>6. f[Pick(T)] \in Nat
    BY <2>5
  <2>7. Total(f, P) \notin Nat
    BY SMT, <2>2, <2>3, <2>4, <2>6
  <2>8. n <= Cardinality(P)
    BY <2>1, <2>5, <2>7
  <2> HIDE DEF P, Bad
  <2> QED
    BY SMT, <2>5, <2>8
<1> QED
  BY <1>0, <1>1

\* The order of the addition does not matter: any element can be taken first.
LEMMA TotalAdd ==
  ASSUME NEW D, NEW f \in [D -> Nat], NEW S, NEW x \in S, IsFiniteSet(S), S \subseteq D
  PROVE  Total(f, S) = f[x] + Total(f, S \ {x})
<1> DEFINE Holds(T) == \A y \in T : Total(f, T) = f[y] + Total(f, T \ {y})
           Bad == {n \in Nat : \E T \in SUBSET S : Cardinality(T) = n /\ ~Holds(T)}
<1>0. \A t \in SUBSET S : IsFiniteSet(t) /\ Cardinality(t) \in Nat /\ Total(f, t) \in Nat
  BY FS_Subset, FS_CardinalityType, TotalNat
<1>1. Bad = {}
  <2> SUFFICES ASSUME Bad # {} PROVE FALSE
    OBVIOUS
  <2>1. PICK n \in Bad : \A e \in Bad : n <= e
    BY LeastNat
  <2>2. PICK T \in SUBSET S : Cardinality(T) = n /\ ~Holds(T)
    OBVIOUS
  <2>3. PICK y \in T : Total(f, T) # f[y] + Total(f, T \ {y})
    BY <2>2
  <2> DEFINE q == Pick(T)
             P == T \ {q}
             Q == T \ {y}
             R == Q \ {q}
  <2>4. /\ q \in T /\ P \in SUBSET S /\ Total(f, T) = f[q] + Total(f, P)
        /\ Cardinality(P) \in Nat /\ Cardinality(P) = n - 1 /\ n \in Nat
    BY <1>0, <2>2, <2>3, Picked, TotalPick
  <2>5. q # y
    BY <2>3, <2>4
  <2>6. Q \in SUBSET S /\ Cardinality(Q) \in Nat /\ Cardinality(Q) = n - 1
    BY <1>0, <2>2, <2>3, FS_RemoveElement
  <2>7. R \in SUBSET S /\ P \ {y} = R /\ y \in P /\ q \in Q
    BY <2>3, <2>4, <2>5, <2>6
  <2>8. ~(n <= n - 1)
    BY SMT, <2>4
  <2>9. Holds(P) /\ Holds(Q)
    BY <2>1, <2>4, <2>6, <2>8
  <2>10. Total(f, P) = f[y] + Total(f, R) /\ Total(f, Q) = f[q] + Total(f, R)
    BY <2>7, <2>9
  <2>11. f[y] \in Nat /\ f[q] \in Nat /\ Total(f, R) \in Nat
    BY <1>0, <2>3, <2>4, <2>7
  <2>12. Total(f, T) # f[y] + Total(f, Q) /\ Total(f, T) = f[q] + Total(f, P)
    BY <2>3, <2>4
  <2> HIDE DEF q, P, Q, R, Bad
  <2> QED
    BY SMT, <2>10, <2>11, <2>12
<1> QED
  BY <1>0, <1>1

\* A part sums to no more than the whole.
LEMMA TotalPart ==
  ASSUME NEW D, NEW f \in [D -> Nat], NEW S, NEW R \in SUBSET S, IsFiniteSet(S), S \subseteq D
  PROVE  Total(f, R) <= Total(f, S)
<1> DEFINE Bad == {n \in Nat : \E T \in SUBSET S :
                     Cardinality(T) = n /\ R \subseteq T /\ ~(Total(f, R) <= Total(f, T))}
<1>0. \A t \in SUBSET S : IsFiniteSet(t) /\ Cardinality(t) \in Nat /\ Total(f, t) \in Nat
  BY FS_Subset, FS_CardinalityType, TotalNat
<1>1. Bad = {}
  <2> SUFFICES ASSUME Bad # {} PROVE FALSE
    OBVIOUS
  <2>1. PICK n \in Bad : \A e \in Bad : n <= e
    BY LeastNat
  <2>2. PICK T \in SUBSET S :
          Cardinality(T) = n /\ R \subseteq T /\ ~(Total(f, R) <= Total(f, T))
    OBVIOUS
  <2>3. CASE T = R
    <3>1. Total(f, R) <= Total(f, R)
      BY SMT, <1>0
    <3> QED
      BY <2>2, <2>3, <3>1
  <2>4. CASE T # R
    <3>1. PICK y \in T : y \notin R
      BY <2>2, <2>4
    <3> DEFINE P == T \ {y}
    <3>2. P \in SUBSET S /\ R \subseteq P
      BY <2>2, <3>1
    <3>3. Cardinality(P) \in Nat /\ Cardinality(P) = n - 1 /\ n \in Nat
      BY <1>0, <2>2, <3>1, <3>2, FS_RemoveElement
    <3>4. Total(f, T) = f[y] + Total(f, P) /\ f[y] \in Nat
      <4>1. IsFiniteSet(T) /\ T \subseteq D /\ y \in D
        BY <1>0
      <4>2. Total(f, T) = f[y] + Total(f, P)
        BY SMT, <4>1, TotalAdd
      <4> QED
        BY <4>1, <4>2
    <3>5. /\ Total(f, T) \in Nat /\ Total(f, P) \in Nat /\ Total(f, R) \in Nat
          /\ ~(Total(f, R) <= Total(f, T))
      BY <1>0, <2>2, <3>2
    <3> HIDE DEF P
    <3>6. ~(Total(f, R) <= Total(f, P))
      BY SMT, <3>4, <3>5
    <3>7. n <= Cardinality(P)
      BY <2>1, <3>2, <3>3, <3>6
    <3> HIDE DEF Bad
    <3> QED
      BY SMT, <3>3, <3>7
  <2> QED
    BY <2>3, <2>4
<1> QED
  BY <1>0, <1>1

\* w carries I one to one onto J, and g is f under these names.
Renames(I, D, w, J, f, g) ==
  /\ f \in [D -> Nat] /\ g \in [I -> Nat] /\ w \in [I -> D]
  /\ \A i, j \in I : w[i] = w[j] => i = j
  /\ \A i \in I : g[i] = f[w[i]]
  /\ \A c : c \in J <=> \E i \in I : w[i] = c

\* The sum does not depend on the names of what is added.
LEMMA TotalNames ==
  ASSUME NEW I, NEW D, NEW w, NEW J, NEW f, NEW g,
         IsFiniteSet(D), IsFiniteSet(I), Renames(I, D, w, J, f, g)
  PROVE  Total(g, I) = Total(f, J)
<1> USE DEF Renames
<1> DEFINE Img(T) == {w[i] : i \in T}
           Bad == {n \in Nat : \E T \in SUBSET I :
                     Cardinality(T) = n /\ Total(g, T) # Total(f, Img(T))}
<1>0. \A t \in SUBSET I : IsFiniteSet(t) /\ Cardinality(t) \in Nat /\ Total(g, t) \in Nat
  BY FS_Subset, FS_CardinalityType, TotalNat
<1>1. Bad = {}
  <2> SUFFICES ASSUME Bad # {} PROVE FALSE
    OBVIOUS
  <2>1. PICK n \in Bad : \A e \in Bad : n <= e
    BY LeastNat
  <2>2. PICK T \in SUBSET I : Cardinality(T) = n /\ Total(g, T) # Total(f, Img(T))
    OBVIOUS
  <2>3. T # {}
    <3>1. ASSUME T = {} PROVE Total(g, T) = 0 /\ Total(f, Img(T)) = 0
      <4>1. Img(T) = {}
        BY <3>1
      <4> QED
        BY <3>1, <4>1, FS_EmptySet, TotalPick
    <3> QED
      BY <2>2, <3>1
  <2>4. PICK y \in T : TRUE
    BY <2>3
  <2> DEFINE P == T \ {y}
  <2>5. P \in SUBSET I /\ Cardinality(P) \in Nat /\ Cardinality(P) = n - 1 /\ n \in Nat
    BY <1>0, <2>2, FS_RemoveElement
  <2>6. Img(T) \ {w[y]} = Img(P)
    <3>1. \A i \in T : w[i] = w[y] <=> i = y
      OBVIOUS
    <3> HIDE DEF Bad
    <3>2. ASSUME NEW v PROVE v \in Img(T) \ {w[y]} <=> v \in Img(P)
      BY SMT, <3>1
    <3> HIDE DEF Img, P
    <3> QED
      BY <3>2
  <2>7. IsFiniteSet(Img(T)) /\ w[y] \in Img(T) /\ Img(T) \subseteq D
    <3> HIDE DEF Bad
    <3>1. Img(T) \subseteq D /\ w[y] \in Img(T)
      BY SMT
    <3> HIDE DEF Img
    <3> QED
      BY <3>1, FS_Subset
  <2>8. Total(g, T) = g[y] + Total(g, P) /\ Total(f, Img(T)) = f[w[y]] + Total(f, Img(P))
    <3>1. IsFiniteSet(T) /\ T \subseteq I
      BY <1>0
    <3>2. Total(g, T) = g[y] + Total(g, P)
      BY SMT, <3>1, TotalAdd
    <3>3. Total(f, Img(T)) = f[w[y]] + Total(f, Img(T) \ {w[y]})
      <4> HIDE DEF Img
      <4> QED
        BY SMT, <2>7, TotalAdd
    <3> QED
      BY <2>6, <3>2, <3>3
  <2>9. Total(g, P) # Total(f, Img(P))
    BY <2>2, <2>8
  <2>10. n <= Cardinality(P)
    BY <2>1, <2>5, <2>9
  <2> HIDE DEF P, Bad, Img
  <2> QED
    BY SMT, <2>5, <2>10
<1>2. Img(I) = J
  <2>1. ASSUME NEW c PROVE c \in Img(I) <=> c \in J
    BY SMT
  <2> HIDE DEF Img
  <2> QED
    BY <2>1
<1> HIDE DEF Img
<1> QED
  BY <1>0, <1>1, <1>2
-----------------------------------------------------------------------------
(* The local backstop *)

Record == [ts : Nat, cost : Nat]

\* The calls p has let through on its own.
Locals(p) == {c \in Calls : PodOf[c] = p /\ phase[c] = "local"}

\* w names one of the calls L behind each entry of s, and misses none of the last window.
Named(s, L, at, t, p, w) ==
  /\ w \in [1 .. Len(s) -> L]
  /\ \A i, j \in 1 .. Len(s) : w[i] = w[j] => i = j
  /\ \A i \in 1 .. Len(s) : s[i] = [ts |-> at[w[i]] + Skew[p], cost |-> Cost[w[i]]]
  /\ \A c \in L : at[c] > t - Window => \E i \in 1 .. Len(s) : w[i] = c

Books(p, w) == Named(records[p], Locals(p), admittedAt, now, p, w)

LocalTypes ==
  /\ records \in [Pods -> Seq(Record)]
  /\ admittedAt \in [Calls -> Nat \cup {Never}]
  /\ wake \in [Calls -> Nat]
  /\ faults \in Nat

Booked ==
  /\ LocalTypes
  /\ \A c \in Calls : phase[c] # "idle" => Cost[c] <= Ceiling
  /\ \A c \in Calls : phase[c] = "local" => admittedAt[c] \in 0 .. now
  /\ \A p \in Pods : \E w : Books(p, w)

\* A set of indices closed downwards is an initial segment.
LEMMA InitialSegment ==
  ASSUME NEW n \in Nat, NEW D, D \subseteq 1 .. n,
         \A i \in D : \A j \in 1 .. i : j \in D
  PROVE  Cardinality(D) \in 0 .. n /\ D = 1 .. Cardinality(D)
<1>1. \E m \in 0 .. n : D = 1 .. m
  <2>1. CASE D = 1 .. n
    BY SMT, <2>1
  <2>2. CASE D # 1 .. n
    <3> DEFINE Out == (1 .. n) \ D
    <3>1. Out \subseteq Nat /\ Out # {}
      <4>1. Out # {}
        BY <2>2
      <4>2. 1 .. n \subseteq Nat
        BY SMT
      <4> QED
        BY <4>1, <4>2
    <3> HIDE DEF Out
    <3>2. PICK k \in Out : \A e \in Out : k <= e
      BY <3>1, LeastNat
    <3>3. k \in 1 .. n /\ k \notin D
      BY <3>2 DEF Out
    <3>4. \A i \in 1 .. k - 1 : i \in D
      <4> TAKE i \in 1 .. k - 1
      <4>1. i \in 1 .. n /\ ~(k <= i)
        BY SMT, <3>3
      <4> QED
        BY <3>2, <4>1 DEF Out
    <3>5. \A i \in D : i \in 1 .. k - 1
      <4> TAKE i \in D
      <4>1. i \in 1 .. n
        OBVIOUS
      <4>2. ~(k \in 1 .. i)
        BY <3>3
      <4> QED
        BY SMT, <3>3, <4>1, <4>2
    <3>6. D = 1 .. k - 1
      BY <3>4, <3>5
    <3>7. k - 1 \in 0 .. n
      BY SMT, <3>3
    <3> QED
      BY <3>6, <3>7
  <2> QED
    BY <2>1, <2>2
<1>2. PICK m \in 0 .. n : D = 1 .. m
  BY <1>1
<1>3. Cardinality(1 .. m) = m
  BY SMT, <1>2, FS_Interval
<1> QED
  BY <1>2, <1>3

\* prune takes a prefix off, all of it older than a window.
LEMMA PrunedShape ==
  ASSUME NEW p \in Pods, records[p] \in Seq(Record)
  PROVE  \E k \in 0 .. Len(records[p]) :
           /\ \A i \in 1 .. k : records[p][i].ts <= now + Skew[p] - Window
           /\ Pruned(p) \in Seq(Record)
           /\ Len(Pruned(p)) = Len(records[p]) - k
           /\ \A i \in 1 .. Len(Pruned(p)) :
                i + k \in 1 .. Len(records[p]) /\ Pruned(p)[i] = records[p][i + k]
<1> DEFINE r == records[p]
           stale == {i \in 1 .. Len(r) : \A j \in 1 .. i : r[j].ts <= now + Skew[p] - Window}
           k == Cardinality(stale)
<1>1. Len(r) \in Nat /\ DOMAIN r = 1 .. Len(r)
  BY SMT
<1>2. \A i \in stale : \A j \in 1 .. i : j \in stale
  <2> TAKE i \in stale
  <2> TAKE j \in 1 .. i
  <2>1. i \in 1 .. Len(r) /\ \A l \in 1 .. i : r[l].ts <= now + Skew[p] - Window
    OBVIOUS
  <2>2. j \in 1 .. Len(r) /\ \A l \in 1 .. j : l \in 1 .. i
    BY SMT, <1>1, <2>1
  <2> QED
    BY <2>1, <2>2
<1>3. stale \subseteq 1 .. Len(r)
  OBVIOUS
<1>4. Pruned(p) = SubSeq(r, k + 1, Len(r))
  BY <1>1 DEF Pruned
<1>5. \A i \in stale : r[i].ts <= now + Skew[p] - Window
  <2> TAKE i \in stale
  <2>1. i \in 1 .. Len(r) /\ \A l \in 1 .. i : r[l].ts <= now + Skew[p] - Window
    OBVIOUS
  <2>2. i \in 1 .. i
    BY SMT, <1>1, <2>1
  <2> QED
    BY <2>1, <2>2
<1> HIDE DEF stale
<1>6. k \in 0 .. Len(r) /\ stale = 1 .. k
  BY <1>1, <1>2, <1>3, InitialSegment
<1> HIDE DEF k
<1>7. /\ SubSeq(r, k + 1, Len(r)) \in Seq(Record)
      /\ Len(SubSeq(r, k + 1, Len(r))) = Len(r) - k
      /\ \A i \in 1 .. Len(r) - k : SubSeq(r, k + 1, Len(r))[i] = r[i + k]
  <2> HIDE DEF r
  <2>1. r \in Seq(Record)
    BY DEF r
  <2>2. \A i \in k + 1 .. Len(r) : r[i] \in Record
    BY SMT, <1>1, <1>6, <2>1
  <2>3. k + 1 \in Int /\ Len(r) \in Int
    BY SMT, <1>1, <1>6
  <2>4. /\ SubSeq(r, k + 1, Len(r)) \in Seq(Record)
        /\ Len(SubSeq(r, k + 1, Len(r))) = IF k + 1 <= Len(r) THEN Len(r) - (k + 1) + 1 ELSE 0
        /\ \A i \in 1 .. Len(r) - (k + 1) + 1 : SubSeq(r, k + 1, Len(r))[i] = r[(k + 1) + i - 1]
    BY SMT, <2>2, <2>3
  <2>8. k \in Nat /\ Len(r) \in Nat /\ k <= Len(r)
    BY SMT, <1>1, <1>6
  <2>5. ~(k + 1 <= Len(r)) => 0 = Len(r) - k
    BY SMT, <2>8
  <2>6. Len(r) - (k + 1) + 1 = Len(r) - k
    BY SMT, <1>1, <1>6
  <2>7. \A i \in 1 .. Len(r) - k : (k + 1) + i - 1 = i + k
    BY SMT, <1>1, <1>6
  <2> QED
    BY <2>4, <2>5, <2>6, <2>7
<1>8. \A i \in 1 .. Len(r) - k : i + k \in 1 .. Len(r)
  BY SMT, <1>1, <1>6
<1> QED
  BY <1>4, <1>5, <1>6, <1>7, <1>8

\* What p has let through in the last window is at most what usedNow counts.
LEMMA RecentCounted ==
  ASSUME Booked, IInv, NEW p \in Pods, NEW R,
         \A c \in R : c \in Locals(p) /\ admittedAt[c] > now - Window
  PROVE  /\ Total(Cost, R) <= Sum(Pruned(p))
         /\ Total(Cost, R) \in Nat /\ Sum(Pruned(p)) \in Nat
         /\ Pruned(p) = <<>> => R = {}
<1> DEFINE q == Pruned(p)
           n == Len(q)
<1>0. IsFiniteSet(Calls) /\ Cost \in [Calls -> Nat] /\ Window \in Nat /\ Skew[p] \in Nat /\ now \in Nat
  BY SMT, ConfigAssumption DEF ConfigAssumption, IInv, Shape
<1>1. PICK w : Books(p, w)
  BY DEF Booked
<1>2. records[p] \in Seq(Record) /\ Len(records[p]) \in Nat
  BY SMT DEF Booked, LocalTypes
<1>3. PICK k \in 0 .. Len(records[p]) :
        /\ \A i \in 1 .. k : records[p][i].ts <= now + Skew[p] - Window
        /\ q \in Seq(Record) /\ n = Len(records[p]) - k
        /\ \A i \in 1 .. n : i + k \in 1 .. Len(records[p]) /\ q[i] = records[p][i + k]
  BY <1>2, PrunedShape
<1> HIDE DEF q, n
<1> DEFINE v == [i \in 1 .. n |-> w[i + k]]
           g == [i \in 1 .. n |-> q[i].cost]
<1>4. /\ \A i \in 1 .. Len(records[p]) : w[i] \in Calls /\ w[i] \in Locals(p)
      /\ \A i, j \in 1 .. Len(records[p]) : w[i] = w[j] => i = j
      /\ \A i \in 1 .. Len(records[p]) : /\ records[p][i].cost = Cost[w[i]]
                                         /\ records[p][i].ts = admittedAt[w[i]] + Skew[p]
      /\ \A c \in Locals(p) : admittedAt[c] > now - Window => \E i \in 1 .. Len(records[p]) : w[i] = c
  <2>1. w \in [1 .. Len(records[p]) -> Locals(p)]
    BY <1>1 DEF Books, Named
  <2>2. \A i \in 1 .. Len(records[p]) : w[i] \in Calls /\ w[i] \in Locals(p)
    BY <2>1 DEF Locals
  <2>3. \A i \in 1 .. Len(records[p]) : /\ records[p][i].cost = Cost[w[i]]
                                        /\ records[p][i].ts = admittedAt[w[i]] + Skew[p]
    <3>1. \A i \in 1 .. Len(records[p]) :
            records[p][i] = [ts |-> admittedAt[w[i]] + Skew[p], cost |-> Cost[w[i]]]
      BY <1>1 DEF Books, Named
    <3> TAKE i \in 1 .. Len(records[p])
    <3>2. records[p][i] = [ts |-> admittedAt[w[i]] + Skew[p], cost |-> Cost[w[i]]]
      BY <3>1
    <3> QED
      BY SMT, <3>2
  <2> QED
    BY <1>1, <2>2, <2>3 DEF Books, Named
<1>5. n \in Nat /\ k \in Nat /\ q \in Seq(Record) /\ DOMAIN q = 1 .. n
  BY SMT, <1>2, <1>3 DEF n
<1>6. v \in [1 .. n -> Calls] /\ \A i \in 1 .. n : v[i] = w[i + k]
  BY <1>3, <1>4
<1>7. g \in [1 .. n -> Nat] /\ \A i \in 1 .. n : g[i] = Cost[v[i]]
  <2>1. \A i \in 1 .. n : q[i].cost = Cost[v[i]] /\ Cost[v[i]] \in Nat
    BY <1>0, <1>3, <1>4, <1>6
  <2> QED
    BY <2>1
<1>8. \A i, j \in 1 .. n : v[i] = v[j] => i = j
  <2> TAKE i, j \in 1 .. n
  <2> HAVE v[i] = v[j]
  <2>1. i + k = j + k
    BY <1>3, <1>4, <1>6
  <2> QED
    BY SMT, <1>5, <2>1
<1>9. \A c \in R : \E i \in 1 .. n : v[i] = c
  <2> TAKE c \in R
  <2>1. PICK j \in 1 .. Len(records[p]) : w[j] = c
    BY <1>4
  <2>2. admittedAt[c] > now - Window /\ c \in Calls /\ phase[c] = "local"
    BY DEF Locals
  <2>3. admittedAt[c] \in Nat
    <3>1. admittedAt[c] \in 0 .. now
      BY <2>2 DEF Booked
    <3> QED
      BY SMT, <1>0, <3>1
  <2>4. records[p][j].ts = admittedAt[c] + Skew[p]
    BY <1>4, <2>1
  <2>5. ~(records[p][j].ts <= now + Skew[p] - Window)
    BY SMT, <1>0, <2>2, <2>3, <2>4
  <2>6. ~(j \in 1 .. k)
    BY <1>3, <2>5
  <2>7. j - k \in 1 .. n /\ (j - k) + k = j
    BY SMT, <1>2, <1>3, <2>6
  <2> HIDE DEF v
  <2> QED
    BY <1>6, <2>1, <2>7
<1> HIDE DEF v, g
<1>10. IsFiniteSet(1 .. n)
  BY SMT, <1>5, FS_Interval
<1>12. Sum(q) = Total(g, 1 .. n)
  BY <1>5 DEF Sum, g
<1> DEFINE Img == {v[i] : i \in 1 .. n}
<1>13. R \subseteq Img
  BY <1>9
<1>14. Img \subseteq Calls
  BY <1>6
<1>15. q = <<>> => Img = {}
  <2>1. q = <<>> => 1 .. n = {}
    BY SMT, <1>5 DEF n
  <2> QED
    BY <2>1
<1>16. Total(g, 1 .. n) = Total(Cost, Img)
  <2>1. \A c : c \in Img <=> \E i \in 1 .. n : v[i] = c
    OBVIOUS
  <2> HIDE DEF Img
  <2>2. Renames(1 .. n, Calls, v, Img, Cost, g)
    BY <1>0, <1>6, <1>7, <1>8, <2>1 DEF Renames
  <2> QED
    BY SMT, <1>0, <1>10, <2>2, TotalNames
<1> HIDE DEF Img
<1>17. IsFiniteSet(Img) /\ IsFiniteSet(R) /\ R \subseteq Calls
  BY <1>0, <1>13, <1>14, FS_Subset
<1>18. Total(Cost, R) <= Total(Cost, Img)
  BY <1>0, <1>13, <1>14, <1>17, TotalPart
<1>19. Total(Cost, R) \in Nat /\ Total(Cost, Img) \in Nat
  BY <1>0, <1>14, <1>17, TotalNat
<1> QED
  BY <1>12, <1>13, <1>15, <1>16, <1>18, <1>19 DEF q

\* What p let through on its own in the window-long span from start.
Span(p, start) ==
  {c \in Locals(p) : admittedAt[c] # Never /\ start <= admittedAt[c] /\ admittedAt[c] < start + Window}

\* The types that the backstop's books rest on.
LEMMA LocalFacts ==
  ASSUME Booked, IInv
  PROVE  /\ IsFiniteSet(Calls) /\ Cost \in [Calls -> Nat]
         /\ Window \in Nat /\ Ceiling \in Nat /\ now \in Nat
         /\ \A p \in Pods : Skew[p] \in Nat
         /\ \A c \in Calls : phase[c] = "local" => admittedAt[c] \in Nat /\ admittedAt[c] <= now
<1>1. /\ IsFiniteSet(Calls) /\ Cost \in [Calls -> Nat]
      /\ Window \in Nat /\ Ceiling \in Nat /\ \A p \in Pods : Skew[p] \in Nat
  BY SMT, ConfigAssumption DEF ConfigAssumption
<1>2. now \in Nat
  BY DEF IInv, Shape
<1>3. \A c \in Calls : phase[c] = "local" => admittedAt[c] \in 0 .. now
  BY DEF Booked
<1>4. \A n \in 0 .. now : n \in Nat /\ n <= now
  BY SMT, <1>2
<1> QED
  BY <1>1, <1>2, <1>3, <1>4

\* The windows checked are the sums over the spans.
SpansHold == \A p \in Pods : \A start \in 0 .. now : Total(Cost, Span(p, start)) <= Ceiling

\* The property, in terms of the calls within a window.
LEMMA SpanSums == BackstopHoldsCeiling <=> SpansHold
  BY DEF BackstopHoldsCeiling, SpansHold, AdmittedFrom, Span, Locals

\* The empty sum.
LEMMA EmptyTotal == ASSUME NEW f PROVE Total(f, {}) = 0
  BY FS_EmptySet, TotalPick

\* A step that lets nobody through on their own, the clock's included, keeps the books.
LEMMA QuietKeeps ==
  ASSUME Booked, BackstopHoldsCeiling, IInv, LocalTypes', records' = records,
         now' \in Nat, now <= now',
         \A c \in Calls : phase'[c] = "local" <=> phase[c] = "local",
         \A c \in Calls : phase[c] = "local" => admittedAt'[c] = admittedAt[c],
         \A c \in Calls : phase'[c] # "idle" => phase[c] # "idle" \/ Cost[c] <= Ceiling
  PROVE  Booked' /\ BackstopHoldsCeiling'
<1>0. /\ Window \in Nat /\ Ceiling \in Nat /\ now \in Nat
      /\ \A c \in Calls : phase[c] = "local" => admittedAt[c] \in Nat /\ admittedAt[c] <= now
  BY LocalFacts
<1>1. \A p : Locals(p)' = Locals(p)
  BY DEF Locals
<1>2. \A c \in Calls : phase[c] = "local" => admittedAt'[c] \in 0 .. now'
  BY SMT, <1>0
<1>3. \A c \in Calls : phase[c] = "local" /\ admittedAt'[c] > now' - Window => admittedAt[c] > now - Window
  BY SMT, <1>0
<1>4. ASSUME NEW p \in Pods PROVE \E w : Books(p, w)'
  <2>1. PICK w : Books(p, w)
    BY DEF Booked
  <2>2. \A c \in Locals(p) : c \in Calls /\ phase[c] = "local"
    BY DEF Locals
  <2>3. \A i \in 1 .. Len(records[p]) :
          records'[p][i] = [ts |-> admittedAt'[w[i]] + Skew[p], cost |-> Cost[w[i]]]
    <3> TAKE i \in 1 .. Len(records[p])
    <3>1. w[i] \in Locals(p)
      BY <2>1 DEF Books, Named
    <3>2. admittedAt'[w[i]] = admittedAt[w[i]]
      BY <2>2, <3>1
    <3> QED
      BY <2>1, <3>2 DEF Books, Named
  <2>4. \A c \in Locals(p) :
          admittedAt'[c] > now' - Window => \E i \in 1 .. Len(records[p]) : w[i] = c
    BY <1>3, <2>1, <2>2 DEF Books, Named
  <2>5. Books(p, w)'
    <3>1. Locals(p)' = Locals(p)
      BY <1>1
    <3> QED
      BY <2>1, <2>3, <2>4, <3>1 DEF Books, Named
  <2> QED
    BY <2>5
<1>5. Booked'
  BY <1>2, <1>4 DEF Booked
<1>6. ASSUME NEW p \in Pods, NEW start \in 0 .. now'
      PROVE  Total(Cost, Span(p, start)') <= Ceiling
  <2>1. CASE start <= now
    <3>1. start \in 0 .. now
      BY SMT, <1>0, <2>1
    <3>2. Span(p, start)' = Span(p, start)
      BY <1>1 DEF Span, Locals
    <3> QED
      BY <3>1, <3>2, SpanSums DEF SpansHold
  <2>2. CASE ~(start <= now)
    <3>1. \A c \in Calls : phase[c] = "local" => ~(start <= admittedAt'[c])
      BY SMT, <1>0, <2>2
    <3>2. Span(p, start)' = {}
      BY <1>1, <3>1 DEF Span, Locals
    <3>3. 0 <= Ceiling
      BY SMT, <1>0
    <3> QED
      BY <3>2, <3>3, EmptyTotal
  <2> QED
    BY <2>1, <2>2
<1>7. SpansHold'
  BY <1>6 DEF SpansHold
<1> QED
  BY <1>5, <1>7, SpanSums, PTL

\* Shifting a prefix off leaves every record of the last window under its name.
LEMMA PrunedBooks ==
  ASSUME Booked, IInv, NEW p \in Pods
  PROVE  /\ Pruned(p) \in Seq(Record)
         /\ \E v : Named(Pruned(p), Locals(p), admittedAt, now, p, v)
<1> DEFINE q == Pruned(p)
           n == Len(q)
<1>0. /\ Window \in Nat /\ now \in Nat /\ Skew[p] \in Nat
      /\ \A c \in Calls : phase[c] = "local" => admittedAt[c] \in Nat
  BY LocalFacts
<1>1. PICK w : Books(p, w)
  BY DEF Booked
<1>2. records[p] \in Seq(Record) /\ Len(records[p]) \in Nat
  BY SMT DEF Booked, LocalTypes
<1>3. PICK k \in 0 .. Len(records[p]) :
        /\ \A i \in 1 .. k : records[p][i].ts <= now + Skew[p] - Window
        /\ q \in Seq(Record) /\ n = Len(records[p]) - k
        /\ \A i \in 1 .. n : i + k \in 1 .. Len(records[p]) /\ q[i] = records[p][i + k]
  BY <1>2, PrunedShape
<1> HIDE DEF q, n
<1> DEFINE v == [i \in 1 .. n |-> w[i + k]]
<1>4. n \in Nat /\ k \in Nat
  BY SMT, <1>2, <1>3 DEF n
<1>5. v \in [1 .. n -> Locals(p)] /\ \A i \in 1 .. n : v[i] = w[i + k]
  <2>1. \A i \in 1 .. Len(records[p]) : w[i] \in Locals(p)
    BY <1>1 DEF Books, Named
  <2> QED
    BY <1>3, <2>1
<1> HIDE DEF v
<1>6. \A i, j \in 1 .. n : v[i] = v[j] => i = j
  <2> TAKE i, j \in 1 .. n
  <2> HAVE v[i] = v[j]
  <2>1. i + k \in 1 .. Len(records[p]) /\ j + k \in 1 .. Len(records[p]) /\ w[i + k] = w[j + k]
    BY <1>3, <1>5
  <2>2. \A a, b \in 1 .. Len(records[p]) : w[a] = w[b] => a = b
    BY <1>1 DEF Books, Named
  <2>3. i + k = j + k
    BY <2>1, <2>2
  <2> QED
    BY SMT, <1>4, <2>3
<1>7. \A i \in 1 .. n : q[i] = [ts |-> admittedAt[v[i]] + Skew[p], cost |-> Cost[v[i]]]
  <2> TAKE i \in 1 .. n
  <2>1. i + k \in 1 .. Len(records[p]) /\ q[i] = records[p][i + k] /\ v[i] = w[i + k]
    BY <1>3, <1>5
  <2>2. \A a \in 1 .. Len(records[p]) :
          records[p][a] = [ts |-> admittedAt[w[a]] + Skew[p], cost |-> Cost[w[a]]]
    BY <1>1 DEF Books, Named
  <2> QED
    BY <2>1, <2>2
<1>8. \A c \in Locals(p) : admittedAt[c] > now - Window => \E i \in 1 .. n : v[i] = c
  <2> TAKE c \in Locals(p)
  <2> HAVE admittedAt[c] > now - Window
  <2>1. PICK j \in 1 .. Len(records[p]) : w[j] = c
    BY <1>1 DEF Books, Named
  <2>2. admittedAt[c] \in Nat
    BY <1>0 DEF Locals
  <2>3. records[p][j].ts = admittedAt[c] + Skew[p]
    <3>1. records[p][j] = [ts |-> admittedAt[c] + Skew[p], cost |-> Cost[c]]
      BY <1>1, <2>1 DEF Books, Named
    <3> QED
      BY SMT, <3>1
  <2>4. ~(records[p][j].ts <= now + Skew[p] - Window)
    BY SMT, <1>0, <2>2, <2>3
  <2>5. ~(j \in 1 .. k)
    BY <1>3, <2>4
  <2>6. j - k \in 1 .. n /\ (j - k) + k = j
    BY SMT, <1>2, <1>3, <2>5
  <2> QED
    BY <1>5, <2>1, <2>6
<1>9. Named(q, Locals(p), admittedAt, now, p, v)
  BY <1>5, <1>6, <1>7, <1>8 DEF n, Named
<1> QED
  BY <1>3, <1>9 DEF q

\* A caller that has to wait leaves the pruned window, and a time to look again.
LEMMA ParkKeeps ==
  ASSUME Booked, BackstopHoldsCeiling, IInv, NEW c \in Calls, phase[c] \in {"eval", "parked"},
         now' = now, faults' = faults, Pruned(PodOf[c]) # <<>>,
         records' = [records EXCEPT ![PodOf[c]] = Pruned(PodOf[c])],
         phase' = [phase EXCEPT ![c] = "parked"],
         wake' = [wake EXCEPT ![c] =
                   Larger(now + 1, Pruned(PodOf[c])[1].ts - Skew[PodOf[c]] + Window)],
         admittedAt' = admittedAt
  PROVE  Booked' /\ BackstopHoldsCeiling'
<1> DEFINE p == PodOf[c]
           q == Pruned(p)
<1>0. /\ Window \in Nat /\ now \in Nat
      /\ \A d \in Calls : phase[d] = "local" => admittedAt[d] \in 0 .. now
  BY LocalFacts DEF Booked
<1>1. p \in Pods /\ Skew[p] \in Nat
  BY SMT, ConfigAssumption DEF ConfigAssumption
<1>2. q \in Seq(Record) /\ \E v : Named(q, Locals(p), admittedAt, now, p, v)
  BY <1>1, PrunedBooks
<1>3. phase \in [Calls -> Phases]
  BY DEF IInv, Shape
<1>4. /\ records \in [Pods -> Seq(Record)] /\ wake \in [Calls -> Nat] /\ faults \in Nat
      /\ admittedAt \in [Calls -> Nat \cup {Never}]
  BY DEF Booked, LocalTypes
<1>5. Larger(now + 1, q[1].ts - Skew[p] + Window) \in Nat
  <2>0. q # <<>>
    OBVIOUS
  <2>1. q[1] \in Record
    <3> HIDE DEF q
    <3> QED
      BY SMT, <1>2, <2>0
  <2>2. q[1].ts \in Nat
    BY <2>1 DEF Record
  <2> HIDE DEF q, p
  <2> QED
    BY SMT, <1>0, <1>1, <2>2 DEF Larger
<1>6. /\ records' \in [Pods -> Seq(Record)] /\ records'[p] = q
      /\ \A r \in Pods : r # p => records'[r] = records[r]
  BY <1>1, <1>2, <1>4
<1>7. LocalTypes'
  <2>1. wake' \in [Calls -> Nat]
    BY <1>4, <1>5
  <2> QED
    BY <1>4, <1>6, <2>1 DEF LocalTypes
<1>8. /\ \A d \in Calls : phase'[d] = "local" <=> phase[d] = "local"
      /\ \A d \in Calls : phase'[d] # "idle" => phase[d] # "idle"
  BY <1>3
<1>9. \A r : Locals(r)' = Locals(r)
  BY <1>8 DEF Locals
<1>10. ASSUME NEW r \in Pods PROVE \E w : Books(r, w)'
  <2>0. Locals(r)' = Locals(r)
    BY <1>9
  <2>1. CASE r = p
    <3>0. PICK v : Named(q, Locals(p), admittedAt, now, p, v)
      BY <1>2
    <3>1. Books(r, v)'
      BY <1>6, <2>0, <2>1, <3>0 DEF Books
    <3> QED
      BY <3>1
  <2>2. CASE r # p
    <3>1. PICK w : Books(r, w)
      BY DEF Booked
    <3>2. Books(r, w)'
      BY <1>6, <2>0, <2>2, <3>1 DEF Books
    <3> QED
      BY <3>2
  <2> QED
    BY <2>1, <2>2
<1>11. Booked'
  BY <1>0, <1>7, <1>8, <1>10 DEF Booked
<1>12. \A r, start : Span(r, start)' = Span(r, start)
  BY <1>9 DEF Span
<1>13. ASSUME NEW r \in Pods, NEW start \in 0 .. now'
       PROVE  Total(Cost, Span(r, start)') <= Ceiling
  <2>1. Span(r, start)' = Span(r, start) /\ start \in 0 .. now
    BY <1>12
  <2> QED
    BY <2>1, SpanSums DEF SpansHold
<1>14. SpansHold'
  BY <1>13 DEF SpansHold
<1> QED
  BY <1>11, <1>14, SpanSums, PTL

\* c joins the calls L, let through at t.
Joins(c, t, L, at, M, bt) ==
  /\ c \notin L /\ M = L \cup {c}
  /\ bt[c] = t /\ \A d \in L : bt[d] = at[d]

\* A new entry is booked under the call let through now.
LEMMA NamedAppend ==
  ASSUME NEW s \in Seq(Record), NEW L, NEW at, NEW t \in Nat, NEW p \in Pods, NEW v,
         NEW c, NEW M, NEW bt,
         Named(s, L, at, t, p, v), Joins(c, t, L, at, M, bt),
         Skew[p] \in Nat, Cost[c] \in Nat
  PROVE  \E w : Named(Append(s, [ts |-> t + Skew[p], cost |-> Cost[c]]), M, bt, t, p, w)
<1> USE DEF Joins
<1> DEFINE n == Len(s)
           e == [ts |-> t + Skew[p], cost |-> Cost[c]]
           u == Append(s, e)
           w == [i \in 1 .. n + 1 |-> IF i = n + 1 THEN c ELSE v[i]]
<1>1. n \in Nat /\ e \in Record
  BY SMT DEF Record
<1>2. /\ u \in Seq(Record) /\ Len(u) = n + 1 /\ u[n + 1] = e
      /\ \A i \in 1 .. n : u[i] = s[i]
  <2> HIDE DEF e
  <2> QED
    BY SMT, <1>1
<1>3. /\ \A i \in 1 .. n + 1 : i = n + 1 \/ (i # n + 1 /\ i \in 1 .. n)
      /\ n + 1 \in 1 .. n + 1
      /\ \A i \in 1 .. n : i \in 1 .. n + 1 /\ i # n + 1
  BY SMT, <1>1
<1>4. /\ \A i \in 1 .. n : v[i] \in L
      /\ \A i, j \in 1 .. n : v[i] = v[j] => i = j
      /\ \A i \in 1 .. n : s[i] = [ts |-> at[v[i]] + Skew[p], cost |-> Cost[v[i]]]
      /\ \A d \in L : at[d] > t - Window => \E i \in 1 .. n : v[i] = d
  BY DEF Named
<1>5. w[n + 1] = c /\ \A i \in 1 .. n : w[i] = v[i]
  BY <1>3
<1>6. w \in [1 .. n + 1 -> M]
  BY <1>3, <1>4
<1> HIDE DEF w, u, n
<1>7. \A i, j \in 1 .. n + 1 : w[i] = w[j] => i = j
  <2> TAKE i, j \in 1 .. n + 1
  <2> HAVE w[i] = w[j]
  <2>1. CASE i \in 1 .. n
    <3>1. j # n + 1
      BY <1>4, <1>5, <2>1
    <3>2. j \in 1 .. n
      BY <1>3, <3>1
    <3>3. v[i] = v[j]
      BY <1>5, <2>1, <3>2
    <3> QED
      BY <1>4, <2>1, <3>2, <3>3
  <2>2. CASE i = n + 1
    <3>1. ~(j \in 1 .. n)
      BY <1>4, <1>5, <2>2
    <3> QED
      BY <1>3, <2>2, <3>1
  <2> QED
    BY <1>3, <2>1, <2>2
<1>8. \A i \in 1 .. n + 1 : u[i] = [ts |-> bt[w[i]] + Skew[p], cost |-> Cost[w[i]]]
  <2> TAKE i \in 1 .. n + 1
  <2>1. CASE i = n + 1
    BY <1>2, <1>5, <2>1
  <2>2. CASE i \in 1 .. n
    <3>1. u[i] = [ts |-> at[v[i]] + Skew[p], cost |-> Cost[v[i]]] /\ w[i] = v[i] /\ at[v[i]] = bt[v[i]]
      BY <1>2, <1>4, <1>5, <2>2
    <3> QED
      BY <3>1
  <2> QED
    BY <1>3, <2>1, <2>2
<1>9. \A d \in M : bt[d] > t - Window => \E i \in 1 .. n + 1 : w[i] = d
  BY <1>3, <1>4, <1>5
<1>10. Named(u, M, bt, t, p, w)
  BY <1>2, <1>6, <1>7, <1>8, <1>9 DEF Named
<1> QED
  BY <1>10 DEF u

\* A caller let through is booked, and no window holds more than the ceiling.
LEMMA AdmitKeeps ==
  ASSUME Booked, BackstopHoldsCeiling, IInv, NEW c \in Calls, phase[c] \in {"eval", "parked"},
         now' = now, faults' = faults, wake' = wake,
         Sum(Pruned(PodOf[c])) + Cost[c] <= AdmissionLimit(c) \/ Pruned(PodOf[c]) = <<>>,
         records' = [records EXCEPT ![PodOf[c]] =
                       Append(Pruned(PodOf[c]), [ts |-> now + Skew[PodOf[c]], cost |-> Cost[c]])],
         phase' = [phase EXCEPT ![c] = "local"],
         admittedAt' = [admittedAt EXCEPT ![c] = now]
  PROVE  Booked' /\ BackstopHoldsCeiling'
<1> DEFINE p == PodOf[c]
           q == Pruned(p)
           e == [ts |-> now + Skew[p], cost |-> Cost[c]]
<1>0. /\ Window \in Nat /\ now \in Nat /\ Ceiling \in Nat /\ IsFiniteSet(Calls)
      /\ Cost \in [Calls -> Nat]
      /\ \A d \in Calls : phase[d] = "local" => /\ admittedAt[d] \in 0 .. now
                                                /\ admittedAt[d] \in Nat /\ admittedAt[d] <= now
  BY LocalFacts DEF Booked
<1>1. p \in Pods /\ Skew[p] \in Nat
  BY SMT, ConfigAssumption DEF ConfigAssumption
<1>2. q \in Seq(Record) /\ \E v : Named(q, Locals(p), admittedAt, now, p, v)
  BY <1>1, PrunedBooks
<1>3. phase \in [Calls -> Phases]
  BY DEF IInv, Shape
<1>4. /\ records \in [Pods -> Seq(Record)] /\ wake \in [Calls -> Nat] /\ faults \in Nat
      /\ admittedAt \in [Calls -> Nat \cup {Never}]
  BY DEF Booked, LocalTypes
<1>5. Append(q, e) \in Seq(Record)
  <2>1. e \in Record
    <3>1. now + Skew[p] \in Nat /\ Cost[c] \in Nat
      BY SMT, <1>0, <1>1
    <3> QED
      BY <3>1 DEF Record
  <2> HIDE DEF e, q
  <2> QED
    BY SMT, <1>2, <2>1
<1>6. /\ records' \in [Pods -> Seq(Record)] /\ records'[p] = Append(q, e)
      /\ \A r \in Pods : r # p => records'[r] = records[r]
  BY <1>1, <1>4, <1>5
<1>7. /\ phase'[c] = "local" /\ phase[c] # "local" /\ phase[c] # "idle"
      /\ \A d \in Calls : d # c => phase'[d] = phase[d]
  BY <1>3
<1>8. /\ admittedAt' \in [Calls -> Nat \cup {Never}] /\ admittedAt'[c] = now
      /\ \A d \in Calls : d # c => admittedAt'[d] = admittedAt[d]
  BY <1>0, <1>4
<1>9. LocalTypes'
  BY <1>4, <1>6, <1>8 DEF LocalTypes
<1>10. /\ Locals(p)' = Locals(p) \cup {c}
       /\ \A r : r # p => Locals(r)' = Locals(r)
       /\ c \notin Locals(p) /\ \A r : \A d \in Locals(r) : d \in Calls /\ d # c
  BY <1>7 DEF Locals
<1>11. \A d \in Calls : phase'[d] = "local" => admittedAt'[d] \in 0 .. now'
  <2>1. now \in 0 .. now
    BY SMT, <1>0
  <2> QED
    BY <1>0, <1>7, <1>8, <2>1
<1>12. ASSUME NEW r \in Pods PROVE \E w : Books(r, w)'
  <2>1. CASE r = p
    <3>0. PICK v : Named(q, Locals(p), admittedAt, now, p, v)
      BY <1>2
    <3>1. PICK w : Named(Append(q, e), Locals(p)', admittedAt', now, p, w)
      <4>1. Joins(c, now, Locals(p), admittedAt, Locals(p)', admittedAt')
        BY <1>8, <1>10 DEF Joins
      <4>2. Cost[c] \in Nat
        BY <1>0
      <4> HIDE DEF q
      <4> QED
        BY <1>0, <1>1, <1>2, <3>0, <4>1, <4>2, NamedAppend
    <3>2. Books(r, w)'
      BY <1>6, <2>1, <3>1 DEF Books
    <3> QED
      BY <3>2
  <2>2. CASE r # p
    <3>1. PICK w : Books(r, w)
      BY DEF Booked
    <3>2. Named(records[r], Locals(r), admittedAt', now, r, w)
      <4>1. \A i \in 1 .. Len(records[r]) : w[i] \in Locals(r)
        BY <3>1 DEF Books, Named
      <4>2. \A i \in 1 .. Len(records[r]) : admittedAt'[w[i]] = admittedAt[w[i]]
        <5> TAKE i \in 1 .. Len(records[r])
        <5>1. w[i] \in Calls /\ w[i] # c
          BY <1>10, <4>1
        <5> QED
          BY <1>8, <5>1
      <4>3. \A d \in Locals(r) : admittedAt'[d] = admittedAt[d]
        BY <1>8, <1>10
      <4> QED
        BY <3>1, <4>2, <4>3 DEF Books, Named
    <3>3. Books(r, w)'
      BY <1>6, <1>10, <2>2, <3>2 DEF Books
    <3> QED
      BY <3>3
  <2> QED
    BY <2>1, <2>2
<1>13. Booked'
  BY <1>7, <1>9, <1>11, <1>12 DEF Booked
<1>14. ASSUME NEW r \in Pods, NEW start \in 0 .. now'
       PROVE  Total(Cost, Span(r, start)') <= Ceiling
  <2>1. start \in 0 .. now /\ start \in Nat
    BY SMT, <1>0
  <2>2. \A d \in Locals(r) : admittedAt'[d] = admittedAt[d]
    BY <1>8, <1>10
  <2>3. CASE r # p \/ ~(now < start + Window)
    <3>1. Span(r, start)' = Span(r, start)
      BY SMT, <1>8, <1>10, <2>2, <2>3 DEF Span
    <3> QED
      BY <2>1, <3>1, SpanSums DEF SpansHold
  <2>4. CASE r = p /\ now < start + Window
    <3> DEFINE R == Span(p, start)
               S == Span(p, start)'
    <3>1. \A d \in R : d \in Locals(p) /\ d \in Calls /\ d # c /\ admittedAt[d] > now - Window
      <4> TAKE d \in R
      <4>1. d \in Locals(p) /\ d \in Calls /\ d # c /\ phase[d] = "local" /\ start <= admittedAt[d]
        BY <1>10 DEF Span, Locals
      <4>2. admittedAt[d] \in Nat
        BY <1>0, <4>1
      <4>3. admittedAt[d] > now - Window
        BY SMT, <1>0, <2>1, <2>4, <4>1, <4>2
      <4> QED
        BY <4>1, <4>3
    <3>2. S = R \cup {c}
      <4>1. now # Never /\ start <= now
        BY SMT, <1>0, <2>1 DEF Never
      <4> QED
        BY <1>8, <1>10, <2>2, <2>4, <4>1 DEF Span
    <3> HIDE DEF R, S
    <3>3. /\ Total(Cost, R) <= Sum(q) /\ Total(Cost, R) \in Nat /\ Sum(q) \in Nat
          /\ q = <<>> => R = {}
      BY <1>1, <3>1, RecentCounted
    <3>4. S \subseteq Calls /\ IsFiniteSet(S) /\ c \in S /\ S \ {c} = R
      <4>1. S \subseteq Calls /\ c \in S /\ S \ {c} = R
        BY <3>1, <3>2
      <4> QED
        BY <1>0, <4>1, FS_Subset
    <3>5. Total(Cost, S) = Cost[c] + Total(Cost, R)
      <4>1. Total(Cost, S) = Cost[c] + Total(Cost, S \ {c})
        BY SMT, <1>0, <3>4, TotalAdd
      <4> QED
        BY <3>4, <4>1
    <3>6. Cost[c] \in Nat /\ Cost[c] <= Ceiling /\ AdmissionLimit(c) \in Nat /\ AdmissionLimit(c) <= Ceiling
      BY <1>7, CostNat, ConfigAssumption DEF Booked
    <3>7. Total(Cost, S) <= Ceiling
      <4>1. CASE Sum(q) + Cost[c] <= AdmissionLimit(c)
        BY SMT, <1>0, <3>3, <3>5, <3>6, <4>1
      <4>2. CASE q = <<>>
        <5>1. Total(Cost, R) = 0
          BY <3>3, <4>2, EmptyTotal
        <5> QED
          BY SMT, <1>0, <3>5, <3>6, <5>1
      <4> QED
        BY <4>1, <4>2
    <3> QED
      BY <2>4, <3>7 DEF S
  <2> QED
    BY <2>3, <2>4
<1>15. SpansHold'
  BY <1>14 DEF SpansHold
<1> QED
  BY <1>13, <1>15, SpanSums, PTL

\* The backstop lets a call through only where the books have room.
LEMMA BackstopBooks ==
  ASSUME Booked, BackstopHoldsCeiling, IInv, NEW c \in Calls, phase[c] \in {"eval", "parked"},
         Backstop(c), now' = now, faults' = faults
  PROVE  Booked' /\ BackstopHoldsCeiling'
<1> DEFINE kept == Pruned(PodOf[c])
<1>1. CASE Sum(kept) + Cost[c] <= AdmissionLimit(c) \/ kept = <<>>
  BY <1>1, AdmitKeeps DEF Backstop
<1>2. CASE ~(Sum(kept) + Cost[c] <= AdmissionLimit(c) \/ kept = <<>>)
  BY <1>2, ParkKeeps DEF Backstop
<1> QED
  BY <1>1, <1>2

\* The wait the script answers with is at least a tick.
LEMMA WaitNat ==
  ASSUME IInv, NEW c \in Calls, NEW at \in Nat
  PROVE  WaitFor(c, at) \in Nat
<1>1. Refill \in Nat /\ Refill # 0
  <2>1. /\ Refill \in Nat /\ Window \in Nat /\ Ceiling = Refill * Window
        /\ OrderReserve \in Nat /\ OrderReserve < Ceiling
    BY ConfigAssumption DEF ConfigAssumption
  <2>2. Refill = 0 => Refill * Window = 0
    BY SMT, <2>1
  <2> QED
    BY SMT, <2>1, <2>2
<1>2. Decayed(at) \in Nat /\ Cost[c] \in Nat /\ AdmissionLimit(c) \in Nat
  BY DecayBounds, CostNat, ConfigAssumption DEF IInv
<1>3. Decayed(at) + Cost[c] - AdmissionLimit(c) + Refill - 1 \in Int
  BY SMT, <1>1, <1>2
<1>4. \A x \in Int : x \div Refill \in Int
  BY SMT, <1>1
<1>5. (Decayed(at) + Cost[c] - AdmissionLimit(c) + Refill - 1) \div Refill \in Int
  BY <1>3, <1>4
<1>6. \A x \in Int : Larger(1, x) \in Nat
  BY SMT DEF Larger
<1> QED
  BY <1>5, <1>6 DEF WaitFor

\* The books are kept, and the ceiling holds: one step per action.
LEMMA BooksNext ==
  ASSUME Booked, BackstopHoldsCeiling, IInv, [Next]_vars
  PROVE  Booked' /\ BackstopHoldsCeiling'
<1>0. /\ now \in Nat /\ phase \in [Calls -> Phases] /\ LocalTypes
      /\ records \in [Pods -> Seq(Record)] /\ wake \in [Calls -> Nat] /\ faults \in Nat
      /\ admittedAt \in [Calls -> Nat \cup {Never}]
  BY DEF IInv, Shape, Booked, LocalTypes
<1>1. now <= now /\ now <= now + 1 /\ now + 1 \in Nat /\ faults + 1 \in Nat
  BY SMT, <1>0
<1>2. CASE Tick
  <2>1. LocalTypes' /\ records' = records /\ now' = now + 1 /\ phase' = phase /\ admittedAt' = admittedAt
    BY <1>0, <1>2 DEF Tick, LocalTypes
  <2> QED
    BY <1>1, <2>1, QuietKeeps
<1>3. ASSUME NEW c \in Calls, Reserve(c) \/ Retry(c)
      PROVE  Booked' /\ BackstopHoldsCeiling'
  <2>1. /\ LocalTypes' /\ records' = records /\ now' = now /\ admittedAt' = admittedAt
        /\ phase' = [phase EXCEPT ![c] = "eval"]
    BY <1>0, <1>3 DEF Reserve, Retry, Send, LocalTypes
  <2>2. phase[c] = "asleep" \/ (phase[c] = "idle" /\ Cost[c] <= Ceiling)
    BY <1>3 DEF Reserve, Retry
  <2>3. /\ \A d \in Calls : phase'[d] = "local" <=> phase[d] = "local"
        /\ \A d \in Calls : phase'[d] # "idle" => phase[d] # "idle" \/ Cost[d] <= Ceiling
    BY <1>0, <2>1, <2>2
  <2> QED
    BY <1>0, <1>1, <2>1, <2>3, QuietKeeps
<1>4. ASSUME NEW c \in Calls, TimedOut(c)
      PROVE  Booked' /\ BackstopHoldsCeiling'
  <2>0. phase[c] = "eval" /\ now' = now /\ faults' = faults
    BY <1>4 DEF TimedOut
  <2>1. CASE c \in Orders
    BY <1>4, <2>0, <2>1, BackstopBooks DEF TimedOut
  <2>2. CASE c \notin Orders
    <3>1. /\ LocalTypes' /\ records' = records /\ admittedAt' = admittedAt
          /\ phase' = [phase EXCEPT ![c] = "skipped"]
      BY <1>0, <1>4, <2>0, <2>2 DEF TimedOut, LocalTypes
    <3>2. /\ \A d \in Calls : phase'[d] = "local" <=> phase[d] = "local"
          /\ \A d \in Calls : phase'[d] # "idle" => phase[d] # "idle"
      BY <1>0, <2>0, <3>1
    <3> QED
      BY <1>0, <1>1, <2>0, <3>1, <3>2, QuietKeeps
  <2> QED
    BY <2>1, <2>2
<1>5. ASSUME NEW c \in Calls, Unpark(c)
      PROVE  Booked' /\ BackstopHoldsCeiling'
  BY <1>5, BackstopBooks DEF Unpark
<1>6. ASSUME NEW c \in Calls, Abort(c)
      PROVE  Booked' /\ BackstopHoldsCeiling'
  <2>1. /\ LocalTypes' /\ records' = records /\ now' = now /\ admittedAt' = admittedAt
        /\ phase' = [phase EXCEPT ![c] = "aborted"] /\ phase[c] \in {"asleep", "parked"}
    BY <1>0, <1>1, <1>6 DEF Abort, LocalTypes
  <2>2. /\ \A d \in Calls : phase'[d] = "local" <=> phase[d] = "local"
        /\ \A d \in Calls : phase'[d] # "idle" => phase[d] # "idle"
    BY <1>0, <2>1
  <2> QED
    BY <1>0, <1>1, <2>1, <2>2, QuietKeeps
<1>7. ASSUME NEW p \in Pods, Eval(p)
      PROVE  Booked' /\ BackstopHoldsCeiling'
  <2> DEFINE c == Head(wire[p]).call
             at == Head(wire[p]).at
  <2>1. wire[p] # <<>> /\ now' = now /\ records' = records /\ faults' = faults
    BY <1>7 DEF Eval
  <2>2. c \in Calls /\ at \in Nat
    BY <2>1, HeadOfWire, ConfigAssumption DEF IInv
  <2>3. now + WaitFor(c, at) \in Nat
    <3>1. WaitFor(c, at) \in Nat
      BY <2>2, WaitNat
    <3> HIDE DEF c, at
    <3> QED
      BY SMT, <1>0, <3>1
  <2>4. CASE phase[c] # "eval"
    <3>1. phase' = phase /\ admittedAt' = admittedAt /\ wake' = wake
      <4>1. /\ phase' = [phase EXCEPT ![c] = phase[c]]
            /\ admittedAt' = [admittedAt EXCEPT ![c] = admittedAt[c]] \/ admittedAt' = admittedAt
            /\ wake' = [wake EXCEPT ![c] = wake[c]] \/ wake' = wake
        BY <1>7, <2>4 DEF Eval
      <4>2. ASSUME NEW f, NEW S, f \in [Calls -> S] PROVE [f EXCEPT ![c] = f[c]] = f
        BY <2>2, <4>2
      <4> HIDE DEF c
      <4> QED
        BY <1>0, <4>1, <4>2
    <3>2. LocalTypes'
      BY <1>0, <2>1, <3>1 DEF LocalTypes
    <3> QED
      BY <1>0, <1>1, <2>1, <3>1, <3>2, QuietKeeps
  <2>5. CASE phase[c] = "eval"
    <3>1. \/ /\ phase' = [phase EXCEPT ![c] = "admitted"]
             /\ admittedAt' = [admittedAt EXCEPT ![c] = now] /\ wake' = wake
          \/ /\ phase' = [phase EXCEPT ![c] = "asleep"]
             /\ wake' = [wake EXCEPT ![c] = now + WaitFor(c, at)] /\ admittedAt' = admittedAt
      BY <1>7, <2>5 DEF Eval
    <3> HIDE DEF c, at
    <3>2. /\ \A d \in Calls : phase'[d] = "local" <=> phase[d] = "local"
          /\ \A d \in Calls : phase'[d] # "idle" => phase[d] # "idle"
          /\ \A d \in Calls : phase[d] = "local" => admittedAt'[d] = admittedAt[d]
      BY <1>0, <2>2, <2>5, <3>1
    <3>3. LocalTypes'
      BY <1>0, <2>1, <2>2, <2>3, <3>1 DEF LocalTypes
    <3> QED
      BY <1>0, <1>1, <2>1, <3>2, <3>3, QuietKeeps
  <2> QED
    BY <2>4, <2>5
<1>8. ASSUME NEW p \in Pods, EvalResent(p) \/ Lose(p)
      PROVE  Booked' /\ BackstopHoldsCeiling'
  <2>1. /\ LocalTypes' /\ records' = records /\ now' = now /\ phase' = phase
        /\ admittedAt' = admittedAt
    BY <1>0, <1>1, <1>8 DEF EvalResent, Lose, LocalTypes
  <2> QED
    BY <1>0, <1>1, <2>1, QuietKeeps
<1>9. CASE UNCHANGED vars
  <2>1. /\ LocalTypes' /\ records' = records /\ now' = now /\ phase' = phase
        /\ admittedAt' = admittedAt
    BY <1>0, <1>9 DEF vars, LocalTypes
  <2> QED
    BY <1>0, <1>1, <2>1, QuietKeeps
<1> QED
  BY <1>2, <1>3, <1>4, <1>5, <1>6, <1>7, <1>8, <1>9 DEF Next, Progress

\* The books are right at the start.
LEMMA BooksInit == ASSUME Init PROVE Booked /\ BackstopHoldsCeiling
<1>1. /\ now = 0 /\ records = [p \in Pods |-> <<>>] /\ admittedAt = [c \in Calls |-> Never]
      /\ wake = [c \in Calls |-> 0] /\ faults = 0 /\ phase = [c \in Calls |-> "idle"]
  BY DEF Init
<1>2. /\ <<>> \in Seq(Record) /\ Len(<<>>) = 0 /\ 0 \in Nat /\ 1 .. 0 = {}
  BY SMT
<1>3. LocalTypes
  BY <1>1, <1>2 DEF LocalTypes
<1>4. \A p : Locals(p) = {}
  BY <1>1 DEF Locals
<1>5. ASSUME NEW p \in Pods PROVE Books(p, [i \in {} |-> i])
  <2>1. records[p] = <<>> /\ 1 .. Len(records[p]) = {}
    BY <1>1, <1>2
  <2> QED
    BY <1>4, <2>1 DEF Books, Named
<1>6. Booked
  BY <1>1, <1>3, <1>5 DEF Booked
<1>7. \A p, start : Span(p, start) = {}
  BY <1>4 DEF Span
<1>8. 0 <= Ceiling
  BY SMT, ConfigAssumption DEF ConfigAssumption
<1>9. SpansHold
  BY <1>7, <1>8, EmptyTotal DEF SpansHold
<1> QED
  BY <1>6, <1>9, SpanSums

\* The books are always right.
LEMMA BooksAlways == Spec => [](Booked /\ BackstopHoldsCeiling)
<1>1. Init => Booked /\ BackstopHoldsCeiling
  BY BooksInit
<1>2. Booked /\ BackstopHoldsCeiling /\ IInv /\ [Next]_vars => (Booked /\ BackstopHoldsCeiling)'
  BY BooksNext
<1> QED
  BY <1>1, <1>2, Inductive, PTL DEF Spec

\* createWeightGovernor's fallback: whatever Redis does, a pod that reserves on
\* its own lets no more than one ceiling of orders through in a window.
THEOREM LocalCeiling == Spec => []BackstopHoldsCeiling
  BY BooksAlways, PTL

\* Every variable keeps its type, and the bucket never counts past the ceiling.
THEOREM GovernorTypes == Spec => []TypeOK
<1>1. IInv /\ Booked => TypeOK
  <2> SUFFICES ASSUME IInv, Booked PROVE TypeOK
    OBVIOUS
  <2>1. bucket \in [used : 0 .. Ceiling, ts : Nat, expires : Nat]
    <3>1. Ceiling \in Nat /\ bucket \in [used : Nat, ts : Nat, expires : Nat] /\ bucket.used <= Ceiling
      BY LocalFacts DEF IInv, Shape, Bucket
    <3> QED
      BY SMT, <3>1
  <2> QED
    BY <2>1 DEF TypeOK, IInv, Shape, Booked, LocalTypes, Record, Command, Classes
<1> QED
  BY <1>1, Inductive, BooksAlways, PTL

=============================================================================
