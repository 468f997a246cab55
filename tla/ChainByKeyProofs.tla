-------------------------- MODULE ChainByKeyProofs --------------------------
(***************************************************************************)
(* Mutual exclusion and absence of leaks of the serial-by-key executor, for *)
(* every set of keys and every number of calls.                            *)
(*                                                                         *)
(* MutualExclusion is not inductive: nothing in it stops two waiting calls *)
(* from becoming ready together.  The strengthening says that the          *)
(* unfinished calls of a key form one chain in call order: a ready call is *)
(* the oldest unfinished one (HeadIsOldest), no call of the key lies       *)
(* between a call and its predecessor (Adjacent), and the map holds the    *)
(* newest call (TailIsNewest).                                             *)
(***************************************************************************)
EXTENDS ChainByKey, TLAPS

Called(c) == phase[c] # "idle"

\* The calls made so far are the first `entered' ones; the others are blank.
Numbered ==
  \A c \in Calls : /\ Called(c) <=> c <= entered
                   /\ ~Called(c) => prev[c] = None

Adjacent ==
  \A c \in Calls : prev[c] # None =>
      /\ Called(c)
      /\ prev[c] < c
      /\ key[prev[c]] = key[c]
      /\ \A e \in Calls : Called(e) /\ key[e] = key[c] => e <= prev[c] \/ c <= e

HeadIsOldest ==
  \A c, d \in Calls :
      Unfinished(c) /\ Unfinished(d) /\ key[c] = key[d] /\ Ready(c) => c <= d

BusyIsReady == \A c \in Calls : Busy(c) => Ready(c)

TailIsNewest ==
  \A k \in Keys :
      /\ tails[k] = None => \A c \in Calls : key[c] = k => ~Unfinished(c)
      /\ tails[k] # None => /\ Unfinished(tails[k])
                            /\ key[tails[k]] = k
                            /\ \A c \in Calls : Called(c) /\ key[c] = k => c <= tails[k]

IInv == TypeOK /\ Numbered /\ Adjacent /\ HeadIsOldest /\ BusyIsReady /\ TailIsNewest

-----------------------------------------------------------------------------
\* The invariant holds before the first run() call.
LEMMA InitIInv == Init => IInv
<1>1. (CHOOSE k \in Keys : TRUE) \in Keys
  BY KeysAssumption
<1>2. Init => key \in [Calls -> Keys]
  BY <1>1, Zenon DEF Init
<1>3. Init => TypeOK
  <2>1. Init => /\ entered = 0
                /\ prev  = [c \in Calls |-> None]
                /\ phase = [c \in Calls |-> "idle"]
                /\ tails = [k \in Keys |-> None]
    BY Zenon DEF Init
  <2> QED
    BY <2>1, <1>2, MaxCallsAssumption DEF TypeOK, Phases, None, Calls
<1>4. Init => Numbered /\ Adjacent /\ HeadIsOldest /\ BusyIsReady /\ TailIsNewest
  BY MaxCallsAssumption
  DEF Init, Numbered, Adjacent, HeadIsOldest, BusyIsReady, TailIsNewest,
      Called, Unfinished, Busy, Phases, None, Calls
<1> QED
  BY <1>3, <1>4 DEF IInv

\* run(): the new call is the newest of its key and is ready only if the key
\* had no unfinished call.
LEMMA RunIInv == ASSUME IInv, NEW k \in Keys, Run(k) PROVE IInv'
<1> USE MaxCallsAssumption DEF IInv, TypeOK, None, Calls, Phases
<1> PICK n \in Calls : n = entered + 1
  BY DEF Run
<1>1. entered \in Nat /\ ~Called(n) /\ prev[n] = None
  BY DEF Run, Numbered
<1>2. TypeOK'
  BY DEF Run
<1>3. \A c \in Calls : c # n => /\ key'[c] = key[c]
                                /\ prev'[c] = prev[c]
                                /\ phase'[c] = phase[c]
  BY DEF Run
<1>4. key'[n] = k /\ prev'[n] = tails[k] /\ phase'[n] = "waiting" /\ entered' = n
  BY <1>1 DEF Run
<1>5. \A j \in Keys : tails'[j] = IF j = k THEN n ELSE tails[j]
  BY DEF Run
<1>6. \A c \in Calls : c # n => prev[c] # n
  BY <1>1 DEF Adjacent, Numbered, Called
<1>7. Numbered'
  BY <1>1, <1>3, <1>4 DEF Numbered, Called
<1>8. tails[k] # None => tails[k] \in Calls /\ Unfinished(tails[k]) /\ tails[k] <= entered /\ tails[k] # n
  BY <1>1 DEF TailIsNewest, Unfinished, Numbered, Called
<1>9. Adjacent'
  <2>1. ASSUME NEW c \in Calls, c # n, prev[c] # None
        PROVE  /\ Called(c)' /\ prev[c] < c /\ key'[prev[c]] = key'[c]
               /\ \A e \in Calls : Called(e)' /\ key'[e] = key'[c] => e <= prev[c] \/ c <= e
    <3>1. prev[c] # n /\ prev[c] \in Calls /\ c <= n
      BY <1>1, <1>6, <2>1 DEF Adjacent, Numbered
    <3> QED
      BY <1>3, <2>1, <3>1 DEF Adjacent, Called
  <2>2. ASSUME tails[k] # None
        PROVE  /\ tails[k] < n /\ key'[tails[k]] = k
               /\ \A e \in Calls : Called(e)' /\ key'[e] = k => e <= tails[k] \/ n <= e
    <3>1. key[tails[k]] = k /\ \A e \in Calls : Called(e) /\ key[e] = k => e <= tails[k]
      BY <2>2 DEF TailIsNewest
    <3> QED
      BY <1>1, <1>3, <1>8, <2>2, <3>1 DEF Called
  <2> QED
    BY <1>3, <1>4, <2>1, <2>2 DEF Adjacent, Called
<1>10. \A c \in Calls : c # n => (Ready(c)' <=> Ready(c))
  BY <1>1, <1>3, <1>6 DEF Ready
<1>11. Ready(n)' => tails[k] = None
  BY <1>3, <1>4, <1>8 DEF Ready, Unfinished
<1>12. HeadIsOldest'
  BY <1>1, <1>3, <1>4, <1>10, <1>11 DEF HeadIsOldest, Unfinished, TailIsNewest, Numbered, Called
<1>13. BusyIsReady'
  BY Zenon, <1>3, <1>4, <1>10 DEF BusyIsReady, Busy
<1>14. TailIsNewest'
  <2>1. ASSUME NEW j \in Keys, j # k PROVE tails'[j] = tails[j] /\ tails[j] # n
    BY <2>1, <1>1, <1>5 DEF TailIsNewest, Numbered, Unfinished, Called
  <2>2. \A c \in Calls : Called(c)' => c <= n
    BY <1>4, <1>7 DEF Numbered, Called
  <2>3. Unfinished(n)'
    BY <1>4 DEF Unfinished
  <2> SUFFICES ASSUME NEW j \in Keys
               PROVE  /\ tails'[j] = None => \A c \in Calls : key'[c] = j => ~Unfinished(c)'
                      /\ tails'[j] # None =>
                           /\ phase'[tails'[j]] \in Phases \ {"idle", "cleaned"}
                           /\ key'[tails'[j]] = j
                           /\ \A c \in Calls : Called(c)' /\ key'[c] = j => c <= tails'[j]
    BY DEF TailIsNewest, Unfinished
  <2>4. CASE j = k
    BY <2>4, <2>2, <2>3, <1>4, <1>5 DEF Unfinished
  <2>5. CASE j # k
    BY SMTT(30), <2>5, <2>1, <1>3, <1>4 DEF TailIsNewest, Unfinished, Called
  <2> QED
    BY <2>4, <2>5
<1> QED
  BY <1>2, <1>7, <1>9, <1>12, <1>13, <1>14

\* fn starting or settling moves no pointer and finishes no call.
LEMMA MoveIInv == ASSUME IInv, NEW c \in Calls, Start(c) \/ Settle(c) PROVE IInv'
<1> USE DEF IInv, TypeOK, None, Calls, Phases
<1>1. TypeOK'
  BY DEF Start, Settle
<1>3. UNCHANGED <<entered, key, prev, tails>>
  BY DEF Start, Settle
<1>p. /\ phase[c] \in {"waiting", "running"} /\ phase'[c] \in {"running", "resolved", "rejected"}
      /\ \A d \in Calls : d # c => phase'[d] = phase[d]
  BY Zenon DEF Start, Settle
<1>2. \A d \in Calls : /\ Called(d)' <=> Called(d)
                       /\ Unfinished(d)' <=> Unfinished(d)
                       /\ Ready(d)' <=> Ready(d)
  <2>1. \A d \in Calls : (phase'[d] = "idle" <=> phase[d] = "idle") /\ (phase'[d] = "cleaned" <=> phase[d] = "cleaned")
    BY <1>p
  <2>2. \A d \in Calls : prev[d] # None => prev[d] \in Calls
    BY DEF TypeOK
  <2>3. \A d \in Calls : phase[d] \in Phases /\ phase'[d] \in Phases
    BY <1>1
  <2> QED
    BY <1>3, <2>1, <2>2, <2>3 DEF Called, Unfinished, Ready
<1>4. Ready(c)
  BY DEF Start, Settle, BusyIsReady, Busy
<1>5. Numbered' /\ Adjacent' /\ HeadIsOldest' /\ TailIsNewest'
  BY <1>2, <1>3 DEF Numbered, Adjacent, HeadIsOldest, TailIsNewest
<1>6. BusyIsReady'
  BY Zenon, <1>2, <1>4 DEF BusyIsReady, Busy, Start, Settle
<1> QED
  BY <1>1, <1>5, <1>6

\* The cleanup of the oldest call hands the key to its successor alone, and
\* drops the map entry only when there is no successor.
LEMMA CleanupIInv == ASSUME IInv, NEW c \in Calls, Cleanup(c) PROVE IInv'
<1> USE DEF IInv, TypeOK, None, Calls, Phases
<1>1. TypeOK'
  BY DEF Cleanup, Release
<1>2. Busy(c) /\ Ready(c) /\ Unfinished(c)
  BY DEF Cleanup, Busy, BusyIsReady, Unfinished
<1>3. UNCHANGED <<entered, key, prev>> /\ phase'[c] = "cleaned"
  BY DEF Cleanup
<1>4. \A d \in Calls : d # c => phase'[d] = phase[d]
  BY DEF Cleanup
<1>5. \A d \in Calls : /\ Called(d)' <=> Called(d)
                       /\ Unfinished(d)' <=> Unfinished(d) /\ d # c
                       /\ Ready(d)' <=> Ready(d) \/ prev[d] = c
  BY <1>2, <1>3, <1>4 DEF Called, Unfinished, Ready, Busy
<1>6. Numbered' /\ Adjacent'
  BY <1>3, <1>5 DEF Numbered, Adjacent
<1>7. \A d \in Calls : Unfinished(d) /\ key[d] = key[c] => c <= d
  BY <1>2 DEF HeadIsOldest
<1>8. HeadIsOldest'
  <2> SUFFICES ASSUME NEW d \in Calls, NEW e \in Calls, Unfinished(d), Unfinished(e),
                      d # c, e # c, key[d] = key[e], Ready(d) \/ prev[d] = c
               PROVE  d <= e
    BY <1>3, <1>5 DEF HeadIsOldest
  <2>1. CASE Ready(d)
    BY <2>1 DEF HeadIsOldest
  <2>2. CASE prev[d] = c
    BY <2>2, <1>7 DEF Adjacent, Unfinished, Called
  <2> QED
    BY <2>1, <2>2
<1>9. BusyIsReady'
  BY <1>3, <1>4, <1>5 DEF BusyIsReady, Busy
<1>10. TailIsNewest'
  <2>1. CASE tails[key[c]] = c
    <3>1. \A d \in Calls : Unfinished(d) /\ key[d] = key[c] => d = c
      BY <2>1, <1>7 DEF TailIsNewest, Unfinished, Called
    <3>2. \A k \in Keys : tails'[k] = IF k = key[c] THEN None ELSE tails[k]
      BY <2>1 DEF Cleanup, Release
    <3> QED
      BY <3>1, <3>2, <1>3, <1>5 DEF TailIsNewest
  <2>2. CASE tails[key[c]] # c
    <3>1. tails' = tails
      BY <2>2 DEF Cleanup, Release
    <3>2. \A k \in Keys : tails[k] = c => key[c] = k
      BY DEF TailIsNewest
    <3>3. \A k \in Keys : tails[k] # c
      BY <3>2, <2>2
    <3> QED
      BY <3>1, <3>3, <1>3, <1>5 DEF TailIsNewest
  <2> QED
    BY <2>1, <2>2
<1> QED
  BY <1>1, <1>6, <1>8, <1>9, <1>10

\* The chain structure is an invariant of the executor.
THEOREM ChainStructure == Spec => []IInv
<1>1. IInv /\ [Next]_vars => IInv'
  <2> SUFFICES ASSUME IInv, [Next]_vars PROVE IInv'
    OBVIOUS
  <2>1. ASSUME NEW k \in Keys, Run(k) PROVE IInv'
    BY <2>1, RunIInv
  <2>2. ASSUME NEW c \in Calls, Start(c) \/ Settle(c) PROVE IInv'
    BY <2>2, MoveIInv
  <2>3. ASSUME NEW c \in Calls, Cleanup(c) PROVE IInv'
    BY <2>3, CleanupIInv
  <2>4. CASE UNCHANGED vars
    BY <2>4 DEF vars, IInv, TypeOK, Numbered, Adjacent, HeadIsOldest, BusyIsReady,
                TailIsNewest, Called, Unfinished, Busy, Ready
  <2> QED
    BY <2>1, <2>2, <2>3, <2>4 DEF Next
<1> QED
  BY InitIInv, <1>1, PTL DEF Spec

\* Two calls with the same key never overlap: chainByKey is the lock the tick
\* path relies on.
THEOREM ChainMutualExclusion == Spec => []MutualExclusion
<1>1. IInv => MutualExclusion
  BY DEF IInv, TypeOK, MutualExclusion, HeadIsOldest, BusyIsReady, Busy, Unfinished, Phases, Calls
<1> QED
  BY <1>1, ChainStructure, PTL

\* The map keeps an entry exactly for the keys with unfinished calls.
THEOREM ChainNoLeak == Spec => []NoLeak
<1>1. IInv => NoLeak
  BY DEF IInv, TypeOK, NoLeak, TailIsNewest, None, Calls
<1> QED
  BY <1>1, ChainStructure, PTL

\* A call whose predecessor has been cleaned up has only finished calls before it.
LEMMA EarlierDone ==
  ASSUME IInv, NEW c \in Calls, NEW d \in Calls,
         Unfinished(c), Ready(c), d < c, key[d] = key[c]
  PROVE  phase[d] = "cleaned"
<1>1. ~Unfinished(d)
  BY DEF IInv, HeadIsOldest, TypeOK, Calls
<1>2. Called(d)
  BY MaxCallsAssumption DEF IInv, Numbered, TypeOK, Calls, Called, Unfinished
<1> QED
  BY <1>1, <1>2 DEF Unfinished, Called, IInv, TypeOK

\* The calls of a key run in the order of the run() calls. That a finished call
\* has only finished calls before it is the part HeadIsOldest does not say.
THEOREM ChainFifo == Spec => []Fifo
<1>1. Init => Fifo
  BY DEF Init, Fifo
<1>2. IInv /\ Fifo /\ [Next]_vars => Fifo'
  <2> SUFFICES ASSUME IInv, Fifo, [Next]_vars,
                      NEW c \in Calls, NEW d \in Calls,
                      c < d, key'[c] = key'[d], phase'[d] \notin {"idle", "waiting"}
               PROVE  phase'[c] = "cleaned"
    BY DEF Fifo
  <2> USE DEF IInv, TypeOK, Calls
  <2>1. ASSUME NEW k \in Keys, Run(k) PROVE phase'[c] = "cleaned"
    <3>1. d # entered + 1
      BY <2>1 DEF Run
    <3>2. key'[d] = key[d] /\ phase'[d] = phase[d]
      BY <2>1, <3>1 DEF Run
    <3>3. d <= entered /\ c # entered + 1
      BY <3>2, MaxCallsAssumption DEF Numbered, Called
    <3>4. key'[c] = key[c] /\ phase'[c] = phase[c]
      BY <2>1, <3>3 DEF Run
    <3> QED
      BY <3>2, <3>4 DEF Fifo
  <2>2. ASSUME NEW e \in Calls, Start(e) \/ Settle(e) PROVE phase'[c] = "cleaned"
    <3>1. /\ key' = key
          /\ phase[e] \in {"waiting", "running"} /\ phase'[e] # "idle"
          /\ \A x \in Calls : x # e => phase'[x] = phase[x]
      BY <2>2, Zenon DEF Start, Settle
    <3>2. CASE d = e
      <4>1. Unfinished(d) /\ Ready(d)
        BY <2>2, <3>2 DEF Start, Settle, Unfinished, BusyIsReady, Busy, Phases
      <4>2. phase[c] = "cleaned"
        BY <4>1, <3>1, EarlierDone
      <4> QED
        BY <4>2, <3>1
    <3>3. CASE d # e
      BY <3>1, <3>3 DEF Fifo
    <3> QED
      BY <3>2, <3>3
  <2>3. ASSUME NEW e \in Calls, Cleanup(e) PROVE phase'[c] = "cleaned"
    <3>1. /\ key' = key /\ phase'[e] = "cleaned"
          /\ phase[e] \notin {"idle", "waiting"}
          /\ \A x \in Calls : x # e => phase'[x] = phase[x]
      BY <2>3 DEF Cleanup
    <3>2. phase[d] \notin {"idle", "waiting"}
      BY <3>1
    <3>3. phase[c] = "cleaned"
      BY <3>1, <3>2 DEF Fifo
    <3> QED
      BY <3>1, <3>3
  <2>4. CASE UNCHANGED vars
    BY <2>4 DEF vars, Fifo
  <2> QED
    BY <2>1, <2>2, <2>3, <2>4 DEF Next
<1> QED
  BY <1>1, <1>2, ChainStructure, PTL DEF Spec

\* run() implements the serial executor: Start is its Begin, Cleanup its End, and
\* fn settling is invisible.
THEOREM ChainImplementsSerialExecutor == Spec => SerialPerKey
<1> USE DEF Calls, Abstract!Calls
<1>1. Init => Abstract!Init
  <2> SUFFICES ASSUME Init PROVE Abstract!Init
    OBVIOUS
  <2>1. IInv
    BY InitIInv
  <2>2. \A c \in Calls : Stage(c) = "none"
    BY Zenon DEF Init, Stage
  <2> QED
    BY <2>1, <2>2 DEF Init, Abstract!Init, IInv, TypeOK
<1>2. IInv /\ [Next]_vars => [Abstract!Next]_(Abstract!vars)
  <2> SUFFICES ASSUME IInv, [Next]_vars PROVE Abstract!Next \/ UNCHANGED Abstract!vars
    OBVIOUS
  <2>1. ASSUME NEW k \in Keys, Run(k) PROVE Abstract!Submit(k)
    <3>1. \A c \in Calls : Stage(c)' = IF c = entered' THEN "pending" ELSE Stage(c)
      BY <2>1, Zenon DEF Run, Stage, IInv, TypeOK
    <3> QED
      BY <2>1, <3>1, MaxCallsAssumption DEF Run, Abstract!Submit, IInv, TypeOK
  <2>2. ASSUME NEW e \in Calls, Start(e) PROVE Abstract!Begin(e)
    <3>1. Unfinished(e) /\ Ready(e) /\ phase[e] = "waiting"
      BY <2>2 DEF Start, Unfinished, Phases
    <3>2. \A d \in Calls : d < e /\ key[d] = key[e] => Stage(d) = "done"
      <4>1. \A d \in Calls : d < e /\ key[d] = key[e] => phase[d] = "cleaned"
        BY <3>1, EarlierDone
      <4> QED
        BY <4>1 DEF Stage
    <3>3. Stage(e) = "pending"
      BY <3>1 DEF Stage
    <3>4. \A c \in Calls : Stage(c)' = IF c = e THEN "running" ELSE Stage(c)
      BY <2>2, Zenon DEF Start, Stage, IInv, TypeOK
    <3> QED
      BY <2>2, <3>2, <3>3, <3>4 DEF Start, Abstract!Begin
  <2>3. ASSUME NEW e \in Calls, Settle(e) PROVE UNCHANGED Abstract!vars
    <3>1. \A c \in Calls : Stage(c)' = Stage(c)
      BY <2>3, Zenon DEF Settle, Stage, IInv, TypeOK
    <3> QED
      BY <2>3, <3>1 DEF Settle, Abstract!vars
  <2>4. ASSUME NEW e \in Calls, Cleanup(e) PROVE Abstract!End(e)
    <3>1. Stage(e) = "running"
      BY <2>4 DEF Cleanup, Stage
    <3>2. \A c \in Calls : Stage(c)' = IF c = e THEN "done" ELSE Stage(c)
      BY <2>4, Zenon DEF Cleanup, Stage, IInv, TypeOK
    <3> QED
      BY <2>4, <3>1, <3>2 DEF Cleanup, Abstract!End
  <2>5. CASE UNCHANGED vars
    BY <2>5 DEF vars, Abstract!vars, Stage
  <2> QED
    BY <2>1, <2>2, <2>3, <2>4, <2>5 DEF Next, Abstract!Next
<1> QED
  BY <1>1, <1>2, ChainStructure, PTL DEF Spec, SerialPerKey, Abstract!Spec
=============================================================================
