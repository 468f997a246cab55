----------------------------- MODULE ChainByKey -----------------------------
(***************************************************************************)
(* The serial-by-key executor that every tick, fill adoption and reconcile *)
(* of one (profile, symbol) runs through: a map from a key to the promise  *)
(* at the tail of that key's chain.                                        *)
(*                                                                         *)
(* A call is numbered by the order in which run() was entered.  The stored *)
(* tail is the `cleanup' promise of a call, which settles one microtask    *)
(* after the call itself: the two are separate steps here, because a run() *)
(* entered between them must still find the old tail.                      *)
(***************************************************************************)
EXTENDS Naturals

CONSTANTS Keys,      \* `${profileId}:${symbol}' strings
          MaxCalls   \* bound on the calls of one behaviour

ASSUME KeysAssumption == Keys # {}
ASSUME MaxCallsAssumption == MaxCalls \in Nat

None == 0            \* no promise: Promise.resolve() or an absent map entry

Calls == 1..MaxCalls

VARIABLES entered,   \* how many run() calls have been made
          key,       \* key[c]: the key of call c
          prev,      \* prev[c]: the tail that call c was chained behind
          phase,     \* phase[c]: where the promise of call c has got to
          tails      \* the Map<string, Promise>; None is an absent entry

vars == <<entered, key, prev, phase, tails>>

Phases == {"idle", "waiting", "running", "resolved", "rejected", "cleaned"}

Init ==
  /\ entered = 0
  /\ key   = [c \in Calls |-> CHOOSE k \in Keys : TRUE]
  /\ prev  = [c \in Calls |-> None]
  /\ phase = [c \in Calls |-> "idle"]
  /\ tails = [k \in Keys |-> None]

\* run(key, fn): entered synchronously, chained behind whatever tail is stored.
Run(k) ==
  /\ entered < MaxCalls
  /\ LET c == entered + 1 IN
       /\ entered' = c
       /\ key'   = [key EXCEPT ![c] = k]
       /\ prev'  = [prev EXCEPT ![c] = tails[k]]
       /\ phase' = [phase EXCEPT ![c] = "waiting"]
       /\ tails' = [tails EXCEPT ![k] = c]

\* prev.then(fn, fn): fn starts once the predecessor's promise has settled,
\* however it settled.
Ready(c) == prev[c] # None => phase[prev[c]] = "cleaned"

Start(c) ==
  /\ phase[c] = "waiting"
  /\ Ready(c)
  /\ phase' = [phase EXCEPT ![c] = "running"]
  /\ UNCHANGED <<entered, key, prev, tails>>

\* fn resolves, or throws; the caller sees either through `next'.
Settle(c) ==
  /\ phase[c] = "running"
  /\ \E how \in {"resolved", "rejected"} : phase' = [phase EXCEPT ![c] = how]
  /\ UNCHANGED <<entered, key, prev, tails>>

\* Mutants of Release: drop the entry blindly, never drop it.
BlindRelease(c) == [tails EXCEPT ![key[c]] = None]
NoRelease(c) == tails

\* next.finally(...): the entry is dropped only while it is still this call's.
Release(c) ==
  IF tails[key[c]] = c THEN [tails EXCEPT ![key[c]] = None] ELSE tails

\* Mutant of Cleanup: next.then(...) in place of next.finally(...).
CleanupOnSuccess(c) ==
  /\ phase[c] = "resolved"
  /\ phase' = [phase EXCEPT ![c] = "cleaned"]
  /\ tails' = Release(c)
  /\ UNCHANGED <<entered, key, prev>>

Cleanup(c) ==
  /\ phase[c] \in {"resolved", "rejected"}
  /\ phase' = [phase EXCEPT ![c] = "cleaned"]
  /\ tails' = Release(c)
  /\ UNCHANGED <<entered, key, prev>>

Next ==
  \/ \E k \in Keys : Run(k)
  \/ \E c \in Calls : Start(c) \/ Settle(c) \/ Cleanup(c)

\* The event loop runs every ready continuation; fn is assumed to settle, which
\* is what the deadlines on the tick path are for.  Nobody is obliged to call run().
Fairness == \A c \in Calls : WF_vars(Start(c)) /\ WF_vars(Settle(c)) /\ WF_vars(Cleanup(c))

Spec == Init /\ [][Next]_vars

FairSpec == Spec /\ Fairness

-----------------------------------------------------------------------------
TypeOK ==
  /\ entered \in 0..MaxCalls
  /\ key   \in [Calls -> Keys]
  /\ prev  \in [Calls -> {None} \cup Calls]
  /\ phase \in [Calls -> Phases]
  /\ tails \in [Keys -> {None} \cup Calls]

\* Inside fn, or with its continuation still to run.
Busy(c) == phase[c] \in {"running", "resolved", "rejected"}

Unfinished(c) == phase[c] \in Phases \ {"idle", "cleaned"}

\* Two calls with one key never overlap: the single-replica worker's only lock.
MutualExclusion ==
  \A c, d \in Calls : Busy(c) /\ Busy(d) /\ key[c] = key[d] => c = d

\* The map holds an entry exactly for the keys with unfinished work, so size()
\* does not grow with the number of symbols ever ticked.
NoLeak ==
  \A k \in Keys : tails[k] # None <=> \E c \in Calls : Unfinished(c) /\ key[c] = k

\* Calls of one key run in the order they were made.
Fifo ==
  \A c, d \in Calls : c < d /\ key[c] = key[d] /\ phase[d] \notin {"idle", "waiting"}
                        => phase[c] = "cleaned"

\* A call that was made runs, even behind one that threw.
EveryCallRuns == \A c \in Calls : phase[c] = "waiting" ~> Busy(c)

\* The executor implements its abstract specification. A call counts as running
\* until its continuation has run, since only then does the next one start.
Stage(c) ==
  IF phase[c] = "idle" THEN "none"
  ELSE IF phase[c] = "waiting" THEN "pending"
  ELSE IF phase[c] = "cleaned" THEN "done" ELSE "running"

Abstract == INSTANCE SerialExecutor WITH made <- entered, stage <- [c \in Calls |-> Stage(c)]

\* The map of promises, its compare-and-delete and its microtask of delay are
\* invisible: every behaviour of run() is one of a serial executor per key.
SerialPerKey == Abstract!Spec
=============================================================================
