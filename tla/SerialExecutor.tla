--------------------------- MODULE SerialExecutor ---------------------------
(***************************************************************************)
(* What chain-by-key.ts promises its callers, with no map, no promises and *)
(* no clean-up: the calls of one key run one at a time, in the order in    *)
(* which they were made, and calls of different keys are independent.      *)
(***************************************************************************)
EXTENDS Naturals

CONSTANTS Keys, MaxCalls

Calls == 1..MaxCalls

VARIABLES made,    \* how many calls have been made
          key,     \* the key of each call
          stage    \* "none", then "pending", "running" and "done"

vars == <<made, key, stage>>

Init ==
  /\ made = 0
  /\ key \in [Calls -> Keys]
  /\ stage = [c \in Calls |-> "none"]

Submit(k) ==
  /\ made < MaxCalls
  /\ made' = made + 1
  /\ key' = [key EXCEPT ![made'] = k]
  /\ stage' = [stage EXCEPT ![made'] = "pending"]

\* A call runs once every earlier call of its key is done.
Begin(c) ==
  /\ stage[c] = "pending"
  /\ \A d \in Calls : d < c /\ key[d] = key[c] => stage[d] = "done"
  /\ stage' = [stage EXCEPT ![c] = "running"]
  /\ UNCHANGED <<made, key>>

End(c) ==
  /\ stage[c] = "running"
  /\ stage' = [stage EXCEPT ![c] = "done"]
  /\ UNCHANGED <<made, key>>

Next ==
  \/ \E k \in Keys : Submit(k)
  \/ \E c \in Calls : Begin(c) \/ End(c)

Spec == Init /\ [][Next]_vars
=============================================================================
