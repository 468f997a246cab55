--------------------------- MODULE MCWeightGovernor ---------------------------
(***************************************************************************)
(* Two pods whose clocks differ by a tick: one places two orders, the      *)
(* other makes two bulk reads, one wider than the band leaves room for.    *)
(***************************************************************************)
EXTENDS WeightGovernor, TLC

CONSTANTS p1, p2, o1, o2, b1, b2

MCPods == {p1, p2}
MCSkew == (p1 :> 0) @@ (p2 :> 1)
MCCalls == {o1, o2, b1, b2}
MCPodOf == (o1 :> p1) @@ (o2 :> p1) @@ (b1 :> p2) @@ (b2 :> p2)
MCCost == (o1 :> 2) @@ (o2 :> 3) @@ (b1 :> 2) @@ (b2 :> 3)
MCOrders == {o1, o2}

\* One pod whose calls all reach Redis.
MCOnePod == {p1}
MCNoSkew == (p1 :> 0)
MCAllP1 == [c \in MCCalls |-> p1]
=============================================================================
