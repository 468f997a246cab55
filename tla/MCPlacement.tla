----------------------------- MODULE MCPlacement -----------------------------
(* Placement with three orders: an entry, its exit or its duplicate, and one    *)
(* more.                                                                        *)
EXTENDS Placement
=============================================================================
