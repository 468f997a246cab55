------------------------------ MODULE MCFills ------------------------------
(* Two profiles of one account: a BUY of the first that fills in two        *)
(* trades and a SELL of the first that fills in one.                        *)
EXTENDS Fills, TLC

CONSTANTS First, Second, Buy, Sell

MCPlacer == [o \in Orders |-> First]
MCLegs   == [o \in Orders |-> IF o = Buy THEN 2 ELSE 1]
=============================================================================
