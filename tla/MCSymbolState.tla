--------------------------- MODULE MCSymbolState ---------------------------
(* Instances of SymbolState for TLC; the bounds are given in the cfg files. *)
EXTENDS SymbolState
=============================================================================
