----------------------------- MODULE MCOverride -----------------------------
(* Instances of Override for TLC; the bounds are given in the cfg files. *)
EXTENDS Override
=============================================================================
