----------------------------- MODULE OperationsMC ------------------------------
(***************************************************************************)
(* Small instances of Operations.                                          *)
(***************************************************************************)
EXTENDS Operations, TLC

CONSTANTS clock, lamp, dim, bright, o1, o2

Symmetric == Permutations(Cards) \cup Permutations(Ops)
================================================================================
