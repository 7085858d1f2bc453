-------------------------------- MODULE MarksMC --------------------------------
(***************************************************************************)
(* Small instances of Marks.                                               *)
(***************************************************************************)
EXTENDS Marks, TLC

CONSTANTS plain, edited

Symmetric == Permutations(Contents)
================================================================================
