---------------------------- MODULE StoreReadersMC -----------------------------
(***************************************************************************)
(* Small instances of StoreReaders.                                        *)
(***************************************************************************)
EXTENDS StoreReaders, TLC

CONSTANTS p1, lights, garden, v1, r1, r2, garden1

MCOwner == [n \in Names |-> garden]

Symmetric == Permutations(Keys) \cup Permutations(Readers)
================================================================================
