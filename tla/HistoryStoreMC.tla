---------------------------- MODULE HistoryStoreMC -----------------------------
(***************************************************************************)
(* Small instances of HistoryStore, its properties, and the refinement of  *)
(* AtomicHistory.                                                          *)
(***************************************************************************)
EXTENDS HistoryStoreProperties, TLC

CONSTANTS p1, p2, lights, garden, v1, v2, lights1, garden1

MCOwner == [n \in Names |-> IF n = garden1 THEN garden ELSE lights]

Symmetric == Permutations(Contents) \cup Permutations(Procs)
================================================================================
