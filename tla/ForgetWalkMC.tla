----------------------------- MODULE ForgetWalkMC ------------------------------
(***************************************************************************)
(* ForgetWalk on every history of a bounded length in which each commit    *)
(* changes something, as every commit of the store does.                   *)
(***************************************************************************)
EXTENDS ForgetWalk

CONSTANTS MaxLength, lights, garden, v1, v2

Chain(n, trees) == {[at |-> i, tree |-> trees[i]] : i \in 1..n}

MCHistories ==
    UNION {{Chain(n, trees) : trees \in {f \in [1..n -> Trees] :
                /\ \A i \in 1..(n - 1) : f[i] # f[i + 1]
                /\ n > 0 => f[1] # EmptyTree}} : n \in 0..MaxLength}
================================================================================
