------------------------------ MODULE ForgetWalk -------------------------------
(***************************************************************************)
(* The loop of HistoryStore._forget (store.py) that rebuilds the history   *)
(* without one dashboard, commit by commit, the oldest first.  The other   *)
(* modules use its result, Rewritten and Survives of Revisions; here they  *)
(* are shown to be what the loop computes.                                 *)
(***************************************************************************)
EXTENDS Revisions

CONSTANT Histories   \* the histories the walk is started on

ASSUME HistoriesAssumption ==
    \A h \in Histories :
        /\ h \subseteq Commits
        /\ \A c, d \in h : c.at = d.at => c = d

VARIABLES
    history,    \* the branch as it is
    key,        \* the dashboard to forget
    todo,       \* the commits the loop has not come to
    nearest,    \* for a revision walked, its nearest survivor; {} for none
    kept,       \* the revisions walked that have a counterpart of their own
    removed     \* how many have none

vars == <<history, key, todo, nearest, kept, removed>>

(* A commit without a parent is treated like one whose parents are gone.   *)
Init ==
    /\ history \in Histories /\ key \in Keys
    /\ todo = history
    /\ nearest = [r \in {{}} |-> {}]
    /\ kept = {}
    /\ removed = 0

Oldest(c) == c \in todo /\ \A e \in todo : c.at <= e.at

Parent(c) == nearest[Older(history, c)]

(* Mutant: a duplicate of the parent is kept.                              *)
RedundantIfEmpty(c) == Parent(c) = {} /\ Without(c.tree, key) = EmptyTree
(* Mutant: every commit that changed the dashboard goes, whoever else it   *)
(* changed.                                                                *)
RedundantIfTouched(c) == TreeOf(Older(history, c))[key] # c.tree[key]

(* The tree has become the parent's, or is the first one and empty.        *)
Redundant(c) ==
    \/ Parent(c) # {} /\ TreeOf(Parent(c)) = Without(c.tree, key)
    \/ Parent(c) = {} /\ Without(c.tree, key) = EmptyTree

Fresh(c) == Parent(c) \cup {[at |-> c.at, tree |-> Without(c.tree, key)]}

Record(c, survivor) ==
    /\ todo' = todo \ {c}
    /\ nearest' = [r \in DOMAIN nearest \cup {Upto(history, c)} |->
                        IF r = Upto(history, c) THEN survivor ELSE nearest[r]]
    /\ UNCHANGED <<history, key>>

(* Mutant: the survivor of a dropped commit is none, not its parent's.     *)
DropWithAncestors(c) ==
    /\ Oldest(c)
    /\ Redundant(c)
    /\ Record(c, {})
    /\ removed' = removed + 1
    /\ UNCHANGED kept

Drop(c) ==
    /\ Oldest(c)
    /\ Redundant(c)
    /\ Record(c, Parent(c))
    /\ removed' = removed + 1
    /\ UNCHANGED kept

Keep(c) ==
    /\ Oldest(c)
    /\ ~Redundant(c)
    /\ Record(c, Fresh(c))
    /\ kept' = kept \cup {Upto(history, c)}
    /\ UNCHANGED removed

Next == \E c \in todo : Drop(c) \/ Keep(c)

Spec == Init /\ [][Next]_vars

--------------------------------------------------------------------------------
(* The loop computes what Revisions defines, for every revision it has     *)
(* come to: its nearest survivor, and whether it is one itself.            *)
ComputesRewritten ==
    \A r \in DOMAIN nearest : nearest[r] = Rewritten(r, key)

ComputesSurvivors ==
    kept = {r \in DOMAIN nearest \ {{}} : Survives(r, Newest(r), key)}

(* Nothing is taken from anybody else: at its nearest survivor a revision  *)
(* reads as before for every other dashboard, and each of them has exactly *)
(* the changes it had.                                                     *)
OthersUntouched ==
    \A r \in DOMAIN nearest :
        /\ TreeOf(nearest[r]) = Without(TreeOf(r), key)
        /\ \A j \in Keys \ {key} : ChangesOf(nearest[r], j) = ChangesOf(r, j)
        /\ ChangesOf(nearest[r], key) = {}
================================================================================
