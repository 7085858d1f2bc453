------------------------------- MODULE Revisions -------------------------------
(***************************************************************************)
(* The data the history repository is made of, and what forgetting one     *)
(* dashboard does to it (store.py).                                        *)
(*                                                                         *)
(* A commit carries a stamp, standing for its time and message, and a      *)
(* tree: the content every dashboard has in it.  A content stands for the  *)
(* pair <dashboard>.yaml, meta/<dashboard>.yaml, written and removed       *)
(* together.  A revision is named by the hash of a commit and of all its   *)
(* ancestors, so it is modelled as the set of those commits: two revisions *)
(* are equal exactly when git gives them the same name, and a rewritten    *)
(* history gets the old names back wherever nothing in it has changed.     *)
(* The history is linear; the empty set is a branch without a commit.      *)
(***************************************************************************)
EXTENDS Naturals

CONSTANTS
    Keys,       \* the dashboards
    Contents,   \* what a dashboard can look like
    Absent      \* the dashboard has no file in a tree

ASSUME AbsentIsNoContent == Absent \notin Contents

Trees == [Keys -> Contents \cup {Absent}]
Commits == [at : Nat, tree : Trees]

EmptyTree == [k \in Keys |-> Absent]

--------------------------------------------------------------------------------
(* Walking a history.                                                      *)

Older(h, c) == {e \in h : e.at < c.at}

Upto(h, c) == {e \in h : e.at <= c.at}

Newest(h) == CHOOSE c \in h : \A e \in h : e.at <= c.at

TreeOf(h) == IF h = {} THEN EmptyTree ELSE Newest(h).tree

(* Every revision a walk from h meets, h itself included.                  *)
History(h) == {Upto(h, c) : c \in h}

(* The contents stored in the trees of a revision.                         *)
BlobsOf(h) == {c.tree[k] : c \in h, k \in Keys} \ {Absent}

(* What a dashboard's history lists: when it changed, and into what.        *)
ChangesOf(h, k) ==
    {[at |-> c.at, content |-> c.tree[k]] :
        c \in {e \in h : e.tree[k] # TreeOf(Older(h, e))[k]}}

--------------------------------------------------------------------------------
(* Forgetting.                                                             *)

Without(tree, k) == [tree EXCEPT ![k] = Absent]

(* A commit survives unless it has become a duplicate of what stands       *)
(* before it; the first one is dropped when nothing is left in it.         *)
Survives(h, c, k) == Without(c.tree, k) # Without(TreeOf(Older(h, c)), k)

(* The history h as it would be had k never existed.  For a revision r of  *)
(* h, Rewritten(r, k) is the nearest surviving ancestor of r, under its    *)
(* new name, and {} when none is left.                                     *)
Rewritten(h, k) ==
    {[at |-> c.at, tree |-> Without(c.tree, k)] :
        c \in {e \in h : Survives(h, e, k)}}
================================================================================
