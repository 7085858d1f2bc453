--------------------------- MODULE ForgetWalkProofs ----------------------------
(***************************************************************************)
(* The loop of _forget computes Rewritten and Survives, and takes nothing  *)
(* from any other dashboard, for every history.                            *)
(***************************************************************************)
EXTENDS ForgetWalk, TLAPS

--------------------------------------------------------------------------------
(* Revisions: the facts about them and their rewriting that the walk needs.*)

(* Commits of one branch: no two have the same stamp.                      *)
IsBranch(h) == h \subseteq Commits /\ \A c, d \in h : c.at = d.at => c = d

(* The commit c on top of the branch h.                                    *)
OnTop(h, c) == IsBranch(h) /\ c \in Commits /\ \A e \in h : e.at < c.at

Stripped(c, k) == [at |-> c.at, tree |-> Without(c.tree, k)]
Change(c, k) == [at |-> c.at, content |-> c.tree[k]]

(* A tree without a dashboard is a tree.                                   *)
LEMMA WithoutIsTree ==
    ASSUME NEW tree \in Trees, NEW k \in Keys
    PROVE  /\ Without(tree, k) \in Trees
           /\ Without(tree, k)[k] = Absent
           /\ \A j \in Keys \ {k} : Without(tree, k)[j] = tree[j]
           /\ Without(EmptyTree, k) = EmptyTree
  BY DEF Trees, Without, EmptyTree

(* The commit later than all others is the newest.                         *)
LEMMA NewestIs ==
    ASSUME NEW h, NEW c, OnTop(h, c)
    PROVE  Newest(h \cup {c}) = c /\ TreeOf(h \cup {c}) = c.tree
  <1> DEFINE all == h \cup {c}
  <1>1. \A d \in all : d.at \in Nat
    BY DEF OnTop, IsBranch, Commits
  <1>2. \A e \in all : e = c \/ e.at < c.at
    BY DEF OnTop
  <1>3. \A e \in all : e.at <= c.at
    BY <1>1, <1>2
  <1>4. PICK x \in all : x = Newest(all) /\ \A e \in all : e.at <= x.at
    BY <1>3 DEF Newest
  <1>5. c.at <= x.at /\ ~(x.at < c.at)
    BY <1>1, <1>4
  <1>6. QED
    BY <1>2, <1>4, <1>5 DEF TreeOf

(* A commit on top changes nothing about the commits below.                *)
LEMMA OnTopOrder ==
    ASSUME NEW h, NEW c, OnTop(h, c)
    PROVE  /\ IsBranch(h \cup {c}) /\ c \notin h
           /\ Older(h \cup {c}, c) = h
           /\ Upto(h \cup {c}, c) = h \cup {c}
           /\ \A e \in h : /\ Older(h \cup {c}, e) = Older(h, e)
                           /\ Upto(h \cup {c}, e) = Upto(h, e)
  <1>1. \A d \in h \cup {c} : d.at \in Nat
    BY DEF OnTop, IsBranch, Commits
  <1>2. QED
    BY <1>1 DEF OnTop, IsBranch, Older, Upto

(* A revision is its last commit on top of its parent, and its commits     *)
(* have the ancestors they have in the branch.                             *)
LEMMA UptoIsOnTop ==
    ASSUME NEW h, IsBranch(h), NEW c \in h
    PROVE  /\ OnTop(Older(h, c), c)
           /\ Upto(h, c) = Older(h, c) \cup {c}
           /\ \A e \in Older(h, c) : /\ Older(Older(h, c), e) = Older(h, e)
                                     /\ Upto(Older(h, c), e) = Upto(h, e)
  <1>1. \A d \in h : d.at \in Nat
    BY DEF IsBranch, Commits
  <1>2. \A d \in h : d.at <= c.at <=> d.at < c.at \/ d.at = c.at
    BY <1>1
  <1>3. QED
    BY <1>1, <1>2 DEF Older, Upto, IsBranch, OnTop

(* Rewriting a branch with one more commit: the rewritten branch, and the  *)
(* commit without the dashboard if it survives.                            *)
LEMMA RewrittenOnTop ==
    ASSUME NEW h, NEW c, OnTop(h, c), NEW k
    PROVE  Rewritten(h \cup {c}, k) =
             Rewritten(h, k) \cup (IF Without(c.tree, k) # Without(TreeOf(h), k)
                                   THEN {Stripped(c, k)} ELSE {})
  <1>1. \A e \in h : Survives(h \cup {c}, e, k) <=> Survives(h, e, k)
    BY OnTopOrder DEF Survives
  <1>2. Survives(h \cup {c}, c, k) <=> Without(c.tree, k) # Without(TreeOf(h), k)
    BY OnTopOrder DEF Survives
  <1>3. {e \in h \cup {c} : Survives(h \cup {c}, e, k)} =
          {e \in h : Survives(h, e, k)}
            \cup (IF Without(c.tree, k) # Without(TreeOf(h), k) THEN {c} ELSE {})
    BY <1>1, <1>2
  <1>4. QED
    BY <1>3 DEF Rewritten, Stripped

(* The changes of a branch with one more commit: its old ones, and those the*)
(* commit makes itself.                                                    *)
LEMMA ChangesOnTop ==
    ASSUME NEW h, NEW c, OnTop(h, c), NEW k
    PROVE  ChangesOf(h \cup {c}, k) =
             ChangesOf(h, k) \cup (IF c.tree[k] # TreeOf(h)[k]
                                   THEN {Change(c, k)} ELSE {})
  <1> /\ Older(h \cup {c}, c) = h
      /\ \A e \in h : Older(h \cup {c}, e) = Older(h, e)
    BY OnTopOrder
  <1>1. {e \in h \cup {c} : e.tree[k] # TreeOf(Older(h \cup {c}, e))[k]} =
          {e \in h : e.tree[k] # TreeOf(Older(h, e))[k]}
            \cup (IF c.tree[k] # TreeOf(h)[k] THEN {c} ELSE {})
    OBVIOUS
  <1>2. QED
    BY <1>1 DEF ChangesOf, Change

(* A rewritten branch is a branch, with stamps the old one had, and the    *)
(* dashboard is in none of its trees.                                      *)
LEMMA RewrittenIsBranch ==
    ASSUME NEW h, IsBranch(h), NEW k \in Keys
    PROVE  /\ IsBranch(Rewritten(h, k))
           /\ \A d \in Rewritten(h, k) : /\ \E e \in h : e.at = d.at
                                         /\ d.tree[k] = Absent
  <1>1. \A e \in h : Stripped(e, k) \in Commits /\ Stripped(e, k).tree[k] = Absent
    BY WithoutIsTree DEF IsBranch, Commits, Stripped
  <1>2. \A d \in Rewritten(h, k) : \E e \in h : d = Stripped(e, k)
    BY DEF Rewritten, Stripped
  <1>3. \A d \in Rewritten(h, k) : d \in Commits /\ d.tree[k] = Absent
    BY <1>1, <1>2
  <1>4. \A e, f \in h : Stripped(e, k).at = Stripped(f, k).at =>
                            Stripped(e, k) = Stripped(f, k)
    BY DEF IsBranch, Stripped
  <1>5. QED
    BY <1>2, <1>3, <1>4 DEF IsBranch, Stripped

--------------------------------------------------------------------------------
(* The walk.                                                               *)

(* What the loop has walked is the oldest part of the history, and every   *)
(* revision of it has been recorded.                                       *)
Walked == history \ todo
WalkInv ==
    /\ history \in Histories /\ key \in Keys
    /\ todo \subseteq history
    /\ \A d \in Walked, e \in todo : d.at < e.at
    /\ Walked \in DOMAIN nearest
    /\ \A r \in DOMAIN nearest \ {{}} : \E c \in Walked : r = Upto(history, c)
    /\ kept \subseteq DOMAIN nearest
    /\ nearest = [r \in DOMAIN nearest |-> nearest[r]]

(* The next commit's parent is the last revision walked.                   *)
LEMMA ParentIsWalked ==
    ASSUME WalkInv, NEW c, Oldest(c)
    PROVE  /\ IsBranch(history) /\ c \in history
           /\ Older(history, c) = Walked
           /\ Upto(history, c) = Walked \cup {c}
           /\ Upto(history, c) \notin DOMAIN nearest
  <1>1. IsBranch(history) /\ c \in history
    BY HistoriesAssumption DEF WalkInv, IsBranch, Oldest
  <1>2. \A e \in history : e.at \in Nat
    BY <1>1 DEF IsBranch, Commits
  <1>3. \A e \in todo : ~(e.at < c.at)
    BY <1>1, <1>2 DEF Oldest, WalkInv
  <1>4. Older(history, c) = Walked
    BY <1>1, <1>2, <1>3 DEF Older, Walked, WalkInv, Oldest
  <1>5. Upto(history, c) = Walked \cup {c}
    BY <1>1, <1>4, UptoIsOnTop
  <1>6. Upto(history, c) \notin DOMAIN nearest
    <2> SUFFICES ASSUME Upto(history, c) \in DOMAIN nearest PROVE FALSE
      OBVIOUS
    <2>1. c \in Upto(history, c)
      BY <1>5
    <2>2. PICK d \in Walked : Upto(history, c) = Upto(history, d)
      BY <2>1 DEF WalkInv
    <2>3. d \in history /\ d.at < c.at
      BY <1>1 DEF WalkInv, Walked, Oldest
    <2>4. c.at <= d.at
      BY <2>1, <2>2 DEF Upto
    <2>5. QED
      BY <1>1, <1>2, <2>3, <2>4
  <1>7. QED
    BY <1>1, <1>4, <1>5, <1>6

(* The walk begins in order: nothing walked but the empty branch.          *)
LEMMA WalkInvInit == Init => WalkInv
  <1> SUFFICES ASSUME Init PROVE WalkInv
    OBVIOUS
  <1> USE DEF Init, WalkInv, Walked
  <1>1. history \ todo = {} /\ DOMAIN nearest = {{}}
    OBVIOUS
  <1>2. QED
    BY <1>1

(* A commit kept or dropped leaves the walk in order.                      *)
LEMMA WalkInvStep == WalkInv /\ [Next]_vars => WalkInv'
  <1> SUFFICES ASSUME WalkInv, [Next]_vars PROVE WalkInv'
    OBVIOUS
  <1>1. ASSUME NEW c \in todo, NEW survivor, Oldest(c), Record(c, survivor),
               kept' \subseteq kept \cup {Upto(history, c)}
        PROVE  WalkInv'
    <2> DEFINE up == Upto(history, c)
    <2>1. /\ IsBranch(history) /\ c \in history
          /\ up = Walked \cup {c}
      BY <1>1, ParentIsWalked
    <2>2. history' = history /\ key' = key /\ todo' = todo \ {c}
      BY <1>1 DEF Record
    <2>3. nearest' = [r \in DOMAIN nearest \cup {up} |->
                          IF r = up THEN survivor ELSE nearest[r]]
      BY <1>1 DEF Record
    <2>4. DOMAIN nearest' = DOMAIN nearest \cup {up}
      BY <2>3
    <2>5. Walked' = Walked \cup {c}
      BY <1>1, <2>1, <2>2 DEF Walked, WalkInv
    <2>6. \A d \in Walked', e \in todo' : d.at < e.at
      <3>1. \A e \in history : e.at \in Nat
        BY <2>1 DEF IsBranch, Commits
      <3>2. \A e \in todo \ {c} : c.at < e.at
        BY <1>1, <2>1, <3>1 DEF Oldest, WalkInv, IsBranch
      <3>3. QED
        BY <2>2, <2>5, <3>2 DEF WalkInv
    <2>7. \A r \in DOMAIN nearest' \ {{}} : \E d \in Walked' : r = Upto(history', d)
      BY <2>2, <2>4, <2>5 DEF WalkInv
    <2>8. kept' \subseteq DOMAIN nearest'
      BY <1>1, <2>4 DEF WalkInv
    <2>9. nearest' = [r \in DOMAIN nearest' |-> nearest'[r]]
      BY <2>3
    <2>10. QED
      BY <2>1, <2>2, <2>4, <2>5, <2>6, <2>7, <2>8, <2>9 DEF WalkInv
  <1>2. CASE UNCHANGED vars
    BY <1>2 DEF vars, WalkInv, Walked
  <1>3. ASSUME NEW c \in todo, Drop(c) PROVE WalkInv'
    BY <1>1, <1>3 DEF Drop
  <1>4. ASSUME NEW c \in todo, Keep(c) PROVE WalkInv'
    BY <1>1, <1>4 DEF Keep
  <1>5. QED
    BY <1>2, <1>3, <1>4 DEF Next

(* The loop walks the history in order, and every parent before its child. *)
THEOREM WalkIsOrdered == Spec => []WalkInv
  <1>1. QED
    BY WalkInvInit, WalkInvStep, PTL DEF Spec
--------------------------------------------------------------------------------
(* What the loop has recorded so far, in terms of Revisions.               *)
Computed ==
    /\ ComputesRewritten
    /\ ComputesSurvivors
    /\ OthersUntouched

(* Whether a commit is redundant next to its parent's survivor is whether  *)
(* it does not survive.                                                    *)
LEMMA RedundantIsNotSurviving ==
    ASSUME WalkInv, Computed, NEW c, Oldest(c)
    PROVE  /\ Parent(c) = Rewritten(Walked, key)
           /\ TreeOf(Parent(c)) = Without(TreeOf(Walked), key)
           /\ Redundant(c) <=> Without(c.tree, key) = Without(TreeOf(Walked), key)
           /\ Redundant(c) <=> ~Survives(Upto(history, c), c, key)
  <1>1. /\ Older(history, c) = Walked /\ Walked \in DOMAIN nearest
        /\ IsBranch(history) /\ c \in history
    BY ParentIsWalked DEF WalkInv
  <1>2. /\ Parent(c) = Rewritten(Walked, key)
        /\ TreeOf(Parent(c)) = Without(TreeOf(Walked), key)
    BY <1>1 DEF Parent, Computed, ComputesRewritten, OthersUntouched
  <1>3. Redundant(c) <=> Without(c.tree, key) = TreeOf(Parent(c))
    BY DEF Redundant, TreeOf
  <1>4. OnTop(Walked, c) /\ Upto(history, c) = Walked \cup {c}
    BY <1>1, UptoIsOnTop
  <1>5. Older(Upto(history, c), c) = Walked
    BY <1>4, OnTopOrder
  <1>6. QED
    BY <1>2, <1>3, <1>5 DEF Survives

(* The survivor recorded for a commit is its rewriting, and reads the same *)
(* for everybody else.                                                     *)
LEMMA SurvivorIsRight ==
    ASSUME WalkInv, Computed, NEW c, Oldest(c),
           NEW survivor, survivor = IF Redundant(c) THEN Parent(c) ELSE Fresh(c)
    PROVE  LET up == Upto(history, c) IN
           /\ survivor = Rewritten(up, key)
           /\ TreeOf(survivor) = Without(TreeOf(up), key)
           /\ \A j \in Keys \ {key} : ChangesOf(survivor, j) = ChangesOf(up, j)
           /\ ChangesOf(survivor, key) = {}
  <1> DEFINE up == Upto(history, c)
             parent == Parent(c)
             fresh == Stripped(c, key)
  <1>1. /\ IsBranch(history) /\ c \in history /\ key \in Keys
        /\ OnTop(Walked, c) /\ up = Walked \cup {c}
        /\ Walked \in DOMAIN nearest /\ c.tree \in Trees /\ c \in Commits
    <2>1. IsBranch(history) /\ c \in history /\ Older(history, c) = Walked
      BY ParentIsWalked
    <2>2. OnTop(Walked, c) /\ up = Walked \cup {c}
      BY <2>1, UptoIsOnTop
    <2>3. QED
      BY <2>1, <2>2 DEF WalkInv, IsBranch, Commits
  <1>2. /\ parent = Rewritten(Walked, key)
        /\ TreeOf(parent) = Without(TreeOf(Walked), key)
        /\ Redundant(c) <=> Without(c.tree, key) = Without(TreeOf(Walked), key)
    BY RedundantIsNotSurviving
  <1>3. /\ \A j \in Keys \ {key} : ChangesOf(parent, j) = ChangesOf(Walked, j)
        /\ ChangesOf(parent, key) = {}
    <2>1. parent = nearest[Walked]
      BY ParentIsWalked DEF Parent
    <2>2. QED
      BY <1>1, <2>1 DEF Computed, OthersUntouched
  <1>4. TreeOf(up) = c.tree
    BY <1>1, NewestIs
  <1>5. Rewritten(up, key) =
          parent \cup (IF Redundant(c) THEN {} ELSE {fresh})
    BY <1>1, <1>2, RewrittenOnTop
  <1>6. \A j \in Keys : ChangesOf(up, j) =
          ChangesOf(Walked, j) \cup (IF c.tree[j] # TreeOf(Walked)[j]
                                     THEN {Change(c, j)} ELSE {})
    BY <1>1, ChangesOnTop
  <1>7. OnTop(parent, fresh)
    <2>1. IsBranch(Walked) /\ \A e \in Walked : e.at < c.at
      BY <1>1 DEF OnTop
    <2>2. IsBranch(parent) /\ \A d \in parent : \E e \in Walked : e.at = d.at
      BY <1>1, <1>2, <2>1, RewrittenIsBranch
    <2>3. fresh \in Commits
      BY <1>1, WithoutIsTree DEF Stripped, Commits
    <2>4. QED
      BY <2>1, <2>2, <2>3 DEF OnTop, Stripped
  <1>8. TreeOf(Walked) \in Trees
    <2>1. CASE Walked = {}
      BY <2>1, AbsentIsNoContent DEF TreeOf, EmptyTree, Trees
    <2>2. CASE Walked # {}
      <3>1. PICK d \in Walked : Walked = Upto(history, d)
        BY <1>1, <2>2 DEF WalkInv
      <3>2. d \in history /\ d.tree \in Trees
        BY <1>1, <3>1 DEF Walked, IsBranch, Commits
      <3>3. OnTop(Older(history, d), d) /\ Walked = Older(history, d) \cup {d}
        BY <1>1, <3>1, <3>2, UptoIsOnTop
      <3>4. TreeOf(Walked) = d.tree
        BY <3>3, NewestIs
      <3>5. QED
        BY <3>2, <3>4
    <2>3. QED
      BY <2>1, <2>2
  <1>9. /\ \A j \in Keys \ {key} : /\ Without(c.tree, key)[j] = c.tree[j]
                                   /\ Without(TreeOf(Walked), key)[j] = TreeOf(Walked)[j]
        /\ Without(c.tree, key)[key] = Absent
        /\ Without(TreeOf(Walked), key)[key] = Absent
    BY <1>1, <1>8, WithoutIsTree
  <1>10. CASE Redundant(c)
    <2>1. survivor = parent
      BY <1>10
    <2>2. survivor = Rewritten(up, key)
      BY <1>5, <1>10, <2>1
    <2>3. TreeOf(survivor) = Without(TreeOf(up), key)
      BY <1>2, <1>4, <1>10, <2>1
    <2>4. \A j \in Keys \ {key} : c.tree[j] = TreeOf(Walked)[j]
      BY <1>2, <1>9, <1>10
    <2>5. \A j \in Keys \ {key} : ChangesOf(survivor, j) = ChangesOf(up, j)
      BY <1>3, <1>6, <2>1, <2>4
    <2>6. QED
      BY <1>3, <2>1, <2>2, <2>3, <2>5
  <1>11. CASE ~Redundant(c)
    <2>1. survivor = parent \cup {fresh}
      BY <1>11 DEF Fresh, Stripped
    <2>2. survivor = Rewritten(up, key)
      BY <1>5, <1>11, <2>1
    <2>3. TreeOf(survivor) = fresh.tree /\ fresh.tree = Without(c.tree, key)
      BY <1>7, <2>1, NewestIs DEF Stripped
    <2>4. \A j \in Keys : ChangesOf(survivor, j) =
            ChangesOf(parent, j) \cup (IF fresh.tree[j] # TreeOf(parent)[j]
                                       THEN {Change(fresh, j)} ELSE {})
      <3>1. \A j \in Keys : ChangesOf(parent \cup {fresh}, j) =
              ChangesOf(parent, j) \cup (IF fresh.tree[j] # TreeOf(parent)[j]
                                         THEN {Change(fresh, j)} ELSE {})
        BY <1>7, ChangesOnTop
      <3> HIDE DEF fresh, parent
      <3>2. QED
        BY <2>1, <3>1
    <2>5. \A j \in Keys \ {key} : /\ fresh.tree[j] = c.tree[j]
                                  /\ TreeOf(parent)[j] = TreeOf(Walked)[j]
                                  /\ Change(fresh, j) = Change(c, j)
      BY <1>2, <1>9, <2>3 DEF Change, Stripped
    <2>6. \A j \in Keys \ {key} : ChangesOf(survivor, j) = ChangesOf(up, j)
      BY <1>3, <1>6, <2>4, <2>5, ZenonT(40)
    <2>7. ChangesOf(survivor, key) = {}
      BY <1>1, <1>2, <1>3, <1>9, <2>3, <2>4
    <2>8. QED
      BY <1>4, <2>2, <2>3, <2>6, <2>7
  <1>12. QED
    BY <1>10, <1>11

(* What holds of the revisions walked holds of the next one too.           *)
LEMMA ComputedStep == WalkInv /\ Computed /\ [Next]_vars => Computed'
  <1> SUFFICES ASSUME WalkInv, Computed, [Next]_vars PROVE Computed'
    OBVIOUS
  <1>1. ASSUME NEW c \in todo, Oldest(c),
               NEW survivor, survivor = IF Redundant(c) THEN Parent(c) ELSE Fresh(c),
               Record(c, survivor),
               kept' = IF Redundant(c) THEN kept ELSE kept \cup {Upto(history, c)}
        PROVE  Computed'
    <2> DEFINE up == Upto(history, c)
    <2>1. /\ history' = history /\ key' = key
          /\ DOMAIN nearest' = DOMAIN nearest \cup {up}
          /\ up \notin DOMAIN nearest
          /\ nearest'[up] = survivor
          /\ \A r \in DOMAIN nearest : nearest'[r] = nearest[r]
      BY <1>1, ParentIsWalked DEF Record
    <2>2. /\ survivor = Rewritten(up, key)
          /\ TreeOf(survivor) = Without(TreeOf(up), key)
          /\ \A j \in Keys \ {key} : ChangesOf(survivor, j) = ChangesOf(up, j)
          /\ ChangesOf(survivor, key) = {}
      BY <1>1, SurvivorIsRight
    <2>3. ComputesRewritten'
      BY <2>1, <2>2 DEF Computed, ComputesRewritten
    <2>4. OthersUntouched'
      BY <2>1, <2>2 DEF Computed, OthersUntouched
    <2>5. Redundant(c) <=> ~Survives(up, Newest(up), key)
      <3>1. OnTop(Older(history, c), c) /\ up = Older(history, c) \cup {c}
        BY <1>1, ParentIsWalked, UptoIsOnTop
      <3>2. Newest(up) = c
        BY <3>1, NewestIs
      <3>3. QED
        BY <1>1, <3>2, RedundantIsNotSurviving
    <2>6. up # {}
      BY <1>1, ParentIsWalked
    <2>7. ComputesSurvivors'
      BY <1>1, <2>1, <2>5, <2>6 DEF Computed, ComputesSurvivors
    <2>8. QED
      BY <2>3, <2>4, <2>7 DEF Computed
  <1>2. ASSUME NEW c \in todo, Drop(c) PROVE Computed'
    BY <1>1, <1>2 DEF Drop
  <1>3. ASSUME NEW c \in todo, Keep(c) PROVE Computed'
    BY <1>1, <1>3 DEF Keep
  <1>4. CASE UNCHANGED vars
    BY <1>4 DEF vars, Computed, ComputesRewritten, ComputesSurvivors, OthersUntouched
  <1>5. QED
    BY <1>2, <1>3, <1>4 DEF Next

(* Of the empty branch it holds at once.                                   *)
LEMMA ComputedInit == Init => Computed
  <1> SUFFICES ASSUME Init PROVE Computed
    OBVIOUS
  <1>1. /\ DOMAIN nearest = {{}} /\ nearest[{}] = {} /\ kept = {} /\ key \in Keys
    BY DEF Init
  <1>2. Rewritten({}, key) = {} /\ TreeOf({}) = EmptyTree
    BY DEF Rewritten, TreeOf
  <1>3. \A j \in Keys : ChangesOf({}, j) = {}
    BY DEF ChangesOf
  <1>4. Without(EmptyTree, key) = EmptyTree
    BY <1>1 DEF Without, EmptyTree
  <1>5. QED
    BY <1>1, <1>2, <1>3, <1>4
    DEF Computed, ComputesRewritten, ComputesSurvivors, OthersUntouched

(* The three facts the loop establishes together.                          *)
THEOREM WalkComputes == Spec => []Computed
  <1>1. QED
    BY WalkIsOrdered, ComputedInit, ComputedStep, PTL DEF Spec

(* The loop of _forget gives every revision of the history the nearest     *)
(* survivor, and the name, that Rewritten says.                            *)
THEOREM LoopComputesRewritten == Spec => []ComputesRewritten
  <1>1. Computed => ComputesRewritten
    BY DEF Computed
  <1>2. QED
    BY <1>1, WalkComputes, PTL

(* It keeps a commit exactly when the commit survives.                     *)
THEOREM LoopComputesSurvivors == Spec => []ComputesSurvivors
  <1>1. Computed => ComputesSurvivors
    BY DEF Computed
  <1>2. QED
    BY <1>1, WalkComputes, PTL

(* It takes the forgotten dashboard out and leaves every other dashboard's *)
(* states and changes as they were.                                        *)
THEOREM LoopLeavesOthersUntouched == Spec => []OthersUntouched
  <1>1. Computed => OthersUntouched
    BY DEF Computed
  <1>2. QED
    BY <1>1, WalkComputes, PTL
================================================================================
