------------------------------ MODULE StoreProofs ------------------------------
(***************************************************************************)
(* Theorems about HistoryStore and StoreReaders.  First the writers, for   *)
(* any number of threads, dashboards, contents and versions, and any       *)
(* bounds: what holds of the repository, and that the promise of           *)
(* AtomicHistory is kept.  Then the readers, for any number of them,       *)
(* commits, forgets and attempts.  Both rest on facts about revisions and  *)
(* their rewriting, which come first.                                      *)
(***************************************************************************)
EXTENDS StoreReaders, WellFoundedInduction, TLAPS

--------------------------------------------------------------------------------
(* Revisions.                                                              *)

(* Commits of one branch: no two have the same stamp.                      *)
IsBranch(h) == h \subseteq Commits /\ \A c, d \in h : c.at = d.at => c = d

(* The commit c on top of the branch h.                                    *)
OnTop(h, c) == IsBranch(h) /\ c \in Commits /\ \A e \in h : e.at < c.at

Stripped(c, k) == [at |-> c.at, tree |-> Without(c.tree, k)]
Change(c, k) == [at |-> c.at, content |-> c.tree[k]]

(* A tree without a dashboard is a tree.                                   *)
LEMMA WithoutIsTree ==
    ASSUME NEW tree \in Trees, NEW k \in Keys
    PROVE  /\ Without(tree, k) \in Trees
           /\ Without(tree, k)[k] = Absent
           /\ \A j \in Keys \ {k} : Without(tree, k)[j] = tree[j]
           /\ Without(EmptyTree, k) = EmptyTree
  BY DEF Trees, Without, EmptyTree

(* The commit later than all others is the newest.                         *)
LEMMA NewestIs ==
    ASSUME NEW h, NEW c, OnTop(h, c)
    PROVE  Newest(h \cup {c}) = c /\ TreeOf(h \cup {c}) = c.tree
  <1> DEFINE all == h \cup {c}
  <1>1. \A d \in all : d.at \in Nat
    BY DEF OnTop, IsBranch, Commits
  <1>2. \A e \in all : e = c \/ e.at < c.at
    BY DEF OnTop
  <1>3. \A e \in all : e.at <= c.at
    BY <1>1, <1>2
  <1>4. PICK x \in all : x = Newest(all) /\ \A e \in all : e.at <= x.at
    BY <1>3 DEF Newest
  <1>5. c.at <= x.at /\ ~(x.at < c.at)
    BY <1>1, <1>4
  <1>6. QED
    BY <1>2, <1>4, <1>5 DEF TreeOf

(* A commit on top changes nothing about the commits below.                *)
LEMMA OnTopOrder ==
    ASSUME NEW h, NEW c, OnTop(h, c)
    PROVE  /\ IsBranch(h \cup {c}) /\ c \notin h
           /\ Older(h \cup {c}, c) = h
           /\ Upto(h \cup {c}, c) = h \cup {c}
           /\ \A e \in h : /\ Older(h \cup {c}, e) = Older(h, e)
                           /\ Upto(h \cup {c}, e) = Upto(h, e)
  <1>1. \A d \in h \cup {c} : d.at \in Nat
    BY DEF OnTop, IsBranch, Commits
  <1>2. QED
    BY <1>1 DEF OnTop, IsBranch, Older, Upto

(* A revision is its last commit on top of its parent, and its commits     *)
(* have the ancestors they have in the branch.                             *)
LEMMA UptoIsOnTop ==
    ASSUME NEW h, IsBranch(h), NEW c \in h
    PROVE  /\ OnTop(Older(h, c), c)
           /\ Upto(h, c) = Older(h, c) \cup {c}
           /\ \A e \in Older(h, c) : /\ Older(Older(h, c), e) = Older(h, e)
                                     /\ Upto(Older(h, c), e) = Upto(h, e)
  <1>1. \A d \in h : d.at \in Nat
    BY DEF IsBranch, Commits
  <1>2. \A d \in h : d.at <= c.at <=> d.at < c.at \/ d.at = c.at
    BY <1>1
  <1>3. QED
    BY <1>1, <1>2 DEF Older, Upto, IsBranch, OnTop

(* Rewriting a branch with one more commit: the rewritten branch, and the  *)
(* commit without the dashboard if it survives.                            *)
LEMMA RewrittenOnTop ==
    ASSUME NEW h, NEW c, OnTop(h, c), NEW k
    PROVE  Rewritten(h \cup {c}, k) =
             Rewritten(h, k) \cup (IF Without(c.tree, k) # Without(TreeOf(h), k)
                                   THEN {Stripped(c, k)} ELSE {})
  <1>1. \A e \in h : Survives(h \cup {c}, e, k) <=> Survives(h, e, k)
    BY OnTopOrder DEF Survives
  <1>2. Survives(h \cup {c}, c, k) <=> Without(c.tree, k) # Without(TreeOf(h), k)
    BY OnTopOrder DEF Survives
  <1>3. {e \in h \cup {c} : Survives(h \cup {c}, e, k)} =
          {e \in h : Survives(h, e, k)}
            \cup (IF Without(c.tree, k) # Without(TreeOf(h), k) THEN {c} ELSE {})
    BY <1>1, <1>2
  <1>4. QED
    BY <1>3 DEF Rewritten, Stripped

(* The changes of a branch with one more commit: its old ones, and those the*)
(* commit makes itself.                                                    *)
LEMMA ChangesOnTop ==
    ASSUME NEW h, NEW c, OnTop(h, c), NEW k
    PROVE  ChangesOf(h \cup {c}, k) =
             ChangesOf(h, k) \cup (IF c.tree[k] # TreeOf(h)[k]
                                   THEN {Change(c, k)} ELSE {})
  <1> /\ Older(h \cup {c}, c) = h
      /\ \A e \in h : Older(h \cup {c}, e) = Older(h, e)
    BY OnTopOrder
  <1>1. {e \in h \cup {c} : e.tree[k] # TreeOf(Older(h \cup {c}, e))[k]} =
          {e \in h : e.tree[k] # TreeOf(Older(h, e))[k]}
            \cup (IF c.tree[k] # TreeOf(h)[k] THEN {c} ELSE {})
    OBVIOUS
  <1>2. QED
    BY <1>1 DEF ChangesOf, Change

(* A rewritten branch is a branch, with stamps the old one had, and the    *)
(* dashboard is in none of its trees.                                      *)
LEMMA RewrittenIsBranch ==
    ASSUME NEW h, IsBranch(h), NEW k \in Keys
    PROVE  /\ IsBranch(Rewritten(h, k))
           /\ \A d \in Rewritten(h, k) : /\ \E e \in h : e.at = d.at
                                         /\ d.tree[k] = Absent
  <1>1. \A e \in h : Stripped(e, k) \in Commits /\ Stripped(e, k).tree[k] = Absent
    BY WithoutIsTree DEF IsBranch, Commits, Stripped
  <1>2. \A d \in Rewritten(h, k) : \E e \in h : d = Stripped(e, k)
    BY DEF Rewritten, Stripped
  <1>3. \A d \in Rewritten(h, k) : d \in Commits /\ d.tree[k] = Absent
    BY <1>1, <1>2
  <1>4. \A e, f \in h : Stripped(e, k).at = Stripped(f, k).at =>
                            Stripped(e, k) = Stripped(f, k)
    BY DEF IsBranch, Stripped
  <1>5. QED
    BY <1>2, <1>3, <1>4 DEF IsBranch, Stripped

--------------------------------------------------------------------------------
(* A history has a newest commit, which an invariant about the stamps      *)
(* gives: without induction, from the least number that bounds them all.   *)

Within(h, n) == \A c \in h : c.at <= n

(* Every set of numbers with something in it has a least one.              *)
LEMMA NatHasLeast ==
    ASSUME NEW S \in SUBSET Nat, S # {}
    PROVE  \E n \in S : \A m \in S : n <= m
  <1>1. PICK n \in S : \A m \in S : <<m, n>> \notin OpToRel(<, Nat)
    BY NatLessThanWellFounded, WFMin
  <1>2. \A m \in S : ~(m < n)
    BY <1>1 DEF OpToRel
  <1>3. QED
    BY <1>2

(* A branch whose stamps are bounded has a newest commit.                  *)
LEMMA BoundedHasNewest ==
    ASSUME NEW h, IsBranch(h), NEW n \in Nat, Within(h, n), h # {}
    PROVE  \E c \in h : \A e \in h : e.at <= c.at
  <1> DEFINE bounds == {m \in Nat : Within(h, m)}
  <1>1. \A c \in h : c.at \in Nat
    BY DEF IsBranch, Commits
  <1>2. PICK m \in bounds : \A l \in bounds : m <= l
    BY NatHasLeast
  <1>3. CASE \E c \in h : c.at = m
    BY <1>2, <1>3 DEF Within
  <1>4. CASE \A c \in h : c.at # m
    <2>1. \A c \in h : c.at < m
      BY <1>1, <1>2, <1>4 DEF Within
    <2>2. m - 1 \in bounds
      BY <1>1, <2>1 DEF Within
    <2>3. QED
      BY <1>2, <2>2
  <1>5. QED
    BY <1>3, <1>4

(* A branch that is not empty is a revision of itself.                     *)
LEMMA BranchIsRevision ==
    ASSUME NEW h, IsBranch(h), NEW n \in Nat, Within(h, n)
    PROVE  h \in History(h) \cup {{}}
  <1>1. SUFFICES ASSUME h # {} PROVE h \in History(h)
    OBVIOUS
  <1>2. PICK c \in h : \A e \in h : e.at <= c.at
    BY <1>1, BoundedHasNewest
  <1>3. Upto(h, c) = h
    BY <1>2 DEF Upto
  <1>4. QED
    BY <1>3 DEF History

(* Rewriting a revision gives a revision of the rewritten branch.          *)
LEMMA RewrittenIsRevision ==
    ASSUME NEW h, IsBranch(h), NEW n \in Nat, Within(h, n),
           NEW k \in Keys, NEW r \in History(h)
    PROVE  Rewritten(r, k) \in History(Rewritten(h, k)) \cup {{}}
  <1> DEFINE whole == Rewritten(h, k)
             part == Rewritten(r, k)
  <1>1. PICK c \in h : r = Upto(h, c)
    BY DEF History
  <1>2. \A e \in h : e.at \in Nat
    BY DEF IsBranch, Commits
  <1>3. \A e \in r : e \in h /\ Older(r, e) = Older(h, e)
    BY <1>1, <1>2 DEF Upto, Older
  <1>4. \A e \in r : Survives(r, e, k) <=> Survives(h, e, k)
    BY <1>3 DEF Survives
  <1>5. part = {d \in whole : d.at <= c.at}
    BY <1>1, <1>3, <1>4 DEF Upto, Rewritten
  <1>6. SUFFICES ASSUME part # {} PROVE part \in History(whole)
    OBVIOUS
  <1>7. /\ IsBranch(whole) /\ \A d \in whole : d.at \in Nat
        /\ IsBranch(part) /\ Within(part, n)
    <2>1. IsBranch(whole) /\ \A d \in whole : \E e \in h : e.at = d.at
      BY RewrittenIsBranch
    <2>2. Within(whole, n)
      BY <2>1 DEF Within
    <2>3. QED
      BY <1>5, <2>1, <2>2 DEF Within, IsBranch, Commits
  <1>8. PICK d \in part : \A e \in part : e.at <= d.at
    BY <1>6, <1>7, BoundedHasNewest
  <1>9. part = Upto(whole, d)
    BY <1>2, <1>5, <1>7, <1>8 DEF Upto
  <1>10. QED
    BY <1>5, <1>8, <1>9 DEF History

--------------------------------------------------------------------------------
(* The revisions of a branch.                                              *)

(* A commit on top adds one revision to the history.                       *)
LEMMA HistoryOnTop ==
    ASSUME NEW h, NEW c, OnTop(h, c)
    PROVE  History(h \cup {c}) = History(h) \cup {h \cup {c}}
  <1> DEFINE all == h \cup {c}
  <1>1. Upto(all, c) = all /\ \A e \in h : Upto(all, e) = Upto(h, e)
    BY OnTopOrder
  <1>2. {Upto(all, e) : e \in all} = {Upto(all, e) : e \in h} \cup {Upto(all, c)}
    OBVIOUS
  <1>3. {Upto(all, e) : e \in h} = {Upto(h, e) : e \in h}
    BY <1>1
  <1>4. QED
    BY <1>1, <1>2, <1>3 DEF History

(* A revision of a branch is a branch itself, and no later.                *)
LEMMA RevisionIsBranch ==
    ASSUME NEW h, IsBranch(h), NEW n \in Nat, Within(h, n), NEW r \in History(h)
    PROVE  /\ IsBranch(r) /\ Within(r, n) /\ r \subseteq h /\ r # {}
           /\ History(r) \subseteq History(h)
           /\ r \in History(r)
           /\ Newest(r) \in r
           /\ BlobsOf(r) \subseteq BlobsOf(h)
  <1>1. PICK c \in h : r = Upto(h, c)
    BY DEF History
  <1>2. \A e \in h : e.at \in Nat
    BY DEF IsBranch, Commits
  <1>3. IsBranch(r) /\ Within(r, n) /\ r \subseteq h /\ c \in r
    BY <1>1, <1>2 DEF Upto, IsBranch, Within
  <1>4. \A e \in r : Upto(r, e) = Upto(h, e)
    BY <1>1, <1>2 DEF Upto
  <1>5. History(r) \subseteq History(h)
    BY <1>3, <1>4 DEF History
  <1>6. r \in History(r)
    BY <1>3, BranchIsRevision
  <1>7. Newest(r) \in r
    <2>1. \E d \in r : \A e \in r : e.at <= d.at
      BY <1>3, BoundedHasNewest
    <2>2. QED
      BY <2>1 DEF Newest
  <1>8. BlobsOf(r) \subseteq BlobsOf(h)
    BY <1>3 DEF BlobsOf
  <1>9. QED
    BY <1>3, <1>5, <1>6, <1>7, <1>8

(* Rewriting stores no content the branch did not have.                    *)
LEMMA BlobsOfRewritten ==
    ASSUME NEW h, IsBranch(h), NEW k \in Keys
    PROVE  BlobsOf(Rewritten(h, k)) \subseteq BlobsOf(h)
  <1>1. \A c \in h, j \in Keys : Without(c.tree, k)[j] \in {c.tree[j], Absent}
    BY WithoutIsTree DEF IsBranch, Commits
  <1>2. \A d \in Rewritten(h, k) : \E c \in h : d.tree = Without(c.tree, k)
    BY DEF Rewritten
  <1>3. QED
    BY <1>1, <1>2 DEF BlobsOf

(* Two surviving revisions stay two.                                       *)
LEMMA SurvivorsStayApart ==
    ASSUME NEW h, IsBranch(h), NEW n \in Nat, Within(h, n), NEW k \in Keys,
           NEW r \in History(h), NEW s \in History(h),
           Survives(r, Newest(r), k), Survives(s, Newest(s), k),
           Rewritten(r, k) = Rewritten(s, k)
    PROVE  r = s
  <1>1. PICK c \in h : r = Upto(h, c)
    BY DEF History
  <1>2. PICK d \in h : s = Upto(h, d)
    BY DEF History
  <1>3. \A e \in h : e.at \in Nat
    BY DEF IsBranch, Commits
  <1>4. /\ IsBranch(r) /\ IsBranch(s)
        /\ Newest(r) = c /\ Newest(s) = d /\ c \in r /\ d \in s
    <2>1. OnTop(Older(h, c), c) /\ r = Older(h, c) \cup {c}
      BY <1>1, UptoIsOnTop
    <2>2. OnTop(Older(h, d), d) /\ s = Older(h, d) \cup {d}
      BY <1>2, UptoIsOnTop
    <2>3. QED
      BY <2>1, <2>2, NewestIs, RevisionIsBranch
  <1>5. Stripped(c, k) \in Rewritten(r, k) /\ Stripped(d, k) \in Rewritten(s, k)
    BY <1>4 DEF Rewritten, Stripped
  <1>6. (\E e \in s : e.at = c.at) /\ (\E e \in r : e.at = d.at)
    BY <1>4, <1>5, RewrittenIsBranch DEF Stripped
  <1>7. c.at <= d.at /\ d.at <= c.at
    BY <1>1, <1>2, <1>6 DEF Upto
  <1>8. c.at = d.at
    BY <1>3, <1>7
  <1>9. QED
    BY <1>1, <1>2, <1>8 DEF IsBranch

--------------------------------------------------------------------------------
(* Types.                                                                  *)

(* The newest tree of a branch is a tree.                                  *)
LEMMA TreeOfIsTree ==
    ASSUME NEW h, IsBranch(h), NEW n \in Nat, Within(h, n)
    PROVE  TreeOf(h) \in Trees
  <1>1. CASE h = {}
    BY <1>1, AbsentIsNoContent DEF TreeOf, EmptyTree, Trees
  <1>2. CASE h # {}
    <2>1. \E c \in h : \A e \in h : e.at <= c.at
      BY <1>2, BoundedHasNewest
    <2>2. Newest(h) \in h
      BY <2>1 DEF Newest
    <2>3. QED
      BY <1>2, <2>2 DEF TreeOf, IsBranch, Commits
  <1>3. QED
    BY <1>1, <1>2

(* Forgetting makes commits of commits.                                    *)
LEMMA RewrittenIsTyped ==
    ASSUME NEW h \in SUBSET Commits, NEW k \in Keys
    PROVE  Rewritten(h, k) \in SUBSET Commits
  <1>1. \A c \in h : [at |-> c.at, tree |-> Without(c.tree, k)] \in Commits
    BY WithoutIsTree DEF Commits
  <1>2. QED
    BY <1>1 DEF Rewritten

(* The revisions of a branch are sets of commits.                          *)
LEMMA HistoryIsTyped ==
    ASSUME NEW h \in SUBSET Commits
    PROVE  History(h) \in SUBSET SUBSET Commits
  BY DEF History, Upto

(* The plan of a forget is a plan.                                         *)
LEMMA ForgetPlanIsTyped ==
    ASSUME TypeOK, NEW k \in Keys
    PROVE  ForgetPlan(k) \in Plan
  <1>1. Rewritten(head, k) \in SUBSET Commits
    BY RewrittenIsTyped DEF TypeOK
  <1>2. PlannedNotes(k) \in SUBSET Notes
    <2>1. \A n \in notes : [rev |-> Rewritten(n.rev, k), text |-> n.text] \in Notes
      BY RewrittenIsTyped DEF TypeOK, Notes
    <2>2. QED
      BY <2>1 DEF PlannedNotes
  <1>3. PlannedTags(k) \in SUBSET Tags
    <2>1. \A t \in tags :
            [name |-> t.name, rev |-> Rewritten(t.rev, k), title |-> t.title] \in Tags
      BY RewrittenIsTyped DEF TypeOK, Tags
    <2>2. QED
      BY <2>1 DEF PlannedTags
  <1>4. generation + 1 \in Nat
    BY DEF TypeOK
  <1>5. QED
    BY <1>1, <1>2, <1>3, <1>4 DEF ForgetPlan, Plan

(* The jobs stay jobs: what Leave and Continue make of them.               *)
LEMMA LeaveIsTyped ==
    ASSUME TypeOK, NEW p \in Procs, Leave(p)
    PROVE  job' \in [Procs -> Jobs] /\ lock' \in Procs \cup {NoProc}
  BY DEF TypeOK, Leave, Idle, Jobs

(* A thread that goes on has a job, and the lock an owner.                 *)
LEMMA ContinueIsTyped ==
    ASSUME TypeOK, NEW p \in Procs, NEW step, NEW plan,
           Continue(p, step, plan),
           [step |-> step, plan |-> plan] \in Jobs
    PROVE  job' \in [Procs -> Jobs] /\ lock' \in Procs \cup {NoProc}
  BY DEF TypeOK, Continue

(* Only the steps of a forget have a plan.                                 *)
LEMMA PlanOfStep ==
    ASSUME TypeOK, NEW p \in Procs
    PROVE  /\ job[p].step \in ForgetSteps => job[p].plan \in Plan
           /\ \A step \in ForgetSteps : job[p].plan \in Plan
                => [step |-> step, plan |-> job[p].plan] \in Jobs
  <1>1. job[p] \in Jobs
    BY DEF TypeOK
  <1>2. QED
    BY <1>1 DEF Jobs, ForgetSteps

(* The types hold at the start.                                            *)
LEMMA TypeInit == Init => TypeOK
  <1> SUFFICES ASSUME Init PROVE TypeOK
    OBVIOUS
  <1>1. EmptyTree \in Trees
    BY DEF EmptyTree, Trees
  <1>2. Idle \in Jobs
    BY DEF Idle, Jobs
  <1>3. QED
    BY <1>1, <1>2 DEF Init, TypeOK

(* Every step keeps the types.                                             *)
LEMMA TypeStep == TypeOK /\ [Next]_vars => TypeOK'
  <1> SUFFICES ASSUME TypeOK, [Next]_vars PROVE TypeOK'
    OBVIOUS
  <1>1. ASSUME NEW p \in Procs, NEW k \in Keys, NEW v \in Contents, StageSave(p, k, v)
        PROVE  TypeOK'
    <2>1. staged' \in Trees /\ blobs' \in SUBSET Contents
      BY <1>1 DEF StageSave, TypeOK, Trees
    <2>2. job' \in [Procs -> Jobs] /\ lock' \in Procs \cup {NoProc}
      BY <1>1, ContinueIsTyped DEF StageSave, Jobs
    <2>3. QED
      BY <1>1, <2>1, <2>2 DEF StageSave, TypeOK
  <1>2. ASSUME NEW p \in Procs, NEW k \in Keys, StageRemoval(p, k)
        PROVE  TypeOK'
    <2>1. staged' \in Trees
      BY <1>2 DEF StageRemoval, TypeOK, Trees
    <2>2. job' \in [Procs -> Jobs] /\ lock' \in Procs \cup {NoProc}
      BY <1>2, ContinueIsTyped DEF StageRemoval, Jobs
    <2>3. QED
      BY <1>2, <2>1, <2>2 DEF StageRemoval, TypeOK
  <1>3. ASSUME NEW p \in Procs, Commit(p) PROVE TypeOK'
    <2>1. head' \in SUBSET Commits /\ clock' \in Nat
      BY <1>3 DEF Commit, TypeOK, Commits
    <2>2. job' \in [Procs -> Jobs] /\ lock' \in Procs \cup {NoProc}
      BY <1>3, LeaveIsTyped DEF Commit
    <2>3. QED
      BY <1>3, <2>1, <2>2 DEF Commit, TypeOK
  <1>4. ASSUME Annotate PROVE TypeOK'
    <2>1. History(head) \in SUBSET SUBSET Commits
      BY HistoryIsTyped DEF TypeOK
    <2>2. ASSUME NEW r \in History(head), NEW w \in Words, Describe(r, w) PROVE TypeOK'
      BY <2>1, <2>2 DEF Describe, TypeOK, Notes
    <2>3. ASSUME NEW r \in History(head), Undescribe(r) PROVE TypeOK'
      BY <2>3 DEF Undescribe, TypeOK
    <2>4. ASSUME NEW n \in Names, NEW r \in History(head), NEW w \in Words,
                 CreateVersion(n, r, w)
          PROVE  TypeOK'
      BY <2>1, <2>4 DEF CreateVersion, TypeOK, Tags
    <2>5. ASSUME NEW t \in tags, NEW w \in Words, RetitleVersion(t, w) PROVE TypeOK'
      BY <2>5 DEF RetitleVersion, TypeOK, Tags
    <2>6. ASSUME NEW t \in tags, RemoveVersion(t) PROVE TypeOK'
      BY <2>6 DEF RemoveVersion, TypeOK
    <2>7. QED
      BY <1>4, <2>2, <2>3, <2>4, <2>5, <2>6 DEF Annotate
  <1>5. ASSUME NEW p \in Procs, NEW k \in Keys, PlanForget(p, k) PROVE TypeOK'
    <2>1. ForgetPlan(k) \in Plan
      BY ForgetPlanIsTyped
    <2>2. objects' \in SUBSET SUBSET Commits
      BY <1>5, RewrittenIsTyped, HistoryIsTyped DEF PlanForget, TypeOK
    <2>3. job' \in [Procs -> Jobs] /\ lock' \in Procs \cup {NoProc}
      BY <1>5, <2>1, ContinueIsTyped DEF PlanForget, Jobs, ForgetSteps
    <2>4. QED
      BY <1>5, <2>2, <2>3 DEF PlanForget, TypeOK
  <1>6. ASSUME NEW p \in Procs, ForgetStep(p) PROVE TypeOK'
    <2> DEFINE plan == job[p].plan
    <2>1. ASSUME job[p].step \in ForgetSteps
          PROVE  /\ plan \in Plan
                 /\ \A step \in ForgetSteps : Continue(p, step, plan) =>
                      job' \in [Procs -> Jobs] /\ lock' \in Procs \cup {NoProc}
      BY <2>1, PlanOfStep, ContinueIsTyped
    <2>2. CASE WriteCheckpoint(p)
      BY <2>1, <2>2 DEF WriteCheckpoint, At, TypeOK, ForgetSteps
    <2>3. CASE WriteGeneration(p)
      BY <2>1, <2>3 DEF WriteGeneration, At, TypeOK, ForgetSteps, Plan
    <2>4. CASE PointHead(p)
      BY <2>1, <2>4 DEF PointHead, At, TypeOK, ForgetSteps, Plan
    <2>5. CASE ClearNotes(p)
      BY <2>1, <2>5 DEF ClearNotes, At, TypeOK, ForgetSteps
    <2>6. CASE AddNote(p)
      BY <2>1, <2>6 DEF AddNote, At, TypeOK, ForgetSteps, Plan
    <2>7. CASE NotesRewritten(p)
      BY <2>1, <2>7 DEF NotesRewritten, At, TypeOK, ForgetSteps, disk
    <2>8. CASE RewriteTags(p)
      BY <2>1, <2>8 DEF RewriteTags, At, TypeOK, ForgetSteps, Plan
    <2>9. CASE DropFromIndex(p)
      <3>1. plan.key \in Keys
        BY <2>1, <2>9 DEF DropFromIndex, At, ForgetSteps, Plan
      <3>2. staged' \in Trees
        BY <2>9, <3>1, WithoutIsTree DEF DropFromIndex, TypeOK
      <3>3. QED
        BY <2>1, <2>9, <3>2 DEF DropFromIndex, At, TypeOK, ForgetSteps
    <2>10. CASE CollectGarbage(p)
      BY <2>1, <2>10 DEF CollectGarbage, At, TypeOK, ForgetSteps
    <2>11. CASE UnlinkCheckpoint(p)
      BY <2>11, LeaveIsTyped DEF UnlinkCheckpoint, TypeOK
    <2>12. QED
      BY <1>6, <2>2, <2>3, <2>4, <2>5, <2>6, <2>7, <2>8, <2>9, <2>10, <2>11
      DEF ForgetStep
  <1>7. ASSUME NEW p \in Procs, Raise(p) PROVE TypeOK'
    BY <1>7, LeaveIsTyped DEF Raise, disk, TypeOK
  <1>8. ASSUME NEW p \in Procs, RepairResume(p) PROVE TypeOK'
    <2>1. checkpoint \in Plan
      BY <1>8 DEF RepairResume, TypeOK
    <2>2. staged' \in Trees
      BY <1>8, <2>1, WithoutIsTree DEF RepairResume, Reconciled, TypeOK, Plan
    <2>3. job' \in [Procs -> Jobs] /\ lock' \in Procs \cup {NoProc}
      BY <1>8, <2>1, ContinueIsTyped DEF RepairResume, Jobs, ForgetSteps
    <2>4. QED
      BY <1>8, <2>2, <2>3 DEF RepairResume, TypeOK
  <1>9. CASE Restart
    BY <1>9 DEF Restart, disk, TypeOK, Idle, Jobs
  <1>10. CASE Reload
    BY <1>10 DEF Reload, disk, TypeOK
  <1>11. CASE RepairNothing
    BY <1>11 DEF RepairNothing, disk, TypeOK
  <1>12. CASE UNCHANGED vars
    BY <1>12 DEF vars, TypeOK
  <1>13. QED
    BY <1>1, <1>2, <1>3, <1>4, <1>5, <1>6, <1>7, <1>8, <1>9, <1>10, <1>11, <1>12
    DEF Next, Save, Forget

(* Every variable keeps its type, whatever the threads do.                 *)
THEOREM TypeCorrect == Spec => []TypeOK
  <1>1. QED
    BY TypeInit, TypeStep, PTL DEF Spec

--------------------------------------------------------------------------------
(* Control: who may do something, and under which plan.                    *)

(* The thread carrying out a forget follows the checkpoint, the counter    *)
(* says what the plan says from the moment it has been written, and a save *)
(* or a planned forget has met no checkpoint.                              *)
Follows(p) ==
    /\ At(p, "commit") => checkpoint = NoPlan
    /\ At(p, "checkpoint") => /\ checkpoint = NoPlan
                              /\ job[p].plan.target = generation + 1
    /\ job[p].step \in ForgetSteps \ {"checkpoint"} => checkpoint = job[p].plan
    /\ job[p].step \in ForgetSteps \ {"checkpoint", "generation"}
         => generation = job[p].plan.target
    /\ At(p, "notes") => notes \subseteq job[p].plan.notes

TargetInReach ==
    checkpoint # NoPlan => checkpoint.target \in {generation, generation + 1}

PlanFollowed == TargetInReach /\ \A p \in Procs : Follows(p)

Control == OneWriter /\ PlanFollowed

(* Whoever is let in or goes on finds everybody else idle.                 *)
LEMMA AfterContinue ==
    ASSUME TypeOK, OneWriter, NEW p \in Procs,
           lock = NoProc \/ ~At(p, "idle"),
           NEW step, NEW plan, Continue(p, step, plan)
    PROVE  /\ OneWriter'
           /\ job'[p].step = step /\ job'[p].plan = plan
           /\ \A q \in Procs \ {p} : job'[q].step = "idle"
  <1>1. \A q \in Procs \ {p} : At(q, "idle")
    BY NoProcAssumption DEF OneWriter
  <1>2. \A q \in Procs \ {p} : job'[q] = job[q]
    BY DEF TypeOK, Continue
  <1>3. lock' = p /\ job'[p] = [step |-> step, plan |-> plan]
    BY DEF TypeOK, Continue
  <1>4. QED
    BY <1>1, <1>2, <1>3 DEF OneWriter, At

(* What a thread that left has to do: nothing, and nobody holds the lock.  *)
LEMMA AfterLeave ==
    ASSUME TypeOK, OneWriter, NEW p \in Procs, ~At(p, "idle"), Leave(p)
    PROVE  OneWriter' /\ \A q \in Procs : job'[q].step = "idle"
  <1>1. \A q \in Procs \ {p} : At(q, "idle")
    BY DEF OneWriter
  <1>2. /\ \A q \in Procs \ {p} : job'[q] = job[q]
        /\ job'[p] = Idle
    BY DEF TypeOK, Leave
  <1>3. QED
    BY <1>1, <1>2 DEF OneWriter, At, Idle

(* Nothing is asked of an idle thread.                                     *)
LEMMA IdleFollows ==
    ASSUME NEW q \in Procs
    PROVE  /\ job[q].step = "idle" => Follows(q)
           /\ job'[q].step = "idle" => Follows(q)'
  BY DEF Follows, At, ForgetSteps

(* Control holds at the start: nobody is in.                               *)
LEMMA ControlInit == Init => Control
  <1> SUFFICES ASSUME Init PROVE Control
    OBVIOUS
  <1>1. \A p \in Procs : job[p].step = "idle"
    BY DEF Init, Idle
  <1>2. checkpoint = NoPlan
    BY DEF Init
  <1>3. QED
    BY <1>1, <1>2, IdleFollows
    DEF Control, OneWriter, PlanFollowed, TargetInReach, At

(* A thread with a plan has a plan, never NoPlan.                          *)
LEMMA PlanIsNotNone ==
    ASSUME TypeOK, NEW p \in Procs, job[p].step \in ForgetSteps
    PROVE  job[p].plan \in Plan /\ job[p].plan # NoPlan
  BY PlanOfStep, NoPlanAssumption

(* Whoever goes on with the later steps of a forget keeps following the    *)
(* plan as long as the counter and the checkpoint stay.                    *)
LEMMA LaterStepFollows ==
    ASSUME TypeOK, Control, NEW p \in Procs, NEW from, NEW to,
           {from, to} \subseteq ForgetSteps \ {"checkpoint", "generation"},
           At(p, from), Continue(p, to, job[p].plan),
           UNCHANGED <<checkpoint, generation>>,
           to = "notes" => notes' \subseteq job[p].plan.notes
    PROVE  Control'
  <1>1. /\ OneWriter' /\ job'[p].step = to /\ job'[p].plan = job[p].plan
        /\ \A q \in Procs \ {p} : job'[q].step = "idle"
    BY AfterContinue DEF Control, At, ForgetSteps
  <1>2. Follows(p) /\ TargetInReach
    BY DEF Control, PlanFollowed
  <1>3. checkpoint = job[p].plan /\ generation = job[p].plan.target
    BY <1>2 DEF Follows, At
  <1>4. Follows(p)'
    BY <1>1, <1>3 DEF Follows, At, ForgetSteps
  <1>5. TargetInReach'
    BY <1>2 DEF TargetInReach
  <1>6. QED
    BY <1>1, <1>4, <1>5, IdleFollows DEF Control, PlanFollowed

(* Whoever leaves, with the checkpoint and the counter as they are or the  *)
(* checkpoint gone.                                                        *)
LEMMA LeavingFollows ==
    ASSUME TypeOK, Control, NEW p \in Procs, ~At(p, "idle"), Leave(p),
           checkpoint' \in {checkpoint, NoPlan}, UNCHANGED generation
    PROVE  Control'
  <1>1. OneWriter' /\ \A q \in Procs : job'[q].step = "idle"
    BY AfterLeave DEF Control
  <1>2. TargetInReach'
    BY DEF Control, PlanFollowed, TargetInReach
  <1>3. QED
    BY <1>1, <1>2, IdleFollows DEF Control, PlanFollowed

(* Every step keeps the control: whoever is in holds the lock, and follows *)
(* its plan.                                                               *)
LEMMA ControlStep == TypeOK /\ Control /\ [Next]_vars => Control'
  <1> SUFFICES ASSUME TypeOK, Control, [Next]_vars PROVE Control'
    OBVIOUS
  <1>a. OneWriter /\ TargetInReach /\ \A q \in Procs : Follows(q)
    BY DEF Control, PlanFollowed
  <1>b. SUFFICES ASSUME ~UNCHANGED <<lock, job, checkpoint, generation, notes>>
        PROVE  Control'
    BY <1>a DEF Control, OneWriter, PlanFollowed, TargetInReach, Follows, At
  <1>c. generation \in Nat
    BY DEF TypeOK
  <1>1. ASSUME NEW p \in Procs, Save(p) PROVE Control'
    <2>1. ASSUME lock = NoProc, checkpoint = NoPlan, Continue(p, "commit", NoPlan),
                 UNCHANGED <<checkpoint, generation>>
          PROVE  Control'
      <3>1. /\ OneWriter' /\ job'[p].step = "commit"
            /\ \A q \in Procs \ {p} : job'[q].step = "idle"
        BY <1>a, <2>1, AfterContinue
      <3>2. TargetInReach' /\ Follows(p)'
        BY <2>1, <3>1 DEF TargetInReach, Follows, At, ForgetSteps
      <3>3. QED
        BY <3>1, <3>2, IdleFollows DEF Control, PlanFollowed
    <2>2. CASE Commit(p)
      BY <2>2, LeavingFollows DEF Commit, At
    <2>3. QED
      BY <1>1, <2>1, <2>2 DEF Save, StageSave, StageRemoval, Admitted
  <1>2. CASE Annotate
    <2>1. lock = NoProc /\ UNCHANGED <<checkpoint, generation, lock, job>>
      BY <1>2 DEF Annotate, Describe, Undescribe, CreateVersion, RetitleVersion,
                  RemoveVersion, Admitted
    <2>2. OneWriter' /\ \A q \in Procs : job'[q].step = "idle"
      BY <1>a, <2>1, NoProcAssumption DEF OneWriter, At
    <2>3. TargetInReach'
      BY <1>a, <2>1 DEF TargetInReach
    <2>4. QED
      BY <2>2, <2>3, IdleFollows DEF Control, PlanFollowed
  <1>3. ASSUME NEW p \in Procs, NEW k \in Keys, PlanForget(p, k) PROVE Control'
    <2>1. /\ OneWriter'
          /\ job'[p].step = "checkpoint" /\ job'[p].plan = ForgetPlan(k)
          /\ \A q \in Procs \ {p} : job'[q].step = "idle"
      BY <1>3, <1>a, AfterContinue DEF PlanForget, Admitted
    <2>2. ForgetPlan(k).target = generation + 1
      BY DEF ForgetPlan
    <2>3. TargetInReach' /\ Follows(p)'
      BY <1>3, <2>1, <2>2
      DEF PlanForget, Admitted, TargetInReach, Follows, At, ForgetSteps
    <2>4. QED
      BY <2>1, <2>3, IdleFollows DEF Control, PlanFollowed
  <1>4. ASSUME NEW p \in Procs, ForgetStep(p) PROVE Control'
    <2> DEFINE plan == job[p].plan
    <2>1. Follows(p)
      BY <1>a
    <2>2. CASE WriteCheckpoint(p)
      <3>1. /\ OneWriter' /\ job'[p].step = "generation" /\ job'[p].plan = plan
            /\ \A q \in Procs \ {p} : job'[q].step = "idle"
        BY <1>a, <2>2, AfterContinue DEF WriteCheckpoint, At
      <3>2. checkpoint' = plan /\ plan.target = generation + 1 /\ UNCHANGED generation
        BY <2>1, <2>2 DEF WriteCheckpoint, Follows
      <3>3. TargetInReach' /\ Follows(p)'
        BY <3>1, <3>2 DEF TargetInReach, Follows, At, ForgetSteps
      <3>4. QED
        BY <3>1, <3>3, IdleFollows DEF Control, PlanFollowed
    <2>3. CASE WriteGeneration(p)
      <3>1. /\ OneWriter' /\ job'[p].step = "head" /\ job'[p].plan = plan
            /\ \A q \in Procs \ {p} : job'[q].step = "idle"
        BY <1>a, <2>3, AfterContinue DEF WriteGeneration, At
      <3>2. checkpoint = plan /\ generation' = plan.target /\ UNCHANGED checkpoint
        BY <2>1, <2>3 DEF WriteGeneration, Follows, At, ForgetSteps
      <3>3. TargetInReach' /\ Follows(p)'
        BY <3>1, <3>2 DEF TargetInReach, Follows, At, ForgetSteps
      <3>4. QED
        BY <3>1, <3>3, IdleFollows DEF Control, PlanFollowed
    <2>4. CASE PointHead(p)
      BY <2>4, LaterStepFollows DEF PointHead, ForgetSteps
    <2>5. CASE ClearNotes(p)
      BY <2>5, LaterStepFollows DEF ClearNotes, ForgetSteps
    <2>6. CASE AddNote(p)
      <3>1. /\ notes \subseteq plan.notes /\ notes' \subseteq plan.notes
            /\ UNCHANGED <<lock, job, checkpoint, generation>>
        BY <2>1, <2>6 DEF AddNote, Follows
      <3>2. Follows(p)'
        BY <2>1, <3>1 DEF Follows, At
      <3>3. \A q \in Procs \ {p} : job'[q].step = "idle"
        BY <1>a, <2>6, <3>1 DEF AddNote, OneWriter, At
      <3>4. OneWriter' /\ TargetInReach'
        BY <1>a, <3>1 DEF OneWriter, TargetInReach, At
      <3>5. QED
        BY <3>2, <3>3, <3>4, IdleFollows DEF Control, PlanFollowed
    <2>7. CASE NotesRewritten(p)
      BY <2>7, LaterStepFollows DEF NotesRewritten, disk, ForgetSteps
    <2>8. CASE RewriteTags(p)
      BY <2>8, LaterStepFollows DEF RewriteTags, ForgetSteps
    <2>9. CASE DropFromIndex(p)
      BY <2>9, LaterStepFollows DEF DropFromIndex, ForgetSteps
    <2>10. CASE CollectGarbage(p)
      BY <2>10, LaterStepFollows DEF CollectGarbage, ForgetSteps
    <2>11. CASE UnlinkCheckpoint(p)
      BY <2>11, LeavingFollows DEF UnlinkCheckpoint, At
    <2>12. QED
      BY <1>4, <2>2, <2>3, <2>4, <2>5, <2>6, <2>7, <2>8, <2>9, <2>10, <2>11
      DEF ForgetStep
  <1>5. ASSUME NEW p \in Procs, Raise(p) PROVE Control'
    BY <1>5, LeavingFollows DEF Raise, disk
  <1>6. ASSUME NEW p \in Procs, RepairResume(p) PROVE Control'
    <2>1. /\ OneWriter'
          /\ job'[p].step = "generation" /\ job'[p].plan = checkpoint
          /\ \A q \in Procs \ {p} : job'[q].step = "idle"
      BY <1>6, <1>a, AfterContinue DEF RepairResume
    <2>2. UNCHANGED <<checkpoint, generation>>
      BY <1>6 DEF RepairResume
    <2>3. TargetInReach' /\ Follows(p)'
      BY <1>a, <2>1, <2>2 DEF TargetInReach, Follows, At, ForgetSteps
    <2>4. QED
      BY <2>1, <2>3, IdleFollows DEF Control, PlanFollowed
  <1>7. CASE Restart
    <2>1. /\ \A q \in Procs : job'[q].step = "idle"
          /\ UNCHANGED <<checkpoint, generation>>
      BY <1>7 DEF Restart, disk, Idle
    <2>2. OneWriter' /\ TargetInReach'
      BY <1>a, <2>1 DEF OneWriter, TargetInReach, At
    <2>3. QED
      BY <2>1, <2>2, IdleFollows DEF Control, PlanFollowed
  <1>8. ~(Reload \/ RepairNothing \/ UNCHANGED vars)
    BY <1>b DEF Reload, RepairNothing, vars, disk
  <1>9. QED
    BY <1>1, <1>2, <1>3, <1>4, <1>5, <1>6, <1>7, <1>8 DEF Next, Forget

(* Control is an invariant: one thread at a time is inside an operation, and*)
(* a forget past its checkpoint follows the plan that is on the disk.      *)
THEOREM ControlKept == Spec => [](TypeOK /\ Control)
  <1>1. QED
    BY TypeInit, TypeStep, ControlInit, ControlStep, PTL DEF Spec

(* A thread with an operation under way holds the lock.                    *)
THEOREM OneWriterAtATime == Spec => []OneWriter
  <1>1. QED
    BY ControlKept, PTL DEF Control

--------------------------------------------------------------------------------
(* What a step may change.                                                 *)

(* Which variables a step may change, by the kind of step it is.           *)
LEMMA WhoChanges ==
    ASSUME [Next]_vars
    PROVE  /\ UNCHANGED head \/ \E p \in Procs : Commit(p) \/ PointHead(p)
           /\ UNCHANGED clock \/ \E p \in Procs : Commit(p)
           /\ UNCHANGED objects
                \/ \E p \in Procs : \/ Commit(p) \/ CollectGarbage(p)
                                    \/ \E k \in Keys : PlanForget(p, k)
           /\ UNCHANGED blobs
                \/ \E p \in Procs : \/ CollectGarbage(p)
                                    \/ \E k \in Keys, v \in Contents : StageSave(p, k, v)
           /\ UNCHANGED notes
                \/ Annotate \/ \E p \in Procs : ClearNotes(p) \/ AddNote(p)
           /\ UNCHANGED tags \/ Annotate \/ \E p \in Procs : RewriteTags(p)
           /\ UNCHANGED staged
                \/ \E p \in Procs : \/ DropFromIndex(p) \/ RepairResume(p)
                                    \/ \E k \in Keys : StageRemoval(p, k)
                                    \/ \E k \in Keys, v \in Contents : StageSave(p, k, v)
           /\ UNCHANGED checkpoint
                \/ \E p \in Procs : WriteCheckpoint(p) \/ UnlinkCheckpoint(p)
           /\ UNCHANGED generation \/ \E p \in Procs : WriteGeneration(p)
  <1>1. CASE \E p \in Procs : Save(p)
    <2>1. ASSUME NEW p \in Procs, NEW k \in Keys, NEW v \in Contents, StageSave(p, k, v)
          PROVE  UNCHANGED <<head, clock, objects, notes, tags, checkpoint, generation>>
      BY <2>1 DEF StageSave
    <2>2. ASSUME NEW p \in Procs, NEW k \in Keys, StageRemoval(p, k)
          PROVE  UNCHANGED <<head, clock, objects, blobs, notes, tags, checkpoint,
                             generation>>
      BY <2>2 DEF StageRemoval
    <2>3. ASSUME NEW p \in Procs, Commit(p)
          PROVE  UNCHANGED <<blobs, notes, tags, staged, checkpoint, generation>>
      BY <2>3 DEF Commit
    <2>4. QED
      BY <1>1, <2>1, <2>2, <2>3 DEF Save
  <1>2. CASE Annotate
    BY <1>2 DEF Annotate, Describe, Undescribe, CreateVersion, RetitleVersion, RemoveVersion
  <1>3. CASE \E p \in Procs, k \in Keys : PlanForget(p, k)
    BY <1>3 DEF PlanForget
  <1>4. CASE \E p \in Procs : ForgetStep(p)
    <2>1. PICK p \in Procs : ForgetStep(p)
      BY <1>4
    <2>2. CASE WriteCheckpoint(p)
      BY <2>2 DEF WriteCheckpoint
    <2>3. CASE WriteGeneration(p)
      BY <2>3 DEF WriteGeneration
    <2>4. CASE PointHead(p)
      BY <2>4 DEF PointHead
    <2>5. CASE ClearNotes(p)
      BY <2>5 DEF ClearNotes
    <2>6. CASE AddNote(p)
      BY <2>6 DEF AddNote
    <2>7. CASE NotesRewritten(p)
      BY <2>7 DEF NotesRewritten, disk
    <2>8. CASE RewriteTags(p)
      BY <2>8 DEF RewriteTags
    <2>9. CASE DropFromIndex(p)
      BY <2>9 DEF DropFromIndex
    <2>10. CASE CollectGarbage(p)
      BY <2>10 DEF CollectGarbage
    <2>11. CASE UnlinkCheckpoint(p)
      BY <2>11 DEF UnlinkCheckpoint
    <2>12. QED
      BY <2>1, <2>2, <2>3, <2>4, <2>5, <2>6, <2>7, <2>8, <2>9, <2>10, <2>11
      DEF ForgetStep
  <1>5. CASE \E p \in Procs : RepairResume(p)
    BY <1>5 DEF RepairResume
  <1>6. CASE (\E p \in Procs : Raise(p)) \/ Restart \/ Reload \/ RepairNothing
    BY <1>6 DEF Raise, Restart, Reload, RepairNothing, disk
  <1>7. CASE UNCHANGED vars
    BY <1>7 DEF vars
  <1>8. QED
    BY <1>1, <1>2, <1>3, <1>4, <1>5, <1>6, <1>7 DEF Next, Forget

(* A thread carrying out a forget works on the checkpoint, under its count.*)
LEMMA AtWork ==
    ASSUME TypeOK, Control, NEW p \in Procs,
           job[p].step \in ForgetSteps \ {"checkpoint"}
    PROVE  /\ checkpoint # NoPlan /\ checkpoint = job[p].plan /\ checkpoint \in Plan
           /\ ~At(p, "generation") => Rewriting
           /\ At(p, "notes") => notes \subseteq checkpoint.notes
  <1>1. Follows(p)
    BY DEF Control, PlanFollowed
  <1>2. QED
    BY <1>1, PlanIsNotNone DEF Follows, Rewriting, At

(* Nothing is written beside an unfinished forget.                         *)
LEMMA FrozenStep ==
    TypeOK /\ Control /\ [Next]_vars /\ checkpoint # NoPlan =>
        /\ clock' = clock
        /\ head' \in {head, checkpoint.head}
        /\ tags' \in {tags, checkpoint.tags}
        /\ notes' = notes \/ notes' \subseteq checkpoint.notes
        /\ generation' \in {generation, checkpoint.target}
  <1> SUFFICES ASSUME TypeOK, Control, [Next]_vars, checkpoint # NoPlan
               PROVE  /\ clock' = clock
                      /\ head' \in {head, checkpoint.head}
                      /\ tags' \in {tags, checkpoint.tags}
                      /\ notes' = notes \/ notes' \subseteq checkpoint.notes
                      /\ generation' \in {generation, checkpoint.target}
    OBVIOUS
  <1>1. ~Annotate
    BY DEF Annotate, Describe, Undescribe, CreateVersion, RetitleVersion,
           RemoveVersion, Admitted
  <1>2. \A p \in Procs : ~Commit(p)
    BY DEF Control, PlanFollowed, Follows, Commit
  <1>3. \A p \in Procs : PointHead(p) => head' = checkpoint.head
    BY AtWork DEF PointHead, At, ForgetSteps
  <1>4. \A p \in Procs : RewriteTags(p) => tags' = checkpoint.tags
    BY AtWork DEF RewriteTags, At, ForgetSteps
  <1>5. \A p \in Procs : ClearNotes(p) => notes' = {}
    BY DEF ClearNotes
  <1>6. \A p \in Procs : AddNote(p) => notes' \subseteq checkpoint.notes
    BY AtWork DEF AddNote, At, ForgetSteps
  <1>7. \A p \in Procs : WriteGeneration(p) => generation' = checkpoint.target
    BY AtWork DEF WriteGeneration, At, ForgetSteps
  <1>8. QED
    BY <1>1, <1>2, <1>3, <1>4, <1>5, <1>6, <1>7, WhoChanges

(* An unfinished forget freezes the repository but for what its plan says. *)
THEOREM PendingStaysFrozen == Spec => PendingIsFrozen
  <1>1. TypeOK /\ Control /\ [Next]_vars =>
          [checkpoint # NoPlan =>
            /\ clock' = clock
            /\ head' \in {head, checkpoint.head}
            /\ tags' \in {tags, checkpoint.tags}
            /\ notes' = notes \/ notes' \subseteq checkpoint.notes
            /\ generation' \in {generation, checkpoint.target}]_vars
    BY FrozenStep
  <1>2. QED
    BY <1>1, ControlKept, PTL DEF Spec, PendingIsFrozen

--------------------------------------------------------------------------------
(* The repository.                                                         *)

(* The branch is one, with no stamp the clock has not given.               *)
HeadIsBranch == IsBranch(head) /\ Within(head, clock)

(* A plan that can be carried out: its branch is one, its objects and its  *)
(* contents are there, its marks are of that branch, none twice.           *)
Sound(plan, now, there, stored) ==
    /\ IsBranch(plan.head) /\ Within(plan.head, now)
    /\ History(plan.head) \subseteq there
    /\ BlobsOf(plan.head) \subseteq stored
    /\ \A n \in plan.notes : n.rev \in History(plan.head)
    /\ \A t \in plan.tags : t.rev \in History(plan.head)
    /\ \A n, m \in plan.notes : n.rev = m.rev => n = m
    /\ \A t, u \in plan.tags : t.name = u.name => t = u

PlansAreSound ==
    /\ checkpoint # NoPlan => Sound(checkpoint, clock, objects, blobs)
    /\ \A p \in Procs : At(p, "checkpoint") => Sound(job[p].plan, clock, objects, blobs)

(* What a forget under way has done already.                               *)
AfterNotes == {"tags", "index", "collect", "unlink"}
AfterHead == {"clear notes", "notes"} \cup AfterNotes
AfterTags == AfterNotes \ {"tags"}
Done(p) ==
    /\ job[p].step \in AfterHead => head = job[p].plan.head
    /\ job[p].step \in AfterNotes => notes = job[p].plan.notes
    /\ job[p].step \in AfterTags => tags = job[p].plan.tags

Progress == \A p \in Procs : Done(p)

Repository ==
    /\ HeadIsBranch /\ NothingMissing /\ MarksInHistory
    /\ PlansAreSound /\ Progress

(* An empty repository is in order.                                        *)
LEMMA RepositoryInit == Init => Repository
  <1> SUFFICES ASSUME Init PROVE Repository
    OBVIOUS
  <1>1. head = {} /\ tags = {} /\ notes = {} /\ checkpoint = NoPlan
    BY DEF Init
  <1>2. HeadIsBranch
    BY <1>1 DEF HeadIsBranch, IsBranch, Within
  <1>3. Reachable = {} /\ StagedBlobs = {}
    BY <1>1 DEF Init, Reachable, History, StagedBlobs, EmptyTree
  <1>4. NothingMissing
    BY <1>3 DEF NothingMissing, ReachableBlobs
  <1>5. MarksInHistory
    BY <1>1 DEF MarksInHistory
  <1>6. PlansAreSound /\ Progress
    BY <1>1 DEF Init, Idle, At, PlansAreSound, Progress, Done, AfterHead, AfterTags, AfterNotes
  <1>7. QED
    BY <1>2, <1>4, <1>5, <1>6 DEF Repository

(* A commit goes on top of the branch.                                     *)
LEMMA CommitOnTop ==
    ASSUME TypeOK, HeadIsBranch, NEW p \in Procs, Commit(p)
    PROVE  LET c == [at |-> clock + 1, tree |-> staged] IN
           /\ OnTop(head, c) /\ head' = head \cup {c}
           /\ History(head') = History(head) \cup {head'}
           /\ clock' = clock + 1
  <1> DEFINE c == [at |-> clock + 1, tree |-> staged]
  <1>1. OnTop(head, c)
    BY DEF TypeOK, HeadIsBranch, Within, IsBranch, Commits, OnTop
  <1>2. QED
    BY <1>1, HistoryOnTop DEF Commit

(* A sound plan stays sound as long as nothing is taken away.              *)
LEMMA SoundStays ==
    ASSUME NEW plan, NEW now \in Nat, NEW later \in Nat, now <= later,
           NEW there, NEW more, there \subseteq more,
           NEW stored, NEW others, stored \subseteq others,
           Sound(plan, now, there, stored)
    PROVE  Sound(plan, later, more, others)
  BY DEF Sound, Within, IsBranch, Commits

(* The plan of a forget is sound, once its objects are stored.             *)
LEMMA ForgetPlanIsSound ==
    ASSUME TypeOK, Repository, checkpoint = NoPlan, NEW k \in Keys
    PROVE  Sound(ForgetPlan(k), clock, objects \cup History(Rewritten(head, k)), blobs)
  <1> DEFINE new == Rewritten(head, k)
  <1>1. IsBranch(head) /\ Within(head, clock) /\ clock \in Nat
    BY DEF Repository, HeadIsBranch, TypeOK
  <1>2. IsBranch(new) /\ Within(new, clock)
    BY <1>1, RewrittenIsBranch DEF Within
  <1>3. BlobsOf(new) \subseteq blobs
    <2>1. BlobsOf(head) \subseteq blobs
      <3>1. head \in History(head) \cup {{}}
        BY <1>1, BranchIsRevision
      <3>2. BlobsOf({}) = {}
        BY DEF BlobsOf
      <3>3. QED
        BY <3>1, <3>2 DEF Repository, NothingMissing, Reachable, ReachableBlobs
    <2>2. QED
      BY <1>1, <2>1, BlobsOfRewritten
  <1>4. \A r \in History(head) : Rewritten(r, k) \in History(new) \cup {{}}
    BY <1>1, RewrittenIsRevision
  <1>5. \A r \in History(head) : Survives(r, Newest(r), k) => Rewritten(r, k) # {}
    <2>1. \A r \in History(head) : Newest(r) \in r
      BY <1>1, RevisionIsBranch
    <2>2. QED
      BY <2>1 DEF Rewritten
  <1>6. \A n \in PlannedNotes(k) : n.rev \in History(new)
    BY <1>4, <1>5 DEF PlannedNotes
  <1>7. \A t \in PlannedTags(k) : t.rev \in History(new)
    BY <1>4 DEF PlannedTags
  <1>8. /\ \A n, m \in notes : n.rev = m.rev => n = m
        /\ \A t, u \in tags : t.name = u.name => t = u
    BY DEF Repository, MarksInHistory
  <1>9. \A n, m \in PlannedNotes(k) : n.rev = m.rev => n = m
    <2> SUFFICES ASSUME NEW n \in PlannedNotes(k), NEW m \in PlannedNotes(k), n.rev = m.rev
                 PROVE  n = m
      OBVIOUS
    <2>1. PICK i \in notes : /\ n = [rev |-> Rewritten(i.rev, k), text |-> i.text]
                             /\ i.rev \in History(head) /\ Survives(i.rev, Newest(i.rev), k)
      BY DEF PlannedNotes
    <2>2. PICK j \in notes : /\ m = [rev |-> Rewritten(j.rev, k), text |-> j.text]
                             /\ j.rev \in History(head) /\ Survives(j.rev, Newest(j.rev), k)
      BY DEF PlannedNotes
    <2>3. i.rev = j.rev
      BY <1>1, <2>1, <2>2, SurvivorsStayApart
    <2>4. QED
      BY <1>8, <2>1, <2>2, <2>3
  <1>10. \A t, u \in PlannedTags(k) : t.name = u.name => t = u
    BY <1>8 DEF PlannedTags
  <1>11. QED
    BY <1>2, <1>3, <1>6, <1>7, <1>9, <1>10 DEF Sound, ForgetPlan

(* A thread that is busy after a step has made the step, or has slept      *)
(* through it with the disk as it was.                                     *)
LEMMA BusyStep ==
    ASSUME TypeOK, Control, [Next]_vars, NEW q \in Procs, job'[q].step # "idle"
    PROVE  \/ Save(q) \/ Forget(q) \/ RepairResume(q)
           \/ UNCHANGED disk /\ job'[q] = job[q]
  <1>1. lock' = q
    BY ControlStep DEF Control, OneWriter, At
  <1>2. OneWriter /\ q # NoProc
    BY NoProcAssumption DEF Control
  <1>3. ASSUME NEW p \in Procs, Save(p) \/ Forget(p) \/ RepairResume(p) PROVE p = q
    <2>1. CASE Save(p)
      BY <1>1, <1>2, <2>1 DEF Save, StageSave, StageRemoval, Commit, Continue, Leave
    <2>2. CASE \E k \in Keys : PlanForget(p, k)
      BY <1>1, <2>2 DEF PlanForget, Continue
    <2>3. CASE ForgetStep(p)
      <3>1. ~At(p, "idle") /\ lock' \in {p, NoProc, lock}
        BY <2>3 DEF ForgetStep, WriteCheckpoint, WriteGeneration, PointHead, ClearNotes,
                    AddNote, NotesRewritten, RewriteTags, DropFromIndex, CollectGarbage,
                    UnlinkCheckpoint, Continue, Leave, At
      <3>2. QED
        BY <1>1, <1>2, <3>1 DEF OneWriter
    <2>4. CASE RepairResume(p)
      BY <1>1, <2>4 DEF RepairResume, Continue
    <2>5. QED
      BY <1>3, <2>1, <2>2, <2>3, <2>4 DEF Forget
  <1>4. ASSUME Annotate PROVE FALSE
    <2>1. lock = NoProc /\ UNCHANGED lock
      BY <1>4 DEF Annotate, Describe, Undescribe, CreateVersion, RetitleVersion,
                  RemoveVersion, Admitted
    <2>2. QED
      BY <1>1, <1>2, <2>1
  <1>5. ASSUME NEW p \in Procs, Raise(p) PROVE FALSE
    BY <1>1, <1>2, <1>5 DEF Raise, Leave
  <1>6. ~Restart
    BY <1>1, <1>2 DEF Restart
  <1>7. Reload \/ RepairNothing \/ UNCHANGED vars => UNCHANGED disk /\ job' = job
    BY DEF Reload, RepairNothing, vars, disk
  <1>8. QED
    BY <1>3, <1>4, <1>5, <1>6, <1>7 DEF Next

(* A thread between two steps has just made the step that led there, or has*)
(* slept through the one that was made.                                    *)
LEMMA WhoIsThere ==
    ASSUME TypeOK, Control, [Next]_vars, NEW q \in Procs
    PROVE  /\ job'[q].step = "commit" =>
                \/ \E k \in Keys : StageRemoval(q, k) \/ \E v \in Contents : StageSave(q, k, v)
                \/ UNCHANGED disk /\ job'[q] = job[q]
           /\ job'[q].step = "checkpoint" =>
                \/ \E k \in Keys : PlanForget(q, k) /\ job'[q].plan = ForgetPlan(k)
                \/ UNCHANGED disk /\ job'[q] = job[q]
           /\ job'[q].step = "collect" =>
                \/ DropFromIndex(q) /\ job'[q].plan = job[q].plan
                \/ UNCHANGED disk /\ job'[q] = job[q]
           /\ job'[q].step = "unlink" =>
                \/ CollectGarbage(q) /\ job'[q].plan = job[q].plan
                \/ UNCHANGED disk /\ job'[q] = job[q]
  <1>1. \A step, plan : Continue(q, step, plan) => job'[q].step = step /\ job'[q].plan = plan
    BY DEF Continue, TypeOK
  <1>2. Leave(q) => job'[q].step = "idle"
    BY DEF Leave, TypeOK, Idle
  <1>3. CASE Save(q)
    BY <1>1, <1>2, <1>3 DEF Save, StageSave, StageRemoval, Commit
  <1>4. ASSUME NEW k \in Keys, PlanForget(q, k)
        PROVE  job'[q].step = "checkpoint" /\ job'[q].plan = ForgetPlan(k)
    BY <1>1, <1>4 DEF PlanForget
  <1>5. CASE ForgetStep(q)
    <2>1. CASE AddNote(q)
      BY <2>1 DEF AddNote, At
    <2>2. CASE CollectGarbage(q)
      BY <1>1, <2>2 DEF CollectGarbage
    <2>3. CASE DropFromIndex(q)
      BY <1>1, <2>3 DEF DropFromIndex
    <2>4. CASE ~AddNote(q) /\ ~CollectGarbage(q) /\ ~DropFromIndex(q)
      BY <1>1, <1>2, <1>5, <2>4
      DEF ForgetStep, WriteCheckpoint, WriteGeneration, PointHead, ClearNotes,
          NotesRewritten, RewriteTags, UnlinkCheckpoint
    <2>5. QED
      BY <2>1, <2>2, <2>3, <2>4
  <1>6. CASE RepairResume(q)
    BY <1>1, <1>6 DEF RepairResume
  <1>7. job'[q].step # "idle" =>
          \/ Save(q) \/ Forget(q) \/ RepairResume(q)
          \/ UNCHANGED disk /\ job'[q] = job[q]
    BY BusyStep
  <1>8. QED
    BY <1>3, <1>4, <1>5, <1>6, <1>7 DEF Forget

(* Every step leaves the branch a branch, its stamps up to the clock.      *)
LEMMA HeadStep ==
    TypeOK /\ Control /\ Repository /\ [Next]_vars => HeadIsBranch'
  <1> SUFFICES ASSUME TypeOK, Control, Repository, [Next]_vars PROVE HeadIsBranch'
    OBVIOUS
  <1>1. HeadIsBranch /\ clock \in Nat
    BY DEF Repository, TypeOK
  <1>2. ASSUME NEW p \in Procs, Commit(p) PROVE HeadIsBranch'
    <2> DEFINE c == [at |-> clock + 1, tree |-> staged]
    <2>1. OnTop(head, c) /\ head' = head \cup {c} /\ clock' = clock + 1
      BY <1>1, <1>2, CommitOnTop
    <2>2. IsBranch(head')
      BY <2>1, OnTopOrder
    <2>3. Within(head', clock')
      BY <1>1, <2>1 DEF HeadIsBranch, Within, IsBranch, Commits
    <2>4. QED
      BY <2>2, <2>3 DEF HeadIsBranch
  <1>3. ASSUME NEW p \in Procs, PointHead(p) PROVE HeadIsBranch'
    <2>1. head' = checkpoint.head /\ clock' = clock /\ checkpoint # NoPlan
      BY <1>3, AtWork DEF PointHead, At, ForgetSteps
    <2>2. QED
      BY <2>1 DEF Repository, PlansAreSound, Sound, HeadIsBranch
  <1>4. CASE UNCHANGED <<head, clock>>
    BY <1>1, <1>4 DEF HeadIsBranch
  <1>5. QED
    BY <1>2, <1>3, <1>4, WhoChanges

(* Every step keeps what the part of a forget already carried out says.    *)
LEMMA ProgressStep ==
    TypeOK /\ Control /\ Repository /\ [Next]_vars => Progress'
  <1> SUFFICES ASSUME TypeOK, Control, Repository, [Next]_vars, NEW q \in Procs,
                      job'[q].step \in AfterHead
               PROVE  Done(q)'
    BY DEF Progress, Done, AfterHead, AfterTags, AfterNotes
  <1>1. Done(q) /\ Follows(q)
    BY DEF Repository, Progress, Control, PlanFollowed
  <1>2. CASE UNCHANGED disk /\ job'[q] = job[q]
    BY <1>1, <1>2 DEF Done, disk
  <1>3. ~Save(q)
    <2>1. ~Commit(q)
      BY AfterLeave DEF Commit, Control, AfterHead, AfterNotes, At
    <2>2. ASSUME Admitted, Continue(q, "commit", NoPlan) PROVE FALSE
      <3>1. lock = NoProc
        BY <2>2 DEF Admitted
      <3>2. job'[q].step = "commit"
        BY <2>2, <3>1, AfterContinue DEF Control
      <3>3. QED
        BY <3>2 DEF AfterHead, AfterNotes
    <2>3. QED
      BY <2>1, <2>2 DEF Save, StageSave, StageRemoval
  <1>4. ASSUME RepairResume(q) PROVE FALSE
    <2>1. lock = NoProc /\ Continue(q, "generation", checkpoint)
      BY <1>4 DEF RepairResume
    <2>2. job'[q].step = "generation"
      BY <2>1, AfterContinue DEF Control
    <2>3. QED
      BY <2>2 DEF AfterHead, AfterNotes
  <1>5. ASSUME NEW k \in Keys, PlanForget(q, k) PROVE FALSE
    <2>1. lock = NoProc /\ Continue(q, "checkpoint", ForgetPlan(k))
      BY <1>5 DEF PlanForget, Admitted
    <2>2. job'[q].step = "checkpoint"
      BY <2>1, AfterContinue DEF Control
    <2>3. QED
      BY <2>2 DEF AfterHead, AfterNotes
  <1>6. ~WriteCheckpoint(q) /\ ~WriteGeneration(q) /\ ~UnlinkCheckpoint(q)
    <2>1. ASSUME NEW step \in {"generation", "head"}, ~At(q, "idle"),
                 Continue(q, step, job[q].plan)
          PROVE  FALSE
      <3>1. job'[q].step = step
        BY <2>1, AfterContinue DEF Control
      <3>2. QED
        BY <2>1, <3>1 DEF AfterHead, AfterNotes
    <2>2. ~WriteCheckpoint(q)
      BY <2>1 DEF WriteCheckpoint, At
    <2>3. ~WriteGeneration(q)
      BY <2>1 DEF WriteGeneration, At
    <2>4. ~UnlinkCheckpoint(q)
      BY AfterLeave DEF UnlinkCheckpoint, At, Control, AfterHead, AfterNotes
    <2>5. QED
      BY <2>2, <2>3, <2>4
  <1>7. ASSUME NEW step, Continue(q, step, job[q].plan), ~At(q, "idle")
        PROVE  job'[q].step = step /\ job'[q].plan = job[q].plan
    BY <1>7, AfterContinue DEF Control
  <1>8. CASE PointHead(q)
    <2>1. job'[q].step = "clear notes" /\ job'[q].plan = job[q].plan
      BY <1>7, <1>8 DEF PointHead, At
    <2>2. QED
      BY <1>8, <2>1 DEF PointHead, Done, AfterHead, AfterTags, AfterNotes
  <1>9. CASE ClearNotes(q)
    <2>1. job'[q].step = "notes" /\ job'[q].plan = job[q].plan
      BY <1>7, <1>9 DEF ClearNotes, At
    <2>2. QED
      BY <1>1, <1>9, <2>1 DEF ClearNotes, At, Done, AfterHead, AfterTags, AfterNotes
  <1>10. CASE AddNote(q)
    BY <1>1, <1>10 DEF AddNote, At, Done, AfterHead, AfterTags, AfterNotes
  <1>11. CASE NotesRewritten(q)
    <2>1. job'[q].step = "tags" /\ job'[q].plan = job[q].plan
      BY <1>7, <1>11 DEF NotesRewritten, At
    <2>2. notes = job[q].plan.notes
      BY <1>1, <1>11 DEF NotesRewritten, Follows
    <2>3. QED
      BY <1>1, <1>11, <2>1, <2>2
      DEF NotesRewritten, disk, At, Done, AfterHead, AfterTags, AfterNotes
  <1>12. CASE RewriteTags(q)
    <2>1. job'[q].step = "index" /\ job'[q].plan = job[q].plan
      BY <1>7, <1>12 DEF RewriteTags, At
    <2>2. QED
      BY <1>1, <1>12, <2>1 DEF RewriteTags, At, Done, AfterHead, AfterTags, AfterNotes
  <1>13. CASE DropFromIndex(q)
    <2>1. job'[q].step = "collect" /\ job'[q].plan = job[q].plan
      BY <1>7, <1>13 DEF DropFromIndex, At
    <2>2. QED
      BY <1>1, <1>13, <2>1 DEF DropFromIndex, At, Done, AfterHead, AfterTags, AfterNotes
  <1>14. CASE CollectGarbage(q)
    <2>1. job'[q].step = "unlink" /\ job'[q].plan = job[q].plan
      BY <1>7, <1>14 DEF CollectGarbage, At
    <2>2. QED
      BY <1>1, <1>14, <2>1 DEF CollectGarbage, At, Done, AfterHead, AfterTags, AfterNotes
  <1>15. Save(q) \/ Forget(q) \/ RepairResume(q) \/ (UNCHANGED disk /\ job'[q] = job[q])
    BY BusyStep DEF AfterHead, AfterNotes
  <1>16. QED
    BY <1>2, <1>3, <1>4, <1>5, <1>6, <1>8, <1>9, <1>10, <1>11, <1>12, <1>13, <1>14, <1>15
    DEF Forget, ForgetStep

(* Every step keeps the plans sound: what they name stays in the object    *)
(* store.                                                                  *)
LEMMA PlansStep ==
    TypeOK /\ Control /\ Repository /\ [Next]_vars => PlansAreSound'
  <1> SUFFICES ASSUME TypeOK, Control, Repository, [Next]_vars PROVE PlansAreSound'
    OBVIOUS
  <1>1. /\ clock \in Nat /\ IsBranch(head) /\ Within(head, clock)
        /\ PlansAreSound /\ \A p \in Procs : Done(p) /\ Follows(p)
    BY DEF TypeOK, Repository, HeadIsBranch, Progress, Control, PlanFollowed
  <1>2. ASSUME checkpoint' # NoPlan PROVE Sound(checkpoint, clock, objects, blobs)'
    <2>1. ASSUME NEW p \in Procs, WriteCheckpoint(p)
          PROVE  Sound(checkpoint, clock, objects, blobs)'
      BY <1>1, <2>1 DEF WriteCheckpoint, PlansAreSound
    <2>2. ASSUME NEW p \in Procs, UnlinkCheckpoint(p) PROVE FALSE
      BY <1>2, <2>2 DEF UnlinkCheckpoint
    <2>3. ASSUME UNCHANGED checkpoint
          PROVE  Sound(checkpoint, clock, objects, blobs)'
      <3>1. checkpoint # NoPlan /\ Sound(checkpoint, clock, objects, blobs)
        BY <1>1, <1>2, <2>3 DEF PlansAreSound
      <3>2. UNCHANGED clock
        BY <3>1, FrozenStep
      <3>3. ASSUME NEW p \in Procs, CollectGarbage(p)
            PROVE  Sound(checkpoint, clock, objects, blobs)'
        <4>1. checkpoint = job[p].plan /\ head = checkpoint.head
          BY <1>1, <3>3, AtWork
          DEF CollectGarbage, At, Done, AfterHead, AfterNotes, ForgetSteps
        <4>2. History(head) \subseteq objects'
          BY <3>1, <3>3, <4>1 DEF CollectGarbage, Reachable, Sound
        <4>3. BlobsOf(head) \subseteq blobs'
          <5>1. head \in History(head) \cup {{}} /\ BlobsOf({}) = {}
            BY <1>1, BranchIsRevision DEF BlobsOf
          <5>2. BlobsOf(head) \subseteq ReachableBlobs
            BY <5>1 DEF Reachable, ReachableBlobs
          <5>3. QED
            BY <3>1, <3>3, <4>1, <5>2 DEF CollectGarbage, Sound
        <4>4. QED
          BY <2>3, <3>1, <3>2, <4>1, <4>2, <4>3 DEF Sound
      <3>4. ASSUME \A p \in Procs : ~CollectGarbage(p)
            PROVE  objects \subseteq objects' /\ blobs \subseteq blobs'
        BY <3>4, WhoChanges DEF Commit, PlanForget, StageSave
      <3>5. QED
        BY <1>1, <2>3, <3>1, <3>2, <3>3, <3>4, SoundStays
    <2>4. QED
      BY <2>1, <2>2, <2>3, WhoChanges
  <1>3. ASSUME NEW q \in Procs, At(q, "checkpoint")'
        PROVE  Sound(job[q].plan, clock, objects, blobs)'
    <2>1. job'[q].step = "checkpoint"
      BY <1>3 DEF At
    <2>2. CASE UNCHANGED disk /\ job'[q] = job[q]
      BY <1>1, <2>1, <2>2 DEF disk, PlansAreSound, At
    <2>3. ASSUME NEW k \in Keys, PlanForget(q, k)
          PROVE  Sound(job[q].plan, clock, objects, blobs)'
      <3>1. lock = NoProc /\ checkpoint = NoPlan /\ Continue(q, "checkpoint", ForgetPlan(k))
        BY <2>3 DEF PlanForget, Admitted
      <3>2. job'[q].plan = ForgetPlan(k)
        BY <3>1, AfterContinue DEF Control
      <3>3. QED
        BY <2>3, <3>1, <3>2, ForgetPlanIsSound DEF PlanForget
    <2>4. ASSUME NEW step, NEW plan, Continue(q, step, plan),
                 lock = NoProc \/ ~At(q, "idle"), step # "checkpoint"
          PROVE  FALSE
      BY <2>1, <2>4, AfterContinue DEF Control
    <2>5. ASSUME Leave(q), ~At(q, "idle") PROVE FALSE
      BY <2>1, <2>5, AfterLeave DEF Control
    <2>6. ~Save(q)
      BY <2>4, <2>5 DEF Save, StageSave, StageRemoval, Commit, Admitted, At
    <2>7. ~RepairResume(q)
      BY <2>4 DEF RepairResume
    <2>8. ~ForgetStep(q)
      <3>1. ~AddNote(q)
        BY <2>1 DEF AddNote, At
      <3>2. QED
        BY <2>4, <2>5, <3>1
        DEF ForgetStep, WriteCheckpoint, WriteGeneration, PointHead, ClearNotes,
            NotesRewritten, RewriteTags, DropFromIndex, CollectGarbage,
            UnlinkCheckpoint, At
    <2>9. QED
      BY <2>1, <2>2, <2>3, <2>6, <2>7, <2>8, BusyStep DEF Forget
  <1>4. QED
    BY <1>2, <1>3 DEF PlansAreSound

(* Every step keeps the versions and notes on the branch.                  *)
LEMMA MarksStep ==
    TypeOK /\ Control /\ Repository /\ [Next]_vars => MarksInHistory'
  <1> SUFFICES ASSUME TypeOK, Control, Repository, [Next]_vars, checkpoint' = NoPlan
               PROVE  /\ \A t \in tags' : t.rev \in History(head')
                      /\ \A n \in notes' : n.rev \in History(head')
                      /\ \A t, u \in tags' : t.name = u.name => t = u
                      /\ \A n, m \in notes' : n.rev = m.rev => n = m
    BY DEF MarksInHistory
  <1>1. CASE checkpoint # NoPlan
    <2>1. PICK p \in Procs : UnlinkCheckpoint(p)
      <3>1. \A p \in Procs : ~WriteCheckpoint(p)
        BY PlanIsNotNone DEF WriteCheckpoint, At, ForgetSteps
      <3>2. QED
        BY <1>1, <3>1, WhoChanges
    <2>2. /\ checkpoint = job[p].plan
          /\ head = checkpoint.head /\ notes = checkpoint.notes /\ tags = checkpoint.tags
      BY <2>1, AtWork
      DEF UnlinkCheckpoint, At, Repository, Progress, Done, AfterHead, AfterTags,
          AfterNotes, ForgetSteps
    <2>3. UNCHANGED <<head, notes, tags>>
      BY <2>1 DEF UnlinkCheckpoint
    <2>4. QED
      BY <1>1, <2>2, <2>3 DEF Repository, PlansAreSound, Sound
  <1>2. CASE checkpoint = NoPlan
    <2>1. /\ \A t \in tags : t.rev \in History(head)
          /\ \A n \in notes : n.rev \in History(head)
          /\ \A t, u \in tags : t.name = u.name => t = u
          /\ \A n, m \in notes : n.rev = m.rev => n = m
      BY <1>2 DEF Repository, MarksInHistory
    <2>2. \A p \in Procs : ~PointHead(p) /\ ~RewriteTags(p) /\ ~ClearNotes(p) /\ ~AddNote(p)
      BY <1>2, AtWork DEF PointHead, RewriteTags, ClearNotes, AddNote, At, ForgetSteps
    <2>3. History(head) \subseteq History(head')
      <3>1. \A p \in Procs : Commit(p) => History(head) \subseteq History(head')
        BY CommitOnTop DEF Repository
      <3>2. QED
        BY <2>2, <3>1, WhoChanges
    <2>4. CASE UNCHANGED <<notes, tags>>
      BY <2>1, <2>3, <2>4
    <2>5. CASE Annotate
      <3>1. ASSUME NEW r \in History(head), NEW w \in Words, Describe(r, w)
            PROVE  /\ \A n \in notes' : n.rev \in History(head)
                   /\ \A n, m \in notes' : n.rev = m.rev => n = m
                   /\ UNCHANGED tags
        BY <2>1, <3>1 DEF Describe
      <3>2. ASSUME NEW r \in History(head), Undescribe(r)
            PROVE  notes' \subseteq notes /\ UNCHANGED tags
        BY <3>2 DEF Undescribe
      <3>3. ASSUME NEW n \in Names, NEW r \in History(head), NEW w \in Words,
                   CreateVersion(n, r, w)
            PROVE  /\ \A t \in tags' : t.rev \in History(head)
                   /\ \A t, u \in tags' : t.name = u.name => t = u
                   /\ UNCHANGED notes
        BY <2>1, <3>3 DEF CreateVersion
      <3>4. ASSUME NEW t \in tags, NEW w \in Words, RetitleVersion(t, w)
            PROVE  /\ \A u \in tags' : u.rev \in History(head)
                   /\ \A u, v \in tags' : u.name = v.name => u = v
                   /\ UNCHANGED notes
        <4>1. PICK new : new = [t EXCEPT !.title = w]
          OBVIOUS
        <4>2. new.name = t.name /\ new.rev = t.rev
          BY <4>1 DEF TypeOK, Tags
        <4>3. tags' = (tags \ {t}) \cup {new} /\ UNCHANGED notes
          BY <3>4, <4>1 DEF RetitleVersion
        <4>4. QED
          BY <2>1, <4>2, <4>3
      <3>5. ASSUME NEW t \in tags, RemoveVersion(t)
            PROVE  tags' \subseteq tags /\ UNCHANGED notes
        BY <3>5 DEF RemoveVersion
      <3>6. QED
        BY <2>1, <2>3, <2>5, <3>1, <3>2, <3>3, <3>4, <3>5 DEF Annotate
    <2>6. QED
      BY <2>2, <2>4, <2>5, WhoChanges
  <1>3. QED
    BY <1>1, <1>2

(* NothingMissing, one revision at a time, of a state and of the next.     *)
LEMMA MissingOneByOne ==
    /\ NothingMissing <=>
         /\ StagedBlobs \subseteq blobs
         /\ \A r \in Reachable : r \in objects /\ BlobsOf(r) \subseteq blobs
    /\ NothingMissing' <=>
         /\ StagedBlobs' \subseteq blobs'
         /\ \A r \in Reachable' : r \in objects' /\ BlobsOf(r) \subseteq blobs'
  BY DEF NothingMissing, ReachableBlobs

(* Nothing is missed when no more is needed and nothing is taken away.     *)
LEMMA NeedsNoMore ==
    ASSUME NothingMissing, Reachable' \subseteq Reachable,
           StagedBlobs' \subseteq StagedBlobs \cup blobs',
           objects \subseteq objects', blobs \subseteq blobs'
    PROVE  NothingMissing'
  BY MissingOneByOne

(* Every step keeps in the object store what is needed of it.              *)
LEMMA MissingStep ==
    TypeOK /\ Control /\ Repository /\ [Next]_vars => NothingMissing'
  <1> SUFFICES ASSUME TypeOK, Control, Repository, [Next]_vars PROVE NothingMissing'
    OBVIOUS
  <1>1. /\ NothingMissing /\ clock \in Nat /\ IsBranch(head) /\ Within(head, clock)
        /\ \A p \in Procs : Done(p)
    BY DEF Repository, HeadIsBranch, Progress, TypeOK
  <1>2. ASSUME NEW p \in Procs, Commit(p) PROVE NothingMissing'
    <2>1. /\ History(head') = History(head) \cup {head'}
          /\ head' = head \cup {[at |-> clock + 1, tree |-> staged]}
      BY <1>2, CommitOnTop DEF Repository
    <2>2. Reachable' = Reachable \cup {head'} /\ objects' = objects \cup {head'}
          /\ blobs' = blobs /\ StagedBlobs' = StagedBlobs
      BY <1>2, <2>1 DEF Commit, Reachable, StagedBlobs
    <2>3. BlobsOf(head') \subseteq BlobsOf(head) \cup StagedBlobs
      BY <2>1 DEF BlobsOf, StagedBlobs
    <2>4. BlobsOf(head) \subseteq blobs
      <3>1. head \in History(head) \cup {{}} /\ BlobsOf({}) = {}
        BY <1>1, BranchIsRevision DEF BlobsOf
      <3>2. QED
        BY <1>1, <3>1, MissingOneByOne DEF Reachable
    <2>5. QED
      BY <1>1, <2>2, <2>3, <2>4, MissingOneByOne
  <1>3. ASSUME NEW p \in Procs, NEW k \in Keys, NEW v \in Contents, StageSave(p, k, v)
        PROVE  NothingMissing'
    <2>1. \A j \in Keys : staged'[j] = staged[j] \/ staged'[j] = v
      BY <1>3 DEF StageSave, TypeOK, Trees
    <2>2. StagedBlobs' \subseteq StagedBlobs \cup blobs'
      BY <1>3, <2>1 DEF StagedBlobs, StageSave
    <2>3. UNCHANGED <<head, tags, objects>> /\ blobs \subseteq blobs'
      BY <1>3 DEF StageSave
    <2>4. QED
      BY <1>1, <2>2, <2>3, NeedsNoMore DEF Reachable
  <1>4. ASSUME NEW p \in Procs, NEW k \in Keys, NEW tree,
               staged' = tree, \A j \in Keys : tree[j] \in {staged[j], Absent},
               UNCHANGED <<head, tags, objects, blobs>>
        PROVE  NothingMissing'
    <2>1. StagedBlobs' \subseteq StagedBlobs
      BY <1>4 DEF StagedBlobs
    <2>2. QED
      BY <1>1, <1>4, <2>1, NeedsNoMore DEF Reachable
  <1>5. ASSUME NEW p \in Procs, NEW k \in Keys, StageRemoval(p, k) PROVE NothingMissing'
    <2>1. \A j \in Keys : staged'[j] \in {staged[j], Absent}
      BY <1>5 DEF StageRemoval, TypeOK, Trees
    <2>2. UNCHANGED <<head, tags, objects, blobs>>
      BY <1>5 DEF StageRemoval
    <2>3. QED
      BY <1>4, <1>5, <2>1, <2>2
  <1>6. \A k \in Keys : \A j \in Keys : Without(staged, k)[j] \in {staged[j], Absent}
    BY WithoutIsTree DEF TypeOK
  <1>7. ASSUME NEW p \in Procs, DropFromIndex(p) PROVE NothingMissing'
    <2>1. job[p].plan.key \in Keys
      BY <1>7, PlanIsNotNone DEF DropFromIndex, At, ForgetSteps, Plan
    <2>2. QED
      BY <1>4, <1>6, <1>7, <2>1 DEF DropFromIndex
  <1>8. ASSUME NEW p \in Procs, RepairResume(p) PROVE NothingMissing'
    <2>1. checkpoint.key \in Keys
      BY <1>8 DEF RepairResume, TypeOK, Plan
    <2>2. \A j \in Keys : Reconciled(checkpoint.key)[j] \in {staged[j], Absent}
      BY <1>6, <2>1 DEF Reconciled
    <2>3. QED
      BY <1>4, <1>8, <2>1, <2>2 DEF RepairResume
  <1>9. CASE Annotate
    <2>1. UNCHANGED <<head, staged, objects, blobs>>
      BY <1>9 DEF Annotate, Describe, Undescribe, CreateVersion, RetitleVersion,
                  RemoveVersion
    <2>2. \A t \in tags' : t.rev \in History(head) \/ \E u \in tags : u.rev = t.rev
      <3>1. \A t \in tags, w \in Words : [t EXCEPT !.title = w].rev = t.rev
        BY DEF TypeOK, Tags
      <3>2. ASSUME NEW t \in tags, NEW w \in Words, RetitleVersion(t, w)
            PROVE  \A u \in tags' : \E v \in tags : v.rev = u.rev
        BY <3>1, <3>2 DEF RetitleVersion
      <3>3. ASSUME NEW n \in Names, NEW r \in History(head), NEW w \in Words,
                   CreateVersion(n, r, w)
            PROVE  \A t \in tags' : t \in tags \/ t.rev = r
        BY <3>3 DEF CreateVersion
      <3>4. QED
        BY <1>9, <3>2, <3>3 DEF Annotate, Describe, Undescribe, RemoveVersion
    <2>3. \A r \in History(head) : History(r) \subseteq History(head)
      BY <1>1, RevisionIsBranch
    <2>4. Reachable' \subseteq Reachable
      BY <2>1, <2>2, <2>3 DEF Reachable
    <2>5. QED
      BY <1>1, <2>1, <2>4, NeedsNoMore DEF StagedBlobs
  <1>10. ASSUME NEW p \in Procs, NEW k \in Keys, PlanForget(p, k) PROVE NothingMissing'
    <2>1. UNCHANGED <<head, tags, staged, blobs>> /\ objects \subseteq objects'
      BY <1>10 DEF PlanForget
    <2>2. QED
      BY <1>1, <2>1, NeedsNoMore DEF Reachable, StagedBlobs
  <1>11. ASSUME NEW p \in Procs, PointHead(p) \/ RewriteTags(p) PROVE NothingMissing'
    <2> DEFINE target == checkpoint.head
    <2>1. /\ checkpoint # NoPlan /\ checkpoint = job[p].plan
          /\ UNCHANGED <<staged, objects, blobs>>
          /\ head' \in {head, target} /\ tags' \in {tags, checkpoint.tags}
      BY <1>11, AtWork DEF PointHead, RewriteTags, At, ForgetSteps
    <2>2. Sound(checkpoint, clock, objects, blobs)
      BY <2>1 DEF Repository, PlansAreSound
    <2>3. \A r \in History(target) : History(r) \subseteq History(target)
      BY <1>1, <2>2, RevisionIsBranch DEF Sound
    <2>4. \A r \in History(target) : r \in objects /\ BlobsOf(r) \subseteq blobs
      BY <1>1, <2>2, RevisionIsBranch DEF Sound
    <2>5. Reachable' \subseteq Reachable \cup History(target)
      <3>1. \A t \in checkpoint.tags : History(t.rev) \subseteq History(target)
        BY <2>2, <2>3 DEF Sound
      <3>2. History(head') \subseteq Reachable \cup History(target)
        BY <2>1 DEF Reachable
      <3>3. \A t \in tags' : History(t.rev) \subseteq Reachable \cup History(target)
        BY <2>1, <3>1 DEF Reachable
      <3>4. Reachable' = History(head') \cup UNION {History(t.rev) : t \in tags'}
        BY DEF Reachable
      <3>5. QED
        BY <3>2, <3>3, <3>4
    <2>6. \A r \in Reachable' : r \in objects /\ BlobsOf(r) \subseteq blobs
      BY <1>1, <2>4, <2>5, MissingOneByOne
    <2>7. QED
      BY <1>1, <2>1, <2>6, MissingOneByOne DEF StagedBlobs
  <1>12. ASSUME NEW p \in Procs, CollectGarbage(p) PROVE NothingMissing'
    <2>1. /\ Reachable' = Reachable /\ StagedBlobs' = StagedBlobs
          /\ ReachableBlobs' = ReachableBlobs
      BY <1>12 DEF CollectGarbage, Reachable, ReachableBlobs, StagedBlobs
    <2>2. QED
      BY <1>1, <1>12, <2>1 DEF CollectGarbage, NothingMissing
  <1>13. CASE UNCHANGED <<head, tags, staged, objects, blobs>>
    BY <1>1, <1>13, NeedsNoMore DEF Reachable, StagedBlobs
  <1>14. QED
    BY <1>2, <1>3, <1>5, <1>7, <1>8, <1>9, <1>10, <1>11, <1>12, <1>13, WhoChanges

(* The inductive invariant as a whole: types, control and repository.      *)
THEOREM RepositoryKept == Spec => [](TypeOK /\ Control /\ Repository)
  <1>1. TypeOK /\ Control /\ Repository /\ [Next]_vars => Repository'
    BY HeadStep, MissingStep, MarksStep, PlansStep, ProgressStep DEF Repository
  <1>2. QED
    BY <1>1, TypeInit, TypeStep, ControlInit, ControlStep, RepositoryInit, PTL DEF Spec

(* Pruning takes nothing the branch, a version or the index needs.         *)
THEOREM NothingIsMissing == Spec => []NothingMissing
  <1>1. QED
    BY RepositoryKept, PTL DEF Repository

(* Outside an unfinished forget versions and notes are of the branch.      *)
THEOREM MarksAreInHistory == Spec => []MarksInHistory
  <1>1. QED
    BY RepositoryKept, PTL DEF Repository

(* The repair never meets a checkpoint it has to turn down.                *)
THEOREM PlanIsAlwaysValid == Spec => []PlanStaysValid
  <1>1. TypeOK /\ Control /\ Repository => PlanStaysValid
    <2> SUFFICES ASSUME TypeOK, Control, Repository, checkpoint # NoPlan
                 PROVE  ValidPlan(checkpoint)
      BY DEF PlanStaysValid
    <2>1. Sound(checkpoint, clock, objects, blobs) /\ clock \in Nat
      BY DEF Repository, PlansAreSound, TypeOK
    <2>2. checkpoint.head \in History(checkpoint.head) \cup {{}}
      BY <2>1, BranchIsRevision DEF Sound
    <2>3. checkpoint.target \in {generation, generation + 1}
      BY DEF Control, PlanFollowed, TargetInReach
    <2>4. QED
      BY <2>1, <2>2, <2>3 DEF ValidPlan, Sound
  <1>2. QED
    BY <1>1, RepositoryKept, PTL

(* The counter goes up by one with each forget, and before a revision      *)
(* leaves the branch or the store.                                         *)
THEOREM GenerationIsAGuard == Spec => GenerationGuardsRewrites
  <1>1. TypeOK /\ Control /\ Repository /\ [Next]_vars =>
          /\ generation' \in {generation, generation + 1}
          /\ History(head) \subseteq History(head') \/ Rewriting
          /\ objects \subseteq objects' \/ Rewriting
    <2> SUFFICES ASSUME TypeOK, Control, Repository, [Next]_vars
                 PROVE  /\ generation' \in {generation, generation + 1}
                        /\ History(head) \subseteq History(head') \/ Rewriting
                        /\ objects \subseteq objects' \/ Rewriting
      OBVIOUS
    <2>1. \A p \in Procs : PointHead(p) \/ CollectGarbage(p) => Rewriting
      BY AtWork DEF PointHead, CollectGarbage, At, ForgetSteps
    <2>2. \A p \in Procs : WriteGeneration(p) =>
                             generation' \in {generation, generation + 1}
      <3>1. \A p \in Procs : WriteGeneration(p) =>
                               checkpoint # NoPlan /\ generation' = checkpoint.target
        BY AtWork DEF WriteGeneration, At, ForgetSteps
      <3>2. QED
        BY <3>1 DEF Control, PlanFollowed, TargetInReach
    <2>3. \A p \in Procs : Commit(p) => History(head) \subseteq History(head')
      BY CommitOnTop DEF Repository
    <2>4. \A p \in Procs : /\ Commit(p) => objects \subseteq objects'
                           /\ \A k \in Keys : PlanForget(p, k) => objects \subseteq objects'
      BY DEF Commit, PlanForget
    <2>5. QED
      BY <2>1, <2>2, <2>3, <2>4, WhoChanges
  <1>2. TypeOK /\ Control /\ Repository /\ [Next]_vars =>
          [/\ generation' \in {generation, generation + 1}
           /\ History(head) \subseteq History(head') \/ Rewriting
           /\ objects \subseteq objects' \/ Rewriting]_vars
    BY <1>1
  <1>3. QED
    BY <1>2, RepositoryKept, PTL DEF Spec, GenerationGuardsRewrites

--------------------------------------------------------------------------------
(* The promise of AtomicHistory is kept, and a forget erases.              *)

(* What a branch says about its dashboards.                                *)

LatestOf(S) ==
    IF S = {} THEN Absent
    ELSE (CHOOSE c \in S : \A e \in S : e.at <= c.at).content

(* The list of changes and the newest tree say the same of every           *)
(* dashboard, and rewriting takes one dashboard out of both.               *)
Faithful(h) ==
    /\ TreeOf(h) \in Trees
    /\ \A j \in Keys : /\ LatestOf(ChangesOf(h, j)) = TreeOf(h)[j]
                       /\ \/ TreeOf(h)[j] = Absent
                          \/ \E e \in ChangesOf(h, j) : e.content = TreeOf(h)[j]
    /\ \A k \in Keys :
          /\ TreeOf(Rewritten(h, k)) = Without(TreeOf(h), k)
          /\ \A j \in Keys \ {k} : ChangesOf(Rewritten(h, k), j) = ChangesOf(h, j)
          /\ ChangesOf(Rewritten(h, k), k) = {}

(* The one change later than all others is the latest.                     *)
LEMMA LatestIs ==
    ASSUME NEW S, NEW c, c.at \in Nat, \A e \in S : e.at \in Nat /\ e.at < c.at
    PROVE  LatestOf(S \cup {c}) = c.content
  <1> DEFINE all == S \cup {c}
  <1>1. \A e \in all : e.at <= c.at
    OBVIOUS
  <1>2. PICK x \in all : /\ x = CHOOSE d \in all : \A e \in all : e.at <= d.at
                         /\ \A e \in all : e.at <= x.at
    BY <1>1
  <1>3. x = c
    <2>1. c.at <= x.at
      BY <1>2
    <2>2. QED
      BY <2>1
  <1>4. QED
    BY <1>2, <1>3 DEF LatestOf

(* Changes have stamps of commits.                                         *)
LEMMA ChangesAreOfCommits ==
    ASSUME NEW h, NEW j
    PROVE  \A e \in ChangesOf(h, j) : \E c \in h : e = Change(c, j) /\ e.at = c.at
  BY DEF ChangesOf, Change

(* Nothing was ever in the empty branch.                                   *)
LEMMA FaithfulEmpty == Faithful({})
  <1>1. /\ TreeOf({}) = EmptyTree /\ EmptyTree \in Trees
        /\ \A j : ChangesOf({}, j) = {}
        /\ \A k : Rewritten({}, k) = {}
    BY DEF TreeOf, EmptyTree, Trees, ChangesOf, Rewritten
  <1>2. \A j \in Keys : EmptyTree[j] = Absent
    BY DEF EmptyTree
  <1>3. \A k \in Keys : Without(EmptyTree, k) = EmptyTree
    BY DEF Without, EmptyTree
  <1>4. LatestOf({}) = Absent
    BY DEF LatestOf
  <1>5. QED
    BY <1>1, <1>2, <1>3, <1>4 DEF Faithful

(* The latest change of a dashboard is the newest commit's when that commit*)
(* changes it.                                                             *)
LEMMA LatestOnTop ==
    ASSUME NEW h, NEW c, OnTop(h, c), Faithful(h), NEW j \in Keys
    PROVE  /\ LatestOf(ChangesOf(h \cup {c}, j)) = TreeOf(h \cup {c})[j]
           /\ \/ TreeOf(h \cup {c})[j] = Absent
              \/ \E e \in ChangesOf(h \cup {c}, j) : e.content = TreeOf(h \cup {c})[j]
  <1>1. TreeOf(h \cup {c}) = c.tree
    BY NewestIs
  <1>2. ChangesOf(h \cup {c}, j) =
          ChangesOf(h, j) \cup (IF c.tree[j] # TreeOf(h)[j] THEN {Change(c, j)} ELSE {})
    BY ChangesOnTop
  <1>3. CASE c.tree[j] = TreeOf(h)[j]
    BY <1>1, <1>2, <1>3 DEF Faithful
  <1>4. CASE c.tree[j] # TreeOf(h)[j]
    <2>1. Change(c, j).at = c.at /\ Change(c, j).content = c.tree[j]
      BY DEF Change
    <2>2. c.at \in Nat /\ \A e \in h : e.at \in Nat /\ e.at < c.at
      BY DEF OnTop, IsBranch, Commits
    <2>3. \A e \in ChangesOf(h, j) : e.at \in Nat /\ e.at < c.at
      BY <2>2, ChangesAreOfCommits
    <2>4. LatestOf(ChangesOf(h, j) \cup {Change(c, j)}) = c.tree[j]
      BY <2>1, <2>2, <2>3, LatestIs
    <2>5. QED
      BY <1>1, <1>2, <1>4, <2>1, <2>4
  <1>5. QED
    BY <1>3, <1>4

(* Rewriting a branch takes one dashboard out of its newest commit, too.   *)
LEMMA RewrittenIsFaithfulOnTop ==
    ASSUME NEW h, NEW c, OnTop(h, c), Faithful(h), NEW k \in Keys
    PROVE  LET up == h \cup {c} IN
           /\ TreeOf(Rewritten(up, k)) = Without(TreeOf(up), k)
           /\ \A j \in Keys \ {k} : ChangesOf(Rewritten(up, k), j) = ChangesOf(up, j)
           /\ ChangesOf(Rewritten(up, k), k) = {}
  <1> DEFINE up == h \cup {c}
             old == Rewritten(h, k)
             fresh == Stripped(c, k)
             redundant == Without(c.tree, k) = Without(TreeOf(h), k)
  <1>1. /\ IsBranch(h) /\ c \in Commits /\ c.tree \in Trees /\ TreeOf(h) \in Trees
        /\ TreeOf(up) = c.tree
    BY NewestIs DEF OnTop, Commits, Faithful
  <1>2. /\ TreeOf(old) = Without(TreeOf(h), k)
        /\ \A j \in Keys \ {k} : ChangesOf(old, j) = ChangesOf(h, j)
        /\ ChangesOf(old, k) = {}
    BY DEF Faithful
  <1>3. Rewritten(up, k) = old \cup (IF redundant THEN {} ELSE {fresh})
    BY RewrittenOnTop
  <1>4. \A j \in Keys : ChangesOf(up, j) =
          ChangesOf(h, j) \cup (IF c.tree[j] # TreeOf(h)[j] THEN {Change(c, j)} ELSE {})
    BY ChangesOnTop
  <1>5. OnTop(old, fresh)
    <2>1. IsBranch(old) /\ \A d \in old : \E e \in h : e.at = d.at
      BY <1>1, RewrittenIsBranch
    <2>2. fresh \in Commits /\ fresh.at = c.at
      BY <1>1, WithoutIsTree DEF Stripped, Commits
    <2>3. \A e \in h : e.at < c.at
      BY DEF OnTop
    <2>4. QED
      BY <2>1, <2>2, <2>3 DEF OnTop
  <1>6. /\ \A j \in Keys \ {k} : /\ Without(c.tree, k)[j] = c.tree[j]
                                 /\ Without(TreeOf(h), k)[j] = TreeOf(h)[j]
        /\ Without(c.tree, k)[k] = Absent /\ Without(TreeOf(h), k)[k] = Absent
    BY <1>1, WithoutIsTree
  <1>7. CASE redundant
    <2>1. \A j \in Keys \ {k} : c.tree[j] = TreeOf(h)[j]
      BY <1>6, <1>7
    <2>2. QED
      BY <1>1, <1>2, <1>3, <1>4, <1>7, <2>1
  <1>8. CASE ~redundant
    <2>1. Rewritten(up, k) = old \cup {fresh}
      BY <1>3, <1>8
    <2>2. TreeOf(old \cup {fresh}) = fresh.tree /\ fresh.tree = Without(c.tree, k)
      BY <1>5, NewestIs DEF Stripped
    <2>3. \A j \in Keys : ChangesOf(old \cup {fresh}, j) =
            ChangesOf(old, j) \cup (IF fresh.tree[j] # TreeOf(old)[j]
                                    THEN {Change(fresh, j)} ELSE {})
      BY <1>5, ChangesOnTop
    <2>4. \A j \in Keys \ {k} : /\ fresh.tree[j] = c.tree[j]
                                /\ TreeOf(old)[j] = TreeOf(h)[j]
                                /\ Change(fresh, j) = Change(c, j)
      BY <1>2, <1>6, <2>2 DEF Change, Stripped
    <2>5. fresh.tree[k] = TreeOf(old)[k]
      BY <1>2, <1>6, <2>2
    <2>6. ASSUME NEW j \in Keys \ {k}
          PROVE  ChangesOf(old \cup {fresh}, j) = ChangesOf(up, j)
      <3>1. /\ fresh.tree[j] = c.tree[j] /\ TreeOf(old)[j] = TreeOf(h)[j]
            /\ Change(fresh, j) = Change(c, j) /\ ChangesOf(old, j) = ChangesOf(h, j)
        BY <1>2, <2>4
      <3>2. ChangesOf(old \cup {fresh}, j) =
              ChangesOf(h, j) \cup (IF c.tree[j] # TreeOf(h)[j] THEN {Change(c, j)} ELSE {})
        BY <2>3, <3>1
      <3>3. QED
        BY <1>4, <3>2
    <2>7. ChangesOf(old \cup {fresh}, k) = {}
      BY <1>2, <2>3, <2>5
    <2>8. QED
      BY <1>1, <2>1, <2>2, <2>6, <2>7
  <1>9. QED
    BY <1>7, <1>8

(* Together: a faithful branch stays faithful with one more commit.        *)
LEMMA FaithfulOnTop ==
    ASSUME NEW h, NEW c, OnTop(h, c), Faithful(h)
    PROVE  Faithful(h \cup {c})
  <1>1. TreeOf(h \cup {c}) \in Trees
    BY NewestIs DEF OnTop, Commits
  <1> DEFINE up == h \cup {c}
  <1>2. \A j \in Keys : /\ LatestOf(ChangesOf(up, j)) = TreeOf(up)[j]
                       /\ \/ TreeOf(up)[j] = Absent
                          \/ \E e \in ChangesOf(up, j) : e.content = TreeOf(up)[j]
    BY LatestOnTop
  <1>3. \A k \in Keys :
          /\ TreeOf(Rewritten(up, k)) = Without(TreeOf(up), k)
          /\ \A j \in Keys \ {k} : ChangesOf(Rewritten(up, k), j) = ChangesOf(up, j)
          /\ ChangesOf(Rewritten(up, k), k) = {}
    BY RewrittenIsFaithfulOnTop
  <1> HIDE DEF up
  <1>4. QED
    BY <1>1, <1>2, <1>3 DEF Faithful, up

(* Every branch is faithful: a shortest one that is not would be a faithful*)
(* one with a commit on top.                                               *)
LEMMA BranchIsFaithful ==
    ASSUME NEW h, IsBranch(h), NEW n \in Nat, Within(h, n)
    PROVE  Faithful(h)
  <1> DEFINE bad == {c.at : c \in {d \in h : ~Faithful(Upto(h, d))}}
  <1>1. \A c \in h : c.at \in Nat /\ c.at <= n
    BY DEF IsBranch, Commits, Within
  <1>2. bad = {}
    <2> SUFFICES ASSUME bad # {} PROVE FALSE
      OBVIOUS
    <2>1. PICK m \in bad : \A l \in bad : m <= l
      BY <1>1, NatHasLeast
    <2>2. PICK c \in h : c.at = m /\ ~Faithful(Upto(h, c))
      OBVIOUS
    <2> DEFINE below == Older(h, c)
    <2>3. /\ OnTop(below, c) /\ Upto(h, c) = below \cup {c}
          /\ \A e \in below : Upto(below, e) = Upto(h, e)
      BY UptoIsOnTop
    <2>4. IsBranch(below) /\ Within(below, n)
      BY <1>1, <2>3 DEF OnTop, Older, Within
    <2>5. Faithful(below)
      <3>1. CASE below = {}
        BY <3>1, FaithfulEmpty
      <3>2. CASE below # {}
        <4>1. PICK d \in below : below = Upto(below, d)
          BY <2>4, <3>2, BranchIsRevision DEF History
        <4>2. d \in h /\ d.at < c.at /\ below = Upto(h, d)
          BY <2>3, <4>1 DEF Older
        <4>3. d.at \notin bad
          BY <1>1, <2>1, <2>2, <4>2, SMTT(30)
        <4>4. QED
          BY <4>2, <4>3
      <3>3. QED
        BY <3>1, <3>2
    <2>6. QED
      BY <2>2, <2>3, <2>5, FaithfulOnTop
  <1>3. CASE h = {}
    BY <1>3, FaithfulEmpty
  <1>4. CASE h # {}
    <2>1. PICK c \in h : h = Upto(h, c)
      BY <1>4, BranchIsRevision DEF History
    <2>2. QED
      BY <1>2, <2>1
  <1>5. QED
    BY <1>3, <1>4

(* Two trees without a dashboard differ exactly in another dashboard.      *)
LEMMA DifferElsewhere ==
    ASSUME NEW t \in Trees, NEW u \in Trees, NEW k \in Keys
    PROVE  Without(t, k) # Without(u, k) <=> \E j \in Keys \ {k} : t[j] # u[j]
  <1>1. /\ \A j \in Keys \ {k} : Without(t, k)[j] = t[j] /\ Without(u, k)[j] = u[j]
        /\ Without(t, k)[k] = Absent /\ Without(u, k)[k] = Absent
        /\ Without(t, k) \in Trees /\ Without(u, k) \in Trees
    BY WithoutIsTree
  <1>2. Without(t, k) # Without(u, k) <=>
          \E j \in Keys : Without(t, k)[j] # Without(u, k)[j]
    BY <1>1 DEF Trees
  <1>3. QED
    BY <1>1, <1>2

(* A revision is its newest commit on top of its parent.                   *)
LEMMA RevisionOnTop ==
    ASSUME NEW h, IsBranch(h), NEW n \in Nat, Within(h, n), NEW r \in History(h)
    PROVE  \E c \in h : LET below == Older(h, c) IN
              /\ c = Newest(r) /\ r = Upto(h, c) /\ r = below \cup {c}
              /\ OnTop(below, c) /\ Within(below, n)
              /\ Older(r, c) = below
              /\ c \in Commits /\ c.tree \in Trees /\ c.at \in Nat
  <1>1. PICK c \in h : r = Upto(h, c)
    BY DEF History
  <1> DEFINE below == Older(h, c)
  <1>2. OnTop(below, c) /\ r = below \cup {c}
    BY <1>1, UptoIsOnTop
  <1>3. Newest(r) = c /\ Older(r, c) = below
    BY <1>2, NewestIs, OnTopOrder
  <1>4. Within(below, n)
    BY DEF Within, Older
  <1>5. c \in Commits /\ c.tree \in Trees /\ c.at \in Nat
    BY DEF IsBranch, Commits
  <1>6. QED
    BY <1>1, <1>2, <1>3, <1>4, <1>5

(* Two revisions of a branch with newest commits of one stamp are one.     *)
LEMMA StampNamesRevision ==
    ASSUME NEW h, IsBranch(h), NEW n \in Nat, Within(h, n),
           NEW r \in History(h), NEW s \in History(h), Newest(r).at = Newest(s).at
    PROVE  r = s
  <1>1. /\ Newest(r) \in h /\ r = Upto(h, Newest(r))
        /\ Newest(s) \in h /\ s = Upto(h, Newest(s))
    BY RevisionOnTop
  <1>2. QED
    BY <1>1 DEF IsBranch

(* What changed in a revision changed in the branch.                       *)
LEMMA ChangesOfRevision ==
    ASSUME NEW h, IsBranch(h), NEW r \in History(h), NEW j
    PROVE  ChangesOf(r, j) \subseteq ChangesOf(h, j)
  <1>1. PICK c \in h : r = Upto(h, c)
    BY DEF History
  <1>2. \A e \in h : e.at \in Nat
    BY DEF IsBranch, Commits
  <1>3. \A e \in r : e \in h /\ Older(r, e) = Older(h, e)
    BY <1>1, <1>2 DEF Upto, Older
  <1>4. QED
    BY <1>3 DEF ChangesOf

(* A dashboard some commit held has changed.                               *)
LEMMA RecordedHasChanged ==
    ASSUME NEW h, IsBranch(h), NEW n \in Nat, Within(h, n), NEW k \in Keys,
           NEW c \in h, c.tree[k] # Absent
    PROVE  ChangesOf(h, k) # {}
  <1> DEFINE r == Upto(h, c)
  <1>1. r \in History(h)
    BY DEF History
  <1>2. OnTop(Older(h, c), c) /\ r = Older(h, c) \cup {c}
    BY UptoIsOnTop
  <1>3. TreeOf(r) = c.tree
    BY <1>2, NewestIs
  <1>4. IsBranch(r) /\ Within(r, n)
    BY <1>1, RevisionIsBranch
  <1>5. Faithful(r)
    BY <1>4, BranchIsFaithful
  <1>6. \E e \in ChangesOf(r, k) : e.content = TreeOf(r)[k]
    BY <1>3, <1>5 DEF Faithful
  <1>7. QED
    BY <1>1, <1>6, ChangesOfRevision

(* A commit survives exactly when it changed another dashboard, and then   *)
(* keeps its stamp.                                                        *)
LEMMA SurvivorsChanged ==
    ASSUME NEW h, IsBranch(h), NEW n \in Nat, Within(h, n), NEW r \in History(h),
           NEW k \in Keys
    PROVE  /\ Survives(r, Newest(r), k) <=>
                \E j \in Keys \ {k} : \E e \in ChangesOf(h, j) : e.at = Newest(r).at
           /\ Survives(r, Newest(r), k) => Newest(Rewritten(r, k)).at = Newest(r).at
  <1>1. PICK c \in h : LET below == Older(h, c) IN
              /\ c = Newest(r) /\ r = Upto(h, c) /\ r = below \cup {c}
              /\ OnTop(below, c) /\ Within(below, n)
              /\ Older(r, c) = below
              /\ c \in Commits /\ c.tree \in Trees /\ c.at \in Nat
    BY RevisionOnTop
  <1> DEFINE below == Older(h, c)
  <1>2. IsBranch(below) /\ TreeOf(below) \in Trees
    BY <1>1, TreeOfIsTree DEF OnTop
  <1>3. Survives(r, c, k) <=> \E j \in Keys \ {k} : c.tree[j] # TreeOf(below)[j]
    <2>1. Survives(r, c, k) <=> Without(c.tree, k) # Without(TreeOf(below), k)
      BY <1>1 DEF Survives
    <2>2. c.tree \in Trees
      BY <1>1
    <2> HIDE DEF below
    <2>3. QED
      BY <1>2, <2>1, <2>2, DifferElsewhere
  <1>4. \A j \in Keys : c.tree[j] # TreeOf(below)[j] <=>
                           \E e \in ChangesOf(h, j) : e.at = c.at
    <2> SUFFICES ASSUME NEW j \in Keys
                 PROVE  c.tree[j] # TreeOf(below)[j] <=>
                           \E e \in ChangesOf(h, j) : e.at = c.at
      OBVIOUS
    <2>1. ASSUME c.tree[j] # TreeOf(below)[j]
          PROVE  Change(c, j) \in ChangesOf(h, j) /\ Change(c, j).at = c.at
      BY <2>1 DEF ChangesOf, Change
    <2>2. ASSUME NEW e \in ChangesOf(h, j), e.at = c.at
          PROVE  c.tree[j] # TreeOf(below)[j]
      <3>1. PICK d \in h : e.at = d.at /\ d.tree[j] # TreeOf(Older(h, d))[j]
        BY DEF ChangesOf
      <3>2. d = c
        BY <2>2, <3>1 DEF IsBranch
      <3>3. QED
        BY <3>1, <3>2
    <2>3. QED
      BY <2>1, <2>2
  <1>5. ASSUME Survives(r, c, k) PROVE Newest(Rewritten(r, k)).at = c.at
    <2>1. Without(c.tree, k) # Without(TreeOf(below), k)
      BY <1>1, <1>5 DEF Survives
    <2>2. Rewritten(r, k) = Rewritten(below, k) \cup {Stripped(c, k)}
      BY <1>1, <2>1, RewrittenOnTop
    <2>3. OnTop(Rewritten(below, k), Stripped(c, k))
      <3>1. /\ IsBranch(Rewritten(below, k))
            /\ \A d \in Rewritten(below, k) : \E e \in below : e.at = d.at
        BY <1>2, RewrittenIsBranch
      <3>2. Stripped(c, k) \in Commits /\ Stripped(c, k).at = c.at
        BY <1>1, WithoutIsTree DEF Stripped, Commits
      <3>3. \A e \in below : e.at < c.at
        BY <1>1 DEF OnTop
      <3>4. QED
        BY <3>1, <3>2, <3>3 DEF OnTop
    <2>4. QED
      BY <2>2, <2>3, NewestIs DEF Stripped
  <1>6. QED
    BY <1>1, <1>3, <1>4, <1>5

--------------------------------------------------------------------------------
(* No commit is idle: each changes some dashboard.                         *)
NoIdle(h) == \A c \in h : \E j \in Keys : c.tree[j] # TreeOf(Older(h, c))[j]

(* A commit that changes something keeps it so.                            *)
LEMMA NoIdleOnTop ==
    ASSUME NEW h, NEW c, OnTop(h, c), NoIdle(h),
           NEW j \in Keys, c.tree[j] # TreeOf(h)[j]
    PROVE  NoIdle(h \cup {c})
  <1>1. /\ Older(h \cup {c}, c) = h
        /\ \A e \in h : Older(h \cup {c}, e) = Older(h, e)
    BY OnTopOrder
  <1>2. QED
    BY <1>1 DEF NoIdle

(* A rewritten branch keeps no idle commit: those are dropped.             *)
LEMMA NoIdleRewritten ==
    ASSUME NEW h, IsBranch(h), NEW n \in Nat, Within(h, n), NEW k \in Keys
    PROVE  NoIdle(Rewritten(h, k))
  <1> DEFINE new == Rewritten(h, k)
  <1> SUFFICES ASSUME NEW d \in new
               PROVE  \E j \in Keys : d.tree[j] # TreeOf(Older(new, d))[j]
    BY DEF NoIdle
  <1>1. PICK c \in h : /\ d.at = c.at /\ d.tree = Without(c.tree, k)
                       /\ Survives(h, c, k)
    BY DEF Rewritten
  <1> DEFINE below == Older(h, c)
  <1>2. \A e \in h : e.at \in Nat
    BY DEF IsBranch, Commits
  <1>3. \A e \in below : e \in h /\ Older(below, e) = Older(h, e)
    BY <1>2 DEF Older
  <1>4. \A e \in below : Survives(below, e, k) <=> Survives(h, e, k)
    BY <1>3 DEF Survives
  <1>5. Older(new, d) = Rewritten(below, k)
    <2>1. new = {Stripped(e, k) : e \in {f \in h : Survives(h, f, k)}}
      BY DEF Rewritten, Stripped
    <2>2. Rewritten(below, k) = {Stripped(e, k) : e \in {f \in below : Survives(h, f, k)}}
      BY <1>4 DEF Rewritten, Stripped
    <2>3. \A e : Stripped(e, k).at = e.at
      BY DEF Stripped
    <2> HIDE DEF new
    <2>4. \A x : x \in Older(new, d) <=>
                   \E e \in h : Survives(h, e, k) /\ x = Stripped(e, k) /\ e.at < c.at
      BY <1>1, <2>1, <2>3 DEF Older
    <2>5. \A x : x \in Rewritten(below, k) <=>
                   \E e \in h : Survives(h, e, k) /\ x = Stripped(e, k) /\ e.at < c.at
      BY <2>2 DEF Older
    <2>6. QED
      BY <2>4, <2>5
  <1>6. IsBranch(below) /\ Within(below, n) /\ c.tree \in Trees
    BY <1>3 DEF IsBranch, Within, Commits
  <1>7. TreeOf(below) \in Trees /\ TreeOf(Older(new, d)) = Without(TreeOf(below), k)
    BY <1>5, <1>6, BranchIsFaithful DEF Faithful
  <1>8. d.tree \in Trees /\ TreeOf(Older(new, d)) \in Trees
    BY <1>1, <1>6, <1>7, WithoutIsTree
  <1>9. d.tree # TreeOf(Older(new, d))
    BY <1>1, <1>7 DEF Survives
  <1> HIDE DEF new
  <1>10. QED
    BY <1>8, <1>9 DEF Trees

--------------------------------------------------------------------------------
(* What the threads are about to do, and what a forget has achieved.       *)

(* A plan without its dashboard.                                           *)
Gone(plan) ==
    /\ \A c \in plan.head : c.tree[plan.key] = Absent
    /\ \A t \in plan.tags : Owner[t.name] # plan.key

CheckpointIsOfForget ==
    checkpoint # NoPlan => Gone(checkpoint) /\ NoIdle(checkpoint.head)

(* A save about to commit changes something, a plan about to be written is *)
(* that of a forget which may begin now, the index has lost the dashboard  *)
(* before it is collected for, and nothing superfluous is left at the end. *)
Intends(p) ==
    /\ At(p, "commit") => \E k \in Keys : staged[k] # TreeOf(head)[k]
    /\ At(p, "checkpoint") => \E k \in Keys : EverRecorded(k) /\ job[p].plan = ForgetPlan(k)
    /\ job[p].step \in {"collect", "unlink"} => staged[job[p].plan.key] = Absent
    /\ At(p, "unlink") => objects \subseteq Reachable /\ blobs \subseteq ReachableBlobs \cup StagedBlobs

Intent == NoIdle(head) /\ CheckpointIsOfForget /\ \A p \in Procs : Intends(p)

(* Nobody intends anything at the start.                                   *)
LEMMA IntentInit == Init => Intent
  <1> SUFFICES ASSUME Init PROVE Intent
    OBVIOUS
  <1>1. head = {} /\ checkpoint = NoPlan /\ \A p \in Procs : job[p].step = "idle"
    BY DEF Init, Idle
  <1>2. QED
    BY <1>1 DEF Intent, NoIdle, CheckpointIsOfForget, Intends, At

(* The plan of a forget is without the dashboard, and without idle commits.*)
LEMMA ForgetPlanErases ==
    ASSUME TypeOK, HeadIsBranch, NEW k \in Keys
    PROVE  Gone(ForgetPlan(k)) /\ NoIdle(ForgetPlan(k).head)
  <1>1. IsBranch(head) /\ Within(head, clock) /\ clock \in Nat
    BY DEF TypeOK, HeadIsBranch
  <1>2. /\ ForgetPlan(k).key = k /\ ForgetPlan(k).head = Rewritten(head, k)
        /\ ForgetPlan(k).tags = PlannedTags(k)
    BY DEF ForgetPlan
  <1>3. \A c \in Rewritten(head, k) : c.tree[k] = Absent
    BY <1>1, RewrittenIsBranch
  <1>4. \A t \in PlannedTags(k) : Owner[t.name] # k
    BY DEF PlannedTags
  <1>5. NoIdle(Rewritten(head, k))
    BY <1>1, NoIdleRewritten
  <1>6. QED
    BY <1>2, <1>3, <1>4, <1>5 DEF Gone

(* The branch never gets an idle commit.                                   *)
LEMMA NoIdleStep ==
    TypeOK /\ Control /\ Repository /\ Intent /\ [Next]_vars => NoIdle(head')
  <1> SUFFICES ASSUME TypeOK, Control, Repository, Intent, [Next]_vars PROVE NoIdle(head')
    OBVIOUS
  <1>1. ASSUME NEW p \in Procs, Commit(p) PROVE NoIdle(head')
    <2> DEFINE c == [at |-> clock + 1, tree |-> staged]
    <2>1. OnTop(head, c) /\ head' = head \cup {c}
      BY <1>1, CommitOnTop DEF Repository
    <2>2. PICK k \in Keys : staged[k] # TreeOf(head)[k]
      BY <1>1 DEF Commit, Intent, Intends
    <2>3. c.tree = staged
      OBVIOUS
    <2> HIDE DEF c
    <2>4. QED
      BY <2>1, <2>2, <2>3, NoIdleOnTop DEF Intent
  <1>2. ASSUME NEW p \in Procs, PointHead(p) PROVE NoIdle(head')
    <2>1. checkpoint # NoPlan /\ head' = checkpoint.head
      BY <1>2, AtWork DEF PointHead, At, ForgetSteps
    <2>2. QED
      BY <2>1 DEF Intent, CheckpointIsOfForget
  <1>3. QED
    BY <1>1, <1>2, WhoChanges DEF Intent

(* A checkpoint that is still there is the one that was there.             *)
LEMMA CheckpointStays ==
    ASSUME TypeOK, Control, [Next]_vars, checkpoint' # NoPlan
    PROVE  \/ checkpoint # NoPlan /\ checkpoint' = checkpoint
           \/ checkpoint = NoPlan /\ \E p \in Procs : WriteCheckpoint(p)
  <1>1. \A p \in Procs : ~UnlinkCheckpoint(p)
    BY DEF UnlinkCheckpoint
  <1>2. \A p \in Procs : WriteCheckpoint(p) => checkpoint = NoPlan
    BY DEF WriteCheckpoint, Control, PlanFollowed, Follows
  <1>3. QED
    BY <1>1, <1>2, WhoChanges

(* Every checkpoint is without its dashboard.                              *)
LEMMA OfForgetStep ==
    TypeOK /\ Control /\ Repository /\ Intent /\ [Next]_vars => CheckpointIsOfForget'
  <1> SUFFICES ASSUME TypeOK, Control, Repository, Intent, [Next]_vars, checkpoint' # NoPlan
               PROVE  Gone(checkpoint') /\ NoIdle(checkpoint'.head)
    BY DEF CheckpointIsOfForget, Gone, NoIdle
  <1>1. CASE checkpoint # NoPlan /\ checkpoint' = checkpoint
    BY <1>1 DEF Intent, CheckpointIsOfForget
  <1>2. ASSUME NEW p \in Procs, WriteCheckpoint(p)
        PROVE  Gone(checkpoint') /\ NoIdle(checkpoint'.head)
    <2>1. checkpoint' = job[p].plan
      BY <1>2 DEF WriteCheckpoint
    <2>2. PICK k \in Keys : job[p].plan = ForgetPlan(k)
      BY <1>2 DEF WriteCheckpoint, Intent, Intends
    <2>3. QED
      BY <2>1, <2>2, ForgetPlanErases DEF Repository
  <1>3. QED
    BY <1>1, <1>2, CheckpointStays

(* Every thread keeps its intentions, or has carried them out.             *)
LEMMA IntendsStep ==
    ASSUME TypeOK, Control, Repository, Intent, [Next]_vars, NEW q \in Procs
    PROVE  Intends(q)'
  <1>1. Intends(q)
    BY DEF Intent
  <1>2. CASE UNCHANGED disk /\ job'[q] = job[q]
    <2>1. \A k \in Keys : /\ EverRecorded(k)' = EverRecorded(k)
                         /\ ForgetPlan(k)' = ForgetPlan(k)
      BY <1>2 DEF disk, EverRecorded, ForgetPlan, PlannedNotes, PlannedTags
    <2>2. UNCHANGED <<Reachable, ReachableBlobs, StagedBlobs, head, staged, objects, blobs>>
      BY <1>2 DEF disk, Reachable, ReachableBlobs, StagedBlobs
    <2>3. QED
      BY <1>1, <1>2, <2>1, <2>2 DEF Intends, At
  <1>3. ASSUME ~(UNCHANGED disk /\ job'[q] = job[q]), At(q, "commit")'
        PROVE  \E k \in Keys : staged'[k] # TreeOf(head')[k]
    <2>1. ASSUME NEW k \in Keys, NEW v \in Contents, StageSave(q, k, v)
          PROVE  staged'[k] # TreeOf(head')[k]
      BY <2>1 DEF StageSave, TypeOK, Trees
    <2>2. ASSUME NEW k \in Keys, StageRemoval(q, k)
          PROVE  staged'[k] # TreeOf(head')[k]
      BY <2>2 DEF StageRemoval, TypeOK, Trees
    <2>3. QED
      BY <1>3, <2>1, <2>2, WhoIsThere DEF At
  <1>4. ASSUME ~(UNCHANGED disk /\ job'[q] = job[q]), At(q, "checkpoint")'
        PROVE  (\E k \in Keys : EverRecorded(k) /\ job[q].plan = ForgetPlan(k))'
    <2>1. PICK k \in Keys : PlanForget(q, k) /\ job'[q].plan = ForgetPlan(k)
      BY <1>4, WhoIsThere DEF At
    <2>2. EverRecorded(k) /\ UNCHANGED <<head, notes, tags, generation>>
      BY <2>1 DEF PlanForget
    <2>3. QED
      BY <2>1, <2>2 DEF EverRecorded, ForgetPlan, PlannedNotes, PlannedTags
  <1>5. ASSUME ~(UNCHANGED disk /\ job'[q] = job[q]), job'[q].step = "collect"
        PROVE  staged'[job'[q].plan.key] = Absent
    <2>1. DropFromIndex(q) /\ job'[q].plan = job[q].plan
      BY <1>5, WhoIsThere
    <2>2. job[q].plan.key \in Keys
      BY <2>1, PlanIsNotNone DEF DropFromIndex, At, ForgetSteps, Plan
    <2>3. QED
      BY <2>1, <2>2, WithoutIsTree DEF DropFromIndex, TypeOK
  <1>6. ASSUME ~(UNCHANGED disk /\ job'[q] = job[q]), job'[q].step = "unlink"
        PROVE  /\ staged'[job'[q].plan.key] = Absent
               /\ objects' \subseteq Reachable' /\ blobs' \subseteq ReachableBlobs' \cup StagedBlobs'
    <2>1. CollectGarbage(q) /\ job'[q].plan = job[q].plan
      BY <1>6, WhoIsThere
    <2>2. staged[job[q].plan.key] = Absent /\ staged' = staged
      BY <1>1, <2>1 DEF Intends, CollectGarbage, At
    <2>3. Reachable' = Reachable /\ ReachableBlobs' = ReachableBlobs /\ StagedBlobs' = StagedBlobs
      BY <2>1 DEF CollectGarbage, Reachable, ReachableBlobs, StagedBlobs
    <2>4. QED
      BY <2>1, <2>2, <2>3 DEF CollectGarbage
  <1>7. CASE ~(UNCHANGED disk /\ job'[q] = job[q])
    BY <1>3, <1>4, <1>5, <1>6, <1>7 DEF Intends, At
  <1>8. QED
    BY <1>2, <1>7

(* The intentions are an invariant, with the one they rest on.             *)
THEOREM IntentKept == Spec => [](TypeOK /\ Control /\ Repository /\ Intent)
  <1>1. TypeOK /\ Control /\ Repository /\ Intent /\ [Next]_vars => Intent'
    BY NoIdleStep, OfForgetStep, IntendsStep DEF Intent, NoIdle
  <1>2. QED
    BY <1>1, IntentInit, RepositoryKept, PTL DEF Spec

--------------------------------------------------------------------------------
(* A forget erases: when the checkpoint goes, only what the branch, the    *)
(* versions and the index need is left, and the dashboard is in none.      *)
THEOREM ForgetLeavesNothing == Spec => ForgetErases
  <1> DEFINE Erased(k) ==
        /\ \A r \in objects' : k \notin KeysIn(r)
        /\ \A t \in tags' : Owner[t.name] # k
        /\ staged'[k] = Absent
        /\ \A v \in blobs' : \/ \E r \in objects' : v \in BlobsOf(r)
                             \/ \E j \in Keys : staged'[j] = v
  <1>1. ASSUME TypeOK, Control, Repository, Intent, [Next]_vars,
               checkpoint # NoPlan, checkpoint' = NoPlan
        PROVE  Erased(checkpoint.key)
    <2>1. PICK p \in Procs : UnlinkCheckpoint(p)
      <3>1. \A p \in Procs : ~WriteCheckpoint(p)
        BY <1>1, PlanIsNotNone DEF WriteCheckpoint, At, ForgetSteps
      <3>2. QED
        BY <1>1, <3>1, WhoChanges
    <2>2. /\ checkpoint = job[p].plan
          /\ head = checkpoint.head /\ tags = checkpoint.tags
      BY <1>1, <2>1, AtWork
      DEF UnlinkCheckpoint, At, Repository, Progress, Done, AfterHead, AfterTags,
          AfterNotes, ForgetSteps
    <2>3. UNCHANGED <<objects, blobs, tags, staged>>
      BY <2>1 DEF UnlinkCheckpoint
    <2>4. /\ Gone(checkpoint)
          /\ staged[checkpoint.key] = Absent
          /\ objects \subseteq Reachable /\ blobs \subseteq ReachableBlobs \cup StagedBlobs
      BY <1>1, <2>1, <2>2 DEF Intent, Intends, CheckpointIsOfForget, UnlinkCheckpoint, At
    <2>5. \A r \in Reachable : r \subseteq head
      <3>1. \A t \in tags : t.rev \in History(head)
        BY <1>1, <2>2 DEF Repository, PlansAreSound, Sound
      <3>2. QED
        BY <3>1 DEF Reachable, History, Upto
    <2>6. \A r \in objects : checkpoint.key \notin KeysIn(r)
      BY <2>2, <2>4, <2>5 DEF Gone, KeysIn
    <2>7. \A v \in blobs : \/ \E r \in objects : v \in BlobsOf(r)
                           \/ \E j \in Keys : staged[j] = v
      BY <1>1, <2>4 DEF Repository, NothingMissing, ReachableBlobs, StagedBlobs
    <2>8. QED
      BY <2>2, <2>3, <2>4, <2>6, <2>7 DEF Gone
  <1>2. TypeOK /\ Control /\ Repository /\ Intent /\ [Next]_vars =>
          [checkpoint # NoPlan /\ checkpoint' = NoPlan =>
             LET k == checkpoint.key IN
             /\ \A r \in objects' : k \notin KeysIn(r)
             /\ \A t \in tags' : Owner[t.name] # k
             /\ staged'[k] = Absent
             /\ \A v \in blobs' : \/ \E r \in objects' : v \in BlobsOf(r)
                                  \/ \E j \in Keys : staged'[j] = v]_vars
    BY <1>1
  <1>3. QED
    BY <1>2, IntentKept, PTL DEF Spec, ForgetErases

--------------------------------------------------------------------------------
(* The promise, step by step.  What the mapping makes of the repository.   *)

Shown(t) == [name |-> t.name, title |-> t.title, shows |-> TreeOf(t.rev)[Owner[t.name]]]
Told(n) == [at |-> Newest(n.rev).at, text |-> n.text]
Forgets == IF Pending THEN checkpoint.target ELSE generation

Whole == TypeOK /\ Control /\ Repository /\ Intent

(* Nothing the promise speaks of changes when none of its parts does.      *)
LEMMA Stutter ==
    ASSUME UNCHANGED <<TrueHead, TrueNotes, TrueTags, clock, Forgets>>
    PROVE  UNCHANGED Promise!abstract
  <1>1. /\ [k \in Keys |-> ChangesOf(TrueHead, k)]' = [k \in Keys |-> ChangesOf(TrueHead, k)]
        /\ {Shown(t) : t \in TrueTags}' = {Shown(t) : t \in TrueTags}
        /\ {Told(n) : n \in TrueNotes}' = {Told(n) : n \in TrueNotes}
    OBVIOUS
  <1>2. QED
    BY <1>1 DEF Promise!abstract, Forgets, Shown, Told

(* While no forget is pending, the promise speaks of what is on the disk.  *)
LEMMA NothingPending ==
    /\ checkpoint = NoPlan => /\ TrueHead = head /\ TrueNotes = notes /\ TrueTags = tags
                              /\ Forgets = generation
    /\ checkpoint' = NoPlan => /\ TrueHead' = head' /\ TrueNotes' = notes' /\ TrueTags' = tags'
                               /\ Forgets' = generation'
  BY DEF TrueHead, TrueNotes, TrueTags, Forgets, Pending

(* What the branch of the disk says.                                       *)
LEMMA HeadIsFaithful ==
    ASSUME Whole
    PROVE  /\ clock \in Nat /\ IsBranch(head) /\ Within(head, clock)
           /\ Faithful(head)
           /\ \A r \in History(head) : Faithful(r) /\ Newest(r) \in head
  <1>1. clock \in Nat /\ IsBranch(head) /\ Within(head, clock)
    BY DEF Whole, Repository, HeadIsBranch, TypeOK
  <1>2. \A r \in History(head) : IsBranch(r) /\ Within(r, clock) /\ Newest(r) \in r /\ r \subseteq head
    BY <1>1, RevisionIsBranch
  <1>3. QED
    BY <1>1, <1>2, BranchIsFaithful

(* A commit is a save.                                                     *)
LEMMA CommitIsSave ==
    ASSUME Whole, NEW p \in Procs, Commit(p)
    PROVE  Promise!Save
  <1> DEFINE c == [at |-> clock + 1, tree |-> staged]
  <1>1. checkpoint = NoPlan /\ checkpoint' = NoPlan
    BY DEF Commit, Whole, Control, PlanFollowed, Follows
  <1>2. /\ TrueHead = head /\ TrueHead' = head'
        /\ UNCHANGED <<TrueNotes, TrueTags, Forgets>> /\ clock' = clock + 1
    BY <1>1, NothingPending DEF Commit
  <1>3. OnTop(head, c) /\ head' = head \cup {c}
    BY CommitOnTop DEF Whole, Repository
  <1>4. \A k \in Keys : LatestOf(ChangesOf(head, k)) = TreeOf(head)[k]
    BY HeadIsFaithful DEF Faithful
  <1>5. \A k \in Keys : Promise!Latest(k) = TreeOf(head)[k]
    BY <1>2, <1>4 DEF Promise!Latest, LatestOf
  <1>6. \A k \in Keys : ChangesOf(head', k) =
          IF staged[k] = TreeOf(head)[k] THEN ChangesOf(head, k)
          ELSE ChangesOf(head, k) \cup {[at |-> clock + 1, content |-> staged[k]]}
    <2>1. \A k \in Keys : ChangesOf(head \cup {c}, k) =
            ChangesOf(head, k) \cup (IF c.tree[k] # TreeOf(head)[k] THEN {Change(c, k)} ELSE {})
      BY <1>3, ChangesOnTop
    <2>2. \A k \in Keys : /\ c.tree[k] = staged[k]
                          /\ Change(c, k) = [at |-> clock + 1, content |-> staged[k]]
      BY DEF Change
    <2> HIDE DEF c
    <2>3. QED
      BY <1>3, <2>1, <2>2
  <1>7. staged \in [Keys -> Contents \cup {Absent}] /\ \E k \in Keys : staged[k] # TreeOf(head)[k]
    BY DEF Whole, TypeOK, Trees, Commit, Intent, Intends
  <1>8. QED
    BY <1>2, <1>5, <1>6, <1>7 DEF Promise!Save, Shown, Told, Forgets

(* The stamps of the promise are those of the commits: none is idle.       *)
LEMMA StampsOfHead ==
    ASSUME Whole, checkpoint = NoPlan
    PROVE  \A c \in head : c.at \in Promise!Stamps(Keys)
  <1>1. \A k \in Keys : [j \in Keys |-> ChangesOf(TrueHead, j)][k] = ChangesOf(head, k)
    BY NothingPending
  <1>2. ASSUME NEW c \in head
        PROVE  \E k \in Keys : \E e \in ChangesOf(head, k) : e.at = c.at
    <2>1. PICK k \in Keys : c.tree[k] # TreeOf(Older(head, c))[k]
      BY DEF Whole, Intent, NoIdle
    <2>2. Change(c, k) \in ChangesOf(head, k) /\ Change(c, k).at = c.at
      BY <2>1 DEF ChangesOf, Change
    <2>3. QED
      BY <2>2
  <1>3. QED
    BY <1>1, <1>2 DEF Promise!Stamps

(* Which marks and notes there are while no forget is pending.             *)
LEMMA MarksOfHead ==
    ASSUME Whole, checkpoint = NoPlan
    PROVE  /\ \A t \in tags : t.rev \in History(head) /\ t.name \in Names /\ t.title \in Words
           /\ \A n \in notes : n.rev \in History(head) /\ n.text \in Words
           /\ \A t, u \in tags : t.name = u.name => t = u
           /\ \A n, m \in notes : n.rev = m.rev => n = m
           /\ \A n \in notes, r \in History(head) : Told(n).at = Newest(r).at <=> n.rev = r
  <1>1. /\ \A t \in tags : t.rev \in History(head)
        /\ \A n \in notes : n.rev \in History(head)
        /\ \A t, u \in tags : t.name = u.name => t = u
        /\ \A n, m \in notes : n.rev = m.rev => n = m
    BY DEF Whole, Repository, MarksInHistory
  <1>2. /\ \A t \in tags : t.name \in Names /\ t.title \in Words
        /\ \A n \in notes : n.text \in Words
    BY DEF Whole, TypeOK, Tags, Notes
  <1>3. \A r, s \in History(head) : Newest(r).at = Newest(s).at => r = s
    BY HeadIsFaithful, StampNamesRevision
  <1>4. \A n : Told(n).at = Newest(n.rev).at
    BY DEF Told
  <1>5. QED
    BY <1>1, <1>2, <1>3, <1>4

(* Writing a note is a description of the change the commit made.          *)
LEMMA NoteIsDescription ==
    ASSUME Whole, NEW r \in History(head), NEW w \in Words, Describe(r, w)
    PROVE  Promise!Describe
  <1> DEFINE at == Newest(r).at
             new == [rev |-> r, text |-> w]
  <1>1. checkpoint = NoPlan /\ checkpoint' = NoPlan
    BY DEF Describe, Admitted
  <1>2. /\ UNCHANGED <<TrueHead, TrueTags, Forgets, clock>>
        /\ TrueNotes = notes /\ TrueNotes' = notes'
    BY <1>1, NothingPending DEF Describe
  <1>3. at \in Promise!Stamps(Keys)
    BY <1>1, HeadIsFaithful, StampsOfHead
  <1>4. \A n \in notes : Told(n).at = at <=> n.rev = r
    BY <1>1, MarksOfHead
  <1>5. Told(new) = [at |-> at, text |-> w]
    BY DEF Told
  <1>6. notes' = {n \in notes : n.rev # r} \cup {new}
    BY DEF Describe
  <1>7. {Told(n) : n \in notes'} =
          {d \in {Told(n) : n \in notes} : d.at # at} \cup {[at |-> at, text |-> w]}
    <2> HIDE DEF at, new
    <2>1. QED
      BY <1>4, <1>5, <1>6
  <1>8. QED
    BY <1>2, <1>3, <1>7 DEF Promise!Describe, Shown, Told, Forgets

(* Removing a note removes the description.                                *)
LEMMA NoteIsUndescribed ==
    ASSUME Whole, NEW r \in History(head), Undescribe(r)
    PROVE  Promise!Undescribe
  <1> DEFINE at == Newest(r).at
  <1>1. checkpoint = NoPlan /\ checkpoint' = NoPlan
    BY DEF Undescribe, Admitted
  <1>2. /\ UNCHANGED <<TrueHead, TrueTags, Forgets, clock>>
        /\ TrueNotes = notes /\ TrueNotes' = notes'
    BY <1>1, NothingPending DEF Undescribe
  <1>3. at \in Promise!Stamps(Keys)
    BY <1>1, HeadIsFaithful, StampsOfHead
  <1>4. \A n \in notes : Told(n).at = at <=> n.rev = r
    BY <1>1, MarksOfHead
  <1>5. notes' = {n \in notes : n.rev # r}
    BY DEF Undescribe
  <1>6. {Told(n) : n \in notes'} = {d \in {Told(n) : n \in notes} : d.at # at}
    <2> HIDE DEF at
    <2>1. QED
      BY <1>4, <1>5
  <1>7. QED
    BY <1>2, <1>3, <1>6 DEF Promise!Undescribe, Shown, Told, Forgets

(* A version is a mark on a state its dashboard had.                       *)
LEMMA VersionIsMark ==
    ASSUME Whole, NEW n \in Names, NEW r \in History(head), NEW w \in Words,
           CreateVersion(n, r, w)
    PROVE  Promise!Mark
  <1> DEFINE new == [name |-> n, rev |-> r, title |-> w]
             state == TreeOf(r)[Owner[n]]
  <1>1. checkpoint = NoPlan /\ checkpoint' = NoPlan
    BY DEF CreateVersion, Admitted
  <1>2. /\ UNCHANGED <<TrueHead, TrueNotes, Forgets, clock>>
        /\ TrueHead = head /\ TrueTags = tags /\ TrueTags' = tags'
    BY <1>1, NothingPending DEF CreateVersion
  <1>3. Owner[n] \in Keys
    BY OwnerAssumption
  <1>4. state \in {Absent} \cup {e.content : e \in ChangesOf(head, Owner[n])}
    <2>1. Faithful(r) /\ ChangesOf(r, Owner[n]) \subseteq ChangesOf(head, Owner[n])
      BY HeadIsFaithful, ChangesOfRevision
    <2>2. QED
      BY <1>3, <2>1 DEF Faithful
  <1>5. \A v \in {Shown(t) : t \in tags} : v.name # n
    BY DEF CreateVersion, Shown
  <1>6. Shown(new) = [name |-> n, title |-> w, shows |-> state]
    BY DEF Shown
  <1>7. tags' = tags \cup {new}
    BY DEF CreateVersion
  <1>8. {Shown(t) : t \in tags'} =
          {Shown(t) : t \in tags} \cup {[name |-> n, title |-> w, shows |-> state]}
    <2> HIDE DEF new, state
    <2>1. QED
      BY <1>6, <1>7
  <1>9. [k \in Keys |-> ChangesOf(TrueHead, k)][Owner[n]] = ChangesOf(head, Owner[n])
    BY <1>2, <1>3
  <1> HIDE DEF state
  <1>10. QED
    BY <1>2, <1>4, <1>5, <1>8, <1>9 DEF Promise!Mark, Shown, Told, Forgets

(* Two versions are never shown as one.                                    *)
LEMMA ShownApart ==
    ASSUME Whole, checkpoint = NoPlan
    PROVE  \A t, u \in tags : Shown(t) = Shown(u) => t = u
  <1>1. \A t : Shown(t).name = t.name
    BY DEF Shown
  <1>2. QED
    BY <1>1, MarksOfHead

(* Giving a version another title leaves what it shows.                    *)
LEMMA VersionIsRetitled ==
    ASSUME Whole, NEW t \in tags, NEW w \in Words, RetitleVersion(t, w)
    PROVE  Promise!Retitle
  <1> DEFINE new == [t EXCEPT !.title = w]
  <1>1. checkpoint = NoPlan /\ checkpoint' = NoPlan
    BY DEF RetitleVersion, Admitted
  <1>2. /\ UNCHANGED <<TrueHead, TrueNotes, Forgets, clock>>
        /\ TrueTags = tags /\ TrueTags' = tags'
    BY <1>1, NothingPending DEF RetitleVersion
  <1>3. new.name = t.name /\ new.rev = t.rev /\ new.title = w
    BY DEF Whole, TypeOK, Tags
  <1>4. Shown(new) = [Shown(t) EXCEPT !.title = w]
    BY <1>3 DEF Shown
  <1>5. tags' = (tags \ {t}) \cup {new}
    BY DEF RetitleVersion
  <1>6. {Shown(u) : u \in tags'} =
          ({Shown(u) : u \in tags} \ {Shown(t)}) \cup {[Shown(t) EXCEPT !.title = w]}
    <2> HIDE DEF new
    <2>1. QED
      BY <1>1, <1>4, <1>5, ShownApart
  <1>7. QED
    BY <1>2, <1>6 DEF Promise!Retitle, Shown, Told, Forgets

(* Removing a version takes its mark away.                                 *)
LEMMA VersionIsUnmarked ==
    ASSUME Whole, NEW t \in tags, RemoveVersion(t)
    PROVE  Promise!Unmark
  <1>1. checkpoint = NoPlan /\ checkpoint' = NoPlan
    BY DEF RemoveVersion, Admitted
  <1>2. /\ UNCHANGED <<TrueHead, TrueNotes, Forgets, clock>>
        /\ TrueTags = tags /\ TrueTags' = tags'
    BY <1>1, NothingPending DEF RemoveVersion
  <1>3. tags' = tags \ {t}
    BY DEF RemoveVersion
  <1>4. {Shown(u) : u \in tags'} = {Shown(u) : u \in tags} \ {Shown(t)}
    BY <1>1, <1>3, ShownApart
  <1>5. PICK v \in {Shown(u) : u \in tags} :
          {Shown(u) : u \in tags'} = {Shown(u) : u \in tags} \ {v}
    BY <1>4
  <1>6. QED
    BY <1>2, <1>5 DEF Promise!Unmark, Shown, Told, Forgets

(* A note is planned to stay exactly when another dashboard changed with   *)
(* the commit, and then tells the same of it.                              *)
LEMMA NotesForgotten ==
    ASSUME Whole, checkpoint = NoPlan, NEW k \in Keys
    PROVE  {Told(n) : n \in PlannedNotes(k)} =
             {d \in {Told(n) : n \in notes} : d.at \in Promise!Stamps(Keys \ {k})}
  <1> DEFINE moved(n) == [rev |-> Rewritten(n.rev, k), text |-> n.text]
             stays(n) == Survives(n.rev, Newest(n.rev), k)
  <1>1. PlannedNotes(k) = {moved(n) : n \in {m \in notes : stays(m)}}
    BY MarksOfHead DEF PlannedNotes
  <1>2. \A at : at \in Promise!Stamps(Keys \ {k}) <=>
          \E j \in Keys \ {k} : \E e \in ChangesOf(head, j) : e.at = at
    <2>1. \A j \in Keys : [i \in Keys |-> ChangesOf(TrueHead, i)][j] = ChangesOf(head, j)
      BY NothingPending
    <2>2. QED
      BY <2>1 DEF Promise!Stamps
  <1>3. \A n \in notes : /\ stays(n) <=> Told(n).at \in Promise!Stamps(Keys \ {k})
                         /\ stays(n) => Told(moved(n)) = Told(n)
    <2> SUFFICES ASSUME NEW n \in notes
                 PROVE  /\ stays(n) <=> Told(n).at \in Promise!Stamps(Keys \ {k})
                        /\ stays(n) => Told(moved(n)) = Told(n)
      OBVIOUS
    <2>1. n.rev \in History(head)
      BY MarksOfHead
    <2>2. /\ stays(n) <=> \E j \in Keys \ {k} : \E e \in ChangesOf(head, j) :
                              e.at = Newest(n.rev).at
          /\ stays(n) => Newest(Rewritten(n.rev, k)).at = Newest(n.rev).at
      BY <2>1, HeadIsFaithful, SurvivorsChanged
    <2>3. QED
      BY <1>2, <2>2 DEF Told
  <1> HIDE DEF moved, stays
  <1>4. {Told(n) : n \in PlannedNotes(k)} = {Told(n) : n \in {m \in notes : stays(m)}}
    <2>1. {Told(n) : n \in PlannedNotes(k)} = {Told(moved(n)) : n \in {m \in notes : stays(m)}}
      BY <1>1
    <2>2. \A n \in {m \in notes : stays(m)} : Told(moved(n)) = Told(n)
      BY <1>3
    <2>3. QED
      BY <2>1, <2>2
  <1>5. {Told(n) : n \in {m \in notes : stays(m)}} =
          {d \in {Told(n) : n \in notes} : d.at \in Promise!Stamps(Keys \ {k})}
    BY <1>3
  <1>6. QED
    BY <1>4, <1>5

(* The versions of other dashboards show what they showed, but for some    *)
(* that showed nothing and have nothing left to stand on.                  *)
LEMMA VersionsForgotten ==
    ASSUME Whole, checkpoint = NoPlan, NEW k \in Keys
    PROVE  \E gone \in SUBSET {v \in {Shown(t) : t \in tags} : v.shows = Absent} :
              {Shown(t) : t \in PlannedTags(k)} =
                {v \in {Shown(t) : t \in tags} \ gone : Owner[v.name] # k}
  <1> DEFINE moved(t) == [name |-> t.name, rev |-> Rewritten(t.rev, k), title |-> t.title]
             others == {t \in tags : Owner[t.name] # k}
             groundless == {t \in others : Rewritten(t.rev, k) = {}}
             gone == {Shown(t) : t \in groundless}
  <1>1. PlannedTags(k) = {moved(t) : t \in others \ groundless}
    BY MarksOfHead DEF PlannedTags
  <1>2. \A t \in others : /\ TreeOf(Rewritten(t.rev, k))[Owner[t.name]] =
                               TreeOf(t.rev)[Owner[t.name]]
                          /\ t \in groundless => Shown(t).shows = Absent
                          /\ Shown(moved(t)) = Shown(t)
    <2> SUFFICES ASSUME NEW t \in others
                 PROVE  /\ TreeOf(Rewritten(t.rev, k))[Owner[t.name]] =
                              TreeOf(t.rev)[Owner[t.name]]
                        /\ t \in groundless => Shown(t).shows = Absent
                        /\ Shown(moved(t)) = Shown(t)
      OBVIOUS
    <2> DEFINE j == Owner[t.name]
    <2>1. t.rev \in History(head) /\ j \in Keys \ {k}
      BY MarksOfHead, OwnerAssumption
    <2>2. TreeOf(t.rev) \in Trees /\ TreeOf(Rewritten(t.rev, k)) = Without(TreeOf(t.rev), k)
      BY <2>1, HeadIsFaithful DEF Faithful
    <2>3. TreeOf(Rewritten(t.rev, k))[j] = TreeOf(t.rev)[j]
      BY <2>1, <2>2, WithoutIsTree, SMTT(30)
    <2>4. TreeOf({})[j] = Absent
      BY <2>1 DEF TreeOf, EmptyTree
    <2>5. QED
      BY <2>3, <2>4 DEF Shown
  <1>3. \A t \in tags : Owner[Shown(t).name] # k <=> t \in others
    BY DEF Shown
  <1>4. \A t \in tags : Shown(t) \in gone <=> t \in groundless
    BY ShownApart
  <1> HIDE DEF moved, groundless
  <1>5. gone \in SUBSET {v \in {Shown(t) : t \in tags} : v.shows = Absent}
    BY <1>2 DEF groundless
  <1>6. {Shown(t) : t \in PlannedTags(k)} =
          {v \in {Shown(t) : t \in tags} \ gone : Owner[v.name] # k}
    <2> HIDE DEF gone
    <2>1. {Shown(t) : t \in PlannedTags(k)} = {Shown(t) : t \in others \ groundless}
      BY <1>1, <1>2
    <2>2. QED
      BY <1>3, <1>4, <2>1
  <1>7. QED
    BY <1>5, <1>6

(* The forget happens when its plan is on the disk.                        *)
LEMMA CheckpointIsForget ==
    ASSUME Whole, NEW p \in Procs, WriteCheckpoint(p)
    PROVE  Promise!Forget
  <1>1. PICK k \in Keys : EverRecorded(k) /\ job[p].plan = ForgetPlan(k)
    BY DEF Whole, Intent, Intends, WriteCheckpoint
  <1>2. /\ checkpoint = NoPlan /\ checkpoint' = ForgetPlan(k)
        /\ checkpoint' # NoPlan
    <2>1. checkpoint = NoPlan /\ checkpoint' = ForgetPlan(k)
      BY <1>1 DEF WriteCheckpoint, Whole, Control, PlanFollowed, Follows
    <2>2. QED
      BY <2>1, ForgetPlanIsTyped, NoPlanAssumption DEF Whole
  <1>3. /\ TrueHead = head /\ TrueNotes = notes /\ TrueTags = tags
        /\ Forgets = generation /\ UNCHANGED clock
    BY <1>2, NothingPending DEF WriteCheckpoint
  <1>4. /\ TrueHead' = Rewritten(head, k) /\ TrueNotes' = PlannedNotes(k)
        /\ TrueTags' = PlannedTags(k) /\ Forgets' = generation + 1
    <2>1. /\ ForgetPlan(k).head = Rewritten(head, k) /\ ForgetPlan(k).notes = PlannedNotes(k)
          /\ ForgetPlan(k).tags = PlannedTags(k) /\ ForgetPlan(k).target = generation + 1
      BY DEF ForgetPlan
    <2>2. QED
      BY <1>2, <2>1 DEF TrueHead, TrueNotes, TrueTags, Forgets, Pending
  <1>5. ChangesOf(head, k) # {}
    BY <1>1, HeadIsFaithful, RecordedHasChanged DEF EverRecorded
  <1>6. [j \in Keys |-> ChangesOf(Rewritten(head, k), j)] =
          [[j \in Keys |-> ChangesOf(head, j)] EXCEPT ![k] = {}]
    <2>1. /\ \A j \in Keys \ {k} : ChangesOf(Rewritten(head, k), j) = ChangesOf(head, j)
          /\ ChangesOf(Rewritten(head, k), k) = {}
      BY HeadIsFaithful DEF Faithful
    <2>2. QED
      BY <2>1
  <1>7. {Told(n) : n \in PlannedNotes(k)} =
          {d \in {Told(n) : n \in notes} : d.at \in Promise!Stamps(Keys \ {k})}
    BY <1>2, NotesForgotten
  <1>8. PICK gone \in SUBSET {v \in {Shown(t) : t \in tags} : v.shows = Absent} :
           {Shown(t) : t \in PlannedTags(k)} =
             {v \in {Shown(t) : t \in tags} \ gone : Owner[v.name] # k}
    BY <1>2, VersionsForgotten
  <1>9. [j \in Keys |-> ChangesOf(TrueHead, j)][k] # {}
    BY <1>3, <1>5
  <1>10. [j \in Keys |-> ChangesOf(TrueHead, j)]' =
           [[j \in Keys |-> ChangesOf(TrueHead, j)] EXCEPT ![k] = {}]
    BY <1>3, <1>4, <1>6
  <1>11. {Told(n) : n \in TrueNotes}' =
           {d \in {Told(n) : n \in TrueNotes} : d.at \in Promise!Stamps(Keys \ {k})}
    BY <1>3, <1>4, <1>7
  <1>12. gone \in SUBSET {v \in {Shown(t) : t \in TrueTags} : v.shows = Absent}
    BY <1>3, <1>8
  <1>13. {Shown(t) : t \in TrueTags}' =
           {v \in {Shown(t) : t \in TrueTags} \ gone : Owner[v.name] # k}
    BY <1>3, <1>4, <1>8
  <1>14. Forgets' = Forgets + 1
    BY <1>3, <1>4
  <1>15. QED
    BY <1>3, <1>9, <1>10, <1>11, <1>12, <1>13, <1>14
    DEF Promise!Forget, Shown, Told, Forgets

--------------------------------------------------------------------------------
(* Every step that finds no checkpoint and leaves none.                    *)
LEMMA OrdinaryStep ==
    ASSUME Whole, [Next]_vars, checkpoint = NoPlan, checkpoint' = NoPlan
    PROVE  [Promise!Next]_(Promise!abstract)
  <1>1. TypeOK /\ Control
    BY DEF Whole
  <1>2. \A p \in Procs : /\ ~PointHead(p) /\ ~WriteGeneration(p) /\ ~ClearNotes(p)
                         /\ ~AddNote(p) /\ ~RewriteTags(p)
    BY <1>1, AtWork DEF PointHead, WriteGeneration, ClearNotes, AddNote, RewriteTags, At,
                        ForgetSteps
  <1>3. ASSUME NEW p \in Procs, Commit(p) PROVE Promise!Next
    BY <1>3, CommitIsSave DEF Promise!Next
  <1>4. CASE Annotate
    BY <1>4, NoteIsDescription, NoteIsUndescribed, VersionIsMark, VersionIsRetitled,
       VersionIsUnmarked
    DEF Annotate, Promise!Next
  <1>5. CASE ~Annotate /\ \A p \in Procs : ~Commit(p)
    <2>1. UNCHANGED <<head, notes, tags, clock, generation>>
      BY <1>2, <1>5, WhoChanges
    <2>2. UNCHANGED <<TrueHead, TrueNotes, TrueTags, clock, Forgets>>
      BY <2>1, NothingPending
    <2>3. QED
      BY <2>2, Stutter
  <1>6. QED
    BY <1>3, <1>4, <1>5

(* Every step a checkpoint survives.                                       *)
LEMMA PendingStep ==
    ASSUME Whole, [Next]_vars, checkpoint # NoPlan, checkpoint' # NoPlan
    PROVE  UNCHANGED Promise!abstract
  <1>1. checkpoint' = checkpoint
    BY CheckpointStays DEF Whole
  <1>2. UNCHANGED clock
    BY FrozenStep DEF Whole
  <1>3. UNCHANGED <<TrueHead, TrueNotes, TrueTags, Forgets>>
    BY <1>1 DEF TrueHead, TrueNotes, TrueTags, Forgets, Pending
  <1>4. QED
    BY <1>2, <1>3, Stutter

(* The step that removes the checkpoint: the disk says what the plan said. *)
LEMMA LastStep ==
    ASSUME Whole, [Next]_vars, checkpoint # NoPlan, checkpoint' = NoPlan
    PROVE  UNCHANGED Promise!abstract
  <1>1. PICK p \in Procs : UnlinkCheckpoint(p)
    <2>1. \A p \in Procs : ~WriteCheckpoint(p)
      BY PlanIsNotNone DEF WriteCheckpoint, At, ForgetSteps, Whole
    <2>2. QED
      BY <2>1, WhoChanges
  <1>2. /\ head = checkpoint.head /\ notes = checkpoint.notes /\ tags = checkpoint.tags
        /\ generation = checkpoint.target
    <2>1. checkpoint = job[p].plan /\ Rewriting
      BY <1>1, AtWork DEF UnlinkCheckpoint, At, ForgetSteps, Whole
    <2>2. Done(p)
      BY DEF Whole, Repository, Progress
    <2>3. QED
      BY <1>1, <2>1, <2>2
      DEF UnlinkCheckpoint, At, Done, AfterHead, AfterTags, AfterNotes, Rewriting
  <1>3. UNCHANGED <<head, notes, tags, clock, generation>>
    BY <1>1 DEF UnlinkCheckpoint
  <1>4. /\ TrueHead = checkpoint.head /\ TrueNotes = checkpoint.notes
        /\ TrueTags = checkpoint.tags /\ Forgets = checkpoint.target
    BY DEF TrueHead, TrueNotes, TrueTags, Forgets, Pending
  <1>5. UNCHANGED <<TrueHead, TrueNotes, TrueTags, Forgets>>
    BY <1>2, <1>3, <1>4, NothingPending
  <1>6. QED
    BY <1>3, <1>5, Stutter

(* An empty repository promises an empty history.                          *)
LEMMA PromiseInit == Init => Promise!Init
  <1> SUFFICES ASSUME Init PROVE Promise!Init
    OBVIOUS
  <1>1. checkpoint = NoPlan /\ head = {} /\ notes = {} /\ tags = {} /\ clock = 0 /\ generation = 0
    BY DEF Init
  <1>2. TrueHead = {} /\ TrueNotes = {} /\ TrueTags = {} /\ Forgets = 0
    BY <1>1, NothingPending
  <1>3. \A k \in Keys : ChangesOf(TrueHead, k) = {}
    BY <1>2 DEF ChangesOf
  <1>4. QED
    BY <1>1, <1>2, <1>3 DEF Promise!Init, Forgets

(* The store keeps the promise: what it does, interrupted and repaired or  *)
(* not, is what AtomicHistory does in single moments.                      *)
THEOREM PromiseIsKept == Spec => ImplementsPromise
  <1>1. TypeOK /\ Control /\ Repository /\ Intent /\ [Next]_vars =>
          [Promise!Next]_(Promise!abstract)
    <2> SUFFICES ASSUME Whole, [Next]_vars PROVE [Promise!Next]_(Promise!abstract)
      BY DEF Whole
    <2>1. CASE checkpoint = NoPlan /\ checkpoint' = NoPlan
      BY <2>1, OrdinaryStep
    <2>2. CASE checkpoint = NoPlan /\ checkpoint' # NoPlan
      BY <2>2, CheckpointStays, CheckpointIsForget DEF Whole, Promise!Next
    <2>3. CASE checkpoint # NoPlan
      BY <2>3, PendingStep, LastStep
    <2>4. QED
      BY <2>1, <2>2, <2>3
  <1>2. QED
    BY <1>1, PromiseInit, IntentKept, PTL DEF Spec, ImplementsPromise, Promise!Spec

--------------------------------------------------------------------------------
(* What becomes of a revision that was on the branch.  It stays on it, or  *)
(* a forget takes one of its commits away, or what a commit of it held,    *)
(* and neither ever comes back.                                            *)

Lost(h, c) ==
    \A e \in h : e.at = c.at => \E k \in Keys : c.tree[k] # Absent /\ e.tree[k] = Absent

Dead(h, r) == \E c \in r : Lost(h, c)

Known(h, r) == r \in History(h) \/ Dead(h, r)

(* h was, or is, where the branch stood.                                   *)
Past(h, n, r) == IsBranch(r) /\ Within(r, n) /\ \A s \in History(r) : Known(h, s)

(* An order that may be taken for the revisions of a label: all that are   *)
(* still on the branch are in it, and the others in it are known to be     *)
(* dead.                                                                   *)
Good(h, n, label, order) ==
    /\ Past(h, n, label)
    /\ \A s \in order : IsBranch(s) /\ Within(s, n) /\ Known(h, s)
    /\ \A s \in History(label) : s \in History(h) => s \in order

(* What a step may do to the branch.                                       *)
Moves(h, n, h2, n2) ==
    \/ h2 = h /\ n2 = n
    \/ \E c : OnTop(h, c) /\ c.at = n + 1 /\ h2 = h \cup {c} /\ n2 = n + 1
    \/ \E k \in Keys : h2 = Rewritten(h, k) /\ n2 = n

--------------------------------------------------------------------------------
(* The invariant: of the store first.                                      *)

(* A plan leads from the branch as it is to the branch without the         *)
(* dashboard, or it has led there.                                         *)
Leads(plan) ==
    /\ plan.target > 0
    /\ \/ head = plan.head
       \/ plan.head = Rewritten(head, plan.key) /\ EverRecorded(plan.key)

PlansLead ==
    /\ checkpoint # NoPlan => Leads(checkpoint)
    /\ \A p \in Procs : At(p, "checkpoint") => Leads(job[p].plan) /\ head # job[p].plan.head

(* The branch has been pointed away, and the old objects may still be      *)
(* there.                                                                  *)
Halfway == checkpoint # NoPlan /\ head = checkpoint.head

NoneDead == \A r \in objects : ~Dead(head, r)

DeadAreGone ==
    /\ ~Halfway => NoneDead
    /\ \A p \in Procs : At(p, "unlink") => NoneDead

StoreInv == TypeOK /\ Control /\ Repository /\ PlansLead /\ DeadAreGone

(* The steps of a reader that has resolved HEAD and found no index for it. *)
Labelled == {"gate", "extend", "publish"}
Walks == {"extend", "publish"}

(* What a reader holds on to.                                              *)
HoldsPast(v, h, n) ==
    /\ v.step # "idle" => Past(h, n, v.start)
    /\ v.step \in Labelled => Past(h, n, v.label)
    /\ v.step \in Walks => Good(h, n, v.label, v.found)
    /\ v.step = "pending" => Past(h, n, v.moved)

IndexOK(ix, h, n) == ix # NoIndex => Good(h, n, ix.head, ix.order)

KeptInv ==
    /\ IndexOK(index, head, clock)
    /\ \A r \in Readers : HoldsPast(reading[r], head, clock)

(* While the branch is where the attempt began.                            *)
OnItsBranch(v, h, n) ==
    v.step # "idle" /\ v.start = h =>
        /\ v.step \in Labelled => v.label = h
        /\ v.step = "load" => Good(h, n, h, v.found)

(* And if it began outside a forget.                                       *)
Undisturbed(v, h, half, ns) ==
    v.step # "idle" /\ v.start = h /\ v.inside = FALSE =>
        /\ ~half
        /\ v.step = "notes" => v.missed \subseteq ns
        /\ v.step \in {"index", "load"} \cup Labelled => v.missed = {}

Right(v) == v.raises = TRUE \/ (v.whole = TRUE /\ v.current = TRUE)

PageRight(v, h) ==
    v.inside = FALSE =>
        /\ v.step = "built" /\ v.start = h => Right(v)
        /\ v.step = "pending" /\ v.moved = v.start => Right(v)

ReaderOK(v, h, n, half, ns) ==
    OnItsBranch(v, h, n) /\ Undisturbed(v, h, half, ns) /\ PageRight(v, h)

TrustInv ==
    ~returned =>
        \A r \in Readers : ReaderOK(reading[r], head, clock, Halfway, notes)

(* Before the first forget: everything read is on the branch.              *)
EarlyReader(v, h) ==
    /\ v.step \in Labelled => v.label \in History(h)
    /\ v.step \in {"load"} \cup Walks => v.found \subseteq History(h)
    /\ v.raises = FALSE

EarlyInv ==
    generation = 0 =>
        /\ ~returned
        /\ index # NoIndex => index.order \subseteq History(head)
        /\ \A r \in Readers : EarlyReader(reading[r], head)

ReadersInv == StoreInv /\ ReadersTypeOK /\ KeptInv /\ TrustInv /\ EarlyInv

--------------------------------------------------------------------------------
(* Revisions                                                               *)

(* A revision of the branch is part of it, and its own last one.           *)
LEMMA OnBranch ==
    ASSUME NEW h, IsBranch(h), NEW n \in Nat, Within(h, n), NEW r \in History(h)
    PROVE  /\ IsBranch(r) /\ Within(r, n) /\ r \subseteq h /\ r # {} /\ r \in History(r)
           /\ \A s \in History(r) : s \in History(h)
           /\ ~Dead(h, r)
  <1>1. /\ IsBranch(r) /\ Within(r, n) /\ r \subseteq h /\ r # {} /\ r \in History(r)
        /\ History(r) \subseteq History(h)
    BY RevisionIsBranch
  <1>2. ~Dead(h, r)
    BY <1>1 DEF Dead, Lost
  <1>3. QED
    BY <1>1, <1>2

(* What was lost stays lost.                                               *)
LEMMA LostStays ==
    ASSUME NEW h, IsBranch(h), NEW n \in Nat, Within(h, n), NEW h2, NEW n2,
           Moves(h, n, h2, n2), NEW c \in Commits, c.at <= n, Lost(h, c)
    PROVE  Lost(h2, c) /\ c.at <= n2
  <1>1. CASE h2 = h /\ n2 = n
    BY <1>1
  <1>2. ASSUME NEW d, OnTop(h, d), d.at = n + 1, h2 = h \cup {d}, n2 = n + 1
        PROVE  Lost(h2, c) /\ c.at <= n2
    <2>1. c.at \in Nat /\ d.at # c.at
      BY <1>2 DEF Commits
    <2>2. QED
      BY <1>2, <2>1 DEF Lost
  <1>3. ASSUME NEW k \in Keys, h2 = Rewritten(h, k), n2 = n
        PROVE  Lost(h2, c) /\ c.at <= n2
    <2>1. SUFFICES ASSUME NEW e \in h2, e.at = c.at
                   PROVE  \E j \in Keys : c.tree[j] # Absent /\ e.tree[j] = Absent
      BY <1>3 DEF Lost
    <2>2. PICK f \in h : e = Stripped(f, k)
      BY <1>3, <2>1 DEF Rewritten, Stripped
    <2>3. f.at = c.at /\ e.tree = Without(f.tree, k) /\ f.tree \in Trees
      BY <2>1, <2>2 DEF Stripped, IsBranch, Commits
    <2>4. PICK j \in Keys : c.tree[j] # Absent /\ f.tree[j] = Absent
      BY <2>3 DEF Lost
    <2>5. e.tree[j] = Absent
      BY <2>3, <2>4, WithoutIsTree
    <2>6. QED
      BY <2>4, <2>5
  <1>4. QED
    BY <1>1, <1>2, <1>3 DEF Moves

(* Forgetting a dashboard takes a revision of the branch as it is, or      *)
(* loses one of its commits.                                               *)
LEMMA RewrittenOrLost ==
    ASSUME NEW h, IsBranch(h), NEW n \in Nat, Within(h, n), NEW k \in Keys,
           NEW r \in History(h)
    PROVE  Known(Rewritten(h, k), r)
  <1> DEFINE new == Rewritten(h, k)
  <1>1. PICK c \in h : r = Upto(h, c)
    BY DEF History
  <1>2. \A e \in h : e.at \in Nat /\ e.tree \in Trees /\ e = [at |-> e.at, tree |-> e.tree]
    BY DEF IsBranch, Commits
  <1>3. \A d \in new : \E e \in h : Survives(h, e, k) /\ d = Stripped(e, k)
    BY DEF Rewritten, Stripped
  <1>4. c \in r /\ r \subseteq h
    BY <1>1, <1>2 DEF Upto
  <1>5. CASE \E e \in r : ~Survives(h, e, k)
    <2>1. PICK e \in r : ~Survives(h, e, k)
      BY <1>5
    <2>2. \A d \in new : d.at # e.at
      <3>1. SUFFICES ASSUME NEW d \in new, d.at = e.at PROVE FALSE
        OBVIOUS
      <3>2. PICK f \in h : Survives(h, f, k) /\ d = Stripped(f, k)
        BY <1>3
      <3>3. f.at = e.at
        BY <3>1, <3>2 DEF Stripped
      <3>4. f = e
        BY <1>4, <3>3 DEF IsBranch
      <3>5. QED
        BY <2>1, <3>2, <3>4
    <2>3. Lost(new, e)
      BY <2>2 DEF Lost
    <2>4. QED
      BY <2>3 DEF Known, Dead
  <1>6. CASE \E e \in r : e.tree[k] # Absent
    <2>1. PICK e \in r : e.tree[k] # Absent
      BY <1>6
    <2>2. \A d \in new : d.tree[k] = Absent
      BY RewrittenIsBranch
    <2>3. Lost(new, e)
      BY <2>1, <2>2 DEF Lost
    <2>4. QED
      BY <2>3 DEF Known, Dead
  <1>7. CASE \A e \in r : Survives(h, e, k) /\ e.tree[k] = Absent
    <2>1. \A e \in r : Stripped(e, k) = e
      <3>1. SUFFICES ASSUME NEW e \in r PROVE Stripped(e, k) = e
        OBVIOUS
      <3>2. e.tree \in Trees /\ e.tree[k] = Absent /\ e = [at |-> e.at, tree |-> e.tree]
        BY <1>2, <1>4, <1>7
      <3>3. Without(e.tree, k) = e.tree
        BY <3>2 DEF Without, Trees
      <3>4. QED
        BY <3>2, <3>3 DEF Stripped
    <2>2. \A e \in r : e \in new
      <3>1. SUFFICES ASSUME NEW e \in r PROVE e \in new
        OBVIOUS
      <3>2. Stripped(e, k) \in new
        BY <1>4, <1>7 DEF Rewritten, Stripped
      <3>3. QED
        BY <2>1, <3>2
    <2>3. \A d \in new : d.at <= c.at => d \in r
      <3>1. SUFFICES ASSUME NEW d \in new, d.at <= c.at PROVE d \in r
        OBVIOUS
      <3>2. PICK e \in h : d = Stripped(e, k)
        BY <1>3
      <3>3. e.at = d.at
        BY <3>2 DEF Stripped
      <3>4. e \in r
        BY <1>1, <3>1, <3>3 DEF Upto
      <3>5. QED
        BY <2>1, <3>2, <3>4
    <2>4. r = Upto(new, c)
      BY <1>1, <2>2, <2>3 DEF Upto
    <2>5. c \in new
      BY <1>4, <2>2
    <2>6. QED
      BY <2>4, <2>5 DEF Known, History
  <1>8. QED
    BY <1>5, <1>6, <1>7

(* Whatever a step does to the branch, what is known stays known.          *)
LEMMA KnownStays ==
    ASSUME NEW h, IsBranch(h), NEW n \in Nat, Within(h, n), NEW h2, NEW n2,
           Moves(h, n, h2, n2), NEW r, IsBranch(r), Within(r, n), Known(h, r)
    PROVE  Known(h2, r) /\ Within(r, n2)
  <1>1. Within(r, n2)
    BY DEF Moves, Within, IsBranch, Commits
  <1>2. CASE Dead(h, r)
    <2>1. PICK c \in r : Lost(h, c)
      BY <1>2 DEF Dead
    <2>2. Lost(h2, c)
      BY <2>1, LostStays DEF IsBranch, Within
    <2>3. QED
      BY <1>1, <2>2 DEF Known, Dead
  <1>3. CASE r \in History(h)
    <2>1. CASE h2 = h /\ n2 = n
      BY <1>1, <1>3, <2>1 DEF Known
    <2>2. CASE \E c : OnTop(h, c) /\ c.at = n + 1 /\ h2 = h \cup {c} /\ n2 = n + 1
      BY <1>1, <1>3, <2>2, HistoryOnTop DEF Known
    <2>3. CASE \E k \in Keys : h2 = Rewritten(h, k) /\ n2 = n
      BY <1>1, <1>3, <2>3, RewrittenOrLost
    <2>4. QED
      BY <2>1, <2>2, <2>3 DEF Moves
  <1>4. QED
    BY <1>2, <1>3 DEF Known

(* Where the branch stood it stood, also after another step.               *)
LEMMA PastStays ==
    ASSUME NEW h, IsBranch(h), NEW n \in Nat, Within(h, n), NEW h2, NEW n2,
           Moves(h, n, h2, n2), NEW r, Past(h, n, r)
    PROVE  Past(h2, n2, r)
  <1>1. IsBranch(r) /\ Within(r, n) /\ \A s \in History(r) : Known(h, s)
    BY DEF Past
  <1>2. Within(r, n2)
    BY <1>1 DEF Moves, Within, IsBranch, Commits
  <1>3. ASSUME NEW s \in History(r) PROVE Known(h2, s)
    BY <1>1, <1>3, OnBranch, KnownStays
  <1>4. QED
    BY <1>1, <1>2, <1>3 DEF Past

(* Where the branch stands now.                                            *)
LEMMA PresentIsPast ==
    ASSUME NEW h, IsBranch(h), NEW n \in Nat, Within(h, n)
    PROVE  Past(h, n, h)
  BY DEF Past, Known

(* A good order stays good: nothing returns to the branch.                 *)
LEMMA GoodStays ==
    ASSUME NEW h, IsBranch(h), NEW n \in Nat, Within(h, n), NEW h2, IsBranch(h2),
           NEW n2 \in Nat, Within(h2, n2),
           Moves(h, n, h2, n2), NEW label, NEW order, Good(h, n, label, order)
    PROVE  Good(h2, n2, label, order)
  <1>1. Past(h, n, label) /\ Past(h2, n2, label)
    BY PastStays DEF Good
  <1>2. ASSUME NEW s \in order PROVE IsBranch(s) /\ Within(s, n2) /\ Known(h2, s)
    BY <1>2, KnownStays DEF Good
  <1>3. ASSUME NEW s \in History(label), s \in History(h2) PROVE s \in order
    <2>1. IsBranch(s) /\ Within(s, n) /\ Known(h, s)
      BY <1>1, OnBranch DEF Past
    <2>2. ~Dead(h2, s)
      BY <1>3, OnBranch
    <2>3. ~Dead(h, s)
      <3>1. SUFFICES ASSUME NEW c \in s, Lost(h, c) PROVE FALSE
        BY DEF Dead
      <3>2. Lost(h2, c)
        BY <2>1, <3>1, LostStays DEF IsBranch, Within
      <3>3. QED
        BY <2>2, <3>2 DEF Dead
    <2>4. s \in History(h)
      BY <2>1, <2>3 DEF Known
    <2>5. QED
      BY <1>3, <2>4 DEF Good
  <1>4. QED
    BY <1>1, <1>2, <1>3 DEF Good

(* The branch returns to where it stood only by losing its last commits.   *)
LEMMA NoOtherWayBack ==
    ASSUME NEW h, IsBranch(h), NEW n \in Nat, Within(h, n), NEW h2, NEW n2,
           Moves(h, n, h2, n2), Past(h, n, h2), h2 # h
    PROVE  h2 \in History(h) \cup {{}}
  <1>1. SUFFICES ASSUME h2 # {} PROVE h2 \in History(h)
    OBVIOUS
  <1>2. IsBranch(h2) /\ Within(h2, n) /\ \A s \in History(h2) : Known(h, s)
    BY DEF Past
  <1>3. h2 \in History(h2)
    BY <1>1, <1>2, BranchIsRevision
  <1>4. ASSUME NEW c \in h2, Lost(h, c) PROVE FALSE
    <2>1. Lost(h2, c)
      BY <1>2, <1>4, LostStays DEF IsBranch, Within
    <2>2. QED
      BY <1>4, <2>1 DEF Lost
  <1>5. QED
    BY <1>2, <1>3, <1>4 DEF Known, Dead

--------------------------------------------------------------------------------
(* The store                                                               *)

(* What a step does to the branch and the clock.                           *)
LEMMA BranchMoves ==
    ASSUME StoreInv, [Next]_vars
    PROVE  /\ Moves(head, clock, head', clock')
           /\ IsBranch(head) /\ Within(head, clock) /\ clock \in Nat
           /\ IsBranch(head') /\ Within(head', clock') /\ clock' \in Nat
           /\ head' # head =>
                \/ checkpoint = NoPlan /\ generation' = generation
                     /\ History(head') = History(head) \cup {head'}
                     /\ head' \notin History(head) \cup {{}}
                \/ \E p \in Procs : PointHead(p) /\ checkpoint # NoPlan
                                    /\ head' = checkpoint.head /\ generation > 0
  <1>1. /\ IsBranch(head) /\ Within(head, clock) /\ clock \in Nat
        /\ IsBranch(head') /\ Within(head', clock') /\ clock' \in Nat
    BY HeadStep, TypeStep DEF StoreInv, Repository, HeadIsBranch, TypeOK
  <1>2. ASSUME NEW p \in Procs, Commit(p)
        PROVE  /\ Moves(head, clock, head', clock')
               /\ checkpoint = NoPlan /\ generation' = generation
               /\ History(head') = History(head) \cup {head'}
               /\ head' \notin History(head) \cup {{}}
    <2> DEFINE c == [at |-> clock + 1, tree |-> staged]
    <2>1. /\ OnTop(head, c) /\ head' = head \cup {c} /\ clock' = clock + 1
          /\ History(head') = History(head) \cup {head'}
      BY <1>2, CommitOnTop DEF StoreInv, Repository
    <2>2. c.at = clock + 1
      OBVIOUS
    <2>3. Moves(head, clock, head', clock')
      BY <2>1, <2>2 DEF Moves
    <2>4. Follows(p)
      BY DEF StoreInv, Control, PlanFollowed
    <2>5. head' \notin History(head) \cup {{}}
      <3>1. c \in head' /\ c \notin head
        BY <2>1, OnTopOrder
      <3>2. \A r \in History(head) : r \subseteq head
        BY DEF History, Upto
      <3>3. QED
        BY <3>1, <3>2
    <2>6. QED
      BY <1>2, <2>1, <2>3, <2>4, <2>5 DEF Commit, Follows
  <1>3. ASSUME NEW p \in Procs, PointHead(p)
        PROVE  /\ Moves(head, clock, head', clock')
               /\ PointHead(p) /\ checkpoint # NoPlan /\ head' = checkpoint.head /\ generation > 0
    <2>1. /\ checkpoint # NoPlan /\ checkpoint = job[p].plan /\ checkpoint \in Plan
          /\ generation = checkpoint.target
      BY <1>3, AtWork DEF PointHead, At, ForgetSteps, StoreInv, Rewriting
    <2>2. Leads(checkpoint)
      BY <2>1 DEF StoreInv, PlansLead
    <2>3. head' = checkpoint.head /\ clock' = clock
      BY <1>3, <2>1 DEF PointHead
    <2>4. Moves(head, clock, head', clock')
      BY <2>1, <2>2, <2>3 DEF Leads, Moves, Plan
    <2>5. QED
      BY <1>3, <2>1, <2>2, <2>3, <2>4 DEF Leads
  <1>4. CASE UNCHANGED <<head, clock>>
    BY <1>1, <1>4 DEF Moves
  <1>5. QED
    <2>1. UNCHANGED head \/ \E p \in Procs : Commit(p) \/ PointHead(p)
      BY WhoChanges
    <2>2. UNCHANGED clock \/ \E p \in Procs : Commit(p)
      BY WhoChanges
    <2>3. QED
      BY <1>1, <1>2, <1>3, <1>4, <2>1, <2>2

(* The plan of a forget leads somewhere else.                              *)
LEMMA ForgetPlanLeads ==
    ASSUME TypeOK, HeadIsBranch, NEW k \in Keys, EverRecorded(k)
    PROVE  Leads(ForgetPlan(k)) /\ head # ForgetPlan(k).head
  <1>1. PICK c \in head : c.tree[k] # Absent
    BY DEF EverRecorded
  <1>2. \A d \in Rewritten(head, k) : d.tree[k] = Absent
    BY RewrittenIsBranch DEF HeadIsBranch
  <1>3. head # Rewritten(head, k)
    BY <1>1, <1>2
  <1>4. generation + 1 > 0
    BY DEF TypeOK
  <1>5. QED
    BY <1>3, <1>4 DEF Leads, ForgetPlan

(* Every plan keeps leading to where the branch goes.                      *)
LEMMA PlansLeadStep == StoreInv /\ [Next]_vars => PlansLead'
  <1> SUFFICES ASSUME StoreInv, [Next]_vars PROVE PlansLead'
    OBVIOUS
  <1>1. ASSUME NEW q \in Procs, At(q, "checkpoint")'
        PROVE  (Leads(job[q].plan) /\ head # job[q].plan.head)'
    <2>1. ASSUME NEW k \in Keys, PlanForget(q, k), job'[q].plan = ForgetPlan(k)
          PROVE  (Leads(job[q].plan) /\ head # job[q].plan.head)'
      <3>1. Leads(ForgetPlan(k)) /\ head # ForgetPlan(k).head
        BY <2>1, ForgetPlanLeads DEF PlanForget, StoreInv, Repository
      <3>2. head' = head
        BY <2>1 DEF PlanForget
      <3>3. PICK plan : plan = ForgetPlan(k)
        OBVIOUS
      <3>4. QED
        BY <2>1, <3>1, <3>2, <3>3 DEF Leads, EverRecorded
    <2>2. CASE UNCHANGED disk /\ job'[q] = job[q]
      BY <1>1, <2>2 DEF disk, StoreInv, PlansLead, At, Leads, EverRecorded
    <2>3. QED
      BY <1>1, <2>1, <2>2, WhoIsThere DEF At, StoreInv
  <1>2. ASSUME checkpoint' # NoPlan PROVE Leads(checkpoint)'
    <2>1. CASE checkpoint = NoPlan
      <3>1. PICK p \in Procs : WriteCheckpoint(p)
        BY <1>2, <2>1, WhoChanges DEF UnlinkCheckpoint
      <3>2. Leads(job[p].plan) /\ checkpoint' = job[p].plan /\ head' = head
        BY <3>1 DEF WriteCheckpoint, StoreInv, PlansLead
      <3>3. QED
        BY <3>2 DEF Leads, EverRecorded
    <2>2. CASE checkpoint # NoPlan
      <3>1. checkpoint' = checkpoint
        <4>1. ~\E p \in Procs : UnlinkCheckpoint(p)
          BY <1>2 DEF UnlinkCheckpoint
        <4>2. ASSUME NEW p \in Procs, WriteCheckpoint(p) PROVE FALSE
          BY <2>2, <4>2 DEF WriteCheckpoint, StoreInv, Control, PlanFollowed, Follows
        <4>3. QED
          BY <4>1, <4>2, WhoChanges
      <3>2. head' \in {head, checkpoint.head}
        BY <2>2, FrozenStep DEF StoreInv
      <3>3. Leads(checkpoint)
        BY <2>2 DEF StoreInv, PlansLead
      <3>4. QED
        BY <3>1, <3>2, <3>3 DEF Leads, EverRecorded
    <2>3. QED
      BY <2>1, <2>2
  <1>3. QED
    BY <1>1, <1>2 DEF PlansLead

(* A revision of the branch, or of what a forget plans for it, has lost    *)
(* nothing.                                                                *)
LEMMA PlannedIsNotDead ==
    ASSUME NEW h, IsBranch(h), NEW k \in Keys, NEW r \in History(Rewritten(h, k))
    PROVE  ~Dead(h, r)
  <1>1. SUFFICES ASSUME NEW c \in r, Lost(h, c) PROVE FALSE
    BY DEF Dead
  <1>2. c \in Rewritten(h, k)
    BY DEF History, Upto
  <1>3. PICK e \in h : c = Stripped(e, k)
    BY <1>2 DEF Rewritten, Stripped
  <1>4. c.at = e.at /\ c.tree = Without(e.tree, k) /\ e.tree \in Trees
    BY <1>3 DEF Stripped, IsBranch, Commits
  <1>5. PICK j \in Keys : c.tree[j] # Absent /\ e.tree[j] = Absent
    BY <1>1, <1>4 DEF Lost
  <1>6. QED
    BY <1>4, <1>5, WithoutIsTree

(* Only what is on the branch is left when the old objects are pruned, and *)
(* nothing dead gets there before the next forget moves the branch.        *)
LEMMA DeadAreGoneStep == StoreInv /\ [Next]_vars => DeadAreGone'
  <1> SUFFICES ASSUME StoreInv, [Next]_vars PROVE DeadAreGone'
    OBVIOUS
  <1>b. IsBranch(head) /\ Within(head, clock) /\ clock \in Nat
    BY DEF StoreInv, Repository, HeadIsBranch, TypeOK
  <1>1. ASSUME NEW p \in Procs, CollectGarbage(p) PROVE NoneDead'
    <2>1. checkpoint # NoPlan /\ checkpoint = job[p].plan
      BY <1>1, AtWork DEF CollectGarbage, At, ForgetSteps, StoreInv
    <2>2. head = checkpoint.head /\ tags = checkpoint.tags
      BY <1>1, <2>1 DEF CollectGarbage, At, StoreInv, Repository, Progress, Done, AfterHead,
                        AfterTags, AfterNotes
    <2>3. \A t \in tags : t.rev \in History(head)
      BY <2>1, <2>2 DEF StoreInv, Repository, PlansAreSound, Sound
    <2>4. \A r \in Reachable : r \in History(head)
      BY <1>b, <2>3, OnBranch DEF Reachable
    <2>5. \A r \in Reachable : ~Dead(head, r)
      BY <1>b, <2>4, OnBranch
    <2>6. objects' \subseteq Reachable /\ head' = head
      BY <1>1 DEF CollectGarbage
    <2>7. QED
      BY <2>5, <2>6 DEF NoneDead
  <1>2. ASSUME UNCHANGED disk PROVE /\ NoneDead' <=> NoneDead
                                    /\ Halfway' <=> Halfway
    BY <1>2 DEF disk, NoneDead, Halfway
  <1>3. ASSUME NEW q \in Procs, At(q, "unlink")' PROVE NoneDead'
    <2>1. CASE CollectGarbage(q)
      BY <1>1, <2>1
    <2>2. CASE UNCHANGED disk /\ job'[q] = job[q]
      BY <1>2, <1>3, <2>2 DEF StoreInv, DeadAreGone, At
    <2>3. QED
      BY <1>3, <2>1, <2>2, WhoIsThere DEF At, StoreInv
  <1>4. ASSUME ~Halfway' PROVE NoneDead'
    <2>1. CASE \E p \in Procs : CollectGarbage(p)
      BY <1>1, <2>1
    <2>2. CASE \E p \in Procs : Commit(p)
      <3>1. PICK p \in Procs : Commit(p)
        BY <2>2
      <3>2. checkpoint = NoPlan
        BY <3>1 DEF Commit, StoreInv, Control, PlanFollowed, Follows
      <3>3. NoneDead
        BY <3>2 DEF StoreInv, DeadAreGone, Halfway
      <3>4. head \subseteq head' /\ objects' = objects \cup {head'}
        BY <3>1 DEF Commit
      <3>5. ASSUME NEW r \in objects' PROVE ~Dead(head', r)
        <4>1. SUFFICES ASSUME NEW c \in r, Lost(head', c) PROVE FALSE
          BY DEF Dead
        <4>2. CASE r = head'
          BY <4>1, <4>2 DEF Lost
        <4>3. CASE r \in objects
          <5>1. Lost(head, c)
            BY <3>4, <4>1 DEF Lost
          <5>2. QED
            BY <3>3, <4>3, <5>1 DEF NoneDead, Dead
        <4>4. QED
          BY <3>4, <3>5, <4>2, <4>3
      <3>6. QED
        BY <3>5 DEF NoneDead
    <2>3. CASE \E p \in Procs, k \in Keys : PlanForget(p, k)
      <3>1. PICK p \in Procs, k \in Keys : PlanForget(p, k)
        BY <2>3
      <3>2. /\ checkpoint = NoPlan /\ head' = head
            /\ objects' = objects \cup History(Rewritten(head, k))
        BY <3>1 DEF PlanForget, Admitted
      <3>3. NoneDead
        BY <3>2 DEF StoreInv, DeadAreGone, Halfway
      <3>4. QED
        BY <1>b, <3>2, <3>3, PlannedIsNotDead DEF NoneDead
    <2>4. CASE UNCHANGED objects /\ ~\E p \in Procs : Commit(p)
      <3>1. CASE \E p \in Procs : UnlinkCheckpoint(p)
        BY <2>4, <3>1 DEF UnlinkCheckpoint, StoreInv, DeadAreGone, NoneDead
      <3>2. CASE \E p \in Procs : WriteCheckpoint(p)
        <4>1. checkpoint = NoPlan /\ head' = head
          BY <3>2 DEF WriteCheckpoint, StoreInv, Control, PlanFollowed, Follows
        <4>2. QED
          BY <2>4, <4>1 DEF StoreInv, DeadAreGone, NoneDead, Halfway
      <3>3. CASE UNCHANGED checkpoint
        <4>1. CASE UNCHANGED head
          BY <1>4, <2>4, <3>3, <4>1 DEF StoreInv, DeadAreGone, NoneDead, Halfway
        <4>2. ASSUME NEW p \in Procs, PointHead(p) PROVE FALSE
          <5>1. checkpoint # NoPlan /\ checkpoint = job[p].plan
            BY <4>2, AtWork DEF PointHead, At, ForgetSteps, StoreInv
          <5>2. head' = checkpoint'.head /\ checkpoint' # NoPlan
            BY <3>3, <4>2, <5>1 DEF PointHead
          <5>3. QED
            BY <1>4, <5>2 DEF Halfway
        <4>3. QED
          BY <2>4, <4>1, <4>2, WhoChanges
      <3>4. QED
        BY <3>1, <3>2, <3>3, WhoChanges
    <2>5. QED
      BY <2>1, <2>2, <2>3, <2>4, WhoChanges
  <1>5. QED
    BY <1>3, <1>4 DEF DeadAreGone

(* The store keeps its invariant.                                          *)
LEMMA StoreStep == StoreInv /\ [Next]_vars => StoreInv'
  BY TypeStep, ControlStep, HeadStep, MissingStep, MarksStep, PlansStep, ProgressStep,
     PlansLeadStep, DeadAreGoneStep DEF StoreInv, Repository

LEMMA StoreInit == Init => StoreInv
  <1> SUFFICES ASSUME Init PROVE StoreInv
    OBVIOUS
  <1>1. TypeOK /\ Control /\ Repository
    BY TypeInit, ControlInit, RepositoryInit
  <1>2. checkpoint = NoPlan /\ objects = {} /\ \A p \in Procs : job[p].step = "idle"
    BY DEF Init, Idle
  <1>3. PlansLead /\ DeadAreGone
    BY <1>2 DEF PlansLead, DeadAreGone, NoneDead, At
  <1>4. QED
    BY <1>1, <1>3 DEF StoreInv

--------------------------------------------------------------------------------
(* Readers: types                                                          *)

LEMMA NotReadingIsTyped == NotReading \in Reading
  BY AttemptsAssumption DEF NotReading, Reading, ReadSteps

(* One record after another: what an attempt that ends makes of its own.   *)
Broken(v) == [v EXCEPT !.step = "built", !.label = {}, !.base = {}, !.found = {},
                       !.missed = {}, !.raises = TRUE]

LEMMA BrokenFacts ==
    ASSUME NEW v \in Reading
    PROVE  /\ Broken(v) \in Reading /\ Broken(v).step = "built" /\ Broken(v).raises = TRUE
           /\ Broken(v).start = v.start /\ Broken(v).inside = v.inside
           /\ Broken(v).missed = {}
  BY DEF Reading, ReadSteps, Broken

Page(v, x, y) == [v EXCEPT !.step = "built", !.found = {}, !.missed = {},
                           !.whole = x, !.current = y]

LEMMA PageRecord ==
    ASSUME NEW v \in Reading, NEW x \in BOOLEAN, NEW y \in BOOLEAN
    PROVE  /\ Page(v, x, y) \in Reading /\ Page(v, x, y).step = "built"
           /\ Page(v, x, y).raises = v.raises /\ Page(v, x, y).start = v.start
           /\ Page(v, x, y).inside = v.inside /\ Page(v, x, y).missed = {}
           /\ Page(v, x, y).whole = x /\ Page(v, x, y).current = y
  BY DEF Reading, ReadSteps, Page

(* A new attempt.                                                          *)
LEMMA AttemptFacts ==
    ASSUME TypeOK, NEW k \in Keys \cup {NoReader}, NEW h \in SUBSET Commits,
           NEW n \in 0 .. (Attempts - 1)
    PROVE  LET w == Attempt(k, h, n) IN
           /\ w \in Reading /\ w.step = "notes" /\ w.start = h
           /\ (w.inside = FALSE => ~Pending) /\ w.missed = TrueNotes /\ w.raises = FALSE
  <1> DEFINE w == Attempt(k, h, n)
  <1>1. TrueNotes \in SUBSET Notes
    BY DEF TrueNotes, TypeOK, Plan, Pending
  <1>2. w \in Reading
    BY <1>1 DEF Attempt, Reading, ReadSteps, Pending
  <1>3. w.step = "notes" /\ w.start = h
    BY DEF Attempt
  <1>4. w.inside = FALSE => ~Pending
    <2>1. w.inside = Pending
      BY DEF Attempt
    <2>2. QED
      BY <2>1, Zenon
  <1>5. w.missed = TrueNotes
    BY DEF Attempt
  <1>6. w.raises = FALSE
    BY DEF Attempt
  <1>7. QED
    BY <1>2, <1>3, <1>4, <1>5, <1>6

LEMMA FailedFacts ==
    ASSUME ReadersTypeOK, NEW r \in Readers
    PROVE  /\ Failed(r) \in Reading
           /\ Failed(r).step = "built" /\ Failed(r).raises = TRUE
           /\ Failed(r).start = reading[r].start /\ Failed(r).inside = reading[r].inside
           /\ Failed(r).missed = {}
  <1>1. reading[r] \in Reading
    BY DEF ReadersTypeOK
  <1>2. QED
    BY <1>1, BrokenFacts, Zenon DEF Failed, Broken

(* A page put together without a KeyError is whole and current where what  *)
(* it is made of is.                                                       *)
LEMMA PageFacts ==
    ASSUME ReadersTypeOK, NEW r \in Readers, NEW revs
    PROVE  LET w == PutTogether(r, revs) IN
           /\ w \in Reading
           /\ w.step = "built"
           /\ w.start = reading[r].start /\ w.inside = reading[r].inside
           /\ w.missed = {}
           /\ (~(revs \subseteq objects) => w.raises = TRUE)
           /\ (revs \subseteq objects =>
                /\ w.raises = reading[r].raises
                /\ (\A n \in reading[r].missed : n.rev \notin revs) => w.whole = TRUE
                /\ revs = ByKey(History(reading[r].start), reading[r].key) => w.current = TRUE)
  <1> SUFFICES ASSUME NEW w, w = PutTogether(r, revs)
               PROVE  /\ w \in Reading
                      /\ w.step = "built"
                      /\ w.start = reading[r].start /\ w.inside = reading[r].inside
                      /\ w.missed = {}
                      /\ (~(revs \subseteq objects) => w.raises = TRUE)
                      /\ (revs \subseteq objects =>
                           /\ w.raises = reading[r].raises
                           /\ (\A n \in reading[r].missed : n.rev \notin revs) => w.whole = TRUE
                           /\ revs = ByKey(History(reading[r].start), reading[r].key) => w.current = TRUE)
    OBVIOUS
  <1>1. CASE ~(revs \subseteq objects)
    BY <1>1, FailedFacts DEF PutTogether
  <1>2. CASE revs \subseteq objects
    <2>1. PICK wh : wh = (\A n \in reading[r].missed : n.rev \notin revs)
      OBVIOUS
    <2>2. PICK cu : cu = (revs = ByKey(History(reading[r].start), reading[r].key))
      OBVIOUS
    <2>3. wh \in BOOLEAN /\ cu \in BOOLEAN
      BY <2>1, <2>2, Zenon
    <2>4. /\ (\A n \in reading[r].missed : n.rev \notin revs) => wh = TRUE
          /\ revs = ByKey(History(reading[r].start), reading[r].key) => cu = TRUE
      BY <2>1, <2>2, Zenon
    <2>5. w = [reading[r] EXCEPT !.step = "built", !.found = {}, !.missed = {},
                                 !.whole = wh, !.current = cu]
      BY <1>2, <2>1, <2>2, Zenon DEF PutTogether
    <2>6. reading[r] \in Reading
      BY DEF ReadersTypeOK
    <2>7. w = Page(reading[r], wh, cu)
      BY <2>5, Zenon DEF Page
    <2>8. /\ w \in Reading /\ w.step = "built" /\ w.raises = reading[r].raises
          /\ w.start = reading[r].start /\ w.inside = reading[r].inside
          /\ w.missed = {} /\ w.whole = wh /\ w.current = cu
      BY <2>3, <2>6, <2>7, PageRecord
    <2>9. QED
      BY <1>2, <2>4, <2>8
  <1>3. QED
    BY <1>1, <1>2

(* What one reader does to its own record.                                 *)
Sets(r, w) ==
    /\ reading' = [reading EXCEPT ![r] = w]
    /\ UNCHANGED <<vars, returned>>

LEMMA BeginFacts ==
    ASSUME TypeOK, ReadersTypeOK, NEW r \in Readers, NEW k \in Keys, BeginRead(r, k)
    PROVE  \E w \in Reading :
             /\ Sets(r, w) /\ UNCHANGED <<index, gate>>
             /\ w.step = "notes" /\ w.start = head /\ (w.inside = FALSE => ~Pending)
             /\ w.missed = TrueNotes /\ w.raises = FALSE
  <1>1. PICK w : w = Attempt(k, head, Attempts - 1)
    OBVIOUS
  <1>2. Attempts - 1 \in 0 .. (Attempts - 1) /\ head \in SUBSET Commits
    BY AttemptsAssumption DEF TypeOK
  <1>3. Sets(r, w) /\ UNCHANGED <<index, gate>>
    BY <1>1 DEF BeginRead, Sets
  <1>4. QED
    BY <1>1, <1>2, <1>3, AttemptFacts

LEMMA RetryFacts ==
    ASSUME TypeOK, ReadersTypeOK, NEW r \in Readers, Retry(r)
    PROVE  \E w \in Reading :
             /\ Sets(r, w) /\ UNCHANGED <<index, gate>>
             /\ reading[r].step = "pending"
             /\ w.step = "notes" /\ w.start = reading[r].moved /\ (w.inside = FALSE => ~Pending)
             /\ w.missed = TrueNotes /\ w.raises = FALSE
  <1>1. PICK w : w = Attempt(reading[r].key, reading[r].moved, reading[r].left - 1)
    OBVIOUS
  <1>2. reading[r] \in Reading /\ reading[r].left > 0 /\ reading[r].step = "pending"
    BY DEF ReadersTypeOK, Retry, Reads
  <1>3. /\ reading[r].left - 1 \in 0 .. (Attempts - 1)
        /\ reading[r].key \in Keys \cup {NoReader} /\ reading[r].moved \in SUBSET Commits
    BY <1>2, AttemptsAssumption DEF Reading
  <1>4. Sets(r, w) /\ UNCHANGED <<index, gate>>
    BY <1>1 DEF Retry, Sets
  <1>5. QED
    BY <1>1, <1>2, <1>3, <1>4, AttemptFacts, ZenonT(40)

(* The notes are read.                                                     *)
LEMMA NotesFacts ==
    ASSUME ReadersTypeOK, NEW r \in Readers, ReadNotes(r)
    PROVE  \E w \in Reading :
             /\ Sets(r, w) /\ UNCHANGED <<index, gate>>
             /\ reading[r].step = "notes" /\ w.step = "index"
             /\ w.start = reading[r].start /\ w.inside = reading[r].inside
             /\ w.missed = reading[r].missed \ notes /\ w.raises = reading[r].raises
  <1> DEFINE w == [reading[r] EXCEPT !.missed = @ \ notes, !.step = "index"]
  <1>1. reading[r] \in Reading /\ reading[r].step = "notes"
    BY DEF ReadersTypeOK, ReadNotes, Reads
  <1>2. /\ w \in Reading /\ w.step = "index"
        /\ w.start = reading[r].start /\ w.inside = reading[r].inside
        /\ w.missed = reading[r].missed \ notes /\ w.raises = reading[r].raises
    BY <1>1 DEF Reading, ReadSteps
  <1>3. Sets(r, w) /\ UNCHANGED <<index, gate>>
    BY DEF ReadNotes, Sets, ReadersTypeOK
  <1> HIDE DEF w
  <1>4. QED
    BY <1>1, <1>2, <1>3

(* The branch is looked at.                                                *)
LEMMA ResolveFacts ==
    ASSUME TypeOK, ReadersTypeOK, NEW r \in Readers, ResolveHead(r)
    PROVE  \E w \in Reading :
             /\ Sets(r, w) /\ UNCHANGED <<index, gate>>
             /\ reading[r].step = "index"
             /\ w.start = reading[r].start /\ w.inside = reading[r].inside
             /\ \/ head = {} /\ w = PutTogether(r, {})
                \/ /\ head # {} /\ CachedFor(head) /\ w.step = "load"
                   /\ w.found = index.order
                   /\ w.missed = reading[r].missed /\ w.raises = reading[r].raises
                \/ /\ head # {} /\ w.step = "gate" /\ w.label = head
                   /\ w.missed = reading[r].missed /\ w.raises = reading[r].raises
  <1>1. reading[r] \in Reading /\ reading[r].step = "index"
    BY DEF ReadersTypeOK, ResolveHead, Reads
  <1>2. CASE head = {}
    <2>1. PICK w : w = PutTogether(r, {})
      OBVIOUS
    <2>2. Sets(r, w) /\ UNCHANGED <<index, gate>>
      BY <1>2, <2>1, Zenon DEF ResolveHead, Sets
    <2>3. w \in Reading /\ w.start = reading[r].start /\ w.inside = reading[r].inside
      BY <2>1, PageFacts
    <2>4. QED
      BY <1>1, <1>2, <2>1, <2>2, <2>3, Zenon
  <1>3. CASE head # {} /\ CachedFor(head)
    <2> DEFINE w == [reading[r] EXCEPT !.step = "load", !.found = index.order]
    <2>1. index \in Index
      BY <1>3 DEF CachedFor, ReadersTypeOK
    <2>2. Sets(r, w) /\ UNCHANGED <<index, gate>>
      BY <1>3 DEF ResolveHead, Sets
    <2>3. /\ w \in Reading /\ w.start = reading[r].start /\ w.inside = reading[r].inside
          /\ w.step = "load" /\ w.found = index.order
          /\ w.missed = reading[r].missed /\ w.raises = reading[r].raises
      BY <1>1, <2>1 DEF Reading, ReadSteps, Index
    <2> HIDE DEF w
    <2>4. QED
      BY <1>1, <1>3, <2>2, <2>3
  <1>4. CASE head # {} /\ ~CachedFor(head)
    <2> DEFINE w == [reading[r] EXCEPT !.step = "gate", !.label = head]
    <2>1. head \in SUBSET Commits
      BY DEF TypeOK
    <2>2. Sets(r, w) /\ UNCHANGED <<index, gate>>
      BY <1>4 DEF ResolveHead, Sets
    <2>3. /\ w \in Reading /\ w.start = reading[r].start /\ w.inside = reading[r].inside
          /\ w.step = "gate" /\ w.label = head
          /\ w.missed = reading[r].missed /\ w.raises = reading[r].raises
      BY <1>1, <2>1 DEF Reading, ReadSteps
    <2> HIDE DEF w
    <2>4. QED
      BY <1>1, <1>4, <2>2, <2>3
  <1>5. QED
    BY <1>2, <1>3, <1>4

(* Another reader built the index meanwhile.                               *)
LEMMA MeanwhileFacts ==
    ASSUME ReadersTypeOK, NEW r \in Readers, CachedMeanwhile(r)
    PROVE  \E w \in Reading :
             /\ Sets(r, w) /\ UNCHANGED <<index, gate>>
             /\ reading[r].step = "gate" /\ w.step = "load"
             /\ CachedFor(reading[r].label) /\ w.found = index.order
             /\ w.start = reading[r].start /\ w.inside = reading[r].inside
             /\ w.missed = reading[r].missed /\ w.raises = reading[r].raises
  <1> DEFINE w == [reading[r] EXCEPT !.step = "load", !.label = {}, !.found = index.order]
  <1>1. /\ reading[r] \in Reading /\ reading[r].step = "gate"
        /\ CachedFor(reading[r].label) /\ index \in Index
    BY DEF ReadersTypeOK, CachedMeanwhile, Reads, CachedFor
  <1>2. /\ w \in Reading /\ w.step = "load" /\ w.found = index.order
        /\ w.start = reading[r].start /\ w.inside = reading[r].inside
        /\ w.missed = reading[r].missed /\ w.raises = reading[r].raises
    BY <1>1 DEF Reading, ReadSteps, Index
  <1>3. Sets(r, w) /\ UNCHANGED <<index, gate>>
    BY DEF CachedMeanwhile, Sets, ReadersTypeOK
  <1> HIDE DEF w
  <1>4. QED
    BY <1>1, <1>2, <1>3

(* What a walk that begins is to find.                                     *)
Walked(label) ==
    IF Extendable(label) THEN index.order \cup Fresh(label) ELSE History(head)

LEMMA ExtendingFacts ==
    ASSUME index \in Index, NEW v \in Reading
    PROVE  /\ Extending(v) \in Reading /\ Extending(v).step = "extend"
           /\ Extending(v).label = v.label /\ Extending(v).found = index.order \cup Fresh(v.label)
           /\ Extending(v).start = v.start /\ Extending(v).inside = v.inside
           /\ Extending(v).missed = v.missed /\ Extending(v).raises = v.raises
  <1>1. Fresh(v.label) \in SUBSET SUBSET Commits
    BY HistoryIsTyped DEF Fresh, Reading
  <1>2. PICK found, base : found = index.order \cup Fresh(v.label) /\ base = index.head
    OBVIOUS
  <1>3. found \in SUBSET SUBSET Commits /\ base \in SUBSET Commits
    BY <1>1, <1>2 DEF Index
  <1>4. Extending(v) = [v EXCEPT !.step = "extend", !.base = base, !.found = found]
    BY <1>2 DEF Extending
  <1>5. /\ Extending(v).step = "extend"
        /\ Extending(v).label = v.label /\ Extending(v).found = found
        /\ Extending(v).start = v.start /\ Extending(v).inside = v.inside
        /\ Extending(v).missed = v.missed /\ Extending(v).raises = v.raises
    BY <1>4 DEF Reading
  <1>6. Extending(v) \in Reading
    <2> DEFINE H == SUBSET Commits
               F == SUBSET SUBSET Commits
    <2>1. found \in F /\ base \in H
      BY <1>3
    <2>2. Reading = [step : ReadSteps, key : Keys \cup {NoReader}, start : H,
                     left : 0..(Attempts - 1), label : H, base : H, found : F, moved : H,
                     raises : BOOLEAN, missed : SUBSET Notes,
                     inside : BOOLEAN, whole : BOOLEAN, current : BOOLEAN]
      BY DEF Reading
    <2>3. "extend" \in ReadSteps
      BY DEF ReadSteps
    <2> HIDE DEF H, F
    <2>4. QED
      BY <1>4, <2>1, <2>2, <2>3
  <1>7. QED
    BY <1>2, <1>5, <1>6

LEMMA WalkingFacts ==
    ASSUME TypeOK, NEW v \in Reading
    PROVE  /\ Walking(v) \in Reading /\ Walking(v).step = "publish"
           /\ Walking(v).label = v.label /\ Walking(v).found = History(head)
           /\ Walking(v).start = v.start /\ Walking(v).inside = v.inside
           /\ Walking(v).missed = v.missed /\ Walking(v).raises = v.raises
  <1>1. History(head) \in SUBSET SUBSET Commits
    BY HistoryIsTyped DEF TypeOK
  <1>2. PICK found : found = History(head)
    OBVIOUS
  <1>3. Walking(v) = [v EXCEPT !.step = "publish", !.base = {}, !.found = found]
    BY <1>2 DEF Walking
  <1>4. QED
    BY <1>1, <1>2, <1>3 DEF Reading, ReadSteps

(* A walk begins.                                                          *)
LEMMA BuildFacts ==
    ASSUME TypeOK, ReadersTypeOK, NEW r \in Readers, BuildIndex(r)
    PROVE  \E w \in Reading :
             /\ Sets(r, w) /\ UNCHANGED index /\ gate' = r
             /\ reading[r].step = "gate" /\ w.step \in Walks
             /\ w.label = reading[r].label /\ w.found = Walked(reading[r].label)
             /\ w.start = reading[r].start /\ w.inside = reading[r].inside
             /\ w.missed = reading[r].missed /\ w.raises = reading[r].raises
  <1>1. reading[r] \in Reading /\ reading[r].step = "gate"
    BY DEF ReadersTypeOK, BuildIndex, Reads
  <1>2. CASE Extendable(reading[r].label)
    <2>1. index \in Index
      BY <1>2 DEF Extendable, ReadersTypeOK
    <2>2. PICK w : w = Extending(reading[r])
      OBVIOUS
    <2>3. Sets(r, w) /\ UNCHANGED index /\ gate' = r
      BY <1>2, <2>2 DEF BuildIndex, Sets
    <2>4. QED
      BY <1>1, <1>2, <2>1, <2>2, <2>3, ExtendingFacts DEF Walked, Walks
  <1>3. CASE ~Extendable(reading[r].label)
    <2>1. PICK w : w = Walking(reading[r])
      OBVIOUS
    <2>2. Sets(r, w) /\ UNCHANGED index /\ gate' = r
      BY <1>3, <2>1 DEF BuildIndex, Sets
    <2>3. QED
      BY <1>1, <1>3, <2>1, <2>2, WalkingFacts DEF Walked, Walks
  <1>4. QED
    BY <1>2, <1>3

(* A walk begins again.                                                    *)
LEMMA WalkAllFacts ==
    ASSUME TypeOK, ReadersTypeOK, NEW r \in Readers, WalkAll(r)
    PROVE  \E w \in Reading :
             /\ Sets(r, w) /\ UNCHANGED <<index, gate>>
             /\ reading[r].step = "extend" /\ w.step = "publish"
             /\ w.label = reading[r].label /\ w.found = History(head)
             /\ w.start = reading[r].start /\ w.inside = reading[r].inside
             /\ w.missed = reading[r].missed /\ w.raises = reading[r].raises
  <1>1. reading[r] \in Reading /\ reading[r].step = "extend"
    BY DEF ReadersTypeOK, WalkAll, ExtendingStops, Reads
  <1>2. PICK w : w = Walking(reading[r])
    OBVIOUS
  <1>3. Sets(r, w) /\ UNCHANGED <<index, gate>>
    BY <1>2 DEF WalkAll, Sets
  <1>4. QED
    BY <1>1, <1>2, <1>3, WalkingFacts

LEMMA BuildFailsFacts ==
    ASSUME ReadersTypeOK, NEW r \in Readers, BuildFails(r)
    PROVE  \E w \in Reading :
             /\ Sets(r, w) /\ UNCHANGED index /\ gate' = NoReader
             /\ reading[r].step \in Labelled
             /\ \/ head = {}
                \/ reading[r].step = "publish" /\ ~(reading[r].found \subseteq objects)
             /\ w.step = "built" /\ w.raises = TRUE
             /\ w.start = reading[r].start /\ w.inside = reading[r].inside
             /\ w.missed = {}
  <1>1. PICK w : w = Failed(r)
    OBVIOUS
  <1>2. Sets(r, w) /\ UNCHANGED index /\ gate' = NoReader
    BY <1>1 DEF BuildFails, Sets
  <1>3. /\ reading[r].step \in Labelled
        /\ \/ head = {}
           \/ reading[r].step = "publish" /\ ~(reading[r].found \subseteq objects)
    BY DEF BuildFails, ExtendingStops, Reads, Labelled
  <1>4. QED
    BY <1>1, <1>2, <1>3, FailedFacts

(* The index is published, under the label it was built for.               *)
LEMMA PublishFacts ==
    ASSUME ReadersTypeOK, NEW r \in Readers, PublishIndex(r)
    PROVE  \E w \in Reading :
             /\ Sets(r, w) /\ gate' = NoReader
             /\ index' \in Index
             /\ index'.head = reading[r].label /\ index'.order = reading[r].found
             /\ reading[r].step \in Walks /\ w.step = "load"
             /\ w.found = reading[r].found
             /\ w.start = reading[r].start /\ w.inside = reading[r].inside
             /\ w.missed = reading[r].missed /\ w.raises = reading[r].raises
  <1> DEFINE w == [reading[r] EXCEPT !.step = "load", !.label = {}, !.base = {}]
  <1>1. reading[r] \in Reading /\ reading[r].step \in Walks
    BY DEF ReadersTypeOK, PublishIndex, Reads, Walks
  <1>2. /\ w \in Reading /\ w.step = "load" /\ w.found = reading[r].found
        /\ w.start = reading[r].start /\ w.inside = reading[r].inside
        /\ w.missed = reading[r].missed /\ w.raises = reading[r].raises
    BY <1>1 DEF Reading, ReadSteps
  <1>3. Sets(r, w) /\ gate' = NoReader
    BY DEF PublishIndex, Sets, ReadersTypeOK
  <1>4. index' \in Index /\ index'.head = reading[r].label /\ index'.order = reading[r].found
    BY <1>1 DEF PublishIndex, Index, Reading
  <1> HIDE DEF w
  <1>5. QED
    BY <1>1, <1>2, <1>3, <1>4

LEMMA LoadFacts ==
    ASSUME ReadersTypeOK, NEW r \in Readers, LoadCommits(r)
    PROVE  /\ PutTogether(r, ByKey(reading[r].found, reading[r].key)) \in Reading
           /\ Sets(r, PutTogether(r, ByKey(reading[r].found, reading[r].key)))
           /\ UNCHANGED <<index, gate>> /\ reading[r].step = "load"
  BY PageFacts DEF LoadCommits, Sets, Reads

(* The branch is looked at again.                                          *)
LEMMA AgainFacts ==
    ASSUME TypeOK, ReadersTypeOK, NEW r \in Readers, ReadHeadAgain(r)
    PROVE  \E w \in Reading :
             /\ Sets(r, w) /\ UNCHANGED <<index, gate>>
             /\ reading[r].step = "built" /\ w.step = "pending"
             /\ w.moved = head
             /\ w.start = reading[r].start /\ w.inside = reading[r].inside
             /\ w.raises = reading[r].raises /\ w.whole = reading[r].whole
             /\ w.current = reading[r].current
  <1> DEFINE w == [reading[r] EXCEPT !.moved = head, !.step = "pending"]
  <1>1. reading[r] \in Reading /\ reading[r].step = "built" /\ head \in SUBSET Commits
    BY DEF ReadersTypeOK, ReadHeadAgain, Reads, TypeOK
  <1>2. /\ w \in Reading /\ w.step = "pending" /\ w.moved = head
        /\ w.start = reading[r].start /\ w.inside = reading[r].inside
        /\ w.raises = reading[r].raises /\ w.whole = reading[r].whole
        /\ w.current = reading[r].current
    BY <1>1 DEF Reading, ReadSteps
  <1>3. Sets(r, w) /\ UNCHANGED <<index, gate>>
    BY DEF ReadHeadAgain, Sets, ReadersTypeOK
  <1> HIDE DEF w
  <1>4. QED
    BY <1>1, <1>2, <1>3

LEMMA EndFacts ==
    ASSUME ReadersTypeOK, NEW r \in Readers, Trust(r) \/ GiveUp(r)
    PROVE  /\ Sets(r, NotReading) /\ UNCHANGED <<index, gate>>
           /\ NotReading \in Reading /\ NotReading.step = "idle" /\ NotReading.raises = FALSE
  BY NotReadingIsTyped DEF Trust, GiveUp, Sets, NotReading

(* What a step of the store leaves in a reader's hands.                    *)
LEMMA WatchedFacts ==
    ASSUME TypeOK', ReadersTypeOK, reading' = Watched, NEW r \in Readers
    PROVE  \/ reading'[r] = NotReading
           \/ /\ reading'[r] = [reading[r] EXCEPT !.missed = reading'[r].missed]
              /\ reading'[r].missed = reading[r].missed \cap TrueNotes'
              /\ reading[r].step # "idle"
              /\ reading'[r] \in Reading
  <1>1. CASE Reads(r, "idle")
    BY <1>1 DEF Watched
  <1>2. CASE ~Reads(r, "idle")
    <2> DEFINE w == [reading[r] EXCEPT !.missed = @ \cap TrueNotes']
    <2>1. reading[r] \in Reading /\ reading[r].step # "idle"
      BY <1>2 DEF ReadersTypeOK, Reads
    <2>2. /\ w \in Reading /\ w.missed = reading[r].missed \cap TrueNotes'
          /\ w = [reading[r] EXCEPT !.missed = w.missed]
      BY <2>1 DEF Reading
    <2>3. reading'[r] = w
      BY <1>2 DEF Watched
    <2> HIDE DEF w
    <2>4. QED
      BY <2>1, <2>2, <2>3
  <1>3. QED
    BY <1>1, <1>2

(* What a reader's step does to the types.                                 *)
LEMMA SetsIsTyped ==
    ASSUME ReadersTypeOK, NEW r \in Readers, NEW w \in Reading, Sets(r, w)
    PROVE  /\ reading' \in [Readers -> Reading] /\ returned' \in BOOLEAN
           /\ reading'[r] = w /\ \A q \in Readers \ {r} : reading'[q] = reading[q]
  BY DEF ReadersTypeOK, Sets

LEMMA ReadersTypeStep ==
    TypeOK /\ TypeOK' /\ ReadersTypeOK /\ [ReadersNext]_allVars => ReadersTypeOK'
  <1> SUFFICES ASSUME TypeOK, TypeOK', ReadersTypeOK, [ReadersNext]_allVars
               PROVE  ReadersTypeOK'
    OBVIOUS
  <1>0. index \in Index \cup {NoIndex} /\ gate \in Readers \cup {NoReader}
    BY DEF ReadersTypeOK
  <1>1. ASSUME NEW r \in Readers, ReadStep(r) PROVE ReadersTypeOK'
    <2>1. ASSUME NEW w \in Reading, Sets(r, w), UNCHANGED <<index, gate>>
          PROVE  ReadersTypeOK'
      BY <1>0, <2>1, SetsIsTyped DEF ReadersTypeOK
    <2>2. ASSUME NEW k \in Keys, BeginRead(r, k) PROVE ReadersTypeOK'
      BY <2>1, <2>2, BeginFacts
    <2>3. CASE ReadNotes(r)
      BY <2>1, <2>3, NotesFacts
    <2>4. CASE ResolveHead(r)
      BY <2>1, <2>4, ResolveFacts
    <2>5. CASE CachedMeanwhile(r)
      BY <2>1, <2>5, MeanwhileFacts
    <2>6. CASE BuildIndex(r)
      BY <1>0, <2>6, BuildFacts, SetsIsTyped DEF ReadersTypeOK
    <2>7. CASE BuildFails(r)
      BY <1>0, <2>7, BuildFailsFacts, SetsIsTyped DEF ReadersTypeOK
    <2>8. CASE PublishIndex(r)
      BY <2>8, PublishFacts, SetsIsTyped DEF ReadersTypeOK
    <2>9. CASE LoadCommits(r)
      BY <2>1, <2>9, LoadFacts
    <2>10. CASE ReadHeadAgain(r)
      BY <2>1, <2>10, AgainFacts
    <2>11. CASE Trust(r) \/ GiveUp(r)
      BY <2>1, <2>11, EndFacts
    <2>12. CASE Retry(r)
      BY <2>1, <2>12, RetryFacts
    <2>13. CASE WalkAll(r)
      BY <2>1, <2>13, WalkAllFacts
    <2>14. QED
      BY <1>1, <2>2, <2>3, <2>4, <2>5, <2>6, <2>7, <2>8, <2>9, <2>10, <2>11, <2>12, <2>13
      DEF ReadStep
  <1>2. CASE WriterStep
    <2>1. reading' \in [Readers -> Reading]
      <3>1. \A r \in Readers : reading'[r] \in Reading
        BY <1>2, WatchedFacts, NotReadingIsTyped DEF WriterStep
      <3>2. reading' = [r \in Readers |-> reading'[r]]
        BY <1>2 DEF WriterStep, Watched
      <3>3. QED
        BY <3>1, <3>2
    <2>2. index' \in Index \cup {NoIndex} /\ gate' \in Readers \cup {NoReader}
      BY <1>0, <1>2 DEF WriterStep
    <2>3. returned' \in BOOLEAN
      <3>1. returned' = (returned \/ ComesBack)
        BY <1>2 DEF WriterStep
      <3>2. QED
        BY <3>1, Zenon
    <2>4. QED
      BY <2>1, <2>2, <2>3 DEF ReadersTypeOK
  <1>3. CASE FreshInstance
    <2>1. \A r \in Readers : reading'[r] = NotReading
      BY <1>3 DEF FreshInstance
    <2>2. QED
      BY <1>3, <2>1, NotReadingIsTyped DEF FreshInstance, ReadersTypeOK
  <1>4. CASE UNCHANGED allVars
    BY <1>4 DEF allVars, readerVars, ReadersTypeOK
  <1>5. QED
    BY <1>1, <1>2, <1>3, <1>4 DEF ReadersNext

--------------------------------------------------------------------------------
(* Readers: what they hold                                                 *)

(* Nothing is asked of a reader that reads nothing.                        *)
LEMMA IdleIsOK ==
    ASSUME NEW v, v.step = "idle", NEW h, NEW n, NEW half, NEW ns
    PROVE  ReaderOK(v, h, n, half, ns)
  BY DEF ReaderOK, OnItsBranch, Undisturbed, PageRight, Labelled

(* What a walk over the whole branch gives, and one from the cached index. *)
LEMMA HistoryIsGood ==
    ASSUME IsBranch(head), clock \in Nat, Within(head, clock), NEW label,
           Past(head, clock, label)
    PROVE  Good(head, clock, label, History(head))
  <1>1. \A s \in History(head) : IsBranch(s) /\ Within(s, clock) /\ Known(head, s)
    BY OnBranch DEF Known
  <1>2. QED
    BY <1>1 DEF Good

LEMMA WalkedIsGood ==
    ASSUME IsBranch(head), clock \in Nat, Within(head, clock), NEW label,
           Past(head, clock, label), IndexOK(index, head, clock)
    PROVE  Good(head, clock, label, Walked(label))
  <1>1. IsBranch(label) /\ Within(label, clock)
    BY DEF Past
  <1>2. CASE Extendable(label)
    <2>1. Good(head, clock, index.head, index.order)
      BY <1>2 DEF Extendable, IndexOK
    <2>2. Walked(label) = index.order \cup (History(label) \ History(index.head))
      BY <1>2 DEF Walked, Fresh
    <2>3. ASSUME NEW s \in Walked(label)
          PROVE  IsBranch(s) /\ Within(s, clock) /\ Known(head, s)
      <3>1. CASE s \in index.order
        BY <2>1, <3>1 DEF Good
      <3>2. CASE s \in History(label)
        BY <1>1, <3>2, OnBranch DEF Past
      <3>3. QED
        BY <2>2, <2>3, <3>1, <3>2
    <2>4. ASSUME NEW s \in History(label), s \in History(head) PROVE s \in Walked(label)
      <3>1. CASE s \in History(index.head)
        BY <2>1, <2>2, <2>4, <3>1 DEF Good
      <3>2. CASE s \notin History(index.head)
        BY <2>2, <3>2
      <3>3. QED
        BY <3>1, <3>2
    <2>5. QED
      BY <2>3, <2>4 DEF Good
  <1>3. CASE ~Extendable(label)
    BY <1>3, HistoryIsGood DEF Walked
  <1>4. QED
    BY <1>2, <1>3

(* A page put together from a good order, while the branch is where the    *)
(* attempt began, lists the changes of that branch or ends in a KeyError.  *)
LEMMA LoadedIsRight ==
    ASSUME StoreInv, ~Halfway, NEW order, NEW k, Good(head, clock, head, order),
           ByKey(order, k) \subseteq objects
    PROVE  ByKey(order, k) = ByKey(History(head), k)
  <1>1. NoneDead
    BY DEF StoreInv, DeadAreGone
  <1>2. \A s \in History(head) : s \in order
    BY DEF Good
  <1>3. \A s \in ByKey(order, k) : s \in order /\ Touches(s, k)
    BY DEF ByKey
  <1>4. \A s \in ByKey(order, k) : s \in History(head)
    BY <1>1, <1>3 DEF Good, Known, NoneDead
  <1>5. QED
    BY <1>2, <1>3, <1>4 DEF ByKey

(* Whatever a reader does, it holds on to revisions the branch had, and    *)
(* the index it publishes is good for its label.                           *)
LEMMA ReaderKeptStep ==
    ASSUME StoreInv, ReadersTypeOK, NEW r \in Readers, ReadStep(r),
           IndexOK(index, head, clock), HoldsPast(reading[r], head, clock)
    PROVE  \E w \in Reading :
             /\ Sets(r, w)
             /\ HoldsPast(w, head, clock)
             /\ IndexOK(index', head, clock)
  <1>1. TypeOK /\ IsBranch(head) /\ Within(head, clock) /\ clock \in Nat
    BY DEF StoreInv, Repository, HeadIsBranch, TypeOK
  <1>2. /\ reading[r].step # "idle" => Past(head, clock, reading[r].start)
        /\ reading[r].step \in Labelled => Past(head, clock, reading[r].label)
        /\ reading[r].step \in Walks => Good(head, clock, reading[r].label, reading[r].found)
        /\ reading[r].step = "pending" => Past(head, clock, reading[r].moved)
    BY DEF HoldsPast
  <1>3. Past(head, clock, head)
    BY <1>1, PresentIsPast
  <1> DEFINE Goal == \E w \in Reading : /\ Sets(r, w) /\ HoldsPast(w, head, clock)
                                        /\ IndexOK(index', head, clock)
  <1>4. ASSUME NEW w \in Reading, Sets(r, w), UNCHANGED index,
               w.step \notin Labelled, w.step # "pending",
               w.step # "idle" => Past(head, clock, w.start)
        PROVE  Goal
    BY <1>4 DEF HoldsPast, Labelled, Walks
  <1>5. ASSUME NEW k \in Keys, BeginRead(r, k) PROVE Goal
    BY <1>1, <1>3, <1>4, <1>5, BeginFacts DEF Labelled
  <1>6. CASE Retry(r)
    BY <1>1, <1>2, <1>4, <1>6, RetryFacts DEF Labelled
  <1>7. CASE ReadNotes(r)
    BY <1>2, <1>4, <1>7, NotesFacts DEF Labelled
  <1>8. CASE ResolveHead(r)
    <2>1. PICK w \in Reading :
             /\ Sets(r, w) /\ UNCHANGED <<index, gate>>
             /\ reading[r].step = "index" /\ w.start = reading[r].start
             /\ \/ w = PutTogether(r, {})
                \/ w.step = "load"
                \/ w.step = "gate" /\ w.label = head
      BY <1>1, <1>8, ResolveFacts
    <2>2. CASE w = PutTogether(r, {}) \/ w.step = "load"
      <3>1. ASSUME w = PutTogether(r, {}) PROVE w.step = "built"
        <4>1. PICK none : none = {}
          OBVIOUS
        <4>2. w = PutTogether(r, none)
          BY <3>1, <4>1
        <4>3. QED
          BY <4>2, PageFacts
      <3>2. QED
        BY <1>2, <1>4, <2>1, <2>2, <3>1 DEF Labelled
    <2>3. CASE w.step = "gate" /\ w.label = head
      <3>1. HoldsPast(w, head, clock)
        BY <1>2, <1>3, <2>1, <2>3 DEF HoldsPast, Walks
      <3>2. QED
        BY <2>1, <3>1
    <2>4. QED
      BY <2>1, <2>2, <2>3
  <1>9. CASE CachedMeanwhile(r)
    BY <1>2, <1>4, <1>9, MeanwhileFacts DEF Labelled
  <1>10. CASE BuildIndex(r)
    <2>1. PICK w \in Reading :
             /\ Sets(r, w) /\ UNCHANGED index
             /\ reading[r].step = "gate" /\ w.step \in Walks
             /\ w.label = reading[r].label /\ w.found = Walked(reading[r].label)
             /\ w.start = reading[r].start
      BY <1>1, <1>10, BuildFacts
    <2>2. Past(head, clock, w.label)
      BY <1>2, <2>1 DEF Labelled
    <2>3. Good(head, clock, w.label, w.found)
      BY <1>1, <2>1, <2>2, WalkedIsGood
    <2>4. HoldsPast(w, head, clock)
      BY <1>2, <2>1, <2>2, <2>3 DEF HoldsPast, Walks
    <2>5. QED
      BY <2>1, <2>4
  <1>11. CASE WalkAll(r)
    <2>1. PICK w \in Reading :
             /\ Sets(r, w) /\ UNCHANGED <<index, gate>>
             /\ reading[r].step = "extend" /\ w.step = "publish"
             /\ w.label = reading[r].label /\ w.found = History(head)
             /\ w.start = reading[r].start
      BY <1>1, <1>11, WalkAllFacts
    <2>2. Past(head, clock, w.label)
      BY <1>2, <2>1 DEF Labelled
    <2>3. Good(head, clock, w.label, w.found)
      BY <1>1, <2>1, <2>2, HistoryIsGood
    <2>4. HoldsPast(w, head, clock)
      BY <1>2, <2>1, <2>2, <2>3 DEF HoldsPast
    <2>5. QED
      BY <2>1, <2>4
  <1>12. CASE BuildFails(r)
    BY <1>2, <1>4, <1>12, BuildFailsFacts DEF Labelled
  <1>13. CASE PublishIndex(r)
    <2>1. PICK w \in Reading :
             /\ Sets(r, w)
             /\ index'.head = reading[r].label /\ index'.order = reading[r].found
             /\ reading[r].step \in Walks /\ w.step = "load"
             /\ w.start = reading[r].start
      BY <1>13, PublishFacts
    <2>2. IndexOK(index', head, clock)
      BY <1>2, <2>1 DEF IndexOK
    <2>3. HoldsPast(w, head, clock)
      BY <1>2, <2>1 DEF HoldsPast, Labelled, Walks
    <2>4. QED
      BY <2>1, <2>2, <2>3
  <1>14. CASE LoadCommits(r)
    <2>1. PICK w \in Reading : w = PutTogether(r, ByKey(reading[r].found, reading[r].key))
      BY <1>14, LoadFacts
    <2>2. Sets(r, w) /\ UNCHANGED <<index, gate>> /\ reading[r].step = "load"
      BY <1>14, <2>1, LoadFacts
    <2>3. w.step = "built" /\ w.start = reading[r].start
      BY <2>1, PageFacts
    <2>4. QED
      BY <1>2, <1>4, <2>2, <2>3 DEF Labelled
  <1>15. CASE ReadHeadAgain(r)
    <2>1. PICK w \in Reading :
             /\ Sets(r, w) /\ UNCHANGED <<index, gate>>
             /\ reading[r].step = "built" /\ w.step = "pending"
             /\ w.moved = head /\ w.start = reading[r].start
      BY <1>1, <1>15, AgainFacts
    <2>2. HoldsPast(w, head, clock)
      BY <1>2, <1>3, <2>1 DEF HoldsPast, Labelled, Walks
    <2>3. QED
      BY <2>1, <2>2
  <1>16. CASE Trust(r) \/ GiveUp(r)
    BY <1>4, <1>16, EndFacts DEF Labelled
  <1>17. QED
    BY <1>5, <1>6, <1>7, <1>8, <1>9, <1>10, <1>11, <1>12, <1>13, <1>14, <1>15, <1>16
    DEF ReadStep

(* What it has put together is right if the branch has not moved.          *)
LEMMA ReaderTrustStep ==
    ASSUME StoreInv, ReadersTypeOK, NEW r \in Readers, ReadStep(r),
           IndexOK(index, head, clock), HoldsPast(reading[r], head, clock),
           ReaderOK(reading[r], head, clock, Halfway, notes)
    PROVE  \E w \in Reading :
             /\ Sets(r, w)
             /\ ReaderOK(w, head, clock, Halfway, notes)
  <1>1. TypeOK /\ IsBranch(head) /\ Within(head, clock) /\ clock \in Nat
    BY DEF StoreInv, Repository, HeadIsBranch, TypeOK
  <1>2. /\ HoldsPast(reading[r], head, clock) /\ OnItsBranch(reading[r], head, clock)
        /\ Undisturbed(reading[r], head, Halfway, notes) /\ PageRight(reading[r], head)
    BY DEF ReaderOK
  <1>3. ASSUME NEW w \in Reading, w.step = "notes",
               Past(head, clock, w.start), w.inside = FALSE => ~Pending, w.missed = TrueNotes
        PROVE  ReaderOK(w, head, clock, Halfway, notes)
    <2>1. w.inside = FALSE => ~Halfway /\ w.missed = notes
      BY <1>3 DEF Pending, Halfway, TrueNotes
    <2>2. OnItsBranch(w, head, clock)
      BY <1>3 DEF OnItsBranch, Labelled, Walks
    <2>3. Undisturbed(w, head, Halfway, notes)
      BY <1>3, <2>1 DEF Undisturbed, Labelled, Walks
    <2>4. PageRight(w, head)
      BY <1>3 DEF PageRight
    <2>5. QED
      BY <2>2, <2>3, <2>4 DEF ReaderOK
  <1>4. ASSUME NEW k \in Keys, BeginRead(r, k)
        PROVE  \E w \in Reading : Sets(r, w) /\ ReaderOK(w, head, clock, Halfway, notes)
    BY <1>1, <1>3, <1>4, BeginFacts, PresentIsPast
  <1>5. ASSUME Retry(r)
        PROVE  \E w \in Reading : Sets(r, w) /\ ReaderOK(w, head, clock, Halfway, notes)
    <2>1. Past(head, clock, reading[r].moved)
      BY <1>2, <1>5 DEF Retry, Reads, HoldsPast
    <2>2. QED
      BY <1>1, <1>3, <1>5, <2>1, RetryFacts
  <1>6. ASSUME ReadNotes(r)
        PROVE  \E w \in Reading : Sets(r, w) /\ ReaderOK(w, head, clock, Halfway, notes)
    <2>1. PICK w \in Reading :
             /\ Sets(r, w) /\ UNCHANGED <<index, gate>>
             /\ reading[r].step = "notes" /\ w.step = "index"
             /\ w.start = reading[r].start /\ w.inside = reading[r].inside
             /\ w.missed = reading[r].missed \ notes
      BY <1>6, NotesFacts
    <2>2. OnItsBranch(w, head, clock) /\ PageRight(w, head)
      BY <1>2, <2>1 DEF OnItsBranch, PageRight, Labelled, Walks
    <2>3. Undisturbed(w, head, Halfway, notes)
      BY <1>2, <2>1 DEF Undisturbed, Labelled, Walks
    <2>4. QED
      BY <2>1, <2>2, <2>3 DEF ReaderOK
  <1>7. ASSUME ResolveHead(r)
        PROVE  \E w \in Reading : Sets(r, w) /\ ReaderOK(w, head, clock, Halfway, notes)
    <2>1. PICK w \in Reading :
             /\ Sets(r, w) /\ UNCHANGED <<index, gate>>
             /\ reading[r].step = "index"
             /\ w.start = reading[r].start /\ w.inside = reading[r].inside
             /\ \/ head = {} /\ w = PutTogether(r, {})
                \/ /\ head # {} /\ CachedFor(head) /\ w.step = "load"
                   /\ w.found = index.order
                   /\ w.missed = reading[r].missed /\ w.raises = reading[r].raises
                \/ /\ head # {} /\ w.step = "gate" /\ w.label = head
                   /\ w.missed = reading[r].missed /\ w.raises = reading[r].raises
      BY <1>1, <1>7, ResolveFacts
    <2>2. CASE head = {} /\ w = PutTogether(r, {})
      <3>1. /\ w.step = "built" /\ w.missed = {}
            /\ (\A n \in reading[r].missed : n.rev \notin {}) => w.whole = TRUE
            /\ {} = ByKey(History(reading[r].start), reading[r].key) => w.current = TRUE
        <4>1. {} \subseteq objects
          OBVIOUS
        <4>2. QED
          BY <2>2, <4>1, PageFacts
      <3>2. ByKey(History(head), reading[r].key) = {}
        BY <2>2 DEF ByKey, History
      <3>3. w.start = head => Right(w)
        BY <2>1, <3>1, <3>2 DEF Right
      <3>4. OnItsBranch(w, head, clock) /\ PageRight(w, head)
        BY <1>2, <2>1, <3>1, <3>3 DEF OnItsBranch, PageRight, Labelled, Walks
      <3>5. Undisturbed(w, head, Halfway, notes)
        BY <1>2, <2>1, <3>1 DEF Undisturbed, Labelled, Walks
      <3>6. QED
        BY <2>1, <3>4, <3>5 DEF ReaderOK
    <2>3. CASE w.step = "load" /\ CachedFor(head) /\ w.found = index.order
               /\ w.missed = reading[r].missed
      <3>1. Good(head, clock, head, w.found)
        BY <2>3 DEF CachedFor, IndexOK
      <3>2. OnItsBranch(w, head, clock) /\ PageRight(w, head)
        BY <1>2, <2>1, <2>3, <3>1 DEF OnItsBranch, PageRight, Labelled, Walks
      <3>3. Undisturbed(w, head, Halfway, notes)
        BY <1>2, <2>1, <2>3 DEF Undisturbed, Labelled, Walks
      <3>4. QED
        BY <2>1, <3>2, <3>3 DEF ReaderOK
    <2>4. CASE w.step = "gate" /\ w.label = head /\ w.missed = reading[r].missed
      <3>1. Past(head, clock, head)
        BY <1>1, PresentIsPast
      <3>2. OnItsBranch(w, head, clock) /\ PageRight(w, head)
        BY <1>2, <2>1, <2>4, <3>1 DEF OnItsBranch, PageRight, Labelled, Walks
      <3>3. Undisturbed(w, head, Halfway, notes)
        BY <1>2, <2>1, <2>4 DEF Undisturbed, Labelled, Walks
      <3>4. QED
        BY <2>1, <3>2, <3>3 DEF ReaderOK
    <2>5. QED
      BY <2>1, <2>2, <2>3, <2>4
  <1>8. ASSUME CachedMeanwhile(r)
        PROVE  \E w \in Reading : Sets(r, w) /\ ReaderOK(w, head, clock, Halfway, notes)
    <2>1. PICK w \in Reading :
             /\ Sets(r, w) /\ UNCHANGED <<index, gate>>
             /\ reading[r].step = "gate" /\ w.step = "load"
             /\ CachedFor(reading[r].label) /\ w.found = index.order
             /\ w.start = reading[r].start /\ w.inside = reading[r].inside
             /\ w.missed = reading[r].missed
      BY <1>8, MeanwhileFacts
    <2>2. Good(head, clock, reading[r].label, w.found)
      BY <2>1 DEF CachedFor, IndexOK
    <2>3. w.start = head => reading[r].label = head
      BY <1>2, <2>1 DEF OnItsBranch, Labelled
    <2>4. OnItsBranch(w, head, clock) /\ PageRight(w, head)
      BY <1>2, <2>1, <2>2, <2>3 DEF OnItsBranch, PageRight, Labelled, Walks
    <2>5. Undisturbed(w, head, Halfway, notes)
      BY <1>2, <2>1 DEF Undisturbed, Labelled, Walks
    <2>6. QED
      BY <2>1, <2>4, <2>5 DEF ReaderOK
  <1>9. ASSUME BuildIndex(r)
        PROVE  \E w \in Reading : Sets(r, w) /\ ReaderOK(w, head, clock, Halfway, notes)
    <2>1. PICK w \in Reading :
             /\ Sets(r, w) /\ UNCHANGED index
             /\ reading[r].step = "gate" /\ w.step \in Walks
             /\ w.label = reading[r].label /\ w.found = Walked(reading[r].label)
             /\ w.start = reading[r].start /\ w.inside = reading[r].inside
             /\ w.missed = reading[r].missed
      BY <1>1, <1>9, BuildFacts
    <2>2. OnItsBranch(w, head, clock) /\ PageRight(w, head)
      BY <1>2, <2>1 DEF OnItsBranch, PageRight, Labelled, Walks
    <2>3. Undisturbed(w, head, Halfway, notes)
      BY <1>2, <2>1 DEF Undisturbed, Labelled, Walks
    <2>4. QED
      BY <2>1, <2>2, <2>3 DEF ReaderOK
  <1>10. ASSUME BuildFails(r)
         PROVE  \E w \in Reading : Sets(r, w) /\ ReaderOK(w, head, clock, Halfway, notes)
    <2>1. PICK w \in Reading :
             /\ Sets(r, w)
             /\ reading[r].step \in Labelled
             /\ w.step = "built" /\ w.raises = TRUE
             /\ w.start = reading[r].start /\ w.inside = reading[r].inside
      BY <1>10, BuildFailsFacts
    <2>2. OnItsBranch(w, head, clock)
      BY <1>2, <2>1 DEF OnItsBranch, Labelled, Walks
    <2>3. PageRight(w, head)
      BY <2>1 DEF PageRight, Right
    <2>4. Undisturbed(w, head, Halfway, notes)
      BY <1>2, <2>1 DEF Undisturbed, Labelled, Walks
    <2>5. QED
      BY <2>1, <2>2, <2>3, <2>4 DEF ReaderOK
  <1>11. ASSUME PublishIndex(r)
         PROVE  \E w \in Reading : Sets(r, w) /\ ReaderOK(w, head, clock, Halfway, notes)
    <2>1. PICK w \in Reading :
             /\ Sets(r, w)
             /\ index'.head = reading[r].label /\ index'.order = reading[r].found
             /\ reading[r].step \in Walks /\ w.step = "load"
             /\ w.found = reading[r].found
             /\ w.start = reading[r].start /\ w.inside = reading[r].inside
             /\ w.missed = reading[r].missed
      BY <1>11, PublishFacts
    <2>2. Good(head, clock, reading[r].label, w.found)
      BY <1>2, <2>1 DEF HoldsPast
    <2>3. w.start = head => reading[r].label = head
      BY <1>2, <2>1 DEF OnItsBranch, Labelled, Walks
    <2>4. OnItsBranch(w, head, clock) /\ PageRight(w, head)
      BY <1>2, <2>1, <2>2, <2>3 DEF OnItsBranch, PageRight, Labelled, Walks
    <2>5. Undisturbed(w, head, Halfway, notes)
      BY <1>2, <2>1 DEF Undisturbed, Labelled, Walks
    <2>6. QED
      BY <2>1, <2>4, <2>5 DEF ReaderOK
  <1>12. ASSUME LoadCommits(r)
         PROVE  \E w \in Reading : Sets(r, w) /\ ReaderOK(w, head, clock, Halfway, notes)
    <2> DEFINE found == ByKey(reading[r].found, reading[r].key)
    <2>1. PICK w \in Reading : w = PutTogether(r, found)
      BY <1>12, LoadFacts
    <2>2. Sets(r, w) /\ UNCHANGED <<index, gate>> /\ reading[r].step = "load"
      BY <1>12, <2>1, LoadFacts
    <2>3. /\ w.step = "built" /\ w.start = reading[r].start /\ w.inside = reading[r].inside
          /\ w.missed = {}
          /\ (~(found \subseteq objects) => w.raises = TRUE)
          /\ (found \subseteq objects =>
                /\ (\A n \in reading[r].missed : n.rev \notin found) => w.whole = TRUE
                /\ found = ByKey(History(reading[r].start), reading[r].key)
                     => w.current = TRUE)
      BY <2>1, PageFacts
    <2>4. ASSUME w.start = head, w.inside = FALSE PROVE Right(w)
      <3>1. Good(head, clock, head, reading[r].found) /\ ~Halfway /\ reading[r].missed = {}
        BY <1>2, <2>2, <2>3, <2>4 DEF OnItsBranch, Undisturbed
      <3>2. CASE found \subseteq objects
        <4>1. found = ByKey(History(reading[r].start), reading[r].key)
          BY <2>3, <2>4, <3>1, <3>2, LoadedIsRight
        <4>2. QED
          BY <2>3, <3>1, <3>2, <4>1 DEF Right
      <3>3. CASE ~(found \subseteq objects)
        BY <2>3, <3>3 DEF Right
      <3>4. QED
        BY <3>2, <3>3
    <2>5. OnItsBranch(w, head, clock) /\ PageRight(w, head)
      BY <1>2, <2>2, <2>3, <2>4 DEF OnItsBranch, PageRight, Labelled, Walks
    <2>6. Undisturbed(w, head, Halfway, notes)
      BY <1>2, <2>2, <2>3 DEF Undisturbed, Labelled, Walks
    <2>7. QED
      BY <2>2, <2>5, <2>6 DEF ReaderOK
  <1>13. ASSUME ReadHeadAgain(r)
         PROVE  \E w \in Reading : Sets(r, w) /\ ReaderOK(w, head, clock, Halfway, notes)
    <2>1. PICK w \in Reading :
             /\ Sets(r, w) /\ UNCHANGED <<index, gate>>
             /\ reading[r].step = "built" /\ w.step = "pending"
             /\ w.moved = head
             /\ w.start = reading[r].start /\ w.inside = reading[r].inside
             /\ w.raises = reading[r].raises /\ w.whole = reading[r].whole
             /\ w.current = reading[r].current
      BY <1>1, <1>13, AgainFacts
    <2>2. Past(head, clock, w.moved)
      BY <1>1, <2>1, PresentIsPast
    <2>3. Right(reading[r]) => Right(w)
      BY <2>1 DEF Right
    <2>4. OnItsBranch(w, head, clock) /\ PageRight(w, head)
      BY <1>2, <2>1, <2>2, <2>3 DEF OnItsBranch, PageRight, Labelled, Walks
    <2>5. Undisturbed(w, head, Halfway, notes)
      BY <1>2, <2>1 DEF Undisturbed, Labelled, Walks
    <2>6. QED
      BY <2>1, <2>4, <2>5 DEF ReaderOK
  <1>14. ASSUME Trust(r) \/ GiveUp(r)
         PROVE  \E w \in Reading : Sets(r, w) /\ ReaderOK(w, head, clock, Halfway, notes)
    <2>1. /\ Sets(r, NotReading) /\ UNCHANGED <<index, gate>>
          /\ NotReading \in Reading /\ NotReading.step = "idle"
      BY <1>14, EndFacts
    <2>2. ReaderOK(NotReading, head, clock, Halfway, notes)
      BY <2>1, IdleIsOK
    <2>3. QED
      BY <2>1, <2>2
  <1>15. ASSUME WalkAll(r)
         PROVE  \E w \in Reading : Sets(r, w) /\ ReaderOK(w, head, clock, Halfway, notes)
    <2>1. PICK w \in Reading :
             /\ Sets(r, w)
             /\ reading[r].step = "extend" /\ w.step = "publish"
             /\ w.label = reading[r].label
             /\ w.start = reading[r].start /\ w.inside = reading[r].inside
             /\ w.missed = reading[r].missed
      BY <1>1, <1>15, WalkAllFacts
    <2>2. OnItsBranch(w, head, clock) /\ PageRight(w, head)
      BY <1>2, <2>1 DEF OnItsBranch, PageRight, Labelled
    <2>3. Undisturbed(w, head, Halfway, notes)
      BY <1>2, <2>1 DEF Undisturbed, Labelled
    <2>4. QED
      BY <2>1, <2>2, <2>3 DEF ReaderOK
  <1>16. QED
    BY <1>4, <1>5, <1>6, <1>7, <1>8, <1>9, <1>10, <1>11, <1>12, <1>13, <1>14, <1>15 DEF ReadStep

--------------------------------------------------------------------------------
(* The store under the readers                                             *)

(* A step of a reader is none of the store; any other is one, or leaves    *)
(* the store alone.                                                        *)
LEMMA ReadersNextIsNext ==
    /\ [ReadersNext]_allVars => [Next]_vars
    /\ WriterStep => Next
    /\ FreshInstance => Next
    /\ \A r \in Readers : ReadStep(r) => UNCHANGED vars
  <1>1. ASSUME NEW r \in Readers, ReadStep(r) PROVE UNCHANGED vars
    BY <1>1 DEF ReadStep, BeginRead, ReadNotes, ResolveHead, CachedMeanwhile, BuildIndex,
                WalkAll, BuildFails, PublishIndex, LoadCommits, ReadHeadAgain, Trust, Retry, GiveUp
  <1>2. WriterStep => Next
    BY DEF WriterStep, DropsIndex, Next, Forget
  <1>3. FreshInstance => Next
    BY DEF FreshInstance, Next
  <1>4. UNCHANGED allVars => UNCHANGED vars
    BY DEF allVars
  <1>5. QED
    BY <1>1, <1>2, <1>3, <1>4 DEF ReadersNext

(* The branch is not back where it stood, unless it lost its last commits. *)
LEMMA NoReturn ==
    ASSUME StoreInv, [Next]_vars, ~ComesBack, Past(head, clock, head')
    PROVE  head' = head
  <1>1. /\ IsBranch(head) /\ Within(head, clock) /\ clock \in Nat
        /\ Moves(head, clock, head', clock')
    BY BranchMoves
  <1>2. PICK h2, n2 : h2 = head' /\ n2 = clock'
    OBVIOUS
  <1>3. h2 # head => h2 \in History(head) \cup {{}}
    BY <1>1, <1>2, NoOtherWayBack
  <1>4. QED
    BY <1>2, <1>3 DEF ComesBack

(* While the branch stands still no forget gets half way, and no note that *)
(* is to stay goes.                                                        *)
LEMMA NotesStay ==
    ASSUME StoreInv, [Next]_vars, head' = head, ~Halfway
    PROVE  ~Halfway' /\ notes \cap TrueNotes' \subseteq notes'
  <1>1. ~Halfway'
    <2>1. ASSUME NEW p \in Procs, WriteCheckpoint(p) PROVE ~Halfway'
      BY <2>1 DEF WriteCheckpoint, StoreInv, PlansLead, Halfway
    <2>2. ASSUME NEW p \in Procs, UnlinkCheckpoint(p) PROVE ~Halfway'
      BY <2>2 DEF UnlinkCheckpoint, Halfway
    <2>3. UNCHANGED checkpoint => ~Halfway'
      BY DEF Halfway
    <2>4. QED
      BY <2>1, <2>2, <2>3, WhoChanges
  <1>2. ASSUME NEW p \in Procs, ClearNotes(p) \/ AddNote(p) PROVE FALSE
    <2>1. job[p].step \in AfterHead /\ job[p].step \in ForgetSteps \ {"checkpoint"}
      BY <1>2 DEF ClearNotes, AddNote, At, AfterHead, ForgetSteps
    <2>2. head = job[p].plan.head
      BY <2>1 DEF StoreInv, Repository, Progress, Done
    <2>3. checkpoint # NoPlan /\ checkpoint = job[p].plan
      BY <2>1, AtWork DEF StoreInv
    <2>4. QED
      BY <2>2, <2>3 DEF Halfway
  <1>3. ASSUME Annotate PROVE TrueNotes' = notes'
    <2>1. checkpoint' = NoPlan
      BY <1>3 DEF Annotate, Describe, Undescribe, CreateVersion, RetitleVersion,
                  RemoveVersion, Admitted
    <2>2. QED
      BY <2>1 DEF TrueNotes, Pending
  <1>4. QED
    BY <1>1, <1>2, <1>3, WhoChanges

(* The counter never goes back to none.                                    *)
LEMMA GenerationStays ==
    ASSUME StoreInv, [Next]_vars, generation' = 0
    PROVE  generation = 0
  <1>1. ASSUME NEW p \in Procs, WriteGeneration(p) PROVE FALSE
    <2>1. checkpoint # NoPlan /\ checkpoint = job[p].plan
      BY <1>1, AtWork DEF WriteGeneration, At, ForgetSteps, StoreInv
    <2>2. checkpoint.target > 0
      BY <2>1 DEF StoreInv, PlansLead, Leads
    <2>3. QED
      BY <1>1, <2>1, <2>2 DEF WriteGeneration
  <1>2. QED
    BY <1>1, WhoChanges

(* A reader's record, but for the notes it has missed.                     *)
SameBut(v, w) ==
    /\ w.step = v.step /\ w.start = v.start /\ w.label = v.label /\ w.found = v.found
    /\ w.moved = v.moved /\ w.inside = v.inside /\ w.raises = v.raises
    /\ w.whole = v.whole /\ w.current = v.current

(* What a reader holds on to, when the store moves on under it.            *)
LEMMA HeldStays ==
    ASSUME NEW h, IsBranch(h), NEW n \in Nat, Within(h, n), NEW h2, IsBranch(h2),
           NEW n2 \in Nat, Within(h2, n2), Moves(h, n, h2, n2),
           h2 # h => ~Past(h, n, h2),
           NEW half, NEW half2, NEW ns, NEW ns2,
           h2 = h /\ ~half => ~half2,
           NEW v, HoldsPast(v, h, n), ReaderOK(v, h, n, half, ns), v.step # "idle",
           NEW w, SameBut(v, w), w.missed \subseteq v.missed,
           h2 = h /\ ~half /\ v.missed \subseteq ns => w.missed \subseteq ns2
    PROVE  ReaderOK(w, h2, n2, half2, ns2)
  <1>1. /\ w.step = v.step /\ w.start = v.start /\ w.label = v.label /\ w.found = v.found
        /\ w.moved = v.moved /\ w.inside = v.inside /\ w.raises = v.raises
        /\ w.whole = v.whole /\ w.current = v.current
    BY DEF SameBut
  <1>2. /\ OnItsBranch(v, h, n)
        /\ Undisturbed(v, h, half, ns) /\ PageRight(v, h)
    BY DEF ReaderOK
  <1>3. w.start = h2 => h2 = h
    BY <1>1 DEF HoldsPast
  <1>4. OnItsBranch(w, h2, n2)
    BY <1>1, <1>2, <1>3, GoodStays DEF OnItsBranch
  <1>5. Undisturbed(w, h2, half2, ns2)
    BY <1>1, <1>2, <1>3 DEF Undisturbed
  <1>6. PageRight(w, h2)
    <2>1. Right(v) => Right(w)
      BY <1>1 DEF Right
    <2>2. QED
      BY <1>1, <1>2, <1>3, <2>1 DEF PageRight
  <1>7. QED
    BY <1>4, <1>5, <1>6 DEF ReaderOK

(* What they hold on to they do, also when the branch comes back.          *)
LEMMA PastIsHeld ==
    ASSUME NEW h, IsBranch(h), NEW n \in Nat, Within(h, n), NEW h2, IsBranch(h2),
           NEW n2 \in Nat, Within(h2, n2), Moves(h, n, h2, n2),
           NEW v, HoldsPast(v, h, n), NEW w, SameBut(v, w)
    PROVE  HoldsPast(w, h2, n2)
  <1>1. w.step = v.step /\ w.start = v.start /\ w.label = v.label
        /\ w.found = v.found /\ w.moved = v.moved
    BY DEF SameBut
  <1>2. QED
    BY <1>1, PastStays, GoodStays DEF HoldsPast

(* A reader's record after a step of the store.                            *)
LEMMA WatchedIsSame ==
    ASSUME TypeOK', ReadersTypeOK, reading' = Watched, NEW r \in Readers
    PROVE  \/ reading'[r] = NotReading
           \/ /\ SameBut(reading[r], reading'[r])
              /\ reading'[r].missed = reading[r].missed \cap TrueNotes'
              /\ reading[r].step # "idle"
  <1>1. CASE reading'[r] = NotReading
    BY <1>1
  <1>2. CASE reading'[r] # NotReading
    <2>1. PICK keep : keep = reading'[r].missed
      OBVIOUS
    <2>2. /\ reading'[r] = [reading[r] EXCEPT !.missed = keep]
          /\ keep = reading[r].missed \cap TrueNotes'
          /\ reading[r].step # "idle" /\ reading[r] \in Reading
      BY <1>2, <2>1, WatchedFacts DEF ReadersTypeOK
    <2>3. SameBut(reading[r], reading'[r])
      BY <2>2 DEF SameBut, Reading
    <2>4. QED
      BY <2>1, <2>2, <2>3
  <1>3. QED
    BY <1>1, <1>2

(* Every step keeps what readers and cache hold on to.                     *)
LEMMA KeptStep ==
    StoreInv /\ ReadersTypeOK /\ KeptInv /\ [ReadersNext]_allVars => KeptInv'
  <1> SUFFICES ASSUME StoreInv, ReadersTypeOK, KeptInv, [ReadersNext]_allVars
               PROVE  /\ IndexOK(index', head', clock')
                      /\ \A r \in Readers : HoldsPast(reading'[r], head', clock')
    BY DEF KeptInv
  <1>0. StoreInv' /\ [Next]_vars
    BY ReadersNextIsNext, StoreStep
  <1>1. /\ IndexOK(index, head, clock)
        /\ \A r \in Readers : HoldsPast(reading[r], head, clock)
    BY DEF KeptInv
  <1>2. ASSUME NEW r \in Readers, ReadStep(r)
        PROVE  /\ IndexOK(index', head', clock')
               /\ \A q \in Readers : HoldsPast(reading'[q], head', clock')
    <2>1. head' = head /\ clock' = clock
      BY <1>2, ReadersNextIsNext DEF vars
    <2>2. PICK w \in Reading : /\ Sets(r, w) /\ HoldsPast(w, head, clock)
                               /\ IndexOK(index', head, clock)
      BY <1>1, <1>2, ReaderKeptStep
    <2>3. \A q \in Readers : HoldsPast(reading'[q], head, clock)
      BY <1>1, <2>2, SetsIsTyped
    <2>4. QED
      BY <2>1, <2>2, <2>3
  <1>3. PICK h2, n2 : h2 = head' /\ n2 = clock'
    OBVIOUS
  <1>4. NotReading.step = "idle" /\ HoldsPast(NotReading, h2, n2)
    BY DEF NotReading, HoldsPast, Labelled, Walks
  <1>5. CASE WriterStep
    <2>1. reading' = Watched /\ (index' = index \/ index' = NoIndex)
      BY <1>5 DEF WriterStep
    <2>2. /\ Moves(head, clock, h2, n2)
          /\ IsBranch(head) /\ Within(head, clock) /\ clock \in Nat
          /\ IsBranch(h2) /\ Within(h2, n2) /\ n2 \in Nat
      BY <1>0, <1>3, BranchMoves
    <2>3. IndexOK(index', h2, n2)
      BY <1>1, <2>1, <2>2, GoodStays DEF IndexOK
    <2>4. ASSUME NEW r \in Readers PROVE HoldsPast(reading'[r], h2, n2)
      <3>1. reading'[r] = NotReading \/ SameBut(reading[r], reading'[r])
        BY <1>0, <2>1, WatchedIsSame DEF StoreInv
      <3>2. QED
        BY <1>1, <1>4, <2>2, <3>1, PastIsHeld
    <2>5. QED
      BY <1>3, <2>3, <2>4
  <1>6. CASE FreshInstance
    <2>1. index' = NoIndex /\ \A r \in Readers : reading'[r] = NotReading
      BY <1>6 DEF FreshInstance
    <2>2. QED
      BY <1>3, <1>4, <2>1 DEF IndexOK
  <1>7. CASE UNCHANGED allVars
    <2>1. UNCHANGED <<head, clock, index, reading>>
      BY <1>7 DEF allVars, vars, readerVars
    <2>2. QED
      BY <1>1, <2>1
  <1>8. QED
    BY <1>2, <1>5, <1>6, <1>7 DEF ReadersNext

(* Unless the branch comes back, what they put together stays right.       *)
LEMMA TrustStep ==
    StoreInv /\ ReadersTypeOK /\ KeptInv /\ TrustInv /\ [ReadersNext]_allVars => TrustInv'
  <1> SUFFICES ASSUME StoreInv, ReadersTypeOK, KeptInv, TrustInv, [ReadersNext]_allVars,
                      ~returned'
               PROVE  \A r \in Readers :
                          ReaderOK(reading'[r], head', clock', Halfway', notes')
    BY DEF TrustInv
  <1>0. StoreInv' /\ [Next]_vars
    BY ReadersNextIsNext, StoreStep
  <1>1. ASSUME NEW r \in Readers, ReadStep(r)
        PROVE  \A q \in Readers : ReaderOK(reading'[q], head', clock', Halfway', notes')
    <2>1. UNCHANGED vars
      BY <1>1, ReadersNextIsNext
    <2>2. /\ head' = head /\ clock' = clock /\ notes' = notes
          /\ Halfway' <=> Halfway
      BY <2>1 DEF vars, Halfway
    <2>3. UNCHANGED returned
      BY <1>1 DEF ReadStep, BeginRead, ReadNotes, ResolveHead, CachedMeanwhile, BuildIndex,
                  WalkAll, BuildFails, PublishIndex, LoadCommits, ReadHeadAgain, Trust, Retry, GiveUp
    <2>4. \A q \in Readers : ReaderOK(reading[q], head, clock, Halfway, notes)
      BY <2>3 DEF TrustInv
    <2>5. PICK w \in Reading : Sets(r, w) /\ ReaderOK(w, head, clock, Halfway, notes)
      BY <1>1, <2>4, ReaderTrustStep DEF KeptInv
    <2>6. \A q \in Readers : ReaderOK(reading'[q], head, clock, Halfway, notes)
      BY <2>4, <2>5, SetsIsTyped
    <2>7. PICK half : half = Halfway'
      OBVIOUS
    <2>8. \A q \in Readers : ReaderOK(reading'[q], head, clock, half, notes)
      BY <2>2, <2>6, <2>7 DEF ReaderOK, Undisturbed
    <2>9. QED
      BY <2>2, <2>7, <2>8
  <1>2. CASE WriterStep
    <2>1. ~returned /\ ~ComesBack /\ reading' = Watched
      BY <1>2 DEF WriterStep
    <2>2. /\ Moves(head, clock, head', clock')
          /\ IsBranch(head) /\ Within(head, clock) /\ clock \in Nat
          /\ IsBranch(head') /\ Within(head', clock') /\ clock' \in Nat
      BY <1>0, BranchMoves
    <2>3. head' # head => ~Past(head, clock, head')
      BY <1>0, <2>1, NoReturn
    <2>4. head' = head /\ ~Halfway => ~Halfway' /\ notes \cap TrueNotes' \subseteq notes'
      BY <1>0, NotesStay
    <2>5. ASSUME NEW r \in Readers
          PROVE  ReaderOK(reading'[r], head', clock', Halfway', notes')
      <3>1. PICK w : w = reading'[r]
        OBVIOUS
      <3>2. PICK h2, n2, half2, ns2, true2 : /\ h2 = head' /\ n2 = clock' /\ half2 = Halfway'
                                             /\ ns2 = notes' /\ true2 = TrueNotes'
        OBVIOUS
      <3>3. CASE w = NotReading
        <4>1. ReaderOK(w, h2, n2, half2, ns2)
          BY <3>3, IdleIsOK DEF NotReading
        <4>2. QED
          BY <3>1, <3>2, <4>1
      <3>4. CASE SameBut(reading[r], w) /\ w.missed = reading[r].missed \cap true2
                 /\ reading[r].step # "idle"
        <4>1. HoldsPast(reading[r], head, clock) /\ ReaderOK(reading[r], head, clock, Halfway, notes)
          BY <2>1 DEF TrustInv, KeptInv
        <4>2. h2 = head /\ ~Halfway => ~half2 /\ notes \cap true2 \subseteq ns2
          BY <2>4, <3>2
        <4>3. /\ w.missed \subseteq reading[r].missed
              /\ h2 = head /\ ~Halfway => ~half2
              /\ h2 = head /\ ~Halfway /\ reading[r].missed \subseteq notes => w.missed \subseteq ns2
          BY <3>4, <4>2
        <4>4. /\ IsBranch(h2) /\ n2 \in Nat /\ Within(h2, n2) /\ Moves(head, clock, h2, n2)
              /\ h2 # head => ~Past(head, clock, h2)
          BY <2>2, <2>3, <3>2
        <4>5. ReaderOK(w, h2, n2, half2, ns2)
          BY <2>2, <3>4, <4>1, <4>3, <4>4, HeldStays
        <4>6. QED
          BY <3>1, <3>2, <4>5
      <3>5. QED
        BY <1>0, <2>1, <3>1, <3>2, <3>3, <3>4, WatchedIsSame DEF StoreInv
    <2>6. QED
      BY <2>5
  <1>3. CASE FreshInstance
    <2>1. \A r \in Readers : reading'[r] = NotReading
      BY <1>3 DEF FreshInstance
    <2>2. PICK h2, n2, half2, ns2 : /\ h2 = head' /\ n2 = clock' /\ half2 = Halfway'
                                    /\ ns2 = notes'
      OBVIOUS
    <2>3. ReaderOK(NotReading, h2, n2, half2, ns2)
      BY IdleIsOK DEF NotReading
    <2>4. QED
      BY <2>1, <2>2, <2>3
  <1>4. CASE UNCHANGED allVars
    <2>1. UNCHANGED <<head, clock, notes, checkpoint, reading, returned>>
      BY <1>4 DEF allVars, vars, readerVars
    <2>2. TrustInv' <=> TrustInv
      BY <2>1 DEF TrustInv, ReaderOK, OnItsBranch, Undisturbed, PageRight,
                  Halfway, Good, Past, Known, Dead, Lost
    <2>3. QED
      BY <2>2 DEF TrustInv
  <1>5. QED
    BY <1>1, <1>2, <1>3, <1>4 DEF ReadersNext

--------------------------------------------------------------------------------
(* Before the first forget                                                 *)

(* What a reader reads is on the branch, and on the branch nothing is      *)
(* missing.                                                                *)
LEMMA ReaderEarlyStep ==
    ASSUME StoreInv, ReadersTypeOK, NEW r \in Readers, ReadStep(r),
           index # NoIndex => index.order \subseteq History(head),
           EarlyReader(reading[r], head)
    PROVE  \E w \in Reading :
             /\ Sets(r, w)
             /\ EarlyReader(w, head)
             /\ index' # NoIndex => index'.order \subseteq History(head)
  <1>1. /\ TypeOK /\ IsBranch(head) /\ Within(head, clock) /\ clock \in Nat
        /\ History(head) \subseteq objects
    BY DEF StoreInv, Repository, HeadIsBranch, TypeOK, NothingMissing, Reachable
  <1>2. /\ reading[r].step \in Labelled => reading[r].label \in History(head)
        /\ reading[r].step \in {"load"} \cup Walks => reading[r].found \subseteq History(head)
        /\ reading[r].raises = FALSE
    BY DEF EarlyReader, Labelled, Walks
  <1> DEFINE Goal == \E w \in Reading :
                       /\ Sets(r, w) /\ EarlyReader(w, head)
                       /\ index' # NoIndex => index'.order \subseteq History(head)
  <1>3. ASSUME NEW w \in Reading, Sets(r, w), UNCHANGED index,
               w.step \notin {"load"} \cup Labelled, w.raises = FALSE
        PROVE  Goal
    BY <1>3 DEF EarlyReader, Labelled, Walks
  <1>4. ASSUME NEW k \in Keys, BeginRead(r, k) PROVE Goal
    BY <1>1, <1>3, <1>4, BeginFacts DEF Labelled
  <1>5. CASE Retry(r)
    BY <1>1, <1>3, <1>5, RetryFacts DEF Labelled
  <1>6. CASE ReadNotes(r)
    BY <1>2, <1>3, <1>6, NotesFacts DEF Labelled
  <1>7. CASE ResolveHead(r)
    <2>1. PICK w \in Reading :
             /\ Sets(r, w) /\ UNCHANGED <<index, gate>>
             /\ \/ head = {} /\ w = PutTogether(r, {})
                \/ /\ head # {} /\ CachedFor(head) /\ w.step = "load"
                   /\ w.found = index.order /\ w.raises = reading[r].raises
                \/ /\ head # {} /\ w.step = "gate" /\ w.label = head
                   /\ w.raises = reading[r].raises
      BY <1>1, <1>7, ResolveFacts
    <2>2. CASE w = PutTogether(r, {})
      <3>1. {} \subseteq objects
        OBVIOUS
      <3>2. w.step = "built" /\ w.raises = FALSE
        BY <1>2, <2>2, <3>1, PageFacts
      <3>3. QED
        BY <1>3, <2>1, <3>2 DEF Labelled
    <2>3. CASE CachedFor(head) /\ w.step = "load" /\ w.found = index.order
               /\ w.raises = reading[r].raises
      <3>1. EarlyReader(w, head)
        BY <1>2, <2>3 DEF EarlyReader, CachedFor, Labelled, Walks
      <3>2. QED
        BY <2>1, <3>1
    <2>4. CASE head # {} /\ w.step = "gate" /\ w.label = head /\ w.raises = reading[r].raises
      <3>1. head \in History(head)
        BY <1>1, <2>4, BranchIsRevision
      <3>2. EarlyReader(w, head)
        BY <1>2, <2>4, <3>1 DEF EarlyReader, Labelled, Walks
      <3>3. QED
        BY <2>1, <3>2
    <2>5. QED
      BY <2>1, <2>2, <2>3, <2>4
  <1>8. CASE CachedMeanwhile(r)
    <2>1. PICK w \in Reading :
             /\ Sets(r, w) /\ UNCHANGED <<index, gate>>
             /\ w.step = "load" /\ CachedFor(reading[r].label) /\ w.found = index.order
             /\ w.raises = reading[r].raises
      BY <1>8, MeanwhileFacts
    <2>2. EarlyReader(w, head)
      BY <1>2, <2>1 DEF EarlyReader, CachedFor, Labelled, Walks
    <2>3. QED
      BY <2>1, <2>2
  <1>9. CASE BuildIndex(r)
    <2>1. PICK w \in Reading :
             /\ Sets(r, w) /\ UNCHANGED index
             /\ reading[r].step = "gate" /\ w.step \in Walks
             /\ w.label = reading[r].label /\ w.found = Walked(reading[r].label)
             /\ w.raises = reading[r].raises
      BY <1>1, <1>9, BuildFacts
    <2>2. reading[r].label \in History(head)
      BY <1>2, <2>1 DEF Labelled
    <2>3. History(reading[r].label) \subseteq History(head)
      BY <1>1, <2>2, RevisionIsBranch
    <2>4. Walked(reading[r].label) \subseteq History(head)
      BY <2>3 DEF Walked, Extendable, Fresh
    <2>5. EarlyReader(w, head)
      BY <1>2, <2>1, <2>2, <2>4 DEF EarlyReader, Labelled, Walks
    <2>6. QED
      BY <2>1, <2>5
  <1>10. CASE BuildFails(r)
    <2>1. /\ reading[r].step \in Labelled
          /\ \/ head = {}
             \/ reading[r].step = "publish" /\ ~(reading[r].found \subseteq objects)
      BY <1>10, BuildFailsFacts
    <2>2. head # {}
      BY <1>2, <2>1 DEF History
    <2>3. QED
      BY <1>1, <1>2, <2>1, <2>2 DEF Walks
  <1>11. CASE PublishIndex(r)
    <2>1. PICK w \in Reading :
             /\ Sets(r, w)
             /\ index'.order = reading[r].found
             /\ reading[r].step \in Walks /\ w.step = "load"
             /\ w.found = reading[r].found /\ w.raises = reading[r].raises
      BY <1>11, PublishFacts
    <2>2. EarlyReader(w, head)
      BY <1>2, <2>1 DEF EarlyReader, Labelled, Walks
    <2>3. QED
      BY <1>2, <2>1, <2>2 DEF Walks
  <1>12. CASE LoadCommits(r)
    <2> DEFINE found == ByKey(reading[r].found, reading[r].key)
    <2>1. PICK w \in Reading : w = PutTogether(r, found)
      BY <1>12, LoadFacts
    <2>2. Sets(r, w) /\ UNCHANGED <<index, gate>> /\ reading[r].step = "load"
      BY <1>12, <2>1, LoadFacts
    <2>3. found \subseteq reading[r].found
      BY DEF ByKey
    <2>4. found \subseteq objects
      BY <1>1, <1>2, <2>2, <2>3
    <2>5. w.step = "built" /\ w.raises = FALSE
      BY <1>2, <2>1, <2>4, PageFacts
    <2>6. QED
      BY <1>3, <2>2, <2>5 DEF Labelled
  <1>13. CASE ReadHeadAgain(r)
    BY <1>1, <1>2, <1>3, <1>13, AgainFacts DEF Labelled
  <1>14. CASE Trust(r) \/ GiveUp(r)
    BY <1>3, <1>14, EndFacts DEF Labelled
  <1>15. CASE WalkAll(r)
    <2>1. PICK w \in Reading :
             /\ Sets(r, w) /\ UNCHANGED index
             /\ reading[r].step = "extend" /\ w.step = "publish"
             /\ w.label = reading[r].label /\ w.found = History(head)
             /\ w.raises = reading[r].raises
      BY <1>1, <1>15, WalkAllFacts
    <2>2. EarlyReader(w, head)
      BY <1>2, <2>1 DEF EarlyReader, Labelled, Walks
    <2>3. QED
      BY <2>1, <2>2
  <1>16. QED
    BY <1>4, <1>5, <1>6, <1>7, <1>8, <1>9, <1>10, <1>11, <1>12, <1>13, <1>14, <1>15
    DEF ReadStep

LEMMA EarlyStep ==
    StoreInv /\ ReadersTypeOK /\ EarlyInv /\ [ReadersNext]_allVars => EarlyInv'
  <1> SUFFICES ASSUME StoreInv, ReadersTypeOK, EarlyInv, [ReadersNext]_allVars,
                      generation' = 0
               PROVE  /\ ~returned'
                      /\ index' # NoIndex => index'.order \subseteq History(head')
                      /\ \A r \in Readers : EarlyReader(reading'[r], head')
    BY DEF EarlyInv
  <1>0. StoreInv' /\ [Next]_vars
    BY ReadersNextIsNext, StoreStep
  <1>1. /\ generation = 0 /\ ~returned
        /\ index # NoIndex => index.order \subseteq History(head)
        /\ \A r \in Readers : EarlyReader(reading[r], head)
    BY <1>0, GenerationStays DEF EarlyInv
  <1>2. ASSUME NEW r \in Readers, ReadStep(r)
        PROVE  /\ ~returned'
               /\ index' # NoIndex => index'.order \subseteq History(head')
               /\ \A q \in Readers : EarlyReader(reading'[q], head')
    <2>1. head' = head
      BY <1>2, ReadersNextIsNext DEF vars
    <2>2. PICK w \in Reading :
             /\ Sets(r, w) /\ EarlyReader(w, head)
             /\ index' # NoIndex => index'.order \subseteq History(head)
      BY <1>1, <1>2, ReaderEarlyStep
    <2>3. \A q \in Readers : EarlyReader(reading'[q], head)
      BY <1>1, <2>2, SetsIsTyped
    <2>4. ~returned'
      BY <1>1, <2>2 DEF Sets
    <2>5. QED
      BY <2>1, <2>2, <2>3, <2>4
  <1>3. CASE WriterStep
    <2>1. /\ reading' = Watched /\ (index' = index \/ index' = NoIndex)
          /\ returned' = (returned \/ ComesBack)
      BY <1>3 DEF WriterStep
    <2>2. \/ head' = head
          \/ History(head') = History(head) \cup {head'} /\ head' \notin History(head) \cup {{}}
      BY <1>0, <1>1, BranchMoves
    <2>3. History(head) \subseteq History(head') /\ ~ComesBack
      BY <2>2 DEF ComesBack
    <2>4. ASSUME NEW r \in Readers PROVE EarlyReader(reading'[r], head')
      <3>1. PICK w, h2 : w = reading'[r] /\ h2 = head'
        OBVIOUS
      <3>2. CASE w = NotReading
        <4>1. EarlyReader(w, h2)
          BY <3>2 DEF NotReading, EarlyReader, Labelled, Walks
        <4>2. QED
          BY <3>1, <4>1
      <3>3. CASE SameBut(reading[r], w)
        <4>1. /\ w.step = reading[r].step /\ w.label = reading[r].label
              /\ w.found = reading[r].found /\ w.raises = reading[r].raises
          BY <3>3 DEF SameBut
        <4>2. EarlyReader(w, h2)
          BY <1>1, <2>3, <3>1, <4>1 DEF EarlyReader
        <4>3. QED
          BY <3>1, <4>2
      <3>4. QED
        BY <1>0, <2>1, <3>1, <3>2, <3>3, WatchedIsSame DEF StoreInv
    <2>5. ~returned'
      BY <1>1, <2>1, <2>3
    <2>6. QED
      BY <1>1, <2>1, <2>3, <2>4, <2>5
  <1>4. CASE FreshInstance
    <2>1. /\ index' = NoIndex /\ returned' = FALSE
          /\ \A r \in Readers : reading'[r] = NotReading
      BY <1>4 DEF FreshInstance
    <2>2. PICK h2 : h2 = head'
      OBVIOUS
    <2>3. EarlyReader(NotReading, h2)
      BY DEF EarlyReader, NotReading, Labelled, Walks
    <2>4. QED
      BY <2>1, <2>2, <2>3
  <1>5. CASE UNCHANGED allVars
    BY <1>1, <1>5 DEF allVars, vars, readerVars
  <1>6. QED
    BY <1>2, <1>3, <1>4, <1>5 DEF ReadersNext

--------------------------------------------------------------------------------
(* The invariant holds, and what follows from it                           *)

LEMMA ReadersInvInit == ReadersInit => ReadersInv
  <1> SUFFICES ASSUME ReadersInit PROVE ReadersInv
    OBVIOUS
  <1>1. StoreInv
    BY StoreInit DEF ReadersInit
  <1>2. /\ index = NoIndex /\ gate = NoReader /\ returned = FALSE
        /\ reading = [r \in Readers |-> NotReading]
    BY DEF ReadersInit
  <1>3. ReadersTypeOK
    BY <1>2, NotReadingIsTyped DEF ReadersTypeOK
  <1>4. NotReading.step = "idle" /\ NotReading.raises = FALSE
    BY DEF NotReading
  <1>5. PICK half : half = Halfway
    OBVIOUS
  <1>6. ReaderOK(NotReading, head, clock, half, notes)
    BY <1>4, IdleIsOK
  <1>7. KeptInv
    BY <1>2, <1>4 DEF KeptInv, IndexOK, HoldsPast, Labelled, Walks, NotReading
  <1>8. TrustInv
    <2>1. \A r \in Readers : ReaderOK(reading[r], head, clock, half, notes)
      BY <1>2, <1>6
    <2>2. QED
      BY <1>5, <2>1 DEF TrustInv
  <1>9. EarlyInv
    BY <1>2, <1>4 DEF EarlyInv, EarlyReader, Labelled, Walks
  <1>10. QED
    BY <1>1, <1>3, <1>7, <1>8, <1>9 DEF ReadersInv

LEMMA ReadersInvStep == ReadersInv /\ [ReadersNext]_allVars => ReadersInv'
  <1> SUFFICES ASSUME ReadersInv, [ReadersNext]_allVars PROVE ReadersInv'
    OBVIOUS
  <1>1. StoreInv /\ ReadersTypeOK /\ KeptInv /\ TrustInv /\ EarlyInv
    BY DEF ReadersInv
  <1>2. StoreInv'
    BY <1>1, ReadersNextIsNext, StoreStep
  <1>3. ReadersTypeOK'
    BY <1>1, <1>2, ReadersTypeStep DEF StoreInv
  <1>4. KeptInv' /\ TrustInv' /\ EarlyInv'
    BY <1>1, KeptStep, TrustStep, EarlyStep
  <1>5. QED
    BY <1>2, <1>3, <1>4 DEF ReadersInv

(* The store, the cache and the readers never leave the invariant,         *)
(* whatever the interleaving of reads, saves, forgets, interruptions and   *)
(* repairs.                                                                *)
THEOREM ReadersKept == ReadersSpec => []ReadersInv
  BY ReadersInvInit, ReadersInvStep, PTL DEF ReadersSpec

(* The cache, the lock over building it and what every reader is at have   *)
(* their types.                                                            *)
THEOREM ReadersTypeCorrect == ReadersSpec => []ReadersTypeOK
  <1>1. ReadersInv => ReadersTypeOK
    BY DEF ReadersInv
  <1>2. QED
    BY <1>1, ReadersKept, PTL

(* An index list_changes accepts for HEAD has every revision of HEAD, and  *)
(* the others in it have been pruned by a forget: whatever a walk, an      *)
(* extension across a rewrite or a HEAD that comes back have made of it    *)
(* (_revision_index, _extended_index).                                     *)
THEOREM CacheIsComplete == ReadersSpec => []AcceptedIndexIsComplete
  <1>1. ASSUME ReadersInv PROVE AcceptedIndexIsComplete
    <2>1. SUFFICES ASSUME index # NoIndex, index.head = head
                   PROVE  /\ History(head) \subseteq index.order
                          /\ checkpoint = NoPlan =>
                                (index.order \ History(head)) \cap objects = {}
      BY DEF AcceptedIndexIsComplete
    <2>2. Good(head, clock, head, index.order)
      BY <1>1, <2>1 DEF ReadersInv, KeptInv, IndexOK
    <2>3. History(head) \subseteq index.order
      BY <2>2 DEF Good
    <2>4. ASSUME checkpoint = NoPlan, NEW s \in index.order, s \notin History(head)
          PROVE  s \notin objects
      <3>1. Dead(head, s)
        BY <2>2, <2>4 DEF Good, Known
      <3>2. NoneDead
        BY <1>1, <2>4 DEF ReadersInv, StoreInv, DeadAreGone, Halfway
      <3>3. QED
        BY <3>1, <3>2 DEF NoneDead
    <2>5. QED
      BY <2>3, <2>4
  <1>2. ReadersInv => AcceptedIndexIsComplete
    BY <1>1
  <1>3. QED
    BY <1>2, ReadersKept, PTL

(* A read raises a KeyError (_retrying_a_forget_race) only after a forget. *)
THEOREM KeyErrors == ReadersSpec => KeyErrorsAreOfAForget
  <1>1. ASSUME ReadersInv, NEW r \in Readers, reading[r].raises PROVE generation > 0
    <2>1. generation = 0 => reading[r].raises = FALSE
      BY <1>1 DEF ReadersInv, EarlyInv, EarlyReader
    <2>2. generation # 0
      BY <1>1, <2>1, Zenon
    <2>3. generation \in Nat
      BY <1>1 DEF ReadersInv, StoreInv, TypeOK
    <2>4. QED
      BY <2>2, <2>3
  <1>2. ReadersInv =>
          [\A r \in Readers : (Trust(r) \/ GiveUp(r)) /\ reading[r].raises =>
              generation > 0]_allVars
    BY <1>1
  <1>3. QED
    BY <1>2, ReadersKept, PTL DEF KeyErrorsAreOfAForget

(* Once _retrying_a_forget_race has found HEAD unmoved and no forget       *)
(* unfinished, the answer has the changes of that branch and all of their  *)
(* descriptions, unless the attempt began inside a forget or HEAD has come *)
(* back to where it was.                                                   *)
THEOREM TrustEarned == ReadersSpec => TrustIsEarned
  <1>1. ASSUME ReadersInv, NEW r \in Readers, Answers(r), ~reading[r].inside, ~returned
        PROVE  reading[r].whole /\ reading[r].current
    <2>1. PageRight(reading[r], head) /\ reading[r] \in Reading
      BY <1>1 DEF ReadersInv, TrustInv, ReaderOK, ReadersTypeOK
    <2>2. reading[r].step = "pending" /\ reading[r].moved = reading[r].start
      BY <1>1 DEF Answers, Trust, Reads, Settled
    <2>3. reading[r].inside = FALSE
      BY <1>1, <2>1, Zenon DEF Reading
    <2>4. ~reading[r].raises
      BY <1>1, Zenon DEF Answers
    <2>5. Right(reading[r])
      BY <2>1, <2>2, <2>3 DEF PageRight
    <2>6. QED
      BY <2>4, <2>5, Zenon DEF Right
  <1>2. ReadersInv =>
          [\A r \in Readers : Answers(r) /\ ~reading[r].inside /\ ~returned =>
              reading[r].whole /\ reading[r].current]_allVars
    BY <1>1
  <1>3. QED
    BY <1>2, ReadersKept, PTL DEF TrustIsEarned
================================================================================
