----------------------------- MODULE HistoryStore ------------------------------
(***************************************************************************)
(* The writing half of HistoryStore (store.py): saves, deletions, version  *)
(* marks, notes, the permanent removal of one dashboard (forget) and its   *)
(* repair after an interruption.                                           *)
(*                                                                         *)
(* Several threads of one process call the store; every operation below    *)
(* runs under the one lock of the repository path.  What the lock does not *)
(* cover is modelled as steps of its own: an exception or the end of the   *)
(* process can fall between any two changes of the disk.                   *)
(***************************************************************************)
EXTENDS Revisions

CONSTANTS
    Procs,      \* threads calling the store
    NoProc,     \* nobody holds the lock
    Names,      \* version names, "<dashboard>/v<number>"
    Owner,      \* the dashboard a version name belongs to
    Words,      \* titles of versions and texts of notes
    NoPlan,     \* no checkpoint file
    MaxCommits, \* bound on the commits ever made
    MaxForgets  \* bound on the generation counter

ASSUME OwnerAssumption == Owner \in [Names -> Keys]
ASSUME NoProcAssumption == NoProc \notin Procs
ASSUME BoundsAssumption == MaxCommits \in Nat /\ MaxForgets \in Nat

VARIABLES
    head,       \* the revision the branch points at
    clock,      \* the stamp of the last commit made
    objects,    \* commit objects in the object store, as revisions
    blobs,      \* contents in the object store
    notes,      \* refs/notes/commits
    tags,       \* refs/tags
    staged,     \* the index, as a tree
    checkpoint, \* the plan an unfinished forget left on the disk
    generation, \* the counter file of finished history rewrites
    lock,       \* the lock of the repository path
    job,        \* what each thread still has to do, and with which plan
    opening     \* a start or reload has yet to run the repair

disk == <<head, clock, objects, blobs, notes, tags, staged, checkpoint, generation>>
vars == <<head, clock, objects, blobs, notes, tags, staged, checkpoint, generation,
          lock, job, opening>>

Notes == [rev : SUBSET Commits, text : Words]
Tags == [name : Names, rev : SUBSET Commits, title : Words]

Plan == [key : Keys, head : SUBSET Commits, notes : SUBSET Notes,
         tags : SUBSET Tags, target : Nat]

ASSUME NoPlanAssumption == NoPlan \notin Plan

(* What a thread does next once it has been let in; the plan of a save is  *)
(* NoPlan, its content is in the index already.                            *)
ForgetSteps == {"checkpoint", "generation", "head", "clear notes", "notes",
                "tags", "index", "collect", "unlink"}
Idle == [step |-> "idle", plan |-> NoPlan]
Jobs == [step : {"idle", "commit"}, plan : {NoPlan}] \cup [step : ForgetSteps, plan : Plan]

Init ==
    /\ head = {} /\ clock = 0
    /\ objects = {} /\ blobs = {}
    /\ notes = {} /\ tags = {}
    /\ staged = EmptyTree
    /\ checkpoint = NoPlan /\ generation = 0
    /\ lock = NoProc /\ job = [p \in Procs |-> Idle]
    /\ opening = TRUE

--------------------------------------------------------------------------------
(* The lock.                                                               *)

(* Mutant: the checkpoint is not asked about.                              *)
AdmittedAnyway == lock = NoProc
(* Mutant: the lock is not taken.                                          *)
AdmittedUnlocked == checkpoint = NoPlan

(* A write gets in: nobody holds the lock, and it meets no checkpoint.     *)
Admitted == lock = NoProc /\ checkpoint = NoPlan

Continue(p, step, plan) ==
    /\ lock' = p
    /\ job' = [job EXCEPT ![p] = [step |-> step, plan |-> plan]]

(* Mutant: the plan of the last operation stays behind.                    *)
LeaveKeepingPlan(p) ==
    /\ lock' = NoProc
    /\ job' = [job EXCEPT ![p].step = "idle"]

Leave(p) ==
    /\ lock' = NoProc
    /\ job' = [job EXCEPT ![p] = Idle]

At(p, step) == job[p].step = step

--------------------------------------------------------------------------------
(* Saving and deleting: the index first, then a commit of the whole index. *)

(* A text HEAD already holds is not written again, and the index is then   *)
(* left as it is.                                                          *)
StageSave(p, k, v) ==
    /\ Admitted
    /\ clock < MaxCommits
    /\ TreeOf(head)[k] # v
    /\ staged' = [staged EXCEPT ![k] = v]
    /\ blobs' = blobs \cup {v}
    /\ Continue(p, "commit", NoPlan)
    /\ UNCHANGED <<head, clock, objects, notes, tags, checkpoint, generation, opening>>

(* Nothing is removed over what an earlier save or removal has left staged *)
(* between staging and committing: git refuses.                            *)
StageRemoval(p, k) ==
    /\ Admitted
    /\ clock < MaxCommits
    /\ TreeOf(head)[k] # Absent
    /\ staged[k] = TreeOf(head)[k]
    /\ staged' = [staged EXCEPT ![k] = Absent]
    /\ Continue(p, "commit", NoPlan)
    /\ UNCHANGED <<head, clock, objects, blobs, notes, tags, checkpoint, generation, opening>>

Commit(p) ==
    /\ At(p, "commit")
    /\ clock' = clock + 1
    /\ head' = head \cup {[at |-> clock + 1, tree |-> staged]}
    /\ objects' = objects \cup {head'}
    /\ Leave(p)
    /\ UNCHANGED <<blobs, notes, tags, staged, checkpoint, generation, opening>>

--------------------------------------------------------------------------------
(* Notes and versions: one ref each, changed in one go under the lock.     *)

Describe(r, w) ==
    /\ Admitted
    /\ r \in History(head)
    /\ notes' = {n \in notes : n.rev # r} \cup {[rev |-> r, text |-> w]}
    /\ UNCHANGED <<head, clock, objects, blobs, tags, staged, checkpoint, generation,
                   lock, job, opening>>

(* An empty text removes the note.                                         *)
Undescribe(r) ==
    /\ Admitted
    /\ r \in History(head)
    /\ notes' = {n \in notes : n.rev # r}
    /\ UNCHANGED <<head, clock, objects, blobs, tags, staged, checkpoint, generation,
                   lock, job, opening>>

CreateVersion(name, r, w) ==
    /\ Admitted
    /\ \A t \in tags : t.name # name
    /\ r \in History(head)
    /\ tags' = tags \cup {[name |-> name, rev |-> r, title |-> w]}
    /\ UNCHANGED <<head, clock, objects, blobs, notes, staged, checkpoint, generation,
                   lock, job, opening>>

RetitleVersion(t, w) ==
    /\ Admitted
    /\ t \in tags
    /\ tags' = (tags \ {t}) \cup {[t EXCEPT !.title = w]}
    /\ UNCHANGED <<head, clock, objects, blobs, notes, staged, checkpoint, generation,
                   lock, job, opening>>

RemoveVersion(t) ==
    /\ Admitted
    /\ t \in tags
    /\ tags' = tags \ {t}
    /\ UNCHANGED <<head, clock, objects, blobs, notes, staged, checkpoint, generation,
                   lock, job, opening>>

--------------------------------------------------------------------------------
(* Forgetting a dashboard.  Everything is planned first, against objects   *)
(* nothing points at yet; the plan is written down; then it is carried out *)
(* step by step, and the file goes last.                                   *)

(* Mutant: the note of a dropped commit moves to the nearest survivor.     *)
NotesToNearest(k) ==
    {[rev |-> Rewritten(n.rev, k), text |-> n.text] :
        n \in {m \in notes : /\ m.rev \in History(head)
                             /\ Rewritten(m.rev, k) # {}}}

(* A note follows its commit to the commit's new name, and goes with it.   *)
PlannedNotes(k) ==
    {[rev |-> Rewritten(n.rev, k), text |-> n.text] :
        n \in {m \in notes : /\ m.rev \in History(head)
                             /\ Survives(m.rev, Newest(m.rev), k)}}

(* Mutant: the other dashboards' versions are left where they are.         *)
TagsLeftBehind(k) == {t \in tags : Owner[t.name] # k}

(* The dashboard's own versions go; any other moves to the nearest         *)
(* surviving ancestor of what it marked, and goes when there is none.      *)
PlannedTags(k) ==
    {[name |-> t.name, rev |-> Rewritten(t.rev, k), title |-> t.title] :
        t \in {u \in tags : /\ Owner[u.name] # k
                            /\ u.rev \in History(head)
                            /\ Rewritten(u.rev, k) # {}}}

ForgetPlan(k) ==
    [key |-> k, head |-> Rewritten(head, k), notes |-> PlannedNotes(k),
     tags |-> PlannedTags(k), target |-> generation + 1]

(* A dashboard can be forgotten when some commit of the branch held it.    *)
EverRecorded(k) == \E c \in head : c.tree[k] # Absent

PlanForget(p, k) ==
    /\ Admitted
    /\ generation < MaxForgets
    /\ EverRecorded(k)
    /\ objects' = objects \cup History(Rewritten(head, k))
    /\ Continue(p, "checkpoint", ForgetPlan(k))
    /\ UNCHANGED <<head, clock, blobs, notes, tags, staged, checkpoint, generation, opening>>

WriteCheckpoint(p) ==
    /\ At(p, "checkpoint")
    /\ checkpoint' = job[p].plan
    /\ Continue(p, "generation", job[p].plan)
    /\ UNCHANGED <<head, clock, objects, blobs, notes, tags, staged, generation, opening>>

(* Mutant: counted on from what the file says, so a repair counts twice.   *)
CountAgain(p) ==
    /\ At(p, "generation")
    /\ generation' = generation + 1
    /\ Continue(p, "head", job[p].plan)
    /\ UNCHANGED <<head, clock, objects, blobs, notes, tags, staged, checkpoint, opening>>
(* Mutant: the counter is not written before the branch moves.             *)
CountLater(p) ==
    /\ At(p, "generation")
    /\ Continue(p, "head", job[p].plan)
    /\ UNCHANGED <<disk, opening>>

(* The target of the plan, not one more than the file says: a repair       *)
(* writes the same number again.                                           *)
WriteGeneration(p) ==
    /\ At(p, "generation")
    /\ generation' = job[p].plan.target
    /\ Continue(p, "head", job[p].plan)
    /\ UNCHANGED <<head, clock, objects, blobs, notes, tags, staged, checkpoint, opening>>

PointHead(p) ==
    /\ At(p, "head")
    /\ head' = job[p].plan.head
    /\ Continue(p, "clear notes", job[p].plan)
    /\ UNCHANGED <<clock, objects, blobs, notes, tags, staged, checkpoint, generation, opening>>

(* The old notes go at once, the new ones are added one commit at a time.  *)
ClearNotes(p) ==
    /\ At(p, "clear notes")
    /\ notes' = {}
    /\ Continue(p, "notes", job[p].plan)
    /\ UNCHANGED <<head, clock, objects, blobs, tags, staged, checkpoint, generation, opening>>

AddNote(p) ==
    /\ At(p, "notes")
    /\ \E n \in job[p].plan.notes \ notes : notes' = notes \cup {n}
    /\ UNCHANGED <<head, clock, objects, blobs, tags, staged, checkpoint, generation,
                   lock, job, opening>>

NotesRewritten(p) ==
    /\ At(p, "notes")
    /\ job[p].plan.notes \subseteq notes
    /\ Continue(p, "tags", job[p].plan)
    /\ UNCHANGED <<disk, opening>>

RewriteTags(p) ==
    /\ At(p, "tags")
    /\ tags' = job[p].plan.tags
    /\ Continue(p, "index", job[p].plan)
    /\ UNCHANGED <<head, clock, objects, blobs, notes, staged, checkpoint, generation, opening>>

(* Mutant: the index keeps the dashboard.                                  *)
KeepInIndex(p) ==
    /\ At(p, "index")
    /\ Continue(p, "collect", job[p].plan)
    /\ UNCHANGED <<disk, opening>>

DropFromIndex(p) ==
    /\ At(p, "index")
    /\ staged' = Without(staged, job[p].plan.key)
    /\ Continue(p, "collect", job[p].plan)
    /\ UNCHANGED <<head, clock, objects, blobs, notes, tags, checkpoint, generation, opening>>

(* What the branch, the versions and the index need; all else is pruned.   *)
Reachable == History(head) \cup UNION {History(t.rev) : t \in tags}
ReachableBlobs == UNION {BlobsOf(r) : r \in Reachable}

StagedBlobs == {staged[k] : k \in Keys} \ {Absent}

(* Mutant: a plain garbage collection, which knows nothing of the index.   *)
CollectUnprotected(p) ==
    /\ At(p, "collect")
    /\ objects' = objects \cap Reachable
    /\ blobs' = blobs \cap ReachableBlobs
    /\ Continue(p, "unlink", job[p].plan)
    /\ UNCHANGED <<head, clock, notes, tags, staged, checkpoint, generation, opening>>

CollectGarbage(p) ==
    /\ At(p, "collect")
    /\ objects' = objects \cap Reachable
    /\ blobs' = blobs \cap (ReachableBlobs \cup StagedBlobs)
    /\ Continue(p, "unlink", job[p].plan)
    /\ UNCHANGED <<head, clock, notes, tags, staged, checkpoint, generation, opening>>

UnlinkCheckpoint(p) ==
    /\ At(p, "unlink")
    /\ checkpoint' = NoPlan
    /\ Leave(p)
    /\ UNCHANGED <<head, clock, objects, blobs, notes, tags, staged, generation, opening>>

ForgetStep(p) ==
    \/ WriteCheckpoint(p) \/ WriteGeneration(p) \/ PointHead(p)
    \/ ClearNotes(p) \/ AddNote(p) \/ NotesRewritten(p) \/ RewriteTags(p)
    \/ DropFromIndex(p) \/ CollectGarbage(p) \/ UnlinkCheckpoint(p)

--------------------------------------------------------------------------------
(* Interruptions, and the repair that answers them.                        *)

(* An exception ends the operation where it stands and frees the lock; the *)
(* disk keeps what was written so far.                                     *)
Raise(p) ==
    /\ ~At(p, "idle")
    /\ Leave(p)
    /\ UNCHANGED <<disk, opening>>

(* The process ends, at any moment, and a new one starts.                  *)
Restart ==
    /\ lock' = NoProc
    /\ job' = [p \in Procs |-> Idle]
    /\ opening' = TRUE
    /\ UNCHANGED disk

(* The integration is set up again in the same process; threads of the old *)
(* instance keep running.                                                  *)
Reload ==
    /\ opening' = TRUE
    /\ UNCHANGED <<disk, lock, job>>

(* What a checkpoint must still say about this repository to be resumed.   *)
ValidPlan(plan) ==
    /\ plan.head \in objects \cup {{}}
    /\ \A n \in plan.notes : n.rev \in objects
    /\ \A t \in plan.tags : t.rev \in objects
    /\ plan.target \in {generation, generation + 1}

(* Index entries of a dashboard the branch no longer has are dropped.      *)
Reconciled(k) ==
    IF TreeOf(head)[k] = Absent THEN Without(staged, k) ELSE staged

RepairNothing ==
    /\ opening /\ lock = NoProc
    /\ checkpoint = NoPlan
    /\ opening' = FALSE
    /\ UNCHANGED <<disk, lock, job>>

(* Mutant: a counter already raised is taken for a forget already done.    *)
ResumeOnce(p) ==
    /\ opening /\ lock = NoProc
    /\ checkpoint # NoPlan
    /\ ValidPlan(checkpoint) /\ checkpoint.target = generation + 1
    /\ staged' = Reconciled(checkpoint.key)
    /\ opening' = FALSE
    /\ Continue(p, "generation", checkpoint)
    /\ UNCHANGED <<head, clock, objects, blobs, notes, tags, checkpoint, generation>>

RepairResume(p) ==
    /\ opening /\ lock = NoProc
    /\ checkpoint # NoPlan
    /\ ValidPlan(checkpoint)
    /\ staged' = Reconciled(checkpoint.key)
    /\ opening' = FALSE
    /\ Continue(p, "generation", checkpoint)
    /\ UNCHANGED <<head, clock, objects, blobs, notes, tags, checkpoint, generation>>

--------------------------------------------------------------------------------
Save(p) ==
    \/ \E k \in Keys, v \in Contents : StageSave(p, k, v)
    \/ \E k \in Keys : StageRemoval(p, k)
    \/ Commit(p)

Annotate ==
    \/ \E r \in History(head), w \in Words : Describe(r, w)
    \/ \E r \in History(head) : Undescribe(r)
    \/ \E n \in Names, r \in History(head), w \in Words : CreateVersion(n, r, w)
    \/ \E t \in tags, w \in Words : RetitleVersion(t, w)
    \/ \E t \in tags : RemoveVersion(t)

Forget(p) == (\E k \in Keys : PlanForget(p, k)) \/ ForgetStep(p)

Next ==
    \/ \E p \in Procs : Save(p) \/ Forget(p) \/ Raise(p) \/ RepairResume(p)
    \/ Annotate
    \/ Restart \/ Reload \/ RepairNothing

Spec == Init /\ [][Next]_vars
================================================================================
