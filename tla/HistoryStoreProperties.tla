------------------------ MODULE HistoryStoreProperties -------------------------
(***************************************************************************)
(* What HistoryStore is meant to guarantee.                                *)
(***************************************************************************)
EXTENDS HistoryStore

(* Every variable has its type: the repository of store.py, the lock and   *)
(* the jobs of the threads waiting for it.                                 *)
TypeOK ==
    /\ head \in SUBSET Commits /\ clock \in Nat
    /\ objects \in SUBSET SUBSET Commits
    /\ blobs \in SUBSET Contents
    /\ notes \in SUBSET Notes
    /\ tags \in SUBSET Tags
    /\ staged \in Trees
    /\ checkpoint \in Plan \cup {NoPlan}
    /\ generation \in Nat
    /\ lock \in Procs \cup {NoProc}
    /\ job \in [Procs -> Jobs]
    /\ opening \in BOOLEAN

(* One writer at a time: a thread with an operation under way holds the    *)
(* lock, for all of the operation.                                         *)
OneWriter == \A p \in Procs : ~At(p, "idle") => lock = p

(* The checkpoint an interrupted forget leaves behind passes every test    *)
(* the repair puts it to (_validate_checkpoint_semantics), wherever the    *)
(* interruption, or a further one of the repair itself, fell.              *)
PlanStaysValid == checkpoint # NoPlan => ValidPlan(checkpoint)

(* Whatever the branch, a version or the index names is in the object      *)
(* store: pruning (_garbage_collect_protecting_index) never takes a commit *)
(* or a content that is still needed, staged by a save that failed         *)
(* included.                                                               *)
NothingMissing ==
    /\ Reachable \subseteq objects
    /\ ReachableBlobs \cup StagedBlobs \subseteq blobs

(* While no forget is unfinished, every version and every note is of a     *)
(* commit of the branch, and none is there twice.                          *)
MarksInHistory ==
    checkpoint = NoPlan =>
        /\ \A t \in tags : t.rev \in History(head)
        /\ \A n \in notes : n.rev \in History(head)
        /\ \A t, u \in tags : t.name = u.name => t = u
        /\ \A n, m \in notes : n.rev = m.rev => n = m

(* When a forget ends, by itself or through the repair, nothing of the     *)
(* dashboard is left: no commit object, no version, no index entry holds   *)
(* it, and a content it alone had is out of the object store.              *)
KeysIn(r) == {k \in Keys : \E c \in r : c.tree[k] # Absent}

ForgetErases ==
    [][checkpoint # NoPlan /\ checkpoint' = NoPlan =>
        LET k == checkpoint.key IN
        /\ \A r \in objects' : k \notin KeysIn(r)
        /\ \A t \in tags' : Owner[t.name] # k
        /\ staged'[k] = Absent
        /\ \A v \in blobs' :
              \/ \E r \in objects' : v \in BlobsOf(r)
              \/ \E j \in Keys : staged'[j] = v]_vars

(* While a checkpoint is on the disk nothing else is written: the branch,  *)
(* the notes and the versions only ever turn into what the plan says, so   *)
(* no accepted write is undone by the repair (_refuse_if_forget_pending).  *)
PendingIsFrozen ==
    [][checkpoint # NoPlan =>
        /\ clock' = clock
        /\ head' \in {head, checkpoint.head}
        /\ tags' \in {tags, checkpoint.tags}
        /\ notes' = notes \/ notes' \subseteq checkpoint.notes
        /\ generation' \in {generation, checkpoint.target}]_vars

(* The counter is raised before anything a cursor may point at goes away:  *)
(* a step that drops a revision from the branch, or an object from the     *)
(* store, happens under the new generation (StaleCursorError rests on it), *)
(* and each forget raises it exactly once, interrupted or not.             *)
Rewriting == checkpoint # NoPlan /\ generation = checkpoint.target

GenerationGuardsRewrites ==
    [][/\ generation' \in {generation, generation + 1}
       /\ History(head) \subseteq History(head') \/ Rewriting
       /\ objects \subseteq objects' \/ Rewriting]_vars

--------------------------------------------------------------------------------
(* Every interrupted forget is finished, once the process stays up after a *)
(* restart: the user follows the message of _refuse_if_forget_pending, the *)
(* repair runs on every start, and its steps do not fail for ever.         *)
FinishForget(p) == ForgetStep(p) \/ RepairResume(p)
RestartAsTold == checkpoint # NoPlan /\ lock = NoProc /\ ~opening /\ Restart

Fairness ==
    /\ \A p \in Procs : WF_vars(FinishForget(p))
    /\ WF_vars(RepairNothing)
    /\ WF_vars(RestartAsTold)

FairSpec == Spec /\ Fairness

Interruption == (\E p \in Procs : Raise(p)) \/ (~RestartAsTold /\ Restart)
StaysUp == <>[][~Interruption]_vars

ForgetIsFinished == StaysUp => (checkpoint # NoPlan ~> checkpoint = NoPlan)

--------------------------------------------------------------------------------
(* The promise: a forget takes effect at once when its plan is on the      *)
(* disk.  From there on the plan, not the half rewritten repository, says  *)
(* what the history is.                                                    *)
Pending == checkpoint # NoPlan
TrueHead == IF Pending THEN checkpoint.head ELSE head
TrueNotes == IF Pending THEN checkpoint.notes ELSE notes
TrueTags == IF Pending THEN checkpoint.tags ELSE tags

Promise == INSTANCE AtomicHistory WITH
    changes <- [k \in Keys |-> ChangesOf(TrueHead, k)],
    versions <- {[name |-> t.name, title |-> t.title,
                  shows |-> TreeOf(t.rev)[Owner[t.name]]] : t \in TrueTags},
    descriptions <- {[at |-> Newest(n.rev).at, text |-> n.text] : n \in TrueNotes},
    forgets <- IF Pending THEN checkpoint.target ELSE generation

ImplementsPromise == Promise!Spec
================================================================================
