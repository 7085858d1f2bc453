----------------------------- MODULE StoreReaders ------------------------------
(***************************************************************************)
(* The reads of HistoryStore (store.py) that take no lock: list_changes    *)
(* with its descriptions, the revision index it goes by, kept in memory    *)
(* and keyed by HEAD, and the retry that is to catch a forget racing it.   *)
(* One instance of the store serves all readers; they share its cache.     *)
(***************************************************************************)
EXTENDS HistoryStoreProperties

CONSTANTS
    Readers,    \* threads reading
    NoReader,   \* nobody builds the index
    NoIndex,    \* no index in memory
    Attempts    \* how often a read is built before it gives up

ASSUME AttemptsAssumption == Attempts \in Nat \ {0}
ASSUME NoReaderAssumption == NoReader \notin Readers

VARIABLES
    index,      \* the cached index: for which HEAD, and the revisions in it
    gate,       \* the reader building the index
    reading,    \* what each reader is at
    returned    \* no part of the program: HEAD has come back to a revision
                \* it was at before, since this instance exists

readerVars == <<index, gate, reading, returned>>
allVars == <<vars, readerVars>>

Index == [head : SUBSET Commits, order : SUBSET SUBSET Commits]

ReadSteps == {"idle", "notes", "index", "gate", "extend", "publish", "load",
              "built", "pending"}

(* "moved" is the HEAD read after the attempt; "raises" is set when the    *)
(* attempt ended in a KeyError.  The last four fields stand in for the     *)
(* notes read and for the page: the notes that were there all along and    *)
(* have not been read, whether the attempt began inside a forget, and what *)
(* can be said of the page once it is put together: it left no description *)
(* out, and its changes are those of the branch the attempt began on.      *)
NotReading ==
    [step |-> "idle", key |-> NoReader, start |-> {}, left |-> 0, label |-> {},
     base |-> {}, found |-> {}, moved |-> {}, raises |-> FALSE,
     missed |-> {}, inside |-> FALSE, whole |-> FALSE, current |-> FALSE]

ReadersInit ==
    /\ Init
    /\ index = NoIndex
    /\ gate = NoReader
    /\ reading = [r \in Readers |-> NotReading]
    /\ returned = FALSE

--------------------------------------------------------------------------------
(* One attempt.                                                            *)

Reads(r, step) == reading[r].step = step

(* The read begins, or begins again: nothing of a failed attempt is kept.  *)
Attempt(k, from, left) ==
    [step |-> "notes", key |-> k, start |-> from, left |-> left, label |-> {},
     base |-> {}, found |-> {}, moved |-> {}, raises |-> FALSE,
     missed |-> TrueNotes, inside |-> Pending, whole |-> FALSE, current |-> FALSE]

BeginRead(r, k) ==
    /\ Reads(r, "idle")
    /\ reading' = [reading EXCEPT ![r] = Attempt(k, head, Attempts - 1)]
    /\ UNCHANGED <<vars, index, gate, returned>>

ReadNotes(r) ==
    /\ Reads(r, "notes")
    /\ reading' = [reading EXCEPT ![r].missed = @ \ notes, ![r].step = "index"]
    /\ UNCHANGED <<vars, index, gate, returned>>

(* The revisions that changed a dashboard.                                 *)
Touches(r, k) == TreeOf(r)[k] # TreeOf(Older(r, Newest(r)))[k]
ByKey(order, k) == {r \in order : Touches(r, k)}

(* The attempt ends in a KeyError.                                         *)
Failed(r) ==
    [reading[r] EXCEPT !.step = "built", !.label = {}, !.base = {}, !.found = {},
                       !.missed = {}, !.raises = TRUE]

(* The page is put together from the changes found and the notes read; a   *)
(* commit that is gone is a KeyError.                                      *)
PutTogether(r, revisions) ==
    IF ~(revisions \subseteq objects) THEN Failed(r)
    ELSE [reading[r] EXCEPT
            !.step = "built", !.found = {}, !.missed = {},
            !.whole = \A n \in reading[r].missed : n.rev \notin revisions,
            !.current = revisions = ByKey(History(reading[r].start), reading[r].key)]

CachedFor(label) == index # NoIndex /\ index.head = label

(* Mutant: a branch without a commit is walked like any other.             *)
ResolveUnborn(r) ==
    /\ Reads(r, "index")
    /\ reading' = [reading EXCEPT ![r] =
         IF CachedFor(head)
         THEN [@ EXCEPT !.step = "load", !.found = index.order]
         ELSE [@ EXCEPT !.step = "gate", !.label = head]]
    /\ UNCHANGED <<vars, index, gate, returned>>

(* HEAD is resolved before the cache is looked at.  A branch without a     *)
(* commit has no index and no changes.                                     *)
ResolveHead(r) ==
    /\ Reads(r, "index")
    /\ reading' = [reading EXCEPT ![r] =
         IF head = {} THEN PutTogether(r, {})
         ELSE IF CachedFor(head)
              THEN [@ EXCEPT !.step = "load", !.found = index.order]
              ELSE [@ EXCEPT !.step = "gate", !.label = head]]
    /\ UNCHANGED <<vars, index, gate, returned>>

(* Only what a new HEAD adds is walked when the old one is still there and *)
(* nothing it adds is in the index already.                                *)
Fresh(label) == History(label) \ History(index.head)
Extendable(label) ==
    /\ index # NoIndex
    /\ label \in objects /\ index.head \in objects
    /\ Fresh(label) # {}
    /\ Fresh(label) \cap index.order = {}

(* Otherwise everything is walked, from where HEAD is by then; the result  *)
(* still carries the HEAD resolved before.                                 *)
Extending(v) ==
    [v EXCEPT !.step = "extend", !.base = index.head,
              !.found = index.order \cup Fresh(v.label)]

Walking(v) == [v EXCEPT !.step = "publish", !.base = {}, !.found = History(head)]

CachedMeanwhile(r) ==
    /\ Reads(r, "gate") /\ gate = NoReader
    /\ CachedFor(reading[r].label)
    /\ reading' = [reading EXCEPT ![r].step = "load", ![r].label = {},
                                  ![r].found = index.order]
    /\ UNCHANGED <<vars, index, gate, returned>>

BuildIndex(r) ==
    /\ Reads(r, "gate") /\ gate = NoReader
    /\ ~CachedFor(reading[r].label)
    /\ gate' = r
    /\ \/ /\ Extendable(reading[r].label)
          /\ reading' = [reading EXCEPT ![r] = Extending(@)]
       \/ /\ ~Extendable(reading[r].label) /\ head # {}
          /\ reading' = [reading EXCEPT ![r] = Walking(@)]
    /\ UNCHANGED <<vars, index, returned>>

(* An extending walk that meets a commit pruned since it began is given up *)
(* for a walk over everything.                                             *)
ExtendingStops(r) ==
    Reads(r, "extend") /\ ~({reading[r].base, reading[r].label} \subseteq objects)

WalkAll(r) ==
    /\ ExtendingStops(r)
    /\ head # {}
    /\ reading' = [reading EXCEPT ![r] = Walking(@)]
    /\ UNCHANGED <<vars, index, gate, returned>>

(* There is nothing to walk when the branch has lost its last commit, and  *)
(* a walk over everything that meets a pruned commit ends there.           *)
BuildFails(r) ==
    /\ \/ /\ Reads(r, "gate") /\ gate = NoReader
          /\ ~CachedFor(reading[r].label)
          /\ ~Extendable(reading[r].label) /\ head = {}
       \/ ExtendingStops(r) /\ head = {}
       \/ Reads(r, "publish") /\ ~(reading[r].found \subseteq objects)
    /\ gate' = NoReader
    /\ reading' = [reading EXCEPT ![r] = Failed(r)]
    /\ UNCHANGED <<vars, index, returned>>

(* Mutant: the index is labelled with where HEAD is when it is done.       *)
PublishUnderNewHead(r) ==
    /\ Reads(r, "extend") \/ Reads(r, "publish")
    /\ index' = [head |-> head, order |-> reading[r].found]
    /\ gate' = NoReader
    /\ reading' = [reading EXCEPT ![r].step = "load", ![r].label = {}, ![r].base = {}]
    /\ UNCHANGED <<vars, returned>>

PublishIndex(r) ==
    /\ Reads(r, "extend") \/ Reads(r, "publish")
    /\ index' = [head |-> reading[r].label, order |-> reading[r].found]
    /\ gate' = NoReader
    /\ reading' = [reading EXCEPT ![r].step = "load", ![r].label = {}, ![r].base = {}]
    /\ UNCHANGED <<vars, returned>>

(* The commits the index lists for the dashboard are loaded.               *)
LoadCommits(r) ==
    /\ Reads(r, "load")
    /\ reading' = [reading EXCEPT ![r] =
            PutTogether(r, ByKey(reading[r].found, reading[r].key))]
    /\ UNCHANGED <<vars, index, gate, returned>>

--------------------------------------------------------------------------------
(* Trusting it: HEAD is where it was, and then no forget is unfinished.    *)

ReadHeadAgain(r) ==
    /\ Reads(r, "built")
    /\ reading' = [reading EXCEPT ![r].moved = head, ![r].step = "pending"]
    /\ UNCHANGED <<vars, index, gate, returned>>

(* Mutant: HEAD is not compared.                                           *)
SettledByCheckpoint(r) == checkpoint = NoPlan

Settled(r) == reading[r].moved = reading[r].start /\ checkpoint = NoPlan

(* The answer, or the KeyError of the attempt, goes to the caller.         *)
Trust(r) ==
    /\ Reads(r, "pending")
    /\ Settled(r)
    /\ reading' = [reading EXCEPT ![r] = NotReading]
    /\ UNCHANGED <<vars, index, gate, returned>>

Retry(r) ==
    /\ Reads(r, "pending")
    /\ ~Settled(r) /\ reading[r].left > 0
    /\ reading' = [reading EXCEPT ![r] =
            Attempt(reading[r].key, reading[r].moved, reading[r].left - 1)]
    /\ UNCHANGED <<vars, index, gate, returned>>

(* The last attempt has nothing to fall back on: ForgetRaceExhausted, or   *)
(* its own KeyError.                                                       *)
GiveUp(r) ==
    /\ Reads(r, "pending")
    /\ ~Settled(r) /\ reading[r].left = 0
    /\ reading' = [reading EXCEPT ![r] = NotReading]
    /\ UNCHANGED <<vars, index, gate, returned>>

ReadStep(r) ==
    \/ \E k \in Keys : BeginRead(r, k)
    \/ ReadNotes(r) \/ ResolveHead(r) \/ CachedMeanwhile(r) \/ BuildIndex(r)
    \/ WalkAll(r) \/ BuildFails(r) \/ PublishIndex(r) \/ LoadCommits(r) \/ ReadHeadAgain(r)
    \/ Trust(r) \/ Retry(r) \/ GiveUp(r)

--------------------------------------------------------------------------------
(* The writers in between.                                                 *)

(* Bookkeeping for the properties only.                                    *)
Watched ==
    [r \in Readers |->
        IF Reads(r, "idle") THEN NotReading
        ELSE [reading[r] EXCEPT !.missed = @ \cap TrueNotes']]

ComesBack == head' # head /\ head' \in History(head) \cup {{}}

(* Planning a forget, and resuming one, drops the cached index.            *)
DropsIndex(p) == (\E k \in Keys : PlanForget(p, k)) \/ RepairResume(p)

WriterStep ==
    /\ \/ /\ \/ \E p \in Procs : Save(p) \/ ForgetStep(p) \/ Raise(p)
             \/ Annotate \/ RepairNothing
          /\ UNCHANGED index
       \/ /\ \E p \in Procs : DropsIndex(p)
          /\ index' = NoIndex
    /\ reading' = Watched
    /\ returned' = (returned \/ ComesBack)
    /\ UNCHANGED gate

(* A new process, or a new instance after a reload, starts without a cache *)
(* and without readers.                                                    *)
FreshInstance ==
    /\ Restart \/ Reload
    /\ index' = NoIndex
    /\ gate' = NoReader
    /\ reading' = [r \in Readers |-> NotReading]
    /\ returned' = FALSE

ReadersNext == (\E r \in Readers : ReadStep(r)) \/ WriterStep \/ FreshInstance

ReadersSpec == ReadersInit /\ [][ReadersNext]_allVars

--------------------------------------------------------------------------------
(* Properties.                                                             *)

Reading ==
    [step : ReadSteps, key : Keys \cup {NoReader}, start : SUBSET Commits,
     left : 0..(Attempts - 1), label : SUBSET Commits, base : SUBSET Commits,
     found : SUBSET SUBSET Commits, moved : SUBSET Commits, raises : BOOLEAN, missed : SUBSET Notes,
     inside : BOOLEAN, whole : BOOLEAN, current : BOOLEAN]

(* The cache, the lock over building it and what every reader is at.       *)
ReadersTypeOK ==
    /\ index \in Index \cup {NoIndex}
    /\ gate \in Readers \cup {NoReader}
    /\ reading \in [Readers -> Reading]
    /\ returned \in BOOLEAN

Answers(r) == Trust(r) /\ ~reading[r].raises

(* The retry does what it is for where its own claim about HEAD holds      *)
(* ("HEAD can never cycle back", _retrying_a_forget_race) and the attempt  *)
(* did not begin inside a forget: the changes of a trusted answer are      *)
(* those of the branch it began and ended on, none of a half rewritten     *)
(* history, and no description is missing.                                 *)
TrustIsEarned ==
    [][\A r \in Readers : Answers(r) /\ ~reading[r].inside /\ ~returned =>
        reading[r].whole /\ reading[r].current]_allVars

(* A read fails with a KeyError only because a forget has rewritten the    *)
(* history or pruned it (ForgetRaceError): saves, marks, a branch without  *)
(* a commit and a cache another reader filled never make one.              *)
KeyErrorsAreOfAForget ==
    [][\A r \in Readers : (Trust(r) \/ GiveUp(r)) /\ reading[r].raises =>
            generation > 0]_allVars

(* What every read is served from, however walks, saves and forgets have   *)
(* crossed: an index accepted for HEAD lists every revision of HEAD, and   *)
(* whatever else it lists a forget has pruned.  Rule 4 of the module's     *)
(* docstring says more, that what was built before a rewrite is never      *)
(* accepted; but an index stored after forget had dropped the cache can be *)
(* extended across the rewrite until the old HEAD is pruned.  What is left *)
(* of it can end a read in a KeyError and never show another history.      *)
AcceptedIndexIsComplete ==
    index # NoIndex /\ index.head = head =>
        /\ History(head) \subseteq index.order
        /\ checkpoint = NoPlan => (index.order \ History(head)) \cap objects = {}
================================================================================
