------------------------------ MODULE Operations -------------------------------
(***************************************************************************)
(* operations.py: putting something back on a dashboard.  Every operation  *)
(* reads the live dashboard, works out what it would write, has the        *)
(* recorder keep what is there, checks that it was kept, and saves; there  *)
(* is an await between any two of these, and no lock over them.            *)
(*                                                                         *)
(* One dashboard: the operations know no other.  Of the recorder and the   *)
(* store the model keeps what modules Recorder and AtomicHistory say of    *)
(* them: captures read and write in the order they were asked for, and a   *)
(* write is one step.                                                      *)
(***************************************************************************)
EXTENDS Integers, Sequences, Functions

CONSTANTS Cards, Faces, Absent, \* what may be on a dashboard, and how it may look
          Gone,      \* Home Assistant does not know the dashboard
          Unsaved,   \* it knows it and has no configuration for it
          Unread,
          Ops, Listener, Pass,
          MaxChanges, \* bound: after that many changes people make no more
          MaxAsked    \* bound: operations asked for

ASSUME ValuesAssumption ==
    /\ Absent \notin Faces
    /\ Gone # Unsaved /\ Unread \notin {Gone, Unsaved}
    /\ {Listener, Pass} \cap Ops = {} /\ Listener # Pass
ASSUME BoundsAssumption == MaxChanges \in Nat /\ MaxAsked \in Nat

VARIABLES
    live,     \* the dashboard as Home Assistant holds it
    changes,  \* changes made to it by anybody
    asked,    \* operations asked for
    history,  \* its entries, oldest first: a state, or Gone
    captures, \* the recorder's queue: who asked, and what was read when
    moved,    \* a panel moved, and a look at all dashboards is due
    op        \* per caller: the operation under way; in it "known" and "kept"
              \* are history variables: the change after which it last took
              \* note of the dashboard, and whether its capture recorded it

vars == <<live, changes, asked, history, captures, moved, op>>

Config == [Cards -> Faces \cup {Absent}]
Empty  == [c \in Cards |-> Absent]
States == Config \cup {Gone, Unsaved}

ASSUME MarkersAssumption == {Gone, Unsaved, Unread} \cap Config = {}

Recorded == Range(history)
Newest   == IF history = <<>> THEN Gone ELSE history[Len(history)]

Asked(o) == \E i \in DOMAIN captures : captures[i].by = o

Idle == [at |-> "idle", kind |-> "none", seen |-> Gone, result |-> Empty,
         touched |-> {}, lost |-> FALSE, marked |-> Unread, known |-> 0, kept |-> FALSE]

Init ==
    /\ live \in Config
    /\ history \in {<<c>> : c \in Config}
    /\ changes = 0 /\ asked = 0
    /\ captures = <<>>
    /\ moved = FALSE
    /\ op = [o \in Ops |-> Idle]

-----------------------------------------------------------------------------
(* Home Assistant and the people at it.  A save is heard at once; what     *)
(* creates or deletes a dashboard only moves a panel.                      *)

Ask(by) == captures' = Append(captures, [by |-> by, read |-> Unread, at |-> 0])

(* One card is put there, changed or taken away. *)
Save ==
    /\ live # Gone
    /\ changes < MaxChanges
    /\ LET now == IF live = Unsaved THEN Empty ELSE live IN
       \E c \in Cards, face \in Faces \cup {Absent} :
         live' = [now EXCEPT ![c] = face]
    /\ changes' = changes + 1
    /\ Ask(Listener)
    /\ UNCHANGED <<asked, history, moved, op>>

PanelMoves(dashboard) ==
    /\ live' = dashboard
    /\ changes' = changes + 1
    /\ moved' = TRUE

Delete ==
    /\ live # Gone
    /\ changes < MaxChanges
    /\ PanelMoves(Gone)
    /\ UNCHANGED <<asked, history, captures, op>>

Create ==
    /\ live = Gone
    /\ changes < MaxChanges
    /\ PanelMoves(Unsaved)
    /\ UNCHANGED <<asked, history, captures, op>>

-----------------------------------------------------------------------------
(* The recorder (capture.py, module Recorder): read in turn, write in      *)
(* turn, and either may fail.                                              *)

Reconcile ==
    /\ moved
    /\ moved' = FALSE
    /\ Ask(Pass)
    /\ UNCHANGED <<live, changes, asked, history, op>>

AnyTurn(i) == i \in DOMAIN captures

Turn(i) == i \in DOMAIN captures /\ \A j \in 1 .. i - 1 : captures[j].read # Unread

Read(i) ==
    /\ Turn(i)
    /\ captures[i].read = Unread
    /\ captures' = [captures EXCEPT ![i].read = live, ![i].at = changes]
    /\ UNCHANGED <<live, changes, asked, history, moved, op>>

Enters(capture) ==
    CASE capture.read \in Config -> history' = IF capture.read = Newest THEN history
                                               ELSE Append(history, capture.read)
      [] capture.read = Gone     -> history' = IF capture.by = Pass /\ Newest # Gone
                                               THEN Append(history, Gone) ELSE history
      [] OTHER                   -> UNCHANGED history

Write ==
    /\ captures # <<>>
    /\ Head(captures).read # Unread
    /\ captures' = Tail(captures)
    /\ Enters(Head(captures))
    /\ IF Head(captures).by \in Ops /\ Head(captures).read \in Config
       THEN op' = [op EXCEPT ![Head(captures).by].known = Head(captures).at,
                             ![Head(captures).by].kept = TRUE]
       ELSE UNCHANGED op
    /\ UNCHANGED <<live, changes, asked, moved>>

(* A capture may fail when it reads as well as when it writes: nothing is  *)
(* recorded, and nothing is said.                                          *)
CaptureFails ==
    /\ captures # <<>>
    /\ captures' = Tail(captures)
    /\ UNCHANGED <<live, changes, asked, history, moved, op>>

-----------------------------------------------------------------------------
(* What an operation would write, from what it saw.                        *)

Seen == IF live \in Config THEN live ELSE Empty

Begins(o, kind, result, touched) ==
    /\ op[o].at = "idle"
    /\ asked < MaxAsked
    /\ asked' = asked + 1
    /\ op' = [op EXCEPT ![o] =
                 [Idle EXCEPT !.at = IF kind = "state" /\ live = Gone
                                     THEN "creating" ELSE "previewed",
                              !.kind = kind, !.seen = live, !.result = result,
                              !.touched = touched, !.known = changes]]
    /\ UNCHANGED <<live, changes, history, captures, moved>>

(* async_restore_state: the whole dashboard as it was. *)
RestoreState(o, target) ==
    /\ target \in Config
    /\ live # target
    /\ Begins(o, "state", target, Cards)

(* async_restore_deleted: one card that was there then and is gone now. *)
RemovedSince(then) == {c \in Cards : then[c] # Absent /\ Seen[c] = Absent}

RestoreDeleted(o, then, c) ==
    /\ then \in Config
    /\ c \in RemovedSince(then)
    /\ Begins(o, "deleted", [Seen EXCEPT ![c] = then[c]], {c})

(* async_undo_change: the cards one change altered, each as it was before  *)
(* it.  A card that is neither as before nor as after it refuses the undo. *)
Altered(before, after) == {c \in Cards : before[c] # after[c]}

UndoChange(o, before, after) ==
    /\ before \in Config /\ after \in Config
    /\ live # Gone
    /\ \A c \in Altered(before, after) : Seen[c] \in {before[c], after[c]}
    /\ LET result == [c \in Cards |-> IF c \in Altered(before, after)
                                      THEN before[c] ELSE Seen[c]]
       IN  result # Seen /\ Begins(o, "undo", result, Altered(before, after))

(* async_record_now has nothing to preview and nothing to write. *)
RecordNow(o) ==
    /\ op[o].at = "idle"
    /\ asked < MaxAsked
    /\ asked' = asked + 1
    /\ op' = [op EXCEPT ![o] = [Idle EXCEPT !.at = "keeping", !.kind = "record",
                                            !.known = changes]]
    /\ Ask(o)
    /\ UNCHANGED <<live, changes, history, moved>>

-----------------------------------------------------------------------------
(* Confirmed: keep what is there, and write.                               *)

Steps(o, step) == op' = [op EXCEPT ![o].at = step]

Ends(o) == op' = [op EXCEPT ![o] = Idle]

(* async_create_dashboard: Home Assistant refuses a name that is taken. *)
CreateDashboard(o) ==
    /\ op[o].at = "creating"
    /\ IF live = Gone
       THEN /\ PanelMoves(Unsaved)
            /\ op' = [op EXCEPT ![o].at = "saving", ![o].known = changes + 1]
       ELSE Ends(o) /\ UNCHANGED <<live, changes, moved>>
    /\ UNCHANGED <<asked, history, captures>>

(* keep_as_version comes with async_restore_state alone. *)
AfterCheck(o) == {"saving"} \cup IF op[o].kind = "state" THEN {"naming"} ELSE {}

(* _keep_the_live_state: nothing to keep where nothing was live. *)
Keep(o) ==
    /\ op[o].at = "previewed"
    /\ IF op[o].seen \in Config
       THEN Ask(o) /\ Steps(o, "keeping")
       ELSE \E next \in AfterCheck(o) : Steps(o, next) /\ UNCHANGED captures
    /\ UNCHANGED <<live, changes, asked, history, moved>>

(* The check asks the history, not the capture; it may fail to read it. *)
AlwaysKept(o) == TRUE

OnceKept(o) == op[o].seen \in Recorded

IsKept(o) == Newest = op[o].seen

(* _refuse_unrecorded_state: a caller who insists goes on without it, and  *)
(* then no version is made.                                                *)
CheckKept(o) ==
    /\ op[o].at = "keeping" /\ op[o].kind # "record"
    /\ ~Asked(o)
    /\ \/ IsKept(o) /\ \E next \in AfterCheck(o) : Steps(o, next)
       \/ Ends(o)
       \/ op' = [op EXCEPT ![o].lost = TRUE, ![o].at = "saving"]
    /\ UNCHANGED <<live, changes, asked, history, captures, moved>>

(* _async_keep_as_version and async_create_version: the newest entry, if   *)
(* the dashboard still looks like it.                                      *)
Name(o) ==
    /\ op[o].at = "naming"
    /\ op' = [op EXCEPT ![o].marked = Newest, ![o].at = "comparing"]
    /\ UNCHANGED <<live, changes, asked, history, captures, moved>>

AnyState(state) == state # Gone

Nameable(state) == state # Gone /\ (live \notin Config \/ live = state)

Compare(o) ==
    /\ op[o].at = "comparing"
    /\ op' = [op EXCEPT ![o].at = "saving",
                        ![o].marked = IF Nameable(@) THEN @ ELSE Unread,
                        ![o].known = IF Nameable(op[o].marked) THEN changes ELSE @]
    /\ UNCHANGED <<live, changes, asked, history, captures, moved>>

(* async_save_config: the dashboard as the preview had it, whatever is     *)
(* there by now; unless Home Assistant no longer knows it.                 *)
SaveConfig(o) ==
    /\ op[o].at = "saving"
    /\ IF live = Gone
       THEN UNCHANGED <<live, changes, captures>>
       ELSE /\ live' = op[o].result
            /\ changes' = changes + 1
            /\ Ask(Listener)
    /\ Ends(o)
    /\ UNCHANGED <<asked, history, moved>>

(* async_record_now: the live state, read after the capture, and the       *)
(* newest entry, read after that.                                          *)
ReadsLive(o) ==
    /\ op[o].at = "keeping" /\ op[o].kind = "record"
    /\ ~Asked(o)
    /\ IF live \in Config
       THEN op' = [op EXCEPT ![o].seen = live, ![o].at = "answering"]
       ELSE Ends(o)
    /\ UNCHANGED <<live, changes, asked, history, captures, moved>>

AnswersRecorded(o) ==
    /\ op[o].at = "answering"
    /\ Ends(o)
    /\ UNCHANGED <<live, changes, asked, history, captures, moved>>

-----------------------------------------------------------------------------
Asking(o) ==
    \/ \E i \in DOMAIN history :
         \/ RestoreState(o, history[i])
         \/ \E c \in Cards : RestoreDeleted(o, history[i], c)
         \/ i > 1 /\ UndoChange(o, history[i - 1], history[i])
    \/ RecordNow(o)

Confirmed(o) ==
    \/ CreateDashboard(o) \/ Keep(o) \/ CheckKept(o) \/ Name(o) \/ Compare(o)
    \/ SaveConfig(o) \/ ReadsLive(o) \/ AnswersRecorded(o)

Next ==
    \/ Save \/ Delete \/ Create
    \/ Reconcile \/ Write \/ CaptureFails \/ \E i \in DOMAIN captures : Read(i)
    \/ \E o \in Ops : Asking(o) \/ Confirmed(o)

Spec == Init /\ [][Next]_vars

-----------------------------------------------------------------------------
Operation == [at : {"idle", "creating", "previewed", "keeping", "naming", "comparing",
                    "saving", "answering"},
              kind : {"none", "state", "deleted", "undo", "record"},
              seen : States, result : Config, touched : SUBSET Cards, lost : BOOLEAN,
              marked : States \cup {Unread}, known : Nat, kept : BOOLEAN]

Captures == [by : Ops \cup {Listener, Pass}, read : States \cup {Unread}, at : Nat]

OperationsTypeOK ==
    /\ live \in States
    /\ changes \in Nat /\ asked \in 0 .. MaxAsked
    /\ history \in Seq(Config \cup {Gone})
    /\ captures \in Seq(Captures)
    /\ moved \in BOOLEAN
    /\ op \in [Ops -> Operation]
    /\ \A i \in DOMAIN captures : captures[i].at <= changes
    /\ \A o \in Ops : op[o].known <= changes /\ (Asked(o) => op[o].at = "keeping")

Writes(o) == op[o].at = "saving" /\ op'[o].at = "idle" /\ live # Gone

(* Somebody changed the dashboard after the operation last took note of    *)
(* it: after its capture read it, or, if that failed, after the preview.   *)
Overtaken(o) == changes > op[o].known

(* README.md:20: before a restore the current state is "confirmed to be in *)
(* the recorded history".  What a write replaces is an entry, unless the   *)
(* caller was told and insisted, or was overtaken.                         *)
ReplacedIsRecorded ==
    [][\A o \in Ops : Writes(o) /\ live \in Config
         => live \in Recorded \/ op[o].lost \/ Overtaken(o)]_vars

(* operations.py:1002-1006, of the undo: nobody's work since the preview   *)
(* is thrown away.  A write alters only the cards the operation is about:  *)
(* a save that came before the capture makes the check refuse, although    *)
(* the check asks after something else.                                    *)
OnlyItsOwnCards ==
    [][\A o \in Ops : Writes(o)
         => \/ op[o].lost \/ Overtaken(o)
            \/ \A c \in Cards \ op[o].touched : live'[c] = Seen[c]]_vars

(* operations.py:864-882: the version a restore leaves behind marks the    *)
(* state it replaced.                                                      *)
VersionIsOfTheReplaced ==
    [][\A o \in Ops : Writes(o) /\ live \in Config /\ op[o].marked # Unread
         => op[o].marked = live \/ Overtaken(o)]_vars

(* operations.py:641-650: record_now answers that the state is not in the  *)
(* history only if its capture failed, nothing was there to record, or the *)
(* dashboard changed after the capture had read it.                        *)
FailureIsReal ==
    [][\A o \in Ops : op[o].at = "answering" /\ op'[o].at = "idle" /\ ~IsKept(o)
         => ~op[o].kept \/ Overtaken(o)]_vars

================================================================================
