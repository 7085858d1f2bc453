------------------------------- MODULE Recorder --------------------------------
(***************************************************************************)
(* capture.py: the recorder.  It hears of saves, looks at all dashboards   *)
(* when it starts and after a panel has moved, and writes what it read.    *)
(* Reading and writing are two sections with an asyncio lock each, handed  *)
(* on in the order they were asked for; a reload leaves the work of the    *)
(* old instance running beside a new instance with locks of its own.       *)
(*                                                                         *)
(* A state of a dashboard is the moment (clock) it was saved at.  The      *)
(* store is what it promises (AtomicHistory): one write is one step.       *)
(***************************************************************************)
EXTENDS Integers, FiniteSets, SequencesExt

CONSTANTS Keys,        \* dashboards
          MaxClock,    \* bound: changes made to dashboards, the first state included
          MaxInstances, \* bound: recorders between two starts of the process
          Reconcile,   \* the capture of all dashboards after a panel moved
          Opening,     \* the capture of all dashboards at the start
          NoKey

ASSUME KeysAssumption == IsFiniteSet(Keys)
ASSUME TasksAssumption ==
    {Reconcile, Opening, NoKey} \cap Keys = {} /\ Reconcile # Opening
ASSUME ClockAssumption == MaxClock \in Nat /\ MaxClock >= 1
ASSUME InstancesAssumption == MaxInstances \in Nat /\ MaxInstances >= 1

VARIABLES
    live,       \* Home Assistant: each dashboard, its last save, its last deletion
    clock,      \* number of changes made to dashboards
    head,       \* the history: each dashboard as its newest entry has it
    phase,      \* "down": no process; "unloaded": no recorder; "open"
    now,        \* the instance in hass.data
    opened,     \* _async_open has come to the opening pass
    armed,      \* the listener for panels_updated is there
    pending,    \* self._pending: a reconciliation is due
    reading,    \* per instance: who holds and who waits for _reading
    walk,       \* per instance: how far the holder of _reading has come
    writing,    \* per instance: who holds and who waits for _writing
    turn,       \* per instance: what the holder of _writing has left to do
    loose,      \* executor jobs whose task has been cancelled
    forgetting, \* the dashboard async_forget has found to be absent
    behind,     \* history variable: why a change may have been missed since all
                \* dashboards were last looked at: "failed", "unheard"
    overlapped  \* history variable: two instances have been at work at once

harness == <<live, clock>>
entry   == <<phase, now, opened, armed, pending>>
queues  == <<reading, walk, writing, turn>>
vars    == <<harness, head, entry, queues, loose, forgetting, behind, overlapped>>

Passes == {Reconcile, Opening}
Tasks  == Keys \cup Passes
Stamps == 0 .. MaxClock
Instances == 1 .. MaxInstances

(* What a capture read: the save it found of each dashboard (0: no         *)
(* configuration, or not asked for) and the dashboards Home Assistant has. *)
Reads == [task : Tasks, configs : [Keys -> Stamps], known : SUBSET Keys]

NoWalk == [active |-> FALSE, seen |-> {}, size |-> 0, configs |-> [k \in Keys |-> 0]]
NoTurn == [active |-> FALSE, deletions |-> {}, writes |-> {}]

Present == {k \in Keys : live[k].is # "gone"}

Idle(i) == reading[i] = <<>> /\ writing[i] = <<>>

Init ==
    /\ live \in [Keys -> {[is |-> "gone", saved |-> 0, gone |-> 0],
                          [is |-> "saved", saved |-> 1, gone |-> 0]}]
    /\ clock = 1
    /\ head = [k \in Keys |-> [at |-> 0, is |-> "never"]]
    /\ phase = "down" /\ now = 1
    /\ opened = FALSE /\ armed = FALSE /\ pending = FALSE
    /\ reading = [i \in Instances |-> <<>>]
    /\ walk = [i \in Instances |-> NoWalk]
    /\ writing = [i \in Instances |-> <<>>]
    /\ turn = [i \in Instances |-> NoTurn]
    /\ loose = {}
    /\ forgetting = NoKey
    /\ behind = {}
    /\ overlapped = FALSE

-----------------------------------------------------------------------------
(* Home Assistant.  A save fires lovelace_updated; a dashboard that is     *)
(* created or deleted moves a panel.                                       *)

Change(k, dashboard) ==
    /\ clock < MaxClock
    /\ clock' = clock + 1
    /\ live' = [live EXCEPT ![k] = dashboard]

(* async_capture: queue for _reading. *)
Capture(task) == reading' = [reading EXCEPT ![now] = Append(@, task)]

(* _handle_event; before async_start nobody listens. *)
HeardWhenIdle(k) ==
    IF phase = "open" /\ reading[now] = <<>> THEN Capture(k) ELSE UNCHANGED reading

Heard(k) == IF phase = "open" THEN Capture(k) ELSE UNCHANGED reading

Save(k) ==
    /\ phase # "down"
    /\ live[k].is # "gone"
    /\ Change(k, [live[k] EXCEPT !.is = "saved", !.saved = clock + 1])
    /\ Heard(k)
    /\ UNCHANGED <<head, entry, walk, writing, turn, loose, forgetting, behind, overlapped>>

(* _handle_panels: a pending reconciliation is put off, not doubled. *)
PanelMoved ==
    /\ pending' = armed
    /\ behind' = IF armed THEN behind ELSE behind \cup {"unheard"}
    /\ UNCHANGED <<head, phase, now, opened, armed, queues, loose, forgetting, overlapped>>

Create(k) ==
    /\ phase # "down"
    /\ live[k].is = "gone"
    /\ Change(k, [live[k] EXCEPT !.is = "unsaved"])
    /\ PanelMoved

Delete(k) ==
    /\ phase # "down"
    /\ live[k].is # "gone"
    /\ Change(k, [live[k] EXCEPT !.is = "gone", !.gone = clock + 1])
    /\ PanelMoved

(* A storage file edited while Home Assistant is not running. *)
EditOutside(k) ==
    /\ phase = "down"
    /\ \/ Change(k, [live[k] EXCEPT !.is = "saved", !.saved = clock + 1])
       \/ Change(k, [live[k] EXCEPT !.is = "gone", !.gone = clock + 1])
    /\ UNCHANGED <<head, entry, queues, loose, forgetting, behind, overlapped>>

-----------------------------------------------------------------------------
(* Starting, unloading, stopping.                                          *)

(* async_setup_entry up to async_start: listen for saves. *)
Setup ==
    /\ phase # "open"
    /\ phase' = "open"
    /\ opened' = FALSE
    /\ overlapped' = (overlapped \/ \E i \in Instances : ~Idle(i))
    /\ UNCHANGED <<harness, head, now, armed, pending, queues, loose, forgetting, behind>>

(* _async_open, once the repair of the store is through. *)
OpeningPass ==
    /\ phase = "open"
    /\ ~opened
    /\ opened' = TRUE
    /\ Capture(Opening)
    /\ UNCHANGED <<harness, head, phase, now, armed, pending, walk, writing, turn,
                   loose, forgetting, behind, overlapped>>

(* The job the cancelled opening pass had in the executor, if it had one. *)
JobsOf(t, configs) ==
    IF t.deletions # {}
    THEN {[key |-> k, deletes |-> TRUE, at |-> 0] : k \in t.deletions}
    ELSE {[key |-> k, deletes |-> FALSE, at |-> configs[k]] : k \in t.writes}

(* A lock is released when the task that holds it is cancelled. *)
Released(locks, i, holds, free) ==
    IF holds THEN [locks EXCEPT ![i] = free] ELSE locks

(* The opening pass is asked for once: it stands in one place of a queue.  *)
Without(queue, places) ==
    IF places = {} THEN queue ELSE RemoveAt(queue, CHOOSE n \in places : TRUE)

(* async_unload_entry: the listeners and the timer go, the background task *)
(* is cancelled wherever it waits or works.  A job of its in the executor  *)
(* runs on, and the lock it worked under is released all the same.  What   *)
(* else is queued stays.                                                   *)
Unload ==
    /\ phase = "open"
    /\ now + 1 \in Instances
    /\ phase' = "unloaded"
    /\ now' = now + 1
    /\ opened' = FALSE /\ armed' = FALSE /\ pending' = FALSE
    /\ LET reads  == reading[now] # <<>> /\ Head(reading[now]) = Opening
           writes == writing[now] # <<>> /\ Head(writing[now]).task = Opening
       IN /\ walk' = Released(walk, now, reads, NoWalk)
          /\ turn' = Released(turn, now, writes, NoTurn)
          /\ \/ loose' = loose
             \/ /\ writes
                /\ \E job \in JobsOf(turn[now], Head(writing[now]).configs) :
                     loose' = loose \cup {job}
    /\ overlapped' = (overlapped \/ loose' # {})
    /\ reading' = [reading EXCEPT ![now] = Without(@, {n \in DOMAIN @ : @[n] = Opening})]
    /\ writing' = [writing EXCEPT ![now] = Without(@, {n \in DOMAIN @ : @[n].task = Opening})]
    /\ UNCHANGED <<harness, head, forgetting, behind>>

(* The process ends, at any moment. *)
Restart ==
    /\ phase # "down"
    /\ phase' = "down" /\ now' = 1
    /\ opened' = FALSE /\ armed' = FALSE /\ pending' = FALSE
    /\ reading' = [i \in Instances |-> <<>>]
    /\ walk' = [i \in Instances |-> NoWalk]
    /\ writing' = [i \in Instances |-> <<>>]
    /\ turn' = [i \in Instances |-> NoTurn]
    /\ loose' = {}
    /\ forgetting' = NoKey
    /\ overlapped' = FALSE
    /\ UNCHANGED <<harness, head, behind>>

(* _async_reconcile: the timer of async_call_later has run out. *)
ReconcileDue ==
    /\ pending
    /\ pending' = FALSE
    /\ Capture(Reconcile)
    /\ UNCHANGED <<harness, head, phase, now, opened, armed, walk, writing, turn,
                   loose, forgetting, behind, overlapped>>

-----------------------------------------------------------------------------
(* _async_read, under _reading.                                            *)

(* async_opening_pass after its capture: listen for panels. *)
ArmAfter(task) == armed' = (armed \/ task = Opening)

(* The wait for _writing: an asyncio lock is handed on in order. *)
NewestFirst(waiting, read) ==
    IF waiting = <<>> THEN <<read>> ELSE <<Head(waiting), read>> \o Tail(waiting)

InTurn(waiting, read) == Append(waiting, read)

(* The last dashboard has been read: metadata and known keys follow        *)
(* without a wait, and the wait for _writing begins where the one for      *)
(* _reading ends.                                                          *)
HandOver(i, configs) ==
    LET task == Head(reading[i])
        kept == [k \in Keys |-> IF task \in Passes \cup {k} THEN configs[k] ELSE 0]
    IN  /\ reading' = [reading EXCEPT ![i] = Tail(@)]
        /\ walk' = [walk EXCEPT ![i] = NoWalk]
        /\ writing' = [writing EXCEPT ![i] =
               InTurn(@, [task |-> task, configs |-> kept, known |-> Present])]

BeginRead(i) ==
    /\ reading[i] # <<>>
    /\ ~walk[i].active
    /\ behind' = IF Head(reading[i]) \in Passes THEN {} ELSE behind
    /\ IF Present = {}
       THEN HandOver(i, NoWalk.configs)
       ELSE /\ walk' = [walk EXCEPT ![i] =
                          [NoWalk EXCEPT !.active = TRUE, !.size = Cardinality(Present)]]
            /\ UNCHANGED <<reading, writing>>
    /\ UNCHANGED <<harness, head, entry, turn, loose, forgetting, overlapped>>

(* async_get_all_configs: one turn of its loop.  Each load may suspend; a  *)
(* dashboard without a configuration, or one that fails to load, is        *)
(* passed over.                                                            *)
Load(i, k) ==
    /\ walk[i].active
    /\ Cardinality(Present) = walk[i].size
    /\ k \in Present \ walk[i].seen
    /\ \E fails \in {FALSE, TRUE} :
         LET seen    == walk[i].seen \cup {k}
             configs == [walk[i].configs EXCEPT ![k] =
                           IF live[k].is = "saved" /\ ~fails THEN live[k].saved ELSE 0]
         IN  /\ fails => live[k].is = "saved"
             /\ behind' = IF fails THEN behind \cup {"failed"} ELSE behind
             /\ IF Present \subseteq seen
                THEN HandOver(i, configs)
                ELSE /\ walk' = [walk EXCEPT ![i].seen = seen, ![i].configs = configs]
                     /\ UNCHANGED <<reading, writing>>
    /\ UNCHANGED <<harness, head, entry, turn, loose, forgetting, overlapped>>

(* A dashboard came or went during the loop, and the loop over the         *)
(* dictionary raises: nothing has been read.                               *)
ReadBreaks(i) ==
    /\ walk[i].active
    /\ Cardinality(Present) # walk[i].size
    /\ ArmAfter(Head(reading[i]))
    /\ reading' = [reading EXCEPT ![i] = Tail(@)]
    /\ walk' = [walk EXCEPT ![i] = NoWalk]
    /\ UNCHANGED <<harness, head, phase, now, opened, pending, writing, turn, loose,
                   forgetting, behind, overlapped>>

-----------------------------------------------------------------------------
(* _async_write, under _writing.                                           *)

Entered(t) == {k \in Keys : t.configs[k] # 0}

DeletionsByConfig(t) ==
    IF t.task \in Passes
    THEN {k \in Keys : head[k].is = "saved"} \ Entered(t)
    ELSE {}

(* deletions_to_record: what the history holds now and Home Assistant did  *)
(* not know when it was asked.                                             *)
DeletionsToRecord(t) ==
    IF t.task \in Passes
    THEN {k \in Keys : head[k].is = "saved"} \ t.known
    ELSE {}

(* The lock is granted; a pass lists the recorded dashboards, or fails to. *)
BeginWrite(i) ==
    /\ writing[i] # <<>>
    /\ ~turn[i].active
    /\ LET t == Head(writing[i]) IN
       \E listed \in {TRUE, t.task \notin Passes} :
         /\ turn' = [turn EXCEPT ![i] =
                       [NoTurn EXCEPT !.active = TRUE, !.writes = Entered(t),
                          !.deletions = IF listed THEN DeletionsToRecord(t) ELSE {}]]
         /\ behind' = IF listed THEN behind ELSE behind \cup {"failed"}
    /\ UNCHANGED <<harness, head, entry, reading, walk, writing, loose, forgetting,
                   overlapped>>

(* mark_deleted: nothing to do where the history holds nothing. *)
RecordDeletion(k) ==
    head' = [head EXCEPT ![k].is = IF @ = "saved" THEN "deleted" ELSE @]

(* write_snapshot: an unchanged dashboard produces no revision. *)
RecordState(k, at) == head' = [head EXCEPT ![k] = [at |-> at, is |-> "saved"]]

MarkDeleted(i, k) ==
    /\ turn[i].active
    /\ k \in turn[i].deletions
    /\ turn' = [turn EXCEPT ![i].deletions = @ \ {k}]
    /\ \/ RecordDeletion(k) /\ behind' = behind
       \/ UNCHANGED head /\ behind' = behind \cup {"failed"}
    /\ UNCHANGED <<harness, entry, reading, walk, writing, loose, forgetting, overlapped>>

(* _write_one: a failure is logged, and the next dashboard follows. *)
WriteOne(i, k) ==
    /\ turn[i].active
    /\ turn[i].deletions = {}
    /\ k \in turn[i].writes
    /\ turn' = [turn EXCEPT ![i].writes = @ \ {k}]
    /\ \/ RecordState(k, Head(writing[i]).configs[k]) /\ behind' = behind
       \/ UNCHANGED head /\ behind' = behind \cup {"failed"}
    /\ UNCHANGED <<harness, entry, reading, walk, writing, loose, forgetting, overlapped>>

EndWrite(i) ==
    /\ turn[i].active
    /\ turn[i].deletions = {} /\ turn[i].writes = {}
    /\ ArmAfter(Head(writing[i]).task)
    /\ writing' = [writing EXCEPT ![i] = Tail(@)]
    /\ turn' = [turn EXCEPT ![i] = NoTurn]
    /\ UNCHANGED <<harness, head, phase, now, opened, pending, reading, walk, loose,
                   forgetting, behind, overlapped>>

(* An executor job whose task is gone runs to its end. *)
LooseJob(job) ==
    /\ loose' = loose \ {job}
    /\ \/ job.deletes /\ RecordDeletion(job.key)
       \/ ~job.deletes /\ RecordState(job.key, job.at)
       \/ UNCHANGED head
    /\ UNCHANGED <<harness, entry, queues, forgetting, behind, overlapped>>

-----------------------------------------------------------------------------
(* operations.async_forget.  It takes no lock of the recorder.             *)

(* The dashboard is in the history and Home Assistant does not know it. *)
ConfirmForget(k) ==
    /\ phase = "open"
    /\ forgetting = NoKey
    /\ head[k].is \in {"saved", "deleted"}
    /\ k \notin Present
    /\ forgetting' = k
    /\ UNCHANGED <<harness, head, entry, queues, loose, behind, overlapped>>

(* store.forget: what was saved before the last deletion is gone for good. *)
(* A dashboard created again meanwhile loses what was recorded since.      *)
Forget ==
    /\ forgetting # NoKey
    /\ head' = [head EXCEPT ![forgetting] =
                  [at |-> live[forgetting].gone, is |-> "forgotten"]]
    /\ forgetting' = NoKey
    /\ behind' = IF forgetting \in Present THEN behind \cup {"failed"} ELSE behind
    /\ UNCHANGED <<harness, entry, queues, loose, overlapped>>

-----------------------------------------------------------------------------
Working(i) ==
    \/ BeginRead(i)
    \/ \E k \in Keys : Load(i, k)
    \/ ReadBreaks(i)
    \/ BeginWrite(i)
    \/ \E k \in Keys : MarkDeleted(i, k) \/ WriteOne(i, k)
    \/ EndWrite(i)

Changing == \E k \in Keys : Save(k) \/ Create(k) \/ Delete(k) \/ EditOutside(k)

Next ==
    \/ Changing
    \/ Setup \/ OpeningPass \/ Unload \/ Restart
    \/ ReconcileDue
    \/ \E i \in Instances : Working(i)
    \/ \E job \in loose : LooseJob(job)
    \/ Forget \/ \E k \in Keys : ConfirmForget(k)

Spec == Init /\ [][Next]_vars

(* The event loop and the executor run what is due. *)
FairSpec ==
    /\ Spec
    /\ WF_vars(Setup) /\ WF_vars(OpeningPass) /\ WF_vars(ReconcileDue) /\ WF_vars(Forget)
    /\ \A i \in Instances : WF_vars(Working(i))

-----------------------------------------------------------------------------
RecorderTypeOK ==
    /\ live \in [Keys -> [is : {"gone", "unsaved", "saved"}, saved : Stamps, gone : Stamps]]
    /\ clock \in Stamps
    /\ head \in [Keys -> [at : Stamps, is : {"never", "saved", "deleted", "forgotten"}]]
    /\ phase \in {"down", "unloaded", "open"} /\ now \in Instances
    /\ {opened, armed, pending, overlapped} \subseteq BOOLEAN
    /\ behind \subseteq {"failed", "unheard"}
    /\ reading \in [Instances -> Seq(Tasks)]
    /\ walk \in [Instances -> [active : BOOLEAN, seen : SUBSET Keys,
                               size : 0 .. Cardinality(Keys), configs : [Keys -> Stamps]]]
    /\ writing \in [Instances -> Seq(Reads)]
    /\ turn \in [Instances -> [active : BOOLEAN, deletions : SUBSET Keys,
                               writes : SUBSET Keys]]
    /\ loose \subseteq [key : Keys, deletes : BOOLEAN, at : Stamps]
    /\ forgetting \in Keys \cup {NoKey}
    /\ \A i \in Instances : walk[i].active => reading[i] # <<>>
    /\ \A i \in Instances : turn[i].active => writing[i] # <<>>

(* capture.py:51-58: states enter the history in the order they were read. *)
(* With one recorder at work, no state is recorded after one saved later.  *)
Newer(k) == head'[k].is = "saved" => head'[k].at >= head[k].at

RecordedInOrder ==
    [][\A k \in Keys : overlapped \/ head[k].is = "forgotten" \/ Newer(k)]_vars

(* capture.py:314-316: only a dashboard that Home Assistant no longer      *)
(* knows counts as deleted: the state an entry says is gone was dropped by *)
(* Home Assistant after it was saved.                                      *)
DroppedSince(k) ==
    head[k].is = "saved" /\ head'[k].is = "deleted" => live[k].gone > head[k].at

DeletionsAreReal == [][\A k \in Keys : overlapped \/ DroppedSince(k)]_vars

(* operations.py:1723: "Remove a deleted dashboard's history for good":    *)
(* what is recorded after a forget was saved after that deletion.          *)
ForgottenForGood ==
    [][\A k \in Keys : head[k].is = "forgotten" /\ head'[k].is = "saved"
                         => head'[k].at > head[k].at]_vars

Agrees(k) ==
    CASE live[k].is = "saved"   -> head[k] = [at |-> live[k].saved, is |-> "saved"]
      [] live[k].is = "gone"    -> head[k].is # "saved"
      [] live[k].is = "unsaved" -> TRUE

(* docs/how-it-works.md:108: "Four triggers ensure no change is missed".   *)
(* Once the process stays up, the history comes to hold what Home          *)
(* Assistant holds - whatever was saved, read late, interrupted or         *)
(* reloaded before - unless a write failed or a panel moved unheard after  *)
(* the last look at everything, or two recorders were at work at once.     *)
CatchesUp ==
    <>[](phase = "open" /\ behind = {} /\ ~overlapped) => \A k \in Keys : <>[]Agrees(k)

================================================================================
