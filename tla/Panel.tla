---------------------------------- MODULE Panel ----------------------------------
(***************************************************************************)
(* The page that shows one dashboard's history (panel.js), and the history *)
(* it asks for, a page at a time (operations.py, async_history; store.py,  *)
(* list_changes).                                                          *)
(*                                                                         *)
(* The page is one thread of callbacks.  Every question it asks is         *)
(* answered later, or never; meanwhile the user clicks, a save or the      *)
(* rewriting of a forget is announced, the connection goes away and comes  *)
(* back.  What each callback may still write is decided by the ticket of   *)
(* the list ("mine" here: whether nobody has claimed it since).            *)
(*                                                                         *)
(* A revision is a record of the dashboard, its number there, when it was  *)
(* saved, and the forget that rewrote it last.  A forget is one step of    *)
(* the history, with its two announcements around it; what a reader sees   *)
(* in the middle of one is the subject of StoreReaders.                    *)
(*                                                                         *)
(* A dialog stands from its preview on; the reload every writing flow ends *)
(* on follows what was applied.                                            *)
(*                                                                         *)
(* MaxEvents bounds the saves, the clicks, the refused calls and the lost  *)
(* connections together, all but the click that forgets the dashboard one  *)
(* has chosen; Limit is how many rows a page has.                          *)
(***************************************************************************)
EXTENDS Naturals, FiniteSets, SequencesExt

CONSTANTS
  None,
  Dashboards,
  Gone,                   \* those Home Assistant has no more: they can be forgotten
  Recorded,               \* the revisions there are to begin with
  Limit, MaxEvents

Entries == [dash : Dashboards, id : Nat \ {0}, at : Nat, era : Nat]

Locks == [key : Dashboards, borrowed : BOOLEAN]

ASSUME PanelAssumption == Gone \subseteq Dashboards /\ Limit \in Nat \ {0}

ASSUME NoneAssumption == None \notin Dashboards \cup Entries \cup Nat \cup Locks

\* The states of each dashboard are numbered from one.
ASSUME RecordedAssumption ==
  /\ Recorded \subseteq Entries /\ IsFiniteSet(Recorded)
  /\ \A r, s \in Recorded : r.dash = s.dash /\ r.id = s.id => r = s
  /\ \A dash \in Dashboards : \E n \in 0 .. Cardinality(Recorded) :
       {r.id : r \in {s \in Recorded : s.dash = dash}} = 1 .. n

VARIABLES
  log,                    \* the revisions of all dashboards
  generation,             \* how many forgets there were
  forgetting,             \* the dashboard a forget is rewriting
  news,                   \* announcements on their way to the page
  connected,
  listed,                 \* the page has got the list of dashboards
  selected, shown, cursor, cursorGeneration, versionsLoaded,
  lost,                   \* the notice that the connection was lost
  locked,                 \* the lock of a forget: whose, and whether borrowed
  dialog,                 \* "closed", "open", or open and something went unheeded: "missed"
  awaiting,               \* a write waits for its own announcement (_awaiting)
  writing,                \* the forget of this page holds the ticket of writing
  calls,                  \* what the page has asked and not dealt with
  spent,                  \* events so far
  mishaps                 \* what has cost the page an announcement or an answer

server == <<log, generation, forgetting>>
list == <<selected, shown, cursor, cursorGeneration, versionsLoaded>>
write == <<dialog, awaiting, writing>>
vars == <<server, news, connected, listed, list, lost, locked, write, calls, spent, mishaps>>

Newest(dash) == Max({0} \cup {r.id : r \in {s \in log : s.dash = dash}})

Revision(dash, id) == CHOOSE r \in log : r.dash = dash /\ r.id = id

\* The states of a dashboard below a number, newest first.
Below(dash, id) == [i \in 1 .. id - 1 |-> Revision(dash, id - i)]

Rows(dash) == Below(dash, Newest(dash) + 1)

Spend == spent < MaxEvents /\ spent' = spent + 1

--------------------------------------------------------------------------------
(* The history *)

\* Mutant: an unknown cursor always finds nothing.
PageThatEnds(dash, before, since) ==
  LET rest == IF before = None THEN Rows(dash)
              ELSE IF before \in log THEN Below(dash, before.id) ELSE <<>>
  IN  [rows |-> SubSeq(rest, 1, IF Len(rest) < Limit THEN Len(rest) ELSE Limit),
       next |-> IF Len(rest) > Limit THEN rest[Limit] ELSE None,
       generation |-> generation, restarted |-> FALSE]

\* The page below a cursor.  A cursor a forget has rewritten past starts again
\* from the top; one nobody can tell that of finds nothing.
HistoryPage(dash, before, since) ==
  LET rows == Rows(dash)
      PageOf(rest, restarted) ==
        [rows |-> SubSeq(rest, 1, IF Len(rest) < Limit THEN Len(rest) ELSE Limit),
         next |-> IF Len(rest) > Limit THEN rest[Limit] ELSE None,
         generation |-> generation, restarted |-> restarted]
  IN  IF before = None THEN PageOf(rows, FALSE)
      ELSE IF before \in log THEN PageOf(Below(dash, before.id), FALSE)
      ELSE IF since # None /\ since < generation THEN PageOf(rows, TRUE)
      ELSE PageOf(<<>>, FALSE)

\* Everything from the first state of the forgotten dashboard on is rewritten.
Rewritten(dash) ==
  {IF r.at > Revision(dash, 1).at THEN [r EXCEPT !.era = generation + 1] ELSE r :
     r \in {s \in log : s.dash # dash}}

Announce(event) ==
  IF connected
  THEN news' = Append(news, event) /\ UNCHANGED mishaps
  ELSE mishaps' = mishaps \cup {event.kind} /\ UNCHANGED news

Record(dash) ==
  /\ dash \notin Gone /\ forgetting = None
  /\ Spend
  /\ log' = log \cup {[dash |-> dash, id |-> Newest(dash) + 1, era |-> 0,
                       at |-> Cardinality(Recorded) + spent']}
  /\ Announce([kind |-> "recorded", dash |-> dash])
  /\ UNCHANGED <<generation, forgetting, connected, listed, list, lost, locked, write, calls>>

\* By this page or by another.
ForgetBegins(dash) ==
  /\ dash \in Gone /\ forgetting = None /\ Rows(dash) # <<>>
  /\ forgetting' = dash
  /\ Announce([kind |-> "rewriting", dash |-> dash])
  /\ UNCHANGED <<log, generation, connected, listed, list, lost, locked, write, calls, spent>>

ForgetEnds ==
  /\ forgetting # None
  /\ log' = Rewritten(forgetting) /\ generation' = generation + 1
  /\ forgetting' = None
  /\ Announce([kind |-> "done", dash |-> forgetting])
  /\ UNCHANGED <<connected, listed, list, lost, locked, write, calls, spent>>

--------------------------------------------------------------------------------
(* Calls *)

Call(fn, at) ==
  [fn |-> fn, at |-> at, mine |-> FALSE, dash |-> None, before |-> None, since |-> None,
   guarded |-> "shown", frees |-> FALSE, answer |-> None]

\* Mutant: the list is not claimed, only asked for.
NobodyLoses(others) == others

\* Taking the slot of the list invalidates whoever held it.
Claimed(others) == [i \in DOMAIN others |-> [others[i] EXCEPT !.mine = FALSE]]

Waiting(call) == call.at \in {"listing", "asked"}

\* What only has to come through: a write, or a note the page waits for no
\* announcement of (a description, a title, a version).
Writes(call) == call.fn \in {"write", "note"}

Answer(i) ==
  /\ connected /\ Waiting(calls[i])
  /\ \/ /\ calls[i].at = "listing"
        /\ calls' = [calls EXCEPT ![i].at = "listed", ![i].answer = {r.dash : r \in log}]
     \/ /\ calls[i].at = "asked" /\ calls[i].fn = "forget"
        /\ Rows(calls[i].dash) = <<>>
        /\ calls' = [calls EXCEPT ![i].at = "answered"]
     \/ /\ calls[i].at = "asked" /\ Writes(calls[i])
        /\ calls' = [calls EXCEPT ![i].at = "answered"]
     \/ /\ calls[i].at = "asked" /\ calls[i].fn # "forget" /\ ~Writes(calls[i])
        /\ calls' = [calls EXCEPT ![i].at = "answered",
                       ![i].answer = HistoryPage(calls[i].dash, calls[i].before, calls[i].since)]
  /\ UNCHANGED <<server, news, connected, listed, list, lost, locked, write, spent, mishaps>>

\* A call is refused, or there is no connection to ask it on.
Fail(i) ==
  /\ Waiting(calls[i])
  /\ IF connected THEN Spend ELSE UNCHANGED spent
  /\ calls' = [calls EXCEPT ![i].at = IF connected THEN "refused" ELSE "cut"]
  /\ mishaps' = mishaps \cup {"failed"}
  /\ UNCHANGED <<server, news, connected, listed, list, lost, locked, write>>

Failed(call) == call.at \in {"refused", "cut"}

\* Mutant: only an answer lifts the lock.
LiftedByAnswer(call) == IF call.frees /\ ~Failed(call) THEN None ELSE locked

\* Whoever holds the lock of a forget lifts it when all is read again.
Unlocked(call) == IF call.frees THEN None ELSE locked

--------------------------------------------------------------------------------
(* Choosing a dashboard *)

\* A choice takes the slot of writing too.
StartSelect(others, dash, frees) ==
  /\ calls' = Append(Claimed(others),
                [Call("select", "asked") EXCEPT !.mine = TRUE, !.dash = dash, !.frees = frees])
  /\ selected' = dash
  /\ cursor' = None /\ cursorGeneration' = None /\ versionsLoaded' = FALSE
  /\ lost' = FALSE /\ writing' = FALSE
  /\ UNCHANGED <<shown, dialog, awaiting>>

\* The page can be clicked: no lock, no modal dialog.
Free == locked = None /\ dialog = "closed"

Pick(dash) ==
  /\ Free /\ listed /\ selected # dash
  /\ Spend
  /\ StartSelect(calls, dash, FALSE)
  /\ UNCHANGED <<server, news, connected, listed, locked, mishaps>>

Selected(i) ==
  LET call == calls[i]
      answer == IF Failed(call) THEN [rows |-> <<>>, next |-> None, generation |-> None]
                ELSE call.answer
  IN  /\ call.fn = "select" /\ ~Waiting(call)
      /\ IF call.mine
         THEN /\ shown' = answer.rows
              /\ cursor' = answer.next /\ cursorGeneration' = answer.generation
              /\ versionsLoaded' = TRUE
              /\ lost' = IF Failed(call) THEN call.at = "cut" ELSE lost
              /\ UNCHANGED selected
         ELSE UNCHANGED <<list, lost>>
      /\ locked' = Unlocked(call)
      /\ calls' = RemoveAt(calls, i)
      /\ UNCHANGED <<server, news, connected, listed, write, spent, mishaps>>

\* The deleted ones come last.
MayComeFirst(dashes) == IF dashes \ Gone = {} THEN dashes ELSE dashes \ Gone

\* The list of dashboards, then the first of them.
Loaded(i) ==
  LET call == calls[i]
  IN  /\ call.fn = "load"
      /\ \/ /\ Failed(call)
            /\ lost' = (call.at = "cut") /\ locked' = Unlocked(call)
            /\ calls' = RemoveAt(calls, i)
            /\ UNCHANGED <<listed, list, write>>
         \/ /\ call.at = "listed" /\ call.answer = {}
            /\ listed' = TRUE /\ locked' = Unlocked(call)
            /\ calls' = RemoveAt(calls, i)
            /\ UNCHANGED <<list, lost, write>>
         \/ /\ call.at = "listed"
            /\ listed' = TRUE
            /\ \E first \in MayComeFirst(call.answer) : StartSelect(RemoveAt(calls, i), first, call.frees)
            /\ UNCHANGED locked
      /\ UNCHANGED <<server, news, connected, spent, mishaps>>

--------------------------------------------------------------------------------
(* Older pages *)

LoadOlder ==
  /\ Free /\ selected # None /\ cursor # None
  /\ \A i \in DOMAIN calls : calls[i].fn # "older"
  /\ Spend
  /\ calls' = Append(Claimed(calls),
                [Call("older", "asked") EXCEPT !.mine = TRUE, !.dash = selected,
                                               !.before = cursor, !.since = cursorGeneration])
  /\ lost' = FALSE
  /\ mishaps' = IF \E i \in DOMAIN calls : calls[i].mine /\ calls[i].fn = "refresh"
                THEN mishaps \cup {"overtaken"} ELSE mishaps
  /\ UNCHANGED <<server, news, connected, listed, list, locked, write>>

\* Mutant: a page that was started again is put below the others.
AlwaysAppended(answer) == shown \o answer.rows

Continued(answer) == IF answer.restarted THEN answer.rows ELSE shown \o answer.rows

GotOlder(i) ==
  LET call == calls[i]
  IN  /\ call.fn = "older" /\ ~Waiting(call)
      /\ IF call.mine /\ call.at = "answered"
         THEN /\ shown' = Continued(call.answer)
              /\ cursor' = call.answer.next /\ cursorGeneration' = call.answer.generation
         ELSE UNCHANGED <<shown, cursor, cursorGeneration>>
      /\ lost' = IF call.mine /\ Failed(call) THEN call.at = "cut" ELSE lost
      /\ calls' = RemoveAt(calls, i)
      /\ UNCHANGED <<server, news, connected, listed, selected, versionsLoaded, locked,
                     write, spent, mishaps>>

--------------------------------------------------------------------------------
(* Reading everything again *)

Refresh(guarded) == [Call("refresh", "listing") EXCEPT !.guarded = guarded]

Reload ==
  /\ Free /\ listed
  /\ Spend
  /\ calls' = Append(calls, Refresh("shown"))
  /\ lost' = FALSE
  /\ UNCHANGED <<server, news, connected, listed, list, locked, write, mishaps>>

\* A failure is shown, swallowed, or told in one sentence with what was
\* written, which then stands where the notice of a lost connection stood.
NoticeAfter(call) ==
  CASE call.guarded = "shown" -> call.at = "cut"
    [] call.guarded = "quiet" -> lost
    [] call.guarded = "said" -> lost /\ selected # call.dash

Refreshed(i) ==
  LET call == calls[i]
  IN  /\ call.fn = "refresh"
      /\ \/ /\ Failed(call)
            /\ lost' = NoticeAfter(call)
            /\ calls' = RemoveAt(calls, i)
            /\ UNCHANGED <<listed, list>>
         \/ /\ call.at = "listed"
            /\ listed' = TRUE
            /\ calls' = IF selected = None THEN RemoveAt(calls, i)
                        ELSE [Claimed(calls) EXCEPT ![i].at = "asked", ![i].mine = TRUE,
                                                    ![i].dash = selected]
            /\ UNCHANGED <<list, lost>>
         \/ /\ call.at = "answered"
            /\ IF call.mine
               THEN shown' = call.answer.rows /\ cursor' = call.answer.next
               ELSE UNCHANGED <<shown, cursor>>
            /\ calls' = RemoveAt(calls, i)
            /\ UNCHANGED <<listed, selected, cursorGeneration, versionsLoaded, lost>>
      /\ UNCHANGED <<server, news, connected, locked, write, spent, mishaps>>

--------------------------------------------------------------------------------
(* Writing *)

\* The preview is there and nobody has claimed the slot of writing since.
OpenDialog ==
  /\ Free /\ selected # None
  /\ Spend
  /\ dialog' = "open"
  /\ UNCHANGED <<server, news, connected, listed, list, lost, locked, awaiting, writing,
                 calls, mishaps>>

\* Nothing is read again, whatever was announced meanwhile.
Cancel ==
  /\ dialog # "closed"
  /\ dialog' = "closed"
  /\ mishaps' = IF dialog = "missed" THEN mishaps \cup {"missed"} ELSE mishaps
  /\ UNCHANGED <<server, news, connected, listed, list, lost, locked, awaiting, writing,
                 calls, spent>>

\* The waiting begins before the call: the announcement may overtake its answer.
Apply(fn) ==
  /\ dialog # "closed"
  /\ dialog' = "closed"
  /\ awaiting' = (awaiting \/ fn = "write")
  /\ calls' = Append(calls, [Call(fn, "asked") EXCEPT !.dash = selected])
  /\ lost' = FALSE
  /\ UNCHANGED <<server, news, connected, listed, list, locked, writing, spent, mishaps>>

\* Three seconds without an announcement.
RunsOut ==
  /\ awaiting
  /\ awaiting' = FALSE
  /\ UNCHANGED <<server, news, connected, listed, list, lost, locked, dialog, writing,
                 calls, spent, mishaps>>

\* Through or not, a flow ends on reading everything again.  One that came
\* through waits first, for its announcement unless a later one took its place.
Written(i) ==
  LET call == calls[i]
      later == \E j \in DOMAIN calls : j > i /\ calls[j].fn = "write"
  IN  /\ Writes(call) /\ ~Waiting(call)
      /\ call.fn = "write" /\ ~Failed(call) => ~awaiting \/ later
      /\ lost' = IF Failed(call) THEN call.at = "cut" ELSE lost
      /\ calls' = Append(RemoveAt(calls, i), [Refresh("said") EXCEPT !.dash = call.dash])
      /\ UNCHANGED <<server, news, connected, listed, list, locked, write, spent, mishaps>>

--------------------------------------------------------------------------------
(* Forgetting from this page *)

\* Its dialog is confirmed at once; a dialog left by Cancel may be this one too.
Forget(dash) ==
  /\ Free /\ selected = dash /\ dash \in Gone
  /\ locked' = [key |-> dash, borrowed |-> FALSE]
  /\ writing' = TRUE
  /\ calls' = Append(calls, [Call("forget", "asked") EXCEPT !.dash = dash])
  /\ lost' = FALSE
  /\ UNCHANGED <<server, news, connected, listed, list, dialog, awaiting, spent, mishaps>>

\* With its ticket gone (a list asked for before has chosen a dashboard), the
\* page is given back as it is, with nothing read again.
Forgotten(i) ==
  /\ calls[i].fn = "forget" /\ ~Waiting(calls[i])
  /\ \/ /\ writing
        /\ selected' = None /\ shown' = <<>>
        /\ calls' = Append(RemoveAt(calls, i), [Call("load", "listing") EXCEPT !.frees = TRUE])
        /\ lost' = FALSE
        /\ UNCHANGED <<locked, mishaps>>
     \/ /\ ~writing
        /\ lost' = IF Failed(calls[i]) THEN calls[i].at = "cut" ELSE lost
        /\ locked' = None
        /\ calls' = RemoveAt(calls, i)
        /\ mishaps' = mishaps \cup {"claimed"}
        /\ UNCHANGED <<selected, shown>>
  /\ UNCHANGED <<server, news, connected, listed, cursor, cursorGeneration, versionsLoaded,
                 write, spent>>

--------------------------------------------------------------------------------
(* What the page hears *)

\* Mutant: nothing is read again while something is being read.
RefreshedWhenIdle(event) ==
  IF selected \in {None, event.dash} /\ calls = <<>> THEN Append(calls, Refresh("quiet")) ELSE calls

\* A save elsewhere: read again, unless it is of a dashboard not looked at.
RefreshedFor(event) ==
  IF selected \in {None, event.dash} THEN Append(calls, Refresh("quiet")) ELSE calls

\* A locked page skips a save: what lifts the lock reads everything again.
\* It may have asked and got its answer by now, or lost its ticket.
ReadBeforeUnlocked ==
  \/ locked.borrowed /\ \A i \in DOMAIN calls : ~calls[i].frees
  \/ \E i \in DOMAIN calls :
       \/ calls[i].fn = "forget"
       \/ calls[i].frees /\ calls[i].fn = "load" /\ calls[i].answer # {}
       \/ calls[i].frees /\ calls[i].mine /\ calls[i].at = "asked"

\* The first announcement is taken for the one a write waits for, whatever it
\* says; under a dialog it is thrown away.
HearRecorded ==
  LET event == Head(news)
  IN  /\ news # <<>> /\ event.kind = "recorded"
      /\ news' = Tail(news)
      /\ \/ /\ awaiting
            /\ awaiting' = FALSE
            /\ UNCHANGED <<dialog, calls, mishaps>>
         \/ /\ ~awaiting /\ dialog # "closed"
            /\ dialog' = "missed"
            /\ UNCHANGED <<awaiting, calls, mishaps>>
         \/ /\ ~awaiting /\ dialog = "closed" /\ locked # None
            /\ mishaps' = IF ReadBeforeUnlocked THEN mishaps ELSE mishaps \cup {"skipped"}
            /\ UNCHANGED <<dialog, awaiting, calls>>
         \/ /\ ~awaiting /\ Free
            /\ calls' = RefreshedFor(event)
            /\ UNCHANGED <<dialog, awaiting, mishaps>>
      /\ UNCHANGED <<server, connected, listed, list, lost, locked, writing, spent>>

\* Somebody else's forget locks this page too, until it is done and read in.
HearForgetting ==
  LET event == Head(news)
      locks == event.kind = "rewriting" /\ locked = None
      lifts == event.kind = "done" /\ locked = [key |-> event.dash, borrowed |-> TRUE]
  IN  /\ news # <<>> /\ event.kind # "recorded"
      /\ news' = Tail(news)
      /\ \/ /\ locks
            /\ locked' = [key |-> event.dash, borrowed |-> TRUE]
            /\ UNCHANGED <<calls, lost>>
         \/ /\ lifts
            /\ calls' = Append(calls, [Call("load", "listing") EXCEPT !.frees = TRUE])
            /\ lost' = FALSE
            /\ UNCHANGED locked
         \/ /\ ~locks /\ ~lifts
            /\ UNCHANGED <<calls, lost, locked>>
      /\ mishaps' = IF event.kind = "rewriting" /\ locked # None /\ locked.key # event.dash
                    THEN mishaps \cup {"ignored"} ELSE mishaps
      /\ UNCHANGED <<server, connected, listed, list, write, spent>>

\* What is being asked is cut off, what is being announced is not heard.
Disconnect ==
  /\ connected /\ Spend
  /\ connected' = FALSE
  /\ calls' = [i \in DOMAIN calls |->
                 IF Waiting(calls[i]) THEN [calls[i] EXCEPT !.at = "cut"] ELSE calls[i]]
  /\ news' = <<>>
  /\ mishaps' = mishaps \cup {news[i].kind : i \in DOMAIN news}
                        \cup (IF calls' = calls THEN {} ELSE {"failed"})
  /\ UNCHANGED <<server, listed, list, lost, locked, write>>

\* The page notices once the calls it shows as running have come to an end.
Reconnect ==
  /\ ~connected /\ calls = <<>>
  /\ connected' = TRUE
  /\ calls' = IF ~listed THEN <<Call("load", "listing")>>
              ELSE IF lost THEN <<Refresh("shown")>> ELSE <<>>
  /\ lost' = FALSE
  /\ UNCHANGED <<server, news, listed, list, locked, write, spent, mishaps>>

--------------------------------------------------------------------------------
Init ==
  /\ log = Recorded
  /\ generation = 0 /\ forgetting = None
  /\ news = <<>> /\ connected = TRUE
  /\ listed = FALSE /\ selected = None /\ shown = <<>>
  /\ cursor = None /\ cursorGeneration = None /\ versionsLoaded = TRUE
  /\ lost = FALSE /\ locked = None
  /\ dialog = "closed" /\ awaiting = FALSE /\ writing = FALSE
  /\ calls = <<Call("load", "listing")>>
  /\ spent = 0
  /\ mishaps = {}

Deliver(i) ==
  Selected(i) \/ Loaded(i) \/ GotOlder(i) \/ Refreshed(i) \/ Written(i) \/ Forgotten(i)

Next ==
  \/ \E dash \in Dashboards : Record(dash) \/ ForgetBegins(dash) \/ Pick(dash) \/ Forget(dash)
  \/ ForgetEnds
  \/ LoadOlder \/ Reload
  \/ OpenDialog \/ Cancel \/ \E fn \in {"write", "note"} : Apply(fn)
  \/ RunsOut
  \/ \E i \in DOMAIN calls : Answer(i) \/ Fail(i) \/ Deliver(i)
  \/ HearRecorded \/ HearForgetting
  \/ Disconnect \/ Reconnect

\* The server answers and finishes what it began, the page deals with what it
\* gets, and the connection comes back.  Nobody has to click, save or forget.
Fairness ==
  /\ WF_vars(\E i \in DOMAIN calls : Answer(i) \/ Deliver(i))
  /\ WF_vars(\E i \in DOMAIN calls : ~connected /\ Fail(i))
  /\ WF_vars(HearRecorded \/ HearForgetting)
  /\ WF_vars(\E i \in DOMAIN calls : calls[i].fn = "forget" /\ ForgetBegins(calls[i].dash))
  /\ WF_vars(ForgetEnds) /\ WF_vars(Reconnect) /\ WF_vars(RunsOut)

Spec == Init /\ [][Next]_vars /\ Fairness

--------------------------------------------------------------------------------
(* Properties *)

Settled == calls = <<>> /\ news = <<>> /\ Free

(* However pages, reloads and forgets overtake each other, the list is one *)
(* run of one dashboard's states, newest first: none is missing in the     *)
(* middle, none is there twice (panel.js, _loadOlder).                     *)
OneRun ==
  \A i \in 1 .. Len(shown) - 1 :
    shown[i + 1].dash = shown[i].dash /\ shown[i + 1].id = shown[i].id - 1

(* A late answer never stands under another dashboard's title: once all    *)
(* questions are answered, the rows are those of the dashboard chosen      *)
(* (panel.js, _claim).                                                     *)
RowsOfSelected == \A i \in DOMAIN shown : shown[i].dash = selected

LateAnswersAreDropped ==
  Settled /\ selected # None /\ "failed" \notin mishaps => RowsOfSelected

(* A list that offers no older page ends with the oldest state there is:   *)
(* a cursor that a forget has made meaningless never looks like the end    *)
(* of the history, if choosing the dashboard was answered and read         *)
(* (operations.py, async_history; panel.js, _loadOlder).                   *)
EndIsTheEnd ==
  Settled /\ shown # <<>> /\ cursor = None /\ versionsLoaded /\ "failed" \notin mishaps =>
    Last(shown).id = 1

(* The page shows the newest state on top, and only revisions that still   *)
(* exist, unless the dashboard was forgotten elsewhere and no other could  *)
(* be chosen.  It is so though saves are skipped under the lock of a       *)
(* forget, taken for the announcement a write waits for, or thrown away    *)
(* under a dialog that is then applied (panel.js, _onRecorded,             *)
(* _onForgetting, _reloadAfterWrite).  Not so, and a mishap: an            *)
(* announcement lost with the connection; a call that failed; an older     *)
(* page asked for while a refresh was on its way ("overtaken"); a save     *)
(* heard under a dialog that is cancelled ("missed"), or under the lock    *)
(* when what lifts it has its answer or lost its ticket ("skipped"); a     *)
(* second forget begun under the lock of the first ("ignored"); a forget   *)
(* that a list asked for before outlived ("claimed").                      *)
PageIsCurrent ==
  Settled /\ mishaps = {} /\ selected # None /\ Rows(selected) # <<>> =>
    /\ ToSet(shown) \subseteq log
    /\ shown # <<>> /\ shown[1] = Rows(selected)[1]

(* A page locked by a forget is given back: by its own when the call ends, *)
(* whatever becomes of it; by another page's unless an announcement of an  *)
(* end was lost with the connection (panel.js, _releaseBorrowedLock,       *)
(* _forget).                                                               *)
LockComesOff ==
  locked # None ~> (locked = None \/ (locked.borrowed /\ "done" \in mishaps))

================================================================================
