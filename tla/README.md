# dashboard-history: specification, model checking and proofs

This directory specifies *dashboard-history*, a Home Assistant
integration that records every dashboard in a git repository of its own
(`src/custom_components/dashboard_history`). The modules are translated from
the source; `PROJECT.json` gives, for each definition, the lines it stands for.

## 1. The system

| Component | State | Operations | Talks to |
|---|---|---|---|
| `store.py`, writers | HEAD, object store, notes ref, tag refs, index and working tree, checkpoint file, generation file, one lock per path | `write_snapshot`, `mark_deleted`, `create_version`, `retitle_version`, `remove_version`, `set_description`, `forget`, `repair_pending_forget` | called from executor threads by the recorder and the operations |
| `store.py`, readers | per instance: the revision index and the survey, keyed by HEAD | `list_changes`, `search_changes`, `survey`, `measure`, and a dozen best-effort reads, all without the lock | called by operations, recorder, marks, sensors |
| `capture.py` (with `keys.py`, `snapshot.py`) | two asyncio locks, a pending timer, listeners | capture on a save, on start, on a panel change, before a restore; deletions by comparison | reads Home Assistant's memory, writes the store, fires `dashboard_history_updated` |
| `milestones.py`, `versions.py` | the marking lock | floor at start, day mark on every recorded change; numbering | operations, store |
| `operations.py`, `report.py` | none of its own | restore, undo, keep, versions, paging with cursors, forgetting, reports | recorder, store, Home Assistant's dashboards |
| `restore.py` | none | putting a card, view or section back | called by operations |
| `analyze/` | none | matching old to new parts, undoing one change, wording | operations, recorder (commit messages) |
| `__init__.py` | the set-up entry | repair, opening pass, floor, in that order, as a background task; unload | all of the above |
| `coordinator.py`, `sensor.py`, `diagnostics.py` | last measurement | measure and present | store |
| `services.py`, `websocket_api.py`, `panel.py` | none | check arguments and dispatch | operations |
| `panel.js`, `panel/*.js` | the page shown, tickets of requests under way | the user interface | websocket commands |

What is hard here, and untested or hardly testable:

* **Interruption.** A `forget` rewrites branch, notes, tags, index and object
  store in turn. An exception or the end of the process may fall between any
  two of them, and again while the repair is at it.
* **A save that fails half way.** `porcelain.commit` commits the whole index,
  so what one save staged before it failed travels with the next commit.
* **Pruning without a grace period** next to those staged contents.
* **Readers without a lock** that put one page together from three reads of a
  repository that is being rewritten, and an index cache they share.
* **Two instances after a reload**, with one store lock but separate caches and
  separate recorder locks.
* **Cursors** that outlive a rewrite of the history.
* **Awaits without a lock.** A restore reads, previews, has the state recorded,
  checks and saves, and anybody may save the dashboard between any two of these.
* **Marks worked out from two listings** of the versions, beside a person who
  makes and removes versions and a rewrite that renames every revision.
* **Changes undone late**, on a dashboard whose cards have been edited, moved,
  copied or taken back since.
* **A page that several callbacks fill**, where a late or failed answer, a skipped
  announcement or a lost connection may leave the wrong thing on the screen.

What makes each component correct:

* writers: a forget takes effect as a whole or not at all, takes one dashboard
  and nothing else, and is finished after any interruption;
* readers: an answer is that of one history, or is refused;
* recorder: states enter the history in the order they were read, and no state
  read is lost; a deletion is recorded only of what Home Assistant has dropped;
* marks: at most one automatic version per day and per state, no day left out
  without a reason, no number that a person has not asked for below v0.1;
* operations: what is overwritten is in the history, or the caller was told; a
  page never skips or repeats a change;
* analysis: every part is matched at most once; undoing a change gives back the
  old part and leaves later changes alone;
* panel: the rows are one run of the dashboard chosen, current when nothing was
  lost, and the lock of a forget comes off.

## 2. Modules

| Module | What it is |
|---|---|
| `Revisions` | the data: commits, trees, revisions, and what forgetting makes of a history |
| `HistoryStore` | the writers: one action per operation, and one per change of the disk inside a forget |
| `HistoryStoreProperties` | what they guarantee, and the refinement of `AtomicHistory` |
| `AtomicHistory` | the abstract specification: dashboards, changes, versions, descriptions; no commits, no hashes, a forget is one step |
| `StoreReaders` | `list_changes`, the index cache and the retry, running beside `HistoryStore` |
| `Recorder` | captures, the two locks, deletions by comparison, unloading, a forget beside them |
| `Versions`, `Marks` | numbers, levels and days (`versions.py`); the floor, the day mark and a person beside them (`milestones.py`, `operations.py`) |
| `Operations` | restoring, putting back, undoing, recording by hand, creating again: every await a step of its own |
| `Dashboards`, `Matching` | a dashboard as views, sections, cards, badges and headings; how the items of two states are paired |
| `Undo`, `PutBack` | the plan that takes one change back; where a removed card, section or view goes |
| `Analysis` | an editor that makes a change and a later one, then undoes it twice or puts things back, one after another |
| `Panel` | the page: what each callback of `panel.js` may still write, and the pages it asks for |
| `ForgetWalk` | the loop of `_forget`, against the definition `Revisions` gives |
| `StoreProofs`, `ForgetWalkProofs`, `RecorderProofs`, `OperationsProofs`, `MarksProofs`, `PanelProofs`, `AnalysisProofs`, `UndoProofs` | the proofs (`StoreProofs`: of `Revisions`, `HistoryStore` and `StoreReaders`; `UndoProofs`: of an undo, on top of `AnalysisProofs`) |
| `HistoryStoreMC`, `StoreReadersMC`, `RecorderMC`, `ForgetWalkMC`, `MarksMC`, `OperationsMC`, `AnalysisMC`, `PanelMC` | small instances for TLC |

**Revisions as sets.** git names a commit by a hash over its tree, its data and
its parents. A revision is modelled as the set of the commits from the root up
to it, so that two revisions are equal exactly when their hashes are: a
rewritten history gets its old names back as far as nothing in it has changed.
That is what makes a cycling HEAD visible. The two files of a dashboard are one
model value, because they are always written and removed together; commit
messages, times and authors are one stamp.

**HistoryStore.** `lock`, `job` and `opening` are the lock of `_lock_for`, the
program counter of each thread and "a start has yet to run the repair". An
operation takes the lock and refuses when it meets a checkpoint (`Admitted`).
`write_snapshot` is `StageSave` and `Commit`, since it can fail in between;
notes and versions each change one ref and are one action. `forget` is
`PlanForget` (everything before the checkpoint: it only adds objects nobody
points at) and then one action for each change of the disk, in the order of
`_finish_forget`. `AddNote` is taken once per note because `_rewrite_notes`
adds them with one commit each. `Raise` is an exception anywhere in an
operation, `Restart` the end of the process at any moment, `Reload` a second
instance in the same process. `RepairResume` reconciles the index, validates
the checkpoint (`ValidPlan`) and continues with the first step of
`_finish_forget`.

**StoreReaders.** A read is `BeginRead` (HEAD), `ReadNotes`, `ResolveHead` and
the index under its gate (`CachedMeanwhile`, `BuildIndex`, `PublishIndex`), then
`LoadCommits`, `ReadHeadAgain` and the look at the checkpoint, in that
order, with `Trust`, `Retry` or `GiveUp`. The index is built in two steps: what the
walk will list is fixed when it starts, carried forward from the cached index
(`Extending`) or walked whole (`Walking`), and it is published later. In between a
forget may prune what is being walked: an extending walk that meets that is given up
for a whole one (`WalkAll`), a whole one ends in a KeyError (`BuildFails`). Any step
of a writer may fall between any two. The page itself is not kept: once put
together, two facts about it are (`whole`, `current`). `returned` is a history
variable.

**Recorder.** A state of a dashboard is the moment it was saved at; the store
is what it promises, so one write is one step. `reading` and `writing` are the
waiting lists of the two asyncio locks of each instance, the holder first; a
capture moves from one to the other without a wait in between (`HandOver`).
`walk` is the loop of `async_get_all_configs`, which may be suspended at each
load and raises when a dashboard comes or goes (`ReadBreaks`); `turn` is what
the holder of `_writing` has left to do, one executor job after another.
`Unload` cancels the opening pass wherever it is and leaves every other task,
and the job the executor has in hand (`loose`), to run on; `Setup` starts the
next instance. `behind` and `overlapped` are history variables: why a change
may be missed since all dashboards were last looked at (a failed write, a
forget of a dashboard created again, a panel that moved before its listener was
there), and whether two instances, or an instance and a loose job, have been at
work at once. Dashboards are visited in any order rather than in the order of
the dictionary or of their names. Renaming, the announcement and metadata are
left out.

**Operations.** One dashboard, which the operations know no other of. `live` is
what Home Assistant holds, `history` what is recorded, `captures` the recorder's
queue in the order asked (its two locks are the subject of `Recorder`). Each
caller's `op` is where it stands: read and planned (`RestoreState`,
`RestoreDeleted`, `UndoChange`), waiting for its own capture (`Keep`,
`CheckKept`), naming a version of the newest entry (`Name`, `Compare`), saving
(`SaveConfig`). A content is a function from cards to faces, so that "other
cards" can be said. `known` and `kept` are history variables: when the operation
last took note of the dashboard, and whether its capture was written.

**Marks.** Days, states and versions of one dashboard. `job` holds what the
floor pass, the day mark, a person and a thread left behind by an unloading have
read so far: listing, choosing the level, choosing the number and writing are
separate steps with other people's steps in between. A read of the history may end in an
exception at any time (`ReadRaises`, `MarkReadsHistory`), because three saves during
the attempts of `list_changes` are enough for that; a write may be refused for a tag
somebody made by hand below the name (`beside`). Both markers swallow it: the day mark
is gone, the floor pass has not come through. A rewrite for another
dashboard renames revisions (`named`) and hides tags until it is done. `owed` is a
history variable: the announcements whose mark has neither failed nor been refused. `doubt`
records what has happened beside a mark, for the properties that hold only
otherwise; each property names the doubts it excuses. Retitling, titles, and a
clock that goes backwards are left out.

**Analysis.** A card is a record of the fields matching tells apart (type,
entity, title, and one other); views have a path or none, and either cards or
sections. Paths change and views move, too. Matching is one state handed from pass
to pass - what neither side has claimed, and the pairs so far (`Unclaimed`,
`Claimed`); a pass that pairs equals in the order they are written says which is
paired with which by counting those before it (`Aligned`), the one that goes by
likeness takes the best candidate, drops what shares a card with it, and goes on
(`MostAlikeFirst`). `PlanUndo` gives the set of steps, or that it is blocked.
`ApplyUndo` writes the settings and then takes the steps one at a time in the order of
the code (`Turn`); a step whose card is no longer there, or whose view is not found,
leads nowhere. The `PutBack` operators return the set of dashboards the code may
write, empty when it refuses. A setting of a view, a section or the dashboard stands
for all settings. The operators were compared with the Python code on every state of
the run, some 49 000 plans of an undo and 36 000 states of putting back, with no
difference.

**Panel.** A revision is a record of its dashboard, its number there, the moment
it was saved at and, in `era`, the forget that rewrote it last, which is what makes
a cursor meaningless; `log` is the set of those there are. `calls` are the questions
the page has under way, each with where it is and whether it still holds the ticket
(`mine`). A question is answered by the history as it is then and dealt with later;
announcements arrive on their own. A forget is two steps with an announcement each.
A dialog that stands (`dialog`) throws announcements away; applied, it asks for a
write whose announcement the page then waits for (`awaiting`), for three seconds at
most (`RunsOut`), and a reload follows whatever came of it (`Written`). `writing` is
the ticket of the forget of this page, which a list of dashboards asked for earlier
may take (`Forgotten`). `mishaps` is a history variable: what has cost the page an
announcement or an answer. Search and the open row are left out; the websocket
library rejects what is asked without a connection, and on losing it everything
under way.

## 3. Runs

| Run | Checks | Instance | Result |
|---|---|---|---|
| `store` | `TypeOK`, `OneWriter`, `PlanStaysValid`, `NothingMissing`, `MarksInHistory`, `ForgetErases`, `PendingIsFrozen`, `GenerationGuardsRewrites`, `ImplementsPromise`, `ForgetIsFinished` | 2 threads, 2 dashboards, 1 content, 1 version name, 2 commits, 2 forgets | holds, 56 000 states |
| `readers_trust` | `TrustIsEarned`, `AcceptedIndexIsComplete` | 1 reader with 2 attempts, 2 commits, 1 forget | holds, 2.2 million states |
| `readers_cache` | `KeyErrorsAreOfAForget` | 2 readers, 2 commits, no forget | holds, 51 000 states |
| `forget_walk` | `ComputesRewritten`, `ComputesSurvivors`, `OthersUntouched` | every history of up to 4 commits of 2 dashboards with 2 contents | holds, 45 000 states |
| `recorder_order` | `RecordedInOrder`, `DeletionsAreReal` | 2 dashboards, 2 changes after the first states, 2 instances | holds, 890 000 states |
| `recorder_catches_up` | `CatchesUp` | 2 dashboards, 2 changes, 1 instance | holds, 100 000 states |
| `marks_days` | `OneMarkPerDay`, `EveryDayCloses`, `NeverStranded`, `NeverInEachOthersWay`, `PastDaysStayClosed`, `FloorIsLaid` | 2 days, 4 states, 2 contents, 1 request of a person or upset | holds, 4.5 million states |
| `operations` | `ReplacedIsRecorded`, `OnlyItsOwnCards`, `VersionIsOfTheReplaced`, `FailureIsReal` | 2 cards, 2 callers, 2 changes by others, 2 operations | holds, 3.4 million states |
| `analysis` | `EveryChangeIsSeen`, `MatchedOnce`, `UndoGoesBack`, `UndoKeepsTheRest`, `UndoneOnce`, `PutBackSettles` | 4 dashboards of at most 2 views, 6 cards, every change the editor can make, every later one | holds, 49 000 states |
| `panel` | `OneRun`, `LateAnswersAreDropped`, `EndIsTheEnd`, `PageIsCurrent`, `LockComesOff` | 2 dashboards, one of them gone, 5 revisions, pages of one row, 2 events | holds, 289 000 states |
| `recorder_forget` | `ForgottenForGood` | 1 dashboard, 2 changes, 1 instance | violated |
| `undo_exact` | `UndoIsExact` | 1 dashboard of 3 views, two of them without a path, 2 edits | violated |

The type invariants of `StoreReaders`, `Recorder`, `Operations`, `Marks` and
`Analysis` say what their variables hold. They were checked on the same instances
and are not among the runs' properties. All are proved (section 4); the types of
`Panel` are the first part of `PanelKept`.

**Bounds.** `MaxCommits` and `MaxForgets` bound the commits ever made and the
generation counter; interruptions are not bounded. Two commits of two
dashboards give a commit that survives before or after one that does not, a first
commit that vanishes, and a staged save that travels with another dashboard's
commit; a commit between two others is left to `forget_walk`, to one run of
`store` with three commits (749 000 states), and to the proofs, which hold for any
number. Two forgets give the
replay of a counter that has already been raised once by another forget. One
content suffices in the store runs because sharing is what matters (two
dashboards with the same content, one of them forgotten); `forget_walk` has
two, because there trees are compared. Deadlock is not checked: at the bounds
the system stops.

In the recorder runs `MaxClock` bounds the changes made to dashboards and with
them the captures that can wait; starts, failures and repeated reads are not
bounded. Two changes give a save beside a pass that has already read the
dashboard, a second save while the first waits, a deletion and a creation
around a read; two instances give an unloading at every point. Symmetry over
dashboards is used where no liveness is checked.

`marks_days` has two days because a mark is made when a day changes, and
something must be read before and after; larger instances (3 days
with 4 states and no upset, 408 000 states; 3 days with 3 states, a request and an upset,
41 million states) were checked once. `operations`
has two callers because one of them insisting, failing or waiting matters to the
other. `analysis` begins with dashboards chosen so that each rule of the matching
and of the undo decides at least once: duplicates, twins that differ in one
field, sections alike, a view without a path, two views whose paths or order
can be exchanged. `panel` counts saves, clicks, dialogs,
refusals and lost connections together: two of them give a save under a dialog, under a
lock or beside a reload, and a dialog whose write fails; its invariants were checked once with
three such events (12.2 million states) and once with two dashboards gone and two
events (10.8 million states), where one forget can begin while the page is locked by
the other. A forget costs none of the events.

**The violations.** `recorder_forget`: `async_forget` asks Home Assistant whether
the dashboard is gone, not the recorder whether it holds a state of it. A capture
that read before the deletion and waits for `_writing` writes after the forget,
and the dashboard is in the history again. The diagnostics in `capture.py` look
for exactly this.

`undo_exact`: `apply_undo` sorts what it inserts - cards, badges and views alike -
by the index alone (`restore.py:573`). A view without a path is found by its place.
When a change took a view away from in front of such a view, and changed the latter
too, the card is written back before the view is put in, unless its index is the
higher one: the place then still means the view behind, and the card lands there.
Nothing is refused and nothing is said; the dashboard ends with a card in the
wrong view. The comment of `apply_undo` promises that "each one lands at the index it
was given. Any other order silently writes to the wrong place" (`restore.py:502`),
and `docs/limitations.md:45` to `:47` that a view without a path that has shifted is
refused, `:48` that the undo of a changed path is exact. It is refused when the place
means different views before and after, but not when the views have titles or are
alike enough to pass that test. `UndoGoesBack` excuses such changes, by `PlacesHold`.

**Other disagreements met while modelling.** They have no run of their own; the
properties above excuse exactly these cases, by the name of the condition.

* Readers (`inside` in `TrustIsEarned`): the docstring of
  `_retrying_a_forget_race` says the look at the checkpoint catches a read that
  starts after HEAD has moved and before the notes follow. It does not when the
  forget ends before that look.
* Readers (`returned`): the same docstring rests on HEAD never coming back to an
  earlier value. Forgetting the dashboard of the newest commits takes HEAD back to the
  revision before them; an index walked across the save and labelled with that revision
  is then accepted.
* Readers (`AcceptedIndexIsComplete` instead of equality): rule 4 of the store's
  docstring (`store.py:72` to `:79`) says an entry built before a rewrite, "even one a
  reader stored after `forget` had dropped the cache", is recognised on its next use and
  rebuilt. A reader that stores an index of the old HEAD after `PlanForget`, and another
  that carries it forward (`_extended_index`) once HEAD has moved and before the old one
  is pruned, leave an index of old and new revisions together under the new HEAD. It is
  accepted, and carried forward, until the next walk over everything, forget or restart.
  `_extended_index` expects to meet a commit it knows in that case, but what the old HEAD
  reaches is excluded from the walk, so that it meets none;
  `test_an_index_built_across_a_rewrite_is_not_kept` (`tests/test_store.py:3992`) that
  such an index is not kept. What it lists too many has been pruned, so a read that comes
  upon it ends in a KeyError and never shows another history; that is what is checked,
  and proved.
* Recorder (`overlapped`): unloading cancels only the opening pass. A
  reconciliation of the old instance goes on under a lock the new one does not
  share, and can record the deletion of a dashboard that is there
  (`capture.py:314` says this cannot be).
* Recorder (`behind`): a dashboard deleted between the read of the opening pass
  and the end of its writes is not noticed until another panel moves
  (`docs/how-it-works.md:108`).
* Marks (`owed`): `milestones.py:481` and `:191` swallow whatever a read raises.
  `list_changes` raises `ForgetRaceExhausted` when HEAD has moved during each of its
  three attempts (`store.py:2603` to `:2620`), and ordinary saves of any dashboard move
  it. The day before is then not marked, and no later save of the day makes up for it
  unless another mark comes by while the day's end is in the window. A tag made by hand
  below the name of the first version (`lights/v0.1.0/x`) has git refuse that name, at
  every start again (`operations.py:1263` to `:1268`, `milestones.py:184` to `:189`):
  such a dashboard never gets its floor. Both are logged and told nobody.
* Marks (`told`): `versions.py:386` calls the answer that a version does not
  return permanent. Given on the day of the state itself it is not: the first save
  of the next day makes the version again. `PastDaysStayClosed` is about days that
  were over when the answer was given.
* Operations (`Overtaken`): a save made between the check and the write of a
  restore is overwritten without being in the history
  (`docs/how-it-works.md:135`, "You can never lose your current state by going
  backward"); and "could not be recorded" is also answered when another save came
  in between and was recorded.
* Undo (`SameOrder`): the order of the views is neither compared nor given back. A
  change that only moved views is refused with "nothing changed", and one that
  moved a view and edited a card is taken back but for the order, though a plan
  is said to be exact or not to be. Of two views just alike, `apply_undo` deletes the
  first (`restore.py:570`, `views.index`), whichever it has located.
* Undo: `_sole_card` counts copies on the whole dashboard. Where a change has
  been taken back by hand and a card alike stands in another view, the undo takes
  that one away (`README.md:74`, `operations.py:1108`); `UndoKeepsTheRest` counts
  it as the copy the change brought. Where a change deleted a section or a view,
  a second undo can put it there a second time, against the docstring at
  `analyze/undo.py:174`.
* Putting back: in a view without a path a position means another view once one
  is put in before it; and of several cards alike the first is taken for the
  other one when it is parked at the end.
* Panel (`versionsLoaded`, `mishaps`): `_refresh` takes the ticket of a `_select`
  under way, but sets neither `_versionsLoaded` nor `_cursorGeneration`. The box
  of the current state then stays silent for good ("silence for a frame",
  `panel.js:4020`); an older page asked for after an unheard forget comes back
  empty and looks like the end of the history, which issue #26 was about; and
  when the refresh fails, which it does quietly, the rows of the dashboard before
  stay under the new title. An older page asked for while a save is being read in
  takes the ticket from that, and the save is not shown.
* Panel (`mishaps`, "skipped"): `panel.js:1071` says nothing is lost by skipping
  announcements under the lock, because everything is read again when it comes off. The
  lock comes off after that reading: a save heard once the history has given its answer,
  and before the answer is dealt with, is skipped and not shown.
* Panel ("missed"): `panel.js:1063` throws an announcement away while a dialog is open,
  because what is applied reads everything again. Cancelled, it does not, and the page
  stays as it was until something else is announced.
* Panel ("claimed"): where a list of dashboards asked for earlier has chosen one
  meanwhile, `_forget` returns at `panel.js:3249` and lifts the lock with nothing read
  again: the rows are of before the rewriting.
* Panel ("ignored"): with two dashboards gone, while the page still reads everything
  back in after one forget, `_onForgetting` (`panel.js:871`) ignores both announcements
  of the next one, and if that answer was given before the second rewriting, nothing is
  read again and the rows are of revisions that no longer exist. The proof of
  `PageIsCurrent` did not go through without this case; TLC then showed it on the
  instance with two dashboards gone.
* The error of the retry in `list_changes` blames a concurrent forget, while an
  ordinary save during each of the three attempts is enough; and
  `docs/how-it-works.md` says a commit records one save, while a save that failed
  between staging and committing travels with the next commit of any dashboard.
  `AtomicHistory!Save` allows for it.

**Fairness.** `ForgetIsFinished` assumes that the steps of a forget or a repair
under way are eventually taken (a thread of the executor runs on), that a
scheduled repair runs (`_async_open` starts it on every set-up), and that the
user restarts after being told to by `_refuse_if_forget_pending`. It claims
nothing when interruptions go on for ever (`StaysUp`). All are weak: none is
disabled and enabled again by other steps while it waits.
`CatchesUp` assumes that the event loop and the executor run on: a set-up, an
opening pass, a due reconciliation and the work of each instance are weakly
fair. Changes of dashboards, unloading and the end of the process are not.
`LockComesOff` assumes that the server answers and finishes a forget it has begun
or was asked for, that the page deals with answers and announcements, and that the
connection comes back; all weak. Nobody has to click, save or forget, and a lost
announcement excuses the lock (the page offers a reload after a minute).

## 4. Proofs

All proofs are checked by TLAPS from the constants' assumptions alone:
`AbsentIsNoContent`, `OwnerAssumption`, `NoProcAssumption`,
`NoPlanAssumption`, `BoundsAssumption`, for the loop `HistoriesAssumption`
(linear histories), for the readers `AttemptsAssumption` (at least one attempt), for the recorder `KeysAssumption` (finitely many
dashboards), `TasksAssumption`, `ClockAssumption` and `InstancesAssumption`, for
the operations `ValuesAssumption` and `MarkersAssumption` (a dashboard that is
gone, unsaved or unread is no configuration) and the bounds, for the marks
`ContentsAssumption` and the bounds, and for the page `PanelAssumption`,
`NoneAssumption` (no value is mistaken for none) and `RecordedAssumption` (finitely
many revisions to begin with, those of each dashboard numbered from one).

`StoreProofs` proves, for any number of threads, dashboards, contents,
commits and forgets, `TypeCorrect`, `OneWriterAtATime`, `PendingStaysFrozen`,
`PlanIsAlwaysValid`, `NothingIsMissing`, `MarksAreInHistory` and
`GenerationIsAGuard`. None of the properties is inductive by itself. The
invariant has three layers:

* `TypeOK`;
* `Control`: whoever is inside an operation holds the lock, and past
  `WriteCheckpoint` the plan in its hands is the plan on the disk, with the
  counter at most one behind it. This gives `PendingIsFrozen`: any step beside
  a checkpoint is a step of that plan;
* `Repository`: HEAD is a branch whose stamps are at most the clock; every
  plan, on the disk or in a thread's hands, is *sound* - what it names is a
  branch, stays in the object store, and its notes and versions are of its
  head; `Done`, how far the refs have come at each step of the plan; and the
  two properties themselves. `Done` is what makes pruning safe: when the
  collection starts, every ref is the planned one.

That a plan is sound when it is made (`ForgetPlanIsSound`) rests on the lemmas
about `Revisions` the module begins with: the rewriting of a branch is a branch,
that of a revision is a revision of the rewritten branch or empty, and no content
is new. They need a newest commit of a bounded branch; it comes from the
well-foundedness of the natural numbers, taken at a set, since induction over
data is out of reach of the installed provers.

The same module proves `ForgetErases` and the refinement `ImplementsPromise`. Neither
follows from the three layers: they keep a plan sound, but do not say that it is the
plan of a forget, nor that a save about to commit changes anything. `Intent` adds that
(`IntentKept`): the plan on the disk is without its dashboard (`CheckpointIsOfForget`),
a plan not yet written is the one worked out for some dashboard that was recorded, the
index has lost that dashboard before the collection, nothing unreachable is left when
the checkpoint is taken away (`Intends`), and no commit of the branch is idle
(`NoIdle`), since a rewriting drops those and a save refuses to make them. The
refinement then goes step by step: every action is one step of `AtomicHistory` under
the mapping, or leaves all of it as it is. What it needs of the data is `Faithful`,
which every branch is: the list of changes and the newest tree say the same of each
dashboard, and rewriting takes one dashboard out of both. A forget takes effect when
the checkpoint reaches the disk, because the mapping reads the plan wherever there is
one (`TrueHead`); from then on its steps, interruptions, and repairs change nothing
that the promise speaks of.

It also proves `TrustIsEarned`, `KeyErrorsAreOfAForget` and
`AcceptedIndexIsComplete` for any number of readers, attempts, commits and forgets.
What a reader has in its hands is older than the store by any number of steps, so
its invariant (`KeptInv`) needs words for what became of a revision: it is on the branch, or it
is `Dead` - a commit of it, or what one of them held, was taken away by a forget.
Nothing dead comes back (`LostStays`: a forget only takes away, and stamps are never
given twice), so "on the branch or dead" is kept by every step (`KnownStays`), and an
index that was `Good` for a label stays so: it has all revisions of the label that are
still there, and only dead ones besides (`GoodStays`). The objects of dead revisions
may still be loadable only between the moving of HEAD and the end of the pruning
(`DeadAreGone`); a reader that began outside that stretch, and finds HEAD unmoved and
no checkpoint at the end, has not seen it (`Undisturbed`), so its page is right or
ends in a KeyError (`LoadedIsRight`). That HEAD unmoved means untouched is where
`returned` comes in (`NoReturn`).

`ForgetWalkProofs` proves that the loop of `_forget` computes `Rewritten` and
`Survives` for histories of any length, and that nothing is taken from any
other dashboard (`LoopLeavesOthersUntouched`). The invariant says which
commits have been walked (all older ones before any younger) and what
`nearest` holds of them. The seven lemmas about rewriting it needs stand at its
beginning, so that it does not depend on the store's.

`RecorderProofs` proves `RecordedInOrder` and `DeletionsAreReal` for any number
of dashboards, changes, captures and recorders that follow one another. Neither
is inductive: a state that is about to be written says nothing of those behind
it in the queue. `RecorderInv` adds

* `MomentsOK`, `HeadOK`, `LooseOK`: nothing recorded or in the executor's hands
  is newer than the last save, and a dashboard that is gone was deleted after it;
* `ReadsOK`, `QueuesOK`: what waits for `_writing` is in the order it was read,
  never newer than what is being read now, and a dashboard a pass did not know
  was deleted after every state of it that waits before or at that pass;
* `TurnsOK`: what the holder of `_writing` has left to do is in what it read;
* `OneOpening`, `OpeningsOK`: the opening pass stands in one place of one queue,
  so that cancelling it takes nothing else out and panels are listened for only
  by the recorder in place;
* and, until two recorders have overlapped, `Alone` (whoever has anything to do
  is the one instance in place, or one unloaded before another began) and
  `NotBehind` (whatever was read is at least as new as the history, and every
  deletion it implies is later than what the history holds).

The two properties are read off `NotBehind`. It survives a write because the
queue is `Sorted` and `GoneSince`, and because `Alone` says that no other
instance has a read in hand; it survives a forget because a forgotten dashboard
is exempt until it is recorded again. An overlap is what the proof cannot do
without excluding: two instances share no lock.

`OperationsProofs` proves the four properties of `Operations` for any number of
callers, cards, changes and captures, waiting, failing or abandoned. Each speaks
of the step that saves or answers, long after the read it rests on; what lies
between is the invariant:

* `QueueOK`: captures read in the order they were asked for, and one that read
  after the last change read what is live;
* `SeenOK`: while an operation still rests on what it saw, that is what is live,
  or somebody changed the dashboard after it took note (`UpToDate` is false);
* `KeptOK`: once its own capture was written, every capture behind it read no
  earlier, so what they write leaves the newest entry the live one;
* `RecordedOK` and `MarkedOK`: past the check what is live is an entry, and the
  version made is of it; `PlanOK`: what would be written is what was seen but for
  the cards it is about.

`UpToDate` is what lets one caller's invariant survive the others: a step of
anybody else leaves the dashboard as it is, or raises `changes` and makes
`UpToDate` false, and then only `KeptOK` has something left to say. The
exceptions in the properties - the caller insisted, or was overtaken between
the check and the save - are the ones the code allows: it holds no lock there.

`MarksProofs` proves the six properties of `Marks` for any number of days, states,
requests, rewrites, unloadings and restarts. A marker reads the history, then the
versions, chooses a level, then a number, and writes, so `MarksInv` says of each of
these how much of what was read still holds:

* `Types`: what a job holds was read from a history that has only grown since;
* `Limited`: the numbers in use are bounded, so that there is a highest one - again by
  the well-foundedness of the naturals taken at a set, rather than by induction;
* `OneMarker`, `DayIsOver`: floor and day mark share a lock, and a day is marked by its
  last state, which has a successor on a later day;
* `OneMark` (for `OneMarkPerDay` and `NeverInEachOthersWay`): what the marker found
  unmarked, day and name, is unmarked still, or the revision it read was renamed and
  its write refused;
* `Settled` (for `NeverStranded`): whoever raises by a patch saw a number that is there;
* `FloorLaid`: without a rewrite the first state, to which the floor belongs, keeps its
  name, so a pass that is "done" found a number, made one, or was refused a name somebody
  else's version took meanwhile; where a read raised or git refused the name for a tag
  beside it, the pass is not "done" (`Released`);
* `DayCloses` (for `EveryDayCloses`): until a day that is awaited is closed, a marker is
  at work on it or a wake-up is due; the mark that fails or is refused with none behind
  it empties `owed`, and with one behind it leaves the day to that one;
* `Told` (for `PastDaysStayClosed`): a version taken away for good is of a state that no
  marker looks at again, because a state after it belongs to a day that is over too
  and is its end instead, or because it is out of the window (`Closed`); and no mark
  that waits or works was begun before that (`Shut`, `ForGood`).

Each part is claimed only without the doubts its property excuses, and a doubt once
raised stays.

`PanelProofs` proves the four safety properties of `Panel` for any number of
dashboards, revisions, questions, announcements and forgets. The revisions of every
dashboard are numbered without gaps, whatever is saved or forgotten (`Numbered`), which
makes a page a run by itself (`IsPage`). The questions are a list in which steps add,
drop or turn one, and for each action it is said once what becomes of the others.
`PanelInv` is then

* `Types`, `Noted` (a question that failed is a mishap);
* `OneMine`: one question at most holds the ticket of the list. It is what makes a late
  answer harmless, and with `ListOK` - the cursor is the last row, and an older page
  asked for continues there - gives `OneRun`;
* `Late`: the rows are of the dashboard chosen, or whoever holds the ticket reads them
  again (`LateAnswersAreDropped`);
* `End`: a cursor is in the history or its generation is behind it (`Known`), so the
  history can tell a void cursor and never answers it with an empty page (`EndIsTheEnd`);
* `NewsOK`, `LockOK`, `Watch`: a forget under way has its announcement on the way or has
  locked the page, its end is announced once, and one question at most will lift the lock;
* `Armed`: whoever waits for the announcement of a write has asked for the write, so the
  save whose announcement is taken for it is read in by the reload that follows the write;
* `Lent`: a lock of somebody else's forget is lifted on hearing its end, so the reading
  that skipped saves rely on is still to be asked for;
* `Current` (for `PageIsCurrent`): where the rows are not those of the history, they
  will be read again (`Coming`): by a question that has yet to ask (`Asks`), by the reload
  after a write or a forget, by an announcement still to be heard, when a dialog that
  threw one away is applied, or when the lock comes off. `PageIsCurrent` speaks of the
  moment when none of these is left.

`AnalysisProofs` proves `TypeOK`, `EachMatchedOnce`, `ChangesAreSeen` and
`PuttingBackAddsOne` for any dashboards to begin with, cards, titles, paths and edits.
The inductive invariant is `AnalysisTypeOK`: a dashboard stays a row of views, sections
and cards whatever an editor writes, an undo carries out or a putting back returns.
Both other invariants are consequences of it, that is, facts about the operators on any
two such dashboards; but the operators iterate, and the proofs rest on what each
iteration keeps:

* `First` of a finite set under an order without cycles exists; `InOrder` lists a
  finite set; positions, slots and places are finite, and a slot is where it says
  (`SlotsAre`). The existence of a least element comes, as before, from the
  well-foundedness of the naturals taken at a set;
* for `EachMatchedOnce`: `Matched` says of a matching under way that what is
  unclaimed and what is paired make up each side without overlap, and that the pairs are
  one to one. Every pass keeps it, because what it claims is one to one and of what
  is left: `Aligned`, since two items with the same label cannot have as many before
  them; `MostAlikeFirst`, since what shares a card with the chosen pair is out;
  `ClaimUnique` by its definition. At the end the two sides have lost equally many;
* for `ChangesAreSeen`: when nothing is removed, added, edited or moved, every card
  was claimed in its place, and none before it went or came, so every list is item
  for item what it was (`ListsAgree`); when in addition no section is unpaired, moved or reset,
  the rows of sections are the same. What is left to differ is
  the order of the views, or a view hidden by another of the same path, and those the
  property names.

`PuttingBackAddsOne` is the first half of `PutBackSettles`, the action property that a
putting back adds one thing and touches nothing else. What is put into a row can be
taken out of it again (`OneMore`), and the lists written into a view are the lists
read from it (`ListsWritten`, `ListsWrittenBack`); a card with an anchor goes to a
section that is there, because the anchor counts the sections (`ReinsertedIs`).

The proof of `ChangesAreSeen` is why `EveryChangeIsSeen` has these two exceptions:
without paths that can change and views that can move, TLC had not met them.

`UndoProofs` proves `UndoneIsBefore`, the property `UndoGoesBack`: an undo that is
carried out right after a change leads back to what was before it, for any number of
cards, sections and views and whatever was added, removed, moved and edited at once.
The inductive invariant is `AnalysisTypeOK` and, while the stage is "changing",
that `current` is `after`; all the rest is about the steps of one plan, of which the
order is fixed by `apply_undo` only as far as kind and index go. The argument:

* `StepsAtOnce`: with nothing changed since, no step is dropped, shifted or renamed:
  the plan is exactly what the two states differ in - the rows of sections to be written
  (`Written`), the cards and badges in the views both have (`ItemsWritten`), the views
  only one of them has (`Removal`, `Insertion`). A plan with an ambiguity has no way to
  be carried out;
* `Restored`, the heart of it, is about any row: if its extra items are taken out from
  the highest index down, and the missing ones then come in from the lowest index up,
  the row ends as it was, whatever other steps come in between. (A card that was edited
  or moved is an extra one on the one side and a missing one on the other.) The
  invariant (`OnItsWay`) says at every step what the row holds: the kept items and those
  still to go, or the kept items and those that are back, in the order of their indices
  (`Holds`, `NthOf`). An index planned for the whole row is right in the partial one
  because all that stands before it is there already;
* `AllTheWay`: each step has, wherever it comes among the others, its own `Effect`
  and no other. `Midway` follows the dashboard through every prefix of the steps: its
  title has gone back, and its views are those both states have, those still to go and
  those that have come. For a view without a path this is where `PlacesHold` is needed,
  and the finding `undo_exact` shows that it is;
* `ListGoesBack` and `PathsGoBack`: so every list of a view whose row is not written,
  and, where the views kept their order, the row of views, is a row that goes back; a
  row that is written is written as it was.

Model-checked only:

* `UndoKeepsTheRest`, `UndoneOnce` and the second half of `PutBackSettles` (each time
  there is less left to put back), action properties of `Analysis`. They relate a plan
  to a third dashboard, in which other changes have shifted every index:
  what `UndoProofs` says of the row of two states has to be said of three, with a
  matching between each two of them, and the matchings need not agree;
* liveness (`ForgetIsFinished`, `CatchesUp`, `LockComesOff`), which TLAPS cannot do.

Every other property of a passing run is a theorem.

## 5. Not modelled

* `store.py`: damaged or foreign checkpoint files and their being discarded; lock
  files left by an earlier process; the reflog; the survey and the measurements;
  `search_changes` with versions; the best-effort reads.
* `capture.py`: renamed dashboards and metadata, keys that are not safe, the
  fallback to storage files.
* `operations.py`: search, comparison, describing, listings, the wording of reports.
* `analyze/`: `explain.py` (wording), dashboards that are not well formed,
  strategies, settings one by one.
* `panel.js`: search, the open row, rendering. The preview a dialog shows is not asked
  for by a question of its own; the second question after a refused write
  (`_confirmOverride`) is part of the write, since the reload follows either way; the
  dialog of a forget is confirmed at once; `recordNow`, which ends on the same reload as
  a write and waits for nothing, is a `Reload`; a dashboard announced that is not the one
  on the screen has the list of dashboards read again, which changes none of the rows.
* Everything marked `not_modelled` in `PROJECT.json`, with the reason there.

## 6. Plan

1. *Analysis*: a proof of `UndoKeepsTheRest`, first for a later change to other views;
   strategies and settings one by one.
2. *Readers*: `search_changes` with versions, the best-effort reads beside pruning.
3. *Store*: foreign and damaged checkpoints as an environment step.
4. *Panel*: the open row and the search, each with its ticket.
