--------------------------------- MODULE Marks ---------------------------------
(***************************************************************************)
(* milestones.py with the operations that make and remove versions: the    *)
(* floor laid after a start, the mark at the end of a day, and a person    *)
(* doing the same beside them.  One dashboard; the store is what it        *)
(* promises, one write is one step.                                        *)
(*                                                                         *)
(* The floor pass and the day marks work under one lock, each with a job   *)
(* of its own.  A person does not take that lock, and a reload brings a    *)
(* new one while the executor may still have a write of the old instance   *)
(* in hand (job["loose"]).                                                 *)
(***************************************************************************)
EXTENDS Versions

CONSTANTS Contents,     \* what a dashboard can hold
          Gone,         \* the state a deletion records
          MaxDay,       \* bound: calendar days
          MaxStates,    \* bound: states recorded
          RecentStates, \* versions.RECENT_STATES
          Asked,        \* the levels a person asks for
          MaxEvents     \* bound: what a person asks for, forgets of other dashboards,
                        \* unloadings and ends of the process, taken together

ASSUME ContentsAssumption == Gone \notin Contents
ASSUME BoundsAssumption ==
    /\ MaxDay \in Nat \ {0} /\ MaxStates \in Nat /\ RecentStates \in Nat \ {0}
    /\ Asked \subseteq Levels /\ MaxEvents \in Nat

VARIABLES
    today,
    states,    \* the history of the dashboard, oldest first
    versions,  \* its tags
    beside,    \* the number whose name a tag made by hand stands in the way of
    rewrites,  \* rewrites of the history begun for another dashboard
    rewriting, \* one of them is under way
    up,        \* set up and armed
    unloads,
    due,       \* day marks waiting for the marking lock
    floor,     \* the floor pass of this start: "due", "waiting", "working", "done",
               \* "no" when it found no live dashboard, was cut short, or ended in
               \* an exception or at a name git cannot hold
    job,       \* the floor pass, the day mark being made, a person, and a thread
               \* an unloading left behind
    requests,
    owed,      \* history variable: states whose announcement has yet to be answered for
    told,      \* history variable: states called gone for good when a person
               \* took an automatic version from them, and the day of that
    clash,     \* history variable: an automatic name was taken by an automatic version
    doubt      \* history variable: what has happened beside a mark

recorded == <<today, states, rewrites, rewriting>>
entry    == <<up, unloads>>
history  == <<owed, told, clash, doubt>>
vars     == <<recorded, versions, beside, entry, due, floor, job, requests, history>>

Ids  == 1 .. MaxStates
Days0 == 1 .. MaxDay
Doubts == {"unload", "rewriting", "removed", "crossed", "lowered"}

(* A revision as it was read: the state, and how many rewrites its name    *)
(* has lived through.                                                      *)
Revision(id, at) == [id |-> id, at |-> at]

Bounded == requests + rewrites + unloads < MaxEvents

NoJob == [does |-> "nothing"]

Idle(p) == job[p].does = "nothing"

Ends(p) == job' = [job EXCEPT ![p] = NoJob]

Becomes(p, j) == job' = [job EXCEPT ![p] = j]

Live == states # <<>> /\ states[Len(states)].content # Gone

(* resolve: a name holds from the rewrite that gave it until the next that *)
(* changes it has pruned.                                                  *)
Resolves(rev) ==
    \E i \in DOMAIN states :
        states[i].id = rev.id /\ (states[i].named <= rev.at \/ rewriting)

StateOf(id) == states[CHOOSE i \in DOMAIN states : states[i].id = id]

Init ==
    /\ today = 1 /\ states = <<>> /\ versions = {} /\ beside = NoNumber
    /\ rewrites = 0 /\ rewriting = FALSE
    /\ up = TRUE /\ unloads = 0
    /\ due = 0 /\ floor = "due"
    /\ job = [p \in {"floor", "day", "person", "loose"} |-> NoJob]
    /\ requests = 0
    /\ owed = {} /\ told = {} /\ clash = FALSE /\ doubt = {}

-----------------------------------------------------------------------------
(* The recorder, the calendar, a forget of another dashboard.              *)

NextDay ==
    /\ today < MaxDay
    /\ today' = today + 1
    /\ UNCHANGED <<states, rewrites, rewriting, versions, beside, entry, due, floor, job,
                   requests, history>>

(* _handle_recorded and the first lines of _async_mark_day.                *)
Heard(announced) == announced /\ up

(* What the recorder writes.  Not announced are a capture before a restore *)
(* and, to the same effect, a change while OPTION_DAILY_VERSIONS is off.   *)
Record(content, announced) ==
    /\ Len(states) < MaxStates
    /\ ~rewriting
    /\ content = Gone => Live
    /\ LET id == Len(states) + 1 IN
       /\ states' = Append(states, [id |-> id, named |-> rewrites, day |-> today,
                                    content |-> content])
       /\ due' = IF Heard(announced) THEN due + 1 ELSE due
       /\ owed' = IF announced /\ up THEN owed \cup {id} ELSE owed
    /\ UNCHANGED <<today, rewrites, rewriting, versions, beside, entry, floor, job, requests,
                   told, clash, doubt>>

(* forget of another dashboard: from its first change on, every revision   *)
(* gets a new name, and the tags are deleted and written back.             *)
RewriteBegins(first) ==
    /\ ~rewriting
    /\ Bounded
    /\ rewrites' = rewrites + 1
    /\ rewriting' = TRUE
    /\ states' = [i \in DOMAIN states |->
                    IF i >= first THEN [states[i] EXCEPT !.named = rewrites + 1]
                    ELSE states[i]]
    /\ UNCHANGED <<today, versions, beside, entry, due, floor, job, requests, history>>

(* The old objects are pruned and the checkpoint goes.                     *)
RewriteEnds ==
    /\ rewriting
    /\ rewriting' = FALSE
    /\ UNCHANGED <<today, states, rewrites, versions, beside, entry, due, floor, job, requests,
                   history>>

-----------------------------------------------------------------------------
(* Setting up and unloading.                                               *)

Setup ==
    /\ ~up
    /\ up' = TRUE
    /\ floor' = "due"
    /\ UNCHANGED <<recorded, versions, beside, unloads, due, job, requests, history>>

(* The entry's background tasks are cancelled; a write the executor has    *)
(* in hand is finished all the same.  When the process ends, it is not.    *)
Unload ==
    /\ up
    /\ Bounded
    /\ unloads' = unloads + 1
    /\ up' = FALSE
    /\ due' = 0 /\ floor' = "no"
    /\ \/ job' = [job EXCEPT !["floor"] = NoJob, !["day"] = NoJob]
       \/ \E p \in {"floor", "day"} :
            /\ job[p].does = "write"
            /\ Idle("loose")
            /\ job' = [job EXCEPT !["floor"] = NoJob, !["day"] = NoJob,
                                  !["loose"] = job[p]]
    /\ owed' = {}
    /\ doubt' = IF job'["loose"].does = "nothing" THEN doubt ELSE doubt \cup {"unload"}
    /\ UNCHANGED <<recorded, versions, beside, requests, told, clash>>

-----------------------------------------------------------------------------
(* Reading.  list_changes raises while a forget is under way, and whenever *)
(* HEAD has moved during each of its three attempts, which saves of any    *)
(* dashboard do.  A listing of the versions is not held off and skips a    *)
(* ref that is just away.  What a reader raises ends its job: the pass and *)
(* the day mark swallow every exception.                                   *)

Listed(seen) ==
    /\ seen \in SUBSET versions
    /\ ~rewriting => seen = versions

(* A mark that fails or is refused is a mark that is missing, unless       *)
(* another one waits that will look at the same days.                      *)
Unanswered(waiting) == IF waiting > 0 THEN owed ELSE {}

Dropped(p) ==
    /\ Ends(p)
    /\ owed' = IF p = "day" THEN Unanswered(due) ELSE owed

Released(p, how) == floor' = IF p = "floor" THEN how ELSE floor

ReadRaises(p) ==
    /\ \/ job[p].does = "oldest"
       \/ job[p].does \in {"compare", "name"} /\ rewriting
    /\ Dropped(p)
    /\ Released(p, "no")
    /\ UNCHANGED <<recorded, versions, beside, entry, due, requests, told, clash, doubt>>

Missed(seen) == IF seen = versions THEN doubt ELSE doubt \cup {"rewriting"}

-----------------------------------------------------------------------------
(* The floor.                                                              *)

(* list_dashboards, outside the lock; the tree may be pruned under it.     *)
ListForFloor ==
    /\ floor = "due"
    /\ \/ floor' = IF Live THEN "waiting" ELSE "no"
       \/ rewriting /\ floor' = "no"
    /\ UNCHANGED <<recorded, versions, beside, entry, due, job, requests, history>>

(* Mutant: the marking lock is not taken.                                  *)
Unlocked(p) == Idle(p)

(* self._marking: one at a time.                                           *)
Locked(p) == Idle("floor") /\ Idle("day")

(* Mutant: a tag that carries no number counts as a version.               *)
NumberlessByList(seen) == seen = {}

Numberless(seen) == Numbered(seen) = {}

FloorReadsVersions ==
    /\ floor = "waiting"
    /\ Locked("floor")
    /\ \E seen \in SUBSET versions :
         /\ Listed(seen)
         /\ doubt' = Missed(seen)
         /\ IF Numberless(seen)
            THEN Becomes("floor", [does |-> "oldest", by |-> "floor"]) /\ floor' = "working"
            ELSE UNCHANGED job /\ floor' = "done"
    /\ UNCHANGED <<recorded, versions, beside, entry, due, requests, owed, told, clash>>

(* list_changes(key, None): the oldest entry of all.                       *)
FloorReadsHistory ==
    /\ job["floor"].does = "oldest"
    /\ ~rewriting
    /\ IF states = <<>>
       THEN Ends("floor") /\ floor' = "done"
       ELSE /\ Becomes("floor", [does |-> "name", by |-> "floor", level |-> "major",
                                 rev |-> Revision(1, rewrites)])
            /\ UNCHANGED floor
    /\ UNCHANGED <<recorded, versions, beside, entry, due, requests, history>>

-----------------------------------------------------------------------------
(* The day mark.                                                           *)

(* Mutant: the second entry, not the end of the day before.                *)
SecondEntry(window) ==
    IF Len(window) >= 2 /\ window[Len(window) - 1].day # window[Len(window)].day
    THEN Len(window) - 1 ELSE 0

(* However many states the new day has by the time this runs.              *)
LastOfPreviousDay(window) == EndOfPreviousDay(Days(window))

(* The newest states, under the lock, as they are now, or an exception.    *)
MarkReadsHistory ==
    /\ due > 0
    /\ Locked("day")
    /\ due' = due - 1
    /\ \/ UNCHANGED job /\ owed' = Unanswered(due - 1)
       \/ /\ ~rewriting
          /\ LET window == Newest(states, RecentStates)
                 at     == LastOfPreviousDay(window)
             IN  IF at = 0 THEN UNCHANGED job
                 ELSE Becomes("day", [does |-> "versions", by |-> "day",
                                      rev |-> Revision(window[at].id, rewrites)])
          /\ UNCHANGED owed
    /\ UNCHANGED <<recorded, versions, beside, entry, floor, requests, told, clash, doubt>>

(* Already marked, by a person or by an earlier run.                       *)
MarkReadsVersions ==
    /\ job["day"].does = "versions"
    /\ \E seen \in SUBSET versions :
         /\ Listed(seen)
         /\ doubt' = Missed(seen)
         /\ LET rev == job["day"].rev IN
            IF \E v \in seen : v.state = rev.id /\ StateOf(v.state).named <= rev.at
            THEN Ends("day")
            ELSE Becomes("day", [does |-> "compare", by |-> "day", rev |-> rev,
                                    seen |-> seen, at |-> rewrites])
    /\ UNCHANGED <<recorded, versions, beside, entry, due, floor, requests, owed, told, clash>>

(* Mutant: only the state itself counts, not the day it is of.             *)
DayNeverMarked(day, seen, at) == FALSE

(* marks_since and day_is_marked, with the times commit_times can still    *)
(* read.  The tag of an automatic version is never older than the day it   *)
(* is about while the clock does not go back, so the first leaves out none *)
(* that the second would count.                                            *)
DayIsMarked(day, seen, at) ==
    \E v \in seen :
        /\ Automatic(v)
        /\ Resolves(Revision(v.state, at))
        /\ StateOf(v.state).day = day

(* same_state: FALSE where either of the two cannot be read, and where     *)
(* the dashboard was not there.                                            *)
SameState(one, other) ==
    /\ Resolves(one) /\ Resolves(other)
    /\ StateOf(one.id).content # Gone
    /\ StateOf(one.id).content = StateOf(other.id).content

MarkCompares ==
    /\ job["day"].does = "compare"
    /\ LET j == job["day"] IN
       IF \/ DayIsMarked(StateOf(j.rev.id).day, j.seen, j.at)
          \/ /\ Numbered(j.seen) # {}
             /\ SameState(j.rev, Revision(Highest(j.seen).state, j.at))
       THEN Ends("day")
       ELSE Becomes("day", [does |-> "name", by |-> "day",
                               level |-> AutomaticLevel(j.seen), rev |-> j.rev])
    /\ UNCHANGED <<recorded, versions, beside, entry, due, floor, requests, history>>

-----------------------------------------------------------------------------
(* async_create_version, for whoever asks.                                 *)

(* The state is looked up, and the number worked out from a listing of     *)
(* its own.                                                                *)
Name(p) ==
    /\ job[p].does = "name"
    /\ \/ /\ ~Resolves(job[p].rev) \/ StateOf(job[p].rev.id).content = Gone
          /\ Dropped(p)
          /\ Released(p, "done")
          /\ UNCHANGED doubt
       \/ /\ Resolves(job[p].rev) /\ StateOf(job[p].rev.id).content # Gone
          /\ \E seen \in SUBSET versions :
               /\ Listed(seen)
               /\ doubt' = Missed(seen)
               /\ Becomes(p, [does |-> "write", by |-> job[p].by, rev |-> job[p].rev,
                              number |-> Candidate(seen, job[p].level)])
          /\ UNCHANGED <<floor, owed>>
    /\ UNCHANGED <<recorded, versions, beside, entry, due, requests, told, clash>>

Taken(number) == {v \in versions : v.number = number}

(* store.create_version, under the store's lock: refused while the         *)
(* checkpoint of a forget is there, for a name that is taken, one with a   *)
(* tag below it, and a revision that is no more.                           *)
Write(p) ==
    /\ job[p].does = "write"
    /\ LET j == job[p] IN
       \/ /\ rewriting \/ Taken(j.number) # {} \/ j.number = beside \/ ~Resolves(j.rev)
          /\ Dropped(p)
          /\ Released(p, IF j.number = beside THEN "no" ELSE "done")
          /\ clash' = (clash \/ \E v \in Taken(j.number) : Automatic(v) /\ Automatic(j))
          /\ UNCHANGED <<versions, doubt>>
       \/ /\ ~rewriting /\ Taken(j.number) = {} /\ j.number # beside /\ Resolves(j.rev)
          /\ versions' = versions \cup {[number |-> j.number, state |-> j.rev.id,
                                         by |-> j.by]}
          /\ Ends(p)
          /\ Released(p, "done")
          /\ doubt' = IF j.by = "person" /\ j.number[1] = 0
                      THEN doubt \cup {"lowered"} ELSE doubt
          /\ UNCHANGED <<owed, clash>>
    /\ UNCHANGED <<recorded, beside, entry, due, requests, told>>

-----------------------------------------------------------------------------
(* A person.                                                               *)

(* async_create_version: the number is worked out from a listing, and the  *)
(* name is written a request to the store later.                           *)
AskForVersion(id, level) ==
    /\ Idle("person")
    /\ Bounded
    /\ requests' = requests + 1
    /\ StateOf(id).content # Gone
    /\ \E seen \in SUBSET versions :
         /\ Listed(seen)
         /\ Becomes("person", [does |-> "write", by |-> "person", rev |-> Revision(id, rewrites),
                               number |-> Candidate(seen, level)])
    /\ UNCHANGED <<recorded, versions, beside, entry, due, floor, history>>

(* Somebody who opens the repository: a tag with a name of its own, or one *)
(* below the name that the next automatic version would be given.          *)
TagByHand(id, below) ==
    /\ ~rewriting
    /\ Bounded
    /\ requests' = requests + 1
    /\ ~\E v \in versions : v.by = "hand"
    /\ versions' = versions \cup {[number |-> NoNumber, state |-> id, by |-> "hand"]}
    /\ beside' = below
    /\ UNCHANGED <<recorded, entry, due, floor, job, history>>

(* async_remove_version without confirm: the version's words, and whether  *)
(* it would only come back.                                                *)
Returns(v) ==
    /\ Automatic(v)
    /\ WouldBeMarkedAgain(StateOf(v.state), states, today, RecentStates)

PreviewRemoval(v) ==
    /\ Idle("person")
    /\ ~rewriting
    /\ Bounded
    /\ requests' = requests + 1
    /\ Becomes("person", [does |-> "confirm", version |-> v, returns |-> Returns(v),
                          asked |-> today])
    /\ UNCHANGED <<recorded, versions, beside, entry, due, floor, history>>

(* With confirm, a request later: read again and deleted under the lock.   *)
ConfirmRemoval ==
    /\ job["person"].does = "confirm"
    /\ ~rewriting
    /\ Ends("person")
    /\ LET j == job["person"] IN
       IF j.version \in versions
       THEN /\ versions' = versions \ {j.version}
            /\ beside' = IF j.version.by = "hand" THEN NoNumber ELSE beside
            /\ owed' = {}
            /\ told' = IF Automatic(j.version) /\ ~j.returns
                       THEN told \cup {[state |-> j.version.state, on |-> j.asked]}
                       ELSE told
            /\ doubt' = doubt \cup {"removed"}
                    \cup (IF due = 0 /\ \A p \in DOMAIN job \ {"person"} : Idle(p)
                          THEN {} ELSE {"crossed"})
       ELSE UNCHANGED <<versions, beside, owed, told, doubt>>
    /\ UNCHANGED <<recorded, entry, due, floor, requests, clash>>

-----------------------------------------------------------------------------
Marker ==
    \/ ListForFloor \/ FloorReadsVersions \/ FloorReadsHistory
    \/ MarkReadsHistory \/ MarkReadsVersions \/ MarkCompares
    \/ \E p \in {"floor", "day"} : ReadRaises(p) \/ Name(p) \/ Write(p)

Person ==
    \/ \E i \in DOMAIN states, level \in Asked : AskForVersion(states[i].id, level)
    \/ \E i \in DOMAIN states :
         \E below \in {NoNumber, Candidate(versions, AutomaticLevel(versions))} :
            TagByHand(states[i].id, below)
    \/ Write("person")
    \/ \E v \in versions : PreviewRemoval(v)
    \/ ConfirmRemoval

Next ==
    \/ NextDay \/ Setup \/ Unload
    \/ \E content \in Contents \cup {Gone}, announced \in BOOLEAN : Record(content, announced)
    \/ \E first \in 1 .. Len(states) + 1 : RewriteBegins(first)
    \/ RewriteEnds
    \/ Marker \/ Write("loose") \/ Person

Spec == Init /\ [][Next]_vars

-----------------------------------------------------------------------------
MarksTypeOK ==
    /\ today \in Days0
    /\ Len(states) <= MaxStates
    /\ \A i \in DOMAIN states :
         states[i] \in [id : {i}, named : 0 .. rewrites, day : 1 .. today,
                       content : Contents \cup {Gone}]
    /\ \A v \in versions :
         /\ v.state \in 1 .. Len(states)
         /\ v.by \in {"floor", "day", "person", "hand"}
         /\ v.number = NoNumber <=> v.by = "hand"
    /\ beside = NoNumber \/ \E v \in versions : v.by = "hand"
    /\ rewrites \in 0 .. MaxEvents /\ rewriting \in BOOLEAN
    /\ up \in BOOLEAN /\ unloads \in 0 .. MaxEvents
    /\ due \in 0 .. MaxStates
    /\ floor \in {"no", "due", "waiting", "working", "done"}
    /\ floor = "working" <=> ~Idle("floor")
    /\ \A p \in DOMAIN job : job[p].does \in {"nothing", "oldest", "versions", "compare",
                                              "name", "write", "confirm"}
    /\ owed \subseteq Ids /\ doubt \subseteq Doubts /\ clash \in BOOLEAN

Unless(doubts) == doubt \cap doubts = {}

(* No two automatic versions are about the same day (milestones.py:373).   *)
(* An unloading that leaves a write behind and a listing read while a      *)
(* forget rewrites the tags are the exceptions.                            *)
OneMarkPerDay ==
    Unless({"unload", "rewriting"}) =>
        \A v, w \in {u \in versions : Automatic(u)} :
            StateOf(v.state).day = StateOf(w.state).day => v = w

(* When no day mark is waiting or being made, the day before the newest    *)
(* one is closed: its last state, or its day, or what the dashboard held,  *)
(* carries a version.  It is owed as soon as one state of the newest day   *)
(* was announced, however many were recorded within the window, and as     *)
(* long as the last mark that came by neither ended in an exception nor    *)
(* was refused: those are swallowed, and the day may stay open.            *)
EveryDayCloses ==
    LET end == EndOfPreviousDay(Days(states))
    IN  (/\ due = 0 /\ Idle("day")
         /\ end # 0 /\ states[end].content # Gone
         /\ Len(states) - end < RecentStates
         /\ \E i \in end + 1 .. Len(states) : i \in owed)
        => \E v \in versions :
              \/ v.state = end
              \/ Automatic(v) /\ StateOf(v.state).day = states[end].day
              \/ v.number # NoNumber /\ StateOf(v.state).content = states[end].content

(* An automatic version never starts a dashboard on the v0.0.x track.      *)
(* A person who is on that track, and a version taken away between the     *)
(* choice of the level and the choice of the name, are the exceptions.     *)
NeverStranded ==
    Unless({"crossed", "rewriting", "lowered"}) =>
        \A v \in versions : Automatic(v) => v.number[1] >= 1

(* The floor and a day mark never work out the same name: the one that     *)
(* comes second stands down, and no refusal is logged about a dashboard    *)
(* that is in order.                                                       *)
NeverInEachOthersWay == Unless({"unload", "rewriting"}) => ~clash

(* A version taken away after its day, with the answer that it does not    *)
(* return, is not made again by any later day mark.                        *)
PastDaysStayClosed ==
    Unless({"crossed", "unload", "rewriting"}) =>
        \A v \in versions, t \in told :
            v.by = "day" /\ v.state = t.state => t.on = StateOf(t.state).day

(* Once the floor pass has been through with a dashboard, which then was   *)
(* live, the dashboard carries a number, whatever a person and the day     *)
(* marks did meanwhile.  Not so where the pass ended in an exception or at *)
(* a name git cannot hold beside a tag made by hand: it tries again at the *)
(* next start.                                                             *)
FloorIsLaid ==
    floor = "done" /\ rewrites = 0 /\ Unless({"removed"}) => Numbered(versions) # {}
================================================================================
