------------------------------- MODULE Versions --------------------------------
(***************************************************************************)
(* versions.py: the calculations behind the versions of one dashboard.     *)
(* Numbers, and which state ended the day before.                          *)
(*                                                                         *)
(* A version is a tag <key>/v<major>.<minor>.<patch>; a number is the      *)
(* triple.  NoNumber is the name of a tag somebody made by hand, which     *)
(* does not parse.  A recorded state has the local calendar day it falls   *)
(* on; a time zone and a change of the clocks only decide which that is.   *)
(***************************************************************************)
EXTENDS Integers, FiniteSets, Sequences

NoNumber == <<>>
Levels   == {"patch", "minor", "major"}

(* Compared as numbers, not as the text of a name.                         *)
Below(m, n) ==
    \/ m[1] < n[1]
    \/ m[1] = n[1] /\ m[2] < n[2]
    \/ m[1] = n[1] /\ m[2] = n[2] /\ m[3] < n[3]

(* latest: what a name that does not parse can never shift.                *)
Numbered(versions) == {v \in versions : v.number # NoNumber}

Highest(versions) ==
    CHOOSE v \in Numbered(versions) :
        \A w \in Numbered(versions) : ~Below(v.number, w.number)

(* Everything below the level resets to zero.                              *)
Bump(n, level) ==
    CASE level = "major" -> <<n[1] + 1, 0, 0>>
      [] level = "minor" -> <<n[1], n[2] + 1, 0>>
      [] level = "patch" -> <<n[1], n[2], n[3] + 1>>

(* candidates: counted from the highest there is, or from 0.0.0.           *)
Candidate(versions, level) ==
    Bump(IF Numbered(versions) = {} THEN <<0, 0, 0>> ELSE Highest(versions).number, level)

(* Mutant: always one patch on.                                            *)
AlwaysPatch(versions) == "patch"

AutomaticLevel(versions) == IF Numbered(versions) = {} THEN "major" ELSE "patch"

(* The newest entries of a history, oldest first as the history is.        *)
Newest(states, count) ==
    SubSeq(states, (IF Len(states) > count THEN Len(states) - count ELSE 0) + 1, Len(states))

(* end_of_previous_day: the newest entry of another day than the newest    *)
(* entry of all, or 0.  days is oldest first.                              *)
EndOfPreviousDay(days) ==
    LET earlier == {i \in DOMAIN days : days[i] # days[Len(days)]}
    IN  IF earlier = {} THEN 0
        ELSE CHOOSE i \in earlier : \A j \in earlier : j <= i

Days(states) == [i \in DOMAIN states |-> states[i].day]

(* Mutant: asked of the day instead of the state.                          *)
AnsweredFromTheDay(state, states, today, count) == states[Len(states)].day <= state.day

(* would_be_marked_again: the rule itself, run with a save put on top.     *)
WouldBeMarkedAgain(state, states, today, count) ==
    LET window == Newest(Append(Days(states), today), count)
        at     == EndOfPreviousDay(window)
    IN  /\ at # 0
        /\ states[at + Len(states) + 1 - Len(window)].id = state.id

Automatic(v) == v.by \in {"floor", "day"}
================================================================================
