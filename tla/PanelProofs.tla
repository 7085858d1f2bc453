------------------------------- MODULE PanelProofs -------------------------------
(***************************************************************************)
(* The page of Panel, for any number of dashboards, states, clicks, saves  *)
(* and forgets: the log first, then the calls, then the invariant.         *)
(***************************************************************************)
EXTENDS Panel, FiniteSetTheorems, SequenceTheorems, TLAPS

--------------------------------------------------------------------------------
(* The invariant *)

Numbered(h) ==
    /\ h \subseteq Entries
    /\ \A r, s \in h : r.dash = s.dash /\ r.id = s.id => r = s
    /\ \A dash \in Dashboards :
         \E n \in Nat : {r.id : r \in {s \in h : s.dash = dash}} = 1 .. n

Pages == [rows : Seq(Entries), next : Entries \cup {None}, generation : Nat,
          restarted : BOOLEAN]

Calls == [fn : {"load", "select", "older", "refresh", "forget", "write", "note"},
          at : {"listing", "listed", "asked", "answered", "refused", "cut"},
          mine : BOOLEAN, dash : Dashboards \cup {None},
          before : Entries \cup {None}, since : Nat \cup {None},
          guarded : {"shown", "quiet", "said"}, frees : BOOLEAN,
          answer : {None} \cup Pages \cup SUBSET Dashboards]

Events == [kind : {"recorded", "rewriting", "done"}, dash : Dashboards]

IsRun(rows) ==
    \A i \in 1 .. Len(rows) - 1 :
      rows[i + 1].dash = rows[i].dash /\ rows[i + 1].id = rows[i].id - 1

(* The rows of one dashboard, and where they go on.                        *)
IsPage(a, dash) ==
    /\ a \in Pages
    /\ IsRun(a.rows) /\ \A i \in DOMAIN a.rows : a.rows[i].dash = dash
    /\ a.next # None => a.rows # <<>> /\ a.next = Last(a.rows) /\ a.next.id > 1
    /\ a.next = None /\ a.rows # <<>> => Last(a.rows).id = 1

CallOK(c) ==
    /\ c.fn = "load" => c.at \in {"listing", "listed", "refused", "cut"}
    /\ c.fn \in {"select", "older", "forget", "write", "note"} =>
         c.at \notin {"listing", "listed"}
    /\ c.fn \in {"select", "older", "forget"} => c.dash \in Dashboards
    /\ c.fn = "refresh" /\ c.at \in {"asked", "answered"} => c.dash \in Dashboards
    /\ c.mine => /\ c.fn \in {"select", "older", "refresh"}
                 /\ c.at \notin {"listing", "listed"} /\ c.dash \in Dashboards
    /\ c.fn = "older" => /\ c.before \in Entries /\ c.before.dash = c.dash
                         /\ c.before.id > 1
    /\ c.fn # "older" => c.before = None
    /\ c.at = "listed" => c.answer \in SUBSET Dashboards
    /\ c.at = "answered" /\ c.fn \in {"select", "older", "refresh"} =>
         /\ IsPage(c.answer, c.dash)
         /\ c.fn = "older" /\ ~c.answer.restarted /\ c.answer.rows # <<>> =>
              c.answer.rows[1].id = c.before.id - 1

Types ==
    /\ Numbered(log) /\ generation \in Nat /\ spent \in Nat
    /\ forgetting \in Gone \cup {None}
    /\ news \in Seq(Events)
    /\ connected \in BOOLEAN /\ listed \in BOOLEAN /\ versionsLoaded \in BOOLEAN
    /\ lost \in BOOLEAN
    /\ selected \in Dashboards \cup {None} /\ shown \in Seq(Entries)
    /\ cursor \in Entries \cup {None} /\ cursorGeneration \in Nat \cup {None}
    /\ locked \in Locks \cup {None}
    /\ calls \in Seq(Calls)
    /\ \A i \in DOMAIN calls : CallOK(calls[i])

Noted == \A i \in DOMAIN calls : Failed(calls[i]) => "failed" \in mishaps

OneMine == \A i, j \in DOMAIN calls : calls[i].mine /\ calls[j].mine => i = j

(* Whoever holds the ticket.                                               *)
HolderOK(c) ==
    /\ selected # None => c.dash = selected
    /\ c.fn = "older" => IF selected = None THEN shown = <<>> ELSE cursor = c.before
    /\ c.fn = "select" /\ selected # None => cursor = None

ListOK ==
    /\ IsRun(shown)
    /\ selected # None /\ cursor # None =>
         /\ shown # <<>> /\ cursor = Last(shown) /\ cursor.id > 1
         /\ RowsOfSelected
    /\ \A i \in DOMAIN calls : calls[i].mine => HolderOK(calls[i])

Rereads(c) == c.mine /\ c.fn \in {"select", "refresh"}

Late ==
    "failed" \notin mishaps /\ selected # None =>
      RowsOfSelected \/ \E i \in DOMAIN calls : Rereads(calls[i])

Known(c, g) == g \in Nat /\ g <= generation /\ (c = None \/ c \in log \/ g < generation)

HolderKnows(c) ==
    /\ c.fn = "older" => Known(c.before, c.since)
    /\ c.at = "answered" =>
         /\ c.fn = "older" /\ ~c.answer.restarted => c.answer.rows # <<>>
         /\ c.fn = "refresh" /\ selected # None => Known(c.answer.next, cursorGeneration)

End ==
    "failed" \notin mishaps =>
      /\ \A i \in DOMAIN calls :
           calls[i].mine /\ calls[i].at = "answered" /\ calls[i].fn \in {"select", "older"} =>
             Known(calls[i].answer.next, calls[i].answer.generation)
      /\ versionsLoaded =>
           /\ shown # <<>> /\ cursor = None => Last(shown).id = 1
           /\ selected # None => Known(cursor, cursorGeneration)
           /\ \A i \in DOMAIN calls : calls[i].mine => HolderKnows(calls[i])

Holds(c) == c.frees \/ c.fn = "forget"

Done(dash) == [kind |-> "done", dash |-> dash]
Begun(dash) == [kind |-> "rewriting", dash |-> dash]
Saved(dash) == [kind |-> "recorded", dash |-> dash]

Heard(e) == \E i \in DOMAIN news : news[i] = e

Erased(dash) == dash \in Gone /\ Newest(dash) = 0

NewsOK ==
    /\ ~connected => news = <<>>
    /\ forgetting # None => Newest(forgetting) # 0
    /\ \A i \in DOMAIN news :
         /\ news[i].kind = "done" =>
              Erased(news[i].dash) /\ \A j \in DOMAIN news : news[j] = news[i] => j = i
         /\ news[i].kind = "rewriting" =>
              /\ news[i].dash \in Gone
              /\ \/ forgetting = news[i].dash
                 \/ \E j \in i + 1 .. Len(news) : news[j] = Done(news[i].dash)

LockOK ==
    /\ \A i, j \in DOMAIN calls : Holds(calls[i]) /\ Holds(calls[j]) => i = j
    /\ \A i \in DOMAIN calls :
         /\ Holds(calls[i]) => locked # None
         /\ calls[i].frees => calls[i].fn \in {"load", "select"}
         /\ calls[i].fn = "forget" => locked = [key |-> calls[i].dash, borrowed |-> FALSE]
         /\ calls[i].fn = "forget" /\ calls[i].at = "answered" => Erased(calls[i].dash)
         /\ calls[i].frees /\ locked.borrowed => Erased(locked.key) /\ ~Heard(Done(locked.key))
         /\ calls[i].frees /\ "failed" \notin mishaps => Erased(locked.key)
    /\ locked # None =>
         /\ locked.key \in Gone
         /\ ~locked.borrowed => \E i \in DOMAIN calls : Holds(calls[i])

Watch ==
    mishaps = {} /\ forgetting # None =>
      Heard(Begun(forgetting)) \/ (locked # None /\ locked.key = forgetting)

(* What will have everything read again: a question, a write or a forget   *)
(* that ends on one, an announcement to come, or the lock lifted when it   *)
(* is heard.                                                               *)
Asks(c) ==
    \/ c.fn = "load" /\ c.at = "listing"
    \/ c.fn = "load" /\ c.at = "listed" /\ c.answer # {}
    \/ c.fn = "refresh" /\ c.at \in {"listing", "listed"}
    \/ c.fn = "forget" \/ Writes(c)

Unheeded(dash) == Heard(Begun(dash)) /\ locked # [key |-> dash, borrowed |-> FALSE]

Lifting == /\ locked # None /\ locked.borrowed
           /\ forgetting = locked.key \/ Heard(Done(locked.key))

(* Thrown away under a dialog: applied, it has everything read again, and  *)
(* cancelled it is a mishap.                                               *)
Coming ==
    \/ dialog = "missed"
    \/ Heard(Saved(selected))
    \/ \E i \in DOMAIN calls : Asks(calls[i])
    \/ \E dash \in Gone : Unheeded(dash)
    \/ Lifting

(* Whoever waits for the announcement of a write has asked for the write.  *)
Armed == awaiting /\ "failed" \notin mishaps => \E i \in DOMAIN calls : calls[i].fn = "write"

(* A lock of somebody else's forget is lifted when the end of it is heard, *)
(* or by the list asked for then.                                          *)
Lent ==
    mishaps = {} /\ locked # None /\ locked.borrowed /\ (\A i \in DOMAIN calls : ~calls[i].frees) =>
      Lifting

StillThere(rows) == \A i \in DOMAIN rows : rows[i] \in log

Fresh(rows) ==
    \/ Newest(selected) = 0
    \/ /\ StillThere(rows)
       /\ rows # <<>> /\ rows[1] = Revision(selected, Newest(selected))

AnswerIsFresh(c) ==
    /\ c.fn \in {"select", "refresh"} => Fresh(c.answer.rows)
    /\ c.fn = "older" => IF c.answer.restarted THEN Fresh(c.answer.rows)
                         ELSE Newest(selected) = 0 \/ StillThere(c.answer.rows)

Current ==
    mishaps = {} /\ selected # None =>
      /\ \A i \in DOMAIN calls :
           calls[i].mine /\ calls[i].at = "answered" => AnswerIsFresh(calls[i]) \/ Coming
      /\ Fresh(shown) \/ Coming \/ \E i \in DOMAIN calls : Rereads(calls[i])

PanelInv ==
    /\ Types /\ Noted /\ OneMine /\ ListOK /\ Late /\ End
    /\ NewsOK /\ LockOK /\ Watch /\ Armed /\ Lent /\ Current
--------------------------------------------------------------------------------
(* The log *)

NewestIn(h, dash) == Max({0} \cup {r.id : r \in {s \in h : s.dash = dash}})

RevisionIn(h, dash, id) == CHOOSE r \in h : r.dash = dash /\ r.id = id

LEMMA InTheLog ==
    ASSUME NEW dash
    PROVE  /\ Newest(dash) = NewestIn(log, dash)
           /\ \A id : Revision(dash, id) = RevisionIn(log, dash, id)
  BY DEF Newest, NewestIn, Revision, RevisionIn

LEMMA MaxOfRun ==
    ASSUME NEW n \in Nat
    PROVE  Max({0} \cup 1 .. n) = n
  <1> DEFINE S == {0} \cup 1 .. n
  <1>1. n \in S /\ \A y \in S : n >= y
    OBVIOUS
  <1>2. Max(S) \in S /\ \A y \in S : Max(S) >= y
    <2>1. Max(S) = CHOOSE x \in S : \A y \in S : x >= y
      BY DEF Max
    <2>2. QED
      BY <1>1, <2>1
  <1>3. Max(S) \in Nat /\ Max(S) >= n /\ n >= Max(S)
    BY <1>1, <1>2
  <1>4. QED
    BY <1>3

(* How many states a dashboard has.                                        *)
LEMMA Counted ==
    ASSUME NEW h, Numbered(h), NEW dash \in Dashboards
    PROVE  /\ NewestIn(h, dash) \in Nat
           /\ {r.id : r \in {s \in h : s.dash = dash}} = 1 .. NewestIn(h, dash)
  <1>1. PICK n \in Nat : {r.id : r \in {s \in h : s.dash = dash}} = 1 .. n
    BY DEF Numbered
  <1>2. NewestIn(h, dash) = n
    BY <1>1, MaxOfRun DEF NewestIn
  <1>3. QED
    BY <1>1, <1>2

LEMMA CountedAs ==
    ASSUME NEW h, NEW dash, NEW n \in Nat, {r.id : r \in {s \in h : s.dash = dash}} = 1 .. n
    PROVE  NewestIn(h, dash) = n
  BY MaxOfRun DEF NewestIn

LEMMA There ==
    ASSUME NEW h, Numbered(h), NEW dash \in Dashboards, NEW id \in 1 .. NewestIn(h, dash)
    PROVE  /\ RevisionIn(h, dash, id) \in h /\ RevisionIn(h, dash, id) \in Entries
           /\ RevisionIn(h, dash, id).dash = dash /\ RevisionIn(h, dash, id).id = id
  <1>1. id \in {r.id : r \in {s \in h : s.dash = dash}}
    BY Counted
  <1>2. \E r \in h : r.dash = dash /\ r.id = id
    BY <1>1
  <1>3. QED
    BY <1>2 DEF RevisionIn, Numbered

LEMMA OneRevision ==
    ASSUME NEW h, Numbered(h), NEW r \in h
    PROVE  /\ r \in Entries /\ r.dash \in Dashboards
           /\ r.id \in Nat \ {0} /\ r.id \in 1 .. NewestIn(h, r.dash)
           /\ RevisionIn(h, r.dash, r.id) = r
  <1>1. r \in Entries /\ r.dash \in Dashboards /\ r.id \in Nat \ {0}
    BY DEF Numbered, Entries
  <1>2. r.id \in 1 .. NewestIn(h, r.dash)
    <2>1. r.id \in {x.id : x \in {s \in h : s.dash = r.dash}}
      OBVIOUS
    <2>2. QED
      BY <1>1, <2>1, Counted
  <1>3. RevisionIn(h, r.dash, r.id) = r
    <2>1. RevisionIn(h, r.dash, r.id) \in h /\ RevisionIn(h, r.dash, r.id).dash = r.dash
          /\ RevisionIn(h, r.dash, r.id).id = r.id
      BY <1>1, <1>2, There
    <2>2. QED
      BY <2>1 DEF Numbered
  <1>4. QED
    BY <1>1, <1>2, <1>3

LEMMA RecordedIsNumbered == Numbered(Recorded)
  <1>1. Cardinality(Recorded) \in Nat
    BY RecordedAssumption, FS_CardinalityType
  <1>2. ASSUME NEW dash \in Dashboards
        PROVE  \E n \in Nat : {r.id : r \in {s \in Recorded : s.dash = dash}} = 1 .. n
    <2>1. PICK n \in 0 .. Cardinality(Recorded) :
             {r.id : r \in {s \in Recorded : s.dash = dash}} = 1 .. n
      BY RecordedAssumption
    <2>2. n \in Nat
      BY <1>1
    <2>3. QED
      BY <2>1, <2>2
  <1>3. QED
    BY <1>2, RecordedAssumption DEF Numbered

(* A save adds one state to one dashboard.                                 *)
LEMMA OneMore ==
    ASSUME NEW h, Numbered(h), NEW new \in Entries, new.id = NewestIn(h, new.dash) + 1
    PROVE  /\ Numbered(h \cup {new})
           /\ NewestIn(h \cup {new}, new.dash) = NewestIn(h, new.dash) + 1
           /\ \A dash \in Dashboards \ {new.dash} :
                /\ NewestIn(h \cup {new}, dash) = NewestIn(h, dash)
                /\ \A id \in 1 .. NewestIn(h, dash) :
                     RevisionIn(h \cup {new}, dash, id) = RevisionIn(h, dash, id)
  <1> DEFINE up == h \cup {new}
             n == NewestIn(h, new.dash)
  <1>1. new.dash \in Dashboards /\ n \in Nat
        /\ {r.id : r \in {s \in h : s.dash = new.dash}} = 1 .. n
    BY Counted DEF Entries
  <1>2. \A r \in h : r.dash = new.dash => r.id # n + 1
    BY <1>1, OneRevision
  <1>3. {r.id : r \in {s \in up : s.dash = new.dash}} = 1 .. n + 1
    <2>1. {r.id : r \in {s \in up : s.dash = new.dash}} =
            {r.id : r \in {s \in h : s.dash = new.dash}} \cup {new.id}
      OBVIOUS
    <2>2. 1 .. n + 1 = 1 .. n \cup {n + 1}
      BY <1>1
    <2>3. QED
      BY <1>1, <2>1, <2>2
  <1>4. ASSUME NEW dash \in Dashboards \ {new.dash}
        PROVE  {s \in up : s.dash = dash} = {s \in h : s.dash = dash}
    OBVIOUS
  <1>5. Numbered(up)
    <2>1. up \subseteq Entries
      BY DEF Numbered
    <2>2. \A r, s \in up : r.dash = s.dash /\ r.id = s.id => r = s
      BY <1>2 DEF Numbered
    <2>3. ASSUME NEW dash \in Dashboards
          PROVE  \E m \in Nat : {r.id : r \in {s \in up : s.dash = dash}} = 1 .. m
      <3>1. CASE dash = new.dash
        BY <1>1, <1>3, <3>1
      <3>2. CASE dash # new.dash
        <4>1. PICK m \in Nat : {r.id : r \in {s \in h : s.dash = dash}} = 1 .. m
          BY DEF Numbered
        <4>2. {s \in up : s.dash = dash} = {s \in h : s.dash = dash}
          BY <1>4, <3>2
        <4>3. QED
          BY <4>1, <4>2
      <3>3. QED
        BY <3>1, <3>2
    <2>4. QED
      BY <2>1, <2>2, <2>3 DEF Numbered
  <1>6. NewestIn(up, new.dash) = n + 1
    BY <1>1, <1>3, CountedAs
  <1>7. ASSUME NEW dash \in Dashboards \ {new.dash}
        PROVE  /\ NewestIn(up, dash) = NewestIn(h, dash)
               /\ \A id \in 1 .. NewestIn(h, dash) :
                    RevisionIn(up, dash, id) = RevisionIn(h, dash, id)
    <2>1. NewestIn(up, dash) = NewestIn(h, dash)
      BY <1>4 DEF NewestIn
    <2>2. ASSUME NEW id \in 1 .. NewestIn(h, dash)
          PROVE  RevisionIn(up, dash, id) = RevisionIn(h, dash, id)
      <3> DEFINE r == RevisionIn(h, dash, id)
      <3>1. r \in h /\ r.dash = dash /\ r.id = id
        BY There
      <3> HIDE DEF r
      <3>2. RevisionIn(up, r.dash, r.id) = r
        BY <1>5, <3>1, OneRevision
      <3>3. QED
        BY <3>1, <3>2 DEF r
    <2>3. QED
      BY <2>1, <2>2
  <1>8. QED
    BY <1>5, <1>6, <1>7

(* A forget takes the states of one dashboard away and marks others.       *)
Without(h, gone, moment, era) ==
    {IF r.at > moment THEN [r EXCEPT !.era = era] ELSE r : r \in {s \in h : s.dash # gone}}

LEMMA OneLess ==
    ASSUME NEW h, Numbered(h), NEW gone \in Dashboards, NEW moment, NEW era \in Nat,
           NEW g, g = Without(h, gone, moment, era)
    PROVE  /\ Numbered(g) /\ NewestIn(g, gone) = 0
           /\ \A dash \in Dashboards \ {gone} : NewestIn(g, dash) = NewestIn(h, dash)
  <1> DEFINE F(r) == IF r.at > moment THEN [r EXCEPT !.era = era] ELSE r
  <1>1. \A r \in h : r \in Entries /\ F(r) \in Entries /\ F(r).dash = r.dash /\ F(r).id = r.id
    BY DEF Numbered, Entries
  <1>2. g = {F(r) : r \in {s \in h : s.dash # gone}}
    BY DEF Without
  <1> HIDE DEF F
  <1>3. g \subseteq Entries
    BY <1>1, <1>2
  <1>4. \A r, s \in g : r.dash = s.dash /\ r.id = s.id => r = s
    BY <1>1, <1>2 DEF Numbered
  <1>5. {s \in g : s.dash = gone} = {}
    BY <1>1, <1>2
  <1>6. ASSUME NEW dash \in Dashboards \ {gone}
        PROVE  {r.id : r \in {s \in g : s.dash = dash}} = {r.id : r \in {s \in h : s.dash = dash}}
    BY <1>1, <1>2
  <1>7. {r.id : r \in {s \in g : s.dash = gone}} = 1 .. 0
    BY <1>5
  <1>8. Numbered(g)
    <2>1. ASSUME NEW dash \in Dashboards
          PROVE  \E m \in Nat : {r.id : r \in {s \in g : s.dash = dash}} = 1 .. m
      <3>1. CASE dash = gone
        BY <1>7, <3>1
      <3>2. CASE dash # gone
        <4>1. PICK m \in Nat : {r.id : r \in {s \in h : s.dash = dash}} = 1 .. m
          BY DEF Numbered
        <4>2. QED
          BY <1>6, <3>2, <4>1
      <3>3. QED
        BY <3>1, <3>2
    <2>2. QED
      BY <1>3, <1>4, <2>1 DEF Numbered
  <1>9. NewestIn(g, gone) = 0
    BY <1>7, CountedAs
  <1>10. ASSUME NEW dash \in Dashboards \ {gone}
         PROVE  NewestIn(g, dash) = NewestIn(h, dash)
    BY <1>6 DEF NewestIn
  <1>11. QED
    BY <1>8, <1>9, <1>10

--------------------------------------------------------------------------------
(* Pages *)

LEMMA BelowIs ==
    ASSUME Numbered(log), NEW dash \in Dashboards, NEW id \in 1 .. Newest(dash) + 1
    PROVE  /\ Below(dash, id) \in Seq(Entries) /\ Len(Below(dash, id)) = id - 1
           /\ \A i \in 1 .. id - 1 :
                /\ Below(dash, id)[i] = Revision(dash, id - i)
                /\ Below(dash, id)[i] \in log
                /\ Below(dash, id)[i].dash = dash /\ Below(dash, id)[i].id = id - i
  <1>1. Newest(dash) \in Nat /\ id \in Nat
    BY Counted, InTheLog
  <1>2. ASSUME NEW i \in 1 .. id - 1
        PROVE  /\ Revision(dash, id - i) \in log /\ Revision(dash, id - i) \in Entries
               /\ Revision(dash, id - i).dash = dash /\ Revision(dash, id - i).id = id - i
    <2>1. id - i \in 1 .. NewestIn(log, dash)
      BY <1>1, InTheLog
    <2>2. QED
      BY <2>1, There, InTheLog
  <1>3. Below(dash, id) = [i \in 1 .. id - 1 |-> Revision(dash, id - i)]
    BY DEF Below
  <1>4. QED
    BY <1>1, <1>2, <1>3

(* A page of what is below a number.                                       *)
PageFrom(rest, restarted) ==
    [rows |-> SubSeq(rest, 1, IF Len(rest) < Limit THEN Len(rest) ELSE Limit),
     next |-> IF Len(rest) > Limit THEN rest[Limit] ELSE None,
     generation |-> generation, restarted |-> restarted]

LEMMA PageBelow ==
    ASSUME Numbered(log), generation \in Nat, NEW dash \in Dashboards,
           NEW id \in 1 .. Newest(dash) + 1, NEW restarted \in BOOLEAN,
           NEW a, a = PageFrom(Below(dash, id), restarted)
    PROVE  /\ IsPage(a, dash) /\ StillThere(a.rows)
           /\ a.next # None => a.next \in log
           /\ a.generation = generation /\ a.restarted = restarted
           /\ id > 1 => a.rows # <<>> /\ a.rows[1] = Revision(dash, id - 1)
           /\ a.rows # <<>> => a.rows[1].id = id - 1
  <1> DEFINE rest == Below(dash, id)
             n == id - 1
             m == IF n < Limit THEN n ELSE Limit
  <1>1. /\ rest \in Seq(Entries) /\ Len(rest) = n
        /\ \A i \in 1 .. n : /\ rest[i] = Revision(dash, id - i) /\ rest[i] \in log
                             /\ rest[i].dash = dash /\ rest[i].id = id - i
    BY BelowIs
  <1>2. Newest(dash) \in Nat /\ id \in Nat /\ n \in Nat /\ Limit \in Nat \ {0}
    BY Counted, InTheLog, PanelAssumption
  <1>3. m \in Nat /\ m <= n /\ m <= Limit /\ (n > 0 => m > 0)
    BY <1>2
  <1>4. /\ a.rows = SubSeq(rest, 1, m) /\ a.next = (IF n > Limit THEN rest[Limit] ELSE None)
        /\ a.generation = generation /\ a.restarted = restarted
        /\ a = [rows |-> a.rows, next |-> a.next, generation |-> generation,
                restarted |-> restarted]
    BY <1>1 DEF PageFrom
  <1>5. n = id - 1
    OBVIOUS
  <1>6. n > Limit => m = Limit
    BY <1>2
  <1>7. ~(n > Limit) => m = n
    BY <1>2
  <1> HIDE DEF m, n, rest
  <1>8. /\ a.rows \in Seq(Entries) /\ Len(a.rows) = m /\ DOMAIN a.rows = 1 .. m
        /\ \A i \in 1 .. m : a.rows[i] = rest[i]
    BY <1>1, <1>2, <1>3, <1>4, SMTT(30)
  <1>9. \A i \in 1 .. m : /\ i \in 1 .. n /\ a.rows[i] \in log /\ a.rows[i].dash = dash
                          /\ a.rows[i].id = id - i
                          /\ a.rows[i] = Revision(dash, id - i)
    BY <1>1, <1>2, <1>3, <1>8
  <1>10. IsRun(a.rows)
    <2>1. ASSUME NEW i \in 1 .. Len(a.rows) - 1
          PROVE  i \in 1 .. m /\ i + 1 \in 1 .. m /\ id - (i + 1) = (id - i) - 1
      BY <1>2, <1>3, <1>8
    <2>2. ASSUME NEW i \in 1 .. Len(a.rows) - 1
          PROVE  a.rows[i + 1].dash = a.rows[i].dash /\ a.rows[i + 1].id = a.rows[i].id - 1
      <3>1. /\ a.rows[i].id = id - i /\ a.rows[i + 1].id = id - (i + 1)
            /\ a.rows[i].dash = dash /\ a.rows[i + 1].dash = dash
        BY <1>9, <2>1
      <3>2. QED
        BY <2>1, <3>1
    <2>3. QED
      BY <2>2 DEF IsRun
  <1>11. CASE n > Limit
    <2>1. m = Limit /\ Limit \in 1 .. n /\ Limit \in 1 .. m /\ a.next = rest[Limit]
      BY <1>2, <1>4, <1>6, <1>11
    <2>2. a.next = Last(a.rows) /\ a.rows # <<>>
      BY <1>8, <2>1 DEF Last
    <2>3. a.next \in log /\ a.next.id = id - Limit /\ a.next \in Entries
      BY <1>1, <2>1 DEF Numbered
    <2>4. id - Limit > 1
      BY <1>2, <1>5, <1>11
    <2>5. a.next # None
      BY <2>3, NoneAssumption
    <2>6. a \in Pages
      BY <1>4, <1>8, <2>3 DEF Pages
    <2>7. IsPage(a, dash)
      BY <1>8, <1>9, <1>10, <2>2, <2>3, <2>4, <2>5, <2>6 DEF IsPage
    <2>8. a.rows[1] = Revision(dash, id - 1) /\ a.rows[1].id = id - 1
      <3>1. 1 \in 1 .. m
        BY <1>2, <2>1
      <3>2. QED
        BY <1>9, <3>1
    <2>9. StillThere(a.rows)
      BY <1>8, <1>9 DEF StillThere
    <2>10. QED
      BY <1>4, <2>2, <2>3, <2>7, <2>8, <2>9
  <1>12. CASE ~(n > Limit)
    <2>1. m = n /\ a.next = None
      BY <1>4, <1>7, <1>12
    <2>2. a.rows # <<>> => Last(a.rows).id = 1
      <3>1. SUFFICES ASSUME a.rows # <<>> PROVE Last(a.rows).id = 1
        OBVIOUS
      <3>2. m \in 1 .. m
        BY <1>3, <1>8, <3>1
      <3>3. Last(a.rows) = a.rows[m]
        BY <1>8 DEF Last
      <3>4. id - m = 1
        BY <1>2, <1>5, <2>1
      <3>5. a.rows[m].id = id - m
        BY <1>9, <3>2
      <3>6. QED
        BY <3>3, <3>4, <3>5
    <2>3. a \in Pages
      <3>1. a.next = None /\ a.rows \in Seq(Entries)
        BY <1>8, <2>1
      <3>2. a = [rows |-> a.rows, next |-> a.next, generation |-> generation,
                 restarted |-> restarted]
        BY <1>4
      <3>3. QED
        BY <3>1, <3>2 DEF Pages
    <2>4. IsPage(a, dash)
      BY <1>8, <1>9, <1>10, <2>1, <2>2, <2>3 DEF IsPage
    <2>5. 1 \in 1 .. m => a.rows[1] = Revision(dash, id - 1) /\ a.rows[1].id = id - 1
      BY <1>9
    <2>6. id > 1 => 1 \in 1 .. m
      BY <1>2, <1>5, <2>1
    <2>7. a.rows # <<>> <=> 1 \in 1 .. m
      BY <1>3, <1>8
    <2>8. StillThere(a.rows)
      BY <1>8, <1>9 DEF StillThere
    <2>9. QED
      BY <1>4, <2>1, <2>4, <2>5, <2>6, <2>7, <2>8
  <1>13. QED
    BY <1>11, <1>12

(* What an answer has to be: a page of the dashboard, of revisions that    *)
(* are there, which begins at the newest one or right below the cursor.    *)
Answers(a, dash, before, since) ==
    /\ IsPage(a, dash) /\ StillThere(a.rows) /\ a.generation = generation
    /\ a.next # None => a.next \in log
    /\ (before = None \/ a.restarted) /\ Newest(dash) # 0 =>
         a.rows # <<>> /\ a.rows[1] = Revision(dash, Newest(dash))
    /\ before # None /\ ~a.restarted /\ a.rows # <<>> => a.rows[1].id = before.id - 1
    /\ before # None /\ before.id > 1 /\ ~a.restarted
         => a.rows # <<>> \/ ~Known(before, since)

(* And that is what the history answers.                                   *)
LEMMA HistoryAnswers ==
    ASSUME Numbered(log), generation \in Nat, NEW dash \in Dashboards,
           NEW before \in Entries \cup {None}, before # None => before.dash = dash,
           NEW since \in Nat \cup {None},
           NEW a, a = HistoryPage(dash, before, since)
    PROVE  Answers(a, dash, before, since)
  <1> DEFINE top == Newest(dash) + 1
  <1>1. a = IF before = None THEN PageFrom(Rows(dash), FALSE)
            ELSE IF before \in log THEN PageFrom(Below(dash, before.id), FALSE)
            ELSE IF since # None /\ since < generation THEN PageFrom(Rows(dash), TRUE)
            ELSE PageFrom(<<>>, FALSE)
    BY DEF HistoryPage, PageFrom
  <1>2. Newest(dash) \in Nat /\ top \in 1 .. Newest(dash) + 1
        /\ Rows(dash) = Below(dash, top) /\ top - 1 = Newest(dash)
        /\ (Newest(dash) # 0 => top > 1)
    BY Counted, InTheLog DEF Rows
  <1>3. \A restarted \in BOOLEAN :
          LET p == PageFrom(Rows(dash), restarted)
          IN  /\ IsPage(p, dash) /\ StillThere(p.rows) /\ (p.next # None => p.next \in log)
              /\ p.generation = generation /\ p.restarted = restarted
              /\ Newest(dash) # 0 => p.rows # <<>> /\ p.rows[1] = Revision(dash, Newest(dash))
    <2> HIDE DEF top
    <2>1. SUFFICES ASSUME NEW restarted \in BOOLEAN, NEW p, p = PageFrom(Rows(dash), restarted)
                   PROVE  /\ IsPage(p, dash) /\ StillThere(p.rows)
                          /\ p.next # None => p.next \in log
                          /\ p.generation = generation /\ p.restarted = restarted
                          /\ Newest(dash) # 0 =>
                               p.rows # <<>> /\ p.rows[1] = Revision(dash, Newest(dash))
      OBVIOUS
    <2>2. /\ IsPage(p, dash) /\ StillThere(p.rows) /\ (p.next # None => p.next \in log)
          /\ p.generation = generation /\ p.restarted = restarted
          /\ top > 1 => p.rows # <<>> /\ p.rows[1] = Revision(dash, top - 1)
      BY <1>2, <2>1, PageBelow
    <2>3. QED
      BY <1>2, <2>2
  <1>4. CASE before = None
    BY <1>1, <1>3, <1>4 DEF Answers
  <1>5. CASE before # None /\ before \in log
    <2>1. before.id \in 1 .. Newest(dash) + 1 /\ before.id \in Nat \ {0}
      BY <1>2, <1>5, OneRevision, InTheLog
    <2>2. a = PageFrom(Below(dash, before.id), FALSE)
      BY <1>1, <1>5
    <2>3. /\ IsPage(a, dash) /\ StillThere(a.rows) /\ (a.next # None => a.next \in log)
          /\ a.generation = generation /\ a.restarted = FALSE
          /\ before.id > 1 => a.rows # <<>>
          /\ a.rows # <<>> => a.rows[1].id = before.id - 1
      <3>1. PICK id \in 1 .. Newest(dash) + 1 : id = before.id
        BY <2>1
      <3>r. PICK restarted \in BOOLEAN : restarted = FALSE
        OBVIOUS
      <3>2. a = PageFrom(Below(dash, id), restarted)
        BY <2>2, <3>1, <3>r
      <3>3. /\ IsPage(a, dash) /\ StillThere(a.rows) /\ (a.next # None => a.next \in log)
            /\ a.generation = generation /\ a.restarted = restarted
            /\ id > 1 => a.rows # <<>>
            /\ a.rows # <<>> => a.rows[1].id = id - 1
        BY <3>2, PageBelow
      <3>4. QED
        BY <3>1, <3>3, <3>r
    <2>4. QED
      BY <1>5, <2>3 DEF Answers
  <1>6. CASE before # None /\ before \notin log /\ since # None /\ since < generation
    BY <1>1, <1>3, <1>6 DEF Answers
  <1>7. CASE before # None /\ before \notin log /\ ~(since # None /\ since < generation)
    <2>1. a = PageFrom(<<>>, FALSE)
      BY <1>1, <1>7
    <2>2. SubSeq(<<>>, 1, 0) = <<>> /\ Len(<<>>) = 0 /\ 0 < Limit /\ ~(0 > Limit)
      BY PanelAssumption
    <2>3. a.rows = <<>> /\ a.next = None /\ a.generation = generation /\ a.restarted = FALSE
      BY <2>1, <2>2 DEF PageFrom
    <2>4. a \in Pages
      BY <2>1, <2>2, <2>3 DEF Pages, PageFrom
    <2>5. IsPage(a, dash) /\ StillThere(a.rows)
      BY <2>3, <2>4 DEF IsPage, IsRun, StillThere
    <2>6. ~Known(before, since)
      BY <1>7, NoneAssumption DEF Known
    <2>7. QED
      BY <1>7, <2>3, <2>5, <2>6 DEF Answers
  <1>8. QED
    BY <1>4, <1>5, <1>6, <1>7

--------------------------------------------------------------------------------
(* The calls.  A step drops some, claims the list from the others or not,  *)
(* and adds some; that is all the invariant needs to know.                 *)

Unclaimed(c) == [c EXCEPT !.mine = FALSE]

Kept(c, claimed) == IF claimed THEN Unclaimed(c) ELSE c

Turned(old, new, gone, claimed, fresh) ==
    /\ new \in Seq(Calls)
    /\ \A j \in DOMAIN new : \/ new[j] \in fresh
                             \/ \E k \in DOMAIN old \ gone : new[j] = Kept(old[k], claimed)
    /\ \A k \in DOMAIN old \ gone : \E j \in DOMAIN new : new[j] = Kept(old[k], claimed)
    /\ \A c \in fresh : \E j \in DOMAIN new : new[j] = c
    /\ \A i, j \in DOMAIN new :
         \/ i = j
         \/ new[i] \in fresh /\ \E l \in DOMAIN old \ gone : new[j] = Kept(old[l], claimed)
         \/ new[j] \in fresh /\ \E k \in DOMAIN old \ gone : new[i] = Kept(old[k], claimed)
         \/ \E k, l \in DOMAIN old \ gone :
              k # l /\ new[i] = Kept(old[k], claimed) /\ new[j] = Kept(old[l], claimed)

LEMMA RemovedIs ==
    ASSUME NEW S, NEW q \in Seq(S), NEW i \in DOMAIN q
    PROVE  /\ RemoveAt(q, i) \in Seq(S) /\ Len(RemoveAt(q, i)) = Len(q) - 1
           /\ \A j \in 1 .. Len(q) - 1 : RemoveAt(q, i)[j] = q[IF j < i THEN j ELSE j + 1]
  <1> DEFINE a == SubSeq(q, 1, i - 1)
             b == SubSeq(q, i + 1, Len(q))
  <1>1. Len(q) \in Nat /\ i \in 1 .. Len(q)
    OBVIOUS
  <1>2. a \in Seq(S) /\ Len(a) = i - 1 /\ \A j \in 1 .. i - 1 : a[j] = q[j]
    BY <1>1
  <1>3. b \in Seq(S) /\ Len(b) = Len(q) - i /\ \A j \in 1 .. Len(q) - i : b[j] = q[j + i]
    BY <1>1
  <1>4. RemoveAt(q, i) = a \o b
    BY DEF RemoveAt
  <1> HIDE DEF a, b
  <1>5. /\ a \o b \in Seq(S) /\ Len(a \o b) = Len(q) - 1
        /\ \A j \in 1 .. Len(q) - 1 : (a \o b)[j] = IF j < i THEN a[j] ELSE b[j - (i - 1)]
    <2>1. a \o b \in Seq(S) /\ Len(a \o b) = Len(a) + Len(b)
      BY <1>2, <1>3, ConcatProperties
    <2>2. \A j \in 1 .. Len(a) + Len(b) :
            (a \o b)[j] = IF j <= Len(a) THEN a[j] ELSE b[j - Len(a)]
      BY <1>2, <1>3, ConcatProperties
    <2>3. Len(a) + Len(b) = Len(q) - 1 /\ \A j \in 1 .. Len(q) - 1 : j <= i - 1 <=> j < i
      BY <1>1, <1>2, <1>3, SMTT(30)
    <2>4. QED
      BY <1>2, <2>1, <2>2, <2>3
  <1>6. ASSUME NEW j \in 1 .. Len(q) - 1
        PROVE  (a \o b)[j] = q[IF j < i THEN j ELSE j + 1]
    <2>1. CASE j < i
      BY <1>1, <1>2, <1>5, <2>1
    <2>2. CASE ~(j < i)
      <3>1. j - (i - 1) \in 1 .. Len(q) - i /\ j - (i - 1) + i = j + 1
        BY <1>1, <2>2
      <3>2. b[j - (i - 1)] = q[j + 1]
        BY <1>3, <3>1
      <3>3. QED
        BY <1>5, <2>2, <3>2
    <2>3. QED
      BY <2>1, <2>2
  <1>7. QED
    BY <1>4, <1>5, <1>6

LEMMA UnclaimedIs ==
    ASSUME NEW c \in Calls
    PROVE  /\ Unclaimed(c) \in Calls /\ Unclaimed(c).mine = FALSE
           /\ Unclaimed(c).fn = c.fn /\ Unclaimed(c).at = c.at /\ Unclaimed(c).dash = c.dash
           /\ Unclaimed(c).before = c.before /\ Unclaimed(c).since = c.since
           /\ Unclaimed(c).guarded = c.guarded /\ Unclaimed(c).frees = c.frees
           /\ Unclaimed(c).answer = c.answer
  BY DEF Unclaimed, Calls

LEMMA ClaimedIs ==
    ASSUME NEW q \in Seq(Calls)
    PROVE  /\ Claimed(q) \in Seq(Calls) /\ Len(Claimed(q)) = Len(q)
           /\ \A i \in 1 .. Len(q) : Claimed(q)[i] = Unclaimed(q[i])
  <1>1. Claimed(q) = [i \in DOMAIN q |-> [q[i] EXCEPT !.mine = FALSE]]
    BY DEF Claimed
  <1>2. \A c : Unclaimed(c) = [c EXCEPT !.mine = FALSE]
    BY DEF Unclaimed
  <1>3. DOMAIN q = 1 .. Len(q) /\ Len(q) \in Nat
    OBVIOUS
  <1>4. \A i \in 1 .. Len(q) : q[i] \in Calls /\ Unclaimed(q[i]) \in Calls
    <2>1. \A i \in 1 .. Len(q) : q[i] \in Calls
      OBVIOUS
    <2>2. \A c \in Calls : Unclaimed(c) \in Calls
      BY UnclaimedIs
    <2>3. QED
      BY <2>1, <2>2
  <1>5. /\ DOMAIN Claimed(q) = 1 .. Len(q)
        /\ \A i \in 1 .. Len(q) : Claimed(q)[i] = Unclaimed(q[i])
    BY <1>1, <1>2, <1>3
  <1>6. Claimed(q) = [i \in 1 .. Len(q) |-> Claimed(q)[i]]
    BY <1>1, <1>3
  <1>7. Claimed(q) \in Seq(Calls)
    BY <1>3, <1>4, <1>5, <1>6
  <1>8. QED
    BY <1>3, <1>5, <1>7

(* Every way a step treats the calls.                                      *)
LEMMA TurnedDropping ==
    ASSUME NEW q \in Seq(Calls), NEW i \in DOMAIN q
    PROVE  Turned(q, RemoveAt(q, i), {i}, FALSE, {})
  <1> DEFINE new == RemoveAt(q, i)
             n == Len(q)
  <1>1. /\ n \in Nat /\ i \in 1 .. n /\ DOMAIN q = 1 .. n
        /\ new \in Seq(Calls) /\ DOMAIN new = 1 .. n - 1
        /\ \A j \in 1 .. n - 1 : new[j] = q[IF j < i THEN j ELSE j + 1]
    BY RemovedIs
  <1> DEFINE from(j) == IF j < i THEN j ELSE j + 1
  <1>2. \A j \in 1 .. n - 1 : from(j) \in DOMAIN q \ {i} /\ new[j] = q[from(j)]
    BY <1>1
  <1>3. \A j, k \in 1 .. n - 1 : j # k => from(j) # from(k)
    BY <1>1
  <1>4. ASSUME NEW k \in DOMAIN q \ {i}
        PROVE  \E j \in 1 .. n - 1 : from(j) = k
    <2>1. CASE k < i
      BY <1>1, <2>1
    <2>2. CASE ~(k < i)
      <3>1. k - 1 \in 1 .. n - 1 /\ ~(k - 1 < i) /\ k - 1 + 1 = k
        BY <1>1, <2>2
      <3>2. QED
        BY <3>1
    <2>3. QED
      BY <2>1, <2>2
  <1> HIDE DEF new, n, from
  <1>5. new \in Seq(Calls) /\ DOMAIN new = 1 .. n - 1
    BY <1>1
  <1>6. Turned(q, new, {i}, FALSE, {})
    BY <1>2, <1>3, <1>4, <1>5 DEF Turned, Kept
  <1>7. QED
    BY <1>6 DEF new

LEMMA TurnedClaiming ==
    ASSUME NEW q \in Seq(Calls)
    PROVE  Turned(q, Claimed(q), {}, TRUE, {})
  <1>1. /\ Claimed(q) \in Seq(Calls) /\ DOMAIN Claimed(q) = DOMAIN q
        /\ \A i \in DOMAIN q : Claimed(q)[i] = Unclaimed(q[i])
    BY ClaimedIs
  <1>2. QED
    BY <1>1 DEF Turned, Kept

LEMMA TurnedKeeping ==
    ASSUME NEW q \in Seq(Calls)
    PROVE  Turned(q, q, {}, FALSE, {})
  BY DEF Turned, Kept

LEMMA TurnedAdding ==
    ASSUME NEW old \in Seq(Calls), NEW q, NEW gone, NEW claimed \in BOOLEAN, NEW c \in Calls,
           Turned(old, q, gone, claimed, {})
    PROVE  Turned(old, Append(q, c), gone, claimed, {c})
  <1> DEFINE new == Append(q, c)
             n == Len(q)
  <1>1. q \in Seq(Calls)
    BY DEF Turned
  <1>2. /\ n \in Nat /\ DOMAIN q = 1 .. n /\ new \in Seq(Calls) /\ DOMAIN new = 1 .. n + 1
        /\ \A j \in 1 .. n : new[j] = q[j]
        /\ new[n + 1] = c
    BY <1>1
  <1> HIDE DEF new, n
  <1>3. n + 1 \in DOMAIN new /\ \A j \in DOMAIN new : j \in DOMAIN q \/ j = n + 1
    BY <1>2
  <1>4. DOMAIN q \subseteq DOMAIN new /\ \A j \in DOMAIN q : new[j] = q[j]
    BY <1>2
  <1>5. \A j \in DOMAIN new : \/ new[j] \in {c}
                              \/ \E k \in DOMAIN old \ gone : new[j] = Kept(old[k], claimed)
    BY <1>2, <1>3, <1>4 DEF Turned
  <1>6. \A k \in DOMAIN old \ gone : \E j \in DOMAIN new : new[j] = Kept(old[k], claimed)
    BY <1>4 DEF Turned
  <1>7. \A x \in {c} : \E j \in DOMAIN new : new[j] = x
    BY <1>2, <1>3
  <1>8. ASSUME NEW i \in DOMAIN new, NEW j \in DOMAIN new, i # j
        PROVE  \/ new[i] \in {c} /\ \E l \in DOMAIN old \ gone : new[j] = Kept(old[l], claimed)
               \/ new[j] \in {c} /\ \E k \in DOMAIN old \ gone : new[i] = Kept(old[k], claimed)
               \/ \E k, l \in DOMAIN old \ gone :
                    k # l /\ new[i] = Kept(old[k], claimed) /\ new[j] = Kept(old[l], claimed)
    <2>1. CASE i \in DOMAIN q /\ j \in DOMAIN q
      BY <1>4, <1>8, <2>1 DEF Turned
    <2>2. CASE i = n + 1 /\ j \in DOMAIN q
      BY <1>2, <1>4, <2>2 DEF Turned
    <2>3. CASE j = n + 1 /\ i \in DOMAIN q
      BY <1>2, <1>4, <2>3 DEF Turned
    <2>4. QED
      BY <1>3, <1>8, <2>1, <2>2, <2>3
  <1>9. Turned(old, new, gone, claimed, {c})
    BY <1>2, <1>5, <1>6, <1>7, <1>8 DEF Turned
  <1>10. QED
    BY <1>9 DEF new

LEMMA TurnedChanging ==
    ASSUME NEW old \in Seq(Calls), NEW claimed \in BOOLEAN, NEW i \in DOMAIN old,
           NEW c \in Calls, NEW q, q = IF claimed THEN Claimed(old) ELSE old,
           NEW new, new = [q EXCEPT ![i] = c]
    PROVE  Turned(old, new, {i}, claimed, {c})
  <1>1. /\ q \in Seq(Calls) /\ DOMAIN q = DOMAIN old
        /\ \A j \in DOMAIN old : q[j] = Kept(old[j], claimed)
    <2>1. CASE claimed
      BY <2>1, ClaimedIs DEF Kept
    <2>2. CASE ~claimed
      BY <2>2 DEF Kept
    <2>3. QED
      BY <2>1, <2>2
  <1>2. new \in Seq(Calls) /\ DOMAIN new = DOMAIN old
    BY <1>1
  <1>3. new[i] = c /\ \A j \in DOMAIN old \ {i} : new[j] = Kept(old[j], claimed)
    BY <1>1
  <1>4. QED
    BY <1>2, <1>3 DEF Turned

LEMMA TurnedAway ==
    ASSUME NEW q \in Seq(Calls), NEW i \in DOMAIN q
    PROVE  Turned(q, Claimed(RemoveAt(q, i)), {i}, TRUE, {})
  <1> DEFINE less == RemoveAt(q, i)
             new == Claimed(less)
  <1>1. Turned(q, less, {i}, FALSE, {})
    BY TurnedDropping
  <1>2. less \in Seq(Calls)
    BY <1>1 DEF Turned
  <1> HIDE DEF less
  <1>3. /\ new \in Seq(Calls) /\ DOMAIN new = DOMAIN less
        /\ \A j \in DOMAIN less : new[j] = Unclaimed(less[j])
    BY <1>2, ClaimedIs
  <1> HIDE DEF new
  <1>4. Turned(q, new, {i}, TRUE, {})
    BY <1>1, <1>3 DEF Turned, Kept
  <1>5. QED
    BY <1>4 DEF new, less

--------------------------------------------------------------------------------
(* What the actions do to the calls *)

SelectCall(dash, frees) ==
    [Call("select", "asked") EXCEPT !.mine = TRUE, !.dash = dash, !.frees = frees]

OlderCall(dash, before, since) ==
    [Call("older", "asked") EXCEPT !.mine = TRUE, !.dash = dash,
                                   !.before = before, !.since = since]

ForgetCall(dash) == [Call("forget", "asked") EXCEPT !.dash = dash]

Freeing == [Call("load", "listing") EXCEPT !.frees = TRUE]

WriteCall(fn, dash) == [Call(fn, "asked") EXCEPT !.dash = dash]

Reloading(dash) == [Refresh("said") EXCEPT !.dash = dash]

SameQuestion(c, d) ==
    /\ c.fn = d.fn /\ c.mine = d.mine /\ c.dash = d.dash /\ c.before = d.before
    /\ c.since = d.since /\ c.guarded = d.guarded /\ c.frees = d.frees

LEMMA FreshCalls ==
    /\ \A dash \in Dashboards, frees \in BOOLEAN :
         LET c == SelectCall(dash, frees)
         IN  /\ c \in Calls /\ CallOK(c) /\ c.mine /\ c.fn = "select" /\ c.at = "asked"
             /\ c.dash = dash /\ c.frees = frees
    /\ \A dash \in Dashboards, before \in Entries, since \in Nat \cup {None} :
         LET c == OlderCall(dash, before, since)
         IN  /\ c \in Calls /\ c.mine /\ c.fn = "older" /\ c.at = "asked" /\ c.dash = dash
             /\ c.before = before /\ c.since = since /\ ~c.frees
             /\ before.dash = dash /\ before.id > 1 => CallOK(c)
    /\ \A dash \in Dashboards :
         LET c == ForgetCall(dash)
         IN  /\ c \in Calls /\ CallOK(c) /\ ~c.mine /\ c.fn = "forget" /\ c.at = "asked"
             /\ c.dash = dash /\ ~c.frees
    /\ \A guarded \in {"shown", "quiet", "said"} :
         LET c == Refresh(guarded)
         IN  /\ c \in Calls /\ CallOK(c) /\ ~c.mine /\ c.fn = "refresh"
             /\ c.at = "listing" /\ ~c.frees
    /\ \A fn \in {"write", "note"}, dash \in Dashboards \cup {None} :
         LET c == WriteCall(fn, dash)
         IN  /\ c \in Calls /\ CallOK(c) /\ ~c.mine /\ c.fn = fn /\ c.at = "asked"
             /\ c.dash = dash /\ ~c.frees
    /\ \A dash \in Dashboards \cup {None} :
         LET c == Reloading(dash)
         IN  /\ c \in Calls /\ CallOK(c) /\ ~c.mine /\ c.fn = "refresh"
             /\ c.at = "listing" /\ ~c.frees
    /\ Freeing \in Calls /\ CallOK(Freeing) /\ ~Freeing.mine /\ Freeing.fn = "load"
       /\ Freeing.at = "listing" /\ Freeing.frees
    /\ LET c == Call("load", "listing")
       IN  /\ c \in Calls /\ CallOK(c) /\ ~c.mine /\ c.fn = "load" /\ c.at = "listing"
           /\ ~c.frees
  <1>1. ASSUME NEW dash \in Dashboards, NEW frees \in BOOLEAN,
               NEW c, c = SelectCall(dash, frees)
        PROVE  /\ c \in Calls /\ CallOK(c) /\ c.mine /\ c.fn = "select" /\ c.at = "asked"
               /\ c.dash = dash /\ c.frees = frees
    <2>1. c = [fn |-> "select", at |-> "asked", mine |-> TRUE, dash |-> dash, before |-> None,
               since |-> None, guarded |-> "shown", frees |-> frees, answer |-> None]
      BY <1>1 DEF SelectCall, Call
    <2>2. c \in Calls
      BY <2>1 DEF Calls
    <2>3. QED
      BY <2>1, <2>2 DEF CallOK
  <1>2. ASSUME NEW dash \in Dashboards, NEW before \in Entries, NEW since \in Nat \cup {None},
               NEW c, c = OlderCall(dash, before, since)
        PROVE  /\ c \in Calls /\ c.mine /\ c.fn = "older" /\ c.at = "asked" /\ c.dash = dash
               /\ c.before = before /\ c.since = since /\ ~c.frees
               /\ before.dash = dash /\ before.id > 1 => CallOK(c)
    <2>1. c = [fn |-> "older", at |-> "asked", mine |-> TRUE, dash |-> dash,
               before |-> before, since |-> since, guarded |-> "shown", frees |-> FALSE,
               answer |-> None]
      BY <1>2 DEF OlderCall, Call
    <2>2. c \in Calls
      BY <2>1 DEF Calls
    <2>3. QED
      BY <2>1, <2>2 DEF CallOK
  <1>3. ASSUME NEW dash \in Dashboards, NEW c, c = ForgetCall(dash)
        PROVE  /\ c \in Calls /\ CallOK(c) /\ ~c.mine /\ c.fn = "forget" /\ c.at = "asked"
               /\ c.dash = dash /\ ~c.frees
    <2>1. c = [fn |-> "forget", at |-> "asked", mine |-> FALSE, dash |-> dash,
               before |-> None, since |-> None, guarded |-> "shown", frees |-> FALSE,
               answer |-> None]
      BY <1>3 DEF ForgetCall, Call
    <2>2. c \in Calls
      BY <2>1 DEF Calls
    <2>3. QED
      BY <2>1, <2>2 DEF CallOK
  <1>4. ASSUME NEW guarded \in {"shown", "quiet", "said"}, NEW c, c = Refresh(guarded)
        PROVE  /\ c \in Calls /\ CallOK(c) /\ ~c.mine /\ c.fn = "refresh"
               /\ c.at = "listing" /\ ~c.frees
    <2>1. c = [fn |-> "refresh", at |-> "listing", mine |-> FALSE, dash |-> None,
               before |-> None, since |-> None, guarded |-> guarded, frees |-> FALSE,
               answer |-> None]
      BY <1>4 DEF Refresh, Call
    <2>2. c \in Calls
      BY <2>1 DEF Calls
    <2>3. QED
      BY <2>1, <2>2 DEF CallOK
  <1>5. ASSUME NEW frees \in BOOLEAN, NEW c,
               c = [fn |-> "load", at |-> "listing", mine |-> FALSE, dash |-> None,
                    before |-> None, since |-> None, guarded |-> "shown", frees |-> frees,
                    answer |-> None]
        PROVE  /\ c \in Calls /\ CallOK(c) /\ ~c.mine /\ c.fn = "load"
               /\ c.at = "listing" /\ c.frees = frees
    <2>1. c \in Calls
      BY <1>5 DEF Calls
    <2>2. QED
      BY <1>5, <2>1 DEF CallOK
  <1>6. /\ Freeing \in Calls /\ CallOK(Freeing) /\ ~Freeing.mine /\ Freeing.fn = "load"
        /\ Freeing.at = "listing" /\ Freeing.frees
    <2>1. SUFFICES ASSUME NEW c, c = Freeing
                   PROVE  c = [fn |-> "load", at |-> "listing", mine |-> FALSE, dash |-> None,
                               before |-> None, since |-> None, guarded |-> "shown",
                               frees |-> TRUE, answer |-> None]
      BY <1>5
    <2>2. QED
      BY <2>1 DEF Freeing, Call
  <1>7. LET c == Call("load", "listing")
        IN  /\ c \in Calls /\ CallOK(c) /\ ~c.mine /\ c.fn = "load" /\ c.at = "listing"
            /\ ~c.frees
    <2>1. Call("load", "listing") =
            [fn |-> "load", at |-> "listing", mine |-> FALSE, dash |-> None,
             before |-> None, since |-> None, guarded |-> "shown", frees |-> FALSE,
             answer |-> None]
      BY DEF Call
    <2>2. QED
      BY <1>5, <2>1
  <1>8. ASSUME NEW fn \in {"write", "note"}, NEW dash \in Dashboards \cup {None},
               NEW c, c = WriteCall(fn, dash)
        PROVE  /\ c \in Calls /\ CallOK(c) /\ ~c.mine /\ c.fn = fn /\ c.at = "asked"
               /\ c.dash = dash /\ ~c.frees
    <2>1. c = [fn |-> fn, at |-> "asked", mine |-> FALSE, dash |-> dash, before |-> None,
               since |-> None, guarded |-> "shown", frees |-> FALSE, answer |-> None]
      BY <1>8 DEF WriteCall, Call
    <2>2. c \in Calls
      BY <2>1 DEF Calls
    <2>3. QED
      BY <2>1, <2>2 DEF CallOK
  <1>9. ASSUME NEW dash \in Dashboards \cup {None}, NEW c, c = Reloading(dash)
        PROVE  /\ c \in Calls /\ CallOK(c) /\ ~c.mine /\ c.fn = "refresh"
               /\ c.at = "listing" /\ ~c.frees
    <2>1. c = [fn |-> "refresh", at |-> "listing", mine |-> FALSE, dash |-> dash,
               before |-> None, since |-> None, guarded |-> "said", frees |-> FALSE,
               answer |-> None]
      BY <1>9 DEF Reloading, Refresh, Call
    <2>2. c \in Calls
      BY <2>1 DEF Calls
    <2>3. QED
      BY <2>1, <2>2 DEF CallOK
  <1>10. QED
    BY <1>1, <1>2, <1>3, <1>4, <1>6, <1>7, <1>8, <1>9

LEMMA TurnedOK ==
    ASSUME NEW old \in Seq(Calls), NEW new, NEW gone, NEW claimed \in BOOLEAN, NEW fresh,
           Turned(old, new, gone, claimed, fresh),
           \A i \in DOMAIN old : CallOK(old[i]), \A c \in fresh : CallOK(c)
    PROVE  new \in Seq(Calls) /\ \A j \in DOMAIN new : CallOK(new[j])
  <1>1. ASSUME NEW c \in Calls, CallOK(c)
        PROVE  CallOK(Unclaimed(c))
    <2> DEFINE d == Unclaimed(c)
    <2>1. /\ d \in Calls /\ d.mine = FALSE /\ d.fn = c.fn /\ d.at = c.at /\ d.dash = c.dash
          /\ d.before = c.before /\ d.answer = c.answer
      BY UnclaimedIs
    <2> HIDE DEF d
    <2>2. CallOK(d)
      BY <1>1, <2>1 DEF CallOK
    <2>3. QED
      BY <2>2 DEF d
  <1>2. \A k \in DOMAIN old : CallOK(Kept(old[k], claimed))
    <2>1. \A k \in DOMAIN old : old[k] \in Calls
      OBVIOUS
    <2>2. QED
      BY <1>1, <2>1 DEF Kept
  <1>3. QED
    BY <1>2 DEF Turned

--------------------------------------------------------------------------------
(* What each action does, the calls told as above *)

SameServer == log' = log /\ generation' = generation /\ forgetting' = forgetting
SameList == /\ selected' = selected /\ shown' = shown /\ cursor' = cursor
            /\ cursorGeneration' = cursorGeneration /\ versionsLoaded' = versionsLoaded
Quiet == news' = news /\ connected' = connected

Selecting(dash) ==
    /\ selected' = dash /\ shown' = shown /\ cursor' = None /\ cursorGeneration' = None
    /\ versionsLoaded' = FALSE /\ lost' = FALSE

LEMMA SelectTurns ==
    ASSUME Types, NEW q, NEW gone, NEW dash \in Dashboards, NEW frees \in BOOLEAN,
           Turned(calls, Claimed(q), gone, TRUE, {}), StartSelect(q, dash, frees)
    PROVE  Turned(calls, calls', gone, TRUE, {SelectCall(dash, frees)}) /\ Selecting(dash)
  <1>1. SelectCall(dash, frees) \in Calls
    BY FreshCalls
  <1>2. calls' = Append(Claimed(q), SelectCall(dash, frees)) /\ Selecting(dash)
    BY DEF StartSelect, SelectCall, Selecting
  <1>3. calls \in Seq(Calls)
    BY DEF Types
  <1>4. QED
    BY <1>1, <1>2, <1>3, TurnedAdding

LEMMA PickDoes ==
    ASSUME Types, NEW dash \in Dashboards, Pick(dash)
    PROVE  /\ Turned(calls, calls', {}, TRUE, {SelectCall(dash, FALSE)})
           /\ Selecting(dash) /\ SameServer /\ Quiet
           /\ listed' = listed /\ locked' = locked /\ mishaps' = mishaps
           /\ locked = None /\ spent' \in Nat
  <1>1. calls \in Seq(Calls) /\ spent \in Nat
    BY DEF Types
  <1>2. Turned(calls, Claimed(calls), {}, TRUE, {})
    BY <1>1, TurnedClaiming
  <1>3. /\ StartSelect(calls, dash, FALSE) /\ SameServer /\ Quiet
        /\ listed' = listed /\ locked' = locked /\ mishaps' = mishaps /\ locked = None
    BY DEF Pick, Free, server, SameServer, Quiet
  <1>4. spent' \in Nat
    BY <1>1 DEF Pick, Spend
  <1>5. QED
    BY <1>2, <1>3, <1>4, SelectTurns

LEMMA SelectedDoes ==
    ASSUME Types, NEW i \in DOMAIN calls, Selected(i)
    PROVE  /\ calls[i].fn = "select" /\ ~Waiting(calls[i])
           /\ Turned(calls, calls', {i}, FALSE, {})
           /\ selected' = selected
           /\ IF calls[i].mine
              THEN /\ versionsLoaded' = TRUE
                   /\ IF Failed(calls[i])
                      THEN shown' = <<>> /\ cursor' = None /\ cursorGeneration' = None
                      ELSE /\ shown' = calls[i].answer.rows /\ cursor' = calls[i].answer.next
                           /\ cursorGeneration' = calls[i].answer.generation
              ELSE SameList
           /\ locked' = Unlocked(calls[i])
           /\ lost' \in BOOLEAN
           /\ SameServer /\ Quiet /\ listed' = listed /\ mishaps' = mishaps /\ spent' = spent
  <1>1. calls \in Seq(Calls) /\ lost \in BOOLEAN
    BY DEF Types
  <1>2. Turned(calls, calls', {i}, FALSE, {})
    BY <1>1, TurnedDropping DEF Selected
  <1>3. /\ calls[i].fn = "select" /\ ~Waiting(calls[i]) /\ locked' = Unlocked(calls[i])
        /\ SameServer /\ Quiet /\ listed' = listed /\ mishaps' = mishaps /\ spent' = spent
    BY DEF Selected, server, SameServer, Quiet
  <1>4. CASE calls[i].mine
    BY <1>1, <1>2, <1>3, <1>4 DEF Selected
  <1>5. CASE ~calls[i].mine
    BY <1>1, <1>2, <1>3, <1>5 DEF Selected, list, SameList
  <1>6. QED
    BY <1>4, <1>5

LEMMA LoadedDoes ==
    ASSUME Types, NEW i \in DOMAIN calls, Loaded(i)
    PROVE  /\ calls[i].fn = "load"
           /\ SameServer /\ Quiet /\ mishaps' = mishaps /\ spent' = spent
           /\ lost' \in BOOLEAN /\ listed' \in BOOLEAN
           /\ \/ /\ Failed(calls[i]) \/ (calls[i].at = "listed" /\ calls[i].answer = {})
                 /\ Turned(calls, calls', {i}, FALSE, {})
                 /\ SameList /\ locked' = Unlocked(calls[i])
              \/ /\ calls[i].at = "listed" /\ locked' = locked
                 /\ \E first \in Dashboards :
                      /\ Turned(calls, calls', {i}, TRUE, {SelectCall(first, calls[i].frees)})
                      /\ Selecting(first)
  <1>1. calls \in Seq(Calls) /\ lost \in BOOLEAN /\ listed \in BOOLEAN /\ CallOK(calls[i])
        /\ calls[i].frees \in BOOLEAN
    <2>1. calls \in Seq(Calls) /\ lost \in BOOLEAN /\ listed \in BOOLEAN /\ CallOK(calls[i])
      BY DEF Types
    <2>2. calls[i] \in Calls
      BY <2>1
    <2>3. calls[i].frees \in BOOLEAN
      BY <2>2 DEF Calls
    <2>4. QED
      BY <2>1, <2>3
  <1>2. /\ calls[i].fn = "load"
        /\ SameServer /\ Quiet /\ mishaps' = mishaps /\ spent' = spent
    BY DEF Loaded, server, SameServer, Quiet
  <1>3. Turned(calls, RemoveAt(calls, i), {i}, FALSE, {})
    BY <1>1, TurnedDropping
  <1>4. CASE /\ Failed(calls[i])
             /\ lost' = (calls[i].at = "cut") /\ locked' = Unlocked(calls[i])
             /\ calls' = RemoveAt(calls, i)
             /\ UNCHANGED <<listed, list, write>>
    <2>1. lost' \in BOOLEAN
      BY <1>4
    <2>2. listed' = listed /\ SameList
      BY <1>4 DEF list, SameList
    <2>3. Failed(calls[i]) /\ locked' = Unlocked(calls[i]) /\ calls' = RemoveAt(calls, i)
      BY <1>4
    <2>4. QED
      BY <1>1, <1>2, <1>3, <2>1, <2>2, <2>3
  <1>5. CASE /\ calls[i].at = "listed" /\ calls[i].answer = {}
             /\ listed' = TRUE /\ locked' = Unlocked(calls[i])
             /\ calls' = RemoveAt(calls, i)
             /\ UNCHANGED <<list, lost, write>>
    BY <1>1, <1>2, <1>3, <1>5 DEF list, SameList
  <1>6. CASE /\ calls[i].at = "listed"
             /\ listed' = TRUE
             /\ \E first \in MayComeFirst(calls[i].answer) :
                  StartSelect(RemoveAt(calls, i), first, calls[i].frees)
             /\ UNCHANGED locked
    <2>1. PICK first \in MayComeFirst(calls[i].answer) :
             StartSelect(RemoveAt(calls, i), first, calls[i].frees)
      BY <1>6
    <2>2. first \in Dashboards
      BY <1>1, <1>6, <2>1 DEF MayComeFirst, CallOK
    <2>3. Turned(calls, Claimed(RemoveAt(calls, i)), {i}, TRUE, {})
      BY <1>1, TurnedAway
    <2>4. /\ Turned(calls, calls', {i}, TRUE, {SelectCall(first, calls[i].frees)})
          /\ Selecting(first)
      BY <1>1, <2>1, <2>2, <2>3, SelectTurns
    <2>5. lost' \in BOOLEAN /\ listed' \in BOOLEAN
      BY <1>6, <2>4 DEF Selecting
    <2>6. QED
      BY <1>2, <1>6, <2>2, <2>4, <2>5
  <1>7. QED
    BY <1>4, <1>5, <1>6 DEF Loaded

LEMMA LoadOlderDoes ==
    ASSUME Types, LoadOlder
    PROVE  /\ locked = None /\ selected # None /\ cursor # None
           /\ selected \in Dashboards /\ cursor \in Entries
           /\ Turned(calls, calls', {}, TRUE, {OlderCall(selected, cursor, cursorGeneration)})
           /\ mishaps' = IF \E i \in DOMAIN calls : calls[i].mine /\ calls[i].fn = "refresh"
                         THEN mishaps \cup {"overtaken"} ELSE mishaps
           /\ lost' = FALSE /\ spent' \in Nat
           /\ SameServer /\ Quiet /\ SameList /\ listed' = listed /\ locked' = locked
  <1>1. calls \in Seq(Calls) /\ spent \in Nat
    BY DEF Types
  <1>2. /\ locked = None /\ selected # None /\ cursor # None
        /\ selected \in Dashboards /\ cursor \in Entries /\ cursorGeneration \in Nat \cup {None}
    BY DEF Types, LoadOlder, Free
  <1>3. calls' = Append(Claimed(calls), OlderCall(selected, cursor, cursorGeneration))
    BY DEF LoadOlder, OlderCall
  <1>4. OlderCall(selected, cursor, cursorGeneration) \in Calls
    BY <1>2, FreshCalls
  <1>5. Turned(calls, calls', {}, TRUE, {OlderCall(selected, cursor, cursorGeneration)})
    BY <1>1, <1>3, <1>4, TurnedClaiming, TurnedAdding
  <1>6. spent' \in Nat
    BY <1>1 DEF LoadOlder, Spend
  <1>7. /\ lost' = FALSE
        /\ SameServer /\ Quiet /\ SameList /\ listed' = listed /\ locked' = locked
    BY DEF LoadOlder, server, list, SameServer, Quiet, SameList
  <1>8. mishaps' = IF \E i \in DOMAIN calls : calls[i].mine /\ calls[i].fn = "refresh"
                   THEN mishaps \cup {"overtaken"} ELSE mishaps
    BY DEF LoadOlder
  <1>9. QED
    BY <1>2, <1>5, <1>6, <1>7, <1>8

LEMMA GotOlderDoes ==
    ASSUME Types, NEW i \in DOMAIN calls, GotOlder(i)
    PROVE  /\ calls[i].fn = "older" /\ ~Waiting(calls[i])
           /\ Turned(calls, calls', {i}, FALSE, {})
           /\ IF calls[i].mine /\ calls[i].at = "answered"
              THEN /\ shown' = Continued(calls[i].answer) /\ cursor' = calls[i].answer.next
                   /\ cursorGeneration' = calls[i].answer.generation
              ELSE shown' = shown /\ cursor' = cursor /\ cursorGeneration' = cursorGeneration
           /\ selected' = selected /\ versionsLoaded' = versionsLoaded /\ locked' = locked
           /\ lost' \in BOOLEAN
           /\ SameServer /\ Quiet /\ listed' = listed /\ mishaps' = mishaps /\ spent' = spent
  <1>1. calls \in Seq(Calls) /\ lost \in BOOLEAN
    BY DEF Types
  <1>2. Turned(calls, calls', {i}, FALSE, {})
    BY <1>1, TurnedDropping DEF GotOlder
  <1>3. lost' \in BOOLEAN
    BY <1>1 DEF GotOlder
  <1>4. QED
    BY <1>2, <1>3 DEF GotOlder, server, SameServer, Quiet

(* An answer, or none, to what was asked.                                  *)
LEMMA AnswerDoes ==
    ASSUME Types, NEW i \in DOMAIN calls, Answer(i)
    PROVE  /\ \E c \in Calls :
                /\ Turned(calls, calls', {i}, FALSE, {c}) /\ SameQuestion(c, calls[i])
                /\ \/ /\ calls[i].at = "listing" /\ c.at = "listed"
                      /\ c.answer = {r.dash : r \in log} /\ c.answer \in SUBSET Dashboards
                   \/ /\ calls[i].at = "asked" /\ c.at = "answered"
                      /\ calls[i].fn \in {"forget", "write", "note"}
                      /\ calls[i].fn = "forget" => Rows(calls[i].dash) = <<>>
                   \/ /\ calls[i].at = "asked" /\ c.at = "answered"
                      /\ calls[i].fn \in {"select", "older", "refresh"}
                      /\ c.answer = HistoryPage(calls[i].dash, calls[i].before, calls[i].since)
                      /\ IsPage(c.answer, calls[i].dash)
           /\ connected
           /\ SameServer /\ Quiet /\ SameList /\ listed' = listed /\ lost' = lost
           /\ locked' = locked /\ spent' = spent /\ mishaps' = mishaps
  <1>1. /\ calls \in Seq(Calls) /\ calls[i] \in Calls /\ CallOK(calls[i])
        /\ Numbered(log) /\ generation \in Nat
    BY DEF Types
  <1>2. /\ connected
        /\ SameServer /\ Quiet /\ SameList /\ listed' = listed /\ lost' = lost
        /\ locked' = locked /\ spent' = spent /\ mishaps' = mishaps
    BY DEF Answer, server, list, SameServer, Quiet, SameList
  <1>3. ASSUME NEW c \in Calls, calls' = [calls EXCEPT ![i] = c]
        PROVE  Turned(calls, calls', {i}, FALSE, {c})
    BY <1>1, <1>3, TurnedChanging
  <1>4. ASSUME calls[i].at = "listing",
               calls' = [calls EXCEPT ![i].at = "listed",
                                      ![i].answer = {r.dash : r \in log}]
        PROVE  \E c \in Calls :
                /\ Turned(calls, calls', {i}, FALSE, {c}) /\ SameQuestion(c, calls[i])
                /\ calls[i].at = "listing" /\ c.at = "listed"
                /\ c.answer = {r.dash : r \in log} /\ c.answer \in SUBSET Dashboards
    <2> DEFINE known == {r.dash : r \in log}
               c == [calls[i] EXCEPT !.at = "listed", !.answer = known]
    <2>1. known \in SUBSET Dashboards
      BY <1>1 DEF Numbered, Entries
    <2> HIDE DEF known
    <2>2. c \in Calls /\ c.at = "listed" /\ c.answer = known /\ SameQuestion(c, calls[i])
      BY <1>1, <2>1 DEF Calls, SameQuestion
    <2>3. calls' = [calls EXCEPT ![i] = c]
      BY <1>1, <1>4 DEF known
    <2> HIDE DEF c
    <2>4. Turned(calls, calls', {i}, FALSE, {c})
      BY <1>3, <2>2, <2>3
    <2>5. known = {r.dash : r \in log}
      BY DEF known
    <2>6. QED
      BY <1>4, <2>1, <2>2, <2>4, <2>5
  <1>5. ASSUME calls[i].at = "asked", calls' = [calls EXCEPT ![i].at = "answered"]
        PROVE  \E c \in Calls :
                /\ Turned(calls, calls', {i}, FALSE, {c}) /\ SameQuestion(c, calls[i])
                /\ c.at = "answered"
    <2> DEFINE c == [calls[i] EXCEPT !.at = "answered"]
    <2>1. c \in Calls /\ c.at = "answered" /\ SameQuestion(c, calls[i])
      BY <1>1 DEF Calls, SameQuestion
    <2>2. calls' = [calls EXCEPT ![i] = c]
      BY <1>1, <1>5
    <2> HIDE DEF c
    <2>3. QED
      BY <1>3, <2>1, <2>2
  <1>6. ASSUME calls[i].at = "asked", calls[i].fn \in {"select", "older", "refresh"},
               calls' = [calls EXCEPT ![i].at = "answered",
                           ![i].answer = HistoryPage(calls[i].dash, calls[i].before,
                                                     calls[i].since)]
        PROVE  \E c \in Calls :
                /\ Turned(calls, calls', {i}, FALSE, {c}) /\ SameQuestion(c, calls[i])
                /\ c.at = "answered"
                /\ c.answer = HistoryPage(calls[i].dash, calls[i].before, calls[i].since)
                /\ IsPage(c.answer, calls[i].dash)
    <2> DEFINE page == HistoryPage(calls[i].dash, calls[i].before, calls[i].since)
               c == [calls[i] EXCEPT !.at = "answered", !.answer = page]
    <2>1. /\ calls[i].dash \in Dashboards
          /\ calls[i].before \in Entries \cup {None} /\ calls[i].since \in Nat \cup {None}
          /\ calls[i].before # None => calls[i].before.dash = calls[i].dash
      BY <1>1, <1>6 DEF CallOK, Calls
    <2>2. IsPage(page, calls[i].dash) /\ page \in Pages
      <3>1. IsPage(page, calls[i].dash)
        BY <1>1, <2>1, HistoryAnswers DEF Answers
      <3>2. QED
        BY <3>1 DEF IsPage
    <2> HIDE DEF page
    <2>3. c \in Calls /\ c.at = "answered" /\ c.answer = page /\ SameQuestion(c, calls[i])
      BY <1>1, <2>2 DEF Calls, SameQuestion
    <2>4. calls' = [calls EXCEPT ![i] = c]
      BY <1>1, <1>6 DEF page
    <2> HIDE DEF c
    <2>5. Turned(calls, calls', {i}, FALSE, {c})
      BY <1>3, <2>3, <2>4
    <2>6. page = HistoryPage(calls[i].dash, calls[i].before, calls[i].since)
      BY DEF page
    <2>7. QED
      BY <2>2, <2>3, <2>5, <2>6
  <1>7. CASE calls[i].at = "listing"
    <2>1. calls' = [calls EXCEPT ![i].at = "listed", ![i].answer = {r.dash : r \in log}]
      BY <1>7 DEF Answer
    <2>2. QED
      BY <1>2, <1>4, <1>7, <2>1
  <1>8. CASE calls[i].at = "asked" /\ calls[i].fn \in {"forget", "write", "note"}
    <2>1. /\ calls' = [calls EXCEPT ![i].at = "answered"]
          /\ calls[i].fn = "forget" => Rows(calls[i].dash) = <<>>
      BY <1>8 DEF Answer, Writes
    <2>2. QED
      BY <1>2, <1>5, <1>8, <2>1
  <1>9. CASE calls[i].at = "asked" /\ calls[i].fn \notin {"forget", "write", "note"}
    <2>1. calls[i].fn \in {"select", "older", "refresh"}
      BY <1>1, <1>9 DEF Calls, CallOK
    <2>2. calls' = [calls EXCEPT ![i].at = "answered",
                      ![i].answer = HistoryPage(calls[i].dash, calls[i].before,
                                                calls[i].since)]
      BY <1>9 DEF Answer, Writes
    <2>3. QED
      BY <1>2, <1>6, <1>9, <2>1, <2>2
  <1>10. QED
    BY <1>7, <1>8, <1>9 DEF Answer, Waiting

LEMMA FailDoes ==
    ASSUME Types, NEW i \in DOMAIN calls, Fail(i)
    PROVE  /\ \E c \in Calls :
                /\ Turned(calls, calls', {i}, FALSE, {c}) /\ SameQuestion(c, calls[i])
                /\ c.at \in {"refused", "cut"} /\ c.answer = calls[i].answer
           /\ Waiting(calls[i])
           /\ mishaps' = mishaps \cup {"failed"} /\ spent' \in Nat
           /\ SameServer /\ Quiet /\ SameList /\ listed' = listed /\ lost' = lost
           /\ locked' = locked
  <1>1. calls \in Seq(Calls) /\ calls[i] \in Calls /\ spent \in Nat
    BY DEF Types
  <1> DEFINE at == IF connected THEN "refused" ELSE "cut"
             c == [calls[i] EXCEPT !.at = at]
  <1>2. at \in {"refused", "cut"}
    OBVIOUS
  <1>3. calls' = [calls EXCEPT ![i] = c]
    BY <1>1 DEF Fail
  <1>4. /\ Waiting(calls[i])
        /\ mishaps' = mishaps \cup {"failed"} /\ spent' \in Nat
        /\ SameServer /\ Quiet /\ SameList /\ listed' = listed /\ lost' = lost
        /\ locked' = locked
    BY <1>1 DEF Fail, Spend, server, list, SameServer, Quiet, SameList
  <1> HIDE DEF at
  <1>5. /\ c \in Calls /\ SameQuestion(c, calls[i])
        /\ c.at \in {"refused", "cut"} /\ c.answer = calls[i].answer
    BY <1>1, <1>2 DEF Calls, SameQuestion
  <1> HIDE DEF c
  <1>6. Turned(calls, calls', {i}, FALSE, {c})
    BY <1>1, <1>3, <1>5, TurnedChanging
  <1>7. QED
    BY <1>4, <1>5, <1>6

LEMMA RefreshedDoes ==
    ASSUME Types, NEW i \in DOMAIN calls, Refreshed(i)
    PROVE  /\ calls[i].fn = "refresh" /\ ~Waiting(calls[i])
           /\ SameServer /\ Quiet /\ locked' = locked /\ mishaps' = mishaps /\ spent' = spent
           /\ lost' \in BOOLEAN /\ listed' \in BOOLEAN
           /\ selected' = selected /\ cursorGeneration' = cursorGeneration
           /\ versionsLoaded' = versionsLoaded
           /\ \/ /\ Failed(calls[i]) \/ (calls[i].at = "listed" /\ selected = None)
                 /\ Turned(calls, calls', {i}, FALSE, {}) /\ SameList
              \/ /\ calls[i].at = "listed" /\ selected # None /\ SameList
                 /\ \E c \in Calls :
                      /\ Turned(calls, calls', {i}, TRUE, {c}) /\ CallOK(c)
                      /\ c.fn = "refresh" /\ c.at = "asked" /\ c.mine /\ c.dash = selected
                      /\ c.frees = calls[i].frees
              \/ /\ calls[i].at = "answered" /\ Turned(calls, calls', {i}, FALSE, {})
                 /\ IF calls[i].mine
                    THEN shown' = calls[i].answer.rows /\ cursor' = calls[i].answer.next
                    ELSE shown' = shown /\ cursor' = cursor
  <1>1. /\ calls \in Seq(Calls) /\ lost \in BOOLEAN /\ listed \in BOOLEAN /\ calls[i] \in Calls
        /\ CallOK(calls[i]) /\ selected \in Dashboards \cup {None}
    BY DEF Types
  <1>2. /\ calls[i].fn = "refresh"
        /\ SameServer /\ Quiet /\ locked' = locked /\ mishaps' = mishaps /\ spent' = spent
    BY DEF Refreshed, server, SameServer, Quiet
  <1>3. Turned(calls, RemoveAt(calls, i), {i}, FALSE, {})
    BY <1>1, TurnedDropping
  <1>4. CASE /\ Failed(calls[i])
             /\ lost' = NoticeAfter(calls[i])
             /\ calls' = RemoveAt(calls, i)
             /\ UNCHANGED <<listed, list>>
    <2>1. lost' \in BOOLEAN
      <3>1. calls[i].guarded \in {"shown", "quiet", "said"}
        BY <1>1 DEF Calls
      <3>2. QED
        BY <1>1, <1>4, <3>1 DEF NoticeAfter
    <2>2. /\ listed' = listed /\ SameList
          /\ selected' = selected /\ cursorGeneration' = cursorGeneration
          /\ versionsLoaded' = versionsLoaded
      BY <1>4 DEF list, SameList
    <2>3. ~Waiting(calls[i])
      BY <1>4 DEF Failed, Waiting
    <2>4. Failed(calls[i]) /\ calls' = RemoveAt(calls, i)
      BY <1>4
    <2>5. QED
      BY <1>1, <1>2, <1>3, <2>1, <2>2, <2>3, <2>4
  <1>5. CASE /\ calls[i].at = "listed"
             /\ listed' = TRUE
             /\ calls' = IF selected = None THEN RemoveAt(calls, i)
                         ELSE [Claimed(calls) EXCEPT ![i].at = "asked", ![i].mine = TRUE,
                                                     ![i].dash = selected]
             /\ UNCHANGED <<list, lost>>
    <2>1. CASE selected = None
      BY <1>1, <1>2, <1>3, <1>5, <2>1 DEF list, SameList, Waiting
    <2>2. CASE selected # None
      <3> DEFINE old == Unclaimed(calls[i])
                 c == [old EXCEPT !.at = "asked", !.mine = TRUE, !.dash = selected]
      <3>1. /\ old \in Calls /\ old.fn = "refresh" /\ old.before = calls[i].before
            /\ old.frees = calls[i].frees
        BY <1>1, <1>2, UnclaimedIs
      <3>2. /\ Claimed(calls) \in Seq(Calls) /\ i \in DOMAIN Claimed(calls)
            /\ Claimed(calls)[i] = old
        BY <1>1, ClaimedIs
      <3> HIDE DEF old
      <3>3. /\ c \in Calls /\ c.fn = "refresh" /\ c.at = "asked" /\ c.mine /\ c.dash = selected
            /\ c.before = calls[i].before /\ c.frees = calls[i].frees
        BY <1>1, <2>2, <3>1, ZenonT(40) DEF Calls
      <3>4. calls' = [Claimed(calls) EXCEPT ![i] = c]
        BY <1>5, <2>2, <3>2
      <3> HIDE DEF c
      <3>5. Turned(calls, calls', {i}, TRUE, {c})
        BY <1>1, <3>3, <3>4, TurnedChanging
      <3>6. c.before = None /\ selected \in Dashboards
        BY <1>1, <1>2, <2>2, <3>3 DEF CallOK
      <3>7. CallOK(c)
        BY <3>3, <3>6 DEF CallOK
      <3>8. QED
        BY <1>1, <1>2, <1>5, <2>2, <3>3, <3>5, <3>7 DEF list, SameList, Waiting
    <2>3. QED
      BY <2>1, <2>2
  <1>6. CASE /\ calls[i].at = "answered"
             /\ IF calls[i].mine
                THEN shown' = calls[i].answer.rows /\ cursor' = calls[i].answer.next
                ELSE UNCHANGED <<shown, cursor>>
             /\ calls' = RemoveAt(calls, i)
             /\ UNCHANGED <<listed, selected, cursorGeneration, versionsLoaded, lost>>
    BY <1>1, <1>2, <1>3, <1>6 DEF Waiting
  <1>7. QED
    BY <1>4, <1>5, <1>6 DEF Refreshed


SamePage == /\ connected' = connected /\ listed' = listed /\ SameList /\ lost' = lost
            /\ locked' = locked /\ calls' = calls

LEMMA ReloadDoes ==
    ASSUME Types, Reload
    PROVE  /\ locked = None
           /\ Turned(calls, calls', {}, FALSE, {Refresh("shown")})
           /\ lost' = FALSE /\ spent' \in Nat
           /\ SameServer /\ Quiet /\ SameList /\ listed' = listed /\ locked' = locked
           /\ mishaps' = mishaps
  <1>1. calls \in Seq(Calls) /\ spent \in Nat
    BY DEF Types
  <1>2. spent' \in Nat
    BY <1>1 DEF Reload, Spend
  <1>3. Refresh("shown") \in Calls
    BY FreshCalls
  <1>4. Turned(calls, calls', {}, FALSE, {Refresh("shown")})
    BY <1>1, <1>3, TurnedKeeping, TurnedAdding DEF Reload
  <1>5. /\ locked = None /\ lost' = FALSE
        /\ SameServer /\ Quiet /\ SameList /\ listed' = listed /\ locked' = locked
        /\ mishaps' = mishaps
    BY DEF Reload, Free, server, list, SameServer, Quiet, SameList
  <1>6. QED
    BY <1>2, <1>4, <1>5

LEMMA ForgetDoes ==
    ASSUME Types, NEW dash \in Dashboards, Forget(dash)
    PROVE  /\ locked = None /\ selected = dash /\ dash \in Gone
           /\ locked' = [key |-> dash, borrowed |-> FALSE]
           /\ Turned(calls, calls', {}, FALSE, {ForgetCall(dash)})
           /\ lost' = FALSE /\ spent' = spent
           /\ SameServer /\ Quiet /\ SameList /\ listed' = listed /\ mishaps' = mishaps
  <1>1. calls \in Seq(Calls)
    BY DEF Types
  <1>2. spent' = spent
    BY DEF Forget
  <1>3. ForgetCall(dash) \in Calls
    BY FreshCalls
  <1>4. Turned(calls, calls', {}, FALSE, {ForgetCall(dash)})
    BY <1>1, <1>3, TurnedKeeping, TurnedAdding DEF Forget, ForgetCall
  <1>5. /\ locked = None /\ selected = dash /\ dash \in Gone
        /\ locked' = [key |-> dash, borrowed |-> FALSE] /\ lost' = FALSE
        /\ SameServer /\ Quiet /\ SameList /\ listed' = listed /\ mishaps' = mishaps
    BY DEF Forget, Free, server, list, SameServer, Quiet, SameList
  <1>6. QED
    BY <1>2, <1>4, <1>5

LEMMA ForgottenDoes ==
    ASSUME Types, NEW i \in DOMAIN calls, Forgotten(i)
    PROVE  /\ calls[i].fn = "forget" /\ ~Waiting(calls[i])
           /\ \/ /\ Turned(calls, calls', {i}, FALSE, {Freeing})
                 /\ selected' = None /\ shown' = <<>>
                 /\ locked' = locked /\ mishaps' = mishaps
              \/ /\ Turned(calls, calls', {i}, FALSE, {})
                 /\ selected' = selected /\ shown' = shown
                 /\ locked' = None /\ mishaps' = mishaps \cup {"claimed"}
           /\ cursor' = cursor
           /\ cursorGeneration' = cursorGeneration /\ versionsLoaded' = versionsLoaded
           /\ lost' \in BOOLEAN
           /\ SameServer /\ Quiet /\ listed' = listed /\ spent' = spent
  <1>1. calls \in Seq(Calls) /\ lost \in BOOLEAN
    BY DEF Types
  <1>2. Freeing \in Calls
    BY FreshCalls
  <1>3. Turned(calls, RemoveAt(calls, i), {i}, FALSE, {})
    BY <1>1, TurnedDropping
  <1>4. /\ calls[i].fn = "forget" /\ ~Waiting(calls[i]) /\ cursor' = cursor
        /\ cursorGeneration' = cursorGeneration /\ versionsLoaded' = versionsLoaded
        /\ SameServer /\ Quiet /\ listed' = listed /\ spent' = spent
    BY DEF Forgotten, server, SameServer, Quiet
  <1>5. CASE writing
    <2>1. calls' = Append(RemoveAt(calls, i), Freeing)
      BY <1>5 DEF Forgotten, Freeing
    <2>2. Turned(calls, calls', {i}, FALSE, {Freeing})
      BY <1>1, <1>2, <1>3, <2>1, TurnedAdding
    <2>3. /\ selected' = None /\ shown' = <<>> /\ locked' = locked /\ mishaps' = mishaps
          /\ lost' = FALSE
      BY <1>5 DEF Forgotten
    <2>4. QED
      BY <1>4, <2>2, <2>3
  <1>6. CASE ~writing
    <2>1. /\ calls' = RemoveAt(calls, i) /\ selected' = selected /\ shown' = shown
          /\ locked' = None /\ mishaps' = mishaps \cup {"claimed"}
          /\ lost' = IF Failed(calls[i]) THEN calls[i].at = "cut" ELSE lost
      BY <1>6 DEF Forgotten
    <2>2. lost' \in BOOLEAN
      BY <1>1, <2>1
    <2>3. QED
      BY <1>3, <1>4, <2>1, <2>2
  <1>7. QED
    BY <1>5, <1>6

LEMMA HearRecordedDoes ==
    ASSUME Types, HearRecorded
    PROVE  /\ news # <<>> /\ news[1].kind = "recorded" /\ news' = Tail(news)
           /\ \/ /\ awaiting \/ (dialog # "closed" /\ dialog' = "missed")
                 /\ mishaps' = mishaps /\ Turned(calls, calls', {}, FALSE, {})
              \/ /\ locked # None /\ Turned(calls, calls', {}, FALSE, {})
                 /\ mishaps' = IF ReadBeforeUnlocked THEN mishaps
                               ELSE mishaps \cup {"skipped"}
              \/ /\ locked = None /\ mishaps' = mishaps
                 /\ \/ /\ selected \in {None, news[1].dash}
                       /\ Turned(calls, calls', {}, FALSE, {Refresh("quiet")})
                    \/ /\ selected \notin {None, news[1].dash}
                       /\ Turned(calls, calls', {}, FALSE, {})
           /\ SameServer /\ connected' = connected /\ SameList /\ listed' = listed
           /\ lost' = lost /\ locked' = locked /\ spent' = spent
  <1>1. calls \in Seq(Calls) /\ news \in Seq(Events)
    BY DEF Types
  <1>2. Refresh("quiet") \in Calls
    BY FreshCalls
  <1>3. /\ Turned(calls, calls, {}, FALSE, {})
        /\ Turned(calls, Append(calls, Refresh("quiet")), {}, FALSE, {Refresh("quiet")})
    BY <1>1, <1>2, TurnedKeeping, TurnedAdding
  <1>4. /\ news # <<>> /\ Head(news).kind = "recorded" /\ news' = Tail(news)
        /\ SameServer /\ connected' = connected /\ SameList /\ listed' = listed
        /\ lost' = lost /\ locked' = locked /\ spent' = spent
    BY DEF HearRecorded, server, list, SameServer, SameList
  <1>5. Head(news) = news[1]
    BY <1>1
  <1>6. CASE awaiting
    <2>1. calls' = calls /\ mishaps' = mishaps
      BY <1>6 DEF HearRecorded
    <2>2. QED
      BY <1>3, <1>4, <1>5, <1>6, <2>1
  <1>7. CASE ~awaiting /\ dialog # "closed"
    <2>1. calls' = calls /\ mishaps' = mishaps /\ dialog' = "missed"
      BY <1>7 DEF HearRecorded, Free
    <2>2. QED
      BY <1>3, <1>4, <1>5, <1>7, <2>1
  <1>8. CASE ~awaiting /\ dialog = "closed" /\ locked # None
    <2>1. /\ calls' = calls
          /\ mishaps' = IF ReadBeforeUnlocked THEN mishaps ELSE mishaps \cup {"skipped"}
      BY <1>8 DEF HearRecorded, Free
    <2>2. QED
      BY <1>3, <1>4, <1>5, <1>8, <2>1
  <1>9. CASE ~awaiting /\ dialog = "closed" /\ locked = None
    <2>1. mishaps' = mishaps /\ calls' = RefreshedFor(news[1])
      BY <1>5, <1>9 DEF HearRecorded
    <2>2. QED
      BY <1>3, <1>4, <1>5, <1>9, <2>1 DEF RefreshedFor
  <1>10. QED
    BY <1>6, <1>7, <1>8, <1>9

LEMMA HearForgettingDoes ==
    ASSUME Types, HearForgetting
    PROVE  /\ news # <<>> /\ news[1].kind # "recorded" /\ news' = Tail(news)
           /\ \/ /\ news[1].kind = "rewriting" /\ locked = None
                 /\ locked' = [key |-> news[1].dash, borrowed |-> TRUE]
                 /\ Turned(calls, calls', {}, FALSE, {}) /\ lost' = lost
              \/ /\ news[1].kind = "done" /\ locked = [key |-> news[1].dash, borrowed |-> TRUE]
                 /\ Turned(calls, calls', {}, FALSE, {Freeing})
                 /\ locked' = locked /\ lost' = FALSE
              \/ /\ news[1].kind = "rewriting" => locked # None
                 /\ news[1].kind = "done" => locked # [key |-> news[1].dash, borrowed |-> TRUE]
                 /\ Turned(calls, calls', {}, FALSE, {})
                 /\ locked' = locked /\ lost' = lost
           /\ mishaps' = IF /\ news[1].kind = "rewriting" /\ locked # None
                            /\ locked.key # news[1].dash
                         THEN mishaps \cup {"ignored"} ELSE mishaps
           /\ SameServer /\ connected' = connected /\ SameList /\ listed' = listed
           /\ spent' = spent
  <1>1. calls \in Seq(Calls) /\ news \in Seq(Events)
    BY DEF Types
  <1>2. Freeing \in Calls
    BY FreshCalls
  <1>3. /\ Turned(calls, calls, {}, FALSE, {})
        /\ Turned(calls, Append(calls, Freeing), {}, FALSE, {Freeing})
    BY <1>1, <1>2, TurnedKeeping, TurnedAdding
  <1>4. news # <<>> /\ Head(news) = news[1]
    BY <1>1 DEF HearForgetting
  <1>5. /\ news[1].kind # "recorded" /\ news' = Tail(news)
        /\ mishaps' = IF /\ news[1].kind = "rewriting" /\ locked # None
                         /\ locked.key # news[1].dash
                      THEN mishaps \cup {"ignored"} ELSE mishaps
    BY <1>4 DEF HearForgetting
  <1>6. /\ SameServer /\ connected' = connected /\ SameList /\ listed' = listed
        /\ spent' = spent
    BY DEF HearForgetting, server, list, SameServer, SameList
  <1>7. \/ /\ news[1].kind = "rewriting" /\ locked = None
           /\ locked' = [key |-> news[1].dash, borrowed |-> TRUE]
           /\ calls' = calls /\ lost' = lost
        \/ /\ news[1].kind = "done" /\ locked = [key |-> news[1].dash, borrowed |-> TRUE]
           /\ calls' = Append(calls, Freeing)
           /\ locked' = locked /\ lost' = FALSE
        \/ /\ news[1].kind = "rewriting" => locked # None
           /\ news[1].kind = "done" => locked # [key |-> news[1].dash, borrowed |-> TRUE]
           /\ calls' = calls
           /\ locked' = locked /\ lost' = lost
    BY <1>4 DEF HearForgetting, Freeing
  <1>8. QED
    BY <1>3, <1>4, <1>5, <1>6, <1>7

LEMMA DisconnectDoes ==
    ASSUME Types, Disconnect
    PROVE  /\ connected /\ connected' = FALSE /\ news' = <<>>
           /\ calls' \in Seq(Calls) /\ DOMAIN calls' = DOMAIN calls
           /\ \A i \in DOMAIN calls :
                /\ SameQuestion(calls'[i], calls[i]) /\ calls'[i].answer = calls[i].answer
                /\ calls'[i].at = IF Waiting(calls[i]) THEN "cut" ELSE calls[i].at
           /\ mishaps \subseteq mishaps'
           /\ news # <<>> => mishaps' # {}
           /\ calls' = calls \/ "failed" \in mishaps'
           /\ spent' \in Nat
           /\ SameServer /\ SameList /\ listed' = listed /\ lost' = lost /\ locked' = locked
  <1>1. calls \in Seq(Calls) /\ spent \in Nat /\ DOMAIN calls = 1 .. Len(calls)
        /\ Len(calls) \in Nat
    BY DEF Types
  <1>2. spent' \in Nat
    BY <1>1 DEF Disconnect, Spend
  <1>3. /\ connected /\ connected' = FALSE /\ news' = <<>>
        /\ SameServer /\ SameList /\ listed' = listed /\ lost' = lost /\ locked' = locked
    BY DEF Disconnect, server, list, SameServer, SameList
  <1>4. /\ mishaps \subseteq mishaps'
        /\ calls' = calls \/ "failed" \in mishaps'
    BY DEF Disconnect
  <1>11. ASSUME news # <<>> PROVE mishaps' # {}
    <2>1. 1 \in DOMAIN news
      BY <1>11 DEF Types
    <2>2. news[1].kind \in mishaps'
      BY <2>1 DEF Disconnect
    <2>3. QED
      BY <2>2
  <1> DEFINE F(c) == IF Waiting(c) THEN [c EXCEPT !.at = "cut"] ELSE c
  <1>5. ASSUME NEW c \in Calls
        PROVE  /\ F(c) \in Calls /\ SameQuestion(F(c), c) /\ F(c).answer = c.answer
               /\ F(c).at = IF Waiting(c) THEN "cut" ELSE c.at
    BY DEF Calls, SameQuestion
  <1>6. calls' = [i \in 1 .. Len(calls) |-> F(calls[i])]
    BY <1>1 DEF Disconnect
  <1> HIDE DEF F
  <1>7. \A i \in 1 .. Len(calls) : calls[i] \in Calls /\ F(calls[i]) \in Calls
    BY <1>1, <1>5
  <1>8. calls' \in Seq(Calls) /\ DOMAIN calls' = DOMAIN calls
    BY <1>1, <1>6, <1>7
  <1>9. \A i \in DOMAIN calls :
          /\ SameQuestion(calls'[i], calls[i]) /\ calls'[i].answer = calls[i].answer
          /\ calls'[i].at = IF Waiting(calls[i]) THEN "cut" ELSE calls[i].at
    BY <1>1, <1>5, <1>6, <1>7
  <1>10. QED
    BY <1>2, <1>3, <1>4, <1>8, <1>9, <1>11

LEMMA ReconnectDoes ==
    ASSUME Types, Reconnect
    PROVE  /\ ~connected /\ connected' = TRUE /\ calls = <<>> /\ news' = news
           /\ \/ Turned(calls, calls', {}, FALSE, {})
              \/ Turned(calls, calls', {}, FALSE, {Refresh("shown")})
              \/ Turned(calls, calls', {}, FALSE, {Call("load", "listing")})
           /\ SameServer /\ SameList /\ listed' = listed /\ locked' = locked
           /\ lost' = FALSE /\ spent' = spent /\ mishaps' = mishaps
  <1>1. calls \in Seq(Calls)
    BY DEF Types
  <1>2. /\ ~connected /\ connected' = TRUE /\ calls = <<>> /\ news' = news
        /\ SameServer /\ SameList /\ listed' = listed /\ locked' = locked
        /\ lost' = FALSE /\ spent' = spent /\ mishaps' = mishaps
    BY DEF Reconnect, server, list, SameServer, SameList
  <1>3. Refresh("shown") \in Calls /\ Call("load", "listing") \in Calls
    BY FreshCalls
  <1>4. \A c : Append(calls, c) = <<c>>
    BY <1>2
  <1>5. /\ Turned(calls, calls, {}, FALSE, {})
        /\ \A c \in Calls : Turned(calls, Append(calls, c), {}, FALSE, {c})
    BY <1>1, TurnedKeeping, TurnedAdding
  <1>6. \/ calls' = calls
        \/ calls' = <<Refresh("shown")>>
        \/ calls' = <<Call("load", "listing")>>
    BY <1>2 DEF Reconnect
  <1>7. \/ Turned(calls, calls', {}, FALSE, {})
        \/ Turned(calls, calls', {}, FALSE, {Refresh("shown")})
        \/ Turned(calls, calls', {}, FALSE, {Call("load", "listing")})
    BY <1>3, <1>4, <1>5, <1>6
  <1>8. QED
    BY <1>2, <1>7

(* The dialogs, and what was written.                                      *)
LEMMA DialogDoes ==
    ASSUME Types, OpenDialog \/ Cancel \/ RunsOut
    PROVE  /\ SameServer /\ news' = news /\ SamePage /\ spent' \in Nat
           /\ mishaps \subseteq mishaps'
  BY DEF OpenDialog, Cancel, RunsOut, Spend, Types, server, list, SameServer, SameList, SamePage

LEMMA ApplyDoes ==
    ASSUME Types, NEW fn \in {"write", "note"}, Apply(fn)
    PROVE  /\ \E c \in Calls : /\ c = WriteCall(fn, selected) /\ CallOK(c) /\ ~c.mine
                              /\ c.fn = fn /\ c.at = "asked" /\ ~c.frees
                              /\ Turned(calls, calls', {}, FALSE, {c})
           /\ lost' = FALSE
           /\ SameServer /\ Quiet /\ SameList /\ listed' = listed /\ locked' = locked
           /\ spent' = spent /\ mishaps' = mishaps
  <1>1. calls \in Seq(Calls) /\ selected \in Dashboards \cup {None}
    BY DEF Types
  <1>2. PICK c : c = WriteCall(fn, selected)
    OBVIOUS
  <1>3. c \in Calls /\ CallOK(c) /\ ~c.mine /\ c.fn = fn /\ c.at = "asked" /\ ~c.frees
    BY <1>1, <1>2, FreshCalls
  <1>4. calls' = Append(calls, c)
    BY <1>2 DEF Apply, WriteCall
  <1>5. Turned(calls, calls', {}, FALSE, {c})
    BY <1>1, <1>3, <1>4, TurnedKeeping, TurnedAdding
  <1>6. /\ lost' = FALSE
        /\ SameServer /\ Quiet /\ SameList /\ listed' = listed /\ locked' = locked
        /\ spent' = spent /\ mishaps' = mishaps
    BY DEF Apply, server, list, SameServer, Quiet, SameList
  <1>7. QED
    BY <1>2, <1>3, <1>5, <1>6

LEMMA WrittenDoes ==
    ASSUME Types, NEW i \in DOMAIN calls, Written(i)
    PROVE  /\ Writes(calls[i]) /\ ~Waiting(calls[i]) /\ lost' \in BOOLEAN
           /\ \E c \in Calls : /\ c = Reloading(calls[i].dash) /\ CallOK(c) /\ ~c.mine
                              /\ c.fn = "refresh" /\ c.at = "listing" /\ ~c.frees
                              /\ Turned(calls, calls', {i}, FALSE, {c})
           /\ SameServer /\ Quiet /\ SameList /\ listed' = listed /\ locked' = locked
           /\ spent' = spent /\ mishaps' = mishaps
  <1>1. calls \in Seq(Calls) /\ lost \in BOOLEAN /\ calls[i] \in Calls
    BY DEF Types
  <1>2. PICK c : c = Reloading(calls[i].dash)
    OBVIOUS
  <1>3. calls[i].dash \in Dashboards \cup {None}
    BY <1>1 DEF Calls
  <1>4. c \in Calls /\ CallOK(c) /\ ~c.mine /\ c.fn = "refresh" /\ c.at = "listing" /\ ~c.frees
    BY <1>2, <1>3, FreshCalls
  <1>5. calls' = Append(RemoveAt(calls, i), c)
    BY <1>2 DEF Written, Reloading
  <1>6. Turned(calls, RemoveAt(calls, i), {i}, FALSE, {})
    BY <1>1, TurnedDropping
  <1>7. Turned(calls, calls', {i}, FALSE, {c})
    BY <1>1, <1>4, <1>5, <1>6, TurnedAdding
  <1>8. lost' \in BOOLEAN
    BY <1>1 DEF Written
  <1>9. /\ Writes(calls[i]) /\ ~Waiting(calls[i])
        /\ SameServer /\ Quiet /\ SameList /\ listed' = listed /\ locked' = locked
        /\ spent' = spent /\ mishaps' = mishaps
    BY DEF Written, server, list, SameServer, Quiet, SameList
  <1>10. QED
    BY <1>2, <1>4, <1>7, <1>8, <1>9

LEMMA RecordDoes ==
    ASSUME Types, NEW dash \in Dashboards, Record(dash)
    PROVE  /\ dash \notin Gone /\ forgetting = None /\ spent' \in Nat
           /\ \E new \in Entries : /\ new.dash = dash /\ new.id = Newest(dash) + 1
                                   /\ log' = log \cup {new}
           /\ Announce(Saved(dash))
           /\ generation' = generation /\ forgetting' = forgetting /\ SamePage
  <1>1. /\ dash \notin Gone /\ forgetting = None
        /\ Announce(Saved(dash))
        /\ generation' = generation /\ forgetting' = forgetting /\ SamePage
    BY DEF Record, list, SameList, SamePage, Saved
  <1>2. spent \in Nat /\ Numbered(log)
    BY DEF Types
  <1>3. spent' \in Nat
    BY <1>2 DEF Record, Spend
  <1> DEFINE new == [dash |-> dash, id |-> Newest(dash) + 1, era |-> 0,
                     at |-> Cardinality(Recorded) + spent']
  <1>4. Cardinality(Recorded) \in Nat /\ Newest(dash) \in Nat
    BY <1>2, RecordedAssumption, FS_CardinalityType, Counted, InTheLog
  <1>5. Cardinality(Recorded) + spent' \in Nat /\ Newest(dash) + 1 \in Nat \ {0}
    BY <1>3, <1>4
  <1>6. new \in Entries /\ new.dash = dash /\ new.id = Newest(dash) + 1
    BY <1>5 DEF Entries
  <1>7. log' = log \cup {new}
    BY DEF Record
  <1> HIDE DEF new
  <1>8. QED
    BY <1>1, <1>3, <1>6, <1>7

LEMMA ForgetBeginsDoes ==
    ASSUME Types, NEW dash \in Dashboards, ForgetBegins(dash)
    PROVE  /\ dash \in Gone /\ forgetting = None /\ Newest(dash) # 0 /\ forgetting' = dash
           /\ Announce(Begun(dash))
           /\ log' = log /\ generation' = generation /\ SamePage /\ spent' = spent
  <1>1. /\ dash \in Gone /\ forgetting = None /\ Rows(dash) # <<>> /\ forgetting' = dash
        /\ Announce(Begun(dash))
        /\ log' = log /\ generation' = generation /\ SamePage /\ spent' = spent
    BY DEF ForgetBegins, list, SameList, SamePage, Begun
  <1>2. Newest(dash) # 0
    <2>1. SUFFICES ASSUME Newest(dash) = 0 PROVE Rows(dash) = <<>>
      BY <1>1
    <2>2. QED
      BY <2>1 DEF Rows, Below
  <1>3. QED
    BY <1>1, <1>2

LEMMA ForgetEndsDoes ==
    ASSUME Types, NewsOK, ForgetEnds
    PROVE  /\ forgetting \in Gone /\ forgetting \in Dashboards /\ forgetting' = None
           /\ generation' = generation + 1
           /\ Numbered(log') /\ Newest(forgetting) # 0 /\ NewestIn(log', forgetting) = 0
           /\ \A dash \in Dashboards \ {forgetting} : NewestIn(log', dash) = NewestIn(log, dash)
           /\ Announce(Done(forgetting))
           /\ SamePage /\ spent' = spent
  <1>1. /\ forgetting \in Gone /\ forgetting \in Dashboards /\ generation \in Nat
        /\ Numbered(log)
    BY PanelAssumption DEF Types, ForgetEnds
  <1>2. /\ forgetting' = None /\ generation' = generation + 1
        /\ Announce(Done(forgetting))
        /\ SamePage /\ spent' = spent
    BY DEF ForgetEnds, list, SameList, SamePage, Done
  <1>3. Newest(forgetting) # 0
    BY DEF NewsOK, ForgetEnds
  <1>4. PICK moment : moment = Revision(forgetting, 1).at
    OBVIOUS
  <1>5. log' = Without(log, forgetting, moment, generation + 1)
    BY <1>4 DEF ForgetEnds, Rewritten, Without
  <1>6. /\ Numbered(log') /\ NewestIn(log', forgetting) = 0
        /\ \A dash \in Dashboards \ {forgetting} : NewestIn(log', dash) = NewestIn(log, dash)
    <2>1. PICK h, g, gone, era : /\ h = log /\ g = log' /\ gone = forgetting
                                 /\ era = generation + 1
      OBVIOUS
    <2>2. era \in Nat /\ gone \in Dashboards /\ Numbered(h)
          /\ g = Without(h, gone, moment, era)
      BY <1>1, <1>5, <2>1
    <2>3. /\ Numbered(g) /\ NewestIn(g, gone) = 0
          /\ \A dash \in Dashboards \ {gone} : NewestIn(g, dash) = NewestIn(h, dash)
      BY <2>2, OneLess
    <2>4. QED
      BY <2>1, <2>3
  <1>7. QED
    BY <1>1, <1>2, <1>3, <1>6

--------------------------------------------------------------------------------
(* What becomes of the calls *)

Alike(c, d) ==
    /\ c.fn = d.fn /\ c.at = d.at /\ c.dash = d.dash /\ c.before = d.before
    /\ c.since = d.since /\ c.guarded = d.guarded /\ c.frees = d.frees
    /\ c.answer = d.answer

Carried(c, d, claimed) ==
    Alike(c, d) /\ IF claimed THEN ~c.mine ELSE c.mine = d.mine

Went(old, new, gone, claimed, fresh) ==
    /\ \A j \in DOMAIN new :
         \/ new[j] \in fresh
         \/ \E k \in DOMAIN old \ gone : Carried(new[j], old[k], claimed)
    /\ \A k \in DOMAIN old \ gone : \E j \in DOMAIN new : Carried(new[j], old[k], claimed)
    /\ \A c \in fresh : \E j \in DOMAIN new : new[j] = c
    /\ \A i, j \in DOMAIN new :
         \/ i = j
         \/ new[i] \in fresh /\ \E l \in DOMAIN old \ gone : Carried(new[j], old[l], claimed)
         \/ new[j] \in fresh /\ \E k \in DOMAIN old \ gone : Carried(new[i], old[k], claimed)
         \/ \E k, l \in DOMAIN old \ gone :
              k # l /\ Carried(new[i], old[k], claimed) /\ Carried(new[j], old[l], claimed)

LEMMA CarriedOn ==
    ASSUME NEW old \in Seq(Calls), NEW new, NEW gone, NEW claimed \in BOOLEAN, NEW fresh,
           Turned(old, new, gone, claimed, fresh)
    PROVE  Went(old, new, gone, claimed, fresh)
  <1>1. ASSUME NEW c \in Calls PROVE Carried(Kept(c, claimed), c, claimed)
    <2>1. CASE claimed
      BY <2>1, UnclaimedIs DEF Kept, Carried, Alike
    <2>2. CASE ~claimed
      BY <2>2 DEF Kept, Carried, Alike
    <2>3. QED
      BY <2>1, <2>2
  <1>2. \A k \in DOMAIN old : Carried(Kept(old[k], claimed), old[k], claimed)
    <2>1. \A k \in DOMAIN old : old[k] \in Calls
      OBVIOUS
    <2>2. QED
      BY <1>1, <2>1
  <1>3. QED
    BY <1>2 DEF Turned, Went

(* What was announced, or not heard.                                       *)
LEMMA Announced ==
    ASSUME news \in Seq(Events), NEW e \in Events, Announce(e)
    PROVE  /\ news' \in Seq(Events) /\ mishaps \subseteq mishaps'
           /\ \/ /\ connected /\ news' = Append(news, e) /\ mishaps' = mishaps
              \/ /\ ~connected /\ news' = news /\ mishaps' # {}
  <1>1. CASE connected
    <2>1. news' = Append(news, e) /\ mishaps' = mishaps
      BY <1>1 DEF Announce
    <2>2. QED
      BY <1>1, <2>1
  <1>2. CASE ~connected
    <2>1. news' = news /\ mishaps' = mishaps \cup {e.kind}
      BY <1>2 DEF Announce
    <2>2. QED
      BY <1>2, <2>1
  <1>3. QED
    BY <1>1, <1>2

LEMMA SavedIs ==
    \A dash \in Dashboards :
      /\ Saved(dash) \in Events /\ Saved(dash).kind = "recorded" /\ Saved(dash).dash = dash
      /\ Begun(dash) \in Events /\ Begun(dash).kind = "rewriting" /\ Begun(dash).dash = dash
      /\ Done(dash) \in Events /\ Done(dash).kind = "done" /\ Done(dash).dash = dash
  BY DEF Saved, Begun, Done, Events

LEMMA EventIs ==
    ASSUME NEW e \in Events
    PROVE  /\ e.dash \in Dashboards
           /\ e.kind = "recorded" => e = Saved(e.dash)
           /\ e.kind = "rewriting" => e = Begun(e.dash)
           /\ e.kind = "done" => e = Done(e.dash)
           /\ e.kind \in {"recorded", "rewriting", "done"}
  BY DEF Saved, Begun, Done, Events

(* What an answer adds to what was asked.                                  *)
LEMMA Answered ==
    ASSUME Types, NEW i \in DOMAIN calls, calls[i].at = "asked",
           calls[i].fn \in {"select", "older", "refresh"},
           NEW c \in Calls, SameQuestion(c, calls[i]), c.at = "answered",
           c.answer = HistoryPage(calls[i].dash, calls[i].before, calls[i].since)
    PROVE  /\ CallOK(c)
           /\ StillThere(c.answer.rows) /\ c.answer.generation = generation
           /\ c.answer.next # None => c.answer.next \in log
           /\ (c.before = None \/ c.answer.restarted) /\ Newest(c.dash) # 0 =>
                c.answer.rows # <<>> /\ c.answer.rows[1] = Revision(c.dash, Newest(c.dash))
           /\ c.fn = "older" /\ ~c.answer.restarted =>
                c.answer.rows # <<>> \/ ~Known(c.before, c.since)
  <1>1. calls[i] \in Calls /\ CallOK(calls[i]) /\ Numbered(log) /\ generation \in Nat
    BY DEF Types
  <1>2. PICK a : a = c.answer
    OBVIOUS
  <1>3. /\ c.fn = calls[i].fn /\ c.mine = calls[i].mine /\ c.dash = calls[i].dash
        /\ c.before = calls[i].before /\ c.since = calls[i].since
    BY DEF SameQuestion
  <1>4. PICK dash, before, since : dash = c.dash /\ before = c.before /\ since = c.since
    OBVIOUS
  <1>5. /\ dash \in Dashboards /\ before \in Entries \cup {None} /\ since \in Nat \cup {None}
        /\ (before # None => before.dash = dash)
    <2>1. before \in Entries \cup {None} /\ since \in Nat \cup {None}
      BY <1>1, <1>3, <1>4 DEF Calls
    <2>2. dash \in Dashboards /\ (before # None => before.dash = dash)
      BY <1>1, <1>3, <1>4 DEF CallOK
    <2>3. QED
      BY <2>1, <2>2
  <1>6. a = HistoryPage(dash, before, since)
    BY <1>2, <1>3, <1>4
  <1>7. Answers(a, dash, before, since)
    BY <1>1, <1>5, <1>6, HistoryAnswers
  <1>8. c.fn = "older" => before # None /\ before.id > 1
    BY <1>1, <1>3, <1>4, NoneAssumption DEF CallOK
  <1>9. CallOK(c)
    BY <1>1, <1>2, <1>3, <1>4, <1>7, <1>8 DEF CallOK, Answers
  <1>10. QED
    BY <1>2, <1>4, <1>7, <1>8, <1>9 DEF Answers

--------------------------------------------------------------------------------
(* The types *)

LEMMA InitTypes ==
    ASSUME Init
    PROVE  Types
  <1>1. /\ Call("load", "listing") \in Calls /\ CallOK(Call("load", "listing"))
    BY FreshCalls
  <1>2. calls \in Seq(Calls) /\ \A i \in DOMAIN calls : CallOK(calls[i])
    BY <1>1 DEF Init
  <1>3. Numbered(log)
    BY RecordedIsNumbered DEF Init
  <1>4. news \in Seq(Events) /\ shown \in Seq(Entries)
    BY DEF Init
  <1>5. /\ connected \in BOOLEAN /\ listed \in BOOLEAN /\ versionsLoaded \in BOOLEAN
        /\ lost \in BOOLEAN
    BY DEF Init
  <1>6. QED
    BY <1>2, <1>3, <1>4, <1>5 DEF Types, Init

LEMMA ShownTypes ==
    ASSUME Types, NEW i \in DOMAIN calls, calls[i].at = "answered",
           calls[i].fn \in {"select", "older", "refresh"}
    PROVE  /\ calls[i].answer \in Pages /\ calls[i].answer.rows \in Seq(Entries)
           /\ calls[i].answer.next \in Entries \cup {None}
           /\ calls[i].answer.generation \in Nat /\ calls[i].answer.restarted \in BOOLEAN
           /\ IsPage(calls[i].answer, calls[i].dash) /\ calls[i].dash \in Dashboards
           /\ (shown \o calls[i].answer.rows) \in Seq(Entries)
  <1>1. CallOK(calls[i]) /\ shown \in Seq(Entries)
    BY DEF Types
  <1>2. IsPage(calls[i].answer, calls[i].dash) /\ calls[i].dash \in Dashboards
    BY <1>1 DEF CallOK
  <1>3. calls[i].answer \in Pages
    BY <1>2 DEF IsPage
  <1>4. /\ calls[i].answer.rows \in Seq(Entries)
        /\ calls[i].answer.next \in Entries \cup {None}
        /\ calls[i].answer.generation \in Nat /\ calls[i].answer.restarted \in BOOLEAN
    BY <1>3 DEF Pages
  <1>5. QED
    BY <1>1, <1>2, <1>3, <1>4, ConcatProperties

(* A step that turns the calls.                                            *)
LEMMA CallsTypes ==
    ASSUME Types, NEW gone, NEW claimed \in BOOLEAN, NEW fresh,
           Turned(calls, calls', gone, claimed, fresh), \A c \in fresh : CallOK(c)
    PROVE  calls' \in Seq(Calls) /\ \A j \in DOMAIN calls' : CallOK(calls'[j])
  <1>1. calls \in Seq(Calls) /\ \A i \in DOMAIN calls : CallOK(calls[i])
    BY DEF Types
  <1>2. PICK old, new : old = calls /\ new = calls'
    OBVIOUS
  <1>3. new \in Seq(Calls) /\ \A j \in DOMAIN new : CallOK(new[j])
    BY <1>1, <1>2, TurnedOK
  <1>4. QED
    BY <1>2, <1>3

LEMMA FewerCalls ==
    ASSUME Types, NEW gone, NEW claimed \in BOOLEAN, Turned(calls, calls', gone, claimed, {})
    PROVE  calls' \in Seq(Calls) /\ \A j \in DOMAIN calls' : CallOK(calls'[j])
  <1>1. \A c \in {} : CallOK(c)
    OBVIOUS
  <1>2. QED
    BY <1>1, CallsTypes

LEMMA OneMoreCall ==
    ASSUME Types, NEW gone, NEW claimed \in BOOLEAN, NEW c, CallOK(c),
           Turned(calls, calls', gone, claimed, {c})
    PROVE  calls' \in Seq(Calls) /\ \A j \in DOMAIN calls' : CallOK(calls'[j])
  BY CallsTypes

LEMMA SelectTypes ==
    ASSUME Types, NEW gone, NEW dash \in Dashboards, NEW frees \in BOOLEAN,
           Turned(calls, calls', gone, TRUE, {SelectCall(dash, frees)}), Selecting(dash),
           SameServer, Quiet, listed' \in BOOLEAN, locked' = locked, spent' \in Nat
    PROVE  Types'
  <1>1. CallOK(SelectCall(dash, frees))
    BY FreshCalls
  <1>2. calls' \in Seq(Calls) /\ \A j \in DOMAIN calls' : CallOK(calls'[j])
    BY <1>1, CallsTypes
  <1>3. QED
    BY <1>2 DEF Types, Selecting, SameServer, Quiet

LEMMA TypesPick ==
    ASSUME Types, NEW dash \in Dashboards, Pick(dash)
    PROVE  Types'
  <1>1. listed' \in BOOLEAN
    BY PickDoes DEF Types
  <1>2. QED
    BY <1>1, PickDoes, SelectTypes

LEMMA TypesSelected ==
    ASSUME Types, NEW i \in DOMAIN calls, Selected(i)
    PROVE  Types'
  <1>1. calls' \in Seq(Calls) /\ \A j \in DOMAIN calls' : CallOK(calls'[j])
    BY SelectedDoes, FewerCalls
  <1>2. /\ shown' \in Seq(Entries) /\ cursor' \in Entries \cup {None}
        /\ cursorGeneration' \in Nat \cup {None} /\ versionsLoaded' \in BOOLEAN
    <2>1. CASE ~calls[i].mine
      <3>1. SameList
        BY <2>1, SelectedDoes
      <3>2. QED
        BY <3>1 DEF Types, SameList
    <2>2. CASE calls[i].mine /\ Failed(calls[i])
      <3>1. /\ shown' = <<>> /\ cursor' = None /\ cursorGeneration' = None
            /\ versionsLoaded' = TRUE
        BY <2>2, SelectedDoes
      <3>2. QED
        BY <3>1
    <2>3. CASE calls[i].mine /\ ~Failed(calls[i])
      <3>1. /\ shown' = calls[i].answer.rows /\ cursor' = calls[i].answer.next
            /\ cursorGeneration' = calls[i].answer.generation
            /\ calls[i].fn = "select" /\ ~Waiting(calls[i])
        BY <2>3, SelectedDoes
      <3>2. versionsLoaded' = TRUE
        BY <2>3, SelectedDoes
      <3>3. calls[i] \in Calls /\ CallOK(calls[i])
        BY DEF Types
      <3>4. calls[i].at = "answered"
        BY <2>3, <3>1, <3>3 DEF CallOK, Calls, Waiting, Failed
      <3>5. QED
        BY <3>1, <3>2, <3>4, ShownTypes
    <2>4. QED
      BY <2>1, <2>2, <2>3
  <1>3. locked' \in Locks \cup {None} /\ lost' \in BOOLEAN
    BY SelectedDoes DEF Types, Unlocked
  <1>4. QED
    BY <1>1, <1>2, <1>3, SelectedDoes DEF Types, SameServer, Quiet

LEMMA TypesLoaded ==
    ASSUME Types, NEW i \in DOMAIN calls, Loaded(i)
    PROVE  Types'
  <1>1. /\ SameServer /\ Quiet /\ spent' = spent /\ lost' \in BOOLEAN /\ listed' \in BOOLEAN
    BY LoadedDoes
  <1>2. CASE /\ Turned(calls, calls', {i}, FALSE, {})
             /\ SameList /\ locked' = Unlocked(calls[i])
    <2>1. calls' \in Seq(Calls) /\ \A j \in DOMAIN calls' : CallOK(calls'[j])
      BY <1>2, FewerCalls
    <2>2. locked' \in Locks \cup {None}
      BY <1>2 DEF Types, Unlocked
    <2>3. QED
      BY <1>1, <1>2, <2>1, <2>2 DEF Types, SameServer, Quiet, SameList
  <1>3. CASE /\ locked' = locked
             /\ \E first \in Dashboards :
                  /\ Turned(calls, calls', {i}, TRUE, {SelectCall(first, calls[i].frees)})
                  /\ Selecting(first)
    <2>1. spent' \in Nat /\ calls[i] \in Calls
      BY <1>1 DEF Types
    <2>2. calls[i].frees \in BOOLEAN
      BY <2>1 DEF Calls
    <2>3. QED
      BY <1>1, <1>3, <2>1, <2>2, SelectTypes
  <1>4. QED
    BY <1>2, <1>3, LoadedDoes

LEMMA TypesLoadOlder ==
    ASSUME Types, ListOK, LoadOlder
    PROVE  Types'
  <1>1. cursor.dash = selected /\ cursor.id > 1
    <2>1. /\ shown # <<>> /\ cursor = Last(shown) /\ cursor.id > 1 /\ RowsOfSelected
          /\ shown \in Seq(Entries)
      BY LoadOlderDoes DEF ListOK, Types
    <2>2. Len(shown) \in DOMAIN shown /\ Last(shown) = shown[Len(shown)]
      BY <2>1 DEF Last
    <2>3. QED
      BY <2>1, <2>2 DEF RowsOfSelected
  <1>2. CallOK(OlderCall(selected, cursor, cursorGeneration))
    <2>1. /\ selected \in Dashboards /\ cursor \in Entries
          /\ cursorGeneration \in Nat \cup {None}
      BY LoadOlderDoes DEF Types
    <2>2. QED
      BY <1>1, <2>1, FreshCalls
  <1>3. Turned(calls, calls', {}, TRUE, {OlderCall(selected, cursor, cursorGeneration)})
    BY LoadOlderDoes
  <1>4. calls' \in Seq(Calls) /\ \A j \in DOMAIN calls' : CallOK(calls'[j])
    BY <1>2, <1>3, CallsTypes
  <1>5. lost' \in BOOLEAN
    BY LoadOlderDoes
  <1>6. QED
    BY <1>4, <1>5, LoadOlderDoes DEF Types, SameServer, Quiet, SameList

LEMMA TypesGotOlder ==
    ASSUME Types, NEW i \in DOMAIN calls, GotOlder(i)
    PROVE  Types'
  <1>1. calls' \in Seq(Calls) /\ \A j \in DOMAIN calls' : CallOK(calls'[j])
    BY GotOlderDoes, FewerCalls
  <1>2. /\ shown' \in Seq(Entries) /\ cursor' \in Entries \cup {None}
        /\ cursorGeneration' \in Nat \cup {None}
    <2>1. CASE ~(calls[i].mine /\ calls[i].at = "answered")
      BY <2>1, GotOlderDoes DEF Types
    <2>2. CASE calls[i].mine /\ calls[i].at = "answered"
      BY <2>2, GotOlderDoes, ShownTypes DEF Continued
    <2>3. QED
      BY <2>1, <2>2
  <1>3. lost' \in BOOLEAN
    BY GotOlderDoes
  <1>4. QED
    BY <1>1, <1>2, <1>3, GotOlderDoes DEF Types, SameServer, Quiet

(* A step that changes nothing but the calls and how much was spent.       *)
LEMMA TypesOfCalls ==
    ASSUME Types, calls' \in Seq(Calls), \A j \in DOMAIN calls' : CallOK(calls'[j]),
           SameServer, SameList, news' \in Seq(Events), connected' \in BOOLEAN,
           listed' = listed, lost' \in BOOLEAN, locked' \in Locks \cup {None}, spent' \in Nat
    PROVE  Types'
  BY DEF Types, SameServer, SameList

LEMMA TypesAnswer ==
    ASSUME Types, NEW i \in DOMAIN calls, Answer(i)
    PROVE  Types'
  <1>1. PICK c \in Calls :
          /\ Turned(calls, calls', {i}, FALSE, {c}) /\ SameQuestion(c, calls[i])
          /\ \/ /\ calls[i].at = "listing" /\ c.at = "listed"
                /\ c.answer = {r.dash : r \in log} /\ c.answer \in SUBSET Dashboards
             \/ /\ calls[i].at = "asked" /\ c.at = "answered"
                /\ calls[i].fn \in {"forget", "write", "note"}
                /\ calls[i].fn = "forget" => Rows(calls[i].dash) = <<>>
             \/ /\ calls[i].at = "asked" /\ c.at = "answered"
                /\ calls[i].fn \in {"select", "older", "refresh"}
                /\ c.answer = HistoryPage(calls[i].dash, calls[i].before, calls[i].since)
                /\ IsPage(c.answer, calls[i].dash)
    BY AnswerDoes
  <1>2. CallOK(calls[i])
    BY DEF Types
  <1>3. CallOK(c)
    <2>1. CASE /\ calls[i].at = "listing" /\ c.at = "listed"
               /\ c.answer \in SUBSET Dashboards
      BY <1>1, <1>2, <2>1 DEF CallOK, SameQuestion
    <2>2. CASE /\ calls[i].at = "asked" /\ c.at = "answered"
               /\ calls[i].fn \in {"forget", "write", "note"}
      BY <1>1, <1>2, <2>2 DEF CallOK, SameQuestion
    <2>3. CASE /\ calls[i].at = "asked" /\ c.at = "answered"
               /\ calls[i].fn \in {"select", "older", "refresh"}
               /\ c.answer = HistoryPage(calls[i].dash, calls[i].before, calls[i].since)
      BY <1>1, <2>3, Answered
    <2>4. QED
      BY <1>1, <2>1, <2>2, <2>3
  <1>4. calls' \in Seq(Calls) /\ \A j \in DOMAIN calls' : CallOK(calls'[j])
    BY <1>1, <1>3, CallsTypes
  <1>5. /\ news' \in Seq(Events) /\ connected' \in BOOLEAN /\ lost' \in BOOLEAN
        /\ locked' \in Locks \cup {None} /\ spent' \in Nat
    BY AnswerDoes DEF Types, Quiet
  <1>6. QED
    BY <1>4, <1>5, AnswerDoes, TypesOfCalls

LEMMA TypesFail ==
    ASSUME Types, NEW i \in DOMAIN calls, Fail(i)
    PROVE  Types'
  <1>1. PICK c \in Calls :
          /\ Turned(calls, calls', {i}, FALSE, {c}) /\ SameQuestion(c, calls[i])
          /\ c.at \in {"refused", "cut"}
    BY FailDoes
  <1>2. CallOK(calls[i]) /\ Waiting(calls[i])
    BY FailDoes DEF Types
  <1>3. CallOK(c)
    BY <1>1, <1>2 DEF CallOK, SameQuestion, Waiting
  <1>4. calls' \in Seq(Calls) /\ \A j \in DOMAIN calls' : CallOK(calls'[j])
    BY <1>1, <1>3, CallsTypes
  <1>5. /\ news' \in Seq(Events) /\ connected' \in BOOLEAN /\ lost' \in BOOLEAN
        /\ locked' \in Locks \cup {None}
    BY FailDoes DEF Types, Quiet
  <1>6. QED
    BY <1>4, <1>5, FailDoes, TypesOfCalls

LEMMA TypesRefreshed ==
    ASSUME Types, NEW i \in DOMAIN calls, Refreshed(i)
    PROVE  Types'
  <1>1. calls' \in Seq(Calls) /\ \A j \in DOMAIN calls' : CallOK(calls'[j])
    BY RefreshedDoes, FewerCalls, OneMoreCall
  <1>2. shown' \in Seq(Entries) /\ cursor' \in Entries \cup {None}
    <2>1. CASE SameList
      BY <2>1 DEF SameList, Types
    <2>2. CASE calls[i].at = "answered" /\ calls[i].mine
      <3>1. shown' = calls[i].answer.rows /\ cursor' = calls[i].answer.next
        BY <2>2, RefreshedDoes DEF Failed
      <3>2. calls[i].fn = "refresh"
        BY RefreshedDoes
      <3>3. QED
        BY <2>2, <3>1, <3>2, ShownTypes
    <2>3. CASE calls[i].at = "answered" /\ ~calls[i].mine
      <3>1. shown' = shown /\ cursor' = cursor
        BY <2>3, RefreshedDoes DEF Failed
      <3>2. QED
        BY <3>1 DEF Types
    <2>4. QED
      BY <2>1, <2>2, <2>3, RefreshedDoes
  <1>3. lost' \in BOOLEAN /\ listed' \in BOOLEAN
    BY RefreshedDoes
  <1>4. QED
    BY <1>1, <1>2, <1>3, RefreshedDoes DEF Types, SameServer, Quiet

LEMMA TypesReload ==
    ASSUME Types, Reload
    PROVE  Types'
  <1>1. calls' \in Seq(Calls) /\ \A j \in DOMAIN calls' : CallOK(calls'[j])
    BY ReloadDoes, FreshCalls, OneMoreCall
  <1>2. /\ news' \in Seq(Events) /\ connected' \in BOOLEAN /\ lost' \in BOOLEAN
        /\ locked' \in Locks \cup {None}
    BY ReloadDoes DEF Types, Quiet
  <1>3. QED
    BY <1>1, <1>2, ReloadDoes, TypesOfCalls

LEMMA TypesForget ==
    ASSUME Types, NEW dash \in Dashboards, Forget(dash)
    PROVE  Types'
  <1>1. calls' \in Seq(Calls) /\ \A j \in DOMAIN calls' : CallOK(calls'[j])
    BY ForgetDoes, FreshCalls, OneMoreCall
  <1>2. /\ news' \in Seq(Events) /\ connected' \in BOOLEAN /\ lost' \in BOOLEAN
        /\ spent' \in Nat
    BY ForgetDoes DEF Types, Quiet
  <1>3. locked' \in Locks \cup {None}
    <2>1. [key |-> dash, borrowed |-> FALSE] \in Locks
      BY DEF Locks
    <2>2. QED
      BY <2>1, ForgetDoes
  <1>4. QED
    BY <1>1, <1>2, <1>3, ForgetDoes, TypesOfCalls

LEMMA TypesForgotten ==
    ASSUME Types, NEW i \in DOMAIN calls, Forgotten(i)
    PROVE  Types'
  <1>1. calls' \in Seq(Calls) /\ \A j \in DOMAIN calls' : CallOK(calls'[j])
    <2>1. PICK claimed, gone : claimed \in BOOLEAN /\ claimed = FALSE /\ gone = {i}
      OBVIOUS
    <2>2. CASE Turned(calls, calls', {i}, FALSE, {Freeing})
      <3>1. PICK c : c = Freeing /\ CallOK(c)
        BY FreshCalls
      <3>2. Turned(calls, calls', gone, claimed, {c})
        BY <2>1, <2>2, <3>1
      <3>3. QED
        BY <2>1, <3>1, <3>2, OneMoreCall
    <2>3. CASE Turned(calls, calls', {i}, FALSE, {})
      <3>1. Turned(calls, calls', gone, claimed, {})
        BY <2>1, <2>3
      <3>2. QED
        BY <2>1, <3>1, FewerCalls
    <2>4. QED
      BY <2>2, <2>3, ForgottenDoes
  <1>2. shown' \in Seq(Entries)
    <2>1. CASE shown' = <<>>
      BY <2>1
    <2>2. CASE shown' = shown
      BY <2>2 DEF Types
    <2>3. QED
      BY <2>1, <2>2, ForgottenDoes
  <1>3. lost' \in BOOLEAN /\ locked' \in Locks \cup {None}
        /\ selected' \in Dashboards \cup {None}
    BY ForgottenDoes DEF Types
  <1>4. QED
    BY <1>1, <1>2, <1>3, ForgottenDoes DEF Types, SameServer, Quiet

LEMMA TypesDialog ==
    ASSUME Types, OpenDialog \/ Cancel \/ RunsOut
    PROVE  Types'
  <1>1. PICK s : s = spent'
    OBVIOUS
  <1>2. QED
    BY DialogDoes DEF Types, SameServer, SamePage, SameList

LEMMA TypesApply ==
    ASSUME Types, NEW fn \in {"write", "note"}, Apply(fn)
    PROVE  Types'
  <1>1. calls' \in Seq(Calls) /\ \A j \in DOMAIN calls' : CallOK(calls'[j])
    BY ApplyDoes, OneMoreCall
  <1>2. /\ news' \in Seq(Events) /\ connected' \in BOOLEAN /\ lost' \in BOOLEAN
        /\ locked' \in Locks \cup {None} /\ spent' \in Nat
    BY ApplyDoes DEF Types, Quiet
  <1>3. QED
    BY <1>1, <1>2, ApplyDoes, TypesOfCalls

LEMMA TypesWritten ==
    ASSUME Types, NEW i \in DOMAIN calls, Written(i)
    PROVE  Types'
  <1>1. calls' \in Seq(Calls) /\ \A j \in DOMAIN calls' : CallOK(calls'[j])
    BY WrittenDoes, OneMoreCall
  <1>2. /\ news' \in Seq(Events) /\ connected' \in BOOLEAN /\ lost' \in BOOLEAN
        /\ locked' \in Locks \cup {None} /\ spent' \in Nat
    BY WrittenDoes DEF Types, Quiet
  <1>3. QED
    BY <1>1, <1>2, WrittenDoes, TypesOfCalls

LEMMA TailTypes ==
    ASSUME news \in Seq(Events), news # <<>>
    PROVE  /\ Tail(news) \in Seq(Events) /\ news[1] \in Events
           /\ DOMAIN news = 1 .. Len(news) /\ Len(news) \in Nat \ {0}
           /\ DOMAIN Tail(news) = 1 .. Len(news) - 1
           /\ \A i \in 1 .. Len(news) - 1 : Tail(news)[i] = news[i + 1]
  OBVIOUS

LEMMA TypesHearRecorded ==
    ASSUME Types, HearRecorded
    PROVE  Types'
  <1>1. CallOK(Refresh("quiet"))
    BY FreshCalls
  <1>2. calls' \in Seq(Calls) /\ \A j \in DOMAIN calls' : CallOK(calls'[j])
    BY <1>1, HearRecordedDoes, FewerCalls, OneMoreCall
  <1>3. /\ news' \in Seq(Events) /\ connected' \in BOOLEAN /\ lost' \in BOOLEAN
        /\ locked' \in Locks \cup {None} /\ spent' \in Nat
    BY HearRecordedDoes, TailTypes DEF Types
  <1>4. QED
    BY <1>2, <1>3, HearRecordedDoes, TypesOfCalls

LEMMA TypesHearForgetting ==
    ASSUME Types, HearForgetting
    PROVE  Types'
  <1>1. CallOK(Freeing)
    BY FreshCalls
  <1>2. calls' \in Seq(Calls) /\ \A j \in DOMAIN calls' : CallOK(calls'[j])
    BY <1>1, HearForgettingDoes, FewerCalls, OneMoreCall
  <1>3. news \in Seq(Events) /\ locked \in Locks \cup {None} /\ lost \in BOOLEAN
    BY DEF Types
  <1>4. news' \in Seq(Events) /\ news[1] \in Events
    BY <1>3, HearForgettingDoes, TailTypes
  <1>5. [key |-> news[1].dash, borrowed |-> TRUE] \in Locks
    BY <1>4, EventIs DEF Locks
  <1>6. locked' \in Locks \cup {None}
    BY <1>3, <1>5, HearForgettingDoes
  <1>7. lost' \in BOOLEAN
    BY <1>3, HearForgettingDoes
  <1>8. connected' \in BOOLEAN /\ spent' \in Nat
    BY HearForgettingDoes DEF Types
  <1>9. QED
    BY <1>2, <1>4, <1>6, <1>7, <1>8, HearForgettingDoes, TypesOfCalls

LEMMA TypesDisconnect ==
    ASSUME Types, Disconnect
    PROVE  Types'
  <1>1. \A i \in DOMAIN calls : CallOK(calls[i])
    BY DEF Types
  <1>2. ASSUME NEW j \in DOMAIN calls' PROVE CallOK(calls'[j])
    <2>1. /\ j \in DOMAIN calls /\ SameQuestion(calls'[j], calls[j])
          /\ calls'[j].answer = calls[j].answer
          /\ calls'[j].at = IF Waiting(calls[j]) THEN "cut" ELSE calls[j].at
      BY DisconnectDoes
    <2>2. PICK c, d : c = calls'[j] /\ d = calls[j]
      OBVIOUS
    <2>3. /\ SameQuestion(c, d) /\ c.answer = d.answer /\ CallOK(d)
          /\ c.at = IF d.at \in {"listing", "asked"} THEN "cut" ELSE d.at
      BY <1>1, <2>1, <2>2 DEF Waiting
    <2>4. CallOK(c)
      <3>1. CASE d.at \in {"listing", "asked"}
        BY <2>3, <3>1 DEF CallOK, SameQuestion
      <3>2. CASE d.at \notin {"listing", "asked"}
        BY <2>3, <3>2 DEF CallOK, SameQuestion
      <3>3. QED
        BY <3>1, <3>2
    <2>5. QED
      BY <2>2, <2>4
  <1>3. news' \in Seq(Events) /\ connected' \in BOOLEAN
    BY DisconnectDoes
  <1>4. lost' \in BOOLEAN /\ locked' \in Locks \cup {None}
    BY DisconnectDoes DEF Types
  <1>5. QED
    BY <1>2, <1>3, <1>4, DisconnectDoes, TypesOfCalls

LEMMA TypesReconnect ==
    ASSUME Types, Reconnect
    PROVE  Types'
  <1>1. CallOK(Refresh("shown")) /\ CallOK(Call("load", "listing"))
    BY FreshCalls
  <1>2. calls' \in Seq(Calls) /\ \A j \in DOMAIN calls' : CallOK(calls'[j])
    BY <1>1, ReconnectDoes, FewerCalls, OneMoreCall
  <1>3. connected' \in BOOLEAN /\ lost' \in BOOLEAN
    BY ReconnectDoes
  <1>4. news' \in Seq(Events) /\ locked' \in Locks \cup {None} /\ spent' \in Nat
    BY ReconnectDoes DEF Types
  <1>5. QED
    BY <1>2, <1>3, <1>4, ReconnectDoes, TypesOfCalls

LEMMA TypesServer ==
    ASSUME Types, Numbered(log'), generation' \in Nat, forgetting' \in Gone \cup {None},
           news' \in Seq(Events), SamePage, spent' \in Nat
    PROVE  Types'
  BY DEF Types, SamePage, SameList

LEMMA TypesRecord ==
    ASSUME Types, NEW dash \in Dashboards, Record(dash)
    PROVE  Types'
  <1>1. PICK new \in Entries : /\ new.dash = dash /\ new.id = Newest(dash) + 1
                               /\ log' = log \cup {new}
    BY RecordDoes
  <1>2. Numbered(log) /\ new.id = NewestIn(log, new.dash) + 1
    BY <1>1, InTheLog DEF Types
  <1>3. PICK h : h = log
    OBVIOUS
  <1>4. Numbered(h \cup {new})
    BY <1>2, <1>3, OneMore
  <1>5. news' \in Seq(Events)
    BY RecordDoes, Announced, SavedIs DEF Types
  <1>6. generation' \in Nat /\ forgetting' \in Gone \cup {None}
    BY RecordDoes DEF Types
  <1>7. QED
    BY <1>1, <1>3, <1>4, <1>5, <1>6, RecordDoes, TypesServer

LEMMA TypesForgetBegins ==
    ASSUME Types, NEW dash \in Dashboards, ForgetBegins(dash)
    PROVE  Types'
  <1>1. news' \in Seq(Events)
    BY ForgetBeginsDoes, Announced, SavedIs DEF Types
  <1>2. /\ Numbered(log') /\ generation' \in Nat /\ forgetting' \in Gone \cup {None}
        /\ spent' \in Nat
    BY ForgetBeginsDoes DEF Types
  <1>3. QED
    BY <1>1, <1>2, ForgetBeginsDoes, TypesServer

LEMMA TypesForgetEnds ==
    ASSUME Types, NewsOK, ForgetEnds
    PROVE  Types'
  <1>1. news' \in Seq(Events)
    BY ForgetEndsDoes, Announced, SavedIs DEF Types
  <1>2. /\ Numbered(log') /\ generation' \in Nat /\ forgetting' \in Gone \cup {None}
        /\ spent' \in Nat
    BY ForgetEndsDoes DEF Types
  <1>3. QED
    BY <1>1, <1>2, ForgetEndsDoes, TypesServer

--------------------------------------------------------------------------------
(* Who holds the ticket of the list afterwards *)

SameHolder ==
    /\ \A j \in DOMAIN calls' : calls'[j].mine =>
         \E k \in DOMAIN calls : calls[k].mine /\ SameQuestion(calls'[j], calls[k])
    /\ \A k \in DOMAIN calls : calls[k].mine =>
         \E j \in DOMAIN calls' : calls'[j].mine /\ SameQuestion(calls'[j], calls[k])

HolderKept ==
    /\ SameHolder
    /\ \A j \in DOMAIN calls' : calls'[j].mine =>
         \E k \in DOMAIN calls : calls[k].mine /\ Alike(calls'[j], calls[k])

NoHolder == \A j \in DOMAIN calls' : ~calls'[j].mine

OnlyHolder(c) ==
    /\ \A j \in DOMAIN calls' : calls'[j].mine => calls'[j] = c
    /\ \E j \in DOMAIN calls' : calls'[j] = c

LEMMA CallsCarried ==
    ASSUME Types, NEW gone, NEW claimed \in BOOLEAN, NEW fresh,
           Turned(calls, calls', gone, claimed, fresh)
    PROVE  Went(calls, calls', gone, claimed, fresh)
  <1>1. PICK old, new : old = calls /\ new = calls'
    OBVIOUS
  <1>2. old \in Seq(Calls) /\ Turned(old, new, gone, claimed, fresh)
    BY <1>1 DEF Types
  <1>3. Went(old, new, gone, claimed, fresh)
    BY <1>2, CarriedOn
  <1>4. QED
    BY <1>1, <1>3

LEMMA OneMineTurned ==
    ASSUME Types, OneMine, NEW gone, NEW claimed \in BOOLEAN, NEW fresh,
           Turned(calls, calls', gone, claimed, fresh),
           \/ claimed
           \/ \A c \in fresh : c.mine => \E k \in DOMAIN calls : k \in gone /\ calls[k].mine
    PROVE  OneMine'
  <1> SUFFICES ASSUME NEW i \in DOMAIN calls', NEW j \in DOMAIN calls', i # j,
                      calls'[i].mine, calls'[j].mine
               PROVE  FALSE
    BY DEF OneMine
  <1>1. \/ /\ calls'[i] \in fresh
           /\ \E l \in DOMAIN calls \ gone : Carried(calls'[j], calls[l], claimed)
        \/ /\ calls'[j] \in fresh
           /\ \E k \in DOMAIN calls \ gone : Carried(calls'[i], calls[k], claimed)
        \/ \E k, l \in DOMAIN calls \ gone :
             /\ k # l
             /\ Carried(calls'[i], calls[k], claimed) /\ Carried(calls'[j], calls[l], claimed)
    BY CallsCarried DEF Went
  <1>2. CASE claimed
    BY <1>1, <1>2 DEF Carried
  <1>3. CASE ~claimed /\ \A c \in fresh : c.mine => \E k \in DOMAIN calls : k \in gone /\ calls[k].mine
    BY <1>1, <1>3 DEF Carried, OneMine
  <1>4. QED
    BY <1>2, <1>3

LEMMA HolderKeptTurned ==
    ASSUME Types, OneMine, NEW gone, NEW fresh, Turned(calls, calls', gone, FALSE, fresh),
           \A c \in fresh : ~c.mine, \A k \in DOMAIN calls : k \in gone => ~calls[k].mine
    PROVE  HolderKept /\ OneMine'
  <1>1. OneMine'
    BY OneMineTurned
  <1>2. ASSUME NEW j \in DOMAIN calls', calls'[j].mine
        PROVE  \E k \in DOMAIN calls : /\ calls[k].mine /\ SameQuestion(calls'[j], calls[k])
                                       /\ Alike(calls'[j], calls[k])
    <2>1. PICK k \in DOMAIN calls \ gone : Carried(calls'[j], calls[k], FALSE)
      BY <1>2, CallsCarried DEF Went
    <2>2. QED
      BY <1>2, <2>1 DEF Carried, Alike, SameQuestion
  <1>3. ASSUME NEW k \in DOMAIN calls, calls[k].mine
        PROVE  \E j \in DOMAIN calls' : calls'[j].mine /\ SameQuestion(calls'[j], calls[k])
    <2>1. PICK j \in DOMAIN calls' : Carried(calls'[j], calls[k], FALSE)
      BY <1>3, CallsCarried DEF Went
    <2>2. QED
      BY <1>3, <2>1 DEF Carried, Alike, SameQuestion
  <1>4. QED
    BY <1>1, <1>2, <1>3 DEF HolderKept, SameHolder

LEMMA HolderKeptDropping ==
    ASSUME Types, OneMine, NEW i \in DOMAIN calls, Turned(calls, calls', {i}, FALSE, {}),
           ~calls[i].mine
    PROVE  HolderKept /\ OneMine'
  <1>1. PICK gone, fresh : gone = {i} /\ fresh = {}
    OBVIOUS
  <1>2. /\ Turned(calls, calls', gone, FALSE, fresh)
        /\ \A c \in fresh : ~c.mine
        /\ \A k \in DOMAIN calls : k \in gone => ~calls[k].mine
    BY <1>1
  <1>3. QED
    BY <1>2, HolderKeptTurned

LEMMA HolderKeptAdding ==
    ASSUME Types, OneMine, NEW c, Turned(calls, calls', {}, FALSE, {c}), ~c.mine
    PROVE  HolderKept /\ OneMine'
  <1>1. PICK gone, fresh : gone = {} /\ fresh = {c}
    OBVIOUS
  <1>2. /\ Turned(calls, calls', gone, FALSE, fresh)
        /\ \A d \in fresh : ~d.mine
        /\ \A k \in DOMAIN calls : k \in gone => ~calls[k].mine
    BY <1>1
  <1>3. QED
    BY <1>2, HolderKeptTurned

LEMMA HolderKeptKeeping ==
    ASSUME Types, OneMine, Turned(calls, calls', {}, FALSE, {})
    PROVE  HolderKept /\ OneMine'
  <1>1. PICK gone, fresh : gone = {} /\ fresh = {}
    OBVIOUS
  <1>2. /\ Turned(calls, calls', gone, FALSE, fresh)
        /\ \A d \in fresh : ~d.mine
        /\ \A k \in DOMAIN calls : k \in gone => ~calls[k].mine
    BY <1>1
  <1>3. QED
    BY <1>2, HolderKeptTurned

LEMMA HolderAnswered ==
    ASSUME Types, OneMine, NEW i \in DOMAIN calls, NEW c,
           Turned(calls, calls', {i}, FALSE, {c}), SameQuestion(c, calls[i])
    PROVE  SameHolder /\ OneMine'
  <1>1. c.mine = calls[i].mine
    BY DEF SameQuestion
  <1>2. OneMine'
    <2>1. \A d \in {c} : d.mine => \E k \in DOMAIN calls : k \in {i} /\ calls[k].mine
      BY <1>1
    <2>2. QED
      BY <2>1, OneMineTurned
  <1>3. Went(calls, calls', {i}, FALSE, {c})
    BY CallsCarried
  <1>4. ASSUME NEW j \in DOMAIN calls', calls'[j].mine
        PROVE  \E k \in DOMAIN calls : calls[k].mine /\ SameQuestion(calls'[j], calls[k])
    <2>1. \/ calls'[j] = c
          \/ \E k \in DOMAIN calls : Carried(calls'[j], calls[k], FALSE)
      BY <1>3 DEF Went
    <2>2. QED
      BY <1>1, <1>4, <2>1 DEF Carried, Alike, SameQuestion
  <1>5. ASSUME NEW k \in DOMAIN calls, calls[k].mine
        PROVE  \E j \in DOMAIN calls' : calls'[j].mine /\ SameQuestion(calls'[j], calls[k])
    <2>1. CASE k = i
      <3>1. PICK j \in DOMAIN calls' : calls'[j] = c
        BY <1>3 DEF Went
      <3>2. QED
        BY <1>1, <1>5, <2>1, <3>1
    <2>2. CASE k # i
      <3>1. PICK j \in DOMAIN calls' : Carried(calls'[j], calls[k], FALSE)
        BY <1>3, <2>2 DEF Went
      <3>2. QED
        BY <1>5, <3>1 DEF Carried, Alike, SameQuestion
    <2>3. QED
      BY <2>1, <2>2
  <1>6. QED
    BY <1>2, <1>4, <1>5 DEF SameHolder

LEMMA HolderChosen ==
    ASSUME Types, OneMine, NEW gone, NEW c, Turned(calls, calls', gone, TRUE, {c})
    PROVE  OnlyHolder(c) /\ OneMine'
  <1>1. OneMine'
    BY OneMineTurned
  <1>2. Went(calls, calls', gone, TRUE, {c})
    BY CallsCarried
  <1>3. \A j \in DOMAIN calls' : calls'[j].mine => calls'[j] = c
    BY <1>2 DEF Carried, Went
  <1>4. \E j \in DOMAIN calls' : calls'[j] = c
    BY <1>2 DEF Went
  <1>5. QED
    BY <1>1, <1>3, <1>4 DEF OnlyHolder

LEMMA HolderGone ==
    ASSUME Types, OneMine, NEW i \in DOMAIN calls, Turned(calls, calls', {i}, FALSE, {}),
           calls[i].mine
    PROVE  NoHolder /\ OneMine'
  <1>1. PICK gone, fresh : gone = {i} /\ fresh = {}
    OBVIOUS
  <1>2. /\ Turned(calls, calls', gone, FALSE, fresh)
        /\ \A c \in fresh : c.mine => \E k \in DOMAIN calls : k \in gone /\ calls[k].mine
    BY <1>1
  <1>3. OneMine'
    BY <1>2, OneMineTurned
  <1>4. Went(calls, calls', gone, FALSE, fresh)
    BY <1>2, CallsCarried
  <1>5. \A j \in DOMAIN calls' : \E k \in DOMAIN calls \ {i} : Carried(calls'[j], calls[k], FALSE)
    BY <1>1, <1>4 DEF Went
  <1>6. QED
    BY <1>3, <1>5 DEF NoHolder, Carried, OneMine

LEMMA SameCalls ==
    ASSUME Types, OneMine, calls' = calls
    PROVE  HolderKept /\ OneMine'
  <1>1. Turned(calls, calls', {}, FALSE, {})
    BY TurnedKeeping DEF Types
  <1>2. QED
    BY <1>1, HolderKeptKeeping

(* A step of the server, or of what is heard, and what the page asks then. *)
Aside == \/ \E dash \in Dashboards : Record(dash) \/ ForgetBegins(dash) \/ Forget(dash)
         \/ ForgetEnds \/ Reload \/ HearRecorded \/ HearForgetting \/ Reconnect
         \/ OpenDialog \/ Cancel \/ RunsOut
         \/ \E fn \in {"write", "note"} : Apply(fn)
         \/ \E i \in DOMAIN calls : Written(i)

LEMMA AsideDoes ==
    ASSUME Types, OneMine, NewsOK, Aside
    PROVE  HolderKept /\ OneMine' /\ SameList /\ mishaps \subseteq mishaps'
  <1>1. ASSUME NEW dash \in Dashboards, Record(dash) \/ ForgetBegins(dash)
        PROVE  HolderKept /\ OneMine' /\ SameList /\ mishaps \subseteq mishaps'
    <2>1. SamePage /\ (Announce(Saved(dash)) \/ Announce(Begun(dash)))
      BY <1>1, RecordDoes, ForgetBeginsDoes
    <2>2. HolderKept /\ OneMine' /\ SameList
      BY <2>1, SameCalls DEF SamePage
    <2>3. mishaps \subseteq mishaps'
      BY <2>1 DEF Announce
    <2>4. QED
      BY <2>2, <2>3
  <1>2. ASSUME ForgetEnds
        PROVE  HolderKept /\ OneMine' /\ SameList /\ mishaps \subseteq mishaps'
    <2>1. SamePage /\ Announce(Done(forgetting))
      BY <1>2, ForgetEndsDoes
    <2>2. HolderKept /\ OneMine' /\ SameList
      BY <2>1, SameCalls DEF SamePage
    <2>3. mishaps \subseteq mishaps'
      BY <2>1 DEF Announce
    <2>4. QED
      BY <2>2, <2>3
  <1>3. ASSUME NEW dash \in Dashboards, Forget(dash)
        PROVE  HolderKept /\ OneMine' /\ SameList /\ mishaps \subseteq mishaps'
    <2>1. ~ForgetCall(dash).mine
      BY FreshCalls
    <2>2. QED
      BY <1>3, <2>1, ForgetDoes, HolderKeptAdding
  <1>4. ASSUME Reload
        PROVE  HolderKept /\ OneMine' /\ SameList /\ mishaps \subseteq mishaps'
    <2>1. ~Refresh("shown").mine
      BY FreshCalls
    <2>2. QED
      BY <1>4, <2>1, ReloadDoes, HolderKeptAdding
  <1>5. ASSUME HearRecorded
        PROVE  HolderKept /\ OneMine' /\ SameList /\ mishaps \subseteq mishaps'
    <2>1. ~Refresh("quiet").mine
      BY FreshCalls
    <2>2. HolderKept /\ OneMine'
      BY <1>5, <2>1, HearRecordedDoes, HolderKeptAdding, HolderKeptKeeping
    <2>3. SameList /\ mishaps \subseteq mishaps'
      BY <1>5, HearRecordedDoes
    <2>4. QED
      BY <2>2, <2>3
  <1>6. ASSUME HearForgetting
        PROVE  HolderKept /\ OneMine' /\ SameList /\ mishaps \subseteq mishaps'
    <2>1. ~Freeing.mine
      BY FreshCalls
    <2>2. HolderKept /\ OneMine'
      BY <1>6, <2>1, HearForgettingDoes, HolderKeptAdding, HolderKeptKeeping
    <2>3. SameList /\ mishaps \subseteq mishaps'
      BY <1>6, HearForgettingDoes
    <2>4. QED
      BY <2>2, <2>3
  <1>7. ASSUME Reconnect
        PROVE  HolderKept /\ OneMine' /\ SameList /\ mishaps \subseteq mishaps'
    <2>1. ~Refresh("shown").mine /\ ~Call("load", "listing").mine
      BY FreshCalls
    <2>2. HolderKept /\ OneMine'
      BY <1>7, <2>1, ReconnectDoes, HolderKeptAdding, HolderKeptKeeping
    <2>3. SameList /\ mishaps \subseteq mishaps'
      BY <1>7, ReconnectDoes
    <2>4. QED
      BY <2>2, <2>3
  <1>8. ASSUME OpenDialog \/ Cancel \/ RunsOut
        PROVE  HolderKept /\ OneMine' /\ SameList /\ mishaps \subseteq mishaps'
    BY <1>8, DialogDoes, SameCalls DEF SamePage
  <1>9. ASSUME NEW fn \in {"write", "note"}, Apply(fn)
        PROVE  HolderKept /\ OneMine' /\ SameList /\ mishaps \subseteq mishaps'
    BY <1>9, ApplyDoes, HolderKeptAdding
  <1>10. ASSUME NEW i \in DOMAIN calls, Written(i)
         PROVE  HolderKept /\ OneMine' /\ SameList /\ mishaps \subseteq mishaps'
    <2>1. PICK c : Turned(calls, calls', {i}, FALSE, {c}) /\ ~c.mine
      BY <1>10, WrittenDoes
    <2>2. ~calls[i].mine
      BY <1>10, WrittenDoes DEF Writes, Types, CallOK
    <2>3. PICK gone, fresh : gone = {i} /\ fresh = {c}
      OBVIOUS
    <2>4. /\ Turned(calls, calls', gone, FALSE, fresh)
          /\ \A d \in fresh : ~d.mine
          /\ \A k \in DOMAIN calls : k \in gone => ~calls[k].mine
      BY <2>1, <2>2, <2>3
    <2>5. HolderKept /\ OneMine'
      BY <2>4, HolderKeptTurned
    <2>6. QED
      BY <1>10, <2>5, WrittenDoes
  <1>11. QED
    BY <1>1, <1>2, <1>3, <1>4, <1>5, <1>6, <1>7, <1>8, <1>9, <1>10 DEF Aside

LEMMA DisconnectKeeps ==
    ASSUME Types, OneMine, Disconnect
    PROVE  SameHolder /\ OneMine'
  <1>1. /\ DOMAIN calls' = DOMAIN calls
        /\ \A i \in DOMAIN calls : SameQuestion(calls'[i], calls[i])
    BY DisconnectDoes
  <1>2. \A i \in DOMAIN calls : calls'[i].mine <=> calls[i].mine
    BY <1>1 DEF SameQuestion
  <1>3. QED
    BY <1>1, <1>2 DEF SameHolder, OneMine

(* The other steps.                                                        *)
LEMMA HolderPick ==
    ASSUME Types, OneMine, NEW dash \in Dashboards, Pick(dash)
    PROVE  OnlyHolder(SelectCall(dash, FALSE)) /\ OneMine'
  BY PickDoes, HolderChosen

LEMMA HolderSelected ==
    ASSUME Types, OneMine, NEW i \in DOMAIN calls, Selected(i)
    PROVE  OneMine' /\ IF calls[i].mine THEN NoHolder ELSE HolderKept
  <1>1. Turned(calls, calls', {i}, FALSE, {})
    BY SelectedDoes
  <1>2. CASE calls[i].mine
    BY <1>1, <1>2, HolderGone
  <1>3. CASE ~calls[i].mine
    BY <1>1, <1>3, HolderKeptDropping
  <1>4. QED
    BY <1>2, <1>3

LEMMA HolderLoaded ==
    ASSUME Types, OneMine, NEW i \in DOMAIN calls, Loaded(i)
    PROVE  /\ OneMine'
           /\ \/ /\ Failed(calls[i]) \/ (calls[i].at = "listed" /\ calls[i].answer = {})
                 /\ HolderKept /\ SameList
              \/ \E first \in Dashboards :
                   /\ OnlyHolder(SelectCall(first, calls[i].frees)) /\ Selecting(first)
  <1>1. ~calls[i].mine
    BY LoadedDoes DEF Types, CallOK
  <1>2. CASE /\ Failed(calls[i]) \/ (calls[i].at = "listed" /\ calls[i].answer = {})
             /\ Turned(calls, calls', {i}, FALSE, {}) /\ SameList
    BY <1>1, <1>2, HolderKeptDropping
  <1>3. ASSUME NEW first \in Dashboards,
               Turned(calls, calls', {i}, TRUE, {SelectCall(first, calls[i].frees)}),
               Selecting(first)
        PROVE  OneMine' /\ OnlyHolder(SelectCall(first, calls[i].frees)) /\ Selecting(first)
    BY <1>3, HolderChosen
  <1>4. QED
    BY <1>2, <1>3, LoadedDoes

LEMMA HolderLoadOlder ==
    ASSUME Types, OneMine, LoadOlder
    PROVE  OnlyHolder(OlderCall(selected, cursor, cursorGeneration)) /\ OneMine'
  <1>1. PICK c : c = OlderCall(selected, cursor, cursorGeneration)
    OBVIOUS
  <1>2. Turned(calls, calls', {}, TRUE, {c})
    BY <1>1, LoadOlderDoes
  <1>3. OnlyHolder(c) /\ OneMine'
    BY <1>2, HolderChosen
  <1>4. QED
    BY <1>1, <1>3

LEMMA HolderGotOlder ==
    ASSUME Types, OneMine, NEW i \in DOMAIN calls, GotOlder(i)
    PROVE  OneMine' /\ IF calls[i].mine THEN NoHolder ELSE HolderKept
  <1>1. Turned(calls, calls', {i}, FALSE, {})
    BY GotOlderDoes
  <1>2. CASE calls[i].mine
    BY <1>1, <1>2, HolderGone
  <1>3. CASE ~calls[i].mine
    BY <1>1, <1>3, HolderKeptDropping
  <1>4. QED
    BY <1>2, <1>3

LEMMA HolderAnswer ==
    ASSUME Types, OneMine, NEW i \in DOMAIN calls, Answer(i) \/ Fail(i)
    PROVE  SameHolder /\ OneMine'
  <1>1. PICK c \in Calls :
          Turned(calls, calls', {i}, FALSE, {c}) /\ SameQuestion(c, calls[i])
    BY AnswerDoes, FailDoes
  <1>2. QED
    BY <1>1, HolderAnswered

LEMMA HolderRefreshed ==
    ASSUME Types, OneMine, NEW i \in DOMAIN calls, Refreshed(i)
    PROVE  /\ OneMine'
           /\ \/ /\ Failed(calls[i]) /\ SameList
                 /\ IF calls[i].mine THEN NoHolder ELSE HolderKept
              \/ /\ calls[i].at = "listed" /\ selected = None /\ HolderKept /\ SameList
              \/ /\ calls[i].at = "listed" /\ selected # None /\ SameList
                 /\ \E c \in Calls : /\ c.fn = "refresh" /\ c.at = "asked" /\ c.mine
                                     /\ c.dash = selected /\ OnlyHolder(c)
              \/ /\ calls[i].at = "answered"
                 /\ IF calls[i].mine THEN NoHolder ELSE HolderKept
  <1>1. CallOK(calls[i])
    BY DEF Types
  <1>2. Turned(calls, calls', {i}, FALSE, {}) =>
          OneMine' /\ IF calls[i].mine THEN NoHolder ELSE HolderKept
    <2>1. CASE calls[i].mine
      BY <2>1, HolderGone
    <2>2. CASE ~calls[i].mine
      BY <2>2, HolderKeptDropping
    <2>3. QED
      BY <2>1, <2>2
  <1>3. CASE /\ Failed(calls[i])
             /\ Turned(calls, calls', {i}, FALSE, {}) /\ SameList
    BY <1>2, <1>3
  <1>4. CASE /\ calls[i].at = "listed" /\ selected = None
             /\ Turned(calls, calls', {i}, FALSE, {}) /\ SameList
    <2>1. ~calls[i].mine
      BY <1>1, <1>4 DEF CallOK
    <2>2. QED
      BY <1>2, <1>4, <2>1
  <1>5. CASE /\ calls[i].at = "listed" /\ selected # None /\ SameList
             /\ \E c \in Calls :
                  /\ Turned(calls, calls', {i}, TRUE, {c})
                  /\ c.fn = "refresh" /\ c.at = "asked" /\ c.mine /\ c.dash = selected
    <2>1. PICK c \in Calls :
            /\ Turned(calls, calls', {i}, TRUE, {c})
            /\ c.fn = "refresh" /\ c.at = "asked" /\ c.mine /\ c.dash = selected
      BY <1>5
    <2>2. OnlyHolder(c) /\ OneMine'
      BY <2>1, HolderChosen
    <2>3. QED
      BY <1>5, <2>1, <2>2
  <1>6. CASE calls[i].at = "answered" /\ Turned(calls, calls', {i}, FALSE, {})
    BY <1>2, <1>6
  <1>7. QED
    BY <1>3, <1>4, <1>5, <1>6, RefreshedDoes

LEMMA HolderForgotten ==
    ASSUME Types, OneMine, NEW i \in DOMAIN calls, Forgotten(i)
    PROVE  HolderKept /\ OneMine'
  <1>1. PICK fresh : fresh \in {{}, {Freeing}} /\ Turned(calls, calls', {i}, FALSE, fresh)
    BY ForgottenDoes
  <1>2. ~calls[i].mine
    BY ForgottenDoes DEF Types, CallOK
  <1>3. \A c \in fresh : ~c.mine
    BY <1>1, FreshCalls
  <1>4. PICK gone : gone = {i}
    OBVIOUS
  <1>5. /\ Turned(calls, calls', gone, FALSE, fresh)
        /\ \A k \in DOMAIN calls : k \in gone => ~calls[k].mine
    BY <1>1, <1>2, <1>4
  <1>6. QED
    BY <1>3, <1>5, HolderKeptTurned

--------------------------------------------------------------------------------
(* What failed is noted *)

LEMMA NotedTurned ==
    ASSUME Types, Noted, NEW gone, NEW claimed \in BOOLEAN, NEW fresh,
           Turned(calls, calls', gone, claimed, fresh), mishaps \subseteq mishaps',
           \A c \in fresh : Failed(c) => "failed" \in mishaps'
    PROVE  Noted'
  <1>1. Went(calls, calls', gone, claimed, fresh)
    BY CallsCarried
  <1>2. ASSUME NEW j \in DOMAIN calls', Failed(calls'[j])
        PROVE  "failed" \in mishaps'
    <2>1. CASE calls'[j] \in fresh
      BY <1>2, <2>1
    <2>2. ASSUME NEW k \in DOMAIN calls, Carried(calls'[j], calls[k], claimed)
          PROVE  "failed" \in mishaps'
      BY <1>2, <2>2 DEF Carried, Alike, Failed, Noted
    <2>3. QED
      BY <1>1, <2>1, <2>2 DEF Went
  <1>3. QED
    BY <1>2 DEF Noted, Failed

LEMMA NotedFewer ==
    ASSUME Types, Noted, NEW gone, NEW claimed \in BOOLEAN,
           Turned(calls, calls', gone, claimed, {}), mishaps \subseteq mishaps'
    PROVE  Noted'
  <1>1. PICK fresh : fresh = {}
    OBVIOUS
  <1>2. /\ Turned(calls, calls', gone, claimed, fresh)
        /\ \A c \in fresh : Failed(c) => "failed" \in mishaps'
    BY <1>1
  <1>3. QED
    BY <1>2, NotedTurned

LEMMA NotedMore ==
    ASSUME Types, Noted, NEW gone, NEW claimed \in BOOLEAN, NEW c,
           Turned(calls, calls', gone, claimed, {c}), mishaps \subseteq mishaps',
           ~Failed(c) \/ "failed" \in mishaps'
    PROVE  Noted'
  BY NotedTurned

LEMMA FreshNotFailed ==
    /\ \A dash \in Dashboards, frees \in BOOLEAN : ~Failed(SelectCall(dash, frees))
    /\ \A dash \in Dashboards, before \in Entries, since \in Nat \cup {None} :
         ~Failed(OlderCall(dash, before, since))
    /\ \A dash \in Dashboards : ~Failed(ForgetCall(dash))
    /\ \A guarded \in {"shown", "quiet", "said"} : ~Failed(Refresh(guarded))
    /\ ~Failed(Freeing) /\ ~Failed(Call("load", "listing"))
  BY FreshCalls DEF Failed

LEMMA NotedStep ==
    ASSUME Types, NewsOK, Noted, Next
    PROVE  Noted'
  <1> USE DEF Failed
  <1>1. ASSUME NEW dash \in Dashboards, Pick(dash) PROVE Noted'
    <2>1. ~Failed(SelectCall(dash, FALSE))
      BY FreshNotFailed
    <2>2. QED
      BY <1>1, <2>1, PickDoes, NotedMore
  <1>2. ASSUME NEW i \in DOMAIN calls, Selected(i) PROVE Noted'
    BY <1>2, SelectedDoes, NotedFewer
  <1>3. ASSUME NEW i \in DOMAIN calls, Loaded(i) PROVE Noted'
    <2>1. mishaps' = mishaps
      BY <1>3, LoadedDoes
    <2>2. calls[i] \in Calls
      BY DEF Types
    <2>3. calls[i].frees \in BOOLEAN
      BY <2>2 DEF Calls
    <2>4. ASSUME NEW first \in Dashboards,
                 Turned(calls, calls', {i}, TRUE, {SelectCall(first, calls[i].frees)})
          PROVE  Noted'
      <3>1. ~Failed(SelectCall(first, calls[i].frees))
        BY <2>3, FreshNotFailed
      <3>2. QED
        BY <2>1, <2>4, <3>1, NotedMore
    <2>5. ASSUME Turned(calls, calls', {i}, FALSE, {}) PROVE Noted'
      BY <2>1, <2>5, NotedFewer
    <2>6. QED
      BY <1>3, <2>4, <2>5, LoadedDoes
  <1>4. ASSUME LoadOlder PROVE Noted'
    <2>1. PICK c : c = OlderCall(selected, cursor, cursorGeneration)
      OBVIOUS
    <2>2. cursorGeneration \in Nat \cup {None} /\ selected \in Dashboards /\ cursor \in Entries
      BY <1>4, LoadOlderDoes DEF Types
    <2>3. ~Failed(c)
      BY <2>1, <2>2, FreshNotFailed
    <2>4. Turned(calls, calls', {}, TRUE, {c}) /\ mishaps \subseteq mishaps'
      BY <1>4, <2>1, LoadOlderDoes
    <2>5. QED
      BY <2>3, <2>4, NotedMore
  <1>5. ASSUME NEW i \in DOMAIN calls, GotOlder(i) PROVE Noted'
    BY <1>5, GotOlderDoes, NotedFewer
  <1>6. ASSUME NEW i \in DOMAIN calls, Answer(i) PROVE Noted'
    <2>1. PICK c \in Calls : /\ Turned(calls, calls', {i}, FALSE, {c})
                             /\ c.at \in {"listed", "answered"}
      BY <1>6, AnswerDoes
    <2>2. mishaps' = mishaps
      BY <1>6, AnswerDoes
    <2>3. QED
      BY <2>1, <2>2, NotedMore
  <1>7. ASSUME NEW i \in DOMAIN calls, Fail(i) PROVE Noted'
    BY <1>7, FailDoes DEF Noted
  <1>8. ASSUME NEW i \in DOMAIN calls, Refreshed(i) PROVE Noted'
    <2>1. mishaps' = mishaps
      BY <1>8, RefreshedDoes
    <2>2. ASSUME NEW c \in Calls, Turned(calls, calls', {i}, TRUE, {c}), c.at = "asked"
          PROVE  Noted'
      BY <2>1, <2>2, NotedMore
    <2>3. ASSUME Turned(calls, calls', {i}, FALSE, {}) PROVE Noted'
      BY <2>1, <2>3, NotedFewer
    <2>4. QED
      BY <1>8, <2>2, <2>3, RefreshedDoes
  <1>9. ASSUME NEW i \in DOMAIN calls, Forgotten(i) PROVE Noted'
    <2>1. mishaps \subseteq mishaps' /\ ~Failed(Freeing)
      BY <1>9, ForgottenDoes, FreshNotFailed
    <2>2. QED
      BY <1>9, <2>1, ForgottenDoes, NotedMore, NotedFewer
  <1>10. ASSUME Reload PROVE Noted'
    BY <1>10, ReloadDoes, FreshNotFailed, NotedMore
  <1>11. ASSUME NEW dash \in Dashboards, Forget(dash) PROVE Noted'
    BY <1>11, ForgetDoes, FreshNotFailed, NotedMore
  <1>12. ASSUME HearRecorded PROVE Noted'
    <2>1. mishaps \subseteq mishaps' /\ ~Failed(Refresh("quiet"))
      BY <1>12, HearRecordedDoes, FreshNotFailed
    <2>2. QED
      BY <1>12, <2>1, HearRecordedDoes, NotedMore, NotedFewer
  <1>13. ASSUME HearForgetting PROVE Noted'
    <2>1. mishaps \subseteq mishaps' /\ ~Failed(Freeing)
      BY <1>13, HearForgettingDoes, FreshNotFailed
    <2>2. QED
      BY <1>13, <2>1, HearForgettingDoes, NotedMore, NotedFewer
  <1>14. ASSUME Disconnect PROVE Noted'
    BY <1>14, DisconnectDoes DEF Noted
  <1>15. ASSUME Reconnect PROVE Noted'
    <2>1. /\ mishaps \subseteq mishaps' /\ ~Failed(Refresh("shown"))
          /\ ~Failed(Call("load", "listing"))
      BY <1>15, ReconnectDoes, FreshNotFailed
    <2>2. QED
      BY <1>15, <2>1, ReconnectDoes, NotedMore, NotedFewer
  <1>16. ASSUME SamePage, mishaps \subseteq mishaps' PROVE Noted'
    BY <1>16 DEF SamePage, Noted
  <1>17. ASSUME NEW dash \in Dashboards, Record(dash) \/ ForgetBegins(dash) PROVE Noted'
    BY <1>16, <1>17, RecordDoes, ForgetBeginsDoes DEF Announce
  <1>18. ASSUME ForgetEnds PROVE Noted'
    BY <1>16, <1>18, ForgetEndsDoes DEF Announce
  <1>19. ASSUME OpenDialog \/ Cancel \/ RunsOut PROVE Noted'
    BY <1>16, <1>19, DialogDoes
  <1>20. ASSUME NEW fn \in {"write", "note"}, Apply(fn) PROVE Noted'
    <2>1. PICK c : Turned(calls, calls', {}, FALSE, {c}) /\ ~Failed(c)
      BY <1>20, ApplyDoes
    <2>2. QED
      BY <1>20, <2>1, ApplyDoes, NotedMore
  <1>21. ASSUME NEW i \in DOMAIN calls, Written(i) PROVE Noted'
    <2>1. PICK c : Turned(calls, calls', {i}, FALSE, {c}) /\ ~Failed(c)
      BY <1>21, WrittenDoes
    <2>2. QED
      BY <1>21, <2>1, WrittenDoes, NotedMore
  <1>22. QED
    BY <1>1, <1>2, <1>3, <1>4, <1>5, <1>6, <1>7, <1>8, <1>9, <1>10, <1>11, <1>12, <1>13,
       <1>14, <1>15, <1>17, <1>18, <1>19, <1>20, <1>21 DEF Next, Deliver

--------------------------------------------------------------------------------
(* The list *)

LEMMA ListStands ==
    ASSUME ListOK, SameList, SameHolder
    PROVE  ListOK'
  <1>1. ASSUME NEW c, NEW j \in DOMAIN calls', c = calls'[j], c.mine
        PROVE  HolderOK(c)'
    <2>1. PICK k \in DOMAIN calls : calls[k].mine /\ SameQuestion(c, calls[k])
      BY <1>1 DEF SameHolder
    <2>2. HolderOK(calls[k])
      BY <2>1 DEF ListOK
    <2>3. QED
      BY <2>1, <2>2 DEF HolderOK, SameQuestion, SameList
  <1>2. QED
    BY <1>1 DEF ListOK, HolderOK, SameList, RowsOfSelected

LEMMA ListSelecting ==
    ASSUME ListOK, NEW dash \in Dashboards, NEW frees \in BOOLEAN,
           OnlyHolder(SelectCall(dash, frees)), Selecting(dash)
    PROVE  ListOK'
  <1>1. PICK c : c = SelectCall(dash, frees)
    OBVIOUS
  <1>2. c.fn = "select" /\ c.dash = dash
    BY <1>1, FreshCalls
  <1>3. HolderOK(c)'
    BY <1>2 DEF HolderOK, Selecting
  <1>4. \A j \in DOMAIN calls' : calls'[j].mine => calls'[j] = c
    BY <1>1 DEF OnlyHolder
  <1>5. QED
    BY <1>3, <1>4 DEF ListOK, HolderOK, Selecting

(* A page is put in the place of the list.                                 *)
LEMMA ListReplaced ==
    ASSUME NEW a, NEW dash \in Dashboards, IsPage(a, dash), selected # None => dash = selected,
           shown' = a.rows, cursor' = a.next, selected' = selected, NoHolder
    PROVE  ListOK' /\ (selected # None => RowsOfSelected')
  <1>1. IsRun(shown')
    BY DEF IsPage
  <1>2. selected # None => RowsOfSelected'
    BY DEF IsPage, RowsOfSelected
  <1>3. selected' # None /\ cursor' # None =>
          shown' # <<>> /\ cursor' = Last(shown') /\ cursor'.id > 1
    BY DEF IsPage
  <1>4. QED
    BY <1>1, <1>2, <1>3 DEF ListOK, NoHolder

(* A page is put below the list.                                           *)
LEMMA RunOn ==
    ASSUME NEW up \in Seq(Entries), NEW rows \in Seq(Entries), IsRun(up), IsRun(rows),
           NEW dash, \A i \in DOMAIN rows : rows[i].dash = dash,
           \/ up = <<>>
           \/ /\ \A i \in DOMAIN up : up[i].dash = dash
              /\ rows # <<>> => rows[1].id = Last(up).id - 1
    PROVE  /\ IsRun(up \o rows)
           /\ rows # <<>> => up \o rows # <<>> /\ Last(up \o rows) = Last(rows)
           /\ rows = <<>> => up \o rows = up
           /\ up # <<>> => up \o rows # <<>> /\ (up \o rows)[1] = up[1]
           /\ \A i \in DOMAIN (up \o rows) :
                \/ i \in DOMAIN up /\ (up \o rows)[i] = up[i]
                \/ \E k \in DOMAIN rows : (up \o rows)[i] = rows[k]
  <1> DEFINE all == up \o rows
             m == Len(up)
             n == Len(rows)
  <1>1. m \in Nat /\ n \in Nat /\ DOMAIN up = 1 .. m /\ DOMAIN rows = 1 .. n
    OBVIOUS
  <1>2. all \in Seq(Entries) /\ Len(all) = m + n /\ DOMAIN all = 1 .. m + n
    <2>1. all \in Seq(Entries) /\ Len(all) = m + n
      BY ConcatProperties
    <2>2. QED
      BY <2>1
  <1>3. \A i \in 1 .. m + n : all[i] = IF i <= m THEN up[i] ELSE rows[i - m]
    BY ConcatProperties
  <1>4. (rows # <<>> <=> n > 0) /\ (up # <<>> <=> m > 0) /\ (all # <<>> <=> m + n > 0)
    BY <1>1, <1>2
  <1>5. Last(up) = up[m] /\ Last(rows) = rows[n] /\ Last(all) = all[m + n]
    BY <1>2 DEF Last
  <1>6. rows = <<>> => all = up
    OBVIOUS
  <1> HIDE DEF all, m, n
  <1>7. \A i \in 1 .. m : all[i] = up[i]
    BY <1>1, <1>3
  <1>8. \A i \in 1 .. n : all[m + i] = rows[i]
    <2>1. ASSUME NEW i \in 1 .. n
          PROVE  m + i \in 1 .. m + n /\ ~(m + i <= m) /\ (m + i) - m = i
      BY <1>1
    <2>2. QED
      BY <1>3, <2>1
  <1>9. ASSUME NEW i \in 1 .. m + n - 1
        PROVE  all[i + 1].dash = all[i].dash /\ all[i + 1].id = all[i].id - 1
    <2>1. CASE i < m
      <3>1. i \in 1 .. m /\ i + 1 \in 1 .. m /\ i \in 1 .. m - 1
        BY <1>1, <2>1
      <3>2. up[i + 1].dash = up[i].dash /\ up[i + 1].id = up[i].id - 1
        BY <3>1 DEF IsRun, m
      <3>3. QED
        BY <1>7, <3>1, <3>2
    <2>2. CASE i = m
      <3>1. i \in 1 .. m /\ m > 0 /\ n > 0 /\ 1 \in 1 .. n
        BY <1>1, <2>2
      <3>2. all[i] = up[m] /\ all[i + 1] = rows[1]
        BY <1>7, <1>8, <2>2, <3>1
      <3>3. rows[1].dash = dash /\ up[m].dash = dash /\ rows[1].id = up[m].id - 1
        BY <1>1, <1>4, <1>5, <2>2, <3>1
      <3>4. QED
        BY <3>2, <3>3
    <2>3. CASE i > m
      <3>1. i - m \in 1 .. n /\ i - m + 1 \in 1 .. n /\ i - m \in 1 .. n - 1
            /\ m + (i - m) = i /\ m + (i - m + 1) = i + 1
        BY <1>1, <2>3
      <3>2. all[i] = rows[i - m] /\ all[i + 1] = rows[i - m + 1]
        BY <1>8, <3>1
      <3>3. /\ rows[i - m + 1].dash = rows[i - m].dash
            /\ rows[i - m + 1].id = rows[i - m].id - 1
        BY <3>1 DEF IsRun, n
      <3>4. QED
        BY <3>2, <3>3
    <2>4. QED
      BY <1>1, <2>1, <2>2, <2>3
  <1>10. IsRun(all)
    <2>1. Len(all) - 1 = m + n - 1
      BY <1>1, <1>2
    <2>2. QED
      BY <1>9, <2>1 DEF IsRun
  <1>11. rows # <<>> => all # <<>> /\ Last(all) = Last(rows)
    <2>1. SUFFICES ASSUME rows # <<>> PROVE all # <<>> /\ Last(all) = Last(rows)
      OBVIOUS
    <2>2. n \in 1 .. n /\ m + n > 0
      BY <1>1, <1>4, <2>1
    <2>3. QED
      BY <1>4, <1>5, <1>8, <2>2
  <1>12. up # <<>> => all # <<>> /\ all[1] = up[1]
    <2>1. SUFFICES ASSUME up # <<>> PROVE all # <<>> /\ all[1] = up[1]
      OBVIOUS
    <2>2. 1 \in 1 .. m /\ m + n > 0
      BY <1>1, <1>4, <2>1
    <2>3. QED
      BY <1>4, <1>7, <2>2
  <1>13. ASSUME NEW i \in DOMAIN all
         PROVE  \/ i \in DOMAIN up /\ all[i] = up[i]
                \/ \E k \in DOMAIN rows : all[i] = rows[k]
    <2>1. CASE i <= m
      BY <1>1, <1>2, <1>7, <2>1
    <2>2. CASE ~(i <= m)
      <3>1. i - m \in 1 .. n /\ m + (i - m) = i
        BY <1>1, <1>2, <2>2
      <3>2. all[i] = rows[i - m]
        BY <1>8, <3>1
      <3>3. QED
        BY <1>1, <3>1, <3>2
    <2>3. QED
      BY <2>1, <2>2
  <1>14. QED
    BY <1>6, <1>10, <1>11, <1>12, <1>13 DEF all

LEMMA ListStep ==
    ASSUME Types, OneMine, NewsOK, ListOK, Next
    PROVE  ListOK'
  <1>1. ASSUME Aside PROVE ListOK'
    BY <1>1, AsideDoes, ListStands DEF HolderKept
  <1>2. ASSUME Disconnect PROVE ListOK'
    BY <1>2, DisconnectKeeps, DisconnectDoes, ListStands
  <1>3. ASSUME NEW dash \in Dashboards, Pick(dash) PROVE ListOK'
    BY <1>3, HolderPick, PickDoes, ListSelecting
  <1>4. ASSUME NEW i \in DOMAIN calls, Selected(i) PROVE ListOK'
    <2>1. CASE ~calls[i].mine
      BY <1>4, <2>1, HolderSelected, SelectedDoes, ListStands DEF HolderKept
    <2>2. CASE calls[i].mine /\ Failed(calls[i])
      <3>1. NoHolder /\ shown' = <<>> /\ cursor' = None
        BY <1>4, <2>2, HolderSelected, SelectedDoes
      <3>2. QED
        BY <3>1 DEF ListOK, NoHolder, IsRun
    <2>3. CASE calls[i].mine /\ ~Failed(calls[i])
      <3>1. /\ NoHolder /\ shown' = calls[i].answer.rows /\ cursor' = calls[i].answer.next
            /\ selected' = selected /\ calls[i].fn = "select" /\ ~Waiting(calls[i])
        BY <1>4, <2>3, HolderSelected, SelectedDoes
      <3>2. calls[i] \in Calls /\ CallOK(calls[i])
        BY DEF Types
      <3>3. calls[i].at = "answered"
        BY <2>3, <3>1, <3>2 DEF CallOK, Calls, Waiting, Failed
      <3>4. IsPage(calls[i].answer, calls[i].dash) /\ calls[i].dash \in Dashboards
        BY <3>1, <3>3, ShownTypes
      <3>5. selected # None => calls[i].dash = selected
        BY <2>3 DEF ListOK, HolderOK
      <3>6. PICK a, dash : a = calls[i].answer /\ dash = calls[i].dash
        OBVIOUS
      <3>7. QED
        BY <3>1, <3>4, <3>5, <3>6, ListReplaced
    <2>4. QED
      BY <2>1, <2>2, <2>3
  <1>5. ASSUME NEW i \in DOMAIN calls, Loaded(i) PROVE ListOK'
    <2>1. calls[i] \in Calls
      BY DEF Types
    <2>2. PICK frees \in BOOLEAN : frees = calls[i].frees
      BY <2>1 DEF Calls
    <2>3. ASSUME NEW first \in Dashboards,
                 OnlyHolder(SelectCall(first, calls[i].frees)), Selecting(first)
          PROVE  ListOK'
      <3>1. OnlyHolder(SelectCall(first, frees))
        BY <2>2, <2>3
      <3>2. QED
        BY <2>3, <3>1, ListSelecting
    <2>4. ASSUME HolderKept, SameList PROVE ListOK'
      BY <2>4, ListStands DEF HolderKept
    <2>5. QED
      BY <1>5, <2>3, <2>4, HolderLoaded
  <1>6. ASSUME LoadOlder PROVE ListOK'
    <2>1. PICK c : c = OlderCall(selected, cursor, cursorGeneration)
      OBVIOUS
    <2>2. /\ cursorGeneration \in Nat \cup {None} /\ selected \in Dashboards
          /\ cursor \in Entries /\ selected # None
      BY <1>6, LoadOlderDoes DEF Types
    <2>3. c.fn = "older" /\ c.dash = selected /\ c.before = cursor
      <3>1. PICK dash, before, since : dash = selected /\ before = cursor
                                       /\ since = cursorGeneration
        OBVIOUS
      <3>2. c = OlderCall(dash, before, since) /\ dash \in Dashboards /\ before \in Entries
            /\ since \in Nat \cup {None}
        BY <2>1, <2>2, <3>1
      <3>3. QED
        BY <3>1, <3>2, FreshCalls
    <2>4. SameList
      BY <1>6, LoadOlderDoes
    <2>5. HolderOK(c)'
      BY <2>2, <2>3, <2>4 DEF HolderOK, SameList
    <2>6. \A j \in DOMAIN calls' : calls'[j].mine => calls'[j] = c
      BY <1>6, <2>1, HolderLoadOlder DEF OnlyHolder
    <2>7. QED
      BY <2>4, <2>5, <2>6 DEF ListOK, HolderOK, SameList, RowsOfSelected
  <1>7. ASSUME NEW i \in DOMAIN calls, GotOlder(i) PROVE ListOK'
    <2>1. CASE ~calls[i].mine
      <3>1. HolderKept /\ SameList
        BY <1>7, <2>1, HolderGotOlder, GotOlderDoes DEF SameList
      <3>2. QED
        BY <3>1, ListStands DEF HolderKept
    <2>2. CASE calls[i].mine /\ calls[i].at # "answered"
      <3>1. NoHolder /\ SameList
        BY <1>7, <2>2, HolderGotOlder, GotOlderDoes DEF SameList
      <3>2. QED
        BY <3>1 DEF ListOK, NoHolder, SameList, RowsOfSelected
    <2>3. CASE calls[i].mine /\ calls[i].at = "answered"
      <3>1. /\ NoHolder /\ shown' = Continued(calls[i].answer)
            /\ cursor' = calls[i].answer.next
            /\ selected' = selected /\ calls[i].fn = "older"
        BY <1>7, <2>3, HolderGotOlder, GotOlderDoes
      <3>2. CallOK(calls[i]) /\ HolderOK(calls[i])
        BY <2>3 DEF Types, ListOK
      <3>3. IsPage(calls[i].answer, calls[i].dash) /\ calls[i].dash \in Dashboards
            /\ calls[i].answer.rows \in Seq(Entries)
        BY <2>3, <3>1, ShownTypes
      <3>4. PICK a, dash, before : a = calls[i].answer /\ dash = calls[i].dash
                                   /\ before = calls[i].before
        OBVIOUS
      <3>5. selected # None => dash = selected
        BY <3>2, <3>4 DEF HolderOK
      <3>6. CASE a.restarted
        <4>1. shown' = a.rows
          BY <3>1, <3>4, <3>6 DEF Continued
        <4>2. QED
          BY <3>1, <3>3, <3>4, <3>5, <4>1, ListReplaced
      <3>7. CASE ~a.restarted
        <4>1. shown' = shown \o a.rows /\ cursor' = a.next
          BY <3>1, <3>4, <3>7 DEF Continued
        <4>2. before \in Entries /\ (a.rows # <<>> => a.rows[1].id = before.id - 1)
          BY <2>3, <3>1, <3>2, <3>4, <3>7 DEF CallOK
        <4>3. IF selected = None THEN shown = <<>> ELSE cursor = before
          BY <3>1, <3>2, <3>4 DEF HolderOK
        <4>4. shown \in Seq(Entries) /\ IsRun(shown)
          BY DEF Types, ListOK
        <4>5. \/ shown = <<>>
              \/ /\ \A k \in DOMAIN shown : shown[k].dash = dash
                 /\ a.rows # <<>> => a.rows[1].id = Last(shown).id - 1
          <5>1. CASE selected = None
            BY <4>3, <5>1
          <5>2. CASE selected # None
            <6>1. cursor = before /\ cursor # None
              BY <4>2, <4>3, <5>2, NoneAssumption
            <6>2. cursor = Last(shown) /\ RowsOfSelected
              BY <5>2, <6>1 DEF ListOK
            <6>3. QED
              BY <3>5, <4>2, <5>2, <6>1, <6>2 DEF RowsOfSelected
          <5>3. QED
            BY <5>1, <5>2
        <4>6. IsRun(a.rows) /\ \A k \in DOMAIN a.rows : a.rows[k].dash = dash
          BY <3>3, <3>4 DEF IsPage
        <4>7. PICK up, rows : up = shown /\ rows = a.rows
          OBVIOUS
        <4>8. /\ IsRun(up \o rows)
              /\ rows # <<>> => up \o rows # <<>> /\ Last(up \o rows) = Last(rows)
              /\ \A k \in DOMAIN (up \o rows) :
                   \/ k \in DOMAIN up /\ (up \o rows)[k] = up[k]
                   \/ \E l \in DOMAIN rows : (up \o rows)[k] = rows[l]
          <5>1. /\ up \in Seq(Entries) /\ rows \in Seq(Entries) /\ IsRun(up) /\ IsRun(rows)
                /\ \A k \in DOMAIN rows : rows[k].dash = dash
            BY <3>3, <3>4, <4>4, <4>6, <4>7
          <5>2. \/ up = <<>>
                \/ /\ \A k \in DOMAIN up : up[k].dash = dash
                   /\ rows # <<>> => rows[1].id = Last(up).id - 1
            BY <4>5, <4>7
          <5>3. QED
            BY <5>1, <5>2, RunOn, ZenonT(40)
        <4>9. IsRun(shown')
          BY <4>1, <4>7, <4>8
        <4>10. ASSUME selected' # None, cursor' # None
               PROVE  /\ shown' # <<>> /\ cursor' = Last(shown') /\ cursor'.id > 1
                      /\ RowsOfSelected'
          <5>1. /\ rows # <<>> /\ a.next = Last(rows) /\ a.next.id > 1
            BY <3>3, <3>4, <4>1, <4>7, <4>10 DEF IsPage
          <5>2. selected' = dash
            BY <3>1, <3>5, <4>10
          <5>3. \A k \in DOMAIN up : up[k].dash = dash
            BY <4>5, <4>7
          <5>4. RowsOfSelected'
            BY <4>1, <4>6, <4>7, <4>8, <5>2, <5>3 DEF RowsOfSelected
          <5>5. QED
            BY <4>1, <4>7, <4>8, <5>1, <5>4
        <4>11. QED
          BY <3>1, <4>9, <4>10 DEF ListOK, NoHolder
      <3>8. QED
        BY <3>6, <3>7
    <2>4. QED
      BY <2>1, <2>2, <2>3
  <1>8. ASSUME NEW i \in DOMAIN calls, Answer(i) \/ Fail(i) PROVE ListOK'
    BY <1>8, HolderAnswer, AnswerDoes, FailDoes, ListStands
  <1>9. ASSUME NEW i \in DOMAIN calls, Refreshed(i) PROVE ListOK'
    <2>1. CASE SameList /\ (NoHolder \/ HolderKept)
      <3>1. CASE HolderKept
        BY <2>1, <3>1, ListStands DEF HolderKept
      <3>2. CASE NoHolder
        BY <2>1, <3>2 DEF ListOK, NoHolder, SameList, RowsOfSelected
      <3>3. QED
        BY <2>1, <3>1, <3>2
    <2>2. ASSUME selected # None, SameList,
                 NEW c \in Calls, c.fn = "refresh", c.dash = selected, OnlyHolder(c)
          PROVE  ListOK'
      <3>1. HolderOK(c)'
        BY <2>2 DEF HolderOK, SameList
      <3>2. \A j \in DOMAIN calls' : calls'[j].mine => calls'[j] = c
        BY <2>2 DEF OnlyHolder
      <3>3. QED
        BY <2>2, <3>1, <3>2 DEF ListOK, HolderOK, SameList, RowsOfSelected
    <2>3. CASE calls[i].at = "answered"
      <3>1. CASE ~calls[i].mine
        <4>1. SameList
          BY <1>9, <2>3, <3>1, RefreshedDoes DEF SameList, Failed
        <4>2. HolderKept
          BY <1>9, <2>3, <3>1, HolderRefreshed DEF Failed
        <4>3. QED
          BY <2>1, <4>1, <4>2
      <3>2. CASE calls[i].mine
        <4>1. /\ shown' = calls[i].answer.rows /\ cursor' = calls[i].answer.next
              /\ selected' = selected /\ calls[i].fn = "refresh"
          BY <1>9, <2>3, <3>2, RefreshedDoes DEF Failed
        <4>2. NoHolder
          BY <1>9, <2>3, <3>2, HolderRefreshed DEF Failed
        <4>3. IsPage(calls[i].answer, calls[i].dash) /\ calls[i].dash \in Dashboards
          BY <2>3, <4>1, ShownTypes
        <4>4. selected # None => calls[i].dash = selected
          BY <3>2 DEF ListOK, HolderOK
        <4>5. PICK a, dash : a = calls[i].answer /\ dash = calls[i].dash
          OBVIOUS
        <4>6. QED
          BY <4>1, <4>2, <4>3, <4>4, <4>5, ListReplaced
      <3>3. QED
        BY <3>1, <3>2
    <2>4. QED
      BY <1>9, <2>1, <2>2, <2>3, HolderRefreshed
  <1>10. ASSUME NEW i \in DOMAIN calls, Forgotten(i) PROVE ListOK'
    <2>1. HolderKept
      BY <1>10, HolderForgotten
    <2>2. CASE selected' = None /\ shown' = <<>>
      <3>1. IsRun(shown')
        BY <2>2 DEF IsRun
      <3>2. QED
        BY <2>2, <3>1 DEF ListOK, HolderOK
    <2>3. CASE selected' = selected /\ shown' = shown
      <3>1. SameList
        BY <1>10, <2>3, ForgottenDoes DEF SameList
      <3>2. QED
        BY <2>1, <3>1, ListStands DEF HolderKept
    <2>4. QED
      BY <1>10, <2>2, <2>3, ForgottenDoes
  <1>11. QED
    BY <1>1, <1>2, <1>3, <1>4, <1>5, <1>6, <1>7, <1>8, <1>9, <1>10 DEF Next, Deliver, Aside

--------------------------------------------------------------------------------
(* The rows are those of the dashboard chosen, or are on their way *)

LEMMA MishapsGrow ==
    ASSUME Types, OneMine, NewsOK, Next
    PROVE  mishaps \subseteq mishaps'
  <1>1. ASSUME Aside PROVE mishaps \subseteq mishaps'
    BY <1>1, AsideDoes
  <1>2. ASSUME Disconnect PROVE mishaps \subseteq mishaps'
    BY <1>2, DisconnectDoes
  <1>3. ASSUME NEW dash \in Dashboards, Pick(dash) PROVE mishaps' = mishaps
    BY <1>3, PickDoes
  <1>4. ASSUME LoadOlder PROVE mishaps \subseteq mishaps'
    BY <1>4, LoadOlderDoes
  <1>5. ASSUME NEW i \in DOMAIN calls, Answer(i) \/ Fail(i) PROVE mishaps \subseteq mishaps'
    BY <1>5, AnswerDoes, FailDoes
  <1>6. ASSUME NEW i \in DOMAIN calls, Deliver(i) PROVE mishaps \subseteq mishaps'
    BY <1>6, SelectedDoes, LoadedDoes, GotOlderDoes, RefreshedDoes, WrittenDoes,
       ForgottenDoes DEF Deliver
  <1>7. QED
    BY <1>1, <1>2, <1>3, <1>4, <1>5, <1>6 DEF Next, Aside

LEMMA LateStands ==
    ASSUME Late, mishaps \subseteq mishaps', SameList, SameHolder
    PROVE  Late'
  <1>1. RowsOfSelected => RowsOfSelected'
    BY DEF RowsOfSelected, SameList
  <1>2. ASSUME NEW k \in DOMAIN calls, Rereads(calls[k])
        PROVE  \E j \in DOMAIN calls' : calls'[j].mine /\ calls'[j].fn \in {"select", "refresh"}
    <2>1. PICK j \in DOMAIN calls' : calls'[j].mine /\ SameQuestion(calls'[j], calls[k])
      BY <1>2 DEF Rereads, SameHolder
    <2>2. QED
      BY <1>2, <2>1 DEF Rereads, SameQuestion
  <1>3. QED
    BY <1>1, <1>2 DEF Late, SameList, Rereads

LEMMA LateChosen ==
    ASSUME NEW c, OnlyHolder(c), c.mine, c.fn \in {"select", "refresh"}
    PROVE  Late' /\ \E j \in DOMAIN calls' : Rereads(calls[j])'
  BY DEF Late, OnlyHolder, Rereads

(* Whoever takes the ticket with an answer was the only one to reread.     *)
LEMMA OthersDoNot ==
    ASSUME OneMine, NEW i \in DOMAIN calls, calls[i].mine, calls[i].fn = "older"
    PROVE  \A j \in DOMAIN calls : ~Rereads(calls[j])
  BY DEF OneMine, Rereads

LEMMA InConcat ==
    ASSUME NEW up \in Seq(Entries), NEW rows \in Seq(Entries), NEW k \in DOMAIN (up \o rows)
    PROVE  \/ k \in DOMAIN up /\ (up \o rows)[k] = up[k]
           \/ \E l \in DOMAIN rows : (up \o rows)[k] = rows[l]
  <1>1. /\ Len(up) \in Nat /\ Len(rows) \in Nat
        /\ DOMAIN up = 1 .. Len(up) /\ DOMAIN rows = 1 .. Len(rows)
        /\ DOMAIN (up \o rows) = 1 .. Len(up) + Len(rows)
    <2>1. (up \o rows) \in Seq(Entries) /\ Len(up \o rows) = Len(up) + Len(rows)
      BY ConcatProperties
    <2>2. QED
      BY <2>1
  <1>2. (up \o rows)[k] = IF k <= Len(up) THEN up[k] ELSE rows[k - Len(up)]
    BY <1>1, ConcatProperties
  <1>3. CASE k <= Len(up)
    BY <1>1, <1>2, <1>3
  <1>4. CASE ~(k <= Len(up))
    <2>1. k - Len(up) \in DOMAIN rows
      BY <1>1, <1>4
    <2>2. QED
      BY <1>2, <1>4, <2>1
  <1>5. QED
    BY <1>3, <1>4

LEMMA LateStep ==
    ASSUME Types, Noted, OneMine, NewsOK, ListOK, Late, Next
    PROVE  Late'
  <1>m. mishaps \subseteq mishaps'
    BY MishapsGrow
  <1>1. ASSUME Aside PROVE Late'
    BY <1>1, <1>m, AsideDoes, LateStands DEF HolderKept
  <1>2. ASSUME Disconnect PROVE Late'
    BY <1>2, <1>m, DisconnectKeeps, DisconnectDoes, LateStands
  <1>3. ASSUME NEW dash \in Dashboards, NEW frees \in BOOLEAN,
               OnlyHolder(SelectCall(dash, frees))
        PROVE  Late'
    <2>1. PICK c : c = SelectCall(dash, frees)
      OBVIOUS
    <2>2. c.mine /\ c.fn = "select"
      BY <2>1, FreshCalls
    <2>3. QED
      BY <1>3, <2>1, <2>2, LateChosen
  <1>4. ASSUME NEW dash \in Dashboards, Pick(dash) PROVE Late'
    BY <1>3, <1>4, HolderPick
  <1>5. ASSUME NEW i \in DOMAIN calls, Selected(i) PROVE Late'
    <2>1. CASE ~calls[i].mine
      BY <1>m, <1>5, <2>1, HolderSelected, SelectedDoes, LateStands DEF HolderKept
    <2>2. CASE calls[i].mine /\ Failed(calls[i])
      BY <1>m, <2>2 DEF Noted, Late
    <2>3. CASE calls[i].mine /\ ~Failed(calls[i])
      <3>1. /\ shown' = calls[i].answer.rows
            /\ selected' = selected /\ calls[i].fn = "select" /\ ~Waiting(calls[i])
        BY <1>5, <2>3, SelectedDoes
      <3>2. calls[i] \in Calls /\ CallOK(calls[i])
        BY DEF Types
      <3>3. calls[i].at = "answered"
        BY <2>3, <3>1, <3>2 DEF CallOK, Calls, Waiting, Failed
      <3>4. IsPage(calls[i].answer, calls[i].dash)
        BY <3>1, <3>3, ShownTypes
      <3>5. selected # None => calls[i].dash = selected
        BY <2>3 DEF ListOK, HolderOK
      <3>6. selected' # None => RowsOfSelected'
        BY <3>1, <3>4, <3>5 DEF IsPage, RowsOfSelected
      <3>7. QED
        BY <3>6 DEF Late
    <2>4. QED
      BY <2>1, <2>2, <2>3
  <1>6. ASSUME NEW i \in DOMAIN calls, Loaded(i) PROVE Late'
    <2>1. calls[i] \in Calls
      BY DEF Types
    <2>2. calls[i].frees \in BOOLEAN
      BY <2>1 DEF Calls
    <2>3. ASSUME HolderKept, SameList PROVE Late'
      BY <1>m, <2>3, LateStands DEF HolderKept
    <2>4. QED
      BY <1>3, <1>6, <2>2, <2>3, HolderLoaded
  <1>7. ASSUME LoadOlder PROVE Late'
    <2>1. selected # None /\ cursor # None /\ SameList
      BY <1>7, LoadOlderDoes
    <2>2. RowsOfSelected
      BY <2>1 DEF ListOK
    <2>3. QED
      BY <2>1, <2>2 DEF Late, SameList, RowsOfSelected
  <1>8. ASSUME NEW i \in DOMAIN calls, GotOlder(i) PROVE Late'
    <2>1. CASE ~calls[i].mine
      <3>1. HolderKept /\ SameList
        BY <1>8, <2>1, HolderGotOlder, GotOlderDoes DEF SameList
      <3>2. QED
        BY <1>m, <3>1, LateStands DEF HolderKept
    <2>2. CASE calls[i].mine /\ calls[i].at # "answered"
      <3>1. SameList /\ calls[i].fn = "older"
        BY <1>8, <2>2, GotOlderDoes DEF SameList
      <3>2. "failed" \notin mishaps /\ selected # None => RowsOfSelected
        BY <2>2, <3>1, OthersDoNot DEF Late
      <3>3. QED
        BY <1>m, <3>1, <3>2 DEF Late, SameList, RowsOfSelected
    <2>3. CASE calls[i].mine /\ calls[i].at = "answered"
      <3>1. /\ shown' = Continued(calls[i].answer)
            /\ selected' = selected /\ calls[i].fn = "older"
        BY <1>8, <2>3, GotOlderDoes
      <3>2. "failed" \notin mishaps /\ selected # None => RowsOfSelected
        BY <2>3, <3>1, OthersDoNot DEF Late
      <3>3. selected # None => calls[i].dash = selected
        BY <2>3 DEF ListOK, HolderOK
      <3>4. IsPage(calls[i].answer, calls[i].dash) /\ calls[i].answer.rows \in Seq(Entries)
        BY <2>3, <3>1, ShownTypes
      <3>5. PICK up, rows : up = shown /\ rows = calls[i].answer.rows
        OBVIOUS
      <3>6. \A k \in DOMAIN (up \o rows) :
              \/ k \in DOMAIN up /\ (up \o rows)[k] = up[k]
              \/ \E l \in DOMAIN rows : (up \o rows)[k] = rows[l]
        <4>1. up \in Seq(Entries) /\ rows \in Seq(Entries)
          BY <3>4, <3>5 DEF Types
        <4>2. QED
          BY <4>1, InConcat
      <3>7. shown' = rows \/ shown' = up \o rows
        BY <3>1, <3>5 DEF Continued
      <3>8. "failed" \notin mishaps /\ selected' # None => RowsOfSelected'
        <4>1. SUFFICES ASSUME "failed" \notin mishaps, selected' # None PROVE RowsOfSelected'
          OBVIOUS
        <4>2. /\ \A k \in DOMAIN rows : rows[k].dash = selected
              /\ \A k \in DOMAIN up : up[k].dash = selected
          BY <3>1, <3>2, <3>3, <3>4, <3>5, <4>1 DEF IsPage, RowsOfSelected
        <4>3. CASE shown' = rows
          BY <3>1, <4>2, <4>3 DEF RowsOfSelected
        <4>4. CASE shown' = up \o rows
          <5>1. \A k \in DOMAIN (up \o rows) : (up \o rows)[k].dash = selected
            BY <3>6, <4>2
          <5>2. QED
            BY <3>1, <4>4, <5>1 DEF RowsOfSelected
        <4>5. QED
          BY <3>7, <4>3, <4>4
      <3>9. QED
        BY <1>m, <3>8 DEF Late
    <2>4. QED
      BY <2>1, <2>2, <2>3
  <1>9. ASSUME NEW i \in DOMAIN calls, Answer(i) \/ Fail(i) PROVE Late'
    BY <1>9, <1>m, HolderAnswer, AnswerDoes, FailDoes, LateStands
  <1>10. ASSUME NEW i \in DOMAIN calls, Refreshed(i) PROVE Late'
    <2>1. CASE Failed(calls[i])
      BY <1>m, <2>1 DEF Noted, Late
    <2>2. CASE HolderKept /\ SameList
      BY <1>m, <2>2, LateStands DEF HolderKept
    <2>3. ASSUME NEW c \in Calls, c.fn = "refresh", c.mine, OnlyHolder(c)
          PROVE  Late'
      BY <2>3, LateChosen
    <2>4. CASE calls[i].at = "answered"
      <3>1. CASE ~calls[i].mine
        <4>1. SameList
          BY <1>10, <2>4, <3>1, RefreshedDoes DEF SameList, Failed
        <4>2. HolderKept
          BY <1>10, <2>4, <3>1, HolderRefreshed DEF Failed
        <4>3. QED
          BY <2>2, <4>1, <4>2
      <3>2. CASE calls[i].mine
        <4>1. /\ shown' = calls[i].answer.rows
              /\ selected' = selected /\ calls[i].fn = "refresh"
          BY <1>10, <2>4, <3>2, RefreshedDoes DEF Failed
        <4>2. IsPage(calls[i].answer, calls[i].dash)
          BY <2>4, <4>1, ShownTypes
        <4>3. selected # None => calls[i].dash = selected
          BY <3>2 DEF ListOK, HolderOK
        <4>4. selected' # None => RowsOfSelected'
          BY <4>1, <4>2, <4>3 DEF IsPage, RowsOfSelected
        <4>5. QED
          BY <4>4 DEF Late
      <3>3. QED
        BY <3>1, <3>2
    <2>5. QED
      BY <1>10, <2>1, <2>2, <2>3, <2>4, HolderRefreshed
  <1>11. ASSUME NEW i \in DOMAIN calls, Forgotten(i) PROVE Late'
    <2>1. CASE selected' = None
      BY <2>1 DEF Late
    <2>2. CASE selected' = selected /\ shown' = shown
      <3>1. SameList /\ HolderKept
        BY <1>11, <2>2, ForgottenDoes, HolderForgotten DEF SameList
      <3>2. QED
        BY <1>m, <3>1, LateStands DEF HolderKept
    <2>3. QED
      BY <1>11, <2>1, <2>2, ForgottenDoes
  <1>12. QED
    BY <1>1, <1>2, <1>4, <1>5, <1>6, <1>7, <1>8, <1>9, <1>10, <1>11
       DEF Next, Deliver, Aside

--------------------------------------------------------------------------------
(* Where the list ends *)

Grows == \/ generation' = generation /\ log \subseteq log'
         \/ generation' = generation + 1

LEMMA KnownStays ==
    ASSUME generation \in Nat, Grows, NEW c, NEW g, Known(c, g)
    PROVE  Known(c, g)'
  <1>1. g \in Nat /\ g <= generation /\ (c = None \/ c \in log \/ g < generation)
    BY DEF Known
  <1>2. CASE generation' = generation /\ log \subseteq log'
    BY <1>1, <1>2 DEF Known
  <1>3. CASE generation' = generation + 1
    <2>1. g <= generation' /\ g < generation'
      BY <1>1, <1>3
    <2>2. QED
      BY <1>1, <2>1 DEF Known
  <1>4. QED
    BY <1>2, <1>3 DEF Grows

LEMMA HolderStillKnows ==
    ASSUME generation \in Nat, Grows, SameList, NEW d, NEW c, Alike(d, c), HolderKnows(c)
    PROVE  HolderKnows(d)'
  <1>1. /\ d.fn = c.fn /\ d.at = c.at /\ d.before = c.before /\ d.since = c.since
        /\ d.answer = c.answer
    BY DEF Alike
  <1>2. c.fn = "older" => Known(c.before, c.since)'
    BY KnownStays DEF HolderKnows
  <1>3. c.at = "answered" =>
          /\ c.fn = "older" /\ ~c.answer.restarted => c.answer.rows # <<>>
          /\ c.fn = "refresh" /\ selected # None => Known(c.answer.next, cursorGeneration)
    BY DEF HolderKnows
  <1>4. PICK g : g = cursorGeneration
    OBVIOUS
  <1>5. c.at = "answered" /\ c.fn = "refresh" /\ selected # None => Known(c.answer.next, g)'
    BY <1>3, <1>4, KnownStays
  <1>6. g = cursorGeneration' /\ selected' = selected
    BY <1>4 DEF SameList
  <1>7. QED
    BY <1>1, <1>2, <1>3, <1>5, <1>6 DEF HolderKnows, Known

LEMMA ListStillKnown ==
    ASSUME Types, End, Grows, SameList, mishaps \subseteq mishaps'
    PROVE  "failed" \notin mishaps' /\ versionsLoaded' =>
             /\ shown' # <<>> /\ cursor' = None => Last(shown').id = 1
             /\ selected' # None => Known(cursor, cursorGeneration)'
  <1>1. PICK c, g : c = cursor /\ g = cursorGeneration
    OBVIOUS
  <1>2. "failed" \notin mishaps' /\ versionsLoaded =>
          /\ shown # <<>> /\ cursor = None => Last(shown).id = 1
          /\ selected # None => Known(c, g)
    BY <1>1 DEF End
  <1>3. Known(c, g) => Known(c, g)'
    BY KnownStays DEF Types
  <1>4. c = cursor' /\ g = cursorGeneration'
    BY <1>1 DEF SameList
  <1>5. QED
    BY <1>2, <1>3, <1>4 DEF SameList, Known

LEMMA EndStands ==
    ASSUME Types, End, Grows, SameList, HolderKept, mishaps \subseteq mishaps'
    PROVE  End'
  <1>1. generation \in Nat
    BY DEF Types
  <1>2. ASSUME "failed" \notin mishaps', NEW d, NEW j \in DOMAIN calls', d = calls'[j], d.mine
        PROVE  /\ d.at = "answered" /\ d.fn \in {"select", "older"} =>
                    Known(d.answer.next, d.answer.generation)'
               /\ versionsLoaded' => HolderKnows(d)'
    <2>1. PICK k \in DOMAIN calls : calls[k].mine /\ Alike(d, calls[k])
      BY <1>2 DEF HolderKept
    <2>2. PICK c : c = calls[k]
      OBVIOUS
    <2>3. c.mine /\ Alike(d, c) /\ "failed" \notin mishaps
      BY <1>2, <2>1, <2>2
    <2>4. d.at = "answered" /\ d.fn \in {"select", "older"} =>
            Known(d.answer.next, d.answer.generation)
      BY <2>1, <2>2, <2>3 DEF End, Alike
    <2>5. versionsLoaded => HolderKnows(c)
      BY <2>1, <2>2, <2>3 DEF End
    <2>6. versionsLoaded' => HolderKnows(d)'
      BY <1>1, <2>3, <2>5, HolderStillKnows DEF SameList
    <2>7. QED
      BY <1>1, <2>4, <2>6, KnownStays
  <1>3. QED
    BY <1>2, ListStillKnown DEF End, Known, HolderKnows

LEMMA EndSelecting ==
    ASSUME NEW dash \in Dashboards, NEW frees \in BOOLEAN,
           OnlyHolder(SelectCall(dash, frees)), Selecting(dash)
    PROVE  End'
  <1>1. PICK c : c = SelectCall(dash, frees)
    OBVIOUS
  <1>2. c.at = "asked"
    BY <1>1, FreshCalls
  <1>3. \A j \in DOMAIN calls' : calls'[j].mine => calls'[j] = c
    BY <1>1 DEF OnlyHolder
  <1>4. versionsLoaded' = FALSE
    BY DEF Selecting
  <1>5. QED
    BY <1>2, <1>3, <1>4 DEF End

LEMMA AsideGrows ==
    ASSUME Types, NewsOK, Aside
    PROVE  Grows
  <1>1. ASSUME NEW dash \in Dashboards, Record(dash) PROVE Grows
    <2>1. generation' = generation
      BY <1>1, RecordDoes
    <2>2. log \subseteq log'
      BY <1>1, RecordDoes
    <2>3. QED
      BY <2>1, <2>2 DEF Grows
  <1>2. ASSUME NEW dash \in Dashboards, ForgetBegins(dash) PROVE Grows
    BY <1>2, ForgetBeginsDoes DEF Grows
  <1>3. ASSUME ForgetEnds PROVE Grows
    BY <1>3, ForgetEndsDoes DEF Grows
  <1>4. ASSUME NEW dash \in Dashboards, Forget(dash) PROVE Grows
    BY <1>4, ForgetDoes DEF Grows, SameServer
  <1>5. ASSUME Reload PROVE Grows
    BY <1>5, ReloadDoes DEF Grows, SameServer
  <1>6. ASSUME HearRecorded PROVE Grows
    BY <1>6, HearRecordedDoes DEF Grows, SameServer
  <1>7. ASSUME HearForgetting PROVE Grows
    BY <1>7, HearForgettingDoes DEF Grows, SameServer
  <1>8. ASSUME Reconnect PROVE Grows
    BY <1>8, ReconnectDoes DEF Grows, SameServer
  <1>9. ASSUME OpenDialog \/ Cancel \/ RunsOut PROVE Grows
    BY <1>9, DialogDoes DEF Grows, SameServer
  <1>10. ASSUME NEW fn \in {"write", "note"}, Apply(fn) PROVE Grows
    BY <1>10, ApplyDoes DEF Grows, SameServer
  <1>11. ASSUME NEW i \in DOMAIN calls, Written(i) PROVE Grows
    BY <1>11, WrittenDoes DEF Grows, SameServer
  <1>12. QED
    BY <1>1, <1>2, <1>3, <1>4, <1>5, <1>6, <1>7, <1>8, <1>9, <1>10, <1>11 DEF Aside

LEMMA EndSelected ==
    ASSUME Types, Noted, OneMine, ListOK, End, NEW i \in DOMAIN calls, Selected(i)
    PROVE  End'
  <1>1. mishaps' = mishaps /\ Grows
    BY SelectedDoes DEF Grows, SameServer
  <1>2. CASE ~calls[i].mine
    BY <1>1, <1>2, HolderSelected, SelectedDoes, EndStands
  <1>3. CASE Failed(calls[i])
    BY <1>1, <1>3 DEF Noted, End
  <1>4. CASE calls[i].mine /\ ~Failed(calls[i])
    <2>1. /\ NoHolder /\ shown' = calls[i].answer.rows /\ cursor' = calls[i].answer.next
          /\ cursorGeneration' = calls[i].answer.generation
          /\ calls[i].fn = "select" /\ ~Waiting(calls[i]) /\ SameServer
      BY <1>4, HolderSelected, SelectedDoes
    <2>2. calls[i] \in Calls /\ CallOK(calls[i])
      BY DEF Types
    <2>3. calls[i].at = "answered"
      BY <1>4, <2>1, <2>2 DEF CallOK, Calls, Waiting, Failed
    <2>4. IsPage(calls[i].answer, calls[i].dash)
      BY <2>1, <2>3, ShownTypes
    <2>5. "failed" \notin mishaps => Known(calls[i].answer.next, calls[i].answer.generation)
      BY <1>4, <2>1, <2>3 DEF End
    <2>6. "failed" \notin mishaps' => Known(cursor, cursorGeneration)'
      BY <1>1, <2>1, <2>5 DEF Known, SameServer
    <2>7. shown' # <<>> /\ cursor' = None => Last(shown').id = 1
      BY <2>1, <2>4 DEF IsPage
    <2>8. QED
      BY <2>1, <2>6, <2>7 DEF End, NoHolder, Known
  <1>5. QED
    BY <1>2, <1>3, <1>4

LEMMA EndLoadOlder ==
    ASSUME Types, OneMine, ListOK, End, LoadOlder
    PROVE  End'
  <1>1. PICK c : c = OlderCall(selected, cursor, cursorGeneration)
    OBVIOUS
  <1>2. /\ SameList /\ SameServer /\ mishaps \subseteq mishaps' /\ selected # None
        /\ selected \in Dashboards /\ cursor \in Entries
        /\ cursorGeneration \in Nat \cup {None}
    BY LoadOlderDoes DEF Types
  <1>3. c.fn = "older" /\ c.before = cursor /\ c.since = cursorGeneration /\ c.at = "asked"
    <2>1. PICK dash, before, since : dash = selected /\ before = cursor
                                     /\ since = cursorGeneration
      OBVIOUS
    <2>2. c = OlderCall(dash, before, since) /\ dash \in Dashboards /\ before \in Entries
          /\ since \in Nat \cup {None}
      BY <1>1, <1>2, <2>1
    <2>3. QED
      BY <2>1, <2>2, FreshCalls
  <1>4. \A j \in DOMAIN calls' : calls'[j].mine => calls'[j] = c
    BY <1>1, HolderLoadOlder DEF OnlyHolder
  <1>5. Grows
    BY <1>2 DEF Grows, SameServer
  <1>6. "failed" \notin mishaps' /\ versionsLoaded' =>
          /\ shown' # <<>> /\ cursor' = None => Last(shown').id = 1
          /\ selected' # None => Known(cursor, cursorGeneration)'
    BY <1>2, <1>5, ListStillKnown
  <1>7. cursor' = cursor /\ cursorGeneration' = cursorGeneration /\ selected' = selected
    BY <1>2 DEF SameList
  <1>8. "failed" \notin mishaps' /\ versionsLoaded' => HolderKnows(c)'
    BY <1>2, <1>3, <1>6, <1>7 DEF HolderKnows, Known
  <1>9. QED
    BY <1>3, <1>4, <1>6, <1>8 DEF End, Known, HolderKnows

LEMMA EndGotOlder ==
    ASSUME Types, Noted, OneMine, ListOK, End, NEW i \in DOMAIN calls, GotOlder(i)
    PROVE  End'
  <1>1. /\ mishaps' = mishaps /\ Grows /\ SameServer /\ calls[i].fn = "older"
        /\ ~Waiting(calls[i])
    BY GotOlderDoes DEF Grows, SameServer
  <1>2. CASE ~calls[i].mine
    <2>1. HolderKept /\ SameList
      BY <1>2, HolderGotOlder, GotOlderDoes DEF SameList
    <2>2. QED
      BY <1>1, <2>1, EndStands
  <1>3. CASE Failed(calls[i])
    BY <1>1, <1>3 DEF Noted, End
  <1>4. CASE calls[i].mine /\ ~Failed(calls[i])
    <2>1. calls[i] \in Calls /\ CallOK(calls[i])
      BY DEF Types
    <2>2. calls[i].at = "answered"
      BY <1>1, <1>4, <2>1 DEF CallOK, Calls, Waiting, Failed
    <2>3. PICK a : a = calls[i].answer
      OBVIOUS
    <2>4. /\ NoHolder /\ shown' = Continued(a) /\ cursor' = a.next
          /\ cursorGeneration' = a.generation /\ selected' = selected
          /\ versionsLoaded' = versionsLoaded
      BY <1>4, <2>2, <2>3, HolderGotOlder, GotOlderDoes
    <2>5. IsPage(a, calls[i].dash) /\ a.rows \in Seq(Entries)
      BY <1>1, <2>2, <2>3, ShownTypes
    <2>6. "failed" \notin mishaps => Known(a.next, a.generation)
      BY <1>1, <1>4, <2>2, <2>3 DEF End
    <2>7. "failed" \notin mishaps' => Known(cursor, cursorGeneration)'
      BY <1>1, <2>4, <2>6 DEF Known, SameServer
    <2>8. ASSUME "failed" \notin mishaps', versionsLoaded', shown' # <<>>, cursor' = None
          PROVE  Last(shown').id = 1
      <3>1. HolderKnows(calls[i])
        BY <1>1, <1>4, <2>4, <2>8 DEF End
      <3>2. ~a.restarted => a.rows # <<>>
        BY <1>1, <2>2, <2>3, <3>1 DEF HolderKnows
      <3>3. CASE a.restarted
        <4>1. shown' = a.rows
          BY <2>4, <3>3 DEF Continued
        <4>2. QED
          BY <2>4, <2>5, <2>8, <4>1 DEF IsPage
      <3>4. CASE ~a.restarted
        <4>1. shown' = shown \o a.rows
          BY <2>4, <3>4 DEF Continued
        <4>2. PICK up, rows : up = shown /\ rows = a.rows
          OBVIOUS
        <4>3. rows # <<>> /\ up \in Seq(Entries) /\ rows \in Seq(Entries)
          BY <2>5, <3>2, <3>4, <4>2 DEF Types
        <4>4. Last(up \o rows) = Last(rows)
          <5>1. /\ Len(up \o rows) = Len(up) + Len(rows) /\ Len(rows) \in Nat
                /\ Len(up) \in Nat /\ Len(rows) > 0
            BY <4>3, ConcatProperties
          <5>2. /\ Len(up) + Len(rows) \in 1 .. Len(up) + Len(rows)
                /\ ~(Len(up) + Len(rows) <= Len(up))
                /\ Len(up) + Len(rows) - Len(up) = Len(rows)
            BY <5>1
          <5>3. (up \o rows)[Len(up) + Len(rows)] = rows[Len(rows)]
            BY <4>3, <5>2, ConcatProperties
          <5>4. QED
            BY <5>1, <5>3 DEF Last
        <4>5. Last(rows).id = 1
          BY <2>4, <2>5, <2>8, <4>2, <4>3 DEF IsPage
        <4>6. QED
          BY <4>1, <4>2, <4>4, <4>5
      <3>5. QED
        BY <3>3, <3>4
    <2>9. QED
      BY <2>4, <2>7, <2>8 DEF End, NoHolder, Known
  <1>5. QED
    BY <1>2, <1>3, <1>4

LEMMA EndAnswer ==
    ASSUME Types, OneMine, ListOK, End, NEW i \in DOMAIN calls, Answer(i)
    PROVE  End'
  <1>1. PICK c \in Calls :
          /\ Turned(calls, calls', {i}, FALSE, {c}) /\ SameQuestion(c, calls[i])
          /\ \/ c.at = "listed"
             \/ calls[i].fn \in {"forget", "write", "note"}
             \/ /\ calls[i].at = "asked" /\ c.at = "answered"
                /\ calls[i].fn \in {"select", "older", "refresh"}
                /\ c.answer = HistoryPage(calls[i].dash, calls[i].before, calls[i].since)
    BY AnswerDoes
  <1>2. SameList /\ SameServer /\ mishaps' = mishaps /\ Grows /\ generation \in Nat
    BY AnswerDoes DEF Grows, SameServer, Types
  <1>3. Went(calls, calls', {i}, FALSE, {c})
    BY <1>1, CallsCarried
  <1>4. "failed" \notin mishaps' /\ versionsLoaded' =>
          /\ shown' # <<>> /\ cursor' = None => Last(shown').id = 1
          /\ selected' # None => Known(cursor, cursorGeneration)'
    BY <1>2, ListStillKnown
  <1>5. ASSUME "failed" \notin mishaps', NEW d, NEW k \in DOMAIN calls, d.mine,
               Carried(d, calls[k], FALSE)
        PROVE  /\ d.at = "answered" /\ d.fn \in {"select", "older"} =>
                    Known(d.answer.next, d.answer.generation)'
               /\ versionsLoaded' => HolderKnows(d)'
    <2>1. calls[k].mine /\ Alike(d, calls[k])
      BY <1>5 DEF Carried
    <2>2. PICK e : e = calls[k]
      OBVIOUS
    <2>3. d.at = "answered" /\ d.fn \in {"select", "older"} =>
            Known(d.answer.next, d.answer.generation)
      BY <1>2, <1>5, <2>1 DEF End, Alike
    <2>4. versionsLoaded => HolderKnows(e)
      BY <1>2, <1>5, <2>1, <2>2 DEF End
    <2>5. versionsLoaded' => HolderKnows(d)'
      BY <1>2, <2>1, <2>2, <2>4, HolderStillKnows DEF SameList
    <2>6. QED
      BY <1>2, <2>3, <2>5, KnownStays
  <1>6. ASSUME "failed" \notin mishaps', c.mine
        PROVE  /\ c.at = "answered" /\ c.fn \in {"select", "older"} =>
                    Known(c.answer.next, c.answer.generation)'
               /\ versionsLoaded' => HolderKnows(c)'
    <2>1. /\ calls[i].mine /\ c.fn = calls[i].fn /\ c.before = calls[i].before
          /\ c.since = calls[i].since
      BY <1>1, <1>6 DEF SameQuestion
    <2>2. CallOK(calls[i])
      BY DEF Types
    <2>3. calls[i].fn \notin {"forget", "write", "note"}
      BY <2>1, <2>2 DEF CallOK
    <2>4. versionsLoaded => (c.fn = "older" => Known(c.before, c.since))
      BY <1>2, <1>6, <2>1 DEF End, HolderKnows
    <2>5. CASE c.at = "listed"
      BY <1>2, <2>4, <2>5 DEF HolderKnows, Known, SameServer, SameList
    <2>6. CASE /\ calls[i].at = "asked" /\ c.at = "answered"
               /\ calls[i].fn \in {"select", "older", "refresh"}
               /\ c.answer = HistoryPage(calls[i].dash, calls[i].before, calls[i].since)
      <3>1. /\ c.answer.generation = generation
            /\ c.answer.next # None => c.answer.next \in log
            /\ c.fn = "older" /\ ~c.answer.restarted =>
                 c.answer.rows # <<>> \/ ~Known(c.before, c.since)
        BY <1>1, <2>6, Answered
      <3>2. Known(c.answer.next, c.answer.generation)'
        BY <1>2, <3>1 DEF Known, SameServer
      <3>3. versionsLoaded /\ selected # None => Known(cursor, cursorGeneration)
        BY <1>2, <1>6 DEF End
      <3>4. versionsLoaded /\ selected # None => Known(c.answer.next, cursorGeneration)
        BY <3>1, <3>3 DEF Known
      <3>5. versionsLoaded => HolderKnows(c)
        BY <2>4, <2>6, <3>1, <3>4 DEF HolderKnows
      <3>6. versionsLoaded' => HolderKnows(c)'
        BY <1>2, <3>5 DEF HolderKnows, Known, SameServer, SameList
      <3>7. QED
        BY <3>2, <3>6
    <2>7. QED
      BY <1>1, <2>3, <2>5, <2>6
  <1>7. ASSUME "failed" \notin mishaps', NEW d, NEW j \in DOMAIN calls', d = calls'[j], d.mine
        PROVE  /\ d.at = "answered" /\ d.fn \in {"select", "older"} =>
                    Known(d.answer.next, d.answer.generation)'
               /\ versionsLoaded' => HolderKnows(d)'
    <2>1. d = c \/ \E k \in DOMAIN calls : Carried(d, calls[k], FALSE)
      BY <1>3, <1>7 DEF Went
    <2>2. QED
      BY <1>5, <1>6, <1>7, <2>1
  <1>8. QED
    BY <1>4, <1>7 DEF End, Known, HolderKnows

LEMMA EndRefreshed ==
    ASSUME Types, Noted, OneMine, ListOK, End, NEW i \in DOMAIN calls, Refreshed(i)
    PROVE  End'
  <1>1. /\ mishaps' = mishaps /\ Grows /\ SameServer /\ calls[i].fn = "refresh"
        /\ ~Waiting(calls[i])
    BY RefreshedDoes DEF Grows, SameServer
  <1>2. CASE Failed(calls[i])
    BY <1>1, <1>2 DEF Noted, End
  <1>3. CASE HolderKept /\ SameList
    BY <1>1, <1>3, EndStands
  <1>4. ASSUME SameList, NEW c \in Calls, c.fn = "refresh", c.at = "asked", OnlyHolder(c)
        PROVE  End'
    <2>1. "failed" \notin mishaps' /\ versionsLoaded' =>
            /\ shown' # <<>> /\ cursor' = None => Last(shown').id = 1
            /\ selected' # None => Known(cursor, cursorGeneration)'
      BY <1>1, <1>4, ListStillKnown
    <2>2. \A j \in DOMAIN calls' : calls'[j].mine => calls'[j] = c
      BY <1>4 DEF OnlyHolder
    <2>3. HolderKnows(c)'
      BY <1>4 DEF HolderKnows
    <2>4. QED
      BY <1>4, <2>1, <2>2, <2>3 DEF End, Known, HolderKnows
  <1>5. CASE calls[i].at = "answered" /\ ~calls[i].mine
    <2>1. SameList
      BY <1>5, RefreshedDoes DEF SameList, Failed
    <2>2. HolderKept
      BY <1>5, HolderRefreshed DEF Failed
    <2>3. QED
      BY <1>3, <2>1, <2>2
  <1>6. CASE calls[i].at = "answered" /\ calls[i].mine
    <2>1. PICK a : a = calls[i].answer
      OBVIOUS
    <2>2. /\ shown' = a.rows /\ cursor' = a.next
      BY <1>6, <2>1, RefreshedDoes DEF Failed
    <2>3. /\ selected' = selected /\ cursorGeneration' = cursorGeneration
          /\ versionsLoaded' = versionsLoaded
      BY RefreshedDoes
    <2>4. NoHolder
      BY <1>6, HolderRefreshed DEF Failed
    <2>5. IsPage(a, calls[i].dash)
      BY <1>1, <1>6, <2>1, ShownTypes
    <2>6. ASSUME "failed" \notin mishaps, versionsLoaded, selected # None
          PROVE  Known(a.next, cursorGeneration)
      <3>1. HolderKnows(calls[i])
        BY <1>6, <2>6 DEF End
      <3>2. QED
        BY <1>1, <1>6, <2>1, <2>6, <3>1 DEF HolderKnows
    <2>7. "failed" \notin mishaps' /\ versionsLoaded' /\ selected' # None =>
            Known(cursor, cursorGeneration)'
      BY <1>1, <2>2, <2>3, <2>6 DEF Known, SameServer
    <2>8. shown' # <<>> /\ cursor' = None => Last(shown').id = 1
      BY <2>2, <2>5 DEF IsPage
    <2>9. QED
      BY <2>4, <2>7, <2>8 DEF End, NoHolder, Known
  <1>7. QED
    BY <1>2, <1>3, <1>4, <1>5, <1>6, HolderRefreshed

LEMMA EndForgotten ==
    ASSUME Types, OneMine, End, NEW i \in DOMAIN calls, Forgotten(i)
    PROVE  End'
  <1>1. CASE selected' = selected /\ shown' = shown
    <2>1. SameList /\ HolderKept /\ SameServer /\ mishaps \subseteq mishaps'
      BY <1>1, ForgottenDoes, HolderForgotten DEF SameList
    <2>2. QED
      BY <2>1, EndStands DEF Grows, SameServer
  <1>2. CASE /\ mishaps' = mishaps /\ SameServer /\ selected' = None /\ shown' = <<>>
             /\ versionsLoaded' = versionsLoaded
    <2>1. ASSUME "failed" \notin mishaps', NEW d, NEW j \in DOMAIN calls', d = calls'[j], d.mine
          PROVE  /\ d.at = "answered" /\ d.fn \in {"select", "older"} =>
                      Known(d.answer.next, d.answer.generation)'
                 /\ versionsLoaded' => HolderKnows(d)'
      <3>1. PICK k \in DOMAIN calls : calls[k].mine /\ Alike(d, calls[k])
        BY <2>1, HolderForgotten DEF HolderKept
      <3>2. d.at = "answered" /\ d.fn \in {"select", "older"} =>
              Known(d.answer.next, d.answer.generation)
        BY <1>2, <2>1, <3>1 DEF End, Alike
      <3>3. versionsLoaded =>
              /\ d.fn = "older" => Known(d.before, d.since)
              /\ d.at = "answered" /\ d.fn = "older" /\ ~d.answer.restarted => d.answer.rows # <<>>
        BY <1>2, <2>1, <3>1 DEF End, Alike, HolderKnows
      <3>4. QED
        BY <1>2, <3>2, <3>3 DEF HolderKnows, Known, SameServer
    <2>2. QED
      BY <1>2, <2>1 DEF End, Known, HolderKnows
  <1>3. QED
    BY <1>1, <1>2, ForgottenDoes

LEMMA EndStep ==
    ASSUME Types, Noted, OneMine, NewsOK, ListOK, End, Next
    PROVE  End'
  <1>m. mishaps \subseteq mishaps'
    BY MishapsGrow
  <1>1. ASSUME Aside PROVE End'
    BY <1>1, <1>m, AsideDoes, AsideGrows, EndStands
  <1>2. ASSUME Disconnect PROVE End'
    <2>1. SameList /\ SameServer /\ (calls' = calls \/ "failed" \in mishaps')
      BY <1>2, DisconnectDoes
    <2>2. CASE calls' = calls
      BY <1>m, <2>1, <2>2, SameCalls, EndStands DEF Grows, SameServer
    <2>3. CASE "failed" \in mishaps'
      BY <2>3 DEF End
    <2>4. QED
      BY <2>1, <2>2, <2>3
  <1>3. ASSUME NEW dash \in Dashboards, Pick(dash) PROVE End'
    BY <1>3, HolderPick, PickDoes, EndSelecting
  <1>4. ASSUME NEW i \in DOMAIN calls, Loaded(i) PROVE End'
    <2>1. calls[i] \in Calls
      BY DEF Types
    <2>2. PICK frees \in BOOLEAN : frees = calls[i].frees
      BY <2>1 DEF Calls
    <2>3. ASSUME NEW first \in Dashboards,
                 OnlyHolder(SelectCall(first, calls[i].frees)), Selecting(first)
          PROVE  End'
      <3>1. OnlyHolder(SelectCall(first, frees))
        BY <2>2, <2>3
      <3>2. QED
        BY <2>3, <3>1, EndSelecting
    <2>4. SameServer /\ Grows
      BY <1>4, LoadedDoes DEF Grows, SameServer
    <2>5. ASSUME HolderKept, SameList PROVE End'
      BY <1>m, <2>4, <2>5, EndStands
    <2>6. QED
      BY <1>4, <2>3, <2>5, HolderLoaded
  <1>5. ASSUME NEW i \in DOMAIN calls, Fail(i) PROVE End'
    BY <1>5, FailDoes DEF End
  <1>6. QED
    BY <1>1, <1>2, <1>3, <1>4, <1>5, EndSelected, EndLoadOlder, EndGotOlder, EndAnswer,
       EndRefreshed, EndForgotten DEF Next, Deliver, Aside

--------------------------------------------------------------------------------
(* What is announced *)

LEMMA HeardStays ==
    ASSUME news \in Seq(Events), NEW e \in Events, Announce(e)
    PROVE  /\ \A x : Heard(x) => Heard(x)'
           /\ connected => Heard(e)'
           /\ \A x : Heard(x)' => Heard(x) \/ x = e
  <1>1. CASE connected /\ news' = Append(news, e)
    <2>1. /\ DOMAIN news = 1 .. Len(news) /\ Len(news) \in Nat
          /\ DOMAIN news' = 1 .. Len(news) + 1
          /\ \A i \in 1 .. Len(news) : news'[i] = news[i]
          /\ news'[Len(news) + 1] = e
      BY <1>1
    <2>2. Len(news) + 1 \in DOMAIN news'
      BY <2>1
    <2>3. \A i \in DOMAIN news : i \in DOMAIN news' /\ news'[i] = news[i]
      BY <2>1
    <2>4. \A i \in DOMAIN news' : i \in DOMAIN news \/ i = Len(news) + 1
      BY <2>1
    <2>5. QED
      BY <2>1, <2>2, <2>3, <2>4 DEF Heard
  <1>2. CASE ~connected /\ news' = news
    BY <1>2 DEF Heard
  <1>3. QED
    BY <1>1, <1>2, Announced

LEMMA HeardRest ==
    ASSUME news \in Seq(Events), news # <<>>, news' = Tail(news)
    PROVE  /\ \A x : Heard(x) => x = news[1] \/ Heard(x)'
           /\ \A x : Heard(x)' => Heard(x)
           /\ Heard(news[1])
  <1>1. /\ DOMAIN news = 1 .. Len(news) /\ Len(news) \in Nat \ {0}
        /\ DOMAIN news' = 1 .. Len(news) - 1
        /\ \A i \in 1 .. Len(news) - 1 : news'[i] = news[i + 1]
    BY TailTypes
  <1>2. ASSUME NEW i \in DOMAIN news, i # 1
        PROVE  i - 1 \in DOMAIN news' /\ news'[i - 1] = news[i]
    <2>1. i - 1 \in 1 .. Len(news) - 1 /\ i - 1 + 1 = i
      BY <1>1, <1>2
    <2>2. QED
      BY <1>1, <2>1
  <1>3. ASSUME NEW i \in DOMAIN news'
        PROVE  i + 1 \in DOMAIN news /\ news'[i] = news[i + 1]
    BY <1>1
  <1>4. 1 \in DOMAIN news
    BY <1>1
  <1>5. QED
    BY <1>2, <1>3, <1>4, SMTT(30) DEF Heard

(* What is heard is gone from the announcements to come.                   *)
LEMMA NewsHeard ==
    ASSUME news \in Seq(Events), news # <<>>, news' = Tail(news), NewsOK,
           SameServer, connected' = connected
    PROVE  NewsOK'
  <1>1. /\ DOMAIN news = 1 .. Len(news) /\ Len(news) \in Nat \ {0}
        /\ DOMAIN news' = 1 .. Len(news) - 1 /\ Len(news') = Len(news) - 1
        /\ \A i \in 1 .. Len(news) - 1 : news'[i] = news[i + 1]
    BY TailTypes
  <1>2. \A dash : Newest(dash)' = Newest(dash) /\ (Erased(dash)' <=> Erased(dash))
    BY DEF Newest, Erased, SameServer
  <1>3. ASSUME NEW i \in DOMAIN news', news'[i].kind = "done"
        PROVE  /\ Erased(news'[i].dash)
               /\ \A j \in DOMAIN news' : news'[j] = news'[i] => j = i
    <2>1. i + 1 \in DOMAIN news /\ news'[i] = news[i + 1]
      BY <1>1
    <2>2. \A j \in DOMAIN news' : j + 1 \in DOMAIN news /\ news'[j] = news[j + 1]
      BY <1>1
    <2>3. Erased(news[i + 1].dash) /\ \A j \in DOMAIN news : news[j] = news[i + 1] => j = i + 1
      BY <1>3, <2>1 DEF NewsOK
    <2>4. \A j \in DOMAIN news' : j + 1 = i + 1 => j = i
      BY <1>1
    <2>5. QED
      BY <2>1, <2>2, <2>3, <2>4
  <1>4. ASSUME NEW i \in DOMAIN news', news'[i].kind = "rewriting"
        PROVE  /\ news'[i].dash \in Gone
               /\ \/ forgetting = news'[i].dash
                  \/ \E j \in i + 1 .. Len(news') : news'[j] = Done(news'[i].dash)
    <2>1. i + 1 \in DOMAIN news /\ news'[i] = news[i + 1]
      BY <1>1
    <2>2. /\ news[i + 1].dash \in Gone
          /\ \/ forgetting = news[i + 1].dash
             \/ \E j \in i + 1 + 1 .. Len(news) : news[j] = Done(news[i + 1].dash)
      BY <1>4, <2>1 DEF NewsOK
    <2>3. ASSUME NEW j \in i + 1 + 1 .. Len(news)
          PROVE  j - 1 \in i + 1 .. Len(news') /\ news'[j - 1] = news[j]
      <3>1. j - 1 \in 1 .. Len(news) - 1 /\ j - 1 + 1 = j /\ j - 1 \in i + 1 .. Len(news')
        BY <1>1
      <3>2. QED
        BY <1>1, <3>1
    <2>4. QED
      BY <2>1, <2>2, <2>3
  <1>5. ~connected' => news' = <<>>
    BY DEF NewsOK
  <1>6. forgetting' # None => Newest(forgetting)' # 0
    BY <1>2 DEF NewsOK, SameServer
  <1>7. QED
    BY <1>2, <1>3, <1>4, <1>5, <1>6 DEF NewsOK, SameServer, Done, Erased

(* Something is announced, or not.                                         *)
LEMMA NewsAnnounced ==
    ASSUME news \in Seq(Events), NewsOK, NEW e \in Events, Announce(e), connected' = connected,
           \A dash \in Gone : Newest(dash) = 0 => Newest(dash)' = 0,
           forgetting' # None => Newest(forgetting)' # 0,
           forgetting # None =>
             forgetting' = forgetting \/ e = Done(forgetting),
           e.kind = "done" => e = Done(forgetting) /\ Newest(forgetting) # 0
                                /\ Erased(e.dash)',
           e.kind = "rewriting" => e.dash \in Gone /\ forgetting' = e.dash
    PROVE  NewsOK'
  <1>1. CASE ~connected /\ news' = news
    BY <1>1 DEF NewsOK
  <1>2. CASE connected /\ news' = Append(news, e)
    <2> DEFINE n == Len(news)
    <2>1. /\ DOMAIN news = 1 .. n /\ n \in Nat
          /\ DOMAIN news' = 1 .. n + 1 /\ Len(news') = n + 1
          /\ \A i \in 1 .. n : news'[i] = news[i]
          /\ news'[n + 1] = e
      BY <1>2
    <2> HIDE DEF n
    <2>2. \A dash : Erased(dash) => Erased(dash)'
      BY DEF Erased
    <2>3. \A i \in DOMAIN news : news[i].kind = "done" => news[i] # e
      BY DEF NewsOK, Done, Erased
    <2>4. ASSUME NEW i \in DOMAIN news', NEW x, x = news'[i], x.kind = "done"
          PROVE  /\ Erased(x.dash)'
                 /\ \A j \in DOMAIN news' : news'[j] = news'[i] => j = i
      <3>1. CASE i = n + 1
        BY <2>1, <2>3, <2>4, <3>1
      <3>2. CASE i # n + 1
        <4>1. i \in DOMAIN news /\ news'[i] = news[i]
          BY <2>1, <3>2
        <4>2. Erased(x.dash) /\ \A j \in DOMAIN news : news[j] = news[i] => j = i
          BY <2>4, <4>1 DEF NewsOK
        <4>3. news[i] # e
          BY <2>3, <2>4, <4>1
        <4>4. QED
          BY <2>1, <2>2, <4>1, <4>2, <4>3
      <3>3. QED
        BY <3>1, <3>2
    <2>5. ASSUME NEW i \in DOMAIN news', news'[i].kind = "rewriting"
          PROVE  /\ news'[i].dash \in Gone
                 /\ \/ forgetting' = news'[i].dash
                    \/ \E j \in i + 1 .. Len(news') : news'[j] = Done(news'[i].dash)
      <3>1. CASE i = n + 1
        BY <2>1, <2>5, <3>1
      <3>2. CASE i # n + 1
        <4>1. i \in DOMAIN news /\ news'[i] = news[i] /\ i \in 1 .. n
          BY <2>1, <3>2
        <4>2. /\ news[i].dash \in Gone
              /\ \/ forgetting = news[i].dash
                 \/ \E j \in i + 1 .. n : news[j] = Done(news[i].dash)
          BY <2>5, <4>1 DEF NewsOK, n
        <4>3. ASSUME NEW j \in i + 1 .. n, news[j] = Done(news[i].dash)
              PROVE  j \in i + 1 .. Len(news') /\ news'[j] = Done(news'[i].dash)
          BY <2>1, <4>1, <4>3
        <4>4. ASSUME forgetting = news[i].dash, forgetting' # forgetting
              PROVE  n + 1 \in i + 1 .. Len(news') /\ news'[n + 1] = Done(news'[i].dash)
          <5>1. forgetting \in Gone /\ forgetting # None
            BY <4>2, <4>4, NoneAssumption, PanelAssumption
          <5>2. e = Done(forgetting)
            BY <4>4, <5>1
          <5>3. n + 1 \in i + 1 .. Len(news')
            BY <2>1, <4>1
          <5>4. QED
            BY <2>1, <4>1, <4>4, <5>2, <5>3
        <4>5. QED
          BY <4>1, <4>2, <4>3, <4>4
      <3>3. QED
        BY <3>1, <3>2
    <2>6. QED
      BY <1>2, <2>4, <2>5 DEF NewsOK, Erased, Done
  <1>3. QED
    BY <1>1, <1>2, Announced

LEMMA RecordGrows ==
    ASSUME Types, NEW dash \in Dashboards, Record(dash)
    PROVE  /\ log \subseteq log' /\ Newest(dash) \in Nat /\ Newest(dash)' = Newest(dash) + 1
           /\ \A d \in Dashboards \ {dash} :
                /\ Newest(d)' = Newest(d)
                /\ Newest(d) # 0 => Revision(d, Newest(d))' = Revision(d, Newest(d))
  <1>1. PICK new \in Entries : /\ new.dash = dash /\ new.id = Newest(dash) + 1
                               /\ log' = log \cup {new}
    BY RecordDoes
  <1>2. /\ \A d : Newest(d) = NewestIn(log, d)
        /\ \A d, id : Revision(d, id) = RevisionIn(log, d, id)
    BY InTheLog
  <1>3. /\ \A d : Newest(d)' = NewestIn(log', d)
    BY DEF Newest, NewestIn
  <1>4. \A d, id : (CHOOSE r \in log' : r.dash = d /\ r.id = id) = RevisionIn(log', d, id)
    BY DEF RevisionIn
  <1>5. Numbered(log)
    BY DEF Types
  <1>6. /\ NewestIn(log', dash) = NewestIn(log, dash) + 1
        /\ \A d \in Dashboards \ {dash} :
             /\ NewestIn(log', d) = NewestIn(log, d)
             /\ \A id \in 1 .. NewestIn(log, d) : RevisionIn(log', d, id) = RevisionIn(log, d, id)
    BY <1>1, <1>2, <1>5, OneMore
  <1>7. \A d \in Dashboards : NewestIn(log, d) \in Nat
    BY <1>5, Counted
  <1>8. ASSUME NEW d \in Dashboards \ {dash}, NEW n, n = Newest(d), n # 0, n = Newest(d)'
        PROVE  Revision(d, Newest(d))' = Revision(d, n)
    <2>1. n = NewestIn(log, d) /\ n \in Nat
      BY <1>2, <1>7, <1>8
    <2>3. n \in 1 .. NewestIn(log, d)
      BY <1>8, <2>1
    <2>2. Revision(d, Newest(d))' = (CHOOSE r \in log' : r.dash = d /\ r.id = n)
      BY <1>8 DEF Revision
    <2>4. QED
      BY <1>2, <1>4, <1>6, <2>2, <2>3
  <1>9. QED
    BY <1>1, <1>2, <1>3, <1>6, <1>7, <1>8

LEMMA ForgetShrinks ==
    ASSUME Types, NewsOK, ForgetEnds
    PROVE  /\ forgetting \in Gone /\ Newest(forgetting) # 0
           /\ \A d \in Dashboards : Newest(d)' = IF d = forgetting THEN 0 ELSE Newest(d)
  <1>1. \A d : Newest(d) = NewestIn(log, d)
    BY InTheLog
  <1>2. \A d : Newest(d)' = NewestIn(log', d)
    BY DEF Newest, NewestIn
  <1>3. QED
    BY <1>1, <1>2, ForgetEndsDoes

LEMMA NewsStands ==
    ASSUME NewsOK, SameServer, Quiet
    PROVE  NewsOK'
  <1>1. \A dash : Newest(dash)' = Newest(dash) /\ (Erased(dash)' <=> Erased(dash))
    BY DEF Newest, Erased, SameServer
  <1>2. forgetting' # None => Newest(forgetting)' # 0
    BY <1>1 DEF NewsOK, SameServer
  <1>3. QED
    BY <1>1, <1>2 DEF NewsOK, SameServer, Quiet, Done

NewsAside == \/ \E dash \in Dashboards : Record(dash) \/ ForgetBegins(dash)
             \/ ForgetEnds \/ HearRecorded \/ HearForgetting \/ Disconnect \/ Reconnect

LEMMA ServerStands ==
    ASSUME Types, Next, ~NewsAside
    PROVE  SameServer /\ Quiet
  <1>1. ASSUME NEW dash \in Dashboards, Pick(dash) \/ Forget(dash)
        PROVE  SameServer /\ Quiet
    BY <1>1, PickDoes, ForgetDoes
  <1>2. ASSUME LoadOlder \/ Reload PROVE SameServer /\ Quiet
    BY <1>2, LoadOlderDoes, ReloadDoes
  <1>3. ASSUME NEW i \in DOMAIN calls, Answer(i) \/ Fail(i) PROVE SameServer /\ Quiet
    BY <1>3, AnswerDoes, FailDoes
  <1>4. ASSUME NEW i \in DOMAIN calls, Deliver(i) PROVE SameServer /\ Quiet
    BY <1>4, SelectedDoes, LoadedDoes, GotOlderDoes, RefreshedDoes, WrittenDoes,
       ForgottenDoes DEF Deliver
  <1>5. ASSUME OpenDialog \/ Cancel \/ RunsOut PROVE SameServer /\ Quiet
    BY <1>5, DialogDoes DEF SamePage, Quiet
  <1>6. ASSUME NEW fn \in {"write", "note"}, Apply(fn) PROVE SameServer /\ Quiet
    BY <1>6, ApplyDoes
  <1>7. QED
    BY <1>1, <1>2, <1>3, <1>4, <1>5, <1>6 DEF Next, NewsAside

LEMMA NewsStep ==
    ASSUME Types, NewsOK, Next
    PROVE  NewsOK'
  <1>n. news \in Seq(Events)
    BY DEF Types
  <1>1. ASSUME NEW dash \in Dashboards, Record(dash) PROVE NewsOK'
    <2>1. PICK e \in Events : e = Saved(dash) /\ e.kind = "recorded"
      BY SavedIs
    <2>2. /\ Announce(e) /\ connected' = connected /\ forgetting = None /\ forgetting' = None
          /\ dash \notin Gone
      BY <1>1, <2>1, RecordDoes DEF SamePage
    <2>3. \A d \in Gone : Newest(d)' = Newest(d)
      BY <1>1, <2>2, RecordGrows, PanelAssumption
    <2>4. QED
      BY <1>n, <2>1, <2>2, <2>3, NewsAnnounced
  <1>2. ASSUME NEW dash \in Dashboards, ForgetBegins(dash) PROVE NewsOK'
    <2>1. PICK e \in Events : e = Begun(dash) /\ e.kind = "rewriting" /\ e.dash = dash
      BY SavedIs
    <2>2. /\ Announce(e) /\ connected' = connected /\ forgetting = None /\ forgetting' = dash
          /\ dash \in Gone /\ log' = log /\ Newest(dash) # 0
      BY <1>2, <2>1, ForgetBeginsDoes DEF SamePage
    <2>3. \A d : Newest(d)' = Newest(d)
      BY <2>2 DEF Newest
    <2>4. Newest(forgetting)' # 0
      BY <2>2, <2>3
    <2>5. QED
      BY <1>n, <2>1, <2>2, <2>3, <2>4, NewsAnnounced
  <1>3. ASSUME ForgetEnds PROVE NewsOK'
    <2>1. PICK f : f = forgetting
      OBVIOUS
    <2>2. /\ f \in Gone /\ Newest(f) # 0 /\ f \in Dashboards
          /\ \A d \in Dashboards : Newest(d)' = IF d = f THEN 0 ELSE Newest(d)
      BY <1>3, <2>1, ForgetShrinks, PanelAssumption
    <2>3. PICK e \in Events : e = Done(f) /\ e.kind = "done" /\ e.dash = f
      BY <2>2, SavedIs
    <2>4. Announce(e) /\ connected' = connected /\ forgetting' = None
      BY <1>3, <2>1, <2>3, ForgetEndsDoes DEF SamePage
    <2>5. Erased(f)'
      BY <2>2 DEF Erased
    <2>6. \A d \in Gone : Newest(d) = 0 => Newest(d)' = 0
      BY <2>2, PanelAssumption
    <2>7. QED
      BY <1>n, <2>1, <2>2, <2>3, <2>4, <2>5, <2>6, NewsAnnounced
  <1>4. ASSUME HearRecorded \/ HearForgetting PROVE NewsOK'
    BY <1>n, <1>4, HearRecordedDoes, HearForgettingDoes, NewsHeard
  <1>5. ASSUME Disconnect PROVE NewsOK'
    <2>1. SameServer /\ news' = <<>>
      BY <1>5, DisconnectDoes
    <2>2. \A dash : Newest(dash)' = Newest(dash)
      BY <2>1 DEF Newest, SameServer
    <2>3. forgetting' # None => Newest(forgetting)' # 0
      BY <2>1, <2>2 DEF NewsOK, SameServer
    <2>4. QED
      BY <2>1, <2>3 DEF NewsOK
  <1>6. ASSUME Reconnect PROVE NewsOK'
    <2>1. SameServer /\ news' = <<>>
      BY <1>6, ReconnectDoes DEF NewsOK
    <2>2. \A dash : Newest(dash)' = Newest(dash)
      BY <2>1 DEF Newest, SameServer
    <2>3. forgetting' # None => Newest(forgetting)' # 0
      BY <2>1, <2>2 DEF NewsOK, SameServer
    <2>4. QED
      BY <2>1, <2>3 DEF NewsOK
  <1>7. ASSUME ~NewsAside PROVE NewsOK'
    BY <1>7, ServerStands, NewsStands
  <1>8. QED
    BY <1>1, <1>2, <1>3, <1>4, <1>5, <1>6, <1>7 DEF NewsAside

--------------------------------------------------------------------------------
(* The lock *)

LEMMA RowsCounted ==
    ASSUME Types, NEW dash \in Dashboards, Rows(dash) = <<>>
    PROVE  Newest(dash) = 0
  <1>1. Newest(dash) = NewestIn(log, dash) /\ Numbered(log)
    BY InTheLog DEF Types
  <1>2. Newest(dash) \in Nat
    BY <1>1, Counted
  <1>3. PICK id : id = Newest(dash) + 1
    OBVIOUS
  <1>4. id \in 1 .. Newest(dash) + 1
    BY <1>2, <1>3
  <1>5. Len(Below(dash, id)) = id - 1
    BY <1>1, <1>4, BelowIs
  <1>6. Below(dash, id) = <<>>
    BY <1>3 DEF Rows
  <1>7. QED
    BY <1>2, <1>3, <1>5, <1>6

(* What is forgotten stays so, and its end is not announced again.         *)
LEMMA ErasedOnce ==
    ASSUME Types, NewsOK, Next, NEW d \in Dashboards, Erased(d)
    PROVE  Erased(d)' /\ (Heard(Done(d))' => Heard(Done(d)))
  <1>n. news \in Seq(Events) /\ d \in Gone /\ Newest(d) = 0
    BY DEF Types, Erased
  <1>1. ASSUME NEW dash \in Dashboards, Record(dash) PROVE Erased(d)'
    <2>1. d # dash
      BY <1>n, <1>1, RecordDoes
    <2>2. QED
      BY <1>n, <1>1, <2>1, RecordGrows DEF Erased
  <1>2. ASSUME NEW dash \in Dashboards, Record(dash) PROVE Heard(Done(d))' => Heard(Done(d))
    <2>1. PICK e \in Events : e = Saved(dash) /\ e.kind = "recorded"
      BY SavedIs
    <2>2. Done(d) # e
      BY <2>1 DEF Done
    <2>3. QED
      BY <1>n, <1>2, <2>1, <2>2, RecordDoes, HeardStays
  <1>3. ASSUME NEW dash \in Dashboards, ForgetBegins(dash)
        PROVE  Erased(d)' /\ (Heard(Done(d))' => Heard(Done(d)))
    <2>1. PICK e \in Events : e = Begun(dash) /\ e.kind = "rewriting"
      BY SavedIs
    <2>2. Done(d) # e
      BY <2>1 DEF Done
    <2>3. Heard(Done(d))' => Heard(Done(d))
      BY <1>n, <1>3, <2>1, <2>2, ForgetBeginsDoes, HeardStays
    <2>4. Newest(d)' = Newest(d)
      BY <1>3, ForgetBeginsDoes DEF Newest
    <2>5. QED
      BY <1>n, <2>3, <2>4 DEF Erased
  <1>4. ASSUME ForgetEnds PROVE Erased(d)' /\ (Heard(Done(d))' => Heard(Done(d)))
    <2>1. PICK f : f = forgetting
      OBVIOUS
    <2>2. /\ f # d /\ f \in Dashboards /\ Newest(d)' = 0
      BY <1>n, <1>4, <2>1, ForgetShrinks, PanelAssumption
    <2>3. PICK e \in Events : e = Done(f) /\ e.dash = f
      BY <2>2, SavedIs
    <2>4. Done(d).dash = d /\ Done(d) # e
      BY <2>2, <2>3 DEF Done
    <2>5. Announce(e)
      BY <1>4, <2>1, <2>3, ForgetEndsDoes
    <2>6. Heard(Done(d))' => Heard(Done(d))
      BY <1>n, <2>4, <2>5, HeardStays
    <2>7. QED
      BY <1>n, <2>2, <2>6 DEF Erased
  <1>5. ASSUME SameServer PROVE Erased(d)'
    BY <1>5 DEF Erased, Newest, SameServer
  <1>6. ASSUME HearRecorded \/ HearForgetting
        PROVE  SameServer /\ (Heard(Done(d))' => Heard(Done(d)))
    BY <1>n, <1>6, HearRecordedDoes, HearForgettingDoes, HeardRest
  <1>7. ASSUME Disconnect PROVE SameServer /\ ~Heard(Done(d))'
    BY <1>7, DisconnectDoes DEF Heard
  <1>8. ASSUME Reconnect PROVE SameServer /\ (Heard(Done(d))' => Heard(Done(d)))
    BY <1>8, ReconnectDoes DEF Heard
  <1>9. ASSUME ~NewsAside PROVE SameServer /\ (Heard(Done(d))' => Heard(Done(d)))
    BY <1>9, ServerStands DEF Heard, Quiet
  <1>10. QED
    BY <1>1, <1>2, <1>3, <1>4, <1>5, <1>6, <1>7, <1>8, <1>9 DEF NewsAside

OneHolds == \A i, j \in DOMAIN calls : Holds(calls[i]) /\ Holds(calls[j]) => i = j

SameHold(c, d) ==
    /\ c.frees => d.frees /\ c.fn \in {"load", "select"}
    /\ c.fn = "forget" => /\ d.fn = "forget" /\ c.dash = d.dash
                          /\ c.at = "answered" => d.at = "answered" \/ Erased(d.dash)

HoldersKept ==
    /\ \A j \in DOMAIN calls' : Holds(calls'[j]) =>
         \E k \in DOMAIN calls : SameHold(calls'[j], calls[k])
    /\ (\E k \in DOMAIN calls : Holds(calls[k])) => \E j \in DOMAIN calls' : Holds(calls'[j])

NobodyHolds == \A j \in DOMAIN calls' : ~Holds(calls'[j])

OnlyHolds(c) ==
    /\ \A j \in DOMAIN calls' : Holds(calls'[j]) => calls'[j] = c
    /\ \E j \in DOMAIN calls' : calls'[j] = c

LEMMA OneHoldsTurned ==
    ASSUME Types, OneHolds, NEW gone, NEW claimed \in BOOLEAN, NEW fresh,
           Turned(calls, calls', gone, claimed, fresh),
           \A c \in fresh : Holds(c) =>
             \A l \in DOMAIN calls : Holds(calls[l]) => l \in gone
    PROVE  OneHolds'
  <1>1. Went(calls, calls', gone, claimed, fresh)
    BY CallsCarried
  <1>2. SUFFICES ASSUME NEW i \in DOMAIN calls', NEW j \in DOMAIN calls',
                        NEW c, c = calls'[i], NEW d, d = calls'[j], Holds(c), Holds(d), i # j
                 PROVE  FALSE
    BY DEF OneHolds, Holds
  <1>3. ASSUME NEW x, x \in fresh, Holds(x), NEW y, Holds(y),
               NEW l \in DOMAIN calls \ gone, Carried(y, calls[l], claimed)
        PROVE  FALSE
    BY <1>3 DEF Carried, Alike, Holds
  <1>4. ASSUME NEW k \in DOMAIN calls \ gone, NEW l \in DOMAIN calls \ gone, k # l,
               Carried(c, calls[k], claimed), Carried(d, calls[l], claimed)
        PROVE  FALSE
    BY <1>2, <1>4 DEF Carried, Alike, Holds, OneHolds
  <1>5. QED
    BY <1>1, <1>2, <1>3, <1>4 DEF Went

LEMMA HoldersTurned ==
    ASSUME Types, LockOK, NEW gone, NEW claimed \in BOOLEAN, NEW fresh,
           Turned(calls, calls', gone, claimed, fresh),
           \A c \in fresh : Holds(c) =>
             \E k \in DOMAIN calls : k \in gone /\ Holds(calls[k]) /\ SameHold(c, calls[k]),
           \A k \in DOMAIN calls : k \in gone /\ Holds(calls[k]) => \E c \in fresh : Holds(c)
    PROVE  HoldersKept /\ OneHolds'
  <1>1. Went(calls, calls', gone, claimed, fresh) /\ OneHolds
    BY CallsCarried DEF LockOK, OneHolds
  <1>2. OneHolds'
    BY <1>1, OneHoldsTurned DEF OneHolds
  <1>3. ASSUME NEW j \in DOMAIN calls', NEW c, c = calls'[j], Holds(c)
        PROVE  \E k \in DOMAIN calls : SameHold(c, calls[k])
    <2>1. CASE c \in fresh
      BY <1>3, <2>1
    <2>2. ASSUME NEW k \in DOMAIN calls \ gone, Carried(c, calls[k], claimed)
          PROVE  SameHold(c, calls[k])
      BY <2>2 DEF Carried, Alike, SameHold, LockOK
    <2>3. QED
      BY <1>1, <1>3, <2>1, <2>2 DEF Went
  <1>4. ASSUME NEW k \in DOMAIN calls, Holds(calls[k])
        PROVE  \E j \in DOMAIN calls' : Holds(calls'[j])
    <2>1. CASE k \in gone
      BY <1>1, <1>4, <2>1 DEF Went
    <2>2. CASE k \notin gone
      BY <1>1, <1>4, <2>2 DEF Went, Carried, Alike, Holds
    <2>3. QED
      BY <2>1, <2>2
  <1>5. QED
    BY <1>2, <1>3, <1>4 DEF HoldersKept

LEMMA HoldersFewer ==
    ASSUME Types, LockOK, NEW i \in DOMAIN calls, ~Holds(calls[i]),
           Turned(calls, calls', {i}, FALSE, {})
    PROVE  HoldersKept /\ OneHolds'
  <1>1. PICK gone, fresh, claimed : claimed \in BOOLEAN /\ gone = {i} /\ fresh = {} /\ claimed = FALSE
    OBVIOUS
  <1>2. Turned(calls, calls', gone, claimed, fresh)
    BY <1>1
  <1>3. QED
    BY <1>1, <1>2, HoldersTurned

LEMMA HoldersMore ==
    ASSUME Types, LockOK, NEW claimed \in BOOLEAN, NEW c, ~Holds(c),
           Turned(calls, calls', {}, claimed, {c})
    PROVE  HoldersKept /\ OneHolds'
  <1>1. PICK gone, fresh : gone = {} /\ fresh = {c}
    OBVIOUS
  <1>2. Turned(calls, calls', gone, claimed, fresh)
    BY <1>1
  <1>3. QED
    BY <1>1, <1>2, HoldersTurned

LEMMA HoldersSame ==
    ASSUME Types, LockOK, Turned(calls, calls', {}, FALSE, {})
    PROVE  HoldersKept /\ OneHolds'
  <1>1. PICK gone, fresh, claimed : claimed \in BOOLEAN /\ gone = {} /\ fresh = {} /\ claimed = FALSE
    OBVIOUS
  <1>2. Turned(calls, calls', gone, claimed, fresh)
    BY <1>1
  <1>3. QED
    BY <1>1, <1>2, HoldersTurned

LEMMA HoldersChanged ==
    ASSUME Types, LockOK, NEW i \in DOMAIN calls, NEW claimed \in BOOLEAN, NEW c,
           Holds(c) <=> Holds(calls[i]), Holds(c) => SameHold(c, calls[i]),
           Turned(calls, calls', {i}, claimed, {c})
    PROVE  HoldersKept /\ OneHolds'
  <1>1. PICK gone, fresh : gone = {i} /\ fresh = {c}
    OBVIOUS
  <1>2. Turned(calls, calls', gone, claimed, fresh)
    BY <1>1
  <1>3. QED
    BY <1>1, <1>2, HoldersTurned

LEMMA HoldersGone ==
    ASSUME Types, OneHolds, NEW i \in DOMAIN calls, Holds(calls[i]),
           Turned(calls, calls', {i}, FALSE, {})
    PROVE  NobodyHolds
  <1>1. PICK gone, fresh, claimed : claimed \in BOOLEAN /\ gone = {i} /\ fresh = {} /\ claimed = FALSE
    OBVIOUS
  <1>2. Went(calls, calls', gone, claimed, fresh)
    BY <1>1, CallsCarried
  <1>3. ASSUME NEW j \in DOMAIN calls', Holds(calls'[j]),
               NEW k \in DOMAIN calls \ gone, Carried(calls'[j], calls[k], claimed)
        PROVE  FALSE
    BY <1>1, <1>3 DEF Carried, Alike, Holds, OneHolds
  <1>4. QED
    BY <1>1, <1>2, <1>3 DEF NobodyHolds, Went

LEMMA HolderMoved ==
    ASSUME Types, OneHolds, NEW gone, NEW c, Turned(calls, calls', gone, FALSE, {c}),
           \A l \in DOMAIN calls : Holds(calls[l]) => l \in gone
    PROVE  OnlyHolds(c) /\ OneHolds'
  <1>1. PICK fresh, claimed : claimed \in BOOLEAN /\ fresh = {c} /\ claimed = FALSE
    OBVIOUS
  <1>t. Turned(calls, calls', gone, claimed, fresh)
    BY <1>1
  <1>2. Went(calls, calls', gone, claimed, fresh)
    BY <1>1, <1>t, CallsCarried
  <1>3. ASSUME NEW j \in DOMAIN calls', Holds(calls'[j]),
               NEW k \in DOMAIN calls \ gone, Carried(calls'[j], calls[k], claimed)
        PROVE  FALSE
    BY <1>3 DEF Carried, Alike, Holds
  <1>4. OnlyHolds(c)
    BY <1>1, <1>2, <1>3 DEF OnlyHolds, Went
  <1>5. OneHolds'
    BY <1>1, <1>t, OneHoldsTurned
  <1>6. QED
    BY <1>4, <1>5

LEMMA CallsStand ==
    ASSUME LockOK, OneHolds, SamePage
    PROVE  HoldersKept /\ OneHolds' /\ locked' = locked
  BY DEF SamePage, HoldersKept, OneHolds, Holds, SameHold, LockOK

LEMMA LockStands ==
    ASSUME Types, NewsOK, LockOK, Next, HoldersKept, OneHolds', locked' = locked,
           mishaps \subseteq mishaps'
    PROVE  LockOK'
  <1>1. ASSUME NEW j \in DOMAIN calls', NEW c, c = calls'[j]
        PROVE  /\ Holds(c) => locked' # None
               /\ c.frees => c.fn \in {"load", "select"}
               /\ c.fn = "forget" => locked' = [key |-> c.dash, borrowed |-> FALSE]
               /\ c.fn = "forget" /\ c.at = "answered" => Erased(c.dash)'
               /\ c.frees /\ locked'.borrowed => Erased(locked.key)' /\ ~Heard(Done(locked.key))'
               /\ c.frees /\ "failed" \notin mishaps' => Erased(locked.key)'
    <2>1. CASE ~Holds(c)
      BY <2>1 DEF Holds
    <2>2. ASSUME Holds(c), NEW k \in DOMAIN calls, SameHold(c, calls[k])
          PROVE  /\ locked # None /\ locked.key \in Dashboards
                 /\ c.frees => c.fn \in {"load", "select"}
                 /\ c.fn = "forget" => locked = [key |-> c.dash, borrowed |-> FALSE]
                 /\ c.fn = "forget" /\ c.at = "answered" => Erased(c.dash)
                 /\ c.frees /\ locked.borrowed => Erased(locked.key) /\ ~Heard(Done(locked.key))
                 /\ c.frees /\ "failed" \notin mishaps => Erased(locked.key)
      BY <2>2, PanelAssumption DEF LockOK, SameHold, Holds
    <2>3. PICK key : key = locked.key /\ key = locked'.key
      OBVIOUS
    <2>4. ASSUME Holds(c)
          PROVE  /\ c.fn = "forget" /\ c.at = "answered" => Erased(c.dash)'
                 /\ c.frees /\ locked'.borrowed => Erased(key)' /\ ~Heard(Done(key))'
                 /\ c.frees /\ "failed" \notin mishaps' => Erased(key)'
      <3>1. /\ key \in Dashboards
            /\ c.fn = "forget" => key = c.dash
            /\ c.fn = "forget" /\ c.at = "answered" => Erased(key)
            /\ c.frees /\ locked.borrowed => Erased(key) /\ ~Heard(Done(key))
            /\ c.frees /\ "failed" \notin mishaps => Erased(key)
        BY <1>1, <2>2, <2>3, <2>4 DEF HoldersKept
      <3>2. Erased(key) => Erased(key)' /\ (Heard(Done(key))' => Heard(Done(key)))
        BY <3>1, ErasedOnce
      <3>3. QED
        BY <3>1, <3>2
    <2>5. ASSUME Holds(c)
          PROVE  /\ locked' # None
                 /\ c.frees => c.fn \in {"load", "select"}
                 /\ c.fn = "forget" => locked' = [key |-> c.dash, borrowed |-> FALSE]
      BY <1>1, <2>2, <2>5 DEF HoldersKept
    <2>6. Erased(key)' <=> Erased(locked.key)'
      BY <2>3 DEF Erased
    <2>7. Heard(Done(key))' <=> Heard(Done(locked.key))'
      BY <2>3 DEF Heard, Done
    <2>8. QED
      BY <2>1, <2>4, <2>5, <2>6, <2>7
  <1>2. locked' # None =>
          /\ locked'.key \in Gone
          /\ ~locked'.borrowed => \E j \in DOMAIN calls' : Holds(calls'[j])
    BY DEF LockOK, HoldersKept
  <1>3. \A i, j \in DOMAIN calls' : Holds(calls'[i]) /\ Holds(calls'[j]) => i = j
    BY DEF OneHolds, Holds
  <1>4. QED
    BY <1>1, <1>2, <1>3 DEF LockOK, Erased, Heard, Holds, Done

LEMMA LockFree ==
    ASSUME NobodyHolds, locked' = None \/ (locked'.borrowed /\ locked'.key \in Gone)
    PROVE  LockOK'
  BY DEF NobodyHolds, LockOK, Holds

LEMMA LockTaken ==
    ASSUME NEW c, OnlyHolds(c), OneHolds', Holds(c), NEW l \in Locks, locked' = l, l.key \in Gone,
           c.frees => c.fn \in {"load", "select"},
           c.fn = "forget" => l = [key |-> c.dash, borrowed |-> FALSE] /\ c.at # "answered",
           c.frees /\ l.borrowed => Erased(l.key)' /\ ~Heard(Done(l.key))',
           c.frees /\ "failed" \notin mishaps' => Erased(l.key)'
    PROVE  LockOK'
  <1>1. l # None
    BY NoneAssumption
  <1>2. \A j \in DOMAIN calls' : Holds(calls'[j]) => calls'[j] = c
    BY DEF OnlyHolds
  <1>3. \A j \in DOMAIN calls' : calls'[j].fn = "forget" \/ calls'[j].frees => calls'[j] = c
    BY <1>2 DEF Holds
  <1>4. \E j \in DOMAIN calls' : Holds(calls'[j])
    BY DEF OnlyHolds
  <1>5. /\ (Erased(locked.key)' <=> Erased(l.key)')
        /\ (Heard(Done(locked.key))' <=> Heard(Done(l.key))')
    BY DEF Erased, Heard, Done
  <1>6. \A i, j \in DOMAIN calls' : Holds(calls'[i]) /\ Holds(calls'[j]) => i = j
    BY DEF OneHolds, Holds
  <1>7. ASSUME NEW j \in DOMAIN calls', NEW d, d = calls'[j]
        PROVE  /\ Holds(d) => locked' # None
               /\ d.frees => d.fn \in {"load", "select"}
               /\ d.fn = "forget" => locked' = [key |-> d.dash, borrowed |-> FALSE]
               /\ d.fn = "forget" /\ d.at = "answered" => Erased(d.dash)'
               /\ d.frees /\ locked'.borrowed => Erased(locked.key)' /\ ~Heard(Done(locked.key))'
               /\ d.frees /\ "failed" \notin mishaps' => Erased(locked.key)'
    BY <1>1, <1>3, <1>5, <1>7
  <1>8. QED
    BY <1>4, <1>6, <1>7 DEF LockOK, Erased, Heard, Holds, Done

LEMMA LockStep ==
    ASSUME Types, Noted, OneMine, NewsOK, LockOK, Next
    PROVE  LockOK'
  <1>m. mishaps \subseteq mishaps'
    BY MishapsGrow
  <1>o. OneHolds
    BY DEF LockOK, OneHolds
  <1>s. ASSUME HoldersKept, OneHolds', locked' = locked PROVE LockOK'
    BY <1>m, <1>s, LockStands
  <1>n. locked = None => \A l \in DOMAIN calls : ~Holds(calls[l])
    BY DEF LockOK
  <1>1. ASSUME NEW dash \in Dashboards, Record(dash) \/ ForgetBegins(dash) PROVE LockOK'
    BY <1>o, <1>s, <1>1, RecordDoes, ForgetBeginsDoes, CallsStand
  <1>2. ASSUME ForgetEnds PROVE LockOK'
    BY <1>o, <1>s, <1>2, ForgetEndsDoes, CallsStand
  <1>3. ASSUME NEW dash \in Dashboards, Pick(dash) PROVE LockOK'
    <2>1. PICK c : c = SelectCall(dash, FALSE)
      OBVIOUS
    <2>2. ~Holds(c)
      BY <2>1, FreshCalls DEF Holds
    <2>3. Turned(calls, calls', {}, TRUE, {c}) /\ locked' = locked
      BY <1>3, <2>1, PickDoes
    <2>4. QED
      BY <1>s, <2>2, <2>3, HoldersMore
  <1>4. ASSUME NEW dash \in Dashboards, Forget(dash) PROVE LockOK'
    <2>1. PICK c : c = ForgetCall(dash)
      OBVIOUS
    <2>2. c.fn = "forget" /\ c.at = "asked" /\ c.dash = dash /\ ~c.frees /\ Holds(c)
      BY <2>1, FreshCalls DEF Holds
    <2>3. /\ Turned(calls, calls', {}, FALSE, {c}) /\ locked = None /\ dash \in Gone
          /\ locked' = [key |-> dash, borrowed |-> FALSE]
      BY <1>4, <2>1, ForgetDoes
    <2>4. PICK l : l = [key |-> dash, borrowed |-> FALSE]
      OBVIOUS
    <2>l. l \in Locks /\ l.key = dash
      BY <2>4 DEF Locks
    <2>5. PICK gone : gone = {}
      OBVIOUS
    <2>6. OnlyHolds(c) /\ OneHolds'
      BY <1>n, <1>o, <2>3, <2>5, HolderMoved
    <2>7. QED
      BY <2>2, <2>3, <2>4, <2>l, <2>6, LockTaken
  <1>5. ASSUME LoadOlder PROVE LockOK'
    <2>1. PICK c : c = OlderCall(selected, cursor, cursorGeneration)
      OBVIOUS
    <2>2. /\ Turned(calls, calls', {}, TRUE, {c}) /\ locked' = locked
          /\ selected \in Dashboards /\ cursor \in Entries
      BY <1>5, <2>1, LoadOlderDoes
    <2>3. cursorGeneration \in Nat \cup {None}
      BY DEF Types
    <2>4. ~Holds(c)
      BY <2>1, <2>2, <2>3, FreshCalls DEF Holds
    <2>5. QED
      BY <1>s, <2>2, <2>4, HoldersMore
  <1>6. ASSUME NEW guarded \in {"shown", "quiet", "said"},
               Turned(calls, calls', {}, FALSE, {Refresh(guarded)})
        PROVE  HoldersKept /\ OneHolds'
    <2>1. PICK c : c = Refresh(guarded)
      OBVIOUS
    <2>2. ~Holds(c)
      BY <2>1, FreshCalls DEF Holds
    <2>3. Turned(calls, calls', {}, FALSE, {c})
      BY <1>6, <2>1
    <2>4. QED
      BY <2>2, <2>3, HoldersMore
  <1>7. ASSUME Reload PROVE LockOK'
    BY <1>s, <1>6, <1>7, ReloadDoes
  <1>8. ASSUME NEW i \in DOMAIN calls, Answer(i) PROVE LockOK'
    <2>a. PICK c \in Calls :
            /\ Turned(calls, calls', {i}, FALSE, {c}) /\ SameQuestion(c, calls[i])
            /\ \/ calls[i].at = "listing" /\ c.at = "listed"
               \/ calls[i].fn = "forget" /\ Rows(calls[i].dash) = <<>>
               \/ calls[i].fn # "forget"
      BY <1>8, AnswerDoes
    <2>1. /\ Turned(calls, calls', {i}, FALSE, {c}) /\ SameQuestion(c, calls[i])
          /\ c.fn = "forget" /\ c.at = "answered" => Rows(calls[i].dash) = <<>>
      BY <2>a DEF SameQuestion
    <2>2. ASSUME c.fn = "forget", c.at = "answered" PROVE Erased(calls[i].dash)
      <3>1. calls[i].fn = "forget" /\ locked # None
        BY <2>1, <2>2 DEF SameQuestion, LockOK, Holds
      <3>2. locked = [key |-> calls[i].dash, borrowed |-> FALSE] /\ locked.key \in Gone
        BY <3>1 DEF LockOK
      <3>3. calls[i].dash \in Gone /\ calls[i].dash \in Dashboards
        BY <3>2, PanelAssumption
      <3>4. QED
        BY <2>1, <2>2, <3>3, RowsCounted DEF Erased
    <2>3. Holds(c) <=> Holds(calls[i])
      BY <2>1 DEF SameQuestion, Holds
    <2>4. Holds(c) => SameHold(c, calls[i])
      BY <2>1, <2>2 DEF SameQuestion, Holds, SameHold, LockOK
    <2>5. locked' = locked
      BY <1>8, AnswerDoes
    <2>6. QED
      BY <1>s, <2>1, <2>3, <2>4, <2>5, HoldersChanged
  <1>9. ASSUME NEW i \in DOMAIN calls, Fail(i) PROVE LockOK'
    <2>1. PICK c \in Calls :
            /\ Turned(calls, calls', {i}, FALSE, {c}) /\ SameQuestion(c, calls[i])
            /\ c.at \in {"refused", "cut"}
      BY <1>9, FailDoes
    <2>2. Holds(c) <=> Holds(calls[i])
      BY <2>1 DEF SameQuestion, Holds
    <2>3. Holds(c) => SameHold(c, calls[i])
      BY <2>1 DEF SameQuestion, Holds, SameHold, LockOK
    <2>4. locked' = locked
      BY <1>9, FailDoes
    <2>5. QED
      BY <1>s, <2>1, <2>2, <2>3, <2>4, HoldersChanged
  <1>10. ASSUME NEW i \in DOMAIN calls, Turned(calls, calls', {i}, FALSE, {}),
                calls[i].fn # "forget", locked' = Unlocked(calls[i])
         PROVE  LockOK'
    <2>1. CASE calls[i].frees
      <3>1. NobodyHolds
        BY <1>o, <1>10, <2>1, HoldersGone DEF Holds
      <3>2. locked' = None
        BY <1>10, <2>1 DEF Unlocked
      <3>3. QED
        BY <3>1, <3>2, LockFree
    <2>2. CASE ~calls[i].frees
      <3>1. ~Holds(calls[i]) /\ locked' = locked
        BY <1>10, <2>2 DEF Holds, Unlocked
      <3>2. QED
        BY <1>s, <1>10, <3>1, HoldersFewer
    <2>3. QED
      BY <2>1, <2>2
  <1>11. ASSUME NEW i \in DOMAIN calls, Selected(i) PROVE LockOK'
    BY <1>10, <1>11, SelectedDoes
  <1>12. ASSUME NEW i \in DOMAIN calls, Loaded(i) PROVE LockOK'
    <2>1. calls[i] \in Calls
      BY DEF Types
    <2>2. PICK frees \in BOOLEAN : frees = calls[i].frees
      BY <2>1 DEF Calls
    <2>3. ASSUME NEW first \in Dashboards, locked' = locked,
                 Turned(calls, calls', {i}, TRUE, {SelectCall(first, calls[i].frees)})
          PROVE  LockOK'
      <3>1. PICK c : c = SelectCall(first, frees)
        OBVIOUS
      <3>2. c.fn = "select" /\ c.frees = frees
        BY <3>1, FreshCalls
      <3>3. Holds(c) <=> Holds(calls[i])
        BY <1>12, <2>2, <3>2, LoadedDoes DEF Holds
      <3>4. Holds(c) => SameHold(c, calls[i])
        BY <2>2, <3>2 DEF Holds, SameHold
      <3>5. Turned(calls, calls', {i}, TRUE, {c})
        BY <2>2, <2>3, <3>1
      <3>6. QED
        BY <1>s, <2>3, <3>3, <3>4, <3>5, HoldersChanged
    <2>4. QED
      BY <1>10, <1>12, <2>3, LoadedDoes
  <1>13. ASSUME NEW i \in DOMAIN calls, calls[i].fn \in {"older", "refresh"},
                locked' = locked, Turned(calls, calls', {i}, FALSE, {})
         PROVE  LockOK'
    <2>1. ~Holds(calls[i])
      BY <1>13 DEF Holds, LockOK
    <2>2. QED
      BY <1>s, <1>13, <2>1, HoldersFewer
  <1>14. ASSUME NEW i \in DOMAIN calls, GotOlder(i) PROVE LockOK'
    BY <1>13, <1>14, GotOlderDoes
  <1>15. ASSUME NEW i \in DOMAIN calls, Refreshed(i) PROVE LockOK'
    <2>1. calls[i].fn = "refresh" /\ locked' = locked
      BY <1>15, RefreshedDoes
    <2>2. ASSUME NEW c \in Calls, Turned(calls, calls', {i}, TRUE, {c}), c.fn = "refresh",
                 c.frees = calls[i].frees
          PROVE  LockOK'
      <3>1. ~Holds(calls[i]) /\ ~Holds(c)
        BY <2>1, <2>2 DEF Holds, LockOK
      <3>2. QED
        BY <1>s, <2>1, <2>2, <3>1, HoldersChanged
    <2>3. QED
      BY <1>13, <1>15, <2>1, <2>2, RefreshedDoes
  <1>16. ASSUME NEW i \in DOMAIN calls, Forgotten(i) PROVE LockOK'
    <2>1. CASE Turned(calls, calls', {i}, FALSE, {Freeing}) /\ locked' = locked
      <3>1. /\ calls[i].fn = "forget" /\ ~Waiting(calls[i]) /\ locked' = locked
            /\ Turned(calls, calls', {i}, FALSE, {Freeing}) /\ SameServer
        BY <1>16, <2>1, ForgottenDoes
      <3>2. PICK l : l = [key |-> calls[i].dash, borrowed |-> FALSE]
        OBVIOUS
      <3>k. l.key = calls[i].dash
        BY <3>2
      <3>3. /\ locked = l /\ l.key \in Gone /\ ~l.borrowed /\ Holds(calls[i])
        BY <3>1, <3>2 DEF LockOK, Holds
      <3>4. l \in Locks
        BY <3>3, NoneAssumption DEF Types, LockOK
      <3>5. PICK gone, c : gone = {i} /\ c = Freeing
        OBVIOUS
      <3>6. c.fn = "load" /\ c.frees /\ Holds(c)
        BY <3>5, FreshCalls DEF Holds
      <3>7. OnlyHolds(c) /\ OneHolds'
        BY <1>o, <3>1, <3>3, <3>5, HolderMoved DEF OneHolds
      <3>8. ASSUME "failed" \notin mishaps' PROVE Erased(l.key)'
        <4>1. calls[i].at = "answered"
          <5>1. calls[i] \in Calls /\ CallOK(calls[i])
            BY DEF Types
          <5>2. calls[i].at \notin {"listing", "asked", "refused", "cut"}
            BY <1>m, <3>1, <3>8 DEF Noted, Failed, Waiting
          <5>3. calls[i].at # "listed"
            BY <3>1, <5>1 DEF CallOK
          <5>4. calls[i].at \in {"listing", "listed", "asked", "answered", "refused", "cut"}
            BY <5>1 DEF Calls
          <5>5. QED
            BY <5>2, <5>3, <5>4
        <4>2. Erased(l.key)
          BY <3>1, <3>k, <4>1 DEF LockOK
        <4>3. QED
          BY <3>1, <4>2 DEF Erased, Newest, SameServer
      <3>9. QED
        BY <3>1, <3>3, <3>4, <3>6, <3>7, <3>8, LockTaken
    <2>2. CASE Turned(calls, calls', {i}, FALSE, {}) /\ locked' = None
      <3>1. Holds(calls[i])
        BY <1>16, ForgottenDoes DEF Holds
      <3>2. NobodyHolds
        BY <1>o, <2>2, <3>1, HoldersGone
      <3>3. QED
        BY <2>2, <3>2, LockFree
    <2>3. QED
      BY <1>16, <2>1, <2>2, ForgottenDoes
  <1>17. ASSUME HearRecorded PROVE LockOK'
    BY <1>s, <1>6, <1>17, HearRecordedDoes, HoldersSame
  <1>18. ASSUME HearForgetting PROVE LockOK'
    <2>1. /\ news \in Seq(Events) /\ news # <<>> /\ news' = Tail(news) /\ SameServer
          /\ news[1] \in Events
      BY <1>18, HearForgettingDoes, TailTypes DEF Types
    <2>2. PICK e : e = news[1] /\ e \in Events /\ e.dash \in Dashboards
      BY <2>1 DEF Events
    <2>3. ASSUME e.kind = "rewriting", locked = None, Turned(calls, calls', {}, FALSE, {}),
                 locked' = [key |-> e.dash, borrowed |-> TRUE]
          PROVE  LockOK'
      <3>1. HoldersKept
        BY <2>3, HoldersSame
      <3>2. NobodyHolds
        BY <1>n, <2>3, <3>1 DEF HoldersKept, NobodyHolds, SameHold, Holds
      <3>3. e.dash \in Gone
        <4>1. 1 \in DOMAIN news
          BY <2>1, TailTypes
        <4>2. QED
          BY <2>2, <2>3, <4>1 DEF NewsOK
      <3>4. QED
        BY <2>3, <3>2, <3>3, LockFree
    <2>4. ASSUME e.kind = "done", locked = [key |-> e.dash, borrowed |-> TRUE],
                 locked' = locked, Turned(calls, calls', {}, FALSE, {Freeing})
          PROVE  LockOK'
      <3>1. 1 \in DOMAIN news /\ Heard(Done(e.dash)) /\ e = Done(e.dash)
        BY <2>1, <2>2, <2>4, TailTypes, EventIs DEF Heard
      <3>2. \A l \in DOMAIN calls : ~Holds(calls[l])
        BY <2>4, <3>1 DEF LockOK, Holds
      <3>3. PICK gone, c : gone = {} /\ c = Freeing
        OBVIOUS
      <3>4. c.fn = "load" /\ c.frees /\ Holds(c)
        BY <3>3, FreshCalls DEF Holds
      <3>5. OnlyHolds(c) /\ OneHolds'
        BY <1>o, <2>4, <3>2, <3>3, HolderMoved
      <3>6. Erased(e.dash) /\ \A j \in DOMAIN news : news[j] = e => j = 1
        BY <2>2, <2>4, <3>1 DEF NewsOK
      <3>7. Erased(e.dash)'
        BY <2>1, <3>6 DEF Erased, Newest, SameServer
      <3>8. ~Heard(e)'
        <4>1. ASSUME NEW i \in DOMAIN news', news'[i] = e PROVE FALSE
          <5>1. i \in 1 .. Len(news) - 1 /\ news'[i] = news[i + 1] /\ i + 1 \in DOMAIN news
            BY <2>1, <4>1, TailTypes
          <5>2. i + 1 = 1
            BY <3>6, <4>1, <5>1
          <5>3. QED
            BY <5>1, <5>2
        <4>2. QED
          BY <4>1 DEF Heard
      <3>l. PICK l : l = locked
        OBVIOUS
      <3>9. l \in Locks /\ l.key = e.dash /\ l.key \in Gone
        BY <2>2, <2>4, <3>6, <3>l DEF Locks, Erased
      <3>10. ~Heard(Done(l.key))' /\ Erased(l.key)'
        BY <3>1, <3>7, <3>8, <3>9
      <3>11. QED
        BY <2>4, <3>4, <3>5, <3>l, <3>9, <3>10, LockTaken
    <2>5. ASSUME locked' = locked, Turned(calls, calls', {}, FALSE, {})
          PROVE  LockOK'
      BY <1>s, <2>5, HoldersSame
    <2>6. QED
      BY <1>18, <2>2, <2>3, <2>4, <2>5, HearForgettingDoes
  <1>19. ASSUME Disconnect PROVE LockOK'
    <2>1. /\ locked' = locked /\ DOMAIN calls' = DOMAIN calls
          /\ \A i \in DOMAIN calls :
               /\ SameQuestion(calls'[i], calls[i])
               /\ calls'[i].at = IF Waiting(calls[i]) THEN "cut" ELSE calls[i].at
      BY <1>19, DisconnectDoes
    <2>2. \A i \in DOMAIN calls : Holds(calls'[i]) => Holds(calls[i])
      BY <2>1 DEF SameQuestion, Holds
    <2>3. \A i \in DOMAIN calls : Holds(calls[i]) => Holds(calls'[i])
      BY <2>1 DEF SameQuestion, Holds
    <2>4. \A i \in DOMAIN calls : Holds(calls[i]) => SameHold(calls'[i], calls[i])
      BY <2>1 DEF SameQuestion, SameHold, LockOK
    <2>5. HoldersKept
      BY <2>1, <2>2, <2>3, <2>4 DEF HoldersKept
    <2>6. OneHolds'
      BY <1>o, <2>1, <2>2 DEF OneHolds, Holds
    <2>7. QED
      BY <1>s, <2>1, <2>5, <2>6
  <1>20. ASSUME Reconnect PROVE LockOK'
    <2>1. PICK c : c = Call("load", "listing")
      OBVIOUS
    <2>2. ~Holds(c)
      BY <2>1, FreshCalls DEF Holds
    <2>3. Turned(calls, calls', {}, FALSE, {c}) => HoldersKept /\ OneHolds'
      BY <2>2, HoldersMore
    <2>4. QED
      BY <1>s, <1>6, <1>20, <2>1, <2>3, ReconnectDoes, HoldersSame
  <1>21. ASSUME OpenDialog \/ Cancel \/ RunsOut PROVE LockOK'
    BY <1>o, <1>s, <1>21, DialogDoes, CallsStand
  <1>22. ASSUME NEW fn \in {"write", "note"}, Apply(fn) PROVE LockOK'
    <2>1. PICK c : /\ Turned(calls, calls', {}, FALSE, {c}) /\ locked' = locked
                   /\ c.fn = fn /\ ~c.frees
      BY <1>22, ApplyDoes
    <2>2. ~Holds(c)
      BY <2>1 DEF Holds
    <2>3. QED
      BY <1>s, <2>1, <2>2, HoldersMore
  <1>23. ASSUME NEW i \in DOMAIN calls, Written(i) PROVE LockOK'
    <2>1. PICK c : /\ Turned(calls, calls', {i}, FALSE, {c}) /\ locked' = locked
                   /\ c.fn = "refresh" /\ ~c.frees /\ Writes(calls[i])
      BY <1>23, WrittenDoes
    <2>2. ~Holds(c) /\ ~Holds(calls[i])
      BY <2>1 DEF Holds, LockOK, Writes
    <2>3. QED
      BY <1>s, <2>1, <2>2, HoldersChanged
  <1>24. QED
    BY <1>1, <1>2, <1>3, <1>4, <1>5, <1>7, <1>8, <1>9, <1>11, <1>12, <1>14, <1>15, <1>16,
       <1>17, <1>18, <1>19, <1>20, <1>21, <1>22, <1>23 DEF Next, Deliver

--------------------------------------------------------------------------------
(* A forget is watched *)

LEMMA WatchStands ==
    ASSUME Watch, mishaps \subseteq mishaps', forgetting' = forgetting, locked' = locked,
           mishaps' = {} => \A x : Heard(x) => Heard(x)'
    PROVE  Watch'
  <1>1. PICK f : f = forgetting /\ f = forgetting'
    OBVIOUS
  <1>2. SUFFICES ASSUME mishaps' = {}, f # None
                 PROVE  Heard(Begun(f))' \/ (locked' # None /\ locked'.key = f)
    BY <1>1 DEF Watch, Heard, Begun
  <1>3. Heard(Begun(f)) \/ (locked # None /\ locked.key = f)
    BY <1>1, <1>2 DEF Watch
  <1>4. QED
    BY <1>2, <1>3

(* The lock that is lifted is not of a forget that is going on.            *)
LEMMA NotLifted ==
    ASSUME NewsOK, LockOK, NEW i \in DOMAIN calls, calls[i].frees, "failed" \notin mishaps
    PROVE  /\ locked # None /\ locked.key \in Gone
           /\ Newest(locked.key) = 0 /\ forgetting # locked.key
           /\ locked.borrowed => ~Heard(Done(locked.key))
  <1>1. locked # None /\ locked.key \in Gone
    BY DEF LockOK, Holds
  <1>2. locked.key # None
    BY <1>1, NoneAssumption, PanelAssumption
  <1>3. Erased(locked.key)
    BY DEF LockOK
  <1>4. QED
    BY <1>1, <1>2, <1>3 DEF LockOK, Erased, NewsOK

LEMMA WatchUnlocked ==
    ASSUME NewsOK, LockOK, Watch, NEW i \in DOMAIN calls, SameServer, Quiet,
           mishaps' = mishaps, locked' = Unlocked(calls[i])
    PROVE  Watch'
  <1>1. CASE ~calls[i].frees
    BY <1>1, WatchStands DEF Unlocked, SameServer, Quiet, Heard
  <1>2. CASE calls[i].frees
    <2>1. SUFFICES ASSUME mishaps' = {}, forgetting # None PROVE Heard(Begun(forgetting))
      BY DEF Watch, SameServer, Quiet, Heard, Begun
    <2>2. "failed" \notin mishaps
      BY <2>1
    <2>3. forgetting # locked.key
      BY <1>2, <2>2, NotLifted
    <2>4. QED
      BY <2>1, <2>3 DEF Watch
  <1>3. QED
    BY <1>1, <1>2

LEMMA WatchStep ==
    ASSUME Types, OneMine, NewsOK, LockOK, Watch, Next
    PROVE  Watch'
  <1>n. news \in Seq(Events)
    BY DEF Types
  <1>m. mishaps \subseteq mishaps'
    BY MishapsGrow
  <1>s. ASSUME SameServer, Quiet, locked' = locked PROVE Watch'
    BY <1>m, <1>s, WatchStands DEF SameServer, Quiet, Heard
  <1>1. ASSUME NEW dash \in Dashboards, Record(dash) PROVE Watch'
    BY <1>1, RecordDoes DEF Watch
  <1>2. ASSUME NEW dash \in Dashboards, ForgetBegins(dash) PROVE Watch'
    <2>1. PICK e \in Events : e = Begun(dash)
      BY SavedIs
    <2>2. Announce(e) /\ forgetting' = dash
      BY <1>2, <2>1, ForgetBeginsDoes
    <2>3. mishaps' = {} => Heard(e)'
      BY <1>n, <2>2, Announced, HeardStays
    <2>4. QED
      BY <2>1, <2>2, <2>3 DEF Watch, Heard, Begun
  <1>3. ASSUME ForgetEnds PROVE Watch'
    BY <1>3, ForgetEndsDoes DEF Watch
  <1>4. ASSUME NEW dash \in Dashboards, Pick(dash) PROVE Watch'
    BY <1>s, <1>4, PickDoes
  <1>5. ASSUME NEW dash \in Dashboards, Forget(dash) PROVE Watch'
    <2>1. SUFFICES ASSUME mishaps' = {}, forgetting # None PROVE Heard(Begun(forgetting))
      BY <1>5, ForgetDoes DEF Watch, SameServer, Quiet, Heard, Begun
    <2>2. mishaps = {} /\ locked = None
      BY <1>5, <1>m, <2>1, ForgetDoes
    <2>3. QED
      BY <2>1, <2>2 DEF Watch
  <1>6. ASSUME LoadOlder \/ Reload PROVE Watch'
    BY <1>s, <1>6, LoadOlderDoes, ReloadDoes
  <1>7. ASSUME NEW i \in DOMAIN calls, Answer(i) \/ Fail(i) PROVE Watch'
    BY <1>s, <1>7, AnswerDoes, FailDoes
  <1>8. ASSUME NEW i \in DOMAIN calls, Selected(i) PROVE Watch'
    BY <1>8, SelectedDoes, WatchUnlocked
  <1>9. ASSUME NEW i \in DOMAIN calls, Loaded(i) PROVE Watch'
    BY <1>s, <1>9, LoadedDoes, WatchUnlocked
  <1>10. ASSUME NEW i \in DOMAIN calls, GotOlder(i) \/ Refreshed(i) \/ Written(i) PROVE Watch'
    BY <1>s, <1>10, GotOlderDoes, RefreshedDoes, WrittenDoes
  <1>11. ASSUME HearRecorded PROVE Watch'
    <2>1. /\ news # <<>> /\ news[1].kind = "recorded" /\ news' = Tail(news)
          /\ SameServer /\ locked' = locked
      BY <1>11, HearRecordedDoes
    <2>2. PICK f : f = forgetting /\ f = forgetting'
      BY <2>1 DEF SameServer
    <2>3. SUFFICES ASSUME mishaps' = {}, f # None
                   PROVE  Heard(Begun(f))' \/ (locked' # None /\ locked'.key = f)
      BY <2>2 DEF Watch, Heard, Begun
    <2>4. Heard(Begun(f)) \/ (locked # None /\ locked.key = f)
      BY <1>m, <2>2, <2>3 DEF Watch
    <2>5. Begun(f) # news[1]
      BY <2>1 DEF Begun
    <2>6. QED
      BY <1>n, <2>1, <2>4, <2>5, HeardRest
  <1>12. ASSUME HearForgetting PROVE Watch'
    <2>1. /\ news # <<>> /\ news' = Tail(news) /\ SameServer
      BY <1>12, HearForgettingDoes
    <2>2. PICK f : f = forgetting /\ f = forgetting'
      BY <2>1 DEF SameServer
    <2>3. SUFFICES ASSUME mishaps' = {}, f # None
                   PROVE  Heard(Begun(f))' \/ (locked' # None /\ locked'.key = f)
      BY <2>2 DEF Watch, Heard, Begun
    <2>4. Heard(Begun(f)) \/ (locked # None /\ locked.key = f)
      BY <1>m, <2>2, <2>3 DEF Watch
    <2>5. PICK e \in Events : e = news[1]
      BY <1>n, <2>1, TailTypes
    <2>6. CASE e = Begun(f)
      <3>1. e.kind = "rewriting" /\ e.dash = f
        BY <2>6 DEF Begun
      <3>2. locked # None => locked.key = f
        BY <1>12, <2>3, <2>5, <3>1, HearForgettingDoes
      <3>3. CASE locked # None
        BY <1>12, <3>2, <3>3, HearForgettingDoes
      <3>4. CASE locked = None
        <4>1. locked' = [key |-> f, borrowed |-> TRUE]
          BY <1>12, <2>5, <3>1, <3>4, HearForgettingDoes
        <4>2. [key |-> f, borrowed |-> TRUE] \in Locks
          BY <2>5, <3>1 DEF Locks, Events
        <4>3. QED
          BY <4>1, <4>2, NoneAssumption
      <3>5. QED
        BY <3>3, <3>4
    <2>7. CASE e # Begun(f)
      <3>1. Heard(Begun(f)) => Heard(Begun(f))'
        BY <1>n, <2>1, <2>5, <2>7, HeardRest
      <3>2. locked # None => locked' = locked
        BY <1>12, HearForgettingDoes
      <3>3. QED
        BY <2>4, <3>1, <3>2
    <2>8. QED
      BY <2>6, <2>7
  <1>13. ASSUME Disconnect PROVE Watch'
    <2>1. /\ SameServer /\ locked' = locked /\ news' = <<>>
          /\ news # <<>> => mishaps' # {}
      BY <1>13, DisconnectDoes
    <2>2. mishaps' = {} => news' = news
      BY <2>1
    <2>3. QED
      BY <1>m, <2>1, <2>2, WatchStands DEF SameServer, Heard
  <1>14. ASSUME Reconnect PROVE Watch'
    <2>1. SameServer /\ locked' = locked /\ news' = news
      BY <1>14, ReconnectDoes
    <2>2. QED
      BY <1>m, <2>1, WatchStands DEF SameServer, Heard
  <1>15. ASSUME NEW i \in DOMAIN calls, Forgotten(i) PROVE Watch'
    <2>1. SameServer /\ Quiet /\ (locked' = locked \/ mishaps' # {})
      BY <1>15, ForgottenDoes
    <2>2. QED
      BY <1>s, <2>1 DEF Watch
  <1>16. ASSUME OpenDialog \/ Cancel \/ RunsOut PROVE Watch'
    BY <1>s, <1>16, DialogDoes DEF SamePage, Quiet
  <1>17. ASSUME NEW fn \in {"write", "note"}, Apply(fn) PROVE Watch'
    BY <1>s, <1>17, ApplyDoes
  <1>18. QED
    BY <1>1, <1>2, <1>3, <1>4, <1>5, <1>6, <1>7, <1>8, <1>9, <1>10, <1>11, <1>12, <1>13,
       <1>14, <1>15, <1>16, <1>17 DEF Next, Deliver

--------------------------------------------------------------------------------
(* Who waits for what *)

Outlives(k) ==
    \E j \in DOMAIN calls' : calls'[j].fn = calls[k].fn /\ calls'[j].frees = calls[k].frees

LEMMA OutlivesTurned ==
    ASSUME Types, NEW gone, NEW claimed \in BOOLEAN, NEW fresh,
           Turned(calls, calls', gone, claimed, fresh), NEW k \in DOMAIN calls, k \notin gone
    PROVE  Outlives(k)
  <1>1. Went(calls, calls', gone, claimed, fresh)
    BY CallsCarried
  <1>2. PICK j \in DOMAIN calls' : Carried(calls'[j], calls[k], claimed)
    BY <1>1 DEF Went
  <1>3. QED
    BY <1>2 DEF Carried, Alike, Outlives

LEMMA OthersOutlive ==
    ASSUME Types, NEW i, NEW claimed \in BOOLEAN, NEW fresh,
           Turned(calls, calls', {i}, claimed, fresh), NEW k \in DOMAIN calls, k # i
    PROVE  Outlives(k)
  <1>1. PICK gone : gone = {i}
    OBVIOUS
  <1>2. QED
    BY <1>1, OutlivesTurned

LEMMA AllOutlive ==
    ASSUME Types, NEW claimed \in BOOLEAN, NEW fresh,
           Turned(calls, calls', {}, claimed, fresh), NEW k \in DOMAIN calls
    PROVE  Outlives(k)
  <1>1. PICK gone : gone = {}
    OBVIOUS
  <1>2. QED
    BY <1>1, OutlivesTurned

LEMMA AnsweredOutlives ==
    ASSUME Types, NEW i \in DOMAIN calls, NEW c, SameQuestion(c, calls[i]),
           Turned(calls, calls', {i}, FALSE, {c}), NEW k \in DOMAIN calls
    PROVE  Outlives(k)
  <1>1. PICK claimed, fresh : claimed \in BOOLEAN /\ claimed = FALSE /\ fresh = {c}
    OBVIOUS
  <1>2. Turned(calls, calls', {i}, claimed, fresh)
    BY <1>1
  <1>3. CASE k # i
    BY <1>1, <1>2, <1>3, OthersOutlive
  <1>4. CASE k = i
    <2>1. PICK j \in DOMAIN calls' : calls'[j] = c
      BY <1>1, <1>2 DEF Turned
    <2>2. QED
      BY <1>4, <2>1 DEF SameQuestion, Outlives
  <1>5. QED
    BY <1>3, <1>4

LEMMA SameOutlive ==
    ASSUME calls' = calls, NEW k \in DOMAIN calls
    PROVE  Outlives(k)
  BY DEF Outlives

(* Only what is dealt with leaves the calls.                               *)
LEMMA DeliverOutlives ==
    ASSUME Types, NEW i \in DOMAIN calls, Deliver(i), NEW k \in DOMAIN calls, k # i
    PROVE  Outlives(k)
  <1>1. ASSUME NEW fresh, Turned(calls, calls', {i}, TRUE, fresh) \/ Turned(calls, calls', {i}, FALSE, fresh)
        PROVE  Outlives(k)
    <2>1. ASSUME NEW claimed \in BOOLEAN, Turned(calls, calls', {i}, claimed, fresh)
          PROVE  Outlives(k)
      BY <2>1, OthersOutlive
    <2>2. QED
      BY <1>1, <2>1
  <1>2. CASE Selected(i) \/ GotOlder(i)
    BY <1>1, <1>2, SelectedDoes, GotOlderDoes
  <1>3. CASE Loaded(i)
    BY <1>1, <1>3, LoadedDoes
  <1>4. CASE Refreshed(i)
    BY <1>1, <1>4, RefreshedDoes
  <1>5. CASE Written(i)
    BY <1>1, <1>5, WrittenDoes
  <1>6. CASE Forgotten(i)
    BY <1>1, <1>6, ForgottenDoes
  <1>7. QED
    BY <1>2, <1>3, <1>4, <1>5, <1>6 DEF Deliver

LEMMA OutlivesStep ==
    ASSUME Types, NewsOK, Next, "failed" \notin mishaps', NEW k \in DOMAIN calls
    PROVE  Outlives(k) \/ Deliver(k)
  <1>a. ASSUME NEW fresh, Turned(calls, calls', {}, TRUE, fresh) \/ Turned(calls, calls', {}, FALSE, fresh)
        PROVE  Outlives(k)
    <2>1. ASSUME NEW claimed \in BOOLEAN, Turned(calls, calls', {}, claimed, fresh)
          PROVE  Outlives(k)
      BY <2>1, AllOutlive
    <2>2. QED
      BY <1>a, <2>1
  <1>1. ASSUME NEW dash \in Dashboards, Record(dash) \/ ForgetBegins(dash) PROVE Outlives(k)
    BY <1>1, RecordDoes, ForgetBeginsDoes, SameOutlive DEF SamePage
  <1>2. ASSUME NEW dash \in Dashboards, Pick(dash) PROVE Outlives(k)
    BY <1>a, <1>2, PickDoes
  <1>3. ASSUME NEW dash \in Dashboards, Forget(dash) PROVE Outlives(k)
    BY <1>a, <1>3, ForgetDoes
  <1>4. ASSUME ForgetEnds \/ OpenDialog \/ Cancel \/ RunsOut PROVE Outlives(k)
    BY <1>4, ForgetEndsDoes, DialogDoes, SameOutlive DEF SamePage
  <1>5. ASSUME LoadOlder \/ Reload PROVE Outlives(k)
    BY <1>a, <1>5, LoadOlderDoes, ReloadDoes
  <1>6. ASSUME NEW fn \in {"write", "note"}, Apply(fn) PROVE Outlives(k)
    BY <1>a, <1>6, ApplyDoes
  <1>7. ASSUME NEW i \in DOMAIN calls, Answer(i) PROVE Outlives(k)
    BY <1>7, AnswerDoes, AnsweredOutlives
  <1>8. ASSUME NEW i \in DOMAIN calls, Fail(i) PROVE Outlives(k)
    BY <1>8, FailDoes
  <1>9. ASSUME NEW i \in DOMAIN calls, Deliver(i) PROVE Outlives(k) \/ Deliver(k)
    BY <1>9, DeliverOutlives
  <1>10. ASSUME HearRecorded PROVE Outlives(k)
    BY <1>a, <1>10, HearRecordedDoes
  <1>11. ASSUME HearForgetting PROVE Outlives(k)
    BY <1>a, <1>11, HearForgettingDoes
  <1>12. ASSUME Disconnect PROVE Outlives(k)
    BY <1>12, DisconnectDoes, SameOutlive
  <1>13. ASSUME Reconnect PROVE Outlives(k)
    BY <1>a, <1>13, ReconnectDoes
  <1>14. QED
    BY <1>1, <1>2, <1>3, <1>4, <1>5, <1>6, <1>7, <1>8, <1>9, <1>10, <1>11, <1>12,
       <1>13 DEF Next

(* What becomes of the dialog and of the waiting.                          *)
LEMMA SameDialog ==
    ASSUME \/ \E dash \in Dashboards :
                Record(dash) \/ ForgetBegins(dash) \/ Pick(dash) \/ Forget(dash)
           \/ ForgetEnds \/ LoadOlder \/ Reload \/ HearForgetting \/ Disconnect \/ Reconnect
           \/ \E i \in DOMAIN calls : Answer(i) \/ Fail(i) \/ Deliver(i)
    PROVE  dialog' = dialog /\ awaiting' = awaiting
  <1>1. ASSUME NEW dash, Record(dash) \/ ForgetBegins(dash) \/ Pick(dash) \/ Forget(dash)
        PROVE  dialog' = dialog /\ awaiting' = awaiting
    BY <1>1 DEF Record, ForgetBegins, Pick, Forget, StartSelect, write
  <1>2. ASSUME ForgetEnds \/ LoadOlder \/ Reload \/ HearForgetting \/ Disconnect \/ Reconnect
        PROVE  dialog' = dialog /\ awaiting' = awaiting
    BY <1>2 DEF ForgetEnds, LoadOlder, Reload, HearForgetting, Disconnect, Reconnect, write
  <1>3. ASSUME NEW i, Answer(i) \/ Fail(i) PROVE dialog' = dialog /\ awaiting' = awaiting
    BY <1>3 DEF Answer, Fail, write
  <1>4. ASSUME NEW i, Deliver(i) PROVE dialog' = dialog /\ awaiting' = awaiting
    BY <1>4 DEF Deliver, Selected, Loaded, StartSelect, GotOlder, Refreshed, Written, Forgotten,
                write
  <1>5. QED
    BY <1>1, <1>2, <1>3, <1>4

LEMMA ArmedStep ==
    ASSUME Types, Noted, OneMine, NewsOK, Armed, Next
    PROVE  Armed'
  <1>1. SUFFICES ASSUME awaiting', "failed" \notin mishaps'
                 PROVE  \E j \in DOMAIN calls' : calls'[j].fn = "write"
    BY DEF Armed
  <1>2. "failed" \notin mishaps
    BY <1>1, MishapsGrow
  <1>3. ASSUME NEW fn \in {"write", "note"}, Apply(fn), fn = "write"
        PROVE  \E j \in DOMAIN calls' : calls'[j].fn = "write"
    BY <1>3, ApplyDoes DEF Turned
  <1>4. awaiting \/ \E fn \in {"write", "note"} : Apply(fn) /\ fn = "write"
    <2>1. ASSUME OpenDialog \/ Cancel \/ RunsOut \/ HearRecorded PROVE awaiting
      BY <1>1, <2>1 DEF OpenDialog, Cancel, RunsOut, HearRecorded
    <2>2. ASSUME NEW fn, Apply(fn) PROVE awaiting \/ fn = "write"
      BY <1>1, <2>2 DEF Apply
    <2>3. QED
      BY <1>1, <2>1, <2>2, SameDialog DEF Next
  <1>5. CASE awaiting
    <2>1. PICK k \in DOMAIN calls : calls[k].fn = "write"
      BY <1>2, <1>5 DEF Armed
    <2>2. CASE \E l \in DOMAIN calls : calls[l].fn = "write" /\ Outlives(l)
      BY <2>2 DEF Outlives
    <2>3. CASE Deliver(k)
      <3>1. Written(k)
        BY <2>1, <2>3, SelectedDoes, LoadedDoes, GotOlderDoes, RefreshedDoes, ForgottenDoes
           DEF Deliver
      <3>2. PICK l \in DOMAIN calls : l > k /\ calls[l].fn = "write"
        <4>1. awaiting' = awaiting
          BY <2>3, SameDialog
        <4>2. ~Failed(calls[k])
          BY <1>2 DEF Noted
        <4>3. QED
          BY <1>5, <2>1, <3>1, <4>2 DEF Written
      <3>3. k # l
        <4>1. k \in Nat /\ l \in Nat
          BY DEF Types
        <4>2. QED
          BY <3>2, <4>1
      <3>4. QED
        BY <2>2, <2>3, <3>2, <3>3, DeliverOutlives
    <2>4. QED
      BY <1>1, <2>1, <2>2, <2>3, OutlivesStep
  <1>6. QED
    BY <1>3, <1>4, <1>5

(* A forget heard to begin is still going on, or its end is still to be    *)
(* heard.                                                                  *)
LEMMA BegunLifts ==
    ASSUME Types, NewsOK, HearForgetting, news[1].kind = "rewriting",
           locked' = [key |-> news[1].dash, borrowed |-> TRUE]
    PROVE  Lifting'
  <1>n. news \in Seq(Events)
    BY DEF Types
  <1>1. /\ news # <<>> /\ news' = Tail(news) /\ SameServer
    BY HearForgettingDoes
  <1>2. PICK e \in Events : e = news[1]
    BY <1>n, <1>1, TailTypes
  <1>3. \A x : Heard(x) => x = e \/ Heard(x)'
    BY <1>n, <1>1, <1>2, HeardRest
  <1>4. e.dash \in Dashboards /\ [key |-> e.dash, borrowed |-> TRUE] \in Locks
    BY <1>2 DEF Events, Locks
  <1>5. forgetting = e.dash \/ Heard(Done(e.dash))'
    <2>1. 1 \in DOMAIN news
      BY <1>n, <1>1, TailTypes
    <2>2. \/ forgetting = e.dash
          \/ \E j \in 1 + 1 .. Len(news) : news[j] = Done(e.dash)
      BY <1>2, <2>1 DEF NewsOK
    <2>3. ASSUME NEW j \in 1 + 1 .. Len(news), news[j] = Done(e.dash)
          PROVE  Heard(Done(e.dash))'
      <3>1. j \in DOMAIN news /\ Done(e.dash) # e
        BY <1>n, <1>1, <1>2, <2>3, TailTypes DEF Done
      <3>2. Heard(Done(e.dash))
        BY <2>3, <3>1 DEF Heard
      <3>3. QED
        BY <1>3, <3>1, <3>2
    <2>4. QED
      BY <2>2, <2>3
  <1>6. locked' # None /\ locked'.borrowed /\ locked'.key = e.dash
    BY <1>2, <1>4, NoneAssumption
  <1>7. PICK k : k = e.dash
    OBVIOUS
  <1>8. forgetting' = k \/ Heard(Done(k))'
    BY <1>1, <1>5, <1>7 DEF SameServer
  <1>9. QED
    BY <1>6, <1>7, <1>8 DEF Lifting, Heard, Done

LEMMA LentStands ==
    ASSUME Lent, mishaps = {}, locked' = locked, NEW k, k = locked.key,
           \A i \in DOMAIN calls : ~calls[i].frees,
           forgetting = k \/ Heard(Done(k)) => forgetting' = k \/ Heard(Done(k))'
    PROVE  Lent'
  <1>1. SUFFICES ASSUME locked # None, locked.borrowed PROVE Lifting'
    BY DEF Lent
  <1>2. Lifting
    BY <1>1 DEF Lent
  <1>3. forgetting' = k \/ Heard(Done(k))'
    BY <1>2 DEF Lifting
  <1>4. QED
    BY <1>1, <1>3 DEF Lifting, Heard, Done

LEMMA LentStep ==
    ASSUME Types, Noted, OneMine, NewsOK, LockOK, Lent, Next
    PROVE  Lent'
  <1>1. SUFFICES ASSUME mishaps' = {}, locked' # None, locked'.borrowed,
                        \A j \in DOMAIN calls' : ~calls'[j].frees
                 PROVE  Lent'
    BY DEF Lent
  <1>n. news \in Seq(Events)
    BY DEF Types
  <1>m. mishaps = {} /\ "failed" \notin mishaps'
    BY <1>1, MishapsGrow
  <1>2. ASSUME NEW i \in DOMAIN calls PROVE ~calls[i].frees
    <2>1. CASE Outlives(i)
      BY <1>1, <2>1 DEF Outlives
    <2>2. CASE Deliver(i) /\ calls[i].frees
      <3>1. calls[i].fn \in {"load", "select"}
        BY <2>2 DEF LockOK
      <3>2. Selected(i) \/ Loaded(i)
        BY <2>2, <3>1, GotOlderDoes, RefreshedDoes, WrittenDoes, ForgottenDoes DEF Deliver, Writes
      <3>3. Unlocked(calls[i]) = None
        BY <2>2 DEF Unlocked
      <3>4. PICK frees \in BOOLEAN : frees = calls[i].frees
        BY <2>2
      <3>5. ASSUME NEW first \in Dashboards,
                   Turned(calls, calls', {i}, TRUE, {SelectCall(first, calls[i].frees)})
            PROVE  FALSE
        <4>1. PICK c : c = SelectCall(first, frees)
          OBVIOUS
        <4>2. c.frees
          BY <2>2, <3>4, <4>1, FreshCalls
        <4>3. \E j \in DOMAIN calls' : calls'[j] = c
          BY <3>4, <3>5, <4>1 DEF Turned
        <4>4. QED
          BY <1>1, <4>2, <4>3
      <3>6. QED
        BY <1>1, <3>2, <3>3, <3>5, SelectedDoes, LoadedDoes
    <2>3. QED
      BY <1>m, <2>1, <2>2, OutlivesStep
  <1>k. PICK k : k = locked.key
    OBVIOUS
  <1>q. ASSUME locked' = locked, SameServer, news' = news PROVE Lent'
    <2>1. forgetting = k \/ Heard(Done(k)) => forgetting' = k \/ Heard(Done(k))'
      BY <1>q DEF SameServer, Heard
    <2>2. QED
      BY <1>m, <1>2, <1>k, <1>q, <2>1, LentStands
  <1>3. ASSUME NEW dash \in Dashboards, Record(dash) PROVE Lent'
    <2>1. PICK e \in Events : e = Saved(dash)
      BY SavedIs
    <2>2. Announce(e) /\ forgetting' = forgetting /\ locked' = locked
      BY <1>3, <2>1, RecordDoes DEF SamePage
    <2>3. \A x : Heard(x) => Heard(x)'
      BY <1>n, <2>2, HeardStays
    <2>4. forgetting = k \/ Heard(Done(k)) => forgetting' = k \/ Heard(Done(k))'
      BY <2>2, <2>3
    <2>5. QED
      BY <1>m, <1>2, <1>k, <2>2, <2>4, LentStands
  <1>4. ASSUME NEW dash \in Dashboards, ForgetBegins(dash) PROVE Lent'
    <2>1. PICK e \in Events : e = Begun(dash)
      BY SavedIs
    <2>2. Announce(e) /\ forgetting = None /\ locked' = locked
      BY <1>4, <2>1, ForgetBeginsDoes DEF SamePage
    <2>3. \A x : Heard(x) => Heard(x)'
      BY <1>n, <2>2, HeardStays
    <2>4. CASE locked # None
      <3>1. k # None
        BY <1>k, <2>4, NoneAssumption, PanelAssumption DEF LockOK
      <3>2. forgetting = k \/ Heard(Done(k)) => forgetting' = k \/ Heard(Done(k))'
        BY <2>2, <2>3, <3>1
      <3>3. QED
        BY <1>m, <1>2, <1>k, <2>2, <3>2, LentStands
    <2>5. QED
      BY <1>1, <2>2, <2>4
  <1>5. ASSUME ForgetEnds PROVE Lent'
    <2>1. forgetting \in Gone /\ forgetting \in Dashboards /\ Announce(Done(forgetting)) /\ SamePage
      BY <1>5, ForgetEndsDoes
    <2>2. PICK e \in Events : e = Done(forgetting)
      BY <2>1, SavedIs
    <2>3. \A x : Heard(x) => Heard(x)'
      BY <1>n, <2>1, <2>2, HeardStays
    <2>4. Heard(e)'
      BY <1>1, <1>n, <2>1, <2>2, Announced, HeardStays
    <2>5. forgetting = k \/ Heard(Done(k)) => forgetting' = k \/ Heard(Done(k))'
      <3>1. CASE forgetting = k
        <4>1. e = Done(k)
          BY <2>2, <3>1
        <4>2. QED
          BY <2>4, <4>1
      <3>2. QED
        BY <2>3, <3>1
    <2>6. QED
      BY <1>m, <1>2, <1>k, <2>1, <2>5, LentStands DEF SamePage
  <1>6. ASSUME NEW dash \in Dashboards, Pick(dash) \/ Forget(dash) PROVE Lent'
    <2>1. CASE Pick(dash)
      BY <1>q, <2>1, PickDoes DEF Quiet
    <2>2. CASE Forget(dash)
      <3>1. locked' = [key |-> dash, borrowed |-> FALSE]
        BY <2>2, ForgetDoes
      <3>2. QED
        BY <1>1, <3>1
    <2>3. QED
      BY <1>6, <2>1, <2>2
  <1>7. ASSUME LoadOlder \/ Reload \/ OpenDialog \/ Cancel \/ RunsOut PROVE Lent'
    BY <1>q, <1>7, LoadOlderDoes, ReloadDoes, DialogDoes DEF Quiet, SamePage
  <1>8. ASSUME NEW fn \in {"write", "note"}, Apply(fn) PROVE Lent'
    BY <1>q, <1>8, ApplyDoes DEF Quiet
  <1>9. ASSUME NEW i \in DOMAIN calls, Answer(i) \/ Fail(i) PROVE Lent'
    BY <1>q, <1>9, AnswerDoes, FailDoes DEF Quiet
  <1>10. ASSUME NEW i \in DOMAIN calls, Deliver(i) PROVE Lent'
    <2>1. Unlocked(calls[i]) = locked
      BY <1>2 DEF Unlocked
    <2>2. /\ SameServer /\ Quiet
          /\ locked' = locked \/ locked' = None
      BY <1>10, <2>1, SelectedDoes, LoadedDoes, GotOlderDoes, RefreshedDoes, WrittenDoes,
         ForgottenDoes DEF Deliver
    <2>3. QED
      BY <1>1, <1>q, <2>2 DEF Quiet
  <1>11. ASSUME HearRecorded \/ HearForgetting PROVE Lent'
    <2>1. news # <<>> /\ news' = Tail(news) /\ SameServer
      BY <1>11, HearRecordedDoes, HearForgettingDoes
    <2>2. PICK e \in Events : e = news[1]
      BY <1>n, <2>1, TailTypes
    <2>3. \A x : Heard(x) => x = e \/ Heard(x)'
      BY <1>n, <2>1, <2>2, HeardRest
    <2>4. ASSUME locked' = locked, Done(k) # e PROVE Lent'
      <3>1. forgetting = k \/ Heard(Done(k)) => forgetting' = k \/ Heard(Done(k))'
        BY <2>1, <2>3, <2>4 DEF SameServer
      <3>2. QED
        BY <1>m, <1>2, <1>k, <2>4, <3>1, LentStands
    <2>5. CASE HearRecorded
      <3>1. Done(k) # e
        BY <2>2, <2>5, HearRecordedDoes DEF Done
      <3>2. QED
        BY <2>4, <2>5, <3>1, HearRecordedDoes
    <2>6. CASE HearForgetting
      <3>1. CASE locked' = [key |-> news[1].dash, borrowed |-> TRUE] /\ news[1].kind = "rewriting"
        BY <2>6, <3>1, BegunLifts DEF Lent
      <3>2. CASE Turned(calls, calls', {}, FALSE, {Freeing})
        <4>1. PICK c : c = Freeing
          OBVIOUS
        <4>2. c.frees /\ \E j \in DOMAIN calls' : calls'[j] = c
          BY <3>2, <4>1, FreshCalls DEF Turned
        <4>3. QED
          BY <1>1, <4>2
      <3>3. CASE locked' = locked /\ (e.kind = "done" => locked # [key |-> e.dash, borrowed |-> TRUE])
        <4>1. locked \in Locks /\ locked.borrowed = TRUE
          BY <1>1, <3>3 DEF Types, Locks
        <4>2. locked = [key |-> k, borrowed |-> TRUE]
          BY <1>k, <4>1 DEF Locks
        <4>3. Done(k) # e
          <5>1. Done(k).kind = "done" /\ Done(k).dash = k
            BY DEF Done
          <5>2. QED
            BY <3>3, <4>2, <5>1
        <4>4. QED
          BY <2>4, <3>3, <4>3
      <3>4. QED
        BY <2>2, <2>6, <3>1, <3>2, <3>3, HearForgettingDoes
    <2>7. QED
      BY <1>11, <2>5, <2>6
  <1>12. ASSUME Disconnect PROVE Lent'
    <2>1. news = <<>> /\ news' = <<>> /\ SameServer /\ locked' = locked
      BY <1>1, <1>12, DisconnectDoes
    <2>2. QED
      BY <1>q, <2>1
  <1>13. ASSUME Reconnect PROVE Lent'
    BY <1>q, <1>13, ReconnectDoes
  <1>14. QED
    BY <1>3, <1>4, <1>5, <1>6, <1>7, <1>8, <1>9, <1>10, <1>11, <1>12, <1>13 DEF Next

--------------------------------------------------------------------------------
(* What is to come, comes *)

AsksOn == (\E k \in DOMAIN calls : Asks(calls[k])) => \E j \in DOMAIN calls' : Asks(calls'[j])

Restarted == \E c \in Calls : OnlyHolder(c) /\ Rereads(c) /\ c.at = "asked"

(* The list will be fresh, or there is nothing for it to be fresh of.      *)
Sure == Coming' \/ Newest(selected)' = 0 \/ Restarted

LEMMA AsksTurned ==
    ASSUME Types, NEW gone, NEW claimed \in BOOLEAN, NEW fresh,
           Turned(calls, calls', gone, claimed, fresh),
           \A k \in DOMAIN calls : k \in gone /\ Asks(calls[k]) => \E c \in fresh : Asks(c)
    PROVE  AsksOn
  <1>1. Went(calls, calls', gone, claimed, fresh)
    BY CallsCarried
  <1>2. ASSUME NEW k \in DOMAIN calls, Asks(calls[k])
        PROVE  \E j \in DOMAIN calls' : Asks(calls'[j])
    <2>1. CASE k \in gone
      BY <1>1, <1>2, <2>1 DEF Went
    <2>2. CASE k \notin gone
      <3>1. PICK j \in DOMAIN calls' : Carried(calls'[j], calls[k], claimed)
        BY <1>1, <2>2 DEF Went
      <3>2. PICK c : c = calls'[j]
        OBVIOUS
      <3>3. Alike(c, calls[k])
        BY <3>1, <3>2 DEF Carried
      <3>4. Asks(c)
        BY <1>2, <3>3 DEF Asks, Writes, Alike
      <3>5. QED
        BY <3>2, <3>4
    <2>3. QED
      BY <2>1, <2>2
  <1>3. QED
    BY <1>2 DEF AsksOn

LEMMA AsksFewer ==
    ASSUME Types, NEW i \in DOMAIN calls, ~Asks(calls[i]), Turned(calls, calls', {i}, FALSE, {})
    PROVE  AsksOn
  <1>1. PICK gone, fresh, claimed : claimed \in BOOLEAN /\ gone = {i} /\ fresh = {} /\ claimed = FALSE
    OBVIOUS
  <1>2. Turned(calls, calls', gone, claimed, fresh)
    BY <1>1
  <1>3. QED
    BY <1>1, <1>2, AsksTurned

LEMMA AsksMore ==
    ASSUME Types, NEW claimed \in BOOLEAN, NEW c, Turned(calls, calls', {}, claimed, {c})
    PROVE  AsksOn /\ \E j \in DOMAIN calls' : calls'[j] = c
  <1>1. PICK gone, fresh : gone = {} /\ fresh = {c}
    OBVIOUS
  <1>2. Turned(calls, calls', gone, claimed, fresh)
    BY <1>1
  <1>3. AsksOn
    BY <1>1, <1>2, AsksTurned
  <1>4. \E j \in DOMAIN calls' : calls'[j] = c
    BY <1>1, <1>2 DEF Turned
  <1>5. QED
    BY <1>3, <1>4

LEMMA AsksSame ==
    ASSUME Types, Turned(calls, calls', {}, FALSE, {})
    PROVE  AsksOn
  <1>1. PICK gone, fresh, claimed : claimed \in BOOLEAN /\ gone = {} /\ fresh = {} /\ claimed = FALSE
    OBVIOUS
  <1>2. Turned(calls, calls', gone, claimed, fresh)
    BY <1>1
  <1>3. QED
    BY <1>1, <1>2, AsksTurned

LEMMA AsksChanged ==
    ASSUME Types, NEW i \in DOMAIN calls, NEW c, Asks(calls[i]) => Asks(c),
           Turned(calls, calls', {i}, FALSE, {c})
    PROVE  AsksOn
  <1>1. PICK gone, fresh, claimed : claimed \in BOOLEAN /\ gone = {i} /\ fresh = {c} /\ claimed = FALSE
    OBVIOUS
  <1>2. Turned(calls, calls', gone, claimed, fresh)
    BY <1>1
  <1>3. QED
    BY <1>1, <1>2, AsksTurned

LEMMA ComingStands ==
    ASSUME Coming, AsksOn, selected' = selected, locked' = locked, forgetting' = forgetting,
           dialog = "missed" => dialog' = "missed", \A x : Heard(x) => Heard(x)'
    PROVE  Coming'
  <1>1. PICK s : s = selected /\ s = selected'
    OBVIOUS
  <1>2. Heard(Saved(selected)) => Heard(Saved(selected))'
    <2>1. Heard(Saved(s)) => Heard(Saved(s))'
      OBVIOUS
    <2>2. QED
      BY <1>1, <2>1 DEF Heard, Saved
  <1>3. \A dash \in Gone : Unheeded(dash) => Unheeded(dash)'
    BY DEF Unheeded
  <1>4. Lifting => Lifting'
    <2>1. PICK k : k = locked.key /\ k = locked'.key
      OBVIOUS
    <2>2. Heard(Done(k)) => Heard(Done(k))'
      OBVIOUS
    <2>3. QED
      BY <2>1, <2>2 DEF Lifting, Heard, Done
  <1>5. (\E k \in DOMAIN calls : Asks(calls[k])) => (\E j \in DOMAIN calls : Asks(calls[j]))'
    BY DEF AsksOn, Asks, Writes
  <1>6. QED
    BY <1>2, <1>3, <1>4, <1>5 DEF Coming

LEMMA AskedFor ==
    ASSUME NEW c, Asks(c), \E j \in DOMAIN calls' : calls'[j] = c
    PROVE  Coming'
  BY DEF Coming, Asks, Writes

LEMMA QuietComing ==
    ASSUME Coming, AsksOn, selected' = selected, locked' = locked, SameServer, news' = news,
           dialog = "missed" => dialog' = "missed"
    PROVE  Coming'
  BY ComingStands DEF SameServer, Heard

(* The lock comes off once all is read again: nothing is waited for then.  *)
LEMMA ComingUnlocked ==
    ASSUME NewsOK, LockOK, Coming, AsksOn, NEW i \in DOMAIN calls, mishaps = {},
           selected' = selected, SameServer, news' = news, dialog' = dialog,
           locked' = Unlocked(calls[i])
    PROVE  Coming'
  <1>1. CASE ~calls[i].frees
    BY <1>1, QuietComing DEF Unlocked
  <1>2. CASE calls[i].frees
    <2>1. locked' = None
      BY <1>2 DEF Unlocked
    <2>2. ~Lifting
      BY <1>2, NotLifted DEF Lifting
    <2>3. \A dash \in Gone : Heard(Begun(dash)) => Unheeded(dash)'
      <3>1. \A dash \in Gone : [key |-> dash, borrowed |-> FALSE] \in Locks
        BY PanelAssumption DEF Locks
      <3>2. \A dash \in Gone : locked' # [key |-> dash, borrowed |-> FALSE]
        BY <2>1, <3>1, NoneAssumption
      <3>3. QED
        BY <3>2 DEF Unheeded, Heard, Begun
    <2>4. (\E k \in DOMAIN calls : Asks(calls[k])) => (\E j \in DOMAIN calls : Asks(calls[j]))'
      BY DEF AsksOn, Asks, Writes
    <2>5. Heard(Saved(selected)) => Heard(Saved(selected))'
      BY DEF Heard, Saved
    <2>6. QED
      BY <2>2, <2>3, <2>4, <2>5 DEF Coming, Unheeded
  <1>3. QED
    BY <1>1, <1>2

LEMMA SameAsks ==
    ASSUME calls' = calls
    PROVE  AsksOn
  BY DEF AsksOn

(* A forget that ends has everything read again.                           *)
LEMMA ComingAtTheEnd ==
    ASSUME Types, NewsOK, LockOK, Watch, ForgetEnds, mishaps' = {}
    PROVE  Coming'
  <1>1. PICK f : f = forgetting
    OBVIOUS
  <1>2. f \in Gone /\ f \in Dashboards /\ Newest(f) # 0 /\ forgetting # None
    BY <1>1, ForgetShrinks, PanelAssumption, NoneAssumption
  <1>3. PICK e \in Events : e = Done(f)
    BY <1>2, SavedIs
  <1>4. Announce(e) /\ SamePage
    BY <1>1, <1>3, ForgetEndsDoes
  <1>5. news \in Seq(Events)
    BY DEF Types
  <1>6. mishaps = {} /\ Heard(e)' /\ \A x : Heard(x) => Heard(x)'
    BY <1>3, <1>4, <1>5, Announced, HeardStays
  <1>7. CASE locked = [key |-> f, borrowed |-> FALSE]
    <2>1. locked # None /\ ~locked.borrowed /\ locked.key = f
      <3>1. [key |-> f, borrowed |-> FALSE] \in Locks
        BY <1>2 DEF Locks
      <3>2. QED
        BY <1>7, <3>1, NoneAssumption
    <2>2. PICK i \in DOMAIN calls : Holds(calls[i])
      BY <2>1 DEF LockOK
    <2>3. ~calls[i].frees
      BY <1>1, <1>6, <2>1, NotLifted
    <2>4. Asks(calls[i]) /\ calls' = calls
      BY <1>4, <2>2, <2>3 DEF Holds, Asks, SamePage
    <2>5. QED
      BY <2>4 DEF Coming, Asks, Writes
  <1>8. CASE locked # [key |-> f, borrowed |-> FALSE] /\ Heard(Begun(f))
    <2>1. Unheeded(f)'
      BY <1>4, <1>6, <1>8 DEF Unheeded, SamePage
    <2>2. QED
      BY <1>2, <2>1 DEF Coming
  <1>9. CASE locked # [key |-> f, borrowed |-> FALSE] /\ ~Heard(Begun(f))
    <2>1. locked # None /\ locked.key = f
      BY <1>1, <1>2, <1>6, <1>9 DEF Watch
    <2>2. locked.borrowed
      BY <1>9, <2>1 DEF Types, Locks
    <2>3. Lifting'
      BY <1>3, <1>4, <1>6, <2>1, <2>2 DEF Lifting, SamePage, Heard, Done
    <2>4. QED
      BY <2>3 DEF Coming
  <1>10. QED
    BY <1>7, <1>8, <1>9

LEMMA SelectRestarts ==
    ASSUME NEW dash \in Dashboards, NEW frees \in BOOLEAN, OnlyHolder(SelectCall(dash, frees))
    PROVE  Restarted
  <1>1. PICK c : c = SelectCall(dash, frees)
    OBVIOUS
  <1>2. c \in Calls /\ c.mine /\ c.fn = "select" /\ c.at = "asked"
    BY <1>1, FreshCalls
  <1>3. QED
    BY <1>1, <1>2 DEF Restarted, Rereads

LEMMA LoadedRestarts ==
    ASSUME Types, Noted, OneMine, NEW i \in DOMAIN calls, Loaded(i), "failed" \notin mishaps
    PROVE  \/ Restarted
           \/ /\ calls[i].fn = "load" /\ calls[i].at = "listed" /\ calls[i].answer = {}
              /\ Turned(calls, calls', {i}, FALSE, {})
              /\ HolderKept /\ SameList /\ locked' = Unlocked(calls[i])
  <1>1. ~Failed(calls[i])
    BY DEF Noted
  <1>2. ASSUME NEW first \in Dashboards, OnlyHolder(SelectCall(first, calls[i].frees))
        PROVE  Restarted
    <2>1. calls[i] \in Calls
      BY DEF Types
    <2>2. PICK frees \in BOOLEAN : frees = calls[i].frees
      BY <2>1 DEF Calls
    <2>3. OnlyHolder(SelectCall(first, frees))
      BY <1>2, <2>2
    <2>4. QED
      BY <2>3, SelectRestarts
  <1>3. CASE /\ calls[i].at = "listed" /\ calls[i].answer = {} /\ HolderKept /\ SameList
    <2>1. CASE Turned(calls, calls', {i}, FALSE, {}) /\ locked' = Unlocked(calls[i])
      BY <1>3, <2>1, LoadedDoes
    <2>2. ASSUME NEW first \in Dashboards,
                 Turned(calls, calls', {i}, TRUE, {SelectCall(first, calls[i].frees)})
          PROVE  Restarted
      <3>1. PICK c, gone : c = SelectCall(first, calls[i].frees) /\ gone = {i}
        OBVIOUS
      <3>2. OnlyHolder(c)
        BY <2>2, <3>1, HolderChosen
      <3>3. QED
        BY <1>2, <3>1, <3>2
    <2>3. QED
      BY <2>1, <2>2, LoadedDoes
  <1>4. QED
    BY <1>1, <1>2, <1>3, HolderLoaded

LEMMA NothingLeft ==
    ASSUME Numbered(log), {r.dash : r \in log} = {}, NEW dash \in Dashboards
    PROVE  Newest(dash) = 0
  <1>1. {s \in log : s.dash = dash} = {}
    OBVIOUS
  <1>2. {r.id : r \in {s \in log : s.dash = dash}} = 1 .. 0
    BY <1>1
  <1>3. NewestIn(log, dash) = 0
    BY <1>2, CountedAs
  <1>4. QED
    BY <1>3, InTheLog

LEMMA ComingAnswer ==
    ASSUME Types, Coming, NEW i \in DOMAIN calls, Answer(i), selected # None
    PROVE  Sure
  <1>1. PICK c \in Calls :
          /\ Turned(calls, calls', {i}, FALSE, {c}) /\ SameQuestion(c, calls[i])
          /\ \/ /\ calls[i].at = "listing" /\ c.at = "listed"
                /\ c.answer = {r.dash : r \in log}
             \/ /\ calls[i].at = "asked" /\ c.at = "answered"
                /\ calls[i].fn \in {"forget", "write", "note"}
             \/ /\ calls[i].at = "asked" /\ c.at = "answered"
                /\ calls[i].fn \in {"select", "older", "refresh"}
    BY AnswerDoes
  <1>2. /\ SameServer /\ Quiet /\ SameList /\ locked' = locked /\ dialog' = dialog
    BY AnswerDoes, SameDialog
  <1>3. CASE {r.dash : r \in log} = {}
    <2>1. PICK s \in Dashboards : s = selected /\ s = selected'
      BY <1>2 DEF Types, SameList
    <2>2. Newest(s) = 0
      BY <1>3, NothingLeft DEF Types
    <2>3. Newest(s)' = 0
      BY <1>2, <2>2 DEF Newest, SameServer
    <2>4. Newest(selected)' = 0
      BY <2>1, <2>3 DEF Newest
    <2>5. QED
      BY <2>4 DEF Sure
  <1>4. CASE {r.dash : r \in log} # {}
    <2>1. Asks(calls[i]) => Asks(c)
      BY <1>1, <1>4 DEF Asks, Writes, SameQuestion
    <2>2. AsksOn
      BY <1>1, <2>1, AsksChanged
    <2>3. QED
      BY <1>2, <2>2, QuietComing DEF Sure, SameList, Quiet
  <1>5. QED
    BY <1>3, <1>4

LEMMA ComingDropped ==
    ASSUME Types, Coming, NEW i \in DOMAIN calls, calls[i].fn \in {"older", "refresh"},
           calls[i].fn = "refresh" => calls[i].at \notin {"listing", "listed"},
           Turned(calls, calls', {i}, FALSE, {}),
           selected' = selected, locked' = locked, SameServer, news' = news, dialog' = dialog
    PROVE  Coming'
  <1>1. ~Asks(calls[i])
    BY DEF Asks, Writes
  <1>2. QED
    BY <1>1, AsksFewer, QuietComing

LEMMA ComingHeard ==
    ASSUME Types, Noted, OneMine, NewsOK, LockOK, Armed, Lent, Coming,
           HearRecorded \/ HearForgetting, mishaps' = {}, selected # None
    PROVE  Sure
  <1>n. news \in Seq(Events)
    BY DEF Types
  <1>1. /\ news # <<>> /\ news' = Tail(news) /\ SameServer /\ SameList
    BY HearRecordedDoes, HearForgettingDoes
  <1>2. PICK e \in Events : e = news[1]
    BY <1>n, <1>1, TailTypes
  <1>3. \A x : Heard(x) => x = e \/ Heard(x)'
    BY <1>n, <1>1, <1>2, HeardRest
  <1>s. PICK s \in Dashboards : s = selected /\ s = selected'
    BY <1>1 DEF Types, SameList
  <1>4. ASSUME NEW c, Asks(c), Turned(calls, calls', {}, FALSE, {c}) PROVE Coming'
    <2>1. PICK claimed : claimed \in BOOLEAN /\ claimed = FALSE
      OBVIOUS
    <2>2. \E j \in DOMAIN calls' : calls'[j] = c
      BY <1>4, <2>1, AsksMore
    <2>3. QED
      BY <1>4, <2>2, AskedFor
  <1>m. mishaps = {}
    BY HearRecordedDoes, HearForgettingDoes
  <1>a. ASSUME calls' = calls, NEW i \in DOMAIN calls, Asks(calls[i]) PROVE Coming'
    BY <1>a DEF Coming, Asks, Writes
  <1>5. CASE HearRecorded
    <2>1. e.kind = "recorded" /\ locked' = locked /\ e = Saved(e.dash)
      BY <1>2, <1>5, HearRecordedDoes, EventIs
    <2>2. ASSUME Turned(calls, calls', {}, FALSE, {Refresh("quiet")}) PROVE Coming'
      <3>1. PICK c : c = Refresh("quiet")
        OBVIOUS
      <3>2. c.fn = "refresh" /\ c.at = "listing"
        BY <3>1, FreshCalls
      <3>3. Asks(c)
        BY <3>2 DEF Asks
      <3>4. QED
        BY <1>4, <2>2, <3>1, <3>3
    <2>3. ASSUME Turned(calls, calls', {}, FALSE, {}), s # e.dash, dialog = "closed" PROVE Coming'
      <3>1. AsksOn
        BY <2>3, AsksSame
      <3>2. Saved(s) # e /\ \A d : Begun(d) # e /\ Done(d) # e
        <4>1. Saved(s).dash = s
          BY DEF Saved
        <4>2. QED
          BY <2>1, <2>3, <4>1 DEF Begun, Done
      <3>3. (\E k \in DOMAIN calls : Asks(calls[k])) => (\E j \in DOMAIN calls : Asks(calls[j]))'
        BY <3>1 DEF AsksOn, Asks, Writes
      <3>4. Heard(Saved(selected)) => Heard(Saved(selected))'
        <4>1. Heard(Saved(s)) => Heard(Saved(s))'
          BY <1>3, <3>2
        <4>2. QED
          BY <1>s, <4>1 DEF Heard, Saved
      <3>5. \A dash \in Gone : Unheeded(dash) => Unheeded(dash)'
        BY <1>3, <2>1, <3>2 DEF Unheeded
      <3>6. Lifting => Lifting'
        <4>1. PICK k : k = locked.key /\ k = locked'.key
          BY <2>1
        <4>2. Heard(Done(k)) => Heard(Done(k))'
          BY <1>3, <3>2
        <4>3. QED
          BY <1>1, <2>1, <4>1, <4>2 DEF Lifting, Heard, Done, SameServer
      <3>7. QED
        BY <2>3, <3>3, <3>4, <3>5, <3>6 DEF Coming
    <2>4. CASE awaiting /\ calls' = calls
      <3>1. PICK i \in DOMAIN calls : calls[i].fn = "write"
        BY <1>m, <2>4 DEF Armed
      <3>2. QED
        BY <1>a, <2>4, <3>1 DEF Sure, Asks, Writes
    <2>5. CASE dialog' = "missed"
      BY <2>5 DEF Sure, Coming
    <2>6. CASE locked # None /\ calls' = calls /\ ReadBeforeUnlocked
      <3>1. CASE locked.borrowed /\ \A i \in DOMAIN calls : ~calls[i].frees
        <4>1. Lifting
          BY <1>m, <2>6, <3>1 DEF Lent
        <4>2. PICK k : k = locked.key /\ k = locked'.key
          BY <2>1
        <4>3. Heard(Done(k)) => Heard(Done(k))'
          BY <1>3, <2>1 DEF Done
        <4>4. Lifting'
          BY <1>1, <2>1, <4>1, <4>2, <4>3 DEF Lifting, Heard, Done, SameServer
        <4>5. QED
          BY <4>4 DEF Sure, Coming
      <3>2. ASSUME NEW i \in DOMAIN calls, calls[i].fn = "forget" PROVE Sure
        BY <1>a, <2>6, <3>2 DEF Sure, Asks
      <3>3. ASSUME NEW i \in DOMAIN calls, calls[i].fn = "load", calls[i].answer # {} PROVE Sure
        <4>1. calls[i].at \in {"listing", "listed"}
          BY <1>m, <3>3 DEF Types, CallOK, Noted, Failed
        <4>2. QED
          BY <1>a, <2>6, <3>3, <4>1 DEF Sure, Asks
      <3>4. ASSUME NEW i \in DOMAIN calls, calls[i].frees, calls[i].mine, calls[i].at = "asked"
            PROVE  Sure
        <4>1. calls[i] \in Calls /\ calls[i].fn = "select"
          BY <3>4 DEF LockOK, Types, CallOK
        <4>2. OnlyHolder(calls[i])
          BY <2>6, <3>4 DEF OneMine, OnlyHolder
        <4>3. QED
          BY <3>4, <4>1, <4>2 DEF Sure, Restarted, Rereads
      <3>5. QED
        BY <2>6, <3>1, <3>2, <3>3, <3>4 DEF ReadBeforeUnlocked
    <2>7. CASE ~awaiting /\ dialog = "closed" /\ locked = None
      BY <1>2, <1>5, <1>s, <2>2, <2>3, <2>7, HearRecordedDoes DEF Sure
    <2>8. QED
      <3>1. "skipped" \notin mishaps'
        OBVIOUS
      <3>2. QED
        BY <1>5, <2>4, <2>5, <2>6, <2>7, <3>1 DEF HearRecorded, Free
  <1>6. CASE HearForgetting
    <2>1. e.kind # "recorded"
      BY <1>2, <1>6, HearForgettingDoes
    <2>2. Heard(Saved(selected)) => Heard(Saved(selected))'
      <3>1. Saved(s) # e
        BY <2>1 DEF Saved
      <3>2. Heard(Saved(s)) => Heard(Saved(s))'
        BY <1>3, <3>1
      <3>3. QED
        BY <1>s, <3>2 DEF Heard, Saved
    <2>3. ASSUME Turned(calls, calls', {}, FALSE, {})
          PROVE  (\E k \in DOMAIN calls : Asks(calls[k])) =>
                   (\E j \in DOMAIN calls : Asks(calls[j]))'
      BY <2>3, AsksSame DEF AsksOn, Asks, Writes
    <2>l. ASSUME locked' = [key |-> e.dash, borrowed |-> TRUE], e.kind = "rewriting"
          PROVE  Lifting'
      BY <1>2, <1>6, <2>l, BegunLifts
    <2>d. dialog = "missed" => dialog' = "missed"
      BY <1>6, SameDialog
    <2>4. ASSUME e.kind = "rewriting", locked = None, Turned(calls, calls', {}, FALSE, {}),
                 locked' = [key |-> e.dash, borrowed |-> TRUE]
          PROVE  Coming'
      BY <2>4, <2>l DEF Coming
    <2>5. ASSUME Turned(calls, calls', {}, FALSE, {Freeing})
          PROVE  Coming'
      <3>1. PICK c : c = Freeing
        OBVIOUS
      <3>2. c.fn = "load" /\ c.at = "listing"
        BY <3>1, FreshCalls
      <3>3. Asks(c)
        BY <3>2 DEF Asks
      <3>4. QED
        BY <1>4, <2>5, <3>1, <3>3
    <2>6. ASSUME e.kind = "rewriting" => locked # None,
                 e.kind = "done" => locked # [key |-> e.dash, borrowed |-> TRUE],
                 Turned(calls, calls', {}, FALSE, {}), locked' = locked
          PROVE  Coming'
      <3>1. e.kind = "rewriting" => locked.key = e.dash
        BY <1>2, <1>6, <2>6, HearForgettingDoes
      <3>2. CASE e.kind = "rewriting" /\ locked # [key |-> e.dash, borrowed |-> FALSE]
        <4>1. locked \in Locks
          BY <2>6, <3>2 DEF Types
        <4>2. locked = [key |-> e.dash, borrowed |-> TRUE]
          BY <3>1, <3>2, <4>1 DEF Locks
        <4>3. QED
          BY <2>6, <2>l, <3>2, <4>2 DEF Coming
      <3>3. CASE e.kind = "rewriting" /\ locked = [key |-> e.dash, borrowed |-> FALSE]
        <4>1. e = Begun(e.dash)
          BY <3>3, EventIs
        <4>2. \A dash \in Gone : Unheeded(dash) => Unheeded(dash)'
          <5>1. \A dash \in Gone : Unheeded(dash) => Begun(dash) # e
            <6>1. \A dash : Begun(dash) = e => dash = e.dash
              BY DEF Begun
            <6>2. QED
              BY <3>3, <6>1 DEF Unheeded
          <5>2. QED
            BY <1>3, <2>6, <5>1 DEF Unheeded
        <4>3. ~Lifting
          BY <3>3 DEF Lifting
        <4>4. QED
          BY <2>2, <2>3, <2>6, <2>d, <4>2, <4>3 DEF Coming
      <3>4. CASE e.kind = "done"
        <4>1. e = Done(e.dash)
          BY <3>4, EventIs
        <4>2. \A dash \in Gone : Unheeded(dash) => Unheeded(dash)'
          <5>1. \A dash \in Gone : Begun(dash) # e
            BY <3>4 DEF Begun
          <5>2. QED
            BY <1>3, <2>6, <5>1 DEF Unheeded
        <4>3. Lifting => Lifting'
          <5>1. PICK k : k = locked.key /\ k = locked'.key
            BY <2>6
          <5>2. ASSUME Lifting PROVE Done(k) # e
            <6>1. locked \in Locks /\ locked.borrowed = TRUE
              BY <5>2 DEF Lifting, Types, Locks
            <6>2. locked = [key |-> k, borrowed |-> TRUE]
              BY <5>1, <6>1 DEF Locks
            <6>3. Done(k).dash = k
              BY DEF Done
            <6>4. QED
              BY <2>6, <3>4, <6>2, <6>3
          <5>3. Lifting /\ Heard(Done(k)) => Heard(Done(k))'
            BY <1>3, <5>2
          <5>4. QED
            BY <1>1, <2>6, <5>1, <5>3 DEF Lifting, Heard, Done, SameServer
        <4>4. QED
          BY <2>2, <2>3, <2>6, <2>d, <4>2, <4>3 DEF Coming
      <3>5. QED
        BY <2>1, <3>2, <3>3, <3>4, EventIs
    <2>7. QED
      BY <1>2, <1>6, <2>4, <2>5, <2>6, HearForgettingDoes DEF Sure
  <1>7. QED
    BY <1>5, <1>6

LEMMA ComingStep ==
    ASSUME Types, Noted, OneMine, NewsOK, LockOK, Watch, Armed, Lent, Coming, Next,
           mishaps' = {}, selected' # None
    PROVE  Sure
  <1>n. news \in Seq(Events)
    BY DEF Types
  <1>m. mishaps = {} /\ "failed" \notin mishaps
    BY MishapsGrow
  <1>q. ASSUME AsksOn, selected' = selected, locked' = locked, SameServer, news' = news,
               dialog = "missed" => dialog' = "missed"
        PROVE  Sure
    BY <1>q, QuietComing DEF Sure
  <1>1. ASSUME NEW dash \in Dashboards, Record(dash) PROVE Sure
    <2>1. PICK e \in Events : e = Saved(dash)
      BY SavedIs
    <2>2. Announce(e) /\ SamePage /\ forgetting' = forgetting
      BY <1>1, <2>1, RecordDoes
    <2>3. \A x : Heard(x) => Heard(x)'
      BY <1>n, <2>2, HeardStays
    <2>4. AsksOn /\ dialog' = dialog
      BY <1>1, <2>2, SameAsks, SameDialog DEF SamePage
    <2>5. QED
      BY <2>2, <2>3, <2>4, ComingStands DEF Sure, SamePage, SameList
  <1>2. ASSUME NEW dash \in Dashboards, ForgetBegins(dash) PROVE Sure
    <2>1. PICK e \in Events : e = Begun(dash) /\ e.dash = dash
      BY SavedIs
    <2>2. Announce(e) /\ SamePage /\ dash \in Gone
      BY <1>2, <2>1, ForgetBeginsDoes
    <2>3. Heard(e)' /\ \A x : Heard(x) => Heard(x)'
      BY <1>n, <2>2, Announced, HeardStays
    <2>4. CASE locked # [key |-> dash, borrowed |-> FALSE]
      BY <2>1, <2>2, <2>3, <2>4 DEF Sure, Coming, Unheeded, SamePage
    <2>5. CASE locked = [key |-> dash, borrowed |-> FALSE]
      <3>1. [key |-> dash, borrowed |-> FALSE] \in Locks
        BY DEF Locks
      <3>2. locked # None /\ ~locked.borrowed /\ locked.key = dash
        BY <2>5, <3>1, NoneAssumption
      <3>3. PICK i \in DOMAIN calls : Holds(calls[i])
        BY <3>2 DEF LockOK
      <3>4. Newest(dash) # 0
        BY <1>2, ForgetBeginsDoes
      <3>5. ~calls[i].frees
        BY <1>m, <3>2, <3>4, NotLifted
      <3>6. Asks(calls[i]) /\ calls' = calls
        BY <2>2, <3>3, <3>5 DEF Holds, Asks, SamePage
      <3>7. QED
        BY <3>6 DEF Sure, Coming, Asks, Writes
    <2>6. QED
      BY <2>4, <2>5
  <1>3. ASSUME ForgetEnds PROVE Sure
    BY <1>3, ComingAtTheEnd DEF Sure
  <1>4. ASSUME NEW dash \in Dashboards, Pick(dash) PROVE Sure
    <2>1. PICK frees \in BOOLEAN : frees = FALSE
      OBVIOUS
    <2>2. OnlyHolder(SelectCall(dash, frees))
      BY <1>4, <2>1, HolderPick
    <2>3. QED
      BY <2>2, SelectRestarts DEF Sure
  <1>5. ASSUME NEW dash \in Dashboards, Forget(dash) PROVE Sure
    <2>1. PICK c, claimed : c = ForgetCall(dash) /\ claimed = FALSE
      OBVIOUS
    <2>2. Asks(c)
      BY <2>1, FreshCalls DEF Asks
    <2>3. Turned(calls, calls', {}, claimed, {c})
      BY <1>5, <2>1, ForgetDoes
    <2>4. \E j \in DOMAIN calls' : calls'[j] = c
      BY <2>1, <2>3, AsksMore
    <2>5. QED
      BY <2>2, <2>4, AskedFor DEF Sure
  <1>6. ASSUME LoadOlder PROVE Sure
    <2>1. PICK c : c = OlderCall(selected, cursor, cursorGeneration)
      OBVIOUS
    <2>2. Turned(calls, calls', {}, TRUE, {c})
      BY <1>6, <2>1, LoadOlderDoes
    <2>3. AsksOn
      BY <2>2, AsksMore
    <2>4. QED
      BY <1>6, <1>q, <2>3, LoadOlderDoes, SameDialog DEF SameList, Quiet
  <1>7. ASSUME Reload PROVE Sure
    <2>1. PICK c, claimed : c = Refresh("shown") /\ claimed = FALSE
      OBVIOUS
    <2>2. c.fn = "refresh" /\ c.at = "listing"
      BY <2>1, FreshCalls
    <2>3. Turned(calls, calls', {}, claimed, {c})
      BY <1>7, <2>1, ReloadDoes
    <2>4. \E j \in DOMAIN calls' : calls'[j] = c
      BY <2>1, <2>3, AsksMore
    <2>5. Asks(c)
      BY <2>2 DEF Asks
    <2>6. QED
      BY <2>4, <2>5, AskedFor DEF Sure
  <1>8. ASSUME NEW i \in DOMAIN calls, Answer(i) PROVE Sure
    BY <1>8, ComingAnswer, AnswerDoes DEF SameList
  <1>9. ASSUME NEW i \in DOMAIN calls, Fail(i) PROVE Sure
    BY <1>9, FailDoes
  <1>d. ASSUME NEW i \in DOMAIN calls, Deliver(i) PROVE dialog' = dialog
    BY <1>d, SameDialog
  <1>10. ASSUME NEW i \in DOMAIN calls, Selected(i) PROVE Sure
    <2>1. ~Asks(calls[i])
      BY <1>10, SelectedDoes DEF Asks, Writes
    <2>2. AsksOn
      BY <1>10, <2>1, SelectedDoes, AsksFewer
    <2>3. QED
      BY <1>10, <1>d, <1>m, <2>2, SelectedDoes, ComingUnlocked DEF Sure, Quiet, Deliver
  <1>11. ASSUME NEW i \in DOMAIN calls, Loaded(i) PROVE Sure
    <2>1. ASSUME calls[i].fn = "load", calls[i].at = "listed", calls[i].answer = {},
                 Turned(calls, calls', {i}, FALSE, {}), SameList, locked' = Unlocked(calls[i])
          PROVE  Coming'
      <3>1. ~Asks(calls[i])
        BY <2>1 DEF Asks, Writes
      <3>2. AsksOn
        BY <2>1, <3>1, AsksFewer
      <3>3. SameServer /\ Quiet /\ dialog' = dialog
        BY <1>11, <1>d, LoadedDoes DEF Deliver
      <3>4. QED
        BY <1>m, <2>1, <3>2, <3>3, ComingUnlocked DEF Quiet, SameList
    <2>2. QED
      BY <1>11, <1>m, <2>1, LoadedRestarts DEF Sure
  <1>12. ASSUME NEW i \in DOMAIN calls, GotOlder(i) PROVE Sure
    BY <1>12, <1>d, GotOlderDoes, ComingDropped DEF Sure, Quiet, Deliver
  <1>13. ASSUME NEW i \in DOMAIN calls, Refreshed(i) PROVE Sure
    <2>1. /\ calls[i].fn = "refresh" /\ SameServer /\ Quiet /\ locked' = locked
          /\ selected' = selected /\ dialog' = dialog
      BY <1>13, <1>d, RefreshedDoes DEF Deliver
    <2>2. ~Failed(calls[i])
      BY <1>m DEF Noted
    <2>3. ASSUME NEW c \in Calls, c.fn = "refresh", c.at = "asked", c.mine, OnlyHolder(c)
          PROVE  Restarted
      BY <2>3 DEF Restarted, Rereads
    <2>4. CASE calls[i].at = "answered"
      <3>1. Turned(calls, calls', {i}, FALSE, {})
        BY <1>13, <2>4, RefreshedDoes DEF Failed
      <3>2. QED
        BY <2>1, <2>4, <3>1, ComingDropped DEF Sure, Quiet
    <2>5. CASE calls[i].at # "answered"
      BY <1>13, <2>1, <2>2, <2>3, <2>5, HolderRefreshed DEF Sure
    <2>6. QED
      BY <2>4, <2>5
  <1>14. ASSUME NEW i \in DOMAIN calls, Forgotten(i) PROVE Sure
    BY <1>14, ForgottenDoes
  <1>15. ASSUME HearRecorded \/ HearForgetting PROVE Sure
    BY <1>15, ComingHeard, HearRecordedDoes, HearForgettingDoes DEF SameList
  <1>16. ASSUME Disconnect PROVE Sure
    <2>1. news' = <<>> /\ news = <<>> /\ calls' = calls /\ SameServer /\ SameList
          /\ locked' = locked /\ dialog' = dialog
      BY <1>16, DisconnectDoes, SameDialog
    <2>2. QED
      BY <1>q, <2>1, SameAsks DEF SameList
  <1>17. ASSUME Reconnect PROVE Sure
    <2>1. /\ calls = <<>> /\ news' = news /\ SameServer /\ SameList /\ locked' = locked
          /\ dialog' = dialog
      BY <1>17, ReconnectDoes, SameDialog
    <2>2. AsksOn
      BY <2>1 DEF AsksOn
    <2>3. QED
      BY <1>q, <2>1, <2>2 DEF SameList
  <1>18. ASSUME OpenDialog \/ Cancel \/ RunsOut PROVE Sure
    <2>1. SameServer /\ news' = news /\ SamePage
      BY <1>18, DialogDoes
    <2>2. dialog = "missed" => dialog' = "missed"
      <3>1. CASE OpenDialog
        BY <3>1 DEF OpenDialog, Free
      <3>2. CASE Cancel
        BY <3>2 DEF Cancel
      <3>3. CASE RunsOut
        BY <3>3 DEF RunsOut
      <3>4. QED
        BY <1>18, <3>1, <3>2, <3>3
    <2>3. QED
      BY <1>q, <2>1, <2>2, SameAsks DEF SamePage, SameList
  <1>19. ASSUME NEW fn \in {"write", "note"}, Apply(fn) PROVE Sure
    <2>1. PICK c, claimed : c.fn = fn /\ claimed = FALSE /\ Turned(calls, calls', {}, claimed, {c})
      BY <1>19, ApplyDoes
    <2>2. \E j \in DOMAIN calls' : calls'[j] = c
      BY <2>1, AsksMore
    <2>3. QED
      BY <2>1, <2>2, AskedFor DEF Sure, Asks, Writes
  <1>20. ASSUME NEW i \in DOMAIN calls, Written(i) PROVE Sure
    <2>1. PICK c : /\ c.fn = "refresh" /\ c.at = "listing" /\ Turned(calls, calls', {i}, FALSE, {c})
      BY <1>20, WrittenDoes
    <2>2. \E j \in DOMAIN calls' : calls'[j] = c
      BY <2>1 DEF Turned
    <2>3. QED
      BY <2>1, <2>2, AskedFor DEF Sure, Asks
  <1>21. QED
    BY <1>1, <1>2, <1>3, <1>4, <1>5, <1>6, <1>7, <1>8, <1>9, <1>10, <1>11, <1>12, <1>13,
       <1>14, <1>15, <1>16, <1>17, <1>18, <1>19, <1>20 DEF Next, Deliver

--------------------------------------------------------------------------------
(* The list is current *)

LEMMA SureIsCurrent ==
    ASSUME Sure
    PROVE  Current'
  <1>1. CASE Coming'
    BY <1>1 DEF Current
  <1>2. CASE Newest(selected)' = 0
    <2>1. /\ \A j \in DOMAIN calls' : AnswerIsFresh(calls[j])'
          /\ Fresh(shown)'
      BY <1>2 DEF AnswerIsFresh, Fresh
    <2>2. QED
      BY <2>1 DEF Current
  <1>3. CASE Restarted
    BY <1>3 DEF Current, Restarted, OnlyHolder, Rereads
  <1>4. QED
    BY <1>1, <1>2, <1>3 DEF Sure

(* Nothing has happened to the dashboard chosen.                           *)
Unmoved ==
    /\ selected' = selected /\ log \subseteq log' /\ Newest(selected)' = Newest(selected)
    /\ Newest(selected) # 0 =>
         Revision(selected, Newest(selected))' = Revision(selected, Newest(selected))

LEMMA UnmovedWith ==
    ASSUME log' = log, selected' = selected
    PROVE  Unmoved
  BY DEF Unmoved, Newest, Revision

LEMMA FreshStays ==
    ASSUME Unmoved, NEW rows
    PROVE  /\ Fresh(rows) => Fresh(rows)'
           /\ Newest(selected) = 0 \/ StillThere(rows) =>
                Newest(selected)' = 0 \/ StillThere(rows)'
  BY DEF Unmoved, Fresh, StillThere

LEMMA FreshAnswerStays ==
    ASSUME Unmoved, NEW c, NEW d, Alike(d, c), AnswerIsFresh(c)
    PROVE  AnswerIsFresh(d)'
  <1>1. PICK a : a = d.answer /\ a = c.answer
    BY DEF Alike
  <1>2. PICK rows : rows = a.rows
    OBVIOUS
  <1>3. /\ Fresh(rows) => Fresh(rows)'
        /\ Newest(selected) = 0 \/ StillThere(rows) =>
             Newest(selected)' = 0 \/ StillThere(rows)'
    BY FreshStays
  <1>4. /\ d.fn = c.fn /\ d.answer.rows = rows /\ c.answer.rows = rows
        /\ d.answer.restarted = c.answer.restarted
    BY <1>1, <1>2 DEF Alike
  <1>5. d.fn \in {"select", "refresh"} => Fresh(d.answer.rows)'
    BY <1>3, <1>4 DEF AnswerIsFresh
  <1>6. d.fn = "older" => IF d.answer.restarted THEN Fresh(d.answer.rows)'
                          ELSE Newest(selected)' = 0 \/ StillThere(d.answer.rows)'
    BY <1>3, <1>4 DEF AnswerIsFresh
  <1>7. QED
    BY <1>5, <1>6 DEF AnswerIsFresh

LEMMA CurrentStands ==
    ASSUME Current, mishaps \subseteq mishaps', Unmoved, shown' = shown, HolderKept,
           mishaps' = {} /\ selected' # None /\ Coming => Sure
    PROVE  Current'
  <1>1. CASE Sure
    BY <1>1, SureIsCurrent
  <1>2. CASE mishaps' # {} \/ selected' = None
    BY <1>2 DEF Current
  <1>3. CASE mishaps' = {} /\ selected' # None /\ ~Coming
    <2>1. mishaps = {} /\ selected # None
      BY <1>3 DEF Unmoved
    <2>2. ASSUME NEW j \in DOMAIN calls', NEW d, d = calls'[j], d.mine, d.at = "answered"
          PROVE  AnswerIsFresh(d)'
      <3>1. PICK k \in DOMAIN calls : calls[k].mine /\ Alike(d, calls[k])
        BY <2>2 DEF HolderKept
      <3>2. calls[k].at = "answered"
        BY <2>2, <3>1 DEF Alike
      <3>3. AnswerIsFresh(calls[k])
        BY <1>3, <2>1, <3>1, <3>2 DEF Current
      <3>4. PICK c : c = calls[k]
        OBVIOUS
      <3>5. QED
        BY <3>1, <3>3, <3>4, FreshAnswerStays
    <2>3. CASE Fresh(shown)
      <3>1. PICK rows : rows = shown /\ rows = shown'
        OBVIOUS
      <3>2. Fresh(rows)'
        BY <2>3, <3>1, FreshStays
      <3>3. Fresh(shown)'
        BY <3>1, <3>2 DEF Fresh, StillThere
      <3>4. QED
        BY <2>2, <3>3 DEF Current, AnswerIsFresh
    <2>4. ASSUME NEW k \in DOMAIN calls, Rereads(calls[k])
          PROVE  \E j \in DOMAIN calls' : Rereads(calls'[j])
      BY <2>4 DEF HolderKept, SameHolder, Rereads, SameQuestion
    <2>5. CASE \E k \in DOMAIN calls : Rereads(calls[k])
      <3>1. (\E j \in DOMAIN calls : Rereads(calls[j]))'
        BY <2>4, <2>5 DEF Rereads
      <3>2. QED
        BY <2>2, <3>1 DEF Current, AnswerIsFresh
    <2>6. QED
      BY <1>3, <2>1, <2>3, <2>5 DEF Current
  <1>4. QED
    BY <1>1, <1>2, <1>3

(* The holder's answer has been put into the list.                         *)
LEMMA CurrentFilled ==
    ASSUME NoHolder, mishaps' = {} /\ selected' # None => Fresh(shown)' \/ Sure
    PROVE  Current'
  <1>1. CASE Sure
    BY <1>1, SureIsCurrent
  <1>2. CASE ~Sure
    BY <1>2 DEF Current, NoHolder
  <1>3. QED
    BY <1>1, <1>2

LEMMA CurrentAnswer ==
    ASSUME Types, Noted, OneMine, NewsOK, ListOK, LockOK, Watch, Current,
           NEW i \in DOMAIN calls, Answer(i)
    PROVE  Current'
  <1>1. /\ SameServer /\ Quiet /\ SameList /\ mishaps' = mishaps
    BY AnswerDoes
  <1>2. CASE mishaps # {} \/ selected = None \/ Sure
    BY <1>1, <1>2, SureIsCurrent DEF Current, SameList
  <1>3. CASE mishaps = {} /\ selected # None /\ ~Sure
    <2>1. ~Coming
      BY <1>3, ComingAnswer
    <2>2. Unmoved
      BY <1>1, UnmovedWith DEF SameServer, SameList
    <2>3. PICK c \in Calls :
            /\ Turned(calls, calls', {i}, FALSE, {c}) /\ SameQuestion(c, calls[i])
            /\ \/ /\ calls[i].at = "listing" /\ c.at = "listed"
               \/ /\ calls[i].at = "asked" /\ calls[i].fn \in {"forget", "write", "note"}
               \/ /\ calls[i].at = "asked" /\ c.at = "answered"
                  /\ calls[i].fn \in {"select", "older", "refresh"}
                  /\ c.answer = HistoryPage(calls[i].dash, calls[i].before, calls[i].since)
      BY AnswerDoes
    <2>4. \A j \in DOMAIN calls' : \/ calls'[j] = c
                                    \/ \E k \in DOMAIN calls : Carried(calls'[j], calls[k], FALSE)
      <3>1. PICK gone, fresh, claimed :
              gone = {i} /\ fresh = {c} /\ claimed \in BOOLEAN /\ claimed = FALSE
        OBVIOUS
      <3>2. Turned(calls, calls', gone, claimed, fresh)
        BY <2>3, <3>1
      <3>3. Went(calls, calls', gone, claimed, fresh)
        BY <3>1, <3>2, CallsCarried
      <3>4. QED
        BY <3>1, <3>3 DEF Went
    <2>5. ASSUME c.mine, c.at = "answered" PROVE AnswerIsFresh(c)
      <3>1. CallOK(calls[i]) /\ HolderOK(calls[i])
        BY <2>3, <2>5 DEF Types, ListOK, SameQuestion
      <3>2. /\ calls[i].fn \in {"select", "older", "refresh"} /\ calls[i].dash = selected
            /\ c.fn = calls[i].fn /\ c.dash = selected /\ c.before = calls[i].before
        BY <1>3, <2>3, <2>5, <3>1 DEF CallOK, HolderOK, SameQuestion
      <3>3. c.fn # "older" => c.before = None
        BY <3>1, <3>2 DEF CallOK
      <3>4. /\ StillThere(c.answer.rows)
            /\ (c.before = None \/ c.answer.restarted) /\ Newest(selected) # 0 =>
                 /\ c.answer.rows # <<>>
                 /\ c.answer.rows[1] = Revision(selected, Newest(selected))
        BY <2>3, <2>5, <3>2, Answered
      <3>5. QED
        BY <3>2, <3>3, <3>4 DEF AnswerIsFresh, Fresh
    <2>6. ASSUME NEW j \in DOMAIN calls', NEW d, d = calls'[j], d.mine, d.at = "answered"
          PROVE  AnswerIsFresh(d)'
      <3>1. CASE d = c
        <4>1. AnswerIsFresh(d) /\ Alike(d, d)
          BY <2>5, <2>6, <3>1 DEF Alike
        <4>2. QED
          BY <2>2, <4>1, FreshAnswerStays
      <3>2. ASSUME NEW k \in DOMAIN calls, Carried(d, calls[k], FALSE)
            PROVE  AnswerIsFresh(d)'
        <4>1. Alike(d, calls[k]) /\ calls[k].mine
          BY <2>6, <3>2 DEF Carried
        <4>2. calls[k].at = "answered"
          BY <2>6, <4>1 DEF Alike
        <4>3. AnswerIsFresh(calls[k])
          BY <1>3, <2>1, <4>1, <4>2 DEF Current
        <4>4. PICK e : e = calls[k]
          OBVIOUS
        <4>5. QED
          BY <2>2, <4>1, <4>3, <4>4, FreshAnswerStays
      <3>3. QED
        BY <2>4, <2>6, <3>1, <3>2
    <2>7. CASE Fresh(shown)
      <3>1. PICK rows : rows = shown /\ rows = shown'
        BY <1>1 DEF SameList
      <3>2. Fresh(rows)'
        BY <2>2, <2>7, <3>1, FreshStays
      <3>3. Fresh(shown)'
        BY <3>1, <3>2 DEF Fresh, StillThere
      <3>4. QED
        BY <2>6, <3>3 DEF Current, AnswerIsFresh
    <2>8. CASE \E k \in DOMAIN calls : Rereads(calls[k])
      <3>1. SameHolder
        BY HolderAnswer
      <3>2. (\E j \in DOMAIN calls : Rereads(calls[j]))'
        BY <2>8, <3>1 DEF SameHolder, Rereads, SameQuestion
      <3>3. QED
        BY <2>6, <3>2 DEF Current, AnswerIsFresh
    <2>9. QED
      BY <1>3, <2>1, <2>7, <2>8 DEF Current
  <1>4. QED
    BY <1>2, <1>3

LEMMA CurrentSelected ==
    ASSUME Types, Noted, OneMine, NewsOK, ListOK, LockOK, Watch, Armed, Lent, Current, Next,
           NEW i \in DOMAIN calls, Selected(i) \/ Refreshed(i),
           calls[i].at = "answered", calls[i].mine
    PROVE  Current'
  <1>1. /\ shown' = calls[i].answer.rows /\ SameServer /\ selected' = selected
        /\ mishaps' = mishaps /\ calls[i].fn \in {"select", "refresh"}
    BY SelectedDoes, RefreshedDoes DEF Failed
  <1>2. NoHolder
    BY HolderSelected, HolderRefreshed DEF Failed
  <1>3. ASSUME mishaps' = {}, selected' # None PROVE Fresh(shown)' \/ Sure
    <2>1. CASE Coming
      BY <1>3, <2>1, ComingStep
    <2>2. CASE ~Coming
      <3>1. PICK rows : rows = calls[i].answer.rows
        OBVIOUS
      <3>2. Fresh(rows)
        BY <1>1, <1>3, <2>2, <3>1 DEF Current, AnswerIsFresh
      <3>3. Unmoved
        BY <1>1, UnmovedWith DEF SameServer
      <3>4. Fresh(rows)'
        BY <3>2, <3>3, FreshStays
      <3>5. QED
        BY <1>1, <3>1, <3>4 DEF Fresh, StillThere
    <2>3. QED
      BY <2>1, <2>2
  <1>4. QED
    BY <1>2, <1>3, CurrentFilled

LEMMA CurrentGotOlder ==
    ASSUME Types, Noted, OneMine, NewsOK, ListOK, LockOK, Watch, Armed, Lent, Current, Next,
           NEW i \in DOMAIN calls, GotOlder(i), calls[i].at = "answered", calls[i].mine
    PROVE  Current'
  <1>1. /\ shown' = Continued(calls[i].answer) /\ SameServer /\ selected' = selected
        /\ mishaps' = mishaps /\ calls[i].fn = "older"
    BY GotOlderDoes
  <1>2. NoHolder
    BY HolderGotOlder
  <1>3. ASSUME mishaps' = {}, selected' # None PROVE Fresh(shown)' \/ Sure
    <2>1. CASE Coming
      BY <1>3, <2>1, ComingStep
    <2>2. CASE ~Coming
      <3>1. PICK rows, up, both : rows = calls[i].answer.rows /\ up = shown /\ both = shown'
        OBVIOUS
      <3>2. /\ rows \in Seq(Entries) /\ up \in Seq(Entries)
        BY <1>1, <3>1, ShownTypes DEF Types
      <3>3. AnswerIsFresh(calls[i])
        BY <1>1, <1>3, <2>2 DEF Current
      <3>4. Unmoved
        BY <1>1, UnmovedWith DEF SameServer
      <3>5. Fresh(up)
        BY <1>1, <1>3, <2>2, <3>1, OthersDoNot DEF Current
      <3>6. Fresh(both)
        <4>1. CASE calls[i].answer.restarted
          BY <1>1, <3>1, <3>3, <4>1 DEF AnswerIsFresh, Continued
        <4>2. CASE ~calls[i].answer.restarted
          <5>1. both = up \o rows
            BY <1>1, <3>1, <4>2 DEF Continued
          <5>2. Newest(selected) = 0 \/ StillThere(rows)
            BY <1>1, <3>1, <3>3, <4>2 DEF AnswerIsFresh
          <5>3. CASE Newest(selected) # 0
            <6>1. /\ up # <<>> /\ up[1] = Revision(selected, Newest(selected))
                  /\ StillThere(up) /\ StillThere(rows)
              BY <3>5, <5>2, <5>3 DEF Fresh
            <6>2. StillThere(both)
              <7>1. SUFFICES ASSUME NEW k \in DOMAIN both PROVE both[k] \in log
                BY DEF StillThere
              <7>2. QED
                BY <3>2, <5>1, <6>1, <7>1, InConcat DEF StillThere
            <6>3. both # <<>> /\ both[1] = up[1]
              <7>1. /\ Len(up) \in Nat \ {0} /\ Len(rows) \in Nat
                BY <3>2, <6>1
              <7>2. /\ Len(both) = Len(up) + Len(rows)
                    /\ \A k \in 1 .. Len(up) : both[k] = up[k]
                BY <3>2, <5>1, ConcatProperties
              <7>3. QED
                BY <7>1, <7>2
            <6>4. QED
              BY <6>1, <6>2, <6>3 DEF Fresh
          <5>4. QED
            BY <5>3 DEF Fresh
        <4>3. QED
          BY <4>1, <4>2
      <3>7. Fresh(both)'
        BY <3>4, <3>6, FreshStays
      <3>8. QED
        BY <3>1, <3>7 DEF Fresh, StillThere
    <2>3. QED
      BY <2>1, <2>2
  <1>4. QED
    BY <1>2, <1>3, CurrentFilled

LEMMA CurrentLoadOlder ==
    ASSUME Types, Noted, OneMine, NewsOK, ListOK, LockOK, Watch, Armed, Lent, Current, Next,
           LoadOlder
    PROVE  Current'
  <1>1. /\ SameServer /\ SameList /\ selected # None /\ cursor # None
        /\ selected \in Dashboards /\ cursor \in Entries
        /\ mishaps' = IF \E i \in DOMAIN calls : calls[i].mine /\ calls[i].fn = "refresh"
                      THEN mishaps \cup {"overtaken"} ELSE mishaps
    BY LoadOlderDoes
  <1>2. PICK c : c = OlderCall(selected, cursor, cursorGeneration)
    OBVIOUS
  <1>3. c.at = "asked"
    BY <1>1, <1>2, FreshCalls DEF Types
  <1>4. OnlyHolder(c)
    BY <1>2, HolderLoadOlder
  <1>5. CASE mishaps' # {} \/ Sure
    BY <1>5, SureIsCurrent DEF Current
  <1>6. CASE mishaps' = {} /\ ~Sure
    <2>1. mishaps = {} /\ ~Coming
      BY <1>1, <1>6, ComingStep DEF SameList
    <2>2. \A k \in DOMAIN calls : ~Rereads(calls[k])
      <3>1. ASSUME NEW k \in DOMAIN calls, calls[k].mine, calls[k].fn = "refresh" PROVE FALSE
        BY <1>1, <1>6, <3>1
      <3>2. ASSUME NEW k \in DOMAIN calls, calls[k].mine, calls[k].fn = "select" PROVE FALSE
        BY <1>1, <3>2 DEF ListOK, HolderOK
      <3>3. QED
        BY <3>1, <3>2 DEF Rereads
    <2>3. Fresh(shown)
      BY <1>1, <2>1, <2>2 DEF Current
    <2>4. PICK rows : rows = shown /\ rows = shown'
      BY <1>1 DEF SameList
    <2>5. Unmoved
      BY <1>1, UnmovedWith DEF SameServer, SameList
    <2>6. Fresh(rows)'
      BY <2>3, <2>4, <2>5, FreshStays
    <2>7. Fresh(shown)'
      BY <2>4, <2>6 DEF Fresh, StillThere
    <2>8. \A j \in DOMAIN calls' : calls'[j].mine => calls'[j].at = "asked"
      BY <1>3, <1>4 DEF OnlyHolder
    <2>9. QED
      BY <2>7, <2>8 DEF Current
  <1>7. QED
    BY <1>5, <1>6

LEMMA CurrentStep ==
    ASSUME Types, Noted, OneMine, NewsOK, ListOK, LockOK, Watch, Armed, Lent, Current, Next
    PROVE  Current'
  <1>m. mishaps \subseteq mishaps'
    BY MishapsGrow
  <1>c. mishaps' = {} /\ selected' # None /\ Coming => Sure
    BY ComingStep
  <1>s. ASSUME log' = log, selected' = selected, shown' = shown, HolderKept PROVE Current'
    BY <1>m, <1>c, <1>s, UnmovedWith, CurrentStands
  <1>1. ASSUME NEW dash \in Dashboards, Record(dash) PROVE Current'
    <2>1. HolderKept /\ SameList
      BY <1>1, AsideDoes DEF Aside
    <2>2. CASE dash # selected /\ selected # None
      <3>1. PICK s \in Dashboards : s = selected /\ s = selected'
        BY <2>1, <2>2 DEF Types, SameList
      <3>2. /\ log \subseteq log' /\ Newest(s)' = Newest(s)
            /\ Newest(s) # 0 => Revision(s, Newest(s))' = Revision(s, Newest(s))
        BY <1>1, <2>2, <3>1, RecordGrows
      <3>3. Newest(selected)' = Newest(s)' /\ Revision(selected, Newest(selected))' = Revision(s, Newest(s))'
        BY <3>1 DEF Newest, Revision
      <3>4. Unmoved
        BY <3>1, <3>2, <3>3 DEF Unmoved
      <3>5. QED
        BY <1>m, <1>c, <2>1, <3>4, CurrentStands DEF SameList
    <2>3. CASE dash = selected
      <3>1. PICK e \in Events : e = Saved(dash)
        BY SavedIs
      <3>2. Announce(e) /\ selected' = dash
        BY <1>1, <2>1, <2>3, <3>1, RecordDoes DEF SameList
      <3>3. mishaps' = {} => Heard(e)'
        BY <3>2, Announced, HeardStays DEF Types
      <3>4. mishaps' = {} => Heard(Saved(selected))'
        BY <3>1, <3>2, <3>3 DEF Heard, Saved
      <3>5. QED
        BY <3>4 DEF Current, Coming
    <2>4. CASE selected = None
      BY <2>1, <2>4 DEF Current, SameList
    <2>5. QED
      BY <2>2, <2>3, <2>4
  <1>2. ASSUME NEW dash \in Dashboards, ForgetBegins(dash) PROVE Current'
    BY <1>s, <1>2, AsideDoes, ForgetBeginsDoes DEF Aside, SameList
  <1>3. ASSUME ForgetEnds PROVE Current'
    BY <1>3, ComingAtTheEnd DEF Current
  <1>4. ASSUME NEW dash \in Dashboards, Pick(dash) PROVE Current'
    <2>1. PICK frees \in BOOLEAN : frees = FALSE
      OBVIOUS
    <2>2. OnlyHolder(SelectCall(dash, frees))
      BY <1>4, <2>1, HolderPick
    <2>3. QED
      BY <2>2, SelectRestarts, SureIsCurrent DEF Sure
  <1>5. ASSUME NEW dash \in Dashboards, Forget(dash) PROVE Current'
    BY <1>s, <1>5, AsideDoes, ForgetDoes DEF Aside, SameList, SameServer
  <1>6. ASSUME LoadOlder PROVE Current'
    BY <1>6, CurrentLoadOlder
  <1>7. ASSUME Reload PROVE Current'
    BY <1>s, <1>7, AsideDoes, ReloadDoes DEF Aside, SameList, SameServer
  <1>8. ASSUME NEW i \in DOMAIN calls, Answer(i) PROVE Current'
    BY <1>8, CurrentAnswer
  <1>9. ASSUME NEW i \in DOMAIN calls, Fail(i) PROVE Current'
    BY <1>9, FailDoes DEF Current
  <1>f. ASSUME NEW i \in DOMAIN calls, Failed(calls[i]), mishaps' = mishaps PROVE Current'
    BY <1>f DEF Noted, Current
  <1>10. ASSUME NEW i \in DOMAIN calls, Selected(i) PROVE Current'
    <2>1. /\ calls[i].fn = "select" /\ ~Waiting(calls[i]) /\ mishaps' = mishaps /\ SameServer
      BY <1>10, SelectedDoes
    <2>2. CASE ~calls[i].mine
      BY <1>s, <1>10, <2>1, <2>2, SelectedDoes, HolderSelected DEF SameServer, SameList
    <2>3. Failed(calls[i]) \/ calls[i].at = "answered"
      <3>1. calls[i] \in Calls /\ CallOK(calls[i])
        BY DEF Types
      <3>2. QED
        BY <2>1, <3>1 DEF Calls, CallOK, Failed, Waiting
    <2>4. QED
      BY <1>10, <1>f, <2>1, <2>2, <2>3, CurrentSelected
  <1>11. ASSUME NEW i \in DOMAIN calls, Loaded(i) PROVE Current'
    <2>1. mishaps' = mishaps /\ SameServer
      BY <1>11, LoadedDoes
    <2>2. CASE "failed" \in mishaps
      BY <2>1, <2>2 DEF Current
    <2>3. CASE "failed" \notin mishaps
      BY <1>s, <1>11, <2>1, <2>3, LoadedRestarts, SureIsCurrent DEF Sure, SameServer, SameList
    <2>4. QED
      BY <2>2, <2>3
  <1>12. ASSUME NEW i \in DOMAIN calls, GotOlder(i) PROVE Current'
    <2>1. /\ calls[i].fn = "older" /\ ~Waiting(calls[i]) /\ mishaps' = mishaps /\ SameServer
          /\ selected' = selected
      BY <1>12, GotOlderDoes
    <2>2. CASE ~calls[i].mine
      BY <1>s, <1>12, <2>1, <2>2, GotOlderDoes, HolderGotOlder DEF SameServer
    <2>3. Failed(calls[i]) \/ calls[i].at = "answered"
      <3>1. calls[i] \in Calls /\ CallOK(calls[i])
        BY DEF Types
      <3>2. QED
        BY <2>1, <3>1 DEF Calls, CallOK, Failed, Waiting
    <2>4. QED
      BY <1>12, <1>f, <2>1, <2>2, <2>3, CurrentGotOlder
  <1>13. ASSUME NEW i \in DOMAIN calls, Refreshed(i) PROVE Current'
    <2>1. /\ calls[i].fn = "refresh" /\ mishaps' = mishaps /\ SameServer /\ selected' = selected
      BY <1>13, RefreshedDoes
    <2>2. CASE Failed(calls[i])
      BY <1>f, <2>1, <2>2
    <2>3. CASE calls[i].at = "listed"
      <3>1. ASSUME NEW c \in Calls, c.fn = "refresh", c.at = "asked", c.mine, OnlyHolder(c)
            PROVE  Current'
        <4>1. Restarted
          BY <3>1 DEF Restarted, Rereads
        <4>2. QED
          BY <4>1, SureIsCurrent DEF Sure
      <3>2. CASE selected = None
        BY <2>1, <3>2 DEF Current
      <3>3. QED
        BY <1>13, <2>3, <3>1, <3>2, HolderRefreshed DEF Failed
    <2>4. CASE calls[i].at = "answered" /\ ~calls[i].mine
      <3>1. HolderKept
        BY <1>13, <2>4, HolderRefreshed DEF Failed
      <3>2. shown' = shown
        BY <1>13, <2>4, RefreshedDoes DEF Failed
      <3>3. QED
        BY <1>s, <2>1, <3>1, <3>2 DEF SameServer
    <2>5. CASE calls[i].at = "answered" /\ calls[i].mine
      BY <1>13, <2>5, CurrentSelected
    <2>6. QED
      BY <1>13, <2>2, <2>3, <2>4, <2>5, RefreshedDoes
  <1>14. ASSUME NEW i \in DOMAIN calls, Forgotten(i) PROVE Current'
    BY <1>14, ForgottenDoes, NoneAssumption DEF Current
  <1>15. ASSUME HearRecorded \/ HearForgetting PROVE Current'
    <2>1. HolderKept /\ SameList
      BY <1>15, AsideDoes DEF Aside
    <2>2. SameServer
      BY <1>15, HearRecordedDoes, HearForgettingDoes
    <2>3. QED
      BY <1>s, <2>1, <2>2 DEF SameServer, SameList
  <1>16. ASSUME Disconnect PROVE Current'
    <2>1. /\ SameServer /\ SameList /\ (calls' = calls \/ "failed" \in mishaps')
      BY <1>16, DisconnectDoes
    <2>2. CASE "failed" \in mishaps'
      BY <2>2 DEF Current
    <2>3. CASE calls' = calls
      BY <1>s, <2>1, <2>3, SameCalls DEF SameServer, SameList
    <2>4. QED
      BY <2>1, <2>2, <2>3
  <1>17. ASSUME Reconnect PROVE Current'
    <2>1. HolderKept /\ SameList
      BY <1>17, AsideDoes DEF Aside
    <2>2. SameServer
      BY <1>17, ReconnectDoes
    <2>3. QED
      BY <1>s, <2>1, <2>2 DEF SameServer, SameList
  <1>18. ASSUME OpenDialog \/ Cancel \/ RunsOut PROVE Current'
    BY <1>s, <1>18, AsideDoes, DialogDoes DEF Aside, SameList, SameServer
  <1>19. ASSUME NEW fn \in {"write", "note"}, Apply(fn) PROVE Current'
    BY <1>s, <1>19, AsideDoes, ApplyDoes DEF Aside, SameList, SameServer
  <1>20. ASSUME NEW i \in DOMAIN calls, Written(i) PROVE Current'
    BY <1>s, <1>20, AsideDoes, WrittenDoes DEF Aside, SameList, SameServer
  <1>21. QED
    BY <1>1, <1>2, <1>3, <1>4, <1>5, <1>6, <1>7, <1>8, <1>9, <1>10, <1>11, <1>12, <1>13,
       <1>14, <1>15, <1>16, <1>17, <1>18, <1>19, <1>20 DEF Next, Deliver

--------------------------------------------------------------------------------
(* The invariant holds *)

LEMMA TypesStep ==
    ASSUME Types, ListOK, NewsOK, Next
    PROVE  Types'
  <1>1. ASSUME NEW dash \in Dashboards,
               Record(dash) \/ ForgetBegins(dash) \/ Pick(dash) \/ Forget(dash)
        PROVE  Types'
    BY <1>1, TypesRecord, TypesForgetBegins, TypesPick, TypesForget
  <1>2. ASSUME ForgetEnds \/ LoadOlder \/ Reload PROVE Types'
    BY <1>2, TypesForgetEnds, TypesLoadOlder, TypesReload
  <1>3. ASSUME NEW i \in DOMAIN calls, Answer(i) \/ Fail(i) PROVE Types'
    BY <1>3, TypesAnswer, TypesFail
  <1>4. ASSUME NEW i \in DOMAIN calls, Deliver(i) PROVE Types'
    BY <1>4, TypesSelected, TypesLoaded, TypesGotOlder, TypesRefreshed, TypesWritten,
       TypesForgotten DEF Deliver
  <1>5. ASSUME HearRecorded \/ HearForgetting \/ Disconnect \/ Reconnect PROVE Types'
    BY <1>5, TypesHearRecorded, TypesHearForgetting, TypesDisconnect, TypesReconnect
  <1>6. ASSUME OpenDialog \/ Cancel \/ RunsOut PROVE Types'
    BY <1>6, TypesDialog
  <1>7. ASSUME NEW fn \in {"write", "note"}, Apply(fn) PROVE Types'
    BY <1>7, TypesApply
  <1>8. QED
    BY <1>1, <1>2, <1>3, <1>4, <1>5, <1>6, <1>7 DEF Next

LEMMA OneMineStep ==
    ASSUME Types, OneMine, NewsOK, Next
    PROVE  OneMine'
  <1>1. ASSUME Aside \/ Disconnect PROVE OneMine'
    BY <1>1, AsideDoes, DisconnectKeeps
  <1>2. ASSUME NEW dash \in Dashboards, Pick(dash) PROVE OneMine'
    BY <1>2, HolderPick
  <1>3. ASSUME LoadOlder PROVE OneMine'
    BY <1>3, HolderLoadOlder
  <1>4. ASSUME NEW i \in DOMAIN calls, Answer(i) \/ Fail(i) PROVE OneMine'
    BY <1>4, HolderAnswer
  <1>5. ASSUME NEW i \in DOMAIN calls, Deliver(i) PROVE OneMine'
    BY <1>1, <1>5, HolderSelected, HolderLoaded, HolderGotOlder, HolderRefreshed, HolderForgotten
       DEF Deliver, Aside
  <1>6. QED
    BY <1>1, <1>2, <1>3, <1>4, <1>5 DEF Next, Aside

LEMMA PanelBegins ==
    ASSUME Init
    PROVE  PanelInv
  <1>1. Types
    BY InitTypes
  <1>2. /\ calls = <<Call("load", "listing")>> /\ news = <<>> /\ shown = <<>>
        /\ selected = None /\ forgetting = None /\ locked = None /\ awaiting = FALSE
    BY DEF Init
  <1>3. ASSUME NEW i \in DOMAIN calls
        PROVE  ~calls[i].mine /\ ~Holds(calls[i]) /\ ~Failed(calls[i])
    <2>1. calls[i] = Call("load", "listing")
      BY <1>2
    <2>2. QED
      BY <2>1, FreshCalls, FreshNotFailed DEF Holds
  <1>4. Noted /\ OneMine
    BY <1>3 DEF Noted, OneMine
  <1>5. ListOK
    BY <1>2, <1>3 DEF ListOK, IsRun
  <1>6. Late /\ End
    BY <1>2, <1>3 DEF Late, End
  <1>7. NewsOK
    BY <1>2 DEF NewsOK
  <1>8. LockOK
    BY <1>2, <1>3 DEF LockOK, Holds
  <1>9. Watch /\ Armed /\ Lent /\ Current
    BY <1>2 DEF Watch, Armed, Lent, Current
  <1>10. QED
    BY <1>1, <1>4, <1>5, <1>6, <1>7, <1>8, <1>9 DEF PanelInv

LEMMA PanelSteps ==
    ASSUME PanelInv, Next
    PROVE  PanelInv'
  <1>1. Types' /\ Noted' /\ OneMine'
    BY TypesStep, NotedStep, OneMineStep DEF PanelInv
  <1>2. ListOK' /\ Late'
    BY ListStep, LateStep DEF PanelInv
  <1>3. End' /\ NewsOK'
    BY EndStep, NewsStep DEF PanelInv
  <1>4. LockOK' /\ Watch'
    BY LockStep, WatchStep DEF PanelInv
  <1>5. Armed' /\ Lent'
    BY ArmedStep, LentStep DEF PanelInv
  <1>6. Current'
    BY CurrentStep DEF PanelInv
  <1>7. QED
    BY <1>1, <1>2, <1>3, <1>4, <1>5, <1>6 DEF PanelInv

LEMMA PanelRests ==
    ASSUME PanelInv, UNCHANGED vars
    PROVE  PanelInv'
  <1>1. /\ log' = log /\ generation' = generation /\ forgetting' = forgetting
        /\ news' = news /\ connected' = connected /\ listed' = listed
        /\ selected' = selected /\ shown' = shown /\ cursor' = cursor
        /\ cursorGeneration' = cursorGeneration /\ versionsLoaded' = versionsLoaded
        /\ lost' = lost /\ locked' = locked /\ calls' = calls /\ spent' = spent
        /\ mishaps' = mishaps /\ dialog' = dialog /\ awaiting' = awaiting
    BY DEF vars, server, list, write
  <1>2. Types'
    BY <1>1 DEF PanelInv, Types, Locks
  <1>3. /\ Newest(selected)' = Newest(selected)
        /\ \A dash : Newest(dash)' = Newest(dash) /\ (Erased(dash)' <=> Erased(dash))
        /\ Revision(selected, Newest(selected))' = Revision(selected, Newest(selected))
    BY <1>1 DEF Newest, Revision, Erased
  <1>4. Noted' /\ OneMine'
    BY <1>1 DEF PanelInv, Noted, OneMine
  <1>5. ListOK' /\ Late'
    BY <1>1 DEF PanelInv, ListOK, Late, HolderOK, RowsOfSelected, Rereads
  <1>6. End'
    BY <1>1 DEF PanelInv, End, Known, HolderKnows
  <1>7. NewsOK'
    BY <1>1, <1>3, NewsStands DEF PanelInv, SameServer, Quiet
  <1>8. LockOK'
    BY <1>1, <1>3 DEF PanelInv, LockOK, Erased, Heard
  <1>9. Watch' /\ Armed' /\ Lent'
    BY <1>1 DEF PanelInv, Watch, Armed, Lent, Lifting, Heard
  <1>10. Current'
    BY <1>1, <1>3 DEF PanelInv, Current, Coming, AnswerIsFresh, Fresh, StillThere, Heard,
       Unheeded, Lifting, Asks, Writes, Rereads
  <1>11. QED
    BY <1>2, <1>4, <1>5, <1>6, <1>7, <1>8, <1>9, <1>10 DEF PanelInv

(* Every state of the page satisfies the invariant: the log of the history *)
(* is numbered without gaps, one question holds the ticket of the list,    *)
(* and whatever the list still misses is on its way: asked for, announced, *)
(* or to be asked for when a write is answered, a dialog applied or a lock *)
(* lifted (panel.js, _claim, _onRecorded, _onForgetting, _awaitRecording). *)
THEOREM PanelKept == Spec => []PanelInv
  <1>1. Init => PanelInv
    BY PanelBegins
  <1>2. PanelInv /\ [Next]_vars => PanelInv'
    BY PanelSteps, PanelRests
  <1>3. QED
    BY <1>1, <1>2, PTL DEF Spec

(* The list is one run of one dashboard's states, however pages, reloads   *)
(* and forgets overtake each other (panel.js, _loadOlder).                 *)
THEOREM ListIsOneRun == Spec => []OneRun
  <1>1. PanelInv => OneRun
    BY DEF PanelInv, ListOK, IsRun, OneRun
  <1>2. QED
    BY <1>1, PanelKept, PTL

(* Rows of another dashboard never stay under the title of the one chosen: *)
(* either they are being read again, or they are of this one (panel.js,    *)
(* _claim).                                                                *)
THEOREM LateAnswersLose == Spec => []LateAnswersAreDropped
  <1>1. PanelInv => LateAnswersAreDropped
    <2>1. SUFFICES ASSUME PanelInv, calls = <<>>, selected # None, "failed" \notin mishaps
                   PROVE  RowsOfSelected
      BY DEF LateAnswersAreDropped, Settled
    <2>2. DOMAIN calls = {}
      BY <2>1
    <2>3. QED
      BY <2>1, <2>2 DEF PanelInv, Late
  <1>2. QED
    BY <1>1, PanelKept, PTL

(* A list that offers no older page has reached the oldest state: a cursor *)
(* a forget has rewritten past is never taken for the end of the history   *)
(* (operations.py, async_history).                                         *)
THEOREM EndIsReached == Spec => []EndIsTheEnd
  <1>1. PanelInv => EndIsTheEnd
    BY DEF PanelInv, End, EndIsTheEnd
  <1>2. QED
    BY <1>1, PanelKept, PTL

(* Once everything announced is heard, everything asked is answered and no *)
(* dialog is open, the page shows the newest state on top and only         *)
(* revisions that exist, though saves heard under a lock, under a dialog   *)
(* that is applied, or in place of the announcement of a write were read   *)
(* by nobody at once; the mishaps are those PageIsCurrent names (panel.js, *)
(* _onRecorded, _onForgetting, _reloadAfterWrite, _forget).                *)
THEOREM PageCatchesUp == Spec => []PageIsCurrent
  <1>1. PanelInv => PageIsCurrent
    <2>1. SUFFICES ASSUME PanelInv, calls = <<>>, news = <<>>, locked = None,
                          dialog = "closed", mishaps = {}, selected # None,
                          Rows(selected) # <<>>
                   PROVE  ToSet(shown) \subseteq log /\ shown # <<>> /\ shown[1] = Rows(selected)[1]
      BY DEF PageIsCurrent, Settled, Free
    <2>2. DOMAIN calls = {} /\ \A x : ~Heard(x)
      BY <2>1 DEF Heard
    <2>3. ~Coming
      BY <2>1, <2>2 DEF Coming, Unheeded, Lifting
    <2>4. Fresh(shown)
      BY <2>1, <2>2, <2>3 DEF PanelInv, Current
    <2>5. Newest(selected) = NewestIn(log, selected) /\ Numbered(log) /\ selected \in Dashboards
      BY <2>1, InTheLog DEF PanelInv, Types
    <2>6. PICK n \in Nat : n = Newest(selected)
      BY <2>5, Counted
    <2>7. PICK id \in Nat : id = n + 1
      BY <2>6
    <2>8. /\ Rows(selected) = Below(selected, id) /\ Len(Rows(selected)) = id - 1
          /\ \A i \in 1 .. id - 1 : Rows(selected)[i] = Revision(selected, id - i)
      <3>1. id \in 1 .. Newest(selected) + 1
        BY <2>6, <2>7
      <3>2. QED
        BY <2>5, <2>6, <2>7, <3>1, BelowIs DEF Rows
    <2>9. n # 0 /\ Rows(selected)[1] = Revision(selected, n)
      <3>1. Below(selected, id) \in Seq(Entries)
        BY <2>5, <2>6, <2>7, BelowIs
      <3>2. n # 0
        BY <2>1, <2>6, <2>7, <2>8, <3>1
      <3>3. 1 \in 1 .. id - 1 /\ id - 1 = n
        BY <2>6, <2>7, <3>2
      <3>4. QED
        BY <2>8, <3>2, <3>3
    <2>10. QED
      BY <2>4, <2>6, <2>9 DEF Fresh, StillThere, ToSet
  <1>2. QED
    BY <1>1, PanelKept, PTL
================================================================================
