------------------------------- MODULE Dashboards -------------------------------
(***************************************************************************)
(* What a dashboard's configuration is to the analysis of its changes: a   *)
(* row of views, each with its own cards, its badges and a row of          *)
(* sections that hold cards of their own (analyze/model.py).  Nothing in   *)
(* it carries an identity.  A view is known by its URL path, or by where   *)
(* it sits when it has none; a card by where it sits and what it says.     *)
(*                                                                         *)
(* A card is a record of the fields it was written with, so two cards are  *)
(* equal exactly when their fingerprints are.  A section keeps its own     *)
(* settings in "own", as one value; a view has one named setting, its      *)
(* title, and the dashboard another.                                       *)
(***************************************************************************)
EXTENDS Integers, Sequences, FiniteSets, SequencesExt

CONSTANT None                    \* what is not written: a path, a title, a view

--------------------------------------------------------------------------------
(* Putting sets in order.  R is a set of pairs, "stands before".            *)

\* One that nothing stands before.
First(S, R) == CHOOSE x \in S : \A y \in S : <<y, x>> \notin R

InOrder(S, R) ==
  LET left[n \in 0 .. Cardinality(S)] ==
        IF n = 0 THEN S ELSE left[n - 1] \ {First(left[n - 1], R)}
  IN  [n \in 1 .. Cardinality(S) |-> First(left[n - 1], R)]

\* What stands at these indices.
Only(items, kept) ==
  LET order == InOrder(kept, {p \in kept \X kept : p[1] < p[2]})
  IN  [n \in 1 .. Cardinality(kept) |-> items[order[n]]]

--------------------------------------------------------------------------------
(* Views, lists and the items in them *)

Key(config, v) ==
  LET path == config.views[v].path
  IN  IF path = None THEN <<None, v>> ELSE <<path, 0>>

Keys(config) == {Key(config, v) : v \in DOMAIN config.views}

\* Views looked up by key: where two share one, the later stands for both.
Index(config, key) ==
  CHOOSE v \in DOMAIN config.views :
    /\ Key(config, v) = key
    /\ \A w \in DOMAIN config.views : w > v => Key(config, w) # key

View(config, key) == config.views[Index(config, key)]

PathsCollide(config) ==
  \E v, w \in DOMAIN config.views :
    v # w /\ config.views[v].path # None /\ config.views[v].path = config.views[w].path

Section(own, cards) == [own |-> own, cards |-> cards]

\* The lists of a view: its own is list 0, section s holds list s.  Badges are
\* a world of their own, with one list.
Lists(view, kind) ==
  IF kind = "badge"
  THEN [l \in {0} |-> view.badges]
  ELSE [l \in 0 .. Len(view.sections) |->
          IF l = 0 THEN view.cards ELSE view.sections[l].cards]

WithLists(view, kind, lists) ==
  IF kind = "badge"
  THEN [view EXCEPT !.badges = lists[0]]
  ELSE [view EXCEPT !.cards = lists[0],
                    !.sections = [s \in DOMAIN @ |-> Section(@[s].own, lists[s])]]

\* The configuration with one view, or one list of one view, written.
Within(config, v, view) == [config EXCEPT !.views[v] = view]

WithList(config, v, kind, l, items) ==
  Within(config, v, WithLists(config.views[v], kind,
                              [Lists(config.views[v], kind) EXCEPT ![l] = items]))

\* Every item of the views with these keys, at the place it sits.
Slots(config, keys, kind) ==
  UNION {LET lists == Lists(config.views[v], kind)
         IN  UNION {{[key |-> Key(config, v), at |-> v, list |-> l, index |-> i,
                      card |-> lists[l][i]] : i \in DOMAIN lists[l]} : l \in DOMAIN lists} :
         v \in {w \in DOMAIN config.views : Key(config, w) \in keys}}

\* The order the items are written in.
Earlier(s, t) ==
  \/ s.at < t.at
  \/ s.at = t.at /\ s.list < t.list
  \/ s.at = t.at /\ s.list = t.list /\ s.index < t.index

Place(slot) == <<slot.key, slot.list>>

\* An identity good enough to recognise an edited card: what it shows or what
\* it is called.  A card that says neither has none.
WeakKey(card) ==
  IF "entity" \in DOMAIN card
  THEN <<card.type, "entity", card.entity>>
  ELSE IF "title" \in DOMAIN card THEN <<card.type, "title", card.title>> ELSE None

\* How alike two cards are: the fields they agree on among those either has.
Likeness(one, other) ==
  [same  |-> Cardinality({f \in DOMAIN one \cap DOMAIN other : one[f] = other[f]}),
   among |-> Cardinality(DOMAIN one \cup DOMAIN other)]

MoreAlike(p, q) == p.same * q.among > q.same * p.among

Marks(view) == [s \in DOMAIN view.sections |-> view.sections[s].own]

Count(config, kind, card) ==
  Cardinality({s \in Slots(config, Keys(config), kind) : s.card = card})
================================================================================
