--------------------------------- MODULE PutBack ---------------------------------
(***************************************************************************)
(* Putting one removed thing back: what a recorded state held that today's *)
(* dashboard does not (analyze/removed.py), and where it may go            *)
(* (restore.py, reinsert and park).                                        *)
(*                                                                         *)
(* An item knows only itself and what stood beside it, not the two states  *)
(* an undo works from, so it carries the proof of its place with it.       *)
(***************************************************************************)
EXTENDS Undo

\* How to recognise the section a card sat in: how many there were, its own
\* settings, the cards that should still stand in it, how many of them stood
\* ahead of this one, and those that left for another list of the view.
Anchor(view, slot, left, departed) ==
  IF slot.list = 0 THEN None ELSE
  LET cards == view.sections[slot.list].cards
      Indices(slots) == {s.index : s \in {t \in slots : t.list = slot.list}}
      stay == DOMAIN cards \ Indices(left)
  IN  [sections |-> Len(view.sections), own |-> view.sections[slot.list].own,
       survivors |-> Only(cards, stay),
       before |-> Cardinality({i \in stay : i < slot.index}),
       departed |-> {cards[i] : i \in Indices(left \cap departed)}]

CardItems(old, match, gone) ==
  LET away == {p \in match.cards.moved : Translated(p[1], match.pairs) # Place(p[2])}
      left == gone \cup Olds(away)
      departed == {p[1] : p \in {q \in away : q[1].key = q[2].key}}
      Mine(slots, s) == InView(slots, s.key)
  IN  {[path |-> old.views[s.at].path, at |-> s.at, list |-> s.list, index |-> s.index,
        card |-> s.card,
        anchor |-> Anchor(old.views[s.at], s, Mine(left, s), Mine(departed, s))] : s \in gone}

\* Mutant: the cards of a section that went whole are offered as well.
EveryRemovedCard(old, match) == CardItems(old, match, match.cards.removed)

RemovedCards(old, match) ==
  CardItems(old, match, Loose(match.cards.removed, match.sections, "removed"))

RemovedSections(old, match) ==
  UNION {LET v == Index(old, key)
             sections == old.views[v].sections
         IN  {[path |-> old.views[v].path, at |-> v, index |-> s, section |-> sections[s],
               neighbours |-> RemoveAt(sections, s)] : s \in match.sections[key].removed} :
         key \in DOMAIN match.sections}

RemovedViews(old, new) ==
  {[path |-> old.views[v].path, index |-> v, view |-> old.views[v]] :
     v \in {w \in DOMAIN old.views : Key(old, w) \notin Keys(new)}}

FindRemoved(old, new) ==
  LET match == MatchCards(old, new)
  IN  [views |-> RemovedViews(old, new), sections |-> RemovedSections(old, match),
       cards |-> RemovedCards(old, match)]

--------------------------------------------------------------------------------
(* Where it goes *)

\* A neighbour that left could have been dragged away, or the sections swapped.
DepartedIsAmbiguous(sections, at, anchor) ==
  \E card \in anchor.departed :
    LET Holds(s) == Cardinality({i \in DOMAIN sections[s].cards : sections[s].cards[i] = card})
        holders == {s \in DOMAIN sections : Holds(s) > 0}
    IN  \/ Cardinality(holders) > 1
        \/ \E s \in holders : Holds(s) > 1 \/ (s # at /\ sections[s].own = anchor.own)

\* Where the survivors stand, found in order; beyond the end when one is gone.
Found(cards, survivors) ==
  LET found[n \in 0 .. Len(survivors)] ==
        IF n = 0 THEN 0
        ELSE LET rest == {i \in DOMAIN cards : i > found[n - 1] /\ cards[i] = survivors[n]}
             IN  IF rest = {} THEN Len(cards) + 1
                 ELSE CHOOSE i \in rest : \A j \in rest : i <= j
  IN  found

\* The indices a card may go back to in its section: one, or none that is proven.
AnchoredIndex(view, item) ==
  LET anchor == item.anchor
      sections == view.sections
      at == item.list
      survivors == anchor.survivors
      cards == sections[at].cards
      found == Found(cards, survivors)
  IN  IF \/ Len(sections) # anchor.sections
         \/ sections[at].own # anchor.own
         \/ survivors = <<>> /\ (cards # <<>> \/ DepartedIsAmbiguous(sections, at, anchor))
         \/ survivors # <<>> /\ found[Len(survivors)] > Len(cards)
      THEN {}
      ELSE IF survivors = <<>> THEN {1}
      ELSE IF anchor.before = 0 THEN {found[1]} ELSE {found[anchor.before] + 1}

\* The view is really missing: nothing just like it stands anywhere.
ViewHasGone(config, item) ==
  item.path # None \/ \A v \in DOMAIN config.views : config.views[v] # item.view

\* The gap a section left is still the only one it fits.
SectionGapHolds(view, item) == view.sections = item.neighbours

ReinsertView(config, item) ==
  IF PathsCollide(config) \/ ~ViewHasGone(config, item) THEN {}
  ELSE {[config EXCEPT !.views = PutAt(@, item.index, item.view)]}

\* A section whose gap is gone is appended, where its view still can be told.
PutBackSection(config, item) ==
  {Within(config, v,
     IF SectionGapHolds(config.views[v], item)
     THEN [config.views[v] EXCEPT !.sections = PutAt(@, item.index, item.section)]
     ELSE [config.views[v] EXCEPT !.sections = Append(@, item.section)]) :
   v \in {w \in FindView(config, item) :
            /\ ~PathsCollide(config)
            /\ \/ SectionGapHolds(config.views[w], item)
               \/ item.path # None /\ config.views[w].layout = "sections"}}

\* Only a card that sat in a section carries an anchor.
Anchored(item) == item.list > 0

\* Parks, when its section cannot be proven: the end of the view's own list.
CardParks(view, item) ==
  /\ Anchored(item) /\ item.path # None
  /\ view.layout = "sections"
  /\ AnchoredIndex(view, item) = {}

Reinserted(view, item) ==
  LET lists == Lists(view, "card")
      indices == IF Anchored(item) THEN AnchoredIndex(view, item) ELSE {item.index}
  IN  {WithLists(view, "card",
                 [lists EXCEPT ![item.list] = PutAt(@, i, item.card)]) : i \in indices}

PutBackCard(config, item) ==
  UNION {{Within(config, v, view) :
            view \in IF CardParks(config.views[v], item)
                     THEN {[config.views[v] EXCEPT !.cards = Append(@, item.card)]}
                     ELSE Reinserted(config.views[v], item)} :
         v \in {w \in FindView(config, item) : ~PathsCollide(config)}}
================================================================================
