-------------------------------- MODULE Matching --------------------------------
(***************************************************************************)
(* Pairing the sections and cards of two states of one dashboard           *)
(* (analyze/matching.py): what stayed, what was moved, what was edited and *)
(* what is left over on either side.                                       *)
(*                                                                         *)
(* The code claims cards one by one, in the order they are written.  Among *)
(* cards that look the same this pairs the first with the first, the       *)
(* second with the second, which is how it is said here.                   *)
(***************************************************************************)
EXTENDS Dashboards

\* The pairs of items with the same label, the n-th of one side with the n-th of
\* the other: how sections are found elsewhere in their view, and how the first
\* two passes over the cards go.
Aligned(olds, news, OldLabel(_), NewLabel(_), Sooner(_, _), Before(_, _)) ==
  {p \in olds \X news :
     /\ NewLabel(p[2]) = OldLabel(p[1])
     /\ Cardinality({o \in olds : OldLabel(o) = OldLabel(p[1]) /\ Sooner(o, p[1])})
          = Cardinality({n \in news : NewLabel(n) = NewLabel(p[2]) /\ Before(n, p[2])})}

Olds(pairs) == {p[1] : p \in pairs}
News(pairs) == {p[2] : p \in pairs}

--------------------------------------------------------------------------------
(* Sections *)

\* One view's sections, paired outside in: the same at the same index, the
\* same anywhere, and at the same index with only the settings or only the
\* cards changed.
PairViewSections(old, new) ==
  LET same == {<<i, i>> : i \in {j \in DOMAIN old \cap DOMAIN new : old[j] = new[j]}}
      found == Aligned(DOMAIN old \ Olds(same), DOMAIN new \ News(same),
                       LAMBDA i : old[i], LAMBDA j : new[j], <, <)
      claimed == same \cup found
      open == (DOMAIN old \ Olds(claimed)) \cap (DOMAIN new \ News(claimed))
      settings == {i \in open : old[i].cards = new[i].cards /\ old[i].own # new[i].own}
      cards == {i \in open : old[i].own = new[i].own /\ old[i].cards # new[i].cards}
  IN  {[old |-> p[1], new |-> p[2], how |-> "same"] : p \in claimed}
        \cup {[old |-> i, new |-> i, how |-> "settings"] : i \in settings}
        \cup {[old |-> i, new |-> i, how |-> "cards"] : i \in cards}

\* Sections are compared in every view both states have in the same layout.
ComparedViews(old, new) ==
  {key \in Keys(old) \cap Keys(new) : View(old, key).layout = View(new, key).layout}

PairSections(old, new) ==
  [key \in ComparedViews(old, new) |->
     PairViewSections(View(old, key).sections, View(new, key).sections)]

\* Mutant: nothing is ever moved.
NeverMoved(pairs) == {}

\* The pairs outside the longest run that kept its order: of several such
\* runs, the one that starts first.
Moved(pairs) ==
  LET Run(S) == \A p, q \in S : p.old < q.old => p.new < q.new
      runs == {S \in SUBSET pairs : Run(S)}
      longest == {S \in runs : \A T \in runs : Cardinality(T) <= Cardinality(S)}
      Leads(S, T) == \E p \in S \ T : \A q \in T \ S : p.old < q.old
  IN  pairs \ First(longest, {ST \in longest \X longest : Leads(ST[1], ST[2])})

--------------------------------------------------------------------------------
(* Cards and badges *)

Paired(slot, sections) ==
  /\ slot.key \in DOMAIN sections
  /\ \E p \in sections[slot.key] : p.old = slot.list

\* Whether a card sits in a section the pairing left unexplained.
Unpaired(slot, sections) == slot.list > 0 /\ ~Paired(slot, sections)

\* Where an old card's list is in the new state, its section followed.
Translated(slot, sections) ==
  IF slot.list > 0 /\ Paired(slot, sections)
  THEN <<slot.key, (CHOOSE p \in sections[slot.key] : p.old = slot.list).new>>
  ELSE Place(slot)

\* Mutant: every card of the same name is paired with every other.
EveryCandidate(candidates) == candidates

\* Which of two pairs is claimed first: the more alike, then the one written first.
ClaimedFirst(p, q) ==
  LET Like(r) == Likeness(r[1].card, r[2].card)
  IN  \/ MoreAlike(Like(p), Like(q))
      \/ /\ ~MoreAlike(Like(q), Like(p))
         /\ \/ Earlier(p[1], q[1])
            \/ p[1] = q[1] /\ Earlier(p[2], q[2])

\* Best first, and whatever shares a card with it is out.
MostAlikeFirst(candidates) ==
  LET order == {pq \in candidates \X candidates : ClaimedFirst(pq[1], pq[2])}
      Best(pairs) == First(pairs, order)
      left[n \in 0 .. Cardinality(candidates)] ==
        IF n = 0 THEN candidates
        ELSE {p \in left[n - 1] : /\ p[1] # Best(left[n - 1])[1]
                                  /\ p[2] # Best(left[n - 1])[2]}
  IN  {Best(pairs) : pairs \in {left[n] : n \in 0 .. Cardinality(candidates)} \ {{}}}

\* _claim_unique: groups that have exactly one card on each side.
ClaimUnique(olds, news, Group(_), Target(_)) ==
  {p \in olds \X news :
     /\ Group(p[1]) = Target(p[2])
     /\ \A o \in olds : Group(o) = Group(p[1]) => o = p[1]
     /\ \A n \in news : Target(n) = Target(p[2]) => n = p[2]}

NamedByText(slot) ==
  LET key == WeakKey(slot.card) IN key # None /\ key[2] = "title"

\* A card that shows something and has a title too can have what it shows
\* swapped and still be known by the rest.
NamedEntity(slot) == {"entity", "title"} \subseteq DOMAIN slot.card

Rest(card) == [f \in DOMAIN card \ {"entity"} |-> card[f]]

\* A matching under way: what neither side has claimed yet, and the pairs so far.
Unclaimed(old, new, kind) ==
  LET common == Keys(old) \cap Keys(new)
  IN  [old |-> Slots(old, common, kind), new |-> Slots(new, common, kind),
       inPlace |-> {}, displaced |-> {}, changed |-> {}]

Claimed(m, how, pairs) ==
  [m EXCEPT !.old = @ \ Olds(pairs), !.new = @ \ News(pairs), ![how] = @ \cup pairs]

\* Cards of a section left unexplained are claimed after all others.
Sooner(o, p, sections) ==
  \/ ~Unpaired(o, sections) /\ Unpaired(p, sections)
  \/ Unpaired(o, sections) = Unpaired(p, sections) /\ Earlier(o, p)

ClaimInPlace(m, sections) ==
  Claimed(m, "inPlace",
    Aligned(m.old, m.new,
            LAMBDA o : <<Translated(o, sections), o.card>>, LAMBDA n : <<Place(n), n.card>>,
            LAMBDA o, p : Sooner(o, p, sections), Earlier))

ClaimDisplaced(m, sections) ==
  Claimed(m, "displaced",
    Aligned(m.old, m.new, LAMBDA o : o.card, LAMBDA n : n.card,
            LAMBDA o, p : Sooner(o, p, sections), Earlier))

ClaimEdited(m, sections) ==
  Claimed(m, "changed",
    MostAlikeFirst({p \in m.old \X m.new :
                      /\ WeakKey(p[1].card) # None
                      /\ WeakKey(p[1].card) = WeakKey(p[2].card)
                      /\ Translated(p[1], sections) = Place(p[2])}))

\* What is left of one side, named in this way, and where it can be followed.
Followed(slots, Named(_), sections) == {o \in slots : Named(o) /\ ~Unpaired(o, sections)}

ClaimRenamed(m, sections) ==
  Claimed(m, "changed",
    ClaimUnique(Followed(m.old, NamedByText, sections), {n \in m.new : NamedByText(n)},
                LAMBDA o : <<Translated(o, sections), o.card.type>>,
                LAMBDA n : <<Place(n), n.card.type>>))

ClaimSwapped(m, kind, sections) ==
  IF kind = "badge" THEN m ELSE
  Claimed(m, "changed",
    ClaimUnique(Followed(m.old, NamedEntity, sections), {n \in m.new : NamedEntity(n)},
                LAMBDA o : <<Translated(o, sections), Rest(o.card)>>,
                LAMBDA n : <<Place(n), Rest(n.card)>>))

\* What stayed in its list but changed position among those that did.
Reordered(m) ==
  LET Beside(p) == {q \in m.inPlace \cup m.changed : Place(q[2]) = Place(p[2])}
  IN  {p \in m.inPlace :
         Cardinality({q \in Beside(p) : q[1].index < p[1].index})
           # Cardinality({q \in Beside(p) : q[2].index < p[2].index})}

Outcome(m) ==
  [removed |-> m.old, added |-> m.new, edited |-> m.changed,
   moved |-> m.displaced \cup Reordered(m)]

MatchSlots(old, new, kind, sections) ==
  Outcome(ClaimSwapped(ClaimRenamed(ClaimEdited(ClaimDisplaced(ClaimInPlace(
    Unclaimed(old, new, kind), sections), sections), sections), sections), kind, sections))

--------------------------------------------------------------------------------
(* Whole sections, proven by their cards *)

\* A section is gone whole, or came whole, when every card of it is among the
\* removed, or the added, and it is the only one more or less in its view.
WholeSections(view, key, rest, cards, emptyCounts) ==
  LET whole == {s \in rest :
                  LET own == view.sections[s].cards
                  IN  IF own = <<>> THEN emptyCounts
                      ELSE Cardinality({c \in cards : Place(c) = <<key, s>>}) = Len(own)}
  IN  IF Cardinality(whole) = 1 THEN whole ELSE {}

SettleSections(old, new, pairs, cards) ==
  [key \in DOMAIN pairs |->
     LET was == View(old, key)
         is == View(new, key)
         restOld == DOMAIN was.sections \ {p.old : p \in pairs[key]}
         restNew == DOMAIN is.sections \ {p.new : p \in pairs[key]}
         fewer == Len(was.sections) - Len(is.sections)
         removed == IF fewer = 1
                    THEN WholeSections(was, key, restOld, cards.removed, FALSE) ELSE {}
         added == IF fewer = -1
                  THEN WholeSections(is, key, restNew, cards.added, TRUE) ELSE {}
     IN  [pairs |-> pairs[key], moved |-> Moved(pairs[key]),
          reset |-> {p \in pairs[key] : p.how = "settings"},
          removed |-> removed, added |-> added,
          restOld |-> restOld \ removed, restNew |-> restNew \ added]]

MatchCards(old, new) ==
  LET pairs == PairSections(old, new)
      cards == MatchSlots(old, new, "card", pairs)
  IN  [cards |-> cards, pairs |-> pairs,
       sections |-> SettleSections(old, new, pairs, cards)]

MatchBadges(old, new) == MatchSlots(old, new, "badge", [key \in {} |-> {}])

\* What was removed, or added, less the cards of sections that went, or came, whole.
Loose(slots, sections, whole) ==
  {s \in slots : s.key \in DOMAIN sections => s.list \notin sections[s.key][whole]}

--------------------------------------------------------------------------------
(* What a state may not be compared by *)

\* Whether a position means a different view in the two states.
PositionsLie(one, other) ==
  LET length == IF Len(one.views) < Len(other.views) THEN Len(one.views) ELSE Len(other.views)
      Positions(config) == {v \in 1 .. length : config.views[v].path = None}
      Standing(v) ==
        \/ one.views[v] = other.views[v]
        \/ one.views[v].title # None /\ one.views[v].title = other.views[v].title
  IN  /\ ~(Len(one.views) = 1 /\ Len(other.views) = 1)
      /\ \/ Positions(one) # Positions(other)
         \/ \E v \in Positions(one) : ~Standing(v)

ViewTypeChanged(one, other) ==
  \E key \in Keys(one) \cap Keys(other) : View(one, key).layout # View(other, key).layout

\* The views whose sections no longer agree in number or settings.
SectionDrift(new, now) ==
  {key \in Keys(new) \cap Keys(now) : Marks(View(new, key)) # Marks(View(now, key))}

\* The named settings that differ: the dashboard's (key None), then each view's.
SettingChanges(old, new) ==
  {c \in {[key |-> <<None, 0>>, was |-> old.title, is |-> new.title]}
           \cup {[key |-> key, was |-> View(old, key).title, is |-> View(new, key).title] :
                   key \in Keys(old) \cap Keys(new)} : c.was # c.is}
================================================================================
