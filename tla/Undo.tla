---------------------------------- MODULE Undo ----------------------------------
(***************************************************************************)
(* Taking one change back (analyze/undo.py) and writing that into the      *)
(* dashboard as it stands (restore.py, apply_undo).                        *)
(*                                                                         *)
(* The plan works from three states: before the change, after it, and now. *)
(* It is all or nothing: what one planner cannot prove blocks the whole    *)
(* undo.  Here a planner that refuses answers Refused, which is one step   *)
(* no undo carries out, and the words of the refusal are left out.         *)
(***************************************************************************)
EXTENDS Matching

Present(config, kind) == Slots(config, Keys(config), kind)

Alike(slots, card) == {s \in slots : s.card = card}
InView(slots, key) == {s \in slots : s.key = key}

Refused == [action |-> "refuse"]
Settled(steps) == IF Refused \in steps THEN {Refused} ELSE steps

\* A step for a card or badge: the place is named by the view's path, or by its
\* position.
Step(action, kind, config, slot) ==
  [action |-> action, kind |-> kind, path |-> config.views[slot.at].path, at |-> slot.at,
   list |-> slot.list, index |-> slot.index, item |-> slot.card, parked |-> FALSE]

--------------------------------------------------------------------------------
(* Sections *)

\* The sections can no longer be proven to stand where the change left them.
Rearranged(after, now) ==
  LET since == PairViewSections(after.sections, now.sections)
  IN  \/ DOMAIN after.sections # {p.old : p \in since}
      \/ DOMAIN now.sections # {p.new : p \in since}
      \/ Moved(since) # {}
      \/ Cardinality({p \in since : p.how \in {"settings", "cards"}}) > 1

\* A view's whole row of sections, and the one it stands for.
SectionsStep(now, at, sections, parked) ==
  [action |-> "set", kind |-> "sections", path |-> now.path, at |-> at, list |-> 0,
   index |-> 0, item |-> sections, standing |-> now.sections, parked |-> parked]

\* A removed section whose place is gone comes back as the last of its view,
\* unless a section with its cards has appeared since.
ParkRemovedSection(after, now, at, section) ==
  LET Holding(view) == {s \in DOMAIN view.sections : view.sections[s].cards = section.cards}
  IN  IF Cardinality(Holding(now)) > Cardinality(Holding(after))
      THEN {} ELSE {SectionsStep(now, at, Append(now.sections, section), TRUE)}

CardEventsIn(match, key) ==
  \/ \E p \in match.cards.edited \cup match.cards.moved : key \in {p[1].key, p[2].key}
  \/ InView(Loose(match.cards.added, match.sections, "added"), key) # {}
  \/ InView(Loose(match.cards.removed, match.sections, "removed"), key) # {}

\* A section the change touched is no longer exactly as it left it.
TouchedAgain(change, after, now) ==
  \E s \in change.added \cup {p.new : p \in change.moved \cup change.reset} :
    LET Same(view) == {t \in DOMAIN view.sections : view.sections[t] = after.sections[s]}
    IN  \/ now.sections[s] # after.sections[s]
        \/ Cardinality(Same(now)) > 1
        \/ Cardinality(Same(after)) > 1

PlanSections(key, match, before, after, current) ==
  LET change == match.sections[key]
      then == View(before, key)
      left == View(after, key)
      now == View(current, key)
      at == Index(current, key)
      stays == {p \in change.pairs : p.how # "settings"}
      Target(s) ==
        IF \E p \in stays : p.old = s
        THEN now.sections[(CHOOSE p \in stays : p.old = s).new]
        ELSE then.sections[s]
      whole == change.moved \cup change.reset = {} /\ change.added = {}
  IN  IF change.restOld \cup change.restNew # {} THEN {Refused}
      ELSE IF whole /\ change.removed = {} THEN {}
      ELSE IF key \notin Keys(current) THEN {Refused}
      ELSE IF Rearranged(left, now)
      THEN IF whole /\ Cardinality(change.removed) = 1 /\ ~CardEventsIn(match, key)
           THEN ParkRemovedSection(left, now, at,
                                   then.sections[CHOOSE s \in change.removed : TRUE])
           ELSE {Refused}
      ELSE IF TouchedAgain(change, left, now) THEN {Refused}
      ELSE {SectionsStep(now, at, [s \in DOMAIN then.sections |-> Target(s)], FALSE)}

PlanSectionSteps(match, before, after, current) ==
  Settled(UNION {PlanSections(key, match, before, after, current) :
                   key \in DOMAIN match.sections})

--------------------------------------------------------------------------------
(* Settings *)

Titled(config, key) == IF key = <<None, 0>> THEN config.title ELSE View(config, key).title

PlanSetting(c, current) ==
  IF c.key # <<None, 0>> /\ c.key \notin Keys(current) THEN {Refused}
  ELSE IF Titled(current, c.key) = c.was THEN {}
  ELSE IF Titled(current, c.key) # c.is THEN {Refused}
  ELSE {[action |-> "set", key |-> c.key, title |-> c.was]}

PlanSettingSteps(before, after, current) ==
  Settled(UNION {PlanSetting(c, current) : c \in SettingChanges(before, after)})

--------------------------------------------------------------------------------
(* Cards and badges *)

\* Mutant: what the change left is not asked.
SoleToday(slot, now, left) ==
  LET found == Alike(now, slot.card)
  IN  IF Cardinality(found) = 1 THEN found
      ELSE IF Cardinality(InView(found, slot.key)) = 1 THEN InView(found, slot.key) ELSE {}

\* Where the one card the change produced stands today: found exactly once,
\* and left exactly once, on the dashboard or else in its view.
Sole(slot, now, left) ==
  LET found == Alike(now, slot.card)
      was == Alike(left, slot.card)
  IN  IF Cardinality(found) = 1 /\ Cardinality(was) = 1 THEN found
      ELSE IF Cardinality(InView(found, slot.key)) = 1
              /\ Cardinality(InView(was, slot.key)) = 1
      THEN InView(found, slot.key)
      ELSE {}

TakeAway(kind, slot, now, left, current) ==
  LET sole == Sole(slot, now, left)
  IN  IF sole = {} THEN {Refused}
      ELSE {Step("remove", kind, current, s) : s \in sole}

\* Back where the item came from; a card whose section cannot be proven goes
\* to the view's own list.
PutBackStep(kind, slot, before, drift) ==
  LET exact == Step("insert", kind, before, slot)
  IN  IF slot.key \in drift /\ slot.list > 0
      THEN [exact EXCEPT !.parked = TRUE] ELSE exact

\* Mutant: what has come back is not counted.
NeverBack(slot, now, left) == 0

\* A deleted item that has come back since is not put back again.
CameBack(slot, now, left) ==
  Cardinality(InView(Alike(now, slot.card), slot.key))
    - Cardinality(InView(Alike(left, slot.card), slot.key))

Replace(kind, slot, removed, now, left, before, drift) ==
  LET back == CameBack(slot, now, left)
      deleted == Cardinality(InView(Alike(removed, slot.card), slot.key))
  IN  IF back >= deleted THEN {}
      ELSE IF back > 0 THEN {Refused}
      ELSE {PutBackStep(kind, slot, before, drift)}

PlanItems(kind, changed, added, removed, before, after, current, drift) ==
  LET now == Present(current, kind)
      left == Present(after, kind)
  IN  Settled(
        (UNION {TakeAway(kind, s, now, left, current) : s \in News(changed) \cup added})
          \cup {PutBackStep(kind, s, before, drift) : s \in Olds(changed)}
          \cup UNION {Replace(kind, s, removed, now, left, before, drift) : s \in removed})

PlanCardSteps(match, before, after, current) ==
  PlanItems("card", match.cards.edited \cup match.cards.moved,
            Loose(match.cards.added, match.sections, "added"),
            Loose(match.cards.removed, match.sections, "removed"),
            before, after, current, SectionDrift(after, current))

PlanBadgeSteps(badges, before, after, current) ==
  PlanItems("badge", badges.edited \cup badges.moved, badges.added, badges.removed,
            before, after, current, {})

--------------------------------------------------------------------------------
(* Views *)

ViewStep(action, view, at) ==
  [action |-> action, kind |-> "view", path |-> view.path, at |-> at, list |-> 0,
   index |-> at, item |-> view, parked |-> FALSE]

PlanAddedView(v, after, current) ==
  LET view == after.views[v]
      found == {w \in DOMAIN current.views : current.views[w] = view}
  IN  IF Cardinality(found) # 1 THEN {Refused}
      ELSE {ViewStep("remove", view, w) : w \in found}

PlanRemovedView(v, before, current) ==
  LET view == before.views[v]
  IN  IF \E w \in DOMAIN current.views : current.views[w] = view THEN {}
      ELSE IF Key(before, v) \in Keys(current) /\ view.path # None THEN {Refused}
      ELSE {ViewStep("insert", view, v)}

PlanViewSteps(before, after, current) ==
  Settled(
    (UNION {PlanAddedView(v, after, current) :
              v \in {w \in DOMAIN after.views : Key(after, w) \notin Keys(before)}})
      \cup UNION {PlanRemovedView(v, before, current) :
             v \in {w \in DOMAIN before.views : Key(before, w) \notin Keys(after)}})

--------------------------------------------------------------------------------
(* The plan *)

SectionEvents(match) ==
  \E key \in DOMAIN match.sections :
    LET s == match.sections[key]
    IN  s.moved \cup s.reset # {} \/ s.removed \cup s.added \cup s.restOld \cup s.restNew # {}

Events(match) == match.removed \cup match.added # {} \/ match.edited \cup match.moved # {}

\* Something between two states has a name.
Seen(before, after) ==
  \/ Events(MatchCards(before, after).cards)
  \/ Events(MatchBadges(before, after))
  \/ Keys(before) # Keys(after)
  \/ SettingChanges(before, after) # {}
  \/ SectionEvents(MatchCards(before, after))
  \/ ViewTypeChanged(before, after)

Gated(before, after, current) ==
  \/ ~(Seen(before, after) \/ ViewTypeChanged(before, current)
         \/ ViewTypeChanged(after, current))
  \/ \E config \in {before, after, current} : PathsCollide(config)
  \/ \E p \in {<<before, after>>, <<before, current>>, <<after, current>>} :
       PositionsLie(p[1], p[2]) \/ ViewTypeChanged(p[1], p[2])

SameView(step, other) ==
  IF step.path # None THEN step.path = other.path
  ELSE other.path = None /\ step.at = other.at

PlanUndo(before, after, current) ==
  LET match == MatchCards(before, after)
      badges == MatchBadges(before, after)
      sections == PlanSectionSteps(match, before, after, current)
      settings == PlanSettingSteps(before, after, current)
      cards == PlanCardSteps(match, before, after, current)
      badgeSteps == PlanBadgeSteps(badges, before, after, current)
      views == PlanViewSteps(before, after, current)
      \* a view's whole row of sections next to a card step in the same view
      meet == \E s \in sections, c \in cards : SameView(c, s)
  IN  IF Gated(before, after, current)
           \/ {Refused} \in {sections, settings, cards, badgeSteps, views} \/ meet
      THEN [blocked |-> TRUE]
      ELSE [blocked |-> FALSE, settings |-> settings,
            steps |-> sections \cup cards \cup badgeSteps \cup views]

--------------------------------------------------------------------------------
(* Carrying it out *)

WriteSettings(config, steps) ==
  LET New(key, standing) ==
        LET mine == {s \in steps : s.key = key}
        IN  IF mine = {} THEN standing ELSE (CHOOSE s \in mine : TRUE).title
  IN  [config EXCEPT !.title = New(<<None, 0>>, @),
                     !.views = [v \in DOMAIN config.views |->
                        [config.views[v] EXCEPT !.title = New(Key(config, v), @)]]]

\* The view a step or an item belongs to: by its path, or by its position.
FindView(config, step) ==
  IF step.path # None
  THEN {v \in DOMAIN config.views :
          /\ config.views[v].path = step.path
          /\ \A w \in 1 .. v - 1 : config.views[w].path # step.path}
  ELSE {step.at} \cap DOMAIN config.views

\* At this index, or at the end of a list that has become too short for it.
PutAt(items, index, item) ==
  InsertAt(items, IF index <= Len(items) THEN index ELSE Len(items) + 1, item)

\* One step: the dashboards it can lead to, one or, when what it was planned
\* for is not there, none.
TakeItem(config, s) ==
  LET Items(v) == Lists(config.views[v], s.kind)[s.list]
      Standing(v) == /\ s.list \in DOMAIN Lists(config.views[v], s.kind)
                     /\ s.index \in DOMAIN Items(v) /\ Items(v)[s.index] = s.item
  IN  {WithList(config, v, s.kind, s.list, RemoveAt(Items(v), s.index)) :
         v \in {w \in FindView(config, s) : Standing(w)}}

PutItem(config, s) ==
  {WithList(config, v, s.kind, s.list,
            PutAt(Lists(config.views[v], s.kind)[s.list], s.index, s.item)) :
     v \in {w \in FindView(config, s) : s.list \in DOMAIN Lists(config.views[w], s.kind)}}

ParkItem(config, s) ==
  {WithList(config, v, "card", 0, Append(config.views[v].cards, s.item)) :
     v \in FindView(config, s)}

WriteSections(config, s) ==
  {[config EXCEPT !.views[v].sections = s.item] :
     v \in {w \in FindView(config, s) : config.views[w].sections = s.standing}}

\* Of several views just alike, the first goes.
TakeView(config, s) ==
  LET FirstAlike(view) ==
        CHOOSE v \in DOMAIN config.views :
          config.views[v] = view /\ \A w \in 1 .. v - 1 : config.views[w] # view
  IN  {[config EXCEPT !.views = RemoveAt(@, FirstAlike(config.views[v]))] :
         v \in {w \in FindView(config, s) : config.views[w] = s.item}}

PutView(config, s) == {[config EXCEPT !.views = PutAt(@, s.index, s.item)]}

ItemKinds == {"card", "badge"}

CarryOut(config, s) ==
  CASE s.kind = "sections"                          -> WriteSections(config, s)
    [] s.kind = "view" /\ s.action = "remove"       -> TakeView(config, s)
    [] s.kind = "view" /\ s.action = "insert"       -> PutView(config, s)
    [] s.kind \in ItemKinds /\ s.action = "remove"  -> TakeItem(config, s)
    [] s.kind \in ItemKinds /\ s.parked             -> ParkItem(config, s)
    [] OTHER                                        -> PutItem(config, s)

\* Mutant: the highest index goes in first as well.
HighestFirst(s) == -s.index

\* What goes, goes highest index first; what comes in, lowest index first.
Rank(s) == IF s.action = "remove" THEN -s.index ELSE s.index

\* Cards and badges go first, then the rows of sections are written, views go,
\* everything comes in, and what is parked comes last.
Turn(s) ==
  LET kind == CASE s.kind = "card" -> 1 [] s.kind = "badge" -> 2 [] OTHER -> 3
  IN  CASE s.kind = "sections"                          -> <<2, s.at, 0, 0, 0>>
        [] s.kind = "view" /\ s.action = "remove"       -> <<3, Rank(s), 0, 0, 0>>
        [] s.kind \in ItemKinds /\ s.action = "remove"  -> <<1, Rank(s), kind, s.at, s.list>>
        [] s.kind \in ItemKinds /\ s.parked             -> <<5, s.at, s.list, Rank(s), 0>>
        [] OTHER                                        -> <<4, Rank(s), kind, s.at, s.list>>

TakesTurnBefore(s, t) ==
  \E n \in 1 .. 5 : /\ Turn(s)[n] < Turn(t)[n]
                   /\ \A m \in 1 .. n - 1 : Turn(s)[m] = Turn(t)[m]

\* The dashboard with the plan applied; none when the undo is refused.
ApplyUndo(config, plan) ==
  IF plan.blocked THEN {} ELSE
  LET steps == InOrder(plan.steps, {st \in plan.steps \X plan.steps : TakesTurnBefore(st[1], st[2])})
      done[n \in 0 .. Len(steps)] ==
        IF n = 0 THEN {WriteSettings(config, plan.settings)}
        ELSE UNION {CarryOut(standing, steps[n]) : standing \in done[n - 1]}
  IN  done[Len(steps)]
================================================================================
