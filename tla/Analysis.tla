--------------------------------- MODULE Analysis ---------------------------------
(***************************************************************************)
(* A dashboard that people edit, and the two narrow tools on it.           *)
(*                                                                         *)
(* One save takes it from "before" to "after", by any few edits.  Others   *)
(* follow, and "current" is what stands.  Then the save is taken back, or  *)
(* what the recorded state "before" held is put back, one item at a time.  *)
(*                                                                         *)
(* MaxEdits bounds all edits together, MaxCards the cards and badges of    *)
(* one list, MaxSections and MaxViews the rows.                            *)
(***************************************************************************)
EXTENDS PutBack

CONSTANTS
  Cards,              \* the cards, and badges, somebody may write
  Owns,               \* what a section may be set to
  Titles, Paths,      \* titles and URL paths of views
  Boards,             \* the dashboards to begin with
  MaxEdits, MaxCards, MaxSections, MaxViews

VARIABLES
  before, after,      \* the two recorded states of the change
  current,            \* the dashboard as it stands
  stage,              \* "changing", "later", "undone" or "back"
  edits               \* how many edits were made

vars == <<before, after, current, stage, edits>>

--------------------------------------------------------------------------------
(* The dashboards the analysis can read *)

Layouts == {"masonry", "sections"}

Sections == [own : Owns, cards : Seq(Cards)]

Views == [path : Paths \cup {None}, layout : Layouts, title : Titles,
          cards : Seq(Cards), badges : Seq(Cards), sections : Seq(Sections)]

Configs == [title : Titles, views : Seq(Views)]

\* The dashboards to begin with are well formed, a card says what type it is, a
\* title may be missing, there is something a section may be set to, and the
\* edits are bounded by a number.
ASSUME BoardsAreConfigs == Boards \subseteq Configs
ASSUME CardsAssumption == \A card \in Cards : "type" \in DOMAIN card /\ IsFiniteSet(DOMAIN card)
ASSUME NoneAssumption == None \in Titles
ASSUME OwnsAssumption == Owns # {}
ASSUME BoundsAssumption == MaxEdits \in Nat

--------------------------------------------------------------------------------
(* What the dashboard editor of Home Assistant does *)

Listed(config, kind) ==
  UNION {{<<v, l>> : l \in DOMAIN Lists(config.views[v], kind)} : v \in DOMAIN config.views}

Items(config, kind, p) == Lists(config.views[p[1]], kind)[p[2]]

Save(config, kind, p, items) == WithList(config, p[1], kind, p[2], items)

WriteItem(config, kind) ==
  UNION {{Save(config, kind, p, Append(Items(config, kind, p), card)) :
            card \in IF Len(Items(config, kind, p)) < MaxCards THEN Cards ELSE {}} :
         p \in Listed(config, kind)}

EditItem(config, kind) ==
  UNION {{Save(config, kind, p, [Items(config, kind, p) EXCEPT ![i] = card]) :
            i \in DOMAIN Items(config, kind, p), card \in Cards} : p \in Listed(config, kind)}

DeleteItem(config, kind) ==
  UNION {{Save(config, kind, p, RemoveAt(Items(config, kind, p), i)) :
            i \in DOMAIN Items(config, kind, p)} : p \in Listed(config, kind)}

MoveItem(config, kind) ==
  UNION {UNION {LET without == Save(config, kind, p, RemoveAt(Items(config, kind, p), i))
                    card == Items(config, kind, p)[i]
                IN  UNION {{Save(without, kind, q, InsertAt(Items(without, kind, q), j, card)) :
                              j \in 1 .. Len(Items(without, kind, q)) + 1} :
                           q \in {r \in Listed(without, kind) :
                                    Len(Items(without, kind, r)) < MaxCards}} :
                i \in DOMAIN Items(config, kind, p)} : p \in Listed(config, kind)}

InSections(config, Rows(_)) ==
  UNION {{[config EXCEPT !.views[v].sections = row] : row \in Rows(config.views[v].sections)} :
         v \in {w \in DOMAIN config.views : config.views[w].layout = "sections"}}

AddSection(config) ==
  InSections(config, LAMBDA row :
    {Append(row, Section(own, <<>>)) : own \in IF Len(row) < MaxSections THEN Owns ELSE {}})

DeleteSection(config) ==
  InSections(config, LAMBDA row : {RemoveAt(row, s) : s \in DOMAIN row})

MoveSection(config) ==
  InSections(config, LAMBDA row :
    {InsertAt(RemoveAt(row, s), t, row[s]) : s, t \in DOMAIN row})

SetSection(config) ==
  InSections(config, LAMBDA row :
    {[row EXCEPT ![s].own = own] : s \in DOMAIN row, own \in Owns})

\* Converting a view to sections gives it an empty one.
ConvertView(config) ==
  {LET view == config.views[v]
   IN  Within(config, v,
              IF view.layout = "masonry"
              THEN [view EXCEPT !.layout = "sections",
                                !.sections = Append(view.sections,
                                                    Section(CHOOSE own \in Owns : TRUE, <<>>))]
              ELSE [view EXCEPT !.layout = "masonry"]) :
   v \in {w \in DOMAIN config.views : Len(config.views[w].sections) < MaxSections}}

SetTitle(config) ==
  {[config EXCEPT !.title = title] : title \in Titles}
    \cup {[config EXCEPT !.views[v].title = title] :
            v \in DOMAIN config.views, title \in Titles}

NewView(path) ==
  [path |-> path, layout |-> "masonry", title |-> None, cards |-> <<>>,
   badges |-> <<>>, sections |-> <<>>]

AddView(config) ==
  {[config EXCEPT !.views = Append(@, NewView(path))] :
     path \in IF Len(config.views) < MaxViews THEN Paths \cup {None} ELSE {}}

DeleteView(config) ==
  {[config EXCEPT !.views = RemoveAt(@, v)] : v \in DOMAIN config.views}

SetPath(config) ==
  {[config EXCEPT !.views[v].path = path] :
     v \in DOMAIN config.views, path \in Paths \cup {None}}

MoveView(config) ==
  {[config EXCEPT !.views = InsertAt(RemoveAt(@, v), w, config.views[v])] :
     v, w \in DOMAIN config.views}

Edited(config) ==
  ((UNION {WriteItem(config, kind) \cup EditItem(config, kind)
             \cup DeleteItem(config, kind) \cup MoveItem(config, kind) :
           kind \in {"card", "badge"}})
    \cup AddSection(config) \cup DeleteSection(config) \cup MoveSection(config)
    \cup SetSection(config) \cup ConvertView(config) \cup SetTitle(config)
    \cup AddView(config) \cup DeleteView(config)
    \cup SetPath(config) \cup MoveView(config)) \ {config}

--------------------------------------------------------------------------------
Init ==
  /\ before \in Boards
  /\ after = before /\ current = before
  /\ stage = "changing" /\ edits = 0

\* Part of the change itself.
Change ==
  /\ stage = "changing" /\ edits < MaxEdits
  /\ after' \in Edited(after)
  /\ current' = after'
  /\ edits' = edits + 1
  /\ UNCHANGED <<before, stage>>

\* Somebody saves again, later.
Later ==
  /\ stage \in {"changing", "later"} /\ edits < MaxEdits
  /\ after # before
  /\ current' \in Edited(current)
  /\ stage' = "later" /\ edits' = edits + 1
  /\ UNCHANGED <<before, after>>

\* The change is taken back, unless that is not exact, or was done already.
UndoChange ==
  /\ after # before
  /\ current' \in ApplyUndo(current, PlanUndo(before, after, current))
  /\ current' # current
  /\ stage' = "undone"
  /\ UNCHANGED <<before, after, edits>>

\* One thing the recorded state held is put back, where it may.
Back(config) ==
  LET items == FindRemoved(before, config)
  IN  UNION ({ReinsertView(config, i) : i \in items.views}
               \cup {PutBackSection(config, i) : i \in items.sections}
               \cup {PutBackCard(config, i) : i \in items.cards})

PutItemBack ==
  /\ stage # "undone"
  /\ current' \in Back(current)
  /\ stage' = "back"
  /\ UNCHANGED <<before, after, edits>>

Next == Change \/ Later \/ UndoChange \/ PutItemBack

Spec == Init /\ [][Next]_vars

--------------------------------------------------------------------------------
(* Properties *)

(* A dashboard stays one the program can read: the edits, the undo and the *)
(* putting back leave rows of views, sections and cards.                   *)
AnalysisTypeOK ==
  /\ before \in Configs /\ after \in Configs /\ current \in Configs
  /\ stage \in {"changing", "later", "undone", "back"}
  /\ edits \in 0 .. MaxEdits

(* No change goes unnamed: where two states differ, the analysis of them   *)
(* has something to say (analyze/undo.py, _nothing_changed).  What it has  *)
(* no name for is the order of the views; and of views that share a path   *)
(* it knows the last one only.                                             *)
SameButForOrder(one, other) ==
  /\ one.title = other.title
  /\ Keys(one) = Keys(other)
  /\ \A key \in Keys(one) : View(one, key) = View(other, key)

EveryChangeIsSeen ==
  \/ Seen(before, after)
  \/ PathsCollide(before) \/ PathsCollide(after)
  \/ SameButForOrder(before, after)

(* Each item of either state is accounted for once: gone, come, or paired  *)
(* with one of the other side (analyze/matching.py, _match_slots).         *)
Accounted(match, olds, news) ==
  LET pairs == match.edited \cup match.moved
  IN  /\ \A p, q \in pairs : p[1] = q[1] <=> p[2] = q[2]
      /\ Olds(pairs) \cap match.removed = {} /\ News(pairs) \cap match.added = {}
      /\ Cardinality(olds) - Cardinality(match.removed)
           = Cardinality(news) - Cardinality(match.added)

MatchedOnce ==
  LET common == Keys(before) \cap Keys(current)
  IN  /\ Accounted(MatchCards(before, current).cards,
                   Slots(before, common, "card"), Slots(current, common, "card"))
      /\ Accounted(MatchBadges(before, current),
                   Slots(before, common, "badge"), Slots(current, common, "badge"))

(* Taken back at once, a change is taken back exactly, or the undo         *)
(* refuses: the dashboard is what it was before, but for the order of its  *)
(* views when the change altered that.  Where views without a path may be  *)
(* found at another place half-way, this is not promised.                  *)
Pathless(config) == \E v \in DOMAIN config.views : config.views[v].path = None

PlacesHold(one, other) == Keys(one) = Keys(other) \/ ~(Pathless(one) \/ Pathless(other))

SameOrder(one, other) ==
  \A k, l \in Keys(one) \cap Keys(other) :
    Index(one, k) < Index(one, l) <=> Index(other, k) < Index(other, l)

UndoGoesBack ==
  [][stage = "changing" /\ stage' = "undone" /\ PlacesHold(before, after) =>
       /\ SameButForOrder(before, current')
       /\ SameOrder(before, after) => current' = before]_vars

(* Without that exception, as apply_undo has it: "Insertions last, lowest  *)
(* index first, so each one lands at the index it was given" (restore.py). *)
(* A view that must come back before a view without a path comes in after  *)
(* the cards of the latter, when it is not further down than they are.     *)
UndoIsExact ==
  [][stage = "changing" /\ stage' = "undone" => SameButForOrder(before, current')]_vars

(* An undo takes away exactly what the change brought and gives back what  *)
(* it took, of every card and badge: what was saved since is neither lost  *)
(* nor doubled.  Only copies that have come back since, of a card some     *)
(* view lost in the change, are not given a second time.                   *)
InViews(config, kind, card) ==
  [key \in Keys(config) |-> Cardinality(InView(Alike(Present(config, kind), card), key))]

LostSomewhere(kind, card) ==
  LET was == InViews(before, kind, card)
      is == InViews(after, kind, card)
  IN  \E key \in DOMAIN was : was[key] > (IF key \in DOMAIN is THEN is[key] ELSE 0)

UndoKeepsTheRest ==
  [][stage # "undone" /\ stage' = "undone" =>
       \A kind \in {"card", "badge"}, card \in Cards :
         LET brought == Count(after, kind, card) - Count(before, kind, card)
             taken == Count(current, kind, card) - Count(current', kind, card)
             since == Count(current, kind, card) - Count(after, kind, card)
         IN  taken - brought \in
               0 .. IF LostSomewhere(kind, card) /\ since > 0 THEN since ELSE 0]_vars

(* A dashboard that holds all that stood before the change, and no copy of *)
(* what the change brought, is not touched again: what was taken back      *)
(* stays taken back.  Changes that deleted a whole section or a view are   *)
(* the exception: a second undo can bring those a second time.             *)
Deleted(key) == MatchCards(before, after).sections[key].removed

Lacking(kind, card) == Count(current, kind, card) < Count(before, kind, card)

StillBrought(kind, card) ==
  /\ Count(after, kind, card) > Count(before, kind, card)
  /\ Count(current, kind, card) > Count(before, kind, card)

UndoneOnce ==
  [][stage = "undone" /\ stage' = "undone" =>
       \/ \E kind \in {"card", "badge"}, card \in Cards :
            Lacking(kind, card) \/ StillBrought(kind, card)
       \/ \E key \in ComparedViews(before, after) : Deleted(key) # {}
       \/ ~(Keys(before) \subseteq Keys(after))]_vars

(* Putting back adds the one thing and touches nothing else, and what was  *)
(* put back is not offered again: each time there is less left that could  *)
(* be put back.  Two exceptions to the latter: views without a path, whose *)
(* place means another view once something is put in before them, and the  *)
(* first of several cards alike, which is taken for the other one when it  *)
(* was parked.                                                             *)
OneLess(config) ==
  DeleteItem(config, "card") \cup DeleteView(config)
    \cup UNION {{[config EXCEPT !.views[v].sections = RemoveAt(@, s)] :
                    s \in DOMAIN config.views[v].sections} : v \in DOMAIN config.views}

Possible(config) ==
  LET items == FindRemoved(before, config)
  IN  Cardinality({i \in items.views : ReinsertView(config, i) # {}})
        + Cardinality({i \in items.sections : PutBackSection(config, i) # {}})
        + Cardinality({i \in items.cards : PutBackCard(config, i) # {}})

OneOfSeveral(config) ==
  \E card \in Cards :
    /\ Count(before, "card", card) > 1
    /\ Count(config, "card", card) < Count(before, "card", card)

PutBackSettles ==
  [][stage' = "back" =>
       /\ current \in OneLess(current')
       /\ Possible(current') < Possible(current)
            \/ Pathless(before) \/ Pathless(current) \/ OneOfSeveral(current')]_vars
================================================================================
