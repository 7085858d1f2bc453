----------------------------- MODULE AnalysisProofs -----------------------------
(***************************************************************************)
(* Theorems about Analysis, for any cards, dashboards and bounds: numbers  *)
(* and orders first, then the pairing of two states, the edits, the plan   *)
(* of an undo, and what may be put back.                                   *)
(***************************************************************************)
EXTENDS Analysis, FiniteSetTheorems, SequenceTheorems, WellFoundedInduction, TLAPS

(* Every set of numbers with something in it has a least one.              *)
LEMMA LeastNumber ==
    ASSUME NEW S \in SUBSET Nat, S # {}
    PROVE  \E n \in S : \A m \in S : n <= m
  <1>1. PICK n \in S : \A m \in S : <<m, n>> \notin OpToRel(<, Nat)
    BY NatLessThanWellFounded, WFMin
  <1>2. \A m \in S : ~(m < n)
    BY <1>1 DEF OpToRel
  <1>3. QED
    BY <1>2

(* Induction up to N, over the set of the numbers that are as they should  *)
(* be.                                                                     *)
LEMMA UpTo ==
    ASSUME NEW N \in Nat, NEW T, 0 \in T, \A n \in 1 .. N : n - 1 \in T => n \in T
    PROVE  \A n \in 0 .. N : n \in T
  <1> DEFINE bad == {n \in 0 .. N : n \notin T}
  <1>1. SUFFICES ASSUME bad # {} PROVE FALSE
    OBVIOUS
  <1>2. PICK n \in bad : \A m \in bad : n <= m
    <2>1. bad \in SUBSET Nat
      OBVIOUS
    <2> HIDE DEF bad
    <2>2. QED
      BY <1>1, <2>1, LeastNumber
  <1>3. n # 0 /\ n \in 1 .. N /\ n - 1 \in 0 .. N
    BY <1>2
  <1>4. n - 1 \in T
    BY <1>2, <1>3
  <1>5. QED
    BY <1>2, <1>3, <1>4

(* The values b, h[1][b], h[2][h[1][b]], ... up to the N-th are a function. *)
Stepping(S, b, N, h) == b \in S /\ N \in Nat /\ h \in [1 .. N -> [S -> S]]

Iterates(S, b, N, h, f) ==
  /\ f \in [0 .. N -> S]
  /\ f[0] = b
  /\ \A n \in 1 .. N : f[n] = h[n][f[n - 1]]

(* A value computed in so many steps from another exists.                  *)
LEMMA IteratedExists ==
    ASSUME NEW S, NEW b, NEW N, NEW h, Stepping(S, b, N, h)
    PROVE  \E f : Iterates(S, b, N, h, f)
  <1> USE DEF Stepping
  <1> DEFINE Upto(f, n) == /\ f \in [0 .. n -> S] /\ f[0] = b
                           /\ \A m \in 1 .. n : f[m] = h[m][f[m - 1]]
             T == {n \in 0 .. N : \E f : Upto(f, n)}
  <1>1. 0 \in T
    <2>1. Upto([n \in 0 .. 0 |-> b], 0)
      OBVIOUS
    <2>2. \E f : Upto(f, 0)
      <3> HIDE DEF Upto
      <3>1. QED
        BY <2>1
    <2>3. QED
      BY <2>2
  <1>2. \A n \in 1 .. N : n - 1 \in T => n \in T
    <2>1. SUFFICES ASSUME NEW n \in 1 .. N, n - 1 \in T PROVE n \in T
      OBVIOUS
    <2>2. PICK f : Upto(f, n - 1)
      BY <2>1
    <2> DEFINE g == [m \in 0 .. n |-> IF m = n THEN h[n][f[n - 1]] ELSE f[m]]
    <2>3. h[n] \in [S -> S] /\ f[n - 1] \in S /\ h[n][f[n - 1]] \in S
      BY <2>2
    <2>4. g \in [0 .. n -> S] /\ g[0] = b
      BY <2>2, <2>3
    <2>5. \A m \in 1 .. n : g[m] = h[m][g[m - 1]]
      BY <2>2
    <2>6. Upto(g, n)
      BY <2>4, <2>5
    <2>7. \E e : Upto(e, n)
      <3> HIDE DEF Upto, g
      <3>1. QED
        BY <2>6
    <2>8. QED
      BY <2>7
  <1>3. N \in T
    <2> HIDE DEF T
    <2>1. \A n \in 0 .. N : n \in T
      BY <1>1, <1>2, UpTo
    <2>2. QED
      BY <2>1
  <1>4. PICK f : Upto(f, N)
    BY <1>3
  <1>5. Iterates(S, b, N, h, f)
    BY <1>4 DEF Iterates
  <1>6. QED
    BY <1>5

(* What stands before what: never itself, and whatever stands before it.   *)
Strict(S, R) ==
  /\ \A x \in S : <<x, x>> \notin R
  /\ \A x, y, z \in S : <<x, y>> \in R /\ <<y, z>> \in R => <<x, z>> \in R

(* A finite set has an element that nothing stands before.                 *)
LEMMA FirstIs ==
    ASSUME NEW S, IsFiniteSet(S), S # {}, NEW R, Strict(S, R)
    PROVE  First(S, R) \in S /\ \A y \in S : <<y, First(S, R)>> \notin R
  <1> DEFINE Ahead(x) == {y \in S : <<y, x>> \in R}
             counts == {Cardinality(Ahead(x)) : x \in S}
  <1>1. \A x \in S : IsFiniteSet(Ahead(x)) /\ Cardinality(Ahead(x)) \in Nat
    BY FS_Subset, FS_CardinalityType
  <1>2. PICK n \in counts : \A m \in counts : n <= m
    <2>1. counts \in SUBSET Nat /\ counts # {}
      BY <1>1
    <2>2. QED
      BY <2>1, LeastNumber
  <1>3. PICK x \in S : n = Cardinality(Ahead(x))
    BY <1>2
  <1>4. ASSUME NEW y \in S, <<y, x>> \in R PROVE FALSE
    <2>1. Ahead(y) \subseteq Ahead(x) /\ y \in Ahead(x) /\ y \notin Ahead(y)
      BY <1>4 DEF Strict
    <2>2. Cardinality(Ahead(y)) <= Cardinality(Ahead(x)) /\ Cardinality(Ahead(y)) # Cardinality(Ahead(x))
      BY <1>1, <2>1, FS_Subset
    <2>3. n <= Cardinality(Ahead(y))
      BY <1>2
    <2>4. Cardinality(Ahead(y)) \in Nat /\ Cardinality(Ahead(x)) \in Nat
      BY <1>1
    <2> HIDE DEF Ahead
    <2>5. QED
      BY <1>3, <2>2, <2>3, <2>4
  <1>5. \E z \in S : \A y \in S : <<y, z>> \notin R
    BY <1>4
  <1>6. QED
    BY <1>5 DEF First

(* An order without circles has none on a part either.                     *)
LEMMA StrictSubset ==
    ASSUME NEW S, NEW R, Strict(S, R), NEW T \in SUBSET S
    PROVE  Strict(T, R)
  BY DEF Strict

(* The union of finitely many finite sets.                                 *)
LEMMA UnionFinite ==
    ASSUME NEW S, IsFiniteSet(S), NEW f, DOMAIN f = S, \A x \in S : IsFiniteSet(f[x])
    PROVE  IsFiniteSet(UNION {f[x] : x \in S})
  <1> DEFINE T == {f[x] : x \in S}
  <1>1. [x \in S |-> f[x]] \in Surjection(S, T)
    BY DEF Surjection
  <1>2. IsFiniteSet(T)
    BY <1>1, FS_Surjection
  <1>3. \A X \in T : IsFiniteSet(X)
    OBVIOUS
  <1>4. QED
    BY <1>2, <1>3, FS_UNION

(* Elements with one label are told apart by how many of them stand before *)
(* each.                                                                   *)
LEMMA RankIsOne ==
    ASSUME NEW S, IsFiniteSet(S), NEW R, Strict(S, R),
           \A x, y \in S : x = y \/ <<x, y>> \in R \/ <<y, x>> \in R,
           NEW x \in S, NEW y \in S,
           Cardinality({z \in S : <<z, x>> \in R}) = Cardinality({z \in S : <<z, y>> \in R})
    PROVE  x = y
  <1> DEFINE Ahead(z) == {w \in S : <<w, z>> \in R}
  <1>1. ASSUME NEW a \in S, NEW b \in S, <<a, b>> \in R
        PROVE  Cardinality(Ahead(a)) # Cardinality(Ahead(b))
    <2>1. Ahead(a) \subseteq Ahead(b) /\ a \in Ahead(b) /\ a \notin Ahead(a)
      BY <1>1 DEF Strict
    <2>2. IsFiniteSet(Ahead(b))
      BY FS_Subset
    <2>3. QED
      BY <2>1, <2>2, FS_Subset
  <1>2. QED
    BY <1>1

(* Pairs of which none share an element.                                   *)
OneToOne(pairs) == \A p, q \in pairs : p[1] = q[1] <=> p[2] = q[2]

(* Total: of any two, one stands before the other.                         *)
Total(S, R) == Strict(S, R) /\ \A x, y \in S : x = y \/ <<x, y>> \in R \/ <<y, x>> \in R

(* Pairs of elements with one label, as many of which stand before either. *)
Ranked(olds, news, f, g, R, B) ==
  {p \in olds \X news :
     /\ g[p[2]] = f[p[1]]
     /\ Cardinality({o \in olds : f[o] = f[p[1]] /\ <<o, p[1]>> \in R})
          = Cardinality({n \in news : g[n] = g[p[2]] /\ <<n, p[2]>> \in B})}

(* Pairs of the same label and rank share neither side.                    *)
LEMMA RankedOneToOne ==
    ASSUME NEW olds, IsFiniteSet(olds), NEW news, IsFiniteSet(news),
           NEW f, NEW g, NEW R, Total(olds, R), NEW B, Total(news, B)
    PROVE  OneToOne(Ranked(olds, news, f, g, R, B))
  <1> DEFINE pairs == Ranked(olds, news, f, g, R, B)
  <1> DEFINE OldAhead(o) == {z \in olds : f[z] = f[o] /\ <<z, o>> \in R}
             NewAhead(n) == {z \in news : g[z] = g[n] /\ <<z, n>> \in B}
  <1>1. \A p \in pairs : /\ p[1] \in olds /\ p[2] \in news /\ g[p[2]] = f[p[1]]
                         /\ Cardinality(OldAhead(p[1])) = Cardinality(NewAhead(p[2]))
    BY DEF Ranked
  <1>2. ASSUME NEW n \in news, NEW m \in news, g[n] = g[m],
               Cardinality(NewAhead(n)) = Cardinality(NewAhead(m))
        PROVE  n = m
    <2> DEFINE S == {z \in news : g[z] = g[n]}
    <2>1. IsFiniteSet(S) /\ Total(S, B) /\ n \in S /\ m \in S
      BY <1>2, FS_Subset DEF Total, Strict
    <2>2. /\ NewAhead(n) = {z \in S : <<z, n>> \in B}
          /\ NewAhead(m) = {z \in S : <<z, m>> \in B}
      BY <1>2
    <2>3. Cardinality({z \in S : <<z, n>> \in B}) = Cardinality({z \in S : <<z, m>> \in B})
      BY <1>2, <2>2
    <2> HIDE DEF S
    <2>4. QED
      BY <2>1, <2>3, RankIsOne DEF Total
  <1>3. ASSUME NEW n \in olds, NEW m \in olds, f[n] = f[m],
               Cardinality(OldAhead(n)) = Cardinality(OldAhead(m))
        PROVE  n = m
    <2> DEFINE S == {z \in olds : f[z] = f[n]}
    <2>1. IsFiniteSet(S) /\ Total(S, R) /\ n \in S /\ m \in S
      BY <1>3, FS_Subset DEF Total, Strict
    <2>2. /\ OldAhead(n) = {z \in S : <<z, n>> \in R}
          /\ OldAhead(m) = {z \in S : <<z, m>> \in R}
      BY <1>3
    <2>3. Cardinality({z \in S : <<z, n>> \in R}) = Cardinality({z \in S : <<z, m>> \in R})
      BY <1>3, <2>2
    <2> HIDE DEF S
    <2>4. QED
      BY <2>1, <2>3, RankIsOne DEF Total
  <1> HIDE DEF OldAhead, NewAhead, pairs
  <1>4. OneToOne(pairs)
    BY <1>1, <1>2, <1>3 DEF OneToOne
  <1>5. QED
    BY <1>4 DEF pairs

(* One-to-one pairs have as many on either side.                           *)
LEMMA AsMany ==
    ASSUME NEW olds, IsFiniteSet(olds), NEW news, IsFiniteSet(news),
           NEW pairs \in SUBSET (olds \X news), OneToOne(pairs)
    PROVE  /\ IsFiniteSet(pairs)
           /\ Cardinality(Olds(pairs)) = Cardinality(News(pairs))
           /\ Olds(pairs) \subseteq olds /\ News(pairs) \subseteq news
  <1> DEFINE f == [o \in Olds(pairs) |-> (CHOOSE p \in pairs : p[1] = o)[2]]
  <1>1. Olds(pairs) \subseteq olds /\ News(pairs) \subseteq news
    BY DEF Olds, News
  <1>2. \A p \in pairs : f[p[1]] = p[2]
    BY DEF OneToOne, Olds
  <1>3. f \in Bijection(Olds(pairs), News(pairs))
    <2>1. f \in [Olds(pairs) -> News(pairs)]
      BY <1>2 DEF Olds, News
    <2>2. \A o1, o2 \in Olds(pairs) : f[o1] = f[o2] => o1 = o2
      BY <1>2 DEF OneToOne, Olds
    <2>3. \A p \in pairs : p[1] \in Olds(pairs)
      BY DEF Olds
    <2> HIDE DEF f
    <2>4. \A n \in News(pairs) : \E o \in Olds(pairs) : f[o] = n
      BY <1>2, <2>3 DEF News
    <2>5. QED
      BY <2>1, <2>2, <2>4 DEF Bijection, Injection, Surjection, IsInjective
  <1>4. IsFiniteSet(Olds(pairs))
    BY <1>1, FS_Subset
  <1>5. IsFiniteSet(pairs)
    BY FS_Product, FS_Subset
  <1>6. QED
    BY <1>1, <1>3, <1>4, <1>5, FS_Bijection DEF ExistsBijection

(* A row has finitely many places.                                         *)
LEMMA RowFinite ==
    ASSUME NEW S, NEW row \in Seq(S)
    PROVE  /\ Len(row) \in Nat /\ DOMAIN row = 1 .. Len(row) /\ IsFiniteSet(DOMAIN row)
           /\ \A i \in DOMAIN row : row[i] \in S
           /\ IsFiniteSet(0 .. Len(row))
  <1>1. Len(row) \in Nat /\ DOMAIN row = 1 .. Len(row)
    BY LenProperties
  <1>2. \A i \in 1 .. Len(row) : row[i] \in S
    BY ElementOfSeq
  <1>3. QED
    BY <1>1, <1>2, FS_Interval

(* A section of a row is one.                                              *)
LEMMA SectionsAre ==
    ASSUME NEW sections \in Seq(Sections), NEW s \in DOMAIN sections
    PROVE  sections[s].own \in Owns /\ sections[s].cards \in Seq(Cards)
  <1>1. sections[s] \in Sections
    BY RowFinite
  <1>2. QED
    BY <1>1 DEF Sections

ListsOf(view, kind) == IF kind = "badge" THEN {0} ELSE 0 .. Len(view.sections)

(* The lists of a view are lists of cards.                                 *)
LEMMA ListsType ==
    ASSUME NEW view \in Views, NEW kind
    PROVE  Lists(view, kind) \in [ListsOf(view, kind) -> Seq(Cards)]
  <1>1. view.cards \in Seq(Cards) /\ view.badges \in Seq(Cards) /\ view.sections \in Seq(Sections)
    BY DEF Views
  <1>2. CASE kind = "badge"
    BY <1>1, <1>2 DEF Lists, ListsOf
  <1>3. CASE kind # "badge"
    <2>1. \A s \in 1 .. Len(view.sections) : view.sections[s].cards \in Seq(Cards)
      BY <1>1, RowFinite, SectionsAre
    <2>2. \A l \in 0 .. Len(view.sections) :
            (IF l = 0 THEN view.cards ELSE view.sections[l].cards) \in Seq(Cards)
      BY <1>1, <2>1
    <2>3. QED
      BY <1>3, <2>2 DEF Lists, ListsOf
  <1>4. QED
    BY <1>2, <1>3

(* The item at one place.                                                  *)
SlotAt(config, kind, v, l, i) ==
  [key |-> Key(config, v), at |-> v, list |-> l, index |-> i,
   card |-> Lists(config.views[v], kind)[l][i]]

IsPlace(config, kind, v, l, i) ==
  /\ v \in DOMAIN config.views
  /\ l \in DOMAIN Lists(config.views[v], kind)
  /\ i \in DOMAIN Lists(config.views[v], kind)[l]

(* The slots are the items at the places of the views with these keys.     *)
LEMMA SlotIs ==
    ASSUME NEW config, NEW keys, NEW kind, NEW s \in Slots(config, keys, kind)
    PROVE  /\ IsPlace(config, kind, s.at, s.list, s.index)
           /\ s = SlotAt(config, kind, s.at, s.list, s.index)
           /\ s.key = Key(config, s.at) /\ s.key \in keys
           /\ s.card = Lists(config.views[s.at], kind)[s.list][s.index]
  <1>1. PICK v \in {w \in DOMAIN config.views : Key(config, w) \in keys} :
          \E l \in DOMAIN Lists(config.views[v], kind) :
            \E i \in DOMAIN Lists(config.views[v], kind)[l] : s = SlotAt(config, kind, v, l, i)
    BY DEF Slots, SlotAt
  <1>2. PICK l, i : /\ l \in DOMAIN Lists(config.views[v], kind)
                    /\ i \in DOMAIN Lists(config.views[v], kind)[l]
                    /\ s = SlotAt(config, kind, v, l, i)
    BY <1>1
  <1>3. s.key = Key(config, v) /\ s.at = v /\ s.list = l /\ s.index = i
        /\ s.card = Lists(config.views[v], kind)[l][i]
    BY <1>2 DEF SlotAt
  <1>4. QED
    BY <1>1, <1>2, <1>3 DEF IsPlace

(* Whatever stands somewhere in a view with one of the keys is an item.    *)
LEMMA PlaceIsSlot ==
    ASSUME NEW config, NEW keys, NEW kind, NEW v, NEW l, NEW i,
           IsPlace(config, kind, v, l, i), Key(config, v) \in keys
    PROVE  SlotAt(config, kind, v, l, i) \in Slots(config, keys, kind)
  BY DEF IsPlace, SlotAt, Slots

(* A dashboard has finitely many items.                                    *)
LEMMA SlotsFinite ==
    ASSUME NEW config \in Configs, NEW keys, NEW kind
    PROVE  IsFiniteSet(Slots(config, keys, kind))
  <1> DEFINE V == {w \in DOMAIN config.views : Key(config, w) \in keys}
             L(v) == DOMAIN Lists(config.views[v], kind)
             I(v, l) == DOMAIN Lists(config.views[v], kind)[l]
             C(v) == UNION {{<<v, l, i>> : i \in I(v, l)} : l \in L(v)}
             cells == UNION {C(v) : v \in V}
             f == [s \in Slots(config, keys, kind) |-> <<s.at, s.list, s.index>>]
  <1>1. config.views \in Seq(Views)
    BY DEF Configs
  <1>2. IsFiniteSet(V) /\ \A v \in V : config.views[v] \in Views
    <2>1. IsFiniteSet(1 .. Len(config.views))
      BY <1>1, LenProperties, FS_Interval
    <2>2. QED
      BY <1>1, <2>1, LenProperties, FS_Subset, ElementOfSeq
  <1>3. \A v \in V : /\ IsFiniteSet(L(v))
                     /\ \A l \in L(v) : Lists(config.views[v], kind)[l] \in Seq(Cards)
    <2>1. SUFFICES ASSUME NEW v \in V
                   PROVE  IsFiniteSet(L(v)) /\ \A l \in L(v) : Lists(config.views[v], kind)[l] \in Seq(Cards)
      OBVIOUS
    <2>2. config.views[v] \in Views /\ config.views[v].sections \in Seq(Sections)
      BY <1>2 DEF Views
    <2>3. Lists(config.views[v], kind) \in [ListsOf(config.views[v], kind) -> Seq(Cards)]
      BY <2>2, ListsType
    <2>4. IsFiniteSet({0}) /\ IsFiniteSet(0 .. Len(config.views[v].sections))
      BY <2>2, FS_Singleton, RowFinite
    <2>5. IsFiniteSet(ListsOf(config.views[v], kind))
      BY <2>4 DEF ListsOf
    <2>6. QED
      BY <2>3, <2>5
  <1>4. \A v \in V : \A l \in L(v) : IsFiniteSet({<<v, l, i>> : i \in I(v, l)})
    <2>1. SUFFICES ASSUME NEW v \in V, NEW l \in L(v) PROVE IsFiniteSet({<<v, l, i>> : i \in I(v, l)})
      OBVIOUS
    <2>2. IsFiniteSet(I(v, l))
      BY <1>3, RowFinite
    <2>3. [i \in I(v, l) |-> <<v, l, i>>] \in Surjection(I(v, l), {<<v, l, i>> : i \in I(v, l)})
      BY DEF Surjection
    <2>4. QED
      BY <2>2, <2>3, FS_Surjection
  <1>5. \A v \in V : IsFiniteSet(UNION {{<<v, l, i>> : i \in I(v, l)} : l \in L(v)})
    <2>1. SUFFICES ASSUME NEW v \in V PROVE IsFiniteSet(UNION {{<<v, l, i>> : i \in I(v, l)} : l \in L(v)})
      OBVIOUS
    <2> DEFINE g == [l \in L(v) |-> {<<v, l, i>> : i \in I(v, l)}]
    <2>2. \A l \in L(v) : IsFiniteSet(g[l])
      BY <1>4
    <2>3. IsFiniteSet(UNION {g[l] : l \in L(v)})
      <3>1. DOMAIN g = L(v) /\ IsFiniteSet(L(v))
        BY <1>3
      <3> HIDE DEF g
      <3>2. QED
        BY <2>2, <3>1, UnionFinite
    <2>4. QED
      BY <2>3
  <1>6. IsFiniteSet(cells)
    <2> DEFINE g == [v \in V |-> C(v)]
    <2>1. \A v \in V : IsFiniteSet(C(v))
      BY <1>5
    <2> HIDE DEF C
    <2>2. IsFiniteSet(UNION {g[v] : v \in V})
      <3>1. DOMAIN g = V /\ \A v \in V : IsFiniteSet(g[v])
        BY <2>1
      <3> HIDE DEF g
      <3>2. QED
        BY <1>2, <3>1, UnionFinite
    <2>3. {g[v] : v \in V} = {C(v) : v \in V}
      OBVIOUS
    <2>4. QED
      BY <2>2, <2>3
  <1>7. f \in Injection(Slots(config, keys, kind), cells)
    <2>1. \A s \in Slots(config, keys, kind) : f[s] \in cells
      <3>1. SUFFICES ASSUME NEW s \in Slots(config, keys, kind) PROVE <<s.at, s.list, s.index>> \in cells
        OBVIOUS
      <3>2. s.at \in V /\ s.list \in L(s.at) /\ s.index \in I(s.at, s.list)
        BY SlotIs DEF IsPlace
      <3>3. QED
        BY <3>2
    <2>2. \A s, t \in Slots(config, keys, kind) : f[s] = f[t] => s = t
      BY SlotIs
    <2>3. QED
      BY <2>1, <2>2 DEF Injection, IsInjective
  <1> HIDE DEF cells, f
  <1>8. QED
    BY <1>6, <1>7, FS_Injection

(* The row of views, and one of them.                                      *)
LEMMA ViewsAre ==
    ASSUME NEW config \in Configs
    PROVE  /\ config.views \in Seq(Views) /\ config.title \in Titles
           /\ Len(config.views) \in Nat /\ DOMAIN config.views = 1 .. Len(config.views)
           /\ IsFiniteSet(DOMAIN config.views)
           /\ \A v \in DOMAIN config.views : config.views[v] \in Views
  <1>1. config.views \in Seq(Views) /\ config.title \in Titles
    BY DEF Configs
  <1>2. QED
    BY <1>1, RowFinite

(* What a view is made of.                                                 *)
LEMMA ViewIs ==
    ASSUME NEW view \in Views
    PROVE  /\ view.path \in Paths \cup {None} /\ view.layout \in Layouts /\ view.title \in Titles
           /\ view.cards \in Seq(Cards) /\ view.badges \in Seq(Cards)
           /\ view.sections \in Seq(Sections) /\ Len(view.sections) \in Nat
           /\ DOMAIN view.sections = 1 .. Len(view.sections)
  <1>1. view.sections \in Seq(Sections)
    BY DEF Views
  <1>2. QED
    BY <1>1, RowFinite DEF Views

(* Where an item sits, and what it is.                                     *)
LEMMA SlotType ==
    ASSUME NEW config \in Configs, NEW keys, NEW kind, NEW s \in Slots(config, keys, kind)
    PROVE  /\ s.at \in DOMAIN config.views /\ s.at \in Nat
           /\ s.list \in ListsOf(config.views[s.at], kind) /\ s.list \in Nat
           /\ s.index \in Nat \ {0}
           /\ s.card \in Cards
           /\ Lists(config.views[s.at], kind)[s.list] \in Seq(Cards)
  <1>1. IsPlace(config, kind, s.at, s.list, s.index)
        /\ s.card = Lists(config.views[s.at], kind)[s.list][s.index]
    BY SlotIs
  <1>2. s.at \in DOMAIN config.views /\ s.at \in Nat /\ config.views[s.at] \in Views
    BY <1>1, ViewsAre DEF IsPlace
  <1>3. Lists(config.views[s.at], kind) \in [ListsOf(config.views[s.at], kind) -> Seq(Cards)]
    BY <1>2, ListsType
  <1>4. s.list \in ListsOf(config.views[s.at], kind)
    BY <1>1, <1>3 DEF IsPlace
  <1>5. s.list \in Nat
    BY <1>2, <1>4, ViewIs DEF ListsOf
  <1>6. Lists(config.views[s.at], kind)[s.list] \in Seq(Cards)
    BY <1>3, <1>4
  <1>7. s.index \in Nat \ {0} /\ s.card \in Cards
    BY <1>1, <1>6, RowFinite DEF IsPlace
  <1>8. QED
    BY <1>2, <1>4, <1>5, <1>6, <1>7

(* Items at one place are one item.                                        *)
LEMMA SlotsDiffer ==
    ASSUME NEW config, NEW keys, NEW kind, NEW s \in Slots(config, keys, kind),
           NEW t \in Slots(config, keys, kind),
           s.at = t.at, s.list = t.list, s.index = t.index
    PROVE  s = t
  BY SlotIs

(* The items of one dashboard are written in one order.                    *)
InWriting(S) == {p \in S \X S : Earlier(p[1], p[2])}

(* The order items are written in is total.                                *)
LEMMA EarlierTotal ==
    ASSUME NEW config \in Configs, NEW keys, NEW kind, NEW S \in SUBSET Slots(config, keys, kind)
    PROVE  Total(S, InWriting(S))
  <1>1. \A s \in S : s.at \in Nat /\ s.list \in Nat /\ s.index \in Nat
    BY SlotType
  <1>2. \A s, t \in S : s = t \/ Earlier(s, t) \/ Earlier(t, s)
    BY <1>1, SlotsDiffer DEF Earlier
  <1>3. \A s \in S : ~Earlier(s, s)
    BY <1>1 DEF Earlier
  <1>4. \A r, s, t \in S : Earlier(r, s) /\ Earlier(s, t) => Earlier(r, t)
    BY <1>1 DEF Earlier
  <1>5. \A s, t \in S : <<s, t>> \in InWriting(S) <=> Earlier(s, t)
    BY DEF InWriting
  <1>6. QED
    BY <1>2, <1>3, <1>4, <1>5 DEF Total, Strict

InTurn(S, sections) == {p \in S \X S : Sooner(p[1], p[2], sections)}

(* So is the order in which old cards are claimed.                         *)
LEMMA SoonerTotal ==
    ASSUME NEW config \in Configs, NEW keys, NEW kind, NEW S \in SUBSET Slots(config, keys, kind),
           NEW sections
    PROVE  Total(S, InTurn(S, sections))
  <1>1. Total(S, InWriting(S))
    BY EarlierTotal
  <1>2. \A s, t \in S : <<s, t>> \in InWriting(S) <=> Earlier(s, t)
    BY DEF InWriting
  <1>3. \A s, t \in S : <<s, t>> \in InTurn(S, sections) <=>
          \/ ~Unpaired(s, sections) /\ Unpaired(t, sections)
          \/ (Unpaired(s, sections) <=> Unpaired(t, sections)) /\ <<s, t>> \in InWriting(S)
    <2>1. \A s, t \in S : <<s, t>> \in InTurn(S, sections) <=> Sooner(s, t, sections)
      BY DEF InTurn
    <2>2. \A s : Unpaired(s, sections) \in BOOLEAN
      BY DEF Unpaired, Paired
    <2>3. QED
      BY <1>2, <2>1, <2>2 DEF Sooner
  <1> HIDE DEF InTurn, InWriting
  <1>4. QED
    BY <1>1, <1>3 DEF Total, Strict

(* How alike two cards are is a fraction of the fields either has.         *)
LEMMA LikenessType ==
    ASSUME NEW one \in Cards, NEW other \in Cards
    PROVE  Likeness(one, other).same \in Nat /\ Likeness(one, other).among \in Nat \ {0}
  <1> DEFINE fields == DOMAIN one \cup DOMAIN other
             agreed == {f \in DOMAIN one \cap DOMAIN other : one[f] = other[f]}
  <1>1. IsFiniteSet(DOMAIN one) /\ IsFiniteSet(DOMAIN other) /\ "type" \in fields
    BY CardsAssumption
  <1>2. IsFiniteSet(fields)
    BY <1>1, FS_Union
  <1>3. IsFiniteSet(agreed)
    BY <1>1, FS_Subset
  <1>4. Cardinality(fields) \in Nat /\ Cardinality(fields) # 0 /\ Cardinality(agreed) \in Nat
    BY <1>1, <1>2, <1>3, FS_CardinalityType, FS_EmptySet
  <1>5. Likeness(one, other).same = Cardinality(agreed) /\ Likeness(one, other).among = Cardinality(fields)
    BY DEF Likeness
  <1>6. QED
    BY <1>4, <1>5

(* A fraction that is at most another is at most whatever that is at most. *)
LEMMA AtMost ==
    ASSUME NEW a \in Nat, NEW c \in Nat, NEW e \in Nat,
           NEW b \in Nat \ {0}, NEW d \in Nat \ {0}, NEW f \in Nat \ {0},
           a * d <= c * b, c * f <= e * d
    PROVE  a * f <= e * b
  <1>1. (a * d) * f <= (c * b) * f
    BY Z3
  <1>2. (c * f) * b <= (e * d) * b
    BY Z3
  <1>3. d * (a * f) <= d * (e * b)
    BY <1>1, <1>2, Z3
  <1>4. QED
    BY <1>3, Z3

(* "More alike" has no circles, and neither has its absence.               *)
LEMMA NoMoreAlike ==
    ASSUME NEW p, NEW q, NEW r,
           \A x \in {p, q, r} : x.same \in Nat /\ x.among \in Nat \ {0}
    PROVE  /\ MoreAlike(p, q) => ~MoreAlike(q, p)
           /\ ~MoreAlike(q, p) /\ ~MoreAlike(r, q) => ~MoreAlike(r, p)
  <1>1. \A m, n \in Nat : m * n \in Nat
    OBVIOUS
  <1>2. /\ p.same * q.among \in Nat /\ q.same * p.among \in Nat
        /\ q.same * r.among \in Nat /\ r.same * q.among \in Nat
        /\ p.same * r.among \in Nat /\ r.same * p.among \in Nat
    BY <1>1
  <1>3. MoreAlike(p, q) => ~MoreAlike(q, p)
    BY <1>2 DEF MoreAlike
  <1>4. ASSUME ~MoreAlike(q, p), ~MoreAlike(r, q) PROVE ~MoreAlike(r, p)
    <2>1. q.same * p.among <= p.same * q.among /\ r.same * q.among <= q.same * r.among
      BY <1>2, <1>4 DEF MoreAlike
    <2>2. r.same * p.among <= p.same * r.among
      BY <2>1, AtMost
    <2>3. QED
      BY <1>2, <2>2 DEF MoreAlike
  <1>5. QED
    BY <1>3, <1>4

InClaim(candidates) == {pq \in candidates \X candidates : ClaimedFirst(pq[1], pq[2])}

(* The order candidates are claimed in has no circles.                     *)
LEMMA ClaimStrict ==
    ASSUME NEW one \in Configs, NEW other \in Configs, NEW keys, NEW kind,
           NEW candidates \in SUBSET (Slots(one, keys, kind) \X Slots(other, keys, kind))
    PROVE  Strict(candidates, InClaim(candidates))
  <1> DEFINE W(p, q) == MoreAlike(Likeness(p[1].card, p[2].card), Likeness(q[1].card, q[2].card))
             T(p, q) == Earlier(p[1], q[1]) \/ (p[1] = q[1] /\ Earlier(p[2], q[2]))
             A == Slots(one, keys, kind)
             B == Slots(other, keys, kind)
  <1>1. \A p \in candidates : p[1] \in A /\ p[2] \in B /\ p[1].card \in Cards /\ p[2].card \in Cards
    BY SlotType
  <1>2. \A p, q, r \in candidates : /\ W(p, q) => ~W(q, p)
                                    /\ ~W(q, p) /\ ~W(r, q) => ~W(r, p)
    BY <1>1, LikenessType, NoMoreAlike
  <1>3. \A p \in candidates : ~T(p, p)
    <2>1. \A s \in A : ~Earlier(s, s)
      BY SlotType DEF Earlier
    <2>2. \A s \in B : ~Earlier(s, s)
      BY SlotType DEF Earlier
    <2>3. QED
      BY <1>1, <2>1, <2>2
  <1>4. \A p, q, r \in candidates : T(p, q) /\ T(q, r) => T(p, r)
    <2>1. \A r, s, t \in A : Earlier(r, s) /\ Earlier(s, t) => Earlier(r, t)
      BY SlotType DEF Earlier
    <2>2. \A r, s, t \in B : Earlier(r, s) /\ Earlier(s, t) => Earlier(r, t)
      BY SlotType DEF Earlier
    <2>3. QED
      BY <1>1, <2>1, <2>2
  <1>5. \A p, q \in candidates : <<p, q>> \in InClaim(candidates) <=> W(p, q) \/ (~W(q, p) /\ T(p, q))
    BY DEF InClaim, ClaimedFirst
  <1> HIDE DEF W, T
  <1>6. QED
    BY <1>2, <1>3, <1>4, <1>5 DEF Strict

(* What is left after the best of what is left has gone, n times.          *)
LEMMA BestFirst ==
    ASSUME NEW one \in Configs, NEW other \in Configs, NEW keys, NEW kind,
           NEW candidates \in SUBSET (Slots(one, keys, kind) \X Slots(other, keys, kind))
    PROVE  /\ MostAlikeFirst(candidates) \subseteq candidates
           /\ OneToOne(MostAlikeFirst(candidates))
  <1> DEFINE N == Cardinality(candidates)
             Best(pairs) == First(pairs, InClaim(candidates))
             Less(pairs) == {p \in pairs : p[1] # Best(pairs)[1] /\ p[2] # Best(pairs)[2]}
             left == CHOOSE f : f = [n \in 0 .. N |-> IF n = 0 THEN candidates ELSE Less(f[n - 1])]
             h == [n \in 1 .. N |-> [pairs \in SUBSET candidates |-> Less(pairs)]]
  <1>1. IsFiniteSet(candidates) /\ N \in Nat
    <2>1. IsFiniteSet(Slots(one, keys, kind) \X Slots(other, keys, kind))
      BY SlotsFinite, FS_Product
    <2>2. QED
      BY <2>1, FS_Subset, FS_CardinalityType
  <1>2. h \in [1 .. N -> [SUBSET candidates -> SUBSET candidates]]
    OBVIOUS
  <1>3. PICK f : Iterates(SUBSET candidates, candidates, N, h, f)
    <2>1. Stepping(SUBSET candidates, candidates, N, h)
      BY <1>1, <1>2 DEF Stepping
    <2> HIDE DEF h, N
    <2>2. QED
      BY <2>1, IteratedExists
  <1>4. f = [n \in 0 .. N |-> IF n = 0 THEN candidates ELSE Less(f[n - 1])]
    <2> HIDE DEF N, Less
    <2>1. \A n \in 1 .. N : n - 1 \in 0 .. N
      BY <1>1
    <2>2. \A n \in 1 .. N : h[n][f[n - 1]] = Less(f[n - 1])
      BY <1>3, <2>1 DEF Iterates
    <2>3. \A n \in 0 .. N : n # 0 => n \in 1 .. N
      BY <1>1
    <2> HIDE DEF h
    <2>4. \A n \in 0 .. N : f[n] = IF n = 0 THEN candidates ELSE Less(f[n - 1])
      BY <1>3, <2>2, <2>3 DEF Iterates
    <2>5. QED
      BY <1>3, <2>4 DEF Iterates
  <1>5. left = [n \in 0 .. N |-> IF n = 0 THEN candidates ELSE Less(left[n - 1])]
    <2> HIDE DEF Less, N
    <2>1. QED
      BY <1>4
  <1>6. MostAlikeFirst(candidates)
          = {Best(pairs) : pairs \in {left[n] : n \in 0 .. N} \ {{}}}
    BY DEF MostAlikeFirst, InClaim
  <1> HIDE DEF left, N, h
  <1>7. \A n \in 0 .. N : left[n] \subseteq candidates
    <2> DEFINE G == {n \in 0 .. N : left[n] \subseteq candidates}
    <2>1. 0 \in G
      BY <1>1, <1>5
    <2>2. \A n \in 1 .. N : n - 1 \in G => n \in G
      BY <1>1, <1>5
    <2> HIDE DEF G
    <2>3. \A n \in 0 .. N : n \in G
      BY <1>1, <2>1, <2>2, UpTo
    <2>4. QED
      BY <2>3 DEF G
  <1>8. \A n \in 0 .. N : left[n] # {} => Best(left[n]) \in left[n]
    <2>1. SUFFICES ASSUME NEW n \in 0 .. N, left[n] # {} PROVE Best(left[n]) \in left[n]
      OBVIOUS
    <2>2. IsFiniteSet(left[n]) /\ Strict(left[n], InClaim(candidates))
      BY <1>1, <1>7, FS_Subset, ClaimStrict, StrictSubset
    <2>3. QED
      BY <2>1, <2>2, FirstIs
  <1>9. \A m \in 0 .. N : \A n \in 0 .. N : m < n => left[n] \subseteq Less(left[m])
    <2>1. SUFFICES ASSUME NEW m \in 0 .. N PROVE \A n \in 0 .. N : m < n => left[n] \subseteq Less(left[m])
      OBVIOUS
    <2> DEFINE G == {n \in 0 .. N : m < n => left[n] \subseteq Less(left[m])}
    <2>2. 0 \in G
      BY <1>1
    <2>3. \A n \in 1 .. N : n - 1 \in G => n \in G
      <3>1. SUFFICES ASSUME NEW n \in 1 .. N, n - 1 \in G, m < n PROVE left[n] \subseteq Less(left[m])
        BY <1>1
      <3>2. n \in 0 .. N /\ left[n] = Less(left[n - 1])
        <4>1. n \in 0 .. N /\ n # 0
          BY <1>1
        <4> HIDE DEF Less
        <4>2. QED
          BY <1>5, <4>1
      <3>3. CASE m = n - 1
        BY <3>2, <3>3
      <3>4. CASE m < n - 1
        BY <3>1, <3>2, <3>4
      <3>5. QED
        BY <3>1, <3>3, <3>4
    <2> HIDE DEF G
    <2>4. \A n \in 0 .. N : n \in G
      BY <1>1, <2>2, <2>3, UpTo
    <2>5. QED
      BY <2>4 DEF G
  <1>10. MostAlikeFirst(candidates) \subseteq candidates
    BY <1>6, <1>7, <1>8
  <1>11. ASSUME NEW m \in 0 .. N, NEW n \in 0 .. N, m < n, left[m] # {}, left[n] # {}
         PROVE  Best(left[m])[1] # Best(left[n])[1] /\ Best(left[m])[2] # Best(left[n])[2]
    BY <1>8, <1>9, <1>11
  <1>12. ASSUME NEW p \in MostAlikeFirst(candidates), NEW q \in MostAlikeFirst(candidates), p # q
         PROVE  p[1] # q[1] /\ p[2] # q[2]
    <2> HIDE DEF Best, Less
    <2>1. PICK m \in 0 .. N : left[m] # {} /\ p = Best(left[m])
      BY <1>6
    <2>2. PICK n \in 0 .. N : left[n] # {} /\ q = Best(left[n])
      BY <1>6
    <2>3. m < n \/ n < m
      BY <1>1, <1>12, <2>1, <2>2
    <2>4. QED
      BY <1>11, <2>1, <2>2, <2>3
  <1>13. QED
    BY <1>10, <1>12 DEF OneToOne

PairsOf(m) == m.inPlace \cup m.displaced \cup m.changed

Ways == {"inPlace", "displaced", "changed"}

Matchings(olds, news) ==
  [old : SUBSET olds, new : SUBSET news, inPlace : SUBSET (olds \X news),
   displaced : SUBSET (olds \X news), changed : SUBSET (olds \X news)]

(* A matching under way: each item of either side is open or in one pair.  *)
Matched(m, olds, news) ==
  /\ m \in Matchings(olds, news)
  /\ OneToOne(PairsOf(m))
  /\ m.old = olds \ Olds(PairsOf(m))
  /\ m.new = news \ News(PairsOf(m))

(* Pairs between open items can be claimed.                                *)
LEMMA ClaimKeeps ==
    ASSUME NEW olds, NEW news, NEW m, Matched(m, olds, news), NEW how \in Ways,
           NEW pairs \in SUBSET (m.old \X m.new), OneToOne(pairs)
    PROVE  Matched(Claimed(m, how, pairs), olds, news)
  <1> DEFINE c == Claimed(m, how, pairs)
  <1>1. m \in Matchings(olds, news) /\ pairs \in SUBSET (olds \X news)
    BY DEF Matched, Matchings
  <1>2. /\ c.old = m.old \ Olds(pairs) /\ c.new = m.new \ News(pairs)
        /\ c \in Matchings(olds, news)
        /\ PairsOf(c) = PairsOf(m) \cup pairs
    <2>1. /\ c.old = m.old \ Olds(pairs) /\ c.new = m.new \ News(pairs)
          /\ c.inPlace = IF how = "inPlace" THEN m.inPlace \cup pairs ELSE m.inPlace
          /\ c.displaced = IF how = "displaced" THEN m.displaced \cup pairs ELSE m.displaced
          /\ c.changed = IF how = "changed" THEN m.changed \cup pairs ELSE m.changed
          /\ DOMAIN c = DOMAIN m
      BY <1>1 DEF Claimed, Matchings, Ways
    <2>2. c \in Matchings(olds, news)
      BY <1>1 DEF Claimed, Matchings, Ways
    <2>3. PairsOf(c) = PairsOf(m) \cup pairs
      BY <2>1 DEF PairsOf, Ways
    <2>4. QED
      BY <2>1, <2>2, <2>3
  <1> HIDE DEF c
  <1>3. OneToOne(PairsOf(m) \cup pairs)
    BY DEF OneToOne, Matched, Olds, News
  <1>4. /\ c.old = olds \ Olds(PairsOf(m) \cup pairs)
        /\ c.new = news \ News(PairsOf(m) \cup pairs)
    BY <1>2 DEF Matched, Olds, News
  <1>5. QED
    BY <1>2, <1>3, <1>4 DEF Matched, c

(* The sides of a matching are the items of two dashboards.                *)
Sides(one, other, keys, kind, m, sections) ==
  /\ one \in Configs /\ other \in Configs
  /\ Matched(m, Slots(one, keys, kind), Slots(other, keys, kind))

(* What is open on either side is finite, and part of that side.           *)
LEMMA SidesAre ==
    ASSUME NEW one, NEW other, NEW keys, NEW kind, NEW m, NEW sections,
           Sides(one, other, keys, kind, m, sections)
    PROVE  /\ m.old \subseteq Slots(one, keys, kind) /\ m.new \subseteq Slots(other, keys, kind)
           /\ IsFiniteSet(m.old) /\ IsFiniteSet(m.new)
           /\ Total(m.old, InTurn(m.old, sections)) /\ Total(m.new, InWriting(m.new))
  <1>1. m.old \subseteq Slots(one, keys, kind) /\ m.new \subseteq Slots(other, keys, kind)
    BY DEF Sides, Matched, Matchings
  <1>2. one \in Configs /\ other \in Configs
    BY DEF Sides
  <1>3. IsFiniteSet(m.old) /\ IsFiniteSet(m.new)
    BY <1>1, <1>2, SlotsFinite, FS_Subset
  <1>4. QED
    BY <1>1, <1>2, <1>3, SoonerTotal, EarlierTotal

(* The first pass over the cards pairs open items only.                    *)
LEMMA InPlaceKeeps ==
    ASSUME NEW one, NEW other, NEW keys, NEW kind, NEW m, NEW sections,
           Sides(one, other, keys, kind, m, sections)
    PROVE  Sides(one, other, keys, kind, ClaimInPlace(m, sections), sections)
  <1> DEFINE f == [o \in m.old |-> <<Translated(o, sections), o.card>>]
             g == [n \in m.new |-> <<Place(n), n.card>>]
             R == InTurn(m.old, sections)
             B == InWriting(m.new)
             pairs == Ranked(m.old, m.new, f, g, R, B)
  <1>1. ClaimInPlace(m, sections) = Claimed(m, "inPlace", pairs)
    <2>1. \A o \in m.old : {z \in m.old : f[z] = f[o] /\ <<z, o>> \in R}
            = {z \in m.old : <<Translated(z, sections), z.card>> = <<Translated(o, sections), o.card>>
                               /\ Sooner(z, o, sections)}
      BY DEF InTurn
    <2>2. \A n \in m.new : {z \in m.new : g[z] = g[n] /\ <<z, n>> \in B}
            = {z \in m.new : <<Place(z), z.card>> = <<Place(n), n.card>> /\ Earlier(z, n)}
      BY DEF InWriting
    <2>3. QED
      BY <2>1, <2>2 DEF ClaimInPlace, Aligned, Ranked
  <1>2. OneToOne(pairs) /\ pairs \in SUBSET (m.old \X m.new)
    <2>1. IsFiniteSet(m.old) /\ IsFiniteSet(m.new) /\ Total(m.old, R) /\ Total(m.new, B)
      BY SidesAre
    <2>2. pairs \in SUBSET (m.old \X m.new)
      BY DEF Ranked
    <2> HIDE DEF f, g, R, B
    <2>3. QED
      BY <2>1, <2>2, RankedOneToOne
  <1> HIDE DEF pairs
  <1>3. QED
    BY <1>1, <1>2, ClaimKeeps DEF Sides, Ways

(* So does the second.                                                     *)
LEMMA DisplacedKeeps ==
    ASSUME NEW one, NEW other, NEW keys, NEW kind, NEW m, NEW sections,
           Sides(one, other, keys, kind, m, sections)
    PROVE  Sides(one, other, keys, kind, ClaimDisplaced(m, sections), sections)
  <1> DEFINE f == [o \in m.old |-> o.card]
             g == [n \in m.new |-> n.card]
             R == InTurn(m.old, sections)
             B == InWriting(m.new)
             pairs == Ranked(m.old, m.new, f, g, R, B)
  <1>1. ClaimDisplaced(m, sections) = Claimed(m, "displaced", pairs)
    <2>1. \A o \in m.old : {z \in m.old : f[z] = f[o] /\ <<z, o>> \in R}
            = {z \in m.old : z.card = o.card /\ Sooner(z, o, sections)}
      BY DEF InTurn
    <2>2. \A n \in m.new : {z \in m.new : g[z] = g[n] /\ <<z, n>> \in B}
            = {z \in m.new : z.card = n.card /\ Earlier(z, n)}
      BY DEF InWriting
    <2>3. QED
      BY <2>1, <2>2 DEF ClaimDisplaced, Aligned, Ranked
  <1>2. OneToOne(pairs) /\ pairs \in SUBSET (m.old \X m.new)
    <2>1. IsFiniteSet(m.old) /\ IsFiniteSet(m.new) /\ Total(m.old, R) /\ Total(m.new, B)
      BY SidesAre
    <2>2. pairs \in SUBSET (m.old \X m.new)
      BY DEF Ranked
    <2> HIDE DEF f, g, R, B
    <2>3. QED
      BY <2>1, <2>2, RankedOneToOne
  <1> HIDE DEF pairs
  <1>3. QED
    BY <1>1, <1>2, ClaimKeeps DEF Sides, Ways

(* So does the pass over edited cards.                                     *)
LEMMA EditedKeeps ==
    ASSUME NEW one, NEW other, NEW keys, NEW kind, NEW m, NEW sections,
           Sides(one, other, keys, kind, m, sections)
    PROVE  Sides(one, other, keys, kind, ClaimEdited(m, sections), sections)
  <1> DEFINE candidates == {p \in m.old \X m.new :
                              /\ WeakKey(p[1].card) # None
                              /\ WeakKey(p[1].card) = WeakKey(p[2].card)
                              /\ Translated(p[1], sections) = Place(p[2])}
             pairs == MostAlikeFirst(candidates)
  <1>1. candidates \subseteq m.old \X m.new
    OBVIOUS
  <1>2. candidates \in SUBSET (Slots(one, keys, kind) \X Slots(other, keys, kind))
    BY SidesAre
  <1>3. ClaimEdited(m, sections) = Claimed(m, "changed", pairs)
    BY DEF ClaimEdited
  <1> HIDE DEF candidates
  <1>4. OneToOne(pairs) /\ pairs \subseteq candidates
    BY <1>2, BestFirst DEF Sides
  <1> HIDE DEF pairs
  <1>5. QED
    BY <1>1, <1>3, <1>4, ClaimKeeps DEF Sides, Ways

(* So does the one over cards that were renamed.                           *)
LEMMA RenamedKeeps ==
    ASSUME NEW one, NEW other, NEW keys, NEW kind, NEW m, NEW sections,
           Sides(one, other, keys, kind, m, sections)
    PROVE  Sides(one, other, keys, kind, ClaimRenamed(m, sections), sections)
  <1> DEFINE olds == Followed(m.old, NamedByText, sections)
             news == {n \in m.new : NamedByText(n)}
             f == [o \in olds |-> <<Translated(o, sections), o.card.type>>]
             g == [n \in news |-> <<Place(n), n.card.type>>]
             pairs == {p \in olds \X news :
                         /\ f[p[1]] = g[p[2]]
                         /\ \A o \in olds : f[o] = f[p[1]] => o = p[1]
                         /\ \A n \in news : g[n] = g[p[2]] => n = p[2]}
  <1>1. ClaimRenamed(m, sections) = Claimed(m, "changed", pairs)
    BY DEF ClaimRenamed, ClaimUnique
  <1>2. olds \subseteq m.old /\ news \subseteq m.new
    BY DEF Followed
  <1>3. pairs \in SUBSET (m.old \X m.new) /\ OneToOne(pairs)
    <2> HIDE DEF olds, news, f, g
    <2>1. QED
      BY <1>2 DEF OneToOne
  <1> HIDE DEF pairs
  <1>4. QED
    BY <1>1, <1>3, ClaimKeeps DEF Sides, Ways

(* And the one over cards that show something else.                        *)
LEMMA SwappedKeeps ==
    ASSUME NEW one, NEW other, NEW keys, NEW kind, NEW m, NEW sections,
           Sides(one, other, keys, kind, m, sections)
    PROVE  Sides(one, other, keys, kind, ClaimSwapped(m, kind, sections), sections)
  <1> DEFINE olds == Followed(m.old, NamedEntity, sections)
             news == {n \in m.new : NamedEntity(n)}
             f == [o \in olds |-> <<Translated(o, sections), Rest(o.card)>>]
             g == [n \in news |-> <<Place(n), Rest(n.card)>>]
             pairs == {p \in olds \X news :
                         /\ f[p[1]] = g[p[2]]
                         /\ \A o \in olds : f[o] = f[p[1]] => o = p[1]
                         /\ \A n \in news : g[n] = g[p[2]] => n = p[2]}
  <1>1. kind # "badge" => ClaimSwapped(m, kind, sections) = Claimed(m, "changed", pairs)
    BY DEF ClaimSwapped, ClaimUnique
  <1>2. olds \subseteq m.old /\ news \subseteq m.new
    BY DEF Followed
  <1>3. pairs \in SUBSET (m.old \X m.new) /\ OneToOne(pairs)
    <2> HIDE DEF olds, news, f, g
    <2>1. QED
      BY <1>2 DEF OneToOne
  <1> HIDE DEF pairs
  <1>4. CASE kind = "badge"
    BY <1>4 DEF ClaimSwapped
  <1>5. CASE kind # "badge"
    BY <1>1, <1>3, <1>5, ClaimKeeps DEF Sides, Ways
  <1>6. QED
    BY <1>4, <1>5

(* The matching of two dashboards.                                         *)
Matching(one, other, kind, sections) ==
  ClaimSwapped(ClaimRenamed(ClaimEdited(ClaimDisplaced(ClaimInPlace(
    Unclaimed(one, other, kind), sections), sections), sections), sections), kind, sections)

(* After all passes each item is open or in one pair.                      *)
LEMMA MatchingIs ==
    ASSUME NEW one \in Configs, NEW other \in Configs, NEW kind, NEW sections
    PROVE  /\ MatchSlots(one, other, kind, sections) = Outcome(Matching(one, other, kind, sections))
           /\ Matched(Matching(one, other, kind, sections),
                      Slots(one, Keys(one) \cap Keys(other), kind),
                      Slots(other, Keys(one) \cap Keys(other), kind))
  <1> DEFINE keys == Keys(one) \cap Keys(other)
             m0 == Unclaimed(one, other, kind)
             m1 == ClaimInPlace(m0, sections)
             m2 == ClaimDisplaced(m1, sections)
             m3 == ClaimEdited(m2, sections)
             m4 == ClaimRenamed(m3, sections)
  <1>1. Sides(one, other, keys, kind, m0, sections)
    BY DEF Sides, Matched, Matchings, Unclaimed, PairsOf, OneToOne, Olds, News
  <1> HIDE DEF m0
  <1>2. Sides(one, other, keys, kind, m1, sections)
    BY <1>1, InPlaceKeeps
  <1> HIDE DEF m1
  <1>3. Sides(one, other, keys, kind, m2, sections)
    BY <1>2, DisplacedKeeps
  <1> HIDE DEF m2
  <1>4. Sides(one, other, keys, kind, m3, sections)
    BY <1>3, EditedKeeps
  <1> HIDE DEF m3
  <1>5. Sides(one, other, keys, kind, m4, sections)
    BY <1>4, RenamedKeeps
  <1> HIDE DEF m4
  <1>6. Sides(one, other, keys, kind, ClaimSwapped(m4, kind, sections), sections)
    BY <1>5, SwappedKeeps
  <1>7. ClaimSwapped(m4, kind, sections) = Matching(one, other, kind, sections)
    BY DEF Matching, m4, m3, m2, m1, m0
  <1>8. QED
    BY <1>6, <1>7 DEF Sides, MatchSlots, Matching

(* Each item of either side is accounted for once.                         *)
LEMMA AccountedOnce ==
    ASSUME NEW one \in Configs, NEW other \in Configs, NEW kind, NEW sections
    PROVE  Accounted(MatchSlots(one, other, kind, sections),
                     Slots(one, Keys(one) \cap Keys(other), kind),
                     Slots(other, Keys(one) \cap Keys(other), kind))
  <1> DEFINE olds == Slots(one, Keys(one) \cap Keys(other), kind)
             news == Slots(other, Keys(one) \cap Keys(other), kind)
             m == Matching(one, other, kind, sections)
             match == MatchSlots(one, other, kind, sections)
  <1>1. Matched(m, olds, news) /\ match = Outcome(m)
    BY MatchingIs
  <1>2. IsFiniteSet(olds) /\ IsFiniteSet(news)
    BY SlotsFinite
  <1> HIDE DEF olds, news, m, match
  <1>3. /\ match.removed = m.old /\ match.added = m.new
        /\ match.edited \cup match.moved \subseteq PairsOf(m)
    BY <1>1 DEF Outcome, Reordered, PairsOf
  <1>4. /\ m.old = olds \ Olds(PairsOf(m)) /\ m.new = news \ News(PairsOf(m))
        /\ OneToOne(PairsOf(m)) /\ PairsOf(m) \in SUBSET (olds \X news)
    BY <1>1 DEF Matched, Matchings, PairsOf
  <1>5. /\ Cardinality(Olds(PairsOf(m))) = Cardinality(News(PairsOf(m)))
        /\ Olds(PairsOf(m)) \subseteq olds /\ News(PairsOf(m)) \subseteq news
    BY <1>2, <1>4, AsMany
  <1>6. /\ Cardinality(m.old) = Cardinality(olds) - Cardinality(Olds(PairsOf(m)))
        /\ Cardinality(m.new) = Cardinality(news) - Cardinality(News(PairsOf(m)))
    <2>1. /\ olds \cap Olds(PairsOf(m)) = Olds(PairsOf(m))
          /\ news \cap News(PairsOf(m)) = News(PairsOf(m))
      BY <1>5
    <2> DEFINE S == Olds(PairsOf(m))
               T == News(PairsOf(m))
    <2> HIDE DEF S, T
    <2>2. Cardinality(olds \ S) = Cardinality(olds) - Cardinality(olds \cap S)
      BY <1>2, FS_Difference
    <2>3. Cardinality(news \ T) = Cardinality(news) - Cardinality(news \cap T)
      BY <1>2, FS_Difference
    <2>4. QED
      BY <1>4, <2>1, <2>2, <2>3 DEF S, T
  <1>7. /\ Cardinality(olds) \in Nat /\ Cardinality(news) \in Nat
        /\ Cardinality(Olds(PairsOf(m))) \in Nat
    BY <1>2, <1>5, FS_CardinalityType, FS_Subset
  <1>8. Cardinality(olds) - Cardinality(match.removed) = Cardinality(news) - Cardinality(match.added)
    BY <1>3, <1>5, <1>6, <1>7
  <1>9. \A p, q \in match.edited \cup match.moved : p[1] = q[1] <=> p[2] = q[2]
    BY <1>3, <1>4 DEF OneToOne
  <1>10. /\ Olds(match.edited \cup match.moved) \cap match.removed = {}
         /\ News(match.edited \cup match.moved) \cap match.added = {}
    BY <1>3, <1>4 DEF Olds, News
  <1>11. Accounted(match, olds, news)
    BY <1>8, <1>9, <1>10 DEF Accounted
  <1>12. QED
    BY <1>11 DEF match, olds, news

(* What MatchedOnce says, of any two dashboards.                           *)
LEMMA AllAccounted ==
    ASSUME NEW one \in Configs, NEW other \in Configs
    PROVE  LET common == Keys(one) \cap Keys(other)
           IN  /\ Accounted(MatchCards(one, other).cards,
                            Slots(one, common, "card"), Slots(other, common, "card"))
               /\ Accounted(MatchBadges(one, other),
                            Slots(one, common, "badge"), Slots(other, common, "badge"))
  BY AccountedOnce DEF MatchCards, MatchBadges

(* A finite set of finite sets has a largest.                              *)
LEMMA LargestExists ==
    ASSUME NEW S, IsFiniteSet(S), NEW runs \in SUBSET SUBSET S, runs # {}
    PROVE  \E X \in runs : \A Y \in runs : Cardinality(Y) <= Cardinality(X)
  <1> DEFINE N == Cardinality(S)
             short == {N - Cardinality(X) : X \in runs}
  <1>1. N \in Nat
    BY FS_CardinalityType
  <1>2. \A X \in runs : Cardinality(X) \in Nat /\ Cardinality(X) <= N
    BY FS_Subset, FS_CardinalityType
  <1>3. short \in SUBSET Nat /\ short # {}
    <2> HIDE DEF N
    <2>1. QED
      BY <1>1, <1>2
  <1>4. PICK n \in short : \A m \in short : n <= m
    <2> HIDE DEF short
    <2>1. QED
      BY <1>3, LeastNumber
  <1>5. PICK X \in runs : n = N - Cardinality(X)
    BY <1>4
  <1>6. \A Y \in runs : n <= N - Cardinality(Y)
    BY <1>4
  <1> HIDE DEF N, short
  <1>7. QED
    BY <1>1, <1>2, <1>5, <1>6

(* Pairs of sections: records of indices, none of which is in two pairs.   *)
Couples(pairs) ==
  /\ \A p \in pairs : p.old \in Nat /\ p.new \in Nat
  /\ \A p, q \in pairs : p.old = q.old => p = q
  /\ \A p, q \in pairs : p.new = q.new => p = q

InOrderOfNews(S) == \A p, q \in S : p.old < q.old => p.new < q.new

(* What is not moved keeps its order.                                      *)
LEMMA UnmovedInOrder ==
    ASSUME NEW pairs, IsFiniteSet(pairs), Couples(pairs)
    PROVE  Moved(pairs) \subseteq pairs /\ InOrderOfNews(pairs \ Moved(pairs))
  <1> DEFINE Run(S) == \A p, q \in S : p.old < q.old => p.new < q.new
             runs == {S \in SUBSET pairs : Run(S)}
             longest == {S \in runs : \A T \in runs : Cardinality(T) <= Cardinality(S)}
             Leads(S, T) == \E p \in S \ T : \A q \in T \ S : p.old < q.old
             R == {ST \in longest \X longest : Leads(ST[1], ST[2])}
  <1>1. runs # {} /\ runs \in SUBSET SUBSET pairs
    <2>1. {} \in runs
      OBVIOUS
    <2>2. QED
      BY <2>1
  <1>2. longest # {}
    <2> HIDE DEF runs
    <2>1. QED
      BY <1>1, LargestExists
  <1>3. IsFiniteSet(longest)
    <2>1. longest \in SUBSET SUBSET pairs
      OBVIOUS
    <2> HIDE DEF longest
    <2>2. QED
      BY <2>1, FS_SUBSET, FS_Subset
  <1>4. Strict(longest, R)
    <2>1. \A S, T \in longest : <<S, T>> \in R <=> Leads(S, T)
      <3> HIDE DEF longest, Leads
      <3>1. QED
        OBVIOUS
    <2>2. \A S \in longest : ~Leads(S, S)
      OBVIOUS
    <2>3. ASSUME NEW S \in longest, NEW T \in longest, NEW U \in longest, Leads(S, T), Leads(T, U)
          PROVE  Leads(S, U)
      <3>1. S \subseteq pairs /\ T \subseteq pairs /\ U \subseteq pairs
        OBVIOUS
      <3>2. PICK a \in S \ T : \A q \in T \ S : a.old < q.old
        BY <2>3
      <3>3. PICK b \in T \ U : \A q \in U \ T : b.old < q.old
        BY <2>3
      <3> HIDE DEF longest, R
      <3>4. a.old # b.old /\ \A p \in pairs : p.old \in Nat
        BY <3>1, <3>2, <3>3 DEF Couples
      <3>5. CASE a.old < b.old
        <4>1. a \in S \ U
          BY <3>1, <3>2, <3>3, <3>4, <3>5
        <4>2. \A q \in U \ S : a.old < q.old
          BY <3>1, <3>2, <3>3, <3>4, <3>5
        <4>3. QED
          BY <4>1, <4>2
      <3>6. CASE b.old < a.old
        <4>1. b \in S \ U
          BY <3>1, <3>2, <3>3, <3>4, <3>6
        <4>2. \A q \in U \ S : b.old < q.old
          BY <3>1, <3>2, <3>3, <3>4, <3>6
        <4>3. QED
          BY <4>1, <4>2
      <3>7. QED
        BY <3>1, <3>2, <3>3, <3>4, <3>5, <3>6
    <2> HIDE DEF longest, R, Leads
    <2>4. QED
      BY <2>1, <2>2, <2>3 DEF Strict
  <1>5. First(longest, R) \in longest
    <2> HIDE DEF longest, R
    <2>1. QED
      BY <1>2, <1>3, <1>4, FirstIs
  <1>6. Moved(pairs) = pairs \ First(longest, R)
    BY DEF Moved
  <1> HIDE DEF R
  <1>7. Run(First(longest, R)) /\ First(longest, R) \subseteq pairs
    BY <1>5
  <1> DEFINE kept == First(longest, R)
  <1> HIDE DEF kept, longest, runs
  <1>8. pairs \ Moved(pairs) = kept /\ Run(kept)
    BY <1>6, <1>7 DEF kept
  <1>9. QED
    BY <1>6, <1>8 DEF InOrderOfNews

(* How many of the numbers a set is numbered with are less than one.       *)
Numbered(Q, n, f, i) ==
  /\ n \in Nat /\ f \in [Q -> 1 .. n] /\ i \in 1 .. n
  /\ \A p, q \in Q : f[p] = f[q] => p = q
  /\ \A j \in 1 .. n : j < i => \E q \in Q : f[q] = j

Below(Q, f, i) == {q \in Q : f[q] < i}

(* Below the i-th of some numbered things there are i - 1 of them.         *)
LEMMA CountBelow ==
    ASSUME NEW Q, NEW n, NEW f, NEW i, Numbered(Q, n, f, i)
    PROVE  IsFiniteSet(Below(Q, f, i)) /\ Cardinality(Below(Q, f, i)) = i - 1
  <1> USE DEF Numbered
  <1> DEFINE below == {q \in Q : f[q] < i}
             g == [j \in 1 .. i - 1 |-> CHOOSE q \in Q : f[q] = j]
  <1>1. \A j \in 1 .. i - 1 : g[j] \in Q /\ f[g[j]] = j
    OBVIOUS
  <1>2. g \in [1 .. i - 1 -> below]
    BY <1>1
  <1>3. \A j, k \in 1 .. i - 1 : g[j] = g[k] => j = k
    BY <1>1
  <1>4. \A q \in below : \E j \in 1 .. i - 1 : g[j] = q
    <2>1. SUFFICES ASSUME NEW q \in below PROVE g[f[q]] = q /\ f[q] \in 1 .. i - 1
      OBVIOUS
    <2>2. f[q] \in 1 .. i - 1
      OBVIOUS
    <2>3. g[f[q]] \in Q /\ f[g[f[q]]] = f[q]
      BY <1>1, <2>2
    <2>4. QED
      BY <2>2, <2>3
  <1> HIDE DEF g, below
  <1>5. g \in Bijection(1 .. i - 1, below)
    BY <1>2, <1>3, <1>4 DEF Bijection, Injection, Surjection, IsInjective
  <1>6. IsFiniteSet(1 .. i - 1) /\ Cardinality(1 .. i - 1) = i - 1
    BY FS_Interval
  <1>7. IsFiniteSet(below) /\ Cardinality(below) = i - 1
    BY <1>5, <1>6, FS_Bijection DEF ExistsBijection
  <1>8. QED
    BY <1>7 DEF below, Below

(* Rows paired off completely and in order are paired index by index.      *)
LEMMA PairedInStep ==
    ASSUME NEW pairs, Couples(pairs), InOrderOfNews(pairs), NEW n \in Nat, NEW m \in Nat,
           \A p \in pairs : p.old \in 1 .. n /\ p.new \in 1 .. m,
           \A i \in 1 .. n : \E p \in pairs : p.old = i,
           \A j \in 1 .. m : \E p \in pairs : p.new = j
    PROVE  n = m /\ \A p \in pairs : p.old = p.new
  <1> DEFINE f == [p \in pairs |-> p.old]
             g == [p \in pairs |-> p.new]
  <1>1. ASSUME NEW p \in pairs PROVE p.old = p.new
    <2>1. /\ f \in [pairs -> 1 .. n] /\ g \in [pairs -> 1 .. m]
          /\ \A q, r \in pairs : (f[q] = f[r] => q = r) /\ (g[q] = g[r] => q = r)
      BY DEF Couples
    <2>2. f[p] \in 1 .. n /\ g[p] \in 1 .. m
      BY <2>1
    <2>3. Numbered(pairs, n, f, f[p]) /\ Numbered(pairs, m, g, g[p])
      BY <2>1, <2>2 DEF Numbered
    <2>4. Below(pairs, f, f[p]) = Below(pairs, g, g[p])
      <3>1. ASSUME NEW q \in pairs PROVE q.old < p.old <=> q.new < p.new
        BY DEF InOrderOfNews, Couples
      <3>2. QED
        BY <3>1 DEF Below
    <2> HIDE DEF f, g
    <2>5. Cardinality(Below(pairs, f, f[p])) = f[p] - 1 /\ Cardinality(Below(pairs, g, g[p])) = g[p] - 1
      BY <2>3, CountBelow
    <2>6. f[p] - 1 = g[p] - 1
      BY <2>4, <2>5
    <2>7. f[p] = g[p]
      BY <2>2, <2>6
    <2>8. QED
      BY <2>7 DEF f, g
  <1>2. n = m
    BY <1>1
  <1>3. QED
    BY <1>1, <1>2

(* Where no two views share a path, a key names one view.                  *)
LEMMA KeyNamesOne ==
    ASSUME NEW config \in Configs, ~PathsCollide(config), NEW v \in DOMAIN config.views
    PROVE  /\ Key(config, v) \in Keys(config)
           /\ \A w \in DOMAIN config.views : Key(config, w) = Key(config, v) => w = v
           /\ Index(config, Key(config, v)) = v
           /\ View(config, Key(config, v)) = config.views[v]
           /\ config.views[v].path = Key(config, v)[1]
  <1>1. \A w \in DOMAIN config.views : Key(config, w) = Key(config, v) => w = v
    BY DEF Key, PathsCollide
  <1>2. Index(config, Key(config, v)) = v
    <2>1. \A w \in DOMAIN config.views : w > v => Key(config, w) # Key(config, v)
      BY <1>1, ViewsAre
    <2>2. QED
      BY <1>1, <2>1 DEF Index
  <1>3. QED
    BY <1>1, <1>2 DEF View, Keys, Key

(* Pairs that were claimed in place hold cards alike.                      *)
AlikeInPlace(m, sections) ==
  \A p \in m.inPlace : Translated(p[1], sections) = Place(p[2]) /\ p[1].card = p[2].card

(* What is in place says the same at the same place of both states.        *)
LEMMA InPlaceAlike ==
    ASSUME NEW one \in Configs, NEW other \in Configs, NEW kind, NEW sections
    PROVE  AlikeInPlace(Matching(one, other, kind, sections), sections)
  <1> DEFINE m0 == Unclaimed(one, other, kind)
             m1 == ClaimInPlace(m0, sections)
             m2 == ClaimDisplaced(m1, sections)
             m3 == ClaimEdited(m2, sections)
             m4 == ClaimRenamed(m3, sections)
  <1> DEFINE Whole(m) == "inPlace" \in DOMAIN m
  <1>1. \A m, how, pairs :
          /\ DOMAIN Claimed(m, how, pairs) = DOMAIN m
          /\ Whole(m) /\ how # "inPlace" => Claimed(m, how, pairs).inPlace = m.inPlace
    BY DEF Claimed
  <1>2. Whole(m1)
    <2>1. Whole(m0)
      BY DEF Unclaimed
    <2> HIDE DEF m0
    <2>2. DOMAIN m1 = DOMAIN m0
      BY DEF ClaimInPlace, Claimed
    <2>3. QED
      BY <2>1, <2>2
  <1> HIDE DEF m1
  <1>3. Whole(m2) /\ m2.inPlace = m1.inPlace
    BY <1>1, <1>2 DEF ClaimDisplaced
  <1> HIDE DEF m2
  <1>4. Whole(m3) /\ m3.inPlace = m2.inPlace
    BY <1>1, <1>3 DEF ClaimEdited
  <1> HIDE DEF m3
  <1>5. Whole(m4) /\ m4.inPlace = m3.inPlace
    BY <1>1, <1>4 DEF ClaimRenamed
  <1> HIDE DEF m4
  <1>6. ClaimSwapped(m4, kind, sections).inPlace = m4.inPlace
    BY <1>1, <1>5 DEF ClaimSwapped
  <1>7. AlikeInPlace(m1, sections)
    BY DEF AlikeInPlace, ClaimInPlace, Claimed, Unclaimed, Aligned, m1
  <1>8. ClaimSwapped(m4, kind, sections) = Matching(one, other, kind, sections)
    BY DEF Matching, m4, m3, m2, m1, m0
  <1>9. QED
    BY <1>3, <1>4, <1>5, <1>6, <1>7, <1>8 DEF AlikeInPlace

(* What two dashboards with nothing to say about their cards, or badges,   *)
(* have come to.                                                           *)
Undisturbed(one, other, kind, m) ==
  /\ one \in Configs /\ ~PathsCollide(one)
  /\ other \in Configs /\ ~PathsCollide(other)
  /\ Keys(one) = Keys(other)
  /\ Matched(m, Slots(one, Keys(one), kind), Slots(other, Keys(one), kind))
  /\ m.old = {} /\ m.new = {} /\ m.changed = {} /\ m.displaced = {}
  /\ Reordered(m) = {}
  /\ \A p \in m.inPlace : Place(p[1]) = Place(p[2]) /\ p[1].card = p[2].card

(* The list at one place.                                                  *)
ListAt(config, kind, key, l) == Lists(View(config, key), kind)[l]

(* The slots of one list are told apart by their index.                    *)
LEMMA SlotsOfList ==
    ASSUME NEW config \in Configs, ~PathsCollide(config), NEW kind, NEW key \in Keys(config), NEW l,
           l \in DOMAIN Lists(View(config, key), kind)
    PROVE  /\ ListAt(config, kind, key, l) \in Seq(Cards)
           /\ \A s \in Slots(config, Keys(config), kind) :
                Place(s) = <<key, l>> =>
                  /\ s.index \in 1 .. Len(ListAt(config, kind, key, l))
                  /\ s.card = ListAt(config, kind, key, l)[s.index]
           /\ \A s, t \in Slots(config, Keys(config), kind) :
                Place(s) = <<key, l>> /\ Place(t) = <<key, l>> /\ s.index = t.index => s = t
           /\ \A i \in 1 .. Len(ListAt(config, kind, key, l)) :
                \E s \in Slots(config, Keys(config), kind) :
                  /\ Place(s) = <<key, l>> /\ s.index = i
                  /\ s.card = ListAt(config, kind, key, l)[i]
  <1>1. PICK v \in DOMAIN config.views : key = Key(config, v)
    BY DEF Keys
  <1>2. /\ \A w \in DOMAIN config.views : Key(config, w) = key => w = v
        /\ View(config, key) = config.views[v] /\ config.views[v] \in Views
    BY <1>1, KeyNamesOne, ViewsAre
  <1>3. ListAt(config, kind, key, l) \in Seq(Cards)
    BY <1>2, ListsType DEF ListAt
  <1>4. DOMAIN ListAt(config, kind, key, l) = 1 .. Len(ListAt(config, kind, key, l))
    BY <1>3, RowFinite
  <1>5. ASSUME NEW s \in Slots(config, Keys(config), kind), Place(s) = <<key, l>>
        PROVE  /\ s.at = v /\ s.list = l /\ s.index \in 1 .. Len(ListAt(config, kind, key, l))
               /\ s.card = ListAt(config, kind, key, l)[s.index]
    <2>1. s.key = key /\ s.list = l
      BY <1>5 DEF Place
    <2>2. s.at = v
      BY <1>2, <2>1, SlotIs DEF IsPlace
    <2>3. QED
      BY <1>2, <1>4, <2>1, <2>2, SlotIs DEF IsPlace, ListAt
  <1>6. ASSUME NEW i \in 1 .. Len(ListAt(config, kind, key, l))
        PROVE  \E s \in Slots(config, Keys(config), kind) :
                  /\ Place(s) = <<key, l>> /\ s.index = i
                  /\ s.card = ListAt(config, kind, key, l)[i]
    <2>1. IsPlace(config, kind, v, l, i)
      BY <1>2, <1>4 DEF IsPlace, ListAt
    <2>2. SlotAt(config, kind, v, l, i) \in Slots(config, Keys(config), kind)
      BY <1>1, <2>1, PlaceIsSlot
    <2>3. /\ Place(SlotAt(config, kind, v, l, i)) = <<key, l>>
          /\ SlotAt(config, kind, v, l, i).index = i
          /\ SlotAt(config, kind, v, l, i).card = ListAt(config, kind, key, l)[i]
      BY <1>1, <1>2 DEF SlotAt, Place, ListAt
    <2>4. QED
      BY <2>2, <2>3
  <1>7. \A s, t \in Slots(config, Keys(config), kind) :
          Place(s) = <<key, l>> /\ Place(t) = <<key, l>> /\ s.index = t.index => s = t
    BY <1>5, SlotsDiffer
  <1>8. QED
    BY <1>3, <1>5, <1>6, <1>7

(* Such lists are the same.                                                *)
LEMMA ListsTheSame ==
    ASSUME NEW one, NEW other, NEW kind, NEW m, Undisturbed(one, other, kind, m),
           NEW key \in Keys(one), NEW l,
           l \in DOMAIN Lists(View(one, key), kind),
           l \in DOMAIN Lists(View(other, key), kind)
    PROVE  ListAt(one, kind, key, l) = ListAt(other, kind, key, l)
  <1> DEFINE olds == Slots(one, Keys(one), kind)
             news == Slots(other, Keys(one), kind)
             was == ListAt(one, kind, key, l)
             is == ListAt(other, kind, key, l)
             Q == {q \in m.inPlace : Place(q[2]) = <<key, l>>}
             f == [q \in Q |-> q[1].index]
             g == [q \in Q |-> q[2].index]
  <1>1. /\ was \in Seq(Cards)
        /\ \A s \in olds : Place(s) = <<key, l>> =>
             s.index \in 1 .. Len(was) /\ s.card = was[s.index]
        /\ \A s, t \in olds :
             Place(s) = <<key, l>> /\ Place(t) = <<key, l>> /\ s.index = t.index => s = t
        /\ \A i \in 1 .. Len(was) : \E s \in olds :
             Place(s) = <<key, l>> /\ s.index = i /\ s.card = was[i]
    <2> HIDE DEF was
    <2>1. one \in Configs /\ ~PathsCollide(one)
      BY DEF Undisturbed
    <2>2. QED
      BY <2>1, SlotsOfList DEF was
  <1>2. /\ is \in Seq(Cards)
        /\ \A s \in news : Place(s) = <<key, l>> =>
             s.index \in 1 .. Len(is) /\ s.card = is[s.index]
        /\ \A s, t \in news :
             Place(s) = <<key, l>> /\ Place(t) = <<key, l>> /\ s.index = t.index => s = t
        /\ \A i \in 1 .. Len(is) : \E s \in news :
             Place(s) = <<key, l>> /\ s.index = i /\ s.card = is[i]
    <2> HIDE DEF is
    <2>1. other \in Configs /\ ~PathsCollide(other) /\ Keys(one) = Keys(other)
      BY DEF Undisturbed
    <2>2. QED
      BY <2>1, SlotsOfList DEF is
  <1> HIDE DEF was, is
  <1>3. /\ PairsOf(m) = m.inPlace /\ OneToOne(m.inPlace)
        /\ m.inPlace \subseteq olds \X news
        /\ olds = Olds(m.inPlace) /\ news = News(m.inPlace)
    <2>1. PairsOf(m) = m.inPlace
      BY DEF Undisturbed, PairsOf
    <2>2. Matched(m, olds, news) /\ m.old = {} /\ m.new = {}
      BY DEF Undisturbed
    <2> HIDE DEF olds, news
    <2>3. m.inPlace \subseteq olds \X news
      BY <2>2 DEF Matched, Matchings
    <2>4. Olds(m.inPlace) \subseteq olds /\ News(m.inPlace) \subseteq news
      BY <2>3 DEF Olds, News
    <2>5. QED
      BY <2>1, <2>2, <2>3, <2>4 DEF Matched
  <1>4. \A p \in m.inPlace : Place(p[1]) = Place(p[2]) /\ p[1].card = p[2].card
    BY DEF Undisturbed
  <1> HIDE DEF olds, news
  <1>5. \A q \in Q : /\ q \in m.inPlace /\ q[1] \in olds /\ q[2] \in news
                     /\ Place(q[1]) = <<key, l>> /\ Place(q[2]) = <<key, l>>
    BY <1>3, <1>4
  <1>6. /\ f \in [Q -> 1 .. Len(was)] /\ g \in [Q -> 1 .. Len(is)]
        /\ Len(was) \in Nat /\ Len(is) \in Nat
    BY <1>1, <1>2, <1>5, LenProperties
  <1>7. \A p, q \in Q : (f[p] = f[q] => p = q) /\ (g[p] = g[q] => p = q)
    <2>1. SUFFICES ASSUME NEW p \in Q, NEW q \in Q
                   PROVE  (f[p] = f[q] => p = q) /\ (g[p] = g[q] => p = q)
      OBVIOUS
    <2>2. p = <<p[1], p[2]>> /\ q = <<q[1], q[2]>>
      BY <1>3, <1>5
    <2>3. p[1] = q[1] <=> p[2] = q[2]
      BY <1>3, <1>5 DEF OneToOne
    <2>4. f[p] = p[1].index /\ f[q] = q[1].index /\ g[p] = p[2].index /\ g[q] = q[2].index
      OBVIOUS
    <2> HIDE DEF f, g
    <2>5. QED
      BY <1>1, <1>2, <1>5, <2>2, <2>3, <2>4
  <1>8. \A i \in 1 .. Len(was) : \E q \in Q : f[q] = i
    BY <1>1, <1>3, <1>4 DEF Olds
  <1>9. \A i \in 1 .. Len(is) : \E q \in Q : g[q] = i
    BY <1>2, <1>3 DEF News
  <1>10. ASSUME NEW p \in Q PROVE f[p] = g[p]
    <2>1. Numbered(Q, Len(was), f, f[p]) /\ Numbered(Q, Len(is), g, g[p])
      <3> HIDE DEF f, g, Q
      <3>1. QED
        BY <1>6, <1>7, <1>8, <1>9, <1>10 DEF Numbered
    <2>2. Cardinality({q \in Q : q[1].index < p[1].index})
            = Cardinality({q \in Q : q[2].index < p[2].index})
      <3>1. {q \in m.inPlace \cup m.changed : Place(q[2]) = Place(p[2])} = Q
        BY <1>5, <1>10 DEF Undisturbed
      <3>2. Reordered(m) = {} /\ p \in m.inPlace
        BY <1>5, <1>10 DEF Undisturbed
      <3> HIDE DEF Q
      <3>3. QED
        BY <3>1, <3>2 DEF Reordered
    <2>3. /\ Below(Q, f, f[p]) = {q \in Q : q[1].index < p[1].index}
          /\ Below(Q, g, g[p]) = {q \in Q : q[2].index < p[2].index}
      BY <1>10 DEF Below
    <2>4. f[p] \in 1 .. Len(was) /\ g[p] \in 1 .. Len(is)
      BY <1>6, <1>10
    <2> HIDE DEF f, g, Q
    <2>5. Cardinality(Below(Q, f, f[p])) = f[p] - 1 /\ Cardinality(Below(Q, g, g[p])) = g[p] - 1
      BY <2>1, CountBelow
    <2>6. QED
      BY <2>2, <2>3, <2>4, <2>5
  <1>11. \A i \in 1 .. Len(was) : i \in 1 .. Len(is) /\ was[i] = is[i]
    <2>1. SUFFICES ASSUME NEW i \in 1 .. Len(was) PROVE i \in 1 .. Len(is) /\ was[i] = is[i]
      OBVIOUS
    <2>2. PICK q \in Q : f[q] = i
      BY <1>8
    <2>3. q[1].index = i /\ q[2].index = i
      BY <1>10, <2>2
    <2>4. QED
      BY <1>1, <1>2, <1>4, <1>5, <2>3
  <1>12. \A i \in 1 .. Len(is) : i \in 1 .. Len(was)
    <2>1. SUFFICES ASSUME NEW i \in 1 .. Len(is) PROVE i \in 1 .. Len(was)
      OBVIOUS
    <2>2. PICK q \in Q : g[q] = i
      BY <1>9
    <2>3. f[q] = i /\ f[q] \in 1 .. Len(was)
      BY <1>6, <1>10, <2>2
    <2>4. QED
      BY <2>3
  <1>13. Len(was) = Len(is)
    BY <1>6, <1>11, <1>12
  <1>14. was = is
    BY <1>1, <1>2, <1>11, <1>13, SeqEqual
  <1>15. QED
    BY <1>14 DEF was, is

(* How the sections of one view in two states are paired.                  *)
PairedSections(old, new, pairs) ==
  /\ Couples(pairs) /\ IsFiniteSet(pairs)
  /\ \A p \in pairs :
       /\ p.old \in 1 .. Len(old) /\ p.new \in 1 .. Len(new)
       /\ p.how \in {"same", "settings", "cards"}
       /\ p.how # "settings" => old[p.old].own = new[p.new].own

(* Two rows of sections are paired one to one.                             *)
LEMMA SectionsPaired ==
    ASSUME NEW old \in Seq(Sections), NEW new \in Seq(Sections)
    PROVE  PairedSections(old, new, PairViewSections(old, new))
  <1> DEFINE D == DOMAIN old
             E == DOMAIN new
             same == {<<i, i>> : i \in {j \in D \cap E : old[j] = new[j]}}
             olds == D \ Olds(same)
             news == E \ News(same)
             R == {p \in olds \X olds : p[1] < p[2]}
             B == {p \in news \X news : p[1] < p[2]}
             found == Ranked(olds, news, old, new, R, B)
             claimed == same \cup found
             open == (D \ Olds(claimed)) \cap (E \ News(claimed))
             settings == {i \in open : old[i].cards = new[i].cards /\ old[i].own # new[i].own}
             cards == {i \in open : old[i].own = new[i].own /\ old[i].cards # new[i].cards}
             S == {[old |-> p[1], new |-> p[2], how |-> "same"] : p \in claimed}
             T == {[old |-> i, new |-> i, how |-> "settings"] : i \in settings}
             C == {[old |-> i, new |-> i, how |-> "cards"] : i \in cards}
  <1>1. /\ Len(old) \in Nat /\ Len(new) \in Nat /\ D = 1 .. Len(old) /\ E = 1 .. Len(new)
        /\ IsFiniteSet(D) /\ IsFiniteSet(E)
    BY RowFinite
  <1>2. PairViewSections(old, new) = S \cup T \cup C
    <2>1. \A o \in olds : {z \in olds : old[z] = old[o] /\ <<z, o>> \in R} = {z \in olds : old[z] = old[o] /\ z < o}
      OBVIOUS
    <2>2. \A n \in news : {z \in news : new[z] = new[n] /\ <<z, n>> \in B} = {z \in news : new[z] = new[n] /\ z < n}
      OBVIOUS
    <2>3. found = Aligned(olds, news, LAMBDA i : old[i], LAMBDA j : new[j], <, <)
      BY <2>1, <2>2 DEF Ranked, Aligned
    <2>4. QED
      BY <2>3 DEF PairViewSections
  <1> HIDE DEF D, E
  <1>3. OneToOne(found)
    <2>1. IsFiniteSet(olds) /\ IsFiniteSet(news)
      BY <1>1, FS_Subset
    <2>2. Total(olds, R) /\ Total(news, B)
      <3>1. olds \subseteq Nat /\ news \subseteq Nat
        BY <1>1
      <3> HIDE DEF olds, news
      <3>2. QED
        BY <3>1 DEF Total, Strict
    <2> HIDE DEF olds, news, R, B
    <2>3. QED
      BY <2>1, <2>2, RankedOneToOne
  <1>4. /\ found \in SUBSET (olds \X news)
        /\ \A p \in found : old[p[1]] = new[p[2]]
    BY DEF Ranked
  <1> HIDE DEF found, R, B
  <1>5. /\ claimed \in SUBSET (D \X E) /\ OneToOne(claimed)
        /\ \A p \in claimed : old[p[1]] = new[p[2]]
    <2>1. same \in SUBSET (D \X E) /\ OneToOne(same) /\ \A p \in same : old[p[1]] = new[p[2]]
      BY DEF OneToOne
    <2>2. \A p \in found : /\ p \in D \X E
                           /\ \A q \in same : p[1] # q[1] /\ p[2] # q[2]
      BY <1>4 DEF Olds, News
    <2> HIDE DEF same, olds, news
    <2>3. QED
      BY <1>3, <1>4, <2>1, <2>2 DEF OneToOne
  <1>6. IsFiniteSet(claimed)
    <2> HIDE DEF claimed
    <2>1. QED
      BY <1>1, <1>5, AsMany
  <1> HIDE DEF claimed, same, olds, news
  <1>7. IsFiniteSet(S) /\ IsFiniteSet(T) /\ IsFiniteSet(C)
    <2>1. IsFiniteSet(settings) /\ IsFiniteSet(cards)
      <3>1. settings \in SUBSET D /\ cards \in SUBSET D
        OBVIOUS
      <3> HIDE DEF settings, cards
      <3>2. QED
        BY <1>1, <3>1, FS_Subset
    <2>2. /\ [p \in claimed |-> [old |-> p[1], new |-> p[2], how |-> "same"]] \in Surjection(claimed, S)
          /\ [i \in settings |-> [old |-> i, new |-> i, how |-> "settings"]] \in Surjection(settings, T)
          /\ [i \in cards |-> [old |-> i, new |-> i, how |-> "cards"]] \in Surjection(cards, C)
      <3> HIDE DEF settings, cards
      <3>1. QED
        BY DEF Surjection
    <2> HIDE DEF S, T, C, settings, cards
    <2>3. QED
      BY <1>6, <2>1, <2>2, FS_Surjection
  <1> DEFINE pairs == S \cup T \cup C
  <1>8. IsFiniteSet(pairs)
    <2> HIDE DEF S, T, C
    <2>1. QED
      BY <1>7, FS_Union
  <1>9. \A p \in S : /\ <<p.old, p.new>> \in claimed /\ p.how = "same"
                     /\ p = [old |-> p.old, new |-> p.new, how |-> "same"]
    <2>1. \A p \in claimed : p = <<p[1], p[2]>>
      BY <1>5
    <2>2. SUFFICES ASSUME NEW p \in claimed, NEW s, s = [old |-> p[1], new |-> p[2], how |-> "same"]
                   PROVE  /\ <<s.old, s.new>> \in claimed /\ s.how = "same"
                          /\ s = [old |-> s.old, new |-> s.new, how |-> "same"]
      OBVIOUS
    <2>3. s.old = p[1] /\ s.new = p[2] /\ s.how = "same"
      BY <2>2
    <2>4. QED
      BY <2>1, <2>2, <2>3
  <1>10. \A p \in T \cup C : /\ p.old = p.new /\ p.old \in open
                             /\ p.how = IF p.old \in settings THEN "settings" ELSE "cards"
                             /\ p = [old |-> p.old, new |-> p.old, how |-> p.how]
                             /\ p.how # "settings" => old[p.old].own = new[p.old].own
    OBVIOUS
  <1>11. \A p \in S : \A q \in T \cup C : p.old # q.old /\ p.new # q.new
    <2>1. \A p \in claimed : p[1] \notin open /\ p[2] \notin open
      BY DEF Olds, News
    <2> HIDE DEF S, T, C, open
    <2>2. QED
      BY <1>9, <1>10, <2>1
  <1>12. \A p \in S : /\ p.old \in D /\ p.new \in E /\ p.how = "same"
                      /\ old[p.old] = new[p.new]
    <2> HIDE DEF S
    <2>1. QED
      BY <1>5, <1>9
  <1>13. \A p, q \in S : p.old = q.old <=> p.new = q.new
    <2> HIDE DEF S
    <2>1. QED
      BY <1>5, <1>9 DEF OneToOne
  <1>14. open \subseteq D /\ open \subseteq E
    OBVIOUS
  <1> HIDE DEF S, T, C, open, settings, cards
  <1>15. \A p, q \in pairs : (p.old = q.old => p = q) /\ (p.new = q.new => p = q)
    <2>1. SUFFICES ASSUME NEW p \in pairs, NEW q \in pairs
                   PROVE  (p.old = q.old => p = q) /\ (p.new = q.new => p = q)
      OBVIOUS
    <2>2. CASE p \in S /\ q \in S
      BY <1>9, <1>13, <2>2
    <2>3. CASE p \in T \cup C /\ q \in T \cup C
      BY <1>10, <2>3
    <2>4. CASE ~(p \in S <=> q \in S) \/ ~(p \in T \cup C <=> q \in T \cup C)
      BY <1>11, <2>4
    <2>5. QED
      BY <2>2, <2>3, <2>4
  <1>16. \A p \in pairs : /\ p.old \in D /\ p.new \in E
                          /\ p.how \in {"same", "settings", "cards"}
                          /\ p.how # "settings" => old[p.old].own = new[p.new].own
    BY <1>10, <1>12, <1>14
  <1>17. Couples(pairs)
    <2> HIDE DEF pairs
    <2>1. \A p \in pairs : p.old \in Nat /\ p.new \in Nat
      BY <1>1, <1>16
    <2>2. QED
      BY <1>15, <2>1 DEF Couples
  <1> HIDE DEF pairs
  <1>18. QED
    BY <1>1, <1>2, <1>8, <1>16, <1>17 DEF PairedSections, pairs

(* The view with this key.                                                 *)
LEMMA ViewNamed ==
    ASSUME NEW config \in Configs, ~PathsCollide(config), NEW key \in Keys(config)
    PROVE  /\ View(config, key) \in Views /\ View(config, key).path = key[1]
           /\ Index(config, key) \in DOMAIN config.views
           /\ Key(config, Index(config, key)) = key
  <1>1. PICK v \in DOMAIN config.views : Key(config, v) = key
    BY DEF Keys
  <1>2. /\ Index(config, Key(config, v)) = v
        /\ View(config, Key(config, v)) = config.views[v]
        /\ config.views[v].path = Key(config, v)[1]
    BY KeyNamesOne
  <1>3. config.views[v] \in Views
    BY ViewsAre
  <1>4. QED
    BY <1>1, <1>2, <1>3

(* Sections with nothing to say about them are as many, each in its place  *)
(* and with its settings.                                                  *)
LEMMA SectionsInStep ==
    ASSUME NEW old \in Seq(Sections), NEW new \in Seq(Sections), NEW pairs,
           PairedSections(old, new, pairs),
           Moved(pairs) = {}, {p \in pairs : p.how = "settings"} = {},
           DOMAIN old \ {p.old : p \in pairs} = {}, DOMAIN new \ {p.new : p \in pairs} = {}
    PROVE  /\ Len(old) = Len(new)
           /\ \A p \in pairs : p.old = p.new
           /\ \A i \in DOMAIN old : \E p \in pairs : p.old = i
           /\ \A i \in DOMAIN old : old[i].own = new[i].own
  <1>1. /\ Len(old) \in Nat /\ DOMAIN old = 1 .. Len(old)
        /\ Len(new) \in Nat /\ DOMAIN new = 1 .. Len(new)
    BY RowFinite
  <1>2. Couples(pairs) /\ IsFiniteSet(pairs)
    BY DEF PairedSections
  <1>3. InOrderOfNews(pairs)
    <2>1. pairs \ Moved(pairs) = pairs
      OBVIOUS
    <2>2. QED
      BY <1>2, <2>1, UnmovedInOrder
  <1>4. \A p \in pairs : p.old \in 1 .. Len(old) /\ p.new \in 1 .. Len(new)
    BY DEF PairedSections
  <1>5. /\ \A i \in 1 .. Len(old) : \E p \in pairs : p.old = i
        /\ \A j \in 1 .. Len(new) : \E p \in pairs : p.new = j
    BY <1>1
  <1>6. Len(old) = Len(new) /\ \A p \in pairs : p.old = p.new
    BY <1>1, <1>2, <1>3, <1>4, <1>5, PairedInStep
  <1>7. \A i \in DOMAIN old : old[i].own = new[i].own
    BY <1>1, <1>5, <1>6 DEF PairedSections
  <1>8. QED
    BY <1>1, <1>5, <1>6, <1>7

(* Nothing was said about two dashboards whose views each have a path, or a *)
(* place, of their own.                                                     *)
Unsaid(one, other) ==
  /\ one \in Configs /\ ~PathsCollide(one)
  /\ other \in Configs /\ ~PathsCollide(other)
  /\ ~Seen(one, other)

(* Two states without anything between them have the same views by         *)
(* key, with the same titles and layouts.                                  *)
LEMMA UnsaidIs ==
    ASSUME NEW one, NEW other, Unsaid(one, other)
    PROVE  /\ Keys(one) = Keys(other) /\ ComparedViews(one, other) = Keys(one)
           /\ one.title = other.title
           /\ \A key \in Keys(one) : View(one, key).title = View(other, key).title
           /\ \A key \in Keys(one) : View(one, key).layout = View(other, key).layout
  <1>1. /\ Keys(one) = Keys(other) /\ SettingChanges(one, other) = {}
        /\ ~ViewTypeChanged(one, other)
    BY DEF Unsaid, Seen
  <1>2. \A key \in Keys(one) : View(one, key).layout = View(other, key).layout
    BY <1>1 DEF ViewTypeChanged
  <1>3. ComparedViews(one, other) = Keys(one)
    BY <1>1, <1>2 DEF ComparedViews
  <1>4. one.title = other.title
    <2> DEFINE c == [key |-> <<None, 0>>, was |-> one.title, is |-> other.title]
    <2>1. c \notin SettingChanges(one, other)
      BY <1>1
    <2>2. QED
      BY <2>1 DEF SettingChanges
  <1>5. ASSUME NEW key \in Keys(one) PROVE View(one, key).title = View(other, key).title
    <2> DEFINE c == [key |-> key, was |-> View(one, key).title, is |-> View(other, key).title]
    <2>1. c \notin SettingChanges(one, other)
      BY <1>1
    <2>2. key \in Keys(one) \cap Keys(other)
      BY <1>1, <1>5
    <2>3. QED
      BY <2>1, <2>2 DEF SettingChanges
  <1>6. QED
    BY <1>1, <1>2, <1>3, <1>4, <1>5

(* Its sections then stand in step.                                        *)
LEMMA UnsaidSections ==
    ASSUME NEW one, NEW other, Unsaid(one, other), NEW key \in Keys(one)
    PROVE  LET was == View(one, key).sections
               is == View(other, key).sections
               pairs == PairSections(one, other)[key]
           IN  /\ was \in Seq(Sections) /\ is \in Seq(Sections) /\ Len(was) = Len(is)
               /\ key \in DOMAIN PairSections(one, other)
               /\ \A p \in pairs : p.old = p.new
               /\ \A i \in DOMAIN was : \E p \in pairs : p.old = i
               /\ \A i \in DOMAIN was : was[i].own = is[i].own
  <1> DEFINE was == View(one, key).sections
             is == View(other, key).sections
             all == PairSections(one, other)
             pairs == all[key]
             cards == MatchSlots(one, other, "card", all)
             settled == SettleSections(one, other, all, cards)
  <1>1. key \in Keys(other) /\ key \in DOMAIN all /\ pairs = PairViewSections(was, is)
    BY UnsaidIs DEF PairSections
  <1>2. was \in Seq(Sections) /\ is \in Seq(Sections)
    <2>1. one \in Configs /\ ~PathsCollide(one) /\ other \in Configs /\ ~PathsCollide(other)
      BY DEF Unsaid
    <2>2. View(one, key) \in Views /\ View(other, key) \in Views
      BY <1>1, <2>1, ViewNamed
    <2>3. QED
      BY <2>2, ViewIs
  <1>3. PairedSections(was, is, pairs)
    BY <1>1, <1>2, SectionsPaired
  <1>4. /\ settled[key].moved = {} /\ settled[key].reset = {}
        /\ settled[key].removed = {} /\ settled[key].added = {}
        /\ settled[key].restOld = {} /\ settled[key].restNew = {}
    <2>1. ~SectionEvents(MatchCards(one, other))
      BY DEF Unsaid, Seen
    <2>2. MatchCards(one, other).sections = settled
      BY DEF MatchCards
    <2>3. key \in DOMAIN settled
      BY <1>1 DEF SettleSections
    <2> HIDE DEF settled
    <2>4. QED
      BY <2>1, <2>2, <2>3 DEF SectionEvents
  <1>5. /\ settled[key].moved = Moved(pairs)
        /\ settled[key].reset = {p \in pairs : p.how = "settings"}
        /\ settled[key].restOld = (DOMAIN was \ {p.old : p \in pairs}) \ settled[key].removed
        /\ settled[key].restNew = (DOMAIN is \ {p.new : p \in pairs}) \ settled[key].added
    <2> HIDE DEF cards, all
    <2>1. QED
      BY <1>1 DEF SettleSections
  <1> HIDE DEF all, settled, was, is, cards
  <1>6. /\ Moved(pairs) = {} /\ {p \in pairs : p.how = "settings"} = {}
        /\ DOMAIN was \ {p.old : p \in pairs} = {} /\ DOMAIN is \ {p.new : p \in pairs} = {}
    BY <1>4, <1>5
  <1> HIDE DEF pairs
  <1>7. /\ Len(was) = Len(is)
        /\ \A p \in pairs : p.old = p.new
        /\ \A i \in DOMAIN was : \E p \in pairs : p.old = i
        /\ \A i \in DOMAIN was : was[i].own = is[i].own
    BY <1>2, <1>3, <1>6, SectionsInStep
  <1>8. QED
    BY <1>1, <1>2, <1>7 DEF was, is, all, pairs

(* What is followed through such sections stands where it stood.           *)
LEMMA UnsaidTranslated ==
    ASSUME NEW one, NEW other, Unsaid(one, other),
           NEW s, s.key \in Keys(one)
    PROVE  Translated(s, PairSections(one, other)) = Place(s)
  <1> DEFINE pairs == PairSections(one, other)[s.key]
  <1>1. \A p \in pairs : p.old = p.new
    BY UnsaidSections
  <1>2. (\E p \in pairs : p.old = s.list) => (CHOOSE p \in pairs : p.old = s.list).new = s.list
    BY <1>1
  <1> HIDE DEF pairs
  <1>3. QED
    BY <1>2 DEF Translated, Paired, Place, pairs

(* None of their items is edited, moved, gone or come.                     *)
LEMMA UnsaidMatching ==
    ASSUME NEW one, NEW other, Unsaid(one, other), NEW kind, NEW sections,
           ~Events(MatchSlots(one, other, kind, sections)),
           \A s \in Slots(one, Keys(one), kind) : Translated(s, sections) = Place(s)
    PROVE  Undisturbed(one, other, kind, Matching(one, other, kind, sections))
  <1> DEFINE m == Matching(one, other, kind, sections)
             match == MatchSlots(one, other, kind, sections)
  <1>1. one \in Configs /\ other \in Configs /\ ~PathsCollide(one) /\ ~PathsCollide(other)
    BY DEF Unsaid
  <1>2. Keys(one) = Keys(other) /\ Keys(one) \cap Keys(other) = Keys(one)
    BY UnsaidIs
  <1>3. match = Outcome(m) /\ Matched(m, Slots(one, Keys(one), kind), Slots(other, Keys(one), kind))
    BY <1>1, <1>2, MatchingIs
  <1>4. AlikeInPlace(m, sections)
    BY <1>1, InPlaceAlike
  <1> HIDE DEF m
  <1>5. m.old = {} /\ m.new = {} /\ m.changed = {} /\ m.displaced = {} /\ Reordered(m) = {}
    <2>1. ~Events(Outcome(m))
      BY <1>3
    <2>2. QED
      BY <2>1 DEF Events, Outcome
  <1>6. \A p \in m.inPlace : Place(p[1]) = Place(p[2]) /\ p[1].card = p[2].card
    <2>1. \A p \in m.inPlace : p[1] \in Slots(one, Keys(one), kind)
      BY <1>3 DEF Matched, Matchings
    <2>2. QED
      BY <1>4, <2>1 DEF AlikeInPlace
  <1>7. Undisturbed(one, other, kind, m)
    BY <1>1, <1>2, <1>3, <1>5, <1>6 DEF Undisturbed
  <1>8. QED
    BY <1>7 DEF m

(* The cards and badges then are the same, list by list.                   *)
LEMMA UnsaidCards ==
    ASSUME NEW one, NEW other, Unsaid(one, other), NEW kind \in {"card", "badge"}
    PROVE  \E m : Undisturbed(one, other, kind, m)
  <1>1. CASE kind = "card"
    <2> DEFINE all == PairSections(one, other)
    <2>1. ~Events(MatchSlots(one, other, "card", all))
      BY DEF Unsaid, Seen, MatchCards
    <2>2. \A s \in Slots(one, Keys(one), "card") : Translated(s, all) = Place(s)
      BY UnsaidTranslated, SlotIs
    <2> HIDE DEF all
    <2>3. Undisturbed(one, other, "card", Matching(one, other, "card", all))
      BY <2>1, <2>2, UnsaidMatching
    <2>4. QED
      BY <1>1, <2>3
  <1>2. CASE kind = "badge"
    <2> DEFINE none == [key \in {} |-> {}]
    <2>1. ~Events(MatchSlots(one, other, "badge", none))
      BY DEF Unsaid, Seen, MatchBadges
    <2>2. \A s \in Slots(one, Keys(one), "badge") : Translated(s, none) = Place(s)
      BY DEF Translated, Paired
    <2> HIDE DEF none
    <2>3. Undisturbed(one, other, "badge", Matching(one, other, "badge", none))
      BY <2>1, <2>2, UnsaidMatching
    <2>4. QED
      BY <1>2, <2>3
  <1>3. QED
    BY <1>1, <1>2

(* So each of their views is the same.                                     *)
LEMMA UnsaidViews ==
    ASSUME NEW one, NEW other, Unsaid(one, other), NEW key \in Keys(one)
    PROVE  View(one, key) = View(other, key)
  <1> DEFINE was == View(one, key)
             is == View(other, key)
  <1>1. key \in Keys(other)
    BY UnsaidIs
  <1>2. was \in Views /\ is \in Views /\ was.path = key[1] /\ is.path = key[1]
    <2>1. one \in Configs /\ ~PathsCollide(one) /\ other \in Configs /\ ~PathsCollide(other)
      BY DEF Unsaid
    <2>2. QED
      BY <1>1, <2>1, ViewNamed
  <1>3. was.title = is.title /\ was.layout = is.layout
    BY UnsaidIs
  <1>4. /\ was.sections \in Seq(Sections) /\ is.sections \in Seq(Sections)
        /\ Len(was.sections) = Len(is.sections)
        /\ \A i \in DOMAIN was.sections : was.sections[i].own = is.sections[i].own
    BY UnsaidSections
  <1>5. \A l \in 0 .. Len(was.sections) : Lists(was, "card")[l] = Lists(is, "card")[l]
    <2>1. PICK m : Undisturbed(one, other, "card", m)
      BY UnsaidCards
    <2>2. \A l \in 0 .. Len(was.sections) : l \in DOMAIN Lists(was, "card") /\ l \in DOMAIN Lists(is, "card")
      BY <1>4 DEF Lists
    <2> HIDE DEF was, is
    <2>3. \A l \in 0 .. Len(was.sections) : ListAt(one, "card", key, l) = ListAt(other, "card", key, l)
      BY <2>1, <2>2, ListsTheSame DEF was, is
    <2>4. QED
      BY <2>3 DEF ListAt, was, is
  <1>6. Lists(was, "badge")[0] = Lists(is, "badge")[0]
    <2>1. PICK m : Undisturbed(one, other, "badge", m)
      BY UnsaidCards
    <2>2. 0 \in DOMAIN Lists(was, "badge") /\ 0 \in DOMAIN Lists(is, "badge")
      BY DEF Lists
    <2> HIDE DEF was, is
    <2>3. ListAt(one, "badge", key, 0) = ListAt(other, "badge", key, 0)
      BY <2>1, <2>2, ListsTheSame DEF was, is
    <2>4. QED
      BY <2>3 DEF ListAt, was, is
  <1> HIDE DEF was, is
  <1>7. was.badges = is.badges
    BY <1>6 DEF Lists
  <1>8. Len(was.sections) \in Nat /\ DOMAIN was.sections = 1 .. Len(was.sections)
    BY <1>4, RowFinite
  <1>9. \A l \in 0 .. Len(was.sections) :
          /\ Lists(was, "card")[l] = IF l = 0 THEN was.cards ELSE was.sections[l].cards
          /\ Lists(is, "card")[l] = IF l = 0 THEN is.cards ELSE is.sections[l].cards
    BY <1>4 DEF Lists
  <1>10. was.cards = is.cards
    <2>1. 0 \in 0 .. Len(was.sections)
      BY <1>8
    <2>2. QED
      BY <1>5, <1>9, <2>1
  <1>11. \A i \in 1 .. Len(was.sections) : was.sections[i] = is.sections[i]
    <2>1. SUFFICES ASSUME NEW i \in 1 .. Len(was.sections) PROVE was.sections[i] = is.sections[i]
      OBVIOUS
    <2>2. was.sections[i] \in Sections /\ is.sections[i] \in Sections
      BY <1>4, <1>8, RowFinite
    <2>3. i \in 0 .. Len(was.sections) /\ i # 0
      BY <1>8
    <2>4. was.sections[i].cards = is.sections[i].cards
      BY <1>5, <1>9, <2>3
    <2>5. was.sections[i].own = is.sections[i].own
      BY <1>4, <1>8
    <2>6. QED
      BY <2>2, <2>4, <2>5 DEF Sections
  <1>12. was.sections = is.sections
    BY <1>4, <1>11, SeqEqual
  <1>13. was = is
    BY <1>2, <1>3, <1>7, <1>10, <1>12 DEF Views
  <1>14. QED
    BY <1>13 DEF was, is

(* What EveryChangeIsSeen says, of any two dashboards.                     *)
LEMMA NothingUnsaid ==
    ASSUME NEW one \in Configs, NEW other \in Configs
    PROVE  \/ Seen(one, other)
           \/ PathsCollide(one) \/ PathsCollide(other)
           \/ SameButForOrder(one, other)
  <1>1. SUFFICES ASSUME Unsaid(one, other) PROVE SameButForOrder(one, other)
    BY DEF Unsaid
  <1>2. QED
    BY <1>1, UnsaidIs, UnsaidViews DEF SameButForOrder

(* A row with one element less.                                            *)
LEMMA RemoveAtIs ==
    ASSUME NEW S, NEW s \in Seq(S), NEW i \in 1 .. Len(s)
    PROVE  /\ RemoveAt(s, i) \in Seq(S) /\ Len(RemoveAt(s, i)) = Len(s) - 1
           /\ \A j \in 1 .. Len(s) - 1 :
                RemoveAt(s, i)[j] = IF j < i THEN s[j] ELSE s[j + 1]
  <1> DEFINE a == SubSeq(s, 1, i - 1)
             b == SubSeq(s, i + 1, Len(s))
  <1>1. Len(s) \in Nat /\ \A j \in 1 .. Len(s) : s[j] \in S
    BY LenProperties, ElementOfSeq
  <1>2. /\ a \in Seq(S) /\ Len(a) = i - 1 /\ \A j \in 1 .. i - 1 : a[j] = s[j]
    <2>1. \A j \in 1 .. i - 1 : s[j] \in S
      BY <1>1
    <2>2. /\ SubSeq(s, 1, i - 1) \in Seq(S)
          /\ Len(SubSeq(s, 1, i - 1)) = IF 1 <= i - 1 THEN i - 1 - 1 + 1 ELSE 0
          /\ \A j \in 1 .. i - 1 - 1 + 1 : SubSeq(s, 1, i - 1)[j] = s[1 + j - 1]
      BY <1>1, <2>1, SubSeqProperties
    <2>3. QED
      BY <1>1, <2>2
  <1>3. /\ b \in Seq(S) /\ Len(b) = Len(s) - i
        /\ \A j \in 1 .. Len(s) - i : b[j] = s[i + j]
    <2>1. \A j \in i + 1 .. Len(s) : s[j] \in S
      BY <1>1
    <2>2. /\ SubSeq(s, i + 1, Len(s)) \in Seq(S)
          /\ Len(SubSeq(s, i + 1, Len(s))) = IF i + 1 <= Len(s) THEN Len(s) - (i + 1) + 1 ELSE 0
          /\ \A j \in 1 .. Len(s) - (i + 1) + 1 : SubSeq(s, i + 1, Len(s))[j] = s[i + 1 + j - 1]
      BY <1>1, <2>1, SubSeqProperties
    <2>3. QED
      BY <1>1, <2>2
  <1> HIDE DEF a, b
  <1>4. /\ a \o b \in Seq(S) /\ Len(a \o b) = Len(a) + Len(b)
        /\ \A j \in 1 .. Len(a) + Len(b) : (a \o b)[j] = IF j <= Len(a) THEN a[j] ELSE b[j - Len(a)]
    BY <1>2, <1>3, ConcatProperties
  <1>5. RemoveAt(s, i) = a \o b
    BY DEF RemoveAt, a, b
  <1>6. \A j \in 1 .. Len(s) - 1 : (a \o b)[j] = IF j < i THEN s[j] ELSE s[j + 1]
    <2>1. SUFFICES ASSUME NEW j \in 1 .. Len(s) - 1
                   PROVE  (a \o b)[j] = IF j < i THEN s[j] ELSE s[j + 1]
      OBVIOUS
    <2>2. (a \o b)[j] = IF j <= i - 1 THEN a[j] ELSE b[j - (i - 1)]
      BY <1>1, <1>2, <1>3, <1>4
    <2>3. CASE j < i
      BY <1>1, <1>2, <2>2, <2>3
    <2>4. CASE ~(j < i)
      <3>1. j - (i - 1) \in 1 .. Len(s) - i /\ i + (j - (i - 1)) = j + 1
        BY <1>1, <2>4
      <3>2. QED
        BY <1>1, <1>3, <2>2, <2>4, <3>1
    <2>5. QED
      BY <2>3, <2>4
  <1>7. RemoveAt(s, i) \in Seq(S) /\ Len(RemoveAt(s, i)) = Len(s) - 1
    BY <1>1, <1>2, <1>3, <1>4, <1>5
  <1>8. ASSUME NEW j \in 1 .. Len(s) - 1
        PROVE  RemoveAt(s, i)[j] = IF j < i THEN s[j] ELSE s[j + 1]
    BY <1>5, <1>6
  <1>9. QED
    BY <1>7, <1>8

(* A row with one element more.                                            *)
LEMMA InsertAtIs ==
    ASSUME NEW S, NEW s \in Seq(S), NEW i \in 1 .. Len(s) + 1, NEW e \in S
    PROVE  /\ InsertAt(s, i, e) \in Seq(S) /\ Len(InsertAt(s, i, e)) = Len(s) + 1
           /\ \A j \in 1 .. Len(s) + 1 :
                InsertAt(s, i, e)[j] = IF j < i THEN s[j] ELSE IF j = i THEN e ELSE s[j - 1]
  <1> DEFINE a == SubSeq(s, 1, i - 1)
             b == SubSeq(s, i, Len(s))
             c == a \o <<e>>
  <1>1. Len(s) \in Nat /\ \A j \in 1 .. Len(s) : s[j] \in S
    BY LenProperties, ElementOfSeq
  <1>2. /\ a \in Seq(S) /\ Len(a) = i - 1 /\ \A j \in 1 .. i - 1 : a[j] = s[j]
    <2>1. \A j \in 1 .. i - 1 : s[j] \in S
      BY <1>1
    <2>2. /\ SubSeq(s, 1, i - 1) \in Seq(S)
          /\ Len(SubSeq(s, 1, i - 1)) = IF 1 <= i - 1 THEN i - 1 - 1 + 1 ELSE 0
          /\ \A j \in 1 .. i - 1 - 1 + 1 : SubSeq(s, 1, i - 1)[j] = s[1 + j - 1]
      BY <1>1, <2>1, SubSeqProperties
    <2>3. QED
      BY <1>1, <2>2
  <1>3. /\ b \in Seq(S) /\ Len(b) = Len(s) - i + 1
        /\ \A j \in 1 .. Len(s) - i + 1 : b[j] = s[i + j - 1]
    <2>1. \A j \in i .. Len(s) : s[j] \in S
      BY <1>1
    <2>2. /\ SubSeq(s, i, Len(s)) \in Seq(S)
          /\ Len(SubSeq(s, i, Len(s))) = IF i <= Len(s) THEN Len(s) - i + 1 ELSE 0
          /\ \A j \in 1 .. Len(s) - i + 1 : SubSeq(s, i, Len(s))[j] = s[i + j - 1]
      BY <1>1, <2>1, SubSeqProperties
    <2>3. QED
      BY <1>1, <2>2
  <1> HIDE DEF a, b
  <1>4. /\ c \in Seq(S) /\ Len(c) = i
        /\ \A j \in 1 .. i : c[j] = IF j < i THEN s[j] ELSE e
    <2> DEFINE t == <<e>>
    <2>1. t \in Seq(S) /\ Len(t) = 1 /\ t[1] = e
      OBVIOUS
    <2>2. c = a \o t
      OBVIOUS
    <2> HIDE DEF t, c
    <2>3. /\ c \in Seq(S) /\ Len(c) = Len(a) + Len(t)
          /\ \A j \in 1 .. Len(a) + Len(t) : c[j] = IF j <= Len(a) THEN a[j] ELSE t[j - Len(a)]
      BY <1>2, <2>1, <2>2, ConcatProperties
    <2>4. \A j \in 1 .. i : c[j] = IF j < i THEN s[j] ELSE e
      <3>1. SUFFICES ASSUME NEW j \in 1 .. i PROVE c[j] = IF j < i THEN s[j] ELSE e
        OBVIOUS
      <3>2. c[j] = IF j <= i - 1 THEN a[j] ELSE t[j - (i - 1)]
        BY <1>1, <1>2, <2>1, <2>3
      <3>3. CASE j < i
        BY <1>1, <1>2, <3>2, <3>3
      <3>4. CASE j = i
        <4>1. j - (i - 1) = 1 /\ ~(j <= i - 1) /\ ~(j < i)
          BY <1>1, <3>4
        <4>2. QED
          BY <2>1, <3>2, <4>1
      <3>5. j < i \/ j = i
        BY <1>1
      <3>6. QED
        BY <3>3, <3>4, <3>5
    <2>5. QED
      BY <1>1, <1>2, <2>1, <2>3, <2>4
  <1> HIDE DEF c
  <1>5. /\ c \o b \in Seq(S) /\ Len(c \o b) = Len(c) + Len(b)
        /\ \A j \in 1 .. Len(c) + Len(b) : (c \o b)[j] = IF j <= Len(c) THEN c[j] ELSE b[j - Len(c)]
    BY <1>3, <1>4, ConcatProperties
  <1>6. InsertAt(s, i, e) = c \o b
    BY DEF InsertAt, a, b, c
  <1>7. \A j \in 1 .. Len(s) + 1 :
          (c \o b)[j] = IF j < i THEN s[j] ELSE IF j = i THEN e ELSE s[j - 1]
    <2>1. SUFFICES ASSUME NEW j \in 1 .. Len(s) + 1
                   PROVE  (c \o b)[j] = IF j < i THEN s[j] ELSE IF j = i THEN e ELSE s[j - 1]
      OBVIOUS
    <2>2. (c \o b)[j] = IF j <= i THEN c[j] ELSE b[j - i]
      BY <1>1, <1>3, <1>4, <1>5
    <2>3. CASE j <= i
      <3>1. c[j] = IF j < i THEN s[j] ELSE e
        BY <1>1, <1>4, <2>3
      <3>2. QED
        BY <1>1, <2>2, <2>3, <3>1
    <2>4. CASE ~(j <= i)
      <3>1. j - i \in 1 .. Len(s) - i + 1 /\ i + (j - i) - 1 = j - 1
        BY <1>1, <2>4
      <3>2. b[j - i] = s[j - 1]
        BY <1>3, <3>1
      <3>3. QED
        BY <1>1, <2>2, <2>4, <3>2
    <2>5. QED
      BY <2>3, <2>4
  <1>8. InsertAt(s, i, e) \in Seq(S) /\ Len(InsertAt(s, i, e)) = Len(s) + 1
    BY <1>1, <1>3, <1>4, <1>5, <1>6
  <1>9. ASSUME NEW j \in 1 .. Len(s) + 1
        PROVE  InsertAt(s, i, e)[j] = IF j < i THEN s[j] ELSE IF j = i THEN e ELSE s[j - 1]
    BY <1>6, <1>7
  <1>10. QED
    BY <1>8, <1>9

(* The same, one element at a time.                                        *)
LEMMA AfterRemoval ==
    ASSUME NEW S, NEW s \in Seq(S), NEW i \in 1 .. Len(s), NEW j \in 1 .. Len(s) - 1
    PROVE  RemoveAt(s, i)[j] = IF j < i THEN s[j] ELSE s[j + 1]
  BY RemoveAtIs

(* And with one more.                                                      *)
LEMMA AfterInsertion ==
    ASSUME NEW S, NEW s \in Seq(S), NEW i \in 1 .. Len(s) + 1, NEW e \in S,
           NEW j \in 1 .. Len(s) + 1
    PROVE  InsertAt(s, i, e)[j] = IF j < i THEN s[j] ELSE IF j = i THEN e ELSE s[j - 1]
  BY InsertAtIs

(* Putting something into a row leaves a row.                              *)
LEMMA PutAtIs ==
    ASSUME NEW S, NEW s \in Seq(S), NEW i \in Nat \ {0}, NEW e \in S
    PROVE  PutAt(s, i, e) \in Seq(S)
  <1> DEFINE j == IF i <= Len(s) THEN i ELSE Len(s) + 1
  <1>1. j \in 1 .. Len(s) + 1
    BY LenProperties
  <1>2. PutAt(s, i, e) = InsertAt(s, j, e)
    BY DEF PutAt
  <1> HIDE DEF j
  <1>3. QED
    BY <1>1, <1>2, InsertAtIs

(* A function over the first numbers is a row.                             *)
LEMMA RowOf ==
    ASSUME NEW S, NEW n \in Nat, NEW row \in [1 .. n -> S]
    PROVE  row \in Seq(S) /\ Len(row) = n
  <1>1. row \in UNION {[1 .. m -> S] : m \in Nat}
    OBVIOUS
  <1>2. row \in Seq(S)
    BY <1>1, SeqDef
  <1>3. QED
    BY <1>2, LenProperties

(* A row with one element written.                                         *)
LEMMA RowExcept ==
    ASSUME NEW S, NEW s \in Seq(S), NEW i \in DOMAIN s, NEW e \in S
    PROVE  [s EXCEPT ![i] = e] \in Seq(S)
  BY ExceptSeq

(* A view with its lists written is a view.                                *)
LEMMA WithListsType ==
    ASSUME NEW view \in Views, NEW kind, NEW lists \in [ListsOf(view, kind) -> Seq(Cards)]
    PROVE  WithLists(view, kind, lists) \in Views
  <1>1. /\ view.path \in Paths \cup {None} /\ view.layout \in Layouts /\ view.title \in Titles
        /\ view.cards \in Seq(Cards) /\ view.badges \in Seq(Cards)
        /\ view.sections \in Seq(Sections) /\ Len(view.sections) \in Nat
        /\ DOMAIN view.sections = 1 .. Len(view.sections)
    BY ViewIs
  <1>2. CASE kind = "badge"
    <2>1. lists[0] \in Seq(Cards)
      BY <1>2 DEF ListsOf
    <2>2. QED
      BY <1>2, <2>1 DEF WithLists, Views
  <1>3. CASE kind # "badge"
    <2> DEFINE row == [s \in DOMAIN view.sections |-> Section(view.sections[s].own, lists[s])]
    <2>1. lists[0] \in Seq(Cards) /\ \A s \in 1 .. Len(view.sections) : lists[s] \in Seq(Cards)
      BY <1>1, <1>3 DEF ListsOf
    <2>2. \A s \in 1 .. Len(view.sections) : row[s] \in Sections
      BY <1>1, <2>1, SectionsAre DEF Section, Sections
    <2>3. row \in Seq(Sections)
      <3>1. row \in [1 .. Len(view.sections) -> Sections]
        BY <1>1, <2>2
      <3> HIDE DEF row
      <3>2. QED
        BY <1>1, <3>1, RowOf
    <2>4. WithLists(view, kind, lists) = [view EXCEPT !.cards = lists[0], !.sections = row]
      BY <1>3 DEF WithLists
    <2> HIDE DEF row
    <2>5. QED
      BY <1>1, <2>1, <2>3, <2>4 DEF Views
  <1>4. QED
    BY <1>2, <1>3

(* A dashboard with one view written, or one list of one view.             *)
LEMMA WithinType ==
    ASSUME NEW config \in Configs, NEW v \in DOMAIN config.views, NEW view \in Views
    PROVE  [config EXCEPT !.views[v] = view] \in Configs
  <1>1. config.views \in Seq(Views)
    BY ViewsAre
  <1>2. [config.views EXCEPT ![v] = view] \in Seq(Views)
    BY <1>1, RowExcept
  <1>3. QED
    BY <1>2 DEF Configs

(* A dashboard with one list written is a dashboard.                       *)
LEMMA WithListType ==
    ASSUME NEW config \in Configs, NEW kind, NEW v \in DOMAIN config.views, NEW l,
           NEW items \in Seq(Cards)
    PROVE  WithList(config, v, kind, l, items) \in Configs
  <1>1. config.views[v] \in Views
    BY ViewsAre
  <1> DEFINE lists == [Lists(config.views[v], kind) EXCEPT ![l] = items]
  <1>2. Lists(config.views[v], kind) \in [ListsOf(config.views[v], kind) -> Seq(Cards)]
    BY <1>1, ListsType
  <1>3. lists \in [ListsOf(config.views[v], kind) -> Seq(Cards)]
    BY <1>2
  <1> HIDE DEF lists
  <1>4. WithLists(config.views[v], kind, lists) \in Views
    BY <1>1, <1>3, WithListsType
  <1>5. QED
    BY <1>4, WithinType DEF WithList, Within, lists

(* With one row of sections written.                                       *)
LEMMA WithSectionsType ==
    ASSUME NEW config \in Configs, NEW v \in DOMAIN config.views, NEW row \in Seq(Sections)
    PROVE  [config EXCEPT !.views[v].sections = row] \in Configs
  <1>1. config.views[v] \in Views
    BY ViewsAre
  <1>2. [config.views[v] EXCEPT !.sections = row] \in Views
    BY <1>1 DEF Views
  <1>3. [config EXCEPT !.views[v] = [config.views[v] EXCEPT !.sections = row]] \in Configs
    BY <1>2, WithinType
  <1>4. QED
    BY <1>3

(* A list somebody may write to.                                           *)
LEMMA ListedIs ==
    ASSUME NEW config \in Configs, NEW kind, NEW p \in Listed(config, kind)
    PROVE  /\ p[1] \in DOMAIN config.views
           /\ p[2] \in DOMAIN Lists(config.views[p[1]], kind)
           /\ Items(config, kind, p) \in Seq(Cards)
           /\ DOMAIN Items(config, kind, p) = 1 .. Len(Items(config, kind, p))
           /\ Len(Items(config, kind, p)) \in Nat
  <1>1. p[1] \in DOMAIN config.views /\ p[2] \in DOMAIN Lists(config.views[p[1]], kind)
    BY DEF Listed
  <1>2. config.views[p[1]] \in Views
    BY <1>1, ViewsAre
  <1>3. Lists(config.views[p[1]], kind) \in [ListsOf(config.views[p[1]], kind) -> Seq(Cards)]
    BY <1>2, ListsType
  <1>4. Items(config, kind, p) \in Seq(Cards)
    BY <1>1, <1>3 DEF Items
  <1>5. QED
    BY <1>1, <1>4, LenProperties

(* So is one with a list saved by the editor.                              *)
LEMMA SaveType ==
    ASSUME NEW config \in Configs, NEW kind, NEW p \in Listed(config, kind), NEW items \in Seq(Cards)
    PROVE  Save(config, kind, p, items) \in Configs
  BY ListedIs, WithListType DEF Save

(* Writing, editing, deleting and moving cards and badges.                 *)
LEMMA ItemEditsType ==
    ASSUME NEW config \in Configs, NEW kind
    PROVE  /\ WriteItem(config, kind) \subseteq Configs /\ EditItem(config, kind) \subseteq Configs
           /\ DeleteItem(config, kind) \subseteq Configs /\ MoveItem(config, kind) \subseteq Configs
  <1>1. WriteItem(config, kind) \subseteq Configs
    <2>1. ASSUME NEW p \in Listed(config, kind), NEW card \in Cards
          PROVE  Save(config, kind, p, Append(Items(config, kind, p), card)) \in Configs
      <3>1. Append(Items(config, kind, p), card) \in Seq(Cards)
        BY ListedIs, AppendProperties
      <3>2. QED
        BY <3>1, SaveType
    <2>2. QED
      BY <2>1 DEF WriteItem
  <1>2. EditItem(config, kind) \subseteq Configs
    <2>1. ASSUME NEW p \in Listed(config, kind), NEW i \in DOMAIN Items(config, kind, p), NEW card \in Cards
          PROVE  Save(config, kind, p, [Items(config, kind, p) EXCEPT ![i] = card]) \in Configs
      <3>1. [Items(config, kind, p) EXCEPT ![i] = card] \in Seq(Cards)
        BY ListedIs, RowExcept
      <3>2. QED
        BY <3>1, SaveType
    <2>2. SUFFICES ASSUME NEW x \in EditItem(config, kind) PROVE x \in Configs
      OBVIOUS
    <2> DEFINE G(p, i, card) == Save(config, kind, p, [Items(config, kind, p) EXCEPT ![i] = card])
               F(p) == {G(p, i, card) : i \in DOMAIN Items(config, kind, p), card \in Cards}
    <2>3. EditItem(config, kind) = UNION {F(p) : p \in Listed(config, kind)}
      BY DEF EditItem
    <2> HIDE DEF F
    <2>4. PICK p \in Listed(config, kind) : x \in F(p)
      BY <2>2, <2>3
    <2>5. \A i \in DOMAIN Items(config, kind, p), card \in Cards : G(p, i, card) \in Configs
      BY <2>1
    <2> HIDE DEF G
    <2>6. x \in Configs
      BY <2>4, <2>5 DEF F
    <2>7. QED
      BY <2>6
  <1>3. ASSUME NEW p \in Listed(config, kind), NEW i \in DOMAIN Items(config, kind, p)
        PROVE  /\ Save(config, kind, p, RemoveAt(Items(config, kind, p), i)) \in Configs
               /\ Items(config, kind, p)[i] \in Cards
    <2>1. RemoveAt(Items(config, kind, p), i) \in Seq(Cards)
      BY ListedIs, RemoveAtIs
    <2>2. QED
      BY <2>1, SaveType, ListedIs, ElementOfSeq
  <1>4. DeleteItem(config, kind) \subseteq Configs
    BY <1>3 DEF DeleteItem
  <1>5. ASSUME NEW without \in Configs, NEW q \in Listed(without, kind), NEW card \in Cards,
               NEW j \in 1 .. Len(Items(without, kind, q)) + 1
        PROVE  Save(without, kind, q, InsertAt(Items(without, kind, q), j, card)) \in Configs
    <2>1. InsertAt(Items(without, kind, q), j, card) \in Seq(Cards)
      BY ListedIs, InsertAtIs
    <2>2. QED
      BY <2>1, SaveType
  <1>6. MoveItem(config, kind) \subseteq Configs
    <2>1. SUFFICES ASSUME NEW x \in MoveItem(config, kind) PROVE x \in Configs
      OBVIOUS
    <2>2. PICK p, i, q, j :
            LET without == Save(config, kind, p, RemoveAt(Items(config, kind, p), i))
            IN  /\ p \in Listed(config, kind) /\ i \in DOMAIN Items(config, kind, p)
                /\ q \in Listed(without, kind)
                /\ j \in 1 .. Len(Items(without, kind, q)) + 1
                /\ x = Save(without, kind, q,
                            InsertAt(Items(without, kind, q), j, Items(config, kind, p)[i]))
      BY DEF MoveItem
    <2> DEFINE without == Save(config, kind, p, RemoveAt(Items(config, kind, p), i))
    <2>3. without \in Configs /\ Items(config, kind, p)[i] \in Cards
      BY <1>3, <2>2
    <2> HIDE DEF without
    <2>4. /\ q \in Listed(without, kind) /\ j \in 1 .. Len(Items(without, kind, q)) + 1
          /\ x = Save(without, kind, q,
                      InsertAt(Items(without, kind, q), j, Items(config, kind, p)[i]))
      BY <2>2 DEF without
    <2>5. QED
      BY <1>5, <2>3, <2>4
  <1>7. QED
    BY <1>1, <1>2, <1>4, <1>6

(* Edits of the rows of sections.                                          *)
LEMMA SectionEditsType ==
    ASSUME NEW config \in Configs
    PROVE  /\ AddSection(config) \subseteq Configs /\ DeleteSection(config) \subseteq Configs
           /\ MoveSection(config) \subseteq Configs /\ SetSection(config) \subseteq Configs
  <1>1. ASSUME NEW v \in DOMAIN config.views
        PROVE  /\ config.views[v].sections \in Seq(Sections)
               /\ \A row \in Seq(Sections) : [config EXCEPT !.views[v].sections = row] \in Configs
    BY ViewsAre, ViewIs, WithSectionsType
  <1>2. ASSUME NEW row \in Seq(Sections), NEW own \in Owns
        PROVE  Append(row, Section(own, <<>>)) \in Seq(Sections)
    <2>1. <<>> \in Seq(Cards)
      BY EmptySeq
    <2>2. Section(own, <<>>) \in Sections
      BY <2>1 DEF Section, Sections
    <2>3. QED
      BY <2>2, AppendProperties
  <1>3. AddSection(config) \subseteq Configs
    <2>1. SUFFICES ASSUME NEW x \in AddSection(config) PROVE x \in Configs
      OBVIOUS
    <2>2. PICK v \in DOMAIN config.views : \E own \in Owns :
            x = [config EXCEPT !.views[v].sections = Append(config.views[v].sections, Section(own, <<>>))]
      BY DEF AddSection, InSections
    <2>3. PICK own \in Owns :
            x = [config EXCEPT !.views[v].sections = Append(config.views[v].sections, Section(own, <<>>))]
      BY <2>2
    <2>4. Append(config.views[v].sections, Section(own, <<>>)) \in Seq(Sections)
      BY <1>1, <1>2
    <2>5. QED
      BY <1>1, <2>3, <2>4
  <1>4. ASSUME NEW row \in Seq(Sections), NEW s \in DOMAIN row
        PROVE  RemoveAt(row, s) \in Seq(Sections)
    BY RemoveAtIs, LenProperties
  <1>5. DeleteSection(config) \subseteq Configs
    BY <1>1, <1>4 DEF DeleteSection, InSections
  <1>6. ASSUME NEW row \in Seq(Sections), NEW s \in DOMAIN row, NEW t \in DOMAIN row
        PROVE  InsertAt(RemoveAt(row, s), t, row[s]) \in Seq(Sections)
    <2>1. s \in 1 .. Len(row) /\ t \in 1 .. Len(row) /\ Len(row) \in Nat /\ row[s] \in Sections
      BY RowFinite
    <2>2. RemoveAt(row, s) \in Seq(Sections) /\ Len(RemoveAt(row, s)) = Len(row) - 1
      BY <2>1, RemoveAtIs
    <2>3. t \in 1 .. Len(RemoveAt(row, s)) + 1
      BY <2>1, <2>2
    <2>4. QED
      BY <2>1, <2>2, <2>3, InsertAtIs
  <1>7. MoveSection(config) \subseteq Configs
    <2>1. SUFFICES ASSUME NEW x \in MoveSection(config) PROVE x \in Configs
      OBVIOUS
    <2>2. PICK v \in DOMAIN config.views :
            LET row == config.views[v].sections
            IN  \E s, t \in DOMAIN row :
                  x = [config EXCEPT !.views[v].sections = InsertAt(RemoveAt(row, s), t, row[s])]
      BY DEF MoveSection, InSections
    <2> DEFINE row == config.views[v].sections
    <2>3. PICK s \in DOMAIN row, t \in DOMAIN row :
            x = [config EXCEPT !.views[v].sections = InsertAt(RemoveAt(row, s), t, row[s])]
      BY <2>2
    <2>4. row \in Seq(Sections)
      BY <1>1
    <2> HIDE DEF row
    <2>5. InsertAt(RemoveAt(row, s), t, row[s]) \in Seq(Sections)
      BY <1>6, <2>4
    <2>6. QED
      BY <1>1, <2>3, <2>5
  <1>8. ASSUME NEW row \in Seq(Sections), NEW s \in DOMAIN row, NEW own \in Owns
        PROVE  [row EXCEPT ![s].own = own] \in Seq(Sections)
    <2>1. row[s] \in Sections
      BY RowFinite
    <2>2. [row[s] EXCEPT !.own = own] \in Sections
      BY <2>1 DEF Sections
    <2>3. [row EXCEPT ![s] = [row[s] EXCEPT !.own = own]] \in Seq(Sections)
      BY <2>2, RowExcept
    <2>4. QED
      BY <2>3
  <1>9. SetSection(config) \subseteq Configs
    BY <1>1, <1>8 DEF SetSection, InSections
  <1>10. QED
    BY <1>3, <1>5, <1>7, <1>9

(* Edits of the views and of the settings.                                 *)
LEMMA ViewsWritten ==
    ASSUME NEW config \in Configs, NEW row \in Seq(Views)
    PROVE  [config EXCEPT !.views = row] \in Configs
  BY DEF Configs

(* A new view is a view.                                                   *)
LEMMA NewViewType ==
    ASSUME NEW path \in Paths \cup {None}
    PROVE  NewView(path) \in Views
  <1>1. <<>> \in Seq(Cards) /\ <<>> \in Seq(Sections)
    BY EmptySeq
  <1>2. QED
    BY <1>1, NoneAssumption DEF NewView, Views, Layouts

(* Converting, naming, adding, deleting and moving views.                  *)
LEMMA ViewEditsType ==
    ASSUME NEW config \in Configs
    PROVE  /\ ConvertView(config) \subseteq Configs /\ SetTitle(config) \subseteq Configs
           /\ AddView(config) \subseteq Configs /\ DeleteView(config) \subseteq Configs
           /\ SetPath(config) \subseteq Configs /\ MoveView(config) \subseteq Configs
  <1>1. config.views \in Seq(Views) /\ \A v \in DOMAIN config.views : config.views[v] \in Views
    BY ViewsAre
  <1>2. ConvertView(config) \subseteq Configs
    <2>1. ASSUME NEW v \in DOMAIN config.views
          PROVE  LET view == config.views[v]
                 IN  Within(config, v,
                       IF view.layout = "masonry"
                       THEN [view EXCEPT !.layout = "sections",
                                         !.sections = Append(view.sections,
                                                             Section(CHOOSE own \in Owns : TRUE, <<>>))]
                       ELSE [view EXCEPT !.layout = "masonry"]) \in Configs
      <3> DEFINE view == config.views[v]
                 own == CHOOSE o \in Owns : TRUE
                 row == Append(view.sections, Section(own, <<>>))
                 new == IF view.layout = "masonry"
                        THEN [view EXCEPT !.layout = "sections", !.sections = row]
                        ELSE [view EXCEPT !.layout = "masonry"]
      <3>1. view \in Views /\ view.sections \in Seq(Sections)
        BY <1>1, ViewIs
      <3>2. own \in Owns
        BY OwnsAssumption
      <3>3. <<>> \in Seq(Cards)
        BY EmptySeq
      <3> HIDE DEF own
      <3>4. Section(own, <<>>) \in Sections
        BY <3>2, <3>3 DEF Section, Sections
      <3>5. row \in Seq(Sections)
        BY <3>1, <3>4, AppendProperties
      <3> HIDE DEF view, row
      <3>6. new \in Views
        BY <3>1, <3>5 DEF Views, Layouts
      <3>7. [config EXCEPT !.views[v] = new] \in Configs
        <4> HIDE DEF new
        <4>1. QED
          BY <3>6, WithinType
      <3>8. QED
        BY <3>7 DEF new, view, row, own, Within
    <2>2. QED
      BY <2>1 DEF ConvertView
  <1>3. SetTitle(config) \subseteq Configs
    <2>1. ASSUME NEW title \in Titles PROVE [config EXCEPT !.title = title] \in Configs
      BY DEF Configs
    <2>2. ASSUME NEW v \in DOMAIN config.views, NEW title \in Titles
          PROVE  [config EXCEPT !.views[v].title = title] \in Configs
      <3>1. [config.views[v] EXCEPT !.title = title] \in Views
        BY <1>1 DEF Views
      <3>2. [config EXCEPT !.views[v] = [config.views[v] EXCEPT !.title = title]] \in Configs
        BY <3>1, WithinType
      <3>3. QED
        BY <3>2
    <2>3. QED
      BY <2>1, <2>2 DEF SetTitle
  <1>4. AddView(config) \subseteq Configs
    <2>1. ASSUME NEW path \in Paths \cup {None}
          PROVE  [config EXCEPT !.views = Append(config.views, NewView(path))] \in Configs
      <3>1. Append(config.views, NewView(path)) \in Seq(Views)
        BY <1>1, NewViewType, AppendProperties
      <3>2. QED
        BY <3>1, ViewsWritten
    <2>2. QED
      BY <2>1 DEF AddView
  <1>5. DeleteView(config) \subseteq Configs
    <2>1. ASSUME NEW v \in DOMAIN config.views
          PROVE  [config EXCEPT !.views = RemoveAt(config.views, v)] \in Configs
      <3>1. RemoveAt(config.views, v) \in Seq(Views)
        BY <1>1, LenProperties, RemoveAtIs
      <3>2. QED
        BY <3>1, ViewsWritten
    <2>2. QED
      BY <2>1 DEF DeleteView
  <1>6. SetPath(config) \subseteq Configs
    <2>1. ASSUME NEW v \in DOMAIN config.views, NEW path \in Paths \cup {None}
          PROVE  [config EXCEPT !.views[v].path = path] \in Configs
      <3>1. [config.views[v] EXCEPT !.path = path] \in Views
        BY <1>1 DEF Views
      <3>2. [config EXCEPT !.views[v] = [config.views[v] EXCEPT !.path = path]] \in Configs
        BY <3>1, WithinType
      <3>3. QED
        BY <3>2
    <2>2. QED
      BY <2>1 DEF SetPath
  <1>7. MoveView(config) \subseteq Configs
    <2>1. ASSUME NEW v \in DOMAIN config.views, NEW w \in DOMAIN config.views
          PROVE  [config EXCEPT !.views = InsertAt(RemoveAt(config.views, v), w, config.views[v])] \in Configs
      <3>1. v \in 1 .. Len(config.views) /\ w \in 1 .. Len(config.views) /\ Len(config.views) \in Nat
        BY <1>1, LenProperties
      <3>2. RemoveAt(config.views, v) \in Seq(Views) /\ Len(RemoveAt(config.views, v)) = Len(config.views) - 1
        BY <1>1, <3>1, RemoveAtIs
      <3>3. w \in 1 .. Len(RemoveAt(config.views, v)) + 1
        BY <3>1, <3>2
      <3>4. InsertAt(RemoveAt(config.views, v), w, config.views[v]) \in Seq(Views)
        BY <1>1, <3>2, <3>3, InsertAtIs
      <3>5. QED
        BY <3>4, ViewsWritten
    <2>2. QED
      BY <2>1 DEF MoveView
  <1>8. QED
    BY <1>2, <1>3, <1>4, <1>5, <1>6, <1>7

(* What the editor saves is a dashboard.                                   *)
LEMMA EditedType ==
    ASSUME NEW config \in Configs
    PROVE  Edited(config) \subseteq Configs
  BY ItemEditsType, SectionEditsType, ViewEditsType DEF Edited

(* Putting a finite set in order leaves each of its elements once, and none *)
(* behind one it stands before.                                            *)
Ordered(order, S, R) ==
  /\ order \in Seq(S) /\ Len(order) = Cardinality(S)
  /\ \A i, j \in 1 .. Len(order) : order[i] = order[j] => i = j
  /\ \A x \in S : \E i \in 1 .. Len(order) : order[i] = x
  /\ \A i, j \in 1 .. Len(order) : i < j => <<order[j], order[i]>> \notin R

(* Putting a finite set in order is possible where the order has no        *)
(* circles.                                                                *)
LEMMA InOrderIs ==
    ASSUME NEW S, IsFiniteSet(S), NEW R, Strict(S, R)
    PROVE  Ordered(InOrder(S, R), S, R)
  <1> DEFINE N == Cardinality(S)
             Less(T) == T \ {First(T, R)}
             left == CHOOSE f : f = [n \in 0 .. N |-> IF n = 0 THEN S ELSE Less(f[n - 1])]
             h == [n \in 1 .. N |-> [T \in SUBSET S |-> Less(T)]]
             order == InOrder(S, R)
  <1>1. N \in Nat
    BY FS_CardinalityType
  <1>2. PICK f : Iterates(SUBSET S, S, N, h, f)
    <2>1. Stepping(SUBSET S, S, N, h)
      BY <1>1 DEF Stepping
    <2> HIDE DEF h, N
    <2>2. QED
      BY <2>1, IteratedExists
  <1>3. f = [n \in 0 .. N |-> IF n = 0 THEN S ELSE Less(f[n - 1])]
    <2> HIDE DEF N, Less
    <2>1. \A n \in 1 .. N : n - 1 \in 0 .. N
      BY <1>1
    <2>2. \A n \in 1 .. N : h[n][f[n - 1]] = Less(f[n - 1])
      BY <1>2, <2>1 DEF Iterates
    <2>3. \A n \in 0 .. N : n # 0 => n \in 1 .. N
      BY <1>1
    <2> HIDE DEF h
    <2>4. \A n \in 0 .. N : f[n] = IF n = 0 THEN S ELSE Less(f[n - 1])
      BY <1>2, <2>2, <2>3 DEF Iterates
    <2>5. QED
      BY <1>2, <2>4 DEF Iterates
  <1>4. left = [n \in 0 .. N |-> IF n = 0 THEN S ELSE Less(left[n - 1])]
    <2> HIDE DEF Less, N
    <2>1. QED
      BY <1>3
  <1>5. order = [n \in 1 .. N |-> First(left[n - 1], R)]
    BY DEF InOrder
  <1> HIDE DEF left, N, h, order
  <1>6. left[0] = S /\ \A n \in 1 .. N : n - 1 \in 0 .. N /\ left[n] = Less(left[n - 1])
    <2>1. \A n \in 1 .. N : n \in 0 .. N /\ n # 0 /\ n - 1 \in 0 .. N
      BY <1>1
    <2>2. 0 \in 0 .. N
      BY <1>1
    <2> HIDE DEF Less
    <2>3. QED
      BY <1>4, <2>1, <2>2
  <1>7. ASSUME NEW T \in SUBSET S, T # {}
        PROVE  /\ First(T, R) \in T /\ \A y \in T : <<y, First(T, R)>> \notin R
               /\ IsFiniteSet(T) /\ Cardinality(T \ {First(T, R)}) = Cardinality(T) - 1
    <2>1. IsFiniteSet(T) /\ Strict(T, R)
      BY FS_Subset, StrictSubset
    <2>2. First(T, R) \in T /\ \A y \in T : <<y, First(T, R)>> \notin R
      BY <1>7, <2>1, FirstIs
    <2>3. QED
      BY <2>1, <2>2, FS_RemoveElement
  <1>8. \A n \in 0 .. N : left[n] \in SUBSET S /\ Cardinality(left[n]) = N - n
    <2> DEFINE G == {n \in 0 .. N : left[n] \in SUBSET S /\ Cardinality(left[n]) = N - n}
    <2>1. 0 \in G
      BY <1>1, <1>6 DEF N
    <2>2. ASSUME NEW n \in 1 .. N, n - 1 \in G PROVE n \in G
      <3>1. n \in 0 .. N /\ left[n - 1] \in SUBSET S /\ Cardinality(left[n - 1]) = N - (n - 1)
        BY <1>1, <2>2
      <3>2. left[n - 1] # {}
        BY <1>1, <3>1, FS_EmptySet
      <3>3. Cardinality(left[n]) = (N - (n - 1)) - 1 /\ left[n] \in SUBSET S
        <4>1. left[n] = left[n - 1] \ {First(left[n - 1], R)}
          BY <1>6
        <4>2. Cardinality(left[n - 1] \ {First(left[n - 1], R)}) = Cardinality(left[n - 1]) - 1
          BY <1>7, <3>1, <3>2
        <4>3. QED
          BY <3>1, <4>1, <4>2
      <3>4. QED
        BY <1>1, <3>1, <3>3
    <2> HIDE DEF G
    <2>3. \A n \in 0 .. N : n \in G
      BY <1>1, <2>1, <2>2, UpTo
    <2>4. QED
      BY <2>3 DEF G
  <1>9. \A n \in 1 .. N : /\ n - 1 \in 0 .. N /\ left[n - 1] # {}
                          /\ order[n] \in left[n - 1] /\ order[n] \in S
                          /\ order[n] \notin left[n]
                          /\ left[n] = left[n - 1] \ {order[n]}
                          /\ \A y \in left[n - 1] : <<y, order[n]>> \notin R
    <2>1. SUFFICES ASSUME NEW n \in 1 .. N
                   PROVE  /\ n - 1 \in 0 .. N /\ left[n - 1] # {}
                          /\ order[n] \in left[n - 1] /\ order[n] \in S
                          /\ order[n] \notin left[n]
                          /\ left[n] = left[n - 1] \ {order[n]}
                          /\ \A y \in left[n - 1] : <<y, order[n]>> \notin R
      OBVIOUS
    <2>2. order[n] = First(left[n - 1], R) /\ left[n] = left[n - 1] \ {order[n]}
      BY <1>5, <1>6
    <2>3. n - 1 \in 0 .. N /\ left[n - 1] \in SUBSET S /\ Cardinality(left[n - 1]) # 0
      BY <1>1, <1>6, <1>8
    <2>4. left[n - 1] # {}
      BY <2>3, FS_EmptySet
    <2>5. QED
      BY <1>7, <2>2, <2>3, <2>4
  <1>10. \A m \in 0 .. N : \A n \in 0 .. N : m <= n => left[n] \subseteq left[m]
    <2>1. SUFFICES ASSUME NEW m \in 0 .. N PROVE \A n \in 0 .. N : m <= n => left[n] \subseteq left[m]
      OBVIOUS
    <2> DEFINE G == {n \in 0 .. N : m <= n => left[n] \subseteq left[m]}
    <2>2. 0 \in G
      BY <1>1
    <2>3. ASSUME NEW n \in 1 .. N, n - 1 \in G PROVE n \in G
      <3>1. n \in 0 .. N /\ left[n] \subseteq left[n - 1]
        BY <1>1, <1>9
      <3>2. CASE m <= n - 1
        BY <2>3, <3>1, <3>2
      <3>3. CASE ~(m <= n - 1)
        BY <1>1, <3>1, <3>3
      <3>4. QED
        BY <3>2, <3>3
    <2> HIDE DEF G
    <2>4. \A n \in 0 .. N : n \in G
      BY <1>1, <2>2, <2>3, UpTo
    <2>5. QED
      BY <2>4 DEF G
  <1>11. ASSUME NEW i \in 1 .. N, NEW j \in 1 .. N, i < j
         PROVE  order[i] # order[j] /\ <<order[j], order[i]>> \notin R
    <2>1. j - 1 \in 0 .. N /\ i \in 0 .. N /\ i - 1 \in 0 .. N /\ i <= j - 1 /\ i - 1 <= j - 1
      BY <1>1, <1>11
    <2>2. order[j] \in left[j - 1] /\ left[j - 1] \subseteq left[i] /\ left[j - 1] \subseteq left[i - 1]
      BY <1>9, <1>10, <2>1
    <2>3. QED
      BY <1>9, <2>2
  <1>12. order \in Seq(S) /\ Len(order) = N
    <2>1. order \in [1 .. N -> S]
      BY <1>5, <1>9
    <2>2. QED
      BY <1>1, <2>1, RowOf
  <1>13. \A x \in S : \E i \in 1 .. N : order[i] = x
    <2>1. SUFFICES ASSUME NEW x \in S, \A i \in 1 .. N : order[i] # x PROVE FALSE
      OBVIOUS
    <2> DEFINE G == {n \in 0 .. N : x \in left[n]}
    <2>2. 0 \in G
      BY <1>1, <1>6
    <2>3. \A n \in 1 .. N : n - 1 \in G => n \in G
      BY <1>1, <1>9, <2>1
    <2> HIDE DEF G
    <2>4. \A n \in 0 .. N : n \in G
      BY <1>1, <2>2, <2>3, UpTo
    <2>5. x \in left[N]
      BY <1>1, <2>4 DEF G
    <2>6. Cardinality(left[N]) = 0 /\ left[N] \in SUBSET S
      BY <1>1, <1>8
    <2>7. IsFiniteSet(left[N])
      BY <2>6, FS_Subset
    <2>8. QED
      BY <2>5, <2>6, <2>7, FS_EmptySet
  <1>14. \A i, j \in 1 .. N : order[i] = order[j] => i = j
    <2>1. \A i, j \in 1 .. N : i < j \/ j < i \/ i = j
      BY <1>1
    <2>2. QED
      BY <1>11, <2>1
  <1>15. QED
    BY <1>11, <1>12, <1>13, <1>14 DEF Ordered, order, N

(* Every key a dashboard has is one of its views'.                         *)
LEMMA KeyedView ==
    ASSUME NEW config \in Configs, NEW key \in Keys(config)
    PROVE  /\ Index(config, key) \in DOMAIN config.views
           /\ Key(config, Index(config, key)) = key
           /\ View(config, key) \in Views
           /\ View(config, key).sections \in Seq(Sections)
  <1> DEFINE L == Len(config.views)
             mine == {v \in DOMAIN config.views : Key(config, v) = key}
             behind == {L - v : v \in mine}
  <1>1. L \in Nat /\ DOMAIN config.views = 1 .. L
    BY ViewsAre
  <1>2. mine # {} /\ mine \subseteq 1 .. L
    BY <1>1 DEF Keys
  <1>3. behind \in SUBSET Nat /\ behind # {}
    <2>1. \A v \in mine : L - v \in Nat
      <3> HIDE DEF L, mine
      <3>1. QED
        BY <1>1, <1>2
    <2> HIDE DEF L, mine
    <2>2. QED
      BY <1>2, <2>1
  <1>4. PICK n \in behind : \A m \in behind : n <= m
    <2> HIDE DEF behind
    <2>1. QED
      BY <1>3, LeastNumber
  <1>5. PICK v \in mine : n = L - v
    BY <1>4
  <1>6. \A w \in mine : L - v <= L - w
    BY <1>4, <1>5
  <1>7. \A w \in DOMAIN config.views : w > v => Key(config, w) # key
    <2>1. \A w \in mine : ~(w > v)
      <3> HIDE DEF L, mine
      <3>1. QED
        BY <1>1, <1>2, <1>5, <1>6
    <2>2. QED
      BY <2>1
  <1>8. v \in DOMAIN config.views /\ Key(config, v) = key
    BY <1>5
  <1>9. Index(config, key) \in DOMAIN config.views /\ Key(config, Index(config, key)) = key
    BY <1>7, <1>8 DEF Index
  <1>10. View(config, key) \in Views
    BY <1>9, ViewsAre DEF View
  <1>11. QED
    BY <1>9, <1>10, ViewIs

(* What a function gives of finitely many values.                          *)
LEMMA ValuesFinite ==
    ASSUME NEW S, IsFiniteSet(S), NEW f, DOMAIN f = S
    PROVE  IsFiniteSet({f[x] : x \in S})
  <1>1. [x \in S |-> f[x]] \in Surjection(S, {f[x] : x \in S})
    BY DEF Surjection
  <1>2. QED
    BY <1>1, FS_Surjection

(* A dashboard has finitely many keys.                                     *)
LEMMA KeysFinite ==
    ASSUME NEW config \in Configs
    PROVE  IsFiniteSet(Keys(config))
  <1> DEFINE f == [v \in DOMAIN config.views |-> Key(config, v)]
  <1>1. IsFiniteSet(DOMAIN config.views)
    BY ViewsAre
  <1>2. Keys(config) = {f[v] : v \in DOMAIN config.views}
    BY DEF Keys
  <1>3. DOMAIN f = DOMAIN config.views
    OBVIOUS
  <1> HIDE DEF f
  <1>4. QED
    BY <1>1, <1>2, <1>3, ValuesFinite

--------------------------------------------------------------------------------
(* A step that writes what a dashboard is made of.                         *)
Sound(s) ==
  /\ s.at \in Nat /\ s.list \in Nat /\ s.index \in Nat
  /\ \/ s.kind = "sections" /\ s.item \in Seq(Sections)
     \/ /\ s.kind = "view" /\ s.action \in {"remove", "insert"}
        /\ s.item \in Views /\ s.index # 0
     \/ /\ s.kind \in {"card", "badge"} /\ s.action \in {"remove", "insert"}
        /\ s.item \in Cards /\ s.index # 0

(* What one planner answers.                                               *)
Planned(steps) == IsFiniteSet(steps) /\ \A s \in steps : s = Refused \/ Sound(s)

(* One step, or none, is an answer of a planner.                           *)
LEMMA OnePlanned ==
    ASSUME NEW s, s = Refused \/ Sound(s)
    PROVE  Planned({s}) /\ Planned({})
  BY FS_Singleton, FS_EmptySet DEF Planned

(* So are the steps of finitely many planners.                             *)
LEMMA AllPlanned ==
    ASSUME NEW S, IsFiniteSet(S), NEW f, DOMAIN f = S, \A x \in S : Planned(f[x])
    PROVE  Planned(UNION {f[x] : x \in S})
  <1>1. \A x \in S : IsFiniteSet(f[x])
    BY DEF Planned
  <1>2. IsFiniteSet(UNION {f[x] : x \in S})
    BY <1>1, UnionFinite
  <1>3. QED
    BY <1>2 DEF Planned

(* And those of two.                                                       *)
LEMMA BothPlanned ==
    ASSUME NEW X, NEW Y, Planned(X), Planned(Y)
    PROVE  Planned(X \cup Y)
  BY FS_Union DEF Planned

(* What is not refused is carried out.                                     *)
LEMMA SettledPlanned ==
    ASSUME NEW steps, Planned(steps), Settled(steps) # {Refused}
    PROVE  /\ Settled(steps) = steps
           /\ IsFiniteSet(Settled(steps)) /\ \A s \in Settled(steps) : Sound(s)
  BY DEF Planned, Settled

--------------------------------------------------------------------------------
(* What was found out about the sections of a view.                        *)
LEMMA ChangeIs ==
    ASSUME NEW one \in Configs, NEW other \in Configs,
           NEW key \in DOMAIN MatchCards(one, other).sections
    PROVE  LET change == MatchCards(one, other).sections[key]
               was == View(one, key).sections
               is == View(other, key).sections
           IN  /\ key \in Keys(one) \cap Keys(other)
               /\ was \in Seq(Sections) /\ is \in Seq(Sections)
               /\ change.pairs = PairViewSections(was, is)
               /\ PairedSections(was, is, change.pairs)
               /\ change.removed \subseteq DOMAIN was /\ change.added \subseteq DOMAIN is
               /\ change.removed \cap {p.old : p \in change.pairs} = {}
  <1> DEFINE all == PairSections(one, other)
             cards == MatchSlots(one, other, "card", all)
             settled == SettleSections(one, other, all, cards)
             was == View(one, key)
             is == View(other, key)
             restOld == DOMAIN was.sections \ {p.old : p \in all[key]}
             restNew == DOMAIN is.sections \ {p.new : p \in all[key]}
             fewer == Len(was.sections) - Len(is.sections)
  <1>1. MatchCards(one, other).sections = settled
    BY DEF MatchCards
  <1> HIDE DEF cards
  <1>2. DOMAIN settled = DOMAIN all /\ DOMAIN all = ComparedViews(one, other)
    BY DEF SettleSections, PairSections
  <1>3. key \in Keys(one) \cap Keys(other) /\ key \in DOMAIN all
    BY <1>1, <1>2 DEF ComparedViews
  <1>4. all[key] = PairViewSections(was.sections, is.sections)
    BY <1>2, <1>3 DEF PairSections
  <1>5. was.sections \in Seq(Sections) /\ is.sections \in Seq(Sections)
    BY <1>3, KeyedView
  <1> HIDE DEF all
  <1>6. /\ settled[key].pairs = all[key]
        /\ settled[key].removed = IF fewer = 1
             THEN WholeSections(was, key, restOld, cards.removed, FALSE) ELSE {}
        /\ settled[key].added = IF fewer = -1
             THEN WholeSections(is, key, restNew, cards.added, TRUE) ELSE {}
    BY <1>3 DEF SettleSections
  <1> HIDE DEF settled, was, is
  <1>7. /\ WholeSections(was, key, restOld, cards.removed, FALSE) \subseteq restOld
        /\ WholeSections(is, key, restNew, cards.added, TRUE) \subseteq restNew
    <2> HIDE DEF restOld, restNew
    <2>1. QED
      BY DEF WholeSections
  <1>8. settled[key].removed \subseteq restOld /\ settled[key].added \subseteq restNew
    <2> HIDE DEF restOld, restNew, fewer
    <2>1. QED
      BY <1>6, <1>7
  <1>9. PairedSections(was.sections, is.sections, all[key])
    BY <1>4, <1>5, SectionsPaired
  <1>10. QED
    BY <1>1, <1>3, <1>4, <1>5, <1>6, <1>8, <1>9 DEF was, is

(* Finitely many views are compared.                                       *)
LEMMA CompareFinite ==
    ASSUME NEW one \in Configs, NEW other \in Configs
    PROVE  IsFiniteSet(DOMAIN MatchCards(one, other).sections)
  <1>1. DOMAIN MatchCards(one, other).sections = ComparedViews(one, other)
    BY DEF MatchCards, SettleSections, PairSections
  <1>2. ComparedViews(one, other) \subseteq Keys(one)
    BY DEF ComparedViews
  <1>3. QED
    BY <1>1, <1>2, KeysFinite, FS_Subset

(* Sections that stand where the change left them are as many.             *)
LEMMA NotRearranged ==
    ASSUME NEW left, NEW now, left.sections \in Seq(Sections), now.sections \in Seq(Sections),
           ~Rearranged(left, now)
    PROVE  Len(left.sections) = Len(now.sections)
  <1> DEFINE since == PairViewSections(left.sections, now.sections)
  <1>1. PairedSections(left.sections, now.sections, since)
    BY SectionsPaired
  <1>2. /\ DOMAIN left.sections = {p.old : p \in since}
        /\ DOMAIN now.sections = {p.new : p \in since} /\ Moved(since) = {}
    BY DEF Rearranged
  <1> HIDE DEF since
  <1>3. Couples(since) /\ IsFiniteSet(since)
    BY <1>1 DEF PairedSections
  <1>4. InOrderOfNews(since)
    <2>1. since \ Moved(since) = since
      BY <1>2
    <2>2. QED
      BY <1>3, <2>1, UnmovedInOrder
  <1>5. /\ Len(left.sections) \in Nat /\ DOMAIN left.sections = 1 .. Len(left.sections)
        /\ Len(now.sections) \in Nat /\ DOMAIN now.sections = 1 .. Len(now.sections)
    BY RowFinite
  <1>6. \A p \in since : p.old \in 1 .. Len(left.sections) /\ p.new \in 1 .. Len(now.sections)
    BY <1>1 DEF PairedSections
  <1>7. /\ \A i \in 1 .. Len(left.sections) : \E p \in since : p.old = i
        /\ \A j \in 1 .. Len(now.sections) : \E p \in since : p.new = j
    BY <1>2, <1>5
  <1>8. QED
    BY <1>3, <1>4, <1>5, <1>6, <1>7, PairedInStep

(* A row of sections that is written is one.                               *)
LEMMA SectionStepSound ==
    ASSUME NEW now, NEW at \in Nat, NEW row \in Seq(Sections), NEW parked
    PROVE  Sound(SectionsStep(now, at, row, parked))
  BY DEF Sound, SectionsStep

(* The planner for the sections of one view answers steps, or refuses.     *)
LEMMA SectionsPlanned ==
    ASSUME NEW one \in Configs, NEW other \in Configs, NEW today \in Configs,
           NEW key \in DOMAIN MatchCards(one, other).sections
    PROVE  Planned(PlanSections(key, MatchCards(one, other), one, other, today))
  <1> DEFINE match == MatchCards(one, other)
             change == match.sections[key]
             then == View(one, key)
             left == View(other, key)
             now == View(today, key)
             at == Index(today, key)
             stays == {p \in change.pairs : p.how # "settings"}
             Target(s) ==
               IF \E p \in stays : p.old = s
               THEN now.sections[(CHOOSE p \in stays : p.old = s).new]
               ELSE then.sections[s]
             row == [s \in DOMAIN then.sections |-> Target(s)]
             gone == then.sections[CHOOSE s \in change.removed : TRUE]
             plan == PlanSections(key, match, one, other, today)
  <1>1. /\ then.sections \in Seq(Sections) /\ left.sections \in Seq(Sections)
        /\ PairedSections(then.sections, left.sections, change.pairs)
        /\ change.removed \subseteq DOMAIN then.sections
    BY ChangeIs
  <1>2. \/ plan = {} \/ plan = {Refused}
        \/ /\ key \in Keys(today) /\ Cardinality(change.removed) = 1
           /\ plan = ParkRemovedSection(left, now, at, gone)
        \/ /\ key \in Keys(today) /\ ~Rearranged(left, now)
           /\ plan = {SectionsStep(now, at, row, FALSE)}
    BY DEF PlanSections
  <1>3. key \in Keys(today) => at \in Nat /\ now.sections \in Seq(Sections)
    BY KeyedView, ViewsAre
  <1>0. SUFFICES Planned(plan)
    OBVIOUS
  <1> HIDE DEF match, then, left, now, at, plan
  <1>4. CASE /\ key \in Keys(today) /\ Cardinality(change.removed) = 1
             /\ plan = ParkRemovedSection(left, now, at, gone)
    <2>1. change.removed # {}
      BY <1>4, FS_EmptySet
    <2>2. gone \in Sections
      <3>1. (CHOOSE s \in change.removed : TRUE) \in change.removed
        BY <2>1
      <3>2. QED
        BY <1>1, <3>1, RowFinite
    <2>3. Append(now.sections, gone) \in Seq(Sections)
      <3> HIDE DEF gone
      <3>1. QED
        BY <1>3, <1>4, <2>2, AppendProperties
    <2>4. Sound(SectionsStep(now, at, Append(now.sections, gone), TRUE))
      BY <1>3, <1>4, <2>3, SectionStepSound
    <2> HIDE DEF gone
    <2>5. plan = {} \/ plan = {SectionsStep(now, at, Append(now.sections, gone), TRUE)}
      BY <1>4 DEF ParkRemovedSection
    <2>6. QED
      BY <2>4, <2>5, OnePlanned
  <1>5. CASE /\ key \in Keys(today) /\ ~Rearranged(left, now)
             /\ plan = {SectionsStep(now, at, row, FALSE)}
    <2>1. Len(left.sections) = Len(now.sections)
      BY <1>1, <1>3, <1>5, NotRearranged
    <2>2. \A p \in stays : p.new \in 1 .. Len(now.sections)
      BY <1>1, <2>1 DEF PairedSections
    <2>3. \A s \in DOMAIN then.sections : Target(s) \in Sections
      <3>1. SUFFICES ASSUME NEW s \in DOMAIN then.sections PROVE Target(s) \in Sections
        OBVIOUS
      <3>2. CASE \E p \in stays : p.old = s
        <4>1. (CHOOSE p \in stays : p.old = s) \in stays
          BY <3>2
        <4>2. now.sections[(CHOOSE p \in stays : p.old = s).new] \in Sections
          BY <1>3, <1>5, <2>2, <4>1, RowFinite
        <4>3. QED
          BY <3>2, <4>2
      <3>3. CASE ~\E p \in stays : p.old = s
        BY <1>1, <3>3, RowFinite
      <3>4. QED
        BY <3>2, <3>3
    <2>4. row \in Seq(Sections)
      <3>1. Len(then.sections) \in Nat /\ DOMAIN then.sections = 1 .. Len(then.sections)
        BY <1>1, RowFinite
      <3> HIDE DEF Target
      <3>2. row \in [1 .. Len(then.sections) -> Sections]
        BY <2>3, <3>1
      <3> HIDE DEF row
      <3>3. QED
        BY <3>1, <3>2, RowOf
    <2> HIDE DEF row
    <2>5. QED
      BY <1>3, <1>5, <2>4, SectionStepSound, OnePlanned
  <1>6. CASE plan = {} \/ plan = {Refused}
    BY <1>6, OnePlanned
  <1>7. QED
    BY <1>2, <1>4, <1>5, <1>6

(* So do the planners for all of them.                                     *)
LEMMA AllSectionsPlanned ==
    ASSUME NEW one \in Configs, NEW other \in Configs, NEW today \in Configs
    PROVE  LET match == MatchCards(one, other)
           IN  Planned(UNION {PlanSections(key, match, one, other, today) : key \in DOMAIN match.sections})
  <1> DEFINE match == MatchCards(one, other)
             S == DOMAIN match.sections
             f == [key \in S |-> PlanSections(key, match, one, other, today)]
  <1>1. IsFiniteSet(S)
    BY CompareFinite
  <1>2. \A key \in S : Planned(PlanSections(key, match, one, other, today))
    BY SectionsPlanned
  <1>3. DOMAIN f = S /\ \A key \in S : f[key] = PlanSections(key, match, one, other, today)
    OBVIOUS
  <1> HIDE DEF f, S, match
  <1>4. Planned(UNION {f[key] : key \in S})
    BY <1>1, <1>2, <1>3, AllPlanned
  <1>5. {f[key] : key \in S} = {PlanSections(key, match, one, other, today) : key \in S}
    BY <1>3
  <1>6. QED
    BY <1>4, <1>5 DEF S, match

(* A step for an item writes one, at an index there is.                    *)
LEMMA StepSound ==
    ASSUME NEW action \in {"remove", "insert"}, NEW kind \in {"card", "badge"},
           NEW config \in Configs, NEW keys, NEW s \in Slots(config, keys, kind)
    PROVE  Sound(Step(action, kind, config, s))
  BY SlotType DEF Sound, Step

(* So does the one that takes an item away.                                *)
LEMMA TakeAwayPlanned ==
    ASSUME NEW kind \in {"card", "badge"}, NEW slot, NEW left, NEW today \in Configs
    PROVE  Planned(TakeAway(kind, slot, Present(today, kind), left, today))
  <1> DEFINE now == Present(today, kind)
             sole == Sole(slot, now, left)
             f == [s \in sole |-> Step("remove", kind, today, s)]
  <1>1. sole \subseteq now
    BY DEF Sole, Alike, InView
  <1>2. now = Slots(today, Keys(today), kind)
    BY DEF Present
  <1>3. IsFiniteSet(sole) /\ \A s \in sole : Sound(Step("remove", kind, today, s))
    <2> HIDE DEF now, sole
    <2>1. IsFiniteSet(sole)
      BY <1>1, <1>2, SlotsFinite, FS_Subset
    <2>2. QED
      BY <1>1, <1>2, <2>1, StepSound
  <1>4. TakeAway(kind, slot, now, left, today) = IF sole = {} THEN {Refused} ELSE {f[s] : s \in sole}
    BY DEF TakeAway
  <1>5. DOMAIN f = sole /\ \A s \in sole : f[s] = Step("remove", kind, today, s)
    OBVIOUS
  <1> HIDE DEF f, sole, now
  <1>6. IsFiniteSet({f[s] : s \in sole})
    BY <1>3, <1>5, ValuesFinite
  <1>7. Planned({f[s] : s \in sole})
    BY <1>3, <1>5, <1>6 DEF Planned
  <1>8. Planned(TakeAway(kind, slot, now, left, today))
    BY <1>4, <1>7, OnePlanned
  <1>9. QED
    BY <1>8 DEF now

(* An item that is put back is a card, at an index there is.               *)
LEMMA PutBackSound ==
    ASSUME NEW kind \in {"card", "badge"}, NEW config \in Configs, NEW keys,
           NEW s \in Slots(config, keys, kind), NEW drift
    PROVE  Sound(PutBackStep(kind, s, config, drift))
  <1>1. Sound(Step("insert", kind, config, s))
    BY StepSound
  <1>2. QED
    BY <1>1 DEF PutBackStep, Sound, Step

(* The steps for cards, or badges, unless they are refused.                *)
LEMMA ItemsPlanned ==
    ASSUME NEW kind \in {"card", "badge"},
           NEW one \in Configs, NEW other \in Configs, NEW today \in Configs,
           NEW keys, NEW changed \in SUBSET (Slots(one, keys, kind) \X Slots(other, keys, kind)),
           NEW added \in SUBSET Slots(other, keys, kind),
           NEW removed \in SUBSET Slots(one, keys, kind), NEW drift,
           PlanItems(kind, changed, added, removed, one, other, today, drift) # {Refused}
    PROVE  LET plan == PlanItems(kind, changed, added, removed, one, other, today, drift)
           IN  IsFiniteSet(plan) /\ \A s \in plan : Sound(s)
  <1> DEFINE now == Present(today, kind)
             left == Present(other, kind)
             go == News(changed) \cup added
             take == [s \in go |-> TakeAway(kind, s, now, left, today)]
             back == [s \in Olds(changed) |-> PutBackStep(kind, s, one, drift)]
             again == [s \in removed |-> Replace(kind, s, removed, now, left, one, drift)]
             X == UNION {take[s] : s \in go}
             Y == {back[s] : s \in Olds(changed)}
             Z == UNION {again[s] : s \in removed}
  <1>1. /\ IsFiniteSet(go) /\ IsFiniteSet(Olds(changed)) /\ IsFiniteSet(removed)
        /\ Olds(changed) \subseteq Slots(one, keys, kind)
    <2>1. IsFiniteSet(Slots(one, keys, kind)) /\ IsFiniteSet(Slots(other, keys, kind))
      BY SlotsFinite
    <2>2. go \subseteq Slots(other, keys, kind) /\ Olds(changed) \subseteq Slots(one, keys, kind)
      BY DEF Olds, News
    <2> HIDE DEF go
    <2>3. QED
      BY <2>1, <2>2, FS_Subset
  <1>2. Planned(X)
    <2>1. \A s \in go : Planned(take[s])
      BY TakeAwayPlanned
    <2>2. DOMAIN take = go
      OBVIOUS
    <2> HIDE DEF take, go
    <2>3. QED
      BY <1>1, <2>1, <2>2, AllPlanned
  <1>3. Planned(Y)
    <2>1. \A s \in Olds(changed) : Sound(back[s])
      BY <1>1, PutBackSound
    <2>2. DOMAIN back = Olds(changed)
      OBVIOUS
    <2> HIDE DEF back
    <2>3. IsFiniteSet(Y)
      BY <1>1, <2>2, ValuesFinite
    <2>4. QED
      BY <2>1, <2>3 DEF Planned
  <1>4. Planned(Z)
    <2>1. ASSUME NEW s \in removed PROVE Planned(again[s])
      <3>1. Sound(PutBackStep(kind, s, one, drift))
        BY PutBackSound
      <3>2. \/ again[s] = {} \/ again[s] = {Refused}
            \/ again[s] = {PutBackStep(kind, s, one, drift)}
        BY DEF Replace
      <3> HIDE DEF again
      <3>3. QED
        BY <3>1, <3>2, OnePlanned
    <2>2. DOMAIN again = removed
      OBVIOUS
    <2> HIDE DEF again
    <2>3. QED
      BY <1>1, <2>1, <2>2, AllPlanned
  <1>5. PlanItems(kind, changed, added, removed, one, other, today, drift) = Settled(X \cup Y \cup Z)
    <2>1. {take[s] : s \in go} = {TakeAway(kind, s, now, left, today) : s \in go}
      OBVIOUS
    <2>2. Y = {PutBackStep(kind, s, one, drift) : s \in Olds(changed)}
      OBVIOUS
    <2>3. {again[s] : s \in removed} = {Replace(kind, s, removed, now, left, one, drift) : s \in removed}
      OBVIOUS
    <2> HIDE DEF take, again, back
    <2>4. QED
      BY <2>1, <2>2, <2>3 DEF PlanItems
  <1> HIDE DEF X, Y, Z
  <1>6. Planned(X \cup Y \cup Z)
    BY <1>2, <1>3, <1>4, BothPlanned
  <1>7. QED
    BY <1>5, <1>6, SettledPlanned

(* Both sides of a matching are items of the two dashboards.               *)
LEMMA OutcomeType ==
    ASSUME NEW one \in Configs, NEW other \in Configs, NEW kind, NEW sections
    PROVE  LET match == MatchSlots(one, other, kind, sections)
               olds == Slots(one, Keys(one) \cap Keys(other), kind)
               news == Slots(other, Keys(one) \cap Keys(other), kind)
           IN  /\ match.edited \cup match.moved \in SUBSET (olds \X news)
               /\ match.removed \in SUBSET olds /\ match.added \in SUBSET news
  <1> DEFINE m == Matching(one, other, kind, sections)
             match == MatchSlots(one, other, kind, sections)
             olds == Slots(one, Keys(one) \cap Keys(other), kind)
             news == Slots(other, Keys(one) \cap Keys(other), kind)
  <1>1. match = Outcome(m) /\ Matched(m, olds, news)
    BY MatchingIs
  <1> HIDE DEF m, match, olds, news
  <1>2. /\ match.edited \cup match.moved \in SUBSET (olds \X news)
        /\ match.removed \in SUBSET olds /\ match.added \in SUBSET news
    BY <1>1 DEF Outcome, Reordered, Matched, Matchings
  <1>3. QED
    BY <1>2 DEF match, olds, news

(* The steps for the cards.                                                *)
LEMMA CardsPlanned ==
    ASSUME NEW one \in Configs, NEW other \in Configs, NEW today \in Configs,
           PlanCardSteps(MatchCards(one, other), one, other, today) # {Refused}
    PROVE  LET plan == PlanCardSteps(MatchCards(one, other), one, other, today)
           IN  IsFiniteSet(plan) /\ \A s \in plan : Sound(s)
  <1> DEFINE match == MatchCards(one, other)
             keys == Keys(one) \cap Keys(other)
             changed == match.cards.edited \cup match.cards.moved
             added == Loose(match.cards.added, match.sections, "added")
             removed == Loose(match.cards.removed, match.sections, "removed")
             drift == SectionDrift(other, today)
  <1>1. match.cards = MatchSlots(one, other, "card", PairSections(one, other))
    BY DEF MatchCards
  <1> HIDE DEF match
  <1>2. /\ changed \in SUBSET (Slots(one, keys, "card") \X Slots(other, keys, "card"))
        /\ match.cards.removed \in SUBSET Slots(one, keys, "card")
        /\ match.cards.added \in SUBSET Slots(other, keys, "card")
    BY <1>1, OutcomeType
  <1>3. added \in SUBSET Slots(other, keys, "card") /\ removed \in SUBSET Slots(one, keys, "card")
    BY <1>2 DEF Loose
  <1>4. PlanCardSteps(match, one, other, today)
          = PlanItems("card", changed, added, removed, one, other, today, drift)
    BY DEF PlanCardSteps
  <1> HIDE DEF changed, added, removed, drift, keys
  <1>5. PlanItems("card", changed, added, removed, one, other, today, drift) # {Refused}
    BY <1>4 DEF match
  <1>6. LET plan == PlanItems("card", changed, added, removed, one, other, today, drift)
        IN  IsFiniteSet(plan) /\ \A s \in plan : Sound(s)
    BY <1>2, <1>3, <1>5, ItemsPlanned
  <1>7. QED
    BY <1>4, <1>6 DEF match

(* The steps for the badges.                                               *)
LEMMA BadgesPlanned ==
    ASSUME NEW one \in Configs, NEW other \in Configs, NEW today \in Configs,
           PlanBadgeSteps(MatchBadges(one, other), one, other, today) # {Refused}
    PROVE  LET plan == PlanBadgeSteps(MatchBadges(one, other), one, other, today)
           IN  IsFiniteSet(plan) /\ \A s \in plan : Sound(s)
  <1> DEFINE match == MatchBadges(one, other)
             keys == Keys(one) \cap Keys(other)
             changed == match.edited \cup match.moved
  <1>1. match = MatchSlots(one, other, "badge", [key \in {} |-> {}])
    BY DEF MatchBadges
  <1>2. /\ changed \in SUBSET (Slots(one, keys, "badge") \X Slots(other, keys, "badge"))
        /\ match.removed \in SUBSET Slots(one, keys, "badge")
        /\ match.added \in SUBSET Slots(other, keys, "badge")
    <2> HIDE DEF match
    <2>1. QED
      BY <1>1, OutcomeType
  <1> HIDE DEF match
  <1>3. PlanBadgeSteps(match, one, other, today)
          = PlanItems("badge", changed, match.added, match.removed, one, other, today, {})
    BY DEF PlanBadgeSteps
  <1> HIDE DEF changed, keys
  <1>4. PlanItems("badge", changed, match.added, match.removed, one, other, today, {}) # {Refused}
    BY <1>3 DEF match
  <1>5. LET plan == PlanItems("badge", changed, match.added, match.removed, one, other, today, {})
        IN  IsFiniteSet(plan) /\ \A s \in plan : Sound(s)
    BY <1>2, <1>4, ItemsPlanned
  <1>6. QED
    BY <1>3, <1>5 DEF match

(* The steps for whole views.                                              *)
LEMMA ViewsPlanned ==
    ASSUME NEW one \in Configs, NEW other \in Configs, NEW today \in Configs,
           PlanViewSteps(one, other, today) # {Refused}
    PROVE  LET plan == PlanViewSteps(one, other, today)
           IN  IsFiniteSet(plan) /\ \A s \in plan : Sound(s)
  <1> DEFINE came == {w \in DOMAIN other.views : Key(other, w) \notin Keys(one)}
             went == {w \in DOMAIN one.views : Key(one, w) \notin Keys(other)}
             f == [v \in came |-> PlanAddedView(v, other, today)]
             g == [v \in went |-> PlanRemovedView(v, one, today)]
             X == UNION {f[v] : v \in came}
             Y == UNION {g[v] : v \in went}
  <1>1. \A config \in Configs : \A v \in DOMAIN config.views, w \in DOMAIN config.views, action \in {"remove", "insert"} :
          Sound(ViewStep(action, config.views[v], w))
    BY ViewsAre DEF Sound, ViewStep
  <1>2. IsFiniteSet(came) /\ IsFiniteSet(went)
    <2>1. IsFiniteSet(DOMAIN other.views) /\ IsFiniteSet(DOMAIN one.views)
      BY ViewsAre
    <2>2. QED
      BY <2>1, FS_Subset
  <1>3. ASSUME NEW v \in came PROVE Planned(PlanAddedView(v, other, today))
    <2> DEFINE view == other.views[v]
               found == {w \in DOMAIN today.views : today.views[w] = view}
               h == [w \in found |-> ViewStep("remove", view, w)]
    <2>1. IsFiniteSet(found) /\ \A w \in found : Sound(h[w])
      <3>1. IsFiniteSet(DOMAIN today.views)
        BY ViewsAre
      <3>2. IsFiniteSet(found)
        BY <3>1, FS_Subset
      <3>3. \A w \in found : Sound(ViewStep("remove", today.views[w], w))
        BY <1>1
      <3>4. QED
        BY <3>2, <3>3
    <2>2. PlanAddedView(v, other, today) = {Refused} \/ PlanAddedView(v, other, today) = {h[w] : w \in found}
      BY DEF PlanAddedView
    <2>3. DOMAIN h = found
      OBVIOUS
    <2> HIDE DEF h, found
    <2>4. IsFiniteSet({h[w] : w \in found})
      BY <2>1, <2>3, ValuesFinite
    <2>5. Planned({h[w] : w \in found})
      BY <2>1, <2>4 DEF Planned
    <2>6. QED
      BY <2>2, <2>5, OnePlanned
  <1>4. ASSUME NEW v \in went PROVE Planned(PlanRemovedView(v, one, today))
    <2>1. Sound(ViewStep("insert", one.views[v], v))
      BY <1>1
    <2>2. \/ PlanRemovedView(v, one, today) = {} \/ PlanRemovedView(v, one, today) = {Refused}
          \/ PlanRemovedView(v, one, today) = {ViewStep("insert", one.views[v], v)}
      BY DEF PlanRemovedView
    <2>3. QED
      BY <2>1, <2>2, OnePlanned
  <1>5. DOMAIN f = came /\ DOMAIN g = went /\ (\A v \in came : Planned(f[v])) /\ (\A v \in went : Planned(g[v]))
    BY <1>3, <1>4
  <1>6. PlanViewSteps(one, other, today) = Settled(X \cup Y)
    <2>1. {f[v] : v \in came} = {PlanAddedView(v, other, today) : v \in came}
      OBVIOUS
    <2>2. {g[v] : v \in went} = {PlanRemovedView(v, one, today) : v \in went}
      OBVIOUS
    <2> HIDE DEF f, g
    <2>3. QED
      BY <2>1, <2>2 DEF PlanViewSteps
  <1> HIDE DEF f, g, came, went
  <1>7. Planned(X) /\ Planned(Y)
    BY <1>2, <1>5, AllPlanned
  <1> HIDE DEF X, Y
  <1>8. Planned(X \cup Y)
    BY <1>7, BothPlanned
  <1>9. QED
    BY <1>6, <1>8, SettledPlanned

(* The rows of sections that are written, and the titles, are rows of      *)
(* sections and titles.                                                    *)
LEMMA SectionStepsPlanned ==
    ASSUME NEW one \in Configs, NEW other \in Configs, NEW today \in Configs,
           PlanSectionSteps(MatchCards(one, other), one, other, today) # {Refused}
    PROVE  LET plan == PlanSectionSteps(MatchCards(one, other), one, other, today)
           IN  IsFiniteSet(plan) /\ \A s \in plan : Sound(s)
  <1> DEFINE match == MatchCards(one, other)
             X == UNION {PlanSections(key, match, one, other, today) : key \in DOMAIN match.sections}
  <1>1. Planned(X)
    BY AllSectionsPlanned
  <1>2. PlanSectionSteps(match, one, other, today) = Settled(X)
    BY DEF PlanSectionSteps
  <1> HIDE DEF X, match
  <1>3. Settled(X) # {Refused}
    BY <1>2 DEF match
  <1>4. IsFiniteSet(Settled(X)) /\ \A s \in Settled(X) : Sound(s)
    BY <1>1, <1>3, SettledPlanned
  <1>5. QED
    BY <1>2, <1>4 DEF match

(* A title that is written is one that stood there.                        *)
LEMMA SettingsPlanned ==
    ASSUME NEW one \in Configs, NEW other \in Configs, NEW today \in Configs,
           PlanSettingSteps(one, other, today) # {Refused}
    PROVE  \A s \in PlanSettingSteps(one, other, today) : s.title \in Titles
  <1> DEFINE X == UNION {PlanSetting(c, today) : c \in SettingChanges(one, other)}
  <1>1. ASSUME NEW c \in SettingChanges(one, other) PROVE c.was \in Titles
    <2>1. one.title \in Titles
      BY DEF Configs
    <2>2. \A key \in Keys(one) : View(one, key).title \in Titles
      BY KeyedView, ViewIs DEF Views
    <2>3. QED
      BY <2>1, <2>2 DEF SettingChanges
  <1>2. \A s \in X : s = Refused \/ s.title \in Titles
    BY <1>1 DEF PlanSetting
  <1>3. PlanSettingSteps(one, other, today) = Settled(X)
    BY DEF PlanSettingSteps
  <1> HIDE DEF X
  <1>4. Refused \notin X /\ Settled(X) = X
    BY <1>3 DEF Settled
  <1>5. QED
    BY <1>2, <1>3, <1>4

(* A plan that goes ahead consists of steps that write what a dashboard is *)
(* made of.                                                                *)
SoundPlan(plan) ==
  /\ IsFiniteSet(plan.steps) /\ \A s \in plan.steps : Sound(s)
  /\ \A s \in plan.settings : s.title \in Titles

(* The steps of a plan that goes ahead.                                    *)
LEMMA UndoPlanned ==
    ASSUME NEW one \in Configs, NEW other \in Configs, NEW today \in Configs,
           ~PlanUndo(one, other, today).blocked
    PROVE  SoundPlan(PlanUndo(one, other, today))
  <1> DEFINE match == MatchCards(one, other)
             badges == MatchBadges(one, other)
             a == PlanSectionSteps(match, one, other, today)
             b == PlanSettingSteps(one, other, today)
             c == PlanCardSteps(match, one, other, today)
             d == PlanBadgeSteps(badges, one, other, today)
             e == PlanViewSteps(one, other, today)
             meet == \E s \in a, t \in c : SameView(t, s)
             plan == PlanUndo(one, other, today)
  <1>1. plan = IF Gated(one, other, today) \/ {Refused} \in {a, b, c, d, e} \/ meet
               THEN [blocked |-> TRUE]
               ELSE [blocked |-> FALSE, settings |-> b, steps |-> a \cup c \cup d \cup e]
    BY DEF PlanUndo
  <1> HIDE DEF meet, plan, a, b, c, d, e
  <1>2. {Refused} \notin {a, b, c, d, e} /\ plan.settings = b /\ plan.steps = a \cup c \cup d \cup e
    BY <1>1 DEF plan
  <1>3. IsFiniteSet(a) /\ \A s \in a : Sound(s)
    BY <1>2, SectionStepsPlanned DEF a
  <1>4. \A s \in b : s.title \in Titles
    BY <1>2, SettingsPlanned DEF b
  <1>5. IsFiniteSet(c) /\ \A s \in c : Sound(s)
    BY <1>2, CardsPlanned DEF c
  <1>6. IsFiniteSet(d) /\ \A s \in d : Sound(s)
    BY <1>2, BadgesPlanned DEF d
  <1>7. IsFiniteSet(e) /\ \A s \in e : Sound(s)
    BY <1>2, ViewsPlanned DEF e
  <1>8. IsFiniteSet(a \cup c \cup d \cup e)
    BY <1>3, <1>5, <1>6, <1>7, FS_Union
  <1>9. QED
    BY <1>2, <1>3, <1>4, <1>5, <1>6, <1>7, <1>8 DEF SoundPlan, plan

--------------------------------------------------------------------------------
(* Whose turn comes first has no circles.                                  *)
LEMMA TurnType ==
    ASSUME NEW s, Sound(s)
    PROVE  Turn(s) \in Seq(Int) /\ \A n \in 1 .. 5 : Turn(s)[n] \in Int
  <1>1. \A a, b, c, d, e \in Int : <<a, b, c, d, e>> \in Seq(Int)
                                   /\ \A n \in 1 .. 5 : <<a, b, c, d, e>>[n] \in Int
    OBVIOUS
  <1>2. s.at \in Int /\ s.list \in Int /\ s.index \in Int /\ -s.index \in Int
    BY DEF Sound
  <1>3. QED
    BY <1>1, <1>2 DEF Turn, Rank

Lower(a, b) ==
  \/ a[1] < b[1]
  \/ a[1] = b[1] /\ a[2] < b[2]
  \/ a[1] = b[1] /\ a[2] = b[2] /\ a[3] < b[3]
  \/ a[1] = b[1] /\ a[2] = b[2] /\ a[3] = b[3] /\ a[4] < b[4]
  \/ a[1] = b[1] /\ a[2] = b[2] /\ a[3] = b[3] /\ a[4] = b[4] /\ a[5] < b[5]

(* Rows of numbers compared from the left: that order has no circles.      *)
LEMMA LowerStrict ==
    ASSUME NEW a, NEW b, NEW c, \A n \in 1 .. 5 : a[n] \in Int /\ b[n] \in Int /\ c[n] \in Int
    PROVE  ~Lower(a, a) /\ (Lower(a, b) /\ Lower(b, c) => Lower(a, c))
  <1>1. /\ a[1] \in Int /\ a[2] \in Int /\ a[3] \in Int /\ a[4] \in Int /\ a[5] \in Int
        /\ b[1] \in Int /\ b[2] \in Int /\ b[3] \in Int /\ b[4] \in Int /\ b[5] \in Int
        /\ c[1] \in Int /\ c[2] \in Int /\ c[3] \in Int /\ c[4] \in Int /\ c[5] \in Int
    OBVIOUS
  <1>2. QED
    BY <1>1 DEF Lower

(* Turns are compared that way.                                            *)
LEMMA TurnsAre ==
    ASSUME NEW s, NEW t
    PROVE  TakesTurnBefore(s, t) <=> Lower(Turn(s), Turn(t))
  <1> DEFINE a == Turn(s)
             b == Turn(t)
  <1>1. TakesTurnBefore(s, t) <=> \E n \in 1 .. 5 : a[n] < b[n] /\ \A m \in 1 .. n - 1 : a[m] = b[m]
    BY DEF TakesTurnBefore
  <1> HIDE DEF a, b
  <1>2. \A n : n \in 1 .. 5 <=> n = 1 \/ n = 2 \/ n = 3 \/ n = 4 \/ n = 5
    OBVIOUS
  <1>3. /\ \A m : m \in 1 .. 1 - 1 <=> FALSE
        /\ \A m : m \in 1 .. 2 - 1 <=> m = 1
        /\ \A m : m \in 1 .. 3 - 1 <=> m = 1 \/ m = 2
        /\ \A m : m \in 1 .. 4 - 1 <=> m = 1 \/ m = 2 \/ m = 3
        /\ \A m : m \in 1 .. 5 - 1 <=> m = 1 \/ m = 2 \/ m = 3 \/ m = 4
    OBVIOUS
  <1>4. QED
    BY <1>1, <1>2, <1>3 DEF Lower, a, b

ByTurn(steps) == {st \in steps \X steps : TakesTurnBefore(st[1], st[2])}

(* So the order of the steps has none.                                     *)
LEMMA TurnsStrict ==
    ASSUME NEW steps, \A s \in steps : Sound(s)
    PROVE  Strict(steps, ByTurn(steps))
  <1>1. \A x, y \in steps : <<x, y>> \in ByTurn(steps) <=> Lower(Turn(x), Turn(y))
    BY TurnsAre DEF ByTurn
  <1>2. \A x, y, z \in steps : ~Lower(Turn(x), Turn(x))
          /\ (Lower(Turn(x), Turn(y)) /\ Lower(Turn(y), Turn(z)) => Lower(Turn(x), Turn(z)))
    BY TurnType, LowerStrict
  <1>3. QED
    BY <1>1, <1>2 DEF Strict

(* The views a step is for are views of the dashboard.                     *)
LEMMA FoundViews ==
    ASSUME NEW config, NEW s, NEW v \in FindView(config, s)
    PROVE  v \in DOMAIN config.views
  BY DEF FindView

(* A list of a view is a list of cards.                                    *)
LEMMA ListType ==
    ASSUME NEW config \in Configs, NEW v \in DOMAIN config.views, NEW kind,
           NEW l \in DOMAIN Lists(config.views[v], kind)
    PROVE  Lists(config.views[v], kind)[l] \in Seq(Cards)
  <1>1. config.views[v] \in Views
    BY ViewsAre
  <1>2. QED
    BY <1>1, ListsType

(* Taking an item out, putting one in and parking one leave a dashboard.   *)
LEMMA ItemStepsType ==
    ASSUME NEW config \in Configs, NEW s, Sound(s), s.kind \in {"card", "badge"}
    PROVE  /\ TakeItem(config, s) \subseteq Configs
           /\ PutItem(config, s) \subseteq Configs
           /\ ParkItem(config, s) \subseteq Configs
  <1>1. s.item \in Cards /\ s.index \in Nat \ {0}
    BY DEF Sound
  <1>2. ASSUME NEW v \in FindView(config, s), s.list \in DOMAIN Lists(config.views[v], s.kind),
               s.index \in DOMAIN Lists(config.views[v], s.kind)[s.list]
        PROVE  WithList(config, v, s.kind, s.list,
                        RemoveAt(Lists(config.views[v], s.kind)[s.list], s.index)) \in Configs
    <2> DEFINE items == Lists(config.views[v], s.kind)[s.list]
    <2>1. v \in DOMAIN config.views
      BY FoundViews
    <2>2. items \in Seq(Cards)
      BY <1>2, <2>1, ListType
    <2>3. s.index \in 1 .. Len(items)
      BY <1>2, <2>2
    <2> HIDE DEF items
    <2>4. RemoveAt(items, s.index) \in Seq(Cards)
      BY <2>2, <2>3, RemoveAtIs
    <2>5. QED
      BY <2>1, <2>4, WithListType DEF items
  <1>3. ASSUME NEW v \in FindView(config, s), s.list \in DOMAIN Lists(config.views[v], s.kind)
        PROVE  WithList(config, v, s.kind, s.list,
                        PutAt(Lists(config.views[v], s.kind)[s.list], s.index, s.item)) \in Configs
    <2> DEFINE items == Lists(config.views[v], s.kind)[s.list]
    <2>1. v \in DOMAIN config.views
      BY FoundViews
    <2>2. items \in Seq(Cards)
      BY <1>3, <2>1, ListType
    <2> HIDE DEF items
    <2>3. PutAt(items, s.index, s.item) \in Seq(Cards)
      BY <1>1, <2>2, PutAtIs
    <2>4. QED
      BY <2>1, <2>3, WithListType DEF items
  <1>4. ASSUME NEW v \in FindView(config, s)
        PROVE  WithList(config, v, "card", 0, Append(config.views[v].cards, s.item)) \in Configs
    <2>1. v \in DOMAIN config.views
      BY FoundViews
    <2>2. config.views[v].cards \in Seq(Cards)
      BY <2>1, ViewsAre, ViewIs
    <2>3. Append(config.views[v].cards, s.item) \in Seq(Cards)
      BY <1>1, <2>2, AppendProperties
    <2>4. QED
      BY <2>1, <2>3, WithListType
  <1>5. TakeItem(config, s) \subseteq Configs
    BY <1>2 DEF TakeItem
  <1>6. PutItem(config, s) \subseteq Configs
    BY <1>3 DEF PutItem
  <1>7. ParkItem(config, s) \subseteq Configs
    BY <1>4 DEF ParkItem
  <1>8. QED
    BY <1>5, <1>6, <1>7

(* Of several places in a row that hold something there is a first.        *)
LEMMA FirstPlace ==
    ASSUME NEW S, NEW s \in Seq(S), NEW v \in 1 .. Len(s)
    PROVE  LET first == CHOOSE w \in DOMAIN s : s[w] = s[v] /\ \A u \in 1 .. w - 1 : s[u] # s[v]
           IN  first \in 1 .. Len(s) /\ s[first] = s[v] /\ \A u \in 1 .. first - 1 : s[u] # s[v]
  <1> DEFINE alike == {w \in 1 .. Len(s) : s[w] = s[v]}
             Is(w) == s[w] = s[v] /\ \A u \in 1 .. w - 1 : s[u] # s[v]
  <1>1. Len(s) \in Nat /\ DOMAIN s = 1 .. Len(s)
    BY LenProperties
  <1>2. PICK w \in alike : \A u \in alike : w <= u
    <2>1. alike \in SUBSET Nat /\ alike # {}
      BY <1>1
    <2> HIDE DEF alike
    <2>2. QED
      BY <2>1, LeastNumber
  <1>3. w \in DOMAIN s /\ Is(w)
    <2>1. w \in 1 .. Len(s) /\ s[w] = s[v]
      OBVIOUS
    <2>2. ASSUME NEW u \in 1 .. w - 1 PROVE s[u] # s[v]
      <3>1. u \in 1 .. Len(s) /\ u < w /\ w \in Nat /\ u \in Nat
        BY <1>1, <2>1
      <3>2. u \notin alike
        BY <1>2, <3>1
      <3>3. QED
        BY <3>1, <3>2
    <2>3. QED
      BY <1>1, <2>1, <2>2
  <1> DEFINE first == CHOOSE x \in DOMAIN s : Is(x)
  <1> HIDE DEF Is
  <1>4. first \in DOMAIN s /\ Is(first)
    BY <1>3
  <1>5. QED
    BY <1>1, <1>4 DEF Is

(* Taking a view out and putting one in leave a dashboard.                 *)
LEMMA ViewStepsType ==
    ASSUME NEW config \in Configs, NEW s, Sound(s), s.kind = "view"
    PROVE  TakeView(config, s) \subseteq Configs /\ PutView(config, s) \subseteq Configs
  <1>1. s.item \in Views /\ s.index \in Nat \ {0}
    BY DEF Sound
  <1>2. config.views \in Seq(Views) /\ DOMAIN config.views = 1 .. Len(config.views)
    BY ViewsAre
  <1> DEFINE FirstAlike(view) ==
               CHOOSE w \in DOMAIN config.views :
                 config.views[w] = view /\ \A u \in 1 .. w - 1 : config.views[u] # view
  <1>3. ASSUME NEW v \in FindView(config, s)
        PROVE  [config EXCEPT !.views = RemoveAt(config.views, FirstAlike(config.views[v]))] \in Configs
    <2>1. v \in 1 .. Len(config.views)
      BY <1>2, FoundViews
    <2>2. FirstAlike(config.views[v]) \in 1 .. Len(config.views)
      BY <1>2, <2>1, FirstPlace
    <2> HIDE DEF FirstAlike
    <2>3. RemoveAt(config.views, FirstAlike(config.views[v])) \in Seq(Views)
      BY <1>2, <2>2, RemoveAtIs
    <2>4. QED
      BY <2>3, ViewsWritten
  <1>4. TakeView(config, s) \subseteq Configs
    <2>1. TakeView(config, s)
            = {[config EXCEPT !.views = RemoveAt(config.views, FirstAlike(config.views[v]))] :
                 v \in {w \in FindView(config, s) : config.views[w] = s.item}}
      BY DEF TakeView
    <2> HIDE DEF FirstAlike
    <2>2. QED
      BY <1>3, <2>1
  <1>5. PutAt(config.views, s.index, s.item) \in Seq(Views)
    BY <1>1, <1>2, PutAtIs
  <1>6. PutView(config, s) \subseteq Configs
    BY <1>5, ViewsWritten DEF PutView
  <1>7. QED
    BY <1>4, <1>6

(* Every step leaves a dashboard, or none.                                 *)
LEMMA CarryOutType ==
    ASSUME NEW config \in Configs, NEW s, Sound(s)
    PROVE  CarryOut(config, s) \subseteq Configs
  <1>1. CASE s.kind = "sections"
    <2>1. s.item \in Seq(Sections)
      BY <1>1 DEF Sound
    <2>2. \A v \in FindView(config, s) : [config EXCEPT !.views[v].sections = s.item] \in Configs
      BY <2>1, FoundViews, WithSectionsType
    <2>3. WriteSections(config, s) \subseteq Configs
      BY <2>2 DEF WriteSections
    <2>4. CarryOut(config, s) = WriteSections(config, s)
      BY <1>1 DEF CarryOut, ItemKinds
    <2>5. QED
      BY <2>3, <2>4
  <1>2. CASE s.kind = "view"
    <2>1. s.action = "remove" \/ s.action = "insert"
      BY <1>2 DEF Sound
    <2>2. CarryOut(config, s) = TakeView(config, s) \/ CarryOut(config, s) = PutView(config, s)
      BY <1>2, <2>1 DEF CarryOut, ItemKinds
    <2>3. QED
      BY <1>2, <2>2, ViewStepsType
  <1>3. CASE s.kind \in {"card", "badge"}
    <2>1. \/ CarryOut(config, s) = TakeItem(config, s) \/ CarryOut(config, s) = PutItem(config, s)
          \/ CarryOut(config, s) = ParkItem(config, s)
      BY <1>3 DEF CarryOut, ItemKinds
    <2>2. QED
      BY <1>3, <2>1, ItemStepsType
  <1>4. QED
    BY <1>1, <1>2, <1>3 DEF Sound

(* Writing titles leaves a dashboard.                                      *)
LEMMA WriteSettingsType ==
    ASSUME NEW config \in Configs, NEW steps, \A s \in steps : s.title \in Titles
    PROVE  WriteSettings(config, steps) \in Configs
  <1> DEFINE New(key, standing) ==
               LET mine == {s \in steps : s.key = key}
               IN  IF mine = {} THEN standing ELSE (CHOOSE s \in mine : TRUE).title
             row == [v \in DOMAIN config.views |->
                       [config.views[v] EXCEPT !.title = New(Key(config, v), config.views[v].title)]]
  <1>1. ASSUME NEW key, NEW standing \in Titles PROVE New(key, standing) \in Titles
    OBVIOUS
  <1>2. WriteSettings(config, steps)
          = [config EXCEPT !.title = New(<<None, 0>>, config.title), !.views = row]
    BY DEF WriteSettings
  <1> HIDE DEF New
  <1>3. config.title \in Titles /\ Len(config.views) \in Nat
        /\ DOMAIN config.views = 1 .. Len(config.views)
    BY ViewsAre DEF Configs
  <1>4. \A v \in DOMAIN config.views :
          [config.views[v] EXCEPT !.title = New(Key(config, v), config.views[v].title)] \in Views
    <2>1. SUFFICES ASSUME NEW v \in DOMAIN config.views
                   PROVE  [config.views[v] EXCEPT !.title = New(Key(config, v), config.views[v].title)] \in Views
      OBVIOUS
    <2>2. config.views[v] \in Views
      BY ViewsAre
    <2>3. New(Key(config, v), config.views[v].title) \in Titles
      BY <1>1, <2>2 DEF Views
    <2>4. QED
      BY <2>2, <2>3 DEF Views
  <1>5. row \in Seq(Views)
    <2>1. row \in [1 .. Len(config.views) -> Views]
      BY <1>3, <1>4
    <2>2. QED
      BY <1>3, <2>1, RowOf
  <1>6. New(<<None, 0>>, config.title) \in Titles
    BY <1>1, <1>3
  <1> HIDE DEF row
  <1>7. QED
    BY <1>2, <1>5, <1>6 DEF Configs

(* An undo that goes ahead leaves a dashboard.                             *)
LEMMA ApplyUndoType ==
    ASSUME NEW config \in Configs, NEW plan, ~plan.blocked => SoundPlan(plan)
    PROVE  ApplyUndo(config, plan) \subseteq Configs
  <1> DEFINE steps == InOrder(plan.steps, ByTurn(plan.steps))
             N == Len(steps)
             Go(n, boards) == UNION {CarryOut(standing, steps[n]) : standing \in boards}
             done == CHOOSE f : f = [n \in 0 .. N |-> IF n = 0 THEN {WriteSettings(config, plan.settings)}
                                                      ELSE Go(n, f[n - 1])]
             h == [n \in 1 .. N |-> [boards \in SUBSET Configs |-> Go(n, boards)]]
             b == {WriteSettings(config, plan.settings)}
  <1>1. CASE plan.blocked
    BY <1>1 DEF ApplyUndo
  <1>2. CASE ~plan.blocked
    <2>1. ApplyUndo(config, plan) = done[N]
      BY <1>2 DEF ApplyUndo, ByTurn
    <2>2. SoundPlan(plan)
      BY <1>2
    <2>3. IsFiniteSet(plan.steps) /\ Strict(plan.steps, ByTurn(plan.steps))
      BY <2>2, TurnsStrict DEF SoundPlan
    <2>4. Ordered(steps, plan.steps, ByTurn(plan.steps))
      BY <2>3, InOrderIs
    <2> HIDE DEF steps
    <2>5. N \in Nat /\ \A n \in 1 .. N : steps[n] \in plan.steps /\ Sound(steps[n])
      <3>1. steps \in Seq(plan.steps) /\ \A s \in plan.steps : Sound(s)
        BY <2>2, <2>4 DEF Ordered, SoundPlan
      <3>2. QED
        BY <3>1, LenProperties, ElementOfSeq
    <2>6. b \in SUBSET Configs
      BY <2>2, WriteSettingsType DEF SoundPlan
    <2>7. ASSUME NEW n \in 1 .. N, NEW boards \in SUBSET Configs PROVE Go(n, boards) \in SUBSET Configs
      BY <2>5, CarryOutType
    <2> HIDE DEF b, Go
    <2>8. Stepping(SUBSET Configs, b, N, h)
      BY <2>5, <2>6, <2>7 DEF Stepping
    <2>9. PICK f : Iterates(SUBSET Configs, b, N, h, f)
      <3> HIDE DEF h, N
      <3>1. QED
        BY <2>8, IteratedExists
    <2>10. f = [n \in 0 .. N |-> IF n = 0 THEN b ELSE Go(n, f[n - 1])]
      <3> HIDE DEF N
      <3>1. \A n \in 1 .. N : n - 1 \in 0 .. N
        BY <2>5
      <3>2. \A n \in 1 .. N : h[n][f[n - 1]] = Go(n, f[n - 1])
        BY <2>9, <3>1 DEF Iterates
      <3>3. \A n \in 0 .. N : n # 0 => n \in 1 .. N
        BY <2>5
      <3> HIDE DEF h
      <3>4. \A n \in 0 .. N : f[n] = IF n = 0 THEN b ELSE Go(n, f[n - 1])
        BY <2>9, <3>2, <3>3 DEF Iterates
      <3>5. QED
        BY <2>9, <3>4 DEF Iterates
    <2>11. done = [n \in 0 .. N |-> IF n = 0 THEN b ELSE Go(n, done[n - 1])]
      <3> HIDE DEF N
      <3>1. QED
        BY <2>10 DEF b
    <2> HIDE DEF h, done, N
    <2>12. done[0] = b /\ \A n \in 1 .. N : done[n] = Go(n, done[n - 1])
      <3>1. 0 \in 0 .. N /\ \A n \in 1 .. N : n \in 0 .. N /\ n # 0
        BY <2>5
      <3>2. QED
        BY <2>11, <3>1
    <2> DEFINE G == {n \in 0 .. N : done[n] \in SUBSET Configs}
    <2>13. 0 \in G
      BY <2>5, <2>6, <2>12
    <2>14. ASSUME NEW n \in 1 .. N, n - 1 \in G PROVE n \in G
      <3>1. n \in 0 .. N
        BY <2>5
      <3>2. QED
        BY <2>7, <2>12, <2>14, <3>1
    <2> HIDE DEF G
    <2>15. \A n \in 0 .. N : n \in G
      BY <2>5, <2>13, <2>14, UpTo
    <2>16. done[N] \in SUBSET Configs
      BY <2>5, <2>15 DEF G
    <2>17. QED
      BY <2>1, <2>16
  <1>3. QED
    BY <1>1, <1>2

(* Taking a change back leaves a dashboard.                                *)
LEMMA UndoType ==
    ASSUME NEW one \in Configs, NEW other \in Configs, NEW today \in Configs
    PROVE  ApplyUndo(today, PlanUndo(one, other, today)) \subseteq Configs
  BY UndoPlanned, ApplyUndoType

(* What stands at some indices of a row is as long as there are indices.   *)
LEMMA OnlyIs ==
    ASSUME NEW S, NEW s \in Seq(S), NEW kept \in SUBSET DOMAIN s
    PROVE  /\ IsFiniteSet(kept)
           /\ Only(s, kept) \in Seq(S) /\ Len(Only(s, kept)) = Cardinality(kept)
  <1> DEFINE R == {p \in kept \X kept : p[1] < p[2]}
             order == InOrder(kept, R)
             n == Cardinality(kept)
  <1>1. Len(s) \in Nat /\ DOMAIN s = 1 .. Len(s) /\ IsFiniteSet(DOMAIN s)
    BY LenProperties, RowFinite
  <1>2. IsFiniteSet(kept) /\ n \in Nat
    BY <1>1, FS_Subset, FS_CardinalityType
  <1>3. Strict(kept, R)
    <2>1. \A x \in kept : x \in Nat
      BY <1>1
    <2>2. \A x, y \in kept : <<x, y>> \in R <=> x < y
      OBVIOUS
    <2> HIDE DEF R
    <2>3. QED
      BY <2>1, <2>2 DEF Strict
  <1> HIDE DEF R
  <1>4. Ordered(order, kept, R)
    BY <1>2, <1>3, InOrderIs
  <1> HIDE DEF order
  <1>5. \A i \in 1 .. n : s[order[i]] \in S
    <2>1. order \in Seq(kept) /\ Len(order) = n
      BY <1>4 DEF Ordered
    <2>2. \A i \in 1 .. n : order[i] \in kept
      BY <2>1, LenProperties, ElementOfSeq
    <2>3. QED
      BY <1>1, <2>2, ElementOfSeq
  <1>6. Only(s, kept) = [i \in 1 .. n |-> s[order[i]]]
    BY DEF Only, order, R
  <1> HIDE DEF n
  <1>7. [i \in 1 .. n |-> s[order[i]]] \in [1 .. n -> S]
    BY <1>5
  <1>8. [i \in 1 .. n |-> s[order[i]]] \in Seq(S) /\ Len([i \in 1 .. n |-> s[order[i]]]) = n
    BY <1>2, <1>7, RowOf
  <1>9. QED
    BY <1>2, <1>6, <1>8 DEF n

(* A survivor stands at an index, or beyond the end.                       *)
LEMMA FoundType ==
    ASSUME NEW cards, Len(cards) \in Nat, DOMAIN cards = 1 .. Len(cards),
           NEW survivors, Len(survivors) \in Nat
    PROVE  \A n \in 1 .. Len(survivors) : Found(cards, survivors)[n] \in Nat \ {0}
  <1> DEFINE N == Len(survivors)
             Go(n, from) ==
               LET rest == {i \in DOMAIN cards : i > from /\ cards[i] = survivors[n]}
               IN  IF rest = {} THEN Len(cards) + 1
                   ELSE CHOOSE i \in rest : \A j \in rest : i <= j
             found == CHOOSE f : f = [n \in 0 .. N |-> IF n = 0 THEN 0 ELSE Go(n, f[n - 1])]
             h == [n \in 1 .. N |-> [from \in Nat |-> Go(n, from)]]
  <1>1. Found(cards, survivors) = found
    BY DEF Found
  <1>2. ASSUME NEW n, NEW from PROVE Go(n, from) \in Nat \ {0}
    <2> DEFINE rest == {i \in DOMAIN cards : i > from /\ cards[i] = survivors[n]}
    <2>1. CASE rest = {}
      BY <2>1
    <2>2. CASE rest # {}
      <3>1. rest \in SUBSET Nat /\ rest \subseteq 1 .. Len(cards)
        OBVIOUS
      <3>2. Go(n, from) = CHOOSE i \in rest : \A j \in rest : i <= j
        BY <2>2
      <3> HIDE DEF rest, Go
      <3>3. \E i \in rest : \A j \in rest : i <= j
        BY <2>2, <3>1, LeastNumber
      <3>4. Go(n, from) \in rest
        BY <3>2, <3>3
      <3>5. \A i \in rest : i \in Nat \ {0}
        BY <3>1
      <3>6. QED
        BY <3>4, <3>5
    <2>3. QED
      BY <2>1, <2>2
  <1> HIDE DEF Go
  <1>3. N \in Nat
    OBVIOUS
  <1>4. Stepping(Nat, 0, N, h)
    BY <1>2, <1>3 DEF Stepping
  <1> HIDE DEF N
  <1>5. PICK f : Iterates(Nat, 0, N, h, f)
    <2> HIDE DEF h
    <2>1. QED
      BY <1>4, IteratedExists
  <1>6. f = [n \in 0 .. N |-> IF n = 0 THEN 0 ELSE Go(n, f[n - 1])]
    <2>1. \A n \in 1 .. N : n - 1 \in 0 .. N
      BY <1>3
    <2>2. \A n \in 1 .. N : h[n][f[n - 1]] = Go(n, f[n - 1])
      BY <1>5, <2>1 DEF Iterates
    <2>3. \A n \in 0 .. N : n # 0 => n \in 1 .. N
      BY <1>3
    <2> HIDE DEF h
    <2>4. \A n \in 0 .. N : f[n] = IF n = 0 THEN 0 ELSE Go(n, f[n - 1])
      BY <1>5, <2>2, <2>3 DEF Iterates
    <2>5. QED
      BY <1>5, <2>4 DEF Iterates
  <1>7. found = [n \in 0 .. N |-> IF n = 0 THEN 0 ELSE Go(n, found[n - 1])]
    BY <1>6
  <1> HIDE DEF found
  <1>8. \A n \in 1 .. N : n \in 0 .. N /\ n # 0
    BY <1>3
  <1>9. \A n \in 1 .. N : found[n] = Go(n, found[n - 1])
    BY <1>7, <1>8
  <1>10. QED
    BY <1>1, <1>2, <1>9 DEF N

--------------------------------------------------------------------------------
(* A removed card knows a place it can go back to, and what stood there.   *)
Replaceable(item) ==
  /\ item.card \in Cards /\ item.list \in Nat /\ item.index \in Nat \ {0}
  /\ Anchored(item) =>
       /\ item.list \in 1 .. item.anchor.sections
       /\ Len(item.anchor.survivors) \in Nat
       /\ item.anchor.survivors = <<>> <=> Len(item.anchor.survivors) = 0
       /\ item.anchor.before \in 0 .. Len(item.anchor.survivors)

(* An anchor names a section there was, and how far into it.               *)
LEMMA AnchorIs ==
    ASSUME NEW view \in Views, NEW slot, slot.list \in ListsOf(view, "card"),
           NEW left, NEW departed, slot.list # 0
    PROVE  LET anchor == Anchor(view, slot, left, departed)
           IN  /\ slot.list \in 1 .. anchor.sections
               /\ Len(anchor.survivors) \in Nat
               /\ anchor.survivors = <<>> <=> Len(anchor.survivors) = 0
               /\ anchor.before \in 0 .. Len(anchor.survivors)
  <1> DEFINE cards == view.sections[slot.list].cards
             Indices(slots) == {s.index : s \in {t \in slots : t.list = slot.list}}
             stay == DOMAIN cards \ Indices(left)
             anchor == Anchor(view, slot, left, departed)
             ahead == {i \in stay : i < slot.index}
  <1>1. slot.list # 0
    OBVIOUS
  <1>2. /\ anchor.sections = Len(view.sections) /\ anchor.survivors = Only(cards, stay)
        /\ anchor.before = Cardinality(ahead)
    BY <1>1 DEF Anchor
  <1>3. view.sections \in Seq(Sections) /\ Len(view.sections) \in Nat
    BY ViewIs
  <1>4. slot.list \in 1 .. Len(view.sections)
    BY <1>1, <1>3 DEF ListsOf
  <1>5. cards \in Seq(Cards)
    <2>1. view.sections[slot.list] \in Sections
      BY <1>3, <1>4, ElementOfSeq
    <2>2. QED
      BY <2>1 DEF Sections
  <1> HIDE DEF cards, Indices
  <1>6. /\ IsFiniteSet(stay) /\ Only(cards, stay) \in Seq(Cards)
        /\ Len(Only(cards, stay)) = Cardinality(stay)
    BY <1>5, OnlyIs
  <1>7. Cardinality(ahead) \in Nat /\ Cardinality(stay) \in Nat /\ Cardinality(ahead) <= Cardinality(stay)
    BY <1>6, FS_Subset, FS_CardinalityType
  <1> HIDE DEF stay, ahead, anchor
  <1>8. Only(cards, stay) = <<>> <=> Len(Only(cards, stay)) = 0
    BY <1>6, EmptySeq
  <1>9. QED
    BY <1>2, <1>4, <1>6, <1>7, <1>8 DEF anchor

(* What was removed are views, sections and cards of the recorded state.   *)
LEMMA RemovedType ==
    ASSUME NEW old \in Configs, NEW new \in Configs
    PROVE  LET items == FindRemoved(old, new)
           IN  /\ \A i \in items.views : i.view \in Views /\ i.index \in Nat \ {0}
               /\ \A i \in items.sections : i.section \in Sections /\ i.index \in Nat \ {0}
               /\ \A i \in items.cards : Replaceable(i)
  <1> DEFINE match == MatchCards(old, new)
             items == FindRemoved(old, new)
             keys == Keys(old) \cap Keys(new)
  <1>1. ASSUME NEW i \in RemovedViews(old, new) PROVE i.view \in Views /\ i.index \in Nat \ {0}
    BY ViewsAre DEF RemovedViews
  <1>2. ASSUME NEW key \in DOMAIN match.sections, NEW s \in match.sections[key].removed
        PROVE  View(old, key).sections[s] \in Sections /\ s \in Nat \ {0}
    <2>1. View(old, key).sections \in Seq(Sections) /\ s \in DOMAIN View(old, key).sections
      BY ChangeIs
    <2>2. QED
      BY <2>1, LenProperties, ElementOfSeq
  <1>3. ASSUME NEW i \in RemovedSections(old, match) PROVE i.section \in Sections /\ i.index \in Nat \ {0}
    BY <1>2 DEF RemovedSections, View
  <1>4. ASSUME NEW i \in RemovedCards(old, match) PROVE Replaceable(i)
    <2> DEFINE gone == Loose(match.cards.removed, match.sections, "removed")
               away == {p \in match.cards.moved : Translated(p[1], match.pairs) # Place(p[2])}
               left == gone \cup Olds(away)
               departed == {p[1] : p \in {q \in away : q[1].key = q[2].key}}
    <2>1. gone \subseteq Slots(old, keys, "card")
      <3>1. match.cards = MatchSlots(old, new, "card", PairSections(old, new))
        BY DEF MatchCards
      <3> HIDE DEF match
      <3>2. match.cards.removed \subseteq Slots(old, keys, "card")
        BY <3>1, OutcomeType
      <3>3. QED
        BY <3>2 DEF Loose
    <2>2. PICK s \in gone : i = [path |-> old.views[s.at].path, at |-> s.at, list |-> s.list,
                                 index |-> s.index, card |-> s.card,
                                 anchor |-> Anchor(old.views[s.at], s, InView(left, s.key),
                                                   InView(departed, s.key))]
      <3> HIDE DEF match
      <3>1. QED
        BY DEF RemovedCards, CardItems
    <2> HIDE DEF gone, left, departed
    <2>3. /\ s.at \in DOMAIN old.views /\ s.list \in ListsOf(old.views[s.at], "card")
          /\ s.card \in Cards /\ s.index \in Nat \ {0} /\ s.list \in Nat
      BY <2>1, SlotType
    <2>4. old.views[s.at] \in Views /\ s.list \in ListsOf(old.views[s.at], "card")
      BY <2>3, ViewsAre
    <2>5. i.list # 0 =>
            /\ i.list \in 1 .. i.anchor.sections
            /\ Len(i.anchor.survivors) \in Nat
            /\ i.anchor.survivors = <<>> <=> Len(i.anchor.survivors) = 0
            /\ i.anchor.before \in 0 .. Len(i.anchor.survivors)
      BY <2>2, <2>4, AnchorIs
    <2>6. QED
      BY <2>2, <2>3, <2>5 DEF Replaceable, Anchored
  <1>5. QED
    BY <1>1, <1>3, <1>4 DEF FindRemoved

(* A section is put back into a row of sections.                           *)
LEMMA PutBackSectionType ==
    ASSUME NEW config \in Configs, NEW item, item.section \in Sections, item.index \in Nat \ {0}
    PROVE  PutBackSection(config, item) \subseteq Configs
  <1> DEFINE written(v) == IF SectionGapHolds(config.views[v], item)
                 THEN [config.views[v] EXCEPT !.sections = PutAt(config.views[v].sections, item.index, item.section)]
                 ELSE [config.views[v] EXCEPT !.sections = Append(config.views[v].sections, item.section)]
  <1>1. ASSUME NEW v \in FindView(config, item) PROVE Within(config, v, written(v)) \in Configs
    <2>1. v \in DOMAIN config.views /\ config.views[v] \in Views
      BY FoundViews, ViewsAre
    <2>2. config.views[v].sections \in Seq(Sections)
      BY <2>1, ViewIs
    <2>3. /\ PutAt(config.views[v].sections, item.index, item.section) \in Seq(Sections)
          /\ Append(config.views[v].sections, item.section) \in Seq(Sections)
      BY <2>2, PutAtIs, AppendProperties
    <2>4. written(v) \in Views
      BY <2>1, <2>3 DEF Views
    <2> HIDE DEF written
    <2>5. QED
      BY <2>1, <2>4, WithinType DEF Within
  <1>2. PutBackSection(config, item)
          = {Within(config, v, written(v)) :
               v \in {w \in FindView(config, item) :
                 /\ ~PathsCollide(config)
                 /\ \/ SectionGapHolds(config.views[w], item)
                    \/ item.path # None /\ config.views[w].layout = "sections"}}
    BY DEF PutBackSection
  <1> HIDE DEF written
  <1>3. QED
    BY <1>1, <1>2

(* The index a card's anchor proves is one.                                *)
LEMMA AnchoredIndexType ==
    ASSUME NEW view \in Views, NEW item, Replaceable(item), Anchored(item)
    PROVE  AnchoredIndex(view, item) \subseteq Nat \ {0}
  <1> DEFINE cards == view.sections[item.list].cards
             survivors == item.anchor.survivors
             found == Found(cards, survivors)
  <1>1. /\ item.list \in 1 .. item.anchor.sections /\ Len(survivors) \in Nat
        /\ survivors = <<>> <=> Len(survivors) = 0
        /\ item.anchor.before \in 0 .. Len(survivors)
    BY DEF Replaceable
  <1>2. CASE Len(view.sections) # item.anchor.sections
    BY <1>2 DEF AnchoredIndex
  <1>3. CASE Len(view.sections) = item.anchor.sections
    <2>1. view.sections \in Seq(Sections) /\ item.list \in DOMAIN view.sections
      BY <1>1, <1>3, ViewIs
    <2>2. cards \in Seq(Cards)
      BY <2>1, SectionsAre
    <2>3. Len(cards) \in Nat /\ DOMAIN cards = 1 .. Len(cards)
      BY <2>2, LenProperties
    <2> HIDE DEF cards, survivors
    <2>4. \A n \in 1 .. Len(survivors) : found[n] \in Nat \ {0}
      BY <1>1, <2>3, FoundType
    <2>5. AnchoredIndex(view, item) \subseteq
            IF survivors = <<>> THEN {1}
            ELSE IF item.anchor.before = 0 THEN {found[1]} ELSE {found[item.anchor.before] + 1}
      BY DEF AnchoredIndex, cards, survivors
    <2> HIDE DEF found
    <2>6. survivors # <<>> => 1 \in 1 .. Len(survivors)
      BY <1>1
    <2>7. item.anchor.before # 0 => item.anchor.before \in 1 .. Len(survivors)
      BY <1>1
    <2>8. survivors # <<>> => found[1] \in Nat \ {0}
      BY <2>4, <2>6
    <2>9. item.anchor.before # 0 => found[item.anchor.before] + 1 \in Nat \ {0}
      BY <2>4, <2>7
    <2>10. QED
      BY <2>5, <2>8, <2>9
  <1>4. QED
    BY <1>2, <1>3

(* A card is put back into a list of cards.                                *)
LEMMA PutBackCardType ==
    ASSUME NEW config \in Configs, NEW item, Replaceable(item)
    PROVE  PutBackCard(config, item) \subseteq Configs
  <1>1. item.card \in Cards /\ item.index \in Nat \ {0}
    BY DEF Replaceable
  <1>2. ASSUME NEW view \in Views PROVE Reinserted(view, item) \subseteq Views
    <2> DEFINE lists == Lists(view, "card")
               indices == IF Anchored(item) THEN AnchoredIndex(view, item) ELSE {item.index}
    <2>1. indices \subseteq Nat \ {0}
      BY <1>1, AnchoredIndexType
    <2>2. lists \in [ListsOf(view, "card") -> Seq(Cards)]
      BY ListsType
    <2> HIDE DEF lists, indices
    <2>3. ASSUME NEW i \in indices
          PROVE  WithLists(view, "card",
                   [lists EXCEPT ![item.list] = PutAt(lists[item.list], i, item.card)]) \in Views
      <3>1. item.list \in ListsOf(view, "card") => PutAt(lists[item.list], i, item.card) \in Seq(Cards)
        BY <1>1, <2>1, <2>2, PutAtIs
      <3>2. [lists EXCEPT ![item.list] = PutAt(lists[item.list], i, item.card)]
              \in [ListsOf(view, "card") -> Seq(Cards)]
        BY <2>2, <3>1
      <3>3. QED
        BY <3>2, WithListsType
    <2>4. Reinserted(view, item)
            = {WithLists(view, "card",
                 [lists EXCEPT ![item.list] = PutAt(lists[item.list], i, item.card)]) : i \in indices}
      BY DEF Reinserted, lists, indices
    <2>5. QED
      BY <2>3, <2>4
  <1>3. ASSUME NEW view \in Views PROVE [view EXCEPT !.cards = Append(view.cards, item.card)] \in Views
    <2>1. Append(view.cards, item.card) \in Seq(Cards)
      BY <1>1, ViewIs, AppendProperties
    <2>2. QED
      BY <2>1 DEF Views
  <1>4. ASSUME NEW v \in FindView(config, item),
               NEW view \in IF CardParks(config.views[v], item)
                            THEN {[config.views[v] EXCEPT !.cards = Append(@, item.card)]}
                            ELSE Reinserted(config.views[v], item)
        PROVE  Within(config, v, view) \in Configs
    <2>1. v \in DOMAIN config.views /\ config.views[v] \in Views
      BY FoundViews, ViewsAre
    <2>2. view \in Views
      BY <1>2, <1>3, <1>4, <2>1
    <2>3. QED
      BY <2>1, <2>2, WithinType DEF Within
  <1>5. QED
    BY <1>4 DEF PutBackCard

(* Putting one thing back leaves a dashboard.                              *)
LEMMA PutBackType ==
    ASSUME NEW old \in Configs, NEW config \in Configs
    PROVE  LET items == FindRemoved(old, config)
           IN  UNION ({ReinsertView(config, i) : i \in items.views}
                        \cup {PutBackSection(config, i) : i \in items.sections}
                        \cup {PutBackCard(config, i) : i \in items.cards}) \subseteq Configs
  <1> DEFINE items == FindRemoved(old, config)
  <1>1. /\ \A i \in items.views : i.view \in Views /\ i.index \in Nat \ {0}
        /\ \A i \in items.sections : i.section \in Sections /\ i.index \in Nat \ {0}
        /\ \A i \in items.cards : Replaceable(i)
    BY RemovedType
  <1> HIDE DEF items
  <1>2. \A i \in items.views : ReinsertView(config, i) \subseteq Configs
    <2>1. \A i \in items.views : PutAt(config.views, i.index, i.view) \in Seq(Views)
      BY <1>1, ViewsAre, PutAtIs
    <2>2. \A i \in items.views : [config EXCEPT !.views = PutAt(config.views, i.index, i.view)] \in Configs
      BY <2>1, ViewsWritten
    <2>3. QED
      BY <2>2 DEF ReinsertView
  <1>3. \A i \in items.sections : PutBackSection(config, i) \subseteq Configs
    BY <1>1, PutBackSectionType
  <1>4. \A i \in items.cards : PutBackCard(config, i) \subseteq Configs
    BY <1>1, PutBackCardType
  <1>5. UNION ({ReinsertView(config, i) : i \in items.views}
                 \cup {PutBackSection(config, i) : i \in items.sections}
                 \cup {PutBackCard(config, i) : i \in items.cards}) \subseteq Configs
    BY <1>2, <1>3, <1>4
  <1>6. QED
    BY <1>5 DEF items

(* The recorded states and the one that stands are dashboards the program  *)
(* can read, whatever is edited, taken back or put back: the undo and the  *)
(* putting back (restore.py, apply_undo, reinsert) never leave a row       *)
(* with a hole, a view without its lists, or a title that is none.         *)
THEOREM TypeOK == Spec => []AnalysisTypeOK
  <1>1. Init => AnalysisTypeOK
    BY BoardsAreConfigs, BoundsAssumption DEF Init, AnalysisTypeOK
  <1>2. AnalysisTypeOK /\ [Next]_vars => AnalysisTypeOK'
    <2> SUFFICES ASSUME AnalysisTypeOK, [Next]_vars PROVE AnalysisTypeOK'
      OBVIOUS
    <2>1. CASE Change
      BY <2>1, EditedType, BoundsAssumption DEF Change, AnalysisTypeOK
    <2>2. CASE Later
      BY <2>2, EditedType, BoundsAssumption DEF Later, AnalysisTypeOK
    <2>3. CASE UndoChange
      BY <2>3, UndoType DEF UndoChange, AnalysisTypeOK
    <2>4. CASE PutItemBack
      <3>1. Back(current) \subseteq Configs
        BY PutBackType DEF Back, AnalysisTypeOK
      <3>2. QED
        BY <2>4, <3>1 DEF PutItemBack, AnalysisTypeOK
    <2>5. CASE UNCHANGED vars
      BY <2>5 DEF vars, AnalysisTypeOK
    <2>6. QED
      BY <2>1, <2>2, <2>3, <2>4, <2>5 DEF Next
  <1>3. QED
    BY <1>1, <1>2, PTL DEF Spec

(* Every card and badge of the recorded state and of the one that stands   *)
(* is accounted for once by their comparison (matching.py, _match_slots):  *)
(* gone, come, or paired with one of the other side.                       *)
THEOREM EachMatchedOnce == Spec => []MatchedOnce
  <1>1. AnalysisTypeOK => MatchedOnce
    BY AllAccounted DEF AnalysisTypeOK, MatchedOnce
  <1>2. QED
    BY <1>1, TypeOK, PTL

(* No change goes unnamed (undo.py, _nothing_changed): two states whose    *)
(* comparison has nothing to say are equal but for the order of their      *)
(* views, unless two views share a path.                                   *)
THEOREM ChangesAreSeen == Spec => []EveryChangeIsSeen
  <1>1. AnalysisTypeOK => EveryChangeIsSeen
    BY NothingUnsaid DEF AnalysisTypeOK, EveryChangeIsSeen
  <1>2. QED
    BY <1>1, TypeOK, PTL

(* What was put into a row is taken out again, and the row is as before.   *)
LEMMA TakenOutAgain ==
    ASSUME NEW S, NEW s \in Seq(S), NEW i \in 1 .. Len(s) + 1, NEW e \in S
    PROVE  i \in 1 .. Len(InsertAt(s, i, e)) /\ RemoveAt(InsertAt(s, i, e), i) = s
  <1> DEFINE t == InsertAt(s, i, e)
             r == RemoveAt(t, i)
  <1>1. Len(s) \in Nat
    BY LenProperties
  <1>2. /\ t \in Seq(S) /\ Len(t) = Len(s) + 1
        /\ \A j \in 1 .. Len(s) + 1 : t[j] = IF j < i THEN s[j] ELSE IF j = i THEN e ELSE s[j - 1]
    <2>1. t \in Seq(S) /\ Len(t) = Len(s) + 1
      BY InsertAtIs
    <2>2. ASSUME NEW j \in 1 .. Len(s) + 1
          PROVE  t[j] = IF j < i THEN s[j] ELSE IF j = i THEN e ELSE s[j - 1]
      BY AfterInsertion
    <2>3. QED
      BY <2>1, <2>2
  <1> HIDE DEF t
  <1>3. i \in 1 .. Len(t)
    BY <1>1, <1>2
  <1>4. /\ r \in Seq(S) /\ Len(r) = Len(t) - 1
        /\ \A j \in 1 .. Len(t) - 1 : r[j] = IF j < i THEN t[j] ELSE t[j + 1]
    <2>1. r \in Seq(S) /\ Len(r) = Len(t) - 1
      BY <1>2, <1>3, RemoveAtIs
    <2>2. ASSUME NEW j \in 1 .. Len(t) - 1 PROVE r[j] = IF j < i THEN t[j] ELSE t[j + 1]
      BY <1>2, <1>3, AfterRemoval
    <2>3. QED
      BY <2>1, <2>2
  <1> HIDE DEF r
  <1>5. ASSUME NEW j \in 1 .. Len(s) PROVE r[j] = s[j]
    <2>1. j \in 1 .. Len(s) + 1 /\ j + 1 \in 1 .. Len(s) + 1 /\ j \in 1 .. Len(t) - 1
          /\ j + 1 - 1 = j /\ i \in Int
      BY <1>1, <1>2
    <2>2. CASE j < i
      BY <1>2, <1>4, <2>1, <2>2
    <2>3. CASE ~(j < i)
      <3>1. r[j] = t[j + 1] /\ ~(j + 1 < i) /\ j + 1 # i
        BY <1>4, <2>1, <2>3
      <3>2. QED
        BY <1>2, <2>1, <3>1
    <2>4. QED
      BY <2>2, <2>3
  <1>6. Len(r) = Len(s)
    BY <1>1, <1>2, <1>4
  <1>7. r = s
    BY <1>4, <1>5, <1>6, SeqEqual
  <1>8. QED
    BY <1>3, <1>7 DEF r, t

OneMore(long, short) == \E j \in 1 .. Len(long) : RemoveAt(long, j) = short

(* Wherever something is put, it is taken out again from there.            *)
LEMMA PutOutAgain ==
    ASSUME NEW S, NEW s \in Seq(S), NEW i \in Nat \ {0}, NEW e \in S
    PROVE  OneMore(PutAt(s, i, e), s)
  <1> DEFINE j == IF i <= Len(s) THEN i ELSE Len(s) + 1
  <1>1. j \in 1 .. Len(s) + 1
    BY LenProperties
  <1>2. PutAt(s, i, e) = InsertAt(s, j, e)
    BY DEF PutAt
  <1> HIDE DEF j
  <1>3. QED
    BY <1>1, <1>2, TakenOutAgain DEF OneMore

(* What was appended is taken off again.                                   *)
LEMMA TakenOffAgain ==
    ASSUME NEW S, NEW s \in Seq(S), NEW e \in S
    PROVE  OneMore(Append(s, e), s)
  <1> DEFINE n == Len(s) + 1
             t == Append(s, e)
             r == RemoveAt(t, n)
  <1>1. Len(s) \in Nat /\ n \in Nat /\ n >= 1
    BY LenProperties
  <1>2. t \in Seq(S) /\ Len(t) = n /\ \A j \in 1 .. Len(s) : t[j] = s[j]
    BY AppendProperties
  <1> HIDE DEF t
  <1>3. n \in 1 .. Len(t)
    BY <1>1, <1>2
  <1>4. r \in Seq(S) /\ Len(r) = Len(t) - 1 /\ \A j \in 1 .. Len(t) - 1 : j < n => r[j] = t[j]
    BY <1>2, <1>3, RemoveAtIs
  <1> HIDE DEF r
  <1>5. \A j \in 1 .. Len(s) : r[j] = s[j]
    BY <1>1, <1>2, <1>4
  <1>6. Len(r) = Len(s)
    BY <1>1, <1>2, <1>4
  <1>7. r = s
    BY <1>4, <1>5, <1>6, SeqEqual
  <1>8. QED
    BY <1>3, <1>7 DEF OneMore, r, t

--------------------------------------------------------------------------------
(* Lists written are the lists read.                                       *)
LEMMA ListsWritten ==
    ASSUME NEW view \in Views, NEW lists \in [ListsOf(view, "card") -> Seq(Cards)]
    PROVE  Lists(WithLists(view, "card", lists), "card") = lists
  <1> DEFINE n == Len(view.sections)
             row == [s \in DOMAIN view.sections |-> Section(view.sections[s].own, lists[s])]
             written == WithLists(view, "card", lists)
  <1>1. view.sections \in Seq(Sections) /\ n \in Nat /\ DOMAIN view.sections = 1 .. n
    BY ViewIs
  <1>2. written = [view EXCEPT !.cards = lists[0], !.sections = row]
    BY DEF WithLists
  <1>3. written.cards = lists[0] /\ written.sections = row
    BY <1>2 DEF Views
  <1>4. Len(row) = n
    <2>1. written \in Views
      BY WithListsType
    <2>2. row \in Seq(Sections) /\ DOMAIN row = 1 .. n
      BY <1>1, <1>3, <2>1, ViewIs
    <2>3. QED
      BY <1>1, <2>2, LenProperties
  <1>5. \A l \in 1 .. n : row[l].cards = lists[l]
    BY <1>1 DEF Section
  <1>6. Lists(written, "card") = [l \in 0 .. n |-> IF l = 0 THEN written.cards ELSE written.sections[l].cards]
    BY <1>3, <1>4 DEF Lists
  <1> HIDE DEF written, row, n
  <1>7. \A l \in 0 .. n : (IF l = 0 THEN written.cards ELSE written.sections[l].cards) = lists[l]
    BY <1>1, <1>3, <1>5
  <1>8. lists \in [0 .. n -> Seq(Cards)]
    BY DEF ListsOf, n
  <1>9. QED
    BY <1>6, <1>7, <1>8 DEF written

(* Lists written twice are as written last, and a view with its own lists  *)
(* written is that view.                                                   *)
LEMMA ListsWrittenBack ==
    ASSUME NEW view \in Views, NEW lists \in [ListsOf(view, "card") -> Seq(Cards)]
    PROVE  WithLists(WithLists(view, "card", lists), "card", Lists(view, "card")) = view
  <1> DEFINE n == Len(view.sections)
             own == Lists(view, "card")
             row == [s \in DOMAIN view.sections |-> Section(view.sections[s].own, lists[s])]
             written == WithLists(view, "card", lists)
             again == [s \in DOMAIN written.sections |-> Section(written.sections[s].own, own[s])]
  <1>1. view.sections \in Seq(Sections) /\ n \in Nat /\ DOMAIN view.sections = 1 .. n
    BY ViewIs
  <1>2. written = [view EXCEPT !.cards = lists[0], !.sections = row]
    BY DEF WithLists
  <1>3. written.sections = row
    BY <1>2 DEF Views
  <1>4. own[0] = view.cards /\ \A s \in 1 .. n : own[s] = view.sections[s].cards
    BY <1>1 DEF Lists
  <1>5. WithLists(written, "card", own) = [written EXCEPT !.cards = own[0], !.sections = again]
    BY DEF WithLists
  <1>6. again = [s \in 1 .. n |-> Section(view.sections[s].own, view.sections[s].cards)]
    <2>1. again = [s \in 1 .. n |-> Section(row[s].own, own[s])]
      BY <1>1, <1>3
    <2>2. \A s \in 1 .. n : row[s].own = view.sections[s].own
      BY <1>1 DEF Section
    <2> HIDE DEF again, own, row, written, n
    <2>3. \A s \in 1 .. n : Section(row[s].own, own[s])
                              = Section(view.sections[s].own, view.sections[s].cards)
      BY <1>4, <2>2
    <2>4. QED
      BY <2>1, <2>3
  <1>7. \A s \in 1 .. n : Section(view.sections[s].own, view.sections[s].cards) = view.sections[s]
    <2>1. \A s \in 1 .. n : view.sections[s] \in Sections
      BY <1>1, ElementOfSeq
    <2>2. QED
      BY <2>1 DEF Sections, Section
  <1>8. again = view.sections
    <2>1. again = [s \in 1 .. n |-> view.sections[s]]
      BY <1>6, <1>7
    <2>2. view.sections \in [1 .. n -> Sections]
      BY <1>1, LenProperties
    <2> HIDE DEF again, n
    <2>3. QED
      BY <2>1, <2>2
  <1> HIDE DEF again, own, row
  <1>9. [written EXCEPT !.cards = view.cards, !.sections = view.sections] = view
    BY <1>2 DEF Views
  <1>10. QED
    BY <1>4, <1>5, <1>8, <1>9 DEF own, written

(* A view written, and written back.                                       *)
LEMMA ViewWrittenBack ==
    ASSUME NEW config \in Configs, NEW v \in DOMAIN config.views, NEW view
    PROVE  LET there == Within(config, v, view)
           IN  /\ DOMAIN there.views = DOMAIN config.views /\ there.views[v] = view
               /\ Within(there, v, config.views[v]) = config
  <1>1. config.views \in [1 .. Len(config.views) -> Views]
    BY ViewsAre, LenProperties
  <1>2. config.views \in [DOMAIN config.views -> Views]
    BY <1>1
  <1> DEFINE there == Within(config, v, view)
  <1>3. there = [config EXCEPT !.views = [config.views EXCEPT ![v] = view]]
    BY DEF Within
  <1>4. there.views = [config.views EXCEPT ![v] = view]
    BY <1>3 DEF Configs
  <1>5. Within(there, v, config.views[v])
          = [config EXCEPT !.views = [[config.views EXCEPT ![v] = view] EXCEPT ![v] = config.views[v]]]
    BY <1>3, <1>4 DEF Within, Configs
  <1>6. [[config.views EXCEPT ![v] = view] EXCEPT ![v] = config.views[v]] = config.views
    BY <1>2
  <1>7. [config EXCEPT !.views = config.views] = config
    BY DEF Configs
  <1>8. QED
    BY <1>2, <1>4, <1>5, <1>6, <1>7

(* A card written into a list can be deleted from it, and nothing else is  *)
(* different.                                                              *)
LEMMA CardWritten ==
    ASSUME NEW config \in Configs, NEW v \in DOMAIN config.views,
           NEW l \in ListsOf(config.views[v], "card"),
           NEW items \in Seq(Cards), OneMore(items, Lists(config.views[v], "card")[l])
    PROVE  config \in DeleteItem(WithList(config, v, "card", l, items), "card")
  <1> DEFINE view == config.views[v]
             own == Lists(view, "card")
             lists == [own EXCEPT ![l] = items]
             written == WithLists(view, "card", lists)
             there == Within(config, v, written)
             p == <<v, l>>
  <1>0. PICK j \in 1 .. Len(items) : RemoveAt(items, j) = Lists(view, "card")[l]
    BY DEF OneMore
  <1>1. view \in Views
    BY ViewsAre
  <1>2. own \in [ListsOf(view, "card") -> Seq(Cards)]
    BY <1>1, ListsType
  <1> HIDE DEF own
  <1>3. lists \in [ListsOf(view, "card") -> Seq(Cards)] /\ lists[l] = items
        /\ [lists EXCEPT ![l] = own[l]] = own
    BY <1>2
  <1> HIDE DEF lists
  <1>4. Lists(written, "card") = lists /\ WithLists(written, "card", own) = view
    BY <1>1, <1>3, ListsWritten, ListsWrittenBack DEF own
  <1> HIDE DEF written
  <1>5. /\ DOMAIN there.views = DOMAIN config.views /\ there.views[v] = written
        /\ Within(there, v, view) = config
    BY ViewWrittenBack
  <1>6. WithList(config, v, "card", l, items) = there
    BY DEF WithList, there, written, lists, own
  <1> HIDE DEF there
  <1>7. p \in Listed(there, "card")
    <2>1. v \in DOMAIN there.views /\ l \in DOMAIN Lists(there.views[v], "card")
      BY <1>3, <1>4, <1>5
    <2>2. QED
      BY <2>1 DEF Listed
  <1>8. Items(there, "card", p) = items
    BY <1>3, <1>4, <1>5 DEF Items
  <1>9. Save(there, "card", p, RemoveAt(items, j)) = config
    <2>1. RemoveAt(items, j) = own[l]
      BY <1>0 DEF own
    <2>2. Save(there, "card", p, RemoveAt(items, j))
            = Within(there, v, WithLists(written, "card", [lists EXCEPT ![l] = own[l]]))
      BY <1>4, <1>5, <2>1 DEF Save, WithList
    <2>3. QED
      BY <1>3, <1>4, <1>5, <2>2
  <1>10. j \in DOMAIN Items(there, "card", p)
    BY <1>8, LenProperties
  <1>11. config \in {Save(there, "card", p, RemoveAt(Items(there, "card", p), i)) :
                       i \in DOMAIN Items(there, "card", p)}
    BY <1>8, <1>9, <1>10
  <1>12. config \in DeleteItem(there, "card")
    BY <1>7, <1>11 DEF DeleteItem
  <1>13. QED
    BY <1>6, <1>12

(* A card parked at the end of its view.                                   *)
LEMMA CardParked ==
    ASSUME NEW config \in Configs, NEW v \in DOMAIN config.views, NEW card \in Cards
    PROVE  config \in DeleteItem(Within(config, v, [config.views[v] EXCEPT
                                   !.cards = Append(config.views[v].cards, card)]), "card")
  <1> DEFINE view == config.views[v]
             own == Lists(view, "card")
             items == Append(view.cards, card)
             lists == [own EXCEPT ![0] = items]
             n == Len(view.sections)
             row == [s \in DOMAIN view.sections |-> Section(view.sections[s].own, lists[s])]
  <1>1. view \in Views
    BY ViewsAre
  <1>2. view.cards \in Seq(Cards) /\ view.sections \in Seq(Sections)
        /\ n \in Nat /\ DOMAIN view.sections = 1 .. n
    BY <1>1, ViewIs
  <1>3. own \in [ListsOf(view, "card") -> Seq(Cards)] /\ 0 \in ListsOf(view, "card")
    BY <1>1, <1>2, ListsType DEF ListsOf
  <1>4. own[0] = view.cards /\ \A s \in 1 .. n : own[s] = view.sections[s].cards
    BY <1>2 DEF Lists
  <1>5. items \in Seq(Cards) /\ OneMore(items, own[0])
    BY <1>2, <1>4, TakenOffAgain, AppendProperties
  <1> HIDE DEF items
  <1>6. lists[0] = items /\ \A s \in 1 .. n : lists[s] = own[s]
    <2>1. \A s \in 1 .. n : s # 0 /\ s \in ListsOf(view, "card")
      BY <1>2 DEF ListsOf
    <2> HIDE DEF own, n
    <2>2. QED
      BY <1>3, <2>1
  <1> HIDE DEF lists
  <1>7. row = view.sections
    <2>1. \A s \in 1 .. n : view.sections[s] \in Sections
      BY <1>2, ElementOfSeq
    <2>2. \A s \in 1 .. n : Section(view.sections[s].own, lists[s]) = view.sections[s]
      BY <1>4, <1>6, <2>1 DEF Sections, Section
    <2>3. view.sections \in [1 .. n -> Sections]
      BY <1>2, LenProperties
    <2> HIDE DEF n
    <2>4. QED
      BY <1>2, <2>2, <2>3
  <1>8. WithLists(view, "card", lists) = [view EXCEPT !.cards = items, !.sections = row]
    BY <1>6 DEF WithLists
  <1> HIDE DEF row
  <1>9. [view EXCEPT !.cards = items, !.sections = view.sections] = [view EXCEPT !.cards = items]
    BY <1>1 DEF Views
  <1>10. WithList(config, v, "card", 0, items) = Within(config, v, [view EXCEPT !.cards = items])
    BY <1>7, <1>8, <1>9 DEF WithList, lists, own
  <1>11. config \in DeleteItem(WithList(config, v, "card", 0, items), "card")
    BY <1>3, <1>5, CardWritten DEF own
  <1>12. QED
    BY <1>10, <1>11 DEF items

(* A card goes to one list, and to a place in it.                          *)
LEMMA ReinsertedIs ==
    ASSUME NEW view \in Views, NEW item, Replaceable(item), NEW new \in Reinserted(view, item)
    PROVE  /\ item.list \in ListsOf(view, "card")
           /\ \E i \in Nat \ {0} :
                new = WithLists(view, "card", [Lists(view, "card") EXCEPT
                        ![item.list] = PutAt(Lists(view, "card")[item.list], i, item.card)])
  <1> DEFINE lists == Lists(view, "card")
             indices == IF Anchored(item) THEN AnchoredIndex(view, item) ELSE {item.index}
  <1>1. item.list \in Nat /\ item.index \in Nat \ {0}
    BY DEF Replaceable
  <1>2. indices \subseteq Nat \ {0}
    BY <1>1, AnchoredIndexType
  <1>3. PICK i \in indices :
          new = WithLists(view, "card",
                          [lists EXCEPT ![item.list] = PutAt(lists[item.list], i, item.card)])
    BY DEF Reinserted
  <1> HIDE DEF lists
  <1>4. Len(view.sections) \in Nat
    BY ViewIs
  <1>5. CASE Anchored(item)
    <2>1. Len(view.sections) = item.anchor.sections
      <3>1. i \in AnchoredIndex(view, item)
        BY <1>5
      <3>2. QED
        BY <3>1 DEF AnchoredIndex
    <2>2. item.list \in 1 .. item.anchor.sections
      BY <1>5 DEF Replaceable
    <2>3. item.list \in ListsOf(view, "card")
      BY <1>4, <2>1, <2>2 DEF ListsOf
    <2>4. QED
      BY <1>2, <1>3, <2>3 DEF lists
  <1>6. CASE ~Anchored(item)
    <2>1. item.list \in ListsOf(view, "card")
      BY <1>1, <1>4, <1>6 DEF ListsOf, Anchored
    <2>2. QED
      BY <1>2, <1>3, <2>1 DEF lists
  <1>7. QED
    BY <1>5, <1>6

(* A card put back is one card more, and nothing else is different.        *)
LEMMA CardPutBack ==
    ASSUME NEW config \in Configs, NEW item, Replaceable(item),
           NEW new \in PutBackCard(config, item)
    PROVE  config \in DeleteItem(new, "card")
  <1>1. item.card \in Cards
    BY DEF Replaceable
  <1> DEFINE Put(v) == IF CardParks(config.views[v], item)
                       THEN {[config.views[v] EXCEPT !.cards = Append(config.views[v].cards, item.card)]}
                       ELSE Reinserted(config.views[v], item)
  <1>2. PICK v \in FindView(config, item) : \E view \in Put(v) : new = Within(config, v, view)
    BY DEF PutBackCard
  <1>2a. PICK view \in Put(v) : new = Within(config, v, view)
    BY <1>2
  <1>3. v \in DOMAIN config.views /\ config.views[v] \in Views
    BY FoundViews, ViewsAre
  <1>4. CASE CardParks(config.views[v], item)
    BY <1>1, <1>2a, <1>3, <1>4, CardParked
  <1>5. CASE ~CardParks(config.views[v], item)
    <2> DEFINE own == Lists(config.views[v], "card")
               l == item.list
    <2>1. view \in Reinserted(config.views[v], item)
      BY <1>2a, <1>5
    <2>2. /\ l \in ListsOf(config.views[v], "card")
          /\ \E i \in Nat \ {0} :
               view = WithLists(config.views[v], "card", [own EXCEPT ![l] = PutAt(own[l], i, item.card)])
      BY <1>3, <2>1, ReinsertedIs
    <2>3. PICK i \in Nat \ {0} :
            view = WithLists(config.views[v], "card", [own EXCEPT ![l] = PutAt(own[l], i, item.card)])
      BY <2>2
    <2>4. new = WithList(config, v, "card", l, PutAt(own[l], i, item.card))
      BY <1>2a, <2>3 DEF WithList
    <2>5. own[l] \in Seq(Cards)
      BY <1>3, <2>2, ListsType
    <2> HIDE DEF own
    <2>6. PutAt(own[l], i, item.card) \in Seq(Cards)
      BY <1>1, <2>5, PutAtIs
    <2>7. OneMore(PutAt(own[l], i, item.card), own[l])
      BY <1>1, <2>5, PutOutAgain
    <2>8. config \in DeleteItem(WithList(config, v, "card", l, PutAt(own[l], i, item.card)), "card")
      BY <1>3, <2>2, <2>6, <2>7, CardWritten DEF own
    <2>9. QED
      BY <2>4, <2>8
  <1>6. QED
    BY <1>4, <1>5

(* A section put back is one section more.                                 *)
LEMMA SectionPutBack ==
    ASSUME NEW config \in Configs, NEW item, item.section \in Sections, item.index \in Nat \ {0},
           NEW new \in PutBackSection(config, item)
    PROVE  \E v \in DOMAIN new.views : \E s \in DOMAIN new.views[v].sections :
             config = [new EXCEPT !.views[v].sections = RemoveAt(new.views[v].sections, s)]
  <1> DEFINE row(v) == IF SectionGapHolds(config.views[v], item)
                       THEN PutAt(config.views[v].sections, item.index, item.section)
                       ELSE Append(config.views[v].sections, item.section)
             written(v) == [config.views[v] EXCEPT !.sections = row(v)]
  <1>1. PICK v \in FindView(config, item) : new = Within(config, v, written(v))
    BY DEF PutBackSection
  <1>2. v \in DOMAIN config.views /\ config.views[v] \in Views
    BY FoundViews, ViewsAre
  <1> DEFINE view == config.views[v]
             sections == view.sections
  <1>3. sections \in Seq(Sections)
    BY <1>2, ViewIs
  <1>4. row(v) \in Seq(Sections) /\ OneMore(row(v), sections)
    <2> HIDE DEF sections
    <2>1. PutAt(sections, item.index, item.section) \in Seq(Sections)
          /\ OneMore(PutAt(sections, item.index, item.section), sections)
      BY <1>3, PutAtIs, PutOutAgain
    <2>2. Append(sections, item.section) \in Seq(Sections)
          /\ OneMore(Append(sections, item.section), sections)
      BY <1>3, AppendProperties, TakenOffAgain
    <2>3. QED
      BY <2>1, <2>2 DEF sections
  <1> HIDE DEF row
  <1>5. PICK s \in 1 .. Len(row(v)) : RemoveAt(row(v), s) = sections
    BY <1>4 DEF OneMore
  <1>6. /\ DOMAIN new.views = DOMAIN config.views /\ new.views[v] = written(v)
        /\ Within(new, v, view) = config
    BY <1>1, <1>2, ViewWrittenBack
  <1>7. new.views[v].sections = row(v)
    BY <1>2, <1>6 DEF Views
  <1>8. [new.views[v] EXCEPT !.sections = sections] = view
    BY <1>2, <1>6 DEF Views
  <1>9. [new EXCEPT !.views[v].sections = sections] = Within(new, v, view)
    BY <1>8 DEF Within
  <1>10. s \in DOMAIN new.views[v].sections
    BY <1>4, <1>7, LenProperties
  <1>11. config = [new EXCEPT !.views[v].sections = RemoveAt(new.views[v].sections, s)]
    BY <1>5, <1>6, <1>7, <1>9
  <1>12. QED
    BY <1>2, <1>6, <1>10, <1>11

(* A view put back is one view more.                                       *)
LEMMA ViewPutBack ==
    ASSUME NEW config \in Configs, NEW item, item.view \in Views, item.index \in Nat \ {0},
           NEW new \in ReinsertView(config, item)
    PROVE  config \in DeleteView(new)
  <1> DEFINE row == PutAt(config.views, item.index, item.view)
  <1>1. new = [config EXCEPT !.views = row]
    BY DEF ReinsertView
  <1>2. config.views \in Seq(Views)
    BY ViewsAre
  <1>3. row \in Seq(Views) /\ OneMore(row, config.views)
    BY <1>2, PutAtIs, PutOutAgain
  <1> HIDE DEF row
  <1>4. PICK v \in 1 .. Len(row) : RemoveAt(row, v) = config.views
    BY <1>3 DEF OneMore
  <1>5. new.views = row /\ [new EXCEPT !.views = config.views] = config
    BY <1>1 DEF Configs
  <1>6. v \in DOMAIN new.views
    BY <1>3, <1>5, LenProperties
  <1>7. config = [new EXCEPT !.views = RemoveAt(new.views, v)]
    BY <1>4, <1>5
  <1>8. QED
    BY <1>6, <1>7 DEF DeleteView

(* Putting something back adds that one card, section or view and touches  *)
(* nothing else (restore.py, reinsert and park): take it out again, and    *)
(* the dashboard is what it was.                                           *)
THEOREM PuttingBackAddsOne == Spec => [][stage' = "back" => current \in OneLess(current')]_vars
  <1>1. AnalysisTypeOK /\ [Next]_vars => [stage' = "back" => current \in OneLess(current')]_vars
    <2> SUFFICES ASSUME AnalysisTypeOK, [Next]_vars, vars' # vars, stage' = "back"
                 PROVE  current \in OneLess(current')
      BY DEF vars
    <2>1. CASE PutItemBack
      <3> DEFINE items == FindRemoved(before, current)
      <3>1. before \in Configs /\ current \in Configs
        BY DEF AnalysisTypeOK
      <3>2. current' \in UNION ({ReinsertView(current, i) : i \in items.views}
                                  \cup {PutBackSection(current, i) : i \in items.sections}
                                  \cup {PutBackCard(current, i) : i \in items.cards})
        BY <2>1 DEF PutItemBack, Back
      <3>3. /\ \A i \in items.views : i.view \in Views /\ i.index \in Nat \ {0}
            /\ \A i \in items.sections : i.section \in Sections /\ i.index \in Nat \ {0}
            /\ \A i \in items.cards : Replaceable(i)
        BY <3>1, RemovedType
      <3> HIDE DEF items
      <3>4. CASE \E i \in items.views : current' \in ReinsertView(current, i)
        BY <3>1, <3>3, <3>4, ViewPutBack DEF OneLess
      <3>5. CASE \E i \in items.sections : current' \in PutBackSection(current, i)
        <4>1. \E v \in DOMAIN current'.views : \E s \in DOMAIN current'.views[v].sections :
                current = [current' EXCEPT !.views[v].sections = RemoveAt(current'.views[v].sections, s)]
          <5>1. PICK i \in items.sections : current' \in PutBackSection(current, i)
            BY <3>5
          <5> DEFINE new == current'
          <5>2. new \in PutBackSection(current, i)
            BY <5>1
          <5>3. i.section \in Sections /\ i.index \in Nat \ {0}
            BY <3>3
          <5> HIDE DEF new
          <5>4. \E v \in DOMAIN new.views : \E s \in DOMAIN new.views[v].sections :
                  current = [new EXCEPT !.views[v].sections = RemoveAt(new.views[v].sections, s)]
            BY <3>1, <5>2, <5>3, SectionPutBack
          <5>5. QED
            BY <5>4 DEF new
        <4>2. QED
          BY <4>1 DEF OneLess
      <3>6. CASE \E i \in items.cards : current' \in PutBackCard(current, i)
        BY <3>1, <3>3, <3>6, CardPutBack DEF OneLess
      <3>7. QED
        BY <3>2, <3>4, <3>5, <3>6
    <2>2. CASE Change
      BY <2>2 DEF Change
    <2>3. CASE Later
      BY <2>3 DEF Later
    <2>4. CASE UndoChange
      BY <2>4 DEF UndoChange
    <2>5. QED
      BY <2>1, <2>2, <2>3, <2>4 DEF Next
  <1>2. QED
    BY <1>1, TypeOK, PTL DEF Spec
================================================================================
