------------------------------ MODULE MarksProofs ------------------------------
(***************************************************************************)
(* The floor and the day marks of Marks, for any number of days, states    *)
(* and requests: numbers first, then days, then the invariant.             *)
(***************************************************************************)
EXTENDS Marks, WellFoundedInduction, TLAPS

--------------------------------------------------------------------------------
(* Numbers.  Which one is the highest is settled without induction: they   *)
(* are bounded, and every set of naturals has a least member.              *)

Numbers == Nat \X Nat \X Nat

Within(number, b) ==
    number # NoNumber => number[1] <= b /\ number[2] <= b /\ number[3] <= b

(* A listing of versions, as far as its numbers go.                        *)
NumbersOf(seen, b) ==
    \A v \in seen : (v.number = NoNumber \/ v.number \in Numbers) /\ Within(v.number, b)

LEMMA NatHasLeast ==
    ASSUME NEW S \in SUBSET Nat, S # {}
    PROVE  \E n \in S : \A m \in S : n <= m
  <1>1. PICK n \in S : \A m \in S : <<m, n>> \notin OpToRel(<, Nat)
    BY NatLessThanWellFounded, WFMin
  <1>2. \A m \in S : ~(m < n)
    BY <1>1 DEF OpToRel
  <1>3. QED
    BY <1>2

LEMMA BoundedHasGreatest ==
    ASSUME NEW S \in SUBSET Nat, S # {}, NEW b \in Nat, \A n \in S : n <= b
    PROVE  \E n \in S : \A m \in S : m <= n
  <1> DEFINE gaps == {b - n : n \in S}
  <1>1. gaps \in SUBSET Nat /\ gaps # {}
    <2>1. \A n \in S : b - n \in Nat
      OBVIOUS
    <2>2. \A g \in gaps : g \in Nat
      BY <2>1
    <2>3. QED
      BY <2>2
  <1>2. PICK g \in gaps : \A h \in gaps : g <= h
    BY <1>1, NatHasLeast
  <1>3. PICK n \in S : g = b - n
    OBVIOUS
  <1>4. \A m \in S : b - n <= b - m
    BY <1>2, <1>3
  <1>5. QED
    BY <1>4

(* A number is no place where nothing parses.                              *)
LEMMA NumbersAreNumbers ==
    /\ NoNumber \notin Numbers
    /\ \A n \in Numbers : n = <<n[1], n[2], n[3]>> /\ n[1] \in Nat /\ n[2] \in Nat /\ n[3] \in Nat
    /\ \A a, b, c \in Nat : <<a, b, c>> \in Numbers
  <1>1. \A n \in Numbers : n = <<n[1], n[2], n[3]>> /\ n[1] \in Nat /\ n[2] \in Nat /\ n[3] \in Nat
    BY DEF Numbers
  <1>2. \A a, b, c \in Nat : <<a, b, c>> \in Numbers
    BY DEF Numbers
  <1>3. ASSUME NoNumber \in Numbers PROVE FALSE
    <2>1. PICK a, b, c \in Nat : <<>> = <<a, b, c>>
      BY <1>3 DEF NoNumber, Numbers
    <2>2. Len(<<>>) = 0 /\ Len(<<a, b, c>>) = 3
      OBVIOUS
    <2>3. QED
      BY <2>1, <2>2
  <1>4. QED
    BY <1>1, <1>2, <1>3

(* Of some numbers one is the highest, and it is the one versions.py takes. *)
LEMMA HighestIs ==
    ASSUME NEW seen, NEW b \in Nat, NumbersOf(seen, b), Numbered(seen) # {}
    PROVE  /\ Highest(seen) \in Numbered(seen)
           /\ \A w \in Numbered(seen) : ~Below(Highest(seen).number, w.number)
  <1> DEFINE all == Numbered(seen)
             firsts == {v.number[1] : v \in all}
  <1>1. \A v \in all : /\ v.number[1] \in Nat /\ v.number[2] \in Nat /\ v.number[3] \in Nat
                       /\ v.number[1] <= b /\ v.number[2] <= b /\ v.number[3] <= b
    BY NumbersAreNumbers DEF Numbered, NumbersOf, Within
  <1>2. PICK v1 \in all : \A w \in all : w.number[1] <= v1.number[1]
    <2>1. firsts \in SUBSET Nat /\ firsts # {} /\ \A n \in firsts : n <= b
      BY <1>1
    <2>2. PICK n \in firsts : \A m \in firsts : m <= n
      BY <2>1, BoundedHasGreatest
    <2>3. QED
      BY <2>2
  <1> DEFINE top == {v \in all : v.number[1] = v1.number[1]}
             seconds == {v.number[2] : v \in top}
  <1>3. PICK v2 \in top : \A w \in top : w.number[2] <= v2.number[2]
    <2>1. seconds \in SUBSET Nat /\ seconds # {} /\ \A n \in seconds : n <= b
      BY <1>1
    <2>2. PICK n \in seconds : \A m \in seconds : m <= n
      BY <2>1, BoundedHasGreatest
    <2>3. QED
      BY <2>2
  <1> DEFINE tip == {v \in top : v.number[2] = v2.number[2]}
             thirds == {v.number[3] : v \in tip}
  <1>4. PICK v3 \in tip : \A w \in tip : w.number[3] <= v3.number[3]
    <2>1. thirds \in SUBSET Nat /\ thirds # {} /\ \A n \in thirds : n <= b
      BY <1>1
    <2>2. PICK n \in thirds : \A m \in thirds : m <= n
      BY <2>1, BoundedHasGreatest
    <2>3. QED
      BY <2>2
  <1>5. v3 \in all /\ \A w \in all : ~Below(v3.number, w.number)
    BY <1>1, <1>2, <1>3, <1>4 DEF Below
  <1> HIDE DEF all
  <1>6. Highest(seen) = CHOOSE v \in all : \A w \in all : ~Below(v.number, w.number)
    BY DEF Highest, all
  <1>7. Highest(seen) \in all /\ \A w \in all : ~Below(Highest(seen).number, w.number)
    BY <1>5, <1>6
  <1>8. QED
    BY <1>7 DEF all

(* A new name is a number nobody in the listing has; it is above v0 if     *)
(* asked to be, or if all of the listing are.                              *)
LEMMA CandidateIs ==
    ASSUME NEW seen, NEW b \in Nat, NumbersOf(seen, b), NEW level \in Levels
    PROVE  /\ Candidate(seen, level) \in Numbers
           /\ Within(Candidate(seen, level), b + 1)
           /\ \A v \in seen : v.number # Candidate(seen, level)
           /\ level = "major" => Candidate(seen, level)[1] >= 1
           /\ Numbered(seen) # {} /\ (\A v \in Numbered(seen) : v.number[1] >= 1)
                => Candidate(seen, level)[1] >= 1
  <1>1. level = "major" \/ level = "minor" \/ level = "patch"
    BY DEF Levels
  <1>2. ASSUME NEW x \in Nat, NEW y \in Nat, NEW z \in Nat, x <= b, y <= b, z <= b
        PROVE  /\ Bump(<<x, y, z>>, level) \in Numbers
               /\ Within(Bump(<<x, y, z>>, level), b + 1)
               /\ Below(<<x, y, z>>, Bump(<<x, y, z>>, level))
               /\ level = "major" => Bump(<<x, y, z>>, level)[1] >= 1
               /\ x >= 1 => Bump(<<x, y, z>>, level)[1] >= 1
    <2>1. CASE level = "major"
      BY <1>2, <2>1 DEF Bump, Numbers, Within, Below
    <2>2. CASE level = "minor"
      BY <1>2, <2>2 DEF Bump, Numbers, Within, Below
    <2>3. CASE level = "patch"
      BY <1>2, <2>3 DEF Bump, Numbers, Within, Below
    <2>4. QED
      BY <1>1, <2>1, <2>2, <2>3
  <1>3. CASE Numbered(seen) = {}
    <2>1. Candidate(seen, level) = Bump(<<0, 0, 0>>, level)
      BY <1>3 DEF Candidate
    <2>2. \A v \in seen : v.number = NoNumber
      BY <1>3 DEF Numbered
    <2>3. QED
      BY <1>2, <1>3, <2>1, <2>2, NumbersAreNumbers
  <1>4. CASE Numbered(seen) # {}
    <2> DEFINE top == Highest(seen)
    <2>1. top \in Numbered(seen) /\ \A w \in Numbered(seen) : ~Below(top.number, w.number)
      BY <1>4, HighestIs
    <2>2. Candidate(seen, level) = Bump(top.number, level)
      BY <1>4 DEF Candidate
    <2> HIDE DEF top
    <2>3. PICK x, y, z \in Nat : top.number = <<x, y, z>> /\ x <= b /\ y <= b /\ z <= b
      <3>1. top.number \in Numbers /\ top.number # NoNumber /\ Within(top.number, b)
        BY <2>1, NumbersAreNumbers DEF Numbered, NumbersOf
      <3>2. QED
        BY <3>1, NumbersAreNumbers DEF Within
    <2>4. Below(top.number, Candidate(seen, level)) /\ Candidate(seen, level) \in Numbers
      BY <1>2, <2>2, <2>3
    <2>5. \A v \in seen : v.number # Candidate(seen, level)
      BY <2>1, <2>4, NumbersAreNumbers DEF Numbered
    <2>6. top.number[1] = x
      BY <2>3
    <2>7. QED
      BY <1>2, <2>1, <2>2, <2>3, <2>4, <2>5, <2>6
  <1>5. QED
    BY <1>3, <1>4

--------------------------------------------------------------------------------
(* Days.  What end_of_previous_day finds, in terms of indices.             *)

LEMMA EndIs ==
    ASSUME NEW n \in Nat, NEW days, DOMAIN days = 1 .. n, Len(days) = n,
           NEW e, e = EndOfPreviousDay(days)
    PROVE  \/ e = 0 /\ \A i \in 1 .. n : days[i] = days[n]
           \/ e \in 1 .. n /\ days[e] # days[n] /\ \A i \in e + 1 .. n : days[i] = days[n]
  <1> DEFINE earlier == {i \in DOMAIN days : days[i] # days[Len(days)]}
  <1>1. CASE earlier = {}
    BY <1>1 DEF EndOfPreviousDay
  <1>2. CASE earlier # {}
    <2>1. earlier \in SUBSET Nat /\ \A i \in earlier : i <= n
      OBVIOUS
    <2>2. \E i \in earlier : \A j \in earlier : j <= i
      BY <1>2, <2>1, BoundedHasGreatest
    <2>3. e = CHOOSE i \in earlier : \A j \in earlier : j <= i
      BY <1>2 DEF EndOfPreviousDay
    <2>4. e \in earlier /\ \A j \in earlier : j <= e
      BY <2>2, <2>3
    <2>5. ASSUME NEW i \in e + 1 .. n PROVE days[i] = days[n]
      <3>1. i \in 1 .. n /\ ~(i <= e)
        BY <2>4
      <3>2. i \notin earlier
        BY <2>4, <3>1
      <3>3. QED
        BY <3>1, <3>2
    <2>6. QED
      BY <2>4, <2>5
  <1>3. QED
    BY <1>1, <1>2

(* Nothing else is the end of the day before.                              *)
LEMMA EndUnique ==
    ASSUME NEW n \in Nat, NEW days, DOMAIN days = 1 .. n, Len(days) = n,
           NEW e \in 1 .. n, days[e] # days[n], \A i \in e + 1 .. n : days[i] = days[n]
    PROVE  EndOfPreviousDay(days) = e
  <1> DEFINE d == EndOfPreviousDay(days)
  <1>1. \/ d = 0 /\ \A i \in 1 .. n : days[i] = days[n]
        \/ d \in 1 .. n /\ days[d] # days[n] /\ \A i \in d + 1 .. n : days[i] = days[n]
    BY EndIs
  <1> HIDE DEF d
  <1>2. d \in 1 .. n /\ days[d] # days[n] /\ \A i \in d + 1 .. n : days[i] = days[n]
    BY <1>1
  <1>3. ~(d < e) /\ ~(e < d)
    BY <1>2
  <1>4. d = e
    BY <1>2, <1>3
  <1>5. QED
    BY <1>4 DEF d

(* The newest entries are the end of the history.                          *)
LEMMA NewestAre ==
    ASSUME NEW S, NEW q \in Seq(S), NEW count \in Nat \ {0}
    PROVE  \E skip \in Nat :
             /\ skip <= Len(q) /\ Len(Newest(q, count)) = Len(q) - skip
             /\ DOMAIN Newest(q, count) = 1 .. Len(q) - skip
             /\ \A i \in 1 .. Len(q) - skip : Newest(q, count)[i] = q[i + skip]
             /\ \A i \in 1 .. Len(q) : i > skip <=> Len(q) - i < count
             /\ Newest(q, count) \in Seq(S)
  <1> DEFINE skip == IF Len(q) > count THEN Len(q) - count ELSE 0
             window == SubSeq(q, skip + 1, Len(q))
  <1>1. Len(q) \in Nat /\ skip \in Nat /\ skip <= Len(q)
    OBVIOUS
  <1>2. Newest(q, count) = window
    BY DEF Newest
  <1>3. \A i \in 1 .. Len(q) : i > skip <=> Len(q) - i < count
    BY <1>1
  <1>4. /\ window \in Seq(S) /\ Len(window) = Len(q) - skip
        /\ \A i \in 1 .. Len(q) - skip : window[i] = q[i + skip]
    <2> HIDE DEF skip
    <2>1. QED
      BY <1>1
  <1>5. DOMAIN window = 1 .. Len(q) - skip
    <2> HIDE DEF skip
    <2>1. QED
      BY <1>1, <1>4
  <1> HIDE DEF window, skip
  <1>6. QED
    BY <1>1, <1>2, <1>3, <1>4, <1>5

LEMMA DaysAre ==
    ASSUME NEW S, NEW q \in Seq(S)
    PROVE  /\ DOMAIN Days(q) = 1 .. Len(q) /\ Len(Days(q)) = Len(q)
           /\ \A i \in 1 .. Len(q) : Days(q)[i] = q[i].day
           /\ (\A i \in 1 .. Len(q) : q[i].day \in Nat) => Days(q) \in Seq(Nat)
  <1>1. DOMAIN q = 1 .. Len(q) /\ Len(q) \in Nat
    OBVIOUS
  <1>2. Days(q) = [i \in 1 .. Len(q) |-> q[i].day]
    BY <1>1 DEF Days
  <1>3. QED
    BY <1>1, <1>2

(* The day mark finds the end of the day before exactly when that is       *)
(* within the window.                                                      *)
LEMMA LastOfPreviousDayIs ==
    ASSUME NEW S, NEW q \in Seq(S), NEW count \in Nat \ {0},
           NEW w, w = Newest(q, count), NEW at, at = LastOfPreviousDay(w),
           NEW e, e = EndOfPreviousDay(Days(q))
    PROVE  /\ e = 0 \/ ~(Len(q) - e < count) => at = 0
           /\ e # 0 /\ Len(q) - e < count => at # 0 /\ w[at] = q[e]
           /\ e \in 0 .. Len(q)
  <1>1. PICK skip \in Nat :
             /\ skip <= Len(q) /\ Len(w) = Len(q) - skip
             /\ DOMAIN w = 1 .. Len(q) - skip
             /\ \A i \in 1 .. Len(q) - skip : w[i] = q[i + skip]
             /\ \A i \in 1 .. Len(q) : i > skip <=> Len(q) - i < count
             /\ w \in Seq(S)
    BY NewestAre
  <1> DEFINE n == Len(q)
             m == Len(q) - skip
  <1>2. n \in Nat /\ m \in Nat
    BY <1>1
  <1>3. /\ DOMAIN Days(q) = 1 .. n /\ Len(Days(q)) = n
        /\ \A i \in 1 .. n : Days(q)[i] = q[i].day
    BY DaysAre
  <1>4. /\ DOMAIN Days(w) = 1 .. m /\ Len(Days(w)) = m
        /\ \A i \in 1 .. m : Days(w)[i] = w[i].day
    <2>1. /\ DOMAIN Days(w) = 1 .. Len(w) /\ Len(Days(w)) = Len(w)
          /\ \A i \in 1 .. Len(w) : Days(w)[i] = w[i].day
      BY <1>1, DaysAre
    <2>2. QED
      BY <1>1, <2>1
  <1>8. m = n - skip /\ n = Len(q) /\ skip <= n
    BY <1>1
  <1>5. /\ at = EndOfPreviousDay(Days(w))
        /\ \/ at = 0 /\ \A i \in 1 .. m : Days(w)[i] = Days(w)[m]
           \/ /\ at \in 1 .. m /\ Days(w)[at] # Days(w)[m]
              /\ \A i \in at + 1 .. m : Days(w)[i] = Days(w)[m]
    <2>1. at = EndOfPreviousDay(Days(w))
      BY DEF LastOfPreviousDay
    <2> HIDE DEF m, n
    <2>2. QED
      BY <2>1, <1>2, <1>4, EndIs
  <1>6. \/ e = 0 /\ \A i \in 1 .. n : Days(q)[i] = Days(q)[n]
        \/ e \in 1 .. n /\ Days(q)[e] # Days(q)[n] /\ \A i \in e + 1 .. n : Days(q)[i] = Days(q)[n]
    BY <1>2, <1>3, EndIs
  <1>7. \A i \in 1 .. m : i + skip \in 1 .. n /\ Days(w)[i] = Days(q)[i + skip]
    <2>1. ASSUME NEW i \in 1 .. m PROVE i + skip \in 1 .. n
      BY <1>1, <1>2
    <2>2. ASSUME NEW i \in 1 .. m PROVE Days(w)[i] = Days(q)[i + skip]
      <3>1. Days(w)[i] = w[i].day /\ w[i] = q[i + skip]
        BY <1>1, <1>4
      <3>2. Days(q)[i + skip] = q[i + skip].day
        BY <1>3, <2>1
      <3>3. QED
        BY <3>1, <3>2
    <2>3. QED
      BY <2>1, <2>2
  <1> HIDE DEF n, m
  <1>9. CASE e # 0 /\ Len(q) - e < count
    <2>1. e \in 1 .. n /\ e > skip /\ e # n
      BY <1>1, <1>2, <1>6, <1>8, <1>9
    <2>2. e - skip \in 1 .. m /\ m \in 1 .. m
      BY <1>2, <1>8, <2>1
    <2>3. Days(w)[e - skip] = Days(q)[e] /\ Days(w)[m] = Days(q)[n]
      <3>1. e - skip + skip = e /\ m + skip = n
        BY <1>2, <1>8, <2>1
      <3>2. QED
        BY <1>7, <2>2, <3>1
    <2>4. ASSUME NEW i \in (e - skip) + 1 .. m PROVE Days(w)[i] = Days(w)[m]
      <3>1. i \in 1 .. m /\ i + skip \in e + 1 .. n
        BY <1>2, <1>8, <2>1, <2>2, SMTT(30)
      <3>2. QED
        BY <1>6, <1>7, <1>9, <2>3, <3>1
    <2>5. Days(w)[e - skip] # Days(w)[m]
      BY <1>6, <1>9, <2>3
    <2>6. EndOfPreviousDay(Days(w)) = e - skip
      BY <1>2, <1>4, <2>2, <2>4, <2>5, EndUnique
    <2>7. at = e - skip /\ w[at] = q[e]
      <3>1. at = e - skip
        BY <2>6, <1>5
      <3>2. w[e - skip] = q[(e - skip) + skip]
        BY <1>1, <1>8, <2>2 DEF m
      <3>3. (e - skip) + skip = e
        BY <2>1, <1>2
      <3>4. QED
        BY <3>1, <3>2, <3>3
    <2>8. at # 0 /\ w[at] = q[e]
      BY <1>1, <1>8, <2>1, <2>2, <2>7
    <2>9. QED
      BY <1>8, <1>9, <2>1, <2>8
  <1>10. CASE e = 0 \/ ~(Len(q) - e < count)
    <2>1. ASSUME at # 0 PROVE FALSE
      <3>1. at \in 1 .. m /\ Days(w)[at] # Days(w)[m]
        BY <1>5, <2>1
      <3>2. m \in 1 .. m /\ m + skip = n /\ at + skip \in 1 .. n /\ at + skip > skip /\ n \in 1 .. n
        BY <1>1, <1>2, <1>8, <3>1
      <3>3. Days(q)[at + skip] # Days(q)[n]
        BY <1>7, <3>1, <3>2
      <3>4. e \in 1 .. n /\ ~(e > skip)
        <4>1. e \in 1 .. n
          BY <1>6, <3>2, <3>3
        <4>2. e # 0 /\ ~(Len(q) - e < count)
          BY <1>2, <1>10, <4>1
        <4>3. QED
          BY <1>1, <1>8, <4>1, <4>2
      <3>5. at + skip \in e + 1 .. n
        BY <1>2, <3>2, <3>4
      <3>6. QED
        BY <1>6, <3>3, <3>4, <3>5
    <2>2. QED
      BY <2>1, <1>2, <1>6, <1>8, <1>10
  <1>11. QED
    BY <1>9, <1>10

LEMMA AppendIs ==
    ASSUME NEW S, NEW d \in Seq(S), NEW x \in S
    PROVE  /\ Append(d, x) \in Seq(S) /\ Len(Append(d, x)) = Len(d) + 1
           /\ DOMAIN Append(d, x) = 1 .. Len(d) + 1
           /\ Append(d, x)[Len(d) + 1] = x
           /\ \A i \in 1 .. Len(d) : Append(d, x)[i] = d[i]
  OBVIOUS

(* Where would_be_marked_again says no of a state whose day is over, a     *)
(* later state or the window stands before it for good.                    *)
LEMMA NotMarkedAgain ==
    ASSUME NEW S, NEW q \in Seq(S), NEW now \in Nat, NEW count \in Nat \ {0},
           NEW id \in 1 .. Len(q),
           \A i \in 1 .. Len(q) : q[i].id = i /\ q[i].day \in Nat /\ q[i].day <= now,
           q[id].day # now, ~WouldBeMarkedAgain(q[id], q, now, count)
    PROVE  (\E k \in id + 1 .. Len(q) : q[k].day < now) \/ Len(q) + 1 - id >= count
  <1> SUFFICES ASSUME \A k \in id + 1 .. Len(q) : ~(q[k].day < now), Len(q) + 1 - id < count
               PROVE  FALSE
    BY DEF WouldBeMarkedAgain
  <1> DEFINE n == Len(q)
             ext == Append(Days(q), now)
             w == Newest(ext, count)
             at == EndOfPreviousDay(w)
  <1>1. n \in Nat /\ Len(q) = n
    OBVIOUS
  <1>2. /\ Days(q) \in Seq(Nat) /\ Len(Days(q)) = n
        /\ \A i \in 1 .. n : Days(q)[i] = q[i].day
    BY DaysAre
  <1>14. id \in 1 .. n /\ n + 1 - id < count
    OBVIOUS
  <1> HIDE DEF n
  <1>3. /\ ext \in Seq(Nat) /\ Len(ext) = n + 1 /\ ext[n + 1] = now
        /\ \A i \in 1 .. n : ext[i] = q[i].day
    BY <1>1, <1>2, AppendIs
  <1> HIDE DEF ext
  <1>4. PICK skip \in Nat :
             /\ skip <= n + 1 /\ Len(w) = n + 1 - skip
             /\ DOMAIN w = 1 .. n + 1 - skip
             /\ \A i \in 1 .. n + 1 - skip : w[i] = ext[i + skip]
             /\ \A i \in 1 .. n + 1 : i > skip <=> n + 1 - i < count
    <2>1. PICK skip \in Nat :
             /\ skip <= Len(ext) /\ Len(w) = Len(ext) - skip
             /\ DOMAIN w = 1 .. Len(ext) - skip
             /\ \A i \in 1 .. Len(ext) - skip : w[i] = ext[i + skip]
             /\ \A i \in 1 .. Len(ext) : i > skip <=> Len(ext) - i < count
      BY <1>3, NewestAre
    <2> HIDE DEF w
    <2>2. Len(ext) = n + 1
      BY <1>3
    <2>3. /\ skip <= n + 1 /\ Len(w) = n + 1 - skip
          /\ DOMAIN w = 1 .. n + 1 - skip
      BY <1>1, <2>1, <2>2
    <2>4. \A i \in 1 .. n + 1 - skip : w[i] = ext[i + skip]
      BY <1>1, <2>1, <2>2, SMTT(30)
    <2>5. ASSUME NEW i \in 1 .. n + 1 PROVE i > skip <=> n + 1 - i < count
      <3>1. i \in 1 .. Len(ext) /\ Len(ext) - i = n + 1 - i
        BY <1>1, <2>2
      <3>2. i > skip <=> Len(ext) - i < count
        BY <1>1, <2>1, <2>2, <3>1
      <3>3. QED
        BY <3>1, <3>2
    <2>6. QED
      BY <2>3, <2>4, <2>5
  <1> DEFINE m == n + 1 - skip
             e == id - skip
  <1> HIDE DEF w, at
  <1>5. id > skip /\ id \in 1 .. n /\ e \in 1 .. m /\ m \in 1 .. m /\ m \in Nat
        /\ e + skip = id /\ m + skip = n + 1
    <2>1. id \in 1 .. n + 1 /\ id > skip
      BY <1>1, <1>4, <1>14
    <2>2. QED
      BY <2>1, <1>1, <1>4, <1>14
  <1>6. w[e] = q[id].day /\ w[m] = now
    BY <1>3, <1>4, <1>5
  <1>7. ASSUME NEW i \in e + 1 .. m PROVE w[i] = w[m]
    <2>1. i \in 1 .. m /\ i + skip \in id + 1 .. n + 1
      BY <1>4, <1>5, <1>1
    <2>2. w[i] = ext[i + skip]
      BY <2>1, <1>4
    <2>3. CASE i + skip = n + 1
      BY <2>2, <2>3, <1>3, <1>6
    <2>4. CASE i + skip # n + 1
      <3>1. i + skip \in id + 1 .. n /\ i + skip \in 1 .. n
        BY <2>1, <2>4, <1>1, <1>5
      <3>2. q[i + skip].day = now
        BY <3>1 DEF n
      <3>3. QED
        BY <3>1, <3>2, <2>2, <1>3, <1>6
    <2>5. QED
      BY <2>3, <2>4
  <1>8. at = e
    <2>1. DOMAIN w = 1 .. m /\ Len(w) = m /\ w[e] # w[m]
      BY <1>4, <1>6
    <2> HIDE DEF e, m
    <2>2. QED
      BY <2>1, <1>5, <1>7, EndUnique, ZenonT(40) DEF at
  <1>9. at + n + 1 - Len(w) = id /\ at # 0
    BY <1>1, <1>4, <1>5, <1>8 DEF e, m
  <1>10. q[id].id = id
    BY <1>5 DEF n
  <1>11. WouldBeMarkedAgain(q[id], q, now, count)
    <2>1. at # 0 /\ q[at + Len(q) + 1 - Len(w)].id = q[id].id
      BY <1>9 DEF n
    <2>2. QED
      BY <2>1 DEF WouldBeMarkedAgain, at, w, ext
  <1>12. QED
    BY <1>11

--------------------------------------------------------------------------------
(* The invariant.  What a job holds was read from a history of n states,   *)
(* rewritten r times, that has only grown since.                           *)

Working(p) == job[p].does # "nothing"

RevOK(rev, n, r) == rev.id \in 1 .. n /\ rev.at \in 0 .. r

VersionOK(v, n) ==
    /\ v.state \in 1 .. n
    /\ v.by \in {"floor", "day", "person", "hand"}
    /\ IF v.by = "hand" THEN v.number = NoNumber ELSE v.number \in Numbers

WriteOK(j, n, r) ==
    /\ j.does \in {"name", "write"} => RevOK(j.rev, n, r)
    /\ j.does = "write" => j.number \in Numbers

FloorJob(j, n, r) ==
    /\ j.does \in {"nothing", "oldest", "name", "write"}
    /\ j.does # "nothing" => j.by = "floor"
    /\ j.does = "name" => j.level = "major"
    /\ WriteOK(j, n, r)

DayJob(j, n, r) ==
    /\ j.does \in {"nothing", "versions", "compare", "name", "write"}
    /\ j.does # "nothing" => j.by = "day" /\ RevOK(j.rev, n, r)
    /\ j.does = "compare" =>
         /\ \A v \in j.seen : VersionOK(v, n)
         /\ j.at \in 0 .. r /\ j.rev.at <= j.at
    /\ j.does = "name" => j.level \in {"major", "patch"}
    /\ WriteOK(j, n, r)

PersonJob(j, n, r, now) ==
    /\ j.does \in {"nothing", "write", "confirm"}
    /\ j.does = "write" => j.by = "person"
    /\ j.does = "confirm" => VersionOK(j.version, n) /\ j.asked \in 0 .. now
    /\ WriteOK(j, n, r)

LooseJob(j, n, r) ==
    /\ j.does \in {"nothing", "write"}
    /\ j.does # "nothing" => j.by \in {"floor", "day"}
    /\ WriteOK(j, n, r)

Workers == {"floor", "day", "person", "loose"}

States == [id : Nat, named : Nat, day : Nat, content : Contents \cup {Gone}]

(* A history in the order it was recorded, and rewritten from some state   *)
(* on; a dashboard is not recorded as gone before it was there.            *)
HistoryOK ==
    /\ today \in Nat /\ rewrites \in Nat
    /\ states \in Seq(States)
    /\ \A i \in 1 .. Len(states) :
         states[i].id = i /\ states[i].named <= rewrites /\ states[i].day <= today
    /\ \A i, j \in 1 .. Len(states) :
         i <= j => states[i].day <= states[j].day /\ states[i].named <= states[j].named
    /\ states # <<>> => states[1].content # Gone

RewritesOK == rewriting => rewrites > 0

JobsOK ==
    /\ DOMAIN job = Workers
    /\ FloorJob(job["floor"], Len(states), rewrites)
    /\ DayJob(job["day"], Len(states), rewrites)
    /\ PersonJob(job["person"], Len(states), rewrites, today)
    /\ LooseJob(job["loose"], Len(states), rewrites)

(* Ids of the first n states.                                              *)
Recorded(ids, n) == ids \subseteq 1 .. n

Types ==
    /\ HistoryOK
    /\ RewritesOK
    /\ JobsOK
    /\ \A v \in versions : VersionOK(v, Len(states))
    /\ due \in Nat
    /\ Recorded(owed, Len(states))
    /\ \A t \in told : t.state \in 1 .. Len(states) /\ t.on \in 0 .. today

(* What a step can make of the history.                                    *)
Grows ==
    /\ Len(states) \in Nat /\ Len(states') \in Nat /\ Len(states) <= Len(states')
    /\ today \in Nat /\ today' \in Nat /\ today <= today'
    /\ rewrites \in Nat /\ rewrites' \in Nat /\ rewrites <= rewrites'
    /\ \A i \in 1 .. Len(states) :
         /\ states'[i].day = states[i].day /\ states'[i].content = states[i].content
         /\ states'[i].named >= states[i].named

(* No number is above b.                                                   *)
Limit(b) ==
    /\ \A v \in versions : Within(v.number, b)
    /\ \A p \in Workers : job[p].does = "write" => Within(job[p].number, b)
    /\ job["day"].does = "compare" => \A v \in job["day"].seen : Within(v.number, b)

Limited == \E b \in Nat : Limit(b)

(* One marker works at a time, and none is left behind without a doubt.    *)
OneMarker ==
    /\ ~(Working("floor") /\ Working("day"))
    /\ Working("loose") => "unload" \in doubt
    /\ Working("floor") <=> floor = "working"
    /\ floor \in {"waiting", "working"} => states # <<>>
    /\ floor # "no" => up

(* The day mark is about the last state of a day that is over.             *)
Over(id) == id < Len(states) /\ states[id].day < states[id + 1].day

DayIsOver == Working("day") => Over(job["day"].rev.id)

(* Jobs and versions stay what they are while the history grows.           *)
LEMMA JobsGrow ==
    ASSUME NEW n \in Nat, NEW m \in Nat, n <= m, NEW r \in Nat, NEW s \in Nat, r <= s,
           NEW t \in Nat, NEW u \in Nat, t <= u
    PROVE  \A j : /\ VersionOK(j, n) => VersionOK(j, m)
                  /\ FloorJob(j, n, r) => FloorJob(j, m, s)
                  /\ DayJob(j, n, r) => DayJob(j, m, s)
                  /\ PersonJob(j, n, r, t) => PersonJob(j, m, s, u)
                  /\ LooseJob(j, n, r) => LooseJob(j, m, s)
  <1>1. \A v : VersionOK(v, n) => VersionOK(v, m)
    BY DEF VersionOK
  <1>2. \A rev : RevOK(rev, n, r) => RevOK(rev, m, s)
    BY DEF RevOK
  <1>3. \A j : WriteOK(j, n, r) => WriteOK(j, m, s)
    BY <1>2 DEF WriteOK
  <1>4. \A j : FloorJob(j, n, r) => FloorJob(j, m, s)
    BY <1>3 DEF FloorJob
  <1>5. ASSUME NEW j, DayJob(j, n, r) PROVE DayJob(j, m, s)
    <2>1. j.does = "compare" => /\ \A v \in j.seen : VersionOK(v, m)
                                /\ j.at \in 0 .. s /\ j.rev.at <= j.at
      BY <1>1, <1>5 DEF DayJob
    <2>2. QED
      BY <2>1, <1>2, <1>3, <1>5 DEF DayJob
  <1>6. \A j : PersonJob(j, n, r, t) => PersonJob(j, m, s, u)
    BY <1>1, <1>3 DEF PersonJob
  <1>7. \A j : LooseJob(j, n, r) => LooseJob(j, m, s)
    BY <1>3 DEF LooseJob
  <1>8. QED
    BY <1>1, <1>4, <1>5, <1>6, <1>7

LEMMA Renamed ==
    ASSUME NEW s \in States, NEW r \in Nat
    PROVE  /\ [s EXCEPT !.named = r] \in States
           /\ [s EXCEPT !.named = r].id = s.id /\ [s EXCEPT !.named = r].named = r
           /\ [s EXCEPT !.named = r].day = s.day
           /\ [s EXCEPT !.named = r].content = s.content
  BY DEF States

LEMMA HistoryInit == Init => HistoryOK
  <1> SUFFICES ASSUME Init PROVE HistoryOK
    OBVIOUS
  <1>1. today = 1 /\ states = <<>> /\ rewrites = 0
    BY DEF Init
  <1>2. states \in Seq(States) /\ Len(states) = 0
    BY <1>1
  <1>3. \A i : i \notin 1 .. Len(states)
    BY <1>2
  <1>4. QED
    BY <1>1, <1>2, <1>3 DEF HistoryOK

(* Every step keeps the history in order and at most adds to it.           *)
LEMMA HistoryStep ==
    ASSUME HistoryOK, [Next]_vars
    PROVE  HistoryOK' /\ Grows
  <1>1. /\ today \in Nat /\ rewrites \in Nat
        /\ states \in Seq(States) /\ Len(states) \in Nat
        /\ \A i \in 1 .. Len(states) :
             /\ states[i] \in States
             /\ states[i].id = i /\ states[i].named <= rewrites /\ states[i].day <= today
        /\ \A i, j \in 1 .. Len(states) :
             i <= j => states[i].day <= states[j].day /\ states[i].named <= states[j].named
        /\ states # <<>> => states[1].content # Gone
    BY DEF HistoryOK
  <1>2. \A i \in 1 .. Len(states) :
           /\ states[i].id \in Nat /\ states[i].named \in Nat /\ states[i].day \in Nat
           /\ states[i].content \in Contents \cup {Gone}
    BY <1>1 DEF States
  <1>3. CASE UNCHANGED recorded
    <2>1. today' = today /\ states' = states /\ rewrites' = rewrites
      BY <1>3 DEF recorded
    <2>2. QED
      BY <2>1, <1>1, <1>2 DEF HistoryOK, Grows
  <1>4. CASE NextDay
    <2>1. today' = today + 1 /\ states' = states /\ rewrites' = rewrites
      BY <1>4 DEF NextDay
    <2>2. QED
      BY <2>1, <1>1, <1>2 DEF HistoryOK, Grows
  <1>5. ASSUME NEW content \in Contents \cup {Gone}, NEW announced \in BOOLEAN,
               Record(content, announced)
        PROVE  HistoryOK' /\ Grows
    <2> DEFINE n == Len(states)
    <2>7. n \in Nat /\ n = Len(states)
      BY <1>1
    <2> DEFINE s == [id |-> n + 1, named |-> rewrites, day |-> today, content |-> content]
    <2>1. /\ today' = today /\ rewrites' = rewrites
          /\ states' = Append(states, s)
          /\ (content = Gone => Live)
      BY <1>5 DEF Record
    <2>2. s \in States
      BY <1>1 DEF States
    <2>3. s.id = n + 1 /\ s.named = rewrites /\ s.day = today /\ s.content = content
      OBVIOUS
    <2> HIDE DEF s, n
    <2>4. /\ states' \in Seq(States) /\ Len(states') = n + 1 /\ states'[n + 1] = s
          /\ \A i \in 1 .. n : states'[i] = states[i]
      BY <1>1, <2>1, <2>2, <2>7, AppendIs
    <2>5. states = <<>> => content # Gone
      BY <2>1 DEF Live
    <2>6. states'[1].content # Gone
      <3>1. CASE states = <<>>
        BY <3>1, <1>1, <2>3, <2>4, <2>5, <2>7
      <3>2. CASE states # <<>>
        <4>1. 1 \in 1 .. n
          BY <3>2, <1>1, <2>7
        <4>2. QED
          BY <4>1, <3>2, <1>1, <2>4
      <3>3. QED
        BY <3>1, <3>2
    <2>8. \A i \in 1 .. n + 1 : i = n + 1 \/ i \in 1 .. n
      BY <2>7
    <2>9. \A i \in 1 .. Len(states') :
            /\ states'[i].id = i /\ states'[i].named <= rewrites /\ states'[i].day <= today
      BY <1>1, <1>2, <2>3, <2>4, <2>7, <2>8
    <2>10. \A i, j \in 1 .. Len(states') :
             i <= j => states'[i].day <= states'[j].day /\ states'[i].named <= states'[j].named
      BY <1>1, <1>2, <2>3, <2>4, <2>7, <2>8, SMTT(30)
    <2>11. HistoryOK'
      BY <1>1, <2>1, <2>4, <2>6, <2>9, <2>10 DEF HistoryOK
    <2>12. Grows
      BY <1>1, <1>2, <2>1, <2>4, <2>7 DEF Grows
    <2>13. QED
      BY <2>11, <2>12
  <1>6. ASSUME NEW first \in 1 .. Len(states) + 1, RewriteBegins(first)
        PROVE  HistoryOK' /\ Grows
    <2>1. /\ today' = today /\ rewrites' = rewrites + 1
          /\ states' = [i \in DOMAIN states |->
                          IF i >= first THEN [states[i] EXCEPT !.named = rewrites + 1]
                          ELSE states[i]]
      BY <1>6 DEF RewriteBegins
    <2>2. DOMAIN states = 1 .. Len(states)
      BY <1>1
    <2>3. \A i \in 1 .. Len(states) :
            /\ [states[i] EXCEPT !.named = rewrites + 1] \in States
            /\ [states[i] EXCEPT !.named = rewrites + 1].id = states[i].id
            /\ [states[i] EXCEPT !.named = rewrites + 1].named = rewrites + 1
            /\ [states[i] EXCEPT !.named = rewrites + 1].day = states[i].day
            /\ [states[i] EXCEPT !.named = rewrites + 1].content = states[i].content
      <3>1. rewrites + 1 \in Nat /\ \A i \in 1 .. Len(states) : states[i] \in States
        BY <1>1
      <3> DEFINE r == rewrites + 1
      <3> HIDE DEF r
      <3>2. \A i \in 1 .. Len(states) :
            /\ [states[i] EXCEPT !.named = r] \in States
            /\ [states[i] EXCEPT !.named = r].id = states[i].id
            /\ [states[i] EXCEPT !.named = r].named = r
            /\ [states[i] EXCEPT !.named = r].day = states[i].day
            /\ [states[i] EXCEPT !.named = r].content = states[i].content
        BY <3>1, Renamed DEF r
      <3>3. QED
        BY <3>2 DEF r
    <2>4. /\ states' \in Seq(States) /\ Len(states') = Len(states)
          /\ \A i \in 1 .. Len(states) :
               /\ states'[i].id = states[i].id /\ states'[i].day = states[i].day
               /\ states'[i].content = states[i].content
               /\ states'[i].named = IF i >= first THEN rewrites + 1 ELSE states[i].named
      <3>1. \A i \in 1 .. Len(states) :
              states'[i] = IF i >= first THEN [states[i] EXCEPT !.named = rewrites + 1]
                           ELSE states[i]
        BY <2>1, <2>2
      <3>2. ASSUME NEW i \in 1 .. Len(states) PROVE states'[i] \in States
        <4>1. CASE i >= first
          BY <4>1, <3>1, <2>3
        <4>2. CASE ~(i >= first)
          BY <4>2, <3>1, <1>1
        <4>3. QED
          BY <4>1, <4>2
      <3>3. states' \in [1 .. Len(states) -> States]
        BY <3>2, <2>1, <2>2
      <3>4. states' \in Seq(States) /\ Len(states') = Len(states)
        BY <3>3, <1>1
      <3>5. QED
        BY <3>1, <3>4, <2>3
    <2>5. \A i \in 1 .. Len(states) : states'[i].named >= states[i].named
      BY <1>1, <1>2, <2>4
    <2>6. \A i, j \in 1 .. Len(states') :
             i <= j => states'[i].day <= states'[j].day /\ states'[i].named <= states'[j].named
      <3>1. SUFFICES ASSUME NEW i \in 1 .. Len(states), NEW j \in 1 .. Len(states), i <= j
                     PROVE  /\ states'[i].day <= states'[j].day
                            /\ states'[i].named <= states'[j].named
        BY <2>4
      <3>2. /\ states[i].day <= states[j].day /\ states[i].named <= states[j].named
            /\ states[i].named <= rewrites + 1
        BY <1>1, <1>2, <3>1
      <3>3. CASE i >= first
        <4>1. j >= first
          BY <3>1, <3>3
        <4>2. QED
          BY <1>1, <2>4, <3>2, <3>3, <4>1
      <3>4. CASE ~(i >= first)
        BY <1>1, <2>4, <3>2, <3>4
      <3>5. QED
        BY <3>3, <3>4
    <2>7. HistoryOK'
      <3>1. states' # <<>> => states'[1].content # Gone
        <4>1. ASSUME states' # <<>> PROVE 1 \in 1 .. Len(states) /\ states # <<>>
          BY <4>1, <2>4, <1>1
        <4>2. QED
          BY <4>1, <2>4, <1>1
      <3>2. \A i \in 1 .. Len(states') :
              states'[i].id = i /\ states'[i].named <= rewrites' /\ states'[i].day <= today'
        BY <1>1, <1>2, <2>1, <2>4
      <3>3. QED
        BY <3>1, <3>2, <1>1, <2>1, <2>4, <2>6, SMTT(30) DEF HistoryOK
    <2>8. QED
      BY <2>7, <1>1, <1>2, <2>1, <2>4, <2>5 DEF Grows
  <1>7. CASE RewriteEnds
    <2>1. today' = today /\ states' = states /\ rewrites' = rewrites
      BY <1>7 DEF RewriteEnds
    <2>2. QED
      BY <2>1, <1>1, <1>2 DEF HistoryOK, Grows
  <1>8. \/ UNCHANGED recorded \/ NextDay \/ RewriteEnds
        \/ \E content \in Contents \cup {Gone}, announced \in BOOLEAN : Record(content, announced)
        \/ \E first \in 1 .. Len(states) + 1 : RewriteBegins(first)
    <2>1. CASE Marker
      BY <2>1 DEF Marker, ListForFloor, FloorReadsVersions, FloorReadsHistory, MarkReadsHistory,
                  MarkReadsVersions, MarkCompares, ReadRaises, Name, Write
    <2>2. CASE Person
      BY <2>2 DEF Person, AskForVersion, TagByHand, Write, PreviewRemoval, ConfirmRemoval
    <2>3. CASE Setup \/ Unload \/ Write("loose")
      BY <2>3 DEF Setup, Unload, Write
    <2>4. CASE UNCHANGED vars
      BY <2>4 DEF vars
    <2>5. QED
      BY <2>1, <2>2, <2>3, <2>4 DEF Next
  <1>9. QED
    BY <1>3, <1>4, <1>5, <1>6, <1>7, <1>8

--------------------------------------------------------------------------------
(* The jobs.                                                               *)

LEMMA JobBecomes ==
    ASSUME DOMAIN job = Workers, NEW p \in Workers, NEW j, Becomes(p, j)
    PROVE  /\ DOMAIN job' = Workers /\ job'[p] = j
           /\ \A q \in Workers \ {p} : job'[q] = job[q]
  BY DEF Becomes

LEMMA JobEnds ==
    ASSUME DOMAIN job = Workers, NEW p \in Workers, Ends(p)
    PROVE  /\ DOMAIN job' = Workers /\ job'[p] = NoJob
           /\ \A q \in Workers \ {p} : job'[q] = job[q]
  BY DEF Ends

LEMMA NothingToDo ==
    /\ NoJob.does = "nothing"
    /\ \A n, r, t : /\ FloorJob(NoJob, n, r) /\ DayJob(NoJob, n, r)
                    /\ PersonJob(NoJob, n, r, t) /\ LooseJob(NoJob, n, r)
  BY DEF NoJob, FloorJob, DayJob, PersonJob, LooseJob, WriteOK

(* A read that raises ends a job that had read something.                  *)
LEMMA RaisesIs ==
    ASSUME NEW p \in {"floor", "day"}, ReadRaises(p)
    PROVE  /\ p \in Workers /\ job[p].does \in {"oldest", "compare", "name"} /\ Ends(p)
           /\ UNCHANGED <<today, states, rewrites, rewriting, versions, up, unloads, due,
                          requests, told, clash, doubt>>
           /\ p = "floor" => owed' = owed /\ floor' = "no"
           /\ p = "day" => owed' = Unanswered(due) /\ floor' = floor
  BY DEF ReadRaises, Dropped, Released, recorded, entry, Workers

(* What is still owed after a mark that failed is what was owed, or none.  *)
LEMMA UnansweredIs ==
    ASSUME NEW n \in Nat
    PROVE  /\ Unanswered(n) = owed \/ Unanswered(n) = {}
           /\ n = 0 => Unanswered(n) = {}
  BY DEF Unanswered

(* An unloading ends the jobs of the instance, and may leave one write of  *)
(* theirs behind.                                                          *)
LEMMA JobsUnload ==
    ASSUME DOMAIN job = Workers, Unload
    PROVE  /\ DOMAIN job' = Workers /\ job'["floor"] = NoJob /\ job'["day"] = NoJob
           /\ job'["person"] = job["person"]
           /\ \/ job'["loose"] = job["loose"]
              \/ \E p \in {"floor", "day"} : job[p].does = "write" /\ job'["loose"] = job[p]
  <1>1. CASE job' = [job EXCEPT !["floor"] = NoJob, !["day"] = NoJob]
    BY <1>1 DEF Workers
  <1>2. ASSUME NEW p \in {"floor", "day"}, job[p].does = "write",
               job' = [job EXCEPT !["floor"] = NoJob, !["day"] = NoJob, !["loose"] = job[p]]
        PROVE  /\ DOMAIN job' = Workers /\ job'["floor"] = NoJob /\ job'["day"] = NoJob
               /\ job'["person"] = job["person"] /\ job'["loose"] = job[p]
    BY <1>2 DEF Workers
  <1>3. QED
    BY <1>1, <1>2 DEF Unload

(* A listing of versions has numbers within the limit.                     *)
LEMMA ListedNumbers ==
    ASSUME NEW n, NEW b, NEW seen, \A v \in seen : VersionOK(v, n) /\ Within(v.number, b)
    PROVE  NumbersOf(seen, b)
  BY DEF VersionOK, NumbersOf

(* The state a day mark is about is the end of the day before, and within  *)
(* the window.                                                             *)
LEMMA MarkIsAboutEnd ==
    ASSUME HistoryOK, NEW e, e = EndOfPreviousDay(Days(states)),
           NEW w, w = Newest(states, RecentStates), NEW at, at = LastOfPreviousDay(w)
    PROVE  /\ e \in 0 .. Len(states)
           /\ at # 0 <=> e # 0 /\ Len(states) - e < RecentStates
           /\ at # 0 => w[at] = states[e] /\ w[at].id = e
           /\ e # 0 => /\ e < Len(states) /\ states[e].day < states[e + 1].day
                       /\ states[e].day < states[Len(states)].day
                       /\ \A i \in e + 1 .. Len(states) : states[i].day = states[Len(states)].day
  <1>1. /\ states \in Seq(States) /\ Len(states) \in Nat /\ RecentStates \in Nat \ {0}
        /\ \A i \in 1 .. Len(states) : states[i].id = i
        /\ \A i, j \in 1 .. Len(states) : i <= j => states[i].day <= states[j].day
        /\ \A i \in 1 .. Len(states) : states[i] \in States
    BY BoundsAssumption DEF HistoryOK
  <1>2. /\ e = 0 \/ ~(Len(states) - e < RecentStates) => at = 0
        /\ e # 0 /\ Len(states) - e < RecentStates => at # 0 /\ w[at] = states[e]
        /\ e \in 0 .. Len(states)
    BY <1>1, LastOfPreviousDayIs
  <1>3. e # 0 => e \in 1 .. Len(states)
    BY <1>1, <1>2
  <1>4. e # 0 => /\ states[e].day # states[Len(states)].day
                 /\ \A i \in e + 1 .. Len(states) : states[i].day = states[Len(states)].day
    <2>1. /\ DOMAIN Days(states) = 1 .. Len(states) /\ Len(Days(states)) = Len(states)
          /\ \A i \in 1 .. Len(states) : Days(states)[i] = states[i].day
      BY <1>1, DaysAre
    <2> DEFINE n == Len(states)
               d == Days(states)
    <2>2. n \in Nat /\ DOMAIN d = 1 .. n /\ Len(d) = n /\ e = EndOfPreviousDay(d)
      BY <1>1, <2>1
    <2>3. \A i \in 1 .. n : d[i] = states[i].day
      BY <2>1
    <2> HIDE DEF n, d
    <2>4. e # 0 => e \in 1 .. n /\ d[e] # d[n] /\ \A i \in e + 1 .. n : d[i] = d[n]
      BY <2>2, EndIs
    <2>5. e # 0 => /\ states[e].day # states[n].day
                   /\ \A i \in e + 1 .. n : states[i].day = states[n].day
      <3>1. e # 0 => n \in 1 .. n /\ \A i \in e + 1 .. n : i \in 1 .. n
        BY <2>2, <2>4
      <3>2. QED
        BY <2>3, <2>4, <3>1
    <2>6. QED
      BY <2>5 DEF n
  <1>5. \A i \in 1 .. Len(states) : states[i].day \in Nat
    BY <1>1 DEF States
  <1>6. e # 0 => /\ e < Len(states) /\ states[e].day < states[e + 1].day
                 /\ states[e].day < states[Len(states)].day
    BY <1>1, <1>3, <1>4, <1>5
  <1>7. QED
    BY <1>1, <1>2, <1>3, <1>4, <1>6

(* What is read and what is asked for are states of the history, and what  *)
(* is worked out is a number.                                              *)
LEMMA JobsStep ==
    ASSUME Types, Limited, [Next]_vars
    PROVE  JobsOK'
  <1> DEFINE n == Len(states)
             m == Len(states')
  <1>1. /\ HistoryOK' /\ Grows /\ HistoryOK
        /\ DOMAIN job = Workers
        /\ FloorJob(job["floor"], n, rewrites) /\ DayJob(job["day"], n, rewrites)
        /\ PersonJob(job["person"], n, rewrites, today) /\ LooseJob(job["loose"], n, rewrites)
        /\ \A v \in versions : VersionOK(v, n)
    BY HistoryStep DEF Types, JobsOK
  <1>2. /\ n \in Nat /\ m \in Nat /\ n <= m /\ today \in Nat /\ today' \in Nat /\ today <= today'
        /\ rewrites \in Nat /\ rewrites' \in Nat /\ rewrites <= rewrites'
    BY <1>1 DEF Grows
  <1>3. \A i \in 1 .. n : states[i] \in States /\ states[i].id = i
    BY <1>1 DEF HistoryOK
  <1>4. PICK b \in Nat : Limit(b)
    BY DEF Limited
  <1>5. \A seen \in SUBSET versions : \A level \in Levels : Candidate(seen, level) \in Numbers
    <2>1. ASSUME NEW seen \in SUBSET versions PROVE NumbersOf(seen, b)
      BY <1>1, <1>4, ListedNumbers DEF Limit
    <2>2. QED
      BY <2>1, CandidateIs
  <1> HIDE DEF n, m
  <1>6. \A j : /\ VersionOK(j, n) => VersionOK(j, m)
               /\ FloorJob(j, n, rewrites) => FloorJob(j, m, rewrites')
               /\ DayJob(j, n, rewrites) => DayJob(j, m, rewrites')
               /\ PersonJob(j, n, rewrites, today) => PersonJob(j, m, rewrites', today')
               /\ LooseJob(j, n, rewrites) => LooseJob(j, m, rewrites')
    BY <1>2, JobsGrow
  <1>7. ASSUME DOMAIN job' = Workers, FloorJob(job'["floor"], n, rewrites),
               DayJob(job'["day"], n, rewrites), PersonJob(job'["person"], n, rewrites, today),
               LooseJob(job'["loose"], n, rewrites)
        PROVE  JobsOK'
    BY <1>6, <1>7 DEF JobsOK, m
  <1>8. ASSUME UNCHANGED job PROVE JobsOK'
    <2>1. job' = job
      BY <1>8
    <2>2. QED
      BY <2>1, <1>1, <1>7
  <1>9. ASSUME NEW p \in Workers, Ends(p) PROVE JobsOK'
    BY <1>1, <1>7, <1>9, JobEnds, NothingToDo DEF Workers
  <1>10. ASSUME NEW j, Becomes("floor", j), FloorJob(j, n, rewrites) PROVE JobsOK'
    BY <1>1, <1>7, <1>10, JobBecomes DEF Workers
  <1>11. ASSUME NEW j, Becomes("day", j), DayJob(j, n, rewrites) PROVE JobsOK'
    BY <1>1, <1>7, <1>11, JobBecomes DEF Workers
  <1>12. ASSUME NEW j, Becomes("person", j), PersonJob(j, n, rewrites, today) PROVE JobsOK'
    BY <1>1, <1>7, <1>12, JobBecomes DEF Workers
  <1>13. CASE Unload
    <2>1. /\ DOMAIN job' = Workers /\ job'["floor"] = NoJob /\ job'["day"] = NoJob
          /\ job'["person"] = job["person"]
          /\ \/ job'["loose"] = job["loose"]
             \/ \E p \in {"floor", "day"} : job[p].does = "write" /\ job'["loose"] = job[p]
      BY <1>1, <1>13, JobsUnload
    <2>2. LooseJob(job'["loose"], n, rewrites)
      BY <2>1, <1>1 DEF FloorJob, DayJob, LooseJob
    <2>3. QED
      BY <2>1, <2>2, <1>1, <1>7, NothingToDo
  <1>14. CASE FloorReadsVersions
    <2>1. FloorJob([does |-> "oldest", by |-> "floor"], n, rewrites)
      BY DEF FloorJob, WriteOK
    <2>2. Becomes("floor", [does |-> "oldest", by |-> "floor"]) \/ UNCHANGED job
      BY <1>14 DEF FloorReadsVersions
    <2>3. QED
      BY <2>1, <2>2, <1>8, <1>10
  <1>15. CASE FloorReadsHistory
    <2> DEFINE j == [does |-> "name", by |-> "floor", level |-> "major",
                     rev |-> Revision(1, rewrites)]
    <2>1. Ends("floor") \/ (states # <<>> /\ Becomes("floor", j))
      BY <1>15 DEF FloorReadsHistory
    <2>2. ASSUME states # <<>> PROVE FloorJob(j, n, rewrites)
      <3>1. 1 \in 1 .. n
        BY <1>1, <2>2 DEF HistoryOK, n
      <3>2. QED
        BY <3>1, <1>2 DEF FloorJob, WriteOK, RevOK, Revision
    <2> HIDE DEF j
    <2>3. QED
      BY <2>1, <2>2, <1>9, <1>10 DEF Workers
  <1>16. CASE MarkReadsHistory
    <2> DEFINE w == Newest(states, RecentStates)
               at == LastOfPreviousDay(w)
               e == EndOfPreviousDay(Days(states))
               j == [does |-> "versions", by |-> "day", rev |-> Revision(w[at].id, rewrites)]
    <2>1. UNCHANGED job \/ (at # 0 /\ Becomes("day", j))
      BY <1>16 DEF MarkReadsHistory
    <2>2. ASSUME at # 0 PROVE DayJob(j, n, rewrites)
      <3>1. w[at].id = e /\ e \in 1 .. n
        <4>1. e \in 0 .. n /\ e # 0 /\ w[at].id = e
          BY <1>1, <2>2, MarkIsAboutEnd DEF n
        <4> HIDE DEF e, w, at
        <4>2. QED
          BY <4>1, <1>2
      <3> HIDE DEF e, w, at
      <3>2. QED
        BY <3>1, <1>2 DEF DayJob, WriteOK, RevOK, Revision
    <2> HIDE DEF j, at
    <2>3. QED
      BY <2>1, <2>2, <1>8, <1>11
  <1>17. CASE MarkReadsVersions
    <2>1. PICK seen \in SUBSET versions :
            \/ Ends("day")
            \/ Becomes("day", [does |-> "compare", by |-> "day", rev |-> job["day"].rev,
                               seen |-> seen, at |-> rewrites])
      BY <1>17 DEF MarkReadsVersions
    <2>2. job["day"].does = "versions"
      BY <1>17 DEF MarkReadsVersions
    <2>3. RevOK(job["day"].rev, n, rewrites)
      BY <1>1, <2>2 DEF DayJob
    <2>4. DayJob([does |-> "compare", by |-> "day", rev |-> job["day"].rev,
                               seen |-> seen, at |-> rewrites], n, rewrites)
      BY <1>1, <1>2, <2>3 DEF DayJob, WriteOK, RevOK
    <2>5. QED
      BY <2>1, <2>4, <1>9, <1>11 DEF Workers
  <1>18. CASE MarkCompares
    <2>1. job["day"].does = "compare"
      BY <1>18 DEF MarkCompares
    <2>2. RevOK(job["day"].rev, n, rewrites)
      BY <1>1, <2>1 DEF DayJob
    <2> DEFINE j == [does |-> "name", by |-> "day", level |-> AutomaticLevel(job["day"].seen),
                     rev |-> job["day"].rev]
    <2>3. Ends("day") \/ Becomes("day", j)
      BY <1>18 DEF MarkCompares
    <2>4. DayJob(j, n, rewrites)
      BY <2>2 DEF DayJob, WriteOK, AutomaticLevel
    <2> HIDE DEF j
    <2>5. QED
      BY <2>3, <2>4, <1>9, <1>11 DEF Workers
  <1>19. ASSUME NEW p \in {"floor", "day"}, Name(p) PROVE JobsOK'
    <2>1. job[p].does = "name"
      BY <1>19 DEF Name
    <2>2. RevOK(job[p].rev, n, rewrites) /\ job[p].level \in Levels
          /\ (p = "floor" => job[p].by = "floor") /\ (p = "day" => job[p].by = "day")
      BY <1>1, <2>1 DEF FloorJob, DayJob, WriteOK, Levels
    <2>3. CASE Dropped(p)
      BY <2>3, <1>9 DEF Dropped, Workers
    <2>4. ASSUME NEW seen \in SUBSET versions,
                 Becomes(p, [does |-> "write", by |-> job[p].by, rev |-> job[p].rev,
                             number |-> Candidate(seen, job[p].level)])
          PROVE  JobsOK'
      <3> DEFINE j == [does |-> "write", by |-> job[p].by, rev |-> job[p].rev,
                             number |-> Candidate(seen, job[p].level)]
      <3>1. Candidate(seen, job[p].level) \in Numbers
        BY <1>5, <2>2
      <3>2. /\ j.does = "write" /\ j.by = job[p].by /\ j.rev = job[p].rev
            /\ j.number = Candidate(seen, job[p].level)
        OBVIOUS
      <3> HIDE DEF j
      <3>3. CASE p = "floor"
        <4>1. FloorJob(j, n, rewrites)
          BY <2>2, <3>1, <3>2, <3>3 DEF FloorJob, WriteOK
        <4>2. QED
          BY <4>1, <2>4, <3>3, <1>10 DEF j
      <3>4. CASE p = "day"
        <4>1. DayJob(j, n, rewrites)
          BY <2>2, <3>1, <3>2, <3>4 DEF DayJob, WriteOK
        <4>2. QED
          BY <4>1, <2>4, <3>4, <1>11 DEF j
      <3>5. QED
        BY <3>3, <3>4
    <2>5. QED
      BY <1>19, <2>3, <2>4 DEF Name
  <1>20. ASSUME NEW p \in Workers, Write(p) PROVE JobsOK'
    BY <1>20, <1>9 DEF Write, Dropped
  <1>21. ASSUME NEW i \in DOMAIN states, NEW level \in Asked, AskForVersion(states[i].id, level)
         PROVE  JobsOK'
    <2>1. i \in 1 .. n /\ states[i].id = i /\ level \in Levels
      BY <1>1, <1>3, BoundsAssumption DEF HistoryOK, n
    <2>2. PICK seen \in SUBSET versions :
            Becomes("person", [does |-> "write", by |-> "person",
                               rev |-> Revision(states[i].id, rewrites),
                               number |-> Candidate(seen, level)])
      BY <1>21 DEF AskForVersion
    <2>3. Candidate(seen, level) \in Numbers
      BY <1>5, <2>1
    <2>4. PersonJob([does |-> "write", by |-> "person",
                               rev |-> Revision(states[i].id, rewrites),
                               number |-> Candidate(seen, level)], n, rewrites, today)
      BY <1>2, <2>1, <2>3 DEF PersonJob, WriteOK, RevOK, Revision
    <2>5. QED
      BY <2>2, <2>4, <1>12
  <1>22. ASSUME NEW v \in versions, PreviewRemoval(v) PROVE JobsOK'
    <2>1. PersonJob([does |-> "confirm", version |-> v, returns |-> Returns(v),
                     asked |-> today], n, rewrites, today)
      BY <1>1, <1>2 DEF PersonJob, WriteOK
    <2>2. Becomes("person", [does |-> "confirm", version |-> v, returns |-> Returns(v),
                     asked |-> today])
      BY <1>22 DEF PreviewRemoval
    <2>3. QED
      BY <2>1, <2>2, <1>12
  <1>23. CASE ConfirmRemoval
    BY <1>23, <1>9 DEF ConfirmRemoval, Workers
  <1>24. CASE NextDay \/ Setup \/ RewriteEnds \/ ListForFloor \/ UNCHANGED vars
    BY <1>24, <1>8 DEF NextDay, Setup, RewriteEnds, ListForFloor, vars
  <1>25. ASSUME NEW content, NEW announced, Record(content, announced) PROVE JobsOK'
    BY <1>25, <1>8 DEF Record
  <1>26. ASSUME NEW first, RewriteBegins(first) PROVE JobsOK'
    BY <1>26, <1>8 DEF RewriteBegins
  <1>27. ASSUME NEW id, NEW below, TagByHand(id, below) PROVE JobsOK'
    BY <1>27, <1>8 DEF TagByHand
  <1>29. ASSUME NEW p \in {"floor", "day"}, ReadRaises(p) PROVE JobsOK'
    BY <1>29, <1>9, RaisesIs
  <1>28. QED
    BY <1>13, <1>14, <1>15, <1>16, <1>17, <1>18, <1>19, <1>20, <1>21, <1>22, <1>23, <1>24,
       <1>25, <1>26, <1>27, <1>29 DEF Next, Marker, Person, Workers

(* The version a writer makes.                                             *)
Made(j) == [number |-> j.number, state |-> j.rev.id, by |-> j.by]

LEMMA MadeIs ==
    ASSUME NEW j
    PROVE  Made(j).number = j.number /\ Made(j).state = j.rev.id /\ Made(j).by = j.by
  BY DEF Made

(* store.create_version ends with a version or without.                    *)
LEMMA WriteCases ==
    ASSUME NEW p \in Workers, DOMAIN job = Workers, Write(p)
    PROVE  /\ job[p].does = "write" /\ Ends(p)
           /\ floor' = floor \/ (p = "floor" /\ floor' \in {"no", "done"})
           /\ UNCHANGED <<today, states, rewrites, rewriting, up, due, told>>
           /\ \/ versions' = versions /\ doubt' = doubt
                 /\ owed' = (IF p = "day" THEN Unanswered(due) ELSE owed)
                 /\ Released(p, IF job[p].number = beside THEN "no" ELSE "done")
                 /\ \/ rewriting \/ Taken(job[p].number) # {} \/ ~Resolves(job[p].rev)
                    \/ job[p].number = beside
              \/ /\ versions' = versions \cup {Made(job[p])}
                 /\ ~rewriting /\ Taken(job[p].number) = {} /\ Resolves(job[p].rev)
                 /\ Released(p, "done")
                 /\ doubt' = (IF job[p].by = "person" /\ job[p].number[1] = 0
                              THEN doubt \cup {"lowered"} ELSE doubt)
                 /\ owed' = owed
  <1>1. /\ job[p].does = "write"
        /\ UNCHANGED <<today, states, rewrites, rewriting, up, due, told>>
    BY DEF Write, recorded, entry
  <1>2. \/ /\ rewriting \/ Taken(job[p].number) # {} \/ job[p].number = beside
              \/ ~Resolves(job[p].rev)
           /\ Dropped(p) /\ versions' = versions /\ doubt' = doubt
           /\ Released(p, IF job[p].number = beside THEN "no" ELSE "done")
        \/ /\ ~rewriting /\ Taken(job[p].number) = {} /\ Resolves(job[p].rev)
           /\ versions' = versions \cup {Made(job[p])}
           /\ Ends(p) /\ Released(p, "done") /\ owed' = owed
           /\ doubt' = (IF job[p].by = "person" /\ job[p].number[1] = 0
                        THEN doubt \cup {"lowered"} ELSE doubt)
    BY DEF Write, Made
  <1>3. \A how \in {"no", "done"} :
          Released(p, how) => floor' = floor \/ (p = "floor" /\ floor' \in {"no", "done"})
    BY DEF Released
  <1>4. QED
    BY <1>1, <1>2, <1>3 DEF Dropped

(* What may happen to the versions.                                        *)
LEMMA VersionsChange ==
    ASSUME [Next]_vars, DOMAIN job = Workers
    PROVE  \/ UNCHANGED versions
           \/ \E p \in Workers : Write(p) /\ versions' = versions \cup {Made(job[p])}
           \/ \E i \in DOMAIN states : \E below : TagByHand(states[i].id, below)
           \/ ConfirmRemoval
  <1>1. ASSUME NEW p \in Workers, Write(p)
        PROVE  \/ UNCHANGED versions
               \/ Write(p) /\ versions' = versions \cup {Made(job[p])}
    BY <1>1, WriteCases
  <1>2. CASE ListForFloor \/ FloorReadsVersions \/ FloorReadsHistory
             \/ MarkReadsHistory \/ MarkReadsVersions \/ MarkCompares
    BY <1>2 DEF ListForFloor, FloorReadsVersions, FloorReadsHistory, MarkReadsHistory,
                MarkReadsVersions, MarkCompares
  <1>3. ASSUME NEW p, Name(p) PROVE UNCHANGED versions
    BY <1>3 DEF Name
  <1>4. ASSUME NEW id, NEW level, AskForVersion(id, level) PROVE UNCHANGED versions
    BY <1>4 DEF AskForVersion
  <1>5. ASSUME NEW v, PreviewRemoval(v) PROVE UNCHANGED versions
    BY <1>5 DEF PreviewRemoval
  <1>6. CASE NextDay \/ Setup \/ Unload \/ RewriteEnds \/ UNCHANGED vars
    BY <1>6 DEF NextDay, Setup, Unload, RewriteEnds, recorded, vars
  <1>7. ASSUME NEW content, NEW announced, Record(content, announced) PROVE UNCHANGED versions
    BY <1>7 DEF Record
  <1>8. ASSUME NEW first, RewriteBegins(first) PROVE UNCHANGED versions
    BY <1>8 DEF RewriteBegins
  <1>9. ASSUME NEW p \in {"floor", "day"}, ReadRaises(p) PROVE UNCHANGED versions
    BY <1>9, RaisesIs
  <1>10. QED
    BY <1>1, <1>2, <1>3, <1>4, <1>5, <1>6, <1>7, <1>8, <1>9 DEF Next, Marker, Person, Workers

LEMMA WritersJob ==
    ASSUME JobsOK, NEW p \in Workers, job[p].does = "write"
    PROVE  /\ RevOK(job[p].rev, Len(states), rewrites) /\ job[p].number \in Numbers
           /\ job[p].by \in {"floor", "day", "person"}
           /\ p = "floor" => job[p].by = "floor"
           /\ p = "day" => job[p].by = "day"
           /\ p = "person" <=> job[p].by = "person"
  <1>1. CASE p = "floor"
    BY <1>1 DEF JobsOK, FloorJob, WriteOK
  <1>2. CASE p = "day"
    BY <1>2 DEF JobsOK, DayJob, WriteOK
  <1>3. CASE p = "person"
    BY <1>3 DEF JobsOK, PersonJob, WriteOK
  <1>4. CASE p = "loose"
    BY <1>4 DEF JobsOK, LooseJob, WriteOK
  <1>5. QED
    BY <1>1, <1>2, <1>3, <1>4 DEF Workers

LEMMA MadeOK ==
    ASSUME JobsOK, NEW p \in Workers, job[p].does = "write"
    PROVE  VersionOK(Made(job[p]), Len(states))
  BY WritersJob, MadeIs DEF VersionOK, RevOK

LEMMA VersionsStep ==
    ASSUME Types, [Next]_vars
    PROVE  \A v \in versions' : VersionOK(v, Len(states'))
  <1>1. /\ JobsOK /\ DOMAIN job = Workers /\ HistoryOK
        /\ \A v \in versions : VersionOK(v, Len(states))
    BY DEF Types, JobsOK
  <1>2. \A v : VersionOK(v, Len(states)) => VersionOK(v, Len(states'))
    BY <1>1, HistoryStep, JobsGrow DEF Grows
  <1>3. \A v \in versions' : VersionOK(v, Len(states))
    <2>1. CASE UNCHANGED versions
      BY <2>1, <1>1
    <2>2. ASSUME NEW p \in Workers, Write(p), versions' = versions \cup {Made(job[p])}
          PROVE  \A v \in versions' : VersionOK(v, Len(states))
      BY <2>2, <1>1, MadeOK, WriteCases
    <2>3. ASSUME NEW i \in DOMAIN states, NEW below, TagByHand(states[i].id, below)
          PROVE  \A v \in versions' : VersionOK(v, Len(states))
      <3>1. versions' = versions \cup {[number |-> NoNumber, state |-> states[i].id, by |-> "hand"]}
        BY <2>3 DEF TagByHand
      <3>2. states[i].id \in 1 .. Len(states)
        BY <1>1 DEF HistoryOK
      <3>3. VersionOK([number |-> NoNumber, state |-> states[i].id, by |-> "hand"], Len(states))
        BY <3>2 DEF VersionOK
      <3>4. QED
        BY <3>1, <3>3, <1>1
    <2>4. CASE ConfirmRemoval
      BY <2>4, <1>1 DEF ConfirmRemoval
    <2>5. QED
      BY <2>1, <2>2, <2>3, <2>4, <1>1, VersionsChange
  <1>4. QED
    BY <1>2, <1>3

LEMMA StillOwed ==
    ASSUME NEW old, NEW new, NEW n \in Nat, NEW m \in Nat, n <= m, Recorded(old, n),
           new = old \/ new = {} \/ (new = old \cup {n + 1} /\ n < m)
    PROVE  Recorded(new, m)
  <1>1. \A x \in new : x \in 1 .. m
    <2>1. CASE new = old
      BY <2>1 DEF Recorded
    <2>2. CASE new = {}
      BY <2>2
    <2>3. CASE new = old \cup {n + 1} /\ n < m
      BY <2>3 DEF Recorded
    <2>4. QED
      BY <2>1, <2>2, <2>3
  <1>2. QED
    BY <1>1 DEF Recorded

LEMMA RestStep ==
    ASSUME Types, [Next]_vars
    PROVE  /\ RewritesOK' /\ due' \in Nat /\ Recorded(owed', Len(states'))
           /\ \A t \in told' : t.state \in 1 .. Len(states') /\ t.on \in 0 .. today'
  <1>1. /\ JobsOK /\ DOMAIN job = Workers /\ HistoryOK /\ HistoryOK' /\ Grows /\ RewritesOK
        /\ due \in Nat /\ Recorded(owed, Len(states))
        /\ \A t \in told : t.state \in 1 .. Len(states) /\ t.on \in 0 .. today
    BY HistoryStep DEF Types, JobsOK
  <1>2. /\ Len(states) \in Nat /\ Len(states') \in Nat /\ Len(states) <= Len(states')
        /\ rewrites \in Nat /\ today \in Nat /\ today' \in Nat /\ today <= today'
    BY <1>1 DEF Grows
  <1>3. ASSUME UNCHANGED <<rewriting, rewrites>>, due' \in Nat,
               Recorded(owed', Len(states)), UNCHANGED told
        PROVE  /\ RewritesOK' /\ due' \in Nat /\ Recorded(owed', Len(states'))
               /\ \A t \in told' : t.state \in 1 .. Len(states') /\ t.on \in 0 .. today'
    <2>1. RewritesOK'
      BY <1>1, <1>3 DEF RewritesOK
    <2>2. Recorded(owed', Len(states'))
      BY <1>2, <1>3, StillOwed
    <2>3. QED
      BY <2>1, <2>2, <1>1, <1>2, <1>3
  <1>4. CASE NextDay \/ Setup \/ Unload \/ UNCHANGED vars
    <2>1. /\ UNCHANGED <<rewriting, rewrites, told>> /\ (due' = due \/ due' = 0)
          /\ (owed' = owed \/ owed' = {})
      BY <1>4 DEF NextDay, Setup, Unload, recorded, history, vars
    <2>2. due' \in Nat
      BY <2>1, <1>1
    <2>3. owed' = owed \/ owed' = {}
      BY <2>1
    <2>4. Recorded(owed', Len(states))
      BY <2>3, <1>1, <1>2, StillOwed
    <2>5. QED
      BY <2>1, <2>2, <2>4, <1>3
  <1>5. ASSUME NEW content, NEW announced, Record(content, announced)
        PROVE  /\ RewritesOK' /\ due' \in Nat /\ Recorded(owed', Len(states'))
               /\ \A t \in told' : t.state \in 1 .. Len(states') /\ t.on \in 0 .. today'
    <2>1. /\ UNCHANGED <<rewriting, rewrites, told>>
          /\ (due' = due + 1 \/ due' = due)
          /\ (owed' = owed \cup {Len(states) + 1} \/ owed' = owed)
          /\ states' = Append(states, [id |-> Len(states) + 1, named |-> rewrites, day |-> today,
                                       content |-> content])
      BY <1>5 DEF Record
    <2>2. Len(states') = Len(states) + 1
      BY <2>1, <1>1 DEF HistoryOK
    <2>3. RewritesOK'
      BY <1>1, <2>1 DEF RewritesOK
    <2>4. due' \in Nat
      BY <2>1, <1>1
    <2>5. Recorded(owed', Len(states'))
      BY <2>1, <2>2, <1>1, <1>2, StillOwed
    <2>6. \A t \in told' : t.state \in 1 .. Len(states') /\ t.on \in 0 .. today'
      BY <2>1, <1>1, <1>2
    <2>7. QED
      BY <2>3, <2>4, <2>5, <2>6
  <1>6. ASSUME NEW first, RewriteBegins(first)
        PROVE  /\ RewritesOK' /\ due' \in Nat /\ Recorded(owed', Len(states'))
               /\ \A t \in told' : t.state \in 1 .. Len(states') /\ t.on \in 0 .. today'
    <2>1. rewrites' = rewrites + 1 /\ UNCHANGED <<due, owed, told>>
      BY <1>6 DEF RewriteBegins, history
    <2>2. RewritesOK'
      BY <2>1, <1>2 DEF RewritesOK
    <2>3. QED
      BY <2>1, <2>2, <1>1, <1>2, StillOwed
  <1>7. CASE RewriteEnds
    <2>1. rewriting' = FALSE /\ UNCHANGED <<due, owed, told>>
      BY <1>7 DEF RewriteEnds, history
    <2>2. RewritesOK'
      BY <2>1 DEF RewritesOK
    <2>3. QED
      BY <2>1, <2>2, <1>1, <1>2, StillOwed
  <1>8. CASE ListForFloor \/ FloorReadsVersions \/ FloorReadsHistory
             \/ MarkReadsVersions \/ MarkCompares
    <2>1. UNCHANGED <<rewriting, rewrites, told, due, owed>>
      BY <1>8 DEF ListForFloor, FloorReadsVersions, FloorReadsHistory, MarkReadsVersions,
                  MarkCompares, recorded, history
    <2>2. QED
      BY <2>1, <1>1, <1>3
  <1>9. CASE MarkReadsHistory
    <2>1. UNCHANGED <<rewriting, rewrites, told>> /\ due > 0 /\ due' = due - 1
          /\ (owed' = {} \/ owed' = owed)
      BY <1>9, <1>1, UnansweredIs DEF MarkReadsHistory, recorded
    <2>2. due' \in Nat /\ Recorded(owed', Len(states)) /\ UNCHANGED told
      BY <2>1, <1>1, <1>2, StillOwed
    <2>3. QED
      BY <2>1, <2>2, <1>3
  <1>10. ASSUME NEW p, Name(p)
         PROVE  UNCHANGED <<rewriting, rewrites, told, due>> /\ (owed' = {} \/ owed' = owed)
    BY <1>10, <1>1, UnansweredIs DEF Name, Dropped, recorded
  <1>11. ASSUME NEW p, Write(p)
         PROVE  UNCHANGED <<rewriting, rewrites, told, due>> /\ (owed' = {} \/ owed' = owed)
    BY <1>11, <1>1, UnansweredIs DEF Write, Dropped, recorded
  <1>12. ASSUME NEW id, NEW level, AskForVersion(id, level)
         PROVE  UNCHANGED <<rewriting, rewrites, told, due, owed>>
    BY <1>12 DEF AskForVersion, recorded, history
  <1>13. ASSUME NEW id, NEW below, TagByHand(id, below)
         PROVE  UNCHANGED <<rewriting, rewrites, told, due, owed>>
    BY <1>13 DEF TagByHand, recorded, history
  <1>14. ASSUME NEW v, PreviewRemoval(v)
         PROVE  UNCHANGED <<rewriting, rewrites, told, due, owed>>
    BY <1>14 DEF PreviewRemoval, recorded, history
  <1>15. CASE ConfirmRemoval
    <2> DEFINE t == [state |-> job["person"].version.state, on |-> job["person"].asked]
    <2>1. /\ UNCHANGED <<rewriting, rewrites, due>> /\ (owed' = {} \/ owed' = owed)
          /\ (told' = told \cup {t} \/ told' = told)
          /\ job["person"].does = "confirm"
      BY <1>15 DEF ConfirmRemoval, recorded
    <2>2. t.state \in 1 .. Len(states) /\ t.on \in 0 .. today
      BY <2>1, <1>1 DEF JobsOK, PersonJob, VersionOK
    <2> HIDE DEF t
    <2>3. RewritesOK'
      BY <1>1, <2>1 DEF RewritesOK
    <2>4. due' \in Nat /\ Recorded(owed', Len(states'))
      BY <2>1, <1>1, <1>2, StillOwed
    <2>5. \A x \in told' : x.state \in 1 .. Len(states') /\ x.on \in 0 .. today'
      BY <2>1, <2>2, <1>1, <1>2
    <2>6. QED
      BY <2>3, <2>4, <2>5
  <1>17. ASSUME UNCHANGED <<rewriting, rewrites, told, due>> /\ (owed' = {} \/ owed' = owed)
         PROVE  /\ RewritesOK' /\ due' \in Nat /\ Recorded(owed', Len(states'))
                /\ \A t \in told' : t.state \in 1 .. Len(states') /\ t.on \in 0 .. today'
    <2>1. UNCHANGED <<rewriting, rewrites, told>> /\ due' \in Nat
      BY <1>17, <1>1
    <2>2. owed' = {} \/ owed' = owed
      BY <1>17
    <2>3. Recorded(owed', Len(states))
      BY <2>2, <1>1, <1>2, StillOwed
    <2>4. QED
      BY <2>1, <2>3, <1>3
  <1>18. ASSUME NEW p \in {"floor", "day"}, ReadRaises(p)
         PROVE  UNCHANGED <<rewriting, rewrites, told, due>> /\ (owed' = {} \/ owed' = owed)
    BY <1>18, <1>1, RaisesIs, UnansweredIs
  <1>16. QED
    BY <1>17, <1>18, <1>4, <1>5, <1>6, <1>7, <1>8, <1>9, <1>10, <1>11, <1>12, <1>13, <1>14, <1>15
       DEF Next, Marker, Person

LEMMA TypesStep ==
    ASSUME Types, Limited, [Next]_vars
    PROVE  Types'
  <1>1. HistoryOK' /\ JobsOK'
    BY HistoryStep, JobsStep DEF Types
  <1>2. QED
    BY <1>1, VersionsStep, RestStep DEF Types

(* How each job moves: everything but the steps named leaves it as it is   *)
(* or ends it.                                                             *)
FloorMoves ==
    \/ job'["floor"] = job["floor"] \/ job'["floor"] = NoJob
    \/ FloorReadsVersions /\ job'["floor"].does = "oldest"
    \/ FloorReadsHistory /\ job'["floor"].does = "name"
    \/ Name("floor") /\ job'["floor"].does = "write"

DayMoves ==
    \/ job'["day"] = job["day"] \/ job'["day"] = NoJob
    \/ MarkReadsHistory /\ job'["day"].does = "versions"
    \/ MarkReadsVersions /\ job'["day"].does = "compare"
    \/ MarkCompares /\ job'["day"].does = "name"
    \/ Name("day") /\ job'["day"].does = "write"

PersonMoves ==
    \/ job'["person"] = job["person"] \/ job'["person"] = NoJob
    \/ \E i \in DOMAIN states, level \in Asked : AskForVersion(states[i].id, level)
    \/ \E v \in versions : PreviewRemoval(v)

LooseMoves ==
    \/ job'["loose"] = job["loose"] \/ job'["loose"] = NoJob
    \/ Unload /\ \E p \in {"floor", "day"} : job[p].does = "write" /\ job'["loose"] = job[p]

Moves == FloorMoves /\ DayMoves /\ PersonMoves /\ LooseMoves

LEMMA JobsMove ==
    ASSUME DOMAIN job = Workers, [Next]_vars
    PROVE  Moves
  <1>1. ASSUME UNCHANGED job PROVE Moves
    <2>1. job' = job
      BY <1>1
    <2>2. QED
      BY <2>1 DEF Moves, FloorMoves, DayMoves, PersonMoves, LooseMoves
  <1>2. ASSUME NEW p \in Workers, Ends(p) PROVE Moves
    BY <1>2, JobEnds DEF Workers, Moves, FloorMoves, DayMoves, PersonMoves, LooseMoves
  <1>3. CASE Unload
    BY <1>3, JobsUnload DEF Moves, FloorMoves, DayMoves, PersonMoves, LooseMoves
  <1>4. CASE FloorReadsVersions
    <2> DEFINE j == [does |-> "oldest", by |-> "floor"]
    <2>1. j.does = "oldest" /\ (Becomes("floor", j) \/ UNCHANGED job)
      BY <1>4 DEF FloorReadsVersions
    <2> HIDE DEF j
    <2>2. CASE Becomes("floor", j)
      BY <2>1, <2>2, <1>4, JobBecomes
         DEF Workers, Moves, FloorMoves, DayMoves, PersonMoves, LooseMoves
    <2>3. QED
      BY <2>1, <2>2, <1>1
  <1>5. CASE FloorReadsHistory
    <2> DEFINE j == [does |-> "name", by |-> "floor", level |-> "major",
                     rev |-> Revision(1, rewrites)]
    <2>1. j.does = "name" /\ (Becomes("floor", j) \/ Ends("floor"))
      BY <1>5 DEF FloorReadsHistory
    <2> HIDE DEF j
    <2>2. CASE Becomes("floor", j)
      BY <2>1, <2>2, <1>5, JobBecomes
         DEF Workers, Moves, FloorMoves, DayMoves, PersonMoves, LooseMoves
    <2>3. QED
      BY <2>1, <2>2, <1>2 DEF Workers
  <1>6. CASE MarkReadsHistory
    <2> DEFINE w == Newest(states, RecentStates)
               j == [does |-> "versions", by |-> "day",
                     rev |-> Revision(w[LastOfPreviousDay(w)].id, rewrites)]
    <2>1. j.does = "versions" /\ (Becomes("day", j) \/ UNCHANGED job)
      BY <1>6 DEF MarkReadsHistory
    <2> HIDE DEF j
    <2>2. CASE Becomes("day", j)
      BY <2>1, <2>2, <1>6, JobBecomes
         DEF Workers, Moves, FloorMoves, DayMoves, PersonMoves, LooseMoves
    <2>3. QED
      BY <2>1, <2>2, <1>1
  <1>7. CASE MarkReadsVersions
    <2>1. PICK seen \in SUBSET versions :
            \/ Ends("day")
            \/ Becomes("day", [does |-> "compare", by |-> "day", rev |-> job["day"].rev,
                               seen |-> seen, at |-> rewrites])
      BY <1>7 DEF MarkReadsVersions
    <2> DEFINE j == [does |-> "compare", by |-> "day", rev |-> job["day"].rev,
                     seen |-> seen, at |-> rewrites]
    <2>2. j.does = "compare"
      OBVIOUS
    <2>3. CASE Becomes("day", j)
      <3> HIDE DEF j
      <3>1. QED
        BY <2>2, <2>3, <1>7, JobBecomes
           DEF Workers, Moves, FloorMoves, DayMoves, PersonMoves, LooseMoves
    <2>4. QED
      BY <2>1, <2>3, <1>2 DEF Workers
  <1>8. CASE MarkCompares
    <2> DEFINE j == [does |-> "name", by |-> "day", level |-> AutomaticLevel(job["day"].seen),
                     rev |-> job["day"].rev]
    <2>1. j.does = "name" /\ (Becomes("day", j) \/ Ends("day"))
      BY <1>8 DEF MarkCompares
    <2> HIDE DEF j
    <2>2. CASE Becomes("day", j)
      BY <2>1, <2>2, <1>8, JobBecomes
         DEF Workers, Moves, FloorMoves, DayMoves, PersonMoves, LooseMoves
    <2>3. QED
      BY <2>1, <2>2, <1>2 DEF Workers
  <1>9. ASSUME NEW p \in {"floor", "day"}, Name(p) PROVE Moves
    <2>1. CASE Ends(p)
      BY <2>1, <1>2 DEF Workers
    <2>2. ASSUME NEW seen,
                 Becomes(p, [does |-> "write", by |-> job[p].by, rev |-> job[p].rev,
                             number |-> Candidate(seen, job[p].level)])
          PROVE  Moves
      <3> DEFINE j == [does |-> "write", by |-> job[p].by, rev |-> job[p].rev,
                       number |-> Candidate(seen, job[p].level)]
      <3>1. j.does = "write" /\ Becomes(p, j)
        BY <2>2
      <3> HIDE DEF j
      <3>2. QED
        BY <3>1, <1>9, JobBecomes DEF Workers, Moves, FloorMoves, DayMoves, PersonMoves, LooseMoves
    <2>3. QED
      BY <1>9, <2>1, <2>2 DEF Name, Dropped
  <1>10. ASSUME NEW p \in Workers, Write(p) PROVE Moves
    BY <1>10, <1>2, WriteCases
  <1>11. ASSUME NEW i \in DOMAIN states, NEW level \in Asked, AskForVersion(states[i].id, level)
         PROVE  Moves
    <2>1. PICK j : Becomes("person", j)
      BY <1>11 DEF AskForVersion
    <2>2. QED
      BY <2>1, <1>11, JobBecomes DEF Workers, Moves, FloorMoves, DayMoves, PersonMoves, LooseMoves
  <1>12. ASSUME NEW v \in versions, PreviewRemoval(v) PROVE Moves
    <2>1. PICK j : Becomes("person", j)
      BY <1>12 DEF PreviewRemoval
    <2>2. QED
      BY <2>1, <1>12, JobBecomes DEF Workers, Moves, FloorMoves, DayMoves, PersonMoves, LooseMoves
  <1>13. CASE ConfirmRemoval
    BY <1>13, <1>2 DEF ConfirmRemoval, Workers
  <1>14. CASE NextDay \/ Setup \/ RewriteEnds \/ ListForFloor \/ UNCHANGED vars
    BY <1>14, <1>1 DEF NextDay, Setup, RewriteEnds, ListForFloor, vars
  <1>15. ASSUME NEW content, NEW announced, Record(content, announced) PROVE Moves
    BY <1>15, <1>1 DEF Record
  <1>16. ASSUME NEW first, RewriteBegins(first) PROVE Moves
    BY <1>16, <1>1 DEF RewriteBegins
  <1>17. ASSUME NEW id, NEW below, TagByHand(id, below) PROVE Moves
    BY <1>17, <1>1 DEF TagByHand
  <1>19. ASSUME NEW p \in {"floor", "day"}, ReadRaises(p) PROVE Moves
    BY <1>19, <1>2, RaisesIs
  <1>18. QED
    <2>1. CASE Marker
      BY <2>1, <1>4, <1>5, <1>6, <1>7, <1>8, <1>9, <1>10, <1>14, <1>19 DEF Marker, Workers
    <2>2. CASE Person
      BY <2>2, <1>10, <1>11, <1>12, <1>13, <1>17 DEF Person, Workers
    <2>3. CASE NextDay \/ Setup \/ Unload \/ RewriteEnds \/ UNCHANGED vars \/ Write("loose")
      BY <2>3, <1>3, <1>10, <1>14 DEF Workers
    <2>4. QED
      BY <2>1, <2>2, <2>3, <1>15, <1>16 DEF Next

(* What each of those steps leaves in the hands of its job.                *)
LEMMA OldestGiven ==
    ASSUME DOMAIN job = Workers, FloorReadsVersions, job'["floor"].does = "oldest"
    PROVE  /\ ~Working("floor") /\ ~Working("day")
           /\ \E seen \in SUBSET versions :
                Listed(seen) /\ doubt' = Missed(seen) /\ Numbered(seen) = {}
  <1>1. ~Working("floor") /\ ~Working("day")
    BY DEF FloorReadsVersions, Locked, Idle, Working
  <1>2. PICK seen \in SUBSET versions :
          /\ Listed(seen) /\ doubt' = Missed(seen)
          /\ IF Numberless(seen)
             THEN Becomes("floor", [does |-> "oldest", by |-> "floor"]) /\ floor' = "working"
             ELSE UNCHANGED job /\ floor' = "done"
    BY DEF FloorReadsVersions
  <1>3. job["floor"].does = "nothing"
    BY <1>1 DEF Working
  <1>4. Numberless(seen)
    BY <1>2, <1>3
  <1>5. QED
    BY <1>1, <1>2, <1>4 DEF Numberless

LEMMA OldestNamed ==
    ASSUME DOMAIN job = Workers, FloorReadsHistory, job'["floor"].does = "name"
    PROVE  /\ job["floor"].does = "oldest" /\ states # <<>> /\ ~rewriting /\ floor' = floor
           /\ job'["floor"].rev = Revision(1, rewrites) /\ job'["floor"].level = "major"
  <1> DEFINE j == [does |-> "name", by |-> "floor", level |-> "major",
                   rev |-> Revision(1, rewrites)]
  <1>1. j.rev = Revision(1, rewrites) /\ j.level = "major"
    OBVIOUS
  <1>2. \/ Ends("floor")
        \/ states # <<>> /\ ~rewriting /\ floor' = floor /\ Becomes("floor", j)
    BY DEF FloorReadsHistory
  <1> HIDE DEF j
  <1>3. ~Ends("floor")
    BY JobEnds, NothingToDo DEF Workers
  <1>4. job'["floor"] = j
    BY <1>2, <1>3, JobBecomes DEF Workers
  <1>5. QED
    BY <1>1, <1>2, <1>3, <1>4 DEF FloorReadsHistory

LEMMA EndGiven ==
    ASSUME DOMAIN job = Workers, HistoryOK, MarkReadsHistory, job'["day"].does = "versions",
           NEW e, e = EndOfPreviousDay(Days(states))
    PROVE  /\ ~Working("floor") /\ ~Working("day") /\ due > 0 /\ due' = due - 1
           /\ UNCHANGED <<states, versions, rewrites, owed, told, clash, doubt>>
           /\ job'["day"].rev = Revision(e, rewrites)
           /\ e # 0 /\ Len(states) - e < RecentStates
  <1>1. /\ ~Working("floor") /\ ~Working("day") /\ due > 0 /\ due' = due - 1
        /\ UNCHANGED <<states, versions, rewrites, told, clash, doubt>>
    BY DEF MarkReadsHistory, Locked, Idle, Working, recorded
  <1>2. job["day"].does = "nothing"
    BY <1>1 DEF Working
  <1> DEFINE w == Newest(states, RecentStates)
             at == LastOfPreviousDay(w)
             j == [does |-> "versions", by |-> "day", rev |-> Revision(w[at].id, rewrites)]
  <1>3. UNCHANGED job \/ (at # 0 /\ UNCHANGED owed /\ Becomes("day", j))
    BY DEF MarkReadsHistory
  <1>4. at # 0 => w[at].id = e /\ e # 0 /\ Len(states) - e < RecentStates
    BY MarkIsAboutEnd
  <1>5. j.rev = Revision(w[at].id, rewrites)
    OBVIOUS
  <1> HIDE DEF j, at
  <1>6. ~UNCHANGED job
    BY <1>2
  <1>7. job'["day"] = j
    BY <1>3, <1>6, JobBecomes DEF Workers
  <1>8. QED
    BY <1>1, <1>3, <1>4, <1>5, <1>6, <1>7

LEMMA CompareGiven ==
    ASSUME DOMAIN job = Workers, MarkReadsVersions, job'["day"].does = "compare"
    PROVE  /\ job["day"].does = "versions"
           /\ job'["day"].rev = job["day"].rev /\ job'["day"].at = rewrites
           /\ job'["day"].seen \subseteq versions
           /\ Listed(job'["day"].seen) /\ doubt' = Missed(job'["day"].seen)
  <1>1. job["day"].does = "versions"
    BY DEF MarkReadsVersions
  <1>2. PICK seen \in SUBSET versions :
          /\ Listed(seen) /\ doubt' = Missed(seen)
          /\ \/ Ends("day")
             \/ Becomes("day", [does |-> "compare", by |-> "day", rev |-> job["day"].rev,
                                seen |-> seen, at |-> rewrites])
    BY DEF MarkReadsVersions
  <1>3. ~Ends("day")
    BY JobEnds, NothingToDo DEF Workers
  <1>4. job'["day"] = [does |-> "compare", by |-> "day", rev |-> job["day"].rev,
                       seen |-> seen, at |-> rewrites]
    BY <1>2, <1>3, JobBecomes DEF Workers
  <1>5. job'["day"].rev = job["day"].rev /\ job'["day"].at = rewrites /\ job'["day"].seen = seen
    BY <1>4
  <1>6. QED
    BY <1>1, <1>2, <1>5

LEMMA NameGiven ==
    ASSUME DOMAIN job = Workers, MarkCompares, job'["day"].does = "name"
    PROVE  /\ job["day"].does = "compare"
           /\ job'["day"].rev = job["day"].rev
           /\ job'["day"].level = AutomaticLevel(job["day"].seen)
           /\ ~DayIsMarked(StateOf(job["day"].rev.id).day, job["day"].seen, job["day"].at)
  <1>1. job["day"].does = "compare"
    BY DEF MarkCompares
  <1> DEFINE j == [does |-> "name", by |-> "day", level |-> AutomaticLevel(job["day"].seen),
                   rev |-> job["day"].rev]
             marked == DayIsMarked(StateOf(job["day"].rev.id).day, job["day"].seen, job["day"].at)
  <1>2. Ends("day") \/ (Becomes("day", j) /\ ~marked)
    BY DEF MarkCompares
  <1>3. ~Ends("day")
    BY JobEnds, NothingToDo DEF Workers
  <1>4. j.rev = job["day"].rev /\ j.level = AutomaticLevel(job["day"].seen)
    OBVIOUS
  <1> HIDE DEF j, marked
  <1>5. job'["day"] = j
    BY <1>2, <1>3, JobBecomes DEF Workers
  <1>6. QED
    BY <1>1, <1>2, <1>3, <1>4, <1>5 DEF marked

LEMMA WriteGiven ==
    ASSUME DOMAIN job = Workers, NEW p \in {"floor", "day"}, Name(p), job'[p].does = "write"
    PROVE  /\ job[p].does = "name" /\ Resolves(job[p].rev) /\ UNCHANGED <<floor, owed>>
           /\ job'[p].rev = job[p].rev
           /\ \E seen \in SUBSET versions :
                /\ Listed(seen) /\ doubt' = Missed(seen)
                /\ job'[p].number = Candidate(seen, job[p].level)
  <1>1. job[p].does = "name" /\ p \in Workers
    BY DEF Name, Workers
  <1>2. ~Dropped(p)
    BY <1>1, JobEnds, NothingToDo DEF Dropped
  <1>3. /\ Resolves(job[p].rev) /\ UNCHANGED <<floor, owed>>
        /\ \E seen \in SUBSET versions :
             /\ Listed(seen) /\ doubt' = Missed(seen)
             /\ Becomes(p, [does |-> "write", by |-> job[p].by, rev |-> job[p].rev,
                            number |-> Candidate(seen, job[p].level)])
    BY <1>2 DEF Name
  <1>4. PICK seen \in SUBSET versions :
             /\ Listed(seen) /\ doubt' = Missed(seen)
             /\ Becomes(p, [does |-> "write", by |-> job[p].by, rev |-> job[p].rev,
                            number |-> Candidate(seen, job[p].level)])
    BY <1>3
  <1>5. job'[p] = [does |-> "write", by |-> job[p].by, rev |-> job[p].rev,
                   number |-> Candidate(seen, job[p].level)]
    BY <1>1, <1>4, JobBecomes
  <1>6. job'[p].rev = job[p].rev /\ job'[p].number = Candidate(seen, job[p].level)
    BY <1>5
  <1>7. QED
    BY <1>1, <1>3, <1>4, <1>6

LEMMA AskGiven ==
    ASSUME DOMAIN job = Workers, NEW id, NEW level, AskForVersion(id, level)
    PROVE  /\ job'["person"].does = "write"
           /\ \E seen \in SUBSET versions :
                Listed(seen) /\ job'["person"].number = Candidate(seen, level)
  <1>1. PICK seen \in SUBSET versions :
          /\ Listed(seen)
          /\ Becomes("person", [does |-> "write", by |-> "person",
                                rev |-> Revision(id, rewrites),
                                number |-> Candidate(seen, level)])
    BY DEF AskForVersion
  <1>2. job'["person"] = [does |-> "write", by |-> "person", rev |-> Revision(id, rewrites),
                          number |-> Candidate(seen, level)]
    BY <1>1, JobBecomes DEF Workers
  <1>3. job'["person"].does = "write" /\ job'["person"].number = Candidate(seen, level)
    BY <1>2
  <1>4. QED
    BY <1>1, <1>3

LEMMA PreviewGiven ==
    ASSUME DOMAIN job = Workers, NEW v, PreviewRemoval(v)
    PROVE  /\ job'["person"].does = "confirm" /\ job'["person"].version = v
           /\ job'["person"].returns = Returns(v) /\ job'["person"].asked = today
           /\ UNCHANGED <<states, today, told, versions>>
  <1>1. /\ Becomes("person", [does |-> "confirm", version |-> v, returns |-> Returns(v),
                              asked |-> today])
        /\ UNCHANGED <<states, today, told, versions>>
    BY DEF PreviewRemoval, recorded, history
  <1>2. job'["person"] = [does |-> "confirm", version |-> v, returns |-> Returns(v),
                          asked |-> today]
    BY <1>1, JobBecomes DEF Workers
  <1>3. QED
    BY <1>1, <1>2

LEMMA LimitStep ==
    ASSUME Types, Limited, [Next]_vars
    PROVE  Limited'
  <1>1. /\ DOMAIN job = Workers /\ JobsOK /\ HistoryOK
        /\ \A v \in versions : VersionOK(v, Len(states))
    BY DEF Types, JobsOK
  <1>2. PICK b \in Nat : Limit(b)
    BY DEF Limited
  <1>3. /\ \A v \in versions : Within(v.number, b)
        /\ \A p \in Workers : job[p].does = "write" => Within(job[p].number, b)
        /\ job["day"].does = "compare" => \A v \in job["day"].seen : Within(v.number, b)
    BY <1>2 DEF Limit
  <1>4. ASSUME NEW number, number = NoNumber \/ number \in Numbers, Within(number, b)
        PROVE  Within(number, b + 1)
    <2>1. CASE number = NoNumber
      BY <2>1 DEF Within
    <2>2. CASE number \in Numbers
      BY <2>2, <1>4, NumbersAreNumbers DEF Within
    <2>3. QED
      BY <1>4, <2>1, <2>2
  <1>5. \A seen \in SUBSET versions : \A level \in Levels : Within(Candidate(seen, level), b + 1)
    <2>1. ASSUME NEW seen \in SUBSET versions PROVE NumbersOf(seen, b)
      BY <1>1, <1>3, ListedNumbers
    <2>2. QED
      BY <2>1, CandidateIs
  <1>6. FloorMoves /\ DayMoves /\ PersonMoves /\ LooseMoves
    BY <1>1, JobsMove DEF Moves
  <1>7. \A v \in versions : Within(v.number, b + 1)
    BY <1>1, <1>3, <1>4 DEF VersionOK
  <1>8. \A p \in Workers : job[p].does = "write" => Within(job[p].number, b + 1)
    BY <1>1, <1>3, <1>4, WritersJob
  <1>9. \A v \in versions' : Within(v.number, b + 1)
    <2>1. ASSUME NEW p \in Workers, Write(p), versions' = versions \cup {Made(job[p])}
          PROVE  \A v \in versions' : Within(v.number, b + 1)
      BY <2>1, <1>1, <1>7, <1>8, WriteCases, MadeIs
    <2>2. ASSUME NEW id, NEW below, TagByHand(id, below) PROVE \A v \in versions' : Within(v.number, b + 1)
      <3>1. versions' = versions \cup {[number |-> NoNumber, state |-> id, by |-> "hand"]}
        BY <2>2 DEF TagByHand
      <3>2. QED
        BY <3>1, <1>7 DEF Within
    <2>3. CASE ConfirmRemoval
      BY <2>3, <1>7 DEF ConfirmRemoval
    <2>4. QED
      BY <2>1, <2>2, <2>3, <1>1, <1>7, VersionsChange
  <1>10. job'["floor"].does = "write" => Within(job'["floor"].number, b + 1)
    <2>1. CASE Name("floor") /\ job'["floor"].does = "write"
      <3>1. job["floor"].does = "name" /\ \E seen \in SUBSET versions :
              job'["floor"].number = Candidate(seen, job["floor"].level)
        BY <2>1, <1>1, WriteGiven
      <3>2. job["floor"].level \in Levels
        BY <3>1, <1>1 DEF JobsOK, FloorJob, Levels
      <3>3. QED
        BY <3>1, <3>2, <1>5
    <2>2. QED
      BY <2>1, <1>6, <1>8, NothingToDo DEF FloorMoves, Workers
  <1>11. job'["day"].does = "write" => Within(job'["day"].number, b + 1)
    <2>1. CASE Name("day") /\ job'["day"].does = "write"
      <3>1. job["day"].does = "name" /\ \E seen \in SUBSET versions :
              job'["day"].number = Candidate(seen, job["day"].level)
        BY <2>1, <1>1, WriteGiven
      <3>2. job["day"].level \in Levels
        BY <3>1, <1>1 DEF JobsOK, DayJob, Levels
      <3>3. QED
        BY <3>1, <3>2, <1>5
    <2>2. QED
      BY <2>1, <1>6, <1>8, NothingToDo DEF DayMoves, Workers
  <1>12. job'["person"].does = "write" => Within(job'["person"].number, b + 1)
    <2>1. ASSUME NEW id, NEW level \in Asked, AskForVersion(id, level)
          PROVE  Within(job'["person"].number, b + 1)
      BY <2>1, <1>1, <1>5, AskGiven, BoundsAssumption
    <2>2. ASSUME NEW v, PreviewRemoval(v) PROVE job'["person"].does = "confirm"
      BY <2>2, <1>1, PreviewGiven
    <2>3. QED
      BY <2>1, <2>2, <1>6, <1>8, NothingToDo DEF PersonMoves, Workers
  <1>13. job'["loose"].does = "write" => Within(job'["loose"].number, b + 1)
    BY <1>6, <1>8, NothingToDo DEF LooseMoves, Workers
  <1>14. job'["day"].does = "compare" => \A v \in job'["day"].seen : Within(v.number, b + 1)
    <2>1. CASE job'["day"] = job["day"] /\ job["day"].does = "compare"
      BY <2>1, <1>1, <1>3, <1>4 DEF JobsOK, DayJob, VersionOK
    <2>2. CASE MarkReadsVersions /\ job'["day"].does = "compare"
      BY <2>2, <1>1, <1>7, CompareGiven
    <2>3. QED
      BY <2>1, <2>2, <1>6, NothingToDo DEF DayMoves
  <1>15. \A p \in Workers : job'[p].does = "write" => Within(job'[p].number, b + 1)
    BY <1>10, <1>11, <1>12, <1>13 DEF Workers
  <1>16. Limit(b + 1)'
    BY <1>9, <1>14, <1>15 DEF Limit
  <1>17. b + 1 \in Nat
    OBVIOUS
  <1>18. QED
    BY <1>16, <1>17 DEF Limited

(* What has cast a doubt on a mark stays known.                            *)
LEMMA DoubtStays ==
    ASSUME [Next]_vars, DOMAIN job = Workers
    PROVE  doubt \subseteq doubt'
  <1>1. CASE NextDay \/ Setup \/ RewriteEnds \/ UNCHANGED vars
    BY <1>1 DEF NextDay, Setup, RewriteEnds, history, vars
  <1>2. CASE Unload
    BY <1>2 DEF Unload
  <1>3. ASSUME NEW content, NEW announced, Record(content, announced) PROVE doubt' = doubt
    BY <1>3 DEF Record
  <1>4. ASSUME NEW first, RewriteBegins(first) PROVE doubt' = doubt
    BY <1>4 DEF RewriteBegins, history
  <1>5. CASE ListForFloor \/ FloorReadsHistory \/ MarkReadsHistory \/ MarkCompares
    BY <1>5 DEF ListForFloor, FloorReadsHistory, MarkReadsHistory, MarkCompares, history
  <1>6. CASE FloorReadsVersions \/ MarkReadsVersions
    BY <1>6 DEF FloorReadsVersions, MarkReadsVersions, Missed
  <1>7. ASSUME NEW p, Name(p) PROVE doubt \subseteq doubt'
    BY <1>7 DEF Name, Missed
  <1>8. ASSUME NEW p \in Workers, Write(p) PROVE doubt \subseteq doubt'
    BY <1>8, WriteCases
  <1>9. ASSUME NEW id, NEW level, AskForVersion(id, level) PROVE doubt' = doubt
    BY <1>9 DEF AskForVersion, history
  <1>10. ASSUME NEW id, NEW below, TagByHand(id, below) PROVE doubt' = doubt
    BY <1>10 DEF TagByHand, history
  <1>11. ASSUME NEW v, PreviewRemoval(v) PROVE doubt' = doubt
    BY <1>11 DEF PreviewRemoval, history
  <1>12. CASE ConfirmRemoval
    BY <1>12 DEF ConfirmRemoval
  <1>16. ASSUME NEW p \in {"floor", "day"}, ReadRaises(p) PROVE doubt' = doubt
    BY <1>16, RaisesIs
  <1>13. CASE Marker
    BY <1>13, <1>5, <1>6, <1>7, <1>8, <1>16 DEF Marker, Workers
  <1>14. CASE Person
    BY <1>14, <1>8, <1>9, <1>10, <1>11, <1>12 DEF Person, Workers
  <1>15. QED
    BY <1>1, <1>2, <1>3, <1>4, <1>8, <1>13, <1>14 DEF Next, Workers

(* What a step makes of the floor pass.                                    *)
FloorSteps ==
    \/ floor' = floor /\ up' = up /\ (Working("floor")' <=> Working("floor"))
    \/ ~up /\ up' /\ floor' = "due" /\ Working("floor")' = Working("floor")
    \/ floor = "due" /\ floor' = "no" /\ up' = up /\ Working("floor")' = Working("floor")
    \/ /\ floor = "due" /\ floor' = "waiting" /\ up' = up /\ states # <<>>
       /\ Working("floor")' = Working("floor")
    \/ floor' = "no" /\ ~Working("floor")'
    \/ floor = "waiting" /\ floor' = "working" /\ up' = up /\ Working("floor")'
    \/ floor # "no" /\ floor' = "done" /\ up' = up /\ ~Working("floor")'

LEMMA FloorChanges ==
    ASSUME DOMAIN job = Workers, OneMarker, [Next]_vars
    PROVE  FloorSteps
  <1>1. ASSUME floor' = floor, up' = up, job' = job PROVE FloorSteps
    BY <1>1 DEF FloorSteps, Working
  <1>2. CASE NextDay \/ RewriteEnds \/ UNCHANGED vars
    BY <1>2, <1>1 DEF NextDay, RewriteEnds, entry, vars
  <1>3. CASE Setup
    BY <1>3 DEF Setup, FloorSteps, Working
  <1>4. CASE Unload
    BY <1>4, JobsUnload, NothingToDo DEF Unload, FloorSteps, Working
  <1>5. ASSUME NEW content, NEW announced, Record(content, announced) PROVE FloorSteps
    BY <1>5, <1>1 DEF Record, entry
  <1>6. ASSUME NEW first, RewriteBegins(first) PROVE FloorSteps
    BY <1>6, <1>1 DEF RewriteBegins, entry
  <1>7. CASE ListForFloor
    BY <1>7 DEF ListForFloor, Live, FloorSteps, Working, entry
  <1>8. CASE FloorReadsVersions
    <2> DEFINE j == [does |-> "oldest", by |-> "floor"]
    <2>1. j.does = "oldest"
      OBVIOUS
    <2>2. /\ floor = "waiting" /\ up' = up /\ ~Working("floor")
          /\ (Becomes("floor", j) /\ floor' = "working") \/ (UNCHANGED job /\ floor' = "done")
      BY <1>8 DEF FloorReadsVersions, Locked, Idle, Working, entry
    <2> HIDE DEF j
    <2>3. CASE Becomes("floor", j) /\ floor' = "working"
      BY <2>1, <2>2, <2>3, JobBecomes DEF Workers, FloorSteps, Working
    <2>4. CASE UNCHANGED job /\ floor' = "done"
      BY <2>2, <2>4 DEF FloorSteps, Working
    <2>5. QED
      BY <2>2, <2>3, <2>4
  <1>9. ASSUME Ends("floor"), floor' \in {"no", "done"}, up' = up, Working("floor")
        PROVE  FloorSteps
    <2>1. ~Working("floor")'
      BY <1>9, JobEnds, NothingToDo DEF Workers, Working
    <2>2. QED
      BY <2>1, <1>9 DEF FloorSteps, OneMarker
  <1>10. ASSUME NEW p \in Workers \ {"floor"}, floor' = floor, up' = up,
                Ends(p) \/ \E j : Becomes(p, j)
         PROVE  FloorSteps
    <2>1. job'["floor"] = job["floor"]
      BY <1>10, JobEnds, JobBecomes DEF Workers
    <2>2. QED
      BY <2>1, <1>10 DEF FloorSteps, Working
  <1>11. CASE FloorReadsHistory
    <2> DEFINE j == [does |-> "name", by |-> "floor", level |-> "major",
                     rev |-> Revision(1, rewrites)]
    <2>1. j.does = "name"
      OBVIOUS
    <2>2. /\ job["floor"].does = "oldest" /\ up' = up
          /\ (Ends("floor") /\ floor' = "done") \/ (Becomes("floor", j) /\ floor' = floor)
      BY <1>11 DEF FloorReadsHistory, entry
    <2> HIDE DEF j
    <2>3. CASE Becomes("floor", j) /\ floor' = floor
      BY <2>1, <2>2, <2>3, JobBecomes DEF Workers, FloorSteps, Working
    <2>4. QED
      BY <2>2, <2>3, <1>9 DEF Working
  <1>12. CASE MarkReadsHistory
    BY <1>12, <1>1, <1>10 DEF MarkReadsHistory, entry, Workers
  <1>13. CASE MarkReadsVersions
    <2>1. floor' = floor /\ up' = up /\ (Ends("day") \/ \E j : Becomes("day", j))
      BY <1>13 DEF MarkReadsVersions, entry
    <2>2. QED
      BY <2>1, <1>10 DEF Workers
  <1>14. CASE MarkCompares
    <2>1. floor' = floor /\ up' = up /\ (Ends("day") \/ \E j : Becomes("day", j))
      BY <1>14 DEF MarkCompares, entry
    <2>2. QED
      BY <2>1, <1>10 DEF Workers
  <1>15. ASSUME NEW p \in {"floor", "day"}, Name(p) PROVE FloorSteps
    <2>1. job[p].does = "name" /\ up' = up /\ p \in Workers
      BY <1>15 DEF Name, entry, Workers
    <2>2. CASE Dropped(p) /\ Released(p, "done")
      <3>1. CASE p = "floor"
        BY <3>1, <2>1, <2>2, <1>9 DEF Dropped, Released, Working
      <3>2. CASE p = "day"
        BY <3>2, <2>1, <2>2, <1>10 DEF Dropped, Released, Workers
      <3>3. QED
        BY <3>1, <3>2
    <2>3. ASSUME NEW seen, floor' = floor,
                 Becomes(p, [does |-> "write", by |-> job[p].by, rev |-> job[p].rev,
                             number |-> Candidate(seen, job[p].level)])
          PROVE  FloorSteps
      <3> DEFINE j == [does |-> "write", by |-> job[p].by, rev |-> job[p].rev,
                       number |-> Candidate(seen, job[p].level)]
      <3>1. j.does = "write" /\ Becomes(p, j)
        BY <2>3
      <3> HIDE DEF j
      <3>2. CASE p = "floor"
        BY <3>1, <3>2, <2>1, <2>3, JobBecomes DEF FloorSteps, Working
      <3>3. CASE p = "day"
        BY <3>1, <3>3, <2>1, <2>3, <1>10 DEF Workers
      <3>4. QED
        BY <3>2, <3>3
    <2>4. QED
      BY <1>15, <2>2, <2>3 DEF Name
  <1>16. ASSUME NEW p \in Workers, Write(p) PROVE FloorSteps
    <2>1. /\ job[p].does = "write" /\ up' = up /\ Ends(p)
          /\ floor' = floor \/ (p = "floor" /\ floor' \in {"no", "done"})
          /\ p = "floor" => floor' \in {"no", "done"}
      BY <1>16, WriteCases DEF Released
    <2>2. CASE p = "floor"
      BY <2>1, <2>2, <1>9 DEF Working
    <2>3. CASE p # "floor"
      BY <2>1, <2>3, <1>10
    <2>4. QED
      BY <2>2, <2>3
  <1>17. ASSUME NEW id, NEW level, AskForVersion(id, level) PROVE FloorSteps
    <2>1. floor' = floor /\ up' = up /\ \E j : Becomes("person", j)
      BY <1>17 DEF AskForVersion, entry
    <2>2. QED
      BY <2>1, <1>10 DEF Workers
  <1>18. ASSUME NEW id, NEW below, TagByHand(id, below) PROVE FloorSteps
    BY <1>18, <1>1 DEF TagByHand, entry
  <1>19. ASSUME NEW v, PreviewRemoval(v) PROVE FloorSteps
    <2>1. floor' = floor /\ up' = up /\ \E j : Becomes("person", j)
      BY <1>19 DEF PreviewRemoval, entry
    <2>2. QED
      BY <2>1, <1>10 DEF Workers
  <1>20. CASE ConfirmRemoval
    BY <1>20, <1>10 DEF ConfirmRemoval, entry, Workers
  <1>24. ASSUME NEW p \in {"floor", "day"}, ReadRaises(p) PROVE FloorSteps
    <2>1. CASE p = "floor"
      BY <2>1, <1>24, <1>9, RaisesIs DEF Working
    <2>2. CASE p = "day"
      BY <2>2, <1>24, <1>10, RaisesIs DEF Workers
    <2>3. QED
      BY <2>1, <2>2
  <1>21. CASE Marker
    BY <1>21, <1>7, <1>8, <1>11, <1>12, <1>13, <1>14, <1>15, <1>16, <1>24 DEF Marker, Workers
  <1>22. CASE Person
    BY <1>22, <1>16, <1>17, <1>18, <1>19, <1>20 DEF Person, Workers
  <1>23. QED
    BY <1>2, <1>3, <1>4, <1>5, <1>6, <1>16, <1>21, <1>22 DEF Next, Workers

LEMMA OneMarkerStep ==
    ASSUME Types, OneMarker, [Next]_vars
    PROVE  OneMarker'
  <1>1. DOMAIN job = Workers /\ HistoryOK /\ Grows
    BY HistoryStep DEF Types, JobsOK
  <1>2. FloorMoves /\ DayMoves /\ PersonMoves /\ LooseMoves
    BY <1>1, JobsMove DEF Moves
  <1>3. doubt \subseteq doubt'
    BY <1>1, DoubtStays
  <1>4. states # <<>> => states' # <<>>
    BY <1>1 DEF Grows, HistoryOK
  <1>5. ~(job'["floor"].does # "nothing" /\ job'["day"].does # "nothing")
    <2>1. CASE FloorReadsVersions /\ job'["floor"].does = "oldest"
      <3>1. job["day"].does = "nothing" /\ ~MarkReadsHistory
        BY <2>1, <1>1, OldestGiven, JobBecomes DEF Working, FloorReadsVersions, MarkReadsHistory
      <3>2. QED
        BY <3>1, <1>2, NothingToDo DEF DayMoves, MarkReadsVersions, MarkCompares, Name
    <2>2. CASE MarkReadsHistory /\ job'["day"].does = "versions"
      <3>1. job["floor"].does = "nothing"
        BY <2>2 DEF MarkReadsHistory, Locked, Idle
      <3>2. UNCHANGED job \/ \E j : Becomes("day", j)
        BY <2>2 DEF MarkReadsHistory
      <3>3. job'["floor"] = job["floor"]
        BY <3>2, <1>1, JobBecomes DEF Workers
      <3>4. QED
        BY <3>1, <3>3
    <2>3. QED
      BY <2>1, <2>2, <1>2, NothingToDo
         DEF OneMarker, Working, FloorMoves, DayMoves, FloorReadsHistory, MarkReadsVersions,
             MarkCompares, Name
  <1>6. job'["loose"].does # "nothing" => "unload" \in doubt'
    <2>1. CASE Unload
      BY <2>1 DEF Unload
    <2>2. QED
      BY <2>1, <1>2, <1>3, NothingToDo DEF OneMarker, Working, LooseMoves
  <1>7. FloorSteps
    BY <1>1, FloorChanges
  <1>8. Working("floor")' <=> floor' = "working"
    BY <1>7 DEF OneMarker, FloorSteps
  <1>9. /\ floor' \in {"waiting", "working"} => states' # <<>>
        /\ floor' # "no" => up'
    BY <1>4, <1>7 DEF OneMarker, FloorSteps
  <1>10. QED
    BY <1>5, <1>6, <1>8, <1>9 DEF OneMarker, Working

LEMMA StateIs ==
    ASSUME HistoryOK, NEW id \in 1 .. Len(states)
    PROVE  StateOf(id) = states[id]
  <1>1. /\ DOMAIN states = 1 .. Len(states) /\ Len(states) \in Nat
        /\ \A i \in 1 .. Len(states) : states[i].id = i
    BY DEF HistoryOK
  <1>2. \A i \in DOMAIN states : states[i].id = id <=> i = id
    BY <1>1
  <1>3. (CHOOSE i \in DOMAIN states : states[i].id = id) = id
    BY <1>1, <1>2
  <1>4. QED
    BY <1>3 DEF StateOf

LEMMA ResolvesIs ==
    ASSUME HistoryOK, NEW rev, rev.id \in 1 .. Len(states)
    PROVE  Resolves(rev) <=> (states[rev.id].named <= rev.at \/ rewriting)
  <1>1. /\ DOMAIN states = 1 .. Len(states)
        /\ \A i \in 1 .. Len(states) : states[i].id = i
    BY DEF HistoryOK
  <1>2. QED
    BY <1>1 DEF Resolves

(* What every part below uses of the history.                              *)
LEMMA HistoryIs ==
    ASSUME HistoryOK
    PROVE  /\ Len(states) \in Nat /\ today \in Nat /\ rewrites \in Nat
           /\ \A i \in 1 .. Len(states) :
                /\ states[i].day \in Nat /\ states[i].named \in Nat /\ states[i].id = i
                /\ states[i].day <= today /\ states[i].named <= rewrites
           /\ \A i, j \in 1 .. Len(states) :
                i <= j => states[i].day <= states[j].day /\ states[i].named <= states[j].named
  <1>1. \A i \in 1 .. Len(states) : states[i] \in States
    BY DEF HistoryOK
  <1>2. QED
    BY <1>1 DEF HistoryOK, States

LEMMA DayKeepsRev ==
    ASSUME DOMAIN job = Workers, [Next]_vars, job'["day"].does # "nothing"
    PROVE  \/ MarkReadsHistory /\ job'["day"].does = "versions"
           \/ job["day"].does # "nothing" /\ job'["day"].rev = job["day"].rev
  <1>1. DayMoves
    BY JobsMove DEF Moves
  <1>2. CASE MarkReadsVersions /\ job'["day"].does = "compare"
    BY <1>2, CompareGiven
  <1>3. CASE MarkCompares /\ job'["day"].does = "name"
    BY <1>3, NameGiven
  <1>4. CASE Name("day") /\ job'["day"].does = "write"
    BY <1>4, WriteGiven
  <1>5. QED
    BY <1>1, <1>2, <1>3, <1>4, NothingToDo DEF DayMoves

LEMMA OverStays ==
    ASSUME HistoryOK, Grows, NEW id \in 1 .. Len(states), Over(id)
    PROVE  Over(id)'
  <1>1. /\ Len(states) \in Nat /\ Len(states') \in Nat /\ Len(states) <= Len(states')
        /\ \A i \in 1 .. Len(states) : states'[i].day = states[i].day
    BY DEF Grows
  <1>2. id < Len(states) /\ states[id].day < states[id + 1].day
    BY DEF Over
  <1>3. id + 1 \in 1 .. Len(states)
    BY <1>1, <1>2
  <1>4. QED
    BY <1>1, <1>2, <1>3 DEF Over

LEMMA DayIsOverStep ==
    ASSUME Types, DayIsOver, [Next]_vars
    PROVE  DayIsOver'
  <1>1. DOMAIN job = Workers /\ HistoryOK /\ Grows /\ JobsOK
    BY HistoryStep DEF Types, JobsOK
  <1>2. CASE MarkReadsHistory /\ job'["day"].does = "versions"
    <2> DEFINE e == EndOfPreviousDay(Days(states))
    <2>1. e # 0 /\ job'["day"].rev = Revision(e, rewrites) /\ states' = states
      BY <1>1, <1>2, EndGiven
    <2>2. e < Len(states) /\ states[e].day < states[e + 1].day
      BY <1>1, <2>1, MarkIsAboutEnd
    <2> HIDE DEF e
    <2>3. job'["day"].rev.id = e
      BY <2>1 DEF Revision
    <2>4. QED
      BY <2>1, <2>2, <2>3 DEF DayIsOver, Over
  <1>3. CASE job["day"].does # "nothing" /\ job'["day"].rev = job["day"].rev
    <2> DEFINE id == job["day"].rev.id
    <2>1. id \in 1 .. Len(states) /\ Over(id)
      BY <1>1, <1>3 DEF JobsOK, DayJob, RevOK, DayIsOver, Working
    <2>2. PICK k : k = id
      OBVIOUS
    <2>3. k \in 1 .. Len(states) /\ Over(k)
      BY <2>1, <2>2
    <2>4. Over(k)'
      BY <1>1, <2>3, OverStays
    <2>5. job'["day"].rev.id = k
      BY <1>3, <2>2
    <2>6. QED
      BY <2>4, <2>5 DEF DayIsOver, Over
  <1>4. CASE job'["day"].does = "nothing"
    BY <1>4 DEF DayIsOver, Working
  <1>5. QED
    BY <1>1, <1>2, <1>3, <1>4, DayKeepsRev

--------------------------------------------------------------------------------
(* One mark a day.                                                         *)

(* No two of them are about the same day; while the floor pass works there *)
(* is none; what the day mark compares with has all of them; and the state *)
(* it is about to give a version has none of its day, unless its name has  *)
(* gone with a rewrite since it was read.                                  *)
Marked == {v \in versions : Automatic(v)}

MarkedApart ==
    \A v, w \in Marked : states[v.state].day = states[w.state].day => v = w

DayUnmarked(rev) ==
    \A v \in Marked : states[v.state].day = states[rev.id].day => states[rev.id].named > rev.at

NameUnmarked(number) == \A v \in Marked : v.number # number

OneMark ==
    Unless({"unload", "rewriting"}) =>
        /\ ~clash
        /\ MarkedApart
        /\ Working("floor") => Marked = {}
        /\ job["day"].does = "compare" => Marked \subseteq job["day"].seen
        /\ job["day"].does \in {"name", "write"} => DayUnmarked(job["day"].rev)
        /\ job["day"].does = "write" => NameUnmarked(job["day"].number)

(* The version a marker makes is of its own state.                         *)
Marks(p) ==
    /\ Write(p)
    /\ ~rewriting /\ Resolves(job[p].rev)
    /\ versions' = versions \cup {Made(job[p])}

LEMMA MarkedStep ==
    ASSUME Types, OneMarker, "unload" \notin doubt, [Next]_vars
    PROVE  \/ Marked' \subseteq Marked
           \/ \E p \in {"floor", "day"} : Marks(p) /\ Marked' \subseteq Marked \cup {Made(job[p])}
  <1>1. DOMAIN job = Workers /\ JobsOK /\ job["loose"].does = "nothing"
    BY DEF Types, JobsOK, OneMarker, Working
  <1>2. CASE UNCHANGED versions
    BY <1>2 DEF Marked
  <1>3. ASSUME NEW p \in Workers, Write(p), versions' = versions \cup {Made(job[p])}
        PROVE  \/ Marked' \subseteq Marked
               \/ /\ p \in {"floor", "day"} /\ Marks(p)
                  /\ Marked' \subseteq Marked \cup {Made(job[p])}
    <2>1. job[p].does = "write"
      BY <1>1, <1>3, WriteCases
    <2>2. Marked' \subseteq Marked \cup {Made(job[p])}
      BY <1>3 DEF Marked
    <2>3. CASE p = "person"
      <3>1. ~Automatic(Made(job[p]))
        BY <1>1, <2>1, <2>3, WritersJob, MadeIs DEF Automatic
      <3>2. QED
        BY <3>1, <1>3 DEF Marked
    <2>4. CASE p \in {"floor", "day"}
      <3>1. CASE versions' = versions
        BY <3>1 DEF Marked
      <3>2. CASE ~rewriting /\ Resolves(job[p].rev)
        BY <3>2, <1>3, <2>2, <2>4 DEF Marks
      <3>3. QED
        BY <3>1, <3>2, <1>1, <1>3, WriteCases
    <2>5. QED
      BY <2>3, <2>4, <2>1, <1>1 DEF Workers
  <1>4. ASSUME NEW i \in DOMAIN states, NEW below, TagByHand(states[i].id, below)
        PROVE  Marked' \subseteq Marked
    <2> DEFINE tag == [number |-> NoNumber, state |-> states[i].id, by |-> "hand"]
    <2>1. versions' = versions \cup {tag}
      BY <1>4 DEF TagByHand
    <2>2. ~Automatic(tag)
      BY DEF Automatic
    <2> HIDE DEF tag
    <2>3. QED
      BY <2>1, <2>2 DEF Marked
  <1>5. CASE ConfirmRemoval
    BY <1>5 DEF ConfirmRemoval, Marked
  <1>6. QED
    BY <1>1, <1>2, <1>3, <1>4, <1>5, VersionsChange

(* What all of it rests on: a step that makes no mark, and a history that  *)
(* has grown.                                                              *)
LEMMA StillApart ==
    ASSUME Types, HistoryOK', Grows, Marked' \subseteq Marked
    PROVE  /\ MarkedApart => MarkedApart'
           /\ \A rev : RevOK(rev, Len(states), rewrites) /\ DayUnmarked(rev) => DayUnmarked(rev)'
           /\ \A number : NameUnmarked(number) => NameUnmarked(number)'
  <1>1. \A v \in Marked : v.state \in 1 .. Len(states)
    BY DEF Types, Marked, VersionOK
  <1>2. \A i \in 1 .. Len(states) :
          states'[i].day = states[i].day /\ states'[i].named >= states[i].named
    BY DEF Grows
  <1>3. MarkedApart => MarkedApart'
    BY <1>1, <1>2 DEF MarkedApart
  <1>4. ASSUME NEW rev, RevOK(rev, Len(states), rewrites), DayUnmarked(rev)
        PROVE  DayUnmarked(rev)'
    <2>1. rev.id \in 1 .. Len(states) /\ rev.at \in Nat
      BY <1>4 DEF RevOK, Types, HistoryOK
    <2>2. states[rev.id].named \in Nat /\ states'[rev.id].named >= states[rev.id].named
      BY <1>2, <2>1, HistoryIs DEF Types
    <2>3. ASSUME NEW v \in Marked', states'[v.state].day = states'[rev.id].day
          PROVE  states'[rev.id].named > rev.at
      <3>1. states[v.state].day = states[rev.id].day /\ v \in Marked
        BY <2>1, <2>3, <1>1, <1>2
      <3>2. states[rev.id].named > rev.at
        BY <3>1, <1>4 DEF DayUnmarked
      <3>3. rev.id \in 1 .. Len(states')
        BY <2>1 DEF Grows
      <3>4. states'[rev.id] \in States
        BY <3>3 DEF HistoryOK
      <3>5. states'[rev.id].named \in Nat
        BY <3>4 DEF States
      <3>6. QED
        BY <2>1, <2>2, <3>2, <3>5
    <2>4. QED
      BY <2>3 DEF DayUnmarked
  <1>5. \A number : NameUnmarked(number) => NameUnmarked(number)'
    BY DEF NameUnmarked
  <1>6. QED
    BY <1>3, <1>4, <1>5

(* A mark that compared with every mark and found none of its day was not  *)
(* read too late: an older state of its day keeps its name as long.        *)
LEMMA ComparedIsUnmarked ==
    ASSUME Types, DayIsOver, job["day"].does = "compare", Marked \subseteq job["day"].seen,
           ~DayIsMarked(StateOf(job["day"].rev.id).day, job["day"].seen, job["day"].at)
    PROVE  DayUnmarked(job["day"].rev)
  <1> DEFINE rev == job["day"].rev
             at  == job["day"].at
  <1>1. HistoryOK /\ DayJob(job["day"], Len(states), rewrites)
    BY DEF Types, JobsOK
  <1>2. rev.id \in 1 .. Len(states) /\ rev.at \in Nat /\ at \in Nat /\ rev.at <= at
    BY <1>1, HistoryIs DEF DayJob, RevOK
  <1>3. rev.id < Len(states) /\ states[rev.id].day < states[rev.id + 1].day
    BY DEF DayIsOver, Over, Working
  <1>4. StateOf(rev.id) = states[rev.id]
    BY <1>1, <1>2, StateIs
  <1>5. ASSUME NEW v \in Marked, states[v.state].day = states[rev.id].day
        PROVE  states[rev.id].named > rev.at
    <2>1. v \in job["day"].seen /\ Automatic(v) /\ v.state \in 1 .. Len(states)
      BY DEF Types, Marked, VersionOK
    <2>2. StateOf(v.state) = states[v.state]
      BY <1>1, <2>1, StateIs
    <2>3. ~Resolves(Revision(v.state, at))
      BY <1>4, <1>5, <2>1, <2>2 DEF DayIsMarked
    <2>4. Revision(v.state, at).id = v.state /\ Revision(v.state, at).at = at
      BY DEF Revision
    <2>5. ~(states[v.state].named <= at)
      BY <1>1, <2>1, <2>3, <2>4, ResolvesIs
    <2>6. v.state <= rev.id
      <3> HIDE DEF rev
      <3>1. CASE rev.id + 1 <= v.state
        <4>1. rev.id + 1 \in 1 .. Len(states)
          BY <1>1, <1>2, <1>3, HistoryIs
        <4>2. states[rev.id + 1].day <= states[v.state].day
          BY <1>1, <2>1, <3>1, <4>1, HistoryIs
        <4>3. QED
          BY <1>1, <1>2, <1>3, <1>5, <2>1, <4>1, <4>2, HistoryIs, SMTT(30)
      <3>2. QED
        BY <1>1, <1>2, <2>1, <3>1, HistoryIs
    <2>7. /\ states[v.state].named <= states[rev.id].named
          /\ states[v.state].named \in Nat /\ states[rev.id].named \in Nat
      BY <1>1, <1>2, <2>1, <2>6, HistoryIs
    <2> HIDE DEF rev, at
    <2>8. QED
      BY <1>2, <2>5, <2>7
  <1>6. QED
    BY <1>5 DEF DayUnmarked

(* A listing that missed nothing.                                          *)
LEMMA SeenAll ==
    ASSUME NEW seen, doubt' = Missed(seen), "rewriting" \notin doubt'
    PROVE  seen = versions
  BY DEF Missed

LEMMA ClashStep ==
    ASSUME Types, OneMarker, "unload" \notin doubt, ~clash, [Next]_vars,
           Working("floor") => Marked = {},
           job["day"].does = "write" => NameUnmarked(job["day"].number)
    PROVE  ~clash'
  <1>1. DOMAIN job = Workers /\ JobsOK /\ job["loose"].does = "nothing"
    BY DEF Types, JobsOK, OneMarker, Working
  <1>2. ASSUME NEW p \in Workers, Write(p) PROVE ~clash'
    <2>1. job[p].does = "write"
      BY <1>1, <1>2, WriteCases
    <2>2. clash' = clash \/ clash' = (clash \/ \E v \in Taken(job[p].number) :
                                                   Automatic(v) /\ Automatic(job[p]))
      BY <1>2 DEF Write
    <2>3. ASSUME NEW v \in Taken(job[p].number), Automatic(v), Automatic(job[p]) PROVE FALSE
      <3>1. v \in Marked /\ v.number = job[p].number
        BY <2>3 DEF Taken, Marked
      <3>2. p # "person"
        BY <1>1, <2>1, <2>3, WritersJob DEF Automatic
      <3>3. p = "floor" \/ p = "day"
        BY <1>1, <2>1, <3>2 DEF Workers
      <3>4. p # "floor"
        BY <2>1, <3>1 DEF Working
      <3>5. p # "day"
        BY <2>1, <3>1 DEF NameUnmarked
      <3>6. QED
        BY <3>3, <3>4, <3>5
    <2>4. QED
      BY <2>2, <2>3, Zenon
  <1>3. CASE NextDay \/ Setup \/ Unload \/ RewriteEnds \/ UNCHANGED vars
    BY <1>3 DEF NextDay, Setup, Unload, RewriteEnds, history, vars
  <1>4. ASSUME NEW content, NEW announced, Record(content, announced) PROVE ~clash'
    BY <1>4 DEF Record
  <1>5. ASSUME NEW first, RewriteBegins(first) PROVE ~clash'
    BY <1>5 DEF RewriteBegins, history
  <1>6. CASE ListForFloor \/ FloorReadsVersions \/ FloorReadsHistory \/ MarkReadsHistory
             \/ MarkReadsVersions \/ MarkCompares
    BY <1>6 DEF ListForFloor, FloorReadsVersions, FloorReadsHistory, MarkReadsHistory,
                MarkReadsVersions, MarkCompares, history
  <1>7. ASSUME NEW p, Name(p) PROVE ~clash'
    BY <1>7 DEF Name
  <1>8. ASSUME NEW id, NEW level, AskForVersion(id, level) PROVE ~clash'
    BY <1>8 DEF AskForVersion, history
  <1>9. ASSUME NEW id, NEW below, TagByHand(id, below) PROVE ~clash'
    BY <1>9 DEF TagByHand, history
  <1>10. ASSUME NEW v, PreviewRemoval(v) PROVE ~clash'
    BY <1>10 DEF PreviewRemoval, history
  <1>11. CASE ConfirmRemoval
    BY <1>11 DEF ConfirmRemoval
  <1>15. ASSUME NEW p \in {"floor", "day"}, ReadRaises(p) PROVE ~clash'
    BY <1>15, RaisesIs
  <1>12. CASE Marker
    BY <1>12, <1>2, <1>6, <1>7, <1>15 DEF Marker, Workers
  <1>13. CASE Person
    BY <1>13, <1>2, <1>8, <1>9, <1>10, <1>11 DEF Person, Workers
  <1>14. QED
    BY <1>2, <1>3, <1>4, <1>5, <1>12, <1>13 DEF Next, Workers

(* Both markers end with the version they make.                            *)
LEMMA MarkerEnds ==
    ASSUME Types, OneMarker, NEW p \in {"floor", "day"}, Marks(p)
    PROVE  job'["floor"].does = "nothing" /\ job'["day"].does = "nothing" /\ UNCHANGED states
  <1>1. DOMAIN job = Workers /\ p \in Workers
    BY DEF Types, JobsOK, Workers
  <1>2. job[p].does = "write" /\ Ends(p) /\ UNCHANGED states
    BY <1>1, WriteCases DEF Marks
  <1>3. /\ job'[p].does = "nothing" /\ \A q \in Workers \ {p} : job'[q] = job[q]
    BY <1>1, <1>2, JobEnds, NothingToDo
  <1>4. QED
    BY <1>2, <1>3 DEF OneMarker, Working, Workers

LEMMA MarkedApartStep ==
    ASSUME Types, OneMarker, Marked # {} => ~Working("floor"), MarkedApart,
           job["day"].does = "write" => DayUnmarked(job["day"].rev),
           NEW p \in {"floor", "day"}, Marks(p), Marked' \subseteq Marked \cup {Made(job[p])}
    PROVE  MarkedApart'
  <1>1. /\ DOMAIN job = Workers /\ JobsOK /\ HistoryOK /\ p \in Workers /\ UNCHANGED states
        /\ job[p].does = "write"
    BY MarkerEnds, WriteCases DEF Types, JobsOK, Workers, Marks
  <1>2. Made(job[p]).state = job[p].rev.id
    BY MadeIs
  <1>3. CASE p = "floor"
    <2>1. Marked = {}
      BY <1>1, <1>3 DEF Working
    <2>2. QED
      BY <2>1 DEF MarkedApart
  <1>4. CASE p = "day"
    <2>1. states[job[p].rev.id].named <= job[p].rev.at
      BY <1>1, WritersJob, ResolvesIs DEF Marks, RevOK
    <2>2. states[job[p].rev.id].named \in Nat /\ job[p].rev.at \in Nat
      BY <1>1, WritersJob, HistoryIs DEF RevOK
    <2>3. \A v \in Marked : states[v.state].day # states[job[p].rev.id].day
      BY <1>1, <1>4, <2>1, <2>2 DEF DayUnmarked
    <2>4. QED
      BY <1>1, <1>2, <2>3 DEF MarkedApart
  <1>5. QED
    BY <1>3, <1>4

LEMMA OneMarkStep ==
    ASSUME Types, Limited, OneMarker, DayIsOver, OneMark, [Next]_vars
    PROVE  OneMark'
  <1> SUFFICES ASSUME "unload" \notin doubt', "rewriting" \notin doubt'
               PROVE  /\ ~clash'
                      /\ MarkedApart'
                      /\ job'["floor"].does # "nothing" => Marked' = {}
                      /\ job'["day"].does = "compare" => Marked' \subseteq job'["day"].seen
                      /\ job'["day"].does \in {"name", "write"} => DayUnmarked(job["day"].rev)'
                      /\ job'["day"].does = "write" => NameUnmarked(job["day"].number)'
    BY DEF OneMark, Unless, Working
  <1>1. /\ DOMAIN job = Workers /\ HistoryOK /\ HistoryOK' /\ Grows /\ JobsOK
        /\ \A v \in versions : VersionOK(v, Len(states))
    BY HistoryStep DEF Types, JobsOK
  <1>2. "unload" \notin doubt /\ "rewriting" \notin doubt
    BY <1>1, DoubtStays
  <1>3. /\ ~clash
        /\ MarkedApart
        /\ Working("floor") => Marked = {}
        /\ job["day"].does = "compare" => Marked \subseteq job["day"].seen
        /\ job["day"].does \in {"name", "write"} => DayUnmarked(job["day"].rev)
        /\ job["day"].does = "write" => NameUnmarked(job["day"].number)
    BY <1>2 DEF OneMark, Unless
  <1>4. ~clash'
    BY <1>2, <1>3, ClashStep
  <1>5. CASE \E p \in {"floor", "day"} : Marks(p) /\ Marked' \subseteq Marked \cup {Made(job[p])}
    <2>1. PICK p \in {"floor", "day"} : Marks(p) /\ Marked' \subseteq Marked \cup {Made(job[p])}
      BY <1>5
    <2>2. MarkedApart'
      BY <1>3, <2>1, MarkedApartStep
    <2>3. job'["floor"].does = "nothing" /\ job'["day"].does = "nothing"
      BY <2>1, MarkerEnds
    <2>4. QED
      BY <1>4, <2>2, <2>3
  <1>6. CASE Marked' \subseteq Marked
    <2>1. MarkedApart'
      BY <1>1, <1>3, <1>6, StillApart
    <2>2. FloorMoves /\ DayMoves
      BY <1>1, JobsMove DEF Moves
    <2>3. job'["floor"].does # "nothing" => Marked' = {}
      <3>1. CASE FloorReadsVersions /\ job'["floor"].does = "oldest"
        <4>1. PICK seen \in SUBSET versions : doubt' = Missed(seen) /\ Numbered(seen) = {}
          BY <3>1, <1>1, OldestGiven
        <4>2. Numbered(versions) = {}
          BY <4>1, SeenAll
        <4>3. \A v \in versions : ~Automatic(v)
          BY <4>2, <1>1, NumbersAreNumbers DEF Numbered, VersionOK, Automatic
        <4>4. QED
          BY <4>3, <1>6 DEF Marked
      <3>2. CASE FloorReadsHistory /\ job'["floor"].does = "name"
        BY <3>2, <1>1, <1>3, <1>6, OldestNamed DEF Working
      <3>3. CASE Name("floor") /\ job'["floor"].does = "write"
        BY <3>3, <1>1, <1>3, <1>6, WriteGiven DEF Working
      <3>4. QED
        BY <2>2, <3>1, <3>2, <3>3, <1>3, <1>6, NothingToDo DEF FloorMoves, Working
    <2>4. job'["day"].does = "compare" => Marked' \subseteq job'["day"].seen
      <3>1. CASE MarkReadsVersions /\ job'["day"].does = "compare"
        <4>1. job'["day"].seen = versions
          BY <3>1, <1>1, CompareGiven, SeenAll
        <4>2. QED
          BY <4>1, <1>6 DEF Marked
      <3>2. CASE job'["day"] = job["day"]
        BY <3>2, <1>3, <1>6
      <3>3. QED
        BY <2>2, <3>1, <3>2, NothingToDo DEF DayMoves
    <2>5. job'["day"].does \in {"name", "write"} => DayUnmarked(job["day"].rev)'
      <3>1. CASE job["day"].does \in {"name", "write"} /\ job'["day"].rev = job["day"].rev
        <4>1. RevOK(job["day"].rev, Len(states), rewrites)
          BY <1>1, <3>1 DEF JobsOK, DayJob
        <4>2. PICK rev : rev = job["day"].rev
          OBVIOUS
        <4>3. DayUnmarked(rev)'
          BY <1>1, <1>3, <1>6, <3>1, <4>1, <4>2, StillApart
        <4>4. QED
          BY <3>1, <4>2, <4>3 DEF DayUnmarked
      <3>2. CASE MarkCompares /\ job'["day"].does = "name"
        <4>1. /\ job["day"].does = "compare" /\ job'["day"].rev = job["day"].rev
              /\ ~DayIsMarked(StateOf(job["day"].rev.id).day, job["day"].seen, job["day"].at)
          BY <1>1, <3>2, NameGiven
        <4>2. DayUnmarked(job["day"].rev) /\ RevOK(job["day"].rev, Len(states), rewrites)
          BY <1>1, <1>3, <4>1, ComparedIsUnmarked DEF JobsOK, DayJob
        <4>3. PICK rev : rev = job["day"].rev
          OBVIOUS
        <4>4. DayUnmarked(rev)'
          BY <1>1, <1>6, <4>2, <4>3, StillApart
        <4>5. QED
          BY <4>1, <4>3, <4>4 DEF DayUnmarked
      <3>3. CASE Name("day") /\ job'["day"].does = "write"
        <4>1. job["day"].does = "name" /\ job'["day"].rev = job["day"].rev
          BY <1>1, <3>3, WriteGiven
        <4>2. QED
          BY <3>1, <4>1
      <3>4. CASE job'["day"] = job["day"]
        BY <3>1, <3>4
      <3>5. QED
        BY <2>2, <3>2, <3>3, <3>4, NothingToDo DEF DayMoves
    <2>6. job'["day"].does = "write" => NameUnmarked(job["day"].number)'
      <3>1. CASE Name("day") /\ job'["day"].does = "write"
        <4>1. PICK seen \in SUBSET versions :
                /\ doubt' = Missed(seen) /\ job["day"].does = "name"
                /\ job'["day"].number = Candidate(seen, job["day"].level)
          BY <1>1, <3>1, WriteGiven
        <4>2. seen = versions
          BY <4>1, SeenAll
        <4>3. PICK b \in Nat : \A v \in versions : Within(v.number, b)
          BY DEF Limited, Limit
        <4>4. NumbersOf(versions, b)
          BY <1>1, <4>3, ListedNumbers
        <4>5. job["day"].level \in Levels
          BY <1>1, <4>1 DEF JobsOK, DayJob, Levels
        <4>6. \A v \in versions : v.number # job'["day"].number
          BY <4>1, <4>2, <4>4, <4>5, CandidateIs
        <4>7. QED
          BY <4>6, <1>6 DEF Marked, NameUnmarked
      <3>2. CASE job'["day"] = job["day"]
        BY <3>2, <1>3, <1>6 DEF NameUnmarked
      <3>3. QED
        BY <2>2, <3>1, <3>2, NothingToDo DEF DayMoves
    <2>7. QED
      BY <1>4, <2>1, <2>3, <2>4, <2>5, <2>6
  <1>7. QED
    BY <1>2, <1>5, <1>6, MarkedStep

--------------------------------------------------------------------------------
(* Numbers that begin at v1.                                               *)

(* Whatever a marker writes is above v0, because it chose the next major   *)
(* number or saw a number that was above v0 and still is there.            *)
Settled ==
    Unless({"crossed", "rewriting", "lowered"}) =>
        /\ \A v \in Numbered(versions) : v.number[1] >= 1
        /\ \A p \in {"floor", "day", "loose"} : job[p].does = "write" => job[p].number[1] >= 1
        /\ job["day"].does = "compare" => job["day"].seen \subseteq versions
        /\ job["day"].does = "name" /\ job["day"].level = "patch" => Numbered(versions) # {}

LEMMA VersionsKept ==
    ASSUME DOMAIN job = Workers, [Next]_vars, "crossed" \notin doubt',
           job["day"].does # "nothing"
    PROVE  versions \subseteq versions'
  <1>1. CASE ConfirmRemoval
    <2>1. ~\A p \in DOMAIN job \ {"person"} : Idle(p)
      BY DEF Workers, Idle
    <2>2. CASE job["person"].version \in versions
      <3>1. doubt' = doubt \cup {"removed"} \cup {"crossed"}
        BY <1>1, <2>1, <2>2 DEF ConfirmRemoval
      <3>2. QED
        BY <3>1
    <2>3. QED
      BY <1>1, <2>2 DEF ConfirmRemoval
  <1>2. CASE UNCHANGED versions
    BY <1>2
  <1>3. ASSUME NEW id, NEW below, TagByHand(id, below) PROVE versions \subseteq versions'
    BY <1>3 DEF TagByHand
  <1>4. QED
    BY <1>1, <1>2, <1>3, VersionsChange

LEMMA SettledStep ==
    ASSUME Types, Limited, Settled, [Next]_vars
    PROVE  Settled'
  <1> SUFFICES ASSUME "crossed" \notin doubt', "rewriting" \notin doubt', "lowered" \notin doubt'
               PROVE  /\ \A v \in Numbered(versions') : v.number[1] >= 1
                      /\ \A p \in {"floor", "day", "loose"} :
                            job'[p].does = "write" => job'[p].number[1] >= 1
                      /\ job'["day"].does = "compare" => job'["day"].seen \subseteq versions'
                      /\ (job'["day"].does = "name" /\ job'["day"].level = "patch")
                            => Numbered(versions') # {}
    BY DEF Settled, Unless, Numbered
  <1>1. /\ DOMAIN job = Workers /\ JobsOK
        /\ \A v \in versions : VersionOK(v, Len(states))
        /\ FloorMoves /\ DayMoves /\ LooseMoves
    BY JobsMove DEF Types, JobsOK, Moves
  <1>2. "crossed" \notin doubt /\ "rewriting" \notin doubt /\ "lowered" \notin doubt
    BY <1>1, DoubtStays
  <1>3. /\ \A v \in Numbered(versions) : v.number[1] >= 1
        /\ \A p \in {"floor", "day", "loose"} : job[p].does = "write" => job[p].number[1] >= 1
        /\ job["day"].does = "compare" => job["day"].seen \subseteq versions
        /\ (job["day"].does = "name" /\ job["day"].level = "patch") => Numbered(versions) # {}
    BY <1>2 DEF Settled, Unless
  <1>4. PICK b \in Nat : \A v \in versions : Within(v.number, b)
    BY DEF Limited, Limit
  <1>5. NumbersOf(versions, b)
    BY <1>1, <1>4, ListedNumbers
  <1>6. \A v \in Numbered(versions') : v.number[1] >= 1
    <2>1. CASE UNCHANGED versions
      BY <2>1, <1>3
    <2>2. ASSUME NEW p \in Workers, Write(p), versions' = versions \cup {Made(job[p])}
          PROVE  \A v \in Numbered(versions') : v.number[1] >= 1
      <3>1. job[p].does = "write" /\ Made(job[p]).number = job[p].number
        BY <1>1, <2>2, WriteCases, MadeIs
      <3>2. job[p].number \in Numbers
        BY <1>1, <3>1, WritersJob
      <3>3. CASE versions' = versions
        BY <3>3, <1>3
      <3>4. CASE p = "person" /\ versions' # versions
        <4>1. job[p].number[1] # 0
          BY <1>1, <2>2, <3>1, <3>4, WriteCases, WritersJob
        <4>2. job[p].number[1] >= 1
          BY <3>2, <4>1, NumbersAreNumbers
        <4>3. QED
          BY <4>2, <3>1, <2>2, <1>3 DEF Numbered
      <3>5. CASE p # "person"
        BY <3>5, <3>1, <2>2, <1>3 DEF Numbered, Workers
      <3>6. QED
        BY <3>3, <3>4, <3>5
    <2>3. ASSUME NEW id, NEW below, TagByHand(id, below) PROVE \A v \in Numbered(versions') : v.number[1] >= 1
      <3> DEFINE tag == [number |-> NoNumber, state |-> id, by |-> "hand"]
      <3>1. versions' = versions \cup {tag} /\ tag.number = NoNumber
        BY <2>3 DEF TagByHand
      <3> HIDE DEF tag
      <3>2. QED
        BY <3>1, <1>3 DEF Numbered
    <2>4. CASE ConfirmRemoval
      BY <2>4, <1>3 DEF ConfirmRemoval, Numbered
    <2>5. QED
      BY <1>1, <2>1, <2>2, <2>3, <2>4, VersionsChange
  <1>7. job'["floor"].does = "write" => job'["floor"].number[1] >= 1
    <2>1. CASE Name("floor") /\ job'["floor"].does = "write"
      <3>1. PICK seen \in SUBSET versions :
              /\ doubt' = Missed(seen) /\ job["floor"].does = "name"
              /\ job'["floor"].number = Candidate(seen, job["floor"].level)
        BY <1>1, <2>1, WriteGiven
      <3>2. seen = versions /\ job["floor"].level = "major" /\ "major" \in Levels
        BY <1>1, <3>1, SeenAll DEF JobsOK, FloorJob, Levels
      <3>3. QED
        BY <3>1, <3>2, <1>5, CandidateIs
    <2>2. QED
      BY <2>1, <1>1, <1>3, NothingToDo DEF FloorMoves
  <1>8. job'["day"].does = "write" => job'["day"].number[1] >= 1
    <2>1. CASE Name("day") /\ job'["day"].does = "write"
      <3>1. PICK seen \in SUBSET versions :
              /\ doubt' = Missed(seen) /\ job["day"].does = "name"
              /\ job'["day"].number = Candidate(seen, job["day"].level)
        BY <1>1, <2>1, WriteGiven
      <3>2. seen = versions /\ job["day"].level \in {"major", "patch"}
        BY <1>1, <3>1, SeenAll DEF JobsOK, DayJob
      <3>3. "major" \in Levels /\ "patch" \in Levels
        BY DEF Levels
      <3>4. CASE job["day"].level = "major"
        BY <3>1, <3>2, <3>3, <3>4, <1>5, CandidateIs
      <3>5. CASE job["day"].level = "patch"
        BY <3>1, <3>2, <3>3, <3>5, <1>3, <1>5, CandidateIs
      <3>6. QED
        BY <3>2, <3>4, <3>5
    <2>2. QED
      BY <2>1, <1>1, <1>3, NothingToDo DEF DayMoves
  <1>9. job'["loose"].does = "write" => job'["loose"].number[1] >= 1
    BY <1>1, <1>3, NothingToDo DEF LooseMoves
  <1>10. job'["day"].does = "compare" => job'["day"].seen \subseteq versions'
    <2>1. CASE MarkReadsVersions /\ job'["day"].does = "compare"
      <3>1. job'["day"].seen \subseteq versions /\ job["day"].does = "versions"
        BY <1>1, <2>1, CompareGiven
      <3>2. QED
        BY <1>1, <3>1, VersionsKept
    <2>2. CASE job'["day"] = job["day"] /\ job["day"].does = "compare"
      <3>1. versions \subseteq versions'
        BY <1>1, <2>2, VersionsKept
      <3>2. QED
        BY <2>2, <3>1, <1>3
    <2>3. QED
      BY <2>1, <2>2, <1>1, NothingToDo DEF DayMoves
  <1>11. (job'["day"].does = "name" /\ job'["day"].level = "patch") => Numbered(versions') # {}
    <2>1. CASE MarkCompares /\ job'["day"].does = "name" /\ job'["day"].level = "patch"
      <3>1. /\ job["day"].does = "compare"
            /\ AutomaticLevel(job["day"].seen) = "patch"
        BY <1>1, <2>1, NameGiven
      <3>2. Numbered(job["day"].seen) # {} /\ job["day"].seen \subseteq versions
        BY <3>1, <1>3 DEF AutomaticLevel
      <3>3. versions \subseteq versions'
        BY <1>1, <3>1, VersionsKept
      <3>4. QED
        BY <3>2, <3>3 DEF Numbered
    <2>2. CASE job'["day"] = job["day"] /\ job["day"].does = "name" /\ job["day"].level = "patch"
      <3>1. versions \subseteq versions'
        BY <1>1, <2>2, VersionsKept
      <3>2. QED
        BY <2>2, <3>1, <1>3 DEF Numbered
    <2>3. QED
      BY <2>1, <2>2, <1>1, NothingToDo DEF DayMoves
  <1>12. QED
    BY <1>6, <1>7, <1>8, <1>9, <1>10, <1>11

--------------------------------------------------------------------------------
(* The floor.                                                              *)

(* Without a rewrite the floor pass names the first state, which nothing   *)
(* can take from it: it ends with a number, its own or one that was there. *)
FloorLaid ==
    rewrites = 0 /\ Unless({"removed"}) =>
        /\ floor = "done" => Numbered(versions) # {}
        /\ job["floor"].does \in {"name", "write"} => job["floor"].rev.id = 1

LEMMA FloorEnds ==
    ASSUME DOMAIN job = Workers, [Next]_vars, floor # "done", floor' = "done"
    PROVE  \/ FloorReadsVersions
           \/ FloorReadsHistory
           \/ Name("floor") /\ Dropped("floor")
           \/ Write("floor")
  <1>1. CASE NextDay \/ Setup \/ Unload \/ RewriteEnds \/ UNCHANGED vars
    BY <1>1 DEF NextDay, Setup, Unload, RewriteEnds, vars
  <1>2. ASSUME NEW content, NEW announced, Record(content, announced) PROVE floor' = floor
    BY <1>2 DEF Record
  <1>3. ASSUME NEW first, RewriteBegins(first) PROVE floor' = floor
    BY <1>3 DEF RewriteBegins
  <1>4. CASE ListForFloor \/ MarkReadsHistory \/ MarkReadsVersions \/ MarkCompares
    BY <1>4 DEF ListForFloor, MarkReadsHistory, MarkReadsVersions, MarkCompares
  <1>5. ASSUME NEW p \in {"floor", "day"}, Name(p)
        PROVE  Name("floor") /\ Dropped("floor")
    BY <1>5 DEF Name, Dropped, Released
  <1>6. ASSUME NEW p \in Workers, Write(p) PROVE Write("floor")
    <2>1. floor' = floor \/ p = "floor"
      BY <1>6, WriteCases
    <2>2. QED
      BY <1>6, <2>1
  <1>7. ASSUME NEW id, NEW level, AskForVersion(id, level) PROVE floor' = floor
    BY <1>7 DEF AskForVersion
  <1>8. ASSUME NEW id, NEW below, TagByHand(id, below) PROVE floor' = floor
    BY <1>8 DEF TagByHand
  <1>9. ASSUME NEW v, PreviewRemoval(v) PROVE floor' = floor
    BY <1>9 DEF PreviewRemoval
  <1>10. CASE ConfirmRemoval
    BY <1>10 DEF ConfirmRemoval
  <1>14. ASSUME NEW p \in {"floor", "day"}, ReadRaises(p) PROVE floor' = floor \/ floor' = "no"
    BY <1>14, RaisesIs
  <1>11. CASE Marker
    BY <1>11, <1>4, <1>5, <1>6, <1>14 DEF Marker, Workers
  <1>12. CASE Person
    BY <1>12, <1>6, <1>7, <1>8, <1>9, <1>10 DEF Person, Workers
  <1>13. QED
    BY <1>1, <1>2, <1>3, <1>6, <1>11, <1>12 DEF Next, Workers

LEMMA NothingRemoved ==
    ASSUME DOMAIN job = Workers, [Next]_vars, "removed" \notin doubt'
    PROVE  versions \subseteq versions'
  <1>1. CASE ConfirmRemoval
    BY <1>1 DEF ConfirmRemoval
  <1>2. CASE UNCHANGED versions
    BY <1>2
  <1>3. ASSUME NEW id, NEW below, TagByHand(id, below) PROVE versions \subseteq versions'
    BY <1>3 DEF TagByHand
  <1>4. QED
    BY <1>1, <1>2, <1>3, VersionsChange

(* The first state is there, and its name holds.                           *)
LEMMA FirstHolds ==
    ASSUME Types, OneMarker, Working("floor"), rewrites = 0,
           job["floor"].does \in {"name", "write"}, job["floor"].rev.id = 1
    PROVE  ~rewriting /\ Resolves(job["floor"].rev) /\ StateOf(job["floor"].rev.id).content # Gone
  <1>1. HistoryOK /\ FloorJob(job["floor"], Len(states), rewrites) /\ states # <<>>
    BY DEF Types, JobsOK, OneMarker
  <1>2. ~rewriting
    BY DEF Types, RewritesOK
  <1>3. 1 \in 1 .. Len(states) /\ job["floor"].rev.at \in Nat
    BY <1>1 DEF HistoryOK, FloorJob, WriteOK, RevOK
  <1>4. states[1].named \in Nat /\ states[1].named <= 0
    BY <1>1, <1>3, HistoryIs
  <1>5. Resolves(job["floor"].rev)
    BY <1>1, <1>3, <1>4, ResolvesIs
  <1>6. states[1].content # Gone
    BY <1>1 DEF HistoryOK
  <1>7. QED
    BY <1>1, <1>2, <1>3, <1>5, <1>6, StateIs

LEMMA FloorLaidStep ==
    ASSUME Types, OneMarker, FloorLaid, [Next]_vars
    PROVE  FloorLaid'
  <1> SUFFICES ASSUME rewrites' = 0, "removed" \notin doubt'
               PROVE  /\ floor' = "done" => Numbered(versions') # {}
                      /\ job'["floor"].does \in {"name", "write"} => job'["floor"].rev.id = 1
    BY DEF FloorLaid, Unless, Numbered
  <1>1. /\ DOMAIN job = Workers /\ HistoryOK /\ Grows /\ JobsOK /\ FloorMoves
        /\ \A v \in versions : VersionOK(v, Len(states))
    BY HistoryStep, JobsMove DEF Types, JobsOK, Moves
  <1>2. rewrites = 0 /\ "removed" \notin doubt /\ ~rewriting
    BY <1>1, DoubtStays DEF Grows, Types, RewritesOK
  <1>3. /\ floor = "done" => Numbered(versions) # {}
        /\ job["floor"].does \in {"name", "write"} => job["floor"].rev.id = 1
    BY <1>2 DEF FloorLaid, Unless
  <1>4. versions \subseteq versions'
    BY <1>1, NothingRemoved
  <1>5. Numbered(versions) \subseteq Numbered(versions')
    BY <1>4 DEF Numbered
  <1>6. job'["floor"].does \in {"name", "write"} => job'["floor"].rev.id = 1
    <2>1. CASE FloorReadsHistory /\ job'["floor"].does = "name"
      BY <2>1, <1>1, OldestNamed DEF Revision
    <2>2. CASE Name("floor") /\ job'["floor"].does = "write"
      BY <2>2, <1>1, <1>3, WriteGiven
    <2>3. QED
      BY <2>1, <2>2, <1>1, <1>3, NothingToDo DEF FloorMoves
  <1>7. ASSUME floor # "done", floor' = "done" PROVE Numbered(versions') # {}
    <2>1. CASE FloorReadsVersions
      <3>1. PICK seen \in SUBSET versions :
              IF Numberless(seen)
              THEN Becomes("floor", [does |-> "oldest", by |-> "floor"]) /\ floor' = "working"
              ELSE UNCHANGED job /\ floor' = "done"
        BY <2>1 DEF FloorReadsVersions
      <3>2. ~Numberless(seen)
        BY <3>1, <1>7
      <3>3. QED
        BY <3>2, <1>5 DEF Numberless, Numbered
    <2>2. CASE FloorReadsHistory
      <3>1. Working("floor") /\ states # <<>>
        BY <2>2 DEF FloorReadsHistory, Working, OneMarker
      <3>2. floor' = floor
        BY <2>2, <3>1, <1>2 DEF FloorReadsHistory
      <3>3. QED
        BY <3>2, <1>7
    <2>3. CASE Name("floor") /\ Dropped("floor")
      <3>1. job["floor"].does = "name"
        BY <2>3 DEF Name
      <3>2. Resolves(job["floor"].rev) /\ StateOf(job["floor"].rev.id).content # Gone
        BY <3>1, <1>2, <1>3, FirstHolds DEF Working
      <3>3. floor' = floor
        BY <2>3, <3>2 DEF Name
      <3>4. QED
        BY <3>3, <1>7
    <2>4. CASE Write("floor")
      <3>1. job["floor"].does = "write" /\ "floor" \in Workers
        BY <2>4 DEF Write, Workers
      <3>2. Resolves(job["floor"].rev)
        BY <3>1, <1>2, <1>3, FirstHolds DEF Working
      <3>3. job["floor"].number # NoNumber
        BY <3>1, <1>1, WritersJob, NumbersAreNumbers
      <3>4. CASE Taken(job["floor"].number) # {}
        <4>1. PICK v \in versions : v.number = job["floor"].number
          BY <3>4 DEF Taken
        <4>2. QED
          BY <4>1, <3>3, <1>5 DEF Numbered
      <3>5. CASE versions' = versions \cup {Made(job["floor"])}
        BY <3>3, <3>5, MadeIs DEF Numbered
      <3>6. CASE job["floor"].number = beside /\ versions' = versions
        <4>1. Released("floor", "no") \/ versions' = versions \cup {Made(job["floor"])}
          BY <3>1, <3>6, <1>1, <2>4, WriteCases
        <4>2. QED
          BY <4>1, <3>5, <1>7 DEF Released
      <3>7. QED
        BY <3>1, <3>2, <3>4, <3>5, <3>6, <1>1, <1>2, <2>4, WriteCases
    <2>5. QED
      BY <1>1, <1>7, <2>1, <2>2, <2>3, <2>4, FloorEnds
  <1>8. QED
    BY <1>3, <1>5, <1>6, <1>7

--------------------------------------------------------------------------------
(* The end of a day.                                                       *)

End == EndOfPreviousDay(Days(states))

(* A version that closes the day state e was the last of.                  *)
ClosedBy(v, e) ==
    \/ v.state = e
    \/ Automatic(v) /\ states[v.state].day = states[e].day
    \/ v.number # NoNumber /\ states[v.state].content = states[e].content

(* The end of the day before is to be closed.                              *)
Awaited(e) ==
    /\ e # 0 /\ states[e].content # Gone
    /\ Len(states) - e < RecentStates
    /\ \E i \in owed : i > e

(* Until it is closed somebody still works at it.                          *)
DayCloses ==
    /\ job["day"].does = "compare" /\ due = 0 /\ owed # {} => job["day"].seen \subseteq versions
    /\ due = 0 /\ Awaited(End) =>
         \/ Working("day") /\ job["day"].rev.id = End
         \/ \E v \in versions : ClosedBy(v, End)

LEMMA EndOfDays ==
    ASSUME HistoryOK
    PROVE  /\ Len(states) \in Nat
           /\ DOMAIN Days(states) = 1 .. Len(states) /\ Len(Days(states)) = Len(states)
           /\ \A i \in 1 .. Len(states) : Days(states)[i] = states[i].day
           /\ End \in 0 .. Len(states)
  <1>1. states \in Seq(States) /\ Len(states) \in Nat
    BY DEF HistoryOK
  <1>2. /\ DOMAIN Days(states) = 1 .. Len(states) /\ Len(Days(states)) = Len(states)
        /\ \A i \in 1 .. Len(states) : Days(states)[i] = states[i].day
    BY <1>1, DaysAre
  <1>3. End \in 0 .. Len(states)
    BY MarkIsAboutEnd DEF End
  <1>4. QED
    BY <1>1, <1>2, <1>3

(* New names leave the days as they are.                                   *)
LEMMA EndKept ==
    ASSUME HistoryOK, HistoryOK', Grows, Len(states') = Len(states)
    PROVE  End' = End
  <1>1. Days(states) = [i \in DOMAIN states |-> states[i].day]
    BY DEF Days
  <1>2. Days(states') = [i \in DOMAIN states' |-> states'[i].day]
    BY DEF Days
  <1>3. DOMAIN states = 1 .. Len(states) /\ DOMAIN states' = 1 .. Len(states)
    BY DEF HistoryOK
  <1>4. \A i \in 1 .. Len(states) : states'[i].day = states[i].day
    BY DEF Grows
  <1>5. Days(states') = Days(states)
    BY <1>1, <1>2, <1>3, <1>4
  <1>6. QED
    BY <1>5 DEF End

(* Nor does a state more of a day that had one after it already.           *)
LEMMA RecordedEnd ==
    ASSUME HistoryOK, HistoryOK', Grows, Len(states') = Len(states) + 1,
           NEW i \in 1 .. Len(states), i > End', End' # 0
    PROVE  End' = End
  <1> DEFINE n == Len(states)
             d == Days(states)
             new == Days(states')
             e == End'
  <1>1. n \in Nat /\ DOMAIN d = 1 .. n /\ Len(d) = n /\ \A k \in 1 .. n : d[k] = states[k].day
    BY EndOfDays
  <1>2. /\ states' \in Seq(States) /\ Len(states') = n + 1
        /\ e = EndOfPreviousDay(new)
    BY DEF HistoryOK, End
  <1>3. /\ DOMAIN new = 1 .. n + 1 /\ Len(new) = n + 1
        /\ \A k \in 1 .. n + 1 : new[k] = states'[k].day
    <2>1. /\ DOMAIN new = 1 .. Len(states') /\ Len(new) = Len(states')
          /\ \A k \in 1 .. Len(states') : new[k] = states'[k].day
      BY <1>2, DaysAre
    <2>2. QED
      BY <1>2, <2>1
  <1>4. \A k \in 1 .. n : states'[k].day = states[k].day
    BY DEF Grows
  <1>5. i \in 1 .. n /\ i > e /\ e # 0
    OBVIOUS
  <1>6. n + 1 \in Nat
    BY <1>1
  <1>7. e \in 1 .. n + 1 /\ new[e] # new[n + 1] /\ \A k \in e + 1 .. n + 1 : new[k] = new[n + 1]
    <2> HIDE DEF n, new, e
    <2>1. QED
      BY <1>2, <1>3, <1>5, <1>6, EndIs
  <1> HIDE DEF n, d, new, e
  <1>8. n \in 1 .. n /\ e \in 1 .. n /\ n \in e + 1 .. n + 1
    BY <1>1, <1>5, <1>7
  <1>9. \A k \in 1 .. n : new[k] = d[k]
    <2>1. ASSUME NEW k \in 1 .. n PROVE k \in 1 .. n + 1
      BY <1>1
    <2>2. QED
      BY <2>1, <1>1, <1>3, <1>4
  <1>10. d[e] # d[n] /\ \A k \in e + 1 .. n : d[k] = d[n]
    <2>1. new[n] = new[n + 1] /\ new[n] = d[n] /\ new[e] = d[e]
      BY <1>7, <1>8, <1>9
    <2>2. ASSUME NEW k \in e + 1 .. n PROVE k \in 1 .. n /\ k \in e + 1 .. n + 1
      BY <1>1, <1>8
    <2>3. QED
      BY <2>1, <2>2, <1>7, <1>9
  <1>11. EndOfPreviousDay(d) = e
    BY <1>1, <1>8, <1>10, EndUnique
  <1>12. QED
    BY <1>11 DEF d, e, End

LEMMA StatesChange ==
    ASSUME HistoryOK, [Next]_vars
    PROVE  \/ Len(states') = Len(states)
           \/ /\ Len(states') = Len(states) + 1
              /\ \E content, announced : Record(content, announced)
  <1>1. states \in Seq(States)
    BY DEF HistoryOK
  <1>2. ASSUME NEW content \in Contents \cup {Gone}, NEW announced \in BOOLEAN,
               Record(content, announced)
        PROVE  Len(states') = Len(states) + 1
    BY <1>1, <1>2 DEF Record
  <1>3. ASSUME NEW first, RewriteBegins(first) PROVE Len(states') = Len(states)
    <2>1. states' = [i \in DOMAIN states |->
                       IF i >= first THEN [states[i] EXCEPT !.named = rewrites + 1]
                       ELSE states[i]]
      BY <1>3 DEF RewriteBegins
    <2>2. DOMAIN states' = 1 .. Len(states) /\ Len(states) \in Nat
      BY <1>1, <2>1
    <2>3. HistoryOK'
      BY HistoryStep
    <2>4. DOMAIN states' = 1 .. Len(states') /\ Len(states') \in Nat
      BY <2>3 DEF HistoryOK
    <2>5. QED
      BY <2>2, <2>4
  <1>4. CASE Marker
    BY <1>4 DEF Marker, ListForFloor, FloorReadsVersions, FloorReadsHistory, MarkReadsHistory,
                MarkReadsVersions, MarkCompares, ReadRaises, Name, Write, recorded
  <1>5. CASE Person
    BY <1>5 DEF Person, AskForVersion, TagByHand, Write, PreviewRemoval, ConfirmRemoval, recorded
  <1>6. CASE NextDay \/ RewriteEnds \/ Setup \/ Unload \/ Write("loose") \/ UNCHANGED vars
    BY <1>6 DEF NextDay, RewriteEnds, Setup, Unload, Write, recorded, vars
  <1>7. QED
    BY <1>2, <1>3, <1>4, <1>5, <1>6 DEF Next

(* What happens to the announcements that are to be answered for.          *)
LEMMA OwedChanges ==
    ASSUME DOMAIN job = Workers, due \in Nat, [Next]_vars
    PROVE  \/ due' = due + 1
           \/ owed' = {}
           \/ /\ owed' = owed /\ versions \subseteq versions'
              /\ due' = due \/ MarkReadsHistory
  <1>1. CASE NextDay \/ RewriteEnds \/ UNCHANGED vars
    BY <1>1 DEF NextDay, RewriteEnds, history, vars
  <1>2. CASE Setup \/ Unload
    BY <1>2 DEF Setup, Unload, history
  <1>3. ASSUME NEW content, NEW announced, Record(content, announced)
        PROVE  due' = due + 1 \/ (owed' = owed /\ due' = due /\ versions' = versions)
    BY <1>3 DEF Record, Heard
  <1>4. ASSUME NEW first, RewriteBegins(first)
        PROVE  owed' = owed /\ due' = due /\ versions' = versions
    BY <1>4 DEF RewriteBegins, history
  <1>5. CASE ListForFloor \/ FloorReadsVersions \/ FloorReadsHistory \/ MarkReadsVersions
             \/ MarkCompares
    BY <1>5 DEF ListForFloor, FloorReadsVersions, FloorReadsHistory, MarkReadsVersions,
                MarkCompares, history
  <1>6. CASE MarkReadsHistory
    BY <1>6, UnansweredIs DEF MarkReadsHistory
  <1>7. ASSUME NEW p, Name(p)
        PROVE  due' = due /\ versions' = versions /\ (owed' = {} \/ owed' = owed)
    BY <1>7, UnansweredIs DEF Name, Dropped
  <1>8. ASSUME NEW p \in Workers, Write(p)
        PROVE  due' = due /\ versions \subseteq versions' /\ (owed' = {} \/ owed' = owed)
    BY <1>8, WriteCases, UnansweredIs
  <1>9. ASSUME NEW id, NEW level, AskForVersion(id, level)
        PROVE  owed' = owed /\ due' = due /\ versions' = versions
    BY <1>9 DEF AskForVersion, history
  <1>10. ASSUME NEW id, NEW below, TagByHand(id, below)
         PROVE  owed' = owed /\ due' = due /\ versions \subseteq versions'
    BY <1>10 DEF TagByHand, history
  <1>11. ASSUME NEW v, PreviewRemoval(v)
         PROVE  owed' = owed /\ due' = due /\ versions' = versions
    BY <1>11 DEF PreviewRemoval, history
  <1>12. CASE ConfirmRemoval
    BY <1>12 DEF ConfirmRemoval
  <1>16. ASSUME NEW p \in {"floor", "day"}, ReadRaises(p)
         PROVE  due' = due /\ versions' = versions /\ (owed' = {} \/ owed' = owed)
    BY <1>16, RaisesIs, UnansweredIs
  <1>13. CASE Marker
    BY <1>13, <1>5, <1>6, <1>7, <1>8, <1>16 DEF Marker, Workers
  <1>14. CASE Person
    BY <1>14, <1>8, <1>9, <1>10, <1>11, <1>12 DEF Person, Workers
  <1>15. QED
    BY <1>1, <1>2, <1>3, <1>4, <1>8, <1>13, <1>14 DEF Next, Workers

(* How a day mark can end.                                                 *)
LEMMA DayEnds ==
    ASSUME DOMAIN job = Workers, [Next]_vars,
           job["day"].does # "nothing", job'["day"].does = "nothing"
    PROVE  \/ Unload \/ MarkReadsVersions \/ MarkCompares
           \/ Name("day") /\ Dropped("day")
           \/ Write("day")
           \/ ReadRaises("day")
  <1>1. job'["day"] # job["day"]
    OBVIOUS
  <1>2. CASE NextDay \/ Setup \/ RewriteEnds \/ ListForFloor \/ UNCHANGED vars
    BY <1>1, <1>2 DEF NextDay, Setup, RewriteEnds, ListForFloor, vars
  <1>3. ASSUME NEW content, NEW announced, Record(content, announced) PROVE FALSE
    BY <1>1, <1>3 DEF Record
  <1>4. ASSUME NEW first, RewriteBegins(first) PROVE FALSE
    BY <1>1, <1>4 DEF RewriteBegins
  <1>5. ASSUME NEW p \in Workers \ {"day"}, Ends(p) \/ \E j : Becomes(p, j) PROVE FALSE
    BY <1>1, <1>5, JobEnds, JobBecomes DEF Workers
  <1>6. CASE FloorReadsVersions \/ FloorReadsHistory
    <2>1. UNCHANGED job \/ Ends("floor") \/ \E j : Becomes("floor", j)
      BY <1>6 DEF FloorReadsVersions, FloorReadsHistory
    <2>2. QED
      BY <2>1, <1>1, <1>5 DEF Workers
  <1>7. ~MarkReadsHistory
    BY DEF MarkReadsHistory, Locked, Idle
  <1>8. ASSUME NEW p \in {"floor", "day"}, Name(p)
        PROVE  Name("day") /\ Dropped("day")
    <2>1. Dropped(p) \/ \E seen : Becomes(p, [does |-> "write", by |-> job[p].by,
                                              rev |-> job[p].rev,
                                              number |-> Candidate(seen, job[p].level)])
      BY <1>8 DEF Name
    <2>2. p = "day"
      BY <2>1, <1>5 DEF Dropped, Workers
    <2>3. job'["day"].does # "write"
      OBVIOUS
    <2>4. ASSUME NEW seen, Becomes("day", [does |-> "write", by |-> job["day"].by,
                                           rev |-> job["day"].rev,
                                           number |-> Candidate(seen, job["day"].level)])
          PROVE  FALSE
      <3>1. job'["day"] = [does |-> "write", by |-> job["day"].by, rev |-> job["day"].rev,
                           number |-> Candidate(seen, job["day"].level)]
        BY <2>4, JobBecomes DEF Workers
      <3>2. QED
        BY <3>1, <2>3
    <2>5. QED
      BY <1>8, <2>1, <2>2, <2>4
  <1>9. ASSUME NEW p \in Workers, Write(p) PROVE Write("day")
    BY <1>5, <1>9, WriteCases
  <1>10. ASSUME NEW id, NEW level, AskForVersion(id, level) PROVE FALSE
    <2>1. \E j : Becomes("person", j)
      BY <1>10 DEF AskForVersion
    <2>2. QED
      BY <2>1, <1>5 DEF Workers
  <1>11. ASSUME NEW id, NEW below, TagByHand(id, below) PROVE FALSE
    BY <1>1, <1>11 DEF TagByHand
  <1>12. ASSUME NEW v, PreviewRemoval(v) PROVE FALSE
    <2>1. \E j : Becomes("person", j)
      BY <1>12 DEF PreviewRemoval
    <2>2. QED
      BY <2>1, <1>5 DEF Workers
  <1>13. ~ConfirmRemoval
    BY <1>5 DEF ConfirmRemoval, Workers
  <1>17. ASSUME NEW p \in {"floor", "day"}, ReadRaises(p) PROVE ReadRaises("day")
    BY <1>5, <1>17, RaisesIs
  <1>14. CASE Marker
    BY <1>14, <1>2, <1>6, <1>7, <1>8, <1>9, <1>17 DEF Marker, Workers
  <1>15. CASE Person
    BY <1>15, <1>9, <1>10, <1>11, <1>12, <1>13 DEF Person, Workers
  <1>16. QED
    BY <1>2, <1>3, <1>4, <1>9, <1>14, <1>15 DEF Next, Workers

(* The last day mark that waits, where it could read the history, is about *)
(* the end of the day before, if the window reaches that far.              *)
LEMMA EndMarked ==
    ASSUME Types, MarkReadsHistory, due' = 0, owed' # {},
           End # 0, Len(states) - End < RecentStates
    PROVE  job'["day"].does # "nothing" /\ job'["day"].rev.id = End
  <1>1. DOMAIN job = Workers /\ HistoryOK
    BY DEF Types, JobsOK
  <1> DEFINE w == Newest(states, RecentStates)
             at == LastOfPreviousDay(w)
             j == [does |-> "versions", by |-> "day", rev |-> Revision(w[at].id, rewrites)]
  <1>2. at # 0 /\ w[at].id = End
    BY <1>1, MarkIsAboutEnd DEF End
  <1>3. at # 0 => Becomes("day", j)
    <2>1. due' = due - 1 /\ due \in Nat /\ due > 0
      BY DEF MarkReadsHistory, Types
    <2>2. owed' # Unanswered(due - 1)
      BY <2>1, UnansweredIs
    <2>3. QED
      BY <2>2 DEF MarkReadsHistory
  <1>4. j.does = "versions" /\ j.rev.id = w[at].id
    BY DEF Revision
  <1> HIDE DEF j, at
  <1>5. job'["day"] = j
    BY <1>1, <1>2, <1>3, JobBecomes DEF Workers
  <1>6. QED
    BY <1>2, <1>4, <1>5

LEMMA ClosedStays ==
    ASSUME Grows, NEW e \in 1 .. Len(states), NEW v, v.state \in 1 .. Len(states), ClosedBy(v, e)
    PROVE  ClosedBy(v, e)'
  <1>1. \A i \in 1 .. Len(states) :
          states'[i].day = states[i].day /\ states'[i].content = states[i].content
    BY DEF Grows
  <1>2. QED
    BY <1>1 DEF ClosedBy

(* A day mark that compares and stands down leaves its day closed.         *)
LEMMA ComparedIsClosed ==
    ASSUME Types, Limited, MarkCompares, job'["day"].does = "nothing",
           job["day"].seen \subseteq versions
    PROVE  \E v \in versions : ClosedBy(v, job["day"].rev.id)
  <1>1. /\ DOMAIN job = Workers /\ HistoryOK /\ JobsOK
        /\ DayJob(job["day"], Len(states), rewrites)
    BY DEF Types, JobsOK
  <1> DEFINE j == job["day"]
             id == j.rev.id
             marked == DayIsMarked(StateOf(id).day, j.seen, j.at)
             same == /\ Numbered(j.seen) # {}
                     /\ SameState(j.rev, Revision(Highest(j.seen).state, j.at))
             next == [does |-> "name", by |-> "day", level |-> AutomaticLevel(j.seen),
                      rev |-> j.rev]
  <1>2. j.does = "compare" /\ (marked \/ same \/ Becomes("day", next))
    BY DEF MarkCompares
  <1>3. ~Becomes("day", next)
    <2>1. next.does = "name"
      OBVIOUS
    <2> HIDE DEF next
    <2>2. QED
      BY <2>1, <1>1, JobBecomes DEF Workers
  <1>4. id \in 1 .. Len(states) /\ StateOf(id) = states[id]
    BY <1>1, <1>2, StateIs DEF DayJob, RevOK
  <1>5. \A v \in j.seen : VersionOK(v, Len(states)) /\ v.state \in 1 .. Len(states)
    BY <1>1, <1>2 DEF DayJob, VersionOK
  <1>6. CASE marked
    <2>1. PICK v \in j.seen : Automatic(v) /\ StateOf(v.state).day = StateOf(id).day
      BY <1>6 DEF DayIsMarked
    <2>2. StateOf(v.state) = states[v.state]
      BY <1>1, <1>5, StateIs
    <2>3. ClosedBy(v, id)
      BY <2>1, <2>2, <1>4 DEF ClosedBy
    <2>4. QED
      BY <2>3
  <1>7. CASE same
    <2> DEFINE v == Highest(j.seen)
    <2>1. PICK b \in Nat : \A u \in j.seen : Within(u.number, b)
      BY <1>2 DEF Limited, Limit
    <2>2. NumbersOf(j.seen, b)
      BY <1>5, <2>1, ListedNumbers
    <2>3. v \in Numbered(j.seen)
      BY <1>7, <2>2, HighestIs
    <2>4. StateOf(id).content = StateOf(v.state).content
      BY <1>7 DEF SameState, Revision
    <2> HIDE DEF v
    <2>5. v \in j.seen /\ v.number # NoNumber
      BY <2>3 DEF Numbered
    <2>6. StateOf(v.state) = states[v.state]
      BY <1>1, <1>5, <2>5, StateIs
    <2>7. ClosedBy(v, id)
      BY <2>4, <2>5, <2>6, <1>4 DEF ClosedBy
    <2>8. QED
      BY <2>5, <2>7
  <1>8. QED
    BY <1>2, <1>3, <1>6, <1>7

(* A day mark that ends has left its day closed, or answered that it could *)
(* not.                                                                    *)
LEMMA EndedIsClosed ==
    ASSUME Types, Limited, [Next]_vars, due = 0, owed # {}, owed' # {},
           job["day"].does = "compare" => job["day"].seen \subseteq versions,
           job["day"].does # "nothing", job'["day"].does = "nothing",
           versions \subseteq versions'
    PROVE  \E v \in versions' : v.state \in 1 .. Len(states) /\ ClosedBy(v, job["day"].rev.id)
  <1>1. /\ DOMAIN job = Workers /\ JobsOK /\ HistoryOK
        /\ \A v \in versions : v.state \in 1 .. Len(states)
    BY DEF Types, JobsOK, VersionOK
  <1>2. ~Unload
    BY DEF Unload
  <1>3. CASE MarkReadsVersions
    <2>1. PICK seen \in SUBSET versions :
            IF \E v \in seen : v.state = job["day"].rev.id
                               /\ StateOf(v.state).named <= job["day"].rev.at
            THEN Ends("day")
            ELSE Becomes("day", [does |-> "compare", by |-> "day", rev |-> job["day"].rev,
                                 seen |-> seen, at |-> rewrites])
      BY <1>3 DEF MarkReadsVersions
    <2> DEFINE next == [does |-> "compare", by |-> "day", rev |-> job["day"].rev,
                        seen |-> seen, at |-> rewrites]
    <2>2. next.does = "compare"
      OBVIOUS
    <2>3. ~Becomes("day", next)
      <3> HIDE DEF next
      <3>1. QED
        BY <2>2, <1>1, JobBecomes DEF Workers
    <2>4. PICK v \in seen : v.state = job["day"].rev.id
      BY <2>1, <2>3
    <2>5. QED
      BY <2>4, <1>1 DEF ClosedBy
  <1>4. CASE MarkCompares
    <2>1. job["day"].does = "compare"
      BY <1>4 DEF MarkCompares
    <2>2. PICK v \in versions : ClosedBy(v, job["day"].rev.id)
      BY <2>1, <1>4, ComparedIsClosed
    <2>3. QED
      BY <2>2, <1>1
  <1>5. ~(Name("day") /\ Dropped("day")) /\ ~ReadRaises("day")
    BY UnansweredIs, RaisesIs DEF Dropped
  <1>6. CASE Write("day")
    <2>1. job["day"].does = "write" /\ "day" \in Workers
      BY <1>6 DEF Write, Workers
    <2>2. job["day"].by = "day" /\ job["day"].rev.id \in 1 .. Len(states)
      BY <1>1, <2>1, WritersJob DEF RevOK
    <2>3. Made(job["day"]) \in versions' /\ Made(job["day"]).state = job["day"].rev.id
      BY <1>1, <1>6, <2>1, <2>2, WriteCases, MadeIs, UnansweredIs
    <2>4. QED
      BY <2>2, <2>3 DEF ClosedBy
  <1>7. QED
    BY <1>1, <1>2, <1>3, <1>4, <1>5, <1>6, DayEnds

LEMMA DayClosesStep ==
    ASSUME Types, Limited, DayCloses, [Next]_vars
    PROVE  DayCloses'
  <1>1. /\ DOMAIN job = Workers /\ HistoryOK /\ HistoryOK' /\ Grows /\ JobsOK /\ due \in Nat
        /\ \A v \in versions : v.state \in 1 .. Len(states)
        /\ Recorded(owed, Len(states)) /\ DayMoves
    BY HistoryStep, JobsMove DEF Types, JobsOK, VersionOK, Moves
  <1>2. ASSUME job'["day"].does = "compare", due' = 0, owed' # {}
        PROVE  job'["day"].seen \subseteq versions'
    <2>1. CASE MarkReadsVersions
      BY <1>1, <1>2, <2>1, CompareGiven DEF MarkReadsVersions
    <2>2. CASE job'["day"] = job["day"]
      <3>1. ~MarkReadsHistory
        BY <1>2, <2>2 DEF MarkReadsHistory, Locked, Idle
      <3>2. owed' = owed /\ due' = due /\ versions \subseteq versions'
        BY <1>1, <1>2, <3>1, OwedChanges
      <3>3. job["day"].seen \subseteq versions
        BY <1>2, <2>2, <3>2 DEF DayCloses
      <3>4. QED
        BY <2>2, <3>2, <3>3
    <2>3. QED
      BY <1>1, <1>2, <2>1, <2>2, NothingToDo DEF DayMoves
  <1>3. ASSUME due' = 0, Awaited(End)'
        PROVE  \/ job'["day"].does # "nothing" /\ job'["day"].rev.id = End'
               \/ \E v \in versions' : ClosedBy(v, End)'
    <2>1. PICK i \in owed' : i > End'
      BY <1>3 DEF Awaited
    <2>2. /\ End' # 0 /\ states'[End'].content # Gone /\ Len(states') - End' < RecentStates
      BY <1>3 DEF Awaited
    <2>3. owed' = owed /\ versions \subseteq versions'
          /\ (due' = due \/ MarkReadsHistory)
      BY <1>1, <1>3, <2>1, OwedChanges
    <2>4. i \in 1 .. Len(states)
      BY <1>1, <2>1, <2>3 DEF Recorded
    <2>5. End' = End
      BY <1>1, <2>1, <2>2, <2>4, StatesChange, EndKept, RecordedEnd
    <2>6. CASE MarkReadsHistory
      <3>1. states' = states
        BY <2>6 DEF MarkReadsHistory, recorded
      <3>2. End # 0 /\ Len(states) - End < RecentStates
        BY <2>2, <2>5, <3>1
      <3>3. owed' # {}
        BY <2>1
      <3>4. QED
        BY <1>3, <2>5, <2>6, <3>2, <3>3, EndMarked
    <2>7. CASE due' = due /\ ~MarkReadsHistory
      <3>1. End \in 1 .. Len(states) /\ Len(states) \in Nat
        BY <1>1, <2>2, <2>5, EndOfDays
      <3>2. states[End].content # Gone
        BY <1>1, <2>2, <2>5, <3>1 DEF Grows
      <3>3. Len(states) - End < RecentStates
        BY <1>1, <2>2, <2>5, <3>1, BoundsAssumption DEF Grows
      <3>4. Awaited(End) /\ due = 0 /\ owed # {} /\ owed' # {}
        BY <1>3, <2>1, <2>2, <2>3, <2>5, <2>7, <3>2, <3>3 DEF Awaited
      <3>5. PICK e : e = End
        OBVIOUS
      <3>6. ASSUME NEW v \in versions', v.state \in 1 .. Len(states), ClosedBy(v, e)
            PROVE  \E u \in versions' : ClosedBy(u, End)'
        <4>1. ClosedBy(v, e)'
          BY <1>1, <3>1, <3>5, <3>6, ClosedStays
        <4>2. ClosedBy(v, End)'
          BY <4>1, <3>5, <2>5 DEF ClosedBy
        <4>3. QED
          BY <4>2
      <3>7. CASE \E v \in versions : ClosedBy(v, End)
        BY <3>5, <3>6, <3>7, <2>3, <1>1
      <3>8. CASE Working("day") /\ job["day"].rev.id = End
        <4>1. CASE job'["day"].does # "nothing"
          BY <1>1, <2>5, <2>7, <3>8, <4>1, DayKeepsRev DEF Working
        <4>2. CASE job'["day"].does = "nothing"
          <5>1. job["day"].does = "compare" => job["day"].seen \subseteq versions
            BY <3>4 DEF DayCloses
          <5>2. PICK v \in versions' :
                  v.state \in 1 .. Len(states) /\ ClosedBy(v, job["day"].rev.id)
            BY <2>3, <3>4, <3>8, <4>2, <5>1, EndedIsClosed DEF Working
          <5>3. ClosedBy(v, e)
            BY <5>2, <3>5, <3>8
          <5>4. QED
            BY <3>6, <5>2, <5>3
        <4>3. QED
          BY <4>1, <4>2
      <3>9. QED
        BY <3>4, <3>7, <3>8 DEF DayCloses
    <2>8. MarkReadsHistory => due' # due
      BY <1>1 DEF MarkReadsHistory
    <2>9. QED
      BY <2>3, <2>6, <2>7, <2>8
  <1>4. QED
    BY <1>2, <1>3 DEF DayCloses, Working

--------------------------------------------------------------------------------
(* Days that stay closed.                                                  *)

(* A state after this one is of an earlier day than on.                    *)
Followed(id, on) == \E k \in id + 1 .. Len(states) : states[k].day < on

(* With one state more, recorded on day on or later, no day mark is about  *)
(* the state id any more ...                                               *)
Closed(id, on) == Followed(id, on) \/ Len(states) + 1 - id >= RecentStates

(* ... and none is without.                                                *)
Shut(id, on) ==
    /\ states[Len(states)].day >= on
    /\ Followed(id, on) \/ Len(states) - id >= RecentStates

(* What was said of a state when its version was taken away holds: no mark *)
(* that waits, works or has been made is about it.                         *)
ForGood(t) ==
    /\ Closed(t.state, t.on)
    /\ due > 0 => Shut(t.state, t.on)
    /\ Working("day") => job["day"].rev.id # t.state
    /\ \A v \in versions : v.by = "day" => v.state # t.state

Asks(j) == j.does = "confirm" /\ Automatic(j.version) /\ ~j.returns

Told ==
    Unless({"crossed", "unload", "rewriting"}) =>
        /\ \A t \in told : t.on # states[t.state].day => ForGood(t)
        /\ Asks(job["person"]) /\ job["person"].asked # states[job["person"].version.state].day
             => Closed(job["person"].version.state, job["person"].asked)

(* Both last, and a state recorded shuts what is closed.                   *)
LEMMA ClosedLasts ==
    ASSUME HistoryOK, HistoryOK', Grows, NEW id \in 1 .. Len(states), NEW on \in Nat
    PROVE  /\ Closed(id, on) => Closed(id, on)'
           /\ Shut(id, on) /\ Len(states') = Len(states) => Shut(id, on)'
           /\ (Closed(id, on) /\ Len(states') = Len(states) + 1 /\ on <= today
                 /\ states'[Len(states) + 1].day = today) => Shut(id, on)'
  <1>1. /\ Len(states) \in Nat /\ Len(states') \in Nat /\ Len(states) <= Len(states')
        /\ \A i \in 1 .. Len(states) : states'[i].day = states[i].day
        /\ RecentStates \in Nat /\ today \in Nat
    BY BoundsAssumption DEF Grows
  <1>2. \A i \in 1 .. Len(states) : states[i].day \in Nat
    BY HistoryIs
  <1>3. Followed(id, on) => Followed(id, on)'
    BY <1>1 DEF Followed
  <1>4. Closed(id, on) => Closed(id, on)'
    BY <1>1, <1>3 DEF Closed
  <1>5. Shut(id, on) /\ Len(states') = Len(states) => Shut(id, on)'
    BY <1>1, <1>3 DEF Shut
  <1>6. (Closed(id, on) /\ Len(states') = Len(states) + 1 /\ on <= today
                 /\ states'[Len(states) + 1].day = today) => Shut(id, on)'
    BY <1>1, <1>3 DEF Closed, Shut
  <1>7. QED
    BY <1>4, <1>5, <1>6

LEMMA ToldChanges ==
    ASSUME DOMAIN job = Workers, [Next]_vars
    PROVE  \/ ConfirmRemoval
           \/ \E content, announced : Record(content, announced) /\ told' = told
           \/ MarkReadsHistory /\ told' = told
           \/ told' = told /\ (due' = due \/ due' = 0)
  <1>1. CASE NextDay \/ RewriteEnds \/ Setup \/ Unload \/ UNCHANGED vars
    BY <1>1 DEF NextDay, RewriteEnds, Setup, Unload, history, vars
  <1>3. ASSUME NEW content, NEW announced, Record(content, announced) PROVE told' = told
    BY <1>3 DEF Record
  <1>4. ASSUME NEW first, RewriteBegins(first) PROVE told' = told /\ due' = due
    BY <1>4 DEF RewriteBegins, history
  <1>5. CASE ListForFloor \/ FloorReadsVersions \/ FloorReadsHistory \/ MarkReadsVersions
             \/ MarkCompares
    BY <1>5 DEF ListForFloor, FloorReadsVersions, FloorReadsHistory, MarkReadsVersions,
                MarkCompares, history
  <1>6. CASE MarkReadsHistory
    BY <1>6 DEF MarkReadsHistory
  <1>7. ASSUME NEW p, Name(p) PROVE told' = told /\ due' = due
    BY <1>7 DEF Name
  <1>8. ASSUME NEW p \in Workers, Write(p) PROVE told' = told /\ due' = due
    BY <1>8, WriteCases
  <1>9. ASSUME NEW id, NEW level, AskForVersion(id, level) PROVE told' = told /\ due' = due
    BY <1>9 DEF AskForVersion, history
  <1>10. ASSUME NEW id, NEW below, TagByHand(id, below) PROVE told' = told /\ due' = due
    BY <1>10 DEF TagByHand, history
  <1>11. ASSUME NEW v, PreviewRemoval(v) PROVE told' = told /\ due' = due
    BY <1>11 DEF PreviewRemoval, history
  <1>15. ASSUME NEW p \in {"floor", "day"}, ReadRaises(p) PROVE told' = told /\ due' = due
    BY <1>15, RaisesIs
  <1>12. CASE Marker
    BY <1>12, <1>5, <1>6, <1>7, <1>8, <1>15 DEF Marker, Workers
  <1>13. CASE Person
    BY <1>13, <1>8, <1>9, <1>10, <1>11 DEF Person, Workers
  <1>14. QED
    BY <1>1, <1>3, <1>4, <1>8, <1>12, <1>13 DEF Next, Workers

(* The mark that begins is not about a state that is shut.                 *)
LEMMA ShutIsNotMarked ==
    ASSUME Types, MarkReadsHistory, job'["day"].does = "versions",
           NEW id \in 1 .. Len(states), NEW on \in Nat, Shut(id, on)
    PROVE  job'["day"].rev.id # id
  <1>1. DOMAIN job = Workers /\ HistoryOK
    BY DEF Types, JobsOK
  <1>2. job'["day"].rev = Revision(End, rewrites) /\ End # 0 /\ Len(states) - End < RecentStates
    BY <1>1, EndGiven DEF End
  <1>3. job'["day"].rev.id = End
    BY <1>2 DEF Revision
  <1>4. /\ End \in 1 .. Len(states) /\ Len(states) \in Nat
        /\ \A i \in End + 1 .. Len(states) : states[i].day = states[Len(states)].day
    BY <1>1, <1>2, MarkIsAboutEnd, EndOfDays DEF End
  <1>5. states[Len(states)].day \in Nat
    BY <1>1, <1>4, HistoryIs
  <1>6. ASSUME End = id PROVE FALSE
    <2>1. ~Followed(id, on)
      <3>1. ASSUME NEW k \in id + 1 .. Len(states), states[k].day < on PROVE FALSE
        <4>1. states[k].day = states[Len(states)].day
          BY <1>4, <1>6, <3>1
        <4>2. QED
          BY <1>5, <3>1, <4>1 DEF Shut
      <3>2. QED
        BY <3>1 DEF Followed
    <2>2. QED
      BY <2>1, <1>2, <1>4, <1>6, BoundsAssumption DEF Shut
  <1>7. QED
    BY <1>3, <1>6

(* An answer that a version does not return is right about later days.     *)
LEMMA AnswerIsRight ==
    ASSUME Types, NEW v \in versions, PreviewRemoval(v), Automatic(v), ~Returns(v),
           today # states[v.state].day
    PROVE  Closed(v.state, today)
  <1>1. HistoryOK /\ v.state \in 1 .. Len(states)
    BY DEF Types, VersionOK
  <1>2. StateOf(v.state) = states[v.state]
    BY <1>1, StateIs
  <1>3. ~WouldBeMarkedAgain(states[v.state], states, today, RecentStates)
    BY <1>2 DEF Returns
  <1>4. /\ states \in Seq(States) /\ today \in Nat /\ RecentStates \in Nat \ {0}
        /\ \A i \in 1 .. Len(states) :
             states[i].id = i /\ states[i].day \in Nat /\ states[i].day <= today
    BY <1>1, HistoryIs, BoundsAssumption DEF HistoryOK
  <1>5. (\E k \in v.state + 1 .. Len(states) : states[k].day < today)
          \/ Len(states) + 1 - v.state >= RecentStates
    BY <1>1, <1>3, <1>4, NotMarkedAgain
  <1>6. QED
    BY <1>5 DEF Closed, Followed

(* What was said before holds after every step.                            *)
LEMMA OldAnswersHold ==
    ASSUME Types, OneMarker, "unload" \notin doubt, [Next]_vars,
           NEW t, t.state \in 1 .. Len(states), t.on \in 0 .. today, ForGood(t)
    PROVE  ForGood(t)'
  <1>1. /\ DOMAIN job = Workers /\ HistoryOK /\ HistoryOK' /\ Grows /\ JobsOK /\ due \in Nat
        /\ t.on \in Nat /\ t.on <= today /\ job["loose"].does = "nothing"
    BY HistoryStep DEF Types, JobsOK, OneMarker, Working, HistoryOK
  <1>2. /\ Closed(t.state, t.on)
        /\ due > 0 => Shut(t.state, t.on)
        /\ job["day"].does # "nothing" => job["day"].rev.id # t.state
        /\ \A v \in versions : v.by = "day" => v.state # t.state
    BY DEF ForGood, Working
  <1>3. Closed(t.state, t.on)'
    BY <1>1, <1>2, ClosedLasts
  <1>4. ASSUME due' > 0 PROVE Shut(t.state, t.on)'
    <2>1. ASSUME NEW content, NEW announced, Record(content, announced),
                 Len(states') = Len(states) + 1
          PROVE  Shut(t.state, t.on)'
      <3>1. states'[Len(states) + 1].day = today
        <4> DEFINE n == Len(states)
                   s == [id |-> n + 1, named |-> rewrites, day |-> today, content |-> content]
        <4>1. states' = Append(states, s) /\ s.day = today
          BY <2>1 DEF Record
        <4>2. states \in Seq(States) /\ n = Len(states)
          BY <1>1 DEF HistoryOK
        <4> HIDE DEF s, n
        <4>3. states'[n + 1] = s
          BY <4>1, <4>2
        <4>4. QED
          BY <4>1, <4>3 DEF n
      <3>2. QED
        BY <1>1, <1>2, <2>1, <3>1, ClosedLasts
    <2>2. CASE Len(states') = Len(states)
      <3>1. due > 0
        <4>1. CASE ConfirmRemoval
          BY <1>4, <4>1 DEF ConfirmRemoval
        <4>2. CASE MarkReadsHistory
          BY <4>2 DEF MarkReadsHistory
        <4>3. CASE \E content, announced : Record(content, announced)
          BY <1>1, <2>2, <4>3 DEF Record, HistoryOK
        <4>4. CASE due' = due \/ due' = 0
          BY <1>4, <4>4
        <4>5. QED
          BY <1>1, <4>1, <4>2, <4>3, <4>4, ToldChanges
      <3>2. QED
        BY <1>1, <1>2, <2>2, <3>1, ClosedLasts
    <2>3. QED
      BY <1>1, <2>1, <2>2, StatesChange
  <1>5. ASSUME job'["day"].does # "nothing" PROVE job'["day"].rev.id # t.state
    <2>1. CASE MarkReadsHistory /\ job'["day"].does = "versions"
      <3>1. due > 0
        BY <2>1 DEF MarkReadsHistory
      <3>2. QED
        BY <1>1, <1>2, <2>1, <3>1, ShutIsNotMarked
    <2>2. QED
      BY <1>1, <1>2, <1>5, <2>1, DayKeepsRev
  <1>6. \A v \in versions' : v.by = "day" => v.state # t.state
    <2>1. ASSUME NEW p \in Workers, Write(p), versions' = versions \cup {Made(job[p])}
          PROVE  \A v \in versions' : v.by = "day" => v.state # t.state
      <3>1. job[p].does = "write"
        BY <1>1, <2>1, WriteCases
      <3>2. job[p].by = "day" => p = "day"
        BY <1>1, <3>1, WritersJob DEF Workers
      <3>3. Made(job[p]).by = "day" => Made(job[p]).state # t.state
        BY <1>2, <3>1, <3>2, MadeIs
      <3>4. QED
        BY <1>2, <2>1, <3>3
    <2>2. ASSUME NEW id, NEW below, TagByHand(id, below)
          PROVE  \A v \in versions' : v.by = "day" => v.state # t.state
      <3> DEFINE tag == [number |-> NoNumber, state |-> id, by |-> "hand"]
      <3>1. versions' = versions \cup {tag} /\ tag.by = "hand"
        BY <2>2 DEF TagByHand
      <3> HIDE DEF tag
      <3>2. QED
        BY <3>1, <1>2
    <2>3. CASE ConfirmRemoval
      BY <2>3, <1>2 DEF ConfirmRemoval
    <2>4. QED
      BY <1>1, <1>2, <2>1, <2>2, <2>3, VersionsChange
  <1>7. QED
    BY <1>3, <1>4, <1>5, <1>6 DEF ForGood, Working

(* And what is said now holds: nothing crossed the removal, and no other   *)
(* version is of the day of the one that is gone.                          *)
LEMMA NewAnswerHolds ==
    ASSUME Types, OneMark, ConfirmRemoval, Asks(job["person"]),
           "crossed" \notin doubt', "unload" \notin doubt, "rewriting" \notin doubt,
           NEW t, t.state = job["person"].version.state, t.on = job["person"].asked,
           job["person"].version \in versions,
           Closed(t.state, t.on)
    PROVE  ForGood(t)'
  <1> DEFINE gone == job["person"].version
  <1>1. DOMAIN job = Workers /\ gone \in versions /\ Automatic(gone)
    BY DEF Types, JobsOK, Asks
  <1>2. versions' = versions \ {gone} /\ due' = due /\ UNCHANGED states /\ Ends("person")
    BY DEF ConfirmRemoval, recorded
  <1>3. due = 0 /\ \A p \in DOMAIN job \ {"person"} : Idle(p)
    <2>1. doubt' = doubt \cup {"removed"}
                    \cup (IF due = 0 /\ \A p \in DOMAIN job \ {"person"} : Idle(p)
                          THEN {} ELSE {"crossed"})
      BY DEF ConfirmRemoval
    <2>2. QED
      BY <2>1
  <1>4. job["day"].does = "nothing" /\ job'["day"] = job["day"]
    BY <1>1, <1>2, <1>3, JobEnds DEF Workers, Idle
  <1>5. MarkedApart
    BY DEF OneMark, Unless
  <1>6. \A v \in versions' : v.by = "day" => v.state # t.state
    <2>1. ASSUME NEW v \in versions', v.by = "day", v.state = t.state PROVE FALSE
      <3>1. v \in Marked /\ gone \in Marked /\ v # gone
        BY <1>1, <1>2, <2>1 DEF Marked, Automatic
      <3>2. v = gone
        BY <3>1, <1>5, <2>1 DEF MarkedApart
      <3>3. QED
        BY <3>1, <3>2
    <2>2. QED
      BY <2>1
  <1>7. Closed(t.state, t.on)'
    BY <1>2 DEF Closed, Followed
  <1>8. QED
    BY <1>2, <1>3, <1>4, <1>6, <1>7 DEF ForGood, Working

LEMMA ToldStep ==
    ASSUME Types, OneMarker, OneMark, Told, [Next]_vars
    PROVE  Told'
  <1> SUFFICES ASSUME "crossed" \notin doubt', "unload" \notin doubt', "rewriting" \notin doubt'
               PROVE  /\ \A t \in told' : t.on # states'[t.state].day => ForGood(t)'
                      /\ (Asks(job'["person"]) /\
                            job'["person"].asked # states'[job'["person"].version.state].day)
                           => Closed(job["person"].version.state, job["person"].asked)'
    BY DEF Told, Unless
  <1>1. /\ DOMAIN job = Workers /\ HistoryOK /\ HistoryOK' /\ Grows /\ JobsOK /\ PersonMoves
        /\ \A t \in told : t.state \in 1 .. Len(states) /\ t.on \in 0 .. today
        /\ \A v \in versions : v.state \in 1 .. Len(states)
    BY HistoryStep, JobsMove DEF Types, JobsOK, Moves, VersionOK
  <1>2. "crossed" \notin doubt /\ "unload" \notin doubt /\ "rewriting" \notin doubt
    BY <1>1, DoubtStays
  <1>3. /\ \A t \in told : t.on # states[t.state].day => ForGood(t)
        /\ (Asks(job["person"]) /\ job["person"].asked # states[job["person"].version.state].day)
             => Closed(job["person"].version.state, job["person"].asked)
    BY <1>2 DEF Told, Unless
  <1>4. \A i \in 1 .. Len(states) : states'[i].day = states[i].day
    BY <1>1 DEF Grows
  <1>5. ASSUME NEW t \in told, t.on # states'[t.state].day PROVE ForGood(t)'
    <2>1. ForGood(t)
      BY <1>1, <1>3, <1>4, <1>5
    <2>2. QED
      BY <1>1, <1>2, <2>1, OldAnswersHold
  <1>6. ASSUME NEW t \in told', t \notin told, t.on # states'[t.state].day PROVE ForGood(t)'
    <2>1. ConfirmRemoval
      BY <1>1, <1>6, ToldChanges DEF MarkReadsHistory
    <2> DEFINE j == job["person"]
               answer == [state |-> j.version.state, on |-> j.asked]
    <2>2. /\ j.version \in versions /\ Automatic(j.version) /\ ~j.returns
          /\ t = answer /\ j.does = "confirm" /\ states' = states
      BY <1>6, <2>1 DEF ConfirmRemoval, recorded
    <2>3. t.state = j.version.state /\ t.on = j.asked
      BY <2>2
    <2> HIDE DEF answer
    <2>4. Asks(j)
      BY <2>2 DEF Asks
    <2>5. Closed(t.state, t.on)
      BY <1>3, <1>6, <2>2, <2>3, <2>4
    <2>6. QED
      BY <1>2, <2>1, <2>2, <2>3, <2>4, <2>5, NewAnswerHolds
  <1>7. ASSUME Asks(job'["person"]),
               job'["person"].asked # states'[job'["person"].version.state].day
        PROVE  Closed(job["person"].version.state, job["person"].asked)'
    <2>1. CASE job'["person"] = job["person"]
      <3>1. PICK id, on : id = job["person"].version.state /\ on = job["person"].asked
        OBVIOUS
      <3>2. id \in 1 .. Len(states) /\ on \in Nat
        BY <1>1, <1>7, <2>1, <3>1 DEF JobsOK, PersonJob, VersionOK, Asks, HistoryOK
      <3>3. Closed(id, on)
        BY <1>3, <1>4, <1>7, <2>1, <3>1, <3>2
      <3>4. Closed(id, on)'
        BY <1>1, <3>2, <3>3, ClosedLasts
      <3>5. QED
        BY <2>1, <3>1, <3>4 DEF Closed, Followed
    <2>2. ASSUME NEW v \in versions, PreviewRemoval(v)
          PROVE  Closed(job["person"].version.state, job["person"].asked)'
      <3>1. /\ job'["person"].version = v /\ job'["person"].returns = Returns(v)
            /\ job'["person"].asked = today /\ states' = states
        BY <1>1, <2>2, PreviewGiven
      <3>2. Automatic(v) /\ ~Returns(v)
        BY <1>7, <3>1 DEF Asks
      <3>3. Closed(v.state, today)
        BY <1>7, <2>2, <3>1, <3>2, AnswerIsRight
      <3>4. QED
        BY <3>1, <3>3 DEF Closed, Followed
    <2>3. ASSUME NEW i \in DOMAIN states, NEW level \in Asked, AskForVersion(states[i].id, level)
          PROVE  FALSE
      BY <1>1, <1>7, <2>3, AskGiven DEF Asks
    <2>4. QED
      BY <1>1, <1>7, <2>1, <2>2, <2>3, NothingToDo DEF PersonMoves, Asks
  <1>8. QED
    BY <1>5, <1>6, <1>7

--------------------------------------------------------------------------------
(* The invariant is there from the start, and every step keeps it.         *)

MarksInv ==
    /\ Types /\ Limited
    /\ OneMarker /\ DayIsOver
    /\ OneMark /\ Settled /\ FloorLaid /\ DayCloses /\ Told

LEMMA MarksBegin == Init => MarksInv
  <1> SUFFICES ASSUME Init PROVE MarksInv
    OBVIOUS
  <1>1. HistoryOK
    BY HistoryInit
  <1>2. /\ today = 1 /\ states = <<>> /\ versions = {} /\ rewrites = 0 /\ rewriting = FALSE
        /\ due = 0 /\ floor = "due" /\ owed = {} /\ told = {} /\ doubt = {} /\ clash = FALSE
        /\ up = TRUE
        /\ DOMAIN job = Workers /\ \A p \in Workers : job[p] = NoJob
    BY DEF Init, Workers
  <1>3. Len(states) = 0
    BY <1>2
  <1>4. JobsOK
    BY <1>2, NothingToDo DEF JobsOK, Workers
  <1>5. Types
    BY <1>1, <1>2, <1>3, <1>4 DEF Types, RewritesOK, Recorded
  <1>6. \A p \in Workers : job[p].does = "nothing"
    BY <1>2, NothingToDo
  <1>7. job["floor"].does = "nothing" /\ job["day"].does = "nothing"
        /\ job["person"].does = "nothing" /\ job["loose"].does = "nothing"
    BY <1>6 DEF Workers
  <1>8. Limited
    <2>1. Limit(0)
      BY <1>2, <1>6, <1>7 DEF Limit
    <2>2. QED
      BY <2>1 DEF Limited
  <1>9. OneMarker /\ DayIsOver
    BY <1>2, <1>7 DEF OneMarker, DayIsOver, Working
  <1>10. OneMark
    BY <1>2, <1>7 DEF OneMark, Marked, MarkedApart, Working
  <1>11. Settled
    BY <1>2, <1>7 DEF Settled, Numbered
  <1>12. FloorLaid
    BY <1>2, <1>7 DEF FloorLaid
  <1>13. DayCloses
    BY <1>2, <1>7 DEF DayCloses, Awaited
  <1>14. Told
    BY <1>2, <1>7 DEF Told, Asks
  <1>15. QED
    BY <1>5, <1>8, <1>9, <1>10, <1>11, <1>12, <1>13, <1>14 DEF MarksInv

(* The invariant holds in every reachable state, for any number of days,   *)
(* states, requests, reloads and rewrites.                                 *)
THEOREM MarksKept == Spec => []MarksInv
  <1>1. Init => MarksInv
    BY MarksBegin
  <1>2. MarksInv /\ [Next]_vars => MarksInv'
    <2> SUFFICES ASSUME MarksInv, [Next]_vars PROVE MarksInv'
      OBVIOUS
    <2>1. /\ Types /\ Limited /\ OneMarker /\ DayIsOver
          /\ OneMark /\ Settled /\ FloorLaid /\ DayCloses /\ Told
      BY DEF MarksInv
    <2>2. Types' /\ Limited'
      BY <2>1, TypesStep, LimitStep
    <2>3. OneMarker' /\ DayIsOver'
      BY <2>1, OneMarkerStep, DayIsOverStep
    <2>4. OneMark' /\ Settled' /\ FloorLaid'
      BY <2>1, OneMarkStep, SettledStep, FloorLaidStep
    <2>5. DayCloses' /\ Told'
      BY <2>1, DayClosesStep, ToldStep
    <2>6. QED
      BY <2>2, <2>3, <2>4, <2>5 DEF MarksInv
  <1>3. QED
    BY <1>1, <1>2, PTL DEF Spec

LEMMA StatesKnown ==
    ASSUME MarksInv
    PROVE  /\ \A v \in versions : v.state \in 1 .. Len(states) /\ StateOf(v.state) = states[v.state]
           /\ \A t \in told : t.state \in 1 .. Len(states) /\ StateOf(t.state) = states[t.state]
  <1>1. /\ HistoryOK
        /\ \A v \in versions : v.state \in 1 .. Len(states)
        /\ \A t \in told : t.state \in 1 .. Len(states)
    BY DEF MarksInv, Types, VersionOK
  <1>2. QED
    BY <1>1, StateIs

(* milestones.py: however the floor pass, the day marks, a reload and a    *)
(* person interleave, no two automatic versions are about the same day.    *)
THEOREM OneMarkADay == Spec => []OneMarkPerDay
  <1>1. ASSUME MarksInv PROVE OneMarkPerDay
    <2>1. Unless({"unload", "rewriting"}) => MarkedApart
      BY <1>1 DEF MarksInv, OneMark
    <2>2. QED
      BY <1>1, <2>1, StatesKnown DEF OneMarkPerDay, MarkedApart, Marked
  <1>2. QED
    BY <1>1, MarksKept, PTL

(* The name a marker has worked out is never one of another mark's.        *)
THEOREM NamesDoNotMeet == Spec => []NeverInEachOthersWay
  <1>1. ASSUME MarksInv PROVE NeverInEachOthersWay
    BY <1>1 DEF MarksInv, OneMark, NeverInEachOthersWay
  <1>2. QED
    BY <1>1, MarksKept, PTL

(* An automatic version is never the one that puts a dashboard on v0.0.x.  *)
THEOREM MarksBeginAtOne == Spec => []NeverStranded
  <1>1. ASSUME MarksInv PROVE NeverStranded
    <2>1. \A v \in versions : Automatic(v) => v \in Numbered(versions)
      BY <1>1, NumbersAreNumbers DEF MarksInv, Types, VersionOK, Automatic, Numbered
    <2>2. QED
      BY <1>1, <2>1 DEF MarksInv, Settled, NeverStranded
  <1>2. QED
    BY <1>1, MarksKept, PTL

(* async_start_floor: where the pass has gone through with a dashboard, the *)
(* dashboard has a number; the reads may raise at any time and the name be *)
(* refused, and then the pass has not gone through.                        *)
THEOREM FloorHolds == Spec => []FloorIsLaid
  <1>1. ASSUME MarksInv PROVE FloorIsLaid
    BY <1>1 DEF MarksInv, FloorLaid, FloorIsLaid
  <1>2. QED
    BY <1>1, MarksKept, PTL

(* Every day that was announced and has gone by within the window is       *)
(* closed once no mark waits or works, though the reads of a mark may      *)
(* raise at any time: only a mark that failed, with none waiting after it, *)
(* leaves a day open.                                                      *)
THEOREM DaysClose == Spec => []EveryDayCloses
  <1>1. ASSUME MarksInv PROVE EveryDayCloses
    <2>1. /\ End = EndOfPreviousDay(Days(states)) /\ HistoryOK /\ DayCloses
          /\ Recorded(owed, Len(states))
      BY <1>1 DEF End, MarksInv, Types
    <2>2. End \in 0 .. Len(states) /\ Len(states) \in Nat
      BY <2>1, EndOfDays
    <2>3. ASSUME due = 0, Idle("day"), End # 0, states[End].content # Gone,
                 Len(states) - End < RecentStates,
                 \E i \in End + 1 .. Len(states) : i \in owed
          PROVE  \E v \in versions :
                   \/ v.state = End
                   \/ Automatic(v) /\ StateOf(v.state).day = states[End].day
                   \/ v.number # NoNumber /\ StateOf(v.state).content = states[End].content
      <3>1. Awaited(End) /\ ~Working("day")
        BY <2>2, <2>3 DEF Awaited, Idle, Working
      <3>2. PICK v \in versions : ClosedBy(v, End)
        BY <2>1, <2>3, <3>1 DEF DayCloses
      <3>3. StateOf(v.state) = states[v.state]
        BY <1>1, StatesKnown
      <3>4. QED
        BY <3>2, <3>3 DEF ClosedBy
    <2>4. QED
      BY <2>1, <2>3 DEF EveryDayCloses
  <1>2. QED
    BY <1>1, MarksKept, PTL

(* would_be_marked_again and the mark that runs later agree: a version     *)
(* said not to return is not made again after its day.                     *)
THEOREM AnswersAreKept == Spec => []PastDaysStayClosed
  <1>1. ASSUME MarksInv PROVE PastDaysStayClosed
    BY <1>1, StatesKnown DEF MarksInv, Told, ForGood, PastDaysStayClosed
  <1>2. QED
    BY <1>1, MarksKept, PTL


--------------------------------------------------------------------------------
(* The types the model declares, bounds and all.                           *)

(* A mark waits for a state that was recorded, and what is bounded stays   *)
(* within its bound.                                                       *)
MarkBounds ==
    /\ today \in Days0 /\ Len(states) \in 0 .. MaxStates
    /\ \A i \in 1 .. Len(states) : states[i].day >= 1
    /\ due \in 0 .. Len(states)
    /\ requests \in Nat /\ unloads \in Nat /\ rewrites \in Nat
    /\ requests + rewrites + unloads <= MaxEvents
    /\ floor \in {"no", "due", "waiting", "working", "done"}
    /\ doubt \subseteq Doubts

Flags == up \in BOOLEAN /\ rewriting \in BOOLEAN /\ clash \in BOOLEAN

LEMMA MarkBoundsStep ==
    ASSUME Types, MarkBounds, [Next]_vars
    PROVE  MarkBounds'
  <1>1. /\ DOMAIN job = Workers /\ HistoryOK /\ HistoryOK' /\ Grows
        /\ Len(states) \in Nat /\ Len(states') \in Nat /\ due \in Nat /\ due <= Len(states)
        /\ requests \in Nat /\ unloads \in Nat /\ rewrites \in Nat
        /\ MaxDay \in Nat /\ MaxStates \in Nat /\ MaxEvents \in Nat
        /\ today \in 1 .. MaxDay /\ Len(states) <= MaxStates
        /\ \A i \in 1 .. Len(states) : states[i].day >= 1
    BY HistoryStep, BoundsAssumption DEF Types, JobsOK, Grows, MarkBounds, Days0
  <1> DEFINE Kept == UNCHANGED <<requests, rewrites, unloads>>
             Asking == UNCHANGED <<rewrites, unloads>> /\ requests' = requests + 1 /\ Bounded
             Floors == {"no", "due", "waiting", "working", "done"}
  <1>2. ASSUME Len(states') = Len(states), today' \in 1 .. MaxDay, due' \in 0 .. due,
               floor' \in Floors, doubt' \subseteq Doubts,
               \/ Kept \/ Asking
               \/ UNCHANGED <<requests, rewrites>> /\ unloads' = unloads + 1 /\ Bounded
               \/ UNCHANGED <<requests, unloads>> /\ rewrites' = rewrites + 1 /\ Bounded
        PROVE  MarkBounds'
    <2>1. /\ requests' \in Nat /\ unloads' \in Nat /\ rewrites' \in Nat
          /\ requests' + rewrites' + unloads' <= MaxEvents
      <3>1. Bounded => requests + rewrites + unloads < MaxEvents
        BY DEF Bounded
      <3>2. requests + rewrites + unloads <= MaxEvents
        BY DEF MarkBounds
      <3>3. CASE Kept
        BY <1>1, <3>2, <3>3
      <3>4. CASE Asking
        BY <1>1, <3>1, <3>4
      <3>5. CASE UNCHANGED <<requests, rewrites>> /\ unloads' = unloads + 1 /\ Bounded
        BY <1>1, <3>1, <3>5
      <3>6. CASE UNCHANGED <<requests, unloads>> /\ rewrites' = rewrites + 1 /\ Bounded
        BY <1>1, <3>1, <3>6
      <3>7. QED
        BY <1>2, <3>3, <3>4, <3>5, <3>6
    <2>2. \A i \in 1 .. Len(states') : states'[i].day >= 1
      BY <1>1, <1>2 DEF Grows
    <2>3. due' \in 0 .. Len(states')
      BY <1>1, <1>2
    <2>4. Len(states') \in 0 .. MaxStates
      BY <1>1, <1>2
    <2>5. QED
      BY <2>1, <2>2, <2>3, <2>4, <1>2 DEF MarkBounds, Days0
  <1>3. floor \in Floors /\ doubt \subseteq Doubts /\ due \in 0 .. due /\ 0 \in 0 .. due
    BY <1>1 DEF MarkBounds
  <1>4. CASE NextDay
    <2>1. today' \in 1 .. MaxDay
      BY <1>1, <1>4 DEF NextDay
    <2>2. QED
      BY <2>1, <1>2, <1>3, <1>4 DEF NextDay, entry, history
  <1> HIDE DEF Floors
  <1>5. CASE RewriteEnds \/ UNCHANGED vars
    BY <1>1, <1>2, <1>3, <1>5 DEF RewriteEnds, entry, history, recorded, vars
  <1>6. CASE Setup
    BY <1>1, <1>2, <1>3, <1>6 DEF Setup, entry, history, recorded, Floors
  <1>7. CASE Unload
    <2>1. doubt' \subseteq Doubts
      BY <1>3, <1>7 DEF Unload, Doubts
    <2>2. QED
      BY <2>1, <1>1, <1>2, <1>3, <1>7 DEF Unload, recorded, Floors
  <1>8. ASSUME NEW content, NEW announced, Record(content, announced) PROVE MarkBounds'
    <2> DEFINE n == Len(states)
               s == [id |-> n + 1, named |-> rewrites, day |-> today, content |-> content]
    <2>1. /\ states' = Append(states, s) /\ s.day = today /\ n = Len(states)
          /\ n < MaxStates /\ (due' = due + 1 \/ due' = due)
          /\ UNCHANGED <<today, floor, doubt, requests, unloads, rewrites>>
      BY <1>8 DEF Record, entry
    <2>2. states \in Seq(States)
      BY <1>1 DEF HistoryOK
    <2> HIDE DEF s, n
    <2>3. Len(states') = n + 1 /\ states'[n + 1] = s /\ \A i \in 1 .. n : states'[i] = states[i]
      BY <2>1, <2>2
    <2>4. ASSUME NEW i \in 1 .. n + 1 PROVE states'[i].day >= 1
      <3>1. i = n + 1 \/ i \in 1 .. n
        BY <1>1, <2>1
      <3>2. QED
        BY <3>1, <1>1, <2>1, <2>3
    <2>5. due' \in 0 .. n + 1 /\ n + 1 \in 0 .. MaxStates
      BY <1>1, <2>1
    <2>6. QED
      BY <2>1, <2>3, <2>4, <2>5, <1>3 DEF MarkBounds
  <1>9. ASSUME NEW first, RewriteBegins(first) PROVE MarkBounds'
    <2>1. rewrites' = rewrites + 1 /\ Bounded
          /\ UNCHANGED <<today, floor, doubt, due, requests, unloads>>
      BY <1>9 DEF RewriteBegins, entry, history
    <2>2. Len(states') = Len(states)
      <3>1. ASSUME NEW content, NEW announced, Record(content, announced) PROVE FALSE
        <4>1. rewrites' = rewrites
          BY <3>1 DEF Record
        <4>2. QED
          BY <4>1, <1>1, <2>1
      <3>2. [Next]_vars
        OBVIOUS
      <3>3. QED
        BY <1>1, <3>1, StatesChange
    <2>3. QED
      BY <2>1, <2>2, <1>1, <1>2, <1>3
  <1>10. CASE ListForFloor
    <2>1. floor' \in Floors
      BY <1>10 DEF ListForFloor, Floors
    <2>2. QED
      BY <2>1, <1>1, <1>2, <1>3, <1>10 DEF ListForFloor, recorded, entry, history
  <1>11. "rewriting" \in Doubts /\ "removed" \in Doubts /\ "crossed" \in Doubts
         /\ "lowered" \in Doubts
         /\ "working" \in Floors /\ "done" \in Floors /\ "no" \in Floors
    BY DEF Doubts, Floors
  <1>12. CASE FloorReadsVersions \/ FloorReadsHistory
    <2>1. floor' \in Floors /\ doubt' \subseteq Doubts
      BY <1>3, <1>11, <1>12 DEF FloorReadsVersions, FloorReadsHistory, Missed, history
    <2>2. QED
      BY <2>1, <1>1, <1>2, <1>3, <1>12
         DEF FloorReadsVersions, FloorReadsHistory, recorded, entry, history
  <1>13. CASE MarkReadsHistory
    <2>1. due' \in 0 .. due
      BY <1>1, <1>13 DEF MarkReadsHistory
    <2>2. QED
      BY <2>1, <1>1, <1>2, <1>3, <1>13 DEF MarkReadsHistory, recorded, entry
  <1>14. CASE MarkReadsVersions \/ MarkCompares
    <2>1. doubt' \subseteq Doubts
      BY <1>3, <1>11, <1>14 DEF MarkReadsVersions, MarkCompares, Missed, history
    <2>2. QED
      BY <2>1, <1>1, <1>2, <1>3, <1>14 DEF MarkReadsVersions, MarkCompares, recorded, entry, history
  <1>15. ASSUME NEW p, Name(p) PROVE MarkBounds'
    <2>1. floor' \in Floors /\ doubt' \subseteq Doubts
      BY <1>3, <1>11, <1>15 DEF Name, Dropped, Released, Missed
    <2>2. QED
      BY <2>1, <1>1, <1>2, <1>3, <1>15 DEF Name, recorded, entry
  <1>16. ASSUME NEW p \in Workers, Write(p) PROVE MarkBounds'
    <2>1. floor' \in Floors /\ doubt' \subseteq Doubts
      BY <1>1, <1>3, <1>11, <1>16, WriteCases
    <2>2. QED
      BY <2>1, <1>1, <1>2, <1>3, <1>16 DEF Write, recorded, entry
  <1>17. ASSUME NEW id, NEW level, AskForVersion(id, level) PROVE MarkBounds'
    BY <1>1, <1>2, <1>3, <1>17 DEF AskForVersion, recorded, entry, history
  <1>18. ASSUME NEW id, NEW below, TagByHand(id, below) PROVE MarkBounds'
    BY <1>1, <1>2, <1>3, <1>18 DEF TagByHand, recorded, entry, history
  <1>19. ASSUME NEW v, PreviewRemoval(v) PROVE MarkBounds'
    BY <1>1, <1>2, <1>3, <1>19 DEF PreviewRemoval, recorded, entry, history
  <1>20. CASE ConfirmRemoval
    <2>1. doubt' \subseteq Doubts
      BY <1>3, <1>11, <1>20 DEF ConfirmRemoval
    <2>2. QED
      BY <2>1, <1>1, <1>2, <1>3, <1>20 DEF ConfirmRemoval, recorded, entry
  <1>24. ASSUME NEW p \in {"floor", "day"}, ReadRaises(p) PROVE MarkBounds'
    <2>1. floor' \in Floors /\ doubt' = doubt
      BY <1>3, <1>11, <1>24, RaisesIs
    <2>2. QED
      BY <2>1, <1>1, <1>2, <1>3, <1>24, RaisesIs
  <1>21. CASE Marker
    BY <1>21, <1>10, <1>12, <1>13, <1>14, <1>15, <1>16, <1>24 DEF Marker, Workers
  <1>22. CASE Person
    BY <1>22, <1>16, <1>17, <1>18, <1>19, <1>20 DEF Person, Workers
  <1>23. QED
    BY <1>4, <1>5, <1>6, <1>7, <1>8, <1>9, <1>16, <1>21, <1>22 DEF Next, Workers

LEMMA FlagsStep ==
    ASSUME Flags, [Next]_vars
    PROVE  Flags'
  <1>1. CASE NextDay \/ RewriteEnds \/ Setup \/ Unload \/ UNCHANGED vars
    BY <1>1 DEF Flags, NextDay, RewriteEnds, Setup, Unload, recorded, entry, history, vars
  <1>2. ASSUME NEW content, NEW announced, Record(content, announced) PROVE Flags'
    BY <1>2 DEF Flags, Record, entry
  <1>3. ASSUME NEW first, RewriteBegins(first) PROVE Flags'
    BY <1>3 DEF Flags, RewriteBegins, entry, history
  <1>4. CASE ListForFloor \/ FloorReadsVersions \/ FloorReadsHistory \/ MarkReadsHistory
             \/ MarkReadsVersions \/ MarkCompares
    BY <1>4 DEF Flags, ListForFloor, FloorReadsVersions, FloorReadsHistory, MarkReadsHistory,
                MarkReadsVersions, MarkCompares, recorded, entry, history
  <1>5. ASSUME NEW p, Name(p) PROVE Flags'
    BY <1>5 DEF Flags, Name, recorded, entry
  <1>6. ASSUME NEW p, Write(p) PROVE Flags'
    <2>1. up' = up /\ rewriting' = rewriting
      BY <1>6 DEF Write, recorded, entry
    <2>2. clash' \in BOOLEAN
      <3> DEFINE met == \E v \in Taken(job[p].number) : Automatic(v) /\ Automatic(job[p])
      <3>1. clash' = clash \/ clash' = (clash \/ met)
        BY <1>6 DEF Write
      <3> HIDE DEF met
      <3>2. clash \in BOOLEAN
        BY DEF Flags
      <3>3. (clash \/ met) \in BOOLEAN
        BY Zenon
      <3>4. QED
        BY <3>1, <3>2, <3>3, Zenon
    <2>3. QED
      BY <2>1, <2>2, Zenon DEF Flags
  <1>7. ASSUME NEW id, NEW level, AskForVersion(id, level) PROVE Flags'
    BY <1>7 DEF Flags, AskForVersion, recorded, entry, history
  <1>8. ASSUME NEW id, NEW below, TagByHand(id, below) PROVE Flags'
    BY <1>8 DEF Flags, TagByHand, recorded, entry, history
  <1>9. ASSUME NEW v, PreviewRemoval(v) PROVE Flags'
    BY <1>9 DEF Flags, PreviewRemoval, recorded, entry, history
  <1>10. CASE ConfirmRemoval
    BY <1>10 DEF Flags, ConfirmRemoval, recorded, entry
  <1>14. ASSUME NEW p \in {"floor", "day"}, ReadRaises(p) PROVE Flags'
    BY <1>14, RaisesIs DEF Flags
  <1>11. CASE Marker
    BY <1>11, <1>4, <1>5, <1>6, <1>14 DEF Marker
  <1>12. CASE Person
    BY <1>12, <1>6, <1>7, <1>8, <1>9, <1>10 DEF Person
  <1>13. QED
    BY <1>1, <1>2, <1>3, <1>6, <1>11, <1>12 DEF Next

(* What stands in the way of a name stands below a tag made by hand.       *)
BelowATag == beside = NoNumber \/ \E v \in versions : v.by = "hand"

LEMMA BelowATagStep ==
    ASSUME DOMAIN job = Workers, BelowATag, [Next]_vars
    PROVE  BelowATag'
  <1>1. ASSUME beside' = beside, versions \subseteq versions' PROVE BelowATag'
    BY <1>1 DEF BelowATag
  <1>2. ASSUME NEW i \in DOMAIN states, NEW below, TagByHand(states[i].id, below)
        PROVE  BelowATag'
    <2> DEFINE tag == [number |-> NoNumber, state |-> states[i].id, by |-> "hand"]
    <2>1. tag \in versions' /\ tag.by = "hand"
      BY <1>2 DEF TagByHand
    <2> HIDE DEF tag
    <2>2. QED
      BY <2>1 DEF BelowATag
  <1>3. CASE ConfirmRemoval
    BY <1>3 DEF ConfirmRemoval, BelowATag
  <1>4. ASSUME NEW p \in Workers, Write(p) PROVE BelowATag'
    BY <1>1, <1>4, WriteCases DEF Write
  <1>5. CASE NextDay \/ RewriteEnds \/ Setup \/ Unload \/ UNCHANGED vars
    BY <1>1, <1>5 DEF NextDay, RewriteEnds, Setup, Unload, recorded, vars
  <1>6. ASSUME NEW content, NEW announced, Record(content, announced) PROVE BelowATag'
    BY <1>1, <1>6 DEF Record
  <1>7. ASSUME NEW first, RewriteBegins(first) PROVE BelowATag'
    BY <1>1, <1>7 DEF RewriteBegins
  <1>8. CASE ListForFloor \/ FloorReadsVersions \/ FloorReadsHistory
             \/ MarkReadsHistory \/ MarkReadsVersions \/ MarkCompares
    BY <1>1, <1>8 DEF ListForFloor, FloorReadsVersions, FloorReadsHistory, MarkReadsHistory,
                      MarkReadsVersions, MarkCompares
  <1>9. ASSUME NEW p, Name(p) \/ ReadRaises(p) PROVE BelowATag'
    BY <1>1, <1>9 DEF Name, ReadRaises
  <1>10. ASSUME NEW id, NEW level, AskForVersion(id, level) PROVE BelowATag'
    BY <1>1, <1>10 DEF AskForVersion
  <1>11. ASSUME NEW v, PreviewRemoval(v) PROVE BelowATag'
    BY <1>1, <1>11 DEF PreviewRemoval
  <1>12. QED
    BY <1>2, <1>3, <1>4, <1>5, <1>6, <1>7, <1>8, <1>9, <1>10, <1>11
       DEF Next, Marker, Person, Workers

(* The variables stay in their types and the bounded ones within bounds.   *)
THEOREM MarksTypes == Spec => []MarksTypeOK
  <1>1. Init => MarkBounds /\ Flags /\ BelowATag
    <2> SUFFICES ASSUME Init PROVE MarkBounds /\ Flags /\ BelowATag
      OBVIOUS
    <2>1. Len(states) = 0
      BY DEF Init
    <2>2. MarkBounds
      BY <2>1, BoundsAssumption DEF Init, MarkBounds, Days0
    <2>3. Flags
      BY DEF Init, Flags
    <2>4. BelowATag
      BY DEF Init, BelowATag
    <2>5. QED
      BY <2>2, <2>3, <2>4
  <1>2. MarksInv /\ MarkBounds /\ Flags /\ BelowATag /\ [Next]_vars
          => MarkBounds' /\ Flags' /\ BelowATag'
    BY MarkBoundsStep, FlagsStep, BelowATagStep DEF MarksInv, Types, JobsOK
  <1>3. ASSUME MarksInv, MarkBounds, Flags, BelowATag PROVE MarksTypeOK
    <2>1. /\ HistoryOK /\ JobsOK /\ \A v \in versions : VersionOK(v, Len(states))
          /\ Recorded(owed, Len(states)) /\ OneMarker
          /\ Len(states) \in Nat /\ Len(states) <= MaxStates /\ MaxStates \in Nat
      BY <1>3, BoundsAssumption DEF MarksInv, Types, MarkBounds
    <2>2. ASSUME NEW i \in DOMAIN states
          PROVE  states[i] \in [id : {i}, named : 0 .. rewrites, day : 1 .. today,
                                content : Contents \cup {Gone}]
      <3>1. /\ i \in 1 .. Len(states) /\ states[i] \in States
            /\ states[i].id = i /\ states[i].named <= rewrites /\ states[i].day <= today
            /\ rewrites \in Nat /\ today \in Nat
        BY <2>1 DEF HistoryOK
      <3>2. states[i].day >= 1
        BY <3>1, <1>3 DEF MarkBounds
      <3>3. QED
        BY <3>1, <3>2 DEF States
    <2>3. ASSUME NEW v \in versions
          PROVE  /\ v.state \in 1 .. Len(states)
                 /\ v.by \in {"floor", "day", "person", "hand"}
                 /\ v.number = NoNumber <=> v.by = "hand"
      BY <2>1, NumbersAreNumbers DEF VersionOK
    <2>4. \A p \in DOMAIN job : job[p].does \in {"nothing", "oldest", "versions", "compare",
                                                 "name", "write", "confirm"}
      BY <2>1 DEF JobsOK, FloorJob, DayJob, PersonJob, LooseJob, Workers
    <2>5. floor = "working" <=> ~Idle("floor")
      BY <2>1 DEF OneMarker, Working, Idle
    <2>6. owed \subseteq Ids
      BY <2>1 DEF Recorded, Ids
    <2>7. /\ today \in Days0 /\ rewrites \in 0 .. MaxEvents /\ unloads \in 0 .. MaxEvents
          /\ due \in 0 .. MaxStates
      BY <1>3, <2>1, BoundsAssumption DEF MarkBounds
    <2>8. up \in BOOLEAN /\ rewriting \in BOOLEAN /\ clash \in BOOLEAN
      BY <1>3 DEF Flags
    <2>9. QED
      BY <1>3, <2>1, <2>2, <2>3, <2>4, <2>5, <2>6, <2>7, <2>8
         DEF MarksTypeOK, MarkBounds, BelowATag
  <1>4. QED
    BY <1>1, <1>2, <1>3, MarksKept, PTL DEF Spec
================================================================================
