------------------------------- MODULE UndoProofs -------------------------------
(***************************************************************************)
(* An undo right after a change leads back to what was before it.  Of two  *)
(* states, "one" is what was and "other" what the change made of it, which *)
(* is what stands.                                                         *)
(*                                                                         *)
(* A row whose changes are undone in the order of apply_undo goes back,    *)
(* whatever else happens in between (Restored).  The plan of an undo at    *)
(* once is what the two states differ in and nothing more (StepsAtOnce),   *)
(* each of its steps does what it says wherever it comes (AllTheWay), so   *)
(* each list of each view (ListGoesBack) and the row of views              *)
(* (PathsGoBack) are rows that go back.                                    *)
(***************************************************************************)
EXTENDS AnalysisProofs

(* The how many-th of these numbers one of them is, and a row that holds   *)
(* what another has at these indices, in their order.                      *)
UpToIt(K, i) == {j \in K : j <= i}
NthOf(K, i) == Cardinality(UpToIt(K, i))

Indices(K, n) == n \in Nat /\ K \subseteq 1 .. n

Holds(row, all, K) ==
  /\ Len(row) = Cardinality(K)
  /\ \A i \in K : row[NthOf(K, i)] = all[i]

(* Counting among the first numbers.                                       *)
LEMMA NthIs ==
    ASSUME NEW K, NEW n, Indices(K, n), NEW i \in K
    PROVE  /\ IsFiniteSet(K) /\ Cardinality(K) \in Nat /\ i \in Nat \ {0}
           /\ IsFiniteSet(UpToIt(K, i)) /\ NthOf(K, i) \in 1 .. Cardinality(K)
           /\ NthOf(K, i) <= i
           /\ 1 .. i \subseteq K => NthOf(K, i) = i
  <1>1. i \in Nat \ {0} /\ i <= n /\ n \in Nat /\ \A j \in K : j \in Nat \ {0}
    BY DEF Indices
  <1>2. IsFiniteSet(1 .. n) /\ IsFiniteSet(1 .. i) /\ Cardinality(1 .. i) = i
    BY <1>1, FS_Interval
  <1>3. IsFiniteSet(K) /\ Cardinality(K) \in Nat
    BY <1>2, FS_Subset, FS_CardinalityType DEF Indices
  <1>4. UpToIt(K, i) \subseteq K /\ UpToIt(K, i) \subseteq 1 .. i /\ i \in UpToIt(K, i)
    <2>1. \A j \in UpToIt(K, i) : j \in K /\ j <= i
      BY DEF UpToIt
    <2>2. \A j \in UpToIt(K, i) : j \in 1 .. i
      <3>1. SUFFICES ASSUME NEW j \in UpToIt(K, i) PROVE j \in 1 .. i
        OBVIOUS
      <3>2. j \in Nat \ {0} /\ j <= i
        BY <1>1, <2>1
      <3>3. QED
        BY <1>1, <3>2
    <2>3. i \in UpToIt(K, i)
      BY <1>1 DEF UpToIt
    <2>4. QED
      BY <2>1, <2>2, <2>3
  <1>5. IsFiniteSet(UpToIt(K, i)) /\ NthOf(K, i) <= Cardinality(K) /\ NthOf(K, i) <= i
    BY <1>2, <1>3, <1>4, FS_Subset DEF NthOf
  <1>6. NthOf(K, i) \in Nat /\ NthOf(K, i) # 0
    BY <1>4, <1>5, FS_CardinalityType, FS_EmptySet DEF NthOf
  <1>7. ASSUME 1 .. i \subseteq K PROVE NthOf(K, i) = i
    <2>1. UpToIt(K, i) = 1 .. i
      BY <1>1, <1>4, <1>7 DEF UpToIt
    <2>2. QED
      BY <1>2, <2>1 DEF NthOf
  <1>8. QED
    BY <1>1, <1>3, <1>5, <1>6, <1>7

(* The later number comes later.                                           *)
LEMMA NthGrows ==
    ASSUME NEW K, NEW n, Indices(K, n), NEW i \in K, NEW j \in K, i < j
    PROVE  NthOf(K, i) < NthOf(K, j)
  <1>1. IsFiniteSet(UpToIt(K, j)) /\ \A k \in K : k \in Nat
    BY NthIs
  <1>2. UpToIt(K, i) \subseteq UpToIt(K, j)
    BY <1>1 DEF UpToIt
  <1>3. j \in UpToIt(K, j) /\ j \notin UpToIt(K, i)
    BY <1>1 DEF UpToIt
  <1>4. NthOf(K, i) <= NthOf(K, j) /\ NthOf(K, i) # NthOf(K, j)
    BY <1>1, <1>2, <1>3, FS_Subset DEF NthOf
  <1>5. QED
    BY <1>4, NthIs

(* One number more.                                                        *)
LowerThan(K, i) == {j \in K : j < i}

(* It comes after those below it.                                          *)
LEMMA NthWithOneMore ==
    ASSUME NEW K, NEW n, Indices(K, n), NEW i \in 1 .. n, i \notin K
    PROVE  /\ Indices(K \cup {i}, n)
           /\ Cardinality(K \cup {i}) = Cardinality(K) + 1
           /\ NthOf(K \cup {i}, i) = Cardinality(LowerThan(K, i)) + 1
  <1>1. IsFiniteSet(K) /\ i \in Nat /\ n \in Nat /\ \A j \in K : j \in Nat /\ j # i
    <2>1. n \in Nat /\ K \subseteq 1 .. n
      BY DEF Indices
    <2>2. IsFiniteSet(1 .. n)
      BY <2>1, FS_Interval
    <2>3. IsFiniteSet(K)
      BY <2>1, <2>2, FS_Subset
    <2>4. QED
      BY <2>1, <2>3
  <1>2. Indices(K \cup {i}, n) /\ Cardinality(K \cup {i}) = Cardinality(K) + 1
    BY <1>1, FS_AddElement DEF Indices
  <1>3. NthOf(K \cup {i}, i) = Cardinality(LowerThan(K, i)) + 1
    <2> DEFINE L == LowerThan(K, i)
    <2>1. UpToIt(K \cup {i}, i) = L \cup {i} /\ i \notin L /\ L \in SUBSET K
      BY <1>1 DEF UpToIt, LowerThan
    <2>2. IsFiniteSet(L)
      BY <1>1, <2>1, FS_Subset
    <2> HIDE DEF L
    <2>3. Cardinality(L \cup {i}) = Cardinality(L) + 1
      BY <2>1, <2>2, FS_AddElement
    <2>4. QED
      BY <2>1, <2>3 DEF NthOf, L
  <1>4. QED
    BY <1>2, <1>3

(* Those after it move on by one.                                          *)
LEMMA NthAmongMore ==
    ASSUME NEW K, NEW n, Indices(K, n), NEW i \in 1 .. n, i \notin K, NEW j \in K
    PROVE  NthOf(K \cup {i}, j) = IF j < i THEN NthOf(K, j) ELSE NthOf(K, j) + 1
  <1>1. i \in Nat /\ j \in Nat /\ j # i
    BY DEF Indices
  <1>2. CASE j < i
    <2>1. UpToIt(K \cup {i}, j) = UpToIt(K, j)
      BY <1>1, <1>2 DEF UpToIt
    <2>2. QED
      BY <1>2, <2>1 DEF NthOf
  <1>3. CASE ~(j < i)
    <2>1. UpToIt(K \cup {i}, j) = UpToIt(K, j) \cup {i} /\ i \notin UpToIt(K, j)
      BY <1>1, <1>3 DEF UpToIt
    <2>2. IsFiniteSet(UpToIt(K, j))
      BY NthIs
    <2>3. QED
      BY <1>3, <2>1, <2>2, FS_AddElement DEF NthOf
  <1>4. QED
    BY <1>2, <1>3

(* A row holds all of itself, and what holds all of a row is that row.     *)
LEMMA HoldsAll ==
    ASSUME NEW S, NEW all \in Seq(S), NEW row \in Seq(S)
    PROVE  Holds(row, all, 1 .. Len(all)) <=> row = all
  <1> DEFINE n == Len(all)
             K == 1 .. n
  <1>1. n \in Nat /\ Indices(K, n) /\ Cardinality(K) = n
    <2>1. n \in Nat
      BY LenProperties
    <2> HIDE DEF n
    <2>2. QED
      BY <2>1, FS_Interval DEF Indices
  <1>2. \A i \in K : NthOf(K, i) = i
    <2> SUFFICES ASSUME NEW i \in K PROVE NthOf(K, i) = i
      OBVIOUS
    <2>1. 1 .. i \subseteq K
      BY <1>1
    <2>2. QED
      BY <1>1, <2>1, NthIs
  <1>3. Holds(row, all, K) <=> Len(row) = n /\ \A i \in K : row[i] = all[i]
    BY <1>1, <1>2 DEF Holds
  <1>4. ASSUME Len(row) = n, \A i \in K : row[i] = all[i] PROVE row = all
    BY <1>4, SeqEqual, LenProperties
  <1>5. QED
    BY <1>3, <1>4

(* What stands before an index all of whose predecessors are there.        *)
LEMMA AllBelow ==
    ASSUME NEW K, NEW n, Indices(K, n), NEW i \in 1 .. n, \A j \in 1 .. i - 1 : j \in K
    PROVE  /\ Cardinality({j \in K : j < i}) = i - 1
           /\ \A j \in K : j < i => NthOf(K, j) = j
           /\ i \notin K => i - 1 <= Cardinality(K) /\ \A j \in K : j > i => NthOf(K, j) >= i
           /\ i \in K => NthOf(K, i) = i /\ \A j \in K : j > i => NthOf(K, j) > i
  <1>1. n \in Nat /\ i \in Nat /\ \A j \in K : j \in Nat /\ j # 0
    BY DEF Indices
  <1>2. {j \in K : j < i} = 1 .. i - 1
    BY <1>1
  <1>3. Cardinality(1 .. i - 1) = i - 1 /\ IsFiniteSet(1 .. i - 1)
    BY <1>1, FS_Interval
  <1>4. \A j \in K : j < i => NthOf(K, j) = j
    <2> SUFFICES ASSUME NEW j \in K, j < i PROVE NthOf(K, j) = j
      OBVIOUS
    <2>1. 1 .. j \subseteq K
      BY <1>1
    <2>2. QED
      BY <2>1, NthIs
  <1>5. ASSUME i \notin K PROVE i - 1 <= Cardinality(K) /\ \A j \in K : j > i => NthOf(K, j) >= i
    <2>0. IsFiniteSet(1 .. n)
      BY <1>1, FS_Interval
    <2>1. IsFiniteSet(K) /\ 1 .. i - 1 \in SUBSET K
      BY <2>0, FS_Subset DEF Indices
    <2>2. i - 1 <= Cardinality(K)
      BY <1>3, <2>1, FS_Subset
    <2>3. ASSUME NEW j \in K, j > i PROVE NthOf(K, j) >= i
      <3>1. (1 .. i - 1) \cup {j} \in SUBSET UpToIt(K, j)
        BY <1>1, <2>3 DEF UpToIt
      <3>2. IsFiniteSet(UpToIt(K, j)) /\ NthOf(K, j) \in Nat
        BY NthIs
      <3>3. Cardinality((1 .. i - 1) \cup {j}) = i
        <4>1. j \notin 1 .. i - 1
          BY <1>1, <2>3
        <4>2. Cardinality((1 .. i - 1) \cup {j}) = Cardinality(1 .. i - 1) + 1
          BY <1>3, <4>1, FS_AddElement
        <4>3. QED
          BY <1>1, <1>3, <4>2
      <3>4. QED
        BY <3>1, <3>2, <3>3, FS_Subset DEF NthOf
    <2>4. QED
      BY <2>2, <2>3
  <1>6. ASSUME i \in K PROVE NthOf(K, i) = i /\ \A j \in K : j > i => NthOf(K, j) > i
    <2>1. 1 .. i \subseteq K
      BY <1>1, <1>6
    <2>2. NthOf(K, i) = i
      BY <1>6, <2>1, NthIs
    <2>3. ASSUME NEW j \in K, j > i PROVE NthOf(K, j) > i
      <3>1. NthOf(K, i) < NthOf(K, j) /\ NthOf(K, j) \in Nat
        BY <1>1, <1>6, <2>3, NthGrows, NthIs
      <3>2. QED
        BY <1>1, <2>2, <3>1
    <2>4. QED
      BY <2>2, <2>3
  <1>7. QED
    BY <1>2, <1>3, <1>4, <1>5, <1>6

(* Taking the element at an index all of whose predecessors are there.     *)
LEMMA HoldsLess ==
    ASSUME NEW S, NEW row \in Seq(S), NEW all \in Seq(S), NEW K, Indices(K, Len(all)),
           Holds(row, all, K), NEW i \in K, \A j \in 1 .. i - 1 : j \in K
    PROVE  /\ i \in 1 .. Len(row) /\ row[i] = all[i]
           /\ Holds(RemoveAt(row, i), all, K \ {i})
  <1> DEFINE n == Len(all)
             L == K \ {i}
  <1>1. n \in Nat /\ i \in 1 .. n /\ \A j \in K : j \in Nat \ {0} /\ j <= n
    BY DEF Indices
  <1> HIDE DEF n
  <1>2. Indices(L, n) /\ i \notin L /\ \A j \in 1 .. i - 1 : j \in L
    BY <1>1 DEF Indices, n
  <1> HIDE DEF L
  <1>3. L \cup {i} = K
    BY DEF L
  <1>4. /\ Cardinality(K) = Cardinality(L) + 1
        /\ \A j \in L : NthOf(K, j) = IF j < i THEN NthOf(L, j) ELSE NthOf(L, j) + 1
    <2>1. Cardinality(L \cup {i}) = Cardinality(L) + 1
      BY <1>1, <1>2, NthWithOneMore
    <2>2. ASSUME NEW j \in L
          PROVE  NthOf(L \cup {i}, j) = IF j < i THEN NthOf(L, j) ELSE NthOf(L, j) + 1
      BY <1>1, <1>2, NthAmongMore
    <2>3. QED
      BY <1>3, <2>1, <2>2
  <1>5. NthOf(K, i) = i /\ \A j \in K : j > i => NthOf(K, j) > i
    BY <1>1, AllBelow DEF n
  <1>6. \A j \in L : j < i => NthOf(L, j) = j
    BY <1>1, <1>2, AllBelow
  <1>7. i \in 1 .. Cardinality(K) /\ Cardinality(K) \in Nat /\ \A j \in K : NthOf(K, j) \in 1 .. Cardinality(K)
    BY <1>5, NthIs
  <1>8. i \in 1 .. Len(row) /\ row[i] = all[i] /\ Len(row) = Cardinality(K)
    BY <1>5, <1>7 DEF Holds
  <1>9. /\ Len(RemoveAt(row, i)) = Len(row) - 1
        /\ \A j \in 1 .. Len(row) - 1 : RemoveAt(row, i)[j] = IF j < i THEN row[j] ELSE row[j + 1]
    <2>1. Len(RemoveAt(row, i)) = Len(row) - 1
      BY <1>8, RemoveAtIs
    <2>2. ASSUME NEW j \in 1 .. Len(row) - 1
          PROVE  RemoveAt(row, i)[j] = IF j < i THEN row[j] ELSE row[j + 1]
      BY <1>8, AfterRemoval
    <2>3. QED
      BY <2>1, <2>2
  <1>10. \A j \in L : NthOf(L, j) \in 1 .. Cardinality(L) /\ Cardinality(L) \in Nat
    BY <1>2, NthIs
  <1>11. ASSUME NEW j \in L PROVE RemoveAt(row, i)[NthOf(L, j)] = all[j]
    <2>1. j \in K /\ j # i /\ row[NthOf(K, j)] = all[j]
      BY DEF L, Holds
    <2>2. NthOf(L, j) \in 1 .. Len(row) - 1
      BY <1>4, <1>8, <1>10
    <2>3. CASE j < i
      BY <1>4, <1>6, <1>9, <2>1, <2>2, <2>3
    <2>4. CASE j > i
      <3>1. NthOf(K, j) = NthOf(L, j) + 1 /\ NthOf(K, j) > i
        BY <1>1, <1>4, <1>5, <2>1, <2>4
      <3>2. ~(NthOf(L, j) < i)
        BY <1>1, <2>2, <3>1
      <3>3. QED
        BY <1>9, <2>1, <2>2, <3>1, <3>2
    <2>5. j < i \/ j > i
      BY <1>1, <2>1
    <2>6. QED
      BY <2>3, <2>4, <2>5
  <1>12. Len(RemoveAt(row, i)) = Cardinality(L)
    <2>1. Cardinality(L) \in Nat
      <3>1. IsFiniteSet(L)
        <4>1. IsFiniteSet(K)
          BY NthIs
        <4>2. QED
          BY <4>1, FS_Subset DEF L
      <3>2. QED
        BY <3>1, FS_CardinalityType
    <2>2. QED
      BY <1>4, <1>8, <1>9, <2>1
  <1>13. QED
    BY <1>8, <1>11, <1>12 DEF Holds, L

(* Putting one in at an index all of whose predecessors are there.         *)
LEMMA HoldsMore ==
    ASSUME NEW S, NEW row \in Seq(S), NEW all \in Seq(S), NEW K, Indices(K, Len(all)),
           Holds(row, all, K), NEW i \in 1 .. Len(all), i \notin K, \A j \in 1 .. i - 1 : j \in K
    PROVE  Holds(PutAt(row, i, all[i]), all, K \cup {i})
  <1> DEFINE n == Len(all)
             M == K \cup {i}
  <1>1. n \in Nat /\ i \in 1 .. n /\ \A j \in K : j \in Nat \ {0} /\ j <= n /\ j # i
    BY LenProperties DEF Indices
  <1>2. all[i] \in S
    BY ElementOfSeq
  <1> HIDE DEF n
  <1>3. /\ Cardinality(M) = Cardinality(K) + 1
        /\ \A j \in K : NthOf(M, j) = IF j < i THEN NthOf(K, j) ELSE NthOf(K, j) + 1
        /\ NthOf(M, i) = Cardinality({j \in K : j < i}) + 1
    <2>1. Indices(K, n)
      BY DEF n
    <2>2. /\ Cardinality(K \cup {i}) = Cardinality(K) + 1
          /\ NthOf(K \cup {i}, i) = Cardinality(LowerThan(K, i)) + 1
      BY <1>1, <2>1, NthWithOneMore
    <2>3. ASSUME NEW j \in K
          PROVE  NthOf(K \cup {i}, j) = IF j < i THEN NthOf(K, j) ELSE NthOf(K, j) + 1
      BY <1>1, <2>1, NthAmongMore
    <2>4. QED
      BY <2>2, <2>3 DEF LowerThan
  <1>4. /\ Cardinality({j \in K : j < i}) = i - 1
        /\ \A j \in K : j < i => NthOf(K, j) = j
        /\ i - 1 <= Cardinality(K) /\ \A j \in K : j > i => NthOf(K, j) >= i
    BY <1>1, AllBelow DEF n
  <1>5. Len(row) = Cardinality(K) /\ Len(row) \in Nat
    BY LenProperties DEF Holds
  <1>6. i \in 1 .. Len(row) + 1
    BY <1>1, <1>4, <1>5
  <1>7. PutAt(row, i, all[i]) = InsertAt(row, i, all[i])
    <2>1. (IF i <= Len(row) THEN i ELSE Len(row) + 1) = i
      BY <1>6, <1>5
    <2>2. QED
      BY <2>1 DEF PutAt
  <1>8. /\ Len(InsertAt(row, i, all[i])) = Len(row) + 1
        /\ \A j \in 1 .. Len(row) + 1 :
             InsertAt(row, i, all[i])[j] = IF j < i THEN row[j] ELSE IF j = i THEN all[i] ELSE row[j - 1]
    <2> DEFINE e == all[i]
    <2>1. e \in S
      BY <1>2
    <2> HIDE DEF e
    <2>2. Len(InsertAt(row, i, e)) = Len(row) + 1
      BY <1>6, <2>1, InsertAtIs
    <2>3. ASSUME NEW j \in 1 .. Len(row) + 1
          PROVE  InsertAt(row, i, e)[j] = IF j < i THEN row[j] ELSE IF j = i THEN e ELSE row[j - 1]
      BY <1>6, <2>1, AfterInsertion
    <2>4. QED
      BY <2>2, <2>3 DEF e
  <1> HIDE DEF M
  <1>9. ASSUME NEW j \in M PROVE InsertAt(row, i, all[i])[NthOf(M, j)] = all[j]
    <2>1. CASE j = i
      <3>1. NthOf(M, i) = i
        BY <1>1, <1>3, <1>4
      <3>2. QED
        BY <1>1, <1>6, <1>8, <2>1, <3>1
    <2>2. CASE j \in K
      <3>1. NthOf(K, j) \in 1 .. Len(row) /\ row[NthOf(K, j)] = all[j]
        BY <1>5, <2>2, NthIs DEF Holds
      <3>2. CASE j < i
        <4>1. NthOf(M, j) = NthOf(K, j) /\ NthOf(K, j) < i
          BY <1>3, <1>4, <2>2, <3>2
        <4>2. QED
          BY <1>5, <1>8, <3>1, <4>1
      <3>3. CASE j > i
        <4>1. NthOf(M, j) = NthOf(K, j) + 1 /\ NthOf(K, j) >= i
          <5>1. ~(j < i)
            BY <1>1, <2>2, <3>3
          <5>2. QED
            BY <1>3, <1>4, <2>2, <3>3, <5>1
        <4>2. NthOf(M, j) \in 1 .. Len(row) + 1 /\ ~(NthOf(M, j) < i) /\ NthOf(M, j) # i
              /\ NthOf(M, j) - 1 = NthOf(K, j)
          BY <1>1, <1>5, <3>1, <4>1
        <4>3. QED
          BY <1>8, <3>1, <4>2
      <3>4. j < i \/ j > i
        BY <1>1, <2>2
      <3>5. QED
        BY <3>2, <3>3, <3>4
    <2>3. j = i \/ j \in K
      BY DEF M
    <2>4. QED
      BY <2>1, <2>2, <2>3
  <1>10. Len(InsertAt(row, i, all[i])) = Cardinality(M)
    BY <1>3, <1>5, <1>8
  <1>11. QED
    BY <1>7, <1>9, <1>10 DEF Holds, M

(* Pairs of indices of two rows that stand for the same, in one order.     *)
Steady(pairs, was, is) ==
  /\ OneToOne(pairs)
  /\ \A p \in pairs :
       /\ p = <<p[1], p[2]>>
       /\ p[1] \in 1 .. Len(was) /\ p[2] \in 1 .. Len(is) /\ was[p[1]] = is[p[2]]
  /\ \A p, q \in pairs : p[1] < q[1] <=> p[2] < q[2]

(* What a row holds of the one, it holds of the other.                     *)
LEMMA HoldsOther ==
    ASSUME NEW S, NEW was \in Seq(S), NEW is \in Seq(S), NEW row,
           NEW pairs, Steady(pairs, was, is), Holds(row, is, News(pairs))
    PROVE  /\ Indices(Olds(pairs), Len(was)) /\ Indices(News(pairs), Len(is))
           /\ Holds(row, was, Olds(pairs))
  <1>1. Len(was) \in Nat /\ Len(is) \in Nat
    BY LenProperties
  <1>2. Indices(Olds(pairs), Len(was)) /\ Indices(News(pairs), Len(is))
    BY <1>1 DEF Indices, Steady, Olds, News
  <1>3. IsFiniteSet(1 .. Len(was)) /\ IsFiniteSet(1 .. Len(is))
    BY <1>1, FS_Interval
  <1>4. pairs \in SUBSET ((1 .. Len(was)) \X (1 .. Len(is)))
    BY DEF Steady
  <1>5. \A some \in SUBSET pairs : Cardinality(Olds(some)) = Cardinality(News(some))
    <2>1. SUFFICES ASSUME NEW some \in SUBSET pairs
                   PROVE  Cardinality(Olds(some)) = Cardinality(News(some))
      OBVIOUS
    <2>2. OneToOne(some)
      BY DEF OneToOne, Steady
    <2>3. some \in SUBSET ((1 .. Len(was)) \X (1 .. Len(is)))
      BY <1>4
    <2>4. QED
      BY <1>3, <2>2, <2>3, AsMany
  <1>6. ASSUME NEW p \in pairs PROVE NthOf(Olds(pairs), p[1]) = NthOf(News(pairs), p[2])
    <2> DEFINE some == {q \in pairs : q[1] <= p[1]}
    <2>1. \A q \in pairs : q[1] \in Nat /\ q[2] \in Nat
      BY DEF Steady
    <2>2. \A q \in pairs : q[1] <= p[1] <=> q[2] <= p[2]
      <3>1. \A q \in pairs : p[1] < q[1] <=> p[2] < q[2]
        BY DEF Steady
      <3>2. QED
        BY <2>1, <3>1
    <2>3. UpToIt(Olds(pairs), p[1]) = Olds(some)
      BY DEF UpToIt, Olds
    <2>4. UpToIt(News(pairs), p[2]) = News(some)
      BY <2>2 DEF UpToIt, News
    <2>5. some \in SUBSET pairs
      OBVIOUS
    <2> HIDE DEF some
    <2>6. QED
      BY <1>5, <2>3, <2>4, <2>5 DEF NthOf
  <1>7. Cardinality(Olds(pairs)) = Cardinality(News(pairs))
    BY <1>5
  <1>8. ASSUME NEW i \in Olds(pairs) PROVE row[NthOf(Olds(pairs), i)] = was[i]
    <2>1. PICK p \in pairs : p[1] = i
      BY DEF Olds
    <2>2. p[2] \in News(pairs) /\ was[p[1]] = is[p[2]]
      BY DEF News, Steady
    <2>3. row[NthOf(News(pairs), p[2])] = is[p[2]]
      BY <2>2 DEF Holds
    <2>4. QED
      BY <1>6, <2>1, <2>2, <2>3
  <1>9. QED
    BY <1>2, <1>7, <1>8 DEF Holds

(* A row that is changed step after step: out[n] is the index, in what it  *)
(* is, that step n takes out, back[n] the index, in what it was, that step *)
(* n puts back; 0 where it does neither.  Everything unpaired goes out,    *)
(* the highest index first, and then everything unpaired comes back, the   *)
(* lowest index first.                                                     *)
Restoring(S, T, N, was, is, out, back, pairs) ==
  /\ N \in Nat /\ was \in Seq(S) /\ is \in Seq(S) /\ Steady(pairs, was, is)
  /\ T[0] = is /\ \A n \in 0 .. N : T[n] \in Seq(S)
  /\ \A n \in 1 .. N : out[n] \in 0 .. Len(is) /\ back[n] \in 0 .. Len(was)
  /\ \A n \in 1 .. N : out[n] = 0 /\ back[n] = 0 => T[n] = T[n - 1]
  /\ \A n \in 1 .. N :
       out[n] # 0 /\ out[n] \in 1 .. Len(T[n - 1]) /\ T[n - 1][out[n]] = is[out[n]]
         => T[n] = RemoveAt(T[n - 1], out[n])
  /\ \A n \in 1 .. N : back[n] # 0 => out[n] = 0 /\ T[n] = PutAt(T[n - 1], back[n], was[back[n]])
  /\ \A m, n \in 1 .. N : m < n /\ out[m] # 0 /\ out[n] # 0 => out[n] < out[m]
  /\ \A m, n \in 1 .. N : m < n /\ back[m] # 0 /\ back[n] # 0 => back[m] < back[n]
  /\ \A m, n \in 1 .. N : m < n /\ back[m] # 0 => out[n] = 0
  /\ \A j \in 1 .. Len(is) : (\E n \in 1 .. N : out[n] = j) <=> j \notin News(pairs)
  /\ \A i \in 1 .. Len(was) : (\E n \in 1 .. N : back[n] = i) <=> i \notin Olds(pairs)

StillIn(n, is, out) == {j \in 1 .. Len(is) : \A m \in 1 .. n : out[m] # j}

BackIn(n, was, back, pairs) ==
  {i \in 1 .. Len(was) : i \in Olds(pairs) \/ \E m \in 1 .. n : back[m] = i}

NoneBack(n, back) == \A m \in 1 .. n : back[m] = 0
AllOut(n, N, out) == \A m \in n + 1 .. N : out[m] = 0

OnItsWay(n, T, N, was, is, out, back, pairs) ==
  /\ NoneBack(n, back) => Holds(T[n], is, StillIn(n, is, out))
  /\ AllOut(n, N, out) => Holds(T[n], was, BackIn(n, was, back, pairs))

(* When everything is out that has to go, and nothing back yet, what is    *)
(* there is there on either side.                                          *)
LEMMA TurnsOver ==
    ASSUME NEW S, NEW T, NEW N, NEW was, NEW is, NEW out, NEW back, NEW pairs,
           Restoring(S, T, N, was, is, out, back, pairs), NEW n \in 0 .. N,
           NoneBack(n, back), AllOut(n, N, out), Holds(T[n], is, StillIn(n, is, out))
    PROVE  Holds(T[n], was, BackIn(n, was, back, pairs))
  <1>1. /\ N \in Nat /\ was \in Seq(S) /\ is \in Seq(S) /\ Steady(pairs, was, is)
        /\ Len(is) \in Nat /\ Len(was) \in Nat
    BY LenProperties DEF Restoring
  <1>2. \A m \in 1 .. N : m \in 1 .. n \/ m \in n + 1 .. N
    BY <1>1
  <1>3. StillIn(n, is, out) = News(pairs)
    <2>1. News(pairs) \subseteq 1 .. Len(is)
      BY <1>1 DEF Steady, News
    <2>2. ASSUME NEW j \in 1 .. Len(is) PROVE j \in StillIn(n, is, out) <=> j \in News(pairs)
      <3>1. (\E m \in 1 .. N : out[m] = j) <=> j \notin News(pairs)
        BY DEF Restoring
      <3>2. (\E m \in 1 .. N : out[m] = j) <=> \E m \in 1 .. n : out[m] = j
        <4>1. \A m \in 1 .. n : m \in 1 .. N
          BY <1>1
        <4>2. \A m \in 1 .. N : out[m] = j => m \in 1 .. n
          BY <1>2 DEF AllOut
        <4>3. QED
          BY <4>1, <4>2
      <3>3. QED
        BY <3>1, <3>2 DEF StillIn
    <2>3. StillIn(n, is, out) \subseteq 1 .. Len(is)
      BY DEF StillIn
    <2>4. QED
      BY <2>1, <2>2, <2>3
  <1>4. BackIn(n, was, back, pairs) = Olds(pairs)
    <2>1. Olds(pairs) \subseteq 1 .. Len(was)
      BY <1>1 DEF Steady, Olds
    <2>2. \A i \in 1 .. Len(was) : ~ \E m \in 1 .. n : back[m] = i
      BY DEF NoneBack
    <2>3. QED
      BY <2>1, <2>2 DEF BackIn
  <1>5. QED
    BY <1>1, <1>3, <1>4, HoldsOther

(* What step n takes out is there, and so is all before it.                *)
LEMMA NextOut ==
    ASSUME NEW S, NEW T, NEW N, NEW was, NEW is, NEW out, NEW back, NEW pairs,
           Restoring(S, T, N, was, is, out, back, pairs), NEW n \in 1 .. N, out[n] # 0
    PROVE  /\ out[n] \in StillIn(n - 1, is, out)
           /\ \A j \in 1 .. out[n] - 1 : j \in StillIn(n - 1, is, out)
           /\ StillIn(n, is, out) = StillIn(n - 1, is, out) \ {out[n]}
           /\ Indices(StillIn(n - 1, is, out), Len(is))
           /\ NoneBack(n, back)
  <1>1. N \in Nat /\ n \in Nat /\ Len(is) \in Nat /\ \A m \in 1 .. N : out[m] \in 0 .. Len(is)
    BY LenProperties DEF Restoring
  <1>2. ASSUME NEW j \in 1 .. out[n] PROVE j \in StillIn(n - 1, is, out)
    <2>1. out[n] \in 1 .. Len(is) /\ j \in 1 .. Len(is) /\ j <= out[n]
      BY <1>1
    <2>2. ASSUME NEW m \in 1 .. n - 1 PROVE out[m] # j
      <3>1. m \in 1 .. N /\ m < n
        BY <1>1
      <3>2. out[m] # 0 => out[n] < out[m]
        BY <3>1 DEF Restoring
      <3>3. out[m] \in Nat
        BY <1>1, <3>1
      <3>4. QED
        BY <2>1, <3>2, <3>3
    <2>3. QED
      BY <2>1, <2>2 DEF StillIn
  <1>3. out[n] \in 1 .. out[n] /\ \A j \in 1 .. out[n] - 1 : j \in 1 .. out[n]
    BY <1>1
  <1>4. StillIn(n, is, out) = StillIn(n - 1, is, out) \ {out[n]}
    <2>1. \A m \in 1 .. n : m \in 1 .. n - 1 \/ m = n
      BY <1>1
    <2>2. \A m \in 1 .. n - 1 : m \in 1 .. n
      BY <1>1
    <2>3. n \in 1 .. n
      BY <1>1
    <2>4. QED
      BY <2>1, <2>2, <2>3 DEF StillIn
  <1>5. Indices(StillIn(n - 1, is, out), Len(is))
    BY <1>1 DEF Indices, StillIn
  <1>6. NoneBack(n, back)
    <2>1. ASSUME NEW m \in 1 .. n PROVE back[m] = 0
      <3>1. m \in 1 .. N /\ (m < n \/ m = n)
        BY <1>1
      <3>2. QED
        BY <3>1 DEF Restoring
    <2>2. QED
      BY <2>1 DEF NoneBack
  <1>7. QED
    BY <1>2, <1>3, <1>4, <1>5, <1>6

(* What step n puts back is not there yet, and all before it is.           *)
LEMMA NextBack ==
    ASSUME NEW S, NEW T, NEW N, NEW was, NEW is, NEW out, NEW back, NEW pairs,
           Restoring(S, T, N, was, is, out, back, pairs), NEW n \in 1 .. N, back[n] # 0
    PROVE  /\ back[n] \in 1 .. Len(was) /\ back[n] \notin BackIn(n - 1, was, back, pairs)
           /\ \A i \in 1 .. back[n] - 1 : i \in BackIn(n - 1, was, back, pairs)
           /\ BackIn(n, was, back, pairs) = BackIn(n - 1, was, back, pairs) \cup {back[n]}
           /\ Indices(BackIn(n - 1, was, back, pairs), Len(was))
           /\ AllOut(n, N, out) => AllOut(n - 1, N, out)
  <1>1. N \in Nat /\ n \in Nat /\ Len(was) \in Nat /\ \A m \in 1 .. N : back[m] \in 0 .. Len(was)
    BY LenProperties DEF Restoring
  <1>2. back[n] \in 1 .. Len(was)
    BY <1>1
  <1>3. \A m \in 1 .. n - 1 : m \in 1 .. N /\ m < n
    BY <1>1
  <1>4. back[n] \notin BackIn(n - 1, was, back, pairs)
    <2>1. back[n] \notin Olds(pairs)
      BY <1>2 DEF Restoring
    <2>2. ASSUME NEW m \in 1 .. n - 1 PROVE back[m] # back[n]
      <3>1. back[m] # 0 => back[m] < back[n]
        BY <1>3 DEF Restoring
      <3>2. back[m] \in Nat /\ back[n] \in Nat
        BY <1>1, <1>3
      <3>3. QED
        BY <3>1, <3>2
    <2>3. QED
      BY <2>1, <2>2 DEF BackIn
  <1>5. ASSUME NEW i \in 1 .. back[n] - 1 PROVE i \in BackIn(n - 1, was, back, pairs)
    <2>1. i \in 1 .. Len(was) /\ i # 0 /\ i < back[n]
      BY <1>1, <1>2
    <2>2. CASE i \in Olds(pairs)
      BY <2>1, <2>2 DEF BackIn
    <2>3. CASE i \notin Olds(pairs)
      <3>1. PICK m \in 1 .. N : back[m] = i
        BY <2>1, <2>3 DEF Restoring
      <3>2. ~(n < m) /\ n # m
        <4>1. n < m => back[n] < back[m]
          BY <2>1, <3>1 DEF Restoring
        <4>2. QED
          BY <1>1, <2>1, <3>1, <4>1
      <3>3. m \in 1 .. n - 1
        BY <1>1, <3>2
      <3>4. QED
        BY <2>1, <3>1, <3>3 DEF BackIn
    <2>4. QED
      BY <2>2, <2>3
  <1>6. BackIn(n, was, back, pairs) = BackIn(n - 1, was, back, pairs) \cup {back[n]}
    <2>1. \A m \in 1 .. n : m \in 1 .. n - 1 \/ m = n
      BY <1>1
    <2>2. \A m \in 1 .. n - 1 : m \in 1 .. n
      BY <1>1
    <2>3. n \in 1 .. n
      BY <1>1
    <2>4. QED
      BY <1>2, <2>1, <2>2, <2>3 DEF BackIn
  <1>7. Indices(BackIn(n - 1, was, back, pairs), Len(was))
    BY <1>1 DEF Indices, BackIn
  <1>8. AllOut(n, N, out) => AllOut(n - 1, N, out)
    <2>1. out[n] = 0
      BY DEF Restoring
    <2>2. \A m \in n - 1 + 1 .. N : m = n \/ m \in n + 1 .. N
      BY <1>1
    <2>3. QED
      BY <2>1, <2>2 DEF AllOut
  <1>9. QED
    BY <1>2, <1>4, <1>5, <1>6, <1>7, <1>8

(* Each step keeps the row on its way.                                     *)
LEMMA StaysOnItsWay ==
    ASSUME NEW S, NEW T, NEW N, NEW was, NEW is, NEW out, NEW back, NEW pairs,
           Restoring(S, T, N, was, is, out, back, pairs), NEW n \in 1 .. N,
           OnItsWay(n - 1, T, N, was, is, out, back, pairs)
    PROVE  OnItsWay(n, T, N, was, is, out, back, pairs)
  <1>1. /\ N \in Nat /\ n \in Nat /\ n \in 0 .. N /\ n - 1 \in 0 .. N
        /\ was \in Seq(S) /\ is \in Seq(S) /\ T[n - 1] \in Seq(S)
    BY DEF Restoring
  <1>2. \A m \in 1 .. n - 1 : m \in 1 .. n
    BY <1>1
  <1>3. NoneBack(n, back) => NoneBack(n - 1, back)
    BY <1>2 DEF NoneBack
  <1>4. CASE out[n] = 0 /\ back[n] = 0
    <2>1. T[n] = T[n - 1]
      BY <1>4 DEF Restoring
    <2>2. \A m \in 1 .. n : m \in 1 .. n - 1 \/ m = n
      BY <1>1
    <2>3. StillIn(n, is, out) = StillIn(n - 1, is, out)
      BY <1>2, <1>4, <2>2 DEF StillIn
    <2>4. BackIn(n, was, back, pairs) = BackIn(n - 1, was, back, pairs)
      <3>1. \A i \in 1 .. Len(was) : i # 0
        OBVIOUS
      <3>2. QED
        BY <1>2, <1>4, <2>2, <3>1 DEF BackIn
    <2>5. AllOut(n, N, out) => AllOut(n - 1, N, out)
      <3>1. \A m \in n - 1 + 1 .. N : m = n \/ m \in n + 1 .. N
        BY <1>1
      <3>2. QED
        BY <1>4, <3>1 DEF AllOut
    <2>6. QED
      BY <1>3, <2>1, <2>3, <2>4, <2>5 DEF OnItsWay
  <1>5. CASE out[n] # 0
    <2>1. NoneBack(n - 1, back) /\ NoneBack(n, back)
      BY <1>3, <1>5, NextOut
    <2>2. Holds(T[n - 1], is, StillIn(n - 1, is, out))
      BY <2>1 DEF OnItsWay
    <2>3. /\ out[n] \in StillIn(n - 1, is, out)
          /\ \A j \in 1 .. out[n] - 1 : j \in StillIn(n - 1, is, out)
          /\ Indices(StillIn(n - 1, is, out), Len(is))
      BY <1>5, NextOut
    <2>4. /\ out[n] \in 1 .. Len(T[n - 1]) /\ T[n - 1][out[n]] = is[out[n]]
          /\ Holds(RemoveAt(T[n - 1], out[n]), is, StillIn(n - 1, is, out) \ {out[n]})
      BY <1>1, <2>2, <2>3, HoldsLess
    <2>5. T[n] = RemoveAt(T[n - 1], out[n])
      BY <1>5, <2>4 DEF Restoring
    <2>6. StillIn(n, is, out) = StillIn(n - 1, is, out) \ {out[n]}
      BY <1>5, NextOut
    <2>7. Holds(T[n], is, StillIn(n, is, out))
      BY <2>4, <2>5, <2>6
    <2>8. AllOut(n, N, out) => Holds(T[n], was, BackIn(n, was, back, pairs))
      BY <1>1, <2>1, <2>7, TurnsOver
    <2>9. QED
      BY <2>7, <2>8 DEF OnItsWay
  <1>6. CASE back[n] # 0
    <2>1. ~NoneBack(n, back)
      <3>1. n \in 1 .. n
        BY <1>1
      <3>2. QED
        BY <1>6, <3>1 DEF NoneBack
    <2>2. ASSUME AllOut(n, N, out) PROVE Holds(T[n], was, BackIn(n, was, back, pairs))
      <3>1. Holds(T[n - 1], was, BackIn(n - 1, was, back, pairs))
        BY <1>6, <2>2, NextBack DEF OnItsWay
      <3>2. /\ back[n] \in 1 .. Len(was) /\ back[n] \notin BackIn(n - 1, was, back, pairs)
            /\ \A i \in 1 .. back[n] - 1 : i \in BackIn(n - 1, was, back, pairs)
            /\ Indices(BackIn(n - 1, was, back, pairs), Len(was))
        BY <1>6, NextBack
      <3>3. Holds(PutAt(T[n - 1], back[n], was[back[n]]), was,
                  BackIn(n - 1, was, back, pairs) \cup {back[n]})
        BY <1>1, <3>1, <3>2, HoldsMore
      <3>4. T[n] = PutAt(T[n - 1], back[n], was[back[n]])
        BY <1>6 DEF Restoring
      <3>5. BackIn(n, was, back, pairs) = BackIn(n - 1, was, back, pairs) \cup {back[n]}
        BY <1>6, NextBack
      <3>6. QED
        BY <3>3, <3>4, <3>5
    <2>3. QED
      BY <2>1, <2>2 DEF OnItsWay
  <1>7. QED
    BY <1>4, <1>5, <1>6

(* In the end the row is what it was.                                      *)
LEMMA Restored ==
    ASSUME NEW S, NEW T, NEW N, NEW was, NEW is, NEW out, NEW back, NEW pairs,
           Restoring(S, T, N, was, is, out, back, pairs)
    PROVE  T[N] = was
  <1>1. /\ N \in Nat /\ was \in Seq(S) /\ is \in Seq(S) /\ Len(is) \in Nat /\ Len(was) \in Nat
        /\ T[0] = is /\ T[N] \in Seq(S) /\ 0 \in 0 .. N /\ N \in 0 .. N
    BY LenProperties DEF Restoring
  <1> DEFINE G == {n \in 0 .. N : OnItsWay(n, T, N, was, is, out, back, pairs)}
  <1>2. 0 \in G
    <2>1. \A m \in 1 .. 0 : FALSE
      OBVIOUS
    <2>2. StillIn(0, is, out) = 1 .. Len(is) /\ NoneBack(0, back)
      BY <2>1 DEF StillIn, NoneBack
    <2>3. Holds(T[0], is, StillIn(0, is, out))
      BY <1>1, <2>2, HoldsAll
    <2>4. AllOut(0, N, out) => Holds(T[0], was, BackIn(0, was, back, pairs))
      BY <1>1, <2>2, <2>3, TurnsOver
    <2>5. QED
      BY <1>1, <2>3, <2>4 DEF OnItsWay
  <1>3. ASSUME NEW n \in 1 .. N, n - 1 \in G PROVE n \in G
    <2>1. n \in 0 .. N
      BY <1>1
    <2>2. QED
      BY <1>3, <2>1, StaysOnItsWay
  <1> HIDE DEF G
  <1>4. N \in G
    <2>1. \A n \in 0 .. N : n \in G
      BY <1>1, <1>2, <1>3, UpTo
    <2>2. QED
      BY <1>1, <2>1
  <1>5. OnItsWay(N, T, N, was, is, out, back, pairs)
    BY <1>4 DEF G
  <1>6. AllOut(N, N, out)
    <2>1. \A m \in N + 1 .. N : FALSE
      BY <1>1
    <2>2. QED
      BY <2>1 DEF AllOut
  <1>7. BackIn(N, was, back, pairs) = 1 .. Len(was)
    BY DEF BackIn, Restoring
  <1>8. Holds(T[N], was, 1 .. Len(was))
    BY <1>5, <1>6, <1>7 DEF OnItsWay
  <1>9. QED
    BY <1>1, <1>8, HoldsAll

(* What is all in one order has nothing moved.                             *)
LEMMA NothingMoved ==
    ASSUME NEW pairs, IsFiniteSet(pairs), InOrderOfNews(pairs)
    PROVE  Moved(pairs) = {}
  <1> DEFINE Run(S) == \A p, q \in S : p.old < q.old => p.new < q.new
             runs == {S \in SUBSET pairs : Run(S)}
             longest == {S \in runs : \A T \in runs : Cardinality(T) <= Cardinality(S)}
             Leads(S, T) == \E p \in S \ T : \A q \in T \ S : p.old < q.old
             R == {ST \in longest \X longest : Leads(ST[1], ST[2])}
  <1>1. pairs \in runs
    BY DEF InOrderOfNews
  <1>2. \A T \in runs : Cardinality(T) <= Cardinality(pairs)
    BY FS_Subset
  <1>3. longest = {pairs}
    <2>1. pairs \in longest
      BY <1>1, <1>2
    <2>2. ASSUME NEW S \in longest PROVE S = pairs
      <3>1. S \in SUBSET pairs /\ Cardinality(pairs) <= Cardinality(S)
        BY <1>1
      <3>2. /\ Cardinality(S) <= Cardinality(pairs)
            /\ Cardinality(pairs) = Cardinality(S) => pairs = S
            /\ IsFiniteSet(S)
        BY <3>1, FS_Subset
      <3>3. Cardinality(S) \in Nat /\ Cardinality(pairs) \in Nat
        BY <3>2, FS_CardinalityType
      <3>4. QED
        BY <3>1, <3>2, <3>3
    <2>3. QED
      BY <2>1, <2>2
  <1>4. <<pairs, pairs>> \notin R
    OBVIOUS
  <1>5. Moved(pairs) = pairs \ First(longest, R)
    BY DEF Moved
  <1> HIDE DEF longest, R
  <1>6. First({pairs}, R) = pairs
    BY <1>4 DEF First
  <1>7. QED
    BY <1>3, <1>5, <1>6

(* A row of sections against itself.                                       *)
LEMMA PairedWithItself ==
    ASSUME NEW row \in Seq(Sections)
    PROVE  PairViewSections(row, row) = {[old |-> i, new |-> i, how |-> "same"] : i \in DOMAIN row}
  <1> DEFINE same == {<<i, i>> : i \in {j \in DOMAIN row \cap DOMAIN row : row[j] = row[j]}}
             found == Aligned(DOMAIN row \ Olds(same), DOMAIN row \ News(same),
                              LAMBDA i : row[i], LAMBDA j : row[j], <, <)
             claimed == same \cup found
             open == (DOMAIN row \ Olds(claimed)) \cap (DOMAIN row \ News(claimed))
             settings == {i \in open : row[i].cards = row[i].cards /\ row[i].own # row[i].own}
             cards == {i \in open : row[i].own = row[i].own /\ row[i].cards # row[i].cards}
  <1>1. same = {<<i, i>> : i \in DOMAIN row}
    OBVIOUS
  <1>2. Olds(same) = DOMAIN row /\ News(same) = DOMAIN row
    <2>1. \A p \in same : \E i \in DOMAIN row : p = <<i, i>>
      OBVIOUS
    <2>2. \A i \in DOMAIN row : <<i, i>> \in same
      OBVIOUS
    <2> HIDE DEF same
    <2>3. ASSUME NEW i \in DOMAIN row PROVE i \in Olds(same) /\ i \in News(same)
      <3>1. <<i, i>> \in same /\ <<i, i>>[1] = i /\ <<i, i>>[2] = i
        BY <2>2
      <3>2. QED
        BY <3>1 DEF Olds, News
    <2>4. ASSUME NEW x \in Olds(same) \cup News(same) PROVE x \in DOMAIN row
      <3>1. PICK p \in same : x = p[1] \/ x = p[2]
        BY DEF Olds, News
      <3>2. PICK i \in DOMAIN row : p = <<i, i>>
        BY <2>1
      <3>3. QED
        BY <3>1, <3>2
    <2>5. QED
      BY <2>3, <2>4
  <1>3. found = {}
    BY <1>2 DEF Aligned
  <1>4. settings = {} /\ cards = {}
    OBVIOUS
  <1>5. PairViewSections(row, row)
          = {[old |-> p[1], new |-> p[2], how |-> "same"] : p \in claimed}
              \cup {[old |-> i, new |-> i, how |-> "settings"] : i \in settings}
              \cup {[old |-> i, new |-> i, how |-> "cards"] : i \in cards}
    BY DEF PairViewSections
  <1>6. claimed = same
    BY <1>3
  <1> HIDE DEF settings, cards, claimed, same
  <1>7. PairViewSections(row, row) = {[old |-> p[1], new |-> p[2], how |-> "same"] : p \in same}
    BY <1>4, <1>5, <1>6
  <1>8. ASSUME NEW x
        PROVE  x \in {[old |-> p[1], new |-> p[2], how |-> "same"] : p \in same}
                 <=> x \in {[old |-> i, new |-> i, how |-> "same"] : i \in DOMAIN row}
    <2>1. \A i \in DOMAIN row : <<i, i>>[1] = i /\ <<i, i>>[2] = i
      OBVIOUS
    <2>2. ASSUME NEW i \in DOMAIN row, x = [old |-> i, new |-> i, how |-> "same"]
          PROVE  \E p \in same : x = [old |-> p[1], new |-> p[2], how |-> "same"]
      <3>1. <<i, i>> \in same
        BY <1>1
      <3>2. QED
        BY <2>2, <3>1
    <2>3. ASSUME NEW p \in same, x = [old |-> p[1], new |-> p[2], how |-> "same"]
          PROVE  \E i \in DOMAIN row : x = [old |-> i, new |-> i, how |-> "same"]
      <3>1. PICK i \in DOMAIN row : p = <<i, i>>
        BY <1>1
      <3>2. QED
        BY <2>3, <3>1
    <2>4. QED
      BY <2>2, <2>3
  <1>9. QED
    BY <1>7, <1>8

(* Nothing is rearranged since the change when nothing was done since.     *)
LEMMA NotSince ==
    ASSUME NEW view, view.sections \in Seq(Sections)
    PROVE  ~Rearranged(view, view)
  <1> DEFINE row == view.sections
             since == PairViewSections(row, row)
  <1>1. since = {[old |-> i, new |-> i, how |-> "same"] : i \in DOMAIN row}
    BY PairedWithItself
  <1>2. DOMAIN row = {p.old : p \in since} /\ DOMAIN row = {p.new : p \in since}
    <2>1. \A p \in since : \E i \in DOMAIN row : p.old = i /\ p.new = i
      BY <1>1
    <2>2. \A i \in DOMAIN row : \E p \in since : p.old = i /\ p.new = i
      <3>1. ASSUME NEW i \in DOMAIN row
            PROVE  [old |-> i, new |-> i, how |-> "same"] \in since
        BY <1>1
      <3>2. QED
        BY <3>1
    <2> HIDE DEF since
    <2>3. QED
      BY <2>1, <2>2
  <1>3. PairedSections(row, row, since)
    BY SectionsPaired
  <1>4. InOrderOfNews(since)
    BY <1>1 DEF InOrderOfNews
  <1>5. Moved(since) = {}
    BY <1>3, <1>4, NothingMoved DEF PairedSections
  <1>6. {p \in since : p.how \in {"settings", "cards"}} = {}
    BY <1>1
  <1> HIDE DEF since
  <1>7. ~(Cardinality({p \in since : p.how \in {"settings", "cards"}}) > 1)
    <2> DEFINE X == {p \in since : p.how \in {"settings", "cards"}}
    <2>1. X = {}
      BY <1>6
    <2> HIDE DEF X
    <2>2. Cardinality(X) = 0
      BY <2>1, FS_EmptySet
    <2>3. ~(Cardinality(X) > 1)
      BY <2>2
    <2>4. QED
      BY <2>3 DEF X
  <1>8. Rearranged(view, view) <=>
          \/ DOMAIN row # {p.old : p \in since}
          \/ DOMAIN row # {p.new : p \in since}
          \/ Moved(since) # {}
          \/ Cardinality({p \in since : p.how \in {"settings", "cards"}}) > 1
    BY DEF Rearranged, since
  <1>9. QED
    BY <1>2, <1>5, <1>7, <1>8

(* The settings of the sections are as they are.                           *)
LEMMA NoDrift ==
    ASSUME NEW config
    PROVE  SectionDrift(config, config) = {}
  BY DEF SectionDrift

(* An item found on the dashboard is the one found there.                  *)
LEMMA SoleIsIt ==
    ASSUME NEW now, IsFiniteSet(now), NEW slot \in now
    PROVE  Sole(slot, now, now) \in {{}, {slot}}
  <1> DEFINE found == Alike(now, slot.card)
             near == InView(found, slot.key)
  <1>1. found \in SUBSET now /\ slot \in found /\ near \in SUBSET now /\ slot \in near
    BY DEF Alike, InView
  <1>2. ASSUME NEW S \in SUBSET now, slot \in S, Cardinality(S) = 1 PROVE S = {slot}
    <2>1. IsFiniteSet(S)
      BY FS_Subset
    <2>2. PICK x : S = {x}
      BY <1>2, <2>1, FS_Singleton
    <2>3. QED
      BY <1>2, <2>2
  <1>3. Sole(slot, now, now) =
          IF Cardinality(found) = 1 /\ Cardinality(found) = 1 THEN found
          ELSE IF Cardinality(near) = 1 /\ Cardinality(near) = 1 THEN near ELSE {}
    BY DEF Sole
  <1> HIDE DEF found, near
  <1>4. QED
    BY <1>1, <1>2, <1>3

(* Nothing came back that was there all the time.                          *)
LEMMA NoneCameBack ==
    ASSUME NEW slot, NEW now, IsFiniteSet(now)
    PROVE  CameBack(slot, now, now) = 0
  <1> DEFINE S == InView(Alike(now, slot.card), slot.key)
  <1>1. S \in SUBSET now
    BY DEF InView, Alike
  <1>2. Cardinality(S) \in Nat
    BY <1>1, FS_Subset, FS_CardinalityType
  <1>3. CameBack(slot, now, now) = Cardinality(S) - Cardinality(S)
    BY DEF CameBack
  <1> HIDE DEF S
  <1>4. QED
    BY <1>2, <1>3

(* An item of some views is present.                                       *)
LEMMA SlotPresent ==
    ASSUME NEW config \in Configs, NEW keys, NEW kind, NEW s \in Slots(config, keys, kind)
    PROVE  s \in Present(config, kind)
  <1>1. /\ IsPlace(config, kind, s.at, s.list, s.index)
        /\ s = SlotAt(config, kind, s.at, s.list, s.index)
    BY SlotIs
  <1>2. Key(config, s.at) \in Keys(config)
    BY <1>1 DEF IsPlace, Keys
  <1>3. SlotAt(config, kind, s.at, s.list, s.index) \in Slots(config, Keys(config), kind)
    BY <1>1, <1>2, PlaceIsSlot
  <1>4. QED
    BY <1>1, <1>3 DEF Present

(* Taken back at once, every item that came goes from where it is, and     *)
(* every item that went comes back where it was.                           *)
ItemSteps(kind, one, other, goes, comes) ==
  {Step("remove", kind, other, t) : t \in goes} \cup {Step("insert", kind, one, t) : t \in comes}

(* A plan that is not refused is just these steps.                         *)
LEMMA ItemsPlannedAtOnce ==
    ASSUME NEW kind \in {"card", "badge"}, NEW one \in Configs, NEW other \in Configs,
           NEW keys, NEW changed \in SUBSET (Slots(one, keys, kind) \X Slots(other, keys, kind)),
           NEW added \in SUBSET Slots(other, keys, kind),
           NEW removed \in SUBSET Slots(one, keys, kind),
           PlanItems(kind, changed, added, removed, one, other, other, {}) # {Refused}
    PROVE  PlanItems(kind, changed, added, removed, one, other, other, {})
             = ItemSteps(kind, one, other, News(changed) \cup added, Olds(changed) \cup removed)
  <1> DEFINE now == Present(other, kind)
             plan == (UNION {TakeAway(kind, s, now, now, other) : s \in News(changed) \cup added})
                       \cup {PutBackStep(kind, s, one, {}) : s \in Olds(changed)}
                       \cup UNION {Replace(kind, s, removed, now, now, one, {}) : s \in removed}
  <1>1. PlanItems(kind, changed, added, removed, one, other, other, {}) = Settled(plan)
    BY DEF PlanItems
  <1>2. Refused \notin plan /\ Settled(plan) = plan
    BY <1>1 DEF Settled
  <1>3. IsFiniteSet(now)
    BY SlotsFinite DEF Present
  <1>4. ASSUME NEW s \in News(changed) \cup added
        PROVE  TakeAway(kind, s, now, now, other) = {Step("remove", kind, other, s)}
    <2>1. s \in Slots(other, keys, kind)
      BY DEF News
    <2>2. s \in now
      BY <2>1, SlotPresent
    <2>3. TakeAway(kind, s, now, now, other) \subseteq plan
      OBVIOUS
    <2> HIDE DEF plan, now
    <2>4. Refused \notin TakeAway(kind, s, now, now, other)
      BY <1>2, <2>3
    <2>5. Sole(s, now, now) = {s}
      BY <1>3, <2>2, <2>4, SoleIsIt DEF TakeAway
    <2>6. QED
      BY <2>5 DEF TakeAway
  <1>5. ASSUME NEW s PROVE PutBackStep(kind, s, one, {}) = Step("insert", kind, one, s)
    BY DEF PutBackStep
  <1>6. ASSUME NEW s \in removed
        PROVE  Replace(kind, s, removed, now, now, one, {}) = {Step("insert", kind, one, s)}
    <2> DEFINE S == InView(Alike(removed, s.card), s.key)
    <2>1. S \in SUBSET removed /\ s \in S
      BY DEF InView, Alike
    <2>2. IsFiniteSet(S)
      BY <2>1, SlotsFinite, FS_Subset
    <2>3. Cardinality(S) \in Nat /\ Cardinality(S) # 0
      BY <2>1, <2>2, FS_CardinalityType, FS_EmptySet
    <2>4. CameBack(s, now, now) = 0
      BY <1>3, NoneCameBack
    <2>5. Replace(kind, s, removed, now, now, one, {}) =
            IF CameBack(s, now, now) >= Cardinality(S) THEN {}
            ELSE IF CameBack(s, now, now) > 0 THEN {Refused}
            ELSE {PutBackStep(kind, s, one, {})}
      BY DEF Replace
    <2> HIDE DEF S, now
    <2>6. QED
      BY <1>5, <2>3, <2>4, <2>5
  <1>7. plan = ItemSteps(kind, one, other, News(changed) \cup added, Olds(changed) \cup removed)
    <2>1. UNION {TakeAway(kind, s, now, now, other) : s \in News(changed) \cup added}
            = {Step("remove", kind, other, s) : s \in News(changed) \cup added}
      BY <1>4
    <2>2. {PutBackStep(kind, s, one, {}) : s \in Olds(changed)}
            = {Step("insert", kind, one, s) : s \in Olds(changed)}
      BY <1>5
    <2>3. UNION {Replace(kind, s, removed, now, now, one, {}) : s \in removed}
            = {Step("insert", kind, one, s) : s \in removed}
      BY <1>6
    <2>4. plan = {Step("remove", kind, other, s) : s \in News(changed) \cup added}
                   \cup {Step("insert", kind, one, s) : s \in Olds(changed)}
                   \cup {Step("insert", kind, one, s) : s \in removed}
      BY <2>1, <2>2, <2>3
    <2> HIDE DEF plan
    <2>5. QED
      BY <2>4 DEF ItemSteps
  <1>8. QED
    BY <1>1, <1>2, <1>7

(* The pairs the change says nothing of, and those of one list among them. *)
KeptPairs(m) == PairsOf(m) \ (m.changed \cup m.displaced \cup Reordered(m))

KeptIn(m, key, l) == {p \in KeptPairs(m) : Place(p[2]) = <<key, l>>}

IndexPairs(pairs) == {<<p[1].index, p[2].index>> : p \in pairs}

(* A list of one view in two dashboards whose matching does not confuse it *)
(* with any other list.                                                    *)
Followable(one, other, kind, key, l, sections) ==
  /\ one \in Configs /\ ~PathsCollide(one) /\ other \in Configs /\ ~PathsCollide(other)
  /\ key \in Keys(one) \cap Keys(other)
  /\ l \in DOMAIN Lists(View(one, key), kind) /\ l \in DOMAIN Lists(View(other, key), kind)
  /\ \A s \in Slots(one, Keys(one) \cap Keys(other), kind) :
       Translated(s, sections) = <<key, l>> <=> Place(s) = <<key, l>>

(* Slots that list the items of one list.                                  *)
ListedIn(slots, key, l, list) ==
  /\ \A s \in slots :
       Place(s) = <<key, l>> => s.index \in 1 .. Len(list) /\ s.card = list[s.index]
  /\ \A s, t \in slots :
       Place(s) = <<key, l>> /\ Place(t) = <<key, l>> /\ s.index = t.index => s = t
  /\ \A i \in 1 .. Len(list) :
       \E s \in slots : Place(s) = <<key, l>> /\ s.index = i /\ s.card = list[i]

(* The items of such a list.                                               *)
LEMMA ItemsOfList ==
    ASSUME NEW config \in Configs, ~PathsCollide(config), NEW kind, NEW key \in Keys(config), NEW l,
           l \in DOMAIN Lists(View(config, key), kind),
           NEW keys, key \in keys
    PROVE  /\ ListAt(config, kind, key, l) \in Seq(Cards)
           /\ ListedIn(Slots(config, keys, kind), key, l, ListAt(config, kind, key, l))
  <1> DEFINE all == Slots(config, Keys(config), kind)
             some == Slots(config, keys, kind)
             list == ListAt(config, kind, key, l)
  <1>1. some \subseteq all
    BY SlotPresent DEF Present
  <1>2. list \in Seq(Cards) /\ ListedIn(all, key, l, list)
    <2>1. /\ list \in Seq(Cards)
          /\ \A s \in all : Place(s) = <<key, l>> => s.index \in 1 .. Len(list) /\ s.card = list[s.index]
          /\ \A s, t \in all : Place(s) = <<key, l>> /\ Place(t) = <<key, l>> /\ s.index = t.index => s = t
          /\ \A i \in 1 .. Len(list) :
               \E s \in all : Place(s) = <<key, l>> /\ s.index = i /\ s.card = list[i]
      BY SlotsOfList
    <2> HIDE DEF all, list
    <2>2. QED
      BY <2>1 DEF ListedIn
  <1>3. ASSUME NEW s \in all, Place(s) = <<key, l>> PROVE s \in some
    <2>1. s.key = key
      BY <1>3 DEF Place
    <2>2. /\ IsPlace(config, kind, s.at, s.list, s.index)
          /\ s = SlotAt(config, kind, s.at, s.list, s.index)
          /\ s.key = Key(config, s.at)
      BY SlotIs
    <2>3. QED
      BY <2>1, <2>2, PlaceIsSlot
  <1> HIDE DEF all, some, list
  <1>4. ListedIn(some, key, l, list)
    BY <1>1, <1>2, <1>3 DEF ListedIn
  <1>5. QED
    BY <1>2, <1>4 DEF list, some

(* A kept pair of a list pairs two items of it.                            *)
KeptPair(one, other, kind, key, l, m, p) ==
  LET was == ListAt(one, kind, key, l)
      is == ListAt(other, kind, key, l)
      common == Keys(one) \cap Keys(other)
  IN  /\ p \in m.inPlace /\ p \notin Reordered(m)
      /\ p[1] \in Slots(one, common, kind) /\ p[2] \in Slots(other, common, kind)
      /\ Place(p[1]) = <<key, l>> /\ Place(p[2]) = <<key, l>>
      /\ p[1].index \in 1 .. Len(was) /\ p[2].index \in 1 .. Len(is)
      /\ was[p[1].index] = is[p[2].index]

(* A pair that was kept in a list that can be followed holds one item at   *)
(* two places of that list.                                                *)
LEMMA KeptInPlace ==
    ASSUME NEW one, NEW other, NEW kind, NEW key, NEW l, NEW sections,
           Followable(one, other, kind, key, l, sections),
           NEW p \in KeptIn(Matching(one, other, kind, sections), key, l)
    PROVE  KeptPair(one, other, kind, key, l, Matching(one, other, kind, sections), p)
  <1> DEFINE m == Matching(one, other, kind, sections)
             was == ListAt(one, kind, key, l)
             is == ListAt(other, kind, key, l)
             common == Keys(one) \cap Keys(other)
             olds == Slots(one, common, kind)
             news == Slots(other, common, kind)
  <1>1. /\ one \in Configs /\ ~PathsCollide(one) /\ other \in Configs /\ ~PathsCollide(other)
        /\ key \in Keys(one) /\ key \in Keys(other) /\ key \in common
        /\ l \in DOMAIN Lists(View(one, key), kind) /\ l \in DOMAIN Lists(View(other, key), kind)
        /\ \A s \in olds : Translated(s, sections) = <<key, l>> <=> Place(s) = <<key, l>>
    BY DEF Followable
  <1>2. AlikeInPlace(m, sections) /\ Matched(m, olds, news)
    BY <1>1, InPlaceAlike, MatchingIs
  <1>3. ListedIn(olds, key, l, was) /\ ListedIn(news, key, l, is)
    BY <1>1, ItemsOfList
  <1> HIDE DEF m, was, is
  <1>4. p \in m.inPlace /\ p \notin Reordered(m) /\ Place(p[2]) = <<key, l>>
    BY DEF KeptIn, KeptPairs, PairsOf, m
  <1>5. p[1] \in olds /\ p[2] \in news
    BY <1>2, <1>4 DEF Matched, Matchings
  <1>6. Translated(p[1], sections) = Place(p[2]) /\ p[1].card = p[2].card
    BY <1>2, <1>4 DEF AlikeInPlace
  <1>7. Place(p[1]) = <<key, l>>
    BY <1>1, <1>4, <1>5, <1>6
  <1> HIDE DEF olds, news
  <1>8. p[1].index \in 1 .. Len(was) /\ p[1].card = was[p[1].index]
    BY <1>3, <1>5, <1>7 DEF ListedIn
  <1>9. p[2].index \in 1 .. Len(is) /\ p[2].card = is[p[2].index]
    BY <1>3, <1>4, <1>5 DEF ListedIn
  <1>10. QED
    BY <1>4, <1>5, <1>6, <1>7, <1>8, <1>9 DEF m, was, is, olds, news, KeptPair

(* Of what was not reordered, the sooner stays the sooner.                 *)
LEMMA KeptInOrder ==
    ASSUME NEW m, IsFiniteSet(m.inPlace \cup m.changed),
           NEW p \in m.inPlace, p \notin Reordered(m), NEW q \in m.inPlace, q \notin Reordered(m),
           Place(p[2]) = Place(q[2]),
           \A r \in {p, q} : r[1].index \in Nat /\ r[2].index \in Nat,
           \A r \in m.inPlace \cup m.changed : r[1].index \in Nat /\ r[2].index \in Nat
    PROVE  p[1].index < q[1].index <=> p[2].index < q[2].index
  <1> DEFINE beside == {r \in m.inPlace \cup m.changed : Place(r[2]) = Place(p[2])}
             Olders(i) == {r \in beside : r[1].index < i}
             Newers(i) == {r \in beside : r[2].index < i}
  <1>1. p \in beside /\ q \in beside /\ IsFiniteSet(beside)
        /\ \A r \in beside : r[1].index \in Nat /\ r[2].index \in Nat
    BY FS_Subset
  <1>2. beside = {r \in m.inPlace \cup m.changed : Place(r[2]) = Place(q[2])}
    OBVIOUS
  <1>3. Cardinality(Olders(p[1].index)) = Cardinality(Newers(p[2].index))
    BY DEF Reordered
  <1>4. Cardinality(Olders(q[1].index)) = Cardinality(Newers(q[2].index))
    <2>1. Cardinality({r \in {r \in m.inPlace \cup m.changed : Place(r[2]) = Place(q[2])} :
                         r[1].index < q[1].index})
            = Cardinality({r \in {r \in m.inPlace \cup m.changed : Place(r[2]) = Place(q[2])} :
                             r[2].index < q[2].index})
      BY DEF Reordered
    <2> HIDE DEF beside
    <2>2. QED
      BY <1>2, <2>1
  <1> HIDE DEF beside
  <1>5. ASSUME NEW X \in SUBSET beside, NEW Y \in SUBSET beside
        PROVE  /\ Cardinality(X) \in Nat /\ Cardinality(Y) \in Nat
               /\ X \subseteq Y => Cardinality(X) <= Cardinality(Y)
               /\ X \subseteq Y /\ X # Y => Cardinality(X) < Cardinality(Y)
    <2>1. IsFiniteSet(X) /\ IsFiniteSet(Y)
      BY <1>1, FS_Subset
    <2>2. Cardinality(X) \in Nat /\ Cardinality(Y) \in Nat
      BY <2>1, FS_CardinalityType
    <2>3. ASSUME X \subseteq Y
          PROVE  Cardinality(X) <= Cardinality(Y) /\ (Cardinality(X) = Cardinality(Y) => X = Y)
      BY <2>1, <2>3, FS_Subset
    <2>4. QED
      BY <2>2, <2>3
  <1>6. /\ Olders(p[1].index) \in SUBSET beside /\ Olders(q[1].index) \in SUBSET beside
        /\ Newers(p[2].index) \in SUBSET beside /\ Newers(q[2].index) \in SUBSET beside
    OBVIOUS
  <1>7. /\ p[1].index \in Nat /\ q[1].index \in Nat /\ p[2].index \in Nat /\ q[2].index \in Nat
    BY <1>1
  <1>8. ASSUME NEW i \in Nat, NEW j \in Nat, ~(i < j)
        PROVE  Olders(j) \subseteq Olders(i) /\ Newers(j) \subseteq Newers(i)
    BY <1>1, <1>8
  <1>9. ASSUME NEW i \in Nat, NEW j \in Nat, i < j
        PROVE  Olders(i) \subseteq Olders(j) /\ Newers(i) \subseteq Newers(j)
    BY <1>1, <1>9
  <1>10. p[1].index < q[1].index => p \in Olders(q[1].index) /\ p \notin Olders(p[1].index)
    BY <1>1, <1>7
  <1>11. p[2].index < q[2].index => p \in Newers(q[2].index) /\ p \notin Newers(p[2].index)
    BY <1>1, <1>7
  <1> HIDE DEF Olders, Newers
  <1>12. ASSUME p[1].index < q[1].index PROVE p[2].index < q[2].index
    <2>1. Cardinality(Olders(p[1].index)) < Cardinality(Olders(q[1].index))
      BY <1>5, <1>6, <1>7, <1>9, <1>10, <1>12
    <2>2. ASSUME ~(p[2].index < q[2].index) PROVE FALSE
      <3>1. Cardinality(Newers(q[2].index)) <= Cardinality(Newers(p[2].index))
        BY <1>5, <1>6, <1>7, <1>8, <2>2
      <3>2. Cardinality(Newers(q[2].index)) \in Nat /\ Cardinality(Newers(p[2].index)) \in Nat
        BY <1>5, <1>6
      <3>3. QED
        BY <1>3, <1>4, <2>1, <3>1, <3>2
    <2>3. QED
      BY <2>2
  <1>13. ASSUME p[2].index < q[2].index PROVE p[1].index < q[1].index
    <2>1. Cardinality(Newers(p[2].index)) < Cardinality(Newers(q[2].index))
      BY <1>5, <1>6, <1>7, <1>9, <1>11, <1>13
    <2>2. ASSUME ~(p[1].index < q[1].index) PROVE FALSE
      <3>1. Cardinality(Olders(q[1].index)) <= Cardinality(Olders(p[1].index))
        BY <1>5, <1>6, <1>7, <1>8, <2>2
      <3>2. Cardinality(Olders(q[1].index)) \in Nat /\ Cardinality(Olders(p[1].index)) \in Nat
        BY <1>5, <1>6
      <3>3. QED
        BY <1>3, <1>4, <2>1, <3>1, <3>2
    <2>3. QED
      BY <2>2
  <1>14. QED
    BY <1>12, <1>13

(* The kept pairs of a list stand for the same items in the same order.    *)
LEMMA KeptSteady ==
    ASSUME NEW one, NEW other, NEW kind, NEW key, NEW l, NEW sections,
           Followable(one, other, kind, key, l, sections)
    PROVE  LET m == Matching(one, other, kind, sections)
           IN  Steady(IndexPairs(KeptIn(m, key, l)),
                      ListAt(one, kind, key, l), ListAt(other, kind, key, l))
  <1> DEFINE m == Matching(one, other, kind, sections)
             was == ListAt(one, kind, key, l)
             is == ListAt(other, kind, key, l)
             common == Keys(one) \cap Keys(other)
             olds == Slots(one, common, kind)
             news == Slots(other, common, kind)
             kept == KeptIn(m, key, l)
             pairs == IndexPairs(kept)
  <1>1. /\ one \in Configs /\ ~PathsCollide(one) /\ other \in Configs /\ ~PathsCollide(other)
        /\ key \in Keys(one) /\ key \in Keys(other) /\ key \in common
        /\ l \in DOMAIN Lists(View(one, key), kind) /\ l \in DOMAIN Lists(View(other, key), kind)
    BY DEF Followable
  <1>2. Matched(m, olds, news)
    BY <1>1, MatchingIs
  <1>3. ASSUME NEW p \in kept
        PROVE  /\ p \in m.inPlace /\ p \notin Reordered(m) /\ p[1] \in olds /\ p[2] \in news
               /\ Place(p[1]) = <<key, l>> /\ Place(p[2]) = <<key, l>>
               /\ p[1].index \in 1 .. Len(was) /\ p[2].index \in 1 .. Len(is)
               /\ was[p[1].index] = is[p[2].index]
    <2>1. p \in KeptIn(Matching(one, other, kind, sections), key, l)
      OBVIOUS
    <2>2. KeptPair(one, other, kind, key, l, Matching(one, other, kind, sections), p)
      BY <2>1, KeptInPlace
    <2>3. QED
      BY <2>2 DEF KeptPair
  <1>4. /\ \A s, t \in olds : Place(s) = <<key, l>> /\ Place(t) = <<key, l>> /\ s.index = t.index => s = t
        /\ \A s, t \in news : Place(s) = <<key, l>> /\ Place(t) = <<key, l>> /\ s.index = t.index => s = t
    <2>1. ListedIn(olds, key, l, was) /\ ListedIn(news, key, l, is)
      BY <1>1, ItemsOfList
    <2> HIDE DEF olds, news, was, is
    <2>2. QED
      BY <2>1 DEF ListedIn
  <1> HIDE DEF m
  <1>5. OneToOne(PairsOf(m)) /\ m.inPlace \subseteq PairsOf(m)
    BY <1>2 DEF Matched, PairsOf
  <1>6. ASSUME NEW p \in kept, NEW q \in kept
        PROVE  /\ p[1].index = q[1].index <=> p[2].index = q[2].index
               /\ p[1].index < q[1].index <=> p[2].index < q[2].index
    <2>1. p[1] = q[1] <=> p[2] = q[2]
      BY <1>3, <1>5 DEF OneToOne
    <2>2. p[1].index = q[1].index <=> p[1] = q[1]
      BY <1>3, <1>4
    <2>3. p[2].index = q[2].index <=> p[2] = q[2]
      BY <1>3, <1>4
    <2>4. IsFiniteSet(m.inPlace \cup m.changed) /\ m.inPlace \cup m.changed \subseteq olds \X news
      <3>1. IsFiniteSet(olds) /\ IsFiniteSet(news)
        BY <1>1, SlotsFinite
      <3>2. m.inPlace \cup m.changed \in SUBSET (olds \X news)
        BY <1>2 DEF Matched, Matchings
      <3> HIDE DEF olds, news
      <3>3. QED
        BY <3>1, <3>2, FS_Product, FS_Subset
    <2>5. \A r \in m.inPlace \cup m.changed : r[1].index \in Nat /\ r[2].index \in Nat
      <3>1. \A s \in olds : s.index \in Nat
        BY <1>1, SlotType
      <3>2. \A s \in news : s.index \in Nat
        BY <1>1, SlotType
      <3> HIDE DEF olds, news
      <3>3. QED
        BY <2>4, <3>1, <3>2
    <2>6. /\ p \in m.inPlace /\ p \notin Reordered(m) /\ q \in m.inPlace /\ q \notin Reordered(m)
          /\ Place(p[2]) = Place(q[2])
      BY <1>3
    <2>7. p[1].index < q[1].index <=> p[2].index < q[2].index
      BY <2>4, <2>5, <2>6, KeptInOrder
    <2>8. QED
      BY <2>1, <2>2, <2>3, <2>7
  <1> HIDE DEF kept, was, is
  <1>7. \A x \in pairs : \E p \in kept : x = <<p[1].index, p[2].index>>
    BY DEF IndexPairs
  <1> HIDE DEF pairs
  <1>8. ASSUME NEW x \in pairs, NEW y \in pairs
        PROVE  /\ x = <<x[1], x[2]>>
               /\ x[1] \in 1 .. Len(was) /\ x[2] \in 1 .. Len(is) /\ was[x[1]] = is[x[2]]
               /\ x[1] = y[1] <=> x[2] = y[2]
               /\ x[1] < y[1] <=> x[2] < y[2]
    <2>1. PICK p \in kept : x = <<p[1].index, p[2].index>>
      BY <1>7
    <2>2. PICK q \in kept : y = <<q[1].index, q[2].index>>
      BY <1>7
    <2>3. /\ x[1] = p[1].index /\ x[2] = p[2].index /\ y[1] = q[1].index /\ y[2] = q[2].index
          /\ x = <<x[1], x[2]>>
      BY <2>1, <2>2
    <2>4. p[1].index \in 1 .. Len(was) /\ p[2].index \in 1 .. Len(is) /\ was[p[1].index] = is[p[2].index]
      BY <1>3
    <2>5. QED
      BY <1>6, <2>3, <2>4
  <1>9. Steady(pairs, was, is)
    BY <1>8 DEF Steady, OneToOne
  <1>10. QED
    BY <1>9 DEF pairs, kept, m, was, is

(* An item at an index of a list.                                          *)
SlotIn(slots, key, l, i) == \E t \in slots : Place(t) = <<key, l>> /\ t.index = i

(* What is not kept of a list goes.                                        *)
LEMMA UnkeptGoes ==
    ASSUME NEW one, NEW other, NEW kind, NEW key, NEW l, NEW sections,
           Followable(one, other, kind, key, l, sections)
    PROVE  LET m == Matching(one, other, kind, sections)
               match == MatchSlots(one, other, kind, sections)
               goes == News(match.edited \cup match.moved) \cup match.added
               pairs == IndexPairs(KeptIn(m, key, l))
           IN  \A j \in 1 .. Len(ListAt(other, kind, key, l)) :
                 SlotIn(goes, key, l, j) <=> j \notin News(pairs)
  <1> DEFINE m == Matching(one, other, kind, sections)
             match == MatchSlots(one, other, kind, sections)
             is == ListAt(other, kind, key, l)
             common == Keys(one) \cap Keys(other)
             olds == Slots(one, common, kind)
             news == Slots(other, common, kind)
             kept == KeptIn(m, key, l)
             pairs == IndexPairs(kept)
             changed == m.changed \cup m.displaced \cup Reordered(m)
             goes == News(changed) \cup m.new
  <1>1. /\ one \in Configs /\ other \in Configs /\ ~PathsCollide(other)
        /\ key \in Keys(other) /\ key \in common
        /\ l \in DOMAIN Lists(View(other, key), kind)
    BY DEF Followable
  <1>2. Matched(m, olds, news) /\ match = Outcome(m)
    BY <1>1, MatchingIs
  <1>3. ASSUME NEW p \in kept PROVE p[2] \in news /\ Place(p[2]) = <<key, l>>
    <2>1. p \in KeptIn(Matching(one, other, kind, sections), key, l)
      OBVIOUS
    <2>2. KeptPair(one, other, kind, key, l, Matching(one, other, kind, sections), p)
      BY <2>1, KeptInPlace
    <2>3. QED
      BY <2>2 DEF KeptPair
  <1>4. /\ \A s, t \in news : Place(s) = <<key, l>> /\ Place(t) = <<key, l>> /\ s.index = t.index => s = t
        /\ \A i \in 1 .. Len(is) :
             \E s \in news : Place(s) = <<key, l>> /\ s.index = i /\ s.card = is[i]
    <2>1. ListedIn(news, key, l, is)
      BY <1>1, ItemsOfList
    <2> HIDE DEF news, is
    <2>2. QED
      BY <2>1 DEF ListedIn
  <1> HIDE DEF m, is
  <1>5. match.edited \cup match.moved = changed /\ match.added = m.new
    BY <1>2 DEF Outcome
  <1>6. /\ OneToOne(PairsOf(m)) /\ m.new = news \ News(PairsOf(m))
        /\ PairsOf(m) \subseteq olds \X news
    BY <1>2 DEF Matched, Matchings, PairsOf
  <1>7. changed \subseteq PairsOf(m) /\ kept \subseteq PairsOf(m) /\ kept \cap changed = {}
    BY DEF PairsOf, KeptIn, KeptPairs, Reordered
  <1>8. \A q \in PairsOf(m) : q \notin changed /\ Place(q[2]) = <<key, l>> => q \in kept
    BY DEF KeptIn, KeptPairs
  <1>9. \A j : j \in News(pairs) <=> \E p \in kept : p[2].index = j
    <2>1. \A x \in pairs : \E p \in kept : x[2] = p[2].index
      BY DEF IndexPairs
    <2>2. \A p \in kept : \E x \in pairs : x[2] = p[2].index
      <3>1. ASSUME NEW p \in kept PROVE \E x \in pairs : x[2] = p[2].index
        <4>1. <<p[1].index, p[2].index>> \in pairs
          BY DEF IndexPairs
        <4>2. QED
          BY <4>1
      <3>2. QED
        BY <3>1
    <2> HIDE DEF pairs, kept
    <2>3. QED
      BY <2>1, <2>2 DEF News
  <1>10. ASSUME NEW t \in news PROVE t \in goes <=> t \in m.new \/ \E q \in changed : q[2] = t
    BY DEF News
  <1>11. goes \subseteq news
    <2>1. \A q \in changed : q[2] \in news
      BY <1>6, <1>7
    <2>2. m.new \subseteq news
      BY <1>6
    <2>3. QED
      BY <2>1, <2>2 DEF News
  <1> HIDE DEF kept, changed, goes, pairs, olds, news
  <1>12. ASSUME NEW j \in 1 .. Len(is) PROVE SlotIn(goes, key, l, j) <=> j \notin News(pairs)
    <2>1. PICK t \in news : Place(t) = <<key, l>> /\ t.index = j
      BY <1>4
    <2>2. SlotIn(goes, key, l, j) <=> t \in goes
      BY <1>4, <1>11, <2>1 DEF SlotIn
    <2>3. j \in News(pairs) <=> \E p \in kept : p[2] = t
      BY <1>3, <1>4, <1>9, <2>1
    <2>4. ASSUME NEW p \in kept, p[2] = t PROVE t \notin goes
      <3>1. t \notin m.new
        BY <1>6, <1>7, <2>4 DEF News
      <3>2. ASSUME NEW q \in changed, q[2] = t PROVE FALSE
        <4>1. p \in PairsOf(m) /\ q \in PairsOf(m) /\ p[1] = q[1]
          BY <1>6, <1>7, <2>4, <3>2 DEF OneToOne
        <4>2. p = <<p[1], p[2]>> /\ q = <<q[1], q[2]>>
          BY <1>6, <4>1
        <4>3. p = q
          BY <2>4, <3>2, <4>1, <4>2
        <4>4. QED
          BY <1>7, <4>3
      <3>3. QED
        BY <1>10, <3>1, <3>2
    <2>5. ASSUME t \notin goes PROVE \E p \in kept : p[2] = t
      <3>1. t \notin m.new /\ \A q \in changed : q[2] # t
        BY <1>10, <2>5
      <3>2. PICK q \in PairsOf(m) : q[2] = t
        BY <1>6, <3>1 DEF News
      <3>3. q \in kept
        BY <1>8, <2>1, <3>1, <3>2
      <3>4. QED
        BY <3>2, <3>3
    <2>6. QED
      BY <2>2, <2>3, <2>4, <2>5
  <1>13. goes = News(match.edited \cup match.moved) \cup match.added
    BY <1>5 DEF goes
  <1>14. QED
    BY <1>12, <1>13 DEF pairs, kept, is, m

(* And what is not kept of it in the other comes back.                     *)
LEMMA UnkeptComes ==
    ASSUME NEW one, NEW other, NEW kind, NEW key, NEW l, NEW sections,
           Followable(one, other, kind, key, l, sections)
    PROVE  LET m == Matching(one, other, kind, sections)
               match == MatchSlots(one, other, kind, sections)
               comes == Olds(match.edited \cup match.moved) \cup match.removed
               pairs == IndexPairs(KeptIn(m, key, l))
           IN  \A i \in 1 .. Len(ListAt(one, kind, key, l)) :
                 SlotIn(comes, key, l, i) <=> i \notin Olds(pairs)
  <1> DEFINE m == Matching(one, other, kind, sections)
             match == MatchSlots(one, other, kind, sections)
             was == ListAt(one, kind, key, l)
             common == Keys(one) \cap Keys(other)
             olds == Slots(one, common, kind)
             news == Slots(other, common, kind)
             kept == KeptIn(m, key, l)
             pairs == IndexPairs(kept)
             changed == m.changed \cup m.displaced \cup Reordered(m)
             comes == Olds(changed) \cup m.old
  <1>1. /\ one \in Configs /\ other \in Configs /\ ~PathsCollide(one)
        /\ key \in Keys(one) /\ key \in common
        /\ l \in DOMAIN Lists(View(one, key), kind)
        /\ \A s \in olds : Translated(s, sections) = <<key, l>> <=> Place(s) = <<key, l>>
    BY DEF Followable
  <1>2. Matched(m, olds, news) /\ match = Outcome(m) /\ AlikeInPlace(m, sections)
    BY <1>1, MatchingIs, InPlaceAlike
  <1>3. ASSUME NEW p \in kept PROVE p[1] \in olds /\ Place(p[1]) = <<key, l>>
    <2>1. p \in KeptIn(Matching(one, other, kind, sections), key, l)
      OBVIOUS
    <2>2. KeptPair(one, other, kind, key, l, Matching(one, other, kind, sections), p)
      BY <2>1, KeptInPlace
    <2>3. QED
      BY <2>2 DEF KeptPair
  <1>4. /\ \A s, t \in olds : Place(s) = <<key, l>> /\ Place(t) = <<key, l>> /\ s.index = t.index => s = t
        /\ \A i \in 1 .. Len(was) :
             \E s \in olds : Place(s) = <<key, l>> /\ s.index = i /\ s.card = was[i]
    <2>1. ListedIn(olds, key, l, was)
      BY <1>1, ItemsOfList
    <2> HIDE DEF olds, was
    <2>2. QED
      BY <2>1 DEF ListedIn
  <1> HIDE DEF m, was
  <1>5. match.edited \cup match.moved = changed /\ match.removed = m.old
    BY <1>2 DEF Outcome
  <1>6. /\ OneToOne(PairsOf(m)) /\ m.old = olds \ Olds(PairsOf(m))
        /\ PairsOf(m) \subseteq olds \X news
    BY <1>2 DEF Matched, Matchings, PairsOf
  <1>7. changed \subseteq PairsOf(m) /\ kept \subseteq PairsOf(m) /\ kept \cap changed = {}
    BY DEF PairsOf, KeptIn, KeptPairs, Reordered
  <1>8. ASSUME NEW q \in PairsOf(m), q \notin changed, Place(q[1]) = <<key, l>> PROVE q \in kept
    <2>1. q \in m.inPlace
      BY <1>8 DEF PairsOf
    <2>2. Translated(q[1], sections) = Place(q[2]) /\ q[1] \in olds
      BY <1>2, <1>6, <2>1 DEF AlikeInPlace
    <2>3. Place(q[2]) = <<key, l>>
      BY <1>1, <1>8, <2>2
    <2>4. QED
      BY <1>8, <2>3 DEF KeptIn, KeptPairs
  <1>9. \A j : j \in Olds(pairs) <=> \E p \in kept : p[1].index = j
    <2>1. \A x \in pairs : \E p \in kept : x[1] = p[1].index
      BY DEF IndexPairs
    <2>2. \A p \in kept : \E x \in pairs : x[1] = p[1].index
      <3>1. ASSUME NEW p \in kept PROVE \E x \in pairs : x[1] = p[1].index
        <4>1. <<p[1].index, p[2].index>> \in pairs
          BY DEF IndexPairs
        <4>2. QED
          BY <4>1
      <3>2. QED
        BY <3>1
    <2> HIDE DEF pairs, kept
    <2>3. QED
      BY <2>1, <2>2 DEF Olds
  <1>10. ASSUME NEW t \in olds PROVE t \in comes <=> t \in m.old \/ \E q \in changed : q[1] = t
    BY DEF Olds
  <1>11. comes \subseteq olds
    <2>1. \A q \in changed : q[1] \in olds
      BY <1>6, <1>7
    <2>2. m.old \subseteq olds
      BY <1>6
    <2>3. QED
      BY <2>1, <2>2 DEF Olds
  <1> HIDE DEF kept, changed, comes, pairs, olds, news
  <1>12. ASSUME NEW i \in 1 .. Len(was) PROVE SlotIn(comes, key, l, i) <=> i \notin Olds(pairs)
    <2>1. PICK t \in olds : Place(t) = <<key, l>> /\ t.index = i
      BY <1>4
    <2>2. SlotIn(comes, key, l, i) <=> t \in comes
      BY <1>4, <1>11, <2>1 DEF SlotIn
    <2>3. i \in Olds(pairs) <=> \E p \in kept : p[1] = t
      BY <1>3, <1>4, <1>9, <2>1
    <2>4. ASSUME NEW p \in kept, p[1] = t PROVE t \notin comes
      <3>1. t \notin m.old
        BY <1>6, <1>7, <2>4 DEF Olds
      <3>2. ASSUME NEW q \in changed, q[1] = t PROVE FALSE
        <4>1. p \in PairsOf(m) /\ q \in PairsOf(m) /\ p[2] = q[2]
          BY <1>6, <1>7, <2>4, <3>2 DEF OneToOne
        <4>2. p = <<p[1], p[2]>> /\ q = <<q[1], q[2]>>
          BY <1>6, <4>1
        <4>3. p = q
          BY <2>4, <3>2, <4>1, <4>2
        <4>4. QED
          BY <1>7, <4>3
      <3>3. QED
        BY <1>10, <3>1, <3>2
    <2>5. ASSUME t \notin comes PROVE \E p \in kept : p[1] = t
      <3>1. t \notin m.old /\ \A q \in changed : q[1] # t
        BY <1>10, <2>5
      <3>2. PICK q \in PairsOf(m) : q[1] = t
        BY <1>6, <3>1 DEF Olds
      <3>3. q \in kept
        BY <1>8, <2>1, <3>1, <3>2
      <3>4. QED
        BY <3>2, <3>3
    <2>6. QED
      BY <2>2, <2>3, <2>4, <2>5
  <1>13. comes = Olds(match.edited \cup match.moved) \cup match.removed
    BY <1>5 DEF comes
  <1>14. QED
    BY <1>12, <1>13 DEF pairs, kept, was, m

(* A list of badges is followed by its view.                               *)
LEMMA BadgesFollowed ==
    ASSUME NEW one \in Configs, ~PathsCollide(one), NEW other \in Configs, ~PathsCollide(other),
           NEW key \in Keys(one) \cap Keys(other)
    PROVE  Followable(one, other, "badge", key, 0, [k \in {} |-> {}])
  <1>1. 0 \in DOMAIN Lists(View(one, key), "badge") /\ 0 \in DOMAIN Lists(View(other, key), "badge")
    BY DEF Lists
  <1>2. ASSUME NEW s PROVE Translated(s, [k \in {} |-> {}]) = Place(s)
    BY DEF Translated, Paired
  <1>3. QED
    BY <1>1, <1>2 DEF Followable

(* A list of cards is when it is a view's own or its section kept its      *)
(* place.                                                                  *)
StaysPut(pairs, l) == \E p \in pairs : p.old = l /\ p.new = l

(* Such a list of cards can be followed.                                   *)
LEMMA CardsFollowed ==
    ASSUME NEW one \in Configs, ~PathsCollide(one), NEW other \in Configs, ~PathsCollide(other),
           NEW key \in ComparedViews(one, other), NEW l \in Nat,
           l \in DOMAIN Lists(View(one, key), "card"), l \in DOMAIN Lists(View(other, key), "card"),
           l = 0 \/ StaysPut(PairSections(one, other)[key], l)
    PROVE  Followable(one, other, "card", key, l, PairSections(one, other))
  <1> DEFINE sections == PairSections(one, other)
  <1>1. key \in Keys(one) /\ key \in Keys(other) /\ key \in DOMAIN sections
    BY DEF ComparedViews, PairSections
  <1>2. Couples(sections[key]) /\ \A p \in sections[key] : p.new \in Nat \ {0}
    <2>1. View(one, key).sections \in Seq(Sections) /\ View(other, key).sections \in Seq(Sections)
      BY <1>1, KeyedView
    <2>2. sections[key] = PairViewSections(View(one, key).sections, View(other, key).sections)
      BY DEF PairSections
    <2>3. PairedSections(View(one, key).sections, View(other, key).sections, sections[key])
      BY <2>1, <2>2, SectionsPaired
    <2>4. QED
      BY <2>3 DEF PairedSections
  <1>3. ASSUME NEW s \in Slots(one, Keys(one) \cap Keys(other), "card")
        PROVE  Translated(s, sections) = <<key, l>> <=> Place(s) = <<key, l>>
    <2>1. s.list \in Nat
      BY SlotType
    <2>2. CASE ~(s.list > 0 /\ Paired(s, sections))
      BY <2>2 DEF Translated
    <2>3. CASE s.list > 0 /\ Paired(s, sections)
      <3> DEFINE q == CHOOSE p \in sections[s.key] : p.old = s.list
      <3>1. q \in sections[s.key] /\ q.old = s.list
        BY <2>3 DEF Paired
      <3>2. Translated(s, sections) = <<s.key, q.new>> /\ Place(s) = <<s.key, s.list>>
        BY <2>3 DEF Translated, Place
      <3> HIDE DEF q, sections
      <3>3. CASE s.key # key
        BY <3>2, <3>3
      <3>4. CASE s.key = key
        <4>1. q \in sections[key] /\ q.new # 0 /\ s.list # 0
          BY <1>2, <2>3, <3>1, <3>4, <2>1
        <4>2. q.new = l <=> s.list = l
          BY <1>2, <3>1, <4>1 DEF StaysPut, Couples, sections
        <4>3. QED
          BY <3>2, <3>4, <4>2
      <3>5. QED
        BY <3>3, <3>4
    <2>4. QED
      BY <2>2, <2>3
  <1>4. QED
    BY <1>1, <1>3 DEF Followable

(* A list from which nothing goes and to which nothing comes is the same.  *)
LEMMA NothingUnkept ==
    ASSUME NEW one, NEW other, NEW kind, NEW key, NEW l, NEW sections,
           Followable(one, other, kind, key, l, sections),
           LET match == MatchSlots(one, other, kind, sections)
           IN  /\ \A s \in News(match.edited \cup match.moved) \cup match.added : Place(s) # <<key, l>>
               /\ \A s \in Olds(match.edited \cup match.moved) \cup match.removed : Place(s) # <<key, l>>
    PROVE  ListAt(one, kind, key, l) = ListAt(other, kind, key, l)
  <1> DEFINE was == ListAt(one, kind, key, l)
             is == ListAt(other, kind, key, l)
             pairs == IndexPairs(KeptIn(Matching(one, other, kind, sections), key, l))
             match == MatchSlots(one, other, kind, sections)
             goes == News(match.edited \cup match.moved) \cup match.added
             comes == Olds(match.edited \cup match.moved) \cup match.removed
  <1>1. was \in Seq(Cards) /\ is \in Seq(Cards)
    BY ItemsOfList DEF Followable
  <1>2. Steady(pairs, was, is)
    BY KeptSteady
  <1>3. \A j \in 1 .. Len(is) : SlotIn(goes, key, l, j) <=> j \notin News(pairs)
    BY UnkeptGoes
  <1>4. \A i \in 1 .. Len(was) : SlotIn(comes, key, l, i) <=> i \notin Olds(pairs)
    BY UnkeptComes
  <1>5. /\ \A j \in 1 .. Len(is) : j \in News(pairs)
        /\ \A i \in 1 .. Len(was) : i \in Olds(pairs)
    <2>1. (\A s \in goes : Place(s) # <<key, l>>) /\ (\A s \in comes : Place(s) # <<key, l>>)
      OBVIOUS
    <2> HIDE DEF goes, comes
    <2>2. QED
      BY <1>3, <1>4, <2>1 DEF SlotIn
  <1> DEFINE T == [n \in {0} |-> is]
             none == [n \in {} |-> 0]
  <1> HIDE DEF was, is, pairs, goes, comes
  <1>6. Restoring(Cards, T, 0, was, is, none, none, pairs)
    BY <1>1, <1>2, <1>5 DEF Restoring
  <1>7. T[0] = was
    BY <1>6, Restored
  <1>8. QED
    BY <1>7 DEF was, is

(* The row of sections an undo at once writes: those that stayed, as they  *)
(* are, and the others as they were.                                       *)
StaysOf(pairs) == {p \in pairs : p.how # "settings"}

RowWritten(was, is, pairs) ==
  [s \in DOMAIN was |->
     IF \E p \in StaysOf(pairs) : p.old = s
     THEN is[(CHOOSE p \in StaysOf(pairs) : p.old = s).new] ELSE was[s]]

(* What an undo at once has to do with the sections of a view: nothing, or *)
(* to write that row.                                                      *)
SectionsAgree(change) ==
  change.moved \cup change.reset = {} /\ change.added = {} /\ change.removed = {}

(* The plan for the sections of a view has one step, or none where the two *)
(* states agree on them.                                                   *)
LEMMA SectionsAtOnce ==
    ASSUME NEW one \in Configs, NEW other \in Configs,
           NEW key \in DOMAIN MatchCards(one, other).sections,
           Refused \notin PlanSections(key, MatchCards(one, other), one, other, other)
    PROVE  LET match == MatchCards(one, other)
               change == match.sections[key]
               plan == PlanSections(key, match, one, other, other)
           IN  /\ change.restOld = {} /\ change.restNew = {}
               /\ \/ plan = {} /\ SectionsAgree(change)
                  \/ plan = {SectionsStep(View(other, key), Index(other, key),
                               RowWritten(View(one, key).sections, View(other, key).sections,
                                          change.pairs), FALSE)}
  <1> DEFINE match == MatchCards(one, other)
             change == match.sections[key]
             then == View(one, key)
             now == View(other, key)
             at == Index(other, key)
             stays == {p \in change.pairs : p.how # "settings"}
             Target(s) ==
               IF \E p \in stays : p.old = s
               THEN now.sections[(CHOOSE p \in stays : p.old = s).new]
               ELSE then.sections[s]
             whole == change.moved \cup change.reset = {} /\ change.added = {}
             plan == PlanSections(key, match, one, other, other)
             park == ParkRemovedSection(now, now, at,
                                   then.sections[CHOOSE s \in change.removed : TRUE])
  <1>1. plan =
          IF change.restOld \cup change.restNew # {} THEN {Refused}
          ELSE IF whole /\ change.removed = {} THEN {}
          ELSE IF key \notin Keys(other) THEN {Refused}
          ELSE IF Rearranged(now, now)
          THEN IF whole /\ Cardinality(change.removed) = 1 /\ ~CardEventsIn(match, key)
               THEN park ELSE {Refused}
          ELSE IF TouchedAgain(change, now, now) THEN {Refused}
          ELSE {SectionsStep(now, at, [s \in DOMAIN then.sections |-> Target(s)], FALSE)}
    BY DEF PlanSections
  <1>2. key \in Keys(one) \cap Keys(other)
    BY ChangeIs
  <1>3. now.sections \in Seq(Sections)
    BY <1>2, KeyedView
  <1>4. ~Rearranged(now, now)
    BY <1>3, NotSince
  <1>5. [s \in DOMAIN then.sections |-> Target(s)]
          = RowWritten(then.sections, now.sections, change.pairs)
    BY DEF RowWritten, StaysOf
  <1>6. Refused \notin plan
    OBVIOUS
  <1>7. SectionsAgree(change) <=> whole /\ change.removed = {}
    BY DEF SectionsAgree
  <1> DEFINE row == [s \in DOMAIN then.sections |-> Target(s)]
  <1>8. row = RowWritten(then.sections, now.sections, change.pairs)
    BY <1>5
  <1> HIDE DEF plan, park, row, whole
  <1>9. /\ change.restOld \cup change.restNew = {}
        /\ (whole /\ change.removed = {} /\ plan = {}) \/ plan = {SectionsStep(now, at, row, FALSE)}
    BY <1>1, <1>2, <1>4, <1>6 DEF row
  <1> HIDE DEF now, then, at
  <1>10. QED
    BY <1>7, <1>8, <1>9 DEF plan, now, then, at

(* Where nothing is to be done, the sections are in step.                  *)
InStep(one, other, key) ==
  LET was == View(one, key).sections
      is == View(other, key).sections
  IN  /\ Len(was) = Len(is)
      /\ \A l \in 1 .. Len(was) :
           was[l].own = is[l].own /\ StaysPut(PairSections(one, other)[key], l)

(* Sections that agree are the same sections, in the same order.           *)
LEMMA AgreeInStep ==
    ASSUME NEW one \in Configs, NEW other \in Configs,
           NEW key \in DOMAIN MatchCards(one, other).sections,
           MatchCards(one, other).sections[key].restOld = {},
           MatchCards(one, other).sections[key].restNew = {},
           SectionsAgree(MatchCards(one, other).sections[key])
    PROVE  InStep(one, other, key)
  <1> DEFINE change == MatchCards(one, other).sections[key]
             pairs == PairSections(one, other)[key]
             was == View(one, key).sections
             is == View(other, key).sections
             cards == MatchCards(one, other).cards
  <1>1. key \in DOMAIN PairSections(one, other)
    BY DEF MatchCards, SettleSections
  <1>2. /\ was \in Seq(Sections) /\ is \in Seq(Sections) /\ PairedSections(was, is, pairs)
    BY <1>1, ChangeIs DEF PairSections
  <1>3. /\ change.moved = Moved(pairs) /\ change.reset = {p \in pairs : p.how = "settings"}
        /\ change.restOld = (DOMAIN was \ {p.old : p \in pairs}) \ change.removed
        /\ change.restNew = (DOMAIN is \ {p.new : p \in pairs}) \ change.added
    BY <1>1 DEF MatchCards, SettleSections
  <1> HIDE DEF change, pairs, was, is
  <1>4. /\ change.restOld = {} /\ change.restNew = {} /\ SectionsAgree(change)
    BY DEF change
  <1>5. /\ Moved(pairs) = {} /\ {p \in pairs : p.how = "settings"} = {}
        /\ DOMAIN was \ {p.old : p \in pairs} = {} /\ DOMAIN is \ {p.new : p \in pairs} = {}
    BY <1>3, <1>4 DEF SectionsAgree
  <1>6. /\ Len(was) = Len(is)
        /\ \A p \in pairs : p.old = p.new
        /\ \A i \in DOMAIN was : \E p \in pairs : p.old = i
        /\ \A i \in DOMAIN was : was[i].own = is[i].own
    BY <1>2, <1>5, SectionsInStep
  <1>7. DOMAIN was = 1 .. Len(was)
    BY <1>2, LenProperties
  <1>8. \A l \in 1 .. Len(was) : was[l].own = is[l].own /\ StaysPut(pairs, l)
    BY <1>6, <1>7 DEF StaysPut
  <1>9. QED
    BY <1>6, <1>8 DEF InStep, was, is, pairs

(* What is paired as the same is the same, and what came whole was not     *)
(* paired.                                                                 *)
LEMMA SamePaired ==
    ASSUME NEW old, NEW new, NEW p \in PairViewSections(old, new)
    PROVE  /\ p.how = "same" => old[p.old] = new[p.new]
           /\ p.how = "cards" => p.old = p.new /\ old[p.old].own = new[p.new].own
  <1> DEFINE same == {<<i, i>> : i \in {j \in DOMAIN old \cap DOMAIN new : old[j] = new[j]}}
             found == Aligned(DOMAIN old \ Olds(same), DOMAIN new \ News(same),
                              LAMBDA i : old[i], LAMBDA j : new[j], <, <)
             claimed == same \cup found
             open == (DOMAIN old \ Olds(claimed)) \cap (DOMAIN new \ News(claimed))
             settings == {i \in open : old[i].cards = new[i].cards /\ old[i].own # new[i].own}
             cards == {i \in open : old[i].own = new[i].own /\ old[i].cards # new[i].cards}
  <1>1. \A q \in claimed : old[q[1]] = new[q[2]]
    BY DEF Aligned
  <1>2. PairViewSections(old, new)
          = {[old |-> q[1], new |-> q[2], how |-> "same"] : q \in claimed}
              \cup {[old |-> i, new |-> i, how |-> "settings"] : i \in settings}
              \cup {[old |-> i, new |-> i, how |-> "cards"] : i \in cards}
    BY DEF PairViewSections
  <1>3. \A i \in cards : old[i].own = new[i].own
    OBVIOUS
  <1> HIDE DEF claimed, settings, cards
  <1>4. \/ \E q \in claimed : p = [old |-> q[1], new |-> q[2], how |-> "same"]
        \/ \E i \in settings : p = [old |-> i, new |-> i, how |-> "settings"]
        \/ \E i \in cards : p = [old |-> i, new |-> i, how |-> "cards"]
    BY <1>2
  <1>5. QED
    BY <1>1, <1>3, <1>4

(* A section that is paired neither went nor came.                         *)
LEMMA CameWhole ==
    ASSUME NEW one \in Configs, NEW other \in Configs,
           NEW key \in DOMAIN MatchCards(one, other).sections
    PROVE  LET change == MatchCards(one, other).sections[key]
           IN  /\ change.pairs = PairSections(one, other)[key]
               /\ \A p \in change.pairs : p.old \notin change.removed /\ p.new \notin change.added
               /\ 0 \notin change.removed /\ 0 \notin change.added
  <1> DEFINE change == MatchCards(one, other).sections[key]
             pairs == PairSections(one, other)[key]
             was == View(one, key).sections
             is == View(other, key).sections
             cards == MatchCards(one, other).cards
             restOld == DOMAIN was \ {p.old : p \in pairs}
             restNew == DOMAIN is \ {p.new : p \in pairs}
             fewer == Len(was) - Len(is)
  <1>1. key \in DOMAIN PairSections(one, other)
    BY DEF MatchCards, SettleSections
  <1>2. was \in Seq(Sections) /\ is \in Seq(Sections)
    BY ChangeIs
  <1>3. /\ change.pairs = pairs
        /\ change.removed = IF fewer = 1
                    THEN WholeSections(View(one, key), key, restOld, cards.removed, FALSE) ELSE {}
        /\ change.added = IF fewer = -1
                  THEN WholeSections(View(other, key), key, restNew, cards.added, TRUE) ELSE {}
    BY <1>1 DEF MatchCards, SettleSections
  <1>4. ASSUME NEW view, NEW rest, NEW slots
        PROVE  /\ WholeSections(view, key, rest, slots, FALSE) \subseteq rest
               /\ WholeSections(view, key, rest, slots, TRUE) \subseteq rest
    BY DEF WholeSections
  <1> HIDE DEF change, pairs, was, is, restOld, restNew, fewer, cards
  <1>5. change.removed \subseteq restOld /\ change.added \subseteq restNew
    BY <1>3, <1>4
  <1>6. DOMAIN was = 1 .. Len(was) /\ DOMAIN is = 1 .. Len(is) /\ Len(was) \in Nat /\ Len(is) \in Nat
    BY <1>2, LenProperties
  <1>7. 0 \notin restOld /\ 0 \notin restNew
    BY <1>6 DEF restOld, restNew
  <1>8. \A p \in pairs : p.old \notin restOld /\ p.new \notin restNew
    BY DEF restOld, restNew
  <1>9. QED
    BY <1>3, <1>5, <1>7, <1>8 DEF change, pairs

(* The items an undo at once takes away and gives back.                    *)
CardsGo(one, other) ==
  LET match == MatchCards(one, other)
  IN  News(match.cards.edited \cup match.cards.moved)
        \cup Loose(match.cards.added, match.sections, "added")

CardsCome(one, other) ==
  LET match == MatchCards(one, other)
  IN  Olds(match.cards.edited \cup match.cards.moved)
        \cup Loose(match.cards.removed, match.sections, "removed")

BadgesGo(one, other) ==
  LET badges == MatchBadges(one, other)
  IN  News(badges.edited \cup badges.moved) \cup badges.added

BadgesCome(one, other) ==
  LET badges == MatchBadges(one, other)
  IN  Olds(badges.edited \cup badges.moved) \cup badges.removed

ItemsGo(one, other, kind) == IF kind = "card" THEN CardsGo(one, other) ELSE BadgesGo(one, other)
ItemsCome(one, other, kind) == IF kind = "card" THEN CardsCome(one, other) ELSE BadgesCome(one, other)

(* They are items of the views both have.                                  *)
LEMMA ItemsInCommon ==
    ASSUME NEW one \in Configs, NEW other \in Configs, NEW kind \in {"card", "badge"}
    PROVE  /\ ItemsGo(one, other, kind) \subseteq Slots(other, Keys(one) \cap Keys(other), kind)
           /\ ItemsCome(one, other, kind) \subseteq Slots(one, Keys(one) \cap Keys(other), kind)
  <1> DEFINE olds(k) == Slots(one, Keys(one) \cap Keys(other), k)
             news(k) == Slots(other, Keys(one) \cap Keys(other), k)
  <1>1. ASSUME NEW k, NEW sections
        PROVE  LET match == MatchSlots(one, other, k, sections)
               IN  /\ match.edited \cup match.moved \in SUBSET (olds(k) \X news(k))
                   /\ match.removed \in SUBSET olds(k) /\ match.added \in SUBSET news(k)
    BY OutcomeType
  <1> HIDE DEF olds, news
  <1>2. ASSUME NEW k, NEW pairs \in SUBSET (olds(k) \X news(k))
        PROVE  Olds(pairs) \subseteq olds(k) /\ News(pairs) \subseteq news(k)
    BY DEF Olds, News
  <1>3. CardsGo(one, other) \subseteq news("card") /\ CardsCome(one, other) \subseteq olds("card")
    <2> DEFINE match == MatchCards(one, other)
               pairs == match.cards.edited \cup match.cards.moved
    <2>1. match.cards = MatchSlots(one, other, "card", PairSections(one, other))
      BY DEF MatchCards
    <2>2. /\ pairs \in SUBSET (olds("card") \X news("card"))
          /\ match.cards.removed \in SUBSET olds("card") /\ match.cards.added \in SUBSET news("card")
      BY <1>1, <2>1
    <2>3. Olds(pairs) \subseteq olds("card") /\ News(pairs) \subseteq news("card")
      BY <1>2, <2>2
    <2>4. /\ CardsGo(one, other) = News(pairs) \cup Loose(match.cards.added, match.sections, "added")
          /\ CardsCome(one, other)
               = Olds(pairs) \cup Loose(match.cards.removed, match.sections, "removed")
      BY DEF CardsGo, CardsCome
    <2>5. /\ Loose(match.cards.added, match.sections, "added") \subseteq match.cards.added
          /\ Loose(match.cards.removed, match.sections, "removed") \subseteq match.cards.removed
      BY DEF Loose
    <2> HIDE DEF match, pairs
    <2>6. QED
      BY <2>2, <2>3, <2>4, <2>5
  <1>4. BadgesGo(one, other) \subseteq news("badge") /\ BadgesCome(one, other) \subseteq olds("badge")
    <2> DEFINE match == MatchBadges(one, other)
               pairs == match.edited \cup match.moved
    <2>1. match = MatchSlots(one, other, "badge", [key \in {} |-> {}])
      BY DEF MatchBadges
    <2>2. /\ pairs \in SUBSET (olds("badge") \X news("badge"))
          /\ match.removed \in SUBSET olds("badge") /\ match.added \in SUBSET news("badge")
      BY <1>1, <2>1
    <2>3. Olds(pairs) \subseteq olds("badge") /\ News(pairs) \subseteq news("badge")
      BY <1>2, <2>2
    <2>4. /\ BadgesGo(one, other) = News(pairs) \cup match.added
          /\ BadgesCome(one, other) = Olds(pairs) \cup match.removed
      BY DEF BadgesGo, BadgesCome
    <2> HIDE DEF match, pairs
    <2>5. QED
      BY <2>2, <2>3, <2>4
  <1>5. kind = "card" \/ (kind = "badge" /\ kind # "card")
    OBVIOUS
  <1>6. QED
    BY <1>3, <1>4, <1>5 DEF olds, news, ItemsGo, ItemsCome

(* An undo of a change, at once.                                           *)
AtOnce(one, other) == one \in Configs /\ other \in Configs /\ ~PlanUndo(one, other, other).blocked

SectionsPlan(one, other, key) == PlanSections(key, MatchCards(one, other), one, other, other)
SectionsWritten(one, other) ==
  UNION {SectionsPlan(one, other, key) : key \in DOMAIN MatchCards(one, other).sections}

ItemsWritten(one, other, kind) ==
  ItemSteps(kind, one, other, ItemsGo(one, other, kind), ItemsCome(one, other, kind))

(* Its plan.                                                               *)
LEMMA PlanAtOnce ==
    ASSUME NEW one, NEW other, AtOnce(one, other)
    PROVE  LET plan == PlanUndo(one, other, other)
           IN  /\ ~PathsCollide(one) /\ ~PathsCollide(other)
               /\ ComparedViews(one, other) = Keys(one) \cap Keys(other)
               /\ DOMAIN MatchCards(one, other).sections = Keys(one) \cap Keys(other)
               /\ plan.settings = PlanSettingSteps(one, other, other)
               /\ plan.settings # {Refused}
               /\ plan.steps = SectionsWritten(one, other)
                                 \cup ItemsWritten(one, other, "card")
                                 \cup ItemsWritten(one, other, "badge")
                                 \cup PlanViewSteps(one, other, other)
               /\ \A key \in DOMAIN MatchCards(one, other).sections :
                    Refused \notin SectionsPlan(one, other, key)
               /\ PlanViewSteps(one, other, other) # {Refused}
               /\ \A s \in SectionsWritten(one, other), c \in ItemsWritten(one, other, "card") :
                    ~SameView(c, s)
  <1> DEFINE match == MatchCards(one, other)
             sections == PlanSectionSteps(match, one, other, other)
             settings == PlanSettingSteps(one, other, other)
             cards == PlanCardSteps(match, one, other, other)
             badges == PlanBadgeSteps(MatchBadges(one, other), one, other, other)
             views == PlanViewSteps(one, other, other)
             meet == \E s \in sections, c \in cards : SameView(c, s)
             plan == PlanUndo(one, other, other)
  <1>1. plan = IF Gated(one, other, other)
                    \/ {Refused} \in {sections, settings, cards, badges, views} \/ meet
               THEN [blocked |-> TRUE]
               ELSE [blocked |-> FALSE, settings |-> settings,
                     steps |-> sections \cup cards \cup badges \cup views]
    BY DEF PlanUndo
  <1>2. one \in Configs /\ other \in Configs /\ ~plan.blocked
    BY DEF AtOnce
  <1> HIDE DEF plan, sections, settings, cards, badges, views
  <1>3. /\ ~Gated(one, other, other) /\ ~meet
        /\ {Refused} \notin {sections, settings, cards, badges, views}
        /\ plan.settings = settings /\ plan.steps = sections \cup cards \cup badges \cup views
    BY <1>1, <1>2
  <1>4. ~PathsCollide(one) /\ ~PathsCollide(other) /\ ~ViewTypeChanged(one, other)
    BY <1>3 DEF Gated
  <1>5. ComparedViews(one, other) = Keys(one) \cap Keys(other)
    BY <1>4 DEF ViewTypeChanged, ComparedViews
  <1>6. DOMAIN match.sections = Keys(one) \cap Keys(other)
    BY <1>5 DEF MatchCards, SettleSections, PairSections
  <1>7. sections = SectionsWritten(one, other) /\ Refused \notin SectionsWritten(one, other)
    <2>1. sections = Settled(SectionsWritten(one, other))
      BY DEF sections, PlanSectionSteps, SectionsWritten, SectionsPlan
    <2>2. QED
      BY <1>3, <2>1 DEF Settled
  <1>8. cards = ItemsWritten(one, other, "card")
    <2> DEFINE keys == Keys(one) \cap Keys(other)
               changed == match.cards.edited \cup match.cards.moved
               added == Loose(match.cards.added, match.sections, "added")
               removed == Loose(match.cards.removed, match.sections, "removed")
    <2>1. cards = PlanItems("card", changed, added, removed, one, other, other, {})
      BY NoDrift DEF cards, PlanCardSteps
    <2>2. /\ changed \in SUBSET (Slots(one, keys, "card") \X Slots(other, keys, "card"))
          /\ match.cards.removed \in SUBSET Slots(one, keys, "card")
          /\ match.cards.added \in SUBSET Slots(other, keys, "card")
      BY <1>2, OutcomeType DEF MatchCards
    <2>3. added \in SUBSET Slots(other, keys, "card") /\ removed \in SUBSET Slots(one, keys, "card")
      BY <2>2 DEF Loose
    <2>4. /\ ItemsGo(one, other, "card") = News(changed) \cup added
          /\ ItemsCome(one, other, "card") = Olds(changed) \cup removed
      BY DEF ItemsGo, ItemsCome, CardsGo, CardsCome
    <2> HIDE DEF changed, added, removed, keys
    <2>5. cards = ItemSteps("card", one, other, News(changed) \cup added, Olds(changed) \cup removed)
      BY <1>2, <1>3, <2>1, <2>2, <2>3, ItemsPlannedAtOnce
    <2>6. QED
      BY <2>4, <2>5 DEF ItemsWritten
  <1>9. badges = ItemsWritten(one, other, "badge")
    <2> DEFINE keys == Keys(one) \cap Keys(other)
               found == MatchBadges(one, other)
               changed == found.edited \cup found.moved
    <2>1. badges = PlanItems("badge", changed, found.added, found.removed, one, other, other, {})
      BY DEF badges, PlanBadgeSteps
    <2>2. /\ changed \in SUBSET (Slots(one, keys, "badge") \X Slots(other, keys, "badge"))
          /\ found.removed \in SUBSET Slots(one, keys, "badge")
          /\ found.added \in SUBSET Slots(other, keys, "badge")
      BY <1>2, OutcomeType DEF MatchBadges
    <2>4. /\ ItemsGo(one, other, "badge") = News(changed) \cup found.added
          /\ ItemsCome(one, other, "badge") = Olds(changed) \cup found.removed
      BY DEF ItemsGo, ItemsCome, BadgesGo, BadgesCome
    <2> HIDE DEF changed, found, keys
    <2>5. badges = ItemSteps("badge", one, other, News(changed) \cup found.added,
                             Olds(changed) \cup found.removed)
      BY <1>2, <1>3, <2>1, <2>2, ItemsPlannedAtOnce
    <2>6. QED
      BY <2>4, <2>5 DEF ItemsWritten
  <1>10. \A key \in DOMAIN match.sections : Refused \notin SectionsPlan(one, other, key)
    BY <1>7 DEF SectionsWritten
  <1>11. QED
    BY <1>3, <1>4, <1>5, <1>6, <1>7, <1>8, <1>9, <1>10 DEF plan, views, settings

(* Where a planned item stands.                                            *)
LEMMA StandsAt ==
    ASSUME NEW config \in Configs, ~PathsCollide(config), NEW keys, NEW kind,
           NEW t \in Slots(config, keys, kind)
    PROVE  /\ t.key \in keys /\ t.key \in Keys(config)
           /\ t.at \in DOMAIN config.views /\ t.at = Index(config, t.key)
           /\ config.views[t.at].path = t.key[1]
           /\ t.key[1] = None => t.key = <<None, t.at>>
           /\ t.list \in DOMAIN Lists(View(config, t.key), kind)
           /\ t.index \in 1 .. Len(ListAt(config, kind, t.key, t.list))
           /\ t.card = ListAt(config, kind, t.key, t.list)[t.index]
           /\ t.card \in Cards /\ t.list \in Nat /\ t.index \in Nat \ {0}
  <1>1. /\ IsPlace(config, kind, t.at, t.list, t.index)
        /\ t = SlotAt(config, kind, t.at, t.list, t.index)
        /\ t.key = Key(config, t.at) /\ t.key \in keys
        /\ t.card = Lists(config.views[t.at], kind)[t.list][t.index]
    BY SlotIs
  <1>2. t.at \in DOMAIN config.views /\ t.list \in DOMAIN Lists(config.views[t.at], kind)
    BY <1>1 DEF IsPlace
  <1>3. /\ t.key \in Keys(config) /\ Index(config, t.key) = t.at
        /\ View(config, t.key) = config.views[t.at] /\ config.views[t.at].path = t.key[1]
    BY <1>1, <1>2, KeyNamesOne
  <1>4. t.key[1] = None => t.key = <<None, t.at>>
    BY <1>1, <1>3 DEF Key
  <1>5. t \in Slots(config, Keys(config), kind)
    BY SlotPresent DEF Present
  <1>6. Place(t) = <<t.key, t.list>>
    BY DEF Place
  <1>7. /\ t.index \in 1 .. Len(ListAt(config, kind, t.key, t.list))
        /\ t.card = ListAt(config, kind, t.key, t.list)[t.index]
    <2>1. ListedIn(Slots(config, Keys(config), kind), t.key, t.list, ListAt(config, kind, t.key, t.list))
      BY <1>2, <1>3, ItemsOfList
    <2>2. QED
      BY <1>5, <1>6, <2>1 DEF ListedIn
  <1>8. t.card \in Cards /\ t.list \in Nat /\ t.index \in Nat \ {0}
    BY SlotType
  <1>9. QED
    BY <1>1, <1>2, <1>3, <1>4, <1>7, <1>8

(* A view's row of sections is not written next to its cards.              *)
LEMMA RowAlone ==
    ASSUME NEW one, NEW other, AtOnce(one, other), NEW key, NEW row,
           key \in Keys(one) \cap Keys(other),
           SectionsPlan(one, other, key)
             = {SectionsStep(View(other, key), Index(other, key), row, FALSE)},
           NEW t \in ItemsGo(one, other, "card") \cup ItemsCome(one, other, "card")
    PROVE  t.key # key
  <1> DEFINE s == SectionsStep(View(other, key), Index(other, key), row, FALSE)
  <1>1. /\ one \in Configs /\ other \in Configs /\ ~PathsCollide(one) /\ ~PathsCollide(other)
        /\ \A a \in SectionsWritten(one, other), c \in ItemsWritten(one, other, "card") :
             ~SameView(c, a)
        /\ key \in DOMAIN MatchCards(one, other).sections
    BY PlanAtOnce DEF AtOnce
  <1>2. s \in SectionsWritten(one, other)
    BY <1>1 DEF SectionsWritten
  <1>3. s.path = key[1] /\ s.at = Index(other, key)
    BY <1>1, ViewNamed DEF SectionsStep
  <1> HIDE DEF s
  <1>4. ASSUME t.key = key, NEW c \in ItemsWritten(one, other, "card"), c.path = key[1],
               key[1] = None => c.at = s.at
        PROVE  FALSE
    <2>1. ~SameView(c, s)
      BY <1>1, <1>2, <1>4
    <2>2. QED
      BY <1>3, <1>4, <2>1 DEF SameView
  <1>5. CASE t \in ItemsGo(one, other, "card")
    <2> DEFINE c == Step("remove", "card", other, t)
    <2>1. c \in ItemsWritten(one, other, "card")
      BY <1>5 DEF ItemsWritten, ItemSteps
    <2>2. t \in Slots(other, Keys(one) \cap Keys(other), "card")
      BY <1>1, <1>5, ItemsInCommon
    <2>3. other.views[t.at].path = t.key[1] /\ t.at = Index(other, t.key)
      BY <1>1, <2>2, StandsAt
    <2>4. c.path = t.key[1] /\ c.at = Index(other, t.key)
      BY <2>3 DEF Step
    <2> HIDE DEF c
    <2>5. QED
      BY <1>3, <1>4, <2>1, <2>4
  <1>6. CASE t \in ItemsCome(one, other, "card")
    <2> DEFINE c == Step("insert", "card", one, t)
    <2>1. c \in ItemsWritten(one, other, "card")
      BY <1>6 DEF ItemsWritten, ItemSteps
    <2>2. t \in Slots(one, Keys(one) \cap Keys(other), "card")
      BY <1>1, <1>6, ItemsInCommon
    <2>3. one.views[t.at].path = t.key[1] /\ (t.key[1] = None => t.key = <<None, t.at>>)
      BY <1>1, <2>2, StandsAt
    <2>4. c.path = t.key[1] /\ c.at = t.at
      BY <2>3 DEF Step
    <2> HIDE DEF c
    <2>5. ASSUME key[1] = None, t.key = key PROVE Index(other, key) = t.at
      <3>1. Key(other, Index(other, key)) = key /\ Index(other, key) \in DOMAIN other.views
        BY <1>1, ViewNamed
      <3>2. other.views[Index(other, key)].path = None
        BY <1>1, <2>5, <3>1, KeyNamesOne
      <3>3. key = <<None, Index(other, key)>>
        BY <3>1, <3>2 DEF Key
      <3>4. key = <<None, t.at>>
        BY <2>3, <2>5
      <3>5. QED
        BY <3>3, <3>4
    <2>6. QED
      BY <1>3, <1>4, <2>1, <2>4, <2>5
  <1>7. QED
    BY <1>5, <1>6

(* A list of such a view whose section, if it sits in one, was paired in   *)
(* its place, is what it was.                                              *)
LEMMA NothingNear ==
    ASSUME NEW one, NEW other, AtOnce(one, other), NEW key \in Keys(one) \cap Keys(other),
           \A t \in ItemsGo(one, other, "card") \cup ItemsCome(one, other, "card") : t.key # key,
           NEW l \in Nat,
           l \in DOMAIN Lists(View(one, key), "card"), l \in DOMAIN Lists(View(other, key), "card"),
           l = 0 \/ StaysPut(PairSections(one, other)[key], l)
    PROVE  ListAt(one, "card", key, l) = ListAt(other, "card", key, l)
  <1> DEFINE match == MatchCards(one, other)
             change == match.sections[key]
             pairs == PairSections(one, other)
             cards == MatchSlots(one, other, "card", pairs)
  <1>1. /\ one \in Configs /\ other \in Configs /\ ~PathsCollide(one) /\ ~PathsCollide(other)
        /\ key \in ComparedViews(one, other) /\ key \in DOMAIN match.sections
    BY PlanAtOnce DEF AtOnce
  <1>2. Followable(one, other, "card", key, l, pairs)
    BY <1>1, CardsFollowed
  <1>3. l \notin change.removed /\ l \notin change.added
    <2>1. /\ change.pairs = pairs[key]
          /\ \A p \in change.pairs : p.old \notin change.removed /\ p.new \notin change.added
          /\ 0 \notin change.removed /\ 0 \notin change.added
      BY <1>1, CameWhole
    <2> HIDE DEF change, pairs
    <2>2. QED
      BY <2>1 DEF StaysPut, pairs
  <1>4. match.cards = cards
    BY DEF MatchCards
  <1> HIDE DEF cards, pairs, match
  <1>5. ASSUME NEW s \in News(cards.edited \cup cards.moved) \cup cards.added
        PROVE  Place(s) # <<key, l>>
    <2>1. CASE s \in News(cards.edited \cup cards.moved)
      <3>1. s \in ItemsGo(one, other, "card")
        BY <1>4, <2>1 DEF ItemsGo, CardsGo, match
      <3>2. QED
        BY <3>1 DEF Place
    <2>2. CASE s \in cards.added /\ Place(s) = <<key, l>>
      <3>1. s.key = key /\ s.list = l
        BY <2>2 DEF Place
      <3>2. s \in Loose(match.cards.added, match.sections, "added")
        BY <1>3, <1>4, <2>2, <3>1 DEF Loose
      <3>3. s \in ItemsGo(one, other, "card")
        BY <3>2 DEF ItemsGo, CardsGo, match
      <3>4. QED
        BY <3>1, <3>3
    <2>3. QED
      BY <1>5, <2>1, <2>2
  <1>6. ASSUME NEW s \in Olds(cards.edited \cup cards.moved) \cup cards.removed
        PROVE  Place(s) # <<key, l>>
    <2>1. CASE s \in Olds(cards.edited \cup cards.moved)
      <3>1. s \in ItemsCome(one, other, "card")
        BY <1>4, <2>1 DEF ItemsCome, CardsCome, match
      <3>2. QED
        BY <3>1 DEF Place
    <2>2. CASE s \in cards.removed /\ Place(s) = <<key, l>>
      <3>1. s.key = key /\ s.list = l
        BY <2>2 DEF Place
      <3>2. s \in Loose(match.cards.removed, match.sections, "removed")
        BY <1>3, <1>4, <2>2, <3>1 DEF Loose
      <3>3. s \in ItemsCome(one, other, "card")
        BY <3>2 DEF ItemsCome, CardsCome, match
      <3>4. QED
        BY <3>1, <3>3
    <2>3. QED
      BY <1>6, <2>1, <2>2
  <1>7. QED
    BY <1>2, <1>5, <1>6, NothingUnkept DEF cards

(* The step that writes a view's row of sections as it was, and the views  *)
(* that have one.                                                          *)
Row(one, other, key) ==
  SectionsStep(View(other, key), Index(other, key), View(one, key).sections, FALSE)

Written(one, other) == {key \in Keys(one) \cap Keys(other) : SectionsPlan(one, other, key) # {}}

(* The step that writes a row as far as the sections that stayed allow.    *)
RowPlanned(one, other, key) ==
  SectionsStep(View(other, key), Index(other, key),
    RowWritten(View(one, key).sections, View(other, key).sections,
               MatchCards(one, other).sections[key].pairs), FALSE)

(* The plan for the sections of a view is that step, where they differ.    *)
LEMMA RowIsPlanned ==
    ASSUME NEW one \in Configs, NEW other \in Configs,
           NEW key \in DOMAIN MatchCards(one, other).sections,
           Refused \notin SectionsPlan(one, other, key)
    PROVE  /\ MatchCards(one, other).sections[key].restOld = {}
           /\ MatchCards(one, other).sections[key].restNew = {}
           /\ SectionsPlan(one, other, key) = {RowPlanned(one, other, key)}
                \/ (SectionsPlan(one, other, key) = {}
                       /\ SectionsAgree(MatchCards(one, other).sections[key]))
  <1> DEFINE change == MatchCards(one, other).sections[key]
             plan == PlanSections(key, MatchCards(one, other), one, other, other)
             step == SectionsStep(View(other, key), Index(other, key),
                       RowWritten(View(one, key).sections, View(other, key).sections,
                                  change.pairs), FALSE)
  <1>1. Refused \notin PlanSections(key, MatchCards(one, other), one, other, other)
    BY DEF SectionsPlan
  <1>2. /\ change.restOld = {} /\ change.restNew = {}
        /\ (plan = {} /\ SectionsAgree(change)) \/ plan = {step}
    BY <1>1, SectionsAtOnce
  <1>3. SectionsPlan(one, other, key) = plan /\ RowPlanned(one, other, key) = step
    BY DEF SectionsPlan, RowPlanned
  <1> HIDE DEF plan, step, change
  <1>4. /\ change.restOld = {} /\ change.restNew = {}
        /\ SectionsPlan(one, other, key) = {RowPlanned(one, other, key)}
             \/ (SectionsPlan(one, other, key) = {} /\ SectionsAgree(change))
    BY <1>2, <1>3
  <1>5. QED
    BY <1>4 DEF change

(* A row of sections that is written is the row as it was, and the view's  *)
(* own cards are as they were already.                                     *)
LEMMA RowGoesBack ==
    ASSUME NEW one, NEW other, AtOnce(one, other), NEW key \in Written(one, other)
    PROVE  /\ SectionsPlan(one, other, key) = {Row(one, other, key)}
           /\ View(one, key).cards = View(other, key).cards
           /\ \A t \in ItemsGo(one, other, "card") \cup ItemsCome(one, other, "card") : t.key # key
  <1> DEFINE change == MatchCards(one, other).sections[key]
             was == View(one, key).sections
             is == View(other, key).sections
             row == RowWritten(was, is, change.pairs)
             stays == StaysOf(change.pairs)
             pairs == PairSections(one, other)[key]
             plan == SectionsPlan(one, other, key)
  <1>0. key \in Keys(one) \cap Keys(other) /\ plan # {}
    BY DEF Written
  <1>1. /\ one \in Configs /\ other \in Configs /\ ~PathsCollide(one) /\ ~PathsCollide(other)
        /\ key \in ComparedViews(one, other) /\ key \in DOMAIN MatchCards(one, other).sections
        /\ Refused \notin plan
    BY <1>0, PlanAtOnce DEF AtOnce
  <1>2. plan = {SectionsStep(View(other, key), Index(other, key), row, FALSE)}
    <2>1. plan = {RowPlanned(one, other, key)}
      BY <1>0, <1>1, RowIsPlanned
    <2>2. QED
      BY <2>1 DEF RowPlanned
  <1>3. \A t \in ItemsGo(one, other, "card") \cup ItemsCome(one, other, "card") : t.key # key
    <2> HIDE DEF plan, row
    <2>1. key \in Keys(one) \cap Keys(other)
      BY <1>0
    <2>2. QED
      BY <1>2, <2>1, RowAlone DEF plan
  <1>4. /\ was \in Seq(Sections) /\ is \in Seq(Sections) /\ PairedSections(was, is, pairs)
        /\ change.pairs = pairs /\ pairs = PairViewSections(was, is)
    BY <1>1, ChangeIs, CameWhole
  <1>5. /\ DOMAIN was = 1 .. Len(was) /\ DOMAIN is = 1 .. Len(is)
        /\ Len(was) \in Nat /\ Len(is) \in Nat
        /\ \A s \in DOMAIN was : was[s] \in Sections /\ \A t \in DOMAIN is : is[t] \in Sections
    BY <1>4, LenProperties, ElementOfSeq
  <1>6. /\ DOMAIN Lists(View(one, key), "card") = 0 .. Len(was)
        /\ DOMAIN Lists(View(other, key), "card") = 0 .. Len(is)
        /\ \A l \in 1 .. Len(was) : ListAt(one, "card", key, l) = was[l].cards
        /\ \A l \in 1 .. Len(is) : ListAt(other, "card", key, l) = is[l].cards
        /\ ListAt(one, "card", key, 0) = View(one, key).cards
        /\ ListAt(other, "card", key, 0) = View(other, key).cards
    <2>1. 0 \in 0 .. Len(was) /\ 0 \in 0 .. Len(is)
      BY <1>5
    <2>2. ASSUME NEW view, NEW n \in Nat, n = Len(view.sections)
          PROVE  /\ DOMAIN Lists(view, "card") = 0 .. n
                 /\ \A l \in 1 .. n : Lists(view, "card")[l] = view.sections[l].cards
                 /\ Lists(view, "card")[0] = view.cards
      BY <2>2 DEF Lists
    <2> HIDE DEF was, is
    <2>3. /\ DOMAIN Lists(View(one, key), "card") = 0 .. Len(was)
          /\ \A l \in 1 .. Len(was) : Lists(View(one, key), "card")[l] = was[l].cards
          /\ Lists(View(one, key), "card")[0] = View(one, key).cards
      BY <1>5, <2>2 DEF was
    <2>4. /\ DOMAIN Lists(View(other, key), "card") = 0 .. Len(is)
          /\ \A l \in 1 .. Len(is) : Lists(View(other, key), "card")[l] = is[l].cards
          /\ Lists(View(other, key), "card")[0] = View(other, key).cards
      BY <1>5, <2>2 DEF is
    <2>5. QED
      BY <2>3, <2>4 DEF ListAt
  <1> HIDE DEF was, is, change, plan, row, stays, pairs
  <1>7. View(one, key).cards = View(other, key).cards
    BY <1>0, <1>3, <1>5, <1>6, NothingNear
  <1>8. ASSUME NEW s \in DOMAIN was, NEW q \in pairs, q.old = s, q.how # "settings"
        PROVE  is[q.new] = was[s]
    <2>1. q.how \in {"same", "cards"} /\ q.new \in DOMAIN is
      BY <1>4, <1>5, <1>8 DEF PairedSections
    <2>2. q.how = "same" => was[q.old] = is[q.new]
      BY <1>4, SamePaired
    <2>3. ASSUME q.how = "cards" PROVE is[q.new] = was[s]
      <3>1. q.old = q.new /\ was[q.old].own = is[q.new].own
        BY <1>4, <2>3, SamePaired
      <3>2. StaysPut(PairSections(one, other)[key], s)
        BY <1>8, <3>1 DEF StaysPut, pairs
      <3>3. s \in 1 .. Len(was) /\ s \in 1 .. Len(is) /\ s \in Nat
        BY <1>5, <1>8, <2>1, <3>1
      <3>4. s \in DOMAIN Lists(View(one, key), "card") /\ s \in DOMAIN Lists(View(other, key), "card")
        BY <1>5, <1>6, <3>3
      <3>5. ListAt(one, "card", key, s) = ListAt(other, "card", key, s)
        BY <1>0, <1>3, <3>2, <3>3, <3>4, NothingNear
      <3>6. was[s].cards = is[s].cards /\ was[s].own = is[s].own
        BY <1>6, <1>8, <3>1, <3>3, <3>5
      <3>7. was[s] \in Sections /\ is[s] \in Sections
        BY <1>5, <3>3
      <3>8. was[s] = is[s]
        BY <3>6, <3>7 DEF Sections
      <3>9. QED
        BY <1>8, <3>1, <3>8
    <2>4. QED
      BY <1>8, <2>1, <2>2, <2>3
  <1>9. ASSUME NEW s \in DOMAIN was PROVE row[s] = was[s]
    <2>1. row[s] = IF \E p \in stays : p.old = s
                   THEN is[(CHOOSE p \in stays : p.old = s).new] ELSE was[s]
      BY DEF row, RowWritten, stays
    <2>2. ASSUME \E p \in stays : p.old = s
          PROVE  is[(CHOOSE p \in stays : p.old = s).new] = was[s]
      <3> DEFINE q == CHOOSE p \in stays : p.old = s
      <3>1. q \in stays /\ q.old = s
        BY <2>2
      <3>2. q \in pairs /\ q.how # "settings"
        BY <1>4, <3>1 DEF stays, StaysOf
      <3> HIDE DEF q
      <3>3. is[q.new] = was[s]
        BY <1>8, <3>1, <3>2
      <3>4. QED
        BY <3>3 DEF q
    <2>3. QED
      BY <2>1, <2>2
  <1>10. row = was
    <2>1. DOMAIN row = DOMAIN was /\ row = [s \in DOMAIN was |-> row[s]]
      BY DEF row, RowWritten
    <2>2. was = [s \in DOMAIN was |-> was[s]]
      BY <1>4, <1>5
    <2>3. QED
      BY <1>9, <2>1, <2>2
  <1>11. QED
    BY <1>2, <1>3, <1>7, <1>10 DEF plan, was, Row

(* A list from which goes, and to which comes, exactly what the matching   *)
(* did not keep.                                                           *)
Undoable(one, other, kind, key, l, pairs) ==
  LET was == ListAt(one, kind, key, l)
      is == ListAt(other, kind, key, l)
  IN  /\ was \in Seq(Cards) /\ is \in Seq(Cards) /\ Steady(pairs, was, is)
      /\ \A j \in 1 .. Len(is) : SlotIn(ItemsGo(one, other, kind), key, l, j) <=> j \notin News(pairs)
      /\ \A i \in 1 .. Len(was) : SlotIn(ItemsCome(one, other, kind), key, l, i) <=> i \notin Olds(pairs)

(* The badges of a view both states have can be taken back.                *)
LEMMA BadgesUndoable ==
    ASSUME NEW one, NEW other, AtOnce(one, other), NEW key \in Keys(one) \cap Keys(other)
    PROVE  \E pairs : Undoable(one, other, "badge", key, 0, pairs)
  <1> DEFINE none == [k \in {} |-> {}]
             was == ListAt(one, "badge", key, 0)
             is == ListAt(other, "badge", key, 0)
             pairs == IndexPairs(KeptIn(Matching(one, other, "badge", none), key, 0))
             match == MatchSlots(one, other, "badge", none)
             goes == News(match.edited \cup match.moved) \cup match.added
             comes == Olds(match.edited \cup match.moved) \cup match.removed
  <1>1. one \in Configs /\ other \in Configs /\ ~PathsCollide(one) /\ ~PathsCollide(other)
    BY PlanAtOnce DEF AtOnce
  <1>2. Followable(one, other, "badge", key, 0, none)
    BY <1>1, BadgesFollowed
  <1>3. was \in Seq(Cards) /\ is \in Seq(Cards)
    BY <1>2, ItemsOfList DEF Followable
  <1>4. Steady(pairs, was, is)
    BY <1>2, KeptSteady
  <1>5. \A j \in 1 .. Len(is) : SlotIn(goes, key, 0, j) <=> j \notin News(pairs)
    BY <1>2, UnkeptGoes
  <1>6. \A i \in 1 .. Len(was) : SlotIn(comes, key, 0, i) <=> i \notin Olds(pairs)
    BY <1>2, UnkeptComes
  <1>7. ItemsGo(one, other, "badge") = goes /\ ItemsCome(one, other, "badge") = comes
    BY DEF ItemsGo, ItemsCome, BadgesGo, BadgesCome, MatchBadges
  <1> HIDE DEF was, is, pairs, goes, comes
  <1>8. Undoable(one, other, "badge", key, 0, pairs)
    BY <1>3, <1>4, <1>5, <1>6, <1>7 DEF Undoable, was, is
  <1>9. QED
    BY <1>8

(* So can the cards of each of its lists, where no section is to be        *)
(* written.                                                                *)
LEMMA CardsUndoable ==
    ASSUME NEW one, NEW other, AtOnce(one, other), NEW key \in Keys(one) \cap Keys(other),
           SectionsPlan(one, other, key) = {}
    PROVE  /\ InStep(one, other, key)
           /\ \A l \in 0 .. Len(View(one, key).sections) :
                \E pairs : Undoable(one, other, "card", key, l, pairs)
  <1> DEFINE change == MatchCards(one, other).sections[key]
             sections == PairSections(one, other)
             match == MatchSlots(one, other, "card", sections)
             goes == News(match.edited \cup match.moved) \cup match.added
             comes == Olds(match.edited \cup match.moved) \cup match.removed
  <1>1. /\ one \in Configs /\ other \in Configs /\ ~PathsCollide(one) /\ ~PathsCollide(other)
        /\ key \in ComparedViews(one, other) /\ key \in DOMAIN MatchCards(one, other).sections
        /\ Refused \notin SectionsPlan(one, other, key)
        /\ ItemsGo(one, other, "card") \subseteq Slots(other, Keys(one) \cap Keys(other), "card")
        /\ ItemsCome(one, other, "card") \subseteq Slots(one, Keys(one) \cap Keys(other), "card")
    BY PlanAtOnce, ItemsInCommon DEF AtOnce
  <1>2. change.restOld = {} /\ change.restNew = {} /\ SectionsAgree(change)
    BY <1>1, RowIsPlanned
  <1>3. InStep(one, other, key)
    BY <1>1, <1>2, AgreeInStep
  <1>4. /\ Len(View(one, key).sections) = Len(View(other, key).sections)
        /\ Len(View(one, key).sections) \in Nat
        /\ \A l \in 1 .. Len(View(one, key).sections) : StaysPut(sections[key], l)
    <2>1. View(one, key).sections \in Seq(Sections)
      BY <1>1, KeyedView
    <2>2. QED
      BY <1>3, <2>1, LenProperties DEF InStep
  <1>5. MatchCards(one, other).cards = match
    BY DEF MatchCards
  <1>6. /\ \A s : Place(s)[1] = s.key /\ Place(s)[2] = s.list
        /\ change.removed = {} /\ change.added = {}
    BY <1>2 DEF Place, SectionsAgree
  <1>7. ASSUME NEW s, s.key = key
        PROVE  /\ s \in ItemsGo(one, other, "card") <=> s \in goes
               /\ s \in ItemsCome(one, other, "card") <=> s \in comes
    <2> DEFINE all == MatchCards(one, other)
    <2>1. /\ s \in Loose(all.cards.added, all.sections, "added") <=> s \in all.cards.added
          /\ s \in Loose(all.cards.removed, all.sections, "removed") <=> s \in all.cards.removed
      BY <1>6, <1>7 DEF Loose
    <2>2. QED
      BY <1>5, <2>1 DEF ItemsGo, ItemsCome, CardsGo, CardsCome
  <1> HIDE DEF goes, comes, sections, match, change
  <1>8. ASSUME NEW l, NEW j
        PROVE  /\ SlotIn(ItemsGo(one, other, "card"), key, l, j) <=> SlotIn(goes, key, l, j)
               /\ SlotIn(ItemsCome(one, other, "card"), key, l, j) <=> SlotIn(comes, key, l, j)
    <2>1. ASSUME NEW s, Place(s) = <<key, l>> PROVE s.key = key
      BY <1>6, <2>1
    <2>2. QED
      BY <1>7, <2>1 DEF SlotIn
  <1>9. ASSUME NEW l \in 0 .. Len(View(one, key).sections)
        PROVE  \E pairs : Undoable(one, other, "card", key, l, pairs)
    <2> DEFINE was == ListAt(one, "card", key, l)
               is == ListAt(other, "card", key, l)
               pairs == IndexPairs(KeptIn(Matching(one, other, "card", sections), key, l))
    <2>1. l \in DOMAIN Lists(View(one, key), "card") /\ l \in DOMAIN Lists(View(other, key), "card")
      BY <1>4 DEF Lists
    <2>2. l \in Nat /\ (l = 0 \/ StaysPut(PairSections(one, other)[key], l))
      BY <1>4 DEF sections
    <2>3. Followable(one, other, "card", key, l, sections)
      BY <1>1, <2>1, <2>2, CardsFollowed DEF sections
    <2>4. was \in Seq(Cards) /\ is \in Seq(Cards)
      BY <2>3, ItemsOfList DEF Followable
    <2>5. Steady(pairs, was, is)
      BY <2>3, KeptSteady
    <2>6. \A j \in 1 .. Len(is) : SlotIn(goes, key, l, j) <=> j \notin News(pairs)
      BY <2>3, UnkeptGoes DEF goes, match
    <2>7. \A i \in 1 .. Len(was) : SlotIn(comes, key, l, i) <=> i \notin Olds(pairs)
      BY <2>3, UnkeptComes DEF comes, match
    <2> HIDE DEF was, is, pairs
    <2>8. Undoable(one, other, "card", key, l, pairs)
      BY <1>8, <2>4, <2>5, <2>6, <2>7 DEF Undoable, was, is
    <2>9. QED
      BY <2>8
  <1>10. QED
    BY <1>3, <1>9

(* A plan carried out, one step after another.                             *)
Carried(c, order, plan, config) ==
  /\ Ordered(order, plan.steps, ByTurn(plan.steps))
  /\ Len(order) \in Nat
  /\ c[0] = WriteSettings(config, plan.settings)
  /\ \A n \in 0 .. Len(order) : c[n] \in Configs
  /\ \A n \in 1 .. Len(order) : order[n] \in plan.steps /\ c[n] \in CarryOut(c[n - 1], order[n])

(* What an undo leads to, it leads to step after step.                     *)
LEMMA CarriedOut ==
    ASSUME NEW config \in Configs, NEW plan, ~plan.blocked, SoundPlan(plan),
           NEW result \in ApplyUndo(config, plan)
    PROVE  \E order, c : Carried(c, order, plan, config) /\ c[Len(order)] = result
  <1> DEFINE steps == InOrder(plan.steps, ByTurn(plan.steps))
             N == Len(steps)
             Go(n, boards) == UNION {CarryOut(standing, steps[n]) : standing \in boards}
             done == CHOOSE f : f = [n \in 0 .. N |-> IF n = 0 THEN {WriteSettings(config, plan.settings)}
                                                      ELSE Go(n, f[n - 1])]
             h == [n \in 1 .. N |-> [boards \in SUBSET Configs |-> Go(n, boards)]]
             first == WriteSettings(config, plan.settings)
             b == {first}
  <1>1. ApplyUndo(config, plan) = done[N]
    BY DEF ApplyUndo, ByTurn
  <1>2. IsFiniteSet(plan.steps) /\ Strict(plan.steps, ByTurn(plan.steps))
    BY TurnsStrict DEF SoundPlan
  <1>3. Ordered(steps, plan.steps, ByTurn(plan.steps))
    BY <1>2, InOrderIs
  <1> HIDE DEF steps
  <1>4. N \in Nat /\ \A n \in 1 .. N : steps[n] \in plan.steps /\ Sound(steps[n])
    <2>1. steps \in Seq(plan.steps) /\ \A s \in plan.steps : Sound(s)
      BY <1>3 DEF Ordered, SoundPlan
    <2>2. QED
      BY <2>1, LenProperties, ElementOfSeq
  <1>5. first \in Configs /\ b \in SUBSET Configs
    BY WriteSettingsType DEF SoundPlan
  <1>6. ASSUME NEW n \in 1 .. N, NEW boards \in SUBSET Configs PROVE Go(n, boards) \in SUBSET Configs
    BY <1>4, CarryOutType
  <1> HIDE DEF b
  <1>7. ASSUME NEW n \in 1 .. N, NEW boards, NEW d \in Go(n, boards)
        PROVE  \E e \in boards : d \in CarryOut(e, steps[n])
    OBVIOUS
  <1> HIDE DEF Go
  <1>8. Stepping(SUBSET Configs, b, N, h)
    BY <1>4, <1>5, <1>6 DEF Stepping
  <1>9. PICK f : Iterates(SUBSET Configs, b, N, h, f)
    <2> HIDE DEF h, N
    <2>1. QED
      BY <1>8, IteratedExists
  <1>10. f = [n \in 0 .. N |-> IF n = 0 THEN b ELSE Go(n, f[n - 1])]
    <2> HIDE DEF N
    <2>1. \A n \in 1 .. N : n - 1 \in 0 .. N
      BY <1>4
    <2>2. \A n \in 1 .. N : h[n][f[n - 1]] = Go(n, f[n - 1])
      BY <1>9, <2>1 DEF Iterates
    <2>3. \A n \in 0 .. N : n # 0 => n \in 1 .. N
      BY <1>4
    <2> HIDE DEF h
    <2>4. \A n \in 0 .. N : f[n] = IF n = 0 THEN b ELSE Go(n, f[n - 1])
      BY <1>9, <2>2, <2>3 DEF Iterates
    <2>5. QED
      BY <1>9, <2>4 DEF Iterates
  <1>11. done = [n \in 0 .. N |-> IF n = 0 THEN b ELSE Go(n, done[n - 1])]
    <2> HIDE DEF N
    <2>1. QED
      BY <1>10 DEF b
  <1> HIDE DEF h, done, N
  <1>12. done[0] = b /\ \A n \in 1 .. N : done[n] = Go(n, done[n - 1])
    <2>1. 0 \in 0 .. N /\ \A n \in 1 .. N : n \in 0 .. N /\ n # 0
      BY <1>4
    <2>2. QED
      BY <1>11, <2>1
  <1> HIDE DEF first
  <1> DEFINE Led(n, d, c) ==
               /\ c[0] = first /\ c[n] = d
               /\ \A m \in 0 .. n : c[m] \in Configs
               /\ \A m \in 1 .. n : c[m] \in CarryOut(c[m - 1], steps[m])
             G == {n \in 0 .. N : \A d \in done[n] : \E c : Led(n, d, c)}
  <1>13. 0 \in G
    <2>1. ASSUME NEW d \in done[0] PROVE \E c : Led(0, d, c)
      <3> DEFINE c == [m \in {0} |-> first]
      <3>1. d = first
        BY <1>12 DEF b
      <3>2. Led(0, d, c)
        BY <1>5, <3>1
      <3>3. QED
        BY <3>2
    <2>2. QED
      BY <1>4, <2>1
  <1>14. ASSUME NEW n \in 1 .. N, n - 1 \in G PROVE n \in G
    <2>1. ASSUME NEW d \in done[n] PROVE \E c : Led(n, d, c)
      <3>1. PICK e \in done[n - 1] : d \in CarryOut(e, steps[n])
        BY <1>7, <1>12
      <3>2. PICK c : Led(n - 1, e, c)
        BY <1>14, <3>1
      <3>3. e \in Configs
        BY <1>4, <3>2
      <3>4. d \in Configs
        BY <1>4, <3>1, <3>3, CarryOutType
      <3> DEFINE f2 == [m \in 0 .. n |-> IF m = n THEN d ELSE c[m]]
      <3>5. /\ n \in Nat /\ n - 1 \in Nat /\ 0 \in 0 .. n /\ n \in 0 .. n /\ n # 0
            /\ \A m \in 1 .. n : m = n \/ m \in 1 .. n - 1
            /\ \A m \in 0 .. n : m = n \/ m \in 0 .. n - 1
            /\ \A m \in 1 .. n : m - 1 \in 0 .. n /\ m - 1 # n /\ m \in 0 .. n
        BY <1>4
      <3>6. f2[0] = first /\ f2[n] = d
        BY <3>2, <3>5
      <3>7. \A m \in 0 .. n : f2[m] \in Configs
        BY <3>2, <3>4, <3>5
      <3>8. ASSUME NEW m \in 1 .. n PROVE f2[m] \in CarryOut(f2[m - 1], steps[m])
        <4>1. f2[m - 1] = c[m - 1]
          BY <3>5
        <4>2. CASE m = n
          BY <3>1, <3>2, <3>6, <4>1, <4>2
        <4>3. CASE m # n
          <5>1. m \in 1 .. n - 1 /\ f2[m] = c[m]
            BY <3>5, <4>3
          <5>2. QED
            BY <3>2, <4>1, <5>1
        <4>4. QED
          BY <4>2, <4>3
      <3>9. Led(n, d, f2)
        BY <3>6, <3>7, <3>8
      <3>10. QED
        BY <3>9
    <2>2. n \in 0 .. N
      BY <1>4
    <2>3. QED
      BY <2>1, <2>2
  <1> HIDE DEF G
  <1>15. \A n \in 0 .. N : n \in G
    BY <1>4, <1>13, <1>14, UpTo
  <1>16. N \in G
    BY <1>4, <1>15
  <1>17. \E c : Led(N, result, c)
    BY <1>1, <1>16 DEF G
  <1>18. PICK c : Led(N, result, c)
    BY <1>17
  <1>19. Carried(c, steps, plan, config) /\ c[Len(steps)] = result
    BY <1>3, <1>4, <1>18 DEF Carried, N, first
  <1>20. QED
    BY <1>19

(* A step finds the view its key names.                                    *)
LEMMA FoundByKey ==
    ASSUME NEW config \in Configs, ~PathsCollide(config), NEW key \in Keys(config),
           NEW s, s.path = key[1], key[1] = None => key = <<None, s.at>>
    PROVE  FindView(config, s) = {Index(config, key)}
  <1> DEFINE v == Index(config, key)
  <1>1. v \in DOMAIN config.views /\ Key(config, v) = key /\ DOMAIN config.views = 1 .. Len(config.views)
        /\ Len(config.views) \in Nat
    BY ViewNamed, ViewsAre
  <1>2. config.views[v].path = key[1]
    BY <1>1, KeyNamesOne
  <1> HIDE DEF v
  <1>3. CASE key[1] = None
    <2>1. key = <<None, v>>
      BY <1>1, <1>2, <1>3 DEF Key
    <2>2. s.at = v
      BY <1>3, <2>1
    <2>3. QED
      BY <1>1, <1>3, <2>2 DEF FindView, v
  <1>4. CASE key[1] # None
    <2>1. \A w \in DOMAIN config.views : config.views[w].path = key[1] => w = v
      BY <1>1, <1>2, <1>4 DEF PathsCollide
    <2>2. \A w \in 1 .. v - 1 : config.views[w].path # key[1]
      BY <1>1, <2>1
    <2>3. FindView(config, s) = {w \in DOMAIN config.views :
            config.views[w].path = key[1] /\ \A u \in 1 .. w - 1 : config.views[u].path # key[1]}
      BY <1>4 DEF FindView
    <2>4. QED
      BY <1>1, <1>2, <2>1, <2>2, <2>3 DEF v
  <1>5. QED
    BY <1>3, <1>4

(* One list of a view written, and nothing else.                           *)
ListWritten(new, view, kind, l, items) ==
  /\ new \in Views /\ new.path = view.path /\ new.layout = view.layout /\ new.title = view.title
  /\ Len(new.sections) = Len(view.sections)
  /\ \A s \in 1 .. Len(view.sections) : new.sections[s].own = view.sections[s].own
  /\ kind = "badge" => new.sections = view.sections /\ new.cards = view.cards
  /\ \A k \in {"card", "badge"}, j \in Nat :
       j \in DOMAIN Lists(view, k) =>
         /\ j \in DOMAIN Lists(new, k)
         /\ Lists(new, k)[j] = IF k = kind /\ j = l THEN items ELSE Lists(view, k)[j]

(* Putting a list into a view writes that list and no other.               *)
LEMMA OneListWritten ==
    ASSUME NEW view \in Views, NEW kind \in {"card", "badge"}, NEW l \in DOMAIN Lists(view, kind),
           NEW items \in Seq(Cards)
    PROVE  ListWritten(WithLists(view, kind, [Lists(view, kind) EXCEPT ![l] = items]),
                       view, kind, l, items)
  <1> DEFINE lists == [Lists(view, kind) EXCEPT ![l] = items]
             new == WithLists(view, kind, lists)
  <1>1. Lists(view, kind) \in [ListsOf(view, kind) -> Seq(Cards)]
    BY ListsType
  <1>2. lists \in [ListsOf(view, kind) -> Seq(Cards)] /\ DOMAIN lists = ListsOf(view, kind)
    BY <1>1
  <1>3. new \in Views
    BY <1>2, WithListsType
  <1>4. /\ DOMAIN Lists(view, kind) = ListsOf(view, kind)
        /\ \A j \in ListsOf(view, kind) :
             lists[j] = IF j = l THEN items ELSE Lists(view, kind)[j]
    BY <1>1
  <1>5. /\ view.cards \in Seq(Cards) /\ view.badges \in Seq(Cards)
        /\ view.sections \in Seq(Sections) /\ Len(view.sections) \in Nat
        /\ DOMAIN view.sections = 1 .. Len(view.sections)
        /\ DOMAIN view = {"path", "layout", "title", "cards", "badges", "sections"}
    BY ViewIs DEF Views
  <1> HIDE DEF lists
  <1>6. CASE kind = "badge"
    <2>1. new = [view EXCEPT !.badges = lists[0]]
      BY <1>6 DEF WithLists
    <2>2. ListsOf(view, kind) = {0} /\ l = 0 /\ lists[0] = items
      BY <1>4, <1>6 DEF ListsOf
    <2>3. /\ new.path = view.path /\ new.layout = view.layout /\ new.title = view.title
          /\ new.sections = view.sections /\ new.cards = view.cards /\ new.badges = items
      BY <1>5, <2>1, <2>2
    <2> HIDE DEF new
    <2>4. ASSUME NEW k \in {"card", "badge"}, NEW j \in Nat, j \in DOMAIN Lists(view, k)
          PROVE  /\ j \in DOMAIN Lists(new, k)
                 /\ Lists(new, k)[j] = IF k = kind /\ j = l THEN items ELSE Lists(view, k)[j]
      <3>1. CASE k = "badge"
        BY <1>6, <2>2, <2>3, <2>4, <3>1 DEF Lists
      <3>2. CASE k = "card"
        <4>1. Lists(new, k) = Lists(view, k)
          BY <2>3, <3>2 DEF Lists
        <4>2. QED
          BY <1>6, <2>4, <3>2, <4>1
      <3>3. QED
        BY <3>1, <3>2
    <2>5. QED
      BY <1>3, <2>3, <2>4 DEF ListWritten, new, lists
  <1>7. CASE kind = "card"
    <2>1. new = [view EXCEPT !.cards = lists[0],
                    !.sections = [s \in DOMAIN view.sections |-> Section(view.sections[s].own, lists[s])]]
      BY <1>7 DEF WithLists
    <2>2. /\ new.path = view.path /\ new.layout = view.layout /\ new.title = view.title
          /\ new.badges = view.badges
          /\ new.sections = [s \in DOMAIN view.sections |-> Section(view.sections[s].own, lists[s])]
      BY <1>5, <2>1
    <2>3. Lists(new, "card") = lists
      BY <1>2, <1>7, ListsWritten
    <2>4. new.sections \in Seq(Sections) /\ DOMAIN new.sections = 1 .. Len(new.sections)
          /\ Len(new.sections) \in Nat
      BY <1>3, ViewIs
    <2>5. Len(new.sections) = Len(view.sections)
      <3>1. DOMAIN new.sections = DOMAIN view.sections
        BY <2>2
      <3> HIDE DEF new
      <3>2. 1 .. Len(new.sections) = 1 .. Len(view.sections)
        BY <1>5, <2>4, <3>1
      <3>3. QED
        BY <1>5, <2>4, <3>2
    <2> HIDE DEF new
    <2>6. \A s \in 1 .. Len(view.sections) : new.sections[s].own = view.sections[s].own
      BY <1>5, <2>2 DEF Section
    <2>7. ASSUME NEW k \in {"card", "badge"}, NEW j \in Nat, j \in DOMAIN Lists(view, k)
          PROVE  /\ j \in DOMAIN Lists(new, k)
                 /\ Lists(new, k)[j] = IF k = kind /\ j = l THEN items ELSE Lists(view, k)[j]
      <3>1. CASE k = "card"
        BY <1>2, <1>4, <1>7, <2>3, <2>7, <3>1
      <3>2. CASE k = "badge"
        <4>1. Lists(new, k) = Lists(view, k)
          BY <2>2, <3>2 DEF Lists
        <4>2. QED
          BY <1>7, <2>7, <3>2, <4>1
      <3>3. QED
        BY <3>1, <3>2
    <2>8. QED
      BY <1>3, <1>7, <2>2, <2>5, <2>6, <2>7 DEF ListWritten, new, lists
  <1>8. QED
    BY <1>6, <1>7

(* One view written in its place: the keys are what they were.             *)
LEMMA OneViewWritten ==
    ASSUME NEW config \in Configs, ~PathsCollide(config), NEW key \in Keys(config),
           NEW view \in Views, view.path = View(config, key).path
    PROVE  LET new == Within(config, Index(config, key), view)
           IN  /\ new \in Configs /\ ~PathsCollide(new) /\ new.title = config.title
               /\ Keys(new) = Keys(config)
               /\ Len(new.views) = Len(config.views)
               /\ \A v \in 1 .. Len(config.views) : new.views[v].path = config.views[v].path
               /\ \A k \in Keys(config) : Index(new, k) = Index(config, k)
               /\ View(new, key) = view
               /\ \A k \in Keys(config) : k # key => View(new, k) = View(config, k)
  <1> DEFINE at == Index(config, key)
             new == Within(config, at, view)
  <1>1. at \in DOMAIN config.views /\ Key(config, at) = key
    BY ViewNamed
  <1>2. /\ config.views \in Seq(Views) /\ Len(config.views) \in Nat
        /\ DOMAIN config.views = 1 .. Len(config.views)
        /\ DOMAIN config = {"title", "views"}
    BY ViewsAre DEF Configs
  <1>3. new \in Configs
    BY <1>1, WithinType DEF Within
  <1>4. /\ new.title = config.title /\ DOMAIN new.views = DOMAIN config.views
        /\ new.views[at] = view
        /\ \A v \in DOMAIN config.views : v # at => new.views[v] = config.views[v]
    BY <1>1, <1>2 DEF Within
  <1>5. DOMAIN new.views = 1 .. Len(new.views) /\ Len(new.views) \in Nat
    BY <1>3, ViewsAre
  <1>6. View(config, key) = config.views[at]
    BY DEF View
  <1> HIDE DEF new, at
  <1>7. Len(new.views) = Len(config.views)
    <2>1. 1 .. Len(new.views) = 1 .. Len(config.views)
      BY <1>2, <1>4, <1>5
    <2>2. QED
      BY <1>2, <1>5, <2>1
  <1>8. \A v \in DOMAIN config.views : new.views[v].path = config.views[v].path
    BY <1>4, <1>6
  <1>9. \A v \in DOMAIN config.views : Key(new, v) = Key(config, v)
    BY <1>8 DEF Key
  <1>10. Keys(new) = Keys(config)
    BY <1>4, <1>9 DEF Keys
  <1>11. ~PathsCollide(new)
    BY <1>4, <1>8 DEF PathsCollide
  <1>12. ASSUME NEW k \in Keys(config) PROVE Index(new, k) = Index(config, k)
    <2>1. Index(config, k) \in DOMAIN config.views /\ Key(config, Index(config, k)) = k
      BY ViewNamed
    <2>2. Key(new, Index(config, k)) = k /\ Index(config, k) \in DOMAIN new.views
      BY <1>4, <1>9, <2>1
    <2>3. QED
      BY <1>3, <1>11, <2>2, KeyNamesOne
  <1>13. View(new, key) = view
    BY <1>4, <1>12 DEF View, at
  <1>14. ASSUME NEW k \in Keys(config), k # key PROVE View(new, k) = View(config, k)
    <2>1. Index(config, k) \in DOMAIN config.views /\ Key(config, Index(config, k)) = k
      BY ViewNamed
    <2>2. Index(config, k) # at
      BY <1>1, <1>14, <2>1
    <2>3. QED
      BY <1>4, <1>12, <2>1, <2>2 DEF View
  <1>15. QED
    BY <1>2, <1>3, <1>4, <1>7, <1>8, <1>10, <1>11, <1>12, <1>13, <1>14 DEF new, at

(* Two dashboards with the same row of views.                              *)
SameRow(config, new) ==
  /\ new \in Configs /\ ~PathsCollide(new) /\ new.title = config.title
  /\ Keys(new) = Keys(config)
  /\ Len(new.views) = Len(config.views)
  /\ \A v \in 1 .. Len(config.views) : new.views[v].path = config.views[v].path
  /\ \A k \in Keys(config) : Index(new, k) = Index(config, k)

(* The second differs from the first in one view.                          *)
DiffersIn(config, new, key) ==
  /\ SameRow(config, new)
  /\ \A k \in Keys(config) : k # key => View(new, k) = View(config, k)

(* A step that names a view by its key.                                    *)
Names(s, key) == s.path = key[1] /\ (key[1] = None => key = <<None, s.at>>)

(* A step that takes an item, and one that gives one back.                 *)
TakesItem(s) == s.kind \in {"card", "badge"} /\ s.action = "remove" /\ s.parked = FALSE

GivesItem(s) ==
  /\ s.kind \in {"card", "badge"} /\ s.action = "insert" /\ s.parked = FALSE
  /\ s.index \in Nat \ {0} /\ s.item \in Cards

(* One list written in one view.                                           *)
LEMMA ListInView ==
    ASSUME NEW config \in Configs, ~PathsCollide(config), NEW key \in Keys(config),
           NEW kind \in {"card", "badge"}, NEW l \in DOMAIN Lists(View(config, key), kind),
           NEW items \in Seq(Cards), NEW new,
           new = WithList(config, Index(config, key), kind, l, items)
    PROVE  /\ DiffersIn(config, new, key)
           /\ ListWritten(View(new, key), View(config, key), kind, l, items)
  <1> DEFINE at == Index(config, key)
             view == WithLists(View(config, key), kind, [Lists(View(config, key), kind) EXCEPT ![l] = items])
  <1>1. View(config, key) \in Views
    BY ViewNamed
  <1>2. ListWritten(view, View(config, key), kind, l, items)
    BY <1>1, OneListWritten
  <1>3. new = Within(config, at, view)
    BY DEF WithList, View
  <1> HIDE DEF view
  <1>4. view \in Views /\ view.path = View(config, key).path
    BY <1>2 DEF ListWritten
  <1>5. DiffersIn(config, new, key) /\ View(new, key) = view
    BY <1>3, <1>4, OneViewWritten DEF DiffersIn, SameRow
  <1>6. QED
    BY <1>2, <1>5

(* An item taken from its list.                                            *)
LEMMA ItemTaken ==
    ASSUME NEW config \in Configs, ~PathsCollide(config), NEW key \in Keys(config),
           NEW s, TakesItem(s), Names(s, key),
           NEW new \in CarryOut(config, s)
    PROVE  LET items == ListAt(config, s.kind, key, s.list)
           IN  /\ s.list \in DOMAIN Lists(View(config, key), s.kind)
               /\ items \in Seq(Cards)
               /\ s.index \in 1 .. Len(items) /\ items[s.index] = s.item
               /\ DiffersIn(config, new, key)
               /\ ListWritten(View(new, key), View(config, key), s.kind, s.list, RemoveAt(items, s.index))
  <1> DEFINE at == Index(config, key)
             items == ListAt(config, s.kind, key, s.list)
  <1>0. s.kind \in {"card", "badge"} /\ s.action = "remove" /\ s.parked = FALSE
    BY DEF TakesItem
  <1> USE <1>0
  <1>1. CarryOut(config, s) = TakeItem(config, s)
    BY DEF CarryOut, ItemKinds
  <1>2. FindView(config, s) = {at} /\ at \in DOMAIN config.views
    BY FoundByKey, ViewNamed DEF Names
  <1> HIDE DEF at
  <1>3. /\ s.list \in DOMAIN Lists(config.views[at], s.kind)
        /\ s.index \in DOMAIN Lists(config.views[at], s.kind)[s.list]
        /\ Lists(config.views[at], s.kind)[s.list][s.index] = s.item
        /\ new = WithList(config, at, s.kind, s.list,
                          RemoveAt(Lists(config.views[at], s.kind)[s.list], s.index))
    BY <1>1, <1>2 DEF TakeItem
  <1>4. View(config, key) = config.views[at] /\ items = Lists(config.views[at], s.kind)[s.list]
    BY DEF View, ListAt, at
  <1>5. items \in Seq(Cards)
    <2>1. Lists(config.views[at], s.kind)[s.list] \in Seq(Cards)
      <3>1. at \in DOMAIN config.views /\ s.list \in DOMAIN Lists(config.views[at], s.kind)
        BY <1>2, <1>3
      <3>2. QED
        BY <3>1, ListType
    <2>2. QED
      BY <1>4, <2>1
  <1>6. s.index \in 1 .. Len(items)
    BY <1>3, <1>4, <1>5, LenProperties
  <1>7. RemoveAt(items, s.index) \in Seq(Cards)
    BY <1>5, <1>6, RemoveAtIs
  <1>8. new = WithList(config, at, s.kind, s.list, RemoveAt(items, s.index))
    BY <1>3, <1>4
  <1> HIDE DEF items
  <1>9. /\ DiffersIn(config, new, key)
        /\ ListWritten(View(new, key), View(config, key), s.kind, s.list, RemoveAt(items, s.index))
    BY <1>3, <1>4, <1>7, <1>8, ListInView DEF at
  <1>10. QED
    BY <1>3, <1>4, <1>5, <1>6, <1>9 DEF items

(* An item put into its list.                                              *)
LEMMA ItemPut ==
    ASSUME NEW config \in Configs, ~PathsCollide(config), NEW key \in Keys(config),
           NEW s, GivesItem(s), Names(s, key),
           NEW new \in CarryOut(config, s)
    PROVE  LET items == ListAt(config, s.kind, key, s.list)
           IN  /\ s.list \in DOMAIN Lists(View(config, key), s.kind)
               /\ items \in Seq(Cards)
               /\ DiffersIn(config, new, key)
               /\ ListWritten(View(new, key), View(config, key), s.kind, s.list,
                              PutAt(items, s.index, s.item))
  <1> DEFINE at == Index(config, key)
             items == ListAt(config, s.kind, key, s.list)
  <1>0. s.kind \in {"card", "badge"} /\ s.action = "insert" /\ s.parked = FALSE
        /\ s.index \in Nat \ {0} /\ s.item \in Cards
    BY DEF GivesItem
  <1> USE <1>0
  <1>1. CarryOut(config, s) = PutItem(config, s)
    BY DEF CarryOut, ItemKinds
  <1>2. FindView(config, s) = {at} /\ at \in DOMAIN config.views
    BY FoundByKey, ViewNamed DEF Names
  <1> HIDE DEF at
  <1>3. /\ s.list \in DOMAIN Lists(config.views[at], s.kind)
        /\ new = WithList(config, at, s.kind, s.list,
                          PutAt(Lists(config.views[at], s.kind)[s.list], s.index, s.item))
    BY <1>1, <1>2 DEF PutItem
  <1>4. View(config, key) = config.views[at] /\ items = Lists(config.views[at], s.kind)[s.list]
    BY DEF View, ListAt, at
  <1>5. items \in Seq(Cards)
    <2>1. Lists(config.views[at], s.kind)[s.list] \in Seq(Cards)
      <3>1. at \in DOMAIN config.views /\ s.list \in DOMAIN Lists(config.views[at], s.kind)
        BY <1>2, <1>3
      <3>2. QED
        BY <3>1, ListType
    <2>2. QED
      BY <1>4, <2>1
  <1>7. PutAt(items, s.index, s.item) \in Seq(Cards)
    BY <1>5, PutAtIs
  <1>8. new = WithList(config, at, s.kind, s.list, PutAt(items, s.index, s.item))
    BY <1>3, <1>4
  <1> HIDE DEF items
  <1>9. /\ DiffersIn(config, new, key)
        /\ ListWritten(View(new, key), View(config, key), s.kind, s.list, PutAt(items, s.index, s.item))
    BY <1>3, <1>4, <1>7, <1>8, ListInView DEF at
  <1>10. QED
    BY <1>3, <1>4, <1>5, <1>9 DEF items

(* A row of sections written.                                              *)
LEMMA RowPut ==
    ASSUME NEW config \in Configs, ~PathsCollide(config), NEW key \in Keys(config),
           NEW s, s.kind = "sections", Names(s, key), s.item \in Seq(Sections),
           NEW new \in CarryOut(config, s)
    PROVE  /\ View(config, key).sections = s.standing
           /\ DiffersIn(config, new, key)
           /\ View(new, key) = [View(config, key) EXCEPT !.sections = s.item]
  <1> DEFINE at == Index(config, key)
             view == [View(config, key) EXCEPT !.sections = s.item]
  <1>1. CarryOut(config, s) = WriteSections(config, s)
    BY DEF CarryOut, ItemKinds
  <1>2. FindView(config, s) = {at} /\ at \in DOMAIN config.views
    BY FoundByKey, ViewNamed DEF Names
  <1>3. View(config, key) \in Views
    BY ViewNamed
  <1>4. view \in Views /\ view.path = View(config, key).path
    BY <1>3 DEF Views
  <1> HIDE DEF at
  <1>5. /\ config.views[at].sections = s.standing
        /\ new = [config EXCEPT !.views[at].sections = s.item]
    BY <1>1, <1>2 DEF WriteSections
  <1>6. View(config, key) = config.views[at]
    BY DEF View, at
  <1>7. new = Within(config, at, view)
    BY <1>2, <1>5, <1>6 DEF Within
  <1> HIDE DEF view
  <1>8. DiffersIn(config, new, key) /\ View(new, key) = view
    BY <1>4, <1>7, OneViewWritten DEF DiffersIn, SameRow, at
  <1>9. QED
    BY <1>5, <1>6, <1>8 DEF view

(* The paths of the views, in their order.                                 *)
PathRow(config) == [v \in 1 .. Len(config.views) |-> config.views[v].path]

(* It is a row of paths, as long as the row of views.                      *)
LEMMA PathRowIs ==
    ASSUME NEW config \in Configs
    PROVE  /\ PathRow(config) \in Seq(Paths \cup {None}) /\ Len(PathRow(config)) = Len(config.views)
           /\ \A v \in 1 .. Len(config.views) : PathRow(config)[v] = config.views[v].path
  <1>1. /\ Len(config.views) \in Nat
        /\ \A v \in 1 .. Len(config.views) : config.views[v] \in Views
    BY ViewsAre
  <1>2. PathRow(config) \in [1 .. Len(config.views) -> Paths \cup {None}]
    BY <1>1 DEF PathRow, Views
  <1>3. QED
    BY <1>1, <1>2, RowOf DEF PathRow

(* Where every view has a path, the key is the path.                       *)
LEMMA KeyedByPath ==
    ASSUME NEW config \in Configs, ~Pathless(config)
    PROVE  /\ \A v \in DOMAIN config.views :
                config.views[v].path # None /\ Key(config, v) = <<config.views[v].path, 0>>
           /\ \A k \in Keys(config) : k = <<k[1], 0>> /\ k[1] # None
  BY DEF Pathless, Key, Keys

(* Two rows of views, each view of the one at a place of its own in the    *)
(* other.                                                                  *)
LEMMA Regrouped ==
    ASSUME NEW config \in Configs, ~PathsCollide(config), ~Pathless(config), NEW new \in Configs,
           NEW f, \A j \in DOMAIN new.views :
                    f[j] \in DOMAIN config.views /\ new.views[j] = config.views[f[j]],
           \A i, j \in DOMAIN new.views : f[i] = f[j] => i = j
    PROVE  /\ ~PathsCollide(new) /\ ~Pathless(new)
           /\ \A k : k \in Keys(new) <=> \E j \in DOMAIN new.views : k = Key(config, f[j])
           /\ \A k \in Keys(new) : k \in Keys(config) /\ View(new, k) = View(config, k)
  <1>1. ~Pathless(new)
    BY DEF Pathless
  <1>2. ~PathsCollide(new)
    BY DEF PathsCollide
  <1>3. \A j \in DOMAIN new.views : Key(new, j) = Key(config, f[j])
    BY DEF Key, Pathless
  <1>4. ASSUME NEW k \in Keys(new) PROVE k \in Keys(config) /\ View(new, k) = View(config, k)
    <2>1. PICK j \in DOMAIN new.views : k = Key(new, j)
      BY DEF Keys
    <2>2. View(new, k) = new.views[j]
      BY <1>2, <2>1, KeyNamesOne
    <2>3. k = Key(config, f[j]) /\ f[j] \in DOMAIN config.views
      BY <1>3, <2>1
    <2>4. View(config, k) = config.views[f[j]] /\ k \in Keys(config)
      BY <2>3, KeyNamesOne
    <2>5. QED
      BY <2>2, <2>4
  <1>5. \A k : k \in Keys(new) <=> \E j \in DOMAIN new.views : k = Key(config, f[j])
    BY <1>3 DEF Keys
  <1>6. QED
    BY <1>1, <1>2, <1>4, <1>5

(* A view taken from the row.                                              *)
RowLess(config, new, key) ==
  /\ key \in Keys(config)
  /\ new \in Configs /\ ~PathsCollide(new) /\ ~Pathless(new) /\ new.title = config.title
  /\ Keys(new) = Keys(config) \ {key}
  /\ \A k \in Keys(new) : View(new, k) = View(config, k)
  /\ PathRow(new) = RemoveAt(PathRow(config), Index(config, key))
  /\ Index(config, key) \in 1 .. Len(config.views)

(* Removing the view from the row is that.                                 *)
LEMMA RowWithout ==
    ASSUME NEW config \in Configs, ~PathsCollide(config), ~Pathless(config), NEW key \in Keys(config)
    PROVE  RowLess(config, [config EXCEPT !.views = RemoveAt(@, Index(config, key))], key)
  <1> DEFINE i == Index(config, key)
             old == config.views
             n == Len(old)
             row == RemoveAt(old, i)
             new == [config EXCEPT !.views = row]
  <1>1. i \in DOMAIN old /\ Key(config, i) = key
    BY ViewNamed
  <1>2. old \in Seq(Views) /\ n \in Nat /\ DOMAIN old = 1 .. n
    BY ViewsAre
  <1>3. i \in 1 .. n
    BY <1>1, <1>2
  <1> HIDE DEF i
  <1>4. row \in Seq(Views) /\ Len(row) = n - 1
    BY <1>2, <1>3, RemoveAtIs
  <1>5. ASSUME NEW j \in 1 .. n - 1 PROVE row[j] = IF j < i THEN old[j] ELSE old[j + 1]
    BY <1>2, <1>3, AfterRemoval
  <1> HIDE DEF row
  <1>6. new \in Configs /\ new.views = row /\ new.title = config.title
    BY <1>4, ViewsWritten DEF Configs
  <1>7. DOMAIN new.views = 1 .. n - 1 /\ Len(new.views) = n - 1 /\ n - 1 \in Nat
    BY <1>4, <1>6, ViewsAre
  <1> DEFINE f == [j \in 1 .. n - 1 |-> IF j < i THEN j ELSE j + 1]
  <1>8. /\ \A j \in 1 .. n - 1 : f[j] \in 1 .. n /\ f[j] # i /\ row[j] = old[f[j]]
        /\ \A j, m \in 1 .. n - 1 : f[j] = f[m] => j = m
        /\ \A v \in 1 .. n : v # i => \E j \in 1 .. n - 1 : f[j] = v
    <2>1. n \in Nat /\ i \in Nat /\ i \in 1 .. n
      BY <1>2, <1>3
    <2>2. ASSUME NEW j \in 1 .. n - 1 PROVE f[j] \in 1 .. n /\ f[j] # i /\ row[j] = old[f[j]]
      BY <1>5, <2>1
    <2> HIDE DEF n, i
    <2>3. ASSUME NEW j \in 1 .. n - 1, NEW m \in 1 .. n - 1, f[j] = f[m] PROVE j = m
      BY <2>1, <2>3
    <2>4. ASSUME NEW v \in 1 .. n, v # i PROVE \E j \in 1 .. n - 1 : f[j] = v
      <3>1. CASE v < i
        <4>1. v \in 1 .. n - 1 /\ f[v] = v
          BY <2>1, <3>1
        <4>2. QED
          BY <4>1
      <3>2. CASE v > i
        <4>1. v - 1 \in 1 .. n - 1 /\ f[v - 1] = v
          BY <2>1, <3>2
        <4>2. QED
          BY <4>1
      <3>3. QED
        BY <2>1, <2>4, <3>1, <3>2
    <2>5. QED
      BY <2>2, <2>3, <2>4
  <1> HIDE DEF f, new, n
  <1>9. /\ ~PathsCollide(new) /\ ~Pathless(new)
        /\ \A k : k \in Keys(new) <=> \E j \in DOMAIN new.views : k = Key(config, f[j])
        /\ \A k \in Keys(new) : k \in Keys(config) /\ View(new, k) = View(config, k)
    <2>1. /\ \A j \in DOMAIN new.views :
                f[j] \in DOMAIN config.views /\ new.views[j] = config.views[f[j]]
          /\ \A j, m \in DOMAIN new.views : f[j] = f[m] => j = m
      BY <1>2, <1>6, <1>7, <1>8
    <2>2. QED
      BY <1>6, <2>1, Regrouped
  <1>10. ASSUME NEW k PROVE k \in Keys(new) <=> k \in Keys(config) /\ k # key
    <2>1. k \in Keys(config) <=> \E v \in 1 .. n : k = Key(config, v)
      BY <1>2 DEF Keys
    <2>2. \A v \in 1 .. n : Key(config, v) = key <=> v = i
      BY <1>1, <1>2, KeyNamesOne DEF i
    <2>3. k \in Keys(new) <=> \E j \in 1 .. n - 1 : k = Key(config, f[j])
      BY <1>7, <1>9
    <2>4. QED
      BY <1>8, <2>1, <2>2, <2>3
  <1>11. Keys(new) = Keys(config) \ {key}
    BY <1>10
  <1>12. PathRow(new) = RemoveAt(PathRow(config), i)
    <2> DEFINE S == Paths \cup {None}
               short == PathRow(new)
               long == PathRow(config)
               cut == RemoveAt(long, i)
    <2>1. /\ short \in Seq(S) /\ Len(short) = n - 1
          /\ long \in Seq(S) /\ Len(long) = n
      BY <1>6, <1>7, PathRowIs DEF n
    <2>2. /\ \A v \in 1 .. n - 1 : short[v] = row[v].path
          /\ \A v \in 1 .. n : long[v] = old[v].path
      BY <1>6, <1>7, PathRowIs DEF n
    <2> HIDE DEF S, short, long
    <2>3. cut \in Seq(S) /\ Len(cut) = n - 1
      BY <1>3, <2>1, RemoveAtIs
    <2>4. ASSUME NEW j \in 1 .. n - 1 PROVE cut[j] = short[j]
      <3>1. cut[j] = IF j < i THEN long[j] ELSE long[j + 1]
        BY <1>3, <2>1, AfterRemoval
      <3>2. n \in Nat /\ j \in 1 .. n /\ j + 1 \in 1 .. n
        BY <1>2 DEF n
      <3>3. QED
        BY <1>5, <2>2, <3>1, <3>2
    <2> HIDE DEF cut
    <2>5. short = cut
      BY <2>1, <2>3, <2>4, SeqEqual
    <2>6. QED
      BY <2>5 DEF short, cut, long
  <1>13. QED
    BY <1>3, <1>6, <1>9, <1>11, <1>12 DEF RowLess, new, row, n, i

(* A view put into the row.                                                *)
RowMore(config, new, key, at, view) ==
  /\ key \notin Keys(config)
  /\ new \in Configs /\ ~PathsCollide(new) /\ ~Pathless(new) /\ new.title = config.title
  /\ Keys(new) = Keys(config) \cup {key}
  /\ \A k \in Keys(config) : View(new, k) = View(config, k)
  /\ View(new, key) = view
  /\ PathRow(new) = PutAt(PathRow(config), at, view.path)

(* Putting the view into the row is that.                                  *)
LEMMA RowWith ==
    ASSUME NEW config \in Configs, ~PathsCollide(config), ~Pathless(config),
           NEW view \in Views, view.path # None, <<view.path, 0>> \notin Keys(config),
           NEW at \in Nat \ {0}
    PROVE  RowMore(config, [config EXCEPT !.views = PutAt(@, at, view)], <<view.path, 0>>, at, view)
  <1> DEFINE key == <<view.path, 0>>
             old == config.views
             n == Len(old)
             i == IF at <= n THEN at ELSE n + 1
             row == PutAt(old, at, view)
             new == [config EXCEPT !.views = row]
  <1>1. old \in Seq(Views) /\ n \in Nat /\ DOMAIN old = 1 .. n
    BY ViewsAre
  <1>2. i \in 1 .. n + 1 /\ i \in Nat
    BY <1>1
  <1>3. row = InsertAt(old, i, view)
    BY DEF PutAt
  <1> HIDE DEF row, i
  <1>4. row \in Seq(Views) /\ Len(row) = n + 1
    BY <1>1, <1>2, <1>3, InsertAtIs
  <1>5. ASSUME NEW j \in 1 .. n + 1
        PROVE  row[j] = IF j < i THEN old[j] ELSE IF j = i THEN view ELSE old[j - 1]
    BY <1>1, <1>2, <1>3, AfterInsertion
  <1>6. new \in Configs /\ new.views = row /\ new.title = config.title
    BY <1>4, ViewsWritten DEF Configs
  <1>7. DOMAIN new.views = 1 .. n + 1 /\ Len(new.views) = n + 1
    BY <1>4, <1>6, ViewsAre
  <1>8. config = [new EXCEPT !.views = RemoveAt(row, i)]
    <2>1. RemoveAt(row, i) = old
      <3>1. i \in 1 .. Len(old) + 1 /\ old \in Seq(Views) /\ view \in Views
        BY <1>1, <1>2
      <3> HIDE DEF old
      <3>2. RemoveAt(InsertAt(old, i, view), i) = old
        BY <3>1, TakenOutAgain
      <3>3. QED
        BY <1>3, <3>2
    <2>2. QED
      BY <1>6, <2>1 DEF Configs
  <1> HIDE DEF new, n
  <1>9. ASSUME NEW j \in 1 .. n + 1, j # i
        PROVE  \E u \in 1 .. n : row[j] = old[u] /\ (u = IF j < i THEN j ELSE j - 1)
    <2>1. CASE j < i
      <3>1. j \in 1 .. n /\ row[j] = old[j]
        BY <1>1, <1>2, <1>5, <2>1
      <3>2. QED
        BY <2>1, <3>1
    <2>2. CASE j > i
      <3>1. j - 1 \in 1 .. n /\ row[j] = old[j - 1] /\ ~(j < i)
        BY <1>1, <1>2, <1>5, <2>2
      <3>2. QED
        BY <3>1
    <2>3. QED
      BY <1>1, <1>2, <1>9, <2>1, <2>2
  <1>10. row[i] = view
    BY <1>1, <1>2, <1>5
  <1>11. \A v \in 1 .. n : old[v].path # None /\ old[v].path # view.path
    <2>1. \A v \in 1 .. n : old[v].path # None /\ Key(config, v) = <<old[v].path, 0>>
      BY <1>1, KeyedByPath
    <2>2. \A v \in 1 .. n : Key(config, v) \in Keys(config)
      BY <1>1 DEF Keys
    <2>3. QED
      BY <2>1, <2>2
  <1>12. \A j \in 1 .. n + 1 : row[j].path # None /\ (j # i => row[j].path # view.path)
    BY <1>9, <1>10, <1>11
  <1>13. ~Pathless(new)
    BY <1>6, <1>7, <1>12 DEF Pathless
  <1>14. ~PathsCollide(new)
    <2>1. ASSUME NEW j \in 1 .. n + 1, NEW m \in 1 .. n + 1, j # m, row[j].path = row[m].path
          PROVE  FALSE
      <3>1. j # i /\ m # i
        BY <1>10, <1>12, <2>1
      <3>2. PICK u \in 1 .. n : row[j] = old[u] /\ (u = IF j < i THEN j ELSE j - 1)
        BY <1>9, <3>1
      <3>3. PICK w \in 1 .. n : row[m] = old[w] /\ (w = IF m < i THEN m ELSE m - 1)
        BY <1>9, <3>1
      <3>4. u # w
        BY <1>1, <1>2, <2>1, <3>1, <3>2, <3>3
      <3>5. old[u].path = old[w].path /\ old[u].path # None
        BY <1>11, <2>1, <3>2, <3>3
      <3>6. QED
        BY <1>1, <3>4, <3>5 DEF PathsCollide
    <2>2. QED
      BY <1>6, <1>7, <2>1 DEF PathsCollide
  <1>15. Key(new, i) = key /\ key \in Keys(new) /\ Index(new, key) = i /\ View(new, key) = view
    <2>1. i \in DOMAIN new.views
      BY <1>2, <1>7
    <2>2. Key(new, i) = key
      BY <1>6, <1>10 DEF Key
    <2>3. QED
      BY <1>6, <1>10, <1>14, <2>1, <2>2, KeyNamesOne
  <1> HIDE DEF key
  <1>16. RowLess(new, config, key)
    <2>1. RowLess(new, [new EXCEPT !.views = RemoveAt(@, Index(new, key))], key)
      BY <1>6, <1>13, <1>14, <1>15, RowWithout
    <2>2. QED
      BY <1>6, <1>8, <1>15, <2>1
  <1>17. PathRow(new) = PutAt(PathRow(config), at, view.path)
    <2> DEFINE S == Paths \cup {None}
               long == PathRow(new)
               short == PathRow(config)
               more == InsertAt(short, i, view.path)
    <2>1. /\ long \in Seq(S) /\ Len(long) = n + 1
          /\ short \in Seq(S) /\ Len(short) = n
      BY <1>6, <1>7, PathRowIs DEF n
    <2>2. /\ \A v \in 1 .. n + 1 : long[v] = row[v].path
          /\ \A v \in 1 .. n : short[v] = old[v].path
      BY <1>6, <1>7, PathRowIs DEF n
    <2>3. view.path \in S
      BY ViewIs
    <2> HIDE DEF S, short, long
    <2>4. more \in Seq(S) /\ Len(more) = n + 1
      BY <1>2, <2>1, <2>3, InsertAtIs
    <2>5. ASSUME NEW j \in 1 .. n + 1 PROVE more[j] = long[j]
      <3>1. more[j] = IF j < i THEN short[j] ELSE IF j = i THEN view.path ELSE short[j - 1]
        BY <1>2, <2>1, <2>3, AfterInsertion
      <3>2. j < i => j \in 1 .. n
        BY <1>1, <1>2
      <3>3. ~(j < i) /\ j # i => j - 1 \in 1 .. n
        BY <1>1, <1>2
      <3>4. QED
        BY <1>5, <2>2, <3>1, <3>2, <3>3
    <2>6. more = PutAt(short, at, view.path)
      BY <2>1 DEF PutAt, i
    <2> HIDE DEF more
    <2>7. long = more
      BY <2>1, <2>4, <2>5, SeqEqual
    <2>8. QED
      BY <2>6, <2>7 DEF long, short
  <1>18. QED
    <2>1. /\ key \in Keys(new) /\ Keys(config) = Keys(new) \ {key}
          /\ \A k \in Keys(config) : View(config, k) = View(new, k)
      BY <1>16 DEF RowLess
    <2>2. Keys(new) = Keys(config) \cup {key} /\ key \notin Keys(config)
      BY <2>1
    <2>3. RowMore(config, new, key, at, view)
      BY <1>6, <1>13, <1>14, <1>15, <1>17, <2>1, <2>2 DEF RowMore
    <2>4. QED
      BY <2>3 DEF new, row, key

(* Taking a view, and putting one in.                                      *)
LEMMA ViewTaken ==
    ASSUME NEW config \in Configs, ~PathsCollide(config), ~Pathless(config),
           NEW s, s.kind = "view", s.action = "remove", s.path # None,
           NEW new \in CarryOut(config, s)
    PROVE  RowLess(config, new, <<s.path, 0>>)
  <1> DEFINE key == <<s.path, 0>>
  <1>1. CarryOut(config, s) = TakeView(config, s)
    BY DEF CarryOut, ItemKinds
  <1> DEFINE First1(view) ==
               CHOOSE v \in DOMAIN config.views :
                 config.views[v] = view /\ \A w \in 1 .. v - 1 : config.views[w] # view
  <1>2. PICK v \in FindView(config, s) :
          new = [config EXCEPT !.views = RemoveAt(@, First1(config.views[v]))]
    BY <1>1 DEF TakeView
  <1>3. v \in DOMAIN config.views /\ config.views[v].path = s.path
    BY <1>2 DEF FindView
  <1>4. Key(config, v) = key /\ key \in Keys(config) /\ Index(config, key) = v
    BY <1>3, KeyedByPath, KeyNamesOne
  <1>5. First1(config.views[v]) = v
    <2>1. \A w \in DOMAIN config.views : config.views[w] = config.views[v] => w = v
      BY <1>3 DEF PathsCollide
    <2>2. DOMAIN config.views = 1 .. Len(config.views) /\ Len(config.views) \in Nat
      BY ViewsAre
    <2>3. \A w \in 1 .. v - 1 : w \in DOMAIN config.views /\ w # v
      BY <1>3, <2>2
    <2>4. QED
      BY <1>3, <2>1, <2>3
  <1> HIDE DEF First1
  <1>6. QED
    BY <1>2, <1>4, <1>5, RowWithout

(* The step that gives a view back puts it into the row.                   *)
LEMMA ViewPut ==
    ASSUME NEW config \in Configs, ~PathsCollide(config), ~Pathless(config),
           NEW s, s.kind = "view", s.action = "insert", s.item \in Views, s.item.path # None,
           <<s.item.path, 0>> \notin Keys(config), s.index \in Nat \ {0},
           NEW new \in CarryOut(config, s)
    PROVE  RowMore(config, new, <<s.item.path, 0>>, s.index, s.item)
  <1>1. CarryOut(config, s) = PutView(config, s)
    BY DEF CarryOut, ItemKinds
  <1>2. new = [config EXCEPT !.views = PutAt(@, s.index, s.item)]
    BY <1>1 DEF PutView
  <1>3. QED
    BY <1>2, RowWith

(* The views only one of two dashboards has, and the steps for them.       *)
Extra(one, other) == Keys(one) \ Keys(other)
Removal(other, k) == ViewStep("remove", View(other, k), Index(other, k))
Insertion(one, k) == ViewStep("insert", View(one, k), Index(one, k))

(* At once, each view that came is taken, and each that went is given      *)
(* back.                                                                   *)
LEMMA ViewsAtOnce ==
    ASSUME NEW one, NEW other, AtOnce(one, other), PlacesHold(one, other)
    PROVE  PlanViewSteps(one, other, other)
             = {Removal(other, k) : k \in Extra(other, one)}
                 \cup {Insertion(one, k) : k \in Extra(one, other)}
  <1> DEFINE Added == {w \in DOMAIN other.views : Key(other, w) \notin Keys(one)}
             Removed == {w \in DOMAIN one.views : Key(one, w) \notin Keys(other)}
             goes == UNION {PlanAddedView(v, other, other) : v \in Added}
             comes == UNION {PlanRemovedView(v, one, other) : v \in Removed}
  <1>1. /\ one \in Configs /\ other \in Configs /\ ~PathsCollide(one) /\ ~PathsCollide(other)
        /\ PlanViewSteps(one, other, other) # {Refused}
    BY PlanAtOnce DEF AtOnce
  <1>2. PlanViewSteps(one, other, other) = Settled(goes \cup comes)
    BY DEF PlanViewSteps
  <1>3. Refused \notin goes \cup comes /\ PlanViewSteps(one, other, other) = goes \cup comes
    BY <1>1, <1>2 DEF Settled
  <1>4. ASSUME NEW config \in Configs, ~PathsCollide(config), NEW v \in DOMAIN config.views
        PROVE  Key(config, v) \in Keys(config) /\ v = Index(config, Key(config, v))
               /\ config.views[v] = View(config, Key(config, v))
    BY <1>4, KeyNamesOne
  <1>5. ASSUME NEW config \in Configs, ~PathsCollide(config), NEW k \in Keys(config)
        PROVE  Index(config, k) \in DOMAIN config.views /\ Key(config, Index(config, k)) = k
    BY <1>5, ViewNamed
  <1>6. ASSUME NEW v \in Added
        PROVE  PlanAddedView(v, other, other) = {Removal(other, Key(other, v))}
    <2> DEFINE found == {w \in DOMAIN other.views : other.views[w] = other.views[v]}
    <2>1. v \in found /\ IsFiniteSet(found)
      <3>1. IsFiniteSet(DOMAIN other.views)
        BY <1>1, ViewsAre
      <3>2. QED
        BY <3>1, FS_Subset
    <2>2. PlanAddedView(v, other, other) =
            IF Cardinality(found) # 1 THEN {Refused}
            ELSE {ViewStep("remove", other.views[v], w) : w \in found}
      BY DEF PlanAddedView
    <2>3. Refused \notin PlanAddedView(v, other, other)
      BY <1>3
    <2> HIDE DEF found
    <2>4. Cardinality(found) = 1
      BY <2>2, <2>3
    <2>5. PICK x : found = {x}
      BY <2>1, <2>4, FS_Singleton
    <2>6. found = {v}
      BY <2>1, <2>5
    <2>7. PlanAddedView(v, other, other) = {ViewStep("remove", other.views[v], v)}
      BY <2>2, <2>4, <2>6
    <2>8. QED
      BY <1>1, <1>4, <2>7 DEF Removal
  <1>7. ASSUME NEW v \in Removed
        PROVE  PlanRemovedView(v, one, other) = {Insertion(one, Key(one, v))}
    <2>1. Key(one, v) \in Keys(one) /\ Key(one, v) \notin Keys(other) /\ v \in DOMAIN one.views
      BY <1>1, <1>4
    <2>2. ~Pathless(one) /\ ~Pathless(other)
      BY <2>1 DEF PlacesHold
    <2>3. ASSUME NEW w \in DOMAIN other.views, other.views[w] = one.views[v] PROVE FALSE
      <3>1. Key(other, w) = Key(one, v)
        BY <1>1, <2>1, <2>2, <2>3, KeyedByPath
      <3>2. QED
        BY <1>1, <1>4, <2>1, <3>1
    <2>4. PlanRemovedView(v, one, other) = {ViewStep("insert", one.views[v], v)}
      BY <2>1, <2>3 DEF PlanRemovedView
    <2>5. QED
      BY <1>1, <1>4, <2>1, <2>4 DEF Insertion
  <1>8. goes = {Removal(other, k) : k \in Extra(other, one)}
    <2>1. \A k \in Extra(other, one) : Index(other, k) \in Added /\ Key(other, Index(other, k)) = k
      BY <1>1, <1>5 DEF Extra
    <2>2. \A v \in Added : Key(other, v) \in Extra(other, one)
      BY <1>1, <1>4 DEF Extra
    <2>3. ASSUME NEW s PROVE s \in goes <=> \E k \in Extra(other, one) : s = Removal(other, k)
      <3>1. s \in goes <=> \E v \in Added : s = Removal(other, Key(other, v))
        BY <1>6
      <3> HIDE DEF goes, Added
      <3>2. QED
        BY <2>1, <2>2, <3>1
    <2> HIDE DEF goes
    <2>4. QED
      BY <2>3
  <1>9. comes = {Insertion(one, k) : k \in Extra(one, other)}
    <2>1. \A k \in Extra(one, other) : Index(one, k) \in Removed /\ Key(one, Index(one, k)) = k
      BY <1>1, <1>5 DEF Extra
    <2>2. \A v \in Removed : Key(one, v) \in Extra(one, other)
      BY <1>1, <1>4 DEF Extra
    <2>3. ASSUME NEW s PROVE s \in comes <=> \E k \in Extra(one, other) : s = Insertion(one, k)
      <3>1. s \in comes <=> \E v \in Removed : s = Insertion(one, Key(one, v))
        BY <1>7
      <3> HIDE DEF comes, Removed
      <3>2. QED
        BY <2>1, <2>2, <3>1
    <2> HIDE DEF comes
    <2>4. QED
      BY <2>3
  <1>10. QED
    BY <1>3, <1>8, <1>9

(* The steps of an undo at once, one kind after the other.                 *)
LEMMA StepsAtOnce ==
    ASSUME NEW one, NEW other, AtOnce(one, other), PlacesHold(one, other)
    PROVE  PlanUndo(one, other, other).steps =
             ({Row(one, other, key) : key \in Written(one, other)}
                \cup ItemsWritten(one, other, "card") \cup ItemsWritten(one, other, "badge"))
             \cup ({Removal(other, k) : k \in Extra(other, one)}
                     \cup {Insertion(one, k) : k \in Extra(one, other)})
  <1>1. /\ DOMAIN MatchCards(one, other).sections = Keys(one) \cap Keys(other)
        /\ PlanUndo(one, other, other).steps =
             SectionsWritten(one, other) \cup ItemsWritten(one, other, "card")
               \cup ItemsWritten(one, other, "badge") \cup PlanViewSteps(one, other, other)
    BY PlanAtOnce
  <1>2. ASSUME NEW key \in Written(one, other)
        PROVE  SectionsPlan(one, other, key) = {Row(one, other, key)}
    BY RowGoesBack
  <1>3. SectionsWritten(one, other) = {Row(one, other, key) : key \in Written(one, other)}
    <2>1. ASSUME NEW s
          PROVE  s \in SectionsWritten(one, other)
                   <=> \E key \in Keys(one) \cap Keys(other) : s \in SectionsPlan(one, other, key)
      BY <1>1 DEF SectionsWritten
    <2>2. ASSUME NEW s
          PROVE  s \in SectionsWritten(one, other)
                   <=> \E key \in Written(one, other) : s \in SectionsPlan(one, other, key)
      BY <2>1 DEF Written
    <2>3. ASSUME NEW s
          PROVE  s \in SectionsWritten(one, other)
                   <=> \E key \in Written(one, other) : s = Row(one, other, key)
      BY <1>2, <2>2
    <2>4. QED
      BY <2>3
  <1>4. QED
    BY <1>1, <1>3, ViewsAtOnce

(* The title is what it was, and so are those of the views; nothing else   *)
(* has changed.                                                            *)
LEMMA SettingsGoBack ==
    ASSUME NEW one, NEW other, AtOnce(one, other), NEW c,
           c = WriteSettings(other, PlanUndo(one, other, other).settings)
    PROVE  /\ c \in Configs /\ c.title = one.title
           /\ Len(c.views) = Len(other.views)
           /\ \A v \in 1 .. Len(other.views) :
                /\ c.views[v].path = other.views[v].path /\ c.views[v].layout = other.views[v].layout
                /\ c.views[v].cards = other.views[v].cards
                /\ c.views[v].badges = other.views[v].badges
                /\ c.views[v].sections = other.views[v].sections
                /\ Key(other, v) \in Keys(one) => c.views[v].title = View(one, Key(other, v)).title
  <1> DEFINE steps == PlanSettingSteps(one, other, other)
             mine(key) == {s \in steps : s.key = key}
             New(key, standing) == IF mine(key) = {} THEN standing ELSE (CHOOSE s \in mine(key) : TRUE).title
             changes == SettingChanges(one, other)
             views == [v \in DOMAIN other.views |->
                        [other.views[v] EXCEPT !.title = New(Key(other, v), @)]]
  <1>1. /\ one \in Configs /\ other \in Configs /\ ~PathsCollide(one) /\ ~PathsCollide(other)
        /\ PlanUndo(one, other, other).settings = steps /\ steps # {Refused}
        /\ ~PlanUndo(one, other, other).blocked
    BY PlanAtOnce DEF AtOnce
  <1>2. c = [other EXCEPT !.title = New(<<None, 0>>, @), !.views = views]
    BY <1>1 DEF WriteSettings
  <1>3. c \in Configs
    BY <1>1, UndoPlanned, WriteSettingsType DEF SoundPlan
  <1>4. /\ DOMAIN other.views = 1 .. Len(other.views) /\ Len(other.views) \in Nat
        /\ \A v \in DOMAIN other.views : other.views[v] \in Views
        /\ DOMAIN other = {"title", "views"}
    BY <1>1, ViewsAre DEF Configs
  <1> HIDE DEF New, views
  <1>5. c.title = New(<<None, 0>>, other.title) /\ c.views = views
    BY <1>2, <1>4
  <1>6. /\ DOMAIN views = 1 .. Len(other.views)
        /\ \A v \in 1 .. Len(other.views) :
             views[v] = [other.views[v] EXCEPT !.title = New(Key(other, v), other.views[v].title)]
    BY <1>4 DEF views
  <1>7. Len(c.views) = Len(other.views)
    <2>1. DOMAIN c.views = 1 .. Len(c.views) /\ Len(c.views) \in Nat
      BY <1>3, ViewsAre
    <2>2. 1 .. Len(c.views) = 1 .. Len(other.views)
      BY <1>5, <1>6, <2>1
    <2>3. QED
      BY <1>4, <2>1, <2>2
  <1>8. ASSUME NEW ch \in changes
        PROVE  /\ PlanSetting(ch, other) \subseteq steps /\ Refused \notin PlanSetting(ch, other)
    <2>1. steps = Settled(UNION {PlanSetting(d, other) : d \in changes})
      BY DEF PlanSettingSteps
    <2>2. QED
      BY <1>1, <2>1 DEF Settled
  <1>9. ASSUME NEW s \in steps
        PROVE  \E ch \in changes : s = [action |-> "set", key |-> ch.key, title |-> ch.was]
    <2>1. steps = Settled(UNION {PlanSetting(d, other) : d \in changes})
      BY DEF PlanSettingSteps
    <2>2. PICK ch \in changes : s \in PlanSetting(ch, other)
      BY <1>1, <2>1 DEF Settled
    <2>3. Refused \notin PlanSetting(ch, other)
      BY <1>8
    <2>4. QED
      BY <2>2, <2>3 DEF PlanSetting
  <1> DEFINE Was(key) == IF key = <<None, 0>> THEN one.title ELSE View(one, key).title
             Is(key) == IF key = <<None, 0>> THEN other.title ELSE View(other, key).title
  <1>10. ASSUME NEW v \in DOMAIN other.views PROVE Key(other, v) # <<None, 0>>
    BY <1>4 DEF Key
  <1>11. \A ch \in changes :
           /\ ch.was = Was(ch.key) /\ ch.is = Is(ch.key) /\ ch.was # ch.is
           /\ ch.key = <<None, 0>> \/ ch.key \in Keys(one) \cap Keys(other)
    <2>1. \A k \in Keys(other) : k # <<None, 0>>
      BY <1>10 DEF Keys
    <2>2. QED
      BY <2>1 DEF SettingChanges
  <1>12. ASSUME NEW key, key = <<None, 0>> \/ key \in Keys(one) \cap Keys(other)
         PROVE  New(key, Is(key)) = Was(key)
    <2>1. CASE Was(key) = Is(key)
      <3>1. \A ch \in changes : ch.key # key
        BY <1>11, <2>1
      <3>2. mine(key) = {}
        BY <1>9, <3>1
      <3>3. QED
        BY <2>1, <3>2 DEF New
    <2>2. CASE Was(key) # Is(key)
      <3> DEFINE ch == [key |-> key, was |-> Was(key), is |-> Is(key)]
                 step == [action |-> "set", key |-> key, title |-> Was(key)]
      <3>1. ch \in changes
        <4>1. \A k \in Keys(other) : k # <<None, 0>>
          BY <1>10 DEF Keys
        <4>2. CASE key = <<None, 0>>
          BY <2>2, <4>2 DEF SettingChanges
        <4>3. CASE key # <<None, 0>>
          <5>1. ch = [key |-> key, was |-> View(one, key).title, is |-> View(other, key).title]
            BY <4>3
          <5>2. key \in Keys(one) \cap Keys(other)
            BY <1>12, <4>3
          <5>3. ch.was # ch.is
            BY <2>2
          <5> HIDE DEF ch
          <5>4. QED
            BY <5>1, <5>2, <5>3 DEF SettingChanges
        <4>4. QED
          BY <4>2, <4>3
      <3>2. Titled(other, key) = Is(key)
        BY DEF Titled
      <3>3. PlanSetting(ch, other) = {step}
        BY <1>12, <2>2, <3>2 DEF PlanSetting
      <3>4. step \in mine(key)
        BY <1>8, <3>1, <3>3
      <3>5. ASSUME NEW s \in mine(key) PROVE s.title = Was(key)
        <4>1. s \in steps /\ s.key = key
          OBVIOUS
        <4> HIDE DEF steps, mine, step, ch
        <4>2. PICK d \in changes : s = [action |-> "set", key |-> d.key, title |-> d.was]
          BY <1>9, <4>1
        <4> HIDE DEF Was, Is, changes
        <4>3. d.key = key /\ s.title = d.was /\ d.was = Was(d.key)
          BY <1>11, <4>1, <4>2
        <4>4. QED
          BY <4>3
      <3> HIDE DEF mine, step
      <3>6. QED
        BY <3>4, <3>5 DEF New
    <2>3. QED
      BY <2>1, <2>2
  <1>13. c.title = one.title
    BY <1>5, <1>12
  <1>14. ASSUME NEW v \in 1 .. Len(other.views), Key(other, v) \in Keys(one)
         PROVE  New(Key(other, v), other.views[v].title) = View(one, Key(other, v)).title
    <2>1. Key(other, v) \in Keys(other) /\ View(other, Key(other, v)) = other.views[v]
      BY <1>1, <1>4, KeyNamesOne
    <2>2. Key(other, v) # <<None, 0>>
      BY <1>4, <1>10
    <2>3. New(Key(other, v), Is(Key(other, v))) = Was(Key(other, v))
      BY <1>12, <1>14, <2>1
    <2>4. QED
      BY <2>1, <2>2, <2>3
  <1>15. QED
    <2>1. ASSUME NEW v \in 1 .. Len(other.views)
          PROVE  /\ views[v].path = other.views[v].path /\ views[v].layout = other.views[v].layout
                 /\ views[v].cards = other.views[v].cards /\ views[v].badges = other.views[v].badges
                 /\ views[v].sections = other.views[v].sections
                 /\ views[v].title = New(Key(other, v), other.views[v].title)
      BY <1>4, <1>6 DEF Views
    <2>2. QED
      BY <1>3, <1>5, <1>7, <1>13, <1>14, <2>1

Common(one, other) == Keys(one) \cap Keys(other)

(* What stands between two steps of an undo at once.                       *)
Standing(one, other, config) ==
  /\ config \in Configs /\ ~PathsCollide(config)
  /\ Common(one, other) \subseteq Keys(config)
  /\ Keys(one) = Keys(other) \/ ~Pathless(config)

(* A step that touches one view, and one list of it.                       *)
WroteList(config, new, key, kind, l, items) ==
  /\ DiffersIn(config, new, key)
  /\ l \in DOMAIN Lists(View(config, key), kind)
  /\ ListWritten(View(new, key), View(config, key), kind, l, items)

Took(config, new, kind, t) ==
  LET items == ListAt(config, kind, t.key, t.list)
  IN  /\ items \in Seq(Cards)
      /\ t.index \in 1 .. Len(items) /\ items[t.index] = t.card
      /\ WroteList(config, new, t.key, kind, t.list, RemoveAt(items, t.index))

Gave(config, new, kind, t) ==
  LET items == ListAt(config, kind, t.key, t.list)
  IN  /\ items \in Seq(Cards)
      /\ WroteList(config, new, t.key, kind, t.list, PutAt(items, t.index, t.card))

WroteRow(one, other, config, new, key) ==
  /\ DiffersIn(config, new, key)
  /\ View(config, key).sections = View(other, key).sections
  /\ View(new, key) = [View(config, key) EXCEPT !.sections = View(one, key).sections]

(* Such a step names the view its item is in.                              *)
LEMMA StepNames ==
    ASSUME NEW config \in Configs, ~PathsCollide(config), NEW keys, NEW kind,
           NEW t \in Slots(config, keys, kind), NEW action
    PROVE  Names(Step(action, kind, config, t), t.key)
  <1>1. /\ config.views[t.at].path = t.key[1]
        /\ t.key[1] = None => t.key = <<None, t.at>>
    BY StandsAt
  <1>2. Step(action, kind, config, t).path = config.views[t.at].path
        /\ Step(action, kind, config, t).at = t.at
    BY DEF Step
  <1>3. QED
    BY <1>1, <1>2 DEF Names

(* An item is taken from where it stands.                                  *)
LEMMA TakenFrom ==
    ASSUME NEW one, NEW other, AtOnce(one, other), NEW config, Standing(one, other, config),
           NEW kind \in {"card", "badge"}, NEW t \in ItemsGo(one, other, kind),
           NEW new \in CarryOut(config, Step("remove", kind, other, t))
    PROVE  t.key \in Common(one, other) /\ Took(config, new, kind, t)
  <1> DEFINE s == Step("remove", kind, other, t)
  <1>1. one \in Configs /\ other \in Configs /\ ~PathsCollide(one) /\ ~PathsCollide(other)
    BY PlanAtOnce DEF AtOnce
  <1>2. t \in Slots(other, Common(one, other), kind)
    BY <1>1, ItemsInCommon DEF Common
  <1>3. t.key \in Common(one, other)
    BY <1>1, <1>2, StandsAt
  <1>4. Names(s, t.key)
    BY <1>1, <1>2, StepNames
  <1>5. /\ s.action = "remove" /\ s.kind = kind /\ s.list = t.list /\ s.index = t.index
        /\ s.item = t.card /\ s.parked = FALSE /\ s.kind \in {"card", "badge"}
    BY DEF Step
  <1>6. config \in Configs /\ ~PathsCollide(config) /\ t.key \in Keys(config)
    BY <1>3 DEF Standing
  <1>7. new \in CarryOut(config, s)
    OBVIOUS
  <1>10. TakesItem(s)
    BY <1>5 DEF TakesItem
  <1> HIDE DEF s
  <1>8. LET items == ListAt(config, s.kind, t.key, s.list)
        IN  /\ s.list \in DOMAIN Lists(View(config, t.key), s.kind)
            /\ items \in Seq(Cards)
            /\ s.index \in 1 .. Len(items) /\ items[s.index] = s.item
            /\ DiffersIn(config, new, t.key)
            /\ ListWritten(View(new, t.key), View(config, t.key), s.kind, s.list,
                           RemoveAt(items, s.index))
    BY <1>4, <1>6, <1>7, <1>10, ItemTaken
  <1>9. QED
    BY <1>3, <1>5, <1>8 DEF Took, WroteList

(* An item is given back where it stood.                                   *)
LEMMA GivenBack ==
    ASSUME NEW one, NEW other, AtOnce(one, other), NEW config, Standing(one, other, config),
           NEW kind \in {"card", "badge"}, NEW t \in ItemsCome(one, other, kind),
           NEW new \in CarryOut(config, Step("insert", kind, one, t))
    PROVE  t.key \in Common(one, other) /\ Gave(config, new, kind, t)
  <1> DEFINE s == Step("insert", kind, one, t)
  <1>1. one \in Configs /\ other \in Configs /\ ~PathsCollide(one) /\ ~PathsCollide(other)
    BY PlanAtOnce DEF AtOnce
  <1>2. t \in Slots(one, Common(one, other), kind)
    BY <1>1, ItemsInCommon DEF Common
  <1>3. t.key \in Common(one, other) /\ t.index \in Nat \ {0} /\ t.card \in Cards
    BY <1>1, <1>2, StandsAt
  <1>4. Names(s, t.key)
    BY <1>1, <1>2, StepNames
  <1>5. /\ s.action = "insert" /\ s.kind = kind /\ s.list = t.list /\ s.index = t.index
        /\ s.item = t.card /\ s.parked = FALSE /\ s.kind \in {"card", "badge"}
    BY DEF Step
  <1>6. config \in Configs /\ ~PathsCollide(config) /\ t.key \in Keys(config)
    BY <1>3 DEF Standing
  <1>7. new \in CarryOut(config, s)
    OBVIOUS
  <1>10. GivesItem(s)
    BY <1>3, <1>5 DEF GivesItem
  <1> HIDE DEF s
  <1>8. LET items == ListAt(config, s.kind, t.key, s.list)
        IN  /\ s.list \in DOMAIN Lists(View(config, t.key), s.kind)
            /\ items \in Seq(Cards)
            /\ DiffersIn(config, new, t.key)
            /\ ListWritten(View(new, t.key), View(config, t.key), s.kind, s.list,
                           PutAt(items, s.index, s.item))
    BY <1>4, <1>6, <1>7, <1>10, ItemPut
  <1>9. QED
    BY <1>3, <1>5, <1>8 DEF Gave, WroteList

(* A row of sections is written over the one that stood.                   *)
LEMMA RowWrittenBack ==
    ASSUME NEW one, NEW other, AtOnce(one, other), NEW config, Standing(one, other, config),
           NEW key \in Written(one, other),
           NEW new \in CarryOut(config, Row(one, other, key))
    PROVE  key \in Common(one, other) /\ WroteRow(one, other, config, new, key)
  <1> DEFINE s == Row(one, other, key)
  <1>1. one \in Configs /\ other \in Configs /\ ~PathsCollide(one) /\ ~PathsCollide(other)
    BY PlanAtOnce DEF AtOnce
  <1>2. key \in Common(one, other) /\ key \in Keys(one) /\ key \in Keys(other)
    BY DEF Written, Common
  <1>3. /\ s.kind = "sections" /\ s.path = View(other, key).path /\ s.at = Index(other, key)
        /\ s.item = View(one, key).sections /\ s.standing = View(other, key).sections
    BY DEF Row, SectionsStep
  <1>4. Names(s, key)
    <2>1. Index(other, key) \in DOMAIN other.views /\ Key(other, Index(other, key)) = key
      BY <1>1, <1>2, ViewNamed
    <2>2. View(other, key).path = other.views[Index(other, key)].path
      BY DEF View
    <2> HIDE DEF s
    <2>3. QED
      BY <1>3, <2>1, <2>2 DEF Names, Key
  <1>5. s.item \in Seq(Sections)
    BY <1>1, <1>2, <1>3, KeyedView
  <1>6. config \in Configs /\ ~PathsCollide(config) /\ key \in Keys(config)
    BY <1>2 DEF Standing
  <1>7. new \in CarryOut(config, s)
    OBVIOUS
  <1> HIDE DEF s
  <1>8. /\ View(config, key).sections = s.standing
        /\ DiffersIn(config, new, key)
        /\ View(new, key) = [View(config, key) EXCEPT !.sections = s.item]
    BY <1>3, <1>4, <1>5, <1>6, <1>7, RowPut
  <1>9. QED
    BY <1>2, <1>3, <1>8 DEF WroteRow

(* A view the change brought goes.                                         *)
LEMMA ViewGoes ==
    ASSUME NEW one, NEW other, AtOnce(one, other), PlacesHold(one, other),
           NEW config, Standing(one, other, config),
           NEW k \in Extra(other, one), NEW new \in CarryOut(config, Removal(other, k))
    PROVE  RowLess(config, new, k) /\ k[1] = View(other, k).path /\ k[1] # None
  <1> DEFINE s == Removal(other, k)
  <1>1. one \in Configs /\ other \in Configs /\ ~PathsCollide(one) /\ ~PathsCollide(other)
    BY PlanAtOnce DEF AtOnce
  <1>2. k \in Keys(other) /\ Keys(one) # Keys(other)
    BY DEF Extra
  <1>3. ~Pathless(other) /\ ~Pathless(config)
    BY <1>2 DEF PlacesHold, Standing
  <1>4. Index(other, k) \in DOMAIN other.views /\ Key(other, Index(other, k)) = k
    BY <1>1, <1>2, ViewNamed
  <1>5. View(other, k).path # None /\ k = <<View(other, k).path, 0>>
    BY <1>1, <1>3, <1>4, KeyedByPath DEF View
  <1>6. s.kind = "view" /\ s.action = "remove" /\ s.path = View(other, k).path
    BY DEF Removal, ViewStep
  <1>7. new \in CarryOut(config, s) /\ config \in Configs /\ ~PathsCollide(config)
    BY DEF Standing
  <1> HIDE DEF s
  <1>8. RowLess(config, new, <<s.path, 0>>)
    BY <1>3, <1>5, <1>6, <1>7, ViewTaken
  <1>9. QED
    BY <1>5, <1>6, <1>8

(* A view the change deleted comes back.                                   *)
LEMMA ViewComes ==
    ASSUME NEW one, NEW other, AtOnce(one, other), PlacesHold(one, other),
           NEW config, Standing(one, other, config),
           NEW k \in Extra(one, other), k \notin Keys(config),
           NEW new \in CarryOut(config, Insertion(one, k))
    PROVE  RowMore(config, new, k, Index(one, k), View(one, k))
  <1> DEFINE s == Insertion(one, k)
  <1>1. one \in Configs /\ other \in Configs /\ ~PathsCollide(one) /\ ~PathsCollide(other)
    BY PlanAtOnce DEF AtOnce
  <1>2. k \in Keys(one) /\ Keys(one) # Keys(other)
    BY DEF Extra
  <1>3. ~Pathless(one) /\ ~Pathless(config)
    BY <1>2 DEF PlacesHold, Standing
  <1>4. Index(one, k) \in DOMAIN one.views /\ Key(one, Index(one, k)) = k
        /\ View(one, k) \in Views
    BY <1>1, <1>2, ViewNamed, KeyedView
  <1>5. View(one, k).path # None /\ k = <<View(one, k).path, 0>>
    BY <1>1, <1>3, <1>4, KeyedByPath DEF View
  <1>6. s.kind = "view" /\ s.action = "insert" /\ s.item = View(one, k) /\ s.index = Index(one, k)
    BY DEF Insertion, ViewStep
  <1>7. new \in CarryOut(config, s) /\ config \in Configs /\ ~PathsCollide(config)
    BY DEF Standing
  <1>8. Index(one, k) \in Nat \ {0}
    <2>1. DOMAIN one.views = 1 .. Len(one.views) /\ Len(one.views) \in Nat
      BY <1>1, ViewsAre
    <2>2. QED
      BY <1>4, <2>1
  <1> HIDE DEF s
  <1>9. /\ s.item \in Views /\ s.item.path # None /\ <<s.item.path, 0>> = k
        /\ s.index \in Nat \ {0}
    BY <1>4, <1>5, <1>6, <1>8
  <1>10. RowMore(config, new, <<s.item.path, 0>>, s.index, s.item)
    BY <1>3, <1>6, <1>7, <1>9, ViewPut
  <1>11. QED
    BY <1>6, <1>9, <1>10

(* An undo at once under way: the order of its steps, and what stands      *)
(* after each.                                                             *)
UnderWay(one, other, order, c) ==
  /\ AtOnce(one, other) /\ PlacesHold(one, other)
  /\ Carried(c, order, PlanUndo(one, other, other), other)

ItemKind == {"card", "badge"}

(* The steps there are.                                                    *)
LEMMA StepKinds ==
    ASSUME NEW one, NEW other, AtOnce(one, other), PlacesHold(one, other),
           NEW s \in PlanUndo(one, other, other).steps
    PROVE  \/ \E key \in Written(one, other) : s = Row(one, other, key)
           \/ \E kind \in ItemKind : \E t \in ItemsGo(one, other, kind) :
                s = Step("remove", kind, other, t)
           \/ \E kind \in ItemKind : \E t \in ItemsCome(one, other, kind) :
                s = Step("insert", kind, one, t)
           \/ \E k \in Extra(other, one) : s = Removal(other, k)
           \/ \E k \in Extra(one, other) : s = Insertion(one, k)
  <1>1. s \in {Row(one, other, key) : key \in Written(one, other)}
          \cup ItemsWritten(one, other, "card") \cup ItemsWritten(one, other, "badge")
          \cup {Removal(other, k) : k \in Extra(other, one)}
          \cup {Insertion(one, k) : k \in Extra(one, other)}
    BY StepsAtOnce
  <1>2. ASSUME NEW kind \in ItemKind, s \in ItemsWritten(one, other, kind)
        PROVE  \/ \E t \in ItemsGo(one, other, kind) : s = Step("remove", kind, other, t)
               \/ \E t \in ItemsCome(one, other, kind) : s = Step("insert", kind, one, t)
    BY <1>2 DEF ItemsWritten, ItemSteps
  <1>3. CASE s \in ItemsWritten(one, other, "card")
    BY <1>2, <1>3 DEF ItemKind
  <1>4. CASE s \in ItemsWritten(one, other, "badge")
    BY <1>2, <1>4 DEF ItemKind
  <1>5. QED
    BY <1>1, <1>3, <1>4

(* Steps for views are not taken for others.                               *)
LEMMA KindsDiffer ==
    ASSUME NEW one, NEW other, NEW k
    PROVE  /\ Removal(other, k).kind = "view" /\ Removal(other, k).action = "remove"
           /\ Insertion(one, k).kind = "view" /\ Insertion(one, k).action = "insert"
           /\ Row(one, other, k).kind = "sections"
           /\ \A action, kind, config, t : Step(action, kind, config, t).kind = kind
           /\ "view" \notin ItemKind /\ "sections" \notin ItemKind
  BY DEF Removal, Insertion, Row, Step, ViewStep, SectionsStep, ItemKind

(* A step for a view is of that view.                                      *)
LEMMA ViewStepsDiffer ==
    ASSUME NEW config \in Configs, ~PathsCollide(config),
           NEW j \in Keys(config), NEW k \in Keys(config)
    PROVE  /\ Removal(config, j) = Removal(config, k) => j = k
           /\ Insertion(config, j) = Insertion(config, k) => j = k
  <1>1. Key(config, Index(config, j)) = j /\ Key(config, Index(config, k)) = k
    BY ViewNamed
  <1>2. Removal(config, j).at = Index(config, j) /\ Removal(config, k).at = Index(config, k)
    BY DEF Removal, ViewStep
  <1>3. Insertion(config, j).at = Index(config, j) /\ Insertion(config, k).at = Index(config, k)
    BY DEF Insertion, ViewStep
  <1>4. QED
    BY <1>1, <1>2, <1>3

(* The views there are after so many steps.                                *)
Going(one, other, order, n) ==
  {k \in Extra(other, one) : \A m \in 1 .. n : order[m] # Removal(other, k)}

Coming(one, other, order, n) ==
  {k \in Extra(one, other) : \E m \in 1 .. n : order[m] = Insertion(one, k)}

Midway(one, other, order, n, config) ==
  /\ Standing(one, other, config) /\ config.title = one.title
  /\ Keys(config) = Common(one, other) \cup Going(one, other, order, n)
                      \cup Coming(one, other, order, n)

(* What a step does.                                                       *)
Effect(one, other, s, config, new) ==
  \/ \E key \in Written(one, other) :
       s = Row(one, other, key) /\ WroteRow(one, other, config, new, key)
  \/ \E kind \in ItemKind : \E t \in ItemsGo(one, other, kind) :
       /\ s = Step("remove", kind, other, t) /\ t.key \in Common(one, other)
       /\ Took(config, new, kind, t)
  \/ \E kind \in ItemKind : \E t \in ItemsCome(one, other, kind) :
       /\ s = Step("insert", kind, one, t) /\ t.key \in Common(one, other)
       /\ Gave(config, new, kind, t)
  \/ \E k \in Extra(other, one) : s = Removal(other, k) /\ RowLess(config, new, k)
  \/ \E k \in Extra(one, other) :
       s = Insertion(one, k) /\ RowMore(config, new, k, Index(one, k), View(one, k))

(* The effect of a step, where it is not the step of a view that is there  *)
(* already.                                                                *)
LEMMA EffectIs ==
    ASSUME NEW one, NEW other, AtOnce(one, other), PlacesHold(one, other),
           NEW s \in PlanUndo(one, other, other).steps,
           NEW config, Standing(one, other, config), NEW new \in CarryOut(config, s),
           \A k \in Extra(one, other) : s = Insertion(one, k) => k \notin Keys(config)
    PROVE  Effect(one, other, s, config, new)
  <1>1. CASE \E key \in Written(one, other) : s = Row(one, other, key)
    <2>1. PICK key \in Written(one, other) : s = Row(one, other, key)
      BY <1>1
    <2>2. WroteRow(one, other, config, new, key)
      BY <2>1, RowWrittenBack
    <2>3. QED
      BY <2>1, <2>2 DEF Effect
  <1>2. CASE \E kind \in ItemKind : \E t \in ItemsGo(one, other, kind) :
               s = Step("remove", kind, other, t)
    <2>1. PICK kind \in ItemKind : \E t \in ItemsGo(one, other, kind) :
            s = Step("remove", kind, other, t)
      BY <1>2
    <2>2. PICK t \in ItemsGo(one, other, kind) : s = Step("remove", kind, other, t)
      BY <2>1
    <2>3. t.key \in Common(one, other) /\ Took(config, new, kind, t)
      BY <2>2, TakenFrom DEF ItemKind
    <2>4. QED
      BY <2>2, <2>3 DEF Effect
  <1>3. CASE \E kind \in ItemKind : \E t \in ItemsCome(one, other, kind) :
               s = Step("insert", kind, one, t)
    <2>1. PICK kind \in ItemKind : \E t \in ItemsCome(one, other, kind) :
            s = Step("insert", kind, one, t)
      BY <1>3
    <2>2. PICK t \in ItemsCome(one, other, kind) : s = Step("insert", kind, one, t)
      BY <2>1
    <2>3. t.key \in Common(one, other) /\ Gave(config, new, kind, t)
      BY <2>2, GivenBack DEF ItemKind
    <2>4. QED
      BY <2>2, <2>3 DEF Effect
  <1>4. CASE \E k \in Extra(other, one) : s = Removal(other, k)
    <2>1. PICK k \in Extra(other, one) : s = Removal(other, k)
      BY <1>4
    <2>2. RowLess(config, new, k)
      BY <2>1, ViewGoes
    <2>3. QED
      BY <2>1, <2>2 DEF Effect
  <1>5. CASE \E k \in Extra(one, other) : s = Insertion(one, k)
    <2>1. PICK k \in Extra(one, other) : s = Insertion(one, k)
      BY <1>5
    <2>2. RowMore(config, new, k, Index(one, k), View(one, k))
      BY <2>1, ViewComes
    <2>3. QED
      BY <2>1, <2>2 DEF Effect
  <1>6. QED
    BY <1>1, <1>2, <1>3, <1>4, <1>5, StepKinds

(* One view differs, the rest of the row is the same: still under way.     *)
LEMMA StandsIfSame ==
    ASSUME NEW one, NEW other, NEW config, Standing(one, other, config),
           NEW new, SameRow(config, new)
    PROVE  Standing(one, other, new)
  <1>1. /\ new \in Configs /\ ~PathsCollide(new) /\ Keys(new) = Keys(config)
        /\ Len(new.views) = Len(config.views)
        /\ \A v \in 1 .. Len(config.views) : new.views[v].path = config.views[v].path
    BY DEF SameRow
  <1>2. /\ config \in Configs /\ Common(one, other) \subseteq Keys(config)
        /\ Keys(one) = Keys(other) \/ ~Pathless(config)
    BY DEF Standing
  <1>3. DOMAIN config.views = 1 .. Len(config.views) /\ DOMAIN new.views = 1 .. Len(new.views)
    BY <1>1, <1>2, ViewsAre
  <1>4. ~Pathless(config) => ~Pathless(new)
    BY <1>1, <1>3 DEF Pathless
  <1>5. QED
    BY <1>1, <1>2, <1>4 DEF Standing

(* Steps that are of no view leave the views there are.                    *)
LEMMA MidwayKept ==
    ASSUME NEW one, NEW other, NEW order, NEW n \in Nat \ {0}, NEW config,
           Midway(one, other, order, n - 1, config),
           \A k : order[n] # Removal(other, k) /\ order[n] # Insertion(one, k),
           NEW new, SameRow(config, new)
    PROVE  Midway(one, other, order, n, new)
  <1>1. Standing(one, other, new)
    BY StandsIfSame DEF Midway
  <1>2. new.title = one.title /\ Keys(new) = Keys(config)
    BY DEF Midway, SameRow
  <1>3. 1 .. n = (1 .. n - 1) \cup {n}
    OBVIOUS
  <1>4. Going(one, other, order, n) = Going(one, other, order, n - 1)
    BY <1>3 DEF Going
  <1>5. Coming(one, other, order, n) = Coming(one, other, order, n - 1)
    BY <1>3 DEF Coming
  <1>6. QED
    BY <1>1, <1>2, <1>4, <1>5 DEF Midway

(* The view that goes is the only one.                                     *)
LEMMA MidwayLess ==
    ASSUME NEW one, NEW other, AtOnce(one, other), NEW order, NEW n \in Nat \ {0}, NEW config,
           Midway(one, other, order, n - 1, config),
           NEW k \in Extra(other, one), order[n] = Removal(other, k),
           NEW new, RowLess(config, new, k)
    PROVE  Midway(one, other, order, n, new)
  <1>1. other \in Configs /\ ~PathsCollide(other)
    BY PlanAtOnce DEF AtOnce
  <1>2. k \in Keys(other) /\ k \notin Keys(one) /\ k \notin Common(one, other)
    BY DEF Extra, Common
  <1>3. 1 .. n = (1 .. n - 1) \cup {n}
    OBVIOUS
  <1>4. \A j \in Extra(other, one) : order[n] = Removal(other, j) <=> j = k
    <2>1. \A j \in Extra(other, one) : j \in Keys(other)
      BY DEF Extra
    <2>2. QED
      BY <1>1, <1>2, <2>1, ViewStepsDiffer
  <1>5. Going(one, other, order, n) = Going(one, other, order, n - 1) \ {k}
    BY <1>3, <1>4 DEF Going
  <1>6. \A j : order[n] # Insertion(one, j)
    <2>1. \A j : Insertion(one, j).action = "insert" /\ Removal(other, k).action = "remove"
      BY KindsDiffer
    <2>2. QED
      BY <2>1
  <1>7. Coming(one, other, order, n) = Coming(one, other, order, n - 1)
    BY <1>3, <1>6 DEF Coming
  <1>8. k \notin Coming(one, other, order, n)
    BY <1>2 DEF Coming, Extra
  <1>9. /\ new \in Configs /\ ~PathsCollide(new) /\ ~Pathless(new) /\ new.title = config.title
        /\ Keys(new) = Keys(config) \ {k}
    BY DEF RowLess
  <1>10. /\ Standing(one, other, config) /\ config.title = one.title
         /\ Keys(config) = Common(one, other) \cup Going(one, other, order, n - 1)
                             \cup Coming(one, other, order, n - 1)
    BY DEF Midway
  <1>11. Keys(new) = Common(one, other) \cup Going(one, other, order, n)
                       \cup Coming(one, other, order, n)
    BY <1>2, <1>5, <1>7, <1>8, <1>9, <1>10
  <1>12. Standing(one, other, new)
    BY <1>9, <1>11 DEF Standing
  <1>13. QED
    BY <1>9, <1>10, <1>11, <1>12 DEF Midway

(* The view that comes is the only one.                                    *)
LEMMA MidwayMore ==
    ASSUME NEW one, NEW other, AtOnce(one, other), NEW order, NEW n \in Nat \ {0}, NEW config,
           Midway(one, other, order, n - 1, config),
           NEW k \in Extra(one, other), order[n] = Insertion(one, k),
           NEW new, RowMore(config, new, k, Index(one, k), View(one, k))
    PROVE  Midway(one, other, order, n, new)
  <1>1. one \in Configs /\ ~PathsCollide(one)
    BY PlanAtOnce DEF AtOnce
  <1>2. k \in Keys(one)
    BY DEF Extra
  <1>3. 1 .. n = (1 .. n - 1) \cup {n}
    OBVIOUS
  <1>4. \A j \in Extra(one, other) : order[n] = Insertion(one, j) <=> j = k
    <2>1. \A j \in Extra(one, other) : j \in Keys(one)
      BY DEF Extra
    <2>2. QED
      BY <1>1, <1>2, <2>1, ViewStepsDiffer
  <1>5. Coming(one, other, order, n) = Coming(one, other, order, n - 1) \cup {k}
    BY <1>3, <1>4 DEF Coming
  <1>6. \A j : order[n] # Removal(other, j)
    <2>1. \A j : Removal(other, j).action = "remove" /\ Insertion(one, k).action = "insert"
      BY KindsDiffer
    <2>2. QED
      BY <2>1
  <1>7. Going(one, other, order, n) = Going(one, other, order, n - 1)
    BY <1>3, <1>6 DEF Going
  <1>9. /\ new \in Configs /\ ~PathsCollide(new) /\ ~Pathless(new) /\ new.title = config.title
        /\ Keys(new) = Keys(config) \cup {k}
    BY DEF RowMore
  <1>10. /\ Standing(one, other, config) /\ config.title = one.title
         /\ Keys(config) = Common(one, other) \cup Going(one, other, order, n - 1)
                             \cup Coming(one, other, order, n - 1)
    BY DEF Midway
  <1>11. Keys(new) = Common(one, other) \cup Going(one, other, order, n)
                       \cup Coming(one, other, order, n)
    BY <1>5, <1>7, <1>9, <1>10
  <1>12. Standing(one, other, new)
    BY <1>9, <1>11 DEF Standing
  <1>13. QED
    BY <1>9, <1>10, <1>11, <1>12 DEF Midway

(* A step leaves an undo under way, whatever it does.                      *)
LEMMA MidwayOn ==
    ASSUME NEW one, NEW other, AtOnce(one, other), NEW order, NEW n \in Nat \ {0}, NEW config,
           Midway(one, other, order, n - 1, config), NEW new,
           Effect(one, other, order[n], config, new)
    PROVE  Midway(one, other, order, n, new)
  <1>1. CASE \E key \in Written(one, other) :
               order[n] = Row(one, other, key) /\ WroteRow(one, other, config, new, key)
    <2>1. PICK key \in Written(one, other) :
            order[n] = Row(one, other, key) /\ WroteRow(one, other, config, new, key)
      BY <1>1
    <2>2. SameRow(config, new)
      BY <2>1 DEF WroteRow, DiffersIn
    <2>3. order[n].kind = "sections"
      BY <2>1, KindsDiffer
    <2>4. \A k : Removal(other, k).kind = "view" /\ Insertion(one, k).kind = "view"
      BY KindsDiffer
    <2>5. QED
      BY <2>2, <2>3, <2>4, MidwayKept
  <1>2. CASE \E kind \in ItemKind : \E t \in ItemsGo(one, other, kind) :
               /\ order[n] = Step("remove", kind, other, t) /\ t.key \in Common(one, other)
               /\ Took(config, new, kind, t)
    <2>1. PICK kind \in ItemKind : \E t \in ItemsGo(one, other, kind) :
               /\ order[n] = Step("remove", kind, other, t) /\ t.key \in Common(one, other)
               /\ Took(config, new, kind, t)
      BY <1>2
    <2>2. PICK t \in ItemsGo(one, other, kind) :
               order[n] = Step("remove", kind, other, t) /\ Took(config, new, kind, t)
      BY <2>1
    <2>3. SameRow(config, new)
      BY <2>2 DEF Took, WroteList, DiffersIn
    <2>4. order[n].kind = kind /\ kind # "view"
      BY <2>2 DEF Step, ItemKind
    <2>5. \A k : Removal(other, k).kind = "view" /\ Insertion(one, k).kind = "view"
      BY KindsDiffer
    <2>6. QED
      BY <2>3, <2>4, <2>5, MidwayKept
  <1>3. CASE \E kind \in ItemKind : \E t \in ItemsCome(one, other, kind) :
               /\ order[n] = Step("insert", kind, one, t) /\ t.key \in Common(one, other)
               /\ Gave(config, new, kind, t)
    <2>1. PICK kind \in ItemKind : \E t \in ItemsCome(one, other, kind) :
               /\ order[n] = Step("insert", kind, one, t) /\ t.key \in Common(one, other)
               /\ Gave(config, new, kind, t)
      BY <1>3
    <2>2. PICK t \in ItemsCome(one, other, kind) :
               order[n] = Step("insert", kind, one, t) /\ Gave(config, new, kind, t)
      BY <2>1
    <2>3. SameRow(config, new)
      BY <2>2 DEF Gave, WroteList, DiffersIn
    <2>4. order[n].kind = kind /\ kind # "view"
      BY <2>2 DEF Step, ItemKind
    <2>5. \A k : Removal(other, k).kind = "view" /\ Insertion(one, k).kind = "view"
      BY KindsDiffer
    <2>6. QED
      BY <2>3, <2>4, <2>5, MidwayKept
  <1>4. CASE \E k \in Extra(other, one) : order[n] = Removal(other, k) /\ RowLess(config, new, k)
    BY <1>4, MidwayLess
  <1>5. CASE \E k \in Extra(one, other) :
               order[n] = Insertion(one, k) /\ RowMore(config, new, k, Index(one, k), View(one, k))
    BY <1>5, MidwayMore
  <1>6. QED
    BY <1>1, <1>2, <1>3, <1>4, <1>5 DEF Effect

(* What the settings leave is the row of views as it stood.                *)
LEMMA AtTheStart ==
    ASSUME NEW one, NEW other, AtOnce(one, other), PlacesHold(one, other), NEW order, NEW c,
           c = WriteSettings(other, PlanUndo(one, other, other).settings)
    PROVE  /\ Midway(one, other, order, 0, c)
           /\ \A k \in Keys(other) :
                /\ k \in Keys(c) /\ View(c, k).layout = View(other, k).layout
                /\ View(c, k).cards = View(other, k).cards
                /\ View(c, k).badges = View(other, k).badges
                /\ View(c, k).sections = View(other, k).sections
                /\ k \in Keys(one) => View(c, k).title = View(one, k).title
  <1>1. one \in Configs /\ other \in Configs /\ ~PathsCollide(one) /\ ~PathsCollide(other)
    BY PlanAtOnce DEF AtOnce
  <1>2. /\ c \in Configs /\ c.title = one.title /\ Len(c.views) = Len(other.views)
        /\ \A v \in 1 .. Len(other.views) :
             /\ c.views[v].path = other.views[v].path /\ c.views[v].layout = other.views[v].layout
             /\ c.views[v].cards = other.views[v].cards
             /\ c.views[v].badges = other.views[v].badges
             /\ c.views[v].sections = other.views[v].sections
             /\ Key(other, v) \in Keys(one) => c.views[v].title = View(one, Key(other, v)).title
    BY SettingsGoBack
  <1>4. DOMAIN c.views = 1 .. Len(other.views) /\ DOMAIN other.views = 1 .. Len(other.views)
    BY <1>1, <1>2, ViewsAre
  <1>5. \A v \in DOMAIN other.views : Key(c, v) = Key(other, v)
    BY <1>2, <1>4 DEF Key
  <1>6. Keys(c) = Keys(other)
    BY <1>4, <1>5 DEF Keys
  <1>7. ~PathsCollide(c)
    BY <1>1, <1>2, <1>4 DEF PathsCollide
  <1>8. ASSUME NEW k \in Keys(other)
        PROVE  /\ Index(c, k) = Index(other, k)
               /\ Index(other, k) \in DOMAIN other.views /\ Key(other, Index(other, k)) = k
    <2>1. Index(other, k) \in DOMAIN other.views /\ Key(other, Index(other, k)) = k
      BY <1>1, ViewNamed
    <2>2. Index(c, k) = Index(other, k)
      <3>1. Key(c, Index(other, k)) = k /\ Index(other, k) \in DOMAIN c.views
        BY <1>4, <1>5, <2>1
      <3>2. QED
        BY <1>2, <1>7, <3>1, KeyNamesOne
    <2>4. QED
      BY <2>1, <2>2
  <1>10. Standing(one, other, c)
    <2>1. ~Pathless(other) => ~Pathless(c)
      BY <1>2, <1>4 DEF Pathless
    <2>2. Common(one, other) \subseteq Keys(c)
      BY <1>6 DEF Common
    <2>3. Keys(one) = Keys(other) \/ ~Pathless(c)
      BY <2>1 DEF PlacesHold
    <2>4. QED
      BY <1>2, <1>7, <2>2, <2>3 DEF Standing
  <1>11. Going(one, other, order, 0) = Extra(other, one) /\ Coming(one, other, order, 0) = {}
    BY DEF Going, Coming
  <1>12. Keys(c) = Common(one, other) \cup Going(one, other, order, 0)
                     \cup Coming(one, other, order, 0)
    BY <1>6, <1>11 DEF Common, Extra
  <1>13. ASSUME NEW k \in Keys(other)
         PROVE  /\ View(c, k).layout = View(other, k).layout
                /\ View(c, k).cards = View(other, k).cards
                /\ View(c, k).badges = View(other, k).badges
                /\ View(c, k).sections = View(other, k).sections
                /\ k \in Keys(one) => View(c, k).title = View(one, k).title
    BY <1>2, <1>4, <1>8 DEF View
  <1>14. QED
    BY <1>2, <1>6, <1>10, <1>12, <1>13 DEF Midway

(* Every step of an undo at once has its effect.                           *)
LEMMA AllTheWay ==
    ASSUME NEW one, NEW other, NEW order, NEW c, UnderWay(one, other, order, c)
    PROVE  /\ Len(order) \in Nat
           /\ \A n \in 0 .. Len(order) : c[n] \in Configs /\ Midway(one, other, order, n, c[n])
           /\ \A n \in 1 .. Len(order) : Effect(one, other, order[n], c[n - 1], c[n])
  <1> DEFINE plan == PlanUndo(one, other, other)
             N == Len(order)
             T == {n \in 0 .. N : Midway(one, other, order, n, c[n])}
  <1>1. /\ AtOnce(one, other) /\ PlacesHold(one, other)
        /\ Carried(c, order, plan, other)
    BY DEF UnderWay
  <1>2. /\ N \in Nat
        /\ Ordered(order, plan.steps, ByTurn(plan.steps))
        /\ c[0] = WriteSettings(other, plan.settings)
        /\ \A n \in 0 .. N : c[n] \in Configs
        /\ \A n \in 1 .. N : order[n] \in plan.steps /\ c[n] \in CarryOut(c[n - 1], order[n])
    BY <1>1 DEF Carried
  <1>3. \A i, j \in 1 .. N : order[i] = order[j] => i = j
    BY <1>2 DEF Ordered
  <1> HIDE DEF N
  <1>4. 0 \in T
    <2>1. c[0] = WriteSettings(other, PlanUndo(one, other, other).settings)
      BY <1>2
    <2>2. Midway(one, other, order, 0, c[0])
      BY <1>1, <2>1, AtTheStart
    <2>3. QED
      BY <1>2, <2>2
  <1>5. ASSUME NEW n \in 1 .. N, n - 1 \in T
        PROVE  Effect(one, other, order[n], c[n - 1], c[n]) /\ n \in T
    <2>1. Midway(one, other, order, n - 1, c[n - 1]) /\ n \in Nat \ {0}
      BY <1>5, <1>2
    <2>2. ASSUME NEW k \in Extra(one, other), order[n] = Insertion(one, k)
          PROVE  k \notin Keys(c[n - 1])
      <3>1. k \notin Keys(other)
        BY DEF Extra
      <3>2. k \notin Common(one, other) /\ k \notin Going(one, other, order, n - 1)
        BY <3>1 DEF Common, Going, Extra
      <3>3. k \notin Coming(one, other, order, n - 1)
        <4>1. ASSUME NEW m \in 1 .. n - 1, order[m] = Insertion(one, k) PROVE FALSE
          <5>1. m \in 1 .. N /\ m # n
            BY <1>2
          <5>2. QED
            BY <1>3, <2>2, <4>1, <5>1
        <4>2. QED
          BY <4>1 DEF Coming
      <3>4. QED
        BY <2>1, <3>2, <3>3 DEF Midway
    <2>3. order[n] \in plan.steps /\ c[n] \in CarryOut(c[n - 1], order[n])
      BY <1>2
    <2>4. Standing(one, other, c[n - 1])
      BY <2>1 DEF Midway
    <2>5. Effect(one, other, order[n], c[n - 1], c[n])
      BY <1>1, <2>2, <2>3, <2>4, EffectIs
    <2>6. Midway(one, other, order, n, c[n])
      BY <1>1, <2>1, <2>5, MidwayOn
    <2>7. QED
      BY <2>5, <2>6
  <1>6. \A n \in 0 .. N : n \in T
    <2> HIDE DEF T
    <2>1. QED
      BY <1>2, <1>4, <1>5, UpTo
  <1>7. \A n \in 1 .. N : Effect(one, other, order[n], c[n - 1], c[n])
    <2>1. \A n \in 1 .. N : n - 1 \in 0 .. N
      BY <1>2
    <2>2. QED
      BY <1>5, <1>6, <2>1
  <1>8. QED
    BY <1>2, <1>6, <1>7 DEF N

(* Of a view both states have: what holds of it all along.                 *)
OnCourse(one, other, order, n, config, k) ==
  LET was == View(one, k)
      view == View(config, k)
  IN  /\ view.title = was.title /\ view.layout = was.layout
      /\ k \notin Written(one, other) =>
           /\ Len(view.sections) = Len(was.sections)
           /\ \A l \in 1 .. Len(was.sections) : view.sections[l].own = was.sections[l].own
      /\ k \in Written(one, other) =>
           /\ view.cards = was.cards
           /\ (\E m \in 1 .. n : order[m] = Row(one, other, k)) => view.sections = was.sections

(* A row of sections is written in one view.                               *)
LEMMA RowsDiffer ==
    ASSUME NEW one, NEW other \in Configs, ~PathsCollide(other),
           NEW j \in Keys(other), NEW k \in Keys(other), Row(one, other, j) = Row(one, other, k)
    PROVE  j = k
  <1>1. Key(other, Index(other, j)) = j /\ Key(other, Index(other, k)) = k
    BY ViewNamed
  <1>2. Row(one, other, j).at = Index(other, j) /\ Row(one, other, k).at = Index(other, k)
    BY DEF Row, SectionsStep
  <1>3. QED
    BY <1>1, <1>2

(* A view as it was stays on course, if its row is not what is written.    *)
LEMMA CourseKept ==
    ASSUME NEW one, NEW other, NEW order, NEW n \in Nat \ {0}, NEW config, NEW new, NEW k,
           OnCourse(one, other, order, n - 1, config, k),
           order[n] # Row(one, other, k), View(new, k) = View(config, k)
    PROVE  OnCourse(one, other, order, n, new, k)
  <1>1. 1 .. n = (1 .. n - 1) \cup {n}
    OBVIOUS
  <1>2. (\E m \in 1 .. n : order[m] = Row(one, other, k))
          <=> \E m \in 1 .. n - 1 : order[m] = Row(one, other, k)
    BY <1>1
  <1>3. QED
    BY <1>2 DEF OnCourse

(* So does a view of which one list is written, when the cards of a view   *)
(* whose row is written are let be.                                        *)
LEMMA CourseOfList ==
    ASSUME NEW one, NEW other, NEW order, NEW n \in Nat \ {0}, NEW config, NEW new, NEW k,
           OnCourse(one, other, order, n - 1, config, k),
           order[n] # Row(one, other, k),
           NEW kind \in ItemKind, NEW l, NEW items,
           ListWritten(View(new, k), View(config, k), kind, l, items),
           kind = "card" => k \notin Written(one, other)
    PROVE  OnCourse(one, other, order, n, new, k)
  <1>1. 1 .. n = (1 .. n - 1) \cup {n}
    OBVIOUS
  <1>2. (\E m \in 1 .. n : order[m] = Row(one, other, k))
          <=> \E m \in 1 .. n - 1 : order[m] = Row(one, other, k)
    BY <1>1
  <1> DEFINE was == View(one, k)
             view == View(config, k)
             next == View(new, k)
  <1>3. /\ next.title = view.title /\ next.layout = view.layout
        /\ Len(next.sections) = Len(view.sections)
        /\ \A s \in 1 .. Len(view.sections) : next.sections[s].own = view.sections[s].own
        /\ kind = "badge" => next.sections = view.sections /\ next.cards = view.cards
    BY DEF ListWritten
  <1>4. view.title = was.title /\ view.layout = was.layout
    BY DEF OnCourse
  <1>5. k \notin Written(one, other) =>
           /\ Len(view.sections) = Len(was.sections)
           /\ \A s \in 1 .. Len(was.sections) : view.sections[s].own = was.sections[s].own
    BY DEF OnCourse
  <1>6. k \in Written(one, other) =>
           /\ view.cards = was.cards
           /\ (\E m \in 1 .. n - 1 : order[m] = Row(one, other, k)) => view.sections = was.sections
    BY DEF OnCourse
  <1>7. k \in Written(one, other) => kind = "badge"
    BY DEF ItemKind
  <1> HIDE DEF was, view, next
  <1>8. /\ next.title = was.title /\ next.layout = was.layout
        /\ k \notin Written(one, other) =>
             /\ Len(next.sections) = Len(was.sections)
             /\ \A s \in 1 .. Len(was.sections) : next.sections[s].own = was.sections[s].own
    BY <1>3, <1>4, <1>5
  <1>9. k \in Written(one, other) =>
           /\ next.cards = was.cards
           /\ (\E m \in 1 .. n : order[m] = Row(one, other, k)) => next.sections = was.sections
    BY <1>2, <1>3, <1>6, <1>7
  <1>10. QED
    BY <1>8, <1>9 DEF OnCourse, was, next

(* A view both states have stays on course.                                *)
LEMMA CourseOn ==
    ASSUME NEW one, NEW other, AtOnce(one, other), NEW order, NEW n \in Nat \ {0}, NEW config,
           Midway(one, other, order, n - 1, config), NEW new,
           Effect(one, other, order[n], config, new),
           NEW k \in Common(one, other), OnCourse(one, other, order, n - 1, config, k)
    PROVE  OnCourse(one, other, order, n, new, k)
  <1>1. other \in Configs /\ ~PathsCollide(other)
    BY PlanAtOnce DEF AtOnce
  <1>2. k \in Keys(other) /\ k \in Keys(one) /\ k \in Keys(config)
    BY DEF Common, Midway, Standing
  <1>3. Row(one, other, k).kind = "sections"
    BY KindsDiffer
  <1>4. ASSUME NEW t \in ItemsGo(one, other, "card") \cup ItemsCome(one, other, "card"), t.key = k
        PROVE  k \notin Written(one, other)
    <2>1. SUFFICES ASSUME k \in Written(one, other) PROVE FALSE
      OBVIOUS
    <2>2. QED
      BY <1>4, <2>1, RowGoesBack
  <1>5. CASE \E key \in Written(one, other) :
               order[n] = Row(one, other, key) /\ WroteRow(one, other, config, new, key)
    <2>1. PICK key \in Written(one, other) :
            order[n] = Row(one, other, key) /\ WroteRow(one, other, config, new, key)
      BY <1>5
    <2>2. key \in Keys(other)
      BY DEF Written
    <2>3. CASE key = k
      <3>1. /\ View(new, k) = [View(config, k) EXCEPT !.sections = View(one, k).sections]
            /\ View(config, k) \in Views
        <4>1. config \in Configs
          BY DEF Midway, Standing
        <4>2. QED
          BY <1>2, <2>1, <2>3, <4>1, KeyedView DEF WroteRow
      <3>2. /\ View(new, k).sections = View(one, k).sections
            /\ View(new, k).title = View(config, k).title
            /\ View(new, k).layout = View(config, k).layout
            /\ View(new, k).cards = View(config, k).cards
        BY <3>1 DEF Views
      <3>3. k \in Written(one, other)
        BY <2>3
      <3>4. QED
        BY <3>2, <3>3 DEF OnCourse
    <2>4. CASE key # k
      <3>1. order[n] # Row(one, other, k)
        BY <1>1, <1>2, <2>1, <2>2, <2>4, RowsDiffer
      <3>2. View(new, k) = View(config, k)
        BY <1>2, <2>1, <2>4 DEF WroteRow, DiffersIn
      <3>3. QED
        BY <3>1, <3>2, CourseKept
    <2>5. QED
      BY <2>3, <2>4
  <1>6. ASSUME NEW kind \in ItemKind, NEW t, NEW items,
               WroteList(config, new, t.key, kind, t.list, items), order[n].kind = kind,
               t \in ItemsGo(one, other, kind) \cup ItemsCome(one, other, kind)
        PROVE  OnCourse(one, other, order, n, new, k)
    <2>1. order[n] # Row(one, other, k)
      BY <1>3, <1>6 DEF ItemKind
    <2>2. CASE t.key = k
      <3>1. ListWritten(View(new, k), View(config, k), kind, t.list, items)
        BY <1>6, <2>2 DEF WroteList
      <3>2. kind = "card" => k \notin Written(one, other)
        BY <1>4, <1>6, <2>2
      <3>3. QED
        BY <2>1, <3>1, <3>2, CourseOfList
    <2>3. CASE t.key # k
      <3>1. View(new, k) = View(config, k)
        BY <1>2, <1>6, <2>3 DEF WroteList, DiffersIn
      <3>2. QED
        BY <2>1, <3>1, CourseKept
    <2>4. QED
      BY <2>2, <2>3
  <1>7. CASE \E kind \in ItemKind : \E t \in ItemsGo(one, other, kind) :
               /\ order[n] = Step("remove", kind, other, t) /\ t.key \in Common(one, other)
               /\ Took(config, new, kind, t)
    <2>1. PICK kind \in ItemKind : \E t \in ItemsGo(one, other, kind) :
               /\ order[n] = Step("remove", kind, other, t) /\ t.key \in Common(one, other)
               /\ Took(config, new, kind, t)
      BY <1>7
    <2>2. PICK t \in ItemsGo(one, other, kind) :
               order[n] = Step("remove", kind, other, t) /\ Took(config, new, kind, t)
      BY <2>1
    <2>3. order[n].kind = kind
      BY <2>2 DEF Step
    <2>4. \E items : WroteList(config, new, t.key, kind, t.list, items)
      BY <2>2 DEF Took
    <2>5. QED
      BY <1>6, <2>3, <2>4
  <1>8. CASE \E kind \in ItemKind : \E t \in ItemsCome(one, other, kind) :
               /\ order[n] = Step("insert", kind, one, t) /\ t.key \in Common(one, other)
               /\ Gave(config, new, kind, t)
    <2>1. PICK kind \in ItemKind : \E t \in ItemsCome(one, other, kind) :
               /\ order[n] = Step("insert", kind, one, t) /\ t.key \in Common(one, other)
               /\ Gave(config, new, kind, t)
      BY <1>8
    <2>2. PICK t \in ItemsCome(one, other, kind) :
               order[n] = Step("insert", kind, one, t) /\ Gave(config, new, kind, t)
      BY <2>1
    <2>3. order[n].kind = kind
      BY <2>2 DEF Step
    <2>4. \E items : WroteList(config, new, t.key, kind, t.list, items)
      BY <2>2 DEF Gave
    <2>5. QED
      BY <1>6, <2>3, <2>4
  <1>9. CASE \E j \in Extra(other, one) : order[n] = Removal(other, j) /\ RowLess(config, new, j)
    <2>1. PICK j \in Extra(other, one) : order[n] = Removal(other, j) /\ RowLess(config, new, j)
      BY <1>9
    <2>2. j # k
      BY <1>2 DEF Extra
    <2>3. View(new, k) = View(config, k)
      BY <1>2, <2>1, <2>2 DEF RowLess
    <2>4. order[n] # Row(one, other, k)
      <3>1. order[n].kind = "view"
        BY <2>1 DEF Removal, Insertion, ViewStep
      <3>2. QED
        BY <1>3, <3>1
    <2>5. QED
      BY <2>3, <2>4, CourseKept
  <1>10. CASE \E j \in Extra(one, other) :
               order[n] = Insertion(one, j) /\ RowMore(config, new, j, Index(one, j), View(one, j))
    <2>1. PICK j \in Extra(one, other) :
            order[n] = Insertion(one, j) /\ RowMore(config, new, j, Index(one, j), View(one, j))
      BY <1>10
    <2>2. View(new, k) = View(config, k)
      BY <1>2, <2>1 DEF RowMore
    <2>3. order[n] # Row(one, other, k)
      <3>1. order[n].kind = "view"
        BY <2>1 DEF Removal, Insertion, ViewStep
      <3>2. QED
        BY <1>3, <3>1
    <2>4. QED
      BY <2>2, <2>3, CourseKept
  <1>11. QED
    BY <1>5, <1>7, <1>8, <1>9, <1>10 DEF Effect

(* A view both states have is on course when the settings are written.     *)
LEMMA CourseAtStart ==
    ASSUME NEW one, NEW other, AtOnce(one, other), PlacesHold(one, other), NEW order, NEW c,
           c = WriteSettings(other, PlanUndo(one, other, other).settings),
           NEW k \in Common(one, other)
    PROVE  OnCourse(one, other, order, 0, c, k)
  <1>1. /\ k \in Keys(one) /\ k \in Keys(other) /\ k \in Keys(one) \cap Keys(other)
    BY DEF Common
  <1>2. /\ View(c, k).layout = View(other, k).layout
        /\ View(c, k).cards = View(other, k).cards
        /\ View(c, k).sections = View(other, k).sections
        /\ View(c, k).title = View(one, k).title
    BY <1>1, AtTheStart
  <1>3. View(one, k).layout = View(other, k).layout
    <2>1. k \in ComparedViews(one, other)
      BY <1>1, PlanAtOnce
    <2>2. QED
      BY <2>1 DEF ComparedViews
  <1>4. ASSUME k \notin Written(one, other)
        PROVE  /\ Len(View(other, k).sections) = Len(View(one, k).sections)
               /\ \A l \in 1 .. Len(View(one, k).sections) :
                    View(other, k).sections[l].own = View(one, k).sections[l].own
    <2>1. SectionsPlan(one, other, k) = {}
      BY <1>1, <1>4 DEF Written
    <2>2. InStep(one, other, k)
      BY <1>1, <2>1, CardsUndoable
    <2>3. QED
      BY <2>2 DEF InStep
  <1>5. ASSUME k \in Written(one, other)
        PROVE  View(other, k).cards = View(one, k).cards
    BY <1>5, RowGoesBack
  <1>6. \A m \in 1 .. 0 : FALSE
    OBVIOUS
  <1>7. QED
    BY <1>2, <1>3, <1>4, <1>5, <1>6 DEF OnCourse

(* And it stays so to the end.                                             *)
LEMMA CourseAllTheWay ==
    ASSUME NEW one, NEW other, NEW order, NEW c, UnderWay(one, other, order, c),
           NEW k \in Common(one, other)
    PROVE  \A n \in 0 .. Len(order) : OnCourse(one, other, order, n, c[n], k)
  <1> DEFINE N == Len(order)
             T == {n \in 0 .. N : OnCourse(one, other, order, n, c[n], k)}
  <1>1. /\ AtOnce(one, other) /\ PlacesHold(one, other)
        /\ c[0] = WriteSettings(other, PlanUndo(one, other, other).settings)
    BY DEF UnderWay, Carried
  <1>2. /\ N \in Nat
        /\ \A n \in 0 .. N : c[n] \in Configs /\ Midway(one, other, order, n, c[n])
        /\ \A n \in 1 .. N : Effect(one, other, order[n], c[n - 1], c[n])
    BY AllTheWay
  <1> HIDE DEF N
  <1>3. 0 \in T
    <2>1. OnCourse(one, other, order, 0, c[0], k)
      BY <1>1, CourseAtStart
    <2>2. QED
      BY <1>2, <2>1
  <1>4. ASSUME NEW n \in 1 .. N, n - 1 \in T PROVE n \in T
    <2>1. n - 1 \in 0 .. N /\ n \in Nat \ {0} /\ OnCourse(one, other, order, n - 1, c[n - 1], k)
      BY <1>2, <1>4
    <2>2. Midway(one, other, order, n - 1, c[n - 1]) /\ Effect(one, other, order[n], c[n - 1], c[n])
      BY <1>2, <2>1
    <2>3. OnCourse(one, other, order, n, c[n], k)
      BY <1>1, <2>1, <2>2, CourseOn
    <2>4. QED
      BY <1>2, <2>3
  <1>5. \A n \in 0 .. N : n \in T
    <2> HIDE DEF T
    <2>1. QED
      BY <1>2, <1>3, <1>4, UpTo
  <1>6. QED
    BY <1>5 DEF N

(* A view that came is as it was.                                          *)
LEMMA CameAsItWas ==
    ASSUME NEW one, NEW other, AtOnce(one, other), NEW order, NEW n \in Nat \ {0}, NEW config,
           Midway(one, other, order, n - 1, config), NEW new,
           Effect(one, other, order[n], config, new),
           \A k \in Coming(one, other, order, n - 1) : View(config, k) = View(one, k)
    PROVE  \A k \in Coming(one, other, order, n) : View(new, k) = View(one, k)
  <1>1. SUFFICES ASSUME NEW k \in Coming(one, other, order, n)
                 PROVE  View(new, k) = View(one, k)
    OBVIOUS
  <1>2. one \in Configs /\ ~PathsCollide(one)
    BY PlanAtOnce DEF AtOnce
  <1>3. k \in Extra(one, other) /\ k \in Keys(one) /\ k \notin Common(one, other)
    BY DEF Coming, Extra, Common
  <1>4. 1 .. n = (1 .. n - 1) \cup {n}
    OBVIOUS
  <1>5. Coming(one, other, order, n - 1) \subseteq Keys(config)
    BY DEF Midway
  <1>6. CASE order[n] = Insertion(one, k)
    <2>1. order[n].kind = "view" /\ order[n].action = "insert"
      BY <1>6 DEF Insertion, ViewStep
    <2>2. \A key : Row(one, other, key).kind = "sections"
      BY KindsDiffer
    <2>3. \A action, kind, which, t : Step(action, kind, which, t).kind = kind
      BY KindsDiffer
    <2>4. \A j : Removal(other, j).action = "remove"
      BY KindsDiffer
    <2>5. "view" \notin ItemKind
      BY KindsDiffer
    <2>6. PICK j \in Extra(one, other) :
            order[n] = Insertion(one, j) /\ RowMore(config, new, j, Index(one, j), View(one, j))
      BY <2>1, <2>2, <2>3, <2>4, <2>5 DEF Effect
    <2>7. j \in Keys(one)
      BY DEF Extra
    <2>8. j = k
      BY <1>2, <1>3, <1>6, <2>6, <2>7, ViewStepsDiffer
    <2>9. QED
      BY <2>6, <2>8 DEF RowMore
  <1>7. CASE order[n] # Insertion(one, k)
    <2>1. k \in Coming(one, other, order, n - 1)
      BY <1>3, <1>4, <1>7 DEF Coming
    <2>2. View(config, k) = View(one, k) /\ k \in Keys(config)
      BY <1>5, <2>1
    <2>3. View(new, k) = View(config, k)
      <3>1. CASE \E key \in Written(one, other) :
                   order[n] = Row(one, other, key) /\ WroteRow(one, other, config, new, key)
        <4>1. PICK key \in Written(one, other) : WroteRow(one, other, config, new, key)
          BY <3>1
        <4>2. key # k
          BY <1>3 DEF Written, Common
        <4>3. QED
          BY <2>2, <4>1, <4>2 DEF WroteRow, DiffersIn
      <3>2. CASE \E kind \in ItemKind : \E t \in ItemsGo(one, other, kind) :
                   /\ order[n] = Step("remove", kind, other, t) /\ t.key \in Common(one, other)
                   /\ Took(config, new, kind, t)
        <4>1. \E kind, t : t.key \in Common(one, other) /\ Took(config, new, kind, t)
          BY <3>2
        <4>2. PICK kind, t : t.key \in Common(one, other) /\ Took(config, new, kind, t)
          BY <4>1
        <4>3. t.key # k
          BY <1>3, <4>2
        <4>4. QED
          BY <2>2, <4>2, <4>3 DEF Took, WroteList, DiffersIn
      <3>3. CASE \E kind \in ItemKind : \E t \in ItemsCome(one, other, kind) :
                   /\ order[n] = Step("insert", kind, one, t) /\ t.key \in Common(one, other)
                   /\ Gave(config, new, kind, t)
        <4>1. \E kind, t : t.key \in Common(one, other) /\ Gave(config, new, kind, t)
          BY <3>3
        <4>2. PICK kind, t : t.key \in Common(one, other) /\ Gave(config, new, kind, t)
          BY <4>1
        <4>3. t.key # k
          BY <1>3, <4>2
        <4>4. QED
          BY <2>2, <4>2, <4>3 DEF Gave, WroteList, DiffersIn
      <3>4. CASE \E j \in Extra(other, one) : order[n] = Removal(other, j) /\ RowLess(config, new, j)
        <4>1. PICK j \in Extra(other, one) : RowLess(config, new, j)
          BY <3>4
        <4>2. j # k
          BY <1>3 DEF Extra
        <4>3. QED
          BY <2>2, <4>1, <4>2 DEF RowLess
      <3>5. CASE \E j \in Extra(one, other) :
                   /\ order[n] = Insertion(one, j)
                   /\ RowMore(config, new, j, Index(one, j), View(one, j))
        <4>1. PICK j \in Extra(one, other) :
                RowMore(config, new, j, Index(one, j), View(one, j))
          BY <3>5
        <4>2. QED
          BY <2>2, <4>1 DEF RowMore
      <3>6. QED
        BY <3>1, <3>2, <3>3, <3>4, <3>5 DEF Effect
    <2>4. QED
      BY <2>2, <2>3
  <1>8. QED
    BY <1>6, <1>7

(* At the end the views are those there were: what was to go is gone, what *)
(* was to come has come, as it was, and the rows are written.              *)
LEMMA AtTheEnd ==
    ASSUME NEW one, NEW other, NEW order, NEW c, UnderWay(one, other, order, c)
    PROVE  LET result == c[Len(order)]
           IN  /\ result \in Configs /\ ~PathsCollide(result) /\ result.title = one.title
               /\ Keys(result) = Keys(one)
               /\ \A k \in Extra(one, other) : View(result, k) = View(one, k)
               /\ \A k \in Written(one, other) : \E m \in 1 .. Len(order) : order[m] = Row(one, other, k)
  <1> DEFINE N == Len(order)
             steps == PlanUndo(one, other, other).steps
             T == {n \in 0 .. N : \A k \in Coming(one, other, order, n) : View(c[n], k) = View(one, k)}
  <1>1. AtOnce(one, other) /\ PlacesHold(one, other) /\ Ordered(order, steps, ByTurn(steps))
    BY DEF UnderWay, Carried
  <1>2. /\ N \in Nat
        /\ \A n \in 0 .. N : c[n] \in Configs /\ Midway(one, other, order, n, c[n])
        /\ \A n \in 1 .. N : Effect(one, other, order[n], c[n - 1], c[n])
    BY AllTheWay
  <1>3. \A s \in steps : \E m \in 1 .. N : order[m] = s
    BY <1>1 DEF Ordered
  <1>4. steps = ({Row(one, other, key) : key \in Written(one, other)}
                \cup ItemsWritten(one, other, "card") \cup ItemsWritten(one, other, "badge"))
             \cup ({Removal(other, k) : k \in Extra(other, one)}
                     \cup {Insertion(one, k) : k \in Extra(one, other)})
    BY <1>1, StepsAtOnce
  <1> HIDE DEF N, steps
  <1>5. /\ \A k \in Written(one, other) : Row(one, other, k) \in steps
        /\ \A k \in Extra(other, one) : Removal(other, k) \in steps
        /\ \A k \in Extra(one, other) : Insertion(one, k) \in steps
    BY <1>4
  <1>6. Going(one, other, order, N) = {} /\ Coming(one, other, order, N) = Extra(one, other)
    BY <1>3, <1>5 DEF Going, Coming
  <1>7. 0 \in T
    BY <1>2 DEF Coming
  <1>8. ASSUME NEW n \in 1 .. N, n - 1 \in T PROVE n \in T
    <2>1. n - 1 \in 0 .. N /\ n \in Nat \ {0} /\ n \in 0 .. N
      BY <1>2
    <2>2. \A k \in Coming(one, other, order, n - 1) : View(c[n - 1], k) = View(one, k)
      BY <1>8
    <2>3. Midway(one, other, order, n - 1, c[n - 1]) /\ Effect(one, other, order[n], c[n - 1], c[n])
      BY <1>2, <2>1
    <2>4. \A k \in Coming(one, other, order, n) : View(c[n], k) = View(one, k)
      BY <1>1, <2>1, <2>2, <2>3, CameAsItWas
    <2>5. QED
      BY <2>1, <2>4
  <1>9. \A n \in 0 .. N : n \in T
    <2> HIDE DEF T
    <2>1. QED
      BY <1>2, <1>7, <1>8, UpTo
  <1>10. \A k \in Extra(one, other) : View(c[N], k) = View(one, k)
    BY <1>2, <1>6, <1>9
  <1>11. Midway(one, other, order, N, c[N])
    BY <1>2
  <1>12. Keys(c[N]) = Keys(one)
    BY <1>6, <1>11 DEF Midway, Common, Extra
  <1>13. c[N] \in Configs /\ ~PathsCollide(c[N]) /\ c[N].title = one.title
    BY <1>11 DEF Midway, Standing
  <1>14. QED
    BY <1>3, <1>5, <1>10, <1>12, <1>13 DEF N

(* The step for the item at one place.                                     *)
ItemStep(action, config, kind, key, l, i) ==
  Step(action, kind, config,
       [at |-> Index(config, key), list |-> l, index |-> i,
        card |-> ListAt(config, kind, key, l)[i]])

(* The step for an item is the step for the place it stands in.            *)
LEMMA ItemStepIs ==
    ASSUME NEW config \in Configs, ~PathsCollide(config), NEW keys, NEW kind,
           NEW t \in Slots(config, keys, kind), NEW action
    PROVE  Step(action, kind, config, t) = ItemStep(action, config, kind, t.key, t.list, t.index)
  <1>1. t.at = Index(config, t.key) /\ t.card = ListAt(config, kind, t.key, t.list)[t.index]
    BY StandsAt
  <1>2. QED
    BY <1>1 DEF Step, ItemStep

(* Its fields, and its turn.                                               *)
LEMMA ItemStepFields ==
    ASSUME NEW action, NEW config, NEW kind, NEW key, NEW l, NEW i
    PROVE  LET s == ItemStep(action, config, kind, key, l, i)
           IN  s.action = action /\ s.kind = kind /\ s.index = i /\ s.list = l
               /\ s.at = Index(config, key)
  BY DEF ItemStep, Step

KindNumber(kind) == IF kind = "card" THEN 1 ELSE 2

(* The turn of such a step: removals last first, insertions first first.   *)
LEMMA ItemTurn ==
    ASSUME NEW config, NEW kind \in ItemKind, NEW key, NEW l, NEW i
    PROVE  /\ Turn(ItemStep("remove", config, kind, key, l, i))
                = <<1, -i, KindNumber(kind), Index(config, key), l>>
           /\ Turn(ItemStep("insert", config, kind, key, l, i))
                = <<4, i, KindNumber(kind), Index(config, key), l>>
  <1> DEFINE s == ItemStep("remove", config, kind, key, l, i)
             t == ItemStep("insert", config, kind, key, l, i)
  <1>1. /\ s.action = "remove" /\ s.kind = kind /\ s.index = i /\ s.list = l /\ s.parked = FALSE
        /\ s.at = Index(config, key)
    BY DEF ItemStep, Step
  <1>2. /\ t.action = "insert" /\ t.kind = kind /\ t.index = i /\ t.list = l /\ t.parked = FALSE
        /\ t.at = Index(config, key)
    BY DEF ItemStep, Step
  <1> HIDE DEF s, t
  <1>3. ASSUME kind = "card"
        PROVE  /\ Turn(s) = <<1, -i, KindNumber(kind), Index(config, key), l>>
               /\ Turn(t) = <<4, i, KindNumber(kind), Index(config, key), l>>
    BY <1>1, <1>2, <1>3 DEF Turn, Rank, KindNumber, ItemKinds
  <1>4. ASSUME kind = "badge"
        PROVE  /\ Turn(s) = <<1, -i, KindNumber(kind), Index(config, key), l>>
               /\ Turn(t) = <<4, i, KindNumber(kind), Index(config, key), l>>
    BY <1>1, <1>2, <1>4 DEF Turn, Rank, KindNumber, ItemKinds
  <1>5. QED
    BY <1>3, <1>4 DEF ItemKind, s, t

(* A step takes, or gives back, the item at this place of a list.          *)
TakesAt(one, other, kind, key, l, s, i) ==
  SlotIn(ItemsGo(one, other, kind), key, l, i) /\ s = ItemStep("remove", other, kind, key, l, i)

GivesAt(one, other, kind, key, l, s, i) ==
  SlotIn(ItemsCome(one, other, kind), key, l, i) /\ s = ItemStep("insert", one, kind, key, l, i)

OutAt(one, other, kind, key, l, s) ==
  IF \E i : TakesAt(one, other, kind, key, l, s, i) THEN s.index ELSE 0

BackAt(one, other, kind, key, l, s) ==
  IF \E i : GivesAt(one, other, kind, key, l, s, i) THEN s.index ELSE 0

(* Where that is.                                                          *)
LEMMA OutAtIs ==
    ASSUME NEW one, NEW other, AtOnce(one, other), NEW kind \in ItemKind, NEW key, NEW l, NEW s
    PROVE  LET out == OutAt(one, other, kind, key, l, s)
           IN  /\ out # 0 => TakesAt(one, other, kind, key, l, s, out)
               /\ \A i : TakesAt(one, other, kind, key, l, s, i) =>
                    out = i /\ i \in 1 .. Len(ListAt(other, kind, key, l))
               /\ out = 0 => \A i : ~TakesAt(one, other, kind, key, l, s, i)
  <1> DEFINE out == OutAt(one, other, kind, key, l, s)
  <1>1. other \in Configs /\ one \in Configs /\ ~PathsCollide(other)
    BY PlanAtOnce DEF AtOnce
  <1>2. ASSUME NEW i, TakesAt(one, other, kind, key, l, s, i)
        PROVE  out = i /\ i \in 1 .. Len(ListAt(other, kind, key, l)) /\ i # 0
    <2>1. PICK t \in ItemsGo(one, other, kind) : Place(t) = <<key, l>> /\ t.index = i
      BY <1>2 DEF TakesAt, SlotIn
    <2>2. t \in Slots(other, Keys(one) \cap Keys(other), kind)
      BY <1>1, ItemsInCommon DEF ItemKind
    <2>3. t.key = key /\ t.list = l
      BY <2>1 DEF Place
    <2>4. t.index \in 1 .. Len(ListAt(other, kind, t.key, t.list))
      BY <1>1, <2>2, StandsAt
    <2>5. t.index \in Nat \ {0}
      BY <1>1, <2>2, StandsAt
    <2>6. s.index = i
      BY <1>2, ItemStepFields DEF TakesAt
    <2>7. QED
      BY <1>2, <2>1, <2>3, <2>4, <2>5, <2>6 DEF OutAt
  <1>3. ASSUME out # 0 PROVE TakesAt(one, other, kind, key, l, s, out)
    <2>1. PICK i : TakesAt(one, other, kind, key, l, s, i)
      BY <1>3 DEF OutAt
    <2>2. QED
      BY <1>2, <2>1
  <1> HIDE DEF out
  <1>4. QED
    BY <1>2, <1>3 DEF out

(* The place a step gives an item back to, likewise.                       *)
LEMMA BackAtIs ==
    ASSUME NEW one, NEW other, AtOnce(one, other), NEW kind \in ItemKind, NEW key, NEW l, NEW s
    PROVE  LET back == BackAt(one, other, kind, key, l, s)
           IN  /\ back # 0 => GivesAt(one, other, kind, key, l, s, back)
               /\ \A i : GivesAt(one, other, kind, key, l, s, i) =>
                    back = i /\ i \in 1 .. Len(ListAt(one, kind, key, l))
               /\ back = 0 => \A i : ~GivesAt(one, other, kind, key, l, s, i)
  <1> DEFINE back == BackAt(one, other, kind, key, l, s)
  <1>1. other \in Configs /\ one \in Configs /\ ~PathsCollide(one)
    BY PlanAtOnce DEF AtOnce
  <1>2. ASSUME NEW i, GivesAt(one, other, kind, key, l, s, i)
        PROVE  back = i /\ i \in 1 .. Len(ListAt(one, kind, key, l)) /\ i # 0
    <2>1. PICK t \in ItemsCome(one, other, kind) : Place(t) = <<key, l>> /\ t.index = i
      BY <1>2 DEF GivesAt, SlotIn
    <2>2. t \in Slots(one, Keys(one) \cap Keys(other), kind)
      BY <1>1, ItemsInCommon DEF ItemKind
    <2>3. t.key = key /\ t.list = l
      BY <2>1 DEF Place
    <2>4. t.index \in 1 .. Len(ListAt(one, kind, t.key, t.list))
      BY <1>1, <2>2, StandsAt
    <2>5. t.index \in Nat \ {0}
      BY <1>1, <2>2, StandsAt
    <2>6. s.index = i
      BY <1>2, ItemStepFields DEF GivesAt
    <2>7. QED
      BY <1>2, <2>1, <2>3, <2>4, <2>5, <2>6 DEF BackAt
  <1>3. ASSUME back # 0 PROVE GivesAt(one, other, kind, key, l, s, back)
    <2>1. PICK i : GivesAt(one, other, kind, key, l, s, i)
      BY <1>3 DEF BackAt
    <2>2. QED
      BY <1>2, <2>1
  <1> HIDE DEF back
  <1>4. QED
    BY <1>2, <1>3 DEF back

(* Which of two steps comes first.                                         *)
LEMMA NotBefore ==
    ASSUME NEW order, NEW steps, Ordered(order, steps, ByTurn(steps)),
           NEW m \in 1 .. Len(order), NEW n \in 1 .. Len(order), m < n
    PROVE  ~Lower(Turn(order[n]), Turn(order[m])) /\ order[m] # order[n]
  <1>1. order[m] \in steps /\ order[n] \in steps
    BY ElementOfSeq DEF Ordered
  <1>2. <<order[n], order[m]>> \notin ByTurn(steps)
    BY DEF Ordered
  <1>3. ~TakesTurnBefore(order[n], order[m])
    BY <1>1, <1>2 DEF ByTurn
  <1>4. m # n
    BY DEF Ordered
  <1>5. order[m] # order[n]
    BY <1>4 DEF Ordered
  <1>6. QED
    BY <1>3, <1>5, TurnsAre

(* A list of a view where one list was written.                            *)
LEMMA ListOfWritten ==
    ASSUME NEW config, NEW new, NEW key, NEW kind \in ItemKind, NEW l \in Nat, NEW items,
           ListWritten(View(new, key), View(config, key), kind, l, items),
           NEW k \in ItemKind, NEW j \in Nat, j \in DOMAIN Lists(View(config, key), k)
    PROVE  /\ j \in DOMAIN Lists(View(new, key), k)
           /\ k = kind /\ j = l => ListAt(new, k, key, j) = items
           /\ ~(k = kind /\ j = l) => ListAt(new, k, key, j) = ListAt(config, k, key, j)
  <1>1. /\ j \in DOMAIN Lists(View(new, key), k)
        /\ Lists(View(new, key), k)[j] = IF k = kind /\ j = l THEN items ELSE Lists(View(config, key), k)[j]
    BY DEF ListWritten, ItemKind
  <1>2. QED
    BY <1>1 DEF ListAt

(* A step that takes an item of a list.                                    *)
LEMMA ListLess ==
    ASSUME NEW one, NEW other, AtOnce(one, other), NEW config, Standing(one, other, config),
           NEW kind \in ItemKind, NEW key \in Common(one, other), NEW l \in Nat,
           l \in DOMAIN Lists(View(config, key), kind), NEW s, NEW new \in CarryOut(config, s),
           NEW i, TakesAt(one, other, kind, key, l, s, i)
    PROVE  ListAt(new, kind, key, l) = RemoveAt(ListAt(config, kind, key, l), i)
  <1>1. other \in Configs /\ one \in Configs /\ ~PathsCollide(other)
    BY PlanAtOnce DEF AtOnce
  <1>2. PICK t \in ItemsGo(one, other, kind) : Place(t) = <<key, l>> /\ t.index = i
    BY DEF TakesAt, SlotIn
  <1>3. t \in Slots(other, Keys(one) \cap Keys(other), kind)
    BY <1>1, ItemsInCommon DEF ItemKind
  <1>4. t.key = key /\ t.list = l
    BY <1>2 DEF Place
  <1>5. Step("remove", kind, other, t) = ItemStep("remove", other, kind, t.key, t.list, t.index)
    BY <1>1, <1>3, ItemStepIs
  <1>6. s = Step("remove", kind, other, t)
    BY <1>2, <1>4, <1>5 DEF TakesAt
  <1>7. Took(config, new, kind, t)
    BY <1>6, TakenFrom DEF ItemKind
  <1>8. ListWritten(View(new, key), View(config, key), kind, l,
                    RemoveAt(ListAt(config, kind, key, l), i))
    BY <1>2, <1>4, <1>7 DEF Took, WroteList
  <1>9. QED
    BY <1>8, ListOfWritten

(* A step that gives one back.                                             *)
LEMMA ListMore ==
    ASSUME NEW one, NEW other, AtOnce(one, other), NEW config, Standing(one, other, config),
           NEW kind \in ItemKind, NEW key \in Common(one, other), NEW l \in Nat,
           l \in DOMAIN Lists(View(config, key), kind), NEW s, NEW new \in CarryOut(config, s),
           NEW i, GivesAt(one, other, kind, key, l, s, i)
    PROVE  ListAt(new, kind, key, l)
             = PutAt(ListAt(config, kind, key, l), i, ListAt(one, kind, key, l)[i])
  <1>1. other \in Configs /\ one \in Configs /\ ~PathsCollide(one)
    BY PlanAtOnce DEF AtOnce
  <1>2. PICK t \in ItemsCome(one, other, kind) : Place(t) = <<key, l>> /\ t.index = i
    BY DEF GivesAt, SlotIn
  <1>3. t \in Slots(one, Keys(one) \cap Keys(other), kind)
    BY <1>1, ItemsInCommon DEF ItemKind
  <1>4. t.key = key /\ t.list = l
    BY <1>2 DEF Place
  <1>5. Step("insert", kind, one, t) = ItemStep("insert", one, kind, t.key, t.list, t.index)
    BY <1>1, <1>3, ItemStepIs
  <1>6. s = Step("insert", kind, one, t)
    BY <1>2, <1>4, <1>5 DEF GivesAt
  <1>7. Gave(config, new, kind, t)
    BY <1>6, GivenBack DEF ItemKind
  <1>8. t.card = ListAt(one, kind, t.key, t.list)[t.index]
    BY <1>1, <1>3, StandsAt
  <1>9. ListWritten(View(new, key), View(config, key), kind, l,
                    PutAt(ListAt(config, kind, key, l), i, ListAt(one, kind, key, l)[i]))
    BY <1>2, <1>4, <1>7, <1>8 DEF Gave, WroteList
  <1>10. QED
    BY <1>9, ListOfWritten

(* Any other step leaves the list as it is, unless it writes the row the   *)
(* list is in.                                                             *)
LEMMA ListKept ==
    ASSUME NEW one, NEW other, AtOnce(one, other), NEW config, Standing(one, other, config),
           NEW kind \in ItemKind, NEW key \in Common(one, other), NEW l \in Nat,
           l \in DOMAIN Lists(View(config, key), kind),
           kind = "card" => key \notin Written(one, other),
           NEW s, NEW new, Effect(one, other, s, config, new),
           OutAt(one, other, kind, key, l, s) = 0, BackAt(one, other, kind, key, l, s) = 0
    PROVE  ListAt(new, kind, key, l) = ListAt(config, kind, key, l)
  <1>1. /\ other \in Configs /\ one \in Configs /\ ~PathsCollide(one) /\ ~PathsCollide(other)
        /\ config \in Configs
    BY PlanAtOnce DEF AtOnce, Standing
  <1>2. key \in Keys(config) /\ key \in Keys(one) /\ key \in Keys(other)
    BY DEF Standing, Common
  <1>3. View(new, key) = View(config, key) => ListAt(new, kind, key, l) = ListAt(config, kind, key, l)
    BY DEF ListAt
  <1>4. ASSUME NEW kind0 \in ItemKind, NEW t, NEW items, t.list \in Nat,
               WroteList(config, new, t.key, kind0, t.list, items),
               ~(kind0 = kind /\ t.key = key /\ t.list = l)
        PROVE  ListAt(new, kind, key, l) = ListAt(config, kind, key, l)
    <2>1. CASE t.key = key
      <3>1. ListWritten(View(new, key), View(config, key), kind0, t.list, items)
        BY <1>4, <2>1 DEF WroteList
      <3>2. QED
        BY <1>4, <2>1, <3>1, ListOfWritten
    <2>2. CASE t.key # key
      <3>1. View(new, key) = View(config, key)
        BY <1>2, <1>4, <2>2 DEF WroteList, DiffersIn
      <3>2. QED
        BY <1>3, <3>1
    <2>3. QED
      BY <2>1, <2>2
  <1>5. CASE \E k \in Written(one, other) :
               s = Row(one, other, k) /\ WroteRow(one, other, config, new, k)
    <2>1. PICK k \in Written(one, other) : WroteRow(one, other, config, new, k)
      BY <1>5
    <2>2. CASE k = key
      <3>1. kind = "badge"
        BY <2>2 DEF ItemKind
      <3>2. View(config, key) \in Views
        BY <1>1, <1>2, KeyedView
      <3>3. View(new, key) = [View(config, key) EXCEPT !.sections = View(one, key).sections]
        BY <2>1, <2>2 DEF WroteRow
      <3>4. View(new, key).badges = View(config, key).badges
        BY <3>2, <3>3 DEF Views
      <3>5. QED
        BY <3>1, <3>4 DEF ListAt, Lists
    <2>3. CASE k # key
      <3>1. View(new, key) = View(config, key)
        BY <1>2, <2>1, <2>3 DEF WroteRow, DiffersIn
      <3>2. QED
        BY <1>3, <3>1
    <2>4. QED
      BY <2>2, <2>3
  <1>6. CASE \E kind0 \in ItemKind : \E t \in ItemsGo(one, other, kind0) :
               /\ s = Step("remove", kind0, other, t) /\ t.key \in Common(one, other)
               /\ Took(config, new, kind0, t)
    <2>1. PICK kind0 \in ItemKind : \E t \in ItemsGo(one, other, kind0) :
               /\ s = Step("remove", kind0, other, t) /\ Took(config, new, kind0, t)
      BY <1>6
    <2>2. PICK t \in ItemsGo(one, other, kind0) :
               s = Step("remove", kind0, other, t) /\ Took(config, new, kind0, t)
      BY <2>1
    <2>3. t \in Slots(other, Keys(one) \cap Keys(other), kind0)
      BY <1>1, ItemsInCommon DEF ItemKind
    <2>4. t.list \in Nat
      BY <1>1, <2>3, StandsAt
    <2>5. s = ItemStep("remove", other, kind0, t.key, t.list, t.index)
      BY <1>1, <2>2, <2>3, ItemStepIs
    <2>6. ASSUME kind0 = kind, t.key = key, t.list = l PROVE FALSE
      <3>1. TakesAt(one, other, kind, key, l, s, t.index)
        <4>1. SlotIn(ItemsGo(one, other, kind), key, l, t.index)
          BY <2>2, <2>6 DEF SlotIn, Place
        <4>2. QED
          BY <2>5, <2>6, <4>1 DEF TakesAt
      <3>2. QED
        BY <3>1, OutAtIs
    <2>7. PICK items : WroteList(config, new, t.key, kind0, t.list, items)
      BY <2>2 DEF Took
    <2>8. QED
      BY <1>4, <2>4, <2>6, <2>7
  <1>7. CASE \E kind0 \in ItemKind : \E t \in ItemsCome(one, other, kind0) :
               /\ s = Step("insert", kind0, one, t) /\ t.key \in Common(one, other)
               /\ Gave(config, new, kind0, t)
    <2>1. PICK kind0 \in ItemKind : \E t \in ItemsCome(one, other, kind0) :
               /\ s = Step("insert", kind0, one, t) /\ Gave(config, new, kind0, t)
      BY <1>7
    <2>2. PICK t \in ItemsCome(one, other, kind0) :
               s = Step("insert", kind0, one, t) /\ Gave(config, new, kind0, t)
      BY <2>1
    <2>3. t \in Slots(one, Keys(one) \cap Keys(other), kind0)
      BY <1>1, ItemsInCommon DEF ItemKind
    <2>4. t.list \in Nat
      BY <1>1, <2>3, StandsAt
    <2>5. s = ItemStep("insert", one, kind0, t.key, t.list, t.index)
      BY <1>1, <2>2, <2>3, ItemStepIs
    <2>6. ASSUME kind0 = kind, t.key = key, t.list = l PROVE FALSE
      <3>1. GivesAt(one, other, kind, key, l, s, t.index)
        <4>1. SlotIn(ItemsCome(one, other, kind), key, l, t.index)
          BY <2>2, <2>6 DEF SlotIn, Place
        <4>2. QED
          BY <2>5, <2>6, <4>1 DEF GivesAt
      <3>2. QED
        BY <3>1, BackAtIs
    <2>7. PICK items : WroteList(config, new, t.key, kind0, t.list, items)
      BY <2>2 DEF Gave
    <2>8. QED
      BY <1>4, <2>4, <2>6, <2>7
  <1>8. CASE \E j \in Extra(other, one) : s = Removal(other, j) /\ RowLess(config, new, j)
    <2>1. PICK j \in Extra(other, one) : RowLess(config, new, j)
      BY <1>8
    <2>2. j # key
      BY <1>2 DEF Extra
    <2>3. QED
      BY <1>2, <1>3, <2>1, <2>2 DEF RowLess
  <1>9. CASE \E j \in Extra(one, other) :
               s = Insertion(one, j) /\ RowMore(config, new, j, Index(one, j), View(one, j))
    <2>1. PICK j \in Extra(one, other) : RowMore(config, new, j, Index(one, j), View(one, j))
      BY <1>9
    <2>2. QED
      BY <1>2, <1>3, <2>1 DEF RowMore
  <1>10. QED
    BY <1>5, <1>6, <1>7, <1>8, <1>9 DEF Effect

(* Of one list, what goes goes last first, and then what comes back comes  *)
(* back first first.                                                       *)
LEMMA ItemsInTurn ==
    ASSUME NEW one, NEW other, NEW order, NEW c, UnderWay(one, other, order, c),
           NEW kind \in ItemKind, NEW key, NEW l,
           NEW m \in 1 .. Len(order), NEW n \in 1 .. Len(order), m < n
    PROVE  LET Out(j) == OutAt(one, other, kind, key, l, order[j])
               Came(j) == BackAt(one, other, kind, key, l, order[j])
           IN  /\ Out(m) # 0 /\ Out(n) # 0 => Out(n) < Out(m)
               /\ Came(m) # 0 /\ Came(n) # 0 => Came(m) < Came(n)
               /\ Came(m) # 0 => Out(n) = 0
  <1> DEFINE Out(j) == OutAt(one, other, kind, key, l, order[j])
             Came(j) == BackAt(one, other, kind, key, l, order[j])
             K == KindNumber(kind)
  <1>1. AtOnce(one, other)
    BY DEF UnderWay
  <1>2. ~Lower(Turn(order[n]), Turn(order[m])) /\ order[m] # order[n]
    BY NotBefore DEF UnderWay, Carried
  <1>3. ASSUME NEW j \in {m, n}, Out(j) # 0
        PROVE  /\ order[j] = ItemStep("remove", other, kind, key, l, Out(j))
               /\ Turn(order[j]) = <<1, -Out(j), K, Index(other, key), l>>
               /\ Out(j) \in Nat
    <2>1. TakesAt(one, other, kind, key, l, order[j], Out(j))
      BY <1>1, <1>3, OutAtIs
    <2>2. Out(j) \in 1 .. Len(ListAt(other, kind, key, l))
      BY <1>1, <2>1, OutAtIs
    <2>3. order[j] = ItemStep("remove", other, kind, key, l, Out(j))
      BY <2>1 DEF TakesAt
    <2> HIDE DEF Out
    <2>4. Turn(order[j]) = <<1, -Out(j), K, Index(other, key), l>>
      BY <2>3, ItemTurn
    <2>5. QED
      BY <2>2, <2>3, <2>4
  <1>4. ASSUME NEW j \in {m, n}, Came(j) # 0
        PROVE  /\ order[j] = ItemStep("insert", one, kind, key, l, Came(j))
               /\ Turn(order[j]) = <<4, Came(j), K, Index(one, key), l>>
               /\ Came(j) \in Nat
    <2>1. GivesAt(one, other, kind, key, l, order[j], Came(j))
      BY <1>1, <1>4, BackAtIs
    <2>2. Came(j) \in 1 .. Len(ListAt(one, kind, key, l))
      BY <1>1, <2>1, BackAtIs
    <2>3. order[j] = ItemStep("insert", one, kind, key, l, Came(j))
      BY <2>1 DEF GivesAt
    <2> HIDE DEF Came
    <2>4. Turn(order[j]) = <<4, Came(j), K, Index(one, key), l>>
      BY <2>3, ItemTurn
    <2>5. QED
      BY <2>2, <2>3, <2>4
  <1> HIDE DEF Out, Came, K
  <1>5. ASSUME Out(m) # 0, Out(n) # 0 PROVE Out(n) < Out(m)
    <2>1. /\ Turn(order[n]) = <<1, -Out(n), K, Index(other, key), l>> /\ Out(n) \in Nat
          /\ Turn(order[m]) = <<1, -Out(m), K, Index(other, key), l>> /\ Out(m) \in Nat
      BY <1>3, <1>5
    <2>2. ~(-Out(n) < -Out(m))
      BY <1>2, <2>1 DEF Lower
    <2>3. Out(n) # Out(m)
      BY <1>2, <1>3, <1>5
    <2>4. QED
      BY <2>1, <2>2, <2>3
  <1>6. ASSUME Came(m) # 0, Came(n) # 0 PROVE Came(m) < Came(n)
    <2>1. /\ Turn(order[n]) = <<4, Came(n), K, Index(one, key), l>> /\ Came(n) \in Nat
          /\ Turn(order[m]) = <<4, Came(m), K, Index(one, key), l>> /\ Came(m) \in Nat
      BY <1>4, <1>6
    <2>2. ~(Came(n) < Came(m))
      BY <1>2, <2>1 DEF Lower
    <2>3. Came(n) # Came(m)
      BY <1>2, <1>4, <1>6
    <2>4. QED
      BY <2>1, <2>2, <2>3
  <1>7. ASSUME Came(m) # 0, Out(n) # 0 PROVE FALSE
    <2>1. Turn(order[n])[1] = 1 /\ Turn(order[m])[1] = 4
      BY <1>3, <1>4, <1>7
    <2>2. QED
      BY <1>2, <2>1 DEF Lower
  <1>8. QED
    BY <1>5, <1>6, <1>7 DEF Out, Came

(* What is planned for a list is done.                                     *)
LEMMA ItemsDone ==
    ASSUME NEW one, NEW other, NEW order, NEW c, UnderWay(one, other, order, c),
           NEW kind \in ItemKind, NEW key, NEW l, NEW i, i # 0
    PROVE  /\ (\E n \in 1 .. Len(order) : OutAt(one, other, kind, key, l, order[n]) = i)
                <=> SlotIn(ItemsGo(one, other, kind), key, l, i)
           /\ (\E n \in 1 .. Len(order) : BackAt(one, other, kind, key, l, order[n]) = i)
                <=> SlotIn(ItemsCome(one, other, kind), key, l, i)
  <1> DEFINE steps == PlanUndo(one, other, other).steps
  <1>1. /\ AtOnce(one, other) /\ PlacesHold(one, other) /\ one \in Configs /\ other \in Configs
        /\ ~PathsCollide(one) /\ ~PathsCollide(other)
    BY PlanAtOnce DEF UnderWay, AtOnce
  <1>2. \A s \in steps : \E n \in 1 .. Len(order) : order[n] = s
    BY DEF UnderWay, Carried, Ordered
  <1>3. ItemsWritten(one, other, kind) \subseteq steps
    <2>1. /\ ItemsWritten(one, other, "card") \subseteq steps
          /\ ItemsWritten(one, other, "badge") \subseteq steps
      BY <1>1, StepsAtOnce
    <2>2. QED
      BY <2>1 DEF ItemKind
  <1> HIDE DEF steps
  <1>4. ASSUME SlotIn(ItemsGo(one, other, kind), key, l, i)
        PROVE  \E n \in 1 .. Len(order) : OutAt(one, other, kind, key, l, order[n]) = i
    <2>1. PICK t \in ItemsGo(one, other, kind) : Place(t) = <<key, l>> /\ t.index = i
      BY <1>4 DEF SlotIn
    <2>2. t \in Slots(other, Keys(one) \cap Keys(other), kind)
      BY <1>1, ItemsInCommon DEF ItemKind
    <2>3. t.key = key /\ t.list = l
      BY <2>1 DEF Place
    <2>4. Step("remove", kind, other, t) = ItemStep("remove", other, kind, key, l, i)
      BY <1>1, <2>1, <2>2, <2>3, ItemStepIs
    <2>5. Step("remove", kind, other, t) \in steps
      BY <1>3 DEF ItemsWritten, ItemSteps
    <2>6. PICK n \in 1 .. Len(order) : order[n] = ItemStep("remove", other, kind, key, l, i)
      BY <1>2, <2>4, <2>5
    <2>7. TakesAt(one, other, kind, key, l, order[n], i)
      BY <1>4, <2>6 DEF TakesAt
    <2>8. QED
      BY <1>1, <2>7, OutAtIs
  <1>5. ASSUME SlotIn(ItemsCome(one, other, kind), key, l, i)
        PROVE  \E n \in 1 .. Len(order) : BackAt(one, other, kind, key, l, order[n]) = i
    <2>1. PICK t \in ItemsCome(one, other, kind) : Place(t) = <<key, l>> /\ t.index = i
      BY <1>5 DEF SlotIn
    <2>2. t \in Slots(one, Keys(one) \cap Keys(other), kind)
      BY <1>1, ItemsInCommon DEF ItemKind
    <2>3. t.key = key /\ t.list = l
      BY <2>1 DEF Place
    <2>4. Step("insert", kind, one, t) = ItemStep("insert", one, kind, key, l, i)
      BY <1>1, <2>1, <2>2, <2>3, ItemStepIs
    <2>5. Step("insert", kind, one, t) \in steps
      BY <1>3 DEF ItemsWritten, ItemSteps
    <2>6. PICK n \in 1 .. Len(order) : order[n] = ItemStep("insert", one, kind, key, l, i)
      BY <1>2, <2>4, <2>5
    <2>7. GivesAt(one, other, kind, key, l, order[n], i)
      BY <1>5, <2>6 DEF GivesAt
    <2>8. QED
      BY <1>1, <2>7, BackAtIs
  <1>6. ASSUME NEW n \in 1 .. Len(order), OutAt(one, other, kind, key, l, order[n]) = i
        PROVE  SlotIn(ItemsGo(one, other, kind), key, l, i)
    <2>1. TakesAt(one, other, kind, key, l, order[n], i)
      BY <1>1, <1>6, OutAtIs
    <2>2. QED
      BY <2>1 DEF TakesAt
  <1>7. ASSUME NEW n \in 1 .. Len(order), BackAt(one, other, kind, key, l, order[n]) = i
        PROVE  SlotIn(ItemsCome(one, other, kind), key, l, i)
    <2>1. GivesAt(one, other, kind, key, l, order[n], i)
      BY <1>1, <1>7, BackAtIs
    <2>2. QED
      BY <2>1 DEF GivesAt
  <1>8. QED
    BY <1>4, <1>5, <1>6, <1>7

(* A list of a view both states have, whose row is not written, goes back. *)
LEMMA ListGoesBack ==
    ASSUME NEW one, NEW other, NEW order, NEW c, UnderWay(one, other, order, c),
           NEW kind \in ItemKind, NEW key \in Common(one, other), NEW l \in Nat,
           kind = "card" => key \notin Written(one, other),
           \A n \in 0 .. Len(order) : l \in DOMAIN Lists(View(c[n], key), kind),
           ListAt(c[0], kind, key, l) = ListAt(other, kind, key, l),
           NEW pairs, Undoable(one, other, kind, key, l, pairs)
    PROVE  ListAt(c[Len(order)], kind, key, l) = ListAt(one, kind, key, l)
  <1> DEFINE N == Len(order)
             was == ListAt(one, kind, key, l)
             is == ListAt(other, kind, key, l)
             T == [n \in 0 .. N |-> ListAt(c[n], kind, key, l)]
             out == [n \in 1 .. N |-> OutAt(one, other, kind, key, l, order[n])]
             back == [n \in 1 .. N |-> BackAt(one, other, kind, key, l, order[n])]
  <1>1. AtOnce(one, other)
    BY DEF UnderWay
  <1>2. /\ N \in Nat
        /\ \A n \in 0 .. N : c[n] \in Configs /\ Standing(one, other, c[n])
        /\ \A n \in 1 .. N : Effect(one, other, order[n], c[n - 1], c[n])
    BY AllTheWay DEF Midway
  <1>3. \A n \in 1 .. N : c[n] \in CarryOut(c[n - 1], order[n])
    BY DEF UnderWay, Carried
  <1>4. /\ was \in Seq(Cards) /\ is \in Seq(Cards) /\ Steady(pairs, was, is)
        /\ \A j \in 1 .. Len(is) : SlotIn(ItemsGo(one, other, kind), key, l, j) <=> j \notin News(pairs)
        /\ \A i \in 1 .. Len(was) : SlotIn(ItemsCome(one, other, kind), key, l, i) <=> i \notin Olds(pairs)
    BY DEF Undoable
  <1>5. \A n \in 0 .. N : l \in DOMAIN Lists(View(c[n], key), kind)
    OBVIOUS
  <1>6. T[0] = is
    BY <1>2
  <1>7. ASSUME NEW n \in 0 .. N PROVE T[n] = ListAt(c[n], kind, key, l) /\ T[n] \in Seq(Cards)
    <2>1. key \in Keys(c[n]) /\ c[n] \in Configs
      BY <1>2 DEF Standing
    <2>2. Index(c[n], key) \in DOMAIN c[n].views
      BY <2>1, KeyedView
    <2>3. Lists(c[n].views[Index(c[n], key)], kind)[l] \in Seq(Cards)
      BY <1>5, <2>1, <2>2, ListType DEF View
    <2>4. QED
      BY <2>3 DEF ListAt, View
  <1>8. \A n \in 1 .. N : /\ out[n] = OutAt(one, other, kind, key, l, order[n])
                          /\ back[n] = BackAt(one, other, kind, key, l, order[n])
    OBVIOUS
  <1> HIDE DEF N, was, is, T, out, back
  <1>9. \A n \in 1 .. N : n - 1 \in 0 .. N /\ n \in 0 .. N
    BY <1>2
  <1>10. ASSUME NEW n \in 1 .. N
         PROVE  /\ out[n] \in 0 .. Len(is)
                /\ out[n] # 0 => T[n] = RemoveAt(T[n - 1], out[n])
                /\ back[n] \in 0 .. Len(was)
                /\ back[n] # 0 => out[n] = 0 /\ T[n] = PutAt(T[n - 1], back[n], was[back[n]])
                /\ out[n] = 0 /\ back[n] = 0 => T[n] = T[n - 1]
    <2>1. /\ n - 1 \in 0 .. N /\ n \in 0 .. N
          /\ Standing(one, other, c[n - 1]) /\ Effect(one, other, order[n], c[n - 1], c[n])
          /\ c[n] \in CarryOut(c[n - 1], order[n])
          /\ l \in DOMAIN Lists(View(c[n - 1], key), kind)
      BY <1>2, <1>3, <1>5, <1>9
    <2>2. T[n] = ListAt(c[n], kind, key, l) /\ T[n - 1] = ListAt(c[n - 1], kind, key, l)
      BY <1>7, <2>1
    <2>3. out[n] = OutAt(one, other, kind, key, l, order[n])
          /\ back[n] = BackAt(one, other, kind, key, l, order[n])
      BY <1>8
    <2>4. Len(is) \in Nat /\ Len(was) \in Nat
      BY <1>4, LenProperties
    <2>5. ASSUME out[n] # 0
          PROVE  /\ out[n] \in 1 .. Len(is) /\ T[n] = RemoveAt(T[n - 1], out[n])
                 /\ TakesAt(one, other, kind, key, l, order[n], out[n])
      <3>1. TakesAt(one, other, kind, key, l, order[n], out[n])
        BY <1>1, <2>3, <2>5, OutAtIs
      <3>2. out[n] \in 1 .. Len(is)
        BY <1>1, <3>1, OutAtIs DEF is
      <3>3. QED
        BY <1>1, <2>1, <2>2, <3>1, <3>2, ListLess
    <2>6. ASSUME back[n] # 0
          PROVE  /\ back[n] \in 1 .. Len(was) /\ T[n] = PutAt(T[n - 1], back[n], was[back[n]])
                 /\ GivesAt(one, other, kind, key, l, order[n], back[n])
      <3>1. GivesAt(one, other, kind, key, l, order[n], back[n])
        BY <1>1, <2>3, <2>6, BackAtIs
      <3>2. back[n] \in 1 .. Len(was)
        BY <1>1, <3>1, BackAtIs DEF was
      <3>3. QED
        BY <1>1, <2>1, <2>2, <3>1, <3>2, ListMore DEF was
    <2>7. ASSUME back[n] # 0, out[n] # 0 PROVE FALSE
      <3>1. order[n].action = "remove"
        BY <2>5, <2>7, ItemStepFields DEF TakesAt
      <3>2. order[n].action = "insert"
        BY <2>6, <2>7, ItemStepFields DEF GivesAt
      <3>3. QED
        BY <3>1, <3>2
    <2>8. ASSUME out[n] = 0, back[n] = 0 PROVE T[n] = T[n - 1]
      <3>1. /\ OutAt(one, other, kind, key, l, order[n]) = 0
            /\ BackAt(one, other, kind, key, l, order[n]) = 0
        BY <2>3, <2>8
      <3>2. kind = "card" => key \notin Written(one, other)
        OBVIOUS
      <3>3. ListAt(c[n], kind, key, l) = ListAt(c[n - 1], kind, key, l)
        BY <1>1, <2>1, <3>1, <3>2, ListKept
      <3>4. QED
        BY <2>2, <3>3
    <2>9. QED
      BY <2>4, <2>5, <2>6, <2>7, <2>8
  <1>11. ASSUME NEW m \in 1 .. N, NEW n \in 1 .. N, m < n
         PROVE  /\ out[m] # 0 /\ out[n] # 0 => out[n] < out[m]
                /\ back[m] # 0 /\ back[n] # 0 => back[m] < back[n]
                /\ back[m] # 0 => out[n] = 0
    <2>1. m \in 1 .. Len(order) /\ n \in 1 .. Len(order)
      BY DEF N
    <2>2. LET Out(j) == OutAt(one, other, kind, key, l, order[j])
              Came(j) == BackAt(one, other, kind, key, l, order[j])
          IN  /\ Out(m) # 0 /\ Out(n) # 0 => Out(n) < Out(m)
              /\ Came(m) # 0 /\ Came(n) # 0 => Came(m) < Came(n)
              /\ Came(m) # 0 => Out(n) = 0
      BY <1>11, <2>1, ItemsInTurn
    <2>3. QED
      BY <1>8, <2>2
  <1>12. ASSUME NEW j \in 1 .. Len(is)
         PROVE  (\E n \in 1 .. N : out[n] = j) <=> j \notin News(pairs)
    <2>1. j # 0
      BY <1>4, LenProperties
    <2>2. (\E n \in 1 .. N : out[n] = j) <=> SlotIn(ItemsGo(one, other, kind), key, l, j)
      BY <1>8, <2>1, ItemsDone DEF N
    <2>3. QED
      BY <1>4, <2>2
  <1>13. ASSUME NEW i \in 1 .. Len(was)
         PROVE  (\E n \in 1 .. N : back[n] = i) <=> i \notin Olds(pairs)
    <2>1. i # 0
      BY <1>4, LenProperties
    <2>2. (\E n \in 1 .. N : back[n] = i) <=> SlotIn(ItemsCome(one, other, kind), key, l, i)
      BY <1>8, <2>1, ItemsDone DEF N
    <2>3. QED
      BY <1>4, <2>2
  <1>14. Restoring(Cards, T, N, was, is, out, back, pairs)
    <2>1. /\ N \in Nat /\ was \in Seq(Cards) /\ is \in Seq(Cards) /\ Steady(pairs, was, is)
          /\ T[0] = is /\ \A n \in 0 .. N : T[n] \in Seq(Cards)
      BY <1>2, <1>4, <1>6, <1>7
    <2>2. /\ \A n \in 1 .. N : out[n] \in 0 .. Len(is) /\ back[n] \in 0 .. Len(was)
          /\ \A n \in 1 .. N : out[n] = 0 /\ back[n] = 0 => T[n] = T[n - 1]
      BY <1>10
    <2>6. \A n \in 1 .. N :
            out[n] # 0 /\ out[n] \in 1 .. Len(T[n - 1]) /\ T[n - 1][out[n]] = is[out[n]]
              => T[n] = RemoveAt(T[n - 1], out[n])
      BY <1>10
    <2>7. \A n \in 1 .. N :
            back[n] # 0 => out[n] = 0 /\ T[n] = PutAt(T[n - 1], back[n], was[back[n]])
      BY <1>10
    <2>3. /\ \A m, n \in 1 .. N : m < n /\ out[m] # 0 /\ out[n] # 0 => out[n] < out[m]
          /\ \A m, n \in 1 .. N : m < n /\ back[m] # 0 /\ back[n] # 0 => back[m] < back[n]
          /\ \A m, n \in 1 .. N : m < n /\ back[m] # 0 => out[n] = 0
      BY <1>11
    <2>4. /\ \A j \in 1 .. Len(is) : (\E n \in 1 .. N : out[n] = j) <=> j \notin News(pairs)
          /\ \A i \in 1 .. Len(was) : (\E n \in 1 .. N : back[n] = i) <=> i \notin Olds(pairs)
      BY <1>12, <1>13
    <2>5. QED
      BY <2>1, <2>2, <2>3, <2>4, <2>6, <2>7 DEF Restoring
  <1>15. T[N] = was
    BY <1>14, Restored
  <1>16. QED
    BY <1>2, <1>7, <1>15 DEF N, was

(* The lists of a view, one by one.                                        *)
LEMMA ListsAre ==
    ASSUME NEW config, NEW key
    PROVE  /\ DOMAIN Lists(View(config, key), "badge") = {0}
           /\ ListAt(config, "badge", key, 0) = View(config, key).badges
           /\ \A n \in Nat : n = Len(View(config, key).sections) =>
                /\ DOMAIN Lists(View(config, key), "card") = 0 .. n
                /\ ListAt(config, "card", key, 0) = View(config, key).cards
                /\ \A l \in 1 .. n :
                     ListAt(config, "card", key, l) = View(config, key).sections[l].cards
  <1>1. ASSUME NEW n \in Nat, n = Len(View(config, key).sections)
        PROVE  /\ DOMAIN Lists(View(config, key), "card") = 0 .. n
               /\ ListAt(config, "card", key, 0) = View(config, key).cards
               /\ \A l \in 1 .. n :
                    ListAt(config, "card", key, l) = View(config, key).sections[l].cards
    BY <1>1 DEF Lists, ListAt
  <1>2. QED
    BY <1>1 DEF Lists, ListAt

(* The badges of a view go back.                                           *)
LEMMA BadgesGoBack ==
    ASSUME NEW one, NEW other, NEW order, NEW c, UnderWay(one, other, order, c),
           NEW key \in Common(one, other)
    PROVE  View(c[Len(order)], key).badges = View(one, key).badges
  <1>1. AtOnce(one, other) /\ PlacesHold(one, other) /\ key \in Keys(one) \cap Keys(other)
        /\ c[0] = WriteSettings(other, PlanUndo(one, other, other).settings)
    BY DEF UnderWay, Carried, Common
  <1>2. key \in Keys(one) /\ key \in Keys(other)
    BY <1>1
  <1>3. View(c[0], key).badges = View(other, key).badges
    BY <1>1, <1>2, AtTheStart
  <1>4. PICK pairs : Undoable(one, other, "badge", key, 0, pairs)
    BY <1>1, BadgesUndoable
  <1>5. \A config : /\ 0 \in DOMAIN Lists(View(config, key), "badge")
                    /\ ListAt(config, "badge", key, 0) = View(config, key).badges
    BY ListsAre
  <1>6. ListAt(c[0], "badge", key, 0) = ListAt(other, "badge", key, 0)
    BY <1>3, <1>5
  <1>7. "badge" \in ItemKind /\ 0 \in Nat
    BY DEF ItemKind
  <1>8. \A n \in 0 .. Len(order) : 0 \in DOMAIN Lists(View(c[n], key), "badge")
    BY <1>5
  <1>9. ListAt(c[Len(order)], "badge", key, 0) = ListAt(one, "badge", key, 0)
    BY <1>4, <1>6, <1>7, <1>8, ListGoesBack
  <1>10. QED
    BY <1>5, <1>9

(* The cards of a view whose row is not written go back, list by list.     *)
LEMMA CardsGoBack ==
    ASSUME NEW one, NEW other, NEW order, NEW c, UnderWay(one, other, order, c),
           NEW key \in Common(one, other), key \notin Written(one, other)
    PROVE  LET view == View(c[Len(order)], key)
               was == View(one, key)
           IN  /\ Len(view.sections) = Len(was.sections) /\ view.cards = was.cards
               /\ \A l \in 1 .. Len(was.sections) :
                    /\ view.sections[l].cards = was.sections[l].cards
                    /\ view.sections[l].own = was.sections[l].own
  <1> DEFINE N == Len(order)
             m == Len(View(one, key).sections)
  <1>1. AtOnce(one, other) /\ PlacesHold(one, other) /\ key \in Keys(one) \cap Keys(other)
        /\ c[0] = WriteSettings(other, PlanUndo(one, other, other).settings)
    BY DEF UnderWay, Carried, Common
  <1>2. key \in Keys(one) /\ key \in Keys(other) /\ one \in Configs /\ SectionsPlan(one, other, key) = {}
    BY <1>1, PlanAtOnce DEF AtOnce, Written
  <1>3. /\ View(c[0], key).cards = View(other, key).cards
        /\ View(c[0], key).sections = View(other, key).sections
    BY <1>1, <1>2, AtTheStart
  <1>4. N \in Nat
    BY AllTheWay
  <1>5. View(one, key).sections \in Seq(Sections)
    BY <1>2, KeyedView
  <1>6. m \in Nat
    BY <1>5, LenProperties
  <1>7. \A n \in 0 .. N : OnCourse(one, other, order, n, c[n], key)
    BY CourseAllTheWay
  <1> HIDE DEF N, m
  <1>8. ASSUME NEW n \in 0 .. N
        PROVE  /\ Len(View(c[n], key).sections) = m
               /\ \A l \in 1 .. m : View(c[n], key).sections[l].own = View(one, key).sections[l].own
    BY <1>7 DEF OnCourse, m
  <1>9. \A n \in 0 .. N : \A l \in 0 .. m : l \in DOMAIN Lists(View(c[n], key), "card")
    BY <1>6, <1>8, ListsAre
  <1>10. 0 \in 0 .. N /\ N \in 0 .. N
    BY <1>4
  <1>11. Len(View(other, key).sections) = m
    BY <1>3, <1>8, <1>10
  <1>12. ASSUME NEW l \in 0 .. m
         PROVE  ListAt(c[N], "card", key, l) = ListAt(one, "card", key, l)
    <2>1. PICK pairs : Undoable(one, other, "card", key, l, pairs)
      BY <1>1, <1>2, CardsUndoable DEF m
    <2>2. ListAt(c[0], "card", key, l) = ListAt(other, "card", key, l)
      BY <1>3 DEF ListAt, Lists
    <2>3. "card" \in ItemKind /\ l \in Nat
      BY <1>6 DEF ItemKind
    <2>4. \A n \in 0 .. N : l \in DOMAIN Lists(View(c[n], key), "card")
      BY <1>9
    <2>5. QED
      BY <2>1, <2>2, <2>3, <2>4, ListGoesBack DEF N
  <1>13. /\ Len(View(c[N], key).sections) = m /\ Len(View(one, key).sections) = m
    BY <1>8, <1>10 DEF m
  <1>14. View(c[N], key).cards = View(one, key).cards
    <2>1. 0 \in 0 .. m
      BY <1>6
    <2>2. ListAt(c[N], "card", key, 0) = View(c[N], key).cards
          /\ ListAt(one, "card", key, 0) = View(one, key).cards
      BY <1>6, <1>13, ListsAre
    <2>3. QED
      BY <1>12, <2>1, <2>2
  <1>15. ASSUME NEW l \in 1 .. m
         PROVE  View(c[N], key).sections[l].cards = View(one, key).sections[l].cards
    <2>1. l \in 0 .. m
      BY <1>6
    <2>2. ListAt(c[N], "card", key, l) = View(c[N], key).sections[l].cards
          /\ ListAt(one, "card", key, l) = View(one, key).sections[l].cards
      BY <1>6, <1>13, ListsAre
    <2>3. QED
      BY <1>12, <2>1, <2>2
  <1>16. QED
    BY <1>8, <1>10, <1>13, <1>14, <1>15 DEF N, m

(* A view is what is in it.                                                *)
LEMMA SameViews ==
    ASSUME NEW a \in Views, NEW b \in Views, a.path = b.path, a.layout = b.layout,
           a.title = b.title, a.cards = b.cards, a.badges = b.badges, a.sections = b.sections
    PROVE  a = b
  BY DEF Views

(* A section is its cards and its own settings, a row of sections its      *)
(* sections.                                                               *)
LEMMA SameRows ==
    ASSUME NEW a \in Seq(Sections), NEW b \in Seq(Sections), Len(a) = Len(b),
           \A l \in 1 .. Len(b) : a[l].cards = b[l].cards /\ a[l].own = b[l].own
    PROVE  a = b
  <1>1. \A l \in 1 .. Len(b) : a[l] \in Sections /\ b[l] \in Sections
    BY ElementOfSeq
  <1>2. \A x, y \in Sections : x.cards = y.cards /\ x.own = y.own => x = y
    BY DEF Sections
  <1>4. \A l \in 1 .. Len(b) : a[l] = b[l]
    BY <1>1, <1>2
  <1>3. QED
    BY <1>4, SeqEqual

(* Every view both states have goes back.                                  *)
LEMMA ViewGoesBack ==
    ASSUME NEW one, NEW other, NEW order, NEW c, UnderWay(one, other, order, c),
           NEW key \in Common(one, other)
    PROVE  View(c[Len(order)], key) = View(one, key)
  <1> DEFINE N == Len(order)
             view == View(c[N], key)
             was == View(one, key)
  <1>1. /\ AtOnce(one, other) /\ key \in Keys(one) /\ one \in Configs /\ ~PathsCollide(one)
    BY PlanAtOnce DEF UnderWay, AtOnce, Common
  <1>2. /\ c[N] \in Configs /\ ~PathsCollide(c[N]) /\ Keys(c[N]) = Keys(one)
        /\ \A k \in Written(one, other) : \E m \in 1 .. Len(order) : order[m] = Row(one, other, k)
    BY AtTheEnd
  <1>3. N \in Nat
    BY AllTheWay
  <1>4. OnCourse(one, other, order, N, c[N], key)
    BY <1>3, CourseAllTheWay
  <1>5. view \in Views /\ was \in Views /\ view.path = was.path
    BY <1>1, <1>2, ViewNamed
  <1>6. view.sections \in Seq(Sections) /\ was.sections \in Seq(Sections)
    BY <1>1, <1>2, KeyedView
  <1>7. view.badges = was.badges
    BY BadgesGoBack
  <1>8. view.title = was.title /\ view.layout = was.layout
    BY <1>4 DEF OnCourse
  <1>9. view.cards = was.cards /\ view.sections = was.sections
    <2>1. CASE key \in Written(one, other)
      BY <1>2, <1>4, <2>1 DEF OnCourse
    <2>2. CASE key \notin Written(one, other)
      <3>1. /\ Len(view.sections) = Len(was.sections) /\ view.cards = was.cards
            /\ \A l \in 1 .. Len(was.sections) :
                 /\ view.sections[l].cards = was.sections[l].cards
                 /\ view.sections[l].own = was.sections[l].own
        BY <2>2, CardsGoBack
      <3> HIDE DEF view, was
      <3>2. QED
        BY <1>6, <3>1, SameRows
    <2>3. QED
      BY <2>1, <2>2
  <1> HIDE DEF view, was
  <1>10. view = was
    BY <1>5, <1>7, <1>8, <1>9, SameViews
  <1>11. QED
    BY <1>10 DEF view, was

(* Taken back at once, the dashboard holds what it held.                   *)
LEMMA HoldsWhatItHeld ==
    ASSUME NEW one, NEW other, NEW order, NEW c, UnderWay(one, other, order, c)
    PROVE  SameButForOrder(one, c[Len(order)])
  <1>1. /\ c[Len(order)].title = one.title /\ Keys(c[Len(order)]) = Keys(one)
        /\ \A k \in Extra(one, other) : View(c[Len(order)], k) = View(one, k)
    BY AtTheEnd
  <1>2. \A k \in Keys(one) : k \in Common(one, other) \/ k \in Extra(one, other)
    BY DEF Common, Extra
  <1>3. \A k \in Keys(one) : View(one, k) = View(c[Len(order)], k)
    BY <1>1, <1>2, ViewGoesBack
  <1>4. QED
    BY <1>1, <1>3 DEF SameButForOrder

(* The place in the row of views a step takes a view from, or gives one    *)
(* back to.                                                                *)
RowOut(one, other, s) ==
  IF \E k \in Extra(other, one) : s = Removal(other, k) THEN s.at ELSE 0

RowBack(one, other, s) ==
  IF \E k \in Extra(one, other) : s = Insertion(one, k) THEN s.at ELSE 0

(* That place is where the view stood after the change.                    *)
LEMMA RowOutIs ==
    ASSUME NEW one, NEW other \in Configs, ~PathsCollide(other), NEW s
    PROVE  LET out == RowOut(one, other, s)
           IN  /\ \A k \in Extra(other, one) : s = Removal(other, k) =>
                    out = Index(other, k) /\ out \in 1 .. Len(other.views)
               /\ out # 0 => \E k \in Extra(other, one) : s = Removal(other, k)
  <1>1. ASSUME NEW k \in Extra(other, one), s = Removal(other, k)
        PROVE  RowOut(one, other, s) = Index(other, k)
               /\ Index(other, k) \in 1 .. Len(other.views)
    <2>1. k \in Keys(other)
      BY DEF Extra
    <2>2. Index(other, k) \in DOMAIN other.views
      BY <2>1, ViewNamed
    <2>3. s.at = Index(other, k)
      BY <1>1 DEF Removal, ViewStep
    <2>4. DOMAIN other.views = 1 .. Len(other.views)
      BY ViewsAre
    <2>5. QED
      BY <1>1, <2>2, <2>3, <2>4 DEF RowOut
  <1>2. QED
    BY <1>1 DEF RowOut

(* And the place it is given back to is where it stood before.             *)
LEMMA RowBackIs ==
    ASSUME NEW one \in Configs, ~PathsCollide(one), NEW other, NEW s
    PROVE  LET back == RowBack(one, other, s)
           IN  /\ \A k \in Extra(one, other) : s = Insertion(one, k) =>
                    back = Index(one, k) /\ back \in 1 .. Len(one.views)
               /\ back # 0 => \E k \in Extra(one, other) : s = Insertion(one, k)
  <1>1. ASSUME NEW k \in Extra(one, other), s = Insertion(one, k)
        PROVE  RowBack(one, other, s) = Index(one, k)
               /\ Index(one, k) \in 1 .. Len(one.views)
    <2>1. k \in Keys(one)
      BY DEF Extra
    <2>2. Index(one, k) \in DOMAIN one.views
      BY <2>1, ViewNamed
    <2>3. s.at = Index(one, k)
      BY <1>1 DEF Insertion, ViewStep
    <2>4. DOMAIN one.views = 1 .. Len(one.views)
      BY ViewsAre
    <2>5. QED
      BY <1>1, <2>2, <2>3, <2>4 DEF RowBack
  <1>2. QED
    BY <1>1 DEF RowBack

(* The turn of a step for a view.                                          *)
LEMMA ViewTurn ==
    ASSUME NEW config, NEW k
    PROVE  /\ Turn(Removal(config, k)) = <<3, -Index(config, k), 0, 0, 0>>
           /\ Turn(Insertion(config, k)) = <<4, Index(config, k), 3, Index(config, k), 0>>
  <1> DEFINE s == Removal(config, k)
             t == Insertion(config, k)
  <1>1. s.action = "remove" /\ s.kind = "view" /\ s.index = Index(config, k)
    BY DEF Removal, ViewStep
  <1>2. /\ t.action = "insert" /\ t.kind = "view" /\ t.index = Index(config, k)
        /\ t.at = Index(config, k) /\ t.list = 0
    BY DEF Insertion, ViewStep
  <1> HIDE DEF s, t
  <1>3. Turn(s) = <<3, -Index(config, k), 0, 0, 0>>
    BY <1>1 DEF Turn, Rank, ItemKinds
  <1>4. Turn(t) = <<4, Index(config, k), 3, Index(config, k), 0>>
    BY <1>2 DEF Turn, Rank, ItemKinds
  <1>5. QED
    BY <1>3, <1>4 DEF s, t

(* Views go last first, and come back first first, after that.             *)
LEMMA ViewsInTurn ==
    ASSUME NEW one, NEW other, NEW order, NEW c, UnderWay(one, other, order, c),
           NEW m \in 1 .. Len(order), NEW n \in 1 .. Len(order), m < n
    PROVE  /\ RowOut(one, other, order[m]) # 0 /\ RowOut(one, other, order[n]) # 0
                => RowOut(one, other, order[n]) < RowOut(one, other, order[m])
           /\ RowBack(one, other, order[m]) # 0 /\ RowBack(one, other, order[n]) # 0
                => RowBack(one, other, order[m]) < RowBack(one, other, order[n])
           /\ RowBack(one, other, order[m]) # 0 => RowOut(one, other, order[n]) = 0
  <1> DEFINE Gone(j) == RowOut(one, other, order[j])
             Came(j) == RowBack(one, other, order[j])
  <1>1. /\ one \in Configs /\ other \in Configs /\ ~PathsCollide(one) /\ ~PathsCollide(other)
    BY PlanAtOnce DEF UnderWay, AtOnce
  <1>2. ~Lower(Turn(order[n]), Turn(order[m])) /\ order[m] # order[n]
    BY NotBefore DEF UnderWay, Carried
  <1>3. ASSUME NEW j \in {m, n}, Gone(j) # 0
        PROVE  \E k \in Keys(other) :
                 /\ order[j] = Removal(other, k) /\ Gone(j) = Index(other, k) /\ Gone(j) \in Nat
                 /\ Turn(order[j]) = <<3, -Gone(j), 0, 0, 0>>
    <2>0. RowOut(one, other, order[j]) # 0
      BY <1>3
    <2>1. PICK k \in Extra(other, one) : order[j] = Removal(other, k)
      BY <2>0 DEF RowOut
    <2>2. Gone(j) = Index(other, k) /\ Gone(j) \in 1 .. Len(other.views)
      BY <1>1, <2>1, RowOutIs
    <2> HIDE DEF Gone
    <2>3. Turn(order[j]) = <<3, -Gone(j), 0, 0, 0>>
      BY <2>1, <2>2, ViewTurn
    <2>4. k \in Keys(other)
      BY DEF Extra
    <2>5. QED
      BY <2>1, <2>2, <2>3, <2>4
  <1>4. ASSUME NEW j \in {m, n}, Came(j) # 0
        PROVE  \E k \in Keys(one) :
                 /\ order[j] = Insertion(one, k) /\ Came(j) = Index(one, k) /\ Came(j) \in Nat
                 /\ Turn(order[j]) = <<4, Came(j), 3, Came(j), 0>>
    <2>1. PICK k \in Extra(one, other) : order[j] = Insertion(one, k)
      BY <1>1, <1>4, RowBackIs
    <2>2. Came(j) = Index(one, k) /\ Came(j) \in 1 .. Len(one.views)
      BY <1>1, <2>1, RowBackIs
    <2> HIDE DEF Came
    <2>3. Turn(order[j]) = <<4, Came(j), 3, Came(j), 0>>
      BY <2>1, <2>2, ViewTurn
    <2>4. k \in Keys(one)
      BY DEF Extra
    <2>5. QED
      BY <2>1, <2>2, <2>3, <2>4
  <1>5. ASSUME NEW config \in Configs, ~PathsCollide(config),
               NEW j \in Keys(config), NEW k \in Keys(config), Index(config, j) = Index(config, k)
        PROVE  j = k
    BY <1>5, ViewNamed
  <1> HIDE DEF Gone, Came
  <1>6. ASSUME Gone(m) # 0, Gone(n) # 0 PROVE Gone(n) < Gone(m)
    <2>1. PICK j \in Keys(other) :
            /\ order[m] = Removal(other, j) /\ Gone(m) = Index(other, j) /\ Gone(m) \in Nat
            /\ Turn(order[m]) = <<3, -Gone(m), 0, 0, 0>>
      BY <1>3, <1>6
    <2>2. PICK k \in Keys(other) :
            /\ order[n] = Removal(other, k) /\ Gone(n) = Index(other, k) /\ Gone(n) \in Nat
            /\ Turn(order[n]) = <<3, -Gone(n), 0, 0, 0>>
      BY <1>3, <1>6
    <2>3. ~(-Gone(n) < -Gone(m))
      BY <1>2, <2>1, <2>2 DEF Lower
    <2>4. Gone(n) # Gone(m)
      BY <1>1, <1>2, <1>5, <2>1, <2>2
    <2>5. QED
      BY <2>1, <2>2, <2>3, <2>4
  <1>7. ASSUME Came(m) # 0, Came(n) # 0 PROVE Came(m) < Came(n)
    <2>1. PICK j \in Keys(one) :
            /\ order[m] = Insertion(one, j) /\ Came(m) = Index(one, j) /\ Came(m) \in Nat
            /\ Turn(order[m]) = <<4, Came(m), 3, Came(m), 0>>
      BY <1>4, <1>7
    <2>2. PICK k \in Keys(one) :
            /\ order[n] = Insertion(one, k) /\ Came(n) = Index(one, k) /\ Came(n) \in Nat
            /\ Turn(order[n]) = <<4, Came(n), 3, Came(n), 0>>
      BY <1>4, <1>7
    <2>3. ~(Came(n) < Came(m))
      BY <1>2, <2>1, <2>2 DEF Lower
    <2>4. Came(n) # Came(m)
      BY <1>1, <1>2, <1>5, <2>1, <2>2
    <2>5. QED
      BY <2>1, <2>2, <2>3, <2>4
  <1>8. ASSUME Came(m) # 0, Gone(n) # 0 PROVE FALSE
    <2>1. Turn(order[n])[1] = 3 /\ Turn(order[m])[1] = 4
      BY <1>3, <1>4, <1>8
    <2>2. QED
      BY <1>2, <2>1 DEF Lower
  <1>9. QED
    BY <1>6, <1>7, <1>8 DEF Gone, Came

(* The views both have keep their order.                                   *)
ViewPairs(one, other) == {<<Index(one, k), Index(other, k)>> : k \in Common(one, other)}

(* They are the same views, in one order.                                  *)
LEMMA ViewsSteady ==
    ASSUME NEW one \in Configs, ~PathsCollide(one), NEW other \in Configs, ~PathsCollide(other),
           SameOrder(one, other)
    PROVE  Steady(ViewPairs(one, other), PathRow(one), PathRow(other))
  <1>1. ASSUME NEW p \in ViewPairs(one, other)
        PROVE  \E k \in Common(one, other) : p = <<Index(one, k), Index(other, k)>>
    BY DEF ViewPairs
  <1>2. ASSUME NEW k \in Common(one, other)
        PROVE  /\ k \in Keys(one) \cap Keys(other)
               /\ Index(one, k) \in 1 .. Len(PathRow(one)) /\ Key(one, Index(one, k)) = k
               /\ Index(other, k) \in 1 .. Len(PathRow(other)) /\ Key(other, Index(other, k)) = k
               /\ PathRow(one)[Index(one, k)] = PathRow(other)[Index(other, k)]
    <2>1. k \in Keys(one) /\ k \in Keys(other)
      BY DEF Common
    <2>2. /\ Index(one, k) \in DOMAIN one.views /\ Key(one, Index(one, k)) = k
          /\ View(one, k).path = k[1]
      BY <2>1, ViewNamed
    <2>3. /\ Index(other, k) \in DOMAIN other.views /\ Key(other, Index(other, k)) = k
          /\ View(other, k).path = k[1]
      BY <2>1, ViewNamed
    <2>4. /\ DOMAIN one.views = 1 .. Len(one.views) /\ Len(PathRow(one)) = Len(one.views)
          /\ DOMAIN other.views = 1 .. Len(other.views) /\ Len(PathRow(other)) = Len(other.views)
      BY ViewsAre, PathRowIs
    <2>5. /\ PathRow(one)[Index(one, k)] = one.views[Index(one, k)].path
          /\ PathRow(other)[Index(other, k)] = other.views[Index(other, k)].path
      BY <2>2, <2>3, <2>4, PathRowIs
    <2>6. QED
      BY <2>1, <2>2, <2>3, <2>4, <2>5 DEF View
  <1>3. ASSUME NEW p \in ViewPairs(one, other), NEW q \in ViewPairs(one, other)
        PROVE  (p[1] = q[1] <=> p[2] = q[2]) /\ (p[1] < q[1] <=> p[2] < q[2])
    <2>1. PICK k \in Common(one, other) : p = <<Index(one, k), Index(other, k)>>
      BY <1>1
    <2>2. PICK l \in Common(one, other) : q = <<Index(one, l), Index(other, l)>>
      BY <1>1
    <2>3. Index(one, k) = Index(one, l) <=> Index(other, k) = Index(other, l)
      BY <1>2
    <2>4. Index(one, k) < Index(one, l) <=> Index(other, k) < Index(other, l)
      BY <1>2 DEF SameOrder
    <2>5. QED
      BY <2>1, <2>2, <2>3, <2>4
  <1>4. ASSUME NEW p \in ViewPairs(one, other)
        PROVE  /\ p = <<p[1], p[2]>>
               /\ p[1] \in 1 .. Len(PathRow(one)) /\ p[2] \in 1 .. Len(PathRow(other))
               /\ PathRow(one)[p[1]] = PathRow(other)[p[2]]
    <2>1. PICK k \in Common(one, other) : p = <<Index(one, k), Index(other, k)>>
      BY <1>1
    <2>2. p[1] = Index(one, k) /\ p[2] = Index(other, k) /\ p = <<p[1], p[2]>>
      BY <2>1
    <2>3. QED
      BY <1>2, <2>2
  <1>5. OneToOne(ViewPairs(one, other))
    BY <1>3 DEF OneToOne
  <1>6. QED
    BY <1>3, <1>4, <1>5 DEF Steady

(* A step that is for no view leaves the row of views alone.               *)
LEMMA SamePaths ==
    ASSUME NEW config \in Configs, NEW new, SameRow(config, new)
    PROVE  PathRow(new) = PathRow(config)
  <1>1. /\ Len(new.views) = Len(config.views)
        /\ \A v \in 1 .. Len(config.views) : new.views[v].path = config.views[v].path
    BY DEF SameRow
  <1>2. QED
    BY <1>1 DEF PathRow

(* The step for a view has the effect of that step.                        *)
LEMMA TakesOneView ==
    ASSUME NEW one \in Configs, ~PathsCollide(one), NEW other \in Configs, ~PathsCollide(other),
           NEW k \in Extra(other, one), NEW config, NEW new,
           Effect(one, other, Removal(other, k), config, new)
    PROVE  RowLess(config, new, k)
  <1> DEFINE s == Removal(other, k)
  <1>1. s.kind = "view" /\ s.action = "remove" /\ k \in Keys(other)
    BY KindsDiffer DEF Extra
  <1>2. \A j \in Extra(other, one) : s = Removal(other, j) => j = k
    <2>1. ASSUME NEW j \in Extra(other, one), s = Removal(other, j) PROVE j = k
      <3>1. j \in Keys(other)
        BY DEF Extra
      <3>2. QED
        BY <1>1, <2>1, <3>1, ViewStepsDiffer
    <2>2. QED
      BY <2>1
  <1>3. Effect(one, other, s, config, new)
    OBVIOUS
  <1> HIDE DEF s
  <1>4. ASSUME NEW key PROVE s # Row(one, other, key) /\ s # Insertion(one, key)
    BY <1>1, KindsDiffer
  <1>5. ASSUME NEW kind \in ItemKind, NEW action, NEW board, NEW t PROVE s # Step(action, kind, board, t)
    BY <1>1, KindsDiffer
  <1>6. QED
    BY <1>2, <1>3, <1>4, <1>5 DEF Effect

(* And that which gives one back.                                          *)
LEMMA GivesOneView ==
    ASSUME NEW one \in Configs, ~PathsCollide(one), NEW other \in Configs, ~PathsCollide(other),
           NEW k \in Extra(one, other), NEW config, NEW new,
           Effect(one, other, Insertion(one, k), config, new)
    PROVE  RowMore(config, new, k, Index(one, k), View(one, k))
  <1> DEFINE s == Insertion(one, k)
  <1>1. s.kind = "view" /\ s.action = "insert" /\ k \in Keys(one)
    BY KindsDiffer DEF Extra
  <1>2. \A j \in Extra(one, other) : s = Insertion(one, j) => j = k
    <2>1. ASSUME NEW j \in Extra(one, other), s = Insertion(one, j) PROVE j = k
      <3>1. j \in Keys(one)
        BY DEF Extra
      <3>2. QED
        BY <1>1, <2>1, <3>1, ViewStepsDiffer
    <2>2. QED
      BY <2>1
  <1>3. Effect(one, other, s, config, new)
    OBVIOUS
  <1> HIDE DEF s
  <1>4. ASSUME NEW key PROVE s # Row(one, other, key) /\ s # Removal(other, key)
    BY <1>1, KindsDiffer
  <1>5. ASSUME NEW kind \in ItemKind, NEW action, NEW board, NEW t PROVE s # Step(action, kind, board, t)
    BY <1>1, KindsDiffer
  <1>6. QED
    BY <1>2, <1>3, <1>4, <1>5 DEF Effect

(* Which steps are not the step for a view.                                *)
LEMMA NotThatView ==
    ASSUME NEW one, NEW other, NEW k, NEW s
    PROVE  /\ s.kind # "view" => s # Removal(other, k) /\ s # Insertion(one, k)
           /\ s.action = "remove" => s # Insertion(one, k)
           /\ s.action = "insert" => s # Removal(other, k)
  <1>1. /\ Removal(other, k).kind = "view" /\ Removal(other, k).action = "remove"
        /\ Insertion(one, k).kind = "view" /\ Insertion(one, k).action = "insert"
    BY KindsDiffer
  <1>2. QED
    BY <1>1

(* What a step does to the row of paths.                                   *)
LEMMA PathsStep ==
    ASSUME NEW one, NEW other, AtOnce(one, other), PlacesHold(one, other), NEW s,
           NEW config, Standing(one, other, config), NEW new, Effect(one, other, s, config, new)
    PROVE  /\ RowOut(one, other, s) \in 0 .. Len(other.views)
           /\ RowBack(one, other, s) \in 0 .. Len(one.views)
           /\ RowOut(one, other, s) = 0 /\ RowBack(one, other, s) = 0
                => PathRow(new) = PathRow(config)
           /\ RowOut(one, other, s) # 0 /\ RowOut(one, other, s) \in 1 .. Len(PathRow(config))
                /\ PathRow(config)[RowOut(one, other, s)] = PathRow(other)[RowOut(one, other, s)]
                => PathRow(new) = RemoveAt(PathRow(config), RowOut(one, other, s))
           /\ RowBack(one, other, s) # 0
                => /\ RowOut(one, other, s) = 0
                   /\ PathRow(new) = PutAt(PathRow(config), RowBack(one, other, s),
                                           PathRow(one)[RowBack(one, other, s)])
  <1> DEFINE out == RowOut(one, other, s)
             came == RowBack(one, other, s)
  <1>1. /\ one \in Configs /\ other \in Configs /\ ~PathsCollide(one) /\ ~PathsCollide(other)
        /\ config \in Configs /\ ~PathsCollide(config)
        /\ Len(one.views) \in Nat /\ Len(other.views) \in Nat
    BY PlanAtOnce, ViewsAre DEF AtOnce, Standing
  <1>2. ASSUME s.kind # "view" PROVE out = 0 /\ came = 0
    <2>1. \A k \in Extra(other, one) : s # Removal(other, k)
      BY <1>2, NotThatView
    <2>2. \A k \in Extra(one, other) : s # Insertion(one, k)
      BY <1>2, NotThatView
    <2>3. QED
      BY <2>1, <2>2 DEF RowOut, RowBack
  <1>3. CASE s.kind # "view"
    <2>1. SameRow(config, new)
      <3>1. ASSUME NEW k PROVE s # Removal(other, k) /\ s # Insertion(one, k)
        BY <1>3, NotThatView
      <3>2. CASE \E key \in Written(one, other) : WroteRow(one, other, config, new, key)
        BY <3>2 DEF WroteRow, DiffersIn
      <3>3. CASE \E kind \in ItemKind : \E t \in ItemsGo(one, other, kind) : Took(config, new, kind, t)
        BY <3>3 DEF Took, WroteList, DiffersIn
      <3>4. CASE \E kind \in ItemKind : \E t \in ItemsCome(one, other, kind) : Gave(config, new, kind, t)
        BY <3>4 DEF Gave, WroteList, DiffersIn
      <3>5. QED
        BY <3>1, <3>2, <3>3, <3>4 DEF Effect
    <2>2. PathRow(new) = PathRow(config)
      BY <1>1, <2>1, SamePaths
    <2> HIDE DEF out, came
    <2>3. out = 0 /\ came = 0
      BY <1>2, <1>3
    <2>4. QED
      BY <1>1, <2>2, <2>3 DEF out, came
  <1>4. ASSUME NEW k \in Extra(other, one), s = Removal(other, k)
        PROVE  /\ out \in 1 .. Len(other.views) /\ came = 0
               /\ out \in 1 .. Len(PathRow(config)) /\ PathRow(config)[out] = PathRow(other)[out]
                    => PathRow(new) = RemoveAt(PathRow(config), out)
    <2>1. out = Index(other, k) /\ out \in 1 .. Len(other.views)
      BY <1>1, <1>4, RowOutIs
    <2>2. came = 0
      <3>1. s.action = "remove"
        BY <1>4, KindsDiffer
      <3>2. \A l \in Extra(one, other) : s # Insertion(one, l)
        BY <3>1, NotThatView
      <3>3. QED
        BY <3>2 DEF RowBack
    <2>3. RowLess(config, new, k)
      BY <1>1, <1>4, TakesOneView
    <2>4. k \in Keys(other) /\ ~Pathless(other) /\ ~Pathless(config)
      <3>1. k \in Keys(other) /\ Keys(one) # Keys(other)
        BY DEF Extra
      <3>2. QED
        BY <3>1 DEF PlacesHold, Standing
    <2>5. ASSUME out \in 1 .. Len(PathRow(config)), PathRow(config)[out] = PathRow(other)[out]
          PROVE  PathRow(new) = RemoveAt(PathRow(config), out)
      <3> HIDE DEF out
      <3>1. /\ out \in DOMAIN config.views /\ out \in DOMAIN other.views
            /\ config.views[out].path = other.views[out].path
        BY <1>1, <2>1, <2>5, PathRowIs, ViewsAre
      <3>2. Key(config, out) = Key(other, out)
        BY <1>1, <2>4, <3>1, KeyedByPath
      <3>3. Key(other, out) = k
        BY <1>1, <2>1, <2>4, ViewNamed
      <3>4. Index(config, k) = out
        BY <1>1, <3>1, <3>2, <3>3, KeyNamesOne
      <3>5. QED
        BY <2>3, <3>4 DEF RowLess
    <2>6. QED
      BY <2>1, <2>2, <2>5
  <1>5. ASSUME NEW k \in Extra(one, other), s = Insertion(one, k)
        PROVE  /\ came \in 1 .. Len(one.views) /\ out = 0
               /\ PathRow(new) = PutAt(PathRow(config), came, PathRow(one)[came])
    <2>1. came = Index(one, k) /\ came \in 1 .. Len(one.views)
      BY <1>1, <1>5, RowBackIs
    <2>2. out = 0
      <3>1. s.action = "insert"
        BY <1>5, KindsDiffer
      <3>2. \A l \in Extra(other, one) : s # Removal(other, l)
        BY <3>1, NotThatView
      <3>3. QED
        BY <3>2 DEF RowOut
    <2>3. RowMore(config, new, k, Index(one, k), View(one, k))
      BY <1>1, <1>5, GivesOneView
    <2>4. PathRow(one)[came] = View(one, k).path
      BY <1>1, <2>1, PathRowIs DEF View
    <2> HIDE DEF came
    <2>5. QED
      BY <2>1, <2>2, <2>3, <2>4 DEF RowMore
  <1>6. CASE s.kind = "view"
    <2>1. (\E k \in Extra(other, one) : s = Removal(other, k))
            \/ (\E k \in Extra(one, other) : s = Insertion(one, k))
      <3>1. ASSUME NEW kind \in ItemKind, NEW action, NEW board, NEW t,
                   s = Step(action, kind, board, t)
            PROVE  FALSE
        BY <1>6, <3>1, KindsDiffer
      <3>2. ASSUME NEW key, s = Row(one, other, key) PROVE FALSE
        BY <1>6, <3>2, KindsDiffer
      <3>3. QED
        BY <3>1, <3>2 DEF Effect
    <2> HIDE DEF out, came
    <2>2. CASE \E k \in Extra(other, one) : s = Removal(other, k)
      <3>1. PICK k \in Extra(other, one) : s = Removal(other, k)
        BY <2>2
      <3>2. /\ out \in 1 .. Len(other.views) /\ came = 0
            /\ out \in 1 .. Len(PathRow(config)) /\ PathRow(config)[out] = PathRow(other)[out]
                 => PathRow(new) = RemoveAt(PathRow(config), out)
        BY <1>4, <3>1
      <3>3. QED
        BY <1>1, <3>2 DEF out, came
    <2>3. CASE \E k \in Extra(one, other) : s = Insertion(one, k)
      <3>1. PICK k \in Extra(one, other) : s = Insertion(one, k)
        BY <2>3
      <3>2. /\ came \in 1 .. Len(one.views) /\ out = 0
            /\ PathRow(new) = PutAt(PathRow(config), came, PathRow(one)[came])
        BY <1>5, <3>1
      <3>3. QED
        BY <1>1, <3>2 DEF out, came
    <2>4. QED
      BY <2>1, <2>2, <2>3
  <1>7. QED
    BY <1>3, <1>6

(* The titles written, the row of views is still as the change left it.    *)
LEMMA PathsAtStart ==
    ASSUME NEW one, NEW other, AtOnce(one, other), NEW c,
           c = WriteSettings(other, PlanUndo(one, other, other).settings)
    PROVE  PathRow(c) = PathRow(other)
  <1>1. /\ Len(c.views) = Len(other.views)
        /\ \A v \in 1 .. Len(other.views) : c.views[v].path = other.views[v].path
    BY SettingsGoBack
  <1>2. QED
    BY <1>1 DEF PathRow

(* The views of one dashboard that stand in the pairs.                     *)
LEMMA ViewsPaired ==
    ASSUME NEW one \in Configs, ~PathsCollide(one), NEW other \in Configs, ~PathsCollide(other)
    PROVE  /\ \A i \in 1 .. Len(one.views) :
                i \in Olds(ViewPairs(one, other)) <=> Key(one, i) \in Keys(other)
           /\ \A j \in 1 .. Len(other.views) :
                j \in News(ViewPairs(one, other)) <=> Key(other, j) \in Keys(one)
  <1>1. /\ \A i : i \in Olds(ViewPairs(one, other)) <=> \E k \in Common(one, other) : i = Index(one, k)
        /\ \A j : j \in News(ViewPairs(one, other)) <=> \E k \in Common(one, other) : j = Index(other, k)
    <2>1. \A k : <<Index(one, k), Index(other, k)>>[1] = Index(one, k)
                 /\ <<Index(one, k), Index(other, k)>>[2] = Index(other, k)
      OBVIOUS
    <2>2. QED
      BY <2>1 DEF Olds, News, ViewPairs
  <1>2. ASSUME NEW i \in 1 .. Len(one.views)
        PROVE  i \in Olds(ViewPairs(one, other)) <=> Key(one, i) \in Keys(other)
    <2>1. Key(one, i) \in Keys(one) /\ Index(one, Key(one, i)) = i
      BY ViewsAre, KeyNamesOne
    <2>2. \A k \in Common(one, other) : Key(one, Index(one, k)) = k
      BY ViewNamed DEF Common
    <2>3. QED
      BY <1>1, <2>1, <2>2 DEF Common
  <1>3. ASSUME NEW j \in 1 .. Len(other.views)
        PROVE  j \in News(ViewPairs(one, other)) <=> Key(other, j) \in Keys(one)
    <2>1. Key(other, j) \in Keys(other) /\ Index(other, Key(other, j)) = j
      BY ViewsAre, KeyNamesOne
    <2>2. \A k \in Common(one, other) : Key(other, Index(other, k)) = k
      BY ViewNamed DEF Common
    <2>3. QED
      BY <1>1, <2>1, <2>2 DEF Common
  <1>4. QED
    BY <1>2, <1>3

(* The step that takes the view at a place, and the one that gives it      *)
(* back.                                                                   *)
LEMMA RowOutFor ==
    ASSUME NEW one, NEW other \in Configs, ~PathsCollide(other), NEW j \in 1 .. Len(other.views), NEW s
    PROVE  RowOut(one, other, s) = j
             <=> Key(other, j) \in Extra(other, one) /\ s = Removal(other, Key(other, j))
  <1>1. j # 0 /\ Key(other, j) \in Keys(other) /\ Index(other, Key(other, j)) = j
    BY ViewsAre, KeyNamesOne
  <1>2. ASSUME RowOut(one, other, s) = j
        PROVE  Key(other, j) \in Extra(other, one) /\ s = Removal(other, Key(other, j))
    <2>1. PICK k \in Extra(other, one) : s = Removal(other, k)
      BY <1>1, <1>2 DEF RowOut
    <2>2. RowOut(one, other, s) = Index(other, k)
      BY <2>1, RowOutIs
    <2>3. Key(other, Index(other, k)) = k
      BY ViewNamed DEF Extra
    <2>4. QED
      BY <1>2, <2>1, <2>2, <2>3
  <1>3. ASSUME Key(other, j) \in Extra(other, one), s = Removal(other, Key(other, j))
        PROVE  RowOut(one, other, s) = j
    BY <1>1, <1>3, RowOutIs
  <1>4. QED
    BY <1>2, <1>3

(* The same for the step that gives it back.                               *)
LEMMA RowBackFor ==
    ASSUME NEW one \in Configs, ~PathsCollide(one), NEW other, NEW i \in 1 .. Len(one.views), NEW s
    PROVE  RowBack(one, other, s) = i
             <=> Key(one, i) \in Extra(one, other) /\ s = Insertion(one, Key(one, i))
  <1>1. i # 0 /\ Key(one, i) \in Keys(one) /\ Index(one, Key(one, i)) = i
    BY ViewsAre, KeyNamesOne
  <1>2. ASSUME RowBack(one, other, s) = i
        PROVE  Key(one, i) \in Extra(one, other) /\ s = Insertion(one, Key(one, i))
    <2>1. PICK k \in Extra(one, other) : s = Insertion(one, k)
      BY <1>1, <1>2 DEF RowBack
    <2>2. RowBack(one, other, s) = Index(one, k)
      BY <2>1, RowBackIs
    <2>3. Key(one, Index(one, k)) = k
      BY ViewNamed DEF Extra
    <2>4. QED
      BY <1>2, <2>1, <2>2, <2>3
  <1>3. ASSUME Key(one, i) \in Extra(one, other), s = Insertion(one, Key(one, i))
        PROVE  RowBack(one, other, s) = i
    BY <1>1, <1>3, RowBackIs
  <1>4. QED
    BY <1>2, <1>3

(* What is planned for the row of views is done.                           *)
LEMMA ViewsDone ==
    ASSUME NEW one, NEW other, NEW order, NEW c, UnderWay(one, other, order, c)
    PROVE  /\ \A j \in 1 .. Len(other.views) :
                (\E n \in 1 .. Len(order) : RowOut(one, other, order[n]) = j)
                  <=> j \notin News(ViewPairs(one, other))
           /\ \A i \in 1 .. Len(one.views) :
                (\E n \in 1 .. Len(order) : RowBack(one, other, order[n]) = i)
                  <=> i \notin Olds(ViewPairs(one, other))
  <1> DEFINE steps == PlanUndo(one, other, other).steps
  <1>1. /\ AtOnce(one, other) /\ PlacesHold(one, other) /\ one \in Configs /\ other \in Configs
        /\ ~PathsCollide(one) /\ ~PathsCollide(other)
    BY PlanAtOnce DEF UnderWay, AtOnce
  <1>2. \A s \in steps : \E n \in 1 .. Len(order) : order[n] = s
    BY DEF UnderWay, Carried, Ordered
  <1>3. /\ \A k \in Extra(other, one) : Removal(other, k) \in steps
        /\ \A k \in Extra(one, other) : Insertion(one, k) \in steps
    BY <1>1, StepsAtOnce
  <1> HIDE DEF steps
  <1>4. ASSUME NEW j \in 1 .. Len(other.views)
        PROVE  (\E n \in 1 .. Len(order) : RowOut(one, other, order[n]) = j)
                 <=> j \notin News(ViewPairs(one, other))
    <2>1. j \in News(ViewPairs(one, other)) <=> Key(other, j) \in Keys(one)
      BY <1>1, ViewsPaired
    <2>2. Key(other, j) \in Keys(other)
      BY <1>1, ViewsAre, KeyNamesOne
    <2>3. \A n \in 1 .. Len(order) :
            RowOut(one, other, order[n]) = j
              <=> Key(other, j) \in Extra(other, one) /\ order[n] = Removal(other, Key(other, j))
      <3>1. ASSUME NEW s
            PROVE  RowOut(one, other, s) = j
                     <=> Key(other, j) \in Extra(other, one) /\ s = Removal(other, Key(other, j))
        BY <1>1, RowOutFor
      <3>2. QED
        BY <3>1
    <2>4. QED
      BY <1>2, <1>3, <2>1, <2>2, <2>3 DEF Extra
  <1>5. ASSUME NEW i \in 1 .. Len(one.views)
        PROVE  (\E n \in 1 .. Len(order) : RowBack(one, other, order[n]) = i)
                 <=> i \notin Olds(ViewPairs(one, other))
    <2>1. i \in Olds(ViewPairs(one, other)) <=> Key(one, i) \in Keys(other)
      BY <1>1, ViewsPaired
    <2>2. Key(one, i) \in Keys(one)
      BY <1>1, ViewsAre, KeyNamesOne
    <2>3. \A n \in 1 .. Len(order) :
            RowBack(one, other, order[n]) = i
              <=> Key(one, i) \in Extra(one, other) /\ order[n] = Insertion(one, Key(one, i))
      <3>1. ASSUME NEW s
            PROVE  RowBack(one, other, s) = i
                     <=> Key(one, i) \in Extra(one, other) /\ s = Insertion(one, Key(one, i))
        BY <1>1, RowBackFor
      <3>2. QED
        BY <3>1
    <2>4. QED
      BY <1>2, <1>3, <2>1, <2>2, <2>3 DEF Extra
  <1>6. QED
    BY <1>4, <1>5

(* Where the views both have keep their order, the row of views goes back. *)
LEMMA PathsGoBack ==
    ASSUME NEW one, NEW other, NEW order, NEW c, UnderWay(one, other, order, c),
           SameOrder(one, other)
    PROVE  PathRow(c[Len(order)]) = PathRow(one)
  <1> DEFINE N == Len(order)
             was == PathRow(one)
             is == PathRow(other)
             S == Paths \cup {None}
             pairs == ViewPairs(one, other)
             T == [n \in 0 .. N |-> PathRow(c[n])]
             out == [n \in 1 .. N |-> RowOut(one, other, order[n])]
             back == [n \in 1 .. N |-> RowBack(one, other, order[n])]
  <1>1. /\ AtOnce(one, other) /\ PlacesHold(one, other) /\ one \in Configs /\ other \in Configs
        /\ ~PathsCollide(one) /\ ~PathsCollide(other)
    BY PlanAtOnce DEF UnderWay, AtOnce
  <1>2. /\ N \in Nat
        /\ \A n \in 0 .. N : c[n] \in Configs /\ Standing(one, other, c[n])
        /\ \A n \in 1 .. N : Effect(one, other, order[n], c[n - 1], c[n])
    BY AllTheWay DEF Midway
  <1>3. c[0] = WriteSettings(other, PlanUndo(one, other, other).settings)
    BY DEF UnderWay, Carried
  <1>4. /\ was \in Seq(S) /\ is \in Seq(S) /\ Steady(pairs, was, is)
        /\ Len(was) = Len(one.views) /\ Len(is) = Len(other.views)
    BY <1>1, PathRowIs, ViewsSteady
  <1>5. \A n \in 0 .. N : T[n] = PathRow(c[n])
    OBVIOUS
  <1>6. \A n \in 1 .. N : out[n] = RowOut(one, other, order[n])
                          /\ back[n] = RowBack(one, other, order[n])
    OBVIOUS
  <1> HIDE DEF N, was, is, S, T, out, back, pairs
  <1>7. T[0] = is
    BY <1>1, <1>2, <1>3, <1>5, PathsAtStart DEF is
  <1>8. ASSUME NEW n \in 0 .. N PROVE T[n] \in Seq(S)
    BY <1>2, <1>5, PathRowIs DEF S
  <1>9. ASSUME NEW n \in 1 .. N
        PROVE  /\ out[n] \in 0 .. Len(is) /\ back[n] \in 0 .. Len(was)
               /\ out[n] = 0 /\ back[n] = 0 => T[n] = T[n - 1]
    <2>1. /\ n - 1 \in 0 .. N /\ n \in 0 .. N
          /\ Standing(one, other, c[n - 1]) /\ Effect(one, other, order[n], c[n - 1], c[n])
      BY <1>2
    <2>2. T[n] = PathRow(c[n]) /\ T[n - 1] = PathRow(c[n - 1])
      BY <1>5, <2>1
    <2>3. QED
      BY <1>1, <1>4, <1>6, <2>1, <2>2, PathsStep
  <1>10. ASSUME NEW n \in 1 .. N, out[n] # 0, out[n] \in 1 .. Len(T[n - 1]),
                T[n - 1][out[n]] = is[out[n]]
         PROVE  T[n] = RemoveAt(T[n - 1], out[n])
    <2>1. /\ n - 1 \in 0 .. N /\ n \in 0 .. N
          /\ Standing(one, other, c[n - 1]) /\ Effect(one, other, order[n], c[n - 1], c[n])
      BY <1>2
    <2>2. T[n] = PathRow(c[n]) /\ T[n - 1] = PathRow(c[n - 1])
      BY <1>5, <2>1
    <2>3. QED
      BY <1>1, <1>6, <1>10, <2>1, <2>2, PathsStep DEF is
  <1>11. ASSUME NEW n \in 1 .. N, back[n] # 0
         PROVE  out[n] = 0 /\ T[n] = PutAt(T[n - 1], back[n], was[back[n]])
    <2>1. /\ n - 1 \in 0 .. N /\ n \in 0 .. N
          /\ Standing(one, other, c[n - 1]) /\ Effect(one, other, order[n], c[n - 1], c[n])
      BY <1>2
    <2>2. T[n] = PathRow(c[n]) /\ T[n - 1] = PathRow(c[n - 1])
      BY <1>5, <2>1
    <2>3. QED
      BY <1>1, <1>6, <1>11, <2>1, <2>2, PathsStep DEF was
  <1>12. ASSUME NEW m \in 1 .. N, NEW n \in 1 .. N, m < n
         PROVE  /\ out[m] # 0 /\ out[n] # 0 => out[n] < out[m]
                /\ back[m] # 0 /\ back[n] # 0 => back[m] < back[n]
                /\ back[m] # 0 => out[n] = 0
    <2>1. m \in 1 .. Len(order) /\ n \in 1 .. Len(order)
      BY DEF N
    <2>2. /\ RowOut(one, other, order[m]) # 0 /\ RowOut(one, other, order[n]) # 0
               => RowOut(one, other, order[n]) < RowOut(one, other, order[m])
          /\ RowBack(one, other, order[m]) # 0 /\ RowBack(one, other, order[n]) # 0
               => RowBack(one, other, order[m]) < RowBack(one, other, order[n])
          /\ RowBack(one, other, order[m]) # 0 => RowOut(one, other, order[n]) = 0
      BY <1>12, <2>1, ViewsInTurn
    <2>3. QED
      BY <1>6, <2>2
  <1>13. /\ \A j \in 1 .. Len(is) : (\E n \in 1 .. N : out[n] = j) <=> j \notin News(pairs)
         /\ \A i \in 1 .. Len(was) : (\E n \in 1 .. N : back[n] = i) <=> i \notin Olds(pairs)
    <2>1. /\ \A j \in 1 .. Len(other.views) :
               (\E n \in 1 .. N : RowOut(one, other, order[n]) = j) <=> j \notin News(pairs)
          /\ \A i \in 1 .. Len(one.views) :
               (\E n \in 1 .. N : RowBack(one, other, order[n]) = i) <=> i \notin Olds(pairs)
      BY ViewsDone DEF N, pairs
    <2>2. QED
      BY <1>4, <1>6, <2>1
  <1>14. Restoring(S, T, N, was, is, out, back, pairs)
    <2>1. /\ N \in Nat /\ was \in Seq(S) /\ is \in Seq(S) /\ Steady(pairs, was, is)
          /\ T[0] = is /\ \A n \in 0 .. N : T[n] \in Seq(S)
      BY <1>2, <1>4, <1>7, <1>8
    <2>2. /\ \A n \in 1 .. N : out[n] \in 0 .. Len(is) /\ back[n] \in 0 .. Len(was)
          /\ \A n \in 1 .. N : out[n] = 0 /\ back[n] = 0 => T[n] = T[n - 1]
      BY <1>9
    <2>3. \A n \in 1 .. N :
            out[n] # 0 /\ out[n] \in 1 .. Len(T[n - 1]) /\ T[n - 1][out[n]] = is[out[n]]
              => T[n] = RemoveAt(T[n - 1], out[n])
      BY <1>10
    <2>4. \A n \in 1 .. N :
            back[n] # 0 => out[n] = 0 /\ T[n] = PutAt(T[n - 1], back[n], was[back[n]])
      BY <1>11
    <2>5. /\ \A m, n \in 1 .. N : m < n /\ out[m] # 0 /\ out[n] # 0 => out[n] < out[m]
          /\ \A m, n \in 1 .. N : m < n /\ back[m] # 0 /\ back[n] # 0 => back[m] < back[n]
          /\ \A m, n \in 1 .. N : m < n /\ back[m] # 0 => out[n] = 0
      BY <1>12
    <2>6. QED
      BY <1>13, <2>1, <2>2, <2>3, <2>4, <2>5 DEF Restoring
  <1>15. T[N] = was
    BY <1>14, Restored
  <1>16. QED
    BY <1>2, <1>5, <1>15 DEF N, was

(* Two dashboards that hold the same views in the same places.             *)
LEMMA SameDashboard ==
    ASSUME NEW one \in Configs, ~PathsCollide(one), NEW new \in Configs, ~PathsCollide(new),
           SameButForOrder(one, new), PathRow(new) = PathRow(one)
    PROVE  new = one
  <1>1. one.title = new.title /\ \A k \in Keys(one) : View(one, k) = View(new, k)
    BY DEF SameButForOrder
  <1>2. /\ Len(new.views) = Len(one.views) /\ Len(one.views) \in Nat
        /\ DOMAIN one.views = 1 .. Len(one.views) /\ DOMAIN new.views = 1 .. Len(one.views)
        /\ one.views \in Seq(Views) /\ new.views \in Seq(Views)
    BY PathRowIs, ViewsAre
  <1>3. ASSUME NEW v \in 1 .. Len(one.views) PROVE new.views[v] = one.views[v]
    <2>1. new.views[v].path = one.views[v].path
      <3>1. PathRow(new)[v] = new.views[v].path /\ PathRow(one)[v] = one.views[v].path
        BY <1>2, PathRowIs
      <3>2. QED
        BY <3>1
    <2>2. Key(new, v) = Key(one, v)
      BY <2>1 DEF Key
    <2>3. Key(one, v) \in Keys(one) /\ View(one, Key(one, v)) = one.views[v]
      BY <1>2, KeyNamesOne
    <2>4. View(new, Key(new, v)) = new.views[v]
      BY <1>2, KeyNamesOne
    <2>5. QED
      BY <1>1, <2>2, <2>3, <2>4
  <1>4. new.views = one.views
    BY <1>2, <1>3, SeqEqual
  <1>5. QED
    BY <1>1, <1>4 DEF Configs

(* An undo at once leads back to what the change left behind.              *)
LEMMA BackAtOnce ==
    ASSUME NEW one \in Configs, NEW other \in Configs, PlacesHold(one, other),
           NEW result \in ApplyUndo(other, PlanUndo(one, other, other))
    PROVE  /\ SameButForOrder(one, result)
           /\ SameOrder(one, other) => result = one
  <1> DEFINE plan == PlanUndo(one, other, other)
  <1>1. ~plan.blocked
    <2>1. plan.blocked => ApplyUndo(other, plan) = {}
      BY DEF ApplyUndo
    <2>2. QED
      BY <2>1
  <1>2. AtOnce(one, other)
    BY <1>1 DEF AtOnce
  <1>3. SoundPlan(plan)
    BY <1>1, UndoPlanned
  <1>4. PICK order, c : Carried(c, order, plan, other) /\ c[Len(order)] = result
    <2>1. result \in ApplyUndo(other, plan)
      OBVIOUS
    <2> HIDE DEF plan
    <2>2. QED
      BY <1>1, <1>3, <2>1, CarriedOut
  <1>5. UnderWay(one, other, order, c)
    BY <1>2, <1>4 DEF UnderWay
  <1>6. SameButForOrder(one, result)
    BY <1>4, <1>5, HoldsWhatItHeld
  <1>7. ASSUME SameOrder(one, other) PROVE result = one
    <2>1. PathRow(result) = PathRow(one)
      BY <1>4, <1>5, <1>7, PathsGoBack
    <2>2. ~PathsCollide(one) /\ result \in Configs /\ ~PathsCollide(result)
      BY <1>2, <1>4, <1>5, PlanAtOnce, AtTheEnd
    <2>3. QED
      BY <1>6, <2>1, <2>2, SameDashboard
  <1>8. QED
    BY <1>6, <1>7

(* An undo that comes right after the change puts back what was: the same  *)
(* title and views, down to every card, badge and section, and, where the  *)
(* views of both states kept their order, the same dashboard (restore.py,  *)
(* plan_undo and apply_undo).  The exception is a view without a path in a *)
(* dashboard to which, or from which, views came or went.                  *)
THEOREM UndoneIsBefore == Spec => UndoGoesBack
  <1> DEFINE JustChanged == AnalysisTypeOK /\ (stage = "changing" => current = after)
             GoesBack == /\ SameButForOrder(before, current')
                         /\ SameOrder(before, after) => current' = before
  <1>1. Later \/ UndoChange \/ PutItemBack => stage' # "changing"
    BY DEF Later, UndoChange, PutItemBack
  <1>2. Change => current' = after' /\ stage' # "undone"
    BY DEF Change
  <1>3. Later \/ PutItemBack => stage' # "undone"
    BY DEF Later, PutItemBack
  <1>4. Init => JustChanged
    BY BoardsAreConfigs, BoundsAssumption DEF Init, AnalysisTypeOK
  <1>5. AnalysisTypeOK' /\ JustChanged /\ [Next]_vars => JustChanged'
    BY <1>1, <1>2 DEF Next, vars
  <1>6. UndoChange /\ JustChanged /\ stage = "changing" /\ PlacesHold(before, after) => GoesBack
    <2> SUFFICES ASSUME UndoChange, JustChanged, stage = "changing", PlacesHold(before, after)
                 PROVE  GoesBack
      OBVIOUS
    <2> DEFINE result == current'
    <2>1. /\ before \in Configs /\ after \in Configs
          /\ result \in ApplyUndo(after, PlanUndo(before, after, after))
      BY DEF UndoChange, AnalysisTypeOK
    <2> HIDE DEF result
    <2>2. SameButForOrder(before, result) /\ (SameOrder(before, after) => result = before)
      BY <2>1, BackAtOnce
    <2>3. QED
      BY <2>2 DEF result
  <1>7. JustChanged /\ [Next]_vars =>
          [stage = "changing" /\ stage' = "undone" /\ PlacesHold(before, after) => GoesBack]_vars
    BY <1>2, <1>3, <1>6 DEF Next, vars
  <1>8. QED
    BY <1>4, <1>5, <1>7, TypeOK, PTL DEF Spec, UndoGoesBack
================================================================================
