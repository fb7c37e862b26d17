------------------------- MODULE OffsetRangesProofs -------------------------
(***************************************************************************)
(* What _insert_offset does to a canonical list of ranges, of any length   *)
(* and for any offset: the list stays canonical, and it stands for the     *)
(* same offsets and the new one.                                           *)
(***************************************************************************)
EXTENDS OffsetRanges, FiniteSetTheorems, SequenceTheorems, WellFoundedInduction, TLAPS

\* The canonical lists, with the order between any two ranges and not only
\* between neighbours.
Ascending(r) ==
  /\ r \in Seq(Nat \X Nat)
  /\ \A i \in 1 .. Len(r) : r[i][1] < r[i][2]
  /\ \A i, j \in 1 .. Len(r) : i < j => r[i][2] < r[j][1]

\* What the list holds at each index.
LEMMA RangeAt ==
  ASSUME NEW r, Ascending(r)
  PROVE  /\ Len(r) \in Nat /\ DOMAIN r = 1 .. Len(r)
         /\ \A i \in 1 .. Len(r) : /\ r[i] \in Nat \X Nat
                                   /\ r[i][1] \in Nat /\ r[i][2] \in Nat
                                   /\ r[i][1] < r[i][2]
<1>1. r \in Seq(Nat \X Nat)
  BY DEF Ascending
<1>2. Len(r) \in Nat /\ DOMAIN r = 1 .. Len(r)
  BY <1>1, LenProperties
<1>3. \A i \in 1 .. Len(r) : r[i] \in Nat \X Nat
  BY <1>1, ElementOfSeq
<1> QED
  BY <1>2, <1>3 DEF Ascending

\* A set of indices that has no gap below its elements is an interval, and
\* its size says where it ends: how bisect_left and the while loop count.
LEMMA NoGapIsInterval ==
  ASSUME NEW a \in Nat, NEW b \in Nat, NEW T \in SUBSET ((a + 1) .. b),
         \A k \in T : (a + 1) .. k \subseteq T
  PROVE  /\ Cardinality(T) \in Nat
         /\ a + Cardinality(T) <= b \/ T = {}
         /\ T = (a + 1) .. (a + Cardinality(T))
<1>0. IsFiniteSet((a + 1) .. b)
  BY FS_Interval
<1>1. IsFiniteSet(T) /\ Cardinality(T) \in Nat
  BY <1>0, FS_Subset, FS_CardinalityType
<1> DEFINE c == Cardinality(T)
           I == (a + 1) .. (a + c)
<1> HIDE DEF c
<1>2. c \in Nat
  BY <1>1 DEF c
<1>3. IsFiniteSet(I) /\ Cardinality(I) = c
  <2>1. a + 1 \in Int /\ a + c \in Int
    BY <1>2
  <2>2. /\ IsFiniteSet(I)
        /\ Cardinality(I) = IF a + 1 > a + c THEN 0 ELSE (a + c) - (a + 1) + 1
    BY <2>1, FS_Interval DEF I
  <2> QED
    BY <1>2, <2>2
<1>4. ASSUME NEW k \in T PROVE k \in I
  <2>1. (a + 1) .. k \subseteq T /\ k \in (a + 1) .. b
    OBVIOUS
  <2>2. Cardinality((a + 1) .. k) = k - a
    <3>1. a + 1 \in Int /\ k \in Int /\ k >= a + 1
      BY <2>1
    <3>2. Cardinality((a + 1) .. k) = IF a + 1 > k THEN 0 ELSE k - (a + 1) + 1
      BY <3>1, FS_Interval
    <3> QED
      BY <3>1, <3>2
  <2>3. Cardinality((a + 1) .. k) <= c
    BY <1>1, <2>1, FS_Subset DEF c
  <2> QED
    BY <1>2, <2>1, <2>2, <2>3 DEF I
<1>5. T = I
  BY <1>3, <1>4, FS_Subset DEF c
<1>6. a + c <= b \/ T = {}
  BY <1>2, <1>5 DEF I
<1> QED
  BY <1>1, <1>5, <1>6 DEF c, I

\* bisect_left cuts the list: the ranges before the cut are smaller than the
\* new one, those behind it are not.
LEMMA BisectCuts ==
  ASSUME NEW r, Ascending(r), NEW o \in Nat
  PROVE  /\ Bisect(r, o) \in 0 .. Len(r)
         /\ \A i \in 1 .. Len(r) :
              /\ i <= Bisect(r, o) => r[i][1] <= o
              /\ i > Bisect(r, o) => r[i][1] >= o /\ r[i][2] >= o + 1
<1> DEFINE T == {i \in DOMAIN r : Less(r[i], <<o, o + 1>>)}
<1>0. Len(r) \in Nat /\ DOMAIN r = 1 .. Len(r)
  BY RangeAt
<1>1. \A i \in 1 .. Len(r) : i \in T <=> r[i][1] < o
  BY <1>0, RangeAt DEF Less
<1>3. T \in SUBSET ((0 + 1) .. Len(r))
  BY <1>0
<1>6. Bisect(r, o) = Cardinality(T)
  BY DEF Bisect
<1> HIDE DEF T
<1>2. ASSUME NEW k \in T, NEW j \in 1 .. k PROVE j \in T
  <2>1. k \in 1 .. Len(r) /\ r[k][1] < o
    BY <1>1, <1>3
  <2>2. j \in 1 .. Len(r)
    BY <1>0, <2>1
  <2>3. r[j][1] <= r[k][1]
    <3>1. CASE j = k
      BY <3>1, <2>2, RangeAt
    <3>2. CASE j # k
      <4>1. r[j][2] < r[k][1]
        <5>1. j < k
          BY <3>2, <2>1
        <5> QED
          BY <5>1, <2>1, <2>2 DEF Ascending
      <4> QED
        BY <4>1, <2>1, <2>2, RangeAt
    <3> QED
      BY <3>1, <3>2
  <2> QED
    BY <1>1, <2>1, <2>2, <2>3, RangeAt
<1>4. \A k \in T : (0 + 1) .. k \subseteq T
  BY <1>2
<1>5. /\ 0 + Cardinality(T) <= Len(r) \/ T = {}
      /\ Cardinality(T) \in Nat
      /\ T = (0 + 1) .. (0 + Cardinality(T))
  BY <1>0, <1>3, <1>4, NoGapIsInterval
<1>7. Cardinality(T) <= Len(r)
  BY <1>0, <1>5, FS_EmptySet
<1>8. \A i \in 1 .. Len(r) : r[i][1] < o <=> i <= Bisect(r, o)
  BY <1>0, <1>1, <1>5, <1>6
<1> QED
  BY <1>0, <1>5, <1>6, <1>7, <1>8, RangeAt

\* The first range the new offset joins: the one on its left if it touches.
FirstAt(r, o) == IF TouchesLeft(r, o) THEN Bisect(r, o) ELSE Bisect(r, o) + 1
LastAt(r, o) == LastReached(r, o, FirstAt(r, o), Bisect(r, o))

LEMMA FirstJoined ==
  ASSUME NEW r, Ascending(r), NEW o \in Nat, NEW n, n = Bisect(r, o),
         NEW f, f = FirstAt(r, o)
  PROVE  /\ n \in 0 .. Len(r) /\ f \in {n, n + 1} /\ f >= 1
         /\ f = n => n \in 1 .. Len(r) /\ r[n][1] <= o /\ r[n][2] >= o
         /\ \A i \in 1 .. Len(r) : i < f => r[i][2] < o
<1>1. /\ n \in 0 .. Len(r) /\ Len(r) \in Nat
      /\ \A i \in 1 .. Len(r) :
           /\ i <= n => r[i][1] <= o
           /\ i > n => r[i][1] >= o /\ r[i][2] >= o + 1
  BY BisectCuts, RangeAt
<1>2. CASE TouchesLeft(r, o)
  <2>1. f = n /\ n > 0 /\ r[n][2] >= o
    BY <1>2 DEF FirstAt, TouchesLeft
  <2>2. n \in 1 .. Len(r)
    BY <1>1, <2>1
  <2>3. ASSUME NEW i \in 1 .. Len(r), i < f PROVE r[i][2] < o
    <3>1. r[i][2] < r[n][1] /\ r[n][1] <= o
      BY <1>1, <2>1, <2>2, <2>3, SMTT(30) DEF Ascending
    <3> QED
      BY <3>1, <2>2, RangeAt
  <2> QED
    BY <1>1, <2>1, <2>2, <2>3
<1>3. CASE ~TouchesLeft(r, o)
  <2>1. f = n + 1 /\ ~(n > 0 /\ r[n][2] >= o)
    BY <1>3 DEF FirstAt, TouchesLeft
  <2>2. ASSUME NEW i \in 1 .. Len(r), i < f PROVE r[i][2] < o
    <3>1. i <= n /\ n \in 1 .. Len(r) /\ n > 0
      BY <1>1, <2>1, <2>2
    <3>2. r[n][2] \in Nat /\ r[i][2] \in Nat /\ r[n][1] \in Nat /\ r[n][1] < r[n][2]
      BY <3>1, RangeAt
    <3>3. r[n][2] < o
      BY <2>1, <3>1, <3>2
    <3>4. CASE i = n
      BY <3>3, <3>4
    <3>5. CASE i < n
      <4>1. r[i][2] < r[n][1]
        BY <3>1, <3>5 DEF Ascending
      <4> QED
        BY <4>1, <3>2, <3>3
    <3> QED
      BY <3>1, <3>4, <3>5
  <2> QED
    BY <1>1, <2>1, <2>2
<1> QED
  BY <1>2, <1>3

\* On a canonical list the while loop joins at most one range: the next one,
\* if the new offset is its start or the one before it.
LEMMA LastJoined ==
  ASSUME NEW r, Ascending(r), NEW o \in Nat, NEW n, n = Bisect(r, o),
         NEW f, f = FirstAt(r, o), NEW l, l = LastAt(r, o)
  PROVE  l = IF n < Len(r) /\ r[n + 1][1] <= o + 1 THEN n + 1 ELSE n
<1> DEFINE T == {k \in (n + 1) .. Len(r) :
                   \A j \in (n + 1) .. k :
                     \E e \in Ends(r, o, f, j - 1) : r[j][1] <= e}
<1>1. l = n + Cardinality(T)
  BY DEF LastAt, LastReached
<1>2. /\ n \in 0 .. Len(r) /\ Len(r) \in Nat /\ f \in {n, n + 1} /\ f >= 1
      /\ f = n => n \in 1 .. Len(r)
  BY FirstJoined, RangeAt
<1>3. ASSUME n + 1 \in 1 .. Len(r)
      PROVE  (\E e \in Ends(r, o, f, n) : r[n + 1][1] <= e) <=> r[n + 1][1] <= o + 1
  <2>1. ASSUME NEW i \in f .. n PROVE r[i][2] < r[n + 1][1]
    <3>1. i \in 1 .. Len(r) /\ i < n + 1
      BY <1>2, <2>1
    <3> QED
      BY <1>3, <3>1 DEF Ascending
  <2>2. ASSUME NEW i \in f .. n PROVE r[i][2] \in Nat
    BY <1>2, RangeAt
  <2>3. r[n + 1][1] \in Nat
    BY <1>3, RangeAt
  <2> QED
    BY <2>1, <2>2, <2>3 DEF Ends
<1>4. ASSUME n + 2 \in 1 .. Len(r), NEW e \in Ends(r, o, f, n + 1)
      PROVE  e \in Nat /\ e < r[n + 2][1]
  <2>0. n + 1 \in 1 .. Len(r) /\ n + 1 < n + 2
    BY <1>2, <1>4
  <2>1. /\ r[n + 2][1] \in Nat /\ r[n + 1][2] \in Nat
        /\ r[n + 1][2] < r[n + 2][1] /\ r[n + 1][2] >= o + 1
    <3>1. r[n + 2][1] \in Nat /\ r[n + 1][2] \in Nat
      BY <1>4, <2>0, RangeAt
    <3>2. r[n + 1][2] < r[n + 2][1]
      BY <1>4, <2>0 DEF Ascending
    <3>3. n + 1 > n /\ r[n + 1][2] >= o + 1
      BY <1>2, <2>0, BisectCuts
    <3> QED
      BY <3>1, <3>2, <3>3
  <2>2. CASE e = o + 1
    BY <2>1, <2>2
  <2>3. CASE \E i \in f .. (n + 1) : e = r[i][2]
    <3>1. PICK i \in f .. (n + 1) : e = r[i][2]
      BY <2>3
    <3>2. i \in 1 .. Len(r) /\ i < n + 2
      BY <1>2, <1>4, <2>0
    <3> QED
      BY <1>4, <3>1, <3>2, RangeAt DEF Ascending
  <2> QED
    BY <2>2, <2>3 DEF Ends
<1>5. ASSUME NEW k \in T PROVE k = n + 1 /\ n < Len(r) /\ r[n + 1][1] <= o + 1
  <2>1. /\ k \in (n + 1) .. Len(r)
        /\ \A j \in (n + 1) .. k : \E e \in Ends(r, o, f, j - 1) : r[j][1] <= e
    OBVIOUS
  <2> HIDE DEF T
  <2>2. n + 1 \in 1 .. Len(r) /\ n + 1 \in (n + 1) .. k /\ (n + 1) - 1 = n
    BY <1>2, <2>1
  <2>3. \E e \in Ends(r, o, f, n) : r[n + 1][1] <= e
    BY <2>1, <2>2
  <2>4. r[n + 1][1] <= o + 1
    BY <1>3, <2>2, <2>3
  <2>5. ASSUME k # n + 1 PROVE FALSE
    <3>1. n + 2 \in 1 .. Len(r) /\ n + 2 \in (n + 1) .. k /\ (n + 2) - 1 = n + 1
      BY <1>2, <2>1, <2>5
    <3>2. PICK e \in Ends(r, o, f, n + 1) : r[n + 2][1] <= e
      BY <2>1, <3>1
    <3>3. e \in Nat /\ e < r[n + 2][1] /\ r[n + 2][1] \in Nat
      BY <1>4, <3>1, RangeAt
    <3> QED
      BY <3>2, <3>3
  <2> QED
    BY <1>2, <2>2, <2>4, <2>5
<1>6. ASSUME n < Len(r), r[n + 1][1] <= o + 1 PROVE n + 1 \in T
  <2>1. n + 1 \in 1 .. Len(r) /\ n + 1 \in (n + 1) .. Len(r)
    BY <1>2, <1>6
  <2>2. \E e \in Ends(r, o, f, n) : r[n + 1][1] <= e
    BY <1>3, <1>6, <2>1
  <2>3. \A j \in (n + 1) .. (n + 1) : j = n + 1 /\ j - 1 = n
    BY <1>2
  <2> QED
    BY <2>1, <2>2, <2>3
<1> HIDE DEF T
<1>7. CASE n < Len(r) /\ r[n + 1][1] <= o + 1
  <2>1. T = {n + 1}
    BY <1>5, <1>6, <1>7
  <2>2. Cardinality(T) = 1
    BY <2>1, FS_Singleton
  <2> QED
    BY <1>1, <1>7, <2>2
<1>8. CASE ~(n < Len(r) /\ r[n + 1][1] <= o + 1)
  <2>1. T = {}
    BY <1>5, <1>8
  <2>2. Cardinality(T) = 0
    BY <2>1, FS_EmptySet
  <2> QED
    BY <1>1, <1>2, <1>8, <2>2
<1> QED
  BY <1>7, <1>8

\* The least and the greatest of a set of numbers that has them.
LEMMA MinIs ==
  ASSUME NEW S \in SUBSET Nat, NEW m \in S, \A x \in S : m <= x
  PROVE  Min(S) = m
<1>1. Min(S) \in S /\ \A y \in S : Min(S) <= y
  BY DEF Min
<1>2. Min(S) \in Nat /\ m \in Nat
  BY <1>1
<1> QED
  BY <1>1, <1>2

LEMMA MaxIs ==
  ASSUME NEW S \in SUBSET Nat, NEW m \in S, \A x \in S : m >= x
  PROVE  Max(S) = m
<1>1. Max(S) \in S /\ \A y \in S : Max(S) >= y
  BY DEF Max
<1>2. Max(S) \in Nat /\ m \in Nat
  BY <1>1
<1> QED
  BY <1>1, <1>2

\* The merged range: from the least start to the greatest end, and it stands
\* for the new offset and what the joined ranges stood for.
Start(r, o) == Min({o} \cup {r[i][1] : i \in FirstAt(r, o) .. LastAt(r, o)})
End(r, o) == Max(Ends(r, o, FirstAt(r, o), LastAt(r, o)))

LEMMA MergedRange ==
  ASSUME NEW r, Ascending(r), NEW o \in Nat, NEW f, f = FirstAt(r, o),
         NEW l, l = LastAt(r, o), NEW s, s = Start(r, o), NEW e, e = End(r, o)
  PROVE  /\ f \in 1 .. (l + 1) /\ l \in 0 .. Len(r)
         /\ s \in Nat /\ e \in Nat /\ s <= o /\ o < e
         /\ \A i \in f .. l : s <= r[i][1] /\ r[i][2] <= e
         /\ \A x \in s .. (e - 1) :
              x = o \/ \E i \in f .. l : x \in r[i][1] .. (r[i][2] - 1)
         /\ \A i \in 1 .. (f - 1) : r[i][2] < s
         /\ \A i \in (l + 1) .. Len(r) : e < r[i][1]
<1> DEFINE n == Bisect(r, o)
           S == {o} \cup {r[i][1] : i \in f .. l}
           E == Ends(r, o, f, l)
<1> HIDE DEF n
<1>1. /\ n \in 0 .. Len(r) /\ f \in {n, n + 1} /\ f >= 1
      /\ f = n => n \in 1 .. Len(r) /\ r[n][1] <= o /\ r[n][2] >= o
      /\ \A i \in 1 .. Len(r) : i < f => r[i][2] < o
  BY FirstJoined DEF n
<1>2. l = IF n < Len(r) /\ r[n + 1][1] <= o + 1 THEN n + 1 ELSE n
  BY LastJoined DEF n
<1>3. /\ Len(r) \in Nat
      /\ \A i \in 1 .. Len(r) : r[i][1] \in Nat /\ r[i][2] \in Nat /\ r[i][1] < r[i][2]
  BY RangeAt
<1>4. /\ \A i \in 1 .. Len(r) : i > n => r[i][1] >= o /\ r[i][2] >= o + 1
      /\ \A i, j \in 1 .. Len(r) : i < j => r[i][2] < r[j][1]
  BY BisectCuts DEF n, Ascending
<1>5. f \in 1 .. (l + 1) /\ l \in 0 .. Len(r) /\ \A i \in f .. l : i \in 1 .. Len(r) /\ i \in {n, n + 1}
  BY <1>1, <1>2, <1>3
<1>6. S \in SUBSET Nat /\ E \in SUBSET Nat
  BY <1>3, <1>5 DEF Ends
<1>7. s = IF f = n THEN r[n][1] ELSE o
  <2>0. s = Min(S)
    BY DEF Start
  <2>1. CASE f = n
    <3>1. n \in f .. l /\ r[n][1] \in S
      BY <1>1, <1>2, <2>1
    <3>2. \A x \in S : r[n][1] <= x
      <4>1. ASSUME NEW i \in f .. l PROVE r[n][1] <= r[i][1]
        BY <1>1, <1>3, <1>4, <1>5, <2>1
      <4> QED
        BY <1>1, <2>1, <4>1
    <3> QED
      <4> HIDE DEF S
      <4> QED
        BY <1>6, <2>0, <2>1, <3>1, <3>2, MinIs
  <2>2. CASE f # n
    <3>1. \A x \in S : o <= x
      <4>1. ASSUME NEW i \in f .. l PROVE o <= r[i][1]
        BY <1>1, <1>3, <1>4, <1>5, <2>2
      <4> QED
        BY <4>1
    <3>2. o \in S
      OBVIOUS
    <3> QED
      <4> HIDE DEF S
      <4> QED
        BY <1>6, <2>0, <2>2, <3>1, <3>2, MinIs
  <2> QED
    BY <2>1, <2>2
<1>8. e \in E /\ \A x \in E : x <= e
  <2>0. e = Max(E)
    BY DEF End
  <2>1. \A i \in f .. l : r[i][2] \in E
    BY DEF Ends
  <2>2. o + 1 \in E
    BY DEF Ends
  <2>3. \A x \in E : x = o + 1 \/ \E i \in f .. l : x = r[i][2]
    BY DEF Ends
  <2> HIDE DEF E
  <2>4. CASE l = n + 1
    <3>1. n + 1 \in f .. l /\ n + 1 \in 1 .. Len(r)
      BY <1>1, <1>2, <2>4
    <3>2. r[n + 1][2] \in E /\ \A x \in E : r[n + 1][2] >= x
      <4>1. r[n + 1][2] >= o + 1
        BY <1>1, <1>4, <3>1
      <4>2. ASSUME NEW i \in f .. l PROVE r[n + 1][2] >= r[i][2]
        BY <1>1, <1>3, <1>4, <1>5, <3>1, SMTT(30)
      <4> QED
        BY <2>1, <2>3, <3>1, <4>1, <4>2
    <3> QED
      BY <1>6, <2>0, <3>2, MaxIs
  <2>5. CASE l = n
    <3>1. \A x \in E : x = o + 1 \/ (f = n /\ x = r[n][2])
      <4>1. ASSUME NEW i \in f .. l PROVE f = n /\ i = n
        BY <1>1, <2>5
      <4>2. ASSUME NEW x \in E, x # o + 1 PROVE f = n /\ x = r[n][2]
        <5>1. PICK i \in f .. l : x = r[i][2]
          BY <2>3, <4>2
        <5>2. f = n /\ i = n
          BY <4>1
        <5> QED
          BY <5>1, <5>2
      <4> QED
        BY <4>2, Zenon
    <3>2. CASE f = n /\ r[n][2] >= o + 1
      <4>1. r[n][2] \in E /\ \A x \in E : r[n][2] >= x
        BY <1>1, <1>3, <2>1, <2>5, <3>1, <3>2
      <4> QED
        BY <1>6, <2>0, <4>1, MaxIs
    <3>3. CASE ~(f = n /\ r[n][2] >= o + 1)
      <4>1. \A x \in E : o + 1 >= x
        BY <1>1, <1>3, <3>1, <3>3
      <4> QED
        BY <1>6, <2>0, <2>2, <4>1, MaxIs
    <3> QED
      BY <3>2, <3>3
  <2> QED
    BY <1>2, <2>4, <2>5
<1>9. /\ e \in Nat /\ e >= o + 1 /\ \A i \in f .. l : r[i][2] <= e
      /\ e = o + 1 \/ \E i \in f .. l : e = r[i][2]
  BY <1>6, <1>8 DEF Ends
<1>10. s \in Nat /\ s <= o /\ \A i \in f .. l : s <= r[i][1]
  <2>1. ASSUME NEW i \in f .. l PROVE s <= r[i][1]
    BY <1>1, <1>3, <1>4, <1>5, <1>7
  <2> QED
    BY <1>1, <1>3, <1>7, <2>1
<1>11. ASSUME NEW x \in s .. (e - 1), x # o
       PROVE  \E i \in f .. l : x \in r[i][1] .. (r[i][2] - 1)
  <2>1. CASE x < o
    <3>1. f = n /\ n \in f .. l
      BY <1>1, <1>2, <1>7, <1>9, <1>10, <2>1
    <3>2. r[n][1] <= x /\ x <= r[n][2] - 1
      BY <1>1, <1>3, <1>7, <1>9, <2>1, <3>1
    <3> QED
      BY <1>3, <1>9, <1>10, <3>1, <3>2, <1>1
  <2>2. CASE x > o
    <3>1. PICK i \in f .. l : e = r[i][2]
      BY <1>9, <1>10, <2>2
    <3>2. r[i][1] <= o + 1
      BY <1>1, <1>2, <1>3, <1>5, <3>1
    <3> QED
      BY <1>3, <1>5, <1>9, <1>10, <2>2, <3>1, <3>2
  <2> QED
    BY <1>9, <1>10, <1>11, <2>1, <2>2
<1>12. ASSUME NEW i \in 1 .. (f - 1) PROVE r[i][2] < s
  <2>1. i \in 1 .. Len(r) /\ i < f
    BY <1>1, <1>3
  <2> QED
    BY <1>1, <1>4, <1>7, <2>1
<1>13. ASSUME NEW i \in (l + 1) .. Len(r) PROVE e < r[i][1]
  <2>1. i \in 1 .. Len(r) /\ i > l /\ i > n
    BY <1>1, <1>2, <1>3, <1>5
  <2>2. CASE e = o + 1
    <3>1. r[i][1] > o + 1
      <4>1. n + 1 \in 1 .. Len(r) /\ n < Len(r) /\ n + 1 <= i
        BY <1>1, <1>3, <2>1
      <4>2. r[n + 1][1] \in Nat /\ r[n + 1][2] \in Nat /\ r[n + 1][1] < r[n + 1][2]
        BY <1>3, <4>1
      <4>3. CASE l = n + 1
        <5>1. r[n + 1][2] < r[i][1] /\ r[n + 1][2] >= o + 1
          BY <1>1, <1>4, <2>1, <4>1, <4>3
        <5> QED
          BY <1>3, <2>1, <4>2, <5>1
      <4>4. CASE l = n
        <5>1. r[n + 1][1] > o + 1
          BY <1>1, <1>2, <4>1, <4>2, <4>4
        <5>2. i = n + 1 \/ r[n + 1][2] < r[i][1]
          BY <1>1, <1>4, <2>1, <4>1
        <5> QED
          BY <1>3, <2>1, <4>2, <5>1, <5>2
      <4> QED
        BY <1>2, <4>3, <4>4
    <3> QED
      BY <2>2, <3>1
  <2>3. CASE \E j \in f .. l : e = r[j][2]
    BY <1>4, <1>5, <2>1, <2>3
  <2> QED
    BY <1>9, <2>2, <2>3
<1> QED
  BY <1>5, <1>9, <1>10, <1>11, <1>12, <1>13

\* The place in the old list of a range behind the merged one.
LEMMA ShiftedIndex ==
  ASSUME NEW i \in Int, NEW f \in Nat, NEW l \in Nat, NEW n \in Nat,
         f + 1 <= i, i <= n + f - l
  PROVE  /\ i - f \in 1 .. (n - l) /\ (i - f) + l = i + l - f
         /\ i \in 1 .. f + (n - l) /\ ~(i <= f)
OBVIOUS

\* What the list holds afterwards: the ranges before the joined ones, the
\* merged range in their place, and the ranges behind them.
LEMMA InsertOffsetShape ==
  ASSUME NEW r, Ascending(r), NEW o \in Nat, NEW f, f = FirstAt(r, o),
         NEW l, l = LastAt(r, o), NEW s, s = Start(r, o), NEW e, e = End(r, o),
         NEW q, q = InsertOffset(r, o)
  PROVE  /\ q \in Seq(Nat \X Nat) /\ Len(q) = Len(r) + f - l
         /\ q[f] = <<s, e>>
         /\ \A i \in 1 .. (f - 1) : q[i] = r[i]
         /\ \A i \in (f + 1) .. Len(q) : q[i] = r[i + l - f]
<1> DEFINE a == SubSeq(r, 1, f - 1)
           m == << <<s, e>> >>
           b == SubSeq(r, l + 1, Len(r))
<1>1. /\ f \in 1 .. (l + 1) /\ l \in 0 .. Len(r) /\ s \in Nat /\ e \in Nat
      /\ Len(r) \in Nat
  BY MergedRange, RangeAt
<1>2. q = (a \o m) \o b
  BY DEF InsertOffset, Merge, FirstAt, LastAt, Start, End
<1>3. /\ a \in Seq(Nat \X Nat) /\ Len(a) = f - 1
      /\ \A i \in 1 .. (f - 1) : a[i] = r[i]
  <2>1. \A i \in 1 .. (f - 1) : r[i] \in Nat \X Nat
    BY <1>1, RangeAt
  <2>2. 1 \in Int /\ f - 1 \in Int
    BY <1>1
  <2>3. /\ a \in Seq(Nat \X Nat)
        /\ Len(a) = IF 1 <= f - 1 THEN (f - 1) - 1 + 1 ELSE 0
        /\ \A i \in 1 .. (f - 1) - 1 + 1 : a[i] = r[1 + i - 1]
    BY <2>1, <2>2, SubSeqProperties
  <2> HIDE DEF a
  <2> QED
    BY <1>1, <2>3, SMTT(30)
<1>4. m \in Seq(Nat \X Nat) /\ Len(m) = 1 /\ m[1] = <<s, e>>
  BY <1>1
<1>5. /\ b \in Seq(Nat \X Nat) /\ Len(b) = Len(r) - l
      /\ \A i \in 1 .. (Len(r) - l) : b[i] = r[i + l]
  <2>1. \A i \in (l + 1) .. Len(r) : r[i] \in Nat \X Nat
    BY <1>1, RangeAt
  <2>2. l + 1 \in Int /\ Len(r) \in Int
    BY <1>1
  <2>3. /\ b \in Seq(Nat \X Nat)
        /\ Len(b) = IF l + 1 <= Len(r) THEN Len(r) - (l + 1) + 1 ELSE 0
        /\ \A i \in 1 .. Len(r) - (l + 1) + 1 : b[i] = r[(l + 1) + i - 1]
    BY <2>1, <2>2, SubSeqProperties
  <2> HIDE DEF b
  <2>4. ASSUME NEW i \in 1 .. (Len(r) - l) PROVE b[i] = r[i + l]
    <3>1. i \in 1 .. Len(r) - (l + 1) + 1 /\ (l + 1) + i - 1 = i + l
      BY <1>1, SMTT(30)
    <3> QED
      BY <2>3, <3>1
  <2>5. Len(b) = Len(r) - l
    BY <1>1, <2>3
  <2> QED
    BY <2>3, <2>4, <2>5
<1> HIDE DEF a, m, b
<1> DEFINE am == a \o m
<1>6. /\ am \in Seq(Nat \X Nat) /\ Len(am) = f
      /\ \A i \in 1 .. (f - 1) : am[i] = a[i]
      /\ am[f] = <<s, e>>
  <2>1. /\ am \in Seq(Nat \X Nat) /\ Len(am) = Len(a) + Len(m)
        /\ \A i \in 1 .. Len(a) + Len(m) :
             am[i] = IF i <= Len(a) THEN a[i] ELSE m[i - Len(a)]
    BY <1>3, <1>4, ConcatProperties
  <2> HIDE DEF am
  <2>2. Len(a) + Len(m) = f /\ f - Len(a) = 1 /\ f \in 1 .. Len(a) + Len(m) /\ ~(f <= Len(a))
    BY <1>1, <1>3, <1>4, SMTT(30)
  <2>3. am[f] = m[1]
    BY <2>1, <2>2
  <2>4. ASSUME NEW i \in 1 .. (f - 1) PROVE am[i] = a[i]
    <3>1. i \in 1 .. Len(a) + Len(m) /\ i <= Len(a)
      BY <1>1, <1>3, <1>4, SMTT(30)
    <3> QED
      BY <2>1, <3>1
  <2> QED
    BY <1>4, <2>1, <2>2, <2>3, <2>4
<1> HIDE DEF am
<1>7. /\ q \in Seq(Nat \X Nat) /\ Len(q) = f + Len(b)
      /\ \A i \in 1 .. f + Len(b) :
           q[i] = IF i <= f THEN am[i] ELSE b[i - f]
  <2>0. q = am \o b
    BY <1>2 DEF am
  <2>1. /\ am \o b \in Seq(Nat \X Nat)
        /\ Len(am \o b) = Len(am) + Len(b)
        /\ \A i \in 1 .. Len(am) + Len(b) :
             (am \o b)[i] = IF i <= Len(am) THEN am[i] ELSE b[i - Len(am)]
    BY <1>5, <1>6, ConcatProperties
  <2>2. /\ q \in Seq(Nat \X Nat) /\ Len(q) = Len(am) + Len(b)
        /\ \A i \in 1 .. Len(am) + Len(b) :
             q[i] = IF i <= Len(am) THEN am[i] ELSE b[i - Len(am)]
    BY <2>0, <2>1, Zenon
  <2> QED
    BY <1>6, <2>2, Zenon
<1>8. Len(q) = Len(r) + f - l
  BY <1>1, <1>5, <1>7
<1>9. q[f] = <<s, e>>
  <2>1. f \in 1 .. f + Len(b) /\ f <= f
    BY <1>1, <1>5
  <2> QED
    BY <1>6, <1>7, <2>1
<1>10. ASSUME NEW i \in 1 .. (f - 1) PROVE q[i] = r[i]
  <2>1. i \in 1 .. f + Len(b) /\ i <= f
    BY <1>1, <1>5
  <2> QED
    BY <1>3, <1>6, <1>7, <2>1
<1>11. ASSUME NEW i \in (f + 1) .. Len(q) PROVE q[i] = r[i + l - f]
  <2>0. i \in Int /\ f + 1 <= i /\ i <= Len(r) + f - l
    BY <1>1, <1>8
  <2>1. i - f \in 1 .. (Len(r) - l) /\ (i - f) + l = i + l - f
    <3>1. f \in Nat /\ l \in Nat
      BY <1>1
    <3> QED
      BY ONLY <1>1, <2>0, <3>1, ShiftedIndex
  <2>2. i \in 1 .. f + Len(b) /\ ~(i <= f)
    <3>1. Len(b) = Len(r) - l /\ f \in Nat /\ l \in Nat
      BY <1>1, <1>5
    <3>2. i \in 1 .. f + (Len(r) - l) /\ ~(i <= f)
      BY ONLY <1>1, <2>0, <3>1, ShiftedIndex
    <3> QED
      BY <3>1, <3>2
  <2>3. q[i] = b[i - f]
    BY <1>7, <2>2
  <2> QED
    BY <1>5, <2>1, <2>3
<1> QED
  BY <1>7, <1>8, <1>9, <1>10, <1>11

\* DeliveryTracker._insert_offset keeps the list canonical.
LEMMA InsertOffsetAscending ==
  ASSUME NEW r, Ascending(r), NEW o \in Nat
  PROVE  Ascending(InsertOffset(r, o))
<1> DEFINE f == FirstAt(r, o)
           l == LastAt(r, o)
           s == Start(r, o)
           e == End(r, o)
           q == InsertOffset(r, o)
<1>1. /\ f \in 1 .. (l + 1) /\ l \in 0 .. Len(r)
      /\ s \in Nat /\ e \in Nat /\ s <= o /\ o < e
      /\ \A i \in 1 .. (f - 1) : r[i][2] < s
      /\ \A i \in (l + 1) .. Len(r) : e < r[i][1]
  BY MergedRange
<1>2. /\ q \in Seq(Nat \X Nat) /\ Len(q) = Len(r) + f - l
      /\ q[f] = <<s, e>>
      /\ \A i \in 1 .. (f - 1) : q[i] = r[i]
      /\ \A i \in (f + 1) .. Len(q) : q[i] = r[i + l - f]
  BY InsertOffsetShape
<1>3. /\ Len(r) \in Nat
      /\ \A i \in 1 .. Len(r) : r[i][1] \in Nat /\ r[i][2] \in Nat /\ r[i][1] < r[i][2]
      /\ \A i, j \in 1 .. Len(r) : i < j => r[i][2] < r[j][1]
  BY RangeAt DEF Ascending
<1> HIDE DEF f, l, s, e, q
<1>4. ASSUME NEW i \in 1 .. Len(q), i > f
      PROVE  /\ i + l - f \in (l + 1) .. Len(r) /\ i + l - f \in 1 .. Len(r)
             /\ q[i] = r[i + l - f]
  <2>1. i \in (f + 1) .. Len(q)
    BY <1>1, <1>2, <1>3, <1>4
  <2>2. i + l - f \in (l + 1) .. Len(r)
    BY <1>1, <1>2, <1>3, <2>1
  <2> QED
    BY <1>1, <1>2, <1>3, <2>1, <2>2
<1>5. ASSUME NEW i \in 1 .. Len(q), i < f
      PROVE  i \in 1 .. (f - 1) /\ i \in 1 .. Len(r) /\ q[i] = r[i]
  <2>1. i \in 1 .. (f - 1) /\ i \in 1 .. Len(r)
    BY <1>1, <1>2, <1>3, <1>5
  <2> QED
    BY <1>2, <2>1
<1>6. q[f][1] = s /\ q[f][2] = e
  BY <1>2
<1>7. ASSUME NEW i \in 1 .. Len(q) PROVE q[i][1] < q[i][2]
  <2>1. CASE i = f
    BY <1>1, <1>6, <2>1
  <2>2. CASE i > f
    BY <1>3, <1>4, <2>2
  <2>3. CASE i < f
    BY <1>3, <1>5, <2>3
  <2> QED
    BY <1>1, <2>1, <2>2, <2>3
<1>8. ASSUME NEW i \in 1 .. Len(q), NEW j \in 1 .. Len(q), i < j
      PROVE  q[i][2] < q[j][1]
  <2>1. CASE j < f
    BY <1>1, <1>3, <1>5, <1>8, <2>1
  <2>2. CASE j = f
    BY <1>1, <1>5, <1>6, <1>8, <2>2
  <2>3. CASE i < f /\ j > f
    <3>1. r[i][2] < s /\ e < r[j + l - f][1] /\ q[i] = r[i] /\ q[j] = r[j + l - f]
      BY <1>1, <1>4, <1>5, <2>3
    <3>2. r[i][2] \in Nat /\ r[j + l - f][1] \in Nat
      BY <1>3, <1>4, <1>5, <2>3
    <3>3. q[i][2] < s /\ e < q[j][1] /\ q[i][2] \in Nat /\ q[j][1] \in Nat
      BY <3>1, <3>2
    <3> QED
      BY <1>1, <3>3
  <2>4. CASE i = f
    BY <1>1, <1>4, <1>6, <1>8, <2>4
  <2>5. CASE i > f
    <3>1. i + l - f < j + l - f /\ j > f
      BY <1>1, <1>8, <2>5
    <3>2. /\ i + l - f \in 1 .. Len(r) /\ j + l - f \in 1 .. Len(r)
          /\ q[i] = r[i + l - f] /\ q[j] = r[j + l - f]
      BY <1>4, <2>5, <3>1
    <3> QED
      BY <1>3, <3>1, <3>2
  <2> QED
    BY <1>1, <2>1, <2>2, <2>3, <2>4, <2>5
<1>9. Ascending(q)
  BY <1>2, <1>7, <1>8 DEF Ascending
<1> QED
  BY <1>9 DEF q

\* And it adds that offset and no other, whether or not it was there.
LEMMA InsertOffsetCovers ==
  ASSUME NEW r, Ascending(r), NEW o \in Nat
  PROVE  Covered(InsertOffset(r, o)) = Covered(r) \cup {o}
<1> DEFINE f == FirstAt(r, o)
           l == LastAt(r, o)
           s == Start(r, o)
           e == End(r, o)
           q == InsertOffset(r, o)
<1>1. /\ f \in 1 .. (l + 1) /\ l \in 0 .. Len(r)
      /\ s \in Nat /\ e \in Nat /\ s <= o /\ o < e
      /\ \A i \in f .. l : s <= r[i][1] /\ r[i][2] <= e
      /\ \A x \in s .. (e - 1) :
           x = o \/ \E i \in f .. l : x \in r[i][1] .. (r[i][2] - 1)
  BY MergedRange
<1>2. /\ q \in Seq(Nat \X Nat) /\ Len(q) = Len(r) + f - l
      /\ q[f] = <<s, e>>
      /\ \A i \in 1 .. (f - 1) : q[i] = r[i]
      /\ \A i \in (f + 1) .. Len(q) : q[i] = r[i + l - f]
  BY InsertOffsetShape
<1>3. /\ Len(r) \in Nat
      /\ \A i \in 1 .. Len(r) : r[i][1] \in Nat /\ r[i][2] \in Nat
  BY RangeAt
<1>4. DOMAIN r = 1 .. Len(r) /\ DOMAIN q = 1 .. Len(q)
  BY <1>2, RangeAt, LenProperties
<1> HIDE DEF f, l, s, e, q
<1>5. f \in 1 .. Len(q) /\ q[f][1] = s /\ q[f][2] = e
  BY <1>1, <1>2, <1>3
<1>6. ASSUME NEW x \in Covered(q) PROVE x \in Covered(r) \cup {o}
  <2>1. PICK i \in 1 .. Len(q) : x \in q[i][1] .. (q[i][2] - 1)
    BY <1>4 DEF Covered
  <2>2. CASE i = f
    <3>1. x = o \/ \E j \in f .. l : x \in r[j][1] .. (r[j][2] - 1)
      BY <1>1, <1>5, <2>1, <2>2
    <3>2. \A j \in f .. l : j \in 1 .. Len(r)
      BY <1>1, <1>3
    <3> QED
      BY <1>4, <3>1, <3>2 DEF Covered
  <2>3. CASE i < f
    <3>1. i \in 1 .. Len(r) /\ q[i] = r[i]
      BY <1>1, <1>2, <1>3, <2>3, SMTT(30)
    <3> QED
      BY <1>4, <2>1, <3>1 DEF Covered
  <2>4. CASE i > f
    <3>1. i + l - f \in 1 .. Len(r) /\ q[i] = r[i + l - f]
      BY <1>1, <1>2, <1>3, <2>4
    <3> QED
      BY <1>4, <2>1, <3>1 DEF Covered
  <2> QED
    BY <1>1, <2>2, <2>3, <2>4
<1>7. o \in Covered(q)
  <2>1. o \in q[f][1] .. (q[f][2] - 1)
    BY <1>1, <1>5
  <2> QED
    BY <1>4, <1>5, <2>1 DEF Covered
<1>8. ASSUME NEW x \in Covered(r) PROVE x \in Covered(q)
  <2>1. PICK i \in 1 .. Len(r) : x \in r[i][1] .. (r[i][2] - 1)
    BY <1>4 DEF Covered
  <2>2. CASE i < f
    <3>1. i \in 1 .. Len(q) /\ q[i] = r[i]
      BY <1>1, <1>2, <1>3, <2>2
    <3> QED
      BY <1>4, <2>1, <3>1 DEF Covered
  <2>3. CASE i \in f .. l
    <3>1. s <= r[i][1] /\ r[i][2] <= e
      BY <1>1, <2>3
    <3>2. x \in q[f][1] .. (q[f][2] - 1)
      BY <1>1, <1>3, <1>5, <2>1, <3>1
    <3> QED
      BY <1>4, <1>5, <3>2 DEF Covered
  <2>4. CASE i > l
    <3>1. i + f - l \in (f + 1) .. Len(q) /\ (i + f - l) + l - f = i
      BY <1>1, <1>2, <1>3, <2>4
    <3>2. i + f - l \in 1 .. Len(q) /\ q[i + f - l] = r[i]
      <4>1. i + f - l \in 1 .. Len(q)
        BY <1>1, <3>1
      <4>2. q[i + f - l] = r[(i + f - l) + l - f]
        BY <1>2, <3>1
      <4> QED
        BY <3>1, <4>1, <4>2
    <3> QED
      BY <1>4, <2>1, <3>2 DEF Covered
  <2> QED
    BY <1>1, <2>2, <2>3, <2>4
<1>9. Covered(q) = Covered(r) \cup {o}
  BY <1>6, <1>7, <1>8
<1> QED
  BY <1>9 DEF q

\* What canonical means in the module of the algorithm.
LEMMA AscendingIsCanonical ==
  ASSUME NEW r, Ascending(r)
  PROVE  Canonical(r)
<1>1. Len(r) \in Nat /\ DOMAIN r = 1 .. Len(r)
  BY RangeAt
<1>2. ASSUME NEW i \in 1 .. (Len(r) - 1) PROVE r[i][2] < r[i + 1][1]
  <2>1. i \in 1 .. Len(r) /\ i + 1 \in 1 .. Len(r) /\ i < i + 1
    BY <1>1
  <2> QED
    BY <2>1 DEF Ascending
<1> QED
  BY <1>1, <1>2 DEF Ascending, Canonical

-----------------------------------------------------------------------------
(* The lengths add up. *)

\* A set of natural numbers with an element has a least one: the induction
\* behind what a sum over a list gives.
LEMMA LeastElement ==
  ASSUME NEW T \in SUBSET Nat, T # {}
  PROVE  \E m \in T : \A k \in T : m <= k
<1> DEFINE R == {p \in Nat \X Nat : p[1] < p[2]}
<1>1. IsWellFoundedOn(R, Nat)
  <2>1. IsWellFoundedOn(OpToRel(<, Nat), Nat)
    BY NatLessThanWellFounded
  <2>2. R = OpToRel(<, Nat)
    BY DEF OpToRel
  <2> QED
    BY <2>1, <2>2
<1>2. PICK m \in T : \A k \in T : ~(<<k, m>> \in R)
  <2> HIDE DEF R
  <2>1. T \subseteq Nat
    OBVIOUS
  <2> QED
    BY <1>1, <2>1, WFMin
<1>3. ASSUME NEW k \in T PROVE m <= k
  <2>1. m \in Nat /\ k \in Nat /\ ~(<<k, m>> \in R)
    BY <1>2
  <2>2. ~(k < m)
    BY <2>1
  <2> QED
    BY <2>1, <2>2
<1> QED
  BY <1>3

\* The offsets of the first n ranges.
CoveredUpTo(r, n) == UNION {r[i][1] .. (r[i][2] - 1) : i \in 1 .. n}

\* One more range adds its length to them, being apart from the others.
LEMMA CoveredGrows ==
  ASSUME NEW r, Ascending(r), NEW n \in 1 .. Len(r),
         IsFiniteSet(CoveredUpTo(r, n - 1))
  PROVE  /\ IsFiniteSet(CoveredUpTo(r, n))
         /\ Cardinality(CoveredUpTo(r, n))
              = Cardinality(CoveredUpTo(r, n - 1)) + (r[n][2] - r[n][1])
<1> DEFINE A == CoveredUpTo(r, n - 1)
           B == r[n][1] .. (r[n][2] - 1)
<1>1. Len(r) \in Nat /\ r[n][1] \in Nat /\ r[n][2] \in Nat /\ r[n][1] < r[n][2]
  BY RangeAt
<1>2. CoveredUpTo(r, n) = A \cup B
  <2>1. \A i : i \in 1 .. n <=> i \in 1 .. (n - 1) \/ i = n
    BY <1>1
  <2> QED
    BY <2>1 DEF CoveredUpTo
<1>3. A \cap B = {}
  <2>1. ASSUME NEW x \in A, x \in B PROVE FALSE
    <3>1. PICK i \in 1 .. (n - 1) : x \in r[i][1] .. (r[i][2] - 1)
      BY DEF CoveredUpTo
    <3>2. i \in 1 .. Len(r) /\ i < n
      BY <1>1, <3>1
    <3>3. r[i][2] < r[n][1] /\ r[i][1] \in Nat /\ r[i][2] \in Nat
      BY <3>2, RangeAt DEF Ascending
    <3> QED
      BY <1>1, <2>1, <3>1, <3>3
  <2> QED
    BY <2>1
<1>4. IsFiniteSet(B) /\ Cardinality(B) = r[n][2] - r[n][1]
  <2>1. r[n][1] \in Int /\ r[n][2] - 1 \in Int
    BY <1>1
  <2>2. /\ IsFiniteSet(B)
        /\ Cardinality(B) = IF r[n][1] > r[n][2] - 1 THEN 0
                            ELSE (r[n][2] - 1) - r[n][1] + 1
    BY <2>1, FS_Interval
  <2> QED
    BY <1>1, <2>2
<1> HIDE DEF A, B
<1>5. IsFiniteSet(A) /\ Cardinality(A) \in Nat
  BY FS_CardinalityType DEF A
<1>6. /\ IsFiniteSet(A \cup B)
      /\ Cardinality(A \cup B) = Cardinality(A) + Cardinality(B) - Cardinality(A \cap B)
  BY <1>4, <1>5, FS_Union
<1>7. Cardinality(A \cap B) = 0
  BY <1>3, FS_EmptySet
<1>8. IsFiniteSet(A \cup B) /\ Cardinality(A \cup B) = Cardinality(A) + (r[n][2] - r[n][1])
  BY <1>1, <1>4, <1>5, <1>6, <1>7
<1> QED
  BY <1>2, <1>8 DEF A

LEMMA CoveredFinite ==
  ASSUME NEW r, Ascending(r)
  PROVE  \A n \in 0 .. Len(r) : IsFiniteSet(CoveredUpTo(r, n))
<1> DEFINE T == {n \in 0 .. Len(r) : ~IsFiniteSet(CoveredUpTo(r, n))}
<1>0. Len(r) \in Nat
  BY RangeAt
<1>1. ASSUME T # {} PROVE FALSE
  <2>1. PICK m \in T : \A k \in T : m <= k
    <3>1. T \in SUBSET Nat
      BY <1>0
    <3> HIDE DEF T
    <3> QED
      BY <1>1, <3>1, LeastElement
  <2>2. CASE m = 0
    <3>1. CoveredUpTo(r, 0) = {}
      BY DEF CoveredUpTo
    <3> QED
      BY <2>1, <2>2, <3>1, FS_EmptySet
  <2>3. CASE m # 0
    <3>1. m \in 1 .. Len(r) /\ m - 1 \in 0 .. Len(r) /\ ~(m <= m - 1)
      BY <1>0, <2>3
    <3>2. IsFiniteSet(CoveredUpTo(r, m - 1))
      BY <2>1, <3>1
    <3>3. IsFiniteSet(CoveredUpTo(r, m))
      BY <3>1, <3>2, CoveredGrows
    <3> QED
      BY <3>3
  <2> QED
    BY <2>2, <2>3
<1> QED
  BY <1>1

\* Summing the lengths of a canonical list counts the offsets it stands for.
LEMMA TotalLengthCounts ==
  ASSUME NEW r, Ascending(r)
  PROVE  TotalLength(r) = Cardinality(Covered(r))
<1> DEFINE N == 0 .. Len(r)
           D(f, n) == IF n = 0 THEN 0 ELSE f[n - 1] + (r[n][2] - r[n][1])
           sum == LengthUpTo(r)
           count == [n \in N |-> Cardinality(CoveredUpTo(r, n))]
<1>0. Len(r) \in Nat /\ DOMAIN r = 1 .. Len(r)
  BY RangeAt
<1>1. count = [n \in N |-> D(count, n)]
  <2>1. ASSUME NEW n \in N PROVE count[n] = D(count, n)
    <3>1. CASE n = 0
      <4>1. CoveredUpTo(r, 0) = {}
        BY DEF CoveredUpTo
      <4> QED
        BY <3>1, <4>1, FS_EmptySet
    <3>2. CASE n # 0
      <4>1. n \in 1 .. Len(r) /\ n - 1 \in N
        BY <1>0, <3>2
      <4>2. IsFiniteSet(CoveredUpTo(r, n - 1))
        BY <4>1, CoveredFinite
      <4>3. Cardinality(CoveredUpTo(r, n))
              = Cardinality(CoveredUpTo(r, n - 1)) + (r[n][2] - r[n][1])
        BY <4>1, <4>2, CoveredGrows
      <4> QED
        BY <3>2, <4>1, <4>3
    <3> QED
      BY <3>1, <3>2
  <2> QED
    BY <2>1
<1>2. sum = [n \in N |-> D(sum, n)]
  <2>1. sum = CHOOSE f : f = [n \in N |-> D(f, n)]
    BY DEF LengthUpTo
  <2>2. \E f : f = [n \in N |-> D(f, n)]
    BY <1>1
  <2> HIDE DEF sum
  <2> QED
    BY <2>1, <2>2
<1> HIDE DEF sum, count
<1> DEFINE T == {n \in N : sum[n] # count[n]}
<1>3. ASSUME T # {} PROVE FALSE
  <2>1. PICK m \in T : \A k \in T : m <= k
    <3>1. T \in SUBSET Nat
      BY <1>0
    <3> HIDE DEF T
    <3> QED
      BY <1>3, <3>1, LeastElement
  <2>2. CASE m = 0
    BY <1>1, <1>2, <2>2
  <2>3. CASE m # 0
    <3>1. m - 1 \in N /\ ~(m <= m - 1)
      BY <1>0, <2>3
    <3>2. sum[m - 1] = count[m - 1]
      BY <2>1, <3>1
    <3>3. sum[m] = D(sum, m) /\ count[m] = D(count, m)
      BY <1>1, <1>2
    <3> QED
      BY <2>3, <3>2, <3>3
  <2> QED
    BY <2>2, <2>3
<1>4. sum[Len(r)] = count[Len(r)] /\ Len(r) \in N
  BY <1>0, <1>3
<1>5. CoveredUpTo(r, Len(r)) = Covered(r)
  BY <1>0 DEF CoveredUpTo, Covered
<1>6. count[Len(r)] = Cardinality(CoveredUpTo(r, Len(r)))
  BY <1>4 DEF count
<1> QED
  BY <1>4, <1>5, <1>6 DEF TotalLength, sum
=============================================================================
