------------------------- MODULE TrackFilterProofs -------------------------
(***************************************************************************)
(* What TrackFilter guarantees for any track and any constants of the       *)
(* filters.                                                                *)
(*                                                                         *)
(* Which points a filter marks or drops is left open: what is proved is     *)
(* what follows from the order of the chain, the moves of the segmented     *)
(* chain and the copies of Level 3, whatever was marked.  A loop of a       *)
(* filter is a recursive function; each needs a lemma that the function     *)
(* exists, and its invariant holds at every index because there is no least *)
(* one at which it fails.                                                  *)
(***************************************************************************)
EXTENDS TrackFilter, SequenceTheorems, FiniteSetTheorems, NaturalsInduction,
        WellFoundedInduction, TLAPS

\* Every set of numbers has a least one; what holds of 0 and of each successor holds of all.
LEMMA LeastOf ==
  ASSUME NEW T, T \subseteq Nat, T # {}
  PROVE  \E n \in T : \A k \in T : n <= k
<1>1. PICK n \in T : \A k \in T : ~(<<k, n>> \in OpToRel(<, Nat))
  BY NatLessThanWellFounded, WFMin, Zenon
<1>2. ASSUME NEW k \in T
      PROVE  ~(k < n)
  <2>1. k \in Nat /\ n \in Nat
    OBVIOUS
  <2>. QED
    BY <1>1, <2>1, Zenon DEF OpToRel
<1>3. n \in Nat /\ \A k \in T : k \in Nat
  OBVIOUS
<1>4. \A k \in T : n <= k
  BY <1>2, <1>3, SMT
<1>. QED
  BY <1>4

-----------------------------------------------------------------------------
(***************************************************************************)
(* The points of an index set, in their order.                              *)
(***************************************************************************)

LEMMA RanksAreOrdered ==
  ASSUME NEW N \in Nat, NEW I \in SUBSET (1..N)
  PROVE  /\ IsFiniteSet(I) /\ Cardinality(I) \in 0..N
         /\ \A i \in I : Rank(I, i) \in 1..Cardinality(I)
         /\ \A i, j \in I : i < j => Rank(I, i) < Rank(I, j)
<1>. DEFINE U(i) == {j \in I : j <= i}
<1>1. IsFiniteSet(1..N) /\ Cardinality(1..N) = N
  BY FS_Interval, SMT
<1>2. IsFiniteSet(I) /\ Cardinality(I) <= N
  BY <1>1, FS_Subset, Zenon
<1>3. Cardinality(I) \in Nat
  BY <1>2, FS_CardinalityType, Zenon
<1>4. \A i : U(i) \in SUBSET I
  OBVIOUS
<1>5. ASSUME NEW i
      PROVE  IsFiniteSet(U(i)) /\ Cardinality(U(i)) <= Cardinality(I) /\ Cardinality(U(i)) \in Nat
  BY <1>2, <1>4, FS_Subset, FS_CardinalityType, Zenon
<1>6. ASSUME NEW i \in I
      PROVE  Cardinality(U(i)) # 0
  <2>1. i \in U(i)
    OBVIOUS
  <2>. QED
    BY <1>5, <2>1, FS_EmptySet, Zenon
<1>7. ASSUME NEW i \in I, NEW j \in I, i < j
      PROVE  Cardinality(U(i)) < Cardinality(U(j))
  <2>1. U(i) \in SUBSET U(j)
    <3>1. \A x \in I : x \in Int
      OBVIOUS
    <3>2. \A x \in I : x <= i => x <= j
      BY <1>7, <3>1, SMT
    <3>. QED
      BY <3>2
  <2>2. j \in U(j) /\ j \notin U(i)
    BY <1>7
  <2>3. Cardinality(U(i)) <= Cardinality(U(j)) /\ Cardinality(U(j)) # Cardinality(U(i))
    <3>. HIDE DEF U
    <3>. QED
      BY <1>5, <2>1, <2>2, FS_Subset, Zenon
  <2>. HIDE DEF U
  <2>. QED
    BY <1>5, <2>3
<1>8. \A i : Rank(I, i) = Cardinality(U(i))
  BY DEF Rank
<1>. HIDE DEF U
<1>9. \A i \in I : Rank(I, i) \in 1..Cardinality(I)
  BY <1>3, <1>5, <1>6, <1>8, SMT
<1>. QED
  BY <1>2, <1>3, <1>7, <1>8, <1>9

LEMMA RankDetermines ==
  ASSUME NEW N \in Nat, NEW I \in SUBSET (1..N), NEW k \in 1..Cardinality(I)
  PROVE  \E i \in I : Rank(I, i) = k
<1>. DEFINE f == [i \in I |-> Rank(I, i)]
            C == 1..Cardinality(I)
<1>1. IsFiniteSet(I) /\ Cardinality(I) \in Nat
  BY RanksAreOrdered
<1>2. IsFiniteSet(C) /\ Cardinality(C) = Cardinality(I)
  BY <1>1, FS_Interval, SMT
<1>3. f \in Injection(I, C)
  <2>1. f \in [I -> C]
    BY RanksAreOrdered
  <2>2. ASSUME NEW i \in I, NEW j \in I, f[i] = f[j]
        PROVE  i = j
    <3>1. Rank(I, i) \in 1..Cardinality(I) /\ Rank(I, i) = Rank(I, j)
      BY <2>2, RanksAreOrdered, Zenon
    <3>2. i \in Int /\ j \in Int /\ Rank(I, i) \in Int /\ Rank(I, i) = Rank(I, j)
      BY <1>1, <3>1, SMT
    <3>3. ~(Rank(I, i) < Rank(I, j)) /\ ~(Rank(I, j) < Rank(I, i))
      BY <3>2, SMT
    <3>4. ~(i < j) /\ ~(j < i)
      BY <3>3, RanksAreOrdered, Zenon
    <3>. QED
      BY <3>2, <3>4, SMT
  <2>. QED
    BY <2>1, <2>2, Zenon DEF Injection, IsInjective
<1>. HIDE DEF C
<1>4. f \in Surjection(I, C)
  BY <1>1, <1>2, <1>3, FS_Injection, Zenon
<1>. QED
  BY <1>4, Zenon DEF Surjection, C

LEMMA AscendingOrder ==
  ASSUME NEW N \in Nat, NEW I \in SUBSET (1..N)
  PROVE  /\ \A k \in 1..Cardinality(I) : Ascending(I)[k] \in I /\ Rank(I, Ascending(I)[k]) = k
         /\ \A k, l \in 1..Cardinality(I) : k < l => Ascending(I)[k] < Ascending(I)[l]
         /\ \A i \in I : Ascending(I)[Rank(I, i)] = i
<1>1. ASSUME NEW k \in 1..Cardinality(I)
      PROVE  Ascending(I)[k] \in I /\ Rank(I, Ascending(I)[k]) = k
  <2>1. Ascending(I)[k] = CHOOSE i \in I : Rank(I, i) = k
    BY DEF Ascending
  <2>2. \E i \in I : Rank(I, i) = k
    BY RankDetermines
  <2>. QED
    BY <2>1, <2>2, Zenon
<1>2. Cardinality(I) \in Nat
  BY RanksAreOrdered
<1>3. ASSUME NEW i \in I, NEW j \in I, Rank(I, i) <= Rank(I, j)
      PROVE  i <= j
  <2>1. Rank(I, i) \in Int /\ Rank(I, j) \in Int /\ i \in Int /\ j \in Int
    <3>1. /\ Cardinality(I) \in 0..N
          /\ Rank(I, i) \in 1..Cardinality(I) /\ Rank(I, j) \in 1..Cardinality(I)
      BY RanksAreOrdered, Zenon
    <3>2. i \in Int /\ j \in Int
      OBVIOUS
    <3>. QED
      BY <3>1, <3>2, SMT
  <2>2. ~(Rank(I, j) < Rank(I, i))
    BY <1>3, <2>1
  <2>3. ~(j < i)
    BY <2>2, RanksAreOrdered, Zenon
  <2>. QED
    BY <2>1, <2>3
<1>4. ASSUME NEW k \in 1..Cardinality(I), NEW l \in 1..Cardinality(I), k < l
      PROVE  Ascending(I)[k] < Ascending(I)[l]
  <2>1. k <= l
    BY <1>2, <1>4, SMT
  <2>. DEFINE i == Ascending(I)[k]
              j == Ascending(I)[l]
  <2>2. i \in I /\ j \in I /\ Rank(I, i) = k /\ Rank(I, j) = l
    BY <1>1, Zenon
  <2>. HIDE DEF i, j
  <2>3. Rank(I, i) <= Rank(I, j)
    BY <2>1, <2>2
  <2>4. i <= j
    BY <1>3, <2>2, <2>3, Zenon
  <2>5. i # j
    BY <1>2, <1>4, <2>2
  <2>6. \A x \in I : x \in Int
    OBVIOUS
  <2>7. i < j
    BY <2>4, <2>5, <2>6, <2>2, SMT
  <2>. QED
    BY <2>7 DEF i, j
<1>5. ASSUME NEW i \in I
      PROVE  Ascending(I)[Rank(I, i)] = i
  <2>1. Rank(I, i) \in 1..Cardinality(I)
    BY RanksAreOrdered
  <2>2. Ascending(I)[Rank(I, i)] \in I /\ Rank(I, Ascending(I)[Rank(I, i)]) = Rank(I, i)
    BY <1>1, <2>1
  <2>3. Rank(I, i) \in Int
    BY <1>2, <2>1, SMT
  <2>4. \A x \in I : x \in Int
    OBVIOUS
  <2>5. i \in Int /\ Ascending(I)[Rank(I, i)] \in Int
    BY <2>2, <2>4, Zenon
  <2>6. Ascending(I)[Rank(I, i)] <= i /\ i <= Ascending(I)[Rank(I, i)]
    <3>1. Rank(I, i) <= Rank(I, i)
      BY <2>3, SMT
    <3>. QED
      BY <1>3, <2>2, <3>1, Zenon
  <2>. QED
    BY <2>5, <2>6, SMT
<1>. QED
  BY <1>1, <1>4, <1>5

-----------------------------------------------------------------------------
(***************************************************************************)
(* The filters that only mark points, and DuplicateFilter.                  *)
(***************************************************************************)

TrackPoint == [at : Nat, place : Int, n : Nat, speed : Nat, filtered : BOOLEAN, segment : Nat]

\* t has the points of s, and what is filtered in s is filtered in t.
Marks(s, t) ==
  /\ t \in Seq(TrackPoint) /\ Len(t) = Len(s)
  /\ \A i \in DOMAIN s :
       /\ t[i].at = s[i].at /\ t[i].place = s[i].place
       /\ t[i].n = s[i].n /\ t[i].segment = s[i].segment
       /\ s[i].filtered => t[i].filtered

LEMMA MarksTransitive ==
  ASSUME NEW s, NEW t, NEW u, Marks(s, t), Marks(t, u), s \in Seq(TrackPoint)
  PROVE  Marks(s, u)
<1>1. DOMAIN s = 1..Len(s) /\ DOMAIN t = 1..Len(t) /\ Len(s) = Len(t)
  BY DEF Marks
<1>. QED
  BY <1>1, Zenon DEF Marks

LEMMA MarksReflexive ==
  ASSUME NEW s \in Seq(TrackPoint)
  PROVE  Marks(s, s)
BY DEF Marks

LEMMA PointFields ==
  ASSUME NEW p \in TrackPoint
  PROVE  /\ p.at \in Nat /\ p.place \in Int /\ p.n \in Nat /\ p.speed \in Nat
         /\ p.filtered \in BOOLEAN /\ p.segment \in Nat
BY DEF TrackPoint

\* A speed is a whole number.
LEMMA SpeedIsNatural ==
  ASSUME NEW d \in Nat, NEW t \in Nat, t > 0
  PROVE  SpeedOf(d, t) \in Nat
<1>1. \A x \in Nat, y \in Nat : y > 0 => x \div y \in Nat
  BY Z3
<1>2. d * 3 \in Nat /\ 5 * t \in Nat /\ 5 * t > 0
  BY SMT
<1>. QED
  BY <1>1, <1>2, Zenon DEF SpeedOf

LEMMA BetweenIsNatural ==
  ASSUME NEW p \in TrackPoint, NEW q \in TrackPoint
  PROVE  Between(p, q) \in Nat
BY DEF TrackPoint, Between

LEMMA MarkedMarks ==
  ASSUME NEW s \in Seq(TrackPoint), NEW I
  PROVE  Marks(s, Marked(s, I))
<1>. DEFINE t == Marked(s, I)
<1>1. DOMAIN s = 1..Len(s) /\ Len(s) \in Nat
  OBVIOUS
<1>2. t = [i \in 1..Len(s) |-> [s[i] EXCEPT !.filtered = @ \/ i \in I]]
  BY <1>1 DEF Marked
<1>3. ASSUME NEW i \in 1..Len(s)
      PROVE  /\ t[i] \in TrackPoint
             /\ t[i].at = s[i].at /\ t[i].place = s[i].place
             /\ t[i].n = s[i].n /\ t[i].segment = s[i].segment
             /\ s[i].filtered => t[i].filtered
  <2>1. s[i] \in TrackPoint
    OBVIOUS
  <2>2. t[i] = [s[i] EXCEPT !.filtered = (s[i].filtered \/ i \in I)]
    BY <1>2
  <2>. HIDE DEF t
  <2>3. (s[i].filtered \/ i \in I) \in BOOLEAN
    OBVIOUS
  <2>. QED
    BY <2>1, <2>2, <2>3 DEF TrackPoint
<1>4. t \in Seq(TrackPoint) /\ Len(t) = Len(s)
  <2>. HIDE DEF t
  <2>1. t = [i \in 1..Len(s) |-> t[i]]
    BY <1>2
  <2>. QED
    BY <1>1, <1>3, <2>1
<1>. HIDE DEF t
<1>5. Marks(s, t)
  BY <1>1, <1>3, <1>4, Zenon DEF Marks
<1>. QED
  BY <1>5 DEF t

LEMMA StatisticsMark ==
  ASSUME NEW s \in Seq(TrackPoint)
  PROVE  Marks(s, TrackStatistics(s))
<1>. DEFINE t == TrackStatistics(s)
            Moves(i) == i > 1 /\ s[i].at > s[i - 1].at /\ Between(s[i - 1], s[i]) > 0
            Speed(i) == SpeedOf(Between(s[i - 1], s[i]), s[i].at - s[i - 1].at)
<1>1. DOMAIN s = 1..Len(s) /\ Len(s) \in Nat
  OBVIOUS
<1>2. t = [i \in 1..Len(s) |-> IF Moves(i) THEN [s[i] EXCEPT !.speed = Speed(i)] ELSE s[i]]
  BY <1>1 DEF TrackStatistics
<1>3. ASSUME NEW i \in 1..Len(s), Moves(i)
      PROVE  Speed(i) \in Nat
  <2>1. s[i] \in TrackPoint /\ s[i - 1] \in TrackPoint
    BY <1>3
  <2>2. Between(s[i - 1], s[i]) \in Nat
    BY <2>1, BetweenIsNatural
  <2>3. s[i].at \in Nat /\ s[i - 1].at \in Nat
    BY <2>1, PointFields, Zenon
  <2>4. s[i].at - s[i - 1].at \in Nat /\ s[i].at - s[i - 1].at > 0
    BY <1>3, <2>3
  <2>. QED
    BY <2>2, <2>4, SpeedIsNatural
<1>. HIDE DEF Speed, Moves
<1>4. ASSUME NEW i \in 1..Len(s)
      PROVE  /\ t[i] \in TrackPoint
             /\ t[i].at = s[i].at /\ t[i].place = s[i].place
             /\ t[i].n = s[i].n /\ t[i].segment = s[i].segment
             /\ s[i].filtered => t[i].filtered
  <2>1. s[i] \in TrackPoint
    OBVIOUS
  <2>2. t[i] = IF Moves(i) THEN [s[i] EXCEPT !.speed = Speed(i)] ELSE s[i]
    BY <1>2
  <2>. HIDE DEF t
  <2>. QED
    BY <1>3, <2>1, <2>2 DEF TrackPoint
<1>5. t \in Seq(TrackPoint) /\ Len(t) = Len(s)
  <2>. HIDE DEF t
  <2>1. t = [i \in 1..Len(s) |-> t[i]]
    BY <1>2
  <2>. QED
    BY <1>1, <1>4, <2>1
<1>. HIDE DEF t
<1>6. Marks(s, t)
  BY <1>1, <1>4, <1>5, Zenon DEF Marks
<1>. QED
  BY <1>6 DEF t

\* SmartTeleportationFilter and PreCleanupFilter mark points, and do nothing else.
LEMMA SmartTeleportationMarks ==
  ASSUME NEW s \in Seq(TrackPoint)
  PROVE  Marks(s, SmartTeleportation(s))
<1>1. \E I : SmartTeleportation(s) \in {s, Marked(TrackStatistics(s), I)}
  BY Zenon DEF SmartTeleportation
<1>2. PICK I : SmartTeleportation(s) \in {s, Marked(TrackStatistics(s), I)}
  BY <1>1, Zenon
<1>3. TrackStatistics(s) \in Seq(TrackPoint)
  BY StatisticsMark DEF Marks
<1>4. Marks(s, Marked(TrackStatistics(s), I))
  BY <1>3, StatisticsMark, MarkedMarks, MarksTransitive, Zenon
<1>. QED
  BY <1>2, <1>4, MarksReflexive

LEMMA PreCleanupMarks ==
  ASSUME NEW s \in Seq(TrackPoint)
  PROVE  Marks(s, PreCleanup(s))
<1>1. \E I : PreCleanup(s) \in {s, Marked(s, I)}
  BY Zenon DEF PreCleanup
<1>. QED
  BY <1>1, MarkedMarks, MarksReflexive

\* The points are in the order in which they were recorded, and their times do not fall.
Rising(s) == \A i, j \in DOMAIN s : i < j => s[i].n < s[j].n /\ s[i].at <= s[j].at

\* r has points of s, each at its index or at one before it.
Drawn(s, r) ==
  \A k \in DOMAIN r : \E j \in DOMAIN s :
    /\ k <= j
    /\ r[k].n = s[j].n /\ r[k].place = s[j].place /\ r[k].segment = s[j].segment
    /\ s[j].filtered => r[k].filtered

\* What DuplicateFilter keeps of the first i points.
KeptOf(s, i, r) ==
  /\ r \in Seq(TrackPoint) /\ Len(r) \in 1..i
  /\ Rising(r) /\ Drawn(s, r)
  /\ \A k \in DOMAIN r : r[k].n <= s[i].n /\ r[k].at <= s[i].at

LEMMA AddKeeps ==
  ASSUME NEW s \in Seq(TrackPoint), Rising(s), NEW i \in DOMAIN s, i > 1,
         NEW r, KeptOf(s, i - 1, r)
  PROVE  KeptOf(s, i, AddUnlessDuplicate(r, s[i]))
<1>. DEFINE L == Len(r)
<1>1. /\ DOMAIN s = 1..Len(s) /\ Len(s) \in Nat /\ i \in 1..Len(s) /\ i - 1 \in 1..Len(s)
      /\ DOMAIN r = 1..L /\ L \in Nat /\ L \in 1..(i - 1)
      /\ \A k \in 1..Len(s) : s[k] \in TrackPoint
      /\ \A k \in 1..L : r[k] \in TrackPoint
  BY DEF KeptOf
<1>2. s[i - 1].n < s[i].n /\ s[i - 1].at <= s[i].at
  BY <1>1 DEF Rising
<1>3. \A k \in 1..L : r[k].n <= s[i - 1].n /\ r[k].at <= s[i - 1].at
  BY <1>1 DEF KeptOf
<1>4. \A k \in 1..L : r[k].n < s[i].n /\ r[k].at <= s[i].at
  <2>. SUFFICES ASSUME NEW k \in 1..L PROVE r[k].n < s[i].n /\ r[k].at <= s[i].at
    OBVIOUS
  <2>1. r[k] \in TrackPoint /\ s[i] \in TrackPoint /\ s[i - 1] \in TrackPoint
    BY <1>1
  <2>2. /\ {r[k].n, s[i].n, s[i - 1].n} \subseteq Nat
        /\ {r[k].at, s[i].at, s[i - 1].at} \subseteq Nat
    BY <2>1, PointFields
  <2>3. r[k].n <= s[i - 1].n /\ r[k].at <= s[i - 1].at
    BY <1>3
  <2>4. \A x, y, z \in Nat : (x <= y /\ y < z => x < z) /\ (x <= y /\ y <= z => x <= z)
    BY SMT
  <2>. QED
    BY <1>2, <2>2, <2>3, <2>4, Zenon
<1>5. ASSUME NEW u, u = Append(r, s[i])
      PROVE  KeptOf(s, i, u)
  <2>1. u \in Seq(TrackPoint) /\ Len(u) = L + 1 /\ DOMAIN u = 1..(L + 1)
    BY <1>1, <1>5 DEF KeptOf
  <2>2. \A k \in 1..L : u[k] = r[k]
    BY <1>1, <1>5
  <2>3. u[L + 1] = s[i]
    BY <1>1, <1>5
  <2>4. Rising(u)
    <3>. SUFFICES ASSUME NEW k \in 1..(L + 1), NEW l \in 1..(L + 1), k < l
                  PROVE  u[k].n < u[l].n /\ u[k].at <= u[l].at
      BY <2>1, Zenon DEF Rising
    <3>1. k \in 1..L
      BY <1>1
    <3>2. CASE l \in 1..L
      BY <1>1, <2>2, <3>1, <3>2 DEF KeptOf, Rising
    <3>3. CASE l = L + 1
      BY <1>4, <2>2, <2>3, <3>1, <3>3
    <3>. QED
      BY <1>1, <3>2, <3>3
  <2>5. Drawn(s, u)
    <3>. SUFFICES ASSUME NEW k \in 1..(L + 1)
                  PROVE  \E j \in DOMAIN s :
                           /\ k <= j
                           /\ u[k].n = s[j].n /\ u[k].place = s[j].place /\ u[k].segment = s[j].segment
                           /\ s[j].filtered => u[k].filtered
      BY <2>1, Zenon DEF Drawn
    <3>1. CASE k \in 1..L
      BY <1>1, <2>2, <3>1, Zenon DEF KeptOf, Drawn
    <3>2. CASE k = L + 1
      <4>1. k <= i
        BY <1>1, <3>2
      <4>. QED
        BY <2>3, <3>2, <4>1
    <3>. QED
      BY <1>1, <3>1, <3>2
  <2>6. \A k \in 1..(L + 1) : u[k].n <= s[i].n /\ u[k].at <= s[i].at
    <3>. SUFFICES ASSUME NEW k \in 1..(L + 1) PROVE u[k].n <= s[i].n /\ u[k].at <= s[i].at
      OBVIOUS
    <3>1. s[i] \in TrackPoint
      BY <1>1
    <3>2. s[i].n \in Nat /\ s[i].at \in Nat
      BY <3>1, PointFields
    <3>3. CASE k \in 1..L
      <4>1. r[k] \in TrackPoint
        BY <1>1, <3>3
      <4>2. r[k].n \in Nat /\ r[k].at \in Nat
        BY <4>1, PointFields
      <4>. QED
        BY <1>4, <2>2, <3>3, <3>2, <4>2
    <3>4. CASE k = L + 1
      BY <2>3, <3>4, <3>2
    <3>. QED
      BY <1>1, <3>3, <3>4
  <2>7. Len(u) \in 1..i
    BY <1>1, <2>1
  <2>. QED
    BY <2>1, <2>4, <2>5, <2>6, <2>7, Zenon DEF KeptOf
<1>6. ASSUME s[i].at > Last(r).at, NEW u, u = [r EXCEPT ![Len(r)].at = s[i].at]
      PROVE  KeptOf(s, i, u)
  <2>1. DOMAIN u = 1..L /\ Len(u) = L
    BY <1>1, <1>6 DEF KeptOf
  <2>2. \A k \in 1..L : k # L => u[k] = r[k]
    BY <1>1, <1>6
  <2>3. u[L] = [r[L] EXCEPT !.at = s[i].at]
    BY <1>1, <1>6
  <2>4. s[i] \in TrackPoint /\ r[L] \in TrackPoint /\ L \in 1..L
    BY <1>1
  <2>5. /\ u[L] \in TrackPoint /\ u[L].at = s[i].at
        /\ u[L].n = r[L].n /\ u[L].place = r[L].place /\ u[L].segment = r[L].segment
        /\ u[L].filtered = r[L].filtered
    BY <2>3, <2>4 DEF TrackPoint
  <2>6. \A k \in 1..L : /\ u[k] \in TrackPoint /\ u[k].n = r[k].n /\ u[k].place = r[k].place
                        /\ u[k].segment = r[k].segment /\ u[k].filtered = r[k].filtered
    BY <1>1, <2>2, <2>5, Zenon
  <2>7. u \in Seq(TrackPoint)
    <3>1. u = [k \in 1..L |-> u[k]]
      BY <1>1, <1>6, <2>1 DEF KeptOf
    <3>. QED
      BY <1>1, <2>6, <3>1
  <2>8. \A k \in 1..L : u[k].n <= s[i].n /\ u[k].at <= s[i].at
    <3>. SUFFICES ASSUME NEW k \in 1..L PROVE u[k].n <= s[i].n /\ u[k].at <= s[i].at
      OBVIOUS
    <3>1. r[k] \in TrackPoint /\ s[i] \in TrackPoint
      BY <1>1
    <3>2. {r[k].n, s[i].n, s[i].at, r[k].at} \subseteq Nat
      BY <3>1, PointFields
    <3>3. u[k].n <= s[i].n
      BY <1>4, <2>6, <3>2
    <3>4. u[k].at <= s[i].at
      <4>1. CASE k = L
        BY <2>5, <3>2, <4>1
      <4>2. CASE k # L
        BY <1>4, <2>2, <4>2
      <4>. QED
        BY <4>1, <4>2
    <3>. QED
      BY <3>3, <3>4
  <2>9. Rising(u)
    <3>. SUFFICES ASSUME NEW k \in 1..L, NEW l \in 1..L, k < l
                  PROVE  u[k].n < u[l].n /\ u[k].at <= u[l].at
      BY <2>1, Zenon DEF Rising
    <3>1. r[k].n < r[l].n /\ r[k].at <= r[l].at
      BY <1>1, Zenon DEF KeptOf, Rising
    <3>2. u[k].n < u[l].n
      BY <2>6, <3>1
    <3>3. k # L
      BY <1>1
    <3>4. u[k].at <= u[l].at
      BY <1>4, <2>2, <2>5, <3>1, <3>3
    <3>. QED
      BY <3>2, <3>4
  <2>10. Drawn(s, u)
    <3>. SUFFICES ASSUME NEW k \in 1..L
                  PROVE  \E j \in DOMAIN s :
                           /\ k <= j
                           /\ u[k].n = s[j].n /\ u[k].place = s[j].place /\ u[k].segment = s[j].segment
                           /\ s[j].filtered => u[k].filtered
      BY <2>1, Zenon DEF Drawn
    <3>1. PICK j \in DOMAIN s :
                 /\ k <= j
                 /\ r[k].n = s[j].n /\ r[k].place = s[j].place /\ r[k].segment = s[j].segment
                 /\ s[j].filtered => r[k].filtered
      BY <1>1, Zenon DEF KeptOf, Drawn
    <3>. QED
      BY <2>6, <3>1, Zenon
  <2>11. Len(u) \in 1..i
    BY <1>1, <2>1
  <2>. QED
    BY <2>1, <2>7, <2>8, <2>9, <2>10, <2>11, Zenon DEF KeptOf
<1>7. KeptOf(s, i, r)
  <2>1. Len(r) \in 1..i
    BY <1>1
  <2>2. \A k \in 1..L : r[k].n <= s[i].n /\ r[k].at <= s[i].at
    <3>. SUFFICES ASSUME NEW k \in 1..L PROVE r[k].n <= s[i].n /\ r[k].at <= s[i].at
      OBVIOUS
    <3>1. r[k] \in TrackPoint /\ s[i] \in TrackPoint
      BY <1>1
    <3>2. {r[k].n, s[i].n, s[i].at, r[k].at} \subseteq Nat
      BY <3>1, PointFields
    <3>. QED
      BY <1>4, <3>2
  <2>. QED
    BY <1>1, <2>1, <2>2, Zenon DEF KeptOf
<1>. QED
  BY <1>5, <1>6, <1>7, Zenon DEF AddUnlessDuplicate, Refreshed

\* The loop of DuplicateFilter, as a function of the number of points that it has seen.
LEMMA KeptFrom ==
  ASSUME NEW s, NEW n \in Nat
  PROVE  \E g : g = [i \in 0..n |-> IF i = 0 THEN <<>>
                                    ELSE IF i = 1 THEN <<s[1]>>
                                    ELSE AddUnlessDuplicate(g[i - 1], s[i])]
<1>. DEFINE Is(g, m) == g = [i \in 0..m |-> IF i = 0 THEN <<>>
                                            ELSE IF i = 1 THEN <<s[1]>>
                                            ELSE AddUnlessDuplicate(g[i - 1], s[i])]
            T == {m \in Nat : ~\E g : Is(g, m)}
<1>1. ASSUME T # {}
      PROVE  FALSE
  <2>1. PICK m \in T : \A k \in T : m <= k
    BY <1>1, LeastOf
  <2>2. m \in Nat /\ ~\E g : Is(g, m)
    OBVIOUS
  <2>3. m # 0
    <3>1. Is([i \in 0..0 |-> <<>>], 0)
      OBVIOUS
    <3>. HIDE DEF Is
    <3>. QED
      BY <2>2, <3>1
  <2>4. m - 1 \in Nat /\ m - 1 \notin T
    <3>. HIDE DEF T
    <3>. QED
      BY <2>1, <2>2, <2>3
  <2>5. PICK g : Is(g, m - 1)
    BY <2>4
  <2>. DEFINE h == [i \in 0..m |-> IF i = 0 THEN <<>>
                                   ELSE IF i = 1 THEN <<s[1]>>
                                   ELSE AddUnlessDuplicate(g[i - 1], s[i])]
  <2>6. ASSUME NEW i \in 0..m, i # 0
        PROVE  h[i - 1] = g[i - 1]
    <3>1. i - 1 \in 0..(m - 1) /\ i - 1 \in 0..m
      BY <2>2, <2>6
    <3>. QED
      BY <2>5, <3>1
  <2>7. h = [i \in 0..m |-> IF i = 0 THEN <<>>
                            ELSE IF i = 1 THEN <<s[1]>>
                            ELSE AddUnlessDuplicate(h[i - 1], s[i])]
    <3>. HIDE DEF h
    <3>. QED
      BY <2>6 DEF h
  <2>8. Is(h, m)
    BY <2>7
  <2>. HIDE DEF Is, h
  <2>. QED
    BY <2>2, <2>8
<1>. QED
  BY <1>1

LEMMA DuplicateDraws ==
  ASSUME NEW s \in Seq(TrackPoint), Rising(s)
  PROVE  /\ Duplicate(s) \in Seq(TrackPoint) /\ Len(Duplicate(s)) <= Len(s)
         /\ Len(s) > 0 => Len(Duplicate(s)) > 0
         /\ Rising(Duplicate(s)) /\ Drawn(s, Duplicate(s))
<1>. DEFINE kept[i \in 0..Len(s)] == IF i = 0 THEN <<>>
                                    ELSE IF i = 1 THEN <<s[1]>>
                                    ELSE AddUnlessDuplicate(kept[i - 1], s[i])
            T == {i \in 1..Len(s) : ~KeptOf(s, i, kept[i])}
<1>1. DOMAIN s = 1..Len(s) /\ Len(s) \in Nat /\ \A k \in 1..Len(s) : s[k] \in TrackPoint
  OBVIOUS
<1>2. CASE Len(s) <= 1
  <2>1. Duplicate(s) = s
    BY <1>2, Zenon DEF Duplicate
  <2>2. Drawn(s, s)
    BY <1>1, SMT DEF Drawn
  <2>. QED
    BY <1>1, <2>1, <2>2
<1>3. CASE Len(s) > 1
  <2>1. kept = [i \in 0..Len(s) |-> IF i = 0 THEN <<>>
                                    ELSE IF i = 1 THEN <<s[1]>>
                                    ELSE AddUnlessDuplicate(kept[i - 1], s[i])]
    BY <1>1, KeptFrom
  <2>2. Duplicate(s) = kept[Len(s)]
    BY <1>1, <1>3 DEF Duplicate
  <2>. HIDE DEF kept
  <2>3. ASSUME T # {}
        PROVE  FALSE
    <3>1. T \subseteq Nat
      OBVIOUS
    <3>2. PICK i \in T : \A k \in T : i <= k
      BY <2>3, <3>1, LeastOf
    <3>3. i \in 1..Len(s) /\ ~KeptOf(s, i, kept[i])
      OBVIOUS
    <3>4. CASE i = 1
      <4>1. kept[1] = <<s[1]>>
        BY <1>1, <1>3, <2>1
      <4>2. s[1] \in TrackPoint /\ 1 \in DOMAIN s
        BY <1>1, <1>3
      <4>3. s[1].n \in Nat /\ s[1].at \in Nat
        BY <4>2, PointFields
      <4>. DEFINE u == <<s[1]>>
      <4>4. u \in Seq(TrackPoint) /\ Len(u) = 1 /\ DOMAIN u = 1..1 /\ u[1] = s[1]
        BY <4>2
      <4>. HIDE DEF u
      <4>5. \A k \in DOMAIN u : k = 1
        BY <4>4
      <4>6. Rising(u)
        BY <4>5, SMT DEF Rising
      <4>7. Drawn(s, u)
        BY <4>2, <4>4, <4>5, SMT DEF Drawn
      <4>8. \A k \in DOMAIN u : u[k].n <= s[1].n /\ u[k].at <= s[1].at
        BY <4>3, <4>4, <4>5
      <4>9. KeptOf(s, 1, u)
        BY <4>4, <4>6, <4>7, <4>8 DEF KeptOf
      <4>. QED
        BY <3>3, <3>4, <4>1, <4>9 DEF u
    <3>5. CASE i # 1
      <4>1. i > 1 /\ i - 1 \in 1..Len(s) /\ i - 1 \notin T
        <5>. HIDE DEF T
        <5>. QED
          BY <1>1, <3>2, <3>3, <3>5
      <4>2. KeptOf(s, i - 1, kept[i - 1])
        BY <4>1
      <4>3. kept[i] = AddUnlessDuplicate(kept[i - 1], s[i])
        BY <1>1, <2>1, <3>3, <3>5
      <4>. QED
        BY <1>1, <3>3, <4>1, <4>2, <4>3, AddKeeps
    <3>. QED
      BY <3>4, <3>5
  <2>4. KeptOf(s, Len(s), Duplicate(s))
    BY <1>1, <1>3, <2>2, <2>3
  <2>. QED
    BY <1>1, <2>4 DEF KeptOf
<1>. QED
  BY <1>1, <1>2, <1>3

\* What Level 1 returns: points of the track, in their order.
LEMMA Level1Draws ==
  ASSUME NEW s \in Seq(TrackPoint), Rising(s)
  PROVE  /\ Level1(s) \in Seq(TrackPoint) /\ Len(Level1(s)) <= Len(s)
         /\ Len(s) > 0 => Len(Level1(s)) > 0
         /\ Rising(Level1(s)) /\ Drawn(s, Level1(s))
<1>. DEFINE d == Duplicate(s)
            r == SmartTeleportation(d)
<1>1. /\ d \in Seq(TrackPoint) /\ Len(d) <= Len(s) /\ (Len(s) > 0 => Len(d) > 0)
      /\ Rising(d) /\ Drawn(s, d)
  BY DuplicateDraws
<1>. HIDE DEF d
<1>2. Marks(d, r)
  BY <1>1, SmartTeleportationMarks
<1>3. Level1(s) = r
  BY DEF Level1, d
<1>. HIDE DEF r
<1>4. r \in Seq(TrackPoint) /\ Len(r) = Len(d) /\ DOMAIN r = DOMAIN d
  <2>1. r \in Seq(TrackPoint) /\ Len(r) = Len(d)
    BY <1>2, Zenon DEF Marks
  <2>. QED
    BY <1>1, <2>1
<1>5. Rising(r)
  BY <1>1, <1>2, <1>4, Zenon DEF Rising, Marks
<1>6. Drawn(s, r)
  <2>. SUFFICES ASSUME NEW k \in DOMAIN d
                PROVE  \E j \in DOMAIN s :
                         /\ k <= j
                         /\ r[k].n = s[j].n /\ r[k].place = s[j].place /\ r[k].segment = s[j].segment
                         /\ s[j].filtered => r[k].filtered
    BY <1>4, Zenon DEF Drawn
  <2>1. PICK j \in DOMAIN s :
               /\ k <= j
               /\ d[k].n = s[j].n /\ d[k].place = s[j].place /\ d[k].segment = s[j].segment
               /\ s[j].filtered => d[k].filtered
    BY <1>1, Zenon DEF Drawn
  <2>. QED
    BY <1>2, <2>1, Zenon DEF Marks
<1>. QED
  BY <1>1, <1>3, <1>4, <1>5, <1>6

-----------------------------------------------------------------------------
(***************************************************************************)
(* TimeGapSegmentationFilter, and what SegmentedFilterChain makes of it.    *)
(***************************************************************************)

LEMMA RunsRise ==
  ASSUME NEW s, NEW i \in Nat, NEW j \in Nat, i <= j
  PROVE  RunOf(s, i) \in Nat \ {0} /\ RunOf(s, j) \in Nat /\ RunOf(s, i) <= RunOf(s, j)
<1>. DEFINE G(k) == {x \in 2..k : s[x].at - s[x - 1].at > GapMinutes}
<1>1. ASSUME NEW k \in Nat
      PROVE  IsFiniteSet(G(k)) /\ Cardinality(G(k)) \in Nat
  <2>1. IsFiniteSet(2..k)
    BY FS_Interval, SMT
  <2>2. G(k) \in SUBSET (2..k)
    OBVIOUS
  <2>. HIDE DEF G
  <2>. QED
    BY <2>1, <2>2, FS_Subset, FS_CardinalityType, Zenon
<1>2. G(i) \in SUBSET G(j)
  <2>1. \A x \in 2..i : x \in 2..j
    BY SMT
  <2>. QED
    BY <2>1, Zenon
<1>3. \A k : RunOf(s, k) = 1 + Cardinality(G(k))
  BY DEF RunOf
<1>. HIDE DEF G
<1>4. Cardinality(G(i)) <= Cardinality(G(j))
  BY <1>1, <1>2, FS_Subset, Zenon
<1>. QED
  BY <1>1, <1>3, <1>4

LEMMA RunsAreKept ==
  ASSUME NEW s \in Seq(TrackPoint), NEW t \in Seq(TrackPoint), Len(t) = Len(s),
         \A i \in DOMAIN s : t[i].at = s[i].at,
         NEW i \in DOMAIN s
  PROVE  RunOf(t, i) = RunOf(s, i)
<1>1. \A x \in 2..i : x \in DOMAIN s /\ x - 1 \in DOMAIN s
  OBVIOUS
<1>2. \A x \in 2..i : t[x].at = s[x].at /\ t[x - 1].at = s[x - 1].at
  BY <1>1, Zenon
<1>3. {x \in 2..i : t[x].at - t[x - 1].at > GapMinutes}
        = {x \in 2..i : s[x].at - s[x - 1].at > GapMinutes}
  BY <1>2
<1>. QED
  BY <1>3 DEF RunOf

\* A track as it was recorded, whose points some filter may have marked.
Numbered(s) ==
  /\ s \in Seq(TrackPoint)
  /\ \A i \in DOMAIN s : s[i].n = i
  /\ \A i, j \in DOMAIN s : i < j => s[i].at <= s[j].at

\* Such a track after TimeGapSegmentationFilter.
Divided(s) ==
  /\ Numbered(s)
  /\ \A i \in DOMAIN s : /\ s[i].segment \in {0, RunOf(s, i)}
                         /\ ~s[i].filtered => s[i].segment = RunOf(s, i)

LEMMA NumberedRises ==
  ASSUME NEW s, Numbered(s)
  PROVE  Rising(s)
BY Zenon DEF Numbered, Rising

LEMMA TimeGapDivides ==
  ASSUME NEW s, Numbered(s), Len(s) > 1, \A i \in DOMAIN s : s[i].segment = 0
  PROVE  /\ Divided(TimeGapSegmentation(s)) /\ Len(TimeGapSegmentation(s)) = Len(s)
         /\ \A i \in DOMAIN s : /\ TimeGapSegmentation(s)[i].at = s[i].at
                                /\ TimeGapSegmentation(s)[i].place = s[i].place
<1>. DEFINE t == TimeGapSegmentation(s)
            Has(i) == \E j \in RunPoints(s, RunOf(s, i)) : ~s[j].filtered
<1>1. s \in Seq(TrackPoint) /\ DOMAIN s = 1..Len(s) /\ Len(s) \in Nat
  BY DEF Numbered
<1>2. t = [i \in 1..Len(s) |-> IF Has(i) THEN [s[i] EXCEPT !.segment = RunOf(s, i)] ELSE s[i]]
  <2>1. ~(Len(s) < 2)
    BY <1>1
  <2>. QED
    BY <1>1, <2>1 DEF TimeGapSegmentation
<1>3. ASSUME NEW i \in 1..Len(s)
      PROVE  RunOf(s, i) \in Nat
  BY RunsRise
<1>4. ASSUME NEW i \in 1..Len(s), ~s[i].filtered
      PROVE  Has(i)
  <2>1. i \in RunPoints(s, RunOf(s, i))
    BY <1>1 DEF RunPoints
  <2>. QED
    BY <1>4, <2>1
<1>. HIDE DEF Has
<1>5. ASSUME NEW i \in 1..Len(s)
      PROVE  /\ t[i] \in TrackPoint
             /\ t[i].at = s[i].at /\ t[i].place = s[i].place /\ t[i].n = s[i].n
             /\ t[i].filtered = s[i].filtered
             /\ t[i].segment = IF Has(i) THEN RunOf(s, i) ELSE s[i].segment
  <2>1. s[i] \in TrackPoint
    BY <1>1
  <2>2. t[i] = IF Has(i) THEN [s[i] EXCEPT !.segment = RunOf(s, i)] ELSE s[i]
    BY <1>2
  <2>. HIDE DEF t
  <2>. QED
    BY <1>3, <2>1, <2>2 DEF TrackPoint
<1>6. t \in Seq(TrackPoint) /\ Len(t) = Len(s) /\ DOMAIN t = 1..Len(s)
  <2>. HIDE DEF t
  <2>1. t = [i \in 1..Len(s) |-> t[i]]
    BY <1>2
  <2>. QED
    BY <1>1, <1>5, <2>1
<1>. HIDE DEF t
<1>7. \A i \in 1..Len(s) : RunOf(t, i) = RunOf(s, i)
  BY <1>1, <1>5, <1>6, RunsAreKept, Zenon
<1>8. Numbered(t)
  <2>1. \A i \in 1..Len(s) : t[i].n = i
    BY <1>1, <1>5, Zenon DEF Numbered
  <2>2. \A i, j \in 1..Len(s) : i < j => t[i].at <= t[j].at
    BY <1>1, <1>5, Zenon DEF Numbered
  <2>. QED
    BY <1>6, <2>1, <2>2, Zenon DEF Numbered
<1>9. ASSUME NEW i \in 1..Len(s)
      PROVE  /\ t[i].segment \in {0, RunOf(t, i)}
             /\ ~t[i].filtered => t[i].segment = RunOf(t, i)
  BY <1>1, <1>4, <1>5, <1>7, Zenon
<1>10. Divided(t)
  BY <1>6, <1>8, <1>9, Zenon DEF Divided
<1>. QED
  BY <1>1, <1>5, <1>6, <1>10, Zenon DEF t

\* The points of a group, for Level 1.
LEMMA SubtrackOfGroup ==
  ASSUME NEW s, Divided(s), NEW g \in Nat
  PROVE  /\ Group(s, g) \in SUBSET (1..Len(s))
         /\ Subtrack(s, g) \in Seq(TrackPoint) /\ Len(Subtrack(s, g)) = Cardinality(Group(s, g))
         /\ \A k \in 1..Cardinality(Group(s, g)) :
              /\ Subtrack(s, g)[k].n = s[Ascending(Group(s, g))[k]].n
              /\ Subtrack(s, g)[k].place = s[Ascending(Group(s, g))[k]].place
              /\ Subtrack(s, g)[k].segment = g
              /\ Subtrack(s, g)[k].filtered = s[Ascending(Group(s, g))[k]].filtered
         /\ Rising(Subtrack(s, g))
<1>. DEFINE G == Group(s, g)
            C == Cardinality(G)
            t == Subtrack(s, g)
            A(k) == Ascending(G)[k]
<1>1. s \in Seq(TrackPoint) /\ DOMAIN s = 1..Len(s) /\ Len(s) \in Nat
  BY DEF Divided, Numbered
<1>2. G \in SUBSET (1..Len(s))
  BY <1>1 DEF Group
<1>3. C \in Nat
  BY <1>1, <1>2, RanksAreOrdered
<1>4. \A k \in 1..C : A(k) \in 1..Len(s)
  BY <1>1, <1>2, AscendingOrder, Zenon
<1>5. \A k, l \in 1..C : k < l => A(k) < A(l)
  BY <1>1, <1>2, AscendingOrder, Zenon
<1>6. t = [k \in 1..C |-> [s[A(k)] EXCEPT !.segment = g]]
  BY DEF Subtrack, Select, Belonging
<1>. HIDE DEF A, C, t, G
<1>7. ASSUME NEW k \in 1..C
      PROVE  /\ t[k] \in TrackPoint
             /\ t[k].n = s[A(k)].n /\ t[k].place = s[A(k)].place /\ t[k].at = s[A(k)].at
             /\ t[k].segment = g /\ t[k].filtered = s[A(k)].filtered
  <2>1. s[A(k)] \in TrackPoint
    BY <1>1, <1>4
  <2>2. t[k] = [s[A(k)] EXCEPT !.segment = g]
    BY <1>6
  <2>. QED
    BY <2>1, <2>2 DEF TrackPoint
<1>8. t \in Seq(TrackPoint) /\ Len(t) = C /\ DOMAIN t = 1..C
  <2>1. t = [k \in 1..C |-> t[k]]
    BY <1>6
  <2>. QED
    BY <1>3, <1>7, <2>1
<1>9. Rising(t)
  <2>. SUFFICES ASSUME NEW k \in 1..C, NEW l \in 1..C, k < l
                PROVE  t[k].n < t[l].n /\ t[k].at <= t[l].at
    BY <1>8, Zenon DEF Rising
  <2>1. A(k) < A(l) /\ A(k) \in 1..Len(s) /\ A(l) \in 1..Len(s)
    BY <1>4, <1>5, Zenon
  <2>2. s[A(k)].n < s[A(l)].n /\ s[A(k)].at <= s[A(l)].at
    BY <1>1, <2>1, NumberedRises, Zenon DEF Divided, Rising
  <2>. QED
    BY <1>7, <2>2, Zenon
<1>. QED
  BY <1>2, <1>7, <1>8, <1>9, Zenon DEF A, C, t, G

LEMMA SubtrackPoint ==
  ASSUME NEW s, Divided(s), NEW g \in Nat, NEW k \in 1..Cardinality(Group(s, g))
  PROVE  /\ Subtrack(s, g)[k].n = s[Ascending(Group(s, g))[k]].n
         /\ Subtrack(s, g)[k].place = s[Ascending(Group(s, g))[k]].place
         /\ Subtrack(s, g)[k].segment = g
         /\ Subtrack(s, g)[k].filtered = s[Ascending(Group(s, g))[k]].filtered
BY SubtrackOfGroup, SMT

\* A point that SegmentedFilterChain puts at i comes from i or from later in its group.
LEMMA PlacedFrom ==
  ASSUME NEW s, Divided(s), NEW i \in DOMAIN s,
         NEW g, g = GroupId(s[i]), NEW G, G = Group(s, g),
         NEW t, t = Subtrack(s, g), NEW r, r = Level1(t)
  PROVE  /\ Placed(s, i) \in TrackPoint /\ Placed(s, i).n \in DOMAIN s
         /\ r \in Seq(TrackPoint) /\ Rising(r)
         /\ ~Placed(s, i).filtered =>
              /\ Rank(G, i) \in DOMAIN r /\ Placed(s, i) = r[Rank(G, i)]
              /\ \E j \in DOMAIN s :
                   /\ i <= j /\ GroupId(s[j]) = g /\ ~s[j].filtered
                   /\ Placed(s, i).n = s[j].n /\ Placed(s, i).place = s[j].place
                   /\ Placed(s, i).segment = g
<1>. DEFINE k == Rank(G, i)
<1>1. s \in Seq(TrackPoint) /\ DOMAIN s = 1..Len(s) /\ Len(s) \in Nat /\ s[i] \in TrackPoint
  BY DEF Divided, Numbered
<1>2. g \in Nat
  BY <1>1, PointFields DEF GroupId
<1>3. i \in G
  BY DEF Group
<1>4. /\ G \in SUBSET (1..Len(s)) /\ t \in Seq(TrackPoint) /\ Len(t) = Cardinality(G)
      /\ Rising(t)
  BY <1>2, SubtrackOfGroup, Zenon
<1>5. ASSUME NEW l \in 1..Cardinality(G)
       PROVE  /\ t[l].n = s[Ascending(G)[l]].n /\ t[l].place = s[Ascending(G)[l]].place
              /\ t[l].segment = g /\ t[l].filtered = s[Ascending(G)[l]].filtered
  BY <1>2, SubtrackPoint, SMT
<1>6. \A j \in G : j \in DOMAIN s /\ GroupId(s[j]) = g
  BY DEF Group
<1>7. r \in Seq(TrackPoint) /\ Len(r) <= Len(t) /\ Rising(r) /\ Drawn(t, r)
  BY <1>4, Level1Draws
<1>8. k \in 1..Cardinality(G) /\ Cardinality(G) \in Nat /\ Ascending(G)[k] = i
  <2>1. k \in 1..Cardinality(G) /\ Cardinality(G) \in 0..Len(s)
    BY <1>1, <1>3, <1>4, RanksAreOrdered, Zenon
  <2>2. Ascending(G)[k] = i
    BY <1>1, <1>3, <1>4, AscendingOrder, Zenon
  <2>. QED
    BY <1>1, <2>1, <2>2
<1>9. Placed(s, i) = IF Cardinality(G) < 2 \/ k > Len(r) THEN [s[i] EXCEPT !.filtered = TRUE]
                     ELSE r[k]
  BY DEF Placed
<1>. HIDE DEF k
<1>10. CASE Cardinality(G) < 2 \/ k > Len(r)
  <2>1. Placed(s, i) = [s[i] EXCEPT !.filtered = TRUE]
    BY <1>9, <1>10, Zenon
  <2>2. /\ Placed(s, i) \in TrackPoint /\ Placed(s, i).filtered
        /\ Placed(s, i).n = s[i].n
    BY <1>1, <2>1 DEF TrackPoint
  <2>3. s[i].n = i
    BY Zenon DEF Divided, Numbered
  <2>. QED
    BY <1>7, <2>2, <2>3, Zenon
<1>11. CASE ~(Cardinality(G) < 2 \/ k > Len(r))
  <2>1. Placed(s, i) = r[k]
    BY <1>9, <1>11, Zenon
  <2>2. DOMAIN r = 1..Len(r) /\ k \in DOMAIN r /\ DOMAIN t = 1..Cardinality(G)
    BY <1>4, <1>7, <1>8, <1>11
  <2>3. r[k] \in TrackPoint
    BY <1>7, <2>2
  <2>4. PICK l \in 1..Cardinality(G) :
               /\ k <= l
               /\ r[k].n = t[l].n /\ r[k].place = t[l].place /\ r[k].segment = t[l].segment
               /\ t[l].filtered => r[k].filtered
    BY <1>7, <2>2, Zenon DEF Drawn
  <2>. DEFINE j == Ascending(G)[l]
  <2>5. j \in G /\ (k < l => Ascending(G)[k] < j)
    BY <1>1, <1>4, <1>8, <2>4, AscendingOrder, Zenon
  <2>6. /\ t[l].n = s[j].n /\ t[l].place = s[j].place
        /\ t[l].segment = g /\ t[l].filtered = s[j].filtered
    BY <1>5
  <2>. HIDE DEF j
  <2>7. i <= j
    <3>1. j \in Int /\ i \in Int
      BY <1>1, <1>6, <2>5
    <3>2. CASE k = l
      BY <1>8, <3>1, <3>2 DEF j
    <3>3. CASE k < l
      BY <1>8, <2>5, <3>1, <3>3
    <3>. QED
      BY <1>8, <2>4, <3>2, <3>3
  <2>8. /\ i <= j /\ GroupId(s[j]) = g /\ j \in DOMAIN s
        /\ r[k].n = s[j].n /\ r[k].place = s[j].place /\ r[k].segment = g
        /\ s[j].filtered => r[k].filtered
    BY <1>6, <2>4, <2>5, <2>6, <2>7, Zenon
  <2>9. s[j].n = j
    BY <2>8, Zenon DEF Divided, Numbered
  <2>. QED
    BY <1>7, <2>1, <2>2, <2>3, <2>8, <2>9, Zenon DEF k
<1>. QED
  BY <1>10, <1>11

\* What is not filtered after SegmentedFilterChain was not filtered before, and keeps to the
\* run of points into which it was moved.
LEMMA SegmentedComesFrom ==
  ASSUME NEW s, Divided(s), NEW i \in DOMAIN s, ~Placed(s, i).filtered
  PROVE  /\ Placed(s, i).n \in DOMAIN s /\ i <= Placed(s, i).n
         /\ ~s[Placed(s, i).n].filtered
         /\ Placed(s, i).place = s[Placed(s, i).n].place
         /\ Placed(s, i).segment = RunOf(s, Placed(s, i).n) /\ Placed(s, i).segment = RunOf(s, i)
         /\ Placed(s, i).segment = GroupId(s[i])
<1>. DEFINE g == GroupId(s[i])
            p == Placed(s, i)
<1>1. s \in Seq(TrackPoint) /\ DOMAIN s = 1..Len(s) /\ Len(s) \in Nat
  BY DEF Divided, Numbered
<1>2. PICK j \in DOMAIN s : /\ i <= j /\ GroupId(s[j]) = g /\ ~s[j].filtered
                            /\ p.n = s[j].n /\ p.place = s[j].place /\ p.segment = g
  BY PlacedFrom
<1>. HIDE DEF p
<1>3. p.n = j
  BY <1>2 DEF Divided, Numbered
<1>4. s[j].segment = RunOf(s, j) /\ s[i].segment \in {0, RunOf(s, i)}
  BY <1>2, Zenon DEF Divided
<1>5. RunOf(s, i) \in Nat \ {0} /\ RunOf(s, j) \in Nat \ {0} /\ RunOf(s, i) <= RunOf(s, j)
  <2>1. i \in Nat /\ j \in Nat
    BY <1>1
  <2>. QED
    BY <1>2, <2>1, RunsRise
<1>6. g = RunOf(s, j)
  BY <1>2, <1>4, <1>5 DEF GroupId
<1>7. g = RunOf(s, i)
  <2>1. CASE s[i].segment = RunOf(s, i)
    BY <1>5, <2>1 DEF GroupId
  <2>2. CASE s[i].segment = 0
    <3>1. g = 1
      BY <2>2 DEF GroupId
    <3>. HIDE DEF g
    <3>. QED
      BY <1>5, <1>6, <3>1
  <2>. QED
    BY <1>4, <2>1, <2>2
<1>. QED
  BY <1>2, <1>3, <1>6, <1>7 DEF p

LEMMA SegmentedInOrder ==
  ASSUME NEW s, Divided(s), NEW i \in DOMAIN s, NEW j \in DOMAIN s, i < j,
         ~Placed(s, i).filtered, ~Placed(s, j).filtered
  PROVE  /\ Placed(s, i).n < Placed(s, j).n
         /\ Placed(s, i).segment = Placed(s, j).segment => Placed(s, i).at <= Placed(s, j).at
<1>. DEFINE p == Placed(s, i)
            q == Placed(s, j)
<1>1. s \in Seq(TrackPoint) /\ DOMAIN s = 1..Len(s) /\ Len(s) \in Nat
  BY DEF Divided, Numbered
<1>2. /\ p.n \in DOMAIN s /\ p.segment = RunOf(s, p.n) /\ p.segment = RunOf(s, i)
      /\ p.segment = GroupId(s[i])
  BY SegmentedComesFrom
<1>3. /\ q.n \in DOMAIN s /\ q.segment = RunOf(s, q.n) /\ q.segment = RunOf(s, j)
      /\ q.segment = GroupId(s[j])
  BY SegmentedComesFrom
<1>4. CASE p.segment = q.segment
  <2>. DEFINE g == GroupId(s[i])
              G == Group(s, g)
              r == Level1(Subtrack(s, g))
  <2>1. r \in Seq(TrackPoint) /\ Rising(r) /\ Rank(G, i) \in DOMAIN r /\ p = r[Rank(G, i)]
    BY PlacedFrom, SMTT(60)
  <2>2. g = GroupId(s[j])
    BY <1>2, <1>3, <1>4
  <2>3. Rank(G, j) \in DOMAIN r /\ q = r[Rank(G, j)]
    BY <2>2, PlacedFrom
  <2>4. i \in G /\ j \in G /\ G \in SUBSET (1..Len(s))
    BY <1>1, <2>2 DEF Group
  <2>. HIDE DEF r, G
  <2>5. Rank(G, i) < Rank(G, j)
    BY <1>1, <2>4, RanksAreOrdered, Zenon
  <2>. QED
    BY <2>1, <2>3, <2>5, Zenon DEF Rising
<1>5. CASE p.segment # q.segment
  <2>1. i \in Nat /\ j \in Nat /\ p.n \in Nat /\ q.n \in Nat
    BY <1>1, <1>2, <1>3
  <2>2. RunOf(s, i) <= RunOf(s, j) /\ RunOf(s, i) \in Nat /\ RunOf(s, j) \in Nat
    BY <2>1, RunsRise
  <2>. HIDE DEF p, q
  <2>3. ~(q.n <= p.n)
    <3>1. SUFFICES ASSUME q.n <= p.n
                   PROVE  FALSE
      OBVIOUS
    <3>2. RunOf(s, q.n) <= RunOf(s, p.n)
      BY <2>1, <3>1, RunsRise
    <3>. QED
      BY <1>2, <1>3, <1>5, <2>2, <3>2
  <2>4. p.n < q.n
    BY <2>1, <2>3
  <2>. QED
    BY <1>5, <2>4 DEF p, q
<1>. QED
  BY <1>4, <1>5

LEMMA SegmentedKeeps ==
  ASSUME NEW s, Divided(s)
  PROVE  /\ Segmented(s) \in Seq(TrackPoint) /\ Len(Segmented(s)) = Len(s)
         /\ \A i \in DOMAIN s : Segmented(s)[i] = Placed(s, i)
<1>1. s \in Seq(TrackPoint) /\ DOMAIN s = 1..Len(s) /\ Len(s) \in Nat
  BY DEF Divided, Numbered
<1>2. Segmented(s) = [i \in 1..Len(s) |-> Placed(s, i)]
  BY <1>1 DEF Segmented
<1>3. \A i \in 1..Len(s) : Placed(s, i) \in TrackPoint
  BY <1>1, PlacedFrom
<1>. QED
  BY <1>1, <1>2, <1>3

-----------------------------------------------------------------------------
(***************************************************************************)
(* The chains up to Level 2.                                                *)
(***************************************************************************)

\* A track as it was recorded.
Recorded(s) ==
  /\ Numbered(s) /\ Len(s) > 0
  /\ \A i \in DOMAIN s : s[i].segment = 0

\* The points before SegmentedFilterChain.
Separated(s) == TimeGapSegmentation(PreCleanup(s))

LEMMA PreCleanupKeeps ==
  ASSUME NEW s, Recorded(s), NEW t, t = PreCleanup(s)
  PROVE  /\ Numbered(t) /\ Len(t) = Len(s)
         /\ \A i \in DOMAIN s : /\ t[i].at = s[i].at /\ t[i].place = s[i].place
                                /\ t[i].segment = 0
<1>1. s \in Seq(TrackPoint) /\ DOMAIN s = 1..Len(s) /\ Len(s) \in Nat
  BY DEF Recorded, Numbered
<1>2. Marks(s, t)
  BY <1>1, PreCleanupMarks
<1>3. t \in Seq(TrackPoint) /\ Len(t) = Len(s) /\ DOMAIN t = 1..Len(s)
  <2>1. t \in Seq(TrackPoint) /\ Len(t) = Len(s)
    BY <1>2, Zenon DEF Marks
  <2>. QED
    BY <2>1
<1>4. \A i \in 1..Len(s) : /\ t[i].at = s[i].at /\ t[i].place = s[i].place
                           /\ t[i].n = s[i].n /\ t[i].segment = s[i].segment
  BY <1>1, <1>2, Zenon DEF Marks
<1>5. Numbered(t)
  <2>1. \A i \in 1..Len(s) : t[i].n = i
    BY <1>1, <1>4, Zenon DEF Recorded, Numbered
  <2>2. \A i, j \in 1..Len(s) : i < j => t[i].at <= t[j].at
    BY <1>1, <1>4, Zenon DEF Recorded, Numbered
  <2>. QED
    BY <1>3, <2>1, <2>2, Zenon DEF Numbered
<1>. QED
  BY <1>1, <1>3, <1>4, <1>5, Zenon DEF Recorded

LEMMA SeparatedDivides ==
  ASSUME NEW s, Recorded(s), Len(s) > 1
  PROVE  /\ Divided(Separated(s)) /\ Len(Separated(s)) = Len(s)
         /\ \A i \in DOMAIN s : /\ Separated(s)[i].at = s[i].at
                                /\ Separated(s)[i].place = s[i].place
<1>. DEFINE t == PreCleanup(s)
<1>1. /\ Numbered(t) /\ Len(t) = Len(s)
      /\ \A i \in DOMAIN s : /\ t[i].at = s[i].at /\ t[i].place = s[i].place
                             /\ t[i].segment = 0
  BY PreCleanupKeeps
<1>. HIDE DEF t
<1>2. DOMAIN s = DOMAIN t
  BY <1>1 DEF Recorded, Numbered
<1>3. Len(t) > 1 /\ \A i \in DOMAIN t : t[i].segment = 0
  BY <1>1, <1>2
<1>4. /\ Divided(Separated(s)) /\ Len(Separated(s)) = Len(t)
      /\ \A i \in DOMAIN t : /\ Separated(s)[i].at = t[i].at
                             /\ Separated(s)[i].place = t[i].place
  BY <1>1, <1>3, TimeGapDivides, Zenon DEF Separated, t
<1>. QED
  BY <1>1, <1>2, <1>4, Zenon

-----------------------------------------------------------------------------
(***************************************************************************)
(* ActivitySegmentationFilter: its segments leave out no point that is not  *)
(* filtered.                                                               *)
(***************************************************************************)

LEMMA GreatestOf ==
  ASSUME NEW S, S \subseteq Nat, IsFiniteSet(S), S # {}
  PROVE  Greatest(S) \in S
<1>. DEFINE T == {n \in Nat : \E U \in SUBSET S : /\ U # {} /\ Cardinality(U) = n
                                                /\ ~\E x \in U : \A y \in U : x >= y}
<1>1. ASSUME T # {}
      PROVE  FALSE
  <2>1. T \subseteq Nat
    OBVIOUS
  <2>2. PICK n \in T : \A k \in T : n <= k
    BY <1>1, <2>1, LeastOf
  <2>3. PICK U \in SUBSET S : U # {} /\ Cardinality(U) = n /\ ~\E x \in U : \A y \in U : x >= y
    BY <2>2
  <2>4. PICK z \in U : TRUE
    BY <2>3
  <2>. DEFINE V == U \ {z}
  <2>5. IsFiniteSet(U) /\ IsFiniteSet(V) /\ V \in SUBSET S
    BY FS_Subset, Zenon
  <2>6. Cardinality(V) = n - 1 /\ Cardinality(V) \in Nat /\ n \in Nat
    BY <2>1, <2>2, <2>3, <2>4, <2>5, FS_RemoveElement, FS_CardinalityType
  <2>7. Cardinality(V) \notin T
    <3>. HIDE DEF T, V
    <3>. QED
      BY <2>2, <2>6
  <2>8. \A x \in S : x \in Nat
    OBVIOUS
  <2>9. CASE V = {}
    <3>1. \A y \in U : y = z
      BY <2>9
    <3>. QED
      BY <2>3, <2>4, <2>8, <3>1
  <2>10. CASE V # {}
    <3>1. \E x \in V : \A y \in V : x >= y
      <4>. HIDE DEF V
      <4>. QED
        BY <2>5, <2>6, <2>7, <2>10
    <3>2. PICK x \in V : \A y \in V : x >= y
      BY <3>1
    <3>3. x \in Nat /\ z \in Nat /\ x \in U
      BY <2>4, <2>8
    <3>4. \A y \in U : y \in V \/ y = z
      OBVIOUS
    <3>5. \A y \in U : y \in Nat
      BY <2>8
    <3>. HIDE DEF V
    <3>6. CASE x >= z
      BY <2>3, <3>2, <3>3, <3>4, <3>6, Zenon
    <3>7. CASE ~(x >= z)
      <4>1. \A y \in U : z >= y
        <5>. SUFFICES ASSUME NEW y \in U PROVE z >= y
          OBVIOUS
        <5>1. CASE y = z
          BY <3>3, <5>1
        <5>2. CASE y \in V
          <6>1. x >= y
            BY <3>2, <5>2
          <6>. QED
            BY <3>3, <3>5, <3>7, <6>1
        <5>. QED
          BY <3>4, <5>1, <5>2
      <4>. QED
        BY <2>3, <2>4, <4>1, Zenon
    <3>. QED
      BY <3>6, <3>7
  <2>. QED
    BY <2>9, <2>10
<1>2. Cardinality(S) \in Nat /\ Cardinality(S) \notin T
  BY <1>1, FS_CardinalityType
<1>3. \E x \in S : \A y \in S : x >= y
  <2>1. S \in SUBSET S
    OBVIOUS
  <2>. QED
    BY <1>2, <2>1, Zenon
<1>. QED
  BY <1>3, Zenon DEF Greatest

\* The segments of a track of N points.
Infos(N) ==
  {info \in [id : Nat, first : 1..N, last : 1..N, count : Nat, start : Nat, end : Nat] :
     info.first <= info.last}

LEMMA InfoFields ==
  ASSUME NEW N, NEW x \in Infos(N)
  PROVE  /\ x.id \in Nat /\ x.first \in 1..N /\ x.last \in 1..N /\ x.count \in Nat
         /\ x.start \in Nat /\ x.end \in Nat /\ x.first <= x.last
BY DEF Infos

\* One of the segments has i.
Has(list, i) == \E k \in DOMAIN list : list[k].first <= i /\ i <= list[k].last

\* The segments have all the points from a to b that are not filtered.
Spans(s, list, a, b) == \A i \in Unfiltered(s) : a <= i /\ i <= b => Has(list, i)

LEMMA InfoIsInfo ==
  ASSUME NEW s \in Seq(TrackPoint), NEW a \in DOMAIN s, NEW b \in DOMAIN s, a <= b, NEW id \in Nat,
         NEW info, info = Info(s, id, a, b)
  PROVE  /\ info \in Infos(Len(s)) /\ info.first = a /\ info.last = b
         /\ info.count = 0 => \A i \in Unfiltered(s) : ~(a <= i /\ i <= b)
<1>. DEFINE valid == Unfiltered(s) \cap a..b
            start == IF valid = {} THEN 0 ELSE s[Least(valid)].at
            end   == IF valid = {} THEN 0 ELSE s[Greatest(valid)].at
<1>1. DOMAIN s = 1..Len(s) /\ Len(s) \in Nat
  OBVIOUS
<1>2. valid \subseteq DOMAIN s /\ valid \subseteq Nat
  BY <1>1 DEF Unfiltered
<1>3. IsFiniteSet(valid) /\ Cardinality(valid) \in Nat
  <2>1. IsFiniteSet(a..b)
    BY <1>1, FS_Interval, SMT
  <2>2. valid \in SUBSET (a..b)
    OBVIOUS
  <2>. HIDE DEF valid
  <2>. QED
    BY <2>1, <2>2, FS_Subset, FS_CardinalityType, Zenon
<1>4. info = [id |-> id, first |-> a, last |-> b, count |-> Cardinality(valid),
                           start |-> start, end |-> end]
  BY Zenon DEF Info
<1>5. Cardinality(valid) = 0 => \A i \in Unfiltered(s) : ~(a <= i /\ i <= b)
  <2>1. Cardinality(valid) = 0 => valid = {}
    BY <1>3, FS_EmptySet, Zenon
  <2>2. \A i \in Unfiltered(s) : i \in Int /\ (a <= i /\ i <= b => i \in a..b)
    BY <1>1 DEF Unfiltered
  <2>. QED
    BY <2>1, <2>2, Zenon
<1>. HIDE DEF valid
<1>6. start \in Nat /\ end \in Nat
  <2>1. CASE valid = {}
    BY <2>1
  <2>2. CASE valid # {}
    <3>1. Least(valid) \in valid
      <4>1. \E x \in valid : \A y \in valid : x <= y
        BY <1>2, <2>2, LeastOf, Zenon
      <4>. QED
        BY <4>1, Zenon DEF Least
    <3>2. Greatest(valid) \in valid
      BY <1>2, <1>3, <2>2, GreatestOf, Zenon
    <3>3. \A i \in DOMAIN s : s[i].at \in Nat
      BY PointFields
    <3>4. s[Least(valid)].at \in Nat /\ s[Greatest(valid)].at \in Nat
      BY <1>2, <3>1, <3>2, <3>3, Zenon
    <3>. QED
      BY <2>2, <3>4, Zenon
  <2>. QED
    BY <2>1, <2>2
<1>. HIDE DEF start, end
<1>. QED
  BY <1>1, <1>3, <1>4, <1>5, <1>6 DEF Infos

\* Segments in the order of their points, and none of them ends after b.
InTurn(list, b) ==
  /\ \A k, l \in DOMAIN list : k < l => list[k].first <= list[l].first /\ list[k].last <= list[l].last
  /\ \A k \in DOMAIN list : list[k].first <= b /\ list[k].last <= b

LEMMA AddInfoCovers ==
  ASSUME NEW s \in Seq(TrackPoint), NEW a \in DOMAIN s, NEW from \in DOMAIN s, NEW b \in DOMAIN s,
         a <= from, from <= b, NEW id \in Nat,
         NEW list \in Seq(Infos(Len(s))), InTurn(list, from), Spans(s, list, a, from - 1),
         NEW info, info = Info(s, id, from, b), NEW new, new = AddInfo(list, info)
  PROVE  new \in Seq(Infos(Len(s))) /\ InTurn(new, b) /\ Spans(s, new, a, b)
<1>. DEFINE L == Len(list)
<1>1. /\ DOMAIN s = 1..Len(s) /\ Len(s) \in Nat /\ DOMAIN list = 1..L /\ L \in Nat
      /\ \A k \in 1..L : list[k] \in Infos(Len(s))
  OBVIOUS
<1>2. /\ info \in Infos(Len(s)) /\ info.first = from /\ info.last = b
      /\ info.count = 0 => \A i \in Unfiltered(s) : ~(from <= i /\ i <= b)
  BY InfoIsInfo
<1>3. info.count \in Nat
  BY <1>2, InfoFields
<1>4. \A k \in 1..L : /\ list[k].first \in Nat /\ list[k].last \in Nat
                       /\ list[k].first <= from /\ list[k].last <= from
  <2>. SUFFICES ASSUME NEW k \in 1..L
                PROVE  /\ list[k].first \in Nat /\ list[k].last \in Nat
                       /\ list[k].first <= from /\ list[k].last <= from
    OBVIOUS
  <2>1. list[k].first \in 1..Len(s) /\ list[k].last \in 1..Len(s)
    BY <1>1, InfoFields, Zenon
  <2>. QED
    BY <1>1, <2>1 DEF InTurn
<1>5. \A i \in Unfiltered(s) : i \in 1..Len(s)
  BY <1>1 DEF Unfiltered
<1>6. CASE info.count > 0
  <2>1. new = Append(list, info)
    BY <1>6 DEF AddInfo
  <2>2. new \in Seq(Infos(Len(s))) /\ Len(new) = L + 1 /\ DOMAIN new = 1..(L + 1)
    BY <1>1, <1>2, <2>1
  <2>3. (\A k \in 1..L : new[k] = list[k]) /\ new[L + 1] = info
    BY <1>1, <2>1
  <2>4. InTurn(new, b)
    <3>1. ASSUME NEW k \in 1..(L + 1), NEW l \in 1..(L + 1), k < l
          PROVE  new[k].first <= new[l].first /\ new[k].last <= new[l].last
      <4>1. k \in 1..L
        BY <1>1, <3>1
      <4>2. CASE l \in 1..L
        BY <1>1, <2>3, <3>1, <4>1, <4>2, Zenon DEF InTurn
      <4>3. CASE l = L + 1
        BY <1>1, <1>2, <1>4, <2>3, <4>1, <4>3
      <4>. QED
        BY <1>1, <4>2, <4>3
    <3>2. ASSUME NEW k \in 1..(L + 1)
          PROVE  new[k].first <= b /\ new[k].last <= b
      <4>1. CASE k \in 1..L
        BY <1>1, <1>4, <2>3, <4>1
      <4>2. CASE k = L + 1
        BY <1>1, <1>2, <2>3, <4>2
      <4>. QED
        BY <1>1, <4>1, <4>2
    <3>. QED
      BY <2>2, <3>1, <3>2, Zenon DEF InTurn
  <2>5. Spans(s, new, a, b)
    <3>. SUFFICES ASSUME NEW i \in Unfiltered(s), a <= i, i <= b
                  PROVE  Has(new, i)
      BY Zenon DEF Spans
    <3>1. CASE i <= from - 1
      <4>1. PICK k \in 1..L : list[k].first <= i /\ i <= list[k].last
        BY <1>1, <3>1, Zenon DEF Spans, Has
      <4>2. k \in 1..(L + 1)
        BY <1>1
      <4>. QED
        BY <2>2, <2>3, <4>1, <4>2, Zenon DEF Has
    <3>2. CASE from <= i
      <4>1. L + 1 \in 1..(L + 1)
        BY <1>1
      <4>. QED
        BY <1>2, <2>2, <2>3, <3>2, <4>1, Zenon DEF Has
    <3>. QED
      BY <1>1, <1>5, <3>1, <3>2
  <2>. QED
    BY <2>2, <2>4, <2>5
<1>7. CASE ~(info.count > 0)
  <2>1. new = list
    BY <1>7 DEF AddInfo
  <2>2. \A i \in Unfiltered(s) : ~(from <= i /\ i <= b)
    BY <1>2, <1>3, <1>7
  <2>3. InTurn(list, b)
    <3>1. \A k \in 1..L : list[k].first <= b /\ list[k].last <= b
      BY <1>1, <1>4
    <3>. QED
      BY <1>1, <3>1, Zenon DEF InTurn
  <2>4. Spans(s, list, a, b)
    <3>. SUFFICES ASSUME NEW i \in Unfiltered(s), a <= i, i <= b
                  PROVE  Has(list, i)
      BY Zenon DEF Spans
    <3>1. i <= from - 1
      BY <1>1, <1>5, <2>2
    <3>. QED
      BY <3>1, Zenon DEF Spans
  <2>. QED
    BY <2>1, <2>3, <2>4
<1>. QED
  BY <1>6, <1>7

\* segmentByActivity.
ActivityLoop(s, a, id, start, n) ==
  \E g : g = [k \in 0..n |-> IF k = 0 THEN start ELSE AtPoint(s, id, g[k - 1], a + k)]

LEMMA ActivityFrom ==
  ASSUME NEW s, NEW a, NEW id, NEW start, NEW n \in Nat
  PROVE  ActivityLoop(s, a, id, start, n)
<1>. DEFINE Is(g, m) == g = [k \in 0..m |-> IF k = 0 THEN start
                                            ELSE AtPoint(s, id, g[k - 1], a + k)]
            T == {m \in Nat : ~\E g : Is(g, m)}
<1>1. ASSUME T # {}
      PROVE  FALSE
  <2>1. PICK m \in T : \A k \in T : m <= k
    BY <1>1, LeastOf
  <2>2. m \in Nat /\ ~\E g : Is(g, m)
    OBVIOUS
  <2>3. m # 0
    <3>1. Is([k \in 0..0 |-> start], 0)
      OBVIOUS
    <3>. HIDE DEF Is
    <3>. QED
      BY <2>2, <3>1
  <2>4. m - 1 \in Nat /\ m - 1 \notin T
    <3>. HIDE DEF T
    <3>. QED
      BY <2>1, <2>2, <2>3
  <2>5. PICK g : Is(g, m - 1)
    BY <2>4
  <2>. DEFINE h == [k \in 0..m |-> IF k = 0 THEN start ELSE AtPoint(s, id, g[k - 1], a + k)]
  <2>6. ASSUME NEW k \in 0..m, k # 0
        PROVE  h[k - 1] = g[k - 1]
    <3>1. k - 1 \in 0..(m - 1) /\ k - 1 \in 0..m
      BY <2>2, <2>6
    <3>. QED
      BY <2>5, <3>1
  <2>7. h = [k \in 0..m |-> IF k = 0 THEN start ELSE AtPoint(s, id, h[k - 1], a + k)]
    <3>. HIDE DEF h
    <3>. QED
      BY <2>6 DEF h
  <2>8. Is(h, m)
    BY <2>7
  <2>. HIDE DEF Is, h
  <2>. QED
    BY <2>2, <2>8
<1>. QED
  BY <1>1, Zenon DEF ActivityLoop

\* What segmentByActivity has done with the points from a to i.
ActivityState(s, a, i, state) ==
  /\ state.from \in a..i /\ state.list \in Seq(Infos(Len(s)))
  /\ InTurn(state.list, state.from) /\ Spans(s, state.list, a, state.from - 1)

LEMMA ActivityStep ==
  ASSUME NEW s \in Seq(TrackPoint), NEW a \in DOMAIN s, NEW id \in Nat, NEW i \in DOMAIN s, a < i,
         NEW state, ActivityState(s, a, i - 1, state)
  PROVE  ActivityState(s, a, i, AtPoint(s, id, state, i))
<1>. DEFINE activity == ActivityWithHysteresis(s[i].speed, state.activity)
            info == Info(s, id + Len(state.list), state.from, i)
            list == AddInfo(state.list, info)
            new  == AtPoint(s, id, state, i)
<1>1. DOMAIN s = 1..Len(s) /\ Len(s) \in Nat
  OBVIOUS
<1>2. /\ state.from \in DOMAIN s /\ a <= state.from /\ state.from <= i /\ state.from \in a..i
      /\ state.list \in Seq(Infos(Len(s))) /\ id + Len(state.list) \in Nat
  BY <1>1 DEF ActivityState
<1>3. CASE activity = state.activity
  <2>1. new = state
    BY <1>3 DEF AtPoint
  <2>. QED
    BY <1>2, <2>1 DEF ActivityState
<1>4. CASE activity # state.activity
  <2>1. new = [activity |-> activity, from |-> i, list |-> list]
    BY <1>4 DEF AtPoint
  <2>2. list \in Seq(Infos(Len(s))) /\ InTurn(list, i) /\ Spans(s, list, a, i)
    <3>1. InTurn(state.list, state.from) /\ Spans(s, state.list, a, state.from - 1)
      BY DEF ActivityState
    <3>. QED
      BY <1>2, <3>1, AddInfoCovers
  <2>. HIDE DEF list, activity, new
  <2>3. new.from = i /\ new.list = list
    BY <2>1
  <2>4. Spans(s, list, a, i - 1)
    <3>1. \A x \in Unfiltered(s) : x <= i - 1 => x <= i
      BY <1>1 DEF Unfiltered
    <3>. QED
      BY <2>2, <3>1, Zenon DEF Spans
  <2>5. i \in a..i
    BY <1>1
  <2>6. ActivityState(s, a, i, new)
    BY <2>2, <2>3, <2>4, <2>5, Zenon DEF ActivityState
  <2>. QED
    BY <2>6 DEF new
<1>. QED
  BY <1>3, <1>4

LEMMA ByActivityCovers ==
  ASSUME NEW s \in Seq(TrackPoint), NEW a \in DOMAIN s, NEW b \in DOMAIN s, a <= b, NEW id \in Nat
  PROVE  /\ ByActivity(s, a, b, id) \in Seq(Infos(Len(s))) /\ InTurn(ByActivity(s, a, b, id), b)
         /\ Spans(s, ByActivity(s, a, b, id), a, b)
<1>. DEFINE start == [activity |-> Activity(s[a].speed), from |-> a, list |-> <<>>]
            state[k \in 0..(b - a)] == IF k = 0 THEN start ELSE AtPoint(s, id, state[k - 1], a + k)
            T == {k \in 0..(b - a) : ~ActivityState(s, a, a + k, state[k])}
<1>1. DOMAIN s = 1..Len(s) /\ Len(s) \in Nat /\ b - a \in Nat /\ a \in Nat /\ b \in Nat
  OBVIOUS
<1>2. ByActivity(s, a, b, id) =
        AddInfo(state[b - a].list, Info(s, id + Len(state[b - a].list), state[b - a].from, b))
  BY Zenon DEF ByActivity
<1>. HIDE DEF start
<1>3. state = [k \in 0..(b - a) |-> IF k = 0 THEN start ELSE AtPoint(s, id, state[k - 1], a + k)]
  <2>1. ActivityLoop(s, a, id, start, b - a)
    BY <1>1, ActivityFrom
  <2>. QED
    BY <2>1, Zenon DEF ActivityLoop
<1>. HIDE DEF state
<1>4. ActivityState(s, a, a, start)
  <2>1. start.from = a /\ start.list = <<>>
    BY DEF start
  <2>2. <<>> \in Seq(Infos(Len(s))) /\ InTurn(<<>>, a)
    BY DEF InTurn
  <2>3. Spans(s, <<>>, a, a - 1)
    <3>1. \A i \in Unfiltered(s) : ~(a <= i /\ i <= a - 1)
      BY <1>1 DEF Unfiltered
    <3>. QED
      BY <3>1, Zenon DEF Spans
  <2>4. a \in a..a
    BY <1>1
  <2>. QED
    BY <2>1, <2>2, <2>3, <2>4 DEF ActivityState
<1>5. ASSUME T # {}
      PROVE  FALSE
  <2>1. T \subseteq Nat
    OBVIOUS
  <2>2. PICK k \in T : \A m \in T : k <= m
    BY <1>5, <2>1, LeastOf
  <2>3. k \in 0..(b - a) /\ ~ActivityState(s, a, a + k, state[k])
    OBVIOUS
  <2>4. k # 0
    <3>1. state[0] = start
      BY <1>1, <1>3
    <3>2. a + 0 = a
      BY <1>1
    <3>. QED
      BY <1>4, <2>3, <3>1, <3>2
  <2>5. k - 1 \in 0..(b - a) /\ k - 1 \notin T
    <3>. HIDE DEF T
    <3>. QED
      BY <1>1, <2>2, <2>3, <2>4
  <2>6. ActivityState(s, a, a + (k - 1), state[k - 1])
    BY <2>5
  <2>7. state[k] = AtPoint(s, id, state[k - 1], a + k)
    BY <1>3, <2>3, <2>4
  <2>8. a + k \in DOMAIN s /\ a < a + k /\ a + (k - 1) = (a + k) - 1
    BY <1>1, <2>3, <2>4
  <2>. QED
    BY <2>3, <2>6, <2>7, <2>8, ActivityStep
<1>6. ActivityState(s, a, b, state[b - a])
  <2>1. b - a \in 0..(b - a) /\ a + (b - a) = b
    BY <1>1
  <2>2. ActivityState(s, a, a + (b - a), state[b - a])
    BY <1>5, <2>1
  <2>. QED
    BY <2>1, <2>2
<1>. DEFINE last == state[b - a]
<1>. HIDE DEF last
<1>7. ActivityState(s, a, b, last)
  BY <1>6 DEF last
<1>8. /\ last.from \in DOMAIN s /\ a <= last.from /\ last.from <= b
      /\ last.list \in Seq(Infos(Len(s))) /\ id + Len(last.list) \in Nat
      /\ InTurn(last.list, last.from) /\ Spans(s, last.list, a, last.from - 1)
  BY <1>1, <1>7 DEF ActivityState
<1>9. ByActivity(s, a, b, id) = AddInfo(last.list, Info(s, id + Len(last.list), last.from, b))
  BY <1>2 DEF last
<1>. QED
  BY <1>8, <1>9, AddInfoCovers

\* filterSmallSegments.
LEMMA SmallFrom ==
  ASSUME NEW list, NEW n \in Nat
  PROVE  \E g : g = [i \in 0..n |-> IF i = 0 THEN <<>> ELSE FilterStep(list, g[i - 1], i)]
<1>. DEFINE Is(g, m) == g = [i \in 0..m |-> IF i = 0 THEN <<>> ELSE FilterStep(list, g[i - 1], i)]
            T == {m \in Nat : ~\E g : Is(g, m)}
<1>1. ASSUME T # {}
      PROVE  FALSE
  <2>1. PICK m \in T : \A k \in T : m <= k
    BY <1>1, LeastOf
  <2>2. m \in Nat /\ ~\E g : Is(g, m)
    OBVIOUS
  <2>3. m # 0
    <3>1. Is([i \in 0..0 |-> <<>>], 0)
      OBVIOUS
    <3>. HIDE DEF Is
    <3>. QED
      BY <2>2, <3>1
  <2>4. m - 1 \in Nat /\ m - 1 \notin T
    <3>. HIDE DEF T
    <3>. QED
      BY <2>1, <2>2, <2>3
  <2>5. PICK g : Is(g, m - 1)
    BY <2>4
  <2>. DEFINE h == [i \in 0..m |-> IF i = 0 THEN <<>> ELSE FilterStep(list, g[i - 1], i)]
  <2>6. ASSUME NEW i \in 0..m, i # 0
        PROVE  h[i - 1] = g[i - 1]
    <3>1. i - 1 \in 0..(m - 1) /\ i - 1 \in 0..m
      BY <2>2, <2>6
    <3>. QED
      BY <2>5, <3>1
  <2>7. h = [i \in 0..m |-> IF i = 0 THEN <<>> ELSE FilterStep(list, h[i - 1], i)]
    <3>. HIDE DEF h
    <3>. QED
      BY <2>6 DEF h
  <2>8. Is(h, m)
    BY <2>7
  <2>. HIDE DEF Is, h
  <2>. QED
    BY <2>2, <2>8
<1>. QED
  BY <1>1

\* What filterSmallSegments has made of the first i segments.
Small(N, list, i, out) ==
  /\ out \in Seq(Infos(N))
  /\ \A k \in 1..i : \E m \in DOMAIN out : /\ out[m].first <= list[k].first
                                          /\ list[k].last <= out[m].last
  /\ \A k \in DOMAIN list : k > i =>
       \A m \in DOMAIN out : out[m].first <= list[k].first /\ out[m].last <= list[k].last

LEMMA MergedInfo ==
  ASSUME NEW N, NEW x \in Infos(N), NEW y \in Infos(N), x.first <= y.last, N \in Nat
  PROVE  /\ Merge(x, y) \in Infos(N)
         /\ Merge(x, y).first = x.first /\ Merge(x, y).last = y.last
<1>1. /\ x.id \in Nat /\ x.first \in 1..N /\ y.last \in 1..N
      /\ x.count \in Nat /\ y.count \in Nat /\ x.start \in Nat /\ y.end \in Nat
  BY InfoFields
<1>2. x.count + y.count \in Nat
  BY <1>1
<1>. QED
  BY <1>1, <1>2, SMT DEF Merge, Infos

LEMMA SmallStep ==
  ASSUME NEW N \in Nat, NEW list \in Seq(Infos(N)), InTurn(list, N), NEW i \in DOMAIN list,
         NEW out, Small(N, list, i - 1, out), NEW new, new = FilterStep(list, out, i)
  PROVE  Small(N, list, i, new)
<1>. DEFINE L == Len(list)
            M == Len(out)
<1>1. /\ DOMAIN list = 1..L /\ L \in Nat /\ i \in 1..L
      /\ out \in Seq(Infos(N)) /\ DOMAIN out = 1..M /\ M \in Nat
      /\ \A k \in 1..L : list[k] \in Infos(N)
      /\ \A m \in 1..M : out[m] \in Infos(N)
  BY DEF Small
<1>2. \A k \in 1..L : /\ list[k].first \in 1..N /\ list[k].last \in 1..N
                       /\ list[k].first <= list[k].last
  BY <1>1, InfoFields, Zenon
<1>3. \A m \in 1..M : out[m].first \in 1..N /\ out[m].last \in 1..N /\ out[m].first <= out[m].last
  BY <1>1, InfoFields, Zenon
<1>4. \A k, l \in 1..L : k < l => list[k].first <= list[l].first /\ list[k].last <= list[l].last
  BY <1>1, Zenon DEF InTurn
<1>5. \A k \in 1..(i - 1) : \E m \in 1..M : out[m].first <= list[k].first /\ list[k].last <= out[m].last
  BY <1>1, Zenon DEF Small
<1>6. \A k \in 1..L : k > i - 1 =>
        \A m \in 1..M : out[m].first <= list[k].first /\ out[m].last <= list[k].last
  BY <1>1, Zenon DEF Small
<1>7. CASE new = Append(out, list[i])
  <2>1. new \in Seq(Infos(N)) /\ DOMAIN new = 1..(M + 1)
    BY <1>1, <1>7
  <2>2. (\A m \in 1..M : new[m] = out[m]) /\ new[M + 1] = list[i]
    BY <1>1, <1>7
  <2>3. ASSUME NEW k \in 1..i
        PROVE  \E m \in 1..(M + 1) : new[m].first <= list[k].first /\ list[k].last <= new[m].last
    <3>1. CASE k \in 1..(i - 1)
      <4>1. PICK m \in 1..M : out[m].first <= list[k].first /\ list[k].last <= out[m].last
        BY <1>5, <3>1
      <4>2. m \in 1..(M + 1)
        BY <1>1
      <4>. QED
        BY <2>2, <4>1, <4>2, Zenon
    <3>2. CASE k = i
      <4>1. M + 1 \in 1..(M + 1) /\ list[i].first <= list[i].first /\ list[i].last <= list[i].last
        BY <1>1, <1>2
      <4>. QED
        BY <2>2, <3>2, <4>1, Zenon
    <3>. QED
      BY <1>1, <3>1, <3>2
  <2>4. ASSUME NEW k \in 1..L, k > i, NEW m \in 1..(M + 1)
        PROVE  new[m].first <= list[k].first /\ new[m].last <= list[k].last
    <3>1. CASE m \in 1..M
      BY <1>1, <1>6, <2>2, <2>4, <3>1
    <3>2. CASE m = M + 1
      BY <1>1, <1>4, <2>2, <2>4, <3>2
    <3>. QED
      BY <1>1, <3>1, <3>2
  <2>. QED
    BY <1>1, <2>1, <2>3, <2>4, Zenon DEF Small
<1>8. CASE out # <<>> /\ new = [out EXCEPT ![Len(out)] = Merge(@, list[i])]
  <2>1. M > 0 /\ M \in 1..M
    BY <1>1, <1>8
  <2>. DEFINE merged == Merge(out[M], list[i])
  <2>2. out[M].first <= list[i].last /\ out[M].last <= list[i].last /\ out[M].first <= list[i].first
    BY <1>1, <1>2, <1>3, <1>6, <2>1
  <2>3. merged \in Infos(N) /\ merged.first = out[M].first /\ merged.last = list[i].last
    BY <1>1, <2>1, <2>2, MergedInfo
  <2>. HIDE DEF merged
  <2>4. new \in Seq(Infos(N)) /\ DOMAIN new = 1..M /\ new[M] = merged
    BY <1>1, <1>8, <2>1, <2>3 DEF merged
  <2>5. \A m \in 1..M : m # M => new[m] = out[m]
    BY <1>1, <1>8, <2>1
  <2>6. ASSUME NEW k \in 1..i
        PROVE  \E m \in 1..M : new[m].first <= list[k].first /\ list[k].last <= new[m].last
    <3>1. CASE k \in 1..(i - 1)
      <4>1. PICK m \in 1..M : out[m].first <= list[k].first /\ list[k].last <= out[m].last
        BY <1>5, <3>1
      <4>2. CASE m = M
        <5>1. k \in 1..L /\ k < i
          BY <1>1, <3>1
        <5>2. list[k].last <= list[i].last
          BY <1>1, <1>4, <5>1
        <5>. QED
          BY <2>1, <2>3, <2>4, <4>1, <4>2, <5>2, Zenon
      <4>3. CASE m # M
        BY <2>5, <4>1, <4>3, Zenon
      <4>. QED
        BY <4>2, <4>3
    <3>2. CASE k = i
      <4>1. merged.first <= list[i].first /\ list[i].last <= merged.last
        BY <1>1, <1>2, <2>2, <2>3
      <4>. QED
        BY <2>1, <2>4, <3>2, <4>1, Zenon
    <3>. QED
      BY <1>1, <3>1, <3>2
  <2>7. ASSUME NEW k \in 1..L, k > i, NEW m \in 1..M
        PROVE  new[m].first <= list[k].first /\ new[m].last <= list[k].last
    <3>1. out[m].first <= list[k].first /\ out[m].last <= list[k].last
      BY <1>1, <1>6, <2>7
    <3>2. list[i].last <= list[k].last
      BY <1>1, <1>4, <2>7
    <3>3. CASE m = M
      BY <2>3, <2>4, <3>1, <3>2, <3>3
    <3>4. CASE m # M
      BY <2>5, <3>1, <3>4
    <3>. QED
      BY <3>3, <3>4
  <2>. QED
    BY <1>1, <2>4, <2>6, <2>7, Zenon DEF Small
<1>9. CASE out = <<>> /\ i < Len(list) /\ new = <<Merge(list[i], list[i + 1])>>
  <2>. DEFINE merged == Merge(list[i], list[i + 1])
  <2>1. i + 1 \in 1..L /\ i < i + 1 /\ M = 0
    BY <1>1, <1>9
  <2>2. list[i].first <= list[i + 1].first /\ list[i].last <= list[i + 1].last
    BY <1>1, <1>4, <2>1
  <2>3. list[i].first <= list[i + 1].last
    BY <1>1, <1>2, <2>1, <2>2
  <2>4. merged \in Infos(N) /\ merged.first = list[i].first /\ merged.last = list[i + 1].last
    BY <1>1, <2>1, <2>3, MergedInfo
  <2>. HIDE DEF merged
  <2>5. new = <<merged>>
    BY <1>9 DEF merged
  <2>6. new \in Seq(Infos(N)) /\ DOMAIN new = 1..1 /\ new[1] = merged
    BY <2>4, <2>5
  <2>7. \A k \in 1..(i - 1) : FALSE
    BY <1>1, <1>5, <2>1
  <2>8. i = 1
    BY <1>1, <2>7
  <2>9. ASSUME NEW k \in 1..i
        PROVE  \E m \in 1..1 : new[m].first <= list[k].first /\ list[k].last <= new[m].last
    <3>1. k = i
      BY <2>8
    <3>2. list[i].first <= list[i].first /\ 1 \in 1..1
      BY <1>1, <1>2
    <3>. QED
      BY <2>2, <2>4, <2>6, <3>1, <3>2, Zenon
  <2>10. ASSUME NEW k \in 1..L, k > i, NEW m \in 1..1
         PROVE  new[m].first <= list[k].first /\ new[m].last <= list[k].last
    <3>1. list[i].first <= list[k].first
      BY <1>1, <1>4, <2>10
    <3>2. list[i + 1].last <= list[k].last
      <4>1. CASE k = i + 1
        BY <1>2, <2>1, <4>1
      <4>2. CASE k > i + 1
        BY <1>1, <1>4, <2>1, <4>2
      <4>. QED
        BY <1>1, <2>10, <4>1, <4>2
    <3>3. m = 1
      OBVIOUS
    <3>. QED
      BY <2>4, <2>6, <3>1, <3>2, <3>3
  <2>. QED
    BY <1>1, <2>6, <2>9, <2>10, Zenon DEF Small
<1>10. CASE out = <<>> /\ new = <<list[i]>>
  <2>1. new = Append(out, list[i])
    BY <1>10
  <2>. QED
    BY <1>7, <2>1
<1>. QED
  BY <1>7, <1>8, <1>9, <1>10, Zenon DEF FilterStep

LEMMA FilterSmallKeeps ==
  ASSUME NEW N \in Nat, NEW list \in Seq(Infos(N)), InTurn(list, N)
  PROVE  /\ FilterSmall(list) \in Seq(Infos(N))
         /\ \A i : Has(list, i) /\ i \in Nat => Has(FilterSmall(list), i)
<1>. DEFINE out[i \in 0..Len(list)] == IF i = 0 THEN <<>> ELSE FilterStep(list, out[i - 1], i)
            T == {i \in 0..Len(list) : ~Small(N, list, i, out[i])}
<1>1. DOMAIN list = 1..Len(list) /\ Len(list) \in Nat
  OBVIOUS
<1>2. CASE Len(list) <= 1
  <2>1. FilterSmall(list) = list
    BY <1>2, Zenon DEF FilterSmall
  <2>. QED
    BY <2>1
<1>3. CASE ~(Len(list) <= 1)
  <2>1. out = [i \in 0..Len(list) |-> IF i = 0 THEN <<>> ELSE FilterStep(list, out[i - 1], i)]
    BY <1>1, SmallFrom
  <2>2. FilterSmall(list) = out[Len(list)]
    BY <1>1, <1>3 DEF FilterSmall
  <2>. HIDE DEF out
  <2>3. Small(N, list, 0, <<>>)
    <3>1. <<>> \in Seq(Infos(N)) /\ DOMAIN <<>> = {}
      OBVIOUS
    <3>2. \A k \in 1..0 : FALSE
      OBVIOUS
    <3>. QED
      BY <3>1, <3>2, Zenon DEF Small
  <2>4. ASSUME T # {}
        PROVE  FALSE
    <3>1. T \subseteq Nat
      OBVIOUS
    <3>2. PICK i \in T : \A k \in T : i <= k
      BY <2>4, <3>1, LeastOf
    <3>3. i \in 0..Len(list) /\ ~Small(N, list, i, out[i])
      OBVIOUS
    <3>4. i # 0
      <4>1. out[0] = <<>>
        BY <1>1, <2>1
      <4>. QED
        BY <2>3, <3>3, <4>1
    <3>5. i - 1 \in 0..Len(list) /\ i - 1 \notin T /\ i \in DOMAIN list
      <4>. HIDE DEF T
      <4>. QED
        BY <1>1, <3>2, <3>3, <3>4
    <3>6. Small(N, list, i - 1, out[i - 1])
      BY <3>5
    <3>7. out[i] = FilterStep(list, out[i - 1], i)
      BY <2>1, <3>3, <3>4
    <3>. QED
      BY <3>3, <3>5, <3>6, <3>7, SmallStep
  <2>. DEFINE r == out[Len(list)]
  <2>. HIDE DEF r
  <2>5. Small(N, list, Len(list), r)
    BY <1>1, <2>4 DEF r
  <2>6. r \in Seq(Infos(N)) /\ DOMAIN r = 1..Len(r) /\ Len(r) \in Nat
    BY <2>5 DEF Small
  <2>7. ASSUME NEW i \in Nat, Has(list, i)
        PROVE  Has(r, i)
    <3>1. PICK k \in 1..Len(list) : list[k].first <= i /\ i <= list[k].last
      BY <1>1, <2>7, Zenon DEF Has
    <3>2. PICK m \in DOMAIN r : r[m].first <= list[k].first /\ list[k].last <= r[m].last
      BY <2>5, Zenon DEF Small
    <3>3. list[k] \in Infos(N) /\ r[m] \in Infos(N)
      BY <2>6
    <3>4. /\ list[k].first \in 1..N /\ list[k].last \in 1..N
          /\ r[m].first \in 1..N /\ r[m].last \in 1..N
      BY <3>3, InfoFields, Zenon
    <3>5. r[m].first <= i /\ i <= r[m].last
      BY <3>1, <3>2, <3>4
    <3>. QED
      BY <3>5, Zenon DEF Has
  <2>. QED
    BY <2>2, <2>6, <2>7 DEF r
<1>. QED
  BY <1>2, <1>3

\* The segments of all the runs.
LEMMA TimesFrom ==
  ASSUME NEW s, NEW n \in Nat
  PROVE  \E g : g = [i \in 0..n |-> IF i = 0 THEN [from |-> 1, id |-> 1, all |-> <<>>]
                                    ELSE AtTime(s, g[i - 1], i)]
<1>. DEFINE Is(g, m) == g = [i \in 0..m |-> IF i = 0 THEN [from |-> 1, id |-> 1, all |-> <<>>]
                                            ELSE AtTime(s, g[i - 1], i)]
            T == {m \in Nat : ~\E g : Is(g, m)}
<1>1. ASSUME T # {}
      PROVE  FALSE
  <2>1. PICK m \in T : \A k \in T : m <= k
    BY <1>1, LeastOf
  <2>2. m \in Nat /\ ~\E g : Is(g, m)
    OBVIOUS
  <2>3. m # 0
    <3>1. Is([i \in 0..0 |-> [from |-> 1, id |-> 1, all |-> <<>>]], 0)
      OBVIOUS
    <3>. HIDE DEF Is
    <3>. QED
      BY <2>2, <3>1
  <2>4. m - 1 \in Nat /\ m - 1 \notin T
    <3>. HIDE DEF T
    <3>. QED
      BY <2>1, <2>2, <2>3
  <2>5. PICK g : Is(g, m - 1)
    BY <2>4
  <2>. DEFINE h == [i \in 0..m |-> IF i = 0 THEN [from |-> 1, id |-> 1, all |-> <<>>]
                                   ELSE AtTime(s, g[i - 1], i)]
  <2>6. ASSUME NEW i \in 0..m, i # 0
        PROVE  h[i - 1] = g[i - 1]
    <3>1. i - 1 \in 0..(m - 1) /\ i - 1 \in 0..m
      BY <2>2, <2>6
    <3>. QED
      BY <2>5, <3>1
  <2>7. h = [i \in 0..m |-> IF i = 0 THEN [from |-> 1, id |-> 1, all |-> <<>>]
                            ELSE AtTime(s, h[i - 1], i)]
    <3>. HIDE DEF h
    <3>. QED
      BY <2>6 DEF h
  <2>8. Is(h, m)
    BY <2>7
  <2>. HIDE DEF Is, h
  <2>. QED
    BY <2>2, <2>8
<1>. QED
  BY <1>1

\* What has been done with the first i points.
TimeState(s, i, state) ==
  /\ state.from \in 1..(i + 1) /\ state.id \in Nat /\ state.all \in Seq(Infos(Len(s)))
  /\ Spans(s, state.all, 1, state.from - 1)

LEMMA HasConcat ==
  ASSUME NEW N, NEW x \in Seq(Infos(N)), NEW y \in Seq(Infos(N)), NEW i, Has(x, i) \/ Has(y, i)
  PROVE  Has(x \o y, i)
<1>1. /\ Len(x \o y) = Len(x) + Len(y) /\ x \o y \in Seq(Infos(N))
      /\ DOMAIN x = 1..Len(x) /\ DOMAIN y = 1..Len(y) /\ Len(x) \in Nat /\ Len(y) \in Nat
      /\ DOMAIN (x \o y) = 1..(Len(x) + Len(y))
  OBVIOUS
<1>2. ASSUME NEW k \in 1..Len(x), x[k].first <= i, i <= x[k].last
      PROVE  Has(x \o y, i)
  <2>1. k \in 1..(Len(x) + Len(y)) /\ (x \o y)[k] = x[k]
    BY <1>1
  <2>. QED
    BY <1>1, <1>2, <2>1, Zenon DEF Has
<1>3. ASSUME NEW k \in 1..Len(y), y[k].first <= i, i <= y[k].last
      PROVE  Has(x \o y, i)
  <2>1. Len(x) + k \in 1..(Len(x) + Len(y)) /\ (x \o y)[Len(x) + k] = y[k]
    BY <1>1
  <2>. QED
    BY <1>1, <1>3, <2>1, Zenon DEF Has
<1>. QED
  BY <1>1, <1>2, <1>3, Zenon DEF Has

LEMMA TimeStep ==
  ASSUME NEW s \in Seq(TrackPoint), NEW i \in DOMAIN s, NEW state, TimeState(s, i - 1, state),
         NEW new, new = AtTime(s, state, i)
  PROVE  /\ TimeState(s, i, new)
         /\ i = Len(s) => new.from = i + 1
<1>. DEFINE list == ByActivity(s, state.from, i, state.id)
            all  == state.all \o FilterSmall(list)
<1>1. DOMAIN s = 1..Len(s) /\ Len(s) \in Nat
  OBVIOUS
<1>2. /\ state.from \in DOMAIN s /\ state.from <= i /\ state.id \in Nat
      /\ state.all \in Seq(Infos(Len(s))) /\ Spans(s, state.all, 1, state.from - 1)
  BY <1>1 DEF TimeState
<1>3. new = IF ~TimeEnds(s, i) THEN state
            ELSE [from |-> i + 1, id |-> state.id + Len(list), all |-> all]
  BY Zenon DEF AtTime
<1>4. CASE ~TimeEnds(s, i)
  <2>1. new = state
    BY <1>3, <1>4
  <2>2. i # Len(s)
    BY <1>4 DEF TimeEnds
  <2>3. state.from \in 1..(i + 1)
    BY <1>1, <1>2
  <2>. QED
    BY <1>2, <2>1, <2>2, <2>3 DEF TimeState
<1>5. CASE TimeEnds(s, i)
  <2>1. list \in Seq(Infos(Len(s))) /\ InTurn(list, i) /\ Spans(s, list, state.from, i)
    BY <1>2, ByActivityCovers
  <2>2. InTurn(list, Len(s))
    <3>. HIDE DEF list
    <3>1. \A k \in DOMAIN list : list[k].first \in 1..Len(s) /\ list[k].last \in 1..Len(s)
      <4>1. \A k \in DOMAIN list : list[k] \in Infos(Len(s))
        BY <2>1
      <4>. QED
        BY <4>1, InfoFields, Zenon
    <3>2. \A k \in DOMAIN list : list[k].first <= Len(s) /\ list[k].last <= Len(s)
      BY <1>1, <3>1
    <3>. QED
      BY <2>1, <3>2, Zenon DEF InTurn
  <2>. HIDE DEF list
  <2>3. /\ FilterSmall(list) \in Seq(Infos(Len(s)))
        /\ \A x \in Nat : Has(list, x) => Has(FilterSmall(list), x)
    BY <1>1, <2>1, <2>2, FilterSmallKeeps, Zenon
  <2>4. all \in Seq(Infos(Len(s)))
    BY <1>2, <2>3
  <2>5. Spans(s, all, 1, i)
    <3>. SUFFICES ASSUME NEW x \in Unfiltered(s), 1 <= x, x <= i
                  PROVE  Has(all, x)
      BY Zenon DEF Spans
    <3>1. x \in Nat
      BY <1>1 DEF Unfiltered
    <3>2. CASE x <= state.from - 1
      <4>1. Has(state.all, x)
        BY <1>2, <3>2, Zenon DEF Spans
      <4>. QED
        BY <1>2, <2>3, <4>1, HasConcat
    <3>3. CASE state.from <= x
      <4>1. Has(list, x)
        BY <2>1, <3>3, Zenon DEF Spans
      <4>2. Has(FilterSmall(list), x)
        BY <2>3, <3>1, <4>1, Zenon
      <4>. QED
        BY <1>2, <2>3, <4>2, HasConcat
    <3>. QED
      BY <1>1, <1>2, <3>1, <3>2, <3>3
  <2>. HIDE DEF all
  <2>6. new = [from |-> i + 1, id |-> state.id + Len(list), all |-> all]
    BY <1>3, <1>5
  <2>7. new.from = i + 1 /\ new.id = state.id + Len(list) /\ new.all = all
    BY <2>6
  <2>8. state.id + Len(list) \in Nat /\ i + 1 \in 1..(i + 1) /\ (i + 1) - 1 = i
    BY <1>1, <1>2, <2>1
  <2>. QED
    BY <2>4, <2>5, <2>7, <2>8 DEF TimeState
<1>. QED
  BY <1>4, <1>5

LEMMA ActivitySegmentsCover ==
  ASSUME NEW s \in Seq(TrackPoint), Len(s) > 0
  PROVE  /\ ActivitySegments(s) \in Seq(Infos(Len(s)))
         /\ \A i \in Unfiltered(s) : Has(ActivitySegments(s), i)
<1>. DEFINE state[i \in 0..Len(s)] == IF i = 0 THEN [from |-> 1, id |-> 1, all |-> <<>>]
                                     ELSE AtTime(s, state[i - 1], i)
            T == {i \in 0..Len(s) : ~TimeState(s, i, state[i])}
<1>1. DOMAIN s = 1..Len(s) /\ Len(s) \in Nat
  OBVIOUS
<1>2. state = [i \in 0..Len(s) |-> IF i = 0 THEN [from |-> 1, id |-> 1, all |-> <<>>]
                                  ELSE AtTime(s, state[i - 1], i)]
  BY <1>1, TimesFrom
<1>3. ActivitySegments(s) = state[Len(s)].all
  BY DEF ActivitySegments
<1>. HIDE DEF state
<1>4. TimeState(s, 0, state[0])
  <2>. DEFINE start == [from |-> 1, id |-> 1, all |-> <<>>]
  <2>1. state[0] = start
    BY <1>1, <1>2
  <2>2. start.from = 1 /\ start.id = 1 /\ start.all = <<>>
    OBVIOUS
  <2>. HIDE DEF start
  <2>3. <<>> \in Seq(Infos(Len(s)))
    OBVIOUS
  <2>4. Spans(s, <<>>, 1, 1 - 1)
    <3>1. \A x \in Unfiltered(s) : ~(1 <= x /\ x <= 1 - 1)
      BY <1>1 DEF Unfiltered
    <3>. QED
      BY <3>1, Zenon DEF Spans
  <2>. QED
    BY <2>1, <2>2, <2>3, <2>4 DEF TimeState
<1>5. ASSUME NEW i \in 1..Len(s), TimeState(s, i - 1, state[i - 1])
      PROVE  TimeState(s, i, state[i]) /\ (i = Len(s) => state[i].from = i + 1)
  <2>1. state[i] = AtTime(s, state[i - 1], i)
    BY <1>1, <1>2
  <2>. QED
    BY <1>1, <1>5, <2>1, TimeStep
<1>6. ASSUME T # {}
      PROVE  FALSE
  <2>1. T \subseteq Nat
    OBVIOUS
  <2>2. PICK i \in T : \A k \in T : i <= k
    BY <1>6, <2>1, LeastOf
  <2>3. i \in 0..Len(s) /\ ~TimeState(s, i, state[i])
    OBVIOUS
  <2>4. i # 0
    BY <1>4, <2>3
  <2>5. i - 1 \in 0..Len(s) /\ i - 1 \notin T /\ i \in 1..Len(s)
    <3>. HIDE DEF T
    <3>. QED
      BY <1>1, <2>2, <2>3, <2>4
  <2>6. TimeState(s, i - 1, state[i - 1])
    BY <2>5
  <2>. QED
    BY <1>5, <2>3, <2>5, <2>6
<1>. DEFINE last == state[Len(s)]
<1>7. TimeState(s, Len(s), last) /\ last.from = Len(s) + 1
  <2>1. Len(s) \in 0..Len(s) /\ Len(s) - 1 \in 0..Len(s) /\ Len(s) \in 1..Len(s)
    BY <1>1
  <2>2. TimeState(s, Len(s), last) /\ TimeState(s, Len(s) - 1, state[Len(s) - 1])
    BY <1>6, <2>1
  <2>. QED
    BY <1>5, <2>1, <2>2
<1>. HIDE DEF last
<1>8. last.all \in Seq(Infos(Len(s))) /\ Spans(s, last.all, 1, last.from - 1)
  BY <1>7 DEF TimeState
<1>9. ASSUME NEW i \in Unfiltered(s)
      PROVE  Has(last.all, i)
  <2>1. 1 <= i /\ i <= last.from - 1
    BY <1>1, <1>7 DEF Unfiltered
  <2>. QED
    BY <1>8, <2>1, Zenon DEF Spans
<1>. QED
  BY <1>3, <1>8, <1>9 DEF last

\* r has only points of s, maybe in other segments; and it has the one at i.
Copies(s, r) ==
  /\ r \in Seq(TrackPoint)
  /\ \A k \in DOMAIN r : \E j \in DOMAIN s : r[k].n = s[j].n /\ r[k].filtered = s[j].filtered
Shows(s, r, i) == \E k \in DOMAIN r : r[k].n = s[i].n /\ r[k].filtered = s[i].filtered

LEMMA BelongingCopies ==
  ASSUME NEW p \in TrackPoint, NEW id \in Nat, NEW q, q = Belonging(p, id)
  PROVE  q \in TrackPoint /\ q.n = p.n /\ q.filtered = p.filtered
BY DEF Belonging, TrackPoint

\* The points at the indices of I, as those of one segment.
LEMMA SelectCopies ==
  ASSUME NEW s \in Seq(TrackPoint), NEW I \in SUBSET (1..Len(s)), NEW id \in Nat,
         NEW r, r = [j \in 1..Cardinality(I) |-> Belonging(Select(s, I)[j], id)]
  PROVE  Copies(s, r) /\ \A i \in I : Shows(s, r, i)
<1>. DEFINE C == Cardinality(I)
            A(k) == Ascending(I)[k]
<1>1. DOMAIN s = 1..Len(s) /\ Len(s) \in Nat
  OBVIOUS
<1>2. C \in Nat /\ \A i \in I : Rank(I, i) \in 1..C
  BY <1>1, RanksAreOrdered
<1>3. \A k \in 1..C : A(k) \in I
  BY <1>1, AscendingOrder, Zenon
<1>4. \A i \in I : A(Rank(I, i)) = i
  BY <1>1, AscendingOrder, Zenon
<1>5. Select(s, I) = [k \in 1..C |-> s[A(k)]]
  BY DEF Select
<1>. HIDE DEF C, A
<1>6. r = [k \in 1..C |-> Belonging(s[A(k)], id)]
  BY <1>5 DEF C
<1>7. ASSUME NEW k \in 1..C
      PROVE  /\ A(k) \in DOMAIN s
             /\ r[k] \in TrackPoint /\ r[k].n = s[A(k)].n /\ r[k].filtered = s[A(k)].filtered
  <2>1. A(k) \in 1..Len(s)
    BY <1>3
  <2>2. A(k) \in DOMAIN s /\ s[A(k)] \in TrackPoint
    BY <1>1, <2>1
  <2>3. r[k] = Belonging(s[A(k)], id)
    BY <1>6
  <2>. QED
    BY <2>3, <2>2, BelongingCopies
<1>8. r \in Seq(TrackPoint) /\ DOMAIN r = 1..C
  <2>1. r = [k \in 1..C |-> r[k]]
    BY <1>6
  <2>2. \A k \in 1..C : r[k] \in TrackPoint
    BY <1>7
  <2>3. r \in [1..C -> TrackPoint]
    BY <2>1, <2>2, Zenon
  <2>4. DOMAIN r = 1..C
    BY <2>3, Zenon
  <2>5. [1..C -> TrackPoint] \subseteq Seq(TrackPoint)
    BY <1>2, SeqDef, Zenon
  <2>. QED
    BY <2>3, <2>4, <2>5, Zenon
<1>9. Copies(s, r)
  BY <1>7, <1>8, Zenon DEF Copies
<1>10. \A i \in I : Shows(s, r, i)
  BY <1>2, <1>4, <1>7, <1>8, Zenon DEF Shows, C
<1>. QED
  BY <1>9, <1>10

LEMMA CopiesConcat ==
  ASSUME NEW s, NEW x, Copies(s, x), NEW y, Copies(s, y), NEW z, z = x \o y
  PROVE  Copies(s, z) /\ \A i : Shows(s, x, i) \/ Shows(s, y, i) => Shows(s, z, i)
<1>1. /\ x \in Seq(TrackPoint) /\ y \in Seq(TrackPoint)
      /\ DOMAIN x = 1..Len(x) /\ DOMAIN y = 1..Len(y) /\ Len(x) \in Nat /\ Len(y) \in Nat
  BY DEF Copies
<1>2. z \in Seq(TrackPoint) /\ DOMAIN z = 1..(Len(x) + Len(y))
  BY <1>1
<1>3. ASSUME NEW k \in 1..Len(x)
      PROVE  k \in DOMAIN z /\ z[k] = x[k]
  BY <1>1, <1>2
<1>4. ASSUME NEW k \in 1..Len(y)
      PROVE  Len(x) + k \in DOMAIN z /\ z[Len(x) + k] = y[k]
  BY <1>1, <1>2
<1>5. ASSUME NEW k \in DOMAIN z
      PROVE  \E j \in DOMAIN s : z[k].n = s[j].n /\ z[k].filtered = s[j].filtered
  <2>1. CASE k \in 1..Len(x)
    <3>1. z[k] = x[k] /\ k \in DOMAIN x
      BY <1>1, <1>3, <2>1, SMT
    <3>2. PICK j \in DOMAIN s : x[k].n = s[j].n /\ x[k].filtered = s[j].filtered
      BY <3>1, Zenon DEF Copies
    <3>. QED
      BY <3>1, <3>2, Zenon
  <2>2. CASE k \notin 1..Len(x)
    <3>1. k - Len(x) \in 1..Len(y) /\ Len(x) + (k - Len(x)) = k
      BY <1>1, <1>2, <2>2
    <3>2. PICK m \in 1..Len(y) : Len(x) + m = k
      BY <3>1
    <3>3. z[k] = y[m] /\ m \in DOMAIN y
      BY <1>1, <1>4, <3>2
    <3>4. PICK j \in DOMAIN s : y[m].n = s[j].n /\ y[m].filtered = s[j].filtered
      BY <3>3, Zenon DEF Copies
    <3>. QED
      BY <3>3, <3>4, Zenon
  <2>. QED
    BY <2>1, <2>2
<1>6. Copies(s, z)
  BY <1>2, <1>5, Zenon DEF Copies
<1>7. ASSUME NEW i, Shows(s, x, i)
      PROVE  Shows(s, z, i)
  BY <1>1, <1>3, <1>7, Zenon DEF Shows
<1>8. ASSUME NEW i, Shows(s, y, i)
      PROVE  Shows(s, z, i)
  BY <1>1, <1>4, <1>8, Zenon DEF Shows
<1>. QED
  BY <1>6, <1>7, <1>8

LEMMA PieceCopies ==
  ASSUME NEW s \in Seq(TrackPoint), NEW list \in Seq(Infos(Len(s))), NEW k \in DOMAIN list,
         NEW p, p = Piece(s, list, k)
  PROVE  /\ Copies(s, p)
         /\ \A i \in (list[k].first..list[k].last) \ Covers(list, k - 1) : Shows(s, p, i)
<1>. DEFINE fresh == (list[k].first..list[k].last) \ Covers(list, k - 1)
            x == [j \in 1..Cardinality(fresh) |-> Belonging(Select(s, fresh)[j], list[k].id)]
            next == Belonging(s[list[k + 1].first], list[k + 1].id)
            y == IF k = Len(list) THEN <<>> ELSE <<next>>
<1>1. DOMAIN s = 1..Len(s) /\ Len(s) \in Nat /\ DOMAIN list = 1..Len(list) /\ Len(list) \in Nat
  OBVIOUS
<1>2. \A m \in DOMAIN list : list[m] \in Infos(Len(s))
  BY <1>1
<1>3. \A m \in DOMAIN list : /\ list[m].first \in 1..Len(s) /\ list[m].last \in 1..Len(s)
                              /\ list[m].id \in Nat
  BY <1>2, InfoFields, Zenon
<1>4. fresh \in SUBSET (1..Len(s))
  BY <1>3
<1>5. p = x \o y
  BY DEF Piece
<1>. HIDE DEF fresh
<1>6. Copies(s, x) /\ \A i \in fresh : Shows(s, x, i)
  BY <1>3, <1>4, SelectCopies
<1>7. Copies(s, y)
  <2>1. CASE k = Len(list)
    <3>1. y = <<>>
      BY <2>1
    <3>2. <<>> \in Seq(TrackPoint) /\ DOMAIN <<>> = {}
      OBVIOUS
    <3>. HIDE DEF y
    <3>. QED
      BY <3>1, <3>2, Zenon DEF Copies
  <2>2. CASE k # Len(list)
    <3>1. k + 1 \in DOMAIN list
      BY <1>1, <2>2
    <3>. DEFINE m == list[k + 1].first
    <3>2. m \in DOMAIN s /\ s[m] \in TrackPoint /\ list[k + 1].id \in Nat
      BY <1>1, <1>3, <3>1
    <3>3. next \in TrackPoint /\ next.n = s[m].n /\ next.filtered = s[m].filtered
      BY <3>2, BelongingCopies
    <3>4. y = <<next>>
      BY <2>2
    <3>. HIDE DEF next, m, y
    <3>5. y \in Seq(TrackPoint) /\ \A j \in DOMAIN y : y[j] = next
      BY <3>3, <3>4
    <3>. QED
      BY <3>2, <3>3, <3>5, Zenon DEF Copies
  <2>. QED
    BY <2>1, <2>2
<1>. HIDE DEF x, y
<1>8. Copies(s, p) /\ \A i : Shows(s, x, i) \/ Shows(s, y, i) => Shows(s, p, i)
  BY <1>5, <1>6, <1>7, CopiesConcat
<1>. QED
  BY <1>6, <1>8 DEF fresh

\* createContinuousPoints after k segments.
Continued(s, list, k, r) == Copies(s, r) /\ \A i \in Covers(list, k) : Shows(s, r, i)

LEMMA ContinuedStep ==
  ASSUME NEW s \in Seq(TrackPoint), NEW list \in Seq(Infos(Len(s))), NEW k \in DOMAIN list,
         NEW r, Continued(s, list, k - 1, r), NEW new, new = r \o Piece(s, list, k)
  PROVE  Continued(s, list, k, new)
<1>. DEFINE p == Piece(s, list, k)
<1>1. /\ Copies(s, p)
      /\ \A i \in (list[k].first..list[k].last) \ Covers(list, k - 1) : Shows(s, p, i)
  BY PieceCopies
<1>2. Copies(s, r) /\ \A i \in Covers(list, k - 1) : Shows(s, r, i)
  BY DEF Continued
<1>. HIDE DEF p
<1>3. Copies(s, new) /\ \A i : Shows(s, r, i) \/ Shows(s, p, i) => Shows(s, new, i)
  BY <1>1, <1>2, CopiesConcat DEF p
<1>4. ASSUME NEW i \in Covers(list, k)
      PROVE  i \in Covers(list, k - 1) \/ i \in list[k].first..list[k].last
  <2>1. PICK j \in 1..k : i \in list[j].first..list[j].last
    BY DEF Covers
  <2>2. CASE j = k
    BY <2>1, <2>2
  <2>3. CASE j # k
    <3>1. j \in 1..(k - 1)
      BY <2>3
    <3>. QED
      BY <2>1, <3>1, Zenon DEF Covers
  <2>. QED
    BY <2>2, <2>3
<1>5. \A i \in Covers(list, k) : Shows(s, new, i)
  BY <1>1, <1>2, <1>3, <1>4, Zenon
<1>. QED
  BY <1>3, <1>5, Zenon DEF Continued

\* The loop of createContinuousPoints.
ContinuousLoop(s, list, n) ==
  \E g : g = [k \in 0..n |-> IF k = 0 THEN <<>> ELSE g[k - 1] \o Piece(s, list, k)]

LEMMA ContinuousFrom ==
  ASSUME NEW s, NEW list, NEW n \in Nat
  PROVE  ContinuousLoop(s, list, n)
<1>. DEFINE Is(g, m) == g = [k \in 0..m |-> IF k = 0 THEN <<>> ELSE g[k - 1] \o Piece(s, list, k)]
            T == {m \in Nat : ~\E g : Is(g, m)}
<1>1. ASSUME T # {}
      PROVE  FALSE
  <2>1. PICK m \in T : \A k \in T : m <= k
    BY <1>1, LeastOf
  <2>2. m \in Nat /\ ~\E g : Is(g, m)
    OBVIOUS
  <2>3. m # 0
    <3>1. Is([k \in 0..0 |-> <<>>], 0)
      OBVIOUS
    <3>. HIDE DEF Is
    <3>. QED
      BY <2>2, <3>1
  <2>4. m - 1 \in Nat /\ m - 1 \notin T
    <3>. HIDE DEF T
    <3>. QED
      BY <2>1, <2>2, <2>3
  <2>5. PICK g : Is(g, m - 1)
    BY <2>4
  <2>. DEFINE h == [k \in 0..m |-> IF k = 0 THEN <<>> ELSE g[k - 1] \o Piece(s, list, k)]
  <2>6. ASSUME NEW k \in 0..m, k # 0
        PROVE  h[k - 1] = g[k - 1]
    <3>1. k - 1 \in 0..(m - 1) /\ k - 1 \in 0..m
      BY <2>2, <2>6
    <3>. QED
      BY <2>5, <3>1
  <2>7. h = [k \in 0..m |-> IF k = 0 THEN <<>> ELSE h[k - 1] \o Piece(s, list, k)]
    <3>. HIDE DEF h
    <3>. QED
      BY <2>6 DEF h
  <2>8. Is(h, m)
    BY <2>7
  <2>. HIDE DEF Is, h
  <2>. QED
    BY <2>2, <2>8
<1>. QED
  BY <1>1, Zenon DEF ContinuousLoop

\* createContinuousPoints adds copies, and loses no point that is in a segment.
LEMMA ContinuousKeeps ==
  ASSUME NEW s \in Seq(TrackPoint), Len(s) > 0, NEW list \in Seq(Infos(Len(s))),
         NEW r, r = Continuous(s, list)
  PROVE  /\ Copies(s, r) /\ r # <<>>
         /\ \A i \in DOMAIN s : Has(list, i) => Shows(s, r, i)
<1>. DEFINE out[k \in 0..Len(list)] == IF k = 0 THEN <<>> ELSE out[k - 1] \o Piece(s, list, k)
            T == {k \in 0..Len(list) : ~Continued(s, list, k, out[k])}
<1>1. DOMAIN s = 1..Len(s) /\ Len(s) \in Nat /\ DOMAIN list = 1..Len(list) /\ Len(list) \in Nat
  OBVIOUS
<1>2. CASE Len(list) <= 1
  <2>1. r = s
    BY <1>2, Zenon DEF Continuous
  <2>2. Copies(s, s) /\ \A i \in DOMAIN s : Shows(s, s, i)
    BY Zenon DEF Copies, Shows
  <2>. QED
    BY <2>1, <2>2
<1>3. CASE ~(Len(list) <= 1)
  <2>1. out = [k \in 0..Len(list) |-> IF k = 0 THEN <<>> ELSE out[k - 1] \o Piece(s, list, k)]
    <3>1. ContinuousLoop(s, list, Len(list))
      BY <1>1, ContinuousFrom
    <3>. QED
      BY <3>1 DEF ContinuousLoop
  <2>2. r = out[Len(list)]
    BY <1>1, <1>3 DEF Continuous
  <2>. HIDE DEF out
  <2>3. Continued(s, list, 0, <<>>)
    <3>1. <<>> \in Seq(TrackPoint) /\ DOMAIN <<>> = {}
      OBVIOUS
    <3>2. Covers(list, 0) = {}
      BY DEF Covers
    <3>. QED
      BY <3>1, <3>2, Zenon DEF Continued, Copies
  <2>4. ASSUME T # {}
        PROVE  FALSE
    <3>1. T \subseteq Nat
      OBVIOUS
    <3>2. PICK k \in T : \A j \in T : k <= j
      BY <2>4, <3>1, LeastOf
    <3>3. k \in 0..Len(list) /\ ~Continued(s, list, k, out[k])
      OBVIOUS
    <3>4. k # 0
      <4>1. out[0] = <<>>
        BY <1>1, <2>1
      <4>. QED
        BY <2>3, <3>3, <4>1
    <3>5. k - 1 \in 0..Len(list) /\ k - 1 \notin T /\ k \in DOMAIN list
      <4>. HIDE DEF T
      <4>. QED
        BY <1>1, <3>2, <3>3, <3>4
    <3>6. Continued(s, list, k - 1, out[k - 1])
      BY <3>5
    <3>7. out[k] = out[k - 1] \o Piece(s, list, k)
      BY <2>1, <3>3, <3>4
    <3>. QED
      BY <3>3, <3>5, <3>6, <3>7, ContinuedStep
  <2>5. Continued(s, list, Len(list), r)
    BY <1>1, <2>2, <2>4
  <2>6. \A m \in DOMAIN list : /\ list[m].first \in 1..Len(s) /\ list[m].last \in 1..Len(s)
                                /\ list[m].first <= list[m].last
    <3>1. \A m \in DOMAIN list : list[m] \in Infos(Len(s))
      BY <1>1
    <3>. QED
      BY <3>1, InfoFields, Zenon
  <2>7. ASSUME NEW i \in DOMAIN s, Has(list, i)
        PROVE  Shows(s, r, i)
    <3>1. PICK k \in DOMAIN list : list[k].first <= i /\ i <= list[k].last
      BY <2>7, Zenon DEF Has
    <3>2. list[k].first \in 1..Len(s) /\ list[k].last \in 1..Len(s)
      BY <2>6
    <3>3. i \in list[k].first..list[k].last
      BY <1>1, <3>1, <3>2
    <3>4. i \in Covers(list, Len(list))
      BY <1>1, <3>3, Zenon DEF Covers
    <3>. QED
      BY <2>5, <3>4, Zenon DEF Continued
  <2>8. r # <<>>
    <3>1. 1 \in DOMAIN list
      BY <1>1, <1>3
    <3>2. list[1].first \in DOMAIN s /\ Has(list, list[1].first)
      <4>1. list[1].first \in 1..Len(s) /\ list[1].first <= list[1].last
        BY <2>6, <3>1
      <4>2. list[1].first <= list[1].first
        BY <1>1, <4>1
      <4>. QED
        BY <1>1, <3>1, <4>1, <4>2, Zenon DEF Has
    <3>3. PICK k \in DOMAIN r : TRUE
      BY <2>7, <3>2, Zenon DEF Shows
    <3>. QED
      BY <3>3
  <2>. QED
    BY <2>5, <2>7, <2>8, Zenon DEF Continued
<1>. QED
  BY <1>2, <1>3

LEMMA UpdateIdsKeep ==
  ASSUME NEW s \in Seq(TrackPoint), NEW N \in Nat, NEW list \in Seq(Infos(N)),
         NEW t, t = UpdateIds(s, list)
  PROVE  /\ t \in Seq(TrackPoint) /\ Len(t) = Len(s)
         /\ \A i \in DOMAIN s : t[i].n = s[i].n /\ t[i].filtered = s[i].filtered
<1>. DEFINE J(i) == {j \in DOMAIN list : i \in list[j].first..list[j].last}
            Owners(i) == {list[k].id : k \in J(i)}
<1>1. DOMAIN s = 1..Len(s) /\ Len(s) \in Nat /\ DOMAIN list = 1..Len(list) /\ Len(list) \in Nat
  OBVIOUS
<1>2. t = [i \in 1..Len(s) |-> IF Owners(i) = {} THEN s[i]
                              ELSE [s[i] EXCEPT !.segment = Greatest(Owners(i) \cup {s[i].segment})]]
  BY <1>1 DEF UpdateIds
<1>3. ASSUME NEW i
      PROVE  Owners(i) \subseteq Nat /\ IsFiniteSet(Owners(i))
  <2>1. \A k \in DOMAIN list : list[k].id \in Nat
    <3>1. \A k \in DOMAIN list : list[k] \in Infos(N)
      BY <1>1
    <3>. QED
      BY <3>1, InfoFields, Zenon
  <2>2. IsFiniteSet(1..Len(list))
    BY <1>1, FS_Interval, SMT
  <2>3. IsFiniteSet(J(i))
    <3>1. J(i) \in SUBSET (1..Len(list))
      BY <1>1
    <3>. HIDE DEF J
    <3>. QED
      BY <2>2, <3>1, FS_Subset, Zenon
  <2>. HIDE DEF J
  <2>4. IsFiniteSet(Owners(i))
    <3>1. \E f : f = [k \in J(i) |-> list[k].id]
      OBVIOUS
    <3>2. PICK f : f = [k \in J(i) |-> list[k].id]
      BY <3>1, Zenon
    <3>3. f \in Surjection(J(i), Owners(i))
      BY <3>2 DEF Surjection
    <3>. QED
      BY <2>3, <3>3, FS_Surjection, Zenon
  <2>5. \A k \in J(i) : k \in DOMAIN list
    BY DEF J
  <2>. QED
    BY <2>1, <2>4, <2>5
<1>. HIDE DEF Owners
<1>4. ASSUME NEW i \in 1..Len(s)
      PROVE  /\ t[i] \in TrackPoint
             /\ t[i].n = s[i].n /\ t[i].filtered = s[i].filtered
  <2>1. s[i] \in TrackPoint
    OBVIOUS
  <2>. DEFINE S == Owners(i) \cup {s[i].segment}
  <2>2. s[i].segment \in Nat
    BY <2>1, PointFields
  <2>3. S \subseteq Nat /\ S # {} /\ IsFiniteSet(S)
    BY <1>3, <2>2, FS_AddElement
  <2>4. t[i] = IF Owners(i) = {} THEN s[i] ELSE [s[i] EXCEPT !.segment = Greatest(S)]
    BY <1>2
  <2>. HIDE DEF S
  <2>5. Greatest(S) \in Nat
    BY <2>3, GreatestOf
  <2>. QED
    BY <2>1, <2>4, <2>5 DEF TrackPoint
<1>5. t \in Seq(TrackPoint) /\ Len(t) = Len(s)
  <2>1. t = [i \in 1..Len(s) |-> t[i]] /\ DOMAIN t = 1..Len(s)
    BY <1>2
  <2>2. \A i \in 1..Len(s) : t[i] \in TrackPoint
    BY <1>4
  <2>. QED
    BY <1>1, <2>1, <2>2
<1>. QED
  BY <1>1, <1>4, <1>5

LEMMA WithSpeedsKeeps ==
  ASSUME NEW s \in Seq(TrackPoint), NEW t, t = WithSpeeds(s)
  PROVE  /\ t \in Seq(TrackPoint) /\ Len(t) = Len(s)
         /\ \A i \in DOMAIN s : t[i].n = s[i].n /\ t[i].filtered = s[i].filtered
<1>. DEFINE Moves(i) == /\ i > 1 /\ s[i].speed = 0 /\ ~s[i].filtered /\ ~s[i - 1].filtered
                        /\ s[i].at > s[i - 1].at
            Speed(i) == SpeedOf(Between(s[i - 1], s[i]), s[i].at - s[i - 1].at)
<1>1. DOMAIN s = 1..Len(s) /\ Len(s) \in Nat
  OBVIOUS
<1>2. t = [i \in 1..Len(s) |-> IF Moves(i) THEN [s[i] EXCEPT !.speed = Speed(i)] ELSE s[i]]
  BY <1>1 DEF WithSpeeds
<1>3. ASSUME NEW i \in 1..Len(s), Moves(i)
      PROVE  Speed(i) \in Nat
  <2>1. s[i] \in TrackPoint /\ s[i - 1] \in TrackPoint
    BY <1>3
  <2>2. Between(s[i - 1], s[i]) \in Nat
    BY <2>1, BetweenIsNatural
  <2>3. s[i].at \in Nat /\ s[i - 1].at \in Nat
    BY <2>1, PointFields, Zenon
  <2>4. s[i].at - s[i - 1].at \in Nat /\ s[i].at - s[i - 1].at > 0
    BY <1>3, <2>3
  <2>. QED
    BY <2>2, <2>4, SpeedIsNatural
<1>. HIDE DEF Speed, Moves
<1>4. ASSUME NEW i \in 1..Len(s)
      PROVE  t[i] \in TrackPoint /\ t[i].n = s[i].n /\ t[i].filtered = s[i].filtered
  <2>1. s[i] \in TrackPoint
    OBVIOUS
  <2>2. t[i] = IF Moves(i) THEN [s[i] EXCEPT !.speed = Speed(i)] ELSE s[i]
    BY <1>2
  <2>. QED
    BY <1>3, <2>1, <2>2 DEF TrackPoint
<1>5. t \in Seq(TrackPoint) /\ Len(t) = Len(s)
  <2>1. t = [i \in 1..Len(s) |-> t[i]] /\ DOMAIN t = 1..Len(s)
    BY <1>2
  <2>2. \A i \in 1..Len(s) : t[i] \in TrackPoint
    BY <1>4
  <2>. QED
    BY <1>1, <2>1, <2>2
<1>. QED
  BY <1>1, <1>4, <1>5

\* ActivitySegmentationFilter keeps the points that are not filtered.
LEMMA ActivityKeeps ==
  ASSUME NEW s \in Seq(TrackPoint), Len(s) > 0, NEW r, r = ActivitySegmentation(s)
  PROVE  /\ r \in Seq(TrackPoint) /\ r # <<>>
         /\ \A k \in DOMAIN r : \E j \in DOMAIN s : r[k].n = s[j].n
         /\ Kept(r) = Kept(s)
<1>. DEFINE t == WithSpeeds(s)
            list == ActivitySegments(t)
            c == Continuous(t, list)
<1>1. /\ t \in Seq(TrackPoint) /\ Len(t) = Len(s)
      /\ \A i \in DOMAIN s : t[i].n = s[i].n /\ t[i].filtered = s[i].filtered
  BY WithSpeedsKeeps
<1>2. r = UpdateIds(c, list)
  BY DEF ActivitySegmentation
<1>. HIDE DEF t
<1>3. /\ DOMAIN s = 1..Len(s) /\ DOMAIN t = 1..Len(s) /\ Len(s) \in Nat /\ Len(t) > 0
  BY <1>1
<1>4. list \in Seq(Infos(Len(t))) /\ \A i \in Unfiltered(t) : Has(list, i)
  BY <1>1, <1>3, ActivitySegmentsCover
<1>. HIDE DEF list
<1>5. Copies(t, c) /\ c # <<>> /\ \A i \in DOMAIN t : Has(list, i) => Shows(t, c, i)
  BY <1>1, <1>3, <1>4, ContinuousKeeps
<1>. HIDE DEF c
<1>6. c \in Seq(TrackPoint) /\ DOMAIN c = 1..Len(c) /\ Len(c) \in Nat
  <2>1. c \in Seq(TrackPoint)
    BY <1>5, Zenon DEF Copies
  <2>. QED
    BY <2>1
<1>7. /\ r \in Seq(TrackPoint) /\ Len(r) = Len(c)
      /\ \A i \in DOMAIN c : r[i].n = c[i].n /\ r[i].filtered = c[i].filtered
  BY <1>1, <1>2, <1>4, <1>6, UpdateIdsKeep
<1>8. DOMAIN r = DOMAIN c /\ r # <<>>
  BY <1>5, <1>6, <1>7
<1>9. ASSUME NEW k \in DOMAIN r
      PROVE  \E j \in DOMAIN s : r[k].n = s[j].n /\ r[k].filtered = s[j].filtered
  <2>1. PICK j \in DOMAIN t : c[k].n = t[j].n /\ c[k].filtered = t[j].filtered
    BY <1>5, <1>8, Zenon DEF Copies
  <2>2. j \in DOMAIN s
    BY <1>3
  <2>. QED
    BY <1>1, <1>7, <1>8, <2>1, <2>2, Zenon
<1>10. Kept(r) \subseteq Kept(s)
  <2>. SUFFICES ASSUME NEW k \in DOMAIN r, ~r[k].filtered
                PROVE  r[k].n \in Kept(s)
    BY DEF Kept, Unfiltered
  <2>1. PICK j \in DOMAIN s : r[k].n = s[j].n /\ r[k].filtered = s[j].filtered
    BY <1>9
  <2>. QED
    BY <2>1 DEF Kept, Unfiltered
<1>11. Kept(s) \subseteq Kept(r)
  <2>. SUFFICES ASSUME NEW i \in DOMAIN s, ~s[i].filtered
                PROVE  s[i].n \in Kept(r)
    BY DEF Kept, Unfiltered
  <2>1. i \in DOMAIN t /\ i \in Unfiltered(t)
    BY <1>1, <1>3 DEF Unfiltered
  <2>2. PICK k \in DOMAIN c : c[k].n = t[i].n /\ c[k].filtered = t[i].filtered
    BY <1>4, <1>5, <2>1, Zenon DEF Shows
  <2>3. k \in DOMAIN r /\ r[k].n = s[i].n /\ ~r[k].filtered
    BY <1>1, <1>7, <1>8, <2>2, Zenon
  <2>. QED
    BY <2>3 DEF Kept, Unfiltered
<1>. QED
  BY <1>7, <1>8, <1>9, <1>10, <1>11

-----------------------------------------------------------------------------
(***************************************************************************)
(* The request, from the rows of MySQL to the lines of the answer.          *)
(***************************************************************************)

\* What the points of r say of the track s, at every level.
OfTrack(s, r) ==
  /\ r \in Seq(TrackPoint) /\ r # <<>>
  /\ \A k \in DOMAIN r : r[k].n \in DOMAIN s

\* And up to Level 2.
Ordered(s, r) ==
  \A i, j \in Unfiltered(r) :
    /\ r[i].place = s[r[i].n].place
    /\ i < j => r[i].n < r[j].n
    /\ i < j /\ RunOf(s, r[i].n) = RunOf(s, r[j].n) => r[i].at <= r[j].at

LEMMA RisingOrders ==
  ASSUME NEW s, NEW r, Rising(r), \A i \in DOMAIN r : r[i].place = s[r[i].n].place
  PROVE  Ordered(s, r)
BY Zenon DEF Rising, Ordered, Unfiltered

\* A filter that leaves the points where they are.
LEMMA NumberedOrders ==
  ASSUME NEW s, Recorded(s), NEW r, Numbered(r), Len(r) = Len(s),
         \A i \in DOMAIN s : r[i].place = s[i].place
  PROVE  OfTrack(s, r) /\ Ordered(s, r) /\ Rising(r)
<1>1. /\ s \in Seq(TrackPoint) /\ DOMAIN s = 1..Len(s) /\ Len(s) \in Nat /\ Len(s) > 0
      /\ r \in Seq(TrackPoint) /\ DOMAIN r = 1..Len(s)
  BY DEF Recorded, Numbered
<1>2. \A i \in 1..Len(s) : r[i].n = i
  BY <1>1, Zenon DEF Numbered
<1>3. Rising(r)
  BY NumberedRises
<1>4. r # <<>>
  BY <1>1
<1>5. OfTrack(s, r)
  BY <1>1, <1>2, <1>4, Zenon DEF OfTrack
<1>6. Ordered(s, r)
  BY <1>1, <1>2, <1>3, RisingOrders, Zenon
<1>. QED
  BY <1>3, <1>5, <1>6

\* A filter that draws points from the track as it was recorded.
LEMMA DrawnOrders ==
  ASSUME NEW s, Recorded(s), NEW r \in Seq(TrackPoint), r # <<>>, Rising(r), Drawn(s, r)
  PROVE  OfTrack(s, r) /\ Ordered(s, r)
<1>1. ASSUME NEW k \in DOMAIN r
      PROVE  r[k].n \in DOMAIN s /\ r[k].place = s[r[k].n].place
  <2>1. PICK j \in DOMAIN s : r[k].n = s[j].n /\ r[k].place = s[j].place
    BY Zenon DEF Drawn
  <2>2. s[j].n = j
    BY Zenon DEF Recorded, Numbered
  <2>. QED
    BY <2>1, <2>2
<1>. QED
  BY <1>1, RisingOrders, Zenon DEF OfTrack

LEMMA RecordedIsSound ==
  ASSUME NEW s, Recorded(s)
  PROVE  OfTrack(s, s) /\ Ordered(s, s) /\ Rising(s)
<1>1. Numbered(s)
  BY DEF Recorded
<1>. QED
  BY <1>1, NumberedOrders

LEMMA DuplicateIsSound ==
  ASSUME NEW s, Recorded(s), NEW r, r = Duplicate(s)
  PROVE  OfTrack(s, r) /\ Ordered(s, r) /\ Rising(r)
<1>1. s \in Seq(TrackPoint) /\ Rising(s) /\ Len(s) > 0
  BY RecordedIsSound DEF OfTrack, Recorded
<1>2. /\ r \in Seq(TrackPoint) /\ r # <<>>
      /\ Rising(r) /\ Drawn(s, r)
  BY <1>1, DuplicateDraws
<1>. QED
  BY <1>2, DrawnOrders

LEMMA Level1IsSound ==
  ASSUME NEW s, Recorded(s), NEW r, r = Level1(s)
  PROVE  OfTrack(s, r) /\ Ordered(s, r) /\ Rising(r)
<1>1. s \in Seq(TrackPoint) /\ Rising(s) /\ Len(s) > 0
  BY RecordedIsSound DEF OfTrack, Recorded
<1>2. /\ r \in Seq(TrackPoint) /\ r # <<>>
      /\ Rising(r) /\ Drawn(s, r)
  BY <1>1, Level1Draws
<1>. QED
  BY <1>2, DrawnOrders

LEMMA PreCleanupIsSound ==
  ASSUME NEW s, Recorded(s), NEW r, r = PreCleanup(s)
  PROVE  OfTrack(s, r) /\ Ordered(s, r)
<1>1. Numbered(r) /\ Len(r) = Len(s) /\ \A i \in DOMAIN s : r[i].place = s[i].place
  BY PreCleanupKeeps
<1>. QED
  BY <1>1, NumberedOrders

LEMMA SeparatedIsSound ==
  ASSUME NEW s, Recorded(s), Len(s) > 1, NEW r, r = Separated(s)
  PROVE  OfTrack(s, r) /\ Ordered(s, r)
<1>1. Divided(r) /\ Len(r) = Len(s) /\ \A i \in DOMAIN s : r[i].place = s[i].place
  BY SeparatedDivides
<1>2. Numbered(r)
  BY <1>1 DEF Divided
<1>. QED
  BY <1>1, <1>2, NumberedOrders

\* The runs of the track are those of the points that SegmentedFilterChain is given.
LEMMA SeparatedRuns ==
  ASSUME NEW s, Recorded(s), Len(s) > 1, NEW i \in DOMAIN s
  PROVE  RunOf(Separated(s), i) = RunOf(s, i)
<1>1. /\ Divided(Separated(s)) /\ Len(Separated(s)) = Len(s)
      /\ \A k \in DOMAIN s : Separated(s)[k].at = s[k].at
  BY SeparatedDivides
<1>2. Separated(s) \in Seq(TrackPoint) /\ s \in Seq(TrackPoint)
  BY <1>1 DEF Divided, Recorded, Numbered
<1>. QED
  BY <1>1, <1>2, RunsAreKept

\* What SegmentedFilterChain leaves.
LEMMA SegmentedPoint ==
  ASSUME NEW s, Recorded(s), Len(s) > 1, NEW r, r = Segmented(Separated(s)),
         NEW i \in Unfiltered(r)
  PROVE  /\ i \in DOMAIN s /\ r[i] = Placed(Separated(s), i) /\ ~Placed(Separated(s), i).filtered
         /\ r[i].n \in DOMAIN s /\ i <= r[i].n
         /\ r[i].place = s[r[i].n].place
         /\ r[i].segment = RunOf(s, r[i].n)
         /\ r[i].segment = GroupId(Separated(s)[i])
<1>. DEFINE t == Separated(s)
<1>1. s \in Seq(TrackPoint) /\ DOMAIN s = 1..Len(s) /\ Len(s) \in Nat
  BY DEF Recorded, Numbered
<1>2. /\ Divided(t) /\ Len(t) = Len(s)
      /\ \A k \in DOMAIN s : t[k].place = s[k].place
  BY SeparatedDivides
<1>. HIDE DEF t
<1>3. t \in Seq(TrackPoint) /\ DOMAIN t = DOMAIN s
  BY <1>1, <1>2 DEF Divided, Numbered
<1>4. r = Segmented(t)
  BY DEF t
<1>5. r \in Seq(TrackPoint) /\ Len(r) = Len(t) /\ \A k \in DOMAIN t : r[k] = Placed(t, k)
  BY <1>2, <1>4, SegmentedKeeps
<1>6. i \in DOMAIN t /\ ~r[i].filtered
  <2>1. DOMAIN r = DOMAIN t
    BY <1>3, <1>5
  <2>. QED
    BY <2>1 DEF Unfiltered
<1>7. r[i] = Placed(t, i) /\ ~Placed(t, i).filtered
  BY <1>5, <1>6
<1>8. /\ r[i].n \in DOMAIN t /\ i <= r[i].n
      /\ r[i].place = t[r[i].n].place
      /\ r[i].segment = RunOf(t, r[i].n)
      /\ r[i].segment = GroupId(t[i])
  BY <1>2, <1>6, <1>7, SegmentedComesFrom
<1>9. r[i].n \in DOMAIN s /\ r[i].place = s[r[i].n].place
  BY <1>2, <1>3, <1>8
<1>10. r[i].segment = RunOf(s, r[i].n)
  BY <1>8, <1>9, SeparatedRuns DEF t
<1>. QED
  BY <1>3, <1>6, <1>7, <1>8, <1>9, <1>10 DEF t

LEMMA SegmentedIsSound ==
  ASSUME NEW s, Recorded(s), Len(s) > 1, NEW r, r = Segmented(Separated(s))
  PROVE  Ordered(s, r)
<1>. DEFINE t == Separated(s)
<1>1. Divided(t) /\ DOMAIN t = DOMAIN s
  <2>1. Divided(t) /\ Len(t) = Len(s)
    BY SeparatedDivides
  <2>. HIDE DEF t
  <2>. QED
    BY <2>1 DEF Divided, Recorded, Numbered
<1>. SUFFICES ASSUME NEW i \in Unfiltered(r), NEW j \in Unfiltered(r)
              PROVE  /\ r[i].place = s[r[i].n].place
                     /\ i < j => r[i].n < r[j].n
                     /\ i < j /\ RunOf(s, r[i].n) = RunOf(s, r[j].n) => r[i].at <= r[j].at
  BY Zenon DEF Ordered
<1>2. /\ i \in DOMAIN s /\ r[i] = Placed(t, i) /\ ~Placed(t, i).filtered
      /\ r[i].place = s[r[i].n].place /\ r[i].segment = RunOf(s, r[i].n)
  BY SegmentedPoint
<1>3. /\ j \in DOMAIN s /\ r[j] = Placed(t, j) /\ ~Placed(t, j).filtered
      /\ r[j].segment = RunOf(s, r[j].n)
  BY SegmentedPoint
<1>. HIDE DEF t
<1>4. ASSUME i < j
      PROVE  /\ Placed(t, i).n < Placed(t, j).n
             /\ Placed(t, i).segment = Placed(t, j).segment => Placed(t, i).at <= Placed(t, j).at
  BY <1>1, <1>2, <1>3, <1>4, SegmentedInOrder
<1>. QED
  BY <1>2, <1>3, <1>4, Zenon

\* Every point that SegmentedFilterChain returns is a point of the track, the filtered ones
\* too.
LEMMA SegmentedNumbers ==
  ASSUME NEW s, Recorded(s), Len(s) > 1, NEW r, r = Segmented(Separated(s))
  PROVE  OfTrack(s, r)
<1>. DEFINE t == Separated(s)
<1>1. Divided(t) /\ Len(t) = Len(s) /\ s \in Seq(TrackPoint)
  BY SeparatedDivides DEF Recorded, Numbered
<1>2. r = Segmented(t)
  OBVIOUS
<1>. HIDE DEF t
<1>3. t \in Seq(TrackPoint) /\ DOMAIN t = 1..Len(s) /\ DOMAIN s = 1..Len(s) /\ Len(s) \in Nat
  BY <1>1 DEF Divided, Numbered
<1>4. r \in Seq(TrackPoint) /\ Len(r) = Len(t) /\ \A k \in DOMAIN t : r[k] = Placed(t, k)
  BY <1>1, <1>2, SegmentedKeeps
<1>5. DOMAIN r = 1..Len(s) /\ r # <<>>
  BY <1>1, <1>3, <1>4
<1>6. ASSUME NEW i \in DOMAIN t
      PROVE  Placed(t, i).n \in DOMAIN t
  BY <1>1, <1>6, PlacedFrom
<1>7. \A k \in DOMAIN r : r[k].n \in DOMAIN s
  BY <1>3, <1>4, <1>5, <1>6, Zenon
<1>. QED
  BY <1>4, <1>5, <1>7, Zenon DEF OfTrack

LEMMA ActivityIsSound ==
  ASSUME NEW s, Recorded(s), Len(s) > 1, NEW q, q = Segmented(Separated(s)),
         NEW r, r = ActivitySegmentation(q)
  PROVE  OfTrack(s, r) /\ Kept(r) = Kept(q)
<1>1. OfTrack(s, q)
  BY SegmentedNumbers
<1>2. q \in Seq(TrackPoint) /\ Len(q) > 0
  BY <1>1 DEF OfTrack
<1>3. /\ r \in Seq(TrackPoint) /\ r # <<>>
      /\ \A k \in DOMAIN r : \E j \in DOMAIN q : r[k].n = q[j].n
      /\ Kept(r) = Kept(q)
  BY <1>2, ActivityKeeps
<1>. QED
  BY <1>1, <1>3, Zenon DEF OfTrack

-----------------------------------------------------------------------------

\* Where the request is in its chain: the filters to come, and what the others have made of
\* the track.
Early(l, t, p) == level = l /\ todo = t /\ points = p /\ segments = {} /\ breaks = 0
Stages(s) ==
  \/ Early(0, <<>>, s)
  \/ Early(1, <<"duplicate", "smart">>, s)
  \/ Early(1, <<"smart">>, Duplicate(s))
  \/ Early(1, <<>>, Level1(s))
  \/ Early(2, <<"preCleanup", "timeGap", "segmented">>, s)
  \/ Early(3, <<"preCleanup", "timeGap", "segmented", "activity">>, s)
  \/ Early(2, <<"timeGap", "segmented">>, PreCleanup(s))
  \/ Early(3, <<"timeGap", "segmented", "activity">>, PreCleanup(s))
  \/ Early(2, <<"segmented">>, Separated(s))
  \/ Early(3, <<"segmented", "activity">>, Separated(s))
  \/ /\ level = 2 /\ todo = <<>>
     /\ points = Segmented(Separated(s)) /\ breaks = Cardinality(GroupIds(Separated(s)))
  \/ level = 3 /\ todo = <<"activity">> /\ points = Segmented(Separated(s))
  \/ level = 3 /\ todo = <<>> /\ points = ActivitySegmentation(Segmented(Separated(s)))

TrackInv ==
  /\ Recorded(recorded)
  /\ points = <<>> => level = 0 /\ todo = <<>> /\ segments = {} /\ breaks = 0 /\ lines = {}
  /\ points # <<>> => Len(recorded) > 1 /\ Stages(recorded)
  /\ lines # {} => points # <<>> /\ todo = <<>> /\ lines = LinesOf(points)

LEMMA StagesSound ==
  ASSUME TrackInv, points # <<>>
  PROVE  /\ OfTrack(recorded, points)
         /\ level # 3 \/ todo # <<>> => Ordered(recorded, points)
         /\ level < 2 => Rising(points)
<1>1. Recorded(recorded) /\ Len(recorded) > 1 /\ Stages(recorded)
  BY DEF TrackInv
<1>2. CASE points = recorded
  BY <1>1, <1>2, RecordedIsSound
<1>3. CASE points = Duplicate(recorded)
  BY <1>1, <1>3, DuplicateIsSound
<1>4. CASE points = Level1(recorded)
  BY <1>1, <1>4, Level1IsSound
<1>5. CASE points = PreCleanup(recorded) /\ level \in 2..3
  BY <1>1, <1>5, PreCleanupIsSound
<1>6. CASE points = Separated(recorded) /\ level \in 2..3
  BY <1>1, <1>6, SeparatedIsSound
<1>7. CASE points = Segmented(Separated(recorded)) /\ level \in 2..3
  BY <1>1, <1>7, SegmentedIsSound, SegmentedNumbers
<1>8. CASE points = ActivitySegmentation(Segmented(Separated(recorded))) /\ level = 3 /\ todo = <<>>
  BY <1>1, <1>8, ActivityIsSound
<1>. QED
  BY <1>1, <1>2, <1>3, <1>4, <1>5, <1>6, <1>7, <1>8 DEF Stages, Early

LEMMA TrackStart ==
  ASSUME FilterInit
  PROVE  TrackInv
<1>. DEFINE p == Raw(0, 0, 1)
<1>1. p \in TrackPoint /\ p.n = 1 /\ p.segment = 0
  BY DEF Raw, TrackPoint
<1>2. recorded = <<p>>
  BY DEF FilterInit
<1>. HIDE DEF p
<1>3. recorded \in Seq(TrackPoint) /\ Len(recorded) = 1 /\ DOMAIN recorded = 1..1 /\ recorded[1] = p
  BY <1>1, <1>2
<1>4. \A i \in DOMAIN recorded : i = 1
  BY <1>3
<1>5. Numbered(recorded)
  BY <1>1, <1>3, <1>4, SMT DEF Numbered
<1>6. Recorded(recorded)
  BY <1>1, <1>3, <1>4, <1>5, SMT DEF Recorded
<1>. QED
  BY <1>6 DEF FilterInit, TrackInv

\* Another row.
LEMMA RecordKeeps ==
  ASSUME NEW s, Recorded(s), NEW p \in NextPoints(s), NEW t, t = Append(s, p)
  PROVE  Recorded(t)
<1>. DEFINE L == Len(s)
<1>1. /\ s \in Seq(TrackPoint) /\ DOMAIN s = 1..L /\ L \in Nat /\ L > 0
      /\ s[L] \in TrackPoint /\ Last(s) = s[L]
  BY DEF Recorded, Numbered, Last
<1>2. PICK gap \in Gaps, jump \in Jumps : p = Raw(Last(s).at + gap, Last(s).place + jump, L + 1)
  BY DEF NextPoints
<1>3. gap \in Nat /\ jump \in Int /\ s[L].at \in Nat /\ s[L].place \in Int
  BY <1>1, PointFields, TrackFilterAssumption
<1>4. p \in TrackPoint /\ p.n = L + 1 /\ p.segment = 0 /\ p.at = s[L].at + gap
  <2>. DEFINE when  == Last(s).at + gap
              where == Last(s).place + jump
  <2>1. p = [at |-> when, place |-> where, n |-> L + 1, speed |-> 0, filtered |-> FALSE,
             segment |-> 0]
    BY <1>2, Zenon DEF Raw
  <2>2. when \in Nat /\ where \in Int /\ when = s[L].at + gap /\ L + 1 \in Nat
    BY <1>1, <1>3
  <2>. HIDE DEF when, where
  <2>3. p \in TrackPoint
    BY <2>1, <2>2, SMT DEF TrackPoint
  <2>. QED
    BY <2>1, <2>2, <2>3
<1>5. t \in Seq(TrackPoint) /\ Len(t) = L + 1 /\ DOMAIN t = 1..(L + 1)
  BY <1>1, <1>4
<1>6. (\A i \in 1..L : t[i] = s[i]) /\ t[L + 1] = p
  BY <1>1
<1>7. \A i \in 1..(L + 1) : t[i].n = i /\ t[i].segment = 0
  <2>. SUFFICES ASSUME NEW i \in 1..(L + 1) PROVE t[i].n = i /\ t[i].segment = 0
    OBVIOUS
  <2>1. CASE i \in 1..L
    BY <1>1, <1>6, <2>1, Zenon DEF Recorded, Numbered
  <2>2. CASE i = L + 1
    BY <1>4, <1>6, <2>2
  <2>. QED
    BY <1>1, <2>1, <2>2
<1>8. ASSUME NEW i \in 1..L
      PROVE  s[i].at <= s[L].at /\ s[i].at \in Nat
  <2>1. s[i] \in TrackPoint
    BY <1>1
  <2>2. s[i].at \in Nat
    BY <2>1, PointFields
  <2>3. CASE i = L
    BY <2>2, <2>3
  <2>4. CASE i < L
    <3>1. i \in DOMAIN s /\ L \in DOMAIN s
      BY <1>1
    <3>. QED
      BY <2>2, <2>4, <3>1, Zenon DEF Recorded, Numbered
  <2>5. i = L \/ i < L
    <3>1. \A l \in Nat : \A k \in 1..l : k = l \/ k < l
      OBVIOUS
    <3>. QED
      BY <1>1, <3>1, Zenon
  <2>. QED
    BY <2>3, <2>4, <2>5
<1>9. \A i, j \in 1..(L + 1) : i < j => t[i].at <= t[j].at
  <2>. SUFFICES ASSUME NEW a \in 1..(L + 1), NEW b \in 1..(L + 1), a < b
                PROVE  t[a].at <= t[b].at
    OBVIOUS
  <2>1. a \in 1..L
    BY <1>1
  <2>2. CASE b \in 1..L
    BY <1>1, <1>6, <2>1, <2>2 DEF Recorded, Numbered
  <2>3. CASE b = L + 1
    BY <1>3, <1>4, <1>6, <1>8, <2>1, <2>3
  <2>. QED
    BY <1>1, <2>2, <2>3
<1>. QED
  BY <1>1, <1>5, <1>7, <1>9 DEF Recorded, Numbered

LEMMA Chains ==
  /\ Chain(0) = <<>> /\ Chain(1) = <<"duplicate", "smart">>
  /\ Chain(2) = <<"preCleanup", "timeGap", "segmented">>
  /\ Chain(3) = <<"preCleanup", "timeGap", "segmented", "activity">>
BY DEF Chain

LEMMA ChainIsSeq ==
  ASSUME NEW n \in 0..3
  PROVE  \E S : Chain(n) \in Seq(S)
<1>1. /\ \A a, b : <<a, b>> \in Seq({a, b})
      /\ \A a, b, c : <<a, b, c>> \in Seq({a, b, c})
      /\ \A a, b, c, d : <<a, b, c, d>> \in Seq({a, b, c, d})
      /\ <<>> \in Seq({})
  OBVIOUS
<1>2. n = 0 \/ n = 1 \/ n = 2 \/ n = 3
  OBVIOUS
<1>3. CASE n = 0
  BY <1>1, <1>3, Chains, Zenon
<1>4. CASE n = 1
  <2>1. <<"duplicate", "smart">> \in Seq({"duplicate", "smart"})
    BY <1>1, Zenon
  <2>. QED
    BY <1>4, <2>1, Chains, Zenon
<1>5. CASE n = 2
  <2>. DEFINE q == <<"preCleanup", "timeGap", "segmented">>
  <2>1. q \in Seq({"preCleanup", "timeGap", "segmented"})
    BY <1>1, Zenon
  <2>. QED
    BY <1>5, <2>1, Chains, Zenon
<1>6. CASE n = 3
  <2>. DEFINE q == <<"preCleanup", "timeGap", "segmented", "activity">>
  <2>1. q \in Seq({"preCleanup", "timeGap", "segmented", "activity"})
    BY <1>1, Zenon
  <2>. QED
    BY <1>6, <2>1, Chains, Zenon
<1>. QED
  BY <1>2, <1>3, <1>4, <1>5, <1>6

LEMMA Tails ==
  /\ Tail(<<"duplicate", "smart">>) = <<"smart">>
  /\ Tail(<<"smart">>) = <<>>
  /\ Tail(<<"preCleanup", "timeGap", "segmented">>) = <<"timeGap", "segmented">>
  /\ Tail(<<"timeGap", "segmented">>) = <<"segmented">>
  /\ Tail(<<"segmented">>) = <<>>
  /\ Tail(<<"preCleanup", "timeGap", "segmented", "activity">>)
       = <<"timeGap", "segmented", "activity">>
  /\ Tail(<<"timeGap", "segmented", "activity">>) = <<"segmented", "activity">>
  /\ Tail(<<"segmented", "activity">>) = <<"activity">>
  /\ Tail(<<"activity">>) = <<>>
OBVIOUS

LEMMA Heads ==
  /\ Head(<<"duplicate", "smart">>) = "duplicate"
  /\ Head(<<"smart">>) = "smart"
  /\ Head(<<"preCleanup", "timeGap", "segmented">>) = "preCleanup"
  /\ Head(<<"timeGap", "segmented">>) = "timeGap"
  /\ Head(<<"segmented">>) = "segmented"
  /\ Head(<<"preCleanup", "timeGap", "segmented", "activity">>) = "preCleanup"
  /\ Head(<<"timeGap", "segmented", "activity">>) = "timeGap"
  /\ Head(<<"segmented", "activity">>) = "segmented"
  /\ Head(<<"activity">>) = "activity"
OBVIOUS

LEMMA Filled ==
  /\ <<"duplicate", "smart">> # <<>> /\ <<"smart">> # <<>>
  /\ <<"preCleanup", "timeGap", "segmented">> # <<>>
  /\ <<"timeGap", "segmented">> # <<>> /\ <<"segmented">> # <<>>
  /\ <<"preCleanup", "timeGap", "segmented", "activity">> # <<>>
  /\ <<"timeGap", "segmented", "activity">> # <<>>
  /\ <<"segmented", "activity">> # <<>> /\ <<"activity">> # <<>>
OBVIOUS

\* The rest of the filters to come ends the chain too.
LEMMA RestRemains ==
  ASSUME NEW n \in 0..3, NEW t \in Remaining(n), t # <<>>
  PROVE  Tail(t) \in Remaining(n)
<1>. DEFINE c == Chain(n)
<1>1. PICK k \in 1..(Len(c) + 1) : t = SubSeq(c, k, Len(c))
  BY DEF Remaining
<1>2. PICK S : c \in Seq(S)
  BY ChainIsSeq
<1>3. Len(c) \in Nat
  BY <1>2
<1>. HIDE DEF c
<1>4. k \in 1..Len(c)
  <2>1. k # Len(c) + 1
    BY <1>1, <1>3, SubSeqEmpty
  <2>. QED
    BY <1>1, <1>3, <2>1
<1>5. Tail(t) = SubSeq(c, k + 1, Len(c))
  <2>1. Len(c) \in k..Len(c)
    BY <1>3, <1>4
  <2>. QED
    BY <1>1, <1>4, <1>2, <2>1, HeadTailOfSubSeq, Zenon
<1>6. k + 1 \in 1..(Len(c) + 1)
  BY <1>3, <1>4
<1>. QED
  BY <1>5, <1>6, Zenon DEF Remaining, c

LEMMA ChainRemains ==
  ASSUME NEW n \in 0..3
  PROVE  Chain(n) \in Remaining(n)
<1>. DEFINE c == Chain(n)
<1>1. PICK S : c \in Seq(S)
  BY ChainIsSeq
<1>. HIDE DEF c
<1>2. SubSeq(c, 1, Len(c)) = c /\ 1 \in 1..(Len(c) + 1)
  BY <1>1, SubSeqFull
<1>. QED
  BY <1>2, Zenon DEF Remaining, c

LEMMA GetTrackKeeps ==
  ASSUME TrackInv, NEW n \in 0..3, GetTrack(n)
  PROVE  TrackInv'
<1>1. /\ Recorded(recorded) /\ Len(recorded) > 1 /\ segments = {} /\ breaks = 0 /\ lines = {}
      /\ level' = n /\ todo' = Chain(n) /\ points' = recorded
      /\ recorded' = recorded /\ segments' = segments /\ breaks' = breaks /\ lines' = lines
  BY DEF TrackInv, GetTrack
<1>2. recorded # <<>>
  BY <1>1
<1>3. Stages(recorded)'
  BY <1>1, Chains DEF Stages, Early
<1>. QED
  BY <1>1, <1>2, <1>3 DEF TrackInv

\* A filter of the chain.
LEMMA FilterKeeps ==
  ASSUME TrackInv,
         \/ ApplyDuplicate \/ ApplySmart \/ ApplyPreCleanup \/ ApplyTimeGap \/ ApplySegmented
         \/ ApplyActivity
  PROVE  TrackInv'
<1>1. \E name : Filter(name)
  BY DEF ApplyDuplicate, ApplySmart, ApplyPreCleanup, ApplyTimeGap, ApplySegmented, ApplyActivity
<1>2. todo # <<>> /\ todo' = Tail(todo) /\ recorded' = recorded /\ level' = level /\ lines' = lines
  BY <1>1 DEF Filter
<1>3. /\ Recorded(recorded) /\ points # <<>> /\ lines = {} /\ Len(recorded) > 1
      /\ Stages(recorded)
  BY <1>2 DEF TrackInv
<1>4. Stages(recorded)'
  <2>1. CASE ApplyDuplicate
    <3>1. Head(todo) = "duplicate" /\ points' = Duplicate(points) /\ Unsegmented
      BY <2>1 DEF ApplyDuplicate, Filter
    <3>2. Early(1, <<"duplicate", "smart">>, recorded)
      BY <1>2, <1>3, <3>1, Heads DEF Stages, Early
    <3>3. Early(1, <<"smart">>, Duplicate(recorded))'
      BY <1>2, <3>1, <3>2, Tails DEF Early, Unsegmented
    <3>. QED
      BY <3>3 DEF Stages
  <2>2. CASE ApplySmart
    <3>1. Head(todo) = "smart" /\ points' = SmartTeleportation(points) /\ Unsegmented
      BY <2>2 DEF ApplySmart, Filter
    <3>2. Early(1, <<"smart">>, Duplicate(recorded))
      BY <1>2, <1>3, <3>1, Heads DEF Stages, Early
    <3>3. Early(1, <<>>, Level1(recorded))'
      BY <1>2, <3>1, <3>2, Tails DEF Early, Unsegmented, Level1
    <3>. QED
      BY <3>3 DEF Stages
  <2>3. CASE ApplyPreCleanup
    <3>1. Head(todo) = "preCleanup" /\ points' = PreCleanup(points) /\ Unsegmented
      BY <2>3 DEF ApplyPreCleanup, Filter
    <3>2. \/ Early(2, <<"preCleanup", "timeGap", "segmented">>, recorded)
          \/ Early(3, <<"preCleanup", "timeGap", "segmented", "activity">>, recorded)
      BY <1>2, <1>3, <3>1, Heads DEF Stages, Early
    <3>3. CASE Early(2, <<"preCleanup", "timeGap", "segmented">>, recorded)
      <4>1. Early(2, <<"timeGap", "segmented">>, PreCleanup(recorded))'
        BY <1>2, <3>1, <3>3, Tails DEF Early, Unsegmented
      <4>. QED
        BY <1>2, <4>1 DEF Stages
    <3>4. CASE Early(3, <<"preCleanup", "timeGap", "segmented", "activity">>, recorded)
      <4>1. Early(3, <<"timeGap", "segmented", "activity">>, PreCleanup(recorded))'
        BY <1>2, <3>1, <3>4, Tails DEF Early, Unsegmented
      <4>. QED
        BY <1>2, <4>1 DEF Stages
    <3>. QED
      BY <3>2, <3>3, <3>4
  <2>4. CASE ApplyTimeGap
    <3>1. Head(todo) = "timeGap" /\ points' = TimeGapSegmentation(points) /\ Unsegmented
      BY <2>4 DEF ApplyTimeGap, Filter
    <3>2. \/ Early(2, <<"timeGap", "segmented">>, PreCleanup(recorded))
          \/ Early(3, <<"timeGap", "segmented", "activity">>, PreCleanup(recorded))
      BY <1>2, <1>3, <3>1, Heads DEF Stages, Early
    <3>3. CASE Early(2, <<"timeGap", "segmented">>, PreCleanup(recorded))
      <4>1. Early(2, <<"segmented">>, Separated(recorded))'
        BY <1>2, <3>1, <3>3, Tails DEF Early, Unsegmented, Separated
      <4>. QED
        BY <1>2, <4>1 DEF Stages
    <3>4. CASE Early(3, <<"timeGap", "segmented", "activity">>, PreCleanup(recorded))
      <4>1. Early(3, <<"segmented", "activity">>, Separated(recorded))'
        BY <1>2, <3>1, <3>4, Tails DEF Early, Unsegmented, Separated
      <4>. QED
        BY <1>2, <4>1 DEF Stages
    <3>. QED
      BY <3>2, <3>3, <3>4
  <2>5. CASE ApplySegmented
    <3>1. /\ Head(todo) = "segmented" /\ points' = Segmented(points)
          /\ breaks' = Cardinality(GroupIds(points))
      BY <2>5 DEF ApplySegmented, Filter
    <3>2. \/ Early(2, <<"segmented">>, Separated(recorded))
          \/ Early(3, <<"segmented", "activity">>, Separated(recorded))
      BY <1>2, <1>3, <3>1, Heads DEF Stages, Early
    <3>3. CASE Early(2, <<"segmented">>, Separated(recorded))
      <4>1. /\ level' = 2 /\ todo' = <<>> /\ points' = Segmented(Separated(recorded))
            /\ breaks' = Cardinality(GroupIds(Separated(recorded)))
        BY <1>2, <3>1, <3>3, Tails DEF Early
      <4>. QED
        BY <1>2, <4>1 DEF Stages
    <3>4. CASE Early(3, <<"segmented", "activity">>, Separated(recorded))
      <4>1. level' = 3 /\ todo' = <<"activity">> /\ points' = Segmented(Separated(recorded))
        BY <1>2, <3>1, <3>4, Tails DEF Early
      <4>. QED
        BY <1>2, <4>1 DEF Stages
    <3>. QED
      BY <3>2, <3>3, <3>4
  <2>6. CASE ApplyActivity
    <3>1. points' = ActivitySegmentation(points) /\ Filter("activity")
      BY <2>6, Zenon DEF ApplyActivity
    <3>. QED
      BY <1>2, <1>3, <3>1 DEF Filter, Stages, Early
  <2>. QED
    BY <2>1, <2>2, <2>3, <2>4, <2>5, <2>6
<1>5. points' # <<>>
  <2>1. /\ OfTrack(recorded, Duplicate(recorded)) /\ OfTrack(recorded, Level1(recorded))
        /\ OfTrack(recorded, PreCleanup(recorded)) /\ OfTrack(recorded, Separated(recorded))
        /\ OfTrack(recorded, Segmented(Separated(recorded)))
        /\ OfTrack(recorded, ActivitySegmentation(Segmented(Separated(recorded))))
        /\ OfTrack(recorded, recorded)
    BY <1>3, RecordedIsSound, DuplicateIsSound, Level1IsSound, PreCleanupIsSound,
       SeparatedIsSound, SegmentedNumbers, ActivityIsSound, Zenon
  <2>2. \A r : OfTrack(recorded, r) => r # <<>>
    BY Zenon DEF OfTrack
  <2>. QED
    BY <1>2, <1>4, <2>1, <2>2, Zenon DEF Stages, Early
<1>. QED
  BY <1>2, <1>3, <1>4, <1>5 DEF TrackInv

LEMMA TrackStep ==
  ASSUME TrackInv, [FilterNext]_filterVars
  PROVE  TrackInv'
<1>1. CASE Record
  <2>1. PICK p \in NextPoints(recorded) : recorded' = Append(recorded, p)
    BY <1>1 DEF Record
  <2>2. Recorded(recorded')
    BY <2>1, RecordKeeps DEF TrackInv
  <2>. QED
    BY <1>1, <2>2 DEF Record, TrackInv
<1>2. CASE \E n \in 0..3 : GetTrack(n)
  BY <1>2, GetTrackKeeps
<1>3. CASE \/ ApplyDuplicate \/ ApplySmart \/ ApplyPreCleanup \/ ApplyTimeGap \/ ApplySegmented
           \/ ApplyActivity
  BY <1>3, FilterKeeps
<1>4. CASE Answer
  <2>1. /\ points # <<>> /\ todo = <<>> /\ lines' = LinesOf(points)
        /\ recorded' = recorded /\ level' = level /\ todo' = todo /\ points' = points
        /\ segments' = segments /\ breaks' = breaks
    BY <1>4 DEF Answer
  <2>2. LinesOf(points)' = LinesOf(points)
    BY <2>1 DEF LinesOf, LineIds
  <2>3. Stages(recorded)' <=> Stages(recorded)
    BY <2>1 DEF Stages, Early
  <2>. QED
    BY <2>1, <2>2, <2>3 DEF TrackInv
<1>5. CASE UNCHANGED filterVars
  <2>1. /\ recorded' = recorded /\ level' = level /\ todo' = todo /\ points' = points
        /\ segments' = segments /\ breaks' = breaks /\ lines' = lines
    BY <1>5 DEF filterVars
  <2>2. LinesOf(points)' = LinesOf(points)
    BY <2>1 DEF LinesOf, LineIds
  <2>3. Stages(recorded)' <=> Stages(recorded)
    BY <2>1 DEF Stages, Early
  <2>. QED
    BY <2>1, <2>2, <2>3 DEF TrackInv
<1>. QED
  BY <1>1, <1>2, <1>3, <1>4, <1>5 DEF FilterNext

\* The request is always at one of the stages of its chain.
THEOREM TrackInvariant == FilterSpec => []TrackInv
<1>1. FilterInit => TrackInv
  BY TrackStart
<1>2. TrackInv /\ [FilterNext]_filterVars => TrackInv'
  BY TrackStep
<1>. QED
  BY <1>1, <1>2, PTL DEF FilterSpec

\* The filters to come end the chain.
LEMMA StagesRemain ==
  ASSUME TrackInv
  PROVE  level \in 0..3 /\ todo \in Remaining(level)
<1>. DEFINE d == <<"duplicate", "smart">>
            q == <<"preCleanup", "timeGap", "segmented">>
            r == <<"preCleanup", "timeGap", "segmented", "activity">>
<1>1. \/ level = 0 /\ todo = <<>>
      \/ level = 1 /\ todo \in {d, <<"smart">>, <<>>}
      \/ level = 2 /\ todo \in {q, <<"timeGap", "segmented">>, <<"segmented">>, <<>>}
      \/ level = 3 /\ todo \in {r, <<"timeGap", "segmented", "activity">>,
                                <<"segmented", "activity">>, <<"activity">>, <<>>}
  BY DEF TrackInv, Stages, Early
<1>2. \A n \in {1, 2, 3} : \A t \in Remaining(n) : t # <<>> => Tail(t) \in Remaining(n)
  BY RestRemains
<1>3. <<>> \in Remaining(0)
  BY Chains, ChainRemains
<1>4. d \in Remaining(1) /\ <<"smart">> \in Remaining(1) /\ <<>> \in Remaining(1)
  <2>1. d \in Remaining(1)
    BY Chains, ChainRemains
  <2>2. <<"smart">> \in Remaining(1)
    BY <1>2, <2>1, Tails, Filled, Zenon
  <2>3. <<>> \in Remaining(1)
    BY <1>2, <2>2, Tails, Filled, Zenon
  <2>. QED
    BY <2>1, <2>2, <2>3
<1>5. /\ q \in Remaining(2) /\ <<"timeGap", "segmented">> \in Remaining(2)
      /\ <<"segmented">> \in Remaining(2) /\ <<>> \in Remaining(2)
  <2>1. q \in Remaining(2)
    BY Chains, ChainRemains
  <2>2. <<"timeGap", "segmented">> \in Remaining(2)
    BY <1>2, <2>1, Tails, Filled, Zenon
  <2>3. <<"segmented">> \in Remaining(2)
    BY <1>2, <2>2, Tails, Filled, Zenon
  <2>4. <<>> \in Remaining(2)
    BY <1>2, <2>3, Tails, Filled, Zenon
  <2>. QED
    BY <2>1, <2>2, <2>3, <2>4
<1>6. /\ r \in Remaining(3) /\ <<"timeGap", "segmented", "activity">> \in Remaining(3)
      /\ <<"segmented", "activity">> \in Remaining(3) /\ <<"activity">> \in Remaining(3)
      /\ <<>> \in Remaining(3)
  <2>1. r \in Remaining(3)
    BY Chains, ChainRemains
  <2>2. <<"timeGap", "segmented", "activity">> \in Remaining(3)
    BY <1>2, <2>1, Tails, Filled, Zenon
  <2>3. <<"segmented", "activity">> \in Remaining(3)
    BY <1>2, <2>2, Tails, Filled, Zenon
  <2>4. <<"activity">> \in Remaining(3)
    BY <1>2, <2>3, Tails, Filled, Zenon
  <2>5. <<>> \in Remaining(3)
    BY <1>2, <2>4, Tails, Filled, Zenon
  <2>. QED
    BY <2>1, <2>2, <2>3, <2>4, <2>5
<1>. QED
  BY <1>1, <1>3, <1>4, <1>5, <1>6

LEMMA TrackTypes ==
  ASSUME TrackInv
  PROVE  FilterTypeOK
<1>1. level \in 0..3 /\ todo \in Remaining(level)
  BY StagesRemain
<1>2. CASE points = <<>>
  BY <1>1, <1>2 DEF FilterTypeOK
<1>3. CASE points # <<>>
  <2>1. OfTrack(recorded, points)
    BY <1>3, StagesSound
  <2>2. ASSUME NEW i \in DOMAIN points
        PROVE  /\ points[i].n \in DOMAIN recorded /\ points[i].filtered \in BOOLEAN
               /\ points[i].segment \in Nat /\ points[i].speed \in Nat
    <3>1. points[i] \in TrackPoint /\ points[i].n \in DOMAIN recorded
      BY <2>1 DEF OfTrack
    <3>. QED
      BY <3>1, PointFields, Zenon
  <2>. QED
    BY <1>1, <2>2 DEF FilterTypeOK
<1>. QED
  BY <1>2, <1>3

\* The type invariant of the track's request.
THEOREM FilterTypeCorrect == FilterSpec => []FilterTypeOK
<1>1. TrackInv => FilterTypeOK
  BY TrackTypes
<1>. QED
  BY <1>1, TrackInvariant, PTL

LEMMA InOrderAlways ==
  ASSUME TrackInv
  PROVE  TrackInOrder
<1>. SUFFICES ASSUME level # 3 \/ todo # <<>>,
                     NEW i \in Unfiltered(points), NEW j \in Unfiltered(points)
              PROVE  /\ points[i].place = recorded[points[i].n].place
                     /\ i < j => points[i].n < points[j].n
                     /\ i < j /\ (level < 2 \/ RecordedRun(i) = RecordedRun(j)) =>
                          points[i].at <= points[j].at
  BY Zenon DEF TrackInOrder
<1>1. points # <<>> /\ i \in DOMAIN points /\ j \in DOMAIN points
  BY DEF Unfiltered
<1>2. Ordered(recorded, points) /\ (level < 2 => Rising(points))
  BY <1>1, StagesSound
<1>3. /\ points[i].place = recorded[points[i].n].place
      /\ i < j => points[i].n < points[j].n
      /\ i < j /\ RecordedRun(i) = RecordedRun(j) => points[i].at <= points[j].at
  BY <1>2, Zenon DEF Ordered, RecordedRun
<1>4. level < 2 /\ i < j => points[i].at <= points[j].at
  BY <1>1, <1>2, Zenon DEF Rising
<1>. QED
  BY <1>3, <1>4, Zenon

LEMMA ActivityLosesNothing ==
  ASSUME TrackInv
  PROVE  ActivityLosesNoPoint
<1>. SUFFICES ASSUME level = 3, todo = <<>>
              PROVE  Kept(points) = Kept(Segmented(Separated(recorded)))
  BY Zenon DEF ActivityLosesNoPoint, Separated
<1>1. /\ Recorded(recorded) /\ Len(recorded) > 1
      /\ points = ActivitySegmentation(Segmented(Separated(recorded)))
  BY DEF TrackInv, Stages, Early
<1>. QED
  BY <1>1, ActivityIsSound

\* The lines of Level 2.
LEMMA Level2Lines ==
  ASSUME TrackInv, level = 2, lines # {}
  PROVE  /\ \A line \in lines : \A i, j \in line : RecordedRun(i) = RecordedRun(j)
         /\ \A x, y \in lines : x # y =>
              \/ \A i \in x, j \in y : points[i].n < points[j].n
              \/ \A i \in x, j \in y : points[j].n < points[i].n
<1>. DEFINE t == Separated(recorded)
<1>1. /\ Recorded(recorded) /\ Len(recorded) > 1 /\ points # <<>>
      /\ lines = LinesOf(points) /\ points = Segmented(t) /\ breaks = Cardinality(GroupIds(t))
  BY DEF TrackInv, Stages, Early
<1>2. recorded \in Seq(TrackPoint) /\ DOMAIN recorded = 1..Len(recorded) /\ Len(recorded) \in Nat
  BY <1>1 DEF Recorded, Numbered
<1>3. ASSUME NEW i \in Unfiltered(points)
      PROVE  /\ i \in DOMAIN recorded /\ points[i].n \in Nat
             /\ points[i].segment = RecordedRun(i) /\ points[i].segment = GroupId(t[i])
             /\ RecordedRun(i) \in Nat \ {0}
  <2>1. /\ i \in DOMAIN recorded /\ points[i].n \in DOMAIN recorded
        /\ points[i].segment = RunOf(recorded, points[i].n)
        /\ points[i].segment = GroupId(t[i])
    BY <1>1, SegmentedPoint
  <2>2. points[i].n \in Nat
    BY <1>2, <2>1
  <2>3. RunOf(recorded, points[i].n) \in Nat \ {0}
    BY <2>2, RunsRise
  <2>. QED
    BY <2>1, <2>2, <2>3, Zenon DEF RecordedRun
<1>4. DOMAIN t = DOMAIN recorded
  <2>1. Divided(t) /\ Len(t) = Len(recorded)
    BY <1>1, SeparatedDivides
  <2>. HIDE DEF t
  <2>. QED
    BY <1>2, <2>1 DEF Divided, Numbered
<1>. HIDE DEF t
<1>5. CASE Cardinality(segments) > 1 \/ breaks > 1
  <2>1. \A x \in lines : \E id : x = LineOf(points, id)
    BY <1>1, <1>5, Zenon DEF LinesOf
  <2>2. ASSUME NEW id, NEW i \in LineOf(points, id)
        PROVE  i \in Unfiltered(points) /\ RecordedRun(i) = id
    <3>1. i \in Unfiltered(points) /\ (points[i].segment = id \/ points[i].segment = 0)
      BY DEF LineOf
    <3>. QED
      BY <1>3, <3>1
  <2>3. ASSUME NEW x \in lines, NEW y \in lines, x # y
        PROVE  \/ \A i \in x, j \in y : points[i].n < points[j].n
               \/ \A i \in x, j \in y : points[j].n < points[i].n
    <3>1. PICK a : x = LineOf(points, a)
      BY <2>1, Zenon
    <3>2. PICK b : y = LineOf(points, b)
      BY <2>1, Zenon
    <3>3. a # b
      BY <2>3, <3>1, <3>2
    <3>4. ASSUME NEW i \in x, NEW j \in y
          PROVE  /\ a \in Nat /\ b \in Nat /\ points[i].n \in Nat /\ points[j].n \in Nat
                 /\ RunOf(recorded, points[i].n) = a /\ RunOf(recorded, points[j].n) = b
      <4>1. /\ i \in Unfiltered(points) /\ RecordedRun(i) = a
            /\ j \in Unfiltered(points) /\ RecordedRun(j) = b
        BY <2>2, <3>1, <3>2
      <4>. QED
        BY <1>3, <4>1, Zenon DEF RecordedRun
    <3>5. ASSUME NEW i \in x, NEW j \in y, a < b
          PROVE  points[i].n < points[j].n
      <4>1. ASSUME points[j].n <= points[i].n
            PROVE  b <= a
        BY <3>4, <4>1, RunsRise
      <4>. QED
        BY <3>4, <3>5, <4>1
    <3>6. ASSUME NEW i \in x, NEW j \in y, b < a
          PROVE  points[j].n < points[i].n
      <4>1. ASSUME points[i].n <= points[j].n
            PROVE  a <= b
        BY <3>4, <4>1, RunsRise
      <4>. QED
        BY <3>4, <3>6, <4>1
    <3>7. CASE x = {} \/ y = {}
      BY <3>7
    <3>8. CASE x # {} /\ y # {}
      <4>1. a \in Nat /\ b \in Nat
        BY <3>4, <3>8
      <4>2. a < b \/ b < a
        BY <3>3, <4>1
      <4>. QED
        BY <3>5, <3>6, <4>2
    <3>. QED
      BY <3>7, <3>8
  <2>4. ASSUME NEW x \in lines, NEW i \in x, NEW j \in x
        PROVE  RecordedRun(i) = RecordedRun(j)
    <3>1. PICK a : x = LineOf(points, a)
      BY <2>1, Zenon
    <3>2. RecordedRun(i) = a /\ RecordedRun(j) = a
      BY <2>2, <3>1
    <3>. QED
      BY <3>2
  <2>. QED
    BY <2>3, <2>4, Zenon
<1>6. CASE ~(Cardinality(segments) > 1 \/ breaks > 1)
  <2>1. lines = {Unfiltered(points)}
    BY <1>1, <1>6, Zenon DEF LinesOf
  <2>2. IsFiniteSet(GroupIds(t)) /\ Cardinality(GroupIds(t)) \in Nat
    <3>1. IsFiniteSet(DOMAIN t)
      BY <1>2, <1>4, FS_Interval
    <3>2. \E f : f = [i \in DOMAIN t |-> GroupId(t[i])]
      OBVIOUS
    <3>3. PICK f : f = [i \in DOMAIN t |-> GroupId(t[i])]
      BY <3>2, Zenon
    <3>4. f \in Surjection(DOMAIN t, GroupIds(t))
      BY <3>3 DEF Surjection, GroupIds
    <3>. QED
      BY <3>1, <3>4, FS_Surjection, FS_CardinalityType, Zenon
  <2>3. Cardinality(GroupIds(t)) <= 1
    BY <1>1, <1>6, <2>2
  <2>4. \A a, b \in GroupIds(t) : a = b
    <3>1. CASE Cardinality(GroupIds(t)) = 0
      BY <2>2, <3>1, FS_EmptySet, Zenon
    <3>2. CASE Cardinality(GroupIds(t)) = 1
      <4>1. \E x : GroupIds(t) = {x}
        BY <2>2, <3>2, FS_Singleton
      <4>. QED
        BY <4>1
    <3>. QED
      BY <2>2, <2>3, <3>1, <3>2
  <2>5. ASSUME NEW i \in Unfiltered(points)
        PROVE  RecordedRun(i) \in GroupIds(t)
    BY <1>3, <1>4, Zenon DEF GroupIds
  <2>. QED
    BY <2>1, <2>4, <2>5, Zenon
<1>. QED
  BY <1>5, <1>6

LEMMA LinesKeepToRuns ==
  ASSUME TrackInv
  PROVE  LinesAreRuns
<1>1. CASE lines = {}
  BY <1>1, Zenon DEF LinesAreRuns
<1>2. CASE lines # {} /\ level = 2
  BY <1>2, Level2Lines, Zenon DEF LinesAreRuns
<1>3. CASE lines # {} /\ level # 2 /\ level # 3
  <2>1. lines = LinesOf(points) /\ segments = {} /\ breaks = 0
    BY <1>3 DEF TrackInv, Stages, Early
  <2>2. ~(Cardinality(segments) > 1 \/ breaks > 1)
    BY <2>1, FS_EmptySet
  <2>3. lines = {Unfiltered(points)}
    BY <2>1, <2>2, Zenon DEF LinesOf
  <2>. QED
    BY <1>3, <2>3, Zenon DEF LinesAreRuns
<1>4. CASE lines # {} /\ level = 3
  <2>1. level # 2
    BY <1>4
  <2>. QED
    BY <1>4, <2>1, Zenon DEF LinesAreRuns
<1>. QED
  BY <1>1, <1>2, <1>3, <1>4

\* What is left of a track is a part of the track, at every level and in every answer: up to
\* Level 2 in its order and where it was recorded, with lines that cross no gap; and Level 3
\* loses nothing more.
THEOREM TrackIsAlwaysKept == FilterSpec => []TrackIsKept
<1>1. TrackInv => TrackIsKept
  BY InOrderAlways, ActivityLosesNothing, LinesKeepToRuns DEF TrackIsKept
<1>. QED
  BY <1>1, TrackInvariant, PTL
=============================================================================
