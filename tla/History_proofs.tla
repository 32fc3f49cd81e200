--------------------------- MODULE History_proofs ----------------------------
(* Facts about the order of the results, the pruning and the pages, for       *)
(* every cap, page size and finite history.                                   *)
EXTENDS History, FiniteSetTheorems, WellFoundedInduction, TLAPS

\* A finite set of results, no two of the same instant.
Ordered(S) == /\ IsFiniteSet(S)
              /\ \A r \in S : r.at \in Nat
              /\ \A r, s \in S : r.at = s.at => r = s

Newer(S, r) == {s \in S : s.at > r.at}
Top(S, k) == {r \in S : Rank(S, r) < k}

\* Every non-empty set of natural numbers has a least element.
LEMMA LeastNatural ==
  ASSUME NEW T \in SUBSET Nat, T # {}
  PROVE  \E m \in T : \A n \in T : m <= n
<1> DEFINE R == StrictSubsetOrdering(Nat)
           D == {0..n : n \in T}
<1>1. D # {} /\ D \subseteq FiniteSubsetsOf(Nat)
  <2>1. \A n \in Nat : 0..n \in SUBSET Nat /\ IsFiniteSet(0..n)
    BY FS_Interval
  <2> QED
    BY <2>1 DEF FiniteSubsetsOf
<1>2. PICK d \in D : \A e \in D : <<e, d>> \notin R
  <2> HIDE DEF D, R
  <2> QED
    BY <1>1, WFMin, FS_StrictSubsetOrderingWellFounded DEF R
<1>3. PICK m \in T : d = 0..m
  OBVIOUS
<1>4. ASSUME NEW n \in T, n < m PROVE FALSE
  <2>1. 0..n \in SUBSET Nat /\ 0..m \in SUBSET Nat /\ 0..n \subseteq 0..m /\ 0..n # 0..m
    BY <1>4
  <2>2. <<0..n, 0..m>> \in R
    BY <2>1 DEF StrictSubsetOrdering
  <2> QED
    BY <1>2, <1>3, <2>2
<1> QED
  BY <1>4

\* The rank of a result is a natural number.
LEMMA RankType ==
  ASSUME NEW S, Ordered(S), NEW r
  PROVE  Rank(S, r) \in Nat /\ IsFiniteSet(Newer(S, r)) /\ Rank(S, r) = Cardinality(Newer(S, r))
<1>1. Newer(S, r) \in SUBSET S
  BY DEF Newer
<1>2. IsFiniteSet(Newer(S, r))
  BY <1>1, FS_Subset DEF Ordered
<1> QED
  BY <1>2, FS_CardinalityType DEF Newer, Rank

\* The newer of two results has the smaller rank.
LEMMA RankOrder ==
  ASSUME NEW S, Ordered(S), NEW r \in S, NEW s \in S, s.at > r.at
  PROVE  Rank(S, s) < Rank(S, r)
<1>1. Newer(S, s) \in SUBSET Newer(S, r) /\ s \in Newer(S, r) /\ s \notin Newer(S, s)
  BY DEF Newer, Ordered
<1>2. /\ Cardinality(Newer(S, s)) <= Cardinality(Newer(S, r))
      /\ Cardinality(Newer(S, r)) # Cardinality(Newer(S, s))
  BY <1>1, RankType, FS_Subset
<1> QED
  BY <1>2, RankType

\* At most k results have a rank below k.
LEMMA TopBound ==
  ASSUME NEW S, Ordered(S), NEW k \in Nat
  PROVE  Cardinality(Top(S, k)) <= k /\ IsFiniteSet(Top(S, k)) /\ Cardinality(Top(S, k)) \in Nat
<1>0. IsFiniteSet(Top(S, k)) /\ Cardinality(Top(S, k)) \in Nat
  <2>1. Top(S, k) \in SUBSET S
    BY DEF Top
  <2> QED
    BY <2>1, FS_Subset, FS_CardinalityType DEF Ordered
<1>1. CASE Top(S, k) = {}
  BY <1>0, <1>1, FS_EmptySet
<1>2. CASE Top(S, k) # {}
  <2> DEFINE T == {k - Rank(S, r) : r \in Top(S, k)}
  <2>1. T \in SUBSET Nat /\ T # {}
    BY <1>2, RankType DEF Top
  <2>2. PICK m \in T : \A n \in T : m <= n
    <3> HIDE DEF T
    <3> QED
      BY <2>1, LeastNatural
  <2>3. PICK last \in Top(S, k) : m = k - Rank(S, last)
    BY <2>2
  <2>4. \A r \in Top(S, k) : Rank(S, r) <= Rank(S, last)
    BY <2>2, <2>3, RankType DEF Top
  <2>5. Top(S, k) \ {last} \in SUBSET Newer(S, last)
    <3>1. ASSUME NEW r \in Top(S, k), r # last
          PROVE  r.at > last.at
      <4>1. r \in S /\ last \in S
        BY DEF Top
      <4>2. r.at \in Nat /\ last.at \in Nat /\ r.at # last.at
        BY <3>1, <4>1 DEF Ordered
      <4>3. ~(last.at > r.at)
        BY <2>4, <4>1, RankOrder, RankType
      <4> QED
        BY <4>2, <4>3
    <3> QED
      BY <3>1 DEF Newer, Top
  <2>6. Cardinality(Top(S, k) \ {last}) <= Rank(S, last)
    BY <2>5, RankType, FS_Subset
  <2>7. Cardinality(Top(S, k) \ {last}) = Cardinality(Top(S, k)) - 1
    BY <1>0, <2>3, FS_RemoveElement
  <2>8. Rank(S, last) \in Nat /\ Rank(S, last) < k
    BY <2>3, RankType DEF Top
  <2> QED
    BY <1>0, <2>6, <2>7, <2>8
<1> QED
  BY <1>0, <1>1, <1>2

\* If some result has a rank of k or more, k results have a rank below k.
LEMMA TopFull ==
  ASSUME NEW S, Ordered(S), NEW k \in Nat, NEW r \in S, Rank(S, r) >= k
  PROVE  Cardinality(Top(S, k)) = k
<1> DEFINE T == {Rank(S, s) : s \in {t \in S : Rank(S, t) >= k}}
<1>1. T \in SUBSET Nat /\ T # {}
  BY RankType
<1>2. PICK m \in T : \A n \in T : m <= n
  <2> HIDE DEF T
  <2> QED
    BY <1>1, LeastNatural
<1>3. PICK first \in S : m = Rank(S, first) /\ Rank(S, first) >= k
  BY <1>2
<1>4. Newer(S, first) \in SUBSET Top(S, k)
  <2>1. ASSUME NEW s \in S, s.at > first.at
        PROVE  Rank(S, s) < k
    <3>1. Rank(S, s) < Rank(S, first)
      BY <2>1, RankOrder
    <3>2. Rank(S, s) \in Nat /\ Rank(S, first) \in Nat
      BY RankType
    <3>3. Rank(S, s) >= k => Rank(S, s) \in T
      OBVIOUS
    <3> QED
      BY <1>2, <1>3, <3>1, <3>2, <3>3
  <2> QED
    BY <2>1 DEF Newer, Top
<1>5. Rank(S, first) <= Cardinality(Top(S, k))
  BY <1>4, TopBound, RankType, FS_Subset
<1> QED
  BY <1>3, <1>5, TopBound, RankType

\* If there are results beyond page p, page p is full.
LEMMA FullPage ==
  ASSUME NEW S, Ordered(S), NEW p \in Nat \ {0}, NEW size \in Nat \ {0},
         NEW r \in S, Rank(S, r) >= p * size
  PROVE  Cardinality(Page(S, p, size)) = size
<1> DEFINE low == (p - 1) * size
           high == p * size
<1>1. low \in Nat /\ high \in Nat /\ high = low + size
  OBVIOUS
<1>2. Rank(S, r) \in Nat /\ Rank(S, r) >= high
  BY RankType
<1> HIDE DEF low, high
<1>3. Cardinality(Top(S, low)) = low
  <2>1. Rank(S, r) >= low
    BY <1>1, <1>2
  <2> QED
    BY <1>1, <2>1, TopFull
<1>4. Cardinality(Top(S, high)) = high
  BY <1>1, <1>2, TopFull
<1>5. Page(S, p, size) = Top(S, high) \ Top(S, low)
  BY <1>1, RankType DEF low, high, Page, OnPage, Top
<1>6. Top(S, high) \cap Top(S, low) = Top(S, low)
  BY <1>1, RankType DEF Top
<1>7. IsFiniteSet(Top(S, high))
  BY <1>1, TopBound
<1>8. Cardinality(Page(S, p, size)) = high - low
  BY <1>3, <1>4, <1>5, <1>6, <1>7, FS_Difference
<1> QED
  BY <1>1, <1>8

\* The insert leaves a set of results of different times.
LEMMA InsertOrdered ==
  ASSUME NEW S, Ordered(S), NEW r, r.at \in Nat, \A s \in S : s.at < r.at
  PROVE  Ordered(S \cup {r}) /\ Ordered(Since(S \cup {r}, r.at - Retention))
<1> DEFINE U == Since(S \cup {r}, r.at - Retention)
<1>1. IsFiniteSet(S \cup {r})
  BY FS_AddElement DEF Ordered
<1>2. Ordered(S \cup {r})
  BY <1>1 DEF Ordered
<1>3. U \in SUBSET (S \cup {r})
  BY DEF Since
<1>4. IsFiniteSet(U)
  BY <1>1, <1>3, FS_Subset
<1> HIDE DEF U
<1>5. Ordered(U)
  BY <1>2, <1>3, <1>4 DEF Ordered
<1> QED
  BY <1>2, <1>5 DEF U

\* A newer result, and the pruning that follows it, keep the order and the cap.
LEMMA RecordedOrdered ==
  ASSUME NEW S, Ordered(S), NEW r, r.at \in Nat, \A s \in S : s.at < r.at
  PROVE  /\ Ordered(Recorded(S, r))
         /\ Recorded(S, r) \subseteq S \cup {r}
         /\ Cardinality(Recorded(S, r)) <= MaxRecords
<1> DEFINE U == Since(S \cup {r}, r.at - Retention)
<1>1. U \in SUBSET (S \cup {r}) /\ Ordered(U)
  BY InsertOrdered DEF Since
<1> HIDE DEF U
<1>2. Recorded(S, r) = Top(U, MaxRecords)
  BY DEF U, Recorded, Newest, Top
<1>3. Top(U, MaxRecords) \in SUBSET U
  BY DEF Top
<1>4. Ordered(Top(U, MaxRecords))
  BY <1>1, <1>3, FS_Subset DEF Ordered
<1> QED
  BY <1>1, <1>2, <1>3, <1>4, TopBound, HistoryAssumption

\* The pruning never removes a result that is newer than one it keeps.
LEMMA RecordedUpwards ==
  ASSUME NEW S, Ordered(S), NEW r, r.at \in Nat, \A s \in S : s.at < r.at,
         NEW s \in Recorded(S, r), NEW t \in S \cup {r}, t.at > s.at
  PROVE  t \in Recorded(S, r)
<1> DEFINE U == Since(S \cup {r}, r.at - Retention)
<1>1. Recorded(S, r) = Top(U, MaxRecords)
  BY DEF Recorded, Newest, Top
<1>2. Ordered(S \cup {r}) /\ Ordered(U)
  BY InsertOrdered
<1>3. s \in U /\ Rank(U, s) < MaxRecords
  BY <1>1 DEF Top
<1>4. t \in U
  BY <1>2, <1>3, HistoryAssumption DEF Since, Ordered
<1> HIDE DEF U
<1>5. Rank(U, t) < Rank(U, s)
  BY <1>2, <1>3, <1>4, RankOrder
<1> QED
  BY <1>1, <1>2, <1>3, <1>4, <1>5, RankType, HistoryAssumption DEF Top

\* The pruning keeps the result that has just been inserted.
LEMMA RecordedKeepsNew ==
  ASSUME NEW S, Ordered(S), NEW r, r.at \in Nat, \A s \in S : s.at < r.at
  PROVE  r \in Recorded(S, r)
<1> DEFINE U == Since(S \cup {r}, r.at - Retention)
<1>1. Recorded(S, r) = Top(U, MaxRecords)
  BY DEF Recorded, Newest, Top
<1>2. r \in U
  BY HistoryAssumption DEF Since
<1>3. {s \in U : s.at > r.at} = {}
  BY InsertOrdered DEF Since, Ordered
<1>4. Rank(U, r) = 0
  BY <1>3, FS_EmptySet DEF Rank
<1> QED
  BY <1>1, <1>2, <1>4, HistoryAssumption DEF Top

\* A result that survives the pruning does not come nearer to the first page.
LEMMA RecordedRank ==
  ASSUME NEW S, Ordered(S), NEW r, r.at \in Nat, \A s \in S : s.at < r.at,
         NEW s \in S, s \in Recorded(S, r)
  PROVE  Rank(S, s) <= Rank(Recorded(S, r), s)
<1>1. Newer(S, s) \in SUBSET Newer(Recorded(S, r), s)
  BY RecordedUpwards DEF Newer
<1>2. Ordered(Recorded(S, r))
  BY RecordedOrdered
<1> QED
  BY <1>1, <1>2, RankType, FS_Subset
=============================================================================
