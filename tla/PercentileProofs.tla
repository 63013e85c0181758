---------------------------- MODULE PercentileProofs ----------------------------
(***************************************************************************)
(* The percentiles of a report are the nearest ranks of its response       *)
(* times, whatever rows it has read: sorting by a stable order exists and  *)
(* the entry at the rank is above as many others as it should be.          *)
(***************************************************************************)
EXTENDS PresenceIntelligenceProofs, FiniteSetTheorems, FunctionTheorems

-----------------------------------------------------------------------------
(* Sorting.  An entry goes to the place that is the number of entries not  *)
(* after it, equal ones in the order they came in.                         *)

NotAfter(values, j, i) == values[j] < values[i] \/ (values[j] = values[i] /\ j <= i)

Place(values, n) == [i \in 1..n |-> Cardinality({j \in 1..n : NotAfter(values, j, i)})]

\* Whichever of two entries comes later has the higher place.
LEMMA PlaceGrows ==
  ASSUME NEW n \in Nat, NEW values \in [1..n -> Int], NEW i \in 1..n, NEW j \in 1..n,
         ~NotAfter(values, i, j)
  PROVE  Place(values, n)[j] < Place(values, n)[i]
<1> DEFINE Below(k) == {l \in 1..n : NotAfter(values, l, k)}
<1>1. IsFiniteSet(1..n)
  BY FS_Interval
<1>2. IsFiniteSet(Below(i)) /\ Below(j) \in SUBSET Below(i) /\ i \in Below(i) /\ i \notin Below(j)
  <2>1. Below(j) \subseteq Below(i)
    BY DEF NotAfter
  <2>2. Below(i) \in SUBSET (1..n)
    OBVIOUS
  <2>3. IsFiniteSet(Below(i))
    BY <1>1, <2>2, FS_Subset
  <2>4. i \in Below(i) /\ i \notin Below(j)
    BY DEF NotAfter
  <2>5. QED
    BY <2>1, <2>3, <2>4
<1>3. /\ IsFiniteSet(Below(j)) /\ Cardinality(Below(j)) <= Cardinality(Below(i))
      /\ Cardinality(Below(i)) # Cardinality(Below(j))
  BY <1>2, FS_Subset
<1>4. Cardinality(Below(i)) \in Nat /\ Cardinality(Below(j)) \in Nat
  BY <1>2, <1>3, FS_CardinalityType
<1> HIDE DEF Below
<1>5. Place(values, n)[i] = Cardinality(Below(i)) /\ Place(values, n)[j] = Cardinality(Below(j))
  BY DEF Place, Below
<1>6. QED
  BY <1>3, <1>4, <1>5

LEMMA PlaceInRange ==
  ASSUME NEW n \in Nat, NEW values \in [1..n -> Int]
  PROVE  Place(values, n) \in [1..n -> 1..n]
<1> SUFFICES ASSUME NEW i \in 1..n PROVE Cardinality({j \in 1..n : NotAfter(values, j, i)}) \in 1..n
  BY DEF Place
<1> DEFINE Below == {j \in 1..n : NotAfter(values, j, i)}
<1>1. IsFiniteSet(1..n) /\ Cardinality(1..n) = n
  BY FS_Interval
<1>2. Below \in SUBSET (1..n) /\ i \in Below
  BY DEF NotAfter
<1> HIDE DEF Below
<1>3. IsFiniteSet(Below) /\ Cardinality(Below) <= n
  <2>1. IsFiniteSet(Below) /\ Cardinality(Below) <= Cardinality(1..n)
    BY <1>1, <1>2, FS_Subset, Zenon
  <2>2. QED
    BY <1>1, <2>1
<1>4. Cardinality(Below) \in Nat /\ Cardinality(Below) # 0
  BY <1>2, <1>3, FS_CardinalityType, FS_EmptySet
<1>5. QED
  BY <1>3, <1>4 DEF Below

\* Every finite list of numbers can be sorted.
LEMMA SortingExists ==
  ASSUME NEW n \in Nat, NEW values \in [1..n -> Int]
  PROVE  \E f \in Bijection(1..n, 1..n) : \A i, j \in 1..n : i < j => values[f[i]] <= values[f[j]]
<1> DEFINE place == Place(values, n)
           order == Inverse(place, 1..n, 1..n)
<1>1. place \in [1..n -> 1..n]
  BY PlaceInRange
<1>2. \A i, j \in 1..n : place[i] = place[j] => i = j
  <2>1. SUFFICES ASSUME NEW i \in 1..n, NEW j \in 1..n, place[i] = place[j], i # j PROVE FALSE
    OBVIOUS
  <2>2. ~NotAfter(values, i, j) \/ ~NotAfter(values, j, i)
    BY <2>1 DEF NotAfter
  <2>3. place[i] < place[j] \/ place[j] < place[i]
    BY <2>2, PlaceGrows
  <2>4. QED
    BY <1>1, <2>1, <2>3
<1>3. place \in Bijection(1..n, 1..n)
  <2>1. place \in Injection(1..n, 1..n)
    BY <1>1, <1>2, Fun_IsInj
  <2>2. IsFiniteSet(1..n)
    BY FS_Interval
  <2>3. place \in Surjection(1..n, 1..n)
    BY <2>1, <2>2, FS_Injection
  <2>4. QED
    BY <2>1, <2>3, Fun_IsBij
<1>4. order \in Bijection(1..n, 1..n) /\ \A i \in 1..n : place[order[i]] = i
  <2>1. order \in Bijection(1..n, 1..n) /\ Range(place) = 1..n
    BY <1>3, Fun_BijInverse, Fun_BijectionProperties, Fun_SurjectionProperties
  <2>2. QED
    BY <1>1, <2>1, Fun_InverseProperties
<1> HIDE DEF place, order
<1>5. order \in [1..n -> 1..n]
  BY <1>4, Fun_BijectionProperties, Zenon
<1>6. ASSUME NEW i \in 1..n, NEW j \in 1..n, i < j PROVE values[order[i]] <= values[order[j]]
  <2>1. order[i] \in 1..n /\ order[j] \in 1..n /\ place[order[i]] < place[order[j]]
    BY <1>4, <1>5, <1>6
  <2>2. ~(place[order[j]] < place[order[i]])
    BY <1>4, <1>6
  <2>3. NotAfter(values, order[i], order[j])
    BY <2>1, <2>2, PlaceGrows DEF place
  <2>4. QED
    BY <1>5, <2>1, <2>3 DEF NotAfter
<1>7. QED
  BY <1>4, <1>6

\* What Ascending returns: the entries in another order, none above a later one.
LEMMA AscendingSorts ==
  ASSUME NEW n \in Nat, NEW values \in [1..n -> Int]
  PROVE  \E f \in Bijection(1..n, 1..n) :
           /\ Ascending(values) = [i \in 1..n |-> values[f[i]]]
           /\ \A i, j \in 1..n : i < j => values[f[i]] <= values[f[j]]
<1> DEFINE Sorts(f) == \A i, j \in DOMAIN values : i < j => values[f[i]] <= values[f[j]]
           order == CHOOSE f \in Bijection(DOMAIN values, DOMAIN values) : Sorts(f)
<1>1. DOMAIN values = 1..n
  OBVIOUS
<1>2. Ascending(values) = [i \in DOMAIN values |-> values[order[i]]]
  BY Zenon DEF Ascending
<1>3. \E f \in Bijection(DOMAIN values, DOMAIN values) : Sorts(f)
  <2>1. \E f \in Bijection(1..n, 1..n) : \A i, j \in 1..n : i < j => values[f[i]] <= values[f[j]]
    BY SortingExists
  <2>2. QED
    BY <1>1, <2>1
<1> HIDE DEF Sorts
<1>4. order \in Bijection(DOMAIN values, DOMAIN values) /\ Sorts(order)
  BY <1>3, Zenon
<1> HIDE DEF order
<1>5. QED
  BY <1>1, <1>2, <1>4, Zenon DEF Sorts

-----------------------------------------------------------------------------
(* The rank.                                                               *)

LEMMA RankOfPercentile ==
  ASSUME NEW n \in Nat, n # 0, NEW p \in {50, 90}
  PROVE  LET rank == (p * n + 99) \div 100
         IN  rank \in 1..n /\ 100 * rank >= p * n /\ 100 * (rank - 1) < p * n
<1>1. CASE p = 50
  BY <1>1
<1>2. CASE p = 90
  BY <1>2
<1>3. QED
  BY <1>1, <1>2

\* A rank within the list is the index that is used.
LEMMA RankIsIndex ==
  ASSUME NEW n \in Nat, NEW rank \in 1..n
  PROVE  Max({1, Min({rank, n})}) = rank
<1>1. Min({rank, n}) = rank
  BY DEF Min
<1>2. Max({1, rank}) = rank
  BY DEF Max
<1>3. QED
  BY <1>1, <1>2

\* A set of finite size is listed once over by SetToSeq.
LEMMA SetToSeqLists ==
  ASSUME NEW S, IsFiniteSet(S)
  PROVE  SetToSeq(S) \in Bijection(1..Cardinality(S), S)
<1> DEFINE n == Cardinality(S)
<1>1. n \in Nat /\ ExistsBijection(1..n, S)
  BY FS_CardinalityType
<1>2. PICK g : g \in Bijection(1..n, S)
  BY <1>1 DEF ExistsBijection
<1>3. g \in [1..n -> S] /\ IsInjective(g)
  BY <1>2, Zenon DEF Bijection, Injection
<1> HIDE DEF n
<1>4. SetToSeq(S) \in [1..n -> S] /\ IsInjective(SetToSeq(S))
  BY <1>3, Zenon DEF SetToSeq, n
<1>5. SetToSeq(S) \in Injection(1..n, S)
  BY <1>4, Zenon DEF Injection
<1>6. IsFiniteSet(1..n) /\ Cardinality(1..n) = n
  BY <1>1, FS_Interval DEF n
<1>7. SetToSeq(S) \in Surjection(1..n, S)
  BY <1>5, <1>6, FS_Injection, Zenon DEF n
<1>8. QED
  BY <1>5, <1>7, Zenon DEF Bijection, n

-----------------------------------------------------------------------------
(* Counting along a sorted list: the entry at a rank has at least that     *)
(* many not above it, and fewer are not above anything below it.           *)

LEMMA CountUpToRank ==
  ASSUME NEW S, IsFiniteSet(S), NEW n \in Nat, NEW g \in Bijection(1..n, S),
         NEW d \in [S -> Int], \A i, j \in 1..n : i < j => d[g[i]] <= d[g[j]],
         NEW r \in 1..n
  PROVE  Cardinality({q \in S : d[q] <= d[g[r]]}) \in Nat
         /\ Cardinality({q \in S : d[q] <= d[g[r]]}) >= r
<1> DEFINE N == {q \in S : d[q] <= d[g[r]]}
           h == [i \in 1..r |-> g[i]]
<1>1. g \in [1..n -> S] /\ \A i, j \in 1..n : g[i] = g[j] => i = j
  BY Fun_BijectionProperties
<1>2. h \in [1..r -> N] /\ \A i, j \in 1..r : h[i] = h[j] => i = j
  BY <1>1
<1>3. N \in SUBSET S
  OBVIOUS
<1> HIDE DEF N, h
<1>4. IsFiniteSet(N)
  BY <1>3, FS_Subset, Zenon
<1>5. h \in Injection(1..r, N)
  BY <1>2, Fun_IsInj, Zenon
<1>6. Cardinality(1..r) <= Cardinality(N)
  BY <1>4, <1>5, FS_Injection, Zenon
<1>7. Cardinality(1..r) = r
  BY FS_Interval
<1>8. Cardinality(N) \in Nat
  BY <1>4, FS_CardinalityType, Zenon
<1>9. QED
  BY <1>6, <1>7, <1>8 DEF N

LEMMA CountBelowRank ==
  ASSUME NEW S, IsFiniteSet(S), NEW n \in Nat, NEW g \in Bijection(1..n, S),
         NEW d \in [S -> Int], \A i, j \in 1..n : i < j => d[g[i]] <= d[g[j]],
         NEW r \in 1..n, NEW x \in Int, x < d[g[r]]
  PROVE  Cardinality({q \in S : d[q] <= x}) \in Nat
         /\ Cardinality({q \in S : d[q] <= x}) <= r - 1
<1> DEFINE N == {q \in S : d[q] <= x}
           at == Inverse(g, 1..n, S)
           h == [q \in N |-> at[q]]
<1>1. g \in [1..n -> S]
  BY Fun_BijectionProperties
<1>2. at \in [S -> 1..n] /\ \A a, b \in S : at[a] = at[b] => a = b
  BY Fun_BijInverse, Fun_BijectionProperties
<1>3. \A q \in S : g[at[q]] = q
  <2>1. Range(g) = S
    BY Fun_BijectionProperties, Fun_SurjectionProperties
  <2>2. QED
    BY <1>1, <2>1, Fun_InverseProperties
<1> HIDE DEF at
<1>4. ASSUME NEW q \in N PROVE at[q] \in 1..(r - 1)
  <2>1. at[q] \in 1..n /\ d[g[at[q]]] <= x /\ d[g[at[q]]] \in Int
    BY <1>2, <1>3
  <2>2. d[g[r]] \in Int
    BY <1>1
  <2>3. ~(r < at[q]) /\ r # at[q]
    BY <2>1, <2>2
  <2>4. QED
    BY <2>1, <2>3
<1>5. h \in [N -> 1..(r - 1)] /\ \A a, b \in N : h[a] = h[b] => a = b
  BY <1>2, <1>4
<1>6. N \in SUBSET S
  OBVIOUS
<1> HIDE DEF N, h
<1>7. IsFiniteSet(N)
  BY <1>6, FS_Subset, Zenon
<1>8. h \in Injection(N, 1..(r - 1))
  BY <1>5, Fun_IsInj, Zenon
<1>9. IsFiniteSet(1..(r - 1)) /\ Cardinality(1..(r - 1)) = r - 1
  <2>1. r - 1 \in Nat
    OBVIOUS
  <2>2. ASSUME NEW m \in Nat PROVE IsFiniteSet(1..m) /\ Cardinality(1..m) = m
    <3>1. 1 \in Int /\ m \in Int
      OBVIOUS
    <3>2. IsFiniteSet(1..m) /\ Cardinality(1..m) = IF 1 > m THEN 0 ELSE m - 1 + 1
      BY <3>1, FS_Interval, Zenon
    <3>3. QED
      BY <3>2
  <2>3. QED
    BY <2>1, <2>2, Zenon
<1>10. Cardinality(N) <= Cardinality(1..(r - 1))
  BY <1>8, <1>9, FS_Injection, Zenon
<1>11. Cardinality(N) \in Nat
  BY <1>7, FS_CardinalityType, Zenon
<1>12. QED
  BY <1>9, <1>10, <1>11 DEF N

-----------------------------------------------------------------------------
(* The percentiles of a report.                                            *)

\* There are finitely many response times, and they are numbers.
LEMMA MeasuredTimes ==
  ASSUME PresenceTypeOK, MeasuredOnce
  PROVE  IsFiniteSet(measured) /\ \A q \in measured : Delta(q) \in Int
<1>1. IsFiniteSet(measured)
  <2>1. IsFiniteSet(1..MaxRows)
    BY PresenceBoundsAssumption, FS_Interval
  <2>2. IsFiniteSet((1..MaxRows) \X (1..MaxRows))
    BY <2>1, FS_Product
  <2>3. measured \in SUBSET ((1..MaxRows) \X (1..MaxRows))
    BY DEF PresenceTypeOK
  <2>4. QED
    BY <2>2, <2>3, FS_Subset, Zenon
<1>2. ASSUME NEW q \in measured PROVE Delta(q) \in Int
  <2>1. messageRows \in Seq(MessageRow)
    BY DEF PresenceTypeOK
  <2>2. q[1] \in 1..Len(messageRows) /\ q[2] \in 1..Len(messageRows)
    BY DEF MeasuredOnce, AnsweredNext
  <2>3. messageRows[q[1]] \in MessageRow /\ messageRows[q[2]] \in MessageRow
    BY <2>1, <2>2
  <2>4. messageRows[q[1]].time \in Nat /\ messageRows[q[2]].time \in Nat
    BY <2>3, TimesAssumption DEF MessageRow
  <2>5. QED
    BY <2>4 DEF Delta
<1>3. QED
  BY <1>1, <1>2

\* d[q] for each q of a set, in the order in which g lists them.
Lists(values, n, g, d) == \A i \in 1..n : values[i] = d[g[i]]

InOrder(n, g, d) == \A i, j \in 1..n : i < j => d[g[i]] <= d[g[j]]

\* v is the smallest of the numbers d[q] which, of n, enough others do not exceed.
SmallestReaching(v, S, d, needed) ==
  LET Reaches(x) == 100 * Cardinality({q \in S : d[q] <= x}) >= needed
  IN  /\ v \in {d[q] : q \in S} /\ Reaches(v)
      /\ \A x \in {d[q] : q \in S} : Reaches(x) => v <= x

LEMMA Reordered ==
  ASSUME NEW n \in Nat, NEW S, NEW pairs \in Bijection(1..n, S), NEW f \in Bijection(1..n, 1..n)
  PROVE  \E g \in Bijection(1..n, S) : \A i \in 1..n : g[i] = pairs[f[i]]
<1>1. [i \in 1..n |-> pairs[f[i]]] \in Bijection(1..n, S)
  BY Fun_BijTransitive
<1>2. QED
  BY <1>1

\* A sorted list of numbers d[q], one for each q, visits every q once.
LEMMA AscendingVisits ==
  ASSUME NEW n \in Nat, NEW S, NEW pairs \in Bijection(1..n, S), NEW d \in [S -> Int],
         NEW values \in [1..n -> Int], Lists(values, n, pairs, d)
  PROVE  \E g \in Bijection(1..n, S) : Lists(Ascending(values), n, g, d) /\ InOrder(n, g, d)
<1>1. PICK f \in Bijection(1..n, 1..n) :
        /\ Ascending(values) = [i \in 1..n |-> values[f[i]]]
        /\ \A i, j \in 1..n : i < j => values[f[i]] <= values[f[j]]
  BY AscendingSorts
<1>2. f \in [1..n -> 1..n]
  BY <1>1, Fun_BijectionProperties, Zenon
<1>3. f \in Bijection(1..n, 1..n)
  BY <1>1, Zenon
<1>4. PICK g \in Bijection(1..n, S) : \A i \in 1..n : g[i] = pairs[f[i]]
  BY <1>3, Reordered
<1>5. \A i \in 1..n : values[f[i]] = d[g[i]]
  BY <1>2, <1>4 DEF Lists
<1>6. Lists(Ascending(values), n, g, d)
  BY <1>1, <1>5 DEF Lists
<1>7. InOrder(n, g, d)
  BY <1>1, <1>5 DEF InOrder
<1>8. QED
  BY <1>6, <1>7

\* The entry of a sorted list at the rank is the nearest rank.
LEMMA EntryAtRank ==
  ASSUME NEW S, IsFiniteSet(S), NEW n \in Nat, NEW g \in Bijection(1..n, S),
         NEW d \in [S -> Int], InOrder(n, g, d),
         NEW needed \in Nat, NEW rank \in 1..n, 100 * rank >= needed, 100 * (rank - 1) < needed
  PROVE  SmallestReaching(d[g[rank]], S, d, needed)
<1>1. g[rank] \in S
  BY Fun_BijectionProperties
<1>2. 100 * Cardinality({q \in S : d[q] <= d[g[rank]]}) >= needed
  <2>1. /\ Cardinality({q \in S : d[q] <= d[g[rank]]}) \in Nat
        /\ Cardinality({q \in S : d[q] <= d[g[rank]]}) >= rank
    BY CountUpToRank DEF InOrder
  <2>2. ASSUME NEW c \in Nat, c >= rank PROVE 100 * c >= needed
    BY <2>2
  <2>3. QED
    BY <2>1, <2>2
<1>3. ASSUME NEW x \in {d[q] : q \in S},
             100 * Cardinality({q \in S : d[q] <= x}) >= needed
      PROVE  d[g[rank]] <= x
  <2>1. x \in Int /\ d[g[rank]] \in Int
    BY <1>1
  <2>2. SUFFICES ASSUME x < d[g[rank]] PROVE FALSE
    BY <2>1
  <2>3. /\ Cardinality({q \in S : d[q] <= x}) \in Nat
        /\ Cardinality({q \in S : d[q] <= x}) <= rank - 1
    BY <2>1, <2>2, CountBelowRank DEF InOrder
  <2>4. ASSUME NEW c \in Nat, c <= rank - 1 PROVE ~(100 * c >= needed)
    BY <2>4
  <2>5. QED
    BY <1>3, <2>3, <2>4
<1>4. QED
  BY <1>1, <1>2, <1>3 DEF SmallestReaching

LEMMA PercentileOfReport ==
  ASSUME IsFiniteSet(measured), \A q \in measured : Delta(q) \in Int, measured # {},
         NEW p \in {50, 90}
  PROVE  IsNearestRank(Percentile(ResponseMinutes, p)[1], p)
<1>1. PICK n \in Nat : n = Cardinality(measured) /\ n # 0
  BY FS_CardinalityType, FS_EmptySet
<1>2. PICK pairs \in Bijection(1..n, measured) : pairs = SetToSeq(measured)
  BY <1>1, SetToSeqLists
<1>3. pairs \in [1..n -> measured]
  BY <1>2, Fun_BijectionProperties, Zenon
<1>4. PICK d \in [measured -> Int] : \A q \in measured : d[q] = Delta(q)
  <2>1. [q \in measured |-> Delta(q)] \in [measured -> Int]
    OBVIOUS
  <2>2. QED
    BY <2>1
<1>5. PICK values \in [1..n -> Int] :
        ResponseMinutes = values /\ Lists(values, n, pairs, d)
  <2>1. ResponseMinutes = [i \in 1..n |-> Delta(pairs[i])]
    BY <1>2, <1>3 DEF ResponseMinutes
  <2>2. [i \in 1..n |-> Delta(pairs[i])] \in [1..n -> Int]
    BY <1>3
  <2>3. QED
    BY <1>3, <1>4, <2>1, <2>2 DEF Lists
<1>6. PICK g \in Bijection(1..n, measured) :
        Lists(Ascending(values), n, g, d) /\ InOrder(n, g, d)
  BY <1>5, AscendingVisits
<1>7. PICK rank \in 1..n, needed \in Nat :
        /\ rank = (p * n + 99) \div 100 /\ needed = p * n
        /\ 100 * rank >= needed /\ 100 * (rank - 1) < needed
  <2>1. p * n \in Nat
    OBVIOUS
  <2>2. QED
    BY <1>1, <2>1, RankOfPercentile
<1>8. Percentile(values, p) = <<Ascending(values)[rank]>>
  <2>1. Len(values) = n /\ values # <<>>
    BY <1>1
  <2>2. QED
    BY <1>7, <2>1, RankIsIndex, Zenon DEF Percentile
<1>9. Percentile(ResponseMinutes, p)[1] = d[g[rank]]
  BY <1>5, <1>6, <1>8 DEF Lists
<1>10. SmallestReaching(d[g[rank]], measured, d, needed)
  BY <1>6, <1>7, EntryAtRank
<1>11. {Delta(q) : q \in measured} = {d[q] : q \in measured}
  BY <1>4
<1>12. \A x : {q \in measured : Delta(q) <= x} = {q \in measured : d[q] <= x}
  BY <1>4
<1>13. p * Cardinality(measured) = needed
  BY <1>1, <1>7, Zenon
<1>14. IsNearestRank(d[g[rank]], p)
  <2>1. /\ d[g[rank]] \in {d[q] : q \in measured}
        /\ 100 * Cardinality({q \in measured : d[q] <= d[g[rank]]}) >= needed
        /\ \A x \in {d[q] : q \in measured} :
             100 * Cardinality({q \in measured : d[q] <= x}) >= needed => d[g[rank]] <= x
    BY <1>10, Zenon DEF SmallestReaching
  <2>2. 100 * Cardinality({q \in measured : Delta(q) <= d[g[rank]]}) >= needed
    <3>1. {q \in measured : Delta(q) <= d[g[rank]]} = {q \in measured : d[q] <= d[g[rank]]}
      BY <1>12
    <3>2. QED
      BY <2>1, <3>1
  <2>3. ASSUME NEW x \in {Delta(q) : q \in measured},
               100 * Cardinality({q \in measured : Delta(q) <= x}) >= needed
        PROVE  d[g[rank]] <= x
    <3>1. {q \in measured : Delta(q) <= x} = {q \in measured : d[q] <= x}
      BY <1>12
    <3>2. 100 * Cardinality({q \in measured : d[q] <= x}) >= needed
      BY <2>3, <3>1
    <3>3. QED
      BY <1>11, <2>1, <3>2, Zenon
  <2>4. QED
    BY <1>11, <1>13, <2>1, <2>2, <2>3, Zenon DEF IsNearestRank
<1>15. QED
  BY <1>9, <1>14

\* GET /report: the median and the 90th percentile are the smallest response times
\* that half, and nine in ten, of them do not exceed, whatever rows there are.
THEOREM PercentilesAreNearestRanks == PresenceSpec => []PercentilesAreRanks
<1>1. PresenceInv => PercentilesAreRanks
  <2> SUFFICES ASSUME PresenceInv, NEW p \in {50, 90}
               PROVE  LET v == Percentile(ResponseMinutes, p) IN
                      IF measured = {} THEN v = <<>> ELSE IsNearestRank(v[1], p)
    BY DEF PercentilesAreRanks
  <2>1. IsFiniteSet(measured) /\ \A q \in measured : Delta(q) \in Int
    BY MeasuredTimes DEF PresenceInv
  <2>2. CASE measured # {}
    BY <2>1, <2>2, PercentileOfReport
  <2>3. CASE measured = {}
    <3>1. SetToSeq({}) \in Bijection(1..0, {})
      BY SetToSeqLists, FS_EmptySet
    <3>2. DOMAIN SetToSeq({}) = {}
      BY <3>1, Fun_BijectionProperties
    <3>3. ResponseMinutes = <<>>
      BY <2>3, <3>2 DEF ResponseMinutes
    <3>4. QED
      BY <2>3, <3>3 DEF Percentile
  <2>4. QED
    BY <2>2, <2>3
<1>2. QED
  BY <1>1, PresenceInvariant, PTL

=============================================================================
