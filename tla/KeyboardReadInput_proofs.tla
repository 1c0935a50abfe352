---------------------- MODULE KeyboardReadInput_proofs ----------------------
(***************************************************************************)
(* Proofs about Percentile and KeyboardReadInput, for every size of the    *)
(* array and of the table, all latencies and every order of keys.          *)
(***************************************************************************)
EXTENDS KeyboardReadInput, SequenceTheorems, FunctionTheorems, FiniteSetTheorems, TLAPS

-----------------------------------------------------------------------------
(* Numbers.                                                                 *)

\* The index of a percentile is exact, as the number of measurements is a
\* multiple of the number of percentiles.
LEMMA IndexFacts ==
  ASSUME NEW i \in 1 .. NumberOfPercentiles
  PROVE  /\ Index(i) \in 1 .. MaximumNumberOfMeasurementses
         /\ Index(i) * NumberOfPercentiles = i * MaximumNumberOfMeasurementses
<1> DEFINE N == NumberOfPercentiles
           M == MaximumNumberOfMeasurementses
           c == M \div N
<1>1. N \in Nat \ {0} /\ M \in Nat \ {0} /\ M % N = 0 /\ i \in 1 .. N
  BY PercentileAssumption
<1>2. c \in Nat /\ M = N * c
  BY <1>1
<1> HIDE DEF c
<1>3. c \in Nat \ {0}
  BY <1>1, <1>2
<1>4. i * M = N * (i * c) /\ i * c \in Nat
  BY <1>1, <1>2
<1>5. (N * (i * c)) \div N = i * c
  BY <1>1, <1>4
<1>6. Index(i) = i * c
  BY <1>4, <1>5 DEF Index
<1>7. i * c <= N * c /\ i * c >= 1
  BY <1>1, <1>3
<1>8. QED
  BY <1>1, <1>2, <1>4, <1>6, <1>7

\* An int tells the order of two latencies that are not too far apart.
LEMMA CompareOrders ==
  ASSUME NEW a \in Nat, NEW b \in Nat, a - b < IntLimit, b - a < IntLimit
  PROVE  CompareValuesForSorting(a, b) <= 0 <=> a <= b
<1> DEFINE x == a - b + IntLimit
<1>1. IntLimit \in Nat \ {0} /\ x \in 0 .. 2 * IntLimit - 1
  BY PercentileAssumption
<1> HIDE DEF x
<1>2. x % (2 * IntLimit) = x
  BY <1>1
<1>3. CompareValuesForSorting(a, b) = x - IntLimit
  BY <1>2 DEF CompareValuesForSorting, x
<1>4. QED
  BY <1>1, <1>3 DEF x

-----------------------------------------------------------------------------
(* Arrangements of a list.                                                  *)

\* They have its length and its elements.
LEMMA ArrangedFacts ==
  ASSUME NEW S, NEW s \in Seq(S), NEW t \in Arrangements(s)
  PROVE  /\ t \in Seq(S) /\ Len(t) = Len(s) /\ DOMAIN t = DOMAIN s
         /\ \E p \in Bijection(DOMAIN s, DOMAIN s) :
              \A i \in DOMAIN s : t[i] = s[p[i]] /\ p[i] \in DOMAIN s
<1>1. DOMAIN s = 1 .. Len(s) /\ Len(s) \in Nat
  BY LenProperties
<1>2. PICK p \in Bijection(DOMAIN s, DOMAIN s) : t = [i \in DOMAIN s |-> s[p[i]]]
  BY DEF Arrangements
<1>3. \A i \in DOMAIN s : p[i] \in DOMAIN s
  BY Fun_BijectionProperties
<1>4. \A i \in DOMAIN s : s[p[i]] \in S
  BY <1>1, <1>3, ElementOfSeq
<1>5. t \in [1 .. Len(s) -> S]
  BY <1>1, <1>2, <1>4
<1>6. t \in Seq(S) /\ Len(t) = Len(s)
  BY <1>1, <1>5, SeqDef, LenProperties
<1>7. QED
  BY <1>1, <1>2, <1>3, <1>5, <1>6

\* A list is an arrangement of itself.
LEMMA ArrangedSelf ==
  ASSUME NEW S, NEW s \in Seq(S)
  PROVE  s \in Arrangements(s)
<1> DEFINE p == [i \in DOMAIN s |-> i]
<1>1. p \in Bijection(DOMAIN s, DOMAIN s)
  BY Fun_IsBij
<1>2. s = [i \in DOMAIN s |-> s[p[i]]]
  BY LenProperties
<1> HIDE DEF p
<1>3. QED
  BY <1>1, <1>2 DEF Arrangements

\* To arrange it once more makes another arrangement of it.
LEMMA ArrangedTwice ==
  ASSUME NEW S, NEW s \in Seq(S), NEW t \in Arrangements(s), NEW u \in Arrangements(t)
  PROVE  u \in Arrangements(s)
<1> DEFINE D == DOMAIN s
<1>1. /\ t \in Seq(S) /\ DOMAIN t = D
  BY ArrangedFacts
<1>2. PICK p \in Bijection(D, D) : t = [i \in D |-> s[p[i]]]
  BY DEF Arrangements
<1>3. PICK q \in Bijection(D, D) : u = [i \in D |-> t[q[i]]]
  BY <1>1 DEF Arrangements
<1> DEFINE r == [i \in D |-> p[q[i]]]
<1>4. r \in Bijection(D, D)
  BY Fun_BijTransitive
<1>5. \A i \in D : q[i] \in D
  BY Fun_BijectionProperties
<1>6. u = [i \in D |-> s[r[i]]]
  BY <1>2, <1>3, <1>5
<1> HIDE DEF r
<1>7. QED
  BY <1>4, <1>6 DEF Arrangements

\* How many elements do not exceed v does not depend on the arrangement.
LEMMA RankArranged ==
  ASSUME NEW S, NEW s \in Seq(S), NEW t \in Arrangements(s), NEW v
  PROVE  Rank(t, v) = Rank(s, v)
<1> DEFINE D == DOMAIN s
           A == { j \in D : t[j] <= v }
           B == { j \in D : s[j] <= v }
<1>1. PICK p \in Bijection(D, D) : \A i \in D : t[i] = s[p[i]] /\ p[i] \in D
  BY ArrangedFacts
<1>2. /\ \A a, b \in D : p[a] = p[b] => a = b
      /\ \A d \in D : \E i \in D : p[i] = d
  BY Fun_BijectionProperties
<1> DEFINE f == [j \in A |-> p[j]]
<1>3. f \in [A -> B]
  BY <1>1
<1>4. \A a, b \in A : f[a] = f[b] => a = b
  BY <1>2
<1>5. \A d \in B : \E j \in A : f[j] = d
  BY <1>1, <1>2
<1>6. f \in Bijection(A, B)
  <2> HIDE DEF f, A, B
  <2>1. QED
    BY <1>3, <1>4, <1>5, Fun_IsBij
<1>7. IsFiniteSet(A)
  <2>1. D = 1 .. Len(s) /\ Len(s) \in Nat
    BY LenProperties
  <2>2. IsFiniteSet(D)
    BY <2>1, FS_Interval
  <2>3. A \in SUBSET D
    OBVIOUS
  <2>4. QED
    BY <2>2, <2>3, FS_Subset
<1>8. Cardinality(B) = Cardinality(A)
  <2> HIDE DEF f, A, B
  <2>1. ExistsBijection(A, B)
    BY <1>6 DEF ExistsBijection
  <2>2. QED
    BY <1>7, <2>1, FS_Bijection
<1>9. DOMAIN t = D
  BY ArrangedFacts
<1>10. QED
  BY <1>8, <1>9 DEF Rank

-----------------------------------------------------------------------------
(* Sorting.                                                                 *)

\* What the comparator finds in order is in order.
LEMMA OrderOfInts ==
  ASSUME NEW s \in Seq(Nat), FitInt(s)
  PROVE  InOrder(s) <=> \A i, j \in DOMAIN s : i < j => s[i] <= s[j]
<1>1. ASSUME NEW i \in DOMAIN s, NEW j \in DOMAIN s
      PROVE  CompareValuesForSorting(s[i], s[j]) <= 0 <=> s[i] <= s[j]
  <2>1. s[i] \in Nat /\ s[j] \in Nat
    BY LenProperties, ElementOfSeq
  <2>2. s[i] - s[j] < IntLimit /\ s[j] - s[i] < IntLimit
    BY DEF FitInt
  <2>3. QED
    BY <2>1, <2>2, CompareOrders
<1>2. QED
  BY <1>1 DEF InOrder

\* Every list can be sorted: an element goes where as many others precede it.
LEMMA SortExists ==
  ASSUME NEW s \in Seq(Nat)
  PROVE  \E t \in Arrangements(s) : \A i, j \in DOMAIN s : i < j => t[i] <= t[j]
<1> DEFINE n == Len(s)
           D == 1 .. n
           Before(j, k) == s[j] < s[k] \/ (s[j] = s[k] /\ j < k)
           Upto(k) == { j \in D : j = k \/ Before(j, k) }
           pos == [k \in D |-> Cardinality(Upto(k))]
<1>1. DOMAIN s = D /\ n \in Nat /\ \A k \in D : s[k] \in Nat
  BY LenProperties, ElementOfSeq
<1> HIDE DEF n
<1>2. IsFiniteSet(D) /\ Cardinality(D) = n
  <2>1. 1 \in Int /\ n \in Int
    BY <1>1
  <2>2. /\ IsFiniteSet(1 .. n)
        /\ Cardinality(1 .. n) = IF 1 > n THEN 0 ELSE n - 1 + 1
    BY <2>1, FS_Interval
  <2>3. QED
    BY <1>1, <2>2
<1>3. ASSUME NEW k \in D
      PROVE  IsFiniteSet(Upto(k)) /\ Cardinality(Upto(k)) \in D
  <2>1. Upto(k) \in SUBSET D /\ k \in Upto(k)
    OBVIOUS
  <2> HIDE DEF Upto
  <2>2. IsFiniteSet(Upto(k)) /\ Cardinality(Upto(k)) <= n
    BY <1>2, <2>1, FS_Subset
  <2>3. Cardinality(Upto(k)) \in Nat /\ Cardinality(Upto(k)) # 0
    BY <2>1, <2>2, FS_CardinalityType, FS_EmptySet
  <2>4. QED
    BY <1>1, <2>2, <2>3
<1>4. ASSUME NEW k \in D, NEW l \in D, Before(k, l)
      PROVE  pos[k] < pos[l]
  <2>1. /\ s[k] \in Nat /\ s[l] \in Nat /\ k \in Nat /\ l \in Nat
        /\ \A j \in D : s[j] \in Nat /\ j \in Nat
    BY <1>1
  <2>2. Upto(k) \subseteq Upto(l)
    BY <1>4, <2>1
  <2>3. l \notin Upto(k) /\ l \in Upto(l)
    BY <1>4, <2>1
  <2>4. pos[k] = Cardinality(Upto(k)) /\ pos[l] = Cardinality(Upto(l))
    OBVIOUS
  <2> HIDE DEF Upto, pos
  <2>5. Cardinality(Upto(k)) <= Cardinality(Upto(l)) /\ Upto(k) # Upto(l)
    BY <1>3, <2>2, <2>3, FS_Subset
  <2>6. Cardinality(Upto(k)) # Cardinality(Upto(l))
    BY <1>3, <2>2, <2>5, FS_Subset
  <2>7. Cardinality(Upto(k)) \in Nat /\ Cardinality(Upto(l)) \in Nat
    BY <1>3
  <2>8. QED
    BY <2>4, <2>5, <2>6, <2>7
<1>5. pos \in [D -> D]
  <2> HIDE DEF Upto
  <2>1. QED
    BY <1>3
<1>6. ASSUME NEW k \in D, NEW l \in D, k # l
      PROVE  Before(k, l) \/ Before(l, k)
  <2>1. s[k] \in Nat /\ s[l] \in Nat /\ k \in Nat /\ l \in Nat
    BY <1>1
  <2>2. QED
    BY <1>6, <2>1
<1> HIDE DEF pos
<1>7. pos \in Bijection(D, D)
  <2>1. ASSUME NEW k \in D, NEW l \in D, pos[k] = pos[l]
        PROVE  k = l
    <3>1. pos[k] \in Nat /\ pos[l] \in Nat
      BY <1>1, <1>5
    <3> HIDE DEF Before
    <3>2. QED
      BY <1>4, <1>6, <2>1, <3>1
  <2>2. pos \in Injection(D, D)
    BY <1>5, <2>1 DEF Injection, IsInjective
  <2>3. pos \in Surjection(D, D)
    BY <1>2, <2>2, FS_Injection
  <2>4. QED
    BY <2>2, <2>3, Fun_IsBij
<1> DEFINE p == Inverse(pos, D, D)
<1>8. p \in Bijection(D, D)
  BY <1>7, Fun_BijInverse
<1>9. \A i \in D : p[i] \in D /\ pos[p[i]] = i
  <2>1. \A k \in D : p[pos[k]] = k
    BY <1>7, Fun_BijInverse
  <2>2. \A i \in D : \E k \in D : pos[k] = i
    <3> HIDE DEF D
    <3>1. QED
      BY <1>7, Fun_BijectionProperties
  <2>3. \A i \in D : p[i] \in D
    <3> HIDE DEF D, p
    <3>1. QED
      BY <1>8, Fun_BijectionProperties
  <2> HIDE DEF p
  <2>4. QED
    BY <2>1, <2>2, <2>3
<1> HIDE DEF p
<1> DEFINE t == [i \in D |-> s[p[i]]]
<1>10. t \in Arrangements(s)
  BY <1>1, <1>8 DEF Arrangements
<1>11. ASSUME NEW i \in D, NEW j \in D, i < j
       PROVE  t[i] <= t[j]
  <2>1. p[i] \in D /\ p[j] \in D /\ pos[p[i]] = i /\ pos[p[j]] = j
    BY <1>9
  <2>2. ~Before(p[j], p[i])
    <3>1. Before(p[j], p[i]) => pos[p[j]] < pos[p[i]]
      <4> HIDE DEF Before
      <4>1. QED
        BY <1>4, <2>1
    <3>2. i \in Nat /\ j \in Nat
      BY <1>1
    <3> HIDE DEF Before
    <3>3. QED
      BY <1>11, <2>1, <3>1, <3>2
  <2>3. s[p[i]] \in Nat /\ s[p[j]] \in Nat
    BY <1>1, <2>1
  <2>4. s[p[i]] <= s[p[j]]
    BY <2>2, <2>3
  <2>5. QED
    BY <2>4
<1>12. QED
  <2> HIDE DEF t
  <2>1. QED
    BY <1>1, <1>10, <1>11

\* The elements of an arrangement are those of the list.
LEMMA ArrangedFits ==
  ASSUME NEW S, NEW s \in Seq(S), NEW t \in Arrangements(s), FitInt(s)
  PROVE  FitInt(t)
<1>1. PICK p \in Bijection(DOMAIN s, DOMAIN s) :
        \A i \in DOMAIN s : t[i] = s[p[i]] /\ p[i] \in DOMAIN s
  BY ArrangedFacts
<1>2. DOMAIN t = DOMAIN s
  BY ArrangedFacts
<1>3. ASSUME NEW i \in DOMAIN t, NEW j \in DOMAIN t
      PROVE  t[i] - t[j] < IntLimit
  <2>1. p[i] \in DOMAIN s /\ p[j] \in DOMAIN s /\ t[i] = s[p[i]] /\ t[j] = s[p[j]]
    BY <1>1, <1>2
  <2>2. s[p[i]] - s[p[j]] < IntLimit
    BY <2>1 DEF FitInt
  <2>3. QED
    BY <2>1, <2>2
<1>4. QED
  BY <1>3 DEF FitInt

\* qsort sorts, as long as an int tells the order.
LEMMA SortedIsSorted ==
  ASSUME NEW s \in Seq(Nat), FitInt(s), NEW t \in Sorted(s)
  PROVE  t \in Arrangements(s) /\ \A i, j \in DOMAIN t : i < j => t[i] <= t[j]
<1>1. PICK u \in Arrangements(s) : \A i, j \in DOMAIN s : i < j => u[i] <= u[j]
  BY SortExists
<1>2. u \in Seq(Nat) /\ DOMAIN u = DOMAIN s /\ FitInt(u)
  BY ArrangedFacts, ArrangedFits
<1>3. InOrder(u)
  BY <1>1, <1>2, OrderOfInts
<1>4. t \in Arrangements(s) /\ InOrder(t)
  BY <1>1, <1>3 DEF Sorted
<1>5. t \in Seq(Nat) /\ FitInt(t)
  BY <1>4, ArrangedFacts, ArrangedFits
<1>6. QED
  BY <1>4, <1>5, OrderOfInts

-----------------------------------------------------------------------------
(* The table.                                                               *)

\* In a sorted list the element at Index(i) is the percentile.
LEMMA RowOfTable ==
  ASSUME NEW t \in Seq(Nat), Len(t) = MaximumNumberOfMeasurementses,
         \A j, k \in DOMAIN t : j < k => t[j] <= t[k],
         NEW i \in 1 .. NumberOfPercentiles
  PROVE  /\ t[Index(i)] \in Nat
         /\ Rank(t, t[Index(i)]) * NumberOfPercentiles >= i * Len(t)
         /\ \A w \in Nat : w < t[Index(i)] =>
              ~(Rank(t, w) * NumberOfPercentiles >= i * Len(t))
<1> DEFINE N == NumberOfPercentiles
           M == MaximumNumberOfMeasurementses
           x == Index(i)
           UpTo(v) == { j \in DOMAIN t : t[j] <= v }
<1>1. /\ DOMAIN t = 1 .. M /\ \A j \in 1 .. M : t[j] \in Nat
      /\ N \in Nat \ {0} /\ M \in Nat \ {0}
  BY LenProperties, ElementOfSeq, PercentileAssumption
<1>2. x \in 1 .. M /\ x * N = i * M
  BY IndexFacts
<1> HIDE DEF x
<1>3. \A k \in Nat : IsFiniteSet(1 .. k) /\ Cardinality(1 .. k) = k
  <2> SUFFICES ASSUME NEW k \in Nat
               PROVE  IsFiniteSet(1 .. k) /\ Cardinality(1 .. k) = k
    OBVIOUS
  <2>1. 1 \in Int /\ k \in Int
    OBVIOUS
  <2>2. /\ IsFiniteSet(1 .. k)
        /\ Cardinality(1 .. k) = IF 1 > k THEN 0 ELSE k - 1 + 1
    BY <2>1, FS_Interval
  <2>3. QED
    BY <2>2
<1>4. \A v : IsFiniteSet(UpTo(v)) /\ Cardinality(UpTo(v)) \in Nat
             /\ Rank(t, v) = Cardinality(UpTo(v))
  <2> SUFFICES ASSUME NEW v
               PROVE  IsFiniteSet(UpTo(v)) /\ Cardinality(UpTo(v)) \in Nat
                      /\ Rank(t, v) = Cardinality(UpTo(v))
    OBVIOUS
  <2>1. UpTo(v) \in SUBSET (1 .. M)
    BY <1>1
  <2>2. Rank(t, v) = Cardinality(UpTo(v))
    BY DEF Rank
  <2> HIDE DEF UpTo
  <2>3. IsFiniteSet(1 .. M)
    BY <1>1, <1>3
  <2>4. QED
    BY <2>1, <2>2, <2>3, FS_Subset, FS_CardinalityType
<1>5. Rank(t, t[x]) >= x
  <2>1. 1 .. x \subseteq UpTo(t[x])
    <3> SUFFICES ASSUME NEW j \in 1 .. x
                 PROVE  j \in DOMAIN t /\ t[j] <= t[x]
      OBVIOUS
    <3>1. j \in 1 .. M /\ x \in 1 .. M /\ (j = x \/ j < x)
      BY <1>1, <1>2
    <3>2. t[j] \in Nat /\ t[x] \in Nat
      BY <1>1, <3>1
    <3>3. QED
      BY <1>1, <3>1, <3>2
  <2> HIDE DEF UpTo
  <2>2. IsFiniteSet(UpTo(t[x])) /\ Rank(t, t[x]) = Cardinality(UpTo(t[x]))
    BY <1>4
  <2>3. x \in Nat
    BY <1>2
  <2>4. Cardinality(1 .. x) <= Cardinality(UpTo(t[x])) /\ Cardinality(1 .. x) = x
    BY <1>3, <2>1, <2>2, <2>3, FS_Subset
  <2>5. Cardinality(UpTo(t[x])) \in Nat
    BY <1>4
  <2>6. QED
    BY <2>2, <2>3, <2>4, <2>5
<1>6. ASSUME NEW w \in Nat, w < t[x]
      PROVE  Rank(t, w) <= x - 1
  <2>1. UpTo(w) \subseteq 1 .. x - 1
    <3> SUFFICES ASSUME NEW j \in DOMAIN t, t[j] <= w
                 PROVE  j \in 1 .. x - 1
      OBVIOUS
    <3>1. j \in 1 .. M /\ x \in 1 .. M /\ t[j] \in Nat /\ t[x] \in Nat
      BY <1>1, <1>2
    <3>2. ~(t[x] <= t[j])
      BY <1>6, <3>1
    <3>3. ~(x < j) /\ x # j
      BY <1>1, <3>1, <3>2
    <3>4. QED
      BY <3>1, <3>3
  <2> HIDE DEF UpTo
  <2>2. x - 1 \in Nat
    BY <1>2
  <2>3. IsFiniteSet(1 .. x - 1) /\ Cardinality(1 .. x - 1) = x - 1
    BY <1>3, <2>2
  <2>4. Cardinality(UpTo(w)) <= Cardinality(1 .. x - 1)
    BY <2>1, <2>3, FS_Subset
  <2>5. QED
    BY <1>4, <2>3, <2>4
<1>7. \A v : Rank(t, v) \in Nat
  BY <1>4
<1> HIDE DEF UpTo
<1>8. Rank(t, t[x]) * N >= x * N
  <2>1. Rank(t, t[x]) \in Nat /\ x \in Nat /\ N \in Nat
    BY <1>1, <1>2, <1>7
  <2>2. PICK d \in Nat : Rank(t, t[x]) = x + d
    <3>1. Rank(t, t[x]) - x \in Nat /\ Rank(t, t[x]) = x + (Rank(t, t[x]) - x)
      BY <1>5, <2>1
    <3>2. QED
      BY <3>1
  <2>3. (x + d) * N = x * N + d * N /\ d * N \in Nat /\ x * N \in Nat
    BY <2>1
  <2>4. QED
    BY <2>2, <2>3
<1>9. ASSUME NEW w \in Nat, w < t[x]
      PROVE  ~(Rank(t, w) * N >= x * N)
  <2>1. /\ Rank(t, w) \in Nat /\ x \in Nat /\ N \in Nat \ {0}
        /\ Rank(t, w) <= x - 1
    BY <1>1, <1>2, <1>6, <1>7, <1>9
  <2>2. Rank(t, w) * N <= (x - 1) * N /\ (x - 1) * N = x * N - N
    BY <2>1
  <2>3. Rank(t, w) * N \in Nat /\ x * N \in Nat
    BY <2>1
  <2>4. QED
    BY <2>1, <2>2, <2>3
<1>10. t[x] \in Nat
  BY <1>1, <1>2
<1>11. QED
  BY <1>2, <1>8, <1>9, <1>10 DEF x

-----------------------------------------------------------------------------
(* Percentile.                                                              *)

PercentileInv == PercentileTypeOK /\ ArrayArranged /\ TableOfMeasurements

\* What holds of the array before and after every operation.
LEMMA ArrayFacts ==
  ASSUME PercentileInv
  PROVE  /\ MeasurementArray \in Seq(Measurements) /\ measured \in Seq(Measurements)
         /\ MeasurementArray \in Seq(Nat) /\ measured \in Seq(Nat)
         /\ Len(MeasurementArray) = Len(measured) /\ Len(measured) \in Nat
         /\ Len(measured) <= MaximumNumberOfMeasurementses
         /\ Full => Len(measured) = MaximumNumberOfMeasurementses
         /\ MeasurementArray \in Arrangements(measured)
<1>1. /\ MeasurementArray \in Seq(Measurements) /\ measured \in Seq(Measurements)
      /\ Len(MeasurementArray) = Len(measured)
      /\ Len(MeasurementArray) <= MaximumNumberOfMeasurementses
  BY DEF PercentileInv, PercentileTypeOK
<1>2. Measurements \subseteq Nat /\ MaximumNumberOfMeasurementses \in Nat
  BY PercentileAssumption
<1>3. MeasurementArray \in Seq(Nat) /\ measured \in Seq(Nat) /\ Len(measured) \in Nat
  <2>1. \A s \in Seq(Measurements) : s \in [1 .. Len(s) -> Nat] /\ Len(s) \in Nat
    BY <1>2, LenProperties
  <2>2. \A s \in Seq(Measurements) : s \in Seq(Nat)
    BY <2>1, SeqDef
  <2>3. QED
    BY <1>1, <2>1, <2>2
<1>4. QED
  BY <1>1, <1>2, <1>3 DEF PercentileInv, ArrayArranged, Full

\* The constructor leaves nothing to show.
LEMMA PercentileStarts == PercentileInit => PercentileInv
<1> SUFFICES ASSUME PercentileInit
             PROVE  PercentileInv
  OBVIOUS
<1>1. /\ MeasurementArray = <<>> /\ measured = <<>>
      /\ table = [values |-> <<>>, of |-> <<>>]
  BY DEF PercentileInit, NoTable
<1>2. /\ <<>> \in Seq(Measurements) /\ Len(<<>>) = 0
      /\ DOMAIN table.values = {} /\ Len(table.values) = 0
  BY <1>1, EmptySeq, LenProperties
<1>3. <<>> \in Arrangements(<<>>)
  BY <1>2, ArrangedSelf
<1>4. QED
  BY <1>1, <1>2, <1>3, PercentileAssumption
     DEF PercentileInv, PercentileTypeOK, ArrayArranged, TableOfMeasurements

\* A table that stays is as good as it was.
LEMMA TableStays ==
  ASSUME TableOfMeasurements, UNCHANGED table
  PROVE  TableOfMeasurements'
BY DEF TableOfMeasurements, Rank, FitInt

\* A measurement is added only to an array that was never sorted.
LEMMA AddStep ==
  ASSUME PercentileInv, NEW value \in Measurements,
         AddNanosecondTimeStampMeasurement(value)
  PROVE  PercentileInv'
<1>1. TableOfMeasurements' /\ Len(table'.values) \in {0, NumberOfPercentiles}
  BY TableStays DEF AddNanosecondTimeStampMeasurement, PercentileInv, PercentileTypeOK
<1>2. CASE Full
  BY <1>1, <1>2
     DEF AddNanosecondTimeStampMeasurement, HasRoom, PercentileInv,
         PercentileTypeOK, ArrayArranged, Full
<1>3. CASE ~Full
  <2>1. /\ MeasurementArray' = Append(MeasurementArray, value)
        /\ measured' = Append(measured, value)
        /\ MeasurementArray = measured
    BY <1>3
       DEF AddNanosecondTimeStampMeasurement, HasRoom, PercentileInv, ArrayArranged
  <2>2. /\ measured' \in Seq(Measurements) /\ Len(measured') = Len(measured) + 1
        /\ MeasurementArray' = measured'
    BY <2>1, ArrayFacts, AppendProperties
  <2>3. /\ Len(measured) < MaximumNumberOfMeasurementses
        /\ Len(measured) \in Nat /\ MaximumNumberOfMeasurementses \in Nat
    BY <1>3, <2>1, ArrayFacts, PercentileAssumption DEF Full
  <2>4. measured' \in Arrangements(measured')
    BY <2>2, ArrangedSelf
  <2>5. QED
    BY <1>1, <2>2, <2>3, <2>4 DEF PercentileInv, PercentileTypeOK, ArrayArranged
<1>4. QED
  BY <1>2, <1>3

\* The table shows percentiles also when the array was sorted before.
LEMMA PrintStep ==
  ASSUME PercentileInv, PrintPercentileTableValues
  PROVE  PercentileInv'
<1>1. CASE ~Full
  <2>1. UNCHANGED percentiles
    BY <1>1 DEF PrintPercentileTableValues, percentiles
  <2>2. TableOfMeasurements'
    BY <2>1, TableStays DEF percentiles, PercentileInv
  <2>3. QED
    BY <2>1, <2>2
       DEF percentiles, PercentileInv, PercentileTypeOK, ArrayArranged, Full
<1>2. CASE Full
  <2>1. /\ MeasurementArray' \in Sorted(MeasurementArray) /\ measured' = measured
        /\ table'.values = [i \in 1 .. NumberOfPercentiles |-> MeasurementArray'[Index(i)]]
        /\ table'.of = measured
    BY <1>2 DEF PrintPercentileTableValues
  <2>2. /\ MeasurementArray \in Seq(Nat) /\ measured \in Seq(Nat)
        /\ MeasurementArray \in Seq(Measurements) /\ measured \in Seq(Measurements)
        /\ MeasurementArray \in Arrangements(measured)
        /\ Len(measured) = MaximumNumberOfMeasurementses
        /\ MaximumNumberOfMeasurementses \in Nat
    BY <1>2, ArrayFacts
  <2>3. MeasurementArray' \in Arrangements(MeasurementArray)
    BY <2>1 DEF Sorted
  <2>4. MeasurementArray' \in Arrangements(measured)
    BY <2>2, <2>3, ArrangedTwice
  <2>5. /\ MeasurementArray' \in Seq(Measurements) /\ MeasurementArray' \in Seq(Nat)
        /\ Len(MeasurementArray') = Len(measured)
    BY <2>2, <2>4, ArrangedFacts
  <2>6. Len(table'.values) = NumberOfPercentiles
        /\ DOMAIN table'.values = 1 .. NumberOfPercentiles
    BY <2>1, PercentileAssumption
  <2>7. PercentileTypeOK' /\ ArrayArranged'
    <3>1. PercentileTypeOK'
      <4>1. Len(MeasurementArray') <= MaximumNumberOfMeasurementses
        BY <2>2, <2>5
      <4>2. measured' \in Seq(Measurements) /\ Len(measured') = Len(MeasurementArray')
        BY <2>1, <2>2, <2>5
      <4>3. Len(table'.values) \in {0, NumberOfPercentiles}
        BY <2>6
      <4>4. QED
        BY <2>5, <4>1, <4>2, <4>3 DEF PercentileTypeOK
    <3>2. Full'
      BY <2>2, <2>5 DEF Full
    <3>3. MeasurementArray' \in Arrangements(measured')
      BY <2>1, <2>4
    <3>4. QED
      BY <3>1, <3>2, <3>3 DEF ArrayArranged, Arrangements
  <2>8. TableOfMeasurements'
    <3> SUFFICES ASSUME FitInt(measured), NEW i \in 1 .. NumberOfPercentiles
                 PROVE  LET v == MeasurementArray'[Index(i)] IN
                        /\ Rank(measured, v) * NumberOfPercentiles >= i * Len(measured)
                        /\ \A j \in DOMAIN measured : measured[j] < v =>
                             ~(Rank(measured, measured[j]) * NumberOfPercentiles
                                 >= i * Len(measured))
      BY <2>1, <2>6 DEF TableOfMeasurements, FitInt, Rank
    <3>1. FitInt(MeasurementArray)
      BY <2>2, ArrangedFits
    <3>2. \A j, k \in DOMAIN MeasurementArray' :
            j < k => MeasurementArray'[j] <= MeasurementArray'[k]
      BY <2>1, <2>2, <3>1, SortedIsSorted
    <3>3. \A v : Rank(MeasurementArray', v) = Rank(measured, v)
      BY <2>2, <2>4, RankArranged
    <3>4. \A j \in DOMAIN measured : measured[j] \in Nat
      BY <2>2, LenProperties, ElementOfSeq
    <3>5. LET v == MeasurementArray'[Index(i)] IN
          /\ Rank(MeasurementArray', v) * NumberOfPercentiles
               >= i * Len(MeasurementArray')
          /\ \A w \in Nat : w < v =>
               ~(Rank(MeasurementArray', w) * NumberOfPercentiles
                   >= i * Len(MeasurementArray'))
      BY <2>2, <2>5, <3>2, RowOfTable
    <3>6. QED
      BY <2>5, <3>3, <3>4, <3>5
  <2>9. QED
    BY <2>7, <2>8 DEF PercentileInv
<1>3. QED
  BY <1>1, <1>2

\* A reset empties the array and leaves the table that was printed.
LEMMA ResetStep ==
  ASSUME PercentileInv, ResetPercentileTableArray
  PROVE  PercentileInv'
<1>1. MeasurementArray' = <<>> /\ measured' = <<>> /\ table' = table
  BY DEF ResetPercentileTableArray
<1>2. <<>> \in Seq(Measurements) /\ Len(<<>>) = 0 /\ <<>> \in Arrangements(<<>>)
  BY EmptySeq, ArrangedSelf
<1>3. TableOfMeasurements' /\ Len(table'.values) \in {0, NumberOfPercentiles}
  BY <1>1, TableStays DEF PercentileInv, PercentileTypeOK
<1>4. QED
  BY <1>1, <1>2, <1>3, PercentileAssumption
     DEF PercentileInv, PercentileTypeOK, ArrayArranged

\* Nothing else touches them.
LEMMA PercentilesStay ==
  ASSUME PercentileInv, UNCHANGED percentiles
  PROVE  PercentileInv'
<1>1. TableOfMeasurements'
  BY TableStays DEF percentiles, PercentileInv
<1>2. QED
  BY <1>1 DEF percentiles, PercentileInv, PercentileTypeOK, ArrayArranged, Full

-----------------------------------------------------------------------------
(* KeyboardReadInput.                                                       *)

\* The part of the type invariant that is not Percentile's.
KeyboardTypeOK ==
  /\ terminal \in Seq(Lines)
  /\ stdin \in Seq(Keys \cup {"enter"})
  /\ typed \in 0 .. MaxTyped
  /\ ConfigurationFlags \subseteq { FlagOf[k] : k \in DOMAIN FlagOf }

MessageTypeOK ==
  /\ waiting \in Seq([stamped : BOOLEAN, toggled : BOOLEAN])
  /\ published \in [surplus : {0, StampBytes}, toggled : BOOLEAN]

StampsInv == MessageTypeOK /\ StampsExplained /\ SurplusOnlyAfterToggle

\* The invariant in its three parts.
LEMMA PartsOfIInv == IInv <=> PercentileInv /\ KeyboardTypeOK /\ StampsInv
BY DEF IInv, TypeOK, PercentileInv, KeyboardTypeOK, MessageTypeOK, StampsInv

\* The same, after a step.
LEMMA PartsOfIInvNext == IInv' <=> PercentileInv' /\ KeyboardTypeOK' /\ StampsInv'
BY DEF IInv, TypeOK, PercentileInv, KeyboardTypeOK, MessageTypeOK, StampsInv

\* Neither flags nor messages change.
LEMMA StampsStay ==
  ASSUME StampsInv, UNCHANGED <<ConfigurationFlags, messages>>
  PROVE  StampsInv'
BY DEF StampsInv, MessageTypeOK, StampsExplained, SurplusOnlyAfterToggle, GetTiming,
       messages

\* A line that is typed.
LEMMA TypeStep ==
  ASSUME IInv, NEW key \in Keys, TypeLine(key)
  PROVE  IInv'
<1>1. PercentileInv' /\ StampsInv'
  BY PartsOfIInv, PercentilesStay, StampsStay DEF TypeLine
<1>2. terminal' \in Seq(Lines)
  <2>1. <<key, "enter">> \in Lines /\ terminal \in Seq(Lines)
    BY PartsOfIInv DEF Lines, KeyboardTypeOK
  <2>2. QED
    BY <2>1, AppendProperties DEF TypeLine
<1>3. typed' \in 0 .. MaxTyped
  BY PartsOfIInv, KeyboardAssumption DEF KeyboardTypeOK, TypeLine
<1>4. KeyboardTypeOK'
  BY <1>2, <1>3, PartsOfIInv DEF KeyboardTypeOK, TypeLine
<1>5. QED
  BY <1>1, <1>4, PartsOfIInvNext

\* A switch leaves its mark on the messages that wait.
LEMMA SwitchStep ==
  ASSUME StampsInv, NEW c, SwitchFlag(c), published' = published
  PROVE  StampsInv'
<1>1. /\ waiting \in Seq([stamped : BOOLEAN, toggled : BOOLEAN])
      /\ DOMAIN waiting = 1 .. Len(waiting) /\ Len(waiting) \in Nat
      /\ \A i \in DOMAIN waiting : waiting[i] \in [stamped : BOOLEAN, toggled : BOOLEAN]
  BY LenProperties, ElementOfSeq DEF StampsInv, MessageTypeOK
<1>2. waiting' = [i \in DOMAIN waiting |->
                    [waiting[i] EXCEPT !.toggled = waiting[i].toggled \/ c = "T"]]
  BY DEF SwitchFlag
<1>3. ASSUME NEW i \in DOMAIN waiting
      PROVE  /\ waiting'[i] \in [stamped : BOOLEAN, toggled : BOOLEAN]
             /\ waiting'[i].stamped = waiting[i].stamped
             /\ waiting'[i].toggled = (waiting[i].toggled \/ c = "T")
  BY <1>1, <1>2
<1>4. DOMAIN waiting' = 1 .. Len(waiting)
  BY <1>1, <1>2
<1>5. waiting' \in Seq([stamped : BOOLEAN, toggled : BOOLEAN])
  <2>1. waiting' \in [1 .. Len(waiting) -> [stamped : BOOLEAN, toggled : BOOLEAN]]
    BY <1>1, <1>2, <1>3
  <2>2. QED
    BY <1>1, <2>1, SeqDef
<1>6. c = "T" \/ (GetTiming' <=> GetTiming)
  BY DEF SwitchFlag, Flipped, FlagOf, GetTiming
<1>7. StampsExplained'
  <2> SUFFICES ASSUME NEW i \in DOMAIN waiting, waiting'[i].stamped, ~GetTiming'
               PROVE  waiting'[i].toggled
    BY <1>1, <1>4 DEF StampsExplained
  <2>1. CASE c = "T"
    BY <1>3, <2>1
  <2>2. CASE c # "T"
    BY <1>3, <1>6, <2>2 DEF StampsInv, StampsExplained
  <2>3. QED
    BY <2>1, <2>2
<1>8. QED
  BY <1>5, <1>7 DEF StampsInv, MessageTypeOK, SurplusOnlyAfterToggle

\* A key that is read.
LEMMA ReadStep ==
  ASSUME IInv, ReadKeyboardInput
  PROVE  IInv'
<1> DEFINE c == Head(Buffer)
<1>1. /\ terminal # <<>> /\ stdin' = Tail(Buffer) /\ terminal' = LinesLeft
      /\ SwitchFlag(c) \/ PrintTable(c) \/ ResetTable(c) \/ Ignore(c)
      /\ UNCHANGED <<typed, published>>
  BY DEF ReadKeyboardInput, KeyboardHit
<1>2. /\ PercentileInv /\ StampsInv
      /\ terminal \in Seq(Lines) /\ stdin \in Seq(Keys \cup {"enter"})
  BY PartsOfIInv DEF KeyboardTypeOK
<1>3. Buffer \in Seq(Keys \cup {"enter"}) /\ Buffer # <<>>
  <2>1. CASE stdin = <<>>
    <3>1. terminal[1] \in Lines
      BY <1>1, <1>2, ElementOfSeq, EmptySeq, LenProperties
    <3>2. PICK key \in Keys : terminal[1] = <<key, "enter">>
      BY <3>1 DEF Lines
    <3>3. <<key, "enter">> \in Seq(Keys \cup {"enter"}) /\ <<key, "enter">> # <<>>
      OBVIOUS
    <3>4. QED
      BY <2>1, <3>2, <3>3 DEF Buffer
  <2>2. CASE stdin # <<>>
    BY <1>2, <2>2 DEF Buffer
  <2>3. QED
    BY <2>1, <2>2
<1>4. stdin' \in Seq(Keys \cup {"enter"})
  BY <1>1, <1>3, HeadTailProperties
<1>5. terminal' \in Seq(Lines)
  BY <1>1, <1>2, HeadTailProperties DEF LinesLeft
<1> HIDE DEF c
<1>6. CASE SwitchFlag(c)
  <2>1. UNCHANGED percentiles /\ c \in DOMAIN FlagOf
        /\ ConfigurationFlags' = Flipped(FlagOf[c])
    BY <1>6 DEF SwitchFlag
  <2>2. PercentileInv' /\ StampsInv'
    BY <1>1, <1>2, <1>6, <2>1, PercentilesStay, SwitchStep
  <2>3. ConfigurationFlags' \subseteq { FlagOf[k] : k \in DOMAIN FlagOf }
    BY <2>1, PartsOfIInv DEF Flipped, KeyboardTypeOK
  <2>4. KeyboardTypeOK'
    BY <1>1, <1>4, <1>5, <2>3, PartsOfIInv DEF KeyboardTypeOK
  <2>5. QED
    BY <2>2, <2>4, PartsOfIInvNext
<1>7. CASE PrintTable(c) \/ ResetTable(c) \/ Ignore(c)
  <2>1. UNCHANGED <<ConfigurationFlags, waiting>>
    BY <1>7 DEF PrintTable, ResetTable, Ignore
  <2>2. StampsInv'
    BY <1>1, <1>2, <2>1, StampsStay DEF messages
  <2>3. PercentileInv'
    BY <1>2, <1>7, PrintStep, ResetStep, PercentilesStay
       DEF PrintTable, ResetTable, Ignore
  <2>4. KeyboardTypeOK'
    BY <1>1, <1>4, <1>5, <2>1, PartsOfIInv DEF KeyboardTypeOK
  <2>5. QED
    BY <2>2, <2>3, <2>4, PartsOfIInvNext
<1>8. QED
  BY <1>1, <1>6, <1>7

\* A message gets a stamp only while T is on.
LEMMA StoreStep ==
  ASSUME IInv, NEW last \in BOOLEAN, StoreMessage(last)
  PROVE  IInv'
<1> DEFINE m == [stamped |-> GetTiming /\ last, toggled |-> FALSE]
<1>1. /\ waiting' = Append(waiting, m)
      /\ UNCHANGED <<percentiles, terminal, stdin, typed, ConfigurationFlags, published>>
  BY DEF StoreMessage, keyboard
<1>2. PercentileInv' /\ KeyboardTypeOK'
  BY <1>1, PartsOfIInv, PercentilesStay DEF KeyboardTypeOK
<1>3. /\ waiting \in Seq([stamped : BOOLEAN, toggled : BOOLEAN]) /\ Len(waiting) \in Nat
      /\ DOMAIN waiting = 1 .. Len(waiting)
  BY PartsOfIInv, LenProperties DEF StampsInv, MessageTypeOK
<1>4. m \in [stamped : BOOLEAN, toggled : BOOLEAN] /\ (m.stamped => GetTiming)
  BY DEF GetTiming
<1> HIDE DEF m
<1>5. /\ waiting' \in Seq([stamped : BOOLEAN, toggled : BOOLEAN])
      /\ DOMAIN waiting' = 1 .. Len(waiting) + 1
      /\ \A i \in 1 .. Len(waiting) : waiting'[i] = waiting[i]
      /\ waiting'[Len(waiting) + 1] = m
  BY <1>1, <1>3, <1>4, AppendProperties
<1>6. GetTiming' <=> GetTiming
  BY <1>1 DEF GetTiming
<1>7. ASSUME NEW i \in DOMAIN waiting', waiting'[i].stamped, ~GetTiming
      PROVE  waiting'[i].toggled
  <2>1. CASE i = Len(waiting) + 1
    BY <1>4, <1>5, <1>7, <2>1
  <2>2. CASE i # Len(waiting) + 1
    <3>1. i \in DOMAIN waiting /\ waiting'[i] = waiting[i]
      BY <1>3, <1>5, <2>2
    <3>2. QED
      BY <1>7, <3>1, PartsOfIInv DEF StampsInv, StampsExplained
  <2>3. QED
    BY <2>1, <2>2
<1>8. StampsInv'
  BY <1>1, <1>5, <1>6, <1>7, PartsOfIInv
     DEF StampsInv, MessageTypeOK, StampsExplained, SurplusOnlyAfterToggle
<1>9. QED
  BY <1>2, <1>8, PartsOfIInvNext

\* The inserter takes a stamp off unless T was typed behind it.
LEMMA InsertStep ==
  ASSUME IInv, NEW latency \in Measurements, Insert(latency)
  PROVE  IInv'
<1> DEFINE m == Head(waiting)
<1>1. /\ waiting # <<>> /\ waiting' = Tail(waiting)
      /\ published' = [surplus |-> Surplus(m), toggled |-> m.toggled]
      /\ UNCHANGED <<terminal, stdin, typed, ConfigurationFlags>>
  BY DEF Insert, keyboard
<1>2. PercentileInv' /\ KeyboardTypeOK'
  <2>1. AddNanosecondTimeStampMeasurement(latency) \/ UNCHANGED percentiles
    BY DEF Insert, Collect
  <2>2. QED
    BY <1>1, <2>1, PartsOfIInv, PercentilesStay, AddStep DEF KeyboardTypeOK
<1>3. /\ waiting \in Seq([stamped : BOOLEAN, toggled : BOOLEAN]) /\ Len(waiting) \in Nat
      /\ DOMAIN waiting = 1 .. Len(waiting) /\ Len(waiting) # 0
  BY <1>1, PartsOfIInv, LenProperties, EmptySeq DEF StampsInv, MessageTypeOK
<1>4. /\ m = waiting[1] /\ m \in [stamped : BOOLEAN, toggled : BOOLEAN]
      /\ waiting' \in Seq([stamped : BOOLEAN, toggled : BOOLEAN])
      /\ Len(waiting') = Len(waiting) - 1
      /\ \A i \in 1 .. Len(waiting) - 1 : waiting'[i] = waiting[i + 1]
  <2>1. waiting \in Seq([stamped : BOOLEAN, toggled : BOOLEAN]) /\ waiting # <<>>
    BY <1>1, <1>3
  <2>2. /\ Tail(waiting) \in Seq([stamped : BOOLEAN, toggled : BOOLEAN])
        /\ Len(Tail(waiting)) = Len(waiting) - 1
        /\ \A i \in 1 .. Len(waiting) - 1 : Tail(waiting)[i] = waiting[i + 1]
    BY <2>1, HeadTailProperties
  <2>3. m = waiting[1]
    BY <2>1
  <2>4. 1 \in 1 .. Len(waiting)
    BY <1>3
  <2>5. waiting[1] \in [stamped : BOOLEAN, toggled : BOOLEAN]
    BY <2>1, <2>4, ElementOfSeq
  <2>6. QED
    BY <1>1, <2>2, <2>3, <2>5
<1>5. m.stamped /\ ~GetTiming => m.toggled
  BY <1>3, <1>4, PartsOfIInv DEF StampsInv, StampsExplained
<1>6. GetTiming' <=> GetTiming
  BY <1>1 DEF GetTiming
<1> HIDE DEF m
<1>7. /\ published'.surplus = Surplus(m) /\ published'.toggled = m.toggled
      /\ published' \in [surplus : {0, StampBytes}, toggled : BOOLEAN]
  BY <1>1, <1>4 DEF Surplus
<1>8. SurplusOnlyAfterToggle'
  BY <1>5, <1>7 DEF SurplusOnlyAfterToggle, Surplus, TakesStampOff, HasStamp
<1>9. StampsExplained'
  <2>1. \A i \in DOMAIN waiting' : i + 1 \in DOMAIN waiting /\ waiting'[i] = waiting[i + 1]
    BY <1>3, <1>4, LenProperties
  <2>2. QED
    BY <1>6, <2>1, PartsOfIInv DEF StampsInv, StampsExplained
<1>10. QED
  BY <1>2, <1>4, <1>7, <1>8, <1>9, PartsOfIInvNext DEF StampsInv, MessageTypeOK

\* When the loop begins nothing was typed, measured or stored.
LEMMA InitEstablishes == Init => IInv
<1> SUFFICES ASSUME Init
             PROVE  IInv
  OBVIOUS
<1>1. PercentileInv
  BY PercentileStarts DEF Init
<1>2. KeyboardTypeOK
  BY EmptySeq, KeyboardAssumption DEF Init, KeyboardTypeOK
<1>3. MessageTypeOK
  BY EmptySeq DEF Init, MessageTypeOK, NoMessage
<1>4. StampsExplained /\ SurplusOnlyAfterToggle
  BY EmptySeq DEF Init, StampsExplained, SurplusOnlyAfterToggle, NoMessage
<1>5. QED
  BY <1>1, <1>2, <1>3, <1>4, PartsOfIInv DEF StampsInv

\* No key and no message breaks the invariant.
LEMMA NextStep == IInv /\ [Next]_vars => IInv'
<1> SUFFICES ASSUME IInv, [Next]_vars
             PROVE  IInv'
  OBVIOUS
<1>1. CASE \E key \in Keys : TypeLine(key)
  BY <1>1, TypeStep
<1>2. CASE ReadKeyboardInput
  BY <1>2, ReadStep
<1>3. CASE \E last \in BOOLEAN : StoreMessage(last)
  BY <1>3, StoreStep
<1>4. CASE \E latency \in Measurements : Insert(latency)
  BY <1>4, InsertStep
<1>5. CASE UNCHANGED vars
  <2>1. UNCHANGED <<percentiles, terminal, stdin, typed, ConfigurationFlags, messages>>
    BY <1>5 DEF vars, keyboard
  <2>2. PercentileInv' /\ StampsInv'
    BY <2>1, PartsOfIInv, PercentilesStay, StampsStay
  <2>3. KeyboardTypeOK'
    BY <2>1, PartsOfIInv DEF KeyboardTypeOK
  <2>4. QED
    BY <2>2, <2>3, PartsOfIInvNext
<1>6. QED
  BY <1>1, <1>2, <1>3, <1>4, <1>5 DEF Next

\* The invariant holds in whatever order keys are typed and messages come.
THEOREM KeyboardInvariant == Spec => []IInv
<1>1. Init => IInv
  BY InitEstablishes
<1>2. IInv /\ [Next]_vars => IInv'
  BY NextStep
<1>3. QED
  BY <1>1, <1>2, PTL DEF Spec

\* Every field keeps its type; the array is never longer than it may be.
THEOREM KeyboardTypes == Spec => []TypeOK
<1>1. IInv => TypeOK
  BY DEF IInv
<1>2. QED
  BY <1>1, KeyboardInvariant, PTL

\* The table that is printed shows percentiles of what was measured.
THEOREM PercentilesOfMeasurements == Spec => []TableOfMeasurements
<1>1. IInv => TableOfMeasurements
  BY DEF IInv
<1>2. QED
  BY <1>1, KeyboardInvariant, PTL

\* A time stamp gets into the shared memory only behind a toggle.
THEOREM StampsOnlyAfterToggle == Spec => []SurplusOnlyAfterToggle
<1>1. IInv => SurplusOnlyAfterToggle
  BY DEF IInv
<1>2. QED
  BY <1>1, KeyboardInvariant, PTL

=============================================================================
