------------------------ MODULE WindowSnapshotProofs ------------------------
(***************************************************************************)
(* Proofs about WindowSnapshot for any observations, policies and widths:  *)
(* the snapshot does not depend on the order of loading, and the verdict   *)
(* computed with fixed width, rounding and bisection is the exact one.     *)
(***************************************************************************)
EXTENDS WindowSnapshot, FiniteSetTheorems, FunctionTheorems, TLAPS

-----------------------------------------------------------------------------
(* The order of the observations.                                          *)

Tuples == [1..7 -> Int]

\* The lexicographic order of keys is strict, transitive and total.
LEMMA OrderFacts ==
    ASSUME NEW a \in Tuples, NEW b \in Tuples, NEW c \in Tuples
    PROVE  /\ ~OrderedBy(a, a)
           /\ OrderedBy(a, b) => ~OrderedBy(b, a)
           /\ OrderedBy(a, b) /\ OrderedBy(b, c) => OrderedBy(a, c)
           /\ ~OrderedBy(a, b) /\ ~OrderedBy(b, a) => a = b
<1>1. /\ DOMAIN a = 1..7 /\ DOMAIN b = 1..7 /\ DOMAIN c = 1..7
      /\ \A i \in 1..7 : a[i] \in Int /\ b[i] \in Int /\ c[i] \in Int
  BY DEF Tuples
<1>2. ~OrderedBy(a, a)
  BY <1>1 DEF OrderedBy
<1>3. ASSUME OrderedBy(a, b), OrderedBy(b, a)
      PROVE  FALSE
  <2>1. PICK i \in 1..7 : a[i] < b[i] /\ \A j \in 1..(i - 1) : a[j] = b[j]
    BY <1>1, <1>3, Zenon DEF OrderedBy
  <2>2. PICK k \in 1..7 : b[k] < a[k] /\ \A j \in 1..(k - 1) : b[j] = a[j]
    BY <1>1, <1>3, Zenon DEF OrderedBy
  <2>3. i \in 1..(k - 1) \/ k \in 1..(i - 1) \/ i = k
    OBVIOUS
  <2> QED BY <1>1, <2>1, <2>2, <2>3
<1>4. ASSUME OrderedBy(a, b), OrderedBy(b, c)
      PROVE  OrderedBy(a, c)
  <2>1. PICK i \in 1..7 : a[i] < b[i] /\ \A j \in 1..(i - 1) : a[j] = b[j]
    BY <1>1, <1>4, Zenon DEF OrderedBy
  <2>2. PICK k \in 1..7 : b[k] < c[k] /\ \A j \in 1..(k - 1) : b[j] = c[j]
    BY <1>1, <1>4, Zenon DEF OrderedBy
  <2>3. CASE i <= k
    <3>1. a[i] < c[i]
      BY <1>1, <2>1, <2>2, <2>3
    <3>2. \A j \in 1..(i - 1) : a[j] = c[j]
      BY <2>1, <2>2, <2>3
    <3> QED BY <1>1, <3>1, <3>2, Zenon DEF OrderedBy
  <2>4. CASE k < i
    <3>1. a[k] < c[k]
      BY <1>1, <2>1, <2>2, <2>4
    <3>2. \A j \in 1..(k - 1) : a[j] = c[j]
      BY <2>1, <2>2, <2>4
    <3> QED BY <1>1, <3>1, <3>2, Zenon DEF OrderedBy
  <2> QED BY <2>3, <2>4
<1>5. ASSUME ~OrderedBy(a, b), ~OrderedBy(b, a)
      PROVE  a = b
  <2>1. ASSUME NEW i \in 1..7, \A j \in 1..(i - 1) : a[j] = b[j]
        PROVE  a[i] = b[i]
    <3>1. ~(a[i] < b[i])
      BY <1>1, <1>5, <2>1, Zenon DEF OrderedBy
    <3>2. \A j \in 1..(i - 1) : b[j] = a[j]
      BY <2>1, Zenon
    <3>3. ~(b[i] < a[i])
      BY <1>1, <1>5, <3>2, Zenon DEF OrderedBy
    <3> QED BY <1>1, <3>1, <3>3
  <2>2. \A i \in 1..7 : (\A j \in 1..(i - 1) : a[j] = b[j]) => a[i] = b[i]
    BY <2>1, Zenon
  <2>3. a[1] = b[1]
    BY <2>2
  <2>4. a[2] = b[2]
    BY <2>2, <2>3
  <2>5. a[3] = b[3]
    BY <2>2, <2>3, <2>4
  <2>6. a[4] = b[4]
    BY <2>2, <2>3, <2>4, <2>5
  <2>7. a[5] = b[5]
    BY <2>2, <2>3, <2>4, <2>5, <2>6
  <2>8. a[6] = b[6]
    BY <2>2, <2>3, <2>4, <2>5, <2>6, <2>7
  <2>9. a[7] = b[7]
    BY <2>2, <2>3, <2>4, <2>5, <2>6, <2>7, <2>8
  <2>10. \A i \in 1..7 : a[i] = b[i]
    BY <2>3, <2>4, <2>5, <2>6, <2>7, <2>8, <2>9
  <2> QED BY <2>10 DEF Tuples
<1> QED BY <1>2, <1>3, <1>4, <1>5, Zenon

\* Coordinates are integers, and determine the key.
LEMMA CoordinateFacts ==
    ASSUME NEW l \in Observations, NEW r \in Observations
    PROVE  /\ Coordinates(l) \in Tuples
           /\ Coordinates(l) = Coordinates(r) => l.key = r.key
<1>1. l.key \in ObservationKeys /\ r.key \in ObservationKeys /\ l.received \in Int /\ r.received \in Int
  BY SnapshotAssumption
<1>2. Coordinates(l) \in Tuples
  BY <1>1 DEF Coordinates, Tuples, ObservationKeys
<1>3. ASSUME Coordinates(l) = Coordinates(r)
      PROVE  l.key = r.key
  <2>1. /\ l.key.slot = r.key.slot /\ l.key.index = r.key.index /\ l.key.signature = r.key.signature
        /\ l.key.instruction = r.key.instruction /\ l.key.event = r.key.event
        /\ l.key.program = r.key.program
    BY <1>3 DEF Coordinates
  <2> QED BY <1>1, <2>1 DEF ObservationKeys
<1> QED BY <1>2, <1>3

\* The sort places any two observations one before the other.
LEMMA SortFacts ==
    ASSUME NEW s \in Seq(Observations), NEW i \in UsedIn(s), NEW j \in UsedIn(s), NEW k \in UsedIn(s)
    PROVE  /\ ~SortsBefore(s, k, k)
           /\ SortsBefore(s, i, j) /\ SortsBefore(s, j, k) => SortsBefore(s, i, k)
           /\ i # j => SortsBefore(s, i, j) \/ SortsBefore(s, j, i)
<1> DEFINE a == Coordinates(s[i])
           b == Coordinates(s[j])
           c == Coordinates(s[k])
<1>1. i \in Nat /\ j \in Nat /\ k \in Nat /\ s[i] \in Observations /\ s[j] \in Observations /\ s[k] \in Observations
  BY DEF UsedIn
<1>2. a \in Tuples /\ b \in Tuples /\ c \in Tuples
  BY <1>1, CoordinateFacts, Zenon
<1>3. /\ SortsBefore(s, i, j) <=> OrderedBy(a, b) \/ (i < j /\ ~OrderedBy(b, a))
      /\ SortsBefore(s, j, i) <=> OrderedBy(b, a) \/ (j < i /\ ~OrderedBy(a, b))
      /\ SortsBefore(s, j, k) <=> OrderedBy(b, c) \/ (j < k /\ ~OrderedBy(c, b))
      /\ SortsBefore(s, i, k) <=> OrderedBy(a, c) \/ (i < k /\ ~OrderedBy(c, a))
      /\ SortsBefore(s, k, k) <=> OrderedBy(c, c) \/ (k < k /\ ~OrderedBy(c, c))
  BY Zenon DEF SortsBefore, ObservationOrder
<1> HIDE DEF a, b, c
<1>4. /\ ~OrderedBy(c, c) /\ ~OrderedBy(a, a)
      /\ (OrderedBy(a, b) => ~OrderedBy(b, a)) /\ (OrderedBy(b, c) => ~OrderedBy(c, b))
      /\ (OrderedBy(a, c) => ~OrderedBy(c, a))
      /\ OrderedBy(a, b) /\ OrderedBy(b, c) => OrderedBy(a, c)
      /\ ~OrderedBy(a, b) /\ ~OrderedBy(b, a) => a = b
      /\ ~OrderedBy(b, c) /\ ~OrderedBy(c, b) => b = c
  BY <1>2, OrderFacts, Zenon
<1>5. ~(k < k) /\ (i < j /\ j < k => i < k) /\ (i # j => i < j \/ j < i)
  BY <1>1
<1>6. ASSUME SortsBefore(s, i, j), SortsBefore(s, j, k)
      PROVE  SortsBefore(s, i, k)
  <2>1. OrderedBy(a, b) \/ (a = b /\ i < j)
    BY <1>3, <1>4, <1>6, Zenon
  <2>2. OrderedBy(b, c) \/ (b = c /\ j < k)
    BY <1>3, <1>4, <1>6, Zenon
  <2>3. OrderedBy(a, c) \/ (a = c /\ i < k)
    BY <1>4, <1>5, <2>1, <2>2, Zenon
  <2> QED BY <1>3, <1>4, <2>3, Zenon
<1> QED BY <1>3, <1>4, <1>5, <1>6, Zenon

\* Every observation of the window has a place of its own, and no place is empty.
LEMMA PlaceFacts ==
    ASSUME NEW s \in Seq(Observations)
    PROVE  LET U == UsedIn(s)
               m == Cardinality(U)
           IN  /\ IsFiniteSet(U) /\ m \in Nat /\ U \subseteq DOMAIN s
               /\ \A k \in U : Place(s, k) \in 1..m
               /\ \A j, k \in U : Place(s, j) = Place(s, k) => j = k
               /\ \A r \in 1..m : \E k \in U : Place(s, k) = r
<1> DEFINE U == UsedIn(s)
           m == Cardinality(U)
           B(k) == {j \in U : SortsBefore(s, j, k)}
           f == [k \in U |-> Place(s, k)]
<1>1. Len(s) \in Nat /\ DOMAIN s = 1..Len(s) /\ U \subseteq DOMAIN s
  BY DEF UsedIn
<1>2. IsFiniteSet(1..Len(s))
  BY <1>1, FS_Interval
<1>3. IsFiniteSet(U) /\ m \in Nat
  <2>1. U \in SUBSET (1..Len(s))
    BY <1>1, Zenon
  <2>2. IsFiniteSet(U)
    BY <1>2, <2>1, FS_Subset, Zenon
  <2> QED BY <2>2, FS_CardinalityType, Zenon
<1>4. ASSUME NEW k
      PROVE  /\ Place(s, k) = 1 + Cardinality(B(k))
             /\ IsFiniteSet(B(k)) /\ Cardinality(B(k)) \in Nat
  <2>1. B(k) \in SUBSET U
    BY Zenon
  <2>2. IsFiniteSet(B(k))
    BY <1>3, <2>1, FS_Subset, Zenon
  <2>3. Cardinality(B(k)) \in Nat
    BY <2>2, FS_CardinalityType, Zenon
  <2> QED BY <2>2, <2>3, Zenon DEF Place
<1>5. ASSUME NEW k \in U
      PROVE  Place(s, k) \in 1..m
  <2>1. B(k) \in SUBSET (U \ {k})
    BY SortFacts, Zenon
  <2>2. IsFiniteSet(U \ {k}) /\ Cardinality(U \ {k}) = m - 1
    BY <1>3, FS_RemoveElement, Zenon
  <2>3. Cardinality(B(k)) <= Cardinality(U \ {k})
    BY <2>1, <2>2, FS_Subset, Zenon
  <2> QED BY <1>3, <1>4, <2>2, <2>3
<1>6. ASSUME NEW j \in U, NEW k \in U, SortsBefore(s, j, k)
      PROVE  Place(s, j) < Place(s, k)
  <2>1. B(j) \cup {j} \in SUBSET B(k)
    BY <1>6, SortFacts, Zenon
  <2>2. j \notin B(j)
    BY SortFacts, Zenon
  <2>3. Cardinality(B(j) \cup {j}) = Cardinality(B(j)) + 1
    BY <1>4, <2>2, FS_AddElement, Zenon
  <2>4. Cardinality(B(j) \cup {j}) <= Cardinality(B(k))
    BY <1>4, <2>1, FS_Subset, Zenon
  <2> QED BY <1>4, <2>3, <2>4
<1> HIDE DEF U, m, B
<1>7. ASSUME NEW j \in U, NEW k \in U, Place(s, j) = Place(s, k)
      PROVE  j = k
  <2>1. Place(s, j) \in Nat /\ Place(s, k) \in Nat
    BY <1>3, <1>5
  <2>2. ~(Place(s, j) < Place(s, k)) /\ ~(Place(s, k) < Place(s, j))
    BY <1>7, <2>1
  <2>3. ~SortsBefore(s, j, k) /\ ~SortsBefore(s, k, j)
    BY <1>6, <2>2, Zenon
  <2> QED BY <2>3, SortFacts, Zenon DEF U
<1>8. f \in Injection(U, 1..m)
  <2>1. f \in [U -> 1..m]
    BY <1>5, Zenon
  <2>2. \A a, b \in U : f[a] = f[b] => a = b
    BY <1>7, Zenon
  <2>3. DOMAIN f = U
    BY Zenon
  <2> HIDE DEF f
  <2> QED BY <2>1, <2>2, <2>3, Zenon DEF Injection, IsInjective
<1>9. IsFiniteSet(1..m) /\ Cardinality(1..m) = m
  BY <1>3, FS_Interval
<1>10. f \in Surjection(U, 1..m)
  <2> HIDE DEF f
  <2>1. Cardinality(U) = Cardinality(1..m)
    BY <1>9, Zenon DEF m
  <2> QED BY <1>8, <1>9, <2>1, FS_Injection, Zenon
<1>11. \A r \in 1..m : \E k \in U : f[k] = r
  <2> HIDE DEF f
  <2> QED BY <1>10, Zenon DEF Surjection
<1>12. \A k \in U : f[k] = Place(s, k)
  BY Zenon
<1>13. \A r \in 1..m : \E k \in U : Place(s, k) = r
  <2> HIDE DEF f
  <2> QED BY <1>11, <1>12, Zenon
<1> QED BY <1>1, <1>3, <1>5, <1>7, <1>13, Zenon DEF U, m

\* The observation that is sorted to a place.
At(s, r) == CHOOSE k \in UsedIn(s) : Place(s, k) = r

\* The sorted sequence holds every observation of the window once.
LEMMA MatchingFacts ==
    ASSUME NEW s \in Seq(Observations)
    PROVE  LET m == Cardinality(UsedIn(s))
           IN  /\ m \in Nat /\ DOMAIN Matching(s) = 1..m /\ Len(Matching(s)) = m
               /\ Matching(s) \in Seq(Observations)
               /\ \A r \in 1..m : /\ At(s, r) \in UsedIn(s) /\ Place(s, At(s, r)) = r
                                  /\ Matching(s)[r] = s[At(s, r)]
               /\ \A k \in UsedIn(s) : Place(s, k) \in 1..m /\ At(s, Place(s, k)) = k
<1> DEFINE U == UsedIn(s)
           m == Cardinality(U)
<1>1. /\ m \in Nat /\ U \subseteq DOMAIN s
      /\ \A k \in U : Place(s, k) \in 1..m
      /\ \A j, k \in U : Place(s, j) = Place(s, k) => j = k
      /\ \A r \in 1..m : \E k \in U : Place(s, k) = r
  BY PlaceFacts, Zenon
<1>2. Matching(s) = [r \in 1..m |-> s[At(s, r)]]
  BY Zenon DEF Matching, At
<1>3. \A r \in 1..m : At(s, r) \in U /\ Place(s, At(s, r)) = r
  BY <1>1, Zenon DEF At
<1>4. \A k \in U : At(s, Place(s, k)) = k
  BY <1>1, <1>3, Zenon
<1>5. \A k \in U : s[k] \in Observations
  BY <1>1
<1>6. /\ DOMAIN Matching(s) = 1..m
      /\ \A r \in 1..m : Matching(s)[r] = s[At(s, r)]
      /\ Matching(s) \in [1..m -> Observations]
  BY <1>2, <1>3, <1>5, Zenon
<1> HIDE DEF U, m
<1>7. Matching(s) \in Seq(Observations) /\ Len(Matching(s)) = m
  BY <1>1, <1>6
<1> QED BY <1>1, <1>3, <1>4, <1>6, <1>7, Zenon DEF U, m

\* Two observations of the window share their key.
Twice(s) == \E j, k \in UsedIn(s) : j # k /\ s[j].key = s[k].key

\* The sorted sequence shows a duplicate exactly when there is one.
LEMMA DuplicateFacts ==
    ASSUME NEW s \in Seq(Observations)
    PROVE  IsDuplicated(Matching(s)) <=> Twice(s)
<1> DEFINE U == UsedIn(s)
           m == Cardinality(U)
           M == Matching(s)
<1>1. /\ DOMAIN M = 1..m
      /\ \A r \in 1..m : At(s, r) \in U /\ Place(s, At(s, r)) = r /\ M[r] = s[At(s, r)]
      /\ \A k \in U : Place(s, k) \in 1..m /\ At(s, Place(s, k)) = k
  BY MatchingFacts, Zenon
<1> HIDE DEF U, m, M
<1>2. ASSUME NEW a \in 1..m, NEW b \in 1..m, a # b, M[a].key = M[b].key
      PROVE  Twice(s)
  <2>1. At(s, a) \in U /\ At(s, b) \in U /\ At(s, a) # At(s, b)
    BY <1>1, <1>2, Zenon
  <2>2. s[At(s, a)].key = s[At(s, b)].key
    BY <1>1, <1>2, Zenon
  <2> QED BY <2>1, <2>2, Zenon DEF Twice, U
<1>3. ASSUME NEW j \in U, NEW k \in U, j # k, s[j].key = s[k].key
      PROVE  \E a, b \in 1..m : a # b /\ M[a].key = M[b].key
  <2>1. Place(s, j) # Place(s, k) /\ Place(s, j) \in 1..m /\ Place(s, k) \in 1..m
    BY <1>1, <1>3, Zenon
  <2>2. M[Place(s, j)] = s[j] /\ M[Place(s, k)] = s[k]
    BY <1>1, <2>1, Zenon
  <2>3. M[Place(s, j)].key = M[Place(s, k)].key
    BY <1>3, <2>2, Zenon
  <2> QED BY <2>1, <2>3, Zenon
<1>4. IsDuplicated(M) <=> \E a, b \in 1..m : a # b /\ M[a].key = M[b].key
  BY <1>1, Zenon DEF IsDuplicated
<1> QED BY <1>2, <1>3, <1>4, Zenon DEF Twice, U, M

\* The same observations in another order.
Shuffled(s, p) == [k \in DOMAIN s |-> s[p[k]]]

\* A reordering uses the same observations.
LEMMA ShuffleFacts ==
    ASSUME NEW s \in Seq(Observations), NEW p \in Bijection(DOMAIN s, DOMAIN s)
    PROVE  LET t == Shuffled(s, p)
           IN  /\ t \in Seq(Observations) /\ DOMAIN t = DOMAIN s
               /\ \A k \in DOMAIN s : t[k] = s[p[k]] /\ p[k] \in DOMAIN s
               /\ \A j, k \in DOMAIN s : p[j] = p[k] => j = k
               /\ \A k \in DOMAIN s : \E j \in DOMAIN s : p[j] = k
               /\ \A k \in DOMAIN s : k \in UsedIn(t) <=> p[k] \in UsedIn(s)
               /\ Twice(t) <=> Twice(s)
               /\ Cardinality(UsedIn(t)) = Cardinality(UsedIn(s))
<1> DEFINE D == DOMAIN s
           t == Shuffled(s, p)
<1>1. /\ p \in [D -> D]
      /\ \A j, k \in D : p[j] = p[k] => j = k
      /\ \A k \in D : \E j \in D : p[j] = k
  BY Zenon DEF Bijection, Injection, Surjection, IsInjective
<1>2. D = 1..Len(s) /\ Len(s) \in Nat /\ \A k \in D : s[k] \in Observations
  OBVIOUS
<1>3. DOMAIN t = D /\ \A k \in D : t[k] = s[p[k]] /\ p[k] \in D
  BY <1>1, Zenon DEF Shuffled
<1>4. t \in [1..Len(s) -> Observations]
  BY <1>1, <1>2, Zenon DEF Shuffled
<1> HIDE DEF t
<1>5. t \in Seq(Observations)
  BY <1>2, <1>4
<1> HIDE DEF D
<1>6. /\ \A k : k \in UsedIn(s) <=> k \in D /\ InWindow(s[k])
      /\ \A k : k \in UsedIn(t) <=> k \in D /\ InWindow(t[k])
  BY <1>3, Zenon DEF UsedIn, D
<1>7. \A k \in D : k \in UsedIn(t) <=> p[k] \in UsedIn(s)
  BY <1>3, <1>6, Zenon
<1>8. Twice(t) => Twice(s)
  <2> SUFFICES ASSUME NEW j \in UsedIn(t), NEW k \in UsedIn(t), j # k, t[j].key = t[k].key
               PROVE  Twice(s)
    BY Zenon DEF Twice
  <2>1. j \in D /\ k \in D
    BY <1>6, Zenon
  <2>2. p[j] \in UsedIn(s) /\ p[k] \in UsedIn(s) /\ p[j] # p[k]
    BY <1>1, <1>7, <2>1, Zenon
  <2>3. s[p[j]].key = s[p[k]].key
    BY <1>3, <2>1, Zenon
  <2> QED BY <2>2, <2>3, Zenon DEF Twice
<1>9. Twice(s) => Twice(t)
  <2> SUFFICES ASSUME NEW j \in UsedIn(s), NEW k \in UsedIn(s), j # k, s[j].key = s[k].key
               PROVE  Twice(t)
    BY Zenon DEF Twice
  <2>1. j \in D /\ k \in D
    BY <1>6, Zenon
  <2>2. PICK x \in D : p[x] = j
    BY <1>1, <2>1, Zenon
  <2>3. PICK y \in D : p[y] = k
    BY <1>1, <2>1, Zenon
  <2>4. x \in UsedIn(t) /\ y \in UsedIn(t) /\ x # y
    BY <1>7, <2>2, <2>3, Zenon
  <2>5. t[x].key = t[y].key
    BY <1>3, <2>2, <2>3, Zenon
  <2> QED BY <2>4, <2>5, Zenon DEF Twice
<1>10. Cardinality(UsedIn(t)) = Cardinality(UsedIn(s))
  <2> DEFINE g == [k \in UsedIn(t) |-> p[k]]
  <2>1. g \in [UsedIn(t) -> UsedIn(s)]
    BY <1>6, <1>7, Zenon
  <2>2. \A j, k \in UsedIn(t) : g[j] = g[k] => j = k
    BY <1>1, <1>6, Zenon
  <2>3. \A k \in UsedIn(s) : \E j \in UsedIn(t) : g[j] = k
    <3> TAKE k \in UsedIn(s)
    <3>1. PICK j \in D : p[j] = k
      BY <1>1, <1>6, Zenon
    <3>2. j \in UsedIn(t)
      BY <1>7, <3>1, Zenon
    <3> QED BY <3>1, <3>2, Zenon
  <2> HIDE DEF g
  <2>4. g \in Bijection(UsedIn(t), UsedIn(s))
    BY <2>1, <2>2, <2>3, Fun_IsBij, Zenon
  <2>5. ExistsBijection(UsedIn(t), UsedIn(s))
    BY <2>4, Zenon DEF ExistsBijection
  <2>6. IsFiniteSet(UsedIn(t))
    BY <1>5, PlaceFacts, Zenon
  <2> QED BY <2>5, <2>6, FS_Bijection, Zenon
<1> QED BY <1>1, <1>3, <1>5, <1>7, <1>8, <1>9, <1>10, Zenon DEF D, t

\* Without duplicates, an observation has the same place whatever the order.
LEMMA SamePlace ==
    ASSUME NEW s \in Seq(Observations), NEW p \in Bijection(DOMAIN s, DOMAIN s), ~Twice(s),
           NEW k \in UsedIn(Shuffled(s, p))
    PROVE  Place(Shuffled(s, p), k) = Place(s, p[k])
<1> DEFINE D == DOMAIN s
           t == Shuffled(s, p)
           B == {j \in UsedIn(t) : SortsBefore(t, j, k)}
           C == {j \in UsedIn(s) : SortsBefore(s, j, p[k])}
           g == [j \in B |-> p[j]]
<1>1. /\ t \in Seq(Observations) /\ DOMAIN t = D
      /\ \A l \in D : t[l] = s[p[l]] /\ p[l] \in D
      /\ \A i, l \in D : p[i] = p[l] => i = l
      /\ \A l \in D : \E j \in D : p[j] = l
      /\ \A l \in D : l \in UsedIn(t) <=> p[l] \in UsedIn(s)
      /\ Twice(t) <=> Twice(s)
  BY ShuffleFacts, Zenon
<1>2. UsedIn(t) \subseteq D /\ UsedIn(s) \subseteq D /\ k \in D /\ k \in UsedIn(t) /\ p[k] \in UsedIn(s)
  BY <1>1, Zenon DEF UsedIn
<1> HIDE DEF t
<1>3. ASSUME NEW u \in Seq(Observations), ~Twice(u), NEW i \in UsedIn(u), NEW l \in UsedIn(u)
      PROVE  SortsBefore(u, i, l) <=> ObservationOrder(u[i], u[l])
  <2>1. CASE i = l
    <3>1. ~SortsBefore(u, i, l)
      BY <1>3, <2>1, SortFacts, Zenon
    <3>2. ObservationOrder(u[i], u[l]) => SortsBefore(u, i, l)
      BY Zenon DEF SortsBefore
    <3> QED BY <3>1, <3>2, Zenon
  <2>2. CASE i # l
    <3>1. u[i].key # u[l].key
      BY <1>3, <2>2, Zenon DEF Twice
    <3>2. u[i] \in Observations /\ u[l] \in Observations
      BY <1>3 DEF UsedIn
    <3>3. Coordinates(u[i]) \in Tuples /\ Coordinates(u[l]) \in Tuples
          /\ Coordinates(u[i]) # Coordinates(u[l])
      BY <3>1, <3>2, CoordinateFacts, Zenon
    <3>4. ObservationOrder(u[i], u[l]) \/ ObservationOrder(u[l], u[i])
      BY <3>3, OrderFacts, Zenon DEF ObservationOrder
    <3> QED BY <3>4, Zenon DEF SortsBefore
  <2> QED BY <2>1, <2>2, Zenon
<1>4. ASSUME NEW j \in UsedIn(t)
      PROVE  SortsBefore(t, j, k) <=> SortsBefore(s, p[j], p[k])
  <2>1. j \in D /\ p[j] \in UsedIn(s)
    BY <1>1, <1>2, Zenon
  <2>2. SortsBefore(t, j, k) <=> ObservationOrder(t[j], t[k])
    BY <1>1, <1>2, <1>3, Zenon
  <2>3. SortsBefore(s, p[j], p[k]) <=> ObservationOrder(s[p[j]], s[p[k]])
    BY <1>2, <1>3, <2>1, Zenon
  <2>4. t[j] = s[p[j]] /\ t[k] = s[p[k]]
    BY <1>1, <1>2, <2>1, Zenon
  <2> QED BY <2>2, <2>3, <2>4, Zenon
<1>5. g \in [B -> C]
  BY <1>1, <1>2, <1>4, Zenon
<1>6. \A i, j \in B : g[i] = g[j] => i = j
  BY <1>1, <1>2, Zenon
<1>7. \A i \in C : \E j \in B : g[j] = i
  <2> TAKE i \in C
  <2>1. PICK j \in D : p[j] = i
    BY <1>1, <1>2, Zenon
  <2>2. j \in B
    BY <1>1, <1>4, <2>1, Zenon
  <2> QED BY <2>1, <2>2, Zenon
<1>8. IsFiniteSet(B)
  <2>1. IsFiniteSet(UsedIn(t)) /\ B \in SUBSET UsedIn(t)
    BY <1>1, PlaceFacts, Zenon
  <2> QED BY <2>1, FS_Subset, Zenon
<1> HIDE DEF g
<1>9. g \in Bijection(B, C)
  <2> HIDE DEF B, C
  <2> QED BY <1>5, <1>6, <1>7, Fun_IsBij, Zenon
<1>10. Cardinality(B) = Cardinality(C)
  <2> HIDE DEF B, C
  <2>1. ExistsBijection(B, C)
    BY <1>9, Zenon DEF ExistsBijection
  <2> QED BY <1>8, <2>1, FS_Bijection, Zenon
<1> QED BY <1>10, Zenon DEF Place, t

\* Without duplicates, the sorted sequence is the same whatever the order.
LEMMA SameMatching ==
    ASSUME NEW s \in Seq(Observations), NEW p \in Bijection(DOMAIN s, DOMAIN s), ~Twice(s)
    PROVE  Matching(Shuffled(s, p)) = Matching(s)
<1> DEFINE t == Shuffled(s, p)
           m == Cardinality(UsedIn(s))
<1>1. /\ t \in Seq(Observations)
      /\ \A k \in DOMAIN s : t[k] = s[p[k]] /\ p[k] \in DOMAIN s
      /\ \A k \in DOMAIN s : k \in UsedIn(t) <=> p[k] \in UsedIn(s)
      /\ DOMAIN t = DOMAIN s
      /\ Cardinality(UsedIn(t)) = Cardinality(UsedIn(s))
  BY ShuffleFacts, Zenon
<1>2. \A k \in UsedIn(t) : k \in DOMAIN s
  BY <1>1, Zenon DEF UsedIn
<1>3. \A k \in UsedIn(t) : Place(t, k) = Place(s, p[k])
  BY SamePlace, Zenon
<1> HIDE DEF t, m
<1>4. /\ Matching(s) \in Seq(Observations) /\ DOMAIN Matching(s) = 1..m
      /\ \A r \in 1..m : Matching(s)[r] = s[At(s, r)]
      /\ \A k \in UsedIn(s) : At(s, Place(s, k)) = k
  BY MatchingFacts, Zenon DEF m
<1>5. /\ Matching(t) \in Seq(Observations) /\ DOMAIN Matching(t) = 1..m
      /\ \A r \in 1..m : /\ At(t, r) \in UsedIn(t) /\ Place(t, At(t, r)) = r
                         /\ Matching(t)[r] = t[At(t, r)]
  BY <1>1, MatchingFacts, Zenon DEF m
<1>6. ASSUME NEW r \in 1..m
      PROVE  Matching(t)[r] = Matching(s)[r]
  <2>1. /\ At(t, r) \in DOMAIN s /\ p[At(t, r)] \in UsedIn(s) /\ Place(s, p[At(t, r)]) = r
    BY <1>1, <1>2, <1>3, <1>5, Zenon
  <2>2. p[At(t, r)] = At(s, r)
    BY <1>4, <2>1, Zenon
  <2>3. t[At(t, r)] = s[At(s, r)]
    BY <1>1, <2>1, <2>2, Zenon
  <2> QED BY <1>4, <1>5, <2>3, Zenon
<1> DEFINE X == Matching(t)
           Y == Matching(s)
<1>7. X \in Seq(Observations) /\ Y \in Seq(Observations) /\ DOMAIN X = DOMAIN Y
      /\ \A r \in DOMAIN X : X[r] = Y[r]
  BY <1>4, <1>5, <1>6, Zenon
<1> HIDE DEF X, Y
<1>8. X = Y
  BY <1>7
<1> QED BY <1>8, Zenon DEF X, Y, t

\* The observations loaded are observations.
SnapshotTypes ==
    /\ observed \in Seq(Observations)
    /\ question \in [mint : QuoteMints, given : {"complete", "SOURCE_GAP"}, policy : Policies]

\* Only observations are loaded.
LEMMA SnapshotTyped == SnapshotSpec => []SnapshotTypes
<1>1. SnapshotInit => SnapshotTypes
  BY DEF SnapshotInit, SnapshotTypes
<1>2. SnapshotTypes /\ [SnapshotNext]_snapshotVars => SnapshotTypes'
  BY DEF SnapshotTypes, SnapshotNext, LoadObservation, snapshotVars
<1> QED BY <1>1, <1>2, PTL DEF SnapshotSpec

\* A duplicate is an error, whatever else the window holds.
LEMMA SnapshotOfDuplicates ==
    ASSUME NEW m, IsDuplicated(m), NEW given
    PROVE  SnapshotOf(m, given) = [error |-> "duplicate observation"]
BY Zenon DEF SnapshotOf

\* For any observations in any number, a window has one snapshot, or is refused
\* for its duplicates, whatever the order in which they were loaded
\* (build_market_window_snapshot, observation_order).
THEOREM LoadOrderIsIgnored == SnapshotSpec => []SnapshotIgnoresLoadOrder
<1>1. SnapshotTypes => SnapshotIgnoresLoadOrder
  <2> SUFFICES ASSUME SnapshotTypes, NEW p \in Bijection(DOMAIN observed, DOMAIN observed)
               PROVE  Snapshot = BuildMarketWindowSnapshot(Reordered(p), question.given)
    BY Zenon DEF SnapshotIgnoresLoadOrder
  <2>1. observed \in Seq(Observations)
    BY DEF SnapshotTypes
  <2>2. Reordered(p) = Shuffled(observed, p)
    BY Zenon DEF Reordered, Shuffled
  <2>3. CASE ~Twice(observed)
    <3>1. Matching(Reordered(p)) = Matching(observed)
      BY <2>1, <2>2, <2>3, SameMatching, Zenon
    <3> QED BY <3>1, Zenon DEF Snapshot, BuildMarketWindowSnapshot
  <2>4. CASE Twice(observed)
    <3>1. Twice(Shuffled(observed, p)) /\ Shuffled(observed, p) \in Seq(Observations)
      BY <2>1, <2>4, ShuffleFacts, Zenon
    <3>2. IsDuplicated(Matching(observed)) /\ IsDuplicated(Matching(Reordered(p)))
      BY <2>1, <2>2, <2>4, <3>1, DuplicateFacts, Zenon
    <3> QED BY <3>2, SnapshotOfDuplicates, Zenon DEF Snapshot, BuildMarketWindowSnapshot
  <2> QED BY <2>3, <2>4
<1> QED BY <1>1, SnapshotTyped, PTL

-----------------------------------------------------------------------------
(* Loops.                                                                  *)

\* A set of naturals that is not empty has a least element.
LEMMA LeastNumber ==
    ASSUME NEW T \in SUBSET Nat, T # {}
    PROVE  \E m \in T : \A n \in T : m <= n
<1> DEFINE R == OpToRel(<, Nat)
<1>1. IsWellFoundedOn(R, Nat)
  BY NatLessThanWellFounded
<1>2. \A x, y \in Nat : x < y => <<x, y>> \in R
  BY DEF OpToRel
<1> HIDE DEF R
<1>3. PICK x \in T : \A y \in T : ~(<<y, x>> \in R)
  BY <1>1, WFMin, Zenon
<1>4. \A y \in T : ~(y < x)
  BY <1>2, <1>3, Zenon
<1>5. \A y \in T : x <= y
  BY <1>4
<1> QED BY <1>5, Zenon

\* Induction over the turns of a loop, for the set of turns after which a fact holds.
LEMMA Turns ==
    ASSUME NEW n \in Nat, NEW S, 0 \in S, \A k \in 1..n : k - 1 \in S => k \in S
    PROVE  \A k \in 0..n : k \in S
<1> DEFINE T == {k \in 0..n : k \notin S}
<1> SUFFICES ASSUME T # {}
             PROVE  FALSE
  BY Zenon
<1>1. T \in SUBSET Nat
  OBVIOUS
<1>2. PICK m \in T : \A k \in T : m <= k
  <2> HIDE DEF T
  <2> QED BY <1>1, LeastNumber, Zenon
<1>3. m \in 1..n /\ m \notin S
  BY <1>2
<1>4. m - 1 \in 0..n /\ ~(m <= m - 1)
  BY <1>3
<1>5. m - 1 \in S
  BY <1>2, <1>4, Zenon
<1> QED BY <1>3, <1>5, Zenon

\* The values a loop of n turns goes through that starts with x and applies F.
IsRun(g, n, X, x, F) ==
    g \in [0..n -> X] /\ g[0] = x /\ \A k \in 1..n : g[k] = F[g[k - 1], k]

\* Every loop has its run.
LEMMA Loop ==
    ASSUME NEW n \in Nat, NEW X, NEW x \in X, NEW F \in [X \X (1..n) -> X]
    PROVE  \E g : IsRun(g, n, X, x, F)
<1> DEFINE Runs(m, g) == g \in [0..m -> X] /\ g[0] = x /\ \A k \in 1..m : g[k] = F[g[k - 1], k]
           S == {m \in 0..n : \E g : Runs(m, g)}
<1>1. 0 \in S
  <2> DEFINE g == [k \in 0..0 |-> x]
  <2>1. Runs(0, g)
    OBVIOUS
  <2> HIDE DEF g, Runs
  <2> QED BY <2>1
<1>2. ASSUME NEW m \in 1..n, m - 1 \in S
      PROVE  m \in S
  <2>1. PICK g : Runs(m - 1, g)
    BY <1>2, Zenon
  <2> DEFINE h == [k \in 0..m |-> IF k = m THEN F[g[m - 1], m] ELSE g[k]]
  <2>12. g \in [0..(m - 1) -> X]
    BY <2>1, Zenon
  <2>13. \A k \in 0..(m - 1) : k \in 0..m /\ k # m
    OBVIOUS
  <2>2. \A k \in 0..(m - 1) : k \in 0..m /\ k # m /\ g[k] \in X
    BY <2>12, <2>13, Zenon
  <2>3. m - 1 \in 0..(m - 1) /\ 0 \in 0..(m - 1) /\ m \in 0..m
    OBVIOUS
  <2>4. \A k \in 0..m : k = m \/ k \in 0..(m - 1)
    OBVIOUS
  <2>5. F[g[m - 1], m] \in X
    BY <2>2, <2>3
  <2>6. h \in [0..m -> X]
    BY <2>2, <2>4, <2>5, Zenon
  <2>7. (\A k \in 0..(m - 1) : h[k] = g[k]) /\ h[m] = F[g[m - 1], m]
    BY <2>2, <2>3, Zenon
  <2>8. h[0] = x
    BY <2>1, <2>3, <2>7, Zenon
  <2>9. ASSUME NEW k \in 1..m
        PROVE  h[k] = F[h[k - 1], k]
    <3>1. k - 1 \in 0..(m - 1)
      OBVIOUS
    <3>2. CASE k = m
      BY <2>7, <3>1, <3>2, Zenon
    <3>3. CASE k # m
      <4>1. k \in 1..(m - 1) /\ k \in 0..(m - 1)
        BY <3>3
      <4> QED BY <2>1, <2>7, <3>1, <4>1, Zenon
    <3> QED BY <3>2, <3>3
  <2> HIDE DEF h
  <2>10. Runs(m, h)
    BY <2>6, <2>8, <2>9, Zenon
  <2>11. m \in 0..n
    OBVIOUS
  <2> QED BY <2>10, <2>11, Zenon
<1> HIDE DEF S
<1>3. \A k \in 0..n : k \in S
  BY <1>1, <1>2, Turns, Zenon
<1>4. n \in S
  BY <1>3
<1> QED BY <1>4, Zenon DEF S, IsRun

-----------------------------------------------------------------------------
(* Arithmetic.                                                             *)

\* Division with remainder.
LEMMA DivisionFacts ==
    ASSUME NEW a \in Nat, NEW b \in Nat \ {0}
    PROVE  /\ a \div b \in Nat /\ a % b \in 0..(b - 1)
           /\ a = b * (a \div b) + (a % b)
OBVIOUS

\* Products grow with their factors.
LEMMA ProductFacts ==
    ASSUME NEW a \in Nat, NEW b \in Nat, NEW c \in Nat \ {0}
    PROVE  /\ a * c \in Nat
           /\ a <= b <=> a * c <= b * c
           /\ a < b <=> a * c < b * c
           /\ a * c = c * a
<1>1. a * c \in Nat /\ a * c = c * a
  OBVIOUS
<1>2. a <= b => a * c <= b * c
  OBVIOUS
<1>3. a < b => a * c < b * c
  OBVIOUS
<1> QED BY <1>1, <1>2, <1>3

\* The rounded-up quotient does not overflow, and is the least with its product.
LEMMA CeilExact ==
    ASSUME NEW m \in Nat, NEW v \in Nat, NEW d \in Nat \ {0}, m <= d, v <= MaxUnits,
           d * (d - 1) <= MaxUnits
    PROVE  LET c == CeilScaledDenominator(m, v, d)
           IN  c \in Nat /\ \A x \in Nat : c <= x <=> m * v <= x * d
<1> DEFINE q == v \div d
           r == v % d
           w == q * m
           p == r * m
           e == p \div d
           f == e + (IF p % d # 0 THEN 1 ELSE 0)
<1>0. MaxUnits \in Nat
  BY SnapshotAssumption
<1>1. q \in Nat /\ r \in 0..(d - 1) /\ v = d * q + r
  BY DivisionFacts, Zenon
<1>2. w \in Nat /\ p \in Nat
  <2> HIDE DEF q, r
  <2> QED BY <1>1
<1>3. e \in Nat /\ p % d \in 0..(d - 1) /\ p = d * e + (p % d)
  <2> HIDE DEF p
  <2> QED BY <1>2, DivisionFacts, Zenon
<1>4. f \in Nat /\ p <= f * d /\ (f = 0 \/ (f - 1) * d < p)
  <2> HIDE DEF p, e
  <2> QED BY <1>2, <1>3
<1> HIDE DEF q, r, e, f
<1>5. m * v = w * d + p
  BY <1>1
<1> HIDE DEF w, p
<1>6. ASSUME NEW x \in Nat
      PROVE  w + f <= x <=> m * v <= x * d
  <2>1. CASE w + f <= x
    <3>1. (w + f) * d <= x * d
      BY <1>2, <1>4, <2>1
    <3> QED BY <1>2, <1>4, <1>5, <2>1, <3>1
  <2>2. CASE x < w + f
    <3>1. CASE f = 0
      <4>1. x * d < w * d
        BY <1>2, <2>2, <3>1, ProductFacts
      <4> QED BY <1>2, <1>4, <1>5, <2>2, <3>1, <4>1
    <3>2. CASE f # 0
      <4>1. x <= w + (f - 1) /\ f - 1 \in Nat
        BY <1>2, <1>4, <2>2, <3>2
      <4>2. x * d <= (w + (f - 1)) * d
        BY <1>2, <4>1, ProductFacts
      <4> QED BY <1>2, <1>4, <1>5, <2>2, <3>2, <4>2
    <3> QED BY <3>1, <3>2
  <2> QED BY <1>2, <1>4, <2>1, <2>2
<1>7. w + f <= v
  <2>1. m * v <= v * d
    OBVIOUS
  <2> QED BY <1>6, <2>1
<1>8. p <= MaxUnits
  <2>1. p <= (d - 1) * m
    BY <1>1 DEF p
  <2>2. (d - 1) * m <= (d - 1) * d
    OBVIOUS
  <2> QED BY <1>0, <1>2, <2>1, <2>2
<1>9. CeilScaledDenominator(m, v, d) = w + f
  <2>1. Fits(w) /\ Fits(p) /\ Fits(w + f)
    BY <1>0, <1>2, <1>4, <1>7, <1>8 DEF Fits
  <2> QED BY <2>1 DEF CeilScaledDenominator, w, p, f, e, q, r
<1> QED BY <1>2, <1>4, <1>6, <1>9

-----------------------------------------------------------------------------
(* The bisection and the shares.                                           *)

\* What the interval of the bisection promises after a turn.
Encloses(g, n, d, c, turn) ==
    /\ g.low \in Nat /\ g.high \in Nat /\ g.low <= g.high /\ g.high <= c
    /\ g.low * d <= n * c /\ n * c < (g.high + 1) * d
    /\ g.high - g.low <= c - turn

\* A turn keeps the quotient in the interval and shortens the interval.
LEMMA HalveEncloses ==
    ASSUME NEW n \in Nat, NEW d \in Nat \ {0}, NEW c \in Nat \ {0}, d <= MaxUnits,
           c * (c - 1) <= MaxUnits, NEW turn \in 1..c, NEW g, Encloses(g, n, d, c, turn - 1)
    PROVE  Encloses(Halve(g, n, d, c), n, d, c, turn)
<1> DEFINE l == g.low
           h == g.high
           m == l + ((h - l + 1) \div 2)
           e == CeilScaledDenominator(m, d, c)
<1>1. /\ l \in Nat /\ h \in Nat /\ l <= h /\ h <= c
      /\ l * d <= n * c /\ n * c < (h + 1) * d
      /\ h - l <= c - (turn - 1)
  BY DEF Encloses
<1>2. CASE l >= h
  <2>1. Halve(g, n, d, c) = g
    BY <1>2, Zenon DEF Halve
  <2>2. h - l <= c - turn
    BY <1>1, <1>2
  <2> QED BY <1>1, <2>1, <2>2, Zenon DEF Encloses
<1>3. CASE ~(l >= h)
  <2>1. m \in Nat /\ l < m /\ m <= h /\ m - 1 \in Nat
    <3> HIDE DEF l, h
    <3> QED BY <1>1, <1>3
  <2> HIDE DEF m
  <2>2. m <= c
    BY <1>1, <2>1
  <2>3. e \in Nat /\ \A x \in Nat : e <= x <=> m * d <= x * c
    BY <2>1, <2>2, CeilExact, Zenon
  <2>4. e <= n <=> m * d <= n * c
    BY <2>3, Zenon
  <2>5. e # Overflow
    <3> HIDE DEF e
    <3> QED BY <2>3 DEF Overflow
  <2> HIDE DEF e
  <2>6. Halve(g, n, d, c) = IF e <= n THEN [low |-> m, high |-> h] ELSE [low |-> l, high |-> m - 1]
    BY <1>3, <2>5, Zenon DEF Halve, e, m
  <2>7. CASE e <= n
    <3>1. Halve(g, n, d, c) = [low |-> m, high |-> h]
      BY <2>6, <2>7, Zenon
    <3>2. m * d <= n * c
      BY <2>4, <2>7, Zenon
    <3>3. h - m <= c - turn
      BY <1>1, <2>1
    <3>4. Halve(g, n, d, c).low = m /\ Halve(g, n, d, c).high = h
      BY <3>1
    <3> QED BY <1>1, <2>1, <3>2, <3>3, <3>4, Zenon DEF Encloses
  <2>8. CASE ~(e <= n)
    <3>1. Halve(g, n, d, c) = [low |-> l, high |-> m - 1]
      BY <2>6, <2>8, Zenon
    <3>2. ~(m * d <= n * c)
      BY <2>4, <2>8, Zenon
    <3>3. n * c < (m - 1 + 1) * d
      <4>1. m - 1 + 1 = m
        BY <2>1
      <4>2. n * c < m * d
        BY <2>1, <3>2
      <4> QED BY <4>1, <4>2, Zenon
    <3>4. l <= m - 1 /\ m - 1 <= c /\ (m - 1) - l <= c - turn
      BY <1>1, <2>1
    <3>5. Halve(g, n, d, c).low = l /\ Halve(g, n, d, c).high = m - 1
      BY <3>1
    <3> QED BY <1>1, <2>1, <3>3, <3>4, <3>5, Zenon DEF Encloses
  <2> QED BY <2>7, <2>8
<1> QED BY <1>2, <1>3

\* The bisection ends on the rounded-down quotient.
LEMMA BisectionExact ==
    ASSUME NEW n \in Nat, NEW d \in Nat \ {0}, NEW c \in Nat, n < d, d <= MaxUnits,
           c * (c - 1) <= MaxUnits
    PROVE  LET f == ScaledProperFraction(n, d, c)
           IN  f \in Nat /\ f * d <= n * c /\ n * c < (f + 1) * d
<1>1. CASE n = 0 \/ c = 0
  <2>1. ScaledProperFraction(n, d, c) = 0
    BY <1>1, Zenon DEF ScaledProperFraction
  <2> QED BY <1>1, <2>1
<1>2. CASE n # 0 /\ c # 0
  <2> DEFINE X == [low : Int, high : Int]
             x == [low |-> 0, high |-> c]
             F == [z \in X \X (1..c) |-> Halve(z[1], n, d, c)]
  <2>1. x \in X
    OBVIOUS
  <2>2. ASSUME NEW g \in X
        PROVE  Halve(g, n, d, c) \in X
    <3>1. g.low \in Int /\ g.high \in Int
      OBVIOUS
    <3>2. g.low + ((g.high - g.low + 1) \div 2) \in Int
      BY <3>1
    <3>3. Overflow \in Int
      BY DEF Overflow
    <3> QED BY <3>1, <3>2, <3>3 DEF Halve
  <2>3. F \in [X \X (1..c) -> X]
    <3>1. \A z \in X \X (1..c) : z[1] \in X
      OBVIOUS
    <3> HIDE DEF X
    <3> QED BY <2>2, <3>1, Zenon
  <2>4. \A g \in X, k \in 1..c : F[g, k] = Halve(g, n, d, c)
    <3> HIDE DEF X
    <3> QED OBVIOUS
  <2> HIDE DEF X, x, F
  <2>5. PICK g : g \in [0..c -> X] /\ g[0] = x /\ \A k \in 1..c : g[k] = F[g[k - 1], k]
    <3>1. \E g : IsRun(g, c, X, x, F)
      BY <2>1, <2>3, Loop, Zenon
    <3> QED BY <3>1, Zenon DEF IsRun
  <2>6. \A k \in 1..c : k - 1 \in 0..c /\ k # 0 /\ k \in 0..c
    OBVIOUS
  <2>7. \A k \in 1..c : g[k] = Halve(g[k - 1], n, d, c)
    BY <2>4, <2>5, <2>6, Zenon
  <2> DEFINE After[turn \in 0..c] ==
               IF turn = 0 THEN [low |-> 0, high |-> c] ELSE Halve(After[turn - 1], n, d, c)
  <2>8. g = [turn \in 0..c |-> IF turn = 0 THEN [low |-> 0, high |-> c] ELSE Halve(g[turn - 1], n, d, c)]
    <3>1. \A k \in 0..c : k = 0 \/ k \in 1..c
      OBVIOUS
    <3> QED BY <2>5, <2>6, <2>7, <3>1, Zenon DEF x
  <2>9. After = [turn \in 0..c |-> IF turn = 0 THEN [low |-> 0, high |-> c]
                                   ELSE Halve(After[turn - 1], n, d, c)]
    BY <2>8, Zenon
  <2>10. ScaledProperFraction(n, d, c) = After[c].low
    BY <1>2, Zenon DEF ScaledProperFraction
  <2> HIDE DEF After
  <2> DEFINE S == {k \in 0..c : Encloses(After[k], n, d, c, k)}
  <2>11. 0 \in S
    <3>1. After[0] = [low |-> 0, high |-> c] /\ 0 \in 0..c
      BY <2>9
    <3>2. n * c < (c + 1) * d
      OBVIOUS
    <3>3. After[0].low = 0 /\ After[0].high = c
      BY <3>1
    <3>4. 0 * d <= n * c /\ c - 0 <= c - 0 /\ 0 <= c /\ c <= c /\ 0 \in Nat
      OBVIOUS
    <3> QED BY <3>1, <3>2, <3>3, <3>4, Zenon DEF Encloses
  <2>12. ASSUME NEW k \in 1..c, k - 1 \in S
        PROVE  k \in S
    <3>1. After[k] = Halve(After[k - 1], n, d, c) /\ k \in 0..c
      BY <2>6, <2>9, Zenon
    <3>2. Encloses(After[k - 1], n, d, c, k - 1) /\ c \in Nat \ {0}
      BY <1>2, <2>12
    <3>3. Encloses(Halve(After[k - 1], n, d, c), n, d, c, k)
      BY <3>2, HalveEncloses, Zenon
    <3> QED BY <3>1, <3>3, Zenon
  <2> HIDE DEF S
  <2>13. \A k \in 0..c : k \in S
    BY <2>11, <2>12, Turns, Zenon
  <2>14. Encloses(After[c], n, d, c, c)
    BY <2>13 DEF S
  <2> DEFINE l == After[c].low
             h == After[c].high
  <2>15. /\ l \in Nat /\ h \in Nat /\ l <= h /\ h - l <= c - c
         /\ l * d <= n * c /\ n * c < (h + 1) * d
    BY <2>14, Zenon DEF Encloses
  <2> HIDE DEF l, h
  <2>16. h = l
    BY <2>15
  <2> QED BY <2>10, <2>15, <2>16, Zenon DEF l
<1> QED BY <1>1, <1>2

\* The scaled ratio is the rounded-down quotient whenever that fits.
LEMMA RatioExact ==
    ASSUME NEW n \in Nat, NEW d \in Nat \ {0}, NEW c \in Nat, d <= MaxUnits,
           c * (c - 1) <= MaxUnits, n * c <= MaxUnits * d
    PROVE  LET f == CheckedScaledRatio(n, d, c)
           IN  f \in Nat /\ f * d <= n * c /\ n * c < (f + 1) * d
<1> DEFINE q == n \div d
           r == n % d
           w == q * c
           f == ScaledProperFraction(r, d, c)
<1>0. MaxUnits \in Nat
  BY SnapshotAssumption
<1>1. q \in Nat /\ r \in 0..(d - 1) /\ n = d * q + r
  BY DivisionFacts, Zenon
<1>2. CheckedScaledRatio(n, d, c) = IF Fits(w) /\ f # Overflow /\ Fits(w + f) THEN w + f ELSE Overflow
  BY Zenon DEF CheckedScaledRatio
<1> HIDE DEF q, r
<1>3. r \in Nat /\ r < d
  BY <1>1
<1>4. f \in Nat /\ f * d <= r * c /\ r * c < (f + 1) * d
  BY <1>3, BisectionExact, Zenon
<1> HIDE DEF f
<1>5. w \in Nat
  BY <1>1
<1>6. n * c = w * d + r * c
  BY <1>1, <1>3
<1> HIDE DEF w
<1>7. (w + f) * d <= n * c /\ n * c < (w + f + 1) * d
  BY <1>3, <1>4, <1>5, <1>6
<1>8. w + f <= MaxUnits
  <2>1. (w + f) * d <= MaxUnits * d
    BY <1>0, <1>4, <1>5, <1>7
  <2> QED BY <1>0, <1>4, <1>5, <2>1, ProductFacts
<1>9. CheckedScaledRatio(n, d, c) = w + f
  BY <1>0, <1>2, <1>4, <1>5, <1>8 DEF Fits, Overflow
<1> QED BY <1>4, <1>5, <1>7, <1>9

\* The share in basis points is within a limit exactly when the fraction is.
LEMMA ShareExact ==
    ASSUME NEW n \in Nat, NEW d \in Nat \ {0}, n <= d, d <= MaxUnits
    PROVE  LET share == FractionToBasisPoints(n, d)
           IN  share \in Nat /\ \A limit \in Nat : share <= limit <=> n * BasisPoints <= limit * d
<1> DEFINE B == BasisPoints
           f == CheckedScaledRatio(n, d, B)
           t == FractionWithinBasisPointLimit(d, f)
<1>1. /\ MaxUnits \in Nat /\ B \in Nat \ {0} /\ B <= MaxUnits /\ B * (B - 1) <= MaxUnits
  BY SnapshotAssumption
<1> HIDE DEF B
<1>2. n * B <= MaxUnits * d
  <2>1. n * B <= d * B
    BY <1>1
  <2>2. d * B <= d * MaxUnits
    BY <1>1
  <2> QED BY <1>1, <2>1, <2>2
<1>3. f \in Nat /\ f * d <= n * B /\ n * B < (f + 1) * d
  BY <1>1, <1>2, RatioExact, Zenon
<1> HIDE DEF f
<1>4. f <= B
  <2>1. f * d <= B * d
    BY <1>1, <1>3
  <2> QED BY <1>1, <1>3, <2>1, ProductFacts
<1>5. t \in Nat /\ t * B <= d * f /\ d * f < (t + 1) * B
  <2>1. f * (f - 1) <= MaxUnits
    <3>1. f * (f - 1) <= B * (B - 1)
      <4>1. CASE f = 0
        BY <1>1, <4>1
      <4>2. CASE f # 0
        <5>1. f - 1 \in Nat /\ f - 1 <= B - 1 /\ B - 1 \in Nat
          BY <1>1, <1>3, <1>4, <4>2
        <5>2. f * (f - 1) <= B * (f - 1)
          BY <1>1, <1>3, <1>4, <5>1
        <5>3. B * (f - 1) <= B * (B - 1)
          BY <1>1, <5>1
        <5> QED BY <1>1, <1>3, <5>1, <5>2, <5>3
      <4> QED BY <4>1, <4>2
    <3>2. f * (f - 1) \in Int /\ B * (B - 1) \in Int
      BY <1>1, <1>3
    <3> QED BY <1>1, <3>1, <3>2
  <2>2. d * f <= MaxUnits * B
    <3>1. d * f <= d * B
      BY <1>1, <1>3, <1>4
    <3>2. d * B <= MaxUnits * B
      BY <1>1
    <3> QED BY <1>1, <1>3, <3>1, <3>2
  <2>3. LET u == CheckedScaledRatio(d, B, f) IN u \in Nat /\ u * B <= d * f /\ d * f < (u + 1) * B
    BY <1>1, <1>3, <2>1, <2>2, RatioExact, Zenon
  <2>4. f # Overflow /\ ~(f > B)
    BY <1>1, <1>3, <1>4 DEF Overflow
  <2>5. t = CheckedScaledRatio(d, B, f)
    BY <2>4, Zenon DEF FractionWithinBasisPointLimit, B
  <2> QED BY <2>3, <2>5, Zenon
<1>6. FractionToBasisPoints(n, d) = IF n <= t THEN f ELSE f + 1
  <2>1. ~(d = 0 \/ n > d \/ t = Overflow)
    <3> HIDE DEF t
    <3> QED BY <1>5 DEF Overflow
  <2> QED BY <2>1, Zenon DEF FractionToBasisPoints, t, f, B
<1> HIDE DEF t
<1>7. n <= t <=> n * B <= d * f
  <2>1. CASE n <= t
    <3>1. n * B <= t * B
      BY <1>1, <1>5, <2>1
    <3> QED BY <1>1, <1>3, <1>5, <2>1, <3>1
  <2>2. CASE ~(n <= t)
    <3>1. (t + 1) * B <= n * B
      BY <1>1, <1>5, <2>2
    <3> QED BY <1>1, <1>3, <1>5, <2>2, <3>1
  <2> QED BY <2>1, <2>2
<1>8. CASE n <= t
  <2>1. n * B = f * d
    BY <1>1, <1>3, <1>7, <1>8
  <2>2. \A x \in Nat : f <= x <=> f * d <= x * d
    BY <1>3, ProductFacts, Zenon
  <2> QED BY <1>3, <1>6, <1>8, <2>1, <2>2, Zenon DEF B
<1>9. CASE ~(n <= t)
  <2>1. f * d < n * B /\ n * B < (f + 1) * d
    BY <1>1, <1>3, <1>7, <1>9
  <2>2. ASSUME NEW x \in Nat
        PROVE  f + 1 <= x <=> n * B <= x * d
    <3>1. CASE f + 1 <= x
      <4>1. (f + 1) * d <= x * d
        BY <1>3, <3>1
      <4> QED BY <1>1, <1>3, <2>1, <3>1, <4>1
    <3>2. CASE ~(f + 1 <= x)
      <4>1. x <= f
        BY <1>3, <3>2
      <4>2. x * d <= f * d
        BY <1>3, <4>1
      <4> QED BY <1>1, <1>3, <2>1, <3>2, <4>2
    <3> QED BY <3>1, <3>2
  <2>3. f + 1 \in Nat
    BY <1>3
  <2> QED BY <1>6, <1>9, <2>2, <2>3, Zenon DEF B
<1> QED BY <1>8, <1>9

-----------------------------------------------------------------------------
(* Volumes.                                                                *)

Units == {"base", "quote"}

\* What position k adds to the volume of S.
Share(S, unit, k) == IF k \in S THEN observed[k][unit] ELSE 0

\* The running totals behind a volume.
Adds(g, S, unit) ==
    /\ g \in [0..Len(observed) -> Nat] /\ g[0] = 0
    /\ \A k \in 1..Len(observed) : g[k] = g[k - 1] + Share(S, unit, k)

\* The amounts of trades are natural numbers.
LEMMA TradedFacts ==
    ASSUME observed \in Seq(Observations)
    PROVE  /\ Len(observed) \in Nat /\ Traded \subseteq 1..Len(observed)
           /\ Traded \subseteq UsedIn(observed) /\ UsedIn(observed) \subseteq 1..Len(observed)
           /\ IsFiniteSet(Traded)
           /\ \A k \in Traded : /\ observed[k] \in Observations
                                /\ observed[k].kind = "trade"
                                /\ observed[k].side \in {"buy", "sell"}
                                /\ observed[k].wallet \in Nat
                                /\ observed[k].base \in Nat /\ observed[k].quote \in Nat
<1>1. Len(observed) \in Nat /\ DOMAIN observed = 1..Len(observed)
      /\ \A k \in DOMAIN observed : observed[k] \in Observations
  OBVIOUS
<1>2. Traded \subseteq UsedIn(observed) /\ UsedIn(observed) \subseteq DOMAIN observed
      /\ \A k \in Traded : observed[k].kind = "trade"
  BY Zenon DEF Traded, UsedIn
<1>3. Traded \subseteq 1..Len(observed) /\ UsedIn(observed) \subseteq 1..Len(observed)
  BY <1>1, <1>2, Zenon
<1>4. IsFiniteSet(1..Len(observed))
  BY <1>1, FS_Interval
<1>5. IsFiniteSet(Traded)
  BY <1>3, <1>4, FS_Subset, Zenon
<1>6. \A k \in Traded : observed[k] \in Observations
  BY <1>1, <1>2, Zenon
<1>7. \A o \in Observations : o.kind = "trade" =>
         o.side \in {"buy", "sell"} /\ o.wallet \in Nat /\ o.base \in Nat /\ o.quote \in Nat
  BY SnapshotAssumption, Zenon
<1> QED BY <1>1, <1>2, <1>3, <1>5, <1>6, <1>7, Zenon

\* What a position adds is a natural number.
LEMMA ShareFacts ==
    ASSUME observed \in Seq(Observations), NEW unit \in Units, NEW S \in SUBSET Traded, NEW k
    PROVE  Share(S, unit, k) \in Nat
<1>1. \A j \in Traded : observed[j].base \in Nat /\ observed[j].quote \in Nat
  BY TradedFacts, Zenon
<1>2. CASE k \in S
  <2>1. k \in Traded
    BY <1>2, Zenon
  <2>2. observed[k].base \in Nat /\ observed[k].quote \in Nat
    BY <1>1, <2>1, Zenon
  <2>3. observed[k]["base"] \in Nat /\ observed[k]["quote"] \in Nat
    BY <2>2
  <2>4. unit = "base" \/ unit = "quote"
    BY Zenon DEF Units
  <2>5. observed[k][unit] \in Nat
    BY <2>3, <2>4, Zenon
  <2> QED BY <1>2, <2>5, Zenon DEF Share
<1>3. CASE k \notin S
  BY <1>3 DEF Share
<1> QED BY <1>2, <1>3

\* A volume is the last of its running totals.
LEMMA VolumeRuns ==
    ASSUME observed \in Seq(Observations), NEW unit \in Units, NEW S \in SUBSET Traded
    PROVE  \E g : Adds(g, S, unit) /\ Volume(S, unit) = g[Len(observed)]
<1> DEFINE n == Len(observed)
           F == [z \in Nat \X (1..n) |-> z[1] + Share(S, unit, z[2])]
<1>1. n \in Nat /\ \A k \in Traded : observed[k].base \in Nat /\ observed[k].quote \in Nat
  BY TradedFacts, Zenon
<1>2. \A k : Share(S, unit, k) \in Nat
  BY ShareFacts, Zenon
<1>3. F \in [Nat \X (1..n) -> Nat]
  <2>1. \A z \in Nat \X (1..n) : z[1] \in Nat
    OBVIOUS
  <2>2. \A a, b \in Nat : a + b \in Nat
    OBVIOUS
  <2> QED BY <1>2, <2>1, <2>2, Zenon
<1>4. \A a \in Nat, k \in 1..n : F[a, k] = a + Share(S, unit, k)
  <2> HIDE DEF n
  <2> QED OBVIOUS
<1> HIDE DEF n, F
<1>5. PICK g : g \in [0..n -> Nat] /\ g[0] = 0 /\ \A k \in 1..n : g[k] = F[g[k - 1], k]
  <2>1. 0 \in Nat
    OBVIOUS
  <2>2. \E g : IsRun(g, n, Nat, 0, F)
    BY <1>1, <1>3, <2>1, Loop, Zenon
  <2> QED BY <2>2, Zenon DEF IsRun
<1>6. \A k \in 1..n : k - 1 \in 0..n /\ k # 0 /\ k \in 0..n
  BY <1>1
<1>7. \A k \in 1..n : g[k] = g[k - 1] + Share(S, unit, k)
  BY <1>4, <1>5, <1>6, Zenon
<1>8. Adds(g, S, unit)
  BY <1>5, <1>7, Zenon DEF Adds, n
<1> DEFINE UpTo[k \in 0..n] ==
             IF k = 0 THEN 0 ELSE UpTo[k - 1] + (IF k \in S THEN observed[k][unit] ELSE 0)
<1>9. g = [k \in 0..n |-> IF k = 0 THEN 0 ELSE g[k - 1] + (IF k \in S THEN observed[k][unit] ELSE 0)]
  <2>1. \A k \in 0..n : k = 0 \/ k \in 1..n
    BY <1>1
  <2> QED BY <1>5, <1>6, <1>7, <2>1, Zenon DEF Share
<1>10. UpTo = [k \in 0..n |-> IF k = 0 THEN 0
                              ELSE UpTo[k - 1] + (IF k \in S THEN observed[k][unit] ELSE 0)]
  BY <1>9, Zenon
<1>11. Volume(S, unit) = UpTo[n]
  BY Zenon DEF Volume, n
<1> HIDE DEF UpTo
<1> DEFINE E == {k \in 0..n : UpTo[k] = g[k]}
<1>12. 0 \in E
  <2>1. 0 \in 0..n
    BY <1>1
  <2> QED BY <1>5, <1>10, <2>1, Zenon
<1>13. \A k \in 1..n : k - 1 \in E => k \in E
  BY <1>6, <1>7, <1>10, Zenon DEF Share
<1> HIDE DEF E
<1>14. \A k \in 0..n : k \in E
  BY <1>1, <1>12, <1>13, Turns, Zenon
<1>15. n \in 0..n
  BY <1>1
<1>16. UpTo[n] = g[n]
  BY <1>14, <1>15, Zenon DEF E
<1> QED BY <1>8, <1>11, <1>16, Zenon DEF n

\* Running totals that add the same end in the same volume.
LEMMA VolumeIs ==
    ASSUME observed \in Seq(Observations), NEW unit \in Units, NEW S \in SUBSET Traded,
           NEW g, Adds(g, S, unit)
    PROVE  Volume(S, unit) = g[Len(observed)]
<1> DEFINE n == Len(observed)
<1>1. n \in Nat
  BY TradedFacts, Zenon
<1>2. PICK h : Adds(h, S, unit) /\ Volume(S, unit) = h[n]
  BY VolumeRuns, Zenon
<1>3. /\ g[0] = 0 /\ \A k \in 1..n : g[k] = g[k - 1] + Share(S, unit, k)
      /\ h[0] = 0 /\ \A k \in 1..n : h[k] = h[k - 1] + Share(S, unit, k)
  BY <1>2, Zenon DEF Adds
<1> HIDE DEF n
<1> DEFINE E == {k \in 0..n : g[k] = h[k]}
<1>4. 0 \in E /\ n \in 0..n
  <2>1. 0 \in 0..n /\ n \in 0..n
    BY <1>1
  <2> QED BY <1>3, <2>1, Zenon
<1>5. \A k \in 1..n : k \in 0..n
  BY <1>1
<1>6. \A k \in 1..n : k - 1 \in E => k \in E
  BY <1>3, <1>5, Zenon
<1> HIDE DEF E
<1>7. \A k \in 0..n : k \in E
  BY <1>1, <1>4, <1>6, Turns, Zenon
<1> QED BY <1>2, <1>4, <1>7, Zenon DEF E, n

\* Volumes of disjoint sets add up.
LEMMA VolumeAdds ==
    ASSUME observed \in Seq(Observations), NEW unit \in Units,
           NEW S \in SUBSET Traded, NEW T \in SUBSET Traded, S \cap T = {}
    PROVE  Volume(S \cup T, unit) = Volume(S, unit) + Volume(T, unit)
<1> DEFINE n == Len(observed)
           U == S \cup T
<1>1. n \in Nat
  BY TradedFacts, Zenon
<1>2. PICK g : Adds(g, S, unit) /\ Volume(S, unit) = g[n]
  BY VolumeRuns, Zenon
<1>3. PICK h : Adds(h, T, unit) /\ Volume(T, unit) = h[n]
  BY VolumeRuns, Zenon
<1>4. /\ g \in [0..n -> Nat] /\ g[0] = 0 /\ \A k \in 1..n : g[k] = g[k - 1] + Share(S, unit, k)
      /\ h \in [0..n -> Nat] /\ h[0] = 0 /\ \A k \in 1..n : h[k] = h[k - 1] + Share(T, unit, k)
  BY <1>2, <1>3, Zenon DEF Adds
<1>5. U \in SUBSET Traded
  BY Zenon
<1>6. \A k : \/ Share(U, unit, k) = Share(S, unit, k) /\ Share(T, unit, k) = 0
             \/ Share(U, unit, k) = Share(T, unit, k) /\ Share(S, unit, k) = 0
  BY Zenon DEF Share
<1> HIDE DEF n, U
<1> DEFINE f == [k \in 0..n |-> g[k] + h[k]]
<1>7. f \in [0..n -> Nat] /\ f[0] = 0 /\ f[n] = g[n] + h[n]
  BY <1>1, <1>4
<1>8. ASSUME NEW k \in 1..n
      PROVE  f[k] = f[k - 1] + Share(U, unit, k)
  <2>1. k - 1 \in 0..n /\ k \in 0..n
    BY <1>1
  <2>2. g[k - 1] \in Nat /\ h[k - 1] \in Nat /\ g[k] \in Nat /\ h[k] \in Nat
    BY <1>4, <2>1, Zenon
  <2>3. g[k] = g[k - 1] + Share(S, unit, k) /\ h[k] = h[k - 1] + Share(T, unit, k)
    BY <1>4, Zenon
  <2>4. f[k] = g[k] + h[k] /\ f[k - 1] = g[k - 1] + h[k - 1]
    BY <2>1, Zenon
  <2> DEFINE a == g[k]
             b == g[k - 1]
             c == h[k]
             d == h[k - 1]
             x == Share(U, unit, k)
             y == Share(S, unit, k)
             z == Share(T, unit, k)
  <2>5. (x = y /\ z = 0) \/ (x = z /\ y = 0)
    BY <1>6, Zenon
  <2>6. a = b + y /\ c = d + z /\ a \in Nat /\ b \in Nat /\ c \in Nat /\ d \in Nat
    BY <2>2, <2>3, Zenon
  <2>8. x \in Nat /\ y \in Nat /\ z \in Nat
    BY <1>5, ShareFacts, Zenon
  <2>7. a + c = (b + d) + x
    <3> HIDE DEF a, b, c, d, x, y, z
    <3> QED BY <2>5, <2>6, <2>8
  <2> QED BY <2>4, <2>7, Zenon
<1> HIDE DEF f
<1>9. Adds(f, U, unit)
  BY <1>7, <1>8, Zenon DEF Adds, n
<1>10. Volume(U, unit) = f[Len(observed)]
  BY <1>5, <1>9, VolumeIs, Zenon
<1> QED BY <1>2, <1>3, <1>7, <1>10, Zenon DEF n, U

\* Volumes are natural numbers, and larger sets have at least the volume.
LEMMA VolumeFacts ==
    ASSUME observed \in Seq(Observations), NEW unit \in Units
    PROVE  /\ \A S \in SUBSET Traded : Volume(S, unit) \in Nat
           /\ Volume({}, unit) = 0
           /\ \A j \in Traded : Volume({j}, unit) = observed[j][unit] /\ observed[j][unit] \in Nat
           /\ \A S, T \in SUBSET Traded : S \subseteq T => Volume(S, unit) <= Volume(T, unit)
<1> DEFINE n == Len(observed)
<1>1. n \in Nat /\ Traded \subseteq 1..n
  BY TradedFacts, Zenon
<1>2. ASSUME NEW S \in SUBSET Traded
      PROVE  Volume(S, unit) \in Nat
  <2>1. PICK g : Adds(g, S, unit) /\ Volume(S, unit) = g[n]
    BY VolumeRuns, Zenon
  <2>2. g \in [0..n -> Nat]
    BY <2>1, Zenon DEF Adds
  <2>3. n \in 0..n
    BY <1>1
  <2> QED BY <2>1, <2>2, <2>3, Zenon
<1> HIDE DEF n
<1>3. Volume({}, unit) = 0
  <2> DEFINE g == [k \in 0..n |-> 0]
  <2>1. g \in [0..n -> Nat] /\ g[0] = 0 /\ g[n] = 0 /\ \A k \in 1..n : g[k] = 0 /\ g[k - 1] = 0
    BY <1>1
  <2>2. \A k : Share({}, unit, k) = 0
    BY Zenon DEF Share
  <2> HIDE DEF g
  <2>3. ASSUME NEW k \in 1..n
        PROVE  g[k] = g[k - 1] + Share({}, unit, k)
    BY <2>1, <2>2
  <2>4. Adds(g, {}, unit)
    BY <2>1, <2>3, Zenon DEF Adds, n
  <2> QED BY <2>1, <2>4, VolumeIs, Zenon DEF n
<1>4. ASSUME NEW j \in Traded
      PROVE  Volume({j}, unit) = observed[j][unit] /\ observed[j][unit] \in Nat
  <2> DEFINE v == observed[j][unit]
             g == [k \in 0..n |-> IF k < j THEN 0 ELSE v]
  <2>1. j \in 1..n /\ {j} \in SUBSET Traded
    BY <1>1, Zenon
  <2>2. \A k : Share({j}, unit, k) = IF k = j THEN v ELSE 0
    BY Zenon DEF Share
  <2>3. Share({j}, unit, j) \in Nat
    BY <2>1, ShareFacts, Zenon
  <2>4. v \in Nat
    BY <2>2, <2>3, Zenon
  <2> HIDE DEF v
  <2>5. g \in [0..n -> Nat] /\ g[0] = 0 /\ g[n] = v
    BY <1>1, <2>1, <2>4
  <2>6. ASSUME NEW k \in 1..n
        PROVE  g[k] = g[k - 1] + Share({j}, unit, k)
    <3>1. g[k] = (IF k < j THEN 0 ELSE v) /\ g[k - 1] = (IF k - 1 < j THEN 0 ELSE v)
      BY <1>1
    <3>2. Share({j}, unit, k) = IF k = j THEN v ELSE 0
      BY <2>2, Zenon
    <3> DEFINE a == g[k]
               b == g[k - 1]
               c == Share({j}, unit, k)
    <3>3. a = (IF k < j THEN 0 ELSE v) /\ b = (IF k - 1 < j THEN 0 ELSE v) /\ c = IF k = j THEN v ELSE 0
      BY <3>1, <3>2, Zenon
    <3>4. k \in Int /\ j \in Int
      BY <1>1, <2>1
    <3> HIDE DEF a, b, c, g
    <3>5. a = b + c
      BY <2>4, <3>3, <3>4
    <3> QED BY <3>5, Zenon DEF a, b, c
  <2> HIDE DEF g
  <2>7. Adds(g, {j}, unit)
    BY <2>5, <2>6, Zenon DEF Adds, n
  <2> QED BY <2>1, <2>4, <2>5, <2>7, VolumeIs, Zenon DEF n, v
<1>5. ASSUME NEW S \in SUBSET Traded, NEW T \in SUBSET Traded, S \subseteq T
      PROVE  Volume(S, unit) <= Volume(T, unit)
  <2> DEFINE R == T \ S
  <2>1. R \in SUBSET Traded /\ S \cap R = {} /\ S \cup R = T
    BY <1>5, Zenon
  <2> HIDE DEF R
  <2>2. Volume(S \cup R, unit) = Volume(S, unit) + Volume(R, unit)
    BY <2>1, VolumeAdds, Zenon
  <2>3. Volume(S, unit) \in Nat /\ Volume(R, unit) \in Nat
    BY <1>2, <2>1, Zenon
  <2>4. Volume(T, unit) = Volume(S, unit) + Volume(R, unit)
    BY <2>1, <2>2, Zenon
  <2> DEFINE a == Volume(S, unit)
             b == Volume(R, unit)
             c == Volume(T, unit)
  <2>5. a \in Nat /\ b \in Nat /\ c = a + b
    BY <2>3, <2>4, Zenon
  <2> HIDE DEF a, b, c
  <2>6. a <= c
    BY <2>5
  <2> QED BY <2>6, Zenon DEF a, c
<1> QED BY <1>2, <1>3, <1>4, <1>5, Zenon

-----------------------------------------------------------------------------
(* The accumulator.                                                        *)

Metrics == [buys : Nat, sells : Nat, buyBase : Nat, sellBase : Nat, buyQuote : Nat, sellQuote : Nat]

\* Totals of trades each of which has a base amount.
Counted(m) == m \in Metrics /\ m.buys <= m.buyBase /\ m.sells <= m.sellBase

Accumulators == [total : Metrics, wallets : UNION {[W -> Metrics] : W \in SUBSET Nat}]

\* A trade with its side and amounts.
HasAmounts(t) == t.side \in {"buy", "sell"} /\ t.base \in Nat /\ t.quote \in Nat

\* The totals r are the totals m with the trade t.
OneMore(r, m, t) ==
    /\ r \in Metrics
    /\ r.buys = m.buys + (IF t.side = "buy" THEN 1 ELSE 0)
    /\ r.sells = m.sells + (IF t.side = "sell" THEN 1 ELSE 0)
    /\ r.buyBase + r.sellBase = m.buyBase + m.sellBase + t.base
    /\ QuoteUnits(r) = QuoteUnits(m) + t.quote
    /\ (Counted(m) /\ t.base # 0 => Counted(r))

\* What one trade adds to the totals.
LEMMA RecordTradeFacts ==
    ASSUME NEW m \in Metrics, NEW t, HasAmounts(t)
    PROVE  OneMore(RecordTrade(m, t), m, t)
<1> DEFINE r == RecordTrade(m, t)
           x == t.base
           y == t.quote
<1>1. x \in Nat /\ y \in Nat /\ t.side \in {"buy", "sell"}
  BY DEF HasAmounts
<1>2. CASE t.side = "buy"
  <2>1. r = [m EXCEPT !.buys = m.buys + 1, !.buyBase = m.buyBase + x, !.buyQuote = m.buyQuote + y]
    BY <1>2, Zenon DEF RecordTrade
  <2> HIDE DEF r, x, y
  <2>3. m.buys \in Nat /\ m.sells \in Nat /\ m.buyBase \in Nat /\ m.sellBase \in Nat
        /\ m.buyQuote \in Nat /\ m.sellQuote \in Nat
    BY DEF Metrics
  <2>2. r \in Metrics /\ r.buys = m.buys + 1 /\ r.sells = m.sells /\ r.buyBase = m.buyBase + x
        /\ r.sellBase = m.sellBase /\ r.buyQuote = m.buyQuote + y /\ r.sellQuote = m.sellQuote
    <3>1. m = [buys |-> m.buys, sells |-> m.sells, buyBase |-> m.buyBase, sellBase |-> m.sellBase,
               buyQuote |-> m.buyQuote, sellQuote |-> m.sellQuote]
      BY DEF Metrics
    <3> DEFINE e == [buys |-> m.buys + 1, sells |-> m.sells,
                     buyBase |-> m.buyBase + x, sellBase |-> m.sellBase,
                     buyQuote |-> m.buyQuote + y, sellQuote |-> m.sellQuote]
    <3>2. r = e
      BY <2>1, <3>1, Zenon
    <3>3. e \in Metrics
      BY <1>1, <2>3 DEF Metrics
    <3>4. e.buys = m.buys + 1 /\ e.sells = m.sells
          /\ e.buyBase = m.buyBase + x /\ e.sellBase = m.sellBase
          /\ e.buyQuote = m.buyQuote + y /\ e.sellQuote = m.sellQuote
      OBVIOUS
    <3> HIDE DEF e
    <3> QED BY <3>2, <3>3, <3>4, Zenon
  <2>4. t.side # "sell"
    BY <1>2
  <2>5. r.buyBase + r.sellBase = m.buyBase + m.sellBase + x
        /\ QuoteUnits(r) = QuoteUnits(m) + y
        /\ m.sells = m.sells + 0
    BY <1>1, <2>2, <2>3 DEF QuoteUnits
  <2>6. Counted(m) /\ x # 0 => Counted(r)
    BY <1>1, <2>2, <2>3 DEF Counted
  <2> QED BY <1>2, <2>2, <2>4, <2>5, <2>6, Zenon DEF r, x, y, OneMore
<1>3. CASE t.side = "sell"
  <2>4. t.side # "buy"
    BY <1>3
  <2>1. r = [m EXCEPT !.sells = m.sells + 1, !.sellBase = m.sellBase + x, !.sellQuote = m.sellQuote + y]
    BY <2>4, Zenon DEF RecordTrade
  <2> HIDE DEF r, x, y
  <2>3. m.buys \in Nat /\ m.sells \in Nat /\ m.buyBase \in Nat /\ m.sellBase \in Nat
        /\ m.buyQuote \in Nat /\ m.sellQuote \in Nat
    BY DEF Metrics
  <2>2. r \in Metrics /\ r.sells = m.sells + 1 /\ r.buys = m.buys /\ r.sellBase = m.sellBase + x
        /\ r.buyBase = m.buyBase /\ r.sellQuote = m.sellQuote + y /\ r.buyQuote = m.buyQuote
    <3>1. m = [buys |-> m.buys, sells |-> m.sells, buyBase |-> m.buyBase, sellBase |-> m.sellBase,
               buyQuote |-> m.buyQuote, sellQuote |-> m.sellQuote]
      BY DEF Metrics
    <3> DEFINE e == [buys |-> m.buys, sells |-> m.sells + 1,
                     buyBase |-> m.buyBase, sellBase |-> m.sellBase + x,
                     buyQuote |-> m.buyQuote, sellQuote |-> m.sellQuote + y]
    <3>2. r = e
      BY <2>1, <3>1, Zenon
    <3>3. e \in Metrics
      BY <1>1, <2>3 DEF Metrics
    <3>4. e.buys = m.buys /\ e.sells = m.sells + 1
          /\ e.buyBase = m.buyBase /\ e.sellBase = m.sellBase + x
          /\ e.buyQuote = m.buyQuote /\ e.sellQuote = m.sellQuote + y
      OBVIOUS
    <3> HIDE DEF e
    <3> QED BY <3>2, <3>3, <3>4, Zenon
  <2>5. r.buyBase + r.sellBase = m.buyBase + m.sellBase + x
        /\ QuoteUnits(r) = QuoteUnits(m) + y
        /\ m.buys = m.buys + 0
    BY <1>1, <2>2, <2>3 DEF QuoteUnits
  <2>6. Counted(m) /\ x # 0 => Counted(r)
    BY <1>1, <2>2, <2>3 DEF Counted
  <2> QED BY <1>3, <2>2, <2>4, <2>5, <2>6, Zenon DEF r, x, y, OneMore
<1> QED BY <1>1, <1>2, <1>3, Zenon

\* Nothing has been recorded.
LEMMA NoTradesFacts ==
    /\ NoTrades \in Metrics /\ Counted(NoTrades) /\ QuoteUnits(NoTrades) = 0
    /\ NoTrades.buys = 0 /\ NoTrades.sells = 0 /\ NoTrades.buyBase + NoTrades.sellBase = 0
<1>1. NoTrades \in Metrics
  BY DEF NoTrades, Metrics
<1>2. NoTrades.buys = 0 /\ NoTrades.sells = 0 /\ NoTrades.buyBase = 0 /\ NoTrades.sellBase = 0
      /\ NoTrades.buyQuote = 0 /\ NoTrades.sellQuote = 0
  BY DEF NoTrades
<1> QED BY <1>1, <1>2 DEF Counted, QuoteUnits

\* The accumulator after the trades at the positions V.
Faithful(acc, V) ==
    /\ Counted(acc.total)
    /\ acc.total.buys = Cardinality(V \cap Side("buy"))
    /\ acc.total.sells = Cardinality(V \cap Side("sell"))
    /\ acc.total.buyBase + acc.total.sellBase = Volume(V, "base")
    /\ QuoteUnits(acc.total) = Volume(V, "quote")
    /\ DOMAIN acc.wallets = {observed[k].wallet : k \in V}
    /\ \A w \in DOMAIN acc.wallets : /\ acc.wallets[w] \in Metrics
                                     /\ WalletVolume(acc, w) = Volume(V \cap Of(w), "quote")

\* A trade of one side is counted on that side.
LEMMA SideFacts ==
    ASSUME observed \in Seq(Observations), NEW V \in SUBSET Traded, NEW j \in Traded \ V, NEW side
    PROVE  Cardinality((V \cup {j}) \cap Side(side))
             = Cardinality(V \cap Side(side)) + (IF observed[j].side = side THEN 1 ELSE 0)
<1>1. IsFiniteSet(Traded)
  BY TradedFacts, Zenon
<1>2. IsFiniteSet(V \cap Side(side))
  <2>1. V \cap Side(side) \subseteq Traded
    BY Zenon
  <2> QED BY <1>1, <2>1, FS_Subset, Zenon
<1>3. Cardinality(V \cap Side(side)) \in Nat
  BY <1>2, FS_CardinalityType, Zenon
<1>4. CASE observed[j].side = side
  <2>1. (V \cup {j}) \cap Side(side) = (V \cap Side(side)) \cup {j} /\ j \notin V \cap Side(side)
    BY <1>4, Zenon DEF Side
  <2>2. Cardinality((V \cap Side(side)) \cup {j}) = Cardinality(V \cap Side(side)) + 1
    BY <1>2, <2>1, FS_AddElement, Zenon
  <2> QED BY <1>4, <2>1, <2>2, Zenon
<1>5. CASE observed[j].side # side
  <2>1. (V \cup {j}) \cap Side(side) = V \cap Side(side)
    BY <1>5, Zenon DEF Side
  <2>2. Cardinality(V \cap Side(side)) = Cardinality(V \cap Side(side)) + 0
    BY <1>3
  <2> QED BY <1>5, <2>1, <2>2, Zenon
<1> QED BY <1>4, <1>5

\* One more trade adds its amount to a volume.
LEMMA VolumeOfOneMore ==
    ASSUME observed \in Seq(Observations), NEW unit \in Units, NEW V \in SUBSET Traded,
           NEW j \in Traded \ V
    PROVE  Volume(V \cup {j}, unit) = Volume(V, unit) + observed[j][unit]
<1>1. {j} \in SUBSET Traded /\ V \cap {j} = {} /\ j \in Traded
  BY Zenon
<1>2. Volume(V \cup {j}, unit) = Volume(V, unit) + Volume({j}, unit)
  BY <1>1, VolumeAdds, Zenon
<1>3. \A i \in Traded : Volume({i}, unit) = observed[i][unit]
  BY VolumeFacts, Zenon
<1>4. Volume({j}, unit) = observed[j][unit]
  BY <1>1, <1>3, Zenon
<1> QED BY <1>2, <1>4, Zenon

\* Recording a valid trade keeps the accumulator faithful.
LEMMA RecordMetricsFacts ==
    ASSUME observed \in Seq(Observations), NEW V \in SUBSET Traded, NEW j \in Traded \ V,
           IsValidTrade(observed[j]), NEW acc, Faithful(acc, V)
    PROVE  Faithful(RecordMetrics(acc, observed[j]), V \cup {j})
<1> DEFINE t == observed[j]
           U == V \cup {j}
           new == RecordMetrics(acc, t)
           old == IF t.wallet \in DOMAIN acc.wallets THEN acc.wallets[t.wallet] ELSE NoTrades
<1>1. j \in Traded /\ j \notin V /\ U \in SUBSET Traded /\ V \in SUBSET Traded
  BY Zenon
<1>2. HasAmounts(t)
  BY <1>1, TradedFacts, Zenon DEF HasAmounts
<1>3. t.base # 0
  BY Zenon DEF IsValidTrade, NoWallet, NoAmount
<1>4. /\ Counted(acc.total) /\ acc.total \in Metrics
      /\ acc.total.buys = Cardinality(V \cap Side("buy"))
      /\ acc.total.sells = Cardinality(V \cap Side("sell"))
      /\ acc.total.buyBase + acc.total.sellBase = Volume(V, "base")
      /\ QuoteUnits(acc.total) = Volume(V, "quote")
      /\ DOMAIN acc.wallets = {observed[k].wallet : k \in V}
      /\ \A w \in DOMAIN acc.wallets : /\ acc.wallets[w] \in Metrics
                                       /\ WalletVolume(acc, w) = Volume(V \cap Of(w), "quote")
  BY Zenon DEF Faithful, Counted
<1>5. new = [total |-> RecordTrade(acc.total, t),
             wallets |-> [x \in DOMAIN acc.wallets \cup {t.wallet} |->
                            IF x = t.wallet THEN RecordTrade(old, t) ELSE acc.wallets[x]]]
  BY Zenon DEF RecordMetrics
<1>6. /\ new.total = RecordTrade(acc.total, t)
      /\ DOMAIN new.wallets = DOMAIN acc.wallets \cup {t.wallet}
      /\ new.wallets[t.wallet] = RecordTrade(old, t)
      /\ \A x \in DOMAIN acc.wallets : x # t.wallet => new.wallets[x] = acc.wallets[x]
  <2> HIDE DEF new, old
  <2>1. new.total = RecordTrade(acc.total, t) /\
        new.wallets = [x \in DOMAIN acc.wallets \cup {t.wallet} |->
                         IF x = t.wallet THEN RecordTrade(old, t) ELSE acc.wallets[x]]
    BY <1>5, Zenon
  <2> QED BY <2>1, Zenon
<1> HIDE DEF new
<1>7. \A unit \in Units : Volume(U, unit) = Volume(V, unit) + t[unit]
  BY VolumeOfOneMore, Zenon
<1>8. "base" \in Units /\ "quote" \in Units
  BY DEF Units
<1>9. t["base"] = t.base /\ t["quote"] = t.quote
  OBVIOUS
<1>10. OneMore(new.total, acc.total, t)
  <2>1. acc.total \in Metrics
    BY <1>4, Zenon
  <2> HIDE DEF t
  <2>2. OneMore(RecordTrade(acc.total, t), acc.total, t)
    BY <1>2, <2>1, RecordTradeFacts, Zenon
  <2> QED BY <1>6, <2>2, Zenon
<1>11. /\ Counted(new.total)
       /\ new.total.buys = Cardinality(U \cap Side("buy"))
       /\ new.total.sells = Cardinality(U \cap Side("sell"))
  <2>1. Cardinality(U \cap Side("buy")) = Cardinality(V \cap Side("buy")) + (IF t.side = "buy" THEN 1 ELSE 0)
    BY SideFacts, Zenon
  <2>2. Cardinality(U \cap Side("sell")) = Cardinality(V \cap Side("sell")) + (IF t.side = "sell" THEN 1 ELSE 0)
    BY SideFacts, Zenon
  <2> QED BY <1>3, <1>4, <1>10, <2>1, <2>2, Zenon DEF OneMore
<1>12. /\ new.total.buyBase + new.total.sellBase = Volume(U, "base")
       /\ QuoteUnits(new.total) = Volume(U, "quote")
  BY <1>4, <1>7, <1>8, <1>9, <1>10, Zenon DEF OneMore
<1>13. DOMAIN new.wallets = {observed[k].wallet : k \in U}
  BY <1>4, <1>6, Zenon
<1>14. old \in Metrics /\ QuoteUnits(old) = Volume(V \cap Of(t.wallet), "quote")
  <2>1. CASE t.wallet \in DOMAIN acc.wallets
    BY <1>4, <2>1, Zenon DEF WalletVolume
  <2>2. CASE t.wallet \notin DOMAIN acc.wallets
    <3>1. V \cap Of(t.wallet) = {}
      BY <1>4, <2>2, Zenon DEF Of
    <3>2. Volume({}, "quote") = 0
      BY <1>8, VolumeFacts, Zenon
    <3> QED BY <2>2, <3>1, <3>2, NoTradesFacts, Zenon
  <2> QED BY <2>1, <2>2
<1> HIDE DEF old
<1>15. /\ RecordTrade(old, t) \in Metrics
       /\ QuoteUnits(RecordTrade(old, t)) = QuoteUnits(old) + t.quote
  <2> HIDE DEF t
  <2>1. OneMore(RecordTrade(old, t), old, t)
    BY <1>2, <1>14, RecordTradeFacts, Zenon
  <2> QED BY <2>1, Zenon DEF OneMore
<1>16. ASSUME NEW w \in DOMAIN new.wallets
       PROVE  new.wallets[w] \in Metrics /\ WalletVolume(new, w) = Volume(U \cap Of(w), "quote")
  <2>1. CASE w = t.wallet
    <3> DEFINE R == V \cap Of(w)
    <3>1. R \in SUBSET Traded /\ j \in Traded \ R /\ U \cap Of(w) = R \cup {j}
      BY <1>1, <2>1, Zenon DEF Of
    <3> HIDE DEF R
    <3>2. Volume(R \cup {j}, "quote") = Volume(R, "quote") + t["quote"]
      BY <1>8, <3>1, VolumeOfOneMore, Zenon
    <3>3. QuoteUnits(new.wallets[w]) = Volume(R, "quote") + t.quote /\ new.wallets[w] \in Metrics
      BY <1>6, <1>14, <1>15, <2>1, Zenon DEF R
    <3> QED BY <1>9, <3>1, <3>2, <3>3, Zenon DEF WalletVolume
  <2>2. CASE w # t.wallet
    <3>1. U \cap Of(w) = V \cap Of(w)
      BY <2>2, Zenon DEF Of
    <3>2. w \in DOMAIN acc.wallets /\ new.wallets[w] = acc.wallets[w]
      BY <1>6, <2>2, Zenon
    <3> QED BY <1>4, <3>1, <3>2, Zenon DEF WalletVolume
  <2> QED BY <2>1, <2>2
<1>17. \A w \in DOMAIN new.wallets :
         new.wallets[w] \in Metrics /\ WalletVolume(new, w) = Volume(U \cap Of(w), "quote")
  BY <1>16, Zenon
<1> HIDE DEF U, t
<1>18. Faithful(new, U)
  BY <1>11, <1>12, <1>13, <1>17, Zenon DEF Faithful
<1> QED BY <1>18, Zenon DEF new, U, t

\* Recording a trade leads from accumulator to accumulator.
LEMMA RecordMetricsType ==
    ASSUME NEW acc \in Accumulators, NEW t, HasAmounts(t), t.wallet \in Nat
    PROVE  RecordMetrics(acc, t) \in Accumulators
<1> DEFINE old == IF t.wallet \in DOMAIN acc.wallets THEN acc.wallets[t.wallet] ELSE NoTrades
           D == DOMAIN acc.wallets \cup {t.wallet}
           f == [x \in D |-> IF x = t.wallet THEN RecordTrade(old, t) ELSE acc.wallets[x]]
<1>1. acc.total \in Metrics /\ acc.wallets \in UNION {[W -> Metrics] : W \in SUBSET Nat}
  BY DEF Accumulators
<1>2. PICK W \in SUBSET Nat : acc.wallets \in [W -> Metrics]
  BY <1>1, Zenon
<1>3. DOMAIN acc.wallets \in SUBSET Nat /\ \A x \in DOMAIN acc.wallets : acc.wallets[x] \in Metrics
  BY <1>2, Zenon
<1>4. old \in Metrics
  BY <1>3, NoTradesFacts, Zenon
<1>5. RecordMetrics(acc, t) = [total |-> RecordTrade(acc.total, t), wallets |-> f]
  BY Zenon DEF RecordMetrics
<1> HIDE DEF old
<1>6. RecordTrade(old, t) \in Metrics
  <2>1. OneMore(RecordTrade(old, t), old, t)
    BY <1>4, RecordTradeFacts, Zenon
  <2> QED BY <2>1, Zenon DEF OneMore
<1>7. RecordTrade(acc.total, t) \in Metrics
  <2>1. OneMore(RecordTrade(acc.total, t), acc.total, t)
    BY <1>1, RecordTradeFacts, Zenon
  <2> QED BY <2>1, Zenon DEF OneMore
<1>8. D \in SUBSET Nat
  BY <1>3, Zenon
<1>9. f \in [D -> Metrics]
  BY <1>3, <1>6, Zenon
<1> HIDE DEF D, f
<1>10. f \in UNION {[X -> Metrics] : X \in SUBSET Nat}
  BY <1>8, <1>9, Zenon
<1> DEFINE G == UNION {[X -> Metrics] : X \in SUBSET Nat}
<1>11. Accumulators = [total : Metrics, wallets : G]
  BY Zenon DEF Accumulators
<1>12. f \in G
  BY <1>10, Zenon
<1> HIDE DEF G
<1> DEFINE m == RecordTrade(acc.total, t)
<1>13. m \in Metrics
  BY <1>7, Zenon
<1> HIDE DEF m
<1>14. [total |-> m, wallets |-> f] \in [total : Metrics, wallets : G]
  BY <1>12, <1>13
<1> QED BY <1>5, <1>11, <1>14, Zenon DEF m

NothingRecorded == [total |-> NoTrades, wallets |-> [w \in {} |-> NoTrades]]

\* Nothing recorded is an accumulator.
LEMMA NothingRecordedFacts == NothingRecorded \in Accumulators
<1> DEFINE G == UNION {[X -> Metrics] : X \in SUBSET Nat}
           f == [w \in {} |-> NoTrades]
<1>1. f \in [{} -> Metrics] /\ {} \in SUBSET Nat
  BY Zenon
<1> HIDE DEF f
<1>2. f \in G
  BY <1>1, Zenon
<1>3. Accumulators = [total : Metrics, wallets : G]
  BY Zenon DEF Accumulators
<1>4. NothingRecorded = [total |-> NoTrades, wallets |-> f]
  BY Zenon DEF NothingRecorded, f
<1>5. NoTrades \in Metrics
  BY NoTradesFacts, Zenon
<1> HIDE DEF G
<1> QED BY <1>2, <1>3, <1>4, <1>5, Zenon

\* One turn of the loop over the sorted observations.
Turn(acc, o) == IF IsValidTrade(o) THEN RecordMetrics(acc, o) ELSE acc

\* A turn leads from accumulator to accumulator.
LEMMA TurnType ==
    ASSUME NEW acc \in Accumulators, NEW o \in Observations
    PROVE  Turn(acc, o) \in Accumulators
<1>1. CASE IsValidTrade(o)
  <2>1. o.kind = "trade"
    BY <1>1, Zenon DEF IsValidTrade
  <2>2. o.side \in {"buy", "sell"} /\ o.wallet \in Nat /\ o.base \in Nat /\ o.quote \in Nat
    BY <2>1, SnapshotAssumption, Zenon
  <2>3. HasAmounts(o) /\ o.wallet \in Nat
    BY <2>2, Zenon DEF HasAmounts
  <2>4. RecordMetrics(acc, o) \in Accumulators
    BY <2>3, RecordMetricsType, Zenon
  <2> QED BY <1>1, <2>4, Zenon DEF Turn
<1>2. CASE ~IsValidTrade(o)
  BY <1>2, Zenon DEF Turn
<1> QED BY <1>1, <1>2

\* The loop goes through its turns in order.
LEMMA RecordedRuns ==
    ASSUME NEW s \in Seq(Observations)
    PROVE  \E g : /\ g[0] = NothingRecorded
                  /\ \A k \in 1..Len(s) : g[k] = Turn(g[k - 1], s[k])
                  /\ Recorded(s) = g[Len(s)]
<1> DEFINE n == Len(s)
           X == Accumulators
           F == [z \in X \X (1..n) |-> Turn(z[1], s[z[2]])]
<1>1. n \in Nat /\ \A k \in 1..n : s[k] \in Observations
  OBVIOUS
<1> HIDE DEF n, X
<1>2. F \in [X \X (1..n) -> X]
  <2>1. \A z \in X \X (1..n) : z[1] \in X /\ z[2] \in 1..n
    OBVIOUS
  <2>2. \A a \in X, o \in Observations : Turn(a, o) \in X
    BY TurnType, Zenon DEF X
  <2> QED BY <1>1, <2>1, <2>2, Zenon
<1>3. \A a \in X, k \in 1..n : F[a, k] = Turn(a, s[k])
  OBVIOUS
<1> HIDE DEF F
<1>4. PICK g : g \in [0..n -> X] /\ g[0] = NothingRecorded /\ \A k \in 1..n : g[k] = F[g[k - 1], k]
  <2>1. NothingRecorded \in X
    BY NothingRecordedFacts, Zenon DEF X
  <2>2. \E g : IsRun(g, n, X, NothingRecorded, F)
    BY <1>1, <1>2, <2>1, Loop, Zenon
  <2> QED BY <2>2, Zenon DEF IsRun
<1>5. \A k \in 1..n : k - 1 \in 0..n /\ k # 0 /\ k \in 0..n
  BY <1>1
<1>6. \A k \in 1..n : g[k] = Turn(g[k - 1], s[k])
  BY <1>3, <1>4, <1>5, Zenon
<1> DEFINE After[k \in 0..n] ==
             IF k = 0 THEN [total |-> NoTrades, wallets |-> [w \in {} |-> NoTrades]]
             ELSE IF IsValidTrade(s[k]) THEN RecordMetrics(After[k - 1], s[k])
             ELSE After[k - 1]
<1>7. g = [k \in 0..n |-> IF k = 0 THEN [total |-> NoTrades, wallets |-> [w \in {} |-> NoTrades]]
                          ELSE IF IsValidTrade(s[k]) THEN RecordMetrics(g[k - 1], s[k])
                          ELSE g[k - 1]]
  <2>1. \A k \in 0..n : k = 0 \/ k \in 1..n
    BY <1>1
  <2>2. ASSUME NEW k \in 0..n
        PROVE  g[k] = IF k = 0 THEN [total |-> NoTrades, wallets |-> [w \in {} |-> NoTrades]]
                      ELSE IF IsValidTrade(s[k]) THEN RecordMetrics(g[k - 1], s[k])
                      ELSE g[k - 1]
    BY <1>4, <1>5, <1>6, <2>1, Zenon DEF Turn, NothingRecorded
  <2> QED BY <1>4, <2>2, Zenon
<1>8. After = [k \in 0..n |-> IF k = 0 THEN [total |-> NoTrades, wallets |-> [w \in {} |-> NoTrades]]
                              ELSE IF IsValidTrade(s[k]) THEN RecordMetrics(After[k - 1], s[k])
                              ELSE After[k - 1]]
  BY <1>7, Zenon
<1>9. Recorded(s) = After[n]
  BY Zenon DEF Recorded, n
<1> HIDE DEF After
<1>10. \A k \in 1..n : After[k] = Turn(After[k - 1], s[k])
  BY <1>5, <1>8, Zenon DEF Turn
<1>11. After[0] = NothingRecorded
  <2>1. 0 \in 0..n
    BY <1>1
  <2> QED BY <1>8, <2>1, Zenon DEF NothingRecorded
<1> QED BY <1>9, <1>10, <1>11, Zenon DEF n

\* The valid trades of the window.
Valid == {k \in Traded : IsValidTrade(observed[k])}

\* The loop records every valid trade of the window once.
LEMMA RecordedFacts ==
    ASSUME observed \in Seq(Observations)
    PROVE  Faithful(Recorded(Matching(observed)), Valid)
<1> DEFINE M == Matching(observed)
           U == UsedIn(observed)
           n == Len(M)
           V(k) == {At(observed, r) : r \in {q \in 1..k : IsValidTrade(M[q])}}
<1>1. /\ M \in Seq(Observations) /\ n \in Nat
      /\ \A r \in 1..n : /\ At(observed, r) \in U /\ Place(observed, At(observed, r)) = r
                         /\ M[r] = observed[At(observed, r)]
      /\ \A k \in U : Place(observed, k) \in 1..n /\ At(observed, Place(observed, k)) = k
  BY MatchingFacts, Zenon
<1>2. PICK g : /\ g[0] = NothingRecorded
               /\ \A k \in 1..n : g[k] = Turn(g[k - 1], M[k])
               /\ Recorded(M) = g[n]
  BY <1>1, RecordedRuns, Zenon
<1>3. \A k \in U : IsValidTrade(observed[k]) => k \in Traded
  BY Zenon DEF Traded, IsValidTrade
<1> HIDE DEF M, U, n
<1>4. V(n) = Valid
  <2>1. V(n) \subseteq Valid
    BY <1>1, <1>3, Zenon DEF Valid
  <2>2. Traded \subseteq U
    BY TradedFacts, Zenon DEF U
  <2>3. ASSUME NEW k \in Valid
        PROVE  k \in V(n)
    <3>1. k \in U /\ IsValidTrade(observed[k])
      BY <2>2, Zenon DEF Valid
    <3>2. Place(observed, k) \in 1..n /\ At(observed, Place(observed, k)) = k
      BY <1>1, <3>1, Zenon
    <3>3. IsValidTrade(M[Place(observed, k)])
      BY <1>1, <3>1, <3>2, Zenon
    <3> QED BY <3>2, <3>3, Zenon
  <2> QED BY <2>1, <2>3, Zenon
<1> DEFINE S == {k \in 0..n : Faithful(g[k], V(k))}
<1>5. 0 \in S
  <2>1. V(0) = {}
    <3>1. 1..0 = {}
      OBVIOUS
    <3> QED BY <3>1, Zenon
  <2>2. \A side : Cardinality({} \cap Side(side)) = 0
    <3>1. \A side : {} \cap Side(side) = {}
      BY Zenon
    <3> QED BY <3>1, FS_EmptySet, Zenon
  <2>3. Volume({}, "base") = 0 /\ Volume({}, "quote") = 0
    <3>1. "base" \in Units /\ "quote" \in Units
      BY DEF Units
    <3> QED BY <3>1, VolumeFacts, Zenon
  <2>4. NothingRecorded.total = NoTrades /\ DOMAIN NothingRecorded.wallets = {}
    BY Zenon DEF NothingRecorded
  <2>5. Faithful(NothingRecorded, {})
    BY <2>2, <2>3, <2>4, NoTradesFacts, Zenon DEF Faithful
  <2>6. 0 \in 0..n
    BY <1>1
  <2> HIDE DEF V
  <2> QED BY <1>2, <2>1, <2>5, <2>6, Zenon
<1>6. ASSUME NEW k \in 1..n, k - 1 \in S
      PROVE  k \in S
  <2> DEFINE j == At(observed, k)
  <2>1. \A q : q \in 1..k <=> q \in 1..(k - 1) \/ q = k
    OBVIOUS
  <2>2. k \notin 1..(k - 1) /\ k \in 0..n /\ \A q \in 1..(k - 1) : q \in 1..n
    BY <1>1
  <2>3. Faithful(g[k - 1], V(k - 1)) /\ g[k] = Turn(g[k - 1], M[k]) /\ M[k] = observed[j]
    BY <1>1, <1>2, <1>6, Zenon
  <2>4. CASE IsValidTrade(M[k])
    <3>1. V(k) = V(k - 1) \cup {j}
      BY <2>1, <2>4, Zenon
    <3>2. j \in Traded /\ V(k - 1) \in SUBSET Traded
      BY <1>1, <1>3, <2>2, <2>3, <2>4, Zenon
    <3>3. j \notin V(k - 1)
      BY <1>1, <2>2, Zenon
    <3>4. IsValidTrade(observed[j]) /\ j \in Traded \ V(k - 1)
      BY <2>3, <2>4, <3>2, <3>3, Zenon
    <3> HIDE DEF V, j
    <3>5. Faithful(RecordMetrics(g[k - 1], observed[j]), V(k - 1) \cup {j})
      BY <2>3, <3>2, <3>4, RecordMetricsFacts, Zenon
    <3> QED BY <2>2, <2>3, <2>4, <3>1, <3>5, Zenon DEF Turn
  <2>5. CASE ~IsValidTrade(M[k])
    <3>1. V(k) = V(k - 1)
      BY <2>1, <2>5, Zenon
    <3> HIDE DEF V, j
    <3> QED BY <2>2, <2>3, <2>5, <3>1, Zenon DEF Turn
  <2> QED BY <2>4, <2>5
<1> HIDE DEF S, V
<1>7. \A k \in 0..n : k \in S
  BY <1>1, <1>5, <1>6, Turns, Zenon
<1>8. n \in 0..n
  BY <1>1
<1>9. Faithful(g[n], V(n))
  BY <1>7, <1>8, Zenon DEF S
<1> QED BY <1>2, <1>4, <1>9, Zenon DEF M

-----------------------------------------------------------------------------
(* The largest wallet.                                                     *)

\* Finitely many numbers have a bound.
LEMMA Bounded ==
    ASSUME NEW n \in Nat, NEW K \in SUBSET (1..n), NEW f, \A k \in K : f[k] \in Nat
    PROVE  \E b \in Nat : \A k \in K : f[k] <= b
<1> DEFINE B(m, b) == \A k \in K : k <= m => f[k] <= b
           S == {m \in 0..n : \E b \in Nat : B(m, b)}
<1>1. 0 \in S
  <2>1. \A k \in K : ~(k <= 0)
    OBVIOUS
  <2>2. B(0, 0) /\ 0 \in Nat /\ 0 \in 0..n
    BY <2>1
  <2> HIDE DEF B
  <2> QED BY <2>2, Zenon
<1>2. ASSUME NEW m \in 1..n, m - 1 \in S
      PROVE  m \in S
  <2>1. PICK b \in Nat : B(m - 1, b)
    BY <1>2, Zenon
  <2>2. m \in 0..n
    OBVIOUS
  <2>3. ASSUME NEW k \in K, k <= m
        PROVE  k <= m - 1 \/ k = m
    BY <2>3
  <2>4. CASE m \in K
    <3>1. f[m] \in Nat
      BY <2>4, Zenon
    <3> DEFINE c == b + f[m]
    <3>2. c \in Nat /\ b <= c /\ f[m] <= c
      BY <3>1
    <3> HIDE DEF c
    <3>3. ASSUME NEW k \in K, k <= m
          PROVE  f[k] <= c
      <4>1. CASE k = m
        BY <3>2, <4>1, Zenon
      <4>2. CASE k <= m - 1
        <5>1. f[k] <= b /\ f[k] \in Nat
          BY <2>1, <4>2, Zenon
        <5> QED BY <3>2, <5>1
      <4> QED BY <2>3, <3>3, <4>1, <4>2, Zenon
    <3> QED BY <2>2, <3>2, <3>3, Zenon
  <2>5. CASE m \notin K
    <3>1. B(m, b)
      BY <2>1, <2>3, <2>5, Zenon
    <3> HIDE DEF B
    <3> QED BY <2>2, <3>1, Zenon
  <2> QED BY <2>4, <2>5
<1> HIDE DEF S
<1>3. \A k \in 0..n : k \in S
  BY <1>1, <1>2, Turns, Zenon
<1>4. n \in S
  BY <1>3
<1>5. \A k \in K : k <= n
  OBVIOUS
<1> QED BY <1>4, <1>5, Zenon DEF S

\* A bounded set has a greatest number.
LEMMA GreatestNumber ==
    ASSUME NEW S \in SUBSET Nat, S # {}, NEW b \in Nat, \A x \in S : x <= b
    PROVE  \E m \in S : \A x \in S : x <= m
<1> DEFINE T == {c \in Nat : \A x \in S : x <= c}
<1>1. T \in SUBSET Nat /\ b \in T
  BY Zenon
<1>2. PICK c \in T : \A e \in T : c <= e
  BY <1>1, LeastNumber, Zenon
<1>3. c \in Nat /\ \A x \in S : x <= c
  BY <1>2, Zenon
<1>4. c \in S
  <2> SUFFICES ASSUME c \notin S PROVE FALSE
    OBVIOUS
  <2>1. \A x \in S : x \in Nat /\ x # c /\ x <= c
    BY <1>3, Zenon
  <2>2. PICK y : y \in S
    BY Zenon
  <2>3. c # 0
    BY <1>3, <2>1, <2>2
  <2>4. c - 1 \in Nat /\ ~(c <= c - 1)
    BY <1>3, <2>3
  <2>5. \A x \in S : x <= c - 1
    BY <1>3, <2>1
  <2>6. c - 1 \in T
    BY <2>4, <2>5, Zenon
  <2> QED BY <1>2, <2>4, <2>6, Zenon
<1> QED BY <1>3, <1>4, Zenon

\* The wallet found has the largest volume.
LEMMA LargestFacts ==
    ASSUME NEW acc, DOMAIN acc.wallets \in SUBSET Nat, DOMAIN acc.wallets # {},
           NEW b \in Nat, \A x \in DOMAIN acc.wallets : x <= b,
           \A x \in DOMAIN acc.wallets : WalletVolume(acc, x) \in Nat
    PROVE  \E w \in DOMAIN acc.wallets :
              /\ LargestWallet(acc)
                   = <<[wallet |-> w, quote |-> WalletVolume(acc, w), share |-> WalletShare(acc, w)]>>
              /\ \A x \in DOMAIN acc.wallets : WalletVolume(acc, x) <= WalletVolume(acc, w)
<1> DEFINE D == DOMAIN acc.wallets
           R == {x \in D : Replaces(acc, x)}
           Last(x) == Replaces(acc, x) /\ \A y \in D : x < y => ~Replaces(acc, y)
           w == CHOOSE x \in D : Last(x)
<1> HIDE DEF D
<1>1. D \in SUBSET Nat /\ D # {} /\ (\A x \in D : x <= b) /\ \A x \in D : WalletVolume(acc, x) \in Nat
  BY Zenon DEF D
<1>2. \A x : Replaces(acc, x) <=> \A y \in D : y < x => WalletVolume(acc, y) < WalletVolume(acc, x)
  BY Zenon DEF Replaces, D
<1>3. R # {}
  <2>1. PICK m \in D : \A x \in D : m <= x
    BY <1>1, LeastNumber, Zenon
  <2>2. \A x \in D : ~(x < m)
    BY <1>1, <2>1
  <2> QED BY <1>2, <2>2, Zenon
<1>4. R \in SUBSET Nat /\ \A x \in R : x <= b
  BY <1>1, Zenon
<1>5. PICK m \in R : \A x \in R : x <= m
  <2> HIDE DEF R
  <2> QED BY <1>3, <1>4, GreatestNumber, Zenon
<1>6. Last(m) /\ m \in D
  <2>1. m \in D /\ m \in Nat /\ Replaces(acc, m)
    BY <1>4, <1>5, Zenon
  <2>2. ASSUME NEW y \in D, m < y
        PROVE  ~Replaces(acc, y)
    <3>1. ~(y <= m)
      BY <1>1, <2>1, <2>2
    <3> QED BY <1>5, <3>1, Zenon
  <2> QED BY <2>1, <2>2, Zenon
<1>7. w \in D /\ Last(w)
  <2> HIDE DEF Last
  <2> QED BY <1>6, Zenon
<1>8. LargestWallet(acc) = <<[wallet |-> w, quote |-> WalletVolume(acc, w), share |-> WalletShare(acc, w)]>>
  BY <1>1, Zenon DEF LargestWallet, D
<1> HIDE DEF w, Last
<1>9. w \in D /\ Replaces(acc, w) /\ \A y \in D : w < y => ~Replaces(acc, y)
  BY <1>7, Zenon DEF Last
<1> DEFINE v(x) == WalletVolume(acc, x)
           T == {x \in D : v(w) < v(x)}
<1>10. T = {}
  <2> SUFFICES ASSUME T # {} PROVE FALSE
    OBVIOUS
  <2>1. T \in SUBSET Nat
    BY <1>1, Zenon
  <2> HIDE DEF T
  <2>2. PICK y \in T : \A x \in T : y <= x
    BY <2>1, LeastNumber, Zenon
  <2>3. y \in D /\ v(w) < v(y)
    BY <2>2, Zenon DEF T
  <2> HIDE DEF v
  <2>4. \A x \in D : v(x) \in Nat /\ x \in Nat
    BY <1>1, Zenon DEF v
  <2>5. ~(y < w)
    <3> SUFFICES ASSUME y < w PROVE FALSE
      OBVIOUS
    <3>1. v(y) < v(w)
      BY <1>2, <1>9, <2>3, Zenon DEF v
    <3> DEFINE a == v(y)
               c == v(w)
    <3>2. a \in Nat /\ c \in Nat /\ a < c /\ c < a
      BY <1>9, <2>3, <2>4, <3>1, Zenon
    <3> HIDE DEF a, c
    <3> QED BY <3>2
  <2>6. y # w
    <3> SUFFICES ASSUME y = w PROVE FALSE
      OBVIOUS
    <3> DEFINE a == v(w)
    <3>1. a \in Nat /\ a < a
      BY <1>9, <2>3, <2>4, Zenon
    <3> HIDE DEF a
    <3> QED BY <3>1
  <2>7. w < y
    <3>1. w \in Nat /\ y \in Nat
      BY <1>9, <2>3, <2>4, Zenon
    <3> QED BY <2>5, <2>6, <3>1
  <2>8. ASSUME NEW x \in D, x < y
        PROVE  v(x) < v(y)
    <3>1. x \notin T
      <4>1. x \in Nat /\ y \in Nat
        BY <2>3, <2>4, Zenon
      <4>2. ~(y <= x)
        BY <2>8, <4>1
      <4> QED BY <2>2, <4>2, Zenon
    <3>2. ~(v(w) < v(x))
      BY <3>1, Zenon DEF T
    <3> DEFINE a == v(w)
               c == v(x)
               e == v(y)
    <3>3. a \in Nat /\ c \in Nat /\ e \in Nat /\ ~(a < c) /\ a < e
      BY <1>9, <2>3, <2>4, <3>2, Zenon
    <3> HIDE DEF a, c, e
    <3>4. c < e
      BY <3>3
    <3> QED BY <3>4, Zenon DEF c, e
  <2>9. Replaces(acc, y)
    BY <1>2, <2>8, Zenon DEF v
  <2> QED BY <1>9, <2>3, <2>7, <2>9, Zenon
<1>11. ASSUME NEW x \in D
       PROVE  v(x) <= v(w)
  <2>1. ~(v(w) < v(x))
    BY <1>10, Zenon
  <2> DEFINE a == v(w)
             c == v(x)
  <2>2. a \in Nat /\ c \in Nat /\ ~(a < c)
    BY <1>1, <1>9, <2>1, Zenon
  <2> HIDE DEF a, c
  <2>3. c <= a
    BY <2>2
  <2> QED BY <2>3, Zenon DEF a, c
<1> QED BY <1>8, <1>9, <1>11, Zenon DEF D

\* The greatest of a bounded set.
LEMMA MaxFacts ==
    ASSUME NEW S \in SUBSET Nat, S # {}, NEW b \in Nat, \A x \in S : x <= b
    PROVE  Max(S) \in S /\ \A x \in S : x <= Max(S)
<1>1. PICK m \in S : \A x \in S : x <= m
  BY GreatestNumber, Zenon
<1>2. \A x \in S : m >= x
  BY <1>1
<1>3. Max(S) \in S /\ \A x \in S : Max(S) >= x
  BY <1>2, Zenon DEF Max
<1> DEFINE g == Max(S)
<1>4. g \in S /\ \A x \in S : g >= x
  BY <1>3, Zenon
<1> HIDE DEF g
<1>5. \A x \in S : x <= g
  BY <1>4
<1> QED BY <1>4, <1>5, Zenon DEF g

-----------------------------------------------------------------------------
(* The creators.                                                           *)

\* Valid trades have a wallet and amounts.
LEMMA ValidFacts ==
    ASSUME observed \in Seq(Observations)
    PROVE  /\ Valid \in SUBSET Traded
           /\ \A k \in Valid : /\ observed[k].wallet \in Nat /\ observed[k].wallet # 0
                               /\ observed[k].base # 0 /\ observed[k].quote # 0
                               /\ observed[k].quote \in Nat
<1>1. \A k \in Traded : observed[k].wallet \in Nat /\ observed[k].quote \in Nat
  BY TradedFacts, Zenon
<1>2. \A k \in Valid : k \in Traded /\ IsValidTrade(observed[k])
  BY Zenon DEF Valid
<1>3. \A k \in Valid : observed[k].wallet # 0 /\ observed[k].base # 0 /\ observed[k].quote # 0
  BY <1>2, Zenon DEF IsValidTrade, NoWallet, NoAmount
<1> QED BY <1>1, <1>2, <1>3, Zenon

\* The creators together have at most the whole volume.
LEMMA CreatorFacts ==
    ASSUME observed \in Seq(Observations), NEW acc, Faithful(acc, Valid),
           NEW creators \in SUBSET Nat, creators # {}, NEW b \in Nat, \A x \in creators : x <= b
    PROVE  \E q \in Nat :
              /\ q <= Volume(Valid, "quote")
              /\ CreatorVolume(acc, creators)
                   = <<[wallets |-> creators, quote |-> q,
                        share |-> IF QuoteUnits(acc.total) > 0
                                  THEN <<FractionToBasisPoints(q, QuoteUnits(acc.total))>> ELSE None]>>
<1> DEFINE n == Max(creators)
           D == DOMAIN acc.wallets
           Part(w) == IF w \in creators \cap D THEN WalletVolume(acc, w) ELSE 0
           F == [z \in Nat \X (1..n) |-> z[1] + Part(z[2])]
           C(w) == {k \in Valid : observed[k].wallet \in creators /\ observed[k].wallet <= w}
<1>1. n \in Nat
  BY MaxFacts, Zenon
<1>2. Valid \in SUBSET Traded /\ \A k \in Valid : observed[k].wallet \in Nat /\ observed[k].wallet # 0
  BY ValidFacts, Zenon
<1>3. /\ D = {observed[k].wallet : k \in Valid}
      /\ \A w \in D : WalletVolume(acc, w) = Volume(Valid \cap Of(w), "quote")
  BY Zenon DEF Faithful
<1>4. "quote" \in Units
  BY DEF Units
<1>5. (\A S \in SUBSET Traded : Volume(S, "quote") \in Nat) /\ Volume({}, "quote") = 0
      /\ \A S, T \in SUBSET Traded : S \subseteq T => Volume(S, "quote") <= Volume(T, "quote")
  BY <1>4, VolumeFacts, Zenon
<1> HIDE DEF n, D
<1>6. ASSUME NEW w
      PROVE  Part(w) \in Nat
  <2>1. Valid \cap Of(w) \in SUBSET Traded
    BY <1>2, Zenon
  <2>2. w \in D => WalletVolume(acc, w) \in Nat
    BY <1>3, <1>5, <2>1, Zenon
  <2>3. 0 \in Nat
    OBVIOUS
  <2> QED BY <2>2, <2>3, Zenon
<1> DEFINE UpTo[w \in 0..n] ==
             IF w = 0 THEN 0
             ELSE UpTo[w - 1] + (IF w \in creators \cap D THEN WalletVolume(acc, w) ELSE 0)
<1>7. \A k \in 1..n : k - 1 \in 0..n /\ k # 0 /\ k \in 0..n
  BY <1>1
<1>8. UpTo = [w \in 0..n |-> IF w = 0 THEN 0
                             ELSE UpTo[w - 1] + (IF w \in creators \cap D THEN WalletVolume(acc, w) ELSE 0)]
  <2>1. F \in [Nat \X (1..n) -> Nat]
    <3>1. \A z \in Nat \X (1..n) : z[1] \in Nat
      OBVIOUS
    <3>2. \A x, y \in Nat : x + y \in Nat
      OBVIOUS
    <3> HIDE DEF Part
    <3> QED BY <1>6, <3>1, <3>2, Zenon
  <2>2. \A x \in Nat, k \in 1..n : F[x, k] = x + Part(k)
    <3> HIDE DEF Part
    <3> QED OBVIOUS
  <2> HIDE DEF F
  <2>3. PICK g : g \in [0..n -> Nat] /\ g[0] = 0 /\ \A k \in 1..n : g[k] = F[g[k - 1], k]
    <3>1. 0 \in Nat
      OBVIOUS
    <3>2. \E g : IsRun(g, n, Nat, 0, F)
      BY <1>1, <2>1, <3>1, Loop, Zenon
    <3> QED BY <3>2, Zenon DEF IsRun
  <2>4. \A k \in 1..n : g[k] = g[k - 1] + Part(k)
    BY <1>7, <2>2, <2>3, Zenon
  <2>5. \A k \in 0..n : k = 0 \/ k \in 1..n
    BY <1>1
  <2>6. g = [w \in 0..n |-> IF w = 0 THEN 0
                            ELSE g[w - 1] + (IF w \in creators \cap D THEN WalletVolume(acc, w) ELSE 0)]
    BY <1>7, <2>3, <2>4, <2>5, Zenon
  <2> QED BY <2>6, Zenon
<1> DEFINE q == UpTo[n]
<1>9. CreatorVolume(acc, creators)
        = <<[wallets |-> creators, quote |-> q,
             share |-> IF QuoteUnits(acc.total) > 0
                       THEN <<FractionToBasisPoints(q, QuoteUnits(acc.total))>> ELSE None]>>
  BY Zenon DEF CreatorVolume, n, D
<1> HIDE DEF UpTo
<1> DEFINE S == {w \in 0..n : UpTo[w] = Volume(C(w), "quote")}
<1>10. 0 \in S
  <2>1. 0 \in 0..n
    BY <1>1
  <2>2. \A x \in Nat : x <= 0 => x = 0
    OBVIOUS
  <2>3. C(0) = {}
    BY <1>2, <2>2, Zenon
  <2> HIDE DEF C
  <2> QED BY <1>5, <1>8, <2>1, <2>3, Zenon
<1>11. ASSUME NEW w \in 1..n, w - 1 \in S
       PROVE  w \in S
  <2> DEFINE O == Valid \cap Of(w)
  <2>1. UpTo[w] = Volume(C(w - 1), "quote") + Part(w) /\ w \in 0..n
    BY <1>7, <1>8, <1>11, Zenon
  <2>2. \A x \in Nat : x <= w <=> x <= w - 1 \/ x = w
    OBVIOUS
  <2>9. ~(w <= w - 1) /\ w \in Nat
    OBVIOUS
  <2>3. C(w - 1) \in SUBSET Traded /\ O \in SUBSET Traded
    BY <1>2, Zenon
  <2>4. \A k : k \in O <=> k \in Valid /\ observed[k].wallet = w
    BY <1>2, Zenon DEF Of
  <2>5. CASE w \in creators \cap D
    <3>1. C(w) = C(w - 1) \cup O
      BY <1>2, <2>2, <2>4, <2>5, Zenon
    <3>2. C(w - 1) \cap O = {}
      BY <2>4, <2>9, Zenon
    <3> HIDE DEF C, O
    <3>3. Volume(C(w - 1) \cup O, "quote") = Volume(C(w - 1), "quote") + Volume(O, "quote")
      BY <1>4, <2>3, <3>2, VolumeAdds, Zenon
    <3>4. Part(w) = Volume(O, "quote")
      BY <1>3, <2>5, Zenon DEF O
    <3> QED BY <2>1, <3>1, <3>3, <3>4, Zenon
  <2>6. CASE w \notin creators \cap D
    <3>1. C(w) = C(w - 1)
      BY <1>2, <1>3, <2>2, <2>6, Zenon
    <3>2. Volume(C(w - 1), "quote") \in Nat
      BY <1>5, <2>3, Zenon
    <3>3. Part(w) = 0
      BY <2>6, Zenon
    <3> DEFINE v == Volume(C(w - 1), "quote")
    <3>4. v \in Nat
      BY <3>2, Zenon
    <3> HIDE DEF v
    <3>5. v + 0 = v
      BY <3>4
    <3> HIDE DEF C
    <3> QED BY <2>1, <3>1, <3>3, <3>5, Zenon DEF v
  <2> QED BY <2>5, <2>6
<1> HIDE DEF S
<1>12. \A w \in 0..n : w \in S
  BY <1>1, <1>10, <1>11, Turns, Zenon
<1>13. n \in 0..n
  BY <1>1
<1>14. q = Volume(C(n), "quote")
  BY <1>12, <1>13, Zenon DEF S
<1>15. C(n) \in SUBSET Traded /\ C(n) \subseteq Valid
  BY <1>2, Zenon
<1> HIDE DEF C, q
<1>16. q \in Nat /\ q <= Volume(Valid, "quote")
  BY <1>2, <1>5, <1>14, <1>15, Zenon
<1> QED BY <1>9, <1>16, Zenon

\* Every wallet has a part of the volume.
LEMMA WalletFacts ==
    ASSUME observed \in Seq(Observations), NEW acc, Faithful(acc, Valid)
    PROVE  /\ DOMAIN acc.wallets \in SUBSET Nat
           /\ \E b \in Nat : \A w \in DOMAIN acc.wallets : w <= b
           /\ Volume(Valid, "quote") \in Nat
           /\ \A w \in DOMAIN acc.wallets :
                /\ WalletVolume(acc, w) \in Nat /\ WalletVolume(acc, w) # 0
                /\ WalletVolume(acc, w) <= Volume(Valid, "quote")
<1> DEFINE D == DOMAIN acc.wallets
<1>1. /\ D = {observed[k].wallet : k \in Valid}
      /\ \A w \in D : WalletVolume(acc, w) = Volume(Valid \cap Of(w), "quote")
  BY Zenon DEF Faithful
<1>2. /\ Valid \in SUBSET Traded
      /\ \A k \in Valid : /\ observed[k].wallet \in Nat /\ observed[k].quote # 0
                          /\ observed[k].quote \in Nat
  BY ValidFacts, Zenon
<1>3. "quote" \in Units
  BY DEF Units
<1>4. /\ \A S \in SUBSET Traded : Volume(S, "quote") \in Nat
      /\ \A j \in Traded : Volume({j}, "quote") = observed[j]["quote"]
      /\ \A S, T \in SUBSET Traded : S \subseteq T => Volume(S, "quote") <= Volume(T, "quote")
  BY <1>3, VolumeFacts, Zenon
<1>5. D \in SUBSET Nat
  BY <1>1, <1>2, Zenon
<1>6. \E b \in Nat : \A w \in D : w <= b
  <2> DEFINE n == Len(observed)
             f == [k \in Valid |-> observed[k].wallet]
  <2>1. n \in Nat /\ Traded \subseteq 1..n
    BY TradedFacts, Zenon
  <2> HIDE DEF n
  <2>2. Valid \in SUBSET (1..n) /\ \A k \in Valid : f[k] \in Nat /\ f[k] = observed[k].wallet
    BY <1>2, <2>1, Zenon
  <2> HIDE DEF f
  <2>3. PICK b \in Nat : \A k \in Valid : f[k] <= b
    BY <2>1, <2>2, Bounded, Zenon
  <2> QED BY <1>1, <2>2, <2>3, Zenon
<1>7. ASSUME NEW w \in D
      PROVE  /\ WalletVolume(acc, w) \in Nat /\ WalletVolume(acc, w) # 0
             /\ WalletVolume(acc, w) <= Volume(Valid, "quote")
  <2> DEFINE O == Valid \cap Of(w)
  <2>1. O \in SUBSET Traded /\ O \subseteq Valid /\ WalletVolume(acc, w) = Volume(O, "quote")
    BY <1>1, <1>2, Zenon
  <2>2. PICK k \in Valid : observed[k].wallet = w
    BY <1>1, Zenon
  <2>3. k \in O /\ k \in Traded
    BY <1>2, <2>2, Zenon DEF Of
  <2>4. {k} \in SUBSET Traded /\ {k} \subseteq O
    BY <2>3, Zenon
  <2> HIDE DEF O
  <2> DEFINE a == Volume({k}, "quote")
             c == Volume(O, "quote")
  <2>5. a <= c /\ a \in Nat /\ c \in Nat /\ a = observed[k]["quote"]
    BY <1>4, <2>1, <2>3, <2>4, Zenon
  <2>6. observed[k]["quote"] # 0
    <3>1. observed[k].quote # 0
      BY <1>2, <2>2, Zenon
    <3> QED BY <3>1
  <2>7. a # 0
    BY <2>5, <2>6, Zenon
  <2> HIDE DEF a, c
  <2>8. c # 0
    BY <2>5, <2>7
  <2>9. Volume(O, "quote") <= Volume(Valid, "quote")
    BY <1>2, <1>4, <2>1, Zenon
  <2> QED BY <2>1, <2>5, <2>8, <2>9, Zenon DEF c
<1>8. Volume(Valid, "quote") \in Nat
  BY <1>2, <1>4, Zenon
<1> QED BY <1>5, <1>6, <1>7, <1>8, Zenon

-----------------------------------------------------------------------------
(* Nothing overflows.                                                      *)

\* The volumes of the window fit.
VolumesFit == Fits(Volume(Traded, "base")) /\ Fits(Volume(Traded, "quote"))

\* The sums fit when the volumes do: every trade counted has a base amount.
LEMMA SumsFitFacts ==
    ASSUME observed \in Seq(Observations), NEW acc, Faithful(acc, Valid), VolumesFit
    PROVE  SumsFit(acc.total) /\ QuoteUnits(acc.total) <= MaxUnits
<1> DEFINE m == acc.total
           vb == Volume(Valid, "base")
           vq == Volume(Valid, "quote")
           tb == Volume(Traded, "base")
           tq == Volume(Traded, "quote")
<1>1. m \in Metrics /\ m.buys <= m.buyBase /\ m.sells <= m.sellBase
      /\ m.buyBase + m.sellBase = vb /\ QuoteUnits(m) = vq
  BY Zenon DEF Faithful, Counted
<1>2. tb <= MaxUnits /\ tq <= MaxUnits
  BY Zenon DEF VolumesFit, Fits
<1>3. Valid \in SUBSET Traded /\ Traded \in SUBSET Traded
  BY ValidFacts, Zenon
<1>4. "base" \in Units /\ "quote" \in Units
  BY DEF Units
<1>5. vb <= tb /\ vb \in Nat /\ tb \in Nat
  BY <1>3, <1>4, VolumeFacts, Zenon
<1>6. vq <= tq /\ vq \in Nat /\ tq \in Nat
  BY <1>3, <1>4, VolumeFacts, Zenon
<1>7. MaxUnits \in Nat
  BY SnapshotAssumption, Zenon
<1> HIDE DEF m, vb, vq, tb, tq
<1>8. m.buys \in Nat /\ m.sells \in Nat /\ m.buyBase \in Nat /\ m.sellBase \in Nat
      /\ m.buyQuote \in Nat /\ m.sellQuote \in Nat
      /\ DOMAIN m = {"buys", "sells", "buyBase", "sellBase", "buyQuote", "sellQuote"}
  BY <1>1 DEF Metrics
<1>9. m.buyQuote + m.sellQuote = vq
  BY <1>1, Zenon DEF QuoteUnits
<1>10. m.buys <= MaxUnits /\ m.sells <= MaxUnits /\ m.buyBase <= MaxUnits /\ m.sellBase <= MaxUnits
  BY <1>1, <1>2, <1>5, <1>7, <1>8
<1>11. m.buyQuote <= MaxUnits /\ m.sellQuote <= MaxUnits /\ vq <= MaxUnits
  BY <1>2, <1>6, <1>7, <1>8, <1>9
<1>12. m["buys"] = m.buys /\ m["sells"] = m.sells /\ m["buyBase"] = m.buyBase
       /\ m["sellBase"] = m.sellBase /\ m["buyQuote"] = m.buyQuote /\ m["sellQuote"] = m.sellQuote
  OBVIOUS
<1>13. \A f \in DOMAIN m : m[f] <= MaxUnits
  <2>1. \A f : f \in DOMAIN m <=> f = "buys" \/ f = "sells" \/ f = "buyBase" \/ f = "sellBase"
                                  \/ f = "buyQuote" \/ f = "sellQuote"
    BY <1>8, Zenon
  <2> QED BY <1>10, <1>11, <1>12, <2>1, Zenon
<1> QED BY <1>1, <1>11, <1>13, Zenon DEF SumsFit, Fits, m

\* The creators are finitely many wallets.
LEMMA CreatorWalletFacts ==
    ASSUME NEW s \in Seq(Observations)
    PROVE  CreatorWallets(s) \in SUBSET Nat /\ \E b \in Nat : \A w \in CreatorWallets(s) : w <= b
<1> DEFINE n == Len(s)
           K == {l \in DOMAIN s : s[l].kind \in {"token created", "market created"}}
           f == [k \in K |-> s[k].wallet]
<1>1. n \in Nat /\ DOMAIN s = 1..n /\ \A k \in DOMAIN s : s[k] \in Observations
  OBVIOUS
<1>2. \A o \in Observations : o.kind \in {"token created", "market created"} => o.wallet \in Nat
  BY SnapshotAssumption, Zenon
<1> HIDE DEF n
<1>3. K \in SUBSET (1..n) /\ \A k \in K : f[k] \in Nat /\ f[k] = s[k].wallet
  BY <1>1, <1>2, Zenon
<1>4. CreatorWallets(s) = {s[k].wallet : k \in K} \ {0}
  BY Zenon DEF CreatorWallets
<1> HIDE DEF K, f
<1>5. PICK b \in Nat : \A k \in K : f[k] <= b
  BY <1>1, <1>3, Bounded, Zenon
<1>6. \A w \in CreatorWallets(s) : \E k \in K : w = f[k]
  BY <1>3, <1>4, Zenon
<1>7. CreatorWallets(s) \in SUBSET Nat
  BY <1>3, <1>6, Zenon
<1> QED BY <1>5, <1>6, <1>7, Zenon

\* No share overflows when the volumes fit.
LEMMA SharesFacts ==
    ASSUME observed \in Seq(Observations), NEW acc, Faithful(acc, Valid), VolumesFit,
           NEW creators \in SUBSET Nat, NEW b \in Nat, \A w \in creators : w <= b
    PROVE  ~SharesOverflow(acc, creators)
<1> DEFINE total == QuoteUnits(acc.total)
<1>1. total = Volume(Valid, "quote")
  BY Zenon DEF Faithful
<1>2. /\ Volume(Valid, "quote") \in Nat
      /\ \A w \in DOMAIN acc.wallets :
           /\ WalletVolume(acc, w) \in Nat /\ WalletVolume(acc, w) # 0
           /\ WalletVolume(acc, w) <= Volume(Valid, "quote")
  BY WalletFacts, Zenon
<1>3. total <= MaxUnits
  BY SumsFitFacts, Zenon
<1>4. \A q, d : q \in Nat /\ d \in Nat \ {0} /\ q <= d /\ d <= MaxUnits => FractionToBasisPoints(q, d) \in Nat
  BY ShareExact, Zenon
<1>5. \A x \in Nat : x # Overflow
  BY DEF Overflow
<1> HIDE DEF total
<1>6. ASSUME NEW w \in DOMAIN acc.wallets
      PROVE  WalletShare(acc, w) # Overflow
  <2> DEFINE v == WalletVolume(acc, w)
  <2>1. v \in Nat /\ v # 0 /\ v <= total /\ total \in Nat
    BY <1>1, <1>2, Zenon
  <2> HIDE DEF v
  <2>2. total \in Nat \ {0}
    BY <2>1
  <2>3. FractionToBasisPoints(v, total) \in Nat
    BY <1>3, <1>4, <2>1, <2>2, Zenon
  <2>4. FractionToBasisPoints(v, total) # Overflow
    BY <1>5, <2>3, Zenon
  <2> QED BY <2>4, Zenon DEF WalletShare, v, total
<1>7. ASSUME NEW c \in Range(CreatorVolume(acc, creators))
      PROVE  c.share # <<Overflow>>
  <2>1. CASE creators = {}
    <3>1. CreatorVolume(acc, creators) = <<>>
      BY <2>1, Zenon DEF CreatorVolume, None
    <3>2. Range(<<>>) = {}
      BY DEF Range
    <3> QED BY <3>1, <3>2, Zenon
  <2>2. CASE creators # {}
    <3>1. PICK q \in Nat :
              /\ q <= Volume(Valid, "quote")
              /\ CreatorVolume(acc, creators)
                   = <<[wallets |-> creators, quote |-> q,
                        share |-> IF total > 0 THEN <<FractionToBasisPoints(q, total)>> ELSE None]>>
      BY <2>2, CreatorFacts, Zenon DEF total
    <3> DEFINE share == IF total > 0 THEN <<FractionToBasisPoints(q, total)>> ELSE None
               r == [wallets |-> creators, quote |-> q, share |-> share]
    <3>2. CreatorVolume(acc, creators) = <<r>>
      BY <3>1, Zenon
    <3>3. r.share = share
      BY Zenon
    <3> HIDE DEF r
    <3>4. \A x : x \in Range(<<r>>) => x = r
      BY DEF Range
    <3>5. c = r
      BY <3>2, <3>4, Zenon
    <3>6. share # <<Overflow>>
      <4>1. CASE total > 0
        <5>1. q <= total /\ total \in Nat
          BY <1>1, <1>2, <3>1, Zenon
        <5>2. total \in Nat \ {0}
          BY <4>1, <5>1
        <5> DEFINE x == FractionToBasisPoints(q, total)
        <5>3. x \in Nat
          BY <1>3, <1>4, <5>1, <5>2, Zenon
        <5>4. share = <<x>>
          BY <4>1, Zenon
        <5> HIDE DEF x, share
        <5>5. x # Overflow
          BY <1>5, <5>3, Zenon
        <5> QED BY <5>4, <5>5
      <4>2. CASE ~(total > 0)
        <5>1. share = <<>>
          BY <4>2, Zenon DEF None
        <5> HIDE DEF share
        <5> QED BY <5>1
      <4> QED BY <4>1, <4>2
    <3> QED BY <3>3, <3>5, <3>6, Zenon
  <2> QED BY <2>1, <2>2
<1> QED BY <1>6, <1>7, Zenon DEF SharesOverflow

\* The window is complete when it was given so and every trade is valid.
LEMMA CompletenessFacts ==
    ASSUME observed \in Seq(Observations), NEW given
    PROVE  CompletenessOf(Matching(observed), given) = "complete" <=> given = "complete" /\ Valid = Traded
<1> DEFINE M == Matching(observed)
           U == UsedIn(observed)
           n == Len(M)
           invalid == {k \in DOMAIN M : NoWallet(M[k]) \/ NoAmount(M[k])}
<1>1. /\ M \in Seq(Observations) /\ n \in Nat /\ DOMAIN M = 1..n
      /\ \A r \in 1..n : At(observed, r) \in U /\ M[r] = observed[At(observed, r)]
      /\ \A k \in U : Place(observed, k) \in 1..n /\ At(observed, Place(observed, k)) = k
  BY MatchingFacts, Zenon
<1>2. CompletenessOf(M, given) =
        IF given # "complete" \/ invalid = {} THEN given
        ELSE IF NoWallet(M[Min(invalid)]) THEN "INVALID_TRADE_WALLET" ELSE "INVALID_TRADE_AMOUNT"
  BY Zenon DEF CompletenessOf
<1>3. \A o : NoWallet(o) \/ NoAmount(o) <=> o.kind = "trade" /\ ~IsValidTrade(o)
  BY Zenon DEF IsValidTrade, NoWallet, NoAmount
<1>4. \A k : k \in Traded <=> k \in U /\ observed[k].kind = "trade"
  BY Zenon DEF Traded
<1> HIDE DEF M, U, n
<1>5. invalid = {} <=> Valid = Traded
  <2>1. ASSUME NEW r \in invalid
        PROVE  Valid # Traded
    <3>1. r \in 1..n /\ M[r].kind = "trade" /\ ~IsValidTrade(M[r])
      BY <1>1, <1>3, Zenon
    <3>2. At(observed, r) \in Traded /\ ~IsValidTrade(observed[At(observed, r)])
      BY <1>1, <1>4, <3>1, Zenon
    <3> QED BY <3>2, Zenon DEF Valid
  <2>2. ASSUME Valid # Traded
        PROVE  invalid # {}
    <3>1. PICK k \in Traded : ~IsValidTrade(observed[k])
      BY <2>2, Zenon DEF Valid
    <3>2. k \in U /\ observed[k].kind = "trade"
      BY <1>4, Zenon
    <3>3. Place(observed, k) \in DOMAIN M /\ M[Place(observed, k)] = observed[k]
      BY <1>1, <3>2, Zenon
    <3>4. Place(observed, k) \in invalid
      BY <1>3, <3>1, <3>2, <3>3, Zenon
    <3> QED BY <3>4, Zenon
  <2> QED BY <2>1, <2>2, Zenon
<1> HIDE DEF invalid
<1>6. "INVALID_TRADE_WALLET" # "complete" /\ "INVALID_TRADE_AMOUNT" # "complete"
  OBVIOUS
<1> QED BY <1>2, <1>5, <1>6, Zenon DEF M

-----------------------------------------------------------------------------
(* The verdict.                                                            *)

\* The counts are those of the trades when every trade is valid.
LEMMA CountFacts ==
    ASSUME observed \in Seq(Observations), NEW acc, Faithful(acc, Traded)
    PROVE  /\ acc.total.buys = Cardinality(Side("buy")) /\ acc.total.sells = Cardinality(Side("sell"))
           /\ acc.total.buys + acc.total.sells = Cardinality(Traded)
           /\ DOMAIN acc.wallets = Wallets
<1>1. acc.total.buys = Cardinality(Traded \cap Side("buy"))
      /\ acc.total.sells = Cardinality(Traded \cap Side("sell"))
      /\ DOMAIN acc.wallets = {observed[k].wallet : k \in Traded}
  BY Zenon DEF Faithful
<1>2. Traded \cap Side("buy") = Side("buy") /\ Traded \cap Side("sell") = Side("sell")
  BY Zenon DEF Side
<1>3. IsFiniteSet(Traded) /\ \A k \in Traded : observed[k].side \in {"buy", "sell"}
  BY TradedFacts, Zenon
<1>4. Side("buy") \cup Side("sell") = Traded
  BY <1>3, Zenon DEF Side
<1>5. Side("buy") \cap Side("sell") = {}
  <2>1. "buy" # "sell"
    OBVIOUS
  <2> QED BY <2>1, Zenon DEF Side
<1>6. IsFiniteSet(Side("buy")) /\ IsFiniteSet(Side("sell"))
  <2>1. Side("buy") \in SUBSET Traded /\ Side("sell") \in SUBSET Traded
    BY Zenon DEF Side
  <2>2. \A X \in SUBSET Traded : IsFiniteSet(X)
    BY <1>3, FS_Subset, Zenon
  <2> QED BY <2>1, <2>2, Zenon
<1> DEFINE B == Side("buy")
           S == Side("sell")
<1>7. IsFiniteSet(B) /\ IsFiniteSet(S) /\ B \cup S = Traded /\ B \cap S = {}
  BY <1>4, <1>5, <1>6, Zenon
<1> HIDE DEF B, S
<1>8. Cardinality(B \cup S) = Cardinality(B) + Cardinality(S) - Cardinality(B \cap S)
  BY <1>7, FS_Union, Zenon
<1>9. Cardinality(B \cap S) = 0
  BY <1>7, FS_EmptySet, Zenon
<1>10. Cardinality(B) \in Nat /\ Cardinality(S) \in Nat
  BY <1>7, FS_CardinalityType, Zenon
<1>11. Cardinality(Traded) = Cardinality(B) + Cardinality(S)
  <2>1. Cardinality(Traded) = Cardinality(B) + Cardinality(S) - 0
    BY <1>7, <1>8, <1>9, Zenon
  <2> QED BY <1>10, <2>1
<1> QED BY <1>1, <1>2, <1>11, Zenon DEF Wallets, B, S

\* The rounded share of the largest wallet is within a limit exactly when the
\* exact volume of every wallet is.
LEMMA SpreadFacts ==
    ASSUME observed \in Seq(Observations), Valid = Traded, NEW acc, Faithful(acc, Traded),
           VolumesFit, Traded # {}, NEW limit \in Nat
    PROVE  \E w : LargestWallet(acc) = <<w>> /\
              (w.share <= limit
                 <=> \A x \in Wallets : Volume(Of(x), "quote") * BasisPoints
                                          <= limit * Volume(Traded, "quote"))
<1> DEFINE D == DOMAIN acc.wallets
           T == Volume(Traded, "quote")
<1>0. Faithful(acc, Valid)
  BY Zenon
<1>1. /\ D \in SUBSET Nat /\ T \in Nat
      /\ \E b \in Nat : \A w \in D : w <= b
      /\ \A w \in D : WalletVolume(acc, w) \in Nat /\ WalletVolume(acc, w) # 0 /\ WalletVolume(acc, w) <= T
  BY <1>0, WalletFacts, Zenon
<1>2. PICK b \in Nat : \A w \in D : w <= b
  BY <1>1, Zenon
<1>3. D = Wallets
  BY CountFacts, Zenon
<1>4. D # {}
  BY <1>3, Zenon DEF Wallets
<1>5. \A w \in D : WalletVolume(acc, w) = Volume(Of(w), "quote")
  <2>1. \A w : Traded \cap Of(w) = Of(w)
    BY Zenon DEF Of
  <2> QED BY <2>1, Zenon DEF Faithful
<1>6. QuoteUnits(acc.total) = T
  BY Zenon DEF Faithful
<1>7. T <= MaxUnits
  BY <1>0, <1>6, SumsFitFacts, Zenon
<1>8. PICK w \in D :
        /\ LargestWallet(acc)
             = <<[wallet |-> w, quote |-> WalletVolume(acc, w), share |-> WalletShare(acc, w)]>>
        /\ \A x \in D : WalletVolume(acc, x) <= WalletVolume(acc, w)
  BY <1>1, <1>2, <1>4, LargestFacts, Zenon
<1> HIDE DEF D, T
<1> DEFINE v == WalletVolume(acc, w)
           r == [wallet |-> w, quote |-> WalletVolume(acc, w), share |-> WalletShare(acc, w)]
<1>9. v \in Nat /\ v # 0 /\ v <= T /\ T \in Nat
  BY <1>1, <1>8, Zenon
<1>10. T \in Nat \ {0}
  <2> HIDE DEF v
  <2> QED BY <1>9
<1>11. r.share = FractionToBasisPoints(v, T)
  BY <1>6, Zenon DEF WalletShare
<1> HIDE DEF r
<1>12. \A l \in Nat : FractionToBasisPoints(v, T) <= l <=> v * BasisPoints <= l * T
  <2> HIDE DEF v
  <2> QED BY <1>7, <1>9, <1>10, ShareExact, Zenon
<1>13. r.share <= limit <=> v * BasisPoints <= limit * T
  BY <1>11, <1>12, Zenon
<1>14. BasisPoints \in Nat
  BY SnapshotAssumption
<1>15. ASSUME NEW x \in D, v * BasisPoints <= limit * T
       PROVE  Volume(Of(x), "quote") * BasisPoints <= limit * T
  <2> DEFINE u == WalletVolume(acc, x)
  <2>1. u \in Nat /\ u <= v
    BY <1>1, <1>8, Zenon DEF D
  <2> HIDE DEF u, v
  <2>2. u * BasisPoints <= v * BasisPoints
    BY <1>9, <1>14, <2>1
  <2>3. u * BasisPoints \in Nat /\ v * BasisPoints \in Nat /\ limit * T \in Nat
    BY <1>9, <1>14, <2>1
  <2> DEFINE ub == u * BasisPoints
             vb == v * BasisPoints
             lt == limit * T
  <2>4. ub \in Nat /\ vb \in Nat /\ lt \in Nat /\ ub <= vb /\ vb <= lt
    BY <1>15, <2>2, <2>3, Zenon
  <2> HIDE DEF ub, vb, lt
  <2>5. ub <= lt
    BY <2>4
  <2> QED BY <1>5, <2>5, Zenon DEF ub, lt, u, D
<1>16. v = Volume(Of(w), "quote")
  BY <1>5, <1>8, Zenon
<1>17. r.share <= limit <=> \A x \in D : Volume(Of(x), "quote") * BasisPoints <= limit * T
  BY <1>8, <1>13, <1>15, <1>16, Zenon
<1>18. LargestWallet(acc) = <<r>>
  BY <1>8, Zenon DEF r
<1> QED BY <1>3, <1>17, <1>18, Zenon DEF T

\* The verdict of a complete window.
LEMMA CompleteVerdict ==
    ASSUME observed \in Seq(Observations), Valid = Traded, NEW acc, Faithful(acc, Traded), VolumesFit,
           NEW p \in Policies, NEW mint, NEW snapshot, snapshot.completeness = "complete",
           snapshot.metrics.total = acc.total, snapshot.metrics.largest = LargestWallet(acc),
           snapshot.metrics.trades = acc.total.buys + acc.total.sells,
           snapshot.metrics.traders = Cardinality(DOMAIN acc.wallets)
    PROVE  Aggregate(RulesOf(snapshot, mint, p))
             = IF ClassifyQuoteAsset(mint) = "unsupported" \/ ~Enough(p, mint) \/ ~Spread(p) THEN "REJECT"
               ELSE IF Traded = {} THEN "UNKNOWN" ELSE "PASS"
<1> DEFINE m == snapshot.metrics
           asset == ClassifyQuoteAsset(mint)
           R == RulesOf(snapshot, mint, p)
           T == Volume(Traded, "quote")
<1>1. /\ R["complete"] = "PASS"
      /\ R["quote asset"] = IF asset = "unsupported" THEN "REJECT" ELSE "PASS"
      /\ R["trades"] = MinimumRule(m.trades, p.trades)
      /\ R["traders"] = MinimumRule(m.traders, p.traders)
      /\ R["buys"] = MinimumRule(m.total.buys, p.buys)
      /\ R["sells"] = MinimumRule(m.total.sells, p.sells)
      /\ R["volume"] = VolumeRule(asset, QuoteUnits(m.total), p)
      /\ R["concentration"] = ConcentrationRule(m.largest, p)
  BY Zenon DEF RulesOf, RuleIds
<1>2. /\ acc.total.buys = Cardinality(Side("buy")) /\ acc.total.sells = Cardinality(Side("sell"))
      /\ acc.total.buys + acc.total.sells = Cardinality(Traded)
      /\ DOMAIN acc.wallets = Wallets
  BY CountFacts, Zenon
<1>3. QuoteUnits(acc.total) = T
  BY Zenon DEF Faithful
<1> DEFINE asked == IF mint = "USDC" THEN p.stable ELSE p.native
           volumeRule == IF asset = "unsupported" THEN "UNKNOWN" ELSE MinimumRule(T, asked)
<1>4. VolumeRule(asset, T, p) = volumeRule
  <2>1. CASE mint \in {"native SOL", "wrapped SOL"}
    <3>1. asset = "native"
      BY <2>1 DEF ClassifyQuoteAsset
    <3>2. mint # "USDC" /\ asset # "unsupported"
      BY <2>1, <3>1
    <3>3. VolumeRule(asset, T, p) = MinimumRule(T, p.native)
      BY <3>1, Zenon DEF VolumeRule
    <3> QED BY <3>2, <3>3, Zenon
  <2>2. CASE mint = "USDC"
    <3>1. asset = "stable"
      BY <2>2 DEF ClassifyQuoteAsset
    <3>2. asset # "unsupported"
      BY <3>1
    <3>3. VolumeRule(asset, T, p) = MinimumRule(T, p.stable)
      BY <3>1, Zenon DEF VolumeRule
    <3> QED BY <2>2, <3>2, <3>3, Zenon
  <2>3. CASE mint \notin {"native SOL", "wrapped SOL"} /\ mint # "USDC"
    <3>1. asset = "unsupported"
      BY <2>3 DEF ClassifyQuoteAsset
    <3>2. VolumeRule(asset, T, p) = "UNKNOWN"
      BY <3>1, Zenon DEF VolumeRule
    <3> QED BY <3>1, <3>2, Zenon
  <2> QED BY <2>1, <2>2, <2>3, Zenon
<1> DEFINE concentration == IF Traded = {} THEN "UNKNOWN" ELSE IF Spread(p) THEN "PASS" ELSE "REJECT"
<1>5. ConcentrationRule(LargestWallet(acc), p) = concentration
  <2>1. CASE Traded = {}
    <3>1. DOMAIN acc.wallets = {}
      BY <1>2, <2>1, Zenon DEF Wallets
    <3>2. LargestWallet(acc) = None
      BY <3>1, Zenon DEF LargestWallet
    <3> QED BY <2>1, <3>2, Zenon DEF ConcentrationRule
  <2>2. CASE Traded # {}
    <3>1. p.share \in Nat
      <4>1. "share" \in {"trades", "traders", "buys", "sells", "native", "stable", "share"}
        OBVIOUS
      <4>2. p["share"] \in Nat
        BY <4>1, SnapshotAssumption, Zenon
      <4> QED BY <4>2
    <3>2. PICK w : LargestWallet(acc) = <<w>> /\ (w.share <= p.share <=> Spread(p))
      BY <2>2, <3>1, SpreadFacts, Zenon DEF Spread
    <3>3. <<w>> # None /\ <<w>>[1] = w
      BY DEF None
    <3>4. ConcentrationRule(LargestWallet(acc), p) = IF w.share <= p.share THEN "PASS" ELSE "REJECT"
      BY <3>2, <3>3, Zenon DEF ConcentrationRule
    <3> QED BY <2>2, <3>2, <3>4, Zenon
  <2> QED BY <2>1, <2>2
<1>6. Traded = {} => Spread(p)
  BY Zenon DEF Spread, Wallets
<1>7. Enough(p, mint) <=> /\ Cardinality(Traded) >= p.trades /\ Cardinality(Wallets) >= p.traders
                          /\ Cardinality(Side("buy")) >= p.buys /\ Cardinality(Side("sell")) >= p.sells
                          /\ T >= asked
  BY Zenon DEF Enough
<1>8. /\ R["trades"] = MinimumRule(Cardinality(Traded), p.trades)
      /\ R["traders"] = MinimumRule(Cardinality(Wallets), p.traders)
      /\ R["buys"] = MinimumRule(Cardinality(Side("buy")), p.buys)
      /\ R["sells"] = MinimumRule(Cardinality(Side("sell")), p.sells)
      /\ R["volume"] = volumeRule
      /\ R["concentration"] = concentration
  BY <1>1, <1>2, <1>3, <1>4, <1>5, Zenon
<1> HIDE DEF R, m, asset, T, asked
<1>9. (\E r \in RuleIds : R[r] = "REJECT") <=>
         asset = "unsupported" \/ ~Enough(p, mint) \/ ~Spread(p)
  <2>1. (\E r \in RuleIds : R[r] = "REJECT") <=>
           \/ R["complete"] = "REJECT" \/ R["quote asset"] = "REJECT" \/ R["trades"] = "REJECT"
           \/ R["traders"] = "REJECT" \/ R["buys"] = "REJECT" \/ R["sells"] = "REJECT"
           \/ R["volume"] = "REJECT" \/ R["concentration"] = "REJECT"
    BY Zenon DEF RuleIds
  <2>2. "PASS" # "REJECT" /\ "UNKNOWN" # "REJECT"
    OBVIOUS
  <2>3. \A x, y : MinimumRule(x, y) = "REJECT" <=> ~(x >= y)
    BY <2>2, Zenon DEF MinimumRule
  <2>4. R["concentration"] = "REJECT" <=> ~Spread(p)
    BY <1>6, <1>8, <2>2, Zenon
  <2>5. R["complete"] # "REJECT" /\ (R["quote asset"] = "REJECT" <=> asset = "unsupported")
    BY <1>1, <2>2, Zenon
  <2>6. R["volume"] = "REJECT" <=> asset # "unsupported" /\ ~(T >= asked)
    BY <1>8, <2>2, <2>3, Zenon
  <2> QED BY <1>7, <1>8, <2>1, <2>3, <2>4, <2>5, <2>6, Zenon
<1>10. ASSUME ~(\E r \in RuleIds : R[r] = "REJECT")
       PROVE  (\E r \in RuleIds : R[r] = "UNKNOWN") <=> Traded = {}
  <2>1. (\E r \in RuleIds : R[r] = "UNKNOWN") <=>
           \/ R["complete"] = "UNKNOWN" \/ R["quote asset"] = "UNKNOWN" \/ R["trades"] = "UNKNOWN"
           \/ R["traders"] = "UNKNOWN" \/ R["buys"] = "UNKNOWN" \/ R["sells"] = "UNKNOWN"
           \/ R["volume"] = "UNKNOWN" \/ R["concentration"] = "UNKNOWN"
    BY Zenon DEF RuleIds
  <2>2. "PASS" # "UNKNOWN" /\ "REJECT" # "UNKNOWN"
    OBVIOUS
  <2>3. \A x, y : MinimumRule(x, y) # "UNKNOWN"
    BY <2>2, Zenon DEF MinimumRule
  <2>4. asset # "unsupported"
    BY <1>9, <1>10, Zenon
  <2>5. R["concentration"] = "UNKNOWN" <=> Traded = {}
    BY <1>8, <2>2, Zenon
  <2>6. R["complete"] # "UNKNOWN" /\ R["quote asset"] # "UNKNOWN"
    BY <1>1, <2>2, Zenon
  <2>7. R["volume"] # "UNKNOWN"
    BY <1>8, <2>3, <2>4, Zenon
  <2> QED BY <1>8, <2>1, <2>3, <2>5, <2>6, <2>7, Zenon
<1>11. Aggregate(R) = IF asset = "unsupported" \/ ~Enough(p, mint) \/ ~Spread(p) THEN "REJECT"
                      ELSE IF Traded = {} THEN "UNKNOWN" ELSE "PASS"
  BY <1>9, <1>10, Zenon DEF Aggregate
<1> QED BY <1>11, Zenon DEF R, asset

\* An incomplete window is not judged.
LEMMA IncompleteVerdict ==
    ASSUME NEW snapshot, snapshot.completeness # "complete", NEW mint, NEW p
    PROVE  Aggregate(RulesOf(snapshot, mint, p)) = "UNKNOWN"
<1> DEFINE R == RulesOf(snapshot, mint, p)
<1>1. \A r \in RuleIds : R[r] = "UNKNOWN"
  BY Zenon DEF RulesOf
<1> HIDE DEF R
<1>2. "UNKNOWN" # "REJECT" /\ "complete" \in RuleIds
  BY DEF RuleIds
<1>3. Aggregate(R) = "UNKNOWN"
  BY <1>1, <1>2, Zenon DEF Aggregate
<1> QED BY <1>3, Zenon DEF R

\* A snapshot without duplicates whose volumes fit is built from the accumulator.
LEMMA SnapshotFacts ==
    ASSUME observed \in Seq(Observations), ~Twice(observed), VolumesFit, NEW given
    PROVE  LET s == BuildMarketWindowSnapshot(observed, given)
               acc == Recorded(Matching(observed))
           IN  /\ s.error = "none" /\ s.completeness = CompletenessOf(Matching(observed), given)
               /\ s.metrics.total = acc.total /\ s.metrics.largest = LargestWallet(acc)
               /\ s.metrics.trades = acc.total.buys + acc.total.sells
               /\ s.metrics.traders = Cardinality(DOMAIN acc.wallets)
<1> DEFINE M == Matching(observed)
           acc == Recorded(M)
           creators == CreatorWallets(M)
           s == BuildMarketWindowSnapshot(observed, given)
<1>1. M \in Seq(Observations)
  BY MatchingFacts, Zenon
<1>2. ~IsDuplicated(M)
  BY DuplicateFacts, Zenon
<1>3. Faithful(acc, Valid)
  BY RecordedFacts, Zenon
<1> HIDE DEF M
<1>4. PICK b \in Nat : creators \in SUBSET Nat /\ \A w \in creators : w <= b
  BY <1>1, CreatorWalletFacts, Zenon
<1> HIDE DEF acc, creators
<1>5. SumsFit(acc.total)
  BY <1>3, SumsFitFacts, Zenon
<1>6. ~SharesOverflow(acc, creators)
  BY <1>3, <1>4, SharesFacts, Zenon
<1> DEFINE valid == SelectSeq(M, LAMBDA o : o.kind # "trade" \/ IsValidTrade(o))
           trades == OfKind(valid, {"trade"})
           metrics == Finish(acc, Len(M), creators, trades)
<1>7. s.error = "none" /\ s.completeness = CompletenessOf(M, given) /\ s.metrics = metrics
  <2>1. s = SnapshotOf(M, given)
    BY Zenon DEF BuildMarketWindowSnapshot, M
  <2> HIDE DEF s
  <2> QED BY <1>2, <1>5, <1>6, <2>1, Zenon DEF SnapshotOf, acc, creators
<1> HIDE DEF s, trades
<1>8. metrics.total = acc.total /\ metrics.largest = LargestWallet(acc)
      /\ metrics.trades = acc.total.buys + acc.total.sells
      /\ metrics.traders = Cardinality(DOMAIN acc.wallets)
  BY Zenon DEF Finish
<1> HIDE DEF metrics
<1> QED BY <1>7, <1>8, Zenon DEF s, acc, M

\* The verdict on a window is the exact one: evaluate_qualification over the
\* snapshot of build_market_window_snapshot, with sums that fit, rounding and
\* bisection, agrees with exact counts, exact volumes and exact fractions.
THEOREM VerdictExact == SnapshotSpec => []VerdictIsExact
<1>1. SnapshotTypes => VerdictIsExact
  <2>0. SUFFICES ASSUME SnapshotTypes
                 PROVE  VerdictIsExact
    OBVIOUS
  <2> DEFINE p == question.policy
             mint == question.mint
             given == question.given
             bad == \E k \in Traded : observed[k].wallet = 0 \/ observed[k].base = 0
                                      \/ observed[k].quote = 0
             s == BuildMarketWindowSnapshot(observed, given)
             acc == Recorded(Matching(observed))
             exact == IF given # "complete" \/ bad THEN "UNKNOWN"
                      ELSE IF \/ ClassifyQuoteAsset(mint) = "unsupported"
                              \/ ~Enough(p, mint)
                              \/ ~Spread(p)
                           THEN "REJECT"
                      ELSE IF Traded = {} THEN "UNKNOWN" ELSE "PASS"
  <2>1. SUFFICES ASSUME PolicyIsValid(p), ~Twice(observed), VolumesFit
                 PROVE  EvaluateQualification(s, mint, p) = exact
    BY Zenon DEF VerdictIsExact, Snapshot, Twice, VolumesFit
  <2>2. observed \in Seq(Observations) /\ p \in Policies
    BY <2>0, Zenon DEF SnapshotTypes
  <2>3. bad <=> Valid # Traded
    <3>1. \A k \in Traded : observed[k].kind = "trade"
      BY <2>2, TradedFacts, Zenon
    <3>2. \A k \in Traded : IsValidTrade(observed[k])
             <=> ~(observed[k].wallet = 0 \/ observed[k].base = 0 \/ observed[k].quote = 0)
      BY <3>1, Zenon DEF IsValidTrade, NoWallet, NoAmount
    <3> QED BY <3>2, Zenon DEF Valid
  <2>4. /\ s.error = "none" /\ s.completeness = CompletenessOf(Matching(observed), given)
        /\ s.metrics.total = acc.total /\ s.metrics.largest = LargestWallet(acc)
        /\ s.metrics.trades = acc.total.buys + acc.total.sells
        /\ s.metrics.traders = Cardinality(DOMAIN acc.wallets)
    BY <2>1, <2>2, SnapshotFacts, Zenon
  <2>5. s.completeness = "complete" <=> given = "complete" /\ Valid = Traded
    BY <2>2, <2>4, CompletenessFacts, Zenon
  <2>6. Faithful(acc, Valid)
    BY <2>2, RecordedFacts, Zenon
  <2>7. EvaluateQualification(s, mint, p) = Aggregate(RulesOf(s, mint, p))
    BY <2>1, <2>4, Zenon DEF EvaluateQualification
  <2> HIDE DEF s, acc, bad
  <2>8. CASE given = "complete" /\ Valid = Traded
    <3>1. Faithful(acc, Traded) /\ s.completeness = "complete" /\ ~bad
      BY <2>3, <2>5, <2>6, <2>8, Zenon
    <3>2. Aggregate(RulesOf(s, mint, p))
            = IF ClassifyQuoteAsset(mint) = "unsupported" \/ ~Enough(p, mint) \/ ~Spread(p) THEN "REJECT"
              ELSE IF Traded = {} THEN "UNKNOWN" ELSE "PASS"
      <4> HIDE DEF p, mint
      <4> QED BY <2>1, <2>2, <2>4, <2>8, <3>1, CompleteVerdict, Zenon
    <3> QED BY <2>7, <2>8, <3>1, <3>2, Zenon
  <2>9. CASE ~(given = "complete" /\ Valid = Traded)
    <3>1. s.completeness # "complete"
      BY <2>5, <2>9, Zenon
    <3>2. Aggregate(RulesOf(s, mint, p)) = "UNKNOWN"
      BY <3>1, IncompleteVerdict, Zenon
    <3> QED BY <2>3, <2>7, <2>9, <3>2, Zenon
  <2> QED BY <2>8, <2>9
<1> QED BY <1>1, SnapshotTyped, PTL

=============================================================================
