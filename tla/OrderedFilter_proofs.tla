-------------------------- MODULE OrderedFilter_proofs --------------------------
(***************************************************************************)
(* What a filtered sequence holds, and in which order.                     *)
(***************************************************************************)
EXTENDS OrderedFilter, FiniteSetTheorems, TLAPS

\* The filtered sequence holds exactly the kept elements of the sequence.
LEMMA FilteredElements ==
    ASSUME NEW T, NEW seq \in Seq(T), NEW S, NEW r \in Filtered(seq, S)
    PROVE  /\ r \in Seq(T)
           /\ \A j \in DOMAIN r : r[j] \in S /\ \E i \in DOMAIN seq : seq[i] = r[j]
           /\ \A i \in DOMAIN seq : seq[i] \in S => \E j \in DOMAIN r : r[j] = seq[i]
<1> DEFINE kept == {i \in DOMAIN seq : seq[i] \in S}
           n == Cardinality(kept)
<1>1. kept \subseteq 1..Len(seq) /\ Len(seq) \in Nat /\ DOMAIN seq = 1..Len(seq)
  OBVIOUS
<1>2. IsFiniteSet(kept) /\ n \in Nat
  <2>1. IsFiniteSet(1..Len(seq))
    BY <1>1, FS_Interval
  <2>2. IsFiniteSet(kept)
    BY <2>1, <1>1, FS_Subset
  <2>3. QED
    BY <2>2, FS_CardinalityType
<1>3. PICK e \in [1..n -> kept] : /\ \A j, k \in 1..n : j < k => e[j] < e[k]
                                  /\ r = [j \in 1..n |-> seq[e[j]]]
  BY DEF Filtered
<1>4. \A i \in kept : \E j \in 1..n : e[j] = i
  <2>1. e \in Injection(1..n, kept)
    <3>1. \A j, k \in 1..n : j # k => e[j] # e[k]
      <4> SUFFICES ASSUME NEW j \in 1..n, NEW k \in 1..n, j # k PROVE e[j] # e[k]
        OBVIOUS
      <4>1. j < k \/ k < j
        BY <1>2
      <4>2. e[j] \in Nat /\ e[k] \in Nat
        BY <1>1
      <4> QED
        BY <1>3, <4>1, <4>2
    <3> QED
      BY <3>1, Zenon DEF Injection, IsInjective
  <2>2. IsFiniteSet(1..n) /\ Cardinality(1..n) = n
    BY <1>2, FS_Interval
  <2>3. e \in Surjection(1..n, kept)
    BY <2>1, <2>2, <1>2, FS_Injection
  <2> QED
    BY <2>3 DEF Surjection
<1>5. r \in Seq(T)
  BY <1>1, <1>2, <1>3
<1>6. DOMAIN r = 1..n
  BY <1>3
<1> HIDE DEF n
<1>7. \A j \in DOMAIN r : r[j] \in S /\ \E i \in DOMAIN seq : seq[i] = r[j]
  BY <1>3, <1>6
<1>8. \A i \in DOMAIN seq : seq[i] \in S => \E j \in DOMAIN r : r[j] = seq[i]
  BY <1>3, <1>4, <1>6
<1> QED
  BY <1>5, <1>7, <1>8
-----------------------------------------------------------------------------
\* The filtered sequence is unique

Increasing(e, n) == \A j, k \in 1..n : j < k => e[j] < e[k]

\* e lists the numbers of K in ascending order.
Enumerates(e, n, K) ==
    /\ e \in [1..n -> K] /\ Increasing(e, n)
    /\ \A i \in K : \E j \in 1..n : e[j] = i

UpTo(K, i) == {k \in K : k <= i}

\* An enumeration is injective and keeps the order in both directions.
LEMMA EnumerationOrder ==
    ASSUME NEW K \in SUBSET Nat, NEW n \in Nat, NEW e, Enumerates(e, n, K)
    PROVE  /\ \A j \in 1..n : e[j] \in K /\ e[j] \in Nat
           /\ \A j, k \in 1..n : j # k => e[j] # e[k]
           /\ \A j, k \in 1..n : e[j] <= e[k] => j <= k
<1>1. \A j \in 1..n : e[j] \in K /\ e[j] \in Nat
  BY DEF Enumerates
<1>2. \A j, k \in 1..n : j < k => e[j] < e[k]
  BY DEF Enumerates, Increasing
<1> QED
  BY <1>1, <1>2

\* The number at position j has j numbers up to it.
LEMMA EnumerationRank ==
    ASSUME NEW K \in SUBSET Nat, NEW n \in Nat, NEW e, Enumerates(e, n, K), NEW j \in 1..n
    PROVE  Cardinality(UpTo(K, e[j])) = j
<1> DEFINE b == [m \in 1..j |-> e[m]]
           U == UpTo(K, e[j])
<1>1. /\ \A k \in 1..n : e[k] \in K /\ e[k] \in Nat
      /\ \A k, m \in 1..n : k # m => e[k] # e[m]
      /\ \A k, m \in 1..n : e[k] <= e[m] => k <= m
      /\ \A k, m \in 1..n : k < m => e[k] < e[m]
  BY EnumerationOrder DEF Enumerates, Increasing
<1>2. \A m \in 1..j : m \in 1..n /\ (m < j \/ m = j)
  OBVIOUS
<1>3. b \in [1..j -> U]
  BY <1>1, <1>2 DEF UpTo
<1>4. \A k, m \in 1..j : k # m => b[k] # b[m]
  BY <1>1, <1>2
<1>5. \A i \in U : \E m \in 1..j : b[m] = i
  <2> SUFFICES ASSUME NEW i \in U PROVE \E m \in 1..j : b[m] = i
    OBVIOUS
  <2>1. i \in K /\ i <= e[j]
    BY DEF UpTo
  <2>2. PICK m \in 1..n : e[m] = i
    BY <2>1 DEF Enumerates
  <2>3. m \in 1..j
    BY <1>1, <2>1, <2>2
  <2> QED
    BY <2>2, <2>3
<1> HIDE DEF b, U
<1>6. b \in Bijection(1..j, U)
  BY <1>3, <1>4, <1>5, Zenon DEF Bijection, Injection, Surjection, IsInjective
<1>7. ExistsBijection(1..j, U)
  BY <1>6 DEF ExistsBijection
<1>8. IsFiniteSet(1..j) /\ Cardinality(1..j) = j
  BY FS_Interval
<1> QED
  BY <1>7, <1>8, FS_Bijection DEF U

\* There is one enumeration.
LEMMA EnumerationUnique ==
    ASSUME NEW K \in SUBSET Nat, NEW n \in Nat, NEW m \in Nat, NEW e, NEW f,
           Enumerates(e, n, K), Enumerates(f, m, K)
    PROVE  n = m /\ e = f
<1>1. \A j \in 1..n : j \in 1..m /\ f[j] = e[j]
  <2> SUFFICES ASSUME NEW j \in 1..n PROVE j \in 1..m /\ f[j] = e[j]
    OBVIOUS
  <2>1. PICK k \in 1..m : f[k] = e[j]
    BY DEF Enumerates
  <2>2. Cardinality(UpTo(K, e[j])) = j
    BY EnumerationRank
  <2>3. Cardinality(UpTo(K, f[k])) = k
    BY EnumerationRank
  <2> QED
    BY <2>1, <2>2, <2>3
<1>2. \A k \in 1..m : k \in 1..n
  <2> SUFFICES ASSUME NEW k \in 1..m PROVE k \in 1..n
    OBVIOUS
  <2>1. PICK j \in 1..n : e[j] = f[k]
    BY DEF Enumerates
  <2>2. Cardinality(UpTo(K, e[j])) = j
    BY EnumerationRank
  <2>3. Cardinality(UpTo(K, f[k])) = k
    BY EnumerationRank
  <2> QED
    BY <2>1, <2>2, <2>3
<1>3. n = m
  <2>1. n > 0 => n \in 1..m
    BY <1>1
  <2>2. m > 0 => m \in 1..n
    BY <1>2
  <2> QED
    BY <2>1, <2>2
<1> QED
  BY <1>1, <1>3 DEF Enumerates

\* Every finite set of positive numbers has an enumeration.
LEMMA EnumerationExists ==
    ASSUME NEW N \in Nat, NEW K \in SUBSET (1..N)
    PROVE  Cardinality(K) \in Nat /\ \E e : Enumerates(e, Cardinality(K), K)
<1> DEFINE n == Cardinality(K)
           rank == [i \in K |-> Cardinality(UpTo(K, i))]
<1>1. IsFiniteSet(K) /\ n \in Nat
  <2>1. IsFiniteSet(1..N)
    BY FS_Interval
  <2>2. IsFiniteSet(K)
    BY <2>1, FS_Subset
  <2> QED
    BY <2>2, FS_CardinalityType
<1>2. \A i \in K : /\ IsFiniteSet(UpTo(K, i)) /\ Cardinality(UpTo(K, i)) \in 1..n
                   /\ UpTo(K, i) \subseteq K
  <2> SUFFICES ASSUME NEW i \in K
               PROVE  /\ IsFiniteSet(UpTo(K, i)) /\ Cardinality(UpTo(K, i)) \in 1..n
                      /\ UpTo(K, i) \subseteq K
    OBVIOUS
  <2>1. UpTo(K, i) \subseteq K /\ i \in UpTo(K, i)
    BY DEF UpTo
  <2>2. IsFiniteSet(UpTo(K, i)) /\ Cardinality(UpTo(K, i)) <= n
    BY <1>1, <2>1, FS_Subset
  <2>3. Cardinality(UpTo(K, i)) \in Nat /\ Cardinality(UpTo(K, i)) # 0
    BY <2>1, <2>2, FS_CardinalityType, FS_EmptySet
  <2> QED
    BY <1>1, <2>1, <2>2, <2>3
<1>3. \A i, k \in K : i < k => rank[i] < rank[k]
  <2> SUFFICES ASSUME NEW i \in K, NEW k \in K, i < k PROVE rank[i] < rank[k]
    OBVIOUS
  <2>0. i \in Nat /\ k \in Nat /\ \A x \in K : x \in Nat
    OBVIOUS
  <2>1. UpTo(K, i) \subseteq UpTo(K, k) /\ k \in UpTo(K, k) /\ k \notin UpTo(K, i)
    <3>1. \A x \in K : x <= i => x <= k
      BY <2>0
    <3>2. k <= k /\ ~(k <= i)
      BY <2>0
    <3> QED
      BY <3>1, <3>2, Zenon DEF UpTo
  <2>2. /\ Cardinality(UpTo(K, i)) <= Cardinality(UpTo(K, k))
        /\ Cardinality(UpTo(K, i)) # Cardinality(UpTo(K, k))
    BY <1>2, <2>1, FS_Subset
  <2> QED
    BY <1>1, <1>2, <2>2
<1>4. rank \in [K -> 1..n]
  BY <1>2
<1>5. \A i, k \in K : i # k => rank[i] # rank[k]
  <2> SUFFICES ASSUME NEW i \in K, NEW k \in K, i # k PROVE rank[i] # rank[k]
    OBVIOUS
  <2>1. i < k \/ k < i
    OBVIOUS
  <2>2. rank[i] \in 1..n /\ rank[k] \in 1..n
    BY <1>4
  <2> HIDE DEF rank, n
  <2> QED
    BY <1>1, <1>3, <2>1, <2>2
<1> HIDE DEF rank
<1>6. rank \in Injection(K, 1..n)
  BY <1>4, <1>5, Zenon DEF Injection, IsInjective
<1>7. rank \in Surjection(K, 1..n)
  <2>1. IsFiniteSet(1..n) /\ Cardinality(1..n) = n
    BY <1>1, FS_Interval
  <2> QED
    BY <1>6, <2>1, FS_Injection
<1>8. \A j \in 1..n : \E i \in K : rank[i] = j
  BY <1>7 DEF Surjection
<1> DEFINE e == [j \in 1..n |-> CHOOSE i \in K : rank[i] = j]
<1>9. \A j \in 1..n : e[j] \in K /\ rank[e[j]] = j
  BY <1>8
<1>10. e \in [1..n -> K]
  BY <1>9
<1> HIDE DEF e, n
<1>11. Increasing(e, n)
  <2> SUFFICES ASSUME NEW j \in 1..n, NEW k \in 1..n, j < k PROVE e[j] < e[k]
    BY DEF Increasing
  <2>1. e[j] \in K /\ e[k] \in K /\ rank[e[j]] = j /\ rank[e[k]] = k
    BY <1>9
  <2>2. e[k] < e[j] => k < j
    BY <1>3, <2>1
  <2>3. e[j] # e[k]
    <3>1. j # k
      BY <1>1
    <3> QED
      BY <2>1, <3>1, Zenon
  <2>4. e[j] \in Nat /\ e[k] \in Nat
    <3>1. \A x \in K : x \in Nat
      OBVIOUS
    <3> QED
      BY <2>1, <3>1, Zenon
  <2> QED
    BY <1>1, <2>2, <2>3, <2>4
<1>12. \A i \in K : \E j \in 1..n : e[j] = i
  <2> SUFFICES ASSUME NEW i \in K PROVE \E j \in 1..n : e[j] = i
    OBVIOUS
  <2>1. rank[i] \in 1..n
    BY <1>4
  <2>2. e[rank[i]] \in K /\ rank[e[rank[i]]] = rank[i]
    BY <1>9, <2>1
  <2>3. e[rank[i]] = i
    BY <1>5, <2>2
  <2> QED
    BY <2>1, <2>3
<1> QED
  BY <1>1, <1>10, <1>11, <1>12 DEF Enumerates, n

KeptAt(seq, S) == {i \in DOMAIN seq : seq[i] \in S}

\* The positions that are kept are a finite set of positive numbers.
LEMMA KeptNumbers ==
    ASSUME NEW T, NEW seq \in Seq(T), NEW S
    PROVE  /\ Len(seq) \in Nat /\ DOMAIN seq = 1..Len(seq)
           /\ KeptAt(seq, S) \in SUBSET (1..Len(seq)) /\ KeptAt(seq, S) \in SUBSET Nat
           /\ Cardinality(KeptAt(seq, S)) \in Nat
<1>1. /\ Len(seq) \in Nat /\ DOMAIN seq = 1..Len(seq)
      /\ KeptAt(seq, S) \in SUBSET (1..Len(seq))
  BY DEF KeptAt
<1>2. KeptAt(seq, S) \in SUBSET Nat
  BY <1>1
<1>3. Cardinality(KeptAt(seq, S)) \in Nat
  BY <1>1, EnumerationExists
<1> QED
  BY <1>1, <1>2, <1>3

\* What Filtered enumerates is an enumeration.
LEMMA FilteredEnumerates ==
    ASSUME NEW T, NEW seq \in Seq(T), NEW S, NEW n, n = Cardinality(KeptAt(seq, S)),
           NEW e \in [1..n -> KeptAt(seq, S)], Increasing(e, n)
    PROVE  Enumerates(e, n, KeptAt(seq, S))
<1> DEFINE K == KeptAt(seq, S)
<1>1. K \subseteq 1..Len(seq) /\ Len(seq) \in Nat /\ n \in Nat /\ K \subseteq Nat
  BY KeptNumbers
<1>2. IsFiniteSet(K)
  <2>1. IsFiniteSet(1..Len(seq))
    BY <1>1, FS_Interval
  <2> QED
    BY <2>1, <1>1, FS_Subset
<1> HIDE DEF K
<1>3. \A j, k \in 1..n : j # k => e[j] # e[k]
  <2> SUFFICES ASSUME NEW j \in 1..n, NEW k \in 1..n, j # k PROVE e[j] # e[k]
    OBVIOUS
  <2>1. j < k \/ k < j
    BY <1>1
  <2>2. e[j] \in Nat /\ e[k] \in Nat
    BY <1>1 DEF K
  <2> QED
    BY <2>1, <2>2 DEF Increasing
<1>4. e \in Injection(1..n, K)
  BY <1>3, Zenon DEF Injection, IsInjective, K
<1>5. IsFiniteSet(1..n) /\ Cardinality(1..n) = n
  BY <1>1, FS_Interval
<1>6. e \in Surjection(1..n, K)
  BY <1>2, <1>4, <1>5, FS_Injection DEF K
<1> QED
  BY <1>6 DEF Enumerates, Surjection, K

\* An enumeration of the kept positions gives the filtered sequence.
LEMMA FilteredBy ==
    ASSUME NEW T, NEW seq \in Seq(T), NEW S, NEW n \in Nat, NEW e,
           Enumerates(e, n, KeptAt(seq, S))
    PROVE  /\ Filtered(seq, S) = {[j \in 1..n |-> seq[e[j]]]}
           /\ FilterSeq(seq, S) = [j \in 1..n |-> seq[e[j]]]
<1> DEFINE K == KeptAt(seq, S)
           m == Cardinality(K)
           es == {f \in [1..m -> K] : \A j, k \in 1..m : j < k => f[j] < f[k]}
<1>1. K \in SUBSET (1..Len(seq)) /\ K \in SUBSET Nat /\ m \in Nat /\ Len(seq) \in Nat
  BY KeptNumbers
<1>2. Filtered(seq, S) = {[j \in 1..m |-> seq[f[j]]] : f \in es}
  BY DEF Filtered, KeptAt
<1>3. PICK f : Enumerates(f, m, K)
  BY <1>1, EnumerationExists
<1>4. n = m /\ f = e
  BY <1>1, <1>3, EnumerationUnique
<1>5. e \in es
  BY <1>4 DEF Enumerates, Increasing
<1>6. \A g \in es : g = e
  <2> SUFFICES ASSUME NEW g \in es PROVE g = e
    OBVIOUS
  <2>1. g \in [1..m -> K] /\ Increasing(g, m)
    BY DEF Increasing
  <2> HIDE DEF es, m
  <2>2. Enumerates(g, m, K)
    BY <2>1, FilteredEnumerates DEF m
  <2> QED
    BY <1>1, <1>4, <2>2, EnumerationUnique
<1>7. es = {e}
  BY <1>5, <1>6
<1> HIDE DEF es, m
<1>8. Filtered(seq, S) = {[j \in 1..n |-> seq[e[j]]]}
  BY <1>2, <1>4, <1>7
<1> QED
  BY <1>8 DEF FilterSeq

\* The filtered sequence and an enumeration of it
LEMMA FilterEnumeration ==
    ASSUME NEW T, NEW seq \in Seq(T), NEW S
    PROVE  \E n \in Nat : \E e : /\ Enumerates(e, n, KeptAt(seq, S))
                                 /\ FilterSeq(seq, S) = [j \in 1..n |-> seq[e[j]]]
<1> DEFINE K == KeptAt(seq, S)
           m == Cardinality(K)
<1>1. K \in SUBSET (1..Len(seq)) /\ m \in Nat /\ Len(seq) \in Nat
  BY KeptNumbers
<1>2. PICK f : Enumerates(f, m, K)
  BY <1>1, EnumerationExists
<1> HIDE DEF m
<1> QED
  BY <1>1, <1>2, FilteredBy

\* Filtered has one member.
LEMMA FilterIsFiltered ==
    ASSUME NEW T, NEW seq \in Seq(T), NEW S
    PROVE  Filtered(seq, S) = {FilterSeq(seq, S)} /\ FilterSeq(seq, S) \in Seq(T)
<1>1. PICK n \in Nat : \E e : Enumerates(e, n, KeptAt(seq, S))
  BY FilterEnumeration
<1>1e. PICK e : Enumerates(e, n, KeptAt(seq, S))
  BY <1>1
<1>2. /\ Filtered(seq, S) = {[j \in 1..n |-> seq[e[j]]]}
      /\ FilterSeq(seq, S) = [j \in 1..n |-> seq[e[j]]]
  BY <1>1e, FilteredBy
<1>3. FilterSeq(seq, S) \in Filtered(seq, S)
  BY <1>2
<1> QED
  BY <1>2, <1>3, FilteredElements

\* Only which elements of the sequence are kept matters.
LEMMA FilterSame ==
    ASSUME NEW seq, NEW S, NEW R, \A i \in DOMAIN seq : seq[i] \in S <=> seq[i] \in R
    PROVE  FilterSeq(seq, S) = FilterSeq(seq, R)
<1>1. {i \in DOMAIN seq : seq[i] \in S} = {i \in DOMAIN seq : seq[i] \in R}
  OBVIOUS
<1> QED
  BY <1>1 DEF FilterSeq, Filtered

\* Nothing is kept.
LEMMA FilterNone ==
    ASSUME NEW T, NEW seq \in Seq(T), NEW S, \A i \in DOMAIN seq : seq[i] \notin S
    PROVE  FilterSeq(seq, S) = <<>>
<1>0n. PICK n \in Nat : \E e : /\ Enumerates(e, n, KeptAt(seq, S))
                             /\ FilterSeq(seq, S) = [j \in 1..n |-> seq[e[j]]]
  BY FilterEnumeration
<1>1. PICK e : /\ Enumerates(e, n, KeptAt(seq, S))
               /\ FilterSeq(seq, S) = [j \in 1..n |-> seq[e[j]]]
  BY <1>0n
<1>2. KeptAt(seq, S) = {}
  BY DEF KeptAt
<1>3. \A j \in 1..n : e[j] \in {}
  BY <1>1, <1>2, Zenon DEF Enumerates
<1>4. n = 0
  BY <1>3
<1> QED
  BY <1>1, <1>4

\* Everything is kept.
LEMMA FilterAll ==
    ASSUME NEW T, NEW seq \in Seq(T), NEW S, \A i \in DOMAIN seq : seq[i] \in S
    PROVE  FilterSeq(seq, S) = seq
<1> DEFINE n == Len(seq)
           e == [j \in 1..n |-> j]
<1>1. n \in Nat /\ DOMAIN seq = 1..n
  OBVIOUS
<1>2. KeptAt(seq, S) = 1..n
  BY <1>1 DEF KeptAt
<1>3. Enumerates(e, n, 1..n)
  BY <1>1 DEF Enumerates, Increasing
<1>4. \A j \in 1..n : e[j] = j
  OBVIOUS
<1> HIDE DEF e, n
<1>5. FilterSeq(seq, S) = [j \in 1..n |-> seq[e[j]]]
  BY <1>1, <1>2, <1>3, FilteredBy
<1>6. [j \in 1..n |-> seq[e[j]]] = [j \in 1..n |-> seq[j]]
  BY <1>4
<1>7. seq = [j \in 1..n |-> seq[j]]
  BY <1>1
<1> QED
  BY <1>5, <1>6, <1>7

\* The elements of a concatenation
LEMMA ConcatElements ==
    ASSUME NEW T, NEW p \in Seq(T), NEW q \in Seq(T)
    PROVE  /\ p \o q \in Seq(T) /\ DOMAIN (p \o q) = 1..(Len(p) + Len(q))
           /\ \A j \in 1..Len(p) : (p \o q)[j] = p[j]
           /\ \A j \in 1..Len(q) : (p \o q)[Len(p) + j] = q[j]
           /\ (p \o q) = [j \in 1..(Len(p) + Len(q)) |-> (p \o q)[j]]
<1> DEFINE r == p \o q
           n == Len(p)
           m == Len(q)
<1>1. /\ n \in Nat /\ m \in Nat /\ r \in Seq(T) /\ Len(r) = n + m
      /\ \A j \in 1..n : r[j] = p[j]
      /\ \A j \in 1..m : r[n + j] = q[j]
  OBVIOUS
<1> HIDE DEF r
<1>2. DOMAIN r = 1..(n + m) /\ r = [j \in 1..(n + m) |-> r[j]]
  BY <1>1
<1> QED
  BY <1>1, <1>2 DEF r

\* Filtering distributes over concatenation.
LEMMA FilterConcat ==
    ASSUME NEW T, NEW s \in Seq(T), NEW t \in Seq(T), NEW S
    PROVE  FilterSeq(s \o t, S) = FilterSeq(s, S) \o FilterSeq(t, S)
<1> DEFINE u == s \o t
           L == Len(s)
<1>1. /\ L \in Nat /\ Len(t) \in Nat /\ DOMAIN s = 1..L /\ DOMAIN t = 1..Len(t)
      /\ u \in Seq(T) /\ DOMAIN u = 1..(L + Len(t))
      /\ \A i \in 1..L : u[i] = s[i]
      /\ \A i \in 1..Len(t) : u[L + i] = t[i]
  OBVIOUS
<1>0n. PICK n \in Nat : \E e : /\ Enumerates(e, n, KeptAt(s, S))
                             /\ FilterSeq(s, S) = [j \in 1..n |-> s[e[j]]]
  BY FilterEnumeration
<1>2. PICK e : /\ Enumerates(e, n, KeptAt(s, S))
               /\ FilterSeq(s, S) = [j \in 1..n |-> s[e[j]]]
  BY <1>0n
<1>0m. PICK m \in Nat : \E f : /\ Enumerates(f, m, KeptAt(t, S))
                             /\ FilterSeq(t, S) = [j \in 1..m |-> t[f[j]]]
  BY FilterEnumeration
<1>3. PICK f : /\ Enumerates(f, m, KeptAt(t, S))
               /\ FilterSeq(t, S) = [j \in 1..m |-> t[f[j]]]
  BY <1>0m
<1> DEFINE h == [j \in 1..(n + m) |-> IF j <= n THEN e[j] ELSE L + f[j - n]]
<1>4. /\ \A j \in 1..n : j \in 1..(n + m) /\ h[j] = e[j]
      /\ \A j \in 1..m : n + j \in 1..(n + m) /\ h[n + j] = L + f[j]
  OBVIOUS
<1>5. \A j \in 1..(n + m) : j \in 1..n \/ \E k \in 1..m : j = n + k
  <2> SUFFICES ASSUME NEW j \in 1..(n + m), j \notin 1..n PROVE \E k \in 1..m : j = n + k
    OBVIOUS
  <2>1. j - n \in 1..m /\ j = n + (j - n)
    OBVIOUS
  <2> QED
    BY <2>1
<1>6. DOMAIN h = 1..(n + m)
  OBVIOUS
<1>7. /\ \A j \in 1..n : e[j] \in 1..L /\ s[e[j]] \in S
      /\ \A j \in 1..m : f[j] \in 1..Len(t) /\ t[f[j]] \in S
  BY <1>1, <1>2, <1>3 DEF Enumerates, KeptAt
<1> HIDE DEF h, u, L
<1>8. \A j \in 1..(n + m) : h[j] \in KeptAt(u, S)
  <2>1. \A j \in 1..n : h[j] \in KeptAt(u, S)
    BY <1>1, <1>4, <1>7 DEF KeptAt
  <2>2. \A j \in 1..m : h[n + j] \in KeptAt(u, S)
    <3> SUFFICES ASSUME NEW j \in 1..m PROVE h[n + j] \in KeptAt(u, S)
      OBVIOUS
    <3>1. h[n + j] = L + f[j] /\ f[j] \in 1..Len(t) /\ t[f[j]] \in S
      BY <1>4, <1>7
    <3>2. L + f[j] \in DOMAIN u /\ u[L + f[j]] = t[f[j]]
      BY <1>1, <3>1
    <3> QED
      BY <3>1, <3>2 DEF KeptAt
  <2> QED
    BY <1>5, <2>1, <2>2
<1>9. h \in [1..(n + m) -> KeptAt(u, S)]
  BY <1>6, <1>8 DEF h
<1>10. Increasing(h, n + m)
  <2>1. \A j, k \in 1..n : j < k => h[j] < h[k]
    BY <1>2, <1>4 DEF Enumerates, Increasing
  <2>2. \A j \in 1..n : \A k \in 1..m : h[j] < h[n + k]
    <3> SUFFICES ASSUME NEW j \in 1..n, NEW k \in 1..m PROVE h[j] < h[n + k]
      OBVIOUS
    <3>1. e[j] \in 1..L /\ f[k] \in 1..Len(t)
      BY <1>7
    <3>2. h[j] = e[j] /\ h[n + k] = L + f[k]
      BY <1>4
    <3> QED
      BY <1>1, <3>1, <3>2
  <2>3. \A j, k \in 1..m : j < k => h[n + j] < h[n + k]
    <3> SUFFICES ASSUME NEW j \in 1..m, NEW k \in 1..m, j < k PROVE h[n + j] < h[n + k]
      OBVIOUS
    <3>1. f[j] < f[k]
      BY <1>3 DEF Enumerates, Increasing
    <3>2. f[j] \in Nat /\ f[k] \in Nat
      BY <1>1, <1>7
    <3> QED
      BY <1>1, <1>4, <3>1, <3>2
  <2> SUFFICES ASSUME NEW j \in 1..(n + m), NEW k \in 1..(n + m), j < k PROVE h[j] < h[k]
    BY DEF Increasing
  <2>4. CASE j \in 1..n /\ k \in 1..n
    BY <2>1, <2>4
  <2>5. CASE j \in 1..n /\ k \notin 1..n
    BY <1>5, <2>2, <2>5
  <2>6. CASE j \notin 1..n
    <3>1. PICK a \in 1..m : j = n + a
      BY <1>5, <2>6
    <3>2. k \notin 1..n
      BY <3>1
    <3>3. PICK b \in 1..m : k = n + b
      BY <1>5, <3>2
    <3>4. a < b
      BY <3>1, <3>3
    <3> QED
      BY <2>3, <3>1, <3>3, <3>4
  <2> QED
    BY <2>4, <2>5, <2>6
<1>11. \A i \in KeptAt(u, S) : \E j \in 1..(n + m) : h[j] = i
  <2> SUFFICES ASSUME NEW i \in KeptAt(u, S) PROVE \E j \in 1..(n + m) : h[j] = i
    OBVIOUS
  <2>1. i \in 1..(L + Len(t)) /\ u[i] \in S
    BY <1>1 DEF KeptAt
  <2>2. CASE i \in 1..L
    <3>1. i \in KeptAt(s, S)
      BY <1>1, <2>1, <2>2 DEF KeptAt
    <3>2. PICK j \in 1..n : e[j] = i
      BY <1>2, <3>1 DEF Enumerates
    <3> QED
      BY <1>4, <3>2
  <2>3. CASE i \notin 1..L
    <3>1. i - L \in 1..Len(t) /\ L + (i - L) = i
      BY <1>1, <2>1, <2>3
    <3>2. t[i - L] = u[i]
      BY <1>1, <3>1
    <3>3. i - L \in KeptAt(t, S)
      BY <1>1, <2>1, <3>1, <3>2 DEF KeptAt
    <3>4. PICK j \in 1..m : f[j] = i - L
      BY <1>3, <3>3 DEF Enumerates
    <3> QED
      BY <1>4, <3>1, <3>4
  <2> QED
    BY <2>2, <2>3
<1>12. Enumerates(h, n + m, KeptAt(u, S))
  BY <1>9, <1>10, <1>11 DEF Enumerates
<1>13. FilterSeq(u, S) = [j \in 1..(n + m) |-> u[h[j]]]
  BY <1>1, <1>12, FilteredBy
<1> DEFINE p == FilterSeq(s, S)
           q == FilterSeq(t, S)
<1>14. /\ p \in Seq(T) /\ q \in Seq(T) /\ Len(p) = n /\ Len(q) = m
       /\ \A j \in 1..n : p[j] = s[e[j]]
       /\ \A j \in 1..m : q[j] = t[f[j]]
  BY <1>2, <1>3, FilterIsFiltered
<1> HIDE DEF p, q
<1>15. /\ DOMAIN (p \o q) = 1..(n + m)
       /\ \A j \in 1..n : (p \o q)[j] = p[j]
       /\ \A j \in 1..m : (p \o q)[n + j] = q[j]
       /\ (p \o q) \in Seq(T)
       /\ p \o q = [j \in 1..(n + m) |-> (p \o q)[j]]
  <2>1. p \in Seq(T) /\ q \in Seq(T) /\ n = Len(p) /\ m = Len(q)
    BY <1>14
  <2>2. /\ p \o q \in Seq(T) /\ DOMAIN (p \o q) = 1..(Len(p) + Len(q))
        /\ \A j \in 1..Len(p) : (p \o q)[j] = p[j]
        /\ \A j \in 1..Len(q) : (p \o q)[Len(p) + j] = q[j]
        /\ (p \o q) = [j \in 1..(Len(p) + Len(q)) |-> (p \o q)[j]]
    BY <2>1, ConcatElements
  <2> QED
    BY <2>1, <2>2, Zenon
<1>16. \A j \in 1..(n + m) : u[h[j]] = (p \o q)[j]
  <2>1. \A j \in 1..n : u[h[j]] = (p \o q)[j]
    <3> SUFFICES ASSUME NEW j \in 1..n PROVE u[h[j]] = (p \o q)[j]
      OBVIOUS
    <3>1. h[j] = e[j] /\ e[j] \in 1..L
      BY <1>4, <1>7
    <3>2. u[e[j]] = s[e[j]]
      BY <1>1, <3>1
    <3>3. (p \o q)[j] = s[e[j]]
      BY <1>14, <1>15, Zenon
    <3> QED
      BY <3>1, <3>2, <3>3
  <2>2. \A j \in 1..m : u[h[n + j]] = (p \o q)[n + j]
    <3> SUFFICES ASSUME NEW j \in 1..m PROVE u[h[n + j]] = (p \o q)[n + j]
      OBVIOUS
    <3>1. h[n + j] = L + f[j] /\ f[j] \in 1..Len(t)
      BY <1>4, <1>7
    <3>2. u[L + f[j]] = t[f[j]]
      BY <1>1, <3>1
    <3>3. (p \o q)[n + j] = t[f[j]]
      BY <1>14, <1>15, Zenon
    <3> QED
      BY <3>1, <3>2, <3>3
  <2> QED
    BY <1>5, <2>1, <2>2
<1>17. [j \in 1..(n + m) |-> u[h[j]]] = [j \in 1..(n + m) |-> (p \o q)[j]]
  BY <1>16, Zenon
<1>18. FilterSeq(u, S) = p \o q
  BY <1>13, <1>15, <1>17, Zenon
<1> QED
  BY <1>18 DEF u, p, q

\* Filtering twice
LEMMA FilterTwice ==
    ASSUME NEW T, NEW s \in Seq(T), NEW S, NEW R \in SUBSET S
    PROVE  FilterSeq(FilterSeq(s, S), R) = FilterSeq(s, R)
<1> DEFINE p == FilterSeq(s, S)
<1>0n. PICK n \in Nat : \E e : /\ Enumerates(e, n, KeptAt(s, S))
                             /\ p = [j \in 1..n |-> s[e[j]]]
  BY FilterEnumeration
<1>1. PICK e : /\ Enumerates(e, n, KeptAt(s, S))
               /\ p = [j \in 1..n |-> s[e[j]]]
  BY <1>0n
<1>2. p \in Seq(T) /\ Len(p) = n /\ DOMAIN p = 1..n /\ \A j \in 1..n : p[j] = s[e[j]]
  BY <1>1, FilterIsFiltered
<1> HIDE DEF p
<1>0m. PICK m \in Nat : \E f : /\ Enumerates(f, m, KeptAt(p, R))
                             /\ FilterSeq(p, R) = [j \in 1..m |-> p[f[j]]]
  <2>1. p \in Seq(T)
    BY <1>2
  <2>2. \E k \in Nat : \E g : /\ Enumerates(g, k, KeptAt(p, R))
                              /\ FilterSeq(p, R) = [j \in 1..k |-> p[g[j]]]
    BY <2>1, FilterEnumeration
  <2> QED
    BY <2>2
<1>3. PICK f : /\ Enumerates(f, m, KeptAt(p, R))
               /\ FilterSeq(p, R) = [j \in 1..m |-> p[f[j]]]
  BY <1>0m
<1> DEFINE h == [j \in 1..m |-> e[f[j]]]
<1>4. \A j \in 1..m : f[j] \in 1..n /\ p[f[j]] \in R
  BY <1>2, <1>3 DEF Enumerates, KeptAt
<1>5. \A j \in 1..n : e[j] \in DOMAIN s /\ s[e[j]] \in S
  BY <1>1 DEF Enumerates, KeptAt
<1>6. \A j \in 1..m : h[j] = e[f[j]]
  OBVIOUS
<1>7. h \in [1..m -> KeptAt(s, R)]
  BY <1>2, <1>4, <1>5 DEF KeptAt
<1> HIDE DEF h
<1>8. Increasing(h, m)
  <2> SUFFICES ASSUME NEW j \in 1..m, NEW k \in 1..m, j < k PROVE h[j] < h[k]
    BY DEF Increasing
  <2>1. f[j] < f[k]
    BY <1>3 DEF Enumerates, Increasing
  <2>2. e[f[j]] < e[f[k]]
    BY <1>1, <1>4, <2>1 DEF Enumerates, Increasing
  <2> QED
    BY <1>6, <2>2
<1>9. \A i \in KeptAt(s, R) : \E j \in 1..m : h[j] = i
  <2> SUFFICES ASSUME NEW i \in KeptAt(s, R) PROVE \E j \in 1..m : h[j] = i
    OBVIOUS
  <2>1. i \in DOMAIN s /\ s[i] \in R
    BY DEF KeptAt
  <2>2. i \in KeptAt(s, S)
    BY <2>1 DEF KeptAt
  <2>3. PICK k \in 1..n : e[k] = i
    BY <1>1, <2>2 DEF Enumerates
  <2>4. k \in KeptAt(p, R)
    BY <1>2, <2>1, <2>3 DEF KeptAt
  <2>5. PICK j \in 1..m : f[j] = k
    BY <1>3, <2>4 DEF Enumerates
  <2> QED
    BY <1>6, <2>3, <2>5
<1>10. Enumerates(h, m, KeptAt(s, R))
  BY <1>7, <1>8, <1>9 DEF Enumerates
<1>11. FilterSeq(s, R) = [j \in 1..m |-> s[h[j]]]
  BY <1>10, FilteredBy
<1>12. \A j \in 1..m : s[h[j]] = p[f[j]]
  BY <1>2, <1>4, <1>6
<1>13. FilterSeq(p, R) = FilterSeq(s, R)
  BY <1>3, <1>11, <1>12, Zenon
<1> QED
  BY <1>13 DEF p

\* Filtering a sequence with one more
LEMMA FilterAppend ==
    ASSUME NEW T, NEW s \in Seq(T), NEW x \in T, NEW S
    PROVE  /\ x \in S => FilterSeq(Append(s, x), S) = Append(FilterSeq(s, S), x)
           /\ x \notin S => FilterSeq(Append(s, x), S) = FilterSeq(s, S)
<1> DEFINE y == <<x>>
<1>1. y \in Seq(T) /\ Append(s, x) = s \o y /\ Len(y) = 1 /\ DOMAIN y = 1..1 /\ y[1] = x
  OBVIOUS
<1>2. \A r \in Seq(T) : r \o y = Append(r, x) /\ r \o <<>> = r
  OBVIOUS
<1> HIDE DEF y
<1>3. FilterSeq(s \o y, S) = FilterSeq(s, S) \o FilterSeq(y, S)
  BY <1>1, FilterConcat
<1>4. x \in S => FilterSeq(y, S) = y
  <2>1. x \in S => \A i \in DOMAIN y : y[i] \in S
    BY <1>1
  <2> QED
    BY <1>1, <2>1, FilterAll
<1>5. x \notin S => FilterSeq(y, S) = <<>>
  <2>1. x \notin S => \A i \in DOMAIN y : y[i] \notin S
    BY <1>1
  <2> QED
    BY <1>1, <2>1, FilterNone
<1>6. FilterSeq(s, S) \in Seq(T)
  BY FilterIsFiltered
<1> QED
  BY <1>1, <1>2, <1>3, <1>4, <1>5, <1>6, Zenon

\* Filtering a sequence with one less
LEMMA FilterTail ==
    ASSUME NEW T, NEW s \in Seq(T), s # <<>>, NEW S
    PROVE  /\ Head(s) \in S => /\ FilterSeq(s, S) # <<>>
                               /\ Head(FilterSeq(s, S)) = Head(s)
                               /\ FilterSeq(Tail(s), S) = Tail(FilterSeq(s, S))
           /\ Head(s) \notin S => FilterSeq(Tail(s), S) = FilterSeq(s, S)
<1> DEFINE x == Head(s)
           y == <<x>>
           t == Tail(s)
<1>1. /\ x \in T /\ y \in Seq(T) /\ t \in Seq(T) /\ s = y \o t
      /\ Len(y) = 1 /\ DOMAIN y = 1..1 /\ y[1] = x
  OBVIOUS
<1>2. \A r \in Seq(T) : /\ y \o r # <<>> /\ Head(y \o r) = x /\ Tail(y \o r) = r
                        /\ <<>> \o r = r
  BY <1>1
<1> HIDE DEF y, t, x
<1>3. FilterSeq(y \o t, S) = FilterSeq(y, S) \o FilterSeq(t, S)
  BY <1>1, FilterConcat
<1>4. x \in S => FilterSeq(y, S) = y
  <2>1. x \in S => \A i \in DOMAIN y : y[i] \in S
    BY <1>1
  <2> QED
    BY <1>1, <2>1, FilterAll
<1>5. x \notin S => FilterSeq(y, S) = <<>>
  <2>1. x \notin S => \A i \in DOMAIN y : y[i] \notin S
    BY <1>1
  <2> QED
    BY <1>1, <2>1, FilterNone
<1>6. FilterSeq(t, S) \in Seq(T)
  BY <1>1, FilterIsFiltered
<1>7. /\ x \in S => /\ FilterSeq(s, S) # <<>> /\ Head(FilterSeq(s, S)) = x
                    /\ FilterSeq(t, S) = Tail(FilterSeq(s, S))
      /\ x \notin S => FilterSeq(t, S) = FilterSeq(s, S)
  BY <1>1, <1>2, <1>3, <1>4, <1>5, <1>6, Zenon
<1> QED
  BY <1>7 DEF x, t
================================================================================
