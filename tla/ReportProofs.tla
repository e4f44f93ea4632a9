----------------------------- MODULE ReportProofs -----------------------------
(***************************************************************************)
(* Proofs about ReportAssembly and FactsDocument, for all inputs and       *)
(* documents that satisfy their assumptions: what a cap keeps, what the    *)
(* components listing holds, what the totals say, where a log places each  *)
(* record, that no order of arrival shows, and that a facts document has   *)
(* one canonical form.  They rest on what sorting by a key gives, which    *)
(* comes first.                                                            *)
(***************************************************************************)
EXTENDS ReportAssembly, FactsDocument, FiniteSetTheorems, FunctionTheorems, SequenceTheorems, WellFoundedInduction, TLAPS

-----------------------------------------------------------------------------
(* Every nonempty set of naturals has a least member.                      *)
LEMMA LeastMember ==
  ASSUME NEW T, T \subseteq Nat, T # {}
  PROVE  \E x \in T : \A y \in T : x <= y
<1> DEFINE Up == {1 .. n : n \in T}
<1>1. Up \subseteq FiniteSubsetsOf(Nat) /\ Up # {}
  <2> SUFFICES ASSUME NEW n \in T PROVE 1 .. n \in FiniteSubsetsOf(Nat)
    OBVIOUS
  <2>1. IsFiniteSet(1 .. n) /\ 1 .. n \subseteq Nat
    BY FS_Interval
  <2> QED BY <2>1, SMT DEF FiniteSubsetsOf
<1>2. IsWellFoundedOn(StrictSubsetOrdering(Nat), FiniteSubsetsOf(Nat))
  BY FS_StrictSubsetOrderingWellFounded
<1>3. PICK U \in Up : \A V \in Up : ~ (<<V, U>> \in StrictSubsetOrdering(Nat))
  <2> HIDE DEF Up
  <2> QED BY <1>1, <1>2, WFMin
<1>4. PICK x \in T : U = 1 .. x
  OBVIOUS
<1>5. ASSUME NEW y \in T, y < x PROVE FALSE
  <2>1. (1 .. y) \subseteq (1 .. x) /\ x \in 1 .. x /\ x \notin 1 .. y
    BY <1>5, T \subseteq Nat
  <2>2. <<1 .. y, 1 .. x>> \in StrictSubsetOrdering(Nat)
    BY <2>1 DEF StrictSubsetOrdering
  <2> QED BY <1>3, <1>4, <2>2
<1> QED BY <1>5, T \subseteq Nat

-----------------------------------------------------------------------------
(* Keys of one length are in a strict total order.                         *)
LEMMA PrecedesIsStrict ==
  ASSUME NEW n \in Nat, NEW a \in [1 .. n -> Int], NEW b \in [1 .. n -> Int]
  PROVE  /\ ~ Precedes(a, a)
         /\ ~ (Precedes(a, b) /\ Precedes(b, a))
<1>1. ~ Precedes(a, a)
  BY DEF Precedes
<1>2. ASSUME Precedes(a, b), Precedes(b, a) PROVE FALSE
  <2>1. PICK i \in 1 .. n : a[i] < b[i] /\ \A j \in 1 .. i - 1 : a[j] = b[j]
    BY <1>2 DEF Precedes
  <2>2. PICK k \in 1 .. n : b[k] < a[k] /\ \A j \in 1 .. k - 1 : b[j] = a[j]
    BY <1>2 DEF Precedes
  <2>3. i \in 1 .. k - 1 \/ k \in 1 .. i - 1 \/ i = k
    OBVIOUS
  <2> QED BY <2>1, <2>2, <2>3
<1> QED BY <1>1, <1>2

LEMMA PrecedesIsTransitive ==
  ASSUME NEW n \in Nat, NEW a \in [1 .. n -> Int], NEW b \in [1 .. n -> Int], NEW c \in [1 .. n -> Int],
         Precedes(a, b), Precedes(b, c)
  PROVE  Precedes(a, c)
<1>1. PICK i \in 1 .. n : a[i] < b[i] /\ \A j \in 1 .. i - 1 : a[j] = b[j]
  BY DEF Precedes
<1>2. PICK k \in 1 .. n : b[k] < c[k] /\ \A j \in 1 .. k - 1 : b[j] = c[j]
  BY DEF Precedes
<1>3. CASE i < k
  <2>1. a[i] < c[i] /\ \A j \in 1 .. i - 1 : a[j] = c[j]
    BY <1>1, <1>2, <1>3
  <2> QED BY <2>1 DEF Precedes
<1>4. CASE k < i
  <2>1. a[k] < c[k] /\ \A j \in 1 .. k - 1 : a[j] = c[j]
    BY <1>1, <1>2, <1>4
  <2> QED BY <2>1 DEF Precedes
<1>5. CASE i = k
  <2>1. a[i] < c[i] /\ \A j \in 1 .. i - 1 : a[j] = c[j]
    BY <1>1, <1>2, <1>5
  <2> QED BY <2>1 DEF Precedes
<1> QED BY <1>3, <1>4, <1>5

LEMMA PrecedesIsTotal ==
  ASSUME NEW n \in Nat, NEW a \in [1 .. n -> Int], NEW b \in [1 .. n -> Int], a # b
  PROVE  Precedes(a, b) \/ Precedes(b, a)
<1> DEFINE apart == {i \in 1 .. n : a[i] # b[i]}
<1>1. apart # {} /\ apart \subseteq Nat
  OBVIOUS
<1>2. PICK i \in apart : \A j \in apart : i <= j
  BY <1>1, LeastMember
<1>3. \A j \in 1 .. i - 1 : a[j] = b[j]
  BY <1>2
<1>4. i \in 1 .. n /\ (a[i] < b[i] \/ b[i] < a[i])
  BY <1>2
<1> QED BY <1>3, <1>4 DEF Precedes

(* The places of a list are in a strict total order by their keys.         *)
Ordered(places, keys) ==
  \A i, j, k \in places :
    /\ ~ Ahead(keys, i, i)
    /\ Ahead(keys, i, j) /\ Ahead(keys, j, k) => Ahead(keys, i, k)
    /\ i = j \/ Ahead(keys, i, j) \/ Ahead(keys, j, i)

LEMMA KeysOrder ==
  ASSUME NEW n \in Nat, NEW places, places \subseteq Int, NEW keys \in [places -> [1 .. n -> Int]]
  PROVE  Ordered(places, keys)
<1> SUFFICES ASSUME NEW i \in places, NEW j \in places, NEW k \in places
             PROVE  /\ ~ Ahead(keys, i, i)
                    /\ Ahead(keys, i, j) /\ Ahead(keys, j, k) => Ahead(keys, i, k)
                    /\ i = j \/ Ahead(keys, i, j) \/ Ahead(keys, j, i)
  BY DEF Ordered
<1>1. keys[i] \in [1 .. n -> Int] /\ keys[j] \in [1 .. n -> Int] /\ keys[k] \in [1 .. n -> Int]
      /\ i \in Int /\ j \in Int /\ k \in Int
  OBVIOUS
<1>2. ~ Ahead(keys, i, i)
  BY <1>1, PrecedesIsStrict DEF Ahead
<1>3. ASSUME Ahead(keys, i, j), Ahead(keys, j, k) PROVE Ahead(keys, i, k)
  <2>1. Precedes(keys[i], keys[j]) /\ Precedes(keys[j], keys[k]) => Precedes(keys[i], keys[k])
    BY <1>1, PrecedesIsTransitive
  <2> QED BY <1>1, <1>3, <2>1 DEF Ahead
<1>4. i = j \/ Ahead(keys, i, j) \/ Ahead(keys, j, i)
  <2>1. keys[i] = keys[j] \/ Precedes(keys[i], keys[j]) \/ Precedes(keys[j], keys[i])
    BY <1>1, PrecedesIsTotal
  <2> QED BY <1>1, <2>1 DEF Ahead
<1> QED BY <1>2, <1>3, <1>4

-----------------------------------------------------------------------------
(* The arrangement: each place once, each ahead of those after it.         *)
AheadOf(places, keys, i) == {j \in places : Ahead(keys, j, i)}

LEMMA RanksApart ==
  ASSUME NEW places, IsFiniteSet(places), NEW keys, Ordered(places, keys),
         NEW i \in places, NEW j \in places, Ahead(keys, i, j)
  PROVE  /\ Cardinality(AheadOf(places, keys, i)) \in 0 .. Cardinality(places) - 1
         /\ Cardinality(AheadOf(places, keys, i)) < Cardinality(AheadOf(places, keys, j))
<1>1. AheadOf(places, keys, i) \subseteq AheadOf(places, keys, j)
  BY DEF AheadOf, Ordered
<1>2. i \in AheadOf(places, keys, j) /\ i \notin AheadOf(places, keys, i)
  BY DEF AheadOf, Ordered
<1>3. IsFiniteSet(AheadOf(places, keys, j)) /\ Cardinality(AheadOf(places, keys, j)) <= Cardinality(places)
  <2>1. AheadOf(places, keys, j) \in SUBSET places
    BY DEF AheadOf
  <2> QED BY <2>1, FS_Subset
<1>4. /\ Cardinality(AheadOf(places, keys, i)) <= Cardinality(AheadOf(places, keys, j))
      /\ Cardinality(AheadOf(places, keys, i)) # Cardinality(AheadOf(places, keys, j))
      /\ IsFiniteSet(AheadOf(places, keys, i))
  BY <1>1, <1>2, <1>3, FS_Subset
<1>5. /\ Cardinality(AheadOf(places, keys, i)) \in Nat /\ Cardinality(AheadOf(places, keys, j)) \in Nat
      /\ Cardinality(places) \in Nat
  BY <1>3, <1>4, FS_CardinalityType
<1> QED BY <1>3, <1>4, <1>5

LEMMA RankInside ==
  ASSUME NEW places, IsFiniteSet(places), NEW keys, Ordered(places, keys), NEW i \in places
  PROVE  Cardinality(AheadOf(places, keys, i)) + 1 \in 1 .. Cardinality(places)
<1>1. AheadOf(places, keys, i) \in SUBSET places /\ i \notin AheadOf(places, keys, i)
  BY DEF AheadOf, Ordered
<1>2. /\ IsFiniteSet(AheadOf(places, keys, i))
      /\ Cardinality(AheadOf(places, keys, i)) <= Cardinality(places)
      /\ Cardinality(AheadOf(places, keys, i)) # Cardinality(places)
  BY <1>1, FS_Subset
<1>3. Cardinality(AheadOf(places, keys, i)) \in Nat /\ Cardinality(places) \in Nat
  BY <1>2, FS_CardinalityType
<1> QED BY <1>2, <1>3

LEMMA Arrangement ==
  ASSUME NEW places, IsFiniteSet(places), NEW keys, Ordered(places, keys)
  PROVE  /\ Cardinality(places) \in Nat
         /\ Arranged(places, keys) \in Bijection(1 .. Cardinality(places), places)
         /\ \A a, b \in 1 .. Cardinality(places) :
              a < b => Ahead(keys, Arranged(places, keys)[a], Arranged(places, keys)[b])
         /\ \A i \in places : Arranged(places, keys)[Cardinality(AheadOf(places, keys, i)) + 1] = i
<1> DEFINE n == Cardinality(places)
           ahead == [i \in places |-> Cardinality({j \in places : Ahead(keys, j, i)})]
           order == Arranged(places, keys)
           rank == [i \in places |-> Cardinality(AheadOf(places, keys, i)) + 1]
<1>0. \A i \in places : rank[i] = Cardinality(AheadOf(places, keys, i)) + 1
  OBVIOUS
<1>1. n \in Nat
  BY FS_CardinalityType
<1>2. rank \in [places -> 1 .. n]
  BY RankInside
<1>3. \A i, j \in places : Ahead(keys, i, j) => rank[i] < rank[j]
  <2> SUFFICES ASSUME NEW i \in places, NEW j \in places, Ahead(keys, i, j) PROVE rank[i] < rank[j]
    OBVIOUS
  <2>1. /\ Cardinality(AheadOf(places, keys, i)) < Cardinality(AheadOf(places, keys, j))
        /\ Cardinality(AheadOf(places, keys, i)) \in Int
    BY <1>1, RanksApart
  <2>2. Cardinality(AheadOf(places, keys, j)) + 1 \in 1 .. n
    BY RankInside
  <2>3. AheadOf(places, keys, j) \in SUBSET places
    BY DEF AheadOf
  <2>4. Cardinality(AheadOf(places, keys, j)) \in Nat
    BY <2>3, FS_Subset, FS_CardinalityType
  <2> QED BY <2>1, <2>4
<1>4. \A i, j \in places : rank[i] = rank[j] => i = j
  BY <1>1, <1>2, <1>3 DEF Ordered
<1>5. rank \in Injection(places, 1 .. n)
  BY <1>2, <1>4 DEF Injection, IsInjective
<1>6. IsFiniteSet(1 .. n) /\ Cardinality(1 .. n) = n
  BY <1>1, FS_Interval
<1>7. rank \in Surjection(places, 1 .. n)
  BY <1>5, <1>6, FS_Injection
<1>8. \A k \in 1 .. n : \E i \in places : rank[i] = k
  BY <1>7 DEF Surjection
<1>9. order = [k \in 1 .. n |-> CHOOSE i \in places : ahead[i] = k - 1]
  BY DEF Arranged
<1>10. \A k \in 1 .. n : order[k] \in places /\ rank[order[k]] = k
  <2> SUFFICES ASSUME NEW k \in 1 .. n PROVE order[k] \in places /\ rank[order[k]] = k
    OBVIOUS
  <2>1. \A i \in places : ahead[i] \in Int /\ rank[i] = ahead[i] + 1
    <3> TAKE i \in places
    <3>1. AheadOf(places, keys, i) \in SUBSET places /\ ahead[i] = Cardinality(AheadOf(places, keys, i))
      BY DEF AheadOf
    <3>2. ahead[i] \in Nat
      BY <3>1, FS_Subset, FS_CardinalityType
    <3> QED BY <1>0, <3>1, <3>2
  <2> HIDE DEF ahead, rank, order
  <2>2. PICK i \in places : ahead[i] = k - 1
    BY <1>1, <1>8, <2>1
  <2>3. order[k] = CHOOSE j \in places : ahead[j] = k - 1
    BY <1>9
  <2>4. order[k] \in places /\ ahead[order[k]] = k - 1
    BY <2>2, <2>3
  <2> QED BY <1>1, <2>1, <2>4
<1>12. order \in [1 .. n -> places]
  BY <1>9, <1>10
<1> HIDE DEF order, rank, n, ahead
<1>11. \A i \in places : order[rank[i]] = i
  BY <1>2, <1>4, <1>10
<1>13. order \in Bijection(1 .. n, places)
  <2>1. \A a, b \in 1 .. n : order[a] = order[b] => a = b
    BY <1>10
  <2>2. \A i \in places : \E k \in 1 .. n : order[k] = i
    BY <1>2, <1>11
  <2> QED BY <1>12, <2>1, <2>2 DEF Bijection, Injection, Surjection, IsInjective
<1>14. \A a, b \in 1 .. n : a < b => Ahead(keys, order[a], order[b])
  <2> SUFFICES ASSUME NEW a \in 1 .. n, NEW b \in 1 .. n, a < b, ~ Ahead(keys, order[a], order[b]) PROVE FALSE
    OBVIOUS
  <2>1. order[a] = order[b] \/ Ahead(keys, order[b], order[a])
    BY <1>10 DEF Ordered
  <2>2. order[a] # order[b]
    BY <1>1, <1>10
  <2>3. rank[order[b]] < rank[order[a]]
    BY <1>3, <1>10, <2>1, <2>2
  <2> QED BY <1>1, <1>10, <2>3
<1>15. \A i \in places : order[Cardinality(AheadOf(places, keys, i)) + 1] = i
  BY <1>0, <1>11
<1> QED BY <1>1, <1>13, <1>14, <1>15 DEF n, order
-----------------------------------------------------------------------------
(* Sorting a list by a key: key maps its elements to tuples of one length. *)
Keying(S, key, m) == m \in Nat /\ key \in [S -> [1 .. m -> Int]]
ByKey(s, key) == SortedBy(s, [i \in DOMAIN s |-> key[s[i]]])
Ascends(v, key) == \A a, b \in DOMAIN v : a < b => ~ Precedes(key[v[b]], key[v[a]])
Rearranged(u, v) ==
  /\ DOMAIN v = DOMAIN u
  /\ \E p \in Bijection(DOMAIN u, DOMAIN u) : v = [i \in DOMAIN u |-> u[p[i]]]

LEMMA RearrangedBack ==
  ASSUME NEW S, NEW u \in Seq(S), NEW v, Rearranged(u, v)
  PROVE  /\ Rearranged(v, u) /\ v \in Seq(S) /\ Len(v) = Len(u)
         /\ \A i \in DOMAIN u : \E j \in DOMAIN u : v[j] = u[i]
         /\ \A i \in DOMAIN v : \E j \in DOMAIN u : u[j] = v[i]
<1> DEFINE D == DOMAIN u
<1>1. PICK p \in Bijection(D, D) : v = [i \in D |-> u[p[i]]]
  BY DEF Rearranged
<1>2. /\ p \in [D -> D]
      /\ \A i, j \in D : p[i] = p[j] => i = j
      /\ \A i \in D : \E j \in D : p[j] = i
  BY DEF Bijection, Injection, Surjection, IsInjective
<1> DEFINE q == [i \in D |-> CHOOSE j \in D : p[j] = i]
<1>3. D = 1 .. Len(u) /\ Len(u) \in Nat /\ \A i \in D : u[i] \in S
  OBVIOUS
<1>4. v \in Seq(S) /\ Len(v) = Len(u) /\ DOMAIN v = D
  BY <1>1, <1>2, <1>3
<1>5. \A i \in D : q[i] \in D /\ p[q[i]] = i
  BY <1>2
<1> HIDE DEF q, D
<1>6. q \in [D -> D]
  BY <1>5 DEF q
<1>7. q \in Bijection(D, D)
  <2>1. \A i, j \in D : q[i] = q[j] => i = j
    BY <1>5
  <2>2. \A i \in D : q[p[i]] = i
    BY <1>2, <1>5
  <2> QED BY <1>2, <1>6, <2>1, <2>2 DEF Bijection, Injection, Surjection, IsInjective
<1>8. u = [i \in D |-> v[q[i]]]
  <2>1. \A i \in D : v[q[i]] = u[i]
    BY <1>1, <1>5
  <2> QED BY <1>3, <2>1 DEF D
<1>9. Rearranged(v, u)
  BY <1>4, <1>7, <1>8 DEF Rearranged, D
<1>10. /\ \A i \in D : \E j \in D : v[j] = u[i]
       /\ \A i \in D : \E j \in D : u[j] = v[i]
  BY <1>1, <1>2, <1>5
<1> QED BY <1>4, <1>9, <1>10 DEF D

LEMMA RearrangedAgain ==
  ASSUME NEW u, NEW v, NEW w, Rearranged(u, v), Rearranged(v, w)
  PROVE  Rearranged(u, w)
<1> DEFINE D == DOMAIN u
<1>1. DOMAIN v = D /\ DOMAIN w = D
  BY DEF Rearranged
<1>2. PICK p \in Bijection(D, D) : v = [i \in D |-> u[p[i]]]
  BY DEF Rearranged
<1>3. PICK q \in Bijection(D, D) : w = [i \in D |-> v[q[i]]]
  BY <1>1 DEF Rearranged
<1>4. [i \in D |-> p[q[i]]] \in Bijection(D, D)
  BY Fun_BijTransitive
<1>5. w = [i \in D |-> u[[j \in D |-> p[q[j]]][i]]]
  <2>1. \A i \in D : q[i] \in D
    BY <1>3 DEF Bijection, Injection
  <2> QED BY <1>2, <1>3, <2>1
<1> QED BY <1>1, <1>4, <1>5 DEF Rearranged

LEMMA Sorting ==
  ASSUME NEW S, NEW s \in Seq(S), NEW m, NEW key, Keying(S, key, m)
  PROVE  /\ Rearranged(s, ByKey(s, key))
         /\ Ascends(ByKey(s, key), key)
         /\ Ascends(s, key) => ByKey(s, key) = s
<1> DEFINE n == Len(s)
           D == DOMAIN s
           keys == [i \in D |-> key[s[i]]]
           order == Arranged(D, keys)
           v == ByKey(s, key)
<1>1. n \in Nat /\ D = 1 .. n /\ D \subseteq Int /\ s = [i \in D |-> s[i]] /\ \A i \in D : s[i] \in S
  OBVIOUS
<1>2. m \in Nat /\ keys \in [D -> [1 .. m -> Int]]
  BY DEF Keying
<1>3. IsFiniteSet(D) /\ Cardinality(D) = n
  BY <1>1, FS_Interval
<1>4. Ordered(D, keys)
  BY <1>1, <1>2, KeysOrder
<1>5. /\ order \in Bijection(D, D)
      /\ \A a, b \in D : a < b => Ahead(keys, order[a], order[b])
      /\ \A i \in D : order[Cardinality(AheadOf(D, keys, i)) + 1] = i
  BY <1>1, <1>3, <1>4, Arrangement
<1>6. order \in [D -> D] /\ DOMAIN order = D
  BY <1>5 DEF Bijection, Injection
<1>7. v = [i \in D |-> s[order[i]]]
  BY <1>6 DEF ByKey, SortedBy, Picked
<1> HIDE DEF n, D, order, v
<1>8. Rearranged(s, v)
  <2>1. DOMAIN v = D
    BY <1>7
  <2> QED BY <1>5, <1>7, <2>1 DEF Rearranged, D
<1>9. Ascends(v, key)
  <2> SUFFICES ASSUME NEW a \in D, NEW b \in D, a < b PROVE ~ Precedes(key[v[b]], key[v[a]])
    BY <1>7 DEF Ascends
  <2>1. Ahead(keys, order[a], order[b])
    BY <1>5
  <2>2. keys[order[a]] = key[v[a]] /\ keys[order[b]] = key[v[b]]
    BY <1>6, <1>7
  <2>3. keys[order[a]] \in [1 .. m -> Int] /\ keys[order[b]] \in [1 .. m -> Int]
    BY <1>2, <1>6
  <2>4. ~ (Precedes(keys[order[a]], keys[order[b]]) /\ Precedes(keys[order[b]], keys[order[a]]))
        /\ ~ Precedes(keys[order[a]], keys[order[a]])
    BY <1>2, <2>3, PrecedesIsStrict
  <2> HIDE DEF keys
  <2> QED BY <2>1, <2>2, <2>4 DEF Ahead
<1>10. ASSUME Ascends(s, key) PROVE v = s
  <2>1. ASSUME NEW i \in D, NEW j \in D PROVE Ahead(keys, j, i) <=> j < i
    <3>1. keys[i] = key[s[i]] /\ keys[j] = key[s[j]] /\ keys[i] \in [1 .. m -> Int] /\ keys[j] \in [1 .. m -> Int]
      BY <1>2
    <3>2. j < i => ~ Precedes(keys[i], keys[j])
      BY <1>10, <3>1 DEF Ascends, D
    <3>3. i < j => ~ Precedes(keys[j], keys[i])
      BY <1>10, <3>1 DEF Ascends, D
    <3>4. keys[i] = keys[j] \/ Precedes(keys[i], keys[j]) \/ Precedes(keys[j], keys[i])
      BY <1>2, <3>1, PrecedesIsTotal
    <3>5. ~ Precedes(keys[i], keys[i])
      BY <1>2, <3>1, PrecedesIsStrict
    <3> HIDE DEF keys
    <3> QED BY <1>1, <3>2, <3>3, <3>4, <3>5 DEF Ahead
  <2>2. ASSUME NEW i \in D PROVE order[i] = i
    <3>1. AheadOf(D, keys, i) = 1 .. i - 1
      BY <1>1, <2>1 DEF AheadOf
    <3>2. Cardinality(1 .. i - 1) = i - 1
      BY <1>1, FS_Interval
    <3> QED BY <1>1, <1>5, <3>1, <3>2
  <2> QED BY <1>1, <1>7, <2>2
<1> QED BY <1>8, <1>9, <1>10 DEF v

(* No rearrangement brings the first k elements before place k.            *)
LEMMA OneReaches ==
  ASSUME NEW n \in Nat, NEW p \in Bijection(1 .. n, 1 .. n), NEW k \in 1 .. n
  PROVE  \E j \in 1 .. k : p[j] >= k
<1> SUFFICES ASSUME \A j \in 1 .. k : ~ (p[j] >= k) PROVE FALSE
  OBVIOUS
<1>1. p \in [1 .. n -> 1 .. n] /\ \A i, j \in 1 .. n : p[i] = p[j] => i = j
  BY DEF Bijection, Injection, IsInjective
<1> DEFINE f == [j \in 1 .. k |-> p[j]]
<1>2. f \in [1 .. k -> 1 .. k - 1]
  BY <1>1
<1>3. IsFiniteSet(1 .. k) /\ Cardinality(1 .. k) = k
  BY FS_Interval
<1>4. IsFiniteSet(1 .. k - 1) /\ Cardinality(1 .. k - 1) = k - 1
  BY FS_Interval
<1>5. PICK x, y \in 1 .. k : x # y /\ f[x] = f[y]
  <2> HIDE DEF f
  <2>1. Cardinality(1 .. k - 1) < Cardinality(1 .. k)
    BY <1>3, <1>4
  <2> QED BY <1>2, <1>3, <1>4, <2>1, FS_PigeonHole
<1> QED BY <1>1, <1>5

(* Two lists in order, each a rearrangement of the other, hold at no place *)
(* the earlier key first.                                                  *)
LEMMA NoneEarlier ==
  ASSUME NEW S, NEW u \in Seq(S), NEW v \in Seq(S), NEW m, NEW key, Keying(S, key, m),
         Rearranged(u, v), Ascends(u, key), Ascends(v, key), NEW k \in DOMAIN u
  PROVE  ~ Precedes(key[v[k]], key[u[k]])
<1> DEFINE n == Len(u)
<1>1. n \in Nat /\ DOMAIN u = 1 .. n /\ DOMAIN v = 1 .. n /\ k \in 1 .. n
  BY DEF Rearranged
<1>2. PICK p \in Bijection(1 .. n, 1 .. n) : v = [i \in 1 .. n |-> u[p[i]]]
  BY <1>1 DEF Rearranged
<1>3. PICK j \in 1 .. k : p[j] >= k
  BY <1>1, <1>2, OneReaches
<1>4. p[j] \in 1 .. n /\ j \in 1 .. n
  BY <1>1, <1>2 DEF Bijection, Injection
<1>5. v[j] = u[p[j]]
  BY <1>2, <1>4
<1>6. ~ Precedes(key[v[k]], key[v[j]]) \/ j = k
  BY <1>1, <1>4 DEF Ascends
<1>7. ~ Precedes(key[u[p[j]]], key[u[k]]) \/ p[j] = k
  BY <1>1, <1>3, <1>4 DEF Ascends
<1>8. /\ m \in Nat /\ key[v[k]] \in [1 .. m -> Int] /\ key[v[j]] \in [1 .. m -> Int] /\ key[u[k]] \in [1 .. m -> Int]
  BY <1>1, <1>4 DEF Keying
<1>9. ~ Precedes(key[v[k]], key[v[k]]) /\ ~ Precedes(key[u[k]], key[u[k]])
  BY <1>8, PrecedesIsStrict
<1>10. ~ Precedes(key[v[k]], key[v[j]]) /\ ~ Precedes(key[v[j]], key[u[k]])
  BY <1>5, <1>6, <1>7, <1>9
<1>11. key[v[j]] = key[v[k]] \/ Precedes(key[v[j]], key[v[k]])
  BY <1>8, <1>10, PrecedesIsTotal
<1>12. Precedes(key[v[j]], key[v[k]]) /\ Precedes(key[v[k]], key[u[k]]) => Precedes(key[v[j]], key[u[k]])
  BY <1>8, PrecedesIsTransitive
<1> QED BY <1>10, <1>11, <1>12

(* What sorting gives does not depend on the order things came in.         *)
LEMMA SortingAnyArrival ==
  ASSUME NEW S, NEW s \in Seq(S), NEW t, Rearranged(s, t), NEW m, NEW key, Keying(S, key, m),
         \A i, j \in DOMAIN s : key[s[i]] = key[s[j]] => s[i] = s[j]
  PROVE  ByKey(t, key) = ByKey(s, key)
<1> DEFINE u == ByKey(s, key)
           v == ByKey(t, key)
<1>1. t \in Seq(S)
  BY RearrangedBack
<1>2. Rearranged(s, u) /\ Ascends(u, key)
  BY Sorting
<1>3. Rearranged(t, v) /\ Ascends(v, key)
  BY <1>1, Sorting
<1> HIDE DEF u, v
<1>4. u \in Seq(S) /\ Rearranged(u, s) /\ DOMAIN u = DOMAIN s
      /\ \A i \in DOMAIN u : \E a \in DOMAIN s : s[a] = u[i]
  <2>1. DOMAIN u = DOMAIN s
    BY <1>2 DEF Rearranged
  <2>2. u \in Seq(S) /\ Rearranged(u, s)
    BY <1>2, RearrangedBack
  <2>3. \A i \in DOMAIN u : \E a \in DOMAIN s : s[a] = u[i]
    BY <1>2, RearrangedBack
  <2> QED BY <2>1, <2>2, <2>3
<1>5. Rearranged(u, v)
  BY <1>2, <1>3, <1>4, RearrangedAgain
<1>6. v \in Seq(S) /\ Rearranged(v, u) /\ DOMAIN v = DOMAIN u /\ Len(v) = Len(u)
      /\ \A i \in DOMAIN v : \E a \in DOMAIN u : u[a] = v[i]
  <2>1. DOMAIN v = DOMAIN u
    BY <1>5 DEF Rearranged
  <2> QED BY <1>4, <1>5, <2>1, RearrangedBack
<1>7. \A k \in DOMAIN u : u[k] = v[k]
  <2> SUFFICES ASSUME NEW k \in DOMAIN u PROVE u[k] = v[k]
    OBVIOUS
  <2>1. ~ Precedes(key[v[k]], key[u[k]])
    BY <1>2, <1>3, <1>4, <1>5, <1>6, NoneEarlier
  <2>2. ~ Precedes(key[u[k]], key[v[k]])
    BY <1>2, <1>3, <1>4, <1>6, NoneEarlier
  <2>3. m \in Nat /\ key[u[k]] \in [1 .. m -> Int] /\ key[v[k]] \in [1 .. m -> Int]
    <3>1. u[k] \in S /\ v[k] \in S
      BY <1>4, <1>6
    <3> QED BY <3>1 DEF Keying
  <2>4. key[u[k]] = key[v[k]]
    BY <2>1, <2>2, <2>3, PrecedesIsTotal
  <2>5. PICK a \in DOMAIN s : s[a] = u[k]
    BY <1>4
  <2>6. PICK b \in DOMAIN s : s[b] = v[k]
    BY <1>4, <1>6
  <2> QED BY <2>4, <2>5, <2>6
<1>8. u = v
  <2>1. u = [i \in DOMAIN u |-> u[i]] /\ v = [i \in DOMAIN v |-> v[i]]
    BY <1>4, <1>6
  <2> QED BY <1>6, <1>7, <2>1
<1> QED BY <1>8 DEF u, v

-----------------------------------------------------------------------------
(* The elements at chosen places, as they come in the list.                *)
LEMMA Selection ==
  ASSUME NEW S, NEW s \in Seq(S), NEW P, P \subseteq DOMAIN s
  PROVE  \E n \in Nat : \E at \in Bijection(1 .. n, P) :
           /\ Selected(s, P) = [k \in 1 .. n |-> s[at[k]]]
           /\ \A a, b \in 1 .. n : a < b => at[a] < at[b]
           /\ P = DOMAIN s => Selected(s, P) = s
<1> DEFINE keys == [i \in P |-> << >>]
           n == Cardinality(P)
           at == Arranged(P, keys)
<1>1. P \subseteq Int /\ keys \in [P -> [1 .. 0 -> Int]]
  OBVIOUS
<1>2. IsFiniteSet(P) /\ n \in Nat
  <2>1. IsFiniteSet(DOMAIN s)
    <3>1. DOMAIN s = 1 .. Len(s) /\ Len(s) \in Int
      OBVIOUS
    <3> QED BY <3>1, FS_Interval
  <2> QED BY <2>1, FS_Subset, FS_CardinalityType
<1>3. Ordered(P, keys)
  BY <1>1, KeysOrder
<1>4. \A i, j \in P : Ahead(keys, j, i) <=> j < i
  <2>1. ~ Precedes(<< >>, << >>)
    BY DEF Precedes
  <2> QED BY <2>1 DEF Ahead
<1>5. /\ at \in Bijection(1 .. n, P)
      /\ \A a, b \in 1 .. n : a < b => Ahead(keys, at[a], at[b])
      /\ \A i \in P : at[Cardinality(AheadOf(P, keys, i)) + 1] = i
  BY <1>2, <1>3, Arrangement
<1>6. at \in [1 .. n -> P] /\ DOMAIN at = 1 .. n
  BY <1>5 DEF Bijection, Injection
<1>7. Selected(s, P) = [k \in 1 .. n |-> s[at[k]]]
  BY <1>6 DEF Selected, Picked, Rising
<1> HIDE DEF at, n
<1>8. \A a, b \in 1 .. n : a < b => at[a] < at[b]
  <2> HIDE DEF keys
  <2> QED BY <1>4, <1>5, <1>6
<1>9. ASSUME P = DOMAIN s PROVE Selected(s, P) = s
  <2>1. P = 1 .. Len(s) /\ n = Len(s) /\ Len(s) \in Nat
    <3>1. P = 1 .. Len(s) /\ Len(s) \in Nat /\ Len(s) \in Int
      BY <1>9
    <3>2. Cardinality(1 .. Len(s)) = IF 1 > Len(s) THEN 0 ELSE Len(s) - 1 + 1
      BY <3>1, 1 \in Int, FS_Interval
    <3> QED BY <3>1, <3>2 DEF n
  <2>2. ASSUME NEW i \in P PROVE at[i] = i
    <3>1. AheadOf(P, keys, i) = 1 .. i - 1
      BY <1>4, <2>1 DEF AheadOf
    <3>2. Cardinality(1 .. i - 1) = i - 1 /\ i \in Int
      <4>1. i \in Nat /\ i > 0 /\ i - 1 \in Int /\ 1 \in Int
        BY <2>1
      <4>2. Cardinality(1 .. i - 1) = IF 1 > i - 1 THEN 0 ELSE (i - 1) - 1 + 1
        BY <4>1, FS_Interval
      <4> QED BY <4>1, <4>2
    <3>3. at[(i - 1) + 1] = i
      BY <1>5, <3>1, <3>2
    <3> QED BY <3>2, <3>3
  <2> QED BY <1>7, <2>1, <2>2
<1> QED BY <1>2, <1>5, <1>7, <1>8, <1>9

(* The elements of a set, each where it comes first.                       *)
FirstsIn(s, T) == {i \in Firsts(s) : s[i] \in T}

LEMMA FirstsSelected ==
  ASSUME NEW S, NEW s \in Seq(S), NEW T
  PROVE  LET v == Selected(s, FirstsIn(s, T))
         IN  /\ v \in Seq(S)
             /\ ToSet(v) = ToSet(s) \intersect T
             /\ \A i, j \in DOMAIN v : i < j => Position(s, v[i]) < Position(s, v[j])
             /\ \A i, j \in DOMAIN v : v[i] = v[j] => i = j
             /\ \A key : Ascends(s, key) => Ascends(v, key)
             /\ ToSet(s) \subseteq T /\ (\A i, j \in DOMAIN s : s[i] = s[j] => i = j) => v = s
<1> DEFINE P == FirstsIn(s, T)
           v == Selected(s, P)
<1>1. P \subseteq DOMAIN s /\ DOMAIN s = 1 .. Len(s) /\ Len(s) \in Nat
  BY DEF Firsts, FirstsIn
<1> HIDE DEF P
<1>2a. PICK n \in Nat : \E at \in Bijection(1 .. n, P) :
        /\ v = [k \in 1 .. n |-> s[at[k]]]
        /\ \A a, b \in 1 .. n : a < b => at[a] < at[b]
        /\ P = DOMAIN s => v = s
  BY <1>1, Selection
<1>2. PICK at \in Bijection(1 .. n, P) :
        /\ v = [k \in 1 .. n |-> s[at[k]]]
        /\ \A a, b \in 1 .. n : a < b => at[a] < at[b]
        /\ P = DOMAIN s => v = s
  BY <1>2a
<1> HIDE DEF v
<1>3. at \in [1 .. n -> P] /\ \A i \in P : \E k \in 1 .. n : at[k] = i
  BY <1>2 DEF Bijection, Injection, Surjection
<1>4. DOMAIN v = 1 .. n /\ \A k \in 1 .. n : v[k] = s[at[k]] /\ at[k] \in DOMAIN s
  BY <1>1, <1>2, <1>3
<1>5. v \in Seq(S)
  BY <1>2, <1>4
<1>6. \A i \in P : Position(s, s[i]) = i
  <2> SUFFICES ASSUME NEW i \in P PROVE Position(s, s[i]) = i
    OBVIOUS
  <2>1. i \in DOMAIN s /\ \A j \in 1 .. i - 1 : s[j] # s[i]
    BY DEF P, Firsts, FirstsIn
  <2>2. \A k \in DOMAIN s : s[k] = s[i] /\ (\A j \in 1 .. k - 1 : s[j] # s[i]) => k = i
    <3> SUFFICES ASSUME NEW k \in DOMAIN s, s[k] = s[i], \A j \in 1 .. k - 1 : s[j] # s[i] PROVE k = i
      OBVIOUS
    <3>1. k \in Int /\ i \in Int /\ 1 <= k /\ 1 <= i
      BY <1>1, <2>1
    <3>2. ~ (k < i) /\ ~ (i < k)
      BY <2>1, <3>1
    <3> QED BY <3>1, <3>2
  <2> QED BY <2>1, <2>2 DEF Position
<1>7. \A i, j \in DOMAIN v : i < j => Position(s, v[i]) < Position(s, v[j])
  BY <1>2, <1>3, <1>4, <1>6
<1>8. \A i, j \in DOMAIN v : v[i] = v[j] => i = j
  <2> SUFFICES ASSUME NEW i \in DOMAIN v, NEW j \in DOMAIN v, v[i] = v[j], i < j PROVE FALSE
    BY <1>4
  <2>1. at[i] < at[j] /\ at[i] = at[j] /\ at[i] \in Int
    BY <1>1, <1>2, <1>3, <1>4, <1>6
  <2> QED BY <2>1
<1>9. ToSet(v) = ToSet(s) \intersect T
  <2>1. ASSUME NEW k \in DOMAIN v PROVE v[k] \in ToSet(s) \intersect T
    <3>1. at[k] \in P /\ v[k] = s[at[k]]
      BY <1>3, <1>4
    <3> QED BY <1>1, <3>1 DEF P, FirstsIn, ToSet
  <2>2. ASSUME NEW a \in DOMAIN s, s[a] \in T PROVE s[a] \in ToSet(v)
    <3> DEFINE same == {i \in DOMAIN s : s[i] = s[a]}
    <3>1. same # {} /\ same \subseteq Nat
      BY <1>1
    <3>2. PICK i \in same : \A j \in same : i <= j
      BY <3>1, LeastMember
    <3>3. \A j \in 1 .. i - 1 : s[j] # s[i]
      BY <1>1, <3>2
    <3>4. i \in P
      BY <2>2, <3>3 DEF P, Firsts, FirstsIn
    <3>5. PICK k \in 1 .. n : at[k] = i
      BY <1>3, <3>4
    <3>6. v[k] = s[a]
      BY <1>4, <3>5
    <3> QED BY <1>4, <3>6 DEF ToSet
  <2> QED BY <2>1, <2>2 DEF ToSet
<1>10. ASSUME NEW key, Ascends(s, key) PROVE Ascends(v, key)
  BY <1>2, <1>4, <1>10 DEF Ascends
<1>11. ASSUME ToSet(s) \subseteq T, \A i, j \in DOMAIN s : s[i] = s[j] => i = j PROVE v = s
  <2>1. P = DOMAIN s
    BY <1>1, <1>11 DEF P, Firsts, FirstsIn, ToSet
  <2> QED BY <1>2, <2>1
<1> QED BY <1>5, <1>7, <1>8, <1>9, <1>10, <1>11 DEF v, P

-----------------------------------------------------------------------------
(* What Order leaves of an array.                                          *)
KeyOf(array, S) == [e \in S |-> SortKey(array, e)]

LEMMA SortKeyIs ==
  ASSUME NEW array, NEW e
  PROVE  SortKey(array, e) = Identity(array, e)
BY DEF SortKey, Identity, WithEncoding, CompareFindings, CompareEvaluations, Unary

LEMMA KeyedCompares ==
  ASSUME NEW array, NEW list, Keyed(array, list), NEW e \in ToSet(list), NEW f \in ToSet(list)
  PROVE  /\ SortKey(array, e) \in Seq(Int) /\ Len(SortKey(array, e)) = Len(SortKey(array, f))
         /\ SortKey(array, e) = SortKey(array, f) => e = f \/ array \in ById
BY SortKeyIs DEF Keyed

LEMMA KeyedSorts ==
  ASSUME NEW array, NEW list, Keyed(array, list)
  PROVE  /\ list \in Seq(ToSet(list))
         /\ \E m : Keying(ToSet(list), KeyOf(array, ToSet(list)), m)
         /\ \A t \in Seq(ToSet(list)) : Sorted(array, t) = ByKey(t, KeyOf(array, ToSet(list)))
<1> DEFINE S == ToSet(list)
           key == KeyOf(array, S)
<1>1. list \in Seq(S)
  BY DEF Keyed, IsList
<1>2. \E m : Keying(S, key, m)
  <2>1. CASE S = {}
    <3>1. key \in [S -> [1 .. 0 -> Int]]
      BY <2>1 DEF KeyOf
    <3> QED BY <3>1 DEF Keying
  <2>2. CASE S # {}
    <3>1. PICK e \in S : TRUE
      BY <2>2
    <3>2. \A f \in S : SortKey(array, f) \in Seq(Int) /\ Len(SortKey(array, f)) = Len(SortKey(array, e))
      BY <3>1, KeyedCompares
    <3>3. \A f \in S : SortKey(array, f) \in [1 .. Len(SortKey(array, e)) -> Int]
      <4> TAKE f \in S
      <4>1. SortKey(array, f) \in [1 .. Len(SortKey(array, f)) -> Int]
        BY <3>2
      <4> QED BY <3>2, <4>1
    <3>4. Len(SortKey(array, e)) \in Nat
      BY <3>1, <3>2
    <3> HIDE DEF S
    <3> QED BY <3>3, <3>4 DEF Keying, KeyOf
  <2> QED BY <2>1, <2>2
<1>3. ASSUME NEW t \in Seq(S) PROVE Sorted(array, t) = ByKey(t, key)
  <2>1. Sorted(array, t) = SortedBy(t, [i \in DOMAIN t |-> SortKey(array, t[i])])
    BY DEF Sorted, SortOn
  <2>2. \A i \in DOMAIN t : t[i] \in S
    OBVIOUS
  <2>3. [i \in DOMAIN t |-> SortKey(array, t[i])] = [i \in DOMAIN t |-> key[t[i]]]
    BY <2>2 DEF KeyOf
  <2> QED BY <2>1, <2>3 DEF ByKey
<1> QED BY <1>1, <1>2, <1>3

LEMMA CanonicalKeeps ==
  ASSUME NEW array \in Arrays, array # "mergedFrom", NEW list, Keyed(array, list)
  PROVE  /\ Canonical(array, list) \in Seq(ToSet(list))
         /\ Canonical(array, Canonical(array, list)) = Canonical(array, list)
         /\ \A t : /\ Rearranged(list, t)
                   /\ \A i, j \in DOMAIN list : SortKey(array, list[i]) = SortKey(array, list[j]) => list[i] = list[j]
                   => Canonical(array, t) = Canonical(array, list)
<1> DEFINE S == ToSet(list)
           key == KeyOf(array, S)
           v == ByKey(list, key)
           Kept(s) == IF array \in Listed \union {"languages"} THEN Once(s) ELSE s
<1>1. list \in Seq(S) /\ \A t \in Seq(S) : Sorted(array, t) = ByKey(t, key)
  BY KeyedSorts
<1>2. PICK m : Keying(S, key, m)
  BY KeyedSorts
<1>3. \A s : Canonical(array, s) = Kept(Sorted(array, s))
  BY DEF Canonical
<1>a. \A i \in DOMAIN list : list[i] \in S /\ key[list[i]] = SortKey(array, list[i])
  BY DEF ToSet, KeyOf
<1> HIDE DEF S, key, v, Kept
<1>4. v \in Seq(S) /\ Ascends(v, key) /\ Rearranged(list, v)
  <2>1. Rearranged(list, v) /\ Ascends(v, key)
    BY <1>1, <1>2, Sorting DEF v
  <2> QED BY <1>1, <2>1, RearrangedBack
<1>5. /\ Kept(v) \in Seq(S) /\ Ascends(Kept(v), key) /\ Kept(Kept(v)) = Kept(v)
  <2>1. ASSUME NEW s \in Seq(S)
        PROVE  /\ Once(s) \in Seq(S)
               /\ \A i, j \in DOMAIN Once(s) : Once(s)[i] = Once(s)[j] => i = j
               /\ Ascends(s, key) => Ascends(Once(s), key)
               /\ (\A i, j \in DOMAIN s : s[i] = s[j] => i = j) => Once(s) = s
    <3>1. \A i \in DOMAIN s : s[i] \in S
      OBVIOUS
    <3>2. FirstsIn(s, S) = Firsts(s) /\ ToSet(s) \subseteq S
      BY <3>1 DEF Firsts, FirstsIn, ToSet
    <3>3. Once(s) = Selected(s, FirstsIn(s, S))
      BY <3>2 DEF Once
    <3> DEFINE w == Selected(s, FirstsIn(s, S))
    <3>4. /\ w \in Seq(S)
          /\ \A i, j \in DOMAIN w : w[i] = w[j] => i = j
          /\ Ascends(s, key) => Ascends(w, key)
          /\ ToSet(s) \subseteq S /\ (\A i, j \in DOMAIN s : s[i] = s[j] => i = j) => w = s
      BY FirstsSelected
    <3> HIDE DEF w
    <3>5. Once(s) = w
      BY <3>3 DEF w
    <3> QED BY <3>2, <3>4, <3>5
  <2>2. CASE array \in Listed \union {"languages"}
    <3>1. \A s : Kept(s) = Once(s)
      BY <2>2 DEF Kept
    <3>2. Once(v) \in Seq(S) /\ Ascends(Once(v), key)
      BY <1>4, <2>1
    <3>3. Once(Once(v)) = Once(v)
      BY <1>4, <2>1, <3>2
    <3> QED BY <3>1, <3>2, <3>3
  <2>3. CASE array \notin Listed \union {"languages"}
    BY <1>4, <2>3 DEF Kept
  <2> QED BY <2>2, <2>3
<1>6. Canonical(array, list) = Kept(v)
  BY <1>1, <1>3 DEF v
<1>7. Canonical(array, Kept(v)) = Kept(v)
  <2>1. ByKey(Kept(v), key) = Kept(v)
    BY <1>2, <1>5, Sorting
  <2>2. Sorted(array, Kept(v)) = Kept(v)
    BY <1>1, <1>5, <2>1
  <2> QED BY <1>3, <1>5, <2>2
<1>8. ASSUME NEW t, Rearranged(list, t),
             \A i, j \in DOMAIN list : SortKey(array, list[i]) = SortKey(array, list[j]) => list[i] = list[j]
      PROVE  Canonical(array, t) = Canonical(array, list)
  <2>1. t \in Seq(S)
    BY <1>1, <1>8, RearrangedBack
  <2>2. \A i, j \in DOMAIN list : key[list[i]] = key[list[j]] => list[i] = list[j]
    BY <1>8, <1>a
  <2>3. ByKey(t, key) = v
    BY <1>1, <1>2, <1>8, <2>2, SortingAnyArrival DEF v
  <2> QED BY <1>1, <1>3, <1>6, <2>1, <2>3
<1> QED BY <1>5, <1>6, <1>7, <1>8 DEF S

(* The findings: in canonical order, the same ones.                        *)
LEMMA FindingsSorted ==
  ASSUME NEW list, Keyed("findings", list)
  PROVE  /\ Rearranged(list, Sorted("findings", list))
         /\ Ascends(Sorted("findings", list), KeyOf("findings", ToSet(list)))
<1>1. list \in Seq(ToSet(list)) /\ Sorted("findings", list) = ByKey(list, KeyOf("findings", ToSet(list)))
  BY KeyedSorts
<1>2. PICK m : Keying(ToSet(list), KeyOf("findings", ToSet(list)), m)
  BY KeyedSorts
<1> QED BY <1>1, <1>2, Sorting

-----------------------------------------------------------------------------
(* The components listing.                                                 *)
CarriedBy(evaluations) ==
  LET carrying == Selected(evaluations, {i \in DOMAIN evaluations : evaluations[i].component # 0})
  IN  [i \in DOMAIN carrying |-> carrying[i].component]

LEMMA ComponentsAsListed ==
  ASSUME NEW r, IsList(r.findings), IsList(r.evaluations)
  PROVE  /\ IsList(ComponentsNamed(r))
         /\ ToSet(ComponentsNamed(r)) = {f.component : f \in ToSet(r.findings)} \union ToSet(CarriedBy(r.evaluations))
<1> DEFINE found == [i \in DOMAIN r.findings |-> r.findings[i].component]
           carried == CarriedBy(r.evaluations)
           S == ToSet(r.evaluations)
           P == {i \in DOMAIN r.evaluations : r.evaluations[i].component # 0}
           C == ToSet(found) \union ToSet(carried)
<1>1. found \in Seq(ToSet(found)) /\ ToSet(found) = {f.component : f \in ToSet(r.findings)}
  <2>1. DOMAIN r.findings = 1 .. Len(r.findings) /\ Len(r.findings) \in Nat
    BY DEF IsList
  <2>2. \A i \in DOMAIN r.findings : found[i] \in ToSet(found)
    BY DEF ToSet
  <2>3. found \in Seq(ToSet(found))
    BY <2>1, <2>2
  <2> QED BY <2>3 DEF ToSet
<1>2. carried \in Seq(ToSet(carried))
  <2>1. r.evaluations \in Seq(S) /\ P \subseteq DOMAIN r.evaluations
    BY DEF IsList
  <2> DEFINE v == Selected(r.evaluations, P)
  <2>2. PICK n \in Nat : \E at \in Bijection(1 .. n, P) :
          /\ v = [k \in 1 .. n |-> r.evaluations[at[k]]]
          /\ \A a, b \in 1 .. n : a < b => at[a] < at[b]
          /\ P = DOMAIN r.evaluations => v = r.evaluations
    <3> HIDE DEF P, S
    <3> QED BY <2>1, Selection
  <2>3. DOMAIN v = 1 .. n
    BY <2>2
  <2>4. carried = [i \in DOMAIN v |-> v[i].component]
    BY DEF CarriedBy
  <2> HIDE DEF v
  <2>5. DOMAIN carried = 1 .. n /\ \A i \in 1 .. n : carried[i] \in ToSet(carried)
    BY <2>3, <2>4 DEF ToSet
  <2>6. carried = [i \in 1 .. n |-> carried[i]]
    BY <2>3, <2>4
  <2> HIDE DEF carried
  <2> QED BY <2>2, <2>5, <2>6
<1>3. ComponentsNamed(r) = found \o carried
  BY DEF ComponentsNamed, CarriedBy
<1> HIDE DEF found, carried
<1>4. found \o carried \in Seq(C) /\ ToSet(found \o carried) = C
  <2>1. found \in Seq(C) /\ carried \in Seq(C)
    <3>1. (\A i \in 1 .. Len(found) : found[i] \in C) /\ (\A i \in 1 .. Len(carried) : carried[i] \in C)
      BY <1>1, <1>2 DEF ToSet
    <3> QED BY <1>1, <1>2, <3>1
  <2> DEFINE both == found \o carried
  <2>2. both \in Seq(C) /\ \A i \in DOMAIN both : both[i] \in C
    BY <2>1
  <2>3. ASSUME NEW c \in C PROVE \E i \in DOMAIN both : both[i] = c
    <3>1. CASE c \in ToSet(found)
      <4>1. PICK i \in DOMAIN found : found[i] = c
        BY <3>1 DEF ToSet
      <4>2. i \in DOMAIN both /\ both[i] = c
        BY <2>1, <4>1
      <4> QED BY <4>2
    <3>2. CASE c \in ToSet(carried)
      <4>1. PICK i \in DOMAIN carried : carried[i] = c
        BY <3>2 DEF ToSet
      <4>2. Len(found) + i \in DOMAIN both /\ both[Len(found) + i] = c
        BY <2>1, <4>1
      <4> QED BY <4>2
    <3> QED BY <3>1, <3>2
  <2> HIDE DEF C, both
  <2>4. ToSet(both) = C
    BY <2>2, <2>3 DEF ToSet
  <2> QED BY <2>2, <2>4 DEF both
<1> QED BY <1>1, <1>3, <1>4 DEF IsList, carried

(* The listing of named components that have members.                      *)
ListedFrom(named, members) ==
  LET listed == Selected(named, FirstsIn(named, DOMAIN members))
  IN  [i \in DOMAIN listed |-> [id |-> listed[i], members |-> members[listed[i]]]]

LEMMA ListingOf ==
  ASSUME NEW r, NEW members
  PROVE  Listing(r, members) = ListedFrom(ComponentsNamed(r), members)
BY DEF Listing, ListedFrom, FirstsIn

LEMMA ListingHolds ==
  ASSUME NEW named, IsList(named), NEW members
  PROVE  LET listed == ListedFrom(named, members)
         IN  /\ \E n \in Nat : DOMAIN listed = 1 .. n /\ Len(listed) = n
             /\ \A i \in DOMAIN listed : listed[i].id \in DOMAIN members /\ listed[i].members = members[listed[i].id]
             /\ {listed[i].id : i \in DOMAIN listed} = ToSet(named) \intersect DOMAIN members
             /\ \A i, j \in DOMAIN listed : i < j => Position(named, listed[i].id) < Position(named, listed[j].id)
             /\ \A i, j \in DOMAIN listed : listed[i].id = listed[j].id => i = j
<1> DEFINE v == Selected(named, FirstsIn(named, DOMAIN members))
           listed == ListedFrom(named, members)
<1>1. /\ v \in Seq(ToSet(named))
      /\ ToSet(v) = ToSet(named) \intersect DOMAIN members
      /\ \A i, j \in DOMAIN v : i < j => Position(named, v[i]) < Position(named, v[j])
      /\ \A i, j \in DOMAIN v : v[i] = v[j] => i = j
  BY FirstsSelected DEF IsList
<1>2. listed = [i \in DOMAIN v |-> [id |-> v[i], members |-> members[v[i]]]]
  BY DEF ListedFrom
<1> HIDE DEF v, listed
<1>3. DOMAIN listed = DOMAIN v /\ \A i \in DOMAIN v : listed[i].id = v[i] /\ listed[i].members = members[v[i]]
  BY <1>2
<1>4. DOMAIN v = 1 .. Len(v) /\ Len(v) \in Nat
  BY <1>1
<1>5. {listed[i].id : i \in DOMAIN listed} = ToSet(v)
  BY <1>3 DEF ToSet
<1>6. \A i \in DOMAIN v : v[i] \in DOMAIN members
  BY <1>1 DEF ToSet
<1>7. Len(listed) = Len(v)
  BY <1>2, <1>4
<1>8. \E n \in Nat : DOMAIN listed = 1 .. n /\ Len(listed) = n
  BY <1>3, <1>4, <1>7
<1>9. \A i \in DOMAIN listed : listed[i].id \in DOMAIN members /\ listed[i].members = members[listed[i].id]
  BY <1>3, <1>6
<1>10. {listed[i].id : i \in DOMAIN listed} = ToSet(named) \intersect DOMAIN members
  BY <1>1, <1>5
<1>11. \A i, j \in DOMAIN listed : i < j => Position(named, listed[i].id) < Position(named, listed[j].id)
  BY <1>1, <1>3
<1>12. \A i, j \in DOMAIN listed : listed[i].id = listed[j].id => i = j
  BY <1>1, <1>3
<1> QED BY <1>8, <1>9, <1>10, <1>11, <1>12 DEF listed

(* A listing read back, over what is still named, lists as it did.         *)
LEMMA ListedAgain ==
  ASSUME NEW r, NEW named, IsList(named), NEW members, r.components = ListedFrom(named, members),
         NEW left, IsList(left), ToSet(left) \subseteq ToSet(named)
  PROVE  ListedFrom(left, MembersOf(r)) = ListedFrom(left, members)
<1> DEFINE listed == ListedFrom(named, members)
           read == MembersOf(r)
<1>1. PICK n \in Nat : DOMAIN listed = 1 .. n /\ Len(listed) = n
  BY ListingHolds
<1>2. /\ \A i \in DOMAIN listed : listed[i].id \in DOMAIN members /\ listed[i].members = members[listed[i].id]
      /\ {listed[i].id : i \in DOMAIN listed} = ToSet(named) \intersect DOMAIN members
      /\ \A i, j \in DOMAIN listed : listed[i].id = listed[j].id => i = j
  BY ListingHolds
<1> HIDE DEF listed
<1>3. r.components = listed
  BY DEF listed
<1>4. read = [c \in {listed[i].id : i \in DOMAIN listed} |->
                listed[SelectLastInSeq(listed, LAMBDA e : e.id = c)].members]
  BY <1>3 DEF MembersOf
<1>5. ASSUME NEW i \in DOMAIN listed
      PROVE  SelectLastInSeq(listed, LAMBDA e : e.id = listed[i].id) = i
  <2> DEFINE I == {j \in 1 .. Len(listed) : listed[j].id = listed[i].id}
  <2>1. I = {i}
    BY <1>1, <1>2
  <2>2. SelectLastInSeq(listed, LAMBDA e : e.id = listed[i].id) = IF I # {} THEN Max(I) ELSE 0
    BY DEF SelectLastInSeq
  <2> HIDE DEF I
  <2>3. Max(I) = i
    BY <1>1, <2>1 DEF Max
  <2> QED BY <2>1, <2>2, <2>3
<1>6. ASSUME NEW i \in DOMAIN listed PROVE read[listed[i].id] = members[listed[i].id]
  BY <1>2, <1>4, <1>5
<1>7. DOMAIN read = ToSet(named) \intersect DOMAIN members
  BY <1>2, <1>4
<1>8. \A c \in DOMAIN read : read[c] = members[c]
  BY <1>2, <1>6, <1>7
<1> HIDE DEF read
<1>9. FirstsIn(left, DOMAIN read) = FirstsIn(left, DOMAIN members)
  BY <1>7 DEF FirstsIn, Firsts, ToSet
<1> DEFINE v == Selected(left, FirstsIn(left, DOMAIN read))
<1>10. ToSet(v) = ToSet(left) \intersect DOMAIN read
  BY FirstsSelected DEF IsList
<1>11. \A i \in DOMAIN v : v[i] \in DOMAIN read
  BY <1>10 DEF ToSet
<1>12. /\ ListedFrom(left, read) = [i \in DOMAIN v |-> [id |-> v[i], members |-> read[v[i]]]]
       /\ ListedFrom(left, members) = [i \in DOMAIN v |-> [id |-> v[i], members |-> members[v[i]]]]
  BY <1>9 DEF ListedFrom
<1> HIDE DEF v
<1>13. ListedFrom(left, read) = ListedFrom(left, members)
  BY <1>8, <1>11, <1>12
<1> QED BY <1>13 DEF read

-----------------------------------------------------------------------------
(* Reports in canonical order, with the listing of what they name.         *)
Shaped(r) ==
  /\ Arrays \union {"components", "totals"} \subseteq DOMAIN r
  /\ r = [member \in DOMAIN r |-> r[member]]
InPlace(r) == \A array \in Arrays : Canonical(array, r[array]) = r[array]
Whole(r) ==
  /\ Keyed("findings", r.findings) /\ IsList(r.evaluations)
  /\ \A f \in ToSet(r.findings) : Measured(f)
ListedWith(r, members) == r.components = None \/ r.components = ListedFrom(ComponentsNamed(r), members)

LEMMA NoArray == {"components", "totals", "members", "uncounted", "declared"} \intersect Arrays = {}
BY DEF Arrays, ById, Listed

LEMMA OrderChangesNothing ==
  ASSUME NEW r, Shaped(r), InPlace(r), Whole(r), NEW members, ListedWith(r, members)
  PROVE  Order(r) = r
<1> DEFINE placed == [member \in DOMAIN r |-> Canonical(member, r[member])]
<1>1. placed = r
  <2>1. \A member \in DOMAIN r : Canonical(member, r[member]) = r[member]
    BY DEF InPlace, Canonical
  <2> QED BY <2>1 DEF Shaped
<1>2. Order(r) = Relisted(placed)
  BY DEF Order
<1>3. CASE r.components = None
  BY <1>1, <1>2, <1>3 DEF Relisted
<1>4. CASE r.components # None
  <2>1. r.components = ListedFrom(ComponentsNamed(r), members) /\ IsList(ComponentsNamed(r))
    BY <1>4, ComponentsAsListed DEF ListedWith, Whole, Keyed
  <2>2. ListedFrom(ComponentsNamed(r), MembersOf(r)) = r.components
    BY <2>1, ListedAgain
  <2>3. Relisted(r) = [r EXCEPT !.components = r.components]
    BY <1>4, <2>2, ListingOf DEF Relisted
  <2>4. [r EXCEPT !.components = r.components] = r
    BY DEF Shaped
  <2> HIDE DEF placed
  <2> QED BY <1>1, <1>2, <2>3, <2>4
<1> QED BY <1>3, <1>4

LEMMA OrderedIsInPlace ==
  ASSUME NEW r, Arrays \union {"components", "totals"} \subseteq DOMAIN r, r = Order(r)
  PROVE  Shaped(r) /\ InPlace(r) /\ ListedWith(r, MembersOf(r))
<1> DEFINE placed == [member \in DOMAIN r |-> Canonical(member, r[member])]
<1>1. r = IF placed.components = None THEN placed
          ELSE [placed EXCEPT !.components = Listing(placed, MembersOf(placed))]
  BY DEF Order, Relisted
<1>2. placed.components = r.components
  BY NoArray DEF Canonical
<1>3. \A array \in Arrays : Canonical(array, r[array]) = r[array]
  <2> SUFFICES ASSUME NEW array \in Arrays PROVE Canonical(array, r[array]) = r[array]
    OBVIOUS
  <2>1. array # "components" /\ array \in DOMAIN r
    BY NoArray
  <2>2. placed[array] = Canonical(array, r[array])
    BY <2>1
  <2> HIDE DEF placed
  <2>3. r[array] = placed[array]
    <3>1. CASE placed.components = None
      BY <1>1, <3>1
    <3>2. CASE placed.components # None
      <4>1. r = [placed EXCEPT !.components = Listing(placed, MembersOf(placed))]
        BY <1>1, <3>2
      <4>2. [placed EXCEPT !.components = Listing(placed, MembersOf(placed))][array] = placed[array]
        <5>1. array \in DOMAIN placed
          BY <2>1 DEF placed
        <5> QED BY <2>1, <5>1
      <4> QED BY <4>1, <4>2
    <3> QED BY <3>1, <3>2
  <2> QED BY <2>2, <2>3
<1>4. r = [member \in DOMAIN r |-> r[member]]
  <2>1. CASE placed.components = None
    <3>1. r = placed
      BY <1>1, <2>1
    <3> QED BY <3>1
  <2>2. CASE placed.components # None
    <3> DEFINE l == Listing(placed, MembersOf(placed))
    <3> HIDE DEF l
    <3>1. r = [placed EXCEPT !.components = l]
      BY <1>1, <2>2 DEF l
    <3>2. [placed EXCEPT !.components = l] =
            [member \in DOMAIN placed |-> IF member = "components" THEN l ELSE placed[member]]
      OBVIOUS
    <3> HIDE DEF placed
    <3> QED BY <3>1, <3>2
  <2> QED BY <2>1, <2>2
<1>5. ListedWith(r, MembersOf(r))
  <2>1. CASE r.components = None
    BY <2>1 DEF ListedWith
  <2>2. CASE r.components # None
    <3>1. r.components = Listing(placed, MembersOf(placed))
      <4> HIDE DEF placed
      <4>1. r = [placed EXCEPT !.components = Listing(placed, MembersOf(placed))]
        BY <1>1, <1>2, <2>2
      <4>2. "components" \in DOMAIN placed
        BY DEF placed
      <4> QED BY <4>1, <4>2
    <3>2. placed.findings = r.findings /\ placed.evaluations = r.evaluations
      BY <1>3 DEF Arrays
    <3> HIDE DEF placed
    <3>3. ComponentsNamed(placed) = ComponentsNamed(r) /\ MembersOf(placed) = MembersOf(r)
      BY <1>2, <3>2 DEF ComponentsNamed, MembersOf
    <3> QED BY <3>1, <3>3, ListingOf DEF ListedWith
  <2> QED BY <2>1, <2>2
<1> QED BY <1>3, <1>4, <1>5 DEF Shaped, InPlace

-----------------------------------------------------------------------------
(* What Build makes of an answer.                                          *)
LEMMA AssembledHolds ==
  ASSUME NEW in \in Inputs
  PROVE  LET A == Assembled(in)
         IN  /\ Arrays \union {"components", "totals"} \subseteq DOMAIN A
             /\ DOMAIN A = (DOMAIN in \ {"members", "uncounted"}) \union {"mergedFrom", "components", "declared", "totals"}
             /\ A.components = None /\ A["mergedFrom"] = None
             /\ \A array \in Arrays \ {"mergedFrom"} : array \in DOMAIN in /\ A[array] = in[array]
             /\ Order(A) = [member \in DOMAIN A |-> Canonical(member, A[member])]
<1> DEFINE A == Assembled(in)
           placed == [member \in DOMAIN A |-> Canonical(member, A[member])]
<1>1. DOMAIN A = (DOMAIN in \ {"members", "uncounted"}) \union {"mergedFrom", "components", "declared", "totals"}
  BY DEF Assembled
<1>2. A.components = None /\ A["mergedFrom"] = None
  BY DEF Assembled
<1>3. \A array \in Arrays \ {"mergedFrom"} : array \in DOMAIN in
  BY InputsAreWhole
<1>4. \A array \in Arrays \ {"mergedFrom"} : A[array] = in[array]
  BY <1>3, NoArray DEF Assembled
<1>5. Arrays \union {"components", "totals"} \subseteq DOMAIN A
  BY <1>1, <1>3, NoArray
<1> HIDE DEF A
<1>6. placed.components = None
  BY <1>2, <1>5, NoArray DEF Canonical
<1>7. Order(A) = placed
  BY <1>6 DEF Order, Relisted
<1> QED BY <1>1, <1>2, <1>3, <1>4, <1>5, <1>7 DEF A

LEMMA CompletedHolds ==
  ASSUME NEW r, {"components", "totals"} \subseteq DOMAIN r, NEW members
  PROVE  LET B == Completed(r, members)
         IN  /\ DOMAIN B = DOMAIN r
             /\ B = [member \in DOMAIN B |-> B[member]]
             /\ \A member \in DOMAIN r \ {"components", "totals"} : B[member] = r[member]
             /\ B.components = IF members = None THEN r.components ELSE Listing(r, members)
<1> DEFINE B == Completed(r, members)
           l == Listing(r, members)
           listed == IF members = None THEN r ELSE [r EXCEPT !.components = l]
<1> HIDE DEF l
<1>1. /\ DOMAIN listed = DOMAIN r
      /\ \A member \in DOMAIN r \ {"components"} : listed[member] = r[member]
      /\ listed.components = IF members = None THEN r.components ELSE l
  OBVIOUS
<1>2. PICK counted : Recount(listed) = [listed EXCEPT !.totals = counted]
  BY DEF Recount
<1>3. PICK totals : B = [Recount(listed) EXCEPT !.totals = totals]
  BY DEF Completed, l
<1> HIDE DEF B, listed
<1>4. B = [[listed EXCEPT !.totals = counted] EXCEPT !.totals = totals]
  BY <1>2, <1>3
<1>5. B = [member \in DOMAIN listed |-> IF member = "totals" THEN totals ELSE listed[member]]
  BY <1>4
<1>6. DOMAIN B = DOMAIN r /\ B = [member \in DOMAIN B |-> B[member]]
  BY <1>1, <1>5
<1>7. \A member \in DOMAIN r \ {"components", "totals"} : B[member] = r[member]
  BY <1>1, <1>5
<1>8. B.components = IF members = None THEN r.components ELSE l
  BY <1>1, <1>5
<1> QED BY <1>6, <1>7, <1>8 DEF B, l

LEMMA BuildHolds ==
  ASSUME NEW in \in Inputs
  PROVE  /\ Shaped(Build(in)) /\ InPlace(Build(in)) /\ Whole(Build(in))
         /\ ListedWith(Build(in), in.members)
         /\ Rearranged(in.findings, Build(in).findings)
<1> DEFINE A == Assembled(in)
           O == Order(A)
           B == Build(in)
<1>1. /\ Arrays \union {"components", "totals"} \subseteq DOMAIN A
      /\ A.components = None /\ A["mergedFrom"] = None
      /\ \A array \in Arrays \ {"mergedFrom"} : array \in DOMAIN in /\ A[array] = in[array]
      /\ O = [member \in DOMAIN A |-> Canonical(member, A[member])]
  BY AssembledHolds
<1>2. B = Completed(O, in.members)
  BY DEF Build
<1> HIDE DEF A, O, B
<1>3. DOMAIN O = DOMAIN A /\ \A member \in DOMAIN A : O[member] = Canonical(member, A[member])
  BY <1>1
<1>4. /\ DOMAIN B = DOMAIN O
      /\ B = [member \in DOMAIN B |-> B[member]]
      /\ \A member \in DOMAIN O \ {"components", "totals"} : B[member] = O[member]
      /\ B.components = IF in.members = None THEN O.components ELSE Listing(O, in.members)
  BY <1>1, <1>2, <1>3, CompletedHolds
<1>5. Shaped(B)
  BY <1>1, <1>3, <1>4 DEF Shaped
<1>6. \A array \in Arrays \ {"mergedFrom"} : B[array] = Canonical(array, in[array]) /\ Keyed(array, in[array])
  <2> SUFFICES ASSUME NEW array \in Arrays \ {"mergedFrom"}
               PROVE  B[array] = Canonical(array, in[array]) /\ Keyed(array, in[array])
    OBVIOUS
  <2>1. array \in DOMAIN O \ {"components", "totals"}
    BY <1>1, <1>3, NoArray
  <2>2. B[array] = Canonical(array, in[array])
    BY <1>1, <1>3, <1>4, <2>1
  <2> QED BY <2>2, InputsAreWhole
<1>7. InPlace(B)
  <2> SUFFICES ASSUME NEW array \in Arrays PROVE Canonical(array, B[array]) = B[array]
    BY DEF InPlace
  <2>1. CASE array = "mergedFrom"
    <3>1. array \in DOMAIN O \ {"components", "totals"}
      BY <1>1, <1>3, <2>1
    <3>2. B[array] = Canonical(array, None)
      BY <1>1, <1>3, <1>4, <2>1, <3>1
    <3> QED BY <2>1, <3>2 DEF Canonical
  <2>2. CASE array # "mergedFrom"
    BY <1>6, <2>2, CanonicalKeeps
  <2> QED BY <2>1, <2>2
<1>8. Rearranged(in.findings, B.findings)
  <2>1. "findings" \in Arrays \ {"mergedFrom"} /\ "findings" \notin Listed \union {"languages"}
    BY DEF Arrays, ById, Listed
  <2>2. B.findings = Sorted("findings", in.findings)
    BY <1>6, <2>1 DEF Canonical
  <2> QED BY <1>6, <2>1, <2>2, FindingsSorted
<1>9. Whole(B)
  <2>1. {"findings", "evaluations"} \subseteq Arrays \ {"mergedFrom"}
    BY DEF Arrays, ById, Listed
  <2>2. Keyed("findings", in.findings) /\ \A f \in ToSet(in.findings) : Measured(f)
    BY <2>1, InputsAreWhole
  <2>3. B.evaluations \in Seq(ToSet(in.evaluations))
    BY <1>6, <2>1, CanonicalKeeps
  <2>4. B.findings \in Seq(ToSet(in.findings))
    BY <1>8, <2>2, RearrangedBack DEF Keyed, IsList
  <2>5. ASSUME NEW S, NEW s \in Seq(S) PROVE IsList(s) /\ ToSet(s) \subseteq S
    BY DEF IsList, ToSet
  <2>6. Keyed("findings", B.findings) /\ \A f \in ToSet(B.findings) : Measured(f)
    <3>1. IsList(B.findings) /\ ToSet(B.findings) \subseteq ToSet(in.findings)
      BY <2>4, <2>5
    <3> QED BY <2>2, <3>1 DEF Keyed
  <2> QED BY <2>3, <2>5, <2>6 DEF Whole
<1>10. ListedWith(B, in.members)
  <2>1. CASE in.members = None
    <3>1. "components" \in DOMAIN A /\ "components" \notin Arrays
      BY <1>1, NoArray
    <3>2. O.components = None
      BY <1>1, <1>3, <3>1 DEF Canonical
    <3> QED BY <1>4, <2>1, <3>2 DEF ListedWith
  <2>2. CASE in.members # None
    <3>1. {"findings", "evaluations"} \subseteq DOMAIN O \ {"components", "totals"}
      BY <1>1, <1>3 DEF Arrays
    <3>2. B.findings = O.findings /\ B.evaluations = O.evaluations
      BY <1>4, <3>1
    <3>3. ComponentsNamed(B) = ComponentsNamed(O)
      BY <3>2 DEF ComponentsNamed
    <3> QED BY <1>4, <2>2, <3>3, ListingOf DEF ListedWith
  <2> QED BY <2>1, <2>2
<1> QED BY <1>5, <1>7, <1>8, <1>9, <1>10 DEF B

-----------------------------------------------------------------------------
(* What a cap keeps.                                                       *)
LEMMA Extended ==
  ASSUME NEW a \in Seq(Int), NEW b \in Seq(Int), NEW x \in Int
  PROVE  /\ a \o b \in [1 .. Len(a) + Len(b) -> Int] /\ \A i \in 1 .. Len(a) : (a \o b)[i] = a[i]
         /\ Append(a, x) \in [1 .. Len(a) + 1 -> Int] /\ \A i \in 1 .. Len(a) : Append(a, x)[i] = a[i]
<1>1. Len(a) \in Nat /\ Len(b) \in Nat
  BY LenProperties
<1> DEFINE c == a \o b
           d == Append(a, x)
<1>2. c \in Seq(Int) /\ Len(c) = Len(a) + Len(b)
  BY ConcatProperties
<1>3. \A i \in 1 .. Len(a) : c[i] = a[i]
  BY <1>1, ConcatProperties
<1>4. d \in Seq(Int) /\ Len(d) = Len(a) + 1 /\ \A i \in 1 .. Len(a) : d[i] = a[i]
  BY AppendProperties
<1> HIDE DEF c, d
<1>5. c \in [1 .. Len(a) + Len(b) -> Int] /\ d \in [1 .. Len(a) + 1 -> Int]
  BY <1>2, <1>4, LenProperties
<1> QED BY <1>3, <1>4, <1>5 DEF c, d

LEMMA SizeFirst ==
  ASSUME NEW f, Measured(f)
  PROVE  LET key == <<- f.lines, - f.size>> \o CompareFindings(f)
         IN  key \in [1 .. 7 -> Int] /\ key[1] = - f.lines /\ key[2] = - f.size
<1> DEFINE a == <<- f.lines, - f.size>>
           b == CompareFindings(f)
<1>1. a \in Seq(Int) /\ Len(a) = 2 /\ a[1] = - f.lines /\ a[2] = - f.size
  BY DEF Measured
<1>2. b \in Seq(Int) /\ Len(b) = 5
  BY DEF Measured, CompareFindings
<1> HIDE DEF a, b
<1>3. a \o b \in [1 .. 2 + 5 -> Int] /\ \A i \in 1 .. 2 : (a \o b)[i] = a[i]
  BY <1>1, <1>2, 0 \in Int, Extended
<1> QED BY <1>1, <1>3 DEF a, b

LEMMA LargerComesFirst ==
  ASSUME NEW f, Measured(f), NEW g, Measured(g), Larger(g, f)
  PROVE  Precedes(<<- g.lines, - g.size>> \o CompareFindings(g), <<- f.lines, - f.size>> \o CompareFindings(f))
<1> DEFINE a == <<- g.lines, - g.size>> \o CompareFindings(g)
           b == <<- f.lines, - f.size>> \o CompareFindings(f)
<1>1. /\ a \in [1 .. 7 -> Int] /\ a[1] = - g.lines /\ a[2] = - g.size
      /\ b \in [1 .. 7 -> Int] /\ b[1] = - f.lines /\ b[2] = - f.size
  BY SizeFirst
<1> HIDE DEF a, b
<1>2. g.lines \in Int /\ f.lines \in Int /\ g.size \in Int /\ f.size \in Int
  BY DEF Measured
<1>3. a[1] < b[1] \/ (a[1] = b[1] /\ a[2] < b[2])
  BY <1>1, <1>2 DEF Larger
<1>4. Precedes(a, b)
  <2>1. CASE a[1] < b[1]
    <3>1. 1 \in DOMAIN a /\ \A j \in 1 .. 1 - 1 : a[j] = b[j]
      BY <1>1
    <3> QED BY <2>1, <3>1 DEF Precedes
  <2>2. CASE a[1] = b[1] /\ a[2] < b[2]
    <3>1. 2 \in DOMAIN a /\ \A j \in 1 .. 2 - 1 : a[j] = b[j]
      BY <1>1, <2>2
    <3> QED BY <2>2, <3>1 DEF Precedes
  <2> QED BY <1>3, <2>1, <2>2
<1> QED BY <1>4 DEF a, b

LEMMA EncodingComesLast ==
  ASSUME NEW f, Measured(f), NEW g, Measured(g), Precedes(CompareFindings(g), CompareFindings(f))
  PROVE  Precedes(SortKey("findings", g), SortKey("findings", f))
<1> DEFINE a == CompareFindings(g)
           b == CompareFindings(f)
<1>1. a \in Seq(Int) /\ Len(a) = 5 /\ b \in Seq(Int) /\ Len(b) = 5 /\ g.enc \in Int /\ f.enc \in Int
  BY DEF Measured, CompareFindings
<1>2. SortKey("findings", g) = Append(a, g.enc) /\ SortKey("findings", f) = Append(b, f.enc)
  BY DEF SortKey, WithEncoding, ById, Listed
<1> HIDE DEF a, b
<1>3. PICK i \in DOMAIN a : a[i] < b[i] /\ \A j \in 1 .. i - 1 : a[j] = b[j]
  BY DEF Precedes, a, b
<1>4. \A j \in 1 .. 5 : Append(a, g.enc)[j] = a[j] /\ Append(b, f.enc)[j] = b[j]
  BY <1>1, Extended
<1>5. DOMAIN a = 1 .. 5 /\ DOMAIN Append(a, g.enc) = 1 .. 5 + 1
  <2>1. DOMAIN a = 1 .. Len(a)
    BY <1>1
  <2>2. Append(a, g.enc) \in [1 .. 5 + 1 -> Int]
    BY <1>1, Extended
  <2> QED BY <1>1, <2>1, <2>2
<1> DEFINE u == Append(a, g.enc)
           v == Append(b, f.enc)
<1> HIDE DEF u, v
<1>6. \A j \in 1 .. 5 : u[j] = a[j] /\ v[j] = b[j]
  BY <1>4 DEF u, v
<1>7. DOMAIN u = 1 .. 6
  BY <1>5 DEF u
<1>8. i \in DOMAIN u /\ u[i] < v[i] /\ \A j \in 1 .. i - 1 : u[j] = v[j]
  BY <1>3, <1>5, <1>6, <1>7
<1>9. Precedes(u, v)
  BY <1>8 DEF Precedes
<1> QED BY <1>2, <1>9 DEF u, v

(* The findings ranked for a cap: the same ones, none after a smaller one. *)
Outranks(bySize, g, f) ==
  IF bySize THEN Larger(g, f) ELSE Precedes(CompareFindings(g), CompareFindings(f))
LEMMA RankedForACap ==
  ASSUME NEW list, Keyed("findings", list), \A f \in ToSet(list) : Measured(f),
         Sorted("findings", list) = list, NEW bySize \in BOOLEAN
  PROVE  LET ranked == IF bySize THEN BySize(list) ELSE list
         IN  /\ Rearranged(list, ranked)
             /\ \A a, b \in DOMAIN ranked : a < b => ~ Outranks(bySize, ranked[b], ranked[a])
<1> DEFINE S == ToSet(list)
           key == [e \in S |-> <<- e.lines, - e.size>> \o CompareFindings(e)]
           ranked == IF bySize THEN BySize(list) ELSE list
<1>1. list \in Seq(S) /\ \A i \in DOMAIN list : list[i] \in S /\ Measured(list[i])
  BY DEF Keyed, IsList, ToSet
<1>2. CASE bySize
  <2>1. \A f \in S : key[f] \in [1 .. 7 -> Int]
    BY SizeFirst
  <2>2. Keying(S, key, 7)
    BY <2>1 DEF Keying
  <2>3. BySize(list) = SortedBy(list, [i \in DOMAIN list |-> <<- list[i].lines, - list[i].size>> \o CompareFindings(list[i])])
    BY DEF BySize, SortOn
  <2>4. [i \in DOMAIN list |-> <<- list[i].lines, - list[i].size>> \o CompareFindings(list[i])] = [i \in DOMAIN list |-> key[list[i]]]
    BY <1>1
  <2>5. ranked = ByKey(list, key)
    BY <1>2, <2>3, <2>4 DEF ByKey
  <2>6. \A f \in S : key[f] = <<- f.lines, - f.size>> \o CompareFindings(f)
    OBVIOUS
  <2> HIDE DEF key, ranked, S
  <2>7. Rearranged(list, ranked) /\ Ascends(ranked, key)
    BY <1>1, <2>2, <2>5, Sorting
  <2>8. ASSUME NEW a \in DOMAIN ranked, NEW b \in DOMAIN ranked, a < b, Larger(ranked[b], ranked[a]) PROVE FALSE
    <3>1. \A i \in DOMAIN ranked : ranked[i] \in S /\ Measured(ranked[i])
      BY <1>1, <2>7, RearrangedBack
    <3>2. Precedes(key[ranked[b]], key[ranked[a]])
      BY <2>6, <2>8, <3>1, LargerComesFirst
    <3> QED BY <2>7, <2>8, <3>2 DEF Ascends
  <2> QED BY <1>2, <2>7, <2>8 DEF ranked, Outranks
<1>3. CASE ~ bySize
  <2>1. Rearranged(list, list) /\ Ascends(list, KeyOf("findings", S))
    BY FindingsSorted
  <2>2. ASSUME NEW a \in DOMAIN list, NEW b \in DOMAIN list, a < b,
               Precedes(CompareFindings(list[b]), CompareFindings(list[a]))
        PROVE  FALSE
    <3>1. Precedes(SortKey("findings", list[b]), SortKey("findings", list[a]))
      BY <1>1, <2>2, EncodingComesLast
    <3>2. KeyOf("findings", S)[list[b]] = SortKey("findings", list[b]) /\ KeyOf("findings", S)[list[a]] = SortKey("findings", list[a])
      BY <1>1 DEF KeyOf
    <3> QED BY <2>1, <2>2, <3>1, <3>2 DEF Ascends
  <2> QED BY <1>3, <2>1, <2>2 DEF Outranks
<1> QED BY <1>2, <1>3

LEMMA CapHolds ==
  ASSUME NEW r, Shaped(r), InPlace(r), Whole(r), NEW members, ListedWith(r, members),
         NEW most \in Int, NEW bySize \in BOOLEAN
  PROVE  LET q == Cap(r, most, bySize)
         IN  /\ Shaped(q) /\ InPlace(q) /\ Whole(q) /\ ListedWith(q, members)
             /\ ToSet(q.findings) \subseteq ToSet(r.findings)
             /\ Len(q.findings) = IF most <= 0 \/ Len(r.findings) <= most THEN Len(r.findings) ELSE most
             /\ \A f \in ToSet(q.findings), g \in ToSet(r.findings) \ ToSet(q.findings) : ~ Outranks(bySize, g, f)
<1> DEFINE L == r.findings
           S == ToSet(L)
           ranked == IF bySize THEN BySize(L) ELSE L
           sub == SubSeq(ranked, 1, most)
           kept == Sorted("findings", sub)
           q == Cap(r, most, bySize)
<1>1. CASE most <= 0 \/ Len(L) <= most
  <2>1. q = r
    BY <1>1 DEF Cap
  <2> HIDE DEF q
  <2> QED BY <1>1, <2>1 DEF q
<1>2. CASE ~ (most <= 0 \/ Len(L) <= most)
  <2>1. Keyed("findings", L) /\ L \in Seq(S) /\ \A f \in S : Measured(f)
    BY DEF Whole, Keyed, IsList
  <2>2. "findings" \in Arrays /\ "findings" \notin Listed \union {"languages"}
    BY DEF Arrays, ById, Listed
  <2>3. Sorted("findings", L) = L
    BY <2>2 DEF InPlace, Canonical
  <2>4. Rearranged(L, ranked) /\ \A a, b \in DOMAIN ranked : a < b => ~ Outranks(bySize, ranked[b], ranked[a])
    BY <2>1, <2>3, RankedForACap
  <2> HIDE DEF ranked
  <2>5. ranked \in Seq(S) /\ Len(ranked) = Len(L) /\ \A i \in DOMAIN L : \E j \in DOMAIN L : ranked[j] = L[i]
    BY <2>1, <2>4, RearrangedBack
  <2>6. Len(L) \in Nat /\ DOMAIN L = 1 .. Len(L) /\ DOMAIN ranked = 1 .. Len(L) /\ 0 < most /\ most < Len(L)
    BY <1>2, <2>1, <2>5
  <2>7. sub \in Seq(S) /\ Len(sub) = most /\ \A i \in 1 .. most : sub[i] = ranked[i]
    <3>1. \A i \in 1 .. most : ranked[i] \in S
      BY <2>5, <2>6
    <3>2. /\ sub \in Seq(S)
          /\ Len(sub) = IF 1 <= most THEN most - 1 + 1 ELSE 0
          /\ \A i \in 1 .. most - 1 + 1 : sub[i] = ranked[1 + i - 1]
      BY <3>1, 1 \in Int, SubSeqProperties
    <3> HIDE DEF sub
    <3> QED BY <2>6, <3>2
  <2> HIDE DEF sub
  <2>8. DOMAIN sub = 1 .. most
    BY <2>7
  <2>9. Keyed("findings", sub)
    <3>1. IsList(sub) /\ ToSet(sub) \subseteq S
      BY <2>7 DEF IsList, ToSet
    <3> QED BY <2>1, <3>1 DEF Keyed
  <2>10. Rearranged(sub, kept)
    BY <2>9, FindingsSorted
  <2>11. Canonical("findings", kept) = kept
    <3>1. kept = Canonical("findings", sub)
      BY <2>2 DEF Canonical
    <3> QED BY <2>2, <2>9, <3>1, CanonicalKeeps
  <2> HIDE DEF kept
  <2>12. kept \in Seq(S) /\ Len(kept) = most /\ ToSet(kept) = ToSet(sub)
    <3> HIDE DEF S
    <3>0. DOMAIN kept = DOMAIN sub
      BY <2>10 DEF Rearranged
    <3>a. sub \in Seq(S)
      BY <2>7
    <3>1. kept \in Seq(S) /\ Len(kept) = Len(sub) /\ DOMAIN kept = DOMAIN sub
      BY <2>7, <2>10, <3>0, RearrangedBack
    <3>2. \A i \in DOMAIN sub : \E j \in DOMAIN sub : kept[j] = sub[i]
      BY <3>a, <2>10, RearrangedBack
    <3>3. \A i \in DOMAIN kept : \E j \in DOMAIN sub : sub[j] = kept[i]
      BY <3>a, <2>10, RearrangedBack
    <3>4. ToSet(kept) = ToSet(sub)
      BY <3>1, <3>2, <3>3 DEF ToSet
    <3> QED BY <2>7, <3>1, <3>4
  <2>13. Keyed("findings", kept) /\ ToSet(kept) \subseteq S
    <3>1. IsList(kept) /\ ToSet(kept) \subseteq S
      BY <2>12 DEF IsList, ToSet
    <3> QED BY <2>1, <3>1 DEF Keyed
  <2>14. \A f \in ToSet(kept), g \in S \ ToSet(kept) : ~ Outranks(bySize, g, f)
    <3> SUFFICES ASSUME NEW f \in ToSet(kept), NEW g \in S, g \notin ToSet(kept) PROVE ~ Outranks(bySize, g, f)
      OBVIOUS
    <3>1. PICK a \in 1 .. most : ranked[a] = f
      BY <2>7, <2>8, <2>12 DEF ToSet
    <3>2. PICK i \in DOMAIN L : L[i] = g
      BY DEF ToSet
    <3>3. PICK b \in DOMAIN L : ranked[b] = g
      BY <2>5, <3>2
    <3>4. ~ (b <= most)
      <4>1. b \in 1 .. most => sub[b] = g /\ b \in DOMAIN sub
        BY <2>7, <2>8, <3>3
      <4>2. b \notin 1 .. most
        BY <2>12, <4>1 DEF ToSet
      <4> QED BY <2>6, <4>2
    <3>5. a \in DOMAIN ranked /\ b \in DOMAIN ranked /\ a < b
      BY <2>6, <3>4
    <3> QED BY <2>4, <3>1, <3>3, <3>5
  <2>t. PICK totals : q = Relisted([r EXCEPT !.findings = kept, !.totals = totals])
    BY <1>2, Zenon DEF Cap, ranked, sub, kept
  <2> DEFINE capped == [r EXCEPT !.findings = kept, !.totals = totals]
             l == Listing(capped, MembersOf(capped))
  <2>15. q = Relisted(capped)
    BY <2>t
  <2> HIDE DEF q
  <2>16. /\ DOMAIN capped = DOMAIN r
         /\ capped = [member \in DOMAIN capped |-> capped[member]]
         /\ \A member \in DOMAIN r \ {"findings", "totals"} : capped[member] = r[member]
         /\ capped.findings = kept
    BY <2>2 DEF Shaped
  <2> HIDE DEF capped, l
  <2>17. q = IF capped.components = None THEN capped ELSE [capped EXCEPT !.components = l]
    BY <2>15 DEF Relisted, l
  <2>18. /\ DOMAIN q = DOMAIN r
         /\ q = [member \in DOMAIN q |-> q[member]]
         /\ \A member \in DOMAIN r \ {"components"} : q[member] = capped[member]
         /\ q.components = IF capped.components = None THEN None ELSE l
    <3>1. "components" \in DOMAIN capped
      BY <2>16 DEF Shaped
    <3>2. CASE capped.components = None
      BY <2>16, <2>17, <3>2
    <3>3. CASE capped.components # None
      <4>1. q = [member \in DOMAIN capped |-> IF member = "components" THEN l ELSE capped[member]]
        BY <2>16, <2>17, <3>3
      <4> QED BY <2>16, <3>1, <3>3, <4>1
    <3> QED BY <3>2, <3>3
  <2>19. /\ {"findings", "evaluations", "components"} \subseteq DOMAIN r
         /\ q.findings = kept /\ q.evaluations = r.evaluations
         /\ capped.components = r.components /\ capped.evaluations = r.evaluations
    <3>1. {"findings", "evaluations", "components"} \subseteq DOMAIN r
      BY DEF Shaped, Arrays
    <3> QED BY <2>16, <2>18, <3>1
  <2>20. Shaped(q)
    BY <2>18 DEF Shaped
  <2>21. InPlace(q)
    <3> SUFFICES ASSUME NEW array \in Arrays PROVE Canonical(array, q[array]) = q[array]
      BY DEF InPlace
    <3>1. CASE array = "findings"
      BY <2>11, <2>19, <3>1
    <3>2. CASE array # "findings"
      <4>1. array \in DOMAIN r \ {"findings", "totals", "components"}
        BY <3>2, NoArray DEF Shaped
      <4>2. q[array] = r[array]
        BY <2>16, <2>18, <4>1
      <4> QED BY <4>2 DEF InPlace
    <3> QED BY <3>1, <3>2
  <2>22. Whole(q)
    BY <2>1, <2>13, <2>19 DEF Whole
  <2>23. ListedWith(q, members)
    <3>1. CASE r.components = None
      BY <2>18, <2>19, <3>1 DEF ListedWith
    <3>2. CASE r.components # None
      <4>1. ComponentsNamed(q) = ComponentsNamed(capped) /\ MembersOf(capped) = MembersOf(r)
        BY <2>16, <2>19 DEF ComponentsNamed, MembersOf
      <4>2. r.components = ListedFrom(ComponentsNamed(r), members)
        BY <3>2 DEF ListedWith
      <4>3. /\ IsList(ComponentsNamed(r))
            /\ ToSet(ComponentsNamed(r)) = {f.component : f \in ToSet(r.findings)} \union ToSet(CarriedBy(r.evaluations))
        BY ComponentsAsListed DEF Whole, Keyed
      <4>4. /\ IsList(ComponentsNamed(q))
            /\ ToSet(ComponentsNamed(q)) = {f.component : f \in ToSet(q.findings)} \union ToSet(CarriedBy(q.evaluations))
        BY <2>22, ComponentsAsListed DEF Whole, Keyed
      <4>5. ToSet(ComponentsNamed(q)) \subseteq ToSet(ComponentsNamed(r))
        BY <2>13, <2>19, <4>3, <4>4
      <4>6. ListedFrom(ComponentsNamed(q), MembersOf(r)) = ListedFrom(ComponentsNamed(q), members)
        BY <4>2, <4>3, <4>4, <4>5, ListedAgain
      <4>7. l = ListedFrom(ComponentsNamed(q), MembersOf(r))
        BY <4>1, ListingOf DEF l
      <4> QED BY <2>18, <2>19, <3>2, <4>6, <4>7 DEF ListedWith
    <3> QED BY <3>1, <3>2
  <2>24. ToSet(q.findings) \subseteq ToSet(r.findings)
    BY <2>13, <2>19
  <2>25. Len(q.findings) = IF most <= 0 \/ Len(r.findings) <= most THEN Len(r.findings) ELSE most
    BY <1>2, <2>12, <2>19
  <2>26. \A f \in ToSet(q.findings), g \in ToSet(r.findings) \ ToSet(q.findings) : ~ Outranks(bySize, g, f)
    BY <2>14, <2>19
  <2> QED BY <2>20, <2>21, <2>22, <2>23, <2>24, <2>25, <2>26 DEF q
<1> QED BY <1>1, <1>2

-----------------------------------------------------------------------------
(* The invariant: a report that is held is in canonical order, lists the   *)
(* components it names with the members it was given, and holds of the     *)
(* findings it was made from what the caps so far leave.                   *)
GivenBy(in) == IF "totals" \in DOMAIN in THEN MembersOf(in) ELSE in.members
Asked(c) == {n \in c.most : n > 0}

Capped(in, r, c) ==
  /\ c.count \in Nat /\ c.most \subseteq Int
  /\ ToSet(r.findings) \subseteq ToSet(in.findings)
  /\ Len(r.findings) \in Nat /\ Len(in.findings) \in Nat /\ Len(r.findings) <= Len(in.findings)
  /\ \A n \in Asked(c) : Len(r.findings) <= n
  /\ Len(r.findings) = Len(in.findings) \/ Len(r.findings) \in Asked(c)
  /\ \A f \in ToSet(r.findings), g \in ToSet(in.findings) \ ToSet(r.findings), bySize \in BOOLEAN :
       c.bySize \subseteq {bySize} => ~ Outranks(bySize, g, f)

Settled(in, r, c) ==
  /\ Shaped(r) /\ InPlace(r) /\ Whole(r) /\ ListedWith(r, GivenBy(in))
  /\ Capped(in, r, c)

ReportInv ==
  /\ input \in Inputs \union Documents
  /\ phase \in {"answered", "refused"} => report = None
  /\ phase = "answered" => caps = NoCaps
  /\ phase \notin {"answered", "refused"} => Settled(input, report, caps)
  /\ phase = "unwritten" => ~ ListsEveryComponent(report)
  /\ phase = "held" /\ ~ IsDocument /\ caps = NoCaps => report = Build(input)

LEMMA SettledUncapped ==
  ASSUME NEW in, NEW r, ToSet(r.findings) = ToSet(in.findings),
         Len(r.findings) = Len(in.findings), Len(r.findings) \in Nat
  PROVE  Capped(in, r, NoCaps)
BY DEF Capped, NoCaps, Asked

LEMMA SettledByBuild ==
  ASSUME NEW in \in Inputs
  PROVE  Settled(in, Build(in), NoCaps)
<1> DEFINE B == Build(in)
<1>1. Shaped(B) /\ InPlace(B) /\ Whole(B) /\ ListedWith(B, in.members) /\ Rearranged(in.findings, B.findings)
  BY BuildHolds
<1>2. "totals" \notin DOMAIN in /\ Keyed("findings", in.findings)
  BY InputsAreWhole DEF Arrays
<1> HIDE DEF B
<1>3. ListedWith(B, GivenBy(in))
  BY <1>1, <1>2 DEF GivenBy
<1>4. in.findings \in Seq(ToSet(in.findings))
  BY <1>2 DEF Keyed, IsList
<1>5. DOMAIN B.findings = DOMAIN in.findings
  BY <1>1 DEF Rearranged
<1> DEFINE S == ToSet(in.findings)
           u == in.findings
           v == B.findings
<1>6. Len(B.findings) = Len(in.findings) /\ Len(in.findings) \in Nat /\ ToSet(B.findings) = ToSet(in.findings)
  <2>1. u \in Seq(S) /\ Rearranged(u, v) /\ DOMAIN v = DOMAIN u
    BY <1>1, <1>4, <1>5
  <2> HIDE DEF S, u, v
  <2>2. Len(v) = Len(u) /\ Len(u) \in Nat
    BY <2>1, RearrangedBack
  <2>3. \A i \in DOMAIN u : \E j \in DOMAIN u : v[j] = u[i]
    BY <2>1, RearrangedBack
  <2>4. \A i \in DOMAIN v : \E j \in DOMAIN u : u[j] = v[i]
    BY <2>1, RearrangedBack
  <2>5. ToSet(v) = ToSet(u)
    BY <2>1, <2>3, <2>4 DEF ToSet
  <2> QED BY <2>2, <2>5 DEF u, v
<1>10. Capped(in, B, NoCaps)
  BY <1>6, SettledUncapped
<1> QED BY <1>1, <1>3, <1>10 DEF Settled, B

LEMMA SettledByDecode ==
  ASSUME NEW in \in Documents, ListsEveryComponent(in)
  PROVE  Settled(in, in, NoCaps)
<1>1. /\ Arrays \union {"components", "totals"} \subseteq DOMAIN in
      /\ Keyed("findings", in.findings) /\ Keyed("evaluations", in.evaluations)
      /\ \A f \in ToSet(in.findings) : Measured(f)
      /\ in = Order(in)
  BY DocumentsAreCanonical
<1>2. Shaped(in) /\ InPlace(in) /\ ListedWith(in, MembersOf(in))
  BY <1>1, OrderedIsInPlace
<1>3. Whole(in)
  BY <1>1 DEF Whole, Keyed
<1>4. ListedWith(in, GivenBy(in))
  BY <1>1, <1>2 DEF GivenBy
<1>5. Len(in.findings) \in Nat
  BY <1>1 DEF Keyed, IsList
<1> QED BY <1>2, <1>3, <1>4, <1>5, SettledUncapped DEF Settled

LEMMA SettledByCap ==
  ASSUME NEW in, NEW r, NEW c, Settled(in, r, c), NEW most \in Int, NEW bySize \in BOOLEAN,
         NEW d, d = [count |-> c.count + 1, most |-> c.most \union {most}, bySize |-> c.bySize \union {bySize}]
  PROVE  Settled(in, Cap(r, most, bySize), d) /\ d # NoCaps
<1> DEFINE q == Cap(r, most, bySize)
<1>1. /\ Shaped(q) /\ InPlace(q) /\ Whole(q) /\ ListedWith(q, GivenBy(in))
      /\ ToSet(q.findings) \subseteq ToSet(r.findings)
      /\ Len(q.findings) = IF most <= 0 \/ Len(r.findings) <= most THEN Len(r.findings) ELSE most
      /\ \A f \in ToSet(q.findings), g \in ToSet(r.findings) \ ToSet(q.findings) : ~ Outranks(bySize, g, f)
  BY CapHolds DEF Settled
<1> HIDE DEF q
<1>2. Capped(in, r, c)
  BY DEF Settled
<1>3. d.count = c.count + 1 /\ d.most = c.most \union {most} /\ d.bySize = c.bySize \union {bySize}
  OBVIOUS
<1>4. d.count \in Nat /\ d.count # 0 /\ d.most \subseteq Int
  BY <1>2, <1>3 DEF Capped
<1>5. ToSet(q.findings) \subseteq ToSet(in.findings)
  BY <1>1, <1>2 DEF Capped
<1>6. Asked(d) = IF most > 0 THEN Asked(c) \union {most} ELSE Asked(c)
  BY <1>3 DEF Asked
<1>7. /\ Len(q.findings) \in Nat /\ Len(in.findings) \in Nat /\ Len(q.findings) <= Len(in.findings)
      /\ \A n \in Asked(d) : Len(q.findings) <= n
      /\ Len(q.findings) = Len(in.findings) \/ Len(q.findings) \in Asked(d)
  <2> DEFINE k == Len(q.findings)
             h == Len(r.findings)
             all == Len(in.findings)
  <2>1. /\ h \in Nat /\ all \in Nat /\ h <= all
        /\ \A n \in Asked(c) : n \in Int /\ h <= n
        /\ h = all \/ h \in Asked(c)
    BY <1>2 DEF Capped, Asked
  <2>2. k = IF most <= 0 \/ h <= most THEN h ELSE most
    BY <1>1
  <2> HIDE DEF k, h, all
  <2>3. CASE most <= 0 \/ h <= most
    <3>1. k = h
      BY <2>2, <2>3
    <3>2. \A n \in Asked(d) : h <= n
      BY <1>6, <2>1, <2>3
    <3>3. h = all \/ h \in Asked(d)
      BY <1>6, <2>1
    <3> QED BY <2>1, <3>1, <3>2, <3>3 DEF k, all
  <2>4. CASE ~ (most <= 0 \/ h <= most)
    <3>1. k = most /\ most \in Nat /\ most < h
      BY <2>1, <2>2, <2>4
    <3>2. Asked(d) = Asked(c) \union {most}
      BY <1>6, <2>4
    <3>3. \A n \in Asked(d) : most <= n
      BY <2>1, <3>1, <3>2
    <3>4. most <= all
      BY <2>1, <3>1
    <3>5. most \in Asked(d)
      BY <3>2
    <3> QED BY <2>1, <3>1, <3>3, <3>4, <3>5 DEF k, all
  <2> QED BY <2>3, <2>4
<1>8. ASSUME NEW f \in ToSet(q.findings), NEW g \in ToSet(in.findings) \ ToSet(q.findings), NEW by \in BOOLEAN,
             d.bySize \subseteq {by}
      PROVE  ~ Outranks(by, g, f)
  <2>1. by = bySize /\ c.bySize \subseteq {by}
    BY <1>3, <1>8
  <2>2. CASE g \in ToSet(r.findings)
    <3>1. ~ Outranks(bySize, g, f)
      BY <1>1, <2>2
    <3> QED BY <2>1, <3>1
  <2>3. CASE g \notin ToSet(r.findings)
    <3>1. \A x \in ToSet(r.findings), y \in ToSet(in.findings) \ ToSet(r.findings), b \in BOOLEAN :
            c.bySize \subseteq {b} => ~ Outranks(b, y, x)
      BY <1>2 DEF Capped
    <3>2. f \in ToSet(r.findings) /\ g \in ToSet(in.findings) \ ToSet(r.findings)
      BY <1>1, <2>3
    <3> QED BY <2>1, <3>1, <3>2
  <2> QED BY <2>2, <2>3
<1>9. Capped(in, q, d)
  BY <1>4, <1>5, <1>7, <1>8 DEF Capped
<1>10. d # NoCaps
  BY <1>4 DEF NoCaps
<1> QED BY <1>1, <1>9, <1>10 DEF Settled, q

LEMMA NoInputIsADocument ==
  /\ \A in \in Inputs : "totals" \notin DOMAIN in
  /\ \A in \in Documents : "totals" \in DOMAIN in
BY InputsAreWhole, DocumentsAreCanonical

LEMMA InitReport ==
  Init => ReportInv
BY DEF Init, ReportInv

LEMMA StepReport ==
  ReportInv /\ [Next]_vars => ReportInv'
<1> SUFFICES ASSUME ReportInv, [Next]_vars PROVE ReportInv'
  OBVIOUS
<1>1. CASE RefuseInput
  BY <1>1 DEF RefuseInput, ReportInv
<1>2. CASE Assemble
  <2>1. input \in Inputs /\ caps = NoCaps
    BY <1>2, NoInputIsADocument DEF Assemble, ReportInv, IsDocument
  <2>2. Settled(input, Build(input), NoCaps)
    BY <2>1, SettledByBuild
  <2>3. /\ input' = input /\ report' = Build(input) /\ phase' = "held" /\ caps' = NoCaps
    BY <1>2, <2>1 DEF Assemble
  <2>4. Settled(input, report, caps)'
    BY <2>2, <2>3
  <2> QED BY <2>1, <2>3, <2>4 DEF ReportInv
<1>3. CASE Decode
  <2>1. input \in Documents /\ caps = NoCaps /\ ListsEveryComponent(input) /\ IsDocument
    BY <1>3, NoInputIsADocument DEF Decode, ReportInv, IsDocument
  <2>2. Settled(input, input, NoCaps)
    BY <2>1, SettledByDecode
  <2>3. /\ input' = input /\ report' = input /\ phase' = "held" /\ caps' = NoCaps
    BY <1>3, <2>1 DEF Decode
  <2>4. Settled(input, report, caps)' /\ IsDocument'
    BY <2>1, <2>2, <2>3 DEF IsDocument
  <2> QED BY <2>1, <2>3, <2>4 DEF ReportInv
<1>4. CASE OrderAgain
  <2>1. Settled(input, report, caps)
    BY <1>4 DEF OrderAgain, ReportInv
  <2>2. Order(report) = report
    BY <2>1, OrderChangesNothing DEF Settled
  <2>3. UNCHANGED vars
    BY <1>4, <2>2 DEF OrderAgain, vars
  <2> QED BY <2>3 DEF ReportInv, IsDocument, vars
<1>5. ASSUME NEW most \in Most, NEW bySize \in BOOLEAN, CapFindings(most, bySize) PROVE ReportInv'
  <2>1. Settled(input, report, caps) /\ most \in Int
    BY <1>5, ReportAssumption DEF CapFindings, ReportInv
  <2>2. /\ input' = input /\ phase' = "held" /\ report' = Cap(report, most, bySize)
        /\ caps' = [count |-> caps.count + 1, most |-> caps.most \union {most}, bySize |-> caps.bySize \union {bySize}]
    BY <1>5 DEF CapFindings
  <2>3. PICK d : d = [count |-> caps.count + 1, most |-> caps.most \union {most}, bySize |-> caps.bySize \union {bySize}]
    OBVIOUS
  <2>4. Settled(input, Cap(report, most, bySize), d) /\ d # NoCaps
    BY <2>1, <2>3, SettledByCap
  <2>5. Settled(input, report, caps)' /\ caps' # NoCaps
    BY <2>2, <2>3, <2>4
  <2> QED BY <2>2, <2>5 DEF ReportInv
<1>6. CASE Encode
  <2>1. /\ input' = input /\ report' = report /\ caps' = caps
        /\ phase' = IF ListsEveryComponent(report) THEN "written" ELSE "unwritten"
        /\ phase = "held"
    BY <1>6 DEF Encode
  <2>2. Settled(input, report, caps)'
    BY <2>1 DEF ReportInv
  <2>3. (phase = "unwritten" => ~ ListsEveryComponent(report))'
    BY <2>1
  <2> QED BY <2>1, <2>2, <2>3 DEF ReportInv
<1>7. ASSUME NEW format, NEW bySize, RenderAs(format, bySize) PROVE ReportInv'
  <2>1. input' = input /\ report' = report /\ caps' = caps /\ phase' = "rendered" /\ phase = "held"
    BY <1>7 DEF RenderAs
  <2>2. Settled(input, report, caps)'
    BY <2>1 DEF ReportInv
  <2> QED BY <2>1, <2>2 DEF ReportInv
<1>8. CASE UNCHANGED vars
  BY <1>8 DEF ReportInv, IsDocument, vars
<1> QED BY <1>1, <1>2, <1>3, <1>4, <1>5, <1>6, <1>7, <1>8 DEF Next

(* The invariant holds of every report.                                    *)
THEOREM ReportsStaySettled ==
  Spec => []ReportInv
<1>1. Init => ReportInv
  BY InitReport
<1>2. ReportInv /\ [Next]_vars => ReportInv'
  BY StepReport
<1> QED BY <1>1, <1>2, PTL DEF Spec

-----------------------------------------------------------------------------
(* A listing has one entry for each component named that has members, in   *)
(* the order of the first naming it, whatever was ordered again or capped. *)
THEOREM ListingsAreExact ==
  Spec => []ListingIsExact
<1>1. ReportInv => ListingIsExact
  <2> SUFFICES ASSUME ReportInv, Held, report.components # None PROVE ListingIsExact
    BY DEF ListingIsExact
  <2> DEFINE named == ComponentsNamed(report)
             given == GivenBy(input)
             listed == report.components
  <2>1. Settled(input, report, caps)
    BY DEF ReportInv, Held
  <2>2. IsList(named)
    BY <2>1, ComponentsAsListed DEF Settled, Whole, Keyed
  <2>3. listed = ListedFrom(named, given)
    BY <2>1 DEF Settled, ListedWith
  <2>4. given = IF IsDocument THEN MembersOf(input) ELSE input.members
    BY DEF GivenBy, IsDocument
  <2>5. phase = "unwritten" => ~ ListsEveryComponent(report)
    BY DEF ReportInv
  <2> HIDE DEF named, given
  <2>6. /\ \A i \in DOMAIN listed : listed[i].members = given[listed[i].id]
        /\ {listed[i].id : i \in DOMAIN listed} = ToSet(named) \intersect DOMAIN given
        /\ \A i, j \in DOMAIN listed : i < j => Position(named, listed[i].id) < Position(named, listed[j].id)
        /\ \A i, j \in DOMAIN listed : listed[i].id = listed[j].id => i = j
    BY <2>2, <2>3, ListingHolds
  <2>7. ASSUME ToSet(named) \subseteq DOMAIN given PROVE ListsEveryComponent(report)
    <3> DEFINE ids == [i \in DOMAIN listed |-> listed[i].id]
    <3>1. ToSet(ids) = {listed[i].id : i \in DOMAIN listed} /\ IsInjective(ids)
      BY <2>6 DEF ToSet, IsInjective
    <3>2. ToSet(ids) = ToSet(ComponentsNamed(report))
      BY <2>6, <2>7, <3>1 DEF named
    <3> QED BY <3>1, <3>2 DEF ListsEveryComponent
  <2> HIDE DEF listed
  <2>8. phase = "unwritten" => ~ ToSet(named) \subseteq DOMAIN given
    BY <2>5, <2>7
  <2> QED BY <2>4, <2>6, <2>8 DEF ListingIsExact, listed, named
<1> QED BY <1>1, ReportsStaySettled, PTL

(* What the caps left out is no larger, by the order each cap asked for,   *)
(* than anything kept, and as much is kept as the smallest maximum admits. *)
THEOREM CapsKeepTheLargest ==
  Spec => []KeepsTheLargest
<1>1. ReportInv => KeepsTheLargest
  <2> SUFFICES ASSUME ReportInv, Held PROVE KeepsTheLargest
    BY DEF KeepsTheLargest
  <2>1. Capped(input, report, caps)
    BY DEF ReportInv, Held, Settled
  <2> DEFINE k == Len(report.findings)
             all == Len(input.findings)
  <2>2. Maxima = Asked(caps) /\ Maxima \subseteq Nat
    BY <2>1 DEF Capped, Asked, Maxima
  <2>3. k \in Nat /\ all \in Nat /\ k <= all /\ (\A n \in Maxima : k <= n) /\ (k = all \/ k \in Maxima)
    BY <2>1, <2>2 DEF Capped
  <2> HIDE DEF k, all
  <2>4. k = IF Maxima = {} \/ all <= Min(Maxima) THEN all ELSE Min(Maxima)
    <3>1. CASE Maxima = {}
      BY <2>3, <3>1
    <3>2. CASE Maxima # {}
      <4>1. PICK n \in Maxima : \A y \in Maxima : n <= y
        BY <2>2, <3>2, LeastMember
      <4>2. Min(Maxima) \in Maxima /\ \A y \in Maxima : Min(Maxima) <= y
        BY <4>1 DEF Min
      <4>3. Min(Maxima) \in Nat /\ k <= Min(Maxima)
        BY <2>2, <2>3, <4>2
      <4>4. CASE k = all
        BY <2>3, <4>3, <4>4
      <4>5. CASE k \in Maxima
        BY <2>3, <3>2, <4>2, <4>3, <4>5
      <4> QED BY <2>3, <4>4, <4>5
    <3> QED BY <3>1, <3>2
  <2>5. ASSUME NEW f \in Findings, NEW g \in All \ Findings
        PROVE  /\ caps.bySize \subseteq {TRUE} => ~ Larger(g, f)
               /\ caps.bySize \subseteq {FALSE} => ~ Precedes(CompareFindings(g), CompareFindings(f))
    <3>1. \A bySize \in BOOLEAN : caps.bySize \subseteq {bySize} => ~ Outranks(bySize, g, f)
      BY <2>1 DEF Capped, Findings, All
    <3> QED BY <3>1 DEF Outranks
  <2>6. Findings \subseteq All
    BY <2>1 DEF Capped, Findings, All
  <2> QED BY <2>4, <2>5, <2>6 DEF KeepsTheLargest, k, all
<1> QED BY <1>1, ReportsStaySettled, PTL

-----------------------------------------------------------------------------
(* What the totals say.                                                    *)
(* Sorting an array keeps its elements.                                    *)
LEMMA SortedRearranges ==
  ASSUME NEW array, NEW list, Keyed(array, list)
  PROVE  Rearranged(list, Sorted(array, list))
<1>1. list \in Seq(ToSet(list)) /\ Sorted(array, list) = ByKey(list, KeyOf(array, ToSet(list)))
  BY KeyedSorts
<1>2. PICK m : Keying(ToSet(list), KeyOf(array, ToSet(list)), m)
  BY KeyedSorts
<1> QED BY <1>1, <1>2, Sorting

(* A list put in another order has as many of each kind.                   *)
Valued(s, T) == {i \in DOMAIN s : s[i] \in T}

LEMMA RearrangedCounts ==
  ASSUME NEW S, NEW u \in Seq(S), NEW v, Rearranged(u, v), NEW T
  PROVE  Cardinality(Valued(v, T)) = Cardinality(Valued(u, T))
<1> DEFINE D == DOMAIN u
           A == Valued(v, T)
           B == Valued(u, T)
<1>1. PICK p \in Bijection(D, D) : v = [i \in D |-> u[p[i]]]
  BY DEF Rearranged
<1>2. /\ p \in [D -> D]
      /\ \A i, j \in D : p[i] = p[j] => i = j
      /\ \A i \in D : \E j \in D : p[j] = i
  BY <1>1 DEF Bijection, Injection, Surjection, IsInjective
<1>3. /\ \A i \in A : i \in D /\ p[i] \in B
      /\ \A i \in B : \E j \in A : p[j] = i
  BY <1>1, <1>2 DEF Valued
<1> DEFINE q == [i \in A |-> p[i]]
<1>4. q \in [A -> B]
  BY <1>3
<1>5. \A i, j \in A : q[i] = q[j] => i = j
  BY <1>2, <1>3
<1>6. \A i \in B : \E j \in A : q[j] = i
  BY <1>3
<1>7. IsFiniteSet(A)
  <2>1. D = 1 .. Len(u) /\ Len(u) \in Nat
    OBVIOUS
  <2>2. IsFiniteSet(D)
    BY <2>1, FS_Interval
  <2>3. A \subseteq D
    BY <1>3
  <2> QED BY <2>2, <2>3, FS_Subset
<1> HIDE DEF A, B, q
<1>8. q \in Bijection(A, B)
  BY <1>4, <1>5, <1>6 DEF Bijection, Injection, Surjection, IsInjective
<1>9. ExistsBijection(A, B)
  BY <1>8 DEF ExistsBijection
<1> QED BY <1>7, <1>9, FS_Bijection DEF A, B

(* The lines of every component at a root, each counted once.              *)
RootsAmong(findings) == {f.component : f \in {g \in ToSet(findings) : g.root}}

LEMMA RootsCountedOnce ==
  ASSUME NEW S, NEW s \in Seq(S), \A f \in ToSet(s) : f.root => f.lines = LinesRemoved(f.component)
  PROVE  DeletableLines(s) = SumFunction([c \in RootsAmong(s) |-> LinesRemoved(c)])
<1> DEFINE C == {s[i].component : i \in {j \in DOMAIN s : s[j].root}}
           At(c) == SelectInSeq(s, LAMBDA f : f.root /\ f.component = c)
<1>1. C = RootsAmong(s)
  BY DEF RootsAmong, ToSet
<1>2. ASSUME NEW c \in C PROVE s[At(c)].lines = LinesRemoved(c)
  <2> DEFINE I == {i \in 1 .. Len(s) : s[i].root /\ s[i].component = c}
  <2>1. I # {} /\ I \subseteq Nat
    OBVIOUS
  <2>2. At(c) = Min(I)
    BY <2>1 DEF SelectInSeq
  <2>3. PICK i \in I : \A j \in I : i <= j
    BY <2>1, LeastMember
  <2>4. Min(I) \in I
    <3> HIDE DEF I
    <3> QED BY <2>3 DEF Min
  <2>5. At(c) \in DOMAIN s /\ s[At(c)].root /\ s[At(c)].component = c
    <3> HIDE DEF At
    <3> QED BY <2>2, <2>4
  <2> HIDE DEF At
  <2> QED BY <2>5 DEF ToSet
<1>3. DeletableLines(s) = SumFunction([c \in C |-> s[At(c)].lines])
  BY DEF DeletableLines
<1> HIDE DEF C, At
<1>4. [c \in C |-> s[At(c)].lines] = [c \in C |-> LinesRemoved(c)]
  BY <1>2
<1> QED BY <1>1, <1>3, <1>4

(* What the totals of an assembled report are.                             *)
NothingCounted(uncounted) ==
  [omitted |-> 0, severity |-> << >>, findings |-> 0, lines |-> 0, stale |-> 0, pending |-> 0,
   inEffect |-> uncounted.inEffect, reasons |-> uncounted.reasons, withheld |-> uncounted.withheld]
Tallied(r, t) ==
  /\ t = [total \in DOMAIN t |-> t[total]] /\ "omitted" \in DOMAIN t /\ t.omitted = 0
  /\ t.findings = Len(r.findings) /\ t.severity = BySeverity(r.findings)
  /\ t.lines = DeletableLines(r.findings) /\ t.stale = Len(r.stale)
  /\ t.pending = Cardinality({i \in DOMAIN r.evaluations : r.evaluations[i].state = "dead"})

Recounted(totals, findings, severity, lines, stale) ==
  [totals EXCEPT !.findings = findings, !.severity = severity, !.lines = lines, !.stale = stale]
Awaiting(totals, pending) == [totals EXCEPT !.pending = pending]
Counts(t, findings, severity, lines, stale, pending) ==
  /\ t = [total \in DOMAIN t |-> t[total]] /\ "omitted" \in DOMAIN t /\ t.omitted = 0
  /\ t.findings = findings /\ t.severity = severity /\ t.lines = lines /\ t.stale = stale /\ t.pending = pending

LEMMA CountedFromNothing ==
  ASSUME NEW uncounted, NEW findings, NEW severity, NEW lines, NEW stale, NEW pending
  PROVE  Counts(Awaiting(Recounted(NothingCounted(uncounted), findings, severity, lines, stale), pending),
                findings, severity, lines, stale, pending)
<1> DEFINE z == NothingCounted(uncounted)
           c == Recounted(z, findings, severity, lines, stale)
           t == Awaiting(c, pending)
<1>1. DOMAIN z = {"omitted", "severity", "findings", "lines", "stale", "pending", "inEffect", "reasons", "withheld"} /\ z.omitted = 0
  BY DEF NothingCounted
<1> HIDE DEF z
<1>2. c = [z EXCEPT !.findings = findings, !.severity = severity, !.lines = lines, !.stale = stale]
  BY DEF Recounted
<1>3. t = [c EXCEPT !.pending = pending]
  BY DEF Awaiting
<1> HIDE DEF c, t
<1>4. /\ DOMAIN c = DOMAIN z /\ c.omitted = 0
      /\ c.findings = findings /\ c.severity = severity /\ c.lines = lines /\ c.stale = stale
  BY <1>1, <1>2
<1>5. Counts(t, findings, severity, lines, stale, pending)
  BY <1>1, <1>3, <1>4 DEF Counts
<1> QED BY <1>5 DEF t, c, z

LEMMA CompletedCounts ==
  ASSUME NEW r, {"components", "totals"} \subseteq DOMAIN r,
         NEW uncounted, r.totals = NothingCounted(uncounted), NEW members
  PROVE  Tallied(r, Completed(r, members).totals)
<1> DEFINE l == Listing(r, members)
           listed == IF members = None THEN r ELSE [r EXCEPT !.components = l]
           dead == Cardinality({i \in DOMAIN r.evaluations : r.evaluations[i].state = "dead"})
           severity == BySeverity(r.findings)
           lines == DeletableLines(r.findings)
           t == Completed(r, members).totals
           counted == Recounted(NothingCounted(uncounted), Len(r.findings), severity, lines, Len(r.stale))
<1>1. Completed(r, members) = [Recount(listed) EXCEPT !.totals = Awaiting(@, dead)]
  BY DEF Completed, Awaiting
<1> HIDE DEF l, dead
<1>2. /\ "totals" \in DOMAIN listed /\ listed.totals = r.totals
      /\ listed.findings = r.findings /\ listed.stale = r.stale
  OBVIOUS
<1> HIDE DEF listed
<1>3. Recount(listed) = [listed EXCEPT !.totals = counted]
  BY <1>2 DEF Recount, Recounted
<1> HIDE DEF counted
<1>4. t = Awaiting(counted, dead)
  BY <1>1, <1>2, <1>3
<1> HIDE DEF t
<1>5. Counts(t, Len(r.findings), severity, lines, Len(r.stale), dead)
  <2> HIDE DEF severity, lines
  <2> QED BY <1>4, CountedFromNothing DEF counted
<1>6. Tallied(r, t)
  BY <1>5 DEF Tallied, Counts, severity, lines, dead
<1> QED BY <1>6 DEF t

LEMMA BuildCounts ==
  ASSUME NEW in \in Inputs
  PROVE  LET t == Build(in).totals
         IN  /\ t = [total \in DOMAIN t |-> t[total]] /\ "omitted" \in DOMAIN t /\ t.omitted = 0
             /\ t.findings = Len(in.findings)
             /\ t.severity = [s \in ToSet(Severities) |-> Cardinality({i \in DOMAIN in.findings : in.findings[i].severity = s})]
             /\ t.lines = SumFunction([c \in RootsAmong(in.findings) |-> LinesRemoved(c)])
             /\ t.stale = Len(in.stale)
             /\ t.pending = Cardinality({i \in DOMAIN in.evaluations : in.evaluations[i].state = "dead"})
<1> DEFINE A == Assembled(in)
           O == Order(A)
           t == Build(in).totals
<1>1. /\ Arrays \union {"components", "totals"} \subseteq DOMAIN A
      /\ \A array \in Arrays \ {"mergedFrom"} : array \in DOMAIN in /\ A[array] = in[array]
      /\ O = [member \in DOMAIN A |-> Canonical(member, A[member])]
  BY AssembledHolds
<1>2. A.totals = NothingCounted(in.uncounted)
  BY DEF Assembled, NothingCounted
<1>3. t = Completed(O, in.members).totals
  BY DEF Build
<1> HIDE DEF A, O, t
<1>4. {"components", "totals"} \subseteq DOMAIN O /\ O.totals = A.totals
  BY <1>1, NoArray DEF Canonical
<1>5. /\ t = [total \in DOMAIN t |-> t[total]] /\ "omitted" \in DOMAIN t /\ t.omitted = 0
      /\ t.findings = Len(O.findings) /\ t.severity = BySeverity(O.findings)
      /\ t.lines = DeletableLines(O.findings) /\ t.stale = Len(O.stale)
      /\ t.pending = Cardinality({i \in DOMAIN O.evaluations : O.evaluations[i].state = "dead"})
  <2>1. Tallied(O, t)
    BY <1>2, <1>3, <1>4, CompletedCounts
  <2> QED BY <2>1 DEF Tallied
<1>6. \A array \in {"findings", "stale", "evaluations"} :
        in[array] \in Seq(ToSet(in[array])) /\ Rearranged(in[array], O[array])
  <2> SUFFICES ASSUME NEW array \in {"findings", "stale", "evaluations"}
               PROVE  in[array] \in Seq(ToSet(in[array])) /\ Rearranged(in[array], O[array])
    OBVIOUS
  <2>1. array \in Arrays \ {"mergedFrom"} /\ array \notin Listed \union {"languages"}
    BY DEF Arrays, ById, Listed
  <2>2. O[array] = Sorted(array, in[array])
    BY <1>1, <2>1 DEF Canonical
  <2>3. Keyed(array, in[array])
    BY <2>1, InputsAreWhole
  <2> QED BY <2>2, <2>3, SortedRearranges DEF Keyed, IsList
<1> DEFINE u == in.findings
           v == O.findings
           S == ToSet(u)
<1>7. u \in Seq(S) /\ Rearranged(u, v)
  BY <1>6
<1> DEFINE e == in.evaluations
           w == O.evaluations
           E == ToSet(e)
<1>8. e \in Seq(E) /\ Rearranged(e, w)
  BY <1>6
<1>9. in.stale \in Seq(ToSet(in.stale)) /\ Rearranged(in.stale, O.stale)
  BY <1>6
<1>a. \A f \in S : f.root => f.lines = LinesRemoved(f.component)
  BY RootsAreMeasured
<1>b. DOMAIN v = DOMAIN u /\ DOMAIN w = DOMAIN e
  BY <1>7, <1>8 DEF Rearranged
<1>c. (\A i \in DOMAIN u : u[i] \in S) /\ (\A i \in DOMAIN e : e[i] \in E)
  BY DEF ToSet
<1>d. t.findings = Len(in.findings) /\ t.stale = Len(in.stale)
  <2> HIDE DEF v, u, S
  <2>1. Len(v) = Len(u)
    BY <1>7, RearrangedBack
  <2>2. Len(O.stale) = Len(in.stale)
    BY <1>9, RearrangedBack
  <2> QED BY <1>5, <2>1, <2>2 DEF u, v
<1> HIDE DEF u, v, S, e, w, E
<1>10. v \in Seq(S) /\ w \in Seq(E)
  BY <1>7, <1>8, RearrangedBack
<1>e. (\A i \in DOMAIN v : v[i] \in S) /\ (\A i \in DOMAIN w : w[i] \in E)
  BY <1>10
<1>11. BySeverity(v) = [s \in ToSet(Severities) |-> Cardinality({i \in DOMAIN u : u[i].severity = s})]
  <2>1. ASSUME NEW s PROVE Cardinality({i \in DOMAIN v : v[i].severity = s}) = Cardinality({i \in DOMAIN u : u[i].severity = s})
    <3> DEFINE T == {f \in S : f.severity = s}
    <3>1. Cardinality(Valued(v, T)) = Cardinality(Valued(u, T))
      BY <1>7, RearrangedCounts
    <3>2. Valued(v, T) = {i \in DOMAIN v : v[i].severity = s} /\ Valued(u, T) = {i \in DOMAIN u : u[i].severity = s}
      BY <1>c, <1>e DEF Valued
    <3> QED BY <3>1, <3>2
  <2> QED BY <2>1 DEF BySeverity
<1>12. Cardinality({i \in DOMAIN w : w[i].state = "dead"}) = Cardinality({i \in DOMAIN e : e[i].state = "dead"})
  <2> DEFINE T == {x \in E : x.state = "dead"}
  <2>1. Cardinality(Valued(w, T)) = Cardinality(Valued(e, T))
    BY <1>8, RearrangedCounts
  <2>2. Valued(w, T) = {i \in DOMAIN w : w[i].state = "dead"} /\ Valued(e, T) = {i \in DOMAIN e : e[i].state = "dead"}
    BY <1>c, <1>e DEF Valued
  <2> QED BY <2>1, <2>2
<1>13. ToSet(v) = S
  <2>1. \A i \in DOMAIN u : \E j \in DOMAIN u : v[j] = u[i]
    BY <1>7, RearrangedBack
  <2>2. S = {u[i] : i \in DOMAIN u}
    BY DEF S, ToSet
  <2> QED BY <1>b, <1>e, <2>1, <2>2 DEF ToSet
<1>14. DeletableLines(v) = SumFunction([c \in RootsAmong(u) |-> LinesRemoved(c)])
  <2>1. RootsAmong(v) = RootsAmong(u)
    BY <1>13 DEF RootsAmong, S
  <2>2. DeletableLines(v) = SumFunction([c \in RootsAmong(v) |-> LinesRemoved(c)])
    BY <1>10, <1>13, <1>a, RootsCountedOnce
  <2> QED BY <2>1, <2>2
<1> QED BY <1>5, <1>d, <1>11, <1>12, <1>14 DEF u, v, e, w, t

(* The verdict fails where a finding is as severe as what fails a run.     *)
LEMMA SeveritiesApart ==
  /\ DOMAIN Severities = 1 .. 3 /\ Len(Severities) = 3
  /\ \A i, j \in 1 .. 3 : Severities[i] = Severities[j] => i = j
<1>1. Len(Severities) = 3 /\ DOMAIN Severities = 1 .. 3
  BY DEF Severities
<1>2. Severities[1] = "allow" /\ Severities[2] = "warn" /\ Severities[3] = "deny"
  BY DEF Severities
<1>3. \A i \in 1 .. 3 : i = 1 \/ i = 2 \/ i = 3
  OBVIOUS
<1> QED BY <1>1, <1>2, <1>3

LEMMA FailsAsFound ==
  ASSUME NEW S, NEW s \in Seq(S), NEW counts,
         counts = [v \in ToSet(Severities) |-> Cardinality({i \in DOMAIN s : s[i].severity = v})],
         NEW failOn \in ToSet(Severities)
  PROVE  Failing(counts, failOn) <=>
           \E f \in ToSet(s), i, j \in DOMAIN Severities : i <= j /\ failOn = Severities[i] /\ f.severity = Severities[j]
<1>1. PICK k \in 1 .. 3 : Severities[k] = failOn
  BY SeveritiesApart DEF ToSet
<1>2. SelectInSeq(Severities, LAMBDA v : v = failOn) = k
  <2> DEFINE I == {i \in 1 .. Len(Severities) : Severities[i] = failOn}
  <2>1. I = {k}
    BY <1>1, SeveritiesApart
  <2>2. SelectInSeq(Severities, LAMBDA v : v = failOn) = IF I # {} THEN Min(I) ELSE 0
    BY DEF SelectInSeq
  <2> HIDE DEF I
  <2>3. Min(I) = k
    BY <2>1 DEF Min
  <2> QED BY <2>1, <2>2, <2>3
<1>3. ASSUME NEW j \in 1 .. 3 PROVE counts[Severities[j]] > 0 <=> \E f \in ToSet(s) : f.severity = Severities[j]
  <2> DEFINE P == {i \in DOMAIN s : s[i].severity = Severities[j]}
  <2>1. Severities[j] \in ToSet(Severities)
    BY SeveritiesApart DEF ToSet
  <2>2. counts[Severities[j]] = Cardinality(P)
    BY <2>1
  <2>3. IsFiniteSet(DOMAIN s)
    <3>1. DOMAIN s = 1 .. Len(s) /\ Len(s) \in Nat
      OBVIOUS
    <3> QED BY <3>1, FS_Interval
  <2>4. IsFiniteSet(P)
    BY <2>3, FS_Subset
  <2>5. P # {} <=> \E f \in ToSet(s) : f.severity = Severities[j]
    BY DEF ToSet
  <2> HIDE DEF P
  <2>6. Cardinality(P) \in Nat /\ (Cardinality(P) = 0 <=> P = {})
    BY <2>4, FS_CardinalityType, FS_EmptySet
  <2> QED BY <2>2, <2>5, <2>6
<1>4. Failing(counts, failOn) <=> \E j \in k .. 3 : counts[Severities[j]] > 0
  BY <1>2, SeveritiesApart DEF Failing
<1>5. \A i \in 1 .. 3 : failOn = Severities[i] <=> i = k
  BY <1>1, SeveritiesApart
<1>6. k .. 3 \subseteq 1 .. 3 /\ DOMAIN Severities = 1 .. 3
  BY SeveritiesApart
<1>7. Failing(counts, failOn) <=> \E j \in k .. 3, f \in ToSet(s) : f.severity = Severities[j]
  BY <1>3, <1>4, <1>6
<1>8. ASSUME NEW f \in ToSet(s), NEW i \in 1 .. 3, NEW j \in 1 .. 3, i <= j, failOn = Severities[i], f.severity = Severities[j]
      PROVE  j \in k .. 3
  BY <1>5, <1>8
<1>9. \A j \in k .. 3 : j \in 1 .. 3 /\ k <= j /\ failOn = Severities[k]
  BY <1>1
<1> QED BY <1>6, <1>7, <1>8, <1>9

-----------------------------------------------------------------------------
(* The totals a held report has: those it was built or read with, but for  *)
(* what the caps since left out.                                           *)
Origin(in) == IF "totals" \in DOMAIN in THEN in ELSE Build(in)
Leaving(totals, n) == [totals EXCEPT !.omitted = @ + n]
Countable(totals) ==
  totals = [total \in DOMAIN totals |-> totals[total]] /\ "omitted" \in DOMAIN totals /\ totals.omitted \in Nat
Counted(in, r) ==
  /\ Countable(Origin(in).totals)
  /\ r.totals = Leaving(Origin(in).totals, Len(in.findings) - Len(r.findings))

LEMMA LeavingNothing ==
  ASSUME NEW totals, Countable(totals), NEW m \in Int, NEW n \in Int
  PROVE  /\ Leaving(totals, 0) = totals
         /\ Leaving(Leaving(totals, m), n) = Leaving(totals, m + n)
<1>1. Leaving(totals, 0) = totals
  BY DEF Leaving, Countable
<1> DEFINE held == Leaving(totals, m)
<1>2. held = [total \in DOMAIN totals |-> IF total = "omitted" THEN totals.omitted + m ELSE totals[total]]
  BY DEF Leaving, Countable
<1> HIDE DEF held
<1>3. Leaving(held, n) = [total \in DOMAIN held |-> IF total = "omitted" THEN held.omitted + n ELSE held[total]]
  BY <1>2 DEF Leaving
<1>4. Leaving(totals, m + n) = [total \in DOMAIN totals |-> IF total = "omitted" THEN totals.omitted + (m + n) ELSE totals[total]]
  BY DEF Leaving, Countable
<1>5. held.omitted + n = totals.omitted + (m + n) /\ DOMAIN held = DOMAIN totals
  BY <1>2 DEF Countable
<1>6. Leaving(held, n) = Leaving(totals, m + n)
  BY <1>2, <1>3, <1>4, <1>5
<1> QED BY <1>1, <1>6 DEF held

(* A cap takes what it leaves out off the findings and adds it to the      *)
(* omitted ones.                                                           *)
LEMMA CapCounts ==
  ASSUME NEW r, Shaped(r), InPlace(r), Whole(r), NEW members, ListedWith(r, members),
         NEW most \in Int, NEW bySize \in BOOLEAN, Countable(r.totals)
  PROVE  Cap(r, most, bySize).totals = Leaving(r.totals, Len(r.findings) - Len(Cap(r, most, bySize).findings))
<1> DEFINE q == Cap(r, most, bySize)
<1>1. Len(q.findings) = IF most <= 0 \/ Len(r.findings) <= most THEN Len(r.findings) ELSE most
  BY CapHolds
<1>2. Len(r.findings) \in Nat
  BY DEF Whole, Keyed, IsList
<1>3. CASE most <= 0 \/ Len(r.findings) <= most
  <2>1. q = r
    BY <1>3 DEF Cap
  <2> HIDE DEF q
  <2>2. Len(r.findings) - Len(q.findings) = 0
    BY <1>2, <2>1
  <2> QED BY <2>1, <2>2, LeavingNothing DEF q
<1>4. CASE ~ (most <= 0 \/ Len(r.findings) <= most)
  <2> DEFINE ranked == IF bySize THEN BySize(r.findings) ELSE r.findings
             kept == Sorted("findings", SubSeq(ranked, 1, most))
             left == [r.totals EXCEPT !.omitted = @ + Len(r.findings) - most]
             capped == [r EXCEPT !.findings = kept, !.totals = left]
             asWritten == [r EXCEPT !.findings = kept, !.totals.omitted = @ + Len(r.findings) - most]
             l == Listing(capped, MembersOf(capped))
  <2>1. q = Relisted(asWritten)
    BY <1>4, Zenon DEF Cap
  <2> HIDE DEF q, kept, l
  <2>2. {"findings", "totals", "components"} \subseteq DOMAIN r
    BY DEF Shaped, Arrays
  <2>3. q = Relisted(capped)
    <3>1. asWritten = capped
      BY <2>2
    <3> HIDE DEF asWritten, capped
    <3> QED BY <2>1, <3>1
  <2>4. capped.totals = left
    BY <2>2
  <2> HIDE DEF capped, left
  <2>5. q.totals = left
    <3>1. q = IF capped.components = None THEN capped ELSE [capped EXCEPT !.components = l]
      BY <2>3 DEF Relisted, l
    <3> QED BY <2>4, <3>1
  <2>6. left = Leaving(r.totals, Len(r.findings) - most)
    BY <1>2 DEF left, Leaving, Countable
  <2> QED BY <1>1, <1>4, <2>5, <2>6 DEF q
<1> QED BY <1>3, <1>4

TotalsInv == ReportInv /\ (phase \notin {"answered", "refused"} => Counted(input, report))

(* It is inductive with the invariant of the records.                      *)
LEMMA StepTotals ==
  TotalsInv /\ [Next]_vars => TotalsInv'
<1> SUFFICES ASSUME TotalsInv, [Next]_vars PROVE TotalsInv'
  OBVIOUS
<1>1. ReportInv /\ ReportInv' /\ (phase \notin {"answered", "refused"} => Counted(input, report))
  BY StepReport DEF TotalsInv
<1> SUFFICES ASSUME phase' \notin {"answered", "refused"} PROVE Counted(input, report)'
  BY <1>1 DEF TotalsInv
<1>2. CASE RefuseInput
  BY <1>2 DEF RefuseInput
<1>3. CASE Assemble
  <2>1. input \in Inputs /\ "totals" \notin DOMAIN input /\ report' = Build(input) /\ input' = input
    BY <1>1, <1>3, NoInputIsADocument DEF Assemble, ReportInv, IsDocument
  <2>2. Countable(Build(input).totals)
    <3> DEFINE t == Build(input).totals
    <3>1. t = [total \in DOMAIN t |-> t[total]] /\ "omitted" \in DOMAIN t /\ t.omitted = 0
      BY <2>1, BuildCounts
    <3> HIDE DEF t
    <3>2. Countable(t)
      BY <3>1 DEF Countable
    <3> QED BY <3>2 DEF t
  <2>3. Len(Build(input).findings) = Len(input.findings) /\ Len(input.findings) \in Nat
    <3> DEFINE u == input.findings
               v == Build(input).findings
               S == ToSet(u)
    <3>1. u \in Seq(S) /\ Rearranged(u, v)
      BY <2>1, BuildHolds, InputsAreWhole DEF Arrays, Keyed, IsList
    <3> HIDE DEF u, v, S
    <3>2. Len(v) = Len(u) /\ Len(u) \in Nat
      BY <3>1, RearrangedBack
    <3> QED BY <3>2 DEF u, v
  <2>4. Leaving(Build(input).totals, 0) = Build(input).totals
    BY <2>2, LeavingNothing
  <2>5. Len(input.findings) - Len(Build(input).findings) = 0
    BY <2>3
  <2>6. Origin(input) = Build(input)
    BY <2>1 DEF Origin
  <2> QED BY <2>1, <2>2, <2>4, <2>5, <2>6 DEF Counted
<1>4. CASE Decode
  <2>1. input \in Documents /\ "totals" \in DOMAIN input /\ report' = input /\ input' = input
    BY <1>1, <1>4, NoInputIsADocument DEF Decode, ReportInv, IsDocument
  <2>2. Countable(input.totals) /\ Len(input.findings) \in Nat
    <3>1. Keyed("findings", input.findings)
      BY <2>1, DocumentsAreCanonical
    <3>2. Len(input.findings) \in Nat
      BY <3>1 DEF Keyed, IsList
    <3>3. Countable(input.totals)
      BY <2>1, DocumentsAreCanonical DEF Countable
    <3> QED BY <3>2, <3>3
  <2>3. Leaving(input.totals, 0) = input.totals /\ Len(input.findings) - Len(input.findings) = 0
    BY <2>2, LeavingNothing
  <2>4. Origin(input) = input
    BY <2>1 DEF Origin
  <2> QED BY <2>1, <2>2, <2>3, <2>4 DEF Counted
<1>5. CASE OrderAgain
  <2>1. Settled(input, report, caps) /\ phase = "held" /\ report' = Order(report) /\ input' = input
    BY <1>1, <1>5 DEF OrderAgain, ReportInv
  <2>2. Order(report) = report
    BY <2>1, OrderChangesNothing DEF Settled
  <2> QED BY <1>1, <2>1, <2>2 DEF Counted
<1>6. ASSUME NEW most \in Most, NEW bySize \in BOOLEAN, CapFindings(most, bySize) PROVE Counted(input, report)'
  <2>1. /\ Settled(input, report, caps) /\ Counted(input, report) /\ most \in Int
        /\ report' = Cap(report, most, bySize) /\ input' = input
    BY <1>1, <1>6, ReportAssumption DEF CapFindings, ReportInv
  <2> DEFINE all == Len(input.findings)
             held == Len(report.findings)
             kept == Len(report'.findings)
             totals == Origin(input).totals
  <2>2. Countable(totals) /\ report.totals = Leaving(totals, all - held)
    BY <2>1 DEF Counted
  <2>3. all \in Nat /\ held \in Nat /\ held <= all
    BY <2>1 DEF Settled, Capped
  <2>4. kept \in Nat
    <3>1. Settled(input, report, caps)'
      BY <1>1, <1>6 DEF CapFindings, ReportInv
    <3> QED BY <3>1 DEF Settled, Capped
  <2>5. Countable(report.totals)
    <3> HIDE DEF totals, all, held
    <3>1. all - held \in Nat
      BY <2>3
    <3> QED BY <2>2, <3>1 DEF Leaving, Countable
  <2>6. report'.totals = Leaving(report.totals, held - kept)
    BY <2>1, <2>5, CapCounts DEF Settled
  <2> HIDE DEF totals, all, held, kept
  <2>7. Leaving(Leaving(totals, all - held), held - kept) = Leaving(totals, (all - held) + (held - kept))
    BY <2>2, <2>3, <2>4, LeavingNothing
  <2>8. (all - held) + (held - kept) = all - kept
    BY <2>3, <2>4
  <2>9. report'.totals = Leaving(totals, all - kept)
    BY <2>2, <2>6, <2>7, <2>8
  <2> QED BY <2>1, <2>2, <2>9 DEF Counted, totals, all, kept
<1>7. CASE Encode
  BY <1>1, <1>7 DEF Encode, Counted
<1>8. ASSUME NEW format, NEW bySize, RenderAs(format, bySize) PROVE Counted(input, report)'
  BY <1>1, <1>8 DEF RenderAs, Counted
<1>9. CASE UNCHANGED vars
  BY <1>1, <1>9 DEF vars, Counted
<1> QED BY <1>2, <1>3, <1>4, <1>5, <1>6, <1>7, <1>8, <1>9 DEF Next

(* Whatever was capped, the totals of an assembled report are the run's,   *)
(* its verdict with them, and of a document's only the omitted change.     *)
THEOREM TotalsStayTrue ==
  Spec => []TotalsDescribeTheRun
<1>1. Init => TotalsInv
  BY InitReport DEF Init, TotalsInv
<1>2. TotalsInv /\ [Next]_vars => TotalsInv'
  BY StepTotals
<1>3. TotalsInv => TotalsDescribeTheRun
  <2> SUFFICES ASSUME TotalsInv, Held PROVE TotalsDescribeTheRun
    BY DEF TotalsDescribeTheRun
  <2> DEFINE t == report.totals
  <2>1. Counted(input, report) /\ Len(input.findings) \in Nat /\ Len(report.findings) \in Nat /\ input \in Inputs \union Documents
    BY DEF TotalsInv, ReportInv, Held, Settled, Capped
  <2>2. LeftOut \in Int /\ t = Leaving(Origin(input).totals, LeftOut) /\ Countable(Origin(input).totals)
    BY <2>1 DEF Counted, LeftOut
  <2>3. CASE IsDocument
    <3>1. Origin(input) = input
      BY <2>3 DEF Origin, IsDocument
    <3> QED BY <2>2, <2>3, <3>1 DEF TotalsDescribeTheRun, Leaving
  <2>4. CASE ~ IsDocument
    <3> DEFINE b == Build(input).totals
               counts == [s \in ToSet(Severities) |-> Cardinality({i \in DOMAIN input.findings : input.findings[i].severity = s})]
               lines == SumFunction([c \in RootsNamed |-> LinesRemoved(c)])
               dead == Cardinality({i \in DOMAIN input.evaluations : input.evaluations[i].state = "dead"})
    <3>1. Origin(input) = Build(input) /\ input \in Inputs
      BY <2>1, <2>4, NoInputIsADocument DEF Origin, IsDocument
    <3>2. RootsNamed = RootsAmong(input.findings)
      BY DEF RootsNamed, RootsAmong, All
    <3>3. /\ b.omitted = 0 /\ b.findings = Len(input.findings) /\ b.severity = counts
          /\ b.lines = lines /\ b.stale = Len(input.stale) /\ b.pending = dead
      BY <3>1, <3>2, BuildCounts
    <3>4. t = Leaving(b, LeftOut) /\ Countable(b)
      BY <2>2, <3>1
    <3>5. LeftOut \in Int
      BY <2>2
    <3> HIDE DEF b, t, counts, lines, dead
    <3>6. /\ t.omitted = LeftOut /\ t.findings = Len(input.findings) /\ t.severity = counts
          /\ t.lines = lines /\ t.stale = Len(input.stale) /\ t.pending = dead
      BY <3>3, <3>4, <3>5 DEF Leaving, Countable
    <3>7. ASSUME NEW failOn \in ToSet(Severities)
          PROVE  Verdict(t, failOn) =
                   CASE t.pending > 0 -> "pending"
                     [] t.pending = 0 /\ \/ input.stale # << >>
                                         \/ \E f \in All, i, j \in DOMAIN Severities :
                                              i <= j /\ failOn = Severities[i] /\ f.severity = Severities[j] -> "findings"
                     [] OTHER -> "clean"
      <4>1. input.findings \in Seq(All) /\ input.stale \in Seq(ToSet(input.stale))
        BY <3>1, InputsAreWhole DEF Arrays, ById, Listed, Keyed, IsList, All
      <4>2. Failing(t.severity, failOn) <=>
              \E f \in All, i, j \in DOMAIN Severities : i <= j /\ failOn = Severities[i] /\ f.severity = Severities[j]
        BY <3>6, <4>1, FailsAsFound DEF counts, All
      <4>3. t.stale > 0 <=> input.stale # << >>
        BY <3>6, <4>1
      <4> QED BY <4>2, <4>3 DEF Verdict
    <3> QED BY <2>4, <3>6, <3>7 DEF TotalsDescribeTheRun, t, counts, lines, dead
  <2> QED BY <2>3, <2>4
<1> QED BY <1>1, <1>2, <1>3, PTL DEF Spec

-----------------------------------------------------------------------------
(* What a log holds.                                                       *)
(* A finite set of numbers from the least up.                              *)
LEMMA RisesThrough ==
  ASSUME NEW P, P \subseteq Int, IsFiniteSet(P)
  PROVE  /\ Cardinality(P) \in Nat /\ Rising(P) \in Bijection(1 .. Cardinality(P), P)
         /\ \A a, b \in 1 .. Cardinality(P) : a < b => Rising(P)[a] < Rising(P)[b]
<1> DEFINE keys == [i \in P |-> << >>]
           n == Cardinality(P)
           at == Arranged(P, keys)
<1>1. P \subseteq Int /\ keys \in [P -> [1 .. 0 -> Int]]
  OBVIOUS
<1>2. Ordered(P, keys)
  BY <1>1, KeysOrder
<1>3. \A i, j \in P : Ahead(keys, j, i) <=> j < i
  <2>1. ~ Precedes(<< >>, << >>)
    BY DEF Precedes
  <2> QED BY <2>1 DEF Ahead
<1>4. /\ n \in Nat /\ at \in Bijection(1 .. n, P)
      /\ \A a, b \in 1 .. n : a < b => Ahead(keys, at[a], at[b])
  BY <1>2, Arrangement
<1>5. at \in [1 .. n -> P]
  BY <1>4 DEF Bijection, Injection
<1>6. Rising(P) = at
  BY DEF Rising
<1> HIDE DEF at, n, keys
<1>7. \A a, b \in 1 .. n : a < b => at[a] < at[b]
  BY <1>3, <1>4, <1>5
<1> QED BY <1>4, <1>6, <1>7 DEF n

LEMMA BijectionIs ==
  ASSUME NEW S, NEW T, NEW f \in Bijection(S, T)
  PROVE  /\ f \in [S -> T]
         /\ \A x, y \in S : f[x] = f[y] => x = y
         /\ \A y \in T : \E x \in S : f[x] = y
BY DEF Bijection, Injection, Surjection, IsInjective

(* As many of one as of the other.                                         *)
LEMMA CountedAlike ==
  ASSUME NEW S, IsFiniteSet(S), NEW T, NEW f \in [S -> T],
         \A x, y \in S : f[x] = f[y] => x = y,
         \A y \in T : \E x \in S : f[x] = y
  PROVE  IsFiniteSet(T) /\ Cardinality(T) = Cardinality(S) /\ f \in Bijection(S, T)
<1>1. f \in Bijection(S, T)
  BY DEF Bijection, Injection, Surjection, IsInjective
<1> QED BY <1>1, FS_Bijection DEF ExistsBijection

(* The lines of a file: one more than it has line ends.                    *)
LineEnds(content) == LoneFeeds(content) \union {i \in DOMAIN content : content[i] = CR}
LEMMA LinesCounted ==
  ASSUME NEW content \in Seq(Nat)
  PROVE  /\ LinesIn(content) \in Nat
         /\ DOMAIN LineHashes(content) = 1 .. LinesIn(content)
<1> DEFINE K == {i \in DOMAIN content : content[i] \notin Blank /\ ~ (content[i] = LF /\ AfterReturn(content, i))}
           kept == Selected(content, K)
           units == SignificantUnits(content)
           E == {j \in 1 .. Len(units) - 1 : units[j] = LF}
           next == {i + 1 : i \in E}
           starts == {1} \union next
<1>1. PICK n \in Nat : \E at \in Bijection(1 .. n, K) : kept = [k \in 1 .. n |-> content[at[k]]]
  <2> HIDE DEF K
  <2>1. K \subseteq DOMAIN content
    BY DEF K
  <2> QED BY <2>1, Selection
<1>2. PICK at \in Bijection(1 .. n, K) : kept = [k \in 1 .. n |-> content[at[k]]]
  BY <1>1
<1>3. /\ at \in [1 .. n -> K]
      /\ \A x, y \in 1 .. n : at[x] = at[y] => x = y
      /\ \A y \in K : \E x \in 1 .. n : at[x] = y
  <2> HIDE DEF K, kept
  <2> QED BY <1>2, BijectionIs
<1> DEFINE shown == [i \in DOMAIN kept |-> IF kept[i] = CR THEN LF ELSE kept[i]]
<1>4. units = Append(shown, Sentinel)
  BY DEF SignificantUnits
<1>5. DOMAIN kept = 1 .. n /\ \A k \in 1 .. n : kept[k] \in Nat /\ kept[k] = content[at[k]]
  <2>1. K \subseteq DOMAIN content /\ \A i \in DOMAIN content : content[i] \in Nat
    OBVIOUS
  <2> HIDE DEF K, kept
  <2> QED BY <1>2, <1>3, <2>1
<1>6. /\ shown \in Seq(Nat) /\ Len(shown) = n
      /\ \A k \in 1 .. n : shown[k] = LF <=> content[at[k]] \in {CR, LF}
  <2> HIDE DEF K, kept
  <2>1. \A k \in 1 .. n : shown[k] \in Nat /\ (shown[k] = LF <=> content[at[k]] \in {CR, LF})
    BY <1>5 DEF CR, LF
  <2>2. shown \in [1 .. n -> Nat]
    BY <1>5, <2>1
  <2> HIDE DEF shown
  <2> QED BY <2>1, <2>2
<1>7. Len(units) = n + 1 /\ \A k \in 1 .. n : units[k] = shown[k]
  <2>1. Sentinel \in Nat
    BY DEF Sentinel
  <2> HIDE DEF shown, units
  <2> QED BY <1>4, <1>6, <2>1
<1>8. E = {j \in 1 .. n : content[at[j]] \in {CR, LF}}
  <2> HIDE DEF shown, units
  <2> QED BY <1>6, <1>7
<1> HIDE DEF E, shown, units, kept
<1>9. IsFiniteSet(E) /\ E \subseteq 1 .. n
  <2>1. IsFiniteSet(1 .. n)
    BY FS_Interval
  <2>2. E \subseteq 1 .. n
    BY <1>8
  <2> QED BY <2>1, <2>2, FS_Subset
<1>10. Cardinality(LineEnds(content)) = Cardinality(E)
  <2> DEFINE f == [j \in E |-> at[j]]
  <2>1. f \in [E -> LineEnds(content)]
    BY <1>3, <1>8 DEF LineEnds, LoneFeeds
  <2>2. \A x, y \in E : f[x] = f[y] => x = y
    BY <1>3, <1>9
  <2>3. \A y \in LineEnds(content) : \E x \in E : f[x] = y
    <3> SUFFICES ASSUME NEW y \in LineEnds(content) PROVE \E x \in E : f[x] = y
      OBVIOUS
    <3>1. y \in K /\ content[y] \in {CR, LF}
      BY DEF LineEnds, LoneFeeds, CR, LF, Blank
    <3>2. PICK x \in 1 .. n : at[x] = y
      BY <1>3, <3>1
    <3> QED BY <1>8, <3>1, <3>2
  <2> HIDE DEF f
  <2> QED BY <1>9, <2>1, <2>2, <2>3, CountedAlike
<1>11. IsFiniteSet(next) /\ Cardinality(next) = Cardinality(E)
  <2> DEFINE f == [j \in E |-> j + 1]
  <2>1. f \in [E -> next]
    OBVIOUS
  <2>2. \A x, y \in E : f[x] = f[y] => x = y
    BY <1>9
  <2>3. \A y \in next : \E x \in E : f[x] = y
    OBVIOUS
  <2> HIDE DEF f, next
  <2> QED BY <1>9, <2>1, <2>2, <2>3, CountedAlike
<1>12. 1 \notin next /\ next \subseteq Int
  BY <1>9
<1> HIDE DEF next
<1>13. starts = next \union {1}
  OBVIOUS
<1>14. IsFiniteSet(starts) /\ Cardinality(starts) = Cardinality(next) + 1
  BY <1>11, <1>12, <1>13, FS_AddElement
<1>15. Cardinality(E) \in Nat /\ starts \subseteq Int
  BY <1>9, <1>12, <1>13, FS_CardinalityType
<1> HIDE DEF starts
<1>16. LineStarts(units) = Rising(starts)
  BY DEF LineStarts, starts, next, E
<1>17. DOMAIN Rising(starts) = 1 .. Cardinality(starts)
  <2>1. Rising(starts) \in Bijection(1 .. Cardinality(starts), starts)
    BY <1>14, <1>15, RisesThrough
  <2> QED BY <2>1, BijectionIs
<1>18. DOMAIN LineHashes(content) = 1 .. Cardinality(starts)
  <2>1. DOMAIN LineHashes(content) = DOMAIN LineStarts(units)
    BY DEF LineHashes, units
  <2> QED BY <1>16, <1>17, <2>1
<1>19. LinesIn(content) = 1 + Cardinality(LineEnds(content))
  BY DEF LinesIn, LineEnds
<1> QED BY <1>10, <1>11, <1>14, <1>15, <1>18, <1>19

(* No two lines of a file have one fingerprint.                            *)
LEMMA FingerprintsApart ==
  ASSUME NEW content \in Seq(Nat), NEW l \in DOMAIN LineHashes(content), NEW m \in DOMAIN LineHashes(content),
         LineHashes(content)[l] = LineHashes(content)[m]
  PROVE  l = m
<1> DEFINE units == SignificantUnits(content)
           hashes == [n \in DOMAIN LineStarts(units) |-> LineHash(units, LineStarts(units)[n])]
           Same(n) == {k \in 1 .. n : hashes[k] = hashes[n]}
<1>1. LineHashes(content) = [n \in DOMAIN hashes |-> <<hashes[n], Cardinality(Same(n))>>]
  BY DEF LineHashes
<1>2. DOMAIN LineHashes(content) = DOMAIN hashes /\ DOMAIN hashes \subseteq Nat \ {0}
  <2>1. DOMAIN LineHashes(content) = DOMAIN hashes
    BY <1>1
  <2>2. DOMAIN LineHashes(content) \subseteq Nat \ {0}
    BY LinesCounted
  <2> QED BY <2>1, <2>2
<1> HIDE DEF hashes, units
<1>3. ASSUME NEW i \in DOMAIN hashes, NEW j \in DOMAIN hashes, i < j, hashes[i] = hashes[j]
      PROVE  Cardinality(Same(i)) # Cardinality(Same(j))
  <2>1. i \in Nat /\ j \in Nat /\ 0 < j
    BY <1>2
  <2>2. Same(i) \subseteq Same(j) /\ j \in Same(j) /\ j \notin Same(i)
    BY <1>3, <2>1
  <2>3. IsFiniteSet(Same(j))
    <3>1. IsFiniteSet(1 .. j) /\ Same(j) \subseteq 1 .. j
      BY <2>1, FS_Interval
    <3> QED BY <3>1, FS_Subset
  <2> HIDE DEF Same
  <2>4. Same(i) # Same(j)
    BY <2>2
  <2> QED BY <2>2, <2>3, <2>4, FS_Subset
<1>4. hashes[l] = hashes[m] /\ Cardinality(Same(l)) = Cardinality(Same(m))
  BY <1>1, <1>2
<1>5. l \in Nat /\ m \in Nat /\ (l < m \/ m < l \/ l = m)
  BY <1>2
<1> QED BY <1>2, <1>3, <1>4, <1>5

(* The rules of a run: the codes of its kinds.                             *)
LEMMA RuleIndexed ==
  ASSUME NEW kinds, kinds \subseteq Kinds, NEW code
  PROVE  LET rules == RulesFor(kinds)
         IN  /\ RuleIndex(rules, code) = 0 <=> ~ \E k \in kinds : k.code = code
             /\ RuleIndex(rules, code) # 0 => rules[RuleIndex(rules, code)] = code
<1> DEFINE codes == {k.code : k \in kinds}
           rules == RulesFor(kinds)
           I == {i \in 1 .. Len(rules) : rules[i] = code}
<1>1. IsFiniteSet(kinds)
  BY RenderingAssumption, FS_Subset
<1>2. IsFiniteSet(codes) /\ codes \subseteq Int
  <2>1. codes \subseteq Int
    BY RenderingAssumption
  <2> DEFINE f == [k \in kinds |-> k.code]
  <2>2. f \in Surjection(kinds, codes)
    BY DEF Surjection
  <2> QED BY <1>1, <2>1, <2>2, FS_Surjection
<1> HIDE DEF codes
<1>3. PICK n \in Nat : rules \in Bijection(1 .. n, codes)
  <2>1. rules = Rising(codes)
    BY DEF RulesFor, codes
  <2> QED BY <1>2, <2>1, RisesThrough
<1> HIDE DEF rules
<1>4. rules \in [1 .. n -> codes] /\ \A c \in codes : \E i \in 1 .. n : rules[i] = c
  BY <1>3, BijectionIs
<1>5. Len(rules) = n
  BY <1>4
<1>6. RuleIndex(rules, code) = IF I # {} THEN Min(I) ELSE 0
  BY DEF RuleIndex, SelectInSeq
<1>7. I = {} <=> ~ \E k \in kinds : k.code = code
  BY <1>4, <1>5 DEF codes
<1>8. ASSUME I # {} PROVE Min(I) \in I
  <2>1. I \subseteq Nat
    BY <1>5
  <2> HIDE DEF I
  <2>2. PICK i \in I : \A j \in I : i <= j
    BY <1>8, <2>1, LeastMember
  <2> QED BY <2>2 DEF Min
<1>9. I # {} => Min(I) # 0 /\ rules[Min(I)] = code
  BY <1>5, <1>8
<1> HIDE DEF I
<1> QED BY <1>6, <1>7, <1>9 DEF rules

-----------------------------------------------------------------------------
(* Two lists, one after the other.                                         *)
LEMMA Joined ==
  ASSUME NEW n \in Nat, NEW m \in Nat, NEW a, a = [i \in 1 .. n |-> a[i]], NEW b, b = [i \in 1 .. m |-> b[i]]
  PROVE  /\ DOMAIN (a \o b) = 1 .. n + m
         /\ \A i \in 1 .. n : (a \o b)[i] = a[i]
         /\ \A i \in 1 .. m : (a \o b)[n + i] = b[i]
<1> DEFINE T == {a[i] : i \in 1 .. n} \union {b[i] : i \in 1 .. m}
<1>1. a \in [1 .. n -> T] /\ b \in [1 .. m -> T]
  OBVIOUS
<1> HIDE DEF T
<1>2. a \in Seq(T) /\ Len(a) = n /\ b \in Seq(T) /\ Len(b) = m
  BY <1>1
<1> QED BY <1>2

(* What a result says of its record, and the records an analyzer carried.  *)
Answers(result, record, rules) ==
  /\ result.rule = RuleIndex(rules, record.code) /\ result.code = record.code
  /\ result.path = record.path /\ result.line = record.line
  /\ result.symbol = <<record.code, record.ref>>
  /\ result.hash = HashAt(Files, record.path, record.line)
PlacesOf(r, analyzer) == {p \in RecordPlaces(r) : RecordAt(r, p).analyzer = analyzer}

(* The results of a run are the records of its driver, each once.          *)
LEMMA ResultsAreRecords ==
  ASSUME NEW r, IsList(r.findings), IsList(r.stale), NEW analyzer, NEW rules
  PROVE  LET added == Add(r, analyzer, rules, Files)
         IN  \E place \in Bijection(DOMAIN added, PlacesOf(r, analyzer)) :
               \A k \in DOMAIN added : Answers(added[k], RecordAt(r, place[k]), rules)
<1> DEFINE F == {i \in DOMAIN r.findings : r.findings[i].analyzer = analyzer}
           G == {i \in DOMAIN r.stale : r.stale[i].analyzer = analyzer}
           listed == IF r.components = None THEN << >> ELSE MembersOf(r)
           found == RecordsCarried(r.findings, analyzer)
           stale == RecordsCarried(r.stale, analyzer)
           a == [i \in DOMAIN found |->
                   FindingResult(found[i], rules,
                     IF found[i].component \in DOMAIN listed THEN listed[found[i].component] ELSE << >>, Files)]
           b == [i \in DOMAIN stale |-> StaleResult(stale[i], rules, Files)]
           added == Add(r, analyzer, rules, Files)
<1>1. added = a \o b
  BY DEF Add
<1>2. found = Selected(r.findings, F) /\ stale = Selected(r.stale, G)
  BY DEF RecordsCarried
<1>3. \A f, members : Answers(FindingResult(f, rules, members, Files), f, rules)
  BY DEF Answers, FindingResult
<1>4. \A s : Answers(StaleResult(s, rules, Files), s, rules)
  BY DEF Answers, StaleResult
<1>5. r.findings \in Seq(ToSet(r.findings)) /\ F \subseteq DOMAIN r.findings /\ r.stale \in Seq(ToSet(r.stale)) /\ G \subseteq DOMAIN r.stale
  BY DEF IsList
<1>6. \A p : p \in PlacesOf(r, analyzer) <=> \/ \E i \in F : p = <<"finding", i>>
                                             \/ \E i \in G : p = <<"stale", i>>
  BY DEF PlacesOf, RecordPlaces, RecordAt
<1>7. /\ \A i : RecordAt(r, <<"finding", i>>) = r.findings[i]
      /\ \A i : RecordAt(r, <<"stale", i>>) = r.stale[i]
  BY DEF RecordAt
<1> HIDE DEF F, G, listed, found, stale, a, b, added
<1>80. PICK n \in Nat : \E at \in Bijection(1 .. n, F) : found = [k \in 1 .. n |-> r.findings[at[k]]]
  <2> DEFINE u == r.findings
             S == ToSet(u)
  <2>1. u \in Seq(S) /\ F \subseteq DOMAIN u /\ found = Selected(u, F)
    BY <1>2, <1>5
  <2> HIDE DEF u, S
  <2>2. \E n \in Nat : \E at \in Bijection(1 .. n, F) : found = [k \in 1 .. n |-> u[at[k]]]
    BY <2>1, Selection
  <2> QED BY <2>2 DEF u
<1>8. PICK at \in Bijection(1 .. n, F) : found = [k \in 1 .. n |-> r.findings[at[k]]]
  BY <1>80
<1>90. PICK m \in Nat : \E bt \in Bijection(1 .. m, G) : stale = [k \in 1 .. m |-> r.stale[bt[k]]]
  <2> DEFINE u == r.stale
             S == ToSet(u)
  <2>1. u \in Seq(S) /\ G \subseteq DOMAIN u /\ stale = Selected(u, G)
    BY <1>2, <1>5
  <2> HIDE DEF u, S
  <2>2. \E m \in Nat : \E bt \in Bijection(1 .. m, G) : stale = [k \in 1 .. m |-> u[bt[k]]]
    BY <2>1, Selection
  <2> QED BY <2>2 DEF u
<1>9. PICK bt \in Bijection(1 .. m, G) : stale = [k \in 1 .. m |-> r.stale[bt[k]]]
  BY <1>90
<1>10. at \in [1 .. n -> F] /\ (\A x, y \in 1 .. n : at[x] = at[y] => x = y) /\ \A y \in F : \E x \in 1 .. n : at[x] = y
  BY <1>8, BijectionIs
<1>11. bt \in [1 .. m -> G] /\ (\A x, y \in 1 .. m : bt[x] = bt[y] => x = y) /\ \A y \in G : \E x \in 1 .. m : bt[x] = y
  BY <1>9, BijectionIs
<1>12. a = [i \in 1 .. n |-> a[i]] /\ b = [i \in 1 .. m |-> b[i]]
  BY <1>8, <1>9 DEF a, b
<1>13. \A i \in 1 .. n : Answers(a[i], r.findings[at[i]], rules)
  BY <1>3, <1>8 DEF a
<1>14. \A i \in 1 .. m : Answers(b[i], r.stale[bt[i]], rules)
  BY <1>4, <1>9 DEF b
<1>15. /\ DOMAIN added = 1 .. n + m
       /\ \A i \in 1 .. n : added[i] = a[i]
       /\ \A i \in 1 .. m : added[n + i] = b[i]
  BY <1>1, <1>12, Joined
<1> DEFINE place == [k \in 1 .. n + m |-> IF k \in 1 .. n THEN <<"finding", at[k]>> ELSE <<"stale", bt[k - n]>>]
<1>16. \A i \in 1 .. n : i \in 1 .. n + m /\ place[i] = <<"finding", at[i]>>
  OBVIOUS
<1>17. \A i \in 1 .. m : n + i \in 1 .. n + m /\ place[n + i] = <<"stale", bt[i]>>
  OBVIOUS
<1>18. \A k \in 1 .. n + m : k \in 1 .. n \/ \E i \in 1 .. m : k = n + i
  <2> SUFFICES ASSUME NEW k \in 1 .. n + m, k \notin 1 .. n PROVE \E i \in 1 .. m : k = n + i
    OBVIOUS
  <2>1. k - n \in 1 .. m /\ k = n + (k - n)
    OBVIOUS
  <2> QED BY <2>1
<1>19. DOMAIN place = 1 .. n + m /\ place = [k \in 1 .. n + m |-> place[k]]
  OBVIOUS
<1> HIDE DEF place
<1>20. \A k \in 1 .. n + m : place[k] \in PlacesOf(r, analyzer) /\ Answers(added[k], RecordAt(r, place[k]), rules)
  <2>1. \A k \in 1 .. n : /\ place[k] \in PlacesOf(r, analyzer) /\ RecordAt(r, place[k]) = r.findings[at[k]]
                           /\ added[k] = a[k]
    BY <1>6, <1>7, <1>10, <1>15, <1>16
  <2>2. \A k \in 1 .. m : /\ place[n + k] \in PlacesOf(r, analyzer) /\ RecordAt(r, place[n + k]) = r.stale[bt[k]]
                           /\ added[n + k] = b[k]
    BY <1>6, <1>7, <1>11, <1>15, <1>17
  <2> SUFFICES ASSUME NEW k \in 1 .. n + m PROVE place[k] \in PlacesOf(r, analyzer) /\ Answers(added[k], RecordAt(r, place[k]), rules)
    OBVIOUS
  <2>3. CASE k \in 1 .. n
    BY <1>13, <2>1, <2>3
  <2>4. ASSUME NEW i \in 1 .. m, k = n + i PROVE place[k] \in PlacesOf(r, analyzer) /\ Answers(added[k], RecordAt(r, place[k]), rules)
    BY <1>14, <2>2, <2>4
  <2> QED BY <1>18, <2>3, <2>4
<1>21. \A x, y \in 1 .. n + m : place[x] = place[y] => x = y
  <2> SUFFICES ASSUME NEW x \in 1 .. n + m, NEW y \in 1 .. n + m, place[x] = place[y] PROVE x = y
    OBVIOUS
  <2>1. CASE x \in 1 .. n /\ y \in 1 .. n
    <3>1. at[x] = at[y]
      BY <1>16, <2>1
    <3> QED BY <1>10, <2>1, <3>1
  <2>2. ASSUME NEW i \in 1 .. m, NEW j \in 1 .. m, x = n + i, y = n + j PROVE x = y
    <3>1. bt[i] = bt[j]
      BY <1>17, <2>2
    <3> QED BY <1>11, <2>2, <3>1
  <2>3. ASSUME NEW i \in 1 .. n, NEW j \in 1 .. m PROVE place[i] # place[n + j]
    <3>1. place[i][1] = "finding"
      BY <1>16
    <3>2. place[n + j][1] = "stale"
      BY <1>17
    <3> QED BY <3>1, <3>2
  <2>4. CASE x \in 1 .. n
    <3>1. CASE y \in 1 .. n
      BY <2>1, <2>4, <3>1
    <3>2. ASSUME NEW j \in 1 .. m, y = n + j PROVE FALSE
      BY <2>3, <2>4, <3>2
    <3> QED BY <1>18, <3>1, <3>2
  <2>5. ASSUME NEW i \in 1 .. m, x = n + i PROVE x = y
    <3>1. CASE y \in 1 .. n
      BY <2>3, <2>5, <3>1
    <3>2. ASSUME NEW j \in 1 .. m, y = n + j PROVE x = y
      BY <2>2, <2>5, <3>2
    <3> QED BY <1>18, <3>1, <3>2
  <2> QED BY <1>18, <2>4, <2>5
<1>22. \A p \in PlacesOf(r, analyzer) : \E k \in 1 .. n + m : place[k] = p
  <2>1. ASSUME NEW i \in F PROVE \E k \in 1 .. n + m : place[k] = <<"finding", i>>
    <3>1. PICK x \in 1 .. n : at[x] = i
      BY <1>10
    <3> QED BY <1>16, <3>1
  <2>2. ASSUME NEW i \in G PROVE \E k \in 1 .. n + m : place[k] = <<"stale", i>>
    <3>1. PICK x \in 1 .. m : bt[x] = i
      BY <1>11
    <3> QED BY <1>17, <3>1
  <2> QED BY <1>6, <2>1, <2>2
<1>23. place \in [1 .. n + m -> PlacesOf(r, analyzer)]
  BY <1>19, <1>20
<1>24. place \in Bijection(1 .. n + m, PlacesOf(r, analyzer))
  BY <1>21, <1>22, <1>23 DEF Bijection, Injection, Surjection, IsInjective
<1> QED BY <1>15, <1>20, <1>24 DEF added

(* The records of a report, by their places.                               *)
LEMMA RecordsAre ==
  ASSUME NEW r, NEW record
  PROVE  record \in ToSet(r.findings) \union ToSet(r.stale) <=> \E q \in RecordPlaces(r) : record = RecordAt(r, q)
<1>1. /\ \A i \in DOMAIN r.findings : <<"finding", i>> \in RecordPlaces(r) /\ RecordAt(r, <<"finding", i>>) = r.findings[i]
      /\ \A i \in DOMAIN r.stale : <<"stale", i>> \in RecordPlaces(r) /\ RecordAt(r, <<"stale", i>>) = r.stale[i]
  BY DEF RecordPlaces, RecordAt
<1>2. \A q \in RecordPlaces(r) : \/ q[2] \in DOMAIN r.findings /\ RecordAt(r, q) = r.findings[q[2]]
                                 \/ q[2] \in DOMAIN r.stale /\ RecordAt(r, q) = r.stale[q[2]]
  BY DEF RecordPlaces, RecordAt
<1>3. \A s, x : x \in ToSet(s) <=> \E k \in DOMAIN s : s[k] = x
  BY DEF ToSet
<1>4. CASE \E i \in DOMAIN r.findings : r.findings[i] = record
  BY <1>1, <1>3, <1>4
<1>5. CASE \E i \in DOMAIN r.stale : r.stale[i] = record
  BY <1>1, <1>3, <1>5
<1>6. \A q \in RecordPlaces(r) : RecordAt(r, q) \in ToSet(r.findings) \union ToSet(r.stale)
  BY <1>2, <1>3
<1> QED BY <1>3, <1>4, <1>5, <1>6

-----------------------------------------------------------------------------
(* A list that rises through a set is the set from the least up.           *)
Rises(f, n, Q) ==
  /\ f \in [1 .. n -> Q] /\ \A y \in Q : \E x \in 1 .. n : f[x] = y
  /\ \A a, b \in 1 .. n : a < b => f[a] < f[b]

LEMMA RisesOnce ==
  ASSUME NEW Q, Q \subseteq Int, NEW n \in Nat, NEW f, Rises(f, n, Q), NEW m \in Nat, NEW g, Rises(g, m, Q),
         NEW k \in 1 .. n, k \in 1 .. m, \A j \in 1 .. k - 1 : f[j] = g[j]
  PROVE  ~ f[k] < g[k]
<1> SUFFICES ASSUME f[k] < g[k] PROVE FALSE
  OBVIOUS
<1>1. f[k] \in Q /\ f[k] \in Int /\ g[k] \in Int
  BY DEF Rises
<1>2. PICK l \in 1 .. m : g[l] = f[k]
  BY <1>1 DEF Rises
<1>3. CASE l < k
  <2>1. l \in 1 .. k - 1 /\ l \in 1 .. n
    BY <1>3
  <2>2. g[l] = f[l] /\ f[l] < f[k]
    BY <1>3, <2>1 DEF Rises
  <2> QED BY <1>1, <1>2, <2>2
<1>4. CASE l = k
  BY <1>1, <1>2, <1>4
<1>5. CASE k < l
  <2>1. g[k] < g[l]
    BY <1>5 DEF Rises
  <2> QED BY <1>1, <1>2, <2>1
<1> QED BY <1>3, <1>4, <1>5

LEMMA RisingIs ==
  ASSUME NEW Q, Q \subseteq Int, NEW n \in Nat, NEW f, Rises(f, n, Q)
  PROVE  Rising(Q) = f /\ n = Cardinality(Q)
<1>1. IsFiniteSet(Q) /\ Cardinality(Q) = n
  <2>1. IsFiniteSet(1 .. n) /\ Cardinality(1 .. n) = n
    BY FS_Interval
  <2>2. \A x, y \in 1 .. n : f[x] = f[y] => x = y
    <3> SUFFICES ASSUME NEW x \in 1 .. n, NEW y \in 1 .. n, f[x] = f[y], x # y PROVE FALSE
      OBVIOUS
    <3>1. f[x] \in Int /\ f[y] \in Int
      BY DEF Rises
    <3>2. x < y \/ y < x
      OBVIOUS
    <3> QED BY <3>1, <3>2 DEF Rises
  <2> QED BY <2>1, <2>2, CountedAlike DEF Rises
<1> DEFINE g == Rising(Q)
<1>2. Rises(g, n, Q)
  <2>1. g \in Bijection(1 .. n, Q) /\ \A a, b \in 1 .. n : a < b => g[a] < g[b]
    BY <1>1, RisesThrough
  <2> QED BY <2>1, BijectionIs DEF Rises
<1> HIDE DEF g
<1> DEFINE T == {k \in 1 .. n : f[k] # g[k]}
<1>3. CASE T # {}
  <2>1. PICK k \in T : \A j \in T : k <= j
    <3>1. T \subseteq Nat
      OBVIOUS
    <3> HIDE DEF T
    <3> QED BY <1>3, <3>1, LeastMember
  <2>2. \A j \in 1 .. k - 1 : f[j] = g[j]
    <3> SUFFICES ASSUME NEW j \in 1 .. k - 1 PROVE f[j] = g[j]
      OBVIOUS
    <3>1. j \in 1 .. n /\ ~ k <= j
      OBVIOUS
    <3> QED BY <2>1, <3>1
  <2>3. ~ f[k] < g[k] /\ ~ g[k] < f[k]
    BY <1>2, <2>2, RisesOnce
  <2>4. f[k] \in Int /\ g[k] \in Int
    BY <1>2 DEF Rises
  <2> QED BY <2>3, <2>4
<1>4. CASE T = {}
  <2>1. f \in [1 .. n -> Q] /\ g \in [1 .. n -> Q]
    BY <1>2 DEF Rises
  <2>2. f = g
    BY <1>4, <2>1
  <2> QED BY <1>1, <2>2 DEF g
<1> QED BY <1>3, <1>4

LEMMA RisesOn ==
  ASSUME NEW Q, Q \subseteq Int, IsFiniteSet(Q)
  PROVE  \E n \in Nat : Rises(Rising(Q), n, Q)
<1>1. /\ Cardinality(Q) \in Nat /\ Rising(Q) \in Bijection(1 .. Cardinality(Q), Q)
      /\ \A a, b \in 1 .. Cardinality(Q) : a < b => Rising(Q)[a] < Rising(Q)[b]
  BY RisesThrough
<1> QED BY <1>1, BijectionIs DEF Rises

(* A rising map of a set takes its list to the list of what it maps to.    *)
Raises(f, P, Q) ==
  /\ P \subseteq Int /\ IsFiniteSet(P) /\ Q \subseteq Int /\ f \in [P -> Q]
  /\ (\A x, y \in P : x < y => f[x] < f[y]) /\ \A y \in Q : \E x \in P : f[x] = y

LEMMA RisingMapped ==
  ASSUME NEW P, NEW Q, NEW f, Raises(f, P, Q)
  PROVE  /\ \E n \in Nat : DOMAIN Rising(P) = 1 .. n /\ DOMAIN Rising(Q) = 1 .. n
         /\ \A k \in DOMAIN Rising(P) : Rising(P)[k] \in P /\ Rising(Q)[k] = f[Rising(P)[k]]
<1> USE DEF Raises
<1> DEFINE g == Rising(P)
<1>1. PICK n \in Nat : Rises(g, n, P)
  BY RisesOn
<1> HIDE DEF g
<1>2. g \in [1 .. n -> P] /\ (\A y \in P : \E x \in 1 .. n : g[x] = y) /\ \A a, b \in 1 .. n : a < b => g[a] < g[b]
  BY <1>1 DEF Rises
<1> DEFINE h == [k \in 1 .. n |-> f[g[k]]]
<1>3. h \in [1 .. n -> Q] /\ \A k \in 1 .. n : h[k] = f[g[k]]
  BY <1>2
<1> HIDE DEF h
<1>4. \A y \in Q : \E x \in 1 .. n : h[x] = y
  <2> SUFFICES ASSUME NEW y \in Q PROVE \E x \in 1 .. n : h[x] = y
    OBVIOUS
  <2>1. PICK p \in P : f[p] = y
    OBVIOUS
  <2>2. PICK x \in 1 .. n : g[x] = p
    BY <1>2
  <2> QED BY <1>3, <2>1, <2>2
<1>5. \A a, b \in 1 .. n : a < b => h[a] < h[b]
  <2> SUFFICES ASSUME NEW a \in 1 .. n, NEW b \in 1 .. n, a < b PROVE h[a] < h[b]
    OBVIOUS
  <2>1. g[a] \in P /\ g[b] \in P /\ g[a] < g[b]
    BY <1>2
  <2>2. f[g[a]] < f[g[b]]
    BY <2>1
  <2> QED BY <1>3, <2>2
<1>6. Rises(h, n, Q)
  BY <1>3, <1>4, <1>5 DEF Rises
<1>7. Rising(Q) = h
  BY <1>6, RisingIs
<1> QED BY <1>2, <1>3, <1>7 DEF g

(* The place before one, where nothing is between.                         *)
IsBefore(x, k, f, n, P) ==
  /\ P \subseteq Int /\ n \in Nat /\ Rises(f, n, P) /\ k \in 1 .. n
  /\ x \in P /\ x < f[k] /\ \A y \in P : ~ (x < y /\ y < f[k])

LEMMA PlaceBefore ==
  ASSUME NEW P, NEW n, NEW f, NEW k, NEW x, IsBefore(x, k, f, n, P)
  PROVE  k - 1 \in 1 .. n /\ f[k - 1] = x
<1> USE DEF IsBefore
<1>1. PICK l \in 1 .. n : f[l] = x
  BY DEF Rises
<1>2. \A j \in 1 .. n : f[j] \in P /\ f[j] \in Int
  BY DEF Rises
<1>3. l < k
  <2> SUFFICES ASSUME ~ l < k PROVE FALSE
    OBVIOUS
  <2>1. CASE k < l
    <3>1. f[k] < f[l]
      BY <2>1 DEF Rises
    <3> QED BY <1>1, <1>2, <3>1
  <2>2. CASE k = l
    BY <1>1, <1>2, <2>2
  <2> QED BY <2>1, <2>2
<1>4. k - 1 \in 1 .. n /\ k - 1 < k /\ (l = k - 1 \/ l < k - 1)
  BY <1>3
<1>5. f[k - 1] < f[k] /\ (l < k - 1 => f[l] < f[k - 1])
  BY <1>4 DEF Rises
<1> QED BY <1>1, <1>2, <1>4, <1>5

(* What is kept of a file: the units of its lines but for blanks.          *)
Kept(content) ==
  {i \in DOMAIN content : content[i] \notin Blank /\ ~ (content[i] = LF /\ AfterReturn(content, i))}
Ended(unit) == IF unit = CR THEN LF ELSE unit

LEMMA UnitsOf ==
  ASSUME NEW content
  PROVE  SignificantUnits(content) =
           Append([k \in DOMAIN Rising(Kept(content)) |-> Ended(content[Rising(Kept(content))[k]])], Sentinel)
<1> DEFINE at == Rising(Kept(content))
           kept == Selected(content, Kept(content))
<1>1. kept = [k \in DOMAIN at |-> content[at[k]]]
  BY DEF Selected, Picked
<1>2. SignificantUnits(content) = Append([k \in DOMAIN kept |-> IF kept[k] = CR THEN LF ELSE kept[k]], Sentinel)
  BY DEF SignificantUnits, Kept
<1> HIDE DEF at, kept
<1>3. [k \in DOMAIN kept |-> IF kept[k] = CR THEN LF ELSE kept[k]] = [k \in DOMAIN at |-> Ended(content[at[k]])]
  BY <1>1 DEF Ended
<1> QED BY <1>2, <1>3 DEF at

LEMMA Halves ==
  ASSUME NEW i \in Int, NEW j \in Int
  PROVE  /\ (2 * i) \div 2 = i /\ 2 * i # 2 * j - 1
         /\ (2 * i = 2 * j => i = j) /\ (2 * i - 1 = 2 * j - 1 => i = j)
OBVIOUS

(* A carriage return before a line feed changes no line of a file.         *)
LEMMA LineEndingsAside ==
  ASSUME NEW content \in Seq(Nat)
  PROVE  LineHashes(WithCarriageReturns(content)) = LineHashes(content)
<1> DEFINE D == DOMAIN content
           lone == LoneFeeds(content)
           units == {2 * i : i \in D}
           returns == {2 * i - 1 : i \in lone}
           P == units \union returns
           at == Rising(P)
           other == WithCarriageReturns(content)
<1>1. other = [k \in DOMAIN at |-> IF at[k] \in returns THEN CR ELSE content[at[k] \div 2]]
  BY DEF WithCarriageReturns
<1>2. D = 1 .. Len(content) /\ Len(content) \in Nat /\ lone \subseteq D
  BY DEF LoneFeeds
<1>3. \A i \in D : i \in Int /\ 1 <= i
  BY <1>2
<1>4. IsFiniteSet(P)
  <2>1. IsFiniteSet(D) /\ IsFiniteSet(lone)
    <3>1. IsFiniteSet(D)
      BY <1>2, FS_Interval
    <3> QED BY <1>2, <3>1, FS_Subset
  <2>2. IsFiniteSet(units)
    <3> DEFINE f == [i \in D |-> 2 * i]
    <3>1. f \in Surjection(D, units)
      BY DEF Surjection
    <3> HIDE DEF units, f, D
    <3> QED BY <2>1, <3>1, FS_Surjection
  <2>3. IsFiniteSet(returns)
    <3> DEFINE f == [i \in lone |-> 2 * i - 1]
    <3>1. f \in Surjection(lone, returns)
      BY DEF Surjection
    <3> HIDE DEF returns, f, lone
    <3> QED BY <2>1, <3>1, FS_Surjection
  <2> HIDE DEF units, returns
  <2> QED BY <2>2, <2>3, FS_Union
<1>5. P \subseteq Int /\ (\A i \in D : 2 * i \in P) /\ \A i \in lone : 2 * i - 1 \in P /\ i \in D
  BY <1>2, <1>3
<1>6. \A p \in P : (\E i \in D : p = 2 * i) \/ (\E i \in lone : p = 2 * i - 1)
  OBVIOUS
<1>7. \A i \in D : 2 * i - 1 \in P => i \in lone
  BY <1>2, <1>3, Halves
<1>8. (\A i \in D : 2 * i \notin returns) /\ \A i \in lone : 2 * i - 1 \in returns
  BY <1>2, <1>3, Halves
<1> HIDE DEF P, units, returns, D
<1>9. PICK n \in Nat : Rises(at, n, P)
  BY <1>4, <1>5, RisesOn
<1> HIDE DEF at
<1>10. /\ at \in [1 .. n -> P] /\ (\A y \in P : \E x \in 1 .. n : at[x] = y)
       /\ \A a, b \in 1 .. n : a < b => at[a] < at[b]
  BY <1>9 DEF Rises
<1>11. /\ DOMAIN other = 1 .. n
       /\ \A k \in 1 .. n, i \in D : at[k] = 2 * i => other[k] = content[i]
       /\ \A k \in 1 .. n, i \in lone : at[k] = 2 * i - 1 => other[k] = CR
  BY <1>1, <1>3, <1>8, <1>10, Halves
<1> HIDE DEF other
<1>12. lone = {i \in D : content[i] = LF /\ ~ AfterReturn(content, i)}
  BY DEF LoneFeeds, D
<1> HIDE DEF lone
(* Every line feed of the other file is after a return. *)
<1>13. ASSUME NEW k \in 1 .. n, NEW i \in D, at[k] = 2 * i, content[i] = LF PROVE AfterReturn(other, k)
  <2>1. CASE i \in lone
    <3> DEFINE x == 2 * i - 1
    <3>1. x \in P /\ x < at[k] /\ \A y \in P : ~ (x < y /\ y < at[k])
      BY <1>3, <1>5, <1>13, <2>1
    <3> HIDE DEF x
    <3>2. k - 1 \in 1 .. n /\ at[k - 1] = x
      <4>1. IsBefore(x, k, at, n, P)
        BY <1>5, <1>9, <3>1 DEF IsBefore
      <4> QED BY <4>1, PlaceBefore
    <3>3. other[k - 1] = CR
      BY <1>11, <2>1, <3>2 DEF x
    <3> QED BY <1>11, <3>2, <3>3 DEF AfterReturn
  <2>2. CASE i \notin lone
    <3>1. i - 1 \in D /\ content[i - 1] = CR
      BY <1>12, <1>13, <2>2 DEF AfterReturn, D
    <3> DEFINE x == 2 * (i - 1)
    <3>2. x \in P /\ x < at[k]
      BY <1>3, <1>5, <1>13, <3>1
    <3>3. \A y \in P : ~ (x < y /\ y < at[k])
      BY <1>3, <1>5, <1>7, <1>13, <2>2
    <3> HIDE DEF x
    <3>4. k - 1 \in 1 .. n /\ at[k - 1] = x
      <4>1. IsBefore(x, k, at, n, P)
        BY <1>5, <1>9, <3>2, <3>3 DEF IsBefore
      <4> QED BY <4>1, PlaceBefore
    <3>5. other[k - 1] = CR
      BY <1>11, <3>1, <3>4 DEF x
    <3> QED BY <1>11, <3>4, <3>5 DEF AfterReturn
  <2> QED BY <2>1, <2>2
<1> DEFINE C == Kept(content)
           K == Kept(other)
           f == [i \in C |-> IF i \in lone THEN 2 * i - 1 ELSE 2 * i]
           g == [k \in K |-> at[k]]
           Q == {f[i] : i \in C}
<1>14. C \subseteq D /\ K \subseteq 1 .. n /\ C \subseteq Int /\ K \subseteq Int
  BY <1>3, <1>11 DEF Kept, D
<1>15. IsFiniteSet(C) /\ IsFiniteSet(K)
  <2>1. IsFiniteSet(D) /\ IsFiniteSet(1 .. n)
    BY <1>2, FS_Interval
  <2> HIDE DEF C, K
  <2> QED BY <1>14, <2>1, FS_Subset
<1>16. LF \notin Blank /\ CR \notin Blank /\ CR # LF
  BY DEF LF, CR, Blank
<1>17. \A i \in D : i \in C <=> content[i] \notin Blank /\ (content[i] # LF \/ i \in lone)
  BY <1>12 DEF Kept, D
<1>18. \A k \in 1 .. n : /\ \A i \in lone : at[k] = 2 * i - 1 => k \in K
                         /\ \A i \in D : at[k] = 2 * i => (k \in K <=> content[i] \notin Blank /\ content[i] # LF)
  BY <1>11, <1>13, <1>16 DEF Kept
<1> HIDE DEF C, K, Q
<1>19. \A i \in C : f[i] \in Int /\ f[i] \in P
  BY <1>3, <1>5, <1>14
<1>20. \A x, y \in C : x < y => f[x] < f[y]
  BY <1>14
<1>21. Q \subseteq Int /\ Q \subseteq P /\ f \in [C -> Q] /\ (\A y \in Q : \E x \in C : f[x] = y)
  BY <1>19 DEF Q
(* The two files keep the same units. *)
<1>22. \A i \in C : \E k \in K : at[k] = f[i]
  <2> SUFFICES ASSUME NEW i \in C PROVE \E k \in K : at[k] = f[i]
    OBVIOUS
  <2>1. PICK k \in 1 .. n : at[k] = f[i]
    BY <1>10, <1>19
  <2>2. CASE i \in lone
    BY <1>18, <2>1, <2>2
  <2>3. CASE i \notin lone
    BY <1>14, <1>17, <1>18, <2>1, <2>3
  <2> QED BY <2>1, <2>2, <2>3
<1>23. \A k \in K : \E i \in C : at[k] = f[i] /\ Ended(other[k]) = Ended(content[i])
  <2> SUFFICES ASSUME NEW k \in K PROVE \E i \in C : at[k] = f[i] /\ Ended(other[k]) = Ended(content[i])
    OBVIOUS
  <2>1. k \in 1 .. n /\ at[k] \in P
    BY <1>10, <1>14
  <2>2. ASSUME NEW i \in D, at[k] = 2 * i PROVE i \in C /\ at[k] = f[i] /\ Ended(other[k]) = Ended(content[i])
    <3>1. content[i] \notin Blank /\ content[i] # LF /\ i \notin lone
      BY <1>12, <1>18, <2>1, <2>2
    <3> QED BY <1>11, <1>17, <2>1, <2>2, <3>1
  <2>3. ASSUME NEW i \in lone, at[k] = 2 * i - 1 PROVE i \in C /\ at[k] = f[i] /\ Ended(other[k]) = Ended(content[i])
    <3>1. i \in D /\ content[i] = LF /\ other[k] = CR
      BY <1>11, <1>12, <2>1, <2>3
    <3>2. i \in C
      BY <1>16, <1>17, <2>3, <3>1
    <3> QED BY <1>16, <2>3, <3>1, <3>2 DEF Ended
  <2> QED BY <1>6, <2>1, <2>2, <2>3
<1>24. /\ g \in [K -> Q] /\ (\A x, y \in K : x < y => g[x] < g[y]) /\ \A y \in Q : \E x \in K : g[x] = y
  <2>1. \A k \in K : at[k] \in Q
    BY <1>21, <1>23
  <2>2. \A x, y \in K : x < y => at[x] < at[y]
    BY <1>10, <1>14
  <2>3. \A y \in Q : \E x \in K : at[x] = y
    BY <1>21, <1>22
  <2> QED BY <2>1, <2>2, <2>3
<1> HIDE DEF f, g
<1>25. /\ \E m \in Nat : DOMAIN Rising(C) = 1 .. m /\ DOMAIN Rising(Q) = 1 .. m
       /\ \A j \in DOMAIN Rising(C) : Rising(C)[j] \in C /\ Rising(Q)[j] = f[Rising(C)[j]]
  <2>1. Raises(f, C, Q)
    BY <1>14, <1>15, <1>20, <1>21 DEF Raises
  <2> QED BY ONLY <2>1, RisingMapped
<1>26. /\ \E m \in Nat : DOMAIN Rising(K) = 1 .. m /\ DOMAIN Rising(Q) = 1 .. m
       /\ \A j \in DOMAIN Rising(K) : Rising(K)[j] \in K /\ Rising(Q)[j] = g[Rising(K)[j]]
  <2>1. Raises(g, K, Q)
    BY <1>14, <1>15, <1>21, <1>24 DEF Raises
  <2> QED BY ONLY <2>1, RisingMapped
<1>27. \A k \in K : g[k] = at[k]
  BY DEF g
<1>28. \A x, y \in C : f[x] = f[y] => x = y
  <2>1. \A x \in C : f[x] \in Int
    BY <1>19
  <2>2. \A x, y \in C : x = y \/ x < y \/ y < x
    BY <1>14
  <2> QED BY <1>20, <2>1, <2>2
<1>29. \A k \in K, i \in C : at[k] = f[i] => Ended(other[k]) = Ended(content[i])
  BY <1>23, <1>28
<1> DEFINE a == Rising(C)
           b == Rising(K)
<1>30. DOMAIN b = DOMAIN a /\ \A j \in DOMAIN a : Ended(other[b[j]]) = Ended(content[a[j]])
  BY <1>25, <1>26, <1>27, <1>29
<1> HIDE DEF a, b
<1>31. [j \in DOMAIN b |-> Ended(other[b[j]])] = [j \in DOMAIN a |-> Ended(content[a[j]])]
  BY <1>30
<1>32. SignificantUnits(other) = SignificantUnits(content)
  BY <1>31, UnitsOf DEF a, b, C, K
<1> QED BY <1>32 DEF LineHashes, other

-----------------------------------------------------------------------------
(* A report's records name the reports it was merged from, which differ in *)
(* name, or none where it was not merged.                                  *)
Attributed(r) ==
  /\ IsList(r.findings) /\ IsList(r.stale)
  /\ IF r.mergedFrom = None THEN \A record \in ToSet(r.findings) \union ToSet(r.stale) : record.analyzer = 0
     ELSE /\ Keyed("mergedFrom", r.mergedFrom)
          /\ \A i, j \in DOMAIN r.mergedFrom : r.mergedFrom[i].id = r.mergedFrom[j].id => i = j
          /\ \A m \in ToSet(r.mergedFrom) : m.id # 0

RunsOf(r) ==
  IF r.mergedFrom = None THEN <<NewRun(r, 0, AutomationOf(r.languages), Applying(r.languages), r.totals, Files)>>
  ELSE MergedRuns(r, Files)

(* A run of the records its driver carried, under the rules of the kinds   *)
(* that apply to them.                                                     *)
IsRun(run, r, kinds) ==
  /\ kinds \subseteq Kinds /\ run.rules = RulesFor(kinds)
  /\ run.results = Add(r, run.driver, run.rules, Files)
  /\ \A p \in RecordPlaces(r) :
       RecordAt(r, p).analyzer = run.driver => \A kind \in Kinds : Applies(r, kind, RecordAt(r, p)) <=> kind \in kinds

LEMMA ANewRun ==
  ASSUME NEW r, NEW driver, NEW automation, NEW kinds, NEW totals
  PROVE  LET run == NewRun(r, driver, automation, kinds, totals, Files)
         IN  /\ run.driver = driver /\ run.rules = RulesFor(kinds)
             /\ run.results = Add(r, driver, run.rules, Files)
BY DEF NewRun

(* The reports merged, by name.                                            *)
LEMMA ByName ==
  ASSUME NEW from, Keyed("mergedFrom", from)
  PROVE  Rearranged(from, SortOn(from, LAMBDA m : <<m.id>>)) /\ from \in Seq(ToSet(from))
<1>1. \A e : SortKey("mergedFrom", e) = <<e.id>>
  <2>1. "mergedFrom" \in ById /\ "mergedFrom" \notin Listed /\ "mergedFrom" \notin {"findings", "stale"}
    BY DEF ById, Listed
  <2> QED BY <2>1 DEF SortKey
<1>2. [i \in DOMAIN from |-> SortKey("mergedFrom", from[i])] = [i \in DOMAIN from |-> <<from[i].id>>]
  BY <1>1
<1>3. Sorted("mergedFrom", from) = SortOn(from, LAMBDA m : <<m.id>>)
  BY <1>2 DEF Sorted, SortOn
<1> QED BY <1>3, SortedRearranges DEF Keyed, IsList

Placed(r, record) ==
  r.mergedFrom = None \/ record.analyzer = 0 \/ \E m \in ToSet(r.mergedFrom) : Carries(record, m)

(* One run for each driver, and one for each record that is placed.        *)
LEMMA RunsAre ==
  ASSUME NEW r, Attributed(r)
  PROVE  LET runs == RunsOf(r)
         IN  /\ \E n \in Nat : DOMAIN runs = 1 .. n
             /\ \A i \in DOMAIN runs : \E kinds : IsRun(runs[i], r, kinds)
             /\ \A i, j \in DOMAIN runs : runs[i].driver = runs[j].driver => i = j
             /\ \A p \in RecordPlaces(r) : Placed(r, RecordAt(r, p)) => \E i \in DOMAIN runs : runs[i].driver = RecordAt(r, p).analyzer
<1> DEFINE runs == RunsOf(r)
<1>1. CASE r.mergedFrom = None
  <2> DEFINE run == NewRun(r, 0, AutomationOf(r.languages), Applying(r.languages), r.totals, Files)
  <2>1. runs = <<run>>
    BY <1>1 DEF RunsOf
  <2>2. \A p \in RecordPlaces(r) : RecordAt(r, p).analyzer = 0
    BY <1>1, RecordsAre DEF Attributed
  <2>3. /\ run.driver = 0 /\ run.rules = RulesFor(Applying(r.languages))
        /\ run.results = Add(r, 0, run.rules, Files)
    BY ANewRun
  <2>4. Applying(r.languages) \subseteq Kinds
    BY DEF Applying
  <2> HIDE DEF run, runs
  <2>5. \A kind, record : Applies(r, kind, record) <=> kind \in Applying(r.languages)
    BY <1>1 DEF Applies
  <2>6. IsRun(run, r, Applying(r.languages))
    BY <2>3, <2>4, <2>5 DEF IsRun
  <2>7. DOMAIN runs = 1 .. 1 /\ runs[1] = run
    BY <2>1
  <2>8. \A i \in DOMAIN runs : i = 1
    BY <2>7
  <2> QED BY <2>2, <2>3, <2>6, <2>7, <2>8 DEF runs
<1>2. CASE r.mergedFrom # None
  <2> DEFINE from == SortOn(r.mergedFrom, LAMBDA m : <<m.id>>)
             own == from = << >> \/ \E record \in ToSet(r.findings) \union ToSet(r.stale) : record.analyzer = 0
             last == NewRun(r, 0, << >>, Kinds, r.totals, Files)
             a == [i \in DOMAIN from |->
                     NewRun(r, from[i].id, AutomationOf(from[i].languages), Applying(from[i].languages), from[i].totals, Files)]
             b == IF own THEN <<last>> ELSE << >>
  <2>1. runs = a \o b
    BY <1>2 DEF RunsOf, MergedRuns
  <2>2. /\ Keyed("mergedFrom", r.mergedFrom)
        /\ \A i, j \in DOMAIN r.mergedFrom : r.mergedFrom[i].id = r.mergedFrom[j].id => i = j
        /\ \A m \in ToSet(r.mergedFrom) : m.id # 0
    BY <1>2 DEF Attributed
  <2>3. Rearranged(r.mergedFrom, from) /\ r.mergedFrom \in Seq(ToSet(r.mergedFrom))
    BY <2>2, ByName
  <2> HIDE DEF from, last
  <2>4. PICK n \in Nat : DOMAIN from = 1 .. n
    BY <2>3 DEF Rearranged
  <2>5. /\ \A i \in 1 .. n : from[i] \in ToSet(r.mergedFrom) /\ from[i].id # 0
        /\ \A i, j \in 1 .. n : from[i].id = from[j].id => i = j
        /\ \A m \in ToSet(r.mergedFrom) : \E i \in 1 .. n : from[i] = m
    <3> DEFINE u == r.mergedFrom
               D == DOMAIN u
    <3>1. PICK p \in Bijection(D, D) : from = [i \in D |-> u[p[i]]]
      BY <2>3 DEF Rearranged
    <3>2. D = 1 .. n
      BY <2>3, <2>4 DEF Rearranged
    <3>3. (\A m : m \in ToSet(u) <=> \E i \in D : u[i] = m)
      BY DEF ToSet
    <3>4. /\ \A i, j \in D : u[i].id = u[j].id => i = j
          /\ \A m \in ToSet(u) : m.id # 0
      BY <2>2
    <3> HIDE DEF u, D
    <3>5. /\ p \in [D -> D] /\ (\A x, y \in D : p[x] = p[y] => x = y)
          /\ \A y \in D : \E x \in D : p[x] = y
      BY <3>1, BijectionIs
    <3>6. \A i \in D : from[i] = u[p[i]] /\ p[i] \in D
      BY <3>1, <3>5
    <3>7. \A i \in D : from[i] \in ToSet(u) /\ from[i].id # 0
      BY <3>3, <3>4, <3>6
    <3>8. \A i, j \in D : from[i].id = from[j].id => i = j
      BY <3>4, <3>5, <3>6
    <3>9. \A m \in ToSet(u) : \E i \in D : from[i] = m
      BY <3>3, <3>5, <3>6
    <3> QED BY <3>2, <3>7, <3>8, <3>9 DEF u
  <2>6. \A i \in 1 .. n : /\ a[i].driver = from[i].id /\ a[i].rules = RulesFor(Applying(from[i].languages))
                           /\ a[i].results = Add(r, a[i].driver, a[i].rules, Files)
    <3> SUFFICES ASSUME NEW i \in 1 .. n
                 PROVE  /\ a[i].driver = from[i].id /\ a[i].rules = RulesFor(Applying(from[i].languages))
                        /\ a[i].results = Add(r, a[i].driver, a[i].rules, Files)
      OBVIOUS
    <3>1. a[i] = NewRun(r, from[i].id, AutomationOf(from[i].languages), Applying(from[i].languages), from[i].totals, Files)
      BY <2>4
    <3> HIDE DEF a
    <3> QED BY <3>1, ANewRun
  <2>7. last.driver = 0 /\ last.rules = RulesFor(Kinds) /\ last.results = Add(r, last.driver, last.rules, Files)
    BY ANewRun DEF last
  <2>8. a = [i \in 1 .. n |-> a[i]]
    BY <2>4
  <2> DEFINE m == IF own THEN 1 ELSE 0
  <2>9. m \in Nat /\ b = [i \in 1 .. m |-> b[i]] /\ (\A i \in 1 .. m : own /\ i = 1 /\ b[i] = last) /\ (own => 1 \in 1 .. m)
    OBVIOUS
  <2>10. \A p \in RecordPlaces(r) : RecordAt(r, p).analyzer = 0 => own
    BY RecordsAre
  <2> HIDE DEF a, b, own, m, runs
  <2>11. /\ DOMAIN runs = 1 .. n + m
         /\ \A i \in 1 .. n : i \in 1 .. n + m /\ runs[i] = a[i]
         /\ \A i \in 1 .. m : n + i \in 1 .. n + m /\ runs[n + i] = b[i]
    BY <2>1, <2>8, <2>9, Joined
  <2>12. \A k \in 1 .. n + m : k \in 1 .. n \/ (own /\ k = n + 1 /\ runs[k] = last)
    <3> SUFFICES ASSUME NEW k \in 1 .. n + m, k \notin 1 .. n PROVE own /\ k = n + 1 /\ runs[k] = last
      OBVIOUS
    <3>1. k - n \in 1 .. m /\ k = n + (k - n)
      BY <2>9
    <3> QED BY <2>9, <2>11, <3>1
  <2>13. \A i \in 1 .. n : IsRun(runs[i], r, Applying(from[i].languages))
    <3> SUFFICES ASSUME NEW i \in 1 .. n PROVE IsRun(runs[i], r, Applying(from[i].languages))
      OBVIOUS
    <3>1. Applying(from[i].languages) \subseteq Kinds
      BY DEF Applying
    <3>2. ASSUME NEW record, record.analyzer = from[i].id, NEW kind
          PROVE  Applies(r, kind, record) <=> kind \in Applying(from[i].languages)
      <4>1. record.analyzer # 0 /\ Carries(record, from[i]) /\ from[i] \in ToSet(r.mergedFrom)
        BY <2>5, <3>2 DEF Carries
      <4>2. \A other \in ToSet(r.mergedFrom) : Carries(record, other) => other = from[i]
        BY <2>5, <3>2 DEF Carries
      <4> QED BY <1>2, <4>1, <4>2 DEF Applies
    <3> QED BY <2>6, <2>11, <3>1, <3>2 DEF IsRun
  <2>14. IsRun(last, r, Kinds)
    <3>1. \A record : record.analyzer = 0 => \A kind : Applies(r, kind, record)
      BY <1>2 DEF Applies
    <3> QED BY <2>7, <3>1 DEF IsRun
  <2>15. \A i, j \in 1 .. n + m : runs[i].driver = runs[j].driver => i = j
    <3>1. \A i \in 1 .. n : runs[i].driver = from[i].id /\ from[i].id # 0
      BY <2>5, <2>6, <2>11
    <3>2. \A k \in 1 .. n + m : k \in 1 .. n \/ (k = n + 1 /\ runs[k].driver = 0)
      BY <2>7, <2>12
    <3> QED BY <2>5, <3>1, <3>2
  <2>16. ASSUME NEW p \in RecordPlaces(r), Placed(r, RecordAt(r, p))
         PROVE  \E i \in 1 .. n + m : runs[i].driver = RecordAt(r, p).analyzer
    <3>1. CASE RecordAt(r, p).analyzer = 0
      <4>1. own
        BY <2>10, <3>1
      <4>2. n + 1 \in 1 .. n + m /\ runs[n + 1] = last
        BY <2>9, <2>11, <4>1
      <4> QED BY <2>7, <3>1, <4>2
    <3>2. CASE RecordAt(r, p).analyzer # 0
      <4>1. PICK i \in 1 .. n : Carries(RecordAt(r, p), from[i])
        BY <1>2, <2>5, <2>16, <3>2 DEF Placed
      <4>2. runs[i].driver = RecordAt(r, p).analyzer /\ i \in 1 .. n + m
        BY <2>6, <2>11, <4>1 DEF Carries
      <4> QED BY <4>2
    <3> QED BY <3>1, <3>2
  <2>17. \A i \in 1 .. n + m : \E kinds : IsRun(runs[i], r, kinds)
    BY <2>12, <2>13, <2>14
  <2>18. n + m \in Nat
    BY <2>9
  <2> QED BY <2>11, <2>15, <2>16, <2>17, <2>18 DEF runs
<1> QED BY <1>1, <1>2

-----------------------------------------------------------------------------
(* The results of all runs, and which record each is of.                   *)
Places(runs) == UNION {{i} \X DOMAIN runs[i].results : i \in DOMAIN runs}
IsOf(runs, p, record) ==
  /\ record.analyzer = runs[p[1]].driver
  /\ Answers(runs[p[1]].results[p[2]], record, runs[p[1]].rules)

LEMMA EachResultHasItsRecord ==
  ASSUME NEW r, Attributed(r), \A p \in RecordPlaces(r) : Placed(r, RecordAt(r, p)),
         NEW runs, runs = RunsOf(r)
  PROVE  \E origin \in Bijection(Places(runs), RecordPlaces(r)) :
           \A p \in Places(runs) : IsOf(runs, p, RecordAt(r, origin[p]))
<1> DEFINE Good(i, f) ==
             /\ f \in Bijection(DOMAIN runs[i].results, PlacesOf(r, runs[i].driver))
             /\ \A k \in DOMAIN runs[i].results : Answers(runs[i].results[k], RecordAt(r, f[k]), runs[i].rules)
           D == DOMAIN runs
           place == [i \in D |-> CHOOSE f : Good(i, f)]
           origin == [p \in Places(runs) |-> place[p[1]][p[2]]]
<1>1. /\ \A i \in D : \E kinds : IsRun(runs[i], r, kinds)
      /\ \A i, j \in D : runs[i].driver = runs[j].driver => i = j
      /\ \A p \in RecordPlaces(r) : \E i \in D : runs[i].driver = RecordAt(r, p).analyzer
  BY RunsAre
<1>2. ASSUME NEW i \in D PROVE Good(i, place[i])
  <2>1. runs[i].results = Add(r, runs[i].driver, runs[i].rules, Files)
    BY <1>1 DEF IsRun
  <2>2. IsList(r.findings) /\ IsList(r.stale)
    BY DEF Attributed
  <2>3. \E f : Good(i, f)
    <3> DEFINE driver == runs[i].driver
               rules == runs[i].rules
               added == Add(r, driver, rules, Files)
    <3>1. \E f \in Bijection(DOMAIN added, PlacesOf(r, driver)) :
            \A k \in DOMAIN added : Answers(added[k], RecordAt(r, f[k]), rules)
      <4> HIDE DEF driver, rules
      <4> QED BY <2>2, ResultsAreRecords
    <3> QED BY <2>1, <3>1
  <2> HIDE DEF Good
  <2> QED BY <2>3
<1>3. \A p : p \in Places(runs) <=> \E i \in D : \E k \in DOMAIN runs[i].results : p = <<i, k>>
  BY DEF Places
<1>4. \A i \in D : \A k \in DOMAIN runs[i].results : <<i, k>> \in Places(runs) /\ origin[<<i, k>>] = place[i][k]
  BY <1>3
<1>5. DOMAIN origin = Places(runs) /\ origin = [p \in Places(runs) |-> origin[p]]
  OBVIOUS
<1>6. \A p : p \in PlacesOf(r, RecordAt(r, p).analyzer) <=> p \in RecordPlaces(r)
  BY DEF PlacesOf
<1>7. ASSUME NEW i \in D
      PROVE  /\ \A k \in DOMAIN runs[i].results :
                  /\ place[i][k] \in RecordPlaces(r) /\ RecordAt(r, place[i][k]).analyzer = runs[i].driver
                  /\ Answers(runs[i].results[k], RecordAt(r, place[i][k]), runs[i].rules)
             /\ \A k, l \in DOMAIN runs[i].results : place[i][k] = place[i][l] => k = l
             /\ \A p \in PlacesOf(r, runs[i].driver) : \E k \in DOMAIN runs[i].results : place[i][k] = p
  <2> DEFINE f == place[i]
             K == DOMAIN runs[i].results
             P == PlacesOf(r, runs[i].driver)
  <2>1. f \in Bijection(K, P) /\ \A k \in K : Answers(runs[i].results[k], RecordAt(r, f[k]), runs[i].rules)
    BY <1>2
  <2>2. \A p \in P : p \in RecordPlaces(r) /\ RecordAt(r, p).analyzer = runs[i].driver
    BY DEF PlacesOf
  <2> HIDE DEF f, K, P
  <2>3. f \in [K -> P] /\ (\A k, l \in K : f[k] = f[l] => k = l) /\ \A p \in P : \E k \in K : f[k] = p
    BY <2>1, BijectionIs
  <2>4. \A k \in K : f[k] \in P
    BY <2>3
  <2> QED BY <2>1, <2>2, <2>3, <2>4 DEF f, K, P
<1> HIDE DEF place, origin, Good, D
<1>8. \A p \in Places(runs) : origin[p] \in RecordPlaces(r) /\ IsOf(runs, p, RecordAt(r, origin[p]))
  <2> SUFFICES ASSUME NEW i \in D, NEW k \in DOMAIN runs[i].results
               PROVE  LET p == <<i, k>> IN origin[p] \in RecordPlaces(r) /\ IsOf(runs, p, RecordAt(r, origin[p]))
    BY <1>3
  <2>1. origin[<<i, k>>] = place[i][k]
    BY <1>4
  <2> QED BY <1>7, <2>1 DEF IsOf
<1>9. ASSUME NEW i \in D, NEW j \in D, NEW k \in DOMAIN runs[i].results, NEW l \in DOMAIN runs[j].results,
             place[i][k] = place[j][l]
      PROVE  <<i, k>> = <<j, l>>
  <2>1. runs[i].driver = runs[j].driver
    BY <1>7, <1>9
  <2>2. i = j
    BY <1>1, <2>1
  <2> QED BY <1>7, <1>9, <2>2
<1>10. \A p, q \in Places(runs) : origin[p] = origin[q] => p = q
  BY <1>3, <1>4, <1>9
<1>11. \A q \in RecordPlaces(r) : \E p \in Places(runs) : origin[p] = q
  <2> SUFFICES ASSUME NEW q \in RecordPlaces(r) PROVE \E p \in Places(runs) : origin[p] = q
    OBVIOUS
  <2>1. PICK i \in D : runs[i].driver = RecordAt(r, q).analyzer
    BY <1>1
  <2>2. q \in PlacesOf(r, runs[i].driver)
    BY <1>6, <2>1
  <2>3. PICK k \in DOMAIN runs[i].results : place[i][k] = q
    BY <1>7, <2>2
  <2> QED BY <1>4, <2>3
<1>12. origin \in [Places(runs) -> RecordPlaces(r)]
  BY <1>5, <1>8
<1>13. origin \in Bijection(Places(runs), RecordPlaces(r))
  BY <1>10, <1>11, <1>12 DEF Bijection, Injection, Surjection, IsInjective
<1> QED BY <1>8, <1>13

(* Which lines can be read: those of the files there are.                  *)
LEMMA ReadableIs ==
  ASSUME NEW path, NEW line
  PROVE  Readable(Files, path, line) <=> path \in DOMAIN Files /\ line \in 1 .. LinesIn(Files[path])
<1>1. ASSUME path \in DOMAIN Files PROVE DOMAIN LineHashes(Files[path]) = 1 .. LinesIn(Files[path])
  <2>1. Files[path] \in Seq(Nat)
    BY <1>1, FilesAreUnits
  <2> QED BY <2>1, LinesCounted
<1> QED BY <1>1 DEF Readable

(* A record whose run is there has no result, or its place, exactly where  *)
(* its code has no rule or its line no fingerprint.                        *)
LEMMA ResultPlaceable ==
  ASSUME NEW r, NEW q \in RecordPlaces(r), NEW run, NEW kinds, IsRun(run, r, kinds), NEW result,
         RecordAt(r, q).analyzer = run.driver, Answers(result, RecordAt(r, q), run.rules),
         Placed(r, RecordAt(r, q))
  PROVE  /\ Unplaceable(r, RecordAt(r, q)) <=> result.rule = 0 \/ ~ Readable(Files, result.path, result.line)
         /\ result.rule # 0 => run.rules[result.rule] = result.code
<1> DEFINE record == RecordAt(r, q)
           code == record.code
           rules == RulesFor(kinds)
<1>1. result.rule = RuleIndex(rules, code) /\ result.code = code /\ result.path = record.path /\ result.line = record.line
      /\ run.rules = rules
  BY DEF Answers, IsRun
<1>2. kinds \subseteq Kinds /\ \A kind \in Kinds : Applies(r, kind, record) <=> kind \in kinds
  BY DEF IsRun
<1>3. ~ (r.mergedFrom # None /\ record.analyzer # 0 /\ ~ \E m \in ToSet(r.mergedFrom) : Carries(record, m))
  BY DEF Placed
<1> HIDE DEF record
<1>4. /\ RuleIndex(rules, code) = 0 <=> ~ \E k \in kinds : k.code = code
      /\ RuleIndex(rules, code) # 0 => rules[RuleIndex(rules, code)] = code
  BY <1>2, RuleIndexed
<1>5. result.rule = 0 <=> ~ \E kind \in Kinds : kind.code = code /\ Applies(r, kind, record)
  BY <1>1, <1>2, <1>4
<1>6. Readable(Files, record.path, record.line) <=>
        record.path \in DOMAIN Files /\ record.line \in 1 .. LinesIn(Files[record.path])
  BY ReadableIs
<1>7. Unplaceable(r, record) <=> result.rule = 0 \/ ~ Readable(Files, record.path, record.line)
  BY <1>3, <1>5, <1>6 DEF Unplaceable
<1> QED BY <1>1, <1>4, <1>7 DEF record

-----------------------------------------------------------------------------
(* The log of a report: what each result says, and when there is none.     *)
Says(log, p, record) ==
  LET result == ResultAt(log, p)
  IN  /\ MentionBy(log, p) = Mention(record.analyzer, <<record.code, record.ref>>, record)
      /\ log.runs[p[1]].rules[result.rule] = result.code
      /\ Readable(Files, result.path, result.line) /\ result.hash = HashAt(Files, result.path, result.line)

LEMMA LogIs ==
  ASSUME NEW r, Attributed(r), NEW log, log = SARIF(r, Files)
  PROVE  /\ log = Failed <=> \E q \in RecordPlaces(r) : Unplaceable(r, RecordAt(r, q))
         /\ log # Failed => \E origin \in Bijection(ResultPlaces(log), RecordPlaces(r)) :
                              \A p \in ResultPlaces(log) : Says(log, p, RecordAt(r, origin[p]))
<1> DEFINE runs == RunsOf(r)
           unplaced == r.mergedFrom # None /\ ~ EveryRecordPlaced(r)
           Bad(result) == result.rule = 0 \/ ~ Readable(Files, result.path, result.line)
           unread == \E i \in DOMAIN runs : \E result \in ToSet(runs[i].results) : Bad(result)
<1>1. log = IF unplaced \/ unread THEN Failed ELSE [runs |-> runs]
  BY DEF SARIF, RunsOf
<1>2. [runs |-> runs] # Failed /\ [runs |-> runs].runs = runs
  <2>1. DOMAIN [runs |-> runs] = {"runs"} /\ DOMAIN Failed = {"failed"}
    BY DEF Failed
  <2> QED BY <2>1
<1>3. unread <=> \E p \in Places(runs) : Bad(runs[p[1]].results[p[2]])
  <2>1. \A i \in DOMAIN runs : \A k \in DOMAIN runs[i].results : <<i, k>> \in Places(runs)
    BY DEF Places
  <2>2. \A p \in Places(runs) : p[1] \in DOMAIN runs /\ p[2] \in DOMAIN runs[p[1]].results
    BY DEF Places
  <2>3. \A s, x : x \in ToSet(s) <=> \E k \in DOMAIN s : s[k] = x
    BY DEF ToSet
  <2> HIDE DEF runs, Bad
  <2>4. ASSUME unread PROVE \E p \in Places(runs) : Bad(runs[p[1]].results[p[2]])
    <3>1. PICK i \in DOMAIN runs : \E result \in ToSet(runs[i].results) : Bad(result)
      BY <2>4
    <3>2. PICK k \in DOMAIN runs[i].results : Bad(runs[i].results[k])
      BY <2>3, <3>1
    <3> DEFINE p == <<i, k>>
    <3>3. p \in Places(runs) /\ p[1] = i /\ p[2] = k
      BY <2>1
    <3> HIDE DEF p
    <3> QED BY <3>2, <3>3
  <2>5. ASSUME NEW p \in Places(runs), Bad(runs[p[1]].results[p[2]]) PROVE unread
    BY <2>2, <2>3, <2>5
  <2> QED BY <2>4, <2>5
<1>4. unplaced <=> \E q \in RecordPlaces(r) : ~ Placed(r, RecordAt(r, q))
  <2>1. \A record : record \in ToSet(r.findings) \union ToSet(r.stale) <=> \E q \in RecordPlaces(r) : record = RecordAt(r, q)
    BY RecordsAre
  <2>2. \A record : (\E i \in DOMAIN r.mergedFrom : r.mergedFrom[i].id = record.analyzer) <=>
                      \E m \in ToSet(r.mergedFrom) : Carries(record, m)
    BY DEF ToSet, Carries
  <2> QED BY <2>1, <2>2 DEF EveryRecordPlaced, Placed
<1> HIDE DEF runs, unplaced, unread, Bad
<1>5. ASSUME unplaced PROVE \E q \in RecordPlaces(r) : Unplaceable(r, RecordAt(r, q))
  BY <1>4, <1>5 DEF Placed, Unplaceable
<1>6. ASSUME ~ unplaced
      PROVE  \E origin \in Bijection(Places(runs), RecordPlaces(r)) :
               /\ \A p \in Places(runs) : IsOf(runs, p, RecordAt(r, origin[p]))
               /\ unread <=> \E q \in RecordPlaces(r) : Unplaceable(r, RecordAt(r, q))
               /\ ~ unread => \A p \in Places(runs) : Says([runs |-> runs], p, RecordAt(r, origin[p]))
  <2>1. \A p \in RecordPlaces(r) : Placed(r, RecordAt(r, p))
    BY <1>4, <1>6
  <2>2. PICK origin \in Bijection(Places(runs), RecordPlaces(r)) :
               \A p \in Places(runs) : IsOf(runs, p, RecordAt(r, origin[p]))
    BY <2>1, EachResultHasItsRecord DEF runs
  <2>3. origin \in [Places(runs) -> RecordPlaces(r)] /\ \A q \in RecordPlaces(r) : \E p \in Places(runs) : origin[p] = q
    BY BijectionIs
  <2>4. ASSUME NEW p \in Places(runs)
        PROVE  LET result == runs[p[1]].results[p[2]]
               IN  /\ Unplaceable(r, RecordAt(r, origin[p])) <=> Bad(result)
                   /\ result.rule # 0 => runs[p[1]].rules[result.rule] = result.code
    <3>1. p[1] \in DOMAIN runs
      BY DEF Places
    <3>2. PICK kinds : IsRun(runs[p[1]], r, kinds)
      BY <3>1, RunsAre DEF runs
    <3>3. IsOf(runs, p, RecordAt(r, origin[p])) /\ origin[p] \in RecordPlaces(r) /\ Placed(r, RecordAt(r, origin[p]))
      BY <2>1, <2>2, <2>3
    <3> DEFINE q == origin[p]
               run == runs[p[1]]
               result == run.results[p[2]]
    <3>4. q \in RecordPlaces(r) /\ RecordAt(r, q).analyzer = run.driver /\ Answers(result, RecordAt(r, q), run.rules)
          /\ Placed(r, RecordAt(r, q)) /\ IsRun(run, r, kinds)
      BY <3>2, <3>3 DEF IsOf
    <3> HIDE DEF q, run, result
    <3>5. /\ Unplaceable(r, RecordAt(r, q)) <=> result.rule = 0 \/ ~ Readable(Files, result.path, result.line)
          /\ result.rule # 0 => run.rules[result.rule] = result.code
      BY <3>4, ResultPlaceable
    <3> QED BY <3>5 DEF q, run, result, Bad
  <2>5. unread <=> \E q \in RecordPlaces(r) : Unplaceable(r, RecordAt(r, q))
    BY <1>3, <2>3, <2>4
  <2>6. ASSUME ~ unread, NEW p \in Places(runs) PROVE Says([runs |-> runs], p, RecordAt(r, origin[p]))
    <3> DEFINE result == runs[p[1]].results[p[2]]
               record == RecordAt(r, origin[p])
    <3>1. ~ Bad(result) /\ result.rule # 0 /\ Readable(Files, result.path, result.line)
      BY <1>3, <2>6 DEF Bad
    <3>2. runs[p[1]].rules[result.rule] = result.code
      BY <2>4, <3>1
    <3>3. /\ record.analyzer = runs[p[1]].driver /\ result.path = record.path /\ result.line = record.line
          /\ result.symbol = <<record.code, record.ref>> /\ result.hash = HashAt(Files, record.path, record.line)
      BY <2>2 DEF IsOf, Answers
    <3>4. ResultAt([runs |-> runs], p) = result
      BY DEF ResultAt
    <3> HIDE DEF result, record
    <3> QED BY <3>1, <3>2, <3>3, <3>4 DEF Says, MentionBy, Mention, record
  <2> QED BY <2>2, <2>5, <2>6
<1>7. log # Failed => log = [runs |-> runs] /\ ResultPlaces(log) = Places(runs)
  BY <1>1, <1>2 DEF ResultPlaces, Places
<1> QED BY <1>1, <1>2, <1>5, <1>6, <1>7

(* Two results that name one file and have one fingerprint name one line.  *)
LEMMA SaysWhichLine ==
  ASSUME NEW log, NEW p, NEW record, Says(log, p, record), NEW q, NEW other, Says(log, q, other),
         ResultAt(log, p).path = ResultAt(log, q).path
  PROVE  ResultAt(log, p).line = ResultAt(log, q).line <=> ResultAt(log, p).hash = ResultAt(log, q).hash
<1> DEFINE path == ResultAt(log, p).path
           l == ResultAt(log, p).line
           m == ResultAt(log, q).line
           content == Files[path]
           hashes == LineHashes(content)
<1>1. /\ path \in DOMAIN Files /\ l \in DOMAIN hashes /\ ResultAt(log, p).hash = hashes[l]
      /\ m \in DOMAIN hashes /\ ResultAt(log, q).hash = hashes[m]
  BY DEF Says, Readable, HashAt
<1>2. content \in Seq(Nat)
  BY <1>1, FilesAreUnits
<1> HIDE DEF content, l, m
<1>3. hashes[l] = hashes[m] => l = m
  BY <1>1, <1>2, FingerprintsApart
<1> QED BY <1>1, <1>3 DEF l, m

-----------------------------------------------------------------------------
(* The findings shown in another order.                                    *)
LEMMA FiniteRecords ==
  ASSUME NEW r, IsList(r.findings), IsList(r.stale)
  PROVE  IsFiniteSet(RecordPlaces(r))
<1>1. \A s : IsList(s) => IsFiniteSet(DOMAIN s)
  <2> SUFFICES ASSUME NEW s, IsList(s) PROVE IsFiniteSet(DOMAIN s)
    OBVIOUS
  <2>1. DOMAIN s = 1 .. Len(s) /\ Len(s) \in Nat
    BY DEF IsList
  <2>2. IsFiniteSet(1 .. Len(s))
    BY <2>1, FS_Interval
  <2> QED BY <2>1, <2>2
<1>2. IsFiniteSet({"finding"}) /\ IsFiniteSet({"stale"})
  BY FS_Singleton
<1>3. IsFiniteSet({"finding"} \X DOMAIN r.findings) /\ IsFiniteSet({"stale"} \X DOMAIN r.stale)
  BY <1>1, <1>2, FS_Product
<1> QED BY <1>3, FS_Union DEF RecordPlaces

LEMMA ShownAlike ==
  ASSUME NEW r, NEW s, Rearranged(r.findings, s.findings), s.stale = r.stale
  PROVE  \E h \in Bijection(RecordPlaces(s), RecordPlaces(r)) :
           \A p \in RecordPlaces(s) : RecordAt(s, p) = RecordAt(r, h[p])
<1> DEFINE D == DOMAIN r.findings
<1>1. PICK at \in Bijection(D, D) : s.findings = [i \in D |-> r.findings[at[i]]]
  BY DEF Rearranged
<1>2. DOMAIN s.findings = D
  BY DEF Rearranged
<1> HIDE DEF D
<1>3. at \in [D -> D] /\ (\A x, y \in D : at[x] = at[y] => x = y) /\ \A y \in D : \E x \in D : at[x] = y
  BY <1>1, BijectionIs
<1> DEFINE R == RecordPlaces(r)
           S == RecordPlaces(s)
           h == [p \in S |-> IF p[1] = "finding" THEN <<"finding", at[p[2]]>> ELSE p]
<1>4. /\ \A i \in D : <<"finding", i>> \in S /\ <<"finding", i>> \in R
      /\ \A i \in DOMAIN r.stale : <<"stale", i>> \in S /\ <<"stale", i>> \in R
      /\ \A p \in S : (\E i \in D : p = <<"finding", i>>) \/ (\E i \in DOMAIN r.stale : p = <<"stale", i>>)
      /\ \A p \in R : (\E i \in D : p = <<"finding", i>>) \/ (\E i \in DOMAIN r.stale : p = <<"stale", i>>)
  BY <1>2 DEF RecordPlaces, D
<1>5. \A i \in D : h[<<"finding", i>>] = <<"finding", at[i]>>
  BY <1>4
<1>6. \A i \in DOMAIN r.stale : h[<<"stale", i>>] = <<"stale", i>>
  BY <1>4
<1>7. DOMAIN h = S /\ h = [p \in S |-> h[p]]
  OBVIOUS
<1>8. /\ \A i \in D : RecordAt(s, <<"finding", i>>) = RecordAt(r, <<"finding", at[i]>>)
      /\ \A i : RecordAt(s, <<"stale", i>>) = RecordAt(r, <<"stale", i>>)
  BY <1>1 DEF RecordAt
<1>9. \A i, j : <<"finding", i>> # <<"stale", j>>
  <2> SUFFICES ASSUME NEW i, NEW j, <<"finding", i>> = <<"stale", j>> PROVE FALSE
    OBVIOUS
  <2>1. <<"finding", i>>[1] = "finding" /\ <<"stale", j>>[1] = "stale"
    OBVIOUS
  <2> QED BY <2>1
<1>10. \A i, j : <<"finding", i>> = <<"finding", j>> => i = j
  OBVIOUS
<1> HIDE DEF R, S, h
<1>11. \A p \in S : h[p] \in R /\ RecordAt(s, p) = RecordAt(r, h[p])
  BY <1>3, <1>4, <1>5, <1>6, <1>8
<1>12. \A p, q \in S : h[p] = h[q] => p = q
  BY <1>3, <1>4, <1>5, <1>6, <1>9, <1>10
<1>13. \A q \in R : \E p \in S : h[p] = q
  <2>1. ASSUME NEW i \in D PROVE \E p \in S : h[p] = <<"finding", i>>
    <3>1. PICK x \in D : at[x] = i
      BY <1>3
    <3> QED BY <1>4, <1>5, <3>1
  <2>2. \A i \in DOMAIN r.stale : \E p \in S : h[p] = <<"stale", i>>
    BY <1>4, <1>6
  <2> QED BY <1>4, <2>1, <2>2
<1>14. h \in [S -> R]
  BY <1>7, <1>11
<1>15. h \in Bijection(S, R)
  BY <1>12, <1>13, <1>14 DEF Bijection, Injection, Surjection, IsInjective
<1> QED BY <1>11, <1>15 DEF R, S

(* As many of each mention, where the records are the same.                *)
LEMMA CountedThrough ==
  ASSUME NEW S, NEW T, IsFiniteSet(T), NEW f \in Bijection(S, T), NEW A, A \subseteq S, NEW B, B \subseteq T,
         \A x \in S : x \in A <=> f[x] \in B
  PROVE  Cardinality(A) = Cardinality(B)
<1>1. f \in [S -> T] /\ (\A x, y \in S : f[x] = f[y] => x = y) /\ \A y \in T : \E x \in S : f[x] = y
  BY BijectionIs
<1> DEFINE g == [y \in B |-> CHOOSE x \in A : f[x] = y]
<1>2. \A y \in B : g[y] \in A /\ f[g[y]] = y
  BY <1>1
<1>3. g = [y \in B |-> g[y]]
  OBVIOUS
<1> HIDE DEF g
<1>4. g \in [B -> A] /\ (\A x, y \in B : g[x] = g[y] => x = y)
  BY <1>2, <1>3
<1>5. \A x \in A : \E y \in B : g[y] = x
  BY <1>1, <1>2
<1>6. IsFiniteSet(B)
  BY FS_Subset
<1> QED BY <1>4, <1>5, <1>6, CountedAlike

-----------------------------------------------------------------------------
(* The log of a report whose findings are shown in another order.          *)
PlacedOnce(r, log) ==
  /\ log = Failed <=> \E p \in RecordPlaces(r) : Unplaceable(r, RecordAt(r, p))
  /\ log # Failed =>
       /\ \A mention : Cardinality({p \in ResultPlaces(log) : MentionBy(log, p) = mention}) =
                         Cardinality({p \in RecordPlaces(r) : MentionOf(r, p) = mention})
       /\ \A p \in ResultPlaces(log) : log.runs[p[1]].rules[ResultAt(log, p).rule] = ResultAt(log, p).code
       /\ \A p, q \in ResultPlaces(log) :
            ResultAt(log, p).path = ResultAt(log, q).path =>
              (ResultAt(log, p).line = ResultAt(log, q).line <=> ResultAt(log, p).hash = ResultAt(log, q).hash)

LEMMA ListedAmong ==
  ASSUME NEW S, NEW list \in Seq(S)
  PROVE  IsList(list) /\ ToSet(list) \subseteq S
BY DEF IsList, ToSet

LEMMA AttributedAlike ==
  ASSUME NEW r, Attributed(r), NEW s, IsList(s.findings), ToSet(s.findings) \subseteq ToSet(r.findings),
         IsList(s.stale), ToSet(s.stale) \subseteq ToSet(r.stale), s.mergedFrom = r.mergedFrom
  PROVE  Attributed(s)
BY DEF Attributed

LEMMA RearrangedAmong ==
  ASSUME NEW u, IsList(u), NEW v, Rearranged(u, v)
  PROVE  IsList(v) /\ ToSet(v) \subseteq ToSet(u)
<1> DEFINE S == ToSet(u)
<1>1. u \in Seq(S)
  BY DEF IsList
<1> HIDE DEF S
<1>2. v \in Seq(S)
  BY <1>1, RearrangedBack
<1> QED BY <1>2, ListedAmong DEF S

LEMMA RecordsPlacedOnce ==
  ASSUME NEW r, Attributed(r), NEW s, Rearranged(r.findings, s.findings), s.stale = r.stale,
         s.mergedFrom = r.mergedFrom, s.languages = r.languages, NEW log, log = SARIF(s, Files)
  PROVE  PlacedOnce(r, log)
<1>1. Attributed(s)
  <2>1. IsList(r.findings) /\ IsList(r.stale)
    BY DEF Attributed
  <2>2. IsList(s.findings) /\ ToSet(s.findings) \subseteq ToSet(r.findings)
    BY <2>1, RearrangedAmong
  <2> QED BY <2>1, <2>2, AttributedAlike
<1> DEFINE P == ResultPlaces(log)
           R == RecordPlaces(r)
           S == RecordPlaces(s)
<1>2. PICK h \in Bijection(S, R) : \A p \in S : RecordAt(s, p) = RecordAt(r, h[p])
  BY ShownAlike
<1>3. IsFiniteSet(S) /\ IsFiniteSet(R)
  BY <1>1, FiniteRecords DEF Attributed
<1>4. /\ log = Failed <=> \E q \in S : Unplaceable(s, RecordAt(s, q))
      /\ log # Failed => \E origin \in Bijection(P, S) : \A p \in P : Says(log, p, RecordAt(s, origin[p]))
  BY <1>1, LogIs
<1>5. \A record : Unplaceable(s, record) <=> Unplaceable(r, record)
  BY DEF Unplaceable, Applies
<1> HIDE DEF P, R, S
<1>6. h \in [S -> R] /\ \A y \in R : \E x \in S : h[x] = y
  BY <1>2, BijectionIs
<1>7. log = Failed <=> \E q \in R : Unplaceable(r, RecordAt(r, q))
  BY <1>2, <1>4, <1>5, <1>6
<1>8. ASSUME log # Failed
      PROVE  /\ \A mention : Cardinality({p \in P : MentionBy(log, p) = mention}) =
                               Cardinality({p \in R : MentionOf(r, p) = mention})
             /\ \A p \in P : log.runs[p[1]].rules[ResultAt(log, p).rule] = ResultAt(log, p).code
             /\ \A p, q \in P :
                  ResultAt(log, p).path = ResultAt(log, q).path =>
                    (ResultAt(log, p).line = ResultAt(log, q).line <=> ResultAt(log, p).hash = ResultAt(log, q).hash)
  <2>1. PICK origin \in Bijection(P, S) : \A p \in P : Says(log, p, RecordAt(s, origin[p]))
    BY <1>4, <1>8
  <2>2. origin \in [P -> S]
    BY <2>1, BijectionIs
  <2>3. \A p \in P : MentionBy(log, p) = MentionOf(s, origin[p])
    BY <2>1 DEF Says, MentionOf
  <2>4. \A p \in S : MentionOf(s, p) = MentionOf(r, h[p])
    BY <1>2 DEF MentionOf
  <2>5. ASSUME NEW mention
        PROVE  Cardinality({p \in P : MentionBy(log, p) = mention}) = Cardinality({p \in R : MentionOf(r, p) = mention})
    <3> DEFINE A == {p \in P : MentionBy(log, p) = mention}
               B == {p \in S : MentionOf(s, p) = mention}
               C == {p \in R : MentionOf(r, p) = mention}
    <3>1. A \subseteq P /\ B \subseteq S /\ C \subseteq R
      OBVIOUS
    <3>2. \A p \in P : p \in A <=> origin[p] \in B
      BY <2>2, <2>3
    <3>3. \A p \in S : p \in B <=> h[p] \in C
      BY <1>6, <2>4
    <3> HIDE DEF A, B, C
    <3>4. Cardinality(A) = Cardinality(B)
      BY <1>3, <2>1, <3>1, <3>2, CountedThrough
    <3>5. Cardinality(B) = Cardinality(C)
      BY <1>2, <1>3, <3>1, <3>3, CountedThrough
    <3> QED BY <3>4, <3>5 DEF A, C
  <2>6. \A p \in P : log.runs[p[1]].rules[ResultAt(log, p).rule] = ResultAt(log, p).code
    BY <2>1 DEF Says
  <2>7. \A p, q \in P :
          ResultAt(log, p).path = ResultAt(log, q).path =>
            (ResultAt(log, p).line = ResultAt(log, q).line <=> ResultAt(log, p).hash = ResultAt(log, q).hash)
    BY <2>1, SaysWhichLine
  <2> QED BY <2>5, <2>6, <2>7
<1> QED BY <1>7, <1>8 DEF PlacedOnce, P, R

LEMMA LineEndingsAsideInFiles ==
  \A path \in DOMAIN Files : LineHashes(WithCarriageReturns(Files[path])) = LineHashes(Files[path])
BY FilesAreUnits, LineEndingsAside

-----------------------------------------------------------------------------
(* A held report names what its records were merged from, if anything.     *)
LEMMA AttributedByBuild ==
  ASSUME NEW in \in Inputs
  PROVE  Attributed(Build(in))
<1> DEFINE A == Assembled(in)
           O == Order(A)
           B == Build(in)
<1>1. /\ Arrays \union {"components", "totals"} \subseteq DOMAIN A
      /\ A["mergedFrom"] = None
      /\ \A array \in Arrays \ {"mergedFrom"} : array \in DOMAIN in /\ A[array] = in[array]
      /\ O = [member \in DOMAIN A |-> Canonical(member, A[member])]
  BY AssembledHolds
<1>2. B = Completed(O, in.members)
  BY DEF Build
<1> HIDE DEF A, O, B
<1>3. DOMAIN O = DOMAIN A /\ \A member \in DOMAIN A : O[member] = Canonical(member, A[member])
  BY <1>1
<1>4. \A member \in DOMAIN O \ {"components", "totals"} : B[member] = O[member]
  BY <1>1, <1>2, <1>3, CompletedHolds
<1>5. "stale" \in Arrays \ {"mergedFrom"} /\ "mergedFrom" \in Arrays /\ "findings" \in Arrays \ {"mergedFrom"}
      /\ "stale" \notin Listed \union {"languages"}
  BY DEF Arrays, ById, Listed
<1>6. {"stale", "mergedFrom"} \subseteq DOMAIN O \ {"components", "totals"}
  BY <1>1, <1>3, <1>5, NoArray
<1>7. B.mergedFrom = None
  <2>1. B["mergedFrom"] = Canonical("mergedFrom", None)
    BY <1>1, <1>3, <1>4, <1>6
  <2> QED BY <2>1 DEF Canonical
<1>8. B.stale = Sorted("stale", in.stale)
  <2>1. B["stale"] = Canonical("stale", in["stale"])
    BY <1>1, <1>3, <1>4, <1>5, <1>6
  <2> QED BY <1>5, <2>1 DEF Canonical
<1>9. /\ Keyed("stale", in.stale) /\ IsList(in.findings) /\ IsList(in.stale)
      /\ \A record \in ToSet(in.findings) \union ToSet(in.stale) : record.analyzer = 0
  BY <1>5, InputsAreWhole DEF Keyed
<1>10. IsList(B.stale) /\ ToSet(B.stale) \subseteq ToSet(in.stale)
  BY <1>8, <1>9, SortedRearranges, RearrangedAmong
<1>11. IsList(B.findings) /\ ToSet(B.findings) \subseteq ToSet(in.findings)
  <2>1. Rearranged(in.findings, B.findings)
    BY BuildHolds DEF B
  <2> QED BY <1>9, <2>1, RearrangedAmong
<1> QED BY <1>7, <1>9, <1>10, <1>11 DEF Attributed, B

LEMMA AttributedByDecode ==
  ASSUME NEW in \in Documents
  PROVE  Attributed(in)
<1>1. IsList(in.findings) /\ IsList(in.stale)
  BY DocumentsAreCanonical DEF Keyed
<1> QED BY <1>1, DocumentsAreCanonical DEF Attributed

LEMMA AttributedByCap ==
  ASSUME NEW r, Shaped(r), InPlace(r), Whole(r), NEW members, ListedWith(r, members), Attributed(r),
         NEW most \in Int, NEW bySize \in BOOLEAN
  PROVE  Attributed(Cap(r, most, bySize))
<1> DEFINE q == Cap(r, most, bySize)
<1>1. Whole(q) /\ ToSet(q.findings) \subseteq ToSet(r.findings)
  BY CapHolds
<1>2. q.stale = r.stale /\ q.mergedFrom = r.mergedFrom
  <2>1. CASE most <= 0 \/ Len(r.findings) <= most
    <3>1. q = r
      BY <2>1 DEF Cap
    <3> QED BY <3>1
  <2>2. CASE ~ (most <= 0 \/ Len(r.findings) <= most)
    <3> DEFINE ranked == IF bySize THEN BySize(r.findings) ELSE r.findings
               kept == Sorted("findings", SubSeq(ranked, 1, most))
               capped == [r EXCEPT !.findings = kept, !.totals.omitted = @ + Len(r.findings) - most]
               l == Listing(capped, MembersOf(capped))
    <3>1. q = Relisted(capped)
      BY <2>2, Zenon DEF Cap
    <3> HIDE DEF q, kept, l
    <3>2. {"stale", "mergedFrom"} \subseteq DOMAIN r
      BY DEF Shaped, Arrays, ById
    <3>3. capped.stale = r.stale /\ capped.mergedFrom = r.mergedFrom /\ {"stale", "mergedFrom"} \subseteq DOMAIN capped
      BY <3>2
    <3> HIDE DEF capped
    <3>4. q = IF capped.components = None THEN capped ELSE [capped EXCEPT !.components = l]
      BY <3>1 DEF Relisted, l
    <3> QED BY <3>3, <3>4
  <2> QED BY <2>1, <2>2
<1>3. IsList(q.findings) /\ IsList(r.stale)
  BY <1>1 DEF Whole, Keyed, Attributed
<1> HIDE DEF q
<1>4. Attributed(q)
  BY <1>1, <1>2, <1>3, AttributedAlike
<1> QED BY <1>4 DEF q

(* What a rendering is of.                                                 *)
LEMMA RenderedHolds ==
  ASSUME NEW r, Shaped(r), InPlace(r), Whole(r), NEW bySize \in BOOLEAN
  PROVE  LET s == Rendered(r, bySize)
         IN  /\ Rearranged(r.findings, s.findings) /\ s.stale = r.stale
             /\ s.mergedFrom = r.mergedFrom /\ s.languages = r.languages
<1> DEFINE L == r.findings
           ranked == IF bySize THEN BySize(L) ELSE L
           s == Rendered(r, bySize)
<1>1. Keyed("findings", L) /\ \A f \in ToSet(L) : Measured(f)
  BY DEF Whole
<1>2. "findings" \in Arrays /\ "findings" \notin Listed \union {"languages"}
  BY DEF Arrays, ById, Listed
<1>3. Sorted("findings", L) = L
  BY <1>2 DEF InPlace, Canonical
<1>4. Rearranged(L, ranked)
  BY <1>1, <1>3, RankedForACap
<1>5. {"findings", "stale", "mergedFrom", "languages"} \subseteq DOMAIN r
  BY DEF Shaped, Arrays, ById
<1>6. s = IF bySize THEN [r EXCEPT !.findings = BySize(L)] ELSE r
  BY DEF Rendered
<1> HIDE DEF s
<1>7. s.findings = ranked /\ s.stale = r.stale /\ s.mergedFrom = r.mergedFrom /\ s.languages = r.languages
  BY <1>5, <1>6
<1> QED BY <1>4, <1>7 DEF s

(* The invariant: a rendering is of the report it was asked for.           *)
RenderInv ==
  /\ ReportInv
  /\ phase \notin {"answered", "refused"} => Attributed(report)
  /\ phase # "rendered" => rendering = None
  /\ phase = "rendered" => \E bySize \in BOOLEAN : rendering.made = Render(rendering.format, report, bySize, Files)

LEMMA StepRendering ==
  RenderInv /\ [Next]_vars => RenderInv'
<1> SUFFICES ASSUME RenderInv, [Next]_vars PROVE RenderInv'
  OBVIOUS
<1>1. ReportInv /\ ReportInv'
  BY StepReport DEF RenderInv
<1>2. CASE RefuseInput
  BY <1>1, <1>2 DEF RefuseInput, RenderInv
<1>3. CASE Assemble
  <2>1. input \in Inputs
    BY <1>1, <1>3, NoInputIsADocument DEF Assemble, ReportInv, IsDocument
  <2>2. Attributed(Build(input))
    BY <2>1, AttributedByBuild
  <2> QED BY <1>1, <1>3, <2>2 DEF Assemble, RenderInv
<1>4. CASE Decode
  <2>1. input \in Documents
    BY <1>1, <1>4, NoInputIsADocument DEF Decode, ReportInv, IsDocument
  <2>2. Attributed(input)
    BY <2>1, AttributedByDecode
  <2> QED BY <1>1, <1>4, <2>2 DEF Decode, RenderInv
<1>5. CASE OrderAgain
  <2>1. Settled(input, report, caps)
    BY <1>1, <1>5 DEF OrderAgain, ReportInv
  <2>2. Order(report) = report
    BY <2>1, OrderChangesNothing DEF Settled
  <2> QED BY <1>1, <1>5, <2>2 DEF OrderAgain, RenderInv
<1>6. ASSUME NEW most \in Most, NEW bySize \in BOOLEAN, CapFindings(most, bySize) PROVE RenderInv'
  <2>1. Settled(input, report, caps) /\ most \in Int /\ Attributed(report)
    BY <1>1, <1>6, ReportAssumption DEF CapFindings, ReportInv, RenderInv
  <2>2. Attributed(Cap(report, most, bySize))
    BY <2>1, AttributedByCap DEF Settled
  <2> QED BY <1>1, <1>6, <2>2 DEF CapFindings, RenderInv
<1>7. CASE Encode
  BY <1>1, <1>7 DEF Encode, RenderInv
<1>8. ASSUME NEW format, NEW bySize \in BOOLEAN, RenderAs(format, bySize) PROVE RenderInv'
  <2>1. /\ report' = report /\ phase = "held" /\ phase' = "rendered" /\ Attributed(report)
        /\ rendering' = [format |-> format, made |-> Render(format, report, bySize, Files)]
    BY <1>8 DEF RenderAs, RenderInv
  <2>2. rendering'.format = format /\ rendering'.made = Render(format, report, bySize, Files)
    BY <2>1
  <2> QED BY <1>1, <2>1, <2>2 DEF RenderInv
<1>9. CASE UNCHANGED vars
  BY <1>1, <1>9 DEF vars, RenderInv
<1> QED BY <1>2, <1>3, <1>4, <1>5, <1>6, <1>7, <1>8, <1>9 DEF Next

(* A SARIF log holds every record of the report it is of once, in the run  *)
(* of the analyzer that carried it, under a rule of its code and with a    *)
(* fingerprint of its line that no line ending changes; and a report has   *)
(* no log exactly where one of its records cannot be placed.               *)
THEOREM RecordsStayPlacedOnce ==
  Spec => []EachRecordPlacedOnce
<1>1. Init => RenderInv
  BY InitReport DEF Init, RenderInv
<1>2. RenderInv /\ [Next]_vars => RenderInv'
  BY StepRendering
<1>3. RenderInv => EachRecordPlacedOnce
  <2> SUFFICES ASSUME RenderInv, rendering # None, rendering.format = "sarif" PROVE EachRecordPlacedOnce
    BY DEF EachRecordPlacedOnce
  <2>1. phase = "rendered" /\ Settled(input, report, caps) /\ Attributed(report)
    BY DEF RenderInv, ReportInv
  <2>2. PICK bySize \in BOOLEAN : rendering.made = Render("sarif", report, bySize, Files)
    BY <2>1 DEF RenderInv
  <2> DEFINE log == rendering.made
             s == Rendered(report, bySize)
  <2>3. log = SARIF(s, Files)
    BY <2>2 DEF Render
  <2>4. /\ Rearranged(report.findings, s.findings) /\ s.stale = report.stale
        /\ s.mergedFrom = report.mergedFrom /\ s.languages = report.languages
    BY <2>1, RenderedHolds DEF Settled
  <2> HIDE DEF log, s
  <2>5. PlacedOnce(report, log)
    BY <2>1, <2>3, <2>4, RecordsPlacedOnce
  <2> QED BY <2>5, LineEndingsAsideInFiles DEF PlacedOnce, EachRecordPlacedOnce, log
<1> QED BY <1>1, <1>2, <1>3, PTL DEF Spec

-----------------------------------------------------------------------------
(* A report is the same in whatever order its records arrived.             *)
Arriving == {"findings", "evaluations", "notes", "configurations"}

LEMMA ArrivalSorted ==
  ASSUME input \in Inputs, NEW array \in Arriving, NEW t \in Arrivals(array)
  PROVE  Canonical(array, t) = Canonical(array, input[array])
<1> DEFINE s == input[array]
           D == DOMAIN s
           twice == array \in ById /\ \E i, j \in D : i # j /\ s[i].id = s[j].id
<1>1. PICK p \in [D -> D] : /\ t = [i \in D |-> s[p[i]]]
                            /\ IsInjective(p) /\ (twice => \A i \in D : p[i] = i)
  BY DEF Arrivals
<1>2. array \in Arrays /\ array # "mergedFrom"
  BY DEF Arriving, Arrays, ById, Listed
<1>3. Keyed(array, s)
  BY <1>2, InputsAreWhole
<1> HIDE DEF s
<1>4. s \in Seq(ToSet(s)) /\ D = 1 .. Len(s) /\ Len(s) \in Nat
  BY <1>3 DEF Keyed, IsList
<1>5. CASE twice
  <2>1. t = [i \in D |-> s[i]]
    BY <1>1, <1>5
  <2>2. t = s
    BY <1>4, <2>1
  <2> QED BY <2>2 DEF s
<1>6. CASE ~ twice
  <2>1. \A i, j \in D : SortKey(array, s[i]) = SortKey(array, s[j]) => s[i] = s[j]
    <3>1. CASE array \notin ById
      <4>1. \A i \in D : s[i] \in ToSet(s)
        BY DEF ToSet
      <4> QED BY <1>3, <3>1, <4>1, KeyedCompares
    <3>2. CASE array \in ById
      <4>1. \A e : SortKey(array, e) = <<e.id>>
        BY <3>2 DEF SortKey, ById, Listed
      <4>2. \A i, j \in D : s[i].id = s[j].id => i = j
        BY <1>6, <3>2
      <4> QED BY <4>1, <4>2
    <3> QED BY <3>1, <3>2
  <2>2. Rearranged(s, t)
    <3>1. p \in Injection(D, D)
      BY <1>1 DEF Injection, IsInjective
    <3>2. IsFiniteSet(D)
      BY <1>4, FS_Interval
    <3>3. p \in Surjection(D, D)
      BY <3>1, <3>2, FS_Injection
    <3>4. p \in Bijection(D, D)
      BY <3>1, <3>3 DEF Bijection
    <3>5. DOMAIN t = D
      BY <1>1
    <3> QED BY <1>1, <3>4, <3>5 DEF Rearranged
  <2> HIDE DEF D
  <2>3. Canonical(array, t) = Canonical(array, s)
    BY <1>2, <1>3, <2>1, <2>2, CanonicalKeeps DEF D
  <2> QED BY <2>3 DEF s
<1> QED BY <1>5, <1>6

LEMMA SameBuild ==
  ASSUME NEW a \in Inputs, NEW b, DOMAIN b = DOMAIN a,
         \A member \in DOMAIN a \ Arriving : b[member] = a[member],
         \A array \in Arriving : Canonical(array, b[array]) = Canonical(array, a[array])
  PROVE  Build(b) = Build(a)
<1> DEFINE A == Assembled(a)
           B == Assembled(b)
<1>1. Arrays \ {"mergedFrom"} \subseteq DOMAIN a /\ {"members", "uncounted"} \subseteq DOMAIN a
  BY InputsAreWhole
<1>2. Arriving \subseteq Arrays \ {"mergedFrom"} /\ {"loaded", "unavailable"} \subseteq (Arrays \ {"mergedFrom"}) \ Arriving
      /\ {"members", "uncounted"} \intersect Arriving = {}
  BY DEF Arriving, Arrays, ById, Listed
<1>3. a.members = b.members /\ a.uncounted = b.uncounted /\ a.loaded = b.loaded /\ a.unavailable = b.unavailable
  BY <1>1, <1>2
<1>4. DOMAIN B = DOMAIN A
  BY DEF Assembled
<1>5. \A member \in DOMAIN A : Canonical(member, B[member]) = Canonical(member, A[member])
  <2> SUFFICES ASSUME NEW member \in DOMAIN A PROVE Canonical(member, B[member]) = Canonical(member, A[member])
    OBVIOUS
  <2>1. CASE member \in {"mergedFrom", "components", "declared", "totals"}
    <3>1. B[member] = A[member]
      BY <1>3, <2>1 DEF Assembled, ConsumersDeclared
    <3> QED BY <3>1
  <2>2. CASE member \notin {"mergedFrom", "components", "declared", "totals"}
    <3>1. B[member] = b[member] /\ A[member] = a[member] /\ member \in DOMAIN a
      BY <2>2 DEF Assembled
    <3> HIDE DEF A, B
    <3>2. CASE member \in Arriving
      BY <3>1, <3>2
    <3>3. CASE member \notin Arriving
      BY <3>1, <3>3
    <3> QED BY <3>2, <3>3
  <2> QED BY <2>1, <2>2
<1>6. A.components = None /\ B.components = None /\ "components" \in DOMAIN A
  BY DEF Assembled
<1> HIDE DEF A, B
<1>7. [member \in DOMAIN B |-> Canonical(member, B[member])] = [member \in DOMAIN A |-> Canonical(member, A[member])]
  BY <1>4, <1>5
<1>8. Order(B) = Order(A)
  BY <1>7 DEF Order
<1> QED BY <1>3, <1>8 DEF Build, A, B

THEOREM ArrivalsDoNotMatter ==
  Spec => []ArrivalDoesNotMatter
<1>1. ReportInv => ArrivalDoesNotMatter
  <2> SUFFICES ASSUME ReportInv PROVE ArrivalDoesNotMatter
    OBVIOUS
  <2>1. Held => report = Order(report)
    BY OrderChangesNothing DEF ReportInv, Held, Settled
  <2>2. ASSUME phase = "held", ~ IsDocument, caps = NoCaps,
               NEW findings \in Arrivals("findings"), NEW evaluations \in Arrivals("evaluations"),
               NEW notes \in Arrivals("notes"), NEW configurations \in Arrivals("configurations")
        PROVE  report = Build([input EXCEPT !.findings = findings, !.evaluations = evaluations,
                                            !.notes = notes, !.configurations = configurations])
    <3> DEFINE other == [input EXCEPT !.findings = findings, !.evaluations = evaluations,
                                      !.notes = notes, !.configurations = configurations]
    <3>1. input \in Inputs /\ report = Build(input)
      BY <2>2, NoInputIsADocument DEF ReportInv, IsDocument
    <3>2. Arriving \subseteq DOMAIN input
      BY <3>1, InputsAreWhole DEF Arriving, Arrays, ById, Listed
    <3>3. /\ DOMAIN other = DOMAIN input
          /\ \A member \in DOMAIN input \ Arriving : other[member] = input[member]
          /\ other.findings = findings /\ other.evaluations = evaluations
          /\ other.notes = notes /\ other.configurations = configurations
      BY <3>2 DEF Arriving
    <3> HIDE DEF other
    <3>4. ASSUME NEW array \in Arriving PROVE Canonical(array, other[array]) = Canonical(array, input[array])
      <4>1. other[array] \in Arrivals(array)
        BY <2>2, <3>3 DEF Arriving
      <4> QED BY <3>1, <4>1, ArrivalSorted
    <3>5. Build(other) = Build(input)
      BY <3>1, <3>3, <3>4, SameBuild
    <3> QED BY <3>1, <3>5 DEF other
  <2> QED BY <2>1, <2>2 DEF ArrivalDoesNotMatter
<1> QED BY <1>1, ReportsStaySettled, PTL

-----------------------------------------------------------------------------
(* Facts documents.  A list that ascends step by step ascends throughout,  *)
(* so that it is sorted and has each key once.                             *)
Climbs(s, key) == \A i \in 2 .. Len(s) : Precedes(key[s[i - 1]], key[s[i]])
Told(s, key) == \A i, j \in DOMAIN s : key[s[i]] = key[s[j]] => s[i] = s[j]

LEMMA ClimbingIsSorted ==
  ASSUME NEW S, NEW s \in Seq(S), NEW m, NEW key, Keying(S, key, m), Climbs(s, key)
  PROVE  /\ ByKey(s, key) = s
         /\ \A i, j \in DOMAIN s : key[s[i]] = key[s[j]] => i = j
<1> DEFINE n == Len(s)
           k == [i \in 1 .. n |-> key[s[i]]]
           late == {b \in 1 .. n : \E a \in 1 .. b - 1 : ~ Precedes(k[a], k[b])}
<1>1. n \in Nat /\ DOMAIN s = 1 .. n /\ m \in Nat /\ \A i \in 1 .. n : k[i] \in [1 .. m -> Int] /\ k[i] = key[s[i]]
  BY DEF Keying
<1>2. \A i \in 2 .. n : Precedes(k[i - 1], k[i])
  <2> SUFFICES ASSUME NEW i \in 2 .. n PROVE Precedes(k[i - 1], k[i])
    OBVIOUS
  <2>1. i \in 1 .. n /\ i - 1 \in 1 .. n
    BY <1>1
  <2> QED BY <1>1, <2>1 DEF Climbs
<1> HIDE DEF k, n
<1>3. late = {}
  <2> SUFFICES ASSUME late # {} PROVE FALSE
    OBVIOUS
  <2>1. PICK b \in late : \A c \in late : b <= c
    <3>1. late \subseteq Nat
      BY <1>1
    <3> QED BY <3>1, LeastMember
  <2>2. PICK a \in 1 .. b - 1 : ~ Precedes(k[a], k[b])
    OBVIOUS
  <2>3. a \in Int /\ b \in Int /\ 1 <= a /\ a <= b - 1 /\ b <= n
    BY <1>1
  <2>4. a # b - 1
    <3>1. b \in 2 .. n
      BY <1>1, <2>3
    <3> QED BY <1>2, <2>2, <3>1
  <2>5. b - 1 \in 1 .. n /\ a \in 1 .. n /\ b \in 1 .. n /\ b \in 2 .. n /\ a \in 1 .. (b - 1) - 1
    BY <1>1, <2>3, <2>4
  <2>6. b - 1 \notin late
    BY <2>1, <2>3
  <2>7. Precedes(k[a], k[b - 1])
    BY <2>5, <2>6
  <2>8. Precedes(k[b - 1], k[b])
    BY <1>2, <2>5
  <2> QED BY <1>1, <2>2, <2>5, <2>7, <2>8, PrecedesIsTransitive
<1>4. \A i, j \in 1 .. n : i < j => Precedes(k[i], k[j])
  <2> SUFFICES ASSUME NEW i \in 1 .. n, NEW j \in 1 .. n, i < j PROVE Precedes(k[i], k[j])
    OBVIOUS
  <2>1. i \in 1 .. j - 1
    BY <1>1
  <2> QED BY <1>3, <2>1
<1>5. \A i, j \in 1 .. n : i < j => k[i] # k[j] /\ ~ Precedes(k[j], k[i])
  BY <1>1, <1>4, PrecedesIsStrict
<1>6. Ascends(s, key)
  BY <1>1, <1>5 DEF Ascends
<1>7. ByKey(s, key) = s
  BY <1>6, Sorting
<1>8. \A i, j \in 1 .. n : k[i] = k[j] => i = j
  BY <1>1, <1>5
<1> QED BY <1>1, <1>7, <1>8

(* An order that gives each element once is a rearrangement.               *)
LEMMA ReorderedIsRearranged ==
  ASSUME NEW S, NEW s \in Seq(S), NEW t \in Reordered(s)
  PROVE  Rearranged(s, t)
<1> DEFINE D == DOMAIN s
<1>1. PICK p \in [D -> D] : t = [i \in D |-> s[p[i]]] /\ IsInjective(p)
  BY DEF Reordered
<1>2. IsFiniteSet(D)
  <2>1. D = 1 .. Len(s) /\ Len(s) \in Nat
    OBVIOUS
  <2> QED BY <2>1, FS_Interval
<1>3. p \in Injection(D, D)
  BY <1>1 DEF Injection, IsInjective
<1>4. p \in Bijection(D, D)
  BY <1>2, <1>3, FS_Injection DEF Bijection
<1>5. DOMAIN t = D
  BY <1>1
<1> QED BY <1>1, <1>4, <1>5 DEF Rearranged

(* A name list is sorted to one list in whatever order it came.            *)
NameKey == [n \in Int |-> <<n>>]

LEMMA NameKeying == Keying(Int, NameKey, 1)
<1>1. \A n \in Int : <<n>> \in [1 .. 1 -> Int]
  OBVIOUS
<1> QED BY <1>1 DEF Keying, NameKey

LEMMA NamesSorted ==
  ASSUME NEW s \in Seq(Int)
  PROVE  /\ SortOn(s, Unary) \in Seq(Int)
         /\ \A t \in Reordered(s) : t \in Seq(Int) /\ SortOn(t, Unary) = SortOn(s, Unary)
         /\ AscendingNames(s) => SortOn(s, Unary) = s
<1>1. ASSUME NEW t \in Seq(Int) PROVE SortOn(t, Unary) = ByKey(t, NameKey)
  <2>1. \A i \in DOMAIN t : t[i] \in Int
    OBVIOUS
  <2>2. [i \in DOMAIN t |-> Unary(t[i])] = [i \in DOMAIN t |-> NameKey[t[i]]]
    BY <2>1 DEF Unary, NameKey
  <2> QED BY <2>2 DEF SortOn, ByKey
<1>2. Rearranged(s, ByKey(s, NameKey))
  BY NameKeying, Sorting
<1>3. ByKey(s, NameKey) \in Seq(Int)
  BY <1>2, RearrangedBack
<1>4. Told(s, NameKey)
  BY DEF Told, NameKey
<1>5. ASSUME NEW t \in Reordered(s) PROVE t \in Seq(Int) /\ ByKey(t, NameKey) = ByKey(s, NameKey)
  <2>1. Rearranged(s, t)
    BY ReorderedIsRearranged
  <2>2. t \in Seq(Int)
    BY <2>1, RearrangedBack
  <2>3. ByKey(t, NameKey) = ByKey(s, NameKey)
    BY <1>4, <2>1, NameKeying, SortingAnyArrival DEF Told
  <2> QED BY <2>2, <2>3
<1>8. ASSUME AscendingNames(s) PROVE ByKey(s, NameKey) = s
  <2>1. Climbs(s, NameKey)
    <3> SUFFICES ASSUME NEW i \in 2 .. Len(s) PROVE Precedes(NameKey[s[i - 1]], NameKey[s[i]])
      BY DEF Climbs
    <3>1. s[i - 1] \in Int /\ s[i] \in Int
      <4>1. i \in DOMAIN s /\ i - 1 \in DOMAIN s
        OBVIOUS
      <4> QED BY <4>1
    <3> QED BY <1>8, <3>1 DEF AscendingNames, Ascending, NameKey, Unary
  <2> QED BY <2>1, NameKeying, ClimbingIsSorted
<1> QED BY <1>1, <1>3, <1>5, <1>8

-----------------------------------------------------------------------------
(* The first check that fails is a rule's keyword, and none fails exactly  *)
(* where each holds.                                                       *)
Decided == {None} \union RuleNames

LEMMA FirstFailingIs ==
  ASSUME NEW checks, Len(checks) \in Nat,
         \A i \in 1 .. Len(checks) : checks[i][1] \/ checks[i][2] \in RuleNames
  PROVE  /\ FirstFailing(checks) \in Decided
         /\ FirstFailing(checks) = None <=> \A i \in 1 .. Len(checks) : checks[i][1]
<1> DEFINE failing == {i \in 1 .. Len(checks) : ~ checks[i][1]}
           first == SelectInSeq(checks, LAMBDA check : ~ check[1])
<1>1. first = IF failing # {} THEN Min(failing) ELSE 0
  BY DEF SelectInSeq
<1>2. CASE failing = {}
  <2>1. first = 0
    BY <1>1, <1>2
  <2>2. FirstFailing(checks) = None
    BY <2>1 DEF FirstFailing
  <2> QED BY <1>2, <2>2 DEF Decided
<1>3. CASE failing # {}
  <2>1. failing \subseteq Nat
    OBVIOUS
  <2>2. PICK x \in failing : \A y \in failing : x <= y
    BY <1>3, <2>1, LeastMember
  <2>3. first = Min(failing)
    BY <1>1, <1>3
  <2>4. Min(failing) \in failing
    <3> HIDE DEF failing
    <3> QED BY <2>2 DEF Min
  <2> HIDE DEF first
  <2>5. first \in 1 .. Len(checks) /\ ~ checks[first][1] /\ first # 0
    BY <2>3, <2>4
  <2>6. FirstFailing(checks) = checks[first][2]
    BY <2>5 DEF FirstFailing, first
  <2>7. checks[first][2] \in RuleNames
    BY <2>5
  <2> QED BY <2>5, <2>6, <2>7, NoneIsNoRule DEF Decided
<1> QED BY <1>2, <1>3

(* What an admitted entry, finding and record kept.                        *)
LEMMA GeneratedDecides ==
  ASSUME NEW d, NEW i
  PROVE  /\ GeneratedRefusal(d, i) \in Decided
         /\ GeneratedRefusal(d, i) = None =>
              /\ i = 1 \/ d.generated[i - 1].path < d.generated[i].path
              /\ AscendingNames(d.generated[i].schemas)
<1> DEFINE g == d.generated[i]
           c1 == i = 1 \/ d.generated[i - 1].path < g.path
           c2 == AscendingNames(g.schemas)
           c3 == g.generator = None \/ GeneratorFits(d, g.generator)
           checks == << <<c1, "order">>, <<c2, "order">>, <<c3, "generator">> >>
<1>1. GeneratedRefusal(d, i) = FirstFailing(checks)
  BY DEF GeneratedRefusal
<1> HIDE DEF c1, c2, c3
<1>2. Len(checks) = 3 /\ checks[1][1] = c1 /\ checks[2][1] = c2
  OBVIOUS
<1>3. \A k \in 1 .. 3 : checks[k][2] \in RuleNames
  BY DEF RuleNames
<1> HIDE DEF checks
<1>4. /\ FirstFailing(checks) \in Decided
      /\ FirstFailing(checks) = None <=> \A k \in 1 .. Len(checks) : checks[k][1]
  BY <1>2, <1>3, FirstFailingIs
<1>5. ASSUME FirstFailing(checks) = None PROVE c1 /\ c2
  <2>1. checks[1][1] /\ checks[2][1]
    BY <1>2, <1>4, <1>5
  <2> QED BY <1>2, <2>1
<1> QED BY <1>1, <1>4, <1>5 DEF c1, c2

LEMMA FindingDecides ==
  ASSUME NEW d, NEW b
  PROVE  FindingRefusal(d, b) \in Decided
<1> DEFINE f == b.finding
           c1 == f.minter = d.analyzer
           c2 == f.ref = b.symbol
           c3 == b.role = Schema => f.family = SchemaFamily /\ f.inFile
           c4 == b.role = Implementer => f.family # SchemaFamily
           c5 == \A c \in ToSet(b.carried) : c = f.component
           checks == << <<c1, "finding">>, <<c2, "finding">>, <<c3, "finding">>, <<c4, "finding">>,
                        <<c5, "carried">> >>
<1>1. FindingRefusal(d, b) = IF f = None THEN None ELSE FirstFailing(checks)
  BY DEF FindingRefusal
<1> HIDE DEF c1, c2, c3, c4, c5
<1>2. Len(checks) = 5
  OBVIOUS
<1>3. \A k \in 1 .. 5 : checks[k][2] \in RuleNames
  BY DEF RuleNames
<1> HIDE DEF checks
<1>4. FirstFailing(checks) \in Decided
  BY <1>2, <1>3, FirstFailingIs
<1> QED BY <1>1, <1>4 DEF Decided

LEMMA BindingDecides ==
  ASSUME NEW d, NEW i
  PROVE  /\ BindingRefusal(d, i) \in Decided
         /\ BindingRefusal(d, i) = None =>
              /\ i = 1 \/ Precedes(CompareTuple(d.bindings[i - 1]), CompareTuple(d.bindings[i]))
              /\ AscendingNames(d.bindings[i].via)
              /\ AscendingNames(d.bindings[i].uses)
              /\ AscendingNames(d.bindings[i].members)
              /\ \A v \in ToSet(d.bindings[i].via) : v # d.bindings[i].symbol /\ v \in Implementers(d)
<1> DEFINE b == d.bindings[i]
           c1 == i = 1 \/ Precedes(CompareTuple(d.bindings[i - 1]), CompareTuple(b))
           c2 == AscendingNames(b.via)
           c3 == AscendingNames(b.uses)
           c4 == AscendingNames(b.members)
           c5 == b.generatedFile \in WithGenerator(d) \union {0}
           c6 == b.scheme = d.language
           c7 == b.role = Schema => b.symbol = b.schema
           c8 == \A v \in ToSet(b.via) : v # b.symbol /\ v \in Implementers(d)
           refused == FindingRefusal(d, b)
           c9 == refused = None
           checks == << <<c1, "order">>, <<c2, "order">>, <<c3, "order">>, <<c4, "order">>,
                        <<c5, "generated_file">>, <<c6, "scheme">>, <<c7, "schema">>, <<c8, "via">>,
                        <<c9, refused>> >>
<1>1. BindingRefusal(d, i) = FirstFailing(checks)
  BY DEF BindingRefusal
<1>2. refused \in Decided /\ (c9 <=> refused = None)
  BY FindingDecides
<1> HIDE DEF c1, c2, c3, c4, c5, c6, c7, c8, c9, refused
<1>3. Len(checks) = 9 /\ checks[1][1] = c1 /\ checks[2][1] = c2 /\ checks[3][1] = c3 /\ checks[4][1] = c4
      /\ checks[8][1] = c8 /\ checks[9][1] = c9 /\ checks[9][2] = refused
  OBVIOUS
<1>4. \A k \in 1 .. 8 : checks[k][2] \in RuleNames
  BY DEF RuleNames
<1> HIDE DEF checks
<1>5. \A k \in 1 .. 9 : checks[k][1] \/ checks[k][2] \in RuleNames
  BY <1>2, <1>3, <1>4 DEF Decided
<1>6. /\ FirstFailing(checks) \in Decided
      /\ FirstFailing(checks) = None <=> \A k \in 1 .. Len(checks) : checks[k][1]
  <2>1. Len(checks) \in Nat /\ \A k \in 1 .. Len(checks) : checks[k][1] \/ checks[k][2] \in RuleNames
    BY <1>3, <1>5
  <2> QED BY <2>1, FirstFailingIs
<1>7. ASSUME FirstFailing(checks) = None PROVE c1 /\ c2 /\ c3 /\ c4 /\ c8
  <2>1. checks[1][1] /\ checks[2][1] /\ checks[3][1] /\ checks[4][1] /\ checks[8][1]
    BY <1>3, <1>6, <1>7
  <2> QED BY <1>3, <2>1
<1> QED BY <1>1, <1>6, <1>7 DEF c1, c2, c3, c4, c8

(* A document breaks no rule exactly where no entry and no record does.    *)
LEMMA RulesDecide ==
  ASSUME NEW d \in FactsRecord
  PROVE  /\ Rules(d) \in Decided
         /\ Rules(d) = None => /\ \A i \in DOMAIN d.generated : GeneratedRefusal(d, i) = None
                               /\ \A i \in DOMAIN d.bindings : BindingRefusal(d, i) = None
<1> DEFINE T == BOOLEAN \X Decided
           a == [i \in DOMAIN d.generated |-> <<GeneratedRefusal(d, i) = None, GeneratedRefusal(d, i)>>]
           b == [i \in DOMAIN d.bindings |-> <<BindingRefusal(d, i) = None, BindingRefusal(d, i)>>]
           m == Len(d.generated)
           n == Len(d.bindings)
           checks == a \o b
<1>1. d.generated \in Seq(GeneratedEntry) /\ d.bindings \in Seq(BindingRecord)
  BY DEF FactsRecord
<1>2. m \in Nat /\ n \in Nat /\ DOMAIN d.generated = 1 .. m /\ DOMAIN d.bindings = 1 .. n
  BY <1>1
<1>3. \A i \in 1 .. m : a[i] \in T /\ a[i][1] = (GeneratedRefusal(d, i) = None) /\ a[i][2] = GeneratedRefusal(d, i)
  BY <1>2, GeneratedDecides
<1>4. \A i \in 1 .. n : b[i] \in T /\ b[i][1] = (BindingRefusal(d, i) = None) /\ b[i][2] = BindingRefusal(d, i)
  BY <1>2, BindingDecides
<1>5. a \in Seq(T) /\ Len(a) = m /\ b \in Seq(T) /\ Len(b) = n
  <2>1. a = [i \in 1 .. m |-> a[i]] /\ b = [i \in 1 .. n |-> b[i]]
    BY <1>2
  <2> HIDE DEF a, b, m, n, T
  <2>2. a \in Seq(T) /\ Len(a) = m
    <3>1. a \in [1 .. m -> T]
      BY <1>3, <2>1
    <3> QED BY <1>2, <3>1
  <2>3. b \in Seq(T) /\ Len(b) = n
    <3>1. b \in [1 .. n -> T]
      BY <1>4, <2>1
    <3> QED BY <1>2, <3>1
  <2> QED BY <2>2, <2>3
<1>6. Rules(d) = FirstFailing(checks)
  BY DEF Rules
<1> HIDE DEF a, b, T, m, n
<1>7. /\ Len(checks) = m + n
      /\ \A i \in 1 .. m : checks[i] = a[i]
      /\ \A i \in 1 .. n : checks[m + i] = b[i]
      /\ \A i \in 1 .. m + n : i \in 1 .. m \/ (i - m \in 1 .. n /\ i = m + (i - m))
  <2>1. Len(checks) = m + n
    BY <1>2, <1>5
  <2>2. \A i \in 1 .. m : checks[i] = a[i]
    BY <1>2, <1>5
  <2>3. \A i \in 1 .. n : checks[m + i] = b[i]
    BY <1>2, <1>5
  <2>4. \A i \in 1 .. m + n : i \in 1 .. m \/ (i - m \in 1 .. n /\ i = m + (i - m))
    BY <1>2
  <2> QED BY <2>1, <2>2, <2>3, <2>4
<1> HIDE DEF checks
<1>8. \A i \in 1 .. m : a[i][1] \/ a[i][2] \in RuleNames
  BY <1>2, <1>3, GeneratedDecides DEF Decided
<1>9. \A i \in 1 .. n : b[i][1] \/ b[i][2] \in RuleNames
  <2> SUFFICES ASSUME NEW i \in 1 .. n PROVE b[i][1] \/ b[i][2] \in RuleNames
    OBVIOUS
  <2>1. BindingRefusal(d, i) \in Decided
    BY BindingDecides
  <2> QED BY <1>4, <2>1 DEF Decided
<1>10. \A i \in 1 .. Len(checks) : checks[i][1] \/ checks[i][2] \in RuleNames
  <2> SUFFICES ASSUME NEW i \in 1 .. m + n PROVE checks[i][1] \/ checks[i][2] \in RuleNames
    BY <1>7
  <2>1. CASE i \in 1 .. m
    BY <1>7, <1>8, <2>1
  <2>2. CASE i - m \in 1 .. n /\ i = m + (i - m)
    <3>1. PICK j \in 1 .. n : i = m + j
      BY <2>2
    <3> QED BY <1>7, <1>9, <3>1
  <2> QED BY <1>7, <2>1, <2>2
<1>11. /\ FirstFailing(checks) \in Decided
       /\ FirstFailing(checks) = None <=> \A i \in 1 .. Len(checks) : checks[i][1]
  <2>1. Len(checks) \in Nat
    BY <1>2, <1>7
  <2> QED BY <1>10, <2>1, FirstFailingIs
<1>12. ASSUME FirstFailing(checks) = None
       PROVE  /\ \A i \in 1 .. m : GeneratedRefusal(d, i) = None
              /\ \A i \in 1 .. n : BindingRefusal(d, i) = None
  <2>1. \A i \in 1 .. m : a[i][1]
    <3> SUFFICES ASSUME NEW i \in 1 .. m PROVE a[i][1]
      OBVIOUS
    <3>1. i \in 1 .. Len(checks)
      BY <1>2, <1>7
    <3> QED BY <1>7, <1>11, <1>12, <3>1
  <2>2. \A i \in 1 .. n : b[i][1]
    <3> SUFFICES ASSUME NEW i \in 1 .. n PROVE b[i][1]
      OBVIOUS
    <3>1. m + i \in 1 .. Len(checks)
      BY <1>2, <1>7
    <3> QED BY <1>7, <1>11, <1>12, <3>1
  <2> QED BY <1>3, <1>4, <2>1, <2>2
<1> QED BY <1>2, <1>6, <1>11, <1>12

-----------------------------------------------------------------------------
(* The canonical order as one sort of each array.                          *)
PathKey == [g \in GeneratedEntry |-> ComparePath(g)]
TupleKey == [b \in BindingRecord |-> CompareTuple(b)]
EntriesOf(d) == [i \in DOMAIN d.generated |-> NamesInOrder(d.generated[i])]
RecordsOf(d) == [i \in DOMAIN d.bindings |-> ListsInOrder(d.bindings[i])]

LEMMA EntryInOrder ==
  ASSUME NEW g \in GeneratedEntry
  PROVE  /\ NamesInOrder(g) \in GeneratedEntry /\ NamesInOrder(g).path = g.path
         /\ AscendingNames(g.schemas) => NamesInOrder(g) = g
         /\ \A h \in EntryForms(g) : h \in GeneratedEntry /\ NamesInOrder(h) = NamesInOrder(g)
<1>1. g.schemas \in Seq(Int)
  BY DEF GeneratedEntry
<1>2. PICK sorted \in Seq(Int) : sorted = SortOn(g.schemas, Unary) /\ (AscendingNames(g.schemas) => sorted = g.schemas)
  BY <1>1, NamesSorted
<1>3. NamesInOrder(g) = [g EXCEPT !.schemas = sorted]
  BY <1>2 DEF NamesInOrder
<1>4. ASSUME NEW h \in EntryForms(g) PROVE h \in GeneratedEntry /\ NamesInOrder(h) = NamesInOrder(g)
  <2>1. PICK names \in Reordered(g.schemas) : h = [g EXCEPT !.schemas = names]
    BY DEF EntryForms
  <2>2. names \in Seq(Int) /\ SortOn(names, Unary) = sorted
    BY <1>1, <1>2, NamesSorted
  <2>3. h \in GeneratedEntry /\ h.schemas = names
    BY <2>1, <2>2 DEF GeneratedEntry
  <2>4. NamesInOrder(h) = [h EXCEPT !.schemas = sorted]
    BY <2>2, <2>3 DEF NamesInOrder
  <2>5. [h EXCEPT !.schemas = sorted] = [g EXCEPT !.schemas = sorted]
    BY <2>1 DEF GeneratedEntry
  <2> QED BY <1>3, <2>3, <2>4, <2>5
<1> QED BY <1>2, <1>3, <1>4 DEF GeneratedEntry

LEMMA RecordInOrder ==
  ASSUME NEW b \in BindingRecord
  PROVE  /\ ListsInOrder(b) \in BindingRecord /\ CompareTuple(ListsInOrder(b)) = CompareTuple(b)
         /\ AscendingNames(b.via) /\ AscendingNames(b.uses) /\ AscendingNames(b.members) => ListsInOrder(b) = b
         /\ \A c \in RecordForms(b) : c \in BindingRecord /\ ListsInOrder(c) = ListsInOrder(b)
<1>1. b.via \in Seq(Int) /\ b.uses \in Seq(Int) /\ b.members \in Seq(Int)
  BY DEF BindingRecord
<1>2. PICK v \in Seq(Int) : v = SortOn(b.via, Unary) /\ (AscendingNames(b.via) => v = b.via)
  BY <1>1, NamesSorted
<1>3. PICK u \in Seq(Int) : u = SortOn(b.uses, Unary) /\ (AscendingNames(b.uses) => u = b.uses)
  BY <1>1, NamesSorted
<1>4. PICK m \in Seq(Int) : m = SortOn(b.members, Unary) /\ (AscendingNames(b.members) => m = b.members)
  BY <1>1, NamesSorted
<1>5. ListsInOrder(b) = [b EXCEPT !.via = v, !.uses = u, !.members = m]
  BY <1>2, <1>3, <1>4 DEF ListsInOrder
<1>6. /\ [b EXCEPT !.via = v, !.uses = u, !.members = m] \in BindingRecord
      /\ CompareTuple([b EXCEPT !.via = v, !.uses = u, !.members = m]) = CompareTuple(b)
  BY DEF BindingRecord, CompareTuple
<1>7. v = b.via /\ u = b.uses /\ m = b.members => [b EXCEPT !.via = v, !.uses = u, !.members = m] = b
  BY DEF BindingRecord
<1>8. ASSUME NEW c \in RecordForms(b) PROVE c \in BindingRecord /\ ListsInOrder(c) = ListsInOrder(b)
  <2>1. PICK x \in Reordered(b.via), y \in Reordered(b.uses), z \in Reordered(b.members) :
          c = RecordWith(b, x, y, z)
    BY DEF RecordForms
  <2>2. x \in Seq(Int) /\ SortOn(x, Unary) = v
    BY <1>1, <1>2, NamesSorted
  <2>3. y \in Seq(Int) /\ SortOn(y, Unary) = u
    BY <1>1, <1>3, NamesSorted
  <2>4. z \in Seq(Int) /\ SortOn(z, Unary) = m
    BY <1>1, <1>4, NamesSorted
  <2>5. c \in BindingRecord /\ c.via = x /\ c.uses = y /\ c.members = z
    BY <2>1, <2>2, <2>3, <2>4 DEF BindingRecord, RecordWith
  <2>6. ListsInOrder(c) = [c EXCEPT !.via = v, !.uses = u, !.members = m]
    BY <2>2, <2>3, <2>4, <2>5 DEF ListsInOrder
  <2>7. [c EXCEPT !.via = v, !.uses = u, !.members = m] = [b EXCEPT !.via = v, !.uses = u, !.members = m]
    BY <2>1 DEF BindingRecord, RecordWith
  <2> QED BY <1>5, <2>5, <2>6, <2>7
<1> QED BY <1>2, <1>3, <1>4, <1>5, <1>6, <1>7, <1>8

LEMMA RecordsKeyed ==
  /\ Keying(GeneratedEntry, PathKey, 1)
  /\ Keying(BindingRecord, TupleKey, 4)
<1>1. \A g \in GeneratedEntry : ComparePath(g) \in [1 .. 1 -> Int]
  BY DEF GeneratedEntry, ComparePath
<1>2. \A b \in BindingRecord : CompareTuple(b) \in [1 .. 4 -> Int]
  BY DEF BindingRecord, CompareTuple
<1> QED BY <1>1, <1>2 DEF Keying, PathKey, TupleKey

LEMMA Typed ==
  ASSUME NEW d \in FactsRecord
  PROVE  /\ d.generated \in Seq(GeneratedEntry) /\ d.bindings \in Seq(BindingRecord)
         /\ EntriesOf(d) \in Seq(GeneratedEntry) /\ Len(EntriesOf(d)) = Len(d.generated)
         /\ RecordsOf(d) \in Seq(BindingRecord) /\ Len(RecordsOf(d)) = Len(d.bindings)
<1>1. d.generated \in Seq(GeneratedEntry) /\ d.bindings \in Seq(BindingRecord)
  BY DEF FactsRecord
<1>2. \A i \in DOMAIN d.generated : NamesInOrder(d.generated[i]) \in GeneratedEntry
  BY <1>1, EntryInOrder
<1>3. \A i \in DOMAIN d.bindings : ListsInOrder(d.bindings[i]) \in BindingRecord
  <2> SUFFICES ASSUME NEW i \in DOMAIN d.bindings PROVE ListsInOrder(d.bindings[i]) \in BindingRecord
    OBVIOUS
  <2>1. d.bindings[i] \in BindingRecord
    BY <1>1
  <2> QED BY <2>1, RecordInOrder
<1>4. EntriesOf(d) \in Seq(GeneratedEntry) /\ Len(EntriesOf(d)) = Len(d.generated)
  BY <1>1, <1>2 DEF EntriesOf
<1>5. RecordsOf(d) \in Seq(BindingRecord) /\ Len(RecordsOf(d)) = Len(d.bindings)
  BY <1>1, <1>3 DEF RecordsOf
<1> QED BY <1>1, <1>4, <1>5

LEMMA OrderIsSorting ==
  ASSUME NEW d \in FactsRecord
  PROVE  /\ InOrder(d) = [d EXCEPT !.generated = ByKey(EntriesOf(d), PathKey), !.bindings = ByKey(RecordsOf(d), TupleKey)]
         /\ InOrder(d) \in FactsRecord
         /\ InOrder(d).generated = ByKey(EntriesOf(d), PathKey)
         /\ InOrder(d).bindings = ByKey(RecordsOf(d), TupleKey)
<1> DEFINE e == EntriesOf(d)
           r == RecordsOf(d)
<1>1. e \in Seq(GeneratedEntry) /\ r \in Seq(BindingRecord)
  BY Typed
<1>2. InOrder(d) = [d EXCEPT !.generated = SortOn(e, ComparePath), !.bindings = SortOn(r, CompareTuple)]
  BY DEF InOrder, EntriesOf, RecordsOf
<1> HIDE DEF e, r
<1>3. [i \in DOMAIN e |-> ComparePath(e[i])] = [i \in DOMAIN e |-> PathKey[e[i]]]
  <2>1. \A i \in DOMAIN e : e[i] \in GeneratedEntry
    BY <1>1
  <2> QED BY <2>1 DEF PathKey
<1>4. [i \in DOMAIN r |-> CompareTuple(r[i])] = [i \in DOMAIN r |-> TupleKey[r[i]]]
  <2>1. \A i \in DOMAIN r : r[i] \in BindingRecord
    BY <1>1
  <2> QED BY <2>1 DEF TupleKey
<1>5. SortOn(e, ComparePath) = ByKey(e, PathKey)
  BY <1>3 DEF SortOn, ByKey
<1>6. SortOn(r, CompareTuple) = ByKey(r, TupleKey)
  BY <1>4 DEF SortOn, ByKey
<1>7. ByKey(e, PathKey) \in Seq(GeneratedEntry)
  <2>1. Rearranged(e, ByKey(e, PathKey))
    BY <1>1, RecordsKeyed, Sorting
  <2> QED BY <1>1, <2>1, RearrangedBack
<1>8. ByKey(r, TupleKey) \in Seq(BindingRecord)
  <2>1. Rearranged(r, ByKey(r, TupleKey))
    BY <1>1, RecordsKeyed, Sorting
  <2> QED BY <1>1, <2>1, RearrangedBack
<1>9. InOrder(d) = [d EXCEPT !.generated = ByKey(e, PathKey), !.bindings = ByKey(r, TupleKey)]
  BY <1>2, <1>5, <1>6
<1>10. /\ [d EXCEPT !.generated = ByKey(e, PathKey), !.bindings = ByKey(r, TupleKey)] \in FactsRecord
       /\ [d EXCEPT !.generated = ByKey(e, PathKey), !.bindings = ByKey(r, TupleKey)].generated = ByKey(e, PathKey)
       /\ [d EXCEPT !.generated = ByKey(e, PathKey), !.bindings = ByKey(r, TupleKey)].bindings = ByKey(r, TupleKey)
  <2>1. PICK x \in Seq(GeneratedEntry) : x = ByKey(e, PathKey)
    BY <1>7
  <2>2. PICK y \in Seq(BindingRecord) : y = ByKey(r, TupleKey)
    BY <1>8
  <2>3. /\ [d EXCEPT !.generated = x, !.bindings = y] \in FactsRecord
        /\ [d EXCEPT !.generated = x, !.bindings = y].generated = x
        /\ [d EXCEPT !.generated = x, !.bindings = y].bindings = y
    BY DEF FactsRecord
  <2> QED BY <2>1, <2>2, <2>3
<1> QED BY <1>9, <1>10 DEF e, r

(* An admitted document names each path and each tuple once, and is in     *)
(* order as it stands.                                                     *)
LEMMA AdmittedClimbs ==
  ASSUME NEW d \in FactsRecord, Rules(d) = None
  PROVE  /\ Climbs(d.generated, PathKey) /\ Climbs(d.bindings, TupleKey)
         /\ EntriesOf(d) = d.generated /\ RecordsOf(d) = d.bindings
         /\ InOrder(d) = d
<1> DEFINE m == Len(d.generated)
           n == Len(d.bindings)
<1>1. /\ d.generated \in Seq(GeneratedEntry) /\ d.bindings \in Seq(BindingRecord)
      /\ DOMAIN d.generated = 1 .. m /\ DOMAIN d.bindings = 1 .. n /\ m \in Nat /\ n \in Nat
  BY Typed
<1>2. /\ \A i \in 1 .. m : GeneratedRefusal(d, i) = None /\ d.generated[i] \in GeneratedEntry
      /\ \A i \in 1 .. n : BindingRefusal(d, i) = None /\ d.bindings[i] \in BindingRecord
  BY <1>1, RulesDecide
<1> HIDE DEF m, n
<1>3. Climbs(d.generated, PathKey)
  <2> SUFFICES ASSUME NEW i \in 2 .. m PROVE Precedes(PathKey[d.generated[i - 1]], PathKey[d.generated[i]])
    BY DEF Climbs, m
  <2>1. i \in 1 .. m /\ i - 1 \in 1 .. m /\ i # 1
    BY <1>1
  <2>2. d.generated[i - 1].path < d.generated[i].path
    BY <1>2, <2>1, GeneratedDecides
  <2>3. \A g, h \in GeneratedEntry : g.path < h.path => Precedes(PathKey[g], PathKey[h])
    <3> TAKE g, h \in GeneratedEntry
    <3> HAVE g.path < h.path
    <3>1. PathKey[g] = <<g.path>> /\ PathKey[h] = <<h.path>>
      BY DEF PathKey, ComparePath
    <3>2. Precedes(<<g.path>>, <<h.path>>)
      <4>1. 1 \in DOMAIN <<g.path>> /\ <<g.path>>[1] < <<h.path>>[1] /\ 1 .. 1 - 1 = {}
        OBVIOUS
      <4> QED BY <4>1 DEF Precedes
    <3> QED BY <3>1, <3>2
  <2> QED BY <1>2, <2>1, <2>2, <2>3
<1>4. Climbs(d.bindings, TupleKey)
  <2> SUFFICES ASSUME NEW i \in 2 .. n PROVE Precedes(TupleKey[d.bindings[i - 1]], TupleKey[d.bindings[i]])
    BY DEF Climbs, n
  <2>1. i \in 1 .. n /\ i - 1 \in 1 .. n /\ i # 1
    BY <1>1
  <2>2. Precedes(CompareTuple(d.bindings[i - 1]), CompareTuple(d.bindings[i]))
    BY <1>2, <2>1, BindingDecides
  <2> QED BY <1>2, <2>1, <2>2 DEF TupleKey
<1>5. EntriesOf(d) = d.generated
  <2>1. \A i \in 1 .. m : NamesInOrder(d.generated[i]) = d.generated[i]
    BY <1>2, GeneratedDecides, EntryInOrder
  <2> QED BY <1>1, <2>1 DEF EntriesOf
<1>6. RecordsOf(d) = d.bindings
  <2>1. \A i \in 1 .. n : ListsInOrder(d.bindings[i]) = d.bindings[i]
    <3> SUFFICES ASSUME NEW i \in 1 .. n PROVE ListsInOrder(d.bindings[i]) = d.bindings[i]
      OBVIOUS
    <3>1. AscendingNames(d.bindings[i].via) /\ AscendingNames(d.bindings[i].uses) /\ AscendingNames(d.bindings[i].members)
      BY <1>2, BindingDecides
    <3> QED BY <1>2, <3>1, RecordInOrder
  <2> QED BY <1>1, <2>1 DEF RecordsOf
<1>7. ByKey(d.generated, PathKey) = d.generated /\ ByKey(d.bindings, TupleKey) = d.bindings
  BY <1>1, <1>3, <1>4, RecordsKeyed, ClimbingIsSorted
<1>8. InOrder(d) = [d EXCEPT !.generated = d.generated, !.bindings = d.bindings]
  BY <1>5, <1>6, <1>7, OrderIsSorting
<1>9. [d EXCEPT !.generated = d.generated, !.bindings = d.bindings] = d
  BY DEF FactsRecord
<1> QED BY <1>3, <1>4, <1>5, <1>6, <1>8, <1>9

-----------------------------------------------------------------------------
(* One canonical form: two documents that list the same entries and        *)
(* records are put in one order, where their keys tell them apart.         *)
LEMMA EntriesArrive ==
  ASSUME NEW d \in FactsRecord, NEW arrived \in EntryArrivals(d)
  PROVE  /\ arrived \in Seq(GeneratedEntry)
         /\ Rearranged(EntriesOf(d), [i \in DOMAIN arrived |-> NamesInOrder(arrived[i])])
<1>1. d.generated \in Seq(GeneratedEntry)
  BY Typed
<1>2. PICK G \in Reordered(d.generated) : arrived \in OneOfEach([i \in DOMAIN G |-> EntryForms(G[i])])
  BY DEF EntryArrivals
<1>3. Rearranged(d.generated, G)
  BY <1>1, <1>2, ReorderedIsRearranged
<1>4. G \in Seq(GeneratedEntry) /\ DOMAIN G = DOMAIN d.generated
  <2>1. DOMAIN G = DOMAIN d.generated
    BY <1>3 DEF Rearranged
  <2> QED BY <1>1, <1>3, <2>1, RearrangedBack
<1>5. arrived = [i \in DOMAIN G |-> arrived[i]] /\ \A i \in DOMAIN G : arrived[i] \in EntryForms(G[i])
  BY <1>2 DEF OneOfEach
<1>6. \A i \in DOMAIN G : arrived[i] \in GeneratedEntry /\ NamesInOrder(arrived[i]) = NamesInOrder(G[i])
  <2> SUFFICES ASSUME NEW i \in DOMAIN G PROVE arrived[i] \in GeneratedEntry /\ NamesInOrder(arrived[i]) = NamesInOrder(G[i])
    OBVIOUS
  <2>1. G[i] \in GeneratedEntry /\ arrived[i] \in EntryForms(G[i])
    BY <1>4, <1>5
  <2> QED BY <2>1, EntryInOrder
<1>7. DOMAIN arrived = DOMAIN G
  BY <1>5
<1>8. arrived \in Seq(GeneratedEntry)
  <2>1. DOMAIN G = 1 .. Len(G) /\ Len(G) \in Nat
    BY <1>4
  <2>2. arrived \in [1 .. Len(G) -> GeneratedEntry]
    BY <1>5, <1>6, <2>1
  <2> QED BY <2>1, <2>2
<1>9. PICK p \in Bijection(DOMAIN d.generated, DOMAIN d.generated) : G = [i \in DOMAIN d.generated |-> d.generated[p[i]]]
  BY <1>3 DEF Rearranged
<1>10. \A i \in DOMAIN d.generated : p[i] \in DOMAIN d.generated
  BY <1>9 DEF Bijection, Injection
<1>11. DOMAIN EntriesOf(d) = DOMAIN d.generated /\ \A i \in DOMAIN d.generated : EntriesOf(d)[i] = NamesInOrder(d.generated[i])
  BY DEF EntriesOf
<1>12. PICK u : u = [i \in DOMAIN arrived |-> NamesInOrder(arrived[i])]
  OBVIOUS
<1>13. u = [i \in DOMAIN d.generated |-> EntriesOf(d)[p[i]]]
  <2>1. \A i \in DOMAIN d.generated : NamesInOrder(arrived[i]) = EntriesOf(d)[p[i]]
    BY <1>4, <1>6, <1>9, <1>10, <1>11
  <2> QED BY <1>4, <1>7, <1>12, <2>1
<1>14. DOMAIN u = DOMAIN d.generated
  BY <1>13
<1>15. Rearranged(EntriesOf(d), u)
  BY <1>9, <1>11, <1>13, <1>14 DEF Rearranged
<1> QED BY <1>8, <1>12, <1>15

LEMMA RecordsArrive ==
  ASSUME NEW d \in FactsRecord, NEW arrived \in RecordArrivals(d)
  PROVE  /\ arrived \in Seq(BindingRecord)
         /\ Rearranged(RecordsOf(d), [i \in DOMAIN arrived |-> ListsInOrder(arrived[i])])
<1>1. d.bindings \in Seq(BindingRecord)
  BY Typed
<1>2. PICK B \in Reordered(d.bindings) : arrived \in OneOfEach([i \in DOMAIN B |-> RecordForms(B[i])])
  BY DEF RecordArrivals
<1>3. Rearranged(d.bindings, B)
  BY <1>1, <1>2, ReorderedIsRearranged
<1>4. B \in Seq(BindingRecord) /\ DOMAIN B = DOMAIN d.bindings
  <2>1. DOMAIN B = DOMAIN d.bindings
    BY <1>3 DEF Rearranged
  <2> QED BY <1>1, <1>3, <2>1, RearrangedBack
<1>5. arrived = [i \in DOMAIN B |-> arrived[i]] /\ \A i \in DOMAIN B : arrived[i] \in RecordForms(B[i])
  BY <1>2 DEF OneOfEach
<1>6. \A i \in DOMAIN B : arrived[i] \in BindingRecord /\ ListsInOrder(arrived[i]) = ListsInOrder(B[i])
  <2> SUFFICES ASSUME NEW i \in DOMAIN B PROVE arrived[i] \in BindingRecord /\ ListsInOrder(arrived[i]) = ListsInOrder(B[i])
    OBVIOUS
  <2>1. B[i] \in BindingRecord /\ arrived[i] \in RecordForms(B[i])
    BY <1>4, <1>5
  <2> QED BY <2>1, RecordInOrder
<1>7. DOMAIN arrived = DOMAIN B
  BY <1>5
<1>8. arrived \in Seq(BindingRecord)
  <2>1. DOMAIN B = 1 .. Len(B) /\ Len(B) \in Nat
    BY <1>4
  <2>2. arrived \in [1 .. Len(B) -> BindingRecord]
    BY <1>5, <1>6, <2>1
  <2> QED BY <2>1, <2>2
<1>9. PICK p \in Bijection(DOMAIN d.bindings, DOMAIN d.bindings) : B = [i \in DOMAIN d.bindings |-> d.bindings[p[i]]]
  BY <1>3 DEF Rearranged
<1>10. \A i \in DOMAIN d.bindings : p[i] \in DOMAIN d.bindings
  BY <1>9 DEF Bijection, Injection
<1>11. DOMAIN RecordsOf(d) = DOMAIN d.bindings /\ \A i \in DOMAIN d.bindings : RecordsOf(d)[i] = ListsInOrder(d.bindings[i])
  BY DEF RecordsOf
<1>12. PICK u : u = [i \in DOMAIN arrived |-> ListsInOrder(arrived[i])]
  OBVIOUS
<1>13. u = [i \in DOMAIN d.bindings |-> RecordsOf(d)[p[i]]]
  <2>1. \A i \in DOMAIN d.bindings : ListsInOrder(arrived[i]) = RecordsOf(d)[p[i]]
    BY <1>4, <1>6, <1>9, <1>10, <1>11
  <2> QED BY <1>4, <1>7, <1>12, <2>1
<1>14. DOMAIN u = DOMAIN d.bindings
  BY <1>13
<1>15. Rearranged(RecordsOf(d), u)
  BY <1>9, <1>11, <1>13, <1>14 DEF Rearranged
<1> QED BY <1>8, <1>12, <1>15

LEMMA RewrittenIs ==
  ASSUME NEW d \in FactsRecord, NEW other \in Rewritten(d)
  PROVE  /\ other \in FactsRecord
         /\ Rearranged(EntriesOf(d), EntriesOf(other)) /\ Rearranged(RecordsOf(d), RecordsOf(other))
         /\ \A x, y : [other EXCEPT !.generated = x, !.bindings = y] = [d EXCEPT !.generated = x, !.bindings = y]
<1>1. PICK G \in EntryArrivals(d), B \in RecordArrivals(d) : other = RewrittenAs(d, G, B)
  BY DEF Rewritten
<1>2. G \in Seq(GeneratedEntry) /\ B \in Seq(BindingRecord)
  BY EntriesArrive, RecordsArrive
<1>3. other \in FactsRecord /\ other.generated = G /\ other.bindings = B
  BY <1>1, <1>2 DEF FactsRecord, RewrittenAs
<1>4. Rearranged(EntriesOf(d), EntriesOf(other))
  <2>1. EntriesOf(other) = [i \in DOMAIN G |-> NamesInOrder(G[i])]
    BY <1>3 DEF EntriesOf
  <2> QED BY <2>1, EntriesArrive
<1>5. Rearranged(RecordsOf(d), RecordsOf(other))
  <2>1. RecordsOf(other) = [i \in DOMAIN B |-> ListsInOrder(B[i])]
    BY <1>3 DEF RecordsOf
  <2> QED BY <2>1, RecordsArrive
<1>6. ASSUME NEW x, NEW y
      PROVE  [other EXCEPT !.generated = x, !.bindings = y] = [d EXCEPT !.generated = x, !.bindings = y]
  BY <1>1 DEF FactsRecord, RewrittenAs
<1> QED BY <1>3, <1>4, <1>5, <1>6

LEMMA RewrittenSorts ==
  ASSUME NEW d \in FactsRecord, NEW other \in Rewritten(d),
         Told(EntriesOf(d), PathKey), Told(RecordsOf(d), TupleKey)
  PROVE  InOrder(other) = InOrder(d)
<1>1. /\ other \in FactsRecord
      /\ Rearranged(EntriesOf(d), EntriesOf(other)) /\ Rearranged(RecordsOf(d), RecordsOf(other))
      /\ \A x, y : [other EXCEPT !.generated = x, !.bindings = y] = [d EXCEPT !.generated = x, !.bindings = y]
  BY RewrittenIs
<1>2. EntriesOf(d) \in Seq(GeneratedEntry) /\ RecordsOf(d) \in Seq(BindingRecord)
  BY Typed
<1>3. ByKey(EntriesOf(other), PathKey) = ByKey(EntriesOf(d), PathKey)
  <2>1. \A i, j \in DOMAIN EntriesOf(d) : PathKey[EntriesOf(d)[i]] = PathKey[EntriesOf(d)[j]] => EntriesOf(d)[i] = EntriesOf(d)[j]
    BY DEF Told
  <2>2. Keying(GeneratedEntry, PathKey, 1) /\ EntriesOf(d) \in Seq(GeneratedEntry) /\ Rearranged(EntriesOf(d), EntriesOf(other))
    BY <1>1, <1>2, RecordsKeyed
  <2> QED BY <2>1, <2>2, SortingAnyArrival
<1>4. ByKey(RecordsOf(other), TupleKey) = ByKey(RecordsOf(d), TupleKey)
  <2>1. \A i, j \in DOMAIN RecordsOf(d) : TupleKey[RecordsOf(d)[i]] = TupleKey[RecordsOf(d)[j]] => RecordsOf(d)[i] = RecordsOf(d)[j]
    BY DEF Told
  <2>2. Keying(BindingRecord, TupleKey, 4) /\ RecordsOf(d) \in Seq(BindingRecord) /\ Rearranged(RecordsOf(d), RecordsOf(other))
    BY <1>1, <1>2, RecordsKeyed
  <2> QED BY <2>1, <2>2, SortingAnyArrival
<1>5. InOrder(other) = [other EXCEPT !.generated = ByKey(EntriesOf(d), PathKey), !.bindings = ByKey(RecordsOf(d), TupleKey)]
  BY <1>1, <1>3, <1>4, OrderIsSorting
<1>6. InOrder(d) = [d EXCEPT !.generated = ByKey(EntriesOf(d), PathKey), !.bindings = ByKey(RecordsOf(d), TupleKey)]
  BY OrderIsSorting
<1> QED BY <1>1, <1>5, <1>6

(* A document is listed once exactly where its keys tell the places of its  *)
(* entries and records apart, in whatever order these arrive.              *)
Single(s, key) == \A i, j \in DOMAIN s : key[s[i]] = key[s[j]] => i = j

LEMMA SingleAnyArrival ==
  ASSUME NEW S, NEW s \in Seq(S), NEW t, Rearranged(s, t), NEW key, Single(t, key)
  PROVE  Single(s, key)
<1>1. PICK p \in Bijection(DOMAIN s, DOMAIN s) : t = [i \in DOMAIN s |-> s[p[i]]]
  BY DEF Rearranged
<1>2. \A i \in DOMAIN s : \E a \in DOMAIN s : p[a] = i
  BY <1>1 DEF Bijection, Surjection
<1>3. DOMAIN t = DOMAIN s /\ \A a \in DOMAIN s : t[a] = s[p[a]]
  BY <1>1
<1> SUFFICES ASSUME NEW i \in DOMAIN s, NEW j \in DOMAIN s, key[s[i]] = key[s[j]] PROVE i = j
  BY DEF Single
<1>4. PICK a \in DOMAIN s, b \in DOMAIN s : p[a] = i /\ p[b] = j
  BY <1>2
<1>5. a = b
  BY <1>3, <1>4 DEF Single
<1> QED BY <1>4, <1>5

LEMMA ListedOnceIs ==
  ASSUME NEW d \in FactsRecord
  PROVE  /\ ListedOnce(d) <=> Single(EntriesOf(d), PathKey) /\ Single(RecordsOf(d), TupleKey)
         /\ ListedOnce(d) => Told(EntriesOf(d), PathKey) /\ Told(RecordsOf(d), TupleKey)
<1>1. /\ d.generated \in Seq(GeneratedEntry) /\ d.bindings \in Seq(BindingRecord)
      /\ DOMAIN EntriesOf(d) = DOMAIN d.generated /\ DOMAIN RecordsOf(d) = DOMAIN d.bindings
  BY Typed DEF EntriesOf, RecordsOf
<1>2. \A i \in DOMAIN d.generated : PathKey[EntriesOf(d)[i]] = <<d.generated[i].path>>
  <2> SUFFICES ASSUME NEW i \in DOMAIN d.generated PROVE PathKey[EntriesOf(d)[i]] = <<d.generated[i].path>>
    OBVIOUS
  <2>1. d.generated[i] \in GeneratedEntry /\ EntriesOf(d)[i] = NamesInOrder(d.generated[i])
    BY <1>1 DEF EntriesOf
  <2>2. NamesInOrder(d.generated[i]) \in GeneratedEntry /\ NamesInOrder(d.generated[i]).path = d.generated[i].path
    BY <2>1, EntryInOrder
  <2> QED BY <2>1, <2>2 DEF PathKey, ComparePath
<1>3. \A i \in DOMAIN d.bindings : TupleKey[RecordsOf(d)[i]] = CompareTuple(d.bindings[i])
  <2> SUFFICES ASSUME NEW i \in DOMAIN d.bindings PROVE TupleKey[RecordsOf(d)[i]] = CompareTuple(d.bindings[i])
    OBVIOUS
  <2>1. d.bindings[i] \in BindingRecord /\ RecordsOf(d)[i] = ListsInOrder(d.bindings[i])
    BY <1>1 DEF RecordsOf
  <2>2. ListsInOrder(d.bindings[i]) \in BindingRecord /\ CompareTuple(ListsInOrder(d.bindings[i])) = CompareTuple(d.bindings[i])
    BY <2>1, RecordInOrder
  <2> QED BY <2>1, <2>2 DEF TupleKey
<1>4. ListedOnce(d) <=> Single(EntriesOf(d), PathKey) /\ Single(RecordsOf(d), TupleKey)
  <2>1. \A i, j \in DOMAIN d.generated :
          PathKey[EntriesOf(d)[i]] = PathKey[EntriesOf(d)[j]] <=> d.generated[i].path = d.generated[j].path
    <3> SUFFICES ASSUME NEW i \in DOMAIN d.generated, NEW j \in DOMAIN d.generated
                 PROVE  PathKey[EntriesOf(d)[i]] = PathKey[EntriesOf(d)[j]] <=> d.generated[i].path = d.generated[j].path
      OBVIOUS
    <3>1. PathKey[EntriesOf(d)[i]] = <<d.generated[i].path>> /\ PathKey[EntriesOf(d)[j]] = <<d.generated[j].path>>
      BY <1>2
    <3> QED BY <3>1
  <2>2. (\A i, j \in DOMAIN d.generated : d.generated[i].path = d.generated[j].path => i = j)
          <=> Single(EntriesOf(d), PathKey)
    BY <1>1, <2>1 DEF Single
  <2>3. (\A i, j \in DOMAIN d.bindings : CompareTuple(d.bindings[i]) = CompareTuple(d.bindings[j]) => i = j)
          <=> Single(RecordsOf(d), TupleKey)
    BY <1>1, <1>3 DEF Single
  <2> QED BY <2>2, <2>3 DEF ListedOnce
<1> QED BY <1>4 DEF Single, Told

(* What Build admits is listed once.                                       *)
LEMMA BuiltIsListedOnce ==
  ASSUME NEW d \in FactsRecord, Rules(InOrder(d)) = None
  PROVE  ListedOnce(d)
<1>1. /\ InOrder(d) \in FactsRecord
      /\ InOrder(d).generated = ByKey(EntriesOf(d), PathKey)
      /\ InOrder(d).bindings = ByKey(RecordsOf(d), TupleKey)
  BY OrderIsSorting
<1>2. EntriesOf(d) \in Seq(GeneratedEntry) /\ RecordsOf(d) \in Seq(BindingRecord)
  BY Typed
<1>3. Rearranged(EntriesOf(d), ByKey(EntriesOf(d), PathKey)) /\ Rearranged(RecordsOf(d), ByKey(RecordsOf(d), TupleKey))
  BY <1>2, RecordsKeyed, Sorting
<1>4. ByKey(EntriesOf(d), PathKey) \in Seq(GeneratedEntry) /\ ByKey(RecordsOf(d), TupleKey) \in Seq(BindingRecord)
  BY <1>2, <1>3, RearrangedBack
<1>5. Climbs(ByKey(EntriesOf(d), PathKey), PathKey) /\ Climbs(ByKey(RecordsOf(d), TupleKey), TupleKey)
  BY <1>1, AdmittedClimbs
<1>6. Single(ByKey(EntriesOf(d), PathKey), PathKey)
  BY <1>4, <1>5, RecordsKeyed, ClimbingIsSorted DEF Single
<1>7. Single(ByKey(RecordsOf(d), TupleKey), TupleKey)
  BY <1>4, <1>5, RecordsKeyed, ClimbingIsSorted DEF Single
<1>8. Single(EntriesOf(d), PathKey) /\ Single(RecordsOf(d), TupleKey)
  BY <1>2, <1>3, <1>6, <1>7, SingleAnyArrival
<1> QED BY <1>8, ListedOnceIs

LEMMA RewrittenAlike ==
  ASSUME NEW d \in FactsRecord, NEW other \in Rewritten(d)
  PROVE  /\ ListedOnce(d) => InOrder(other) = InOrder(d)
         /\ ~ ListedOnce(d) => Rules(InOrder(other)) # None
         /\ Rules(InOrder(other)) = None <=> Rules(InOrder(d)) = None
         /\ Rules(other) = None <=> (other = InOrder(other) /\ Rules(InOrder(other)) = None)
<1>1. /\ other \in FactsRecord
      /\ Rearranged(EntriesOf(d), EntriesOf(other)) /\ Rearranged(RecordsOf(d), RecordsOf(other))
  BY RewrittenIs
<1>2. Rules(other) = None => other = InOrder(other)
  BY <1>1, AdmittedClimbs
<1>3. ListedOnce(d) => InOrder(other) = InOrder(d)
  BY ListedOnceIs, RewrittenSorts
<1>4. ASSUME Rules(InOrder(other)) = None PROVE ListedOnce(d)
  <2>1. Single(EntriesOf(other), PathKey) /\ Single(RecordsOf(other), TupleKey)
    BY <1>1, <1>4, BuiltIsListedOnce, ListedOnceIs
  <2>2. EntriesOf(d) \in Seq(GeneratedEntry) /\ RecordsOf(d) \in Seq(BindingRecord)
    BY Typed
  <2>3. Single(EntriesOf(d), PathKey) /\ Single(RecordsOf(d), TupleKey)
    BY <1>1, <2>1, <2>2, SingleAnyArrival
  <2> QED BY <2>3, ListedOnceIs
<1>5. Rules(InOrder(d)) = None => ListedOnce(d)
  BY BuiltIsListedOnce
<1> QED BY <1>2, <1>3, <1>4, <1>5

-----------------------------------------------------------------------------
(* A document that was admitted breaks no rule.                            *)
FactsInv == /\ facts \in FactsRecord
            /\ admitted \in {"handed", "built", "read"} \union RuleNames
            /\ admitted \in {"built", "read"} => Rules(facts) = None

LEMMA FactsAreCanonical == FactsInv => FactsCanonical
<1> SUFFICES ASSUME FactsInv PROVE FactsCanonical
  OBVIOUS
<1>1. PICK d \in FactsRecord : d = facts
  BY DEF FactsInv
<1>2. admitted \in {"built", "read"} => Rules(d) = None
  BY <1>1 DEF FactsInv
<1>3. ASSUME NEW other \in Rewritten(d)
      PROVE  /\ admitted = "built" => InOrder(other) = d
             /\ ListedOnce(d) => InOrder(other) = InOrder(d)
             /\ ~ ListedOnce(d) => Rules(InOrder(other)) # None
             /\ Rules(InOrder(other)) = None <=> Rules(InOrder(d)) = None
             /\ Rules(other) = None <=> (other = InOrder(other) /\ Rules(InOrder(other)) = None)
  <2>1. ASSUME admitted = "built" PROVE InOrder(other) = d
    <3>1. Rules(d) = None /\ InOrder(d) = d
      BY <1>2, <2>1, AdmittedClimbs
    <3>2. ListedOnce(d)
      BY <3>1, BuiltIsListedOnce
    <3> QED BY <3>1, <3>2, RewrittenAlike
  <2> QED BY <2>1, RewrittenAlike
<1>4. ASSUME admitted \in {"built", "read"}
      PROVE  /\ ListedOnce(d)
             /\ \A b \in ToSet(d.bindings) : \A v \in ToSet(b.via) :
                  \E i \in DOMAIN d.bindings :
                    d.bindings[i].role = Implementer /\ d.bindings[i].symbol = v /\ v # b.symbol
  <2>1. Rules(d) = None
    BY <1>2, <1>4
  <2>2. ListedOnce(d)
    BY <2>1, AdmittedClimbs, BuiltIsListedOnce
  <2>3. ASSUME NEW b \in ToSet(d.bindings), NEW v \in ToSet(b.via)
        PROVE  \E i \in DOMAIN d.bindings :
                 d.bindings[i].role = Implementer /\ d.bindings[i].symbol = v /\ v # b.symbol
    <3>1. PICK k \in DOMAIN d.bindings : b = d.bindings[k]
      BY DEF ToSet
    <3>2. BindingRefusal(d, k) = None
      BY <2>1, RulesDecide
    <3>3. v # b.symbol /\ v \in Implementers(d)
      BY <3>1, <3>2, BindingDecides
    <3>4. PICK c \in ToSet(d.bindings) : c.role = Implementer /\ c.symbol = v
      BY <3>3 DEF Implementers
    <3>5. PICK i \in DOMAIN d.bindings : c = d.bindings[i]
      BY DEF ToSet
    <3> QED BY <3>3, <3>4, <3>5
  <2> QED BY <2>2, <2>3
<1> QED BY <1>1, <1>3, <1>4 DEF FactsCanonical

(* Whatever order the entries, records and names of a facts document came  *)
(* in, Build gives one document or refuses all the orders, for one reason  *)
(* where no path and no tuple is listed twice; an admitted document stands *)
(* in its one canonical form, and lists each of them once: facts.go:41, 97.*)
THEOREM FactsStayCanonical == FactsSpec => []FactsCanonical
<1>1. FactsInit => FactsInv
  BY FactsAreTyped DEF FactsInit, FactsInv
<1>2. FactsInv /\ [FactsNext]_factsVars => FactsInv'
  <2> SUFFICES ASSUME FactsInv, [FactsNext]_factsVars PROVE FactsInv'
    OBVIOUS
  <2>1. PICK d \in FactsRecord : d = facts
    BY DEF FactsInv
  <2>2. "built" \notin RuleNames /\ "read" \notin RuleNames
    BY DEF RuleNames
  <2>3. CASE BuildFacts
    <3>1. InOrder(d) \in FactsRecord /\ Rules(InOrder(d)) \in Decided
      BY OrderIsSorting, RulesDecide
    <3>2. facts' = InOrder(d)
      BY <2>1, <2>3 DEF BuildFacts
    <3>3. admitted' = IF Rules(InOrder(d)) = None THEN "built" ELSE Rules(InOrder(d))
      BY <2>1, <2>3 DEF BuildFacts
    <3> QED BY <2>2, <3>1, <3>2, <3>3 DEF FactsInv, Decided
  <2>4. CASE ValidateFacts
    <3>1. Rules(d) \in Decided
      BY RulesDecide
    <3>2. facts' = d
      BY <2>1, <2>4 DEF ValidateFacts
    <3>3. admitted' = IF Rules(d) = None THEN "read" ELSE Rules(d)
      BY <2>1, <2>4 DEF ValidateFacts
    <3> QED BY <2>2, <3>1, <3>2, <3>3 DEF FactsInv, Decided
  <2>5. CASE UNCHANGED factsVars
    BY <2>5 DEF FactsInv, factsVars
  <2> QED BY <2>3, <2>4, <2>5 DEF FactsNext
<1> QED BY <1>1, <1>2, FactsAreCanonical, PTL DEF FactsSpec
=============================================================================
