-------------------------- MODULE SelectionProofs ---------------------------
(***************************************************************************)
(* What Picked and Only return.  A selection is known by the increasing    *)
(* enumeration of the positions it takes: there is one (Enumerable) and    *)
(* any one will do (PickedAlong).                                          *)
(***************************************************************************)
EXTENDS Selection, FiniteSetTheorems, SequenceTheorems, TLAPS

\* e counts the numbers of S from the smallest to the greatest.
Enumerates(e, m, S) ==
    /\ m \in Nat /\ e \in [1 .. m -> S]
    /\ \A k, n \in 1 .. m : k < n => e[k] < e[n]
    /\ \A i \in S : \E n \in 1 .. m : e[n] = i

UpTo(S, i) == {j \in S : j <= i}

LEMMA FinitePositions ==
    ASSUME NEW len \in Nat, NEW S \in SUBSET (1 .. len)
    PROVE  /\ S \subseteq Nat /\ IsFiniteSet(S) /\ Cardinality(S) \in Nat
           /\ \A i \in S : /\ IsFiniteSet(UpTo(S, i))
                           /\ Cardinality(UpTo(S, i)) \in 1 .. Cardinality(S)
<1>1. IsFiniteSet(1 .. len)
  BY FS_Interval
<1>2. IsFiniteSet(S) /\ Cardinality(S) \in Nat
  BY <1>1, FS_Subset, FS_CardinalityType
<1>3. ASSUME NEW i \in S
      PROVE  /\ IsFiniteSet(UpTo(S, i))
             /\ Cardinality(UpTo(S, i)) \in 1 .. Cardinality(S)
  <2>1. UpTo(S, i) \in SUBSET S /\ i \in UpTo(S, i)
    BY DEF UpTo
  <2>2. /\ IsFiniteSet(UpTo(S, i))
        /\ Cardinality(UpTo(S, i)) <= Cardinality(S)
        /\ Cardinality(UpTo(S, i)) \in Nat
    BY <1>2, <2>1, FS_Subset, FS_CardinalityType
  <2>3. Cardinality(UpTo(S, i)) # 0
    BY <2>1, <2>2, FS_EmptySet
  <2>4. QED
    BY <1>2, <2>2, <2>3
<1>4. QED
  BY <1>2, <1>3

\* Of two numbers in S the greater has more of S below it.
LEMMA CountsGrow ==
    ASSUME NEW len \in Nat, NEW S \in SUBSET (1 .. len),
           NEW i \in S, NEW j \in S, i < j
    PROVE  Cardinality(UpTo(S, i)) < Cardinality(UpTo(S, j))
<1>1. UpTo(S, i) \in SUBSET UpTo(S, j) /\ j \in UpTo(S, j) /\ j \notin UpTo(S, i)
  <2>1. S \subseteq Nat /\ i \in Nat /\ j \in Nat
    BY FinitePositions
  <2>2. ASSUME NEW k \in S, k <= i PROVE k <= j
    BY <2>1, <2>2
  <2>3. j <= j /\ ~(j <= i)
    BY <2>1
  <2>4. QED
    BY <2>2, <2>3 DEF UpTo
<1>2. /\ IsFiniteSet(UpTo(S, j))
      /\ Cardinality(UpTo(S, i)) \in Nat /\ Cardinality(UpTo(S, j)) \in Nat
  BY FinitePositions
<1>3. QED
  BY <1>1, <1>2, FS_Subset

\* Nth counts the positions one by one.
LEMMA Enumerable ==
    ASSUME NEW len \in Nat, NEW S \in SUBSET (1 .. len)
    PROVE  LET m == Cardinality(S)
           IN  Enumerates([n \in 1 .. m |-> Nth(S, n)], m, S)
<1> DEFINE m == Cardinality(S)
           count == [i \in S |-> Cardinality(UpTo(S, i))]
           e == [n \in 1 .. m |-> Nth(S, n)]
<1>1. IsFiniteSet(S) /\ m \in Nat /\ count \in [S -> 1 .. m] /\ S \subseteq Nat
  BY FinitePositions
<1>2. ASSUME NEW i \in S, NEW j \in S, i < j PROVE count[i] < count[j]
  BY <1>2, CountsGrow
<1>3. count \in Injection(S, 1 .. m)
  <2>1. ASSUME NEW i \in S, NEW j \in S, count[i] = count[j] PROVE i = j
    <3>1. count[i] \in Nat /\ count[j] \in Nat /\ i \in Nat /\ j \in Nat
      BY <1>1
    <3>2. ~(i < j) /\ ~(j < i)
      BY <1>1, <1>2, <2>1, <3>1
    <3>3. QED
      BY <3>1, <3>2
  <2> HIDE DEF count
  <2>2. QED
    BY <1>1, <2>1 DEF Injection, IsInjective
<1>4. count \in Surjection(S, 1 .. m)
  <2>1. IsFiniteSet(1 .. m) /\ Cardinality(1 .. m) = m
    BY <1>1, FS_Interval
  <2> HIDE DEF count
  <2>2. QED
    BY <1>3, <2>1, FS_Injection
<1>5. ASSUME NEW n \in 1 .. m PROVE e[n] \in S /\ count[e[n]] = n
  <2>1. \E i \in S : Cardinality({j \in S : j <= i}) = n
    <3>1. PICK i \in S : count[i] = n
      BY <1>4 DEF Surjection
    <3>2. QED
      BY <3>1 DEF UpTo
  <2>2. Nth(S, n) \in S /\ Cardinality({j \in S : j <= Nth(S, n)}) = n
    BY <2>1 DEF Nth
  <2>3. QED
    BY <2>2 DEF UpTo
<1>6. ASSUME NEW i \in S PROVE count[i] \in 1 .. m /\ e[count[i]] = i
  <2>1. count[i] \in 1 .. m
    BY <1>1
  <2>2. e[count[i]] \in S /\ count[e[count[i]]] = count[i]
    BY <1>5, <2>1
  <2> HIDE DEF count, e
  <2>3. QED
    BY <1>3, <2>1, <2>2 DEF Injection, IsInjective
<1>7. ASSUME NEW k \in 1 .. m, NEW n \in 1 .. m, k < n PROVE e[k] < e[n]
  <2>1. /\ e[k] \in Nat /\ e[n] \in Nat /\ e[k] \in S /\ e[n] \in S
        /\ count[e[k]] = k /\ count[e[n]] = n
    BY <1>1, <1>5
  <2>2. ~(e[n] < e[k]) /\ e[n] # e[k]
    <3> HIDE DEF e, count
    <3>1. QED
      BY <1>1, <1>2, <1>7, <2>1
  <2>3. QED
    BY <2>1, <2>2
<1>8. e \in [1 .. m -> S]
  BY <1>5
<1> HIDE DEF e, m, count
<1>9. Enumerates(e, m, S)
  BY <1>1, <1>6, <1>7, <1>8 DEF Enumerates
<1>10. QED
  BY <1>9 DEF e, m

\* Whatever counts a set of positions from below is Nth.
LEMMA CountedAlong ==
    ASSUME NEW len \in Nat, NEW S \in SUBSET (1 .. len), NEW m, NEW e,
           Enumerates(e, m, S)
    PROVE  /\ Cardinality(S) = m
           /\ \A n \in 1 .. m : Nth(S, n) = e[n]
<1>1. /\ m \in Nat /\ e \in [1 .. m -> S] /\ S \subseteq Nat
      /\ \A k, n \in 1 .. m : k < n => e[k] < e[n]
      /\ \A i \in S : \E n \in 1 .. m : e[n] = i
  BY FinitePositions DEF Enumerates
<1>2. ASSUME NEW k \in 1 .. m, NEW n \in 1 .. m
      PROVE  e[k] <= e[n] <=> k <= n
  <2>1. e[k] \in Nat /\ e[n] \in Nat
    BY <1>1
  <2>2. /\ k < n => e[k] < e[n]
        /\ n < k => e[n] < e[k]
    BY <1>1
  <2>3. QED
    BY <2>1, <2>2
<1>3. ASSUME NEW n \in 1 .. m PROVE Cardinality(UpTo(S, e[n])) = n
  <2> DEFINE g == [k \in 1 .. n |-> e[k]]
  <2>1. /\ g \in [1 .. n -> UpTo(S, e[n])]
        /\ \A i \in UpTo(S, e[n]) : \E k \in 1 .. n : g[k] = i
    BY <1>1, <1>2 DEF UpTo
  <2>2. \A k, l \in 1 .. n : g[k] = g[l] => k = l
    <3>1. ASSUME NEW k \in 1 .. n, NEW l \in 1 .. n, e[k] = e[l] PROVE k = l
      <4>1. k \in 1 .. m /\ l \in 1 .. m /\ k \in Nat /\ l \in Nat
        BY <1>1
      <4>2. QED
        BY <1>1, <1>2, <3>1, <4>1
    <3>2. \A k, l \in 1 .. n : e[k] = e[l] => k = l
      BY <3>1
    <3>3. QED
      BY <3>2
  <2> HIDE DEF g
  <2>3. g \in Bijection(1 .. n, UpTo(S, e[n]))
    BY <2>1, <2>2 DEF Bijection, Injection, Surjection, IsInjective
  <2>4. QED
    BY <2>3, FS_CountingElements DEF ExistsBijection
<1>4. ASSUME NEW n \in 1 .. m PROVE Nth(S, n) = e[n]
  <2>1. ASSUME NEW i \in S PROVE Cardinality(UpTo(S, i)) = n <=> i = e[n]
    BY <1>1, <1>3
  <2>2. \A i \in S : Cardinality({j \in S : j <= i}) = n <=> i = e[n]
    BY <2>1 DEF UpTo
  <2>3. e[n] \in S
    BY <1>1
  <2>4. QED
    BY <2>2, <2>3 DEF Nth
<1>5. Cardinality(S) = m
  <2>1. ASSUME NEW k \in 1 .. m, NEW l \in 1 .. m, e[k] = e[l] PROVE k = l
    <3>1. k \in Nat /\ l \in Nat /\ e[k] \in S
      BY <1>1
    <3>2. S \subseteq Nat
      BY <1>1
    <3>3. e[k] \in Nat
      BY <3>1, <3>2
    <3>4. e[k] <= e[k]
      BY <3>3
    <3>5. e[k] <= e[l] /\ e[l] <= e[k]
      BY <2>1, <3>4
    <3>6. QED
      BY <1>2, <3>1, <3>5
  <2>2. e \in Bijection(1 .. m, S)
    BY <1>1, <2>1 DEF Bijection, Injection, Surjection, IsInjective
  <2>3. QED
    BY <1>1, <2>2, FS_CountingElements DEF ExistsBijection
<1>6. QED
  BY <1>4, <1>5

LEMMA PickedAlong ==
    ASSUME NEW V, NEW s \in Seq(V), NEW S \in SUBSET DOMAIN s, NEW m, NEW e,
           Enumerates(e, m, S)
    PROVE  /\ Picked(s, S) = [n \in 1 .. m |-> s[e[n]]]
           /\ Picked(s, S) \in Seq(V)
<1>1. Len(s) \in Nat /\ DOMAIN s = 1 .. Len(s) /\ s \in [1 .. Len(s) -> V]
  BY LenProperties
<1>2. /\ Cardinality(S) = m
      /\ \A n \in 1 .. m : Nth(S, n) = e[n]
  BY <1>1, CountedAlong
<1>3. m \in Nat /\ e \in [1 .. m -> S]
  BY DEF Enumerates
<1>4. Picked(s, S) = [n \in 1 .. m |-> s[e[n]]]
  BY <1>2 DEF Picked
<1>5. \A n \in 1 .. m : s[e[n]] \in V
  BY <1>1, <1>3
<1>6. QED
  BY <1>3, <1>4, <1>5

\* Every selection has such an enumeration.
LEMMA PickedEnumerated ==
    ASSUME NEW V, NEW s \in Seq(V), NEW S \in SUBSET DOMAIN s
    PROVE  \E m, e : /\ Enumerates(e, m, S)
                     /\ Picked(s, S) = [n \in 1 .. m |-> s[e[n]]]
                     /\ Picked(s, S) \in Seq(V)
<1>1. Len(s) \in Nat /\ DOMAIN s = 1 .. Len(s)
  BY LenProperties
<1>2. \E m, e : Enumerates(e, m, S)
  BY <1>1, Enumerable
<1>3. QED
  BY <1>2, PickedAlong

\* The positions at which s has an element of T.
Where(s, T) == {i \in DOMAIN s : s[i] \in T}

LEMMA OnlyAtWhere ==
    ASSUME NEW s, NEW T
    PROVE  Only(s, T) = Picked(s, Where(s, T)) /\ Where(s, T) \in SUBSET DOMAIN s
BY DEF Only, Where

LEMMA OnlyEnumerated ==
    ASSUME NEW V, NEW s \in Seq(V), NEW T
    PROVE  \E m, e : /\ Enumerates(e, m, Where(s, T))
                     /\ Only(s, T) = [n \in 1 .. m |-> s[e[n]]]
<1>1. \E m, e : /\ Enumerates(e, m, Where(s, T))
                /\ Picked(s, Where(s, T)) = [n \in 1 .. m |-> s[e[n]]]
                /\ Picked(s, Where(s, T)) \in Seq(V)
  BY OnlyAtWhere, PickedEnumerated
<1>2. QED
  BY <1>1, OnlyAtWhere

LEMMA OnlyAlong ==
    ASSUME NEW V, NEW s \in Seq(V), NEW T, NEW m, NEW e,
           Enumerates(e, m, Where(s, T))
    PROVE  Only(s, T) = [n \in 1 .. m |-> s[e[n]]]
<1>1. Picked(s, Where(s, T)) = [n \in 1 .. m |-> s[e[n]]]
  BY OnlyAtWhere, PickedAlong
<1>2. QED
  BY <1>1, OnlyAtWhere

LEMMA OnlyIsSeq ==
    ASSUME NEW V, NEW s \in Seq(V), NEW T
    PROVE  Only(s, T) \in Seq(V)
BY PickedEnumerated DEF Only

\* The elements of a sequence that T has, those of its two parts.
LEMMA OnlyJoined ==
    ASSUME NEW V, NEW s \in Seq(V), NEW t \in Seq(V), NEW T
    PROVE  Only(s \o t, T) = Only(s, T) \o Only(t, T)
<1> DEFINE u == s \o t
           In(q) == {i \in DOMAIN q : q[i] \in T}
<1>1. /\ Len(s) \in Nat /\ DOMAIN s = 1 .. Len(s)
      /\ Len(t) \in Nat /\ DOMAIN t = 1 .. Len(t)
      /\ u \in Seq(V) /\ DOMAIN u = 1 .. Len(s) + Len(t)
      /\ \A i \in 1 .. Len(s) + Len(t) :
            u[i] = IF i <= Len(s) THEN s[i] ELSE t[i - Len(s)]
  BY ConcatProperties, LenProperties
<1>2. PICK m, e : /\ Enumerates(e, m, In(s))
                  /\ Only(s, T) = [n \in 1 .. m |-> s[e[n]]]
                  /\ Only(s, T) \in Seq(V)
  BY PickedEnumerated DEF Only
<1>3. PICK n, f : /\ Enumerates(f, n, In(t))
                  /\ Only(t, T) = [k \in 1 .. n |-> t[f[k]]]
                  /\ Only(t, T) \in Seq(V)
  BY PickedEnumerated DEF Only
<1> DEFINE g == [k \in 1 .. m + n |-> IF k <= m THEN e[k] ELSE Len(s) + f[k - m]]
<1>4. /\ m \in Nat /\ e \in [1 .. m -> In(s)]
      /\ n \in Nat /\ f \in [1 .. n -> In(t)]
      /\ In(s) \subseteq 1 .. Len(s) /\ In(t) \subseteq 1 .. Len(t)
  BY <1>1, <1>2, <1>3 DEF Enumerates
<1>5. ASSUME NEW k \in 1 .. m
      PROVE  /\ k \in 1 .. m + n /\ g[k] = e[k] /\ g[k] \in In(u)
             /\ g[k] \in 1 .. Len(s) /\ u[g[k]] = s[e[k]]
  <2>1. /\ e[k] \in 1 .. Len(s) /\ s[e[k]] \in T
        /\ k \in 1 .. m + n /\ k <= m
    BY <1>4
  <2>2. e[k] \in 1 .. Len(s) + Len(t) /\ e[k] <= Len(s)
    BY <1>1, <2>1
  <2>3. QED
    BY <1>1, <2>1, <2>2
<1>6. ASSUME NEW k \in 1 .. n
      PROVE  /\ m + k \in 1 .. m + n /\ g[m + k] = Len(s) + f[k]
             /\ g[m + k] \in In(u) /\ f[k] \in 1 .. Len(t)
             /\ u[g[m + k]] = t[f[k]]
  <2>1. f[k] \in 1 .. Len(t) /\ t[f[k]] \in T
    BY <1>4
  <2>2. /\ m + k \in 1 .. m + n /\ ~(m + k <= m) /\ (m + k) - m = k
        /\ Len(s) + f[k] \in 1 .. Len(s) + Len(t) /\ ~(Len(s) + f[k] <= Len(s))
        /\ (Len(s) + f[k]) - Len(s) = f[k]
    BY <1>1, <1>4, <2>1
  <2>3. QED
    BY <1>1, <2>1, <2>2
<1>7. ASSUME NEW k \in 1 .. m + n
      PROVE  k \in 1 .. m \/ \E l \in 1 .. n : k = m + l
  <2>1. k \in 1 .. m \/ (k - m \in 1 .. n /\ k = m + (k - m))
    BY <1>4
  <2>2. QED
    BY <2>1
<1> HIDE DEF g, u
<1>8. Enumerates(g, m + n, In(u))
  <2>1. m + n \in Nat /\ g \in [1 .. m + n -> In(u)]
    <3>1. \A k \in 1 .. m + n : g[k] \in In(u)
      BY <1>5, <1>6, <1>7
    <3>2. QED
      BY <1>4, <3>1 DEF g
  <2>2. ASSUME NEW k \in 1 .. m + n, NEW l \in 1 .. m + n, k < l
        PROVE  g[k] < g[l]
    <3>1. CASE k \in 1 .. m /\ l \in 1 .. m
      BY <1>2, <1>5, <2>2, <3>1 DEF Enumerates
    <3>2. CASE k \in 1 .. m /\ \E j \in 1 .. n : l = m + j
      BY <1>1, <1>5, <1>6, <3>2
    <3>3. CASE /\ \E i \in 1 .. n : k = m + i
               /\ \E j \in 1 .. n : l = m + j
      <4>1. PICK i \in 1 .. n, j \in 1 .. n : k = m + i /\ l = m + j
        BY <3>3
      <4>2. f[i] < f[j]
        BY <1>3, <1>4, <2>2, <4>1 DEF Enumerates
      <4>3. QED
        BY <1>1, <1>6, <4>1, <4>2
    <3>4. CASE l \in 1 .. m /\ \E i \in 1 .. n : k = m + i
      BY <1>4, <2>2, <3>4
    <3>5. QED
      BY <1>7, <3>1, <3>2, <3>3, <3>4
  <2>3. ASSUME NEW i \in In(u) PROVE \E k \in 1 .. m + n : g[k] = i
    <3>1. CASE i <= Len(s)
      <4>1. i \in In(s)
        BY <1>1, <3>1
      <4>2. PICK k \in 1 .. m : e[k] = i
        BY <1>2, <4>1 DEF Enumerates
      <4>3. QED
        BY <1>5, <4>2
    <3>2. CASE ~(i <= Len(s))
      <4>1. i - Len(s) \in In(t) /\ i = Len(s) + (i - Len(s))
        BY <1>1, <3>2
      <4>2. PICK k \in 1 .. n : f[k] = i - Len(s)
        BY <1>3, <4>1 DEF Enumerates
      <4>3. QED
        BY <1>6, <4>1, <4>2
    <3>3. QED
      BY <3>1, <3>2
  <2>4. QED
    BY <2>1, <2>2, <2>3 DEF Enumerates
<1>9. Only(u, T) = [k \in 1 .. m + n |-> u[g[k]]] /\ Only(u, T) \in Seq(V)
  BY <1>1, <1>8, PickedAlong DEF Only
<1>10. Only(u, T) = Only(s, T) \o Only(t, T)
  <2> DEFINE a == Only(s, T)
             b == Only(t, T)
  <2>1. /\ a \in Seq(V) /\ Len(a) = m /\ b \in Seq(V) /\ Len(b) = n
    BY <1>2, <1>3, <1>4
  <2>2. /\ a \o b \in Seq(V) /\ Len(a \o b) = m + n
        /\ \A k \in 1 .. m + n :
              (a \o b)[k] = IF k <= m THEN a[k] ELSE b[k - m]
    BY <2>1, ConcatProperties
  <2>3. /\ \A k \in 1 .. m : a[k] = s[e[k]]
        /\ \A k \in 1 .. n : b[k] = t[f[k]]
    BY <1>2, <1>3
  <2> HIDE DEF a, b
  <2>4. ASSUME NEW k \in 1 .. m + n PROVE (a \o b)[k] = u[g[k]]
    <3>1. CASE k \in 1 .. m
      <4>1. k <= m
        BY <1>4, <3>1
      <4>2. QED
        BY <1>5, <2>2, <2>3, <3>1, <4>1
    <3>2. CASE \E l \in 1 .. n : k = m + l
      <4>1. PICK l \in 1 .. n : k = m + l
        BY <3>2
      <4>2. ~(k <= m) /\ k - m = l
        BY <1>4, <4>1
      <4>3. QED
        BY <1>6, <2>2, <2>3, <4>1, <4>2
    <3>3. QED
      BY <1>7, <3>1, <3>2
  <2>5. Len(Only(u, T)) = m + n
    BY <1>4, <1>9
  <2>6. QED
    BY <1>9, <2>2, <2>4, <2>5, SeqEqual DEF a, b
<1>11. QED
  BY <1>2, <1>3, <1>10 DEF u

\* All of a sequence, or none of it.
LEMMA PickedAllOrNone ==
    ASSUME NEW V, NEW s \in Seq(V)
    PROVE  Picked(s, DOMAIN s) = s /\ Picked(s, {}) = <<>>
<1>1. Len(s) \in Nat /\ DOMAIN s = 1 .. Len(s) /\ s = [n \in 1 .. Len(s) |-> s[n]]
  BY LenProperties
<1>2. Picked(s, DOMAIN s) = s
  <2> DEFINE e == [n \in 1 .. Len(s) |-> n]
  <2>1. Enumerates(e, Len(s), DOMAIN s)
    BY <1>1 DEF Enumerates
  <2>2. Picked(s, DOMAIN s) = [n \in 1 .. Len(s) |-> s[e[n]]]
    BY <2>1, PickedAlong
  <2>3. QED
    BY <1>1, <2>2
<1>3. Picked(s, {}) = <<>>
  <2>1. Picked(s, {}) = [n \in 1 .. 0 |-> s[Nth({}, n)]]
    BY FS_EmptySet DEF Picked
  <2>2. QED
    BY <2>1
<1>4. QED
  BY <1>2, <1>3

LEMMA OnlyAllOrNone ==
    ASSUME NEW V, NEW s \in Seq(V), NEW T
    PROVE  /\ (\A i \in DOMAIN s : s[i] \in T) => Only(s, T) = s
           /\ (\A i \in DOMAIN s : s[i] \notin T) => Only(s, T) = <<>>
<1>1. (\A i \in DOMAIN s : s[i] \in T) => {i \in DOMAIN s : s[i] \in T} = DOMAIN s
  OBVIOUS
<1>2. (\A i \in DOMAIN s : s[i] \notin T) => {i \in DOMAIN s : s[i] \in T} = {}
  OBVIOUS
<1>3. QED
  BY <1>1, <1>2, PickedAllOrNone DEF Only

\* Selecting twice is selecting the fewer at once.
LEMMA OnlyOfOnly ==
    ASSUME NEW V, NEW s \in Seq(V), NEW T, NEW U \in SUBSET T
    PROVE  Only(Only(s, T), U) = Only(s, U)
<1> DEFINE t == Only(s, T)
<1>1. PICK m, e : /\ Enumerates(e, m, Where(s, T))
                  /\ t = [n \in 1 .. m |-> s[e[n]]]
                  /\ t \in Seq(V)
  BY OnlyEnumerated, OnlyIsSeq
<1>2. PICK k, f : /\ Enumerates(f, k, Where(t, U))
                  /\ Only(t, U) = [n \in 1 .. k |-> t[f[n]]]
  <2>1. t \in Seq(V)
    BY <1>1
  <2> HIDE DEF t
  <2>2. QED
    BY <2>1, OnlyEnumerated
<1> HIDE DEF t
<1>3. /\ Len(s) \in Nat /\ DOMAIN s = 1 .. Len(s)
      /\ m \in Nat /\ e \in [1 .. m -> Where(s, T)] /\ DOMAIN t = 1 .. m
      /\ \A a, b \in 1 .. m : a < b => e[a] < e[b]
      /\ \A i \in Where(s, T) : \E n \in 1 .. m : e[n] = i
      /\ \A n \in 1 .. m : t[n] = s[e[n]]
  BY <1>1, LenProperties DEF Enumerates
<1>4. /\ k \in Nat /\ f \in [1 .. k -> Where(t, U)]
      /\ \A a, b \in 1 .. k : a < b => f[a] < f[b]
      /\ \A i \in Where(t, U) : \E n \in 1 .. k : f[n] = i
  BY <1>2 DEF Enumerates
<1> DEFINE g == [n \in 1 .. k |-> e[f[n]]]
<1>5. ASSUME NEW n \in 1 .. k
      PROVE  /\ f[n] \in 1 .. m /\ g[n] = e[f[n]] /\ g[n] \in Where(s, U)
             /\ t[f[n]] = s[g[n]]
  <2>1. f[n] \in 1 .. m /\ t[f[n]] \in U
    BY <1>3, <1>4 DEF Where
  <2>2. e[f[n]] \in DOMAIN s /\ t[f[n]] = s[e[f[n]]]
    BY <1>3, <2>1 DEF Where
  <2>3. QED
    BY <2>1, <2>2 DEF Where
<1>6. ASSUME NEW i \in Where(s, U) PROVE \E n \in 1 .. k : g[n] = i
  <2>1. PICK a \in 1 .. m : e[a] = i
    BY <1>3 DEF Where
  <2>2. a \in Where(t, U)
    BY <1>3, <2>1 DEF Where
  <2>3. PICK n \in 1 .. k : f[n] = a
    BY <1>4, <2>2
  <2>4. QED
    BY <2>1, <2>3
<1>7. ASSUME NEW a \in 1 .. k, NEW b \in 1 .. k, a < b PROVE g[a] < g[b]
  BY <1>3, <1>4, <1>5, <1>7
<1>8. Enumerates(g, k, Where(s, U))
  <2>1. g \in [1 .. k -> Where(s, U)]
    BY <1>5
  <2> HIDE DEF g
  <2>2. k \in Nat
    BY <1>4
  <2>3. \A i \in Where(s, U) : \E n \in 1 .. k : g[n] = i
    BY <1>6
  <2>4. QED
    BY <1>7, <2>1, <2>2, <2>3 DEF Enumerates
<1> HIDE DEF g
<1>9. Only(s, U) = [n \in 1 .. k |-> s[g[n]]]
  BY <1>8, OnlyAlong
<1>10. \A n \in 1 .. k : t[f[n]] = s[g[n]]
  BY <1>5
<1>11. QED
  BY <1>2, <1>9, <1>10 DEF t
=============================================================================
