------------------------------- MODULE Tally -------------------------------
(***************************************************************************)
(* Sums for proofs.  A sum of naturals is the number of elements of a      *)
(* tagged union: the summand k contributes the elements <<k, 1>>, <<k, 2>> *)
(* and so on.  Adding or taking away one summand is then a fact about      *)
(* finite sets, which needs no induction over the summands.                *)
(***************************************************************************)
EXTENDS Sequences, FiniteSetTheorems, TLAPS

Tagged(F) == UNION {{k} \X F[k] : k \in DOMAIN F}

Without(F, k) == [j \in DOMAIN F \ {k} |-> F[j]]

(* The cells of a sequence of naturals, and their number: the sum.         *)
Cells(w) == Tagged([i \in DOMAIN w |-> 1 .. w[i]])
Load(w)  == Cardinality(Cells(w))

(* Membership in a tagged union.                                           *)
LEMMA TaggedMembers ==
  ASSUME NEW F
  PROVE  \A e : e \in Tagged(F) <=> \E k \in DOMAIN F : e \in {k} \X F[k]
  BY DEF Tagged

(* A tagged copy of a set is as large as the set.                          *)
LEMMA TagCount ==
  ASSUME NEW k, NEW X
  PROVE  /\ IsFiniteSet({k} \X X) <=> IsFiniteSet(X)
         /\ IsFiniteSet(X) => Cardinality({k} \X X) = Cardinality(X)
<1> DEFINE h == [x \in X |-> <<k, x>>]
           g == [e \in {k} \X X |-> e[2]]
<1>0. \A e \in {k} \X X : e[2] \in X /\ e = <<k, e[2]>>
  OBVIOUS
<1>1. h \in Bijection(X, {k} \X X)
  <2>1. h \in [X -> {k} \X X] /\ \A x, y \in X : h[x] = h[y] => x = y
    OBVIOUS
  <2>2. \A e \in {k} \X X : h[e[2]] = e
    BY <1>0
  <2> HIDE DEF h
  <2> QED
    BY <1>0, <2>1, <2>2 DEF Bijection, Injection, Surjection, IsInjective
<1>2. g \in Bijection({k} \X X, X)
  <2>1. g \in [{k} \X X -> X] /\ \A d, e \in {k} \X X : g[d] = g[e] => d = e
    BY <1>0
  <2>2. \A x \in X : <<k, x>> \in {k} \X X /\ g[<<k, x>>] = x
    OBVIOUS
  <2> HIDE DEF g
  <2> QED
    BY <2>1, <2>2 DEF Bijection, Injection, Surjection, IsInjective
<1>3. ExistsBijection(X, {k} \X X) /\ ExistsBijection({k} \X X, X)
  BY <1>1, <1>2 DEF ExistsBijection
<1> QED
  BY <1>3, FS_Bijection

(* One summand and the rest.                                               *)
LEMMA TaggedSplit ==
  ASSUME NEW F, NEW k \in DOMAIN F
  PROVE  /\ IsFiniteSet(Tagged(F)) <=>
              IsFiniteSet(Tagged(Without(F, k))) /\ IsFiniteSet(F[k])
         /\ IsFiniteSet(Tagged(F)) =>
              /\ Cardinality(Tagged(F)) =
                   Cardinality(Tagged(Without(F, k))) + Cardinality(F[k])
              /\ Cardinality(Tagged(Without(F, k))) \in Nat
              /\ Cardinality(F[k]) \in Nat
<1> DEFINE T == Tagged(F)
           R == Tagged(Without(F, k))
           K == {k} \X F[k]
<1>1. T = R \cup K
  <2>1. \A e : e \in R <=> \E j \in DOMAIN F \ {k} : e \in {j} \X F[j]
    BY TaggedMembers DEF Without
  <2>2. \A e : e \in T <=> \E j \in DOMAIN F : e \in {j} \X F[j]
    BY TaggedMembers
  <2> QED
    BY <2>1, <2>2
<1>2. R \cap K = {}
  <2>1. \A e : e \in R <=> \E j \in DOMAIN F \ {k} : e \in {j} \X F[j]
    BY TaggedMembers DEF Without
  <2> QED
    BY <2>1
<1>3. /\ IsFiniteSet(K) <=> IsFiniteSet(F[k])
      /\ IsFiniteSet(F[k]) => Cardinality(K) = Cardinality(F[k])
  BY TagCount
<1> HIDE DEF T, R, K
<1>4. IsFiniteSet(T) <=> IsFiniteSet(R) /\ IsFiniteSet(K)
  <2>1. R \in SUBSET T /\ K \in SUBSET T
    BY <1>1
  <2>2. IsFiniteSet(T) => IsFiniteSet(R) /\ IsFiniteSet(K)
    BY <2>1, FS_Subset
  <2>3. IsFiniteSet(R) /\ IsFiniteSet(K) => IsFiniteSet(R \cup K)
    BY FS_Union
  <2> QED
    BY <1>1, <2>2, <2>3
<1>5. IsFiniteSet(T) => Cardinality(T) = Cardinality(R) + Cardinality(K)
                        /\ Cardinality(R) \in Nat /\ Cardinality(K) \in Nat
  <2> SUFFICES ASSUME IsFiniteSet(T)
               PROVE  Cardinality(T) = Cardinality(R) + Cardinality(K)
                      /\ Cardinality(R) \in Nat /\ Cardinality(K) \in Nat
    OBVIOUS
  <2>1. IsFiniteSet(R) /\ IsFiniteSet(K)
    BY <1>4
  <2>2. Cardinality(R) \in Nat /\ Cardinality(K) \in Nat
    BY <2>1, FS_CardinalityType
  <2>3. Cardinality(R \cup K) = Cardinality(R) + Cardinality(K) - Cardinality(R \cap K)
    BY <2>1, FS_Union
  <2>4. Cardinality(R \cap K) = 0
    BY <1>2, FS_EmptySet
  <2> QED
    BY <1>1, <2>2, <2>3, <2>4
<1> QED
  BY <1>3, <1>4, <1>5 DEF T, R, K

(* Replacing one summand changes the sum by the difference.                *)
LEMMA TaggedReplace ==
  ASSUME NEW F, NEW k \in DOMAIN F, NEW G, DOMAIN G = DOMAIN F,
         \A j \in DOMAIN F \ {k} : G[j] = F[j],
         IsFiniteSet(Tagged(F)), IsFiniteSet(G[k])
  PROVE  /\ IsFiniteSet(Tagged(G))
         /\ Cardinality(Tagged(F)) \in Nat /\ Cardinality(Tagged(G)) \in Nat
         /\ Cardinality(F[k]) \in Nat /\ Cardinality(G[k]) \in Nat
         /\ Cardinality(F[k]) <= Cardinality(Tagged(F))
         /\ Cardinality(Tagged(G)) =
              Cardinality(Tagged(F)) - Cardinality(F[k]) + Cardinality(G[k])
<1>1. Without(G, k) = Without(F, k)
  BY DEF Without
<1>2. /\ IsFiniteSet(Tagged(Without(F, k)))
      /\ Cardinality(Tagged(F)) = Cardinality(Tagged(Without(F, k))) + Cardinality(F[k])
      /\ Cardinality(Tagged(Without(F, k))) \in Nat /\ Cardinality(F[k]) \in Nat
  BY TaggedSplit
<1>3. IsFiniteSet(Tagged(G))
  BY <1>1, <1>2, TaggedSplit
<1>4. /\ Cardinality(Tagged(G)) = Cardinality(Tagged(Without(F, k))) + Cardinality(G[k])
      /\ Cardinality(G[k]) \in Nat
  BY <1>1, <1>3, TaggedSplit
<1> QED
  BY <1>2, <1>3, <1>4

(* Renaming the summands does not change the sum.                          *)
LEMMA TaggedReindex ==
  ASSUME NEW F, NEW G, NEW h \in Bijection(DOMAIN G, DOMAIN F),
         \A j \in DOMAIN G : G[j] = F[h[j]], IsFiniteSet(Tagged(F))
  PROVE  /\ IsFiniteSet(Tagged(G))
         /\ Cardinality(Tagged(G)) = Cardinality(Tagged(F))
<1>1. /\ h \in [DOMAIN G -> DOMAIN F]
      /\ \A i, j \in DOMAIN G : h[i] = h[j] => i = j
      /\ \A k \in DOMAIN F : \E j \in DOMAIN G : h[j] = k
  BY DEF Bijection, Injection, Surjection, IsInjective
<1> DEFINE m == [e \in Tagged(G) |-> <<h[e[1]], e[2]>>]
<1>2. ASSUME NEW e \in Tagged(G)
      PROVE  /\ e[1] \in DOMAIN G /\ e[2] \in G[e[1]] /\ e = <<e[1], e[2]>>
             /\ m[e] = <<h[e[1]], e[2]>> /\ m[e] \in Tagged(F)
  <2>1. PICK k \in DOMAIN G : e \in {k} \X G[k]
    BY TaggedMembers
  <2>2. e = <<k, e[2]>> /\ e[1] = k /\ e[2] \in G[k]
    BY <2>1
  <2>3. h[k] \in DOMAIN F /\ <<h[k], e[2]>> \in {h[k]} \X F[h[k]]
    BY <1>1, <2>2
  <2>4. <<h[k], e[2]>> \in Tagged(F)
    BY <2>3, TaggedMembers
  <2> QED
    BY <2>2, <2>4
<1>3. m \in [Tagged(G) -> Tagged(F)]
  BY <1>2
<1>4. \A d, e \in Tagged(G) : m[d] = m[e] => d = e
  <2> SUFFICES ASSUME NEW d \in Tagged(G), NEW e \in Tagged(G), m[d] = m[e]
               PROVE  d = e
    OBVIOUS
  <2>1. h[d[1]] = h[e[1]] /\ d[2] = e[2]
    BY <1>2
  <2>2. d[1] = e[1]
    BY <1>1, <1>2, <2>1
  <2> QED
    BY <1>2, <2>1, <2>2
<1>5. \A f \in Tagged(F) : \E e \in Tagged(G) : m[e] = f
  <2> SUFFICES ASSUME NEW f \in Tagged(F)
               PROVE  \E e \in Tagged(G) : m[e] = f
    OBVIOUS
  <2>1. PICK k \in DOMAIN F : f \in {k} \X F[k]
    BY TaggedMembers
  <2>2. PICK j \in DOMAIN G : h[j] = k
    BY <1>1
  <2>3. <<j, f[2]>> \in {j} \X G[j] /\ f = <<k, f[2]>>
    BY <2>1, <2>2
  <2>4. <<j, f[2]>> \in Tagged(G)
    BY <2>3, TaggedMembers
  <2>5. m[<<j, f[2]>>] = <<h[j], f[2]>>
    BY <2>4
  <2> QED
    BY <2>2, <2>3, <2>4, <2>5
<1> HIDE DEF m
<1>6. m \in Injection(Tagged(G), Tagged(F)) /\ m \in Surjection(Tagged(G), Tagged(F))
  BY <1>3, <1>4, <1>5 DEF Injection, Surjection, IsInjective
<1> QED
  BY <1>6, FS_Injection

-----------------------------------------------------------------------------
(* There are n numbers from 1 to n.                                        *)
LEMMA SegmentCount ==
  ASSUME NEW n \in Nat
  PROVE  IsFiniteSet(1 .. n) /\ Cardinality(1 .. n) = n
<1>1. /\ IsFiniteSet(1 .. n)
      /\ Cardinality(1 .. n) = IF 1 > n THEN 0 ELSE n - 1 + 1
  BY FS_Interval
<1> QED
  BY <1>1

(* The indices of a sequence from which the i-th element was taken.        *)
LEMMA ShiftIsBijection ==
  ASSUME NEW n \in Nat, NEW i \in 1 .. n + 1
  PROVE  [j \in 1 .. n |-> IF j < i THEN j ELSE j + 1]
           \in Bijection(1 .. n, (1 .. n + 1) \ {i})
<1> DEFINE h == [j \in 1 .. n |-> IF j < i THEN j ELSE j + 1]
<1>1. h \in [1 .. n -> (1 .. n + 1) \ {i}]
  OBVIOUS
<1>2. \A a, b \in 1 .. n : h[a] = h[b] => a = b
  OBVIOUS
<1>3. ASSUME NEW k \in (1 .. n + 1) \ {i}
      PROVE  \E j \in 1 .. n : h[j] = k
  <2>1. CASE k < i
    <3>1. k \in 1 .. n /\ h[k] = k
      BY <2>1
    <3> QED
      BY <3>1
  <2>2. CASE k > i
    <3>1. k - 1 \in 1 .. n /\ h[k - 1] = k
      BY <2>2
    <3> QED
      BY <3>1
  <2> QED
    BY <2>1, <2>2
<1> HIDE DEF h
<1>4. h \in Bijection(1 .. n, (1 .. n + 1) \ {i})
  BY <1>1, <1>2, <1>3 DEF Bijection, Injection, Surjection, IsInjective
<1> QED
  BY <1>4 DEF h

(* The sum of a sequence of naturals is a natural.                         *)
LEMMA LoadType ==
  ASSUME NEW w \in Seq(Nat)
  PROVE  IsFiniteSet(Cells(w)) /\ Load(w) \in Nat
<1> DEFINE D == 1 .. Len(w)
           S == {{i} \X (1 .. w[i]) : i \in D}
           f == [i \in D |-> {i} \X (1 .. w[i])]
<1>1. DOMAIN w = D /\ Len(w) \in Nat
  OBVIOUS
<1>2. IsFiniteSet(D)
  BY <1>1, FS_Interval
<1>3. f \in Surjection(D, S)
  BY DEF Surjection
<1>4. IsFiniteSet(S)
  BY <1>2, <1>3, FS_Surjection
<1>5. ASSUME NEW T \in S
      PROVE  IsFiniteSet(T)
  <2>1. PICK i \in D : T = {i} \X (1 .. w[i])
    OBVIOUS
  <2>2. w[i] \in Nat
    BY <1>1
  <2>3. IsFiniteSet(1 .. w[i])
    BY <2>2, FS_Interval
  <2> QED
    BY <2>1, <2>3, TagCount
<1>6. Cells(w) = UNION S
  BY <1>1 DEF Cells, Tagged
<1>7. IsFiniteSet(Cells(w))
  BY <1>4, <1>5, <1>6, FS_UNION
<1> QED
  BY <1>7, FS_CardinalityType DEF Load

(* The empty sum.                                                          *)
LEMMA LoadEmpty == Load(<<>>) = 0
<1>1. Cells(<<>>) = {}
  BY DEF Cells, Tagged
<1> QED
  BY <1>1, FS_EmptySet DEF Load

(* One element less, wherever it was.                                      *)
LEMMA LoadRemove ==
  ASSUME NEW w \in Seq(Nat), NEW i \in 1 .. Len(w), NEW r \in Seq(Nat),
         Len(r) = Len(w) - 1,
         \A j \in 1 .. Len(r) : r[j] = IF j < i THEN w[j] ELSE w[j + 1]
  PROVE  Load(w) = Load(r) + w[i]
<1> DEFINE F == [j \in DOMAIN w |-> 1 .. w[j]]
           G == [j \in DOMAIN r |-> 1 .. r[j]]
           W == Without(F, i)
           h == [j \in DOMAIN r |-> IF j < i THEN j ELSE j + 1]
<1>1. /\ DOMAIN w = 1 .. Len(w) /\ DOMAIN r = 1 .. Len(r)
      /\ Len(w) \in Nat /\ Len(r) \in Nat /\ w[i] \in Nat
  OBVIOUS
<1>2. DOMAIN W = (1 .. Len(w)) \ {i} /\ \A j \in DOMAIN W : W[j] = 1 .. w[j]
  BY <1>1 DEF Without
<1>3. DOMAIN G = 1 .. Len(r) /\ DOMAIN F = 1 .. Len(w) /\ F[i] = 1 .. w[i]
  BY <1>1
<1>3a. /\ DOMAIN h = 1 .. Len(r)
       /\ \A j \in 1 .. Len(r) : h[j] = IF j < i THEN j ELSE j + 1
       /\ h = [j \in 1 .. Len(r) |-> IF j < i THEN j ELSE j + 1]
  BY <1>1
<1> HIDE DEF h, G, W, F
<1>4. h \in Bijection(DOMAIN G, DOMAIN W)
  <2>1. Len(w) = Len(r) + 1 /\ i \in 1 .. Len(r) + 1
    BY <1>1
  <2> QED
    BY <1>1, <1>2, <1>3, <1>3a, <2>1, ShiftIsBijection
<1>5. \A j \in DOMAIN G : G[j] = W[h[j]]
  <2> SUFFICES ASSUME NEW j \in DOMAIN G
               PROVE  G[j] = W[h[j]]
    OBVIOUS
  <2>0. j \in 1 .. Len(r) /\ h[j] = (IF j < i THEN j ELSE j + 1)
    BY <1>3, <1>3a
  <2>1. h[j] \in DOMAIN W
    BY <1>4 DEF Bijection, Injection
  <2>2. W[h[j]] = 1 .. w[h[j]] /\ r[j] = w[h[j]] /\ G[j] = 1 .. r[j]
    <3>1. W[h[j]] = 1 .. w[h[j]]
      BY <1>2, <2>1
    <3>2. r[j] = w[h[j]]
      BY <2>0
    <3>3. G[j] = 1 .. r[j]
      BY <1>1, <2>0 DEF G
    <3> QED
      BY <3>1, <3>2, <3>3
  <2> QED
    BY <2>2
<1>6. IsFiniteSet(Tagged(F))
  BY LoadType DEF Cells, F
<1>7. i \in DOMAIN F
  BY <1>3
<1>8. Cardinality(1 .. w[i]) = w[i]
  BY <1>1, SegmentCount
<1>9. /\ IsFiniteSet(Tagged(W))
      /\ Cardinality(Tagged(F)) = Cardinality(Tagged(W)) + w[i]
  BY <1>3, <1>6, <1>7, <1>8, TaggedSplit DEF W
<1>10. Cardinality(Tagged(G)) = Cardinality(Tagged(W))
  BY <1>4, <1>5, <1>9, TaggedReindex
<1> QED
  BY <1>9, <1>10 DEF Load, Cells, F, G

(* One element more, at the end.                                           *)
LEMMA LoadAppend ==
  ASSUME NEW w \in Seq(Nat), NEW n \in Nat
  PROVE  Load(Append(w, n)) = Load(w) + n
<1> DEFINE a == Append(w, n)
<1>1. /\ a \in Seq(Nat) /\ Len(a) = Len(w) + 1 /\ a[Len(a)] = n
      /\ \A j \in 1 .. Len(w) : a[j] = w[j]
      /\ Len(w) \in Nat
  OBVIOUS
<1> HIDE DEF a
<1>2. Len(a) \in 1 .. Len(a) /\ Len(w) = Len(a) - 1
  BY <1>1
<1>3. \A j \in 1 .. Len(w) : w[j] = IF j < Len(a) THEN a[j] ELSE a[j + 1]
  BY <1>1
<1> QED
  BY <1>1, <1>2, <1>3, LoadRemove DEF a

(* A sequence that holds the same naturals, and zeros after them.          *)
LEMMA LoadPadded ==
  ASSUME NEW w \in Seq(Nat), NEW v \in Seq(Nat), Len(v) >= Len(w),
         \A j \in 1 .. Len(v) : v[j] = IF j <= Len(w) THEN w[j] ELSE 0
  PROVE  Load(v) = Load(w)
<1> DEFINE F == [j \in DOMAIN w |-> 1 .. w[j]]
           G == [j \in DOMAIN v |-> 1 .. v[j]]
<1>1. /\ DOMAIN F = 1 .. Len(w) /\ DOMAIN G = 1 .. Len(v)
      /\ Len(w) \in Nat /\ Len(v) \in Nat
  OBVIOUS
<1>2. \A j \in DOMAIN F : j \in DOMAIN G /\ F[j] = G[j]
  BY <1>1
<1>3. \A j \in DOMAIN G : j \in DOMAIN F \/ G[j] = {}
  BY <1>1
<1> HIDE DEF F, G
<1>4. \A e : e \in Tagged(F) <=> e \in Tagged(G)
  BY <1>2, <1>3, TaggedMembers
<1>5. Tagged(F) = Tagged(G)
  BY <1>4
<1> QED
  BY <1>5 DEF Load, Cells, F, G

=============================================================================
