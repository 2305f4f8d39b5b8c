---------------------------- MODULE HashMapProofs ----------------------------
(***************************************************************************)
(* Proofs about the hash map, for every hash function, load factor, resize *)
(* factor and number of buckets. Beside the memory stand the chains as the *)
(* code means them: ch gives each bucket the sequence of its entries.      *)
(***************************************************************************)
EXTENDS HashMap, NatLemmas, FiniteSetTheorems

\* Where links among the entries D lead.
Pointers(D) == {NULL} \cup D

\* An entry that is linked only with entries of D.
Entries(D) == [key : Keys, data : Data, prev : Pointers(D), next : Pointers(D)]

Structs(n, D) ==
    [list_of_buckets : [0 .. n - 1 -> Pointers(D)], num_of_buckets : {n}, num_of_entries : Nat]

\* A map of n buckets with the entries D, linked in whatever way.
Maps(n, D) == [h : Structs(n, D), m : [D -> Entries(D)]]

\* What can be the addresses of all entries.
Allocated(D) == IsFiniteSet(D) /\ D \subseteq Nat \ {0}

\* The j-th entry of a chain, NULL before the first and behind the last.
At(c, j) == IF j \in 1 .. Len(c) THEN c[j] ELSE NULL

\* No entry is twice in a chain.
Distinct(c) == \A j, k \in 1 .. Len(c) : c[j] = c[k] => j = k

\* The links forth run along c.
Forth(m, c) == \A j \in 1 .. Len(c) : m[c[j]].next = At(c, j + 1)

\* The links back run along c.
Back(m, c) == \A j \in 1 .. Len(c) : m[c[j]].prev = At(c, j - 1)

\* The chain of bucket i is c: its entries have the hash i.
BucketIs(h, m, i, c) ==
    /\ h.list_of_buckets[i] = At(c, 1) /\ Forth(m, c) /\ Back(m, c) /\ Distinct(c)
    /\ \A j \in 1 .. Len(c) : get_hash(h, m[c[j]].key) = i

\* The chains of all n buckets are ch.
Chained(h, m, n, D, ch) ==
    /\ ch \in [0 .. n - 1 -> Seq(D)]
    /\ \A i \in 0 .. n - 1 : BucketIs(h, m, i, ch[i])

\* Entry p is in chain c.
In(p, c) == \E j \in 1 .. Len(c) : c[j] = p

-----------------------------------------------------------------------------
(* Chains *)

\* A chain of different entries is no longer than there are entries.
LEMMA ShortChain ==
    ASSUME NEW D, IsFiniteSet(D), NEW c \in Seq(D), Distinct(c)
    PROVE  Cardinality(D) \in Nat /\ Len(c) <= Cardinality(D)
<1> DEFINE n == Len(c)
<1>1. n \in Nat /\ c \in [1 .. n -> D] /\ Cardinality(D) \in Nat
    BY FS_CardinalityType
<1>2. IsFiniteSet(1 .. n) /\ Cardinality(1 .. n) = n
    <2>1. 1 \in Int /\ n \in Int
        BY <1>1
    <2> HIDE DEF n
    <2>2. IsFiniteSet(1 .. n) /\ Cardinality(1 .. n) = IF 1 > n THEN 0 ELSE n - 1 + 1
        BY <2>1, FS_Interval
    <2> QED BY <1>1, <2>2
<1>3. ASSUME ~ (n <= Cardinality(D)) PROVE FALSE
    <2>1. Cardinality(D) < Cardinality(1 .. n)
        BY <1>1, <1>2, <1>3
    <2> HIDE DEF n
    <2>2. PICK j \in 1 .. n, k \in 1 .. n : j # k /\ c[j] = c[k]
        BY <1>1, <1>2, <2>1, FS_PigeonHole
    <2> QED BY <2>2 DEF Distinct, n
<1> QED BY <1>1, <1>3

\* behind follows next from x on.
Follows(S, next, x, behind) ==
    /\ behind \in [Nat -> S] /\ behind[0] = x
    /\ \A k \in Nat : behind[k + 1] = next[behind[k]]

\* What Chain walks along.
Walk(next, x) == CHOOSE b : b = [k \in Nat |-> IF k = 0 THEN x ELSE next[b[k - 1]]]

\* The walk has the values that its recursive equation asks for.
LEMMA WalkFollows ==
    ASSUME NEW S, NEW x \in S, NEW next, \A s \in S : next[s] \in S
    PROVE  Follows(S, next, x, Walk(next, x))
<1> DEFINE g == [ks \in Nat \X S |-> next[ks[2]]]
           T(b) == [k \in Nat |-> IF k = 0 THEN x ELSE next[b[k - 1]]]
           W == Walk(next, x)
<1>1. g \in [Nat \X S -> S] /\ \A k \in Nat, s \in S : g[<<k, s>>] = next[s]
    OBVIOUS
<1> HIDE DEF g
<1>2. PICK f : Recursion(S, x, g, f)
    BY <1>1, RecursionOnNat
<1>3. f \in [Nat -> S] /\ f[0] = x /\ \A k \in Nat : f[k + 1] = next[f[k]]
    BY <1>1, <1>2 DEF Recursion
<1>4. f = T(f)
    <2>1. ASSUME NEW k \in Nat PROVE f[k] = IF k = 0 THEN x ELSE next[f[k - 1]]
        <3>1. CASE k # 0
            <4>1. k - 1 \in Nat /\ (k - 1) + 1 = k
                BY <3>1
            <4> QED BY <1>3, <3>1, <4>1
        <3> QED BY <1>3, <3>1
    <2> QED BY <1>3, <2>1
<1>5. W = T(W)
    <2>1. W = CHOOSE b : b = T(b)
        BY DEF Walk
    <2> HIDE DEF T, W
    <2> QED BY <1>4, <2>1
<1> HIDE DEF W
<1>6. W[0] = x
    BY <1>5
<1>7. ASSUME NEW k \in Nat PROVE W[k + 1] = next[W[k]]
    <2>1. k + 1 \in Nat /\ k + 1 # 0 /\ (k + 1) - 1 = k
        OBVIOUS
    <2> QED BY <1>5, <2>1
<1>8. Nat \subseteq {k \in Nat : W[k] \in S}
    <2> DEFINE N == {k \in Nat : W[k] \in S}
    <2>1. 0 \in N /\ \A k \in Nat : k \in N => k + 1 \in N
        BY <1>6, <1>7
    <2> HIDE DEF N
    <2> QED BY <2>1, SetInduction DEF N
<1>9. W \in [Nat -> S]
    <2>1. \A k \in Nat : W[k] \in S
        BY <1>8
    <2>2. W = [k \in Nat |-> W[k]]
        BY <1>5
    <2> QED BY <2>1, <2>2
<1> QED BY <1>6, <1>7, <1>9 DEF Follows, W

\* Walking along the links forth gives the chain.
LEMMA ChainIs ==
    ASSUME NEW D, Allocated(D), NEW m \in [D -> Entries(D)],
           NEW c \in Seq(D), Distinct(c), Forth(m, c)
    PROVE  Chain(m, At(c, 1)) = c
<1> DEFINE S == Pointers(D)
           n == Len(c)
           N == Cardinality(D)
           next == [p \in Nat |-> IF p = NULL THEN NULL ELSE m[p].next]
           first == At(c, 1)
           b == Walk(next, first)
           entries == {k \in 0 .. Cardinality(DOMAIN m) : b[k] # NULL}
<1>1. D \subseteq Nat \ {0} /\ IsFiniteSet(D) /\ DOMAIN m = D /\ n \in Nat
      /\ (\A j \in 1 .. n : c[j] \in D)
    BY DEF Allocated
<1>2. N \in Nat /\ n <= N
    BY <1>1, ShortChain
<1>3. S \subseteq Nat /\ \A p \in S : next[p] = IF p = NULL THEN NULL ELSE m[p].next
    BY <1>1 DEF Pointers, NULL
<1>4. \A p \in S : next[p] \in S
    BY <1>3 DEF Pointers, Entries
<1>5. \A j \in Nat : At(c, j) \in S
    BY <1>1 DEF At, Pointers
<1>6. \A j \in Nat \ {0} : next[At(c, j)] = At(c, j + 1)
    <2> SUFFICES ASSUME NEW j \in Nat \ {0} PROVE next[At(c, j)] = At(c, j + 1)
        OBVIOUS
    <2>1. CASE j \in 1 .. n
        <3>1. At(c, j) = c[j] /\ c[j] \in S /\ c[j] # NULL
            BY <1>1, <2>1 DEF At, Pointers, NULL
        <3>2. m[c[j]].next = At(c, j + 1)
            BY <2>1 DEF Forth
        <3> HIDE DEF next
        <3> QED BY <1>3, <3>1, <3>2
    <2>2. CASE j \notin 1 .. n
        <3>1. At(c, j) = NULL /\ At(c, j + 1) = NULL
            BY <1>1, <2>2 DEF At
        <3>2. NULL \in S
            BY DEF Pointers
        <3> HIDE DEF next
        <3> QED BY <1>3, <3>1, <3>2
    <2> QED BY <2>1, <2>2
<1> HIDE DEF next, S
<1>7. Follows(S, next, first, b)
    BY <1>4, <1>5, WalkFollows
<1> HIDE DEF b
<1>8. Nat \subseteq {k \in Nat : b[k] = At(c, k + 1)}
    <2> DEFINE K == {k \in Nat : b[k] = At(c, k + 1)}
    <2>1. 0 \in K
        BY <1>7 DEF Follows
    <2>2. ASSUME NEW k \in Nat, k \in K PROVE k + 1 \in K
        <3>1. b[k] = At(c, k + 1)
            BY <2>2
        <3> HIDE DEF K, first
        <3>2. b[k + 1] = next[b[k]]
            BY <1>7 DEF Follows
        <3>3. next[At(c, k + 1)] = At(c, (k + 1) + 1) /\ k + 1 \in Nat
            BY <1>6
        <3> QED BY <3>1, <3>2, <3>3 DEF K
    <2> HIDE DEF K
    <2> QED BY <2>1, <2>2, SetInduction DEF K
<1>9. \A k \in Nat : b[k] = At(c, k + 1)
    BY <1>8
<1>10. entries = 0 .. n - 1
    <2>1. ASSUME NEW k \in 0 .. N PROVE b[k] # NULL <=> k + 1 \in 1 .. n
        <3>1. k \in Nat /\ b[k] = At(c, k + 1)
            BY <1>2, <1>9
        <3>2. k + 1 \in 1 .. n => c[k + 1] # NULL
            BY <1>1 DEF NULL
        <3> QED BY <3>1, <3>2 DEF At
    <2> QED BY <1>1, <1>2, <2>1
<1>11. Cardinality(entries) = n
    <2>1. 0 \in Int /\ n - 1 \in Int
        BY <1>1
    <2> HIDE DEF n, entries
    <2>2. Cardinality(0 .. n - 1) = IF 0 > n - 1 THEN 0 ELSE (n - 1) - 0 + 1
        BY <2>1, FS_Interval
    <2> QED BY <1>1, <1>10, <2>2
<1>12. Chain(m, first) = [j \in 1 .. Cardinality(entries) |-> b[j - 1]]
    BY DEF Chain, b, next, Walk
<1> HIDE DEF entries
<1>13. \A j \in 1 .. n : b[j - 1] = c[j]
    <2> SUFFICES ASSUME NEW j \in 1 .. n PROVE b[j - 1] = c[j]
        OBVIOUS
    <2>1. j - 1 \in Nat /\ (j - 1) + 1 = j
        BY <1>1
    <2> QED BY <1>9, <2>1 DEF At
<1>14. c = [j \in 1 .. n |-> c[j]]
    OBVIOUS
<1> QED BY <1>11, <1>12, <1>13, <1>14
-----------------------------------------------------------------------------
(* What matches a key in a chain *)

\* Induction up to n.
LEMMA UpToInduction ==
    ASSUME NEW n \in Nat, NEW S, 0 \in S, \A j \in 1 .. n : j - 1 \in S => j \in S
    PROVE  \A j \in 0 .. n : j \in S
<1> DEFINE T == {j \in Nat : j <= n => j \in S}
<1>1. 0 \in T
    OBVIOUS
<1>2. ASSUME NEW j \in Nat, j \in T PROVE j + 1 \in T
    <2>1. CASE j + 1 <= n
        <3>1. j + 1 \in 1 .. n /\ (j + 1) - 1 = j /\ j \in S
            BY <1>2, <2>1
        <3> QED BY <3>1
    <2>2. CASE ~ (j + 1 <= n)
        BY <2>2
    <2> QED BY <2>1, <2>2
<1> HIDE DEF T
<1>3. Nat \subseteq T
    BY <1>1, <1>2, SetInduction
<1> QED BY <1>3 DEF T

\* f[j] is what matches among the first j entries of c.
IsAmong(m, key, D, c, f) ==
    /\ c \in Seq(D) /\ f \in [0 .. Len(c) -> Seq(D)] /\ f[0] = <<>>
    /\ \A j \in 1 .. Len(c) :
          f[j] = IF m[c[j]].key = key THEN Append(f[j - 1], c[j]) ELSE f[j - 1]

\* Matching goes through the chain like this.
Matched(m, key, D, c, f) ==
    IsAmong(m, key, D, c, f) /\ Matching(m, key)[c] = f[Len(c)]

\* There is such a sequence of sequences.
LEMMA MatchingIs ==
    ASSUME NEW m, NEW D, DOMAIN m = D, NEW key, NEW c \in Seq(D)
    PROVE  \E f : Matched(m, key, D, c, f)
<1> DEFINE n == Len(c)
           S == Seq(D)
           g == [js \in (1 .. n) \X S |->
                   IF m[c[js[1]]].key = key THEN Append(js[2], c[js[1]]) ELSE js[2]]
           T(a) == [j \in 0 .. Len(c) |->
                      IF j = 0 THEN <<>>
                      ELSE IF m[c[j]].key = key THEN Append(a[j - 1], c[j]) ELSE a[j - 1]]
           A == CHOOSE a : a = T(a)
<1>1. n \in Nat /\ <<>> \in S /\ \A j \in 1 .. n : c[j] \in D
    OBVIOUS
<1>2. ASSUME NEW j \in 1 .. n, NEW s \in S
      PROVE  /\ g[<<j, s>>] = IF m[c[j]].key = key THEN Append(s, c[j]) ELSE s
             /\ g[<<j, s>>] \in S
    <2>1. g[<<j, s>>] = IF m[c[j]].key = key THEN Append(s, c[j]) ELSE s
        OBVIOUS
    <2>2. Append(s, c[j]) \in S
        BY <1>1
    <2> HIDE DEF g
    <2> QED BY <2>1, <2>2
<1>3. g \in [(1 .. n) \X S -> S]
    <2>1. g = [js \in (1 .. n) \X S |-> g[js]]
        OBVIOUS
    <2>2. ASSUME NEW js \in (1 .. n) \X S PROVE g[js] \in S
        <3>1. PICK j \in 1 .. n, s \in S : js = <<j, s>>
            OBVIOUS
        <3> HIDE DEF g, S
        <3> QED BY <1>2, <3>1
    <2> HIDE DEF g, S
    <2> QED BY <2>1, <2>2
<1> HIDE DEF g
<1>4. PICK f : RecursionTo(S, <<>>, g, n, f)
    <2> HIDE DEF S, n
    <2> QED BY <1>1, <1>3, RecursionUpTo
<1>5. f \in [0 .. n -> S] /\ f[0] = <<>> /\ \A j \in 1 .. n : f[j] = g[<<j, f[j - 1]>>]
    BY <1>4 DEF RecursionTo
<1>6. ASSUME NEW j \in 1 .. n
      PROVE  f[j] = IF m[c[j]].key = key THEN Append(f[j - 1], c[j]) ELSE f[j - 1]
    <2>1. f[j - 1] \in S
        BY <1>1, <1>5
    <2> HIDE DEF S, n
    <2> QED BY <1>2, <1>5, <2>1
<1>7. IsAmong(m, key, D, c, f)
    BY <1>5, <1>6 DEF IsAmong
<1>8. f = T(f)
    <2>1. ASSUME NEW j \in 0 .. n PROVE f[j] = T(f)[j]
        <3>1. CASE j = 0
            BY <1>5, <3>1
        <3>2. CASE j \in 1 .. n
            BY <1>6, <3>2
        <3> QED BY <1>1, <3>1, <3>2
    <2>2. f = [j \in 0 .. n |-> f[j]] /\ T(f) = [j \in 0 .. n |-> T(f)[j]]
        BY <1>5
    <2> HIDE DEF T
    <2> QED BY <2>1, <2>2
<1>9. A = T(A)
    <2> HIDE DEF T
    <2> QED BY <1>8
<1> HIDE DEF A
<1>10. A[0] = <<>>
    BY <1>1, <1>9
<1>11. ASSUME NEW j \in 1 .. n
       PROVE  A[j] = IF m[c[j]].key = key THEN Append(A[j - 1], c[j]) ELSE A[j - 1]
    <2>1. j \in 0 .. Len(c) /\ j # 0
        BY <1>1
    <2>2. T(A)[j] = IF m[c[j]].key = key THEN Append(A[j - 1], c[j]) ELSE A[j - 1]
        BY <2>1
    <2> HIDE DEF T
    <2> QED BY <1>9, <2>2
<1>12. \A j \in 0 .. n : j \in {i \in 0 .. n : A[i] = f[i]}
    <2> DEFINE K == {i \in 0 .. n : A[i] = f[i]}
    <2>1. 0 \in K
        BY <1>1, <1>5, <1>10
    <2>2. ASSUME NEW j \in 1 .. n, j - 1 \in K PROVE j \in K
        <3>1. A[j - 1] = f[j - 1]
            BY <2>2
        <3> HIDE DEF K
        <3>2. A[j] = f[j]
            BY <1>6, <1>11, <3>1
        <3> QED BY <1>1, <3>2 DEF K
    <2> HIDE DEF K, n
    <2> QED BY <1>1, <2>1, <2>2, UpToInduction DEF K
<1>13. A[n] = f[n]
    BY <1>1, <1>12
<1>14. Matching(m, key)[c] = A[n]
    BY DEF Matching, A
<1> QED BY <1>7, <1>13, <1>14 DEF Matched

\* The first n entries of two chains are the same.
SameStart(m1, c1, m2, c2, n) ==
    /\ n \in Nat /\ n <= Len(c1) /\ n <= Len(c2)
    /\ \A j \in 1 .. n : c1[j] = c2[j] /\ m1[c1[j]].key = m2[c1[j]].key

\* Then what matches among them is the same.
LEMMA AmongAgree ==
    ASSUME NEW key, NEW m1, NEW D1, NEW c1, NEW f1, IsAmong(m1, key, D1, c1, f1),
           NEW m2, NEW D2, NEW c2, NEW f2, IsAmong(m2, key, D2, c2, f2),
           NEW n, SameStart(m1, c1, m2, c2, n)
    PROVE  f1[n] = f2[n]
<1> DEFINE K == {j \in 0 .. n : f1[j] = f2[j]}
<1>4. /\ n \in Nat /\ n <= Len(c1) /\ n <= Len(c2) /\ c1 \in Seq(D1) /\ c2 \in Seq(D2)
      /\ \A j \in 1 .. n : c1[j] = c2[j] /\ m1[c1[j]].key = m2[c1[j]].key
    BY DEF SameStart, IsAmong
<1>1. 0 \in K
    BY <1>4 DEF IsAmong
<1>2. ASSUME NEW j \in 1 .. n, j - 1 \in K PROVE j \in K
    <2>1. f1[j - 1] = f2[j - 1] /\ j \in 1 .. Len(c1) /\ j \in 1 .. Len(c2) /\ j \in 0 .. n
        BY <1>2, <1>4
    <2>2. f1[j] = IF m1[c1[j]].key = key THEN Append(f1[j - 1], c1[j]) ELSE f1[j - 1]
        BY <2>1 DEF IsAmong
    <2>3. f2[j] = IF m2[c2[j]].key = key THEN Append(f2[j - 1], c2[j]) ELSE f2[j - 1]
        BY <2>1 DEF IsAmong
    <2>4. c1[j] = c2[j] /\ m1[c1[j]].key = m2[c1[j]].key
        BY <1>4
    <2>5. f1[j] = f2[j]
        BY <2>1, <2>2, <2>3, <2>4
    <2> QED BY <2>1, <2>5
<1> HIDE DEF K
<1>3. \A j \in 0 .. n : j \in K
    BY <1>1, <1>2, <1>4, UpToInduction
<1> QED BY <1>3, <1>4 DEF K

\* The same entries of c match the key ...
SameMatching(m, m2, key, c) == Matching(m2, key)[c] = Matching(m, key)[c]

\* ... when their keys are the same.
LEMMA MatchingSame ==
    ASSUME NEW key, NEW m1, NEW D1, DOMAIN m1 = D1, NEW m2, NEW D2, DOMAIN m2 = D2, NEW c,
           c \in Seq(D1), c \in Seq(D2), \A j \in 1 .. Len(c) : m2[c[j]].key = m1[c[j]].key
    PROVE  SameMatching(m1, m2, key, c)
<1>1. PICK f1 : Matched(m1, key, D1, c, f1)
    BY MatchingIs
<1>2. PICK f2 : Matched(m2, key, D2, c, f2)
    BY MatchingIs
<1>3. SameStart(m1, c, m2, c, Len(c))
    BY DEF SameStart
<1>4. f1[Len(c)] = f2[Len(c)]
    <2>1. IsAmong(m1, key, D1, c, f1) /\ IsAmong(m2, key, D2, c, f2)
        BY <1>1, <1>2 DEF Matched
    <2> QED BY <1>3, <2>1, AmongAgree
<1> QED BY <1>1, <1>2, <1>4 DEF Matched, SameMatching

\* A chain with an entry more.
LEMMA MatchingAppend ==
    ASSUME NEW m, NEW D, DOMAIN m = D, NEW key, NEW c \in Seq(D), NEW p \in D
    PROVE  Matching(m, key)[Append(c, p)]
             = IF m[p].key = key THEN Append(Matching(m, key)[c], p) ELSE Matching(m, key)[c]
<1> DEFINE a == Append(c, p)
           n == Len(c)
<1>1. a \in Seq(D) /\ n \in Nat /\ Len(a) = n + 1 /\ a[n + 1] = p /\ \A j \in 1 .. n : a[j] = c[j]
    OBVIOUS
<1> HIDE DEF a
<1>2. PICK f : Matched(m, key, D, c, f)
    BY MatchingIs
<1>3. PICK g : Matched(m, key, D, a, g)
    BY <1>1, MatchingIs
<1>4. IsAmong(m, key, D, c, f) /\ Matching(m, key)[c] = f[n]
      /\ IsAmong(m, key, D, a, g) /\ Matching(m, key)[a] = g[n + 1]
    BY <1>1, <1>2, <1>3 DEF Matched
<1>5. g[n] = f[n]
    <2>1. SameStart(m, a, m, c, n)
        BY <1>1 DEF SameStart
    <2> HIDE DEF n
    <2> QED BY <1>4, <2>1, AmongAgree
<1>6. g[n + 1] = IF m[p].key = key THEN Append(g[n], p) ELSE g[n]
    <2>1. n + 1 \in 1 .. Len(a) /\ (n + 1) - 1 = n
        BY <1>1
    <2> QED BY <1>1, <1>4, <2>1 DEF IsAmong
<1> QED BY <1>4, <1>5, <1>6 DEF a

\* A sequence with an element added.
LEMMA Appended ==
    ASSUME NEW S, NEW s \in Seq(S), NEW e \in S
    PROVE  /\ Append(s, e) \in Seq(S) /\ Append(s, e) # <<>>
           /\ Len(Append(s, e)) = Len(s) + 1 /\ Append(s, e)[Len(s) + 1] = e
           /\ \A i \in 1 .. Len(s) : Append(s, e)[i] = s[i]
OBVIOUS

\* s is what matches key in c: entries of c with the key, each once, and some if there are.
Matches(m, key, D, c, s) ==
    /\ s \in Seq(D)
    /\ \A i \in 1 .. Len(s) : In(s[i], c) /\ m[s[i]].key = key
    /\ Distinct(c) => Distinct(s)
    /\ (\E k \in 1 .. Len(c) : m[c[k]].key = key) => s # <<>>

\* The same of the first j entries.
MatchesUpTo(m, key, D, c, j, s) ==
    /\ s \in Seq(D)
    /\ \A i \in 1 .. Len(s) : \E k \in 1 .. j : s[i] = c[k] /\ m[c[k]].key = key
    /\ Distinct(c) => Distinct(s)
    /\ (\E k \in 1 .. j : m[c[k]].key = key) => s # <<>>

\* Entry by entry.
LEMMA MatchesStep ==
    ASSUME NEW m, NEW key, NEW D, NEW c \in Seq(D), NEW j \in 1 .. Len(c), NEW s,
           MatchesUpTo(m, key, D, c, j - 1, s)
    PROVE  MatchesUpTo(m, key, D, c, j, IF m[c[j]].key = key THEN Append(s, c[j]) ELSE s)
<1>1. /\ s \in Seq(D) /\ j \in 1 .. Len(c) /\ Len(c) \in Nat /\ c[j] \in D /\ Len(s) \in Nat
      /\ \A i \in 1 .. Len(s) : \E k \in 1 .. j - 1 : s[i] = c[k] /\ m[c[k]].key = key
      /\ Distinct(c) => Distinct(s)
      /\ (\E k \in 1 .. j - 1 : m[c[k]].key = key) => s # <<>>
    BY DEF MatchesUpTo
<1>2. CASE m[c[j]].key = key
    <2> DEFINE a == Append(s, c[j])
    <2>1. /\ a \in Seq(D) /\ Len(a) = Len(s) + 1 /\ a[Len(s) + 1] = c[j] /\ a # <<>>
          /\ \A i \in 1 .. Len(s) : a[i] = s[i]
        BY <1>1, Appended
    <2> HIDE DEF a
    <2>2. ASSUME NEW i \in 1 .. Len(a)
          PROVE  \E k \in 1 .. j : a[i] = c[k] /\ m[c[k]].key = key
        <3>1. CASE i = Len(s) + 1
            BY <1>1, <1>2, <2>1, <3>1
        <3>2. CASE i # Len(s) + 1
            <4>1. i \in 1 .. Len(s)
                BY <1>1, <2>1, <3>2
            <4>2. PICK k \in 1 .. j - 1 : s[i] = c[k] /\ m[c[k]].key = key
                BY <1>1, <4>1
            <4>3. k \in 1 .. j
                BY <1>1
            <4> QED BY <2>1, <4>1, <4>2, <4>3
        <3> QED BY <3>1, <3>2
    <2>3. ASSUME Distinct(c) PROVE Distinct(a)
        <3>1. ASSUME NEW i \in 1 .. Len(s) PROVE s[i] # c[j]
            <4>1. PICK k \in 1 .. j - 1 : s[i] = c[k]
                BY <1>1
            <4>2. k \in 1 .. Len(c) /\ k # j
                BY <1>1
            <4> QED BY <1>1, <2>3, <4>1, <4>2 DEF Distinct
        <3>2. \A i, k \in 1 .. Len(s) : s[i] = s[k] => i = k
            BY <1>1, <2>3 DEF Distinct
        <3>3. \A i \in 1 .. Len(a) : i = Len(s) + 1 \/ i \in 1 .. Len(s)
            BY <1>1, <2>1
        <3> SUFFICES ASSUME NEW i \in 1 .. Len(a), NEW k \in 1 .. Len(a), a[i] = a[k] PROVE i = k
            BY DEF Distinct
        <3> QED BY <2>1, <3>1, <3>2, <3>3
    <2> QED BY <1>2, <2>1, <2>2, <2>3 DEF MatchesUpTo, a
<1>3. CASE m[c[j]].key # key
    <2>1. ASSUME NEW k \in 1 .. j PROVE k = j \/ k \in 1 .. j - 1
        BY <1>1
    <2>2. \A k \in 1 .. j - 1 : k \in 1 .. j
        BY <1>1
    <2>3. \A i \in 1 .. Len(s) : \E k \in 1 .. j : s[i] = c[k] /\ m[c[k]].key = key
        BY <1>1, <2>2
    <2>4. (\E k \in 1 .. j : m[c[k]].key = key) => s # <<>>
        BY <1>1, <1>3, <2>1
    <2> QED BY <1>1, <1>3, <2>3, <2>4 DEF MatchesUpTo
<1> QED BY <1>2, <1>3

\* What Matching gives is this.
LEMMA MatchingMatches ==
    ASSUME NEW m, NEW D, DOMAIN m = D, NEW key, NEW c \in Seq(D)
    PROVE  Matches(m, key, D, c, Matching(m, key)[c])
<1> DEFINE n == Len(c)
<1>1. PICK f : Matched(m, key, D, c, f)
    BY MatchingIs
<1>2. /\ f[0] = <<>> /\ Matching(m, key)[c] = f[n] /\ n \in Nat
      /\ \A j \in 1 .. n :
            f[j] = IF m[c[j]].key = key THEN Append(f[j - 1], c[j]) ELSE f[j - 1]
    BY <1>1 DEF Matched, IsAmong
<1> DEFINE K == {j \in 0 .. n : MatchesUpTo(m, key, D, c, j, f[j])}
<1>3. 0 \in K
    <2>1. MatchesUpTo(m, key, D, c, 0, <<>>)
        BY DEF MatchesUpTo, Distinct
    <2> QED BY <1>2, <2>1
<1>4. ASSUME NEW j \in 1 .. n, j - 1 \in K PROVE j \in K
    <2>1. MatchesUpTo(m, key, D, c, j - 1, f[j - 1])
        BY <1>4
    <2>2. MatchesUpTo(m, key, D, c, j, f[j])
        <3>1. MatchesUpTo(m, key, D, c, j,
                          IF m[c[j]].key = key THEN Append(f[j - 1], c[j]) ELSE f[j - 1])
            BY <2>1, MatchesStep
        <3> QED BY <1>2, <3>1
    <2> QED BY <1>2, <2>2
<1> HIDE DEF K
<1>5. n \in K
    <2>1. \A j \in 0 .. n : j \in K
        <3> HIDE DEF n
        <3> QED BY <1>2, <1>3, <1>4, UpToInduction
    <2> QED BY <1>2, <2>1
<1>6. MatchesUpTo(m, key, D, c, n, f[n])
    BY <1>5 DEF K
<1>7. Matches(m, key, D, c, f[n])
    <2>1. ASSUME NEW i \in 1 .. Len(f[n]) PROVE In(f[n][i], c) /\ m[f[n][i]].key = key
        <3>1. PICK k \in 1 .. n : f[n][i] = c[k] /\ m[c[k]].key = key
            BY <1>6 DEF MatchesUpTo
        <3> QED BY <3>1 DEF In
    <2> QED BY <1>6, <2>1 DEF MatchesUpTo, Matches
<1> QED BY <1>2, <1>7

\* Of a sequence to which an element is added.
LEMMA TailAppend ==
    ASSUME NEW S, NEW s \in Seq(S), s # <<>>, NEW e \in S
    PROVE  /\ Append(s, e) # <<>> /\ Head(Append(s, e)) = Head(s)
           /\ Tail(Append(s, e)) = Append(Tail(s), e) /\ Append(s, e) \in Seq(S)
OBVIOUS

\* s is t with the first entry of a chain before it if it matches, and t if not.
WithFirst(p, matches, s, t) ==
    IF matches THEN s # <<>> /\ Head(s) = p /\ Tail(s) = t ELSE s = t

\* A chain without its first entry.
LEMMA MatchingTail ==
    ASSUME NEW m, NEW D, DOMAIN m = D, NEW key, NEW c \in Seq(D), c # <<>>
    PROVE  WithFirst(c[1], m[c[1]].key = key, Matching(m, key)[c], Matching(m, key)[Tail(c)])
<1> DEFINE n == Len(c)
           t == Tail(c)
           first == m[c[1]].key = key
<1>1. /\ n \in Nat \ {0} /\ t \in Seq(D) /\ Len(t) = n - 1 /\ c[1] \in D
      /\ \A j \in 1 .. n - 1 : t[j] = c[j + 1] /\ c[j + 1] \in D
    OBVIOUS
<1> HIDE DEF t
<1>2. PICK f : Matched(m, key, D, c, f)
    BY MatchingIs
<1>3. PICK g : Matched(m, key, D, t, g)
    BY <1>1, MatchingIs
<1>4. /\ f[0] = <<>> /\ Matching(m, key)[c] = f[n] /\ f \in [0 .. n -> Seq(D)]
      /\ \A j \in 1 .. n :
            f[j] = IF m[c[j]].key = key THEN Append(f[j - 1], c[j]) ELSE f[j - 1]
    BY <1>2 DEF Matched, IsAmong
<1>5. /\ g[0] = <<>> /\ Matching(m, key)[t] = g[n - 1] /\ g \in [0 .. n - 1 -> Seq(D)]
      /\ \A j \in 1 .. n - 1 :
            g[j] = IF m[t[j]].key = key THEN Append(g[j - 1], t[j]) ELSE g[j - 1]
    BY <1>1, <1>3 DEF Matched, IsAmong
<1> DEFINE K == {j \in 0 .. n - 1 : WithFirst(c[1], first, f[j + 1], g[j])}
<1>6. 0 \in K
    <2>1. 1 \in 1 .. n /\ 0 + 1 = 1 /\ 1 - 1 = 0 /\ 0 \in 0 .. n - 1
        BY <1>1
    <2>2. f[1] = IF first THEN Append(<<>>, c[1]) ELSE <<>>
        BY <1>4, <2>1
    <2>3. Append(<<>>, c[1]) # <<>> /\ Head(Append(<<>>, c[1])) = c[1]
          /\ Tail(Append(<<>>, c[1])) = <<>>
        OBVIOUS
    <2>4. WithFirst(c[1], first, f[1], g[0])
        BY <1>5, <2>2, <2>3 DEF WithFirst
    <2> QED BY <2>1, <2>4
<1>7. ASSUME NEW j \in 1 .. n - 1, j - 1 \in K PROVE j \in K
    <2>1. j \in Nat /\ j # 0 /\ j + 1 \in 1 .. n /\ (j + 1) - 1 = j /\ (j - 1) + 1 = j
          /\ j \in 0 .. n - 1 /\ j \in 0 .. n /\ j - 1 \in 0 .. n - 1
        BY <1>1
    <2>2. WithFirst(c[1], first, f[j], g[j - 1])
        BY <1>7, <2>1
    <2>3. f[j + 1] = IF m[c[j + 1]].key = key THEN Append(f[j], c[j + 1]) ELSE f[j]
        BY <1>4, <2>1
    <2>4. g[j] = IF m[c[j + 1]].key = key THEN Append(g[j - 1], c[j + 1]) ELSE g[j - 1]
        BY <1>1, <1>5
    <2>5. f[j] \in Seq(D) /\ g[j - 1] \in Seq(D) /\ c[j + 1] \in D
        BY <1>1, <1>4, <1>5, <2>1
    <2> HIDE DEF first
    <2>6. WithFirst(c[1], first, f[j + 1], g[j])
        <3>1. CASE first
            <4>1. f[j] # <<>> /\ Head(f[j]) = c[1] /\ Tail(f[j]) = g[j - 1]
                BY <2>2, <3>1 DEF WithFirst
            <4>2. CASE m[c[j + 1]].key = key
                <5>1. /\ Append(f[j], c[j + 1]) # <<>> /\ Head(Append(f[j], c[j + 1])) = Head(f[j])
                      /\ Tail(Append(f[j], c[j + 1])) = Append(Tail(f[j]), c[j + 1])
                    <6> DEFINE s == f[j]
                               e == c[j + 1]
                    <6>1. s \in Seq(D) /\ s # <<>> /\ e \in D
                        BY <2>5, <4>1
                    <6> HIDE DEF s, e
                    <6>2. /\ Append(s, e) # <<>> /\ Head(Append(s, e)) = Head(s)
                          /\ Tail(Append(s, e)) = Append(Tail(s), e)
                        BY <6>1, TailAppend
                    <6> QED BY <6>2 DEF s, e
                <5> QED BY <2>3, <2>4, <3>1, <4>1, <4>2, <5>1 DEF WithFirst
            <4>3. CASE m[c[j + 1]].key # key
                BY <2>3, <2>4, <3>1, <4>1, <4>3 DEF WithFirst
            <4> QED BY <4>2, <4>3
        <3>2. CASE ~first
            BY <2>2, <2>3, <2>4, <3>2 DEF WithFirst
        <3> QED BY <3>1, <3>2
    <2> QED BY <2>1, <2>6
<1> HIDE DEF K, first
<1>8. n - 1 \in K
    <2>1. n - 1 \in Nat
        BY <1>1
    <2>2. \A j \in 0 .. n - 1 : j \in K
        <3> DEFINE M == n - 1
        <3>1. M \in Nat /\ \A j \in 1 .. M : j - 1 \in K => j \in K
            BY <1>7, <2>1
        <3> HIDE DEF M
        <3>2. \A j \in 0 .. M : j \in K
            BY <1>6, <3>1, UpToInduction
        <3> QED BY <3>2 DEF M
    <2> QED BY <2>1, <2>2
<1>9. WithFirst(c[1], first, f[n], g[n - 1])
    <2>1. (n - 1) + 1 = n
        BY <1>1
    <2> QED BY <1>8, <2>1 DEF K
<1> QED BY <1>4, <1>5, <1>9 DEF first, t
-----------------------------------------------------------------------------
(* Linking an entry *)

\* Keys and data are the same, the links may not be.
SameData(m, m2) ==
    /\ DOMAIN m2 = DOMAIN m
    /\ \A q \in DOMAIN m : m2[q].key = m[q].key /\ m2[q].data = m[q].data

\* A walk along links among the entries meets nothing else.
LEMMA ChainType ==
    ASSUME NEW D, Allocated(D), NEW m \in [D -> Entries(D)], NEW first \in Pointers(D)
    PROVE  Chain(m, first) \in Seq(Pointers(D))
<1> DEFINE S == Pointers(D)
           next == [p \in Nat |-> IF p = NULL THEN NULL ELSE m[p].next]
           b == Walk(next, first)
           entries == {k \in 0 .. Cardinality(DOMAIN m) : b[k] # NULL}
           n == Cardinality(entries)
<1>1. D \subseteq Nat \ {0} /\ IsFiniteSet(D) /\ DOMAIN m = D /\ Cardinality(D) \in Nat
    BY FS_CardinalityType DEF Allocated
<1>2. S \subseteq Nat /\ \A p \in S : next[p] = IF p = NULL THEN NULL ELSE m[p].next
    BY <1>1 DEF Pointers, NULL
<1>3. \A p \in S : next[p] \in S
    BY <1>2 DEF Pointers, Entries
<1>4. Chain(m, first) = [j \in 1 .. n |-> b[j - 1]]
    BY DEF Chain, Walk
<1> HIDE DEF next, S
<1>5. Follows(S, next, first, b)
    <2>1. first \in S
        BY DEF S
    <2> QED BY <1>3, <2>1, WalkFollows
<1> HIDE DEF b
<1>6. n \in Nat
    <2>1. IsFiniteSet(0 .. Cardinality(D))
        <3>1. 0 \in Int /\ Cardinality(D) \in Int
            BY <1>1
        <3> QED BY <3>1, FS_Interval
    <2>2. entries \subseteq 0 .. Cardinality(D)
        BY <1>1
    <2> HIDE DEF entries
    <2> QED BY <2>1, <2>2, FS_Subset, FS_CardinalityType
<1> HIDE DEF n
<1>7. \A j \in 1 .. n : b[j - 1] \in S
    <2> SUFFICES ASSUME NEW j \in 1 .. n PROVE b[j - 1] \in S
        OBVIOUS
    <2>1. j - 1 \in Nat
        BY <1>6
    <2> QED BY <1>5, <2>1 DEF Follows
<1>8. [j \in 1 .. n |-> b[j - 1]] \in Seq(S)
    BY <1>6, <1>7
<1> QED BY <1>4, <1>8 DEF S

\* An entry with other links.
LEMMA EntryLinks ==
    ASSUME NEW D, NEW e \in Entries(D), NEW p \in Pointers(D)
    PROVE  /\ [e EXCEPT !.prev = p] \in Entries(D) /\ [e EXCEPT !.next = p] \in Entries(D)
           /\ [e EXCEPT !.prev = p].key = e.key /\ [e EXCEPT !.prev = p].data = e.data
           /\ [e EXCEPT !.next = p].key = e.key /\ [e EXCEPT !.next = p].data = e.data
           /\ [e EXCEPT !.prev = p].next = e.next /\ [e EXCEPT !.next = p].prev = e.prev
           /\ [e EXCEPT !.prev = p].prev = p /\ [e EXCEPT !.next = p].next = p
BY DEF Entries

\* A memory in which the entry q got another link.
Relinked(D, m, m2, q) ==
    /\ m2 \in [D -> Entries(D)] /\ SameData(m, m2)
    /\ \A o \in D : o # q => m2[o] = m[o]

\* Setting the link forth of q to p, or the link back.
LinkedForth(D, m, m2, q, p) ==
    Relinked(D, m, m2, q) /\ (q \in D => m2[q].next = p /\ m2[q].prev = m[q].prev)
LinkedBack(D, m, m2, q, p) ==
    Relinked(D, m, m2, q) /\ (q \in D => m2[q].prev = p /\ m2[q].next = m[q].next)

\* Setting a link forth, or back.
LEMMA LinkSet ==
    ASSUME NEW D, NEW m \in [D -> Entries(D)], NEW q, NEW p \in Pointers(D)
    PROVE  /\ LinkedForth(D, m, [m EXCEPT ![q].next = p], q, p)
           /\ LinkedBack(D, m, [m EXCEPT ![q].prev = p], q, p)
<1>1. CASE q \in D
    <2> DEFINE e == m[q]
    <2>1. e \in Entries(D)
        BY <1>1
    <2> DEFINE a == [e EXCEPT !.next = p]
               b == [e EXCEPT !.prev = p]
               m2 == [m EXCEPT ![q] = a]
               m3 == [m EXCEPT ![q] = b]
    <2>2. m2 = [m EXCEPT ![q].next = p] /\ m3 = [m EXCEPT ![q].prev = p]
        OBVIOUS
    <2> HIDE DEF e
    <2>3. /\ a \in Entries(D) /\ a.key = e.key /\ a.data = e.data /\ a.next = p /\ a.prev = e.prev
          /\ b \in Entries(D) /\ b.key = e.key /\ b.data = e.data /\ b.prev = p /\ b.next = e.next
        BY <2>1, EntryLinks
    <2> HIDE DEF a, b
    <2>4. Relinked(D, m, m2, q) /\ m2[q] = a
        BY <1>1, <2>3 DEF Relinked, SameData, e
    <2>5. Relinked(D, m, m3, q) /\ m3[q] = b
        BY <1>1, <2>3 DEF Relinked, SameData, e
    <2> HIDE DEF m2, m3
    <2>6. LinkedForth(D, m, m2, q, p) /\ LinkedBack(D, m, m3, q, p)
        BY <2>3, <2>4, <2>5 DEF e, LinkedForth, LinkedBack
    <2> QED BY Zenon, <2>2, <2>6
<1>2. CASE q \notin D
    <2>1. [m EXCEPT ![q].next = p] = m /\ [m EXCEPT ![q].prev = p] = m
        BY <1>2
    <2>2. LinkedForth(D, m, m, q, p) /\ LinkedBack(D, m, m, q, p)
        BY <1>2 DEF Relinked, SameData, LinkedForth, LinkedBack
    <2> QED BY Zenon, <2>1, <2>2
<1> QED BY Zenon, <1>1, <1>2

\* ... is what the assignments do.
LEMMA ForthSet ==
    ASSUME NEW D, NEW m \in [D -> Entries(D)], NEW q, NEW p \in Pointers(D)
    PROVE  LinkedForth(D, m, [m EXCEPT ![q].next = p], q, p)
BY Zenon, LinkSet

\* The same for the link back.
LEMMA BackSet ==
    ASSUME NEW D, NEW m \in [D -> Entries(D)], NEW q, NEW p \in Pointers(D)
    PROVE  LinkedBack(D, m, [m EXCEPT ![q].prev = p], q, p)
BY Zenon, LinkSet

\* Keys and data are the same over two steps.
LEMMA SameDataTwice ==
    ASSUME NEW m, NEW m2, NEW m3, SameData(m, m2), SameData(m2, m3)
    PROVE  SameData(m, m3)
BY DEF SameData

\* Several links set at once are links set one after the other.
LEMMA LinksInTurn ==
    ASSUME NEW m, NEW q, NEW p, NEW a, NEW b, NEW c
    PROVE  /\ [m EXCEPT ![p].prev = a, ![p].next = b]
                = [[m EXCEPT ![p].prev = a] EXCEPT ![p].next = b]
           /\ [m EXCEPT ![q].next = c, ![p].prev = a, ![p].next = b]
                = [[[m EXCEPT ![q].next = c] EXCEPT ![p].prev = a] EXCEPT ![p].next = b]
OBVIOUS

\* What linking p with prev before it and nothing behind it does to the memory.
Joined(D, m, m2, prev, p) ==
    /\ m2 \in [D -> Entries(D)] /\ SameData(m, m2)
    /\ m2[p].prev = prev /\ m2[p].next = NULL
    /\ \A o \in D : o # p => /\ m2[o].prev = m[o].prev
                             /\ m2[o].next = IF o = prev THEN p ELSE m[o].next

\* The first entry of a chain.
LEMMA JoinedFirst ==
    ASSUME NEW D, NULL \notin D, NEW m \in [D -> Entries(D)], NEW p \in D
    PROVE  Joined(D, m, [m EXCEPT ![p].prev = NULL, ![p].next = NULL], NULL, p)
<1> DEFINE m1 == [m EXCEPT ![p].prev = NULL]
           m2 == [m1 EXCEPT ![p].next = NULL]
<1>1. [m EXCEPT ![p].prev = NULL, ![p].next = NULL] = m2
    BY LinksInTurn
<1>2. NULL \in Pointers(D)
    BY DEF Pointers
<1>13. LinkedBack(D, m, m1, p, NULL)
    BY Zenon, <1>2, BackSet
<1> HIDE DEF m1
<1>3. Relinked(D, m, m1, p) /\ m1[p].prev = NULL
    BY Zenon, <1>13 DEF LinkedBack
<1>4. m1 \in [D -> Entries(D)]
    BY <1>3 DEF Relinked
<1>15. LinkedForth(D, m1, m2, p, NULL)
    BY Zenon, <1>2, <1>4, ForthSet
<1> HIDE DEF m2
<1>5. Relinked(D, m1, m2, p) /\ m2[p].next = NULL /\ m2[p].prev = m1[p].prev
    BY Zenon, <1>15 DEF LinkedForth
<1>6. m2 \in [D -> Entries(D)] /\ SameData(m, m2)
    <2>1. SameData(m, m1) /\ SameData(m1, m2) /\ m2 \in [D -> Entries(D)]
        BY <1>3, <1>5 DEF Relinked
    <2> QED BY <2>1, SameDataTwice
<1>7. \A o \in D : o # p => m2[o] = m[o]
    BY <1>3, <1>5 DEF Relinked
<1>8. Joined(D, m, m2, NULL, p)
    BY <1>3, <1>5, <1>6, <1>7 DEF Joined
<1> QED BY <1>1, <1>8

\* An entry behind the last one, which is another one.
LEMMA JoinedLast ==
    ASSUME NEW D, NEW m \in [D -> Entries(D)], NEW p \in D, NEW last \in Pointers(D)
    PROVE  LET m2 == [m EXCEPT ![last].next = p, ![p].prev = last, ![p].next = NULL]
           IN  /\ m2 \in [D -> Entries(D)] /\ SameData(m, m2)
               /\ last \in D /\ last # p => Joined(D, m, m2, last, p)
<1> DEFINE m1 == [m EXCEPT ![last].next = p]
           m2 == [m1 EXCEPT ![p].prev = last]
           m3 == [m2 EXCEPT ![p].next = NULL]
<1>1. [m EXCEPT ![last].next = p, ![p].prev = last, ![p].next = NULL] = m3
    BY LinksInTurn
<1>2. NULL \in Pointers(D) /\ p \in Pointers(D)
    BY DEF Pointers
<1>3. /\ Relinked(D, m, m1, last)
      /\ last \in D => m1[last].next = p /\ m1[last].prev = m[last].prev
    <2>1. LinkedForth(D, m, m1, last, p)
        BY Zenon, <1>2, ForthSet
    <2> HIDE DEF m1
    <2> QED BY Zenon, <2>1 DEF LinkedForth
<1> HIDE DEF m1
<1>4. m1 \in [D -> Entries(D)]
    BY <1>3 DEF Relinked
<1>5. Relinked(D, m1, m2, p) /\ m2[p].prev = last /\ m2[p].next = m1[p].next
    <2>1. LinkedBack(D, m1, m2, p, last)
        BY Zenon, <1>4, BackSet
    <2> HIDE DEF m2
    <2> QED BY Zenon, <2>1 DEF LinkedBack
<1> HIDE DEF m2
<1>6. m2 \in [D -> Entries(D)]
    BY <1>5 DEF Relinked
<1>7. Relinked(D, m2, m3, p) /\ m3[p].next = NULL /\ m3[p].prev = m2[p].prev
    <2>1. LinkedForth(D, m2, m3, p, NULL)
        BY Zenon, <1>2, <1>6, ForthSet
    <2> HIDE DEF m3
    <2> QED BY Zenon, <2>1 DEF LinkedForth
<1> HIDE DEF m3
<1>8. m3 \in [D -> Entries(D)] /\ SameData(m, m3)
    <2>1. SameData(m, m1) /\ SameData(m1, m2) /\ SameData(m2, m3) /\ m3 \in [D -> Entries(D)]
        BY <1>3, <1>5, <1>7 DEF Relinked
    <2>2. SameData(m, m2)
        BY <2>1, SameDataTwice
    <2> QED BY <2>1, <2>2, SameDataTwice
<1>9. ASSUME last \in D, last # p PROVE Joined(D, m, m3, last, p)
    <2>1. \A o \in D : o # p => m3[o] = m1[o]
        BY <1>5, <1>7 DEF Relinked
    <2>2. \A o \in D : o # last => m1[o] = m[o]
        BY <1>3 DEF Relinked
    <2>3. m1[last].next = p /\ m1[last].prev = m[last].prev
        BY <1>3, <1>9
    <2>4. \A o \in D : o # p => /\ m3[o].prev = m[o].prev
                               /\ m3[o].next = IF o = last THEN p ELSE m[o].next
        BY <2>1, <2>2, <2>3
    <2> QED BY <1>5, <1>7, <1>8, <2>4 DEF Joined
<1> QED BY <1>1, <1>8, <1>9

\* Between two maps only the links and the first entries of buckets differ.
Kept(map, map2) ==
    /\ SameData(map.m, map2.m) /\ map2.h.num_of_entries = map.h.num_of_entries
    /\ map2.h.num_of_buckets = map.h.num_of_buckets

\* The parts of a map.
LEMMA MapParts ==
    ASSUME NEW n, NEW D, NEW map \in Maps(n, D)
    PROVE  /\ map.h \in Structs(n, D) /\ map.m \in [D -> Entries(D)]
           /\ map.h.list_of_buckets \in [0 .. n - 1 -> Pointers(D)]
           /\ map.h.num_of_buckets = n /\ map.h.num_of_entries \in Nat /\ DOMAIN map.m = D
BY DEF Maps, Structs

\* Only maps have these parts.
LEMMA MapOfParts ==
    ASSUME NEW n, NEW D, NEW h \in Structs(n, D), NEW m \in [D -> Entries(D)]
    PROVE  [h |-> h, m |-> m] \in Maps(n, D)
BY DEF Maps

\* h2 is h with p as the first entry of bucket i.
StartsWith(n, D, h, h2, i, p) ==
    /\ h2 \in Structs(n, D) /\ h2.num_of_entries = h.num_of_entries
    /\ h2.num_of_buckets = h.num_of_buckets /\ h2.list_of_buckets[i] = p
    /\ \A k \in 0 .. n - 1 : k # i => h2.list_of_buckets[k] = h.list_of_buckets[k]

\* ... which is what the assignment does.
LEMMA BucketSet ==
    ASSUME NEW n, NEW D, NEW h \in Structs(n, D), NEW p \in Pointers(D), NEW i \in 0 .. n - 1
    PROVE  StartsWith(n, D, h, [h EXCEPT !.list_of_buckets[i] = p], i, p)
BY DEF Structs, StartsWith

\* The bucket of an entry.
LEMMA HashType ==
    ASSUME NEW n \in Nat \ {0}, NEW h, h.num_of_buckets = n, NEW key \in Keys
    PROVE  get_hash(h, key) \in 0 .. n - 1
<1>1. hash_function[key] \in Nat
    BY HashMapAssumption
<1> QED BY <1>1, RemainderType DEF get_hash

\* Linking an entry, whatever the links are.
LEMMA LinkedType ==
    ASSUME NEW n \in Nat \ {0}, NEW D, Allocated(D), NEW map \in Maps(n, D), NEW p \in D
    PROVE  Linked(map, p) \in Maps(n, D) /\ Kept(map, Linked(map, p))
<1> DEFINE h == map.h
           m == map.m
           hash == get_hash(h, m[p].key)
           c == ChainOf(h, m, m[p].key)
           last == c[Len(c)]
           h2 == [h EXCEPT !.list_of_buckets[hash] = p]
           m1 == [m EXCEPT ![p].prev = NULL, ![p].next = NULL]
           m2 == [m EXCEPT ![last].next = p, ![p].prev = last, ![p].next = NULL]
<1>1. Linked(map, p) = IF c = <<>> THEN [h |-> h2, m |-> m1] ELSE [h |-> h, m |-> m2]
    BY Zenon DEF Linked
<1>2. /\ h \in Structs(n, D) /\ m \in [D -> Entries(D)] /\ h.num_of_buckets = n
      /\ h.list_of_buckets \in [0 .. n - 1 -> Pointers(D)]
    BY MapParts
<1>3. hash \in 0 .. n - 1
    <2>1. m[p].key \in Keys
        BY <1>2 DEF Entries
    <2> HIDE DEF h, m
    <2> QED BY <1>2, <2>1, HashType
<1>4. c \in Seq(Pointers(D))
    <2>1. h.list_of_buckets[hash] \in Pointers(D)
        BY <1>2, <1>3
    <2>2. c = Chain(m, h.list_of_buckets[hash])
        BY Zenon DEF ChainOf
    <2> HIDE DEF h, m, hash, c
    <2> QED BY <1>2, <2>1, <2>2, ChainType
<1> HIDE DEF h, m, hash, c
<1>5. p \in Pointers(D) /\ NULL \notin D
    BY DEF Pointers, Allocated, NULL
<1>6. h2 \in Structs(n, D) /\ h2.num_of_entries = h.num_of_entries
      /\ h2.num_of_buckets = h.num_of_buckets
    <2>1. StartsWith(n, D, h, h2, hash, p)
        BY Zenon, <1>2, <1>3, <1>5, BucketSet
    <2> HIDE DEF h2
    <2> QED BY Zenon, <2>1 DEF StartsWith
<1>7. m1 \in [D -> Entries(D)] /\ SameData(m, m1)
    BY Zenon, <1>2, <1>5, JoinedFirst DEF Joined
<1>8. ASSUME c # <<>> PROVE m2 \in [D -> Entries(D)] /\ SameData(m, m2)
    <2>1. last \in Pointers(D)
        BY <1>4, <1>8
    <2> HIDE DEF last
    <2> QED BY Zenon, <1>2, <2>1, JoinedLast
<1> HIDE DEF h2, m1, m2
<1>9. CASE c = <<>>
    <2>1. Linked(map, p) = [h |-> h2, m |-> m1]
        BY <1>1, <1>9
    <2>2. [h |-> h2, m |-> m1] \in Maps(n, D)
        BY <1>6, <1>7, MapOfParts
    <2>3. Kept(map, [h |-> h2, m |-> m1])
        BY <1>6, <1>7 DEF Kept, h, m
    <2> QED BY Zenon, <2>1, <2>2, <2>3
<1>10. CASE c # <<>>
    <2>1. Linked(map, p) = [h |-> h, m |-> m2]
        BY <1>1, <1>10
    <2>2. [h |-> h, m |-> m2] \in Maps(n, D)
        BY <1>2, <1>8, <1>10, MapOfParts
    <2>3. Kept(map, [h |-> h, m |-> m2])
        BY <1>8, <1>10 DEF Kept, h, m
    <2> QED BY Zenon, <2>1, <2>2, <2>3
<1> QED BY Zenon, <1>9, <1>10

\* The bucket of an entry depends on its key and the number of buckets only.
LEMMA SameHash ==
    ASSUME NEW h, NEW h2, h2.num_of_buckets = h.num_of_buckets, NEW key
    PROVE  get_hash(h2, key) = get_hash(h, key)
BY DEF get_hash

\* A bucket that the change leaves alone.
LEMMA BucketKept ==
    ASSUME NEW D, NEW h, NEW m, DOMAIN m = D, NEW i, NEW c \in Seq(D), BucketIs(h, m, i, c),
           NEW h2, NEW m2, SameData(m, m2), h2.num_of_buckets = h.num_of_buckets,
           h2.list_of_buckets[i] = h.list_of_buckets[i],
           \A j \in 1 .. Len(c) : m2[c[j]].next = m[c[j]].next /\ m2[c[j]].prev = m[c[j]].prev
    PROVE  BucketIs(h2, m2, i, c)
<1>1. \A j \in 1 .. Len(c) : c[j] \in D /\ m2[c[j]].key = m[c[j]].key
    BY DEF SameData
<1>2. Forth(m2, c) /\ Back(m2, c)
    BY DEF BucketIs, Forth, Back
<1>3. ASSUME NEW j \in 1 .. Len(c) PROVE get_hash(h2, m2[c[j]].key) = i
    <2>1. get_hash(h2, m2[c[j]].key) = get_hash(h, m[c[j]].key)
        <3>1. get_hash(h2, m[c[j]].key) = get_hash(h, m[c[j]].key)
            BY Zenon, SameHash
        <3> QED BY <1>1, <3>1
    <2>2. get_hash(h, m[c[j]].key) = i
        BY Zenon DEF BucketIs
    <2> QED BY Zenon, <2>1, <2>2
<1> QED BY Zenon, <1>2, <1>3 DEF BucketIs

\* The chain a is c with p behind it.
Longer(D, c, p, a) ==
    /\ a \in Seq(D) /\ Len(c) \in Nat /\ Len(a) = Len(c) + 1 /\ a[Len(c) + 1] = p
    /\ \A j \in 1 .. Len(c) : a[j] = c[j]
    /\ At(a, 0) = NULL /\ At(a, Len(c) + 1) = p /\ At(a, (Len(c) + 1) + 1) = NULL
    /\ \A j \in 1 .. Len(c) : At(a, j) = c[j]

\* Where a longer chain has the same entries.
LEMMA AppendedAt ==
    ASSUME NEW D, NEW c \in Seq(D), NEW p \in D
    PROVE  Longer(D, c, p, Append(c, p))
<1> DEFINE a == Append(c, p)
           n == Len(c)
<1>1. /\ a \in Seq(D) /\ n \in Nat /\ Len(a) = n + 1 /\ a[n + 1] = p
      /\ \A j \in 1 .. n : a[j] = c[j]
    BY Appended
<1> HIDE DEF a, n
<1>2. At(a, 0) = NULL /\ At(a, n + 1) = p /\ At(a, (n + 1) + 1) = NULL
    BY <1>1 DEF At
<1>3. \A j \in 1 .. n : At(a, j) = c[j]
    BY <1>1 DEF At
<1>4. Longer(D, c, p, a)
    BY Zenon, <1>1, <1>2, <1>3 DEF Longer, n
<1> QED BY <1>4 DEF a

\* A chain with another entry has its entries once.
LEMMA DistinctAppend ==
    ASSUME NEW D, NEW c \in Seq(D), NEW p \in D, Distinct(c), ~In(p, c)
    PROVE  Distinct(Append(c, p))
<1> DEFINE a == Append(c, p)
           n == Len(c)
<1>1. /\ n \in Nat /\ Len(a) = n + 1 /\ a[n + 1] = p /\ \A j \in 1 .. n : a[j] = c[j]
    BY Appended
<1> HIDE DEF a
<1>2. \A j \in 1 .. n : c[j] # p
    BY DEF In
<1>3. \A j, k \in 1 .. n : c[j] = c[k] => j = k
    BY DEF Distinct
<1> HIDE DEF n
<1>4. \A j \in 1 .. n + 1 : j = n + 1 \/ j \in 1 .. n
    BY <1>1
<1>5. ASSUME NEW j \in 1 .. Len(a), NEW k \in 1 .. Len(a), a[j] = a[k] PROVE j = k
    BY <1>1, <1>2, <1>3, <1>4, <1>5
<1>6. Distinct(a)
    BY Zenon, <1>5 DEF Distinct
<1> QED BY <1>6 DEF a

\* The last entry of a chain, NULL if there is none.
LastOf(c) == IF c = <<>> THEN NULL ELSE c[Len(c)]

\* The bucket that gets the entry p.
LEMMA BucketLonger ==
    ASSUME NEW D, NULL \notin D, NEW h, NEW m, DOMAIN m = D,
           NEW i, NEW c \in Seq(D), BucketIs(h, m, i, c),
           NEW p \in D, ~In(p, c), get_hash(h, m[p].key) = i,
           NEW h2, NEW m2, h2.num_of_buckets = h.num_of_buckets,
           h2.list_of_buckets[i] = IF c = <<>> THEN p ELSE h.list_of_buckets[i],
           Joined(D, m, m2, LastOf(c), p)
    PROVE  BucketIs(h2, m2, i, Append(c, p))
<1> DEFINE a == Append(c, p)
           n == Len(c)
<1>1. /\ a \in Seq(D) /\ n \in Nat /\ Len(a) = n + 1 /\ a[n + 1] = p
      /\ \A j \in 1 .. n : a[j] = c[j]
      /\ At(a, 0) = NULL /\ At(a, n + 1) = p /\ At(a, (n + 1) + 1) = NULL
      /\ \A j \in 1 .. n : At(a, j) = c[j]
    <2>1. Longer(D, c, p, a)
        BY Zenon, AppendedAt
    <2> HIDE DEF a
    <2> QED BY Zenon, <2>1 DEF Longer, n
<1>2. Distinct(a)
    BY Zenon, DistinctAppend DEF BucketIs
<1> HIDE DEF a
<1>3. /\ \A j \in 1 .. n : /\ c[j] \in D /\ c[j] # p
                           /\ m[c[j]].next = At(c, j + 1) /\ m[c[j]].prev = At(c, j - 1)
      /\ \A j, k \in 1 .. n : c[j] = c[k] => j = k
    BY DEF BucketIs, Forth, Back, Distinct, In
<1>4. /\ m2[p].prev = LastOf(c) /\ m2[p].next = NULL
      /\ \A j \in 1 .. n : /\ m2[c[j]].prev = m[c[j]].prev
                           /\ m2[c[j]].next = IF c[j] = LastOf(c) THEN p ELSE m[c[j]].next
    BY <1>3 DEF Joined
<1>5. /\ c = <<>> => n = 0
      /\ c # <<>> => n \in 1 .. n
    BY <1>1
<1>6. LastOf(c) = IF n = 0 THEN NULL ELSE c[n]
    BY <1>5 DEF LastOf
<1>7. \A j \in 1 .. n : At(c, j) = c[j]
    BY DEF At
<1>8. At(c, 0) = NULL
    BY DEF At
<1> HIDE DEF n
<1>9. \A j \in 1 .. n + 1 : j = n + 1 \/ j \in 1 .. n
    BY <1>1
<1>10. ASSUME NEW j \in 1 .. n PROVE m2[c[j]].next = At(a, j + 1)
    <2>1. CASE j = n
        <3>1. c[j] = LastOf(c)
            BY <1>1, <1>6, <2>1
        <3> QED BY <1>1, <1>4, <2>1, <3>1
    <2>2. CASE j # n
        <3>1. j + 1 \in 1 .. n /\ n \in 1 .. n /\ n # 0
            BY <1>1, <2>2
        <3>2. c[j] # LastOf(c)
            BY <1>3, <1>6, <2>2, <3>1
        <3>3. m2[c[j]].next = At(c, j + 1)
            BY <1>3, <1>4, <3>2
        <3> QED BY <1>1, <1>7, <3>1, <3>3
    <2> QED BY <2>1, <2>2
<1>11. ASSUME NEW j \in 1 .. n PROVE m2[c[j]].prev = At(a, j - 1)
    <2>1. m2[c[j]].prev = At(c, j - 1)
        BY <1>3, <1>4
    <2>2. CASE j = 1
        <3>1. j - 1 = 0
            BY <2>2
        <3> QED BY Zenon, <1>1, <1>8, <2>1, <3>1
    <2>3. CASE j # 1
        <3>1. j - 1 \in 1 .. n
            BY <1>1, <2>3
        <3> QED BY Zenon, <1>1, <1>7, <2>1, <3>1
    <2> QED BY <2>2, <2>3
<1>12. Forth(m2, a)
    <2> SUFFICES ASSUME NEW j \in 1 .. n + 1 PROVE m2[a[j]].next = At(a, j + 1)
        BY <1>1 DEF Forth
    <2>1. CASE j = n + 1
        BY <1>1, <1>4, <2>1
    <2>2. CASE j \in 1 .. n
        BY <1>1, <1>10, <2>2
    <2> QED BY Zenon, <1>9, <2>1, <2>2
<1>13. Back(m2, a)
    <2> SUFFICES ASSUME NEW j \in 1 .. n + 1 PROVE m2[a[j]].prev = At(a, j - 1)
        BY <1>1 DEF Back
    <2>1. CASE j = n + 1
        <3>1. (n + 1) - 1 = n
            BY <1>1
        <3>2. At(a, n) = LastOf(c)
            <4>1. CASE n = 0
                BY <1>1, <1>6, <4>1
            <4>2. CASE n # 0
                <5>1. n \in 1 .. n
                    BY <1>1, <4>2
                <5> QED BY <1>1, <1>6, <4>2, <5>1
            <4> QED BY <4>1, <4>2
        <3> QED BY <1>1, <1>4, <2>1, <3>1, <3>2
    <2>2. CASE j \in 1 .. n
        BY <1>1, <1>11, <2>2
    <2> QED BY Zenon, <1>9, <2>1, <2>2
<1>14. h2.list_of_buckets[i] = At(a, 1)
    <2>1. CASE c = <<>>
        <3>1. n = 0 /\ n + 1 = 1
            BY <1>5, <2>1
        <3> QED BY <1>1, <2>1, <3>1
    <2>2. CASE c # <<>>
        <3>1. 1 \in 1 .. n
            BY <1>1, <1>5, <2>2
        <3>2. h.list_of_buckets[i] = c[1]
            BY <1>7, <3>1 DEF BucketIs
        <3> QED BY <1>1, <2>2, <3>1, <3>2
    <2> QED BY <2>1, <2>2
<1>15. \A j \in 1 .. n + 1 : get_hash(h2, m2[a[j]].key) = i
    <2>1. \A o \in D : m2[o].key = m[o].key
        BY DEF Joined, SameData
    <2>2. \A o \in D : get_hash(h2, m2[o].key) = get_hash(h, m[o].key)
        <3> SUFFICES ASSUME NEW o \in D PROVE get_hash(h2, m2[o].key) = get_hash(h, m[o].key)
            OBVIOUS
        <3>1. get_hash(h2, m[o].key) = get_hash(h, m[o].key)
            BY Zenon, SameHash
        <3> QED BY <2>1, <3>1
    <2>3. \A j \in 1 .. n : get_hash(h, m[c[j]].key) = i
        BY Zenon DEF BucketIs, n
    <2> SUFFICES ASSUME NEW j \in 1 .. n + 1 PROVE get_hash(h2, m2[a[j]].key) = i
        OBVIOUS
    <2>4. CASE j = n + 1
        BY <1>1, <2>2, <2>4
    <2>5. CASE j \in 1 .. n
        BY <1>1, <1>3, <2>2, <2>3, <2>5
    <2> QED BY Zenon, <1>9, <2>4, <2>5
<1>16. BucketIs(h2, m2, i, a)
    BY <1>1, <1>2, <1>12, <1>13, <1>14, <1>15 DEF BucketIs
<1> QED BY <1>16 DEF a

\* What linking p into the bucket hash with the chain c does.
LinkedInto(n, D, map, map2, hash, c, p) ==
    /\ map2.h.num_of_buckets = map.h.num_of_buckets
    /\ map2.h.list_of_buckets[hash] = IF c = <<>> THEN p ELSE map.h.list_of_buckets[hash]
    /\ \A k \in 0 .. n - 1 : k # hash => map2.h.list_of_buckets[k] = map.h.list_of_buckets[k]
    /\ Joined(D, map.m, map2.m, LastOf(c), p)

\* Linked does it.
LEMMA LinkedIsInto ==
    ASSUME NEW n \in Nat \ {0}, NEW D, Allocated(D), NEW map \in Maps(n, D), NEW p \in D,
           NEW hash \in 0 .. n - 1, hash = get_hash(map.h, map.m[p].key),
           NEW c \in Seq(D), BucketIs(map.h, map.m, hash, c), ~In(p, c)
    PROVE  LinkedInto(n, D, map, Linked(map, p), hash, c, p)
<1> DEFINE h == map.h
           m == map.m
           b == get_hash(h, m[p].key)
           chain == ChainOf(h, m, m[p].key)
           last == chain[Len(chain)]
           h2 == [h EXCEPT !.list_of_buckets[b] = p]
           m1 == [m EXCEPT ![p].prev = NULL, ![p].next = NULL]
           m2 == [m EXCEPT ![last].next = p, ![p].prev = last, ![p].next = NULL]
<1>1. Linked(map, p) = IF chain = <<>> THEN [h |-> h2, m |-> m1] ELSE [h |-> h, m |-> m2]
    BY Zenon DEF Linked
<1>2. /\ h \in Structs(n, D) /\ m \in [D -> Entries(D)] /\ h.num_of_buckets = n
    BY MapParts
<1>3. chain = c
    <2>1. chain = Chain(m, h.list_of_buckets[hash])
        BY Zenon DEF ChainOf
    <2>2. h.list_of_buckets[hash] = At(c, 1) /\ Distinct(c) /\ Forth(m, c)
        BY Zenon DEF BucketIs
    <2> HIDE DEF h, m
    <2>3. Chain(m, At(c, 1)) = c
        BY Zenon, <1>2, <2>2, ChainIs
    <2> QED BY Zenon, <2>1, <2>2, <2>3
<1>4. b = hash
    OBVIOUS
<1> HIDE DEF h, m, chain, b
<1>5. p \in Pointers(D) /\ NULL \notin D
    BY DEF Pointers, Allocated, NULL
<1>6. StartsWith(n, D, h, h2, hash, p)
    <2>1. b \in 0 .. n - 1
        BY Zenon, <1>4
    <2>2. StartsWith(n, D, h, h2, b, p)
        BY Zenon, <1>2, <1>5, <2>1, BucketSet
    <2> HIDE DEF h2
    <2> QED BY Zenon, <1>4, <2>2
<1>7. Joined(D, m, m1, NULL, p)
    BY Zenon, <1>2, <1>5, JoinedFirst
<1>8. ASSUME c # <<>> PROVE last = LastOf(c) /\ Joined(D, m, m2, last, p)
    <2>1. last = LastOf(c)
        BY <1>3, <1>8 DEF LastOf
    <2>2. last \in D /\ last # p
        <3>1. Len(c) \in 1 .. Len(c)
            BY <1>8
        <3>2. c[Len(c)] \in D /\ c[Len(c)] # p
            BY <3>1 DEF In
        <3> QED BY <1>3, <3>2
    <2>3. last \in Pointers(D)
        BY <2>2 DEF Pointers
    <2> HIDE DEF last
    <2>4. Joined(D, m, m2, last, p)
        BY Zenon, <1>2, <2>2, <2>3, JoinedLast
    <2> QED BY <2>1, <2>4
<1> HIDE DEF h2, m1, m2, last
<1>9. CASE c = <<>>
    <2> DEFINE map2 == [h |-> h2, m |-> m1]
    <2>1. Linked(map, p) = map2
        BY <1>1, <1>3, <1>9
    <2>2. LastOf(c) = NULL
        BY <1>9 DEF LastOf
    <2>3. map2.h = h2 /\ map2.m = m1
        OBVIOUS
    <2> HIDE DEF map2
    <2>4. LinkedInto(n, D, map, map2, hash, c, p)
        BY <1>6, <1>7, <1>9, <2>2, <2>3 DEF LinkedInto, StartsWith, h, m
    <2> QED BY Zenon, <2>1, <2>4
<1>10. CASE c # <<>>
    <2> DEFINE map2 == [h |-> h, m |-> m2]
    <2>1. Linked(map, p) = map2
        BY <1>1, <1>3, <1>10
    <2>2. map2.h = h /\ map2.m = m2
        OBVIOUS
    <2> HIDE DEF map2
    <2>3. LinkedInto(n, D, map, map2, hash, c, p)
        BY <1>8, <1>10, <2>2 DEF LinkedInto, h, m
    <2> QED BY Zenon, <2>1, <2>3
<1> QED BY Zenon, <1>9, <1>10

\* The chains with p at the end of one of them.
Put(ch, hash, p) == [ch EXCEPT ![hash] = Append(@, p)]

\* Linking an entry that is in no chain adds it to the chain of its bucket.
LEMMA LinkedChains ==
    ASSUME NEW n \in Nat \ {0}, NEW D, Allocated(D), NEW map \in Maps(n, D),
           NEW ch, Chained(map.h, map.m, n, D, ch),
           NEW p \in D, \A i \in 0 .. n - 1 : ~In(p, ch[i])
    PROVE  LET map2 == Linked(map, p)
           IN  Chained(map2.h, map2.m, n, D, Put(ch, get_hash(map.h, map.m[p].key), p))
<1> DEFINE hash == get_hash(map.h, map.m[p].key)
           c == ch[hash]
           map2 == Linked(map, p)
           ch2 == Put(ch, hash, p)
<1>1. map.m \in [D -> Entries(D)] /\ map.h.num_of_buckets = n /\ DOMAIN map.m = D
    BY MapParts
<1>2. hash \in 0 .. n - 1
    <2>1. map.m[p].key \in Keys
        BY <1>1 DEF Entries
    <2> QED BY Zenon, <1>1, <2>1, HashType
<1>3. ch \in [0 .. n - 1 -> Seq(D)] /\ \A i \in 0 .. n - 1 : BucketIs(map.h, map.m, i, ch[i])
    BY Zenon DEF Chained
<1>4. c \in Seq(D) /\ BucketIs(map.h, map.m, hash, c) /\ ~In(p, c)
    <2> HIDE DEF hash
    <2> QED BY <1>2, <1>3
<1>5. hash = get_hash(map.h, map.m[p].key)
    OBVIOUS
<1> HIDE DEF hash
<1>6. LinkedInto(n, D, map, map2, hash, c, p)
    <2> HIDE DEF c
    <2> QED BY Zenon, <1>2, <1>4, <1>5, LinkedIsInto
<1> HIDE DEF map2
<1>7. /\ map2.h.num_of_buckets = map.h.num_of_buckets
      /\ map2.h.list_of_buckets[hash] = IF c = <<>> THEN p ELSE map.h.list_of_buckets[hash]
      /\ \A k \in 0 .. n - 1 : k # hash => map2.h.list_of_buckets[k] = map.h.list_of_buckets[k]
      /\ Joined(D, map.m, map2.m, LastOf(c), p)
    BY Zenon, <1>6 DEF LinkedInto
<1>8. NULL \notin D
    BY DEF Allocated, NULL
<1>9. BucketIs(map2.h, map2.m, hash, Append(c, p))
    <2> HIDE DEF c
    <2> DEFINE h == map.h
               m == map.m
               h2 == map2.h
               m2 == map2.m
    <2>1. /\ h2.num_of_buckets = h.num_of_buckets /\ DOMAIN m = D
          /\ h2.list_of_buckets[hash] = IF c = <<>> THEN p ELSE h.list_of_buckets[hash]
          /\ Joined(D, m, m2, LastOf(c), p) /\ BucketIs(h, m, hash, c)
          /\ get_hash(h, m[p].key) = hash
        BY Zenon, <1>1, <1>4, <1>5, <1>7
    <2> HIDE DEF h, m, h2, m2
    <2>2. BucketIs(h2, m2, hash, Append(c, p))
        BY Zenon, <1>4, <1>8, <2>1, BucketLonger
    <2> QED BY Zenon, <2>2 DEF h2, m2
<1>10. ASSUME NEW i \in 0 .. n - 1, i # hash PROVE BucketIs(map2.h, map2.m, i, ch[i])
    <2> DEFINE d == ch[i]
               h == map.h
               m == map.m
               h2 == map2.h
               m2 == map2.m
    <2>1. d \in Seq(D) /\ BucketIs(h, m, i, d) /\ ~In(p, d)
        BY <1>3
    <2>2. ASSUME NEW j \in 1 .. Len(d)
          PROVE  m2[d[j]].next = m[d[j]].next /\ m2[d[j]].prev = m[d[j]].prev
        <3>1. d[j] \in D /\ d[j] # p
            BY <2>1 DEF In
        <3>2. d[j] # LastOf(c)
            <4>1. get_hash(h, m[d[j]].key) = i
                BY Zenon, <2>1 DEF BucketIs
            <4>2. CASE c = <<>>
                BY <1>8, <3>1, <4>2 DEF LastOf
            <4>3. CASE c # <<>>
                <5>1. Len(c) \in 1 .. Len(c) /\ LastOf(c) = c[Len(c)]
                    BY <1>4, <4>3 DEF LastOf
                <5> HIDE DEF c
                <5>2. get_hash(h, m[LastOf(c)].key) = hash
                    BY <1>4, <5>1 DEF BucketIs
                <5> QED BY <1>10, <4>1, <5>2
            <4> QED BY <4>2, <4>3
        <3> QED BY <1>7, <3>1, <3>2 DEF Joined
    <2>3. SameData(m, m2) /\ DOMAIN m = D
        BY Zenon, <1>1, <1>7 DEF Joined
    <2>4. h2.num_of_buckets = h.num_of_buckets /\ h2.list_of_buckets[i] = h.list_of_buckets[i]
        BY Zenon, <1>7, <1>10
    <2> HIDE DEF d, h, m, h2, m2
    <2>5. BucketIs(h2, m2, i, d)
        BY Zenon, <2>1, <2>2, <2>3, <2>4, BucketKept
    <2> QED BY Zenon, <2>5 DEF d, h2, m2
<1>11. ch2 \in [0 .. n - 1 -> Seq(D)] /\ ch2[hash] = Append(c, p)
       /\ \A i \in 0 .. n - 1 : i # hash => ch2[i] = ch[i]
    <2>1. Append(c, p) \in Seq(D)
        BY <1>4
    <2> QED BY <1>2, <1>3, <2>1 DEF Put
<1> HIDE DEF ch2, c
<1>12. \A i \in 0 .. n - 1 : BucketIs(map2.h, map2.m, i, ch2[i])
    <2> SUFFICES ASSUME NEW i \in 0 .. n - 1 PROVE BucketIs(map2.h, map2.m, i, ch2[i])
        OBVIOUS
    <2>1. CASE i = hash
        BY <1>9, <1>11, <2>1
    <2>2. CASE i # hash
        BY <1>10, <1>11, <2>2
    <2> QED BY <2>1, <2>2
<1>13. Chained(map2.h, map2.m, n, D, ch2)
    BY Zenon, <1>11, <1>12 DEF Chained
<1> QED BY Zenon, <1>13 DEF ch2, hash, map2
-----------------------------------------------------------------------------
(* Linking the entries of a chain into other buckets *)

\* The first j entries of a chain.
Start(s, j) == SubSeq(s, 1, j)

\* One by one they make up the chain.
LEMMA StartsGrow ==
    ASSUME NEW D, NEW s \in Seq(D)
    PROVE  /\ Len(s) \in Nat /\ Start(s, 0) = <<>> /\ Start(s, Len(s)) = s
           /\ \A j \in 1 .. Len(s) : /\ s[j] \in D /\ Start(s, j - 1) \in Seq(D)
                                     /\ Start(s, j) = Append(Start(s, j - 1), s[j])
<1>1. Len(s) \in Nat /\ Start(s, 0) = <<>>
    BY DEF Start
<1>2. Start(s, Len(s)) = s
    BY DEF Start
<1>3. ASSUME NEW j \in 1 .. Len(s)
      PROVE  /\ s[j] \in D /\ Start(s, j - 1) \in Seq(D)
             /\ Start(s, j) = Append(Start(s, j - 1), s[j])
    <2>1. s[j] \in D /\ Start(s, j - 1) \in Seq(D) /\ Start(s, j) \in Seq(D)
        BY DEF Start
    <2>2. /\ Len(Start(s, j)) = j /\ Len(Start(s, j - 1)) = j - 1
          /\ \A i \in 1 .. j : Start(s, j)[i] = s[i]
          /\ \A i \in 1 .. j - 1 : Start(s, j - 1)[i] = s[i]
        BY DEF Start
    <2> QED BY <2>1, <2>2
<1> QED BY <1>1, <1>2, <1>3

\* What is among the first entries of a chain is in the chain before its next one.
LEMMA StartBefore ==
    ASSUME NEW D, NEW s \in Seq(D), Distinct(s), NEW j \in 1 .. Len(s)
    PROVE  ~In(s[j], Start(s, j - 1))
<1>1. /\ Len(Start(s, j - 1)) = j - 1
      /\ \A i \in 1 .. j - 1 : Start(s, j - 1)[i] = s[i]
    BY DEF Start
<1>2. ASSUME NEW i \in 1 .. j - 1, s[i] = s[j] PROVE FALSE
    <2>1. i \in 1 .. Len(s) /\ i # j
        OBVIOUS
    <2> QED BY <1>2, <2>1 DEF Distinct
<1> QED BY <1>1, <1>2 DEF In

\* What is in a chain with an entry more.
LEMMA InAppend ==
    ASSUME NEW D, NEW c \in Seq(D), NEW p \in D, NEW q
    PROVE  In(q, Append(c, p)) <=> In(q, c) \/ q = p
<1> DEFINE a == Append(c, p)
           n == Len(c)
<1>1. /\ n \in Nat /\ Len(a) = n + 1 /\ a[n + 1] = p /\ \A j \in 1 .. n : a[j] = c[j]
    BY Appended
<1> HIDE DEF a, n
<1>2. /\ \A j \in 1 .. n + 1 : j = n + 1 \/ j \in 1 .. n
      /\ n + 1 \in 1 .. n + 1 /\ \A j \in 1 .. n : j \in 1 .. n + 1
    BY <1>1
<1>3. In(q, a) <=> In(q, c) \/ q = p
    BY <1>1, <1>2 DEF In, n
<1> QED BY <1>3 DEF a

\* The entries of a key in its chain of ch.
OfKey(h, m, ch, key) == Matching(m, key)[ch[get_hash(h, key)]]

\* No entry of t has the key.
NoneOf(m, t, key) == \A k \in 1 .. Len(t) : m[t[k]].key # key

\* The chains ch2 hold what is in ch or in t. What t has of a key is in the order of t
\* behind nothing; what t does not have is as it was.
Filed(n, D, h, m, ch, t, ch2) ==
    /\ \A i \in 0 .. n - 1, q \in D : In(q, ch2[i]) => In(q, ch[i]) \/ In(q, t)
    /\ \A i \in 0 .. n - 1, q \in D : In(q, ch[i]) => In(q, ch2[i])
    /\ \A q \in D : In(q, t) => \E i \in 0 .. n - 1 : In(q, ch2[i])
    /\ \A key \in Keys :
          /\ OfKey(h, m, ch, key) = <<>> => OfKey(h, m, ch2, key) = Matching(m, key)[t]
          /\ NoneOf(m, t, key) => OfKey(h, m, ch2, key) = OfKey(h, m, ch, key)

\* What a has of the key more than c, with p behind it.
GrowsBy(m, key, c, a, p) ==
    Matching(m, key)[a] = IF m[p].key = key THEN Append(Matching(m, key)[c], p)
                          ELSE Matching(m, key)[c]

\* ... as in MatchingAppend.
LEMMA MatchingGrows ==
    ASSUME NEW m, NEW D, DOMAIN m = D, NEW key, NEW c \in Seq(D), NEW p \in D
    PROVE  GrowsBy(m, key, c, Append(c, p), p)
BY MatchingAppend DEF GrowsBy

\* At first nothing is filed.
LEMMA NothingFiled ==
    ASSUME NEW n, NEW D, NEW h, NEW m, DOMAIN m = D, NEW ch
    PROVE  Filed(n, D, h, m, ch, <<>>, ch)
<1>1. \A q : ~In(q, <<>>)
    BY DEF In
<1>2. ASSUME NEW key \in Keys PROVE Matching(m, key)[<<>>] = <<>>
    <2>1. <<>> \in Seq(D)
        OBVIOUS
    <2>2. PICK f : Matched(m, key, D, <<>>, f)
        BY <2>1, MatchingIs
    <2>3. Len(<<>>) = 0
        OBVIOUS
    <2> QED BY <2>2, <2>3 DEF Matched, IsAmong
<1> QED BY Zenon, <1>1, <1>2 DEF Filed

\* ch2 is ch with the entry p behind those of its bucket and of its key.
IsPut(n, h, m, ch, p, ch2) ==
    /\ \A i \in 0 .. n - 1 : \A q :
          In(q, ch2[i]) <=> In(q, ch[i]) \/ (i = get_hash(h, m[p].key) /\ q = p)
    /\ \A key \in Keys :
          OfKey(h, m, ch2, key)
            = IF m[p].key = key THEN Append(OfKey(h, m, ch, key), p) ELSE OfKey(h, m, ch, key)

\* Put does it.
LEMMA PutIs ==
    ASSUME NEW n \in Nat \ {0}, NEW D, NEW h, h.num_of_buckets = n,
           NEW m \in [D -> Entries(D)], NEW ch \in [0 .. n - 1 -> Seq(D)], NEW p \in D
    PROVE  IsPut(n, h, m, ch, p, Put(ch, get_hash(h, m[p].key), p))
<1> DEFINE hash == get_hash(h, m[p].key)
           ch2 == Put(ch, hash, p)
<1>1. m[p].key \in Keys /\ DOMAIN m = D
    BY DEF Entries
<1>2. hash \in 0 .. n - 1
    BY Zenon, <1>1, HashType
<1>3. hash = get_hash(h, m[p].key)
    OBVIOUS
<1> HIDE DEF hash
<1>4. ch2[hash] = Append(ch[hash], p) /\ \A i \in 0 .. n - 1 : i # hash => ch2[i] = ch[i]
    BY <1>2 DEF Put
<1> HIDE DEF ch2
<1>5. \A i \in 0 .. n - 1 : ch[i] \in Seq(D)
    OBVIOUS
<1>6. ASSUME NEW i \in 0 .. n - 1, NEW q
      PROVE  In(q, ch2[i]) <=> In(q, ch[i]) \/ (i = hash /\ q = p)
    <2>1. CASE i = hash
        <3>1. In(q, Append(ch[hash], p)) <=> In(q, ch[hash]) \/ q = p
            BY Zenon, <1>2, <1>5, InAppend
        <3> QED BY <1>4, <2>1, <3>1
    <2>2. CASE i # hash
        BY <1>4, <2>2
    <2> QED BY <2>1, <2>2
<1>7. ASSUME NEW key \in Keys
      PROVE  OfKey(h, m, ch2, key)
               = IF m[p].key = key THEN Append(OfKey(h, m, ch, key), p) ELSE OfKey(h, m, ch, key)
    <2> DEFINE b == get_hash(h, key)
               c == ch[b]
    <2>1. b \in 0 .. n - 1
        BY Zenon, HashType
    <2>2. c \in Seq(D)
        BY <2>1
    <2>3. m[p].key = key => b = hash
        BY <1>3
    <2> HIDE DEF b
    <2>4. OfKey(h, m, ch2, key) = Matching(m, key)[ch2[b]]
          /\ OfKey(h, m, ch, key) = Matching(m, key)[c]
        BY Zenon DEF OfKey, b
    <2> HIDE DEF c
    <2>5. Matching(m, key)[Append(c, p)]
            = IF m[p].key = key THEN Append(Matching(m, key)[c], p) ELSE Matching(m, key)[c]
        <3>1. GrowsBy(m, key, c, Append(c, p), p)
            BY Zenon, <1>1, <2>2, MatchingGrows
        <3> QED BY Zenon, <3>1 DEF GrowsBy
    <2>6. CASE b = hash
        <3>1. ch2[b] = Append(c, p)
            BY <1>4, <2>6 DEF c
        <3> QED BY <2>4, <2>5, <3>1
    <2>7. CASE b # hash
        <3>1. ch2[b] = c /\ m[p].key # key
            BY <1>4, <2>1, <2>3, <2>7 DEF c
        <3> QED BY <2>4, <3>1
    <2> QED BY <2>6, <2>7
<1>8. IsPut(n, h, m, ch, p, ch2)
    BY Zenon, <1>3, <1>6, <1>7 DEF IsPut
<1> QED BY Zenon, <1>8 DEF ch2, hash

\* One entry more.
LEMMA FiledStep ==
    ASSUME NEW n \in Nat \ {0}, NEW D, NEW h, h.num_of_buckets = n,
           NEW m \in [D -> Entries(D)], NEW ch, NEW t \in Seq(D),
           NEW ch2 \in [0 .. n - 1 -> Seq(D)], Filed(n, D, h, m, ch, t, ch2), NEW p \in D
    PROVE  Filed(n, D, h, m, ch, Append(t, p), Put(ch2, get_hash(h, m[p].key), p))
<1> DEFINE hash == get_hash(h, m[p].key)
           ch3 == Put(ch2, hash, p)
           u == Append(t, p)
<1>1. m[p].key \in Keys /\ DOMAIN m = D
    BY DEF Entries
<1>2. hash \in 0 .. n - 1
    BY Zenon, <1>1, HashType
<1>3. IsPut(n, h, m, ch2, p, ch3)
    BY Zenon, PutIs
<1>4. hash = get_hash(h, m[p].key)
    OBVIOUS
<1> HIDE DEF hash, ch3
<1>5. ASSUME NEW q PROVE In(q, u) <=> In(q, t) \/ q = p
    BY Zenon, InAppend
<1>6. \A key \in Keys : Matching(m, key)[u]
        = IF m[p].key = key THEN Append(Matching(m, key)[t], p) ELSE Matching(m, key)[t]
    <2> SUFFICES ASSUME NEW key \in Keys
                 PROVE  Matching(m, key)[u]
                          = IF m[p].key = key THEN Append(Matching(m, key)[t], p)
                            ELSE Matching(m, key)[t]
        OBVIOUS
    <2>1. GrowsBy(m, key, t, u, p)
        BY Zenon, <1>1, MatchingGrows
    <2> HIDE DEF u
    <2> QED BY Zenon, <2>1 DEF GrowsBy
<1>7. \A i \in 0 .. n - 1 : \A q : In(q, ch3[i]) <=> In(q, ch2[i]) \/ (i = hash /\ q = p)
    BY Zenon, <1>3, <1>4 DEF IsPut
<1>8. \A key \in Keys :
         OfKey(h, m, ch3, key)
           = IF m[p].key = key THEN Append(OfKey(h, m, ch2, key), p) ELSE OfKey(h, m, ch2, key)
    BY Zenon, <1>3 DEF IsPut
<1>9. ASSUME NEW key \in Keys, NoneOf(m, u, key) PROVE NoneOf(m, t, key) /\ m[p].key # key
    <2>1. /\ Len(t) \in Nat /\ Len(u) = Len(t) + 1 /\ u[Len(t) + 1] = p
          /\ \A j \in 1 .. Len(t) : u[j] = t[j]
        BY Appended
    <2> HIDE DEF u
    <2>2. Len(t) + 1 \in 1 .. Len(u) /\ \A j \in 1 .. Len(t) : j \in 1 .. Len(u)
        BY <2>1
    <2> QED BY <1>9, <2>1, <2>2 DEF NoneOf
<1> HIDE DEF u
<1>10. /\ \A i \in 0 .. n - 1, q \in D : In(q, ch2[i]) => In(q, ch[i]) \/ In(q, t)
       /\ \A i \in 0 .. n - 1, q \in D : In(q, ch[i]) => In(q, ch2[i])
       /\ \A q \in D : In(q, t) => \E i \in 0 .. n - 1 : In(q, ch2[i])
       /\ \A key \in Keys :
             /\ OfKey(h, m, ch, key) = <<>> => OfKey(h, m, ch2, key) = Matching(m, key)[t]
             /\ NoneOf(m, t, key) => OfKey(h, m, ch2, key) = OfKey(h, m, ch, key)
    BY Zenon DEF Filed
<1>11. \A i \in 0 .. n - 1, q \in D : In(q, ch3[i]) => In(q, ch[i]) \/ In(q, u)
    BY Zenon, <1>5, <1>7, <1>10
<1>12. \A i \in 0 .. n - 1, q \in D : In(q, ch[i]) => In(q, ch3[i])
    BY Zenon, <1>7, <1>10
<1>13. \A q \in D : In(q, u) => \E i \in 0 .. n - 1 : In(q, ch3[i])
    BY Zenon, <1>2, <1>5, <1>7, <1>10
<1>14. ASSUME NEW key \in Keys
       PROVE  /\ OfKey(h, m, ch, key) = <<>> => OfKey(h, m, ch3, key) = Matching(m, key)[u]
              /\ NoneOf(m, u, key) => OfKey(h, m, ch3, key) = OfKey(h, m, ch, key)
    BY <1>6, <1>8, <1>9, <1>10
<1>15. Filed(n, D, h, m, ch, u, ch3)
    BY Zenon, <1>11, <1>12, <1>13, <1>14 DEF Filed
<1> QED BY Zenon, <1>15 DEF u, ch3, hash

\* map2 is map with the entries t linked into the chains ch, which gave ch2.
AllLinked(n, D, map, map2, ch, t, ch2) ==
    /\ map2 \in Maps(n, D) /\ Kept(map, map2)
    /\ Chained(map2.h, map2.m, n, D, ch2) /\ Filed(n, D, map.h, map.m, ch, t, ch2)

\* One entry more.
LEMMA AllLinkedStep ==
    ASSUME NEW n \in Nat \ {0}, NEW D, Allocated(D), NEW map \in Maps(n, D), NEW map2, NEW ch,
           NEW t \in Seq(D), NEW ch2, AllLinked(n, D, map, map2, ch, t, ch2),
           NEW p \in D, \A i \in 0 .. n - 1 : ~In(p, ch[i]), ~In(p, t)
    PROVE  \E ch3 : AllLinked(n, D, map, Linked(map2, p), ch, Append(t, p), ch3)
<1> DEFINE map3 == Linked(map2, p)
           hash == get_hash(map.h, map.m[p].key)
           ch3 == Put(ch2, hash, p)
           u == Append(t, p)
<1>1. /\ map2 \in Maps(n, D) /\ Kept(map, map2)
      /\ Chained(map2.h, map2.m, n, D, ch2) /\ Filed(n, D, map.h, map.m, ch, t, ch2)
    BY Zenon DEF AllLinked
<1>2. /\ map.m \in [D -> Entries(D)] /\ DOMAIN map.m = D /\ map.h.num_of_buckets = n
      /\ ch2 \in [0 .. n - 1 -> Seq(D)]
    BY Zenon, <1>1, MapParts DEF Chained
<1>3. hash = get_hash(map2.h, map2.m[p].key)
    <2>1. map2.m[p].key = map.m[p].key /\ map2.h.num_of_buckets = map.h.num_of_buckets
        BY <1>1, <1>2 DEF Kept, SameData
    <2>2. get_hash(map2.h, map.m[p].key) = get_hash(map.h, map.m[p].key)
        BY Zenon, <2>1, SameHash
    <2> QED BY <2>1, <2>2
<1>4. \A i \in 0 .. n - 1 : ~In(p, ch2[i])
    BY Zenon, <1>1 DEF Filed
<1>5. Chained(map3.h, map3.m, n, D, Put(ch2, get_hash(map2.h, map2.m[p].key), p))
    BY Zenon, <1>1, <1>4, LinkedChains
<1>6. map3 \in Maps(n, D) /\ Kept(map2, map3)
    BY Zenon, <1>1, LinkedType
<1> HIDE DEF map3
<1>7. Kept(map, map3)
    <2>1. SameData(map.m, map3.m)
        BY Zenon, <1>1, <1>6, SameDataTwice DEF Kept
    <2> QED BY <1>1, <1>6, <2>1 DEF Kept
<1>8. Filed(n, D, map.h, map.m, ch, u, ch3)
    BY Zenon, <1>1, <1>2, FiledStep
<1> HIDE DEF u, hash
<1>9. Chained(map3.h, map3.m, n, D, ch3)
    BY Zenon, <1>3, <1>5
<1> HIDE DEF ch3
<1>10. AllLinked(n, D, map, map3, ch, u, ch3)
    BY Zenon, <1>6, <1>7, <1>8, <1>9 DEF AllLinked
<1> QED BY Zenon, <1>10 DEF map3, u

\* The maps in which 0, 1, 2 ... entries of s are linked.
LinkedSteps(n, D, map, s, f) ==
    /\ f \in [0 .. Len(s) -> Maps(n, D)] /\ f[0] = map
    /\ \A j \in 1 .. Len(s) : f[j] = Linked(f[j - 1], s[j])

\* LinkedAll goes through them.
LEMMA LinkedAllIs ==
    ASSUME NEW n \in Nat \ {0}, NEW D, Allocated(D), NEW map \in Maps(n, D), NEW s \in Seq(D)
    PROVE  \E f : LinkedSteps(n, D, map, s, f) /\ LinkedAll(map, s) = f[Len(s)]
<1> DEFINE k == Len(s)
           S == Maps(n, D)
           g == [jx \in (1 .. k) \X S |-> Linked(jx[2], s[jx[1]])]
           T(a) == [j \in 0 .. Len(s) |-> IF j = 0 THEN map ELSE Linked(a[j - 1], s[j])]
           A == CHOOSE a : a = T(a)
<1>1. k \in Nat /\ \A j \in 1 .. k : s[j] \in D
    OBVIOUS
<1>2. ASSUME NEW j \in 1 .. k, NEW x \in S
      PROVE  g[<<j, x>>] = Linked(x, s[j]) /\ g[<<j, x>>] \in S
    <2>1. g[<<j, x>>] = Linked(x, s[j])
        OBVIOUS
    <2>2. Linked(x, s[j]) \in S
        BY <1>1, LinkedType
    <2> HIDE DEF g
    <2> QED BY <2>1, <2>2
<1>3. g \in [(1 .. k) \X S -> S]
    <2>1. g = [jx \in (1 .. k) \X S |-> g[jx]]
        OBVIOUS
    <2>2. ASSUME NEW jx \in (1 .. k) \X S PROVE g[jx] \in S
        <3>1. PICK j \in 1 .. k, x \in S : jx = <<j, x>>
            OBVIOUS
        <3> HIDE DEF g, S
        <3> QED BY <1>2, <3>1
    <2> HIDE DEF g, S
    <2> QED BY <2>1, <2>2
<1> HIDE DEF g
<1>4. PICK f : RecursionTo(S, map, g, k, f)
    <2> HIDE DEF S, k
    <2> QED BY <1>1, <1>3, RecursionUpTo DEF S
<1>5. f \in [0 .. k -> S] /\ f[0] = map /\ \A j \in 1 .. k : f[j] = g[<<j, f[j - 1]>>]
    BY <1>4 DEF RecursionTo
<1>6. ASSUME NEW j \in 1 .. k PROVE f[j] = Linked(f[j - 1], s[j])
    <2>1. f[j - 1] \in S
        BY <1>1, <1>5
    <2> HIDE DEF S, k
    <2> QED BY <1>2, <1>5, <2>1
<1>7. LinkedSteps(n, D, map, s, f)
    BY <1>5, <1>6 DEF LinkedSteps
<1>8. f = T(f)
    <2>1. ASSUME NEW j \in 0 .. k PROVE f[j] = T(f)[j]
        <3>1. CASE j = 0
            BY <1>5, <3>1
        <3>2. CASE j \in 1 .. k
            BY <1>6, <3>2
        <3> QED BY <1>1, <3>1, <3>2
    <2>2. f = [j \in 0 .. k |-> f[j]] /\ T(f) = [j \in 0 .. k |-> T(f)[j]]
        BY <1>5
    <2> HIDE DEF T
    <2> QED BY <2>1, <2>2
<1>9. A = T(A)
    <2> HIDE DEF T
    <2> QED BY <1>8
<1> HIDE DEF A
<1>10. A[0] = map
    BY <1>1, <1>9
<1>11. ASSUME NEW j \in 1 .. k PROVE A[j] = Linked(A[j - 1], s[j])
    <2>1. j \in 0 .. Len(s) /\ j # 0
        BY <1>1
    <2>2. T(A)[j] = Linked(A[j - 1], s[j])
        BY <2>1
    <2> HIDE DEF T
    <2> QED BY <1>9, <2>2
<1>12. \A j \in 0 .. k : j \in {i \in 0 .. k : A[i] = f[i]}
    <2> DEFINE K == {i \in 0 .. k : A[i] = f[i]}
    <2>1. 0 \in K
        BY <1>1, <1>5, <1>10
    <2>2. ASSUME NEW j \in 1 .. k, j - 1 \in K PROVE j \in K
        <3>1. A[j - 1] = f[j - 1]
            BY <2>2
        <3> HIDE DEF K
        <3>2. A[j] = f[j]
            BY <1>6, <1>11, <3>1
        <3> QED BY <1>1, <3>2 DEF K
    <2> HIDE DEF K, k
    <2> QED BY <1>1, <2>1, <2>2, UpToInduction DEF K
<1>13. A[k] = f[k]
    BY <1>1, <1>12
<1>14. LinkedAll(map, s) = A[k]
    BY DEF LinkedAll, A
<1> QED BY <1>7, <1>13, <1>14

\* Entries that are in no chain and different are all linked.
LEMMA LinkedAllChains ==
    ASSUME NEW n \in Nat \ {0}, NEW D, Allocated(D), NEW map \in Maps(n, D),
           NEW ch, Chained(map.h, map.m, n, D, ch), NEW s \in Seq(D), Distinct(s),
           \A i \in 0 .. n - 1, q \in D : In(q, s) => ~In(q, ch[i])
    PROVE  \E ch2 : AllLinked(n, D, map, LinkedAll(map, s), ch, s, ch2)
<1>1. PICK f : LinkedSteps(n, D, map, s, f) /\ LinkedAll(map, s) = f[Len(s)]
    BY LinkedAllIs
<1>2. f[0] = map /\ \A j \in 1 .. Len(s) : f[j] = Linked(f[j - 1], s[j])
    BY <1>1 DEF LinkedSteps
<1>3. /\ Len(s) \in Nat /\ Start(s, 0) = <<>> /\ Start(s, Len(s)) = s
      /\ \A j \in 1 .. Len(s) : /\ s[j] \in D /\ Start(s, j - 1) \in Seq(D)
                                /\ Start(s, j) = Append(Start(s, j - 1), s[j])
    BY StartsGrow
<1> DEFINE K == {j \in 0 .. Len(s) : \E ch2 : AllLinked(n, D, map, f[j], ch, Start(s, j), ch2)}
<1>4. 0 \in K
    <2>1. Filed(n, D, map.h, map.m, ch, <<>>, ch)
        <3>1. DOMAIN map.m = D
            BY Zenon, MapParts
        <3> QED BY Zenon, <3>1, NothingFiled
    <2>2. Kept(map, map)
        BY DEF Kept, SameData
    <2>3. AllLinked(n, D, map, map, ch, <<>>, ch)
        BY Zenon, <2>1, <2>2 DEF AllLinked
    <2>4. AllLinked(n, D, map, f[0], ch, Start(s, 0), ch)
        BY <1>2, <1>3, <2>3
    <2> QED BY <1>3, <2>4
<1>5. ASSUME NEW j \in 1 .. Len(s), j - 1 \in K PROVE j \in K
    <2> DEFINE t == Start(s, j - 1)
               p == s[j]
               map2 == f[j - 1]
    <2>1. PICK ch2 : AllLinked(n, D, map, map2, ch, t, ch2)
        BY <1>5
    <2>2. /\ t \in Seq(D) /\ p \in D /\ ~In(p, t)
          /\ Start(s, j) = Append(t, p) /\ f[j] = Linked(map2, p)
        BY Zenon, <1>2, <1>3, StartBefore
    <2>3. \A i \in 0 .. n - 1 : ~In(p, ch[i])
        <3>1. In(p, s)
            BY Zenon DEF In
        <3> QED BY Zenon, <2>2, <3>1
    <2> HIDE DEF t, p, map2
    <2>4. \E ch3 : AllLinked(n, D, map, Linked(map2, p), ch, Append(t, p), ch3)
        BY Zenon, <2>1, <2>2, <2>3, AllLinkedStep
    <2>5. \E ch3 : AllLinked(n, D, map, f[j], ch, Start(s, j), ch3)
        BY Zenon, <2>2, <2>4
    <2>6. j \in 0 .. Len(s)
        BY <1>3
    <2> QED BY Zenon, <2>5, <2>6
<1> HIDE DEF K
<1>6. \A j \in 0 .. Len(s) : j \in K
    <2> DEFINE k == Len(s)
    <2>1. k \in Nat /\ \A j \in 1 .. k : j - 1 \in K => j \in K
        BY <1>3, <1>5
    <2> HIDE DEF k
    <2>2. \A j \in 0 .. k : j \in K
        BY <1>4, <2>1, UpToInduction
    <2> QED BY <2>2 DEF k
<1>7. Len(s) \in K
    BY <1>3, <1>6
<1>8. PICK ch2 : AllLinked(n, D, map, f[Len(s)], ch, Start(s, Len(s)), ch2)
    BY Zenon, <1>7 DEF K
<1> QED BY Zenon, <1>1, <1>3, <1>8
-----------------------------------------------------------------------------
(* resize_hashmap *)

\* All entries are in the chains ch.
Covers(n, D, ch) == \A q \in D : \E i \in 0 .. n - 1 : In(q, ch[i])

\* The first i of the chains old of map have been linked into the chains ch of x.
Moved(n2, D, map, x, old, i, ch) ==
    /\ x \in Maps(n2, D) /\ SameData(map.m, x.m) /\ x.h.num_of_entries = map.h.num_of_entries
    /\ Chained(x.h, x.m, n2, D, ch)
    /\ \A k \in 0 .. n2 - 1, q \in D : In(q, ch[k]) => \E b \in 0 .. i - 1 : In(q, old[b])
    /\ \A b \in 0 .. i - 1, q \in D : In(q, old[b]) => \E k \in 0 .. n2 - 1 : In(q, ch[k])
    /\ \A key \in Keys : OfKey(x.h, map.m, ch, key)
                           = IF get_hash(map.h, key) < i THEN OfKey(map.h, map.m, old, key) ELSE <<>>

\* What an entry has for a hash is the number of its bucket.
LEMMA InBucket ==
    ASSUME NEW h, NEW m, NEW i, NEW c, BucketIs(h, m, i, c), NEW q, In(q, c)
    PROVE  get_hash(h, m[q].key) = i
<1>1. PICK j \in 1 .. Len(c) : c[j] = q
    BY Zenon DEF In
<1>2. get_hash(h, m[c[j]].key) = i
    BY Zenon DEF BucketIs
<1> QED BY <1>1, <1>2

\* The same entries have the key.
SameOfKey(h, m, m2, ch, key) == OfKey(h, m2, ch, key) = OfKey(h, m, ch, key)

\* With the same data the same entries have a key.
LEMMA OfKeySame ==
    ASSUME NEW n \in Nat \ {0}, NEW D, NEW m, DOMAIN m = D, NEW m2, SameData(m, m2),
           NEW h, h.num_of_buckets = n, NEW ch \in [0 .. n - 1 -> Seq(D)], NEW key \in Keys
    PROVE  SameOfKey(h, m, m2, ch, key)
<1> DEFINE c == ch[get_hash(h, key)]
<1>1. get_hash(h, key) \in 0 .. n - 1
    BY Zenon, HashType
<1>2. c \in Seq(D)
    BY <1>1
<1>3. DOMAIN m2 = D /\ \A q \in D : m2[q].key = m[q].key
    BY DEF SameData
<1> HIDE DEF c
<1>4. \A j \in 1 .. Len(c) : m2[c[j]].key = m[c[j]].key
    BY <1>2, <1>3
<1>5. SameMatching(m, m2, key, c)
    BY Zenon, <1>2, <1>3, <1>4, MatchingSame
<1> QED BY Zenon, <1>5 DEF SameMatching, SameOfKey, OfKey, c

\* The next chain.
LEMMA MovedStep ==
    ASSUME NEW n \in Nat \ {0}, NEW n2 \in Nat \ {0}, NEW D, Allocated(D), NEW map \in Maps(n, D),
           NEW old, Chained(map.h, map.m, n, D, old), NEW i \in 1 .. n, NEW x, NEW ch,
           Moved(n2, D, map, x, old, i - 1, ch)
    PROVE  \E ch2 : Moved(n2, D, map, LinkedAll(x, old[i - 1]), old, i, ch2)
<1> DEFINE s == old[i - 1]
           y == LinkedAll(x, s)
<1>1. /\ x \in Maps(n2, D) /\ SameData(map.m, x.m) /\ x.h.num_of_entries = map.h.num_of_entries
      /\ Chained(x.h, x.m, n2, D, ch)
      /\ \A k \in 0 .. n2 - 1, q \in D : In(q, ch[k]) => \E b \in 0 .. (i - 1) - 1 : In(q, old[b])
      /\ \A b \in 0 .. (i - 1) - 1, q \in D : In(q, old[b]) => \E k \in 0 .. n2 - 1 : In(q, ch[k])
      /\ \A key \in Keys : OfKey(x.h, map.m, ch, key)
           = IF get_hash(map.h, key) < i - 1 THEN OfKey(map.h, map.m, old, key) ELSE <<>>
    BY Zenon DEF Moved
<1>2. /\ i - 1 \in 0 .. n - 1 /\ i - 1 \in 0 .. i - 1
      /\ \A b \in 0 .. (i - 1) - 1 : b \in 0 .. n - 1 /\ b # i - 1 /\ b \in 0 .. i - 1
      /\ \A b \in 0 .. i - 1 : b = i - 1 \/ b \in 0 .. (i - 1) - 1
    OBVIOUS
<1>3. old \in [0 .. n - 1 -> Seq(D)] /\ \A b \in 0 .. n - 1 : BucketIs(map.h, map.m, b, old[b])
    BY Zenon DEF Chained
<1>4. s \in Seq(D) /\ BucketIs(map.h, map.m, i - 1, s) /\ Distinct(s)
    <2>1. s \in Seq(D)
        BY <1>2, <1>3
    <2>2. BucketIs(map.h, map.m, i - 1, s)
        BY Zenon, <1>2, <1>3
    <2> QED BY Zenon, <2>1, <2>2 DEF BucketIs
<1>5. /\ DOMAIN map.m = D /\ DOMAIN x.m = D /\ map.h.num_of_buckets = n
      /\ x.h.num_of_buckets = n2 /\ ch \in [0 .. n2 - 1 -> Seq(D)]
    BY Zenon, <1>1, MapParts DEF Chained
<1>6. \A k \in 0 .. n2 - 1, q \in D : In(q, s) => ~In(q, ch[k])
    <2> SUFFICES ASSUME NEW k \in 0 .. n2 - 1, NEW q \in D, In(q, s), In(q, ch[k]) PROVE FALSE
        OBVIOUS
    <2>1. PICK b \in 0 .. (i - 1) - 1 : In(q, old[b])
        BY Zenon, <1>1
    <2>2. get_hash(map.h, map.m[q].key) = i - 1
        BY Zenon, <1>4, InBucket
    <2>3. get_hash(map.h, map.m[q].key) = b /\ b # i - 1
        BY Zenon, <1>2, <1>3, <2>1, InBucket
    <2> QED BY Zenon, <2>2, <2>3
<1> HIDE DEF s
<1>7. PICK ch2 : AllLinked(n2, D, x, y, ch, s, ch2)
    BY Zenon, <1>1, <1>4, <1>6, LinkedAllChains
<1>8. /\ y \in Maps(n2, D) /\ Kept(x, y)
      /\ Chained(y.h, y.m, n2, D, ch2) /\ Filed(n2, D, x.h, x.m, ch, s, ch2)
    BY Zenon, <1>7 DEF AllLinked
<1> HIDE DEF y
<1>9. SameData(map.m, y.m) /\ y.h.num_of_entries = map.h.num_of_entries
      /\ y.h.num_of_buckets = x.h.num_of_buckets
    <2>1. SameData(map.m, y.m)
        BY Zenon, <1>1, <1>8, SameDataTwice DEF Kept
    <2> QED BY <1>1, <1>8, <2>1 DEF Kept
<1>10. \A k \in 0 .. n2 - 1, q \in D : In(q, ch2[k]) => \E b \in 0 .. i - 1 : In(q, old[b])
    <2> SUFFICES ASSUME NEW k \in 0 .. n2 - 1, NEW q \in D, In(q, ch2[k])
                 PROVE  \E b \in 0 .. i - 1 : In(q, old[b])
        OBVIOUS
    <2>1. In(q, ch[k]) \/ In(q, s)
        BY Zenon, <1>8 DEF Filed
    <2>2. CASE In(q, ch[k])
        BY Zenon, <1>1, <1>2, <2>2
    <2>3. CASE In(q, s)
        BY Zenon, <1>2, <2>3 DEF s
    <2> QED BY Zenon, <2>1, <2>2, <2>3
<1>11. \A b \in 0 .. i - 1, q \in D : In(q, old[b]) => \E k \in 0 .. n2 - 1 : In(q, ch2[k])
    <2> SUFFICES ASSUME NEW b \in 0 .. i - 1, NEW q \in D, In(q, old[b])
                 PROVE  \E k \in 0 .. n2 - 1 : In(q, ch2[k])
        OBVIOUS
    <2>1. CASE b = i - 1
        <3>1. In(q, s)
            BY <2>1 DEF s
        <3> QED BY Zenon, <1>8, <3>1 DEF Filed
    <2>2. CASE b \in 0 .. (i - 1) - 1
        <3>1. PICK k \in 0 .. n2 - 1 : In(q, ch[k])
            BY Zenon, <1>1, <2>2
        <3>2. In(q, ch2[k])
            BY Zenon, <1>8, <3>1 DEF Filed
        <3> QED BY Zenon, <3>2
    <2> QED BY Zenon, <1>2, <2>1, <2>2
<1>12. ASSUME NEW key \in Keys
       PROVE  OfKey(y.h, map.m, ch2, key)
                = IF get_hash(map.h, key) < i THEN OfKey(map.h, map.m, old, key) ELSE <<>>
    <2> DEFINE b == get_hash(map.h, key)
               before == OfKey(map.h, map.m, old, key)
               now == OfKey(y.h, map.m, ch2, key)
    <2>1. b \in 0 .. n - 1
        BY Zenon, <1>5, HashType
    <2>2. ch2 \in [0 .. n2 - 1 -> Seq(D)]
        BY Zenon, <1>8 DEF Chained
    <2>3. now = OfKey(x.h, x.m, ch2, key)
        <3>1. OfKey(x.h, x.m, ch2, key) = OfKey(x.h, map.m, ch2, key)
            <4>1. SameOfKey(x.h, map.m, x.m, ch2, key)
                BY Zenon, <1>1, <1>5, <2>2, OfKeySame
            <4> QED BY Zenon, <4>1 DEF SameOfKey
        <3>2. get_hash(y.h, key) = get_hash(x.h, key)
            BY Zenon, <1>9, SameHash
        <3> QED BY <3>1, <3>2 DEF OfKey
    <2>4. OfKey(x.h, x.m, ch, key) = OfKey(x.h, map.m, ch, key)
        <3>1. SameOfKey(x.h, map.m, x.m, ch, key)
            BY Zenon, <1>1, <1>5, OfKeySame
        <3> QED BY Zenon, <3>1 DEF SameOfKey
    <2>5. Matching(x.m, key)[s] = Matching(map.m, key)[s]
        <3>1. \A q \in D : x.m[q].key = map.m[q].key
            BY <1>1, <1>5 DEF SameData
        <3>2. \A j \in 1 .. Len(s) : x.m[s[j]].key = map.m[s[j]].key
            BY <1>4, <3>1
        <3>3. SameMatching(map.m, x.m, key, s)
            BY Zenon, <1>4, <1>5, <3>2, MatchingSame
        <3> QED BY Zenon, <3>3 DEF SameMatching
    <2>6. OfKey(x.h, map.m, ch, key) = IF b < i - 1 THEN before ELSE <<>>
        BY Zenon, <1>1
    <2>7. CASE b = i - 1
        <3>1. OfKey(x.h, x.m, ch, key) = <<>>
            BY <2>4, <2>6, <2>7
        <3>2. OfKey(x.h, x.m, ch2, key) = Matching(x.m, key)[s]
            BY Zenon, <1>8, <3>1 DEF Filed
        <3>3. before = Matching(map.m, key)[s]
            BY <2>7 DEF OfKey, s
        <3>4. now = before
            <4> HIDE DEF now, before
            <4> QED BY Zenon, <2>3, <2>5, <3>2, <3>3
        <3>5. b < i
            BY <2>7
        <3> HIDE DEF now, before, b
        <3> QED BY Zenon, <3>4, <3>5 DEF now, before, b
    <2>8. CASE b # i - 1
        <3>1. NoneOf(x.m, s, key)
            <4> SUFFICES ASSUME NEW k \in 1 .. Len(s), x.m[s[k]].key = key PROVE FALSE
                BY DEF NoneOf
            <4>1. s[k] \in D /\ In(s[k], s)
                BY <1>4 DEF In
            <4>2. map.m[s[k]].key = key
                BY <1>1, <1>5, <4>1 DEF SameData
            <4>3. get_hash(map.h, map.m[s[k]].key) = i - 1
                BY Zenon, <1>4, <4>1, InBucket
            <4> QED BY <2>8, <4>2, <4>3
        <3>2. OfKey(x.h, x.m, ch2, key) = OfKey(x.h, x.m, ch, key)
            BY Zenon, <1>8, <3>1 DEF Filed
        <3>3. b < i <=> b < i - 1
            <4> HIDE DEF b
            <4> QED BY <2>1, <2>8
        <3> HIDE DEF now, before, b
        <3>4. now = IF b < i THEN before ELSE <<>>
            BY <2>3, <2>4, <2>6, <3>2, <3>3
        <3> QED BY Zenon, <3>4 DEF now, before, b
    <2> QED BY <2>7, <2>8
<1>13. Moved(n2, D, map, y, old, i, ch2)
    BY Zenon, <1>8, <1>9, <1>10, <1>11, <1>12 DEF Moved
<1> QED BY Zenon, <1>13 DEF y, s

\* Walking along all chains gives the chains.
LEMMA ChainsAre ==
    ASSUME NEW n \in Nat \ {0}, NEW D, Allocated(D), NEW map \in Maps(n, D),
           NEW ch, Chained(map.h, map.m, n, D, ch)
    PROVE  AllChains(map.h, map.m) = ch
<1>1. ch \in [0 .. n - 1 -> Seq(D)] /\ \A i \in 0 .. n - 1 : BucketIs(map.h, map.m, i, ch[i])
    BY Zenon DEF Chained
<1>2. map.m \in [D -> Entries(D)] /\ map.h.num_of_buckets = n
    BY Zenon, MapParts
<1>3. ASSUME NEW i \in 0 .. n - 1 PROVE Chain(map.m, map.h.list_of_buckets[i]) = ch[i]
    <2> DEFINE c == ch[i]
    <2>1. c \in Seq(D)
        BY <1>1
    <2>2. map.h.list_of_buckets[i] = At(c, 1) /\ Forth(map.m, c) /\ Distinct(c)
        BY Zenon, <1>1 DEF BucketIs
    <2> HIDE DEF c
    <2>3. Chain(map.m, At(c, 1)) = c
        BY Zenon, <1>2, <2>1, <2>2, ChainIs
    <2> QED BY <2>2, <2>3 DEF c
<1>4. AllChains(map.h, map.m) = [i \in 0 .. n - 1 |-> Chain(map.m, map.h.list_of_buckets[i])]
    BY <1>2 DEF AllChains
<1>5. ch = [i \in 0 .. n - 1 |-> ch[i]]
    BY <1>1
<1> QED BY <1>3, <1>4, <1>5

\* h2 has n2 empty buckets and counts as many entries as h.
EmptyBuckets(n2, D, h, h2) ==
    /\ h2 \in Structs(n2, D) /\ h2.num_of_entries = h.num_of_entries
    /\ \A i \in 0 .. n2 - 1 : h2.list_of_buckets[i] = NULL

\* Enlarged has them.
LEMMA EnlargedIs ==
    ASSUME NEW n \in Nat \ {0}, NEW D, NEW h \in Structs(n, D)
    PROVE  EmptyBuckets(n * HASHMAP_RESIZE_FACTOR, D, h, Enlarged(h))
<1> DEFINE n2 == n * HASHMAP_RESIZE_FACTOR
           list == [i \in 0 .. n2 - 1 |-> NULL]
<1>1. h.num_of_buckets = n
    BY DEF Structs
<1>2. Enlarged(h) = [h EXCEPT !.num_of_buckets = n2, !.list_of_buckets = list]
    BY <1>1 DEF Enlarged
<1>3. list \in [0 .. n2 - 1 -> Pointers(D)] /\ \A i \in 0 .. n2 - 1 : list[i] = NULL
    BY DEF Pointers
<1> HIDE DEF list, n2
<1>4. EmptyBuckets(n2, D, h, [h EXCEPT !.num_of_buckets = n2, !.list_of_buckets = list])
    BY <1>3 DEF EmptyBuckets, Structs
<1> QED BY <1>2, <1>4 DEF n2

\* What is in an empty chain: nothing.
LEMMA EmptyChain ==
    ASSUME NEW D, NEW h, NEW m \in [D -> Entries(D)], NEW i
    PROVE  /\ <<>> \in Seq(D) /\ \A q : ~In(q, <<>>)
           /\ h.list_of_buckets[i] = NULL => BucketIs(h, m, i, <<>>)
           /\ \A key : Matching(m, key)[<<>>] = <<>>
<1>1. <<>> \in Seq(D) /\ Len(<<>>) = 0 /\ DOMAIN m = D
    OBVIOUS
<1>2. \A q : ~In(q, <<>>)
    BY <1>1 DEF In
<1>3. h.list_of_buckets[i] = NULL => BucketIs(h, m, i, <<>>)
    BY <1>1 DEF BucketIs, At, Forth, Back, Distinct
<1>4. ASSUME NEW key PROVE Matching(m, key)[<<>>] = <<>>
    <2>1. PICK f : Matched(m, key, D, <<>>, f)
        BY Zenon, <1>1, MatchingIs
    <2> QED BY <1>1, <2>1 DEF Matched, IsAmong
<1> QED BY Zenon, <1>1, <1>2, <1>3, <1>4

\* The new buckets before the first chain is moved.
LEMMA NothingMoved ==
    ASSUME NEW n \in Nat \ {0}, NEW n2 \in Nat \ {0}, NEW D, NEW map \in Maps(n, D), NEW old,
           NEW h2, EmptyBuckets(n2, D, map.h, h2)
    PROVE  Moved(n2, D, map, [h |-> h2, m |-> map.m], old, 0, [k \in 0 .. n2 - 1 |-> <<>>])
<1> DEFINE x == [h |-> h2, m |-> map.m]
           ch == [k \in 0 .. n2 - 1 |-> <<>>]
<1>1. /\ map.m \in [D -> Entries(D)] /\ map.h.num_of_buckets = n /\ DOMAIN map.m = D
      /\ h2 \in Structs(n2, D) /\ h2.num_of_entries = map.h.num_of_entries
      /\ \A i \in 0 .. n2 - 1 : h2.list_of_buckets[i] = NULL
    BY Zenon, MapParts DEF EmptyBuckets
<1>2. x \in Maps(n2, D)
    BY Zenon, <1>1, MapOfParts
<1>3. x.h = h2 /\ x.m = map.m /\ SameData(map.m, map.m) /\ h2.num_of_buckets = n2
    BY <1>1 DEF SameData, Structs
<1>4. ch \in [0 .. n2 - 1 -> Seq(D)] /\ \A k \in 0 .. n2 - 1 : ch[k] = <<>>
    OBVIOUS
<1> HIDE DEF ch, x
<1>5. \A k \in 0 .. n2 - 1 : BucketIs(h2, map.m, k, ch[k])
    <2>1. ASSUME NEW k \in 0 .. n2 - 1 PROVE BucketIs(h2, map.m, k, <<>>)
        BY Zenon, <1>1, EmptyChain
    <2> QED BY <1>4, <2>1
<1>6. \A k \in 0 .. n2 - 1, q \in D : In(q, ch[k]) => \E b \in 0 .. 0 - 1 : In(q, old[b])
    BY Zenon, <1>1, <1>4, EmptyChain
<1>7. \A b \in 0 .. 0 - 1, q \in D : In(q, old[b]) => \E k \in 0 .. n2 - 1 : In(q, ch[k])
    OBVIOUS
<1>8. ASSUME NEW key \in Keys
      PROVE  OfKey(h2, map.m, ch, key)
               = IF get_hash(map.h, key) < 0 THEN OfKey(map.h, map.m, old, key) ELSE <<>>
    <2>1. get_hash(map.h, key) \in 0 .. n - 1
        BY Zenon, <1>1, HashType
    <2>2. get_hash(h2, key) \in 0 .. n2 - 1
        BY Zenon, <1>3, HashType
    <2>3. OfKey(h2, map.m, ch, key) = <<>>
        BY Zenon, <1>1, <1>4, <2>2, EmptyChain DEF OfKey
    <2>4. ~ (get_hash(map.h, key) < 0)
        BY <2>1
    <2> QED BY <2>3, <2>4
<1>9. Moved(n2, D, map, x, old, 0, ch)
    BY Zenon, <1>1, <1>2, <1>3, <1>4, <1>5, <1>6, <1>7, <1>8 DEF Moved, Chained
<1> QED BY Zenon, <1>9 DEF x, ch

\* The maps in which 0, 1, 2 ... of the chains old are moved to the n2 buckets of first.
ResizeSteps(n, n2, D, first, old, f) ==
    /\ f \in [0 .. n -> Maps(n2, D)] /\ f[0] = first
    /\ \A i \in 1 .. n : f[i] = LinkedAll(f[i - 1], old[i - 1])

\* LinkedAll gives a map.
LEMMA LinkedAllType ==
    ASSUME NEW n \in Nat \ {0}, NEW D, Allocated(D), NEW map \in Maps(n, D), NEW s \in Seq(D)
    PROVE  LinkedAll(map, s) \in Maps(n, D)
<1>1. PICK f : LinkedSteps(n, D, map, s, f) /\ LinkedAll(map, s) = f[Len(s)]
    BY LinkedAllIs
<1>2. f \in [0 .. Len(s) -> Maps(n, D)] /\ Len(s) \in 0 .. Len(s)
    BY <1>1 DEF LinkedSteps
<1> QED BY <1>1, <1>2

\* resize_hashmap goes through them.
LEMMA ResizedIs ==
    ASSUME NEW n \in Nat \ {0}, NEW n2 \in Nat \ {0}, NEW D, Allocated(D),
           NEW map, map.h.num_of_buckets = n, NEW old \in [0 .. n - 1 -> Seq(D)],
           AllChains(map.h, map.m) = old,
           NEW first \in Maps(n2, D), first = [h |-> Enlarged(map.h), m |-> map.m]
    PROVE  \E f : ResizeSteps(n, n2, D, first, old, f) /\ Resized(map) = f[n]
<1> DEFINE S == Maps(n2, D)
           g == [ix \in (1 .. n) \X S |-> LinkedAll(ix[2], old[ix[1] - 1])]
           T(a) == [i \in 0 .. n |-> IF i = 0 THEN first ELSE LinkedAll(a[i - 1], old[i - 1])]
           A == CHOOSE a : a = T(a)
<1>1. \A i \in 1 .. n : i - 1 \in 0 .. n - 1 /\ old[i - 1] \in Seq(D)
    OBVIOUS
<1>2. ASSUME NEW i \in 1 .. n, NEW x \in S
      PROVE  g[<<i, x>>] = LinkedAll(x, old[i - 1]) /\ g[<<i, x>>] \in S
    <2>1. g[<<i, x>>] = LinkedAll(x, old[i - 1])
        OBVIOUS
    <2>2. old[i - 1] \in Seq(D)
        BY <1>1
    <2>3. LinkedAll(x, old[i - 1]) \in S
        BY <2>2, LinkedAllType
    <2> HIDE DEF g
    <2> QED BY <2>1, <2>3
<1>3. g \in [(1 .. n) \X S -> S]
    <2>1. g = [ix \in (1 .. n) \X S |-> g[ix]]
        OBVIOUS
    <2>2. ASSUME NEW ix \in (1 .. n) \X S PROVE g[ix] \in S
        <3>1. PICK i \in 1 .. n, x \in S : ix = <<i, x>>
            OBVIOUS
        <3> HIDE DEF g, S
        <3> QED BY <1>2, <3>1
    <2> HIDE DEF g, S
    <2> QED BY <2>1, <2>2
<1> HIDE DEF g
<1>4. PICK f : RecursionTo(S, first, g, n, f)
    <2> HIDE DEF S
    <2>1. first \in S
        BY DEF S
    <2> QED BY <1>3, <2>1, RecursionUpTo
<1>5. f \in [0 .. n -> S] /\ f[0] = first /\ \A i \in 1 .. n : f[i] = g[<<i, f[i - 1]>>]
    BY <1>4 DEF RecursionTo
<1>6. ASSUME NEW i \in 1 .. n PROVE f[i] = LinkedAll(f[i - 1], old[i - 1])
    <2>1. f[i - 1] \in S
        BY <1>5
    <2> HIDE DEF S
    <2> QED BY <1>2, <1>5, <2>1
<1>7. ResizeSteps(n, n2, D, first, old, f)
    BY <1>5, <1>6 DEF ResizeSteps
<1>8. f = T(f)
    <2>1. ASSUME NEW i \in 0 .. n PROVE f[i] = T(f)[i]
        <3>1. CASE i = 0
            BY <1>5, <3>1
        <3>2. CASE i \in 1 .. n
            BY <1>6, <3>2
        <3> QED BY <3>1, <3>2
    <2>2. f = [i \in 0 .. n |-> f[i]] /\ T(f) = [i \in 0 .. n |-> T(f)[i]]
        BY <1>5
    <2> HIDE DEF T
    <2> QED BY <2>1, <2>2
<1>9. A = T(A)
    <2> HIDE DEF T
    <2> QED BY <1>8
<1>10. Resized(map) = A[n]
    <2> HIDE DEF S
    <2> QED BY DEF Resized, A
<1> HIDE DEF A
<1>11. A[0] = first
    BY <1>9
<1>12. ASSUME NEW i \in 1 .. n PROVE A[i] = LinkedAll(A[i - 1], old[i - 1])
    <2>1. i \in 0 .. n /\ i # 0
        OBVIOUS
    <2>2. T(A)[i] = LinkedAll(A[i - 1], old[i - 1])
        BY <2>1
    <2> HIDE DEF T
    <2> QED BY <1>9, <2>2
<1> DEFINE K == {i \in 0 .. n : A[i] = f[i]}
<1>13. 0 \in K
    BY <1>5, <1>11
<1>14. ASSUME NEW i \in 1 .. n, i - 1 \in K PROVE i \in K
    <2>1. A[i - 1] = f[i - 1]
        BY <1>14
    <2> HIDE DEF K
    <2>2. A[i] = f[i]
        BY <1>6, <1>12, <2>1
    <2> QED BY <2>2 DEF K
<1> HIDE DEF K
<1>15. \A i \in 0 .. n : i \in K
    BY <1>13, <1>14, UpToInduction
<1>16. A[n] = f[n]
    BY <1>15 DEF K
<1> QED BY <1>7, <1>10, <1>16

\* x has n2 buckets with all entries of map, and ch are its chains: for each key what the
\* chains old of map had for it, in the same order.
Rehashed(n2, D, map, x, old, ch) ==
    /\ x \in Maps(n2, D) /\ SameData(map.m, x.m) /\ x.h.num_of_entries = map.h.num_of_entries
    /\ Chained(x.h, x.m, n2, D, ch) /\ Covers(n2, D, ch)
    /\ \A key \in Keys : OfKey(x.h, map.m, ch, key) = OfKey(map.h, map.m, old, key)

\* Moving every entry of every chain loses none and keeps their order under each key.
LEMMA ResizedChains ==
    ASSUME NEW n \in Nat \ {0}, NEW n2 \in Nat \ {0}, n2 = n * HASHMAP_RESIZE_FACTOR,
           NEW D, Allocated(D), NEW map \in Maps(n, D),
           NEW old, Chained(map.h, map.m, n, D, old), Covers(n, D, old)
    PROVE  \E ch : Rehashed(n2, D, map, Resized(map), old, ch)
<1> DEFINE first == [h |-> Enlarged(map.h), m |-> map.m]
           empty == [k \in 0 .. n2 - 1 |-> <<>>]
<1>1. /\ map.h \in Structs(n, D) /\ map.h.num_of_buckets = n
      /\ old \in [0 .. n - 1 -> Seq(D)] /\ map.m \in [D -> Entries(D)]
    BY Zenon, MapParts DEF Chained
<1>2. AllChains(map.h, map.m) = old
    BY ChainsAre
<1>3. EmptyBuckets(n2, D, map.h, Enlarged(map.h))
    BY <1>1, EnlargedIs
<1>4. Moved(n2, D, map, first, old, 0, empty)
    BY Zenon, <1>3, NothingMoved
<1> HIDE DEF first, empty
<1>5. first \in Maps(n2, D)
    BY Zenon, <1>4 DEF Moved
<1>6. PICK f : ResizeSteps(n, n2, D, first, old, f) /\ Resized(map) = f[n]
    BY <1>1, <1>2, <1>5, ResizedIs DEF first
<1>7. f[0] = first /\ \A i \in 1 .. n : f[i] = LinkedAll(f[i - 1], old[i - 1])
    BY <1>6 DEF ResizeSteps
<1> DEFINE K == {i \in 0 .. n : \E ch : Moved(n2, D, map, f[i], old, i, ch)}
<1>8. 0 \in K
    <2>1. 0 \in 0 .. n
        OBVIOUS
    <2> QED BY Zenon, <1>4, <1>7, <2>1
<1>9. ASSUME NEW i \in 1 .. n, i - 1 \in K PROVE i \in K
    <2> DEFINE x == f[i - 1]
    <2>1. PICK ch : Moved(n2, D, map, x, old, i - 1, ch)
        BY <1>9
    <2> HIDE DEF x
    <2>2. \E ch2 : Moved(n2, D, map, LinkedAll(x, old[i - 1]), old, i, ch2)
        BY Zenon, <2>1, MovedStep
    <2>3. f[i] = LinkedAll(x, old[i - 1]) /\ i \in 0 .. n
        BY <1>7 DEF x
    <2> QED BY Zenon, <2>2, <2>3
<1> HIDE DEF K
<1>10. n \in K
    <2>1. \A i \in 0 .. n : i \in K
        BY <1>8, <1>9, UpToInduction
    <2> QED BY <2>1
<1>11. PICK ch : Moved(n2, D, map, f[n], old, n, ch)
    BY <1>10 DEF K
<1> DEFINE x == Resized(map)
<1>12. /\ x \in Maps(n2, D) /\ SameData(map.m, x.m) /\ x.h.num_of_entries = map.h.num_of_entries
       /\ Chained(x.h, x.m, n2, D, ch)
       /\ \A b \in 0 .. n - 1, q \in D : In(q, old[b]) => \E k \in 0 .. n2 - 1 : In(q, ch[k])
       /\ \A key \in Keys : OfKey(x.h, map.m, ch, key)
            = IF get_hash(map.h, key) < n THEN OfKey(map.h, map.m, old, key) ELSE <<>>
    BY Zenon, <1>6, <1>11 DEF Moved
<1> HIDE DEF x
<1>13. Covers(n2, D, ch)
    BY Zenon, <1>12 DEF Covers
<1>14. ASSUME NEW key \in Keys
       PROVE  OfKey(x.h, map.m, ch, key) = OfKey(map.h, map.m, old, key)
    <2>1. get_hash(map.h, key) \in 0 .. n - 1
        BY Zenon, <1>1, HashType
    <2>2. get_hash(map.h, key) < n
        BY <2>1
    <2> QED BY <1>12, <2>2
<1>15. Rehashed(n2, D, map, x, old, ch)
    BY Zenon, <1>12, <1>13, <1>14 DEF Rehashed
<1> QED BY Zenon, <1>15 DEF x
-----------------------------------------------------------------------------
(* The map that can be used *)

\* A map of n buckets with the entries D, all of them in the chains ch, which are on
\* average no longer than the load factor.
Sound(n, D, h, m, ch) ==
    /\ n \in Nat \ {0} /\ Allocated(D) /\ D \subseteq Addresses
    /\ h \in Structs(n, D) /\ m \in [D -> Entries(D)]
    /\ Chained(h, m, n, D, ch) /\ Covers(n, D, ch)
    /\ h.num_of_entries = Cardinality(D) /\ h.num_of_entries <= HASHMAP_LOAD_FACTOR * n

\* The parts of the struct and the map that the two are.
LEMMA SoundParts ==
    ASSUME NEW n, NEW D, NEW h, NEW m, NEW ch, Sound(n, D, h, m, ch)
    PROVE  /\ h.num_of_buckets = n /\ DOMAIN m = D /\ NULL \notin D /\ IsFiniteSet(D)
           /\ h.list_of_buckets \in [0 .. n - 1 -> Pointers(D)]
           /\ [h |-> h, m |-> m] \in Maps(n, D)
           /\ ch \in [0 .. n - 1 -> Seq(D)]
           /\ \A i \in 0 .. n - 1 : BucketIs(h, m, i, ch[i])
<1>1. n \in Nat \ {0} /\ Allocated(D) /\ h \in Structs(n, D) /\ m \in [D -> Entries(D)]
      /\ Chained(h, m, n, D, ch)
    BY Zenon DEF Sound
<1>2. h.num_of_buckets = n /\ h.list_of_buckets \in [0 .. n - 1 -> Pointers(D)]
    BY <1>1 DEF Structs
<1>3. [h |-> h, m |-> m] \in Maps(n, D)
    BY Zenon, <1>1, MapOfParts
<1>4. NULL \notin D /\ IsFiniteSet(D) /\ DOMAIN m = D
    BY <1>1 DEF Allocated, NULL
<1> QED BY Zenon, <1>1, <1>2, <1>3, <1>4 DEF Chained

\* The entries of a key: in its chain, each once, with the key; some if there are.
KeyEntries(h, m, n, D, ch, key) ==
    LET s == OfKey(h, m, ch, key)
    IN  /\ s \in Seq(D) /\ Distinct(s)
        /\ \A i \in 1 .. Len(s) : In(s[i], ch[get_hash(h, key)]) /\ m[s[i]].key = key
        /\ get_hash(h, key) \in 0 .. n - 1

\* Walking along the chain of a key meets its entries, and the first is found.
LEMMA OfKeyIs ==
    ASSUME NEW n, NEW D, NEW h, NEW m, NEW ch, Sound(n, D, h, m, ch), NEW key \in Keys
    PROVE  /\ KeyEntries(h, m, n, D, ch, key)
           /\ ChainOf(h, m, key) = ch[get_hash(h, key)]
           /\ Matching(m, key)[ChainOf(h, m, key)] = OfKey(h, m, ch, key)
<1> DEFINE i == get_hash(h, key)
           c == ch[i]
<1>1. n \in Nat \ {0} /\ Allocated(D) /\ m \in [D -> Entries(D)] /\ h.num_of_buckets = n
      /\ DOMAIN m = D /\ ch \in [0 .. n - 1 -> Seq(D)]
      /\ \A b \in 0 .. n - 1 : BucketIs(h, m, b, ch[b])
    BY Zenon, SoundParts DEF Sound
<1>2. i \in 0 .. n - 1
    BY Zenon, <1>1, HashType
<1>3. c \in Seq(D)
    BY <1>1, <1>2
<1>4. h.list_of_buckets[i] = At(c, 1) /\ Forth(m, c) /\ Distinct(c)
    BY Zenon, <1>1, <1>2 DEF BucketIs
<1> HIDE DEF c
<1>5. Chain(m, At(c, 1)) = c
    BY Zenon, <1>1, <1>3, <1>4, ChainIs
<1>6. ChainOf(h, m, key) = c
    BY Zenon, <1>4, <1>5 DEF ChainOf
<1>7. Matches(m, key, D, c, Matching(m, key)[c])
    BY Zenon, <1>1, <1>3, MatchingMatches
<1>8. OfKey(h, m, ch, key) = Matching(m, key)[c]
    BY Zenon DEF OfKey, c
<1>9. KeyEntries(h, m, n, D, ch, key)
    BY Zenon, <1>2, <1>4, <1>7, <1>8 DEF KeyEntries, Matches, c
<1> QED BY Zenon, <1>6, <1>8, <1>9 DEF c

\* What hashmap_find_entry returns.
FirstOf(s) == IF s = <<>> THEN NULL ELSE Head(s)

\* It returns the first entry of the key.
LEMMA FoundIs ==
    ASSUME NEW n, NEW D, NEW h, NEW m, NEW ch, Sound(n, D, h, m, ch), NEW key \in Keys
    PROVE  FoundIn(h, m, key) = FirstOf(OfKey(h, m, ch, key))
<1>1. Matching(m, key)[ChainOf(h, m, key)] = OfKey(h, m, ch, key)
    BY OfKeyIs
<1> QED BY <1>1 DEF FoundIn, FirstOf

\* An entry p that is the first of a key.
LEMMA FirstIs ==
    ASSUME NEW D, NEW s \in Seq(D), NULL \notin D
    PROVE  /\ FirstOf(s) = NULL <=> s = <<>>
           /\ s # <<>> => /\ FirstOf(s) = s[1] /\ FirstOf(s) = Head(s) /\ FirstOf(s) \in D
                          /\ 1 \in 1 .. Len(s) /\ Len(s) \in Nat /\ Tail(s) \in Seq(D)
                          /\ Len(Tail(s)) = Len(s) - 1
                          /\ \A i \in 1 .. Len(s) - 1 : Tail(s)[i] = s[i + 1]
<1>1. s # <<>> => s[1] = Head(s) /\ Head(s) \in D /\ 1 \in 1 .. Len(s)
    OBVIOUS
<1>2. s # <<>> => /\ Len(s) \in Nat /\ Tail(s) \in Seq(D) /\ Len(Tail(s)) = Len(s) - 1
                  /\ \A i \in 1 .. Len(s) - 1 : Tail(s)[i] = s[i + 1]
    OBVIOUS
<1> QED BY <1>1, <1>2 DEF FirstOf

-----------------------------------------------------------------------------
(* The values of a key *)

Values(m, s) == [i \in 1 .. Len(s) |-> m[s[i]].data]

\* They are what ValuesOf gives.
LEMMA ValuesAre ==
    ASSUME NEW D, NEW m, DOMAIN m = D, NEW s \in Seq(D)
    PROVE  ValuesOf(m)[s] = Values(m, s)
BY DEF ValuesOf, Values

\* Without values, the oldest value, and the values behind it.
LEMMA ValuesShorter ==
    ASSUME NEW D, NEW m \in [D -> Entries(D)], NEW s \in Seq(D)
    PROVE  /\ Values(m, s) \in Seq(Data) /\ (Values(m, s) = <<>> <=> s = <<>>)
           /\ s # <<>> => /\ Head(Values(m, s)) = m[Head(s)].data
                          /\ Tail(Values(m, s)) = Values(m, Tail(s))
<1>1. \A i \in 1 .. Len(s) : m[s[i]].data \in Data
    BY DEF Entries
<1>2. Len(s) \in Nat /\ Values(m, s) \in Seq(Data) /\ Len(Values(m, s)) = Len(s)
      /\ \A i \in 1 .. Len(s) : Values(m, s)[i] = m[s[i]].data
    BY <1>1 DEF Values
<1>3. Values(m, s) = <<>> <=> s = <<>>
    BY <1>2
<1>4. ASSUME s # <<>>
      PROVE  Head(Values(m, s)) = m[Head(s)].data /\ Tail(Values(m, s)) = Values(m, Tail(s))
    <2> DEFINE v == Values(m, s)
    <2>1. Len(s) # 0 /\ Len(s) \in Nat /\ Len(v) = Len(s) /\ v # <<>> /\ v \in Seq(Data)
        BY <1>2, <1>3, <1>4
    <2>2. 1 \in 1 .. Len(s) /\ Head(s) = s[1]
        BY <1>4, <2>1
    <2>3. v[1] = m[s[1]].data
        BY <1>2, <2>2
    <2>4. Len(Tail(s)) = Len(s) - 1 /\ \A i \in 1 .. Len(s) - 1 : Tail(s)[i] = s[i + 1]
        BY <1>4
    <2>5. \A i \in 1 .. Len(s) - 1 : i + 1 \in 1 .. Len(s)
        BY <2>1
    <2>6. \A i \in 1 .. Len(s) - 1 : v[i + 1] = m[s[i + 1]].data
        BY <1>2, <2>5
    <2>7. Values(m, Tail(s)) = [i \in 1 .. Len(s) - 1 |-> m[s[i + 1]].data]
        <3>1. \A i \in 1 .. Len(s) - 1 : m[Tail(s)[i]].data = m[s[i + 1]].data
            BY <2>4
        <3>2. Values(m, Tail(s)) = [i \in 1 .. Len(s) - 1 |-> m[Tail(s)[i]].data]
            BY <2>4 DEF Values
        <3> QED BY <3>1, <3>2
    <2> HIDE DEF v
    <2>8. Head(v) = v[1]
        BY <2>1
    <2>9. /\ Tail(v) = [i \in 1 .. Len(s) - 1 |-> Tail(v)[i]]
          /\ \A i \in 1 .. Len(s) - 1 : Tail(v)[i] = v[i + 1]
        <3>1. Tail(v) \in Seq(Data) /\ Len(Tail(v)) = Len(v) - 1
              /\ \A i \in 1 .. Len(v) - 1 : Tail(v)[i] = v[i + 1]
            BY <2>1
        <3> DEFINE t == Tail(v)
        <3>2. t \in Seq(Data) /\ Len(t) = Len(s) - 1 /\ \A i \in 1 .. Len(s) - 1 : t[i] = v[i + 1]
            BY <2>1, <3>1
        <3> HIDE DEF t
        <3>3. t = [i \in 1 .. Len(t) |-> t[i]]
            BY <3>2
        <3> QED BY <3>2, <3>3 DEF t
    <2>10. Tail(v) = [i \in 1 .. Len(s) - 1 |-> m[s[i + 1]].data]
        BY <2>6, <2>9
    <2> QED BY <2>2, <2>3, <2>7, <2>8, <2>10 DEF v
<1> QED BY <1>2, <1>3, <1>4

\* One entry more.
LEMMA ValuesAppend ==
    ASSUME NEW D, NEW m \in [D -> Entries(D)], NEW s \in Seq(D), NEW p \in D
    PROVE  Values(m, Append(s, p)) = Append(Values(m, s), m[p].data)
<1> DEFINE a == Append(s, p)
           v == Values(m, s)
           b == Append(v, m[p].data)
<1>1. /\ a \in Seq(D) /\ Len(a) = Len(s) + 1 /\ a[Len(s) + 1] = p /\ Len(s) \in Nat
      /\ \A i \in 1 .. Len(s) : a[i] = s[i]
    BY Appended
<1>2. v \in Seq(Data) /\ Len(v) = Len(s) /\ \A i \in 1 .. Len(s) : v[i] = m[s[i]].data
    <2>1. \A i \in 1 .. Len(s) : m[s[i]].data \in Data
        BY DEF Entries
    <2> QED BY <2>1 DEF Values
<1>3. m[p].data \in Data
    BY DEF Entries
<1> HIDE DEF v, a
<1>4. /\ b \in Seq(Data) /\ Len(b) = Len(s) + 1 /\ b[Len(s) + 1] = m[p].data
      /\ \A i \in 1 .. Len(s) : b[i] = v[i]
    BY <1>2, <1>3, Appended
<1> HIDE DEF b
<1>5. \A i \in 1 .. Len(s) + 1 : b[i] = m[a[i]].data
    <2> SUFFICES ASSUME NEW i \in 1 .. Len(s) + 1 PROVE b[i] = m[a[i]].data
        OBVIOUS
    <2>1. CASE i = Len(s) + 1
        BY <1>1, <1>4, <2>1
    <2>2. CASE i \in 1 .. Len(s)
        BY <1>1, <1>2, <1>4, <2>2
    <2> QED BY <1>1, <2>1, <2>2
<1>6. b = [i \in 1 .. Len(s) + 1 |-> b[i]]
    BY <1>4
<1>7. Values(m, a) = [i \in 1 .. Len(s) + 1 |-> m[a[i]].data]
    BY <1>1 DEF Values
<1>8. Values(m, a) = b
    BY <1>5, <1>6, <1>7
<1> QED BY <1>8 DEF a, b, v

\* The same entries with the same data.
LEMMA ValuesSame ==
    ASSUME NEW m, NEW m2, NEW D, NEW s \in Seq(D), \A q \in D : m2[q].data = m[q].data
    PROVE  Values(m2, s) = Values(m, s)
<1>1. \A i \in 1 .. Len(s) : m2[s[i]].data = m[s[i]].data
    OBVIOUS
<1> QED BY <1>1 DEF Values
-----------------------------------------------------------------------------
(* hashmap_add *)

\* m2 is m with a new entry that is linked to nothing.
Extended(n, D, D2, h, m, m2, ch, new, entry) ==
    /\ Allocated(D2) /\ h \in Structs(n, D2) /\ m2 \in [D2 -> Entries(D2)]
    /\ Chained(h, m2, n, D2, ch) /\ m2[new] = entry /\ \A q \in D : m2[q] = m[q]
    /\ \A i \in 0 .. n - 1 : ~In(new, ch[i])
    /\ \A key \in Keys : OfKey(h, m2, ch, key) = OfKey(h, m, ch, key)

\* With does it.
LEMMA WithIs ==
    ASSUME NEW n \in Nat \ {0}, NEW D, Allocated(D), NEW h \in Structs(n, D),
           NEW m \in [D -> Entries(D)], NEW ch, Chained(h, m, n, D, ch),
           NEW new \in Nat \ {0}, new \notin D, NEW D2, D2 = D \cup {new},
           NEW entry \in [key : Keys, data : Data, prev : {NULL}, next : {NULL}]
    PROVE  Extended(n, D, D2, h, m, With(m, new, entry), ch, new, entry)
<1> DEFINE m2 == With(m, new, entry)
<1>1. D \subseteq D2 /\ new \in D2 /\ Pointers(D) \subseteq Pointers(D2) /\ DOMAIN m = D
    BY DEF Pointers
<1>2. Allocated(D2)
    BY FS_AddElement DEF Allocated
<1>3. h.num_of_buckets = n /\ h \in Structs(n, D2)
    <2>1. h.num_of_buckets = n /\ h.list_of_buckets \in [0 .. n - 1 -> Pointers(D2)]
        BY <1>1 DEF Structs
    <2> QED BY <2>1 DEF Structs
<1>4. m2 = [q \in D2 |-> IF q = new THEN entry ELSE m[q]]
    BY <1>1 DEF With
<1> HIDE DEF m2
<1>5. m2[new] = entry /\ (\A q \in D : m2[q] = m[q]) /\ DOMAIN m2 = D2
    BY <1>1, <1>4
<1>6. m2 \in [D2 -> Entries(D2)]
    <2>1. entry \in Entries(D2)
        BY DEF Entries, Pointers
    <2>2. \A q \in D : m[q] \in Entries(D2)
        BY <1>1 DEF Entries
    <2>3. \A q \in D2 : m2[q] \in Entries(D2)
        BY <1>5, <2>1, <2>2
    <2> QED BY <1>4, <2>3
<1>7. ch \in [0 .. n - 1 -> Seq(D)] /\ \A i \in 0 .. n - 1 : BucketIs(h, m, i, ch[i])
    BY Zenon DEF Chained
<1>8. \A i \in 0 .. n - 1 : /\ ch[i] \in Seq(D) /\ ch[i] \in Seq(D2)
                            /\ \A j \in 1 .. Len(ch[i]) : ch[i][j] \in D
    BY <1>1, <1>7
<1>9. ASSUME NEW i \in 0 .. n - 1 PROVE BucketIs(h, m2, i, ch[i]) /\ ~In(new, ch[i])
    <2> DEFINE c == ch[i]
    <2>1. \A j \in 1 .. Len(c) : c[j] \in D /\ m2[c[j]] = m[c[j]]
        BY <1>5, <1>8
    <2>2. BucketIs(h, m, i, c)
        BY Zenon, <1>7
    <2> HIDE DEF c
    <2>3. BucketIs(h, m2, i, c)
        BY <2>1, <2>2 DEF BucketIs, Forth, Back
    <2>4. ~In(new, c)
        BY <2>1 DEF In
    <2> QED BY <2>3, <2>4 DEF c
<1>10. Chained(h, m2, n, D2, ch)
    <2>1. ch \in [0 .. n - 1 -> Seq(D2)]
        BY <1>7, <1>8
    <2> QED BY Zenon, <1>9, <2>1 DEF Chained
<1>11. ASSUME NEW key \in Keys PROVE OfKey(h, m2, ch, key) = OfKey(h, m, ch, key)
    <2> DEFINE i == get_hash(h, key)
               c == ch[i]
    <2>1. i \in 0 .. n - 1
        BY Zenon, <1>3, HashType
    <2>2. c \in Seq(D) /\ c \in Seq(D2) /\ \A j \in 1 .. Len(c) : c[j] \in D
        BY Zenon, <1>8, <2>1
    <2> HIDE DEF c
    <2>3. \A j \in 1 .. Len(c) : m2[c[j]].key = m[c[j]].key
        BY <1>5, <2>2
    <2>4. SameMatching(m, m2, key, c)
        BY Zenon, <1>1, <1>5, <2>2, <2>3, MatchingSame
    <2> QED BY Zenon, <2>4 DEF OfKey, SameMatching, c
<1>12. Extended(n, D, D2, h, m, m2, ch, new, entry)
    BY Zenon, <1>2, <1>3, <1>5, <1>6, <1>9, <1>10, <1>11 DEF Extended
<1> QED BY Zenon, <1>12 DEF m2

\* h2 and m2 are h and m with the entry new, the last of its key.
Added(n, D, h, m, ch, new, key, data, h2, m2, ch2) ==
    /\ Sound(n, D \cup {new}, h2, m2, ch2) /\ m2[new].data = data
    /\ \A q \in D : m2[q].key = m[q].key /\ m2[q].data = m[q].data
    /\ \A k \in Keys : OfKey(h2, m2, ch2, k) = IF k = key THEN Append(OfKey(h, m, ch, k), new)
                                               ELSE OfKey(h, m, ch, k)

\* h2 is h with k for its number of entries.
Counted(n, D, h, m, ch, k, h2) ==
    /\ h2 \in Structs(n, D) /\ h2.num_of_entries = k /\ Chained(h2, m, n, D, ch)
    /\ \A key : get_hash(h2, key) = get_hash(h, key)
    /\ \A key : OfKey(h2, m, ch, key) = OfKey(h, m, ch, key)

\* No chain depends on it.
LEMMA EntriesCounted ==
    ASSUME NEW n, NEW D, NEW h \in Structs(n, D), NEW m, NEW ch, Chained(h, m, n, D, ch),
           NEW k \in Nat, NEW h2, h2 = [h EXCEPT !.num_of_entries = k]
    PROVE  Counted(n, D, h, m, ch, k, h2)
<1>1. /\ h2 \in Structs(n, D) /\ h2.num_of_entries = k
      /\ h2.list_of_buckets = h.list_of_buckets /\ h2.num_of_buckets = h.num_of_buckets
    BY DEF Structs
<1>2. \A key : get_hash(h2, key) = get_hash(h, key)
    BY <1>1 DEF get_hash
<1>3. \A key : OfKey(h2, m, ch, key) = OfKey(h, m, ch, key)
    BY <1>2 DEF OfKey
<1>4. Chained(h2, m, n, D, ch)
    <2>1. ch \in [0 .. n - 1 -> Seq(D)] /\ \A i \in 0 .. n - 1 : BucketIs(h, m, i, ch[i])
        BY Zenon DEF Chained
    <2>2. \A i \in 0 .. n - 1 : BucketIs(h2, m, i, ch[i])
        BY <1>1, <1>2, <2>1 DEF BucketIs
    <2> QED BY Zenon, <2>1, <2>2 DEF Chained
<1> QED BY Zenon, <1>1, <1>2, <1>3, <1>4 DEF Counted

\* A map with room for an entry gets it.
LEMMA AddedIs ==
    ASSUME NEW n, NEW D, NEW x, NEW ch, Sound(n, D, x.h, x.m, ch), x = [h |-> x.h, m |-> x.m],
           x.h.num_of_entries < HASHMAP_LOAD_FACTOR * n,
           NEW new \in Addresses \ D, NEW key \in Keys, NEW data \in Data,
           NEW entry, entry = [key |-> key, data |-> data, prev |-> NULL, next |-> NULL],
           NEW y, y = Linked([h |-> x.h, m |-> With(x.m, new, entry)], new),
           NEW h2, h2 = [y.h EXCEPT !.num_of_entries = @ + 1]
    PROVE  \E ch2 : Added(n, D, x.h, x.m, ch, new, key, data, h2, y.m, ch2)
<1> DEFINE D2 == D \cup {new}
           m1 == With(x.m, new, entry)
           w == [h |-> x.h, m |-> m1]
           ch2 == Put(ch, get_hash(x.h, key), new)
<1>1. /\ n \in Nat \ {0} /\ Allocated(D) /\ D \subseteq Addresses
      /\ x.h \in Structs(n, D) /\ x.m \in [D -> Entries(D)]
      /\ Chained(x.h, x.m, n, D, ch) /\ Covers(n, D, ch)
      /\ x.h.num_of_entries = Cardinality(D)
    BY Zenon DEF Sound
<1>2. new \in Nat \ {0} /\ new \notin D
      /\ entry \in [key : Keys, data : Data, prev : {NULL}, next : {NULL}]
    BY HashMapAssumption
<1>3. D2 = D \cup {new}
    OBVIOUS
<1> HIDE DEF D2, m1
<1>4. Extended(n, D, D2, x.h, x.m, m1, ch, new, entry)
    BY Zenon, <1>1, <1>2, <1>3, WithIs DEF m1
<1>5. /\ Allocated(D2) /\ x.h \in Structs(n, D2) /\ m1 \in [D2 -> Entries(D2)]
      /\ Chained(x.h, m1, n, D2, ch) /\ m1[new] = entry /\ \A q \in D : m1[q] = x.m[q]
      /\ \A i \in 0 .. n - 1 : ~In(new, ch[i])
      /\ \A k \in Keys : OfKey(x.h, m1, ch, k) = OfKey(x.h, x.m, ch, k)
    BY Zenon, <1>4 DEF Extended
<1>6. w \in Maps(n, D2) /\ w.h = x.h /\ w.m = m1 /\ new \in D2 /\ m1[new].key = key
      /\ m1[new].data = data /\ x.h.num_of_buckets = n
    <2>1. w \in Maps(n, D2)
        BY Zenon, <1>5, MapOfParts
    <2>2. w.h = x.h /\ w.m = m1 /\ new \in D2
        BY <1>3
    <2>3. m1[new].key = key /\ m1[new].data = data
        BY <1>5
    <2>4. x.h.num_of_buckets = n
        <3>1. x.h \in Structs(n, D)
            BY Zenon, <1>1
        <3> QED BY <3>1 DEF Structs
    <2> QED BY <2>1, <2>2, <2>3, <2>4
<1> HIDE DEF w
<1>7. y = Linked(w, new)
    BY DEF w, m1
<1>8. Chained(y.h, y.m, n, D2, ch2)
    <2>1. Chained(Linked(w, new).h, Linked(w, new).m, n, D2,
                  Put(ch, get_hash(w.h, w.m[new].key), new))
        <3>1. \A i \in 0 .. n - 1 : ~In(new, ch[i])
            BY Zenon, <1>5
        <3>2. n \in Nat \ {0} /\ Allocated(D2) /\ w \in Maps(n, D2) /\ new \in D2
            BY Zenon, <1>1, <1>5, <1>6
        <3>3. Chained(w.h, w.m, n, D2, ch)
            BY Zenon, <1>5, <1>6
        <3> HIDE DEF D2
        <3> QED BY Zenon, <3>1, <3>2, <3>3, LinkedChains
    <2> QED BY <1>6, <1>7, <2>1
<1>9. y \in Maps(n, D2) /\ Kept(w, y)
    BY <1>1, <1>5, <1>6, <1>7, LinkedType
<1>10. /\ y.h \in Structs(n, D2) /\ y.m \in [D2 -> Entries(D2)] /\ y.h.num_of_buckets = n
       /\ SameData(m1, y.m) /\ y.h.num_of_entries = x.h.num_of_entries
       /\ y.h.num_of_buckets = x.h.num_of_buckets /\ DOMAIN m1 = D2
    BY <1>5, <1>6, <1>9, MapParts DEF Kept
<1>11. IsPut(n, x.h, m1, ch, new, ch2)
    <2>1. ch \in [0 .. n - 1 -> Seq(D2)]
        BY Zenon, <1>5 DEF Chained
    <2>2. IsPut(n, x.h, m1, ch, new, Put(ch, get_hash(x.h, m1[new].key), new))
        BY Zenon, <1>1, <1>5, <1>6, <2>1, PutIs
    <2> QED BY <1>6, <2>2
<1> HIDE DEF ch2
<1>12. Covers(n, D2, ch2)
    <2> SUFFICES ASSUME NEW q \in D2 PROVE \E i \in 0 .. n - 1 : In(q, ch2[i])
        BY Zenon DEF Covers
    <2>1. CASE q = new
        <3>1. get_hash(x.h, m1[new].key) \in 0 .. n - 1
            BY Zenon, <1>1, <1>6, HashType
        <3> QED BY Zenon, <1>11, <2>1, <3>1 DEF IsPut
    <2>2. CASE q \in D
        <3>1. PICK i \in 0 .. n - 1 : In(q, ch[i])
            BY Zenon, <1>1, <2>2 DEF Covers
        <3> QED BY Zenon, <1>11, <3>1 DEF IsPut
    <2> QED BY <1>3, <2>1, <2>2
<1>13. /\ Cardinality(D) \in Nat /\ Cardinality(D2) = Cardinality(D) + 1
       /\ HASHMAP_LOAD_FACTOR * n \in Nat
    <2>1. IsFiniteSet(D)
        BY <1>1 DEF Allocated
    <2>2. Cardinality(D) \in Nat /\ Cardinality(D2) = Cardinality(D) + 1
        BY <1>2, <1>3, <2>1, FS_CardinalityType, FS_AddElement
    <2>3. HASHMAP_LOAD_FACTOR * n \in Nat
        BY <1>1, HashMapAssumption
    <2> QED BY <2>2, <2>3
<1>14. h2 = [y.h EXCEPT !.num_of_entries = Cardinality(D) + 1]
    BY <1>1, <1>10
<1>15. /\ h2 \in Structs(n, D2) /\ h2.num_of_entries = Cardinality(D) + 1
       /\ Chained(h2, y.m, n, D2, ch2)
       /\ \A k : OfKey(h2, y.m, ch2, k) = OfKey(y.h, y.m, ch2, k)
    <2>1. Cardinality(D) + 1 \in Nat
        BY <1>13
    <2>2. Counted(n, D2, y.h, y.m, ch2, Cardinality(D) + 1, h2)
        BY Zenon, <1>8, <1>10, <1>14, <2>1, EntriesCounted
    <2> QED BY Zenon, <2>2 DEF Counted
<1>16. Sound(n, D2, h2, y.m, ch2)
    <2>1. h2.num_of_entries = Cardinality(D2) /\ h2.num_of_entries <= HASHMAP_LOAD_FACTOR * n
        BY <1>1, <1>13, <1>15
    <2>2. D2 \subseteq Addresses
        BY <1>1, <1>3
    <2> QED BY Zenon, <1>1, <1>5, <1>10, <1>12, <1>15, <2>1, <2>2 DEF Sound
<1>17. y.m[new].data = data /\ \A q \in D : y.m[q].key = x.m[q].key /\ y.m[q].data = x.m[q].data
    BY <1>3, <1>5, <1>6, <1>10 DEF SameData
<1>18. ASSUME NEW k \in Keys
       PROVE  OfKey(h2, y.m, ch2, k)
                = IF k = key THEN Append(OfKey(x.h, x.m, ch, k), new) ELSE OfKey(x.h, x.m, ch, k)
    <2>1. OfKey(h2, y.m, ch2, k) = OfKey(y.h, y.m, ch2, k)
        BY Zenon, <1>15
    <2>2. get_hash(y.h, k) = get_hash(x.h, k)
        <3>1. y.h.num_of_buckets = x.h.num_of_buckets
            BY Zenon, <1>10
        <3> QED BY <3>1 DEF get_hash
    <2>3. OfKey(y.h, y.m, ch2, k) = OfKey(x.h, y.m, ch2, k)
        BY <2>2 DEF OfKey
    <2>4. ch2 \in [0 .. n - 1 -> Seq(D2)]
        BY Zenon, <1>8 DEF Chained
    <2>5. SameOfKey(x.h, m1, y.m, ch2, k)
        BY Zenon, <1>1, <1>6, <1>10, <2>4, OfKeySame
    <2>6. OfKey(x.h, m1, ch2, k) = IF m1[new].key = k THEN Append(OfKey(x.h, m1, ch, k), new)
                                   ELSE OfKey(x.h, m1, ch, k)
        BY Zenon, <1>11 DEF IsPut
    <2>7. OfKey(x.h, m1, ch, k) = OfKey(x.h, x.m, ch, k)
        BY Zenon, <1>5
    <2> QED BY <1>6, <2>1, <2>3, <2>5, <2>6, <2>7 DEF SameOfKey
<1>19. Added(n, D, x.h, x.m, ch, new, key, data, h2, y.m, ch2)
    BY Zenon, <1>16, <1>17, <1>18 DEF Added, D2
<1> QED BY Zenon, <1>19

\* Twice as many buckets have room.
LEMMA RoomAfterResize ==
    ASSUME NEW n \in Nat \ {0}, NEW n2, n2 = n * HASHMAP_RESIZE_FACTOR, NEW k \in Nat,
           k <= HASHMAP_LOAD_FACTOR * n
    PROVE  n2 \in Nat \ {0} /\ k < HASHMAP_LOAD_FACTOR * n2
<1> DEFINE R == HASHMAP_RESIZE_FACTOR
           L == HASHMAP_LOAD_FACTOR
           a == L * n
<1>1. R \in Nat /\ R >= 2 /\ L \in Nat /\ L >= 1
    BY HashMapAssumption
<1> HIDE DEF R, L
<1>2. a \in Nat /\ a >= n
    BY <1>1
<1>3. n2 \in Nat /\ n2 >= 2 * n
    <2>1. n * R >= n * 2
        BY <1>1
    <2> QED BY <1>1, <2>1 DEF R
<1>4. L * n2 >= L * (2 * n)
    BY <1>1, <1>3
<1>5. L * (2 * n) = 2 * a
    BY <1>1
<1>6. L * n2 \in Nat
    BY <1>1, <1>3
<1> HIDE DEF a
<1>7. 2 * a > a
    BY <1>2
<1> QED BY <1>2, <1>3, <1>4, <1>5, <1>6, <1>7 DEF a, L

\* A map that is not full has room.
LEMMA RoomIfNotFull ==
    ASSUME NEW n \in Nat \ {0}, NEW h, h.num_of_buckets = n, h.num_of_entries \in Nat, ~IsFull(h)
    PROVE  h.num_of_entries < HASHMAP_LOAD_FACTOR * n
<1> DEFINE k == h.num_of_entries
           q == k \div n
           L == HASHMAP_LOAD_FACTOR
<1>1. q \in Nat /\ k < q * n + n
    BY QuotientType
<1>2. L \in Nat
    BY HashMapAssumption
<1>3. q < L
    BY <1>1, <1>2 DEF IsFull
<1> HIDE DEF q, L, k
<1>4. q + 1 <= L
    BY <1>1, <1>2, <1>3
<1>5. (q + 1) * n <= L * n
    BY <1>1, <1>2, <1>4
<1>6. q * n + n = (q + 1) * n
    BY <1>1
<1> QED BY <1>1, <1>2, <1>5, <1>6 DEF k, L

\* x is h and m with n2 buckets, which have room, and chains with the same entries for each key.
Roomy(n2, D, h, m, ch, x, ch1) ==
    /\ Sound(n2, D, x.h, x.m, ch1) /\ x = [h |-> x.h, m |-> x.m]
    /\ x.h.num_of_entries < HASHMAP_LOAD_FACTOR * n2
    /\ SameData(m, x.m)
    /\ \A k \in Keys : OfKey(x.h, x.m, ch1, k) = OfKey(h, m, ch, k)

\* What hashmap_add makes of a map before it adds the entry.
LEMMA RoomMade ==
    ASSUME NEW n, NEW D, NEW h, NEW m, NEW ch, Sound(n, D, h, m, ch),
           NEW now, now = [h |-> h, m |-> m],
           NEW x, x = IF IsFull(h) THEN Resized(now) ELSE now
    PROVE  \E n2, ch1 : Roomy(n2, D, h, m, ch, x, ch1)
<1>1. /\ n \in Nat \ {0} /\ Allocated(D) /\ D \subseteq Addresses
      /\ Chained(h, m, n, D, ch) /\ Covers(n, D, ch)
      /\ h.num_of_entries = Cardinality(D) /\ h.num_of_entries <= HASHMAP_LOAD_FACTOR * n
    BY Zenon DEF Sound
<1>2. now.h = h /\ now.m = m /\ now = [h |-> now.h, m |-> now.m]
    OBVIOUS
<1>3. now \in Maps(n, D) /\ h.num_of_buckets = n /\ h.num_of_entries \in Nat
    BY <1>1, SoundParts, FS_CardinalityType
<1>4. CASE ~IsFull(h)
    <2>1. h.num_of_entries < HASHMAP_LOAD_FACTOR * n
        BY <1>1, <1>3, <1>4, RoomIfNotFull
    <2>2. SameData(m, m)
        BY DEF SameData
    <2>3. x = now
        BY <1>4
    <2>4. Roomy(n, D, h, m, ch, now, ch)
        BY <1>2, <2>1, <2>2 DEF Roomy
    <2> QED BY <2>3, <2>4
<1>5. CASE IsFull(h)
    <2> DEFINE n2 == n * HASHMAP_RESIZE_FACTOR
    <2>1. n2 \in Nat \ {0} /\ h.num_of_entries < HASHMAP_LOAD_FACTOR * n2
        BY <1>1, <1>3, RoomAfterResize
    <2>2. x = Resized(now)
        BY <1>5
    <2>3. \E ch1 : Rehashed(n2, D, now, Resized(now), ch, ch1)
        <3>1. n2 = n * HASHMAP_RESIZE_FACTOR
            OBVIOUS
        <3>2. Chained(now.h, now.m, n, D, ch)
            BY <1>1, <1>2
        <3> HIDE DEF n2
        <3> QED BY Zenon, <1>1, <1>3, <2>1, <3>1, <3>2, ResizedChains
    <2> HIDE DEF n2
    <2>4. PICK ch1 : Rehashed(n2, D, now, x, ch, ch1)
        BY Zenon, <2>2, <2>3
    <2>5. /\ x \in Maps(n2, D) /\ SameData(m, x.m) /\ x.h.num_of_entries = h.num_of_entries
          /\ Chained(x.h, x.m, n2, D, ch1) /\ Covers(n2, D, ch1)
          /\ \A k \in Keys : OfKey(x.h, m, ch1, k) = OfKey(h, m, ch, k)
        <3>1. /\ x \in Maps(n2, D) /\ SameData(now.m, x.m)
              /\ x.h.num_of_entries = now.h.num_of_entries
              /\ Chained(x.h, x.m, n2, D, ch1) /\ Covers(n2, D, ch1)
              /\ \A k \in Keys : OfKey(x.h, now.m, ch1, k) = OfKey(now.h, now.m, ch, k)
            BY Zenon, <2>4 DEF Rehashed
        <3> QED BY <1>2, <3>1
    <2>6. x.h \in Structs(n2, D) /\ x.m \in [D -> Entries(D)] /\ x.h.num_of_buckets = n2
        <3>1. x \in Maps(n2, D)
            BY Zenon, <2>5
        <3> QED BY Zenon, <3>1, MapParts
    <2>7. x = [h |-> x.h, m |-> x.m]
        BY <2>5 DEF Maps
    <2>8. Sound(n2, D, x.h, x.m, ch1)
        <3>1. x.h.num_of_entries = Cardinality(D)
              /\ x.h.num_of_entries <= HASHMAP_LOAD_FACTOR * n2
            <4>1. HASHMAP_LOAD_FACTOR * n2 \in Nat
                BY <2>1, HashMapAssumption
            <4> QED BY <1>1, <1>3, <2>1, <2>5, <4>1
        <3> QED BY Zenon, <1>1, <2>1, <2>5, <2>6, <3>1 DEF Sound
    <2>9. ASSUME NEW k \in Keys PROVE OfKey(x.h, x.m, ch1, k) = OfKey(h, m, ch, k)
        <3>1. DOMAIN m = D /\ ch1 \in [0 .. n2 - 1 -> Seq(D)]
            <4>1. ch1 \in [0 .. n2 - 1 -> Seq(D)]
                BY Zenon, <2>5 DEF Chained
            <4>2. DOMAIN m = D
                BY DEF Sound
            <4> QED BY <4>1, <4>2
        <3>2. SameOfKey(x.h, m, x.m, ch1, k)
            BY Zenon, <2>1, <2>5, <2>6, <3>1, OfKeySame
        <3> QED BY <2>5, <3>2 DEF SameOfKey
    <2>10. Roomy(n2, D, h, m, ch, x, ch1)
        BY <2>1, <2>5, <2>7, <2>8, <2>9 DEF Roomy
    <2> QED BY Zenon, <2>10
<1> QED BY <1>4, <1>5

\* hashmap_add gives the key one entry more, behind those that it has.
LEMMA AddStep ==
    ASSUME NEW n, NEW ch, Sound(n, DOMAIN memory, hashmap, memory, ch),
           NEW key \in Keys, NEW data \in Data, hashmap_add(key, data)
    PROVE  \E n2, new, ch2 :
              /\ new \in Addresses \ DOMAIN memory
              /\ Added(n2, DOMAIN memory, hashmap, memory, ch, new, key, data,
                       hashmap', memory', ch2)
<1> DEFINE D == DOMAIN memory
           now == [h |-> hashmap, m |-> memory]
           x == IF IsFull(hashmap) THEN Resized(now) ELSE now
           new == Min(Addresses \ D)
           entry == [key |-> key, data |-> data, prev |-> NULL, next |-> NULL]
           y == Linked([h |-> x.h, m |-> With(x.m, new, entry)], new)
<1>1. /\ Addresses \ D # {} /\ hashmap' = [y.h EXCEPT !.num_of_entries = @ + 1]
      /\ memory' = y.m
    BY DEF hashmap_add
<1>2. new \in Addresses \ D
    <2>1. Addresses \ D \subseteq Nat
        BY HashMapAssumption
    <2> QED BY <1>1, <2>1, MinIsLeast
<1>3. PICK n2, ch1 : Roomy(n2, D, hashmap, memory, ch, x, ch1)
    <2> DEFINE z == x
    <2>1. z = IF IsFull(hashmap) THEN Resized(now) ELSE now
        OBVIOUS
    <2> HIDE DEF z
    <2>2. \E n2, ch1 : Roomy(n2, D, hashmap, memory, ch, z, ch1)
        BY Zenon, <2>1, RoomMade
    <2> QED BY Zenon, <2>2 DEF z
<1> HIDE DEF x, new
<1>4. /\ Sound(n2, D, x.h, x.m, ch1) /\ x = [h |-> x.h, m |-> x.m]
      /\ x.h.num_of_entries < HASHMAP_LOAD_FACTOR * n2
      /\ SameData(memory, x.m)
      /\ \A k \in Keys : OfKey(x.h, x.m, ch1, k) = OfKey(hashmap, memory, ch, k)
    BY Zenon, <1>3 DEF Roomy
<1> DEFINE e == entry
           u == y
<1>5. u = Linked([h |-> x.h, m |-> With(x.m, new, e)], new)
      /\ e = [key |-> key, data |-> data, prev |-> NULL, next |-> NULL]
      /\ hashmap' = [u.h EXCEPT !.num_of_entries = @ + 1] /\ memory' = u.m
    BY <1>1
<1> HIDE DEF e, u, y, entry
<1>6. \E ch2 : Added(n2, D, x.h, x.m, ch1, new, key, data, hashmap', u.m, ch2)
    BY Zenon, <1>2, <1>4, <1>5, AddedIs
<1>7. PICK ch2 : Added(n2, D, x.h, x.m, ch1, new, key, data, hashmap', memory', ch2)
    BY Zenon, <1>5, <1>6
<1>8. /\ Sound(n2, D \cup {new}, hashmap', memory', ch2) /\ memory'[new].data = data
      /\ \A q \in D : memory'[q].key = x.m[q].key /\ memory'[q].data = x.m[q].data
      /\ \A k \in Keys : OfKey(hashmap', memory', ch2, k)
           = IF k = key THEN Append(OfKey(x.h, x.m, ch1, k), new) ELSE OfKey(x.h, x.m, ch1, k)
    BY Zenon, <1>7 DEF Added
<1>9. Added(n2, D, hashmap, memory, ch, new, key, data, hashmap', memory', ch2)
    <2>1. \A q \in D : memory'[q].key = memory[q].key /\ memory'[q].data = memory[q].data
        BY <1>4, <1>8 DEF SameData
    <2>2. \A k \in Keys : OfKey(hashmap', memory', ch2, k)
            = IF k = key THEN Append(OfKey(hashmap, memory, ch, k), new)
              ELSE OfKey(hashmap, memory, ch, k)
        BY <1>4, <1>8
    <2> QED BY Zenon, <1>8, <2>1, <2>2 DEF Added
<1> QED BY Zenon, <1>2, <1>9
-----------------------------------------------------------------------------
(* hashmap_remove *)

\* A chain without its first entry.
Shorter(D, c, p, t) ==
    /\ t \in Seq(D \ {p}) /\ Len(c) \in Nat /\ 1 \in 1 .. Len(c) /\ c[1] = p
    /\ Len(t) = Len(c) - 1 /\ \A j \in 1 .. Len(t) : t[j] = c[j + 1] /\ j + 1 \in 1 .. Len(c)
    /\ At(c, 1) = p /\ At(t, 1) = At(c, 2) /\ At(t, 0) = NULL
    /\ \A j \in 1 .. Len(t) : At(t, j + 1) = At(c, (j + 1) + 1)
    /\ \A j \in 1 .. Len(t) : At(t, j - 1) = IF j = 1 THEN NULL ELSE c[j]
    /\ \A q : In(q, c) => q = p \/ In(q, t)
    /\ Distinct(t) /\ \A j \in 1 .. Len(t) : t[j] = At(c, 2) <=> j = 1

\* Tail gives it.
LEMMA TailIs ==
    ASSUME NEW D, NULL \notin D, NEW c \in Seq(D), c # <<>>, Distinct(c), NEW p, p = c[1]
    PROVE  Shorter(D, c, p, Tail(c))
<1> DEFINE t == Tail(c)
           k == Len(c)
<1>1. /\ k \in Nat /\ k >= 1 /\ t \in Seq(D) /\ Len(t) = k - 1
      /\ \A j \in 1 .. k : c[j] \in D
    OBVIOUS
<1>2. \A j \in 1 .. k - 1 : t[j] = c[j + 1] /\ j + 1 \in 1 .. k /\ j + 1 # 1
    BY <1>1
<1>3. \A i, j \in 1 .. k : c[i] = c[j] => i = j
    BY DEF Distinct
<1> HIDE DEF t, k
<1>4. \A j \in 1 .. k - 1 : t[j] # p /\ t[j] \in D
    BY <1>1, <1>2, <1>3
<1>5. t \in Seq(D \ {p})
    <2>1. t = [j \in 1 .. k - 1 |-> t[j]] /\ k - 1 \in Nat
        BY <1>1
    <2>2. t \in [1 .. k - 1 -> D \ {p}]
        BY <1>4, <2>1
    <2> QED BY <2>1, <2>2
<1>6. At(c, 1) = p /\ At(t, 0) = NULL
    BY <1>1 DEF At, k
<1>7. At(t, 1) = At(c, 2)
    <2>1. 1 \in 1 .. k - 1 <=> 2 \in 1 .. k
        BY <1>1
    <2>2. 1 \in 1 .. k - 1 => t[1] = c[2]
        BY <1>2
    <2> QED BY <1>1, <2>1, <2>2 DEF At, k
<1>8. ASSUME NEW j \in 1 .. k - 1
      PROVE  /\ At(t, j + 1) = At(c, (j + 1) + 1)
             /\ At(t, j - 1) = IF j = 1 THEN NULL ELSE c[j]
    <2>1. j + 1 \in 1 .. k - 1 <=> (j + 1) + 1 \in 1 .. k
        BY <1>1
    <2>2. j + 1 \in 1 .. k - 1 => t[j + 1] = c[(j + 1) + 1]
        BY <1>2
    <2>3. j # 1 => j - 1 \in 1 .. k - 1 /\ (j - 1) + 1 = j
        BY <1>1
    <2>4. j # 1 => t[j - 1] = c[j]
        BY <1>2, <2>3
    <2>5. j = 1 => j - 1 \notin 1 .. k - 1
        BY <1>1
    <2> QED BY <1>1, <2>1, <2>2, <2>3, <2>4, <2>5 DEF At, k
<1>9. ASSUME NEW q, In(q, c), q # p PROVE In(q, t)
    <2>1. PICK j \in 1 .. k : c[j] = q
        BY <1>9 DEF In, k
    <2>2. j # 1
        BY <1>9, <2>1
    <2>3. j - 1 \in 1 .. k - 1 /\ (j - 1) + 1 = j
        BY <1>1, <2>2
    <2>4. t[j - 1] = q
        BY <1>2, <2>1, <2>3
    <2> QED BY <1>1, <2>3, <2>4 DEF In
<1>10. Distinct(t)
    <2> SUFFICES ASSUME NEW i \in 1 .. k - 1, NEW j \in 1 .. k - 1, t[i] = t[j] PROVE i = j
        BY <1>1 DEF Distinct
    <2>1. c[i + 1] = c[j + 1] /\ i + 1 \in 1 .. k /\ j + 1 \in 1 .. k
        BY <1>2
    <2>2. i + 1 = j + 1
        BY <1>3, <2>1
    <2> QED BY <2>2
<1>11. ASSUME NEW j \in 1 .. k - 1 PROVE t[j] = At(c, 2) <=> j = 1
    <2>1. 2 \in 1 .. k /\ At(c, 2) = c[2]
        BY <1>1 DEF At, k
    <2>2. t[j] = c[j + 1] /\ j + 1 \in 1 .. k
        BY <1>2
    <2>3. c[j + 1] = c[2] <=> j + 1 = 2
        BY <1>3, <2>1, <2>2
    <2> QED BY <2>1, <2>2, <2>3
<1>12. 1 \in 1 .. k /\ c[1] = p
    BY <1>1
<1> QED BY <1>1, <1>2, <1>5, <1>6, <1>7, <1>8, <1>9, <1>10, <1>11, <1>12 DEF Shorter, t, k

\* What is done to the map when p, which is the first of the chain c of bucket i, is removed.
TakenOut(n, D, h, m, i, p, h2, m2) ==
    LET next == m[p].next
    IN  /\ h2 = [list_of_buckets |-> h2.list_of_buckets, num_of_buckets |-> n,
                  num_of_entries |-> h.num_of_entries - 1]
        /\ h2.num_of_buckets = n /\ h2.num_of_entries = h.num_of_entries - 1
        /\ h2.list_of_buckets \in [0 .. n - 1 -> Pointers(D)]
        /\ h2.list_of_buckets[i] = next
        /\ \A b \in 0 .. n - 1 : b # i => h2.list_of_buckets[b] = h.list_of_buckets[b]
        /\ DOMAIN m2 = D \ {p} /\ m2 = [q \in D \ {p} |-> m2[q]]
        /\ \A q \in D \ {p} :
              /\ m2[q].next = m[q].next /\ m2[q].key = m[q].key /\ m2[q].data = m[q].data
              /\ m2[q].prev = IF q = next THEN NULL ELSE m[q].prev
              /\ m2[q] \in Entries(D)

\* x is h and m without the links to p, if p is the first of its chain; if not, it still has
\* the fields that it should have.
LeftOver(n, D, h, m, p, x) ==
    /\ x.h \in Structs(n, D) /\ x.m \in [D -> Entries(D)]
    /\ x.h.num_of_entries = h.num_of_entries
    /\ m[p].prev = NULL =>
         TakenOut(n, D, h, m, get_hash(h, m[p].key), p,
                  [x.h EXCEPT !.num_of_entries = @ - 1], Without(x.m, {p}))

\* The links that hashmap_remove sets do this.
LEMMA UnlinkedType ==
    ASSUME NEW n \in Nat \ {0}, NEW D, NULL \notin D, NEW h \in Structs(n, D),
           NEW m \in [D -> Entries(D)], NEW p \in D,
           NEW x, x = Unlinked([h |-> h, m |-> m], p)
    PROVE  LeftOver(n, D, h, m, p, x)
<1> DEFINE map == [h |-> h, m |-> m]
           entry == m[p]
           i == get_hash(h, entry.key)
           h1 == [h EXCEPT !.list_of_buckets[i] = entry.next]
           m1 == [m EXCEPT ![p].prev = entry.next]
<1>1. map.h = h /\ map.m = m
    OBVIOUS
<1>2. /\ entry \in Entries(D) /\ entry.key \in Keys /\ entry.prev \in Pointers(D)
      /\ entry.next \in Pointers(D) /\ h.num_of_buckets = n /\ DOMAIN m = D
    BY DEF Entries, Structs
<1>3. i \in 0 .. n - 1
    BY Zenon, <1>2, HashType
<1>4. StartsWith(n, D, h, h1, i, entry.next)
    BY Zenon, <1>2, <1>3, BucketSet
<1>5. LinkedBack(D, m, m1, p, entry.next)
    BY Zenon, <1>2, BackSet
<1>6. h1 \in Structs(n, D) /\ h1.num_of_entries = h.num_of_entries /\ m1 \in [D -> Entries(D)]
    BY Zenon, <1>4, <1>5 DEF StartsWith, LinkedBack, Relinked
<1> DEFINE a == IF entry.prev # NULL THEN [map EXCEPT !.m[p].prev = entry.next]
                ELSE [map EXCEPT !.h.list_of_buckets[i] = entry.next]
<1>7. a = IF entry.prev # NULL THEN [h |-> h, m |-> m1] ELSE [h |-> h1, m |-> m]
    BY <1>1
<1>8. x = IF entry.next = NULL THEN a ELSE [a EXCEPT !.m[entry.next].prev = a.m[p].prev]
    BY <1>1 DEF Unlinked
<1> HIDE DEF h1, m1, a, map
<1>9. a.h \in Structs(n, D) /\ a.m \in [D -> Entries(D)] /\ a.h.num_of_entries = h.num_of_entries
      /\ a = [h |-> a.h, m |-> a.m]
    BY <1>6, <1>7
<1>10. a.m[p].prev \in Pointers(D)
    BY <1>9 DEF Entries
<1> DEFINE back == a.m[p].prev
           next == entry.next
           m3 == [a.m EXCEPT ![next].prev = back]
<1>11. LinkedBack(D, a.m, m3, next, back)
    BY Zenon, <1>9, <1>10, BackSet
<1>12. x.h = a.h /\ x.m = IF next = NULL THEN a.m ELSE m3
    BY <1>8, <1>9
<1> HIDE DEF m3, back
<1>13. /\ m3 \in [D -> Entries(D)] /\ SameData(a.m, m3)
       /\ \A o \in D : o # next => m3[o] = a.m[o]
       /\ next \in D => m3[next].prev = back /\ m3[next].next = a.m[next].next
    BY Zenon, <1>11 DEF LinkedBack, Relinked
<1>14. /\ x.h \in Structs(n, D) /\ x.m \in [D -> Entries(D)]
       /\ x.h.num_of_entries = h.num_of_entries
    BY <1>9, <1>12, <1>13
<1>15. ASSUME entry.prev = NULL
       PROVE  TakenOut(n, D, h, m, i, p, [x.h EXCEPT !.num_of_entries = @ - 1],
                       Without(x.m, {p}))
    <2> DEFINE h2 == [x.h EXCEPT !.num_of_entries = @ - 1]
               m2 == Without(x.m, {p})
    <2>1. a.h = h1 /\ a.m = m /\ back = NULL
        BY <1>7, <1>15 DEF back
    <2>2. h1.num_of_buckets = h.num_of_buckets /\ h1.list_of_buckets[i] = next
          /\ \A b \in 0 .. n - 1 : b # i => h1.list_of_buckets[b] = h.list_of_buckets[b]
        BY Zenon, <1>4 DEF StartsWith
    <2>3. /\ h2 = [list_of_buckets |-> h2.list_of_buckets, num_of_buckets |-> n,
                   num_of_entries |-> h.num_of_entries - 1]
          /\ h2.num_of_buckets = n /\ h2.num_of_entries = h.num_of_entries - 1
          /\ h2.list_of_buckets = h1.list_of_buckets
          /\ h2.list_of_buckets \in [0 .. n - 1 -> Pointers(D)]
        BY <1>6, <1>12, <2>1 DEF Structs
    <2>4. m2 = [q \in D \ {p} |-> x.m[q]]
        BY <1>14 DEF Without
    <2> HIDE DEF h2, m2, i
    <2>5. DOMAIN m2 = D \ {p} /\ m2 = [q \in D \ {p} |-> m2[q]]
          /\ \A q \in D \ {p} : m2[q] = x.m[q]
        BY <2>4
    <2>6. ASSUME NEW q \in D \ {p}
          PROVE  /\ m2[q].next = m[q].next /\ m2[q].key = m[q].key /\ m2[q].data = m[q].data
                 /\ m2[q].prev = IF q = next THEN NULL ELSE m[q].prev
                 /\ m2[q] \in Entries(D)
        <3>1. x.m[q] \in Entries(D)
            BY <1>14
        <3>2. CASE next = NULL
            <4>1. x.m = m /\ q # next
                BY <1>12, <2>1, <3>2
            <4> QED BY <2>5, <3>1, <4>1
        <3>3. CASE next # NULL
            <4>1. x.m = m3 /\ m3[q].key = m[q].key /\ m3[q].data = m[q].data
                BY <1>2, <1>12, <1>13, <2>1, <3>3 DEF SameData
            <4>2. q # next => m3[q] = m[q]
                BY <1>13, <2>1
            <4>3. q = next => m3[q].prev = NULL /\ m3[q].next = m[q].next
                BY <1>13, <2>1
            <4> QED BY <2>5, <3>1, <4>1, <4>2, <4>3
        <3> QED BY <3>2, <3>3
    <2>7. TakenOut(n, D, h, m, i, p, h2, m2)
        BY <2>2, <2>3, <2>5, <2>6 DEF TakenOut
    <2> QED BY <2>7 DEF h2, m2
<1> QED BY <1>14, <1>15 DEF LeftOver

\* h2 and m2 are h and m without p, which was the first entry of its key.
Removed(n, D, h, m, ch, p, h2, m2, ch2) ==
    /\ Sound(n, D \ {p}, h2, m2, ch2)
    /\ \A q \in D \ {p} : m2[q].key = m[q].key /\ m2[q].data = m[q].data
    /\ \A k \in Keys : OfKey(h2, m2, ch2, k) = IF k = m[p].key THEN Tail(OfKey(h, m, ch, k))
                                               ELSE OfKey(h, m, ch, k)

\* The bucket of the entry that is taken out.
LEMMA BucketShorter ==
    ASSUME NEW n \in Nat \ {0}, NEW D, NULL \notin D, NEW h, h.num_of_buckets = n, NEW m,
           NEW i, NEW c \in Seq(D), BucketIs(h, m, i, c), NEW p \in D,
           NEW h2, NEW m2, TakenOut(n, D, h, m, i, p, h2, m2), NEW t, Shorter(D, c, p, t)
    PROVE  BucketIs(h2, m2, i, t)
<1>1. /\ t \in Seq(D \ {p}) /\ Len(c) \in Nat /\ 1 \in 1 .. Len(c) /\ c[1] = p
      /\ Len(t) = Len(c) - 1 /\ \A j \in 1 .. Len(t) : t[j] = c[j + 1] /\ j + 1 \in 1 .. Len(c)
      /\ At(t, 1) = At(c, 2)
      /\ \A j \in 1 .. Len(t) : At(t, j + 1) = At(c, (j + 1) + 1)
      /\ \A j \in 1 .. Len(t) : At(t, j - 1) = IF j = 1 THEN NULL ELSE c[j]
      /\ Distinct(t) /\ \A j \in 1 .. Len(t) : t[j] = At(c, 2) <=> j = 1
    BY Zenon DEF Shorter
<1>2. /\ Forth(m, c) /\ Back(m, c)
      /\ \A j \in 1 .. Len(c) : get_hash(h, m[c[j]].key) = i
    BY Zenon DEF BucketIs
<1>3. m[p].next = At(c, 2)
    <2>1. m[c[1]].next = At(c, 1 + 1)
        BY Zenon, <1>1, <1>2 DEF Forth
    <2>2. 1 + 1 = 2
        OBVIOUS
    <2> QED BY <1>1, <2>1, <2>2
<1>4. /\ h2.num_of_buckets = n /\ h2.list_of_buckets[i] = At(c, 2)
      /\ \A q \in D \ {p} : /\ m2[q].next = m[q].next /\ m2[q].key = m[q].key
                            /\ m2[q].prev = IF q = At(c, 2) THEN NULL ELSE m[q].prev
    BY <1>3 DEF TakenOut
<1>5. \A j \in 1 .. Len(t) : t[j] \in D \ {p}
    BY <1>1
<1>6. ASSUME NEW j \in 1 .. Len(t)
      PROVE  /\ m2[t[j]].next = At(t, j + 1) /\ m2[t[j]].prev = At(t, j - 1)
             /\ get_hash(h2, m2[t[j]].key) = i
    <2>1. t[j] = c[j + 1] /\ j + 1 \in 1 .. Len(c) /\ t[j] \in D \ {p}
        BY <1>1, <1>5
    <2>2. m[c[j + 1]].next = At(c, (j + 1) + 1)
        BY Zenon, <1>2, <2>1 DEF Forth
    <2>3. m[c[j + 1]].prev = At(c, (j + 1) - 1)
        BY Zenon, <1>2, <2>1 DEF Back
    <2>4. (j + 1) - 1 = j /\ j \in 1 .. Len(c)
        BY <1>1
    <2>5. At(c, j) = c[j]
        BY <2>4 DEF At
    <2>6. m2[t[j]].next = At(t, j + 1)
        BY <1>1, <1>4, <2>1, <2>2
    <2>7. m2[t[j]].prev = At(t, j - 1)
        <3>1. m2[t[j]].prev = IF t[j] = At(c, 2) THEN NULL ELSE m[t[j]].prev
            BY Zenon, <1>4, <2>1
        <3>2. m[t[j]].prev = c[j]
            BY <2>1, <2>3, <2>4, <2>5
        <3>3. /\ At(t, j - 1) = IF j = 1 THEN NULL ELSE c[j]
              /\ t[j] = At(c, 2) <=> j = 1
            BY Zenon, <1>1
        <3> QED BY Zenon, <3>1, <3>2, <3>3
    <2>8. get_hash(h2, m2[t[j]].key) = i
        <3>1. m2[t[j]].key = m[c[j + 1]].key
            BY <1>4, <2>1
        <3>2. get_hash(h, m[c[j + 1]].key) = i
            BY Zenon, <1>2, <2>1
        <3> QED BY <1>4, <3>1, <3>2 DEF get_hash
    <2> QED BY <2>6, <2>7, <2>8
<1>7. Forth(m2, t) /\ Back(m2, t) /\ \A j \in 1 .. Len(t) : get_hash(h2, m2[t[j]].key) = i
    BY Zenon, <1>6 DEF Forth, Back
<1>8. h2.list_of_buckets[i] = At(t, 1)
    BY <1>1, <1>4
<1> QED BY Zenon, <1>1, <1>7, <1>8 DEF BucketIs

\* The chain d of bucket b does without p.
WithoutIt(D, h2, m2, b, p, d) == d \in Seq(D \ {p}) /\ BucketIs(h2, m2, b, d)

\* Another bucket.
LEMMA BucketElsewhere ==
    ASSUME NEW n \in Nat \ {0}, NEW D, NULL \notin D, NEW h, h.num_of_buckets = n, NEW m,
           NEW i, NEW c \in Seq(D), BucketIs(h, m, i, c), NEW p \in D, In(p, c),
           NEW h2, NEW m2, TakenOut(n, D, h, m, i, p, h2, m2),
           NEW b \in 0 .. n - 1, b # i, NEW d \in Seq(D), BucketIs(h, m, b, d)
    PROVE  WithoutIt(D, h2, m2, b, p, d)
<1>1. /\ h2.num_of_buckets = n /\ h2.list_of_buckets[b] = h.list_of_buckets[b]
      /\ \A q \in D \ {p} : /\ m2[q].next = m[q].next /\ m2[q].key = m[q].key
                            /\ m2[q].prev = IF q = m[p].next THEN NULL ELSE m[q].prev
    BY DEF TakenOut
<1>2. get_hash(h, m[p].key) = i
    <2>1. BucketIs(h, m, i, c) /\ In(p, c)
        OBVIOUS
    <2> QED BY <2>1, InBucket
<1>3. \A q : In(q, d) => get_hash(h, m[q].key) = b
    BY Zenon, InBucket
<1>4. \A j \in 1 .. Len(d) : In(d[j], d) /\ d[j] \in D
    BY DEF In
<1>5. \A j \in 1 .. Len(d) : d[j] # p
    BY Zenon, <1>2, <1>3, <1>4
<1>6. ASSUME NEW j \in 1 .. Len(d) PROVE d[j] # m[p].next
    <2>1. SUFFICES ASSUME d[j] = m[p].next PROVE FALSE
        OBVIOUS
    <2>2. PICK l \in 1 .. Len(c) : c[l] = p
        BY Zenon DEF In
    <2>3. m[p].next = At(c, l + 1)
        BY Zenon, <2>2 DEF BucketIs, Forth
    <2>4. d[j] \in D
        BY Zenon, <1>4
    <2>5. l + 1 \in 1 .. Len(c) /\ d[j] = c[l + 1]
        BY <2>1, <2>3, <2>4 DEF At
    <2>6. In(d[j], c)
        BY Zenon, <2>5 DEF In
    <2>7. get_hash(h, m[d[j]].key) = i
        BY Zenon, <2>6, InBucket
    <2>8. get_hash(h, m[d[j]].key) = b
        BY Zenon, <1>3, <1>4
    <2> QED BY <2>7, <2>8
<1>7. d \in Seq(D \ {p})
    <2>1. Len(d) \in Nat /\ d = [j \in 1 .. Len(d) |-> d[j]]
        OBVIOUS
    <2>2. \A j \in 1 .. Len(d) : d[j] \in D \ {p}
        BY <1>4, <1>5
    <2>3. d \in [1 .. Len(d) -> D \ {p}]
        BY <2>1, <2>2
    <2> QED BY <2>1, <2>3
<1>8. /\ h.list_of_buckets[b] = At(d, 1) /\ Forth(m, d) /\ Back(m, d) /\ Distinct(d)
      /\ \A j \in 1 .. Len(d) : get_hash(h, m[d[j]].key) = b
    BY Zenon DEF BucketIs
<1>9. \A j \in 1 .. Len(d) : /\ m2[d[j]].next = m[d[j]].next /\ m2[d[j]].prev = m[d[j]].prev
                             /\ m2[d[j]].key = m[d[j]].key
    BY <1>1, <1>4, <1>5, <1>6
<1>10. Forth(m2, d) /\ Back(m2, d) /\ \A j \in 1 .. Len(d) : get_hash(h2, m2[d[j]].key) = b
    BY <1>1, <1>8, <1>9 DEF Forth, Back, get_hash
<1> QED BY <1>1, <1>7, <1>8, <1>10 DEF BucketIs, WithoutIt

\* When every entry is in a chain, no link leads out of the chains.
LEMMA LinksInChains ==
    ASSUME NEW n, NEW D, NEW D2, NEW h, NEW m, NEW ch \in [0 .. n - 1 -> Seq(D2)],
           \A i \in 0 .. n - 1 : BucketIs(h, m, i, ch[i]), Covers(n, D2, ch),
           m = [q \in D2 |-> m[q]], \A q \in D2 : m[q] \in Entries(D),
           h.list_of_buckets \in [0 .. n - 1 -> Pointers(D)]
    PROVE  m \in [D2 -> Entries(D2)] /\ h.list_of_buckets \in [0 .. n - 1 -> Pointers(D2)]
<1>1. ASSUME NEW i \in 0 .. n - 1, NEW j \in Int PROVE At(ch[i], j) \in Pointers(D2)
    BY DEF At, Pointers
<1>2. ASSUME NEW q \in D2 PROVE m[q] \in Entries(D2)
    <2>1. PICK i \in 0 .. n - 1 : In(q, ch[i])
        BY Zenon DEF Covers
    <2>2. PICK j \in 1 .. Len(ch[i]) : ch[i][j] = q
        BY Zenon, <2>1 DEF In
    <2>3. Forth(m, ch[i]) /\ Back(m, ch[i])
        BY Zenon DEF BucketIs
    <2>4. m[q].next = At(ch[i], j + 1) /\ m[q].prev = At(ch[i], j - 1)
        BY Zenon, <2>2, <2>3 DEF Forth, Back
    <2>5. m[q].next \in Pointers(D2) /\ m[q].prev \in Pointers(D2)
        BY <1>1, <2>4
    <2>6. m[q] \in Entries(D)
        OBVIOUS
    <2> QED BY <2>5, <2>6 DEF Entries
<1>3. ASSUME NEW i \in 0 .. n - 1 PROVE h.list_of_buckets[i] \in Pointers(D2)
    <2>1. h.list_of_buckets[i] = At(ch[i], 1)
        BY Zenon DEF BucketIs
    <2> QED BY <1>1, <2>1
<1>4. m \in [D2 -> Entries(D2)]
    BY <1>2
<1>5. h.list_of_buckets \in [0 .. n - 1 -> Pointers(D2)]
    BY <1>3
<1> QED BY <1>4, <1>5

\* Taking out the first entry of its chain leaves the other entries in theirs, and each
\* key what it had, but the key of the entry its first one.
LEMMA RemovedIs ==
    ASSUME NEW n, NEW D, NEW h, NEW m, NEW ch, Sound(n, D, h, m, ch),
           NEW p \in D, m[p].prev = NULL,
           NEW h2, NEW m2, TakenOut(n, D, h, m, get_hash(h, m[p].key), p, h2, m2)
    PROVE  \E ch2 : Removed(n, D, h, m, ch, p, h2, m2, ch2)
<1> DEFINE i == get_hash(h, m[p].key)
           c == ch[i]
           t == Tail(c)
           D2 == D \ {p}
           ch2 == [ch EXCEPT ![i] = t]
<1>1. /\ n \in Nat \ {0} /\ Allocated(D) /\ D \subseteq Addresses
      /\ h \in Structs(n, D) /\ m \in [D -> Entries(D)]
      /\ Covers(n, D, ch)
      /\ h.num_of_entries = Cardinality(D) /\ h.num_of_entries <= HASHMAP_LOAD_FACTOR * n
    BY Zenon DEF Sound
<1>2. /\ h.num_of_buckets = n /\ DOMAIN m = D /\ NULL \notin D /\ IsFiniteSet(D)
      /\ ch \in [0 .. n - 1 -> Seq(D)] /\ \A b \in 0 .. n - 1 : BucketIs(h, m, b, ch[b])
    BY SoundParts
<1>3. m[p].key \in Keys /\ i \in 0 .. n - 1
    <2>1. m[p].key \in Keys
        BY <1>1 DEF Entries
    <2> QED BY Zenon, <1>1, <1>2, <2>1, HashType
<1>4. TakenOut(n, D, h, m, i, p, h2, m2) /\ i = get_hash(h, m[p].key)
    OBVIOUS
<1> HIDE DEF i
<1>5. c \in Seq(D) /\ BucketIs(h, m, i, c) /\ Distinct(c)
    <2>1. c \in Seq(D) /\ BucketIs(h, m, i, c)
        BY <1>2, <1>3
    <2> QED BY Zenon, <2>1 DEF BucketIs
<1> HIDE DEF c
<1>6. In(p, c)
    <2>1. PICK b \in 0 .. n - 1 : In(p, ch[b])
        BY Zenon, <1>1 DEF Covers
    <2>2. BucketIs(h, m, b, ch[b])
        BY Zenon, <1>2
    <2>3. b = i
        BY <1>4, <2>1, <2>2, InBucket
    <2> QED BY <2>1, <2>3 DEF c
<1>7. c # <<>> /\ p = c[1]
    <2>1. PICK j \in 1 .. Len(c) : c[j] = p
        BY Zenon, <1>6 DEF In
    <2>2. At(c, j - 1) = NULL
        <3>1. m[c[j]].prev = At(c, j - 1)
            BY Zenon, <1>5 DEF BucketIs, Back
        <3> QED BY <2>1, <3>1
    <2>3. \A l \in 1 .. Len(c) : c[l] # NULL
        BY <1>2, <1>5
    <2>4. j - 1 \notin 1 .. Len(c)
        BY <2>2, <2>3 DEF At
    <2>5. j = 1
        BY <1>5, <2>4
    <2> QED BY <2>1, <2>5
<1>8. Shorter(D, c, p, t)
    BY Zenon, <1>2, <1>5, <1>7, TailIs
<1>9. t \in Seq(D2) /\ \A q : In(q, c) => q = p \/ In(q, t)
    BY Zenon, <1>8 DEF Shorter
<1> HIDE DEF t
<1>10. BucketIs(h2, m2, i, t)
    BY Zenon, <1>1, <1>2, <1>4, <1>5, <1>8, BucketShorter
<1>11. ASSUME NEW b \in 0 .. n - 1, b # i PROVE ch[b] \in Seq(D2) /\ BucketIs(h2, m2, b, ch[b])
    <2> DEFINE d == ch[b]
    <2>1. d \in Seq(D) /\ BucketIs(h, m, b, d)
        BY <1>2
    <2> HIDE DEF d, D2
    <2>2. d \in Seq(D \ {p}) /\ BucketIs(h2, m2, b, d)
        <3>1. n \in Nat \ {0} /\ NULL \notin D /\ h.num_of_buckets = n
            BY <1>1, <1>2
        <3>2. c \in Seq(D) /\ BucketIs(h, m, i, c) /\ b # i
            BY <1>5, <1>11
        <3>3. TakenOut(n, D, h, m, i, p, h2, m2)
            BY <1>4
        <3>4. WithoutIt(D, h2, m2, b, p, d)
            BY Zenon, <1>6, <2>1, <3>1, <3>2, <3>3, BucketElsewhere
        <3> QED BY Zenon, <3>4 DEF WithoutIt
    <2> QED BY <2>2 DEF d, D2
<1>12. ch2[i] = t /\ \A b \in 0 .. n - 1 : b # i => ch2[b] = ch[b]
    BY <1>2, <1>3
<1>13. ch2 \in [0 .. n - 1 -> Seq(D2)]
    <2> HIDE DEF D2
    <2> QED BY <1>2, <1>9, <1>11
<1> HIDE DEF ch2
<1>14. \A b \in 0 .. n - 1 : BucketIs(h2, m2, b, ch2[b])
    BY <1>10, <1>11, <1>12
<1>15. Covers(n, D2, ch2)
    <2> SUFFICES ASSUME NEW q \in D2 PROVE \E b \in 0 .. n - 1 : In(q, ch2[b])
        BY Zenon DEF Covers
    <2>1. PICK b \in 0 .. n - 1 : In(q, ch[b])
        BY <1>1 DEF Covers
    <2>2. CASE b = i
        <3>1. In(q, c)
            BY <2>1, <2>2 DEF c
        <3>2. In(q, t)
            BY <1>9, <3>1
        <3> QED BY Zenon, <1>3, <1>12, <3>2
    <2>3. CASE b # i
        BY Zenon, <1>12, <2>1, <2>3
    <2> QED BY <2>2, <2>3
<1>16. /\ h2 = [list_of_buckets |-> h2.list_of_buckets, num_of_buckets |-> n,
                num_of_entries |-> h.num_of_entries - 1]
       /\ h2.num_of_buckets = n /\ h2.num_of_entries = h.num_of_entries - 1
       /\ h2.list_of_buckets \in [0 .. n - 1 -> Pointers(D)]
       /\ DOMAIN m2 = D2 /\ m2 = [q \in D2 |-> m2[q]]
       /\ \A q \in D2 : m2[q].key = m[q].key /\ m2[q].data = m[q].data /\ m2[q] \in Entries(D)
    BY <1>4 DEF TakenOut
<1> HIDE DEF D2
<1>17. m2 \in [D2 -> Entries(D2)] /\ h2.list_of_buckets \in [0 .. n - 1 -> Pointers(D2)]
    BY Zenon, <1>13, <1>14, <1>15, <1>16, LinksInChains
<1>18. /\ IsFiniteSet(D2) /\ Cardinality(D2) = Cardinality(D) - 1
       /\ Cardinality(D) \in Nat /\ Cardinality(D2) \in Nat
    BY <1>2, FS_RemoveElement, FS_CardinalityType DEF D2
<1>19. h2 \in Structs(n, D2)
    <2>1. h2.num_of_entries \in Nat
        BY <1>1, <1>16, <1>18
    <2> QED BY <1>16, <1>17, <2>1 DEF Structs
<1>20. Sound(n, D2, h2, m2, ch2)
    <2>1. Allocated(D2) /\ D2 \subseteq Addresses
        BY <1>1, <1>18 DEF Allocated, D2
    <2>2. h2.num_of_entries = Cardinality(D2) /\ h2.num_of_entries <= HASHMAP_LOAD_FACTOR * n
        <3>1. HASHMAP_LOAD_FACTOR * n \in Nat
            BY <1>1, HashMapAssumption
        <3> QED BY <1>1, <1>16, <1>18, <3>1
    <2>3. Chained(h2, m2, n, D2, ch2)
        BY Zenon, <1>13, <1>14 DEF Chained
    <2> QED BY Zenon, <1>1, <1>15, <1>17, <1>19, <2>1, <2>2, <2>3 DEF Sound
<1>21. ASSUME NEW k \in Keys
       PROVE  OfKey(h2, m2, ch2, k)
                = IF k = m[p].key THEN Tail(OfKey(h, m, ch, k)) ELSE OfKey(h, m, ch, k)
    <2> DEFINE b == get_hash(h, k)
               d == ch2[b]
    <2>1. b \in 0 .. n - 1 /\ get_hash(h2, k) = b
        BY <1>1, <1>2, <1>16, HashType DEF get_hash
    <2>2. OfKey(h2, m2, ch2, k) = Matching(m2, k)[d]
        BY <2>1 DEF OfKey
    <2>3. OfKey(h, m, ch, k) = Matching(m, k)[ch[b]]
        BY DEF OfKey
    <2>4. d \in Seq(D2) /\ d \in Seq(D)
        <3>1. d \in Seq(D2)
            BY <1>13, <2>1
        <3>2. D2 \subseteq D
            BY DEF D2
        <3> HIDE DEF d
        <3> QED BY <3>1, <3>2
    <2>5. k = m[p].key => b = i
        BY <1>4
    <2> HIDE DEF b, d
    <2>6. Matching(m2, k)[d] = Matching(m, k)[d]
        <3>1. \A j \in 1 .. Len(d) : m2[d[j]].key = m[d[j]].key
            BY <1>16, <2>4
        <3>2. SameMatching(m, m2, k, d)
            BY Zenon, <1>2, <1>16, <2>4, <3>1, MatchingSame
        <3> QED BY <3>2 DEF SameMatching
    <2>7. CASE b = i
        <3>1. d = Tail(c) /\ ch[b] = c
            BY <1>12, <2>7 DEF d, c, t
        <3>2. WithFirst(c[1], m[c[1]].key = k, Matching(m, k)[c], Matching(m, k)[Tail(c)])
            BY Zenon, <1>2, <1>5, <1>7, MatchingTail
        <3>3. m[c[1]].key = k <=> k = m[p].key
            BY <1>7
        <3> QED BY <2>2, <2>3, <2>6, <3>1, <3>2, <3>3 DEF WithFirst
    <2>8. CASE b # i
        <3>1. d = ch[b] /\ k # m[p].key
            BY <1>12, <2>1, <2>5, <2>8 DEF d
        <3> QED BY <2>2, <2>3, <2>6, <3>1
    <2> QED BY <2>7, <2>8
<1>22. Removed(n, D, h, m, ch, p, h2, m2, ch2)
    BY Zenon, <1>16, <1>20, <1>21 DEF Removed, D2
<1> QED BY Zenon, <1>22

-----------------------------------------------------------------------------
(* WriteFound *)

\* m2 is m with other data in the entry p.
Written(n, D, h, m, m2, ch, p, data) ==
    /\ Sound(n, D, h, m2, ch)
    /\ m2[p].data = data /\ \A q \in D \ {p} : m2[q].data = m[q].data
    /\ \A k \in Keys : OfKey(h, m2, ch, k) = OfKey(h, m, ch, k)

\* Other data in an entry moves nothing.
LEMMA WrittenIs ==
    ASSUME NEW n, NEW D, NEW h, NEW m, NEW ch, Sound(n, D, h, m, ch),
           NEW p \in D, NEW data \in Data, NEW m2, m2 = [m EXCEPT ![p].data = data]
    PROVE  Written(n, D, h, m, m2, ch, p, data)
<1>1. /\ n \in Nat \ {0} /\ Allocated(D) /\ D \subseteq Addresses
      /\ h \in Structs(n, D) /\ m \in [D -> Entries(D)]
      /\ Chained(h, m, n, D, ch) /\ Covers(n, D, ch)
      /\ h.num_of_entries = Cardinality(D) /\ h.num_of_entries <= HASHMAP_LOAD_FACTOR * n
    BY Zenon DEF Sound
<1>2. /\ h.num_of_buckets = n /\ DOMAIN m = D
      /\ ch \in [0 .. n - 1 -> Seq(D)] /\ \A b \in 0 .. n - 1 : BucketIs(h, m, b, ch[b])
    BY SoundParts
<1>3. /\ m2 \in [D -> Entries(D)] /\ DOMAIN m2 = D
      /\ m2[p].data = data /\ \A q \in D \ {p} : m2[q].data = m[q].data
      /\ \A q \in D : m2[q].key = m[q].key /\ m2[q].next = m[q].next /\ m2[q].prev = m[q].prev
    BY <1>1 DEF Entries
<1>4. ASSUME NEW b \in 0 .. n - 1 PROVE BucketIs(h, m2, b, ch[b])
    <2> DEFINE c == ch[b]
    <2>1. c \in Seq(D) /\ BucketIs(h, m, b, c)
        BY <1>2
    <2> HIDE DEF c
    <2>2. \A j \in 1 .. Len(c) : c[j] \in D
        BY <2>1
    <2>3. \A j \in 1 .. Len(c) : /\ m2[c[j]].key = m[c[j]].key /\ m2[c[j]].next = m[c[j]].next
                                 /\ m2[c[j]].prev = m[c[j]].prev
        BY Zenon, <1>3, <2>2
    <2>4. BucketIs(h, m2, b, c)
        BY <2>1, <2>3 DEF BucketIs, Forth, Back
    <2> QED BY <2>4 DEF c
<1>5. Sound(n, D, h, m2, ch)
    <2>1. Chained(h, m2, n, D, ch)
        BY Zenon, <1>2, <1>4 DEF Chained
    <2> QED BY Zenon, <1>1, <1>3, <2>1 DEF Sound
<1>6. ASSUME NEW k \in Keys PROVE OfKey(h, m2, ch, k) = OfKey(h, m, ch, k)
    <2> DEFINE c == ch[get_hash(h, k)]
    <2>1. get_hash(h, k) \in 0 .. n - 1
        BY Zenon, <1>1, <1>2, HashType
    <2>2. c \in Seq(D)
        BY <1>2, <2>1
    <2>3. OfKey(h, m2, ch, k) = Matching(m2, k)[c] /\ OfKey(h, m, ch, k) = Matching(m, k)[c]
        BY DEF OfKey
    <2> HIDE DEF c
    <2>4. \A j \in 1 .. Len(c) : m2[c[j]].key = m[c[j]].key
        BY <1>3, <2>2
    <2>5. SameMatching(m, m2, k, c)
        BY Zenon, <1>2, <1>3, <2>2, <2>4, MatchingSame
    <2> QED BY <2>3, <2>5 DEF SameMatching
<1> QED BY Zenon, <1>3, <1>5, <1>6 DEF Written
-----------------------------------------------------------------------------
(* What holds in every state *)

\* Where a client's pointer leads: to the first entry of its key.
Holding(h, m, ch, hd) ==
    \/ hd = Nothing
    \/ /\ hd = [key |-> hd.key, ptr |-> hd.ptr] /\ hd.key \in Keys
       /\ OfKey(h, m, ch, hd.key) # <<>> /\ hd.ptr = Head(OfKey(h, m, ch, hd.key))

\* A map that can be used.
Good(h, m, hd, ch) ==
    Sound(h.num_of_buckets, DOMAIN m, h, m, ch) /\ Holding(h, m, ch, hd)

\* The fields have their types, and the entries are counted.
Typed(h, m, hd) ==
    /\ h.num_of_buckets \in Nat
    /\ h.list_of_buckets \in [0 .. h.num_of_buckets - 1 -> {NULL} \cup Addresses]
    /\ DOMAIN m \subseteq Addresses
    /\ \A p \in DOMAIN m :
         m[p] \in [key : Keys, data : Data,
                   prev : {NULL} \cup Addresses, next : {NULL} \cup Addresses]
    /\ hd = Nothing \/ hd \in [key : Keys, ptr : Addresses]

\* The inductive invariant: as long as the map can be used there are chains in which all
\* entries are, and what the client holds is the first entry of its key.
HashMapInv ==
    /\ TypeOK
    /\ Usable => \E ch : Good(hashmap, memory, held, ch)
    /\ destroyed => DOMAIN memory = {}

\* What is linked in chains has its type.
LEMMA MapTypes ==
    ASSUME NEW n \in Nat, NEW D, D \subseteq Addresses, NEW h \in Structs(n, D),
           NEW m \in [D -> Entries(D)]
    PROVE  /\ h.num_of_buckets \in Nat
           /\ h.list_of_buckets \in [0 .. h.num_of_buckets - 1 -> {NULL} \cup Addresses]
           /\ \A p \in D : m[p] \in [key : Keys, data : Data,
                                     prev : {NULL} \cup Addresses, next : {NULL} \cup Addresses]
<1>1. Pointers(D) \subseteq {NULL} \cup Addresses
    BY DEF Pointers
<1>2. h.num_of_buckets = n /\ h.list_of_buckets \in [0 .. n - 1 -> Pointers(D)]
    BY DEF Structs
<1>3. \A p \in D : m[p] \in Entries(D)
    OBVIOUS
<1>4. \A p \in D : m[p] \in [key : Keys, data : Data,
                             prev : {NULL} \cup Addresses, next : {NULL} \cup Addresses]
    BY <1>1, <1>3 DEF Entries
<1>5. h.list_of_buckets \in [0 .. n - 1 -> {NULL} \cup Addresses]
    BY <1>1, <1>2
<1> QED BY <1>2, <1>4, <1>5

\* A good map has the types and the count.
LEMMA GoodTypes ==
    ASSUME NEW h, NEW m, NEW hd, NEW ch, Good(h, m, hd, ch)
    PROVE  Typed(h, m, hd) /\ h.num_of_entries = Cardinality(DOMAIN m)
<1> DEFINE n == h.num_of_buckets
           D == DOMAIN m
<1>1. /\ Sound(n, D, h, m, ch) /\ Holding(h, m, ch, hd)
    BY DEF Good
<1>2. /\ n \in Nat \ {0} /\ D \subseteq Addresses /\ h \in Structs(n, D)
      /\ m \in [D -> Entries(D)] /\ h.num_of_entries = Cardinality(D)
    BY <1>1 DEF Sound
<1>3. hd = Nothing \/ hd \in [key : Keys, ptr : Addresses]
    <2>1. SUFFICES ASSUME hd # Nothing PROVE hd \in [key : Keys, ptr : Addresses]
        OBVIOUS
    <2> DEFINE s == OfKey(h, m, ch, hd.key)
    <2>2. /\ hd = [key |-> hd.key, ptr |-> hd.ptr] /\ hd.key \in Keys
          /\ s # <<>> /\ hd.ptr = Head(s)
        BY <1>1, <2>1 DEF Holding
    <2>3. s \in Seq(D)
        BY <1>1, <2>2, OfKeyIs DEF KeyEntries
    <2> HIDE DEF s
    <2>4. hd.ptr \in D
        BY <2>2, <2>3
    <2> QED BY <1>2, <2>2, <2>4
<1>4. Typed(h, m, hd)
    BY <1>2, <1>3, MapTypes DEF Typed
<1> QED BY <1>2, <1>4

\* Contents of another map.
ContentsOf(h, m) == [key \in Keys |-> ValuesOf(m)[Matching(m, key)[ChainOf(h, m, key)]]]

\* In a good map they are the values of the entries of each key.
LEMMA ContentsAre ==
    ASSUME NEW n, NEW D, NEW h, NEW m, NEW ch, Sound(n, D, h, m, ch)
    PROVE  ContentsOf(h, m) = [key \in Keys |-> Values(m, OfKey(h, m, ch, key))]
<1>1. ASSUME NEW key \in Keys
      PROVE  ValuesOf(m)[Matching(m, key)[ChainOf(h, m, key)]] = Values(m, OfKey(h, m, ch, key))
    <2> DEFINE s == OfKey(h, m, ch, key)
    <2>1. Matching(m, key)[ChainOf(h, m, key)] = s /\ s \in Seq(D)
        BY OfKeyIs DEF KeyEntries
    <2>2. DOMAIN m = D
        BY DEF Sound
    <2> HIDE DEF s
    <2>3. ValuesOf(m)[s] = Values(m, s)
        BY <2>1, <2>2, ValuesAre
    <2> QED BY <2>1, <2>3 DEF s
<1> QED BY <1>1 DEF ContentsOf

\* hashmap_init makes a good map without contents.
LEMMA InitGood ==
    ASSUME Init
    PROVE  \E ch : /\ Good(hashmap, memory, held, ch) /\ DOMAIN memory = {}
                   /\ ContentsOf(hashmap, memory) = [key \in Keys |-> <<>>]
<1> DEFINE n == HASHMAP_STARTING_NUM_OF_BUCKETS
           ch == [i \in 0 .. n - 1 |-> <<>>]
<1>1. /\ hashmap.num_of_buckets = n /\ hashmap.num_of_entries = 0
      /\ hashmap.list_of_buckets = [i \in 0 .. n - 1 |-> NULL]
      /\ hashmap = [list_of_buckets |-> hashmap.list_of_buckets, num_of_buckets |-> n,
                    num_of_entries |-> 0]
      /\ memory = <<>> /\ held = Nothing
    BY DEF Init
<1>2. n \in Nat \ {0} /\ HASHMAP_LOAD_FACTOR * n \in Nat
    BY HashMapAssumption
<1>3. DOMAIN memory = {} /\ memory \in [{} -> Entries({})]
    BY <1>1
<1>4. Allocated({}) /\ {} \subseteq Addresses /\ Cardinality({}) = 0
    BY FS_EmptySet DEF Allocated
<1>5. \A i \in 0 .. n - 1 : hashmap.list_of_buckets[i] = NULL
    BY <1>1
<1>6. hashmap \in Structs(n, {})
    <2>1. hashmap.list_of_buckets \in [0 .. n - 1 -> Pointers({})]
        BY <1>1 DEF Pointers
    <2> QED BY <1>1, <2>1 DEF Structs
<1>7. ch \in [0 .. n - 1 -> Seq({})] /\ \A i \in 0 .. n - 1 : ch[i] = <<>>
    OBVIOUS
<1> HIDE DEF ch, n
<1>8. ASSUME NEW i \in 0 .. n - 1 PROVE BucketIs(hashmap, memory, i, ch[i])
    <2>1. BucketIs(hashmap, memory, i, <<>>)
        BY Zenon, <1>3, <1>5, EmptyChain
    <2> QED BY <1>7, <2>1
<1>9. Sound(n, {}, hashmap, memory, ch)
    <2>1. Chained(hashmap, memory, n, {}, ch)
        BY Zenon, <1>7, <1>8 DEF Chained
    <2>2. Covers(n, {}, ch)
        BY DEF Covers
    <2> QED BY <1>1, <1>2, <1>3, <1>4, <1>6, <2>1, <2>2 DEF Sound
<1>10. Good(hashmap, memory, held, ch)
    BY <1>1, <1>3, <1>9 DEF Good, Holding
<1>11. ContentsOf(hashmap, memory) = [key \in Keys |-> <<>>]
    <2>1. ASSUME NEW key \in Keys PROVE Values(memory, OfKey(hashmap, memory, ch, key)) = <<>>
        <3>1. get_hash(hashmap, key) \in 0 .. n - 1
            BY <1>1, <1>2, HashType
        <3>2. Matching(memory, key)[<<>>] = <<>>
            BY <1>3, EmptyChain
        <3>3. OfKey(hashmap, memory, ch, key) = <<>>
            BY <1>7, <3>1, <3>2 DEF OfKey
        <3> QED BY <3>3 DEF Values
    <2>2. ContentsOf(hashmap, memory)
            = [key \in Keys |-> Values(memory, OfKey(hashmap, memory, ch, key))]
        BY <1>9, ContentsAre
    <2> QED BY <2>1, <2>2
<1> QED BY <1>3, <1>10, <1>11

\* Adding leaves a good map; the key has one value more.
LEMMA AddGood ==
    ASSUME NEW ch, Good(hashmap, memory, held, ch),
           NEW key \in Keys, NEW data \in Data, hashmap_add(key, data)
    PROVE  /\ \E ch2 : Good(hashmap', memory', held', ch2)
           /\ ContentsOf(hashmap', memory')
                = [ContentsOf(hashmap, memory) EXCEPT ![key] = Append(@, data)]
<1> DEFINE n == hashmap.num_of_buckets
           D == DOMAIN memory
           Old(k) == OfKey(hashmap, memory, ch, k)
<1>1. Sound(n, D, hashmap, memory, ch) /\ Holding(hashmap, memory, ch, held) /\ held' = held
    BY DEF Good, hashmap_add
<1>2. PICK n2, new, ch2 :
         /\ new \in Addresses \ D
         /\ Added(n2, D, hashmap, memory, ch, new, key, data, hashmap', memory', ch2)
    <2> HIDE DEF n
    <2> QED BY <1>1, AddStep
<1> DEFINE D2 == D \cup {new}
           New(k) == OfKey(hashmap', memory', ch2, k)
<1>3. /\ Sound(n2, D2, hashmap', memory', ch2) /\ memory'[new].data = data
      /\ \A q \in D : memory'[q].key = memory[q].key /\ memory'[q].data = memory[q].data
      /\ \A k \in Keys : New(k) = IF k = key THEN Append(Old(k), new) ELSE Old(k)
    BY Zenon, <1>2 DEF Added
<1>4. /\ hashmap'.num_of_buckets = n2 /\ DOMAIN memory' = D2
      /\ memory' \in [D2 -> Entries(D2)]
    <2>1. hashmap' \in Structs(n2, D2) /\ memory' \in [D2 -> Entries(D2)]
        BY <1>3 DEF Sound
    <2> QED BY <2>1 DEF Structs
<1>5. \A k \in Keys : Old(k) \in Seq(D)
    BY <1>1, OfKeyIs DEF KeyEntries
<1>6. \A k \in Keys : Old(k) \in Seq(D2)
    BY <1>5
<1> HIDE DEF Old, New, n, D
<1>7. Holding(hashmap', memory', ch2, held')
    <2>1. CASE held = Nothing
        BY <1>1, <2>1 DEF Holding
    <2>2. CASE held # Nothing
        <3>1. /\ held = [key |-> held.key, ptr |-> held.ptr] /\ held.key \in Keys
              /\ Old(held.key) # <<>> /\ held.ptr = Head(Old(held.key))
            BY <1>1, <2>2 DEF Holding, Old
        <3>2. Append(Old(held.key), new) # <<>>
              /\ Head(Append(Old(held.key), new)) = Head(Old(held.key))
            <4>1. new \in D2
                OBVIOUS
            <4> QED BY <1>6, <3>1, <4>1, TailAppend
        <3>3. New(held.key) # <<>> /\ held.ptr = Head(New(held.key))
            BY <1>3, <3>1, <3>2
        <3> QED BY <1>1, <3>1, <3>3 DEF Holding, New
    <2> QED BY <2>1, <2>2
<1>8. Good(hashmap', memory', held', ch2)
    BY <1>3, <1>4, <1>7 DEF Good
<1>9. ASSUME NEW k \in Keys
      PROVE  Values(memory', New(k)) = IF k = key THEN Append(Values(memory, Old(k)), data)
                                       ELSE Values(memory, Old(k))
    <2>1. Values(memory', Old(k)) = Values(memory, Old(k))
        BY <1>3, <1>5, ValuesSame
    <2>2. Values(memory', Append(Old(k), new)) = Append(Values(memory', Old(k)), data)
        <3>1. new \in D2
            OBVIOUS
        <3> HIDE DEF D2
        <3>2. Values(memory', Append(Old(k), new)) = Append(Values(memory', Old(k)), memory'[new].data)
            BY <1>4, <1>6, <3>1, ValuesAppend
        <3> QED BY <1>3, <3>2
    <2> QED BY <1>3, <2>1, <2>2
<1>10. ContentsOf(hashmap, memory) = [k \in Keys |-> Values(memory, Old(k))]
    BY <1>1, ContentsAre DEF Old
<1>11. ContentsOf(hashmap', memory') = [k \in Keys |-> Values(memory', New(k))]
    BY <1>3, ContentsAre DEF New
<1>12. ContentsOf(hashmap', memory')
         = [ContentsOf(hashmap, memory) EXCEPT ![key] = Append(@, data)]
    BY <1>9, <1>10, <1>11
<1> QED BY <1>8, <1>12

\* Looking up a key: what is returned and held is its oldest value.
LEMMA FindGood ==
    ASSUME NEW ch, Good(hashmap, memory, held, ch), NEW key \in Keys, hashmap_find(key)
    PROVE  /\ Good(hashmap, memory, held', ch)
           /\ LET c == ContentsOf(hashmap, memory)
              IN  /\ answer' = IF c[key] = <<>> THEN None ELSE Head(c[key])
                  /\ held'.key = IF c[key] = <<>> THEN None ELSE key
                  /\ answer' \in Data \cup {None}
<1> DEFINE D == DOMAIN memory
           n == hashmap.num_of_buckets
           s == OfKey(hashmap, memory, ch, key)
           c == ContentsOf(hashmap, memory)
           p == FoundIn(hashmap, memory, key)
<1>1. Sound(n, D, hashmap, memory, ch)
    BY DEF Good
<1>2. /\ held' = IF p = NULL THEN Nothing ELSE [key |-> key, ptr |-> p]
      /\ answer' = IF p = NULL THEN None ELSE memory[p].data
    BY DEF hashmap_find
<1>3. p = FirstOf(s)
    BY <1>1, FoundIs
<1>4. s \in Seq(D) /\ NULL \notin D /\ memory \in [D -> Entries(D)]
    <2>1. KeyEntries(hashmap, memory, n, D, ch, key)
        BY Zenon, <1>1, OfKeyIs
    <2>2. s \in Seq(D)
        BY Zenon, <2>1 DEF KeyEntries
    <2>3. NULL \notin D
        BY Zenon, <1>1, SoundParts
    <2>4. memory \in [D -> Entries(D)]
        BY Zenon, <1>1 DEF Sound
    <2> QED BY Zenon, <2>2, <2>3, <2>4
<1>5. c[key] = Values(memory, s)
    BY <1>1, ContentsAre
<1> HIDE DEF s, c, p, n
<1>6. p = NULL <=> s = <<>>
    BY <1>3, <1>4, FirstIs
<1>7. s # <<>> => p = Head(s) /\ p \in D
    BY <1>3, <1>4, FirstIs
<1>8. /\ Values(memory, s) = <<>> <=> s = <<>>
      /\ s # <<>> => Head(Values(memory, s)) = memory[Head(s)].data
    BY <1>4, ValuesShorter
<1>9. Holding(hashmap, memory, ch, held')
    BY <1>2, <1>6, <1>7 DEF Holding, s
<1>10. Good(hashmap, memory, held', ch)
    BY <1>1, <1>9 DEF Good, n
<1>11. held'.key = IF c[key] = <<>> THEN None ELSE key
    BY <1>2, <1>5, <1>6, <1>8 DEF Nothing
<1>12. answer' = IF c[key] = <<>> THEN None ELSE Head(c[key])
    BY <1>2, <1>5, <1>6, <1>7, <1>8
<1>13. answer' \in Data \cup {None}
    BY <1>2, <1>4, <1>6, <1>7 DEF Entries
<1> QED BY <1>10, <1>11, <1>12, <1>13 DEF c

\* Writing through the held pointer changes the oldest value of its key and nothing else.
LEMMA WriteGood ==
    ASSUME NEW ch, Good(hashmap, memory, held, ch), NEW data \in Data, WriteFound(data)
    PROVE  /\ Good(hashmap, memory', held, ch) /\ held.key \in Keys
           /\ DOMAIN memory' = DOMAIN memory
           /\ ContentsOf(hashmap, memory')
                = [ContentsOf(hashmap, memory) EXCEPT ![held.key] = <<data>> \o Tail(@)]
<1> DEFINE n == hashmap.num_of_buckets
           D == DOMAIN memory
           Old(k) == OfKey(hashmap, memory, ch, k)
           New(k) == OfKey(hashmap, memory', ch, k)
           p == held.ptr
           key == held.key
<1>1. Sound(n, D, hashmap, memory, ch) /\ Holding(hashmap, memory, ch, held)
    BY DEF Good
<1>2. held # Nothing /\ memory' = [memory EXCEPT ![p].data = data]
    BY DEF WriteFound
<1>3. /\ held = [key |-> key, ptr |-> p] /\ key \in Keys /\ Old(key) # <<>> /\ p = Head(Old(key))
    BY <1>1, <1>2 DEF Holding
<1>4. memory \in [D -> Entries(D)] /\ NULL \notin D
    BY <1>1, SoundParts DEF Sound
<1>5. \A k \in Keys : KeyEntries(hashmap, memory, n, D, ch, k)
    BY <1>1, OfKeyIs
<1>6. \A k \in Keys : /\ Old(k) \in Seq(D) /\ Distinct(Old(k))
                      /\ \A i \in 1 .. Len(Old(k)) : memory[Old(k)[i]].key = k
    BY <1>5 DEF KeyEntries
<1> HIDE DEF n
<1>7. p \in D /\ p = Old(key)[1] /\ 1 \in 1 .. Len(Old(key)) /\ Len(Old(key)) \in Nat
    <2> DEFINE s == Old(key)
    <2>1. s \in Seq(D) /\ s # <<>> /\ p = Head(s)
        BY <1>3, <1>6
    <2> HIDE DEF s
    <2>2. p \in D /\ p = s[1] /\ 1 \in 1 .. Len(s) /\ Len(s) \in Nat
        BY <2>1
    <2> QED BY <2>2 DEF s
<1>8. /\ Sound(n, D, hashmap, memory', ch)
      /\ memory'[p].data = data /\ \A q \in D \ {p} : memory'[q].data = memory[q].data
      /\ \A k \in Keys : New(k) = Old(k)
    <2> HIDE DEF p, D
    <2>1. Written(n, D, hashmap, memory, memory', ch, p, data)
        BY Zenon, <1>1, <1>2, <1>7, WrittenIs
    <2> QED BY Zenon, <2>1 DEF Written
<1>9. memory' \in [D -> Entries(D)]
    BY <1>8 DEF Sound
<1>10. Good(hashmap, memory', held, ch)
    <2>1. Holding(hashmap, memory', ch, held)
        BY <1>3, <1>8 DEF Holding
    <2> QED BY <1>8, <1>9, <2>1 DEF Good, n
<1> HIDE DEF Old, New, D, p, key
<1>11. ASSUME NEW k \in Keys, k # key PROVE Values(memory', Old(k)) = Values(memory, Old(k))
    <2> DEFINE s == Old(k)
    <2>1. s \in Seq(D) /\ \A i \in 1 .. Len(s) : memory[s[i]].key = k
        BY <1>6
    <2>2. memory[p].key = key
        BY <1>3, <1>6, <1>7
    <2> HIDE DEF s
    <2>3. \A i \in 1 .. Len(s) : s[i] \in D \ {p}
        BY <1>11, <2>1, <2>2
    <2>4. \A i \in 1 .. Len(s) : memory'[s[i]].data = memory[s[i]].data
        BY <1>8, <2>3
    <2>5. Values(memory', s) = Values(memory, s)
        BY <2>4 DEF Values
    <2> QED BY <2>5 DEF s
<1>12. Values(memory', Old(key)) = <<data>> \o Tail(Values(memory, Old(key)))
    <2> DEFINE s == Old(key)
               v == Values(memory, s)
               w == Values(memory', s)
    <2>1. s \in Seq(D) /\ s # <<>> /\ Distinct(s) /\ Len(s) \in Nat /\ 1 \in 1 .. Len(s) /\ s[1] = p
        BY <1>3, <1>6, <1>7
    <2> HIDE DEF s
    <2>2. v \in Seq(Data) /\ Tail(v) = Values(memory, Tail(s))
        BY <1>4, <2>1, ValuesShorter
    <2>3. w \in Seq(Data) /\ Tail(w) = Values(memory', Tail(s)) /\ w # <<>> /\ Head(w) = data
        <3>1. w \in Seq(Data) /\ Tail(w) = Values(memory', Tail(s)) /\ w # <<>>
              /\ Head(w) = memory'[Head(s)].data
            BY <1>9, <2>1, ValuesShorter
        <3>2. Head(s) = p
            BY <2>1
        <3> QED BY <1>8, <3>1, <3>2
    <2>4. Values(memory', Tail(s)) = Values(memory, Tail(s))
        <3> DEFINE t == Tail(s)
        <3>1. Len(t) = Len(s) - 1 /\ \A i \in 1 .. Len(t) : t[i] = s[i + 1] /\ i + 1 \in 1 .. Len(s)
            BY <2>1
        <3>2. \A i \in 1 .. Len(t) : i + 1 # 1
            BY <2>1, <3>1
        <3> HIDE DEF t
        <3>3. \A i \in 1 .. Len(t) : t[i] \in D \ {p}
            <4> SUFFICES ASSUME NEW i \in 1 .. Len(t) PROVE t[i] \in D \ {p}
                OBVIOUS
            <4>1. t[i] = s[i + 1] /\ i + 1 \in 1 .. Len(s) /\ i + 1 # 1
                BY <3>1, <3>2
            <4>2. s[i + 1] \in D
                BY <2>1, <4>1
            <4>3. s[i + 1] # s[1]
                BY Zenon, <2>1, <4>1 DEF Distinct
            <4> QED BY <2>1, <4>1, <4>2, <4>3
        <3>4. \A i \in 1 .. Len(t) : memory'[t[i]].data = memory[t[i]].data
            BY <1>8, <3>3
        <3>5. Values(memory', t) = Values(memory, t)
            BY <3>4 DEF Values
        <3> QED BY <3>5 DEF t
    <2> HIDE DEF v, w
    <2>5. w = <<data>> \o Tail(w)
        BY <2>3
    <2> QED BY <2>2, <2>3, <2>4, <2>5 DEF v, w, s
<1>13. ContentsOf(hashmap, memory) = [k \in Keys |-> Values(memory, Old(k))]
    BY <1>1, ContentsAre DEF Old, D
<1>14. ContentsOf(hashmap, memory') = [k \in Keys |-> Values(memory', Old(k))]
    <2>1. ContentsOf(hashmap, memory') = [k \in Keys |-> Values(memory', New(k))]
        BY <1>8, ContentsAre DEF New
    <2> QED BY <1>8, <2>1
<1>15. ContentsOf(hashmap, memory')
         = [ContentsOf(hashmap, memory) EXCEPT ![key] = <<data>> \o Tail(@)]
    BY <1>11, <1>12, <1>13, <1>14
<1>16. DOMAIN memory' = DOMAIN memory
    BY <1>4, <1>9 DEF D
<1> QED BY <1>3, <1>10, <1>15, <1>16 DEF key

\* What removing a key returns: its oldest value.
LEMMA RemoveAnswer ==
    ASSUME NEW ch, Good(hashmap, memory, held, ch), NEW key \in Keys, hashmap_remove(key)
    PROVE  LET c == ContentsOf(hashmap, memory)
               p == FoundIn(hashmap, memory, key)
           IN  /\ answer' = IF c[key] = <<>> THEN None ELSE Head(c[key])
               /\ answer' \in Data \cup {None}
               /\ p = NULL <=> c[key] = <<>>
               /\ p # NULL => /\ p \in DOMAIN memory /\ memory[p].key = key
                              /\ p = Head(OfKey(hashmap, memory, ch, key))
<1> DEFINE D == DOMAIN memory
           n == hashmap.num_of_buckets
           s == OfKey(hashmap, memory, ch, key)
           c == ContentsOf(hashmap, memory)
           p == FoundIn(hashmap, memory, key)
<1>1. Sound(n, D, hashmap, memory, ch)
    BY DEF Good
<1>2. IF p = NULL THEN answer' = None ELSE answer' = memory[p].data
    BY DEF hashmap_remove
<1>3. p = FirstOf(s)
    BY <1>1, FoundIs
<1>4. /\ s \in Seq(D) /\ NULL \notin D /\ memory \in [D -> Entries(D)]
      /\ \A i \in 1 .. Len(s) : memory[s[i]].key = key
    <2>1. KeyEntries(hashmap, memory, n, D, ch, key)
        BY Zenon, <1>1, OfKeyIs
    <2>2. s \in Seq(D) /\ \A i \in 1 .. Len(s) : memory[s[i]].key = key
        BY Zenon, <2>1 DEF KeyEntries
    <2>3. NULL \notin D /\ memory \in [D -> Entries(D)]
        BY <1>1, SoundParts DEF Sound
    <2> QED BY <2>2, <2>3
<1>5. c[key] = Values(memory, s)
    BY <1>1, ContentsAre
<1> HIDE DEF s, c, p, n
<1>6. p = NULL <=> s = <<>>
    BY <1>3, <1>4, FirstIs
<1>7. s # <<>> => p = Head(s) /\ p \in D /\ p = s[1] /\ 1 \in 1 .. Len(s)
    BY <1>3, <1>4, FirstIs
<1>8. /\ Values(memory, s) = <<>> <=> s = <<>>
      /\ s # <<>> => Head(Values(memory, s)) = memory[Head(s)].data
    BY <1>4, ValuesShorter
<1>9. answer' = IF c[key] = <<>> THEN None ELSE Head(c[key])
    BY <1>2, <1>5, <1>6, <1>7, <1>8
<1>10. answer' \in Data \cup {None}
    BY <1>2, <1>4, <1>6, <1>7 DEF Entries
<1>11. p # NULL => p \in D /\ memory[p].key = key /\ p = Head(s)
    BY <1>4, <1>6, <1>7
<1> QED BY <1>5, <1>6, <1>8, <1>9, <1>10, <1>11 DEF c, s, p

\* Removing the first entry of a chain takes the oldest value of its key away.
LEMMA RemoveGood ==
    ASSUME NEW ch, Good(hashmap, memory, held, ch), NEW key \in Keys, hashmap_remove(key),
           FoundIn(hashmap, memory, key) # NULL, ~broken'
    PROVE  /\ \E ch2 : Good(hashmap', memory', held', ch2)
           /\ held' = IF held.key = key THEN Nothing ELSE held
           /\ ContentsOf(hashmap', memory')
                = [ContentsOf(hashmap, memory) EXCEPT ![key] = Tail(@)]
<1> DEFINE n == hashmap.num_of_buckets
           D == DOMAIN memory
           p == FoundIn(hashmap, memory, key)
           x == Unlinked([h |-> hashmap, m |-> memory], p)
           Old(k) == OfKey(hashmap, memory, ch, k)
<1>1. /\ hashmap' = [x.h EXCEPT !.num_of_entries = @ - 1] /\ memory' = Without(x.m, {p})
      /\ held' = (IF held.key = key THEN Nothing ELSE held)
      /\ memory[p].prev = NULL
    BY DEF hashmap_remove
<1>2. p \in D /\ memory[p].key = key /\ p = Head(Old(key))
    BY RemoveAnswer
<1>3. Sound(n, D, hashmap, memory, ch) /\ Holding(hashmap, memory, ch, held)
    BY DEF Good
<1>4. /\ n \in Nat \ {0} /\ NULL \notin D /\ hashmap \in Structs(n, D)
      /\ memory \in [D -> Entries(D)]
    BY <1>3, SoundParts DEF Sound
<1> DEFINE y == x
<1>5. y = Unlinked([h |-> hashmap, m |-> memory], p)
    OBVIOUS
<1> HIDE DEF p, x, y, n
<1>6. TakenOut(n, D, hashmap, memory, get_hash(hashmap, memory[p].key), p,
               [y.h EXCEPT !.num_of_entries = @ - 1], Without(y.m, {p}))
    <2>1. LeftOver(n, D, hashmap, memory, p, y)
        BY Zenon, <1>2, <1>4, <1>5, UnlinkedType
    <2> QED BY Zenon, <1>1, <2>1 DEF LeftOver
<1>7. TakenOut(n, D, hashmap, memory, get_hash(hashmap, memory[p].key), p, hashmap', memory')
    BY <1>1, <1>6 DEF y
<1>8. PICK ch2 : Removed(n, D, hashmap, memory, ch, p, hashmap', memory', ch2)
    BY Zenon, <1>1, <1>2, <1>3, <1>7, RemovedIs
<1> DEFINE D2 == D \ {p}
           New(k) == OfKey(hashmap', memory', ch2, k)
<1>9. /\ Sound(n, D2, hashmap', memory', ch2)
      /\ \A q \in D2 : memory'[q].key = memory[q].key /\ memory'[q].data = memory[q].data
      /\ \A k \in Keys : New(k) = IF k = key THEN Tail(Old(k)) ELSE Old(k)
    BY <1>2, <1>8 DEF Removed
<1>10. hashmap'.num_of_buckets = n /\ DOMAIN memory' = D2 /\ memory' \in [D2 -> Entries(D2)]
    <2>1. hashmap' \in Structs(n, D2) /\ memory' \in [D2 -> Entries(D2)]
        BY <1>9 DEF Sound
    <2> QED BY <2>1 DEF Structs
<1>11. \A k \in Keys : Old(k) \in Seq(D)
    BY <1>3, OfKeyIs DEF KeyEntries
<1>12. \A k \in Keys : New(k) \in Seq(D2)
    BY <1>9, OfKeyIs DEF KeyEntries
<1> HIDE DEF Old, New
<1>13. Holding(hashmap', memory', ch2, held')
    <2>1. CASE held = Nothing
        BY <1>1, <2>1 DEF Holding
    <2>2. CASE held # Nothing
        <3>1. /\ held = [key |-> held.key, ptr |-> held.ptr] /\ held.key \in Keys
              /\ Old(held.key) # <<>> /\ held.ptr = Head(Old(held.key))
            BY <1>3, <2>2 DEF Holding, Old
        <3>2. CASE held.key = key
            BY <1>1, <3>2 DEF Holding
        <3>3. CASE held.key # key
            <4>1. New(held.key) = Old(held.key) /\ held' = held
                BY <1>1, <1>9, <3>1, <3>3
            <4> QED BY <3>1, <4>1 DEF Holding, New
        <3> QED BY <3>2, <3>3
    <2> QED BY <2>1, <2>2
<1>14. Good(hashmap', memory', held', ch2)
    BY <1>9, <1>10, <1>13 DEF Good
<1>15. ASSUME NEW k \in Keys
       PROVE  Values(memory', New(k)) = IF k = key THEN Tail(Values(memory, Old(k)))
                                        ELSE Values(memory, Old(k))
    <2>1. Values(memory', New(k)) = Values(memory, New(k))
        <3> HIDE DEF D2
        <3> QED BY <1>9, <1>12, ValuesSame
    <2>2. CASE k = key
        <3>1. Old(k) # <<>>
            <4>1. FirstOf(Old(k)) = p
                BY <1>3, <2>2, FoundIs DEF Old, p
            <4>2. p # NULL
                BY <1>2, <1>4
            <4> QED BY <4>1, <4>2 DEF FirstOf
        <3>2. Tail(Values(memory, Old(k))) = Values(memory, Tail(Old(k)))
            BY <1>4, <1>11, <3>1, ValuesShorter
        <3> QED BY <1>9, <2>1, <2>2, <3>2
    <2>3. CASE k # key
        BY <1>9, <2>1, <2>3
    <2> QED BY <2>2, <2>3
<1>16. ContentsOf(hashmap, memory) = [k \in Keys |-> Values(memory, Old(k))]
    BY <1>3, ContentsAre DEF Old
<1>17. ContentsOf(hashmap', memory') = [k \in Keys |-> Values(memory', New(k))]
    BY <1>9, ContentsAre DEF New
<1>18. ContentsOf(hashmap', memory') = [ContentsOf(hashmap, memory) EXCEPT ![key] = Tail(@)]
    BY <1>15, <1>16, <1>17
<1> QED BY <1>1, <1>14, <1>18

\* Removing another entry leaves fields of their types, and one entry less.
LEMMA RemoveTypes ==
    ASSUME NEW ch, Good(hashmap, memory, held, ch), NEW key \in Keys, hashmap_remove(key),
           FoundIn(hashmap, memory, key) # NULL
    PROVE  Typed(hashmap', memory', held') /\ hashmap'.num_of_entries = Cardinality(DOMAIN memory')
<1> DEFINE n == hashmap.num_of_buckets
           D == DOMAIN memory
           p == FoundIn(hashmap, memory, key)
           x == Unlinked([h |-> hashmap, m |-> memory], p)
           D2 == D \ {p}
<1>1. /\ hashmap' = [x.h EXCEPT !.num_of_entries = @ - 1] /\ memory' = Without(x.m, {p})
      /\ held' = (IF held.key = key THEN Nothing ELSE held)
    BY DEF hashmap_remove
<1>2. p \in D
    BY RemoveAnswer
<1>3. Sound(n, D, hashmap, memory, ch)
    BY DEF Good
<1>4. /\ n \in Nat \ {0} /\ NULL \notin D /\ hashmap \in Structs(n, D)
      /\ memory \in [D -> Entries(D)] /\ IsFiniteSet(D) /\ D \subseteq Addresses
      /\ hashmap.num_of_entries = Cardinality(D)
    BY <1>3, SoundParts DEF Sound
<1> DEFINE y == x
<1>5. y = Unlinked([h |-> hashmap, m |-> memory], p)
    OBVIOUS
<1> HIDE DEF p, x, y, n
<1>6. /\ y.h \in Structs(n, D) /\ y.m \in [D -> Entries(D)]
      /\ y.h.num_of_entries = hashmap.num_of_entries
    <2>1. LeftOver(n, D, hashmap, memory, p, y)
        BY Zenon, <1>2, <1>4, <1>5, UnlinkedType
    <2> QED BY Zenon, <2>1 DEF LeftOver
<1>7. Cardinality(D2) = Cardinality(D) - 1 /\ Cardinality(D) \in Nat /\ Cardinality(D2) \in Nat
    BY <1>2, <1>4, FS_RemoveElement, FS_CardinalityType
<1>8. /\ hashmap' \in Structs(n, D) /\ hashmap'.num_of_entries = Cardinality(D2)
      /\ memory' = [q \in D2 |-> y.m[q]]
    <2>1. hashmap' = [y.h EXCEPT !.num_of_entries = Cardinality(D2)]
        BY <1>1, <1>4, <1>6, <1>7 DEF y
    <2>2. memory' = [q \in D2 |-> y.m[q]]
        BY <1>1, <1>6 DEF Without, y
    <2> HIDE DEF D2
    <2>3. hashmap' \in Structs(n, D) /\ hashmap'.num_of_entries = Cardinality(D2)
        BY <1>6, <1>7, <2>1 DEF Structs
    <2> QED BY <2>2, <2>3
<1>9. /\ hashmap'.num_of_buckets \in Nat
      /\ hashmap'.list_of_buckets \in [0 .. hashmap'.num_of_buckets - 1 -> {NULL} \cup Addresses]
      /\ \A q \in D : y.m[q] \in [key : Keys, data : Data,
                                  prev : {NULL} \cup Addresses, next : {NULL} \cup Addresses]
    BY <1>4, <1>6, <1>8, MapTypes
<1>10. held = Nothing \/ held \in [key : Keys, ptr : Addresses]
    BY GoodTypes DEF Typed
<1>11. held' = Nothing \/ held' \in [key : Keys, ptr : Addresses]
    BY <1>1, <1>10
<1>12. DOMAIN memory' = D2 /\ D2 \subseteq Addresses
       /\ \A q \in D2 : memory'[q] = y.m[q] /\ q \in D
    BY <1>4, <1>8
<1> HIDE DEF D2, D
<1>13. Typed(hashmap', memory', held')
    BY <1>9, <1>11, <1>12 DEF Typed
<1> QED BY <1>8, <1>12, <1>13

\* The walks along all chains meet the entries, each of them.
LEMMA CoveredIs ==
    ASSUME NEW ch, Sound(hashmap.num_of_buckets, DOMAIN memory, hashmap, memory, ch)
    PROVE  AllChains(hashmap, memory) = ch /\ InChains(ch) = DOMAIN memory
<1> DEFINE n == hashmap.num_of_buckets
           D == DOMAIN memory
           map == [h |-> hashmap, m |-> memory]
<1>1. Sound(n, D, hashmap, memory, ch)
    OBVIOUS
<1>2. /\ n \in Nat \ {0} /\ Allocated(D) /\ Chained(hashmap, memory, n, D, ch)
      /\ Covers(n, D, ch) /\ map \in Maps(n, D) /\ ch \in [0 .. n - 1 -> Seq(D)]
    BY <1>1, SoundParts DEF Sound
<1>3. AllChains(hashmap, memory) = ch
    <2>1. map.h = hashmap /\ map.m = memory
        OBVIOUS
    <2>2. Chained(map.h, map.m, n, D, ch)
        BY <1>2, <2>1
    <2> HIDE DEF map, n, D
    <2>3. AllChains(map.h, map.m) = ch
        BY <1>2, <2>2, ChainsAre
    <2> QED BY <2>1, <2>3
<1>4. InChains(ch) = D
    <2>1. ASSUME NEW q \in D PROVE q \in InChains(ch)
        <3>1. PICK i \in 0 .. n - 1 : In(q, ch[i])
            BY Zenon, <1>2 DEF Covers
        <3>2. PICK j \in 1 .. Len(ch[i]) : ch[i][j] = q
            BY Zenon, <3>1 DEF In
        <3>3. q \in ToSet(ch[i]) /\ i \in DOMAIN ch
            BY <1>2, <3>2 DEF ToSet
        <3> QED BY <3>3 DEF InChains
    <2>2. ASSUME NEW q \in InChains(ch) PROVE q \in D
        <3>1. PICK i \in 0 .. n - 1 : q \in ToSet(ch[i])
            BY <1>2 DEF InChains
        <3>2. ch[i] \in Seq(D)
            BY <1>2
        <3> QED BY <3>1, <3>2 DEF ToSet
    <2> QED BY <2>1, <2>2
<1> QED BY <1>3, <1>4

\* Destroying frees every entry.
LEMMA DestroyFrees ==
    ASSUME NEW ch, Good(hashmap, memory, held, ch), hashmap_destroy
    PROVE  DOMAIN memory' = {}
<1>1. InChains(AllChains(hashmap, memory)) = DOMAIN memory
    <2>1. Sound(hashmap.num_of_buckets, DOMAIN memory, hashmap, memory, ch)
        BY DEF Good
    <2> QED BY <2>1, CoveredIs
<1>2. memory' = Without(memory, DOMAIN memory)
    BY <1>1 DEF hashmap_destroy
<1> QED BY <1>2 DEF Without

\* The invariant holds at first ...
LEMMA InitInv ==
    ASSUME Init
    PROVE  HashMapInv
<1>1. PICK ch : Good(hashmap, memory, held, ch) /\ DOMAIN memory = {}
    BY InitGood
<1>2. Typed(hashmap, memory, held) /\ hashmap.num_of_entries = Cardinality(DOMAIN memory)
    BY <1>1, GoodTypes
<1>3. answer = None /\ broken = FALSE /\ destroyed = FALSE
    BY DEF Init
<1>4. TypeOK
    BY <1>2, <1>3 DEF TypeOK, Typed
<1> QED BY <1>1, <1>4 DEF HashMapInv

\* ... and after every step.
LEMMA NextInv ==
    ASSUME HashMapInv, [Next]_vars
    PROVE  HashMapInv'
<1>1. ASSUME NEW ch2, Good(hashmap', memory', held', ch2), answer' \in Data \cup {None},
             broken' = FALSE, destroyed' = FALSE
      PROVE  HashMapInv'
    <2>1. Typed(hashmap', memory', held') /\ hashmap'.num_of_entries = Cardinality(DOMAIN memory')
        BY <1>1, GoodTypes
    <2>2. TypeOK'
        BY <1>1, <2>1 DEF TypeOK, Typed
    <2> QED BY <1>1, <2>2 DEF HashMapInv
<1>2. TypeOK /\ answer \in Data \cup {None} /\ broken \in BOOLEAN /\ destroyed \in BOOLEAN
    BY DEF HashMapInv, TypeOK
<1>3. ASSUME Usable
      PROVE  broken = FALSE /\ destroyed = FALSE /\ \E ch : Good(hashmap, memory, held, ch)
    BY <1>2, <1>3 DEF HashMapInv, Usable
<1>4. ASSUME NEW key \in Keys, NEW data \in Data, hashmap_add(key, data) PROVE HashMapInv'
    <2>1. Usable /\ answer' = answer /\ broken' = broken /\ destroyed' = destroyed
        BY <1>4 DEF hashmap_add
    <2>2. PICK ch : Good(hashmap, memory, held, ch)
        BY <1>3, <2>1
    <2>3. \E ch2 : Good(hashmap', memory', held', ch2)
        BY <1>4, <2>2, AddGood
    <2> QED BY <1>1, <1>2, <1>3, <2>1, <2>3
<1>5. ASSUME NEW key \in Keys, hashmap_find(key) PROVE HashMapInv'
    <2>1. /\ Usable /\ hashmap' = hashmap /\ memory' = memory
          /\ broken' = broken /\ destroyed' = destroyed
        BY <1>5 DEF hashmap_find
    <2>2. PICK ch : Good(hashmap, memory, held, ch)
        BY <1>3, <2>1
    <2>3. Good(hashmap', memory', held', ch) /\ answer' \in Data \cup {None}
        BY <1>5, <2>1, <2>2, FindGood
    <2> QED BY <1>1, <1>3, <2>1, <2>3
<1>6. ASSUME NEW data \in Data, WriteFound(data) PROVE HashMapInv'
    <2>1. /\ Usable /\ hashmap' = hashmap /\ held' = held
          /\ answer' = answer /\ broken' = broken /\ destroyed' = destroyed
        BY <1>6 DEF WriteFound
    <2>2. PICK ch : Good(hashmap, memory, held, ch)
        BY <1>3, <2>1
    <2>3. Good(hashmap', memory', held', ch)
        BY <1>6, <2>1, <2>2, WriteGood
    <2> QED BY <1>1, <1>2, <1>3, <2>1, <2>3
<1>7. ASSUME NEW key \in Keys, hashmap_remove(key) PROVE HashMapInv'
    <2> DEFINE p == FoundIn(hashmap, memory, key)
    <2>1. Usable /\ destroyed' = destroyed
        BY <1>7 DEF hashmap_remove
    <2>2. PICK ch : Good(hashmap, memory, held, ch)
        BY <1>3, <2>1
    <2>3. answer' \in Data \cup {None}
        BY <1>7, <2>2, RemoveAnswer
    <2>4. CASE p = NULL
        <3>1. hashmap' = hashmap /\ memory' = memory /\ held' = held /\ broken' = broken
            BY <1>7, <2>4 DEF hashmap_remove
        <3> QED BY <1>1, <1>3, <2>1, <2>2, <2>3, <3>1
    <2>5. CASE p # NULL /\ ~broken'
        <3>1. \E ch2 : Good(hashmap', memory', held', ch2)
            BY <1>7, <2>2, <2>5, RemoveGood
        <3>2. broken' \in BOOLEAN
            BY <1>7, <2>5 DEF hashmap_remove
        <3>3. broken' = FALSE
            BY <2>5, <3>2
        <3> QED BY <1>1, <1>3, <2>1, <2>3, <3>1, <3>3
    <2>6. CASE p # NULL /\ broken'
        <3>1. /\ Typed(hashmap', memory', held')
              /\ hashmap'.num_of_entries = Cardinality(DOMAIN memory')
            BY <1>7, <2>2, <2>6, RemoveTypes
        <3>2. broken' \in BOOLEAN /\ destroyed' = FALSE
            BY <1>3, <1>7, <2>1, <2>6 DEF hashmap_remove
        <3>3. TypeOK'
            BY <2>3, <3>1, <3>2 DEF TypeOK, Typed
        <3> QED BY <2>6, <3>2, <3>3 DEF HashMapInv, Usable
    <2> QED BY <2>4, <2>5, <2>6
<1>8. ASSUME hashmap_destroy PROVE HashMapInv'
    <2>1. /\ Usable /\ destroyed' = TRUE /\ hashmap' = hashmap /\ held' = held
          /\ answer' = answer /\ broken' = broken
        BY <1>8 DEF hashmap_destroy
    <2>2. PICK ch : Good(hashmap, memory, held, ch)
        BY <1>3, <2>1
    <2>3. DOMAIN memory' = {}
        BY <1>8, <2>2, DestroyFrees
    <2>4. TypeOK'
        BY <1>2, <2>1, <2>3 DEF TypeOK
    <2> QED BY <2>1, <2>3, <2>4 DEF HashMapInv, Usable
<1>9. CASE UNCHANGED vars
    <2>1. /\ hashmap' = hashmap /\ memory' = memory /\ held' = held /\ answer' = answer
          /\ broken' = broken /\ destroyed' = destroyed
        BY <1>9 DEF vars
    <2>2. TypeOK'
        BY <1>2, <2>1 DEF TypeOK
    <2> QED BY <2>1, <2>2 DEF HashMapInv, Usable
<1>10. CASE Next
    BY <1>4, <1>5, <1>6, <1>7, <1>8, <1>10 DEF Next
<1> QED BY <1>9, <1>10

\* There always are such chains: what add, find, remove, resize and destroy have in common.
\* [hashmap.h:43-202]
THEOREM HashMapInductive == Spec => []HashMapInv
<1>1. Init => HashMapInv
    BY InitInv
<1>2. HashMapInv /\ [Next]_vars => HashMapInv'
    BY NextInv
<1> QED BY <1>1, <1>2, PTL DEF Spec

\* Every field has its type and the entries are counted in every state, whatever the hash
\* function, the load factor, the resize factor and the number of buckets at first.
THEOREM HashMapTypes == Spec => []TypeOK
<1>1. HashMapInv => TypeOK
    BY DEF HashMapInv
<1> QED BY <1>1, HashMapInductive, PTL

\* Until an entry is removed from the middle or the end of a chain, each entry is once in
\* the chain of its hash with links back that agree with those forth, no allocated entry
\* is lost, and the chains are on average no longer than the load factor.
THEOREM HashMapSound == Spec => []ChainsSound
<1>1. ASSUME HashMapInv PROVE ChainsSound
    <2>1. ASSUME Usable
          PROVE  LET chains == AllChains(hashmap, memory)
                 IN /\ \A i \in DOMAIN chains : \A j \in DOMAIN chains[i] :
                         LET entry == memory[chains[i][j]]
                         IN /\ get_hash(hashmap, entry.key) = i
                            /\ entry.prev = IF j = 1 THEN NULL ELSE chains[i][j - 1]
                    /\ InChains(chains) = DOMAIN memory
                    /\ hashmap.num_of_entries <= HASHMAP_LOAD_FACTOR * hashmap.num_of_buckets
        <3> DEFINE n == hashmap.num_of_buckets
                   D == DOMAIN memory
        <3>1. PICK ch : Good(hashmap, memory, held, ch)
            BY <1>1, <2>1 DEF HashMapInv
        <3>2. Sound(n, D, hashmap, memory, ch)
            BY <3>1 DEF Good
        <3>3. AllChains(hashmap, memory) = ch /\ InChains(ch) = D
            BY <3>2, CoveredIs
        <3>4. /\ ch \in [0 .. n - 1 -> Seq(D)] /\ hashmap.num_of_entries <= HASHMAP_LOAD_FACTOR * n
              /\ \A i \in 0 .. n - 1 : BucketIs(hashmap, memory, i, ch[i])
            <4>1. hashmap.num_of_entries <= HASHMAP_LOAD_FACTOR * n
                BY Zenon, <3>2 DEF Sound
            <4>2. /\ ch \in [0 .. n - 1 -> Seq(D)]
                  /\ \A i \in 0 .. n - 1 : BucketIs(hashmap, memory, i, ch[i])
                BY Zenon, <3>2, SoundParts
            <4> QED BY <4>1, <4>2
        <3>5. ASSUME NEW i \in 0 .. n - 1, NEW j \in DOMAIN ch[i]
              PROVE  /\ get_hash(hashmap, memory[ch[i][j]].key) = i
                     /\ memory[ch[i][j]].prev = IF j = 1 THEN NULL ELSE ch[i][j - 1]
            <4> DEFINE c == ch[i]
            <4>1. c \in Seq(D) /\ BucketIs(hashmap, memory, i, c)
                BY <3>4
            <4>2. j \in 1 .. Len(c) /\ Len(c) \in Nat
                BY <4>1
            <4> HIDE DEF c
            <4>3. memory[c[j]].prev = At(c, j - 1) /\ get_hash(hashmap, memory[c[j]].key) = i
                BY Zenon, <4>1, <4>2 DEF BucketIs, Back
            <4>4. At(c, j - 1) = IF j = 1 THEN NULL ELSE c[j - 1]
                BY <4>2 DEF At
            <4> QED BY <4>3, <4>4 DEF c
        <3>6. DOMAIN ch = 0 .. n - 1
            BY <3>4
        <3> HIDE DEF n, D
        <3> QED BY <3>3, <3>4, <3>5, <3>6 DEF n, D
    <2>2. destroyed => DOMAIN memory = {}
        BY <1>1 DEF HashMapInv
    <2> QED BY <2>1, <2>2 DEF ChainsSound
<1> QED BY <1>1, HashMapInductive, PTL

-----------------------------------------------------------------------------
(* The abstract map *)

\* At first no key has a value.
LEMMA InitMaps ==
    ASSUME Init
    PROVE  Abstract!Init
<1>1. ContentsOf(hashmap, memory) = [key \in Keys |-> <<>>]
    BY InitGood
<1>2. Contents = [key \in Keys |-> <<>>]
    BY <1>1 DEF Contents, ContentsOf
<1>3. held.key = None /\ answer = None /\ Usable
    BY DEF Init, Nothing, Usable
<1> QED BY <1>2, <1>3 DEF Abstract!Init

\* Every step is one of the abstract map, changes nothing of it, or ends what it promises.
LEMMA NextMaps ==
    ASSUME HashMapInv, [Next]_vars
    PROVE  [Abstract!Next]_(Abstract!vars)
<1> DEFINE C == ContentsOf(hashmap, memory)
           C2 == ContentsOf(hashmap', memory')
           before == IF Usable THEN Contents ELSE [key \in Keys |-> <<>>]
<1>1. Contents = C /\ Contents' = C2
    BY DEF Contents, ContentsOf
<1> HIDE DEF C, C2
<1>2. ASSUME Usable PROVE \E ch : Good(hashmap, memory, held, ch)
    BY <1>2 DEF HashMapInv
<1>3. ASSUME Usable, ~Usable' PROVE Abstract!Next
    BY <1>3 DEF Abstract!Next
<1>4. ASSUME NEW key \in Keys, NEW data \in Data, hashmap_add(key, data) PROVE Abstract!Next
    <2>1. Usable /\ Usable' /\ answer' = answer /\ held' = held
        BY <1>4 DEF hashmap_add, Usable
    <2>2. C2 = [C EXCEPT ![key] = Append(@, data)]
        BY <1>2, <1>4, <2>1, AddGood DEF C, C2
    <2>3. Abstract!Add(key, data)
        BY <1>1, <2>1, <2>2 DEF Abstract!Add
    <2> QED BY <2>1, <2>3 DEF Abstract!Next
<1>5. ASSUME NEW key \in Keys, hashmap_find(key) PROVE Abstract!Next
    <2>1. Usable /\ Usable' /\ hashmap' = hashmap /\ memory' = memory
        BY <1>5 DEF hashmap_find, Usable
    <2>2. C2 = C
        BY <2>1 DEF C, C2
    <2>3. /\ answer' = IF C[key] = <<>> THEN None ELSE Head(C[key])
          /\ held'.key = IF C[key] = <<>> THEN None ELSE key
        BY <1>2, <1>5, <2>1, FindGood DEF C
    <2>4. Abstract!Find(key)
        BY <1>1, <2>1, <2>2, <2>3 DEF Abstract!Find, Abstract!Oldest
    <2> QED BY <2>1, <2>4 DEF Abstract!Next
<1>6. ASSUME NEW data \in Data, WriteFound(data) PROVE Abstract!Next
    <2>1. Usable /\ Usable' /\ hashmap' = hashmap /\ held' = held /\ answer' = answer
        BY <1>6 DEF WriteFound, Usable
    <2>2. C2 = [C EXCEPT ![held.key] = <<data>> \o Tail(@)] /\ held.key \in Keys
        BY <1>2, <1>6, <2>1, WriteGood DEF C, C2
    <2>3. held.key # None
        BY <2>2, HashMapAssumption
    <2>4. Abstract!Write(data)
        BY <1>1, <2>1, <2>2, <2>3 DEF Abstract!Write
    <2> QED BY <2>1, <2>4 DEF Abstract!Next
<1>7. ASSUME NEW key \in Keys, hashmap_remove(key) PROVE Abstract!Next
    <2> DEFINE p == FoundIn(hashmap, memory, key)
    <2>1. Usable /\ destroyed' = destroyed
        BY <1>7 DEF hashmap_remove
    <2>2. /\ answer' = IF C[key] = <<>> THEN None ELSE Head(C[key])
          /\ p = NULL <=> C[key] = <<>>
        BY <1>2, <1>7, <2>1, RemoveAnswer DEF C
    <2>3. CASE p = NULL
        <3>1. hashmap' = hashmap /\ memory' = memory /\ held' = held /\ broken' = broken
            BY <1>7, <2>3 DEF hashmap_remove
        <3>2. C2 = C /\ Usable'
            BY <2>1, <3>1 DEF C, C2, Usable
        <3>3. Abstract!Remove(key)
            BY <1>1, <2>1, <2>2, <2>3, <3>1, <3>2 DEF Abstract!Remove, Abstract!Oldest
        <3> QED BY <2>1, <3>2, <3>3 DEF Abstract!Next
    <2>4. CASE p # NULL /\ ~broken'
        <3>1. /\ C2 = [C EXCEPT ![key] = Tail(@)]
              /\ held' = IF held.key = key THEN Nothing ELSE held
            BY <1>2, <1>7, <2>1, <2>4, RemoveGood DEF C, C2
        <3>2. Usable'
            BY <2>1, <2>4 DEF Usable
        <3>3. held'.key = IF held.key = key THEN None ELSE held.key
            BY <3>1 DEF Nothing
        <3>4. Abstract!Remove(key)
            BY <1>1, <2>1, <2>2, <2>4, <3>1, <3>2, <3>3 DEF Abstract!Remove, Abstract!Oldest
        <3> QED BY <2>1, <3>2, <3>4 DEF Abstract!Next
    <2>5. CASE broken'
        <3>1. ~Usable'
            BY <2>5 DEF Usable
        <3> QED BY <1>3, <2>1, <3>1
    <2> QED BY <2>3, <2>4, <2>5
<1>8. ASSUME hashmap_destroy PROVE Abstract!Next
    <2>1. Usable /\ ~Usable'
        BY <1>8 DEF hashmap_destroy, Usable
    <2> QED BY <1>3, <2>1
<1>9. CASE UNCHANGED vars
    <2>1. /\ hashmap' = hashmap /\ memory' = memory /\ held' = held /\ answer' = answer
          /\ broken' = broken /\ destroyed' = destroyed
        BY <1>9 DEF vars
    <2>2. C2 = C /\ Usable' = Usable
        BY <2>1 DEF C, C2, Usable
    <2> QED BY <1>1, <2>1, <2>2 DEF Abstract!vars
<1>10. CASE Next
    BY <1>4, <1>5, <1>6, <1>7, <1>8, <1>10 DEF Next
<1> QED BY <1>9, <1>10

\* Every operation is a step of the abstract map: each key has its values in the order in
\* which they were added, whatever the hash function puts into one bucket and however
\* often the entries were moved to new buckets.
THEOREM HashMapRefines == Spec => ImplementsMultiMap
<1>1. Init => Abstract!Init
    BY InitMaps
<1>2. HashMapInv /\ [Next]_vars => [Abstract!Next]_(Abstract!vars)
    BY NextMaps
<1> QED BY <1>1, <1>2, HashMapInductive, PTL DEF Spec, ImplementsMultiMap, Abstract!Spec
=============================================================================
