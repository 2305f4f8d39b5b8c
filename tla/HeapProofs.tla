----------------------------- MODULE HeapProofs -----------------------------
(***************************************************************************)
(* Proofs about the kernel heap, for every size of the pool, of its pages  *)
(* and of the requests. Beside the memory stand the blocks as the code     *)
(* means them: sz gives each block its size, F is the set of the free      *)
(* ones, and rank puts them into the order of the list.                    *)
(***************************************************************************)
EXTENDS Heap, NatLemmas, FiniteSetTheorems

\* A heap of n words.
Heaps(n) == [mem : [1 .. n -> Nat], head : Nat]

\* Blocks of at least four words tile the words 1 .. n without a gap.
Tiles(sz, n) ==
    /\ DOMAIN sz \subseteq 1 .. n /\ 1 \in DOMAIN sz
    /\ \A b \in DOMAIN sz : /\ sz[b] \in Nat /\ sz[b] >= 4
                            /\ b + sz[b] \in DOMAIN sz \cup {n + 1}
    /\ \A b, c \in DOMAIN sz : b < c => b + sz[b] <= c

\* The word at both ends of a block.
SizeWord(sz, F, b) == IF b \in F THEN sz[b] ELSE ALLOCATED + sz[b]

Tags(m, sz, F) ==
    \A b \in DOMAIN sz :
       m[b] = SizeWord(sz, F, b) /\ m[b + sz[b] - 1] = SizeWord(sz, F, b)

\* The links of different blocks are different words.
Spread(F, n) == /\ F \subseteq Nat \ {0}
                /\ \A f \in F : f + 2 <= n
                /\ \A f, g \in F : f # g + 1

\* From head on, the links run through the blocks of F in both directions. The rank
\* grows along them: no link leads back.
Linked(m, first, F, rank) ==
    /\ first \in F \cup {NULL}
    /\ first # NULL => m[first + 1] = NULL
    /\ rank \in [F -> Nat]
    /\ \A f \in F :
          /\ m[f + 1] \in F \cup {NULL} /\ m[f + 2] \in F \cup {NULL}
          /\ m[f + 1] = NULL => first = f
          /\ m[f + 1] # NULL => m[m[f + 1] + 2] = f
          /\ m[f + 2] # NULL => m[m[f + 2] + 1] = f /\ rank[f] < rank[m[f + 2]]

-----------------------------------------------------------------------------
(* Size words *)

\* What the top bit leaves of a size word.
LEMMA SizeOfWord ==
    ASSUME NEW s \in Nat, s < ALLOCATED
    PROVE  /\ get_size(s) = s /\ ~get_allocated_bit(s)
           /\ get_size(ALLOCATED + s) = s /\ get_allocated_bit(ALLOCATED + s)
<1>1. ALLOCATED \in Nat \ {0} /\ s \in 0 .. ALLOCATED - 1
    BY HeapAssumption
<1>2. s % ALLOCATED = s /\ (s + ALLOCATED) % ALLOCATED = s /\ s + ALLOCATED = ALLOCATED + s
    BY <1>1, SmallRemainder, WrappedRemainder
<1> QED BY <1>1, <1>2 DEF get_size, get_allocated_bit

\* The size and the allocated bit of a block, read from its first or last word.
LEMMA BlockWord ==
    ASSUME NEW n \in Nat, n < ALLOCATED, NEW sz, Tiles(sz, n), NEW F, NEW b \in DOMAIN sz
    PROVE  /\ get_size(SizeWord(sz, F, b)) = sz[b]
           /\ get_allocated_bit(SizeWord(sz, F, b)) <=> b \notin F
           /\ b \in Nat /\ sz[b] \in Nat /\ sz[b] >= 4 /\ b > 0 /\ b + sz[b] <= n + 1
           /\ sz[b] < ALLOCATED /\ ALLOCATED \in Nat
<1>1. b \in 1 .. n /\ sz[b] \in Nat /\ sz[b] >= 4 /\ b + sz[b] \in DOMAIN sz \cup {n + 1}
      /\ DOMAIN sz \subseteq 1 .. n
    BY DEF Tiles
<1>2. b + sz[b] <= n + 1
    BY <1>1
<1>3. sz[b] < ALLOCATED /\ ALLOCATED \in Nat
    BY <1>1, <1>2, HeapAssumption
<1> QED BY <1>1, <1>2, <1>3, SizeOfWord DEF SizeWord

\* A word belongs to one block.
LEMMA OneBlock ==
    ASSUME NEW n \in Nat, NEW sz, Tiles(sz, n), NEW b \in DOMAIN sz, NEW c \in DOMAIN sz,
           NEW i \in b .. b + sz[b] - 1, i \in c .. c + sz[c] - 1
    PROVE  b = c
<1>1. b \in Nat /\ c \in Nat /\ sz[b] \in Nat /\ sz[c] \in Nat
    BY DEF Tiles
<1>2. ~ (b < c) /\ ~ (c < b)
    BY <1>1 DEF Tiles
<1> QED BY <1>1, <1>2

\* Free blocks are spread: each has words of its own.
LEMMA BlocksSpread ==
    ASSUME NEW n \in Nat, NEW sz, Tiles(sz, n), NEW F, F \subseteq DOMAIN sz
    PROVE  Spread(F, n)
<1>1. \A f \in F : f \in 1 .. n /\ sz[f] \in Nat /\ sz[f] >= 4
                   /\ f + sz[f] \in DOMAIN sz \cup {n + 1} /\ DOMAIN sz \subseteq 1 .. n
    BY DEF Tiles
<1>2. \A f \in F : f \in Nat \ {0} /\ f + 2 <= n
    BY <1>1
<1>3. ASSUME NEW f \in F, NEW g \in F PROVE f # g + 1
    BY <1>1 DEF Tiles
<1> QED BY <1>2, <1>3 DEF Spread

-----------------------------------------------------------------------------
(* The words that each step of the code writes *)

\* A memory and a first block are a heap.
LEMMA HeapOf ==
    ASSUME NEW n, NEW m \in [1 .. n -> Nat], NEW first \in Nat
    PROVE  [mem |-> m, head |-> first] \in Heaps(n)
BY DEF Heaps

\* Both ends of a block get a word.
LEMMA TaggedWords ==
    ASSUME NEW n \in Nat, NEW h \in Heaps(n), NEW b \in 1 .. n, NEW word \in Nat,
           NEW s \in Nat, get_size(word) = s, b + s - 1 \in 1 .. n
    PROVE  /\ Tagged(h, b, word) \in Heaps(n)
           /\ Tagged(h, b, word).head = h.head
           /\ \A i \in 1 .. n : Tagged(h, b, word).mem[i] =
                 IF i = b \/ i = b + s - 1 THEN word ELSE h.mem[i]
BY DEF Heaps, Tagged

\* The links of a block are cleared.
LEMMA UnlistedWords ==
    ASSUME NEW n \in Nat, NEW h \in Heaps(n), NEW b \in 1 .. n, b + 2 <= n
    PROVE  /\ Unlisted(h, b) \in Heaps(n)
           /\ Unlisted(h, b).head = h.head
           /\ \A i \in 1 .. n : Unlisted(h, b).mem[i] =
                 IF i = b + 1 \/ i = b + 2 THEN NULL ELSE h.mem[i]
BY DEF Heaps, Unlisted, NULL

\* The border between two blocks is wiped.
LEMMA WipedWords ==
    ASSUME NEW n \in Nat, NEW h \in Heaps(n), NEW b \in 2 .. n, b + 2 <= n
    PROVE  /\ Wiped(h, b) \in Heaps(n)
           /\ Wiped(h, b).head = h.head
           /\ \A i \in 1 .. n : Wiped(h, b).mem[i] =
                 IF i \in b - 1 .. b + 2 THEN 0 ELSE h.mem[i]
<1> DEFINE m0 == h.mem
           m1 == [m0 EXCEPT ![b - 1] = 0]
           m2 == [m1 EXCEPT ![b] = 0]
           m3 == [m2 EXCEPT ![b + 1] = 0]
           m4 == [m3 EXCEPT ![b + 2] = 0]
<1>1. m0 \in [1 .. n -> Nat] /\ h.head \in Nat
    BY DEF Heaps
<1>2. Wiped(h, b) = [h EXCEPT !.mem = m4]
    BY DEF Wiped, Heaps
<1>3. Wiped(h, b).mem = m4 /\ Wiped(h, b).head = h.head
    BY <1>2 DEF Heaps
<1> HIDE DEF m0
<1>4. m1 \in [1 .. n -> Nat] /\ \A i \in 1 .. n : m1[i] = IF i = b - 1 THEN 0 ELSE m0[i]
    BY <1>1
<1> HIDE DEF m1
<1>5. m2 \in [1 .. n -> Nat] /\ \A i \in 1 .. n : m2[i] = IF i = b THEN 0 ELSE m1[i]
    BY <1>4
<1> HIDE DEF m2
<1>6. m3 \in [1 .. n -> Nat] /\ \A i \in 1 .. n : m3[i] = IF i = b + 1 THEN 0 ELSE m2[i]
    BY <1>5
<1> HIDE DEF m3
<1>7. m4 \in [1 .. n -> Nat] /\ \A i \in 1 .. n : m4[i] = IF i = b + 2 THEN 0 ELSE m3[i]
    BY <1>6
<1> HIDE DEF m4
<1>8. Wiped(h, b) \in Heaps(n)
    BY <1>1, <1>2, <1>7 DEF Heaps
<1>9. \A i \in 1 .. n : m4[i] = IF i \in b - 1 .. b + 2 THEN 0 ELSE m0[i]
    BY <1>4, <1>5, <1>6, <1>7
<1> QED BY <1>3, <1>8, <1>9 DEF m0

\* The neighbours of a block are linked to each other.
LEMMA UnlinkedWords ==
    ASSUME NEW n \in Nat, NEW h \in Heaps(n), NEW b \in 1 .. n, b + 2 <= n, n >= 2,
           NEW p, p = h.mem[b + 1], NEW q, q = h.mem[b + 2], p + 2 <= n, q + 2 <= n
    PROVE  /\ Unlinked(h, b) \in Heaps(n)
           /\ Unlinked(h, b).head = IF p = NULL THEN q ELSE h.head
           /\ \A i \in 1 .. n : Unlinked(h, b).mem[i] =
                 IF q # NULL /\ i = q + 1 THEN p
                 ELSE IF p # NULL /\ i = p + 2 THEN q ELSE h.mem[i]
<1> DEFINE m1 == SetNext(h.mem, p, q)
           m2 == SetPrev(m1, q, p)
<1>1. h.mem \in [1 .. n -> Nat] /\ h.head \in Nat
    BY DEF Heaps
<1>2. p \in Nat /\ q \in Nat
    BY <1>1
<1>3. m1 \in [1 .. n -> Nat] /\ \A i \in 1 .. n : m1[i] = IF p # NULL /\ i = p + 2 THEN q ELSE h.mem[i]
    BY <1>1, <1>2 DEF SetPrev, SetNext, NULL
<1>4. Unlinked(h, b) = [mem |-> m2, head |-> IF p = NULL THEN q ELSE h.head]
    BY DEF Unlinked, Prev, NextOf
<1> HIDE DEF m1
<1>5. m2 \in [1 .. n -> Nat] /\ \A i \in 1 .. n : m2[i] = IF q # NULL /\ i = q + 1 THEN p ELSE m1[i]
    BY <1>2, <1>3 DEF SetPrev, SetNext, NULL
<1> HIDE DEF m2
<1>6. Unlinked(h, b).mem = m2 /\ Unlinked(h, b).head = IF p = NULL THEN q ELSE h.head
    BY <1>4
<1> DEFINE first == IF p = NULL THEN q ELSE h.head
<1>7. Unlinked(h, b) \in Heaps(n)
    <2>1. first \in Nat /\ Unlinked(h, b) = [mem |-> m2, head |-> first]
        BY <1>1, <1>2, <1>4
    <2> HIDE DEF first
    <2> QED BY <1>5, <2>1, HeapOf
<1> QED BY <1>3, <1>5, <1>6, <1>7

\* A block takes the place of another one.
LEMMA MovedWords ==
    ASSUME NEW n \in Nat, NEW h \in Heaps(n), NEW b \in 1 .. n, b + 2 <= n,
           NEW new \in 1 .. n, new + 2 <= n,
           NEW p, p = h.mem[b + 1], NEW q, q = h.mem[b + 2], p + 2 <= n, q + 2 <= n
    PROVE  /\ Moved(h, b, new) \in Heaps(n)
           /\ Moved(h, b, new).head = IF p = NULL THEN new ELSE h.head
           /\ \A i \in 1 .. n : Moved(h, b, new).mem[i] =
                 IF i = new + 2 THEN q
                 ELSE IF i = new + 1 THEN p
                 ELSE IF q # NULL /\ i = q + 1 THEN new
                 ELSE IF p # NULL /\ i = p + 2 THEN new ELSE h.mem[i]
<1> DEFINE m1 == SetNext(h.mem, p, new)
           m2 == SetPrev(m1, q, new)
           m3 == SetPrev(m2, new, p)
           m4 == SetNext(m3, new, q)
<1>1. h.mem \in [1 .. n -> Nat] /\ h.head \in Nat
    BY DEF Heaps
<1>2. p \in Nat /\ q \in Nat /\ new \in Nat /\ new # NULL
    <2>1. b + 1 \in 1 .. n /\ b + 2 \in 1 .. n
        OBVIOUS
    <2>2. h.mem[b + 1] \in Nat /\ h.mem[b + 2] \in Nat
        BY <1>1, <2>1
    <2>3. new \in Nat /\ new # NULL
        BY DEF NULL
    <2> QED BY Zenon, <2>2, <2>3
<1>3. m1 \in [1 .. n -> Nat] /\ \A i \in 1 .. n : m1[i] = IF p # NULL /\ i = p + 2 THEN new ELSE h.mem[i]
    BY <1>1, <1>2 DEF SetPrev, SetNext, NULL
<1>4. Moved(h, b, new) = [mem |-> m4, head |-> IF p = NULL THEN new ELSE h.head]
    BY DEF Moved, Prev, NextOf
<1> HIDE DEF m1
<1>5. m2 \in [1 .. n -> Nat] /\ \A i \in 1 .. n : m2[i] = IF q # NULL /\ i = q + 1 THEN new ELSE m1[i]
    BY <1>2, <1>3 DEF SetPrev, SetNext, NULL
<1> HIDE DEF m2
<1>6. m3 \in [1 .. n -> Nat] /\ \A i \in 1 .. n : m3[i] = IF i = new + 1 THEN p ELSE m2[i]
    BY <1>2, <1>5 DEF SetPrev, SetNext, NULL
<1> HIDE DEF m3
<1>7. m4 \in [1 .. n -> Nat] /\ \A i \in 1 .. n : m4[i] = IF i = new + 2 THEN q ELSE m3[i]
    BY <1>2, <1>6 DEF SetPrev, SetNext, NULL
<1> HIDE DEF m4
<1>8. m4 \in [1 .. n -> Nat] /\ (IF p = NULL THEN new ELSE h.head) \in Nat
    BY <1>1, <1>2, <1>7
<1>9. Moved(h, b, new).mem = m4 /\ Moved(h, b, new).head = IF p = NULL THEN new ELSE h.head
    BY <1>4
<1>10. Moved(h, b, new) \in Heaps(n)
    BY <1>4, <1>8, HeapOf
<1> QED BY <1>3, <1>5, <1>6, <1>7, <1>9, <1>10

\* A block is put before the first one.
LEMMA PushedWords ==
    ASSUME NEW n \in Nat, NEW h \in Heaps(n), NEW b \in 1 .. n, b + 2 <= n, h.head + 2 <= n
    PROVE  /\ PushedInFront(h, b) \in Heaps(n)
           /\ PushedInFront(h, b).head = b
           /\ \A i \in 1 .. n : PushedInFront(h, b).mem[i] =
                 IF i = b + 2 THEN h.head
                 ELSE IF i = b + 1 THEN NULL
                 ELSE IF h.head # NULL /\ i = h.head + 1 THEN b ELSE h.mem[i]
<1> DEFINE m1 == SetPrev(h.mem, h.head, b)
           m2 == SetPrev(m1, b, NULL)
           m3 == SetNext(m2, b, h.head)
<1>1. h.mem \in [1 .. n -> Nat] /\ h.head \in Nat /\ b \in Nat /\ b # NULL /\ NULL \in Nat
    BY DEF Heaps, NULL
<1>2. m1 \in [1 .. n -> Nat]
      /\ \A i \in 1 .. n : m1[i] = IF h.head # NULL /\ i = h.head + 1 THEN b ELSE h.mem[i]
    BY <1>1 DEF SetPrev, SetNext, NULL
<1>3. PushedInFront(h, b) = [mem |-> m3, head |-> b]
    BY DEF PushedInFront
<1> HIDE DEF m1
<1>4. m2 \in [1 .. n -> Nat] /\ \A i \in 1 .. n : m2[i] = IF i = b + 1 THEN NULL ELSE m1[i]
    BY <1>1, <1>2 DEF SetPrev, SetNext, NULL
<1> HIDE DEF m2
<1>5. m3 \in [1 .. n -> Nat] /\ \A i \in 1 .. n : m3[i] = IF i = b + 2 THEN h.head ELSE m2[i]
    BY <1>1, <1>4 DEF SetPrev, SetNext, NULL
<1> HIDE DEF m3
<1>6. PushedInFront(h, b).mem = m3 /\ PushedInFront(h, b).head = b
    BY <1>3
<1>7. PushedInFront(h, b) \in Heaps(n)
    BY <1>1, <1>3, <1>5, HeapOf
<1> QED BY <1>2, <1>4, <1>5, <1>6, <1>7

-----------------------------------------------------------------------------
(* The list of the free blocks *)

\* The words of the links of a set of blocks.
Links(F) == {f + 1 : f \in F} \cup {f + 2 : f \in F}

\* A list is read from the links only.
LEMMA SameLinks ==
    ASSUME NEW F, NEW m, NEW m2, NEW first, NEW rank, Linked(m, first, F, rank),
           \A i \in Links(F) : m2[i] = m[i]
    PROVE  Linked(m2, first, F, rank)
<1>1. \A f \in F : m2[f + 1] = m[f + 1] /\ m2[f + 2] = m[f + 2]
    BY DEF Links
<1> QED BY <1>1 DEF Linked

\* Neighbours in the list are different blocks.
LEMMA Neighbours ==
    ASSUME NEW F, NEW m, NEW first, NEW rank, Linked(m, first, F, rank), NULL \notin F,
           NEW b \in F
    PROVE  /\ m[b + 1] # b /\ m[b + 2] # b
           /\ m[b + 1] = m[b + 2] => m[b + 1] = NULL
<1>1. ASSUME NEW f \in F, m[f + 2] # NULL PROVE rank[f] < rank[m[f + 2]] /\ rank[f] \in Nat
    BY <1>1 DEF Linked
<1>2. m[b + 2] # b
    BY <1>1
<1>3. m[b + 1] # b
    BY <1>2 DEF Linked
<1>4. ASSUME m[b + 1] = m[b + 2], m[b + 1] # NULL PROVE FALSE
    <2>1. m[b + 1] \in F /\ m[m[b + 1] + 2] = b
        BY <1>4 DEF Linked
    <2>2. rank[m[b + 1]] < rank[b] /\ rank[b] < rank[m[b + 1]]
        BY <1>1, <1>4, <2>1
    <2>3. rank[b] \in Nat /\ rank[m[b + 1]] \in Nat
        BY <2>1 DEF Linked
    <2> QED BY <2>2, <2>3
<1> QED BY <1>2, <1>3, <1>4

\* From h to g the list of L becomes one of L2, and only links of the two change.
Relinked(h, g, n, L, L2) ==
    /\ g \in Heaps(n)
    /\ \E rank : Linked(g.mem, g.head, L2, rank)
    /\ \A i \in (1 .. n) \ Links(L \cup L2) : g.mem[i] = h.mem[i]

\* Without one of its blocks, the list is a list of the others.
LEMMA UnlinkedList ==
    ASSUME NEW n \in Nat, NEW h \in Heaps(n), NEW F, Spread(F, n),
           NEW rank, Linked(h.mem, h.head, F, rank), NEW b \in F
    PROVE  Relinked(h, Unlinked(h, b), n, F, F \ {b})
<1> DEFINE m == h.mem
           p == m[b + 1]
           q == m[b + 2]
           m2 == Unlinked(h, b).mem
           first == Unlinked(h, b).head
           R == F \ {b}
           rank2 == [f \in R |-> rank[f]]
<1>1. /\ NULL \notin F /\ \A f \in F : f \in Nat \ {0} /\ f + 2 <= n
      /\ \A f, g \in F : f # g + 1
    BY DEF Spread, NULL
<1>2. p \in F \cup {NULL} /\ q \in F \cup {NULL} /\ p # b /\ q # b /\ (p = q => p = NULL)
    BY <1>1, Neighbours DEF Linked
<1>3. p + 2 <= n /\ q + 2 <= n /\ b \in 1 .. n /\ b + 2 <= n /\ n >= 2
    BY <1>1, <1>2 DEF NULL
<1>4. /\ Unlinked(h, b) \in Heaps(n)
      /\ first = IF p = NULL THEN q ELSE h.head
      /\ \A i \in 1 .. n : m2[i] = IF q # NULL /\ i = q + 1 THEN p
                                    ELSE IF p # NULL /\ i = p + 2 THEN q ELSE m[i]
    BY <1>3, UnlinkedWords
<1> HIDE DEF m2, first
<1>5. \A f \in F : f + 1 \in 1 .. n /\ f + 2 \in 1 .. n
    BY <1>1
<1>6. ASSUME NEW f \in F
      PROVE  /\ m2[f + 1] = IF f = q THEN p ELSE m[f + 1]
             /\ m2[f + 2] = IF f = p THEN q ELSE m[f + 2]
    <2>1. f # NULL /\ f \in Nat /\ p \in Nat /\ q \in Nat
        BY <1>1, <1>2 DEF NULL
    <2>2. (q # NULL => f # q + 1 /\ q # f + 1) /\ (p # NULL => f # p + 1 /\ p # f + 1)
        BY <1>1, <1>2
    <2>3. /\ f + 1 = q + 1 <=> f = q
          /\ f + 2 = p + 2 <=> f = p
          /\ f + 2 = q + 1 <=> q = f + 1
          /\ f + 1 = p + 2 <=> f = p + 1
        BY <2>1
    <2> HIDE DEF p, q, m
    <2>4. m2[f + 1] = IF f = q THEN p ELSE m[f + 1]
        BY <1>4, <1>5, <2>1, <2>2, <2>3
    <2>5. m2[f + 2] = IF f = p THEN q ELSE m[f + 2]
        BY <1>4, <1>5, <2>1, <2>2, <2>3
    <2> QED BY <2>4, <2>5
<1>7. /\ h.head \in F \cup {NULL} /\ (h.head # NULL => m[h.head + 1] = NULL)
      /\ \A f \in F :
          /\ m[f + 1] \in F \cup {NULL} /\ m[f + 2] \in F \cup {NULL}
          /\ m[f + 1] = NULL => h.head = f
          /\ m[f + 1] # NULL => m[m[f + 1] + 2] = f
          /\ m[f + 2] # NULL => m[m[f + 2] + 1] = f /\ rank[f] < rank[m[f + 2]]
      /\ rank \in [F -> Nat]
    BY DEF Linked
<1>8. ASSUME NEW f \in R
      PROVE  /\ m2[f + 1] \in R \cup {NULL} /\ m2[f + 2] \in R \cup {NULL}
             /\ m2[f + 1] = NULL => first = f
             /\ m2[f + 1] # NULL => m2[m2[f + 1] + 2] = f
             /\ m2[f + 2] # NULL => m2[m2[f + 2] + 1] = f /\ rank[f] < rank[m2[f + 2]]
    <2>1. f \in F /\ f # b
        OBVIOUS
    <2> HIDE DEF R
    <2>2. /\ p # NULL => m[p + 2] = b /\ rank[p] < rank[b]
          /\ q # NULL => m[q + 1] = b /\ rank[b] < rank[q]
          /\ p = NULL => h.head = b
          /\ \A g \in F : rank[g] \in Nat
        BY <1>1, <1>2, <1>7
    <2>3. (m[f + 1] = b => f = q) /\ (m[f + 2] = b => f = p)
        BY <1>7, <2>1, <1>1
    <2>4. (f = q => m[f + 1] = b) /\ (f = p => m[f + 2] = b)
        BY <2>2, <2>1, <1>1
    <2> HIDE DEF p, q, m
    <2>5. m2[f + 1] \in R \cup {NULL} /\ m2[f + 2] \in R \cup {NULL}
        BY <1>2, <1>6, <1>7, <2>1, <2>3 DEF R
    <2>6. m2[f + 1] = NULL => first = f
        BY <1>2, <1>4, <1>6, <1>7, <2>1, <2>2
    <2>7. ASSUME m2[f + 1] # NULL PROVE m2[m2[f + 1] + 2] = f
        <3>1. CASE f = q
            BY <1>2, <1>6, <2>1, <2>7, <3>1
        <3>2. CASE f # q
            <4>1. m2[f + 1] = m[f + 1] /\ m[f + 1] # b /\ m[f + 1] \in F
                BY <1>6, <1>7, <2>1, <2>3, <2>7, <3>2
            <4>2. m[m[f + 1] + 2] = f
                BY <1>7, <2>1, <2>7, <4>1
            <4>3. m[f + 1] # p
                BY <2>1, <2>2, <4>1, <4>2, <1>1
            <4> QED BY <1>6, <4>1, <4>2, <4>3
        <3> QED BY <3>1, <3>2
    <2>8. ASSUME m2[f + 2] # NULL PROVE m2[m2[f + 2] + 1] = f /\ rank[f] < rank[m2[f + 2]]
        <3>1. CASE f = p
            <4>1. m2[f + 2] = q /\ q \in F /\ m2[q + 1] = p
                BY <1>2, <1>6, <2>1, <2>8, <3>1
            <4>2. p # NULL /\ q # NULL /\ p \in F
                BY <1>1, <2>1, <2>8, <3>1, <4>1
            <4>3. rank[p] < rank[q]
                BY <2>2, <4>1, <4>2
            <4> QED BY <3>1, <4>1, <4>3
        <3>2. CASE f # p
            <4>1. m2[f + 2] = m[f + 2] /\ m[f + 2] # b /\ m[f + 2] \in F
                BY <1>6, <1>7, <2>1, <2>3, <2>8, <3>2
            <4>2. m[m[f + 2] + 1] = f /\ rank[f] < rank[m[f + 2]]
                BY <1>7, <2>1, <2>8, <4>1
            <4>3. m[f + 2] # q
                BY <2>1, <2>2, <4>1, <4>2, <1>1
            <4> QED BY <1>6, <4>1, <4>2, <4>3
        <3> QED BY <3>1, <3>2
    <2> QED BY <2>5, <2>6, <2>7, <2>8
<1>9. /\ first \in R \cup {NULL} /\ (first # NULL => m2[first + 1] = NULL)
      /\ rank2 \in [R -> Nat] /\ \A f \in R : rank2[f] = rank[f]
    <2>1. rank2 \in [R -> Nat] /\ \A f \in R : rank2[f] = rank[f]
        BY <1>7
    <2>2. (p # NULL => h.head # b) /\ (q # NULL => h.head # q)
        BY <1>1, <1>2, <1>7
    <2>3. first \in R \cup {NULL}
        BY <1>2, <1>4, <1>7, <2>2
    <2>4. first # NULL => m2[first + 1] = NULL
        <3> HIDE DEF p, q, m
        <3>1. CASE p = NULL
            BY <1>2, <1>4, <1>6, <3>1
        <3>2. CASE p # NULL
            BY <1>2, <1>4, <1>6, <1>7, <2>2, <3>2
        <3> QED BY <3>1, <3>2
    <2> QED BY <2>1, <2>3, <2>4
<1>10. Linked(m2, first, R, rank2)
    <2> HIDE DEF R, rank2
    <2> QED BY <1>8, <1>9 DEF Linked
<1>11. \A i \in (1 .. n) \ Links(F \cup R) : m2[i] = m[i]
    <2>1. /\ q # NULL => q + 1 \in Links(F \cup R)
          /\ p # NULL => p + 2 \in Links(F \cup R)
        BY <1>2 DEF Links
    <2> HIDE DEF p, q, m
    <2> QED BY <1>4, <2>1
<1> HIDE DEF rank2
<1> QED BY <1>4, <1>10, <1>11 DEF Relinked, m2, first

\* Another block takes the place of a block of the list.
LEMMA MovedList ==
    ASSUME NEW n \in Nat, NEW h \in Heaps(n), NEW F, Spread(F, n),
           NEW rank, Linked(h.mem, h.head, F, rank), NEW b \in F,
           NEW new, new \notin F, Spread((F \ {b}) \cup {new}, n)
    PROVE  Relinked(h, Moved(h, b, new), n, F, (F \ {b}) \cup {new})
<1> DEFINE m == h.mem
           p == m[b + 1]
           q == m[b + 2]
           m2 == Moved(h, b, new).mem
           first == Moved(h, b, new).head
           R == (F \ {b}) \cup {new}
           rank2 == [f \in R |-> IF f = new THEN rank[b] ELSE rank[f]]
<1>1. /\ NULL \notin F /\ \A f \in F : f \in Nat \ {0} /\ f + 2 <= n
      /\ NULL \notin R /\ \A f \in R : f \in Nat \ {0} /\ f + 2 <= n
      /\ \A f, g \in R : f # g + 1
      /\ new # NULL
    BY DEF Spread, NULL
<1>2. /\ p \in F \cup {NULL} /\ q \in F \cup {NULL} /\ p # b /\ q # b /\ (p = q => p = NULL)
      /\ p # new /\ q # new
    BY <1>1, Neighbours DEF Linked
<1>3. p + 2 <= n /\ q + 2 <= n /\ b \in 1 .. n /\ b + 2 <= n /\ new \in 1 .. n /\ new + 2 <= n
    BY <1>1, <1>2 DEF NULL
<1>4. /\ Moved(h, b, new) \in Heaps(n)
      /\ first = IF p = NULL THEN new ELSE h.head
      /\ \A i \in 1 .. n : m2[i] = IF i = new + 2 THEN q
                                    ELSE IF i = new + 1 THEN p
                                    ELSE IF q # NULL /\ i = q + 1 THEN new
                                    ELSE IF p # NULL /\ i = p + 2 THEN new ELSE m[i]
    BY <1>3, MovedWords
<1> HIDE DEF m2, first
<1>5. \A f \in R : f + 1 \in 1 .. n /\ f + 2 \in 1 .. n
    BY <1>1
<1>6. ASSUME NEW f \in R
      PROVE  /\ m2[f + 1] = IF f = new THEN p ELSE IF f = q THEN new ELSE m[f + 1]
             /\ m2[f + 2] = IF f = new THEN q ELSE IF f = p THEN new ELSE m[f + 2]
    <2>1. f # NULL /\ f \in Nat /\ p \in Nat /\ q \in Nat /\ new \in Nat
        BY <1>1, <1>2 DEF NULL
    <2>2. /\ q # NULL => f # q + 1 /\ q # f + 1
          /\ p # NULL => f # p + 1 /\ p # f + 1
          /\ f # new + 1 /\ new # f + 1
        BY <1>1, <1>2
    <2>3. /\ f + 1 = q + 1 <=> f = q
          /\ f + 2 = p + 2 <=> f = p
          /\ f + 2 = q + 1 <=> q = f + 1
          /\ f + 1 = p + 2 <=> f = p + 1
          /\ f + 1 = new + 1 <=> f = new
          /\ f + 2 = new + 2 <=> f = new
          /\ f + 2 = new + 1 <=> new = f + 1
          /\ f + 1 = new + 2 <=> f = new + 1
        BY <2>1
    <2> HIDE DEF p, q, m
    <2>4. m2[f + 1] = IF f = new THEN p ELSE IF f = q THEN new ELSE m[f + 1]
        BY <1>2, <1>4, <1>5, <2>1, <2>2, <2>3
    <2>5. m2[f + 2] = IF f = new THEN q ELSE IF f = p THEN new ELSE m[f + 2]
        BY <1>2, <1>4, <1>5, <2>1, <2>2, <2>3
    <2> QED BY <2>4, <2>5
<1>7. /\ h.head \in F \cup {NULL} /\ (h.head # NULL => m[h.head + 1] = NULL)
      /\ \A f \in F :
          /\ m[f + 1] \in F \cup {NULL} /\ m[f + 2] \in F \cup {NULL}
          /\ m[f + 1] = NULL => h.head = f
          /\ m[f + 1] # NULL => m[m[f + 1] + 2] = f
          /\ m[f + 2] # NULL => m[m[f + 2] + 1] = f /\ rank[f] < rank[m[f + 2]]
      /\ rank \in [F -> Nat]
    BY DEF Linked
<1>8. /\ p # NULL => m[p + 2] = b /\ rank[p] < rank[b]
      /\ q # NULL => m[q + 1] = b /\ rank[b] < rank[q]
      /\ p = NULL => h.head = b
      /\ p # NULL => h.head # b
      /\ q # NULL => h.head # q
      /\ \A g \in F : rank[g] \in Nat
    BY <1>1, <1>2, <1>7
<1>9. /\ rank2 \in [R -> Nat] /\ rank2[new] = rank[b]
      /\ \A f \in F \ {b} : rank2[f] = rank[f]
    BY <1>7
<1> HIDE DEF rank2
<1>10. /\ m2[new + 1] = p /\ m2[new + 2] = q
       /\ q # NULL => m2[q + 1] = new
       /\ p # NULL => m2[p + 2] = new
    BY <1>2, <1>6
<1>11. p \in R \cup {NULL} /\ q \in R \cup {NULL}
    BY <1>2
<1>12. ASSUME NEW f \in R, f # new
      PROVE  /\ m2[f + 1] \in R \cup {NULL} /\ m2[f + 2] \in R \cup {NULL}
             /\ m2[f + 1] = NULL => first = f
             /\ m2[f + 1] # NULL => m2[m2[f + 1] + 2] = f
             /\ m2[f + 2] # NULL => m2[m2[f + 2] + 1] = f /\ rank2[f] < rank2[m2[f + 2]]
    <2>1. f \in F /\ f # b /\ f \in F \ {b}
        BY <1>12
    <2>2. m2[f + 1] = (IF f = q THEN new ELSE m[f + 1])
          /\ m2[f + 2] = IF f = p THEN new ELSE m[f + 2]
        BY <1>6, <1>12
    <2>3. (m[f + 1] = b => f = q) /\ (m[f + 2] = b => f = p)
        BY <1>1, <1>7, <2>1
    <2>4. (f = q => m[f + 1] = b) /\ (f = p => m[f + 2] = b) /\ f # NULL
        BY <1>1, <1>8, <2>1
    <2>5. new \in R /\ \A g \in F : g # b => g \in R
        OBVIOUS
    <2> HIDE DEF p, q, m
    <2>6. m2[f + 1] \in R \cup {NULL} /\ m2[f + 2] \in R \cup {NULL}
        BY <1>7, <2>1, <2>2, <2>3, <2>5
    <2>7. m2[f + 1] = NULL => first = f
        BY <1>1, <1>4, <1>7, <1>8, <2>1, <2>2
    <2>8. ASSUME m2[f + 1] # NULL PROVE m2[m2[f + 1] + 2] = f
        <3>1. CASE f = q
            BY <1>10, <2>2, <3>1
        <3>2. CASE f # q
            <4>1. m2[f + 1] = m[f + 1] /\ m[f + 1] # b /\ m[f + 1] \in F /\ m[f + 1] \in R
                BY <1>7, <2>1, <2>2, <2>3, <2>5, <2>8, <3>2
            <4>2. m[m[f + 1] + 2] = f
                BY <1>7, <2>1, <2>8, <4>1
            <4>3. m[f + 1] # p /\ m[f + 1] # new
                BY <1>1, <1>8, <2>1, <4>1, <4>2
            <4> QED BY <1>6, <4>1, <4>2, <4>3
        <3> QED BY <3>1, <3>2
    <2>9. ASSUME m2[f + 2] # NULL PROVE m2[m2[f + 2] + 1] = f /\ rank2[f] < rank2[m2[f + 2]]
        <3>1. CASE f = p
            <4>1. m2[f + 2] = new /\ m2[new + 1] = f
                BY <1>10, <2>2, <3>1
            <4>2. rank2[f] < rank2[new]
                BY <1>8, <1>9, <2>1, <2>4, <3>1
            <4> QED BY <4>1, <4>2
        <3>2. CASE f # p
            <4>1. m2[f + 2] = m[f + 2] /\ m[f + 2] # b /\ m[f + 2] \in F /\ m[f + 2] \in R
                BY <1>7, <2>1, <2>2, <2>3, <2>5, <2>9, <3>2
            <4>2. m[m[f + 2] + 1] = f /\ rank[f] < rank[m[f + 2]]
                BY <1>7, <2>1, <2>9, <4>1
            <4>3. m[f + 2] # q /\ m[f + 2] # new
                BY <1>1, <1>8, <2>1, <4>1, <4>2
            <4>4. rank2[f] = rank[f] /\ rank2[m[f + 2]] = rank[m[f + 2]]
                BY <1>9, <2>1, <4>1
            <4> QED BY <1>6, <4>1, <4>2, <4>3, <4>4
        <3> QED BY <3>1, <3>2
    <2> QED BY <2>6, <2>7, <2>8, <2>9
<1>13. /\ first \in R \cup {NULL} /\ (first # NULL => m2[first + 1] = NULL)
    <2>1. CASE p = NULL
        BY <1>4, <1>10, <2>1
    <2>2. CASE p # NULL
        <3>1. first = h.head /\ (h.head # NULL => h.head \in R /\ h.head # new)
            BY <1>4, <1>7, <1>8, <2>2
        <3>2. h.head # NULL => m2[h.head + 1] = m[h.head + 1]
            BY <1>1, <1>2, <1>6, <1>8, <3>1
        <3> QED BY <1>7, <3>1, <3>2
    <2> QED BY <2>1, <2>2
<1>14. /\ m2[new + 1] = NULL => first = new
       /\ m2[new + 1] # NULL => m2[m2[new + 1] + 2] = new
       /\ m2[new + 2] # NULL => m2[m2[new + 2] + 1] = new /\ rank2[new] < rank2[m2[new + 2]]
    <2>1. q # NULL => rank2[q] = rank[q]
        BY <1>2, <1>9
    <2> HIDE DEF p, q, m
    <2> QED BY <1>4, <1>8, <1>9, <1>10, <2>1
<1>15. Linked(m2, first, R, rank2)
    <2>1. ASSUME NEW f \in R
          PROVE  /\ m2[f + 1] \in R \cup {NULL} /\ m2[f + 2] \in R \cup {NULL}
                 /\ m2[f + 1] = NULL => first = f
                 /\ m2[f + 1] # NULL => m2[m2[f + 1] + 2] = f
                 /\ m2[f + 2] # NULL => m2[m2[f + 2] + 1] = f
                                        /\ rank2[f] < rank2[m2[f + 2]]
        <3>1. CASE f = new
            BY <1>10, <1>11, <1>14, <3>1
        <3>2. CASE f # new
            BY <1>12, <3>2
        <3> QED BY <3>1, <3>2
    <2> HIDE DEF R
    <2> QED BY <1>9, <1>13, <2>1 DEF Linked
<1>16. \A i \in (1 .. n) \ Links(F \cup R) : m2[i] = m[i]
    <2>1. /\ q # NULL => q + 1 \in Links(F \cup R)
          /\ p # NULL => p + 2 \in Links(F \cup R)
          /\ new + 1 \in Links(F \cup R) /\ new + 2 \in Links(F \cup R)
        BY <1>2 DEF Links
    <2> HIDE DEF p, q, m
    <2> QED BY <1>4, <2>1
<1> QED BY <1>4, <1>15, <1>16 DEF Relinked, m2, first

\* A block becomes the first of the list.
LEMMA PushedList ==
    ASSUME NEW n \in Nat, NEW h \in Heaps(n), NEW F,
           NEW rank, Linked(h.mem, h.head, F, rank),
           NEW b, b \notin F, Spread(F \cup {b}, n), n >= 2
    PROVE  Relinked(h, PushedInFront(h, b), n, F, F \cup {b})
<1> DEFINE m == h.mem
           q == h.head
           m2 == PushedInFront(h, b).mem
           R == F \cup {b}
           rank2 == [f \in R |-> IF f = b THEN 0 ELSE rank[f] + 1]
<1>1. /\ NULL \notin R /\ \A f \in R : f \in Nat \ {0} /\ f + 2 <= n
      /\ \A f, g \in R : f # g + 1
      /\ NULL = 0
    BY DEF Spread, NULL
<1>2. /\ q \in F \cup {NULL} /\ (q # NULL => m[q + 1] = NULL)
      /\ \A f \in F :
          /\ m[f + 1] \in F \cup {NULL} /\ m[f + 2] \in F \cup {NULL}
          /\ m[f + 1] = NULL => q = f
          /\ m[f + 1] # NULL => m[m[f + 1] + 2] = f
          /\ m[f + 2] # NULL => m[m[f + 2] + 1] = f /\ rank[f] < rank[m[f + 2]]
      /\ rank \in [F -> Nat]
    BY DEF Linked
<1>3. b \in 1 .. n /\ b + 2 <= n /\ q + 2 <= n
    BY <1>1, <1>2
<1>4. /\ PushedInFront(h, b) \in Heaps(n)
      /\ PushedInFront(h, b).head = b
      /\ \A i \in 1 .. n : m2[i] = IF i = b + 2 THEN q
                                    ELSE IF i = b + 1 THEN NULL
                                    ELSE IF q # NULL /\ i = q + 1 THEN b ELSE m[i]
    BY <1>3, PushedWords
<1> HIDE DEF m2
<1>5. ASSUME NEW f \in R
      PROVE  /\ m2[f + 1] = IF f = b THEN NULL ELSE IF f = q THEN b ELSE m[f + 1]
             /\ m2[f + 2] = IF f = b THEN q ELSE m[f + 2]
    <2>1. f # NULL /\ f \in Nat /\ q \in Nat /\ b \in Nat /\ f + 1 \in 1 .. n /\ f + 2 \in 1 .. n
        BY <1>1, <1>2
    <2>2. /\ q # NULL => f # q + 1 /\ q # f + 1
          /\ f # b + 1 /\ b # f + 1
        BY <1>1, <1>2
    <2>3. /\ f + 1 = q + 1 <=> f = q
          /\ f + 2 = q + 1 <=> q = f + 1
          /\ f + 1 = b + 1 <=> f = b
          /\ f + 2 = b + 2 <=> f = b
          /\ f + 2 = b + 1 <=> b = f + 1
          /\ f + 1 = b + 2 <=> f = b + 1
        BY <2>1
    <2> HIDE DEF q, m
    <2>4. m2[f + 1] = IF f = b THEN NULL ELSE IF f = q THEN b ELSE m[f + 1]
        BY <1>2, <1>4, <2>1, <2>2, <2>3
    <2>5. m2[f + 2] = IF f = b THEN q ELSE m[f + 2]
        BY <1>2, <1>4, <2>1, <2>2, <2>3
    <2> QED BY <2>4, <2>5
<1>6. /\ rank2 \in [R -> Nat] /\ rank2[b] = 0
      /\ \A f \in F : rank2[f] = rank[f] + 1 /\ rank[f] \in Nat
    BY <1>2
<1>7. Linked(m2, b, R, rank2)
    <2>1. m2[b + 1] = NULL /\ m2[b + 2] = q /\ (q # NULL => m2[q + 1] = b /\ q # b)
          /\ b # NULL
        BY <1>1, <1>2, <1>5
    <2>2. q # NULL => rank2[b] < rank2[q]
        BY <1>2, <1>6
    <2>3. ASSUME NEW f \in F
          PROVE  /\ m2[f + 1] \in R \cup {NULL} /\ m2[f + 2] \in R \cup {NULL}
                 /\ m2[f + 1] # NULL /\ m2[m2[f + 1] + 2] = f
                 /\ m2[f + 2] # NULL => m2[m2[f + 2] + 1] = f
                                        /\ rank2[f] < rank2[m2[f + 2]]
        <3>1. f \in R /\ f # b /\ f # NULL
            BY <1>1
        <3>2. m2[f + 1] = (IF f = q THEN b ELSE m[f + 1]) /\ m2[f + 2] = m[f + 2]
            BY <1>5, <3>1
        <3>3. f # q => m[f + 1] \in F /\ m[f + 1] \in R /\ m[f + 1] # b
            BY <1>2
        <3>4. m2[f + 1] \in R /\ m2[f + 2] \in R \cup {NULL}
            BY <1>2, <3>2, <3>3
        <3>5. m2[m2[f + 1] + 2] = f
            <4>1. CASE f = q
                BY <2>1, <3>2, <4>1
            <4>2. CASE f # q
                BY <1>1, <1>2, <1>5, <3>2, <3>3, <4>2
            <4> QED BY <4>1, <4>2
        <3>6. ASSUME m2[f + 2] # NULL
              PROVE  m2[m2[f + 2] + 1] = f /\ rank2[f] < rank2[m2[f + 2]]
            <4>1. m[f + 2] \in F /\ m[f + 2] # b /\ m[m[f + 2] + 1] = f
                  /\ rank[f] < rank[m[f + 2]]
                BY <1>2, <3>2, <3>6
            <4>2. m[f + 2] # q
                BY <1>1, <1>2, <3>1, <4>1
            <4>3. m2[m[f + 2] + 1] = f
                BY <1>5, <4>1, <4>2
            <4>4. rank2[f] < rank2[m[f + 2]]
                BY <1>6, <4>1
            <4> QED BY <3>2, <4>3, <4>4
        <3> QED BY <1>1, <3>4, <3>5, <3>6
    <2>4. q \in R \cup {NULL} /\ NULL \in R \cup {NULL}
        BY <1>2
    <2> HIDE DEF q, m, rank2
    <2>5. ASSUME NEW f \in R
          PROVE  /\ m2[f + 1] \in R \cup {NULL} /\ m2[f + 2] \in R \cup {NULL}
                 /\ m2[f + 1] = NULL => b = f
                 /\ m2[f + 1] # NULL => m2[m2[f + 1] + 2] = f
                 /\ m2[f + 2] # NULL => m2[m2[f + 2] + 1] = f
                                        /\ rank2[f] < rank2[m2[f + 2]]
        <3>1. CASE f = b
            BY <2>1, <2>2, <2>4, <3>1
        <3>2. CASE f # b
            BY <2>3, <3>2
        <3> QED BY <3>1, <3>2
    <2>6. b \in R
        OBVIOUS
    <2> HIDE DEF R
    <2> QED BY <1>6, <2>1, <2>5, <2>6 DEF Linked
<1>8. \A i \in (1 .. n) \ Links(F \cup R) : m2[i] = m[i]
    <2>1. /\ q # NULL => q + 1 \in Links(F \cup R)
          /\ b + 1 \in Links(F \cup R) /\ b + 2 \in Links(F \cup R)
        BY <1>2 DEF Links
    <2> HIDE DEF q, m, R
    <2> QED BY <1>4, <2>1
<1> HIDE DEF rank2
<1> QED BY <1>4, <1>7, <1>8 DEF Relinked, m2

\* A block of the list that has no neighbours is the only one.
LEMMA OnlyBlock ==
    ASSUME NEW F, NEW m, NEW first, NEW rank, Linked(m, first, F, rank), NULL \notin F,
           NEW b \in F, m[b + 1] = NULL, m[b + 2] = NULL
    PROVE  F = {b}
<1> SUFFICES ASSUME NEW c \in F, c # b PROVE FALSE
    OBVIOUS
<1> DEFINE T == {rank[f] : f \in F \ {b}}
<1>1. /\ rank \in [F -> Nat] /\ first = b
      /\ \A f \in F :
          /\ m[f + 1] \in F \cup {NULL}
          /\ m[f + 1] = NULL => first = f
          /\ m[f + 1] # NULL => m[m[f + 1] + 2] = f
          /\ m[f + 2] # NULL => rank[f] < rank[m[f + 2]]
    BY DEF Linked
<1>2. T \subseteq Nat /\ T # {}
    <2>1. rank[c] \in T
        OBVIOUS
    <2>2. T \subseteq Nat
        BY <1>1
    <2> QED BY <2>1, <2>2
<1>3. Min(T) \in T /\ \A y \in T : Min(T) <= y
    BY <1>2, MinIsLeast
<1>4. PICK f \in F \ {b} : rank[f] = Min(T)
    BY <1>3
<1>5. m[f + 1] \in F /\ m[f + 1] # NULL /\ m[m[f + 1] + 2] = f /\ f # NULL
    BY <1>1, <1>4
<1>6. m[f + 1] # b
    BY <1>4, <1>5
<1>7. rank[m[f + 1]] < rank[f] /\ rank[m[f + 1]] \in T
    BY <1>1, <1>5, <1>6
<1>8. rank[f] <= rank[m[f + 1]]
    BY <1>3, <1>4, <1>7
<1> QED BY <1>1, <1>4, <1>5, <1>7, <1>8

-----------------------------------------------------------------------------
(* The heap as blocks *)

\* The blocks of sz are those of the heap h. The blocks of F are marked as free, those
\* of L are in the list, and the links of all others are cleared.
Shape(h, n, sz, F, L, rank) ==
    /\ h \in Heaps(n) /\ Tiles(sz, n) /\ L \subseteq F /\ F \subseteq DOMAIN sz
    /\ Tags(h.mem, sz, F)
    /\ Linked(h.mem, h.head, L, rank)
    /\ \A b \in DOMAIN sz \ L : h.mem[b + 1] = NULL /\ h.mem[b + 2] = NULL

\* No two free blocks lie side by side.
Apart(sz, F) == \A b \in F : b + sz[b] \notin F

\* Between two calls all free blocks are in the list and apart.
HeapIs(h, n, sz, F, rank) == Shape(h, n, sz, F, F, rank) /\ Apart(sz, F)

\* The blocks of A stay, and no word of them changes.
Untouched(h, g, sz, sz2, A) ==
    \A c \in A : c \in DOMAIN sz2 /\ sz2[c] = sz[c]
                 /\ \A i \in c .. c + sz[c] - 1 : g.mem[i] = h.mem[i]

Split(sz, b, words) ==
    [c \in DOMAIN sz \cup {b + words} |->
       IF c = b THEN words ELSE IF c = b + words THEN sz[b] - words ELSE sz[c]]

Joined(sz, b) ==
    [c \in DOMAIN sz \ {b + sz[b]} |->
       IF c = b THEN sz[b] + sz[b + sz[b]] ELSE sz[c]]

\* The numbers of a block.
LEMMA BlockBounds ==
    ASSUME NEW n \in Nat, NEW sz, Tiles(sz, n), NEW b \in DOMAIN sz
    PROVE  /\ b \in 1 .. n /\ sz[b] \in Nat /\ sz[b] >= 4 /\ b + sz[b] <= n + 1
           /\ b + 1 \in 1 .. n /\ b + 2 \in 1 .. n /\ b + sz[b] - 1 \in 1 .. n
           /\ b + sz[b] # n + 1 => b + sz[b] \in DOMAIN sz
<1>1. b \in 1 .. n /\ sz[b] \in Nat /\ sz[b] >= 4 /\ b + sz[b] \in DOMAIN sz \cup {n + 1}
      /\ DOMAIN sz \subseteq 1 .. n
    BY DEF Tiles
<1>2. b + sz[b] <= n + 1
    BY <1>1
<1> QED BY <1>1, <1>2

\* The words of another block are not those of b.
LEMMA OtherBlock ==
    ASSUME NEW n \in Nat, NEW sz, Tiles(sz, n), NEW b \in DOMAIN sz, NEW c \in DOMAIN sz,
           b # c
    PROVE  \A i \in c .. c + sz[c] - 1 : i \notin b .. b + sz[b] - 1
BY OneBlock

\* The links of free blocks are neither size words nor in an allocated block.
LEMMA LinkWords ==
    ASSUME NEW n \in Nat, NEW sz, Tiles(sz, n), NEW F, F \subseteq DOMAIN sz,
           NEW c \in DOMAIN sz, NEW i \in c .. c + sz[c] - 1, i \in Links(F)
    PROVE  c \in F /\ i \in {c + 1, c + 2}
<1>1. PICK f \in F : i = f + 1 \/ i = f + 2
    BY DEF Links
<1>2. f \in Nat /\ sz[f] \in Nat /\ sz[f] >= 4 /\ f \in DOMAIN sz
    BY BlockBounds
<1>3. i \in f .. f + sz[f] - 1
    BY <1>1, <1>2
<1>4. f = c
    BY <1>2, <1>3, OneBlock
<1> QED BY <1>1, <1>4

\* Block b of sz is split in two after words words.
SplitInto(sz, t, n, b, words) ==
    /\ Tiles(t, n)
    /\ DOMAIN t = DOMAIN sz \cup {b + words}
    /\ b + words \notin DOMAIN sz
    /\ t[b] = words
    /\ t[b + words] = sz[b] - words
    /\ \A c \in DOMAIN sz : c # b => t[c] = sz[c]

\* Splitting a block where both parts have four words leaves a tiling.
LEMMA SplitTiles ==
    ASSUME NEW n \in Nat, NEW sz, Tiles(sz, n), NEW b \in DOMAIN sz, NEW words \in Nat,
           words >= 4, sz[b] - words >= 4
    PROVE  SplitInto(sz, Split(sz, b, words), n, b, words)
<1> DEFINE t == Split(sz, b, words)
           e == b + words
<1>1. /\ b \in 1 .. n /\ sz[b] \in Nat /\ b + sz[b] <= n + 1
      /\ e \in Nat /\ e > b /\ e < b + sz[b] /\ e \in 1 .. n
      /\ sz[b] - words \in Nat /\ e + (sz[b] - words) = b + sz[b]
      /\ e # b /\ e \in b .. b + sz[b] - 1
    BY BlockBounds
<1>2. \A c \in DOMAIN sz : c \in 1 .. n /\ sz[c] \in Nat /\ sz[c] >= 4
                           /\ c + sz[c] \in DOMAIN sz \cup {n + 1}
    BY DEF Tiles
<1>3. e \notin DOMAIN sz
    <2> SUFFICES ASSUME e \in DOMAIN sz PROVE FALSE
        OBVIOUS
    <2>1. e \in e .. e + sz[e] - 1
        BY <1>1, <1>2
    <2> QED BY <1>1, <2>1, OneBlock
<1>4. /\ DOMAIN t = DOMAIN sz \cup {e} /\ t[b] = words /\ t[e] = sz[b] - words
      /\ \A c \in DOMAIN sz : c # b => t[c] = sz[c]
    BY <1>1, <1>3 DEF Split
<1> HIDE DEF t
<1>5. \A c, d \in DOMAIN sz : c < d => c + sz[c] <= d
    BY DEF Tiles
<1>6. Tiles(t, n)
    <2>1. DOMAIN t \subseteq 1 .. n /\ 1 \in DOMAIN t
        BY <1>1, <1>2, <1>4 DEF Tiles
    <2>2. ASSUME NEW c \in DOMAIN t
          PROVE  t[c] \in Nat /\ t[c] >= 4 /\ c + t[c] \in DOMAIN t \cup {n + 1}
        <3>1. CASE c = b
            BY <1>4, <3>1
        <3>2. CASE c = e
            BY <1>1, <1>2, <1>4, <3>2
        <3>3. CASE c # b /\ c # e
            BY <1>2, <1>4, <3>3
        <3> QED BY <3>1, <3>2, <3>3
    <2>3. ASSUME NEW c \in DOMAIN t, NEW d \in DOMAIN t, c < d PROVE c + t[c] <= d
        <3>1. CASE c = b /\ d = e
            BY <1>1, <1>4, <3>1
        <3>2. CASE c = b /\ d # e
            BY <1>1, <1>2, <1>4, <1>5, <2>3, <3>2
        <3>3. CASE c = e /\ d # e
            <4>1. d \in DOMAIN sz /\ d \in Nat /\ sz[d] \in Nat /\ sz[d] >= 4
                BY <1>2, <1>4, <3>3
            <4>2. d # b /\ d > b
                BY <1>1, <2>3, <3>3, <4>1
            <4>3. b + sz[b] <= d
                BY <1>5, <4>1, <4>2
            <4> QED BY <1>1, <1>4, <3>3, <4>3
        <3>4. CASE c # b /\ c # e /\ d = e
            <4>1. c \in DOMAIN sz /\ c \in Nat /\ sz[c] \in Nat /\ t[c] = sz[c]
                BY <1>2, <1>4, <3>4
            <4>2. ~ (b < c)
                BY <1>1, <1>5, <2>3, <3>4, <4>1
            <4>3. c + sz[c] <= b
                BY <1>1, <1>5, <3>4, <4>1, <4>2
            <4> QED BY <1>1, <3>4, <4>1, <4>3
        <3>5. CASE c # b /\ c # e /\ d # e
            BY <1>4, <1>5, <2>3, <3>5
        <3>6. CASE c = e /\ d = e
            BY <1>1, <2>3, <3>6
        <3> QED BY <3>1, <3>2, <3>3, <3>4, <3>5, <3>6
    <2> QED BY <2>1, <2>2, <2>3 DEF Tiles
<1> QED BY <1>3, <1>4, <1>6 DEF SplitInto, t

\* Block b of sz is joined with the next one.
JoinedInto(sz, t, n, b) ==
    /\ Tiles(t, n)
    /\ DOMAIN t = DOMAIN sz \ {b + sz[b]}
    /\ b + sz[b] # b
    /\ t[b] = sz[b] + sz[b + sz[b]]
    /\ \A c \in DOMAIN sz \ {b + sz[b]} : c # b => t[c] = sz[c]

\* Joining a block with the one behind it leaves a tiling.
LEMMA JoinedTiles ==
    ASSUME NEW n \in Nat, NEW sz, Tiles(sz, n), NEW b \in DOMAIN sz,
           b + sz[b] \in DOMAIN sz
    PROVE  JoinedInto(sz, Joined(sz, b), n, b)
<1> DEFINE t == Joined(sz, b)
           e == b + sz[b]
<1>1. b \in 1 .. n /\ sz[b] \in Nat /\ sz[b] >= 4 /\ e # b /\ e > b /\ e \in Nat
    BY BlockBounds
<1>2. \A c \in DOMAIN sz : c \in 1 .. n /\ sz[c] \in Nat /\ sz[c] >= 4
                           /\ c + sz[c] \in DOMAIN sz \cup {n + 1}
    BY DEF Tiles
<1>3. /\ DOMAIN t = DOMAIN sz \ {e} /\ t[b] = sz[b] + sz[e]
      /\ \A c \in DOMAIN sz \ {e} : c # b => t[c] = sz[c]
    BY <1>1 DEF Joined
<1> HIDE DEF t
<1>4. \A c, d \in DOMAIN sz : c < d => c + sz[c] <= d
    BY DEF Tiles
<1>5. b + t[b] = e + sz[e] /\ sz[e] \in Nat /\ sz[e] >= 4 /\ t[b] \in Nat /\ t[b] >= 4
    BY <1>1, <1>2, <1>3
<1>6. Tiles(t, n)
    <2>1. DOMAIN t \subseteq 1 .. n /\ 1 \in DOMAIN t
        BY <1>1, <1>2, <1>3 DEF Tiles
    <2>2. ASSUME NEW c \in DOMAIN t
          PROVE  t[c] \in Nat /\ t[c] >= 4 /\ c + t[c] \in DOMAIN t \cup {n + 1}
        <3>1. CASE c = b
            <4>1. e + sz[e] # e /\ e + sz[e] \in DOMAIN sz \cup {n + 1}
                BY <1>1, <1>2, <1>5
            <4> QED BY <1>3, <1>5, <3>1, <4>1
        <3>2. CASE c # b
            <4>1. c \in DOMAIN sz /\ t[c] = sz[c] /\ c \in Nat
                BY <1>2, <1>3, <3>2
            <4>2. c + sz[c] # e
                BY <1>1, <1>2, <1>4, <3>2, <4>1
            <4> QED BY <1>2, <1>3, <4>1, <4>2
        <3> QED BY <3>1, <3>2
    <2>3. ASSUME NEW c \in DOMAIN t, NEW d \in DOMAIN t, c < d PROVE c + t[c] <= d
        <3>1. c \in DOMAIN sz /\ d \in DOMAIN sz /\ c \in Nat /\ d \in Nat /\ d # e
            BY <1>2, <1>3
        <3>2. CASE c = b
            <4>1. e <= d
                BY <1>4, <2>3, <3>1, <3>2
            <4>2. e + sz[e] <= d
                BY <1>1, <1>4, <3>1, <4>1
            <4> QED BY <1>5, <3>2, <4>2
        <3>3. CASE c # b
            BY <1>3, <1>4, <2>3, <3>1, <3>3
        <3> QED BY <3>2, <3>3
    <2> QED BY <2>1, <2>2, <2>3 DEF Tiles
<1> QED BY <1>1, <1>3, <1>6 DEF JoinedInto, t


-----------------------------------------------------------------------------
(* What an operation does: it changes the list, and then it lays out the     *)
(* words of some blocks as those of new ones.                                *)

\* Between m and m2 only links of L and words of the blocks of B change.
ListStep(m, m2, n, sz, L, B) ==
    \A i \in 1 .. n : m2[i] # m[i] => i \in Links(L) \/ \E b \in B : i \in b .. b + sz[b] - 1

\* Between m and m2 only words of the blocks of C change, and no link of L.
LayoutStep(m, m2, n, sz, L, C) ==
    \A i \in 1 .. n : m2[i] # m[i] =>
       \E c \in C : i \in c .. c + sz[c] - 1 /\ (c \in L => i # c + 1 /\ i # c + 2)

\* The blocks of C have their size words, and links only if they are in the list.
LaidOut(m, sz, F, L, C) ==
    \A c \in C : /\ m[c] = SizeWord(sz, F, c) /\ m[c + sz[c] - 1] = SizeWord(sz, F, c)
                 /\ c \notin L => m[c + 1] = NULL /\ m[c + 2] = NULL

\* The blocks of C take the place of those of B.
Replaced(sz, sz2, B, C) ==
    /\ B \subseteq DOMAIN sz
    /\ DOMAIN sz2 = (DOMAIN sz \ B) \cup C
    /\ \A c \in DOMAIN sz \ B : c \notin C /\ sz2[c] = sz[c]

\* Away from B and C the sets are the same.
SameBut(F, F2, B, C) == F \ B = F2 \ C

\* A list survives the layout.
LEMMA LaidList ==
    ASSUME NEW n \in Nat, NEW sz, Tiles(sz, n), NEW L, L \subseteq DOMAIN sz, NEW C,
           C \subseteq DOMAIN sz, NEW m, NEW m2, LayoutStep(m, m2, n, sz, L, C),
           NEW first, NEW rank, Linked(m, first, L, rank)
    PROVE  Linked(m2, first, L, rank)
<1>1. ASSUME NEW i \in Links(L) PROVE m2[i] = m[i]
    <2>1. PICK f \in L : i = f + 1 \/ i = f + 2
        BY DEF Links
    <2>2. f \in DOMAIN sz /\ f \in 1 .. n /\ sz[f] \in Nat /\ sz[f] >= 4 /\ f + sz[f] <= n + 1
        BY BlockBounds
    <2>3. i \in 1 .. n /\ i \in f .. f + sz[f] - 1
        BY <2>1, <2>2
    <2> SUFFICES ASSUME m2[i] # m[i] PROVE FALSE
        OBVIOUS
    <2>4. PICK c \in C : i \in c .. c + sz[c] - 1 /\ (c \in L => i # c + 1 /\ i # c + 2)
        BY <2>3 DEF LayoutStep
    <2>5. c = f
        BY <2>2, <2>3, <2>4, OneBlock
    <2> QED BY <2>1, <2>4, <2>5
<1> QED BY <1>1, SameLinks

\* The heap after an operation.
LEMMA Rebuilt ==
    ASSUME NEW n \in Nat, NEW n2 \in Nat, n <= n2,
           NEW h, NEW sz, NEW F, NEW L, NEW rank, Shape(h, n, sz, F, L, rank),
           NEW g \in Heaps(n2), NEW m, NEW sz2, Tiles(sz2, n2),
           NEW F2, NEW L2, L2 \subseteq F2, F2 \subseteq DOMAIN sz2,
           NEW rank2, Linked(m, g.head, L2, rank2),
           NEW B, NEW C, Replaced(sz, sz2, B, C), SameBut(F, F2, B, C), SameBut(L, L2, B, C),
           ListStep(h.mem, m, n, sz, L, B), LayoutStep(m, g.mem, n2, sz2, L2, C),
           LaidOut(g.mem, sz2, F2, L2, C)
    PROVE  /\ Shape(g, n2, sz2, F2, L2, rank2)
           /\ Untouched(h, g, sz, sz2, DOMAIN sz \ (B \cup L))
<1> DEFINE A == DOMAIN sz \ B
<1>1. /\ Tiles(sz, n) /\ L \subseteq F /\ F \subseteq DOMAIN sz /\ Tags(h.mem, sz, F)
      /\ \A b \in DOMAIN sz \ L : h.mem[b + 1] = NULL /\ h.mem[b + 2] = NULL
    BY DEF Shape
<1>2. /\ B \subseteq DOMAIN sz /\ C \subseteq DOMAIN sz2 /\ DOMAIN sz2 = A \cup C
      /\ \A c \in A : c \notin C /\ c \in DOMAIN sz2 /\ sz2[c] = sz[c]
    BY DEF Replaced
<1>3. \A c \in A : (c \in F <=> c \in F2) /\ (c \in L <=> c \in L2)
    BY <1>2 DEF SameBut
<1>4. Linked(g.mem, g.head, L2, rank2)
    <2>1. L2 \subseteq DOMAIN sz2
        OBVIOUS
    <2> QED BY <1>2, <2>1, LaidList
<1>5. ASSUME NEW c \in A, NEW i \in c .. c + sz[c] - 1, i \in Links(L) => c \notin L \/ i \notin {c + 1, c + 2}
      PROVE  g.mem[i] = h.mem[i]
    <2>1. c \in 1 .. n /\ sz[c] \in Nat /\ c + sz[c] <= n + 1 /\ i \in 1 .. n /\ i \in 1 .. n2
        BY <1>1, BlockBounds
    <2>2. i \notin Links(L)
        BY <1>1, <1>5, LinkWords
    <2>3. m[i] = h.mem[i]
        <3> SUFFICES ASSUME m[i] # h.mem[i] PROVE FALSE
            OBVIOUS
        <3>1. PICK b \in B : i \in b .. b + sz[b] - 1
            BY <2>1, <2>2 DEF ListStep
        <3>2. b = c
            BY <1>1, <1>2, <3>1, OneBlock
        <3> QED BY <3>2
    <2>4. g.mem[i] = m[i]
        <3> SUFFICES ASSUME g.mem[i] # m[i] PROVE FALSE
            OBVIOUS
        <3>1. PICK d \in C : i \in d .. d + sz2[d] - 1
            BY <2>1 DEF LayoutStep
        <3>2. c \in DOMAIN sz2 /\ i \in c .. c + sz2[c] - 1 /\ d \in DOMAIN sz2
            BY <1>2
        <3>3. d = c
            BY <3>1, <3>2, OneBlock
        <3> QED BY <1>2, <3>3
    <2> QED BY <2>3, <2>4
<1>6. ASSUME NEW c \in A
      PROVE  /\ g.mem[c] = SizeWord(sz2, F2, c) /\ g.mem[c + sz2[c] - 1] = SizeWord(sz2, F2, c)
             /\ c \notin L2 => g.mem[c + 1] = NULL /\ g.mem[c + 2] = NULL
    <2>1. c \in 1 .. n /\ sz[c] \in Nat /\ sz[c] >= 4 /\ c \in DOMAIN sz
        BY <1>1, BlockBounds
    <2>2. /\ c \in c .. c + sz[c] - 1 /\ c \notin {c + 1, c + 2}
          /\ c + sz[c] - 1 \in c .. c + sz[c] - 1 /\ c + sz[c] - 1 \notin {c + 1, c + 2}
          /\ c + 1 \in c .. c + sz[c] - 1 /\ c + 2 \in c .. c + sz[c] - 1
        BY <2>1
    <2>3. g.mem[c] = h.mem[c] /\ g.mem[c + sz[c] - 1] = h.mem[c + sz[c] - 1]
        BY <1>5, <2>2
    <2>4. c \notin L => g.mem[c + 1] = h.mem[c + 1] /\ g.mem[c + 2] = h.mem[c + 2]
        BY <1>5, <2>2
    <2>5. h.mem[c] = SizeWord(sz, F, c) /\ h.mem[c + sz[c] - 1] = SizeWord(sz, F, c)
        BY <1>1, <2>1 DEF Tags
    <2>6. SizeWord(sz2, F2, c) = SizeWord(sz, F, c) /\ sz2[c] = sz[c]
        BY <1>2, <1>3 DEF SizeWord
    <2> QED BY <1>1, <1>3, <2>1, <2>3, <2>4, <2>5, <2>6
<1>7. Tags(g.mem, sz2, F2)
    BY <1>2, <1>6 DEF LaidOut, Tags
<1>8. \A b \in DOMAIN sz2 \ L2 : g.mem[b + 1] = NULL /\ g.mem[b + 2] = NULL
    BY <1>2, <1>6 DEF LaidOut
<1>9. Untouched(h, g, sz, sz2, DOMAIN sz \ (B \cup L))
    BY <1>2, <1>5 DEF Untouched
<1> QED BY <1>4, <1>7, <1>8, <1>9 DEF Shape

\* Relinking is a step on the list, when the blocks that join it lie in blocks of B.
LEMMA RelinkedStep ==
    ASSUME NEW n, NEW h, NEW g, NEW L, NEW L2, Relinked(h, g, n, L, L2),
           NEW sz, NEW B,
           \A f \in L2 \ L : \E b \in B : /\ f + 1 \in b .. b + sz[b] - 1
                                          /\ f + 2 \in b .. b + sz[b] - 1
    PROVE  ListStep(h.mem, g.mem, n, sz, L, B)
<1> SUFFICES ASSUME NEW i \in 1 .. n, g.mem[i] # h.mem[i], i \notin Links(L)
             PROVE  \E b \in B : i \in b .. b + sz[b] - 1
    BY DEF ListStep
<1>1. i \in Links(L \cup L2)
    BY DEF Relinked
<1>2. PICK f \in L2 \ L : i = f + 1 \/ i = f + 2
    BY <1>1 DEF Links
<1> QED BY <1>2

\* Two layouts in a row are one.
LEMMA LayoutTwice ==
    ASSUME NEW n, NEW sz, NEW L, NEW C, NEW D, NEW m, NEW m1, NEW m2,
           LayoutStep(m, m1, n, sz, L, C), LayoutStep(m1, m2, n, sz, L, D)
    PROVE  LayoutStep(m, m2, n, sz, L, C \cup D)
<1> SUFFICES ASSUME NEW i \in 1 .. n, m2[i] # m[i]
             PROVE  \E c \in C \cup D : i \in c .. c + sz[c] - 1
                                        /\ (c \in L => i # c + 1 /\ i # c + 2)
    BY DEF LayoutStep
<1>1. m1[i] # m[i] \/ m2[i] # m1[i]
    OBVIOUS
<1> QED BY <1>1 DEF LayoutStep

\* The words of all other blocks stay.
SameBlock(m, m2, sz, c) == \A i \in c .. c + sz[c] - 1 : m2[i] = m[i]

\* A step of layout leaves every block alone that it is not about.
LEMMA LayoutKeeps ==
    ASSUME NEW n \in Nat, NEW sz, Tiles(sz, n), NEW L, NEW C, C \subseteq DOMAIN sz,
           NEW m, NEW m2, LayoutStep(m, m2, n, sz, L, C), NEW c \in DOMAIN sz, c \notin C
    PROVE  SameBlock(m, m2, sz, c)
<1> SUFFICES ASSUME NEW i \in c .. c + sz[c] - 1, m2[i] # m[i] PROVE FALSE
    BY DEF SameBlock
<1>1. i \in 1 .. n
    BY BlockBounds
<1>2. PICK d \in C : i \in d .. d + sz[d] - 1
    BY <1>1 DEF LayoutStep
<1> QED BY <1>2, OneBlock

\* Only the ends of block b change: they get their word.
BlockTagged(h, g, n, sz, L, b, word) ==
    /\ g \in Heaps(n) /\ g.head = h.head
    /\ LayoutStep(h.mem, g.mem, n, sz, L, {b})
    /\ g.mem[b] = word /\ g.mem[b + sz[b] - 1] = word
    /\ g.mem[b + 1] = h.mem[b + 1] /\ g.mem[b + 2] = h.mem[b + 2]

\* Writing both size words of a block changes nothing else.
LEMMA BlockIsTagged ==
    ASSUME NEW n \in Nat, NEW h \in Heaps(n), NEW sz, Tiles(sz, n), NEW L, NEW b \in DOMAIN sz,
           NEW word \in Nat, get_size(word) = sz[b]
    PROVE  BlockTagged(h, Tagged(h, b, word), n, sz, L, b, word)
<1> DEFINE g == Tagged(h, b, word)
           last == b + sz[b] - 1
<1>1. /\ b \in 1 .. n /\ sz[b] \in Nat /\ sz[b] >= 4 /\ b + sz[b] <= n + 1
      /\ b + 1 \in 1 .. n /\ b + 2 \in 1 .. n /\ last \in 1 .. n
    BY BlockBounds
<1>2. /\ g \in Heaps(n) /\ g.head = h.head
      /\ \A i \in 1 .. n : g.mem[i] = IF i = b \/ i = last THEN word ELSE h.mem[i]
    BY <1>1 DEF Heaps, Tagged
<1> HIDE DEF g
<1>3. LayoutStep(h.mem, g.mem, n, sz, L, {b})
    BY <1>1, <1>2 DEF LayoutStep
<1>4. g.mem[b] = word /\ g.mem[last] = word /\ g.mem[b + 1] = h.mem[b + 1] /\ g.mem[b + 2] = h.mem[b + 2]
    BY <1>1, <1>2
<1> QED BY <1>2, <1>3, <1>4 DEF BlockTagged, g

\* Only the words of block b change, which is not in the list: both its ends get
\* their word, and its links are cleared.
BlockLaid(h, g, n, sz, L, b, word) ==
    /\ g \in Heaps(n) /\ g.head = h.head
    /\ LayoutStep(h.mem, g.mem, n, sz, L, {b})
    /\ g.mem[b] = word /\ g.mem[b + sz[b] - 1] = word
    /\ g.mem[b + 1] = NULL /\ g.mem[b + 2] = NULL

\* What allocate_block writes last: both size words, and no links.
LEMMA AllocationLaidOut ==
    ASSUME NEW n \in Nat, NEW h \in Heaps(n), NEW sz, Tiles(sz, n), NEW L, NEW b \in DOMAIN sz,
           b \notin L, NEW word \in Nat, get_size(word) = sz[b]
    PROVE  BlockLaid(h, Unlisted(Tagged(h, b, word), b), n, sz, L, b, word)
<1> DEFINE h2 == Tagged(h, b, word)
           g == Unlisted(h2, b)
           last == b + sz[b] - 1
<1>1. /\ b \in 1 .. n /\ sz[b] \in Nat /\ sz[b] >= 4 /\ b + sz[b] <= n + 1
      /\ b + 1 \in 1 .. n /\ b + 2 \in 1 .. n /\ last \in 1 .. n
    BY BlockBounds
<1>2. /\ h2 \in Heaps(n) /\ h2.head = h.head
      /\ \A i \in 1 .. n : h2.mem[i] = IF i = b \/ i = last THEN word ELSE h.mem[i]
    BY <1>1, TaggedWords
<1> HIDE DEF h2
<1>3. /\ g \in Heaps(n) /\ g.head = h2.head
      /\ \A i \in 1 .. n : g.mem[i] = IF i = b + 1 \/ i = b + 2 THEN NULL ELSE h2.mem[i]
    BY <1>1, <1>2, UnlistedWords
<1> HIDE DEF g
<1>4. g.mem[b] = word /\ g.mem[last] = word /\ g.mem[b + 1] = NULL /\ g.mem[b + 2] = NULL
    BY <1>1, <1>2, <1>3
<1>5. LayoutStep(h.mem, g.mem, n, sz, L, {b})
    BY <1>1, <1>2, <1>3 DEF LayoutStep
<1> QED BY <1>2, <1>3, <1>4, <1>5 DEF BlockLaid, g, h2

-----------------------------------------------------------------------------
(* kmalloc *)

\* A block with at least `words' words is allocated at b, and all others stay.
Allocates(h, g, n, sz, F, b, words) ==
    \E sz2, F2, rank2 :
       /\ HeapIs(g, n, sz2, F2, rank2)
       /\ b \in DOMAIN sz2 \ F2 /\ sz2[b] >= words
       /\ DOMAIN sz2 \ F2 = (DOMAIN sz \ F) \cup {b}
       /\ Untouched(h, g, sz, sz2, DOMAIN sz \ F)

\* A free block that is handed out whole.
LEMMA AllocatedWhole ==
    ASSUME NEW n \in Nat, n < ALLOCATED, NEW h, NEW sz, NEW F, NEW rank,
           HeapIs(h, n, sz, F, rank), NEW b \in F, NEW words \in Nat, sz[b] >= words
    PROVE  Allocates(h, Unlisted(Tagged(Unlinked(h, b), b, ALLOCATED + sz[b]), b),
                     n, sz, F, b, words)
<1> DEFINE h1 == Unlinked(h, b)
           g == Unlisted(Tagged(h1, b, ALLOCATED + sz[b]), b)
           F2 == F \ {b}
<1>1. /\ Shape(h, n, sz, F, F, rank) /\ Apart(sz, F)
      /\ h \in Heaps(n) /\ Tiles(sz, n) /\ F \subseteq DOMAIN sz /\ b \in DOMAIN sz
      /\ Linked(h.mem, h.head, F, rank)
    BY DEF HeapIs, Shape
<1>2. /\ get_size(ALLOCATED + sz[b]) = sz[b] /\ ALLOCATED + sz[b] \in Nat
    BY <1>1, BlockWord, SizeOfWord
<1>3. Spread(F, n)
    BY <1>1, BlocksSpread
<1>4. Relinked(h, h1, n, F, F2)
    BY <1>1, <1>3, UnlinkedList
<1> HIDE DEF h1
<1>5. ListStep(h.mem, h1.mem, n, sz, F, {b})
    BY <1>4, RelinkedStep
<1>6. PICK rank2 : h1 \in Heaps(n) /\ Linked(h1.mem, h1.head, F2, rank2)
    BY <1>4 DEF Relinked
<1>7. BlockLaid(h1, g, n, sz, F2, b, ALLOCATED + sz[b])
    BY <1>1, <1>2, <1>6, AllocationLaidOut
<1> HIDE DEF g
<1>8. LaidOut(g.mem, sz, F2, F2, {b})
    BY <1>7 DEF BlockLaid, LaidOut, SizeWord
<1>9. Replaced(sz, sz, {b}, {b}) /\ SameBut(F, F2, {b}, {b})
    BY <1>1 DEF Replaced, SameBut
<1>10. F2 \subseteq F2 /\ F2 \subseteq DOMAIN sz /\ n <= n
    BY <1>1
<1>11. Linked(h1.mem, g.head, F2, rank2)
    BY <1>6, <1>7 DEF BlockLaid
<1>12. Shape(g, n, sz, F2, F2, rank2) /\ Untouched(h, g, sz, sz, DOMAIN sz \ ({b} \cup F))
    BY <1>1, <1>5, <1>7, <1>8, <1>9, <1>10, <1>11, Rebuilt DEF BlockLaid
<1>13. HeapIs(g, n, sz, F2, rank2)
    BY <1>1, <1>12 DEF HeapIs, Apart
<1>14. DOMAIN sz \ ({b} \cup F) = DOMAIN sz \ F /\ DOMAIN sz \ F2 = (DOMAIN sz \ F) \cup {b}
       /\ b \in DOMAIN sz \ F2
    BY <1>1
<1> HIDE DEF F2
<1>15. Allocates(h, g, n, sz, F, b, words)
    BY <1>12, <1>13, <1>14 DEF Allocates
<1> QED BY <1>15 DEF g, h1

\* A block that is split: its front is handed out, and the rest takes its place in
\* the list.
LEMMA AllocatedSplit ==
    ASSUME NEW n \in Nat, n < ALLOCATED, NEW h, NEW sz, NEW F, NEW rank,
           HeapIs(h, n, sz, F, rank), NEW b \in F, NEW words \in Nat, words >= 4,
           sz[b] - words >= 4
    PROVE  Allocates(h, Unlisted(Tagged(Tagged(Moved(h, b, b + words), b + words, sz[b] - words),
                                        b, ALLOCATED + words), b),
                     n, sz, F, b, words)
<1> DEFINE e == b + words
           t == Split(sz, b, words)
           h1 == Moved(h, b, e)
           h2 == Tagged(h1, e, sz[b] - words)
           g == Unlisted(Tagged(h2, b, ALLOCATED + words), b)
           F2 == (F \ {b}) \cup {e}
<1>1. /\ Shape(h, n, sz, F, F, rank) /\ Apart(sz, F)
      /\ h \in Heaps(n) /\ Tiles(sz, n) /\ F \subseteq DOMAIN sz /\ b \in DOMAIN sz
      /\ Linked(h.mem, h.head, F, rank)
    BY DEF HeapIs, Shape
<1>2. /\ b \in 1 .. n /\ sz[b] \in Nat /\ sz[b] < ALLOCATED /\ ALLOCATED \in Nat
      /\ e \in Nat /\ e # b /\ e + (sz[b] - words) = b + sz[b]
      /\ e + 1 \in b .. b + sz[b] - 1 /\ e + 2 \in b .. b + sz[b] - 1
    BY <1>1, BlockBounds, BlockWord
<1> HIDE DEF t
<1>3. /\ Tiles(t, n) /\ DOMAIN t = DOMAIN sz \cup {e} /\ e \notin DOMAIN sz
      /\ t[b] = words /\ t[e] = sz[b] - words
      /\ \A c \in DOMAIN sz : c # b => t[c] = sz[c]
    <2>1. SplitInto(sz, t, n, b, words)
        BY <1>1, SplitTiles DEF t
    <2> QED BY <2>1 DEF SplitInto
<1> HIDE DEF e
<1>4. /\ get_size(sz[b] - words) = t[e] /\ sz[b] - words \in Nat
      /\ get_size(ALLOCATED + words) = t[b] /\ ALLOCATED + words \in Nat
    BY <1>2, <1>3, SizeOfWord
<1>5. F2 \subseteq DOMAIN t /\ e \notin F /\ b \notin F2 /\ b \in DOMAIN t /\ e \in DOMAIN t
    BY <1>1, <1>2, <1>3
<1>6. Spread(F, n) /\ Spread(F2, n)
    BY <1>1, <1>3, <1>5, BlocksSpread
<1>7. Relinked(h, h1, n, F, F2)
    BY <1>1, <1>5, <1>6, MovedList
<1>8. ListStep(h.mem, h1.mem, n, sz, F, {b})
    BY <1>2, <1>7, RelinkedStep
<1>9. PICK rank2 : h1 \in Heaps(n) /\ Linked(h1.mem, h1.head, F2, rank2)
    BY <1>7 DEF Relinked
<1> HIDE DEF h1, F2
<1>10. BlockTagged(h1, h2, n, t, F2, e, sz[b] - words)
    BY <1>3, <1>4, <1>5, <1>9, BlockIsTagged
<1>11. h2 \in Heaps(n)
    BY <1>10 DEF BlockTagged
<1> HIDE DEF h2
<1>12. BlockLaid(h2, g, n, t, F2, b, ALLOCATED + words)
    BY <1>3, <1>4, <1>5, <1>11, AllocationLaidOut
<1> HIDE DEF g
<1>13. LayoutStep(h1.mem, g.mem, n, t, F2, {b, e})
    <2>1. LayoutStep(h1.mem, h2.mem, n, t, F2, {e}) /\ LayoutStep(h2.mem, g.mem, n, t, F2, {b})
        BY <1>10, <1>12 DEF BlockTagged, BlockLaid
    <2>2. {e} \cup {b} = {b, e}
        OBVIOUS
    <2>3. LayoutStep(h1.mem, g.mem, n, t, F2, {e} \cup {b})
        BY <2>1, LayoutTwice
    <2> QED BY <2>2, <2>3
<1>14. g.mem[e] = sz[b] - words /\ g.mem[e + t[e] - 1] = sz[b] - words
    <2>1. /\ LayoutStep(h2.mem, g.mem, n, t, F2, {b}) /\ e \notin {b}
          /\ {b} \subseteq DOMAIN t /\ e \in DOMAIN t /\ Tiles(t, n)
        BY <1>2, <1>3, <1>5, <1>12 DEF BlockLaid
    <2>2. SameBlock(h2.mem, g.mem, t, e)
        BY <2>1, LayoutKeeps
    <2>3. e \in e .. e + t[e] - 1 /\ e + t[e] - 1 \in e .. e + t[e] - 1
        BY <1>3, <1>5, BlockBounds
    <2> QED BY <1>10, <2>2, <2>3 DEF BlockTagged, SameBlock
<1>15. LaidOut(g.mem, t, F2, F2, {b, e})
    <2>1. SizeWord(t, F2, b) = ALLOCATED + words /\ SizeWord(t, F2, e) = sz[b] - words /\ e \in F2
        BY <1>3, <1>5 DEF SizeWord, F2
    <2> QED BY <1>12, <1>14, <2>1 DEF BlockLaid, LaidOut
<1>16. Replaced(sz, t, {b}, {b, e}) /\ SameBut(F, F2, {b}, {b, e})
    BY <1>1, <1>3 DEF Replaced, SameBut, F2
<1>17. F2 \subseteq F2 /\ n <= n
    OBVIOUS
<1>18. Linked(h1.mem, g.head, F2, rank2) /\ g \in Heaps(n)
    BY <1>9, <1>10, <1>12 DEF BlockTagged, BlockLaid
<1>19. Shape(g, n, t, F2, F2, rank2) /\ Untouched(h, g, sz, t, DOMAIN sz \ ({b} \cup F))
    BY <1>1, <1>3, <1>5, <1>8, <1>13, <1>15, <1>16, <1>17, <1>18, Rebuilt
<1>20. Apart(t, F2)
    <2> SUFFICES ASSUME NEW c \in F2, c + t[c] \in F2 PROVE FALSE
        BY DEF Apart
    <2>1. CASE c = e
        <3>1. c + t[c] = b + sz[b] /\ b + sz[b] \notin F /\ b + sz[b] # e
            BY <1>1, <1>2, <1>3, <2>1 DEF Apart
        <3> QED BY <3>1 DEF F2
    <2>2. CASE c # e
        <3>1. c \in F /\ c \in DOMAIN sz /\ t[c] = sz[c]
            BY <1>1, <1>3, <1>5, <2>2 DEF F2
        <3>2. c + sz[c] \notin F /\ c + sz[c] \in DOMAIN sz \cup {n + 1}
            BY <1>1, <3>1 DEF Apart, Tiles
        <3>3. e # n + 1
            BY <1>3, <1>5, BlockBounds
        <3> QED BY <1>3, <3>1, <3>2, <3>3 DEF F2
    <2> QED BY <2>1, <2>2
<1>21. HeapIs(g, n, t, F2, rank2)
    BY <1>19, <1>20 DEF HeapIs
<1>22. DOMAIN sz \ ({b} \cup F) = DOMAIN sz \ F /\ DOMAIN t \ F2 = (DOMAIN sz \ F) \cup {b}
       /\ b \in DOMAIN t \ F2
    BY <1>1, <1>3, <1>5 DEF F2
<1>23. t[b] >= words
    BY <1>3
<1>24. Allocates(h, g, n, sz, F, b, words)
    BY <1>19, <1>21, <1>22, <1>23 DEF Allocates
<1> QED BY <1>24 DEF g, h2, h1, e

\* Before every block but the first lies one that ends where it starts, and one ends
\* at the end of the heap.
LEMMA BlockBefore ==
    ASSUME NEW n \in Nat, NEW sz, Tiles(sz, n), NEW c \in DOMAIN sz \cup {n + 1}, c # 1
    PROVE  \E p \in DOMAIN sz : p + sz[p] = c
<1> DEFINE S == {d \in DOMAIN sz : d < c}
<1>1. /\ DOMAIN sz \subseteq 1 .. n /\ 1 \in DOMAIN sz /\ c \in 1 .. n + 1
      /\ \A d \in DOMAIN sz : /\ d \in 1 .. n /\ sz[d] \in Nat /\ sz[d] >= 4
                              /\ d + sz[d] \in DOMAIN sz \cup {n + 1}
      /\ \A d, e \in DOMAIN sz : d < e => d + sz[d] <= e
    BY DEF Tiles
<1>2. S \subseteq 0 .. n /\ 1 \in S
    BY <1>1
<1>3. Max(S) \in S /\ \A d \in S : d <= Max(S)
    <2>1. S # {}
        BY <1>2
    <2> HIDE DEF S
    <2> QED BY <1>2, <2>1, MaxIsGreatest
<1>4. PICK p \in S : \A d \in S : d <= p
    BY <1>3
<1>5. p \in DOMAIN sz /\ p \in Nat /\ sz[p] \in Nat /\ sz[p] >= 4
      /\ p + sz[p] \in DOMAIN sz \cup {n + 1} /\ p + sz[p] <= c
    <2>1. p \in DOMAIN sz /\ p < c
        OBVIOUS
    <2>2. p \in 1 .. n /\ sz[p] \in Nat /\ sz[p] >= 4 /\ p + sz[p] \in DOMAIN sz \cup {n + 1}
        BY <1>1, <2>1
    <2>3. p + sz[p] <= c
        BY <1>1, <2>1, <2>2
    <2> QED BY <2>1, <2>2, <2>3
<1>6. ASSUME p + sz[p] < c PROVE FALSE
    <2>1. p + sz[p] \in DOMAIN sz
        BY <1>1, <1>5, <1>6
    <2>2. p + sz[p] \in S
        BY <1>6, <2>1
    <2>3. p + sz[p] <= p
        BY <1>4, <2>2
    <2> QED BY <1>5, <2>3
<1> QED BY <1>1, <1>5, <1>6

\* The heap has grown by a page, and what is allocated stays.
Grown(h, g, n, sz, F) ==
    \E sz2, F2, rank2 :
       /\ HeapIs(g, n + WORDS_IN_PAGE, sz2, F2, rank2)
       /\ DOMAIN sz2 \ F2 = DOMAIN sz \ F
       /\ Untouched(h, g, sz, sz2, DOMAIN sz \ F)

\* Words behind words: the ones in front stay.
LEMMA WordsJoined ==
    ASSUME NEW s \in Seq(Nat), NEW t \in Seq(Nat), NEW k \in Nat, Len(s) = k
    PROVE  /\ s \o t \in Seq(Nat) /\ Len(s \o t) = k + Len(t)
           /\ \A i \in 1 .. k : (s \o t)[i] = s[i]
<1>1. s \o t \in Seq(Nat)
    OBVIOUS
<1>2. Len(s \o t) = k + Len(t)
    OBVIOUS
<1>3. \A i \in 1 .. k : (s \o t)[i] = s[i]
    OBVIOUS
<1> QED BY Zenon, <1>1, <1>2, <1>3

\* A page of empty words behind the heap.
LEMMA PageAdded ==
    ASSUME NEW n \in Nat, NEW h \in Heaps(n)
    PROVE  /\ Len(h.mem) = n
           /\ Extended(h) \in Heaps(n + WORDS_IN_PAGE) /\ Extended(h).head = h.head
           /\ \A i \in 1 .. n : Extended(h).mem[i] = h.mem[i]
<1> DEFINE page == [i \in 1 .. WORDS_IN_PAGE |-> 0]
           m == h.mem \o page
<1>1. WORDS_IN_PAGE \in Nat /\ h.mem \in [1 .. n -> Nat] /\ h.head \in Nat
    BY HeapAssumption DEF Heaps
<1>2. h.mem \in Seq(Nat) /\ Len(h.mem) = n /\ page \in Seq(Nat) /\ Len(page) = WORDS_IN_PAGE
    BY <1>1
<1> HIDE DEF page
<1>3. /\ m \in Seq(Nat) /\ Len(m) = n + WORDS_IN_PAGE
      /\ \A i \in 1 .. n : m[i] = h.mem[i]
    <2> DEFINE w == h.mem
    <2>1. w \in Seq(Nat) /\ Len(w) = n
        BY Zenon, <1>2
    <2> HIDE DEF w
    <2>2. /\ w \o page \in Seq(Nat) /\ Len(w \o page) = n + WORDS_IN_PAGE
          /\ \A i \in 1 .. n : (w \o page)[i] = w[i]
        BY Zenon, <1>2, <2>1, WordsJoined
    <2> QED BY Zenon, <2>2 DEF w
<1> HIDE DEF m
<1>4. m \in [1 .. n + WORDS_IN_PAGE -> Nat]
    BY <1>3
<1>5. [h EXCEPT !.mem = m] = [mem |-> m, head |-> h.head]
    BY DEF Heaps
<1>6. /\ [h EXCEPT !.mem = m] \in Heaps(n + WORDS_IN_PAGE)
      /\ [h EXCEPT !.mem = m].head = h.head /\ [h EXCEPT !.mem = m].mem = m
    BY <1>1, <1>4, <1>5, HeapOf
<1>7. Extended(h) = [h EXCEPT !.mem = m]
    BY DEF Extended, m, page
<1> QED BY <1>2, <1>3, <1>6, <1>7

\* A page that becomes a block of its own, in front of the list.
LEMMA PageBecomesBlock ==
    ASSUME NEW n \in Nat, n + WORDS_IN_PAGE < ALLOCATED, NEW h, NEW sz, NEW F, NEW rank,
           HeapIs(h, n, sz, F, rank), NEW h0 \in Heaps(n + WORDS_IN_PAGE), h0.head = h.head,
           \A i \in 1 .. n : h0.mem[i] = h.mem[i],
           NEW last \in DOMAIN sz \ F, last + sz[last] = n + 1
    PROVE  Grown(h, PushedInFront(Tagged(h0, n + 1, WORDS_IN_PAGE), n + 1), n, sz, F)
<1> DEFINE n2 == n + WORDS_IN_PAGE
           e == n + 1
           t == [c \in DOMAIN sz \cup {e} |-> IF c = e THEN WORDS_IN_PAGE ELSE sz[c]]
           h1 == Tagged(h0, e, WORDS_IN_PAGE)
           g == PushedInFront(h1, e)
           F2 == F \cup {e}
<1>1. /\ Shape(h, n, sz, F, F, rank) /\ Apart(sz, F)
      /\ h \in Heaps(n) /\ Tiles(sz, n) /\ F \subseteq DOMAIN sz
      /\ Linked(h.mem, h.head, F, rank)
    BY DEF HeapIs, Shape
<1>2. /\ WORDS_IN_PAGE \in Nat /\ WORDS_IN_PAGE >= 4 /\ get_size(WORDS_IN_PAGE) = WORDS_IN_PAGE
      /\ n2 \in Nat /\ n <= n2 /\ n2 >= 2 /\ e \in Nat /\ e + WORDS_IN_PAGE = n2 + 1 /\ e > n
    <2>1. WORDS_IN_PAGE \in Nat /\ WORDS_IN_PAGE >= 4 /\ ALLOCATED \in Nat
        BY HeapAssumption
    <2>2. WORDS_IN_PAGE < ALLOCATED
        BY <2>1
    <2> QED BY <2>1, <2>2, SizeOfWord
<1>3. /\ DOMAIN t = DOMAIN sz \cup {e} /\ t[e] = WORDS_IN_PAGE /\ e \notin DOMAIN sz
      /\ \A c \in DOMAIN sz : t[c] = sz[c]
    <2>1. e \notin DOMAIN sz
        BY <1>1 DEF Tiles
    <2> QED BY <2>1
<1> HIDE DEF t
<1>4. Tiles(t, n2)
    <2>1. /\ DOMAIN sz \subseteq 1 .. n /\ 1 \in DOMAIN sz
          /\ \A b \in DOMAIN sz : /\ sz[b] \in Nat /\ sz[b] >= 4
                                  /\ b + sz[b] \in DOMAIN sz \cup {e}
                                  /\ b \in 1 .. n /\ b + sz[b] <= n + 1
          /\ \A b, c \in DOMAIN sz : b < c => b + sz[b] <= c
        BY <1>1 DEF Tiles
    <2>2. ASSUME NEW b \in DOMAIN t, NEW c \in DOMAIN t, b < c PROVE b + t[b] <= c
        <3>1. CASE b \in DOMAIN sz /\ c \in DOMAIN sz
            BY <1>3, <2>1, <2>2, <3>1
        <3>2. CASE b \in DOMAIN sz /\ c = e
            BY <1>3, <2>1, <3>2
        <3>3. CASE b = e
            BY <1>3, <2>1, <2>2, <3>3
        <3> QED BY <1>3, <3>1, <3>2, <3>3
    <2>3. DOMAIN t \subseteq 1 .. n2 /\ 1 \in DOMAIN t
        BY <1>2, <1>3, <2>1
    <2>4. ASSUME NEW b \in DOMAIN t
          PROVE  t[b] \in Nat /\ t[b] >= 4 /\ b + t[b] \in DOMAIN t \cup {n2 + 1}
        <3>1. CASE b \in DOMAIN sz
            BY <1>3, <2>1, <3>1
        <3>2. CASE b = e
            BY <1>2, <1>3, <3>2
        <3> QED BY <1>3, <3>1, <3>2
    <2> HIDE DEF n2
    <2> QED BY <2>2, <2>3, <2>4 DEF Tiles
<1>5. /\ h1 \in Heaps(n2) /\ h1.head = h.head
      /\ \A i \in 1 .. n : h1.mem[i] = h.mem[i]
      /\ h1.mem[e] = WORDS_IN_PAGE /\ h1.mem[e + WORDS_IN_PAGE - 1] = WORDS_IN_PAGE
    <2>1. BlockTagged(h0, h1, n2, t, {}, e, WORDS_IN_PAGE)
        BY <1>2, <1>3, <1>4, BlockIsTagged
    <2>2. ASSUME NEW i \in 1 .. n PROVE h1.mem[i] = h0.mem[i]
        <3> SUFFICES ASSUME h1.mem[i] # h0.mem[i] PROVE FALSE
            OBVIOUS
        <3>1. i \in e .. e + t[e] - 1
            BY <1>2, <2>1 DEF BlockTagged, LayoutStep
        <3> QED BY <1>2, <3>1
    <2> QED BY <1>3, <2>1, <2>2 DEF BlockTagged
<1> HIDE DEF h1
<1>6. \A i \in Links(F) : i \in 1 .. n
    <2>1. \A f \in F : f + 1 \in 1 .. n /\ f + 2 \in 1 .. n
        BY <1>1, BlockBounds
    <2> QED BY <2>1 DEF Links
<1>7. Linked(h1.mem, h1.head, F, rank)
    <2>1. \A i \in Links(F) : h1.mem[i] = h.mem[i]
        BY <1>5, <1>6
    <2>2. Linked(h1.mem, h.head, F, rank)
        BY <1>1, <2>1, SameLinks
    <2> QED BY <1>5, <2>2
<1>8. F2 \subseteq DOMAIN t /\ e \notin F /\ e \in DOMAIN t
    BY <1>1, <1>3
<1>9. Spread(F2, n2)
    BY <1>2, <1>4, <1>8, BlocksSpread
<1>10. Relinked(h1, g, n2, F, F2)
    BY <1>2, <1>5, <1>7, <1>8, <1>9, PushedList
<1>11. PICK rank2 : g \in Heaps(n2) /\ Linked(g.mem, g.head, F2, rank2)
    BY <1>10 DEF Relinked
<1> HIDE DEF g
<1>12. \A i \in 1 .. n2 : i \notin Links(F2) => g.mem[i] = h1.mem[i]
    <2>1. F \cup F2 = F2
        OBVIOUS
    <2> QED BY <1>10, <2>1 DEF Relinked
<1>13. ListStep(h.mem, g.mem, n, sz, F, {})
    <2> SUFFICES ASSUME NEW i \in 1 .. n, g.mem[i] # h.mem[i] PROVE i \in Links(F)
        BY DEF ListStep
    <2>1. i \in Links(F2)
        BY <1>2, <1>5, <1>12
    <2> QED BY <2>1 DEF Links
<1>14. LayoutStep(g.mem, g.mem, n2, t, F2, {e})
    BY DEF LayoutStep
<1>15. LaidOut(g.mem, t, F2, F2, {e})
    <2>1. /\ e \in e .. e + t[e] - 1 /\ e + t[e] - 1 \in e .. e + t[e] - 1
          /\ e \in 1 .. n2 /\ e + t[e] - 1 \in 1 .. n2
          /\ e \notin {e + 1, e + 2} /\ e + t[e] - 1 \notin {e + 1, e + 2}
        BY <1>2, <1>3
    <2>2. e \notin Links(F2) /\ e + t[e] - 1 \notin Links(F2)
        BY <1>2, <1>4, <1>8, <2>1, LinkWords
    <2>3. g.mem[e] = WORDS_IN_PAGE /\ g.mem[e + t[e] - 1] = WORDS_IN_PAGE
        BY <1>3, <1>5, <1>12, <2>1, <2>2
    <2> QED BY <1>3, <2>3 DEF LaidOut, SizeWord
<1>16. Replaced(sz, t, {}, {e}) /\ SameBut(F, F2, {}, {e})
    BY <1>1, <1>3 DEF Replaced, SameBut
<1>17. F2 \subseteq F2
    OBVIOUS
<1> HIDE DEF F2, n2
<1>18. Shape(g, n2, t, F2, F2, rank2) /\ Untouched(h, g, sz, t, DOMAIN sz \ ({} \cup F))
    BY <1>1, <1>2, <1>4, <1>8, <1>11, <1>13, <1>14, <1>15, <1>16, <1>17, Rebuilt
<1>19. Apart(t, F2)
    <2> SUFFICES ASSUME NEW c \in F2, c + t[c] \in F2 PROVE FALSE
        BY DEF Apart
    <2>1. CASE c = e
        <3>1. c + t[c] = n2 + 1
            BY <1>2, <1>3, <2>1
        <3>2. c + t[c] \in 1 .. n2
            BY <1>4, <1>8 DEF Tiles
        <3> QED BY <1>2, <3>1, <3>2
    <2>2. CASE c # e
        <3>1. c \in F /\ t[c] = sz[c] /\ c + sz[c] \notin F
            BY <1>1, <1>3, <2>2 DEF Apart, F2
        <3>2. c + sz[c] = last + sz[last]
            BY <3>1 DEF F2
        <3>3. c = last
            <4>1. /\ c \in Nat /\ sz[c] \in Nat /\ sz[c] >= 4
                  /\ last \in Nat /\ sz[last] \in Nat /\ sz[last] >= 4 /\ c \in DOMAIN sz
                BY <1>1, <3>1, BlockBounds
            <4>2. n \in c .. c + sz[c] - 1 /\ n \in last .. last + sz[last] - 1
                BY <3>2, <4>1
            <4> QED BY <1>1, <4>1, <4>2, OneBlock
        <3> QED BY <3>1, <3>3
    <2> QED BY <2>1, <2>2
<1>20. HeapIs(g, n2, t, F2, rank2)
    BY <1>18, <1>19 DEF HeapIs
<1>21. DOMAIN sz \ ({} \cup F) = DOMAIN sz \ F /\ DOMAIN t \ F2 = DOMAIN sz \ F
    BY <1>1, <1>3 DEF F2
<1>22. Grown(h, g, n, sz, F)
    BY <1>18, <1>20, <1>21 DEF Grown, n2
<1> QED BY <1>22 DEF g, h1

\* A page that becomes part of the free block before it.
LEMMA PageJoinsBlock ==
    ASSUME NEW n \in Nat, n + WORDS_IN_PAGE < ALLOCATED, NEW h, NEW sz, NEW F, NEW rank,
           HeapIs(h, n, sz, F, rank), NEW h0 \in Heaps(n + WORDS_IN_PAGE), h0.head = h.head,
           \A i \in 1 .. n : h0.mem[i] = h.mem[i],
           NEW last \in F, last + sz[last] = n + 1
    PROVE  Grown(h, Tagged(h0, last, sz[last] + WORDS_IN_PAGE), n, sz, F)
<1> DEFINE n2 == n + WORDS_IN_PAGE
           size == sz[last] + WORDS_IN_PAGE
           t == [sz EXCEPT ![last] = size]
           g == Tagged(h0, last, size)
<1>1. /\ Shape(h, n, sz, F, F, rank) /\ Apart(sz, F)
      /\ h \in Heaps(n) /\ Tiles(sz, n) /\ F \subseteq DOMAIN sz /\ last \in DOMAIN sz
      /\ Linked(h.mem, h.head, F, rank)
    BY DEF HeapIs, Shape
<1>2. /\ WORDS_IN_PAGE \in Nat /\ WORDS_IN_PAGE >= 4 /\ last \in Nat /\ last > 0
      /\ sz[last] \in Nat /\ sz[last] >= 4
      /\ n2 \in Nat /\ n <= n2 /\ size \in Nat /\ last + size = n2 + 1 /\ size >= 4
    <2>1. WORDS_IN_PAGE \in Nat /\ WORDS_IN_PAGE >= 4
        BY HeapAssumption
    <2>2. last \in Nat /\ last > 0 /\ sz[last] \in Nat /\ sz[last] >= 4
        BY <1>1, BlockBounds
    <2> QED BY <2>1, <2>2
<1>3. get_size(size) = size
    <2>1. size < ALLOCATED
        BY <1>2, HeapAssumption
    <2> QED BY <1>2, <2>1, SizeOfWord
<1>4. /\ DOMAIN t = DOMAIN sz /\ t[last] = size
      /\ \A c \in DOMAIN sz \ {last} : t[c] = sz[c]
    BY <1>1
<1> HIDE DEF t
<1>5. Tiles(t, n2)
    <2>1. /\ DOMAIN sz \subseteq 1 .. n /\ 1 \in DOMAIN sz
          /\ \A b \in DOMAIN sz : /\ sz[b] \in Nat /\ sz[b] >= 4
                                  /\ b + sz[b] \in DOMAIN sz \cup {n + 1}
                                  /\ b \in 1 .. n /\ b + sz[b] <= n + 1
          /\ \A b, c \in DOMAIN sz : b < c => b + sz[b] <= c
        BY <1>1 DEF Tiles
    <2>2. \A c \in DOMAIN sz : c <= last
        BY <1>1, <1>2, <2>1
    <2>3. ASSUME NEW b \in DOMAIN t, NEW c \in DOMAIN t, b < c PROVE b + t[b] <= c
        <3>1. b # last
            BY <1>1, <1>4, <2>1, <2>2, <2>3
        <3> QED BY <1>4, <2>1, <2>3, <3>1
    <2>4. DOMAIN t \subseteq 1 .. n2 /\ 1 \in DOMAIN t
        BY <1>2, <1>4, <2>1
    <2>5. ASSUME NEW b \in DOMAIN t
          PROVE  t[b] \in Nat /\ t[b] >= 4 /\ b + t[b] \in DOMAIN t \cup {n2 + 1}
        <3>1. CASE b = last
            BY <1>2, <1>4, <3>1
        <3>2. CASE b # last
            <4>1. b \in DOMAIN sz /\ b < last /\ t[b] = sz[b]
                BY <1>1, <1>2, <1>4, <2>1, <2>2, <3>2
            <4>2. b + sz[b] <= last
                BY <1>1, <2>1, <4>1
            <4>3. b + sz[b] # n + 1
                BY <1>2, <2>1, <4>1, <4>2
            <4> QED BY <1>4, <2>1, <4>1, <4>3
        <3> QED BY <3>1, <3>2
    <2> HIDE DEF n2
    <2> QED BY <2>3, <2>4, <2>5 DEF Tiles
<1>6. BlockTagged(h0, g, n2, t, F, last, size)
    BY <1>1, <1>2, <1>3, <1>4, <1>5, BlockIsTagged
<1> HIDE DEF g
<1>7. g \in Heaps(n2) /\ g.head = h.head /\ LayoutStep(h0.mem, g.mem, n2, t, F, {last})
    BY <1>6 DEF BlockTagged
<1>8. Linked(h0.mem, g.head, F, rank)
    <2>1. \A f \in F : f + 1 \in 1 .. n /\ f + 2 \in 1 .. n
        BY <1>1, BlockBounds
    <2>2. \A i \in Links(F) : h0.mem[i] = h.mem[i]
        BY <2>1 DEF Links
    <2>3. Linked(h0.mem, h.head, F, rank)
        BY <1>1, <2>2, SameLinks
    <2> QED BY <1>7, <2>3
<1>9. ListStep(h.mem, h0.mem, n, sz, F, {last})
    BY DEF ListStep
<1>10. LaidOut(g.mem, t, F, F, {last})
    BY <1>4, <1>6 DEF BlockTagged, LaidOut, SizeWord
<1>11. Replaced(sz, t, {last}, {last}) /\ SameBut(F, F, {last}, {last})
    BY <1>1, <1>4 DEF Replaced, SameBut
<1>12. F \subseteq F /\ F \subseteq DOMAIN t
    BY <1>1, <1>4
<1> HIDE DEF n2
<1>13. Shape(g, n2, t, F, F, rank) /\ Untouched(h, g, sz, t, DOMAIN sz \ ({last} \cup F))
    BY <1>1, <1>2, <1>5, <1>7, <1>8, <1>9, <1>10, <1>11, <1>12, Rebuilt
<1>14. Apart(t, F)
    <2> SUFFICES ASSUME NEW c \in F, c + t[c] \in F PROVE FALSE
        BY DEF Apart
    <2>1. CASE c = last
        <3>1. c + t[c] = n2 + 1
            BY <1>2, <1>4, <2>1
        <3>2. c + t[c] \in 1 .. n2
            BY <1>5, <1>12 DEF Tiles
        <3> QED BY <1>2, <3>1, <3>2
    <2>2. CASE c # last
        BY <1>1, <1>4, <2>2 DEF Apart
    <2> QED BY <2>1, <2>2
<1>15. HeapIs(g, n2, t, F, rank)
    BY <1>13, <1>14 DEF HeapIs
<1>16. DOMAIN sz \ ({last} \cup F) = DOMAIN sz \ F /\ DOMAIN t \ F = DOMAIN sz \ F
    BY <1>1, <1>4
<1>17. Grown(h, g, n, sz, F)
    BY <1>13, <1>15, <1>16 DEF Grown, n2
<1> QED BY <1>17 DEF g

\* The pool grows by a page.
LEMMA PoolGrows ==
    ASSUME NEW n \in Nat, n + WORDS_IN_PAGE < ALLOCATED, NEW h, NEW sz, NEW F, NEW rank,
           HeapIs(h, n, sz, F, rank)
    PROVE  Grown(h, increase_memory_pool(h), n, sz, F)
<1>1. /\ h \in Heaps(n) /\ Tiles(sz, n) /\ F \subseteq DOMAIN sz /\ Tags(h.mem, sz, F)
    BY DEF HeapIs, Shape
<1>2. /\ Len(h.mem) = n /\ Extended(h) \in Heaps(n + WORDS_IN_PAGE) /\ Extended(h).head = h.head
      /\ \A i \in 1 .. n : Extended(h).mem[i] = h.mem[i]
    BY <1>1, PageAdded
<1>3. increase_memory_pool(h) =
        IF get_allocated_bit(h.mem[(n + 1) - 1])
        THEN PushedInFront(Tagged(Extended(h), n + 1, WORDS_IN_PAGE), n + 1)
        ELSE Tagged(Extended(h), (n + 1) - h.mem[(n + 1) - 1],
                    h.mem[(n + 1) - h.mem[(n + 1) - 1]] + WORDS_IN_PAGE)
    <2>1. Len(h.mem) + 1 = n + 1
        BY <1>2
    <2> DEFINE end == Len(h.mem) + 1
               foot == h.mem[end - 1]
    <2>2. increase_memory_pool(h) =
            IF get_allocated_bit(foot)
            THEN PushedInFront(Tagged(Extended(h), end, WORDS_IN_PAGE), end)
            ELSE Tagged(Extended(h), end - foot, h.mem[end - foot] + WORDS_IN_PAGE)
        BY Zenon DEF increase_memory_pool
    <2>3. end = n + 1 /\ foot = h.mem[(n + 1) - 1]
        BY Zenon, <2>1
    <2> HIDE DEF end, foot
    <2> QED BY Zenon, <2>2, <2>3
<1>4. n + 1 \in DOMAIN sz \cup {n + 1} /\ n + 1 # 1 /\ (n + 1) - 1 = n /\ WORDS_IN_PAGE \in Nat
    <2>1. n # 0
        BY <1>1 DEF Tiles
    <2> QED BY <2>1, HeapAssumption
<1>5. PICK last \in DOMAIN sz : last + sz[last] = n + 1
    <2> DEFINE c == n + 1
    <2>1. c \in DOMAIN sz \cup {n + 1} /\ c # 1
        BY Zenon, <1>4
    <2> HIDE DEF c
    <2>2. \E p \in DOMAIN sz : p + sz[p] = c
        BY <1>1, <2>1, BlockBefore
    <2> QED BY Zenon, <2>2 DEF c
<1>6. /\ h.mem[n] = SizeWord(sz, F, last) /\ h.mem[last] = SizeWord(sz, F, last)
      /\ last \in Nat /\ sz[last] \in Nat
    <2>1. last \in Nat /\ sz[last] \in Nat /\ last + sz[last] - 1 = n
        BY <1>1, <1>5, BlockBounds
    <2> QED BY <1>1, <2>1 DEF Tags
<1>7. get_allocated_bit(SizeWord(sz, F, last)) <=> last \notin F
    <2>1. n < ALLOCATED
        BY <1>4, HeapAssumption
    <2> QED BY <1>1, <2>1, BlockWord
<1>8. CASE last \in F
    <2>1. h.mem[n] = sz[last] /\ h.mem[last] = sz[last] /\ (n + 1) - sz[last] = last
        BY <1>5, <1>6, <1>8 DEF SizeWord
    <2>2. increase_memory_pool(h) = Tagged(Extended(h), last, sz[last] + WORDS_IN_PAGE)
        BY <1>3, <1>4, <1>6, <1>7, <1>8, <2>1
    <2> QED BY <1>2, <1>5, <1>8, <2>2, PageJoinsBlock
<1>9. CASE last \notin F
    <2>1. increase_memory_pool(h) = PushedInFront(Tagged(Extended(h), n + 1, WORDS_IN_PAGE), n + 1)
        BY <1>3, <1>4, <1>6, <1>7, <1>9
    <2> QED BY <1>2, <1>5, <1>9, <2>1, PageBecomesBlock
<1> QED BY <1>8, <1>9

-----------------------------------------------------------------------------
(* Chains of blocks *)

\* A chain that stays in a set is a sequence of elements of the set.
Chains(S, next, x, c) ==
    /\ c \in [Nat -> S] /\ c[0] = x
    /\ \A n \in Nat : c[n + 1] = next[c[n]]

\* Chain has the values its recursive equation asks for.
LEMMA ChainIsChain ==
    ASSUME NEW S, NEW x \in S, NEW next, \A s \in S : next[s] \in S
    PROVE  Chains(S, next, x, Chain(next, x))
<1> DEFINE g == [is \in Nat \X S |-> next[is[2]]]
           T(c) == [n \in Nat |-> IF n = 0 THEN x ELSE next[c[n - 1]]]
           C == Chain(next, x)
<1>1. g \in [Nat \X S -> S] /\ \A n \in Nat, s \in S : g[<<n, s>>] = next[s]
    OBVIOUS
<1> HIDE DEF g
<1>2. PICK f : Recursion(S, x, g, f)
    BY <1>1, RecursionOnNat
<1>3. f \in [Nat -> S] /\ f[0] = x /\ \A n \in Nat : f[n + 1] = next[f[n]]
    BY <1>1, <1>2 DEF Recursion
<1>4. f = T(f)
    <2>1. ASSUME NEW n \in Nat PROVE f[n] = IF n = 0 THEN x ELSE next[f[n - 1]]
        <3>1. CASE n # 0
            <4>1. n - 1 \in Nat /\ (n - 1) + 1 = n
                BY <3>1
            <4> QED BY <1>3, <3>1, <4>1
        <3> QED BY <1>3, <3>1
    <2> QED BY <1>3, <2>1
<1>5. C = T(C)
    <2>1. C = CHOOSE c : c = T(c)
        BY DEF Chain
    <2> HIDE DEF T, C
    <2> QED BY <1>4, <2>1
<1> HIDE DEF C
<1>6. DOMAIN C = Nat /\ \A n \in Nat : C[n] = IF n = 0 THEN x ELSE next[C[n - 1]]
    BY <1>5
<1>7. C[0] = x
    BY <1>6
<1>8. ASSUME NEW n \in Nat PROVE C[n + 1] = next[C[n]]
    <2>1. n + 1 \in Nat /\ n + 1 # 0 /\ (n + 1) - 1 = n
        OBVIOUS
    <2> QED BY <1>6, <2>1
<1>9. Nat \subseteq {n \in Nat : C[n] \in S}
    <2> DEFINE N == {n \in Nat : C[n] \in S}
    <2>1. 0 \in N /\ \A n \in Nat : n \in N => n + 1 \in N
        BY <1>7, <1>8
    <2> HIDE DEF N
    <2> QED BY <2>1, SetInduction DEF N
<1>10. C \in [Nat -> S]
    <2>1. \A n \in Nat : C[n] \in S
        BY <1>9
    <2>2. C = [n \in Nat |-> C[n]]
        BY <1>5
    <2> QED BY <2>1, <2>2
<1> QED BY <1>7, <1>8, <1>10 DEF Chains, C

\* A heap of n words holds at most n div 4 blocks.
LEMMA FewBlocks ==
    ASSUME NEW n \in Nat, NEW sz, Tiles(sz, n), NEW c \in [0 .. n \div 4 -> DOMAIN sz]
    PROVE  \E i, j \in 0 .. n \div 4 : i < j /\ c[i] = c[j]
<1> DEFINE M == n \div 4
           f == [i \in 0 .. M |-> (c[i] - 1) \div 4]
<1>1. \A b \in DOMAIN sz : b \in Nat /\ b > 0 /\ b + 3 <= n
    <2> TAKE b \in DOMAIN sz
    <2>1. b \in 1 .. n /\ sz[b] \in Nat /\ sz[b] >= 4 /\ b + sz[b] <= n + 1
        BY BlockBounds
    <2> QED BY <2>1
<1>2. M \in Nat /\ n < M * 4 + 4
    BY QuotientType
<1> HIDE DEF M
<1>3. ASSUME NEW i \in 0 .. M
      PROVE  f[i] \in 0 .. M - 1 /\ f[i] \in Nat /\ f[i] * 4 <= c[i] - 1 /\ c[i] - 1 < f[i] * 4 + 4
    <2>1. c[i] \in DOMAIN sz
        BY DEF M
    <2>2. c[i] - 1 \in Nat /\ (c[i] - 1) + 4 <= n
        <3>1. c[i] \in Nat /\ c[i] > 0 /\ c[i] + 3 <= n
            BY Zenon, <1>1, <2>1
        <3> QED BY <3>1
    <2>3. f[i] = (c[i] - 1) \div 4
        OBVIOUS
    <2>4. \A a \in Nat : a \div 4 \in Nat /\ (a \div 4) * 4 <= a /\ a < (a \div 4) * 4 + 4
        BY QuotientType
    <2>5. f[i] \in Nat /\ f[i] * 4 <= c[i] - 1 /\ c[i] - 1 < f[i] * 4 + 4
        BY <2>2, <2>3, <2>4
    <2> QED BY <1>2, <2>2, <2>5
<1>4. f \in [0 .. M -> 0 .. M - 1]
    BY <1>3
<1>5. /\ IsFiniteSet(0 .. M) /\ Cardinality(0 .. M) = M + 1
      /\ IsFiniteSet(0 .. M - 1) /\ Cardinality(0 .. M - 1) = M
    <2>1. 0 \in Int /\ M \in Int /\ M - 1 \in Int /\ ~(0 > M)
        BY <1>2
    <2>2. IsFiniteSet(0 .. M) /\ Cardinality(0 .. M) = M - 0 + 1
        BY <2>1, FS_Interval
    <2>3. IsFiniteSet(0 .. M - 1)
          /\ Cardinality(0 .. M - 1) = IF 0 > M - 1 THEN 0 ELSE (M - 1) - 0 + 1
        BY <2>1, FS_Interval
    <2> QED BY <1>2, <2>2, <2>3
<1>6. Cardinality(0 .. M - 1) < Cardinality(0 .. M)
    BY <1>2, <1>5
<1> HIDE DEF f
<1>7. PICK i \in 0 .. M, j \in 0 .. M : i # j /\ f[i] = f[j]
    BY <1>4, <1>5, <1>6, FS_PigeonHole
<1>8. c[i] \in DOMAIN sz /\ c[j] \in DOMAIN sz
    BY DEF M
<1>9. c[i] = c[j]
    <2>1. ASSUME NEW b \in DOMAIN sz, NEW d \in DOMAIN sz, b < d PROVE b + 4 <= d
        BY <2>1 DEF Tiles
    <2>2. c[i] \in Nat /\ c[j] \in Nat
        BY <1>1, <1>8
    <2>5. /\ f[i] \in Nat /\ f[i] * 4 <= c[i] - 1 /\ c[i] - 1 < f[i] * 4 + 4
          /\ f[i] * 4 <= c[j] - 1 /\ c[j] - 1 < f[i] * 4 + 4
        <3>1. f[j] \in Nat /\ f[j] * 4 <= c[j] - 1 /\ c[j] - 1 < f[j] * 4 + 4
            BY <1>3
        <3> QED BY <1>3, <1>7, <3>1
    <2>6. ASSUME NEW x \in Nat, NEW y \in Nat, NEW q \in Nat, x + 4 <= y,
                 q * 4 <= x - 1, y - 1 < q * 4 + 4
          PROVE  FALSE
        BY <2>6
    <2>7. (c[i] < c[j] => c[i] + 4 <= c[j]) /\ (c[j] < c[i] => c[j] + 4 <= c[i])
        BY <1>8, <2>1
    <2>3. ~ (c[i] < c[j])
        BY <2>2, <2>5, <2>6, <2>7
    <2>4. ~ (c[j] < c[i])
        BY <2>2, <2>5, <2>6, <2>7
    <2> QED BY <2>2, <2>3, <2>4
<1>10. i < j \/ j < i
    BY <1>2, <1>7
<1> QED BY <1>7, <1>9, <1>10 DEF M

\* The search through the list finds a block that is large enough, or ends.
LEMMA FirstFitFits ==
    ASSUME NEW n \in Nat, n < ALLOCATED, NEW h, NEW sz, NEW F, NEW rank,
           HeapIs(h, n, sz, F, rank), NEW words \in Nat
    PROVE  LET b == FirstFit(h, words)
           IN b = NULL \/ (b \in F /\ sz[b] >= words)
<1> DEFINE S == F \cup {NULL}
           M == n \div 4
           next == [b \in Nat |->
                      IF b = NULL \/ get_size(h.mem[b]) >= words THEN b ELSE NextOf(h, b)]
           c == Chain(next, h.head)
           Stops(b) == b = NULL \/ sz[b] >= words
<1>1. /\ h \in Heaps(n) /\ Tiles(sz, n) /\ F \subseteq DOMAIN sz /\ Tags(h.mem, sz, F)
      /\ Linked(h.mem, h.head, F, rank)
    BY DEF HeapIs, Shape
<1>2. Len(h.mem) = n /\ M \in Nat
    <2>1. h.mem \in [1 .. n -> Nat]
        BY <1>1 DEF Heaps
    <2> QED BY <2>1, QuotientType
<1>3. \A b \in F : b \in Nat /\ b # NULL /\ get_size(h.mem[b]) = sz[b] /\ sz[b] \in Nat
    <2> TAKE b \in F
    <2>1. h.mem[b] = SizeWord(sz, F, b) /\ b \in DOMAIN sz
        BY <1>1 DEF Tags
    <2>2. get_size(SizeWord(sz, F, b)) = sz[b] /\ b \in Nat /\ b > 0 /\ sz[b] \in Nat
        BY <1>1, <2>1, BlockWord
    <2> QED BY <2>1, <2>2 DEF NULL
<1>4. S \subseteq Nat
    BY <1>3 DEF NULL
<1>5. \A b \in S : next[b] = IF Stops(b) THEN b ELSE h.mem[b + 2]
    BY <1>3, <1>4 DEF NextOf
<1> HIDE DEF next
<1>6. h.head \in S /\ \A b \in S : next[b] \in S
    <2>1. h.head \in S /\ \A b \in F : h.mem[b + 2] \in S
        BY <1>1 DEF Linked
    <2> QED BY <1>5, <2>1
<1>7. /\ c \in [Nat -> S] /\ \A i \in Nat : c[i + 1] = next[c[i]]
    <2> HIDE DEF S
    <2>1. Chains(S, next, h.head, c)
        BY <1>6, ChainIsChain
    <2> QED BY <2>1 DEF Chains
<1>8. FirstFit(h, words) = c[M]
    BY <1>2 DEF FirstFit, MaxBlocks, next
<1> HIDE DEF c
<1>9. ASSUME NEW i \in Nat, Stops(c[i]) PROVE c[i + 1] = c[i]
    <2>1. c[i] \in S
        BY <1>7
    <2> QED BY <1>5, <1>7, <1>9, <2>1
<1>10. ASSUME ~Stops(c[M]) PROVE FALSE
    <2>1. ASSUME NEW i \in 0 .. M PROVE c[i] \in F /\ ~Stops(c[i])
        <3> DEFINE N == {k \in Nat : i + k <= M => Stops(c[i + k])}
        <3> SUFFICES ASSUME Stops(c[i]) PROVE FALSE
            BY <1>7
        <3> HIDE DEF Stops
        <3>1. 0 \in N
            OBVIOUS
        <3>2. ASSUME NEW k \in Nat, k \in N PROVE k + 1 \in N
            <4> SUFFICES ASSUME i + (k + 1) <= M PROVE Stops(c[i + (k + 1)])
                OBVIOUS
            <4>1. i + k \in Nat /\ (i + k) + 1 = i + (k + 1) /\ i + k <= M
                BY <1>2
            <4> QED BY <1>9, <3>2, <4>1
        <3>3. Nat \subseteq N
            <4> HIDE DEF N
            <4> QED BY <3>1, <3>2, SetInduction
        <3>4. M - i \in Nat /\ i + (M - i) = M /\ M <= M
            BY <1>2
        <3>5. M - i \in N
            BY <3>3, <3>4
        <3> QED BY <1>10, <3>4, <3>5
    <2>2. rank \in [F -> Nat]
        BY <1>1 DEF Linked
    <2>3. ASSUME NEW i \in 0 .. M, i < M PROVE rank[c[i]] < rank[c[i + 1]]
        <3>1. i \in Nat /\ i + 1 \in 0 .. M
            BY <1>2, <2>3
        <3>2. c[i] \in F /\ c[i + 1] \in F /\ ~Stops(c[i])
            BY <2>1, <3>1
        <3>3. c[i + 1] = h.mem[c[i] + 2]
            BY <1>5, <1>7, <3>1, <3>2
        <3>4. c[i + 1] # NULL
            BY <1>3, <3>2
        <3> QED BY <1>1, <3>2, <3>3, <3>4 DEF Linked
    <2>4. ASSUME NEW i \in 0 .. M, NEW j \in 0 .. M, i < j PROVE rank[c[i]] < rank[c[j]]
        <3> DEFINE N == {k \in Nat : i + k + 1 <= M => rank[c[i]] < rank[c[i + k + 1]]}
        <3>1. 0 \in N
            <4>1. i + 0 + 1 = i + 1 /\ (i + 1 <= M => i < M)
                BY <1>2
            <4> QED BY <2>3, <4>1
        <3>2. ASSUME NEW k \in Nat, k \in N PROVE k + 1 \in N
            <4> SUFFICES ASSUME i + (k + 1) + 1 <= M
                         PROVE  rank[c[i]] < rank[c[i + (k + 1) + 1]]
                OBVIOUS
            <4>1. /\ i + k + 1 \in 0 .. M /\ i + k + 1 < M /\ i + (k + 1) + 1 \in 0 .. M
                  /\ (i + k + 1) + 1 = i + (k + 1) + 1
                BY <1>2
            <4>2. rank[c[i]] < rank[c[i + k + 1]]
                BY <3>2, <4>1
            <4>3. rank[c[i + k + 1]] < rank[c[(i + k + 1) + 1]]
                BY <2>3, <4>1
            <4>4. /\ rank[c[i]] \in Nat /\ rank[c[i + k + 1]] \in Nat
                  /\ rank[c[i + (k + 1) + 1]] \in Nat
                BY <2>1, <2>2, <4>1
            <4> QED BY <4>1, <4>2, <4>3, <4>4
        <3>3. Nat \subseteq N
            <4> HIDE DEF N
            <4> QED BY <3>1, <3>2, SetInduction
        <3>4. j - i - 1 \in Nat /\ i + (j - i - 1) + 1 = j /\ j <= M
            BY <1>2, <2>4
        <3>5. j - i - 1 \in N
            BY <3>3, <3>4
        <3> QED BY <3>4, <3>5
    <2> DEFINE d == [i \in 0 .. M |-> c[i]]
    <2>5. d \in [0 .. n \div 4 -> DOMAIN sz]
        BY <1>1, <2>1
    <2>6. PICK i \in 0 .. M, j \in 0 .. M : i < j /\ d[i] = d[j]
        <3> HIDE DEF d
        <3>1. \E i, j \in 0 .. n \div 4 : i < j /\ d[i] = d[j]
            BY Zenon, <1>1, <2>5, FewBlocks
        <3> QED BY Zenon, <3>1
    <2>7. c[i] = c[j] /\ rank[c[i]] < rank[c[j]] /\ rank[c[i]] \in Nat
        BY <2>1, <2>2, <2>4, <2>6
    <2> QED BY <2>7
<1>11. c[M] \in S
    BY <1>2, <1>7
<1> QED BY <1>8, <1>10, <1>11

-----------------------------------------------------------------------------
(* kfree *)

\* Block p and the next one, e, become one, once the list has p and not e.
LEMMA Joins ==
    ASSUME NEW n \in Nat, n < ALLOCATED, NEW h, NEW sz, NEW F, NEW L, NEW rank,
           Shape(h, n, sz, F, L, rank),
           NEW p \in F, NEW e \in F, e = p + sz[p],
           NEW h1 \in Heaps(n), NEW L2, L2 \subseteq F, p \in L2, e \notin L2,
           L2 \ {p} = L \ {p, e},
           NEW rank2, Linked(h1.mem, h1.head, L2, rank2),
           ListStep(h.mem, h1.mem, n, sz, L, {p, e})
    PROVE  LET g == Tagged(Wiped(h1, e), p, sz[p] + sz[e])
           IN /\ Shape(g, n, Joined(sz, p), F \ {e}, L2, rank2)
              /\ Untouched(h, g, sz, Joined(sz, p), DOMAIN sz \ ({p, e} \cup L))
<1> DEFINE t == Joined(sz, p)
           size == sz[p] + sz[e]
           h2 == Wiped(h1, e)
           g == Tagged(h2, p, size)
           F2 == F \ {e}
<1>1. /\ h \in Heaps(n) /\ Tiles(sz, n) /\ L \subseteq F /\ F \subseteq DOMAIN sz
      /\ p \in DOMAIN sz /\ e \in DOMAIN sz
    BY DEF Shape
<1>2. /\ p \in 1 .. n /\ sz[p] \in Nat /\ sz[p] >= 4
      /\ e \in 1 .. n /\ sz[e] \in Nat /\ sz[e] >= 4 /\ e + sz[e] <= n + 1
      /\ e \in 2 .. n /\ e + 2 <= n /\ e >= p + 4
      /\ size \in Nat /\ p + size = e + sz[e] /\ size < ALLOCATED
    <2>1. /\ p \in 1 .. n /\ sz[p] \in Nat /\ sz[p] >= 4
          /\ e \in 1 .. n /\ sz[e] \in Nat /\ sz[e] >= 4 /\ e + sz[e] <= n + 1
        BY <1>1, BlockBounds
    <2>2. ALLOCATED \in Nat
        BY HeapAssumption
    <2> QED BY <2>1, <2>2
<1>3. /\ Tiles(t, n) /\ DOMAIN t = DOMAIN sz \ {e} /\ e # p /\ t[p] = size
      /\ \A c \in DOMAIN sz \ {e} : c # p => t[c] = sz[c]
    <2>1. JoinedInto(sz, t, n, p)
        BY <1>1, JoinedTiles
    <2> HIDE DEF t
    <2> QED BY <2>1 DEF JoinedInto
<1> HIDE DEF t
<1>4. /\ h2 \in Heaps(n) /\ h2.head = h1.head
      /\ \A i \in 1 .. n : h2.mem[i] = IF i \in e - 1 .. e + 2 THEN 0 ELSE h1.mem[i]
    <2>1. e \in 2 .. n /\ e + 2 <= n
        BY <1>2
    <2> QED BY <2>1, WipedWords
<1> HIDE DEF h2
<1>5. get_size(size) = t[p] /\ p \in DOMAIN t
    BY <1>1, <1>2, <1>3, SizeOfWord
<1>6. BlockTagged(h2, g, n, t, L2, p, size)
    BY <1>2, <1>3, <1>4, <1>5, BlockIsTagged
<1> HIDE DEF g
<1>7. LayoutStep(h1.mem, h2.mem, n, t, L2, {p})
    <2> SUFFICES ASSUME NEW i \in 1 .. n, h2.mem[i] # h1.mem[i]
                 PROVE  i \in p .. p + t[p] - 1 /\ i # p + 1 /\ i # p + 2
        BY DEF LayoutStep
    <2>1. i \in e - 1 .. e + 2
        BY <1>4
    <2> QED BY <1>2, <1>3, <2>1
<1>8. LayoutStep(h1.mem, g.mem, n, t, L2, {p})
    <2>1. LayoutStep(h2.mem, g.mem, n, t, L2, {p})
        BY <1>6 DEF BlockTagged
    <2>2. LayoutStep(h1.mem, g.mem, n, t, L2, {p} \cup {p})
        BY <1>7, <2>1, LayoutTwice
    <2>3. {p} \cup {p} = {p}
        OBVIOUS
    <2> QED BY <2>2, <2>3
<1>9. g \in Heaps(n) /\ Linked(h1.mem, g.head, L2, rank2)
    BY <1>4, <1>6 DEF BlockTagged
<1>10. F2 \subseteq DOMAIN t /\ L2 \subseteq F2 /\ p \in F2 /\ n <= n
    BY <1>1, <1>3
<1>11. LaidOut(g.mem, t, F2, L2, {p})
    BY <1>3, <1>6, <1>10 DEF BlockTagged, LaidOut, SizeWord
<1>12. Replaced(sz, t, {p, e}, {p}) /\ SameBut(F, F2, {p, e}, {p}) /\ SameBut(L, L2, {p, e}, {p})
    BY <1>1, <1>3 DEF Replaced, SameBut
<1> HIDE DEF F2
<1>13. Shape(g, n, t, F2, L2, rank2) /\ Untouched(h, g, sz, t, DOMAIN sz \ ({p, e} \cup L))
    BY <1>3, <1>8, <1>9, <1>10, <1>11, <1>12, Rebuilt
<1> QED BY <1>13 DEF g, h2, t, F2

\* A block that is marked as free before it is in the list.
LEMMA Marked ==
    ASSUME NEW n \in Nat, n < ALLOCATED, NEW h, NEW sz, NEW F, NEW rank,
           Shape(h, n, sz, F, F, rank), NEW b \in DOMAIN sz \ F
    PROVE  LET g == Tagged(h, b, sz[b])
           IN /\ Shape(g, n, sz, F \cup {b}, F, rank)
              /\ Untouched(h, g, sz, sz, DOMAIN sz \ ({b} \cup F))
              /\ g.head = h.head
<1> DEFINE g == Tagged(h, b, sz[b])
           F2 == F \cup {b}
<1>1. /\ h \in Heaps(n) /\ Tiles(sz, n) /\ F \subseteq DOMAIN sz /\ Linked(h.mem, h.head, F, rank)
      /\ h.mem[b + 1] = NULL /\ h.mem[b + 2] = NULL /\ b \in DOMAIN sz
    BY DEF Shape
<1>2. get_size(sz[b]) = sz[b] /\ sz[b] \in Nat
    BY <1>1, BlockWord, SizeOfWord
<1>3. BlockTagged(h, g, n, sz, F, b, sz[b])
    BY <1>1, <1>2, BlockIsTagged
<1> HIDE DEF g
<1>4. /\ g \in Heaps(n) /\ g.head = h.head /\ LayoutStep(h.mem, g.mem, n, sz, F, {b})
    BY <1>3 DEF BlockTagged
<1>5. ListStep(h.mem, h.mem, n, sz, F, {b}) /\ Linked(h.mem, g.head, F, rank)
    BY <1>1, <1>4 DEF ListStep
<1>6. F \subseteq F2 /\ F2 \subseteq DOMAIN sz /\ b \in F2 /\ n <= n
    BY <1>1
<1>7. LaidOut(g.mem, sz, F2, F, {b})
    BY <1>1, <1>3, <1>6 DEF BlockTagged, LaidOut, SizeWord
<1>8. Replaced(sz, sz, {b}, {b}) /\ SameBut(F, F2, {b}, {b}) /\ SameBut(F, F, {b}, {b})
    BY <1>1 DEF Replaced, SameBut
<1> HIDE DEF F2
<1>9. Shape(g, n, sz, F2, F, rank) /\ Untouched(h, g, sz, sz, DOMAIN sz \ ({b} \cup F))
    BY <1>1, <1>4, <1>5, <1>6, <1>7, <1>8, Rebuilt
<1> QED BY <1>4, <1>9 DEF g, F2

\* A marked block is put in front of the list.
LEMMA MarkedIsPushed ==
    ASSUME NEW n \in Nat, NEW h, NEW sz, NEW F, NEW L, NEW rank,
           Shape(h, n, sz, F, L, rank), NEW b \in F \ L
    PROVE  /\ \E rank2 : Shape(PushedInFront(h, b), n, sz, F, L \cup {b}, rank2)
           /\ Untouched(h, PushedInFront(h, b), sz, sz, DOMAIN sz \ ({b} \cup L))
<1> DEFINE g == PushedInFront(h, b)
           L2 == L \cup {b}
<1>1. /\ h \in Heaps(n) /\ Tiles(sz, n) /\ L \subseteq F /\ F \subseteq DOMAIN sz
      /\ Linked(h.mem, h.head, L, rank) /\ Tags(h.mem, sz, F) /\ b \in DOMAIN sz
    BY DEF Shape
<1>2. /\ b \in 1 .. n /\ sz[b] \in Nat /\ sz[b] >= 4 /\ b + sz[b] <= n + 1 /\ n >= 2
      /\ b + sz[b] - 1 \in 1 .. n
    BY <1>1, BlockBounds
<1>3. L2 \subseteq DOMAIN sz /\ L2 \subseteq F /\ F \subseteq DOMAIN sz /\ n <= n
    BY <1>1
<1>4. Spread(L2, n)
    BY <1>1, <1>3, BlocksSpread
<1>5. Relinked(h, g, n, L, L2)
    BY <1>1, <1>2, <1>4, PushedList
<1> HIDE DEF g
<1>6. PICK rank2 : g \in Heaps(n) /\ Linked(g.mem, g.head, L2, rank2)
    BY <1>5 DEF Relinked
<1>7. ListStep(h.mem, g.mem, n, sz, L, {b})
    <2>1. b + 1 \in b .. b + sz[b] - 1 /\ b + 2 \in b .. b + sz[b] - 1
        BY <1>2
    <2> QED BY <1>5, <2>1, RelinkedStep
<1>8. LayoutStep(g.mem, g.mem, n, sz, L2, {b})
    BY DEF LayoutStep
<1>9. LaidOut(g.mem, sz, F, L2, {b})
    <2>1. /\ b \in b .. b + sz[b] - 1 /\ b \notin {b + 1, b + 2}
          /\ b + sz[b] - 1 \in b .. b + sz[b] - 1 /\ b + sz[b] - 1 \notin {b + 1, b + 2}
        BY <1>2
    <2>2. b \notin Links(L2) /\ b + sz[b] - 1 \notin Links(L2)
        BY <1>1, <1>3, <2>1, LinkWords
    <2>3. L \cup L2 = L2
        OBVIOUS
    <2>4. g.mem[b] = h.mem[b] /\ g.mem[b + sz[b] - 1] = h.mem[b + sz[b] - 1]
        BY <1>2, <1>5, <2>2, <2>3 DEF Relinked
    <2>5. b \in L2 /\ h.mem[b] = SizeWord(sz, F, b) /\ h.mem[b + sz[b] - 1] = SizeWord(sz, F, b)
        BY <1>1 DEF Tags
    <2> QED BY <2>4, <2>5 DEF LaidOut
<1>10. Replaced(sz, sz, {b}, {b}) /\ SameBut(F, F, {b}, {b}) /\ SameBut(L, L2, {b}, {b})
    BY <1>1 DEF Replaced, SameBut
<1> HIDE DEF L2
<1>11. Shape(g, n, sz, F, L2, rank2) /\ Untouched(h, g, sz, sz, DOMAIN sz \ ({b} \cup L))
    BY <1>1, <1>3, <1>6, <1>7, <1>8, <1>9, <1>10, Rebuilt
<1> QED BY <1>11 DEF g, L2

\* What stays stays, step by step.
LEMMA UntouchedTwice ==
    ASSUME NEW h, NEW h1, NEW g, NEW sz, NEW sz1, NEW sz2, NEW A, NEW B, NEW C,
           Untouched(h, h1, sz, sz1, A), Untouched(h1, g, sz1, sz2, B),
           C \subseteq A, C \subseteq B
    PROVE  Untouched(h, g, sz, sz2, C)
<1> SUFFICES ASSUME NEW c \in C
             PROVE  /\ c \in DOMAIN sz2 /\ sz2[c] = sz[c]
                    /\ \A i \in c .. c + sz[c] - 1 : g.mem[i] = h.mem[i]
    BY DEF Untouched
<1>1. c \in A /\ c \in B
    OBVIOUS
<1>2. sz1[c] = sz[c] /\ \A i \in c .. c + sz[c] - 1 : h1.mem[i] = h.mem[i]
    BY <1>1 DEF Untouched
<1>3. c \in DOMAIN sz2 /\ sz2[c] = sz1[c] /\ \A i \in c .. c + sz1[c] - 1 : g.mem[i] = h1.mem[i]
    BY <1>1 DEF Untouched
<1> QED BY <1>2, <1>3

\* A marked block takes the place of the free block behind it, which it swallows.
LEMMA NextIsMerged ==
    ASSUME NEW n \in Nat, n < ALLOCATED, NEW h, NEW sz, NEW F, NEW L, NEW rank,
           Shape(h, n, sz, F, L, rank), NEW b \in F \ L, NEW e \in L, e = b + sz[b]
    PROVE  /\ \E rank2 : Shape(MergedWithNext(h, b), n, Joined(sz, b), F \ {e},
                               (L \ {e}) \cup {b}, rank2)
           /\ Untouched(h, MergedWithNext(h, b), sz, Joined(sz, b), DOMAIN sz \ ({b, e} \cup L))
<1> DEFINE h1 == Moved(h, e, b)
           L2 == (L \ {e}) \cup {b}
<1>1. /\ h \in Heaps(n) /\ Tiles(sz, n) /\ L \subseteq F /\ F \subseteq DOMAIN sz
      /\ Linked(h.mem, h.head, L, rank) /\ Tags(h.mem, sz, F) /\ b \in DOMAIN sz /\ e \in DOMAIN sz
    BY DEF Shape
<1>2. b \in Nat /\ sz[b] \in Nat /\ sz[b] >= 4 /\ b # e
    BY <1>1, BlockBounds
<1>3. h.mem[b] = sz[b] /\ h.mem[e] = sz[e]
    BY <1>1 DEF Tags, SizeWord
<1>4. MergedWithNext(h, b) = Tagged(Wiped(h1, e), b, sz[b] + sz[e])
    BY <1>3 DEF MergedWithNext
<1>5. Spread(L, n) /\ Spread(L2, n)
    <2>1. L \subseteq DOMAIN sz /\ L2 \subseteq DOMAIN sz
        BY <1>1
    <2> HIDE DEF L2
    <2> QED BY <1>1, <2>1, BlocksSpread
<1>6. Relinked(h, h1, n, L, L2)
    BY <1>1, <1>5, MovedList
<1> HIDE DEF h1
<1>7. PICK rank2 : h1 \in Heaps(n) /\ Linked(h1.mem, h1.head, L2, rank2)
    BY <1>6 DEF Relinked
<1>8. ListStep(h.mem, h1.mem, n, sz, L, {b, e})
    <2>1. b + 1 \in b .. b + sz[b] - 1 /\ b + 2 \in b .. b + sz[b] - 1
        BY <1>2
    <2> QED BY <1>6, <2>1, RelinkedStep
<1>9. b \in F /\ e \in F /\ L2 \subseteq F /\ b \in L2 /\ e \notin L2 /\ L2 \ {b} = L \ {b, e}
    BY <1>1, <1>2
<1> HIDE DEF L2
<1>10. /\ Shape(Tagged(Wiped(h1, e), b, sz[b] + sz[e]), n, Joined(sz, b), F \ {e}, L2, rank2)
       /\ Untouched(h, Tagged(Wiped(h1, e), b, sz[b] + sz[e]), sz, Joined(sz, b),
                    DOMAIN sz \ ({b, e} \cup L))
    BY <1>7, <1>8, <1>9, Joins
<1> QED BY <1>4, <1>10 DEF L2

\* Block b is a part of the one before it, p.
Swallowed(h, n, sz, F, L, p, b) ==
    /\ \E rank2 : Shape(MergedWithPrev(h, b), n, Joined(sz, p), F \ {b}, L \ {b}, rank2)
    /\ Untouched(h, MergedWithPrev(h, b), sz, Joined(sz, p), DOMAIN sz \ ({p, b} \cup L))

\* A free block, in the list or not yet, is swallowed by the one before it.
LEMMA PrevSwallows ==
    ASSUME NEW n \in Nat, n < ALLOCATED, NEW h, NEW sz, NEW F, NEW L, NEW rank,
           Shape(h, n, sz, F, L, rank), NEW p \in L, NEW b \in F, b = p + sz[p]
    PROVE  Swallowed(h, n, sz, F, L, p, b)
<1> DEFINE first == IF Prev(h, b) = NULL /\ NextOf(h, b) = NULL
                    THEN h.head ELSE Unlinked(h, b).head
           h1 == [mem |-> Unlinked(h, b).mem, head |-> first]
           L2 == L \ {b}
<1>1. /\ h \in Heaps(n) /\ Tiles(sz, n) /\ L \subseteq F /\ F \subseteq DOMAIN sz
      /\ Linked(h.mem, h.head, L, rank) /\ Tags(h.mem, sz, F) /\ b \in DOMAIN sz /\ p \in DOMAIN sz
      /\ \A c \in DOMAIN sz \ L : h.mem[c + 1] = NULL /\ h.mem[c + 2] = NULL
    BY DEF Shape
<1>2. p \in Nat /\ sz[p] \in Nat /\ sz[p] >= 4 /\ b # p /\ b - 1 = p + sz[p] - 1 /\ b - sz[p] = p
    BY <1>1, BlockBounds
<1>3. h.mem[b - 1] = sz[p] /\ h.mem[p] = sz[p] /\ h.mem[b] = sz[b]
    BY <1>1, <1>2 DEF Tags, SizeWord
<1>4. MergedWithPrev(h, b) = Tagged(Wiped(h1, b), p, sz[p] + sz[b])
    BY <1>2, <1>3 DEF MergedWithPrev
<1>5. Spread(L, n) /\ NULL \notin L
    <2>1. L \subseteq DOMAIN sz
        BY <1>1
    <2>2. Spread(L, n)
        BY <1>1, <2>1, BlocksSpread
    <2> QED BY <2>2 DEF Spread, NULL
<1>6. \E rank2 : /\ h1 \in Heaps(n) /\ Linked(h1.mem, h1.head, L2, rank2)
                 /\ ListStep(h.mem, h1.mem, n, sz, L, {p, b})
    <2>1. CASE b \in L
        <3>1. Relinked(h, Unlinked(h, b), n, L, L2)
            BY <1>1, <1>5, <2>1, UnlinkedList
        <3>2. first = Unlinked(h, b).head
            <4> SUFFICES ASSUME h.mem[b + 1] = NULL, h.mem[b + 2] = NULL PROVE FALSE
                BY DEF Prev, NextOf
            <4>1. L = {b}
                BY <1>1, <1>5, <2>1, OnlyBlock
            <4> QED BY <1>2, <4>1
        <3>3. /\ h1.mem = Unlinked(h, b).mem /\ h1.head = Unlinked(h, b).head
              /\ Unlinked(h, b) \in Heaps(n)
            BY <3>1, <3>2 DEF Relinked
        <3>4. Unlinked(h, b).mem \in [1 .. n -> Nat] /\ first \in Nat
            BY <3>2, <3>3 DEF Heaps
        <3> HIDE DEF first
        <3>5. h1 \in Heaps(n)
            BY <3>4, HeapOf
        <3> HIDE DEF h1
        <3>6. Relinked(h, h1, n, L, L2)
            BY <3>1, <3>3, <3>5 DEF Relinked
        <3>7. ListStep(h.mem, h1.mem, n, sz, L, {p, b})
            <4>1. L2 \ L = {}
                OBVIOUS
            <4> HIDE DEF L2
            <4> QED BY <3>6, <4>1, RelinkedStep
        <3> QED BY <3>6, <3>7 DEF Relinked
    <2>2. CASE b \notin L
        <3>1. Prev(h, b) = NULL /\ NextOf(h, b) = NULL
            BY <1>1, <2>2 DEF Prev, NextOf
        <3>2. Unlinked(h, b).mem = h.mem /\ first = h.head
            BY <3>1 DEF Unlinked, SetPrev, SetNext
        <3>3. h.mem \in [1 .. n -> Nat] /\ h.head \in Nat
            BY <1>1 DEF Heaps
        <3> HIDE DEF first
        <3>4. h1.mem = h.mem /\ h1.head = h.head
            BY <3>2
        <3>5. h1 \in Heaps(n)
            BY <3>2, <3>3, HeapOf
        <3> HIDE DEF h1
        <3>6. L2 = L
            BY <2>2
        <3>7. ListStep(h.mem, h1.mem, n, sz, L, {p, b})
            BY <3>4 DEF ListStep
        <3> HIDE DEF L2
        <3> QED BY <1>1, <3>4, <3>5, <3>6, <3>7
    <2> QED BY <2>1, <2>2
<1> HIDE DEF h1
<1>7. PICK rank2 : /\ h1 \in Heaps(n) /\ Linked(h1.mem, h1.head, L2, rank2)
                   /\ ListStep(h.mem, h1.mem, n, sz, L, {p, b})
    BY <1>6
<1>8. p \in F /\ L2 \subseteq F /\ p \in L2 /\ b \notin L2 /\ L2 \ {p} = L \ {p, b}
    BY <1>1, <1>2
<1> HIDE DEF L2
<1>9. /\ Shape(Tagged(Wiped(h1, b), p, sz[p] + sz[b]), n, Joined(sz, p), F \ {b}, L2, rank2)
      /\ Untouched(h, Tagged(Wiped(h1, b), p, sz[p] + sz[b]), sz, Joined(sz, p),
                   DOMAIN sz \ ({p, b} \cup L))
    BY <1>7, <1>8, Joins
<1> QED BY <1>4, <1>9 DEF L2, Swallowed

\* Block b is free again, alone or as a part of a block, and what else is allocated stays.
Frees(h, g, n, sz, F, b) ==
    \E sz2, F2, rank2 :
       /\ HeapIs(g, n, sz2, F2, rank2)
       /\ DOMAIN sz2 \ F2 = DOMAIN sz \ (F \cup {b})
       /\ Untouched(h, g, sz, sz2, DOMAIN sz \ (F \cup {b}))

\* kfree of any block but the last one.
LEMMA FreedFrees ==
    ASSUME NEW n \in Nat, n < ALLOCATED, NEW h, NEW sz, NEW F, NEW rank,
           HeapIs(h, n, sz, F, rank), NEW b \in DOMAIN sz \ F, b + sz[b] # n + 1
    PROVE  Frees(h, Freed(h, b), n, sz, F, b)
<1> DEFINE e == b + sz[b]
           h1 == Tagged(h, b, sz[b])
           F1 == F \cup {b}
           A == DOMAIN sz \ F1
<1>1. /\ Shape(h, n, sz, F, F, rank) /\ Apart(sz, F)
      /\ h \in Heaps(n) /\ Tiles(sz, n) /\ F \subseteq DOMAIN sz /\ Tags(h.mem, sz, F)
      /\ b \in DOMAIN sz /\ b \notin F
    BY DEF HeapIs, Shape
<1>2. /\ b \in 1 .. n /\ sz[b] \in Nat /\ sz[b] >= 4 /\ e \in DOMAIN sz /\ e # b
      /\ \A c \in DOMAIN sz : c \in Nat /\ sz[c] \in Nat /\ sz[c] >= 4
    <2>1. \A c \in DOMAIN sz : c \in 1 .. n /\ sz[c] \in Nat /\ sz[c] >= 4
        BY <1>1 DEF Tiles
    <2>2. e \in DOMAIN sz
        BY <1>1 DEF Tiles
    <2> QED BY <1>1, <2>1, <2>2
<1>3. /\ get_size(h.mem[b]) = sz[b]
      /\ get_allocated_bit(h.mem[e]) <=> e \notin F
    BY <1>1, <1>2, BlockWord DEF Tags
<1>4. PrevIsFree(h, b) <=> \E p \in F : p + sz[p] = b
    <2>1. ASSUME NEW p \in DOMAIN sz, p + sz[p] = b
          PROVE  /\ b > 1 /\ p + sz[p] - 1 = b - 1
                 /\ get_allocated_bit(h.mem[b - 1]) <=> p \notin F
        <3>1. p \in 1 .. n /\ sz[p] \in Nat /\ sz[p] >= 4
            BY <1>1 DEF Tiles
        <3>2. b > 1 /\ p + sz[p] - 1 = b - 1
            BY <2>1, <3>1
        <3>3. h.mem[b - 1] = SizeWord(sz, F, p)
            BY <1>1, <3>2 DEF Tags
        <3> QED BY <1>1, <3>2, <3>3, BlockWord
    <2>2. ASSUME PrevIsFree(h, b) PROVE \E p \in F : p + sz[p] = b
        <3>1. b # 1 /\ ~get_allocated_bit(h.mem[b - 1])
            BY <1>2, <2>2 DEF PrevIsFree
        <3>2. PICK p \in DOMAIN sz : p + sz[p] = b
            BY <1>1, <3>1, BlockBefore
        <3> QED BY <2>1, <3>1, <3>2
    <2>3. ASSUME NEW p \in F, p + sz[p] = b PROVE PrevIsFree(h, b)
        BY <1>1, <2>1, <2>3 DEF PrevIsFree
    <2> QED BY <2>2, <2>3
<1>5. /\ Shape(h1, n, sz, F1, F, rank) /\ Untouched(h, h1, sz, sz, A)
      /\ h1 \in Heaps(n)
    <2>1. {b} \cup F = F1
        OBVIOUS
    <2>2. Shape(h1, n, sz, F1, F, rank) /\ Untouched(h, h1, sz, sz, DOMAIN sz \ ({b} \cup F))
        BY <1>1, Marked
    <2> QED BY <2>1, <2>2 DEF Shape
<1>6. Freed(h, b) = IF PrevIsFree(h, b)
                    THEN MergedWithPrev(IF e \in F THEN MergedWithNext(h1, b) ELSE h1, b)
                    ELSE IF e \in F THEN MergedWithNext(h1, b) ELSE PushedInFront(h1, b)
    BY <1>3 DEF Freed
<1> HIDE DEF h1
<1>7. \A c \in F : c + sz[c] \notin F
    BY <1>1 DEF Apart
<1>8. CASE e \notin F /\ ~PrevIsFree(h, b)
    <2> DEFINE g == PushedInFront(h1, b)
    <2>1. b \in F1 \ F /\ F1 = F \cup {b} /\ {b} \cup F = F1
        BY <1>1
    <2>2. PICK rank2 : Shape(g, n, sz, F1, F1, rank2)
        BY <1>5, <2>1, MarkedIsPushed
    <2>3. Untouched(h1, g, sz, sz, A)
        BY <1>5, <2>1, MarkedIsPushed
    <2> HIDE DEF g
    <2>4. Untouched(h, g, sz, sz, A)
        BY <1>5, <2>3, UntouchedTwice
    <2>5. Apart(sz, F1)
        BY <1>2, <1>4, <1>7, <1>8 DEF Apart
    <2>6. HeapIs(g, n, sz, F1, rank2)
        BY <2>2, <2>5 DEF HeapIs
    <2>7. Frees(h, g, n, sz, F, b)
        BY <2>4, <2>6 DEF Frees
    <2> QED BY <1>6, <1>8, <2>7 DEF g
<1>9. ASSUME e \in F
      PROVE  LET t == Joined(sz, b)
                 g == MergedWithNext(h1, b)
                 F2 == (F \ {e}) \cup {b}
             IN /\ \E rank2 : Shape(g, n, t, F2, F2, rank2)
                /\ Untouched(h, g, sz, t, A)
                /\ DOMAIN t = DOMAIN sz \ {e} /\ t[b] = sz[b] + sz[e] /\ b + t[b] = e + sz[e]
                /\ \A c \in DOMAIN sz \ {e} : c # b => t[c] = sz[c]
                /\ Tiles(t, n)
    <2> DEFINE t == Joined(sz, b)
               g == MergedWithNext(h1, b)
               F2 == (F \ {e}) \cup {b}
    <2>1. b \in F1 \ F /\ F1 \ {e} = F2 /\ A \subseteq DOMAIN sz \ ({b, e} \cup F)
        BY <1>1, <1>2, <1>9
    <2>2. PICK rank2 : Shape(g, n, t, F1 \ {e}, F2, rank2)
        BY <1>5, <1>9, <2>1, NextIsMerged
    <2>3. Untouched(h1, g, sz, t, DOMAIN sz \ ({b, e} \cup F))
        BY <1>5, <1>9, <2>1, NextIsMerged
    <2> HIDE DEF g
    <2>4. JoinedInto(sz, t, n, b)
        BY <1>1, <1>2, JoinedTiles
    <2> HIDE DEF t
    <2>5. /\ DOMAIN t = DOMAIN sz \ {e} /\ t[b] = sz[b] + sz[e] /\ Tiles(t, n)
          /\ \A c \in DOMAIN sz \ {e} : c # b => t[c] = sz[c]
        BY <2>4 DEF JoinedInto
    <2>6. b + t[b] = e + sz[e]
        BY <1>2, <2>5
    <2>7. Untouched(h, g, sz, t, A)
        BY <1>5, <2>1, <2>3, UntouchedTwice
    <2> HIDE DEF A
    <2> QED BY <2>1, <2>2, <2>5, <2>6, <2>7 DEF g, t
<1>10. CASE e \in F /\ ~PrevIsFree(h, b)
    <2> DEFINE t == Joined(sz, b)
               g == MergedWithNext(h1, b)
               F2 == (F \ {e}) \cup {b}
    <2>1. /\ \E rank2 : Shape(g, n, t, F2, F2, rank2)
          /\ Untouched(h, g, sz, t, A)
          /\ DOMAIN t = DOMAIN sz \ {e} /\ b + t[b] = e + sz[e]
          /\ \A c \in DOMAIN sz \ {e} : c # b => t[c] = sz[c]
        BY <1>9, <1>10
    <2> HIDE DEF g, t
    <2>2. PICK rank2 : Shape(g, n, t, F2, F2, rank2)
        BY <2>1
    <2>3. Apart(t, F2)
        <3>1. b + t[b] \notin F2
            BY <1>2, <1>7, <1>10, <2>1
        <3>2. ASSUME NEW c \in F \ {e} PROVE c + t[c] \notin F2
            <4>1. t[c] = sz[c] /\ c + sz[c] # b
                BY <1>1, <1>4, <1>10, <2>1
            <4> QED BY <1>7, <4>1
        <3> QED BY <3>1, <3>2 DEF Apart
    <2>4. HeapIs(g, n, t, F2, rank2)
        BY <2>2, <2>3 DEF HeapIs
    <2>5. DOMAIN t \ F2 = A
        BY <1>1, <1>2, <1>10, <2>1
    <2> HIDE DEF F2
    <2>6. Frees(h, g, n, sz, F, b)
        BY <2>1, <2>4, <2>5 DEF Frees
    <2> QED BY <1>6, <1>10, <2>6 DEF g
<1>11. CASE e \notin F /\ PrevIsFree(h, b)
    <2>1. PICK p \in F : p + sz[p] = b
        BY <1>4, <1>11
    <2> DEFINE t == Joined(sz, p)
               g == MergedWithPrev(h1, b)
    <2>2. /\ b \in F1 /\ F1 \ {b} = F /\ F \ {b} = F /\ p \in DOMAIN sz /\ p # b
          /\ A \subseteq DOMAIN sz \ ({p, b} \cup F)
        BY <1>1, <2>1
    <2>14. Swallowed(h1, n, sz, F1, F, p, b)
        <3>1. b = p + sz[p] /\ b \in F1
            BY <2>1, <2>2
        <3> HIDE DEF F1
        <3> QED BY <1>5, <3>1, PrevSwallows
    <2>3. PICK rank2 : Shape(g, n, t, F1 \ {b}, F \ {b}, rank2)
        BY <2>14 DEF Swallowed
    <2>4. Untouched(h1, g, sz, t, DOMAIN sz \ ({p, b} \cup F))
        BY <2>14 DEF Swallowed
    <2> HIDE DEF g
    <2>5. JoinedInto(sz, t, n, p)
        BY <1>1, <2>1, <2>2, JoinedTiles
    <2> HIDE DEF t
    <2>6. /\ DOMAIN t = DOMAIN sz \ {b} /\ t[p] = sz[p] + sz[b]
          /\ \A c \in DOMAIN sz \ {b} : c # p => t[c] = sz[c]
        BY <2>1, <2>5 DEF JoinedInto
    <2>7. p + t[p] = e
        BY <1>2, <2>1, <2>2, <2>6
    <2>8. Shape(g, n, t, F, F, rank2)
        BY <2>2, <2>3
    <2>9. Apart(t, F)
        BY <1>1, <1>7, <1>11, <2>6, <2>7 DEF Apart
    <2>10. HeapIs(g, n, t, F, rank2)
        BY <2>8, <2>9 DEF HeapIs
    <2>11. Untouched(h, g, sz, t, A)
        BY <1>5, <2>2, <2>4, UntouchedTwice
    <2>12. DOMAIN t \ F = A
        BY <1>1, <2>6
    <2>13. Frees(h, g, n, sz, F, b)
        BY <2>10, <2>11, <2>12 DEF Frees
    <2> QED BY <1>6, <1>11, <2>13 DEF g
<1>12. CASE e \in F /\ PrevIsFree(h, b)
    <2>1. PICK p \in F : p + sz[p] = b
        BY <1>4, <1>12
    <2> DEFINE s == Joined(sz, b)
               k == MergedWithNext(h1, b)
               F2 == (F \ {e}) \cup {b}
               t == Joined(s, p)
               g == MergedWithPrev(k, b)
    <2>2. /\ \E rank2 : Shape(k, n, s, F2, F2, rank2)
          /\ Untouched(h, k, sz, s, A)
          /\ DOMAIN s = DOMAIN sz \ {e} /\ b + s[b] = e + sz[e] /\ s[b] = sz[b] + sz[e]
          /\ \A c \in DOMAIN sz \ {e} : c # b => s[c] = sz[c]
          /\ Tiles(s, n)
        BY <1>9, <1>12
    <2> HIDE DEF k, s
    <2>3. PICK rank2 : Shape(k, n, s, F2, F2, rank2)
        BY <2>2
    <2>4. /\ p \in DOMAIN sz /\ p # b /\ p # e /\ p \in Nat /\ sz[p] \in Nat
          /\ p \in F2 /\ b \in F2 /\ s[p] = sz[p] /\ p \in DOMAIN s /\ b \in DOMAIN s
        <3>1. p \in DOMAIN sz /\ p # b /\ p \in Nat /\ sz[p] \in Nat
            BY <1>1, <1>2, <2>1
        <3>2. p # e
            BY <1>2, <2>1, <3>1
        <3> QED BY <1>2, <2>2, <3>1, <3>2
    <2>5. b = p + s[p]
        BY <2>1, <2>4
    <2>20. Swallowed(k, n, s, F2, F2, p, b)
        <3>1. p \in F2 /\ b \in F2
            BY <2>4
        <3> HIDE DEF F2
        <3> QED BY <2>3, <2>5, <3>1, PrevSwallows
    <2>6. PICK rank3 : Shape(g, n, t, F2 \ {b}, F2 \ {b}, rank3)
        BY <2>20 DEF Swallowed
    <2>7. Untouched(k, g, s, t, DOMAIN s \ ({p, b} \cup F2))
        BY <2>20 DEF Swallowed
    <2> HIDE DEF g
    <2>8. JoinedInto(s, t, n, p)
        BY <2>2, <2>4, <2>5, JoinedTiles
    <2> HIDE DEF t
    <2>9. /\ DOMAIN t = DOMAIN s \ {b} /\ t[p] = s[p] + s[b]
          /\ \A c \in DOMAIN s \ {b} : c # p => t[c] = s[c]
        BY <2>5, <2>8 DEF JoinedInto
    <2>10. p + t[p] = e + sz[e]
        BY <1>2, <2>1, <2>2, <2>4, <2>9
    <2>11. F2 \ {b} = F \ {e}
        BY <1>1
    <2>12. Apart(t, F \ {e})
        <3>1. p + t[p] \notin F
            BY <1>7, <1>12, <2>10
        <3>2. ASSUME NEW c \in F \ {e}, c # p PROVE c + t[c] \notin F
            <4>1. t[c] = sz[c]
                BY <1>1, <2>2, <2>9, <3>2
            <4> QED BY <1>7, <4>1
        <3> QED BY <3>1, <3>2 DEF Apart
    <2>13. HeapIs(g, n, t, F \ {e}, rank3)
        BY <2>6, <2>11, <2>12 DEF HeapIs
    <2>14. A \subseteq DOMAIN s \ ({p, b} \cup F2) /\ DOMAIN t \ (F \ {e}) = A
        BY <1>1, <1>2, <1>12, <2>1, <2>2, <2>9
    <2> HIDE DEF A, F2
    <2>15. Untouched(h, g, sz, t, A)
        BY <2>2, <2>7, <2>14, UntouchedTwice
    <2>16. Frees(h, g, n, sz, F, b)
        BY <2>13, <2>14, <2>15 DEF Frees, A
    <2> QED BY <1>6, <1>12, <2>16 DEF g, k
<1> QED BY <1>8, <1>10, <1>11, <1>12

-----------------------------------------------------------------------------
(* krealloc *)

\* Block b keeps words words, and what else is allocated stays.
Shrinks(h, g, n, sz, F, b, words) ==
    \E sz2, F2, rank2 :
       /\ HeapIs(g, n, sz2, F2, rank2)
       /\ DOMAIN sz2 \ F2 = DOMAIN sz \ F /\ sz2[b] = words
       /\ Untouched(h, g, sz, sz2, DOMAIN sz \ (F \cup {b}))

\* The numbers of a block that gives up words at its end.
LEMMA ShrinkNumbers ==
    ASSUME NEW n \in Nat, n < ALLOCATED, NEW sz, Tiles(sz, n), NEW b \in DOMAIN sz,
           NEW words \in Nat, words >= 4, NEW gone, gone = sz[b] - words, gone >= 4
    PROVE  /\ b \in 1 .. n /\ sz[b] \in Nat /\ sz[b] >= 4 /\ b + sz[b] <= n + 1
           /\ gone \in Nat /\ words < ALLOCATED /\ gone < ALLOCATED /\ ALLOCATED \in Nat
           /\ (b + sz[b]) - gone = b + words /\ (ALLOCATED + sz[b]) - gone = ALLOCATED + words
           /\ b + words \in 1 .. n /\ b + words # b
           /\ b + words + 1 \in b .. b + sz[b] - 1 /\ b + words + 2 \in b .. b + sz[b] - 1
           /\ get_size(ALLOCATED + words) = words /\ get_size(gone) = gone
           /\ ALLOCATED + words \in Nat
<1>1. /\ b \in 1 .. n /\ sz[b] \in Nat /\ sz[b] >= 4 /\ b + sz[b] <= n + 1
    BY BlockBounds
<1>2. ALLOCATED \in Nat
    BY HeapAssumption
<1>3. gone \in Nat /\ words < ALLOCATED /\ gone < ALLOCATED
    BY <1>1, <1>2
<1>4. get_size(ALLOCATED + words) = words /\ get_size(gone) = gone
    BY <1>3, SizeOfWord
<1>5. /\ (b + sz[b]) - gone = b + words /\ (ALLOCATED + sz[b]) - gone = ALLOCATED + words
      /\ b + words \in 1 .. n /\ b + words # b /\ ALLOCATED + words \in Nat
      /\ b + words + 1 \in b .. b + sz[b] - 1 /\ b + words + 2 \in b .. b + sz[b] - 1
    BY <1>1, <1>2, <1>3
<1> QED BY <1>1, <1>2, <1>3, <1>4, <1>5

\* The words given up become a block of their own, in front of the list.
LEMMA ShrunkBySplitShrinks ==
    ASSUME NEW n \in Nat, n < ALLOCATED, NEW h, NEW sz, NEW F, NEW rank,
           HeapIs(h, n, sz, F, rank), NEW b \in DOMAIN sz \ F, b + sz[b] \notin F,
           NEW words \in Nat, words >= 4, NEW gone, gone = sz[b] - words, gone >= 4
    PROVE  Shrinks(h, ShrunkBySplit(h, b, gone), n, sz, F, b, words)
<1> DEFINE e == b + words
           t == Split(sz, b, words)
           h1 == Tagged(h, b, ALLOCATED + words)
           h2 == Tagged(h1, e, gone)
           g == PushedInFront(h2, e)
           F2 == F \cup {e}
<1>1. /\ Shape(h, n, sz, F, F, rank) /\ Apart(sz, F)
      /\ h \in Heaps(n) /\ Tiles(sz, n) /\ F \subseteq DOMAIN sz /\ Tags(h.mem, sz, F)
      /\ Linked(h.mem, h.head, F, rank) /\ b \in DOMAIN sz /\ b \notin F
      /\ h.mem[b + 1] = NULL /\ h.mem[b + 2] = NULL
    BY DEF HeapIs, Shape
<1>2. /\ b \in 1 .. n /\ sz[b] \in Nat /\ sz[b] >= 4 /\ b + sz[b] <= n + 1
      /\ gone \in Nat /\ (b + sz[b]) - gone = e /\ (ALLOCATED + sz[b]) - gone = ALLOCATED + words
      /\ e \in 1 .. n /\ e # b
      /\ get_size(ALLOCATED + words) = words /\ get_size(gone) = gone
      /\ ALLOCATED + words \in Nat
    BY <1>1, ShrinkNumbers
<1>3. /\ Tiles(t, n) /\ DOMAIN t = DOMAIN sz \cup {e} /\ e \notin DOMAIN sz
      /\ t[b] = words /\ t[e] = gone
      /\ \A c \in DOMAIN sz : c # b => t[c] = sz[c]
    <2> HIDE DEF t
    <2>1. SplitInto(sz, t, n, b, words)
        BY <1>1, SplitTiles DEF t
    <2> QED BY <2>1 DEF SplitInto
<1> HIDE DEF t
<1>4. ShrunkBySplit(h, b, gone) = g
    <2>1. h.mem[b] = ALLOCATED + sz[b] /\ get_size(h.mem[b]) = sz[b]
        BY <1>1, BlockWord DEF Tags, SizeWord
    <2> QED BY <1>2, <2>1 DEF ShrunkBySplit
<1>5. b + 1 \in 1 .. n /\ b + 2 \in 1 .. n /\ b + words - 1 \in 1 .. n /\ e + gone - 1 \in 1 .. n
      /\ e + gone = b + sz[b] /\ n >= 2
    BY <1>2
<1>6. /\ h1 \in Heaps(n) /\ h1.head = h.head
      /\ \A i \in 1 .. n : h1.mem[i] = IF i = b \/ i = b + words - 1 THEN ALLOCATED + words ELSE h.mem[i]
    BY <1>1, <1>2, <1>5 DEF Heaps, Tagged
<1> HIDE DEF h1
<1>7. /\ h2 \in Heaps(n) /\ h2.head = h.head
      /\ \A i \in 1 .. n : h2.mem[i] = IF i = e \/ i = e + gone - 1 THEN gone ELSE h1.mem[i]
    BY <1>2, <1>5, <1>6 DEF Heaps, Tagged
<1> HIDE DEF h2
<1>8. \A i \in 1 .. n : i \notin b .. b + sz[b] - 1 => h2.mem[i] = h.mem[i]
    BY <1>2, <1>5, <1>6, <1>7
<1>9. Linked(h2.mem, h2.head, F, rank)
    <2>1. ASSUME NEW i \in Links(F) PROVE h2.mem[i] = h.mem[i]
        <3>1. i \notin b .. b + sz[b] - 1
            BY <1>1, LinkWords
        <3>2. i \in 1 .. n
            <4>1. \A f \in F : f + 1 \in 1 .. n /\ f + 2 \in 1 .. n
                BY <1>1, BlockBounds
            <4> QED BY <4>1 DEF Links
        <3> QED BY <1>8, <3>1, <3>2
    <2>2. Linked(h2.mem, h.head, F, rank)
        BY <1>1, <2>1, SameLinks
    <2> QED BY <1>7, <2>2
<1>10. F2 \subseteq DOMAIN t /\ e \notin F /\ F2 \subseteq F2 /\ n <= n
       /\ b \notin F2 /\ e \in F2 /\ b \in DOMAIN t /\ e \in DOMAIN t
    BY <1>1, <1>2, <1>3
<1>11. Spread(F2, n)
    BY <1>3, <1>10, BlocksSpread
<1>12. Relinked(h2, g, n, F, F2)
    BY <1>5, <1>7, <1>9, <1>10, <1>11, PushedList
<1> HIDE DEF g
<1>13. PICK rank2 : g \in Heaps(n) /\ Linked(g.mem, g.head, F2, rank2)
    BY <1>12 DEF Relinked
<1>14. \A i \in 1 .. n : i \notin Links(F2) => g.mem[i] = h2.mem[i]
    <2>1. F \cup F2 = F2
        OBVIOUS
    <2> QED BY <1>12, <2>1 DEF Relinked
<1>15. ListStep(h.mem, g.mem, n, sz, F, {b})
    <2> SUFFICES ASSUME NEW i \in 1 .. n, g.mem[i] # h.mem[i], i \notin Links(F)
                 PROVE  i \in b .. b + sz[b] - 1
        BY DEF ListStep
    <2>1. i \in Links(F2) => i = e + 1 \/ i = e + 2
        BY DEF Links
    <2> QED BY <1>2, <1>8, <1>14, <2>1
<1>16. LayoutStep(g.mem, g.mem, n, t, F2, {b, e})
    BY DEF LayoutStep
<1>17. LaidOut(g.mem, t, F2, F2, {b, e})
    <2>1. /\ b \in b .. b + t[b] - 1 /\ b + t[b] - 1 \in b .. b + t[b] - 1
          /\ b + 1 \in b .. b + t[b] - 1 /\ b + 2 \in b .. b + t[b] - 1
          /\ e \in e .. e + t[e] - 1 /\ e + t[e] - 1 \in e .. e + t[e] - 1
          /\ e \notin {e + 1, e + 2} /\ e + t[e] - 1 \notin {e + 1, e + 2}
        BY <1>2, <1>3
    <2>2. \A i \in b .. b + t[b] - 1 : i \notin Links(F2)
        BY <1>3, <1>10, LinkWords
    <2>3. e \notin Links(F2) /\ e + t[e] - 1 \notin Links(F2)
        BY <1>3, <1>10, <2>1, LinkWords
    <2>4. /\ b \notin Links(F2) /\ b + words - 1 \notin Links(F2)
          /\ b + 1 \notin Links(F2) /\ b + 2 \notin Links(F2)
        BY <1>3, <2>1, <2>2
    <2>5. /\ g.mem[b] = h2.mem[b] /\ g.mem[b + words - 1] = h2.mem[b + words - 1]
          /\ g.mem[b + 1] = h2.mem[b + 1] /\ g.mem[b + 2] = h2.mem[b + 2]
          /\ g.mem[e] = h2.mem[e] /\ g.mem[e + gone - 1] = h2.mem[e + gone - 1]
        BY <1>2, <1>3, <1>5, <1>14, <2>3, <2>4
    <2>6. /\ h2.mem[b] = ALLOCATED + words /\ h2.mem[b + words - 1] = ALLOCATED + words
          /\ h2.mem[b + 1] = NULL /\ h2.mem[b + 2] = NULL
          /\ h2.mem[e] = gone /\ h2.mem[e + gone - 1] = gone
        BY <1>1, <1>2, <1>5, <1>6, <1>7
    <2>7. SizeWord(t, F2, b) = ALLOCATED + words /\ SizeWord(t, F2, e) = gone
        BY <1>3, <1>10 DEF SizeWord
    <2> QED BY <1>3, <1>10, <2>5, <2>6, <2>7 DEF LaidOut
<1>18. Replaced(sz, t, {b}, {b, e}) /\ SameBut(F, F2, {b}, {b, e})
    BY <1>1, <1>3 DEF Replaced, SameBut
<1>19. Apart(t, F2)
    <2> SUFFICES ASSUME NEW c \in F2, c + t[c] \in F2 PROVE FALSE
        BY DEF Apart
    <2>1. CASE c = e
        <3>1. c + t[c] = b + sz[b] /\ b + sz[b] # e
            BY <1>2, <1>3, <1>5, <2>1
        <3> QED BY <3>1
    <2>2. CASE c # e
        <3>1. c \in F /\ c \in DOMAIN sz /\ t[c] = sz[c]
            BY <1>1, <1>3, <2>2
        <3>2. c + sz[c] \notin F /\ c + sz[c] \in DOMAIN sz \cup {n + 1}
            BY <1>1, <3>1 DEF Apart, Tiles
        <3> QED BY <1>2, <1>3, <3>1, <3>2
    <2> QED BY <2>1, <2>2
<1> HIDE DEF F2, e
<1>20. Shape(g, n, t, F2, F2, rank2) /\ Untouched(h, g, sz, t, DOMAIN sz \ ({b} \cup F))
    BY <1>1, <1>3, <1>10, <1>13, <1>15, <1>16, <1>17, <1>18, Rebuilt
<1>21. HeapIs(g, n, t, F2, rank2)
    BY <1>19, <1>20 DEF HeapIs
<1>22. DOMAIN t \ F2 = DOMAIN sz \ F /\ {b} \cup F = F \cup {b}
    BY <1>1, <1>3 DEF F2
<1>23. Shrinks(h, g, n, sz, F, b, words)
    BY <1>3, <1>20, <1>21, <1>22 DEF Shrinks
<1> QED BY <1>4, <1>23

\* What ShrunkIntoNext writes before it tags the blocks: the block behind, at c, gets its
\* links at e, which becomes the head.
MovedDown(h, e, c, p, q) ==
    [h EXCEPT !.mem[e + 1] = p, !.mem[e + 2] = q, !.mem[c - 1] = 0, !.mem[c] = 0, !.head = e]

HasMovedDown(h, g, n, e, c, p, q) ==
    /\ g \in Heaps(n) /\ g.head = e
    /\ \A i \in 1 .. n : g.mem[i] = IF i = c - 1 \/ i = c THEN 0
                                    ELSE IF i = e + 2 THEN q
                                    ELSE IF i = e + 1 THEN p ELSE h.mem[i]

\* The words that krealloc writes when it moves a free block down.
LEMMA MovedDownWords ==
    ASSUME NEW n \in Nat, NEW h \in Heaps(n), NEW e \in 1 .. n, e + 2 <= n, NEW c \in 2 .. n,
           NEW p \in Nat, NEW q \in Nat
    PROVE  HasMovedDown(h, MovedDown(h, e, c, p, q), n, e, c, p, q)
<1> DEFINE m0 == h.mem
           m1 == [m0 EXCEPT ![e + 1] = p]
           m2 == [m1 EXCEPT ![e + 2] = q]
           m3 == [m2 EXCEPT ![c - 1] = 0]
           m4 == [m3 EXCEPT ![c] = 0]
           g == MovedDown(h, e, c, p, q)
<1>1. m0 \in [1 .. n -> Nat] /\ e \in Nat
    BY DEF Heaps
<1>2. g = [mem |-> m4, head |-> e]
    <2>1. g = [[h EXCEPT !.mem = m4] EXCEPT !.head = e]
        BY DEF Heaps, MovedDown
    <2> HIDE DEF g, m4
    <2> QED BY <2>1 DEF Heaps
<1> HIDE DEF m0, g
<1>3. m1 \in [1 .. n -> Nat] /\ \A i \in 1 .. n : m1[i] = IF i = e + 1 THEN p ELSE m0[i]
    BY <1>1
<1> HIDE DEF m1
<1>4. m2 \in [1 .. n -> Nat] /\ \A i \in 1 .. n : m2[i] = IF i = e + 2 THEN q ELSE m1[i]
    BY <1>3
<1> HIDE DEF m2
<1>5. m3 \in [1 .. n -> Nat] /\ \A i \in 1 .. n : m3[i] = IF i = c - 1 THEN 0 ELSE m2[i]
    BY <1>4
<1> HIDE DEF m3
<1>6. m4 \in [1 .. n -> Nat] /\ \A i \in 1 .. n : m4[i] = IF i = c THEN 0 ELSE m3[i]
    BY <1>5
<1> HIDE DEF m4
<1>7. g \in Heaps(n)
    BY <1>1, <1>2, <1>6, HeapOf
<1>8. \A i \in 1 .. n : m4[i] = IF i = c - 1 \/ i = c THEN 0
                                ELSE IF i = e + 2 THEN q
                                ELSE IF i = e + 1 THEN p ELSE m0[i]
    BY <1>3, <1>4, <1>5, <1>6
<1>9. g.mem = m4 /\ g.head = e
    BY <1>2
<1> QED BY <1>7, <1>8, <1>9 DEF HasMovedDown, m0, g

\* The words given up become part of the block behind, the only one in the list: the new
\* block takes its place.
LEMMA ShrunkIntoNextShrinks ==
    ASSUME NEW n \in Nat, n < ALLOCATED, NEW h, NEW sz, NEW F, NEW rank,
           HeapIs(h, n, sz, F, rank), NEW b \in DOMAIN sz \ F, NEW c \in F, c = b + sz[b],
           h.mem[c + 1] = NULL, h.mem[c + 2] = NULL,
           NEW words \in Nat, words >= 4, NEW gone, gone = sz[b] - words, gone >= 4
    PROVE  Shrinks(h, ShrunkIntoNext(h, b, gone), n, sz, F, b, words)
<1> DEFINE e == b + words
           s == Split(sz, b, words)
           t == Joined(s, e)
           h1 == MovedDown(h, e, c, NULL, NULL)
           size == sz[c] + gone
           h2 == Tagged(h1, e, size)
           g == Tagged(h2, b, ALLOCATED + words)
           F2 == {e}
           rank2 == [f \in F2 |-> 0]
<1>1. /\ Shape(h, n, sz, F, F, rank) /\ Apart(sz, F)
      /\ h \in Heaps(n) /\ Tiles(sz, n) /\ F \subseteq DOMAIN sz /\ Tags(h.mem, sz, F)
      /\ Linked(h.mem, h.head, F, rank) /\ b \in DOMAIN sz /\ b \notin F /\ c \in DOMAIN sz
      /\ h.mem[b + 1] = NULL /\ h.mem[b + 2] = NULL
    BY DEF HeapIs, Shape
<1>2. /\ b \in 1 .. n /\ sz[b] \in Nat /\ sz[b] >= 4 /\ b + sz[b] <= n + 1
      /\ gone \in Nat /\ (b + sz[b]) - gone = e /\ (ALLOCATED + sz[b]) - gone = ALLOCATED + words
      /\ e \in 1 .. n /\ e # b /\ ALLOCATED \in Nat
      /\ get_size(ALLOCATED + words) = words
      /\ ALLOCATED + words \in Nat
    BY <1>1, ShrinkNumbers
<1>3. c \in 1 .. n /\ sz[c] \in Nat /\ sz[c] >= 4 /\ c + sz[c] <= n + 1
    BY <1>1, BlockBounds
<1>4. /\ c \in 2 .. n /\ e + 2 <= n /\ e + gone = c /\ e # c /\ c >= e + 4
      /\ size \in Nat /\ size < ALLOCATED /\ e + size = c + sz[c] /\ NULL \in Nat
      /\ b + 1 \in 1 .. n /\ b + 2 \in 1 .. n /\ e + 1 \in 1 .. n /\ e + 2 \in 1 .. n
    BY <1>2, <1>3 DEF NULL
<1>5. /\ Tiles(t, n) /\ DOMAIN t = (DOMAIN sz \cup {e}) \ {c} /\ e \notin DOMAIN sz
      /\ t[b] = words /\ t[e] = size
      /\ \A d \in DOMAIN sz \ {c} : d # b => t[d] = sz[d]
    <2> HIDE DEF s, t
    <2>1. SplitInto(sz, s, n, b, words)
        BY <1>1, SplitTiles DEF s
    <2>2. /\ Tiles(s, n) /\ DOMAIN s = DOMAIN sz \cup {e} /\ e \notin DOMAIN sz
          /\ s[b] = words /\ s[e] = gone
          /\ \A d \in DOMAIN sz : d # b => s[d] = sz[d]
        BY <2>1 DEF SplitInto
    <2>3. e \in DOMAIN s /\ e + s[e] \in DOMAIN s /\ e + s[e] = c
        BY <1>1, <1>4, <2>2
    <2>4. JoinedInto(s, t, n, e)
        BY <2>2, <2>3, JoinedTiles DEF t
    <2>5. /\ Tiles(t, n) /\ DOMAIN t = DOMAIN s \ {c} /\ t[e] = s[e] + s[c]
          /\ \A d \in DOMAIN s \ {c} : d # e => t[d] = s[d]
        BY <2>3, <2>4 DEF JoinedInto
    <2>6. s[c] = sz[c] /\ c # b
        BY <1>1, <2>2
    <2>7. t[e] = size
        <3>1. t[e] = gone + sz[c] /\ gone \in Nat /\ sz[c] \in Nat
            BY <1>2, <1>3, <2>2, <2>5, <2>6
        <3> HIDE DEF e
        <3> QED BY <3>1
    <2> HIDE DEF size
    <2> QED BY <1>1, <1>2, <2>2, <2>5, <2>6, <2>7
<1> HIDE DEF t
<1>6. ShrunkIntoNext(h, b, gone) = g
    <2>1. h.mem[b] = ALLOCATED + sz[b] /\ get_size(h.mem[b]) = sz[b] /\ h.mem[c] = sz[c]
        BY <1>1, BlockWord DEF Tags, SizeWord
    <2>2. c - gone = e /\ h.mem[b] - gone = ALLOCATED + words
        BY <1>2, <2>1
    <2> QED BY <2>1, <2>2 DEF ShrunkIntoNext, MovedDown, Prev, NextOf
<1>7. /\ h1 \in Heaps(n) /\ h1.head = e
      /\ \A i \in 1 .. n : h1.mem[i] = IF i = c - 1 \/ i = c THEN 0
                                       ELSE IF i = e + 2 THEN NULL
                                       ELSE IF i = e + 1 THEN NULL ELSE h.mem[i]
    <2> HIDE DEF e, h1
    <2>1. h \in Heaps(n) /\ e \in 1 .. n /\ e + 2 <= n /\ c \in 2 .. n /\ NULL \in Nat
        BY <1>1, <1>2, <1>4
    <2>2. HasMovedDown(h, h1, n, e, c, NULL, NULL)
        BY <2>1, MovedDownWords DEF h1
    <2> QED BY <2>2 DEF HasMovedDown
<1> HIDE DEF h1
<1>8. F = {c}
    <2>1. Spread(F, n)
        BY <1>1, BlocksSpread
    <2>2. NULL \notin F
        BY <2>1 DEF Spread, NULL
    <2> QED BY <1>1, <2>2, OnlyBlock
<1>9. Linked(h1.mem, h1.head, F2, rank2)
    <2>1. h1.mem[e + 1] = NULL /\ h1.mem[e + 2] = NULL
        <3>1. /\ e + 1 \in 1 .. n /\ e + 1 # c - 1 /\ e + 1 # c /\ e + 1 # e + 2
              /\ e + 2 \in 1 .. n /\ e + 2 # c - 1 /\ e + 2 # c
            BY <1>2, <1>3, <1>4
        <3> HIDE DEF e
        <3> QED BY <1>7, <3>1
    <2>2. rank2 \in [F2 -> Nat]
        OBVIOUS
    <2> HIDE DEF rank2
    <2> QED BY <1>7, <2>1, <2>2 DEF Linked
<1>10. ListStep(h.mem, h1.mem, n, sz, F, {b, c})
    <2> SUFFICES ASSUME NEW i \in 1 .. n, h1.mem[i] # h.mem[i]
                 PROVE  i \in b .. b + sz[b] - 1 \/ i \in c .. c + sz[c] - 1
        BY DEF ListStep
    <2>1. i = c - 1 \/ i = c \/ i = e + 2 \/ i = e + 1
        BY <1>7
    <2> QED BY <1>2, <1>3, <1>4, <2>1
<1>11. b \in DOMAIN t /\ e \in DOMAIN t /\ F2 \subseteq DOMAIN t /\ F2 \subseteq F2 /\ n <= n
    BY <1>1, <1>4, <1>5
<1>12. get_size(size) = t[e] /\ get_size(ALLOCATED + words) = t[b]
    BY <1>2, <1>4, <1>5, SizeOfWord
<1> HIDE DEF size, rank2
<1>13. BlockTagged(h1, h2, n, t, F2, e, size)
    BY <1>4, <1>5, <1>7, <1>11, <1>12, BlockIsTagged
<1>14. h2 \in Heaps(n)
    BY <1>13 DEF BlockTagged
<1> HIDE DEF h2
<1>15. BlockTagged(h2, g, n, t, F2, b, ALLOCATED + words)
    BY <1>2, <1>5, <1>11, <1>12, <1>14, BlockIsTagged
<1> HIDE DEF g
<1>16. LayoutStep(h1.mem, g.mem, n, t, F2, {b, e})
    <2>1. LayoutStep(h1.mem, h2.mem, n, t, F2, {e}) /\ LayoutStep(h2.mem, g.mem, n, t, F2, {b})
        BY <1>13, <1>15 DEF BlockTagged
    <2>2. LayoutStep(h1.mem, g.mem, n, t, F2, {e} \cup {b})
        BY <2>1, LayoutTwice
    <2>3. {e} \cup {b} = {b, e}
        OBVIOUS
    <2> QED BY <2>2, <2>3
<1>17. LaidOut(g.mem, t, F2, F2, {b, e})
    <2>1. /\ LayoutStep(h1.mem, h2.mem, n, t, F2, {e}) /\ LayoutStep(h2.mem, g.mem, n, t, F2, {b})
          /\ {e} \subseteq DOMAIN t /\ {b} \subseteq DOMAIN t /\ e \notin {b} /\ b \notin {e}
        BY <1>2, <1>11, <1>13, <1>15 DEF BlockTagged
    <2>2. SameBlock(h2.mem, g.mem, t, e)
        BY <1>5, <1>11, <2>1, LayoutKeeps
    <2>3. SameBlock(h1.mem, h2.mem, t, b)
        BY <1>5, <1>11, <2>1, LayoutKeeps
    <2>4. e \in e .. e + t[e] - 1 /\ e + t[e] - 1 \in e .. e + t[e] - 1
        BY <1>5, <1>11, BlockBounds
    <2>5. b + 1 \in b .. b + t[b] - 1 /\ b + 2 \in b .. b + t[b] - 1
        BY <1>2, <1>5
    <2>6. g.mem[e] = size /\ g.mem[e + t[e] - 1] = size
        BY <1>13, <2>2, <2>4 DEF BlockTagged, SameBlock
    <2>7. g.mem[b + 1] = h1.mem[b + 1] /\ g.mem[b + 2] = h1.mem[b + 2]
        BY <1>15, <2>3, <2>5 DEF BlockTagged, SameBlock
    <2>8. h1.mem[b + 1] = NULL /\ h1.mem[b + 2] = NULL
        <3>1. /\ b + 1 # c - 1 /\ b + 1 # c /\ b + 1 # e + 1 /\ b + 1 # e + 2
              /\ b + 2 # c - 1 /\ b + 2 # c /\ b + 2 # e + 1 /\ b + 2 # e + 2
            BY <1>2, <1>4
        <3> QED BY <1>1, <1>4, <1>7, <3>1
    <2>9. SizeWord(t, F2, b) = ALLOCATED + words /\ SizeWord(t, F2, e) = size /\ b \notin F2
        BY <1>2, <1>5 DEF SizeWord
    <2> QED BY <1>15, <2>6, <2>7, <2>8, <2>9 DEF BlockTagged, LaidOut
<1>18. g \in Heaps(n) /\ Linked(h1.mem, g.head, F2, rank2)
    BY <1>9, <1>13, <1>15 DEF BlockTagged
<1>19. Replaced(sz, t, {b, c}, {b, e}) /\ SameBut(F, F2, {b, c}, {b, e})
    BY <1>1, <1>4, <1>5, <1>8 DEF Replaced, SameBut
<1>20. Apart(t, F2)
    BY <1>2, <1>3, <1>4, <1>5 DEF Apart
<1>21. DOMAIN t \ F2 = DOMAIN sz \ F /\ DOMAIN sz \ ({b, c} \cup F) = DOMAIN sz \ (F \cup {b})
    BY <1>1, <1>4, <1>5, <1>8
<1> HIDE DEF F2, e
<1>22. Shape(g, n, t, F2, F2, rank2) /\ Untouched(h, g, sz, t, DOMAIN sz \ ({b, c} \cup F))
    BY <1>1, <1>5, <1>10, <1>11, <1>16, <1>17, <1>18, <1>19, Rebuilt
<1>23. HeapIs(g, n, t, F2, rank2)
    BY <1>20, <1>22 DEF HeapIs
<1>24. Shrinks(h, g, n, sz, F, b, words)
    BY <1>5, <1>21, <1>22, <1>23 DEF Shrinks
<1> QED BY <1>6, <1>24

-----------------------------------------------------------------------------
(* What kmalloc is made of *)

\* The block that the search found is allocated.
LEMMA BlockAllocated ==
    ASSUME NEW n \in Nat, n < ALLOCATED, NEW h, NEW sz, NEW F, NEW rank,
           HeapIs(h, n, sz, F, rank), NEW b \in F, NEW words \in Nat, words >= 4,
           sz[b] >= words
    PROVE  Allocates(h, allocate_block(h, words, b), n, sz, F, b, words)
<1>1. h \in Heaps(n) /\ Tiles(sz, n) /\ F \subseteq DOMAIN sz /\ Tags(h.mem, sz, F)
    BY DEF HeapIs, Shape
<1>2. get_size(h.mem[b]) = sz[b] /\ sz[b] \in Nat
    BY <1>1, BlockWord DEF Tags
<1>3. 2 * MIN_BLOCK_SIZE \in Nat /\ 2 * MIN_BLOCK_SIZE >= 4
    BY HeapAssumption
<1>4. CASE sz[b] <= words + 2 * MIN_BLOCK_SIZE
    <2>1. allocate_block(h, words, b) =
            Unlisted(Tagged(Unlinked(h, b), b, ALLOCATED + sz[b]), b)
        BY <1>2, <1>4 DEF allocate_block
    <2> QED BY <2>1, AllocatedWhole
<1>5. CASE ~ (sz[b] <= words + 2 * MIN_BLOCK_SIZE)
    <2>1. allocate_block(h, words, b) =
            Unlisted(Tagged(Tagged(Moved(h, b, b + words), b + words, sz[b] - words),
                            b, ALLOCATED + words), b)
        BY <1>2, <1>5 DEF allocate_block
    <2>2. sz[b] - words >= 4
        BY <1>2, <1>3, <1>5
    <2> QED BY <2>1, <2>2, AllocatedSplit
<1> QED BY <1>4, <1>5

\* The heap has grown by k pages, and what is allocated stays.
GrownBy(h, g, n, sz, F, k) ==
    \E sz2, F2, rank2 :
       /\ HeapIs(g, n + k * WORDS_IN_PAGE, sz2, F2, rank2)
       /\ DOMAIN sz2 \ F2 = DOMAIN sz \ F
       /\ Untouched(h, g, sz, sz2, DOMAIN sz \ F)

\* A heap that has grown may grow by one more page.
LEMMA GrownByOneMore ==
    ASSUME NEW n \in Nat, NEW h, NEW sz, NEW F, NEW k \in Nat, NEW g,
           n + (k + 1) * WORDS_IN_PAGE < ALLOCATED, GrownBy(h, g, n, sz, F, k)
    PROVE  GrownBy(h, increase_memory_pool(g), n, sz, F, k + 1)
<1> DEFINE N == n + k * WORDS_IN_PAGE
           g2 == increase_memory_pool(g)
<1>1. WORDS_IN_PAGE \in Nat /\ ALLOCATED \in Nat
    BY HeapAssumption
<1>2. N \in Nat /\ N + WORDS_IN_PAGE = n + (k + 1) * WORDS_IN_PAGE
    <2>1. k * WORDS_IN_PAGE \in Nat /\ (k + 1) * WORDS_IN_PAGE = k * WORDS_IN_PAGE + WORDS_IN_PAGE
        BY <1>1
    <2> QED BY <1>1, <2>1
<1>3. PICK sz2, F2, rank2 :
           /\ HeapIs(g, N, sz2, F2, rank2)
           /\ DOMAIN sz2 \ F2 = DOMAIN sz \ F
           /\ Untouched(h, g, sz, sz2, DOMAIN sz \ F)
    BY DEF GrownBy
<1> HIDE DEF N
<1>4. Grown(g, g2, N, sz2, F2)
    BY <1>2, <1>3, PoolGrows
<1>5. PICK sz3, F3, rank3 :
           /\ HeapIs(g2, N + WORDS_IN_PAGE, sz3, F3, rank3)
           /\ DOMAIN sz3 \ F3 = DOMAIN sz2 \ F2
           /\ Untouched(g, g2, sz2, sz3, DOMAIN sz2 \ F2)
    BY <1>4 DEF Grown
<1> HIDE DEF g2
<1>6. Untouched(h, g2, sz, sz3, DOMAIN sz \ F)
    BY <1>3, <1>5 DEF Untouched
<1>7. GrownBy(h, g2, n, sz, F, k + 1)
    BY <1>2, <1>3, <1>5, <1>6 DEF GrownBy
<1> QED BY <1>7 DEF g2

\* The pool that kmalloc searches after k more pages.
LEMMA PoolIsGrown ==
    ASSUME NEW n \in Nat, NEW limit \in Nat, n + limit * WORDS_IN_PAGE < ALLOCATED,
           NEW h, NEW sz, NEW F, NEW rank, HeapIs(h, n, sz, F, rank)
    PROVE  /\ Pool(h, limit)[0] = h
           /\ \A k \in 0 .. limit : GrownBy(h, Pool(h, limit)[k], n, sz, F, k)
<1> DEFINE S == UNION {Heaps(n + i * WORDS_IN_PAGE) : i \in 0 .. limit}
           step(s) == IF increase_memory_pool(s) \in S THEN increase_memory_pool(s) ELSE s
           d == [is \in (1 .. limit) \X S |-> step(is[2])]
           T(p) == [k \in 0 .. limit |-> IF k = 0 THEN h ELSE increase_memory_pool(p[k - 1])]
           P == Pool(h, limit)
           G(g, k) == GrownBy(h, g, n, sz, F, k)
<1>1. WORDS_IN_PAGE \in Nat /\ ALLOCATED \in Nat
    BY HeapAssumption
<1>2. G(h, 0)
    <2>1. n + 0 * WORDS_IN_PAGE = n
        BY <1>1
    <2> QED BY <2>1 DEF GrownBy, Untouched
<1>3. ASSUME NEW k \in 0 .. limit, k # limit, NEW g, G(g, k)
      PROVE  G(increase_memory_pool(g), k + 1)
    <2>1. k \in Nat /\ (k + 1) * WORDS_IN_PAGE <= limit * WORDS_IN_PAGE
        BY <1>1, <1>3
    <2>2. n + (k + 1) * WORDS_IN_PAGE < ALLOCATED
        BY <1>1, <2>1
    <2> QED BY <1>3, <2>1, <2>2, GrownByOneMore
<1>4. ASSUME NEW k \in 0 .. limit, NEW g, G(g, k) PROVE g \in S
    <2>1. g \in Heaps(n + k * WORDS_IN_PAGE)
        BY <1>4 DEF GrownBy, HeapIs, Shape
    <2> QED BY <2>1
<1> HIDE DEF S, G
<1>5. \A k \in 1 .. limit, s \in S : d[<<k, s>>] = step(s)
    OBVIOUS
<1>6. \A s \in S : step(s) \in S
    OBVIOUS
<1>7. d \in [(1 .. limit) \X S -> S]
    BY <1>6
<1> HIDE DEF d
<1>8. h \in S
    BY <1>2, <1>4
<1>9. PICK f : RecursionTo(S, h, d, limit, f)
    BY <1>7, <1>8, RecursionUpTo
<1>10. f \in [0 .. limit -> S] /\ f[0] = h /\ \A i \in 1 .. limit : f[i] = step(f[i - 1])
    <2>1. f \in [0 .. limit -> S] /\ f[0] = h /\ \A i \in 1 .. limit : f[i] = d[<<i, f[i - 1]>>]
        BY <1>9 DEF RecursionTo
    <2>2. \A i \in 1 .. limit : i - 1 \in 0 .. limit /\ f[i - 1] \in S
        BY <2>1
    <2> QED BY <1>5, <2>1, <2>2
<1>11. \A k \in 0 .. limit : G(f[k], k) /\ (k # 0 => f[k] = increase_memory_pool(f[k - 1]))
    <2> DEFINE N == {k \in Nat : k <= limit =>
                       G(f[k], k) /\ (k # 0 => f[k] = increase_memory_pool(f[k - 1]))}
    <2>1. 0 \in N
        BY <1>2, <1>10
    <2>2. ASSUME NEW k \in Nat, k \in N PROVE k + 1 \in N
        <3> SUFFICES ASSUME k + 1 <= limit
                     PROVE  G(f[k + 1], k + 1) /\ f[k + 1] = increase_memory_pool(f[(k + 1) - 1])
            OBVIOUS
        <3>1. k \in 0 .. limit /\ k # limit /\ k + 1 \in 1 .. limit /\ k + 1 \in 0 .. limit
              /\ (k + 1) - 1 = k
            OBVIOUS
        <3>2. G(f[k], k)
            BY <2>2, <3>1
        <3>3. G(increase_memory_pool(f[k]), k + 1)
            BY <1>3, <3>1, <3>2
        <3>4. increase_memory_pool(f[k]) \in S
            BY <1>4, <3>1, <3>3
        <3>5. f[k + 1] = step(f[(k + 1) - 1])
            BY <1>10, <3>1
        <3>6. f[k + 1] = increase_memory_pool(f[k])
            BY <3>1, <3>4, <3>5
        <3> QED BY <3>1, <3>3, <3>6
    <2>3. Nat \subseteq N
        <3> HIDE DEF N
        <3> QED BY <2>1, <2>2, SetInduction
    <2> QED BY <2>3
<1>12. f = T(f)
    <2>1. f = [k \in 0 .. limit |-> f[k]]
        BY <1>10
    <2>2. \A k \in 0 .. limit : f[k] = IF k = 0 THEN h ELSE increase_memory_pool(f[k - 1])
        BY <1>10, <1>11
    <2> QED BY <2>1, <2>2
<1>13. P = T(P)
    <2>1. P = CHOOSE p : p = T(p)
        BY DEF Pool
    <2> HIDE DEF T, P
    <2> QED BY <1>12, <2>1
<1> HIDE DEF P
<1>14. \A k \in 0 .. limit : P[k] = IF k = 0 THEN h ELSE increase_memory_pool(P[k - 1])
    BY <1>13
<1>15. \A k \in 0 .. limit : G(P[k], k)
    <2> DEFINE N == {k \in Nat : k <= limit => G(P[k], k)}
    <2>1. 0 \in N
        BY <1>2, <1>14
    <2>2. ASSUME NEW k \in Nat, k \in N PROVE k + 1 \in N
        <3> SUFFICES ASSUME k + 1 <= limit PROVE G(P[k + 1], k + 1)
            OBVIOUS
        <3>1. k \in 0 .. limit /\ k # limit /\ k + 1 \in 0 .. limit /\ k + 1 # 0
              /\ (k + 1) - 1 = k
            OBVIOUS
        <3>2. G(P[k], k)
            BY <2>2, <3>1
        <3>3. P[k + 1] = increase_memory_pool(P[k])
            BY <1>14, <3>1
        <3> QED BY <1>3, <3>1, <3>2, <3>3
    <2>3. Nat \subseteq N
        <3> HIDE DEF N
        <3> QED BY <2>1, <2>2, SetInduction
    <2> QED BY <2>3
<1>16. P[0] = h
    BY <1>14
<1> QED BY <1>15, <1>16 DEF G, P

-----------------------------------------------------------------------------
(* What clients hold *)

\* Each client holds a region in an allocated block of its own, and its words are as it
\* left them. A is the set of the allocated blocks.
Clients(m, sz, A, held) ==
    /\ held \subseteq [ptr : Nat, words : Nat]
    /\ {r.ptr : r \in held} = {b + 3 : b \in A}
    /\ \A r, s \in held : r.ptr = s.ptr => r = s
    /\ \A r \in held : r.words + 4 <= sz[r.ptr - 3]
    /\ \A r \in held : \A i \in r.ptr .. r.ptr + r.words - 1 : m[i] = r.ptr

\* The block of a client's region.
RegionIn(n, sz, A, r) ==
    /\ r.ptr - 3 \in A /\ r.ptr - 3 \in 1 .. n /\ r.ptr \in Nat /\ r.words \in Nat
    /\ (r.ptr - 3) + 3 = r.ptr /\ r = [ptr |-> r.ptr, words |-> r.words]
    /\ r.words + 4 <= sz[r.ptr - 3]
    /\ \A i \in r.ptr .. r.ptr + r.words - 1 :
          i \in r.ptr - 3 .. (r.ptr - 3) + sz[r.ptr - 3] - 1

\* Each region that is held lies in an allocated block, behind its links.
LEMMA BlockOfRegion ==
    ASSUME NEW n \in Nat, NEW sz, Tiles(sz, n), NEW A, A \subseteq DOMAIN sz, NEW m, NEW held,
           Clients(m, sz, A, held), NEW r \in held
    PROVE  RegionIn(n, sz, A, r)
<1>1. r.ptr \in Nat /\ r.words \in Nat /\ r = [ptr |-> r.ptr, words |-> r.words]
      /\ r.words + 4 <= sz[r.ptr - 3]
    BY DEF Clients
<1>2. r.ptr \in {s.ptr : s \in held}
    OBVIOUS
<1>3. PICK b \in A : r.ptr = b + 3
    BY <1>2 DEF Clients
<1>4. b \in 1 .. n /\ sz[b] \in Nat /\ b \in DOMAIN sz
    BY BlockBounds
<1>5. r.ptr - 3 = b
    BY <1>3, <1>4
<1> QED BY <1>1, <1>3, <1>4, <1>5 DEF RegionIn

\* What the heap does to other blocks does not concern a client.
LEMMA ClientsStay ==
    ASSUME NEW n \in Nat, NEW sz, Tiles(sz, n), NEW A, A \subseteq DOMAIN sz, NEW held, NEW h,
           Clients(h.mem, sz, A, held), NEW g, NEW sz2, Untouched(h, g, sz, sz2, A)
    PROVE  Clients(g.mem, sz2, A, held)
<1>1. ASSUME NEW r \in held
      PROVE  /\ r.words + 4 <= sz2[r.ptr - 3]
             /\ \A i \in r.ptr .. r.ptr + r.words - 1 : g.mem[i] = r.ptr
    <2>1. /\ r.ptr - 3 \in A /\ r.words + 4 <= sz[r.ptr - 3]
          /\ \A i \in r.ptr .. r.ptr + r.words - 1 :
                i \in r.ptr - 3 .. (r.ptr - 3) + sz[r.ptr - 3] - 1
        BY BlockOfRegion DEF RegionIn
    <2>2. /\ sz2[r.ptr - 3] = sz[r.ptr - 3]
          /\ \A i \in r.ptr - 3 .. (r.ptr - 3) + sz[r.ptr - 3] - 1 : g.mem[i] = h.mem[i]
        BY <2>1 DEF Untouched
    <2>3. \A i \in r.ptr .. r.ptr + r.words - 1 : h.mem[i] = r.ptr
        BY DEF Clients
    <2> QED BY <2>1, <2>2, <2>3
<1> QED BY <1>1 DEF Clients

\* A client that gives its region up leaves its block to no one.
LEMMA ClientLeaves ==
    ASSUME NEW n \in Nat, NEW sz, Tiles(sz, n), NEW A, A \subseteq DOMAIN sz, NEW m, NEW held,
           Clients(m, sz, A, held), NEW r \in held
    PROVE  Clients(m, sz, A \ {r.ptr - 3}, held \ {r})
<1> DEFINE own == r.ptr - 3
<1>1. ASSUME NEW s \in held PROVE s.ptr - 3 \in A /\ (s.ptr - 3) + 3 = s.ptr
    <2>1. PICK c \in A : s.ptr = c + 3
        <3>1. s.ptr \in {q.ptr : q \in held} /\ {q.ptr : q \in held} = {c + 3 : c \in A}
            BY DEF Clients
        <3>2. s.ptr \in {c + 3 : c \in A}
            BY <3>1
        <3> QED BY <3>2
    <2>2. c \in DOMAIN sz
        OBVIOUS
    <2>3. c \in Nat
        BY <2>2, BlockBounds
    <2> QED BY <2>1, <2>3
<1>2. own \in A /\ own + 3 = r.ptr
    BY <1>1
<1>3. \A c \in A : c \in Nat
    BY BlockBounds
<1>4. {s.ptr : s \in held \ {r}} = {c + 3 : c \in A \ {own}}
    <2>1. ASSUME NEW s \in held \ {r} PROVE s.ptr \in {c + 3 : c \in A \ {own}}
        <3>1. s \in held /\ s # r
            OBVIOUS
        <3>2. s.ptr - 3 \in A /\ (s.ptr - 3) + 3 = s.ptr
            BY <1>1, <3>1
        <3>3. s.ptr # r.ptr
            BY <3>1 DEF Clients
        <3>4. s.ptr - 3 # own
            BY <1>2, <3>2, <3>3
        <3> QED BY <3>2, <3>4
    <2>2. ASSUME NEW c \in A \ {own} PROVE c + 3 \in {s.ptr : s \in held \ {r}}
        <3>1. c + 3 \in {d + 3 : d \in A}
            OBVIOUS
        <3>2. PICK s \in held : s.ptr = c + 3
            BY <3>1 DEF Clients
        <3>3. s.ptr # r.ptr
            BY <1>2, <1>3, <3>2
        <3> QED BY <3>2, <3>3
    <2> QED BY <2>1, <2>2
<1> HIDE DEF own
<1>5. Clients(m, sz, A \ {own}, held \ {r})
    BY <1>4 DEF Clients
<1> QED BY <1>5 DEF own

\* What a client writes into its region.
LEMMA Concatenated ==
    ASSUME NEW s \in Seq(Nat), NEW t \in Seq(Nat)
    PROVE  /\ s \o t \in Seq(Nat) /\ Len(s \o t) = Len(s) + Len(t)
           /\ \A i \in 1 .. Len(s) + Len(t) :
                 (s \o t)[i] = IF i <= Len(s) THEN s[i] ELSE t[i - Len(s)]
OBVIOUS

FilledIn(m, m2, n, r, word) ==
    /\ m2 \in [1 .. n -> Nat]
    /\ \A i \in 1 .. n :
          m2[i] = IF i \in r.ptr .. r.ptr + r.words - 1 THEN word ELSE m[i]

\* A client's write changes the words of its region.
LEMMA FilledWords ==
    ASSUME NEW n \in Nat, NEW m \in [1 .. n -> Nat], NEW r, NEW word \in Nat,
           r.ptr \in Nat \ {0}, r.words \in Nat, r.ptr + r.words <= n + 1
    PROVE  FilledIn(m, Filled(m, r, word), n, r, word)
<1> DEFINE p == r.ptr
           w == r.words
           a == SubSeq(m, 1, p - 1)
           b == [i \in 1 .. w |-> word]
           c == SubSeq(m, p + w, n)
<1>1. p \in Nat /\ p > 0 /\ w \in Nat /\ p + w <= n + 1
    OBVIOUS
<1>2. Filled(m, r, word) = (a \o b) \o c
    <2>1. Len(m) = n
        OBVIOUS
    <2> QED BY <2>1 DEF Filled
<1> HIDE DEF p, w
<1>3. m \in Seq(Nat) /\ Len(m) = n
    OBVIOUS
<1>4. a \in Seq(Nat) /\ Len(a) = p - 1 /\ \A i \in 1 .. p - 1 : a[i] = m[i]
    BY <1>1, <1>3
<1>5. b \in Seq(Nat) /\ Len(b) = w /\ \A i \in 1 .. w : b[i] = word
    BY <1>1
<1>6. c \in Seq(Nat) /\ Len(c) = (n + 1) - (p + w)
      /\ \A i \in 1 .. (n + 1) - (p + w) : c[i] = m[i + ((p + w) - 1)]
    BY <1>1, <1>3
<1> HIDE DEF a, b, c
<1> DEFINE ab == a \o b
<1>7. ab \in Seq(Nat) /\ Len(ab) = (p - 1) + w
      /\ \A i \in 1 .. (p - 1) + w : ab[i] = IF i <= p - 1 THEN m[i] ELSE word
    <2>1. /\ ab \in Seq(Nat) /\ Len(ab) = Len(a) + Len(b)
          /\ \A i \in 1 .. Len(a) + Len(b) :
                ab[i] = IF i <= Len(a) THEN a[i] ELSE b[i - Len(a)]
        BY <1>4, <1>5, Concatenated
    <2> HIDE DEF ab
    <2>2. ASSUME NEW i \in 1 .. (p - 1) + w PROVE ab[i] = IF i <= p - 1 THEN m[i] ELSE word
        <3>1. CASE i <= p - 1
            BY <1>1, <1>4, <1>5, <2>1, <3>1
        <3>2. CASE i > p - 1
            <4>1. i - (p - 1) \in 1 .. w
                BY <1>1, <3>2
            <4> QED BY <1>1, <1>4, <1>5, <2>1, <3>2, <4>1
        <3> QED BY <1>1, <3>1, <3>2
    <2> QED BY <1>1, <1>4, <1>5, <2>1, <2>2
<1> HIDE DEF ab
<1> DEFINE abc == ab \o c
<1>8. /\ abc \in Seq(Nat) /\ Len(abc) = n
      /\ \A i \in 1 .. n : abc[i] = IF i <= (p - 1) + w THEN ab[i] ELSE c[i - ((p - 1) + w)]
    <2>1. /\ abc \in Seq(Nat) /\ Len(abc) = Len(ab) + Len(c)
          /\ \A i \in 1 .. Len(ab) + Len(c) :
                abc[i] = IF i <= Len(ab) THEN ab[i] ELSE c[i - Len(ab)]
        BY <1>6, <1>7, Concatenated
    <2> HIDE DEF abc
    <2>2. Len(ab) = (p - 1) + w /\ Len(ab) + Len(c) = n
        BY <1>1, <1>6, <1>7
    <2> QED BY <2>1, <2>2
<1> HIDE DEF abc
<1>9. ASSUME NEW i \in 1 .. n
      PROVE  abc[i] = IF i \in p .. p + w - 1 THEN word ELSE m[i]
    <2>1. CASE i <= (p - 1) + w
        <3>1. abc[i] = ab[i]
            BY <1>8, <2>1
        <3>2. i \in 1 .. (p - 1) + w
            BY <1>1, <2>1
        <3>3. ab[i] = IF i <= p - 1 THEN m[i] ELSE word
            BY <1>7, <3>2
        <3> QED BY <1>1, <2>1, <3>1, <3>3
    <2>2. CASE i > (p - 1) + w
        <3>1. abc[i] = c[i - ((p - 1) + w)]
            BY <1>1, <1>8, <2>2
        <3>2. /\ i - ((p - 1) + w) \in 1 .. (n + 1) - (p + w)
              /\ (i - ((p - 1) + w)) + ((p + w) - 1) = i
            BY <1>1, <2>2
        <3>3. c[i - ((p - 1) + w)] = m[i]
            BY <1>6, <3>2
        <3> QED BY <1>1, <2>2, <3>1, <3>3
    <2> QED BY <1>1, <2>1, <2>2
<1> HIDE DEF abc
<1>10. abc \in [1 .. n -> Nat]
    BY <1>8
<1>11. FilledIn(m, abc, n, r, word)
    BY <1>9, <1>10 DEF FilledIn, p, w
<1> QED BY <1>2, <1>11 DEF abc, ab

\* Writing into the payload of an allocated block leaves the heap as it is.
Written(h, g, n, r, word) ==
    /\ g \in Heaps(n) /\ g.head = h.head
    /\ \A i \in 1 .. n : g.mem[i] =
          IF i \in r.ptr .. r.ptr + r.words - 1 THEN word ELSE h.mem[i]

WrittenInto(h, g, n, sz, F, rank, b, r, word) ==
    /\ HeapIs(g, n, sz, F, rank) /\ Written(h, g, n, r, word)
    /\ Untouched(h, g, sz, sz, DOMAIN sz \ (F \cup {b}))

\* A client's write into its block leaves the heap and all other blocks as they are.
LEMMA PayloadWritten ==
    ASSUME NEW n \in Nat, NEW h, NEW sz, NEW F, NEW rank, HeapIs(h, n, sz, F, rank),
           NEW b \in DOMAIN sz \ F, NEW r, r.ptr = b + 3, r.words \in Nat,
           r.words + 4 <= sz[b], NEW word \in Nat
    PROVE  WrittenInto(h, [mem |-> Filled(h.mem, r, word), head |-> h.head],
                       n, sz, F, rank, b, r, word)
<1>1. /\ Shape(h, n, sz, F, F, rank) /\ Apart(sz, F)
      /\ h \in Heaps(n) /\ Tiles(sz, n) /\ F \subseteq DOMAIN sz /\ Tags(h.mem, sz, F)
      /\ Linked(h.mem, h.head, F, rank) /\ b \in DOMAIN sz
      /\ h.mem[b + 1] = NULL /\ h.mem[b + 2] = NULL
    BY DEF HeapIs, Shape
<1>2. b \in 1 .. n /\ sz[b] \in Nat /\ sz[b] >= 4 /\ b + sz[b] <= n + 1
    BY <1>1, BlockBounds
<1> DEFINE R == r.ptr .. r.ptr + r.words - 1
           g == [mem |-> Filled(h.mem, r, word), head |-> h.head]
<1>3. /\ R \subseteq 1 .. n /\ R \subseteq b .. b + sz[b] - 1
      /\ b \notin R /\ b + 1 \notin R /\ b + 2 \notin R /\ b + sz[b] - 1 \notin R
      /\ b + 1 \in 1 .. n /\ b + 2 \in 1 .. n /\ b + sz[b] - 1 \in 1 .. n
    BY <1>2
<1>4. /\ Filled(h.mem, r, word) \in [1 .. n -> Nat]
      /\ \A i \in 1 .. n : Filled(h.mem, r, word)[i] =
            IF i \in r.ptr .. r.ptr + r.words - 1 THEN word ELSE h.mem[i]
    <2>1. h.mem \in [1 .. n -> Nat]
        BY <1>1 DEF Heaps
    <2>2. r.ptr \in Nat \ {0} /\ r.ptr + r.words <= n + 1
        BY <1>2
    <2>3. FilledIn(h.mem, Filled(h.mem, r, word), n, r, word)
        BY <2>1, <2>2, FilledWords
    <2> QED BY <2>3 DEF FilledIn
<1>5. Written(h, g, n, r, word)
    BY <1>1, <1>4 DEF Heaps, Written
<1>6. /\ g \in Heaps(n) /\ g.head = h.head
      /\ \A i \in 1 .. n : g.mem[i] = IF i \in R THEN word ELSE h.mem[i]
    BY <1>5 DEF Written
<1> HIDE DEF R, g
<1>7. LayoutStep(h.mem, g.mem, n, sz, F, {b})
    BY <1>3, <1>6 DEF LayoutStep
<1>8. ListStep(h.mem, h.mem, n, sz, F, {b})
    BY DEF ListStep
<1>9. LaidOut(g.mem, sz, F, F, {b})
    BY <1>1, <1>2, <1>3, <1>6 DEF LaidOut, Tags
<1>10. Replaced(sz, sz, {b}, {b}) /\ SameBut(F, F, {b}, {b}) /\ F \subseteq F /\ n <= n
    BY <1>1 DEF Replaced, SameBut
<1>11. Linked(h.mem, g.head, F, rank)
    BY <1>1, <1>6
<1>12. Shape(g, n, sz, F, F, rank) /\ Untouched(h, g, sz, sz, DOMAIN sz \ ({b} \cup F))
    BY <1>1, <1>6, <1>7, <1>8, <1>9, <1>10, <1>11, Rebuilt
<1>13. {b} \cup F = F \cup {b}
    OBVIOUS
<1>14. WrittenInto(h, g, n, sz, F, rank, b, r, word)
    BY <1>1, <1>5, <1>12, <1>13 DEF HeapIs, WrittenInto
<1> QED BY <1>14 DEF g

-----------------------------------------------------------------------------
(* The inductive invariant *)

\* The memory is a heap of n words, and the clients hold its allocated blocks.
HeapHeld(h, n, sz, F, rank, held) ==
    HeapIs(h, n, sz, F, rank) /\ Clients(h.mem, sz, DOMAIN sz \ F, held)

\* The heap has k whole pages.
HeapOfPages(h, k, held) ==
    \E sz, F, rank : HeapHeld(h, k * WORDS_IN_PAGE, sz, F, rank, held)

HeapInv ==
    /\ faulted \in BOOLEAN
    /\ \E k \in 1 .. MAX_KERNEL_HEAP_SIZE : HeapOfPages(heap, k, live)

\* The sizes of pools are far below the allocated bit.
LEMMA PoolSize ==
    ASSUME NEW k \in 1 .. MAX_KERNEL_HEAP_SIZE
    PROVE  /\ k * WORDS_IN_PAGE \in Nat /\ k * WORDS_IN_PAGE >= WORDS_IN_PAGE
           /\ k * WORDS_IN_PAGE < ALLOCATED
           /\ (k * WORDS_IN_PAGE) \div WORDS_IN_PAGE = k
<1>1. /\ WORDS_IN_PAGE \in Nat \ {0} /\ MAX_KERNEL_HEAP_SIZE \in Nat /\ ALLOCATED \in Nat
      /\ ALLOCATED > MAX_KERNEL_HEAP_SIZE * WORDS_IN_PAGE
    BY HeapAssumption
<1>2. k \in Nat /\ k >= 1 /\ k <= MAX_KERNEL_HEAP_SIZE
    BY <1>1
<1>3. k * WORDS_IN_PAGE \in Nat /\ k * WORDS_IN_PAGE >= WORDS_IN_PAGE
      /\ k * WORDS_IN_PAGE <= MAX_KERNEL_HEAP_SIZE * WORDS_IN_PAGE
      /\ MAX_KERNEL_HEAP_SIZE * WORDS_IN_PAGE \in Nat
    BY <1>1, <1>2
<1>4. (k * WORDS_IN_PAGE) \div WORDS_IN_PAGE = k
    BY <1>1, <1>2, QuotientExact
<1> QED BY <1>1, <1>3, <1>4

\* The variables of a heap that is held, and what the code reads off its blocks.
HeapShown(n, sz, F) ==
    /\ mem \in [1 .. n -> Nat] /\ Len(mem) = n /\ End = n + 1 /\ head \in Nat
    /\ heap.mem = mem /\ heap.head = head /\ heap \in Heaps(n)
    /\ Tiles(sz, n) /\ F \subseteq DOMAIN sz
    /\ Clients(mem, sz, DOMAIN sz \ F, live)

BlocksShown(sz, F) ==
    \A b \in DOMAIN sz :
       /\ get_size(mem[b]) = sz[b] /\ Behind(b) = b + sz[b]
       /\ get_allocated_bit(mem[b]) <=> b \notin F
       /\ mem[b + sz[b] - 1] = mem[b]

\* The invariant, read in the variables.
LEMMA HeapVariables ==
    ASSUME NEW n \in Nat, n < ALLOCATED, NEW sz, NEW F, NEW rank,
           HeapHeld(heap, n, sz, F, rank, live)
    PROVE  HeapShown(n, sz, F) /\ BlocksShown(sz, F)
<1>1. heap.mem = mem /\ heap.head = head
    BY DEF heap
<1>2. heap \in Heaps(n) /\ Tiles(sz, n) /\ F \subseteq DOMAIN sz /\ Tags(heap.mem, sz, F)
      /\ Clients(mem, sz, DOMAIN sz \ F, live)
    BY <1>1 DEF HeapHeld, HeapIs, Shape
<1>3. mem \in [1 .. n -> Nat] /\ head \in Nat
    BY <1>1, <1>2 DEF Heaps
<1>4. Len(mem) = n
    BY <1>3
<1>5. End = n + 1
    BY <1>4 DEF End
<1>6. ASSUME NEW b \in DOMAIN sz
      PROVE  /\ get_size(mem[b]) = sz[b] /\ Behind(b) = b + sz[b]
             /\ get_allocated_bit(mem[b]) <=> b \notin F
             /\ mem[b + sz[b] - 1] = mem[b]
    <2>1. mem[b] = SizeWord(sz, F, b) /\ mem[b + sz[b] - 1] = SizeWord(sz, F, b)
        BY <1>1, <1>2 DEF Tags
    <2>2. get_size(SizeWord(sz, F, b)) = sz[b]
          /\ (get_allocated_bit(SizeWord(sz, F, b)) <=> b \notin F)
        BY <1>2, BlockWord
    <2> QED BY <2>1, <2>2 DEF Behind
<1>7. BlocksShown(sz, F)
    BY <1>6 DEF BlocksShown
<1> QED BY <1>1, <1>2, <1>3, <1>4, <1>5, <1>7 DEF HeapShown

\* A client gets the region r of a block that no one else holds, and writes to it.
LEMMA Handed ==
    ASSUME NEW n \in Nat, NEW h, NEW sz, NEW F, NEW rank, HeapIs(h, n, sz, F, rank),
           NEW b \in DOMAIN sz \ F, NEW others,
           Clients(h.mem, sz, (DOMAIN sz \ F) \ {b}, others),
           NEW w \in Nat, w + 4 <= sz[b], NEW r, r = [ptr |-> b + 3, words |-> w]
    PROVE  HeapHeld([mem |-> Filled(h.mem, r, r.ptr), head |-> h.head], n, sz, F, rank,
                    others \cup {r})
<1> DEFINE g == [mem |-> Filled(h.mem, r, r.ptr), head |-> h.head]
           A == DOMAIN sz \ F
<1>1. Tiles(sz, n)
    BY DEF HeapIs, Shape
<1>2. b \in Nat /\ r.ptr = b + 3 /\ r.words = w /\ r.ptr \in Nat
    BY <1>1, BlockBounds
<1>3. /\ g.head = h.head /\ g.mem = Filled(h.mem, r, r.ptr)
      /\ g = [mem |-> Filled(h.mem, r, r.ptr), head |-> h.head]
      /\ r.words \in Nat /\ r.words + 4 <= sz[b]
    BY <1>2
<1> HIDE DEF g
<1>4. /\ HeapIs(g, n, sz, F, rank) /\ Written(h, g, n, r, r.ptr)
      /\ Untouched(h, g, sz, sz, DOMAIN sz \ (F \cup {b}))
    <2>1. WrittenInto(h, g, n, sz, F, rank, b, r, r.ptr)
        BY <1>2, <1>3, PayloadWritten
    <2> QED BY <2>1 DEF WrittenInto
<1>5. DOMAIN sz \ (F \cup {b}) = A \ {b} /\ A \ {b} \subseteq DOMAIN sz
    OBVIOUS
<1>6. Clients(g.mem, sz, A \ {b}, others)
    BY <1>1, <1>4, <1>5, ClientsStay
<1>7. \A i \in r.ptr .. r.ptr + r.words - 1 : g.mem[i] = r.ptr
    <2>1. b + sz[b] <= n + 1 /\ sz[b] \in Nat /\ b > 0
        BY <1>1, BlockBounds
    <2>2. \A i \in r.ptr .. r.ptr + r.words - 1 : i \in 1 .. n
        BY <1>2, <2>1
    <2> QED BY <1>4, <2>2 DEF Written
<1>8. /\ others \subseteq [ptr : Nat, words : Nat]
      /\ {q.ptr : q \in others} = {c + 3 : c \in A \ {b}}
      /\ \A q, s \in others : q.ptr = s.ptr => q = s
      /\ \A q \in others : q.words + 4 <= sz[q.ptr - 3]
      /\ \A q \in others : \A i \in q.ptr .. q.ptr + q.words - 1 : g.mem[i] = q.ptr
    BY <1>6 DEF Clients
<1>9. r \in [ptr : Nat, words : Nat] /\ r.ptr - 3 = b /\ b \in A
    BY <1>2
<1>10. \A q \in others : q.ptr # r.ptr
    <2> SUFFICES ASSUME NEW q \in others, q.ptr = b + 3 PROVE FALSE
        BY <1>2
    <2> HIDE DEF A
    <2>1. q.ptr \in {p.ptr : p \in others}
        OBVIOUS
    <2>2. PICK c \in A \ {b} : q.ptr = c + 3
        BY <1>8, <2>1
    <2>4. c \in DOMAIN sz
        BY <1>5
    <2>3. c \in Nat
        BY <1>1, <2>4, BlockBounds
    <2> QED BY <1>2, <2>2, <2>3
<1>11. {q.ptr : q \in others \cup {r}} = {c + 3 : c \in A}
    <2>1. {q.ptr : q \in others \cup {r}} = {q.ptr : q \in others} \cup {r.ptr}
        OBVIOUS
    <2>2. {c + 3 : c \in A} = {c + 3 : c \in A \ {b}} \cup {b + 3}
        BY <1>9
    <2> QED BY <1>2, <1>8, <2>1, <2>2
<1> HIDE DEF A
<1>12. \A q, s \in others \cup {r} : q.ptr = s.ptr => q = s
    BY <1>8, <1>10
<1>13. \A q \in others \cup {r} : /\ q.words + 4 <= sz[q.ptr - 3]
                                  /\ \A i \in q.ptr .. q.ptr + q.words - 1 : g.mem[i] = q.ptr
    BY <1>2, <1>7, <1>8, <1>9
<1>14. others \cup {r} \subseteq [ptr : Nat, words : Nat]
    BY <1>8, <1>9
<1>15. Clients(g.mem, sz, A, others \cup {r})
    BY <1>11, <1>12, <1>13, <1>14 DEF Clients
<1>16. HeapHeld(g, n, sz, F, rank, others \cup {r})
    BY <1>4, <1>15 DEF HeapHeld, A
<1> QED BY <1>16 DEF g

-----------------------------------------------------------------------------
(* What the operations do to the blocks and to what clients hold *)

SameSizes(sz, sz2, A) == \A c \in A : sz2[c] = sz[c]

\* What is allocated stays.
NothingGiven(sz, F, held, sz2, F2, held2) ==
    /\ DOMAIN sz2 \ F2 = DOMAIN sz \ F /\ SameSizes(sz, sz2, DOMAIN sz \ F)
    /\ held2 = held

\* One more block is allocated, with a region for one more client.
Given(sz, F, held, sz2, F2, held2) ==
    \E b \in DOMAIN sz2 \ F2, w \in Nat :
       /\ b \notin DOMAIN sz \ F /\ DOMAIN sz2 \ F2 = (DOMAIN sz \ F) \cup {b}
       /\ SameSizes(sz, sz2, DOMAIN sz \ F)
       /\ w + 4 <= sz2[b] /\ held2 = held \cup {[ptr |-> b + 3, words |-> w]}

\* The block of a client is free again.
TakenBack(sz, F, held, sz2, F2, held2, r) ==
    /\ DOMAIN sz2 \ F2 = (DOMAIN sz \ F) \ {r.ptr - 3}
    /\ SameSizes(sz, sz2, (DOMAIN sz \ F) \ {r.ptr - 3})
    /\ held2 = held \ {r}

\* The block of a client stays or gets smaller, and its region is another one.
Cut(sz, F, held, sz2, F2, held2, r) ==
    \E w \in Nat :
       /\ DOMAIN sz2 \ F2 = DOMAIN sz \ F
       /\ SameSizes(sz, sz2, (DOMAIN sz \ F) \ {r.ptr - 3})
       /\ w + 4 <= sz2[r.ptr - 3] /\ sz2[r.ptr - 3] <= sz[r.ptr - 3]
       /\ held2 = (held \ {r}) \cup {[ptr |-> r.ptr, words |-> w]}

\* The words that a call asks for.
LEMMA WordsAreNatural ==
    ASSUME NEW size \in Nat
    PROVE  bytes_to_words(size) \in Nat
<1>1. size \div BYTES_IN_WORD \in Nat
    BY HeapAssumption, QuotientType
<1> QED BY <1>1 DEF bytes_to_words

\* kmalloc leaves a heap with one more region, or with the same ones.
LEMMA KmallocGives ==
    ASSUME NEW k0 \in 1 .. MAX_KERNEL_HEAP_SIZE, NEW sz, NEW F, NEW rank,
           HeapHeld(heap, k0 * WORDS_IN_PAGE, sz, F, rank, live),
           NEW size \in Nat, kmalloc(size)
    PROVE  /\ faulted' = faulted
           /\ \E k1 \in 1 .. MAX_KERNEL_HEAP_SIZE : \E sz2, F2, rank2 :
                 /\ HeapHeld(heap', k1 * WORDS_IN_PAGE, sz2, F2, rank2, live')
                 /\ \/ NothingGiven(sz, F, live, sz2, F2, live')
                    \/ Given(sz, F, live, sz2, F2, live')
<1> DEFINE n == k0 * WORDS_IN_PAGE
           limit == PagesLeft
           words == bytes_to_words(size) + 4
           pool == Pool(heap, limit)
<1>1. /\ n \in Nat /\ n < ALLOCATED /\ n \div WORDS_IN_PAGE = k0
      /\ HeapIs(heap, n, sz, F, rank) /\ Tiles(sz, n)
    BY PoolSize DEF HeapHeld, HeapIs, Shape
<1>2. Len(mem) = n /\ Clients(heap.mem, sz, DOMAIN sz \ F, live)
    BY <1>1, HeapVariables DEF HeapShown, BlocksShown, HeapHeld
<1>3. limit = MAX_KERNEL_HEAP_SIZE - k0
    <2> HIDE DEF n
    <2> QED BY <1>1, <1>2 DEF PagesLeft
<1>4. /\ WORDS_IN_PAGE \in Nat /\ MAX_KERNEL_HEAP_SIZE \in Nat /\ ALLOCATED \in Nat
      /\ MAX_KERNEL_HEAP_SIZE * WORDS_IN_PAGE < ALLOCATED
    BY HeapAssumption
<1>5. words \in Nat /\ words >= 4 /\ words - 4 \in Nat /\ (words - 4) + 4 = words
    BY WordsAreNatural
<1> HIDE DEF n, limit, words, pool
<1>6. PICK k \in 0 .. limit :
           LET b == FirstFit(pool[k], words)
               h == allocate_block(pool[k], words, b)
           IN IF b = NULL THEN Becomes(pool[k]) /\ UNCHANGED live
              ELSE Hands(h, [ptr |-> b + 3, words |-> words - 4], live)
    BY DEF kmalloc, limit, words, pool
<1>7. limit \in Nat /\ n + limit * WORDS_IN_PAGE < ALLOCATED /\ k0 + k \in 1 .. MAX_KERNEL_HEAP_SIZE
      /\ n + k * WORDS_IN_PAGE = (k0 + k) * WORDS_IN_PAGE
    <2>1. limit \in Nat /\ k0 \in Nat /\ k \in Nat /\ k0 + limit = MAX_KERNEL_HEAP_SIZE
          /\ k0 + k \in 1 .. MAX_KERNEL_HEAP_SIZE
        BY <1>3, <1>4
    <2>2. \A i \in Nat : n + i * WORDS_IN_PAGE = (k0 + i) * WORDS_IN_PAGE
        BY <1>4, <2>1 DEF n
    <2> QED BY <1>4, <2>1, <2>2
<1> DEFINE n2 == (k0 + k) * WORDS_IN_PAGE
           p == pool[k]
           b == FirstFit(p, words)
<1>8. n2 \in Nat /\ n2 < ALLOCATED
    BY <1>7, PoolSize
<1>9. PICK sz1, F1, rank1 :
           /\ HeapIs(p, n2, sz1, F1, rank1)
           /\ DOMAIN sz1 \ F1 = DOMAIN sz \ F
           /\ Untouched(heap, p, sz, sz1, DOMAIN sz \ F)
    <2>1. GrownBy(heap, p, n, sz, F, k)
        BY <1>1, <1>7, PoolIsGrown DEF pool
    <2> QED BY <1>7, <2>1 DEF GrownBy
<1> HIDE DEF n2, p
<1>10. p \in Heaps(n2) /\ Tiles(sz1, n2) /\ F1 \subseteq DOMAIN sz1
    BY <1>9 DEF HeapIs, Shape
<1>11. DOMAIN sz \ F \subseteq DOMAIN sz /\ DOMAIN sz1 \ F1 \subseteq DOMAIN sz1
    OBVIOUS
<1>12. Clients(p.mem, sz1, DOMAIN sz1 \ F1, live)
    <2>1. Clients(p.mem, sz1, DOMAIN sz \ F, live)
        BY <1>1, <1>2, <1>9, <1>11, ClientsStay
    <2> QED BY <1>9, <2>1
<1>13. b = NULL \/ (b \in F1 /\ sz1[b] >= words)
    BY <1>5, <1>8, <1>9, FirstFitFits
<1>14. faulted' = faulted
    BY DEF kmalloc
<1> HIDE DEF b
<1>15. CASE b = NULL
    <2>1. Becomes(p) /\ live' = live
        BY <1>6, <1>15 DEF p, b
    <2>2. heap' = p
        BY <1>10, <2>1 DEF heap, Becomes, Heaps
    <2>3. HeapHeld(heap', n2, sz1, F1, rank1, live')
        BY <1>9, <1>12, <2>1, <2>2 DEF HeapHeld
    <2>4. NothingGiven(sz, F, live, sz1, F1, live')
        BY <1>9, <2>1 DEF NothingGiven, SameSizes, Untouched
    <2> QED BY <1>7, <1>14, <2>3, <2>4 DEF n2
<1>16. CASE b # NULL
    <2> DEFINE h == allocate_block(p, words, b)
               r == [ptr |-> b + 3, words |-> words - 4]
    <2>1. b \in F1 /\ sz1[b] >= words
        BY <1>13, <1>16
    <2>2. Hands(h, r, live)
        BY <1>6, <1>16 DEF p, b
    <2>3. Allocates(p, h, n2, sz1, F1, b, words)
        BY <1>5, <1>8, <1>9, <2>1, BlockAllocated
    <2> HIDE DEF h
    <2>4. PICK sz2, F2, rank2 :
             /\ HeapIs(h, n2, sz2, F2, rank2)
             /\ b \in DOMAIN sz2 \ F2 /\ sz2[b] >= words
             /\ DOMAIN sz2 \ F2 = (DOMAIN sz1 \ F1) \cup {b}
             /\ Untouched(p, h, sz1, sz2, DOMAIN sz1 \ F1)
        BY <2>3 DEF Allocates
    <2>5. b \notin DOMAIN sz1 \ F1 /\ (DOMAIN sz2 \ F2) \ {b} = DOMAIN sz1 \ F1
        BY <2>1, <2>4
    <2>6. Clients(h.mem, sz2, (DOMAIN sz2 \ F2) \ {b}, live)
        <3>1. Clients(h.mem, sz2, DOMAIN sz1 \ F1, live)
            BY <1>8, <1>10, <1>11, <1>12, <2>4, ClientsStay
        <3> QED BY <2>5, <3>1
    <2>7. (words - 4) + 4 <= sz2[b]
        BY <1>5, <2>4
    <2> HIDE DEF r
    <2>8. HeapHeld([mem |-> Filled(h.mem, r, r.ptr), head |-> h.head], n2, sz2, F2, rank2,
                   live \cup {r})
        BY <1>5, <1>8, <2>4, <2>6, <2>7, Handed DEF r
    <2>9. heap' = [mem |-> Filled(h.mem, r, r.ptr), head |-> h.head] /\ live' = live \cup {r}
        BY <2>2 DEF heap, Hands
    <2>10. SameSizes(sz, sz2, DOMAIN sz \ F)
        BY <1>9, <2>4 DEF SameSizes, Untouched
    <2>11. Given(sz, F, live, sz2, F2, live')
        BY <1>5, <1>9, <2>4, <2>5, <2>7, <2>9, <2>10 DEF Given, r
    <2> QED BY <1>7, <1>14, <2>8, <2>9, <2>11 DEF n2
<1> QED BY <1>15, <1>16

\* A client has cleared the region that it gives back.
GivenUp(h, n, sz, F, rank, r) ==
    /\ HeapIs(h, n, sz, F, rank) /\ h.head = head
    /\ Clients(h.mem, sz, (DOMAIN sz \ F) \ {r.ptr - 3}, live \ {r})
    /\ \A i \in 1 .. n : i \notin r.ptr - 3 .. (r.ptr - 3) + sz[r.ptr - 3] - 1 => h.mem[i] = mem[i]

\* Before it is freed, a block can be taken from its client.
LEMMA RegionGivenUp ==
    ASSUME NEW n \in Nat, n < ALLOCATED, NEW sz, NEW F, NEW rank,
           HeapHeld(heap, n, sz, F, rank, live), NEW r \in live
    PROVE  /\ GivenUp(Cleared(r), n, sz, F, rank, r)
           /\ r.ptr - 3 \in DOMAIN sz \ F
<1> DEFINE own == r.ptr - 3
           h == Cleared(r)
           A == DOMAIN sz \ F
<1>1. /\ Tiles(sz, n) /\ Clients(mem, sz, A, live) /\ HeapIs(heap, n, sz, F, rank)
      /\ heap.mem = mem /\ heap.head = head
    BY HeapVariables DEF HeapShown, BlocksShown, HeapHeld
<1>2. A \subseteq DOMAIN sz
    OBVIOUS
<1> HIDE DEF A
<1>3. /\ own \in A /\ own \in 1 .. n /\ r.ptr \in Nat /\ r.words \in Nat
      /\ own + 3 = r.ptr /\ r.words + 4 <= sz[own]
      /\ \A i \in r.ptr .. r.ptr + r.words - 1 : i \in own .. own + sz[own] - 1
    BY <1>1, <1>2, BlockOfRegion DEF RegionIn
<1>4. Clients(mem, sz, A \ {own}, live \ {r})
    BY <1>1, <1>2, ClientLeaves
<1> HIDE DEF own
<1>5. own \in DOMAIN sz \ F
    BY <1>3 DEF A
<1>6. r.ptr = own + 3 /\ 0 \in Nat
    BY <1>3
<1>7. WrittenInto(heap, [mem |-> Filled(heap.mem, r, 0), head |-> heap.head],
                  n, sz, F, rank, own, r, 0)
    BY <1>1, <1>3, <1>5, <1>6, PayloadWritten
<1>8. h = [mem |-> Filled(heap.mem, r, 0), head |-> heap.head]
    BY <1>1 DEF Cleared
<1> HIDE DEF h
<1>9. /\ HeapIs(h, n, sz, F, rank) /\ Written(heap, h, n, r, 0)
      /\ Untouched(heap, h, sz, sz, DOMAIN sz \ (F \cup {own}))
    BY <1>7, <1>8 DEF WrittenInto
<1>10. Clients(h.mem, sz, A \ {own}, live \ {r})
    <2>1. DOMAIN sz \ (F \cup {own}) = A \ {own} /\ A \ {own} \subseteq DOMAIN sz
        BY DEF A
    <2>2. Clients(heap.mem, sz, A \ {own}, live \ {r})
        BY <1>1, <1>4
    <2> QED BY <1>1, <1>9, <2>1, <2>2, ClientsStay
<1>11. \A i \in 1 .. n : i \notin own .. own + sz[own] - 1 => h.mem[i] = mem[i]
    BY <1>1, <1>3, <1>9 DEF Written
<1>12. h.head = head
    BY <1>1, <1>9 DEF Written
<1> QED BY <1>5, <1>9, <1>10, <1>11, <1>12 DEF GivenUp, h, own, A

\* A call that the machine does not return from.
Faulted == faulted' = TRUE /\ mem' = mem /\ head' = head /\ live' = live

\* kfree leaves a heap with one region less, or faults.
LEMMA KfreeTakes ==
    ASSUME NEW n \in Nat, n < ALLOCATED, NEW sz, NEW F, NEW rank,
           HeapHeld(heap, n, sz, F, rank, live), NEW r \in live, kfree(r)
    PROVE  \/ Faulted
           \/ /\ faulted' = faulted
              /\ \E sz2, F2, rank2 : /\ HeapHeld(heap', n, sz2, F2, rank2, live')
                                     /\ TakenBack(sz, F, live, sz2, F2, live', r)
<1> DEFINE own == BlockOf(r.ptr)
           h == Cleared(r)
           g == Freed(h, own)
<1>1. own = r.ptr - 3
    BY DEF BlockOf
<1> HIDE DEF own
<1>2. GivenUp(h, n, sz, F, rank, r) /\ own \in DOMAIN sz \ F
    BY <1>1, RegionGivenUp
<1>3. Behind(own) = own + sz[own] /\ End = n + 1 /\ Tiles(sz, n)
    <2>1. HeapShown(n, sz, F) /\ BlocksShown(sz, F)
        BY Zenon, HeapVariables
    <2>2. own \in DOMAIN sz
        BY Zenon, <1>2
    <2>3. Behind(own) = own + sz[own]
        BY Zenon, <2>1, <2>2 DEF BlocksShown
    <2> QED BY Zenon, <2>1, <2>3 DEF HeapShown
<1>4. CASE own + sz[own] = n + 1
    <2>1. Faulted
        BY <1>3, <1>4 DEF kfree, Fault, Faulted, own
    <2> QED BY <2>1
<1>5. CASE own + sz[own] # n + 1
    <2>1. Becomes(g) /\ live' = live \ {r} /\ faulted' = faulted
        BY <1>3, <1>5 DEF kfree, own
    <2> HIDE DEF h
    <2>2. HeapIs(h, n, sz, F, rank) /\ Clients(h.mem, sz, (DOMAIN sz \ F) \ {own}, live \ {r})
        BY <1>1, <1>2 DEF GivenUp
    <2>3. Frees(h, g, n, sz, F, own)
        BY <1>2, <1>5, <2>2, FreedFrees
    <2> HIDE DEF g
    <2>4. PICK sz2, F2, rank2 :
             /\ HeapIs(g, n, sz2, F2, rank2)
             /\ DOMAIN sz2 \ F2 = DOMAIN sz \ (F \cup {own})
             /\ Untouched(h, g, sz, sz2, DOMAIN sz \ (F \cup {own}))
        BY <2>3 DEF Frees
    <2>5. DOMAIN sz \ (F \cup {own}) = (DOMAIN sz \ F) \ {own}
          /\ (DOMAIN sz \ F) \ {own} \subseteq DOMAIN sz
        OBVIOUS
    <2>6. Clients(g.mem, sz2, (DOMAIN sz \ F) \ {own}, live \ {r})
        BY <1>3, <2>2, <2>4, <2>5, ClientsStay
    <2>7. heap' = g
        <3>1. g \in Heaps(n)
            BY <2>4 DEF HeapIs, Shape
        <3> QED BY <2>1, <3>1 DEF heap, Becomes, Heaps
    <2>8. HeapHeld(heap', n, sz2, F2, rank2, live')
        BY <2>1, <2>4, <2>5, <2>6, <2>7 DEF HeapHeld
    <2>9. TakenBack(sz, F, live, sz2, F2, live', r)
        BY <1>1, <2>1, <2>4, <2>5 DEF TakenBack, SameSizes, Untouched
    <2> QED BY <2>1, <2>8, <2>9
<1> QED BY <1>4, <1>5

\* A client gets the same block with a smaller region.
LEMMA ResizedCuts ==
    ASSUME NEW n \in Nat, n < ALLOCATED, NEW sz, NEW F, NEW rank,
           HeapHeld(heap, n, sz, F, rank, live), NEW r \in live,
           NEW h, GivenUp(h, n, sz, F, rank, r), NEW words \in Nat, words >= 4,
           NEW g, NEW sz2, NEW F2, NEW rank2, HeapIs(g, n, sz2, F2, rank2),
           DOMAIN sz2 \ F2 = DOMAIN sz \ F,
           words <= sz2[r.ptr - 3], sz2[r.ptr - 3] <= sz[r.ptr - 3],
           Untouched(h, g, sz, sz2, DOMAIN sz \ (F \cup {r.ptr - 3})),
           Hands(g, [ptr |-> r.ptr, words |-> words - 4], live \ {r})
    PROVE  \E sz3, F3, rank3 : /\ HeapHeld(heap', n, sz3, F3, rank3, live')
                               /\ Cut(sz, F, live, sz3, F3, live', r)
<1> DEFINE own == r.ptr - 3
           s == [ptr |-> r.ptr, words |-> words - 4]
<1>1. own \in DOMAIN sz \ F
    BY RegionGivenUp
<1>2. Tiles(sz, n) /\ Clients(h.mem, sz, (DOMAIN sz \ F) \ {own}, live \ {r})
    BY HeapVariables DEF HeapShown, BlocksShown, GivenUp
<1>3. own + 3 = r.ptr /\ words - 4 \in Nat /\ (words - 4) + 4 = words
    <2>1. DOMAIN sz \ F \subseteq DOMAIN sz /\ Clients(mem, sz, DOMAIN sz \ F, live)
        BY HeapVariables DEF HeapShown, BlocksShown
    <2>2. own + 3 = r.ptr
        BY <1>2, <2>1, BlockOfRegion DEF RegionIn
    <2> QED BY <2>2
<1>4. /\ own \in DOMAIN sz2 \ F2 /\ words <= sz2[own] /\ sz2[own] <= sz[own]
      /\ Untouched(h, g, sz, sz2, DOMAIN sz \ (F \cup {own})) /\ Hands(g, s, live \ {r})
    BY <1>1
<1> HIDE DEF own
<1>5. DOMAIN sz \ (F \cup {own}) = (DOMAIN sz \ F) \ {own}
      /\ (DOMAIN sz \ F) \ {own} \subseteq DOMAIN sz
    OBVIOUS
<1>6. Clients(g.mem, sz2, (DOMAIN sz2 \ F2) \ {own}, live \ {r})
    <2>1. Clients(g.mem, sz2, (DOMAIN sz \ F) \ {own}, live \ {r})
        BY <1>2, <1>4, <1>5, ClientsStay
    <2> QED BY <2>1
<1>7. s = [ptr |-> own + 3, words |-> words - 4] /\ (words - 4) + 4 <= sz2[own]
    BY <1>3, <1>4
<1> HIDE DEF s
<1>8. HeapHeld([mem |-> Filled(g.mem, s, s.ptr), head |-> g.head], n, sz2, F2, rank2,
               (live \ {r}) \cup {s})
    BY <1>3, <1>4, <1>6, <1>7, Handed
<1>9. heap' = [mem |-> Filled(g.mem, s, s.ptr), head |-> g.head] /\ live' = (live \ {r}) \cup {s}
    BY <1>4 DEF heap, Hands
<1>10. SameSizes(sz, sz2, (DOMAIN sz \ F) \ {own})
    BY <1>4, <1>5 DEF SameSizes, Untouched
<1>11. Cut(sz, F, live, sz2, F2, live', r)
    BY <1>3, <1>4, <1>7, <1>9, <1>10 DEF Cut, s, own
<1> QED BY <1>8, <1>9, <1>11

\* krealloc leaves a heap in which one region is smaller or stays, or faults.
LEMMA KreallocCuts ==
    ASSUME AnyShrink = FALSE, NEW n \in Nat, n < ALLOCATED, NEW sz, NEW F, NEW rank,
           HeapHeld(heap, n, sz, F, rank, live), NEW r \in live,
           NEW new_size \in Nat, krealloc(r, new_size)
    PROVE  \/ Faulted
           \/ /\ faulted' = faulted
              /\ \E sz2, F2, rank2 : /\ HeapHeld(heap', n, sz2, F2, rank2, live')
                                     /\ Cut(sz, F, live, sz2, F2, live', r)
<1> DEFINE b == r.ptr - 3
           words == bytes_to_words(new_size) + 4
           gone == sz[b] - words
           c == b + sz[b]
           h == Cleared(r)
           s == [ptr |-> r.ptr, words |-> words - 4]
           Result == \E sz2, F2, rank2 : /\ HeapHeld(heap', n, sz2, F2, rank2, live')
                                         /\ Cut(sz, F, live, sz2, F2, live', r)
<1>1. GivenUp(h, n, sz, F, rank, r) /\ b \in DOMAIN sz \ F
    BY RegionGivenUp
<1>2. /\ b \in DOMAIN sz /\ b \in 1 .. n /\ sz[b] \in Nat /\ sz[b] >= 4 /\ c <= n + 1
      /\ c # n + 1 => c \in DOMAIN sz
    <2>1. Tiles(sz, n) /\ b \in DOMAIN sz
        BY <1>1, HeapVariables DEF HeapShown, BlocksShown
    <2> HIDE DEF b
    <2> QED BY <2>1, BlockBounds
<1>3. /\ get_size(mem[b]) = sz[b] /\ Behind(b) = c /\ End = n + 1 /\ Tiles(sz, n)
      /\ F \subseteq DOMAIN sz /\ mem \in [1 .. n -> Nat]
      /\ \A d \in DOMAIN sz : get_allocated_bit(mem[d]) <=> d \notin F
    <2> HIDE DEF b
    <2>1. HeapShown(n, sz, F) /\ BlocksShown(sz, F)
        BY HeapVariables
    <2> QED BY <1>1, <2>1 DEF HeapShown, BlocksShown
<1>4. words \in Nat /\ words >= 4
    BY WordsAreNatural
<1>5. 2 * MIN_BLOCK_SIZE \in Nat /\ 2 * MIN_BLOCK_SIZE >= 4
    BY HeapAssumption
<1> DEFINE split == gone > 2 * MIN_BLOCK_SIZE
           intoNext == c < n + 1 /\ ~get_allocated_bit(mem[c])
           onlyFree == mem[c + 1] = NULL /\ mem[c + 2] = NULL
<1> HIDE DEF h
<1>6. \/ Faulted
      \/ words <= sz[b] /\ faulted' = faulted /\ Hands(h, s, live \ {r})
      \/ /\ split /\ intoNext /\ onlyFree /\ faulted' = faulted
         /\ Hands(ShrunkIntoNext(h, b, gone), s, live \ {r})
      \/ /\ split /\ ~intoNext /\ faulted' = faulted
         /\ Hands(ShrunkBySplit(h, b, gone), s, live \ {r})
    <2>1. BlockOf(r.ptr) = b
        BY DEF BlockOf
    <2>2. Prev(heap, c) = mem[c + 1] /\ NextOf(heap, c) = mem[c + 2]
        BY DEF heap, Prev, NextOf
    <2> HIDE DEF b, c, words, s
    <2> QED BY <1>3, <2>1, <2>2 DEF krealloc, Fault, Faulted, h, s, words
<1>7. /\ HeapIs(h, n, sz, F, rank)
      /\ \A i \in 1 .. n : i \notin b .. b + sz[b] - 1 => h.mem[i] = mem[i]
    BY <1>1 DEF GivenUp
<1> HIDE DEF words, Result
<1>8. ASSUME words <= sz[b], Hands(h, s, live \ {r})
      PROVE  Result
    <2>1. Untouched(h, h, sz, sz, DOMAIN sz \ (F \cup {b}))
        BY DEF Untouched
    <2>2. sz[b] <= sz[b]
        BY <1>2
    <2> QED BY <1>1, <1>4, <1>7, <1>8, <2>1, <2>2, ResizedCuts DEF Result
<1>9. ASSUME split PROVE gone >= 4 /\ words <= sz[b] /\ gone \in Nat
    BY <1>2, <1>4, <1>5, <1>9
<1>10. ASSUME NEW g, Shrinks(h, g, n, sz, F, b, words), words <= sz[b],
              Hands(g, s, live \ {r})
       PROVE  Result
    <2>1. PICK sz2, F2, rank2 :
             /\ HeapIs(g, n, sz2, F2, rank2)
             /\ DOMAIN sz2 \ F2 = DOMAIN sz \ F /\ sz2[b] = words
             /\ Untouched(h, g, sz, sz2, DOMAIN sz \ (F \cup {b}))
        BY <1>10 DEF Shrinks
    <2>2. words <= sz2[b] /\ sz2[b] <= sz[b]
        BY <1>4, <1>10, <2>1
    <2> QED BY <1>1, <1>4, <1>10, <2>1, <2>2, ResizedCuts DEF Result
<1>11. ASSUME split, intoNext, onlyFree, Hands(ShrunkIntoNext(h, b, gone), s, live \ {r})
       PROVE  Result
    <2>1. c \in F /\ c = b + sz[b]
        <3> HIDE DEF b
        <3>1. c < n + 1 /\ ~get_allocated_bit(mem[c]) /\ c \in DOMAIN sz
            BY <1>2, <1>11
        <3>2. c \in F
            <4> HIDE DEF c
            <4> QED BY <1>3, <3>1
        <3> QED BY <3>2
    <2>2. h.mem[c + 1] = NULL /\ h.mem[c + 2] = NULL
        <3>1. c + 1 \in 1 .. n /\ c + 2 \in 1 .. n
            BY <1>3, <2>1, BlockBounds
        <3>2. c + 1 \notin b .. b + sz[b] - 1 /\ c + 2 \notin b .. b + sz[b] - 1
            BY <1>2
        <3> QED BY <1>7, <1>11, <3>1, <3>2
    <2>3. gone >= 4 /\ words <= sz[b] /\ gone = sz[b] - words
        BY <1>9, <1>11
    <2> HIDE DEF c, gone, b
    <2>4. Shrinks(h, ShrunkIntoNext(h, b, gone), n, sz, F, b, words)
        BY <1>1, <1>4, <1>7, <2>1, <2>2, <2>3, ShrunkIntoNextShrinks
    <2> QED BY <1>10, <1>11, <2>3, <2>4
<1>12. ASSUME split, ~intoNext, Hands(ShrunkBySplit(h, b, gone), s, live \ {r})
       PROVE  Result
    <2>1. b + sz[b] \notin F
        <3>1. CASE c = n + 1
            BY <1>3, <3>1 DEF Tiles
        <3>2. ASSUME c # n + 1 PROVE c \notin F
            <4>1. c \in DOMAIN sz /\ c \in 1 .. n
                <5>1. c \in DOMAIN sz
                    BY <1>2, <3>2
                <5> HIDE DEF c
                <5> QED BY <1>3, <5>1, BlockBounds
            <4>2. c < n + 1
                BY <4>1
            <4>3. get_allocated_bit(mem[c])
                BY <1>12, <4>2
            <4> HIDE DEF c
            <4> QED BY <1>3, <4>1, <4>3
        <3> QED BY <3>1, <3>2
    <2>2. gone >= 4 /\ words <= sz[b] /\ gone = sz[b] - words
        BY <1>9, <1>12
    <2> HIDE DEF c, gone, b
    <2>3. Shrinks(h, ShrunkBySplit(h, b, gone), n, sz, F, b, words)
        BY <1>1, <1>4, <1>7, <2>1, <2>2, ShrunkBySplitShrinks
    <2> QED BY <1>10, <1>12, <2>2, <2>3
<1> HIDE DEF b, c, h, s
<1> QED BY <1>6, <1>8, <1>9, <1>11, <1>12 DEF Result

-----------------------------------------------------------------------------
(* The invariant is inductive *)

\* The first page is a heap of one free block.
LEMMA InitHeap ==
    ASSUME Init
    PROVE  HeapInv
<1> DEFINE n == WORDS_IN_PAGE
           sz == [b \in {1} |-> n]
           F == {1}
           rank == [f \in {1} |-> 0]
<1>1. n \in Nat /\ n >= 4 /\ 1 * n = n /\ 1 \in 1 .. MAX_KERNEL_HEAP_SIZE
    BY HeapAssumption
<1>2. mem = [i \in 1 .. n |-> IF i \in {1, n} THEN n ELSE 0] /\ head = 1 /\ live = {}
      /\ faulted = FALSE
    BY DEF Init
<1>3. heap.mem = mem /\ heap.head = 1
    BY <1>2 DEF heap
<1> HIDE DEF n
<1>4. mem \in [1 .. n -> Nat] /\ mem[1] = n /\ mem[n] = n /\ mem[2] = 0 /\ mem[3] = 0
    BY <1>1, <1>2
<1>5. heap \in Heaps(n)
    <2>1. heap = [mem |-> mem, head |-> head] /\ head \in Nat
        BY <1>2 DEF heap
    <2> QED BY <1>4, <2>1, HeapOf
<1>6. DOMAIN sz = {1} /\ sz[1] = n /\ 1 + n - 1 = n /\ 1 + n = n + 1
    BY <1>1
<1> HIDE DEF sz
<1>7. Tiles(sz, n)
    BY <1>1, <1>6 DEF Tiles
<1>8. Tags(mem, sz, F)
    BY <1>4, <1>6 DEF Tags, SizeWord
<1>9. Linked(mem, 1, F, rank)
    <2>1. rank \in [F -> Nat]
        OBVIOUS
    <2>2. mem[1 + 1] = NULL /\ mem[1 + 2] = NULL
        BY <1>4 DEF NULL
    <2> HIDE DEF rank
    <2> QED BY <2>1, <2>2 DEF Linked
<1>10. HeapIs(heap, n, sz, F, rank)
    <2>1. Apart(sz, F)
        BY <1>1, <1>6 DEF Apart
    <2>2. DOMAIN sz \ F = {} /\ F \subseteq DOMAIN sz /\ F \subseteq F
        BY <1>6
    <2>3. Shape(heap, n, sz, F, F, rank)
        BY <1>3, <1>5, <1>7, <1>8, <1>9, <2>2 DEF Shape
    <2> QED BY <2>1, <2>3 DEF HeapIs
<1>11. Clients(heap.mem, sz, DOMAIN sz \ F, live)
    BY <1>2, <1>6 DEF Clients
<1> HIDE DEF F, rank
<1>12. HeapOfPages(heap, 1, live)
    BY <1>1, <1>10, <1>11 DEF HeapOfPages, HeapHeld, n
<1> QED BY <1>1, <1>2, <1>12 DEF HeapInv

\* Every step leaves a heap, whose allocated blocks the clients hold.
LEMMA NextKeepsHeap ==
    ASSUME AnyShrink = FALSE, HeapInv, [Next]_vars
    PROVE  HeapInv'
<1>1. faulted \in BOOLEAN
    BY DEF HeapInv
<1>2. PICK k \in 1 .. MAX_KERNEL_HEAP_SIZE : HeapOfPages(heap, k, live)
    BY DEF HeapInv
<1> DEFINE n == k * WORDS_IN_PAGE
<1>3. PICK sz, F, rank : HeapHeld(heap, n, sz, F, rank, live)
    BY <1>2 DEF HeapOfPages
<1>4. n \in Nat /\ n < ALLOCATED
    BY PoolSize
<1>5. \A size \in Sizes : size \in Nat
    BY HeapAssumption
<1>6. ASSUME mem' = mem, head' = head, live' = live, faulted' \in BOOLEAN
      PROVE  HeapInv'
    <2>1. heap' = heap
        BY <1>6 DEF heap
    <2>2. HeapOfPages(heap', k, live')
        BY <1>2, <1>6, <2>1
    <2> QED BY <1>6, <2>2 DEF HeapInv
<1>7. ASSUME NEW k2 \in 1 .. MAX_KERNEL_HEAP_SIZE, NEW sz2, NEW F2, NEW rank2,
             HeapHeld(heap', k2 * WORDS_IN_PAGE, sz2, F2, rank2, live'), faulted' = faulted
      PROVE  HeapInv'
    <2>1. HeapOfPages(heap', k2, live')
        BY <1>7 DEF HeapOfPages
    <2> QED BY <1>1, <1>7, <2>1 DEF HeapInv
<1> HIDE DEF n
<1>8. ASSUME NEW size \in Sizes, kmalloc(size) PROVE HeapInv'
    <2>1. /\ faulted' = faulted
          /\ \E k1 \in 1 .. MAX_KERNEL_HEAP_SIZE : \E sz2, F2, rank2 :
                /\ HeapHeld(heap', k1 * WORDS_IN_PAGE, sz2, F2, rank2, live')
                /\ \/ NothingGiven(sz, F, live, sz2, F2, live')
                   \/ Given(sz, F, live, sz2, F2, live')
        BY <1>3, <1>5, <1>8, KmallocGives DEF n
    <2> QED BY <1>7, <2>1
<1>9. ASSUME NEW r \in live, kfree(r) PROVE HeapInv'
    <2>1. CASE Faulted
        BY <1>6, <2>1 DEF Faulted
    <2>2. CASE /\ faulted' = faulted
               /\ \E sz2, F2, rank2 : /\ HeapHeld(heap', n, sz2, F2, rank2, live')
                                      /\ TakenBack(sz, F, live, sz2, F2, live', r)
        BY <1>7, <2>2 DEF n
    <2> QED BY <1>3, <1>4, <1>9, <2>1, <2>2, KfreeTakes
<1>10. ASSUME NEW r \in live, NEW size \in Sizes, krealloc(r, size) PROVE HeapInv'
    <2>1. CASE Faulted
        BY <1>6, <2>1 DEF Faulted
    <2>2. CASE /\ faulted' = faulted
               /\ \E sz2, F2, rank2 : /\ HeapHeld(heap', n, sz2, F2, rank2, live')
                                      /\ Cut(sz, F, live, sz2, F2, live', r)
        BY <1>7, <2>2 DEF n
    <2> QED BY <1>3, <1>4, <1>5, <1>10, <2>1, <2>2, KreallocCuts
<1>11. CASE UNCHANGED vars
    BY <1>1, <1>6, <1>11 DEF vars
<1>12. CASE Next
    BY <1>8, <1>9, <1>10, <1>12 DEF Next
<1> QED BY <1>11, <1>12

\* The memory is always a heap, and the clients hold its allocated blocks.
THEOREM HeapInductive ==
    ASSUME AnyShrink = FALSE
    PROVE  Spec => []HeapInv
<1>1. Init => HeapInv
    BY InitHeap
<1>2. HeapInv /\ [Next]_vars => HeapInv'
    BY NextKeepsHeap
<1> QED BY <1>1, <1>2, PTL DEF Spec

-----------------------------------------------------------------------------
(* The blocks that Heap reads off the memory *)

\* Following the size words from the start reaches every block, and nothing else.
LEMMA BlocksAre ==
    ASSUME NEW n \in Nat, n < ALLOCATED, NEW sz, NEW F, NEW rank,
           HeapHeld(heap, n, sz, F, rank, live)
    PROVE  Blocks = DOMAIN sz /\ FreeBlocks = F
<1> DEFINE S == DOMAIN sz \cup {n + 1}
           next == [b \in Nat |-> IF b \in DOMAIN mem THEN Behind(b) ELSE b]
           c == Chain(next, 1)
           M == n \div 4
<1>1. /\ Tiles(sz, n) /\ F \subseteq DOMAIN sz /\ DOMAIN mem = 1 .. n /\ Len(mem) = n
      /\ \A b \in DOMAIN sz : /\ Behind(b) = b + sz[b]
                              /\ get_allocated_bit(mem[b]) <=> b \notin F
    <2>1. HeapShown(n, sz, F) /\ BlocksShown(sz, F)
        BY HeapVariables
    <2> QED BY <2>1 DEF HeapShown, BlocksShown
<1>2. /\ \A b \in DOMAIN sz : /\ b \in 1 .. n /\ sz[b] \in Nat /\ sz[b] >= 4
                              /\ b + sz[b] <= n + 1 /\ b + sz[b] \in S
      /\ 1 \in DOMAIN sz
    BY <1>1 DEF Tiles
<1>3. M \in Nat /\ n < M * 4 + 4
    BY QuotientType
<1>4. /\ \A b \in DOMAIN sz : next[b] = b + sz[b]
      /\ next[n + 1] = n + 1
    BY <1>1, <1>2
<1> HIDE DEF next
<1>5. 1 \in S /\ \A s \in S : next[s] \in S
    BY <1>2, <1>4
<1>6. c \in [Nat -> S] /\ c[0] = 1 /\ \A i \in Nat : c[i + 1] = next[c[i]]
    <2> HIDE DEF S
    <2>1. Chains(S, next, 1, c)
        BY <1>5, ChainIsChain
    <2> QED BY <2>1 DEF Chains
<1>7. Blocks = {c[i] : i \in 0 .. M} \cap (1 .. n)
    BY <1>1 DEF Blocks, MaxBlocks, next
<1> HIDE DEF c
<1>8. Blocks \subseteq DOMAIN sz
    <2> SUFFICES ASSUME NEW i \in 0 .. M, c[i] \in 1 .. n PROVE c[i] \in DOMAIN sz
        BY <1>7
    <2>1. c[i] \in S
        BY <1>3, <1>6
    <2> QED BY <2>1
<1>9. ASSUME NEW b \in DOMAIN sz PROVE b \in Blocks
    <2> DEFINE N == {k \in Nat : \A d \in DOMAIN sz : d <= k =>
                       \E i \in Nat : c[i] = d /\ 4 * i + 1 <= d}
    <2>1. 0 \in N
        BY <1>2
    <2>2. ASSUME NEW k \in Nat, k \in N PROVE k + 1 \in N
        <3> SUFFICES ASSUME NEW d \in DOMAIN sz, d <= k + 1
                     PROVE  \E i \in Nat : c[i] = d /\ 4 * i + 1 <= d
            OBVIOUS
        <3>1. CASE d = 1
            <4>1. 0 \in Nat /\ c[0] = d /\ 4 * 0 + 1 <= d
                BY <1>6, <3>1
            <4> QED BY <4>1
        <3>2. CASE d # 1
            <4>1. PICK p \in DOMAIN sz : p + sz[p] = d
                BY <1>1, <3>2, BlockBefore
            <4>2. p \in Nat /\ sz[p] \in Nat /\ sz[p] >= 4 /\ p <= k
                BY <1>2, <4>1
            <4>3. PICK i \in Nat : c[i] = p /\ 4 * i + 1 <= p
                BY <2>2, <4>2
            <4>4. c[i + 1] = d
                BY <1>4, <1>6, <4>1, <4>3
            <4>5. i + 1 \in Nat /\ 4 * (i + 1) + 1 <= d
                BY <4>1, <4>2, <4>3
            <4> QED BY <4>4, <4>5
        <3> QED BY <3>1, <3>2
    <2>3. Nat \subseteq N
        <3> HIDE DEF N
        <3> QED BY <2>1, <2>2, SetInduction
    <2>4. b \in Nat /\ b \in 1 .. n /\ b + 4 <= n + 1
        BY <1>2
    <2>5. PICK i \in Nat : c[i] = b /\ 4 * i + 1 <= b
        <3>1. b \in N /\ b <= b
            BY <2>3, <2>4
        <3> QED BY <3>1
    <2>6. i \in 0 .. M
        BY <1>3, <2>4, <2>5
    <2> QED BY <1>7, <2>4, <2>5, <2>6
<1>10. Blocks = DOMAIN sz
    BY <1>8, <1>9
<1>11. FreeBlocks = F
    BY <1>1, <1>10 DEF FreeBlocks
<1> QED BY <1>10, <1>11

\* The blocks of the list in order, each once.
LEMMA ListOfBlocks ==
    ASSUME NEW n \in Nat, NEW sz, Tiles(sz, n), NEW F, F \subseteq DOMAIN sz,
           NEW m, NEW first, NEW rank, Linked(m, first, F, rank)
    PROVE  \E list \in SetToSeqs(F) :
             LET at(i) == IF i \in DOMAIN list THEN list[i] ELSE NULL
             IN /\ first = at(1)
                /\ \A i \in DOMAIN list : /\ m[list[i] + 1] = at(i - 1)
                                          /\ m[list[i] + 2] = at(i + 1)
<1> DEFINE S == F \cup {NULL}
           next == [b \in S |-> IF b = NULL THEN NULL ELSE m[b + 2]]
           c == Chain(next, first)
           Z == {i \in Nat : c[i] = NULL}
<1>1. NULL \notin F
    BY BlockBounds DEF NULL
<1>2. /\ first \in S /\ rank \in [F -> Nat] /\ (first # NULL => m[first + 1] = NULL)
      /\ \A f \in F : /\ m[f + 1] \in S /\ m[f + 2] \in S
                      /\ m[f + 1] = NULL => first = f
                      /\ m[f + 1] # NULL => m[m[f + 1] + 2] = f
                      /\ m[f + 2] # NULL => m[m[f + 2] + 1] = f /\ rank[f] < rank[m[f + 2]]
    BY DEF Linked
<1>3. (\A f \in F : next[f] = m[f + 2]) /\ next[NULL] = NULL
    BY <1>1
<1> HIDE DEF next
<1>4. \A s \in S : next[s] \in S
    BY <1>2, <1>3
<1>5. c \in [Nat -> S] /\ c[0] = first /\ \A i \in Nat : c[i + 1] = next[c[i]]
    <2> HIDE DEF S
    <2>1. Chains(S, next, first, c)
        BY <1>2, <1>4, ChainIsChain
    <2> QED BY <2>1 DEF Chains
<1> HIDE DEF c
<1>6. ASSUME NEW i \in Nat, c[i + 1] # NULL
      PROVE  /\ c[i] \in F /\ c[i + 1] \in F /\ c[i + 1] = m[c[i] + 2]
             /\ m[c[i + 1] + 1] = c[i] /\ rank[c[i]] < rank[c[i + 1]]
    <2>1. c[i] \in S /\ c[i + 1] \in S /\ c[i + 1] = next[c[i]]
        BY <1>5
    <2>2. c[i] \in F /\ c[i + 1] \in F
        BY <1>3, <1>6, <2>1
    <2>3. c[i + 1] = m[c[i] + 2]
        BY <1>3, <2>1, <2>2
    <2> QED BY <1>2, <1>6, <2>2, <2>3
<1>7. ASSUME NEW i \in Nat, NEW k \in Nat, c[i + k + 1] # NULL
      PROVE  c[i] \in F /\ rank[c[i]] < rank[c[i + k + 1]]
    <2> DEFINE N == {q \in Nat : c[i + q + 1] # NULL =>
                       c[i] \in F /\ rank[c[i]] < rank[c[i + q + 1]]}
    <2>1. 0 \in N
        <3>1. i + 0 + 1 = i + 1
            OBVIOUS
        <3> QED BY <1>6, <3>1
    <2>2. ASSUME NEW q \in Nat, q \in N PROVE q + 1 \in N
        <3> SUFFICES ASSUME c[i + (q + 1) + 1] # NULL
                     PROVE  c[i] \in F /\ rank[c[i]] < rank[c[i + (q + 1) + 1]]
            OBVIOUS
        <3>1. i + q + 1 \in Nat /\ (i + q + 1) + 1 = i + (q + 1) + 1
            OBVIOUS
        <3>2. /\ c[i + q + 1] \in F /\ c[i + (q + 1) + 1] \in F
              /\ rank[c[i + q + 1]] < rank[c[i + (q + 1) + 1]]
            BY <1>6, <3>1
        <3>3. c[i] \in F /\ rank[c[i]] < rank[c[i + q + 1]]
            BY <1>1, <2>2, <3>2
        <3>4. rank[c[i]] \in Nat /\ rank[c[i + q + 1]] \in Nat
              /\ rank[c[i + (q + 1) + 1]] \in Nat
            BY <1>2, <3>2, <3>3
        <3> QED BY <3>2, <3>3, <3>4
    <2>3. Nat \subseteq N
        <3> HIDE DEF N
        <3> QED BY <2>1, <2>2, SetInduction
    <2> QED BY <1>7, <2>3
<1>8. ASSUME NEW i \in Nat, NEW j \in Nat, i < j, c[j] # NULL
      PROVE  c[i] \in F /\ c[i] # c[j]
    <2>1. j - i - 1 \in Nat /\ i + (j - i - 1) + 1 = j
        BY <1>8
    <2>2. c[i] \in F /\ rank[c[i]] < rank[c[j]]
        BY <1>7, <1>8, <2>1
    <2> QED BY <1>2, <2>2
<1>9. Z # {} /\ Z \subseteq Nat
    <2> SUFFICES ASSUME Z = {} PROVE FALSE
        OBVIOUS
    <2> DEFINE d == [i \in 0 .. n \div 4 |-> c[i]]
    <2>1. n \div 4 \in Nat
        BY QuotientType
    <2>2. \A i \in Nat : c[i] \in F
        BY <1>5
    <2>3. d \in [0 .. n \div 4 -> DOMAIN sz]
        BY <2>1, <2>2
    <2>4. PICK i \in 0 .. n \div 4, j \in 0 .. n \div 4 : i < j /\ d[i] = d[j]
        <3> HIDE DEF d
        <3>1. \E i, j \in 0 .. n \div 4 : i < j /\ d[i] = d[j]
            BY Zenon, <2>3, FewBlocks
        <3> QED BY Zenon, <3>1
    <2>5. i \in Nat /\ j \in Nat /\ c[i] = c[j] /\ c[j] # NULL
        BY <1>1, <2>1, <2>2, <2>4
    <2> QED BY <1>8, <2>4, <2>5
<1> DEFINE L == Min(Z)
<1>10. L \in Nat /\ c[L] = NULL /\ \A i \in Nat : c[i] = NULL => L <= i
    <2>1. L \in Z /\ \A i \in Z : L <= i
        <3> HIDE DEF Z
        <3> QED BY <1>9, MinIsLeast
    <2> QED BY <2>1
<1> HIDE DEF L, Z
<1>11. \A i \in Nat : i < L <=> c[i] # NULL
    <2> TAKE i \in Nat
    <2>1. c[i] # NULL => i < L
        <3> SUFFICES ASSUME c[i] # NULL, ~(i < L) PROVE FALSE
            OBVIOUS
        <3>1. i = L \/ L < i
            BY <1>10
        <3>2. c[L] \in F
            BY <1>8, <1>10, <3>1
        <3> QED BY <1>1, <1>10, <3>2
    <2> QED BY <1>10, <2>1
<1>12. ASSUME NEW f \in F PROVE \E i \in Nat : i < L /\ c[i] = f
    <2> DEFINE N == {k \in Nat : \A g \in F : rank[g] < k => \E i \in Nat : c[i] = g}
    <2>1. 0 \in N
        BY <1>2
    <2>2. ASSUME NEW k \in Nat, k \in N PROVE k + 1 \in N
        <3> SUFFICES ASSUME NEW g \in F, rank[g] < k + 1 PROVE \E i \in Nat : c[i] = g
            OBVIOUS
        <3>1. CASE m[g + 1] = NULL
            BY <1>2, <1>5, <3>1
        <3>2. CASE m[g + 1] # NULL
            <4> DEFINE p == m[g + 1]
            <4>1. p \in F /\ m[p + 2] = g
                BY <1>2, <3>2
            <4> HIDE DEF p
            <4>2. rank[p] < rank[g]
                BY <1>1, <1>2, <4>1
            <4>3. rank[p] < k
                BY <1>2, <4>1, <4>2
            <4>4. PICK i \in Nat : c[i] = p
                BY <2>2, <4>1, <4>3
            <4>5. c[i + 1] = g /\ i + 1 \in Nat
                BY <1>3, <1>5, <4>1, <4>4
            <4> QED BY <4>5
        <3> QED BY <3>1, <3>2
    <2>3. Nat \subseteq N
        <3> HIDE DEF N
        <3> QED BY <2>1, <2>2, SetInduction
    <2>4. rank[f] + 1 \in N /\ rank[f] < rank[f] + 1
        BY <1>2, <2>3
    <2>5. PICK i \in Nat : c[i] = f
        BY <2>4
    <2> QED BY <1>1, <1>11, <2>5
<1> DEFINE list == [i \in 1 .. L |-> c[i - 1]]
           at(i) == IF i \in DOMAIN list THEN list[i] ELSE NULL
<1>13. list \in [1 .. L -> F] /\ \A i \in 1 .. L : list[i] = c[i - 1]
    <2>1. \A i \in 1 .. L : i - 1 \in Nat /\ i - 1 < L
        BY <1>10
    <2>2. \A i \in 1 .. L : c[i - 1] \in F
        BY <1>5, <1>11, <2>1
    <2> QED BY <2>2
<1>14. \A i, j \in 1 .. L : i # j => list[i] # list[j]
    <2>1. ASSUME NEW i \in 1 .. L, NEW j \in 1 .. L, i < j PROVE list[i] # list[j]
        <3>1. i - 1 \in Nat /\ j - 1 \in Nat /\ i - 1 < j - 1 /\ j - 1 < L
            BY <1>10, <2>1
        <3>2. c[j - 1] # NULL
            BY <1>11, <3>1
        <3> QED BY <1>8, <1>13, <3>1, <3>2
    <2> QED BY <1>10, <2>1
<1>15. \A f \in F : \E i \in 1 .. L : list[i] = f
    <2> TAKE f \in F
    <2>1. PICK i \in Nat : i < L /\ c[i] = f
        BY <1>12
    <2>2. i + 1 \in 1 .. L /\ (i + 1) - 1 = i
        BY <1>10, <2>1
    <2> QED BY <1>13, <2>1, <2>2
<1>16. at(1) = first
    <2>1. CASE L = 0
        BY <1>5, <1>10, <2>1
    <2>2. CASE L # 0
        BY <1>5, <1>10, <2>2
    <2> QED BY <2>1, <2>2
<1>17. \A i \in 1 .. L : m[list[i] + 2] = at(i + 1)
    <2> TAKE i \in 1 .. L
    <2>1. i - 1 \in Nat /\ (i - 1) + 1 = i /\ i \in Nat /\ list[i] = c[i - 1] /\ list[i] \in F
        BY <1>10, <1>13
    <2>2. m[list[i] + 2] = c[i]
        BY <1>3, <1>5, <2>1
    <2>3. CASE i = L
        BY <1>10, <2>2, <2>3
    <2>4. CASE i # L
        <3>1. i + 1 \in 1 .. L /\ (i + 1) - 1 = i
            BY <1>10, <2>1, <2>4
        <3> QED BY <2>2, <3>1
    <2> QED BY <2>3, <2>4
<1>18. \A i \in 1 .. L : m[list[i] + 1] = at(i - 1)
    <2> TAKE i \in 1 .. L
    <2>1. CASE i = 1
        <3>1. list[i] = first /\ first # NULL /\ i - 1 \notin 1 .. L
            BY <1>1, <1>5, <1>10, <1>13, <2>1
        <3> QED BY <1>2, <3>1
    <2>2. CASE i # 1
        <3>1. i - 2 \in Nat /\ (i - 2) + 1 = i - 1 /\ i - 1 \in 1 .. L /\ (i - 1) - 1 = i - 2
              /\ i - 1 \in Nat
            BY <1>10, <2>2
        <3>2. c[i - 1] # NULL
            BY <1>1, <1>13
        <3>3. m[c[i - 1] + 1] = c[i - 2]
            BY <1>6, <3>1, <3>2
        <3> QED BY <1>13, <3>1, <3>3
    <2> QED BY <2>1, <2>2
<1>19. list \in SetToSeqs(F)
    <2>1. IsFiniteSet(1 .. L) /\ Cardinality(1 .. L) = L
        BY <1>10, FS_Interval
    <2> HIDE DEF list
    <2>2. list \in Bijection(1 .. L, F)
        BY <1>13, <1>14, <1>15 DEF Bijection, Injection, Surjection, IsInjective
    <2>3. ExistsBijection(1 .. L, F)
        BY <2>2 DEF ExistsBijection
    <2>4. Cardinality(F) = L
        BY <2>1, <2>3, FS_Bijection
    <2> QED BY <1>13, <1>14, <2>4 DEF SetToSeqs
<1>20. DOMAIN list = 1 .. L
    OBVIOUS
<1> WITNESS list \in SetToSeqs(F)
<1> QED BY <1>16, <1>17, <1>18, <1>20

-----------------------------------------------------------------------------
(* What the invariant says of the heap *)

\* The blocks and the words behind the invariant.
LEMMA HeapOfInv ==
    ASSUME HeapInv
    PROVE  \E k \in 1 .. MAX_KERNEL_HEAP_SIZE : \E sz, F, rank :
              /\ HeapHeld(heap, k * WORDS_IN_PAGE, sz, F, rank, live)
              /\ k * WORDS_IN_PAGE \in Nat /\ k * WORDS_IN_PAGE < ALLOCATED
BY PoolSize DEF HeapInv, HeapOfPages

\* The room of the regions, as the invariant has it.
LEMMA RegionsAre ==
    ASSUME NEW n \in Nat, n < ALLOCATED, NEW sz, NEW F, NEW rank,
           HeapHeld(heap, n, sz, F, rank, live)
    PROVE  Regions = {[ptr |-> b + 3, words |-> sz[b] - 4] : b \in DOMAIN sz \ F}
<1>1. Blocks = DOMAIN sz
    BY BlocksAre
<1>2. \A b \in DOMAIN sz : get_size(mem[b]) = sz[b] /\ (get_allocated_bit(mem[b]) <=> b \notin F)
    <2>1. BlocksShown(sz, F)
        BY HeapVariables
    <2> QED BY <2>1 DEF BlocksShown
<1>3. {b \in Blocks : get_allocated_bit(mem[b])} = DOMAIN sz \ F
    BY <1>1, <1>2
<1>4. Regions = {[ptr |-> b + 3, words |-> get_size(mem[b]) - 4] : b \in DOMAIN sz \ F}
    BY <1>3 DEF Regions
<1> QED BY <1>2, <1>4

\* The invariant implies the types.
LEMMA HeapIsTyped ==
    ASSUME HeapInv
    PROVE  TypeOK
<1>0. PICK k \in 1 .. MAX_KERNEL_HEAP_SIZE : \E sz, F, rank :
           /\ HeapHeld(heap, k * WORDS_IN_PAGE, sz, F, rank, live)
           /\ k * WORDS_IN_PAGE \in Nat /\ k * WORDS_IN_PAGE < ALLOCATED
    BY HeapOfInv
<1>1. PICK sz, F, rank :
           /\ HeapHeld(heap, k * WORDS_IN_PAGE, sz, F, rank, live)
           /\ k * WORDS_IN_PAGE \in Nat /\ k * WORDS_IN_PAGE < ALLOCATED
    BY <1>0
<1> DEFINE n == k * WORDS_IN_PAGE
<1>2. n \in Nat /\ n < ALLOCATED /\ HeapHeld(heap, n, sz, F, rank, live)
    BY <1>1
<1>3. \E p \in 1 .. MAX_KERNEL_HEAP_SIZE : n = p * WORDS_IN_PAGE
    OBVIOUS
<1> HIDE DEF n
<1>4. /\ mem \in [1 .. n -> Nat] /\ Len(mem) = n /\ heap.mem = mem /\ heap.head = head
      /\ Tiles(sz, n) /\ F \subseteq DOMAIN sz /\ Clients(mem, sz, DOMAIN sz \ F, live)
    BY <1>2, HeapVariables DEF HeapShown, BlocksShown
<1>5. mem \in Seq(Nat)
    BY <1>2, <1>4
<1>6. head \in 0 .. Len(mem)
    <2>1. head \in F \cup {NULL}
        BY <1>2, <1>4 DEF HeapHeld, HeapIs, Shape, Linked
    <2>2. \A b \in F : b \in 1 .. n
        BY <1>2, <1>4, BlockBounds
    <2> QED BY <1>2, <1>4, <2>1, <2>2 DEF NULL
<1>7. ASSUME NEW r \in live PROVE r \in [ptr : 4 .. Len(mem), words : 0 .. Len(mem)]
    <2> DEFINE b == r.ptr - 3
    <2>1. DOMAIN sz \ F \subseteq DOMAIN sz
        OBVIOUS
    <2> HIDE DEF b
    <2>2. /\ b \in DOMAIN sz \ F /\ r.words \in Nat /\ b + 3 = r.ptr
          /\ r = [ptr |-> r.ptr, words |-> r.words] /\ r.words + 4 <= sz[b]
        <3>1. RegionIn(n, sz, DOMAIN sz \ F, r)
            BY <1>2, <1>4, <2>1, BlockOfRegion
        <3> QED BY <3>1 DEF RegionIn, b
    <2>3. b \in 1 .. n /\ sz[b] \in Nat /\ b + sz[b] <= n + 1
        BY <1>2, <1>4, <2>2, BlockBounds
    <2>4. r.ptr \in 4 .. n /\ r.words \in 0 .. n
        BY <1>2, <2>2, <2>3
    <2> QED BY <1>4, <2>2, <2>4
<1>8. faulted \in BOOLEAN
    BY DEF HeapInv
<1>9. \E p \in 1 .. MAX_KERNEL_HEAP_SIZE : Len(mem) = p * WORDS_IN_PAGE
    BY <1>3, <1>4
<1>10. live \subseteq [ptr : 4 .. Len(mem), words : 0 .. Len(mem)]
    BY <1>7
<1> QED BY <1>5, <1>6, <1>8, <1>9, <1>10 DEF TypeOK

\* The invariant implies that the blocks read off the memory tile it, the free ones apart.
LEMMA HeapIsTiled ==
    ASSUME HeapInv
    PROVE  BlocksTile /\ FreeBlocksApart
<1>0. PICK k \in 1 .. MAX_KERNEL_HEAP_SIZE : \E sz, F, rank :
           /\ HeapHeld(heap, k * WORDS_IN_PAGE, sz, F, rank, live)
           /\ k * WORDS_IN_PAGE \in Nat /\ k * WORDS_IN_PAGE < ALLOCATED
    BY HeapOfInv
<1>1. PICK sz, F, rank :
           /\ HeapHeld(heap, k * WORDS_IN_PAGE, sz, F, rank, live)
           /\ k * WORDS_IN_PAGE \in Nat /\ k * WORDS_IN_PAGE < ALLOCATED
    BY <1>0
<1> DEFINE n == k * WORDS_IN_PAGE
<1>2. n \in Nat /\ n < ALLOCATED /\ HeapHeld(heap, n, sz, F, rank, live)
    BY <1>1
<1> HIDE DEF n
<1>3. Blocks = DOMAIN sz /\ FreeBlocks = F
    BY <1>2, BlocksAre
<1>4. /\ Tiles(sz, n) /\ End = n + 1 /\ F \subseteq DOMAIN sz
      /\ \A b \in DOMAIN sz :
           /\ get_size(mem[b]) = sz[b] /\ Behind(b) = b + sz[b]
           /\ get_allocated_bit(mem[b]) <=> b \notin F
           /\ mem[b + sz[b] - 1] = mem[b]
    <2>1. HeapShown(n, sz, F) /\ BlocksShown(sz, F)
        BY <1>2, HeapVariables
    <2> QED BY <2>1 DEF HeapShown, BlocksShown
<1>5. BlocksTile
    <2> SUFFICES ASSUME NEW b \in DOMAIN sz
                 PROVE  /\ get_size(mem[b]) >= 4 /\ Behind(b) <= End
                        /\ mem[Behind(b) - 1] = mem[b]
        BY <1>3 DEF BlocksTile
    <2>1. sz[b] >= 4 /\ b + sz[b] <= n + 1
        BY <1>2, <1>4, BlockBounds
    <2>2. /\ get_size(mem[b]) = sz[b] /\ Behind(b) = b + sz[b] /\ End = n + 1
          /\ mem[b + sz[b] - 1] = mem[b]
        BY <1>4
    <2>3. (b + sz[b]) - 1 = b + sz[b] - 1
        BY <1>2, <1>4, BlockBounds
    <2>4. mem[Behind(b) - 1] = mem[b]
        BY <2>2, <2>3
    <2> QED BY <2>1, <2>2, <2>4
<1>6. FreeBlocksApart
    <2> SUFFICES ASSUME NEW b \in F, Behind(b) < End
                 PROVE  get_allocated_bit(mem[Behind(b)])
        BY <1>3 DEF FreeBlocksApart
    <2>1. Behind(b) = b + sz[b] /\ b \in DOMAIN sz
        BY <1>4
    <2>2. b + sz[b] # n + 1 /\ b + sz[b] \in DOMAIN sz \cup {n + 1}
        BY <1>2, <1>4, <2>1 DEF Tiles
    <2>3. b + sz[b] \notin F
        BY <1>2 DEF HeapHeld, HeapIs, Apart
    <2> QED BY <1>4, <2>1, <2>2, <2>3
<1> QED BY <1>5, <1>6

\* The invariant implies that the list is the free blocks in some order.
LEMMA FreeListIsExact ==
    ASSUME HeapInv
    PROVE  FreeListExact
<1>0. PICK k \in 1 .. MAX_KERNEL_HEAP_SIZE : \E sz, F, rank :
           /\ HeapHeld(heap, k * WORDS_IN_PAGE, sz, F, rank, live)
           /\ k * WORDS_IN_PAGE \in Nat /\ k * WORDS_IN_PAGE < ALLOCATED
    BY HeapOfInv
<1>1. PICK sz, F, rank :
           /\ HeapHeld(heap, k * WORDS_IN_PAGE, sz, F, rank, live)
           /\ k * WORDS_IN_PAGE \in Nat /\ k * WORDS_IN_PAGE < ALLOCATED
    BY <1>0
<1> DEFINE n == k * WORDS_IN_PAGE
<1>2. n \in Nat /\ n < ALLOCATED /\ HeapHeld(heap, n, sz, F, rank, live)
    BY <1>1
<1> HIDE DEF n
<1>3. FreeBlocks = F
    BY <1>2, BlocksAre
<1>4. Tiles(sz, n) /\ F \subseteq DOMAIN sz /\ heap.mem = mem /\ heap.head = head
    BY <1>2, HeapVariables DEF HeapShown, BlocksShown
<1>5. Linked(mem, head, F, rank)
    BY <1>2, <1>4 DEF HeapHeld, HeapIs, Shape
<1>6. \A b : Prev(heap, b) = mem[b + 1] /\ NextOf(heap, b) = mem[b + 2]
    BY <1>4 DEF Prev, NextOf
<1>7. PICK list \in SetToSeqs(F) :
           LET at(i) == IF i \in DOMAIN list THEN list[i] ELSE NULL
           IN /\ head = at(1)
              /\ \A i \in DOMAIN list : /\ mem[list[i] + 1] = at(i - 1)
                                        /\ mem[list[i] + 2] = at(i + 1)
    BY <1>2, <1>4, <1>5, ListOfBlocks
<1> QED BY <1>3, <1>6, <1>7 DEF FreeListExact

\* The invariant implies that every client has its block and its words.
LEMMA PayloadIsIntact ==
    ASSUME HeapInv
    PROVE  PayloadIntact
<1>0. PICK k \in 1 .. MAX_KERNEL_HEAP_SIZE : \E sz, F, rank :
           /\ HeapHeld(heap, k * WORDS_IN_PAGE, sz, F, rank, live)
           /\ k * WORDS_IN_PAGE \in Nat /\ k * WORDS_IN_PAGE < ALLOCATED
    BY HeapOfInv
<1>1. PICK sz, F, rank :
           /\ HeapHeld(heap, k * WORDS_IN_PAGE, sz, F, rank, live)
           /\ k * WORDS_IN_PAGE \in Nat /\ k * WORDS_IN_PAGE < ALLOCATED
    BY <1>0
<1> DEFINE n == k * WORDS_IN_PAGE
           A == DOMAIN sz \ F
<1>2. n \in Nat /\ n < ALLOCATED /\ HeapHeld(heap, n, sz, F, rank, live)
    BY <1>1
<1> HIDE DEF n
<1>3. Regions = {[ptr |-> b + 3, words |-> sz[b] - 4] : b \in A}
    BY <1>2, RegionsAre
<1>4. Tiles(sz, n) /\ A \subseteq DOMAIN sz /\ Clients(mem, sz, A, live)
    BY <1>2, HeapVariables DEF HeapShown, BlocksShown
<1> HIDE DEF A
<1>5. {r.ptr : r \in live} = {b + 3 : b \in A}
    BY <1>4 DEF Clients
<1>6. {s.ptr : s \in Regions} = {b + 3 : b \in A}
    <2>1. ASSUME NEW s \in Regions PROVE s.ptr \in {b + 3 : b \in A}
        BY <1>3
    <2>2. ASSUME NEW b \in A PROVE b + 3 \in {s.ptr : s \in Regions}
        <3>1. [ptr |-> b + 3, words |-> sz[b] - 4] \in Regions
            BY <1>3
        <3>2. [ptr |-> b + 3, words |-> sz[b] - 4].ptr = b + 3
            OBVIOUS
        <3> QED BY <3>1, <3>2
    <2> QED BY <2>1, <2>2
<1>7. ASSUME NEW s \in Regions, NEW r \in live, r.ptr = s.ptr
      PROVE  /\ r.words <= s.words
             /\ \A i \in r.ptr .. r.ptr + r.words - 1 : mem[i] = r.ptr
    <2>1. PICK b \in A : s = [ptr |-> b + 3, words |-> sz[b] - 4]
        BY <1>3
    <2>2. b \in Nat /\ sz[b] \in Nat
        BY <1>2, <1>4, BlockBounds
    <2>3. r.ptr - 3 = b /\ s.words = sz[b] - 4
        BY <1>7, <2>1, <2>2
    <2>4. r.words + 4 <= sz[b] /\ r.words \in Nat
        <3>1. r.words + 4 <= sz[r.ptr - 3] /\ r.words \in Nat
            BY <1>4 DEF Clients
        <3> QED BY <2>3, <3>1
    <2>5. \A i \in r.ptr .. r.ptr + r.words - 1 : mem[i] = r.ptr
        BY <1>4 DEF Clients
    <2> QED BY <2>2, <2>3, <2>4, <2>5
<1> QED BY <1>5, <1>6, <1>7 DEF PayloadIntact

\* Every variable has its type, and the pool has whole pages up to its limit: no call
\* makes the heap larger than MAX_KERNEL_HEAP_SIZE pages (kstdlib.c).
THEOREM HeapTypeCorrect ==
    ASSUME AnyShrink = FALSE
    PROVE  Spec => []TypeOK
<1>1. HeapInv => TypeOK
    BY HeapIsTyped
<1>2. Spec => []HeapInv
    BY HeapInductive
<1> QED BY <1>1, <1>2, PTL

\* The size words that kmalloc, kfree and krealloc write always tile the memory, and
\* both ends of a block agree: what the code steps over, in either direction, is a block.
THEOREM BlocksAlwaysTile ==
    ASSUME AnyShrink = FALSE
    PROVE  Spec => []BlocksTile
<1>1. HeapInv => BlocksTile
    BY HeapIsTiled
<1>2. Spec => []HeapInv
    BY HeapInductive
<1> QED BY <1>1, <1>2, PTL

\* The list that allocate_block searches always runs once through every free block, in
\* both directions, and through nothing that a client holds.
THEOREM FreeListAlwaysExact ==
    ASSUME AnyShrink = FALSE
    PROVE  Spec => []FreeListExact
<1>1. HeapInv => FreeListExact
    BY FreeListIsExact
<1>2. Spec => []HeapInv
    BY HeapInductive
<1> QED BY <1>1, <1>2, PTL

\* What kfree leaves is merged: no two free blocks ever lie side by side.
THEOREM FreeBlocksAlwaysApart ==
    ASSUME AnyShrink = FALSE
    PROVE  Spec => []FreeBlocksApart
<1>1. HeapInv => FreeBlocksApart
    BY HeapIsTiled
<1>2. Spec => []HeapInv
    BY HeapInductive
<1> QED BY <1>1, <1>2, PTL

\* Each client's words lie in an allocated block of its own and are as it left them,
\* through every kmalloc, kfree and krealloc of all the others.
THEOREM PayloadAlwaysIntact ==
    ASSUME AnyShrink = FALSE
    PROVE  Spec => []PayloadIntact
<1>1. HeapInv => PayloadIntact
    BY PayloadIsIntact
<1>2. Spec => []HeapInv
    BY HeapInductive
<1> QED BY <1>1, <1>2, PTL

\* A search that ends without a block has passed every free one.
LEMMA FirstFitPasses ==
    ASSUME NEW n \in Nat, n < ALLOCATED, NEW h, NEW sz, NEW F, NEW rank,
           HeapIs(h, n, sz, F, rank), NEW words \in Nat,
           FirstFit(h, words) = NULL, NEW f \in F, sz[f] >= words
    PROVE  FALSE
<1> DEFINE S == F \cup {NULL}
           M == n \div 4
           next == [b \in Nat |->
                      IF b = NULL \/ get_size(h.mem[b]) >= words THEN b ELSE NextOf(h, b)]
           c == Chain(next, h.head)
           Stops(b) == b = NULL \/ sz[b] >= words
<1>1. /\ h \in Heaps(n) /\ Tiles(sz, n) /\ F \subseteq DOMAIN sz /\ Tags(h.mem, sz, F)
      /\ Linked(h.mem, h.head, F, rank)
    BY DEF HeapIs, Shape
<1>2. Len(h.mem) = n /\ M \in Nat
    <2>1. h.mem \in [1 .. n -> Nat]
        BY <1>1 DEF Heaps
    <2> QED BY <2>1, QuotientType
<1>3. \A b \in F : b \in Nat /\ b # NULL /\ get_size(h.mem[b]) = sz[b] /\ sz[b] \in Nat
    <2> TAKE b \in F
    <2>1. h.mem[b] = SizeWord(sz, F, b) /\ b \in DOMAIN sz
        BY <1>1 DEF Tags
    <2>2. get_size(SizeWord(sz, F, b)) = sz[b] /\ b \in Nat /\ b > 0 /\ sz[b] \in Nat
        BY <1>1, <2>1, BlockWord
    <2> QED BY <2>1, <2>2 DEF NULL
<1>4. S \subseteq Nat
    BY <1>3 DEF NULL
<1>5. \A b \in S : next[b] = IF Stops(b) THEN b ELSE h.mem[b + 2]
    BY <1>3, <1>4 DEF NextOf
<1> HIDE DEF next
<1>6. /\ rank \in [F -> Nat] /\ h.head \in S
      /\ \A b \in F : /\ h.mem[b + 1] \in S /\ h.mem[b + 2] \in S
                      /\ h.mem[b + 1] = NULL => h.head = b
                      /\ h.mem[b + 1] # NULL => h.mem[h.mem[b + 1] + 2] = b
                      /\ h.mem[b + 2] # NULL => rank[b] < rank[h.mem[b + 2]]
    BY <1>1 DEF Linked
<1>7. \A b \in S : next[b] \in S
    BY <1>5, <1>6
<1>8. c \in [Nat -> S] /\ c[0] = h.head /\ \A i \in Nat : c[i + 1] = next[c[i]]
    <2> HIDE DEF S
    <2>1. Chains(S, next, h.head, c)
        BY <1>6, <1>7, ChainIsChain
    <2> QED BY <2>1 DEF Chains
<1>9. c[M] = NULL
    BY <1>2 DEF FirstFit, MaxBlocks, next
<1> HIDE DEF c
<1>10. ASSUME NEW i \in Nat, i <= M, Stops(c[i]) PROVE c[i] = NULL
    <2> DEFINE N == {k \in Nat : c[i + k] = c[i]}
    <2>1. 0 \in N
        OBVIOUS
    <2>2. ASSUME NEW k \in Nat, k \in N PROVE k + 1 \in N
        <3> HIDE DEF Stops
        <3>1. i + k \in Nat /\ (i + k) + 1 = i + (k + 1)
            OBVIOUS
        <3>2. c[i + (k + 1)] = next[c[i]]
            BY <1>8, <2>2, <3>1
        <3>3. next[c[i]] = c[i]
            BY <1>5, <1>8, <1>10
        <3> QED BY <3>2, <3>3
    <2>3. Nat \subseteq N
        <3> HIDE DEF N
        <3> QED BY <2>1, <2>2, SetInduction
    <2>4. M - i \in Nat /\ i + (M - i) = M
        <3> HIDE DEF M
        <3> QED BY <1>2, <1>10
    <2>5. M - i \in N
        BY <2>3, <2>4
    <2> QED BY <1>9, <2>4, <2>5
<1>11. ASSUME NEW g \in F PROVE \E i \in 0 .. M : c[i] = g
    <2> DEFINE N == {k \in Nat : \A q \in F : rank[q] < k => \E i \in 0 .. M : c[i] = q}
    <2>1. 0 \in N
        BY <1>6
    <2>2. ASSUME NEW k \in Nat, k \in N PROVE k + 1 \in N
        <3> SUFFICES ASSUME NEW q \in F, rank[q] < k + 1 PROVE \E i \in 0 .. M : c[i] = q
            OBVIOUS
        <3>1. CASE h.mem[q + 1] = NULL
            <4>1. c[0] = q
                BY <1>6, <1>8, <3>1
            <4>2. 0 \in 0 .. M
                <5> HIDE DEF M
                <5> QED BY <1>2
            <4> QED BY <4>1, <4>2
        <3>2. CASE h.mem[q + 1] # NULL
            <4> DEFINE p == h.mem[q + 1]
            <4>1. p \in F /\ h.mem[p + 2] = q
                BY <1>6, <3>2
            <4> HIDE DEF p
            <4>2. rank[p] < rank[q] /\ rank[p] \in Nat /\ rank[q] \in Nat
                BY <1>3, <1>6, <4>1
            <4>3. rank[p] < k
                BY <4>2
            <4>4. PICK i \in 0 .. M : c[i] = p
                BY <2>2, <4>1, <4>3
            <4>5. i \in Nat /\ i <= M /\ p # NULL
                BY <1>2, <1>3, <4>1
            <4>6. ~Stops(p) /\ i # M
                BY <1>9, <1>10, <4>4, <4>5
            <4>7. next[p] = q
                BY <1>5, <4>1, <4>6
            <4>8. c[i + 1] = q /\ i + 1 \in 0 .. M
                <5>1. c[i + 1] = q
                    BY <1>8, <4>4, <4>5, <4>7
                <5> HIDE DEF M
                <5> QED BY <1>2, <4>5, <4>6, <5>1
            <4> QED BY <4>8
        <3> QED BY <3>1, <3>2
    <2>3. Nat \subseteq N
        <3> HIDE DEF N
        <3> QED BY <2>1, <2>2, SetInduction
    <2>4. rank[g] + 1 \in N /\ rank[g] < rank[g] + 1
        BY <1>6, <2>3
    <2> QED BY <2>4
<1>12. PICK i \in 0 .. M : c[i] = f
    BY <1>11
<1>13. i \in Nat /\ i <= M
    BY <1>2, <1>12
<1> QED BY <1>3, <1>10, <1>12, <1>13

\* kmalloc's search comes back with a free block that is large enough, and without one
\* only if there is none: no fragment that would do is ever out of its reach.
SearchIsExact ==
    \A words \in Nat :
      LET b == FirstFit(heap, words)
      IN IF b = NULL
         THEN \A f \in FreeBlocks : get_size(mem[f]) < words
         ELSE b \in FreeBlocks /\ get_size(mem[b]) >= words

\* The invariant implies that the search of kmalloc is exact.
LEMMA SearchOfHeap ==
    ASSUME HeapInv
    PROVE  SearchIsExact
<1>0. PICK k \in 1 .. MAX_KERNEL_HEAP_SIZE : \E sz, F, rank :
           /\ HeapHeld(heap, k * WORDS_IN_PAGE, sz, F, rank, live)
           /\ k * WORDS_IN_PAGE \in Nat /\ k * WORDS_IN_PAGE < ALLOCATED
    BY HeapOfInv
<1>1. PICK sz, F, rank :
           /\ HeapHeld(heap, k * WORDS_IN_PAGE, sz, F, rank, live)
           /\ k * WORDS_IN_PAGE \in Nat /\ k * WORDS_IN_PAGE < ALLOCATED
    BY <1>0
<1> DEFINE n == k * WORDS_IN_PAGE
<1>2. n \in Nat /\ n < ALLOCATED /\ HeapHeld(heap, n, sz, F, rank, live)
    BY <1>1
<1> HIDE DEF n
<1>3. HeapIs(heap, n, sz, F, rank)
    BY <1>2 DEF HeapHeld
<1>4. FreeBlocks = F
    BY <1>2, BlocksAre
<1>5. Tiles(sz, n) /\ F \subseteq DOMAIN sz /\ \A f \in DOMAIN sz : get_size(mem[f]) = sz[f]
    <2>1. HeapShown(n, sz, F) /\ BlocksShown(sz, F)
        BY <1>2, HeapVariables
    <2> QED BY <2>1 DEF HeapShown, BlocksShown
<1>6. \A f \in F : sz[f] \in Nat /\ get_size(mem[f]) = sz[f]
    <2>1. \A f \in DOMAIN sz : sz[f] \in Nat
        BY <1>2, <1>5, BlockBounds
    <2> QED BY <1>5, <2>1
<1> SUFFICES ASSUME NEW words \in Nat
             PROVE  IF FirstFit(heap, words) = NULL
                    THEN \A f \in FreeBlocks : get_size(mem[f]) < words
                    ELSE /\ FirstFit(heap, words) \in FreeBlocks
                         /\ get_size(mem[FirstFit(heap, words)]) >= words
    BY DEF SearchIsExact
<1>7. CASE FirstFit(heap, words) = NULL
    <2>1. \A f \in F : ~(sz[f] >= words)
        BY <1>2, <1>3, <1>7, FirstFitPasses
    <2> QED BY <1>4, <1>6, <1>7, <2>1
<1>8. CASE FirstFit(heap, words) # NULL
    <2>1. FirstFit(heap, words) \in F /\ sz[FirstFit(heap, words)] >= words
        BY <1>2, <1>3, <1>8, FirstFitFits
    <2> QED BY <1>4, <1>6, <1>8, <2>1
<1> QED BY <1>7, <1>8

\* kmalloc's search over the list always finds a free block that is large enough if
\* the heap has one: the heap grows, or a request fails, only when it must.
THEOREM SearchAlwaysExact ==
    ASSUME AnyShrink = FALSE
    PROVE  Spec => []SearchIsExact
<1>1. HeapInv => SearchIsExact
    BY SearchOfHeap
<1>2. Spec => []HeapInv
    BY HeapInductive
<1> QED BY <1>1, <1>2, PTL

-----------------------------------------------------------------------------
(* The heap implements the abstract one *)

RegionOf(sz, b) == [ptr |-> b + 3, words |-> sz[b] - 4]
RegionsOf(sz, A) == {RegionOf(sz, b) : b \in A}

\* The region of a new block is new, and apart from all others.
GivesRegion(sz, A, held, sz2, A2, held2) ==
    \E r \in RegionsOf(sz2, A2) \ RegionsOf(sz, A), l \in held2 \ held :
       /\ held2 = held \cup {l}
       /\ RegionsOf(sz2, A2) = RegionsOf(sz, A) \cup {r}
       /\ l.ptr = r.ptr /\ l.words <= r.words
       /\ \A s \in RegionsOf(sz, A) : Abstract!Words(r) \cap Abstract!Words(s) = {}

\* When a block is given, exactly its region is new, and no other meets it.
LEMMA GivenRegion ==
    ASSUME NEW n \in Nat, NEW sz, Tiles(sz, n), NEW F, NEW m, NEW held,
           Clients(m, sz, DOMAIN sz \ F, held),
           NEW n2 \in Nat, NEW sz2, Tiles(sz2, n2), NEW F2, NEW held2,
           Given(sz, F, held, sz2, F2, held2)
    PROVE  GivesRegion(sz, DOMAIN sz \ F, held, sz2, DOMAIN sz2 \ F2, held2)
<1> DEFINE A == DOMAIN sz \ F
           A2 == DOMAIN sz2 \ F2
<1>1. PICK b \in A2, w \in Nat :
           /\ b \notin A /\ A2 = A \cup {b} /\ SameSizes(sz, sz2, A)
           /\ w + 4 <= sz2[b] /\ held2 = held \cup {[ptr |-> b + 3, words |-> w]}
    BY DEF Given
<1> DEFINE r == RegionOf(sz2, b)
           l == [ptr |-> b + 3, words |-> w]
<1>2. \A c \in A2 : c \in DOMAIN sz2 /\ c \in Nat /\ sz2[c] \in Nat /\ sz2[c] >= 4
    BY BlockBounds
<1>3. A \subseteq A2 /\ \A c \in A : RegionOf(sz2, c) = RegionOf(sz, c)
    BY <1>1 DEF SameSizes, RegionOf
<1>4. RegionsOf(sz2, A2) = RegionsOf(sz, A) \cup {r}
    BY <1>1, <1>3 DEF RegionsOf
<1>5. \A c \in A : c + 3 # b + 3 /\ c # b
    BY <1>1, <1>2, <1>3
<1>6. r.ptr = b + 3 /\ r.words = sz2[b] - 4
    BY DEF RegionOf
<1>7. r \notin RegionsOf(sz, A)
    <2> SUFFICES ASSUME NEW c \in A, r = RegionOf(sz, c) PROVE FALSE
        BY DEF RegionsOf
    <2>1. r.ptr = c + 3
        BY DEF RegionOf
    <2> QED BY <1>5, <1>6, <2>1
<1>8. l \notin held
    <2> SUFFICES ASSUME l \in held PROVE FALSE
        OBVIOUS
    <2>1. l.ptr \in {q.ptr : q \in held} /\ l.ptr = b + 3
        OBVIOUS
    <2>2. {q.ptr : q \in held} = {c + 3 : c \in A}
        BY DEF Clients
    <2>3. b + 3 \in {c + 3 : c \in A}
        BY <2>1, <2>2
    <2> QED BY <1>5, <2>3
<1>9. l.words <= r.words /\ l.ptr = r.ptr
    BY <1>1, <1>2, <1>6
<1>10. ASSUME NEW s \in RegionsOf(sz, A) PROVE Abstract!Words(r) \cap Abstract!Words(s) = {}
    <2>1. PICK c \in A : s = RegionOf(sz2, c)
        BY <1>3 DEF RegionsOf
    <2>2. s.ptr = c + 3 /\ s.words = sz2[c] - 4
        BY <2>1 DEF RegionOf
    <2>3. c # b /\ c \in DOMAIN sz2 /\ b \in DOMAIN sz2 /\ c \in A2 /\ b \in A2
        BY <1>2, <1>3, <1>5
    <2>4. \A i \in c .. c + sz2[c] - 1 : i \notin b .. b + sz2[b] - 1
        BY <2>3, OtherBlock
    <2>5. \A i \in Abstract!Words(r) : i \in b .. b + sz2[b] - 1
        BY <1>2, <1>6, <2>3 DEF Abstract!Words
    <2>6. \A i \in Abstract!Words(s) : i \in c .. c + sz2[c] - 1
        BY <1>2, <2>2, <2>3 DEF Abstract!Words
    <2> QED BY <2>4, <2>5, <2>6
<1>11. r \in RegionsOf(sz2, A2) \ RegionsOf(sz, A) /\ l \in held2 \ held /\ held2 = held \cup {l}
    BY <1>1, <1>4, <1>7, <1>8
<1> HIDE DEF r, l, A, A2
<1>12. GivesRegion(sz, A, held, sz2, A2, held2)
    BY <1>4, <1>9, <1>10, <1>11 DEF GivesRegion
<1> QED BY <1>12 DEF A, A2

\* The region of the block that is freed goes, and no other.
TakesRegion(sz, A, held, sz2, A2, held2) ==
    \E r \in RegionsOf(sz, A), l \in held :
       /\ l.ptr = r.ptr /\ held2 = held \ {l}
       /\ RegionsOf(sz2, A2) = RegionsOf(sz, A) \ {r}

\* When a block is taken back, exactly its region goes.
LEMMA TakenRegion ==
    ASSUME NEW n \in Nat, NEW sz, Tiles(sz, n), NEW F, NEW m, NEW held,
           Clients(m, sz, DOMAIN sz \ F, held), NEW q \in held,
           NEW sz2, NEW F2, NEW held2, TakenBack(sz, F, held, sz2, F2, held2, q)
    PROVE  TakesRegion(sz, DOMAIN sz \ F, held, sz2, DOMAIN sz2 \ F2, held2)
<1> DEFINE A == DOMAIN sz \ F
           A2 == DOMAIN sz2 \ F2
           b == q.ptr - 3
           r == RegionOf(sz, b)
<1>1. A2 = A \ {b} /\ SameSizes(sz, sz2, A \ {b}) /\ held2 = held \ {q}
    BY DEF TakenBack
<1>2. A \subseteq DOMAIN sz
    OBVIOUS
<1>3. \A c \in A : c \in Nat
    BY BlockBounds
<1> HIDE DEF A, A2
<1>4. RegionIn(n, sz, A, q)
    BY <1>2, BlockOfRegion DEF A
<1>5. b \in A /\ b + 3 = q.ptr
    BY <1>4 DEF RegionIn
<1> HIDE DEF b
<1>6. r.ptr = b + 3 /\ r \in RegionsOf(sz, A)
    BY <1>5 DEF RegionOf, RegionsOf
<1>7. \A c \in A2 : RegionOf(sz2, c) = RegionOf(sz, c)
    BY <1>1 DEF SameSizes, RegionOf
<1>8. \A c \in A : c # b => RegionOf(sz, c) # r
    <2> SUFFICES ASSUME NEW c \in A, c # b, RegionOf(sz, c) = r PROVE FALSE
        OBVIOUS
    <2>1. r.ptr = c + 3
        BY DEF RegionOf
    <2> QED BY <1>3, <1>5, <1>6, <2>1
<1> HIDE DEF r
<1>9. RegionsOf(sz2, A2) = RegionsOf(sz, A) \ {r}
    <2>1. ASSUME NEW s \in RegionsOf(sz2, A2) PROVE s \in RegionsOf(sz, A) \ {r}
        BY <1>1, <1>7, <1>8 DEF RegionsOf
    <2>2. ASSUME NEW s \in RegionsOf(sz, A), s # r PROVE s \in RegionsOf(sz2, A2)
        <3>1. PICK c \in A : s = RegionOf(sz, c)
            BY DEF RegionsOf
        <3>2. c \in A2
            BY <1>1, <2>2, <3>1 DEF r
        <3> QED BY <1>7, <3>1, <3>2 DEF RegionsOf
    <2> QED BY <2>1, <2>2
<1>10. TakesRegion(sz, A, held, sz2, A2, held2)
    BY <1>1, <1>5, <1>6, <1>9 DEF TakesRegion
<1> QED BY <1>10 DEF A, A2

\* The region of the block that shrinks gets smaller, and no other changes.
CutsRegion(sz, A, held, sz2, A2, held2) ==
    \E r \in RegionsOf(sz, A), s \in RegionsOf(sz2, A2), l \in held, k \in held2 :
       /\ l.ptr = r.ptr /\ k.ptr = r.ptr /\ s.ptr = r.ptr
       /\ k.words <= s.words /\ s.words <= r.words
       /\ held2 = (held \ {l}) \cup {k}
       /\ RegionsOf(sz2, A2) = (RegionsOf(sz, A) \ {r}) \cup {s}

\* When a block is cut, exactly its region changes, and gets no larger.
LEMMA CutRegion ==
    ASSUME NEW n \in Nat, NEW sz, Tiles(sz, n), NEW F, NEW m, NEW held,
           Clients(m, sz, DOMAIN sz \ F, held), NEW q \in held,
           NEW sz2, Tiles(sz2, n), NEW F2, NEW held2, Cut(sz, F, held, sz2, F2, held2, q)
    PROVE  CutsRegion(sz, DOMAIN sz \ F, held, sz2, DOMAIN sz2 \ F2, held2)
<1> DEFINE A == DOMAIN sz \ F
           A2 == DOMAIN sz2 \ F2
           b == q.ptr - 3
           r == RegionOf(sz, b)
           s == RegionOf(sz2, b)
<1>1. PICK w \in Nat :
           /\ A2 = A /\ SameSizes(sz, sz2, A \ {b})
           /\ w + 4 <= sz2[b] /\ sz2[b] <= sz[b]
           /\ held2 = (held \ {q}) \cup {[ptr |-> q.ptr, words |-> w]}
    BY DEF Cut
<1> DEFINE k == [ptr |-> q.ptr, words |-> w]
<1>2. A \subseteq DOMAIN sz /\ A2 \subseteq DOMAIN sz2
    OBVIOUS
<1>3. \A c \in A : c \in Nat /\ sz[c] \in Nat
    BY BlockBounds
<1>4. \A c \in A2 : sz2[c] \in Nat
    BY BlockBounds
<1> HIDE DEF A, A2
<1>5. RegionIn(n, sz, A, q)
    BY <1>2, BlockOfRegion DEF A
<1>6. b \in A /\ b + 3 = q.ptr
    BY <1>5 DEF RegionIn
<1> HIDE DEF b
<1>7. /\ r.ptr = b + 3 /\ r.words = sz[b] - 4 /\ r \in RegionsOf(sz, A)
      /\ s.ptr = b + 3 /\ s.words = sz2[b] - 4 /\ s \in RegionsOf(sz2, A2)
    BY <1>1, <1>6 DEF RegionOf, RegionsOf
<1>8. \A c \in A : c # b => RegionOf(sz2, c) = RegionOf(sz, c) /\ RegionOf(sz, c) # r
    <2> TAKE c \in A
    <2> SUFFICES ASSUME c # b PROVE RegionOf(sz2, c) = RegionOf(sz, c) /\ RegionOf(sz, c) # r
        OBVIOUS
    <2>1. sz2[c] = sz[c]
        BY <1>1 DEF SameSizes
    <2>2. RegionOf(sz, c).ptr = c + 3 /\ c + 3 # b + 3
        BY <1>3, <1>6 DEF RegionOf
    <2>3. RegionOf(sz2, c) = RegionOf(sz, c)
        BY <2>1 DEF RegionOf
    <2> QED BY <1>7, <2>2, <2>3
<1>9. k.words <= s.words /\ s.words <= r.words /\ k.ptr = r.ptr /\ k \in held2
    BY <1>1, <1>3, <1>4, <1>6, <1>7
<1>10. held2 = (held \ {q}) \cup {k}
    BY <1>1
<1> HIDE DEF k
<1>11. RegionsOf(sz2, A2) = (RegionsOf(sz, A) \ {r}) \cup {s}
    <2>1. ASSUME NEW x \in RegionsOf(sz2, A2), x # s PROVE x \in RegionsOf(sz, A) \ {r}
        <3>1. PICK c \in A : x = RegionOf(sz2, c)
            BY <1>1 DEF RegionsOf
        <3>2. c # b
            BY <2>1, <3>1
        <3> HIDE DEF r
        <3> QED BY <1>8, <3>1, <3>2 DEF RegionsOf
    <2>2. ASSUME NEW x \in RegionsOf(sz, A), x # r PROVE x \in RegionsOf(sz2, A2)
        <3>1. PICK c \in A : x = RegionOf(sz, c)
            BY DEF RegionsOf
        <3>2. c # b
            BY <2>2, <3>1
        <3> HIDE DEF r
        <3> QED BY <1>1, <1>8, <3>1, <3>2 DEF RegionsOf
    <2> HIDE DEF r, s
    <2> QED BY <1>7, <2>1, <2>2
<1> HIDE DEF r, s
<1>12. CutsRegion(sz, A, held, sz2, A2, held2)
    BY <1>6, <1>7, <1>9, <1>10, <1>11 DEF CutsRegion
<1> QED BY <1>12 DEF A, A2

\* The regions of a heap that is held.
LEMMA RegionsHeld ==
    ASSUME NEW n \in Nat, n < ALLOCATED, NEW sz, NEW F, NEW rank
    PROVE  HeapHeld(heap, n, sz, F, rank, live) => Regions = RegionsOf(sz, DOMAIN sz \ F)
<1> SUFFICES ASSUME HeapHeld(heap, n, sz, F, rank, live)
             PROVE  Regions = RegionsOf(sz, DOMAIN sz \ F)
    OBVIOUS
<1>1. Regions = {[ptr |-> b + 3, words |-> sz[b] - 4] : b \in DOMAIN sz \ F}
    BY RegionsAre
<1> QED BY <1>1 DEF RegionsOf, RegionOf

\* The same of the next state.
LEMMA RegionsHeldAfter ==
    ASSUME NEW n \in Nat, n < ALLOCATED, NEW sz, NEW F, NEW rank
    PROVE  HeapHeld(heap, n, sz, F, rank, live)' => Regions' = RegionsOf(sz, DOMAIN sz \ F)
<1> DEFINE Held == HeapHeld(heap, n, sz, F, rank, live)
           Are == Regions = RegionsOf(sz, DOMAIN sz \ F)
<1>1. Held => Are
    BY RegionsHeld
<1>2. Held' => Are'
    <2> HIDE DEF Held, Are
    <2> QED BY <1>1, PTL
<1> QED BY <1>2

\* At first no region is held.
LEMMA InitMaps ==
    ASSUME Init
    PROVE  Abstract!Init
<1>1. HeapInv /\ live = {} /\ faulted = FALSE
    BY InitHeap DEF Init
<1>0. PICK k \in 1 .. MAX_KERNEL_HEAP_SIZE : \E sz, F, rank :
           /\ HeapHeld(heap, k * WORDS_IN_PAGE, sz, F, rank, live)
           /\ k * WORDS_IN_PAGE \in Nat /\ k * WORDS_IN_PAGE < ALLOCATED
    BY <1>1, HeapOfInv
<1>2. PICK sz, F, rank :
           /\ HeapHeld(heap, k * WORDS_IN_PAGE, sz, F, rank, live)
           /\ k * WORDS_IN_PAGE \in Nat /\ k * WORDS_IN_PAGE < ALLOCATED
    BY <1>0
<1> DEFINE n == k * WORDS_IN_PAGE
<1>3. n \in Nat /\ n < ALLOCATED /\ HeapHeld(heap, n, sz, F, rank, live)
    BY <1>2
<1> HIDE DEF n
<1>4. Regions = RegionsOf(sz, DOMAIN sz \ F) /\ Clients(mem, sz, DOMAIN sz \ F, live)
    BY <1>3, RegionsHeld, HeapVariables DEF HeapShown, BlocksShown
<1>5. {c + 3 : c \in DOMAIN sz \ F} = {}
    BY <1>1, <1>4 DEF Clients
<1>6. DOMAIN sz \ F = {}
    BY <1>5
<1>7. Regions = {}
    BY <1>4, <1>6 DEF RegionsOf
<1> QED BY <1>1, <1>7 DEF Abstract!Init

\* Each step is one of the abstract heap, or changes nothing of it.
LEMMA NextMaps ==
    ASSUME AnyShrink = FALSE, HeapInv, [Next]_vars
    PROVE  [Abstract!Next]_(Abstract!vars)
<1>0. PICK k \in 1 .. MAX_KERNEL_HEAP_SIZE : \E sz, F, rank :
           /\ HeapHeld(heap, k * WORDS_IN_PAGE, sz, F, rank, live)
           /\ k * WORDS_IN_PAGE \in Nat /\ k * WORDS_IN_PAGE < ALLOCATED
    BY HeapOfInv
<1>1. PICK sz, F, rank :
           /\ HeapHeld(heap, k * WORDS_IN_PAGE, sz, F, rank, live)
           /\ k * WORDS_IN_PAGE \in Nat /\ k * WORDS_IN_PAGE < ALLOCATED
    BY <1>0
<1> DEFINE n == k * WORDS_IN_PAGE
           A == DOMAIN sz \ F
<1>2. n \in Nat /\ n < ALLOCATED /\ HeapHeld(heap, n, sz, F, rank, live)
    BY <1>1
<1>3. \A size \in Sizes : size \in Nat
    BY HeapAssumption
<1> HIDE DEF n
<1>4. /\ Regions = RegionsOf(sz, A) /\ Tiles(sz, n)
      /\ Clients(mem, sz, A, live)
    BY <1>2, RegionsHeld, HeapVariables DEF HeapShown, BlocksShown
<1>5. ASSUME mem' = mem, head' = head, live' = live
      PROVE  Regions' = Regions
    <2>1. heap' = heap
        BY <1>5 DEF heap
    <2>2. HeapHeld(heap', n, sz, F, rank, live')
        BY <1>2, <1>5, <2>1
    <2>3. Regions' = RegionsOf(sz, DOMAIN sz \ F)
        BY <1>2, <2>2, RegionsHeldAfter
    <2> QED BY <1>4, <2>3
<1>6. ASSUME Faulted, ~faulted PROVE Abstract!Halt
    BY <1>5, <1>6 DEF Faulted, Abstract!Halt
<1>7. ASSUME NEW size \in Sizes, kmalloc(size)
      PROVE  [Abstract!Next]_(Abstract!vars)
    <2>1. /\ faulted' = faulted
          /\ \E k1 \in 1 .. MAX_KERNEL_HEAP_SIZE : \E sz2, F2, rank2 :
                /\ HeapHeld(heap', k1 * WORDS_IN_PAGE, sz2, F2, rank2, live')
                /\ \/ NothingGiven(sz, F, live, sz2, F2, live')
                   \/ Given(sz, F, live, sz2, F2, live')
        BY <1>1, <1>3, <1>7, KmallocGives
    <2>0. PICK k1 \in 1 .. MAX_KERNEL_HEAP_SIZE : \E sz2, F2, rank2 :
                /\ HeapHeld(heap', k1 * WORDS_IN_PAGE, sz2, F2, rank2, live')
                /\ \/ NothingGiven(sz, F, live, sz2, F2, live')
                   \/ Given(sz, F, live, sz2, F2, live')
        BY <2>1
    <2>2. PICK sz2, F2, rank2 :
                /\ HeapHeld(heap', k1 * WORDS_IN_PAGE, sz2, F2, rank2, live')
                /\ \/ NothingGiven(sz, F, live, sz2, F2, live')
                   \/ Given(sz, F, live, sz2, F2, live')
        BY <2>0
    <2> DEFINE n2 == k1 * WORDS_IN_PAGE
               A2 == DOMAIN sz2 \ F2
    <2>3. n2 \in Nat /\ n2 < ALLOCATED
        BY PoolSize
    <2>4. HeapHeld(heap', n2, sz2, F2, rank2, live')
        BY <2>2
    <2> HIDE DEF n2
    <2>5. Regions' = RegionsOf(sz2, A2) /\ Tiles(sz2, n2)
        <3>1. Tiles(sz2, n2)
            BY <2>4 DEF HeapHeld, HeapIs, Shape
        <3> QED BY <2>3, <2>4, <3>1, RegionsHeldAfter
    <2>6. CASE NothingGiven(sz, F, live, sz2, F2, live')
        <3>1. A2 = A /\ SameSizes(sz, sz2, A) /\ live' = live
            BY <2>6 DEF NothingGiven
        <3>2. Regions' = Regions
            BY <1>4, <2>5, <3>1 DEF RegionsOf, RegionOf, SameSizes
        <3> QED BY <2>1, <3>1, <3>2 DEF Abstract!vars
    <2>7. CASE Given(sz, F, live, sz2, F2, live')
        <3>1. GivesRegion(sz, A, live, sz2, A2, live')
            BY <1>2, <1>4, <2>3, <2>5, <2>7, GivenRegion
        <3>2. GivesRegion(sz, A, live, sz2, A2, live')
              /\ Regions = RegionsOf(sz, A) /\ Regions' = RegionsOf(sz2, A2)
            BY <1>4, <2>5, <3>1
        <3> HIDE DEF A, A2
        <3>3. Abstract!Allocate
            BY <2>1, <3>2 DEF GivesRegion, Abstract!Allocate
        <3>4. ~faulted
            BY <1>7 DEF kmalloc
        <3> QED BY <3>3, <3>4 DEF Abstract!Next
    <2> QED BY <2>2, <2>6, <2>7
<1>8. ASSUME NEW r \in live, kfree(r)
      PROVE  Abstract!Next
    <2>1. ~faulted
        BY <1>8 DEF kfree
    <2>2. CASE Faulted
        BY <1>6, <2>1, <2>2 DEF Abstract!Next
    <2>3. ASSUME faulted' = faulted, NEW sz2, NEW F2, NEW rank2,
                 HeapHeld(heap', n, sz2, F2, rank2, live'),
                 TakenBack(sz, F, live, sz2, F2, live', r)
          PROVE  Abstract!Next
        <3> DEFINE A2 == DOMAIN sz2 \ F2
        <3>1. Regions' = RegionsOf(sz2, A2)
            BY <1>2, <2>3, RegionsHeldAfter
        <3>2. TakesRegion(sz, A, live, sz2, A2, live')
            BY <1>2, <1>4, <2>3, TakenRegion
        <3>3. Regions = RegionsOf(sz, A)
            BY <1>4
        <3> HIDE DEF A, A2
        <3>4. Abstract!Free
            BY <2>3, <3>1, <3>2, <3>3 DEF TakesRegion, Abstract!Free
        <3> QED BY <2>1, <3>4 DEF Abstract!Next
    <2> QED BY <1>2, <1>8, <2>2, <2>3, KfreeTakes
<1>9. ASSUME NEW r \in live, NEW size \in Sizes, krealloc(r, size)
      PROVE  Abstract!Next
    <2>1. ~faulted
        BY <1>9 DEF krealloc
    <2>2. CASE Faulted
        BY <1>6, <2>1, <2>2 DEF Abstract!Next
    <2>3. ASSUME faulted' = faulted, NEW sz2, NEW F2, NEW rank2,
                 HeapHeld(heap', n, sz2, F2, rank2, live'),
                 Cut(sz, F, live, sz2, F2, live', r)
          PROVE  Abstract!Next
        <3> DEFINE A2 == DOMAIN sz2 \ F2
        <3>1. Regions' = RegionsOf(sz2, A2)
            BY <1>2, <2>3, RegionsHeldAfter
        <3>2. Tiles(sz2, n)
            BY <2>3 DEF HeapHeld, HeapIs, Shape
        <3>3. CutsRegion(sz, A, live, sz2, A2, live')
            BY <1>2, <1>4, <2>3, <3>2, CutRegion
        <3>4. Regions = RegionsOf(sz, A)
            BY <1>4
        <3> HIDE DEF A, A2
        <3>5. Abstract!Resize
            BY <2>3, <3>1, <3>3, <3>4 DEF CutsRegion, Abstract!Resize
        <3> QED BY <2>1, <3>5 DEF Abstract!Next
    <2> QED BY <1>2, <1>3, <1>9, <2>2, <2>3, KreallocCuts
<1>10. CASE UNCHANGED vars
    <2>1. mem' = mem /\ head' = head /\ live' = live /\ faulted' = faulted
        BY <1>10 DEF vars
    <2>2. Regions' = Regions
        BY <1>5, <2>1
    <2> QED BY <2>1, <2>2 DEF Abstract!vars
<1>11. CASE Next
    BY <1>7, <1>8, <1>9, <1>11 DEF Next
<1> QED BY <1>10, <1>11

\* Every kmalloc, kfree and krealloc is a step of the abstract heap, or changes nothing
\* that a client can see: it gives, takes or shrinks the region of one client, which
\* overlaps no other, and leaves the regions of all others alone.
THEOREM HeapRefines ==
    ASSUME AnyShrink = FALSE
    PROVE  Spec => ImplementsAbstractHeap
<1>1. Init => Abstract!Init
    BY InitMaps
<1>2. HeapInv /\ [Next]_vars => [Abstract!Next]_(Abstract!vars)
    BY NextMaps
<1>3. Spec => []HeapInv
    BY HeapInductive
<1> QED BY <1>1, <1>2, <1>3, PTL DEF Spec, ImplementsAbstractHeap, Abstract!Spec
=============================================================================
