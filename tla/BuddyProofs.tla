----------------------------- MODULE BuddyProofs -----------------------------
(***************************************************************************)
(* Theorems about BuddyAllocator, for every number of levels and pages and *)
(* every use of an instance.                                               *)
(***************************************************************************)
EXTENDS BuddyAllocator, NatLemmas, TLAPS

-----------------------------------------------------------------------------
(* Powers of two, logarithms, quotients *)

\* 1u << n is 1 shifted by one place, n times.
LEMMA Pow2Equations ==
    /\ pow2 \in [Nat -> Nat \ {0}] /\ pow2[0] = 1
    /\ \A n \in Nat : pow2[n + 1] = 2 * pow2[n]
<1> DEFINE S == Nat \ {0}
           g == [ns \in Nat \X S |-> 2 * ns[2]]
           T(p) == [n \in Nat |-> IF n = 0 THEN 1 ELSE 2 * p[n - 1]]
<1>1. 1 \in S /\ g \in [Nat \X S -> S]
    OBVIOUS
<1>2. \A n \in Nat, s \in S : g[<<n, s>>] = 2 * s
    OBVIOUS
<1> HIDE DEF g
<1>3. PICK F : Recursion(S, 1, g, F)
    <2> HIDE DEF S
    <2> QED BY <1>1, RecursionOnNat
<1>4. /\ F \in [Nat -> S] /\ F[0] = 1
      /\ \A n \in Nat : F[n + 1] = 2 * F[n]
    BY <1>2, <1>3 DEF Recursion
<1>5. F = T(F)
    <2>1. ASSUME NEW n \in Nat PROVE F[n] = IF n = 0 THEN 1 ELSE 2 * F[n - 1]
        <3>1. CASE n # 0
            <4>1. n - 1 \in Nat /\ (n - 1) + 1 = n
                BY <3>1
            <4> QED BY <1>4, <3>1, <4>1
        <3> QED BY <1>4, <3>1
    <2> QED BY <1>4, <2>1
<1>6. pow2 = T(pow2)
    <2>1. pow2 = CHOOSE p : p = T(p)
        BY DEF pow2
    <2> HIDE DEF T
    <2> QED BY <1>5, <2>1
<1>7. \A n \in Nat : pow2[n] = IF n = 0 THEN 1 ELSE 2 * pow2[n - 1]
    BY <1>6
<1>8. pow2[0] = 1
    BY <1>7
<1>9. \A n \in Nat : pow2[n + 1] = 2 * pow2[n]
    <2> SUFFICES ASSUME NEW n \in Nat PROVE pow2[n + 1] = 2 * pow2[n]
        OBVIOUS
    <2>1. n + 1 \in Nat /\ n + 1 # 0 /\ (n + 1) - 1 = n
        OBVIOUS
    <2> QED BY <1>7, <2>1
<1>10. \A n \in Nat : pow2[n] \in S
    <2> DEFINE N == {n \in Nat : pow2[n] \in S}
    <2>1. 0 \in N /\ \A n \in Nat : n \in N => n + 1 \in N
        BY <1>8, <1>9
    <2>2. Nat \subseteq N
        <3> HIDE DEF N
        <3> QED BY <2>1, SetInduction
    <2> QED BY <2>2
<1>11. pow2 = [n \in Nat |-> pow2[n]]
    BY <1>6
<1> QED BY <1>8, <1>9, <1>10, <1>11

\* The first powers.
LEMMA Pow2Small == pow2[0] = 1 /\ pow2[1] = 2 /\ pow2[2] = 4
<1>1. 0 + 1 = 1 /\ 1 + 1 = 2
    OBVIOUS
<1> QED BY <1>1, Pow2Equations

\* Shifting by m and n places is shifting by m + n.
LEMMA Pow2Sum ==
    ASSUME NEW m \in Nat, NEW n \in Nat
    PROVE  pow2[m + n] = pow2[m] * pow2[n]
<1> DEFINE N == {k \in Nat : pow2[m + k] = pow2[m] * pow2[k]}
<1>1. pow2[m] \in Nat /\ m + 0 = m
    BY Pow2Equations
<1>2. 0 \in N
    BY <1>1, Pow2Equations
<1>3. ASSUME NEW k \in Nat, k \in N PROVE k + 1 \in N
    <2>1. pow2[m + (k + 1)] = 2 * pow2[m + k]
        <3>1. m + (k + 1) = (m + k) + 1 /\ m + k \in Nat
            OBVIOUS
        <3> QED BY <3>1, Pow2Equations
    <2>2. pow2[k + 1] = 2 * pow2[k] /\ pow2[k] \in Nat
        BY Pow2Equations
    <2>3. 2 * (pow2[m] * pow2[k]) = pow2[m] * (2 * pow2[k])
        BY <1>1, <2>2
    <2> QED BY <1>3, <2>1, <2>2, <2>3
<1>4. Nat \subseteq N
    <2> HIDE DEF N
    <2> QED BY <1>2, <1>3, SetInduction
<1> QED BY <1>4

\* A power of two is larger than its exponent.
LEMMA Pow2Grows ==
    ASSUME NEW n \in Nat
    PROVE  n < pow2[n]
<1> DEFINE N == {k \in Nat : k < pow2[k]}
<1>1. 0 \in N /\ \A k \in Nat : k \in N => k + 1 \in N
    BY Pow2Equations
<1>2. Nat \subseteq N
    <2> HIDE DEF N
    <2> QED BY <1>1, SetInduction
<1> QED BY <1>2

\* log2() of a positive number is a number of shifts.
LEMMA Log2Type ==
    ASSUME NEW x \in Nat \ {0}
    PROVE  log2(x) \in Nat
<1> DEFINE N == {k \in Nat : x < pow2[k + 1]}
<1>1. x \in N
    BY Pow2Grows, Pow2Equations
<1>2. Min(N) \in N /\ \A k \in N : Min(N) <= k
    <2>1. N \subseteq Nat /\ N # {}
        BY <1>1
    <2> HIDE DEF N
    <2> QED BY <2>1, MinIsLeast
<1> DEFINE l == Min(N)
<1>3. l \in Nat /\ x < pow2[l + 1] /\ l <= x
    BY <1>1, <1>2
<1>4. pow2[l] <= x
    <2> HIDE DEF l
    <2>1. CASE l = 0
        BY <2>1, Pow2Equations
    <2>2. CASE l # 0
        <3>1. l - 1 \in Nat /\ (l - 1) + 1 = l /\ ~ (l <= l - 1)
            BY <1>3, <2>2
        <3>2. l - 1 \notin N
            BY <1>2, <3>1 DEF l
        <3>3. ~ (x < pow2[l])
            BY <3>1, <3>2
        <3> QED BY <1>3, <3>3, Pow2Equations
    <2> QED BY <2>1, <2>2
<1> HIDE DEF l
<1>5. \E k \in 0 .. x : pow2[k] <= x /\ x < pow2[k + 1]
    BY <1>3, <1>4
<1> QED BY <1>5 DEF log2

\* The amounts that the proofs are about: one page is a block of level 0, two
\* pages are a block of level 1.
LEMMA Log2Small == log2(1) = 0 /\ log2(2) = 1
<1>1. 0 + 1 = 1 /\ 1 + 1 = 2 /\ 2 + 1 = 3 /\ pow2[3] = 8
    BY Pow2Equations, Pow2Small
<1>2. \A k \in 0 .. 1 : pow2[k] <= 1 /\ 1 < pow2[k + 1] <=> k = 0
    BY <1>1, Pow2Small
<1>3. \A k \in 0 .. 2 : pow2[k] <= 2 /\ 2 < pow2[k + 1] <=> k = 1
    BY <1>1, Pow2Small
<1> QED BY <1>2, <1>3 DEF log2

-----------------------------------------------------------------------------
(* The layout of the bits *)

\* What the sizes say: the largest blocks come first and fill the memory.
LEMMA Sizes ==
    /\ number_of_levels \in Nat \ {0} /\ PAGES \in Nat \ {0}
    /\ WORD \in Nat \ {0} /\ BYTE \in Nat \ {0}
    /\ number_of_highest_mem_size \in Nat \ {0}
    /\ PAGES = number_of_highest_mem_size * pow2[number_of_levels - 1]
    /\ 0 \in Levels
    /\ \A i \in Levels : /\ i \in Nat /\ i < number_of_levels
                         /\ number_of_levels - i - 1 \in Nat
                         /\ number_of_levels - 1 - i = number_of_levels - i - 1
<1> DEFINE b == pow2[number_of_levels - 1]
           H == PAGES \div b
<1>1. number_of_levels - 1 \in Nat /\ number_of_levels \in Nat \ {0}
    BY SizesAssumption
<1>2. b \in Nat \ {0} /\ PAGES \in Nat \ {0} /\ PAGES % b = 0
    BY <1>1, SizesAssumption, Pow2Equations
<1>3. H \in Nat \ {0} /\ PAGES = H * b
    <2> DEFINE p == PAGES
    <2>1. p \in Nat \ {0} /\ p % b = 0
        BY <1>2
    <2> HIDE DEF b, p
    <2>2. p \div b \in Nat \ {0} /\ p = (p \div b) * b
        BY <1>2, <2>1, Z3
    <2> QED BY <2>2 DEF p
<1> HIDE DEF b, H
<1>4. number_of_highest_mem_size = H
    BY DEF number_of_highest_mem_size, H, b
<1>5. 0 \in Levels
      /\ \A i \in Levels : /\ i \in Nat /\ i < number_of_levels
                           /\ number_of_levels - i - 1 \in Nat
                           /\ number_of_levels - 1 - i = number_of_levels - i - 1
    BY <1>1 DEF Levels
<1> QED BY <1>1, <1>2, <1>3, <1>4, <1>5, SizesAssumption DEF b

\* The index a level starts at, and its number of blocks.
LEMMA LevelTypes ==
    ASSUME NEW i \in Levels
    PROVE  Start(i) \in Nat /\ Entries(i) \in Nat /\ Entries(i) <= PAGES
<1> DEFINE a == pow2[number_of_levels - i - 1]
           H == number_of_highest_mem_size
           p == PAGES
<1>1. a \in Nat \ {0} /\ H \in Nat /\ pow2[i] \in Nat \ {0} /\ p \in Nat
    BY Sizes, Pow2Equations
<1>2. (a - 1) * H \in Nat
    <2> HIDE DEF a, H
    <2>1. a - 1 \in Nat
        BY <1>1
    <2> QED BY <1>1, <2>1
<1>3. p \div pow2[i] \in Nat /\ p \div pow2[i] <= p
    <2> HIDE DEF p
    <2>1. p \div pow2[i] \in Nat /\ (p \div pow2[i]) * pow2[i] <= p
        BY <1>1, QuotientType
    <2>2. (p \div pow2[i]) * 1 <= (p \div pow2[i]) * pow2[i]
        BY <1>1, <2>1
    <2> QED BY <1>1, <2>1, <2>2
<1> QED BY <1>2, <1>3 DEF Start, Entries

\* The bits of level 0 are the last ones: of a block of the other levels that a
\* page is a part of, the bit lies before them.
LEMMA BitAboveBefore ==
    ASSUME NEW i \in Levels, i > 0, NEW k \in Nat, k < PAGES
    PROVE  Start(i) + k \div pow2[i] < Start(0)
<1> DEFINE a == pow2[number_of_levels - i - 1]
           b == pow2[i]
           H == number_of_highest_mem_size
           q == k \div b
<1>1. a \in Nat \ {0} /\ b \in Nat \ {0} /\ H \in Nat \ {0}
    BY Sizes, Pow2Equations
<1>2. pow2[number_of_levels - 1] = a * b
    <2>1. number_of_levels - i - 1 \in Nat /\ i \in Nat
          /\ (number_of_levels - i - 1) + i = number_of_levels - 1
        BY Sizes
    <2> QED BY <2>1, Pow2Sum
<1>3. b >= 2
    <2>1. i - 1 \in Nat /\ (i - 1) + 1 = i
        BY Sizes
    <2>2. b = 2 * pow2[i - 1] /\ pow2[i - 1] \in Nat \ {0}
        BY <2>1, Pow2Equations
    <2> QED BY <2>2
<1>4. k < H * (a * b)
    BY <1>2, Sizes
<1>5. Start(i) = (a - 1) * H /\ Start(0) = (a * b - 1) * H
    <2>1. number_of_levels - 0 - 1 = number_of_levels - 1
        BY Sizes
    <2> QED BY <1>2, <2>1 DEF Start
<1> HIDE DEF a, b, H
<1>6. k < (H * a) * b /\ H * a \in Nat
    BY <1>1, <1>4
<1>7. q \in Nat /\ q < H * a
    BY <1>1, <1>6, QuotientBelow, QuotientType
<1> HIDE DEF q
<1>8. (a - 1) * H + H * a <= (a * b - 1) * H
    <2>1. a * 2 <= a * b
        BY <1>1, <1>3
    <2>2. a * b \in Nat
        BY <1>1
    <2>3. (a * 2 - 1) * H <= (a * b - 1) * H
        <3> DEFINE x == a * 2 - 1
                   y == a * b - 1
        <3>1. x \in Int /\ y \in Int /\ x <= y
            BY <1>1, <2>1, <2>2
        <3> HIDE DEF x, y
        <3>2. x * H <= y * H
            BY <1>1, <3>1
        <3> QED BY <3>2 DEF x, y
    <2>4. (a - 1) * H + H * a = (a * 2 - 1) * H
        BY <1>1
    <2> QED BY <2>3, <2>4
<1>9. (a - 1) * H \in Nat
    BY <1>1
<1>10. H * a \in Nat /\ (a * b - 1) * H \in Int
    BY <1>1
<1>11. Start(i) + q < Start(0)
    <2> DEFINE x == (a - 1) * H
               y == H * a
               z == (a * b - 1) * H
    <2>1. x \in Nat /\ y \in Nat /\ z \in Int /\ x + y <= z
          /\ Start(i) = x /\ Start(0) = z /\ q < y
        BY <1>5, <1>7, <1>8, <1>9, <1>10
    <2> HIDE DEF x, y, z
    <2> QED BY <1>7, <2>1
<1> QED BY <1>11 DEF q, b

\* The range that is reserved from page 0 on, too, marks bits before those of
\* level 0 at the levels above.
LEMMA ReservedAboveBefore ==
    ASSUME NEW i \in Levels, i > 0,
           NEW count \in Nat,
           LET half == (PAGES \div 2) \div pow2[number_of_levels - 1 - i]
           IN  count = IF i < number_of_levels - 1 /\ half = 0 THEN 1 ELSE half
    PROVE  Start(i) + count <= Start(0)
<1> DEFINE a == pow2[number_of_levels - 1 - i]
           c == pow2[i - 1]
           H == number_of_highest_mem_size
<1>1. i - 1 \in Nat /\ (i - 1) + 1 = i
    BY Sizes
<1>2. a \in Nat \ {0} /\ c \in Nat \ {0} /\ H \in Nat \ {0}
    BY <1>1, Sizes, Pow2Equations
<1>3. pow2[number_of_levels - 1] = a * (2 * c)
    <2>1. number_of_levels - 1 - i \in Nat /\ i \in Nat
          /\ (number_of_levels - 1 - i) + i = number_of_levels - 1
        BY Sizes
    <2>2. pow2[i] = 2 * c
        BY <1>1, Pow2Equations
    <2>3. pow2[(number_of_levels - 1 - i) + i] = a * pow2[i]
        BY <2>1, Pow2Sum
    <2> QED BY <2>1, <2>2, <2>3
<1>4. Start(i) = (a - 1) * H /\ Start(0) = (a * (2 * c) - 1) * H
    <2>1. number_of_levels - 0 - 1 = number_of_levels - 1
          /\ number_of_levels - 1 - i = number_of_levels - i - 1
        BY Sizes
    <2> QED BY <1>3, <2>1 DEF Start
<1>5. (PAGES \div 2) \div a = H * c
    <2>1. PAGES = ((H * c) * a) * 2
        <3>1. PAGES = H * (a * (2 * c))
            BY <1>3, Sizes
        <3> HIDE DEF a, c, H
        <3>2. H * (a * (2 * c)) = ((H * c) * a) * 2
            BY <1>2
        <3> QED BY <3>1, <3>2
    <2> HIDE DEF a, c, H
    <2>2. H * c \in Nat /\ (H * c) * a \in Nat
        BY <1>2
    <2>3. (((H * c) * a) * 2) \div 2 = (H * c) * a
        BY <2>2, QuotientExact
    <2>4. ((H * c) * a) \div a = H * c
        BY <1>2, <2>2, QuotientExact
    <2> QED BY <2>1, <2>3, <2>4
<1>6. count = H * c
    <2>1. H * c # 0
        <3> HIDE DEF c, H
        <3> QED BY <1>2
    <2> QED BY <1>5, <2>1
<1> HIDE DEF a, c, H
<1>7. (a - 1) * H + H * c <= (a * (2 * c) - 1) * H
    <2>1. a + c <= a * (2 * c)
        <3>1. a <= a * c /\ c <= a * c
            BY <1>2
        <3>2. a * (2 * c) = a * c + a * c /\ a * c \in Nat
            BY <1>2
        <3> QED BY <1>2, <3>1, <3>2
    <2>2. (a + c - 1) * H <= (a * (2 * c) - 1) * H
        <3> DEFINE x == a + c - 1
                   y == a * (2 * c) - 1
        <3>1. x \in Int /\ y \in Int /\ x <= y
            BY <1>2, <2>1
        <3> HIDE DEF x, y
        <3>2. x * H <= y * H
            BY <1>2, <3>1
        <3> QED BY <3>2 DEF x, y
    <2>3. (a - 1) * H + H * c = (a + c - 1) * H
        BY <1>2
    <2> QED BY <2>2, <2>3
<1> QED BY <1>4, <1>6, <1>7

-----------------------------------------------------------------------------
(* Types *)

\* A reservation marks bits.
LEMMA ReservesType ==
    ASSUME NEW r \in Extent
    PROVE  Reserves(r) \subseteq Nat
<1>1. r.first \in Nat /\ r.last \in Nat /\ r.level \in Levels
    BY DEF Extent
<1>2. ASSUME NEW i \in Levels, NEW f \in Nat, NEW n
      PROVE  Bits(i, f, n) \subseteq Nat
    BY LevelTypes DEF Bits
<1>3. ASSUME NEW i \in Levels, i > r.level
      PROVE  r.first \div pow2[i - r.level] \in Nat
    <2>1. i - r.level \in Nat
        BY <1>1, <1>3, Sizes
    <2> QED BY <1>1, <2>1, Pow2Equations, QuotientType
<1>4. ASSUME NEW i \in Levels, i < r.level
      PROVE  r.first * pow2[r.level - i] \in Nat
    <2>1. r.level - i \in Nat
        BY <1>1, <1>4, Sizes
    <2>2. pow2[r.level - i] \in Nat
        BY <2>1, Pow2Equations
    <2> QED BY <1>1, <2>2
<1>5. ReservedAbove(r) \subseteq Nat
    BY <1>2, <1>3 DEF ReservedAbove
<1>6. ReservedBelow(r) \subseteq Nat
    BY <1>2, <1>4 DEF ReservedBelow
<1> QED BY <1>1, <1>2, <1>5, <1>6 DEF Reserves

\* So does an allocation.
LEMMA SetsType ==
    ASSUME NEW level \in Levels, NEW index \in Nat
    PROVE  Sets(level, index) \subseteq Nat
<1>1. ASSUME NEW i \in Levels, i > level
      PROVE  Start(i) + index \div pow2[i - level] \in Nat
    <2>1. i - level \in Nat
        BY <1>1, Sizes
    <2>2. index \div pow2[i - level] \in Nat
        BY <2>1, Pow2Equations, QuotientType
    <2> QED BY <2>2, LevelTypes
<1>2. Above(level, index) \subseteq Nat
    BY <1>1 DEF Above
<1>3. ASSUME NEW i \in Levels, i < level, NEW n
      PROVE  Bits(i, index * pow2[level - i], n) \subseteq Nat
    <2>1. level - i \in Nat
        BY <1>3, Sizes
    <2>2. index * pow2[level - i] \in Nat
        <3>1. pow2[level - i] \in Nat
            BY <2>1, Pow2Equations
        <3> QED BY <3>1
    <2> HIDE DEF Bits
    <2>3. Start(i) \in Nat
        BY LevelTypes
    <2> QED BY <2>2, <2>3 DEF Bits
<1>4. Below(level, index) \subseteq Nat
    BY <1>3 DEF Below
<1>5. Start(level) + index \in Nat
    BY LevelTypes
<1> QED BY <1>2, <1>4, <1>5 DEF Sets

\* What the search for a free block returns.
LEMMA FindType ==
    ASSUME NEW level \in Levels
    PROVE  LET k == find_first_zero_bit(marked, level)
           IN  /\ k \in Nat
               /\ Found(level, k) => /\ k \in 0 .. Entries(level) * WORD - 1
                                     /\ Start(level) + k \notin marked
<1> DEFINE free == {k \in 0 .. Entries(level) * WORD - 1 : Start(level) + k \notin marked}
<1>1. Entries(level) \in Nat
    BY LevelTypes
<1>2. CASE free = {}
    BY <1>1, <1>2 DEF find_first_zero_bit, Found
<1>3. CASE free # {}
    <2>1. free \subseteq Nat
        OBVIOUS
    <2>2. Min(free) \in free
        <3> HIDE DEF free
        <3> QED BY <1>3, <2>1, MinIsLeast
    <2>3. find_first_zero_bit(marked, level) = Min(free)
        BY <1>3 DEF find_first_zero_bit
    <2> QED BY <2>2, <2>3
<1> QED BY <1>2, <1>3

\* What an allocation finds, returns and marks.
LEMMA AllocationFacts ==
    ASSUME TypeOK, NEW amount \in usage.amounts, HasBlock(marked, amount),
           NEW level, level = log2(amount),
           NEW k, k = find_first_zero_bit(marked, level)
    PROVE  /\ level \in Levels /\ amount \in Nat \ {0}
           /\ k \in Nat /\ k \in 0 .. PAGES * WORD - 1
           /\ Start(level) + k \notin marked
           /\ AllocatedPage(marked, amount) = k * amount
           /\ MarkedByAllocation(marked, amount) = marked \cup Sets(level, k)
           /\ [page |-> k * amount, size |-> amount] \in Blocks
<1>1. amount \in Nat \ {0}
    BY InstancesAssumption DEF TypeOK, Usage
<1>2. level \in Levels
    <2>1. level \in Nat /\ level < number_of_levels
        BY <1>1, Log2Type DEF HasBlock
    <2> QED BY <2>1, Sizes DEF Levels
<1>3. /\ k \in Nat /\ k \in 0 .. Entries(level) * WORD - 1
      /\ Start(level) + k \notin marked
    BY <1>2, FindType DEF HasBlock
<1>4. k \in 0 .. PAGES * WORD - 1
    <2> DEFINE n == PAGES
    <2>1. Entries(level) \in Nat /\ Entries(level) <= n /\ n \in Nat /\ WORD \in Nat
        BY <1>2, LevelTypes, Sizes
    <2> HIDE DEF n
    <2>2. Entries(level) * WORD <= n * WORD
        BY <2>1
    <2>3. Entries(level) * WORD \in Nat /\ n * WORD \in Nat
        BY <2>1
    <2>4. k \in 0 .. n * WORD - 1
        BY <1>3, <2>2, <2>3
    <2> QED BY <2>4 DEF n
<1> QED BY <1>1, <1>2, <1>3, <1>4 DEF AllocatedPage, MarkedByAllocation, Blocks, Block

\* A free clears bits and sets none.
LEMMA FreeShrinks ==
    ASSUME NEW page, NEW amount
    PROVE  MarkedAfterFree(marked, page, amount) \subseteq marked
BY DEF MarkedAfterFree

\* Before a module reserves anything no bit is set and nobody holds a block.
LEMMA TypeInit == Init => TypeOK
BY InstancesAssumption DEF Init, TypeOK, Usage

\* Reservation, allocation and free keep the types.
LEMMA TypeNext == TypeOK /\ [Next]_vars => TypeOK'
<1> SUFFICES ASSUME TypeOK, [Next]_vars PROVE TypeOK'
    OBVIOUS
<1>0. usage' = usage => Blocks' = Blocks
    BY DEF Blocks, Block
<1>1. CASE binary_buddy_memory_allocator_reserve
    <2>1. Head(pending) \in Extent /\ Tail(pending) \in Seq(Extent)
        BY <1>1 DEF binary_buddy_memory_allocator_reserve, TypeOK
    <2> QED BY <1>0, <1>1, <2>1, ReservesType
            DEF binary_buddy_memory_allocator_reserve, TypeOK
<1>2. CASE \E amount \in usage.amounts : binary_buddy_memory_allocator_allocate(amount)
    <2> SUFFICES ASSUME NEW amount \in usage.amounts,
                        binary_buddy_memory_allocator_allocate(amount)
                 PROVE  TypeOK'
        BY <1>2
    <2> DEFINE level == log2(amount)
               k == find_first_zero_bit(marked, level)
               b == [page |-> AllocatedPage(marked, amount), size |-> amount]
    <2>1. HasBlock(marked, amount) /\ usage' = usage /\ pending' = pending
          /\ marked' = MarkedByAllocation(marked, amount)
          /\ holders' = [holders EXCEPT ![b] = @ + 1]
        BY DEF binary_buddy_memory_allocator_allocate
    <2>2. level \in Levels /\ k \in Nat
          /\ MarkedByAllocation(marked, amount) = marked \cup Sets(level, k)
          /\ b \in Blocks
        BY <2>1, AllocationFacts
    <2> HIDE DEF level, k, b
    <2>3. marked' \subseteq Nat
        BY <2>1, <2>2, SetsType DEF TypeOK
    <2>4. holders' \in [Blocks -> Nat]
        <3>1. holders \in [Blocks -> Nat]
            BY DEF TypeOK
        <3> QED BY <2>1, <2>2, <3>1
    <2> QED BY <1>0, <2>1, <2>3, <2>4 DEF TypeOK
<1>3. CASE \E b \in Blocks : binary_buddy_memory_allocator_free(b)
    <2> SUFFICES ASSUME NEW b \in Blocks, binary_buddy_memory_allocator_free(b)
                 PROVE  TypeOK'
        BY <1>3
    <2>1. holders' = [holders EXCEPT ![b] = @ - 1] /\ holders[b] > 0
          /\ usage' = usage /\ pending' = pending
          /\ marked' = MarkedAfterFree(marked, b.page, b.size)
        BY DEF binary_buddy_memory_allocator_free
    <2>2. holders' \in [Blocks -> Nat]
        BY <2>1 DEF TypeOK
    <2> QED BY <1>0, <2>1, <2>2, FreeShrinks DEF TypeOK
<1>4. CASE UNCHANGED vars
    BY <1>0, <1>4 DEF vars, TypeOK
<1> QED BY <1>1, <1>2, <1>3, <1>4 DEF Next

\* The bits are bits of the array's numbering, the counts of holders are counts.
THEOREM TypeCorrect == Spec => []TypeOK
BY TypeInit, TypeNext, PTL DEF Spec

-----------------------------------------------------------------------------
(* Clients of one and two pages are kept apart *)

\* What keeps them apart: of every page somebody holds the bit of level 0 is set,
\* and the bit of the pair of pages it is in.  A block of one page marks the pair
\* on the way up, a block of two marks both pages on the way down.
LiveInv ==
    SmallBlocks /\ ~usage.frees =>
       \A b \in Held : \A p \in PagesOf(b) :
          /\ Start(0) + p \in marked
          /\ 1 \in Levels => Start(1) + p \div 2 \in marked

\* Those bits are among the ones that the allocation of the block sets, and the one
\* of its own level was free.
LEMMA SmallBlockBits ==
    ASSUME NEW level \in Levels, NEW amount, NEW k \in Nat,
           (amount = 1 /\ level = 0) \/ (amount = 2 /\ level = 1),
           NEW p \in k * amount .. k * amount + amount - 1
    PROVE  /\ p \in Nat
           /\ Start(0) + p \in Sets(level, k)
           /\ 1 \in Levels => Start(1) + p \div 2 \in Sets(level, k)
           /\ level = 0 => p = k
           /\ level = 1 => p \div 2 = k
<1>0. 0 \in Levels /\ Start(0) \in Nat
    BY Sizes, LevelTypes
<1>1. CASE amount = 1 /\ level = 0
    <2>1. p = k
        BY <1>1
    <2>2. Start(0) + k \in Sets(0, k)
        BY DEF Sets
    <2>3. ASSUME 1 \in Levels PROVE Start(1) + k \div 2 \in Sets(0, k)
        <3>1. pow2[1 - 0] = 2 /\ 1 > 0
            BY Pow2Small
        <3>2. Start(1) + k \div 2 \in Above(0, k)
            BY <2>3, <3>1 DEF Above
        <3> QED BY <3>2 DEF Sets
    <2> QED BY <1>1, <2>1, <2>2, <2>3
<1>2. CASE amount = 2 /\ level = 1
    <2>1. p \in {k * 2, k * 2 + 1} /\ p \in Nat /\ p \div 2 = k
        BY <1>2
    <2>2. Start(1) + k \in Sets(1, k)
        BY DEF Sets
    <2>3. Start(0) + p \in Bits(0, k * pow2[1 - 0], 2 * pow2[0])
        <3>1. pow2[1 - 0] = 2 /\ pow2[0] = 1
            BY Pow2Small
        <3>2. PICK j \in 0 .. 1 : p = k * 2 + j
            BY <2>1
        <3>3. Start(0) + p = Start(0) + k * 2 + j /\ j \in 0 .. 2 * 1 - 1
            BY <1>0, <3>2
        <3> QED BY <3>1, <3>3 DEF Bits
    <2>4. Start(0) + p \in Sets(1, k)
        <3>1. 0 \in Levels /\ 0 < 1
            BY <1>0
        <3>2. Start(0) + p \in Below(1, k)
            BY <2>3, <3>1 DEF Below
        <3> QED BY <3>2 DEF Sets
    <2> QED BY <1>2, <2>1, <2>2, <2>4
<1> QED BY <1>1, <1>2

\* Nobody holds anything at first.
LEMMA LiveInit == Init => LiveInv /\ LiveBlocksDisjoint
BY DEF Init, LiveInv, LiveBlocksDisjoint, Held

\* The new block consists of pages that nobody held.
LEMMA LiveNext ==
    TypeOK /\ LiveInv /\ LiveBlocksDisjoint /\ [Next]_vars => LiveInv' /\ LiveBlocksDisjoint'
<1> SUFFICES ASSUME TypeOK, LiveInv, LiveBlocksDisjoint, [Next]_vars,
                    SmallBlocks', ~usage'.frees
             PROVE  LiveInv' /\ LiveBlocksDisjoint'
    BY DEF LiveInv, LiveBlocksDisjoint
<1>0. usage' = usage
    BY DEF Next, binary_buddy_memory_allocator_reserve, vars,
           binary_buddy_memory_allocator_allocate, binary_buddy_memory_allocator_free
<1>1. SmallBlocks /\ ~usage.frees /\ Blocks' = Blocks
    BY <1>0 DEF SmallBlocks, Blocks, Block
<1>2. /\ \A b \in Held : holders[b] = 1
      /\ \A b, c \in Held : b # c => PagesOf(b) \cap PagesOf(c) = {}
      /\ \A b \in Held : \A p \in PagesOf(b) :
            /\ Start(0) + p \in marked
            /\ 1 \in Levels => Start(1) + p \div 2 \in marked
    <2>1. \A b, c \in Held : /\ holders[b] = 1
                             /\ b # c => PagesOf(b) \cap PagesOf(c) = {}
        BY <1>1 DEF LiveBlocksDisjoint
    <2>2. \A b \in Held : \A p \in PagesOf(b) :
             /\ Start(0) + p \in marked
             /\ 1 \in Levels => Start(1) + p \div 2 \in marked
        BY <1>1 DEF LiveInv
    <2> QED BY <2>1, <2>2
<1>3. CASE \E amount \in usage.amounts : binary_buddy_memory_allocator_allocate(amount)
    <2> SUFFICES ASSUME NEW amount \in usage.amounts,
                        binary_buddy_memory_allocator_allocate(amount)
                 PROVE  LiveInv' /\ LiveBlocksDisjoint'
        BY <1>3
    <2> DEFINE level == log2(amount)
               k == find_first_zero_bit(marked, level)
               new == [page |-> k * amount, size |-> amount]
    <2>1. /\ HasBlock(marked, amount)
          /\ marked' = MarkedByAllocation(marked, amount)
          /\ holders' = [holders EXCEPT
                ![[page |-> AllocatedPage(marked, amount), size |-> amount]] = @ + 1]
        BY DEF binary_buddy_memory_allocator_allocate
    <2>2. /\ level \in Levels /\ k \in Nat /\ new \in Blocks
          /\ Start(level) + k \notin marked
          /\ marked' = marked \cup Sets(level, k)
          /\ holders' = [holders EXCEPT ![new] = @ + 1]
        BY <2>1, AllocationFacts
    <2>3. (amount = 1 /\ level = 0) \/ (amount = 2 /\ level = 1)
        BY <1>1, Log2Small DEF SmallBlocks
    <2>4. new.page = k * amount /\ new.size = amount
        OBVIOUS
    <2> HIDE DEF level, k, new
    <2>5. \A p \in PagesOf(new) :
             /\ p \in Nat
             /\ Start(0) + p \in Sets(level, k)
             /\ 1 \in Levels => Start(1) + p \div 2 \in Sets(level, k)
             /\ level = 0 => p = k
             /\ level = 1 => p \div 2 = k
        BY <2>2, <2>3, <2>4, SmallBlockBits DEF PagesOf
    <2>6. \A b \in Held : PagesOf(b) \cap PagesOf(new) = {}
        <3> SUFFICES ASSUME NEW b \in Held, NEW p \in PagesOf(b), p \in PagesOf(new)
                     PROVE  FALSE
            OBVIOUS
        <3>1. CASE level = 0
            BY <1>2, <2>2, <2>5, <3>1
        <3>2. CASE level = 1
            BY <1>2, <2>2, <2>5, <3>2
        <3> QED BY <2>3, <3>1, <3>2
    <2>7. new \notin Held
        <3>1. new.page \in PagesOf(new)
            BY <2>2, <2>3, <2>4 DEF PagesOf
        <3> QED BY <2>6, <3>1
    <2>8. holders[new] = 0
        BY <2>2, <2>7 DEF TypeOK, Held
    <2>9. Held' = Held \cup {new} /\ \A b \in Held' : holders'[b] = 1
        <3>1. holders \in [Blocks -> Nat]
            BY DEF TypeOK
        <3>2. \A b \in Blocks : holders'[b] = IF b = new THEN 1 ELSE holders[b]
            BY <2>2, <2>8, <3>1
        <3> QED BY <1>1, <1>2, <2>2, <3>2 DEF Held
    <2>10. LiveInv'
        <3>1. ASSUME NEW b \in Held', NEW p \in PagesOf(b)
              PROVE  /\ Start(0) + p \in marked'
                     /\ 1 \in Levels => Start(1) + p \div 2 \in marked'
            BY <1>2, <2>2, <2>5, <2>9
        <3> QED BY <3>1 DEF LiveInv, PagesOf
    <2>11. LiveBlocksDisjoint'
        <3>1. ASSUME NEW b \in Held', NEW c \in Held', b # c
              PROVE  PagesOf(b) \cap PagesOf(c) = {}
            BY <1>2, <2>6, <2>9, <3>1
        <3> QED BY <2>9, <3>1 DEF LiveBlocksDisjoint, PagesOf
    <2> QED BY <2>10, <2>11
<1>4. CASE \E b \in Blocks : binary_buddy_memory_allocator_free(b)
    BY <1>1, <1>4 DEF binary_buddy_memory_allocator_free
<1>5. CASE binary_buddy_memory_allocator_reserve \/ UNCHANGED vars
    <2>1. holders' = holders /\ marked \subseteq marked'
        BY <1>5 DEF binary_buddy_memory_allocator_reserve, vars
    <2>2. Held' = Held
        BY <1>1, <2>1 DEF Held
    <2> QED BY <1>2, <2>1, <2>2 DEF LiveInv, LiveBlocksDisjoint, PagesOf
<1> QED BY <1>3, <1>4, <1>5 DEF Next

\* As long as nobody frees, no two clients of one- and two-page blocks hold the
\* same page.
THEOREM BlocksStayDisjoint == Spec => []LiveBlocksDisjoint
<1> DEFINE Inv == TypeOK /\ LiveInv /\ LiveBlocksDisjoint
<1>1. Init => Inv
    BY TypeInit, LiveInit
<1>2. Inv /\ [Next]_vars => Inv'
    BY TypeNext, LiveNext
<1> QED BY <1>1, <1>2, PTL DEF Spec

-----------------------------------------------------------------------------
(* Reserved pages are not handed out *)

\* What the initialisation has still to reserve is the end of its list.
PendingInv ==
    /\ Len(pending) <= Len(usage.reserve)
    /\ \A j \in 1 .. Len(pending) :
          pending[j] = usage.reserve[Len(usage.reserve) - Len(pending) + j]

\* Of every page that was reserved the bit of level 0 is set, and stays set.
ReservedInv ==
    ReservesPages /\ ~usage.frees =>
       \A i \in 1 .. Len(usage.reserve) - Len(pending) :
          \A p \in usage.reserve[i].first .. usage.reserve[i].last : Start(0) + p \in marked

\* Nothing is reserved and nothing is held at first.
LEMMA ReservedInit == Init => PendingInv /\ ReservedInv /\ ReservedStaysFree
<1> SUFFICES ASSUME Init PROVE PendingInv /\ ReservedInv /\ ReservedStaysFree
    OBVIOUS
<1>1. usage.reserve \in Seq(Extent) /\ pending = usage.reserve
    BY InstancesAssumption DEF Init, Usage
<1>2. Held = {}
    BY DEF Init, Held
<1>3. Len(usage.reserve) \in Nat
    BY <1>1
<1> QED BY <1>1, <1>2, <1>3 DEF PendingInv, ReservedInv, ReservedStaysFree

\* A page that is reserved, level by level, has its bit of level 0 set.
LEMMA ReservationMarks ==
    ASSUME NEW r \in Extent, r.level = 0, NEW p \in r.first .. r.last
    PROVE  Start(0) + p \in Reserves(r)
<1>1. r.first \in Nat /\ r.last \in Nat /\ Start(0) \in Nat
    BY Sizes, LevelTypes DEF Extent
<1>2. p - r.first \in 0 .. (r.last - r.first + 1) - 1
      /\ Start(0) + p = Start(0) + r.first + (p - r.first)
    BY <1>1
<1>3. Start(0) + p \in Bits(0, r.first, r.last - r.first + 1)
    BY <1>2 DEF Bits
<1> QED BY <1>3 DEF Reserves

\* Who asks for single pages gets one with a clear bit, which is not reserved.
LEMMA ReservedNext ==
    TypeOK /\ PendingInv /\ ReservedInv /\ ReservedStaysFree /\ [Next]_vars
       => PendingInv' /\ ReservedInv' /\ ReservedStaysFree'
<1> SUFFICES ASSUME TypeOK, PendingInv, ReservedInv, ReservedStaysFree, [Next]_vars
             PROVE  PendingInv' /\ ReservedInv' /\ ReservedStaysFree'
    OBVIOUS
<1>0. usage' = usage
    BY DEF Next, binary_buddy_memory_allocator_reserve, vars,
           binary_buddy_memory_allocator_allocate, binary_buddy_memory_allocator_free
<1>1. /\ ReservesPages' = ReservesPages /\ SinglePages' = SinglePages
      /\ ReservedPages' = ReservedPages /\ Blocks' = Blocks
    BY <1>0 DEF ReservesPages, SinglePages, ReservedPages, Blocks, Block
<1>2. usage.reserve \in Seq(Extent) /\ Len(usage.reserve) \in Nat
      /\ pending \in Seq(Extent) /\ Len(pending) \in Nat
    BY InstancesAssumption DEF TypeOK, Usage
<1>3. CASE binary_buddy_memory_allocator_reserve
    <2> DEFINE n == Len(usage.reserve)
               d == n - Len(pending)
               r == usage.reserve[d + 1]
    <2>1. pending # << >> /\ pending' = Tail(pending) /\ holders' = holders
          /\ marked' = marked \cup Reserves(Head(pending))
        BY <1>3 DEF binary_buddy_memory_allocator_reserve
    <2>2. Len(pending') = Len(pending) - 1 /\ Len(pending) > 0
          /\ \A j \in 1 .. Len(pending') : pending'[j] = pending[j + 1]
        BY <1>2, <2>1
    <2>3. d \in Nat /\ d + 1 \in 1 .. n /\ n - Len(pending') = d + 1
          /\ Head(pending) = r /\ r \in Extent
        <3>1. d \in Nat /\ d + 1 \in 1 .. n /\ n - Len(pending') = d + 1
            BY <1>2, <2>2 DEF PendingInv
        <3>2. pending[1] = r
            BY <1>2, <2>2 DEF PendingInv
        <3> QED BY <1>2, <2>1, <3>1, <3>2
    <2>4. PendingInv'
        <3> SUFFICES ASSUME NEW j \in 1 .. Len(pending')
                     PROVE  pending'[j] = usage.reserve[n - Len(pending') + j]
            BY <1>0, <1>2, <2>2 DEF PendingInv
        <3>1. j + 1 \in 1 .. Len(pending) /\ n - Len(pending') + j = n - Len(pending) + (j + 1)
            <4>1. n \in Nat
                BY <1>2
            <4> HIDE DEF n
            <4> QED BY <1>2, <2>2, <4>1
        <3> QED BY <2>2, <3>1 DEF PendingInv
    <2>5. ReservedInv'
        <3> SUFFICES ASSUME ReservesPages, ~usage.frees, NEW i \in 1 .. d + 1,
                            NEW p \in usage.reserve[i].first .. usage.reserve[i].last
                     PROVE  Start(0) + p \in marked'
            BY <1>0, <1>1, <2>3 DEF ReservedInv
        <3>1. CASE i = d + 1
            <4>1. r.level = 0
                BY <1>2, <2>3 DEF ReservesPages
            <4> HIDE DEF d
            <4> QED BY <2>1, <2>3, <3>1, <4>1, ReservationMarks
        <3>2. CASE i # d + 1
            <4>1. i \in 1 .. d
                BY <2>3, <3>2
            <4> QED BY <2>1, <4>1 DEF ReservedInv
        <3> QED BY <3>1, <3>2
    <2>6. ReservedStaysFree'
        <3>1. Held' = Held
            BY <1>1, <2>1 DEF Held
        <3> QED BY <1>0, <1>1, <3>1 DEF ReservedStaysFree, PagesOf
    <2> QED BY <2>4, <2>5, <2>6
<1>4. CASE \E amount \in usage.amounts : binary_buddy_memory_allocator_allocate(amount)
    <2> SUFFICES ASSUME NEW amount \in usage.amounts,
                        binary_buddy_memory_allocator_allocate(amount)
                 PROVE  PendingInv' /\ ReservedInv' /\ ReservedStaysFree'
        BY <1>4
    <2> DEFINE level == log2(amount)
               k == find_first_zero_bit(marked, level)
               new == [page |-> k * amount, size |-> amount]
    <2>1. /\ pending = << >> /\ pending' = pending
          /\ HasBlock(marked, amount)
          /\ marked' = MarkedByAllocation(marked, amount)
          /\ holders' = [holders EXCEPT
                ![[page |-> AllocatedPage(marked, amount), size |-> amount]] = @ + 1]
        BY DEF binary_buddy_memory_allocator_allocate
    <2>2. /\ level \in Levels /\ k \in Nat /\ new \in Blocks
          /\ Start(level) + k \notin marked
          /\ marked' = marked \cup Sets(level, k)
          /\ holders' = [holders EXCEPT ![new] = @ + 1]
        BY <2>1, AllocationFacts
    <2>3. PendingInv' /\ ReservedInv'
        BY <1>0, <1>1, <2>1, <2>2 DEF PendingInv, ReservedInv
    <2>4. ReservedStaysFree'
        <3> SUFFICES ASSUME SinglePages, ReservesPages, ~usage.frees, NEW b \in Held'
                     PROVE  PagesOf(b) \cap ReservedPages = {}
            BY <1>0, <1>1 DEF ReservedStaysFree, PagesOf
        <3>1. amount = 1 /\ level = 0
            BY Log2Small DEF SinglePages
        <3>2. PagesOf(new) = {k}
            BY <2>2, <3>1 DEF PagesOf
        <3>3. k \notin ReservedPages
            <4> SUFFICES ASSUME NEW i \in 1 .. Len(usage.reserve),
                                k \div pow2[usage.reserve[i].level]
                                   \in usage.reserve[i].first .. usage.reserve[i].last
                         PROVE  FALSE
                BY <1>2 DEF ReservedPages
            <4>1. usage.reserve[i].level = 0
                BY <1>2 DEF ReservesPages
            <4>2. k \div pow2[usage.reserve[i].level] = k
                <5> HIDE DEF k
                <5>1. k \div 1 = k
                    BY <2>2
                <5> QED BY <4>1, <5>1, Pow2Small
            <4>3. Start(0) + k \in marked
                <5>1. Len(pending) = 0
                    BY <2>1
                <5>2. i \in 1 .. Len(usage.reserve) - Len(pending)
                    BY <1>2, <5>1
                <5> HIDE DEF k
                <5> QED BY <4>2, <5>2 DEF ReservedInv
            <4> QED BY <2>2, <3>1, <4>3
        <3> HIDE DEF new, k, level
        <3>4. b = new \/ b \in Held
            <4>1. holders \in [Blocks -> Nat]
                BY DEF TypeOK
            <4> QED BY <1>1, <2>2, <4>1 DEF Held
        <3>5. CASE b = new
            BY <3>2, <3>3, <3>5
        <3>6. CASE b \in Held
            BY <3>6 DEF ReservedStaysFree
        <3> QED BY <3>4, <3>5, <3>6
    <2> QED BY <2>3, <2>4
<1>5. CASE \E b \in Blocks : binary_buddy_memory_allocator_free(b)
    BY <1>0, <1>5 DEF binary_buddy_memory_allocator_free, PendingInv, ReservedInv,
                      ReservedStaysFree
<1>6. CASE UNCHANGED vars
    <2>1. Held' = Held
        BY <1>1, <1>6 DEF Held, vars
    <2>2. pending' = pending /\ marked' = marked
        BY <1>6 DEF vars
    <2> QED BY <1>0, <1>1, <2>1, <2>2
            DEF PendingInv, ReservedInv, ReservedStaysFree, PagesOf
<1> QED BY <1>3, <1>4, <1>5, <1>6 DEF Next

\* A client of single pages never gets a page that was reserved page by page.
THEOREM ReservedPagesStay == Spec => []ReservedStaysFree
<1> DEFINE Inv == TypeOK /\ PendingInv /\ ReservedInv /\ ReservedStaysFree
<1>1. Init => Inv
    BY TypeInit, ReservedInit
<1>2. Inv /\ [Next]_vars => Inv'
    BY TypeNext, ReservedNext
<1> QED BY <1>1, <1>2, PTL DEF Spec

-----------------------------------------------------------------------------
(* Free pages are found *)

\* Both modules that reserve pages one by one reserve the kernel image, from page 0
\* on.  A range further up would mark bits of level 0 that are not its own: the loop
\* over the higher levels sets bits for half the pages of the allocator.
PagesFromZero ==
    \A u \in Instances : \A i \in DOMAIN u.reserve :
       u.reserve[i].level = 0 => u.reserve[i].first = 0 /\ u.reserve[i].last < PAGES

\* A single page's bit is set only while the page is held or reserved, and nothing
\* is marked behind the last page.
PageInv ==
    SinglePages /\ ReservesPages =>
       /\ \A p \in 0 .. PAGES - 1 :
             Start(0) + p \in marked => p \in ReservedPages \/ holders[Block(p, 1)] > 0
       /\ \A b \in Held : b.page < PAGES
       /\ \A m \in marked : m < Start(0) + PAGES

\* Level 0 has a block for each page.
LEMMA PageEntries == Entries(0) = PAGES
<1> DEFINE n == PAGES
<1>1. n \in Nat
    BY Sizes
<1>2. n \div 1 = n
    <2> HIDE DEF n
    <2> QED BY <1>1
<1> QED BY <1>2, Pow2Small DEF Entries

\* The search for a page covers every page.
LEMMA PageSearched ==
    ASSUME NEW p \in 0 .. PAGES - 1
    PROVE  p \in 0 .. PAGES * WORD - 1
<1> DEFINE n == PAGES
<1>1. p \in 0 .. n - 1 /\ n \in Nat /\ WORD \in Nat \ {0}
    BY Sizes
<1> HIDE DEF n
<1>2. n * 1 <= n * WORD /\ n * WORD \in Nat
    BY <1>1
<1>3. p \in 0 .. n * WORD - 1
    <2> DEFINE m == n * WORD
    <2>1. m \in Nat /\ n <= m
        BY <1>1, <1>2
    <2> HIDE DEF m
    <2>2. p \in 0 .. m - 1
        BY <1>1, <2>1
    <2> QED BY <2>2 DEF m
<1> QED BY <1>3 DEF n

\* The bits a reservation from page 0 on sets at the levels above are not page bits.
LEMMA ReservationStaysBelow ==
    ASSUME NEW r \in Extent, r.level = 0, r.first = 0,
           NEW m \in Reserves(r)
    PROVE  m < Start(0) \/ (\E p \in r.first .. r.last : m = Start(0) + p)
<1>1. r.last \in Nat /\ 0 \in Levels /\ Start(0) \in Nat
    BY Sizes, LevelTypes DEF Extent
<1>2. CASE m \in Bits(r.level, r.first, r.last - r.first + 1)
    <2>1. PICK j \in 0 .. r.last : m = Start(0) + 0 + j
        BY <1>1, <1>2 DEF Bits
    <2> QED BY <1>1, <2>1
<1>3. CASE m \in ReservedAbove(r)
    <2> DEFINE half(i) == (Entries(r.level) \div 2) \div pow2[number_of_levels - 1 - i]
               count(i) == IF i < number_of_levels - 1 /\ half(i) = 0 THEN 1 ELSE half(i)
    <2>1. PICK i \in Levels : /\ i > r.level
                              /\ m \in Bits(i, r.first \div pow2[i - r.level], count(i))
        BY <1>3 DEF ReservedAbove
    <2>2. Entries(r.level) = PAGES
        BY PageEntries
    <2>3. i > 0 /\ i - r.level = i /\ i \in Nat
        BY <2>1, Sizes
    <2>4. r.first \div pow2[i - r.level] = 0
        <3>1. pow2[i] \in Nat \ {0}
            BY <2>3, Pow2Equations
        <3>2. 0 \div pow2[i] = 0
            BY <3>1, QuotientExact
        <3> QED BY <2>3, <3>2
    <2>5. count(i) \in Nat
        <3>1. PAGES \in Nat /\ 2 \in Nat \ {0} /\ number_of_levels - 1 - i \in Nat
            BY Sizes
        <3>2. PAGES \div 2 \in Nat
            <4> DEFINE n == PAGES
            <4>1. n \in Nat
                BY <3>1
            <4> HIDE DEF n
            <4>2. n \div 2 \in Nat
                BY <4>1
            <4> QED BY <4>2 DEF n
        <3>3. (PAGES \div 2) \div pow2[number_of_levels - 1 - i] \in Nat
            BY <3>1, <3>2, Pow2Equations, QuotientType
        <3> QED BY <2>2, <3>3
    <2>6. Start(i) + count(i) <= Start(0)
        <3>1. LET h == (PAGES \div 2) \div pow2[number_of_levels - 1 - i]
              IN  count(i) = IF i < number_of_levels - 1 /\ h = 0 THEN 1 ELSE h
            BY <2>2
        <3> HIDE DEF count
        <3> QED BY <2>3, <2>5, <3>1, ReservedAboveBefore
    <2> DEFINE c == count(i)
    <2>7. PICK j \in 0 .. c - 1 : m = Start(i) + 0 + j
        BY <2>1, <2>4 DEF Bits
    <2>8. c \in Nat /\ Start(i) + c <= Start(0) /\ Start(i) \in Nat
        BY <2>5, <2>6, LevelTypes
    <2> HIDE DEF c
    <2> QED BY <1>1, <2>7, <2>8
<1>4. ReservedBelow(r) = {}
    <2>1. {l \in Levels : l < r.level} = {}
        BY Sizes
    <2> QED BY <2>1 DEF ReservedBelow
<1> QED BY <1>2, <1>3, <1>4 DEF Reserves

\* Nor are those that the allocation of a page sets there.
LEMMA PageAllocationStaysBelow ==
    ASSUME NEW k \in Nat, k < PAGES, NEW m \in Sets(0, k)
    PROVE  m = Start(0) + k \/ m < Start(0)
<1>1. CASE m \in Above(0, k)
    <2>1. PICK i \in Levels : i > 0 /\ m = Start(i) + k \div pow2[i - 0]
        BY <1>1 DEF Above
    <2>2. i - 0 = i
        BY Sizes
    <2> QED BY <2>1, <2>2, BitAboveBefore
<1>2. Below(0, k) = {}
    <2>1. {l \in Levels : l < 0} = {}
        BY Sizes
    <2> QED BY <2>1 DEF Below
<1> QED BY <1>1, <1>2 DEF Sets

\* The search finds the first clear bit, if there is one.
LEMMA FindLeast ==
    ASSUME NEW level \in Levels,
           NEW j \in 0 .. Entries(level) * WORD - 1, Start(level) + j \notin marked
    PROVE  /\ find_first_zero_bit(marked, level) \in 0 .. Entries(level) * WORD - 1
           /\ Start(level) + find_first_zero_bit(marked, level) \notin marked
           /\ find_first_zero_bit(marked, level) <= j
<1> DEFINE free == {k \in 0 .. Entries(level) * WORD - 1 : Start(level) + k \notin marked}
<1>1. free \subseteq Nat /\ j \in free
    OBVIOUS
<1>2. Min(free) \in free /\ Min(free) <= j
    <2> HIDE DEF free
    <2> QED BY <1>1, MinIsLeast
<1>3. find_first_zero_bit(marked, level) = Min(free)
    BY <1>1 DEF find_first_zero_bit
<1> QED BY <1>2, <1>3

\* A free clears the bit of the page itself.
LEMMA FreeClears ==
    ASSUME NEW p \in Nat, p < PAGES
    PROVE  Start(0) + p \notin MarkedAfterFree(marked, p, 1)
<1>1. log2(1) = 0 /\ 0 < number_of_levels /\ p \div 1 = p /\ Entries(0) = PAGES
    BY Log2Small, Sizes, PageEntries
<1>2. Start(0) + p \in Clears(Start(0) + p)
    <2> DEFINE s == Start(0) + p
    <2>1. s \in Nat /\ BYTE \in Nat \ {0}
        BY Sizes, LevelTypes
    <2> HIDE DEF s
    <2>2. s % BYTE \in Nat
        BY <2>1, Z3
    <2>3. s - (s % BYTE) \in Int /\ s - (s % BYTE) <= s
        BY <2>1, <2>2
    <2> QED BY <2>1, <2>3 DEF Clears, s
<1>3. Start(0) + p \in Frees(marked, 0, p)
    BY <1>2 DEF Frees
<1> QED BY <1>1, <1>3 DEF MarkedAfterFree

\* Nothing is marked at first.
LEMMA PageInit == Init => PageInv
BY DEF Init, PageInv, Held

\* What a step marks is a page that becomes held or was reserved; what is freed is
\* a page that was marked for its holder alone.
LEMMA PageNext ==
    ASSUME PagesFromZero
    PROVE  TypeOK /\ PendingInv /\ PageInv /\ [Next]_vars => PageInv'
<1> SUFFICES ASSUME TypeOK, PendingInv, PageInv, [Next]_vars, SinglePages', ReservesPages'
             PROVE  PageInv'
    BY DEF PageInv
<1>0. usage' = usage
    BY DEF Next, binary_buddy_memory_allocator_reserve, vars,
           binary_buddy_memory_allocator_allocate, binary_buddy_memory_allocator_free
<1>1. /\ ReservesPages /\ SinglePages /\ ReservedPages' = ReservedPages
      /\ Blocks' = Blocks
    BY <1>0 DEF ReservesPages, SinglePages, ReservedPages, Blocks, Block
<1>2. /\ usage.reserve \in Seq(Extent) /\ Len(usage.reserve) \in Nat
      /\ pending \in Seq(Extent) /\ Len(pending) \in Nat
      /\ holders \in [Blocks -> Nat] /\ usage \in Instances
    BY InstancesAssumption DEF TypeOK, Usage
<1>3. /\ \A p \in 0 .. PAGES - 1 :
            Start(0) + p \in marked => p \in ReservedPages \/ holders[Block(p, 1)] > 0
      /\ \A b \in Held : b.page < PAGES
      /\ \A m \in marked : m < Start(0) + PAGES
    BY <1>1 DEF PageInv
<1>4. Start(0) \in Nat /\ PAGES \in Nat /\ 0 \in Levels
    BY Sizes, LevelTypes
<1>5. \A b \in Blocks : \E k \in Nat : b = Block(k, 1) /\ b.page = k /\ b.size = 1
    <2>1. \A k \in Nat : Block(k, 1) = [page |-> k, size |-> 1]
        BY DEF Block
    <2>2. 0 .. PAGES * WORD - 1 \subseteq Nat
        OBVIOUS
    <2>3. usage.amounts = {1}
        BY <1>1 DEF SinglePages
    <2>4. \A b \in Blocks : \E k \in Nat : b = Block(k, 1)
        BY <2>2, <2>3 DEF Blocks
    <2> QED BY <2>1, <2>4
<1>6. CASE binary_buddy_memory_allocator_reserve
    <2> DEFINE d == Len(usage.reserve) - Len(pending)
               r == usage.reserve[d + 1]
    <2>1. pending # << >> /\ holders' = holders /\ marked' = marked \cup Reserves(Head(pending))
        BY <1>6 DEF binary_buddy_memory_allocator_reserve
    <2>2. d \in Nat /\ d + 1 \in 1 .. Len(usage.reserve) /\ Head(pending) = r
        <3>1. Len(pending) > 0
            BY <1>2, <2>1
        <3>2. d \in Nat /\ d + 1 \in 1 .. Len(usage.reserve)
            BY <1>2, <3>1 DEF PendingInv
        <3>3. pending[1] = r
            BY <1>2, <3>1 DEF PendingInv
        <3> QED BY <1>2, <2>1, <3>2, <3>3
    <2>3. r \in Extent /\ r.level = 0 /\ r.first = 0 /\ r.last < PAGES /\ r.last \in Nat
        <3>1. r \in Extent /\ d + 1 \in DOMAIN usage.reserve
            BY <1>2, <2>2
        <3>2. r.level = 0
            BY <1>1, <3>1 DEF ReservesPages
        <3> QED BY <1>2, <3>1, <3>2 DEF PagesFromZero, Extent
    <2>4. \A p \in 0 .. r.last : p \in ReservedPages
        <3> SUFFICES ASSUME NEW p \in 0 .. r.last PROVE p \in ReservedPages
            OBVIOUS
        <3>1. p \in 0 .. PAGES - 1 /\ d + 1 \in DOMAIN usage.reserve
            BY <1>2, <1>4, <2>2, <2>3
        <3>2. p \div pow2[r.level] \in r.first .. r.last
            <4> HIDE DEF r
            <4>1. p \div 1 = p /\ p \in r.first .. r.last
                BY <2>3
            <4>2. pow2[r.level] = 1
                BY Zenon, <2>3, Pow2Small
            <4> QED BY Zenon, <4>1, <4>2
        <3>3. p \div pow2[usage.reserve[d + 1].level]
                \in usage.reserve[d + 1].first .. usage.reserve[d + 1].last
            BY <3>2
        <3> HIDE DEF r
        <3> DEFINE Of(i) == {q \in 0 .. PAGES - 1 :
                               q \div pow2[usage.reserve[i].level]
                                 \in usage.reserve[i].first .. usage.reserve[i].last}
        <3>4. p \in Of(d + 1)
            BY Zenon, <3>1, <3>3
        <3>5. ReservedPages = UNION {Of(i) : i \in DOMAIN usage.reserve}
            BY Zenon DEF ReservedPages
        <3> HIDE DEF Of
        <3> QED BY Zenon, <3>1, <3>4, <3>5
    <2>5. \A m \in Reserves(r) : m < Start(0) \/ (\E p \in 0 .. r.last : m = Start(0) + p)
        <3> HIDE DEF r
        <3> QED BY <2>3, ReservationStaysBelow
    <2>6. marked' = marked \cup Reserves(r)
        BY <2>1, <2>2
    <2> HIDE DEF r, d
    <2>7. ASSUME NEW p \in 0 .. PAGES - 1, Start(0) + p \in marked'
          PROVE  p \in ReservedPages \/ holders'[Block(p, 1)] > 0
        <3>1. CASE Start(0) + p \in marked
            BY <1>3, <2>1, <3>1
        <3>2. CASE Start(0) + p \in Reserves(r)
            <4>1. PICK x \in 0 .. r.last : Start(0) + p = Start(0) + x
                BY <1>4, <2>5, <3>2
            <4>2. p = x
                BY <1>4, <4>1
            <4> QED BY <2>4, <4>2
        <3> QED BY <2>6, <2>7, <3>1, <3>2
    <2>8. \A m \in marked' : m < Start(0) + PAGES
        <3> SUFFICES ASSUME NEW m \in Reserves(r) PROVE m < Start(0) + PAGES
            BY <1>3, <2>6
        <3>1. CASE m < Start(0)
            <4>1. m \in Nat
                BY <2>3, ReservesType
            <4>2. PAGES # 0
                BY Sizes
            <4> QED BY <1>4, <3>1, <4>1, <4>2
        <3>2. CASE \E p \in 0 .. r.last : m = Start(0) + p
            BY <1>4, <2>3, <3>2
        <3> QED BY <2>5, <3>1, <3>2
    <2>9. Held' = Held
        BY <1>1, <2>1 DEF Held
    <2> QED BY <1>1, <1>3, <2>7, <2>8, <2>9 DEF PageInv, Block
<1>7. CASE \E amount \in usage.amounts : binary_buddy_memory_allocator_allocate(amount)
    <2>a. binary_buddy_memory_allocator_allocate(1)
        BY <1>1, <1>7 DEF SinglePages
    <2> DEFINE k == find_first_zero_bit(marked, 0)
               new == Block(k, 1)
    <2>1. /\ HasBlock(marked, 1) /\ 1 \in usage.amounts
          /\ marked' = MarkedByAllocation(marked, 1)
          /\ holders' = [holders EXCEPT
                ![[page |-> AllocatedPage(marked, 1), size |-> 1]] = @ + 1]
        BY <1>1, <2>a DEF binary_buddy_memory_allocator_allocate, SinglePages
    <2>2. /\ k \in Nat /\ new \in Blocks /\ Start(0) + k \notin marked
          /\ marked' = marked \cup Sets(0, k)
          /\ holders' = [holders EXCEPT ![new] = @ + 1]
        <3>1. /\ k \in Nat /\ [page |-> k * 1, size |-> 1] \in Blocks
              /\ Start(0) + k \notin marked
              /\ AllocatedPage(marked, 1) = k * 1
              /\ MarkedByAllocation(marked, 1) = marked \cup Sets(0, k)
            BY <2>1, AllocationFacts, Log2Small
        <3>2. new = [page |-> k * 1, size |-> 1]
            BY DEF Block
        <3> QED BY <2>1, <3>1, <3>2
    <2>3. k < PAGES
        <3>1. k # PAGES /\ k \in 0 .. PAGES * WORD - 1
            BY <2>1, FindType, PageEntries, Log2Small, <1>4 DEF HasBlock, Found
        <3>2. Start(0) + PAGES \notin marked
            BY <1>3, <1>4
        <3>3. CASE k > PAGES
            <4>1. PAGES \in 0 .. PAGES * WORD - 1
                <5> DEFINE n == PAGES * WORD - 1
                <5>1. k \in 0 .. n
                    BY <3>1
                <5> HIDE DEF n, k
                <5>2. n \in Int
                    <6> DEFINE pw == PAGES * WORD
                    <6>1. pw \in Nat
                        BY <1>4, Sizes
                    <6> HIDE DEF pw
                    <6> QED BY <6>1 DEF n, pw
                <5>3. PAGES \in 0 .. n
                    BY <1>4, <2>2, <3>3, <5>1, <5>2
                <5> QED BY <5>3 DEF n
            <4>2. k <= PAGES
                BY <1>4, <3>2, <4>1, FindLeast, PageEntries
            <4> QED BY <1>4, <2>2, <3>3, <4>2
        <3> QED BY <1>4, <2>2, <3>1, <3>3
    <2>4. Block(k, 1).page = k
        BY <2>2 DEF Block
    <2> HIDE DEF k
    <2>5. ASSUME NEW p \in 0 .. PAGES - 1, Start(0) + p \in marked'
          PROVE  p \in ReservedPages \/ holders'[Block(p, 1)] > 0
        <3>1. holders'[new] = holders[new] + 1 /\ holders[new] \in Nat
            BY <1>2, <2>2
        <3>2. CASE p = k
            BY <3>1, <3>2
        <3>3. CASE p # k
            <4>1. Start(0) + p \in marked
                <5>1. Start(0) + p # Start(0) + k /\ ~ (Start(0) + p < Start(0))
                    BY <1>4, <2>2, <3>3
                <5>2. Start(0) + p \notin Sets(0, k)
                    BY <2>2, <2>3, <5>1, PageAllocationStaysBelow
                <5> QED BY <2>2, <2>5, <5>2
            <4>2. Block(p, 1) # new
                BY <2>2, <3>3 DEF Block
            <4>3. holders'[Block(p, 1)] = holders[Block(p, 1)]
                BY <1>2, <2>2, <4>2
            <4> QED BY <1>3, <4>1, <4>3
        <3> QED BY <3>2, <3>3
    <2>6. \A m \in marked' : m < Start(0) + PAGES
        <3> SUFFICES ASSUME NEW m \in Sets(0, k) PROVE m < Start(0) + PAGES
            BY <1>3, <2>2
        <3>1. m = Start(0) + k \/ m < Start(0)
            BY <2>2, <2>3, PageAllocationStaysBelow
        <3>2. m \in Nat /\ PAGES # 0
            BY <1>4, <2>2, SetsType, Sizes
        <3> QED BY <1>4, <2>2, <2>3, <3>1, <3>2
    <2>7. \A b \in Held' : b.page < PAGES
        <3> SUFFICES ASSUME NEW b \in Held', b # new PROVE b.page < PAGES
            BY <2>3, <2>4
        <3>1. b \in Held
            BY <1>1, <1>2, <2>2 DEF Held
        <3> QED BY <1>3, <3>1
    <2> QED BY <1>1, <2>5, <2>6, <2>7 DEF PageInv, Block
<1>8. CASE \E b \in Blocks : binary_buddy_memory_allocator_free(b)
    <2> SUFFICES ASSUME NEW b \in Blocks, binary_buddy_memory_allocator_free(b)
                 PROVE  PageInv'
        BY <1>8
    <2>1. /\ holders[b] > 0 /\ holders' = [holders EXCEPT ![b] = @ - 1]
          /\ marked' = MarkedAfterFree(marked, b.page, b.size)
        BY DEF binary_buddy_memory_allocator_free
    <2>2. PICK k \in Nat : b = Block(k, 1) /\ b.page = k /\ b.size = 1
        BY <1>5
    <2>3. k < PAGES
        BY <1>3, <2>1, <2>2 DEF Held
    <2>4. marked' \subseteq marked /\ Start(0) + k \notin marked'
        BY <2>1, <2>2, <2>3, FreeShrinks, FreeClears
    <2>5. \A c \in Blocks : c # b => holders'[c] = holders[c]
        BY <1>2, <2>1
    <2>6. \A c \in Blocks : holders'[c] <= holders[c]
        BY <1>2, <2>1
    <2>7. Held' \subseteq Held
        BY <1>1, <1>2, <2>5, <2>1 DEF Held
    <2>8. ASSUME NEW p \in 0 .. PAGES - 1, Start(0) + p \in marked'
          PROVE  p \in ReservedPages \/ holders'[Block(p, 1)] > 0
        <3>1. p # k /\ Start(0) + p \in marked
            BY <2>4, <2>8
        <3>2. Block(p, 1) # b
            BY <2>2, <3>1 DEF Block
        <3>3. holders'[Block(p, 1)] = holders[Block(p, 1)]
            BY <1>2, <2>1, <3>2
        <3> QED BY <1>3, <3>1, <3>3
    <2> QED BY <1>1, <1>3, <2>4, <2>7, <2>8 DEF PageInv, Block
<1>9. CASE UNCHANGED vars
    <2>1. Held' = Held /\ marked' = marked /\ holders' = holders
        BY <1>1, <1>9 DEF Held, vars
    <2> QED BY <1>1, <1>3, <2>1 DEF PageInv, Block
<1> QED BY <1>6, <1>7, <1>8, <1>9 DEF Next

\* With the bits of the pages right, an allocation finds a free page, and reports
\* that there is none when there is none.
LEMMA FreePageFound ==
    TypeOK /\ LiveInv /\ ReservedInv /\ PageInv => FreePageIsFound
<1> DEFINE free == {p \in 0 .. PAGES - 1 :
                      p \notin ReservedPages /\ \A b \in Held : p \notin PagesOf(b)}
           k == find_first_zero_bit(marked, 0)
<1> SUFFICES ASSUME TypeOK, LiveInv, ReservedInv, PageInv, SinglePages, ReservesPages,
                    pending = << >>
             PROVE  /\ free # {} => HasBlock(marked, 1) /\ AllocatedPage(marked, 1) < PAGES
                    /\ free = {} /\ ~usage.frees => ~HasBlock(marked, 1)
    BY DEF FreePageIsFound
<1>1. /\ \A p \in 0 .. PAGES - 1 :
            Start(0) + p \in marked => p \in ReservedPages \/ holders[Block(p, 1)] > 0
      /\ \A m \in marked : m < Start(0) + PAGES
    BY DEF PageInv
<1>2. /\ Start(0) \in Nat /\ PAGES \in Nat \ {0} /\ 0 \in Levels /\ WORD \in Nat \ {0}
      /\ Entries(0) = PAGES /\ log2(1) = 0 /\ 0 < number_of_levels
    BY Sizes, LevelTypes, PageEntries, Log2Small
<1>3. HasBlock(marked, 1) <=> k # PAGES
    BY <1>2 DEF HasBlock, Found
<1>4. usage.amounts = {1} /\ usage.reserve \in Seq(Extent)
    BY InstancesAssumption DEF SinglePages, TypeOK, Usage
<1>5. \A p \in 0 .. PAGES - 1 : Block(p, 1) \in Blocks /\ PagesOf(Block(p, 1)) = {p}
    <2> SUFFICES ASSUME NEW p \in 0 .. PAGES - 1
                 PROVE  Block(p, 1) \in Blocks /\ PagesOf(Block(p, 1)) = {p}
        OBVIOUS
    <2>1. p \in 0 .. PAGES * WORD - 1
        BY PageSearched
    <2>2. Block(p, 1).page = p /\ Block(p, 1).size = 1
        BY DEF Block
    <2> QED BY <1>4, <2>1, <2>2 DEF Blocks, PagesOf
<1>6. ASSUME NEW p \in 0 .. PAGES - 1, Start(0) + p \notin marked
      PROVE  p \in 0 .. Entries(0) * WORD - 1 /\ k <= p /\ k \in Nat
    <2>1. p \in 0 .. PAGES * WORD - 1
        BY PageSearched
    <2>2. p \in 0 .. Entries(0) * WORD - 1
        BY <1>2, <2>1
    <2> QED BY <1>2, <1>6, <2>2, FindLeast, FindType
<1>7. ASSUME free # {}
      PROVE  HasBlock(marked, 1) /\ AllocatedPage(marked, 1) < PAGES
    <2>1. PICK p \in 0 .. PAGES - 1 :
             p \notin ReservedPages /\ \A b \in Held : p \notin PagesOf(b)
        BY <1>7
    <2>2. Start(0) + p \notin marked
        <3>1. Block(p, 1) \notin Held
            BY <1>5, <2>1
        <3> QED BY <1>1, <1>5, <2>1, <3>1 DEF Held
    <2>3. k <= p /\ k \in Nat
        BY <1>6, <2>2
    <2>4. k < PAGES /\ HasBlock(marked, 1)
        BY <1>2, <1>3, <2>3
    <2>5. AllocatedPage(marked, 1) = k * 1
        BY <1>2, <2>4 DEF AllocatedPage
    <2> HIDE DEF k
    <2> QED BY <2>3, <2>4, <2>5
<1>8. ASSUME free = {}, ~usage.frees
      PROVE  ~HasBlock(marked, 1)
    <2>1. \A p \in 0 .. PAGES - 1 : Start(0) + p \in marked
        <3> SUFFICES ASSUME NEW p \in 0 .. PAGES - 1 PROVE Start(0) + p \in marked
            OBVIOUS
        <3>1. CASE p \in ReservedPages
            <4>1. PICK i \in 1 .. Len(usage.reserve) :
                     p \div pow2[usage.reserve[i].level]
                        \in usage.reserve[i].first .. usage.reserve[i].last
                BY <1>4, <3>1 DEF ReservedPages
            <4>2. usage.reserve[i].level = 0
                BY <1>4 DEF ReservesPages
            <4>3. p \div pow2[usage.reserve[i].level] = p
                <5>1. p \div 1 = p
                    BY <1>2
                <5> QED BY <4>2, <5>1, Pow2Small
            <4>4. i \in 1 .. Len(usage.reserve) - Len(pending)
                <5>1. Len(pending) = 0 /\ Len(usage.reserve) \in Nat
                    BY <1>4
                <5> QED BY <5>1
            <4> QED BY <1>8, <4>1, <4>3, <4>4 DEF ReservedInv
        <3>2. CASE \E b \in Held : p \in PagesOf(b)
            <4>1. SmallBlocks
                BY <1>4 DEF SmallBlocks
            <4> QED BY <1>8, <3>2, <4>1 DEF LiveInv
        <3> QED BY <1>8, <3>1, <3>2
    <2>2. k = PAGES
        <3>1. CASE k \in 0 .. Entries(0) * WORD - 1 /\ Start(0) + k \notin marked
            <4>1. k >= PAGES /\ k \in Nat
                BY <1>2, <2>1, <3>1, FindType
            <4>2. PAGES \in 0 .. Entries(0) * WORD - 1
                <5> DEFINE n == Entries(0) * WORD - 1
                <5>1. k \in 0 .. n
                    BY <3>1
                <5>2. n \in Int
                    <6> DEFINE pw == Entries(0) * WORD
                    <6>1. pw \in Nat
                        BY <1>2
                    <6> HIDE DEF pw
                    <6> QED BY <6>1 DEF n, pw
                <5> HIDE DEF n, k
                <5>3. PAGES \in 0 .. n
                    BY <1>2, <4>1, <5>1, <5>2
                <5> QED BY <5>3 DEF n
            <4>3. Start(0) + PAGES \notin marked
                BY <1>1, <1>2
            <4>4. k <= PAGES
                BY <1>2, <4>2, <4>3, FindLeast
            <4> QED BY <1>2, <4>1, <4>4
        <3>2. CASE ~Found(0, k)
            BY <1>2, <3>2 DEF Found
        <3> QED BY <1>2, <3>1, <3>2, FindType
    <2> QED BY <1>3, <2>2
<1> QED BY <1>7, <1>8

\* Single pages do not leak: after any allocations and frees, a page that is neither
\* held nor reserved is found, and without frees a full allocator says so.
THEOREM FreePagesAreFound ==
    ASSUME PagesFromZero
    PROVE  Spec => []FreePageIsFound
<1> DEFINE Inv == TypeOK /\ LiveInv /\ LiveBlocksDisjoint /\ PendingInv /\ ReservedInv
                   /\ ReservedStaysFree /\ PageInv
<1>1. Init => Inv
    BY TypeInit, LiveInit, ReservedInit, PageInit
<1>2. Inv /\ [Next]_vars => Inv'
    BY TypeNext, LiveNext, ReservedNext, PageNext
<1>3. Inv => FreePageIsFound
    BY FreePageFound
<1> QED BY <1>1, <1>2, <1>3, PTL DEF Spec
=============================================================================
