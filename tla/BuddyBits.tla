------------------------------ MODULE BuddyBits ------------------------------
(***************************************************************************)
(* The bits of a binary buddy allocator of pages (utils/allocators/buddy), *)
(* with the bit operations it is built from (utils/bitset, and the search  *)
(* of utils/allocators/bitmap): what each operation of the allocator does  *)
(* to `marked', the set of bits that are 1.                                *)
(*                                                                         *)
(* An instance is one array of bits: a bit per block, the level of the     *)
(* largest blocks first, a 1 for a block that is not entirely free.        *)
(***************************************************************************)
EXTENDS Naturals, FiniteSets, FiniteSetsExt

CONSTANTS
    number_of_levels,                   \* 11, 9, 3
    num_of_lowest_mem_size_in_allocator,\* pages: 32768, 8192, 1024
    WORD,                               \* bits of an uint32_t (32)
    BYTE                                \* NUMBER_OF_BITS_IN_TYPE (8)

pow2[n \in Nat] == IF n = 0 THEN 1 ELSE 2 * pow2[n - 1]     \* 1u << n

PAGES == num_of_lowest_mem_size_in_allocator
Levels == 0 .. number_of_levels - 1

ASSUME SizesAssumption ==
    /\ number_of_levels \in Nat \ {0}
    /\ WORD \in Nat \ {0} /\ BYTE \in Nat \ {0} /\ WORD % BYTE = 0
    /\ PAGES \in Nat \ {0}
    /\ PAGES % pow2[number_of_levels - 1] = 0
    /\ (PAGES \div pow2[number_of_levels - 1]) % WORD = 0

-----------------------------------------------------------------------------
(* Blocks and bits *)

number_of_highest_mem_size == PAGES \div pow2[number_of_levels - 1]

\* allocation_level_start_index
Start(level) == (pow2[number_of_levels - level - 1] - 1) * number_of_highest_mem_size
Entries(level) == PAGES \div pow2[level]

\* the bits of `count' blocks of a level, from block `first' on
Bits(level, first, count) == {Start(level) + first + j : j \in 0 .. count - 1}

log2(x) == CHOOSE l \in 0 .. x : pow2[l] <= x /\ x < pow2[l + 1]

\* the blocks of the higher levels that block `index' is a part of
Above(level, index) ==
    {Start(i) + index \div pow2[i - level] : i \in {l \in Levels : l > level}}

NothingBelow(level, index) == {}                \* mutant: lower levels forgotten
\* What the loop over the lower levels touches: two bits at level 0, four at
\* level 1, and so on upwards, where the block has them the other way round.
Below(level, index) ==
    UNION {Bits(i, index * pow2[level - i], 2 * pow2[i]) : i \in {l \in Levels : l < level}}

\* bitmap_find_first_zero_bit(&allocator[start / 32], n): n counts words here
find_first_zero_bit(marked, level) ==
    LET free == {k \in 0 .. Entries(level) * WORD - 1 : Start(level) + k \notin marked}
    IN  IF free = {} THEN Entries(level) ELSE Min(free)

\* the bits that bitset_set_at(index, bitset, false) clears: `0xFE << k' keeps
\* none of the k lower bits of the byte either
Clears(index) == (index - (index % BYTE)) .. index

-----------------------------------------------------------------------------
(* Reservation of the blocks first .. last of a level *)

\* The higher levels: half as many bits as the level of the range has at the
\* highest level, half of that below.
ReservedAbove(r) ==
    LET half(i) == (Entries(r.level) \div 2) \div pow2[number_of_levels - 1 - i]
        count(i) == IF i < number_of_levels - 1 /\ half(i) = 0 THEN 1 ELSE half(i)
    IN  UNION {Bits(i, r.first \div pow2[i - r.level], count(i)) :
                  i \in {l \in Levels : l > r.level}}

\* The lower levels: twice the entries at level 0, and so on upwards.
ReservedBelow(r) ==
    LET entries == r.last - r.first + 1
    IN  UNION {Bits(i, r.first * pow2[r.level - i], 2 * entries * pow2[i]) :
                  i \in {l \in Levels : l < r.level}}

\* mutant: the range itself forgotten
ReservesAround(r) == ReservedAbove(r) \cup ReservedBelow(r)
Reserves(r) ==
    Bits(r.level, r.first, r.last - r.first + 1)
      \cup ReservedAbove(r) \cup ReservedBelow(r)

-----------------------------------------------------------------------------
(* Allocation of `amount' pages *)

\* the bits an allocation sets
Sets(level, index) ==
    {Start(level) + index} \cup Above(level, index) \cup Below(level, index)

Found(level, index) == index # Entries(level)

\* Whether binary_buddy_memory_allocator_allocate() returns a block; NULL is 0,
\* which is also the address of the first block.
HasBlock(marked, amount) ==
    /\ log2(amount) < number_of_levels
    /\ Found(log2(amount), find_first_zero_bit(marked, log2(amount)))

\* The page it returns. The index counts blocks of the level, and is multiplied
\* with the amount asked for.
AllocatedPage(marked, amount) ==
    IF HasBlock(marked, amount)
      THEN find_first_zero_bit(marked, log2(amount)) * amount ELSE 0

MarkedByAllocation(marked, amount) ==
    IF HasBlock(marked, amount)
      THEN marked \cup Sets(log2(amount), find_first_zero_bit(marked, log2(amount)))
      ELSE marked

-----------------------------------------------------------------------------
(* Free *)

PairOf(index) == IF index % 2 = 0 THEN index + 1 ELSE index - 1

\* mutant: the block itself is only cleared on the way up
FreesByClimbing(marked, level, index) ==
    LET stops == {i \in Levels : i >= level
                     /\ Start(i) + PairOf(index \div pow2[i - level]) \in marked}
        climbs == {i \in Levels : i >= level /\ \A s \in stops : i < s}
    IN  UNION {Clears(Start(i) + index \div pow2[i - level]) : i \in climbs}

\* The bits binary_buddy_memory_allocator_free() clears: the block's, then upwards
\* as long as the other half of the pair is free, then those below.
Frees(marked, level, index) ==
    LET at(i) == index \div pow2[i - level]
        left == marked \ Clears(Start(level) + index)
        stops == {i \in Levels : i >= level /\ Start(i) + PairOf(at(i)) \in left}
        climbs == {i \in Levels : i >= level /\ \A s \in stops : i < s}
    IN  Clears(Start(level) + index)
        \cup UNION {Clears(Start(i) + at(i)) : i \in climbs}
        \cup UNION {Clears(b) : b \in Below(level, index)}

\* What is marked after the free; a block out of range is refused.
MarkedAfterFree(marked, page, amount) ==
    LET level == log2(amount)
        index == page \div amount
    IN  IF level < number_of_levels /\ index < Entries(level)
          THEN marked \ Frees(marked, level, index) ELSE marked
=============================================================================
