-------------------------------- MODULE Heap --------------------------------
(***************************************************************************)
(* The kernel heap of libk/kstdlib.c: kmalloc, kfree and krealloc over one *)
(* growing range of memory that blocks tile. A block of n words is         *)
(*                                                                         *)
(*   n | prev | next | payload ... | n                                     *)
(*                                                                         *)
(* where the size words at both ends carry an allocated bit, and prev and  *)
(* next link the free blocks. The model keeps every word of it: pointers   *)
(* are word addresses, the heap starts at address 1 and 0 is NULL.         *)
(*                                                                         *)
(* Clients pass the pointers they were given, once, and write only inside  *)
(* what they asked for. The heap takes no lock: no interrupt handler and   *)
(* no system call of the kernel allocates from it.                         *)
(***************************************************************************)
EXTENDS Integers, Sequences, FiniteSets, SequencesExt, TLC

CONSTANTS
  BYTES_IN_WORD,         \* bytes in a word
  MIN_BLOCK_SIZE,        \* half the words a block keeps rather than be split
  WORDS_IN_PAGE,         \* words the heap grows by
  MAX_KERNEL_HEAP_SIZE,  \* pages it may grow to
  ALLOCATED,             \* the top bit of a size word
  Sizes,                 \* the sizes in bytes that clients ask for
  AnyShrink              \* krealloc also shrinks where that corrupts the list

ASSUME HeapAssumption ==
  /\ BYTES_IN_WORD \in Nat \ {0}
  /\ MAX_KERNEL_HEAP_SIZE \in Nat \ {0}
  /\ WORDS_IN_PAGE \in Nat /\ WORDS_IN_PAGE >= 4
  /\ MIN_BLOCK_SIZE \in Nat /\ 2 * MIN_BLOCK_SIZE >= 4
  /\ ALLOCATED \in Nat /\ ALLOCATED > MAX_KERNEL_HEAP_SIZE * WORDS_IN_PAGE
  /\ Sizes \subseteq Nat
  /\ AnyShrink \in BOOLEAN

VARIABLES
  mem,      \* the words of the heap, in order of their addresses
  head,     \* the first free block
  live,     \* what clients hold: [ptr, words] as they asked for it
  faulted   \* the kernel took a page fault: it halts in the handler

vars == <<mem, head, live, faulted>>

NULL == 0

get_size(word) == word % ALLOCATED
get_allocated_bit(word) == word >= ALLOCATED

bytes_to_words(bytes) ==
  bytes \div BYTES_IN_WORD + (IF bytes % BYTES_IN_WORD > 0 THEN 1 ELSE 0)

-----------------------------------------------------------------------------
(* Steps that the operations share, on a heap h = [mem, head].             *)

Prev(h, b) == h.mem[b + 1]
NextOf(h, b) == h.mem[b + 2]

SetPrev(m, b, p) == IF b = NULL THEN m ELSE [m EXCEPT ![b + 1] = p]
SetNext(m, b, n) == IF b = NULL THEN m ELSE [m EXCEPT ![b + 2] = n]

\* Block b gets this size word at both of its ends.
Tagged(h, b, word) ==
  [h EXCEPT !.mem[b] = word, !.mem[b + get_size(word) - 1] = word]

Unlisted(h, b) == [h EXCEPT !.mem[b + 1] = NULL, !.mem[b + 2] = NULL]

\* The size word and the links of the block that was at b are wiped.
Wiped(h, b) ==
  [h EXCEPT !.mem[b - 1] = 0, !.mem[b] = 0, !.mem[b + 1] = 0, !.mem[b + 2] = 0]

\* Mutant: the block stays in the list.
StaysLinked(h, b) == h

\* The neighbours of b in the list are linked to each other.
Unlinked(h, b) ==
  [mem  |-> SetPrev(SetNext(h.mem, Prev(h, b), NextOf(h, b)),
                    NextOf(h, b), Prev(h, b)),
   head |-> IF Prev(h, b) = NULL THEN NextOf(h, b) ELSE h.head]

\* The block at new takes the place of the one at b in the list.
Moved(h, b, new) ==
  [mem  |-> SetNext(SetPrev(
              SetPrev(SetNext(h.mem, Prev(h, b), new), NextOf(h, b), new),
              new, Prev(h, b)), new, NextOf(h, b)),
   head |-> IF Prev(h, b) = NULL THEN new ELSE h.head]

PushedInFront(h, b) ==
  [mem  |-> SetNext(SetPrev(SetPrev(h.mem, h.head, b), b, NULL), b, h.head),
   head |-> b]

-----------------------------------------------------------------------------
(* kmalloc                                                                 *)

\* A page of new words behind the heap.
Extended(h) == [h EXCEPT !.mem = @ \o [i \in 1 .. WORDS_IN_PAGE |-> 0]]

\* One more page: it extends a free last block or becomes a block in front.
increase_memory_pool(h) ==
  LET end  == Len(h.mem) + 1
      foot == h.mem[end - 1]
  IN IF get_allocated_bit(foot)
     THEN PushedInFront(Tagged(Extended(h), end, WORDS_IN_PAGE), end)
     ELSE Tagged(Extended(h), end - foot, h.mem[end - foot] + WORDS_IN_PAGE)

\* The heap after 0, 1, 2 ... more pages, up to limit of them.
Pool(h, limit) ==
  LET pool[k \in 0 .. limit] == IF k = 0 THEN h ELSE increase_memory_pool(pool[k - 1])
  IN pool

\* The heap cannot hold more blocks: each has its size words and its links.
MaxBlocks(m) == Len(m) \div 4

\* Where next leads to from x in 0, 1, 2 ... steps.
Chain(next, x) ==
  LET at[n \in Nat] == IF n = 0 THEN x ELSE next[at[n - 1]]
  IN at

\* Mutant: the words of bookkeeping in a block are forgotten.
FitsPayload(h, words) ==
  LET next == [b \in Nat |->
                 IF b = NULL \/ get_size(h.mem[b]) >= words - 4 THEN b ELSE NextOf(h, b)]
  IN Chain(next, h.head)[MaxBlocks(h.mem)]

\* The first block of the list that is large enough, NULL if there is none.
FirstFit(h, words) ==
  LET next == [b \in Nat |->
                 IF b = NULL \/ get_size(h.mem[b]) >= words THEN b ELSE NextOf(h, b)]
  IN Chain(next, h.head)[MaxBlocks(h.mem)]

\* The block is handed out whole, or split and its end stays free.
allocate_block(h, words, b) ==
  LET size == get_size(h.mem[b])
  IN Unlisted(
       IF size <= words + 2 * MIN_BLOCK_SIZE
       THEN Tagged(Unlinked(h, b), b, ALLOCATED + size)
       ELSE Tagged(Tagged(Moved(h, b, b + words), b + words, size - words),
                   b, ALLOCATED + words),
       b)

-----------------------------------------------------------------------------
(* kfree                                                                   *)

\* Mutant: the size word at the end of the merged block stays as it was.
MergedWithoutEnd(h, b) ==
  LET n == b + h.mem[b]
  IN [Wiped(Moved(h, n, b), n) EXCEPT !.mem[b] = h.mem[b] + h.mem[n]]

MergedWithNext(h, b) ==
  LET n == b + h.mem[b]
  IN Tagged(Wiped(Moved(h, n, b), n), b, h.mem[b] + h.mem[n])

\* Mutant: the block stays in the list beside the one it became part of.
MergedListedTwice(h, b) ==
  LET p == b - h.mem[b - 1]
  IN Tagged(h, p, h.mem[p] + h.mem[b])

\* A block that is in no list has no neighbours there: nothing is unlinked.
MergedWithPrev(h, b) ==
  LET p    == b - h.mem[b - 1]
      head1 == IF Prev(h, b) = NULL /\ NextOf(h, b) = NULL
               THEN h.head ELSE Unlinked(h, b).head
  IN Tagged(Wiped([mem |-> Unlinked(h, b).mem, head |-> head1], b),
            p, h.mem[p] + h.mem[b])

\* Mutant: freed blocks are merged forward only.
NeverPrev(h, b) == FALSE

PrevIsFree(h, b) == b > 1 /\ ~get_allocated_bit(h.mem[b - 1])

Freed(h, b) ==
  LET size     == get_size(h.mem[b])
      cleared  == Tagged(h, b, size)
      nextFree == ~get_allocated_bit(h.mem[b + size])
      merged   == IF nextFree THEN MergedWithNext(cleared, b) ELSE cleared
  IN IF PrevIsFree(h, b) THEN MergedWithPrev(merged, b)
     ELSE IF nextFree THEN merged
     ELSE PushedInFront(cleared, b)

-----------------------------------------------------------------------------
(* krealloc of a block that gives up words at its end                      *)

\* The words given up become part of the free block behind them. The code
\* takes the list neighbours of the wrong block, which is in no list: the new
\* block becomes the head, and the neighbours of the old one still link to it.
ShrunkIntoNext(h, b, gone) ==
  LET n     == b + get_size(h.mem[b])
      moved == [h EXCEPT !.mem[n - gone + 1] = Prev(h, n),
                         !.mem[n - gone + 2] = NextOf(h, n),
                         !.mem[n - 1] = 0,
                         !.mem[n] = 0,
                         !.head = n - gone]
  IN Tagged(Tagged(moved, n - gone, h.mem[n] + gone), b, h.mem[b] - gone)

\* The words given up become a free block of their own.
ShrunkBySplit(h, b, gone) ==
  LET n == b + get_size(h.mem[b])
  IN PushedInFront(Tagged(Tagged(h, b, h.mem[b] - gone), n - gone, gone),
                   n - gone)

-----------------------------------------------------------------------------
(* The operations                                                          *)

heap == [mem |-> mem, head |-> head]
BlockOf(ptr) == ptr - 3
End == Len(mem) + 1                 \* last_free_virtual_address
Behind(b) == b + get_size(mem[b])   \* where the next block starts

\* A client keeps the address of its region in every word of it, and clears
\* what it gives back: the words of free blocks would only multiply the states.
Filled(m, r, word) ==
  SubSeq(m, 1, r.ptr - 1) \o [i \in 1 .. r.words |-> word]
    \o SubSeq(m, r.ptr + r.words, Len(m))
Cleared(r) == [mem |-> Filled(mem, r, 0), head |-> head]

Becomes(h) == mem' = h.mem /\ head' = h.head

\* The heap becomes h, and a client holds region r of it beside the others.
Hands(h, r, others) ==
  /\ mem' = Filled(h.mem, r, r.ptr)
  /\ head' = h.head
  /\ live' = others \cup {r}

\* A reference to a page that is not mapped: the handler halts and returns to
\* the same instruction, for ever. What the operation wrote before it is lost.
Fault == faulted' = TRUE /\ UNCHANGED <<mem, head, live>>

Init ==
  /\ mem = [i \in 1 .. WORDS_IN_PAGE |->
              IF i \in {1, WORDS_IN_PAGE} THEN WORDS_IN_PAGE ELSE 0]
  /\ head = 1
  /\ live = {}
  /\ faulted = FALSE

\* Mutant: the limit lets one page more through.
OnePageMore == MAX_KERNEL_HEAP_SIZE + 1 - Len(mem) \div WORDS_IN_PAGE

PagesLeft == MAX_KERNEL_HEAP_SIZE - Len(mem) \div WORDS_IN_PAGE

\* The pool grows page by page until a block fits, or until it may not grow or
\* there is no physical page: then the call fails and the pages stay.
kmalloc(size) ==
  LET words == bytes_to_words(size) + 4
      pool  == Pool(heap, PagesLeft)
  IN /\ ~faulted /\ size # 0
     /\ \E k \in 0 .. PagesLeft :
          /\ \A j \in 0 .. k - 1 : FirstFit(pool[j], words) = NULL
          /\ LET b == FirstFit(pool[k], words)
                 h == allocate_block(pool[k], words, b)
             IN IF b = NULL
                THEN Becomes(pool[k]) /\ UNCHANGED live
                ELSE Hands(h, [ptr |-> b + 3, words |-> words - 4], live)
     /\ UNCHANGED faulted

\* Freeing looks at the size word behind the block. Behind the last block
\* there is none, and the page is not mapped.
kfree(r) ==
  LET b == BlockOf(r.ptr)
  IN /\ ~faulted
     /\ IF Behind(b) = End
        THEN Fault
        ELSE /\ Becomes(Freed(Cleared(r), b))
             /\ live' = live \ {r}
             /\ UNCHANGED faulted

\* Growing takes the size word behind the block for an address and faults on
\* it. An end that is too short to be a block stays with the block. Splitting
\* the end off writes to the head of the list, which may be NULL.
krealloc(r, new_size) ==
  LET b     == BlockOf(r.ptr)
      size  == get_size(mem[b])
      words == bytes_to_words(new_size) + 4
      gone  == size - words
      split == gone > 2 * MIN_BLOCK_SIZE
      intoNext == Behind(b) < End /\ ~get_allocated_bit(mem[Behind(b)])
      onlyFree == Prev(heap, Behind(b)) = NULL /\ NextOf(heap, Behind(b)) = NULL
      Resized(h) ==
        /\ Hands(h, [ptr |-> r.ptr, words |-> words - 4], live \ {r})
        /\ UNCHANGED faulted
  IN /\ ~faulted
     /\ \/ words > size /\ Fault
        \/ words <= size /\ ~split /\ Resized(Cleared(r))
        \/ split /\ intoNext /\ (onlyFree \/ AnyShrink)
           /\ Resized(ShrunkIntoNext(Cleared(r), b, gone))
        \/ split /\ ~intoNext /\ head # NULL
           /\ Resized(ShrunkBySplit(Cleared(r), b, gone))
        \/ split /\ ~intoNext /\ head = NULL /\ Fault

Next ==
  \/ \E size \in Sizes : kmalloc(size)
  \/ \E r \in live : kfree(r)
  \/ \E r \in live, size \in Sizes : krealloc(r, size)

Spec == Init /\ [][Next]_vars
-----------------------------------------------------------------------------
(* What holds of the memory, read as blocks                                *)

\* Where blocks start, following the size words from the start of the heap.
Blocks ==
  LET next == [b \in Nat |-> IF b \in DOMAIN mem THEN Behind(b) ELSE b]
  IN {Chain(next, 1)[n] : n \in 0 .. MaxBlocks(mem)} \cap DOMAIN mem

FreeBlocks == {b \in Blocks : ~get_allocated_bit(mem[b])}

\* The regions inside the allocated blocks, as large as they have room for.
Regions == {[ptr |-> b + 3, words |-> get_size(mem[b]) - 4] :
              b \in {b \in Blocks : get_allocated_bit(mem[b])}}

\* Every variable has its type; the pool grows by whole pages up to its limit.
TypeOK ==
  /\ mem \in Seq(Nat)
  /\ \E n \in 1 .. MAX_KERNEL_HEAP_SIZE : Len(mem) = n * WORDS_IN_PAGE
  /\ head \in 0 .. Len(mem)
  /\ live \subseteq [ptr : 4 .. Len(mem), words : 0 .. Len(mem)]
  /\ faulted \in BOOLEAN

\* The blocks tile the heap without a gap, and each has the same size word at
\* both ends: what kfree and increase_memory_pool step back over is a block.
BlocksTile ==
  \A b \in Blocks :
    /\ get_size(mem[b]) >= 4
    /\ Behind(b) <= End
    /\ mem[Behind(b) - 1] = mem[b]

\* The list from the head runs through every free block once, in both
\* directions, and through nothing else: nothing free is lost to kmalloc and
\* no client's block is in the list.
FreeListExact ==
  \E list \in SetToSeqs(FreeBlocks) :
    LET at(i) == IF i \in DOMAIN list THEN list[i] ELSE NULL
    IN /\ head = at(1)
       /\ \A i \in DOMAIN list :
            /\ Prev(heap, list[i]) = at(i - 1)
            /\ NextOf(heap, list[i]) = at(i + 1)

\* No two free blocks lie side by side: what is freed is merged with its free
\* neighbours, so that when all is freed the pool is one block again.
FreeBlocksApart ==
  \A b \in FreeBlocks : Behind(b) < End => get_allocated_bit(mem[Behind(b)])

\* What each client holds lies in an allocated block of its own, and every
\* word of it is as the client left it, whatever others allocate and free.
PayloadIntact ==
  /\ {s.ptr : s \in Regions} = {r.ptr : r \in live}
  /\ \A s \in Regions : \A r \in live : r.ptr = s.ptr =>
       /\ r.words <= s.words
       /\ \A i \in r.ptr .. r.ptr + r.words - 1 : mem[i] = r.ptr

\* The heap implements the abstract one, whose regions are those of the
\* allocated blocks: every call gives, takes or shrinks one client's region and
\* leaves the regions of all others alone.
Abstract == INSTANCE AbstractHeap WITH regions <- Regions, halted <- faulted
ImplementsAbstractHeap == Abstract!Spec

\* A client that gives back what it holds goes on: kfree finds "the next
\* block's first word" (kstdlib.c:194) behind every block it is called with.
FreeReturns == [][\A r \in live : kfree(r) => ~faulted']_vars
=============================================================================
