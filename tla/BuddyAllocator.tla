---------------------------- MODULE BuddyAllocator ----------------------------
(***************************************************************************)
(* The binary buddy allocator of pages (utils/allocators/buddy) in use: a  *)
(* module of the kernel (global_phys_allocator, kernel_virt_allocator,     *)
(* osi_virt_mem_allocator) reserves ranges when it is initialised, then    *)
(* its clients allocate and free. What each operation does to the bits is  *)
(* in BuddyBits.                                                           *)
(***************************************************************************)
EXTENDS BuddyBits, Sequences

CONSTANTS
    Instances,     \* how an instance is used: see Usage
    MAX_HOLDERS    \* bound on the clients that hold one block

\* What a module of the kernel does with its instance: the ranges it reserves at
\* initialisation, in that order and each in blocks of one level, the amounts it
\* asks for, and whether it ever frees.
Extent == [first : Nat, last : Nat, level : Levels]
Usage == [reserve : Seq(Extent), amounts : SUBSET (Nat \ {0}), frees : BOOLEAN]

ASSUME InstancesAssumption ==
    /\ MAX_HOLDERS \in Nat
    /\ Instances \subseteq Usage

VARIABLES
    usage,      \* which instance this is
    marked,     \* the bits of the allocator that are 1
    pending,    \* ranges the initialisation has still to reserve
    holders     \* how many clients hold a block

vars == <<usage, marked, pending, holders>>

\* what an allocation can return: the search covers WORD bits for each entry
Block(index, amount) == [page |-> index * amount, size |-> amount]
Blocks == {Block(index, amount) :
             index \in 0 .. PAGES * WORD - 1, amount \in usage.amounts}
Held == {b \in Blocks : holders[b] > 0}

TypeOK ==
    /\ usage \in Instances
    /\ marked \subseteq Nat
    /\ pending \in Seq(Extent)
    /\ holders \in [Blocks -> Nat]

-----------------------------------------------------------------------------
(* Operations *)

Init ==
    /\ usage \in Instances
    /\ marked = {}
    /\ pending = usage.reserve
    /\ holders = [b \in Blocks |-> 0]

binary_buddy_memory_allocator_reserve ==
    /\ pending # << >>
    /\ marked' = marked \cup Reserves(Head(pending))
    /\ pending' = Tail(pending)
    /\ UNCHANGED <<usage, holders>>

binary_buddy_memory_allocator_allocate(amount) ==
    LET b == [page |-> AllocatedPage(marked, amount), size |-> amount]
    IN  /\ pending = << >>
        /\ HasBlock(marked, amount)
        /\ holders[b] < MAX_HOLDERS
        /\ marked' = MarkedByAllocation(marked, amount)
        /\ holders' = [holders EXCEPT ![b] = @ + 1]
        /\ UNCHANGED <<usage, pending>>

FreeUnheld(b) ==                                \* mutant: freed by who does not hold it
    /\ usage.frees
    /\ holders' = [holders EXCEPT ![b] = @ - 1]
    /\ marked' = MarkedAfterFree(marked, b.page, b.size)
    /\ UNCHANGED <<usage, pending>>

\* The client gives the block up.
binary_buddy_memory_allocator_free(b) ==
    /\ usage.frees /\ holders[b] > 0
    /\ holders' = [holders EXCEPT ![b] = @ - 1]
    /\ marked' = MarkedAfterFree(marked, b.page, b.size)
    /\ UNCHANGED <<usage, pending>>

Next ==
    \/ binary_buddy_memory_allocator_reserve
    \/ \E amount \in usage.amounts : binary_buddy_memory_allocator_allocate(amount)
    \/ \E b \in Blocks : binary_buddy_memory_allocator_free(b)

Spec == Init /\ [][Next]_vars

-----------------------------------------------------------------------------
(* Properties *)

PagesOf(b) == b.page .. b.page + b.size - 1
ReservedPages ==
    UNION {{p \in 0 .. PAGES - 1 :
              p \div pow2[usage.reserve[i].level]
                 \in usage.reserve[i].first .. usage.reserve[i].last} :
           i \in DOMAIN usage.reserve}

\* the uses of the allocator that the code gets right
SmallBlocks == usage.amounts \subseteq {1, 2}
SinglePages == usage.amounts = {1}
ReservesPages == \A i \in DOMAIN usage.reserve : usage.reserve[i].level = 0

\* As long as nobody frees, no two clients of one- and two-page blocks hold the
\* same page, in whatever order they ask and also when the allocator is full.
LiveBlocksDisjoint ==
    SmallBlocks /\ ~usage.frees =>
       \A b, c \in Held : /\ holders[b] = 1
                          /\ b # c => PagesOf(b) \cap PagesOf(c) = {}

\* A client of single pages never gets a page of the kernel image, which the
\* initialisation reserved page by page.
ReservedStaysFree ==
    SinglePages /\ ReservesPages /\ ~usage.frees =>
       \A b \in Held : PagesOf(b) \cap ReservedPages = {}

\* Single pages do not leak: after any sequence of allocations and frees, a page
\* that is neither held nor reserved can be allocated, and the page that is
\* returned exists. When there is none, and as long as nobody frees, the caller
\* is told so: the search, which runs on through the other levels, ends at the
\* first bit behind its own.
FreePageIsFound ==
    SinglePages /\ ReservesPages /\ pending = << >> =>
       LET free == {p \in 0 .. PAGES - 1 :
                      p \notin ReservedPages /\ \A b \in Held : p \notin PagesOf(b)}
       IN  /\ free # {} => /\ HasBlock(marked, 1)
                           /\ AllocatedPage(marked, 1) < PAGES
           /\ free = {} /\ ~usage.frees => ~HasBlock(marked, 1)
=============================================================================
