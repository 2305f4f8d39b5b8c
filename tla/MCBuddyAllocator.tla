--------------------------- MODULE MCBuddyAllocator ---------------------------
(* The kernel's uses of the buddy allocator, scaled down for TLC. *)
EXTENDS BuddyAllocator

\* global_phys_allocator: the kernel image reserved, single pages, never freed
phys == [reserve |-> <<[first |-> 0, last |-> 2, level |-> 0]>>,
         amounts |-> {1}, frees |-> FALSE]
\* kernel_virt_allocator: the image page by page, the heap in the largest blocks
virt == [reserve |-> <<[first |-> 0, last |-> 1, level |-> 0],
                       [first |-> 2, last |-> 2, level |-> 2]>>,
         amounts |-> {1}, frees |-> FALSE]
\* ELF images of up to two pages beside single pages
images == [reserve |-> <<[first |-> 0, last |-> 9, level |-> 0]>>,
           amounts |-> {1, 2}, frees |-> FALSE]
\* single pages that are given back
pages == [reserve |-> <<[first |-> 0, last |-> 9, level |-> 0]>>,
          amounts |-> {1}, frees |-> TRUE]
\* pairs of pages that are given back
pairs == [reserve |-> <<[first |-> 0, last |-> 9, level |-> 0]>>,
          amounts |-> {2}, frees |-> TRUE]
AllInstances == {phys, virt, images, pages, pairs}
=============================================================================
