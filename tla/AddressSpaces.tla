---------------------------- MODULE AddressSpaces ----------------------------
(***************************************************************************)
(* What paging promises, with nothing of directories, tables and windows:  *)
(* every address space sees each page as one frame or as none, a call      *)
(* changes the pages it names and no other, and a program sees the         *)
(* kernel's pages as the kernel does. Paging.tla implements it.            *)
(* Loading a program is the exception: it leaves the pages that it wrote   *)
(* the program through unmapped, whatever was there.                       *)
(***************************************************************************)
EXTENDS Naturals, TLC

CONSTANTS
  Pages,        \* virtual pages
  KernelPages,  \* those of the kernel's half
  Windows,      \* those that programs are written through
  Frames,       \* physical pages
  Kernel,       \* the kernel's own address space
  NoFrame       \* what a page that is not mapped is seen as

VARIABLE view   \* for each address space, the frame of each page

vars == view

LowPages == Pages \ KernelPages

Init == DOMAIN view = {Kernel} /\ view[Kernel] \in [Pages -> Frames \cup {NoFrame}]

\* The kernel changes one of its pages, in all spaces.
Change ==
  /\ DOMAIN view' = DOMAIN view
  /\ \E p \in KernelPages : \A s \in DOMAIN view :
       view'[s] = [view[s] EXCEPT ![p] = view'[Kernel][p]]

\* The kernel sees one more page of the lower half at its physical address.
\* Of the other lower pages it may see what memory happens to hold.
IdentityMap ==
  /\ DOMAIN view' = DOMAIN view
  /\ \A s \in DOMAIN view \ {Kernel} : view'[s] = view[s]
  /\ \A p \in KernelPages : view'[Kernel][p] = view[Kernel][p]
  /\ \E p \in LowPages : view'[Kernel][p] = p
  /\ \A p \in LowPages :
       view[Kernel][p] # NoFrame => view'[Kernel][p] \in {view[Kernel][p], p}

\* A program is loaded: the kernel sees its directory at one more page, and it
\* sees the kernel's pages as the kernel does.
NewSpace ==
  \E s \in DOMAIN view' \ DOMAIN view, p \in KernelPages :
    /\ DOMAIN view' = DOMAIN view \cup {s}
    /\ \A t \in DOMAIN view :
         /\ view'[t][p] = view'[Kernel][p]
         /\ \A q \in Pages \ (Windows \cup {p}) : view'[t][q] = view[t][q]
         /\ \A q \in Windows \ {p} : view'[t][q] \in {view[t][q], NoFrame}
    /\ \A q \in KernelPages : view'[s][q] = view'[Kernel][q]

Next == Change \/ IdentityMap \/ NewSpace

Spec == Init /\ [][Next]_vars
=============================================================================
