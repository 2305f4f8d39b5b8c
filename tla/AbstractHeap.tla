---------------------------- MODULE AbstractHeap ----------------------------
(***************************************************************************)
(* What the kernel heap promises to its clients, with nothing of how it    *)
(* keeps its blocks: each client holds a region of its own, which has room *)
(* for what was asked for and overlaps no other. Heap.tla implements it.   *)
(***************************************************************************)
EXTENDS Naturals, FiniteSets

VARIABLES
  live,     \* what clients hold: [ptr, words], as they asked for it
  regions,  \* what they may use: [ptr, words], addresses in words
  halted    \* the kernel has taken a fault it does not return from

vars == <<live, regions, halted>>

Words(r) == r.ptr .. r.ptr + r.words - 1

Init == live = {} /\ regions = {} /\ halted = FALSE

\* A client gets a new region, apart from all those that are held.
Allocate ==
  \E r \in regions' \ regions, l \in live' \ live :
    /\ live' = live \cup {l}
    /\ regions' = regions \cup {r}
    /\ l.ptr = r.ptr
    /\ l.words <= r.words
    /\ \A s \in regions : Words(r) \cap Words(s) = {}
    /\ UNCHANGED halted

\* A client gives its region back: no one else's changes.
Free ==
  \E r \in regions, l \in live :
    /\ l.ptr = r.ptr
    /\ live' = live \ {l}
    /\ regions' = regions \ {r}
    /\ UNCHANGED halted

\* A client asks for another size: its region stays where it is and may give
\* up words that are no longer asked for.
Resize ==
  \E r \in regions, s \in regions', l \in live, k \in live' :
    /\ l.ptr = r.ptr /\ k.ptr = r.ptr /\ s.ptr = r.ptr
    /\ k.words <= s.words
    /\ s.words <= r.words
    /\ live' = (live \ {l}) \cup {k}
    /\ regions' = (regions \ {r}) \cup {s}
    /\ UNCHANGED halted

\* The machine stops, with all memory as it was.
Halt == ~halted /\ halted' = TRUE /\ UNCHANGED <<live, regions>>

Next == ~halted /\ (Allocate \/ Free \/ Resize \/ Halt)

Spec == Init /\ [][Next]_vars
=============================================================================
