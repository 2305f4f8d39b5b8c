------------------------------ MODULE MCHashMap ------------------------------
(* HashMap, scaled down for TLC: one bucket at first, so that five entries *)
(* are moved to two buckets and to four.                                   *)
EXTENDS HashMap, TLC

\* The keys are their hashes: 0 and 2 share a bucket until there are four.
Hash == [key \in Keys |-> key]

Symmetric == Permutations(Data)
=============================================================================
