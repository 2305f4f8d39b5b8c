-------------------------------- MODULE HashMap --------------------------------
(***************************************************************************)
(* The hash map of utils/data_structures/hashmap, one instance of its      *)
(* macros: buckets that point to chains of entries, linked in both         *)
(* directions, and as many buckets again when the chains get long.         *)
(*                                                                         *)
(* Entries are memory: `memory' is what is allocated, by address. Removing *)
(* an entry that is not the first of its chain leaves a pointer to freed   *)
(* memory in the one before it (`broken'); what later calls make of it is  *)
(* undefined, and the model ends there.                                    *)
(***************************************************************************)
EXTENDS Naturals, Sequences, FiniteSets, SequencesExt, FiniteSetsExt

CONSTANTS
  Keys, Data,
  hash_function,                     \* the client's: Keys -> uint32_t
  HASHMAP_RESIZE_FACTOR,             \* 2
  HASHMAP_LOAD_FACTOR,               \* 2
  HASHMAP_STARTING_NUM_OF_BUCKETS,   \* 256
  Addresses,                         \* bound: where entries can be allocated
  None                               \* no key, no value

ASSUME HashMapAssumption ==
  /\ hash_function \in [Keys -> Nat]
  /\ HASHMAP_RESIZE_FACTOR \in Nat \ {0, 1} /\ HASHMAP_LOAD_FACTOR \in Nat \ {0}
  /\ HASHMAP_STARTING_NUM_OF_BUCKETS \in Nat \ {0}
  /\ Addresses \subseteq Nat \ {0} /\ IsFiniteSet(Addresses)
  /\ None \notin Keys \cup Data

VARIABLES
  hashmap,   \* [list_of_buckets, num_of_buckets, num_of_entries]
  memory,    \* the allocated entries: [key, data, prev, next] by address
  held,      \* the key and the pointer that the client's last hashmap_find gave
  answer,    \* the data that the last hashmap_find or hashmap_remove gave
  broken,    \* an entry points to freed memory
  destroyed

vars == <<hashmap, memory, held, answer, broken, destroyed>>

NULL == 0
Nothing == [key |-> None, ptr |-> NULL]

\* get_hash: `hash & (num_of_buckets - 1)', a power of two
get_hash(h, key) == hash_function[key] % h.num_of_buckets

\* the addresses of a chain, from its first entry on
Chain(m, first) ==
  LET next == [p \in Nat |-> IF p = NULL THEN NULL ELSE m[p].next]
      behind[k \in Nat] == IF k = 0 THEN first ELSE next[behind[k - 1]]
      entries == {k \in 0 .. Cardinality(DOMAIN m) : behind[k] # NULL}
  IN [j \in 1 .. Cardinality(entries) |-> behind[j - 1]]
ChainOf(h, m, key) == Chain(m, h.list_of_buckets[get_hash(h, key)])

AllChains(h, m) == [i \in 0 .. h.num_of_buckets - 1 |-> Chain(m, h.list_of_buckets[i])]

InChains(chains) == UNION {ToSet(chains[i]) : i \in DOMAIN chains}

\* the entries of a chain that COMP finds equal to key
Matching(m, key) ==
  [chain \in Seq(DOMAIN m) |->
     LET among[j \in 0 .. Len(chain)] ==
           IF j = 0 THEN <<>>
           ELSE IF m[chain[j]].key = key THEN Append(among[j - 1], chain[j])
           ELSE among[j - 1]
     IN among[Len(chain)]]

ValuesOf(m) == [entries \in Seq(DOMAIN m) |-> [i \in 1 .. Len(entries) |-> m[entries[i]].data]]

-----------------------------------------------------------------------------
(* A map is [h, m]: the struct and the memory with its entries.            *)

\* mutant: in front of its chain
LinkedInFront(map, p) ==
  LET hash == get_hash(map.h, map.m[p].key)
      first == map.h.list_of_buckets[hash]
      m == [map.m EXCEPT ![p].prev = NULL, ![p].next = first]
  IN [h |-> [map.h EXCEPT !.list_of_buckets[hash] = p],
      m |-> IF first = NULL THEN m ELSE [m EXCEPT ![first].prev = p]]

\* Entry p becomes the last of its chain.
Linked(map, p) ==
  LET hash == get_hash(map.h, map.m[p].key)
      chain == ChainOf(map.h, map.m, map.m[p].key)
      last == chain[Len(chain)]
  IN IF chain = <<>>
       THEN [h |-> [map.h EXCEPT !.list_of_buckets[hash] = p],
             m |-> [map.m EXCEPT ![p].prev = NULL, ![p].next = NULL]]
       ELSE [h |-> map.h,
             m |-> [map.m EXCEPT ![last].next = p, ![p].prev = last, ![p].next = NULL]]

\* Entry by entry, a chain is taken apart from its front.
LinkedAll(map, chain) ==
  LET linked[j \in 0 .. Len(chain)] ==
        IF j = 0 THEN map ELSE Linked(linked[j - 1], chain[j])
  IN linked[Len(chain)]

\* mutant: num_of_buckets forgotten
EnlargedListOnly(h) ==
  [h EXCEPT !.list_of_buckets =
     [i \in 0 .. h.num_of_buckets * HASHMAP_RESIZE_FACTOR - 1 |-> NULL]]

Enlarged(h) ==
  LET n == h.num_of_buckets * HASHMAP_RESIZE_FACTOR
  IN [h EXCEPT !.num_of_buckets = n, !.list_of_buckets = [i \in 0 .. n - 1 |-> NULL]]

\* resize_hashmap: bucket by bucket, each entry is linked into the new buckets.
Resized(map) ==
  LET chains == AllChains(map.h, map.m)
      moved[i \in 0 .. map.h.num_of_buckets] ==
        IF i = 0 THEN [h |-> Enlarged(map.h), m |-> map.m]
        ELSE LinkedAll(moved[i - 1], chains[i - 1])
  IN moved[map.h.num_of_buckets]

IsFull(h) == h.num_of_entries \div h.num_of_buckets >= HASHMAP_LOAD_FACTOR

\* hashmap_find_entry
FoundIn(h, m, key) ==
  LET matching == Matching(m, key)[ChainOf(h, m, key)]
  IN IF matching = <<>> THEN NULL ELSE Head(matching)

\* mutant: the entry behind keeps its link back
UnlinkedForwards(map, p) ==
  LET entry == map.m[p]
      hash == get_hash(map.h, entry.key)
  IN IF entry.prev # NULL THEN [map EXCEPT !.m[p].prev = entry.next]
     ELSE [map EXCEPT !.h.list_of_buckets[hash] = entry.next]

\* The links that hashmap_remove sets before it frees entry p. If it has one
\* before it, that one is not changed.
Unlinked(map, p) ==
  LET entry == map.m[p]
      hash == get_hash(map.h, entry.key)
      a == IF entry.prev # NULL THEN [map EXCEPT !.m[p].prev = entry.next]
           ELSE [map EXCEPT !.h.list_of_buckets[hash] = entry.next]
  IN IF entry.next = NULL THEN a
     ELSE [a EXCEPT !.m[entry.next].prev = a.m[p].prev]

With(m, new, entry) == [p \in DOMAIN m \cup {new} |-> IF p = new THEN entry ELSE m[p]]
Without(m, freed) == [p \in DOMAIN m \ freed |-> m[p]]

-----------------------------------------------------------------------------

\* hashmap_init
Init ==
  /\ hashmap = [num_of_buckets |-> HASHMAP_STARTING_NUM_OF_BUCKETS,
                num_of_entries |-> 0,
                list_of_buckets |->
                  [i \in 0 .. HASHMAP_STARTING_NUM_OF_BUCKETS - 1 |-> NULL]]
  /\ memory = <<>>
  /\ held = Nothing
  /\ answer = None
  /\ broken = FALSE
  /\ destroyed = FALSE

Usable == ~broken /\ ~destroyed

hashmap_add(key, data) ==
  LET now == [h |-> hashmap, m |-> memory]
      map == IF IsFull(hashmap) THEN Resized(now) ELSE now
      new_entry == Min(Addresses \ DOMAIN memory)
      entry == [key |-> key, data |-> data, prev |-> NULL, next |-> NULL]
      added == Linked([h |-> map.h, m |-> With(map.m, new_entry, entry)], new_entry)
  IN /\ Usable
     /\ Addresses \ DOMAIN memory # {}
     /\ hashmap' = [added.h EXCEPT !.num_of_entries = @ + 1]
     /\ memory' = added.m
     /\ UNCHANGED <<held, answer, broken, destroyed>>

hashmap_find(key) ==
  LET p == FoundIn(hashmap, memory, key)
  IN /\ Usable
     /\ held' = IF p = NULL THEN Nothing ELSE [key |-> key, ptr |-> p]
     /\ answer' = IF p = NULL THEN None ELSE memory[p].data
     /\ UNCHANGED <<hashmap, memory, broken, destroyed>>

\* The client changes the data that hashmap_find gave it a pointer to, as long
\* as it has not removed it.
WriteFound(data) ==
  /\ Usable
  /\ held # Nothing
  /\ memory' = [memory EXCEPT ![held.ptr].data = data]
  /\ UNCHANGED <<hashmap, held, answer, broken, destroyed>>

hashmap_remove(key) ==
  LET p == FoundIn(hashmap, memory, key)
      map == Unlinked([h |-> hashmap, m |-> memory], p)
  IN /\ Usable
     /\ IF p = NULL
          THEN answer' = None /\ UNCHANGED <<hashmap, memory, held, broken>>
          ELSE /\ answer' = memory[p].data
               /\ hashmap' = [map.h EXCEPT !.num_of_entries = @ - 1]
               /\ memory' = Without(map.m, {p})
               /\ held' = IF held.key = key THEN Nothing ELSE held
               /\ broken' = (memory[p].prev # NULL)
     /\ UNCHANGED destroyed

\* The entries are freed; the buckets and the struct stay as they are.
hashmap_destroy ==
  /\ Usable
  /\ memory' = Without(memory, InChains(AllChains(hashmap, memory)))
  /\ destroyed' = TRUE
  /\ UNCHANGED <<hashmap, held, answer, broken>>

Next ==
  \/ \E key \in Keys, data \in Data : hashmap_add(key, data)
  \/ \E key \in Keys : hashmap_find(key) \/ hashmap_remove(key)
  \/ \E data \in Data : WriteFound(data)
  \/ hashmap_destroy

Spec == Init /\ [][Next]_vars

-----------------------------------------------------------------------------
(* Properties *)

\* Every variable has its type, and num_of_entries counts what is allocated: the
\* two assertions of resize_hashmap. [hashmap.h:93-94]
TypeOK ==
  /\ hashmap.num_of_buckets \in Nat
  /\ hashmap.list_of_buckets \in
       [0 .. hashmap.num_of_buckets - 1 -> {NULL} \cup Addresses]
  /\ DOMAIN memory \subseteq Addresses
  /\ \A p \in DOMAIN memory :
       memory[p] \in [key : Keys, data : Data,
                      prev : {NULL} \cup Addresses, next : {NULL} \cup Addresses]
  /\ held = Nothing \/ held \in [key : Keys, ptr : Addresses]
  /\ answer \in Data \cup {None}
  /\ broken \in BOOLEAN /\ destroyed \in BOOLEAN
  /\ ~destroyed => hashmap.num_of_entries = Cardinality(DOMAIN memory)

\* Until an entry is removed from the middle or the end of a chain, each entry is
\* in the chain of its hash, once and in no other, every link back agrees with
\* the link forth, and nothing that is allocated is lost; a chain is on average
\* no longer than the load factor. Destroying leaves no entry allocated.
\* [resize_hashmap, hashmap_remove, hashmap_add, hashmap_destroy]
ChainsSound ==
  /\ Usable =>
       LET chains == AllChains(hashmap, memory)
       IN /\ \A i \in DOMAIN chains : \A j \in DOMAIN chains[i] :
               LET entry == memory[chains[i][j]]
               IN /\ get_hash(hashmap, entry.key) = i
                  /\ entry.prev = IF j = 1 THEN NULL ELSE chains[i][j - 1]
          /\ InChains(chains) = DOMAIN memory
          /\ hashmap.num_of_entries <= HASHMAP_LOAD_FACTOR * hashmap.num_of_buckets
  /\ destroyed => DOMAIN memory = {}

\* The values of a key in the order of its chain.
Contents ==
  [key \in Keys |->
     ValuesOf(memory)[Matching(memory, key)[ChainOf(hashmap, memory, key)]]]

\* The map implements the abstract one: each key has its values in the order in
\* which they were added, whatever shares its bucket and however often the
\* entries were moved to new ones, and a pointer that hashmap_find gave is to
\* the value it gave until that is removed. [hashmap.h:125-192]
Abstract == INSTANCE MultiMap WITH
  contents <- IF Usable THEN Contents ELSE [key \in Keys |-> <<>>],
  found <- held.key, halted <- ~Usable
ImplementsMultiMap == Abstract!Spec
=============================================================================
