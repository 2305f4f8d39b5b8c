------------------------------- MODULE MultiMap -------------------------------
(***************************************************************************)
(* What a hash map promises: under each key the values that were added, in *)
(* the order in which they were added. A key that is looked up or removed  *)
(* stands for its oldest value; a value that was found can be changed in   *)
(* place until it is removed. HashMap.tla implements it.                   *)
(***************************************************************************)
EXTENDS Sequences

CONSTANTS Keys, Data, None

VARIABLES
  contents,  \* for each key its values, the oldest first
  found,     \* the key whose oldest value the client has a pointer to, or None
  answer,    \* what the last look-up or removal returned
  halted     \* nothing more is promised

vars == <<contents, found, answer, halted>>

Oldest(key) == IF contents[key] = <<>> THEN None ELSE Head(contents[key])

Init ==
  /\ contents = [key \in Keys |-> <<>>]
  /\ found = None
  /\ answer = None
  /\ halted = FALSE

Add(key, data) ==
  /\ UNCHANGED <<found, answer>>
  /\ contents' = [contents EXCEPT ![key] = Append(@, data)]

Find(key) ==
  /\ answer' = Oldest(key)
  /\ found' = IF contents[key] = <<>> THEN None ELSE key
  /\ UNCHANGED contents

Write(data) ==
  /\ found # None
  /\ UNCHANGED <<found, answer>>
  /\ contents' = [contents EXCEPT ![found] = <<data>> \o Tail(@)]

Remove(key) ==
  /\ answer' = Oldest(key)
  /\ IF contents[key] = <<>>
       THEN UNCHANGED <<contents, found>>
       ELSE /\ contents' = [contents EXCEPT ![key] = Tail(@)]
            /\ found' = IF found = key THEN None ELSE found

Next ==
  /\ ~halted
  /\ \/ halted'
     \/ /\ ~halted'
        /\ \/ \E key \in Keys, data \in Data : Add(key, data)
           \/ \E key \in Keys : Find(key) \/ Remove(key)
           \/ \E data \in Data : Write(data)

Spec == Init /\ [][Next]_vars
=============================================================================
