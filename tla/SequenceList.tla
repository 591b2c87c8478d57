---------------------------- MODULE SequenceList ----------------------------
(***************************************************************************)
(* What the program takes a linked list for: a sequence that elements are  *)
(* put at the end of and taken out of anywhere, and that other lists do    *)
(* not change.  Module LinkedList implements this specification.           *)
(***************************************************************************)
EXTENDS Lists

CONSTANTS List, Value

VARIABLE contents   \* the elements of each list, from its head to its tail

Init == contents = [l \in List |-> <<>>]

PutLast(l, value) == contents' = [contents EXCEPT ![l] = list_add(@, value)]

TakeOut(l, i) == contents' = [contents EXCEPT ![l] = list_remove(@, i)]

Clear(l) == contents' = [contents EXCEPT ![l] = <<>>]

Next ==
    \E l \in List :
        \/ \E value \in Value : PutLast(l, value)
        \/ \E i \in DOMAIN contents[l] : TakeOut(l, i)
        \/ Clear(l)

Spec == Init /\ [][Next]_contents
=============================================================================
