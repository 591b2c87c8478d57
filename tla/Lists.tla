------------------------------- MODULE Lists --------------------------------
(***************************************************************************)
(* What a loop over a linked list of src/common/list.c amounts to when the *)
(* list is a sequence.                                                     *)
(***************************************************************************)
EXTENDS Integers, Sequences, FiniteSets, SequencesExt

\* A linked list is the sequence of its elements, from head to tail.
list_add(list, element) == Append(list, element)

list_remove(list, node) == RemoveAt(list, node)

\* The positions a loop picks, in the order it comes to them: the enumeration
\* of a set of positions in increasing order (there is exactly one).
Enumerations(S) ==
    { e \in [1 .. Cardinality(S) -> S] : \A j, k \in DOMAIN e : j < k => e[j] < e[k] }

\* What a stable sort by rank may make of a list: its positions in the order of
\* their elements' ranks and, among equals, in their own.
Before(list, rank, i, j) ==
    rank[list[i]] < rank[list[j]] \/ (rank[list[i]] = rank[list[j]] /\ i < j)

Sorts(list, rank) ==
    { [k \in DOMAIN list |-> list[order[k]]] :
        order \in { o \in [DOMAIN list -> DOMAIN list] :
                      \A j, k \in DOMAIN list : j < k => Before(list, rank, o[j], o[k]) } }
=============================================================================
