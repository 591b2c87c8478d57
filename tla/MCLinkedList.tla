---------------------------- MODULE MCLinkedList ----------------------------
(* A small instance of LinkedList. *)
EXTENDS LinkedList

\* strcasecmp does not tell "Ann" from "ann".
MCRank == [value \in Value |-> IF value = "bob" THEN 1 ELSE 0]
=============================================================================
