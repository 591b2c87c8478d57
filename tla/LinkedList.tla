----------------------------- MODULE LinkedList -----------------------------
(***************************************************************************)
(* The doubly linked lists of src/common/list.c, node by node, on one heap *)
(* that may be exhausted, and the function of src/server/game.c that does  *)
(* the most with them: sort_players.                                       *)
(***************************************************************************)
EXTENDS Lists

CONSTANTS
    Node,       \* the addresses malloc may give
    NULL,
    Value,      \* the elements
    Rank        \* the order strcasecmp gives to them

ASSUME LinkedListAssumption ==
    IsFiniteSet(Node) /\ NULL \notin Node /\ Rank \in [Value -> Nat]

\* The list of players and the one sort_players makes.
List == {"players", "sorted"}

VARIABLES
    heap,       \* the fields of each node that is allocated, and of no other:
                \* a node that has been freed cannot be read
    list,       \* the head, the tail and the size of each list
    phase,      \* where sort_players is: "IDLE" before and after it
    node,       \* its min_node, or the node of its second loop
    before,     \* history: the list it has been given
    failed      \* history: whether one of its calls of malloc has failed

nodes == <<heap, list>>
sort == <<phase, node, before, failed>>
vars == <<nodes, sort>>

Pointer == Node \cup {NULL}

list_node_s == [prev : Pointer, next : Pointer, element : Value]

list_create == [head |-> NULL, tail |-> NULL, size |-> 0]

Init ==
    /\ heap = << >>
    /\ list = [l \in List |-> list_create]
    /\ phase = "IDLE" /\ node = NULL /\ before = <<>> /\ failed = FALSE

-----------------------------------------------------------------------------
(* Loops over a list *)

\* A node, and list_next from there on, as far as the list goes.
Walk(fields, first) ==
    LET at[k \in 1 .. Cardinality(Node) + 1] ==
            IF k = 1 THEN first
            ELSE IF at[k - 1] = NULL THEN NULL ELSE fields[at[k - 1]].next
    IN  Restrict(at, { k \in DOMAIN at : at[k] # NULL })

NodesOf(l) == Walk(heap, list[l].head)

ElementsOf(l) == [k \in DOMAIN NodesOf(l) |-> heap[NodesOf(l)[k]].element]

-----------------------------------------------------------------------------
(* The operations *)

\* (mutant) The new node does not know the one before it.
list_add_to_NoPrev(l, value, n) ==
    /\ n \notin DOMAIN heap
    /\ heap' = [m \in DOMAIN heap \cup {n} |->
                   IF m = n THEN [prev |-> NULL, next |-> NULL, element |-> value]
                   ELSE IF m = list[l].tail THEN [heap[m] EXCEPT !.next = n] ELSE heap[m]]
    /\ list' = [list EXCEPT ![l] = [head |-> IF @.tail = NULL THEN n ELSE @.head,
                                    tail |-> n, size |-> @.size + 1]]

\* list_add, when malloc gives it the node n.
list_add_to(l, value, n) ==
    /\ n \notin DOMAIN heap
    /\ heap' = [m \in DOMAIN heap \cup {n} |->
                   IF m = n THEN [prev |-> list[l].tail, next |-> NULL, element |-> value]
                   ELSE IF m = list[l].tail THEN [heap[m] EXCEPT !.next = n] ELSE heap[m]]
    /\ list' = [list EXCEPT ![l] = [head |-> IF @.tail = NULL THEN n ELSE @.head,
                                    tail |-> n, size |-> @.size + 1]]

\* (mutant) The node before it becomes the last.
list_remove_from_CutsRest(l, n) ==
    LET past == heap[n]
    IN  /\ heap' = [m \in DOMAIN heap \ {n} |->
                      [heap[m] EXCEPT !.next = IF m = past.prev THEN NULL ELSE @,
                                      !.prev = IF m = past.next THEN past.prev ELSE @]]
        /\ list' = [list EXCEPT
                ![l] = [head |-> IF @.head = n THEN past.next ELSE @.head,
                        tail |-> IF @.tail = n THEN past.prev ELSE @.tail,
                        size |-> @.size - 1]]

\* list_remove: what pointed to the node, be it a field of its neighbour or,
\* where it has none, of the list itself, points past it.
list_remove_from(l, n) ==
    LET past == heap[n]
    IN  /\ heap' = [m \in DOMAIN heap \ {n} |->
                      [heap[m] EXCEPT
                          !.next = IF list[l].head # n /\ m = past.prev THEN past.next ELSE @,
                          !.prev = IF list[l].tail # n /\ m = past.next THEN past.prev ELSE @]]
        /\ list' = [list EXCEPT
                ![l] = [head |-> IF @.head = n THEN past.next ELSE @.head,
                        tail |-> IF @.tail = n THEN past.prev ELSE @.tail,
                        size |-> @.size - 1]]

\* (mutant) The last node is not freed.
list_remove_all_of_Leaks(l) ==
    /\ heap' = Restrict(heap, DOMAIN heap \ Range(Front(NodesOf(l))))
    /\ list' = [list EXCEPT ![l] = list_create]

list_remove_all_of(l) ==
    /\ heap' = Restrict(heap, DOMAIN heap \ Range(NodesOf(l)))
    /\ list' = [list EXCEPT ![l] = list_create]

-----------------------------------------------------------------------------
(* Other uses of the list of players.  A caller of list_add that gets NULL has *)
(* a list that is as it was.                                                   *)

UseList ==
    /\ phase = "IDLE"
    /\ \/ \E value \in Value, n \in Node : list_add_to("players", value, n)
       \/ \E n \in Range(NodesOf("players")) : list_remove_from("players", n)
       \/ list_remove_all_of("players")
    /\ UNCHANGED sort

-----------------------------------------------------------------------------
(* sort_players: the first of the least players goes to the end of sorted until *)
(* none is left, and then they all come back.                                   *)

RankOf(n) == Rank[heap[n].element]

\* (mutant) The last of the least is taken.
IsFirstLeast_Last(list_nodes, k) ==
    /\ \A j \in DOMAIN list_nodes :
           RankOf(list_nodes[k]) <= RankOf(list_nodes[j])
    /\ \A j \in k + 1 .. Len(list_nodes) :
           RankOf(list_nodes[k]) < RankOf(list_nodes[j])

\* The loop over the nodes goes on to a node that is less than the least yet.
IsFirstLeast(list_nodes, k) ==
    /\ \A j \in DOMAIN list_nodes :
           RankOf(list_nodes[k]) <= RankOf(list_nodes[j])
    /\ \A j \in 1 .. k - 1 :
           RankOf(list_nodes[k]) < RankOf(list_nodes[j])

Start ==
    /\ phase = "IDLE" /\ phase' = "TAKE"
    /\ before' = ElementsOf("players") /\ failed' = FALSE
    /\ UNCHANGED <<nodes, node>>

\* The result of list_add is not looked at: without memory for its copy, the
\* player is lost.
AddCopy(l, value) ==
    \/ /\ \E n \in Node : list_add_to(l, value, n)
       /\ UNCHANGED failed
    \/ failed' = TRUE /\ UNCHANGED nodes

Take ==
    /\ phase = "TAKE" /\ list["players"].size # 0
    /\ \E k \in DOMAIN NodesOf("players") :
           /\ IsFirstLeast(NodesOf("players"), k)
           /\ node' = NodesOf("players")[k]
    /\ AddCopy("sorted", heap[node'].element)
    /\ phase' = "DROP"
    /\ UNCHANGED before

Drop ==
    /\ phase = "DROP" /\ phase' = "TAKE"
    /\ list_remove_from("players", node) /\ node' = NULL
    /\ UNCHANGED <<before, failed>>

AllTaken ==
    /\ phase = "TAKE" /\ list["players"].size = 0
    /\ phase' = "GIVE_BACK" /\ node' = list["sorted"].head
    /\ UNCHANGED <<nodes, before, failed>>

GiveBack ==
    /\ phase = "GIVE_BACK" /\ node # NULL
    /\ AddCopy("players", heap[node].element)
    /\ node' = heap[node].next
    /\ UNCHANGED <<phase, before>>

Finish ==
    /\ phase = "GIVE_BACK" /\ node = NULL
    /\ list_remove_all_of("sorted")
    /\ phase' = "IDLE" /\ before' = <<>> /\ failed' = FALSE
    /\ UNCHANGED node

sort_players == Start \/ Take \/ Drop \/ AllTaken \/ GiveBack \/ Finish

-----------------------------------------------------------------------------
Next == UseList \/ sort_players

Spec == Init /\ [][Next]_vars

-----------------------------------------------------------------------------
(* Properties *)

\* Every variable holds a value of its type.
ListTypeOK ==
    /\ DOMAIN heap \subseteq Node /\ Range(heap) \subseteq list_node_s
    /\ list \in [List -> [head : Pointer, tail : Pointer, size : Nat]]
    /\ phase \in {"IDLE", "TAKE", "DROP", "GIVE_BACK"} /\ node \in Pointer
    /\ before \in Seq(Value) /\ failed \in BOOLEAN

\* The way back through a list is the way forth, from its tail to its head, and
\* size counts the nodes on it.
NodesAreLinked ==
    \A l \in List :
        LET path == NodesOf(l)
        IN  /\ list[l].size = Len(path)
            /\ list[l].head = (IF path = <<>> THEN NULL ELSE path[1])
            /\ list[l].tail = (IF path = <<>> THEN NULL ELSE Last(path))
            /\ \A k \in DOMAIN path :
                   heap[path[k]].prev = (IF k = 1 THEN NULL ELSE path[k - 1])

\* Each node that is allocated is in one list, and each node of a list is
\* allocated: none leaks, dangles or is shared.  sort_players holds no pointer
\* to a freed node.
NoNodeIsLost ==
    /\ DOMAIN heap = Range(NodesOf("players")) \cup Range(NodesOf("sorted"))
    /\ Range(NodesOf("players")) \cap Range(NodesOf("sorted")) = {}
    /\ node \in DOMAIN heap \cup {NULL}

\* The lists are sequences for whoever uses them.
contents == [l \in List |-> ElementsOf(l)]
Sequences_ == INSTANCE SequenceList
ImplementsSequences == Sequences_!Spec

\* If malloc never fails, sort_players leaves just the players it was given, in
\* the order of their names, and equal names in the order they were in.
SortIsStable ==
    [][phase = "GIVE_BACK" /\ phase' = "IDLE" /\ ~failed =>
           ElementsOf("players")' \in Sorts(before, Rank)]_vars
=============================================================================
