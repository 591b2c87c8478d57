-------------------------- MODULE LinkedListProofs --------------------------
(***************************************************************************)
(* Proofs about module LinkedList, for every number of nodes and every     *)
(* pattern of failures of malloc.  The first part is about one list on a   *)
(* heap: which sequence of nodes it is (IsChain), that a walk along it     *)
(* gives that sequence, and what list_add, list_remove and list_remove_all *)
(* make of it and of the other list.  The second part is the invariant of  *)
(* both lists and of sort_players, and the implementation of sequences;    *)
(* the third is the stability of sort_players.                             *)
(***************************************************************************)
EXTENDS LinkedList, ListLemmas

list_s == [head : Pointer, tail : Pointer, size : Nat]

\* The fields of each node are of their types.
HeapOK(h) == DOMAIN h \subseteq Node /\ Range(h) \subseteq list_node_s

\* The list c of the heap h consists of the nodes of p, which are linked in both
\* directions.
IsChain(h, c, p) ==
    /\ p \in Seq(DOMAIN h)
    /\ \A j, k \in 1 .. Len(p) : p[j] = p[k] => j = k
    /\ c.size = Len(p)
    /\ c.head = IF Len(p) = 0 THEN NULL ELSE p[1]
    /\ c.tail = IF Len(p) = 0 THEN NULL ELSE p[Len(p)]
    /\ \A k \in 1 .. Len(p) :
          /\ h[p[k]].next = IF k = Len(p) THEN NULL ELSE p[k + 1]
          /\ h[p[k]].prev = IF k = 1 THEN NULL ELSE p[k - 1]

ElementsAt(h, p) == [k \in DOMAIN p |-> h[p[k]].element]

-----------------------------------------------------------------------------
(* One list *)

\* An address that is allocated is not NULL, and its fields have their types.
LEMMA FieldTypes ==
    ASSUME NEW h, HeapOK(h), NEW m \in DOMAIN h
    PROVE  m \in Node /\ m # NULL /\ h[m] \in list_node_s
  BY LinkedListAssumption DEF HeapOK, Range

\* The nodes of a list are different addresses, as many as it counts.
LEMMA ChainProperties ==
    ASSUME NEW h, HeapOK(h), NEW c, NEW p, IsChain(h, c, p)
    PROVE  /\ Len(p) \in Nat /\ DOMAIN p = 1 .. Len(p) /\ p \in [1 .. Len(p) -> DOMAIN h]
           /\ \A k \in 1 .. Len(p) : p[k] \in DOMAIN h /\ p[k] \in Node /\ p[k] # NULL
           /\ Len(p) <= Cardinality(Node) /\ Cardinality(Node) \in Nat
  <1>1. Len(p) \in Nat /\ DOMAIN p = 1 .. Len(p) /\ p \in [1 .. Len(p) -> DOMAIN h]
    BY LenProperties DEF IsChain
  <1>2. \A k \in 1 .. Len(p) : p[k] \in DOMAIN h /\ p[k] \in Node /\ p[k] # NULL
    BY <1>1, FieldTypes
  <1>3. IsFiniteSet(Node)
    BY LinkedListAssumption
  <1>4. p \in Injection(1 .. Len(p), Node)
    <2>1. p \in [1 .. Len(p) -> Node]
      BY <1>1, <1>2
    <2>2. QED BY <1>1, <2>1 DEF IsChain, Injection, IsInjective
  <1>5. Cardinality(1 .. Len(p)) <= Cardinality(Node) /\ Cardinality(Node) \in Nat
    BY <1>3, <1>4, FS_Injection, FS_CardinalityType
  <1>6. Cardinality(1 .. Len(p)) = (IF 1 > Len(p) THEN 0 ELSE Len(p) - 1 + 1)
    BY <1>1, FS_Interval
  <1>7. Len(p) <= Cardinality(Node)
    BY <1>1, <1>5, <1>6
  <1>8. QED BY <1>1, <1>2, <1>5, <1>7

\* A function that is defined as the walk in Walk is.
IsWalk(at, fields, first) ==
    at = [k \in 1 .. Cardinality(Node) + 1 |->
            IF k = 1 THEN first
            ELSE IF at[k - 1] = NULL THEN NULL ELSE fields[at[k - 1]].next]

\* Where there is such a function, the one in Walk is such a function.
LEMMA WalkDefined ==
    ASSUME NEW fields, NEW first, NEW f, IsWalk(f, fields, first)
    PROVE  \E at : /\ IsWalk(at, fields, first)
                   /\ Walk(fields, first) = Restrict(at, { k \in DOMAIN at : at[k] # NULL })
  BY DEF IsWalk, Walk

\* A walk from the head of a list visits its nodes and leaves it behind the last.
LEMMA WalkOfChain ==
    ASSUME NEW h, HeapOK(h), NEW c, NEW p, IsChain(h, c, p)
    PROVE  Walk(h, c.head) = p
  <1> DEFINE n == Len(p)
             M == Cardinality(Node) + 1
             visit == [k \in 1 .. M |-> IF k <= n THEN p[k] ELSE NULL]
  <1>1. /\ n \in Nat /\ M \in Nat /\ n < M /\ M >= 1
        /\ p \in [1 .. n -> DOMAIN h]
        /\ \A k \in 1 .. n : p[k] # NULL
    BY ChainProperties
  <1>2. \A k \in 1 .. n : h[p[k]].next = IF k = n THEN NULL ELSE p[k + 1]
    BY DEF IsChain
  <1>3. c.head = IF n = 0 THEN NULL ELSE p[1]
    BY DEF IsChain
  <1> HIDE DEF n, M
  <1>4. \A k \in 1 .. M : visit[k] = IF k <= n THEN p[k] ELSE NULL
    OBVIOUS
  <1>5. ASSUME NEW k \in 1 .. M
        PROVE  visit[k] = IF k = 1 THEN c.head
                          ELSE IF visit[k - 1] = NULL THEN NULL ELSE h[visit[k - 1]].next
    <2>1. CASE k = 1
      BY <1>1, <1>3, <1>4, <2>1
    <2>2. CASE k # 1 /\ k - 1 <= n
      <3>1. k - 1 \in 1 .. M /\ k - 1 \in 1 .. n /\ k - 1 + 1 = k /\ (k - 1 = n <=> ~(k <= n))
        BY <1>1, <2>2
      <3>2. visit[k - 1] = p[k - 1] /\ p[k - 1] # NULL
        BY <1>1, <1>4, <3>1
      <3>3. h[p[k - 1]].next = IF k - 1 = n THEN NULL ELSE p[k]
        BY <1>2, <3>1
      <3>4. QED BY <1>4, <2>2, <3>1, <3>2, <3>3
    <2>3. CASE k # 1 /\ ~(k - 1 <= n)
      <3>1. k - 1 \in 1 .. M /\ ~(k <= n)
        BY <1>1, <2>3
      <3>2. QED BY <1>4, <2>3, <3>1
    <2>4. QED BY <2>1, <2>2, <2>3
  <1>6. IsWalk(visit, h, c.head)
    BY <1>5 DEF IsWalk, M
  <1>7. ASSUME NEW at, IsWalk(at, h, c.head) PROVE at = visit
    <2> DEFINE P == { k \in 0 .. M : k # 0 => at[k] = visit[k] }
    <2>1. \A k \in 1 .. M :
             at[k] = IF k = 1 THEN c.head
                     ELSE IF at[k - 1] = NULL THEN NULL ELSE h[at[k - 1]].next
      BY <1>7 DEF IsWalk, M
    <2>2. 0 \in P
      BY <1>1
    <2>3. ASSUME NEW k \in 1 .. M, k - 1 \in P PROVE k \in P
      <3>1. k # 1 => at[k - 1] = visit[k - 1]
        BY <2>3
      <3>2. at[k] = visit[k]
        BY <1>5, <2>1, <3>1
      <3>3. QED BY <3>2
    <2> HIDE DEF P
    <2>4. \A k \in 0 .. M : k \in P
      BY <1>1, <2>2, <2>3, InductionUpTo
    <2>5. \A k \in 1 .. M : at[k] = visit[k]
      <3>1. \A k \in 1 .. M : k \in 0 .. M /\ k # 0
        BY <1>1
      <3>2. QED BY <2>4, <3>1 DEF P
    <2>6. at = [k \in 1 .. M |-> at[k]]
      BY <1>7 DEF IsWalk, M
    <2>7. at = [k \in 1 .. M |-> visit[k]]
      BY <2>5, <2>6
    <2>8. visit = [k \in 1 .. M |-> visit[k]]
      OBVIOUS
    <2>9. QED BY <2>7, <2>8
  <1>8. Walk(h, c.head) = Restrict(visit, { k \in DOMAIN visit : visit[k] # NULL })
    <2> HIDE DEF visit
    <2>1. QED BY <1>6, <1>7, WalkDefined
  <1>9. { k \in DOMAIN visit : visit[k] # NULL } = 1 .. n
    <2>1. DOMAIN visit = 1 .. M
      OBVIOUS
    <2>2. ASSUME NEW k \in 1 .. M PROVE visit[k] # NULL <=> k <= n
      BY <1>1, <1>4
    <2>3. QED BY <1>1, <2>1, <2>2
  <1>10. Restrict(visit, 1 .. n) = [k \in 1 .. n |-> p[k]]
    <2>1. \A k \in 1 .. n : visit[k] = p[k]
      BY <1>1, <1>4
    <2>2. QED BY <2>1 DEF Restrict
  <1>11. p = [k \in 1 .. n |-> p[k]]
    BY <1>1
  <1>12. QED BY <1>8, <1>9, <1>10, <1>11

\* A list stays as it is where its nodes do.
LEMMA ChainKept ==
    ASSUME NEW h, HeapOK(h), NEW c, NEW p, IsChain(h, c, p),
           NEW g, \A m \in Range(p) : m \in DOMAIN g /\ g[m] = h[m]
    PROVE  IsChain(g, c, p) /\ ElementsAt(g, p) = ElementsAt(h, p)
  <1>1. Len(p) \in Nat /\ DOMAIN p = 1 .. Len(p) /\ p \in [1 .. Len(p) -> DOMAIN h]
    BY ChainProperties
  <1>2. \A k \in 1 .. Len(p) : p[k] \in DOMAIN g /\ g[p[k]] = h[p[k]]
    BY <1>1 DEF Range
  <1>3. p \in Seq(DOMAIN g)
    <2>1. p \in [1 .. Len(p) -> DOMAIN g]
      BY <1>1, <1>2
    <2>2. QED BY <1>1, <2>1, FunctionIsSeq
  <1>4. IsChain(g, c, p)
    BY <1>2, <1>3 DEF IsChain
  <1>5. ElementsAt(g, p) = ElementsAt(h, p)
    BY <1>1, <1>2 DEF ElementsAt
  <1>6. QED BY <1>4, <1>5

\* The elements of a list are a sequence.
LEMMA ElementsProperties ==
    ASSUME NEW h, HeapOK(h), NEW c, NEW p, IsChain(h, c, p)
    PROVE  /\ ElementsAt(h, p) \in Seq(Value) /\ Len(ElementsAt(h, p)) = Len(p)
           /\ DOMAIN ElementsAt(h, p) = 1 .. Len(p)
           /\ \A k \in 1 .. Len(p) : ElementsAt(h, p)[k] = h[p[k]].element
  <1>1. Len(p) \in Nat /\ DOMAIN p = 1 .. Len(p) /\ \A k \in 1 .. Len(p) : p[k] \in DOMAIN h
    BY ChainProperties
  <1>2. \A k \in 1 .. Len(p) : h[p[k]].element \in Value
    BY <1>1, FieldTypes DEF list_node_s
  <1>3. ElementsAt(h, p) = [k \in 1 .. Len(p) |-> h[p[k]].element]
    BY <1>1 DEF ElementsAt
  <1>4. ElementsAt(h, p) \in [1 .. Len(p) -> Value]
    BY <1>2, <1>3
  <1>5. QED BY <1>1, <1>3, <1>4, FunctionIsSeq

\* What list_add makes of the heap and of its list.
AddedHeap(h, c, value, n) ==
    [m \in DOMAIN h \cup {n} |->
        IF m = n THEN [prev |-> c.tail, next |-> NULL, element |-> value]
        ELSE IF m = c.tail THEN [h[m] EXCEPT !.next = n] ELSE h[m]]

AddedList(c, n) ==
    [head |-> IF c.tail = NULL THEN n ELSE c.head, tail |-> n, size |-> c.size + 1]

\* The heap g is h with n, which the tail of c leads to.
LeadsTo(g, h, c, value, n) ==
    /\ HeapOK(g) /\ DOMAIN g = DOMAIN h \cup {n}
    /\ g[n] = [prev |-> c.tail, next |-> NULL, element |-> value]
    /\ \A m \in DOMAIN h :
          /\ g[m].prev = h[m].prev /\ g[m].element = h[m].element
          /\ g[m].next = IF m = c.tail THEN n ELSE h[m].next
          /\ m # c.tail => g[m] = h[m]

\* list_add changes the fields of no node but the tail, and of that one only next.
LEMMA AddToHeap ==
    ASSUME NEW h, HeapOK(h), NEW c, c \in list_s, NEW value \in Value,
           NEW n \in Node, n \notin DOMAIN h
    PROVE  LeadsTo(AddedHeap(h, c, value, n), h, c, value, n)
  <1> DEFINE g == AddedHeap(h, c, value, n)
  <1>1. DOMAIN g = DOMAIN h \cup {n} /\ DOMAIN g \subseteq Node
    BY DEF AddedHeap, HeapOK
  <1>2. g[n] = [prev |-> c.tail, next |-> NULL, element |-> value]
    BY DEF AddedHeap
  <1>3. ASSUME NEW m \in DOMAIN h
        PROVE  /\ g[m].prev = h[m].prev /\ g[m].element = h[m].element
               /\ g[m].next = (IF m = c.tail THEN n ELSE h[m].next)
               /\ m # c.tail => g[m] = h[m]
               /\ g[m] \in list_node_s
    <2>1. g[m] = IF m = c.tail THEN [h[m] EXCEPT !.next = n] ELSE h[m]
      BY DEF AddedHeap
    <2>2. h[m] \in list_node_s
      BY FieldTypes
    <2>3. [h[m] EXCEPT !.next = n] = [prev |-> h[m].prev, next |-> n, element |-> h[m].element]
      BY <2>2 DEF list_node_s
    <2>4. n \in Pointer /\ h[m].prev \in Pointer /\ h[m].element \in Value
      BY <2>2 DEF list_node_s, Pointer
    <2>5. CASE m = c.tail
      <3>1. g[m] = [prev |-> h[m].prev, next |-> n, element |-> h[m].element]
        BY <2>1, <2>3, <2>5
      <3>2. QED BY <2>4, <2>5, <3>1 DEF list_node_s
    <2>6. CASE m # c.tail
      BY <2>1, <2>2, <2>6
    <2>7. QED BY <2>5, <2>6
  <1>4. g[n] \in list_node_s
    <2>1. c.tail \in Pointer /\ NULL \in Pointer
      BY DEF list_s, Pointer
    <2>2. QED BY <1>2, <2>1 DEF list_node_s
  <1>5. HeapOK(g)
    BY <1>1, <1>3, <1>4 DEF HeapOK, Range
  <1> HIDE DEF g
  <1>6. LeadsTo(g, h, c, value, n)
    BY <1>1, <1>2, <1>3, <1>5 DEF LeadsTo
  <1>7. QED BY <1>6 DEF g

\* On g the list d is what the list p was on h, and n with the value behind it.
IsAddition(h, p, value, n, g, d) ==
    /\ HeapOK(g) /\ DOMAIN g = DOMAIN h \cup {n}
    /\ d \in list_s /\ IsChain(g, d, Append(p, n))
    /\ ElementsAt(g, Append(p, n)) = Append(ElementsAt(h, p), value)
    /\ \A m \in DOMAIN h \ Range(p) : g[m] = h[m]

\* list_add: the new node is the last of its list.
LEMMA ChainAdd ==
    ASSUME NEW h, HeapOK(h), NEW c, c \in list_s, NEW p, IsChain(h, c, p),
           NEW value \in Value, NEW n \in Node, n \notin DOMAIN h
    PROVE  IsAddition(h, p, value, n, AddedHeap(h, c, value, n), AddedList(c, n))
  <1> DEFINE q == Append(p, n)
             z == Len(p)
             g == AddedHeap(h, c, value, n)
             d == AddedList(c, n)
  <1>1. /\ z \in Nat /\ DOMAIN p = 1 .. z
        /\ \A k \in 1 .. z : p[k] \in DOMAIN h /\ p[k] # NULL
    BY ChainProperties
  <1>2. /\ HeapOK(g) /\ DOMAIN g = DOMAIN h \cup {n}
        /\ g[n] = [prev |-> c.tail, next |-> NULL, element |-> value]
        /\ \A m \in DOMAIN h :
                 /\ g[m].prev = h[m].prev /\ g[m].element = h[m].element
                 /\ g[m].next = IF m = c.tail THEN n ELSE h[m].next
                 /\ m # c.tail => g[m] = h[m]
    <2>1. LeadsTo(g, h, c, value, n)
      BY AddToHeap
    <2>2. QED BY <2>1 DEF LeadsTo
  <1>h. d = AddedList(c, n)
    OBVIOUS
  <1> HIDE DEF g, d
  <1>3. /\ \A j, k \in 1 .. z : p[j] = p[k] => j = k
        /\ c.size = z
        /\ c.head = IF z = 0 THEN NULL ELSE p[1]
        /\ c.tail = IF z = 0 THEN NULL ELSE p[z]
        /\ \A k \in 1 .. z :
              /\ h[p[k]].next = IF k = z THEN NULL ELSE p[k + 1]
              /\ h[p[k]].prev = IF k = 1 THEN NULL ELSE p[k - 1]
    BY DEF IsChain
  <1>4. p \in Seq(DOMAIN g) /\ n \in DOMAIN g
    <2>1. p \in [1 .. z -> DOMAIN g]
      <3>1. p \in [1 .. z -> DOMAIN h]
        BY ChainProperties
      <3>2. QED BY <1>2, <3>1
    <2>2. QED BY <1>1, <1>2, <2>1, FunctionIsSeq
  <1>5. /\ q \in Seq(DOMAIN g) /\ Len(q) = z + 1 /\ DOMAIN q = 1 .. z + 1
        /\ \A k \in 1 .. z : q[k] = p[k]
        /\ q[z + 1] = n
    BY <1>4, PushProperties
  <1> HIDE DEF q, z
  <1>6. \A k \in 1 .. z + 1 : k = z + 1 \/ k \in 1 .. z
    BY <1>1
  <1>7. \A j, k \in 1 .. Len(q) : q[j] = q[k] => j = k
    <2>1. \A k \in 1 .. z : q[k] # n
      BY <1>1, <1>5
    <2>2. QED BY <1>3, <1>5, <1>6, <2>1
  <1>8. d.size = Len(q) /\ d.tail = n /\ d.head = q[1] /\ q[Len(q)] = n /\ Len(q) # 0
    <2>1. d = [head |-> IF c.tail = NULL THEN n ELSE c.head, tail |-> n, size |-> z + 1]
      BY <1>3, <1>h DEF AddedList
    <2>2. c.tail = NULL <=> z = 0
      BY <1>1, <1>3
    <2>3. z # 0 => 1 \in 1 .. z
      BY <1>1
    <2>4. q[1] = IF z = 0 THEN n ELSE p[1]
      BY <1>1, <1>5, <2>3
    <2>5. d.head = q[1]
      BY <1>3, <2>1, <2>2, <2>4
    <2>6. d.size = Len(q) /\ d.tail = n
      BY <1>5, <2>1
    <2>7. QED BY <1>1, <1>5, <2>5, <2>6
  <1>9. ASSUME NEW k \in 1 .. Len(q)
        PROVE  /\ g[q[k]].next = (IF k = Len(q) THEN NULL ELSE q[k + 1])
               /\ g[q[k]].prev = (IF k = 1 THEN NULL ELSE q[k - 1])
               /\ g[q[k]].element = (IF k = Len(q) THEN value ELSE h[p[k]].element)
    <2>1. CASE k = z + 1
      <3>1. q[k] = n /\ g[q[k]].next = NULL /\ g[q[k]].element = value /\ g[q[k]].prev = c.tail
        BY <1>2, <1>5, <2>1
      <3>2. k = 1 <=> z = 0
        BY <1>1, <2>1
      <3>3. k # 1 => k - 1 \in 1 .. z /\ k - 1 = z
        BY <1>1, <2>1
      <3>4. c.tail = IF k = 1 THEN NULL ELSE q[k - 1]
        BY <1>3, <1>5, <3>2, <3>3
      <3>5. QED BY <1>5, <2>1, <3>1, <3>4
    <2>2. CASE k \in 1 .. z
      <3>1. q[k] = p[k] /\ p[k] \in DOMAIN h /\ k # Len(q)
        BY <1>1, <1>5, <2>2
      <3>2. p[k] = c.tail <=> k = z
        <4>1. z \in 1 .. z /\ c.tail = p[z]
          BY <1>1, <1>3, <2>2
        <4>2. QED BY <1>3, <2>2, <4>1
      <3>3. g[q[k]].next = IF k = z THEN n ELSE p[k + 1]
        BY <1>2, <1>3, <2>2, <3>1, <3>2
      <3>4. q[k + 1] = IF k = z THEN n ELSE p[k + 1]
        <4>1. k # z => k + 1 \in 1 .. z
          BY <1>1, <2>2
        <4>2. QED BY <1>5, <4>1
      <3>5. g[q[k]].prev = IF k = 1 THEN NULL ELSE p[k - 1]
        BY <1>2, <1>3, <2>2, <3>1
      <3>6. k # 1 => k - 1 \in 1 .. z
        BY <1>1, <2>2
      <3>7. g[q[k]].prev = IF k = 1 THEN NULL ELSE q[k - 1]
        BY <1>5, <3>5, <3>6
      <3>8. QED BY <1>2, <3>1, <3>3, <3>4, <3>7
    <2>3. QED BY <1>5, <1>6, <2>1, <2>2
  <1>10. IsChain(g, d, q)
    BY <1>5, <1>7, <1>8, <1>9 DEF IsChain
  <1>11. d \in list_s
    <2>1. d = [head |-> IF c.tail = NULL THEN n ELSE c.head, tail |-> n, size |-> c.size + 1]
      BY <1>h DEF AddedList
    <2>2. c.head \in Pointer /\ n \in Pointer /\ c.size + 1 \in Nat
      BY DEF list_s, Pointer
    <2>3. QED BY <2>1, <2>2 DEF list_s
  <1>12. ElementsAt(g, q) = Append(ElementsAt(h, p), value)
    <2> DEFINE a == ElementsAt(g, q)
               b == ElementsAt(h, p)
    <2>1. a \in Seq(Value) /\ Len(a) = z + 1 /\ \A k \in 1 .. z + 1 : a[k] = g[q[k]].element
      BY <1>2, <1>5, <1>10, ElementsProperties
    <2>2. b \in Seq(Value) /\ Len(b) = z /\ \A k \in 1 .. z : b[k] = h[p[k]].element
      BY ElementsProperties DEF z
    <2> HIDE DEF a, b
    <2>3. /\ Append(b, value) \in Seq(Value) /\ Len(Append(b, value)) = z + 1
          /\ \A k \in 1 .. z : Append(b, value)[k] = b[k]
          /\ Append(b, value)[z + 1] = value
      BY <2>2, PushProperties
    <2>4. ASSUME NEW k \in 1 .. z + 1 PROVE a[k] = Append(b, value)[k]
      <3>1. a[k] = IF k = z + 1 THEN value ELSE h[p[k]].element
        BY <1>5, <1>9, <2>1
      <3>2. QED BY <1>6, <2>2, <2>3, <3>1
    <2>5. a = Append(b, value)
      BY <2>1, <2>3, <2>4, SeqEqual
    <2>6. QED BY <2>5 DEF a, b
  <1>13. ASSUME NEW m \in DOMAIN h \ Range(p) PROVE g[m] = h[m]
    <2>1. m # NULL
      BY FieldTypes
    <2>2. z # 0 => z \in 1 .. z /\ p[z] \in Range(p)
      BY <1>1 DEF Range
    <2>3. m # c.tail
      BY <1>3, <2>1, <2>2
    <2>4. QED BY <1>2, <2>3
  <1>14. IsAddition(h, p, value, n, g, d)
    BY <1>2, <1>10, <1>11, <1>12, <1>13 DEF q, IsAddition
  <1>15. QED BY <1>14 DEF g, d

\* What list_remove makes of the heap and of its list.
RemovedHeap(h, c, n) ==
    [m \in DOMAIN h \ {n} |->
        [h[m] EXCEPT
            !.next = IF c.head # n /\ m = h[n].prev THEN h[n].next ELSE @,
            !.prev = IF c.tail # n /\ m = h[n].next THEN h[n].prev ELSE @]]

RemovedList(h, c, n) ==
    [head |-> IF c.head = n THEN h[n].next ELSE c.head,
     tail |-> IF c.tail = n THEN h[n].prev ELSE c.tail,
     size |-> c.size - 1]

\* The heap g is h without n, and around n the pointers lead past it.
LeadsPast(g, h, c, n) ==
    /\ HeapOK(g) /\ DOMAIN g = DOMAIN h \ {n}
    /\ \A m \in DOMAIN h \ {n} :
          /\ g[m].element = h[m].element
          /\ g[m].next = IF c.head # n /\ m = h[n].prev THEN h[n].next ELSE h[m].next
          /\ g[m].prev = IF c.tail # n /\ m = h[n].next THEN h[n].prev ELSE h[m].prev
          /\ (c.head = n \/ m # h[n].prev) /\ (c.tail = n \/ m # h[n].next) => g[m] = h[m]

\* list_remove changes the fields of no nodes but the neighbours of the one it
\* frees, and of those only the pointers to it.
LEMMA RemoveFromHeap ==
    ASSUME NEW h, HeapOK(h), NEW c, NEW n \in DOMAIN h
    PROVE  LeadsPast(RemovedHeap(h, c, n), h, c, n)
  <1> DEFINE g == RemovedHeap(h, c, n)
  <1>1. DOMAIN g = DOMAIN h \ {n} /\ DOMAIN g \subseteq Node
    BY DEF RemovedHeap, HeapOK
  <1>2. ASSUME NEW m \in DOMAIN h \ {n}
        PROVE  /\ g[m].element = h[m].element
               /\ g[m].next = (IF c.head # n /\ m = h[n].prev THEN h[n].next ELSE h[m].next)
               /\ g[m].prev = (IF c.tail # n /\ m = h[n].next THEN h[n].prev ELSE h[m].prev)
               /\ (c.head = n \/ m # h[n].prev) /\ (c.tail = n \/ m # h[n].next) => g[m] = h[m]
               /\ g[m] \in list_node_s
    <2> DEFINE x == IF c.head # n /\ m = h[n].prev THEN h[n].next ELSE h[m].next
               y == IF c.tail # n /\ m = h[n].next THEN h[n].prev ELSE h[m].prev
    <2>1. h[m] \in list_node_s /\ h[n] \in list_node_s
      BY FieldTypes
    <2>2. g[m] = [h[m] EXCEPT
                    !.next = IF c.head # n /\ m = h[n].prev THEN h[n].next ELSE h[m].next,
                    !.prev = IF c.tail # n /\ m = h[n].next THEN h[n].prev ELSE h[m].prev]
      BY DEF RemovedHeap
    <2>3. x \in Pointer /\ y \in Pointer /\ h[m].element \in Value
      BY <2>1 DEF list_node_s
    <2>4. h[m] = [prev |-> h[m].prev, next |-> h[m].next, element |-> h[m].element]
      BY <2>1 DEF list_node_s
    <2>5. g[m] = [prev |-> y, next |-> x, element |-> h[m].element]
      BY <2>1, <2>2 DEF list_node_s
    <2>6. /\ g[m].element = h[m].element /\ g[m].next = x /\ g[m].prev = y
          /\ g[m] \in list_node_s
      BY <2>3, <2>5 DEF list_node_s
    <2>7. (c.head = n \/ m # h[n].prev) /\ (c.tail = n \/ m # h[n].next) => g[m] = h[m]
      BY <2>4, <2>5
    <2>8. QED BY <2>6, <2>7
  <1>3. HeapOK(g)
    BY <1>1, <1>2 DEF HeapOK, Range
  <1> HIDE DEF g
  <1>4. LeadsPast(g, h, c, n)
    BY <1>1, <1>2, <1>3 DEF LeadsPast
  <1>5. QED BY <1>4 DEF g

\* On g the list d is what the list p was on h, without its i-th node n.
IsTakenOut(h, p, i, n, g, d) ==
    /\ HeapOK(g) /\ DOMAIN g = DOMAIN h \ {n}
    /\ d \in list_s /\ IsChain(g, d, RemoveAt(p, i))
    /\ ElementsAt(g, RemoveAt(p, i)) = RemoveAt(ElementsAt(h, p), i)
    /\ \A m \in DOMAIN h \ Range(p) : m # n /\ g[m] = h[m]

\* list_remove: the nodes behind the removed one move up by one.
LEMMA ChainRemove ==
    ASSUME NEW h, HeapOK(h), NEW c, c \in list_s, NEW p, IsChain(h, c, p),
           NEW i \in DOMAIN p, NEW n, n = p[i]
    PROVE  IsTakenOut(h, p, i, n, RemovedHeap(h, c, n), RemovedList(h, c, n))
  <1> DEFINE q == RemoveAt(p, i)
             z == Len(p)
             g == RemovedHeap(h, c, n)
             d == RemovedList(h, c, n)
  <1>1. /\ z \in Nat /\ DOMAIN p = 1 .. z /\ i \in 1 .. z /\ p \in Seq(DOMAIN h)
        /\ n = p[i] /\ n \in DOMAIN h
        /\ \A k \in 1 .. z : p[k] \in DOMAIN h /\ p[k] # NULL
    <2>1. z \in Nat /\ DOMAIN p = 1 .. z /\ \A k \in 1 .. z : p[k] \in DOMAIN h /\ p[k] # NULL
      BY ChainProperties
    <2>2. p \in Seq(DOMAIN h)
      BY DEF IsChain
    <2>3. QED BY <2>1, <2>2
  <1>2. /\ HeapOK(g) /\ DOMAIN g = DOMAIN h \ {n}
        /\ \A m \in DOMAIN h \ {n} :
                 /\ g[m].element = h[m].element
                 /\ g[m].next = IF c.head # n /\ m = h[n].prev THEN h[n].next ELSE h[m].next
                 /\ g[m].prev = IF c.tail # n /\ m = h[n].next THEN h[n].prev ELSE h[m].prev
                 /\ (c.head = n \/ m # h[n].prev) /\ (c.tail = n \/ m # h[n].next) => g[m] = h[m]
    <2>1. LeadsPast(g, h, c, n)
      BY <1>1, RemoveFromHeap
    <2>2. QED BY <2>1 DEF LeadsPast
  <1>3. /\ \A j, k \in 1 .. z : p[j] = p[k] => j = k
        /\ c.size = z
        /\ c.head = IF z = 0 THEN NULL ELSE p[1]
        /\ c.tail = IF z = 0 THEN NULL ELSE p[z]
        /\ \A k \in 1 .. z :
              /\ h[p[k]].next = IF k = z THEN NULL ELSE p[k + 1]
              /\ h[p[k]].prev = IF k = 1 THEN NULL ELSE p[k - 1]
    BY DEF IsChain
  <1>4. /\ q \in Seq(DOMAIN h) /\ Len(q) = z - 1
        /\ \A j \in 1 .. z - 1 : q[j] = IF j < i THEN p[j] ELSE p[j + 1]
    BY <1>1, RemoveAtProperties
  <1>d. d = RemovedList(h, c, n)
    OBVIOUS
  <1> HIDE DEF q, z, g, d
  <1>5. z # 0 /\ z - 1 \in Nat /\ 1 \in 1 .. z /\ z \in 1 .. z /\ DOMAIN q = 1 .. z - 1
    BY <1>1, <1>4, LenProperties
  <1> DEFINE at(j) == IF j < i THEN j ELSE j + 1
  <1>6. /\ \A j \in 1 .. z - 1 : at(j) \in 1 .. z /\ at(j) # i /\ q[j] = p[at(j)]
        /\ \A j, k \in 1 .. z - 1 : at(j) = at(k) => j = k
    BY <1>1, <1>4
  <1> HIDE DEF at
  <1>7. \A j \in 1 .. z - 1 : q[j] # n /\ q[j] \in DOMAIN g
    <2>1. \A j \in 1 .. z - 1 : q[j] # n /\ q[j] \in DOMAIN h
      BY <1>1, <1>3, <1>6
    <2>2. QED BY <1>2, <2>1
  <1>8. c.head = p[1] /\ c.tail = p[z] /\ (c.head = n <=> i = 1) /\ (c.tail = n <=> i = z)
    BY <1>1, <1>3, <1>5
  <1>9. /\ h[n].next = (IF i = z THEN NULL ELSE p[i + 1])
        /\ h[n].prev = (IF i = 1 THEN NULL ELSE p[i - 1])
        /\ i # z => i + 1 \in 1 .. z
        /\ i # 1 => i - 1 \in 1 .. z
    <2>1. (i # z => i + 1 \in 1 .. z) /\ (i # 1 => i - 1 \in 1 .. z)
      BY <1>1
    <2>2. QED BY <1>1, <1>3, <2>1
  <1>10. q \in Seq(DOMAIN g)
    <2>1. q \in [1 .. z - 1 -> DOMAIN g]
      <3>1. q \in [1 .. z - 1 -> DOMAIN h]
        BY <1>4, LenProperties
      <3>2. QED BY <1>7, <3>1
    <2>2. QED BY <1>5, <2>1, FunctionIsSeq
  <1>11. \A j, k \in 1 .. Len(q) : q[j] = q[k] => j = k
    <2>1. \A j, k \in 1 .. z - 1 : q[j] = q[k] => at(j) = at(k)
      BY <1>3, <1>6
    <2>2. QED BY <1>4, <1>6, <2>1
  <1>12. /\ d = [head |-> IF i = 1 THEN h[n].next ELSE p[1],
                 tail |-> IF i = z THEN h[n].prev ELSE p[z],
                 size |-> z - 1]
         /\ d.size = Len(q)
         /\ d.head = (IF Len(q) = 0 THEN NULL ELSE q[1])
         /\ d.tail = (IF Len(q) = 0 THEN NULL ELSE q[Len(q)])
    <2>1. d = [head |-> IF i = 1 THEN h[n].next ELSE p[1],
                 tail |-> IF i = z THEN h[n].prev ELSE p[z],
                 size |-> z - 1]
      BY <1>3, <1>8, <1>d DEF RemovedList
    <2>2. d.head = (IF Len(q) = 0 THEN NULL ELSE q[1])
      <3>1. CASE z = 1
        BY <1>1, <1>4, <1>9, <2>1, <3>1
      <3>2. CASE z # 1
        <4>1. 1 \in 1 .. z - 1 /\ z - 1 # 0
          BY <1>1, <1>5, <3>2
        <4>2. q[1] = IF i = 1 THEN p[2] ELSE p[1]
          BY <1>1, <1>4, <4>1
        <4>3. i = 1 => h[n].next = p[2]
          BY <1>9, <3>2
        <4>4. QED BY <1>4, <2>1, <4>1, <4>2, <4>3
      <3>3. QED BY <3>1, <3>2
    <2>3. d.tail = (IF Len(q) = 0 THEN NULL ELSE q[Len(q)])
      <3>1. CASE z = 1
        BY <1>1, <1>4, <1>9, <2>1, <3>1
      <3>2. CASE z # 1
        <4>1. z - 1 \in 1 .. z - 1 /\ z - 1 # 0 /\ (z - 1 < i <=> i = z)
          BY <1>1, <1>5, <3>2
        <4>2. q[z - 1] = IF i = z THEN p[z - 1] ELSE p[z - 1 + 1]
          BY <1>4, <4>1
        <4>3. z - 1 + 1 = z
          BY <1>1
        <4>4. i = z => h[n].prev = p[z - 1]
          BY <1>9, <3>2
        <4>5. QED BY <1>4, <2>1, <4>1, <4>2, <4>3, <4>4
      <3>3. QED BY <3>1, <3>2
    <2>4. QED BY <1>4, <2>1, <2>2, <2>3
  <1>13. ASSUME NEW j \in 1 .. z - 1
         PROVE  /\ g[q[j]].next = (IF j = z - 1 THEN NULL ELSE q[j + 1])
                /\ g[q[j]].prev = (IF j = 1 THEN NULL ELSE q[j - 1])
                /\ g[q[j]].element = h[q[j]].element
    <2> DEFINE m == q[j]
               a == at(j)
    <2>1. /\ m = p[a] /\ a \in 1 .. z /\ a # i /\ m \in DOMAIN h \ {n}
      BY <1>2, <1>6, <1>7
    <2>2. a = IF j < i THEN j ELSE j + 1
      BY DEF at
    <2>3. /\ g[m].next = (IF c.head # n /\ m = h[n].prev THEN h[n].next ELSE h[m].next)
          /\ g[m].prev = (IF c.tail # n /\ m = h[n].next THEN h[n].prev ELSE h[m].prev)
          /\ g[m].element = h[m].element
      BY <1>2, <2>1
    <2>n. j \in Nat /\ j >= 1 /\ j <= z - 1 /\ i \in Nat /\ i >= 1 /\ i <= z
      BY <1>1, <1>5
    <2> HIDE DEF m, a
    <2>4. h[m].next = (IF a = z THEN NULL ELSE p[a + 1]) /\ h[m].prev = (IF a = 1 THEN NULL ELSE p[a - 1])
      BY <1>3, <2>1
    <2>5. c.head # n /\ m = h[n].prev <=> i # 1 /\ a = i - 1
      <3>1. i # 1 => (m = p[i - 1] <=> a = i - 1)
        BY <1>3, <1>9, <2>1
      <3>2. QED BY <1>8, <1>9, <3>1
    <2>6. c.tail # n /\ m = h[n].next <=> i # z /\ a = i + 1
      <3>1. i # z => (m = p[i + 1] <=> a = i + 1)
        BY <1>3, <1>9, <2>1
      <3>2. QED BY <1>8, <1>9, <3>1
    <2>7. g[m].next = (IF j = z - 1 THEN NULL ELSE q[j + 1])
      <3>1. CASE i # 1 /\ a = i - 1
        <4>1. j = i - 1 /\ (j = z - 1 <=> i = z) /\ j + 1 = i
          BY <1>1, <2>2, <2>n, <3>1
        <4>2. i # z => i \in 1 .. z - 1 /\ q[i] = p[i + 1]
          <5>1. i # z => i \in 1 .. z - 1
            BY <1>1
          <5>2. QED BY <1>4, <5>1
        <4>3. QED BY <1>9, <2>3, <2>5, <3>1, <4>1, <4>2
      <3>2. CASE ~(i # 1 /\ a = i - 1)
        <4>1. g[m].next = IF a = z THEN NULL ELSE p[a + 1]
          BY <2>3, <2>4, <2>5, <3>2
        <4>2. a = z <=> j = z - 1
          BY <1>1, <2>1, <2>2, <3>2
        <4>3. j # z - 1 => j + 1 \in 1 .. z - 1 /\ q[j + 1] = p[a + 1]
          <5>1. j # z - 1 => j + 1 \in 1 .. z - 1
            BY <1>1, <2>n
          <5>2. j < i => j + 1 < i
            BY <1>1, <2>1, <2>2, <3>2
          <5>3. ~(j < i) => ~(j + 1 < i)
            BY <1>1
          <5>4. j # z - 1 => q[j + 1] = IF j + 1 < i THEN p[j + 1] ELSE p[j + 1 + 1]
            BY <1>4, <5>1
          <5>5. QED BY <2>2, <5>1, <5>2, <5>3, <5>4
        <4>4. QED BY <4>1, <4>2, <4>3
      <3>3. QED BY <3>1, <3>2
    <2>8. g[m].prev = (IF j = 1 THEN NULL ELSE q[j - 1])
      <3>1. CASE i # z /\ a = i + 1
        <4>1. j = i /\ j < i + 1
          BY <1>1, <2>2, <3>1
        <4>2. i # 1 => i - 1 \in 1 .. z - 1 /\ q[i - 1] = p[i - 1]
          <5>1. i # 1 => i - 1 \in 1 .. z - 1 /\ i - 1 < i
            BY <1>1
          <5>2. QED BY <1>4, <5>1
        <4>3. QED BY <1>9, <2>3, <2>6, <3>1, <4>1, <4>2
      <3>2. CASE ~(i # z /\ a = i + 1)
        <4>1. g[m].prev = IF a = 1 THEN NULL ELSE p[a - 1]
          BY <2>3, <2>4, <2>6, <3>2
        <4>2. a = 1 <=> j = 1
          BY <1>1, <2>1, <2>2, <3>2
        <4>3. j # 1 => q[j - 1] = p[a - 1]
          <5>1. j # 1 => j - 1 \in 1 .. z - 1
            BY <1>1
          <5>2. j < i => j - 1 < i
            BY <1>1
          <5>3. ~(j < i) => ~(j - 1 < i)
            BY <1>1, <2>1, <2>2, <3>2
          <5>4. j # 1 => q[j - 1] = IF j - 1 < i THEN p[j - 1] ELSE p[j - 1 + 1]
            BY <1>4, <5>1
          <5>5. j - 1 + 1 = j /\ j + 1 - 1 = j
            BY <1>1
          <5>6. QED BY <2>2, <5>2, <5>3, <5>4, <5>5
        <4>4. QED BY <4>1, <4>2, <4>3
      <3>3. QED BY <3>1, <3>2
    <2>9. QED BY <2>3, <2>7, <2>8 DEF m
  <1>14. IsChain(g, d, q)
    BY <1>4, <1>10, <1>11, <1>12, <1>13 DEF IsChain
  <1>15. d \in list_s
    <2>1. h[n] \in list_node_s
      BY <1>1, FieldTypes
    <2>2. c.head \in Pointer /\ c.tail \in Pointer
      BY DEF list_s
    <2>3. QED BY <1>5, <1>8, <1>12, <2>1, <2>2 DEF list_s, list_node_s
  <1>16. ElementsAt(g, q) = RemoveAt(ElementsAt(h, p), i)
    <2> DEFINE a == ElementsAt(g, q)
               b == ElementsAt(h, p)
    <2>1. a \in Seq(Value) /\ Len(a) = z - 1 /\ \A k \in 1 .. z - 1 : a[k] = g[q[k]].element
      BY <1>2, <1>4, <1>14, ElementsProperties
    <2>2. b \in Seq(Value) /\ Len(b) = z /\ DOMAIN b = 1 .. z /\ \A k \in 1 .. z : b[k] = h[p[k]].element
      BY ElementsProperties DEF z
    <2> HIDE DEF a, b
    <2>i. i \in DOMAIN b
      BY <1>1, <2>2
    <2>3. /\ RemoveAt(b, i) \in Seq(Value) /\ Len(RemoveAt(b, i)) = z - 1
          /\ \A k \in 1 .. z - 1 : RemoveAt(b, i)[k] = IF k < i THEN b[k] ELSE b[k + 1]
      <3>1. /\ RemoveAt(b, i) \in Seq(Value) /\ Len(RemoveAt(b, i)) = Len(b) - 1
            /\ \A k \in 1 .. Len(b) - 1 : RemoveAt(b, i)[k] = IF k < i THEN b[k] ELSE b[k + 1]
        BY <2>2, <2>i, RemoveAtProperties
      <3>2. QED BY <2>2, <3>1
    <2>4. ASSUME NEW k \in 1 .. z - 1 PROVE a[k] = RemoveAt(b, i)[k]
      <3>1. a[k] = h[p[at(k)]].element
        BY <1>6, <1>13, <2>1
      <3>2. RemoveAt(b, i)[k] = b[at(k)]
        BY <2>3 DEF at
      <3>3. b[at(k)] = h[p[at(k)]].element
        BY <1>6, <2>2
      <3>4. QED BY <3>1, <3>2, <3>3
    <2>5. a = RemoveAt(b, i)
      BY <2>1, <2>3, <2>4, SeqEqual
    <2>6. QED BY <2>5 DEF a, b
  <1>17. ASSUME NEW m \in DOMAIN h \ Range(p) PROVE m # n /\ g[m] = h[m]
    <2>1. m # NULL /\ \A k \in 1 .. z : m # p[k]
      BY <1>1, FieldTypes DEF Range
    <2>2. m # n /\ m # h[n].prev /\ m # h[n].next
      BY <1>1, <1>9, <2>1
    <2>3. QED BY <1>2, <2>2
  <1>18. IsTakenOut(h, p, i, n, g, d)
    BY <1>2, <1>14, <1>15, <1>16, <1>17 DEF q, IsTakenOut
  <1>19. QED BY <1>18 DEF g, d

\* list_remove_all: the list has no nodes, and what is left of the heap is as it was.
LEMMA ChainRemoveAll ==
    ASSUME NEW h, HeapOK(h), NEW p, NEW g, g = Restrict(h, DOMAIN h \ Range(p))
    PROVE  /\ HeapOK(g) /\ DOMAIN g = DOMAIN h \ Range(p)
           /\ \A m \in DOMAIN h \ Range(p) : g[m] = h[m]
           /\ list_create \in list_s /\ IsChain(g, list_create, <<>>)
           /\ ElementsAt(g, <<>>) = <<>>
  <1>1. DOMAIN g = DOMAIN h \ Range(p) /\ \A m \in DOMAIN g : g[m] = h[m]
    BY DEF Restrict
  <1>2. HeapOK(g)
    BY <1>1 DEF HeapOK, Range
  <1>3. <<>> \in Seq(DOMAIN g) /\ Len(<<>>) = 0 /\ DOMAIN <<>> = 1 .. 0
    BY EmptySeq
  <1>4. list_create \in list_s
    BY DEF list_create, list_s, Pointer
  <1>5. IsChain(g, list_create, <<>>)
    BY <1>3 DEF IsChain, list_create
  <1>6. ElementsAt(g, <<>>) = <<>>
    BY <1>2, <1>5, ElementsProperties, EmptySeq
  <1>7. QED BY <1>1, <1>2, <1>4, <1>5, <1>6

\* The nodes of a list that has got one more.
LEMMA RangeOfAppend ==
    ASSUME NEW S, NEW p \in Seq(S), NEW n \in S
    PROVE  Range(Append(p, n)) = Range(p) \cup {n}
  <1> DEFINE q == Append(p, n)
             z == Len(p)
  <1>1. /\ z \in Nat /\ DOMAIN p = 1 .. z /\ DOMAIN q = 1 .. z + 1
        /\ \A k \in 1 .. z : q[k] = p[k]
        /\ q[z + 1] = n
    BY PushProperties
  <1> HIDE DEF q, z
  <1>2. DOMAIN q = DOMAIN p \cup {z + 1}
    BY <1>1
  <1>3. Range(q) = Range(p) \cup {n}
    BY <1>1, <1>2 DEF Range
  <1>4. QED BY <1>3 DEF q

\* The nodes of a list that has lost one.
LEMMA RangeOfRemoveAt ==
    ASSUME NEW S, NEW p \in Seq(S), NEW i \in DOMAIN p,
           \A j, k \in DOMAIN p : p[j] = p[k] => j = k
    PROVE  Range(RemoveAt(p, i)) = Range(p) \ {p[i]}
  <1> DEFINE q == RemoveAt(p, i)
  <1>1. IsRemoval(q, p, i)
    BY RemovedPositions
  <1> HIDE DEF q
  <1>2. PICK from \in [DOMAIN q -> DOMAIN p \ {i}] :
            /\ \A j \in DOMAIN q : q[j] = p[from[j]]
            /\ \A k \in DOMAIN p \ {i} : \E j \in DOMAIN q : from[j] = k
    BY <1>1 DEF IsRemoval
  <1>3. ASSUME NEW j \in DOMAIN q PROVE q[j] \in Range(p) \ {p[i]}
    BY <1>2 DEF Range
  <1>4. ASSUME NEW k \in DOMAIN p, p[k] # p[i] PROVE \E j \in DOMAIN q : q[j] = p[k]
    BY <1>2, <1>4
  <1>5. Range(q) = Range(p) \ {p[i]}
    BY <1>3, <1>4 DEF Range
  <1>6. QED BY <1>5 DEF q

-----------------------------------------------------------------------------
(* Both lists *)

\* Each list is a chain of nodes, and each node is on one list.
ListsOK ==
    /\ HeapOK(heap) /\ list \in [List -> list_s]
    /\ \A l \in List : IsChain(heap, list[l], NodesOf(l))
    /\ \A m \in DOMAIN heap : \E l \in List : m \in Range(NodesOf(l))
    /\ \A l, k \in List : l # k => Range(NodesOf(l)) \cap Range(NodesOf(k)) = {}

\* What a step makes of a list.
Keeps(l) ==
    /\ list[l]' = list[l]
    /\ NodesOf(l)' = NodesOf(l) /\ ElementsOf(l)' = ElementsOf(l)

Adds(l, value, n) ==
    /\ NodesOf(l)' = Append(NodesOf(l), n)
    /\ ElementsOf(l)' = Append(ElementsOf(l), value)

Removes(l, i) ==
    /\ NodesOf(l)' = RemoveAt(NodesOf(l), i)
    /\ ElementsOf(l)' = RemoveAt(ElementsOf(l), i)

Clears(l) == NodesOf(l)' = <<>> /\ ElementsOf(l)' = <<>>

\* The elements of a list, from its nodes.
LEMMA ListElements ==
    ASSUME ListsOK, NEW l \in List
    PROVE  /\ list[l].size = Len(NodesOf(l)) /\ Len(NodesOf(l)) \in Nat
           /\ DOMAIN NodesOf(l) = 1 .. Len(NodesOf(l))
           /\ \A k \in 1 .. Len(NodesOf(l)) :
                 /\ NodesOf(l)[k] \in DOMAIN heap /\ NodesOf(l)[k] \in Node
                 /\ NodesOf(l)[k] # NULL
           /\ \A j, k \in 1 .. Len(NodesOf(l)) : NodesOf(l)[j] = NodesOf(l)[k] => j = k
           /\ ElementsOf(l) = ElementsAt(heap, NodesOf(l))
           /\ ElementsOf(l) \in Seq(Value) /\ Len(ElementsOf(l)) = Len(NodesOf(l))
           /\ DOMAIN ElementsOf(l) = 1 .. Len(NodesOf(l))
           /\ \A k \in 1 .. Len(NodesOf(l)) : ElementsOf(l)[k] = heap[NodesOf(l)[k]].element
  <1> DEFINE p == NodesOf(l)
  <1>1. HeapOK(heap) /\ IsChain(heap, list[l], p)
    BY DEF ListsOK
  <1>2. ElementsOf(l) = ElementsAt(heap, p)
    BY DEF ElementsOf, ElementsAt
  <1> HIDE DEF p
  <1>3. /\ Len(p) \in Nat /\ DOMAIN p = 1 .. Len(p)
        /\ \A k \in 1 .. Len(p) : p[k] \in DOMAIN heap /\ p[k] \in Node /\ p[k] # NULL
    BY <1>1, ChainProperties
  <1>4. list[l].size = Len(p) /\ \A j, k \in 1 .. Len(p) : p[j] = p[k] => j = k
    BY <1>1 DEF IsChain
  <1>5. /\ ElementsAt(heap, p) \in Seq(Value) /\ Len(ElementsAt(heap, p)) = Len(p)
        /\ DOMAIN ElementsAt(heap, p) = 1 .. Len(p)
        /\ \A k \in 1 .. Len(p) : ElementsAt(heap, p)[k] = heap[p[k]].element
    BY <1>1, ElementsProperties
  <1>6. QED BY <1>2, <1>3, <1>4, <1>5 DEF p

\* A step that gives one list the nodes of q, which the other has not.
LEMMA OneListChanges ==
    ASSUME ListsOK, NEW l \in List, NEW q,
           HeapOK(heap'), list' \in [List -> list_s], IsChain(heap', list'[l], q),
           \A k \in List \ {l} : list'[k] = list[k],
           \A m \in DOMAIN heap \ Range(NodesOf(l)) : m \notin Range(q) /\ heap'[m] = heap[m],
           DOMAIN heap' = (DOMAIN heap \ Range(NodesOf(l))) \cup Range(q)
    PROVE  /\ ListsOK' /\ \A k \in List \ {l} : Keeps(k)
           /\ NodesOf(l)' = q /\ ElementsOf(l)' = ElementsAt(heap', q)
  <1>1. NodesOf(l)' = q /\ ElementsOf(l)' = ElementsAt(heap', q)
    <2>1. Walk(heap', list'[l].head) = q
      BY WalkOfChain
    <2>2. NodesOf(l)' = q
      BY <2>1 DEF NodesOf
    <2>3. QED BY <2>2 DEF ElementsOf, ElementsAt
  <1>2. ASSUME NEW k \in List \ {l}
        PROVE  /\ IsChain(heap', list'[k], NodesOf(k)) /\ Keeps(k)
               /\ Range(NodesOf(k)) \subseteq DOMAIN heap \ Range(NodesOf(l))
    <2> DEFINE p == NodesOf(k)
    <2>1. HeapOK(heap) /\ IsChain(heap, list[k], p) /\ list'[k] = list[k]
      BY DEF ListsOK
    <2>2. Range(p) \subseteq DOMAIN heap \ Range(NodesOf(l))
      <3>1. Range(p) \cap Range(NodesOf(l)) = {}
        BY DEF ListsOK
      <3>2. Range(p) \subseteq DOMAIN heap
        BY ListElements DEF Range
      <3>3. QED BY <3>1, <3>2
    <2>e. ElementsOf(k) = ElementsAt(heap, p)
      BY DEF ElementsOf, ElementsAt
    <2>3. \A m \in Range(p) : m \in DOMAIN heap' /\ heap'[m] = heap[m]
      BY <2>2
    <2>4. IsChain(heap', list[k], p) /\ ElementsAt(heap', p) = ElementsAt(heap, p)
      <3> HIDE DEF p
      <3>1. QED BY <2>1, <2>3, ChainKept
    <2>5. Walk(heap', list'[k].head) = p
      <3> HIDE DEF p
      <3>1. QED BY <2>1, <2>4, WalkOfChain
    <2>6. NodesOf(k)' = p
      BY <2>5 DEF NodesOf
    <2>7. ElementsOf(k)' = ElementsAt(heap', p)
      BY <2>6 DEF ElementsOf, ElementsAt
    <2>8. Keeps(k)
      BY <2>1, <2>4, <2>6, <2>7, <2>e DEF Keeps
    <2>9. QED BY <2>1, <2>2, <2>4, <2>8
  <1>3. ASSUME NEW k \in List PROVE IsChain(heap', list'[k], NodesOf(k)')
    <2>1. CASE k = l
      BY <1>1, <2>1
    <2>2. CASE k # l
      BY <1>2, <2>2 DEF Keeps
    <2>3. QED BY <2>1, <2>2
  <1>4. ASSUME NEW m \in DOMAIN heap' PROVE \E k \in List : m \in Range(NodesOf(k)')
    <2>1. CASE m \in Range(q)
      BY <1>1, <2>1
    <2>2. CASE m \in DOMAIN heap \ Range(NodesOf(l))
      <3>1. PICK k \in List : m \in Range(NodesOf(k))
        BY <2>2 DEF ListsOK
      <3>2. k # l
        BY <2>2, <3>1
      <3>3. QED BY <1>2, <3>1, <3>2 DEF Keeps
    <2>3. QED BY <2>1, <2>2
  <1>5. ASSUME NEW j \in List, NEW k \in List, j # k
        PROVE  Range(NodesOf(j)') \cap Range(NodesOf(k)') = {}
    <2>1. CASE j = l
      BY <1>1, <1>2, <1>5, <2>1 DEF Keeps
    <2>2. CASE k = l
      BY <1>1, <1>2, <1>5, <2>2 DEF Keeps
    <2>3. CASE j # l /\ k # l
      <3>1. Range(NodesOf(j)) \cap Range(NodesOf(k)) = {}
        BY <1>5 DEF ListsOK
      <3>2. QED BY <1>2, <2>3, <3>1 DEF Keeps
    <2>4. QED BY <2>1, <2>2, <2>3
  <1>6. ListsOK'
    BY <1>3, <1>4, <1>5 DEF ListsOK
  <1>7. QED BY <1>1, <1>2, <1>6

\* list_add puts a node that no list had at the end of its list.
LEMMA AddStep ==
    ASSUME ListsOK, NEW l \in List, NEW value \in Value, NEW n \in Node,
           list_add_to(l, value, n)
    PROVE  ListsOK' /\ Adds(l, value, n) /\ \A k \in List \ {l} : Keeps(k)
  <1> DEFINE p == NodesOf(l)
             c == list[l]
             q == Append(p, n)
  <1>1. /\ HeapOK(heap) /\ c \in list_s /\ IsChain(heap, c, p) /\ n \notin DOMAIN heap
        /\ list \in [List -> list_s] /\ ElementsOf(l) = ElementsAt(heap, p)
    BY ListElements DEF ListsOK, list_add_to
  <1>2. heap' = AddedHeap(heap, c, value, n)
    BY DEF list_add_to, AddedHeap
  <1>3. list' = [list EXCEPT ![l] = AddedList(c, n)]
    BY DEF list_add_to, AddedList
  <1> HIDE DEF p, c
  <1>4. /\ HeapOK(heap') /\ DOMAIN heap' = DOMAIN heap \cup {n}
        /\ AddedList(c, n) \in list_s /\ IsChain(heap', AddedList(c, n), q)
        /\ ElementsAt(heap', q) = Append(ElementsAt(heap, p), value)
        /\ \A m \in DOMAIN heap \ Range(p) : heap'[m] = heap[m]
    <2>1. IsAddition(heap, p, value, n, AddedHeap(heap, c, value, n), AddedList(c, n))
      BY <1>1, ChainAdd
    <2>2. QED BY <1>2, <2>1 DEF IsAddition
  <1>5. list' \in [List -> list_s] /\ list'[l] = AddedList(c, n) /\ \A k \in List \ {l} : list'[k] = list[k]
    BY <1>1, <1>3, <1>4
  <1>7. Range(q) = Range(p) \cup {n} /\ Range(p) \subseteq DOMAIN heap
    <2>1. p \in Seq(DOMAIN heap \cup {n})
      <3>1. Len(p) \in Nat /\ p \in [1 .. Len(p) -> DOMAIN heap]
        BY <1>1, ChainProperties
      <3>2. p \in [1 .. Len(p) -> DOMAIN heap \cup {n}]
        BY <3>1
      <3>3. QED BY <3>1, <3>2, FunctionIsSeq
    <2>2. n \in DOMAIN heap \cup {n}
      OBVIOUS
    <2>3. Range(q) = Range(p) \cup {n}
      BY <2>1, <2>2, RangeOfAppend
    <2>4. QED BY <1>1, <2>3, ChainProperties DEF Range
  <1> HIDE DEF q
  <1>8. DOMAIN heap' = (DOMAIN heap \ Range(p)) \cup Range(q)
    BY <1>4, <1>7
  <1>9. \A m \in DOMAIN heap \ Range(p) : m \notin Range(q) /\ heap'[m] = heap[m]
    BY <1>1, <1>4, <1>7
  <1>10. IsChain(heap', list'[l], q)
    BY <1>4, <1>5
  <1>11. /\ ListsOK' /\ \A k \in List \ {l} : Keeps(k)
         /\ NodesOf(l)' = q /\ ElementsOf(l)' = ElementsAt(heap', q)
    BY <1>4, <1>5, <1>8, <1>9, <1>10, OneListChanges DEF p
  <1>12. Adds(l, value, n)
    BY <1>1, <1>4, <1>11 DEF Adds, p, q
  <1>13. QED BY <1>11, <1>12

\* list_remove takes its node out of its list.
LEMMA RemoveStep ==
    ASSUME ListsOK, NEW l \in List, NEW i \in DOMAIN NodesOf(l),
           list_remove_from(l, NodesOf(l)[i])
    PROVE  ListsOK' /\ Removes(l, i) /\ \A k \in List \ {l} : Keeps(k)
  <1> DEFINE p == NodesOf(l)
             c == list[l]
             n == p[i]
             q == RemoveAt(p, i)
             d == RemovedList(heap, c, n)
  <1>1. /\ HeapOK(heap) /\ c \in list_s /\ IsChain(heap, c, p)
        /\ list \in [List -> list_s] /\ ElementsOf(l) = ElementsAt(heap, p)
        /\ i \in DOMAIN p
    BY ListElements DEF ListsOK
  <1>2. heap' = RemovedHeap(heap, c, n)
    BY DEF list_remove_from, RemovedHeap
  <1>3. list' = [list EXCEPT ![l] = d]
    BY DEF list_remove_from, RemovedList
  <1> HIDE DEF p, c
  <1>4. /\ HeapOK(heap') /\ DOMAIN heap' = DOMAIN heap \ {n}
        /\ d \in list_s /\ IsChain(heap', d, q)
        /\ ElementsAt(heap', q) = RemoveAt(ElementsAt(heap, p), i)
        /\ \A m \in DOMAIN heap \ Range(p) : m # n /\ heap'[m] = heap[m]
    <2> HIDE DEF n
    <2>1. n = p[i]
      BY DEF n
    <2>2. IsTakenOut(heap, p, i, n, RemovedHeap(heap, c, n), RemovedList(heap, c, n))
      BY <1>1, <2>1, ChainRemove
    <2>3. QED BY <1>2, <2>2 DEF IsTakenOut
  <1> HIDE DEF d
  <1>5. list' \in [List -> list_s] /\ list'[l] = d /\ \A k \in List \ {l} : list'[k] = list[k]
    BY <1>1, <1>3, <1>4
  <1>6. n \in DOMAIN heap /\ p \in Seq(DOMAIN heap) /\ \A j, k \in DOMAIN p : p[j] = p[k] => j = k
    <2>1. DOMAIN p = 1 .. Len(p) /\ \A k \in 1 .. Len(p) : p[k] \in DOMAIN heap
      BY <1>1, ChainProperties
    <2>2. QED BY <1>1, <2>1 DEF IsChain
  <1>7. Range(q) = Range(p) \ {n} /\ Range(p) \subseteq DOMAIN heap /\ n \in Range(p)
    <2>1. Range(q) = Range(p) \ {n}
      BY <1>1, <1>6, RangeOfRemoveAt
    <2>2. DOMAIN p = 1 .. Len(p) /\ \A k \in 1 .. Len(p) : p[k] \in DOMAIN heap
      BY <1>1, ChainProperties
    <2> HIDE DEF q
    <2>3. QED BY <1>1, <2>1, <2>2 DEF Range
  <1> HIDE DEF q, n
  <1>9. DOMAIN heap' = (DOMAIN heap \ Range(p)) \cup Range(q)
    BY <1>4, <1>6, <1>7
  <1>10. \A m \in DOMAIN heap \ Range(p) : m \notin Range(q) /\ heap'[m] = heap[m]
    BY <1>4, <1>7
  <1>11. IsChain(heap', list'[l], q)
    BY <1>4, <1>5
  <1>12. /\ ListsOK' /\ \A k \in List \ {l} : Keeps(k)
         /\ NodesOf(l)' = q /\ ElementsOf(l)' = ElementsAt(heap', q)
    BY <1>4, <1>5, <1>9, <1>10, <1>11, OneListChanges DEF p
  <1>13. Removes(l, i)
    BY <1>1, <1>4, <1>12 DEF Removes, p, q
  <1>14. QED BY <1>12, <1>13

\* list_remove_all leaves nothing of its list.
LEMMA RemoveAllStep ==
    ASSUME ListsOK, NEW l \in List, list_remove_all_of(l)
    PROVE  ListsOK' /\ Clears(l) /\ \A k \in List \ {l} : Keeps(k)
  <1> DEFINE p == NodesOf(l)
  <1>1. HeapOK(heap) /\ list \in [List -> list_s]
    BY DEF ListsOK
  <1>2. heap' = Restrict(heap, DOMAIN heap \ Range(p)) /\ list' = [list EXCEPT ![l] = list_create]
    BY DEF list_remove_all_of
  <1> HIDE DEF p
  <1>3. /\ HeapOK(heap') /\ DOMAIN heap' = DOMAIN heap \ Range(p)
        /\ \A m \in DOMAIN heap \ Range(p) : heap'[m] = heap[m]
        /\ list_create \in list_s /\ IsChain(heap', list_create, <<>>)
        /\ ElementsAt(heap', <<>>) = <<>>
    BY <1>1, <1>2, ChainRemoveAll
  <1>4. /\ list' \in [List -> list_s] /\ list'[l] = list_create
        /\ \A k \in List \ {l} : list'[k] = list[k]
    BY <1>1, <1>2, <1>3
  <1>5. Range(<<>>) = {}
    BY DEF Range
  <1>6. DOMAIN heap' = (DOMAIN heap \ Range(p)) \cup Range(<<>>)
    BY <1>3, <1>5
  <1>7. \A m \in DOMAIN heap \ Range(p) : m \notin Range(<<>>) /\ heap'[m] = heap[m]
    BY <1>3, <1>5
  <1>8. IsChain(heap', list'[l], <<>>)
    BY <1>3, <1>4
  <1>9. /\ ListsOK' /\ \A k \in List \ {l} : Keeps(k)
        /\ NodesOf(l)' = <<>> /\ ElementsOf(l)' = ElementsAt(heap', <<>>)
    BY <1>3, <1>4, <1>6, <1>7, <1>8, OneListChanges DEF p
  <1>10. QED BY <1>3, <1>9 DEF Clears

\* Where no list is touched, none changes.
LEMMA NoListChanges ==
    ASSUME ListsOK, UNCHANGED nodes
    PROVE  ListsOK' /\ \A k \in List : Keeps(k)
  <1>1. heap' = heap /\ list' = list
    BY DEF nodes
  <1>2. \A k \in List : NodesOf(k)' = NodesOf(k) /\ ElementsOf(k)' = ElementsOf(k)
    BY <1>1 DEF NodesOf, ElementsOf
  <1>3. ListsOK'
    BY <1>1, <1>2 DEF ListsOK
  <1>4. QED BY <1>1, <1>2, <1>3 DEF Keeps

-----------------------------------------------------------------------------
(* The invariant of both lists and of sort_players *)

\* The pointer that sort_players holds leads to a node of the list it is in.
NodeOK ==
    /\ phase \in {"IDLE", "TAKE", "DROP", "GIVE_BACK"} /\ node \in Pointer
    /\ before \in Seq(Value) /\ failed \in BOOLEAN
    /\ phase \in {"IDLE", "TAKE"} => node = NULL
    /\ phase = "DROP" => node \in Range(NodesOf("players"))
    /\ phase = "GIVE_BACK" => node \in Range(NodesOf("sorted")) \cup {NULL}

ListInv == ListsOK /\ NodeOK

\* The invariant is stronger than the properties.
LEMMA ListInvImplies == ListInv => ListTypeOK /\ NodesAreLinked /\ NoNodeIsLost
  <1> SUFFICES ASSUME ListInv PROVE ListTypeOK /\ NodesAreLinked /\ NoNodeIsLost
    OBVIOUS
  <1>1. ListsOK /\ NodeOK
    BY DEF ListInv
  <1>2. ListTypeOK
    BY <1>1 DEF ListTypeOK, ListsOK, NodeOK, HeapOK, list_s
  <1>3. ASSUME NEW l \in List
        PROVE  LET path == NodesOf(l)
               IN  /\ list[l].size = Len(path)
                   /\ list[l].head = (IF path = <<>> THEN NULL ELSE path[1])
                   /\ list[l].tail = (IF path = <<>> THEN NULL ELSE Last(path))
                   /\ \A k \in DOMAIN path :
                          heap[path[k]].prev = (IF k = 1 THEN NULL ELSE path[k - 1])
    <2> DEFINE p == NodesOf(l)
    <2>1. IsChain(heap, list[l], p) /\ DOMAIN p = 1 .. Len(p)
      BY <1>1, ListElements DEF ListsOK
    <2> HIDE DEF p
    <2>2. p = <<>> <=> Len(p) = 0
      BY <2>1, EmptySeq DEF IsChain
    <2>3. /\ list[l].size = Len(p)
          /\ list[l].head = (IF p = <<>> THEN NULL ELSE p[1])
          /\ list[l].tail = (IF p = <<>> THEN NULL ELSE Last(p))
          /\ \A k \in DOMAIN p : heap[p[k]].prev = (IF k = 1 THEN NULL ELSE p[k - 1])
      BY <2>1, <2>2 DEF IsChain, Last
    <2>4. QED BY <2>3 DEF p
  <1>4. NodesAreLinked
    BY <1>3 DEF NodesAreLinked
  <1>5. "players" \in List /\ "sorted" \in List /\ \A l \in List : l = "players" \/ l = "sorted"
    BY DEF List
  <1>6. \A l \in List : Range(NodesOf(l)) \subseteq DOMAIN heap
    BY <1>1, ListElements DEF Range
  <1>7. DOMAIN heap = Range(NodesOf("players")) \cup Range(NodesOf("sorted"))
    BY <1>1, <1>5, <1>6 DEF ListsOK
  <1>8. Range(NodesOf("players")) \cap Range(NodesOf("sorted")) = {}
    BY <1>1, <1>5 DEF ListsOK
  <1>9. node \in DOMAIN heap \cup {NULL}
    <2>1. phase \in {"IDLE", "TAKE", "DROP", "GIVE_BACK"}
      BY <1>1 DEF NodeOK
    <2>2. QED BY <1>1, <1>5, <1>6, <2>1 DEF NodeOK
  <1>10. QED BY <1>2, <1>4, <1>7, <1>8, <1>9 DEF NoNodeIsLost

\* Both lists are empty at first.
LEMMA ListInit == Init => ListInv
  <1> SUFFICES ASSUME Init PROVE ListInv
    OBVIOUS
  <1>1. heap = << >> /\ \A l \in List : list[l] = list_create
    BY DEF Init
  <1>2. DOMAIN heap = {} /\ HeapOK(heap)
    BY <1>1 DEF HeapOK, Range
  <1>3. <<>> \in Seq(DOMAIN heap) /\ Len(<<>>) = 0 /\ DOMAIN <<>> = 1 .. 0
    BY EmptySeq
  <1>4. IsChain(heap, list_create, <<>>)
    BY <1>3 DEF IsChain, list_create
  <1>5. \A l \in List : NodesOf(l) = <<>> /\ IsChain(heap, list[l], NodesOf(l))
    <2>1. Walk(heap, list_create.head) = <<>>
      BY <1>2, <1>4, WalkOfChain
    <2>2. QED BY <1>1, <1>4, <2>1 DEF NodesOf
  <1>6. list \in [List -> list_s]
    BY DEF Init, list_create, list_s, Pointer
  <1>7. Range(<<>>) = {}
    BY DEF Range
  <1>8. ListsOK
    BY <1>2, <1>5, <1>6, <1>7 DEF ListsOK
  <1>9. <<>> \in Seq(Value)
    BY EmptySeq
  <1>10. NodeOK
    BY <1>9 DEF NodeOK, Init, Pointer
  <1>11. QED BY <1>8, <1>10 DEF ListInv

\* A copy is at the end of its list, or the list is as it was and the failure is known.
LEMMA AddCopyStep ==
    ASSUME ListsOK, NEW l \in List, NEW value \in Value, AddCopy(l, value)
    PROVE  /\ ListsOK' /\ \A k \in List \ {l} : Keeps(k)
           /\ \/ failed' = failed /\ \E n \in Node : Adds(l, value, n)
              \/ failed' = TRUE /\ Keeps(l)
  <1>1. CASE failed' = TRUE /\ UNCHANGED nodes
    BY <1>1, NoListChanges
  <1>2. CASE \E n \in Node : list_add_to(l, value, n) /\ UNCHANGED failed
    <2>1. PICK n \in Node : list_add_to(l, value, n)
      BY <1>2
    <2>2. ListsOK' /\ Adds(l, value, n) /\ \A k \in List \ {l} : Keeps(k)
      BY <2>1, AddStep
    <2>3. QED BY <1>2, <2>2
  <1>3. QED BY <1>1, <1>2 DEF AddCopy

\* The first of the least players is on the list of players.
LEMMA TakenNode ==
    ASSUME ListsOK, Take
    PROVE  /\ \E k \in DOMAIN NodesOf("players") :
                 IsFirstLeast(NodesOf("players"), k) /\ node' = NodesOf("players")[k]
           /\ node' \in Range(NodesOf("players")) /\ node' \in Node
           /\ heap[node'].element \in Value
  <1>1. PICK k \in DOMAIN NodesOf("players") :
           IsFirstLeast(NodesOf("players"), k) /\ node' = NodesOf("players")[k]
    BY DEF Take
  <1>2. "players" \in List /\ HeapOK(heap)
    BY DEF List, ListsOK
  <1>3. node' \in DOMAIN heap /\ node' \in Node
    BY <1>1, <1>2, ListElements
  <1>4. heap[node'].element \in Value
    BY <1>2, <1>3, FieldTypes DEF list_node_s
  <1>5. QED BY <1>1, <1>3, <1>4 DEF Range

\* The node of the second loop is on the list sorted, as is the next one.
LEMMA GivenNode ==
    ASSUME ListsOK, NodeOK, GiveBack
    PROVE  /\ \E i \in 1 .. Len(NodesOf("sorted")) :
                 /\ node = NodesOf("sorted")[i]
                 /\ node' = IF i = Len(NodesOf("sorted")) THEN NULL ELSE NodesOf("sorted")[i + 1]
           /\ node' \in Range(NodesOf("sorted")) \cup {NULL} /\ node' \in Pointer
           /\ heap[node].element \in Value
  <1> DEFINE p == NodesOf("sorted")
  <1>1. "sorted" \in List /\ HeapOK(heap)
    BY DEF List, ListsOK
  <1>2. /\ Len(p) \in Nat /\ DOMAIN p = 1 .. Len(p) /\ IsChain(heap, list["sorted"], p)
        /\ \A k \in 1 .. Len(p) : p[k] \in DOMAIN heap /\ p[k] \in Node
    BY <1>1, ListElements DEF ListsOK
  <1>3. node \in Range(p)
    BY DEF NodeOK, GiveBack
  <1> HIDE DEF p
  <1>4. PICK i \in 1 .. Len(p) : node = p[i]
    BY <1>2, <1>3 DEF Range
  <1>5. node' = IF i = Len(p) THEN NULL ELSE p[i + 1]
    BY <1>2, <1>4 DEF GiveBack, IsChain
  <1>6. i # Len(p) => i + 1 \in 1 .. Len(p)
    BY <1>2
  <1>7. node' \in Range(p) \cup {NULL} /\ node' \in Pointer
    BY <1>2, <1>5, <1>6 DEF Range, Pointer
  <1>8. heap[node].element \in Value
    BY <1>1, <1>2, <1>4, FieldTypes DEF list_node_s
  <1>9. QED BY <1>4, <1>5, <1>7, <1>8 DEF p

\* Each step keeps the invariant.
LEMMA ListStep == ListInv /\ [Next]_vars => ListInv'
  <1> SUFFICES ASSUME ListInv, [Next]_vars PROVE ListInv'
    OBVIOUS
  <1>1. ListsOK /\ NodeOK
    BY DEF ListInv
  <1>2. "players" \in List /\ "sorted" \in List /\ "players" # "sorted"
    BY DEF List
  <1>3. CASE UseList
    <2>1. ListsOK'
      <3>1. CASE \E value \in Value, n \in Node : list_add_to("players", value, n)
        BY <1>1, <1>2, <3>1, AddStep
      <3>2. CASE \E n \in Range(NodesOf("players")) : list_remove_from("players", n)
        <4>1. PICK i \in DOMAIN NodesOf("players") : list_remove_from("players", NodesOf("players")[i])
          BY <3>2 DEF Range
        <4>2. QED BY <1>1, <1>2, <4>1, RemoveStep
      <3>3. CASE list_remove_all_of("players")
        BY <1>1, <1>2, <3>3, RemoveAllStep
      <3>4. QED BY <1>3, <3>1, <3>2, <3>3 DEF UseList
    <2>2. NodeOK'
      BY <1>1, <1>3 DEF UseList, sort, NodeOK
    <2>3. QED BY <2>1, <2>2 DEF ListInv
  <1>4. CASE Start
    <2>1. ListsOK' /\ ElementsOf("players") \in Seq(Value)
      BY <1>1, <1>2, <1>4, NoListChanges, ListElements DEF Start
    <2>2. NodeOK'
      BY <1>1, <1>4, <2>1 DEF Start, NodeOK
    <2>3. QED BY <2>1, <2>2 DEF ListInv
  <1>5. CASE Take
    <2>1. node' \in Range(NodesOf("players")) /\ node' \in Node /\ heap[node'].element \in Value
      BY <1>1, <1>5, TakenNode
    <2>2. /\ ListsOK' /\ Keeps("players")
          /\ failed' = failed \/ failed' = TRUE
      BY <1>1, <1>2, <1>5, <2>1, AddCopyStep DEF Take
    <2>3. node' \in Range(NodesOf("players")')
      BY <2>1, <2>2 DEF Keeps
    <2>4. NodeOK'
      BY <1>1, <1>5, <2>1, <2>2, <2>3 DEF Take, NodeOK, Pointer
    <2>5. QED BY <2>2, <2>4 DEF ListInv
  <1>6. CASE Drop
    <2>1. PICK i \in DOMAIN NodesOf("players") : node = NodesOf("players")[i]
      BY <1>1, <1>6 DEF Drop, NodeOK, Range
    <2>2. ListsOK'
      BY <1>1, <1>2, <1>6, <2>1, RemoveStep DEF Drop
    <2>3. NodeOK'
      BY <1>1, <1>6 DEF Drop, NodeOK, Pointer
    <2>4. QED BY <2>2, <2>3 DEF ListInv
  <1>7. CASE AllTaken
    <2>1. ListsOK' /\ Keeps("sorted")
      BY <1>1, <1>2, <1>7, NoListChanges DEF AllTaken
    <2>2. node' \in Range(NodesOf("sorted")) \cup {NULL} /\ node' \in Pointer
      <3> DEFINE p == NodesOf("sorted")
      <3>1. /\ Len(p) \in Nat /\ DOMAIN p = 1 .. Len(p) /\ \A k \in 1 .. Len(p) : p[k] \in Node
            /\ node' = IF Len(p) = 0 THEN NULL ELSE p[1]
        BY <1>1, <1>2, <1>7, ListElements DEF AllTaken, ListsOK, IsChain
      <3> HIDE DEF p
      <3>2. Len(p) # 0 => 1 \in 1 .. Len(p)
        BY <3>1
      <3>3. node' \in Range(p) \cup {NULL} /\ node' \in Pointer
        BY <3>1, <3>2 DEF Range, Pointer
      <3>4. QED BY <3>3 DEF p
    <2>3. NodeOK'
      BY <1>1, <1>7, <2>1, <2>2 DEF AllTaken, NodeOK, Keeps
    <2>4. QED BY <2>1, <2>3 DEF ListInv
  <1>8. CASE GiveBack
    <2>1. /\ node' \in Range(NodesOf("sorted")) \cup {NULL} /\ node' \in Pointer
          /\ heap[node].element \in Value
      BY <1>1, <1>8, GivenNode
    <2>2. /\ ListsOK' /\ Keeps("sorted")
          /\ failed' = failed \/ failed' = TRUE
      BY <1>1, <1>2, <1>8, <2>1, AddCopyStep DEF GiveBack
    <2>3. NodeOK'
      BY <1>1, <1>8, <2>1, <2>2 DEF GiveBack, NodeOK, Keeps
    <2>4. QED BY <2>2, <2>3 DEF ListInv
  <1>9. CASE Finish
    <2>1. ListsOK'
      BY <1>1, <1>2, <1>9, RemoveAllStep DEF Finish
    <2>2. <<>> \in Seq(Value)
      BY EmptySeq
    <2>3. NodeOK'
      BY <1>1, <1>9, <2>2 DEF Finish, NodeOK
    <2>4. QED BY <2>1, <2>3 DEF ListInv
  <1>10. CASE UNCHANGED vars
    <2>1. ListsOK' /\ Keeps("players") /\ Keeps("sorted")
      BY <1>1, <1>2, <1>10, NoListChanges DEF vars
    <2>2. NodeOK'
      BY <1>1, <1>10, <2>1 DEF vars, sort, NodeOK, Keeps
    <2>3. QED BY <2>1, <2>2 DEF ListInv
  <1>11. QED BY <1>3, <1>4, <1>5, <1>6, <1>7, <1>8, <1>9, <1>10 DEF Next, sort_players

\* The lists are well formed at any time, and sort_players is on one of them.
THEOREM ListInvariant == Spec => []ListInv
  BY ListInit, ListStep, PTL DEF Spec

\* Every variable holds a value of its type: each pointer is NULL or an address
\* of malloc's, and no size is negative.
THEOREM ListTypeCorrect == Spec => []ListTypeOK
  BY ListInvariant, ListInvImplies, PTL

\* list_add, list_remove and list_remove_all keep both directions of the links,
\* the head, the tail and the size of every list true to each other, whichever
\* calls of malloc fail.
THEOREM NodesAreLinkedCorrect == Spec => []NodesAreLinked
  BY ListInvariant, ListInvImplies, PTL

\* No node leaks, dangles or is in two lists, in sort_players neither, where one
\* list is taken apart while the other is built.
THEOREM NoNodeIsLostCorrect == Spec => []NoNodeIsLost
  BY ListInvariant, ListInvImplies, PTL

-----------------------------------------------------------------------------
(* The lists implement sequences *)

\* A step that gives one list other elements is one of the sequences.
LEMMA ContentsChange ==
    ASSUME NEW l \in List, NEW elements,
           ElementsOf(l)' = elements, \A k \in List \ {l} : Keeps(k)
    PROVE  contents' = [contents EXCEPT ![l] = elements]
  <1>1. \A k \in List : ElementsOf(k)' = IF k = l THEN elements ELSE ElementsOf(k)
    BY DEF Keeps
  <1>2. QED BY <1>1 DEF contents

\* list_add puts the element at the end of the sequence.
LEMMA AddIsPutLast ==
    ASSUME NEW l \in List, NEW value \in Value, NEW n,
           Adds(l, value, n), \A k \in List \ {l} : Keeps(k)
    PROVE  Sequences_!Next
  <1>1. contents' = [contents EXCEPT ![l] = Append(ElementsOf(l), value)]
    BY ContentsChange DEF Adds
  <1>2. Sequences_!PutLast(l, value)
    BY <1>1 DEF Sequences_!PutLast, Sequences_!list_add, contents
  <1>3. QED BY <1>2 DEF Sequences_!Next

\* list_remove takes the element out of the sequence.
LEMMA RemoveIsTakeOut ==
    ASSUME ListsOK, NEW l \in List, NEW i \in DOMAIN NodesOf(l),
           Removes(l, i), \A k \in List \ {l} : Keeps(k)
    PROVE  Sequences_!Next
  <1>1. contents' = [contents EXCEPT ![l] = RemoveAt(ElementsOf(l), i)]
    BY ContentsChange DEF Removes
  <1>2. Sequences_!TakeOut(l, i)
    BY <1>1 DEF Sequences_!TakeOut, Sequences_!list_remove, Sequences_!RemoveAt, RemoveAt,
               contents
  <1>3. i \in DOMAIN contents[l]
    BY ListElements DEF contents
  <1>4. QED BY <1>2, <1>3 DEF Sequences_!Next

\* list_remove_all leaves the empty sequence.
LEMMA RemoveAllIsClear ==
    ASSUME NEW l \in List, Clears(l), \A k \in List \ {l} : Keeps(k)
    PROVE  Sequences_!Next
  <1>1. contents' = [contents EXCEPT ![l] = <<>>]
    BY ContentsChange DEF Clears
  <1>2. Sequences_!Clear(l)
    BY <1>1 DEF Sequences_!Clear, contents
  <1>3. QED BY <1>2 DEF Sequences_!Next

\* list_add with or without memory is a step of the sequences or none.
LEMMA AddCopyIsPutLast ==
    ASSUME ListsOK, NEW l \in List, NEW value \in Value, AddCopy(l, value)
    PROVE  [Sequences_!Next]_contents
  <1>1. /\ \A k \in List \ {l} : Keeps(k)
        /\ (\E n \in Node : Adds(l, value, n)) \/ Keeps(l)
    BY AddCopyStep
  <1>2. CASE \E n \in Node : Adds(l, value, n)
    BY <1>1, <1>2, AddIsPutLast
  <1>3. CASE Keeps(l)
    BY <1>1, <1>3 DEF Keeps, contents
  <1>4. QED BY <1>1, <1>2, <1>3

\* Every step on the nodes is a step on the sequences, or leaves them.
LEMMA StepIsSequenceStep ==
    ListInv /\ [Next]_vars => [Sequences_!Next]_contents
  <1> SUFFICES ASSUME ListInv, [Next]_vars
               PROVE  [Sequences_!Next]_contents
    OBVIOUS
  <1>1. ListsOK /\ NodeOK
    BY DEF ListInv
  <1>2. "players" \in List /\ "sorted" \in List
    BY DEF List
  <1>3. ASSUME UNCHANGED nodes PROVE UNCHANGED contents
    BY <1>1, <1>3, NoListChanges DEF Keeps, contents
  <1>4. CASE UseList
    <2>1. CASE \E value \in Value, n \in Node : list_add_to("players", value, n)
      BY <1>1, <1>2, <2>1, AddStep, AddIsPutLast
    <2>2. CASE \E n \in Range(NodesOf("players")) : list_remove_from("players", n)
      <3>1. PICK i \in DOMAIN NodesOf("players") : list_remove_from("players", NodesOf("players")[i])
        BY <2>2 DEF Range
      <3>2. QED BY <1>1, <1>2, <3>1, RemoveStep, RemoveIsTakeOut
    <2>3. CASE list_remove_all_of("players")
      BY <1>1, <1>2, <2>3, RemoveAllStep, RemoveAllIsClear
    <2>4. QED BY <1>4, <2>1, <2>2, <2>3 DEF UseList
  <1>5. CASE Start
    BY <1>3, <1>5 DEF Start
  <1>6. CASE Take
    BY <1>1, <1>2, <1>6, TakenNode, AddCopyIsPutLast DEF Take
  <1>7. CASE Drop
    <2>1. PICK i \in DOMAIN NodesOf("players") : node = NodesOf("players")[i]
      BY <1>1, <1>7 DEF Drop, NodeOK, Range
    <2>2. Removes("players", i) /\ \A k \in List \ {"players"} : Keeps(k)
      BY <1>1, <1>2, <1>7, <2>1, RemoveStep DEF Drop
    <2>3. QED BY <1>1, <1>2, <2>2, RemoveIsTakeOut
  <1>8. CASE AllTaken
    BY <1>3, <1>8 DEF AllTaken
  <1>9. CASE GiveBack
    BY <1>1, <1>2, <1>9, GivenNode, AddCopyIsPutLast DEF GiveBack
  <1>10. CASE Finish
    BY <1>1, <1>2, <1>10, RemoveAllStep, RemoveAllIsClear DEF Finish
  <1>11. CASE UNCHANGED vars
    BY <1>3, <1>11 DEF vars
  <1>12. QED
    BY <1>4, <1>5, <1>6, <1>7, <1>8, <1>9, <1>10, <1>11 DEF Next, sort_players

\* Whoever uses the lists may take each for a sequence of its own: elements come
\* at its end, leave it anywhere, and no operation on the other list is seen.
THEOREM SequencesImplemented == Spec => ImplementsSequences
  <1>1. Init => Sequences_!Init
    <2> SUFFICES ASSUME Init PROVE Sequences_!Init
      OBVIOUS
    <2>1. ListsOK
      BY ListInit DEF ListInv
    <2>2. \A l \in List : ElementsOf(l) = <<>>
      <3> SUFFICES ASSUME NEW l \in List PROVE ElementsOf(l) = <<>>
        OBVIOUS
      <3>1. Len(ElementsOf(l)) = 0 /\ ElementsOf(l) \in Seq(Value)
        BY <2>1, ListElements DEF Init, list_create
      <3>2. QED BY <3>1, EmptySeq
    <2>3. QED BY <2>2 DEF Sequences_!Init, contents
  <1>2. QED
    BY <1>1, StepIsSequenceStep, ListInvariant, PTL
       DEF Spec, ImplementsSequences, Sequences_!Spec

-----------------------------------------------------------------------------
(* sort_players is stable *)

\* Where sort_players is with the players, unless a call of malloc has failed.
SortInv ==
    LET s == ElementsOf("sorted")
        p == ElementsOf("players")
    IN  /\ phase = "IDLE" => s = <<>>
        /\ phase = "TAKE" /\ ~failed => Taking(before, Rank, s, p)
        /\ phase = "DROP" /\ ~failed =>
              \E i \in 1 .. Len(p) : NodesOf("players")[i] = node /\ Dropping(before, Rank, s, p, i)
        /\ phase = "GIVE_BACK" /\ ~failed =>
              /\ Giving(before, Rank, s, p)
              /\ node = IF Len(p) = Len(s) THEN NULL ELSE NodesOf("sorted")[Len(p) + 1]

\* sorted is empty at first.
LEMMA SortInit == Init => SortInv
  <1> SUFFICES ASSUME Init PROVE SortInv
    OBVIOUS
  <1>1. ListsOK /\ "sorted" \in List
    BY ListInit DEF ListInv, List
  <1>2. ElementsOf("sorted") \in Seq(Value) /\ Len(ElementsOf("sorted")) = 0
    BY <1>1, ListElements DEF Init, list_create
  <1>3. ElementsOf("sorted") = <<>>
    BY <1>2, EmptySeq
  <1>4. QED BY <1>3 DEF SortInv, Init

\* Each step keeps it.
LEMMA SortStep == ListInv /\ SortInv /\ [Next]_vars => SortInv'
  <1> SUFFICES ASSUME ListInv, SortInv, [Next]_vars PROVE SortInv'
    OBVIOUS
  <1> DEFINE s == ElementsOf("sorted")
             p == ElementsOf("players")
             sn == NodesOf("sorted")
             pn == NodesOf("players")
  <1>1. ListsOK /\ NodeOK
    BY DEF ListInv
  <1>2. "players" \in List /\ "sorted" \in List /\ "players" # "sorted"
    BY DEF List
  <1>3. /\ Len(pn) \in Nat /\ DOMAIN pn = 1 .. Len(pn) /\ list["players"].size = Len(pn)
        /\ \A j, k \in 1 .. Len(pn) : pn[j] = pn[k] => j = k
        /\ p \in Seq(Value) /\ Len(p) = Len(pn) /\ DOMAIN p = 1 .. Len(pn)
        /\ \A k \in 1 .. Len(pn) : p[k] = heap[pn[k]].element
    BY <1>1, <1>2, ListElements
  <1>4. /\ Len(sn) \in Nat /\ DOMAIN sn = 1 .. Len(sn)
        /\ \A j, k \in 1 .. Len(sn) : sn[j] = sn[k] => j = k
        /\ \A k \in 1 .. Len(sn) : sn[k] # NULL
        /\ s \in Seq(Value) /\ Len(s) = Len(sn)
        /\ \A k \in 1 .. Len(sn) : s[k] = heap[sn[k]].element
    BY <1>1, <1>2, ListElements
  <1>5. before \in Seq(Value) /\ failed \in BOOLEAN /\ Rank \in [Value -> Nat]
    BY <1>1, LinkedListAssumption DEF NodeOK
  <1>6. CASE UseList
    <2>1. Keeps("sorted")
      <3>1. CASE \E value \in Value, n \in Node : list_add_to("players", value, n)
        BY <1>1, <1>2, <3>1, AddStep
      <3>2. CASE \E n \in Range(NodesOf("players")) : list_remove_from("players", n)
        <4>1. PICK i \in DOMAIN NodesOf("players") : list_remove_from("players", NodesOf("players")[i])
          BY <3>2 DEF Range
        <4>2. QED BY <1>1, <1>2, <4>1, RemoveStep
      <3>3. CASE list_remove_all_of("players")
        BY <1>1, <1>2, <3>3, RemoveAllStep
      <3>4. QED BY <1>6, <3>1, <3>2, <3>3 DEF UseList
    <2>2. phase = "IDLE" /\ phase' = "IDLE"
      BY <1>6 DEF UseList, sort
    <2>3. QED BY <2>1, <2>2 DEF SortInv, Keeps
  <1>7. CASE Start
    <2>1. Keeps("players") /\ Keeps("sorted")
      BY <1>1, <1>2, <1>7, NoListChanges DEF Start
    <2>2. s = <<>> /\ phase' = "TAKE" /\ before' = p
      BY <1>7 DEF Start, SortInv
    <2>3. Taking(p, Rank, <<>>, p)
      BY <1>3, <1>5, TakingStarts
    <2>4. s' = <<>> /\ p' = p
      BY <2>1, <2>2 DEF Keeps
    <2>5. QED BY <2>2, <2>3, <2>4 DEF SortInv
  <1>8. CASE Take
    <2>1. PICK k \in DOMAIN pn : IsFirstLeast(pn, k) /\ node' = pn[k]
      BY <1>1, <1>8, TakenNode
    <2>2. heap[node'].element = p[k] /\ heap[node'].element \in Value
      BY <1>1, <1>3, <1>8, <2>1, TakenNode
    <2>3. IsFirstLeastOf(p, Rank, k)
      <3>1. \A j \in 1 .. Len(pn) : RankOf(pn[j]) = Rank[p[j]]
        BY <1>3 DEF RankOf
      <3>2. k \in 1 .. Len(pn) /\ \A j \in 1 .. k - 1 : j \in 1 .. Len(pn)
        BY <1>3
      <3>3. \A j \in 1 .. Len(p) : Rank[p[k]] <= Rank[p[j]]
        BY <1>3, <2>1, <3>1, <3>2 DEF IsFirstLeast
      <3>4. \A j \in 1 .. k - 1 : Rank[p[k]] < Rank[p[j]]
        BY <2>1, <3>1, <3>2 DEF IsFirstLeast
      <3>5. QED BY <1>3, <3>2, <3>3, <3>4 DEF IsFirstLeastOf
    <2>4. /\ Keeps("players")
          /\ \/ failed' = failed /\ \E n \in Node : Adds("sorted", heap[node'].element, n)
             \/ failed' = TRUE
      BY <1>1, <1>2, <1>8, <2>2, AddCopyStep DEF Take
    <2>5. phase = "TAKE" /\ phase' = "DROP" /\ before' = before
      BY <1>8 DEF Take
    <2>6. ASSUME ~failed' PROVE Dropping(before, Rank, s', p', k)
      <3>1. ~failed /\ s' = Append(s, p[k]) /\ p' = p
        BY <2>2, <2>4, <2>6 DEF Adds, Keeps
      <3>2. Taking(before, Rank, s, p)
        BY <2>5, <3>1 DEF SortInv
      <3>3. Dropping(before, Rank, Append(s, p[k]), p, k)
        BY <1>3, <1>4, <1>5, <2>3, <3>2, TakingOne
      <3>4. QED BY <3>1, <3>3
    <2>7. NodesOf("players")'[k] = node' /\ k \in 1 .. Len(p')
      BY <1>3, <2>1, <2>4 DEF Keeps
    <2>8. QED BY <2>5, <2>6, <2>7 DEF SortInv
  <1>9. CASE Drop
    <2>1. PICK i \in DOMAIN pn : node = pn[i]
      BY <1>1, <1>9 DEF Drop, NodeOK, Range
    <2>2. Removes("players", i) /\ Keeps("sorted")
      BY <1>1, <1>2, <1>9, <2>1, RemoveStep DEF Drop
    <2>3. phase = "DROP" /\ phase' = "TAKE" /\ before' = before /\ failed' = failed
      BY <1>9 DEF Drop
    <2>4. ASSUME ~failed' PROVE Taking(before, Rank, s', p')
      <3>1. PICK j \in 1 .. Len(p) : pn[j] = node /\ Dropping(before, Rank, s, p, j)
        BY <2>3, <2>4 DEF SortInv
      <3>2. j = i
        BY <1>3, <2>1, <3>1
      <3>3. Taking(before, Rank, s, RemoveAt(p, i))
        BY <1>3, <1>4, <1>5, <3>1, <3>2, DroppingOne
      <3>4. QED BY <2>2, <3>3 DEF Removes, Keeps
    <2>5. QED BY <2>3, <2>4 DEF SortInv
  <1>10. CASE AllTaken
    <2>1. Keeps("players") /\ Keeps("sorted")
      BY <1>1, <1>2, <1>10, NoListChanges DEF AllTaken
    <2>2. /\ phase = "TAKE" /\ phase' = "GIVE_BACK" /\ before' = before /\ failed' = failed
          /\ Len(p) = 0 /\ node' = list["sorted"].head
      BY <1>3, <1>10 DEF AllTaken
    <2>3. list["sorted"].head = IF Len(sn) = 0 THEN NULL ELSE sn[1]
      BY <1>1, <1>2 DEF ListsOK, IsChain
    <2>4. ASSUME ~failed' PROVE Giving(before, Rank, s', p')
      <3>1. Taking(before, Rank, s, p)
        BY <2>2, <2>4 DEF SortInv
      <3>2. Giving(before, Rank, s, p)
        BY <1>3, <1>4, <1>5, <2>2, <3>1, TakingEnds
      <3>3. QED BY <2>1, <3>2 DEF Keeps
    <2>5. s' = s /\ p' = p /\ sn' = sn
      BY <2>1 DEF Keeps
    <2>6. node' = IF Len(p') = Len(s') THEN NULL ELSE sn'[Len(p') + 1]
      BY <1>4, <2>2, <2>3, <2>5
    <2>7. QED BY <2>2, <2>4, <2>6 DEF SortInv
  <1>11. CASE GiveBack
    <2>1. PICK i \in 1 .. Len(sn) :
             node = sn[i] /\ node' = IF i = Len(sn) THEN NULL ELSE sn[i + 1]
      BY <1>1, <1>11, GivenNode
    <2>2. heap[node].element = s[i] /\ heap[node].element \in Value
      BY <1>1, <1>4, <1>11, <2>1, GivenNode
    <2>3. /\ Keeps("sorted")
          /\ \/ failed' = failed /\ \E n \in Node : Adds("players", heap[node].element, n)
             \/ failed' = TRUE
      BY <1>1, <1>2, <1>11, <2>2, AddCopyStep DEF GiveBack
    <2>4. phase = "GIVE_BACK" /\ phase' = "GIVE_BACK" /\ before' = before
      BY <1>11 DEF GiveBack
    <2>5. s' = s /\ sn' = sn
      BY <2>3 DEF Keeps
    <2>6. ASSUME ~failed'
          PROVE  /\ Giving(before, Rank, s', p')
                 /\ node' = IF Len(p') = Len(s') THEN NULL ELSE sn'[Len(p') + 1]
      <3>1. ~failed /\ p' = Append(p, s[i])
        BY <2>2, <2>3, <2>6 DEF Adds
      <3>2. Giving(before, Rank, s, p) /\ node = IF Len(p) = Len(s) THEN NULL ELSE sn[Len(p) + 1]
        BY <2>4, <3>1 DEF SortInv
      <3>3. Len(p) # Len(s)
        BY <1>4, <2>1, <3>2
      <3>4. Len(p) + 1 \in 1 .. Len(sn) /\ i = Len(p) + 1
        <4>1. Len(p) <= Len(sn) /\ Len(p) # Len(sn) /\ Len(p) \in Nat
          BY <1>3, <1>4, <3>2, <3>3 DEF Giving
        <4>2. Len(p) + 1 \in 1 .. Len(sn)
          BY <1>4, <4>1
        <4>3. sn[i] = sn[Len(p) + 1]
          BY <2>1, <3>2, <3>3
        <4>4. QED BY <1>4, <4>2, <4>3
      <3>5. s[i] \in Value
        BY <2>2
      <3>6. /\ Len(Append(p, s[i])) = Len(p) + 1
            /\ \A k \in 1 .. Len(p) : Append(p, s[i])[k] = p[k]
            /\ Append(p, s[i])[Len(p) + 1] = s[i]
        BY <1>3, <3>5, PushProperties
      <3>7. Giving(before, Rank, s, Append(p, s[i]))
        <4>1. Len(Append(p, s[i])) <= Len(s)
          BY <1>4, <3>4, <3>6
        <4>2. \A k \in 1 .. Len(p) + 1 : k = Len(p) + 1 \/ k \in 1 .. Len(p)
          BY <1>3
        <4>3. \A k \in 1 .. Len(Append(p, s[i])) : Append(p, s[i])[k] = s[k]
          BY <3>2, <3>4, <3>6, <4>2 DEF Giving
        <4>4. QED BY <3>2, <4>1, <4>3 DEF Giving
      <3>8. node' = IF Len(p) + 1 = Len(s) THEN NULL ELSE sn[Len(p) + 1 + 1]
        BY <1>4, <2>1, <3>4
      <3>9. QED BY <2>5, <3>1, <3>6, <3>7, <3>8
    <2>7. QED BY <2>4, <2>6 DEF SortInv
  <1>12. CASE Finish
    <2>1. Clears("sorted")
      BY <1>1, <1>2, <1>12, RemoveAllStep DEF Finish
    <2>2. phase' = "IDLE"
      BY <1>12 DEF Finish
    <2>3. QED BY <2>1, <2>2 DEF SortInv, Clears
  <1>13. CASE UNCHANGED vars
    <2>1. Keeps("players") /\ Keeps("sorted")
      BY <1>1, <1>2, <1>13, NoListChanges DEF vars
    <2>2. phase' = phase /\ node' = node /\ before' = before /\ failed' = failed
      BY <1>13 DEF vars, sort
    <2>3. s' = s /\ p' = p /\ sn' = sn /\ pn' = pn
      BY <2>1 DEF Keeps
    <2>4. QED BY <2>2, <2>3 DEF SortInv
  <1>14. QED
    BY <1>6, <1>7, <1>8, <1>9, <1>10, <1>11, <1>12, <1>13 DEF Next, sort_players

\* At any time of sort_players for which malloc has not failed, each player it was
\* given is in one of the lists, or is being moved, and those in sorted are the
\* first of a stable sort.
THEOREM SortInvariant == Spec => []SortInv
  BY SortInit, SortStep, ListInvariant, PTL DEF Spec

\* A call of sort_players for which malloc never fails returns with the players
\* it was given, sorted, and those with equal names in the order they were in.
THEOREM SortIsStableCorrect == Spec => SortIsStable
  <1>1. ASSUME ListInv, SortInv, [Next]_vars, phase = "GIVE_BACK" /\ phase' = "IDLE" /\ ~failed
        PROVE  ElementsOf("players")' \in Sorts(before, Rank)
    <2> DEFINE s == ElementsOf("sorted")
               p == ElementsOf("players")
    <2>1. ListsOK /\ "players" \in List /\ "sorted" \in List /\ "players" # "sorted"
      BY <1>1 DEF ListInv, List
    <2>2. Finish
      BY <1>1 DEF Next, sort_players, UseList, Start, Take, Drop, AllTaken, GiveBack,
                  vars, sort
    <2>3. p' = p
      BY <2>1, <2>2, RemoveAllStep DEF Finish, Keeps
    <2>4. /\ Giving(before, Rank, s, p)
          /\ node = IF Len(p) = Len(s) THEN NULL ELSE NodesOf("sorted")[Len(p) + 1]
      BY <1>1 DEF SortInv
    <2>5. /\ p \in Seq(Value) /\ Len(p) \in Nat
          /\ s \in Seq(Value) /\ Len(s) \in Nat /\ Len(s) = Len(NodesOf("sorted"))
          /\ \A k \in 1 .. Len(s) : NodesOf("sorted")[k] # NULL
      BY <2>1, ListElements, LenProperties
    <2>6. Len(p) = Len(s)
      <3> SUFFICES ASSUME Len(p) # Len(s) PROVE FALSE
        OBVIOUS
      <3>1. Len(p) <= Len(s)
        BY <2>4 DEF Giving
      <3>2. Len(p) + 1 \in 1 .. Len(s)
        BY <2>5, <3>1
      <3>3. QED BY <2>2, <2>4, <2>5, <3>2 DEF Finish
    <2>7. p = s
      BY <2>4, <2>5, <2>6, SeqEqual DEF Giving
    <2>8. QED BY <2>3, <2>4, <2>7 DEF Giving
  <1>2. ListInv /\ SortInv /\ [Next]_vars
          => [phase = "GIVE_BACK" /\ phase' = "IDLE" /\ ~failed =>
                 ElementsOf("players")' \in Sorts(before, Rank)]_vars
    BY <1>1
  <1>3. QED BY <1>2, ListInvariant, SortInvariant, PTL DEF Spec, SortIsStable

=============================================================================
