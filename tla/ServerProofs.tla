---------------------------- MODULE ServerProofs ----------------------------
(***************************************************************************)
(* Theorems about module Server: its own invariants, and that it plays the *)
(* game of module Game, whose theorems are then theorems about the server. *)
(***************************************************************************)
EXTENDS Server, GameProofs

-----------------------------------------------------------------------------
(* Clients *)

\* What nothing but its deletion changes of a client.
SameClient(c, d) ==
    /\ d.node = c.node /\ d.session_id = c.session_id
    /\ d.player_name = c.player_name /\ d.watched = c.watched

SameClients(a, b) == DOMAIN b = DOMAIN a /\ \A i \in DOMAIN a : SameClient(a[i], b[i])

\* The clients of a list and their fields.
LEMMA ClientsOfList ==
    ASSUME NEW list \in Seq(Client)
    PROVE  /\ Len(list) \in Nat /\ DOMAIN list = 1 .. Len(list)
           /\ IsFiniteSet(DOMAIN list)
           /\ \A i \in DOMAIN list :
                 /\ list[i] \in Client /\ list[i].node \in 1 .. MaxClients
                 /\ list[i].session_id \in Session
                 /\ list[i].player_name \in Name \cup {NoName}
                 /\ list[i].timer \in {"armed", "expired"}
                 /\ list[i].queue \in Seq(Datagram)
                 /\ list[i].failed \in BOOLEAN /\ list[i].watched \in BOOLEAN
  <1>1. /\ Len(list) \in Nat /\ DOMAIN list = 1 .. Len(list)
        /\ \A i \in DOMAIN list : list[i] \in Client
    BY LenProperties, ElementOfSeq
  <1>2. IsFiniteSet(DOMAIN list)
    BY <1>1, FS_Interval
  <1>3. QED BY <1>1, <1>2 DEF Client

\* A change of one client.
LEMMA ClientWrite ==
    ASSUME NEW list \in Seq(Client), NEW i \in DOMAIN list, NEW c \in Client,
           SameClient(list[i], c)
    PROVE  /\ [list EXCEPT ![i] = c] \in Seq(Client)
           /\ SameClients(list, [list EXCEPT ![i] = c])
  <1>1. [list EXCEPT ![i] = c] \in Seq(Client)
    BY ClientsOfList, ExceptSeq
  <1>2. SameClients(list, [list EXCEPT ![i] = c])
    BY DEF SameClients, SameClient
  <1>3. QED BY <1>1, <1>2

\* Its timer and its socket may change, whatever else it is.
LEMMA ClientFields ==
    ASSUME NEW c \in Client, NEW t \in {"armed", "expired"}, NEW f \in BOOLEAN,
           NEW q \in Seq(Datagram)
    PROVE  /\ [c EXCEPT !.timer = t] \in Client /\ SameClient(c, [c EXCEPT !.timer = t])
           /\ [c EXCEPT !.failed = f] \in Client /\ SameClient(c, [c EXCEPT !.failed = f])
           /\ [c EXCEPT !.queue = q] \in Client /\ SameClient(c, [c EXCEPT !.queue = q])
           /\ [c EXCEPT !.timer = t, !.failed = f, !.queue = q] \in Client
           /\ SameClient(c, [c EXCEPT !.timer = t, !.failed = f, !.queue = q])
  BY DEF Client, SameClient

\* The constants, in the form the proofs use.
LEMMA ServerFacts ==
    /\ Capacity \in Nat /\ Capacity > 0 /\ MaxClients \in Nat /\ MaxClients > 0
    /\ \A d \in Datagram :
          /\ d.session_id \in Session /\ d.player_name \in Name \cup {NoName}
          /\ d.turn_direction \in Turn
          /\ <<d.session_id, d.player_name>> \in Entrants
    /\ \A e \in Entrants :
          \E d \in Datagram : e[1] = d.session_id /\ e[2] = d.player_name
  BY ServerAssumption DEF DatagramType

-----------------------------------------------------------------------------
(* The first invariant: types and the count of the players. *)

Registered ==
    /\ ServerTypeOK /\ PlayersNumberCounts
    /\ made + Len(inbox) <= MaxClients
    /\ "NEW_CLIENT" \in loop_actions => inbox # <<>>

NamesOnce(list) ==
    \A i, j \in DOMAIN list :
        list[i].player_name # NoName /\ list[i].player_name = list[j].player_name => i = j

NamedOf(list) == { i \in DOMAIN list : list[i].player_name # NoName }

\* PlayersNumberCounts, for a list.
LEMMA CountsByList ==
    PlayersNumberCounts <=>
        players_number = Cardinality(NamedOf(clients)) /\ NamesOnce(clients)
  BY DEF PlayersNumberCounts, Named, NamedOf, NamesOnce

\* The server starts without clients.
LEMMA RegisteredInit == ServerInit => Registered
  <1> SUFFICES ASSUME ServerInit PROVE Registered
    OBVIOUS
  <1>1. /\ clients \in Seq(Client) /\ inbox \in Seq(Datagram)
        /\ batch \in Seq(1 .. MaxClients) /\ Len(inbox) = 0
    BY DEF ServerInit
  <1>2. Named = {} /\ Cardinality(Named) = 0
    BY FS_EmptySet DEF ServerInit, Named
  <1>3. QED BY <1>1, <1>2, ServerFacts
            DEF ServerInit, Registered, ServerTypeOK, PlayersNumberCounts

\* As long as the clients stay the same, so does the count.
LEMMA CountKept ==
    ASSUME Registered, SameClients(clients, clients'), players_number' = players_number
    PROVE  PlayersNumberCounts' /\ players_number' \in 0 .. Capacity
  <1>1. NamedOf(clients') = NamedOf(clients)
    BY DEF NamedOf, SameClients, SameClient
  <1>2. NamesOnce(clients) => NamesOnce(clients')
    BY DEF NamesOnce, SameClients, SameClient
  <1>3. PlayersNumberCounts /\ players_number \in 0 .. Capacity
    BY DEF Registered, ServerTypeOK
  <1>4. players_number = Cardinality(NamedOf(clients)) /\ NamesOnce(clients)
    BY <1>3, CountsByList
  <1>5. (players_number = Cardinality(NamedOf(clients)) /\ NamesOnce(clients))'
    BY <1>1, <1>2, <1>4
  <1>6. PlayersNumberCounts'
    BY <1>5 DEF PlayersNumberCounts, Named, NamedOf, NamesOnce
  <1>7. QED BY <1>3, <1>6

\* A datagram arrives, at the socket of a client or at the server's own.
LEMMA RegisteredArrive ==
    ASSUME Registered, NEW d \in Datagram, Arrive(d)
    PROVE  Registered' /\ SameClients(clients, clients')
  <1>1. /\ clients \in Seq(Client) /\ inbox \in Seq(Datagram) /\ made \in Nat
        /\ players_number' = players_number
        /\ UNCHANGED <<made, loop_actions, batch>>
    BY ServerFacts DEF Registered, ServerTypeOK, Arrive
  <1>2. CASE /\ UNCHANGED inbox
             /\ \E i \in DOMAIN clients :
                    clients' = [clients EXCEPT ![i].queue = Append(@, d)]
    <2>1. PICK i \in DOMAIN clients :
             clients' = [clients EXCEPT ![i].queue = Append(@, d)]
      BY <1>2
    <2> DEFINE queue == Append(clients[i].queue, d)
               c == [clients[i] EXCEPT !.queue = queue]
    <2>2. /\ clients[i] \in Client /\ clients[i].timer \in {"armed", "expired"}
          /\ clients[i].failed \in BOOLEAN /\ queue \in Seq(Datagram)
      BY <1>1, ClientsOfList
    <2>3. clients' = [clients EXCEPT ![i] = c]
      BY <2>1
    <2> HIDE DEF queue
    <2>4. c \in Client /\ SameClient(clients[i], c)
      BY <2>2, ClientFields
    <2> HIDE DEF c
    <2>5. clients' \in Seq(Client) /\ SameClients(clients, clients')
      BY <1>1, <2>3, <2>4, ClientWrite
    <2>6. PlayersNumberCounts' /\ players_number' \in 0 .. Capacity
      BY <1>1, <2>5, CountKept
    <2>7. QED BY <1>1, <1>2, <2>5, <2>6 DEF Registered, ServerTypeOK
  <1>3. CASE /\ made + Len(inbox) < MaxClients
             /\ inbox' = Append(inbox, d) /\ UNCHANGED clients
    <2>1. SameClients(clients, clients')
      BY <1>3 DEF SameClients, SameClient
    <2>2. PlayersNumberCounts' /\ players_number' \in 0 .. Capacity
      BY <1>1, <2>1, CountKept
    <2>3. /\ inbox' \in Seq(Datagram) /\ inbox' # <<>>
          /\ Len(inbox') = Len(inbox) + 1 /\ Len(inbox) \in Nat
      BY <1>1, <1>3, PushProperties
    <2>4. made' + Len(inbox') <= MaxClients
      BY <1>1, <1>3, <2>3, ServerFacts
    <2>5. QED BY <1>1, <1>3, <2>1, <2>2, <2>3, <2>4 DEF Registered, ServerTypeOK
  <1>4. QED BY <1>2, <1>3 DEF Arrive

\* A socket fails or a timer expires.
LEMMA RegisteredTrouble ==
    ASSUME Registered, Refuse \/ Expire
    PROVE  Registered' /\ SameClients(clients, clients')
  <1>1. /\ clients \in Seq(Client) /\ players_number' = players_number
        /\ UNCHANGED <<made, inbox, loop_actions, batch>>
    BY DEF Registered, ServerTypeOK, Refuse, Expire
  <1>2. PICK i \in DOMAIN clients :
           \/ clients' = [clients EXCEPT ![i] = [clients[i] EXCEPT !.failed = TRUE]]
           \/ clients' = [clients EXCEPT ![i] = [clients[i] EXCEPT !.timer = "expired"]]
    BY DEF Refuse, Expire
  <1> DEFINE c == [clients[i] EXCEPT !.failed = TRUE]
             e == [clients[i] EXCEPT !.timer = "expired"]
  <1>3. clients[i] \in Client /\ <<>> \in Seq(Datagram)
    BY <1>1, ClientsOfList
  <1>4. c \in Client /\ SameClient(clients[i], c) /\ e \in Client /\ SameClient(clients[i], e)
    BY <1>3, ClientFields
  <1>5. clients' = [clients EXCEPT ![i] = c] \/ clients' = [clients EXCEPT ![i] = e]
    BY <1>2
  <1> HIDE DEF c, e
  <1>6. clients' \in Seq(Client) /\ SameClients(clients, clients')
    BY <1>1, <1>4, <1>5, ClientWrite
  <1>7. PlayersNumberCounts' /\ players_number' \in 0 .. Capacity
    BY <1>1, <1>6, CountKept
  <1>8. QED BY <1>1, <1>6, <1>7 DEF Registered, ServerTypeOK

\* The loop takes its snapshots and tells the game that time passes.
LEMMA RegisteredLoop ==
    ASSUME Registered, Wait \/ HandleRound \/ TimeoutBatch
    PROVE  Registered' /\ SameClients(clients, clients')
  <1>1. /\ clients \in Seq(Client)
        /\ UNCHANGED <<clients, players_number, made, inbox>>
        /\ loop_actions \in SUBSET {"ROUND", "TIMEOUT", "NEW_CLIENT", "DATA"}
        /\ batch \in Seq(1 .. MaxClients)
    BY DEF Registered, ServerTypeOK, Wait, HandleRound, TimeoutBatch
  <1>2. SameClients(clients, clients')
    BY <1>1 DEF SameClients, SameClient
  <1>3. PlayersNumberCounts' /\ players_number' \in 0 .. Capacity
    BY <1>1, <1>2, CountKept
  <1>4. /\ loop_actions' \in SUBSET {"ROUND", "TIMEOUT", "NEW_CLIENT", "DATA"}
        /\ "NEW_CLIENT" \in loop_actions' => inbox # <<>>
    BY <1>1 DEF Registered, Wait, HandleRound, TimeoutBatch, Done
  <1>5. batch' \in Seq(1 .. MaxClients)
    <2>1. CASE UNCHANGED batch
      BY <1>1, <2>1
    <2>2. CASE batch' # batch
      <3>1. PICK S \in SUBSET Expired : \E order \in SetToSeqs(S) :
               batch' = [k \in DOMAIN order |-> clients[order[k]].node]
        BY <2>2 DEF Wait, HandleRound, TimeoutBatch
      <3>2. PICK order \in SetToSeqs(S) :
               batch' = [k \in DOMAIN order |-> clients[order[k]].node]
        BY <3>1
      <3>3. S \in SUBSET DOMAIN clients
        BY <3>1 DEF Expired
      <3>4. IsFiniteSet(S) /\ Cardinality(S) \in Nat
        BY <1>1, <3>3, ClientsOfList, FS_Subset, FS_CardinalityType
      <3>5. order \in [1 .. Cardinality(S) -> S]
        BY <3>2 DEF SetToSeqs
      <3>6. batch' \in [1 .. Cardinality(S) -> 1 .. MaxClients]
        BY <1>1, <3>2, <3>3, <3>5, ClientsOfList
      <3>7. QED BY <3>4, <3>6, FunctionIsSeq
    <2>3. QED BY <2>1, <2>2
  <1>6. QED BY <1>1, <1>2, <1>3, <1>4, <1>5 DEF Registered, ServerTypeOK

\* What ReadCount counts is a prefix of the queue: as far as the first empty
\* datagram.
LEMMA ReadCountPrefix ==
    ASSUME NEW q \in Seq(Datagram)
    PROVE  /\ ReadCount(q) \in 0 .. Len(q)
           /\ ReadCount(q) < Len(q) => q[ReadCount(q) + 1].form = "EMPTY"
  <1> DEFINE T == { n \in DOMAIN q : \A k \in 1 .. n : q[k].form # "EMPTY" }
             E == { n \in DOMAIN q : q[n].form = "EMPTY" }
  <1>1. Len(q) \in Nat /\ DOMAIN q = 1 .. Len(q) /\ ReadCount(q) = Cardinality(T)
    BY LenProperties DEF ReadCount
  <1>2. ASSUME NEW n \in 0 .. Len(q), T = 1 .. n
        PROVE  ReadCount(q) = n
    <2>1. Cardinality(1 .. n) = IF 1 > n THEN 0 ELSE n - 1 + 1
      BY <1>1, FS_Interval
    <2>2. n \in Nat
      BY <1>1
    <2> HIDE DEF T
    <2>3. QED BY <1>1, <1>2, <2>1, <2>2
  <1>3. CASE E = {}
    <2>1. T = 1 .. Len(q)
      BY <1>1, <1>3
    <2>2. ReadCount(q) = Len(q)
      BY <1>1, <1>2, <2>1
    <2>3. QED BY <1>1, <2>2
  <1>4. CASE E # {}
    <2>1. E \in SUBSET Nat
      BY <1>1
    <2>2. PICK m \in E : \A n \in E : m <= n
      BY <1>4, <2>1, LeastExists
    <2>3. m \in 1 .. Len(q) /\ q[m].form = "EMPTY"
      BY <1>1, <2>2
    <2>4. m - 1 \in 0 .. Len(q) /\ m - 1 + 1 = m
      BY <1>1, <2>3
    <2>5. T = 1 .. m - 1
      <3>1. ASSUME NEW n \in T PROVE n \in 1 .. m - 1
        <4>1. n \in 1 .. Len(q) /\ ~(m \in 1 .. n)
          BY <1>1, <2>3
        <4>2. QED BY <1>1, <2>3, <4>1
      <3>2. ASSUME NEW n \in 1 .. m - 1 PROVE n \in T
        <4>1. n \in DOMAIN q
          BY <1>1, <2>3
        <4>2. \A k \in 1 .. n : k \in DOMAIN q /\ ~(m <= k)
          BY <1>1, <2>3
        <4>3. \A k \in 1 .. n : q[k].form # "EMPTY"
          BY <2>2, <4>2
        <4>4. QED BY <4>1, <4>3
      <3> HIDE DEF T
      <3>3. QED BY <3>1, <3>2
    <2>6. ReadCount(q) = m - 1
      BY <1>2, <2>4, <2>5
    <2>7. QED BY <2>3, <2>4, <2>6
  <1>5. QED BY <1>3, <1>4

\* One client of handle_clients: its timer is started, and its socket is read, if
\* it has not failed as far as the first empty datagram.
LEMMA MessageWrites ==
    ASSUME Registered, NEW i \in DOMAIN clients, handle_client_message(i)
    PROVE  /\ clients' \in Seq(Client) /\ SameClients(clients, clients')
           /\ \A j \in DOMAIN clients : j # i => clients'[j] = clients[j]
           /\ ~clients[i].failed =>
                 clients'[i].queue =
                     SubSeq(clients[i].queue, ReadCount(clients[i].queue) + 2,
                            Len(clients[i].queue))
  <1> DEFINE q == clients[i].queue
             n == ReadCount(q)
  <1>1. clients \in Seq(Client)
    BY DEF Registered, ServerTypeOK
  <1>2. clients[i] \in Client /\ q \in Seq(Datagram)
    BY <1>1, ClientsOfList
  <1>3. n \in Nat
    <2> HIDE DEF q
    <2>1. Len(q) \in Nat /\ n \in 0 .. Len(q)
      BY <1>2, LenProperties, ReadCountPrefix
    <2>2. QED BY <2>1
  <1>4. PICK m \in Nat : Reads(i, m) /\ (~clients[i].failed => m = n + 1)
    <2> HIDE DEF n
    <2>1. CASE clients[i].failed
      BY <1>3, <2>1 DEF handle_client_message, n
    <2>2. CASE ~clients[i].failed
      <3>1. Reads(i, n + 1)
        BY <2>2 DEF handle_client_message, n
      <3>2. QED BY <1>3, <2>2, <3>1
    <2>3. QED BY <2>1, <2>2
  <1> HIDE DEF n
  <1> DEFINE queue == SubSeq(q, m + 1, Len(q))
             c == [clients[i] EXCEPT !.timer = "armed", !.failed = FALSE, !.queue = queue]
  <1>5. clients' = [clients EXCEPT ![i] = c]
    BY <1>4 DEF Reads
  <1>6. queue \in Seq(Datagram)
    <2> HIDE DEF q
    <2>1. Len(q) \in Nat /\ \A k \in 1 .. Len(q) : q[k] \in Datagram
      BY <1>2, LenProperties, ElementOfSeq
    <2>2. \A k \in m + 1 .. Len(q) : k \in 1 .. Len(q)
      BY <2>1
    <2>3. QED BY <1>2, <2>1, <2>2, SubSeqProperties
  <1>7. m = n + 1 => queue = SubSeq(q, n + 2, Len(q))
    <2> HIDE DEF q
    <2>1. m = n + 1 => m + 1 = n + 2
      BY <1>3
    <2>2. QED BY <2>1
  <1> HIDE DEF queue
  <1>8. c \in Client /\ SameClient(clients[i], c) /\ c.queue = queue
    <2>1. c.queue = queue
      BY <1>2 DEF Client
    <2>2. QED BY <1>2, <1>6, <2>1, ClientFields
  <1> HIDE DEF c
  <1>9. clients' \in Seq(Client) /\ SameClients(clients, clients')
    BY <1>1, <1>5, <1>8, ClientWrite
  <1>10. clients'[i].queue = queue
    BY <1>5, <1>8
  <1>11. \A j \in DOMAIN clients : j # i => clients'[j] = clients[j]
    BY <1>5
  <1>12. QED BY <1>4, <1>7, <1>9, <1>10, <1>11 DEF n

\* handle_clients goes from client to client.
LEMMA RegisteredClients ==
    ASSUME Registered, HandleClients
    PROVE  Registered' /\ SameClients(clients, clients')
  <1>1. /\ players_number' = players_number /\ UNCHANGED <<made, inbox, batch>>
        /\ loop_actions' \in SUBSET loop_actions
    BY DEF HandleClients, Done
  <1>2. clients' \in Seq(Client) /\ SameClients(clients, clients')
    <2>1. CASE UNCHANGED clients
      BY <2>1 DEF Registered, ServerTypeOK, SameClients, SameClient
    <2>2. CASE \E i \in Readable : handle_client_message(i)
      BY <2>2, MessageWrites DEF Readable
    <2>3. QED BY <2>1, <2>2 DEF HandleClients
  <1>3. PlayersNumberCounts' /\ players_number' \in 0 .. Capacity
    BY <1>1, <1>2, CountKept
  <1>4. QED BY <1>1, <1>2, <1>3 DEF Registered, ServerTypeOK

\* A deletion takes one client off the list, the first one with the session, and
\* one off the count if it had a name.
LEMMA DeletionCounts ==
    ASSUME Registered, NEW list \in Seq(Client), NEW k \in DOMAIN list,
           NamedOf(list) = NamedOf(clients), NamesOnce(list),
           clients' = RemoveAt(list, k),
           players_number' = players_number - (IF list[k].player_name # NoName THEN 1 ELSE 0)
    PROVE  /\ clients' \in Seq(Client)
           /\ PlayersNumberCounts' /\ players_number' \in 0 .. Capacity
           /\ \A j \in DOMAIN clients' :
                 \E m \in DOMAIN list : m # k /\ clients'[j] = list[m]
           /\ \A m \in DOMAIN list :
                 m # k => \E j \in DOMAIN clients' : clients'[j] = list[m]
  <1> DEFINE rest == RemoveAt(list, k)
             before == NamedOf(list)
             after == NamedOf(rest)
             left == before \ {k}
  <1>1. rest \in Seq(Client) /\ IsRemoval(rest, list, k)
    BY RemovedPositions
  <1> HIDE DEF rest
  <1>2. PICK from \in [DOMAIN rest -> DOMAIN list \ {k}] :
              /\ \A j \in DOMAIN rest : rest[j] = list[from[j]]
              /\ \A j, m \in DOMAIN rest : from[j] = from[m] => j = m
              /\ \A m \in DOMAIN list \ {k} : \E j \in DOMAIN rest : from[j] = m
    BY <1>1 DEF IsRemoval
  <1>3. IsFiniteSet(before) /\ IsFiniteSet(left) /\ Cardinality(before) \in Nat
    <2>1. before \in SUBSET DOMAIN list
      BY DEF NamedOf
    <2>2. IsFiniteSet(before)
      BY <2>1, ClientsOfList, FS_Subset
    <2>3. QED BY <2>2, FS_CardinalityType, FS_RemoveElement
  <1>4. Cardinality(left) = IF list[k].player_name # NoName THEN Cardinality(before) - 1
                                                             ELSE Cardinality(before)
    <2>1. Cardinality(left)
             = IF k \in before THEN Cardinality(before) - 1 ELSE Cardinality(before)
      <3> HIDE DEF before
      <3>1. QED BY <1>3, FS_RemoveElement
    <2>2. k \in before <=> list[k].player_name # NoName
      BY DEF NamedOf
    <2>3. QED BY <2>1, <2>2
  <1>5. IsFiniteSet(after) /\ Cardinality(after) = Cardinality(left)
    <2> DEFINE f == [j \in after |-> from[j]]
    <2>1. \A j \in after : from[j] \in left
      BY <1>2 DEF NamedOf
    <2>2. \A j, m \in after : f[j] = f[m] => j = m
      BY <1>2 DEF NamedOf
    <2>3. \A m \in left : \E j \in after : f[j] = m
      <3> SUFFICES ASSUME NEW m \in left PROVE \E j \in after : f[j] = m
        OBVIOUS
      <3>1. m \in DOMAIN list \ {k} /\ list[m].player_name # NoName
        BY DEF NamedOf
      <3>2. PICK j \in DOMAIN rest : from[j] = m
        BY <1>2, <3>1
      <3>3. j \in after
        BY <1>2, <3>1, <3>2 DEF NamedOf
      <3>4. QED BY <3>2, <3>3
    <2> HIDE DEF after, left
    <2>4. f \in [after -> left]
      BY <2>1
    <2>5. f \in Injection(after, left)
      BY <2>2, <2>4 DEF Injection, IsInjective
    <2>6. f \in Surjection(after, left)
      BY <2>3, <2>4 DEF Surjection
    <2> HIDE DEF f
    <2>7. IsFiniteSet(after) /\ (Cardinality(after) = Cardinality(left) <=> f \in Surjection(after, left))
      BY <1>3, <2>5, FS_Injection
    <2>8. QED BY <2>6, <2>7
  <1>6. players_number = Cardinality(before) /\ players_number \in 0 .. Capacity
    BY CountsByList DEF Registered, ServerTypeOK
  <1>7. Cardinality(after) \in Nat
    BY <1>5, FS_CardinalityType
  <1>8. clients' = rest
    BY DEF rest
  <1>9. players_number' = Cardinality(after)
    <2> HIDE DEF before, after, left
    <2>1. QED BY <1>3, <1>4, <1>5, <1>6
  <1>10. players_number' \in 0 .. Capacity
    <2>1. players_number' = players_number \/ players_number' = players_number - 1
      BY <1>6
    <2>2. Capacity \in Nat /\ players_number' \in Nat
      BY <1>7, <1>9, ServerFacts
    <2>3. QED BY <1>6, <2>1, <2>2
  <1>11. NamesOnce(rest)
    <2> SUFFICES ASSUME NEW j \in DOMAIN rest, NEW m \in DOMAIN rest,
                        rest[j].player_name # NoName,
                        rest[j].player_name = rest[m].player_name
                 PROVE  j = m
      BY DEF NamesOnce
    <2>1. /\ from[j] \in DOMAIN list /\ from[m] \in DOMAIN list
          /\ list[from[j]].player_name # NoName
          /\ list[from[j]].player_name = list[from[m]].player_name
      BY <1>2
    <2>2. from[j] = from[m]
      BY <2>1 DEF NamesOnce
    <2>3. QED BY <1>2, <2>2
  <1>12. PlayersNumberCounts'
    BY <1>8, <1>9, <1>11 DEF PlayersNumberCounts, Named, NamedOf, NamesOnce
  <1>13. /\ \A j \in DOMAIN rest : \E m \in DOMAIN list : m # k /\ rest[j] = list[m]
         /\ \A m \in DOMAIN list : m # k => \E j \in DOMAIN rest : rest[j] = list[m]
    BY <1>2
  <1>14. QED BY <1>1, <1>8, <1>10, <1>12, <1>13

\* The client at position i, which has timed out, is no longer watched, the one
\* at position k, of the same session, is deleted, the others stay.
Drops(i, k) ==
    /\ clients[k].session_id = clients[i].session_id
    /\ \A j \in DOMAIN clients' :
          \E m \in DOMAIN clients :
             /\ m # k /\ clients'[j].node = clients[m].node
             /\ clients'[j].session_id = clients[m].session_id
             /\ clients'[j].player_name = clients[m].player_name
             /\ m # i => clients'[j] = clients[m]
    /\ \A m \in DOMAIN clients :
          m # k => \E j \in DOMAIN clients' :
             /\ clients'[j].node = clients[m].node
             /\ clients'[j].session_id = clients[m].session_id
             /\ clients'[j].player_name = clients[m].player_name

\* One client of the batch, at position i, times out: it is no longer watched,
\* and the first client with its session is deleted.
LEMMA TimeoutWrites ==
    ASSUME Registered, NEW i \in DOMAIN clients,
           clients_delete_client([clients EXCEPT ![i].watched = FALSE],
                                 clients[i].session_id)
    PROVE  /\ clients' \in Seq(Client)
           /\ PlayersNumberCounts' /\ players_number' \in 0 .. Capacity
           /\ \E k \in DOMAIN clients : Drops(i, k)
  <1> DEFINE c == [clients[i] EXCEPT !.watched = FALSE]
             list == [clients EXCEPT ![i] = c]
             sid == clients[i].session_id
  <1>1. clients \in Seq(Client) /\ clients[i] \in Client
    BY ClientsOfList DEF Registered, ServerTypeOK
  <1>2. /\ c \in Client /\ c.node = clients[i].node /\ c.session_id = sid
        /\ c.player_name = clients[i].player_name
    BY <1>1 DEF Client
  <1>3. clients_delete_client(list, sid)
    OBVIOUS
  <1> HIDE DEF c
  <1>4. /\ list \in Seq(Client) /\ DOMAIN list = DOMAIN clients
        /\ \A m \in DOMAIN clients : /\ list[m].node = clients[m].node
                                     /\ list[m].session_id = clients[m].session_id
                                     /\ list[m].player_name = clients[m].player_name
                                     /\ m # i => list[m] = clients[m]
    BY <1>1, <1>2, ClientsOfList, ExceptSeq
  <1> HIDE DEF list, sid
  <1>5. PICK k \in DOMAIN list :
           /\ list[k].session_id = sid /\ clients' = RemoveAt(list, k)
           /\ players_number' = players_number
                  - (IF list[k].player_name # NoName THEN 1 ELSE 0)
    BY <1>3 DEF clients_delete_client, IsFound, list_remove
  <1>6. NamedOf(list) = NamedOf(clients) /\ NamesOnce(list)
    <2>1. NamesOnce(clients)
      BY CountsByList DEF Registered
    <2>2. QED BY <1>4, <2>1 DEF NamedOf, NamesOnce
  <1>7. /\ clients' \in Seq(Client)
        /\ PlayersNumberCounts' /\ players_number' \in 0 .. Capacity
        /\ \A j \in DOMAIN clients' :
              \E m \in DOMAIN list : m # k /\ clients'[j] = list[m]
        /\ \A m \in DOMAIN list :
              m # k => \E j \in DOMAIN clients' : clients'[j] = list[m]
    BY <1>4, <1>5, <1>6, DeletionCounts
  <1>8. k \in DOMAIN clients /\ clients[k].session_id = clients[i].session_id
    BY <1>4, <1>5 DEF sid
  <1>9. ASSUME NEW j \in DOMAIN clients'
        PROVE  \E m \in DOMAIN clients :
                  /\ m # k /\ clients'[j].node = clients[m].node
                  /\ clients'[j].session_id = clients[m].session_id
                  /\ clients'[j].player_name = clients[m].player_name
                  /\ m # i => clients'[j] = clients[m]
    <2>1. PICK m \in DOMAIN list : m # k /\ clients'[j] = list[m]
      BY <1>7
    <2>2. /\ m \in DOMAIN clients /\ clients'[j].node = clients[m].node
          /\ clients'[j].session_id = clients[m].session_id
          /\ clients'[j].player_name = clients[m].player_name
          /\ m # i => clients'[j] = clients[m]
      BY <1>4, <2>1
    <2>3. QED BY <2>1, <2>2
  <1>10. ASSUME NEW m \in DOMAIN clients, m # k
         PROVE  \E j \in DOMAIN clients' :
                    /\ clients'[j].node = clients[m].node
                    /\ clients'[j].session_id = clients[m].session_id
                    /\ clients'[j].player_name = clients[m].player_name
    BY <1>4, <1>7, <1>10
  <1>11. QED BY <1>7, <1>8, <1>9, <1>10 DEF Drops

\* handle_timeouts drops a client.
LEMMA RegisteredTimeout ==
    ASSUME Registered, Timeout
    PROVE  Registered'
  <1>1. /\ batch # <<>> /\ batch' = Tail(batch)
        /\ UNCHANGED <<made, inbox, loop_actions>>
    BY DEF Timeout
  <1>2. PICK i \in DOMAIN clients :
           clients_delete_client([clients EXCEPT ![i].watched = FALSE],
                                 clients[i].session_id)
    BY DEF Timeout
  <1>3. /\ clients' \in Seq(Client)
        /\ PlayersNumberCounts' /\ players_number' \in 0 .. Capacity
    BY <1>2, TimeoutWrites
  <1>4. batch' \in Seq(1 .. MaxClients)
    BY <1>1, PopProperties DEF Registered, ServerTypeOK
  <1>5. QED BY <1>1, <1>3, <1>4 DEF Registered, ServerTypeOK

\* What comes early is datagrams.
LEMMA EarlyDatagrams ==
    ASSUME NEW queue \in EarlyQueues
    PROVE  queue \in Seq(Datagram)
  <1>1. <<>> \in Seq(Datagram)
    OBVIOUS
  <1>2. ASSUME NEW e \in Datagram PROVE <<e>> \in Seq(Datagram)
    OBVIOUS
  <1>3. QED BY <1>1, <1>2 DEF EarlyQueues

\* A new client is put behind the others, and counted if it has a name.
LEMMA ConnectWrites ==
    ASSUME Registered, NEW d \in Datagram, made < MaxClients,
           ~IsNameTaken(d.player_name), ~IsFull(d.player_name), Connect(d)
    PROVE  /\ clients' \in Seq(Client)
           /\ PlayersNumberCounts' /\ players_number' \in 0 .. Capacity
           /\ made' = made + 1 /\ made' \in 0 .. MaxClients
           /\ DOMAIN clients = 1 .. Len(clients) /\ Len(clients) \in Nat
           /\ DOMAIN clients' = 1 .. Len(clients) + 1
           /\ \A i \in DOMAIN clients : clients'[i] = clients[i]
           /\ clients'[Len(clients) + 1].node = made + 1
           /\ clients'[Len(clients) + 1].session_id = d.session_id
           /\ clients'[Len(clients) + 1].player_name = d.player_name
           /\ clients'[Len(clients) + 1].watched = TRUE
  <1> PICK queue \in EarlyQueues : clients' = list_add(clients, NewClient(d, queue))
    BY DEF Connect
  <1> DEFINE c == NewClient(d, queue)
             n == Len(clients)
             before == NamedOf(clients)
  <1>1. /\ clients \in Seq(Client) /\ made \in 0 .. MaxClients
        /\ players_number \in 0 .. Capacity
        /\ players_number = Cardinality(NamedOf(clients)) /\ NamesOnce(clients)
    BY CountsByList DEF Registered, ServerTypeOK
  <1>2. /\ made' = made + 1 /\ clients' = Append(clients, c)
        /\ players_number' = players_number + (IF d.player_name # NoName THEN 1 ELSE 0)
    BY DEF Connect, list_add
  <1>3. c \in Client /\ made + 1 \in 0 .. MaxClients
    <2>1. made + 1 \in 1 .. MaxClients
      BY <1>1, ServerFacts
    <2>2. d \in DatagramType
      BY ServerAssumption
    <2>3. /\ d.session_id \in Session /\ d.player_name \in Name \cup {NoName}
          /\ d.addr \in Addr
      BY <2>2 DEF DatagramType
    <2>4. c \in Client
      BY <2>1, <2>3, EarlyDatagrams DEF Client, NewClient
    <2>5. QED BY <1>1, <2>1, <2>4
  <1>4. /\ c.node = made + 1 /\ c.session_id = d.session_id
        /\ c.player_name = d.player_name /\ c.watched = TRUE
    BY DEF NewClient
  <1> HIDE DEF c
  <1>5. /\ n \in Nat /\ DOMAIN clients = 1 .. n
        /\ clients' \in Seq(Client) /\ DOMAIN clients' = 1 .. n + 1
        /\ \A i \in 1 .. n : clients'[i] = clients[i]
        /\ clients'[n + 1] = c
    BY <1>1, <1>2, <1>3, PushProperties
  <1> HIDE DEF n
  <1>6. n + 1 \notin before /\ IsFiniteSet(before) /\ Cardinality(before) \in Nat
    <2>1. before \in SUBSET DOMAIN clients
      BY DEF NamedOf
    <2>2. IsFiniteSet(before)
      BY <1>1, <2>1, ClientsOfList, FS_Subset
    <2>3. n + 1 \notin 1 .. n
      BY <1>5
    <2>4. QED BY <1>5, <2>1, <2>2, <2>3, FS_CardinalityType
  <1>7. \A i \in DOMAIN clients' : i \in DOMAIN clients \/ i = n + 1
    BY <1>5
  <1>8. players_number' = Cardinality(NamedOf(clients')) /\ players_number' \in 0 .. Capacity
    <2>1. CASE d.player_name = NoName
      <3>1. NamedOf(clients') = before
        BY <1>4, <1>5, <1>6, <1>7, <2>1 DEF NamedOf
      <3>2. QED BY <1>1, <1>2, <2>1, <3>1
    <2>2. CASE d.player_name # NoName
      <3>1. NamedOf(clients') = before \cup {n + 1}
        BY <1>4, <1>5, <1>7, <2>2 DEF NamedOf
      <3>2. Cardinality(before \cup {n + 1}) = Cardinality(before) + 1
        <4> HIDE DEF before
        <4>1. QED BY <1>6, FS_AddElement
      <3>3. players_number' = Cardinality(before) + 1
        BY <1>1, <1>2, <2>2
      <3>4. players_number # Capacity
        BY <2>2 DEF IsFull
      <3>5. players_number + 1 \in 0 .. Capacity
        BY <1>1, <3>4, ServerFacts
      <3>6. QED BY <1>1, <3>1, <3>2, <3>3, <3>5
    <2>3. QED BY <2>1, <2>2
  <1>9. NamesOnce(clients')
    <2> SUFFICES ASSUME NEW i \in DOMAIN clients', NEW j \in DOMAIN clients',
                        clients'[i].player_name # NoName,
                        clients'[i].player_name = clients'[j].player_name
                 PROVE  i = j
      BY DEF NamesOnce
    <2>1. \A m \in DOMAIN clients :
             d.player_name # NoName => clients[m].player_name # d.player_name
      BY DEF IsNameTaken
    <2>2. QED BY <1>1, <1>4, <1>5, <1>7, <2>1 DEF NamesOnce
  <1>10. PlayersNumberCounts'
    BY <1>8, <1>9 DEF PlayersNumberCounts, Named, NamedOf, NamesOnce
  <1>11. QED BY <1>2, <1>3, <1>4, <1>5, <1>8, <1>10 DEF n

\* What handle_new_client has in hand.
LEMMA FirstOfInbox ==
    ASSUME Registered, handle_new_client
    PROVE  /\ Head(inbox) \in Datagram /\ made < MaxClients
           /\ inbox' \in Seq(Datagram) /\ Len(inbox') = Len(inbox) - 1
           /\ Len(inbox) \in Nat /\ "NEW_CLIENT" \notin loop_actions'
           /\ \/ /\ ~IsNameTaken(Head(inbox).player_name) /\ ~IsFull(Head(inbox).player_name)
                 /\ Connect(Head(inbox)) /\ Head(inbox).form = "VALID"
              \/ UNCHANGED <<vars, clients, players_number, made>>
           /\ loop_actions' \in SUBSET loop_actions /\ batch' = batch
  <1>1. "NEW_CLIENT" \in loop_actions
    BY DEF handle_new_client, IsNext
  <1>2. /\ inbox \in Seq(Datagram) /\ inbox # <<>> /\ made \in Nat
        /\ made + Len(inbox) <= MaxClients
    BY <1>1, ServerFacts DEF Registered, ServerTypeOK
  <1>3. /\ Len(inbox) \in Nat /\ Len(inbox) > 0 /\ Head(inbox) \in Datagram
        /\ Tail(inbox) \in Seq(Datagram) /\ Len(Tail(inbox)) = Len(inbox) - 1
    BY <1>2, PopProperties
  <1>4. made < MaxClients
    BY <1>2, <1>3, ServerFacts
  <1>5. QED BY <1>3, <1>4 DEF handle_new_client, Done

\* handle_new_client takes a datagram, and may add a client.
LEMMA RegisteredNewClient ==
    ASSUME Registered, handle_new_client
    PROVE  Registered'
  <1>1. /\ Head(inbox) \in Datagram /\ made < MaxClients
        /\ inbox' \in Seq(Datagram) /\ Len(inbox') = Len(inbox) - 1
        /\ Len(inbox) \in Nat /\ "NEW_CLIENT" \notin loop_actions'
        /\ loop_actions' \in SUBSET loop_actions /\ batch' = batch
    BY FirstOfInbox
  <1>2. /\ made \in 0 .. MaxClients /\ made + Len(inbox) <= MaxClients
        /\ clients \in Seq(Client)
    BY DEF Registered, ServerTypeOK
  <1>3. CASE /\ ~IsNameTaken(Head(inbox).player_name) /\ ~IsFull(Head(inbox).player_name)
             /\ Connect(Head(inbox))
    <2>1. /\ clients' \in Seq(Client)
          /\ PlayersNumberCounts' /\ players_number' \in 0 .. Capacity
          /\ made' = made + 1 /\ made' \in 0 .. MaxClients
      BY <1>1, <1>3, ConnectWrites
    <2>2. made' + Len(inbox') <= MaxClients
      BY <1>1, <1>2, <2>1, ServerFacts
    <2>3. QED BY <1>1, <2>1, <2>2 DEF Registered, ServerTypeOK
  <1>4. CASE UNCHANGED <<vars, clients, players_number, made>>
    <2>1. SameClients(clients, clients') /\ players_number' = players_number
      BY <1>4 DEF SameClients, SameClient
    <2>2. PlayersNumberCounts' /\ players_number' \in 0 .. Capacity
      BY <2>1, CountKept
    <2>3. made' + Len(inbox') <= MaxClients
      BY <1>1, <1>2, <1>4, ServerFacts
    <2>4. QED BY <1>1, <1>2, <1>4, <2>2, <2>3 DEF Registered, ServerTypeOK
  <1>5. QED BY <1>3, <1>4, FirstOfInbox

\* Nothing changes if nothing happens.
LEMMA RegisteredStutter ==
    ASSUME Registered, UNCHANGED allVars
    PROVE  Registered'
  <1>1. UNCHANGED serverVars
    BY DEF allVars
  <1>2. QED
    BY <1>1 DEF serverVars, Registered, ServerTypeOK, PlayersNumberCounts, Named

\* Every step of the server and of the world around it preserves the invariant.
LEMMA RegisteredNext == Registered /\ [ServerNext]_allVars => Registered'
  <1> SUFFICES ASSUME Registered, [ServerNext]_allVars PROVE Registered'
    OBVIOUS
  <1>1. CASE \E d \in Datagram : Arrive(d)
    BY <1>1, RegisteredArrive
  <1>2. CASE Refuse \/ Expire
    BY <1>2, RegisteredTrouble
  <1>3. CASE Wait \/ HandleRound \/ TimeoutBatch
    BY <1>3, RegisteredLoop
  <1>4. CASE Timeout
    BY <1>4, RegisteredTimeout
  <1>5. CASE handle_new_client
    BY <1>5, RegisteredNewClient
  <1>6. CASE HandleClients
    BY <1>6, RegisteredClients
  <1>7. CASE UNCHANGED allVars
    BY <1>7, RegisteredStutter
  <1>8. QED BY <1>1, <1>2, <1>3, <1>4, <1>5, <1>6, <1>7 DEF ServerNext, Loop

\* Types and count together: the count bounds players_number from below.
THEOREM RegisteredInvariant == ServerSpec => []Registered
  <1>1. QED BY RegisteredInit, RegisteredNext, PTL DEF ServerSpec

\* Every variable of the server keeps its type: never more than Capacity
\* players, and no handler finds the inbox empty that epoll has announced.
THEOREM ServerTypeCorrect == ServerSpec => []ServerTypeOK
  <1>1. Registered => ServerTypeOK
    BY DEF Registered
  <1>2. QED BY <1>1, RegisteredInvariant, PTL

\* players_number counts the clients with a name and their names differ,
\* whichever clients connect, are refused and time out.
THEOREM PlayersNumberCountsCorrect == ServerSpec => []PlayersNumberCounts
  <1>1. Registered => PlayersNumberCounts
    BY DEF Registered
  <1>2. QED BY <1>1, RegisteredInvariant, PTL

-----------------------------------------------------------------------------
(* The server plays the game. *)

\* The direction that the socket of client i asks for: that of the last message,
\* or of a buffer of zeros.
Told(i, turn) ==
    LET q == clients[i].queue
        n == ReadCount(q)
    IN  /\ ~clients[i].failed
        /\ \/ n \in DOMAIN q /\ IsHeard(q[n], clients[i]) /\ turn = q[n].turn_direction
           \/ n = 0 /\ clients[i].session_id = 0 /\ turn = 0

\* A step of handle_clients, and the direction it gives to the game, if any.
LEMMA DataStep ==
    ASSUME Registered, NEW i \in Readable, handle_client_message(i)
    PROVE  /\ i \in DOMAIN clients
           /\ \/ UNCHANGED vars
              \/ \E turn \in Turn :
                    /\ Told(i, turn) /\ clients[i].session_id \in Session
                    /\ game_set_turn_direction(clients[i].session_id, turn)
  <1> DEFINE q == clients[i].queue
             n == ReadCount(q)
  <1>1. i \in DOMAIN clients /\ clients \in Seq(Client)
    BY DEF Readable, Registered, ServerTypeOK
  <1>2. q \in Seq(Datagram) /\ clients[i].session_id \in Session
    BY <1>1, ClientsOfList
  <1> HIDE DEF q
  <1>3. /\ Len(q) \in Nat /\ DOMAIN q = 1 .. Len(q)
        /\ \A k \in DOMAIN q : q[k] \in Datagram
    BY <1>2, LenProperties, ElementOfSeq
  <1>4. n \in 0 .. Len(q)
    BY <1>2, ReadCountPrefix
  <1>5. CASE UNCHANGED vars
    BY <1>1, <1>5
  <1>6. CASE /\ ~clients[i].failed /\ n > 0 /\ IsHeard(q[n], clients[i])
             /\ game_set_turn_direction(clients[i].session_id, q[n].turn_direction)
    <2> HIDE DEF n
    <2>1. n \in DOMAIN q
      BY <1>3, <1>4, <1>6
    <2>2. q[n].turn_direction \in Turn
      BY <1>3, <2>1, ServerFacts
    <2>3. Told(i, q[n].turn_direction)
      BY <1>6, <2>1 DEF Told, q, n
    <2>4. QED BY <1>1, <1>2, <1>6, <2>2, <2>3
  <1>7. CASE /\ ~clients[i].failed /\ n = 0 /\ clients[i].session_id = 0
             /\ game_set_turn_direction(0, 0)
    <2> HIDE DEF n
    <2>1. Told(i, 0) /\ 0 \in Turn
      BY <1>7, GameAssumption DEF Told, q, n
    <2>2. QED BY <1>1, <1>2, <1>7, <2>1
  <1>8. \/ UNCHANGED vars
        \/ ~clients[i].failed /\ Acts(clients[i], n)
    BY DEF handle_client_message, n, q
  <1>9. QED BY <1>5, <1>6, <1>7, <1>8 DEF Acts, q

\* What a step of the server does to the game is a step of the game, or nothing.
LEMMA StepIsGameStep == Registered /\ [ServerNext]_allVars => [Next]_vars
  <1> SUFFICES ASSUME Registered, [ServerNext]_allVars, ~UNCHANGED vars PROVE Next
    OBVIOUS
  <1>1. CASE Timeout
    <2>1. PICK i \in DOMAIN clients : game_remove_player(clients[i].session_id)
      BY <1>1 DEF Timeout
    <2>2. clients[i].session_id \in Session
      BY ClientsOfList DEF Registered, ServerTypeOK
    <2>3. QED BY <2>1, <2>2 DEF Next
  <1>2. CASE handle_new_client
    <2>1. Head(inbox) \in Datagram /\ Connect(Head(inbox))
      BY <1>2, FirstOfInbox
    <2> DEFINE entrant == <<Head(inbox).session_id, Head(inbox).player_name>>
    <2>2. entrant \in Entrants
      BY <2>1, ServerFacts
    <2>3. game_add_player(entrant[1], entrant[2])
      BY <2>1 DEF Connect
    <2> HIDE DEF entrant
    <2>4. QED BY <2>2, <2>3 DEF Next
  <1>3. CASE HandleClients
    <2>1. PICK i \in Readable : handle_client_message(i)
      BY <1>3 DEF HandleClients
    <2>2. PICK turn \in Turn :
             /\ clients[i].session_id \in Session
             /\ game_set_turn_direction(clients[i].session_id, turn)
      BY <2>1, DataStep
    <2>3. QED BY <2>2 DEF Next
  <1>4. CASE HandleRound
    BY <1>4 DEF HandleRound, Next
  <1>5. CASE (\E d \in Datagram : Arrive(d)) \/ Refuse \/ Expire \/ Wait \/ TimeoutBatch
             \/ UNCHANGED allVars
    BY <1>5 DEF Arrive, Refuse, Expire, Wait, TimeoutBatch, allVars
  <1>6. QED BY <1>1, <1>2, <1>3, <1>4, <1>5 DEF ServerNext, Loop

\* The loop of the server, its clients and its timers never do anything to the
\* game that module Game does not say: all theorems about Spec hold of the server.
THEOREM GameIsPlayedCorrect == ServerSpec => GameIsPlayed
  <1>1. ServerInit => Init
    BY DEF ServerInit
  <1>2. QED
    BY <1>1, StepIsGameStep, RegisteredInvariant, PTL DEF ServerSpec, Spec, GameIsPlayed

-----------------------------------------------------------------------------
(* The second invariant: who is in the game has a client. *)

\* A player that waits, or plays and has not left.
Member(sid, name) ==
    \/ \E i \in DOMAIN waiting :
           waiting[i].session_id = sid /\ waiting[i].player_name = name
    \/ \E i \in Staying(players) :
           players[i].session_id = sid /\ players[i].player_name = name

Represented(sid, name) ==
    \E i \in DOMAIN clients :
        clients[i].session_id = sid /\ clients[i].player_name = name

\* A member has a name.
LEMMA MembersAreNamed ==
    ASSUME Counters, NEW sid, NEW name, Member(sid, name)
    PROVE  name \in Name
  <1>1. players \in Seq(Player) /\ waiting \in Seq(Player)
    BY DEF Counters, TypeOK
  <1>2. /\ \A i \in DOMAIN waiting : waiting[i].player_name \in Name
        /\ \A i \in DOMAIN players : players[i].player_name \in Name
    BY <1>1, PositionsFinite DEF Player
  <1>3. QED BY <1>2 DEF Member, Staying

\* A new game has no players but those that waited.
LEMMA StartAddsNobody ==
    ASSUME Counters, game_tick_waiting, NEW sid, NEW name, Member(sid, name)'
    PROVE  Member(sid, name)
  <1>1. waiting' = <<>> /\ DOMAIN players' = DOMAIN waiting
    BY StartRoster
  <1>2. PICK o \in [DOMAIN waiting -> DOMAIN waiting] :
           \A k \in DOMAIN waiting : SameIdentity(waiting[o[k]], players'[k])
    BY StartRoster
  <1>3. PICK k \in DOMAIN waiting :
           players'[k].session_id = sid /\ players'[k].player_name = name
    BY <1>1 DEF Member, Staying
  <1>4. waiting[o[k]].session_id = sid /\ waiting[o[k]].player_name = name
    BY <1>2, <1>3 DEF SameIdentity
  <1>5. QED BY <1>4 DEF Member

\* Nor does the end of a game bring back who has left it.
LEMMA TickAddsNobody ==
    ASSUME Counters, game_tick_in_progress, NEW sid, NEW name, Member(sid, name)'
    PROVE  Member(sid, name)
  <1>1. players \in Seq(Player) /\ waiting \in Seq(Player)
    BY DEF Counters, TypeOK
  <1>2. PICK to \in Moves :
              \/ /\ in_progress' = in_progress
                 /\ players' = Moved(to) /\ waiting' = waiting
              \/ /\ ~in_progress' /\ players' = <<>>
                 /\ \E e \in Enumerations(Staying(Moved(to))) :
                        waiting' = Lobby(Moved(to), e)
    BY TickRoster
  <1>3. PICK list \in Seq(Player) :
           /\ list = Moved(to) /\ DOMAIN list = DOMAIN players
           /\ \A i \in DOMAIN players : SameIdentity(players[i], list[i])
           /\ \A i \in DOMAIN players : players[i].status \subseteq list[i].status
    BY <1>1, MovedProperties
  <1>4. \A i \in Staying(list) :
           /\ i \in Staying(players)
           /\ list[i].session_id = players[i].session_id
           /\ list[i].player_name = players[i].player_name
    BY <1>3 DEF Staying, SameIdentity
  <1>5. CASE players' = Moved(to) /\ waiting' = waiting
    BY <1>3, <1>4, <1>5 DEF Member
  <1>6. CASE /\ players' = <<>>
             /\ \E e \in Enumerations(Staying(Moved(to))) : waiting' = Lobby(Moved(to), e)
    <2>1. PICK e \in Enumerations(Staying(list)) : waiting' = Lobby(list, e)
      BY <1>3, <1>6
    <2>2. /\ DOMAIN waiting' = 1 .. Len(waiting) + Len(e)
          /\ Len(waiting) \in Nat /\ Len(e) \in Nat /\ DOMAIN e = 1 .. Len(e)
          /\ \A i \in 1 .. Len(waiting) : SameIdentity(waiting[i], waiting'[i])
          /\ \A k \in 1 .. Len(e) : SameIdentity(list[e[k]], waiting'[Len(waiting) + k])
      BY <1>1, <2>1, RestartProperties
    <2>3. PICK i \in DOMAIN waiting' :
             waiting'[i].session_id = sid /\ waiting'[i].player_name = name
      BY <1>6 DEF Member, Staying
    <2>4. CASE i \in 1 .. Len(waiting)
      <3>1. waiting[i].session_id = sid /\ waiting[i].player_name = name
        BY <2>2, <2>3, <2>4 DEF SameIdentity
      <3>2. i \in DOMAIN waiting
        BY <1>1, <2>4, LenProperties
      <3>3. QED BY <3>1, <3>2 DEF Member
    <2>5. CASE i \notin 1 .. Len(waiting)
      <3> DEFINE k == i - Len(waiting)
      <3>1. k \in 1 .. Len(e) /\ Len(waiting) + k = i
        BY <2>2, <2>5
      <3> HIDE DEF k
      <3>2. list[e[k]].session_id = sid /\ list[e[k]].player_name = name
        BY <2>2, <2>3, <3>1 DEF SameIdentity
      <3>3. e[k] \in Staying(list)
        <4>1. e \in [1 .. Cardinality(Staying(list)) -> Staying(list)]
          BY <2>1 DEF Enumerations
        <4>2. QED BY <2>2, <3>1, <4>1
      <3>4. QED BY <1>4, <3>2, <3>3 DEF Member
    <2>6. QED BY <2>4, <2>5
  <1>7. QED BY <1>2, <1>5, <1>6

SameButTurns(a, b) ==
    /\ DOMAIN b = DOMAIN a
    /\ \A k \in DOMAIN a : SameIdentity(a[k], b[k]) /\ b[k].status = a[k].status

\* A player of a list turns.
LEMMA TurnOfOne ==
    ASSUME NEW a \in Seq(Player), NEW i \in DOMAIN a, NEW turn \in Turn, NEW b,
           b = [a EXCEPT ![i].turn_direction = turn]
    PROVE  SameButTurns(a, b)
  <1> DEFINE new == [a[i] EXCEPT !.turn_direction = turn]
  <1>1. SameIdentity(a[i], new) /\ new.status = a[i].status
    BY PositionsFinite, TurnWrite
  <1>2. b = [a EXCEPT ![i] = new]
    OBVIOUS
  <1> HIDE DEF new
  <1>3. QED BY <1>1, <1>2 DEF SameButTurns, SameIdentity

\* A change of direction changes no member.
LEMMA TurnAddsNobody ==
    ASSUME Counters, NEW other \in Session, NEW turn \in Turn,
           game_set_turn_direction(other, turn),
           NEW sid, NEW name, Member(sid, name)'
    PROVE  Member(sid, name)
  <1>1. players \in Seq(Player) /\ waiting \in Seq(Player)
    BY DEF Counters, TypeOK
  <1>2. CASE Steer(other, turn)
    <2>1. PICK i \in DOMAIN players : players' = [players EXCEPT ![i].turn_direction = turn]
      BY <1>2 DEF Steer
    <2>2. waiting' = waiting
      BY <1>2 DEF Steer
    <2>3. SameButTurns(players, players')
      BY <1>1, <2>1, TurnOfOne
    <2>4. QED BY <2>2, <2>3 DEF Member, Staying, SameButTurns, SameIdentity
  <1>3. CASE GetReady(other, turn)
    <2>1. PICK i \in DOMAIN waiting : waiting' = [waiting EXCEPT ![i].turn_direction = turn]
      BY <1>3 DEF GetReady
    <2>2. players' = players
      BY <1>3 DEF GetReady
    <2>3. SameButTurns(waiting, waiting')
      BY <1>1, <2>1, TurnOfOne
    <2>4. QED BY <2>2, <2>3 DEF Member, SameButTurns, SameIdentity
  <1>4. CASE UNCHANGED <<players, waiting>>
    BY <1>4 DEF Member
  <1>5. QED BY <1>2, <1>3, <1>4 DEF game_set_turn_direction

\* Who comes is the only new member.
LEMMA ComingAddsOne ==
    ASSUME Counters, NEW other \in Session, NEW given \in Name \cup {NoName},
           game_add_player(other, given),
           NEW sid, NEW name, Member(sid, name)'
    PROVE  Member(sid, name) \/ (sid = other /\ name = given)
  <1>1. waiting \in Seq(Player) /\ players' = players
    BY DEF Counters, TypeOK, game_add_player, add_observer, add_player
  <1>2. CASE waiting' = waiting
    BY <1>1, <1>2 DEF Member
  <1>3. CASE given # NoName /\ waiting' = Append(waiting, player_create(other, given))
    <2> DEFINE new == player_create(other, given)
    <2>1. new.session_id = other /\ new.player_name = given
      BY DEF player_create
    <2>2. waiting' = Append(waiting, new)
      BY <1>3
    <2> HIDE DEF new
    <2>3. /\ Len(waiting) \in Nat /\ DOMAIN waiting = 1 .. Len(waiting)
          /\ DOMAIN waiting' = 1 .. Len(waiting) + 1
          /\ \A i \in 1 .. Len(waiting) : waiting'[i] = waiting[i]
          /\ waiting'[Len(waiting) + 1] = new
      BY <1>1, <2>2, LenProperties
    <2>4. \A i \in DOMAIN waiting' : i \in DOMAIN waiting \/ i = Len(waiting) + 1
      BY <2>3
    <2>5. QED BY <1>1, <2>1, <2>3, <2>4 DEF Member
  <1>4. QED BY <1>2, <1>3 DEF game_add_player, add_observer, add_player, list_add

\* game_remove_player takes the entry of its session out of the game, unless
\* the session is one of an observer too.
LEMMA LeavingRemoves ==
    ASSUME Counters, Sessions, NEW other \in Session, game_remove_player(other),
           NEW sid, NEW name, Member(sid, name)'
    PROVE  Member(sid, name) /\ (sid # other \/ other \in observers)
  <1>1. players \in Seq(Player) /\ waiting \in Seq(Player)
    BY DEF Counters, TypeOK
  <1>2. CASE RemoveObserver(other)
    BY <1>2 DEF RemoveObserver, Member
  <1>3. CASE RemoveWaiting(other)
    <2>1. PICK i \in DOMAIN waiting :
             waiting[i].session_id = other /\ waiting' = RemoveAt(waiting, i)
      BY <1>3 DEF RemoveWaiting, list_remove, IsFound
    <2>2. \A j \in DOMAIN waiting' : \E k \in DOMAIN waiting : k # i /\ waiting'[j] = waiting[k]
      BY <1>1, <2>1, RemovedSessions
    <2>3. players' = players
      BY <1>3 DEF RemoveWaiting
    <2>4. /\ \A k \in DOMAIN waiting : k # i => waiting[k].session_id # other
          /\ \A k \in DOMAIN players : players[k].session_id # other
      BY <2>1 DEF Sessions, Unique, Disjoint
    <2>5. QED BY <2>2, <2>3, <2>4 DEF Member, Staying
  <1>4. CASE Disconnect(other)
    <2>1. PICK i \in DOMAIN players :
             /\ players[i].session_id = other /\ waiting' = waiting
             /\ ~Has(waiting, other)
             /\ players' = [players EXCEPT ![i].status = @ \cup {"DISCONNECTED"}]
      BY <1>4 DEF Disconnect, IsFound
    <2> DEFINE gone == [players[i] EXCEPT !.status = @ \cup {"DISCONNECTED"}]
    <2>2. "DISCONNECTED" \in gone.status
      BY <1>1, PositionsFinite, DisconnectWrite
    <2>3. players' = [players EXCEPT ![i] = gone]
      BY <2>1
    <2> HIDE DEF gone
    <2>4. /\ DOMAIN players' = DOMAIN players
          /\ \A k \in DOMAIN players : k # i => players'[k] = players[k]
          /\ "DISCONNECTED" \in players'[i].status
      BY <2>2, <2>3
    <2>5. \A k \in DOMAIN players : k # i => players[k].session_id # other
      BY <2>1 DEF Sessions, Unique
    <2>6. \A k \in DOMAIN waiting : waiting[k].session_id # other
      BY <2>1 DEF Has
    <2>7. QED BY <2>1, <2>4, <2>5, <2>6 DEF Member, Staying
  <1>5. CASE IsAbsent(other) /\ UNCHANGED lists
    BY <1>5 DEF IsAbsent, IsKnown, Has, lists, Member, Staying
  <1>6. QED BY <1>2, <1>3, <1>4, <1>5 DEF game_remove_player

\* No session is one of a player in one datagram and of an observer in another.
RolesDiffer ==
    \A e, f \in Entrants : e[1] = f[1] => (e[2] = NoName <=> f[2] = NoName)

\* Clients and observers come from datagrams.
Introduced ==
    /\ \A i \in DOMAIN clients :
          <<clients[i].session_id, clients[i].player_name>> \in Entrants
    /\ \A sid \in observers : <<sid, NoName>> \in Entrants

Attended ==
    /\ RolesDiffer /\ Introduced
    /\ \A sid \in Session : \A name \in Name :
          Member(sid, name) => Represented(sid, name)

\* The invariant, in the form in which the runs check it.
LEMMA AttendedIsNoGhost ==
    ASSUME Counters, Attended
    PROVE  NoGhostPlayers
  <1>1. players \in Seq(Player) /\ waiting \in Seq(Player)
    BY DEF Counters, TypeOK
  <1>2. /\ \A i \in DOMAIN waiting :
              waiting[i].session_id \in Session /\ waiting[i].player_name \in Name
        /\ \A i \in DOMAIN players :
              players[i].session_id \in Session /\ players[i].player_name \in Name
    BY <1>1, PositionsFinite DEF Player
  <1>3. ASSUME NEW i \in DOMAIN waiting PROVE HasClient(waiting[i])
    <2>1. Member(waiting[i].session_id, waiting[i].player_name)
      BY DEF Member
    <2>2. Represented(waiting[i].session_id, waiting[i].player_name)
      BY <1>2, <2>1 DEF Attended
    <2>3. QED BY <2>2 DEF Represented, HasClient
  <1>4. ASSUME NEW i \in Staying(players) PROVE HasClient(players[i])
    <2>1. Member(players[i].session_id, players[i].player_name) /\ i \in DOMAIN players
      BY DEF Member, Staying
    <2>2. Represented(players[i].session_id, players[i].player_name)
      BY <1>2, <2>1 DEF Attended
    <2>3. QED BY <2>2 DEF Represented, HasClient
  <1>5. QED BY <1>3, <1>4 DEF NoGhostPlayers

\* A step that leaves the clients who they are and makes nobody a member.
LEMMA AttendedKept ==
    ASSUME Attended, SameClients(clients, clients'), observers' \in SUBSET observers,
           \A sid \in Session : \A name \in Name : Member(sid, name)' => Member(sid, name)
    PROVE  Attended'
  <1>1. /\ DOMAIN clients' = DOMAIN clients
        /\ \A i \in DOMAIN clients :
              /\ clients'[i].session_id = clients[i].session_id
              /\ clients'[i].player_name = clients[i].player_name
    BY DEF SameClients, SameClient
  <1>2. Introduced'
    BY <1>1 DEF Attended, Introduced
  <1>3. ASSUME NEW sid \in Session, NEW name \in Name, Member(sid, name)'
        PROVE  Represented(sid, name)'
    <2>1. Represented(sid, name)
      BY <1>3 DEF Attended
    <2>2. QED BY <1>1, <2>1 DEF Represented
  <1>4. RolesDiffer'
    BY DEF Attended, RolesDiffer
  <1>5. QED BY <1>2, <1>3, <1>4 DEF Attended

\* A new client brings its player, and nobody loses a client.
LEMMA AttendedNewClient ==
    ASSUME Registered, Counters, Attended, handle_new_client
    PROVE  Attended'
  <1>1. CASE UNCHANGED <<vars, clients, players_number, made>>
    <2>1. SameClients(clients, clients')
      BY <1>1 DEF SameClients, SameClient
    <2>2. UNCHANGED <<players, waiting, observers>>
      BY <1>1 DEF vars, lists
    <2>3. \A sid \in Session : \A name \in Name : Member(sid, name)' => Member(sid, name)
      BY <2>2 DEF Member
    <2>4. QED BY <2>1, <2>2, <2>3, AttendedKept
  <1>2. CASE /\ ~IsNameTaken(Head(inbox).player_name) /\ ~IsFull(Head(inbox).player_name)
             /\ Connect(Head(inbox))
    <2> DEFINE d == Head(inbox)
    <2>1. d \in Datagram /\ made < MaxClients
      BY FirstOfInbox
    <2> HIDE DEF d
    <2>2. /\ ~IsNameTaken(d.player_name) /\ ~IsFull(d.player_name) /\ Connect(d)
      BY <1>2 DEF d
    <2>3. /\ DOMAIN clients = 1 .. Len(clients) /\ Len(clients) \in Nat
          /\ DOMAIN clients' = 1 .. Len(clients) + 1
          /\ \A i \in DOMAIN clients : clients'[i] = clients[i]
          /\ clients'[Len(clients) + 1].session_id = d.session_id
          /\ clients'[Len(clients) + 1].player_name = d.player_name
      BY <2>1, <2>2, ConnectWrites
    <2>4. /\ d.session_id \in Session /\ d.player_name \in Name \cup {NoName}
          /\ <<d.session_id, d.player_name>> \in Entrants
      BY <2>1, ServerFacts
    <2>5. game_add_player(d.session_id, d.player_name)
      BY <2>2 DEF Connect
    <2>6. /\ \A i \in DOMAIN clients' : i \in DOMAIN clients \/ i = Len(clients) + 1
          /\ \A i \in DOMAIN clients : i \in DOMAIN clients'
          /\ Len(clients) + 1 \in DOMAIN clients'
      BY <2>3
    <2>7. Introduced'
      <3>1. \A sid \in observers' :
               sid \in observers \/ (sid = d.session_id /\ d.player_name = NoName)
        BY <2>5 DEF game_add_player, add_observer, add_player, lists
      <3>2. QED BY <2>3, <2>4, <2>6, <3>1 DEF Attended, Introduced
    <2>8. ASSUME NEW sid \in Session, NEW name \in Name, Member(sid, name)'
          PROVE  Represented(sid, name)'
      <3>1. Member(sid, name) \/ (sid = d.session_id /\ name = d.player_name)
        BY <2>4, <2>5, <2>8, ComingAddsOne
      <3>2. CASE Member(sid, name)
        <4>1. Represented(sid, name)
          BY <3>2 DEF Attended
        <4>2. QED BY <2>3, <2>6, <4>1 DEF Represented
      <3>3. CASE sid = d.session_id /\ name = d.player_name
        BY <2>3, <2>6, <3>3 DEF Represented
      <3>4. QED BY <3>1, <3>2, <3>3
    <2>9. RolesDiffer'
      BY DEF Attended, RolesDiffer
    <2>10. QED BY <2>7, <2>8, <2>9 DEF Attended
  <1>3. QED BY <1>1, <1>2, FirstOfInbox

\* A session that times out takes its member with it, and of the clients only
\* one with its session.
LEMMA AttendedTimeout ==
    ASSUME Registered, Counters, Sessions, Attended, Timeout
    PROVE  Attended'
  <1>1. PICK i \in DOMAIN clients :
           /\ game_remove_player(clients[i].session_id)
           /\ clients_delete_client([clients EXCEPT ![i].watched = FALSE],
                                    clients[i].session_id)
    BY DEF Timeout
  <1> DEFINE other == clients[i].session_id
  <1>2. other \in Session
    BY ClientsOfList DEF Registered, ServerTypeOK
  <1>3. PICK k \in DOMAIN clients : Drops(i, k)
    BY <1>1, TimeoutWrites
  <1>4. game_remove_player(other) /\ clients[k].session_id = other
    BY <1>1, <1>3 DEF Drops
  <1> HIDE DEF other
  <1>5. Introduced'
    <2>1. observers' \in SUBSET observers
      BY <1>4 DEF game_remove_player, RemoveObserver, RemoveWaiting, Disconnect, lists
    <2>2. QED BY <1>3, <2>1 DEF Attended, Introduced, Drops
  <1>6. ASSUME NEW sid \in Session, NEW name \in Name, Member(sid, name)'
        PROVE  Represented(sid, name)'
    <2>1. Member(sid, name) /\ (sid # other \/ other \in observers)
      BY <1>2, <1>4, <1>6, LeavingRemoves
    <2>2. PICK m \in DOMAIN clients :
             clients[m].session_id = sid /\ clients[m].player_name = name
      BY <2>1 DEF Attended, Represented
    <2>3. sid # other
      <3> SUFFICES ASSUME sid = other PROVE FALSE
        OBVIOUS
      <3> DEFINE e == <<sid, name>>
                 f == <<sid, NoName>>
      <3>1. e \in Entrants /\ f \in Entrants
        BY <2>1, <2>2 DEF Attended, Introduced
      <3>2. e[1] = sid /\ f[1] = sid /\ e[2] = name /\ f[2] = NoName
        OBVIOUS
      <3> HIDE DEF e, f
      <3>3. name = NoName
        BY <3>1, <3>2 DEF Attended, RolesDiffer
      <3>4. QED BY <3>3, GameAssumption
    <2>4. m # k
      BY <1>4, <2>2, <2>3
    <2>5. QED BY <1>3, <2>2, <2>4 DEF Represented, Drops
  <1>7. RolesDiffer'
    BY DEF Attended, RolesDiffer
  <1>8. QED BY <1>5, <1>6, <1>7 DEF Attended

\* Every step of the server preserves the invariant.
LEMMA AttendedNext ==
    Registered /\ Counters /\ Sessions /\ Attended /\ [ServerNext]_allVars => Attended'
  <1> SUFFICES ASSUME Registered, Counters, Sessions, Attended, [ServerNext]_allVars
               PROVE  Attended'
    OBVIOUS
  <1>1. CASE Timeout
    BY <1>1, AttendedTimeout
  <1>2. CASE handle_new_client
    BY <1>2, AttendedNewClient
  <1>3. ASSUME SameClients(clients, clients'), UNCHANGED <<players, waiting, observers>>
        PROVE  Attended'
    <2>1. \A sid \in Session : \A name \in Name : Member(sid, name)' => Member(sid, name)
      BY <1>3 DEF Member
    <2>2. QED BY <1>3, <2>1, AttendedKept
  <1>4. CASE \E d \in Datagram : Arrive(d)
    <2>1. SameClients(clients, clients')
      BY <1>4, RegisteredArrive
    <2>2. QED BY <1>3, <1>4, <2>1 DEF Arrive, vars, lists
  <1>5. CASE Refuse \/ Expire
    <2>1. SameClients(clients, clients')
      BY <1>5, RegisteredTrouble
    <2>2. QED BY <1>3, <1>5, <2>1 DEF Refuse, Expire, vars, lists
  <1>6. CASE Wait \/ TimeoutBatch
    <2>1. SameClients(clients, clients')
      BY <1>6, RegisteredLoop
    <2>2. QED BY <1>3, <1>6, <2>1 DEF Wait, TimeoutBatch, vars, lists
  <1>7. CASE UNCHANGED allVars
    <2>1. UNCHANGED clients /\ UNCHANGED <<players, waiting, observers>>
      BY <1>7 DEF allVars, serverVars, vars, lists
    <2>2. SameClients(clients, clients')
      BY <2>1 DEF SameClients, SameClient
    <2>3. QED BY <1>3, <2>1, <2>2
  <1>8. CASE HandleRound
    <2>1. SameClients(clients, clients')
      BY <1>8, RegisteredLoop
    <2>2. CASE UNCHANGED vars
      BY <1>3, <2>1, <2>2 DEF vars, lists
    <2>3. CASE game_tick_waiting
      <3>1. observers' = observers
        BY <2>3 DEF game_tick_waiting
      <3>2. QED BY <2>1, <2>3, <3>1, StartAddsNobody, AttendedKept
    <2>4. CASE game_tick_in_progress
      <3>1. observers' = observers
        BY <2>4 DEF game_tick_in_progress
      <3>2. QED BY <2>1, <2>4, <3>1, TickAddsNobody, AttendedKept
    <2>5. QED BY <1>8, <2>2, <2>3, <2>4 DEF HandleRound, Round
  <1>9. CASE HandleClients
    <2>1. SameClients(clients, clients')
      BY <1>9, RegisteredClients
    <2>2. CASE UNCHANGED vars
      BY <1>3, <2>1, <2>2 DEF vars, lists
    <2>3. CASE \E i \in Readable : handle_client_message(i) /\ ~UNCHANGED vars
      <3>1. PICK i \in Readable : handle_client_message(i) /\ ~UNCHANGED vars
        BY <2>3
      <3>2. PICK sid \in Session : \E turn \in Turn : game_set_turn_direction(sid, turn)
        BY <3>1, DataStep
      <3>3. PICK turn \in Turn : game_set_turn_direction(sid, turn)
        BY <3>2
      <3>4. observers' = observers
        BY <3>3 DEF game_set_turn_direction, Steer, GetReady
      <3>5. \A s \in Session : \A name \in Name : Member(s, name)' => Member(s, name)
        BY <3>3, TurnAddsNobody
      <3>6. QED BY <2>1, <3>4, <3>5, AttendedKept
    <2>4. QED BY <1>9, <2>2, <2>3 DEF HandleClients
  <1>10. QED BY <1>1, <1>2, <1>4, <1>5, <1>6, <1>7, <1>8, <1>9 DEF ServerNext, Loop

\* Where no session is used by a player and an observer, whoever waits or plays
\* has a client, and clients and observers have come by datagrams.
THEOREM AttendedInvariant ==
    RolesDiffer /\ ServerSpec => []Counters /\ []Attended
  <1>1. ServerInit => Init
    BY DEF ServerInit
  <1>2. RolesDiffer /\ ServerInit => Attended
    BY DEF Attended, Introduced, Member, Staying, ServerInit, Init, game_create
  <1>3. Registered /\ [ServerNext]_allVars => [Next]_vars
    BY StepIsGameStep
  <1>4. QED
    BY <1>1, <1>2, <1>3, CountersInit, CountersNext, SessionsInit, SessionsNext,
       AttendedNext, RegisteredInvariant, PTL DEF ServerSpec

\* Under the same hypothesis, nobody waits or plays undisconnected without a
\* client: a lobby is never blocked by a ghost.
THEOREM NoGhostPlayersCorrect == RolesDiffer /\ ServerSpec => []NoGhostPlayers
  <1>1. Counters /\ Attended => NoGhostPlayers
    BY AttendedIsNoGhost
  <1>2. QED BY <1>1, AttendedInvariant, PTL

-----------------------------------------------------------------------------
(* The third invariant: the clients are told apart by their nodes. *)

NodesOnce(list) ==
    \A i, j \in DOMAIN list : list[i].node = list[j].node => i = j

BatchOnce == \A j, k \in DOMAIN batch : batch[j] = batch[k] => j = k

Distinct ==
    /\ NodesOnce(clients) /\ BatchOnce
    /\ \A i \in DOMAIN clients : clients[i].node <= made

\* No session has two clients.
NoTwins ==
    \A i, j \in DOMAIN clients : clients[i].session_id = clients[j].session_id => i = j

\* What a removal leaves of a list in which every node is on its own.
LEMMA NodesOnceRemoved ==
    ASSUME NEW list \in Seq(Client), NEW k \in DOMAIN list, NodesOnce(list)
    PROVE  NodesOnce(RemoveAt(list, k))
  <1> DEFINE rest == RemoveAt(list, k)
  <1>1. IsRemoval(rest, list, k)
    BY RemovedPositions
  <1> HIDE DEF rest
  <1>2. PICK from \in [DOMAIN rest -> DOMAIN list \ {k}] :
              /\ \A j \in DOMAIN rest : rest[j] = list[from[j]]
              /\ \A j, m \in DOMAIN rest : from[j] = from[m] => j = m
    BY <1>1 DEF IsRemoval
  <1>3. ASSUME NEW j \in DOMAIN rest, NEW m \in DOMAIN rest, rest[j].node = rest[m].node
        PROVE  j = m
    <2>1. /\ from[j] \in DOMAIN list /\ from[m] \in DOMAIN list
          /\ list[from[j]].node = list[from[m]].node
      BY <1>2, <1>3
    <2>2. from[j] = from[m]
      BY <2>1 DEF NodesOnce
    <2>3. QED BY <1>2, <2>2
  <1>4. NodesOnce(rest)
    BY <1>3 DEF NodesOnce
  <1>5. QED BY <1>4 DEF rest

\* A step that leaves the clients who they are, and the batch.
LEMMA DistinctKept ==
    ASSUME Distinct, SameClients(clients, clients'), UNCHANGED <<made, batch>>
    PROVE  Distinct'
  <1>1. /\ DOMAIN clients' = DOMAIN clients
        /\ \A i \in DOMAIN clients : clients'[i].node = clients[i].node
    BY DEF SameClients, SameClient
  <1>2. NodesOnce(clients')
    BY <1>1 DEF Distinct, NodesOnce
  <1>3. BatchOnce'
    BY DEF Distinct, BatchOnce
  <1>4. QED BY <1>1, <1>2, <1>3 DEF Distinct

\* What epoll_wait hands to handle_timeouts: watched clients, none of them twice.
LEMMA BatchWrites ==
    ASSUME Registered, Distinct, TimeoutBatch
    PROVE  /\ BatchOnce' /\ UNCHANGED <<clients, made>>
           /\ \A k \in DOMAIN batch' :
                 \E i \in DOMAIN clients : clients[i].node = batch'[k]
  <1>1. UNCHANGED <<clients, made>> /\ batch = <<>>
    BY DEF TimeoutBatch
  <1>2. CASE UNCHANGED batch
    <2>1. DOMAIN batch' = {}
      BY <1>1, <1>2
    <2>2. QED BY <1>1, <2>1 DEF BatchOnce
  <1>3. CASE \E S \in SUBSET Expired :
                \E order \in SetToSeqs(S) :
                    batch' = [k \in DOMAIN order |-> clients[order[k]].node]
    <2>1. PICK S \in SUBSET Expired : \E order \in SetToSeqs(S) :
             batch' = [k \in DOMAIN order |-> clients[order[k]].node]
      BY <1>3
    <2>2. PICK order \in SetToSeqs(S) :
             batch' = [k \in DOMAIN order |-> clients[order[k]].node]
      BY <2>1
    <2>3. S \in SUBSET DOMAIN clients
      BY <2>1 DEF Expired
    <2>4. /\ order \in [1 .. Cardinality(S) -> S]
          /\ \A i, j \in 1 .. Cardinality(S) : i # j => order[i] # order[j]
      BY <2>2 DEF SetToSeqs
    <2>5. /\ DOMAIN order = DOMAIN batch'
          /\ \A k \in DOMAIN batch' :
                order[k] \in DOMAIN clients /\ batch'[k] = clients[order[k]].node
          /\ \A i, j \in DOMAIN batch' : i # j => order[i] # order[j]
      BY <2>2, <2>3, <2>4
    <2>6. NodesOnce(clients)
      BY DEF Distinct
    <2>7. BatchOnce'
      BY <2>5, <2>6 DEF BatchOnce, NodesOnce
    <2>8. QED BY <1>1, <2>5, <2>7
  <1>4. QED BY <1>2, <1>3 DEF TimeoutBatch

\* The rest of a batch.
LEMMA BatchTail ==
    ASSUME Registered, Distinct, batch # <<>>, batch' = Tail(batch)
    PROVE  /\ BatchOnce'
           /\ \A k \in DOMAIN batch' :
                 /\ k + 1 \in DOMAIN batch /\ batch'[k] = batch[k + 1]
                 /\ batch'[k] # Head(batch)
  <1>1. batch \in Seq(1 .. MaxClients)
    BY DEF Registered, ServerTypeOK
  <1>2. /\ Len(batch) \in Nat /\ Len(batch) > 0 /\ DOMAIN batch = 1 .. Len(batch)
        /\ Head(batch) = batch[1] /\ batch' \in Seq(1 .. MaxClients)
        /\ Len(batch') = Len(batch) - 1
        /\ \A k \in 1 .. Len(batch) - 1 : batch'[k] = batch[k + 1]
    BY <1>1, PopProperties
  <1>3. DOMAIN batch' = 1 .. Len(batch) - 1
    BY <1>2, LenProperties
  <1>4. \A k \in DOMAIN batch' :
           k + 1 \in DOMAIN batch /\ k \in Nat /\ k + 1 # 1 /\ batch'[k] = batch[k + 1]
    BY <1>2, <1>3
  <1>5. 1 \in DOMAIN batch
    BY <1>2
  <1>6. BatchOnce
    BY DEF Distinct
  <1>7. \A k \in DOMAIN batch' : batch'[k] # Head(batch)
    BY <1>2, <1>4, <1>5, <1>6 DEF BatchOnce
  <1>8. ASSUME NEW j \in DOMAIN batch', NEW k \in DOMAIN batch', batch'[j] = batch'[k]
        PROVE  j = k
    <2>1. j + 1 = k + 1
      BY <1>4, <1>6, <1>8 DEF BatchOnce
    <2>2. QED BY <1>4, <2>1
  <1>9. BatchOnce'
    BY <1>8 DEF BatchOnce
  <1>10. QED BY <1>4, <1>7, <1>9

\* A client that times out leaves the others where they are.
LEMMA DistinctTimeout ==
    ASSUME Registered, Distinct, Timeout
    PROVE  Distinct'
  <1>1. /\ batch # <<>> /\ batch' = Tail(batch) /\ made' = made
        /\ clients \in Seq(Client)
    BY DEF Timeout, Registered, ServerTypeOK
  <1>2. PICK i \in DOMAIN clients :
           clients_delete_client([clients EXCEPT ![i].watched = FALSE],
                                 clients[i].session_id)
    BY DEF Timeout
  <1> DEFINE c == [clients[i] EXCEPT !.watched = FALSE]
             list == [clients EXCEPT ![i] = c]
             sid == clients[i].session_id
  <1>3. clients_delete_client(list, sid)
    BY <1>2
  <1>4. clients[i] \in Client
    BY <1>1, ClientsOfList
  <1>5. c \in Client /\ c.node = clients[i].node
    BY <1>4 DEF Client
  <1> HIDE DEF c
  <1>6. /\ list \in Seq(Client) /\ DOMAIN list = DOMAIN clients
        /\ \A m \in DOMAIN clients : list[m].node = clients[m].node
    BY <1>1, <1>5, ClientsOfList, ExceptSeq
  <1> HIDE DEF list, sid
  <1>7. PICK k \in DOMAIN list : clients' = RemoveAt(list, k)
    BY <1>3 DEF clients_delete_client, list_remove
  <1>8. NodesOnce(list)
    BY <1>6 DEF Distinct, NodesOnce
  <1>9. NodesOnce(clients')
    BY <1>6, <1>7, <1>8, NodesOnceRemoved
  <1>10. PICK n \in DOMAIN clients : Drops(i, n)
    BY <1>2, TimeoutWrites
  <1>11. BatchOnce'
    BY <1>1, BatchTail
  <1>12. QED BY <1>1, <1>9, <1>10, <1>11 DEF Distinct, Drops

\* A new client gets a node that no other has.
LEMMA DistinctNewClient ==
    ASSUME Registered, Distinct, handle_new_client
    PROVE  Distinct'
  <1>1. CASE UNCHANGED <<vars, clients, players_number, made>>
    <2>1. SameClients(clients, clients') /\ UNCHANGED <<made, batch>>
      BY <1>1, FirstOfInbox DEF SameClients, SameClient
    <2>2. QED BY <2>1, DistinctKept
  <1>2. CASE /\ ~IsNameTaken(Head(inbox).player_name) /\ ~IsFull(Head(inbox).player_name)
             /\ Connect(Head(inbox))
    <2>1. Head(inbox) \in Datagram /\ made < MaxClients /\ batch' = batch
      BY FirstOfInbox
    <2>2. /\ made' = made + 1 /\ DOMAIN clients = 1 .. Len(clients) /\ Len(clients) \in Nat
          /\ DOMAIN clients' = 1 .. Len(clients) + 1
          /\ \A i \in DOMAIN clients : clients'[i] = clients[i]
          /\ clients'[Len(clients) + 1].node = made + 1
      BY <1>2, <2>1, ConnectWrites
    <2>3. /\ made \in Nat
          /\ \A i \in DOMAIN clients : clients[i].node \in Nat /\ clients[i].node <= made
      BY ServerFacts, ClientsOfList DEF Registered, ServerTypeOK, Distinct
    <2>4. \A i \in DOMAIN clients' :
             \/ i \in DOMAIN clients /\ clients'[i].node = clients[i].node
             \/ i = Len(clients) + 1 /\ clients'[i].node = made + 1
      BY <2>2
    <2>5. \A i \in DOMAIN clients' : clients'[i].node <= made'
      BY <2>2, <2>3, <2>4
    <2>6. NodesOnce(clients')
      BY <2>3, <2>4 DEF Distinct, NodesOnce
    <2>7. BatchOnce'
      BY <2>1 DEF Distinct, BatchOnce
    <2>8. QED BY <2>5, <2>6, <2>7 DEF Distinct
  <1>3. QED BY <1>1, <1>2, FirstOfInbox

\* Every step of the server preserves the invariant.
LEMMA DistinctNext == Registered /\ Distinct /\ [ServerNext]_allVars => Distinct'
  <1> SUFFICES ASSUME Registered, Distinct, [ServerNext]_allVars PROVE Distinct'
    OBVIOUS
  <1>1. CASE \E d \in Datagram : Arrive(d)
    <2>1. SameClients(clients, clients') /\ UNCHANGED <<made, batch>>
      BY <1>1, RegisteredArrive DEF Arrive
    <2>2. QED BY <2>1, DistinctKept
  <1>2. CASE Refuse \/ Expire
    <2>1. SameClients(clients, clients')
      BY <1>2, RegisteredTrouble
    <2>2. UNCHANGED <<made, batch>>
      BY <1>2 DEF Refuse, Expire
    <2>3. QED BY <2>1, <2>2, DistinctKept
  <1>3. CASE Wait \/ HandleRound
    <2>1. SameClients(clients, clients')
      BY <1>3, RegisteredLoop
    <2>2. UNCHANGED <<made, batch>>
      BY <1>3 DEF Wait, HandleRound
    <2>3. QED BY <2>1, <2>2, DistinctKept
  <1>4. CASE TimeoutBatch
    <2>1. BatchOnce' /\ UNCHANGED <<clients, made>>
      BY <1>4, BatchWrites
    <2>2. QED BY <2>1 DEF Distinct
  <1>5. CASE Timeout
    BY <1>5, DistinctTimeout
  <1>6. CASE handle_new_client
    BY <1>6, DistinctNewClient
  <1>7. CASE HandleClients
    <2>1. SameClients(clients, clients')
      BY <1>7, RegisteredClients
    <2>2. UNCHANGED <<made, batch>>
      BY <1>7 DEF HandleClients
    <2>3. QED BY <2>1, <2>2, DistinctKept
  <1>8. CASE UNCHANGED allVars
    BY <1>8 DEF allVars, serverVars, Distinct, BatchOnce
  <1>9. QED BY <1>1, <1>2, <1>3, <1>4, <1>5, <1>6, <1>7, <1>8 DEF ServerNext, Loop

-----------------------------------------------------------------------------
(* Without twins, the client that times out is the one that is deleted. *)

\* A step that leaves the clients who they are, and the batch.
LEMMA ServedKept ==
    ASSUME ClientsAreServed, SameClients(clients, clients'), UNCHANGED batch
    PROVE  ClientsAreServed'
  BY DEF ClientsAreServed, Nodes, SameClients, SameClient

\* The batch is of clients.
LEMMA ServedBatch ==
    ASSUME Registered, Distinct, ClientsAreServed, TimeoutBatch
    PROVE  ClientsAreServed'
  <1>1. /\ UNCHANGED <<clients, made>>
        /\ \A k \in DOMAIN batch' :
              \E i \in DOMAIN clients : clients[i].node = batch'[k]
    BY BatchWrites
  <1>2. QED BY <1>1 DEF ClientsAreServed, Nodes

\* Every other client of the batch is still there, and still watched.
LEMMA ServedTimeout ==
    ASSUME Registered, Distinct, NoTwins, ClientsAreServed, Timeout
    PROVE  ClientsAreServed'
  <1>1. batch # <<>> /\ batch' = Tail(batch)
    BY DEF Timeout
  <1>2. PICK i \in DOMAIN clients :
           /\ clients[i].node = Head(batch)
           /\ clients_delete_client([clients EXCEPT ![i].watched = FALSE],
                                    clients[i].session_id)
    BY DEF Timeout
  <1>3. PICK k \in DOMAIN clients : Drops(i, k)
    BY <1>2, TimeoutWrites
  <1>4. k = i
    BY <1>3 DEF NoTwins, Drops
  <1>5. \A j \in DOMAIN clients' : clients'[j].watched
    BY <1>3, <1>4 DEF ClientsAreServed, Drops
  <1>6. ASSUME NEW n \in DOMAIN batch' PROVE batch'[n] \in Nodes'
    <2>1. n + 1 \in DOMAIN batch /\ batch'[n] = batch[n + 1] /\ batch'[n] # Head(batch)
      BY <1>1, <1>6, BatchTail
    <2>2. PICK m \in DOMAIN clients : clients[m].node = batch'[n]
      BY <2>1 DEF ClientsAreServed, Nodes
    <2>3. m # k
      BY <1>2, <1>4, <2>1, <2>2
    <2>4. PICK j \in DOMAIN clients' : clients'[j].node = clients[m].node
      BY <1>3, <2>3 DEF Drops
    <2>5. QED BY <2>2, <2>4 DEF Nodes
  <1>7. QED BY <1>5, <1>6 DEF ClientsAreServed

\* A new client is watched, and those of the batch stay.
LEMMA ServedNewClient ==
    ASSUME Registered, ClientsAreServed, handle_new_client
    PROVE  ClientsAreServed'
  <1>1. CASE UNCHANGED <<vars, clients, players_number, made>>
    <2>1. SameClients(clients, clients') /\ UNCHANGED batch
      BY <1>1, FirstOfInbox DEF SameClients, SameClient
    <2>2. QED BY <2>1, ServedKept
  <1>2. CASE /\ ~IsNameTaken(Head(inbox).player_name) /\ ~IsFull(Head(inbox).player_name)
             /\ Connect(Head(inbox))
    <2>1. Head(inbox) \in Datagram /\ made < MaxClients /\ batch' = batch
      BY FirstOfInbox
    <2>2. /\ DOMAIN clients = 1 .. Len(clients) /\ Len(clients) \in Nat
          /\ DOMAIN clients' = 1 .. Len(clients) + 1
          /\ \A i \in DOMAIN clients : clients'[i] = clients[i]
          /\ clients'[Len(clients) + 1].watched = TRUE
      BY <1>2, <2>1, ConnectWrites
    <2>3. /\ \A i \in DOMAIN clients' : i \in DOMAIN clients \/ i = Len(clients) + 1
          /\ \A i \in DOMAIN clients : i \in DOMAIN clients'
      BY <2>2
    <2>4. \A i \in DOMAIN clients' : clients'[i].watched
      BY <2>2, <2>3 DEF ClientsAreServed
    <2>5. \A k \in DOMAIN batch' : batch'[k] \in Nodes'
      BY <2>1, <2>2, <2>3 DEF ClientsAreServed, Nodes
    <2>6. QED BY <2>4, <2>5 DEF ClientsAreServed
  <1>3. QED BY <1>1, <1>2, FirstOfInbox

\* Every step of the server from a state without twins.
LEMMA ServedNext ==
    Registered /\ Distinct /\ NoTwins /\ ClientsAreServed /\ [ServerNext]_allVars
        => ClientsAreServed'
  <1> SUFFICES ASSUME Registered, Distinct, NoTwins, ClientsAreServed, [ServerNext]_allVars
               PROVE  ClientsAreServed'
    OBVIOUS
  <1>1. CASE \E d \in Datagram : Arrive(d)
    <2>1. SameClients(clients, clients') /\ UNCHANGED batch
      BY <1>1, RegisteredArrive DEF Arrive
    <2>2. QED BY <2>1, ServedKept
  <1>2. CASE Refuse \/ Expire
    <2>1. SameClients(clients, clients')
      BY <1>2, RegisteredTrouble
    <2>2. UNCHANGED batch
      BY <1>2 DEF Refuse, Expire
    <2>3. QED BY <2>1, <2>2, ServedKept
  <1>3. CASE Wait \/ HandleRound
    <2>1. SameClients(clients, clients')
      BY <1>3, RegisteredLoop
    <2>2. UNCHANGED batch
      BY <1>3 DEF Wait, HandleRound
    <2>3. QED BY <2>1, <2>2, ServedKept
  <1>4. CASE TimeoutBatch
    BY <1>4, ServedBatch
  <1>5. CASE Timeout
    BY <1>5, ServedTimeout
  <1>6. CASE handle_new_client
    BY <1>6, ServedNewClient
  <1>7. CASE HandleClients
    <2>1. SameClients(clients, clients')
      BY <1>7, RegisteredClients
    <2>2. UNCHANGED batch
      BY <1>7 DEF HandleClients
    <2>3. QED BY <2>1, <2>2, ServedKept
  <1>8. CASE UNCHANGED allVars
    BY <1>8 DEF allVars, serverVars, ClientsAreServed, Nodes
  <1>9. QED BY <1>1, <1>2, <1>3, <1>4, <1>5, <1>6, <1>7, <1>8 DEF ServerNext, Loop

\* As long as no session has two clients, epoll's pointers do not dangle and no
\* client is left unwatched.
THEOREM ServedWithoutTwins == ServerSpec /\ []NoTwins => []ClientsAreServed
  <1>1. ServerInit => Distinct /\ ClientsAreServed
    BY DEF ServerInit, Distinct, NodesOnce, BatchOnce, ClientsAreServed
  <1>2. Registered /\ Distinct /\ [ServerNext]_allVars => Distinct'
    BY DistinctNext
  <1>3. Registered /\ Distinct /\ NoTwins /\ ClientsAreServed /\ [ServerNext]_allVars
            => ClientsAreServed'
    BY ServedNext
  <1>4. QED BY <1>1, <1>2, <1>3, RegisteredInvariant, PTL DEF ServerSpec

\* Without twins, what the comment at clients_delete_client says is true: the
\* client that has timed out is the one that is deleted.
THEOREM TimeoutDropsItsClientCorrect ==
    ServerSpec /\ []NoTwins => TimeoutDropsItsClient
  <1>1. ASSUME Registered, Distinct, NoTwins, [ServerNext]_allVars,
               batch # <<>>, batch' = Tail(batch)
        PROVE  Head(batch) \notin Nodes'
    <2>1. CASE Timeout
      <3>1. PICK i \in DOMAIN clients :
               /\ clients[i].node = Head(batch)
               /\ clients_delete_client([clients EXCEPT ![i].watched = FALSE],
                                        clients[i].session_id)
        BY <2>1 DEF Timeout
      <3>2. PICK k \in DOMAIN clients : Drops(i, k)
        BY <1>1, <3>1, TimeoutWrites
      <3>3. k = i
        BY <1>1, <3>2 DEF NoTwins, Drops
      <3>4. QED BY <1>1, <3>1, <3>2, <3>3 DEF Distinct, NodesOnce, Nodes, Drops
    <2>2. CASE UNCHANGED batch
      <3>1. batch \in Seq(1 .. MaxClients)
        BY <1>1 DEF Registered, ServerTypeOK
      <3>2. Len(batch) \in Nat /\ Len(Tail(batch)) = Len(batch) - 1
        BY <1>1, <3>1, PopProperties
      <3>3. QED BY <1>1, <2>2, <3>2
    <2>3. CASE TimeoutBatch
      BY <1>1, <2>3 DEF TimeoutBatch
    <2>4. QED
      BY <1>1, <2>1, <2>2, <2>3
         DEF ServerNext, Loop, Arrive, Refuse, Expire, Wait, HandleRound,
             handle_new_client, HandleClients, allVars, serverVars
  <1>2. Registered /\ Distinct /\ NoTwins /\ [ServerNext]_allVars
            => [batch # <<>> /\ batch' = Tail(batch) => Head(batch) \notin Nodes']_allVars
    BY <1>1
  <1>3. ServerInit => Distinct
    BY DEF ServerInit, Distinct, NodesOnce, BatchOnce
  <1>4. Registered /\ Distinct /\ [ServerNext]_allVars => Distinct'
    BY DistinctNext
  <1>5. QED
    BY <1>2, <1>3, <1>4, RegisteredInvariant, PTL DEF ServerSpec, TimeoutDropsItsClient

-----------------------------------------------------------------------------
(* The fourth invariant: whatever sessions others share, a player whose       *)
(* session is its own is served, and goes when it has timed out.              *)

\* Such a message made this client.
MadeBy(d, c) ==
    d.form = "VALID" /\ d.session_id = c.session_id /\ d.player_name = c.player_name

Invited == \A i \in DOMAIN clients : \E d \in Datagram : MadeBy(d, clients[i])

OwnWatched == \A i \in DOMAIN clients : IsOwn(clients[i].session_id) => clients[i].watched

\* Names differ, so sessions of a single name do.
LEMMA OwnAlone ==
    ASSUME Registered, Invited, NEW i \in DOMAIN clients, NEW j \in DOMAIN clients,
           IsOwn(clients[i].session_id),
           clients[j].session_id = clients[i].session_id
    PROVE  i = j
  <1>1. PICK name \in Name :
           \A d \in Datagram :
               d.form = "VALID" /\ d.session_id = clients[i].session_id
               => d.player_name = name
    BY DEF IsOwn
  <1>2. PICK d \in Datagram : MadeBy(d, clients[i])
    BY DEF Invited
  <1>3. PICK e \in Datagram : MadeBy(e, clients[j])
    BY DEF Invited
  <1>4. clients[i].player_name = name /\ clients[j].player_name = name
    BY <1>1, <1>2, <1>3 DEF MadeBy
  <1>5. name # NoName
    BY GameAssumption
  <1>6. NamesOnce(clients)
    BY CountsByList DEF Registered
  <1>7. QED BY <1>4, <1>5, <1>6 DEF NamesOnce

\* A step that leaves the clients who they are.
LEMMA OwnKept ==
    ASSUME Invited, OwnWatched, SameClients(clients, clients')
    PROVE  Invited' /\ OwnWatched'
  <1>1. /\ DOMAIN clients' = DOMAIN clients
        /\ \A i \in DOMAIN clients :
              /\ clients'[i].session_id = clients[i].session_id
              /\ clients'[i].player_name = clients[i].player_name
              /\ clients'[i].watched = clients[i].watched
    BY DEF SameClients, SameClient
  <1>2. Invited'
    BY <1>1 DEF Invited, MadeBy
  <1>3. OwnWatched'
    BY <1>1 DEF OwnWatched, IsOwn
  <1>4. QED BY <1>2, <1>3

\* A client of a session of its own that times out is deleted itself.
LEMMA OwnTimeout ==
    ASSUME Registered, Invited, OwnWatched, Timeout
    PROVE  Invited' /\ OwnWatched'
  <1>1. PICK i \in DOMAIN clients :
           clients_delete_client([clients EXCEPT ![i].watched = FALSE],
                                 clients[i].session_id)
    BY DEF Timeout
  <1>2. PICK k \in DOMAIN clients : Drops(i, k)
    BY <1>1, TimeoutWrites
  <1>3. Invited'
    <2> SUFFICES ASSUME NEW j \in DOMAIN clients'
                 PROVE  \E d \in Datagram : MadeBy(d, clients'[j])
      BY DEF Invited, MadeBy
    <2>1. PICK m \in DOMAIN clients :
             /\ clients'[j].session_id = clients[m].session_id
             /\ clients'[j].player_name = clients[m].player_name
      BY <1>2 DEF Drops
    <2>2. PICK d \in Datagram : MadeBy(d, clients[m])
      BY DEF Invited
    <2>3. QED BY <2>1, <2>2 DEF MadeBy
  <1>4. OwnWatched'
    <2> SUFFICES ASSUME NEW j \in DOMAIN clients', IsOwn(clients'[j].session_id)
                 PROVE  clients'[j].watched
      BY DEF OwnWatched, IsOwn
    <2>1. PICK m \in DOMAIN clients :
             /\ m # k /\ clients'[j].session_id = clients[m].session_id
             /\ m # i => clients'[j] = clients[m]
      BY <1>2 DEF Drops
    <2>2. IsOwn(clients[m].session_id)
      BY <2>1
    <2>3. m # i
      BY <1>2, <2>1, <2>2, OwnAlone DEF Drops
    <2>4. QED BY <2>1, <2>2, <2>3 DEF OwnWatched
  <1>5. QED BY <1>3, <1>4

\* A new client comes with a valid message and is watched.
LEMMA OwnNewClient ==
    ASSUME Registered, Invited, OwnWatched, handle_new_client
    PROVE  Invited' /\ OwnWatched'
  <1>1. CASE UNCHANGED <<vars, clients, players_number, made>>
    <2>1. SameClients(clients, clients')
      BY <1>1 DEF SameClients, SameClient
    <2>2. QED BY <2>1, OwnKept
  <1>2. CASE /\ ~IsNameTaken(Head(inbox).player_name) /\ ~IsFull(Head(inbox).player_name)
             /\ Connect(Head(inbox)) /\ Head(inbox).form = "VALID"
    <2> DEFINE d == Head(inbox)
               new == Len(clients) + 1
    <2>1. d \in Datagram /\ made < MaxClients
      BY FirstOfInbox
    <2>2. /\ DOMAIN clients = 1 .. Len(clients) /\ Len(clients) \in Nat
          /\ DOMAIN clients' = 1 .. new
          /\ \A i \in DOMAIN clients : clients'[i] = clients[i]
          /\ clients'[new].session_id = d.session_id
          /\ clients'[new].player_name = d.player_name
          /\ clients'[new].watched = TRUE
      BY <1>2, <2>1, ConnectWrites
    <2>3. d.form = "VALID"
      BY <1>2
    <2>4. \A i \in DOMAIN clients' : i \in DOMAIN clients \/ i = new
      BY <2>2
    <2> HIDE DEF d, new
    <2>5. Invited'
      <3> SUFFICES ASSUME NEW i \in DOMAIN clients'
                   PROVE  \E e \in Datagram : MadeBy(e, clients'[i])
        BY DEF Invited, MadeBy
      <3>1. CASE i \in DOMAIN clients
        BY <2>2, <3>1 DEF Invited
      <3>2. CASE i = new
        BY <2>1, <2>2, <2>3, <3>2 DEF MadeBy
      <3>3. QED BY <2>4, <3>1, <3>2
    <2>6. OwnWatched'
      <3> SUFFICES ASSUME NEW i \in DOMAIN clients', IsOwn(clients'[i].session_id)
                   PROVE  clients'[i].watched
        BY DEF OwnWatched, IsOwn
      <3>1. CASE i \in DOMAIN clients
        BY <2>2, <3>1 DEF OwnWatched
      <3>2. CASE i = new
        BY <2>2, <3>2
      <3>3. QED BY <2>4, <3>1, <3>2
    <2>7. QED BY <2>5, <2>6
  <1>3. QED BY <1>1, <1>2, FirstOfInbox

\* What every step that neither drops a client nor adds one leaves of them.
LEMMA OtherStepsKeepClients ==
    ASSUME Registered, [ServerNext]_allVars, ~Timeout, ~handle_new_client
    PROVE  SameClients(clients, clients')
  <1>1. CASE \E d \in Datagram : Arrive(d)
    BY <1>1, RegisteredArrive
  <1>2. CASE Refuse \/ Expire
    BY <1>2, RegisteredTrouble
  <1>3. CASE Wait \/ HandleRound \/ TimeoutBatch
    BY <1>3, RegisteredLoop
  <1>4. CASE HandleClients
    BY <1>4, RegisteredClients
  <1>5. CASE UNCHANGED allVars
    BY <1>5 DEF allVars, serverVars, SameClients, SameClient
  <1>6. QED BY <1>1, <1>2, <1>3, <1>4, <1>5 DEF ServerNext, Loop

\* Every step of the server preserves the invariant.
LEMMA OwnNext ==
    Registered /\ Invited /\ OwnWatched /\ [ServerNext]_allVars => Invited' /\ OwnWatched'
  <1> SUFFICES ASSUME Registered, Invited, OwnWatched, [ServerNext]_allVars
               PROVE  Invited' /\ OwnWatched'
    OBVIOUS
  <1>1. CASE Timeout
    BY <1>1, OwnTimeout
  <1>2. CASE handle_new_client
    BY <1>2, OwnNewClient
  <1>3. CASE ~Timeout /\ ~handle_new_client
    BY <1>3, OtherStepsKeepClients, OwnKept
  <1>4. QED BY <1>1, <1>2, <1>3

\* For any datagrams, those of observers and of twins among them, nobody whose
\* session is its own is left unwatched.
THEOREM OwnInvariant == ServerSpec => [](Registered /\ Invited /\ OwnWatched)
  <1>1. ServerInit => Invited /\ OwnWatched
    BY DEF ServerInit, Invited, OwnWatched
  <1>2. Registered /\ Invited /\ OwnWatched /\ [ServerNext]_allVars => Invited' /\ OwnWatched'
    BY OwnNext
  <1>3. QED BY <1>1, <1>2, RegisteredInvariant, PTL DEF ServerSpec

\* Whatever sessions others share, the player of a session of its own has one
\* client, and the epolls watch it.
THEOREM PlayersAreServedCorrect == ServerSpec => []PlayersAreServed
  <1>1. Registered /\ Invited /\ OwnWatched => PlayersAreServed
    BY OwnAlone DEF OwnWatched, PlayersAreServed
  <1>2. QED BY <1>1, OwnInvariant, PTL

\* Such a client is deleted when it is its turn in a batch of timeouts, never in
\* the place of another one.
THEOREM PlayersLeaveWhenDueCorrect == ServerSpec => PlayersLeaveWhenDue
  <1>1. ASSUME Registered, Invited, [ServerNext]_allVars, NEW i \in DOMAIN clients,
               IsOwn(clients[i].session_id), clients[i].node \notin Nodes'
        PROVE  batch # <<>> /\ batch' = Tail(batch) /\ Head(batch) = clients[i].node
    <2>1. CASE Timeout
      <3>1. PICK t \in DOMAIN clients :
               /\ clients[t].node = Head(batch)
               /\ clients_delete_client([clients EXCEPT ![t].watched = FALSE],
                                        clients[t].session_id)
        BY <2>1 DEF Timeout
      <3>2. PICK k \in DOMAIN clients : Drops(t, k)
        BY <1>1, <3>1, TimeoutWrites
      <3>3. k = i
        BY <1>1, <3>2 DEF Drops, Nodes
      <3>4. clients[t].session_id = clients[i].session_id
        BY <3>2, <3>3 DEF Drops
      <3>5. t = i
        BY <1>1, <3>4, OwnAlone
      <3>6. QED BY <2>1, <3>1, <3>5 DEF Timeout
    <2>2. CASE handle_new_client
      <3>1. i \in DOMAIN clients' /\ clients'[i].node = clients[i].node
        <4>1. CASE UNCHANGED <<vars, clients, players_number, made>>
          BY <4>1
        <4>2. CASE /\ ~IsNameTaken(Head(inbox).player_name)
                   /\ ~IsFull(Head(inbox).player_name) /\ Connect(Head(inbox))
          <5>1. Head(inbox) \in Datagram /\ made < MaxClients
            BY <1>1, <2>2, FirstOfInbox
          <5>2. /\ DOMAIN clients = 1 .. Len(clients) /\ Len(clients) \in Nat
                /\ DOMAIN clients' = 1 .. Len(clients) + 1
                /\ clients'[i] = clients[i]
            BY <1>1, <4>2, <5>1, ConnectWrites
          <5>3. QED BY <5>2
        <4>3. QED BY <1>1, <2>2, <4>1, <4>2, FirstOfInbox
      <3>2. QED BY <1>1, <3>1 DEF Nodes
    <2>3. CASE ~Timeout /\ ~handle_new_client
      <3>1. SameClients(clients, clients')
        BY <1>1, <2>3, OtherStepsKeepClients
      <3>2. QED BY <1>1, <3>1 DEF SameClients, SameClient, Nodes
    <2>4. QED BY <2>1, <2>2, <2>3
  <1>2. Registered /\ Invited /\ [ServerNext]_allVars
            => [\A i \in DOMAIN clients :
                  IsOwn(clients[i].session_id) /\ clients[i].node \notin Nodes'
                  => batch # <<>> /\ batch' = Tail(batch) /\ Head(batch) = clients[i].node
               ]_allVars
    BY <1>1
  <1>3. QED
    BY <1>2, OwnInvariant, PTL DEF ServerSpec, PlayersLeaveWhenDue

-----------------------------------------------------------------------------
(* Who turns *)

\* Some player of the list, or of the two lists, has the session and direction.
GivenIn(list, sid, turn) ==
    \E i \in DOMAIN list : list[i].session_id = sid /\ list[i].turn_direction = turn

Given(sid, turn) == GivenIn(players, sid, turn) \/ GivenIn(waiting, sid, turn)

\* The directions of two lists.
LEMMA TurnsByLists ==
    ASSUME NEW a \in Seq(Player), NEW b \in Seq(Player), NEW sid, NEW turn
    PROVE  turn \in TurnsOf(a \o b, sid) <=> GivenIn(a, sid, turn) \/ GivenIn(b, sid, turn)
  <1> DEFINE all == a \o b
  <1>1. /\ Len(a) \in Nat /\ DOMAIN a = 1 .. Len(a)
        /\ Len(b) \in Nat /\ DOMAIN b = 1 .. Len(b)
    BY PositionsFinite
  <1>2. /\ all \in Seq(Player) /\ Len(all) = Len(a) + Len(b)
        /\ \A i \in 1 .. Len(a) + Len(b) :
              all[i] = IF i <= Len(a) THEN a[i] ELSE b[i - Len(a)]
    BY ConcatProperties
  <1>3. DOMAIN all = 1 .. Len(a) + Len(b)
    BY <1>2, LenProperties
  <1>4. turn \in TurnsOf(all, sid) <=> GivenIn(all, sid, turn)
    BY DEF TurnsOf, GivenIn
  <1> HIDE DEF all
  <1>5. ASSUME NEW i \in DOMAIN all PROVE (\E j \in DOMAIN a : all[i] = a[j])
                                          \/ (\E j \in DOMAIN b : all[i] = b[j])
    <2>1. CASE i <= Len(a)
      BY <1>1, <1>2, <1>3, <2>1
    <2>2. CASE ~(i <= Len(a))
      <3>1. i - Len(a) \in DOMAIN b
        BY <1>1, <1>3, <2>2
      <3>2. QED BY <1>2, <1>3, <2>2, <3>1
    <2>3. QED BY <2>1, <2>2
  <1>6. \A j \in DOMAIN a : j \in DOMAIN all /\ all[j] = a[j]
    BY <1>1, <1>2, <1>3
  <1>7. ASSUME NEW j \in DOMAIN b PROVE \E i \in DOMAIN all : all[i] = b[j]
    <2>1. /\ Len(a) + j \in DOMAIN all /\ ~(Len(a) + j <= Len(a))
          /\ Len(a) + j - Len(a) = j
      BY <1>1, <1>3
    <2>2. all[Len(a) + j] = b[j]
      BY <1>2, <1>3, <2>1
    <2>3. QED BY <2>1, <2>2
  <1>8. GivenIn(all, sid, turn) <=> GivenIn(a, sid, turn) \/ GivenIn(b, sid, turn)
    BY <1>5, <1>6, <1>7 DEF GivenIn
  <1>9. QED BY <1>4, <1>8 DEF all

\* A game starts with the directions of the lobby.
LEMMA StartTurnsNobody ==
    ASSUME Counters, game_tick_waiting, NEW sid, NEW turn, Given(sid, turn)'
    PROVE  Given(sid, turn)
  <1>1. players = <<>> /\ waiting' = players /\ waiting \in Seq(Player)
    BY DEF Counters, TypeOK, CountsAlive, game_tick_waiting
  <1>2. PICK list \in sort_players(waiting) :
           \E spawn \in [DOMAIN list -> Pixels] : players' = Entering(list, spawn)
    BY DEF game_tick_waiting
  <1>3. PICK spawn \in [DOMAIN list -> Pixels] : players' = Entering(list, spawn)
    BY <1>2
  <1>4. /\ list \in Seq(Player) /\ DOMAIN list = DOMAIN waiting
        /\ \E o \in [DOMAIN waiting -> DOMAIN waiting] :
              /\ \A k \in DOMAIN waiting : list[k] = waiting[o[k]]
              /\ \A j, k \in DOMAIN waiting : o[j] = o[k] => j = k
              /\ \A i \in DOMAIN waiting : \E k \in DOMAIN waiting : o[k] = i
    BY <1>1, SortProperties, Zenon
  <1>5. PICK o \in [DOMAIN waiting -> DOMAIN waiting] :
           \A k \in DOMAIN waiting : list[k] = waiting[o[k]]
    BY <1>4
  <1>6. \A k \in DOMAIN list : list[k] \in Player
    BY <1>4, ElementOfSeq, PositionsFinite
  <1>7. \A p \in Player : \A pixel, taken :
           /\ Enter(p, pixel, taken).session_id = p.session_id
           /\ Enter(p, pixel, taken).turn_direction = p.turn_direction
    BY DEF Enter, Player
  <1>8. /\ DOMAIN players' = DOMAIN list
        /\ \A k \in DOMAIN list :
              /\ players'[k].session_id = list[k].session_id
              /\ players'[k].turn_direction = list[k].turn_direction
    BY <1>3, <1>6, <1>7 DEF Entering
  <1>9. ~GivenIn(waiting', sid, turn)
    BY <1>1 DEF GivenIn
  <1>10. GivenIn(players', sid, turn)
    BY <1>9 DEF Given, GivenIn
  <1>11. PICK k \in DOMAIN players' :
            players'[k].session_id = sid /\ players'[k].turn_direction = turn
    BY <1>10 DEF GivenIn
  <1>12. k \in DOMAIN waiting /\ list[k].session_id = sid /\ list[k].turn_direction = turn
    BY <1>4, <1>8, <1>11
  <1>13. o[k] \in DOMAIN waiting /\ list[k] = waiting[o[k]]
    BY <1>5, <1>12
  <1>14. GivenIn(waiting, sid, turn)
    BY <1>12, <1>13 DEF GivenIn
  <1>15. QED BY <1>14 DEF Given

\* A round of a game that goes on turns nobody.
LEMMA TickTurnsNobody ==
    ASSUME Counters, game_tick_in_progress, in_progress', NEW sid, NEW turn,
           Given(sid, turn)'
    PROVE  Given(sid, turn)
  <1>1. players \in Seq(Player) /\ waiting \in Seq(Player)
    BY DEF Counters, TypeOK
  <1>2. PICK to \in Moves : players' = Moved(to) /\ waiting' = waiting
    BY TickRoster
  <1>3. \A p \in Player : \A pixel :
           /\ Die(p).session_id = p.session_id /\ Move(p, pixel).session_id = p.session_id
           /\ Die(p).turn_direction = p.turn_direction
           /\ Move(p, pixel).turn_direction = p.turn_direction
    BY DEF Die, Move, Player
  <1>4. \A i \in DOMAIN players : players[i] \in Player
    BY <1>1, PositionsFinite
  <1>5. /\ DOMAIN players' = DOMAIN players
        /\ \A i \in DOMAIN players :
              /\ players'[i].session_id = players[i].session_id
              /\ players'[i].turn_direction = players[i].turn_direction
    BY <1>2, <1>3, <1>4 DEF Moved
  <1>6. QED BY <1>2, <1>5 DEF Given, GivenIn

\* Who comes turns nobody that is there.
LEMMA ComingTurnsNobody ==
    ASSUME Counters, NEW other, NEW given, game_add_player(other, given),
           NEW sid, IsKnown(sid), NEW turn, Given(sid, turn)'
    PROVE  Given(sid, turn)
  <1>1. waiting \in Seq(Player) /\ players' = players
    BY DEF Counters, TypeOK, game_add_player, add_observer, add_player
  <1>2. CASE waiting' = waiting
    BY <1>1, <1>2 DEF Given
  <1>3. CASE waiting' = Append(waiting, player_create(other, given)) /\ ~IsKnown(other)
    <2> DEFINE new == player_create(other, given)
    <2>1. new.session_id = other /\ other # sid
      BY <1>3 DEF player_create
    <2>2. waiting' = Append(waiting, new)
      BY <1>3
    <2> HIDE DEF new
    <2>3. /\ Len(waiting) \in Nat /\ DOMAIN waiting = 1 .. Len(waiting)
          /\ DOMAIN waiting' = 1 .. Len(waiting) + 1
          /\ \A i \in 1 .. Len(waiting) : waiting'[i] = waiting[i]
          /\ waiting'[Len(waiting) + 1] = new
      BY <1>1, <2>2, LenProperties
    <2>4. \A i \in DOMAIN waiting' : i \in DOMAIN waiting \/ i = Len(waiting) + 1
      BY <2>3
    <2>5. QED BY <1>1, <2>1, <2>3, <2>4 DEF Given, GivenIn
  <1>4. QED BY <1>2, <1>3 DEF game_add_player, add_observer, add_player, list_add

\* Who leaves turns nobody.
LEMMA LeavingTurnsNobody ==
    ASSUME Counters, NEW other \in Session, game_remove_player(other),
           NEW sid, NEW turn, Given(sid, turn)'
    PROVE  Given(sid, turn)
  <1>1. players \in Seq(Player) /\ waiting \in Seq(Player)
    BY DEF Counters, TypeOK
  <1>2. CASE UNCHANGED <<players, waiting>>
    BY <1>2 DEF Given
  <1>3. CASE RemoveWaiting(other)
    <2>1. PICK i \in DOMAIN waiting : waiting' = RemoveAt(waiting, i)
      BY <1>3 DEF RemoveWaiting, list_remove
    <2>2. \A j \in DOMAIN waiting' : \E k \in DOMAIN waiting : waiting'[j] = waiting[k]
      BY <1>1, <2>1, RemovedSessions
    <2>3. players' = players
      BY <1>3 DEF RemoveWaiting
    <2>4. QED BY <2>2, <2>3 DEF Given, GivenIn
  <1>4. CASE Disconnect(other)
    <2>1. PICK i \in DOMAIN players :
             players' = [players EXCEPT ![i].status = @ \cup {"DISCONNECTED"}]
      BY <1>4 DEF Disconnect
    <2>2. waiting' = waiting
      BY <1>4 DEF Disconnect
    <2> DEFINE gone == [players[i] EXCEPT !.status = @ \cup {"DISCONNECTED"}]
    <2>3. players[i] \in Player
      BY <1>1, PositionsFinite
    <2>4. /\ gone.session_id = players[i].session_id
          /\ gone.turn_direction = players[i].turn_direction
      BY <2>3 DEF Player
    <2>5. players' = [players EXCEPT ![i] = gone]
      BY <2>1
    <2> HIDE DEF gone
    <2>6. /\ DOMAIN players' = DOMAIN players
          /\ \A k \in DOMAIN players :
                /\ players'[k].session_id = players[k].session_id
                /\ players'[k].turn_direction = players[k].turn_direction
      BY <2>4, <2>5
    <2>7. QED BY <2>2, <2>6 DEF Given, GivenIn
  <1>5. QED BY <1>2, <1>3, <1>4 DEF game_remove_player, RemoveObserver, lists

\* A message turns the players of its session, as it says.
LEMMA TurningTurnsOne ==
    ASSUME Counters, NEW other \in Session, NEW t \in Turn,
           game_set_turn_direction(other, t),
           NEW sid, NEW turn, Given(sid, turn)', ~Given(sid, turn)
    PROVE  sid = other /\ turn = t
  <1>1. players \in Seq(Player) /\ waiting \in Seq(Player)
    BY DEF Counters, TypeOK
  <1>2. ASSUME NEW a \in Seq(Player), NEW b, NEW i \in DOMAIN a, a[i].session_id = other,
               b = [a EXCEPT ![i].turn_direction = t], GivenIn(b, sid, turn),
               ~GivenIn(a, sid, turn)
        PROVE  sid = other /\ turn = t
    <2> DEFINE new == [a[i] EXCEPT !.turn_direction = t]
    <2>1. new.session_id = other /\ new.turn_direction = t
      BY <1>2, PositionsFinite, TurnWrite DEF SameIdentity
    <2>2. b = [a EXCEPT ![i] = new]
      BY <1>2
    <2> HIDE DEF new
    <2>3. QED BY <1>2, <2>1, <2>2 DEF GivenIn
  <1>3. CASE Steer(other, t)
    <2>1. PICK i \in DOMAIN players :
             /\ players[i].session_id = other
             /\ players' = [players EXCEPT ![i].turn_direction = t]
      BY <1>3 DEF Steer, IsFound
    <2>2. waiting' = waiting
      BY <1>3 DEF Steer
    <2>3. GivenIn(players', sid, turn) /\ ~GivenIn(players, sid, turn)
      BY <2>2 DEF Given, GivenIn
    <2>4. QED BY <1>1, <1>2, <2>1, <2>3
  <1>4. CASE GetReady(other, t)
    <2>1. PICK i \in DOMAIN waiting :
             /\ waiting[i].session_id = other
             /\ waiting' = [waiting EXCEPT ![i].turn_direction = t]
      BY <1>4 DEF GetReady, IsFound
    <2>2. players' = players
      BY <1>4 DEF GetReady
    <2>3. GivenIn(waiting', sid, turn) /\ ~GivenIn(waiting, sid, turn)
      BY <2>2 DEF Given, GivenIn
    <2>4. QED BY <1>1, <1>2, <2>1, <2>3
  <1>5. CASE UNCHANGED <<players, waiting>>
    BY <1>5 DEF Given
  <1>6. QED BY <1>3, <1>4, <1>5 DEF game_set_turn_direction

\* No step but that of handle_clients turns anybody who is there, unless it ends
\* a game.
LEMMA OthersTurnNobody ==
    ASSUME Registered, Counters, [ServerNext]_allVars, ~(in_progress /\ ~in_progress'),
           NEW sid, IsKnown(sid), NEW turn, Given(sid, turn)', ~Given(sid, turn)
    PROVE  HandleClients
  <1>1. ~UNCHANGED vars
    <2>1. CASE UNCHANGED <<players, waiting>>
      BY <2>1 DEF Given
    <2>2. QED BY <2>1 DEF vars, lists
  <1>2. ~Round
    <2>1. Counters /\ in_progress \in BOOLEAN
      BY DEF Counters, TypeOK
    <2>2. game_tick_in_progress => in_progress'
      BY DEF game_tick_in_progress
    <2>3. QED BY <2>2, StartTurnsNobody, TickTurnsNobody DEF Round
  <1>3. ~Timeout
    <2>1. ASSUME Timeout PROVE FALSE
      <3>1. PICK i \in DOMAIN clients : game_remove_player(clients[i].session_id)
        BY <2>1 DEF Timeout
      <3>2. clients[i].session_id \in Session
        BY ClientsOfList DEF Registered, ServerTypeOK
      <3>3. QED BY <3>1, <3>2, LeavingTurnsNobody
    <2>2. QED BY <2>1
  <1>4. ~handle_new_client
    <2>1. ASSUME handle_new_client PROVE FALSE
      <3>1. Connect(Head(inbox))
        BY <1>1, <2>1, FirstOfInbox
      <3>2. game_add_player(Head(inbox).session_id, Head(inbox).player_name)
        BY <3>1 DEF Connect
      <3>3. QED BY <3>2, ComingTurnsNobody
    <2>2. QED BY <2>1
  <1>5. QED
    BY <1>1, <1>2, <1>3, <1>4
       DEF ServerNext, Loop, Arrive, Refuse, Expire, Wait, TimeoutBatch, HandleRound, allVars

\* The numbers of it: n datagrams as far as the empty one, of len, leave so many.
LEMMA PrefixNumbers ==
    ASSUME NEW n \in Nat, NEW len \in Nat, n <= len, len > 0,
           NEW left, left = IF n + 2 <= len THEN len - (n + 2) + 1 ELSE 0
    PROVE  /\ len - left \in Nat /\ len - left > 0 /\ n \in 0 .. len - left
           /\ \A k \in n + 1 .. len - left : k = n + 1 /\ n < len
           /\ \A k \in n + 2 .. len : k \in 1 .. len
  OBVIOUS

\* What is read of a queue that has not failed: as far as the first empty datagram,
\* and that one.
LEMMA ReadPrefix ==
    ASSUME NEW q \in Seq(Datagram), q # <<>>,
           NEW rest, rest = SubSeq(q, ReadCount(q) + 2, Len(q))
    PROVE  /\ Len(q) - Len(rest) \in Nat /\ Len(q) - Len(rest) > 0
           /\ ReadCount(q) \in 0 .. Len(q) - Len(rest)
           /\ \A k \in ReadCount(q) + 1 .. Len(q) - Len(rest) : q[k].form = "EMPTY"
  <1> DEFINE n == ReadCount(q)
             len == Len(q)
             left == Len(rest)
  <1>1. len \in Nat /\ len > 0 /\ DOMAIN q = 1 .. len
    BY LenProperties, EmptySeq
  <1>2. n \in 0 .. len /\ (n < len => q[n + 1].form = "EMPTY")
    BY ReadCountPrefix
  <1>3. n \in Nat /\ n <= len
    <2> HIDE DEF n, len
    <2>1. QED BY <1>1, <1>2
  <1>4. \A k \in n + 2 .. len : q[k] \in Datagram
    <2>1. \A k \in n + 2 .. len : k \in 1 .. len
      <3> HIDE DEF n, len
      <3>1. QED BY <1>1, <1>3
    <2>2. QED BY <1>1, <2>1, ElementOfSeq
  <1>5. left = IF n + 2 <= len THEN len - (n + 2) + 1 ELSE 0
    <2>1. n + 2 \in Nat
      <3> HIDE DEF n
      <3>1. QED BY <1>3
    <2>2. QED BY <1>1, <1>4, <2>1, SubSeqProperties
  <1> HIDE DEF n, len, left
  <1>6. /\ len - left \in Nat /\ len - left > 0 /\ n \in 0 .. len - left
        /\ \A k \in n + 1 .. len - left : k = n + 1 /\ n < len
    BY <1>1, <1>3, <1>5, PrefixNumbers
  <1>7. \A k \in n + 1 .. len - left : q[k].form = "EMPTY"
    BY <1>2, <1>6
  <1>8. QED BY <1>6, <1>7 DEF n, len, left

\* Some client of the session is asked for the direction in this step.
IsAskedFor(sid, turn) ==
    \E i \in DOMAIN clients : clients[i].session_id = sid /\ Asks(i, turn)

\* The only step that turns a player takes the last datagram that has been read, or
\* the zeros.
LEMMA TurnsComeFromMessages ==
    ASSUME Registered, Counters, Counters', [ServerNext]_allVars,
           NEW sid \in Session, NEW turn \in Turn,
           TurnsOf(players \o waiting, sid) # {},
           turn \in TurnsOf(players \o waiting, sid)',
           turn \notin TurnsOf(players \o waiting, sid),
           ~(in_progress /\ ~in_progress')
    PROVE  IsAskedFor(sid, turn)
  <1>1. players \in Seq(Player) /\ waiting \in Seq(Player)
    BY DEF Counters, TypeOK
  <1>2. players' \in Seq(Player) /\ waiting' \in Seq(Player)
    BY DEF Counters, TypeOK
  <1>3. ~Given(sid, turn) /\ IsKnown(sid)
    <2>1. ~Given(sid, turn)
      BY <1>1, TurnsByLists DEF Given
    <2>2. PICK old : old \in TurnsOf(players \o waiting, sid)
      OBVIOUS
    <2>3. GivenIn(players, sid, old) \/ GivenIn(waiting, sid, old)
      BY <1>1, <2>2, TurnsByLists
    <2>4. QED BY <2>1, <2>3 DEF GivenIn, IsKnown, Has
  <1>4. Given(sid, turn)'
    <2>1. turn \in TurnsOf(players' \o waiting', sid)
      BY DEF TurnsOf
    <2>2. GivenIn(players', sid, turn) \/ GivenIn(waiting', sid, turn)
      BY <1>2, <2>1, TurnsByLists
    <2>3. QED BY <2>2 DEF Given, GivenIn
  <1>5. HandleClients /\ ~UNCHANGED vars
    <2>1. ~UNCHANGED vars
      BY <1>3, <1>4 DEF Given, vars, lists
    <2>2. QED BY <1>3, <1>4, <2>1, OthersTurnNobody
  <1>6. PICK i \in Readable : handle_client_message(i)
    BY <1>5 DEF HandleClients
  <1>7. PICK t \in Turn :
           /\ i \in DOMAIN clients /\ Told(i, t) /\ clients[i].session_id \in Session
           /\ game_set_turn_direction(clients[i].session_id, t)
    BY <1>5, <1>6, DataStep
  <1>8. sid = clients[i].session_id /\ turn = t
    BY <1>3, <1>4, <1>7, TurningTurnsOne
  <1> DEFINE q == clients[i].queue
             n == ReadCount(q)
             read == Len(q) - Len(clients'[i].queue)
  <1>9. ~clients[i].failed /\ clients'[i].queue = SubSeq(q, n + 2, Len(q)) /\ q # <<>>
    BY <1>6, <1>7, MessageWrites DEF Told, Readable
  <1>10. q \in Seq(Datagram)
    BY <1>7, ClientsOfList DEF Registered, ServerTypeOK
  <1>11. /\ read \in Nat /\ read > 0 /\ n \in 0 .. read
         /\ \A k \in n + 1 .. read : q[k].form = "EMPTY"
    <2> HIDE DEF q, n
    <2>1. QED BY <1>9, <1>10, ReadPrefix DEF n
  <1>12. CASE n \in DOMAIN q /\ IsHeard(q[n], clients[i]) /\ turn = q[n].turn_direction
    <2> HIDE DEF n, read
    <2>1. n \in 1 .. read
      <3>1. n >= 1
        BY <1>10, <1>12, LenProperties
      <3>2. QED BY <1>11, <3>1
    <2>2. QED BY <1>7, <1>8, <1>11, <1>12, <2>1 DEF IsAskedFor, Asks, IsHeard, read
  <1>13. CASE n = 0 /\ clients[i].session_id = 0 /\ turn = 0
    <2> HIDE DEF n, read
    <2>1. 1 \in n + 1 .. read
      BY <1>11, <1>13
    <2>2. QED BY <1>7, <1>8, <1>11, <1>13, <2>1 DEF IsAskedFor, Asks, read
  <1>14. QED BY <1>7, <1>8, <1>12, <1>13 DEF Told

\* A player turns, gets ready or unready only as is asked for on the socket of a
\* client of its session, whatever else is sent to the server.
THEOREM TurnsAreAskedForCorrect == ServerSpec => TurnsAreAskedFor
  <1>1. ServerInit => Init
    BY DEF ServerInit
  <1>2. Registered /\ [ServerNext]_allVars => [Next]_vars
    BY StepIsGameStep
  <1>3. Registered /\ Counters /\ Counters' /\ [ServerNext]_allVars
          => [\A sid \in Session : \A turn \in Turn :
                 /\ TurnsOf(players \o waiting, sid) # {}
                 /\ turn \in TurnsOf(players \o waiting, sid)'
                 /\ turn \notin TurnsOf(players \o waiting, sid)
                 /\ ~(in_progress /\ ~in_progress')
                 => IsAskedFor(sid, turn)]_allVars
    BY TurnsComeFromMessages
  <1>4. QED
    BY <1>1, <1>2, <1>3, CountersInit, CountersNext, RegisteredInvariant, PTL
       DEF ServerSpec, TurnsAreAskedFor, IsAskedFor

=============================================================================
