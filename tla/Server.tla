------------------------------- MODULE Server -------------------------------
(***************************************************************************)
(* The server around the game: the clients of src/server/clients.c and the *)
(* main loop and handlers of src/server/main.c.  The loop takes one        *)
(* snapshot of what is ready and serves it in a fixed order; meanwhile     *)
(* datagrams arrive and timers expire.  What the handlers send is left to  *)
(* module Delivery: it changes nothing here.                               *)
(***************************************************************************)
EXTENDS Game

CONSTANTS
    Addr,       \* the addresses of the remote sockets
    Datagram,   \* the datagrams that may be sent: see DatagramType
    Capacity,   \* MAX_PLAYERS_NUM of clients.c
    MaxEvents,  \* MAX_EVENTS
    MaxClients, \* bound: how many clients are ever created
    InboxBound, \* bound: datagrams waiting on the server's socket
    QueueBound  \* bound: datagrams waiting on the socket of a client

\* deserialize_client_message refuses a datagram that is too short or too long,
\* whatever it says.
DatagramType ==
    [addr : Addr, session_id : Session, player_name : Name \cup {NoName},
     turn_direction : Turn, form : {"VALID", "INVALID", "EMPTY"}]

\* Who may join the game is who may send a datagram.
ASSUME ServerAssumption ==
    /\ Session \subseteq Nat
    /\ Datagram \subseteq DatagramType
    /\ Entrants = { <<d.session_id, d.player_name>> : d \in Datagram }
    /\ {Capacity, MaxEvents, MaxClients, InboxBound, QueueBound} \subseteq Nat \ {0}

VARIABLES
    clients,        \* clients_list
    players_number, \* how many clients have a name
    made,           \* how many clients have been created
    inbox,          \* what waits on server_sock_fd
    loop_actions,   \* what is left to do of the last snapshot
    batch           \* the clients (their nodes) handle_timeouts goes through

serverVars == <<clients, players_number, made, inbox, loop_actions, batch>>
allVars == <<vars, serverVars>>

\* A client is known by its node, the address epoll keeps of it.  watched says
\* that its descriptors are still in data_epoll and timeout_epoll, failed that
\* its socket has an error to report.
Client ==
    [node : 1 .. MaxClients, session_id : Session,
     player_name : Name \cup {NoName}, addr : Addr, timer : {"armed", "expired"},
     queue : Seq(Datagram), failed : BOOLEAN, watched : BOOLEAN]

Nodes == { clients[i].node : i \in DOMAIN clients }
Named == { i \in DOMAIN clients : clients[i].player_name # NoName }
Expired == { i \in DOMAIN clients : clients[i].watched /\ clients[i].timer = "expired" }
Readable ==
    { i \in DOMAIN clients :
        clients[i].watched /\ (clients[i].queue # <<>> \/ clients[i].failed) }

ServerInit ==
    /\ Init
    /\ clients = <<>> /\ players_number = 0 /\ made = 0
    /\ inbox = <<>> /\ loop_actions = {} /\ batch = <<>>

-----------------------------------------------------------------------------
(* The world around the server *)

\* A datagram comes to a socket connected to its sender if there is one, to
\* the server's own socket otherwise.
Arrive(d) ==
    /\ \/ \E i \in DOMAIN clients :
              /\ clients[i].addr = d.addr
              /\ Len(clients[i].queue) < QueueBound
              /\ clients' = [clients EXCEPT ![i].queue = Append(@, d)]
              /\ UNCHANGED inbox
       \/ /\ \A i \in DOMAIN clients : clients[i].addr # d.addr
          /\ Len(inbox) < InboxBound /\ made + Len(inbox) < MaxClients
          /\ inbox' = Append(inbox, d)
          /\ UNCHANGED clients
    /\ UNCHANGED <<vars, players_number, made, loop_actions, batch>>

\* The remote host answers that nobody listens at the address any more.
Refuse ==
    /\ \E i \in DOMAIN clients : clients' = [clients EXCEPT ![i].failed = TRUE]
    /\ UNCHANGED <<vars, players_number, made, inbox, loop_actions, batch>>

\* Two seconds have passed since the timer of a client was started.
Expire ==
    /\ \E i \in DOMAIN clients :
           clients[i].timer = "armed" /\ clients' = [clients EXCEPT ![i].timer = "expired"]
    /\ UNCHANGED <<vars, players_number, made, inbox, loop_actions, batch>>

-----------------------------------------------------------------------------
(* The loop *)

\* epoll_wait: the round timer ticks at any time, the rest is ready or not.
Wait ==
    /\ loop_actions = {}
    /\ \E round \in {{}, {"ROUND"}} :
           loop_actions' = round
               \cup (IF Expired # {} THEN {"TIMEOUT"} ELSE {})
               \cup (IF inbox # <<>> THEN {"NEW_CLIENT"} ELSE {})
               \cup (IF Readable # {} THEN {"DATA"} ELSE {})
    /\ UNCHANGED <<vars, clients, players_number, made, inbox, batch>>

\* The order of the handlers in main.
Order == <<"ROUND", "TIMEOUT", "NEW_CLIENT", "DATA">>

IsNext(action) ==
    \E k \in DOMAIN Order :
        /\ Order[k] = action /\ action \in loop_actions
        /\ \A j \in 1 .. k - 1 : Order[j] \notin loop_actions

Done(action) == loop_actions' = loop_actions \ {action}

\* (mutant) Between games, the storage is freed.
HandleRound_FreesStorage ==
    /\ IsNext("ROUND") /\ Done("ROUND")
    /\ \/ Round
       \/ /\ ~in_progress /\ ~CanStart /\ log' = <<>>
          /\ UNCHANGED <<in_progress, game_id, next_event_no, lists, board,
                         players_alive, players_ready, is_game_in_progress>>
    /\ UNCHANGED <<clients, players_number, made, inbox, batch>>

HandleRound ==
    /\ IsNext("ROUND") /\ Done("ROUND")
    /\ \/ Round
       \/ ~in_progress /\ ~CanStart /\ UNCHANGED vars
    /\ UNCHANGED <<clients, players_number, made, inbox, batch>>

-----------------------------------------------------------------------------
(* handle_timeouts *)

\* epoll_wait on the timers: MaxEvents clients at most, in any order.
TimeoutBatch ==
    /\ IsNext("TIMEOUT") /\ batch = <<>>
    /\ \/ Expired = {} /\ Done("TIMEOUT") /\ UNCHANGED batch
       \/ /\ \E S \in SUBSET Expired :
                 /\ S # {} /\ Cardinality(S) <= MaxEvents
                 /\ S = Expired \/ Cardinality(S) = MaxEvents
                 /\ \E order \in SetToSeqs(S) :
                        batch' = [k \in DOMAIN order |-> clients[order[k]].node]
          /\ UNCHANGED loop_actions
    /\ UNCHANGED <<vars, clients, players_number, made, inbox>>

\* (mutant) The oldest client is deleted.
clients_delete_client_Head(list, sid) ==
    /\ clients' = Tail(list)
    /\ players_number' = players_number
           - (IF list[1].player_name # NoName THEN 1 ELSE 0)

\* (mutant) An observer is counted when it goes, though not when it came.
clients_delete_client_CountsAll(list, sid) ==
    /\ \E k \in DOMAIN list : IsFound(list, sid, k) /\ clients' = list_remove(list, k)
    /\ players_number' = players_number - 1

\* The first client of the list with this session is deleted.
clients_delete_client(list, sid) ==
    \E k \in DOMAIN list :
        /\ IsFound(list, sid, k)
        /\ clients' = list_remove(list, k)
        /\ players_number' = players_number
               - (IF list[k].player_name # NoName THEN 1 ELSE 0)

\* (mutant) The game is not told.
Timeout_Untold ==
    /\ IsNext("TIMEOUT") /\ batch # <<>>
    /\ \E i \in DOMAIN clients :
           /\ clients[i].node = Head(batch)
           /\ clients_delete_client(clients, clients[i].session_id)
    /\ batch' = Tail(batch)
    /\ UNCHANGED <<vars, made, inbox, loop_actions>>

\* One client of the batch: its descriptors leave the two epolls, its player
\* leaves the game, and a client with its session is deleted.  A node that has
\* been deleted meanwhile makes the behaviour undefined: no step is taken.
Timeout ==
    /\ IsNext("TIMEOUT") /\ batch # <<>>
    /\ \E i \in DOMAIN clients :
           /\ clients[i].node = Head(batch)
           /\ game_remove_player(clients[i].session_id)
           /\ clients_delete_client([clients EXCEPT ![i].watched = FALSE],
                                    clients[i].session_id)
    /\ batch' = Tail(batch)
    /\ UNCHANGED <<made, inbox, loop_actions>>

-----------------------------------------------------------------------------
(* handle_new_client *)

\* (mutant) The name is not looked up.
IsNameTaken_Never(name) == FALSE

IsNameTaken(name) ==
    name # NoName /\ \E i \in DOMAIN clients : clients[i].player_name = name

IsFull(name) == name # NoName /\ players_number = Capacity

\* Between bind and connect the new socket takes what comes from any address
\* that has no client: one datagram at most, as a bound.
EarlyQueues ==
    {<<>>} \cup { <<e>> : e \in { d \in Datagram :
                                    \A i \in DOMAIN clients : clients[i].addr # d.addr } }

NewClient(d, queue) ==
    [node |-> made + 1, session_id |-> d.session_id, player_name |-> d.player_name,
     addr |-> d.addr, timer |-> "armed", queue |-> queue, failed |-> FALSE,
     watched |-> TRUE]

\* (mutant) The timers of the observers are not watched.
Connect_PlayersOnly(d) ==
    /\ \E queue \in EarlyQueues :
           clients' = list_add(clients, [NewClient(d, queue) EXCEPT
                                             !.watched = d.player_name # NoName])
    /\ players_number' = players_number + (IF d.player_name # NoName THEN 1 ELSE 0)
    /\ made' = made + 1
    /\ game_add_player(d.session_id, d.player_name)

Connect(d) ==
    /\ \E queue \in EarlyQueues : clients' = list_add(clients, NewClient(d, queue))
    /\ players_number' = players_number + (IF d.player_name # NoName THEN 1 ELSE 0)
    /\ made' = made + 1
    /\ game_add_player(d.session_id, d.player_name)

\* One datagram of the server's socket: its turn_direction is not looked at.
handle_new_client ==
    /\ IsNext("NEW_CLIENT") /\ Done("NEW_CLIENT")
    /\ inbox' = Tail(inbox)
    /\ LET d == Head(inbox)
           connects == /\ d.form = "VALID"
                       /\ ~IsNameTaken(d.player_name) /\ ~IsFull(d.player_name)
       IN  \/ connects /\ Connect(d)
           \/ ~connects /\ UNCHANGED <<vars, clients, players_number, made>>
    /\ UNCHANGED batch

-----------------------------------------------------------------------------
(* handle_clients *)

\* A message of an older session of the client is ignored.
IsOld(d, client) == d.session_id < client.session_id

\* (mutant) The length of the message is not looked at.
IsHeard_AnyForm(d, client) == ~IsOld(d, client)

IsHeard(d, client) == d.form = "VALID" /\ ~IsOld(d, client)

\* How many datagrams are read: an empty one looks like the end of the queue.
ReadCount(queue) ==
    Cardinality({ n \in DOMAIN queue : \A k \in 1 .. n : queue[k].form # "EMPTY" })

\* The timer starts anew, and the first k datagrams leave the queue.
Reads(i, k) ==
    clients' = [clients EXCEPT ![i].timer = "armed", ![i].failed = FALSE,
                               ![i].queue = SubSeq(@, k + 1, Len(@))]

\* The last of the n datagrams that have been read counts.  With none read there
\* is a buffer of zeros, a message of session 0 if the length, which is not set,
\* happens to be that of a message.  The second comparison of the code, for
\* reconnecting, repeats the first and is never true.
Acts(client, n) ==
    \/ /\ n > 0 /\ IsHeard(client.queue[n], client)
       /\ game_set_turn_direction(client.session_id, client.queue[n].turn_direction)
    \/ /\ n = 0 /\ client.session_id = 0
       /\ game_set_turn_direction(0, 0)
    \/ /\ n > 0 => ~IsHeard(client.queue[n], client)
       /\ UNCHANGED vars

\* An error of the socket ends the reading wherever it comes, and what has been
\* read until then is lost.
handle_client_message(i) ==
    LET client == clients[i]
        n == ReadCount(client.queue)
    IN  \/ client.failed /\ (\E k \in 0 .. n : Reads(i, k)) /\ UNCHANGED vars
        \/ ~client.failed /\ Reads(i, n + 1) /\ Acts(client, n)

HandleClients ==
    /\ IsNext("DATA")
    /\ \/ Readable = {} /\ Done("DATA") /\ UNCHANGED <<vars, clients>>
       \/ /\ \E i \in Readable : handle_client_message(i)
          /\ UNCHANGED loop_actions
    /\ UNCHANGED <<players_number, made, inbox, batch>>

-----------------------------------------------------------------------------
Loop == Wait \/ HandleRound \/ TimeoutBatch \/ Timeout \/ handle_new_client
            \/ HandleClients

ServerNext == Loop \/ Expire \/ Refuse \/ \E d \in Datagram : Arrive(d)

\* The loop never stops, and a timer that runs expires.
ServerFairness == WF_allVars(Loop) /\ WF_allVars(Expire)

ServerSpec == ServerInit /\ [][ServerNext]_allVars
FairServerSpec == ServerSpec /\ ServerFairness

-----------------------------------------------------------------------------
(* Properties *)

\* Every variable of the server holds a value of its C type.
ServerTypeOK ==
    /\ clients \in Seq(Client)
    /\ players_number \in 0 .. Capacity
    /\ made \in 0 .. MaxClients
    /\ inbox \in Seq(Datagram)
    /\ loop_actions \in SUBSET {"ROUND", "TIMEOUT", "NEW_CLIENT", "DATA"}
    /\ batch \in Seq(1 .. MaxClients)

\* Whatever comes from the network and the timers, what the server does to its
\* game is what module Game says of a game, in the same order or not at all.
GameIsPlayed == Spec

\* No pointer that epoll has handed out dangles, and no client is left in the
\* list without the epolls watching it, deaf and immortal.
ClientsAreServed ==
    /\ \A k \in DOMAIN batch : batch[k] \in Nodes
    /\ \A i \in DOMAIN clients : clients[i].watched

\* A session that one player uses and nobody else does.
IsOwn(sid) ==
    \E name \in Name :
        \A d \in Datagram :
            d.form = "VALID" /\ d.session_id = sid => d.player_name = name

\* Whatever sessions others share, the player of a session of its own has one
\* client, and the epolls watch it.
PlayersAreServed ==
    \A i \in DOMAIN clients :
        IsOwn(clients[i].session_id) =>
            /\ clients[i].watched
            /\ \A j \in DOMAIN clients :
                   clients[j].session_id = clients[i].session_id => i = j

\* And its client is deleted when it is its turn in a batch of timeouts, never in
\* the place of another one.
PlayersLeaveWhenDue ==
    [][\A i \in DOMAIN clients :
         IsOwn(clients[i].session_id) /\ clients[i].node \notin Nodes'
         => batch # <<>> /\ batch' = Tail(batch) /\ Head(batch) = clients[i].node]_allVars

\* players_number counts the clients with a name, and their names differ.
PlayersNumberCounts ==
    /\ players_number = Cardinality(Named)
    /\ \A i, j \in Named : clients[i].player_name = clients[j].player_name => i = j

HasClient(player) ==
    \E i \in DOMAIN clients :
        /\ clients[i].session_id = player.session_id
        /\ clients[i].player_name = player.player_name

\* Nobody waits, and nobody plays undisconnected, without a client that could
\* get ready, steer or time out: a lobby is never blocked by a ghost.
NoGhostPlayers ==
    /\ \A i \in DOMAIN waiting : HasClient(waiting[i])
    /\ \A i \in Staying(players) : HasClient(players[i])

\* Once no datagram arrives and no socket fails, every client is dropped.
SilentClientsAreDropped ==
    <>[][UNCHANGED <<clients, inbox>> \/ Loop \/ Expire]_allVars
        => <>[](clients = <<>>)

\* The comment at clients_delete_client: "Delete client with given sock_fd".  So
\* of two clients the one goes that has timed out.
TimeoutDropsItsClient ==
    [][batch # <<>> /\ batch' = Tail(batch) => Head(batch) \notin Nodes']_allVars

TurnsOf(list, sid) ==
    { list[i].turn_direction : i \in { j \in DOMAIN list : list[j].session_id = sid } }

\* What is read in this step from the socket of client i, an empty datagram
\* aside, ends with a valid message that says turn.  The buffer of zeros counts
\* as one for a client of session 0.  A message of a newer session counts too:
\* see NewSessionsReconnect.
Asks(i, turn) ==
    LET queue == clients[i].queue
        read == Len(queue) - Len(clients'[i].queue)
    IN  \/ \E n \in 1 .. read :
               /\ queue[n].turn_direction = turn
               /\ queue[n].form = "VALID" /\ ~IsOld(queue[n], clients[i])
               /\ \A k \in n + 1 .. read : queue[k].form = "EMPTY"
        \/ /\ read > 0 /\ queue[1].form = "EMPTY"
           /\ clients[i].session_id = 0 /\ turn = 0

\* A player turns, straightens, gets ready or unready only as is asked for on
\* the socket of a client of its session, be it asked by a stray datagram of
\* another address: never as an old or a malformed message says, or that of
\* another client.  The end of a game, which makes everybody unready, is apart.
TurnsAreAskedFor ==
    [][\A sid \in Session : \A turn \in Turn :
         /\ TurnsOf(players \o waiting, sid) # {}
         /\ turn \in TurnsOf(players \o waiting, sid)'
         /\ turn \notin TurnsOf(players \o waiting, sid)
         /\ ~(in_progress /\ ~in_progress')
         => \E i \in DOMAIN clients : clients[i].session_id = sid /\ Asks(i, turn)]_allVars

\* The comment in handle_client_message: "Reconnect client."  So a client whose
\* last message is of a newer session goes over to that session.
NewSessionsReconnect ==
    [][\A i \in DOMAIN clients : \A n \in DOMAIN clients[i].queue :
         /\ DOMAIN clients' = DOMAIN clients
         /\ ~clients[i].failed
         /\ Len(clients'[i].queue) < Len(clients[i].queue)
         /\ n = ReadCount(clients[i].queue)
         /\ clients[i].queue[n].form = "VALID"
         /\ clients[i].queue[n].session_id > clients[i].session_id
         => clients'[i].session_id = clients[i].queue[n].session_id]_allVars
=============================================================================
