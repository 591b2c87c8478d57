------------------------------ MODULE Delivery ------------------------------
(***************************************************************************)
(* How a game reaches a player's screen: send_events of                    *)
(* src/server/main.c cuts the event storage into datagrams, the network    *)
(* loses, repeats and reorders them, and handle_server_message of          *)
(* src/client/main.c replays them to the GUI and asks for what is missing. *)
(* The server's side is a script of games, each a log as EventLog allows,  *)
(* some events of which the event storage may fail to take.                *)
(***************************************************************************)
EXTENDS GuiMessages, Lists

CONSTANTS
    Games,      \* the games the server plays: [game_id, log] records
    NameLength, \* how many bytes each name has
    MaxSize,    \* MAX_UDP_SIZE
    PushFailures, \* bound: how many events of a game the storage fails to take
    NetBound,   \* bound: different datagrams in the network at once
    Duplicates  \* bound: how many datagrams the network repeats

ASSUME DeliveryAssumption ==
    /\ Games \in Seq([game_id : Nat, log : Seq(Event)])
    /\ \A k \in DOMAIN Games : WellFormed(Games[k].log) /\ IsOver(Games[k].log)
    /\ NameLength \in [Name -> 1 .. 20]
    /\ {MaxSize, PushFailures, NetBound, Duplicates} \subseteq Nat

VARIABLES
    game,       \* the number of the game that is played or was played last
    played,     \* how many events it has had so far
    log,        \* those of them that are in the server's event storage
    connected,  \* whether the server has this client on its list
    network,    \* the datagrams on their way, of both directions
    duplicates, \* how many have been repeated
    client,     \* what the client knows and its GUI shows: see ClientType
    has_exited  \* fatal has ended the client

vars == <<game, played, log, connected, network, duplicates, client, has_exited>>

game_id == IF game = 0 THEN 0 ELSE Games[game].game_id

\* What the GUI shows is what it has been told since the last NEW_GAME.
ClientType ==
    [current_game_id : Nat, next_expected_event_no : Nat,
     players_names : Seq(Name), width : Nat, height : Nat, shown : Seq(GuiLine)]

Init ==
    /\ game = 0 /\ played = 0 /\ log = <<>>
    /\ connected = FALSE
    /\ network = {} /\ duplicates = 0
    /\ client = [current_game_id |-> 0, next_expected_event_no |-> 0,
                 players_names |-> <<>>, width |-> 0, height |-> 0,
                 shown |-> <<>>]
    /\ has_exited = FALSE

-----------------------------------------------------------------------------
(* Datagrams *)

Request(no) == [kind |-> "REQUEST", next_expected_event_no |-> no]

Message(id, events) == [kind |-> "EVENTS", game_id |-> id, events |-> events]

Requests == { m \in network : m.kind = "REQUEST" }
Messages == { m \in network : m.kind = "EVENTS" }

\* The sum of a sequence of numbers.
Total(numbers) ==
    LET sum[k \in 0 .. Len(numbers)] == IF k = 0 THEN 0 ELSE sum[k - 1] + numbers[k]
    IN  sum[Len(numbers)]

\* An event takes 13 bytes, its data and, in NEW_GAME, the names and their ends.
EventSize(event) ==
    13 + (CASE event.type = "NEW_GAME" ->
                  8 + Total([k \in DOMAIN event.players_names |->
                                 NameLength[event.players_names[k]] + 1])
            [] event.type = "PIXEL" -> 9
            [] event.type = "ELIMINATED" -> 1
            [] event.type = "GAME_OVER" -> 0)

\* With the game_id at the head of a datagram.
DataSize(events) == 4 + Total([k \in DOMAIN events |-> EventSize(events[k])])

\* (mutant) It is too late when a datagram is found to be too long.
IsRoomFor_TooLate(events) == DataSize(Front(events)) <= MaxSize

\* Whether the last of the events is in the same datagram as those before it.
IsRoomFor(events) == DataSize(events) <= MaxSize

\* A datagram that starts after event_no events ends before the first event, but
\* one, for which there is no room.
EndOf(l, event_no) ==
    Min({ n \in event_no + 1 .. Len(l) :
            n = Len(l) \/ ~IsRoomFor(SubSeq(l, event_no + 1, n + 1)) })

\* The datagrams for a client that has the events before event_no.
Parts(l, event_no) ==
    LET parts[no \in 0 .. Len(l)] ==
            IF no = Len(l) THEN <<>>
            ELSE <<SubSeq(l, no + 1, EndOf(l, no))>> \o parts[EndOf(l, no)]
    IN  IF event_no > Len(l) - 1 THEN <<>> ELSE parts[event_no]

\* (mutant) The number of the last event is taken for the number of events.
Requested_AllButLast(no) == IF no >= Len(log) - 1 THEN <<>> ELSE Parts(log, no)

\* (mutant) A datagram is sent even if there is no event for it.
Requested_Empty(no) == IF no > Len(log) - 1 THEN << <<>> >> ELSE Parts(log, no)

Requested(no) == Parts(log, no)

\* The first n of them are sent: a send that fails is the last one.  More than
\* the network has room for are not sent.
send_events(net, id, parts, n) ==
    /\ network' = net \cup { Message(id, parts[k]) : k \in 1 .. n }
    /\ Cardinality(network') <= NetBound

-----------------------------------------------------------------------------
(* The server *)

\* event_storage_push fails for some of the new events, and nobody looks.
Stored(new) ==
    { [k \in DOMAIN e |-> new[e[k]]] :
        e \in UNION { Enumerations(kept) : kept \in SUBSET DOMAIN new } }

\* handle_round files the events of the game up to the n-th in the storage (the
\* ones before the round are there already) and sends the client what stands
\* there from the number of the first new one on.
Publish(before, n) ==
    /\ played' = n
    /\ \E stored \in Stored(SubSeq(Games[game'].log, before + 1, n)) :
           log' = (IF before = 0 THEN <<>> ELSE log) \o stored
    /\ n - Len(log') <= PushFailures
    /\ \/ connected /\ \E sent \in 0 .. Len(Parts(log', before)) :
                            send_events(network, game_id', Parts(log', before), sent)
       \/ ~connected /\ UNCHANGED network
    /\ UNCHANGED <<connected, duplicates, client, has_exited>>

IsPlaying == game > 0 /\ played # Len(Games[game].log)

\* The first round of a game: everyone enters.
BeginGame ==
    /\ ~IsPlaying /\ game < Len(Games)
    /\ game' = game + 1
    /\ Publish(0, 1 + PlayersOf(Games[game'].log))

\* Any later round.
PlayRound ==
    /\ IsPlaying
    /\ UNCHANGED game
    /\ \E n \in played + 1 .. Len(Games[game].log) : Publish(played, n)

Round == BeginGame \/ PlayRound

\* handle_client_request, for a client on the list or a new one: least of the
\* datagrams are sent, or more.
Answer(request, least) ==
    /\ connected' = TRUE
    /\ UNCHANGED <<game, played, log, duplicates, client, has_exited>>
    /\ \E parts \in {Requested(request.next_expected_event_no)} :
       \E n \in least .. Len(parts) :
           send_events(network \ {request}, game_id, parts, n)

handle_client_request == \E request \in Requests : Answer(request, 0)

\* Two seconds without a request: the client is deleted.
DropClient ==
    /\ connected /\ connected' = FALSE
    /\ UNCHANGED <<game, played, log, network, duplicates, client, has_exited>>

-----------------------------------------------------------------------------
(* The network *)

\* A datagram that is spoilt on the way is lost as well: game_client_recv takes
\* none of its events if deserialize_game_event refuses one.
Lose ==
    /\ \E m \in network : network' = network \ {m}
    /\ UNCHANGED <<game, played, log, connected, duplicates, client, has_exited>>

\* What becomes of a datagram that is received: it may come again.
Receive(m) ==
    \/ network' = network \ {m} /\ UNCHANGED duplicates
    \/ /\ duplicates < Duplicates /\ duplicates' = duplicates + 1
       /\ UNCHANGED network

-----------------------------------------------------------------------------
(* The client *)

\* handle_tick, every 30 milliseconds.
handle_tick ==
    /\ ~has_exited
    /\ network' = network \cup {Request(client.next_expected_event_no)}
    /\ Cardinality(network') <= NetBound
    /\ UNCHANGED <<game, played, log, connected, duplicates, client, has_exited>>

\* (mutant) The client goes on from the number it has reached.
on_game_restart_KeepsNumber(c, id) ==
    [c EXCEPT !.current_game_id = id, !.players_names = <<>>]

on_game_restart(c, id) ==
    [c EXCEPT !.current_game_id = id, !.next_expected_event_no = 0,
              !.players_names = <<>>]

\* (mutant) A late datagram that overlaps what is known is taken as well.
IsExpected_OrLater(no, event) == event.event_no >= no

IsExpected(no, event) == event.event_no = no

\* on_event_new_game: what a client knows once it has taken a NEW_GAME.
on_event_new_game(c, event) ==
    IF IsExpected(c.next_expected_event_no, event) /\ event.type = "NEW_GAME"
    THEN [c EXCEPT !.players_names = event.players_names,
                   !.width = event.max_x, !.height = event.max_y]
    ELSE c

\* The checks of on_event_new_game, on_event_pixel and on_event_player_eliminated.
IsIllegal(c, event) ==
    \/ /\ event.type = "NEW_GAME"
       /\ event.event_no # 0 \/ Len(event.players_names) < 2
    \/ IsMove(event) /\ event.player_number >= Len(c.players_names)
    \/ /\ event.type = "PIXEL"
       /\ event.pixel[1] >= c.width \/ event.pixel[2] >= c.height

\* What the GUI shows once it is told of the events: NEW_GAME clears the screen.
Show(shown, names, events) ==
    IF events # <<>> /\ events[1].type = "NEW_GAME" THEN Lines(names, events)
    ELSE shown \o Lines(names, events)

\* The loop over the events of a datagram takes the first n of them: it ends
\* at an event that is not the next one, at an illegal one and at the one,
\* numbered broken, that the GUI does not take.
IsStopped(c, events, n, broken) ==
    \/ ~IsExpected(c.next_expected_event_no + n, events[n + 1])
    \/ IsIllegal(c, events[n + 1])
    \/ events[n + 1].event_no = broken

Taken(c, events, broken) ==
    Min({ n \in 0 .. Len(events) : n = Len(events) \/ IsStopped(c, events, n, broken) })

Whole == -1

handle_server_message(m, broken) ==
    /\ ~has_exited
    /\ UNCHANGED <<game, played, log, connected>>
    /\ Receive(m)
    /\ LET known == IF m.game_id = client.current_game_id THEN client
                    ELSE on_game_restart(client, m.game_id)
           told == on_event_new_game(known, m.events[1])
       IN  \E n \in {Taken(told, m.events, broken)} :
             /\ client' =
                    [told EXCEPT !.next_expected_event_no = @ + n,
                                 !.shown = Show(@, told.players_names, SubSeq(m.events, 1, n))]
             /\ has_exited' =
                    /\ n < Len(m.events)
                    /\ IsExpected(told.next_expected_event_no + n, m.events[n + 1])
                    /\ IsIllegal(told, m.events[n + 1])

Breaks(m) ==
    {Whole} \cup { e.event_no : e \in { x \in Range(m.events) : x.type # "GAME_OVER" } }

Listen == \E m \in Messages : \E broken \in Breaks(m) : handle_server_message(m, broken)

-----------------------------------------------------------------------------
Next == Round \/ handle_client_request \/ DropClient \/ Lose \/ handle_tick \/ Listen

Spec == Init /\ [][Next]_vars

\* The timers tick and games end.  The network keeps nothing for ever; and what
\* is sent again and again arrives again and again: the request the client now
\* makes, with its answer sent, and the datagram the client waits for.
Fairness ==
    /\ WF_vars(Round) /\ WF_vars(handle_tick)
    /\ WF_vars(Lose \/ handle_client_request \/ Listen)
    /\ SF_vars(\E request \in Requests :
                  /\ request = Request(client.next_expected_event_no)
                  /\ Answer(request, 1))
    /\ SF_vars(\E m \in Messages :
                  /\ \/ m.game_id # client.current_game_id
                     \/ IsExpected(client.next_expected_event_no, m.events[1])
                  /\ handle_server_message(m, Whole))

FairSpec == Spec /\ Fairness

-----------------------------------------------------------------------------
(* Properties *)

\* Every variable holds a value of its C type.
DeliveryTypeOK ==
    /\ game \in 0 .. Len(Games)
    /\ log \in Seq(Event) /\ played - Len(log) \in 0 .. PushFailures
    /\ connected \in BOOLEAN
    /\ \A m \in Messages : m.events \in Seq(Event) /\ m.events # <<>>
    /\ \A m \in Requests : m.next_expected_event_no \in Nat
    /\ duplicates \in 0 .. Duplicates
    /\ client \in ClientType
    /\ has_exited \in BOOLEAN

\* No datagram is longer than what the protocol allows, whatever event_no it
\* starts from, as long as no event alone is.
DatagramsFit == \A m \in Messages : DataSize(m.events) <= MaxSize

KnownOf(k) == IF k = game THEN SubSeq(Games[k].log, 1, played) ELSE Games[k].log

\* The screen tells the beginning of one game the server has played, under the
\* names of that game, never of two games mixed nor with a hole, even if the
\* storage has one; and it is just what the client has counted.
ScreenTellsOneGame ==
    \/ client.next_expected_event_no = 0
    \/ \E k \in 1 .. game :
           /\ Games[k].game_id = client.current_game_id
           /\ client.next_expected_event_no <= Len(KnownOf(k))
           /\ client.shown = Show(<<>>, Games[k].log[1].players_names,
                  SubSeq(KnownOf(k), 1, client.next_expected_event_no))

\* No order of the datagrams makes the client find an event illegal and exit.
NothingIsIllegal == ~has_exited

\* How many events the storage holds before the first one it has lost.
Unbroken(l) == Max({ n \in 0 .. Len(l) : Numbered(SubSeq(l, 1, n)) })

CaughtUp ==
    /\ client.current_game_id = game_id
    /\ client.next_expected_event_no = Unbroken(log)

\* A client that has not heard of the last game, and whose number is no lower
\* than those of its events: its requests are answered with nothing.
IsLeftBehind ==
    /\ client.current_game_id # game_id
    /\ client.next_expected_event_no >= Len(log)

\* When the games are over, the client has all of the last one up to the first
\* event that the storage has lost, or has never heard of it.  The comment in
\* send_events promises more, "In every case wait for next client request": a
\* client that is left behind waits in vain.
ClientCatchesUp == <>[](CaughtUp \/ IsLeftBehind)
=============================================================================
