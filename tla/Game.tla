-------------------------------- MODULE Game --------------------------------
(***************************************************************************)
(* The worms game of src/server/game.c, with the part of handle_round      *)
(* (src/server/main.c) that files the events of a tick in the storage.     *)
(*                                                                         *)
(* The server is one thread, so every operation is one atomic action.  The *)
(* lists are sequences.  A worm is kept as the pixel it is in: where its   *)
(* next step leads is any pixel next to it, whatever its direction.        *)
(***************************************************************************)
EXTENDS Events, Lists

CONSTANTS
    Session,    \* session_id of the clients
    Entrants,   \* who may join: pairs of a session and a name or NoName
    NoName,     \* the empty name of an observer
    Rank,       \* the order strcasecmp gives to the names
    GameId,     \* the values rand_get() gives to games
    Turn,       \* turn_direction: 0 is "not ready" or "straight"
    Sharp,      \* whether turning_speed is above 90 degrees
    ReadyBound  \* no player gets ready when players_ready is at this bound

ASSUME GameAssumption ==
    /\ Entrants \subseteq Session \X (Name \cup {NoName})
    /\ NoName \notin Name
    /\ Rank \in [Name -> Nat]
    /\ 0 \in Turn /\ Turn \subseteq Nat
    /\ Sharp \in BOOLEAN
    /\ ReadyBound \in Nat

VARIABLES
    in_progress,
    game_id,
    next_event_no,
    players,            \* the players of the game in progress
    waiting,            \* the players that wait for the next one
    observers,          \* the sessions of the observers
    board,              \* the eaten pixels
    players_alive,
    players_ready,
    log,                \* the content of the event storage
    is_game_in_progress \* what handle_round last saw of in_progress

lists == <<players, waiting, observers>>
events == <<game_id, log, is_game_in_progress>>
vars == <<in_progress, next_event_no, lists, board, players_alive,
          players_ready, events>>

-----------------------------------------------------------------------------
(* Players and lists of players *)

Flags == {"WAITING", "IN_GAME", "DEAD", "DISCONNECTED"}

Origin == <<0, 0>>

\* pos is read only for a worm in the game: a player that waits keeps the
\* origin, and a dead worm the last pixel it was in.  must_move is true of
\* a worm that cannot stay in its pixel with its next step: see Reach.
Player == [session_id : Session, player_name : Name, turn_direction : Turn,
           status : SUBSET Flags, pos : Pixels, must_move : BOOLEAN]

player_create(sid, name) ==
    [session_id |-> sid, player_name |-> name, turn_direction |-> 0,
     status |-> {"WAITING"}, pos |-> Origin, must_move |-> TRUE]

Has(list, sid) == \E i \in DOMAIN list : list[i].session_id = sid

\* The first player of the list with this session.
IsFound(list, sid, i) ==
    /\ i \in DOMAIN list
    /\ list[i].session_id = sid
    /\ \A j \in 1 .. i - 1 : list[j].session_id # sid

\* sort_players takes the first of the least names again and again.
sort_players(list) ==
    Sorts(list, [player \in Range(list) |-> Rank[player.player_name]])

Ready(list) == { i \in DOMAIN list : list[i].turn_direction # 0 }
Live(list) == { i \in DOMAIN list : "DEAD" \notin list[i].status }

-----------------------------------------------------------------------------
(* The board: one bit for each pixel, in the code *)

game_board_create == {}

game_board_get(pixel) == pixel \in board

game_board_set(pixels) == board' = board \cup pixels

-----------------------------------------------------------------------------
game_create ==
    /\ in_progress = FALSE
    /\ game_id = 0
    /\ next_event_no = 0
    /\ players = <<>> /\ waiting = <<>> /\ observers = {}
    /\ board = game_board_create
    /\ players_alive = 0 /\ players_ready = 0

Init == game_create /\ log = <<>> /\ is_game_in_progress = FALSE

-----------------------------------------------------------------------------
(* Operations on behalf of a client *)

add_observer(sid) ==
    /\ observers' = observers \cup {sid}
    /\ UNCHANGED <<players, waiting>>

\* (mutant) Only the lobby is searched.
IsKnown_LobbyOnly(sid) == Has(waiting, sid)

\* Any entry of the session will do, one that is disconnected too.
IsKnown(sid) == Has(players, sid) \/ Has(waiting, sid)

add_player(sid, name) ==
    /\ waiting' = IF IsKnown(sid) THEN waiting
                                  ELSE list_add(waiting, player_create(sid, name))
    /\ UNCHANGED <<players, observers>>

game_add_player(sid, name) ==
    /\ \/ name = NoName /\ add_observer(sid)
       \/ name # NoName /\ add_player(sid, name)
    /\ UNCHANGED <<in_progress, next_event_no, board, players_alive,
                   players_ready, events>>

RemoveObserver(sid) ==
    /\ sid \in observers
    /\ observers' = observers \ {sid}
    /\ UNCHANGED <<players, waiting>>

RemoveWaiting(sid) ==
    /\ sid \notin observers
    /\ \E i \in DOMAIN waiting :
           IsFound(waiting, sid, i) /\ waiting' = list_remove(waiting, i)
    /\ UNCHANGED <<players, observers>>

\* (mutant) The player is taken off the list.
Disconnect_ByRemoval(sid) ==
    /\ sid \notin observers /\ ~Has(waiting, sid)
    /\ \E i \in DOMAIN players :
           IsFound(players, sid, i) /\ players' = list_remove(players, i)
    /\ UNCHANGED <<waiting, observers>>

\* A player of the game stays on its list, and its worm on the board.
Disconnect(sid) ==
    /\ sid \notin observers /\ ~Has(waiting, sid)
    /\ \E i \in DOMAIN players :
           /\ IsFound(players, sid, i)
           /\ players' = [players EXCEPT ![i].status = @ \cup {"DISCONNECTED"}]
    /\ UNCHANGED <<waiting, observers>>

IsAbsent(sid) == sid \notin observers /\ ~IsKnown(sid)

game_remove_player(sid) ==
    /\ \/ RemoveObserver(sid) \/ RemoveWaiting(sid) \/ Disconnect(sid)
       \/ IsAbsent(sid) /\ UNCHANGED lists
    /\ UNCHANGED <<in_progress, next_event_no, board, players_alive,
                   players_ready, events>>

\* (mutant) Every message with direction 0 counts as a player getting unready.
ReadyDelta_Unguarded(old, new) == IF old = 0 /\ new > 0 THEN 1
                                  ELSE IF new = 0 THEN -1 ELSE 0

\* How players_ready follows a change of direction in the lobby.
ReadyDelta(old, new) == IF old = 0 /\ new > 0 THEN 1
                        ELSE IF old > 0 /\ new = 0 THEN -1 ELSE 0

Steer(sid, turn) ==
    /\ in_progress
    /\ \E i \in DOMAIN players :
           /\ IsFound(players, sid, i)
           /\ players' = [players EXCEPT ![i].turn_direction = turn]
    /\ UNCHANGED <<waiting, players_ready>>

GetReady(sid, turn) ==
    /\ ~in_progress
    /\ \E i \in DOMAIN waiting :
           /\ IsFound(waiting, sid, i)
           /\ players_ready' = players_ready
                                 + ReadyDelta(waiting[i].turn_direction, turn)
           /\ players_ready' <= ReadyBound
           /\ waiting' = [waiting EXCEPT ![i].turn_direction = turn]
    /\ UNCHANGED players

game_set_turn_direction(sid, turn) ==
    /\ \/ Steer(sid, turn) \/ GetReady(sid, turn)
       \/ /\ ~Has(IF in_progress THEN players ELSE waiting, sid)
          /\ UNCHANGED <<players, waiting, players_ready>>
    /\ UNCHANGED <<in_progress, next_event_no, observers, board,
                   players_alive, events>>

-----------------------------------------------------------------------------
(* A round that finds no game in progress *)

CanStart == players_ready > 1 /\ Len(waiting) = players_ready

\* The players of a new game, at the pixels rand_get() draws for them.  One
\* that enters on an eaten pixel, or on that of a player before it, is dead.
IsTaken(spawn, i) ==
    game_board_get(spawn[i]) \/ \E j \in 1 .. i - 1 : spawn[j] = spawn[i]

Enter(player, pixel, taken) ==
    [player EXCEPT !.pos = pixel, !.must_move = TRUE,
                   !.status = @ \cup {"IN_GAME"} \cup (IF taken THEN {"DEAD"} ELSE {})]

Entering(list, spawn) ==
    [i \in DOMAIN list |-> Enter(list[i], spawn[i], IsTaken(spawn, i))]

NamesOf(list) == [i \in DOMAIN list |-> list[i].player_name]

StartEvents(list, spawn) ==
    <<NewGameEvent(next_event_no, NamesOf(list))>> \o
        [i \in DOMAIN list |->
            IF IsTaken(spawn, i)
            THEN EliminatedEvent(next_event_no + i, i - 1)
            ELSE PixelEvent(next_event_no + i, i - 1, spawn[i])]

\* (mutant) The storage of the last game is kept.
handle_round_KeepsStorage(new) ==
    \/ /\ ~is_game_in_progress /\ in_progress'
       /\ is_game_in_progress' = TRUE /\ log' = log \o new
    \/ /\ is_game_in_progress /\ ~in_progress'
       /\ is_game_in_progress' = FALSE /\ log' = log \o new
    \/ /\ is_game_in_progress = in_progress'
       /\ UNCHANGED is_game_in_progress /\ log' = log \o new

\* What handle_round makes of a tick: a game that has started gets a new
\* storage, one that has ended keeps its own, and the events of the tick are
\* filed.
handle_round(new) ==
    \/ /\ ~is_game_in_progress /\ in_progress'
       /\ is_game_in_progress' = TRUE /\ log' = new
    \/ /\ is_game_in_progress /\ ~in_progress'
       /\ is_game_in_progress' = FALSE /\ log' = log \o new
    \/ /\ is_game_in_progress = in_progress'
       /\ UNCHANGED is_game_in_progress /\ log' = log \o new

game_tick_waiting ==
    /\ ~in_progress
    /\ CanStart
    /\ in_progress' = TRUE
    /\ game_id' \in GameId
    /\ \E list \in sort_players(waiting) :
       \E spawn \in [DOMAIN list -> Pixels] :
           /\ players' = Entering(list, spawn)
           /\ players_alive' = Len(list)
                  - Cardinality({ i \in DOMAIN list : IsTaken(spawn, i) })
           /\ game_board_set({ spawn[i] : i \in DOMAIN list })
           /\ next_event_no' = next_event_no + 1 + Len(list)
           /\ handle_round(StartEvents(list, spawn))
    /\ waiting' = players
    /\ UNCHANGED <<observers, players_ready>>

-----------------------------------------------------------------------------
(* A round of the game *)

\* Where a step of length 1 can lead: to a pixel next to the worm's, or
\* nowhere.  A worm that has just entered does not stay: it starts from the
\* middle of its pixel, whose corners are 0.71 away.  Nor does a worm that has
\* stayed once and turns by 90 degrees at most: two such steps lead 1.41 away
\* or more, the length of the pixel's diagonal.
Outside == <<Width, Height>>    \* any place off the board

Around(pixel) ==
    LET near == (pixel[1] - 1 .. pixel[1] + 1) \X (pixel[2] - 1 .. pixel[2] + 1)
    IN  (near \cap Pixels) \cup (IF near \subseteq Pixels THEN {} ELSE {Outside})

Reach(worm) == Around(worm.pos) \ (IF worm.must_move THEN {worm.pos} ELSE {})

Moves ==
    { to \in [Live(players) -> Pixels \cup {Outside}] :
        \A i \in Live(players) : to[i] \in Reach(players[i]) }

\* The worms that leave their pixel, and those of them that die: off the
\* board, or in a pixel that is eaten, be it by an earlier worm of this round.
Movers(to) == { i \in DOMAIN to : to[i] # players[i].pos }

\* (mutant) The board is read as it was before the round.
Crashes_StaleBoard(to, i) == to[i] \notin Pixels \/ to[i] \in board

Crashes(to, i) ==
    \/ to[i] \notin Pixels
    \/ game_board_get(to[i])
    \/ \E j \in Movers(to) : j < i /\ to[j] = to[i]

Crashed(to) == { i \in Movers(to) : Crashes(to, i) }

\* (mutant) The flag is not set.
Die_Unmarked(worm) == worm

Die(worm) == [worm EXCEPT !.status = @ \cup {"DEAD"}]

Move(worm, pixel) ==
    [worm EXCEPT !.pos = pixel, !.must_move = (pixel = worm.pos) /\ ~Sharp]

Moved(to) ==
    [i \in DOMAIN players |->
        IF i \notin DOMAIN to THEN players[i]
        ELSE IF i \in Crashed(to) THEN Die(players[i])
        ELSE Move(players[i], to[i])]

\* (mutant) player_num counts the worms alive only.
MoveEvents_LiveNumbers(to, e) ==
    LET Number(i) == Cardinality({ j \in DOMAIN to : j < i })
    IN  [k \in DOMAIN e |->
            IF e[k] \in Crashed(to)
            THEN EliminatedEvent(next_event_no + k - 1, Number(e[k]))
            ELSE PixelEvent(next_event_no + k - 1, Number(e[k]), to[e[k]])]

MoveEvents(to, e) ==
    [k \in DOMAIN e |->
        IF e[k] \in Crashed(to)
        THEN EliminatedEvent(next_event_no + k - 1, e[k] - 1)
        ELSE PixelEvent(next_event_no + k - 1, e[k] - 1, to[e[k]])]

\* (mutant) The dead are dropped with the disconnected.
Staying_Alive(list) == Live(list) \ { i \in DOMAIN list : "DISCONNECTED" \in list[i].status }

Staying(list) == { i \in DOMAIN list : "DISCONNECTED" \notin list[i].status }

\* (mutant) The directions survive the end of the game.
Reset_KeepsTurn(player) ==
    [player EXCEPT !.status = {"WAITING"}, !.pos = Origin, !.must_move = TRUE]

Reset(player) ==
    [player EXCEPT !.turn_direction = 0, !.status = {"WAITING"},
                   !.pos = Origin, !.must_move = TRUE]

\* After a game, who is still connected waits again, behind those that came
\* during the game, and nobody is ready.
Lobby(list, e) ==
    LET all == waiting \o [k \in DOMAIN e |-> list[e[k]]]
    IN  [i \in DOMAIN all |-> Reset(all[i])]

game_restart(list) ==
    /\ in_progress' = FALSE
    /\ players_ready' = 0 /\ players_alive' = 0 /\ next_event_no' = 0
    /\ board' = game_board_create
    /\ players' = <<>>
    /\ \E e \in Enumerations(Staying(list)) : waiting' = Lobby(list, e)

\* (mutant) A round that kills the last two worms decides nothing.
IsDecided_ByOne(alive) == alive = 1

IsDecided(alive) == alive <= 1

GoOn(to, moves) ==
    /\ players_alive' = players_alive - Cardinality(Crashed(to))
    /\ ~IsDecided(players_alive')
    /\ players' = Moved(to)
    /\ game_board_set({ to[i] : i \in Movers(to) \ Crashed(to) })
    /\ next_event_no' = next_event_no + Len(moves)
    /\ UNCHANGED <<in_progress, waiting, players_ready>>
    /\ handle_round(moves)

Finish(to, moves) ==
    /\ IsDecided(players_alive - Cardinality(Crashed(to)))
    /\ game_restart(Moved(to))
    /\ handle_round(Append(moves, GameOverEvent(next_event_no + Len(moves))))

game_tick_in_progress ==
    /\ in_progress
    /\ \E to \in Moves : \E e \in Enumerations(Movers(to)) :
           GoOn(to, MoveEvents(to, e)) \/ Finish(to, MoveEvents(to, e))
    /\ UNCHANGED <<observers, game_id>>

Round == game_tick_waiting \/ game_tick_in_progress

Next ==
    \/ \E entrant \in Entrants : game_add_player(entrant[1], entrant[2])
    \/ \E sid \in Session : game_remove_player(sid)
    \/ \E sid \in Session, turn \in Turn : game_set_turn_direction(sid, turn)
    \/ Round

\* The round timer is periodic and the loop serves it first.  Of the lobby nothing
\* is assumed: nobody has to get ready.
Fairness == WF_vars(game_tick_in_progress)

Spec == Init /\ [][Next]_vars
FairSpec == Spec /\ Fairness

-----------------------------------------------------------------------------
(* Properties *)

\* Every variable holds a value of its C type.
TypeOK ==
    /\ in_progress \in BOOLEAN /\ is_game_in_progress \in BOOLEAN
    /\ game_id \in GameId \cup {0}
    /\ next_event_no \in Nat
    /\ players \in Seq(Player) /\ waiting \in Seq(Player)
    /\ observers \in SUBSET Session
    /\ board \in SUBSET Pixels
    /\ players_alive \in Nat /\ players_ready \in 0 .. ReadyBound
    /\ log \in Seq(Event)

\* players_alive counts the worms alive, however many of them die in the same
\* round or enter on a taken pixel; an idle game has no players and no worms.
CountsAlive ==
    /\ players_alive = Cardinality(Live(players))
    /\ in_progress <=> players # <<>>

\* A session has one entry at most in the two lists of players, so that
\* find_player and game_remove_player cannot miss one of two.
OneEntryPerSession ==
    LET all == players \o waiting
    IN  \A i, j \in DOMAIN all :
            all[i].session_id = all[j].session_id => i = j

\* players_ready-- never wraps around: players_ready is no less than the number
\* of the players that are ready, whatever leaves and restarts come between,
\* and during a game none of those who wait is ready.
ReadyCovers ==
    /\ Cardinality(Ready(waiting)) <= players_ready
    /\ in_progress => Ready(waiting) = {}

\* What the storage holds is the story of the game: it is well formed, a
\* player_number is a position of the list of players, the next event goes
\* behind the last one, the eaten pixels and the dead are those of the events.
LogTellsTheGame ==
    in_progress =>
        /\ WellFormed(log)
        /\ Len(log) = next_event_no
        /\ log[1].players_names = NamesOf(players)
        /\ board = { log[k].pixel : k \in { j \in DOMAIN log : log[j].type = "PIXEL" } }
        /\ Eliminated(log) = { i - 1 : i \in DOMAIN players \ Live(players) }

\* A worm alive is in the game, inside the board (the assertions of
\* game_tick_in_progress) and in the pixel of its last event.
WormsAreWhereTheLogSays ==
    \A i \in Live(players) :
        /\ "IN_GAME" \in players[i].status
        /\ \E k \in DOMAIN log :
               /\ IsMove(log[k]) /\ log[k].player_number = i - 1
               /\ \A j \in k + 1 .. Len(log) :
                      IsMove(log[j]) => log[j].player_number # i - 1
               /\ log[k].type = "PIXEL" /\ log[k].pixel = players[i].pos

\* handle_round's own flag follows the game: the storage is reset when a game
\* starts and at no other time, and keeps the whole of the last game after it.
StorageFollowsGame ==
    /\ is_game_in_progress = in_progress
    /\ ~in_progress => log = <<>> \/ (WellFormed(log) /\ IsOver(log))

\* During a game the list of players keeps its order and its members, the dead
\* stay dead and the disconnected stay disconnected: a player_number that was
\* sent means the same worm to the end.
RosterIsFixed ==
    [][in_progress /\ in_progress' =>
         /\ DOMAIN players' = DOMAIN players
         /\ \A i \in DOMAIN players :
                /\ players'[i].session_id = players[i].session_id
                /\ players'[i].player_name = players[i].player_name
                /\ players[i].status \subseteq players'[i].status]_vars

IsPresent(sid) ==
    \/ Has(waiting, sid)
    \/ \E i \in DOMAIN players :
           players[i].session_id = sid /\ "DISCONNECTED" \notin players[i].status

\* A player that has joined is dropped by game_remove_player alone: neither the
\* start of a game, nor its end, nor a death loses one.
NobodyIsForgotten ==
    [][\A sid \in Session :
         IsPresent(sid) /\ ~IsPresent(sid)' => game_remove_player(sid)]_vars

\* The log of the storage, seen from outside, is the log EventLog promises.
Follows == INSTANCE EventLog WITH game_id <- game_id, log <- log
ImplementsEventLog == Follows!Spec

\* Every game ends: worms cannot stay in their pixels, and pixels run out.
GameEnds == in_progress ~> ~in_progress

\* The comment at the start condition: "If there are at least 2 players and all
\* of them are ready, start the game."
StartsOnlyWhenAllReady ==
    [][~in_progress /\ in_progress' => Ready(waiting) = DOMAIN waiting]_vars
=============================================================================
