# Screen Worms: a verification development

Screen Worms is a multiplayer game over UDP.  A *server* keeps one game at a time, moves the worms in
rounds and sends the events of the game; each player runs a *client*, which sends the player's direction
and asks for the events it lacks, and replays them over TCP to a *GUI*.  This directory holds TLA+ modules
translated from the C sources of the server, of the client and of the GUI, the configurations TLC checks, and theorems
proved with TLAPS.  `PROJECT.json` maps every definition to the lines it models.  Paths below are those of
`src/`, so that `server/game.c` is `src/src/server/game.c`.

## 1. The system

### Components

| component | source | state | operations | what makes it correct |
|---|---|---|---|---|
| game | `server/game.c` | lists `players`, `waiting`, `observers`; board; `players_alive`, `players_ready`; `next_event_no`, `game_id`, `in_progress` | join, leave, steer or get ready, round | the two counters agree with the lists; one entry per session; nobody is lost between games; the events tell what happened on the board; a game ends |
| main loop and handlers | `server/main.c` | three epolls, timers, `is_game_in_progress` | round, timeouts, new client, client messages | whatever the order of handlers and datagrams, a player with a session of its own keeps its client until its own timeout, and no player is without one; silent clients go |
| clients collection | `server/clients.c` | list of clients, `players_number` | create, delete by session, look up a name | the count is exact, names are unique |
| event storage | `server/events_storage.c`, `common/stack.c` | one block of bytes, a stack of the events in it | create, push, read, free | events are contiguous, in bounds, and survive failed allocations |
| sending of events | `server/main.c` (`send_events`) | — | cut a part of the log into datagrams | a datagram fits; a request gets what is missing |
| client | `client/main.c` | `current_game_id`, `next_expected_event_no`, names and board of the game | tick, message from the server, message from the GUI | the screen shows a beginning of one game; lost datagrams are made up for; no order of datagrams ends the client |
| game client, GUI client | `client/game_client.c`, `client/gui_client.c` | socket, buffer of the GUI's stream | send, receive | part of a message costs this message alone; the client does not outlive the GUI |
| GUI messages | `client/gui_messages.c` | — | write lines, parse key messages | the direction is that of the keys that are down |
| protocol messages, checksum | `common/messages.c`, `common/crc32.c` | — | serialize, deserialize | a message read is the one written |
| list, board, random numbers | `common/list.c`, `server/game_board.c`, `server/rand.c` | nodes; bits; 32-bit seed | add, remove; get, set; next | nodes are well linked and implement a sequence; a board is a set; game ids differ |
| arguments, utilities | `server/server_args.c`, `client/client_args.c`, `common/utils.c`, `common/err.c` | — | parse | — |
| GUI program | `gui/gui2` | `kolgracz` (players and their labels), the drawing, `started` | keys, arrows, lines from the client, resizing | the screen shows what has been told since it was made anew; it crashes only for a known reason; it does not outlive the client |

### How they interact

* The **server** is one thread.  `main` waits on one epoll, notes in `loop_actions` which of four things are
  ready (the round timer, some client's timeout, the server's socket, some client's socket), and serves them in
  that order.  So handlers never interleave with each other, but datagrams arrive, timers expire and sockets
  fail between the snapshot and the moment it is used, and while a batch of epoll results is worked off.
* Each client of the server has its own connected UDP socket and a timer of two seconds that every
  readable event of the socket restarts.  `handle_new_client` creates it, and `handle_timeouts` is the only way it goes.
* `handle_round` calls `game_tick`, files the events it returns in the storage (a new storage when a game has
  started) and sends them to every client.
* The **client** is one thread too: a tick each 30 ms sends the direction and `next_expected_event_no`, which the
  server answers with all events from that number on, as many datagrams as it takes; between them the network
  may lose, repeat and reorder.
* Client and **GUI** share one TCP connection.  The client writes a line per event and waits (its one thread, with its
  tick) while the connection is full; the GUI writes a message per key and exits if the connection is full, since its
  socket does not block.  Each reads what has arrived, which may end in the middle of a line: `readLine` then
  throws the part away, and `gui_client_recv_event` takes the part for an unknown message.  The GUI reads nothing before
  the first key.

### What is hard

Counters kept beside lists (`players_ready`, `players_alive`, `players_number`) through any sequence of joins,
departures and games; sessions that come back; the order of worms within a round; parts of two games on
the way at once; requests with numbers of another game; a log that is cut anywhere; allocations that fail half way
through a push or a sort; two processes that fill one connection from both ends.  The complete list is `hazards` in `PROJECT.json`, each at its line, with the property that covers it or
the reason why none does.

## 2. The modules

| module | models | extends |
|---|---|---|
| `Events` | the events of `common/messages.h` and the grammar of a game's log (`WellFormed`) | community modules |
| `EventLog` | **abstract specification**: what a follower of the log may rely on | `Events` |
| `Lists` | `common/list.c` as sequences: `list_add`, `list_remove`, and what a loop over a list, or a stable sort, amounts to | community modules |
| `Game` | all of `server/game.c`, with the part of `handle_round` that files events; implements `EventLog` | `Events`, `Lists` |
| `Server` | `server/clients.c`, the loop and the handlers of `server/main.c`, **around Game** | `Game` |
| `GuiMessages` | `client/gui_messages.c`: the lines for the GUI and its key messages | `Events` |
| `Delivery` | `send_events`, the network, the server's side of `client/main.c` | `GuiMessages` |
| `GuiLink` | the GUI's side of `client/main.c`, `client/gui_client.c`, the program `gui/gui2` | `GuiMessages` |
| `EventStorage` | `server/events_storage.c`, `common/stack.c` | |
| `SequenceList` | **abstract specification**: lists as sequences | `Lists` |
| `LinkedList` | `common/list.c` node by node, and `sort_players`; implements `SequenceList` | `Lists` |
| `GameBoard` | `server/game_board.c` bit by bit | |
| `MCGame`, `MCServer`, `MCDelivery`, `MCGuiLink`, `MCLinkedList` | values of the constants for TLC | the module they instantiate |
| `ListLemmas` | lemmas about lists, stable sorts, sets of numbers and recursive functions | `Lists` |
| `GameProofs` | theorems about `Game`: its counters and lists, its log, and that it implements `EventLog` | `Game` |
| `ServerProofs` | theorems about `Server`, and that it implements `Game` | `Server` |
| `LinkedListProofs` | theorems about `LinkedList`, and that it implements `SequenceList` | `LinkedList` |
| `DeliveryProofs`, `GuiLinkProofs`, `EventStorageProofs`, `GameBoardProofs` | theorems about the module of this name | that module |

A definition named `X_Something` and marked `(mutant)` is not part of the specification: it is `X` with a
plausible mistake.  Put in the place of `X`, each makes TLC find the property violated that `PROJECT.json` names
with it, which shows that the property depends on the code.  Variables marked as history serve the properties alone: no guard
reads them.

### Game

State as in `game_t`; lists are sequences and the board is the set of its eaten pixels (`game_board_create`, `game_board_get`, `game_board_set`).  One action per function
of `game.h`:

| action | code |
|---|---|
| `game_add_player` | `game_add_player`, `add_observer`, `add_player`: a session on either list is "already in game" |
| `game_remove_player` | observer and waiting player are removed, a player of the game gets `PS_DISCONNECTED` |
| `game_set_turn_direction` | in a game a player of it steers; else a waiting one gets ready or unready and `players_ready` follows |
| `game_tick_waiting` | starts the game when `players_ready > 1` and all waiting, sorts, draws a pixel for each |
| `game_tick_in_progress` | moves each worm alive in order, then ends and restarts the game if one is left or none |

`handle_round` runs in the same step as the tick: the server does nothing else between.  `sort_players` is a stable sort
by `strcasecmp`, here the order of `Rank`, so that two names may be equal in it.  `game_restart` with its reset
of every player is part of the round that ends the game.

A worm's coordinates, direction, sine and cosine are abstracted to the pixel it is in.  A step of length 1 leads to
a pixel next to it or nowhere; `must_move` keeps what makes games end: a new worm stands in the middle of its pixel and leaves
it with its first step, and a worm that has stayed once leaves with the second if it turns by at most 90 degrees (two such
steps lead at least 1.41 away, the diagonal of a pixel).  `Sharp` says that `turning_speed` is larger, which `server_args.c` accepts up to its
limit; then a worm may stay for ever.  The model moves more freely than real worms do, which is sound for safety.

`GameBoard` has the board as it is kept: a byte is the set of its bits, and the set of the pixels whose bits are 1 (`PixelsOf`) is the `board` of `Game`.

### Server

`Server` extends `Game` and calls its actions.  `Wait` takes the snapshot, `HandleRound`, `TimeoutBatch` and `Timeout`,
`handle_new_client`, `HandleClients` serve it in the order of `main`; `Arrive`, `Refuse` and `Expire` are the
world.  A handler that loops over several clients is several steps, so that the world moves in between.  A
client is known by its node, as `epoll_event.data.ptr` does; a batch holds nodes, so that a stale pointer would be seen
(`ClientsAreServed`).  What the code does with a stale pointer is undefined: there the model takes no step (`Timeout`), so that a run with
twins may stop and its configuration says `CHECK_DEADLOCK FALSE`.  The properties hold up to that moment.

Facts of the code that the module keeps as they are:

* Clients are deleted by session, and any two clients may share one: the client draws its session from `time(NULL)` (`client/main.c:121`) and the server takes
  any, 0 included.
* `handle_new_client` binds the new socket before it connects it.  In between it takes datagrams of other addresses (`EarlyQueues`), which are later read
  as the client's own.
* A datagram that arrives at a socket which reports an error still restarts the timer; the error ends the reading wherever it comes, and what has
  been read until then is lost (`Reads` of any number, without `Acts`).
* Only the last datagram read from a socket's queue counts.
* The branch "Reconnect client" at `server/main.c:336` repeats the condition of line 332 and is dead.

A datagram is `VALID`, or `INVALID` (its length is not one `deserialize_client_message` takes), or `EMPTY`: `recv` returns 0 for
an empty one, and the loop at `server/main.c:319` takes this for the end of the queue.  `ReadCount` is what the loop reads
before; if that is nothing, the buffer of zeros is parsed for a length that is not set, which either refuses it or makes it a message of
session 0 that says straight on.  It is older than any other session, but not than a session 0 (`Acts`, second case).

### Delivery

The server's side is a script of finished games (`Games`), revealed round by round: `played` events of the game have happened, and
`log` are those that `event_storage_push` took.  Its result is ignored, so that after a push that failed event `k`
stands at position `k - 1` while requests and `send_events` go on counting positions.  `Parts` cuts a log as
`send_events` does; a send may fail after any number of datagrams.  The network is a set, so datagrams are
reordered freely; `Lose` loses one, or spoils it, which is the same since `game_client_recv` takes nothing of a datagram that does not
deserialize; `Duplicates` may be received again.  `handle_server_message` is the whole handler: a
change of `game_id` restarts, events are taken while they are the next expected ones, and the loop stops where one is
not, where the GUI does not take one or where one is illegal, which ends the client.  `shown` is what the GUI has been told since
the last NEW_GAME.

### GuiLink

| action | code |
|---|---|
| `handle_server_message` | the client has a datagram with the next lines, or the first ones of a later game |
| `gui_client_send_event` | one line, when there is room; to a GUI that is gone, SIGPIPE ends the client, or the error ends the message, or the line is lost without notice |
| `handle_gui_message` | reads all that has arrived, perhaps a part of a message last, and handles the actions; at the end of the stream it exits |
| `Arrow`, `OtherKey`, `destroy_window` | the user; `send_message` ends the GUI when the connection is full |
| `configure_event` | a resize, asked for by a new game or by the user: the copy of the area is made anew, white |
| `idle_callback` | one line (`ReadLine`), a part of one (`ReadPart`), or the end (`ReadEnd`); then `process_command` |

NEW_GAME only asks for a new size; when GTK comes to `configure_event` is up to the window manager, and `idle_callback` reads and draws lines
meanwhile.  So `configure_event` may come at any time, before, between or after the lines of a game, and the history variable `cleared` is the line it came
after.

`to_client` and `to_gui` are the two directions of the connection, in messages.  A message whose first part has been read is `torn`; of a
line what is `left` is text, or only its newline, for which `process_command` looks at a first token that does not exist.  The loop of
`handle_gui_message` is stated by what it comes to (`KeysAfter`, `Direction`); `MCGuiLink` lets TLC compare it with the loop itself, for up to
three messages.  `GUI_BUFFER_SIZE` becomes `KeyRoom`: as many messages as fill the buffer make the next `recv`, for 0 bytes, return 0,
and the client exits as if the stream had ended.

### LinkedList

The heap is a function on the nodes that are allocated, so that reading a freed node is an error of the model.  `list_add_to` and
`list_remove_from` change the pointers that the code changes; `Walk` is a loop from head to NULL, as a recursive function of the number of steps.  `sort_players` has one step for each call it
makes: `Take` and `Drop` for its first loop, `GiveBack` for the second, each with a `list_add` that may find no memory.
`ElementsOf` is the elements on the way from the head, and `contents`, which has them for both lists, is the refinement mapping to `SequenceList`.  The operators of `Lists` on which `Game` is built are
those of `SequenceList`, and `Game`'s `sort_players` is the `Sorts` that `SortIsStable` compares with.

### EventStorage

An event is its length.  The block doubles once per push; `assert` then compares.  `LoseEvent` is the stack that finds no
memory after the bytes have been written.

## 3. What TLC checks

| run | configuration | shows |
|---|---|---|
| `game` | 3 players, two of equal names; 5 pixels in a row, where all may enter on one pixel; any number of games | one entry per session, `players_ready` never under the ready players (it would wrap around), `players_alive` exact, the log well formed and equal to the board, the deaths and the places of the worms, the storage reset exactly at a start, players fixed during a game, nobody lost but by leaving; `Game` implements `EventLog`; every game ends |
| `server_return` | 3 players for 3 clients: two share a session, the third comes back in a new session from a new address; all timers and arrivals, errors of one socket | whatever the twins do to each other, a player with a session of its own has one watched client, which goes by its own timeout only; count and names exact, no ghost player; `Server` implements `Game` |
| `server_silence` | 2 players for a capacity of 1, an observer; session 0, a new session on an old socket, malformed and empty datagrams | the count stays in its range; no client dangles or is unwatched; a silent server drops all its clients; a player turns only as the last message read from its client's socket says, or straight on by the zeros |
| `delivery` | two games, of three and of two players; datagrams of at most 50 bytes, two at once in the network, one repeated; one push per game fails | the screen tells one game; datagrams fit; no illegal event; the client gets all of the last game up to the first lost event, unless its number, kept from the longer game before, is too high |
| `storage_growth` | events of 13, 22 and 128 bytes, up to 9 of them | contiguous, in bounds, the assertion holds |
| `gui_link` | a game of 3 players, of which the GUI keeps 2, and one of 2; 2 key messages and 1 line fill the connection | the keys are as told; the screen shows what has been told since it was made anew, and of one game once it was made anew for this game; crashes have a cause, neither process outlives the other, a blocked send returns |
| `linked_list` | two lists on four nodes, two of three names equal | well linked, no node lost, `LinkedList` implements `SequenceList`; the sort is stable |

Five runs end in a violation: they state what a comment or an assertion of the code says.

| run | the code says | what happens |
|---|---|---|
| `game_unready` | "at least 2 players and all of them are ready" (`game.c:235`) | a ready player that leaves the lobby stays counted; a game starts with one who is not ready |
| `server_twins` | "Delete client with given sock_fd" (`clients.h:46`) | clients are found by session; two datagrams of an observer that wait together make two clients of one session, and the timeout of the younger deletes the older; the younger stays in the list, unwatched |
| `server_reconnect` | "Reconnect client." (`server/main.c:337`) | the condition of the branch repeats the one before it; a message of a newer session steers the player of the old one |
| `storage_many_names` | `assert(... < storage->block_capacity)` (`events_storage.c:59`) | NEW_GAME of 12 players with names of 20 letters takes 273 bytes, the block is doubled once to 256: the server aborts |
| `gui_late_clear` | NEW_GAME initialises the field and the list of players (`gui/gui2/cmd.c:28`) | the field is cleared in `configure_event` (`gui2.c:214`), which may come when lines of the new game have been drawn already: they are wiped, and what the old game drew stays until then.  `ReadMe.1st:18` reports that a student found gui2 not to clear the window |

Two more facts that the models show, though no run is spent on them:

* "Player is already in game." (`game.c:131`) is said of a disconnected player too.  One that times out in a game and comes back in the same session has a client,
  but its player stays `PS_DISCONNECTED` and is dropped when the game ends.
* "In every case wait for next client request." (`main.c:204`).  A client that has missed a whole new game, no longer than its last, asks for an
  event beyond the end (`main.c:183`) and is never answered: `IsLeftBehind`, the exception in `ClientCatchesUp`.  The second game of `MCDelivery` is the shorter one, so that the case lasts.

### Bounds and why they are enough

* *Game.*  Two players are needed for a game, a third for a worm that dies while the game goes on and for a player that
  waits during a game.  The lists treat sessions alike, so `MCNext` lets one of them only, s1, leave or steer while a game is on; in the lobby all do.
  Five pixels in a row are the least on which one of three worms crashes while two find free pixels.  `ChurnBound` 5: leaving and steering come
  while the log has at most five events, which is a whole game of two worms that move once, or the entering of three and a first move; later rounds only play the game out.
  `ReadyBound` 3 stops `players_ready`, which departures make grow for ever; a start with one player not ready needs no more.
* *Server.*  `MaxClients` 3: a client that goes, one that stays and one that comes.
  `MaxEvents` 2 makes batches of timeouts cut by the limit; `Capacity` is reached.  `MCNext` lets only the sockets connected to one address fail.
  An early datagram (`EarlyQueues`) is one at most.  `QueueBound` 2, in `server_silence`, is what it takes for
  a datagram that is read and dropped for a later one; `server_return` needs no more than 1.
* *Delivery.*  The games have no more events than their entering, their deaths and one step; `MaxSize` 50 makes
  three datagrams of each.  Two datagrams at once are enough for the old and the new game to overtake each other, one lost push for
  every later event to stand at a wrong position.
* *GuiLink.*  Two messages hold both keys, or a key and its release; one line and one waiting make the client block.  The
  first game has one player more than the GUI keeps and a pixel, the second a death; what a third game would find, the theorem covers.
* *LinkedList.*  Four nodes: a list of four in any order, or one of three with a copy of one, so that `malloc` fails in either loop of the sort.
  Only lists of at most two finish their sort without a failed `malloc`; `SortIsStableCorrect` is for lists of any length.
* *Storage.*  Nine events make the stack double twice and the block several times.  A NEW_GAME event for 25 players is the
  longest of the program; the theorem in section 4 covers all lengths.

### Fairness

* `Game`: `WF(game_tick_in_progress)`.  The round timer is periodic and `main` serves it first in each pass.  That a lobby starts a game is not assumed.
* `Server`: `WF(Loop)`, for the loop never stops, and `WF(Expire)`, for an armed timer runs out.  Nothing is assumed of the clients.
  `SilentClientsAreDropped` is for behaviours in which, from some time on, only the loop and the timers act: no datagram arrives, no socket fails.
* `Delivery`: `WF` of the rounds and of the client's tick, both timers, and of the network as a whole: a datagram is received or lost some
  time.  `SF` that the request the client repeats for ever is answered some time with at least one datagram, and that the datagram it waits for, sent for ever,
  arrives some time and is taken by the GUI.  Nothing is assumed of a datagram that is sent once.
* `GuiLink`: `WF` of a send that has room, of the idle callback and of GTK's resizing.  `SF` of `handle_gui_message`: between two datagrams the
  loop of the client (`client/main.c:295`) serves every socket that is ready, so that a server that always has something to tell does not keep
  it from the GUI.  Nothing is assumed of the user.

`GameEnds` is checked with `Sharp = FALSE` only: with a `turning_speed` above 90 a worm can come back into its
pixel for ever.

## 4. What is proved

For all values of the constants that satisfy the named assumptions: any number of sessions, names, clients, games and lines, any
board, any limits.  No theorem uses an unproved fact.  A module of proofs extends the component's module and `ListLemmas`, which has the
lemmas about removal, enumeration and concatenation of lists, least and greatest elements, induction up to a bound, the existence of the recursive
functions the models use, and stable sorts: `SortIsDetermined` says that a list has exactly one for given ranks.

**`GameProofs`** (assumptions `BoardAssumption`, `GameAssumption`).  `TypeCorrect`, `CountsAliveCorrect`, `ReadyCoversCorrect`, all from
`CountersInvariant == Spec => []Counters` with

    Counters == TypeOK /\ CountsAlive /\ ReadyCovers /\ LobbyIsFresh

`TypeOK` alone is not inductive.  `players_ready` is decremented without a check: it stays a natural number because
there is a ready player each time, and this needs `ReadyCovers`, whose step over the end of a game needs
that the reset leaves nobody ready and whose step over a start needs that no one who is moved to the waiting list is.
`players_alive` is reduced by the crashed worms of a round: it stays one because they are among the worms alive,
`CountsAlive`, whose step over the start needs that nobody enters a game already dead, `LobbyIsFresh`.
The proof has one lemma per operation (`CountersAdd`, `CountersRemove`, `CountersTurn`, `CountersStart`, `CountersTick`), on lemmas
of what each operation writes into a player.

`OneEntryCorrect` (`OneEntryPerSession`) comes from a second invariant, `Sessions`: neither list has a session twice and no session is in both.  The end of a
game moves players between the lists, so the three parts need each other.  `RosterIsFixedCorrect` and `NobodyIsForgottenCorrect` are action properties: one
lemma per operation on what it keeps of the lists.  `SortPlayersIsDetermined`: there is exactly one list that `sort_players`, which the model states by what it returns, can make of a
list of players, so that a start of a game is neither refused nor left open by the way the sort is stated.

The inductive invariant between the log and the game is

    Story == GameOfLog /\ LogTellsTheGame /\ WormsAreWhereTheLogSays

where `GameOfLog` ties `in_progress`, `next_event_no`, the board and the storage together: between games the log is empty or is a finished one, in a game it is
open.  `LogTellsTheGame` is not inductive without it, nor is the grammar of the log without the other parts: that no pixel is eaten twice needs that the board is what
the log has eaten, that the dead are silent that the eliminated are the dead worms.  From it follow `LogTellsTheGameCorrect`,
`WormsAreWhereTheLogSaysCorrect`, `StorageFollowsGameCorrect`, and

* `EventLogImplemented`: **`Game` implements `EventLog`**.  The initial states are the same; a `game_tick_waiting` that starts a game is `Begin`, a
  `game_tick_in_progress` is an extension of the log by moves that leave it well formed, and every other action leaves both variables as they are.  The heart is the lemma that
  the events of a round, in the order of the worms, continue a well-formed log whatever crashes among them.

**`ServerProofs`** (also `ServerAssumption`).

* `GameIsPlayedCorrect`: **the server implements `Game`**: each step of the loop, of a handler or of the world is one of `Game`'s actions or leaves its variables
  alone.  So every theorem about `Game` holds within the server.
* `ServerTypeCorrect` and `PlayersNumberCountsCorrect`, from `Registered`: types, the exact count, distinct names, room for those who wait, and
  a snapshot that announces a new client only if there is one.
* `NoGhostPlayersCorrect`, from `Attended`: each name that waits or plays undisconnected is represented by a client of its session.  The hypothesis
  `RolesDiffer` says that no session is a player's in one datagram and an observer's in another.  It is needed: `game_remove_player` looks
  among the observers first and removes that one entry only, so that of a session which was both, the player stays behind without a client.
* `PlayersAreServedCorrect` and `PlayersLeaveWhenDueCorrect` have no hypothesis: whatever sessions are shared by observers or by other players, the player of a session that
  no other name uses (`IsOwn`) has one client, which is watched, and this client is deleted when its own timeout is worked off, never in the place of another.  The invariant, `Invited /\ OwnWatched`, says that each client
  was made by a valid message; that an own session has one client (`OwnAlone`) follows since names differ, and then the first client with the session, which `clients_delete_client`
  deletes, is the one that has timed out.
* `ServedWithoutTwins` and `TimeoutDropsItsClientCorrect` say the same of everybody as long as no session has two clients (`NoTwins`): no pointer in a batch of timeouts dangles, every client is watched,
  and the one that has timed out is the one deleted.  Together with the run `server_twins` this says exactly what is wrong there: twins are the only way to break the comment
  "Delete client with given sock_fd".  The invariant is `Distinct`: each node and each pointer occurs once.
* `TurnsAreAskedForCorrect`: for every player that steers, or is ready, there is the datagram, valid and the last one read from a client of its session, that asked for it, or an empty one that
  left the zeros to session 0.  That a newer session may ask is what the run `server_reconnect` is about.

The instances of `server_return` and `server_silence` satisfy `RolesDiffer`.

**`GuiLinkProofs`** (assumption `GuiLinkAssumption`: the script of lines is what module `Delivery` lets through: lines that begin with a NEW_GAME and whose players are of their game).
All five invariants of the run, from

    Link == GuiLinkTypeOK /\ InOrder /\ Torn /\ KeysTold
            /\ DirectionFollowsKeys /\ ScreenIsAsTold /\ CrashesHaveACause

`InOrder`: the lines the client has in hand, those on their way and the one the GUI is at are in the order of the script, with nothing left out but at a new game.  `KeysTold`: for each key, the
last message on its way about it is what the GUI last told, and if there is none the client's flag is.  `KeysAreFollowed` is the case in which nothing is on its
way and is not inductive; `ScreenIsAsTold` needs `InOrder`, since the next line may be of another game.  It makes no exception for the time in which a resize is
waited for: it says what the screen shows then, which may be two games at once.

**`DeliveryProofs`** (assumption `DeliveryAssumption`: the games are well-formed logs that are over, which is what `EventLog` promises and `Game` implements, and names have 1 to 20
letters).

* `DeliveryInvariant`: the storage holds, and every datagram carries, events that have happened in one game; no datagram is empty.  `DeliveryTypeCorrect` follows; the client's type needs that it never looks up a
  player it does not know, which its checks see to even if two games share a `game_id`.
* `PartsProperties`, a lemma worth knowing: the cuts that begin at a number hold every event from this one on, in datagrams that are never empty.
* `DatagramsFitCorrect`: if each event alone fits (`EventsFit`), so does every datagram, wherever the log is cut and whatever the storage has lost.  `LongestEventFits`: with
  up to *n* players `EventsFit` holds when `25 + 21 n` bytes do.  `ProgramDatagramsFit` puts the program's numbers in: 550 bytes (`server/main.c:37`) is just what a NEW_GAME of 25 players with
  names of 20 letters takes.
* `ScreenTellsOneGameCorrect` and `NothingIsIllegalCorrect`, from the second invariant

      Story == ~has_exited /\ (client.next_expected_event_no = 0 \/ \E k \in 1 .. game : Follow(k, client))

  A client that expects event 0 knows nothing that matters; otherwise it follows one game: it has this game's id, names and board, no more events than there have been, and its screen tells
  exactly those.  The step for a datagram: what the loop takes is a contiguous part of the game's log from the expected number on (`TakenFollow`), whatever holes the
  storage has, and the lines of two adjacent parts are the lines of the whole (`LinesConcat`, `ShowGoesOn`).  The hypothesis `IdsDiffer` says that no two games share a `game_id`.  The code cannot
  promise it, since ids are drawn by `rand_get` (see section 5), and the theorem does not hold without it: the second game is then taken for more of the first.  The script of `MCDelivery` satisfies it.

**`LinkedListProofs`** (assumption `LinkedListAssumption`: finitely many addresses, none of them NULL).  All that the run checks of `LinkedList`, and its types, from

    ListInv == ListsOK /\ NodeOK

`ListsOK`: for each list, the nodes on the walk from its head are a *chain* (`IsChain`): no node twice, as many as `size` says, `head` and `tail` its ends, and `next` and `prev` of each node its
neighbours or NULL; every allocated node is on one of the walks and on one only.  `NodesAreLinked` and `NoNodeIsLost`, which follow, are not inductive by themselves: they do not say that fields hold
addresses at all, nor that `sort_players` holds a node of the list it is about to take it from, which is `NodeOK`.

* `ListTypeCorrect`, `NodesAreLinkedCorrect`, `NoNodeIsLostCorrect`.  The key is `WalkOfChain`: if any sequence of nodes is a chain from the head, the walk gives just this sequence.  So it is enough to write down
  what an operation makes of the sequence (`ChainAdd`, `ChainRemove`, `ChainRemoveAll`), and that the other list, whose nodes are others, does not change (`OneListChanges`).
* `SequencesImplemented`: **`LinkedList` implements `SequenceList`**.  Each operation, and each step of `sort_players`, is what `SequenceList` does with the elements from head to tail, or leaves them alone.  This is what entitles the
  other modules to use sequences.
* `SortIsStableCorrect`, from `SortInv`: what `sort_players` has put into its new list and what is left of the old one are a split of the list it was given, in the order of a stable sort (`Taking`, `Dropping`,
  `Giving` of `ListLemmas`), and each `min_node` is the first of the least that are left.  With `SortIsDetermined`, what `Game` takes for the sort is what the loops do, provided that `malloc` does not fail.

**`EventStorageProofs`** (assumption `StorageAssumption`).  `StorageTypeCorrect` and `Contiguous`, from
`StorageInv == StorageTypeOK /\ EventsAreContiguous /\ Room`.  `Room` says that what is written ends strictly before the end of
the block; without it a push need not fit in twice the capacity.  `DoublingOnceIsEnough`: if no event is longer than the first block,
the assertion never fails.  The run `storage_many_names` shows that the hypothesis cannot be dropped.

**`GameBoardProofs`** (a width and a height in `Nat`).  `CreateIsEmpty` and `SetAddsOne`, which say that the bits of `game_board.c` are the set of pixels that is
the board of `Game`.  They rest on `CellInBounds`, that no access leaves the block, and `IndexIsInjective`, that no two pixels share a bit.  `MCGame` lets
TLC compare them on all boards of up to 5 x 4 pixels.

### Assumptions on the constants

Each is named in the module that declares the constants and evaluated by TLC in every run.  Those a reader may want to question: `Entrants` of
`Game` is exactly the set of sessions and names that datagrams carry (`ServerAssumption`), so that `GameIsPlayed` is about the same players; the
lines of `GuiLinkAssumption` are of players that their NEW_GAME names, which `LogTellsTheGame` proves of the server and the client checks; `DeliveryAssumption` takes the finished games of
`EventLog`.

### Only model-checked

Liveness: `GameEnds`, `SilentClientsAreDropped`, `ClientCatchesUp`, `ClientFollowsGui`, `GuiFollowsClient`, `SendsReturn`.  The prover has no rule for fairness
and ENABLED.  The five properties of the runs that end in a violation are false of
the code; what remains true of them is `ReadyCoversCorrect`, `TimeoutDropsItsClientCorrect`, `TurnsAreAskedForCorrect`, `DoublingOnceIsEnough` and `ScreenIsAsToldCorrect`.

## 5. What is not modelled, and why

* Failing system calls other than those named above: they end the process through `syserr` or `fatal`.
* Allocations that fail inside the game: in `Game` there is always memory.  What becomes of them is modelled where it is felt: in `EventStorage` for the
  block, in `Delivery` for the clients, in `LinkedList` for the sort.
* `event_storage_free` does not free the block: memory that is lost is not part of a state here.
* A worm's place and direction as numbers: they are floating-point numbers and their sine and cosine, which the provers and TLC do not have.  `Game` lets a worm step into any
  pixel that a step of length 1 can reach.
* Two games with one `game_id`: `rand_get` draws the id, multiplies in 32 bits before it takes the remainder, and gives 0 for ever for the
  seed 0.  A client takes the second game for more of the first.  The games of `Delivery` have different ids; 32-bit products are beyond TLC's integers.
* A flood of datagrams: `handle_clients` loops while anything is ready, so that nothing is promised then.  Nor is it of a socket that goes on failing, each
  error of which restarts the timer.
* Promises that the code does not make and no property states, though the models contain the cases: a player that rejoins while it is `PS_DISCONNECTED` is not taken back; a client exits when keys
  fill its buffer exactly; a player is lost when the sort finds no memory for it; a client that is left behind is not told of the new game.
* Byte order, checksums, parsing of arguments, wording of messages, and in the GUI colours, widgets and the copy to the screen; the unit tests.

## 6. Where the plan stands

Done: the game with its counters, lists and board, the server around it, delivery, the storage, the GUI and its connection, the linked lists.  Every invariant and every action property of the runs that pass is (some under the hypotheses named above) a
theorem, and so are the three refinements: of `EventLog` by `Game`, of `Game` by `Server`, and of `SequenceList` by `LinkedList`.

Open: liveness, which only TLC checks, on the instances of section 3; and what section 5 leaves out.  The first candidates there are the generator of random numbers, whose cycles decide whether `IdsDiffer` holds, and the parser of
`common/messages.c`, which would join the bytes of a datagram to the events of `Delivery`.
