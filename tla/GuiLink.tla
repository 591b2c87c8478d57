------------------------------- MODULE GuiLink -------------------------------
(***************************************************************************)
(* The client (src/client/main.c, gui_client.c) and the GUI (gui/gui2) at  *)
(* the two ends of their TCP connection.  The client writes lines, and     *)
(* waits while there is no room for them; the GUI writes keys, and gives   *)
(* up if there is no room.  Either reads what has arrived, which may end   *)
(* in the middle of a line.                                                *)
(***************************************************************************)
EXTENDS GuiMessages, Lists

CONSTANTS
    Script,     \* the lines the client gets to tell: games, one after another
    MaxPlayer,  \* MAX_PLAYER
    KeyRoom,    \* how many key messages, of 12 to 15 bytes, may fill GUI_BUFFER_SIZE
    KeyBound,   \* bound: key messages the connection takes
    LineBound   \* bound: lines the connection takes

IsNewGame(k) == Script[k].type = "NEW_GAME"

\* The first line of the game that line k belongs to.
StartOf(k) == Max({ j \in 1 .. k : IsNewGame(j) })

\* The client names only players of the game: an event with a player_number it
\* does not know ends it.
ASSUME GuiLinkAssumption ==
    /\ Script \in Seq(GuiLine) /\ Script # <<>> /\ IsNewGame(1)
    /\ \A k \in DOMAIN Script :
           IsNewGame(k) \/ \E i \in DOMAIN Script[StartOf(k)].players_names :
                              Script[StartOf(k)].players_names[i] = Script[k].player_name
    /\ {MaxPlayer, KeyRoom, KeyBound, LineBound} \subseteq Nat \ {0}

VARIABLES
    client,         \* the process: "RUNNING" or "EXITED"
    key_down,       \* left_key_down and right_key_down
    turn_direction,
    sending,        \* the lines (their numbers) left of the message in hand
    told            \* the number of the last line sent

clientVars == <<client, key_down, turn_direction, sending, told>>

VARIABLES
    to_client,      \* the key messages on their way
    to_gui          \* the lines on their way

VARIABLES
    gui,            \* the process: "RUNNING", "ENDED" or "CRASHED"
    started,
    players,        \* the first ilgracz players of kolgracz
    crossed,        \* those whose label has an X
    surface,        \* what is drawn
    resizing        \* whether GTK has to resize the drawing area

guiVars == <<gui, started, players, crossed, surface, resizing>>

\* History, for the properties alone.
VARIABLES
    latest,         \* the last message about each key, "LOST" if it came in two parts
    heard,          \* the number of the last line taken by the GUI
    damage,         \* what came in two parts since the last NEW_GAME that did not:
                    \* "NONE", a "LINE" or a "NEW_GAME"
    cleared         \* the last line heard before the area was last made anew

history == <<latest, heard, damage, cleared>>

vars == <<clientVars, to_client, to_gui, guiVars, history>>

Init ==
    /\ client = "RUNNING" /\ key_down = [side \in Side |-> FALSE]
    /\ turn_direction = "FORWARD" /\ sending = <<>> /\ told = 0
    /\ to_client = <<>> /\ to_gui = <<>>
    /\ gui = "RUNNING" /\ started = FALSE
    /\ players = <<>> /\ crossed = {} /\ surface = {} /\ resizing = FALSE
    /\ latest = [side \in Side |-> "UP"]
    /\ heard = 0 /\ damage = "NONE" /\ cleared = 0

-----------------------------------------------------------------------------
(* The client: messages from the server *)

\* The thread is in epoll_wait.
IsIdle == client = "RUNNING" /\ sending = <<>>

\* A datagram with the next lines of the game, or the first ones of a later game.
handle_server_message ==
    /\ IsIdle
    /\ \E first, last \in DOMAIN Script :
           /\ told < first /\ first <= last
           /\ first = told + 1 \/ IsNewGame(first)
           /\ \A k \in first + 1 .. last : ~IsNewGame(k)
           /\ sending' = [k \in 1 .. last - first + 1 |-> first + k - 1]
    /\ UNCHANGED <<client, key_down, turn_direction, told, to_client, to_gui,
                   guiVars, history>>

\* One line: send waits for room, and nothing else is done meanwhile.  To a GUI
\* that is gone, it ends the client (SIGPIPE) or the message, or it is not yet
\* known to be gone, and the line is lost.
gui_client_send_event ==
    /\ client = "RUNNING" /\ sending # <<>>
    /\ \/ /\ Len(to_gui) < LineBound
          /\ to_gui' = Append(to_gui, [line |-> Head(sending), left |-> "WHOLE"])
          /\ told' = Head(sending)
          /\ sending' = Tail(sending)
          /\ UNCHANGED client
       \/ /\ gui # "RUNNING"
          /\ \/ client' = "EXITED" /\ UNCHANGED sending
             \/ sending' = <<>> /\ UNCHANGED client
          /\ UNCHANGED <<told, to_gui>>
    /\ to_client' = IF client' = "EXITED" THEN <<>> ELSE to_client
    /\ UNCHANGED <<key_down, turn_direction, guiVars, history>>

-----------------------------------------------------------------------------
(* The client: messages from the GUI *)

\* The last of the messages about a key.
IsLast(messages, k) ==
    \A j \in k + 1 .. Len(messages) : messages[j].side # messages[k].side

Mentions(messages, side) == \E k \in DOMAIN messages : messages[k].side = side

\* What the loop of handle_gui_message over the actions comes to: each key is
\* as its last message says, and the last of all sets the direction.
KeysAfter(messages, down) ==
    [side \in Side |->
        IF Mentions(messages, side)
        THEN \E k \in DOMAIN messages :
                 messages[k].side = side /\ IsLast(messages, k) /\ messages[k].down
        ELSE down[side]]

\* (mutant) Releasing a key means straight on, whatever else is held.
Direction_Forgetful(message, down) == IF message.down THEN message.side ELSE "FORWARD"

Direction(message, down) ==
    IF message.down THEN message.side
    ELSE IF down[Other(message.side)] THEN Other(message.side)
    ELSE "FORWARD"

\* (mutant) One action is taken from what has been read.
handle_actions_First(actions) ==
    /\ key_down' = IF actions = <<>> THEN key_down
                   ELSE KeysAfter(<<Head(actions)>>, key_down)
    /\ turn_direction' = IF actions = <<>> THEN turn_direction
                         ELSE Direction(Head(actions), key_down')

handle_actions(actions) ==
    /\ key_down' = KeysAfter(actions, key_down)
    /\ turn_direction' = IF actions = <<>> THEN turn_direction
                         ELSE Direction(Last(actions), key_down')

\* What is left of the stream when n messages and, if cut, the first part of
\* the next one have been read.
Unread(n, cut) ==
    LET rest == SubSeq(to_client, n + 1, Len(to_client))
    IN  IF cut THEN <<[Head(rest) EXCEPT !.torn = TRUE]>> \o Tail(rest) ELSE rest

LatestAfter(n, cut) ==
    [side \in Side |->
        IF cut /\ to_client[n + 1].side = side /\ IsLast(to_client, n + 1)
        THEN "LOST" ELSE latest[side]]

\* (mutant) A stream that has ended is one with nothing to read.
IsEndOfStream_Full == Len(to_client) >= KeyRoom

\* If what has arrived fills the buffer of gui_client_recv_event, its last recv,
\* for no bytes, looks like the end of the stream.
IsEndOfStream == gui # "RUNNING" \/ Len(to_client) >= KeyRoom

\* All that has arrived is read.  At the end of the stream the client exits.
handle_gui_message ==
    /\ IsIdle
    /\ \/ \E n \in 0 .. Len(to_client), cut \in BOOLEAN :
              /\ n > 0 \/ cut
              /\ cut => n < Len(to_client)
              /\ \E e \in Enumerations({ k \in 1 .. n : IsAction(to_client[k]) }) :
                     handle_actions([k \in DOMAIN e |-> to_client[e[k]]])
              /\ to_client' = Unread(n, cut)
              /\ latest' = LatestAfter(n, cut)
              /\ UNCHANGED client
       \/ /\ IsEndOfStream
          /\ client' = "EXITED"
          /\ to_client' = <<>>
          /\ UNCHANGED <<key_down, turn_direction, latest>>
    /\ UNCHANGED <<sending, told, to_gui, guiVars, heard, damage, cleared>>

-----------------------------------------------------------------------------
(* The GUI: keys and the window *)

\* The socket does not block: a message there is no room for ends the GUI.
\* What is written to a client that has exited may be lost without notice.
send_message(side, down) ==
    \/ /\ client = "RUNNING" /\ Len(to_client) < KeyBound
       /\ to_client' = Append(to_client, [side |-> side, down |-> down, torn |-> FALSE])
       /\ latest' = [latest EXCEPT ![side] = IF down THEN "DOWN" ELSE "UP"]
       /\ UNCHANGED gui
    \/ /\ client = "EXITED"
       /\ UNCHANGED <<to_client, latest, gui>>
    \/ /\ client = "EXITED" \/ Len(to_client) = KeyBound
       /\ gui' = "ENDED"
       /\ UNCHANGED <<to_client, latest>>

\* keyboard_event, arrow_pressed and arrow_released: one arrow may be held
\* twice, by its key and by its button, and keys repeat.
Arrow ==
    /\ gui = "RUNNING"
    /\ \E side \in Side, down \in BOOLEAN : send_message(side, down)
    /\ started' = TRUE
    /\ UNCHANGED <<clientVars, to_gui, players, crossed, surface, resizing,
                   heard, damage, cleared>>

\* keyboard_event, for any other key.
OtherKey ==
    /\ gui = "RUNNING"
    /\ started' = TRUE
    /\ UNCHANGED <<clientVars, to_client, to_gui, gui, players, crossed, surface,
                   resizing, history>>

destroy_window ==
    /\ gui = "RUNNING" /\ gui' = "ENDED"
    /\ UNCHANGED <<clientVars, to_client, to_gui, started, players, crossed,
                   surface, resizing, history>>

\* (mutant) The copy of the area is made anew, and nothing is painted on it.
configure_event_Unpainted ==
    /\ gui = "RUNNING"
    /\ resizing' = FALSE
    /\ cleared' = heard
    /\ UNCHANGED <<clientVars, to_client, to_gui, gui, started, players, crossed,
                   surface, latest, heard, damage>>

\* GTK resizes the drawing area some time after a new game has asked for it, and
\* whenever the user does: the copy of the area is made anew, and white.
configure_event ==
    /\ gui = "RUNNING"
    /\ surface' = {} /\ resizing' = FALSE
    /\ cleared' = heard
    /\ UNCHANGED <<clientVars, to_client, to_gui, gui, started, players, crossed,
                   latest, heard, damage>>

-----------------------------------------------------------------------------
(* The GUI: lines *)

\* (mutant) The last player is not looked at.
Known_ButLast(name) == \E i \in 1 .. Len(players) - 1 : players[i] = name

Known(name) == \E i \in DOMAIN players : players[i] = name

\* (mutant) All players are kept.
StartGame_Uncapped(line) ==
    /\ players' = line.players_names
    /\ crossed' = {} /\ resizing' = TRUE
    /\ UNCHANGED <<gui, surface>>

\* No more than MAX_PLAYER players are kept.  The new size is only asked for:
\* what is drawn stays until configure_event.
StartGame(line) ==
    /\ players' = SubSeq(line.players_names, 1,
                         Min({MaxPlayer, Len(line.players_names)}))
    /\ crossed' = {}
    /\ resizing' = TRUE
    /\ UNCHANGED <<gui, surface>>

\* draw_brush: the pixel of a player that is not on the list is not drawn.
Draw(line) ==
    /\ surface' = IF Known(line.player_name)
                  THEN surface \cup {[pixel |-> line.pixel, player |-> line.player_name]}
                  ELSE surface
    /\ UNCHANGED <<gui, players, crossed, resizing>>

\* The label of a player that is not on the list is sought before the array.
Cross(line) ==
    /\ \/ /\ Known(line.player_name)
          /\ crossed' = crossed \cup {line.player_name}
          /\ UNCHANGED gui
       \/ /\ ~Known(line.player_name)
          /\ gui' \in {"RUNNING", "CRASHED"}
          /\ UNCHANGED crossed
    /\ UNCHANGED <<players, surface, resizing>>

process_command(line) ==
    \/ line.type = "NEW_GAME" /\ StartGame(line)
    \/ line.type = "PIXEL" /\ Draw(line)
    \/ line.type = "ELIMINATED" /\ Cross(line)

\* readLine finds the end of the line.  The last part of a line that has been
\* cut is no command; if nothing but the newline is left of it, it has no first
\* token to look at.
ReadLine ==
    LET k == Head(to_gui).line
        left == Head(to_gui).left
    IN  /\ to_gui # <<>>
        /\ to_gui' = Tail(to_gui)
        /\ heard' = k
        /\ damage' = IF left = "WHOLE" /\ IsNewGame(k) THEN "NONE" ELSE damage
        /\ \/ left = "WHOLE" /\ process_command(Script[k])
           \/ left = "TEXT" /\ UNCHANGED <<gui, players, crossed, surface, resizing>>
           \/ /\ left = "NEWLINE" /\ gui' = "CRASHED"
              /\ UNCHANGED <<players, crossed, surface, resizing>>

\* readLine does not: it fails with EAGAIN and what it has read is gone.
ReadPart ==
    /\ to_gui # <<>>
    /\ \E left \in {"TEXT", "NEWLINE"} :
           /\ Head(to_gui).left = "WHOLE" \/ left = "NEWLINE"
           /\ to_gui' = <<[Head(to_gui) EXCEPT !.left = left]>> \o Tail(to_gui)
    /\ damage' = IF damage = "NEW_GAME" \/ IsNewGame(Head(to_gui).line)
                 THEN "NEW_GAME" ELSE "LINE"
    /\ UNCHANGED <<heard, gui, players, crossed, surface, resizing>>

\* (mutant) To read nothing is to read nothing yet.
ReadEnd_Unseen ==
    /\ client = "EXITED"
    /\ UNCHANGED <<gui, to_gui, players, crossed, surface, resizing, heard, damage>>

\* The stream has ended, or has been reset.
ReadEnd ==
    /\ client = "EXITED" /\ gui' = "ENDED"
    /\ UNCHANGED <<to_gui, players, crossed, surface, resizing, heard, damage>>

\* (mutant) GTK drops the callback after its first call.
idle_callback_Once ==
    /\ gui = "RUNNING" /\ started /\ heard = 0
    /\ ReadLine \/ ReadPart \/ ReadEnd
    /\ UNCHANGED <<clientVars, to_client, started, latest, cleared>>

\* Nothing is read before the first key.  Lines are read, and drawn, while GTK
\* waits for the window manager to make the window larger.
idle_callback ==
    /\ gui = "RUNNING" /\ started
    /\ ReadLine \/ ReadPart \/ ReadEnd
    /\ UNCHANGED <<clientVars, to_client, started, latest, cleared>>

-----------------------------------------------------------------------------
Next ==
    \/ handle_server_message \/ gui_client_send_event \/ handle_gui_message
    \/ Arrow \/ OtherKey \/ destroy_window \/ configure_event \/ idle_callback

Spec == Init /\ [][Next]_vars

\* send returns once there is room, and each pass of the client's loop serves
\* every socket that is ready, however often the server's is; GTK's loop gets
\* round to resizing and to the idle callback.  The user and the server need
\* not do anything.
Fairness ==
    /\ WF_vars(gui_client_send_event) /\ SF_vars(handle_gui_message)
    /\ WF_vars(configure_event) /\ WF_vars(idle_callback)

FairSpec == Spec /\ Fairness

-----------------------------------------------------------------------------
(* Properties *)

\* Every variable holds a value of its type.
GuiLinkTypeOK ==
    /\ client \in {"RUNNING", "EXITED"}
    /\ key_down \in [Side -> BOOLEAN]
    /\ turn_direction \in Side \cup {"FORWARD"}
    /\ sending \in Seq(DOMAIN Script) /\ told \in {0} \cup DOMAIN Script
    /\ to_client \in Seq(KeyMessage) /\ Len(to_client) <= KeyBound
    /\ to_gui \in Seq([line : DOMAIN Script, left : {"WHOLE", "TEXT", "NEWLINE"}])
    /\ gui \in {"RUNNING", "ENDED", "CRASHED"} /\ started \in BOOLEAN
    /\ players \in Seq(Name) /\ Len(players) <= MaxPlayer
    /\ crossed \in SUBSET Name
    /\ surface \in SUBSET [pixel : Pixels, player : Name]
    /\ resizing \in BOOLEAN
    /\ cleared \in 0 .. heard

\* The worm turns to a side only while the key of this side is down, and goes
\* straight on only when neither is, whichever order keys go down and up in.
DirectionFollowsKeys ==
    /\ \A side \in Side : turn_direction = side => key_down[side]
    /\ turn_direction = "FORWARD" => \A side \in Side : ~key_down[side]

\* A client that has read everything knows the keys as the GUI last told them,
\* unless the last message about a key came in two parts: a part that is lost
\* costs this message and no other.
KeysAreFollowed ==
    client = "RUNNING" /\ to_client = <<>> =>
        \A side \in Side :
            latest[side] = "LOST" \/ key_down[side] = (latest[side] = "DOWN")

\* The first line of the game the line heard last belongs to.
GameHeard == StartOf(heard)

\* Line k has the pixel that dot is.
IsOf(dot, k) ==
    /\ Script[k].type = "PIXEL"
    /\ Script[k].pixel = dot.pixel /\ Script[k].player_name = dot.player

\* The screen shows what has been drawn since it was last made anew, and of no
\* other game than the list of players, once it has been made anew for this
\* game; the players crossed out are those told to be out.  If no line of the
\* game came in two parts, nothing that was told of the players on the list is
\* missing.  After a NEW_GAME in two parts, the new game goes on under the names
\* of the old.
ScreenIsAsTold ==
    /\ \A dot \in surface : \E k \in cleared + 1 .. heard : IsOf(dot, k)
    /\ heard > 0 /\ damage # "NEW_GAME" =>
           LET names == Script[GameHeard].players_names
           IN  /\ players = SubSeq(names, 1, Min({MaxPlayer, Len(names)}))
               /\ resizing \/ cleared >= GameHeard
               /\ \A name \in crossed :
                      \E k \in GameHeard .. heard : /\ Script[k].type = "ELIMINATED"
                                                    /\ Script[k].player_name = name
    /\ heard > 0 /\ damage = "NONE" =>
           \A k \in GameHeard + 1 .. heard : Known(Script[k].player_name) =>
               IF Script[k].type = "PIXEL"
               THEN k > cleared => \E dot \in surface : IsOf(dot, k)
               ELSE Script[k].player_name \in crossed

\* What a new game has wiped off the screen is of the games before it.
OnlyOldGamesAreWiped ==
    [][resizing /\ ~resizing' =>
           \A k \in GameHeard .. heard : Script[k].type # "PIXEL"]_vars

\* The GUI crashes only if a line of the game has come in two parts or the game
\* has more than MAX_PLAYER players: else it knows every player it is told of.
CrashesHaveACause ==
    gui = "CRASHED" =>
        damage # "NONE" \/ Len(Script[GameHeard].players_names) > MaxPlayer

\* The client does not outlive the GUI, blocked in a send or not.
ClientFollowsGui == gui # "RUNNING" ~> client = "EXITED"

\* Nor does the GUI the client, once a key has been pressed.
GuiFollowsClient == client = "EXITED" /\ started ~> gui # "RUNNING"

\* Two processes that fill the connection from both sides do not wait for each
\* other for ever: a client blocked in a send gets on, once a key was pressed.
SendsReturn == sending # <<>> /\ started ~> sending = <<>> \/ client = "EXITED"
=============================================================================
