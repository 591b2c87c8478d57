----------------------------- MODULE GuiMessages -----------------------------
(***************************************************************************)
(* What the client and the GUI write to each other: the lines of           *)
(* src/client/gui_messages.c.                                              *)
(***************************************************************************)
EXTENDS Events

\* The end of a game, and it alone, is not told to the GUI.
IsForGui(event) == event.type # "GAME_OVER"

\* The line for an event: a player is named, not numbered.
Line(names, event) ==
    CASE event.type = "NEW_GAME" ->
             [type |-> event.type, max_x |-> event.max_x, max_y |-> event.max_y,
              players_names |-> names]
      [] event.type = "PIXEL" ->
             [type |-> event.type, pixel |-> event.pixel,
              player_name |-> names[event.player_number + 1]]
      [] event.type = "ELIMINATED" ->
             [type |-> event.type, player_name |-> names[event.player_number + 1]]

\* The lines for the events of a game, one after the other.
Lines(names, events) ==
    LET lines[k \in 0 .. Len(events)] ==
            IF k = 0 THEN <<>>
            ELSE IF IsForGui(events[k]) THEN Append(lines[k - 1], Line(names, events[k]))
            ELSE lines[k - 1]
    IN  lines[Len(events)]

GuiLine ==
    [type : {"NEW_GAME"}, max_x : {Width}, max_y : {Height}, players_names : Seq(Name)]
        \cup [type : {"PIXEL"}, player_name : Name, pixel : Pixels]
        \cup [type : {"ELIMINATED"}, player_name : Name]

-----------------------------------------------------------------------------
(* The messages of the GUI: an arrow key went down or up. *)

Side == {"LEFT", "RIGHT"}

Other(side) == IF side = "LEFT" THEN "RIGHT" ELSE "LEFT"

\* torn says that the first part of the message has been read already.
KeyMessage == [side : Side, down : BOOLEAN, torn : BOOLEAN]

\* A part of a message is no action, but GA_ERROR: no name of an action ends
\* with the last part of another.
IsAction(message) == ~message.torn
=============================================================================
