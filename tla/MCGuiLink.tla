------------------------------ MODULE MCGuiLink ------------------------------
(* A small instance of GuiLink: a game of three players, one more than the  *)
(* GUI keeps, and a game of two.                                           *)
EXTENDS GuiLink

LongGame ==
    <<NewGameEvent(0, <<"cyd", "dan", "bob">>), PixelEvent(1, 0, <<0, 0>>)>>

ShortGame ==
    <<NewGameEvent(0, <<"ann", "bob">>), EliminatedEvent(1, 1)>>

MCScript == Lines(LongGame[1].players_names, LongGame)
                \o Lines(ShortGame[1].players_names, ShortGame)

\* The loop of handle_gui_message, action by action.
HandleAction(keys, message) ==
    LET down == [keys.down EXCEPT ![message.side] = message.down]
    IN  [down |-> down, turn |-> Direction(message, down)]

\* KeysAfter and Direction are what the loop comes to.
ASSUME LoopAssumption ==
    \A messages \in SeqOf([side : Side, down : BOOLEAN], 3), d \in [Side -> BOOLEAN] :
        LET loop == FoldLeft(HandleAction, [down |-> d, turn |-> "FORWARD"], messages)
        IN  /\ loop.down = KeysAfter(messages, d)
            /\ messages # <<>> => loop.turn = Direction(Last(messages), loop.down)
=============================================================================
