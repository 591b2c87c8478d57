------------------------------- MODULE MCGame -------------------------------
(* Small instances of Game. *)
EXTENDS Game

\* strcasecmp does not tell "Ann" from "ann".
MCRank == [name \in Name |-> IF name = "bob" THEN 1 ELSE 0]

\* Three players.
MCEntrants == {<<"s1", "bob">>, <<"s2", "ann">>, <<"s3", "Ann">>}

\* bound: leaving, getting unready and steering come while the log is no longer
\* than this, which is a whole game of two players that move once
ChurnBound == 5

\* To leave room for three worms to move, only one of them leaves or steers
\* during a game.
MCNext ==
    \/ \E entrant \in Entrants : game_add_player(entrant[1], entrant[2])
    \/ \E sid \in Session :
           /\ Len(log) <= ChurnBound
           /\ in_progress => sid = "s1"
           /\ game_remove_player(sid)
    \/ \E sid \in Session, turn \in Turn :
           /\ Len(log) <= ChurnBound \/ turn = 1
           /\ in_progress => sid = "s1"
           /\ game_set_turn_direction(sid, turn)
    \/ Round

MCSpec == Init /\ [][MCNext]_vars /\ Fairness

-----------------------------------------------------------------------------
\* The board as it is kept, of any width and height.
Bits(w, h) == INSTANCE GameBoard WITH Width <- w, Height <- h

\* The bits of a board are a set of pixels, as the board of Game is, also where
\* the pixels are not a multiple of eight.
ASSUME BitsAssumption ==
    \A w \in 1 .. 5, h \in 1 .. 4 :
        LET blank == Bits(w, h)!game_board_create
        IN  /\ Bits(w, h)!PixelsOf(blank) = {}
            /\ \A p, q \in Bits(w, h)!Pixels :
                   LET board_of_two ==
                           Bits(w, h)!game_board_set(Bits(w, h)!game_board_set(blank, p), q)
                   IN  Bits(w, h)!PixelsOf(board_of_two) = {p, q}
=============================================================================
