----------------------------- MODULE MCDelivery -----------------------------
(* A script of two games for Delivery. *)
EXTENDS Delivery

MCNameLength == [name \in Name |-> 3]

\* A game of three, one of whom enters on an eaten pixel.
LongGame ==
    <<NewGameEvent(0, <<"ann", "bob", "cyd">>), PixelEvent(1, 0, <<0, 0>>),
      PixelEvent(2, 1, <<1, 0>>), EliminatedEvent(3, 2), EliminatedEvent(4, 1),
      GameOverEvent(5)>>

\* Both players enter on one pixel: the game is over at once, and shorter than the
\* one before.  A client that knows enough of that one is left behind.
QuickGame ==
    <<NewGameEvent(0, <<"ann", "bob">>), PixelEvent(1, 0, <<0, 0>>),
      EliminatedEvent(2, 1), GameOverEvent(3)>>

MCGames == <<[game_id |-> 7, log |-> LongGame], [game_id |-> 8, log |-> QuickGame]>>
=============================================================================
