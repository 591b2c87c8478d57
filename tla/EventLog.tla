------------------------------ MODULE EventLog ------------------------------
(***************************************************************************)
(* What the server promises to whoever follows a game through the event    *)
(* storage: the log of a game only grows, it is well formed at every       *)
(* moment, and it is dropped, with its game_id, only for the log of a new  *)
(* game and only after it has ended.  Module Game implements this          *)
(* specification.                                                          *)
(***************************************************************************)
EXTENDS Events

CONSTANT GameId

VARIABLES
    game_id,    \* the identifier the events are sent under
    log         \* the events of the last game that has started

logVars == <<game_id, log>>

Init == game_id = 0 /\ log = <<>>

\* A game starts: everyone enters, and a player who enters on an eaten pixel
\* is eliminated at once.
Begin ==
    /\ log = <<>> \/ IsOver(log)
    /\ game_id' \in GameId
    /\ WellFormed(log')
    /\ ~IsOver(log')

\* A round of the game adds events.
Extend ==
    /\ log # <<>>
    /\ ~IsOver(log)
    /\ IsStrictPrefix(log, log')
    /\ WellFormed(log')
    /\ UNCHANGED game_id

Next == Begin \/ Extend

Spec == Init /\ [][Next]_logVars
=============================================================================
