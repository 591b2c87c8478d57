------------------------------- MODULE Events -------------------------------
(***************************************************************************)
(* The events of src/common/messages.h: what the server's game generates,  *)
(* the event storage keeps and the clients replay.  A game's log is the    *)
(* sequence of its events.  An event carries its own number, as event_no   *)
(* does, so that an ill-numbered log can be told from a good one.  The     *)
(* length, checksum and byte order of an event are left out: they change   *)
(* no decision of the modules that extend this one.                        *)
(***************************************************************************)
EXTENDS Integers, Sequences, FiniteSets, SequencesExt

CONSTANTS
    Name,       \* the players' names
    Width,      \* the board's size in pixels
    Height

ASSUME BoardAssumption == Width \in Nat \ {0} /\ Height \in Nat \ {0}

Pixels == (0 .. Width - 1) \X (0 .. Height - 1)

NewGameEvent(no, names) ==
    [type |-> "NEW_GAME", event_no |-> no, max_x |-> Width, max_y |-> Height,
     players_names |-> names]

PixelEvent(no, player, pixel) ==
    [type |-> "PIXEL", event_no |-> no, player_number |-> player, pixel |-> pixel]

EliminatedEvent(no, player) ==
    [type |-> "ELIMINATED", event_no |-> no, player_number |-> player]

GameOverEvent(no) == [type |-> "GAME_OVER", event_no |-> no]

Event ==
    [type : {"NEW_GAME"}, event_no : Nat, max_x : {Width}, max_y : {Height},
     players_names : Seq(Name)]
        \cup [type : {"PIXEL"}, event_no : Nat, player_number : Nat, pixel : Pixels]
        \cup [type : {"ELIMINATED"}, event_no : Nat, player_number : Nat]
        \cup [type : {"GAME_OVER"}, event_no : Nat]

-----------------------------------------------------------------------------
(* The grammar of a game's log. *)

IsOver(l) == l # <<>> /\ l[Len(l)].type = "GAME_OVER"

PlayersOf(l) == Len(l[1].players_names)

\* Event k-1 stands at index k: a client may ask for the log from any event.
Numbered(l) == \A k \in DOMAIN l : l[k].event_no = k - 1

\* The first event, and no other, opens the game, for two players or more.
Opened(l) ==
    /\ l # <<>>
    /\ \A k \in DOMAIN l : l[k].type = "NEW_GAME" <=> k = 1
    /\ PlayersOf(l) >= 2

IsMove(event) == event.type \in {"PIXEL", "ELIMINATED"}

\* The players enter one after the other, in the order of their names.
EveryoneEnters(l) ==
    /\ Len(l) > PlayersOf(l)
    /\ \A p \in 1 .. PlayersOf(l) :
           IsMove(l[p + 1]) /\ l[p + 1].player_number = p - 1

\* Only players of the game are mentioned.
MentionsPlayers(l) ==
    \A k \in DOMAIN l :
        IsMove(l[k]) => l[k].player_number \in 0 .. PlayersOf(l) - 1

\* No pixel is eaten twice.
EatenOnce(l) ==
    \A j, k \in DOMAIN l :
        l[j].type = "PIXEL" /\ l[k].type = "PIXEL" /\ l[j].pixel = l[k].pixel => j = k

\* An eliminated player neither moves nor dies again.
DeadAreSilent(l) ==
    \A j, k \in DOMAIN l :
        l[j].type = "ELIMINATED" /\ j < k /\ IsMove(l[k])
            => l[j].player_number # l[k].player_number

Eliminated(l) ==
    { p \in 0 .. PlayersOf(l) - 1 :
        \E k \in DOMAIN l : l[k].type = "ELIMINATED" /\ l[k].player_number = p }

\* GAME_OVER comes last, when no more than one player is left.
OverComesLast(l) ==
    \A k \in DOMAIN l : l[k].type = "GAME_OVER" =>
        k = Len(l) /\ Cardinality(Eliminated(l)) >= PlayersOf(l) - 1

WellFormed(l) ==
    /\ Numbered(l)
    /\ Opened(l)
    /\ EveryoneEnters(l)
    /\ MentionsPlayers(l)
    /\ EatenOnce(l)
    /\ DeadAreSilent(l)
    /\ OverComesLast(l)
=============================================================================
