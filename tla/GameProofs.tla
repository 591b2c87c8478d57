----------------------------- MODULE GameProofs -----------------------------
(***************************************************************************)
(* Theorems about module Game, for every value of its constants: first its *)
(* counters and its lists, then its log, and that it implements EventLog.  *)
(***************************************************************************)
EXTENDS Game, ListLemmas

-----------------------------------------------------------------------------
(* Players *)

\* What no operation on a player changes.
SameIdentity(p, q) == q.session_id = p.session_id /\ q.player_name = p.player_name

\* game_set_turn_direction writes the direction alone.
LEMMA TurnWrite ==
    ASSUME NEW p \in Player, NEW t \in Turn
    PROVE  LET q == [p EXCEPT !.turn_direction = t]
           IN  /\ q \in Player /\ SameIdentity(p, q)
               /\ q.turn_direction = t /\ q.status = p.status /\ q.pos = p.pos
  BY DEF Player, SameIdentity

\* game_remove_player, during a game, adds PS_DISCONNECTED alone.
LEMMA DisconnectWrite ==
    ASSUME NEW p \in Player
    PROVE  LET q == [p EXCEPT !.status = @ \cup {"DISCONNECTED"}]
           IN  /\ q \in Player /\ SameIdentity(p, q)
               /\ q.status = p.status \cup {"DISCONNECTED"} /\ q.pos = p.pos
  BY DEF Player, SameIdentity, Flags

\* A worm that dies gets PS_DEAD and stays where it is.
LEMMA DieWrite ==
    ASSUME NEW p \in Player
    PROVE  /\ Die(p) \in Player /\ SameIdentity(p, Die(p))
           /\ Die(p).status = p.status \cup {"DEAD"} /\ Die(p).pos = p.pos
  BY DEF Player, SameIdentity, Flags, Die

\* The end of a game leaves a player waiting and not ready.
LEMMA ResetWrite ==
    ASSUME NEW p \in Player
    PROVE  /\ Reset(p) \in Player /\ SameIdentity(p, Reset(p))
           /\ Reset(p).status = {"WAITING"} /\ Reset(p).turn_direction = 0
  <1>1. Origin \in Pixels /\ 0 \in Turn
    BY BoardAssumption, GameAssumption DEF Origin, Pixels
  <1>2. QED BY <1>1 DEF Player, SameIdentity, Flags, Reset

\* A worm that moves changes its pixel and no flag.
LEMMA MoveWrite ==
    ASSUME NEW p \in Player, NEW pixel \in Pixels
    PROVE  /\ Move(p, pixel) \in Player /\ SameIdentity(p, Move(p, pixel))
           /\ Move(p, pixel).status = p.status /\ Move(p, pixel).pos = pixel
  <1> DEFINE b == (pixel = p.pos) /\ ~Sharp
  <1>1. b \in BOOLEAN
    OBVIOUS
  <1>2. Move(p, pixel) = [p EXCEPT !.pos = pixel, !.must_move = b]
    BY DEF Move
  <1> HIDE DEF b
  <1>3. QED BY <1>1, <1>2 DEF Player, SameIdentity

\* A worm that enters is in the game, and dead if its pixel is taken.
LEMMA EnterWrite ==
    ASSUME NEW p \in Player, NEW pixel \in Pixels, NEW taken \in BOOLEAN
    PROVE  /\ Enter(p, pixel, taken) \in Player
           /\ SameIdentity(p, Enter(p, pixel, taken))
           /\ Enter(p, pixel, taken).status
                = p.status \cup {"IN_GAME"} \cup (IF taken THEN {"DEAD"} ELSE {})
           /\ Enter(p, pixel, taken).pos = pixel
  <1> DEFINE flags == IF taken THEN {"DEAD"} ELSE {}
  <1>1. flags \in SUBSET Flags
    BY DEF Flags
  <1>2. Enter(p, pixel, taken)
          = [p EXCEPT !.pos = pixel, !.must_move = TRUE,
                      !.status = @ \cup {"IN_GAME"} \cup flags]
    BY DEF Enter
  <1> HIDE DEF flags
  <1>3. /\ Enter(p, pixel, taken) \in Player
        /\ SameIdentity(p, Enter(p, pixel, taken))
        /\ Enter(p, pixel, taken).status = p.status \cup {"IN_GAME"} \cup flags
        /\ Enter(p, pixel, taken).pos = pixel
    BY <1>1, <1>2 DEF Player, SameIdentity, Flags
  <1>4. QED BY <1>3 DEF flags

\* The positions of a list, and those of its ready and live players, are finite.
LEMMA PositionsFinite ==
    ASSUME NEW list \in Seq(Player)
    PROVE  /\ Len(list) \in Nat /\ DOMAIN list = 1 .. Len(list)
           /\ \A i \in DOMAIN list : list[i] \in Player
           /\ IsFiniteSet(DOMAIN list) /\ Cardinality(DOMAIN list) = Len(list)
           /\ \A S \in SUBSET DOMAIN list :
                 /\ IsFiniteSet(S) /\ Cardinality(S) \in Nat
                 /\ Cardinality(S) <= Len(list)
           /\ Ready(list) \in SUBSET DOMAIN list
           /\ Live(list) \in SUBSET DOMAIN list
           /\ Staying(list) \in SUBSET DOMAIN list
  <1>1. /\ Len(list) \in Nat /\ DOMAIN list = 1 .. Len(list)
        /\ \A i \in DOMAIN list : list[i] \in Player
    BY LenProperties, ElementOfSeq
  <1>2. IsFiniteSet(DOMAIN list) /\ Cardinality(DOMAIN list) = Len(list)
    <2>1. /\ IsFiniteSet(1 .. Len(list))
          /\ Cardinality(1 .. Len(list))
               = (IF 1 > Len(list) THEN 0 ELSE Len(list) - 1 + 1)
      BY <1>1, FS_Interval
    <2>2. QED BY <1>1, <2>1
  <1>3. ASSUME NEW S \in SUBSET DOMAIN list
        PROVE  /\ IsFiniteSet(S) /\ Cardinality(S) \in Nat
               /\ Cardinality(S) <= Len(list)
    <2>1. IsFiniteSet(S) /\ Cardinality(S) <= Cardinality(DOMAIN list)
      BY <1>2, FS_Subset
    <2>2. QED BY <1>2, <2>1, FS_CardinalityType
  <1>4. QED BY <1>1, <1>2, <1>3 DEF Ready, Live, Staying

-----------------------------------------------------------------------------
(* The first invariant: types and counters.  players_ready cannot be shown   *)
(* to stay a natural number without ReadyCovers, nor players_alive without   *)
(* CountsAlive.                                                              *)

\* Nobody waits with a flag of an earlier game.
LobbyIsFresh == \A i \in DOMAIN waiting : waiting[i].status = {"WAITING"}

Counters == TypeOK /\ CountsAlive /\ ReadyCovers /\ LobbyIsFresh

\* The game is created with the invariant.
LEMMA CountersInit == Init => Counters
  <1> SUFFICES ASSUME Init PROVE Counters
    OBVIOUS
  <1> USE DEF Init, game_create, game_board_create
  <1>1. TypeOK
    <2>1. players \in Seq(Player) /\ waiting \in Seq(Player) /\ log \in Seq(Event)
      BY EmptySeq
    <2>2. players_ready \in 0 .. ReadyBound
      BY GameAssumption
    <2>3. QED BY <2>1, <2>2 DEF TypeOK
  <1>2. Ready(waiting) = {} /\ Live(players) = {} /\ players = <<>>
    BY DEF Ready, Live
  <1>3. CountsAlive
    BY <1>2, FS_EmptySet DEF CountsAlive
  <1>4. ReadyCovers
    BY <1>2, FS_EmptySet DEF ReadyCovers
  <1>5. LobbyIsFresh
    BY DEF LobbyIsFresh
  <1>6. QED BY <1>1, <1>3, <1>4, <1>5 DEF Counters

\* game_add_player: a player that comes is not ready.
LEMMA CountersAdd ==
    ASSUME Counters, NEW entrant \in Entrants,
           game_add_player(entrant[1], entrant[2])
    PROVE  Counters'
  <1> DEFINE sid == entrant[1]
             name == entrant[2]
             new == player_create(sid, name)
  <1> USE DEF Counters
  <1>1. sid \in Session /\ name \in Name \cup {NoName}
    BY GameAssumption
  <1>2. CASE name = NoName /\ add_observer(sid)
    BY <1>1, <1>2 DEF game_add_player, add_observer, TypeOK, CountsAlive,
                      ReadyCovers, Ready, Live, LobbyIsFresh, events
  <1>3. CASE name # NoName /\ add_player(sid, name) /\ ~IsKnown(sid)
    <2>1. waiting' = Append(waiting, new)
      BY <1>3 DEF add_player, list_add
    <2>2. new \in Player
      BY <1>1, <1>3, BoardAssumption, GameAssumption
         DEF player_create, Player, Origin, Pixels, Flags
    <2>3. /\ waiting \in Seq(Player) /\ Len(waiting) \in Nat
          /\ DOMAIN waiting = 1 .. Len(waiting)
      BY LenProperties DEF TypeOK
    <2>4. /\ waiting' \in Seq(Player) /\ Len(waiting') = Len(waiting) + 1
          /\ \A i \in 1 .. Len(waiting) : waiting'[i] = waiting[i]
          /\ waiting'[Len(waiting) + 1] = new
          /\ DOMAIN waiting' = 1 .. Len(waiting')
      BY <2>1, <2>2, <2>3, AppendProperties, LenProperties
    <2>5. Ready(waiting') = Ready(waiting)
      <3>1. new.turn_direction = 0
        BY DEF player_create
      <3>2. \A i \in DOMAIN waiting' :
               i \in DOMAIN waiting \/ i = Len(waiting) + 1
        BY <2>3, <2>4
      <3>3. QED BY <2>3, <2>4, <3>1, <3>2 DEF Ready
    <2>6. LobbyIsFresh'
      <3>1. new.status = {"WAITING"}
        BY DEF player_create
      <3>2. \A i \in DOMAIN waiting' :
               i \in DOMAIN waiting \/ i = Len(waiting) + 1
        BY <2>3, <2>4
      <3>3. QED BY <2>3, <2>4, <3>1, <3>2 DEF LobbyIsFresh
    <2>7. QED
      BY <1>3, <2>4, <2>5, <2>6
         DEF game_add_player, add_player, TypeOK, CountsAlive, ReadyCovers, Live,
             events, Ready
  <1>4. CASE name # NoName /\ add_player(sid, name) /\ IsKnown(sid)
    BY <1>4 DEF game_add_player, add_player, TypeOK, CountsAlive,
                ReadyCovers, Ready, Live, LobbyIsFresh, events
  <1>5. QED BY <1>2, <1>3, <1>4 DEF game_add_player

\* Removing a player from a list makes no other player ready.
LEMMA RemovedReady ==
    ASSUME NEW list \in Seq(Player), NEW i \in DOMAIN list
    PROVE  Cardinality(Ready(RemoveAt(list, i))) <= Cardinality(Ready(list))
  <1> DEFINE rest == RemoveAt(list, i)
             f == [j \in Ready(rest) |-> IF j < i THEN j ELSE j + 1]
  <1>1. /\ Len(list) \in Nat /\ DOMAIN list = 1 .. Len(list)
        /\ IsFiniteSet(Ready(list))
    BY PositionsFinite
  <1>2. /\ rest \in Seq(Player) /\ Len(rest) = Len(list) - 1
        /\ \A j \in 1 .. Len(list) - 1 :
              rest[j] = IF j < i THEN list[j] ELSE list[j + 1]
    BY RemoveAtProperties
  <1>3. DOMAIN rest = 1 .. Len(list) - 1
    BY <1>2, PositionsFinite
  <1> HIDE DEF rest
  <1>4. \A j \in Ready(rest) :
           /\ j \in 1 .. Len(list) - 1
           /\ (IF j < i THEN j ELSE j + 1) \in Ready(list)
    BY <1>1, <1>2, <1>3 DEF Ready
  <1>5. f \in [Ready(rest) -> Ready(list)]
    BY <1>4
  <1>6. \A a, b \in DOMAIN f : f[a] = f[b] => a = b
    BY <1>1, <1>4
  <1>7. f \in Injection(Ready(rest), Ready(list))
    BY <1>5, <1>6 DEF Injection, IsInjective
  <1>8. QED BY <1>1, <1>7, FS_Injection DEF rest

\* game_remove_player: who leaves the lobby may have been ready, and
\* players_ready is then too high; who leaves a game stays on its list.
LEMMA CountersRemove ==
    ASSUME Counters, NEW sid \in Session, game_remove_player(sid)
    PROVE  Counters'
  <1> USE DEF Counters
  <1>1. CASE RemoveObserver(sid) \/ (IsAbsent(sid) /\ UNCHANGED lists)
    BY <1>1 DEF game_remove_player, RemoveObserver, TypeOK, CountsAlive,
                ReadyCovers, Ready, Live, LobbyIsFresh, events, lists
  <1>2. CASE RemoveWaiting(sid)
    <2>1. PICK i \in DOMAIN waiting : waiting' = RemoveAt(waiting, i)
      BY <1>2 DEF RemoveWaiting, list_remove
    <2>2. waiting \in Seq(Player)
      BY DEF TypeOK
    <2>3. waiting' \in Seq(Player)
      BY <2>1, <2>2, RemoveAtProperties
    <2>4. /\ Cardinality(Ready(waiting')) <= Cardinality(Ready(waiting))
          /\ Cardinality(Ready(waiting)) \in Nat
          /\ Cardinality(Ready(waiting')) \in Nat
      BY <2>1, <2>2, <2>3, RemovedReady, PositionsFinite
    <2>5. in_progress => Ready(waiting') = {}
      <3>1. SUFFICES ASSUME in_progress PROVE Ready(waiting') = {}
        OBVIOUS
      <3>2. Ready(waiting) = {} /\ Cardinality(Ready(waiting)) = 0
        BY <3>1, FS_EmptySet DEF ReadyCovers
      <3>3. IsFiniteSet(Ready(waiting'))
        BY <2>3, PositionsFinite
      <3>4. QED BY <2>4, <3>2, <3>3, FS_EmptySet
    <2>6. ReadyCovers'
      <3>1. players_ready' = players_ready /\ in_progress' = in_progress
        BY DEF game_remove_player
      <3>2. players_ready \in Nat
        BY GameAssumption DEF TypeOK
      <3>3. Cardinality(Ready(waiting')) <= players_ready
        BY <2>4, <3>2 DEF ReadyCovers
      <3>4. QED BY <2>5, <3>1, <3>3 DEF ReadyCovers, Ready
    <2>7. LobbyIsFresh'
      <3>1. /\ DOMAIN waiting = 1 .. Len(waiting) /\ Len(waiting) \in Nat
            /\ DOMAIN waiting' = 1 .. Len(waiting')
        BY <2>2, <2>3, PositionsFinite
      <3>2. /\ Len(waiting') = Len(waiting) - 1
            /\ \A j \in 1 .. Len(waiting) - 1 :
                  waiting'[j] = waiting[j] \/ waiting'[j] = waiting[j + 1]
        BY <2>1, <2>2, RemoveAtProperties
      <3>3. \A j \in DOMAIN waiting' : j \in DOMAIN waiting /\ j + 1 \in DOMAIN waiting
        BY <3>1, <3>2
      <3>4. QED BY <3>1, <3>2, <3>3 DEF LobbyIsFresh
    <2>8. QED
      BY <1>2, <2>3, <2>6, <2>7
         DEF game_remove_player, RemoveWaiting, TypeOK, CountsAlive, Live, events
  <1>3. CASE Disconnect(sid)
    <2>1. PICK i \in DOMAIN players :
             players' = [players EXCEPT ![i] = [players[i] EXCEPT !.status = @ \cup {"DISCONNECTED"}]]
      BY <1>3 DEF Disconnect
    <2> DEFINE gone == [players[i] EXCEPT !.status = @ \cup {"DISCONNECTED"}]
    <2>2. /\ players \in Seq(Player) /\ i \in 1 .. Len(players)
          /\ \A j \in DOMAIN players : players[j] \in Player
          /\ DOMAIN players = 1 .. Len(players)
      BY PositionsFinite DEF TypeOK
    <2>3. gone \in Player
      BY <2>2, DisconnectWrite
    <2>4. gone.status = players[i].status \cup {"DISCONNECTED"}
      BY <2>2, DisconnectWrite
    <2> HIDE DEF gone
    <2>5. players' = [players EXCEPT ![i] = gone]
      BY <2>1 DEF gone
    <2>6. /\ players' \in Seq(Player)
          /\ DOMAIN players' = DOMAIN players
          /\ \A j \in DOMAIN players : players'[j] = IF j = i THEN gone ELSE players[j]
      BY <2>2, <2>3, <2>5, ExceptSeq, LenProperties
    <2>7. Live(players') = Live(players)
      BY <2>4, <2>6 DEF Live
    <2>8. players' = <<>> <=> players = <<>>
      BY <2>2, <2>6
    <2>9. QED
      BY <1>3, <2>6, <2>7, <2>8
         DEF game_remove_player, Disconnect, TypeOK, CountsAlive, ReadyCovers,
             Ready, Live, LobbyIsFresh, events
  <1>4. QED BY <1>1, <1>2, <1>3 DEF game_remove_player

\* game_set_turn_direction: players_ready follows the player that changes.
LEMMA CountersTurn ==
    ASSUME Counters, NEW sid \in Session, NEW turn \in Turn,
           game_set_turn_direction(sid, turn)
    PROVE  Counters'
  <1> USE DEF Counters
  <1>1. CASE Steer(sid, turn)
    <2>1. PICK i \in DOMAIN players :
             players' = [players EXCEPT ![i] = [players[i] EXCEPT !.turn_direction = turn]]
      BY <1>1 DEF Steer
    <2> DEFINE new == [players[i] EXCEPT !.turn_direction = turn]
    <2>2. /\ players \in Seq(Player) /\ i \in 1 .. Len(players)
          /\ \A j \in DOMAIN players : players[j] \in Player
          /\ DOMAIN players = 1 .. Len(players)
      BY PositionsFinite DEF TypeOK
    <2>3. new \in Player /\ new.status = players[i].status
      BY <2>2, TurnWrite
    <2> HIDE DEF new
    <2>4. players' = [players EXCEPT ![i] = new]
      BY <2>1 DEF new
    <2>5. /\ players' \in Seq(Player)
          /\ DOMAIN players' = DOMAIN players
          /\ \A j \in DOMAIN players : players'[j] = IF j = i THEN new ELSE players[j]
      BY <2>2, <2>3, <2>4, ExceptSeq, LenProperties
    <2>6. Live(players') = Live(players) /\ (players' = <<>> <=> players = <<>>)
      BY <2>2, <2>3, <2>5 DEF Live
    <2>7. QED
      BY <1>1, <2>5, <2>6
         DEF game_set_turn_direction, Steer, TypeOK, CountsAlive, ReadyCovers,
             Ready, Live, LobbyIsFresh, events
  <1>2. CASE GetReady(sid, turn)
    <2>1. PICK i \in DOMAIN waiting :
             /\ players_ready' = players_ready + ReadyDelta(waiting[i].turn_direction, turn)
             /\ players_ready' <= ReadyBound
             /\ waiting' = [waiting EXCEPT ![i] = [waiting[i] EXCEPT !.turn_direction = turn]]
      BY <1>2 DEF GetReady
    <2> DEFINE old == waiting[i].turn_direction
               new == [waiting[i] EXCEPT !.turn_direction = turn]
    <2>2. /\ waiting \in Seq(Player) /\ i \in 1 .. Len(waiting)
          /\ \A j \in DOMAIN waiting : waiting[j] \in Player
          /\ DOMAIN waiting = 1 .. Len(waiting)
          /\ IsFiniteSet(Ready(waiting)) /\ Cardinality(Ready(waiting)) \in Nat
      BY PositionsFinite DEF TypeOK
    <2>3. /\ new \in Player /\ new.turn_direction = turn /\ old \in Nat /\ turn \in Nat
          /\ new.status = waiting[i].status
      <3>1. /\ new \in Player /\ new.turn_direction = turn /\ old \in Turn
            /\ new.status = waiting[i].status
        BY <2>2, TurnWrite DEF Player
      <3>2. QED BY <3>1, GameAssumption
    <2>4. /\ waiting' \in Seq(Player)
          /\ DOMAIN waiting' = DOMAIN waiting
          /\ \A j \in DOMAIN waiting : waiting'[j] = IF j = i THEN new ELSE waiting[j]
      <3> HIDE DEF new
      <3>1. waiting' = [waiting EXCEPT ![i] = new]
        BY <2>1 DEF new
      <3>2. QED BY <2>2, <2>3, <3>1, ExceptSeq, LenProperties
    <2> HIDE DEF new
    <2>5. Ready(waiting') = IF turn = 0 THEN Ready(waiting) \ {i}
                                        ELSE Ready(waiting) \cup {i}
      BY <2>2, <2>3, <2>4 DEF Ready
    <2>6. i \in Ready(waiting) <=> old # 0
      BY <2>2 DEF Ready
    <2>7. Cardinality(Ready(waiting'))
            = Cardinality(Ready(waiting)) + ReadyDelta(old, turn)
      <3>1. CASE turn = 0
        <4>1. Cardinality(Ready(waiting) \ {i})
                = IF i \in Ready(waiting) THEN Cardinality(Ready(waiting)) - 1
                                          ELSE Cardinality(Ready(waiting))
          BY <2>2, FS_RemoveElement
        <4>2. QED BY <2>2, <2>3, <2>5, <2>6, <3>1, <4>1 DEF ReadyDelta
      <3>2. CASE turn # 0
        <4>1. Cardinality(Ready(waiting) \cup {i})
                = IF i \in Ready(waiting) THEN Cardinality(Ready(waiting))
                                          ELSE Cardinality(Ready(waiting)) + 1
          BY <2>2, FS_AddElement
        <4>2. QED BY <2>2, <2>3, <2>5, <2>6, <3>2, <4>1 DEF ReadyDelta
      <3>3. QED BY <3>1, <3>2
    <2>8. ReadyDelta(old, turn) \in {-1, 0, 1}
      BY DEF ReadyDelta
    <2>9. players_ready \in Nat /\ ReadyBound \in Nat
      BY GameAssumption DEF TypeOK
    <2>10. Cardinality(Ready(waiting')) \in Nat
      BY <2>4, PositionsFinite
    <2>11. Cardinality(Ready(waiting')) <= players_ready'
      BY <2>1, <2>2, <2>7, <2>8, <2>9 DEF ReadyCovers
    <2>12. players_ready' \in 0 .. ReadyBound
      BY <2>1, <2>8, <2>9, <2>10, <2>11
    <2>13. ReadyCovers'
      BY <1>2, <2>11 DEF ReadyCovers, Ready, GetReady, game_set_turn_direction
    <2>14. LobbyIsFresh'
      BY <2>2, <2>3, <2>4 DEF LobbyIsFresh
    <2>15. QED
      BY <1>2, <2>4, <2>12, <2>13, <2>14
         DEF game_set_turn_direction, GetReady, TypeOK, CountsAlive, Live, events
  <1>3. CASE UNCHANGED <<players, waiting, players_ready>>
    BY <1>3 DEF game_set_turn_direction, TypeOK, CountsAlive, ReadyCovers, Ready,
                Live, LobbyIsFresh, events
  <1>4. QED BY <1>1, <1>2, <1>3 DEF game_set_turn_direction

-----------------------------------------------------------------------------
(* The rounds *)

\* sort_players permutes the list.
LEMMA SortProperties ==
    ASSUME NEW list \in Seq(Player), NEW sorted \in sort_players(list)
    PROVE  /\ sorted \in Seq(Player)
           /\ Len(sorted) = Len(list) /\ DOMAIN sorted = DOMAIN list
           /\ \E o \in [DOMAIN list -> DOMAIN list] :
                 /\ \A k \in DOMAIN list : sorted[k] = list[o[k]]
                 /\ \A j, k \in DOMAIN list : o[j] = o[k] => j = k
                 /\ \A i \in DOMAIN list : \E k \in DOMAIN list : o[k] = i
  <1>1. /\ Len(list) \in Nat /\ DOMAIN list = 1 .. Len(list)
        /\ \A i \in DOMAIN list : list[i] \in Player
        /\ IsFiniteSet(DOMAIN list)
    BY PositionsFinite
  <1> DEFINE rank == [player \in Range(list) |-> Rank[player.player_name]]
  <1>2. PICK o \in [DOMAIN list -> DOMAIN list] :
           /\ \A j, k \in DOMAIN list : j < k => Before(list, rank, o[j], o[k])
           /\ sorted = [k \in DOMAIN list |-> list[o[k]]]
    BY DEF sort_players, Sorts
  <1>3. sorted \in [1 .. Len(list) -> Player]
    BY <1>1, <1>2
  <1>4. /\ sorted \in Seq(Player) /\ Len(sorted) = Len(list)
        /\ DOMAIN sorted = DOMAIN list
    BY <1>1, <1>3, FunctionIsSeq
  <1>5. \A i \in DOMAIN list : ~Before(list, rank, i, i)
    <2> SUFFICES ASSUME NEW i \in DOMAIN list PROVE ~Before(list, rank, i, i)
      OBVIOUS
    <2>1. list[i].player_name \in Name /\ list[i] \in Range(list)
      BY <1>1 DEF Player, Range
    <2>2. rank[list[i]] \in Nat /\ i \in Nat
      BY <1>1, <2>1, GameAssumption
    <2>3. QED BY <2>2 DEF Before
  <1>6. \A j, k \in DOMAIN list : o[j] = o[k] => j = k
    <2> SUFFICES ASSUME NEW j \in DOMAIN list, NEW k \in DOMAIN list,
                        o[j] = o[k], j # k
                 PROVE  FALSE
      OBVIOUS
    <2>1. j < k \/ k < j
      BY <1>1
    <2>2. QED BY <1>2, <1>5, <2>1
  <1>7. o \in Injection(DOMAIN list, DOMAIN list)
    BY <1>6 DEF Injection, IsInjective
  <1>8. o \in Surjection(DOMAIN list, DOMAIN list)
    BY <1>1, <1>7, FS_Injection
  <1>9. \A i \in DOMAIN list : \E k \in DOMAIN list : o[k] = i
    BY <1>8 DEF Surjection
  <1>10. QED BY <1>2, <1>4, <1>6, <1>9

\* Who gets which number in a game is determined: sort_players makes one list of
\* the players, by their names and then by their arrival, and so a round that
\* begins a game never waits for it.
THEOREM SortPlayersIsDetermined ==
    \A list \in Seq(Player) : \E sorted : sort_players(list) = {sorted}
  <1> SUFFICES ASSUME NEW list \in Seq(Player)
               PROVE  \E sorted : sort_players(list) = {sorted}
    OBVIOUS
  <1> DEFINE R == Range(list)
             rank == [player \in R |-> Rank[player.player_name]]
  <1>1. /\ Len(list) \in Nat /\ DOMAIN list = 1 .. Len(list)
        /\ \A i \in DOMAIN list : list[i] \in Player /\ list[i] \in R
        /\ list \in [1 .. Len(list) -> R]
    <2>1. Len(list) \in Nat /\ list \in [1 .. Len(list) -> Player]
      BY LenProperties
    <2>2. QED BY <2>1 DEF Range
  <1>2. list \in Seq(R)
    BY <1>1, FunctionIsSeq
  <1>3. \A player \in R : Rank[player.player_name] \in Nat
    <2>1. \A player \in R : player \in Player
      BY <1>1 DEF Range
    <2>2. QED BY <2>1, GameAssumption DEF Player
  <1>4. rank \in [R -> Nat]
    BY <1>3
  <1>5. sort_players(list) = Sorts(list, rank)
    BY DEF sort_players
  <1> HIDE DEF R, rank
  <1>6. QED BY <1>2, <1>4, <1>5, SortIsDetermined

\* The players of a new game.
LEMMA EnteringProperties ==
    ASSUME NEW list \in Seq(Player), NEW spawn \in [DOMAIN list -> Pixels]
    PROVE  /\ Entering(list, spawn) \in Seq(Player)
           /\ DOMAIN Entering(list, spawn) = DOMAIN list
           /\ \A i \in DOMAIN list :
                 /\ SameIdentity(list[i], Entering(list, spawn)[i])
                 /\ Entering(list, spawn)[i].pos = spawn[i]
                 /\ Entering(list, spawn)[i].status
                      = list[i].status \cup {"IN_GAME"}
                          \cup (IF IsTaken(spawn, i) THEN {"DEAD"} ELSE {})
  <1> DEFINE new(i) == Enter(list[i], spawn[i], IsTaken(spawn, i))
  <1>1. /\ Len(list) \in Nat /\ DOMAIN list = 1 .. Len(list)
        /\ \A i \in DOMAIN list : list[i] \in Player
    BY PositionsFinite
  <1>2. ASSUME NEW i \in DOMAIN list
        PROVE  /\ new(i) \in Player /\ SameIdentity(list[i], new(i))
               /\ new(i).pos = spawn[i]
               /\ new(i).status
                    = list[i].status \cup {"IN_GAME"}
                        \cup (IF IsTaken(spawn, i) THEN {"DEAD"} ELSE {})
    <2>1. list[i] \in Player /\ spawn[i] \in Pixels /\ IsTaken(spawn, i) \in BOOLEAN
      BY <1>1 DEF IsTaken
    <2>2. QED BY <2>1, EnterWrite
  <1>3. Entering(list, spawn) = [i \in DOMAIN list |-> new(i)]
    BY DEF Entering
  <1> HIDE DEF new
  <1>4. Entering(list, spawn) \in [1 .. Len(list) -> Player]
    BY <1>1, <1>2, <1>3
  <1>5. /\ Entering(list, spawn) \in Seq(Player)
        /\ DOMAIN Entering(list, spawn) = DOMAIN list
    BY <1>1, <1>4, FunctionIsSeq
  <1>6. QED BY <1>2, <1>3, <1>5

\* The events of a new game are events.
LEMMA StartEventsType ==
    ASSUME NEW list \in Seq(Player), NEW spawn \in [DOMAIN list -> Pixels],
           next_event_no \in Nat
    PROVE  /\ StartEvents(list, spawn) \in Seq(Event)
           /\ Len(StartEvents(list, spawn)) = Len(list) + 1
           /\ StartEvents(list, spawn)[1]
                = NewGameEvent(next_event_no, NamesOf(list))
           /\ \A i \in DOMAIN list :
                 StartEvents(list, spawn)[i + 1]
                   = IF IsTaken(spawn, i)
                     THEN EliminatedEvent(next_event_no + i, i - 1)
                     ELSE PixelEvent(next_event_no + i, i - 1, spawn[i])
  <1> DEFINE first == NewGameEvent(next_event_no, NamesOf(list))
             enter(i) == IF IsTaken(spawn, i)
                         THEN EliminatedEvent(next_event_no + i, i - 1)
                         ELSE PixelEvent(next_event_no + i, i - 1, spawn[i])
             rest == [i \in DOMAIN list |-> enter(i)]
  <1>1. /\ Len(list) \in Nat /\ DOMAIN list = 1 .. Len(list)
        /\ \A i \in DOMAIN list : list[i] \in Player
    BY PositionsFinite
  <1>2. NamesOf(list) \in Seq(Name)
    <2>1. NamesOf(list) \in [1 .. Len(list) -> Name]
      BY <1>1 DEF NamesOf, Player
    <2>2. QED BY <1>1, <2>1, FunctionIsSeq
  <1>3. first \in Event
    BY <1>2 DEF Event, NewGameEvent
  <1>4. ASSUME NEW i \in DOMAIN list
        PROVE  enter(i) \in Event
    <2>1. next_event_no + i \in Nat /\ i - 1 \in Nat /\ spawn[i] \in Pixels
      BY <1>1
    <2>2. QED BY <2>1 DEF Event, EliminatedEvent, PixelEvent
  <1> HIDE DEF first, enter
  <1>5. rest \in [1 .. Len(list) -> Event]
    BY <1>1, <1>4
  <1>6. rest \in Seq(Event) /\ Len(rest) = Len(list)
    BY <1>1, <1>5, FunctionIsSeq
  <1>7. <<first>> \in Seq(Event) /\ Len(<<first>>) = 1 /\ <<first>>[1] = first
    BY <1>3
  <1>8. StartEvents(list, spawn) = <<first>> \o rest
    BY DEF StartEvents, first, enter
  <1>9. /\ <<first>> \o rest \in Seq(Event)
        /\ Len(<<first>> \o rest) = Len(<<first>>) + Len(rest)
        /\ \A i \in 1 .. Len(<<first>>) + Len(rest) :
              (<<first>> \o rest)[i]
                = IF i <= Len(<<first>>) THEN <<first>>[i] ELSE rest[i - Len(<<first>>)]
    BY <1>6, <1>7, ConcatProperties
  <1>10. ASSUME NEW i \in DOMAIN list
         PROVE  (<<first>> \o rest)[i + 1] = enter(i)
    <2>1. /\ i + 1 \in 1 .. Len(<<first>>) + Len(rest)
          /\ ~(i + 1 <= Len(<<first>>)) /\ i + 1 - Len(<<first>>) = i
      BY <1>1, <1>6, <1>7
    <2>2. QED BY <1>9, <2>1
  <1>11. 1 \in 1 .. Len(<<first>>) + Len(rest) /\ 1 <= Len(<<first>>)
    BY <1>1, <1>6, <1>7
  <1>12. QED BY <1>6, <1>7, <1>8, <1>9, <1>10, <1>11 DEF first, enter

\* game_tick_waiting: the players that enter on a free pixel are those alive.
LEMMA CountersStart ==
    ASSUME Counters, game_tick_waiting
    PROVE  Counters'
  <1>1. PICK list \in sort_players(waiting) :
        \E spawn \in [DOMAIN list -> Pixels] :
           /\ players' = Entering(list, spawn)
           /\ players_alive' = Len(list)
                  - Cardinality({ i \in DOMAIN list : IsTaken(spawn, i) })
           /\ board' = board \cup { spawn[i] : i \in DOMAIN list }
           /\ next_event_no' = next_event_no + 1 + Len(list)
           /\ handle_round(StartEvents(list, spawn))
    BY DEF game_tick_waiting, game_board_set
  <1>2. PICK spawn \in [DOMAIN list -> Pixels] :
           /\ players' = Entering(list, spawn)
           /\ players_alive' = Len(list)
                  - Cardinality({ i \in DOMAIN list : IsTaken(spawn, i) })
           /\ board' = board \cup { spawn[i] : i \in DOMAIN list }
           /\ next_event_no' = next_event_no + 1 + Len(list)
           /\ handle_round(StartEvents(list, spawn))
    BY <1>1
  <1> DEFINE taken == { i \in DOMAIN list : IsTaken(spawn, i) }
  <1>3. /\ waiting \in Seq(Player) /\ players \in Seq(Player)
        /\ next_event_no \in Nat /\ players_ready \in Nat
        /\ log \in Seq(Event) /\ board \in SUBSET Pixels
        /\ ~in_progress /\ players_ready > 1 /\ Len(waiting) = players_ready
        /\ waiting' = players /\ players_ready' = players_ready
        /\ in_progress' = TRUE
    BY GameAssumption DEF Counters, TypeOK, game_tick_waiting, CanStart
  <1>4. /\ list \in Seq(Player) /\ Len(list) = Len(waiting)
        /\ DOMAIN list = DOMAIN waiting
        /\ \A k \in DOMAIN list : list[k].status = {"WAITING"}
    <2>1. /\ list \in Seq(Player)
          /\ Len(list) = Len(waiting) /\ DOMAIN list = DOMAIN waiting
          /\ \E o \in [DOMAIN waiting -> DOMAIN waiting] :
                /\ \A k \in DOMAIN waiting : list[k] = waiting[o[k]]
                /\ \A j, k \in DOMAIN waiting : o[j] = o[k] => j = k
                /\ \A i \in DOMAIN waiting : \E k \in DOMAIN waiting : o[k] = i
      BY <1>3, SortProperties, Zenon
    <2>2. PICK o \in [DOMAIN waiting -> DOMAIN waiting] :
             \A k \in DOMAIN waiting : list[k] = waiting[o[k]]
      BY <2>1
    <2>3. QED BY <2>1, <2>2 DEF Counters, LobbyIsFresh
  <1>5. /\ Len(list) \in Nat /\ DOMAIN list = 1 .. Len(list)
        /\ IsFiniteSet(DOMAIN list) /\ Cardinality(DOMAIN list) = Len(list)
        /\ Cardinality(taken) \in Nat /\ Cardinality(taken) <= Len(list)
    <2>1. taken \in SUBSET DOMAIN list
      OBVIOUS
    <2> HIDE DEF taken
    <2>2. QED BY <1>4, <2>1, PositionsFinite
  <1>6. /\ players' \in Seq(Player) /\ DOMAIN players' = DOMAIN list
        /\ \A i \in DOMAIN list :
              players'[i].status
                = {"WAITING"} \cup {"IN_GAME"}
                    \cup (IF IsTaken(spawn, i) THEN {"DEAD"} ELSE {})
    <2> DEFINE new == Entering(list, spawn)
    <2>1. /\ new \in Seq(Player) /\ DOMAIN new = DOMAIN list
          /\ \A i \in DOMAIN list :
                /\ SameIdentity(list[i], new[i])
                /\ new[i].pos = spawn[i]
                /\ new[i].status
                     = list[i].status \cup {"IN_GAME"}
                         \cup (IF IsTaken(spawn, i) THEN {"DEAD"} ELSE {})
      BY <1>4, EnteringProperties, Zenon
    <2>2. players' = new
      BY <1>2
    <2> HIDE DEF new
    <2>3. QED BY <1>4, <2>1, <2>2
  <1>7. Live(players') = DOMAIN list \ taken
    BY <1>6 DEF Live
  <1>8. Cardinality(Live(players')) = Len(list) - Cardinality(taken)
    <2>1. DOMAIN list \cap taken = taken
      OBVIOUS
    <2> HIDE DEF taken
    <2> DEFINE D == DOMAIN list
    <2>2. IsFiniteSet(D) /\ Cardinality(D) = Len(list) /\ D \cap taken = taken
      BY <1>5, <2>1
    <2> HIDE DEF D
    <2>3. Cardinality(D \ taken) = Cardinality(D) - Cardinality(D \cap taken)
      BY <2>2, FS_Difference
    <2>4. Cardinality(D \ taken) = Len(list) - Cardinality(taken)
      BY <2>2, <2>3
    <2>5. QED BY <1>7, <2>4 DEF D
  <1>9. players_alive' = Cardinality(Live(players')) /\ players_alive' \in Nat
    BY <1>2, <1>5, <1>8
  <1>10. players' # <<>>
    BY <1>3, <1>4, <1>5, <1>6
  <1>11. CountsAlive'
    BY <1>3, <1>9, <1>10 DEF CountsAlive, Live
  <1>12. waiting' = <<>>
    BY <1>3 DEF Counters, CountsAlive
  <1>13. Ready(waiting') = {}
    BY <1>12 DEF Ready
  <1>14. ReadyCovers' /\ LobbyIsFresh'
    BY <1>3, <1>12, <1>13, FS_EmptySet DEF ReadyCovers, LobbyIsFresh, Ready
  <1>15. log' \in Seq(Event)
    <2>1. StartEvents(list, spawn) \in Seq(Event)
      BY <1>3, <1>4, StartEventsType
    <2>2. log \o StartEvents(list, spawn) \in Seq(Event)
      BY <1>3, <2>1, ConcatProperties
    <2>3. QED BY <1>2, <2>1, <2>2 DEF handle_round
  <1>16. board' \in SUBSET Pixels
    BY <1>2, <1>3
  <1>17. next_event_no' \in Nat
    BY <1>2, <1>3, <1>5
  <1>18. is_game_in_progress' \in BOOLEAN
    BY <1>2, <1>3 DEF handle_round
  <1>19. TypeOK'
    BY <1>3, <1>6, <1>9, <1>15, <1>16, <1>17, <1>18
       DEF Counters, TypeOK, game_tick_waiting
  <1>20. QED BY <1>11, <1>14, <1>19 DEF Counters

\* The worms after their steps.
LEMMA MovedProperties ==
    ASSUME players \in Seq(Player), NEW to \in Moves
    PROVE  /\ to \in [Live(players) -> Pixels \cup {Outside}]
           /\ Movers(to) \in SUBSET Live(players)
           /\ Crashed(to) \in SUBSET Movers(to)
           /\ \A i \in Live(players) \ Crashed(to) : to[i] \in Pixels
           /\ Moved(to) \in Seq(Player)
           /\ DOMAIN Moved(to) = DOMAIN players
           /\ \A i \in DOMAIN players : SameIdentity(players[i], Moved(to)[i])
           /\ \A i \in DOMAIN players :
                 Moved(to)[i].status
                   = players[i].status \cup (IF i \in Crashed(to) THEN {"DEAD"} ELSE {})
           /\ \A i \in DOMAIN players :
                 Moved(to)[i].pos
                   = IF i \in Live(players) \ Crashed(to) THEN to[i] ELSE players[i].pos
           /\ Live(Moved(to)) = Live(players) \ Crashed(to)
  <1>1. to \in [Live(players) -> Pixels \cup {Outside}] /\ DOMAIN to = Live(players)
    BY DEF Moves
  <1>2. /\ Movers(to) \in SUBSET Live(players) /\ Crashed(to) \in SUBSET Movers(to)
    BY <1>1 DEF Movers, Crashed
  <1>3. /\ Len(players) \in Nat /\ DOMAIN players = 1 .. Len(players)
        /\ \A i \in DOMAIN players : players[i] \in Player
        /\ Live(players) \in SUBSET DOMAIN players
    BY PositionsFinite
  <1>4. ASSUME NEW i \in Live(players) \ Crashed(to)
        PROVE  to[i] \in Pixels
    <2>1. CASE i \in Movers(to)
      BY <1>1, <2>1 DEF Crashed, Crashes
    <2>2. CASE i \notin Movers(to)
      <3>1. to[i] = players[i].pos
        BY <1>1, <2>2 DEF Movers
      <3>2. QED BY <1>3, <3>1 DEF Player
    <2>3. QED BY <2>1, <2>2
  <1> DEFINE worm(i) == IF i \notin DOMAIN to THEN players[i]
                        ELSE IF i \in Crashed(to) THEN Die(players[i])
                        ELSE Move(players[i], to[i])
  <1>5. ASSUME NEW i \in DOMAIN players
        PROVE  /\ worm(i) \in Player /\ SameIdentity(players[i], worm(i))
               /\ worm(i).status
                    = players[i].status \cup (IF i \in Crashed(to) THEN {"DEAD"} ELSE {})
               /\ worm(i).pos = IF i \in Live(players) \ Crashed(to)
                                THEN to[i] ELSE players[i].pos
    <2>1. players[i] \in Player
      BY <1>3
    <2>2. CASE i \notin DOMAIN to
      BY <1>1, <1>2, <2>1, <2>2 DEF SameIdentity
    <2>3. CASE i \in DOMAIN to /\ i \in Crashed(to)
      BY <1>1, <2>1, <2>3, DieWrite
    <2>4. CASE i \in DOMAIN to /\ i \notin Crashed(to)
      <3>1. to[i] \in Pixels /\ i \in Live(players) \ Crashed(to)
        BY <1>1, <1>4, <2>4
      <3>2. QED BY <2>1, <2>4, <3>1, MoveWrite
    <2>5. QED BY <2>2, <2>3, <2>4
  <1>6. Moved(to) = [i \in DOMAIN players |-> worm(i)]
    BY DEF Moved
  <1> HIDE DEF worm
  <1>7. Moved(to) \in [1 .. Len(players) -> Player]
    BY <1>3, <1>5, <1>6
  <1>8. Moved(to) \in Seq(Player) /\ DOMAIN Moved(to) = DOMAIN players
    BY <1>3, <1>7, FunctionIsSeq
  <1>9. Live(Moved(to)) = Live(players) \ Crashed(to)
    BY <1>2, <1>3, <1>5, <1>6, <1>8 DEF Live
  <1>10. QED BY <1>1, <1>2, <1>4, <1>5, <1>6, <1>8, <1>9

\* The events of the steps are events, in the order of the worms.
LEMMA MoveEventsType ==
    ASSUME players \in Seq(Player), next_event_no \in Nat,
           NEW to \in Moves, NEW e \in Enumerations(Movers(to))
    PROVE  /\ MoveEvents(to, e) \in Seq(Event)
           /\ Len(MoveEvents(to, e)) = Cardinality(Movers(to))
           /\ Cardinality(Movers(to)) \in Nat
           /\ DOMAIN MoveEvents(to, e) = DOMAIN e
           /\ \A k \in DOMAIN e :
                 MoveEvents(to, e)[k]
                   = IF e[k] \in Crashed(to)
                     THEN EliminatedEvent(next_event_no + k - 1, e[k] - 1)
                     ELSE PixelEvent(next_event_no + k - 1, e[k] - 1, to[e[k]])
  <1> DEFINE n == Cardinality(Movers(to))
             event(k) == IF e[k] \in Crashed(to)
                         THEN EliminatedEvent(next_event_no + k - 1, e[k] - 1)
                         ELSE PixelEvent(next_event_no + k - 1, e[k] - 1, to[e[k]])
  <1>1. /\ Len(players) \in Nat /\ DOMAIN players = 1 .. Len(players)
        /\ Live(players) \in SUBSET DOMAIN players
    BY PositionsFinite
  <1>2. /\ Movers(to) \in SUBSET Live(players)
        /\ \A i \in Live(players) \ Crashed(to) : to[i] \in Pixels
    BY MovedProperties
  <1>3. Movers(to) \in SUBSET (1 .. Len(players))
    BY <1>1, <1>2
  <1>4. n \in Nat /\ e \in Seq(Movers(to)) /\ Len(e) = n /\ DOMAIN e = 1 .. n
    BY <1>1, <1>3, EnumerationProperties
  <1>5. \A k \in DOMAIN e : e[k] \in Movers(to)
    BY <1>4, ElementOfSeq
  <1>6. ASSUME NEW k \in DOMAIN e
        PROVE  event(k) \in Event
    <2>1. next_event_no + k - 1 \in Nat /\ e[k] - 1 \in Nat
      BY <1>3, <1>4, <1>5
    <2>2. CASE e[k] \in Crashed(to)
      BY <2>1, <2>2 DEF Event, EliminatedEvent
    <2>3. CASE e[k] \notin Crashed(to)
      <3>1. to[e[k]] \in Pixels
        BY <1>2, <1>5, <2>3
      <3>2. QED BY <2>1, <2>3, <3>1 DEF Event, PixelEvent
    <2>4. QED BY <2>2, <2>3
  <1>7. MoveEvents(to, e) = [k \in DOMAIN e |-> event(k)]
    BY DEF MoveEvents
  <1> HIDE DEF event
  <1>8. MoveEvents(to, e) \in [1 .. n -> Event]
    BY <1>4, <1>6, <1>7
  <1>9. /\ MoveEvents(to, e) \in Seq(Event) /\ Len(MoveEvents(to, e)) = n
        /\ DOMAIN MoveEvents(to, e) = DOMAIN e
    BY <1>4, <1>8, FunctionIsSeq
  <1>10. QED BY <1>4, <1>7, <1>9 DEF event

\* The lobby after a game.
LEMMA RestartProperties ==
    ASSUME waiting \in Seq(Player), NEW list \in Seq(Player),
           NEW e \in Enumerations(Staying(list)),
           NEW w, w = Lobby(list, e)
    PROVE  /\ w \in Seq(Player)
           /\ DOMAIN w = 1 .. Len(waiting) + Len(e)
           /\ Len(waiting) \in Nat /\ Len(e) \in Nat /\ DOMAIN e = 1 .. Len(e)
           /\ \A i \in DOMAIN w : w[i].status = {"WAITING"} /\ w[i].turn_direction = 0
           /\ \A i \in 1 .. Len(waiting) : SameIdentity(waiting[i], w[i])
           /\ \A k \in 1 .. Len(e) : SameIdentity(list[e[k]], w[Len(waiting) + k])
  <1> DEFINE back == [k \in DOMAIN e |-> list[e[k]]]
             all == waiting \o back
  <1>1. /\ Len(list) \in Nat /\ DOMAIN list = 1 .. Len(list)
        /\ Staying(list) \in SUBSET (1 .. Len(list))
        /\ \A i \in DOMAIN list : list[i] \in Player
        /\ Len(waiting) \in Nat /\ DOMAIN waiting = 1 .. Len(waiting)
    BY PositionsFinite
  <1>2. e \in Seq(Staying(list)) /\ Len(e) \in Nat /\ DOMAIN e = 1 .. Len(e)
    <2> DEFINE S == Staying(list)
    <2>1. S \in SUBSET (1 .. Len(list)) /\ e \in Enumerations(S)
      BY <1>1
    <2> HIDE DEF S
    <2>2. e \in Seq(S) /\ Len(e) = Cardinality(S) /\ Cardinality(S) \in Nat
          /\ DOMAIN e = 1 .. Cardinality(S)
      BY <1>1, <2>1, EnumerationProperties
    <2>3. QED BY <2>2 DEF S
  <1>3. \A k \in DOMAIN e : e[k] \in DOMAIN list
    BY <1>1, <1>2, ElementOfSeq
  <1>4. back \in [1 .. Len(e) -> Player]
    BY <1>1, <1>2, <1>3
  <1>5. back \in Seq(Player) /\ Len(back) = Len(e)
    BY <1>2, <1>4, FunctionIsSeq
  <1>6. \A k \in 1 .. Len(e) : back[k] = list[e[k]]
    BY <1>2
  <1> HIDE DEF back
  <1>7. /\ all \in Seq(Player) /\ Len(all) = Len(waiting) + Len(e)
        /\ \A i \in 1 .. Len(waiting) + Len(e) :
              all[i] = IF i <= Len(waiting) THEN waiting[i] ELSE back[i - Len(waiting)]
    <2>1. /\ waiting \o back \in Seq(Player)
          /\ Len(waiting \o back) = Len(waiting) + Len(back)
          /\ \A i \in 1 .. Len(waiting) + Len(back) :
                (waiting \o back)[i]
                  = IF i <= Len(waiting) THEN waiting[i] ELSE back[i - Len(waiting)]
      BY <1>5, ConcatProperties
    <2>2. QED BY <1>5, <2>1
  <1>8. w = [i \in DOMAIN all |-> Reset(all[i])]
    BY DEF Lobby, back
  <1> HIDE DEF all
  <1>9. DOMAIN all = 1 .. Len(waiting) + Len(e) /\ \A i \in DOMAIN all : all[i] \in Player
    BY <1>7, PositionsFinite
  <1>10. w \in [1 .. Len(waiting) + Len(e) -> Player]
    BY <1>8, <1>9, ResetWrite
  <1>11. w \in Seq(Player) /\ DOMAIN w = 1 .. Len(waiting) + Len(e)
    <2>1. Len(waiting) + Len(e) \in Nat
      BY <1>1, <1>2
    <2>2. QED BY <1>10, <2>1, FunctionIsSeq
  <1>12. \A i \in DOMAIN w : /\ w[i].status = {"WAITING"} /\ w[i].turn_direction = 0
                              /\ SameIdentity(all[i], w[i])
    <2>1. DOMAIN w = DOMAIN all /\ \A i \in DOMAIN all : w[i] = Reset(all[i])
      BY <1>8
    <2>2. QED BY <1>9, <2>1, ResetWrite
  <1>13. \A i \in 1 .. Len(waiting) :
            i \in 1 .. Len(waiting) + Len(e) /\ all[i] = waiting[i]
    BY <1>1, <1>2, <1>7
  <1>14. \A k \in 1 .. Len(e) : /\ Len(waiting) + k \in 1 .. Len(waiting) + Len(e)
                                 /\ all[Len(waiting) + k] = list[e[k]]
    <2> SUFFICES ASSUME NEW k \in 1 .. Len(e)
                 PROVE  /\ Len(waiting) + k \in 1 .. Len(waiting) + Len(e)
                        /\ all[Len(waiting) + k] = list[e[k]]
      OBVIOUS
    <2>1. /\ Len(waiting) + k \in 1 .. Len(waiting) + Len(e)
          /\ ~(Len(waiting) + k <= Len(waiting))
          /\ Len(waiting) + k - Len(waiting) = k
      BY <1>1, <1>2
    <2>2. QED BY <1>6, <1>7, <2>1
  <1>15. QED BY <1>1, <1>2, <1>11, <1>12, <1>13, <1>14

\* game_tick_in_progress: players_alive loses those that crash, all at once.
LEMMA CountersTick ==
    ASSUME Counters, game_tick_in_progress
    PROVE  Counters'
  <1>0. PICK to \in Moves : \E e \in Enumerations(Movers(to)) :
           GoOn(to, MoveEvents(to, e)) \/ Finish(to, MoveEvents(to, e))
    BY DEF game_tick_in_progress
  <1>1. PICK e \in Enumerations(Movers(to)) :
           GoOn(to, MoveEvents(to, e)) \/ Finish(to, MoveEvents(to, e))
    BY <1>0
  <1> DEFINE moves == MoveEvents(to, e)
  <1>2. /\ waiting \in Seq(Player) /\ players \in Seq(Player)
        /\ next_event_no \in Nat /\ log \in Seq(Event)
        /\ players_alive \in Nat /\ board \in SUBSET Pixels
        /\ players_alive = Cardinality(Live(players)) /\ players # <<>>
        /\ in_progress /\ game_id' = game_id /\ observers' = observers
    BY DEF Counters, TypeOK, CountsAlive, game_tick_in_progress
  <1>3. /\ moves \in Seq(Event) /\ Len(moves) \in Nat
    BY <1>2, MoveEventsType
  <1>4. /\ Movers(to) \in SUBSET Live(players)
        /\ Crashed(to) \in SUBSET Movers(to)
        /\ \A i \in Live(players) \ Crashed(to) : to[i] \in Pixels
        /\ Moved(to) \in Seq(Player)
        /\ DOMAIN Moved(to) = DOMAIN players
        /\ Live(Moved(to)) = Live(players) \ Crashed(to)
    BY <1>2, MovedProperties
  <1>5. CASE GoOn(to, moves)
    <2>1. Cardinality(Live(Moved(to))) = players_alive - Cardinality(Crashed(to))
      <3>1. IsFiniteSet(Live(players))
        BY <1>2, PositionsFinite
      <3>2. Live(players) \cap Crashed(to) = Crashed(to)
        BY <1>4
      <3>3. QED BY <1>2, <1>4, <3>1, <3>2, FS_Difference
    <2>2. Cardinality(Live(Moved(to))) \in Nat
      BY <1>4, PositionsFinite
    <2>3. Moved(to) # <<>>
      <3>1. DOMAIN players # {}
        <4>1. Len(players) \in Nat \ {0}
          BY <1>2, EmptySeq
        <4>2. DOMAIN players = 1 .. Len(players)
          BY <1>2, LenProperties
        <4>3. QED BY <4>1, <4>2
      <3>2. QED BY <1>4, <3>1
    <2>4. /\ players' = Moved(to)
          /\ players_alive' = players_alive - Cardinality(Crashed(to))
          /\ in_progress' = in_progress /\ waiting' = waiting
          /\ players_ready' = players_ready
          /\ board' = board \cup { to[i] : i \in Movers(to) \ Crashed(to) }
          /\ next_event_no' = next_event_no + Len(moves)
          /\ handle_round(moves)
      BY <1>5 DEF GoOn, game_board_set
    <2> HIDE DEF moves
    <2>5. log' \in Seq(Event) /\ is_game_in_progress' \in BOOLEAN
      <3>1. log \o moves \in Seq(Event)
        BY <1>2, <1>3, ConcatProperties
      <3>2. QED BY <1>2, <1>3, <2>4, <3>1 DEF handle_round
    <2>6. board' \in SUBSET Pixels /\ next_event_no' \in Nat
      BY <1>2, <1>3, <1>4, <2>4
    <2>7. TypeOK'
      BY <1>2, <1>4, <2>1, <2>2, <2>4, <2>5, <2>6 DEF Counters, TypeOK
    <2>8. CountsAlive'
      BY <1>2, <2>1, <2>3, <2>4 DEF CountsAlive, Live
    <2>9. ReadyCovers' /\ LobbyIsFresh'
      BY <2>4 DEF Counters, ReadyCovers, LobbyIsFresh, Ready
    <2>10. QED BY <2>7, <2>8, <2>9 DEF Counters
  <1>6. CASE Finish(to, moves)
    <2>1. /\ game_restart(Moved(to))
          /\ handle_round(Append(moves, GameOverEvent(next_event_no + Len(moves))))
      BY <1>6 DEF Finish
    <2> DEFINE over == GameOverEvent(next_event_no + Len(moves))
    <2>2. /\ in_progress' = FALSE /\ players_ready' = 0 /\ players_alive' = 0
          /\ next_event_no' = 0 /\ board' = {} /\ players' = <<>>
      BY <2>1 DEF game_restart, game_board_create
    <2>3. PICK s \in Enumerations(Staying(Moved(to))) : waiting' = Lobby(Moved(to), s)
      BY <2>1 DEF game_restart
    <2>4. /\ waiting' \in Seq(Player)
          /\ \A i \in DOMAIN waiting' :
                waiting'[i].status = {"WAITING"} /\ waiting'[i].turn_direction = 0
      <3>1. PICK list \in Seq(Player) : list = Moved(to)
        BY <1>4
      <3>2. s \in Enumerations(Staying(list)) /\ waiting' = Lobby(list, s)
        BY <2>3, <3>1
      <3>3. QED BY <1>2, <3>2, RestartProperties
    <2>5. Ready(waiting') = {} /\ Live(players') = {}
      BY <2>2, <2>4 DEF Ready, Live
    <2>6. log' \in Seq(Event) /\ is_game_in_progress' \in BOOLEAN
      <3>1. over \in Event
        <4>1. next_event_no + Len(moves) \in Nat
          BY <1>2, <1>3
        <4>2. QED BY <4>1 DEF Event, GameOverEvent
      <3> HIDE DEF moves, over
      <3>2. Append(moves, over) \in Seq(Event)
        BY <1>3, <3>1, AppendProperties
      <3>3. log \o Append(moves, over) \in Seq(Event)
        BY <1>2, <3>2, ConcatProperties
      <3>4. handle_round(Append(moves, over))
        BY <2>1 DEF over
      <3>5. QED BY <2>2, <3>2, <3>3, <3>4 DEF handle_round
    <2>7. TypeOK'
      <3>1. 0 \in 0 .. ReadyBound /\ <<>> \in Seq(Player)
        BY GameAssumption, EmptySeq
      <3>2. QED BY <1>2, <2>2, <2>4, <2>6, <3>1 DEF Counters, TypeOK
    <2>8. CountsAlive'
      BY <2>2, <2>5, FS_EmptySet DEF CountsAlive, Live
    <2>9. ReadyCovers'
      <3>1. Cardinality(Ready(waiting')) = 0
        BY <2>5, FS_EmptySet
      <3>2. Cardinality(Ready(waiting')) <= players_ready'
        BY <2>2, <3>1
      <3>3. QED BY <2>2, <2>5, <3>2 DEF ReadyCovers, Ready
    <2>10. LobbyIsFresh'
      BY <2>4 DEF LobbyIsFresh
    <2>11. QED BY <2>7, <2>8, <2>9, <2>10 DEF Counters
  <1>7. QED BY <1>1, <1>5, <1>6

\* Every step of the game preserves the invariant.
LEMMA CountersNext == Counters /\ [Next]_vars => Counters'
  <1> SUFFICES ASSUME Counters, [Next]_vars PROVE Counters'
    OBVIOUS
  <1>1. CASE \E entrant \in Entrants : game_add_player(entrant[1], entrant[2])
    BY <1>1, CountersAdd
  <1>2. CASE \E sid \in Session : game_remove_player(sid)
    BY <1>2, CountersRemove
  <1>3. CASE \E sid \in Session, turn \in Turn : game_set_turn_direction(sid, turn)
    BY <1>3, CountersTurn
  <1>4. CASE Round
    BY <1>4, CountersStart, CountersTick DEF Round
  <1>5. CASE UNCHANGED vars
    BY <1>5 DEF Counters, TypeOK, CountsAlive, ReadyCovers, LobbyIsFresh, Ready,
                Live, vars, lists, events
  <1>6. QED BY <1>1, <1>2, <1>3, <1>4, <1>5 DEF Next

\* Types and counters together: the invariant that is inductive.
THEOREM CountersInvariant == Spec => []Counters
  BY CountersInit, CountersNext, PTL DEF Spec

\* Every variable of the game keeps its type, in every game of every size.
THEOREM TypeCorrect == Spec => []TypeOK
  <1>1. Counters => TypeOK
    BY DEF Counters
  <1>2. QED BY <1>1, CountersInvariant, PTL

\* players_alive is the number of worms alive, so that the test for the end of
\* the game in game_tick_in_progress is about the worms on the board.
THEOREM CountsAliveCorrect == Spec => []CountsAlive
  <1>1. Counters => CountsAlive
    BY DEF Counters
  <1>2. QED BY <1>1, CountersInvariant, PTL

\* players_ready never wraps around below 0.
THEOREM ReadyCoversCorrect == Spec => []ReadyCovers
  <1>1. Counters => ReadyCovers
    BY DEF Counters
  <1>2. QED BY <1>1, CountersInvariant, PTL

-----------------------------------------------------------------------------
(* The second invariant: who is on the lists of players.                    *)

\* No session is twice in the list.
Unique(list) ==
    \A i, j \in DOMAIN list : list[i].session_id = list[j].session_id => i = j

\* No session is in both lists.
Disjoint(one, other) ==
    \A i \in DOMAIN one, j \in DOMAIN other : one[i].session_id # other[j].session_id

Sessions == Unique(players) /\ Unique(waiting) /\ Disjoint(players, waiting)

\* The invariant, in the form in which the runs check it.
LEMMA SessionsAreOneEntry ==
    ASSUME players \in Seq(Player), waiting \in Seq(Player), Sessions
    PROVE  OneEntryPerSession
  <1> DEFINE all == players \o waiting
  <1>1. /\ Len(players) \in Nat /\ DOMAIN players = 1 .. Len(players)
        /\ Len(waiting) \in Nat /\ DOMAIN waiting = 1 .. Len(waiting)
    BY PositionsFinite
  <1>2. /\ all \in Seq(Player) /\ Len(all) = Len(players) + Len(waiting)
        /\ \A i \in 1 .. Len(players) + Len(waiting) :
              all[i] = IF i <= Len(players) THEN players[i]
                                            ELSE waiting[i - Len(players)]
    BY ConcatProperties
  <1>3. DOMAIN all = 1 .. Len(players) + Len(waiting)
    BY <1>2, LenProperties
  <1> HIDE DEF all
  <1>4. ASSUME NEW i \in DOMAIN all, NEW j \in DOMAIN all,
               all[i].session_id = all[j].session_id
        PROVE  i = j
    <2>1. CASE i <= Len(players) /\ j <= Len(players)
      <3>1. i \in DOMAIN players /\ j \in DOMAIN players
        BY <1>1, <1>3, <2>1
      <3>2. all[i] = players[i] /\ all[j] = players[j]
        BY <1>2, <1>3, <2>1
      <3>3. QED BY <1>4, <3>1, <3>2 DEF Sessions, Unique
    <2>2. CASE ~(i <= Len(players)) /\ ~(j <= Len(players))
      <3>1. i - Len(players) \in DOMAIN waiting /\ j - Len(players) \in DOMAIN waiting
        BY <1>1, <1>3, <2>2
      <3>2. all[i] = waiting[i - Len(players)] /\ all[j] = waiting[j - Len(players)]
        BY <1>2, <1>3, <2>2
      <3>3. i - Len(players) = j - Len(players)
        BY <1>4, <3>1, <3>2 DEF Sessions, Unique
      <3>4. QED BY <1>1, <1>3, <3>3
    <2>3. CASE i <= Len(players) /\ ~(j <= Len(players))
      <3>1. i \in DOMAIN players /\ j - Len(players) \in DOMAIN waiting
        BY <1>1, <1>3, <2>3
      <3>2. all[i] = players[i] /\ all[j] = waiting[j - Len(players)]
        BY <1>2, <1>3, <2>3
      <3>3. QED BY <1>4, <3>1, <3>2 DEF Sessions, Disjoint
    <2>4. CASE ~(i <= Len(players)) /\ j <= Len(players)
      <3>1. j \in DOMAIN players /\ i - Len(players) \in DOMAIN waiting
        BY <1>1, <1>3, <2>4
      <3>2. all[j] = players[j] /\ all[i] = waiting[i - Len(players)]
        BY <1>2, <1>3, <2>4
      <3>3. QED BY <1>4, <3>1, <3>2 DEF Sessions, Disjoint
    <2>5. QED BY <2>1, <2>2, <2>3, <2>4
  <1>5. QED BY <1>4 DEF OneEntryPerSession, all

\* What game_remove_player leaves of a list: the others, in their order.
LEMMA RemovedSessions ==
    ASSUME NEW list \in Seq(Player), NEW i \in DOMAIN list,
           NEW rest, rest = RemoveAt(list, i)
    PROVE  /\ rest \in Seq(Player)
           /\ \A j \in DOMAIN rest : \E k \in DOMAIN list : k # i /\ rest[j] = list[k]
           /\ \A k \in DOMAIN list : k # i => \E j \in DOMAIN rest : rest[j] = list[k]
           /\ Unique(list) => Unique(rest)
  <1>1. Len(list) \in Nat /\ DOMAIN list = 1 .. Len(list) /\ i \in 1 .. Len(list)
    BY PositionsFinite
  <1>2. /\ rest \in Seq(Player) /\ Len(rest) = Len(list) - 1
        /\ \A j \in 1 .. Len(list) - 1 :
              rest[j] = IF j < i THEN list[j] ELSE list[j + 1]
    BY RemoveAtProperties
  <1>3. DOMAIN rest = 1 .. Len(list) - 1
    BY <1>2, PositionsFinite
  <1> DEFINE from(j) == IF j < i THEN j ELSE j + 1
  <1>4. \A j \in DOMAIN rest :
           from(j) \in DOMAIN list /\ from(j) # i /\ rest[j] = list[from(j)]
    BY <1>1, <1>2, <1>3
  <1>5. \A j, k \in DOMAIN rest : from(j) = from(k) => j = k
    BY <1>1, <1>3
  <1>6. ASSUME NEW k \in DOMAIN list, k # i
        PROVE  \E j \in DOMAIN rest : rest[j] = list[k]
    <2>1. CASE k < i
      <3>1. k \in DOMAIN rest /\ rest[k] = list[k]
        BY <1>1, <1>2, <1>3, <2>1
      <3>2. QED BY <3>1
    <2>2. CASE ~(k < i)
      <3>1. k - 1 \in DOMAIN rest /\ ~(k - 1 < i) /\ k - 1 + 1 = k
        BY <1>1, <1>3, <1>6, <2>2
      <3>2. rest[k - 1] = list[k]
        BY <1>2, <1>3, <3>1
      <3>3. QED BY <3>1, <3>2
    <2>3. QED BY <2>1, <2>2
  <1>7. ASSUME Unique(list), NEW j \in DOMAIN rest, NEW k \in DOMAIN rest,
               rest[j].session_id = rest[k].session_id
        PROVE  j = k
    <2>1. from(j) = from(k)
      BY <1>4, <1>7 DEF Unique
    <2>2. QED BY <1>5, <2>1
  <1>8. \A j \in DOMAIN rest : \E k \in DOMAIN list : k # i /\ rest[j] = list[k]
    BY <1>4
  <1> HIDE DEF from
  <1>9. Unique(list) => Unique(rest)
    BY <1>7 DEF Unique
  <1>10. QED BY <1>2, <1>6, <1>8, <1>9

\* Nobody is there at first.
LEMMA SessionsInit == Init => Sessions
  BY DEF Init, game_create, Sessions, Unique, Disjoint

\* game_add_player adds a session that is on neither list.
LEMMA SessionsAdd ==
    ASSUME Counters, Sessions, NEW entrant \in Entrants,
           game_add_player(entrant[1], entrant[2])
    PROVE  Sessions'
  <1> DEFINE sid == entrant[1]
             name == entrant[2]
             new == player_create(sid, name)
  <1>1. CASE waiting' = waiting
    BY <1>1 DEF game_add_player, add_observer, add_player, Sessions, Unique, Disjoint
  <1>2. CASE waiting' # waiting
    <2>1. ~IsKnown(sid) /\ waiting' = Append(waiting, new) /\ players' = players
      BY <1>2 DEF game_add_player, add_observer, add_player, list_add
    <2>2. waiting \in Seq(Player) /\ DOMAIN waiting = 1 .. Len(waiting) /\ Len(waiting) \in Nat
      BY LenProperties DEF Counters, TypeOK
    <2>3. new.session_id = sid
      BY DEF player_create
    <2>4. new \in Player
      <3>1. name # NoName
        BY <1>2 DEF game_add_player, add_observer
      <3>2. sid \in Session /\ name \in Name
        BY <3>1, GameAssumption
      <3>3. QED
        BY <3>2, BoardAssumption, GameAssumption
           DEF player_create, Player, Origin, Pixels, Flags
    <2> HIDE DEF new
    <2>5. /\ DOMAIN waiting' = 1 .. Len(waiting) + 1
          /\ \A i \in 1 .. Len(waiting) : waiting'[i] = waiting[i]
          /\ waiting'[Len(waiting) + 1] = new
      BY <2>1, <2>2, <2>4, AppendProperties, LenProperties
    <2>6. \A i \in DOMAIN waiting' :
             \/ i \in DOMAIN waiting /\ waiting'[i] = waiting[i]
             \/ i = Len(waiting) + 1 /\ waiting'[i].session_id = sid
      BY <2>2, <2>3, <2>5
    <2>7. /\ \A i \in DOMAIN waiting : waiting[i].session_id # sid
          /\ \A i \in DOMAIN players : players[i].session_id # sid
      BY <2>1 DEF IsKnown, Has
    <2>8. QED BY <2>1, <2>6, <2>7 DEF Sessions, Unique, Disjoint
  <1>3. QED BY <1>1, <1>2

\* game_remove_player takes an entry off the lobby, or marks one of the game.
LEMMA SessionsRemove ==
    ASSUME Counters, Sessions, NEW sid \in Session, game_remove_player(sid)
    PROVE  Sessions'
  <1>1. CASE RemoveObserver(sid) \/ (IsAbsent(sid) /\ UNCHANGED lists)
    BY <1>1 DEF RemoveObserver, Sessions, Unique, Disjoint, lists
  <1>2. CASE RemoveWaiting(sid)
    <2>1. PICK i \in DOMAIN waiting : waiting' = RemoveAt(waiting, i)
      BY <1>2 DEF RemoveWaiting, list_remove
    <2>2. waiting \in Seq(Player) /\ players' = players
      BY <1>2 DEF Counters, TypeOK, RemoveWaiting
    <2>3. /\ \A j \in DOMAIN waiting' : \E k \in DOMAIN waiting : waiting'[j] = waiting[k]
          /\ Unique(waiting) => Unique(waiting')
      BY <2>1, <2>2, RemovedSessions
    <2>4. QED BY <2>2, <2>3 DEF Sessions, Disjoint, Unique
  <1>3. CASE Disconnect(sid)
    <2>1. waiting' = waiting /\ DOMAIN players' = DOMAIN players
          /\ \A i \in DOMAIN players : players'[i].session_id = players[i].session_id
      <3>1. PICK i \in DOMAIN players :
               players' = [players EXCEPT ![i] = [players[i] EXCEPT !.status = @ \cup {"DISCONNECTED"}]]
        BY <1>3 DEF Disconnect
      <3> DEFINE gone == [players[i] EXCEPT !.status = @ \cup {"DISCONNECTED"}]
      <3>2. players \in Seq(Player) /\ players[i] \in Player
        BY PositionsFinite DEF Counters, TypeOK
      <3>3. gone.session_id = players[i].session_id
        BY <3>2, DisconnectWrite DEF SameIdentity
      <3>4. players' = [players EXCEPT ![i] = gone]
        BY <3>1
      <3> HIDE DEF gone
      <3>5. QED BY <1>3, <3>3, <3>4 DEF Disconnect
    <2>2. QED BY <2>1 DEF Sessions, Disjoint, Unique
  <1>4. QED BY <1>1, <1>2, <1>3 DEF game_remove_player

\* game_set_turn_direction writes no session.
LEMMA SessionsTurn ==
    ASSUME Counters, Sessions, NEW sid \in Session, NEW turn \in Turn,
           game_set_turn_direction(sid, turn)
    PROVE  Sessions'
  <1>1. players \in Seq(Player) /\ waiting \in Seq(Player)
    BY DEF Counters, TypeOK
  <1>2. ASSUME NEW list \in Seq(Player), NEW i \in DOMAIN list,
               NEW new, new = [list EXCEPT ![i].turn_direction = turn]
        PROVE  /\ DOMAIN new = DOMAIN list
               /\ \A j \in DOMAIN list : new[j].session_id = list[j].session_id
    <2> DEFINE turned == [list[i] EXCEPT !.turn_direction = turn]
    <2>1. turned.session_id = list[i].session_id
      BY PositionsFinite, TurnWrite DEF SameIdentity
    <2>2. new = [list EXCEPT ![i] = turned]
      BY <1>2
    <2> HIDE DEF turned
    <2>3. QED BY <2>1, <2>2
  <1>3. CASE Steer(sid, turn)
    <2>1. waiting' = waiting /\ DOMAIN players' = DOMAIN players
          /\ \A j \in DOMAIN players : players'[j].session_id = players[j].session_id
      BY <1>1, <1>2, <1>3 DEF Steer
    <2>2. QED BY <2>1 DEF Sessions, Disjoint, Unique
  <1>4. CASE GetReady(sid, turn)
    <2>1. players' = players /\ DOMAIN waiting' = DOMAIN waiting
          /\ \A j \in DOMAIN waiting : waiting'[j].session_id = waiting[j].session_id
      BY <1>1, <1>2, <1>4 DEF GetReady
    <2>2. QED BY <2>1 DEF Sessions, Disjoint, Unique
  <1>5. CASE UNCHANGED <<players, waiting, players_ready>>
    BY <1>5 DEF Sessions, Disjoint, Unique
  <1>6. QED BY <1>3, <1>4, <1>5 DEF game_set_turn_direction

\* The players of a new game are those that waited, in the order of their names.
LEMMA StartRoster ==
    ASSUME Counters, game_tick_waiting
    PROVE  /\ players = <<>> /\ waiting' = <<>>
           /\ DOMAIN players' = DOMAIN waiting
           /\ \E o \in [DOMAIN waiting -> DOMAIN waiting] :
                 /\ \A j, k \in DOMAIN waiting : o[j] = o[k] => j = k
                 /\ \A i \in DOMAIN waiting : \E k \in DOMAIN waiting : o[k] = i
                 /\ \A k \in DOMAIN waiting : SameIdentity(waiting[o[k]], players'[k])
           /\ \A k \in DOMAIN players' : "DISCONNECTED" \notin players'[k].status
  <1>1. players = <<>> /\ waiting' = <<>> /\ waiting \in Seq(Player)
    BY DEF Counters, TypeOK, CountsAlive, game_tick_waiting
  <1>2. PICK list \in sort_players(waiting) :
           \E spawn \in [DOMAIN list -> Pixels] : players' = Entering(list, spawn)
    BY DEF game_tick_waiting
  <1>3. PICK spawn \in [DOMAIN list -> Pixels] : players' = Entering(list, spawn)
    BY <1>2
  <1>4. /\ list \in Seq(Player) /\ DOMAIN list = DOMAIN waiting
        /\ \E o \in [DOMAIN waiting -> DOMAIN waiting] :
              /\ \A k \in DOMAIN waiting : list[k] = waiting[o[k]]
              /\ \A j, k \in DOMAIN waiting : o[j] = o[k] => j = k
              /\ \A i \in DOMAIN waiting : \E k \in DOMAIN waiting : o[k] = i
    BY <1>1, SortProperties, Zenon
  <1>5. PICK o \in [DOMAIN waiting -> DOMAIN waiting] :
           /\ \A k \in DOMAIN waiting : list[k] = waiting[o[k]]
           /\ \A j, k \in DOMAIN waiting : o[j] = o[k] => j = k
           /\ \A i \in DOMAIN waiting : \E k \in DOMAIN waiting : o[k] = i
    BY <1>4
  <1> DEFINE new == Entering(list, spawn)
  <1>6. /\ new \in Seq(Player) /\ DOMAIN new = DOMAIN list
        /\ \A i \in DOMAIN list :
              /\ SameIdentity(list[i], new[i])
              /\ new[i].pos = spawn[i]
              /\ new[i].status = list[i].status \cup {"IN_GAME"}
                                   \cup (IF IsTaken(spawn, i) THEN {"DEAD"} ELSE {})
    <2>1. list \in Seq(Player)
      BY <1>4
    <2>2. QED BY <2>1, EnteringProperties, Zenon
  <1>7. players' = new
    BY <1>3
  <1> HIDE DEF new
  <1>8. \A k \in DOMAIN waiting : SameIdentity(waiting[o[k]], players'[k])
    BY <1>4, <1>5, <1>6, <1>7
  <1>9. \A k \in DOMAIN players' : "DISCONNECTED" \notin players'[k].status
    <2> SUFFICES ASSUME NEW k \in DOMAIN list
                 PROVE  "DISCONNECTED" \notin new[k].status
      BY <1>6, <1>7
    <2>1. list[k].status = {"WAITING"}
      <3>1. o[k] \in DOMAIN waiting /\ list[k] = waiting[o[k]]
        BY <1>4, <1>5
      <3>2. QED BY <3>1 DEF Counters, LobbyIsFresh
    <2>2. CASE IsTaken(spawn, k)
      BY <1>6, <2>1, <2>2
    <2>3. CASE ~IsTaken(spawn, k)
      BY <1>6, <2>1, <2>3
    <2>4. QED BY <2>2, <2>3
  <1>10. QED BY <1>1, <1>4, <1>5, <1>6, <1>7, <1>8, <1>9

\* A round of the game moves the worms, and either goes on with the same lists
\* or ends the game.
LEMMA TickRoster ==
    ASSUME Counters, game_tick_in_progress
    PROVE  \E to \in Moves :
              \/ /\ in_progress' = in_progress
                 /\ players' = Moved(to) /\ waiting' = waiting
              \/ /\ ~in_progress' /\ players' = <<>>
                 /\ \E e \in Enumerations(Staying(Moved(to))) :
                        waiting' = Lobby(Moved(to), e)
  <1>1. PICK to \in Moves : \E e \in Enumerations(Movers(to)) :
           GoOn(to, MoveEvents(to, e)) \/ Finish(to, MoveEvents(to, e))
    BY DEF game_tick_in_progress
  <1>2. PICK e \in Enumerations(Movers(to)) :
           GoOn(to, MoveEvents(to, e)) \/ Finish(to, MoveEvents(to, e))
    BY <1>1
  <1>3. QED BY <1>2 DEF GoOn, Finish, game_restart

\* A new game takes over the lobby.
LEMMA SessionsStart ==
    ASSUME Counters, Sessions, game_tick_waiting
    PROVE  Sessions'
  <1>1. waiting' = <<>> /\ DOMAIN players' = DOMAIN waiting
    BY StartRoster
  <1>2. PICK o \in [DOMAIN waiting -> DOMAIN waiting] :
           /\ \A j, k \in DOMAIN waiting : o[j] = o[k] => j = k
           /\ \A k \in DOMAIN waiting : SameIdentity(waiting[o[k]], players'[k])
    BY StartRoster
  <1>3. \A k \in DOMAIN waiting : players'[k].session_id = waiting[o[k]].session_id
    BY <1>2 DEF SameIdentity
  <1>4. Unique(players')
    BY <1>1, <1>2, <1>3 DEF Sessions, Unique
  <1>5. Unique(waiting') /\ Disjoint(players', waiting')
    BY <1>1 DEF Unique, Disjoint
  <1>6. QED BY <1>4, <1>5 DEF Sessions, Unique, Disjoint

\* The players of a game that ends go behind those that came during the game.
LEMMA SessionsTick ==
    ASSUME Counters, Sessions, game_tick_in_progress
    PROVE  Sessions'
  <1>1. players \in Seq(Player) /\ waiting \in Seq(Player)
    BY DEF Counters, TypeOK
  <1>2. PICK to \in Moves :
              \/ /\ in_progress' = in_progress
                 /\ players' = Moved(to) /\ waiting' = waiting
              \/ /\ ~in_progress' /\ players' = <<>>
                 /\ \E e \in Enumerations(Staying(Moved(to))) :
                        waiting' = Lobby(Moved(to), e)
    BY TickRoster
  <1>3. PICK list \in Seq(Player) :
           /\ list = Moved(to) /\ DOMAIN list = DOMAIN players
           /\ \A i \in DOMAIN players : list[i].session_id = players[i].session_id
    BY <1>1, MovedProperties DEF SameIdentity
  <1>4. Unique(list) /\ Disjoint(list, waiting)
    BY <1>3 DEF Sessions, Unique, Disjoint
  <1>5. CASE players' = Moved(to) /\ waiting' = waiting
    BY <1>3, <1>4, <1>5 DEF Sessions, Unique, Disjoint
  <1>6. CASE players' = <<>> /\ \E e \in Enumerations(Staying(Moved(to))) :
                                   waiting' = Lobby(Moved(to), e)
    <2>1. PICK e \in Enumerations(Staying(list)) : waiting' = Lobby(list, e)
      BY <1>3, <1>6
    <2>2. /\ DOMAIN waiting' = 1 .. Len(waiting) + Len(e)
          /\ Len(waiting) \in Nat /\ Len(e) \in Nat /\ DOMAIN e = 1 .. Len(e)
          /\ \A i \in 1 .. Len(waiting) : SameIdentity(waiting[i], waiting'[i])
          /\ \A k \in 1 .. Len(e) : SameIdentity(list[e[k]], waiting'[Len(waiting) + k])
      BY <1>1, <2>1, RestartProperties
    <2>3. /\ \A k \in 1 .. Len(e) : e[k] \in DOMAIN list
          /\ \A j, k \in 1 .. Len(e) : e[j] = e[k] => j = k
      <3>1. Len(list) \in Nat /\ Staying(list) \in SUBSET (1 .. Len(list))
            /\ DOMAIN list = 1 .. Len(list)
        BY PositionsFinite
      <3>2. PICK S \in SUBSET (1 .. Len(list)) : S = Staying(list)
        BY <3>1
      <3>3. e \in Enumerations(S)
        BY <3>2
      <3>4. e \in Seq(S) /\ \A j, k \in DOMAIN e : e[j] = e[k] => j = k
        BY <3>1, <3>3, EnumerationProperties
      <3>5. \A k \in DOMAIN e : e[k] \in S
        BY <2>2, <3>4, ElementOfSeq
      <3>6. QED BY <2>2, <3>1, <3>4, <3>5
    <2> DEFINE n == Len(waiting)
    <2>4. DOMAIN waiting = 1 .. n
      BY <1>1, LenProperties
    <2>5. \A i \in DOMAIN waiting' :
             \/ i \in 1 .. n /\ waiting'[i].session_id = waiting[i].session_id
             \/ /\ i - n \in 1 .. Len(e) /\ i > n
                /\ waiting'[i].session_id = list[e[i - n]].session_id
      <3> SUFFICES ASSUME NEW i \in DOMAIN waiting'
                   PROVE  \/ i \in 1 .. n /\ waiting'[i].session_id = waiting[i].session_id
                          \/ /\ i - n \in 1 .. Len(e) /\ i > n
                             /\ waiting'[i].session_id = list[e[i - n]].session_id
        OBVIOUS
      <3>1. CASE i \in 1 .. n
        BY <2>2, <3>1 DEF SameIdentity
      <3>2. CASE i \notin 1 .. n
        <4>1. i - n \in 1 .. Len(e) /\ i > n /\ n + (i - n) = i
          BY <2>2, <3>2
        <4>2. QED BY <2>2, <4>1 DEF SameIdentity
      <3>3. QED BY <3>1, <3>2
    <2>6. ASSUME NEW i \in DOMAIN waiting', NEW j \in DOMAIN waiting',
                 waiting'[i].session_id = waiting'[j].session_id
          PROVE  i = j
      <3>1. CASE i \in 1 .. n /\ j \in 1 .. n
        BY <2>2, <2>4, <2>5, <2>6, <3>1 DEF Sessions, Unique
      <3>2. CASE i \in 1 .. n /\ j \notin 1 .. n
        <4>1. /\ i \in DOMAIN waiting /\ j - n \in 1 .. Len(e)
              /\ waiting[i].session_id = list[e[j - n]].session_id
          BY <2>4, <2>5, <2>6, <3>2
        <4>2. e[j - n] \in DOMAIN list
          BY <2>3, <4>1
        <4>3. QED BY <1>4, <4>1, <4>2 DEF Disjoint
      <3>3. CASE i \notin 1 .. n /\ j \in 1 .. n
        <4>1. /\ j \in DOMAIN waiting /\ i - n \in 1 .. Len(e)
              /\ waiting[j].session_id = list[e[i - n]].session_id
          BY <2>4, <2>5, <2>6, <3>3
        <4>2. e[i - n] \in DOMAIN list
          BY <2>3, <4>1
        <4>3. QED BY <1>4, <4>1, <4>2 DEF Disjoint
      <3>4. CASE i \notin 1 .. n /\ j \notin 1 .. n
        <4>1. i - n \in 1 .. Len(e) /\ j - n \in 1 .. Len(e)
              /\ list[e[i - n]].session_id = list[e[j - n]].session_id
          BY <2>5, <2>6, <3>4
        <4>2. e[i - n] = e[j - n]
          BY <1>4, <2>3, <4>1 DEF Unique
        <4>3. i - n = j - n
          BY <2>3, <4>1, <4>2
        <4>4. QED BY <2>2, <4>3
      <3>5. QED BY <3>1, <3>2, <3>3, <3>4
    <2>7. Unique(waiting')
      BY <2>6 DEF Unique
    <2>8. QED BY <1>6, <2>7 DEF Sessions, Unique, Disjoint
  <1>7. QED BY <1>2, <1>5, <1>6

\* Every step of the game keeps the sessions apart.
LEMMA SessionsNext == Counters /\ Sessions /\ [Next]_vars => Sessions'
  <1> SUFFICES ASSUME Counters, Sessions, [Next]_vars PROVE Sessions'
    OBVIOUS
  <1>1. CASE \E entrant \in Entrants : game_add_player(entrant[1], entrant[2])
    BY <1>1, SessionsAdd
  <1>2. CASE \E sid \in Session : game_remove_player(sid)
    BY <1>2, SessionsRemove
  <1>3. CASE \E sid \in Session, turn \in Turn : game_set_turn_direction(sid, turn)
    BY <1>3, SessionsTurn
  <1>4. CASE Round
    BY <1>4, SessionsStart, SessionsTick DEF Round
  <1>5. CASE UNCHANGED vars
    BY <1>5 DEF Sessions, Unique, Disjoint, vars, lists
  <1>6. QED BY <1>1, <1>2, <1>3, <1>4, <1>5 DEF Next

\* No session ever has two entries, in the lists of the game and of the lobby:
\* what find_player and game_remove_player find is the only one.
THEOREM OneEntryCorrect == Spec => []OneEntryPerSession
  <1>1. Init => Sessions
    BY SessionsInit
  <1>2. Counters /\ Counters' /\ Sessions /\ [Next]_vars => Sessions'
    BY SessionsNext
  <1>3. Counters /\ Sessions => OneEntryPerSession
    BY SessionsAreOneEntry DEF Counters, TypeOK
  <1>4. QED BY <1>1, <1>2, <1>3, CountersInvariant, PTL DEF Spec

-----------------------------------------------------------------------------
(* What a step may not do to the lists of players.                          *)

\* The members of a list keep their place and their names, and lose no flag.
KeepsRoster(a, b) ==
    /\ DOMAIN b = DOMAIN a
    /\ \A i \in DOMAIN a :
          /\ b[i].session_id = a[i].session_id
          /\ b[i].player_name = a[i].player_name
          /\ a[i].status \subseteq b[i].status

\* No operation on behalf of a client touches more of the game's list than the
\* flag or the direction of one player.
LEMMA ClientsKeepRoster ==
    ASSUME Counters,
           \/ \E entrant \in Entrants : game_add_player(entrant[1], entrant[2])
           \/ \E sid \in Session : game_remove_player(sid)
           \/ \E sid \in Session, turn \in Turn : game_set_turn_direction(sid, turn)
    PROVE  KeepsRoster(players, players')
  <1>1. players \in Seq(Player) /\ \A i \in DOMAIN players : players[i] \in Player
    BY PositionsFinite DEF Counters, TypeOK
  <1>2. CASE players' = players
    BY <1>2 DEF KeepsRoster
  <1>3. CASE \E sid \in Session : Disconnect(sid)
    <2>1. PICK i \in DOMAIN players :
             players' = [players EXCEPT ![i] = [players[i] EXCEPT !.status = @ \cup {"DISCONNECTED"}]]
      BY <1>3 DEF Disconnect
    <2> DEFINE new == [players[i] EXCEPT !.status = @ \cup {"DISCONNECTED"}]
    <2>2. SameIdentity(players[i], new) /\ players[i].status \subseteq new.status
      BY <1>1, DisconnectWrite
    <2>3. players' = [players EXCEPT ![i] = new]
      BY <2>1
    <2> HIDE DEF new
    <2>4. QED BY <2>2, <2>3 DEF KeepsRoster, SameIdentity
  <1>4. CASE \E sid \in Session, turn \in Turn : Steer(sid, turn)
    <2>1. PICK turn \in Turn, i \in DOMAIN players :
             players' = [players EXCEPT ![i] = [players[i] EXCEPT !.turn_direction = turn]]
      BY <1>4 DEF Steer
    <2> DEFINE new == [players[i] EXCEPT !.turn_direction = turn]
    <2>2. SameIdentity(players[i], new) /\ players[i].status = new.status
      BY <1>1, TurnWrite
    <2>3. players' = [players EXCEPT ![i] = new]
      BY <2>1
    <2> HIDE DEF new
    <2>4. QED BY <2>2, <2>3 DEF KeepsRoster, SameIdentity
  <1>5. QED
    BY <1>2, <1>3, <1>4
       DEF game_add_player, add_observer, add_player, game_remove_player,
           RemoveObserver, RemoveWaiting, game_set_turn_direction, GetReady, lists

\* A round that goes on moves the worms of the same players.
LEMMA TickKeepsRoster ==
    ASSUME Counters, game_tick_in_progress, in_progress'
    PROVE  KeepsRoster(players, players')
  <1>1. players \in Seq(Player)
    BY DEF Counters, TypeOK
  <1>2. PICK to \in Moves : players' = Moved(to)
    BY TickRoster
  <1>3. /\ DOMAIN Moved(to) = DOMAIN players
        /\ \A i \in DOMAIN players : SameIdentity(players[i], Moved(to)[i])
        /\ \A i \in DOMAIN players : players[i].status \subseteq Moved(to)[i].status
    BY <1>1, MovedProperties
  <1>4. QED BY <1>2, <1>3 DEF KeepsRoster, SameIdentity

\* During a game the list of players keeps its order and its members, whoever
\* leaves, steers or dies: a player_number that was sent means the same worm to
\* the end of the game.
THEOREM RosterIsFixedCorrect == Spec => RosterIsFixed
  <1>1. ASSUME Counters, [Next]_vars, in_progress, in_progress'
        PROVE  KeepsRoster(players, players')
    <2>1. CASE UNCHANGED vars
      BY <2>1 DEF vars, lists, KeepsRoster
    <2>2. CASE Round
      BY <1>1, <2>2, TickKeepsRoster DEF Round, game_tick_waiting
    <2>3. QED BY <1>1, <2>1, <2>2, ClientsKeepRoster DEF Next
  <1>2. Counters /\ [Next]_vars
          => [in_progress /\ in_progress' =>
                /\ DOMAIN players' = DOMAIN players
                /\ \A i \in DOMAIN players :
                      /\ players'[i].session_id = players[i].session_id
                      /\ players'[i].player_name = players[i].player_name
                      /\ players[i].status \subseteq players'[i].status]_vars
    BY <1>1 DEF KeepsRoster
  <1>3. QED BY <1>2, CountersInvariant, PTL DEF Spec, RosterIsFixed

\* Who stays when an entry that is not of its session goes, stays present.
LEMMA OthersStay ==
    ASSUME Counters, NEW sid \in Session, NEW other \in Session, other # sid,
           game_remove_player(other), IsPresent(sid)
    PROVE  IsPresent(sid)'
  <1>1. players \in Seq(Player) /\ waiting \in Seq(Player)
    BY DEF Counters, TypeOK
  <1>2. CASE RemoveObserver(other) \/ (IsAbsent(other) /\ UNCHANGED lists)
    BY <1>2 DEF RemoveObserver, IsPresent, Has, lists
  <1>3. CASE RemoveWaiting(other)
    <2>1. PICK i \in DOMAIN waiting :
             waiting[i].session_id = other /\ waiting' = RemoveAt(waiting, i)
      BY <1>3 DEF RemoveWaiting, list_remove, IsFound
    <2>2. \A k \in DOMAIN waiting : k # i =>
             \E j \in DOMAIN waiting' : waiting'[j] = waiting[k]
      BY <1>1, <2>1, RemovedSessions
    <2>3. players' = players
      BY <1>3 DEF RemoveWaiting
    <2>4. QED BY <2>1, <2>2, <2>3 DEF IsPresent, Has
  <1>4. CASE Disconnect(other)
    <2>1. PICK i \in DOMAIN players :
             /\ players[i].session_id = other /\ waiting' = waiting
             /\ players' = [players EXCEPT ![i].status = @ \cup {"DISCONNECTED"}]
      BY <1>4 DEF Disconnect, IsFound
    <2>2. /\ DOMAIN players' = DOMAIN players
          /\ \A k \in DOMAIN players : k # i => players'[k] = players[k]
      BY <2>1
    <2>3. QED BY <2>1, <2>2 DEF IsPresent, Has
  <1>5. QED BY <1>2, <1>3, <1>4 DEF game_remove_player

\* A change of direction, or somebody else that comes, drops nobody.
LEMMA ComingAndSteeringDropNobody ==
    ASSUME Counters, NEW sid \in Session, IsPresent(sid),
           \/ \E entrant \in Entrants : game_add_player(entrant[1], entrant[2])
           \/ \E other \in Session, turn \in Turn : game_set_turn_direction(other, turn)
    PROVE  IsPresent(sid)'
  <1>1. /\ players \in Seq(Player) /\ waiting \in Seq(Player)
        /\ \A i \in DOMAIN players : players[i] \in Player
        /\ \A i \in DOMAIN waiting : waiting[i] \in Player
    BY PositionsFinite DEF Counters, TypeOK
  <1>2. ASSUME NEW a \in Seq(Player), NEW b, NEW i \in DOMAIN a, NEW turn \in Turn,
               b = [a EXCEPT ![i].turn_direction = turn]
        PROVE  /\ DOMAIN b = DOMAIN a
               /\ \A k \in DOMAIN a : /\ b[k].session_id = a[k].session_id
                                       /\ b[k].status = a[k].status
    <2> DEFINE new == [a[i] EXCEPT !.turn_direction = turn]
    <2>1. new.session_id = a[i].session_id /\ new.status = a[i].status
      BY PositionsFinite, TurnWrite DEF SameIdentity
    <2>2. b = [a EXCEPT ![i] = new]
      BY <1>2
    <2> HIDE DEF new
    <2>3. QED BY <2>1, <2>2
  <1>3. CASE players' = players /\ waiting' = waiting
    BY <1>3 DEF IsPresent, Has
  <1>4. ASSUME NEW entrant \in Entrants, game_add_player(entrant[1], entrant[2]),
               waiting' # waiting
        PROVE  IsPresent(sid)'
    <2>1. PICK new : waiting' = Append(waiting, new) /\ players' = players
      BY <1>4 DEF game_add_player, add_observer, add_player, list_add
    <2>2. /\ DOMAIN waiting = 1 .. Len(waiting) /\ Len(waiting) \in Nat
          /\ DOMAIN waiting' = 1 .. Len(waiting) + 1
          /\ \A i \in 1 .. Len(waiting) : waiting'[i] = waiting[i]
      BY <1>1, <2>1
    <2>3. DOMAIN waiting \in SUBSET DOMAIN waiting'
      BY <2>2
    <2>4. QED BY <2>1, <2>2, <2>3 DEF IsPresent, Has
  <1>5. ASSUME NEW other \in Session, NEW turn \in Turn, Steer(other, turn)
        PROVE  IsPresent(sid)'
    <2>1. PICK i \in DOMAIN players : players' = [players EXCEPT ![i].turn_direction = turn]
      BY <1>5 DEF Steer
    <2>2. /\ DOMAIN players' = DOMAIN players
          /\ \A k \in DOMAIN players : /\ players'[k].session_id = players[k].session_id
                                        /\ players'[k].status = players[k].status
      BY <1>1, <1>2, <2>1
    <2>3. QED BY <1>5, <2>2 DEF Steer, IsPresent, Has
  <1>6. ASSUME NEW other \in Session, NEW turn \in Turn, GetReady(other, turn)
        PROVE  IsPresent(sid)'
    <2>1. PICK i \in DOMAIN waiting : waiting' = [waiting EXCEPT ![i].turn_direction = turn]
      BY <1>6 DEF GetReady
    <2>2. /\ DOMAIN waiting' = DOMAIN waiting
          /\ \A k \in DOMAIN waiting : waiting'[k].session_id = waiting[k].session_id
      BY <1>1, <1>2, <2>1
    <2>3. QED BY <1>6, <2>2 DEF GetReady, IsPresent, Has
  <1>7. QED
    BY <1>3, <1>4, <1>5, <1>6
       DEF game_add_player, add_observer, add_player, game_set_turn_direction

\* Whoever waits when a game starts plays it.
LEMMA StartDropsNobody ==
    ASSUME Counters, NEW sid \in Session, IsPresent(sid), game_tick_waiting
    PROVE  IsPresent(sid)'
  <1>1. /\ players = <<>> /\ DOMAIN players' = DOMAIN waiting
        /\ \A k \in DOMAIN players' : "DISCONNECTED" \notin players'[k].status
    BY StartRoster
  <1>2. PICK o \in [DOMAIN waiting -> DOMAIN waiting] :
           /\ \A i \in DOMAIN waiting : \E k \in DOMAIN waiting : o[k] = i
           /\ \A k \in DOMAIN waiting : SameIdentity(waiting[o[k]], players'[k])
    BY StartRoster
  <1>3. PICK i \in DOMAIN waiting : waiting[i].session_id = sid
    BY <1>1 DEF IsPresent, Has
  <1>4. PICK k \in DOMAIN waiting : o[k] = i
    BY <1>2
  <1>5. players'[k].session_id = sid
    BY <1>2, <1>3, <1>4 DEF SameIdentity
  <1>6. QED BY <1>1, <1>4, <1>5 DEF IsPresent

\* Whoever has not left a game, dead or alive, waits for the next one.
LEMMA TickDropsNobody ==
    ASSUME Counters, NEW sid \in Session, IsPresent(sid), game_tick_in_progress
    PROVE  IsPresent(sid)'
  <1>1. players \in Seq(Player) /\ waiting \in Seq(Player)
    BY DEF Counters, TypeOK
  <1>2. PICK to \in Moves :
              \/ /\ in_progress' = in_progress
                 /\ players' = Moved(to) /\ waiting' = waiting
              \/ /\ ~in_progress' /\ players' = <<>>
                 /\ \E e \in Enumerations(Staying(Moved(to))) :
                        waiting' = Lobby(Moved(to), e)
    BY TickRoster
  <1>3. PICK list \in Seq(Player) :
           /\ list = Moved(to) /\ DOMAIN list = DOMAIN players
           /\ \A i \in DOMAIN players :
                 /\ list[i].session_id = players[i].session_id
                 /\ "DISCONNECTED" \in list[i].status
                       => "DISCONNECTED" \in players[i].status
    <2>1. /\ Moved(to) \in Seq(Player) /\ DOMAIN Moved(to) = DOMAIN players
          /\ \A i \in DOMAIN players : SameIdentity(players[i], Moved(to)[i])
          /\ \A i \in DOMAIN players :
                 Moved(to)[i].status
                   = players[i].status \cup (IF i \in Crashed(to) THEN {"DEAD"} ELSE {})
      BY <1>1, MovedProperties
    <2> DEFINE new == Moved(to)
    <2>2. new = Moved(to)
      OBVIOUS
    <2> HIDE DEF new
    <2>3. ASSUME NEW i \in DOMAIN players
          PROVE  /\ new[i].session_id = players[i].session_id
                 /\ "DISCONNECTED" \in new[i].status
                       => "DISCONNECTED" \in players[i].status
      <3>1. CASE i \in Crashed(to)
        BY <2>1, <2>2, <3>1 DEF SameIdentity
      <3>2. CASE i \notin Crashed(to)
        BY <2>1, <2>2, <3>2 DEF SameIdentity
      <3>3. QED BY <3>1, <3>2
    <2>4. QED BY <2>1, <2>2, <2>3
  <1>4. CASE players' = Moved(to) /\ waiting' = waiting
    BY <1>3, <1>4 DEF IsPresent, Has
  <1>5. CASE \E e \in Enumerations(Staying(Moved(to))) : waiting' = Lobby(Moved(to), e)
    <2>1. PICK e \in Enumerations(Staying(list)) : waiting' = Lobby(list, e)
      BY <1>3, <1>5
    <2>2. /\ DOMAIN waiting' = 1 .. Len(waiting) + Len(e)
          /\ Len(waiting) \in Nat /\ Len(e) \in Nat /\ DOMAIN e = 1 .. Len(e)
          /\ \A i \in 1 .. Len(waiting) : SameIdentity(waiting[i], waiting'[i])
          /\ \A k \in 1 .. Len(e) : SameIdentity(list[e[k]], waiting'[Len(waiting) + k])
      BY <1>1, <2>1, RestartProperties
    <2>3. CASE Has(waiting, sid)
      <3>1. PICK i \in DOMAIN waiting : waiting[i].session_id = sid
        BY <2>3 DEF Has
      <3>2. i \in 1 .. Len(waiting) /\ i \in DOMAIN waiting'
        BY <1>1, <2>2, LenProperties
      <3>3. waiting'[i].session_id = sid
        BY <2>2, <3>1, <3>2 DEF SameIdentity
      <3>4. QED BY <3>2, <3>3 DEF IsPresent, Has
    <2>4. CASE ~Has(waiting, sid)
      <3>1. PICK i \in DOMAIN players :
               players[i].session_id = sid /\ "DISCONNECTED" \notin players[i].status
        BY <2>4 DEF IsPresent
      <3>2. i \in Staying(list) /\ list[i].session_id = sid
        BY <1>3, <3>1 DEF Staying
      <3>3. PICK k \in 1 .. Len(e) : e[k] = i
        <4>1. Len(list) \in Nat /\ Staying(list) \in SUBSET (1 .. Len(list))
          BY PositionsFinite
        <4>2. PICK S \in SUBSET (1 .. Len(list)) : S = Staying(list)
          BY <4>1
        <4>3. e \in Enumerations(S)
          BY <4>2
        <4>4. \A x \in S : \E y \in DOMAIN e : e[y] = x
          BY <4>1, <4>3, EnumerationProperties
        <4>5. QED BY <2>2, <3>2, <4>2, <4>4
      <3>4. Len(waiting) + k \in DOMAIN waiting'
        BY <2>2
      <3>5. waiting'[Len(waiting) + k].session_id = sid
        BY <2>2, <3>2, <3>3 DEF SameIdentity
      <3>6. QED BY <3>4, <3>5 DEF IsPresent, Has
    <2>5. QED BY <2>3, <2>4
  <1>6. QED BY <1>2, <1>4, <1>5

\* Only game_remove_player, called for its session, drops a player that has
\* joined: the start of a game, a death and the end of the game lose nobody.
THEOREM NobodyIsForgottenCorrect == Spec => NobodyIsForgotten
  <1>1. ASSUME Counters, [Next]_vars, NEW sid \in Session,
               IsPresent(sid), ~IsPresent(sid)'
        PROVE  game_remove_player(sid)
    <2>1. CASE UNCHANGED vars
      BY <1>1, <2>1 DEF vars, lists, IsPresent, Has
    <2>2. CASE Round
      BY <1>1, <2>2, StartDropsNobody, TickDropsNobody DEF Round
    <2>3. CASE \E other \in Session : game_remove_player(other)
      BY <1>1, <2>3, OthersStay
    <2>4. QED BY <1>1, <2>1, <2>2, <2>3, ComingAndSteeringDropNobody DEF Next
  <1>2. Counters /\ [Next]_vars
          => [\A sid \in Session :
                IsPresent(sid) /\ ~IsPresent(sid)' => game_remove_player(sid)]_vars
    BY <1>1
  <1>3. QED BY <1>2, CountersInvariant, PTL DEF Spec, NobodyIsForgotten

-----------------------------------------------------------------------------
(* Logs *)

\* A log that no GAME_OVER ends yet.
IsOpen(l) == \A k \in DOMAIN l : l[k].type # "GAME_OVER"

\* The players that die, and the pixels that are eaten, in a log.
Fallen(l) == { l[k].player_number : k \in { j \in DOMAIN l : l[j].type = "ELIMINATED" } }

EatenBy(l) == { l[k].pixel : k \in { j \in DOMAIN l : l[j].type = "PIXEL" } }

\* The moves of one round, after a log: worms alive move once at most, to free
\* pixels, or die.
Continues(l, moves) ==
    /\ \A k \in DOMAIN moves :
          /\ moves[k].event_no = Len(l) + k - 1
          /\ IsMove(moves[k])
          /\ moves[k].player_number \in (0 .. PlayersOf(l) - 1) \ Eliminated(l)
          /\ moves[k].type = "PIXEL" => moves[k].pixel \notin EatenBy(l)
    /\ \A j, k \in DOMAIN moves :
          moves[j].player_number = moves[k].player_number => j = k
    /\ \A j, k \in DOMAIN moves :
          moves[j].type = "PIXEL" /\ moves[k].type = "PIXEL"
            /\ moves[j].pixel = moves[k].pixel => j = k

\* The names are in the first event.
LEMMA PlayersOfLog ==
    ASSUME NEW l \in Seq(Event), WellFormed(l)
    PROVE  /\ Len(l) \in Nat /\ DOMAIN l = 1 .. Len(l) /\ 1 \in DOMAIN l
           /\ PlayersOf(l) \in Nat /\ PlayersOf(l) >= 2 /\ Len(l) > PlayersOf(l)
  <1>1. Len(l) \in Nat /\ DOMAIN l = 1 .. Len(l)
    BY LenProperties
  <1>2. l # <<>> /\ PlayersOf(l) >= 2 /\ Len(l) > PlayersOf(l)
    BY DEF WellFormed, Opened, EveryoneEnters
  <1>3. 1 \in DOMAIN l
    BY <1>1, <1>2, EmptySeq
  <1>4. l[1] \in Event /\ l[1].type = "NEW_GAME"
    BY <1>3, ElementOfSeq DEF WellFormed, Opened
  <1>5. l[1].players_names \in Seq(Name)
    BY <1>4 DEF Event
  <1>6. PlayersOf(l) \in Nat
    BY <1>5, LenProperties DEF PlayersOf
  <1>7. QED BY <1>1, <1>2, <1>3, <1>6

\* A round adds to a good log and leaves a good log.
LEMMA MovesExtendLog ==
    ASSUME NEW l \in Seq(Event), NEW moves \in Seq(Event),
           WellFormed(l), IsOpen(l), Continues(l, moves),
           NEW all, all = l \o moves
    PROVE  /\ WellFormed(all) /\ IsOpen(all)
           /\ all[1] = l[1]
           /\ EatenBy(all) = EatenBy(l) \cup EatenBy(moves)
           /\ Eliminated(all)
                = Eliminated(l) \cup Fallen(moves)
  <1> DEFINE n == Len(l)
  <1>1. /\ n \in Nat /\ DOMAIN l = 1 .. n
        /\ Len(moves) \in Nat /\ DOMAIN moves = 1 .. Len(moves)
    BY LenProperties
  <1>2. /\ all \in Seq(Event) /\ Len(all) = n + Len(moves)
        /\ \A i \in 1 .. n + Len(moves) :
              all[i] = IF i <= n THEN l[i] ELSE moves[i - n]
    BY ConcatProperties
  <1>3. DOMAIN all = 1 .. n + Len(moves)
    BY <1>2, LenProperties
  <1>4. /\ n > 0 /\ 1 \in DOMAIN l
        /\ PlayersOf(l) \in Nat /\ PlayersOf(l) >= 2 /\ n > PlayersOf(l)
    BY PlayersOfLog
  <1>5. \A k \in DOMAIN l : k \in DOMAIN all /\ all[k] = l[k]
    BY <1>1, <1>2, <1>3
  <1>6. \A k \in DOMAIN moves : n + k \in DOMAIN all /\ all[n + k] = moves[k]
    <2> SUFFICES ASSUME NEW k \in DOMAIN moves
                 PROVE  n + k \in DOMAIN all /\ all[n + k] = moves[k]
      OBVIOUS
    <2>1. n + k \in 1 .. n + Len(moves) /\ ~(n + k <= n) /\ n + k - n = k
      BY <1>1
    <2>2. QED BY <1>2, <1>3, <2>1
  <1>7. \A k \in DOMAIN all :
           \/ k \in DOMAIN l /\ all[k] = l[k]
           \/ k > n /\ k - n \in DOMAIN moves /\ all[k] = moves[k - n]
    <2> SUFFICES ASSUME NEW k \in DOMAIN all
                 PROVE  \/ k \in DOMAIN l /\ all[k] = l[k]
                        \/ k > n /\ k - n \in DOMAIN moves /\ all[k] = moves[k - n]
      OBVIOUS
    <2>1. CASE k <= n
      BY <1>1, <1>2, <1>3, <2>1
    <2>2. CASE ~(k <= n)
      BY <1>1, <1>2, <1>3, <2>2
    <2>3. QED BY <2>1, <2>2
  <1>8. all[1] = l[1] /\ PlayersOf(all) = PlayersOf(l)
    BY <1>4, <1>5 DEF PlayersOf
  <1>9. \A k \in DOMAIN moves :
           /\ moves[k].type \in {"PIXEL", "ELIMINATED"}
           /\ moves[k].player_number \in 0 .. PlayersOf(l) - 1
           /\ moves[k].player_number \notin Eliminated(l)
    BY DEF Continues, IsMove
  <1> HIDE DEF n
  <1>10. Numbered(all)
    <2>1. ASSUME NEW k \in DOMAIN all
          PROVE  all[k].event_no = k - 1
      <3>1. CASE k \in DOMAIN l /\ all[k] = l[k]
        BY <3>1 DEF WellFormed, Numbered
      <3>2. CASE k > n /\ k - n \in DOMAIN moves /\ all[k] = moves[k - n]
        <4>1. moves[k - n].event_no = n + (k - n) - 1
          BY <3>2 DEF Continues, n
        <4>2. n + (k - n) - 1 = k - 1
          BY <1>1, <1>3
        <4>3. QED BY <3>2, <4>1, <4>2
      <3>3. QED BY <1>7, <3>1, <3>2
    <2>2. QED BY <2>1 DEF Numbered
  <1>11. Opened(all)
    <2>1. all # <<>>
      BY <1>3, <1>4, <1>5
    <2>2. ASSUME NEW k \in DOMAIN all
          PROVE  all[k].type = "NEW_GAME" <=> k = 1
      <3>1. CASE k \in DOMAIN l /\ all[k] = l[k]
        BY <3>1 DEF WellFormed, Opened
      <3>2. CASE k > n /\ k - n \in DOMAIN moves /\ all[k] = moves[k - n]
        <4>1. moves[k - n].type \in {"PIXEL", "ELIMINATED"}
          BY <1>9, <3>2
        <4>2. k # 1
          BY <1>1, <1>3, <1>4, <3>2
        <4>3. QED BY <3>2, <4>1, <4>2
      <3>3. QED BY <1>7, <3>1, <3>2
    <2>3. QED BY <1>4, <1>8, <2>1, <2>2 DEF Opened
  <1>12. EveryoneEnters(all)
    <2>1. Len(all) > PlayersOf(l)
      BY <1>1, <1>2, <1>4
    <2>2. ASSUME NEW p \in 1 .. PlayersOf(l)
          PROVE  IsMove(all[p + 1]) /\ all[p + 1].player_number = p - 1
      <3>1. IsMove(l[p + 1]) /\ l[p + 1].player_number = p - 1
        BY DEF WellFormed, EveryoneEnters
      <3>2. p + 1 \in DOMAIN l
        BY <1>1, <1>4
      <3>3. QED BY <1>5, <3>1, <3>2
    <2>3. QED BY <1>8, <2>1, <2>2 DEF EveryoneEnters
  <1>13. MentionsPlayers(all)
    <2>1. ASSUME NEW k \in DOMAIN all, IsMove(all[k])
          PROVE  all[k].player_number \in 0 .. PlayersOf(l) - 1
      <3>1. CASE k \in DOMAIN l /\ all[k] = l[k]
        BY <2>1, <3>1 DEF WellFormed, MentionsPlayers
      <3>2. CASE k > n /\ k - n \in DOMAIN moves /\ all[k] = moves[k - n]
        BY <1>9, <3>2
      <3>3. QED BY <1>7, <3>1, <3>2
    <2>2. QED BY <1>8, <2>1 DEF MentionsPlayers
  <1>14. EatenOnce(all)
    <2>1. ASSUME NEW j \in DOMAIN all, NEW k \in DOMAIN all,
                 all[j].type = "PIXEL", all[k].type = "PIXEL",
                 all[j].pixel = all[k].pixel
          PROVE  j = k
      <3>1. ASSUME NEW x \in DOMAIN l, NEW y \in DOMAIN moves,
                   l[x].type = "PIXEL", moves[y].type = "PIXEL"
            PROVE  l[x].pixel # moves[y].pixel
        BY <3>1 DEF Continues, EatenBy
      <3>2. CASE j \in DOMAIN l /\ all[j] = l[j] /\ k \in DOMAIN l /\ all[k] = l[k]
        BY <2>1, <3>2 DEF WellFormed, EatenOnce
      <3>3. CASE /\ j > n /\ j - n \in DOMAIN moves /\ all[j] = moves[j - n]
                 /\ k > n /\ k - n \in DOMAIN moves /\ all[k] = moves[k - n]
        <4>1. j - n = k - n
          BY <2>1, <3>3 DEF Continues
        <4>2. QED BY <1>1, <1>3, <4>1
      <3>4. QED BY <1>7, <2>1, <3>1, <3>2, <3>3
    <2>2. QED BY <2>1 DEF EatenOnce
  <1>15. DeadAreSilent(all)
    <2>1. ASSUME NEW j \in DOMAIN all, NEW k \in DOMAIN all,
                 all[j].type = "ELIMINATED", j < k, IsMove(all[k])
          PROVE  all[j].player_number # all[k].player_number
      <3>1. CASE j \in DOMAIN l /\ all[j] = l[j] /\ k \in DOMAIN l /\ all[k] = l[k]
        BY <2>1, <3>1 DEF WellFormed, DeadAreSilent
      <3>2. CASE /\ j \in DOMAIN l /\ all[j] = l[j]
                 /\ k > n /\ k - n \in DOMAIN moves /\ all[k] = moves[k - n]
        <4>1. l[j].player_number \in 0 .. PlayersOf(l) - 1
          BY <2>1, <3>2 DEF WellFormed, MentionsPlayers, IsMove
        <4>2. l[j].player_number \in Eliminated(l)
          BY <2>1, <3>2, <4>1 DEF Eliminated
        <4>3. QED BY <1>9, <3>2, <4>2
      <3>3. CASE /\ j > n /\ j - n \in DOMAIN moves /\ all[j] = moves[j - n]
                 /\ k > n /\ k - n \in DOMAIN moves /\ all[k] = moves[k - n]
        <4>1. j - n # k - n
          BY <1>1, <1>3, <2>1
        <4>2. QED BY <3>3, <4>1 DEF Continues
      <3>4. CASE j > n /\ k \in DOMAIN l
        BY <1>1, <1>3, <2>1, <3>4
      <3>5. QED BY <1>7, <3>1, <3>2, <3>3, <3>4
    <2>2. QED BY <2>1 DEF DeadAreSilent
  <1>16. IsOpen(all)
    BY <1>7, <1>9 DEF IsOpen
  <1>17. OverComesLast(all)
    BY <1>16 DEF IsOpen, OverComesLast
  <1>18. EatenBy(all) = EatenBy(l) \cup EatenBy(moves)
    <2>1. ASSUME NEW k \in DOMAIN all, all[k].type = "PIXEL"
          PROVE  all[k].pixel \in EatenBy(l) \cup EatenBy(moves)
      <3>1. CASE k \in DOMAIN l /\ all[k] = l[k]
        BY <2>1, <3>1 DEF EatenBy
      <3>2. CASE k - n \in DOMAIN moves /\ all[k] = moves[k - n]
        BY <2>1, <3>2 DEF EatenBy
      <3>3. QED BY <1>7, <3>1, <3>2
    <2>2. EatenBy(all) \subseteq EatenBy(l) \cup EatenBy(moves)
      BY <2>1 DEF EatenBy
    <2>3. EatenBy(l) \subseteq EatenBy(all)
      BY <1>5 DEF EatenBy
    <2>4. EatenBy(moves) \subseteq EatenBy(all)
      BY <1>6 DEF EatenBy
    <2>5. QED BY <2>2, <2>3, <2>4
  <1>19. Eliminated(all) = Eliminated(l) \cup Fallen(moves)
    <2>1. ASSUME NEW p \in Eliminated(all)
          PROVE  p \in Eliminated(l) \cup Fallen(moves)
      <3>1. PICK k \in DOMAIN all : all[k].type = "ELIMINATED" /\ all[k].player_number = p
        BY DEF Eliminated
      <3>2. p \in 0 .. PlayersOf(l) - 1
        BY <1>8 DEF Eliminated
      <3>3. CASE k \in DOMAIN l /\ all[k] = l[k]
        BY <3>1, <3>2, <3>3 DEF Eliminated
      <3>4. CASE k > n /\ k - n \in DOMAIN moves /\ all[k] = moves[k - n]
        BY <3>1, <3>4 DEF Fallen
      <3>5. QED BY <1>7, <3>3, <3>4
    <2>2. ASSUME NEW p \in Eliminated(l)
          PROVE  p \in Eliminated(all)
      BY <1>5, <1>8 DEF Eliminated
    <2>3. ASSUME NEW p \in Fallen(moves)
          PROVE  p \in Eliminated(all)
      <3>1. PICK k \in DOMAIN moves :
               moves[k].type = "ELIMINATED" /\ moves[k].player_number = p
        BY DEF Fallen
      <3>2. n + k \in DOMAIN all /\ all[n + k] = moves[k] /\ p \in 0 .. PlayersOf(l) - 1
        BY <1>6, <1>9, <3>1
      <3>3. QED BY <1>8, <3>1, <3>2 DEF Eliminated
    <2>4. QED BY <2>1, <2>2, <2>3
  <1>20. QED
    BY <1>8, <1>10, <1>11, <1>12, <1>13, <1>14, <1>15, <1>16, <1>17, <1>18, <1>19
       DEF WellFormed

\* GAME_OVER ends a good log of a game that is decided.
LEMMA OverEndsLog ==
    ASSUME NEW l \in Seq(Event), WellFormed(l), IsOpen(l),
           Cardinality(Eliminated(l)) >= PlayersOf(l) - 1,
           NEW all, all = Append(l, GameOverEvent(Len(l)))
    PROVE  WellFormed(all) /\ IsOver(all)
  <1> DEFINE n == Len(l)
             over == GameOverEvent(n)
  <1>1. n \in Nat /\ DOMAIN l = 1 .. n
    BY LenProperties
  <1>2. over \in Event /\ over.type = "GAME_OVER" /\ over.event_no = n
    BY <1>1 DEF Event, GameOverEvent
  <1> HIDE DEF over
  <1>3. all = Append(l, over)
    BY DEF over
  <1>4. /\ all \in Seq(Event) /\ Len(all) = n + 1
        /\ \A i \in 1 .. n : all[i] = l[i]
        /\ all[n + 1] = over
    BY <1>1, <1>2, <1>3, AppendProperties
  <1>5. DOMAIN all = 1 .. n + 1
    BY <1>4, LenProperties
  <1>6. n > 0 /\ PlayersOf(l) \in Nat /\ PlayersOf(l) >= 2 /\ n > PlayersOf(l)
    BY <1>1, PlayersOfLog
  <1> HIDE DEF n
  <1>7. \A k \in DOMAIN all :
           \/ k \in DOMAIN l /\ all[k] = l[k]
           \/ k = n + 1 /\ all[k] = over
    BY <1>1, <1>4, <1>5
  <1>8. \A k \in DOMAIN l : k \in DOMAIN all /\ all[k] = l[k] /\ k < n + 1
    BY <1>1, <1>4, <1>5
  <1>9. all[1] = l[1] /\ PlayersOf(all) = PlayersOf(l)
    BY <1>1, <1>4, <1>6 DEF PlayersOf
  <1>10. Eliminated(all) = Eliminated(l)
    BY <1>2, <1>7, <1>8, <1>9 DEF Eliminated
  <1>11. Numbered(all)
    BY <1>1, <1>2, <1>7 DEF Numbered, WellFormed
  <1>12. Opened(all)
    <2>1. all # <<>>
      BY <1>1, <1>4, EmptySeq
    <2>2. \A k \in DOMAIN all : all[k].type = "NEW_GAME" <=> k = 1
      BY <1>1, <1>2, <1>6, <1>7 DEF Opened, WellFormed
    <2>3. QED BY <1>6, <1>9, <2>1, <2>2 DEF Opened
  <1>13. EveryoneEnters(all)
    <2>1. ASSUME NEW p \in 1 .. PlayersOf(l)
          PROVE  IsMove(all[p + 1]) /\ all[p + 1].player_number = p - 1
      <3>1. IsMove(l[p + 1]) /\ l[p + 1].player_number = p - 1
        BY DEF WellFormed, EveryoneEnters
      <3>2. p + 1 \in DOMAIN l
        BY <1>1, <1>6
      <3>3. QED BY <1>8, <3>1, <3>2
    <2>2. Len(all) > PlayersOf(l)
      BY <1>1, <1>4, <1>6
    <2>3. QED BY <1>9, <2>1, <2>2 DEF EveryoneEnters
  <1>14. MentionsPlayers(all)
    BY <1>2, <1>7, <1>9 DEF MentionsPlayers, WellFormed, IsMove
  <1>15. EatenOnce(all)
    BY <1>2, <1>7 DEF EatenOnce, WellFormed
  <1>16. DeadAreSilent(all)
    BY <1>2, <1>7 DEF DeadAreSilent, WellFormed, IsMove
  <1>17. OverComesLast(all)
    BY <1>4, <1>7, <1>9, <1>10 DEF OverComesLast, IsOpen
  <1>18. IsOver(all)
    BY <1>1, <1>2, <1>4, EmptySeq DEF IsOver
  <1>19. QED
    BY <1>11, <1>12, <1>13, <1>14, <1>15, <1>16, <1>17, <1>18 DEF WellFormed

-----------------------------------------------------------------------------
(* The invariant *)

\* What handle_round's flag, the counter of events and the board are outside
\* and inside a game, and that no game in progress has sent its GAME_OVER.
GameOfLog ==
    /\ is_game_in_progress = in_progress
    /\ ~in_progress => /\ next_event_no = 0 /\ board = {}
                       /\ log = <<>> \/ (WellFormed(log) /\ IsOver(log))
    /\ in_progress => IsOpen(log)

Story == GameOfLog /\ LogTellsTheGame /\ WormsAreWhereTheLogSays

\* The last move of a worm in a log leads to this pixel.
LastPixel(l, i, pixel) ==
    \E k \in DOMAIN l :
        /\ IsMove(l[k]) /\ l[k].player_number = i - 1
        /\ \A j \in k + 1 .. Len(l) : IsMove(l[j]) => l[j].player_number # i - 1
        /\ l[k].type = "PIXEL" /\ l[k].pixel = pixel

\* The invariant about the worms, one worm at a time.
LEMMA WormsByLastPixel ==
    WormsAreWhereTheLogSays <=>
        \A i \in Live(players) : /\ "IN_GAME" \in players[i].status
                                 /\ LastPixel(log, i, players[i].pos)
  BY DEF WormsAreWhereTheLogSays, LastPixel

\* Before the first game there is no log and no worm.
LEMMA StoryInit == Init => Story
  <1> SUFFICES ASSUME Init PROVE Story
    OBVIOUS
  <1>1. Live(players) = {}
    BY DEF Init, game_create, Live
  <1>2. QED
    BY <1>1 DEF Init, game_create, game_board_create, Story, GameOfLog,
                LogTellsTheGame, WormsAreWhereTheLogSays

\* What the log is about is the same of both lists.
SameWorms(a, b) ==
    /\ DOMAIN b = DOMAIN a
    /\ \A i \in DOMAIN a : /\ b[i].player_name = a[i].player_name
                           /\ b[i].pos = a[i].pos
                           /\ "DEAD" \in b[i].status <=> "DEAD" \in a[i].status
                           /\ "IN_GAME" \in a[i].status => "IN_GAME" \in b[i].status

\* A client changes nothing the log is about.
LEMMA ClientsKeepWorms ==
    ASSUME Counters,
           \/ \E entrant \in Entrants : game_add_player(entrant[1], entrant[2])
           \/ \E sid \in Session : game_remove_player(sid)
           \/ \E sid \in Session, turn \in Turn : game_set_turn_direction(sid, turn)
    PROVE  /\ SameWorms(players, players')
           /\ UNCHANGED <<in_progress, next_event_no, board, log, is_game_in_progress>>
  <1>1. players \in Seq(Player) /\ \A i \in DOMAIN players : players[i] \in Player
    BY PositionsFinite DEF Counters, TypeOK
  <1>2. ASSUME players' = players
        PROVE  SameWorms(players, players')
    BY <1>2 DEF SameWorms
  <1>3. ASSUME \E sid \in Session : Disconnect(sid)
        PROVE  SameWorms(players, players')
    <2>1. PICK i \in DOMAIN players :
             players' = [players EXCEPT ![i] = [players[i] EXCEPT !.status = @ \cup {"DISCONNECTED"}]]
      BY <1>3 DEF Disconnect
    <2> DEFINE new == [players[i] EXCEPT !.status = @ \cup {"DISCONNECTED"}]
    <2>2. /\ SameIdentity(players[i], new) /\ new.pos = players[i].pos
          /\ new.status = players[i].status \cup {"DISCONNECTED"}
      BY <1>1, DisconnectWrite
    <2>3. players' = [players EXCEPT ![i] = new]
      BY <2>1
    <2> HIDE DEF new
    <2>4. /\ "DEAD" \in new.status <=> "DEAD" \in players[i].status
          /\ "IN_GAME" \in players[i].status => "IN_GAME" \in new.status
      BY <2>2
    <2>5. QED BY <2>2, <2>3, <2>4 DEF SameWorms, SameIdentity
  <1>4. ASSUME \E sid \in Session, turn \in Turn : Steer(sid, turn)
        PROVE  SameWorms(players, players')
    <2>1. PICK turn \in Turn, i \in DOMAIN players :
             players' = [players EXCEPT ![i] = [players[i] EXCEPT !.turn_direction = turn]]
      BY <1>4 DEF Steer
    <2> DEFINE new == [players[i] EXCEPT !.turn_direction = turn]
    <2>2. /\ SameIdentity(players[i], new) /\ players[i].status = new.status
          /\ new.pos = players[i].pos
      BY <1>1, TurnWrite
    <2>3. players' = [players EXCEPT ![i] = new]
      BY <2>1
    <2> HIDE DEF new
    <2>4. QED BY <2>2, <2>3 DEF SameWorms, SameIdentity
  <1>5. SameWorms(players, players')
    BY <1>2, <1>3, <1>4
       DEF game_add_player, add_observer, add_player, game_remove_player,
           RemoveObserver, RemoveWaiting, game_set_turn_direction, GetReady, lists
  <1>6. UNCHANGED <<in_progress, next_event_no, board, log, is_game_in_progress>>
    BY DEF game_add_player, game_remove_player, game_set_turn_direction, events
  <1>7. QED BY <1>5, <1>6

\* So the log still tells the game.
LEMMA StoryKept ==
    ASSUME Story, SameWorms(players, players'),
           UNCHANGED <<in_progress, next_event_no, board, log, is_game_in_progress>>
    PROVE  Story'
  <1>1. Live(players') = Live(players) /\ DOMAIN players' = DOMAIN players
    BY DEF SameWorms, Live
  <1>2. NamesOf(players') = NamesOf(players)
    BY DEF SameWorms, NamesOf
  <1>3. GameOfLog'
    BY DEF Story, GameOfLog, IsOpen, WellFormed, IsOver
  <1>4. LogTellsTheGame'
    <2>1. SUFFICES ASSUME in_progress'
                   PROVE  /\ WellFormed(log')
                          /\ Len(log') = next_event_no'
                          /\ log'[1].players_names = NamesOf(players')
                          /\ board' = EatenBy(log')
                          /\ Eliminated(log') = { i - 1 : i \in DOMAIN players' \ Live(players') }
      BY DEF LogTellsTheGame, EatenBy, NamesOf, Live
    <2>2. /\ WellFormed(log)
          /\ Len(log) = next_event_no
          /\ log[1].players_names = NamesOf(players)
          /\ board = EatenBy(log)
          /\ Eliminated(log) = { i - 1 : i \in DOMAIN players \ Live(players) }
      BY <2>1 DEF Story, LogTellsTheGame, EatenBy
    <2>3. QED BY <1>1, <1>2, <2>2
  <1>5. WormsAreWhereTheLogSays'
    <2>1. \A i \in Live(players') :
             /\ "IN_GAME" \in players'[i].status /\ players'[i].pos = players[i].pos
      BY <1>1 DEF Story, WormsAreWhereTheLogSays, SameWorms, Live
    <2>2. \A i \in Live(players) : LastPixel(log, i, players[i].pos)
      BY WormsByLastPixel DEF Story
    <2>3. \A i \in Live(players') : LastPixel(log', i, players'[i].pos)
      BY <1>1, <2>1, <2>2
    <2>4. QED BY <2>1, <2>3 DEF WormsAreWhereTheLogSays, LastPixel, Live
  <1>6. QED BY <1>3, <1>4, <1>5 DEF Story

-----------------------------------------------------------------------------
(* The start of a game *)

\* The first round of a game: the log opens with everyone on the board, and the
\* eaten pixels are those of the players that are alive.
LEMMA StartLog ==
    ASSUME NEW list \in Seq(Player), Len(list) >= 2,
           NEW spawn \in [DOMAIN list -> Pixels],
           next_event_no = 0, board = {},
           NEW l, l = StartEvents(list, spawn)
    PROVE  /\ l \in Seq(Event) /\ Len(l) = Len(list) + 1
           /\ WellFormed(l) /\ IsOpen(l)
           /\ l[1].players_names = NamesOf(list)
           /\ EatenBy(l) = { spawn[i] : i \in DOMAIN list }
           /\ Eliminated(l) = { i - 1 : i \in { j \in DOMAIN list : IsTaken(spawn, j) } }
           /\ \A i \in DOMAIN list : ~IsTaken(spawn, i) => LastPixel(l, i, spawn[i])
  <1> DEFINE n == Len(list)
  <1>1. /\ n \in Nat /\ DOMAIN list = 1 .. n /\ n >= 2
    BY PositionsFinite
  <1>2. /\ l \in Seq(Event) /\ Len(l) = n + 1
        /\ l[1] = NewGameEvent(0, NamesOf(list))
        /\ \A i \in DOMAIN list :
              l[i + 1] = IF IsTaken(spawn, i)
                         THEN EliminatedEvent(0 + i, i - 1)
                         ELSE PixelEvent(0 + i, i - 1, spawn[i])
    BY StartEventsType
  <1>3. DOMAIN l = 1 .. n + 1
    BY <1>2, LenProperties
  <1>4. l[1].type = "NEW_GAME" /\ l[1].event_no = 0 /\ l[1].players_names = NamesOf(list)
    BY <1>2 DEF NewGameEvent
  <1>5. PlayersOf(l) = n
    <2>1. NamesOf(list) \in [1 .. n -> {list[i].player_name : i \in 1 .. n}]
      BY <1>1 DEF NamesOf
    <2>2. Len(NamesOf(list)) = n
      BY <1>1, <2>1, FunctionIsSeq
    <2>3. QED BY <1>4, <2>2 DEF PlayersOf
  <1>6. ASSUME NEW i \in 1 .. n
        PROVE  /\ i + 1 \in DOMAIN l
               /\ l[i + 1].event_no = i /\ l[i + 1].player_number = i - 1
               /\ IsTaken(spawn, i) => l[i + 1].type = "ELIMINATED"
               /\ ~IsTaken(spawn, i) => /\ l[i + 1].type = "PIXEL"
                                        /\ l[i + 1].pixel = spawn[i]
               /\ IsMove(l[i + 1])
    <2>1. i + 1 \in DOMAIN l /\ 0 + i = i
      BY <1>1, <1>3
    <2>2. CASE IsTaken(spawn, i)
      <3>1. l[i + 1] = EliminatedEvent(i, i - 1)
        BY <1>1, <1>2, <2>1, <2>2
      <3>2. QED BY <2>1, <2>2, <3>1 DEF EliminatedEvent, IsMove
    <2>3. CASE ~IsTaken(spawn, i)
      <3>1. l[i + 1] = PixelEvent(i, i - 1, spawn[i])
        BY <1>1, <1>2, <2>1, <2>3
      <3>2. QED BY <2>1, <2>3, <3>1 DEF PixelEvent, IsMove
    <2>4. QED BY <2>2, <2>3
  <1>7. \A k \in DOMAIN l : k = 1 \/ (k - 1 \in 1 .. n /\ (k - 1) + 1 = k)
    BY <1>1, <1>3
  <1> HIDE DEF n
  <1>8. \A k \in DOMAIN l : k # 1 =>
           /\ l[k].event_no = k - 1 /\ l[k].player_number = (k - 1) - 1
           /\ l[k].type \in {"ELIMINATED", "PIXEL"} /\ IsMove(l[k])
           /\ l[k].type = "PIXEL" => /\ ~IsTaken(spawn, k - 1)
                                     /\ l[k].pixel = spawn[k - 1]
           /\ l[k].type = "ELIMINATED" => IsTaken(spawn, k - 1)
    <2> SUFFICES ASSUME NEW k \in DOMAIN l, k # 1
                 PROVE
                   /\ l[k].event_no = k - 1 /\ l[k].player_number = (k - 1) - 1
                   /\ l[k].type \in {"ELIMINATED", "PIXEL"} /\ IsMove(l[k])
                   /\ l[k].type = "PIXEL" => /\ ~IsTaken(spawn, k - 1)
                                             /\ l[k].pixel = spawn[k - 1]
                   /\ l[k].type = "ELIMINATED" => IsTaken(spawn, k - 1)
      OBVIOUS
    <2>1. PICK i \in 1 .. n : i = k - 1 /\ i + 1 = k
      BY <1>7
    <2>2. QED BY <1>6, <2>1
  <1>9. Numbered(l)
    BY <1>1, <1>3, <1>4, <1>8 DEF Numbered
  <1>10. Opened(l)
    <2>1. l # <<>>
      BY <1>1, <1>2, EmptySeq
    <2>2. QED BY <1>1, <1>4, <1>5, <1>8, <2>1 DEF Opened
  <1>11. EveryoneEnters(l)
    BY <1>1, <1>2, <1>5, <1>6 DEF EveryoneEnters
  <1>12. MentionsPlayers(l)
    <2>1. ~IsMove(l[1])
      BY <1>4 DEF IsMove
    <2>2. QED BY <1>1, <1>3, <1>5, <1>7, <1>8, <2>1 DEF MentionsPlayers
  <1>13. EatenOnce(l)
    <2>1. ASSUME NEW j \in DOMAIN l, NEW k \in DOMAIN l, j < k,
                 l[j].type = "PIXEL", l[k].type = "PIXEL", l[j].pixel = l[k].pixel
          PROVE  FALSE
      <3>1. j # 1 /\ k # 1
        BY <1>4, <2>1
      <3>2. spawn[j - 1] = spawn[k - 1] /\ ~IsTaken(spawn, k - 1)
        BY <1>8, <2>1, <3>1
      <3>3. j - 1 \in 1 .. (k - 1) - 1
        BY <1>1, <1>3, <2>1, <3>1
      <3>4. QED BY <3>2, <3>3 DEF IsTaken
    <2>2. \A j, k \in DOMAIN l : j = k \/ j < k \/ k < j
      BY <1>1, <1>3
    <2>3. QED BY <2>1, <2>2 DEF EatenOnce
  <1>14. DeadAreSilent(l)
    <2>1. ASSUME NEW j \in DOMAIN l, NEW k \in DOMAIN l, j < k,
                 l[j].type = "ELIMINATED", IsMove(l[k])
          PROVE  l[j].player_number # l[k].player_number
      <3>1. j # 1 /\ k # 1
        BY <1>4, <2>1 DEF IsMove
      <3>2. l[j].player_number = (j - 1) - 1 /\ l[k].player_number = (k - 1) - 1
        BY <1>8, <3>1
      <3>3. QED BY <1>1, <1>3, <2>1, <3>2
    <2>2. QED BY <2>1 DEF DeadAreSilent
  <1>15. IsOpen(l)
    BY <1>4, <1>8 DEF IsOpen
  <1>16. WellFormed(l)
    BY <1>9, <1>10, <1>11, <1>12, <1>13, <1>14, <1>15
       DEF WellFormed, OverComesLast, IsOpen
  <1>17. EatenBy(l) = { spawn[i] : i \in DOMAIN list }
    <2>1. ASSUME NEW k \in DOMAIN l, l[k].type = "PIXEL"
          PROVE  l[k].pixel \in { spawn[i] : i \in DOMAIN list }
      <3>1. k # 1
        BY <1>4, <2>1
      <3>2. QED BY <1>1, <1>7, <1>8, <2>1, <3>1
    <2>2. ASSUME NEW i \in DOMAIN list
          PROVE  spawn[i] \in EatenBy(l)
      <3> DEFINE T == { j \in DOMAIN list : spawn[j] = spawn[i] }
      <3>1. T \in SUBSET Nat /\ T # {}
        BY <1>1
      <3>2. PICK j \in T : \A x \in T : j <= x
        BY <3>1, LeastExists
      <3>3. j \in 1 .. n /\ spawn[j] = spawn[i]
        BY <1>1
      <3>4. ~IsTaken(spawn, j)
        <4>1. \A x \in 1 .. j - 1 : spawn[x] # spawn[j]
          <5> SUFFICES ASSUME NEW x \in 1 .. j - 1, spawn[x] = spawn[j] PROVE FALSE
            OBVIOUS
          <5>1. x \in DOMAIN list /\ ~(j <= x)
            BY <1>1, <3>3
          <5>2. x \in T
            BY <3>3, <5>1
          <5>3. QED BY <3>2, <5>1, <5>2
        <4>2. QED BY <4>1 DEF IsTaken, game_board_get
      <3>5. /\ j + 1 \in DOMAIN l /\ l[j + 1].type = "PIXEL"
            /\ l[j + 1].pixel = spawn[i]
        BY <1>6, <3>3, <3>4
      <3>6. QED BY <3>5 DEF EatenBy
    <2>3. QED BY <2>1, <2>2 DEF EatenBy
  <1>18. Eliminated(l) = { i - 1 : i \in { j \in DOMAIN list : IsTaken(spawn, j) } }
    <2> DEFINE dead == { i - 1 : i \in { j \in DOMAIN list : IsTaken(spawn, j) } }
    <2>1. ASSUME NEW p \in Eliminated(l)
          PROVE  p \in dead
      <3>1. PICK k \in DOMAIN l : l[k].type = "ELIMINATED" /\ l[k].player_number = p
        BY DEF Eliminated
      <3>2. k # 1
        BY <1>4, <3>1
      <3>3. k - 1 \in DOMAIN list /\ IsTaken(spawn, k - 1) /\ p = (k - 1) - 1
        BY <1>1, <1>7, <1>8, <3>1, <3>2
      <3>4. QED BY <3>3
    <2>2. ASSUME NEW p \in dead
          PROVE  p \in Eliminated(l)
      <3>1. PICK i \in DOMAIN list : IsTaken(spawn, i) /\ p = i - 1
        OBVIOUS
      <3>2. i + 1 \in DOMAIN l /\ l[i + 1].type = "ELIMINATED" /\ l[i + 1].player_number = p
        BY <1>1, <1>6, <3>1
      <3>3. p \in 0 .. PlayersOf(l) - 1
        BY <1>1, <1>5, <3>1
      <3>4. QED BY <3>2, <3>3 DEF Eliminated
    <2>3. QED BY <2>1, <2>2
  <1>19. ASSUME NEW i \in DOMAIN list, ~IsTaken(spawn, i)
         PROVE  LastPixel(l, i, spawn[i])
    <2>1. /\ i + 1 \in DOMAIN l /\ IsMove(l[i + 1]) /\ l[i + 1].player_number = i - 1
          /\ l[i + 1].type = "PIXEL" /\ l[i + 1].pixel = spawn[i]
      BY <1>1, <1>6, <1>19
    <2>2. ASSUME NEW j \in (i + 1) + 1 .. Len(l)
          PROVE  l[j].player_number # i - 1
      <3>1. j \in DOMAIN l /\ j # 1
        BY <1>1, <1>2, <1>3
      <3>2. l[j].player_number = (j - 1) - 1
        BY <1>8, <3>1
      <3>3. QED BY <1>1, <1>2, <3>2
    <2>3. QED BY <2>1, <2>2 DEF LastPixel
  <1>20. QED
    BY <1>2, <1>4, <1>15, <1>16, <1>17, <1>18, <1>19 DEF n

\* The start of a game starts its story.
LEMMA StoryStart ==
    ASSUME Counters, Story, game_tick_waiting
    PROVE  Story'
  <1>1. PICK list \in sort_players(waiting) :
        \E spawn \in [DOMAIN list -> Pixels] :
           /\ players' = Entering(list, spawn)
           /\ board' = board \cup { spawn[i] : i \in DOMAIN list }
           /\ next_event_no' = next_event_no + 1 + Len(list)
           /\ handle_round(StartEvents(list, spawn))
    BY DEF game_tick_waiting, game_board_set
  <1>2. PICK spawn \in [DOMAIN list -> Pixels] :
           /\ players' = Entering(list, spawn)
           /\ board' = board \cup { spawn[i] : i \in DOMAIN list }
           /\ next_event_no' = next_event_no + 1 + Len(list)
           /\ handle_round(StartEvents(list, spawn))
    BY <1>1
  <1>3. /\ waiting \in Seq(Player) /\ ~in_progress /\ in_progress'
        /\ players_ready \in Nat /\ players_ready > 1 /\ Len(waiting) = players_ready
        /\ next_event_no = 0 /\ board = {} /\ is_game_in_progress = in_progress
    BY GameAssumption
       DEF Counters, TypeOK, game_tick_waiting, CanStart, Story, GameOfLog
  <1>4. /\ list \in Seq(Player) /\ Len(list) = Len(waiting)
        /\ DOMAIN list = DOMAIN waiting
        /\ \A k \in DOMAIN list : list[k].status = {"WAITING"}
    <2>1. /\ list \in Seq(Player)
          /\ Len(list) = Len(waiting) /\ DOMAIN list = DOMAIN waiting
          /\ \E o \in [DOMAIN waiting -> DOMAIN waiting] :
                /\ \A k \in DOMAIN waiting : list[k] = waiting[o[k]]
                /\ \A j, k \in DOMAIN waiting : o[j] = o[k] => j = k
                /\ \A i \in DOMAIN waiting : \E k \in DOMAIN waiting : o[k] = i
      BY <1>3, SortProperties, Zenon
    <2>2. PICK o \in [DOMAIN waiting -> DOMAIN waiting] :
             \A k \in DOMAIN waiting : list[k] = waiting[o[k]]
      BY <2>1
    <2>3. QED BY <2>1, <2>2 DEF Counters, LobbyIsFresh
  <1> DEFINE l == StartEvents(list, spawn)
             new == Entering(list, spawn)
  <1>5. Len(list) \in Nat /\ Len(list) >= 2
    BY <1>3, <1>4
  <1>6. /\ l \in Seq(Event) /\ Len(l) = Len(list) + 1
        /\ WellFormed(l) /\ IsOpen(l)
        /\ l[1].players_names = NamesOf(list)
        /\ EatenBy(l) = { spawn[i] : i \in DOMAIN list }
        /\ Eliminated(l) = { i - 1 : i \in { j \in DOMAIN list : IsTaken(spawn, j) } }
        /\ \A i \in DOMAIN list : ~IsTaken(spawn, i) => LastPixel(l, i, spawn[i])
    BY <1>3, <1>4, <1>5, StartLog, Zenon
  <1>7. /\ DOMAIN new = DOMAIN list
        /\ \A i \in DOMAIN list :
              /\ SameIdentity(list[i], new[i])
              /\ new[i].pos = spawn[i]
              /\ new[i].status = list[i].status \cup {"IN_GAME"}
                                   \cup (IF IsTaken(spawn, i) THEN {"DEAD"} ELSE {})
    <2>1. list \in Seq(Player)
      BY <1>4
    <2>2. QED BY <2>1, EnteringProperties, Zenon
  <1>8. players' = new /\ log' = l /\ is_game_in_progress' = in_progress'
    BY <1>2, <1>3 DEF handle_round
  <1> HIDE DEF l, new
  <1>9. /\ DOMAIN new = DOMAIN list
        /\ \A i \in DOMAIN list :
              /\ "IN_GAME" \in new[i].status
              /\ "DEAD" \in new[i].status <=> IsTaken(spawn, i)
    <2>1. ASSUME NEW i \in DOMAIN list
          PROVE  /\ "IN_GAME" \in new[i].status
                 /\ "DEAD" \in new[i].status <=> IsTaken(spawn, i)
      <3>1. CASE IsTaken(spawn, i)
        BY <1>7, <3>1
      <3>2. CASE ~IsTaken(spawn, i)
        BY <1>4, <1>7, <3>2
      <3>3. QED BY <3>1, <3>2
    <2>2. QED BY <1>7, <2>1
  <1>10. GameOfLog'
    BY <1>3, <1>6, <1>8 DEF GameOfLog, IsOpen
  <1>11. LogTellsTheGame'
    <2>1. NamesOf(new) = NamesOf(list)
      BY <1>7 DEF NamesOf, SameIdentity
    <2>2. { i \in DOMAIN list : IsTaken(spawn, i) } = DOMAIN new \ Live(new)
      BY <1>9 DEF Live
    <2>3. Len(l) = next_event_no'
      BY <1>2, <1>3, <1>5, <1>6
    <2>4. board' = EatenBy(l)
      BY <1>2, <1>3, <1>6
    <2>5. Eliminated(l) = { i - 1 : i \in DOMAIN new \ Live(new) }
      BY <1>6, <2>2
    <2>6. QED
      BY <1>6, <1>8, <2>1, <2>3, <2>4, <2>5
         DEF LogTellsTheGame, EatenBy, NamesOf, Live
  <1>12. WormsAreWhereTheLogSays'
    <2>1. ASSUME NEW i \in Live(new)
          PROVE  "IN_GAME" \in new[i].status /\ LastPixel(l, i, new[i].pos)
      BY <1>6, <1>7, <1>9 DEF Live
    <2>2. QED
      BY <1>8, <2>1 DEF WormsAreWhereTheLogSays, LastPixel, Live
  <1>13. QED BY <1>10, <1>11, <1>12 DEF Story

-----------------------------------------------------------------------------
(* A round of the game *)

\* The pixels a round leads to, and the numbers of the worms it kills.
Reached(to) == { to[i] : i \in Movers(to) \ Crashed(to) }
CrashedNumbers(to) == { i - 1 : i \in Crashed(to) }

\* The moves are of worms that move, and each that survives has its pixel there.
IsRoundOf(moves, to) ==
    /\ \A k \in DOMAIN moves :
          \E i \in Movers(to) : moves[k].player_number = i - 1
    /\ \A i \in Movers(to) \ Crashed(to) : \E k \in DOMAIN moves :
          /\ moves[k].player_number = i - 1
          /\ moves[k].type = "PIXEL" /\ moves[k].pixel = to[i]

\* The moves of a round continue the log of the game: the board that
\* game_tick_in_progress reads is that of the log.
LEMMA RoundContinuesLog ==
    ASSUME Counters, Story, in_progress,
           NEW to \in Moves, NEW e \in Enumerations(Movers(to)),
           NEW moves, moves = MoveEvents(to, e)
    PROVE  /\ moves \in Seq(Event) /\ Len(moves) \in Nat /\ DOMAIN moves = 1 .. Len(moves)
           /\ Continues(log, moves)
           /\ EatenBy(moves) = Reached(to)
           /\ Fallen(moves) = CrashedNumbers(to)
           /\ IsRoundOf(moves, to)
  <1>1. /\ players \in Seq(Player) /\ next_event_no \in Nat /\ log \in Seq(Event)
        /\ Len(players) \in Nat /\ DOMAIN players = 1 .. Len(players)
        /\ Live(players) \in SUBSET (1 .. Len(players))
    BY PositionsFinite DEF Counters, TypeOK
  <1>2. /\ Movers(to) \in SUBSET Live(players) /\ Crashed(to) \in SUBSET Movers(to)
        /\ DOMAIN to = Live(players)
    BY <1>1, MovedProperties
  <1>3. /\ e \in Seq(Movers(to)) /\ DOMAIN e = 1 .. Cardinality(Movers(to))
        /\ Cardinality(Movers(to)) \in Nat
        /\ \A j, k \in DOMAIN e : e[j] = e[k] => j = k
        /\ \A i \in Movers(to) : \E k \in DOMAIN e : e[k] = i
    <2> DEFINE n == Len(players)
               M == Movers(to)
    <2>1. n \in Nat /\ M \in SUBSET (1 .. n) /\ e \in Enumerations(M)
      BY <1>1, <1>2
    <2> HIDE DEF n, M
    <2>2. /\ e \in Seq(M) /\ DOMAIN e = 1 .. Cardinality(M) /\ Cardinality(M) \in Nat
          /\ \A j, k \in DOMAIN e : e[j] = e[k] => j = k
          /\ \A i \in M : \E k \in DOMAIN e : e[k] = i
      BY <2>1, EnumerationProperties
    <2>3. QED BY <2>2 DEF M
  <1>4. \A k \in DOMAIN e : e[k] \in Movers(to) /\ e[k] \in Live(players)
    BY <1>2, <1>3, ElementOfSeq
  <1>5. /\ moves \in Seq(Event) /\ DOMAIN moves = DOMAIN e
        /\ \A k \in DOMAIN e :
              moves[k] = IF e[k] \in Crashed(to)
                         THEN EliminatedEvent(next_event_no + k - 1, e[k] - 1)
                         ELSE PixelEvent(next_event_no + k - 1, e[k] - 1, to[e[k]])
    BY <1>1, MoveEventsType
  <1>6. Len(moves) \in Nat /\ DOMAIN moves = 1 .. Len(moves)
    BY <1>5, LenProperties
  <1>7. ASSUME NEW k \in DOMAIN moves
        PROVE  /\ moves[k].event_no = next_event_no + k - 1
               /\ moves[k].player_number = e[k] - 1
               /\ IsMove(moves[k])
               /\ e[k] \in Crashed(to) => moves[k].type = "ELIMINATED"
               /\ e[k] \notin Crashed(to) => /\ moves[k].type = "PIXEL"
                                             /\ moves[k].pixel = to[e[k]]
    <2>1. CASE e[k] \in Crashed(to)
      <3>1. moves[k] = EliminatedEvent(next_event_no + k - 1, e[k] - 1)
        BY <1>5, <2>1
      <3>2. QED BY <2>1, <3>1 DEF EliminatedEvent, IsMove
    <2>2. CASE e[k] \notin Crashed(to)
      <3>1. moves[k] = PixelEvent(next_event_no + k - 1, e[k] - 1, to[e[k]])
        BY <1>5, <2>2
      <3>2. QED BY <2>2, <3>1 DEF PixelEvent, IsMove
    <2>3. QED BY <2>1, <2>2
  <1>8. \A k \in DOMAIN moves :
           /\ moves[k].type = "PIXEL" <=> e[k] \notin Crashed(to)
           /\ moves[k].type = "ELIMINATED" <=> e[k] \in Crashed(to)
    BY <1>7
  <1>9. /\ WellFormed(log) /\ Len(log) = next_event_no
        /\ log[1].players_names = NamesOf(players)
        /\ board = EatenBy(log)
        /\ Eliminated(log) = { i - 1 : i \in DOMAIN players \ Live(players) }
    BY DEF Story, LogTellsTheGame, EatenBy
  <1>10. PlayersOf(log) = Len(players)
    <2>1. NamesOf(players) \in [1 .. Len(players) -> {players[i].player_name : i \in DOMAIN players}]
      BY <1>1 DEF NamesOf
    <2>2. Len(NamesOf(players)) = Len(players)
      BY <1>1, <2>1, FunctionIsSeq
    <2>3. QED BY <1>9, <2>2 DEF PlayersOf
  <1>11. \A i \in Movers(to) \ Crashed(to) :
            /\ to[i] \notin board
            /\ \A j \in Movers(to) : j < i => to[j] # to[i]
    BY DEF Crashed, Crashes, game_board_get
  <1>12. ASSUME NEW k \in DOMAIN moves
         PROVE  /\ moves[k].event_no = Len(log) + k - 1
                /\ IsMove(moves[k])
                /\ moves[k].player_number \in (0 .. PlayersOf(log) - 1) \ Eliminated(log)
                /\ moves[k].type = "PIXEL" => moves[k].pixel \notin EatenBy(log)
    <2>1. e[k] \in Movers(to) /\ e[k] \in Live(players) /\ e[k] \in 1 .. Len(players)
      BY <1>1, <1>4, <1>5
    <2>2. e[k] - 1 \in 0 .. PlayersOf(log) - 1
      BY <1>1, <1>10, <2>1
    <2>3. e[k] - 1 \notin Eliminated(log)
      <3> SUFFICES ASSUME NEW i \in DOMAIN players \ Live(players), e[k] - 1 = i - 1
                   PROVE  FALSE
        BY <1>9
      <3>1. e[k] = i
        BY <1>1, <2>1
      <3>2. QED BY <2>1, <3>1
    <2>4. moves[k].type = "PIXEL" => moves[k].pixel \notin EatenBy(log)
      BY <1>7, <1>8, <1>9, <1>11, <2>1
    <2>5. QED BY <1>7, <1>9, <2>2, <2>3, <2>4
  <1>13. ASSUME NEW j \in DOMAIN moves, NEW k \in DOMAIN moves,
                moves[j].player_number = moves[k].player_number
         PROVE  j = k
    <2>1. e[j] - 1 = e[k] - 1
      BY <1>7, <1>13
    <2>2. e[j] \in 1 .. Len(players) /\ e[k] \in 1 .. Len(players)
      BY <1>1, <1>4, <1>5
    <2>3. e[j] = e[k]
      BY <1>1, <2>1, <2>2
    <2>4. QED BY <1>3, <1>5, <2>3
  <1>14. ASSUME NEW j \in DOMAIN moves, NEW k \in DOMAIN moves,
                moves[j].type = "PIXEL", moves[k].type = "PIXEL",
                moves[j].pixel = moves[k].pixel
         PROVE  j = k
    <2>1. /\ e[j] \in Movers(to) \ Crashed(to) /\ e[k] \in Movers(to) \ Crashed(to)
          /\ to[e[j]] = to[e[k]]
      BY <1>4, <1>5, <1>7, <1>8, <1>14
    <2>2. e[j] \in 1 .. Len(players) /\ e[k] \in 1 .. Len(players)
      BY <1>1, <1>4, <1>5
    <2>3. ~(e[j] < e[k]) /\ ~(e[k] < e[j])
      BY <1>11, <2>1
    <2>4. e[j] = e[k]
      BY <1>1, <2>2, <2>3
    <2>5. QED BY <1>3, <1>5, <2>4
  <1>15. Continues(log, moves)
    BY <1>12, <1>13, <1>14 DEF Continues
  <1>16. EatenBy(moves) = Reached(to)
    <2>1. ASSUME NEW k \in DOMAIN moves, moves[k].type = "PIXEL"
          PROVE  moves[k].pixel \in Reached(to)
      BY <1>4, <1>5, <1>7, <1>8, <2>1 DEF Reached
    <2>2. ASSUME NEW i \in Movers(to) \ Crashed(to)
          PROVE  to[i] \in EatenBy(moves)
      <3>1. PICK k \in DOMAIN moves : e[k] = i
        BY <1>3, <1>5
      <3>2. moves[k].type = "PIXEL" /\ moves[k].pixel = to[i]
        BY <1>7, <3>1
      <3>3. QED BY <3>2 DEF EatenBy
    <2>3. QED BY <2>1, <2>2 DEF EatenBy, Reached
  <1>17. Fallen(moves) = CrashedNumbers(to)
    <2>1. ASSUME NEW p \in Fallen(moves)
          PROVE  p \in CrashedNumbers(to)
      <3>1. PICK k \in DOMAIN moves : moves[k].type = "ELIMINATED" /\ p = moves[k].player_number
        BY DEF Fallen
      <3>2. e[k] \in Crashed(to) /\ p = e[k] - 1
        BY <1>7, <1>8, <3>1
      <3>3. QED BY <3>2 DEF CrashedNumbers
    <2>2. ASSUME NEW i \in Crashed(to)
          PROVE  i - 1 \in Fallen(moves)
      <3>1. PICK k \in DOMAIN moves : e[k] = i
        BY <1>2, <1>3, <1>5
      <3>2. moves[k].type = "ELIMINATED" /\ moves[k].player_number = i - 1
        BY <1>7, <3>1
      <3>3. QED BY <3>2 DEF Fallen
    <2>3. QED BY <2>1, <2>2 DEF CrashedNumbers
  <1>18. \A k \in DOMAIN moves : \E i \in Movers(to) : moves[k].player_number = i - 1
    BY <1>4, <1>5, <1>7
  <1>19. ASSUME NEW i \in Movers(to) \ Crashed(to)
         PROVE  \E k \in DOMAIN moves :
                   /\ moves[k].player_number = i - 1
                   /\ moves[k].type = "PIXEL" /\ moves[k].pixel = to[i]
    <2>1. PICK k \in DOMAIN moves : e[k] = i
      BY <1>3, <1>5
    <2>2. QED BY <1>7, <2>1
  <1>20. QED BY <1>5, <1>6, <1>15, <1>16, <1>17, <1>18, <1>19 DEF IsRoundOf

\* After a round, the log with its moves tells what the worms have become.
LEMMA RoundTells ==
    ASSUME Counters, Story, in_progress,
           NEW to \in Moves, NEW e \in Enumerations(Movers(to)),
           NEW moves, moves = MoveEvents(to, e),
           NEW l, l = log \o moves, NEW list, list = Moved(to)
    PROVE  /\ moves \in Seq(Event) /\ Len(moves) \in Nat
           /\ l \in Seq(Event) /\ Len(l) = next_event_no + Len(moves)
           /\ WellFormed(l) /\ IsOpen(l)
           /\ list \in Seq(Player)
           /\ l[1].players_names = NamesOf(list)
           /\ EatenBy(l) = board \cup Reached(to)
           /\ Eliminated(l) = { i - 1 : i \in DOMAIN list \ Live(list) }
           /\ \A i \in Live(list) : /\ "IN_GAME" \in list[i].status
                                    /\ LastPixel(l, i, list[i].pos)
  <1>1. /\ players \in Seq(Player) /\ next_event_no \in Nat /\ log \in Seq(Event)
        /\ Len(players) \in Nat /\ DOMAIN players = 1 .. Len(players)
        /\ Live(players) \in SUBSET (1 .. Len(players))
    BY PositionsFinite DEF Counters, TypeOK
  <1>2. /\ Movers(to) \in SUBSET Live(players) /\ Crashed(to) \in SUBSET Movers(to)
        /\ list \in Seq(Player) /\ DOMAIN list = DOMAIN players
        /\ \A i \in DOMAIN players : SameIdentity(players[i], list[i])
        /\ \A i \in DOMAIN players :
              list[i].status
                = players[i].status \cup (IF i \in Crashed(to) THEN {"DEAD"} ELSE {})
        /\ \A i \in DOMAIN players :
              list[i].pos = IF i \in Live(players) \ Crashed(to) THEN to[i] ELSE players[i].pos
        /\ Live(list) = Live(players) \ Crashed(to)
    BY <1>1, MovedProperties
  <1>3. /\ moves \in Seq(Event) /\ Len(moves) \in Nat /\ DOMAIN moves = 1 .. Len(moves)
        /\ Continues(log, moves)
        /\ EatenBy(moves) = Reached(to)
        /\ Fallen(moves) = CrashedNumbers(to)
        /\ IsRoundOf(moves, to)
    BY RoundContinuesLog, Zenon
  <1> USE DEF IsRoundOf
  <1>4. /\ WellFormed(log) /\ IsOpen(log) /\ Len(log) = next_event_no
        /\ log[1].players_names = NamesOf(players)
        /\ board = EatenBy(log)
        /\ Eliminated(log) = { i - 1 : i \in DOMAIN players \ Live(players) }
    BY DEF Story, LogTellsTheGame, EatenBy, GameOfLog
  <1>5. /\ WellFormed(l) /\ IsOpen(l) /\ l[1] = log[1]
        /\ EatenBy(l) = EatenBy(log) \cup EatenBy(moves)
        /\ Eliminated(l)
             = Eliminated(log) \cup Fallen(moves)
    BY <1>1, <1>3, <1>4, MovesExtendLog, Zenon
  <1> DEFINE n == Len(log)
  <1>6. /\ n \in Nat /\ l \in Seq(Event) /\ Len(l) = n + Len(moves)
        /\ \A i \in 1 .. n + Len(moves) : l[i] = IF i <= n THEN log[i] ELSE moves[i - n]
    BY <1>1, <1>3, ConcatProperties, LenProperties
  <1>7. DOMAIN l = 1 .. n + Len(moves) /\ DOMAIN log = 1 .. n
    BY <1>1, <1>6, LenProperties
  <1> HIDE DEF n
  <1>8. NamesOf(list) = NamesOf(players)
    BY <1>2 DEF NamesOf, SameIdentity
  <1>9. Eliminated(l) = { i - 1 : i \in DOMAIN list \ Live(list) }
    <2>1. DOMAIN list \ Live(list) = (DOMAIN players \ Live(players)) \cup Crashed(to)
      BY <1>1, <1>2
    <2>2. Eliminated(l) = { i - 1 : i \in DOMAIN players \ Live(players) }
                            \cup CrashedNumbers(to)
      BY <1>3, <1>4, <1>5
    <2>3. QED BY <2>1, <2>2 DEF CrashedNumbers
  <1>10. ASSUME NEW i \in Live(list)
         PROVE  "IN_GAME" \in list[i].status /\ LastPixel(l, i, list[i].pos)
    <2>1. /\ i \in Live(players) \ Crashed(to) /\ i \in 1 .. Len(players)
          /\ i \in DOMAIN players /\ list[i].pos = to[i]
          /\ \A k \in DOMAIN moves : \A j \in Movers(to) :
                moves[k].player_number = j - 1 => j \in 1 .. Len(players)
      BY <1>1, <1>2
    <2>2. "IN_GAME" \in players[i].status /\ LastPixel(log, i, players[i].pos)
      BY <2>1, WormsByLastPixel DEF Story
    <2>3. "IN_GAME" \in list[i].status
      BY <1>2, <2>1, <2>2
    <2>4. CASE i \in Movers(to)
      <3>1. PICK k \in DOMAIN moves : /\ moves[k].player_number = i - 1
                                      /\ moves[k].type = "PIXEL" /\ moves[k].pixel = to[i]
        BY <1>3, <2>1, <2>4
      <3>2. n + k \in DOMAIN l /\ ~(n + k <= n) /\ n + k - n = k
        BY <1>3, <1>6, <1>7
      <3>3. l[n + k] = moves[k]
        BY <1>6, <1>7, <3>2
      <3>4. ASSUME NEW j \in (n + k) + 1 .. Len(l)
            PROVE  l[j].player_number # i - 1
        <4>1. j - n \in DOMAIN moves /\ j - n # k /\ j \in DOMAIN l /\ ~(j <= n)
          BY <1>3, <1>6, <1>7
        <4>2. l[j] = moves[j - n]
          BY <1>6, <1>7, <4>1
        <4>3. moves[j - n].player_number # moves[k].player_number
          BY <1>3, <4>1 DEF Continues
        <4>4. QED BY <3>1, <4>2, <4>3
      <3>5. IsMove(l[n + k])
        BY <3>1, <3>3 DEF IsMove
      <3>6. LastPixel(l, i, to[i])
        BY <3>1, <3>2, <3>3, <3>4, <3>5 DEF LastPixel
      <3>7. QED BY <2>1, <2>3, <3>6
    <2>5. CASE i \notin Movers(to)
      <3>1. to[i] = players[i].pos
        <4>1. i \in DOMAIN to
          BY <2>1, MovedProperties, <1>1
        <4>2. QED BY <2>5, <4>1 DEF Movers
      <3>2. PICK k \in DOMAIN log :
               /\ IsMove(log[k]) /\ log[k].player_number = i - 1
               /\ \A j \in k + 1 .. Len(log) :
                      IsMove(log[j]) => log[j].player_number # i - 1
               /\ log[k].type = "PIXEL" /\ log[k].pixel = players[i].pos
        BY <2>2 DEF LastPixel
      <3>3. k \in DOMAIN l /\ l[k] = log[k]
        BY <1>3, <1>6, <1>7
      <3>4. ASSUME NEW j \in k + 1 .. Len(l), IsMove(l[j])
            PROVE  l[j].player_number # i - 1
        <4>1. CASE j <= n
          <5>1. j \in k + 1 .. Len(log) /\ j \in DOMAIN l
            BY <1>3, <1>6, <1>7, <4>1 DEF n
          <5>2. l[j] = log[j]
            BY <1>6, <1>7, <4>1, <5>1
          <5>3. QED BY <3>2, <3>4, <5>1, <5>2
        <4>2. CASE ~(j <= n)
          <5>1. j - n \in DOMAIN moves /\ j \in DOMAIN l
            BY <1>3, <1>6, <1>7, <4>2
          <5>2. l[j] = moves[j - n]
            BY <1>6, <1>7, <4>2, <5>1
          <5>3. PICK x \in Movers(to) : moves[j - n].player_number = x - 1
            BY <1>3, <5>1
          <5>4. x \in 1 .. Len(players) /\ x # i
            BY <1>1, <1>2, <2>5
          <5>5. x - 1 # i - 1
            BY <1>1, <2>1, <5>4
          <5>6. QED BY <5>2, <5>3, <5>5
        <4>3. QED BY <4>1, <4>2
      <3>5. LastPixel(l, i, to[i])
        BY <3>1, <3>2, <3>3, <3>4 DEF LastPixel
      <3>6. QED BY <2>1, <2>3, <3>5
    <2>6. QED BY <2>4, <2>5
  <1>11. QED BY <1>2, <1>3, <1>4, <1>5, <1>6, <1>8, <1>9, <1>10 DEF n

\* A round that goes on extends the log by its moves.
LEMMA StoryGoesOn ==
    ASSUME Counters, Story, in_progress,
           NEW to \in Moves, NEW e \in Enumerations(Movers(to)),
           GoOn(to, MoveEvents(to, e))
    PROVE  Story' /\ log' = log \o MoveEvents(to, e)
  <1> DEFINE moves == MoveEvents(to, e)
             l == log \o moves
             list == Moved(to)
  <1>1. /\ moves \in Seq(Event) /\ Len(moves) \in Nat
        /\ l \in Seq(Event) /\ Len(l) = next_event_no + Len(moves)
        /\ WellFormed(l) /\ IsOpen(l)
        /\ list \in Seq(Player)
        /\ l[1].players_names = NamesOf(list)
        /\ EatenBy(l) = board \cup Reached(to)
        /\ Eliminated(l) = { i - 1 : i \in DOMAIN list \ Live(list) }
        /\ \A i \in Live(list) : /\ "IN_GAME" \in list[i].status
                                 /\ LastPixel(l, i, list[i].pos)
    BY RoundTells, Zenon
  <1>2. /\ players' = list
        /\ board' = board \cup Reached(to)
        /\ next_event_no' = next_event_no + Len(moves)
        /\ in_progress' = in_progress
        /\ handle_round(moves)
    BY DEF GoOn, game_board_set, Reached
  <1>3. is_game_in_progress = in_progress
    BY DEF Story, GameOfLog
  <1>4. log' = l /\ is_game_in_progress' = in_progress'
    BY <1>2, <1>3 DEF handle_round
  <1> HIDE DEF moves, l, list
  <1>5. GameOfLog'
    BY <1>1, <1>2, <1>4 DEF GameOfLog, IsOpen
  <1>6. LogTellsTheGame'
    BY <1>1, <1>2, <1>4 DEF LogTellsTheGame, EatenBy, NamesOf, Live
  <1>7. WormsAreWhereTheLogSays'
    BY <1>1, <1>2, <1>4 DEF WormsAreWhereTheLogSays, LastPixel, Live
  <1>8. QED BY <1>4, <1>5, <1>6, <1>7 DEF Story, l, moves

\* A round that decides the game extends the log by its moves and GAME_OVER.
LEMMA StoryEnds ==
    ASSUME Counters, Story, in_progress,
           NEW to \in Moves, NEW e \in Enumerations(Movers(to)),
           Finish(to, MoveEvents(to, e))
    PROVE  /\ Story'
           /\ log' = log \o Append(MoveEvents(to, e),
                                   GameOverEvent(next_event_no + Len(MoveEvents(to, e))))
           /\ MoveEvents(to, e) \in Seq(Event)
  <1> DEFINE moves == MoveEvents(to, e)
             l == log \o moves
             list == Moved(to)
             over == GameOverEvent(next_event_no + Len(moves))
  <1>1. /\ moves \in Seq(Event) /\ Len(moves) \in Nat
        /\ l \in Seq(Event) /\ Len(l) = next_event_no + Len(moves)
        /\ WellFormed(l) /\ IsOpen(l)
        /\ list \in Seq(Player)
        /\ l[1].players_names = NamesOf(list)
        /\ EatenBy(l) = board \cup Reached(to)
        /\ Eliminated(l) = { i - 1 : i \in DOMAIN list \ Live(list) }
        /\ \A i \in Live(list) : /\ "IN_GAME" \in list[i].status
                                 /\ LastPixel(l, i, list[i].pos)
    BY RoundTells, Zenon
  <1>2. /\ in_progress' = FALSE /\ next_event_no' = 0 /\ board' = {} /\ players' = <<>>
        /\ players_alive - Cardinality(Crashed(to)) <= 1
        /\ handle_round(Append(moves, over))
    BY DEF Finish, game_restart, game_board_create, IsDecided
  <1>3. is_game_in_progress = in_progress
    BY DEF Story, GameOfLog
  <1>4. log' = log \o Append(moves, over) /\ is_game_in_progress' = in_progress'
    BY <1>2, <1>3 DEF handle_round
  <1>5. /\ players \in Seq(Player) /\ next_event_no \in Nat /\ log \in Seq(Event)
        /\ players_alive = Cardinality(Live(players))
    BY DEF Counters, TypeOK, CountsAlive
  <1>6. over \in Event
    <2>1. next_event_no + Len(moves) \in Nat
      BY <1>1, <1>5
    <2>2. QED BY <2>1 DEF Event, GameOverEvent
  <1>7. log \o Append(moves, over) = Append(l, over)
    <2> HIDE DEF moves, over
    <2>1. /\ <<over>> \in Seq(Event)
          /\ Append(moves, over) = moves \o <<over>>
          /\ Append(l, over) = l \o <<over>>
      BY <1>1, <1>6, AppendIsConcat
    <2>2. (log \o moves) \o <<over>> = log \o (moves \o <<over>>)
      <3>1. log \in Seq(Event) /\ moves \in Seq(Event)
        BY <1>1, <1>5
      <3>2. QED BY <2>1, <3>1, ConcatAssociative
    <2>3. QED BY <2>1, <2>2
  <1>8. over = GameOverEvent(Len(l))
    BY <1>1
  <1>9. Cardinality(Live(list)) <= 1 /\ PlayersOf(l) = Len(list)
    <2>1. /\ Live(list) = Live(players) \ Crashed(to)
          /\ Crashed(to) \in SUBSET Live(players)
      BY <1>5, MovedProperties
    <2>2. IsFiniteSet(Live(players)) /\ Live(players) \cap Crashed(to) = Crashed(to)
      BY <1>5, <2>1, PositionsFinite
    <2>3. Cardinality(Live(players) \ Crashed(to))
            = Cardinality(Live(players)) - Cardinality(Live(players) \cap Crashed(to))
      BY <2>2, FS_Difference
    <2>4. Len(NamesOf(list)) = Len(list)
      <3>1. Len(list) \in Nat /\ DOMAIN list = 1 .. Len(list)
        BY <1>1, LenProperties
      <3>2. NamesOf(list) \in [1 .. Len(list) -> {list[i].player_name : i \in DOMAIN list}]
        BY <3>1 DEF NamesOf
      <3>3. QED BY <3>1, <3>2, FunctionIsSeq
    <2>5. QED BY <1>1, <1>2, <1>5, <2>1, <2>2, <2>3, <2>4 DEF PlayersOf
  <1> HIDE DEF moves, l, list
  <1>10. Cardinality(Eliminated(l)) >= PlayersOf(l) - 1
    <2> DEFINE D == DOMAIN list \ Live(list)
               f == [i \in D |-> i - 1]
    <2>1. /\ Len(list) \in Nat /\ DOMAIN list = 1 .. Len(list)
          /\ IsFiniteSet(DOMAIN list) /\ Cardinality(DOMAIN list) = Len(list)
          /\ Live(list) \in SUBSET DOMAIN list
          /\ Cardinality(Live(list)) \in Nat
          /\ Cardinality(D) \in Nat
      BY <1>1, PositionsFinite
    <2>2. Cardinality(D) = Len(list) - Cardinality(Live(list))
      <3>1. DOMAIN list \cap Live(list) = Live(list)
        BY <2>1
      <3>2. QED BY <2>1, <3>1, FS_Difference
    <2>3. IsFiniteSet(Eliminated(l))
      <3>1. Eliminated(l) \in SUBSET (0 .. PlayersOf(l) - 1)
        BY DEF Eliminated
      <3>2. PlayersOf(l) \in Nat
        BY <1>1, PlayersOfLog
      <3>3. IsFiniteSet(0 .. PlayersOf(l) - 1)
        BY <3>2, FS_Interval
      <3>4. QED BY <3>1, <3>3, FS_Subset
    <2>4. f \in Injection(D, Eliminated(l))
      <3>1. f \in [D -> Eliminated(l)]
        BY <1>1
      <3>2. \A x, y \in D : f[x] = f[y] => x = y
        BY <2>1
      <3>3. QED BY <3>1, <3>2 DEF Injection, IsInjective
    <2>5. Cardinality(D) <= Cardinality(Eliminated(l)) /\ Cardinality(Eliminated(l)) \in Nat
      BY <2>3, <2>4, FS_Injection, FS_CardinalityType
    <2>6. QED BY <1>9, <2>1, <2>2, <2>5
  <1>11. WellFormed(Append(l, over)) /\ IsOver(Append(l, over))
    BY <1>1, <1>8, <1>10, OverEndsLog
  <1>12. GameOfLog'
    BY <1>2, <1>4, <1>7, <1>11 DEF GameOfLog
  <1>13. Live(players') = {}
    BY <1>2 DEF Live
  <1>14. LogTellsTheGame' /\ WormsAreWhereTheLogSays'
    BY <1>2, <1>13 DEF LogTellsTheGame, WormsAreWhereTheLogSays, Live
  <1>15. QED BY <1>1, <1>4, <1>12, <1>14 DEF Story, moves

-----------------------------------------------------------------------------
(* Theorems *)

\* Every step keeps the story.
LEMMA StoryNext == Counters /\ Story /\ [Next]_vars => Story'
  <1> SUFFICES ASSUME Counters, Story, [Next]_vars PROVE Story'
    OBVIOUS
  <1>1. ASSUME \/ \E entrant \in Entrants : game_add_player(entrant[1], entrant[2])
               \/ \E sid \in Session : game_remove_player(sid)
               \/ \E sid \in Session, turn \in Turn : game_set_turn_direction(sid, turn)
        PROVE  Story'
    BY <1>1, ClientsKeepWorms, StoryKept
  <1>2. CASE game_tick_waiting
    BY <1>2, StoryStart
  <1>3. CASE game_tick_in_progress
    <2>1. PICK to \in Moves : \E e \in Enumerations(Movers(to)) :
             GoOn(to, MoveEvents(to, e)) \/ Finish(to, MoveEvents(to, e))
      BY <1>3 DEF game_tick_in_progress
    <2>2. in_progress
      BY <1>3 DEF game_tick_in_progress
    <2>3. QED BY <2>1, <2>2, StoryGoesOn, StoryEnds
  <1>4. CASE UNCHANGED vars
    <2>1. /\ SameWorms(players, players')
          /\ UNCHANGED <<in_progress, next_event_no, board, log, is_game_in_progress>>
      BY <1>4 DEF vars, lists, events, SameWorms
    <2>2. QED BY <2>1, StoryKept
  <1>5. QED BY <1>1, <1>2, <1>3, <1>4 DEF Next, Round

\* Story is an invariant of the game.
THEOREM StoryInvariant == Spec => []Story
  BY StoryInit, StoryNext, CountersInvariant, PTL DEF Spec

\* During a game the log of the storage tells the game.
THEOREM LogTellsTheGameCorrect == Spec => []LogTellsTheGame
  <1>1. Story => LogTellsTheGame
    BY DEF Story
  <1>2. QED BY <1>1, StoryInvariant, PTL

\* A worm alive is in the pixel of its last event.
THEOREM WormsAreWhereTheLogSaysCorrect == Spec => []WormsAreWhereTheLogSays
  <1>1. Story => WormsAreWhereTheLogSays
    BY DEF Story
  <1>2. QED BY <1>1, StoryInvariant, PTL

\* The storage is reset when a game starts and keeps the whole of the last one.
THEOREM StorageFollowsGameCorrect == Spec => []StorageFollowsGame
  <1>1. Story => StorageFollowsGame
    BY DEF Story, GameOfLog, StorageFollowsGame
  <1>2. QED BY <1>1, StoryInvariant, PTL

\* A log that is open is not over.
LEMMA OpenIsNotOver ==
    ASSUME NEW l \in Seq(Event), WellFormed(l), IsOpen(l)
    PROVE  l # <<>> /\ ~IsOver(l)
  <1>1. Len(l) \in Nat /\ DOMAIN l = 1 .. Len(l) /\ 1 \in DOMAIN l
    BY PlayersOfLog
  <1>2. Len(l) \in DOMAIN l
    BY <1>1
  <1>3. QED BY <1>1, <1>2, EmptySeq DEF IsOpen, IsOver

\* The abstract specification's definitions, in this module's terms.
LEMMA FollowsNext ==
    /\ Follows!Init <=> game_id = 0 /\ log = <<>>
    /\ Follows!Begin <=> /\ log = <<>> \/ IsOver(log)
                         /\ game_id' \in GameId
                         /\ WellFormed(log')
                         /\ ~IsOver(log')
    /\ Follows!Extend <=> /\ log # <<>> /\ ~IsOver(log)
                          /\ IsStrictPrefix(log, log')
                          /\ WellFormed(log')
                          /\ UNCHANGED game_id
    /\ UNCHANGED Follows!logVars <=> UNCHANGED <<game_id, log>>
  <1>1. ASSUME NEW l
        PROVE  (Follows!WellFormed(l) <=> WellFormed(l)) /\ (Follows!IsOver(l) <=> IsOver(l))
    <2>1. Follows!PlayersOf(l) = PlayersOf(l)
      BY DEF Follows!PlayersOf, PlayersOf
    <2>2. Follows!Eliminated(l) = Eliminated(l)
      BY <2>1 DEF Follows!Eliminated, Eliminated
    <2>3. \A event : Follows!IsMove(event) <=> IsMove(event)
      BY DEF Follows!IsMove, IsMove
    <2>4. (Follows!Numbered(l) <=> Numbered(l)) /\ (Follows!EatenOnce(l) <=> EatenOnce(l))
      BY DEF Follows!Numbered, Numbered, Follows!EatenOnce, EatenOnce
    <2>5. Follows!Opened(l) <=> Opened(l)
      BY <2>1 DEF Follows!Opened, Opened
    <2>6. Follows!EveryoneEnters(l) <=> EveryoneEnters(l)
      BY <2>1, <2>3 DEF Follows!EveryoneEnters, EveryoneEnters
    <2>7. Follows!MentionsPlayers(l) <=> MentionsPlayers(l)
      BY <2>1, <2>3 DEF Follows!MentionsPlayers, MentionsPlayers
    <2>8. Follows!DeadAreSilent(l) <=> DeadAreSilent(l)
      BY <2>3 DEF Follows!DeadAreSilent, DeadAreSilent
    <2>9. Follows!OverComesLast(l) <=> OverComesLast(l)
      <3>1. Follows!Cardinality(Eliminated(l)) = Cardinality(Eliminated(l))
        BY DEF Follows!Cardinality, Cardinality
      <3>2. QED BY <2>1, <2>2, <3>1 DEF Follows!OverComesLast, OverComesLast
    <2>10. Follows!IsOver(l) <=> IsOver(l)
      BY DEF Follows!IsOver, IsOver
    <2>11. QED
      BY <2>4, <2>5, <2>6, <2>7, <2>8, <2>9, <2>10 DEF Follows!WellFormed, WellFormed
  <1>2. (Follows!WellFormed(log') <=> WellFormed(log')) /\ (Follows!IsOver(log') <=> IsOver(log'))
    BY <1>1
  <1>3. Follows!IsStrictPrefix(log, log') <=> IsStrictPrefix(log, log')
    BY DEF Follows!IsStrictPrefix, Follows!IsPrefix, IsStrictPrefix, IsPrefix
  <1>4. QED
    BY <1>1, <1>2, <1>3 DEF Follows!Init, Follows!Begin, Follows!Extend, Follows!logVars

\* The start of a game begins a log.
LEMMA StartBegins ==
    ASSUME Counters, Story, game_tick_waiting, Story', TypeOK'
    PROVE  Follows!Begin
  <1>1. ~in_progress /\ in_progress' /\ game_id' \in GameId
    BY DEF game_tick_waiting
  <1>2. log = <<>> \/ IsOver(log)
    BY <1>1 DEF Story, GameOfLog
  <1>3. WellFormed(log') /\ IsOpen(log') /\ log' \in Seq(Event)
    BY <1>1 DEF Story, GameOfLog, LogTellsTheGame, TypeOK
  <1>4. QED BY <1>1, <1>2, <1>3, OpenIsNotOver, FollowsNext

\* A round extends the log or, when no worm reaches another pixel, leaves it.
LEMMA RoundExtends ==
    ASSUME Counters, Story, game_tick_in_progress, Story', TypeOK'
    PROVE  Follows!Extend \/ UNCHANGED <<game_id, log>>
  <1>1. in_progress /\ UNCHANGED game_id
    BY DEF game_tick_in_progress
  <1>2. log \in Seq(Event) /\ log' \in Seq(Event)
    BY DEF Counters, TypeOK
  <1>3. WellFormed(log) /\ log # <<>> /\ ~IsOver(log)
    BY <1>1, <1>2, OpenIsNotOver DEF Story, GameOfLog, LogTellsTheGame
  <1>4. PICK to \in Moves : \E x \in Enumerations(Movers(to)) :
           GoOn(to, MoveEvents(to, x)) \/ Finish(to, MoveEvents(to, x))
    BY DEF game_tick_in_progress
  <1>5. PICK e \in Enumerations(Movers(to)) :
           GoOn(to, MoveEvents(to, e)) \/ Finish(to, MoveEvents(to, e))
    BY <1>4
  <1> DEFINE moves == MoveEvents(to, e)
             over == GameOverEvent(next_event_no + Len(moves))
  <1>6. CASE GoOn(to, moves)
    <2>1. log' = log \o moves /\ in_progress'
      <3>1. log' = log \o moves
        BY <1>1, <1>5, <1>6, StoryGoesOn
      <3>2. in_progress' = in_progress
        BY <1>6 DEF GoOn
      <3>3. QED BY <1>1, <3>1, <3>2
    <2>2. moves \in Seq(Event) /\ Len(moves) \in Nat
      BY <1>1, <1>5, RoundContinuesLog, Zenon
    <2>3. WellFormed(log')
      BY <2>1 DEF Story, LogTellsTheGame
    <2> HIDE DEF moves
    <2>4. CASE moves = <<>>
      <3>1. log \o <<>> = log
        BY <1>2, ConcatEmptySeq
      <3>2. QED BY <1>1, <2>1, <2>4, <3>1
    <2>5. CASE moves # <<>>
      <3>1. Len(moves) > 0
        BY <2>2, <2>5, EmptySeq
      <3>2. IsStrictPrefix(log, log')
        BY <1>2, <2>1, <2>2, <3>1, LongerLog
      <3>3. QED BY <1>1, <1>3, <2>3, <3>2, FollowsNext
    <2>6. QED BY <2>4, <2>5
  <1>7. CASE Finish(to, moves)
    <2>1. log' = log \o Append(moves, over) /\ moves \in Seq(Event)
      BY <1>1, <1>5, <1>7, StoryEnds
    <2>2. ~in_progress'
      BY <1>7 DEF Finish, game_restart
    <2>3. next_event_no \in Nat /\ Len(moves) \in Nat
      BY <2>1, LenProperties DEF Counters, TypeOK
    <2> HIDE DEF moves
    <2>4. over \in Event
      BY <2>3 DEF Event, GameOverEvent
    <2>5. Append(moves, over) \in Seq(Event) /\ Len(Append(moves, over)) > 0
      <3> HIDE DEF over
      <3>1. Append(moves, over) \in Seq(Event) /\ Len(Append(moves, over)) = Len(moves) + 1
        BY <2>1, <2>4, AppendProperties
      <3>2. QED BY <2>3, <3>1
    <2>6. IsStrictPrefix(log, log')
      <3> HIDE DEF over
      <3>1. QED BY <1>2, <2>1, <2>5, LongerLog
    <2>7. log' # <<>>
      BY <1>2, <1>3, <2>6 DEF IsStrictPrefix, IsPrefix
    <2>8. WellFormed(log')
      BY <2>2, <2>7 DEF Story, GameOfLog
    <2>9. QED BY <1>1, <1>3, <2>6, <2>8, FollowsNext
  <1>8. QED BY <1>5, <1>6, <1>7

\* Every step of the game is a step of the log's specification, or leaves the log.
LEMMA StepIsLogStep ==
    Counters /\ Story /\ [Next]_vars /\ Counters' /\ Story' => [Follows!Next]_(Follows!logVars)
  <1> SUFFICES ASSUME Counters, Story, [Next]_vars, Counters', Story'
               PROVE  Follows!Begin \/ Follows!Extend \/ UNCHANGED <<game_id, log>>
    BY FollowsNext DEF Follows!Next
  <1>1. TypeOK'
    BY DEF Counters
  <1>2. ASSUME \/ \E entrant \in Entrants : game_add_player(entrant[1], entrant[2])
               \/ \E sid \in Session : game_remove_player(sid)
               \/ \E sid \in Session, turn \in Turn : game_set_turn_direction(sid, turn)
        PROVE  UNCHANGED <<game_id, log>>
    BY <1>2 DEF game_add_player, game_remove_player, game_set_turn_direction, events
  <1>3. CASE game_tick_waiting
    BY <1>1, <1>3, StartBegins
  <1>4. CASE game_tick_in_progress
    BY <1>1, <1>4, RoundExtends
  <1>5. CASE UNCHANGED vars
    BY <1>5 DEF vars, events
  <1>6. QED BY <1>2, <1>3, <1>4, <1>5 DEF Next, Round

\* The storage's log, seen from outside, is the log that EventLog promises: it
\* only grows, is well formed at every moment, and is dropped for the log of a
\* new game only after it has ended.
THEOREM EventLogImplemented == Spec => ImplementsEventLog
  <1>1. Init => Follows!Init
    BY FollowsNext DEF Init, game_create
  <1>2. QED
    BY <1>1, StepIsLogStep, StoryInvariant, CountersInvariant, PTL
       DEF Spec, ImplementsEventLog, Follows!Spec
=============================================================================
