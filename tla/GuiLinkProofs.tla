---------------------------- MODULE GuiLinkProofs ----------------------------
(***************************************************************************)
(* Theorems about module GuiLink, for every script of games and every size *)
(* of the connection.                                                      *)
(***************************************************************************)
EXTENDS GuiLink, ListLemmas

-----------------------------------------------------------------------------
(* The invariant *)

\* Line b may be the next one after line a.
Follows(a, b) == b \in DOMAIN Script /\ a < b /\ (b = a + 1 \/ IsNewGame(b))

\* The lines that are heard, on their way, told and still to be sent are in the
\* order of the script, and only the rest of a game is ever left out.
InOrder ==
    /\ heard \in {0} \cup DOMAIN Script
    /\ to_gui = <<>> => told = heard
    /\ to_gui # <<>> => /\ Follows(heard, to_gui[1].line)
                        /\ told = to_gui[Len(to_gui)].line
    /\ \A k \in 1 .. Len(to_gui) - 1 : Follows(to_gui[k].line, to_gui[k + 1].line)
    /\ sending # <<>> => Follows(told, sending[1])
    /\ \A k \in 1 .. Len(sending) - 1 : Follows(sending[k], sending[k + 1])

\* Only the first line on its way may have lost a part, and damage knows.
Torn ==
    /\ damage \in {"NONE", "LINE", "NEW_GAME"}
    /\ \A k \in DOMAIN to_gui :
          to_gui[k].left # "WHOLE" =>
              /\ k = 1 /\ damage # "NONE"
              /\ IsNewGame(to_gui[k].line) => damage = "NEW_GAME"

\* What the client will know of each key once it has read what is on its way.
KeysTold ==
    /\ latest \in [Side -> {"UP", "DOWN", "LOST"}]
    /\ \A k \in DOMAIN to_client : to_client[k].torn => k = 1
    /\ client = "RUNNING" =>
          \A side \in Side : latest[side] # "LOST" =>
              /\ \A k \in DOMAIN to_client :
                    to_client[k].side = side /\ IsLast(to_client, k) =>
                        /\ ~to_client[k].torn
                        /\ to_client[k].down <=> latest[side] = "DOWN"
              /\ ~Mentions(to_client, side) =>
                    (key_down[side] <=> latest[side] = "DOWN")

Link ==
    /\ GuiLinkTypeOK /\ InOrder /\ Torn /\ KeysTold
    /\ DirectionFollowsKeys /\ ScreenIsAsTold /\ CrashesHaveACause

\* Of two numbers the smaller one.
LEMMA MinOfTwo ==
    ASSUME NEW a \in Nat, NEW b \in Nat
    PROVE  Min({a, b}) = IF a <= b THEN a ELSE b
  <1> DEFINE least == IF a <= b THEN a ELSE b
  <1>1. least \in {a, b} /\ \A y \in {a, b} : least <= y
    OBVIOUS
  <1>2. Min({a, b}) \in {a, b} /\ \A y \in {a, b} : Min({a, b}) <= y
    BY <1>1 DEF Min
  <1>3. QED BY <1>1, <1>2

\* The constants, in the form the proofs use.
LEMMA ScriptFacts ==
    /\ Script \in Seq(GuiLine) /\ Len(Script) \in Nat /\ DOMAIN Script = 1 .. Len(Script)
    /\ 1 \in DOMAIN Script /\ IsNewGame(1)
    /\ \A k \in DOMAIN Script : Script[k] \in GuiLine
    /\ MaxPlayer \in Nat /\ MaxPlayer > 0
    /\ KeyRoom \in Nat /\ KeyBound \in Nat /\ KeyBound > 0 /\ LineBound \in Nat
  <1>1. /\ Script \in Seq(GuiLine) /\ Script # <<>> /\ IsNewGame(1)
        /\ {MaxPlayer, KeyRoom, KeyBound, LineBound} \subseteq Nat \ {0}
    BY GuiLinkAssumption
  <1>2. Len(Script) \in Nat /\ DOMAIN Script = 1 .. Len(Script)
    BY <1>1, LenProperties
  <1>3. 1 \in DOMAIN Script
    BY <1>1, <1>2, EmptySeq
  <1>4. \A k \in DOMAIN Script : Script[k] \in GuiLine
    BY <1>1, <1>2, ElementOfSeq
  <1>5. QED BY <1>1, <1>2, <1>3, <1>4

\* Every line belongs to a game, the last one that has begun.
LEMMA StartOfProperties ==
    ASSUME NEW k \in DOMAIN Script
    PROVE  /\ StartOf(k) \in DOMAIN Script /\ StartOf(k) <= k
           /\ IsNewGame(StartOf(k))
           /\ \A j \in 1 .. k : IsNewGame(j) => j <= StartOf(k)
  <1> DEFINE T == { j \in 1 .. k : IsNewGame(j) }
  <1>1. k \in 1 .. Len(Script) /\ Len(Script) \in Nat /\ IsNewGame(1)
    BY ScriptFacts
  <1>2. 1 \in T /\ T \in SUBSET (1 .. k) /\ k \in Nat
    BY <1>1
  <1>3. StartOf(k) = Max(T)
    BY DEF StartOf
  <1> HIDE DEF T
  <1>4. \E x \in T : \A y \in T : x >= y
    BY <1>2, GreatestExists
  <1>5. StartOf(k) \in T /\ \A y \in T : StartOf(k) >= y
    BY <1>3, <1>4 DEF Max
  <1>6. QED BY <1>1, <1>5, ScriptFacts DEF T

\* A NEW_GAME is the start of its game.
LEMMA StartOfNewGame ==
    ASSUME NEW k \in DOMAIN Script, IsNewGame(k)
    PROVE  StartOf(k) = k
  <1>1. k \in 1 .. k /\ k \in Nat
    BY ScriptFacts
  <1>2. StartOf(k) \in Nat
    BY StartOfProperties, ScriptFacts
  <1>3. QED BY <1>1, <1>2, StartOfProperties

\* Any other line belongs to the game of the line before it.
LEMMA StartOfOther ==
    ASSUME NEW k \in DOMAIN Script, k - 1 \in DOMAIN Script, ~IsNewGame(k)
    PROVE  StartOf(k) = StartOf(k - 1)
  <1>1. k \in Nat /\ k - 1 \in Nat /\ k - 1 < k
    BY ScriptFacts
  <1>2. /\ StartOf(k) \in Nat /\ StartOf(k) <= k /\ IsNewGame(StartOf(k))
        /\ StartOf(k) >= 1
        /\ \A j \in 1 .. k : IsNewGame(j) => j <= StartOf(k)
    BY StartOfProperties, ScriptFacts
  <1>3. /\ StartOf(k - 1) \in Nat /\ StartOf(k - 1) <= k - 1
        /\ IsNewGame(StartOf(k - 1)) /\ StartOf(k - 1) >= 1
        /\ \A j \in 1 .. k - 1 : IsNewGame(j) => j <= StartOf(k - 1)
    BY StartOfProperties, ScriptFacts
  <1>4. StartOf(k) # k
    BY <1>2
  <1>5. StartOf(k) <= StartOf(k - 1)
    BY <1>1, <1>2, <1>3, <1>4
  <1>6. StartOf(k - 1) <= StartOf(k)
    BY <1>1, <1>2, <1>3
  <1>7. QED BY <1>2, <1>3, <1>5, <1>6

\* The fields of a line.
LEMMA LineFields ==
    ASSUME NEW line \in GuiLine
    PROVE  /\ line.type \in {"NEW_GAME", "PIXEL", "ELIMINATED"}
           /\ line.type = "NEW_GAME" => line.players_names \in Seq(Name)
           /\ line.type # "NEW_GAME" => line.player_name \in Name
           /\ line.type = "PIXEL" => line.pixel \in Pixels
  BY DEF GuiLine

\* Nothing has been sent when both processes start.
LEMMA LinkInit == Init => Link
  <1> SUFFICES ASSUME Init PROVE Link
    OBVIOUS
  <1> USE DEF Init
  <1>1. GuiLinkTypeOK
    <2>1. /\ sending \in Seq(DOMAIN Script) /\ players \in Seq(Name)
          /\ to_client \in Seq(KeyMessage) /\ Len(to_client) = 0 /\ Len(players) = 0
          /\ to_gui \in Seq([line : DOMAIN Script, left : {"WHOLE", "TEXT", "NEWLINE"}])
      BY EmptySeq
    <2>2. KeyBound >= 0 /\ MaxPlayer >= 0
      BY ScriptFacts
    <2>3. surface \in SUBSET [pixel : Pixels, player : Name] /\ cleared \in 0 .. heard
      OBVIOUS
    <2>4. QED BY <2>1, <2>2, <2>3 DEF GuiLinkTypeOK, Side
  <1>2. InOrder /\ Torn
    BY DEF InOrder, Torn
  <1>3. KeysTold
    BY DEF KeysTold, Side, Mentions
  <1>4. DirectionFollowsKeys /\ ScreenIsAsTold /\ CrashesHaveACause
    BY DEF DirectionFollowsKeys, ScreenIsAsTold, CrashesHaveACause, Side
  <1>5. QED BY <1>1, <1>2, <1>3, <1>4 DEF Link

\* Whoever sends no key message and reads none changes nothing about the keys.
LEMMA KeysKept ==
    ASSUME Link, UNCHANGED <<client, key_down, turn_direction, to_client, latest>>
    PROVE  KeysTold' /\ DirectionFollowsKeys'
  BY DEF Link, KeysTold, DirectionFollowsKeys, Mentions, IsLast

\* What the client does to its lines changes nothing that the GUI shows.
LEMMA ScreenKept ==
    ASSUME Link, UNCHANGED <<guiVars, heard, damage, cleared>>
    PROVE  ScreenIsAsTold' /\ CrashesHaveACause'
  BY DEF Link, ScreenIsAsTold, CrashesHaveACause, GameHeard, Known, guiVars

\* The types of the lines on their way, for the proofs about them.
LineMessage == [line : DOMAIN Script, left : {"WHOLE", "TEXT", "NEWLINE"}]

\* A datagram from the server: its lines are the next ones of the game or the
\* first ones of a later game.
LEMMA LinkServerMessage ==
    ASSUME Link, handle_server_message
    PROVE  Link'
  <1>1. /\ client = "RUNNING" /\ sending = <<>>
        /\ UNCHANGED <<client, key_down, turn_direction, told, to_client, to_gui,
                       guiVars, history>>
    BY DEF handle_server_message, IsIdle
  <1>2. PICK first \in DOMAIN Script, last \in DOMAIN Script :
           /\ told < first /\ first <= last
           /\ first = told + 1 \/ IsNewGame(first)
           /\ sending' = [k \in 1 .. last - first + 1 |-> first + k - 1]
    BY DEF handle_server_message
  <1> DEFINE n == last - first + 1
  <1>3. /\ n \in Nat /\ n > 0
        /\ \A k \in 1 .. n : first + k - 1 \in DOMAIN Script
    BY <1>2, ScriptFacts
  <1>4. sending' \in [1 .. n -> DOMAIN Script]
    BY <1>2, <1>3
  <1>5. sending' \in Seq(DOMAIN Script) /\ Len(sending') = n
    BY <1>3, <1>4, FunctionIsSeq
  <1>6. GuiLinkTypeOK'
    BY <1>1, <1>5 DEF Link, GuiLinkTypeOK, guiVars, history
  <1>7. InOrder'
    <2>1. sending'[1] = first /\ Follows(told, sending'[1])
      BY <1>2, <1>3, ScriptFacts DEF Follows
    <2>2. ASSUME NEW k \in 1 .. Len(sending') - 1
          PROVE  Follows(sending'[k], sending'[k + 1])
      <3>1. k \in 1 .. n /\ k + 1 \in 1 .. n
        BY <1>3, <1>5
      <3>2. sending'[k] = first + k - 1 /\ sending'[k + 1] = first + (k + 1) - 1
        BY <1>2, <3>1
      <3>3. first \in Nat /\ k \in Nat
        BY <1>3, <3>1, ScriptFacts
      <3>4. sending'[k + 1] \in DOMAIN Script
        BY <1>3, <3>1, <3>2
      <3>5. sending'[k + 1] = sending'[k] + 1 /\ sending'[k] < sending'[k + 1]
        BY <3>2, <3>3
      <3>6. QED BY <3>4, <3>5 DEF Follows
    <2>3. QED BY <1>1, <2>1, <2>2 DEF Link, InOrder, history
  <1>8. Torn' /\ KeysTold' /\ DirectionFollowsKeys'
    BY <1>1, KeysKept DEF Link, Torn, history
  <1>9. ScreenIsAsTold' /\ CrashesHaveACause'
    BY <1>1, ScreenKept DEF history
  <1>10. QED BY <1>6, <1>7, <1>8, <1>9 DEF Link

\* One line is put behind those on their way, or the GUI is gone.
LEMMA LinkSend ==
    ASSUME Link, gui_client_send_event
    PROVE  Link'
  <1>1. /\ client = "RUNNING" /\ sending # <<>>
        /\ UNCHANGED <<key_down, turn_direction, guiVars, history>>
        /\ to_client' = IF client' = "EXITED" THEN <<>> ELSE to_client
    BY DEF gui_client_send_event
  <1>2. /\ sending \in Seq(DOMAIN Script) /\ to_gui \in Seq(LineMessage)
        /\ to_client \in Seq(KeyMessage)
    BY DEF Link, GuiLinkTypeOK, LineMessage
  <1>3. /\ Len(sending) \in Nat /\ Len(sending) > 0
        /\ Head(sending) = sending[1] /\ Head(sending) \in DOMAIN Script
        /\ Tail(sending) \in Seq(DOMAIN Script) /\ Len(Tail(sending)) = Len(sending) - 1
        /\ Tail(sending) = <<>> <=> Len(sending) = 1
        /\ \A i \in 1 .. Len(sending) - 1 : Tail(sending)[i] = sending[i + 1]
    BY <1>1, <1>2, PopProperties
  <1>4. Torn' \/ to_gui' # to_gui
    BY <1>1 DEF Link, Torn, history
  <1>5. ScreenIsAsTold' /\ CrashesHaveACause'
    BY <1>1, ScreenKept DEF history
  <1>6. CASE /\ to_gui' = Append(to_gui, [line |-> Head(sending), left |-> "WHOLE"])
             /\ told' = Head(sending) /\ sending' = Tail(sending)
             /\ UNCHANGED client
    <2> DEFINE message == [line |-> Head(sending), left |-> "WHOLE"]
    <2>1. message \in LineMessage /\ message.line = sending[1] /\ message.left = "WHOLE"
      BY <1>3 DEF LineMessage
    <2>2. to_gui' = Append(to_gui, message)
      BY <1>6
    <2> HIDE DEF message
    <2>3. /\ Len(to_gui) \in Nat /\ DOMAIN to_gui = 1 .. Len(to_gui)
          /\ to_gui' \in Seq(LineMessage) /\ to_gui' # <<>>
          /\ Len(to_gui') = Len(to_gui) + 1 /\ DOMAIN to_gui' = 1 .. Len(to_gui) + 1
          /\ \A i \in 1 .. Len(to_gui) : to_gui'[i] = to_gui[i]
          /\ to_gui'[Len(to_gui) + 1] = message
      BY <1>2, <2>1, <2>2, PushProperties
    <2>4. GuiLinkTypeOK'
      BY <1>1, <1>3, <1>6, <2>3 DEF Link, GuiLinkTypeOK, guiVars, history, LineMessage
    <2>5. Follows(told, sending[1])
      BY <1>1 DEF Link, InOrder
    <2>6. InOrder'
      <3>1. heard' \in {0} \cup DOMAIN Script /\ heard' = heard
        BY <1>1 DEF Link, InOrder, history
      <3>2. told' = to_gui'[Len(to_gui')].line
        BY <1>3, <1>6, <2>1, <2>3
      <3>3. Follows(heard', to_gui'[1].line)
        <4>1. CASE to_gui = <<>>
          <5>1. Len(to_gui) = 0 /\ told = heard
            BY <4>1 DEF Link, InOrder
          <5>2. to_gui'[1].line = sending[1]
            BY <2>1, <2>3, <5>1
          <5>3. QED BY <2>5, <3>1, <5>1, <5>2
        <4>2. CASE to_gui # <<>>
          <5>1. Len(to_gui) > 0
            BY <1>2, <4>2, EmptySeq
          <5>2. to_gui'[1] = to_gui[1]
            BY <2>3, <5>1
          <5>3. QED BY <3>1, <4>2, <5>2 DEF Link, InOrder
        <4>3. QED BY <4>1, <4>2
      <3>4. ASSUME NEW k \in 1 .. Len(to_gui') - 1
            PROVE  Follows(to_gui'[k].line, to_gui'[k + 1].line)
        <4>1. k \in 1 .. Len(to_gui)
          BY <2>3
        <4>2. CASE k = Len(to_gui)
          <5>1. to_gui # <<>>
            BY <4>1, <4>2
          <5>2. to_gui[k].line = told
            BY <4>2, <5>1 DEF Link, InOrder
          <5>3. QED BY <2>1, <2>3, <2>5, <4>1, <4>2, <5>2
        <4>3. CASE k # Len(to_gui)
          <5>1. k \in 1 .. Len(to_gui) - 1 /\ k + 1 \in 1 .. Len(to_gui)
            <6>1. Len(to_gui) \in Nat
              BY <2>3
            <6>2. QED BY <4>1, <4>3, <6>1
          <5>2. Follows(to_gui[k].line, to_gui[k + 1].line)
            BY <5>1 DEF Link, InOrder
          <5>3. QED BY <2>3, <4>1, <5>1, <5>2
        <4>4. QED BY <4>2, <4>3
      <3>5. sending' # <<>> => Follows(told', sending'[1])
        <4> SUFFICES ASSUME sending' # <<>> PROVE Follows(told', sending'[1])
          OBVIOUS
        <4>1. 1 \in 1 .. Len(sending) - 1
          BY <1>3, <1>6
        <4>2. Follows(sending[1], sending[2])
          BY <4>1 DEF Link, InOrder
        <4>3. QED BY <1>3, <1>6, <4>1, <4>2
      <3>6. ASSUME NEW k \in 1 .. Len(sending') - 1
            PROVE  Follows(sending'[k], sending'[k + 1])
        <4>1. /\ k + 1 \in 1 .. Len(sending) - 1 /\ k \in 1 .. Len(sending) - 1
          BY <1>3, <1>6
        <4>2. Follows(sending[k + 1], sending[(k + 1) + 1])
          BY <4>1 DEF Link, InOrder
        <4>3. sending'[k] = sending[k + 1] /\ sending'[k + 1] = sending[(k + 1) + 1]
          BY <1>3, <1>6, <4>1
        <4>4. QED BY <4>2, <4>3
      <3>7. QED BY <2>3, <3>1, <3>2, <3>3, <3>4, <3>5, <3>6 DEF InOrder
    <2>7. Torn'
      <3>1. ASSUME NEW k \in DOMAIN to_gui', to_gui'[k].left # "WHOLE"
            PROVE  k \in DOMAIN to_gui /\ to_gui'[k] = to_gui[k]
        <4>1. k # Len(to_gui) + 1
          BY <2>1, <2>3, <3>1
        <4>2. QED BY <2>3, <4>1
      <3>2. QED BY <1>1, <3>1 DEF Link, Torn, history
    <2>8. KeysTold' /\ DirectionFollowsKeys'
      <3>1. client' # "EXITED"
        BY <1>1, <1>6
      <3>2. QED BY <1>1, <1>6, <3>1, KeysKept DEF history
    <2>9. QED BY <1>5, <2>4, <2>6, <2>7, <2>8 DEF Link
  <1>7. CASE /\ \/ client' = "EXITED" /\ UNCHANGED sending
                \/ sending' = <<>> /\ UNCHANGED client
             /\ UNCHANGED <<told, to_gui>>
    <2>1. sending' \in Seq(DOMAIN Script) /\ client' \in {"RUNNING", "EXITED"}
      BY <1>1, <1>2, <1>7, EmptySeq
    <2>2. to_client' \in Seq(KeyMessage) /\ Len(to_client') <= KeyBound
      BY <1>1, EmptySeq, ScriptFacts DEF Link, GuiLinkTypeOK
    <2>3. GuiLinkTypeOK'
      BY <1>1, <1>7, <2>1, <2>2 DEF Link, GuiLinkTypeOK, guiVars, history
    <2>4. InOrder'
      BY <1>1, <1>7, EmptySeq DEF Link, InOrder, history
    <2>5. KeysTold' /\ DirectionFollowsKeys'
      <3>1. CASE client' = client
        BY <1>1, <3>1, KeysKept DEF history
      <3>2. CASE client' = "EXITED"
        BY <1>1, <3>2 DEF Link, KeysTold, DirectionFollowsKeys, history
      <3>3. QED BY <1>7, <3>1, <3>2
    <2>6. QED BY <1>4, <1>5, <1>7, <2>3, <2>4, <2>5 DEF Link
  <1>8. QED BY <1>6, <1>7 DEF gui_client_send_event

-----------------------------------------------------------------------------
(* The GUI *)

\* Every dot is of a line behind the one the area was last made anew at.
DotsAreTold(dots, since, last) ==
    \A dot \in dots : \E k \in since + 1 .. last : IsOf(dot, k)

\* What the window shows is of the game of the lines from first to last.
ShowsGame(first, last, since, names, stale, out) ==
    LET all == Script[first].players_names
    IN  /\ names = SubSeq(all, 1, Min({MaxPlayer, Len(all)}))
        /\ stale \/ since >= first
        /\ \A name \in out :
              \E k \in first .. last : /\ Script[k].type = "ELIMINATED"
                                       /\ Script[k].player_name = name

\* What a line tells of a player on the list is there.
ShowsLine(k, since, names, dots, out) ==
    (\E i \in DOMAIN names : names[i] = Script[k].player_name) =>
        IF Script[k].type = "PIXEL" THEN k > since => \E dot \in dots : IsOf(dot, k)
        ELSE Script[k].player_name \in out

\* Nothing that the lines from first to last tell is missing.
ShowsAll(first, last, since, names, dots, out) ==
    \A k \in first + 1 .. last : ShowsLine(k, since, names, dots, out)

\* The invariant about the screen, in these terms.
LEMMA ScreenShows ==
    /\ ScreenIsAsTold <=>
          /\ DotsAreTold(surface, cleared, heard)
          /\ heard > 0 /\ damage # "NEW_GAME" =>
                ShowsGame(StartOf(heard), heard, cleared, players, resizing, crossed)
          /\ heard > 0 /\ damage = "NONE" =>
                ShowsAll(StartOf(heard), heard, cleared, players, surface, crossed)
    /\ ScreenIsAsTold' <=>
          /\ DotsAreTold(surface', cleared', heard')
          /\ heard' > 0 /\ damage' # "NEW_GAME" =>
                ShowsGame(StartOf(heard'), heard', cleared', players', resizing', crossed')
          /\ heard' > 0 /\ damage' = "NONE" =>
                ShowsAll(StartOf(heard'), heard', cleared', players', surface', crossed')
  BY DEF ScreenIsAsTold, GameHeard, Known, DotsAreTold, ShowsGame, ShowsAll, ShowsLine

\* More lines make nothing wrong that is drawn.
LEMMA MoreDotsAreTold ==
    ASSUME NEW since \in Nat, NEW last \in Nat, NEW later \in Nat, last <= later, NEW dots,
           DotsAreTold(dots, since, last)
    PROVE  DotsAreTold(dots, since, later)
  <1>1. \A k \in since + 1 .. last : k \in since + 1 .. later
    OBVIOUS
  <1>2. QED BY <1>1 DEF DotsAreTold

\* One more line of the game makes nothing wrong that is shown beside it.
LEMMA ShowsMoreOfGame ==
    ASSUME NEW first \in Nat, NEW last \in Nat, NEW since, NEW names, NEW stale, NEW out,
           ShowsGame(first, last, since, names, stale, out)
    PROVE  ShowsGame(first, last + 1, since, names, stale, out)
  <1>1. \A k \in first .. last : k \in first .. last + 1
    OBVIOUS
  <1>2. QED BY <1>1 DEF ShowsGame

\* If what the next line tells is there and nothing goes, nothing is missing.
LEMMA ShowsOneMore ==
    ASSUME NEW first \in Nat, NEW last \in Nat, NEW since, NEW names,
           NEW dots, NEW more, dots \subseteq more, NEW out, NEW gone, out \subseteq gone,
           ShowsAll(first, last, since, names, dots, out),
           ShowsLine(last + 1, since, names, more, gone)
    PROVE  ShowsAll(first, last + 1, since, names, more, gone)
  <1> SUFFICES ASSUME NEW k \in first + 1 .. last + 1
               PROVE  ShowsLine(k, since, names, more, gone)
    BY DEF ShowsAll
  <1>1. CASE k = last + 1
    BY <1>1
  <1>2. CASE k # last + 1
    <2>1. k \in first + 1 .. last
      BY <1>2
    <2>2. ShowsLine(k, since, names, dots, out)
      BY <2>1 DEF ShowsAll
    <2>3. QED BY <2>2 DEF ShowsLine
  <1>3. QED BY <1>1, <1>2

\* The user closes the window, resizes it or presses some other key.
LEMMA LinkWindow ==
    ASSUME Link, OtherKey \/ destroy_window \/ configure_event
    PROVE  Link'
  <1>1. /\ gui = "RUNNING" /\ gui' \in {"RUNNING", "ENDED"}
        /\ UNCHANGED <<clientVars, to_client, to_gui, players, crossed, latest, heard,
                       damage>>
        /\ \/ UNCHANGED <<surface, resizing, cleared>>
           \/ surface' = {} /\ resizing' = FALSE /\ cleared' = heard
        /\ started' \in BOOLEAN
    BY DEF OtherKey, destroy_window, configure_event, Link, GuiLinkTypeOK, history
  <1>2. heard \in Nat /\ heard \in {0} \cup DOMAIN Script
    BY ScriptFacts DEF Link, InOrder
  <1>3. GuiLinkTypeOK'
    <2>1. cleared' \in 0 .. heard'
      BY <1>1, <1>2 DEF Link, GuiLinkTypeOK
    <2>2. QED BY <1>1, <2>1 DEF Link, GuiLinkTypeOK, clientVars
  <1>4. InOrder' /\ Torn'
    BY <1>1 DEF Link, InOrder, Torn, clientVars
  <1>5. KeysTold' /\ DirectionFollowsKeys'
    BY <1>1, KeysKept DEF clientVars
  <1>6. ScreenIsAsTold'
    <2>1. CASE UNCHANGED <<surface, resizing, cleared>>
      BY <1>1, <2>1, ScreenShows DEF Link
    <2>2. CASE surface' = {} /\ resizing' = FALSE /\ cleared' = heard
      <3>1. DotsAreTold(surface', cleared', heard')
        BY <2>2 DEF DotsAreTold
      <3>2. ASSUME heard' > 0, damage' # "NEW_GAME"
            PROVE  ShowsGame(StartOf(heard'), heard', cleared', players', resizing', crossed')
        <4>1. heard > 0 /\ heard \in DOMAIN Script
          BY <1>1, <1>2, <3>2
        <4>2. StartOf(heard) <= heard /\ StartOf(heard) \in Nat
          BY <4>1, StartOfProperties, ScriptFacts
        <4>3. ShowsGame(StartOf(heard), heard, cleared, players, resizing, crossed)
          BY <1>1, <3>2, <4>1, ScreenShows DEF Link
        <4>4. heard >= StartOf(heard)
          BY <1>2, <4>2
        <4>5. QED BY <1>1, <2>2, <4>3, <4>4 DEF ShowsGame
      <3>3. ASSUME heard' > 0, damage' = "NONE"
            PROVE  ShowsAll(StartOf(heard'), heard', cleared', players', surface', crossed')
        <4>1. heard > 0 /\ heard \in DOMAIN Script
          BY <1>1, <1>2, <3>3
        <4>2. StartOf(heard) \in Nat
          BY <4>1, StartOfProperties, ScriptFacts
        <4>3. ShowsAll(StartOf(heard), heard, cleared, players, surface, crossed)
          BY <1>1, <3>3, <4>1, ScreenShows DEF Link
        <4>4. SUFFICES ASSUME NEW k \in StartOf(heard) + 1 .. heard
                       PROVE  ShowsLine(k, heard, players, {}, crossed)
          BY <1>1, <2>2 DEF ShowsAll
        <4>5. ShowsLine(k, cleared, players, surface, crossed)
          BY <4>3, <4>4 DEF ShowsAll
        <4>6. ~(k > heard)
          BY <1>2, <4>2, <4>4
        <4>7. QED BY <4>5, <4>6 DEF ShowsLine
      <3>4. QED BY <3>1, <3>2, <3>3, ScreenShows
    <2>3. QED BY <1>1, <2>1, <2>2
  <1>7. CrashesHaveACause'
    BY <1>1 DEF CrashesHaveACause
  <1>8. QED BY <1>3, <1>4, <1>5, <1>6, <1>7 DEF Link

\* What the GUI knows of the line it reads next.
LEMMA NextLine ==
    ASSUME Link, to_gui # <<>>, NEW k, k = Head(to_gui).line
    PROVE  /\ Follows(heard, k) /\ k \in DOMAIN Script /\ k \in Nat /\ k > 0
           /\ Script[k] \in GuiLine
           /\ Tail(to_gui) \in Seq(LineMessage)
           /\ IsNewGame(k) => StartOf(k) = k
           /\ ~IsNewGame(k) => /\ heard \in Nat /\ heard > 0 /\ k = heard + 1
                               /\ StartOf(k) = StartOf(heard) /\ StartOf(k) \in Nat
                               /\ StartOf(k) <= heard /\ Script[StartOf(k)] \in GuiLine
                               /\ Script[StartOf(k)].type = "NEW_GAME"
  <1>1. to_gui \in Seq(LineMessage) /\ heard \in {0} \cup DOMAIN Script
    BY DEF Link, GuiLinkTypeOK, LineMessage, InOrder
  <1>2. /\ Head(to_gui) = to_gui[1] /\ Head(to_gui) \in LineMessage
        /\ Tail(to_gui) \in Seq(LineMessage)
    BY <1>1, PopProperties
  <1>3. Follows(heard, k) /\ k \in DOMAIN Script
    BY <1>2 DEF Link, InOrder, LineMessage
  <1>4. k \in Nat /\ k > 0 /\ Script[k] \in GuiLine /\ IsNewGame(1) /\ heard \in Nat
    BY <1>1, <1>3, ScriptFacts
  <1>5. ASSUME IsNewGame(k) PROVE StartOf(k) = k
    BY <1>3, <1>5, StartOfNewGame
  <1>6. ASSUME ~IsNewGame(k)
        PROVE  /\ heard > 0 /\ k = heard + 1
               /\ StartOf(k) = StartOf(heard) /\ StartOf(k) \in Nat
               /\ StartOf(k) <= heard /\ Script[StartOf(k)] \in GuiLine
               /\ Script[StartOf(k)].type = "NEW_GAME"
    <2>1. k = heard + 1
      BY <1>3, <1>6 DEF Follows
    <2>2. heard > 0
      BY <1>4, <1>6, <2>1
    <2>3. heard \in DOMAIN Script /\ k - 1 = heard
      BY <1>1, <1>4, <2>1, <2>2
    <2>4. StartOf(k) = StartOf(heard)
      BY <1>3, <1>6, <2>3, StartOfOther
    <2>5. /\ StartOf(heard) \in DOMAIN Script /\ StartOf(heard) <= heard
          /\ IsNewGame(StartOf(heard))
      BY <2>3, StartOfProperties
    <2>6. QED BY <2>1, <2>2, <2>4, <2>5, ScriptFacts DEF IsNewGame
  <1>7. QED BY <1>2, <1>3, <1>4, <1>5, <1>6

\* The lines behind the one that is read are in order, and whole.
LEMMA RestInOrder ==
    ASSUME Link, to_gui # <<>>, to_gui' = Tail(to_gui), heard' = Head(to_gui).line,
           UNCHANGED <<told, sending>>, damage' \in {"NONE", "LINE", "NEW_GAME"}
    PROVE  InOrder' /\ Torn'
  <1>1. /\ to_gui \in Seq(LineMessage) /\ sending \in Seq(DOMAIN Script)
        /\ heard' \in DOMAIN Script
    BY NextLine DEF Link, GuiLinkTypeOK, LineMessage
  <1>2. /\ Len(to_gui) \in Nat /\ Len(to_gui) > 0 /\ DOMAIN to_gui = 1 .. Len(to_gui)
        /\ Head(to_gui) = to_gui[1]
        /\ Len(to_gui') = Len(to_gui) - 1 /\ DOMAIN to_gui' = 1 .. Len(to_gui) - 1
        /\ to_gui' = <<>> <=> Len(to_gui) = 1
        /\ \A i \in 1 .. Len(to_gui) - 1 : to_gui'[i] = to_gui[i + 1]
    BY <1>1, PopProperties
  <1>3. told' = to_gui[Len(to_gui)].line
    BY DEF Link, InOrder
  <1>4. \A i \in 1 .. Len(to_gui) - 1 : Follows(to_gui[i].line, to_gui[i + 1].line)
    BY DEF Link, InOrder
  <1>5. to_gui' = <<>> => told' = heard'
    BY <1>2, <1>3
  <1>6. ASSUME to_gui' # <<>>
        PROVE  Follows(heard', to_gui'[1].line) /\ told' = to_gui'[Len(to_gui')].line
    <2>1. 1 \in 1 .. Len(to_gui) - 1 /\ Len(to_gui) - 1 \in 1 .. Len(to_gui) - 1
      BY <1>2, <1>6
    <2>2. to_gui'[1] = to_gui[2] /\ to_gui'[Len(to_gui')] = to_gui[Len(to_gui)]
      BY <1>2, <2>1
    <2>3. Follows(to_gui[1].line, to_gui[2].line)
      BY <1>4, <2>1
    <2>4. QED BY <1>2, <1>3, <2>2, <2>3
  <1>7. ASSUME NEW i \in 1 .. Len(to_gui') - 1
        PROVE  Follows(to_gui'[i].line, to_gui'[i + 1].line)
    <2>1. i \in 1 .. Len(to_gui) - 1 /\ i + 1 \in 1 .. Len(to_gui) - 1
      BY <1>2
    <2>2. to_gui'[i] = to_gui[i + 1] /\ to_gui'[i + 1] = to_gui[(i + 1) + 1]
      BY <1>2, <2>1
    <2>3. QED BY <1>4, <2>1, <2>2
  <1>8. InOrder'
    BY <1>1, <1>5, <1>6, <1>7 DEF Link, InOrder
  <1>9. ASSUME NEW i \in DOMAIN to_gui'
        PROVE  to_gui'[i].left = "WHOLE"
    <2>1. i \in 1 .. Len(to_gui) - 1 /\ i + 1 \in DOMAIN to_gui /\ i + 1 # 1
      BY <1>2
    <2>2. to_gui'[i] = to_gui[i + 1]
      BY <1>2, <2>1
    <2>3. QED BY <2>1, <2>2 DEF Link, Torn
  <1>10. QED BY <1>8, <1>9 DEF Torn

\* One whole line, or what is left of one, is read.
LEMMA LinkReadLine ==
    ASSUME Link, idle_callback, ReadLine
    PROVE  Link'
  <1> DEFINE k == Head(to_gui).line
             left == Head(to_gui).left
  <1>1. /\ gui = "RUNNING"
        /\ UNCHANGED <<clientVars, to_client, started, latest, cleared>>
        /\ to_gui # <<>> /\ to_gui' = Tail(to_gui) /\ heard' = k
        /\ damage' = IF left = "WHOLE" /\ IsNewGame(k) THEN "NONE" ELSE damage
        /\ \/ left = "WHOLE" /\ process_command(Script[k])
           \/ left = "TEXT" /\ UNCHANGED <<gui, players, crossed, surface, resizing>>
           \/ /\ left = "NEWLINE" /\ gui' = "CRASHED"
              /\ UNCHANGED <<players, crossed, surface, resizing>>
    BY DEF idle_callback, ReadLine
  <1>2. /\ Follows(heard, k) /\ k \in DOMAIN Script /\ k \in Nat /\ k > 0
        /\ Script[k] \in GuiLine
        /\ Tail(to_gui) \in Seq(LineMessage)
        /\ IsNewGame(k) => StartOf(k) = k
        /\ ~IsNewGame(k) => /\ heard \in Nat /\ heard > 0 /\ k = heard + 1
                            /\ StartOf(k) = StartOf(heard) /\ StartOf(k) \in Nat
                            /\ StartOf(k) <= heard /\ Script[StartOf(k)] \in GuiLine
                            /\ Script[StartOf(k)].type = "NEW_GAME"
    BY <1>1, NextLine
  <1>3. left # "WHOLE" => /\ damage # "NONE"
                          /\ IsNewGame(k) => damage = "NEW_GAME"
    <2>1. to_gui \in Seq(LineMessage)
      BY DEF Link, GuiLinkTypeOK, LineMessage
    <2>2. 1 \in DOMAIN to_gui /\ Head(to_gui) = to_gui[1]
      BY <1>1, <2>1, PopProperties
    <2>3. QED BY <2>2 DEF Link, Torn
  <1> HIDE DEF k, left
  <1> DEFINE line == Script[k]
             first == StartOf(k)
             all == Script[first].players_names
  <1>4. /\ line \in GuiLine /\ line.type \in {"NEW_GAME", "PIXEL", "ELIMINATED"}
        /\ line.type = "NEW_GAME" => line.players_names \in Seq(Name)
        /\ line.type # "NEW_GAME" => line.player_name \in Name
        /\ line.type = "PIXEL" => line.pixel \in Pixels
        /\ IsNewGame(k) <=> line.type = "NEW_GAME"
    BY <1>2, LineFields DEF IsNewGame
  <1>5. MaxPlayer \in Nat /\ MaxPlayer > 0
    BY ScriptFacts
  <1> HIDE DEF line, first
  <1>6. /\ heard \in Nat /\ heard < k /\ cleared \in Nat /\ cleared <= heard
         /\ cleared' = cleared
    <2>1. heard \in Nat
      BY ScriptFacts DEF Link, InOrder
    <2>2. cleared \in 0 .. heard
      BY DEF Link, GuiLinkTypeOK
    <2>3. QED BY <1>1, <1>2, <2>1, <2>2 DEF Follows
  <1>7. DotsAreTold(surface, cleared, k)
    <2>1. DotsAreTold(surface, cleared, heard)
      BY ScreenShows DEF Link
    <2>2. heard <= k
      BY <1>2, <1>6
    <2>3. QED BY <1>2, <1>6, <2>1, <2>2, MoreDotsAreTold
  \* The game goes on: what was shown may stay.
  <1>8. ASSUME ~IsNewGame(k), damage' # "NEW_GAME"
        PROVE  /\ damage' = damage
               /\ ShowsGame(first, heard, cleared, players, resizing, crossed)
               /\ ShowsGame(first, k, cleared, players, resizing, crossed)
               /\ k \in first .. k
    <2>1. /\ heard > 0 /\ damage' = damage /\ first = StartOf(heard) /\ first \in Nat
          /\ heard \in Nat /\ k = heard + 1 /\ first <= heard
      BY <1>1, <1>2, <1>8 DEF first
    <2>2. ShowsGame(first, heard, cleared, players, resizing, crossed)
      BY <1>8, <2>1, ScreenShows DEF Link
    <2>3. ShowsGame(first, k, cleared, players, resizing, crossed)
      BY <2>1, <2>2, ShowsMoreOfGame
    <2>4. QED BY <2>1, <2>2, <2>3
  \* And nothing is missing if what this line tells is there.
  <1>9. ASSUME ~IsNewGame(k), damage' = "NONE",
                surface \subseteq surface', crossed \subseteq crossed',
                ShowsLine(k, cleared, players, surface', crossed')
         PROVE  ShowsAll(first, k, cleared, players, surface', crossed')
    <2>1. /\ heard > 0 /\ damage = "NONE" /\ first = StartOf(heard) /\ first \in Nat
          /\ heard \in Nat /\ k = heard + 1
      BY <1>1, <1>2, <1>9 DEF first
    <2>2. ShowsAll(first, heard, cleared, players, surface, crossed)
      BY <2>1, ScreenShows DEF Link
    <2>3. ShowsLine(heard + 1, cleared, players, surface', crossed')
      BY <1>9, <2>1
    <2>4. ShowsAll(first, heard + 1, cleared, players, surface', crossed')
      BY <1>9, <2>1, <2>2, <2>3, ShowsOneMore
    <2>5. QED BY <2>1, <2>4
  \* A player whose name is not on the list is one too many, or of another game.
  <1>10. ASSUME ~IsNewGame(k), ~Known(line.player_name), damage' = "NONE"
        PROVE  Len(all) > MaxPlayer
    <2>1. /\ players = SubSeq(all, 1, Min({MaxPlayer, Len(all)}))
      BY <1>8, <1>10 DEF ShowsGame
    <2>2. all \in Seq(Name) /\ Len(all) \in Nat
      BY <1>2, <1>10, LineFields, LenProperties DEF first
    <2>3. \E i \in DOMAIN all : all[i] = line.player_name
      BY <1>2, <1>10, GuiLinkAssumption DEF line, first
    <2>4. SUFFICES ASSUME Len(all) <= MaxPlayer PROVE FALSE
      BY <1>5, <2>2
    <2>5. Min({MaxPlayer, Len(all)}) = Len(all)
      BY <1>5, <2>2, <2>4, MinOfTwo
    <2>6. players = all
      BY <2>1, <2>2, <2>5, SubSeqFull
    <2>7. QED BY <1>10, <2>3, <2>6 DEF Known
  <1>11. /\ InOrder' /\ Torn'
    <2>1. damage' \in {"NONE", "LINE", "NEW_GAME"}
      BY <1>1 DEF Link, Torn
    <2>2. QED BY <1>1, <2>1, RestInOrder DEF k, clientVars
  <1>12. KeysTold' /\ DirectionFollowsKeys'
    BY <1>1, KeysKept DEF clientVars
  <1>13. /\ GuiLinkTypeOK' /\ ScreenIsAsTold' /\ CrashesHaveACause'
    <2> SUFFICES
          /\ gui' \in {"RUNNING", "ENDED", "CRASHED"} /\ resizing' \in BOOLEAN
          /\ players' \in Seq(Name) /\ Len(players') <= MaxPlayer
          /\ crossed' \in SUBSET Name
          /\ surface' \in SUBSET [pixel : Pixels, player : Name]
          /\ DotsAreTold(surface', cleared, k)
          /\ damage' # "NEW_GAME" =>
                ShowsGame(first, k, cleared, players', resizing', crossed')
          /\ damage' = "NONE" =>
                ShowsAll(first, k, cleared, players', surface', crossed')
          /\ gui' = "CRASHED" => damage' # "NONE" \/ Len(all) > MaxPlayer
      <3>1. GuiLinkTypeOK'
        <4>1. cleared' \in 0 .. heard'
          BY <1>1, <1>2, <1>6
        <4>2. QED BY <1>1, <1>2, <4>1 DEF Link, GuiLinkTypeOK, clientVars, LineMessage
      <3>2. ScreenIsAsTold'
        BY <1>1, <1>6, ScreenShows DEF first
      <3>3. CrashesHaveACause'
        BY <1>1 DEF CrashesHaveACause, GameHeard, first
      <3>4. QED BY <3>1, <3>2, <3>3
    <2>1. /\ gui \in {"RUNNING", "ENDED", "CRASHED"} /\ resizing \in BOOLEAN
          /\ players \in Seq(Name) /\ Len(players) <= MaxPlayer
          /\ crossed \in SUBSET Name
          /\ surface \in SUBSET [pixel : Pixels, player : Name]
      BY DEF Link, GuiLinkTypeOK
    <2>2. CASE left # "WHOLE"
      <3>1. UNCHANGED <<players, crossed, surface, resizing>> /\ damage' = damage
        BY <1>1, <2>2
      <3>2. gui' = gui \/ gui' = "CRASHED"
        BY <1>1, <2>2
      <3>3. damage' # "NEW_GAME" =>
                ShowsGame(first, k, cleared, players', resizing', crossed')
        BY <1>3, <1>8, <2>2, <3>1
      <3>4. damage' # "NONE" /\ DotsAreTold(surface', cleared, k)
        BY <1>3, <1>7, <2>2, <3>1
      <3>5. QED BY <2>1, <3>1, <3>2, <3>3, <3>4
    <2>3. CASE left = "WHOLE" /\ line.type = "NEW_GAME" /\ StartGame(line)
      <3>1. /\ players' = SubSeq(line.players_names, 1, Min({MaxPlayer, Len(line.players_names)}))
            /\ crossed' = {} /\ resizing' = TRUE /\ UNCHANGED <<gui, surface>>
        BY <2>3 DEF StartGame
      <3>2. first = k /\ all = line.players_names
        BY <1>2, <1>4, <2>3 DEF first, line
      <3>3. line.players_names \in Seq(Name) /\ Len(line.players_names) \in Nat
        BY <1>4, <2>3, LenProperties
      <3>4. /\ Min({MaxPlayer, Len(line.players_names)}) \in Nat
            /\ Min({MaxPlayer, Len(line.players_names)}) <= MaxPlayer
            /\ Min({MaxPlayer, Len(line.players_names)}) <= Len(line.players_names)
        BY <1>5, <3>3, MinOfTwo
      <3> DEFINE n == Min({MaxPlayer, Len(line.players_names)})
      <3>5. players' \in Seq(Name) /\ Len(players') <= MaxPlayer
        <4>1. \A i \in 1 .. n : line.players_names[i] \in Name
          BY <3>3, <3>4, ElementOfSeq
        <4>2. n \in Int /\ n \in Nat /\ n <= MaxPlayer
          BY <3>4
        <4> HIDE DEF n
        <4>3. /\ SubSeq(line.players_names, 1, n) \in Seq(Name)
              /\ Len(SubSeq(line.players_names, 1, n)) = (IF 1 <= n THEN n - 1 + 1 ELSE 0)
          BY <4>1, <4>2, SubSeqProperties
        <4>4. players' = SubSeq(line.players_names, 1, n)
          BY <3>1 DEF n
        <4>5. QED BY <1>5, <4>2, <4>3, <4>4
      <3>6. ShowsGame(first, k, cleared, players', resizing', crossed')
        BY <3>1, <3>2 DEF ShowsGame
      <3>7. ShowsAll(first, k, cleared, players', surface', crossed')
        <4>1. \A j \in first + 1 .. k : FALSE
          BY <1>2, <3>2
        <4>2. QED BY <4>1 DEF ShowsAll
      <3>8. DotsAreTold(surface', cleared, k)
        BY <1>7, <3>1
      <3>9. QED BY <1>1, <2>1, <3>1, <3>5, <3>6, <3>7, <3>8
    <2>4. CASE left = "WHOLE" /\ line.type = "PIXEL" /\ Draw(line)
      <3>1. /\ surface' = IF Known(line.player_name)
                          THEN surface \cup {[pixel |-> line.pixel, player |-> line.player_name]}
                          ELSE surface
            /\ UNCHANGED <<gui, players, crossed, resizing>>
        BY <2>4 DEF Draw
      <3>2. line.player_name \in Name /\ line.pixel \in Pixels /\ ~IsNewGame(k)
        BY <1>4, <2>4
      <3>3. surface' \in SUBSET [pixel : Pixels, player : Name]
        BY <2>1, <3>1, <3>2
      <3>4. damage' # "NEW_GAME" =>
                ShowsGame(first, k, cleared, players', resizing', crossed')
        BY <1>8, <3>1, <3>2
      <3>5. DotsAreTold(surface', cleared, k)
        <4>1. k \in cleared + 1 .. k
          BY <1>2, <1>6
        <4>2. \A dot \in surface' : dot \in surface \/ IsOf(dot, k)
          BY <2>4, <3>1 DEF IsOf, line
        <4>3. QED BY <1>7, <4>1, <4>2 DEF DotsAreTold
      <3>6. ASSUME damage' = "NONE"
            PROVE  ShowsAll(first, k, cleared, players', surface', crossed')
        <4>1. surface \subseteq surface' /\ crossed \subseteq crossed' /\ players' = players
          BY <3>1
        <4>2. Known(line.player_name) => \E dot \in surface' : IsOf(dot, k)
          <5> SUFFICES ASSUME Known(line.player_name)
                       PROVE  \E dot \in surface' : IsOf(dot, k)
            OBVIOUS
          <5>1. [pixel |-> line.pixel, player |-> line.player_name] \in surface'
            BY <3>1
          <5>2. IsOf([pixel |-> line.pixel, player |-> line.player_name], k)
            BY <2>4 DEF IsOf, line
          <5>3. QED BY <5>1, <5>2
        <4>3. ShowsLine(k, cleared, players, surface', crossed')
          BY <2>4, <4>2 DEF ShowsLine, Known, line
        <4>4. ShowsAll(first, k, cleared, players, surface', crossed')
          BY <1>9, <3>2, <3>6, <4>1, <4>3
        <4>5. QED BY <4>1, <4>4
      <3>7. QED BY <1>1, <2>1, <3>1, <3>3, <3>4, <3>5, <3>6
    <2>5. CASE left = "WHOLE" /\ line.type = "ELIMINATED" /\ Cross(line)
      <3>1. /\ \/ /\ Known(line.player_name)
                  /\ crossed' = crossed \cup {line.player_name}
                  /\ UNCHANGED gui
               \/ /\ ~Known(line.player_name)
                  /\ gui' \in {"RUNNING", "CRASHED"}
                  /\ UNCHANGED crossed
            /\ UNCHANGED <<players, surface, resizing>>
        BY <2>5 DEF Cross
      <3>2. line.player_name \in Name /\ ~IsNewGame(k)
        BY <1>4, <2>5
      <3>3. ASSUME damage' # "NEW_GAME"
            PROVE  ShowsGame(first, k, cleared, players', resizing', crossed')
        <4>1. /\ ShowsGame(first, k, cleared, players, resizing, crossed)
              /\ k \in first .. k
          BY <1>8, <3>2, <3>3
        <4>2. \A name \in crossed' : name \in crossed \/ name = line.player_name
          BY <3>1
        <4>3. QED BY <2>5, <3>1, <4>1, <4>2 DEF ShowsGame, line
      <3>4. ASSUME damage' = "NONE"
            PROVE  ShowsAll(first, k, cleared, players', surface', crossed')
        <4>1. surface \subseteq surface' /\ crossed \subseteq crossed' /\ players' = players
          BY <3>1
        <4>2. Known(line.player_name) => line.player_name \in crossed'
          BY <3>1
        <4>3. ShowsLine(k, cleared, players, surface', crossed')
          BY <2>5, <4>2 DEF ShowsLine, Known, line
        <4>4. ShowsAll(first, k, cleared, players, surface', crossed')
          BY <1>9, <3>2, <3>4, <4>1, <4>3
        <4>5. QED BY <4>1, <4>4
      <3>5. DotsAreTold(surface', cleared, k)
        BY <1>7, <3>1
      <3>6. gui' = "CRASHED" => damage' # "NONE" \/ Len(all) > MaxPlayer
        BY <1>1, <1>10, <3>1, <3>2
      <3>7. gui' \in {"RUNNING", "ENDED", "CRASHED"} /\ crossed' \in SUBSET Name
        BY <2>1, <3>1, <3>2
      <3>8. QED BY <2>1, <3>1, <3>3, <3>4, <3>5, <3>6, <3>7
    <2>6. QED
      <3>1. left = "WHOLE" => process_command(line)
        BY <1>1 DEF line
      <3>2. QED BY <2>2, <2>3, <2>4, <2>5, <3>1 DEF process_command
  <1>14. QED BY <1>11, <1>12, <1>13 DEF Link

\* The first part of a line is read, and gone.
LEMMA LinkReadPart ==
    ASSUME Link, idle_callback, ReadPart
    PROVE  Link'
  <1>1. /\ gui = "RUNNING" /\ to_gui # <<>>
        /\ UNCHANGED <<clientVars, to_client, started, latest, heard, gui, players,
                       crossed, surface, resizing, cleared>>
        /\ damage' = IF damage = "NEW_GAME" \/ IsNewGame(Head(to_gui).line)
                     THEN "NEW_GAME" ELSE "LINE"
    BY DEF idle_callback, ReadPart
  <1>2. PICK left \in {"TEXT", "NEWLINE"} :
           to_gui' = <<[Head(to_gui) EXCEPT !.left = left]>> \o Tail(to_gui)
    BY DEF ReadPart
  <1> DEFINE part == [Head(to_gui) EXCEPT !.left = left]
  <1>3. to_gui \in Seq(LineMessage)
    BY DEF Link, GuiLinkTypeOK, LineMessage
  <1>4. /\ Len(to_gui) \in Nat /\ Len(to_gui) > 0 /\ DOMAIN to_gui = 1 .. Len(to_gui)
        /\ Head(to_gui) = to_gui[1] /\ Head(to_gui) \in LineMessage
        /\ Tail(to_gui) \in Seq(LineMessage) /\ Len(Tail(to_gui)) = Len(to_gui) - 1
        /\ \A i \in 1 .. Len(to_gui) - 1 : Tail(to_gui)[i] = to_gui[i + 1]
    BY <1>1, <1>3, PopProperties
  <1>5. part \in LineMessage /\ part.line = to_gui[1].line
    BY <1>4 DEF LineMessage
  <1> HIDE DEF part
  <1>6. /\ to_gui' \in Seq(LineMessage) /\ Len(to_gui') = Len(to_gui)
        /\ DOMAIN to_gui' = DOMAIN to_gui
        /\ to_gui'[1].line = to_gui[1].line
        /\ \A i \in DOMAIN to_gui : i # 1 => to_gui'[i] = to_gui[i]
    <2>1. to_gui' = <<part>> \o Tail(to_gui) /\ <<part>> \in Seq(LineMessage)
      BY <1>2, <1>5 DEF part
    <2>2. /\ to_gui' \in Seq(LineMessage) /\ Len(to_gui') = 1 + Len(Tail(to_gui))
          /\ \A i \in 1 .. 1 + Len(Tail(to_gui)) :
                to_gui'[i] = IF i <= 1 THEN part ELSE Tail(to_gui)[i - 1]
      BY <1>4, <2>1, ConcatProperties
    <2>3. Len(to_gui') = Len(to_gui) /\ DOMAIN to_gui' = DOMAIN to_gui
      BY <1>4, <2>2, LenProperties
    <2>4. to_gui'[1] = part
      BY <1>4, <2>2
    <2>5. ASSUME NEW i \in DOMAIN to_gui, i # 1
          PROVE  to_gui'[i] = to_gui[i]
      <3>1. i \in 1 .. 1 + Len(Tail(to_gui)) /\ ~(i <= 1) /\ i - 1 \in 1 .. Len(to_gui) - 1
        BY <1>4, <2>5
      <3>2. to_gui'[i] = Tail(to_gui)[i - 1]
        BY <2>2, <3>1
      <3>3. QED BY <1>4, <3>1, <3>2
    <2>6. QED BY <1>5, <2>2, <2>3, <2>4, <2>5
  <1>7. \A i \in DOMAIN to_gui : to_gui'[i].line = to_gui[i].line
    BY <1>6
  <1>8. GuiLinkTypeOK'
    BY <1>1, <1>6 DEF Link, GuiLinkTypeOK, clientVars, LineMessage
  <1>9. InOrder'
    <2>1. /\ to_gui' # <<>> /\ 1 \in DOMAIN to_gui /\ Len(to_gui) \in DOMAIN to_gui
          /\ \A i \in 1 .. Len(to_gui) - 1 : i \in DOMAIN to_gui /\ i + 1 \in DOMAIN to_gui
      BY <1>4, <1>6, EmptySeq
    <2>2. Follows(heard, to_gui'[1].line) /\ told = to_gui'[Len(to_gui')].line
      BY <1>1, <1>6, <1>7, <2>1 DEF Link, InOrder
    <2>3. \A i \in 1 .. Len(to_gui') - 1 : Follows(to_gui'[i].line, to_gui'[i + 1].line)
      BY <1>6, <1>7, <2>1 DEF Link, InOrder
    <2>4. QED BY <1>1, <2>1, <2>2, <2>3 DEF Link, InOrder, clientVars
  <1>10. Torn'
    <2>1. ASSUME NEW i \in DOMAIN to_gui', to_gui'[i].left # "WHOLE"
          PROVE  i = 1
      BY <1>6, <2>1 DEF Link, Torn
    <2>2. damage' # "NONE" /\ damage' \in {"NONE", "LINE", "NEW_GAME"}
      BY <1>1
    <2>3. IsNewGame(to_gui'[1].line) => damage' = "NEW_GAME"
      BY <1>1, <1>4, <1>6
    <2>4. QED BY <2>1, <2>2, <2>3 DEF Torn
  <1>11. KeysTold' /\ DirectionFollowsKeys'
    BY <1>1, KeysKept DEF clientVars
  <1>12. ScreenIsAsTold' /\ CrashesHaveACause'
    <2>1. damage' # "NONE" /\ (damage' # "NEW_GAME" => damage # "NEW_GAME")
      BY <1>1
    <2>2. QED BY <1>1, <2>1, ScreenShows DEF Link, CrashesHaveACause
  <1>13. QED BY <1>8, <1>9, <1>10, <1>11, <1>12 DEF Link

\* The client has exited.
LEMMA LinkReadEnd ==
    ASSUME Link, idle_callback, ReadEnd
    PROVE  Link'
  <1>1. /\ gui' = "ENDED"
        /\ UNCHANGED <<clientVars, to_client, to_gui, started, latest, players, crossed,
                       surface, resizing, heard, damage, cleared>>
    BY DEF idle_callback, ReadEnd
  <1>2. GuiLinkTypeOK'
    BY <1>1 DEF Link, GuiLinkTypeOK, clientVars
  <1>3. InOrder' /\ Torn'
    BY <1>1 DEF Link, InOrder, Torn, clientVars
  <1>4. KeysTold' /\ DirectionFollowsKeys'
    BY <1>1, KeysKept DEF clientVars
  <1>5. ScreenIsAsTold' /\ CrashesHaveACause'
    BY <1>1, ScreenShows DEF Link, CrashesHaveACause
  <1>6. QED BY <1>2, <1>3, <1>4, <1>5 DEF Link

-----------------------------------------------------------------------------
(* The keys *)

\* An arrow goes down or up: its message is now the last one about it.
LEMMA LinkArrow ==
    ASSUME Link, Arrow
    PROVE  Link'
  <1>1. PICK side \in Side, down \in BOOLEAN : send_message(side, down)
    BY DEF Arrow
  <1>2. /\ gui = "RUNNING" /\ started' = TRUE
        /\ UNCHANGED <<clientVars, to_gui, players, crossed, surface, resizing,
                       heard, damage, cleared>>
    BY DEF Arrow
  <1>3. to_client \in Seq(KeyMessage)
    BY DEF Link, GuiLinkTypeOK
  <1>4. InOrder' /\ Torn'
    BY <1>2 DEF Link, InOrder, Torn, clientVars
  <1>5. DirectionFollowsKeys'
    BY <1>2 DEF Link, DirectionFollowsKeys, clientVars
  <1>6. ScreenIsAsTold'
    BY <1>2, ScreenShows DEF Link
  <1>7. gui' \in {"RUNNING", "ENDED"}
    BY <1>1, <1>2 DEF send_message
  <1>8. CrashesHaveACause'
    BY <1>7 DEF CrashesHaveACause
  <1>9. CASE /\ client = "RUNNING" /\ Len(to_client) < KeyBound
             /\ to_client' = Append(to_client,
                                    [side |-> side, down |-> down, torn |-> FALSE])
             /\ latest' = [latest EXCEPT ![side] = IF down THEN "DOWN" ELSE "UP"]
    <2> DEFINE message == [side |-> side, down |-> down, torn |-> FALSE]
               n == Len(to_client)
    <2>1. /\ message \in KeyMessage
          /\ message.side = side /\ message.down = down /\ message.torn = FALSE
      BY DEF KeyMessage
    <2> HIDE DEF message
    <2>2. /\ n \in Nat /\ DOMAIN to_client = 1 .. n
          /\ to_client' \in Seq(KeyMessage) /\ Len(to_client') = n + 1
          /\ DOMAIN to_client' = 1 .. n + 1
          /\ \A i \in 1 .. n : to_client'[i] = to_client[i]
          /\ to_client'[n + 1] = message
      <3>1. to_client' = Append(to_client, message)
        BY <1>9 DEF message
      <3>2. QED BY <1>3, <2>1, <3>1, PushProperties
    <2>3. GuiLinkTypeOK'
      <3>1. Len(to_client') <= KeyBound
        BY <1>9, <2>2, ScriptFacts
      <3>2. QED BY <1>2, <1>7, <2>2, <3>1 DEF Link, GuiLinkTypeOK, clientVars
    <2> HIDE DEF n
    <2>4. /\ latest \in [Side -> {"UP", "DOWN", "LOST"}]
          /\ latest' \in [Side -> {"UP", "DOWN", "LOST"}]
          /\ latest'[side] = IF down THEN "DOWN" ELSE "UP"
          /\ \A other \in Side \ {side} : latest'[other] = latest[other]
      BY <1>9 DEF Link, KeysTold
    <2>5. \A k \in DOMAIN to_client' : to_client'[k].torn => k = 1
      <3>1. \A k \in DOMAIN to_client' :
               (k \in DOMAIN to_client /\ to_client'[k] = to_client[k]) \/ k = n + 1
        BY <2>2
      <3>2. QED BY <2>1, <2>2, <3>1 DEF Link, KeysTold
    <2>6. ASSUME NEW k \in DOMAIN to_client', to_client'[k].side = side, IsLast(to_client, k)'
          PROVE  to_client'[k] = message
      <3>1. CASE k = n + 1
        BY <2>2, <3>1
      <3>2. CASE k # n + 1
        <4>1. n + 1 \in k + 1 .. Len(to_client')
          BY <2>2, <3>2
        <4>2. QED BY <2>1, <2>2, <2>6, <4>1 DEF IsLast
      <3>3. QED BY <3>1, <3>2
    <2>7. Mentions(to_client, side)'
      BY <2>1, <2>2 DEF Mentions
    <2>8. ASSUME NEW other \in Side \ {side}
          PROVE  /\ Mentions(to_client, other) => Mentions(to_client, other)'
                 /\ \A k \in DOMAIN to_client' :
                       to_client'[k].side = other /\ IsLast(to_client, k)' =>
                           /\ k \in DOMAIN to_client /\ to_client'[k] = to_client[k]
                           /\ IsLast(to_client, k)
      <3>1. Mentions(to_client, other) => Mentions(to_client, other)'
        BY <2>2 DEF Mentions
      <3>2. ASSUME NEW k \in DOMAIN to_client', to_client'[k].side = other,
                   IsLast(to_client, k)'
            PROVE  /\ k \in DOMAIN to_client /\ to_client'[k] = to_client[k]
                   /\ IsLast(to_client, k)
        <4>1. k \in DOMAIN to_client /\ to_client'[k] = to_client[k]
          BY <2>1, <2>2, <3>2
        <4>2. \A j \in k + 1 .. n : /\ j \in k + 1 .. Len(to_client')
                                    /\ to_client'[j] = to_client[j]
          BY <2>2, <4>1
        <4>3. IsLast(to_client, k)
          BY <3>2, <4>1, <4>2 DEF IsLast, n
        <4>4. QED BY <4>1, <4>3
      <3>3. QED BY <3>1, <3>2
    <2>9. ASSUME NEW s \in Side, latest'[s] # "LOST"
          PROVE  /\ \A k \in DOMAIN to_client' :
                       to_client'[k].side = s /\ IsLast(to_client, k)' =>
                           /\ ~to_client'[k].torn
                           /\ to_client'[k].down <=> latest'[s] = "DOWN"
                 /\ ~Mentions(to_client, s)' => (key_down'[s] <=> latest'[s] = "DOWN")
      <3>1. CASE s = side
        <4>1. \A k \in DOMAIN to_client' :
                 to_client'[k].side = s /\ IsLast(to_client, k)' =>
                     /\ ~to_client'[k].torn
                     /\ to_client'[k].down <=> latest'[s] = "DOWN"
          BY <2>1, <2>4, <2>6, <3>1
        <4>2. QED BY <2>7, <3>1, <4>1
      <3>2. CASE s # side
        <4>1. s \in Side \ {side} /\ latest'[s] = latest[s] /\ key_down'[s] = key_down[s]
          BY <1>2, <2>4, <3>2 DEF clientVars
        <4>2. /\ \A k \in DOMAIN to_client :
                    to_client[k].side = s /\ IsLast(to_client, k) =>
                        /\ ~to_client[k].torn
                        /\ to_client[k].down <=> latest[s] = "DOWN"
              /\ ~Mentions(to_client, s) => (key_down[s] <=> latest[s] = "DOWN")
          BY <1>9, <2>9, <4>1 DEF Link, KeysTold
        <4>3. /\ Mentions(to_client, s) => Mentions(to_client, s)'
              /\ \A k \in DOMAIN to_client' :
                    to_client'[k].side = s /\ IsLast(to_client, k)' =>
                        /\ k \in DOMAIN to_client /\ to_client'[k] = to_client[k]
                        /\ IsLast(to_client, k)
          BY <2>8, <4>1
        <4>4. ASSUME NEW k \in DOMAIN to_client', to_client'[k].side = s,
                     IsLast(to_client, k)'
              PROVE  /\ ~to_client'[k].torn
                     /\ to_client'[k].down <=> latest'[s] = "DOWN"
          BY <4>1, <4>2, <4>3, <4>4
        <4>5. ASSUME ~Mentions(to_client, s)'
              PROVE  key_down'[s] <=> latest'[s] = "DOWN"
          BY <4>1, <4>2, <4>3, <4>5
        <4>6. QED BY <4>4, <4>5
      <3>3. QED BY <3>1, <3>2
    <2>10. KeysTold'
      BY <2>4, <2>5, <2>9 DEF KeysTold
    <2>11. QED BY <1>4, <1>5, <1>6, <1>8, <2>3, <2>10 DEF Link
  <1>10. CASE UNCHANGED <<to_client, latest>>
    <2>1. KeysTold'
      BY <1>2, <1>10, KeysKept DEF clientVars
    <2>2. GuiLinkTypeOK'
      BY <1>2, <1>7, <1>10 DEF Link, GuiLinkTypeOK, clientVars
    <2>3. QED BY <1>4, <1>5, <1>6, <1>8, <2>1, <2>2 DEF Link
  <1>11. QED BY <1>1, <1>9, <1>10 DEF send_message

\* The last message about a key, taken by the client, is what the key is.
LEMMA LastCounts ==
    ASSUME NEW actions \in Seq(KeyMessage), NEW down \in [Side -> BOOLEAN],
           NEW k \in DOMAIN actions, IsLast(actions, k)
    PROVE  KeysAfter(actions, down)[actions[k].side] <=> actions[k].down
  <1> DEFINE s == actions[k].side
  <1>1. DOMAIN actions = 1 .. Len(actions) /\ Len(actions) \in Nat
    BY LenProperties
  <1>2. actions[k] \in KeyMessage
    BY <1>1, ElementOfSeq
  <1>3. s \in Side
    BY <1>2 DEF KeyMessage
  <1>4. Mentions(actions, s)
    BY DEF Mentions
  <1>5. ASSUME NEW j \in DOMAIN actions, actions[j].side = s, IsLast(actions, j)
        PROVE  j = k
    <2>1. j \in Nat /\ k \in Nat /\ j <= Len(actions) /\ k <= Len(actions)
      BY <1>1
    <2>2. ~(j < k)
      <3>1. j < k => k \in j + 1 .. Len(actions)
        BY <1>1, <2>1
      <3>2. QED BY <1>5, <3>1 DEF IsLast
    <2>3. ~(k < j)
      <3>1. k < j => j \in k + 1 .. Len(actions)
        BY <1>1, <2>1
      <3>2. QED BY <1>5, <3>1 DEF IsLast
    <2>4. QED BY <2>1, <2>2, <2>3
  <1>6. KeysAfter(actions, down)[s] =
           \E j \in DOMAIN actions :
               actions[j].side = s /\ IsLast(actions, j) /\ actions[j].down
    BY <1>3, <1>4 DEF KeysAfter
  <1>7. QED BY <1>5, <1>6

\* Keys and direction after a message from the GUI: the loop leaves them in
\* agreement, whatever the actions and their order.
LEMMA HandleActions ==
    ASSUME Link, NEW actions \in Seq(KeyMessage), handle_actions(actions)
    PROVE  /\ key_down' \in [Side -> BOOLEAN]
           /\ turn_direction' \in Side \cup {"FORWARD"}
           /\ DirectionFollowsKeys'
  <1>1. /\ key_down \in [Side -> BOOLEAN] /\ turn_direction \in Side \cup {"FORWARD"}
        /\ DirectionFollowsKeys
    BY DEF Link, GuiLinkTypeOK
  <1>2. key_down' = KeysAfter(actions, key_down)
    BY DEF handle_actions
  <1>3. key_down' \in [Side -> BOOLEAN]
    <2>1. \A side \in Side :
             (IF Mentions(actions, side)
              THEN \E k \in DOMAIN actions :
                       actions[k].side = side /\ IsLast(actions, k) /\ actions[k].down
              ELSE key_down[side]) \in BOOLEAN
      BY <1>1
    <2>2. QED BY <1>2, <2>1 DEF KeysAfter
  <1>4. CASE actions = <<>>
    <2>1. \A side \in Side : ~Mentions(actions, side)
      BY <1>4 DEF Mentions
    <2>2. \A side \in Side : key_down'[side] = key_down[side]
      BY <1>2, <2>1 DEF KeysAfter
    <2>3. turn_direction' = turn_direction
      BY <1>4 DEF handle_actions
    <2>4. DirectionFollowsKeys'
      BY <1>1, <2>2, <2>3 DEF DirectionFollowsKeys
    <2>5. QED BY <1>1, <1>3, <2>3, <2>4
  <1>5. CASE actions # <<>>
    <2> DEFINE n == Len(actions)
               s == actions[n].side
    <2>1. n \in Nat /\ n \in DOMAIN actions /\ actions[n] \in KeyMessage
      <3>1. Len(actions) \in Nat /\ Len(actions) > 0 /\ DOMAIN actions = 1 .. Len(actions)
        BY <1>5, EmptySeq, LenProperties
      <3>2. QED BY <3>1, ElementOfSeq
    <2>2. IsLast(actions, n)
      BY <2>1 DEF IsLast
    <2>3. key_down'[s] <=> actions[n].down
      BY <1>1, <1>2, <2>1, <2>2, LastCounts
    <2>4. s \in Side /\ Other(s) \in Side /\ Side = {s, Other(s)}
      BY <2>1 DEF KeyMessage, Side, Other
    <2>5. turn_direction' = Direction(actions[n], key_down')
      BY <1>5 DEF handle_actions, Last
    <2> HIDE DEF n
    <2>6. turn_direction' = IF actions[n].down THEN s
                            ELSE IF key_down'[Other(s)] THEN Other(s) ELSE "FORWARD"
      BY <2>5 DEF Direction
    <2> HIDE DEF s
    <2>7. s # "FORWARD" /\ Other(s) # "FORWARD"
      BY <2>4 DEF Side
    <2>8. DirectionFollowsKeys'
      <3>1. CASE actions[n].down
        <4>1. turn_direction' = s /\ key_down'[s]
          BY <2>3, <2>6, <3>1
        <4>2. QED BY <2>7, <4>1 DEF DirectionFollowsKeys
      <3>2. CASE ~actions[n].down /\ key_down'[Other(s)]
        <4>1. turn_direction' = Other(s)
          BY <2>6, <3>2
        <4>2. QED BY <2>7, <3>2, <4>1 DEF DirectionFollowsKeys
      <3>3. CASE ~actions[n].down /\ ~key_down'[Other(s)]
        <4>1. turn_direction' = "FORWARD" /\ ~key_down'[s]
          BY <2>3, <2>6, <3>3
        <4>2. \A side \in Side : ~key_down'[side] /\ turn_direction' # side
          BY <2>4, <2>7, <3>3, <4>1
        <4>3. QED BY <4>2 DEF DirectionFollowsKeys
      <3>4. QED BY <3>1, <3>2, <3>3
    <2>9. turn_direction' \in Side \cup {"FORWARD"}
      BY <2>4, <2>6
    <2>10. QED BY <1>3, <2>8, <2>9
  <1>6. QED BY <1>4, <1>5

\* What is left of the stream: the messages behind those read, in their order.
LEMMA UnreadProperties ==
    ASSUME to_client \in Seq(KeyMessage), NEW n \in 0 .. Len(to_client), NEW cut \in BOOLEAN,
           cut => n < Len(to_client)
    PROVE  /\ Unread(n, cut) \in Seq(KeyMessage)
           /\ Len(Unread(n, cut)) = Len(to_client) - n
           /\ \A j \in 1 .. Len(to_client) - n :
                 /\ Unread(n, cut)[j].side = to_client[n + j].side
                 /\ Unread(n, cut)[j].down = to_client[n + j].down
                 /\ Unread(n, cut)[j].torn = (to_client[n + j].torn \/ (cut /\ j = 1))
  <1> DEFINE rest == SubSeq(to_client, n + 1, Len(to_client))
             m == Len(to_client) - n
  <1>1. /\ Len(to_client) \in Nat /\ n \in Nat /\ m \in Nat
        /\ \A i \in 1 .. Len(to_client) : to_client[i] \in KeyMessage
    BY LenProperties, ElementOfSeq
  <1>2. /\ rest \in Seq(KeyMessage) /\ Len(rest) = m
        /\ \A j \in 1 .. m : rest[j] = to_client[n + j]
    <2>1. /\ rest \in Seq(KeyMessage)
          /\ Len(rest) = (IF n + 1 <= Len(to_client) THEN Len(to_client) - (n + 1) + 1 ELSE 0)
          /\ \A j \in 1 .. Len(to_client) - (n + 1) + 1 : rest[j] = to_client[n + 1 + j - 1]
      BY <1>1, SubSeqProperties
    <2>2. QED BY <1>1, <2>1
  <1>3. \A j \in 1 .. m : to_client[n + j] \in KeyMessage
    <2>1. \A j \in 1 .. m : n + j \in 1 .. Len(to_client)
      BY <1>1
    <2>2. QED BY <1>1, <2>1
  <1> HIDE DEF rest, m
  <1>4. CASE ~cut
    <2>1. Unread(n, cut) = rest
      BY <1>4 DEF Unread, rest
    <2>2. \A j \in 1 .. m : to_client[n + j].torn = (to_client[n + j].torn \/ (cut /\ j = 1))
      BY <1>3, <1>4 DEF KeyMessage
    <2>3. QED BY <1>2, <2>1, <2>2 DEF m
  <1>5. CASE cut
    <2> DEFINE first == [Head(rest) EXCEPT !.torn = TRUE]
    <2>1. rest # <<>> /\ m > 0
      <3>1. m > 0
        BY <1>1, <1>5 DEF m
      <3>2. QED BY <1>2, <3>1, EmptySeq
    <2>2. /\ Head(rest) = rest[1] /\ Head(rest) \in KeyMessage
          /\ Tail(rest) \in Seq(KeyMessage) /\ Len(Tail(rest)) = m - 1
          /\ \A i \in 1 .. m - 1 : Tail(rest)[i] = rest[i + 1]
      BY <1>2, <2>1, PopProperties
    <2>3. /\ first \in KeyMessage /\ first.torn = TRUE
          /\ first.side = rest[1].side /\ first.down = rest[1].down
      BY <2>2 DEF KeyMessage
    <2>4. Unread(n, cut) = <<first>> \o Tail(rest)
      BY <1>5 DEF Unread, rest
    <2> HIDE DEF first
    <2>5. <<first>> \in Seq(KeyMessage) /\ Len(<<first>>) = 1 /\ <<first>>[1] = first
      BY <2>3
    <2>6. /\ Unread(n, cut) \in Seq(KeyMessage) /\ Len(Unread(n, cut)) = 1 + (m - 1)
          /\ \A j \in 1 .. 1 + (m - 1) :
                Unread(n, cut)[j] = IF j <= 1 THEN <<first>>[j] ELSE Tail(rest)[j - 1]
      BY <2>2, <2>4, <2>5, ConcatProperties
    <2>7. 1 + (m - 1) = m
      BY <1>1 DEF m
    <2>8. ASSUME NEW j \in 1 .. m
          PROVE  /\ Unread(n, cut)[j].side = to_client[n + j].side
                 /\ Unread(n, cut)[j].down = to_client[n + j].down
                 /\ Unread(n, cut)[j].torn = (to_client[n + j].torn \/ (cut /\ j = 1))
      <3>1. CASE j = 1
        <4>1. Unread(n, cut)[j] = first /\ rest[1] = to_client[n + 1]
          BY <1>2, <2>5, <2>6, <2>7, <3>1
        <4>2. QED BY <1>5, <2>3, <3>1, <4>1
      <3>2. CASE j # 1
        <4>1. j - 1 \in 1 .. m - 1 /\ ~(j <= 1) /\ (j - 1) + 1 = j
          BY <1>1, <3>2 DEF m
        <4>2. Unread(n, cut)[j] = to_client[n + j]
          BY <1>2, <2>2, <2>6, <2>7, <4>1
        <4>3. to_client[n + j].torn \in BOOLEAN
          BY <1>3 DEF KeyMessage
        <4>4. QED BY <3>2, <4>2, <4>3
      <3>3. QED BY <3>1, <3>2
    <2>9. QED BY <2>6, <2>7, <2>8 DEF m
  <1>6. QED BY <1>4, <1>5

\* The client reads key messages, whole and in parts, or the end of the stream.
LEMMA LinkGuiMessage ==
    ASSUME Link, handle_gui_message
    PROVE  Link'
  <1>1. /\ client = "RUNNING" /\ sending = <<>>
        /\ UNCHANGED <<sending, told, to_gui, guiVars, heard, damage, cleared>>
    BY DEF handle_gui_message, IsIdle
  <1>2. /\ to_client \in Seq(KeyMessage) /\ Len(to_client) <= KeyBound
        /\ key_down \in [Side -> BOOLEAN]
        /\ latest \in [Side -> {"UP", "DOWN", "LOST"}]
    BY DEF Link, GuiLinkTypeOK, KeysTold
  <1>3. /\ Len(to_client) \in Nat /\ DOMAIN to_client = 1 .. Len(to_client)
        /\ \A k \in DOMAIN to_client : to_client[k] \in KeyMessage
    BY <1>2, LenProperties, ElementOfSeq
  <1>4. InOrder' /\ Torn'
    BY <1>1 DEF Link, InOrder, Torn
  <1>5. ScreenIsAsTold' /\ CrashesHaveACause'
    BY <1>1, ScreenKept
  <1>6. CASE /\ client' = "EXITED" /\ to_client' = <<>>
             /\ UNCHANGED <<key_down, turn_direction, latest>>
    <2>1. to_client' \in Seq(KeyMessage) /\ Len(to_client') = 0 /\ 0 <= KeyBound
      BY <1>6, ScriptFacts
    <2>2. GuiLinkTypeOK'
      BY <1>1, <1>6, <2>1 DEF Link, GuiLinkTypeOK, guiVars
    <2>3. KeysTold'
      BY <1>2, <1>6 DEF KeysTold
    <2>4. DirectionFollowsKeys'
      BY <1>6 DEF Link, DirectionFollowsKeys
    <2>5. QED BY <1>4, <1>5, <2>2, <2>3, <2>4 DEF Link
  <1>7. ASSUME NEW n \in 0 .. Len(to_client), NEW cut \in BOOLEAN,
               cut => n < Len(to_client),
               NEW e \in Enumerations({ k \in 1 .. n : IsAction(to_client[k]) }),
               handle_actions([k \in DOMAIN e |-> to_client[e[k]]]),
               to_client' = Unread(n, cut), latest' = LatestAfter(n, cut),
               UNCHANGED client
        PROVE  Link'
    <2> DEFINE taken == { k \in 1 .. n : IsAction(to_client[k]) }
               actions == [k \in DOMAIN e |-> to_client[e[k]]]
               m == Len(to_client) - n
    <2>1. n \in Nat /\ m \in Nat /\ n + m = Len(to_client)
      BY <1>3
    <2>2. /\ e \in Seq(taken) /\ Cardinality(taken) \in Nat /\ Len(e) = Cardinality(taken)
          /\ DOMAIN e = 1 .. Cardinality(taken)
          /\ \A k \in taken : \E j \in DOMAIN e : e[j] = k
      <3>1. taken \in SUBSET (1 .. n) /\ e \in Enumerations(taken)
        BY <1>7
      <3> HIDE DEF taken
      <3>2. QED BY <2>1, <3>1, EnumerationProperties
    <2>3. \A j, k \in DOMAIN e : j < k => e[j] < e[k]
      BY <1>7 DEF Enumerations
    <2>4. \A j \in DOMAIN e : e[j] \in taken
      <3> HIDE DEF taken
      <3>1. QED BY <2>2, ElementOfSeq
    <2>5. \A j \in DOMAIN e : e[j] \in 1 .. n /\ e[j] \in DOMAIN to_client
      BY <1>3, <2>1, <2>4
    <2>6. /\ actions \in Seq(KeyMessage) /\ Len(actions) = Cardinality(taken)
          /\ DOMAIN actions = DOMAIN e
      <3> HIDE DEF taken
      <3>1. actions \in [1 .. Cardinality(taken) -> KeyMessage]
        BY <1>3, <2>2, <2>5
      <3> HIDE DEF actions
      <3>2. QED BY <2>2, <3>1, FunctionIsSeq
    <2>7. handle_actions(actions)
      BY <1>7
    <2>8. \A j \in DOMAIN e : actions[j] = to_client[e[j]]
      OBVIOUS
    <2> HIDE DEF actions, m
    <2>9. /\ key_down' \in [Side -> BOOLEAN] /\ turn_direction' \in Side \cup {"FORWARD"}
          /\ DirectionFollowsKeys'
      BY <2>6, <2>7, HandleActions
    <2>10. /\ to_client' \in Seq(KeyMessage) /\ Len(to_client') = m
           /\ DOMAIN to_client' = 1 .. m
           /\ \A j \in 1 .. m :
                 /\ to_client'[j].side = to_client[n + j].side
                 /\ to_client'[j].down = to_client[n + j].down
                 /\ to_client'[j].torn = (to_client[n + j].torn \/ (cut /\ j = 1))
      <3>1. /\ Unread(n, cut) \in Seq(KeyMessage)
            /\ Len(Unread(n, cut)) = Len(to_client) - n
            /\ \A j \in 1 .. Len(to_client) - n :
                  /\ Unread(n, cut)[j].side = to_client[n + j].side
                  /\ Unread(n, cut)[j].down = to_client[n + j].down
                  /\ Unread(n, cut)[j].torn = (to_client[n + j].torn \/ (cut /\ j = 1))
        BY <1>2, <1>7, UnreadProperties
      <3>2. DOMAIN Unread(n, cut) = 1 .. Len(to_client) - n
        BY <3>1, LenProperties
      <3>3. QED BY <1>7, <3>1, <3>2 DEF m
    <2>11. GuiLinkTypeOK'
      <3>1. Len(to_client') <= KeyBound
        BY <1>2, <2>1, <2>10, ScriptFacts
      <3>2. client' \in {"RUNNING", "EXITED"}
        BY <1>1, <1>7
      <3>3. QED BY <1>1, <2>9, <2>10, <3>1, <3>2 DEF Link, GuiLinkTypeOK, guiVars
    <2>12. latest' \in [Side -> {"UP", "DOWN", "LOST"}]
      BY <1>2, <1>7 DEF LatestAfter
    <2>13. \A k \in DOMAIN to_client' : to_client'[k].torn => k = 1
      <3> SUFFICES ASSUME NEW k \in 1 .. m, to_client'[k].torn, k # 1
                   PROVE  FALSE
        BY <2>10
      <3>1. to_client[n + k].torn
        BY <2>10
      <3>2. n + k \in DOMAIN to_client
        BY <1>3, <2>1
      <3>3. n + k = 1
        BY <3>1, <3>2 DEF Link, KeysTold
      <3>4. QED BY <2>1, <3>3
    <2>14. ASSUME NEW s \in Side, latest'[s] # "LOST"
           PROVE  /\ \A k \in DOMAIN to_client' :
                        to_client'[k].side = s /\ IsLast(to_client, k)' =>
                            /\ ~to_client'[k].torn
                            /\ to_client'[k].down <=> latest'[s] = "DOWN"
                  /\ ~Mentions(to_client, s)' => (key_down'[s] <=> latest'[s] = "DOWN")
      <3>1. /\ latest'[s] = latest[s]
            /\ ~(cut /\ to_client[n + 1].side = s /\ IsLast(to_client, n + 1))
        BY <1>7, <2>14 DEF LatestAfter
      <3>2. /\ \A k \in DOMAIN to_client :
                  to_client[k].side = s /\ IsLast(to_client, k) =>
                      /\ ~to_client[k].torn
                      /\ to_client[k].down <=> latest[s] = "DOWN"
            /\ ~Mentions(to_client, s) => (key_down[s] <=> latest[s] = "DOWN")
        BY <1>1, <2>14, <3>1 DEF Link, KeysTold
      <3>3. ASSUME NEW k \in DOMAIN to_client', to_client'[k].side = s, IsLast(to_client, k)'
            PROVE  /\ ~to_client'[k].torn
                   /\ to_client'[k].down <=> latest'[s] = "DOWN"
        <4>1. k \in 1 .. m /\ n + k \in DOMAIN to_client /\ to_client[n + k].side = s
          BY <1>3, <2>1, <2>10, <3>3
        <4>2. ASSUME NEW j \in (n + k) + 1 .. Len(to_client)
              PROVE  to_client[j].side # to_client[n + k].side
          <5>1. j - n \in k + 1 .. m /\ n + (j - n) = j /\ j - n \in 1 .. m
            BY <2>1, <4>1
          <5>2. to_client'[j - n].side # to_client'[k].side
            BY <2>10, <3>3, <5>1 DEF IsLast
          <5>3. QED BY <2>10, <4>1, <5>1, <5>2
        <4>3. IsLast(to_client, n + k)
          BY <4>2 DEF IsLast
        <4>4. ~to_client[n + k].torn /\ (to_client[n + k].down <=> latest[s] = "DOWN")
          BY <3>2, <4>1, <4>3
        <4>5. ~(cut /\ k = 1)
          BY <3>1, <4>1, <4>3
        <4>6. /\ to_client'[k].down = to_client[n + k].down
              /\ to_client'[k].torn = (to_client[n + k].torn \/ (cut /\ k = 1))
          BY <2>10, <4>1
        <4>7. QED BY <3>1, <4>4, <4>5, <4>6
      <3>4. ASSUME ~Mentions(to_client, s)'
            PROVE  key_down'[s] <=> latest'[s] = "DOWN"
        <4>1. ASSUME NEW j \in DOMAIN to_client, to_client[j].side = s
              PROVE  j <= n
          <5> SUFFICES ASSUME ~(j <= n) PROVE FALSE
            OBVIOUS
          <5>1. j - n \in 1 .. m /\ n + (j - n) = j
            BY <1>3, <2>1
          <5>2. to_client'[j - n].side = s
            BY <2>10, <4>1, <5>1
          <5>3. QED BY <2>10, <3>4, <5>1, <5>2 DEF Mentions
        <4>2. key_down' = KeysAfter(actions, key_down)
          BY <2>7 DEF handle_actions
        <4>3. CASE Mentions(to_client, s)
          <5> DEFINE T == { k \in DOMAIN to_client : to_client[k].side = s }
          <5>1. T \in SUBSET (1 .. Len(to_client)) /\ T # {}
            BY <1>3, <4>3 DEF Mentions
          <5> HIDE DEF T
          <5>2. PICK k \in T : \A j \in T : k >= j
            BY <1>3, <5>1, GreatestExists
          <5>3. k \in DOMAIN to_client /\ to_client[k].side = s
            BY <5>2 DEF T
          <5>4. IsLast(to_client, k)
            <6> SUFFICES ASSUME NEW j \in k + 1 .. Len(to_client),
                                to_client[j].side = to_client[k].side
                         PROVE  FALSE
              BY DEF IsLast
            <6>1. j \in DOMAIN to_client /\ ~(k >= j)
              BY <1>3, <5>3
            <6>2. j \in T
              BY <5>3, <6>1 DEF T
            <6>3. QED BY <5>2, <6>1, <6>2
          <5>5. ~to_client[k].torn /\ (to_client[k].down <=> latest[s] = "DOWN")
            BY <3>2, <5>3, <5>4
          <5>6. k \in 1 .. n
            BY <1>3, <2>1, <4>1, <5>3
          <5>7. k \in taken
            BY <5>5, <5>6 DEF IsAction
          <5>8. PICK i \in DOMAIN e : e[i] = k
            BY <2>2, <5>7
          <5>9. i \in DOMAIN actions /\ actions[i] = to_client[k]
            BY <2>6, <2>8, <5>8
          <5>10. IsLast(actions, i)
            <6> SUFFICES ASSUME NEW j \in i + 1 .. Len(actions)
                         PROVE  actions[j].side # actions[i].side
              BY DEF IsLast
            <6>1. i \in DOMAIN e /\ j \in DOMAIN e /\ i < j
              BY <2>2, <2>6
            <6>2. e[i] < e[j] /\ e[j] \in 1 .. n
              BY <2>3, <2>5, <6>1
            <6>3. e[j] \in k + 1 .. Len(to_client)
              BY <1>3, <2>1, <5>6, <5>8, <6>2
            <6>4. to_client[e[j]].side # to_client[k].side
              BY <5>4, <6>3 DEF IsLast
            <6>5. QED BY <2>8, <5>9, <6>1, <6>4
          <5>11. KeysAfter(actions, key_down)[actions[i].side] <=> actions[i].down
            BY <1>2, <2>6, <5>9, <5>10, LastCounts
          <5>12. QED BY <3>1, <4>2, <5>3, <5>5, <5>9, <5>11
        <4>4. CASE ~Mentions(to_client, s)
          <5>1. ~Mentions(actions, s)
            <6> SUFFICES ASSUME NEW j \in DOMAIN actions, actions[j].side = s
                         PROVE  FALSE
              BY DEF Mentions
            <6>1. e[j] \in DOMAIN to_client /\ to_client[e[j]].side = s
              BY <2>5, <2>6, <2>8
            <6>2. QED BY <4>4, <6>1 DEF Mentions
          <5>2. key_down'[s] = key_down[s]
            BY <4>2, <5>1 DEF KeysAfter
          <5>3. QED BY <3>1, <3>2, <4>4, <5>2
        <4>5. QED BY <4>3, <4>4
      <3>5. QED BY <3>3, <3>4
    <2>15. KeysTold'
      BY <2>12, <2>13, <2>14 DEF KeysTold
    <2>16. QED BY <1>4, <1>5, <2>9, <2>11, <2>15 DEF Link
  <1>8. QED
    <2>1. CASE \E n \in 0 .. Len(to_client), cut \in BOOLEAN :
              /\ n > 0 \/ cut
              /\ cut => n < Len(to_client)
              /\ \E e \in Enumerations({ k \in 1 .. n : IsAction(to_client[k]) }) :
                     handle_actions([k \in DOMAIN e |-> to_client[e[k]]])
              /\ to_client' = Unread(n, cut)
              /\ latest' = LatestAfter(n, cut)
              /\ UNCHANGED client
      <3>1. PICK n \in 0 .. Len(to_client), cut \in BOOLEAN :
              /\ cut => n < Len(to_client)
              /\ \E e \in Enumerations({ k \in 1 .. n : IsAction(to_client[k]) }) :
                     handle_actions([k \in DOMAIN e |-> to_client[e[k]]])
              /\ to_client' = Unread(n, cut)
              /\ latest' = LatestAfter(n, cut)
              /\ UNCHANGED client
        BY <2>1
      <3>2. PICK e \in Enumerations({ k \in 1 .. n : IsAction(to_client[k]) }) :
                handle_actions([k \in DOMAIN e |-> to_client[e[k]]])
        BY <3>1
      <3>3. QED BY <1>7, <3>1, <3>2
    <2>2. QED BY <1>6, <2>1 DEF handle_gui_message

-----------------------------------------------------------------------------
(* The theorems *)

\* Whatever the client, the GUI, GTK or the user does keeps the invariant.
LEMMA LinkNext == Link /\ [Next]_vars => Link'
  <1> SUFFICES ASSUME Link, [Next]_vars PROVE Link'
    OBVIOUS
  <1>1. CASE handle_server_message
    BY <1>1, LinkServerMessage
  <1>2. CASE gui_client_send_event
    BY <1>2, LinkSend
  <1>3. CASE handle_gui_message
    BY <1>3, LinkGuiMessage
  <1>4. CASE Arrow
    BY <1>4, LinkArrow
  <1>5. CASE OtherKey \/ destroy_window \/ configure_event
    BY <1>5, LinkWindow
  <1>6. CASE idle_callback
    BY <1>6, LinkReadLine, LinkReadPart, LinkReadEnd DEF idle_callback
  <1>7. CASE UNCHANGED vars
    <2>1. UNCHANGED <<clientVars, to_client, to_gui, guiVars, history>>
      BY <1>7 DEF vars
    <2>2. UNCHANGED <<client, key_down, turn_direction, to_client, latest>>
      BY <2>1 DEF clientVars, history
    <2>3. UNCHANGED <<guiVars, heard, damage, cleared>>
      BY <2>1 DEF history
    <2>4. GuiLinkTypeOK' /\ InOrder' /\ Torn'
      BY <2>1 DEF Link, GuiLinkTypeOK, InOrder, Torn, clientVars, guiVars, history
    <2>5. QED BY <2>2, <2>3, <2>4, KeysKept, ScreenKept DEF Link
  <1>8. QED BY <1>1, <1>2, <1>3, <1>4, <1>5, <1>6, <1>7 DEF Next

\* The lines come in the order of the script, only the first may have lost a
\* part, the keys are as told, and the screen shows what has been heard.
THEOREM LinkInvariant == Spec => []Link
  <1>1. QED BY LinkInit, LinkNext, PTL DEF Spec

\* Every variable of the client and the GUI keeps its type.
THEOREM GuiLinkTypeCorrect == Spec => []GuiLinkTypeOK
  <1>1. Link => GuiLinkTypeOK
    BY DEF Link
  <1>2. QED BY LinkInvariant, <1>1, PTL

\* turn_direction and the two flags of handle_gui_message never disagree,
\* however the stream of the GUI is cut.
THEOREM DirectionFollowsKeysCorrect == Spec => []DirectionFollowsKeys
  <1>1. Link => DirectionFollowsKeys
    BY DEF Link
  <1>2. QED BY LinkInvariant, <1>1, PTL

\* Once all is read, the client knows of each key what the GUI last said, but
\* for a message that came in two parts.
THEOREM KeysAreFollowedCorrect == Spec => []KeysAreFollowed
  <1>1. Link => KeysAreFollowed
    <2> SUFFICES ASSUME Link, client = "RUNNING", to_client = <<>>,
                        NEW side \in Side, latest[side] # "LOST"
                 PROVE  key_down[side] = (latest[side] = "DOWN")
      BY DEF KeysAreFollowed
    <2>1. ~Mentions(to_client, side)
      BY DEF Mentions
    <2>2. key_down[side] <=> latest[side] = "DOWN"
      BY <2>1 DEF Link, KeysTold
    <2>3. key_down[side] \in BOOLEAN
      BY DEF Link, GuiLinkTypeOK
    <2>4. QED BY <2>2, <2>3
  <1>2. QED BY LinkInvariant, <1>1, PTL

\* What the GUI shows is what it has heard since the area was last made anew, of
\* the one game it is hearing of once this has happened in the game, and nothing
\* of it is missing, but for a line or a NEW_GAME that came in two parts.
THEOREM ScreenIsAsToldCorrect == Spec => []ScreenIsAsTold
  <1>1. Link => ScreenIsAsTold
    BY DEF Link
  <1>2. QED BY LinkInvariant, <1>1, PTL

\* Only a line in two parts or a game of too many players crashes the GUI.
THEOREM CrashesHaveACauseCorrect == Spec => []CrashesHaveACause
  <1>1. Link => CrashesHaveACause
    BY DEF Link
  <1>2. QED BY LinkInvariant, <1>1, PTL

=============================================================================
