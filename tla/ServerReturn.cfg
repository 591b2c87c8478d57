SPECIFICATION MCSpec
CONSTANTS
    Session = {1, 2, 3}
    Name = {"ann", "bob", "cec"}
    NoName = NoName
    Entrants <- MCEntrants
    Rank <- MCRank
    Width = 1
    Height = 1
    GameId = {7}
    Turn = {0, 1}
    Sharp = FALSE
    ReadyBound = 2
    Addr = {"a1", "a2", "a3"}
    Datagram <- ReturnDatagrams
    Capacity = 3
    MaxEvents = 2
    MaxClients = 3
    InboxBound = 1
    QueueBound = 1
CHECK_DEADLOCK FALSE
INVARIANTS
    PlayersAreServed
    PlayersNumberCounts
    NoGhostPlayers
PROPERTIES
    GameIsPlayed
    PlayersLeaveWhenDue
