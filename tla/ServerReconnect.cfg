SPECIFICATION ServerSpec
CONSTANTS
    Session = {1, 2}
    Name = {"ann"}
    NoName = NoName
    Entrants <- MCEntrants
    Rank <- MCRank
    Width = 1
    Height = 1
    GameId = {7}
    Turn = {0, 1}
    Sharp = FALSE
    ReadyBound = 1
    Addr = {"a1"}
    Datagram <- ReconnectDatagrams
    Capacity = 1
    MaxEvents = 2
    MaxClients = 2
    InboxBound = 2
    QueueBound = 1
PROPERTY NewSessionsReconnect
