SPECIFICATION FairMCSpec
CONSTANTS
    Session = {0, 1, 3, 4}
    Name = {"ann", "bob"}
    NoName = NoName
    Entrants <- MCEntrants
    Rank <- MCRank
    Width = 1
    Height = 1
    GameId = {7}
    Turn = {0, 1, 2}
    Sharp = FALSE
    ReadyBound = 3
    Addr = {"a1", "a2", "a3"}
    Datagram <- SilenceDatagrams
    Capacity = 1
    MaxEvents = 2
    MaxClients = 3
    InboxBound = 1
    QueueBound = 2
INVARIANTS
    ServerTypeOK
    ClientsAreServed
PROPERTIES
    SilentClientsAreDropped
    TurnsAreAskedFor
