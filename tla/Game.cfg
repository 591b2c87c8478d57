SPECIFICATION MCSpec
CONSTANTS
    Session = {"s1", "s2", "s3"}
    Name = {"ann", "Ann", "bob"}
    NoName = NoName
    Entrants <- MCEntrants
    Rank <- MCRank
    Width = 5
    Height = 1
    GameId = {7}
    Turn = {0, 1}
    Sharp = FALSE
    ReadyBound = 3
INVARIANTS
    TypeOK
    OneEntryPerSession
    ReadyCovers
    StorageFollowsGame
    CountsAlive
    WormsAreWhereTheLogSays
    LogTellsTheGame
PROPERTIES
    NobodyIsForgotten
    RosterIsFixed
    ImplementsEventLog
    GameEnds
