SPECIFICATION Spec
CONSTANTS
    Session = {"s1", "s2", "s3"}
    Name = {"ann", "Ann", "bob"}
    NoName = NoName
    Entrants <- MCEntrants
    Rank <- MCRank
    Width = 1
    Height = 1
    GameId = {7}
    Turn = {0, 1}
    Sharp = TRUE
    ReadyBound = 4
PROPERTY StartsOnlyWhenAllReady
