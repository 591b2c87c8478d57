SPECIFICATION FairSpec
CONSTANTS
    Name = {"ann", "bob", "cyd"}
    Width = 3
    Height = 1
    Games <- MCGames
    NameLength <- MCNameLength
    MaxSize = 50
    PushFailures = 1
    NetBound = 2
    Duplicates = 1
INVARIANTS
    DeliveryTypeOK
    DatagramsFit
    ScreenTellsOneGame
    NothingIsIllegal
PROPERTY ClientCatchesUp
