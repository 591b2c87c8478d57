SPECIFICATION FairSpec
CONSTANTS
    Name = {"ann", "bob", "cyd", "dan"}
    Width = 1
    Height = 1
    Script <- MCScript
    MaxPlayer = 2
    KeyRoom = 2
    KeyBound = 2
    LineBound = 1
INVARIANTS
    GuiLinkTypeOK
    DirectionFollowsKeys
    KeysAreFollowed
    ScreenIsAsTold
    CrashesHaveACause
PROPERTIES
    ClientFollowsGui
    GuiFollowsClient
    SendsReturn
CHECK_DEADLOCK FALSE
