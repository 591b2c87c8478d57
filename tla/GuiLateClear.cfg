SPECIFICATION Spec
CONSTANTS
    Name = {"ann", "bob", "cyd", "dan"}
    Width = 1
    Height = 1
    Script <- MCScript
    MaxPlayer = 2
    KeyRoom = 2
    KeyBound = 1
    LineBound = 1
PROPERTIES
    OnlyOldGamesAreWiped
CHECK_DEADLOCK FALSE
