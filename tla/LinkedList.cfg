SPECIFICATION Spec
CONSTANTS
    Node = {1, 2, 3, 4}
    NULL = NULL
    Value = {"ann", "Ann", "bob"}
    Rank <- MCRank
INVARIANTS
    NodesAreLinked
    NoNodeIsLost
PROPERTIES
    ImplementsSequences
    SortIsStable
