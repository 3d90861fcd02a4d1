CONSTANTS
    Heads = {h1, h2}
    Entries = {a, b, c, d}
    Keys <- MCKeys
    Values = {v1, v2}
    Callbacks = {f, g}
    Depth = 2
    Room = 6
    Below = 1
    NULL = NULL
    RbNodes = {1, 2, 3, 4, 5, 6, 7, 8}
    Key <- MCKey
    NIL = NIL
SPECIFICATION MCSpec
SYMMETRY Symmetric
INVARIANTS LinksInverse ContainAgrees RedBlack LookupsAgree BackPointersSound SearchAgrees OnStays OnceSpent
PROPERTIES ImplementsLists ImplementsOrderedList
\* A search tree that has crashed stops.
CHECK_DEADLOCK FALSE
