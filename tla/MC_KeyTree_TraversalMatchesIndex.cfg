CONSTANTS
    a = a
    b = b
    c = c
    NULL = NULL
    Keys <- MC_Keys
    Nodes <- MC_Nodes
    Batches <- MC_Batches
    MaxCommitNodes = 3

SPECIFICATION Spec

INVARIANT TraversalMatchesIndex
