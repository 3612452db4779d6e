SPECIFICATION Spec
CONSTANTS
    Vars = {x, y}
    x = x
    y = y
    Texts <- MCTexts
    Blocks <- MCBlocks
    MaxDepth = 3
SYMMETRY Symmetry
VIEW Memory
INVARIANTS
    OwnedOnce
    Readable
PROPERTY
    CopiesApart
CHECK_DEADLOCK FALSE
