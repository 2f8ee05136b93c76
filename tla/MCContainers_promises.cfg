SPECIFICATION Spec
CONSTANTS
    n1 = n1
    n2 = n2
    n3 = n3
    n4 = n4
    x1 = x1
    x2 = x2
    x3 = x3
    y1 = y1
    x = x
    y = y
    Strings <- MCStrings
    StringHash <- MCStringHash
    MapNodes <- MCMapNodes
    MapHash <- MCMapHash
    NameOf <- MCNameOf
    Data = {d, null}
    VecNames = {1, 2}
    MaxNames = 3
    Elems = {e1, e2, e3, e4}
    ListHeads = {h1, h2}
    POISON = poison
    Chars <- MCChars
    Octal <- MCOctal
    Pieces <- MCPieces
    Files <- MCFiles
    NUL = "NUL"
    MaxLength = 12
    NULL = null
SYMMETRY MCSymmetry
INVARIANTS
    VectorsOwnStrings
    RingsAreLists
PROPERTIES
    ImplementsNameSets
    ImplementsNameMaps
    ImplementsNameLists
    ImplementsTexts
CHECK_DEADLOCK FALSE
