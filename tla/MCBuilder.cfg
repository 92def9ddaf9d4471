SPECIFICATION Spec
CONSTANTS
    b1 = b1
    v1 = v1
    v2 = v2
    f = f
    g = g
    w = w
    None = None
    Builders <- OneBuilder
    Versions <- TwoVersions
    FnNames <- MCNames
    Words <- MCWords
    OptionLists <- MCLists
    OptionTags <- MCTags
    MaxCalls = 2
SYMMETRY MCSymmetry
CHECK_DEADLOCK FALSE
INVARIANTS
    BuiltAsAsked
    IndexNamesFunction
    LingersOnlyInBuilder
    RemovalAsConfigured
