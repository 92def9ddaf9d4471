SPECIFICATION Spec
CONSTANTS
    v1 = v1
    v2 = v2
    f1 = f1
    f2 = f2
    NoFile = NoFile
    NullPtr = NullPtr
    Throws = Throws
    Versions <- TwoVersions
    Kinds <- NoIR
    Fns <- TwoFns
    FnLists <- TwiceList
CHECK_DEADLOCK FALSE
INVARIANTS
    HandlesCounted
    SymbolsValid
    LookupByName
PROPERTIES
    SiblingsUndisturbed
