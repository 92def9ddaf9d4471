SPECIFICATION Spec
CONSTANTS
    v1 = v1
    v2 = v2
    f1 = f1
    f2 = f2
    NoOne = NoOne
    Host = Host
    NullPtr = NullPtr
    Versions <- TwoVersions
    Fns <- TwoFns
    HostFns <- OneHostFn
    FnLists <- Lists
    MaxBins = 3
SYMMETRY VersionSymmetry
CHECK_DEADLOCK FALSE
INVARIANTS
    TablesAgree
    DefinitionsLoaded
    OneVersionRuns
    OwnCodeWhenApart
