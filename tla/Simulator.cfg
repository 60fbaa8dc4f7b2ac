SPECIFICATION DriverSpec
CONSTANTS
    TsMod = 64
    Tuples <- MCTuples
    NtlbGeometry <- MCNtlbGeometry
    PwcGeometry <- MCPwcGeometry
    SetIndex <- MCSetIndex
    CACHE_MAX_ENTRIES = 5
    MaxTuples = 4
    Directories <- MCDirectories
    TlbSizes = {64}
    Digits <- MCDigits
    MaxTraceFiles = 2
INVARIANTS TypeOK AccsMatchMisses LookUpsMatchWork NeverDearerThanNoCache ColdStart CachesWellFormed ResultsInOrder
PROPERTY ListEnds
