SPECIFICATION TracerSpec
CONSTANTS
    TsMod = 16
    Page = {0, 1}
    Asid = {0, 1}
    Configs <- MCConfigs
    SetIndex <- MCSetIndex
    Garbage <- MCGarbage
    StopAt = 4
    MaxRefs = 4
    File <- MCFile
    NoFile = NoFile
    BufWords = 8
    ShortWrites = FALSE
    Minutes = {0, 1}
    NameOf <- MCNameOf
    Walks <- MCWalks
INVARIANTS TracerTypeOK TraceComplete EveryMissRecorded BufferHasRoom HooksAreSafe
CHECK_DEADLOCK FALSE
