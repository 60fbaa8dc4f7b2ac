SPECIFICATION Spec
CONSTANTS
    TsMod = 8
    Page = {0, 1}
    Asid = {0, 1}
    Configs <- MCConfigs
    SetIndex <- MCSetIndex
    Garbage <- MCGarbage
    StopAt = 5
    MaxRefs = 5
    Size = 3
PROPERTIES ImplementsLRU
CHECK_DEADLOCK FALSE
