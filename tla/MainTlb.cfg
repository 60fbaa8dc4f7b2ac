SPECIFICATION Spec
CONSTANTS
    TsMod = 16
    Page = {0, 1, 2}
    Asid = {0, 1}
    Configs <- MCConfigs
    SetIndex <- MCSetIndex
    Garbage <- MCGarbage
    StopAt = 5
    MaxRefs = 5
INVARIANTS TypeOK Placement NoDuplicate HitIsLive ThirdTimeHits CountersAddUp
PROPERTIES MRUSurvives
CHECK_DEADLOCK FALSE
