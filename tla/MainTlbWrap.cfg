SPECIFICATION Spec
CONSTANTS
    TsMod = 3
    Page = {0, 1, 2}
    Asid = {0, 1}
    Configs <- MCOneSet
    SetIndex <- MCSetIndex
    Garbage <- MCGarbage
    StopAt = 6
    MaxRefs = 5
PROPERTY MRUSurvives
CHECK_DEADLOCK FALSE
