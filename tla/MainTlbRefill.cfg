SPECIFICATION Spec
CONSTANTS
    TsMod = 16
    Page = {0, 1, 2}
    Asid = {0, 1}
    Configs <- MCTwoSets
    SetIndex <- MCSetIndex
    Garbage <- MCGarbage
    StopAt = 5
    MaxRefs = 4
INVARIANT RefillIsFindable
CHECK_DEADLOCK FALSE
