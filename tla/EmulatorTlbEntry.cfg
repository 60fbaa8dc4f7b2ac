SPECIFICATION Spec
CONSTANTS
    Page = {0, 1, 4}
    High = {4}
    Base1 = "K"
    SectionPages = 4
    LargePages = 2
    SystemProt = 1
    AccessFlag = FALSE
    V7 = TRUE
    TargetPage <- MCTargetPage
    SubPages = 2
    Space = {"A", "B"}
    TlbSize = 2
    Mmio = {8}
    Tables <- MCTables
    Boot <- MCBoot
    Rights <- MCRights
    Guests <- MCGuests
INVARIANT InvalidationReaches
