SPECIFICATION Spec
CONSTANTS
    MasterCount = 2
    RefreshInfo = 1
    RefreshMaster = 2
    RefreshPly = 3
    NoMaster = TRUE
    SharedPort = TRUE
    A2SIgnore = TRUE
INVARIANTS
    SilentUntilHeard
PROPERTIES
    HiddenFromMasters
