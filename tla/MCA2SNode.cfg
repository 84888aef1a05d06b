SPECIFICATION FairSpec
CONSTANTS
    MasterCount = 2
    RefreshInfo = 1
    RefreshMaster = 1
    RefreshPly = 2
    NoMaster = FALSE
    SharedPort = FALSE
    A2SIgnore = FALSE
PROPERTIES
    InfoIsObtained
    RefreshesForever
    EveryMasterIsContacted
