SPECIFICATION FairSpec
CONSTANTS
    MaxVersion = 2
    WebCheckFrequency = 2
    Configs <- MCConfigs
INVARIANTS
    TypeOK
    UpToDateHasTheWorker
    OrphansOnlyAfterCrash
    OrderedSettingsParse
PROPERTY
    WorkersComeBack
