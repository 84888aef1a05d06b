SPECIFICATION FairSpec
CONSTANT
    MaxVersion = 3
INVARIANTS
    NeverPartial
    VersionHasItsModule
    UpToDateLoadsTheNewest
PROPERTY
    KeyIsFetched
