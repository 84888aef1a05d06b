SPECIFICATION FairSpec
CONSTANTS
    ByteSize = 6
    Slots = 3
    MaxBots = 1
    MaxExtra = 1
    MaxTime = 2
INVARIANTS
    CoversReport
    AgesWithTime
PROPERTIES
    FallsSlowly
    Converges
