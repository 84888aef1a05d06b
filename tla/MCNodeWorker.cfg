SPECIFICATION FairSpec
CONSTANTS
    PortCount = 3
    PortStep = 2
    Settings <- MCSettings
    MaxProcs = 2
    MaxWaiting = 2
INVARIANTS
    WorkersAreHeard
PROPERTIES
    DatagramsReachTheirPart
    DatagramsAreTaken
    PortsAreServed
