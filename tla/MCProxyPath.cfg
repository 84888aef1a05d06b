SPECIFICATION PathSpec
CONSTANTS
    Clients = {c1, c2}
    Nodes = {n1, n2}
    None = None
    Self = Self
    Server = Server
    MaxConns = 2
    ExpireAfter = 1
    CheckEvery = 1
    MaxInFlight = 2
SYMMETRY Symmetry
INVARIANTS
    AnswersComeFromUsedNodes
PROPERTY
    ImplementsRelay
