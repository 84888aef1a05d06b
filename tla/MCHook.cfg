SPECIFICATION Spec
CONSTANTS
    Clients = {c1, c2}
    Nodes = {n1, n2}
    None = None
    Self = Self
    MaxConns = 2
    ExpireAfter = 2
    CheckEvery = 3
SYMMETRY Symmetry
INVARIANTS
    RoutedToLastNode
    SwitchNeverFaults
    DirectOnlyForACause
    RefusedBriefly
    TableInv
PROPERTIES
    KeptWhileActive
    StatusFollowsNode
