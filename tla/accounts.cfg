SPECIFICATION Spec
CONSTANTS
    Owner = owner
    People = {owner, member}
    Requests = {r1, r2, r3}
    Seed = Seed
    MaxProjects = 1
    MaxSeconds = 1
    MaxFaults = 1
SYMMETRY Interchangeable
CHECK_DEADLOCK FALSE
INVARIANTS
    ResetEndsSessions
    ExchangedOnce
    InviteSupersedes
    JoinedOnce
    
PROPERTIES
    OwnerNeverRemoved
