SPECIFICATION StreakSpec
CONSTANTS
    Services = {s1}
    Incidents = {i1, i2}
    Windows = {}
    Jobs = {j1, j2}
    Requests = {r1}
    Tickers = {}
    Editors = {}
    Nobody = Nobody
    WarningThreshold = 1
    IncidentThreshold = 2
    CriticalThreshold = 3
    MaxFailures = 3
    MaxFaults = 1
    Updates <- LifeUpdates
SYMMETRY Interchangeable
INVARIANTS
    TypeOK
    OneFreshIncident
    Consistent
    OutageHasIncident
    CriticalOutageIsCritical
PROPERTIES
    IncidentNeedsStreak
