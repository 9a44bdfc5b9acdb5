SPECIFICATION FairSpec
CONSTANTS
    Services = {s1}
    Incidents = {i1, i2}
    Windows = {}
    Jobs = {j1}
    Requests = {r1}
    Tickers = {}
    Editors = {}
    Nobody = Nobody
    WarningThreshold = 1
    IncidentThreshold = 2
    CriticalThreshold = 3
    MaxFailures = 3
    MaxFaults = 0
    Updates <- AllUpdates
PROPERTIES
    LifecycleSpec
    ExecutionsEnd
    RecoversEventually
