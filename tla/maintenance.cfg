SPECIFICATION FairSpec
CONSTANTS
    Services = {s1}
    Incidents = {i1}
    Windows = {w1}
    Jobs = {j1}
    Requests = {}
    Tickers = {t1}
    Editors = {e1}
    Nobody = Nobody
    WarningThreshold = 1
    IncidentThreshold = 2
    CriticalThreshold = 3
    MaxFailures = 3
    MaxFaults = 1
    Updates <- ResolveUpdates
PROPERTIES
    RecoversEventually
    CompletedIsFinal
