SPECIFICATION Spec
CONSTANTS
    a1 = a1
    r1 = r1
    r2 = r2
    u1 = u1
    alert = alert
    Addresses = {a1}
    Requests = {r1, r2}
    AddressOf <- OneAddress
    Updates = {u1}
    Alerts = {alert}
    Messages <- AllMessages
    Length <- Lengths
    NoToken = NoToken
    Concurrency = 1
    MaxTries = 2
    MaxStalls = 1
    MaxFaults = 1
SYMMETRY Interchangeable
CHECK_DEADLOCK FALSE
INVARIANTS
    CompletedIsDelivered
    LogTellsTruth
    LinksWork
