SPECIFICATION FairSpec
CONSTANTS
    e1 = e1
    e2 = e2
    k1 = k1
    u1 = u1
    u2 = u2
    Events = {e1, e2}
    Issues = {k1}
    Users = {u1, u2}
    NoUser = NoUser
    IssueOf <- OneIssue
    UserOf <- OneAnonymous
    Edits = {r1}
    MaxFaults = 2
CHECK_DEADLOCK FALSE
INVARIANTS
    TypeOK
    CountCovers
    SurvivesOneFault
    AnnouncedOnce
PROPERTIES
    EventsSettle
