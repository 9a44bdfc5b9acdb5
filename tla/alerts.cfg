SPECIFICATION Spec
CONSTANTS
    k1 = k1
    Rules = {k1}
    Channels = {c1, c2}
    Evaluations = {e1, e2}
    TriggerOf <- Single
    NoRule = NoRule
    Nobody = Nobody
    MaxFires = 2
    MaxEdits = 1
    MaxFaults = 1
SYMMETRY Interchangeable
INVARIANTS
    CooldownHolds
    LostOnlyByFault
