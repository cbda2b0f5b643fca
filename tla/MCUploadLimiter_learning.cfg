CONSTANTS
    Senders = {s1, s2}
    Waits = {0}
    Pauses = {60000, 300000}
    None = None
    MaxSends = 4
    MaxPauses = 2
    MaxTroubles = 2
SPECIFICATION Spec
INVARIANTS
    LearningIsSane
    FloodIsHonoured
    BurstBounded
PROPERTIES
    RaiseAfterQuiet
SYMMETRY Symmetry
CHECK_DEADLOCK FALSE
