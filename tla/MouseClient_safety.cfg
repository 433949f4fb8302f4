SPECIFICATION SafeSpec
CONSTANTS
    Mice = {m1, m2}
    Others = {k}
    None = None
    MaxPaired = 2
    MaxCharacteristics = 2
    Needs <- MCNeeds
    Scenarios <- MCSafety
INVARIANTS ClientInv NoOrphanBond ReadyMeansUsable AttemptIsWatched KeepsLooking
PROPERTIES OnlyOwnBondsRemoved RegistrationInWindow ClearForgets
SYMMETRY MCSymmetry
CHECK_DEADLOCK FALSE
