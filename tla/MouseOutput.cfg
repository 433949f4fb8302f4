SPECIFICATION Spec
CONSTANTS
    Buttons = {0}
    QueueSize = 2
    Axes <- MCAxes
    Motions <- MCMotions
    Limit <- MCLimit
    MaxPackets = 3
    MaxEpoch = 3
INVARIANTS OutputInv HeldStaySuppressed NoStuckButton
PROPERTIES ImplementsStream WholeReport ResetHonoured ReleasedAfterLoss StaysReleased
CHECK_DEADLOCK FALSE
