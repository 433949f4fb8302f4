SPECIFICATION Spec
CONSTANTS
    Mice = {m1}
    Others = {}
    None = None
    MaxPaired = 1
    MaxCharacteristics = 2
    Needs <- MCNeeds
    Scenarios <- MCPower
PROPERTIES ClearRemovesMouseBond
CHECK_DEADLOCK FALSE
