SPECIFICATION ReceiverSpec
CONSTANTS
    Mice = {m1}
    Others = {}
    None = None
    MaxPaired = 1
    MaxCharacteristics = 2
    Needs <- MCNeeds
    Scenarios <- MCClear
PROPERTIES ImplementsSession ClearEnds
CHECK_DEADLOCK FALSE
