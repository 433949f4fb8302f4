SPECIFICATION Spec
CONSTANTS
    Halves = {h1, h2}
    Addresses = {m1}
    None = None
    FaultSets = {{}}
PROPERTIES YieldsBeforeSplit
