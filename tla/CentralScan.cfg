SPECIFICATION Spec
CONSTANTS
    Halves = {h1, h2}
    Addresses = {m1, m2}
    None = None
    FaultSets <- MCFaultSets
INVARIANTS ScanInv
PROPERTIES OnlyOwnScanStopped AddressKept YieldsToSplit SplitServed MouseServed
