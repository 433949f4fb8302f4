SPECIFICATION ReportsSpec
CONSTANTS
    ByteBits = 2
    WordBits = 2
    c1 = c1
    c2 = c2
    Scenarios <- MCScenarios
INVARIANTS DecodeInv PhysicalIsTrue
SYMMETRY MCSymmetry
