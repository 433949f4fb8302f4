SPECIFICATION Spec
CONSTANTS
    Addresses = {a1, a2, a3}
    NoAddress = NoAddress
    Slots = 2
    Window = 2
    Wrap = 16
    Starts = {1, 14}
    Span = 3
INVARIANTS TableInv AskedIsMouse
PROPERTIES MouseIsFound
SYMMETRY MCSymmetry
