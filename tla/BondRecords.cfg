SPECIFICATION Spec
CONSTANTS
    Peers = {p1, p2}
    Secrets = {s1, s2}
    None = None
INVARIANTS BondsInv
PROPERTIES RecordsPreserved
SYMMETRY MCSymmetry
