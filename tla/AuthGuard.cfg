SPECIFICATION Spec
CONSTANTS
    Connections = {c1, c2}
    Checks = {"first", "second"}
    RegisterFails = TRUE
INVARIANTS GuardInv LegacyOnlySelected
PROPERTIES PolicyImmutable
