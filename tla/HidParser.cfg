SPECIFICATION ParserSpec
CONSTANTS
    ByteBits = 1
    WordBits = 16
    Scenarios <- MCScenarios
INVARIANTS LayoutInv MouseFieldsOnly UsagesFound
