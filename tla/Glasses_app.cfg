SPECIFICATION Spec
CONSTANTS
    Calls = {c1, c2}
    NoCall = null
    MaxTokens = 2
    MaxPrompts = 2
    MaxWork = 3
SYMMETRY Symmetric
INVARIANT TypeOK
INVARIANT WorkIsUnderWay
INVARIANT RepairForgets
