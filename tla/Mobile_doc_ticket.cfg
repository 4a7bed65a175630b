SPECIFICATION Spec
CONSTANTS
    Sockets = {s1, s2}
    NoSocket = null
    Calls = {c1, c2}
    MaxDevices = 1
    MaxTickets = 2
    MaxPrompts = 1
    MaxTokens = 2
    MaxWork = 2
SYMMETRY Symmetric
INVARIANT ReconnectsWithNewTicket
