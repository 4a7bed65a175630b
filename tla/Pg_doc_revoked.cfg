SPECIFICATION Spec
CONSTANTS
    None = None
    Kinds = {"redeem", "register", "issue", "consume", "revoke"}
    Sessions = {s1}
    Bootstraps = {b1}
    Devices = {d1}
    Tokens = {t1}
    Tickets = {k1}
    Txs = {x1, x2}
    MaxAttempts = 2
    MaxGuesses = 2
SYMMETRY Ids
INVARIANT RevocationHolds
