SPECIFICATION Spec
CONSTANTS
    None = None
    Kinds = {"redeem", "guess", "register", "issue", "consume", "touch", "revoke"}
    Sessions = {s1}
    Bootstraps = {b1, b2}
    Devices = {d1}
    Tokens = {t1}
    Tickets = {k1, k2}
    Txs = {x1, x2}
    MaxAttempts = 2
    MaxGuesses = 2
SYMMETRY Ids
INVARIANT TypeOK
INVARIANT BoundAfterCommit
PROPERTY RedeemedIsFinal
PROPERTY RevokedTogether
