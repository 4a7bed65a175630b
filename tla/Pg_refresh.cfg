SPECIFICATION FairSpec
CONSTANTS
    None = None
    Kinds = {"redeem", "register", "refresh", "revoke"}
    Sessions = {s1}
    Bootstraps = {b1}
    Devices = {d1}
    Tokens = {t1, t2, t3}
    Tickets = {}
    Txs = {x1, x2}
    MaxAttempts = 2
    MaxGuesses = 2
INVARIANT LateRefreshMintsNothing
PROPERTY UsedIsFinal
PROPERTY EveryTransactionEnds
