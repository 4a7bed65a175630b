SPECIFICATION FairSpec
CONSTANTS
    ClientTypes = {"mobile", "even_hub"}
    None = None
    MaxAttempts = 2
    PairingTtl = 1
    BootstrapTtl = 1
    AccessTtl = 1
    TicketTtl = 1
    SlidingTtl <- TwoSliding
    AbsoluteTtl <- TwoAbsolute
    Sessions = {s1, s2}
    Bootstraps = {b1, b2}
    Devices = {d1, d2}
    Tokens = {t1, t2}
    Tickets = {}
    MaxInFlight = 1
    MaxTime = 2
INVARIANT TypeOK
INVARIANT OneDevicePerPairing
INVARIANT LockedPairingIsDead
PROPERTY ExpiredTokenSwept
PROPERTY ImplementsLifecycle
