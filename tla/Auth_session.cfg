SPECIFICATION Spec
CONSTANTS
    ClientTypes = {"mobile"}
    None = None
    MaxAttempts = 1
    PairingTtl = 1
    BootstrapTtl = 1
    AccessTtl = 1
    TicketTtl = 1
    SlidingTtl <- MCSliding
    AbsoluteTtl <- MCAbsolute
    Sessions = {s1}
    Bootstraps = {b1}
    Devices = {d1}
    Tokens = {t1, t2, t3, t4}
    Tickets = {k1, k2}
    MaxInFlight = 2
    MaxTime = 3
SYMMETRY Ids
INVARIANT StatusesAgree
INVARIANT RevokedHasNoConnection
INVARIANT TicketOpensOnce
INVARIANT RotationBoundedByOverlap
INVARIANT AbsoluteLifetime
PROPERTY ImplementsLifecycle
