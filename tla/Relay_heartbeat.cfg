SPECIFICATION Spec
CONSTANTS
    Devices = {d1}
    Connections = {c1, c2}
    Prompts = {}
    Requests = {}
    None = None
    HeartbeatInterval = 2
    PongTimeout = 2
    StaleMissCount = 2
    TimerLag = 1
    Retention = 1
    DurableStore = TRUE
    MaxTime = 10
SYMMETRY Ids
INVARIANT TypeOK
INVARIANT OnlyActiveIsOpen
INVARIANT TimerWhileActive
INVARIANT SilenceIsBounded
INVARIANT DroppedOnlyAfterMisses
