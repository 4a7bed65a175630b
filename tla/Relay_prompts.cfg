SPECIFICATION FairSpec
CONSTANTS
    Devices = {d1}
    Connections = {c1}
    Prompts = {p1}
    Requests = {h1, h2}
    None = None
    HeartbeatInterval = 2
    PongTimeout = 0
    StaleMissCount = 1
    TimerLag = 0
    Retention = 1
    DurableStore = TRUE
    MaxTime = 1
INVARIANT RetryIsFree
INVARIANT AnsweredIsRemembered
PROPERTY RequestsEnd
