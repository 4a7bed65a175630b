SPECIFICATION FairSpec
CONSTANTS
    MaxQueue = 2
    MaxBatch = 2
    IngestMax = 2
    DedupTtl = 1
    Malformed = {2}
    Modes = {"mock", "xreal_g2_ble_stub", "ble"}
    Delivery = {f1, f2}
    MaxEvents <- EventsOf
    MaxAttempts = 2
    MaxTime = 1
INVARIANT TypeOK
INVARIANT SurvivesMaxQueue
INVARIANT RetriesWhileStarted
INVARIANT RecordedOnce
PROPERTY ImplementsEventLog
PROPERTY Delivered
