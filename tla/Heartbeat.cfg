SPECIFICATION HeartbeatFairSpec
CONSTANTS
    Interval = 2
    MaxAge = 6
    MaxTick = 2
    MaxWrite = 1
    MaxSkew = 2
    MaxCrashes = 1
    StorageKinds = {"ok", "full", "readonly", "broken"}
INVARIANTS
    HeartbeatTypeOK
    HealthyIsRecent
    LiveIsHealthy
    ExitIsUnhealthy
PROPERTY StopIsServed
