SPECIFICATION MCSpec
CONSTANTS
    Keys = {k1, k2}
    NoKey = none
    Total = 3
    RetryWait = 2
    Chunks = 2
    MaxRev = 2
    Networks = {"home", "lab"}
    Capacity = 2
    MaxFailures = 2
    StopWait = 2
    Bad = bad
    Burst = 2
    MqttRetryWait = 1
    MaxLink = 2
    MaxQueue = 3
INVARIANTS
    ReadyLagsDriver
    IdleLinkRetries
    CommandsCurrent
    SessionsOwned
    ReadyLagsQueue
    NoStaleKey
    OneConfiguration
PROPERTIES
    ImplementsWifiSelection
    RetryHappens
    NetworkLossStops
    EveryRevisionServed
    SlotFreed
