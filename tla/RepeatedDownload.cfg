CONSTANTS
    RequestSlots = 3
    RequestWindow = 1
    MaxRevision = 1
    Networks <- MCNetworks
    Ops <- MCOps
    Images <- MCImages
    Requests <- MCRepeatRequests
    TrialTicks = 1
    MaxNow = 0
    MaxBoots = 1
    EotaAvailable = TRUE
    FactoryImage = "v1"
    FirstConfigs <- MCConfigured
    FirstReceipts <- MCNoReceipt
SPECIFICATION Spec
INVARIANT SameIdNeverDownloadsTwice
CHECK_DEADLOCK FALSE
