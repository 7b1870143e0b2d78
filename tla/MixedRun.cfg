CONSTANTS
    RequestSlots = 2
    RequestWindow = 1
    MaxRevision = 2
    Networks <- MCNetworks
    Ops <- MCOps
    Images <- MCImages
    Requests <- MCMixedRequests
    TrialTicks = 1
    MaxNow = 1
    MaxBoots = 2
    EotaAvailable = TRUE
    FactoryImage = "v1"
    FirstConfigs <- MCConfigured
    FirstReceipts <- MCNoReceipt
SPECIFICATION FairSpec
INVARIANTS
    ActivitiesExclusive
    RunningIsOwned
PROPERTIES
    TrialEnds
    DownloadEnds
CHECK_DEADLOCK FALSE
