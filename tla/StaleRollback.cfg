CONSTANTS
    RequestSlots = 2
    RequestWindow = 1
    MaxRevision = 1
    Networks <- MCNetworks
    Ops <- MCOps
    Images <- MCImages
    Requests <- MCRollbackRequests
    TrialTicks = 1
    MaxNow = 0
    MaxBoots = 3
    EotaAvailable = TRUE
    FactoryImage = "v1"
    FirstConfigs <- MCConfigured
    FirstReceipts <- MCNoReceipt
SPECIFICATION Spec
INVARIANT RollbackOnlyAfterSelection
CHECK_DEADLOCK FALSE
