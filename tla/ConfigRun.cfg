CONSTANTS
    RequestSlots = 2
    RequestWindow = 2
    MaxRevision = 2
    Networks <- MCNetworks
    Ops <- MCOps
    Images <- MCImages
    Requests <- MCConfigRequests
    TrialTicks = 2
    MaxNow = 3
    MaxBoots = 3
    EotaAvailable = FALSE
    FactoryImage = "v1"
    FirstConfigs <- MCBlank
    FirstReceipts <- MCNoReceipt
SPECIFICATION Spec
INVARIANTS
    ExecutedAtMostOnce
    AckedConfigDurable
    MemoryMatchesStore
    SelectionMatchesConfig
CHECK_DEADLOCK FALSE
