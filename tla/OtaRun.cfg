CONSTANTS
    RequestSlots = 2
    RequestWindow = 1
    MaxRevision = 1
    Networks <- MCNetworks
    Ops <- MCOps
    Images <- MCImages
    Requests <- MCOtaRequests
    TrialTicks = 1
    MaxNow = 0
    MaxBoots = 3
    EotaAvailable = TRUE
    FactoryImage = "v1"
    FirstConfigs <- MCConfigured
    FirstReceipts <- MCAnyReceipt
SPECIFICATION Spec
INVARIANTS
    WriterIsRegistered
    SelectedImageIsAccounted
    AlwaysBootable
PROPERTIES
    VerdictsAreFinal
CHECK_DEADLOCK FALSE
