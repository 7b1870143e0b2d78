SPECIFICATION MCSpec
CONSTANTS
    boot_task = boot_task
    ota_task = ota_task
    container_task = container_task
    Claimants <- MCClaimants
    Nobody = Nobody
    UintMax = 4
    BaseImages = {"a", "b"}
    ForeignImages = {"x"}
    MaxBoots = 2
    Names = {"n1", "n2"}
    Bytes = {0, 63, 64, 129, 200, 255}
    MaxStale = 5
    StartTimeout = 5
    Window = 4
    WindowPoll = 2
    ShortPoll = 1
    Late = 1
    MaxNow = 20
INVARIANTS
    SetIsComplete
    UnknownFreezes
    IdentityStable
    ConfirmedOnlyAlive
    LiveNotRejected
    DecidedInTime
PROPERTIES
    ReservationResolves
    ImplementsExclusiveClaim
