SPECIFICATION MCSpec
CONSTANTS
    Ids = {r1, r2, r3}
    NoId = none
    Statuses = {s1, s2}
    SlotCount = 2
    Window = 2
    MaxNow = 4
    Letters = {"a"}
    LineLimit = 2
    Burst = 2
    FifoSize = 2
    IdleTime = 1
    DepthLimit = 1
    MemberLimit = 1
    Levels = 2
    DeadlineMax = 900000
    UintMax = 70000
    Documents <- MCDocuments
    Values <- MCValues
    MaxEdits = 2
    Configs <- MCConfigs
    Edits <- MCEdits
    Alphabet = {"x", "-", ".", "_"}
    Octets = {31, 32, 127, 128, 143, 144, 159, 160, 175, 183, 190, 191, 193, 194, 223,
              224, 237, 239, 240, 244, 245}
    MaxHost = 6
    MaxLabel = 3
    MaxOctets = 4
INVARIANTS
    LinesIntact
    ScanDecides
    OnlyTheGrammar
    RoundTrip
    Canonical
    HostnamesAreDnsNames
    Utf8IsWellFormed
PROPERTY AnswersOnce
CHECK_DEADLOCK FALSE
