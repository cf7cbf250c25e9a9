SPECIFICATION MCSpec
CONSTANTS
    N = 2
    NumAddr = 3
    Undefined = Undefined
    MaskCounters = {k1, k2, k3}
    Channels = 5
    Rows = 2
    BitDepths = {4, 12, 32}
    FrameAddresses = {0, 1}
    NoAddress = NoAddress
    MaxFlight = 1
    NumModules = 2
    Ports = 2
    Counts <- MCCounts
    IntLimit = 4
    MarksDisconnected = TRUE
    Temperatures = {20, 21}
    Lists <- MCLists
    Base <- MCBase
    Records <- TemplateRecords
    Values <- MCValues
    Tolerances <- MCTolerances
    MaxSize = 5
    LastCoordinate = 1
    Inputs <- MCInputs
    MaxPasses = 3
    Holders = {m1, m2}
    Arrays = {1, 2, 3, 4}
    Contents = {content}
    Tried = {"EIGER", "GOTTHARD"}
    none = none
    free = free
    null = null
    dangling = dangling
    unset = unset
INVARIANTS
    TypesOK ImagesFitFrames LossesAreTold EarlyReturnIsContained
    OnlyToldSettingsAreCarried WritesFindTheirParameter ArraysAreOwned
    HelpersAgree
PROPERTY ServedIfThread
CHECK_DEADLOCK FALSE
