CONSTANTS
    Requests = {r1, r2}
    Keys = {k1, k2}
    NoRequest = NoRequest
    NoKey = NoKey
    MaxQueue = 2
    ConfirmTimeout = 1
    NvsReadMayFail = TRUE
    ReadTimeout = 2
    MaxLines = 3
    MaxPauses = 1
SPECIFICATION CallSpec
SYMMETRY Symmetry
INVARIANTS
    DongleTypeOK
    ClientTypeOK
    NoDesync
PROPERTIES
    TimeoutOnlyIfHeld
    OneKeyPerSession
    ImplementsKeyCall
