CONSTANTS
    Requests = {r1}
    Keys = {k1, k2}
    NoRequest = NoRequest
    NoKey = NoKey
    MaxQueue = 2
    ConfirmTimeout = 2
    NvsReadMayFail = TRUE
    MaxReplies = 2
SPECIFICATION DongleSpec
SYMMETRY Symmetry
CONSTRAINT FewReplies
PROPERTIES
    PermanentKey
