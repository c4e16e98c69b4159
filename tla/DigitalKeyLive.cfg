CONSTANTS
    Requests = {r1}
    Keys = {k1, k2}
    NoRequest = NoRequest
    NoKey = NoKey
    MaxQueue = 1
    ConfirmTimeout = 1
    NvsReadMayFail = FALSE
    ReadTimeout = 2
    MaxLines = 2
    MaxPauses = 1
SPECIFICATION FairCallSpec
INVARIANTS
    IdentityStable
    CallIsBounded
PROPERTIES
    FreshPress
    CallsEnd
    PromptEnds
