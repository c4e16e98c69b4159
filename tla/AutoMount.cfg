CONSTANTS
    Ports = {1, 2}
    NoPort = NoPort
    Faults = {}
    MaxDeaths = 1
SPECIFICATION AutoSpec
INVARIANTS
    AutoTypeOK
    RclonesCounted
    PassedOverIsKnown
PROPERTIES
    CancelSticks
    RemovalUnmounts
    NoticedPrompted
