CONSTANTS
    Ports = {p1, p2}
    NoPort = NoPort
    Faults = {"list", "second_interrupt"}
SPECIFICATION MountSpec
INVARIANTS
    MountTypeOK
    ReturnMeansStopped
    CacheOutlivesServer
PROPERTIES
    AbsenceStopsServer
    AbsenceCountsDown
