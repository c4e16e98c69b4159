CONSTANTS
    Ports = {p1}
    NoPort = NoPort
    Faults = {"list", "second_interrupt"}
SPECIFICATION MountSpec
INVARIANTS
    UnmountedIsTrue
