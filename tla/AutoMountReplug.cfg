CONSTANTS
    Ports = {1}
    NoPort = NoPort
    Faults = {}
    MaxDeaths = 0
SPECIFICATION AutoSpec
PROPERTIES
    InsertionPrompted
