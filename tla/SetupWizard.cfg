CONSTANTS
    Dongles = {d1, d2}
    None = None
    Refusals = TRUE
SPECIFICATION Spec
INVARIANTS
    SetupTypeOK
    ServiceRestored
    WatcherHasVault
    CompleteIsNew
    ScriptRemoved
PROPERTIES
    SshdSurvives
    LoginKept
