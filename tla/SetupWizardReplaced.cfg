CONSTANTS
    Dongles = {d1, d2}
    None = None
    Refusals = FALSE
SPECIFICATION Spec
INVARIANTS
    RestoredIsExisting
