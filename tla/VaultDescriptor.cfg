CONSTANTS
    Procs = {a, b}
    Dongles = {d1, d2}
    Passwords = {w1, w2}
    Strong = {w1}
    Peers = {e1, e2}
    None = None
    Absent = Absent
    Torn = Torn
SPECIFICATION Spec
INVARIANTS
    VaultTypeOK
    CreatedIsStored
    TornOnlyByCrash
    OneCredential
PROPERTY
    ImplementsWriteOnce
