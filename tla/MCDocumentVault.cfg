CONSTANTS
    Procs = {a, b}
    Paths = {f1, f2, f3}
    Dongles = {d1, d2}
    Docs = {x, y}
    Absent = Absent
    Torn = Torn
    NoJob = NoJob
SPECIFICATION Spec
SYMMETRY Symmetry
INVARIANTS
    DocTypeOK
PROPERTIES
    ReportIsTrue
    ImplementsArchive
