CONSTANTS
    NFiles = 4
    Size = 10
    SectorSize = 4
    MaxBuf = 6
    Word = 32
SPECIFICATION Spec
INVARIANTS
    DiskTypeOK
    TransferIsImage
    GapsAreFaults
