SPECIFICATION Spec
CONSTANTS
    FSSIZE = 16
    NINODES = 4
    LOGSIZE = 1
    BSIZE = 2
    BITS = 16
    IPB = 2
    NDIRECT = 1
    NINDIRECT = 2
    Proc = {p1, p2}
    None = None
    Files <- MCFiles
    Names = {"f", "g"}
    Val = {"new"}
    MaxFile = 3
    Slots = {1, 2, 3}
    MaxOps = 5
INVARIANTS
    TypeOK
    FsckClean
    InodeCoherent
    ReadsLastWrite
SYMMETRY Symmetry
CHECK_DEADLOCK FALSE
