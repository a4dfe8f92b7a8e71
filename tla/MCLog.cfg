CONSTANTS
    Proc = {p1, p2, p3}
    Boot = Boot
    Block = {b1, b2}
    Val = {v0, v1}
    Blank = v0
    OpMax = 2
    LogMax = 4
    NumLogBlocks = 5
SPECIFICATION Spec
SYMMETRY Symmetry
INVARIANTS
    TypeOK
    CommitAlone
    DirtyPinned
    NoLogPanic
    SpaceReserved
PROPERTIES
    WriteAhead
    ImplementsAtomicDisk
