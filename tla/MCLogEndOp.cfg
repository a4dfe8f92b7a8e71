CONSTANTS
    Proc = {p1, p2, p3}
    Boot = Boot
    Block = {b1}
    Val = {v0, v1}
    Blank = v0
    OpMax = 1
    LogMax = 3
    NumLogBlocks = 4
SPECIFICATION Spec
SYMMETRY Symmetry
INVARIANT
    EndOpPersists
