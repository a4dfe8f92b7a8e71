CONSTANTS
    Proc = {p1, p2}
    Boot = Boot
    Block = {b1, b2, b3, b4}
    Val = {v0, v1}
    Blank = v0
    OpMax = 2
    LogMax = 4
    NumLogBlocks = 4
SPECIFICATION Spec
SYMMETRY Symmetry
INVARIANT
    LogFits
