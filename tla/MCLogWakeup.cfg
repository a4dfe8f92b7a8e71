CONSTANTS
    Proc = {p1, p2}
    Boot = Boot
    Block = {b1}
    Val = {v0, v1}
    Blank = v0
    OpMax = 1
    LogMax = 2
    NumLogBlocks = 3
SPECIFICATION FairSpec
PROPERTY
    EndOpReturns
