SPECIFICATION Spec
CONSTANTS
    Caller <- MCCaller
    Setups <- MCSetups
    Sectors = {0, 1}
    Data = {p1, p2, d0}
    Formatted = d0
    Garbage = garbage
    POLLS = 1
    RETRIES = 1
    None = none
    Proc = {p1, p2}
    BlockNo = {0}
    BLOCKNO_OFFSET = 1
    MaxRequests = 3
CHECK_DEADLOCK FALSE
SYMMETRY ProcSymmetry
INVARIANTS
    TypeOK
    AnswerMatches
    ClockNotTooFast
    InitAgrees
PROPERTY
    DoneMeansTransferred
