SPECIFICATION Spec
CONSTANTS
    Proc = {p1, p2, p3}
    None = None
    Garbage = Garbage
    SIZE = 1
    SEQ_MULTIPLIER = 2
    SEQ_MOD = 2
    MAX_MSGNUM = 2
    MSG_MSGSZ = 2
    MSG_MSGSEGSZ = 2
    Keys = {0, 7}
    Sends <- MCSends
    Receives <- MCReceives
    MaxCalls = 6
    MaxQueues = 3
INVARIANTS
    TypeOK
    NoMissedWakeup
    StaleIdRefused
    DeliveredOnce
SYMMETRY Symmetry
CHECK_DEADLOCK FALSE
