SPECIFICATION Spec
CONSTANTS
    Slot = {p1, p2, p3, p4}
    RootProc = p1
    Container = {c1, c2}
    RootContainer = c1
    PID_NUM = 5
    Killers = {p1}
    KillIds = {2}
    None = None
SYMMETRY SlotSymmetry
CHECK_DEADLOCK FALSE
INVARIANTS
    TypeOK
    PidsDistinct
    LocalPidsDistinct
    ChildexitExact
    WaitFindsZombie
    TreeConsistent
