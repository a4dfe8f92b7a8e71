SPECIFICATION Spec
CONSTANTS
    CPU = {c1, c2}
    Proc = {1, 2, 3, 4}
    Container = {11, 12, 13}
    root_proc = 1
    root_container = 11
    ContainerOf <- MCContainerOf
    ParentOf <- MCParentOf
    rootproc <- MCrootproc
    OddIdle = {}
    TIMER_ELAPSE = 1
    SLICE = 1
    HELLO = 1
    RESET = 4
    MaxTime = 1
    MaxVruntime = 1
INVARIANTS
    QueuesExact
    PickIsLeast
    PreemptionArmed
CHECK_DEADLOCK FALSE
SYMMETRY Symmetry
