CONSTANTS
    Proc = {p1, p2, p3}
    CPU = {c1, c2}
    Free = Free
    Sem = {s1, s2}
    InitVal <- MCInitVal
    MaxVal = 1
    Alertable = {TRUE, FALSE}
    Victims = {p1, p2, p3}
SPECIFICATION Spec
SYMMETRY Symmetry
INVARIANTS
    TypeOK
    RunningIsCurrent
    QueueExact
    ValCountsSleepers
    NoLostWakeup
    NoLostKill
    OnlyKilledPanics
    SemInv
PROPERTIES
    DeepSleepEndsByPost
    ImplementsSemaphore
