CONSTANTS
    Proc = {p1, p2}
    CPU = {c1, c2}
    Free = Free
    Sem = {s1}
    InitVal <- MCInitVal
    MaxVal = 1
    Alertable = {FALSE}
    Victims = {p1, p2}
SPECIFICATION Spec
INVARIANTS
    UnalertableWaitUninterrupted
