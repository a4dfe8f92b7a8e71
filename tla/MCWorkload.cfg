CONSTANTS
    p1 = p1
    p2 = p2
    p3 = p3
    Proc = {p1, p2, p3}
    CPU = {c1, c2}
    Free = Free
    Sem = {s1}
    InitVal <- NoUnits
    MaxVal = 3
    Alertable = {TRUE, FALSE}
    Victims = {p1, p2}
SPECIFICATION LiveSpec
PROPERTIES
    EveryoneFinishes
