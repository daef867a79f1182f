SPECIFICATION Spec
CONSTANTS
    MAX_FLOOR = 2
    MAX_W = 30
    MAX_P = 10
    kthread = kthread
    c1 = c1
    c2 = c2
    p1 = p1
    p2 = p2
    NoTask = NoTask
    Thread = kthread
    Tasks <- AllTasks
    Signalled <- TwoCallers
    Passengers <- TwoStructs
    Trip <- ChildAndAdult
SYMMETRY CallersSymmetry
INVARIANTS
    NeverLeftLocked
    PageIsSnapshot
    CountersExact
    DecisionsFresh
CHECK_DEADLOCK FALSE
