SPECIFICATION FairSpec
CONSTANTS
    kthread = kthread
    c1 = c1
    c2 = c2
    p1 = p1
    p2 = p2
    NoTask = NoTask
    Thread = kthread
    Tasks <- AllTasks
    Signalled <- Nobody
    Passengers <- TwoStructs
    MAX_FLOOR = 2
    FloorOf <- TwoFloors
INVARIANTS
    CodePresent
    ReadyWhenUsed
    NodesFreed
PROPERTY ExitEnds
CHECK_DEADLOCK FALSE
