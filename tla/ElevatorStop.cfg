SPECIFICATION FairSpec
CONSTANTS
    MAX_FLOOR = 3
    MAX_W = 9
    MAX_P = 3
    p1 = p1
    p2 = p2
    p3 = p3
    Passengers <- TwoPassengers
    Requests <- GroundFloorRequests
PROPERTIES
    StopCompletes
