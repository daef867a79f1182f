SPECIFICATION FairSpec
CONSTANTS
    MAX_FLOOR = 4
    MAX_W = 9
    MAX_P = 3
    p1 = p1
    p2 = p2
    p3 = p3
    Passengers <- ThreePassengers
    Requests <- ProducerRequests
PROPERTIES
    RidersDelivered
    RequestsServed
    StopCompletesIfWaiting
