--------------------------- MODULE ElevatorService ---------------------------
(***************************************************************************)
(* What the elevator promises its passengers, with no thread, no lock, no  *)
(* counters and no direction: every floor is a line served in order of     *)
(* arrival; whoever is aboard fits, stays on the stretch of their trip and *)
(* leaves only at their destination; an elevator out of service takes      *)
(* nobody new, and returns to the ground floor only when it is empty.      *)
(***************************************************************************)
EXTENDS Passenger, Sequences

CONSTANT Passengers

VARIABLES
    line,     (* the passengers waiting on each floor, in order of arrival *)
    trip,     (* the type, start and destination of those that arrived     *)
    aboard,   (* the passengers on the elevator                            *)
    served,   (* the passengers delivered                                  *)
    floor,    (* where the elevator is                                     *)
    taking    (* whether it takes new passengers                           *)

svars == <<line, trip, aboard, served, floor, taking>>

NoTrip == [type |-> ADULT, s_floor |-> 0, d_floor |-> 0]

Init ==
    /\ line = [i \in Floors |-> <<>>]
    /\ trip = [p \in Passengers |-> NoTrip]
    /\ aboard = {}
    /\ served = {}
    /\ floor = 0
    /\ taking = TRUE

InLine(p) == \E i \in Floors : \E k \in DOMAIN line[i] : line[i][k] = p

Within(load) == load.w_units <= MAX_W /\ load.p_units <= MAX_P

(* Floor f is on p's way; a trip to its own start may lead anywhere. *)
OnWay(p, f) ==
    LET s == trip[p].s_floor
        d == trip[p].d_floor
    IN  s = d \/ (s <= f /\ f <= d) \/ (d <= f /\ f <= s)

Arrive(p, t) ==
    /\ p \notin aboard \cup served
    /\ ~InLine(p)
    /\ trip' = [trip EXCEPT ![p] = t]
    /\ line' = [line EXCEPT ![t.s_floor] = Append(@, p)]
    /\ UNCHANGED <<aboard, served, floor, taking>>

Board ==
    /\ taking
    /\ line[floor] # <<>>
    /\ aboard' = aboard \cup {Head(line[floor])}
    /\ Within(Tally(aboard', trip))
    /\ line' = [line EXCEPT ![floor] = Tail(@)]
    /\ UNCHANGED <<trip, served, floor, taking>>

Leave(p) ==
    /\ p \in aboard
    /\ trip[p].d_floor = floor
    /\ aboard' = aboard \ {p}
    /\ served' = served \cup {p}
    /\ UNCHANGED <<line, trip, floor, taking>>

Travel ==
    /\ floor' \in Floors \cap {floor - 1, floor + 1}
    /\ \A p \in aboard : OnWay(p, floor')
    /\ UNCHANGED <<line, trip, aboard, served, taking>>

Stop ==
    /\ taking
    /\ taking' = FALSE
    /\ UNCHANGED <<line, trip, aboard, served, floor>>

Restart ==
    /\ aboard = {}
    /\ floor' = 0
    /\ taking' = TRUE
    /\ UNCHANGED <<line, trip, aboard, served>>

Next ==
    \/ \E p \in Passengers, t \in passenger : Arrive(p, t)
    \/ Board
    \/ \E p \in Passengers : Leave(p)
    \/ Travel
    \/ Stop
    \/ Restart

Spec == Init /\ [][Next]_svars

=============================================================================
