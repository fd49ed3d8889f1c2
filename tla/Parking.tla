------------------------------ MODULE Parking -------------------------------
(***************************************************************************)
(* ParkingLot of python-low-level-design/parking-lot: park_vehicle picks   *)
(* the best fitting free spot, unpark_vehicle and the lost ticket flow     *)
(* close the ticket, charge and free the spot.  One lock serialises all.   *)
(* The clock may have stepped back between entry and exit.                 *)
(***************************************************************************)
EXTENDS Integers, Sequences, SequencesExt, FiniteSets, FiniteSetsExt

CONSTANTS
    Spot, TypeOf, FloorOf,      \* spots, their type (its size) and floor
    Vehicle, Required,          \* plates, and the smallest type each fits
    Rate, Unit, Penalty,        \* fee per started unit, by type; LOST_TICKET_PENALTY
    Time, MaxTickets,
    None

VARIABLES
    parked,     \* ParkingSpot._parked_vehicle
    free,       \* ParkingFloor._free: floor and type to spots, in order of insertion
    ticket,     \* TicketManager._tickets, in order of their ids
    byPlate     \* _active_by_plate: the ticket's number, 0 for none

vars == <<parked, free, ticket, byPlate>>

Floor == {FloorOf[s] : s \in Spot}
SpotType == {TypeOf[s] : s \in Spot}
Bay == Floor \X SpotType
BayOf(s) == <<FloorOf[s], TypeOf[s]>>

Init ==
    /\ parked = [s \in Spot |-> None] /\ ticket = <<>> /\ byPlate = [v \in Vehicle |-> 0]
    /\ free = [b \in Bay |-> SetToSeq({s \in Spot : BayOf(s) = b})]
----------------------------------------------------------------------------
\* get_allowed_spots and the floors in the order of _find_spot_locked
Bays(v) == {b \in Bay : b[2] >= Required[v] /\ free[b] # <<>>}
Before(a, b) == a[2] < b[2] \/ (a[2] = b[2] /\ a[1] <= b[1])

\* _find_spot_locked: smallest type, then lowest floor.
Find(v) == CHOOSE b \in Bays(v) : \A c \in Bays(v) : Before(b, c)

\* park_vehicle
ParkVehicle(v, t) ==
    LET bay == Find(v) spot == Head(free[bay])
    IN  /\ byPlate[v] = 0 /\ Bays(v) # {} /\ Len(ticket) < MaxTickets
        /\ parked' = [parked EXCEPT ![spot] = v] /\ free' = [free EXCEPT ![bay] = Tail(@)]
        /\ ticket' = Append(ticket, [spot |-> spot, vehicle |-> v, entry |-> t, exit |-> 0, status |-> "ACTIVE", fee |-> 0])
        /\ byPlate' = [byPlate EXCEPT ![v] = Len(ticket) + 1]

\* _ceil_units
CeilUnits(d) == Max({1, (d + Unit - 1) \div Unit})

\* close and calculate_fee; the duration is never negative.
Fee(spot, entry, t, penalty) == Rate[TypeOf[spot]] * CeilUnits(Max({t - entry, 0})) + penalty

\* close: only an active ticket
Closable(n) == ticket[n].status = "ACTIVE"

\* _close_locked
Close(n, t, penalty, status) ==
    LET spot == ticket[n].spot
    IN  /\ Closable(n)
        /\ ticket' = [ticket EXCEPT ![n].status = status, ![n].exit = t,
                                    ![n].fee = Fee(spot, ticket[n].entry, t, penalty)]
        /\ parked' = [parked EXCEPT ![spot] = None]
        /\ free' = [free EXCEPT ![BayOf(spot)] = Append(@, spot)]
        /\ byPlate' = [byPlate EXCEPT ![ticket[n].vehicle] = 0]

UnparkVehicle(n, t) == n \in 1..Len(ticket) /\ Close(n, t, 0, "PAID")
UnparkLostTicket(v, t) == byPlate[v] # 0 /\ Close(byPlate[v], t, Penalty, "LOST")

Next == \E t \in Time :
    \/ \E v \in Vehicle : ParkVehicle(v, t) \/ UnparkLostTicket(v, t)
    \/ \E n \in 1..MaxTickets : UnparkVehicle(n, t)

Spec == Init /\ [][Next]_vars
----------------------------------------------------------------------------
TypeOK ==
    /\ parked \in [Spot -> Vehicle \cup {None}] /\ \A v \in Vehicle : byPlate[v] \in 0..Len(ticket)
    /\ \A b \in Bay : ToSet(free[b]) \subseteq {s \in Spot : BayOf(s) = b}

\* The invariants ParkingLot documents: a spot is in the free index, once, iff
\* it is available, and a plate is listed iff it has exactly one active ticket;
\* that ticket is for the spot the vehicle is on.
IndexesMatch ==
    /\ \A s \in Spot : Cardinality({i \in 1..Len(free[BayOf(s)]) : free[BayOf(s)][i] = s})
                          = IF parked[s] = None THEN 1 ELSE 0
    /\ \A v \in Vehicle :
          LET active == {n \in 1..Len(ticket) : ticket[n].vehicle = v /\ ticket[n].status = "ACTIVE"}
          IN  /\ active = IF byPlate[v] = 0 THEN {} ELSE {byPlate[v]}
              /\ \A n \in active : parked[ticket[n].spot] = v
              /\ Cardinality({s \in Spot : parked[s] = v}) = Cardinality(active)

\* find_available_spot: "Best fit: smallest compatible spot type, then lowest
\* floor".
BestFit ==
    Len(ticket') > Len(ticket) =>
       LET n == Len(ticket') s == ticket'[n].spot
       IN  \A r \in Spot : parked[r] = None /\ TypeOf[r] >= Required[ticket'[n].vehicle] =>
              TypeOf[s] < TypeOf[r] \/ (TypeOf[s] = TypeOf[r] /\ FloorOf[s] <= FloorOf[r])

\* calculate_fee: started units are charged in full and no unit more, at least
\* one, and a clock that stepped back never makes a stay free or negative.
FeeExact ==
    \A n \in 1..Len(ticket) : ticket[n].status # "ACTIVE" =>
        \E k \in 1..10 : /\ ticket[n].fee = Rate[TypeOf[ticket[n].spot]] * k + IF ticket[n].status = "LOST" THEN Penalty ELSE 0
                         /\ ticket[n].exit - ticket[n].entry <= k * Unit
                         /\ k = 1 \/ ticket[n].exit - ticket[n].entry > (k - 1) * Unit
=============================================================================
