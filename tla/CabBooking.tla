----------------------------- MODULE CabBooking -----------------------------
(***************************************************************************)
(* CabBookingService of python-low-level-design/cab-booking-uber: a ride   *)
(* request or a declined offer searches growing circles around the pickup  *)
(* and claims the first driver it can with a compare-and-set; trips move   *)
(* along their life cycle under their own lock.                            *)
(*                                                                         *)
(* Position is the ring around the pickups a driver is in.  Fares, ratings *)
(* and TRIP_EVENTS, which nobody consumes, are left out; the GPS pipeline  *)
(* is in CabStream.  The last sections prove that drivers and riders are    *)
(* never in two trips.                                                     *)
(***************************************************************************)
EXTENDS Integers, Sequences, FiniteSets, FiniteSetTheorems, TLAPS

CONSTANTS
    Driver,             \* driver ids, as numbers in their order
    Trip, RiderOf,      \* ride requests and who makes them
    Rings,              \* SEARCH_RADII_KM: number of circles
    None

VARIABLES
    cab,        \* Driver._status
    ring,       \* the circle each driver is in
    trip,       \* Trip.status, driver and declined_by
    active,     \* _active_trip_by_rider: None, "reserved" or the trip
    find        \* a call for a trip that is not at its end: what is left to do and, for
                \* _claim_driver, radius, ranked list, tried, and who was got

vars == <<cab, ring, trip, active, find>>

\* What the code gives: ids are compared, and no trip's id is a marker.
Params ==
    /\ Driver \in SUBSET Nat /\ IsFiniteSet(Driver) /\ None \notin Driver
    /\ None \notin Trip /\ "reserved" \notin Trip /\ None # "reserved" /\ Rings \in Nat

Rider == {RiderOf[t] : t \in Trip}
Find(kind) == [kind |-> kind, radius |-> 0, list |-> <<>>, tried |-> {}, got |-> None]
NoFind == Find("none")
Live == {"REQUESTED", "ACCEPTED", "DRIVER_ARRIVED", "STARTED"}

Init ==
    /\ cab = [d \in Driver |-> "AVAILABLE"] /\ ring \in [Driver -> 1..Rings]
    /\ trip = [t \in Trip |-> [status |-> "none", driver |-> None, declined |-> {}]]
    /\ active = [r \in Rider |-> None] /\ find = [t \in Trip |-> NoFind]
----------------------------------------------------------------------------
UpdateLocation(d, k) ==
    /\ ring[d] # k /\ ring' = [ring EXCEPT ![d] = k]
    /\ UNCHANGED <<cab, trip, active, find>>

GoOffline(d) ==
    /\ cab[d] = "AVAILABLE" /\ cab' = [cab EXCEPT ![d] = "OFFLINE"]
    /\ UNCHANGED <<ring, trip, active, find>>

GoOnline(d) ==
    /\ cab[d] = "OFFLINE" /\ cab' = [cab EXCEPT ![d] = "AVAILABLE"]
    /\ UNCHANGED <<ring, trip, active, find>>
----------------------------------------------------------------------------
\* decline_trip never offers a driver twice.
Excluded(t) == IF find[t].kind = "decline" THEN trip[t].declined \cup {trip[t].driver} ELSE {}

\* The drivers the index returns for a radius who seem free, not tried before.
Candidates(t, radius) ==
    {d \in Driver : ring[d] <= radius /\ cab[d] = "AVAILABLE" /\ d \notin Excluded(t) \cup find[t].tried}

\* NearestDriverMatching.rank: by distance, then by id.
Nearer(a, b) == ring[a] < ring[b] \/ (ring[a] = ring[b] /\ a < b)
Ranked(S) == {s \in [1..Cardinality(S) -> S] : \A i, j \in DOMAIN s : i < j => Nearer(s[i], s[j])}

\* The next, wider search of _claim_driver.
Search(t) ==
    /\ find[t].kind \in {"request", "decline"}
    /\ find[t].got = None /\ find[t].list = <<>> /\ find[t].radius < Rings
    /\ \E s \in Ranked(Candidates(t, find[t].radius + 1)) :
          find' = [find EXCEPT ![t] = [@ EXCEPT !.radius = find[t].radius + 1, !.list = s]]
    /\ UNCHANGED <<cab, ring, trip, active>>

\* Fault: the search result is trusted.
ClaimableListed(d) == TRUE

\* compare_and_set from AVAILABLE.
Claimable(d) == cab[d] = "AVAILABLE"

TryClaim(t) ==
    /\ find[t].list # <<>>
    /\ LET d == Head(find[t].list)
       IN  /\ cab' = IF Claimable(d) THEN [cab EXCEPT ![d] = "BOOKED"] ELSE cab
           /\ find' = [find EXCEPT ![t] =
                  [@ EXCEPT !.tried = find[t].tried \cup {d},
                            !.list = IF Claimable(d) THEN <<>> ELSE Tail(find[t].list),
                            !.got = IF Claimable(d) THEN d ELSE None]]
    /\ UNCHANGED <<ring, trip, active>>

Found(t, kind) == find[t].kind = kind /\ find[t].got # None
NotFound(t, kind) == /\ find[t].kind = kind /\ find[t].got = None
                     /\ find[t].radius = Rings /\ find[t].list = <<>>
----------------------------------------------------------------------------
RiderFree(r) == active[r] = None

\* request_ride: the rider is reserved before the matching.
RequestRide(t) ==
    /\ trip[t].status = "none" /\ find[t] = NoFind /\ RiderFree(RiderOf[t])
    /\ active' = [active EXCEPT ![RiderOf[t]] = "reserved"]
    /\ find' = [find EXCEPT ![t] = Find("request")]
    /\ UNCHANGED <<cab, ring, trip>>

CreateTrip(t) ==
    /\ Found(t, "request")
    /\ trip' = [trip EXCEPT ![t] = [@ EXCEPT !.status = "REQUESTED", !.driver = find[t].got]]
    /\ active' = [active EXCEPT ![RiderOf[t]] = t]
    /\ find' = [find EXCEPT ![t] = NoFind]
    /\ UNCHANGED <<cab, ring>>

\* NoDriverAvailableError.
GiveUp(t) ==
    /\ NotFound(t, "request")
    /\ active' = [active EXCEPT ![RiderOf[t]] = None]
    /\ find' = [find EXCEPT ![t] = NoFind]
    /\ UNCHANGED <<cab, ring, trip>>

\* The lock of the trip is free, and it is in this status.
At(t, status) == trip[t].status = status /\ find[t] = NoFind

DeclineTrip(t) ==
    /\ At(t, "REQUESTED")
    /\ find' = [find EXCEPT ![t] = Find("decline")]
    /\ UNCHANGED <<cab, ring, trip, active>>

\* _force_status(AVAILABLE).
Freed(d) == [cab EXCEPT ![d] = "AVAILABLE"]

Reassign(t) ==
    /\ Found(t, "decline")
    /\ cab' = Freed(trip[t].driver)
    /\ trip' = [trip EXCEPT ![t] = [@ EXCEPT !.declined = trip[t].declined \cup {trip[t].driver}, !.driver = find[t].got]]
    /\ find' = [find EXCEPT ![t] = NoFind]
    /\ UNCHANGED <<ring, active>>

\* Nobody else can take the offer: the trip is cancelled.
NobodyAccepts(t) ==
    /\ NotFound(t, "decline")
    /\ cab' = Freed(trip[t].driver)
    /\ trip' = [trip EXCEPT ![t].status = "CANCELLED"]
    /\ find' = [find EXCEPT ![t] = Find("release")]
    /\ UNCHANGED <<ring, active>>

AcceptTrip(t) ==
    /\ At(t, "REQUESTED") /\ trip' = [trip EXCEPT ![t].status = "ACCEPTED"]
    /\ UNCHANGED <<cab, ring, active, find>>

DriverArrived(t) ==
    /\ At(t, "ACCEPTED") /\ trip' = [trip EXCEPT ![t].status = "DRIVER_ARRIVED"]
    /\ UNCHANGED <<cab, ring, active, find>>

StartTrip(t) ==
    /\ At(t, "DRIVER_ARRIVED") /\ trip' = [trip EXCEPT ![t].status = "STARTED"]
    /\ cab' = [cab EXCEPT ![trip[t].driver] = "ON_TRIP"]
    /\ UNCHANGED <<ring, active, find>>

\* complete_trip and cancel_trip: the driver is freed, then, still under the
\* lock of the trip, the rider.
EndTrip(t, status) ==
    /\ trip' = [trip EXCEPT ![t].status = status]
    /\ cab' = Freed(trip[t].driver) /\ find' = [find EXCEPT ![t] = Find("release")]
    /\ UNCHANGED <<ring, active>>
CompleteTrip(t) == At(t, "STARTED") /\ EndTrip(t, "COMPLETED")
CancelTrip(t) == /\ \E s \in {"REQUESTED", "ACCEPTED", "DRIVER_ARRIVED"} : At(t, s)
                 /\ EndTrip(t, "CANCELLED")

\* _release_rider.
ReleaseRider(t) ==
    /\ find[t].kind = "release"
    /\ active' = [active EXCEPT ![RiderOf[t]] = IF @ = t THEN None ELSE @]
    /\ find' = [find EXCEPT ![t] = NoFind]
    /\ UNCHANGED <<cab, ring, trip>>
----------------------------------------------------------------------------
\* What a thread inside a call does next.
Proceed(t) == \/ Search(t) \/ TryClaim(t) \/ CreateTrip(t) \/ GiveUp(t)
              \/ Reassign(t) \/ NobodyAccepts(t) \/ ReleaseRider(t)

Next ==
    \/ \E d \in Driver : GoOffline(d) \/ GoOnline(d) \/ \E k \in 1..Rings : UpdateLocation(d, k)
    \/ \E t \in Trip : \/ RequestRide(t) \/ DeclineTrip(t) \/ Proceed(t)
                       \/ AcceptTrip(t) \/ DriverArrived(t) \/ StartTrip(t)
                       \/ CompleteTrip(t) \/ CancelTrip(t)

Spec == Init /\ [][Next]_vars

\* A thread inside a call goes on.
Fairness == \A t \in Trip : WF_vars(Proceed(t))
----------------------------------------------------------------------------
Finds == [kind : {"none", "request", "decline", "release"}, radius : 0..Rings,
          list : Seq(Driver), tried : SUBSET Driver, got : Driver \cup {None}]
Trips == [status : Live \cup {"none", "COMPLETED", "CANCELLED"},
          driver : Driver \cup {None}, declined : SUBSET Driver]
TypeOK ==
    /\ cab \in [Driver -> {"AVAILABLE", "BOOKED", "ON_TRIP", "OFFLINE"}]
    /\ ring \in [Driver -> 1..Rings]
    /\ active \in [Rider -> Trip \cup {None, "reserved"}]
    /\ trip \in [Trip -> Trips]
    /\ find \in [Trip -> Finds]

\* Driver.try_claim and Trip._force_status: a driver is BOOKED or ON_TRIP for
\* exactly one trip or one claim in hand, ON_TRIP exactly while its trip is
\* STARTED, and otherwise for none, whatever requests, refusals and
\* cancellations compete for it.
DriverOfOne ==
    \A d \in Driver :
        LET mine == {t \in Trip : trip[t].status \in Live /\ trip[t].driver = d}
            claims == {t \in Trip : find[t].got = d}
        IN  /\ Cardinality(mine) + Cardinality(claims) = IF cab[d] \in {"BOOKED", "ON_TRIP"} THEN 1 ELSE 0
            /\ (cab[d] = "ON_TRIP") = (\E t \in mine : trip[t].status = "STARTED")

\* request_ride and _release_rider: a rider has at most one trip that is live
\* or about to be released, or matching under way, and the registry says which.
RiderOfOne ==
    \A r \in Rider :
        LET busy == {t \in Trip : RiderOf[t] = r /\
                        (trip[t].status \in Live \/ find[t].kind \in {"request", "release"})}
        IN  /\ Cardinality(busy) <= 1
            /\ (active[r] = None) = (busy = {})
            /\ active[r] \in Trip => active[r] \in busy

\* decline_trip: nobody is offered a trip again that they declined.
NeverOfferedTwice == \A t \in Trip : trip[t].driver \notin trip[t].declined

\* The calls that have not come to their end.
Searching == {t \in Trip : find[t].kind # "none"}
----------------------------------------------------------------------------
(* The invariant.                                                          *)

Mine(t, d) == trip[t].status \in Live /\ trip[t].driver = d
Claimed(t, d) == find[t].got = d
Holds(t, d) == Mine(t, d) \/ Claimed(t, d)

\* A call is one the trip's status allows.
CallsOK ==
    \A t \in Trip :
        /\ find[t].kind = "request" => trip[t].status = "none"
        /\ find[t].kind = "decline" => trip[t].status = "REQUESTED"
        /\ find[t].kind = "release" => trip[t].status \in {"COMPLETED", "CANCELLED"}
        /\ find[t].got = None \/ find[t].list = <<>>
        /\ find[t].kind \notin {"request", "decline"} => find[t].got = None /\ find[t].list = <<>>

\* A driver is BOOKED or ON_TRIP iff somebody has them; nobody else has, and not
\* as driver and as replacement at once.
OwnersOK ==
    /\ \A d \in Driver : cab[d] \in {"BOOKED", "ON_TRIP"} => \E t \in Trip : Holds(t, d)
    /\ \A d \in Driver : \A t \in Trip : Holds(t, d) =>
          /\ cab[d] = IF Mine(t, d) /\ trip[t].status = "STARTED" THEN "ON_TRIP" ELSE "BOOKED"
          /\ ~(Mine(t, d) /\ Claimed(t, d))
          /\ \A u \in Trip : Holds(u, d) => u = t
    /\ \A t \in Trip : trip[t].status \in Live => trip[t].driver \in Driver

\* Whom a search may still try was not asked before.
Barred(tr, f) == IF f.kind = "decline" THEN tr.declined \cup {tr.driver} ELSE {}
OfferOK(tr, f) ==
    /\ tr.status = "none" => tr.declined = {}
    /\ tr.driver \notin tr.declined
    /\ f.got # None => f.got \notin Barred(tr, f)
    /\ \A i \in 1..Len(f.list) : f.list[i] \notin Barred(tr, f)
OffersOK == \A t \in Trip : OfferOK(trip[t], find[t])

Reserves(t) == find[t].kind = "request"
Occupies(t) == trip[t].status \in Live \/ find[t].kind = "release"
RidersOK ==
    /\ \A t \in Trip : Reserves(t) => active[RiderOf[t]] = "reserved"
    /\ \A t \in Trip : Occupies(t) => active[RiderOf[t]] = t
    /\ \A r \in Rider : active[r] = "reserved" => \E t \in Trip : RiderOf[t] = r /\ Reserves(t)
    /\ \A r \in Rider : active[r] \in Trip => RiderOf[active[r]] = r /\ Occupies(active[r])
    /\ \A t, u \in Trip : Reserves(t) /\ Reserves(u) /\ RiderOf[t] = RiderOf[u] => t = u

Inv == TypeOK /\ CallsOK /\ OwnersOK /\ OffersOK /\ RidersOK

\* What a step may do to the trips: it takes part in one of them.
OneTrip(t) ==
    /\ trip' \in [Trip -> Trips] /\ find' \in [Trip -> Finds]
    /\ \A u \in Trip : u # t => trip'[u] = trip[u] /\ find'[u] = find[u]
    /\ OfferOK(trip'[t], find'[t])

\* A new record for one trip and its call.
LEMMA Written ==
    ASSUME TypeOK, NEW t \in Trip, NEW tr \in Trips, NEW f \in Finds,
           trip' = [trip EXCEPT ![t] = tr], find' = [find EXCEPT ![t] = f], OfferOK(tr, f)
    PROVE  OneTrip(t)
BY DEF TypeOK, OneTrip

\* A call that has not begun to look for a driver.
LEMMA NotFinding ==
    ASSUME Params, NEW k \in {"none", "request", "decline", "release"}
    PROVE  LET f == [kind |-> k, radius |-> 0, list |-> <<>>, tried |-> {}, got |-> None]
           IN  f \in Finds /\ Find(k) = f /\ (k = "none" => NoFind = f)
<1> DEFINE f == [kind |-> k, radius |-> 0, list |-> <<>>, tried |-> {}, got |-> None]
<1>1. <<>> \in Seq(Driver) /\ 0 \in 0..Rings  BY DEF Params
<1>2. f \in Finds  BY <1>1 DEF Finds
<1> QED  BY <1>2 DEF Find, NoFind

\* Every operation writes a proper record, and offers the trip to nobody twice.
LEMMA TripSteps ==
    ASSUME Params, TypeOK, CallsOK, OwnersOK, OffersOK, NEW t \in Trip
    PROVE  Proceed(t) \/ RequestRide(t) \/ DeclineTrip(t) \/ AcceptTrip(t) \/ DriverArrived(t)
              \/ StartTrip(t) \/ CompleteTrip(t) \/ CancelTrip(t) => OneTrip(t)
<1>0. /\ trip[t] \in Trips /\ find[t] \in Finds /\ OfferOK(trip[t], find[t])
  BY DEF TypeOK, OffersOK
<1>1. ASSUME RequestRide(t)  PROVE OneTrip(t)
  <2> DEFINE tr == trip[t]
             f == [kind |-> "request", radius |-> 0, list |-> <<>>, tried |-> {}, got |-> None]
  <2>0. trip'[t] = tr /\ trip' = [trip EXCEPT ![t] = trip'[t]]  BY <1>0, <1>1 DEF RequestRide, TypeOK, Trips
  <2>1. trip' = [trip EXCEPT ![t] = tr]  BY <2>0
  <2>2. find' = [find EXCEPT ![t] = f]  BY <1>0, <1>1, NotFinding DEF RequestRide, TypeOK
  <2>3. tr \in Trips  BY <1>0, <1>1 DEF RequestRide, Trips, Live, Finds
  <2>4. f \in Finds  BY <1>0, NotFinding
  <2>5. OfferOK(tr, f)
    BY <1>0, <1>1 DEF RequestRide, OfferOK, Barred, Trips, Finds, Params, CallsOK, Live, OwnersOK
  <2> QED  BY <2>1, <2>2, <2>3, <2>4, <2>5, Written
<1>2. ASSUME CreateTrip(t)  PROVE OneTrip(t)
  <2> DEFINE tr == [status |-> "REQUESTED", driver |-> find[t].got, declined |-> trip[t].declined]
             f == [kind |-> "none", radius |-> 0, list |-> <<>>, tried |-> {}, got |-> None]
  <2>0. trip'[t] = tr /\ trip' = [trip EXCEPT ![t] = trip'[t]]  BY <1>0, <1>2 DEF CreateTrip, Found, TypeOK, Trips
  <2>1. trip' = [trip EXCEPT ![t] = tr]  BY <2>0
  <2>2. find' = [find EXCEPT ![t] = f]  BY <1>0, <1>2, NotFinding DEF CreateTrip, Found, TypeOK
  <2>3. tr \in Trips  BY <1>0, <1>2 DEF CreateTrip, Found, Trips, Live, Finds
  <2>4. f \in Finds  BY <1>0, NotFinding
  <2>5. OfferOK(tr, f)
    BY <1>0, <1>2 DEF CreateTrip, Found, OfferOK, Barred, Trips, Finds, Params, CallsOK, Live, OwnersOK
  <2> QED  BY <2>1, <2>2, <2>3, <2>4, <2>5, Written
<1>3. ASSUME GiveUp(t)  PROVE OneTrip(t)
  <2> DEFINE tr == trip[t]
             f == [kind |-> "none", radius |-> 0, list |-> <<>>, tried |-> {}, got |-> None]
  <2>0. trip'[t] = tr /\ trip' = [trip EXCEPT ![t] = trip'[t]]  BY <1>0, <1>3 DEF GiveUp, NotFound, TypeOK, Trips
  <2>1. trip' = [trip EXCEPT ![t] = tr]  BY <2>0
  <2>2. find' = [find EXCEPT ![t] = f]  BY <1>0, <1>3, NotFinding DEF GiveUp, NotFound, TypeOK
  <2>3. tr \in Trips  BY <1>0, <1>3 DEF GiveUp, NotFound, Trips, Live, Finds
  <2>4. f \in Finds  BY <1>0, NotFinding
  <2>5. OfferOK(tr, f)
    BY <1>0, <1>3 DEF GiveUp, NotFound, OfferOK, Barred, Trips, Finds, Params, CallsOK, Live, OwnersOK
  <2> QED  BY <2>1, <2>2, <2>3, <2>4, <2>5, Written
<1>4. ASSUME DeclineTrip(t)  PROVE OneTrip(t)
  <2> DEFINE tr == trip[t]
             f == [kind |-> "decline", radius |-> 0, list |-> <<>>, tried |-> {}, got |-> None]
  <2>0. trip'[t] = tr /\ trip' = [trip EXCEPT ![t] = trip'[t]]  BY <1>0, <1>4 DEF DeclineTrip, At, TypeOK, Trips
  <2>1. trip' = [trip EXCEPT ![t] = tr]  BY <2>0
  <2>2. find' = [find EXCEPT ![t] = f]  BY <1>0, <1>4, NotFinding DEF DeclineTrip, At, TypeOK
  <2>3. tr \in Trips  BY <1>0, <1>4 DEF DeclineTrip, At, Trips, Live, Finds
  <2>4. f \in Finds  BY <1>0, NotFinding
  <2>5. OfferOK(tr, f)
    BY <1>0, <1>4 DEF DeclineTrip, At, OfferOK, Barred, Trips, Finds, Params, CallsOK, Live, OwnersOK
  <2> QED  BY <2>1, <2>2, <2>3, <2>4, <2>5, Written
<1>5. ASSUME Reassign(t)  PROVE OneTrip(t)
  <2> DEFINE all == trip[t].declined \cup {trip[t].driver}
             tr == [status |-> trip[t].status, driver |-> find[t].got, declined |-> all]
             f == [kind |-> "none", radius |-> 0, list |-> <<>>, tried |-> {}, got |-> None]
  <2>0. trip' = [trip EXCEPT ![t] = [@ EXCEPT !.declined = all, !.driver = find[t].got]]
    BY <1>5 DEF Reassign
  <2>1. trip' = [trip EXCEPT ![t] = tr]
    <3> HIDE DEF all
    <3>1. trip'[t] = tr /\ trip' = [trip EXCEPT ![t] = trip'[t]]  BY <1>0, <2>0 DEF TypeOK, Trips
    <3> QED  BY <3>1
  <2>2. find' = [find EXCEPT ![t] = f]  BY <1>0, <1>5, NotFinding DEF Reassign, Found, TypeOK
  <2>3. tr \in Trips
    BY <1>0, <1>5 DEF Reassign, Found, Trips, Live, Finds,
       CallsOK, OwnersOK
  <2>4. f \in Finds  BY <1>0, NotFinding
  <2>5. OfferOK(tr, f)
    BY <1>0, <1>5 DEF Reassign, Found, OfferOK, Barred, Trips, Finds, Params, CallsOK, Live, OwnersOK
  <2> QED  BY <2>1, <2>2, <2>3, <2>4, <2>5, Written
<1>6. ASSUME NobodyAccepts(t)  PROVE OneTrip(t)
  <2> DEFINE tr == [status |-> "CANCELLED", driver |-> trip[t].driver, declined |-> trip[t].declined]
             f == [kind |-> "release", radius |-> 0, list |-> <<>>, tried |-> {}, got |-> None]
  <2>0. trip'[t] = tr /\ trip' = [trip EXCEPT ![t] = trip'[t]]  BY <1>0, <1>6 DEF NobodyAccepts, NotFound, TypeOK, Trips
  <2>1. trip' = [trip EXCEPT ![t] = tr]  BY <2>0
  <2>2. find' = [find EXCEPT ![t] = f]  BY <1>0, <1>6, NotFinding DEF NobodyAccepts, NotFound, TypeOK
  <2>3. tr \in Trips  BY <1>0, <1>6 DEF NobodyAccepts, NotFound, Trips, Live, Finds
  <2>4. f \in Finds  BY <1>0, NotFinding
  <2>5. OfferOK(tr, f)
    BY <1>0, <1>6 DEF NobodyAccepts, NotFound, OfferOK, Barred, Trips, Finds, Params, CallsOK, Live, OwnersOK
  <2> QED  BY <2>1, <2>2, <2>3, <2>4, <2>5, Written
<1>7. ASSUME AcceptTrip(t)  PROVE OneTrip(t)
  <2> DEFINE tr == [status |-> "ACCEPTED", driver |-> trip[t].driver, declined |-> trip[t].declined]
             f == find[t]
  <2>0. trip'[t] = tr /\ trip' = [trip EXCEPT ![t] = trip'[t]]  BY <1>0, <1>7 DEF AcceptTrip, At, TypeOK, Trips
  <2>1. trip' = [trip EXCEPT ![t] = tr]  BY <2>0
  <2>2. find' = [find EXCEPT ![t] = f]  BY <1>0, <1>7, NotFinding DEF AcceptTrip, At, TypeOK
  <2>3. tr \in Trips  BY <1>0, <1>7 DEF AcceptTrip, At, Trips, Live, Finds
  <2>4. f \in Finds  BY <1>0, NotFinding
  <2>5. OfferOK(tr, f)
    BY <1>0, <1>7 DEF AcceptTrip, At, OfferOK, Barred, Trips, Finds, Params, CallsOK, Live, OwnersOK
  <2> QED  BY <2>1, <2>2, <2>3, <2>4, <2>5, Written
<1>8. ASSUME DriverArrived(t)  PROVE OneTrip(t)
  <2> DEFINE tr == [status |-> "DRIVER_ARRIVED", driver |-> trip[t].driver, declined |-> trip[t].declined]
             f == find[t]
  <2>0. trip'[t] = tr /\ trip' = [trip EXCEPT ![t] = trip'[t]]  BY <1>0, <1>8 DEF DriverArrived, At, TypeOK, Trips
  <2>1. trip' = [trip EXCEPT ![t] = tr]  BY <2>0
  <2>2. find' = [find EXCEPT ![t] = f]  BY <1>0, <1>8, NotFinding DEF DriverArrived, At, TypeOK
  <2>3. tr \in Trips  BY <1>0, <1>8 DEF DriverArrived, At, Trips, Live, Finds
  <2>4. f \in Finds  BY <1>0, NotFinding
  <2>5. OfferOK(tr, f)
    BY <1>0, <1>8 DEF DriverArrived, At, OfferOK, Barred, Trips, Finds, Params, CallsOK, Live, OwnersOK
  <2> QED  BY <2>1, <2>2, <2>3, <2>4, <2>5, Written
<1>9. ASSUME StartTrip(t)  PROVE OneTrip(t)
  <2> DEFINE tr == [status |-> "STARTED", driver |-> trip[t].driver, declined |-> trip[t].declined]
             f == find[t]
  <2>0. trip'[t] = tr /\ trip' = [trip EXCEPT ![t] = trip'[t]]  BY <1>0, <1>9 DEF StartTrip, At, TypeOK, Trips
  <2>1. trip' = [trip EXCEPT ![t] = tr]  BY <2>0
  <2>2. find' = [find EXCEPT ![t] = f]  BY <1>0, <1>9, NotFinding DEF StartTrip, At, TypeOK
  <2>3. tr \in Trips  BY <1>0, <1>9 DEF StartTrip, At, Trips, Live, Finds
  <2>4. f \in Finds  BY <1>0, NotFinding
  <2>5. OfferOK(tr, f)
    BY <1>0, <1>9 DEF StartTrip, At, OfferOK, Barred, Trips, Finds, Params, CallsOK, Live, OwnersOK
  <2> QED  BY <2>1, <2>2, <2>3, <2>4, <2>5, Written
<1>10. ASSUME CompleteTrip(t)  PROVE OneTrip(t)
  <2> DEFINE tr == [status |-> "COMPLETED", driver |-> trip[t].driver, declined |-> trip[t].declined]
             f == [kind |-> "release", radius |-> 0, list |-> <<>>, tried |-> {}, got |-> None]
  <2>0. trip'[t] = tr /\ trip' = [trip EXCEPT ![t] = trip'[t]]  BY <1>0, <1>10 DEF CompleteTrip, EndTrip, At, TypeOK, Trips
  <2>1. trip' = [trip EXCEPT ![t] = tr]  BY <2>0
  <2>2. find' = [find EXCEPT ![t] = f]  BY <1>0, <1>10, NotFinding DEF CompleteTrip, EndTrip, At, TypeOK
  <2>3. tr \in Trips  BY <1>0, <1>10 DEF CompleteTrip, EndTrip, At, Trips, Live, Finds
  <2>4. f \in Finds  BY <1>0, NotFinding
  <2>5. OfferOK(tr, f)
    BY <1>0, <1>10 DEF CompleteTrip, EndTrip, At, OfferOK, Barred, Trips, Finds, Params, CallsOK, Live, OwnersOK
  <2> QED  BY <2>1, <2>2, <2>3, <2>4, <2>5, Written
<1>11. ASSUME CancelTrip(t)  PROVE OneTrip(t)
  <2> DEFINE tr == [status |-> "CANCELLED", driver |-> trip[t].driver, declined |-> trip[t].declined]
             f == [kind |-> "release", radius |-> 0, list |-> <<>>, tried |-> {}, got |-> None]
  <2>0. trip'[t] = tr /\ trip' = [trip EXCEPT ![t] = trip'[t]]  BY <1>0, <1>11 DEF CancelTrip, EndTrip, At, TypeOK, Trips
  <2>1. trip' = [trip EXCEPT ![t] = tr]  BY <2>0
  <2>2. find' = [find EXCEPT ![t] = f]  BY <1>0, <1>11, NotFinding DEF CancelTrip, EndTrip, At, TypeOK
  <2>3. tr \in Trips  BY <1>0, <1>11 DEF CancelTrip, EndTrip, At, Trips, Live, Finds
  <2>4. f \in Finds  BY <1>0, NotFinding
  <2>5. OfferOK(tr, f)
    BY <1>0, <1>11 DEF CancelTrip, EndTrip, At, OfferOK, Barred, Trips, Finds, Params, CallsOK, Live, OwnersOK
  <2> QED  BY <2>1, <2>2, <2>3, <2>4, <2>5, Written
<1>12. ASSUME ReleaseRider(t)  PROVE OneTrip(t)
  <2> DEFINE tr == trip[t]
             f == [kind |-> "none", radius |-> 0, list |-> <<>>, tried |-> {}, got |-> None]
  <2>0. trip'[t] = tr /\ trip' = [trip EXCEPT ![t] = trip'[t]]  BY <1>0, <1>12 DEF ReleaseRider, TypeOK, Trips
  <2>1. trip' = [trip EXCEPT ![t] = tr]  BY <2>0
  <2>2. find' = [find EXCEPT ![t] = f]  BY <1>0, <1>12, NotFinding DEF ReleaseRider, TypeOK
  <2>3. tr \in Trips  BY <1>0, <1>12 DEF ReleaseRider, Trips, Live, Finds
  <2>4. f \in Finds  BY <1>0, NotFinding
  <2>5. OfferOK(tr, f)
    BY <1>0, <1>12 DEF ReleaseRider, OfferOK, Barred, Trips, Finds, Params, CallsOK, Live, OwnersOK
  <2> QED  BY <2>1, <2>2, <2>3, <2>4, <2>5, Written
<1>13. ASSUME Search(t)  PROVE OneTrip(t)
  <2>1. PICK s \in Ranked(Candidates(t, find[t].radius + 1)) :
          find' = [find EXCEPT ![t] = [@ EXCEPT !.radius = find[t].radius + 1, !.list = s]]
    BY <1>13 DEF Search
  <2> DEFINE S == Candidates(t, find[t].radius + 1)
             next == find[t].radius + 1
             f == [kind |-> find[t].kind, radius |-> next, list |-> s,
                   tried |-> find[t].tried, got |-> find[t].got]
  <2>2. S \subseteq Driver /\ IsFiniteSet(S) /\ Cardinality(S) \in Nat
    BY FS_Subset, FS_CardinalityType DEF Candidates, Params
  <2>3. s \in [1..Cardinality(S) -> S]  BY <2>1 DEF Ranked
  <2>4. s \in Seq(Driver) /\ Len(s) = Cardinality(S)  BY <2>2, <2>3
  <2>0. find' = [find EXCEPT ![t] = [@ EXCEPT !.radius = next, !.list = s]]  BY <2>1
  <2>5. find' = [find EXCEPT ![t] = f]
    <3> HIDE DEF next
    <3>1. find'[t] = f /\ find' = [find EXCEPT ![t] = find'[t]]  BY <1>0, <2>0 DEF TypeOK, Finds
    <3> QED  BY <3>1
  <2>6. trip' = [trip EXCEPT ![t] = trip[t]]  BY <1>13 DEF Search, TypeOK
  <2>7. f \in Finds  BY <1>0, <1>13, <2>4 DEF Search, Finds, Params
  <2>8. OfferOK(trip[t], f)
    <3>1. \A i \in 1..Len(s) : s[i] \in S  BY <2>2, <2>3, <2>4
    <3>2. \A d \in S : d \notin Barred(trip[t], f)  BY DEF Candidates, Excluded, Barred
    <3> QED  BY <1>0, <1>13, <3>1, <3>2 DEF Search, OfferOK
  <2> QED  BY <1>0, <2>5, <2>6, <2>7, <2>8, Written
<1>14. ASSUME TryClaim(t)  PROVE OneTrip(t)
  <2> DEFINE d == Head(find[t].list)
             rest == IF Claimable(d) THEN <<>> ELSE Tail(find[t].list)
             got == IF Claimable(d) THEN d ELSE None
             asked == find[t].tried \cup {d}
             f == [kind |-> find[t].kind, radius |-> find[t].radius, list |-> rest,
                   tried |-> asked, got |-> got]
  <2>1. /\ find[t].list \in Seq(Driver) /\ find[t].list # <<>>
        /\ find[t].kind \in {"request", "decline", "none", "release"}
    BY <1>0, <1>14 DEF TryClaim, Finds
  <2>2. d \in Driver /\ d = find[t].list[1] /\ 1 \in 1..Len(find[t].list)  BY <2>1
  <2>3. rest \in Seq(Driver) /\ \A i \in 1..Len(rest) : i + 1 \in 1..Len(find[t].list)
                                                      /\ rest[i] = find[t].list[i + 1]
    BY <2>1
  <2>0. find' = [find EXCEPT ![t] = [@ EXCEPT !.tried = asked, !.list = rest, !.got = got]]
    BY <1>14 DEF TryClaim
  <2>4. find' = [find EXCEPT ![t] = f]
    <3> HIDE DEF asked, rest, got
    <3>1. find'[t] = f /\ find' = [find EXCEPT ![t] = find'[t]]  BY <1>0, <2>0 DEF TypeOK, Finds
    <3> QED  BY <3>1
  <2>5. trip' = [trip EXCEPT ![t] = trip[t]]  BY <1>14 DEF TryClaim, TypeOK
  <2>6. f \in Finds  BY <1>0, <2>2, <2>3 DEF Finds
  <2>7. OfferOK(trip[t], f)
    <3>1. Barred(trip[t], f) = Barred(trip[t], find[t])  BY DEF Barred
    <3> HIDE DEF rest, d
    <3> QED  BY <1>0, <2>2, <2>3, <3>1 DEF OfferOK
  <2> QED  BY <1>0, <2>4, <2>5, <2>6, <2>7, Written
<1> QED  BY <1>1, <1>2, <1>3, <1>4, <1>5, <1>6, <1>7, <1>8, <1>9, <1>10, <1>11, <1>12, <1>13, <1>14
        DEF Proceed

\* Types, and what a trip is offered to.
LEMMA StepTypes ==
    ASSUME Params, TypeOK, CallsOK, OwnersOK, OffersOK, Next
    PROVE  TypeOK' /\ OffersOK'
<1>1. ASSUME NEW t \in Trip, OneTrip(t)
      PROVE  trip' \in [Trip -> Trips] /\ find' \in [Trip -> Finds] /\ OffersOK'
  BY <1>1 DEF OneTrip, OffersOK
<1>2. ASSUME UNCHANGED <<trip, find>>
      PROVE  trip' \in [Trip -> Trips] /\ find' \in [Trip -> Finds] /\ OffersOK'
  BY <1>2 DEF TypeOK, OffersOK
<1>3. trip' \in [Trip -> Trips] /\ find' \in [Trip -> Finds] /\ OffersOK'
  BY <1>1, <1>2, TripSteps DEF Next, GoOffline, GoOnline, UpdateLocation
<1>4. cab' \in [Driver -> {"AVAILABLE", "BOOKED", "ON_TRIP", "OFFLINE"}]
  BY DEF Next, Proceed, TypeOK, GoOffline, GoOnline, UpdateLocation, Search, TryClaim, CreateTrip,
         GiveUp, Reassign, NobodyAccepts, ReleaseRider, RequestRide, DeclineTrip, AcceptTrip,
         DriverArrived, StartTrip, CompleteTrip, CancelTrip, EndTrip, Freed
<1>5. ring' \in [Driver -> 1..Rings]
  BY DEF Next, Proceed, TypeOK, GoOffline, GoOnline, UpdateLocation, Search, TryClaim, CreateTrip,
         GiveUp, Reassign, NobodyAccepts, ReleaseRider, RequestRide, DeclineTrip, AcceptTrip,
         DriverArrived, StartTrip, CompleteTrip, CancelTrip, EndTrip
<1>6. active' \in [Rider -> Trip \cup {None, "reserved"}]
  <2>1. ASSUME NEW t \in Trip, RequestRide(t) \/ CreateTrip(t) \/ GiveUp(t) \/ ReleaseRider(t)
        PROVE  active' \in [Rider -> Trip \cup {None, "reserved"}]
    BY <2>1 DEF TypeOK, RequestRide, CreateTrip, GiveUp, ReleaseRider
  <2>2. \/ active' = active
        \/ \E t \in Trip : RequestRide(t) \/ CreateTrip(t) \/ GiveUp(t) \/ ReleaseRider(t)
    BY DEF Next, Proceed, GoOffline, GoOnline, UpdateLocation, Search, TryClaim, Reassign,
           NobodyAccepts, DeclineTrip, AcceptTrip, DriverArrived, StartTrip, CompleteTrip,
           CancelTrip, EndTrip
  <2> QED  BY <2>1, <2>2 DEF TypeOK
<1> QED  BY <1>3, <1>4, <1>5, <1>6 DEF TypeOK

\* Every operation has its place in the life of a trip.
LEMMA StepCalls ==
    ASSUME Params, TypeOK, CallsOK, Next
    PROVE  CallsOK'
<1>1. ASSUME NEW d \in Driver, GoOffline(d) \/ GoOnline(d) \/ \E k \in 1..Rings : UpdateLocation(d, k)
      PROVE  CallsOK'
  BY <1>1 DEF GoOffline, GoOnline, UpdateLocation, TypeOK, CallsOK, Params, Trips, Finds,
      Find, NoFind, Live
<1>2. ASSUME NEW t \in Trip, Search(t)  PROVE CallsOK'
  BY <1>2 DEF Search, TypeOK, CallsOK, Params, Trips, Finds,
      Find, NoFind, Live
<1>3. ASSUME NEW t \in Trip, TryClaim(t)  PROVE CallsOK'
  <2>1. \A u \in Trip : u # t => find'[u] = find[u]  BY <1>3 DEF TryClaim, TypeOK
  <2>2. find[t].got = None  BY <1>3 DEF TryClaim, CallsOK
  <2>3. find[t].kind \in {"request", "decline"}  BY <1>3 DEF TryClaim, CallsOK
  <2>4. /\ trip' = trip /\ find'[t].kind = find[t].kind
        /\ find'[t].got = None \/ find'[t].list = <<>>
    BY <1>3 DEF TryClaim, TypeOK, Finds
  <2> QED  BY <2>1, <2>3, <2>4 DEF CallsOK
<1>4. ASSUME NEW t \in Trip, CreateTrip(t)  PROVE CallsOK'
  BY <1>4 DEF CreateTrip, Found, TypeOK, CallsOK, Params, Trips, Finds,
      Find, NoFind, Live
<1>5. ASSUME NEW t \in Trip, GiveUp(t)  PROVE CallsOK'
  BY <1>5 DEF GiveUp, NotFound, TypeOK, CallsOK, Params, Trips, Finds,
      Find, NoFind, Live
<1>6. ASSUME NEW t \in Trip, Reassign(t)  PROVE CallsOK'
  BY <1>6 DEF Reassign, Found, Freed, TypeOK, CallsOK, Params, Trips, Finds,
      Find, NoFind, Live
<1>7. ASSUME NEW t \in Trip, NobodyAccepts(t)  PROVE CallsOK'
  BY <1>7 DEF NobodyAccepts, NotFound, Freed, TypeOK, CallsOK, Params, Trips, Finds,
      Find, NoFind, Live
<1>8. ASSUME NEW t \in Trip, ReleaseRider(t)  PROVE CallsOK'
  BY <1>8 DEF ReleaseRider, TypeOK, CallsOK, Params, Trips, Finds,
      Find, NoFind, Live
<1>9. ASSUME NEW t \in Trip, RequestRide(t)  PROVE CallsOK'
  BY <1>9 DEF RequestRide, TypeOK, CallsOK, Params, Trips, Finds,
      Find, NoFind, Live
<1>10. ASSUME NEW t \in Trip, DeclineTrip(t)  PROVE CallsOK'
  BY <1>10 DEF DeclineTrip, At, TypeOK, CallsOK, Params, Trips, Finds,
      Find, NoFind, Live
<1>11. ASSUME NEW t \in Trip, AcceptTrip(t)  PROVE CallsOK'
  BY <1>11 DEF AcceptTrip, At, TypeOK, CallsOK, Params, Trips, Finds,
      Find, NoFind, Live
<1>12. ASSUME NEW t \in Trip, DriverArrived(t)  PROVE CallsOK'
  BY <1>12 DEF DriverArrived, At, TypeOK, CallsOK, Params, Trips, Finds,
      Find, NoFind, Live
<1>13. ASSUME NEW t \in Trip, StartTrip(t)  PROVE CallsOK'
  BY <1>13 DEF StartTrip, At, TypeOK, CallsOK, Params, Trips, Finds,
      Find, NoFind, Live
<1>14. ASSUME NEW t \in Trip, CompleteTrip(t)  PROVE CallsOK'
  BY <1>14 DEF CompleteTrip, EndTrip, At, Freed, TypeOK, CallsOK, Params, Trips, Finds,
      Find, NoFind, Live
<1>15. ASSUME NEW t \in Trip, CancelTrip(t)  PROVE CallsOK'
  BY <1>15 DEF CancelTrip, EndTrip, At, Freed, TypeOK, CallsOK, Params, Trips, Finds,
      Find, NoFind, Live
<1> QED  BY <1>1, <1>2, <1>3, <1>4, <1>5, <1>6, <1>7, <1>8, <1>9, <1>10, <1>11, <1>12, <1>13, <1>14, <1>15
        DEF Next, Proceed

\* A call that claims nobody and gives nobody up.
LEMMA OwnersKept ==
    ASSUME OwnersOK, UNCHANGED <<cab, trip>>, \A u \in Trip : find'[u].got = find[u].got
    PROVE  OwnersOK'
<1>1. \A u \in Trip : \A d : Mine(u, d)' = Mine(u, d) /\ Claimed(u, d)' = Claimed(u, d)
  BY DEF Mine, Claimed
<1> QED  BY <1>1 DEF OwnersOK, Holds

\* A trip that ends leaves its driver to nobody.
LEMMA DriverFreed ==
    ASSUME Params, TypeOK, OwnersOK, NEW t \in Trip,
           trip[t].status \in Live, find[t].got = None,
           \A u \in Trip \ {t} : trip'[u] = trip[u] /\ find'[u] = find[u],
           trip'[t].status \notin Live, find'[t].got = None,
           cab' = Freed(trip[t].driver)
    PROVE  OwnersOK'
<1> DEFINE old == trip[t].driver
<1>1. old \in Driver /\ Mine(t, old)  BY DEF OwnersOK, Mine
<1>2. cab'[old] = "AVAILABLE" /\ \A d \in Driver : d # old => cab'[d] = cab[d]
  BY <1>1 DEF Freed, TypeOK
<1>3. \A u \in Trip \ {t} : \A d \in Driver :
         (Mine(u, d)' <=> Mine(u, d)) /\ (Claimed(u, d)' <=> Claimed(u, d))
  BY DEF Mine, Claimed
<1>4. \A d \in Driver : ~Mine(t, d)' /\ ~Claimed(t, d)' /\ (Holds(t, d) => d = old)
  BY DEF Mine, Claimed, Holds, Params
<1>5. \A u \in Trip : Holds(u, old) => u = t  BY <1>1 DEF OwnersOK, Holds
<1>6. \A u \in Trip : trip'[u].status \in Live => trip'[u].driver \in Driver  BY DEF OwnersOK
<1>7. \A u \in Trip : \A d \in Driver : Holds(u, d)' <=> u # t /\ d # old /\ Holds(u, d)
  BY <1>3, <1>4, <1>5 DEF Holds
<1> HIDE DEF old
<1>8. ASSUME NEW d \in Driver, cab'[d] \in {"BOOKED", "ON_TRIP"}  PROVE \E u \in Trip : Holds(u, d)'
  <2>1. d # old /\ cab[d] \in {"BOOKED", "ON_TRIP"}  BY <1>2, <1>8
  <2>2. PICK u \in Trip : Holds(u, d)  BY <2>1 DEF OwnersOK
  <2> QED  BY <1>4, <1>7, <2>1, <2>2
<1>9. ASSUME NEW d \in Driver, NEW u \in Trip, Holds(u, d)'
      PROVE  /\ cab'[d] = IF Mine(u, d)' /\ trip'[u].status = "STARTED" THEN "ON_TRIP" ELSE "BOOKED"
             /\ ~(Mine(u, d)' /\ Claimed(u, d)')
             /\ \A v \in Trip : Holds(v, d)' => v = u
  <2>1. u # t /\ d # old /\ Holds(u, d)  BY <1>7, <1>9
  <2>2. /\ cab[d] = IF Mine(u, d) /\ trip[u].status = "STARTED" THEN "ON_TRIP" ELSE "BOOKED"
        /\ ~(Mine(u, d) /\ Claimed(u, d)) /\ \A v \in Trip : Holds(v, d) => v = u
    BY <2>1 DEF OwnersOK
  <2> QED  BY <1>2, <1>3, <1>7, <2>1, <2>2
<1> QED  BY <1>6, <1>8, <1>9 DEF OwnersOK

\* Every operation passes drivers on one at a time.
LEMMA StepOwners ==
    ASSUME Params, TypeOK, CallsOK, OwnersOK, Next
    PROVE  OwnersOK'
<1>1. ASSUME NEW d \in Driver, GoOffline(d) \/ GoOnline(d) \/ \E k \in 1..Rings : UpdateLocation(d, k)
      PROVE  OwnersOK'
  BY <1>1 DEF GoOffline, GoOnline, UpdateLocation, TypeOK, CallsOK, OwnersOK, Holds, Mine,
      Claimed, Params, Trips, Finds, Find, NoFind, Live
<1>2. ASSUME NEW t \in Trip, Search(t)  PROVE OwnersOK'
  <2>1. \A u \in Trip : find'[u].got = find[u].got  BY <1>2 DEF Search, TypeOK, Finds
  <2>2. UNCHANGED <<cab, trip>>  BY <1>2 DEF Search
  <2> QED  BY <2>1, <2>2, OwnersKept
<1>3. ASSUME NEW t \in Trip, TryClaim(t)  PROVE OwnersOK'
  <2> DEFINE d == Head(find[t].list)
  <2>1. d \in Driver /\ find[t].got = None /\ trip' = trip
    BY <1>3 DEF TryClaim, TypeOK, Finds, CallsOK
  <2>2. \A u \in Trip \ {t} : find'[u] = find[u]  BY <1>3 DEF TryClaim, TypeOK
  <2>3. /\ find'[t].got = IF Claimable(d) THEN d ELSE None
        /\ cab' = IF Claimable(d) THEN [cab EXCEPT ![d] = "BOOKED"] ELSE cab
    BY <1>3 DEF TryClaim, TypeOK, Finds
  <2> HIDE DEF d
  <2>4. CASE Claimable(d)
    <3>1. \A u \in Trip : ~Holds(u, d)  BY <2>1, <2>4 DEF OwnersOK, Claimable
    <3>2. ASSUME NEW u \in Trip, NEW e \in Driver
          PROVE  (Mine(u, e)' <=> Mine(u, e)) /\ (Claimed(u, e)' <=> IF u = t THEN e = d ELSE Claimed(u, e))
      BY <2>1, <2>2, <2>3, <2>4 DEF Mine, Claimed
    <3>3. /\ cab'[d] = "BOOKED" /\ ~Mine(t, d)
          /\ \A e \in Driver : e # d => cab'[e] = cab[e] /\ ~Claimed(t, e)
      BY <2>1, <2>3, <2>4, <3>1 DEF TypeOK, Holds, Claimed, Params
    <3>4. ASSUME NEW e \in Driver, NEW u \in Trip
          PROVE  /\ Holds(u, e)' <=> IF e = d THEN u = t ELSE Holds(u, e)
                 /\ e # d => (Claimed(u, e)' <=> Claimed(u, e))
      <4>1. (Mine(u, e)' <=> Mine(u, e)) /\ (Claimed(u, e)' <=> IF u = t THEN e = d ELSE Claimed(u, e))
        BY <3>2
      <4>2. CASE e = d
        <5>1. ~Mine(u, e) /\ ~Claimed(u, e)  BY <3>1, <4>2 DEF Holds
        <5> QED  BY <4>1, <4>2, <5>1 DEF Holds
      <4>3. CASE e # d
        <5>1. Claimed(u, e)' <=> Claimed(u, e)  BY <3>3, <4>1, <4>3
        <5> QED  BY <4>1, <4>3, <5>1 DEF Holds
      <4> QED  BY <4>2, <4>3
    <3>5. \A e \in Driver : cab'[e] \in {"BOOKED", "ON_TRIP"} => \E u \in Trip : Holds(u, e)'
      BY <3>3, <3>4 DEF OwnersOK
    <3>6. ASSUME NEW e \in Driver, NEW u \in Trip, Holds(u, e)'
          PROVE  /\ cab'[e] = IF Mine(u, e)' /\ trip'[u].status = "STARTED" THEN "ON_TRIP" ELSE "BOOKED"
                 /\ ~(Mine(u, e)' /\ Claimed(u, e)')
                 /\ \A v \in Trip : Holds(v, e)' => v = u
      <4>1. CASE e = d  BY <3>2, <3>3, <3>4, <3>6, <4>1
      <4>2. CASE e # d
        <5>1. Holds(u, e)  BY <3>4, <3>6, <4>2
        <5>2. /\ cab[e] = IF Mine(u, e) /\ trip[u].status = "STARTED" THEN "ON_TRIP" ELSE "BOOKED"
              /\ ~(Mine(u, e) /\ Claimed(u, e)) /\ \A v \in Trip : Holds(v, e) => v = u
          BY <5>1 DEF OwnersOK
        <5>3. (Mine(u, e)' <=> Mine(u, e)) /\ (Claimed(u, e)' <=> Claimed(u, e))
          BY <3>2, <3>4, <4>2
        <5> QED  BY <2>1, <3>3, <3>4, <4>2, <5>2, <5>3
      <4> QED  BY <4>1, <4>2
    <3>7. \A u \in Trip : trip'[u].status \in Live => trip'[u].driver \in Driver  BY <2>1 DEF OwnersOK
    <3> QED  BY <3>5, <3>6, <3>7 DEF OwnersOK
  <2>5. CASE ~Claimable(d)
    <3>1. \A u \in Trip : find'[u].got = find[u].got  BY <2>1, <2>2, <2>3, <2>5
    <3>2. cab' = cab  BY <2>3, <2>5
    <3> QED  BY <2>1, <3>1, <3>2, OwnersKept
  <2> QED  BY <2>4, <2>5
<1>4. ASSUME NEW t \in Trip, CreateTrip(t)  PROVE OwnersOK'
  <2>1. \A u \in Trip \ {t} : trip'[u] = trip[u] /\ find'[u] = find[u]
    BY <1>4 DEF CreateTrip, TypeOK
  <2>2. /\ trip'[t].status = "REQUESTED" /\ trip'[t].driver = find[t].got /\ find'[t].got = None
        /\ find[t].got \in Driver /\ cab' = cab /\ trip[t].status = "none"
    BY <1>4 DEF CreateTrip, Found, TypeOK, Trips, Finds, NoFind, Find, CallsOK
  <2> QED  BY <2>1, <2>2 DEF OwnersOK, Holds, Mine, Claimed, Live, Params
<1>5. ASSUME NEW t \in Trip, GiveUp(t)  PROVE OwnersOK'
  <2>1. \A u \in Trip : find'[u].got = find[u].got
    BY <1>5 DEF GiveUp, NotFound, TypeOK, CallsOK, Find, NoFind
  <2>2. UNCHANGED <<cab, trip>>  BY <1>5 DEF GiveUp
  <2> QED  BY <2>1, <2>2, OwnersKept
<1>6. ASSUME NEW t \in Trip, Reassign(t)  PROVE OwnersOK'
  <2> DEFINE old == trip[t].driver
             new == find[t].got
  <2>1. \A u \in Trip \ {t} : trip'[u] = trip[u] /\ find'[u] = find[u]
    BY <1>6 DEF Reassign, TypeOK
  <2>2. trip[t].status = "REQUESTED" /\ new \in Driver /\ old \in Driver
    BY <1>6 DEF Reassign, Found, TypeOK, Finds, CallsOK, OwnersOK, Live
  <2>3. trip'[t].status = "REQUESTED" /\ trip'[t].driver = new /\ find'[t].got = None
    BY <1>6, <2>2 DEF Reassign, TypeOK, Trips, NoFind, Find
  <2>4. /\ Mine(t, old) /\ Claimed(t, new) /\ old # new
        /\ cab[new] = "BOOKED" /\ \A u \in Trip : Holds(u, old) \/ Holds(u, new) => u = t
    BY <2>2 DEF OwnersOK, Holds, Mine, Claimed, Live
  <2>5. cab'[old] = "AVAILABLE" /\ \A d \in Driver : d # old => cab'[d] = cab[d]
    BY <1>6, <2>2 DEF Reassign, Freed, TypeOK
  <2>6. \A u \in Trip \ {t} : \A d \in Driver :
           (Mine(u, d)' <=> Mine(u, d)) /\ (Claimed(u, d)' <=> Claimed(u, d))
    BY <2>1 DEF Mine, Claimed
  <2>7. \A d \in Driver : (Mine(t, d)' <=> d = new) /\ ~Claimed(t, d)'
    BY <2>3 DEF Mine, Claimed, Live, Params
  <2> HIDE DEF old, new
  <2>8. ASSUME NEW d \in Driver, NEW u \in Trip
        PROVE  Holds(u, d)' <=> IF u = t THEN d = new ELSE Holds(u, d)
    BY <2>6, <2>7 DEF Holds
  <2>9. ASSUME NEW d \in Driver, cab'[d] \in {"BOOKED", "ON_TRIP"}  PROVE \E u \in Trip : Holds(u, d)'
    <3>1. CASE d = new  BY <2>8, <3>1
    <3>2. CASE d # new
      <4>1. d # old /\ cab[d] \in {"BOOKED", "ON_TRIP"}  BY <2>5, <2>9
      <4>2. PICK u \in Trip : Holds(u, d)  BY <4>1 DEF OwnersOK
      <4>3. u # t  BY <2>2, <3>2, <4>1, <4>2 DEF Holds, Mine, Claimed, old, new
      <4> QED  BY <2>8, <4>2, <4>3
    <3> QED  BY <3>1, <3>2
  <2>10. ASSUME NEW d \in Driver, NEW u \in Trip, Holds(u, d)'
         PROVE  /\ cab'[d] = IF Mine(u, d)' /\ trip'[u].status = "STARTED" THEN "ON_TRIP" ELSE "BOOKED"
                /\ ~(Mine(u, d)' /\ Claimed(u, d)')
                /\ \A v \in Trip : Holds(v, d)' => v = u
    <3>1. CASE u = t
      <4>1. d = new  BY <2>8, <2>10, <3>1
      <4>2. \A v \in Trip : Holds(v, d)' => v = u  BY <2>4, <2>8, <3>1, <4>1
      <4> QED  BY <2>2, <2>3, <2>4, <2>5, <2>7, <3>1, <4>1, <4>2
    <3>2. CASE u # t
      <4>1. Holds(u, d) /\ d # old /\ d # new  BY <2>4, <2>8, <2>10, <3>2
      <4>2. /\ cab[d] = IF Mine(u, d) /\ trip[u].status = "STARTED" THEN "ON_TRIP" ELSE "BOOKED"
            /\ ~(Mine(u, d) /\ Claimed(u, d)) /\ \A v \in Trip : Holds(v, d) => v = u
        BY <4>1 DEF OwnersOK
      <4>3. \A v \in Trip : Holds(v, d)' => v = u  BY <2>8, <4>1, <4>2
      <4> QED  BY <2>1, <2>5, <2>6, <3>2, <4>1, <4>2, <4>3
    <3> QED  BY <3>1, <3>2
  <2>11. \A u \in Trip : trip'[u].status \in Live => trip'[u].driver \in Driver
    BY <2>1, <2>2, <2>3 DEF OwnersOK
  <2> QED  BY <2>9, <2>10, <2>11 DEF OwnersOK
<1>7. ASSUME NEW t \in Trip, NobodyAccepts(t)  PROVE OwnersOK'
  <2>1. trip[t].status \in Live /\ find[t].got = None
    BY <1>7 DEF NobodyAccepts, NotFound, CallsOK, NoFind, Find, Live
  <2>2. /\ \A u \in Trip \ {t} : trip'[u] = trip[u] /\ find'[u] = find[u]
        /\ trip'[t].status \notin Live /\ find'[t].got = None
    BY <1>7 DEF NobodyAccepts, NotFound, TypeOK, Trips, Find, Live
  <2>3. cab' = Freed(trip[t].driver)  BY <1>7 DEF NobodyAccepts, NotFound, Freed
  <2> QED  BY <2>1, <2>2, <2>3, DriverFreed
<1>8. ASSUME NEW t \in Trip, ReleaseRider(t)  PROVE OwnersOK'
  <2>1. \A u \in Trip : find'[u].got = find[u].got
    BY <1>8 DEF ReleaseRider, TypeOK, CallsOK, Find, NoFind
  <2>2. UNCHANGED <<cab, trip>>  BY <1>8 DEF ReleaseRider
  <2> QED  BY <2>1, <2>2, OwnersKept
<1>9. ASSUME NEW t \in Trip, RequestRide(t)  PROVE OwnersOK'
  <2>1. \A u \in Trip : find'[u].got = find[u].got
    BY <1>9 DEF RequestRide, TypeOK, CallsOK, Find, NoFind
  <2>2. UNCHANGED <<cab, trip>>  BY <1>9 DEF RequestRide
  <2> QED  BY <2>1, <2>2, OwnersKept
<1>10. ASSUME NEW t \in Trip, DeclineTrip(t)  PROVE OwnersOK'
  <2>1. \A u \in Trip : find'[u].got = find[u].got
    BY <1>10 DEF DeclineTrip, At, TypeOK, CallsOK, Find, NoFind
  <2>2. UNCHANGED <<cab, trip>>  BY <1>10 DEF DeclineTrip
  <2> QED  BY <2>1, <2>2, OwnersKept
<1>11. ASSUME NEW t \in Trip, AcceptTrip(t)  PROVE OwnersOK'
  BY <1>11 DEF AcceptTrip, At, TypeOK, CallsOK, OwnersOK, Holds, Mine,
      Claimed, Params, Trips, Finds, Find, NoFind, Live
<1>12. ASSUME NEW t \in Trip, DriverArrived(t)  PROVE OwnersOK'
  BY <1>12 DEF DriverArrived, At, TypeOK, CallsOK, OwnersOK, Holds, Mine,
      Claimed, Params, Trips, Finds, Find, NoFind, Live
<1>13. ASSUME NEW t \in Trip, StartTrip(t)  PROVE OwnersOK'
  BY <1>13 DEF StartTrip, At, TypeOK, CallsOK, OwnersOK, Holds, Mine,
      Claimed, Params, Trips, Finds, Find, NoFind, Live
<1>14. ASSUME NEW t \in Trip, CompleteTrip(t)  PROVE OwnersOK'
  <2>1. trip[t].status \in Live /\ find[t].got = None
    BY <1>14 DEF CompleteTrip, EndTrip, At, CallsOK, NoFind, Find, Live
  <2>2. /\ \A u \in Trip \ {t} : trip'[u] = trip[u] /\ find'[u] = find[u]
        /\ trip'[t].status \notin Live /\ find'[t].got = None
    BY <1>14 DEF CompleteTrip, EndTrip, At, TypeOK, Trips, Find, Live
  <2>3. cab' = Freed(trip[t].driver)  BY <1>14 DEF CompleteTrip, EndTrip, At, Freed
  <2> QED  BY <2>1, <2>2, <2>3, DriverFreed
<1>15. ASSUME NEW t \in Trip, CancelTrip(t)  PROVE OwnersOK'
  <2>1. trip[t].status \in Live /\ find[t].got = None
    BY <1>15 DEF CancelTrip, EndTrip, At, CallsOK, NoFind, Find, Live
  <2>2. /\ \A u \in Trip \ {t} : trip'[u] = trip[u] /\ find'[u] = find[u]
        /\ trip'[t].status \notin Live /\ find'[t].got = None
    BY <1>15 DEF CancelTrip, EndTrip, At, TypeOK, Trips, Find, Live
  <2>3. cab' = Freed(trip[t].driver)  BY <1>15 DEF CancelTrip, EndTrip, At, Freed
  <2> QED  BY <2>1, <2>2, <2>3, DriverFreed
<1> QED  BY <1>1, <1>2, <1>3, <1>4, <1>5, <1>6, <1>7, <1>8, <1>9, <1>10, <1>11, <1>12, <1>13, <1>14, <1>15
        DEF Next, Proceed


\* What a step may do to the riders: nothing, or to one of them.
Same(t) == (Reserves(t)' <=> Reserves(t)) /\ (Occupies(t)' <=> Occupies(t))
Others(t) ==
    /\ \A u \in Trip : u # t => Same(u)
    /\ \A r \in Rider : r # RiderOf[t] => active'[r] = active[r]
RiderEffect ==
    \/ active' = active /\ \A u \in Trip : Same(u)
    \/ \E t \in Trip :
          /\ Others(t)
          /\ \/ /\ active[RiderOf[t]] = None /\ active'[RiderOf[t]] = "reserved"
                /\ Reserves(t)' /\ ~Occupies(t)'
             \/ /\ Reserves(t) /\ ~Reserves(t)'
                /\ \/ ~Occupies(t)' /\ active'[RiderOf[t]] = None
                   \/ Occupies(t)' /\ active'[RiderOf[t]] = t
             \/ /\ Occupies(t) /\ ~Occupies(t)' /\ ~Reserves(t)' /\ active'[RiderOf[t]] = None

\* Every operation passes riders on one at a time.
LEMMA StepRiderEffect ==
    ASSUME Params, TypeOK, CallsOK, RidersOK, Next
    PROVE  RiderEffect
<1>1. ASSUME NEW t \in Trip,
             \A u \in Trip \ {t} : trip'[u] = trip[u] /\ find'[u] = find[u]
      PROVE  \A u \in Trip : u # t => Same(u)
  BY <1>1 DEF Same, Reserves, Occupies
<1>2. ASSUME UNCHANGED <<trip, find, active>>  PROVE RiderEffect
  BY <1>2 DEF RiderEffect, Same, Reserves, Occupies
<1>3. ASSUME NEW t \in Trip, Search(t)  PROVE RiderEffect
  <2>1. \A u \in Trip \ {t} : trip'[u] = trip[u] /\ find'[u] = find[u]
    BY <1>3 DEF Search, TypeOK
  <2>2. Same(t) /\ active' = active
    BY <1>3 DEF Search, TypeOK, Trips, Finds, CallsOK, Same, Reserves, Occupies, Find, NoFind, Live
  <2> QED  BY <1>1, <2>1, <2>2 DEF RiderEffect
<1>4. ASSUME NEW t \in Trip, TryClaim(t)  PROVE RiderEffect
  <2>1. \A u \in Trip \ {t} : trip'[u] = trip[u] /\ find'[u] = find[u]
    BY <1>4 DEF TryClaim, Claimable, TypeOK
  <2>2. Same(t) /\ active' = active
    BY <1>4 DEF TryClaim, Claimable, TypeOK, Trips, Finds, CallsOK, Same, Reserves, Occupies, Find, NoFind, Live
  <2> QED  BY <1>1, <2>1, <2>2 DEF RiderEffect
<1>5. ASSUME NEW t \in Trip, Reassign(t)  PROVE RiderEffect
  <2>1. \A u \in Trip \ {t} : trip'[u] = trip[u] /\ find'[u] = find[u]
    BY <1>5 DEF Reassign, Found, Freed, TypeOK
  <2>2. Same(t) /\ active' = active
    BY <1>5 DEF Reassign, Found, Freed, TypeOK, Trips, Finds, CallsOK, Same, Reserves, Occupies, Find, NoFind, Live
  <2> QED  BY <1>1, <2>1, <2>2 DEF RiderEffect
<1>6. ASSUME NEW t \in Trip, NobodyAccepts(t)  PROVE RiderEffect
  <2>1. \A u \in Trip \ {t} : trip'[u] = trip[u] /\ find'[u] = find[u]
    BY <1>6 DEF NobodyAccepts, NotFound, Freed, TypeOK
  <2>2. Same(t) /\ active' = active
    BY <1>6 DEF NobodyAccepts, NotFound, Freed, TypeOK, Trips, Finds, CallsOK, Same, Reserves, Occupies, Find, NoFind, Live
  <2> QED  BY <1>1, <2>1, <2>2 DEF RiderEffect
<1>7. ASSUME NEW t \in Trip, DeclineTrip(t)  PROVE RiderEffect
  <2>1. \A u \in Trip \ {t} : trip'[u] = trip[u] /\ find'[u] = find[u]
    BY <1>7 DEF DeclineTrip, At, TypeOK
  <2>2. Same(t) /\ active' = active
    BY <1>7 DEF DeclineTrip, At, TypeOK, Trips, Finds, CallsOK, Same, Reserves, Occupies, Find, NoFind, Live
  <2> QED  BY <1>1, <2>1, <2>2 DEF RiderEffect
<1>8. ASSUME NEW t \in Trip, AcceptTrip(t)  PROVE RiderEffect
  <2>1. \A u \in Trip \ {t} : trip'[u] = trip[u] /\ find'[u] = find[u]
    BY <1>8 DEF AcceptTrip, At, TypeOK
  <2>2. Same(t) /\ active' = active
    BY <1>8 DEF AcceptTrip, At, TypeOK, Trips, Finds, CallsOK, Same, Reserves, Occupies, Find, NoFind, Live
  <2> QED  BY <1>1, <2>1, <2>2 DEF RiderEffect
<1>9. ASSUME NEW t \in Trip, DriverArrived(t)  PROVE RiderEffect
  <2>1. \A u \in Trip \ {t} : trip'[u] = trip[u] /\ find'[u] = find[u]
    BY <1>9 DEF DriverArrived, At, TypeOK
  <2>2. Same(t) /\ active' = active
    BY <1>9 DEF DriverArrived, At, TypeOK, Trips, Finds, CallsOK, Same, Reserves, Occupies, Find, NoFind, Live
  <2> QED  BY <1>1, <2>1, <2>2 DEF RiderEffect
<1>10. ASSUME NEW t \in Trip, StartTrip(t)  PROVE RiderEffect
  <2>1. \A u \in Trip \ {t} : trip'[u] = trip[u] /\ find'[u] = find[u]
    BY <1>10 DEF StartTrip, At, TypeOK
  <2>2. Same(t) /\ active' = active
    BY <1>10 DEF StartTrip, At, TypeOK, Trips, Finds, CallsOK, Same, Reserves, Occupies, Find, NoFind, Live
  <2> QED  BY <1>1, <2>1, <2>2 DEF RiderEffect
<1>11. ASSUME NEW t \in Trip, CompleteTrip(t)  PROVE RiderEffect
  <2>1. \A u \in Trip \ {t} : trip'[u] = trip[u] /\ find'[u] = find[u]
    BY <1>11 DEF CompleteTrip, EndTrip, At, Freed, TypeOK
  <2>2. Same(t) /\ active' = active
    BY <1>11 DEF CompleteTrip, EndTrip, At, Freed, TypeOK, Trips, Finds, CallsOK, Same, Reserves, Occupies, Find, NoFind, Live
  <2> QED  BY <1>1, <2>1, <2>2 DEF RiderEffect
<1>12. ASSUME NEW t \in Trip, CancelTrip(t)  PROVE RiderEffect
  <2>1. \A u \in Trip \ {t} : trip'[u] = trip[u] /\ find'[u] = find[u]
    BY <1>12 DEF CancelTrip, EndTrip, At, Freed, TypeOK
  <2>2. Same(t) /\ active' = active
    BY <1>12 DEF CancelTrip, EndTrip, At, Freed, TypeOK, Trips, Finds, CallsOK, Same, Reserves, Occupies, Find, NoFind, Live
  <2> QED  BY <1>1, <2>1, <2>2 DEF RiderEffect
<1>13. ASSUME NEW t \in Trip, RequestRide(t)  PROVE RiderEffect
  <2>1. \A u \in Trip \ {t} : trip'[u] = trip[u] /\ find'[u] = find[u]
    BY <1>13 DEF RequestRide, TypeOK
  <2>2. \A r \in Rider : r # RiderOf[t] => active'[r] = active[r]
    BY <1>13 DEF RequestRide, TypeOK
  <2>3. RiderOf[t] \in Rider  BY DEF Rider
  <2>4. /\ active[RiderOf[t]] = None /\ active'[RiderOf[t]] = "reserved" /\ Reserves(t)' /\ ~Occupies(t)'
    BY <1>13, <2>3 DEF RequestRide, TypeOK, Trips, Finds, CallsOK, RidersOK, Reserves, Occupies,
       RiderFree, Find, NoFind, Live
  <2> QED  BY <1>1, <2>1, <2>2, <2>4 DEF RiderEffect, Others
<1>14. ASSUME NEW t \in Trip, CreateTrip(t)  PROVE RiderEffect
  <2>1. \A u \in Trip \ {t} : trip'[u] = trip[u] /\ find'[u] = find[u]
    BY <1>14 DEF CreateTrip, Found, TypeOK
  <2>2. \A r \in Rider : r # RiderOf[t] => active'[r] = active[r]
    BY <1>14 DEF CreateTrip, Found, TypeOK
  <2>3. RiderOf[t] \in Rider  BY DEF Rider
  <2>4. /\ Reserves(t) /\ ~Reserves(t)' /\ Occupies(t)' /\ active'[RiderOf[t]] = t
    BY <1>14, <2>3 DEF CreateTrip, Found, TypeOK, Trips, Finds, CallsOK, RidersOK, Reserves, Occupies,
       RiderFree, Find, NoFind, Live
  <2> QED  BY <1>1, <2>1, <2>2, <2>4 DEF RiderEffect, Others
<1>15. ASSUME NEW t \in Trip, GiveUp(t)  PROVE RiderEffect
  <2>1. \A u \in Trip \ {t} : trip'[u] = trip[u] /\ find'[u] = find[u]
    BY <1>15 DEF GiveUp, NotFound, TypeOK
  <2>2. \A r \in Rider : r # RiderOf[t] => active'[r] = active[r]
    BY <1>15 DEF GiveUp, NotFound, TypeOK
  <2>3. RiderOf[t] \in Rider  BY DEF Rider
  <2>4. /\ Reserves(t) /\ ~Reserves(t)' /\ ~Occupies(t)' /\ active'[RiderOf[t]] = None
    BY <1>15, <2>3 DEF GiveUp, NotFound, TypeOK, Trips, Finds, CallsOK, RidersOK, Reserves, Occupies,
       RiderFree, Find, NoFind, Live
  <2> QED  BY <1>1, <2>1, <2>2, <2>4 DEF RiderEffect, Others
<1>16. ASSUME NEW t \in Trip, ReleaseRider(t)  PROVE RiderEffect
  <2>1. \A u \in Trip \ {t} : trip'[u] = trip[u] /\ find'[u] = find[u]
    BY <1>16 DEF ReleaseRider, TypeOK
  <2>2. \A r \in Rider : r # RiderOf[t] => active'[r] = active[r]
    BY <1>16 DEF ReleaseRider, TypeOK
  <2>3. RiderOf[t] \in Rider  BY DEF Rider
  <2>4. Occupies(t) /\ trip[t].status \notin Live
    BY <1>16 DEF ReleaseRider, CallsOK, Occupies, Live
  <2>5. ~Occupies(t)' /\ ~Reserves(t)'
    BY <1>16, <2>4 DEF ReleaseRider, TypeOK, Occupies, Reserves, Find, NoFind
  <2>6. active'[RiderOf[t]] = None  BY <1>16, <2>3, <2>4 DEF ReleaseRider, TypeOK, RidersOK
  <2> QED  BY <1>1, <2>1, <2>2, <2>4, <2>5, <2>6 DEF RiderEffect, Others
<1> QED  BY <1>2, <1>3, <1>4, <1>5, <1>6, <1>7, <1>8, <1>9, <1>10, <1>11, <1>12, <1>13, <1>14, <1>15, <1>16
        DEF Next, Proceed, GoOffline, GoOnline, UpdateLocation

LEMMA StepRiders ==
    ASSUME Params, TypeOK, RidersOK, RiderEffect
    PROVE  RidersOK'
<1>0. \A t \in Trip : RiderOf[t] \in Rider  BY DEF Rider
<1>1. CASE active' = active /\ \A u \in Trip : Same(u)  BY <1>1 DEF Same, RidersOK, TypeOK
<1>2. CASE \E t \in Trip :
               /\ Others(t)
               /\ active[RiderOf[t]] = None /\ active'[RiderOf[t]] = "reserved"
               /\ Reserves(t)' /\ ~Occupies(t)'
  BY <1>0, <1>2 DEF Others, Same, RidersOK, TypeOK, Params
<1>3. CASE \E t \in Trip :
               /\ Others(t) /\ Reserves(t) /\ ~Reserves(t)'
               /\ ~Occupies(t)' /\ active'[RiderOf[t]] = None
  BY <1>0, <1>3 DEF Others, Same, RidersOK, TypeOK, Params
<1>4. CASE \E t \in Trip :
               /\ Others(t) /\ Reserves(t) /\ ~Reserves(t)'
               /\ Occupies(t)' /\ active'[RiderOf[t]] = t
  BY <1>0, <1>4 DEF Others, Same, RidersOK, TypeOK, Params
<1>5. CASE \E t \in Trip :
               /\ Others(t) /\ Occupies(t) /\ ~Occupies(t)' /\ ~Reserves(t)'
               /\ active'[RiderOf[t]] = None
  BY <1>0, <1>5 DEF Others, Same, RidersOK, TypeOK, Params
<1> QED  BY <1>1, <1>2, <1>3, <1>4, <1>5 DEF RiderEffect

LEMMA InitInv == ASSUME Params, Init PROVE Inv
<1>1. NoFind \in Finds /\ NoFind.kind = "none" /\ NoFind.got = None /\ NoFind.list = <<>>
  BY NotFinding DEF NoFind, Find
<1>2. TypeOK  BY <1>1 DEF Init, TypeOK, Trips, Live
<1>3. CallsOK /\ OwnersOK  BY <1>1 DEF Init, CallsOK, OwnersOK, Holds, Mine, Claimed, Live, Params
<1>4. OffersOK  BY <1>1 DEF Init, OffersOK, OfferOK, Barred, Params
<1>5. RidersOK  BY <1>1 DEF Init, RidersOK, Reserves, Occupies, Live, Params
<1> QED  BY <1>2, <1>3, <1>4, <1>5 DEF Inv

LEMMA InvAlways == ASSUME Params PROVE Spec => []Inv
<1>1. Init => Inv  BY InitInv
<1>2. Inv /\ [Next]_vars => Inv'
  <2> SUFFICES ASSUME Inv, [Next]_vars  PROVE Inv'  OBVIOUS
  <2>1. CASE Next
    BY <2>1, StepTypes, StepCalls, StepOwners, StepRiderEffect, StepRiders DEF Inv
  <2>2. CASE UNCHANGED vars
    <3>1. TypeOK' /\ CallsOK' /\ OffersOK'  BY <2>2 DEF vars, Inv, TypeOK, CallsOK, OffersOK
    <3>2. OwnersOK'  BY <2>2 DEF vars, Inv, OwnersOK, Holds, Mine, Claimed
    <3>3. RidersOK'  BY <2>2 DEF vars, Inv, RidersOK, Reserves, Occupies
    <3> QED  BY <3>1, <3>2, <3>3 DEF Inv
  <2> QED  BY <2>1, <2>2
<1> QED  BY <1>1, <1>2, PTL DEF Spec

\* For any drivers, trips and riders, and however searches, refusals and
\* cancellations interleave, a driver that is BOOKED or ON_TRIP has exactly one
\* trip or claim, and every other has none.
THEOREM DriverOfOneAlways == ASSUME Params PROVE Spec => []DriverOfOne
<1>1. ASSUME Inv  PROVE DriverOfOne
  <2> SUFFICES ASSUME NEW d \in Driver
               PROVE  LET mine == {t \in Trip : trip[t].status \in Live /\ trip[t].driver = d}
                          claims == {t \in Trip : find[t].got = d}
                      IN  /\ Cardinality(mine) + Cardinality(claims) =
                                IF cab[d] \in {"BOOKED", "ON_TRIP"} THEN 1 ELSE 0
                          /\ (cab[d] = "ON_TRIP") = (\E t \in mine : trip[t].status = "STARTED")
    BY DEF DriverOfOne
  <2> DEFINE mine == {t \in Trip : Mine(t, d)}
             claims == {t \in Trip : Claimed(t, d)}
  <2>1. CASE \E t \in Trip : Holds(t, d)
    <3>1. PICK t \in Trip : Holds(t, d)  BY <2>1
    <3>2. /\ cab[d] = IF Mine(t, d) /\ trip[t].status = "STARTED" THEN "ON_TRIP" ELSE "BOOKED"
          /\ ~(Mine(t, d) /\ Claimed(t, d)) /\ \A u \in Trip : Holds(u, d) => u = t
      BY <1>1, <3>1 DEF Inv, OwnersOK
    <3>3. \/ mine = {t} /\ claims = {} /\ Mine(t, d)
          \/ mine = {} /\ claims = {t} /\ ~Mine(t, d)
      BY <3>1, <3>2 DEF Holds
    <3>4. Cardinality(mine) + Cardinality(claims) = 1
      <4> HIDE DEF mine, claims
      <4>1. Cardinality({t}) = 1 /\ Cardinality({}) = 0  BY FS_EmptySet, FS_Singleton
      <4>2. CASE mine = {t} /\ claims = {}
        <5>1. Cardinality(mine) = 1 /\ Cardinality(claims) = 0  BY <4>1, <4>2, Zenon
        <5> QED  BY <5>1
      <4>3. CASE mine = {} /\ claims = {t}
        <5>1. Cardinality(mine) = 0 /\ Cardinality(claims) = 1  BY <4>1, <4>3, Zenon
        <5> QED  BY <5>1
      <4> QED  BY <3>3, <4>2, <4>3
    <3>5. (cab[d] = "ON_TRIP") = (\E u \in mine : trip[u].status = "STARTED")  BY <3>2, <3>3
    <3> QED  BY <3>2, <3>4, <3>5 DEF Mine, Claimed
  <2>2. CASE ~\E t \in Trip : Holds(t, d)
    <3>1. cab[d] \notin {"BOOKED", "ON_TRIP"}  BY <1>1, <2>2 DEF Inv, OwnersOK
    <3>2. mine = {} /\ claims = {}  BY <2>2 DEF Holds
    <3>3. Cardinality(mine) + Cardinality(claims) = 0  BY <3>2, FS_EmptySet
    <3> QED  BY <3>1, <3>2, <3>3 DEF Mine, Claimed
  <2> QED  BY <2>1, <2>2
<1> QED  BY <1>1, InvAlways, PTL

\* The same for riders and what _active_trip_by_rider says of them.
THEOREM RiderOfOneAlways == ASSUME Params PROVE Spec => []RiderOfOne
<1>1. ASSUME Params, Inv  PROVE RiderOfOne
  <2> SUFFICES ASSUME NEW r \in Rider
               PROVE  LET busy == {t \in Trip : RiderOf[t] = r /\
                                     (trip[t].status \in Live \/ find[t].kind \in {"request", "release"})}
                      IN  /\ Cardinality(busy) <= 1
                          /\ (active[r] = None) = (busy = {})
                          /\ active[r] \in Trip => active[r] \in busy
    BY DEF RiderOfOne
  <2> DEFINE busy == {t \in Trip : RiderOf[t] = r /\ (Occupies(t) \/ Reserves(t))}
  <2>1. active[r] \in Trip \cup {None, "reserved"}  BY <1>1 DEF Inv, TypeOK
  <2>2. \A t, u \in busy : t = u  BY <1>1 DEF Inv, RidersOK, Params
  <2>3. busy = {} \/ \E t \in busy : busy = {t}  BY <2>2
  <2>4. Cardinality(busy) <= 1
    <3>1. Cardinality({}) = 0 /\ \A x : Cardinality({x}) = 1  BY FS_EmptySet, FS_Singleton
    <3> HIDE DEF busy
    <3>2. Cardinality(busy) \in {0, 1}  BY <2>3, <3>1, Zenon
    <3> QED  BY <3>2
  <2>5. (active[r] = None) = (busy = {})  BY <1>1, <2>1 DEF Inv, RidersOK, Params
  <2>6. active[r] \in Trip => active[r] \in busy  BY <1>1 DEF Inv, RidersOK
  <2>7. busy = {t \in Trip : RiderOf[t] = r /\
                   (trip[t].status \in Live \/ find[t].kind \in {"request", "release"})}
    BY DEF Occupies, Reserves
  <2> HIDE DEF busy
  <2> QED  BY <2>4, <2>5, <2>6, <2>7
<1> QED  BY <1>1, InvAlways, PTL

\* A trip is never offered to a driver who declined it, however often it was.
THEOREM NeverOfferedTwiceAlways == ASSUME Params PROVE Spec => []NeverOfferedTwice
<1>1. Inv => NeverOfferedTwice  BY DEF Inv, OffersOK, OfferOK, NeverOfferedTwice
<1> QED  BY <1>1, InvAlways, PTL
=============================================================================
