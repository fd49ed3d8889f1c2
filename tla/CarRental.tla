----------------------------- MODULE CarRental -----------------------------
(***************************************************************************)
(* CarRentalService of python-low-level-design/car-rental-platform: a      *)
(* schedule of half-open blocks per vehicle, holds that lapse unless they  *)
(* are confirmed, maintenance, pickup and return.                          *)
(*                                                                         *)
(* A reservation's lock covers its transition and the schedule's section   *)
(* inside it, so both are one action; create_reservation reads the clock,  *)
(* blocks the schedule and registers the reservation in three steps.       *)
(* Searches, prices and loyalty points are left out.                       *)
(***************************************************************************)
EXTENDS Integers, Sequences, FiniteSets, FiniteSetsExt, SequencesExt

CONSTANTS
    Vehicle,
    Reservation, VehicleOf, Pickup, Dropoff,    \* what each reservation asks for
    Maintenance, MaintVehicle, MaintFrom, MaintTo,
    Turnaround, HoldTtl,
    MaxTime     \* bound, and the end of every window that is looked at

VARIABLES
    blocks,     \* VehicleSchedule._blocks, as a set: start orders it
    status,     \* Reservation.status; "none", then "asked" and "blocked" inside create_reservation
    holdUntil,  \* Reservation.hold_expires_at
    rented,     \* the vehicles whose status is RENTED
    sweep,      \* expire_holds: the reservations still to be looked at, and its clock reading
    now

vars == <<blocks, status, holdUntil, rented, sweep, now>>

Never == MaxTime + HoldTtl + 1
NoSweep == [left |-> {}, at |-> 0]

Init ==
    /\ blocks = [v \in Vehicle |-> {}] /\ status = [r \in Reservation |-> "none"]
    /\ holdUntil = [r \in Reservation |-> 0] /\ rented = {} /\ sweep = NoSweep /\ now = 0
----------------------------------------------------------------------------
\* Block.live and purge_expired.
Purged(v) == {b \in blocks[v] : now < b.expires}

\* conflict: the first block that ends after s, found by bisection over the
\* ends, starts before e.
Conflict(B, s, e) ==
    LET later == {b \in B : b.end > s}
    IN  later # {} /\ Min({b.start : b \in later}) < e

\* _span: a reservation also blocks the turnaround.
SpanEnd(r) == Dropoff[r] + Turnaround

\* next_free_window: one pass over the blocks in order.
NextFree(B, pickup, dropoff) ==
    LET length == dropoff - pickup + Turnaround
        order == SetToSortSeq(B, LAMBDA a, b : a.start < b.start)
        walk(b, c) == IF c.stop \/ b.end <= c.at THEN c
                      ELSE IF b.start >= c.at + length THEN [c EXCEPT !.stop = TRUE]
                      ELSE [c EXCEPT !.at = b.end]
    IN  FoldLeft(LAMBDA c, b : walk(b, c), [at |-> pickup, stop |-> FALSE], order).at
----------------------------------------------------------------------------
\* create_reservation up to the schedule: the clock is read here.
CreateBegin(r) ==
    /\ status[r] = "none" /\ Pickup[r] >= now
    /\ status' = [status EXCEPT ![r] = "asked"]
    /\ holdUntil' = [holdUntil EXCEPT ![r] = now + HoldTtl]
    /\ UNCHANGED <<blocks, rented, sweep, now>>

SpanFree(v, r) == ~Conflict(Purged(v), Pickup[r], SpanEnd(r))

\* try_block: check and insert under the schedule's lock.
TryBlock(r) ==
    LET v == VehicleOf[r]
    IN  /\ status[r] = "asked"
        /\ IF SpanFree(v, r)
           THEN /\ blocks' = [blocks EXCEPT ![v] = Purged(v) \cup
                      {[start |-> Pickup[r], end |-> SpanEnd(r), ref |-> r, expires |-> holdUntil[r]]}]
                /\ status' = [status EXCEPT ![r] = "blocked"]
           ELSE /\ blocks' = [blocks EXCEPT ![v] = Purged(v)]
                /\ status' = [status EXCEPT ![r] = "none"]
        /\ UNCHANGED <<holdUntil, rented, sweep, now>>

Register(r) ==
    /\ status[r] = "blocked"
    /\ status' = [status EXCEPT ![r] = "PENDING"]
    /\ UNCHANGED <<blocks, holdUntil, rented, sweep, now>>

\* confirm_hold finds the block after the purge.
HoldFound(r) == \E b \in Purged(VehicleOf[r]) : b.ref = r

Confirm(r) ==
    LET v == VehicleOf[r]
    IN  /\ status[r] = "PENDING"
        /\ blocks' = [blocks EXCEPT ![v] =
              {IF b.ref = r THEN [b EXCEPT !.expires = Never] ELSE b : b \in Purged(v)}]
        /\ status' = [status EXCEPT ![r] = IF HoldFound(r) THEN "CONFIRMED" ELSE "EXPIRED"]
        /\ UNCHANGED <<holdUntil, rented, sweep, now>>

\* release.
Without(r) == [blocks EXCEPT ![VehicleOf[r]] = {b \in @ : b.ref # r}]

Cancel(r) ==
    /\ status[r] \in {"PENDING", "CONFIRMED"}
    /\ status' = [status EXCEPT ![r] = "CANCELLED"] /\ blocks' = Without(r)
    /\ UNCHANGED <<holdUntil, rented, sweep, now>>

\* expire_holds reads the clock once and then visits every reservation.
SweepBegin ==
    /\ sweep.left = {}
    /\ sweep' = [left |-> {r \in Reservation : status[r] \notin {"none", "asked", "blocked"}},
                 at |-> now]
    /\ UNCHANGED <<blocks, status, holdUntil, rented, now>>

Lapsed(r) == status[r] = "PENDING" /\ sweep.at >= holdUntil[r]

SweepNext(r) ==
    /\ r \in sweep.left
    /\ sweep' = [sweep EXCEPT !.left = @ \ {r}]
    /\ IF Lapsed(r)
       THEN status' = [status EXCEPT ![r] = "EXPIRED"] /\ blocks' = Without(r)
       ELSE UNCHANGED <<status, blocks>>
    /\ UNCHANGED <<holdUntil, rented, now>>

ScheduleMaintenance(m) ==
    LET v == MaintVehicle[m]
    IN  /\ \A b \in blocks[v] : b.ref # m
        /\ ~Conflict(Purged(v), MaintFrom[m], MaintTo[m])
        /\ blocks' = [blocks EXCEPT ![v] = Purged(v) \cup
              {[start |-> MaintFrom[m], end |-> MaintTo[m], ref |-> m, expires |-> Never]}]
        /\ UNCHANGED <<status, holdUntil, rented, sweep, now>>

StartRental(r) ==
    /\ status[r] = "CONFIRMED"
    /\ status' = [status EXCEPT ![r] = "IN_PROGRESS"] /\ rented' = rented \cup {VehicleOf[r]}
    /\ UNCHANGED <<blocks, holdUntil, sweep, now>>

CompleteRental(r) ==
    /\ status[r] = "IN_PROGRESS"
    /\ status' = [status EXCEPT ![r] = "COMPLETED"] /\ rented' = rented \ {VehicleOf[r]}
    /\ blocks' = Without(r)
    /\ UNCHANGED <<holdUntil, sweep, now>>

Tick ==
    /\ now < MaxTime /\ now' = now + 1
    /\ UNCHANGED <<blocks, status, holdUntil, rented, sweep>>
----------------------------------------------------------------------------
Next ==
    \/ \E r \in Reservation :
          \/ CreateBegin(r) \/ TryBlock(r) \/ Register(r) \/ Confirm(r) \/ Cancel(r)
          \/ SweepNext(r) \/ StartRental(r) \/ CompleteRental(r)
    \/ \E m \in Maintenance : ScheduleMaintenance(m)
    \/ SweepBegin \/ Tick

Spec == Init /\ [][Next]_vars
----------------------------------------------------------------------------
TypeOK ==
    /\ \A v \in Vehicle : blocks[v] \subseteq [start : 0..MaxTime, end : 0..Never,
                                               ref : Reservation \cup Maintenance, expires : 0..Never]
    /\ status \in [Reservation -> {"none", "asked", "blocked", "PENDING", "CONFIRMED", "CANCELLED",
                                   "EXPIRED", "IN_PROGRESS", "COMPLETED"}]
    /\ rented \subseteq Vehicle /\ sweep.left \subseteq Reservation

\* AvailabilityCalendar and confirm_reservation: a firm reservation has its
\* permanent block, the blocks of a vehicle never overlap (turnaround
\* included), and a permanent block belongs to a firm reservation or to
\* maintenance: no vehicle is promised twice although holds lapse, are swept
\* or are purged at any moment.
NoDoubleBooking ==
    LET firm == {r \in Reservation : status[r] \in {"CONFIRMED", "IN_PROGRESS"}}
    IN  /\ \A r \in firm : \E b \in blocks[VehicleOf[r]] :
              b.ref = r /\ b.expires = Never /\ b.start = Pickup[r] /\ b.end = SpanEnd(r)
        /\ \A v \in Vehicle : \A a, b \in blocks[v] : a # b => a.end <= b.start \/ b.end <= a.start
        /\ \A v \in Vehicle : \A b \in blocks[v] : b.expires = Never => b.ref \in firm \cup Maintenance

\* VehicleSchedule.conflict and next_free_window against their definitions:
\* the bisection finds a block exactly if one overlaps, and the walk over the
\* gaps returns the earliest instant at which the booking fits.
GapsExact ==
    \A v \in Vehicle, s \in 0..MaxTime : \A e \in (s + 1)..(MaxTime + 1) :
        LET overlaps(x, y) == \E b \in Purged(v) : b.start < y /\ x < b.end
            at == NextFree(Purged(v), s, e)
            length == e - s + Turnaround
        IN  /\ Conflict(Purged(v), s, e) = overlaps(s, e)
            /\ ~overlaps(at, at + length)
            /\ \A t \in s..(at - 1) : overlaps(t, t + length)

============================================================================
