------------------------------ MODULE SeatSale ------------------------------
(***************************************************************************)
(* What BookingService of python-low-level-design/movie-ticket-booking     *)
(* promises, without threads, locks or calls in progress: a booking takes  *)
(* all of its seats in one step, keeps them until its deadline, is sold    *)
(* them only in time and only paid for, and gives them all up in one step. *)
(* SeatBooking implements it.                                              *)
(***************************************************************************)
EXTENDS Naturals

CONSTANTS
    Seat, Booking, SeatsOf, HoldTtl, StartTime,
    MaxTime,     \* bound: last instant of the clock
    None

VARIABLES
    owner,       \* the booking a seat is held or sold to
    state,       \* what has become of each booking
    deadline,    \* until when a pending booking's seats are kept
    paid,        \* charges of each booking
    refunded,    \* refunds of each booking
    clock

vars == <<owner, state, deadline, paid, refunded, clock>>

Init ==
    /\ owner = [s \in Seat |-> None]
    /\ state = [b \in Booking |-> "ABSENT"] /\ deadline = [b \in Booking |-> 0]
    /\ paid = [b \in Booking |-> 0] /\ refunded = [b \in Booking |-> 0]
    /\ clock = 0

InTime(b) == clock < deadline[b]

\* A seat can be taken from nobody, and from a pending booking only when that
\* is out of time.
Free(s) == owner[s] = None \/ (state[owner[s]] = "PENDING" /\ ~InTime(owner[s]))
----------------------------------------------------------------------------
\* All the seats or none.
Reserve(b) ==
    /\ state[b] = "ABSENT" /\ clock < StartTime /\ \A s \in SeatsOf[b] : Free(s)
    /\ owner' = [s \in Seat |-> IF s \in SeatsOf[b] THEN b ELSE owner[s]]
    /\ state' = [state EXCEPT ![b] = "PENDING"]
    /\ deadline' = [deadline EXCEPT ![b] = clock + HoldTtl]
    /\ UNCHANGED <<paid, refunded, clock>>

\* A booking is charged once, though perhaps too late.
Pay(b) ==
    /\ state[b] # "ABSENT" /\ paid[b] = 0
    /\ paid' = [paid EXCEPT ![b] = 1]
    /\ UNCHANGED <<owner, state, deadline, refunded, clock>>

\* Sold in time and for money, with every seat still its own.
Sell(b) ==
    /\ state[b] = "PENDING" /\ InTime(b) /\ paid[b] = 1
    /\ \A s \in SeatsOf[b] : owner[s] = b
    /\ state' = [state EXCEPT ![b] = "CONFIRMED"]
    /\ UNCHANGED <<owner, deadline, paid, refunded, clock>>

\* A booking ends and leaves no seat behind.
GiveUp(b, end) ==
    /\ owner' = [s \in Seat |-> IF owner[s] = b THEN None ELSE owner[s]]
    /\ state' = [state EXCEPT ![b] = end]
    /\ UNCHANGED <<deadline, paid, refunded, clock>>

Cancel(b) == state[b] \in {"PENDING", "CONFIRMED"} /\ GiveUp(b, "CANCELLED")
Expire(b) == state[b] = "PENDING" /\ ~InTime(b) /\ GiveUp(b, "EXPIRED")

\* Money goes back only for a booking that was charged and has ended.
Refund(b) ==
    /\ state[b] \in {"CANCELLED", "EXPIRED"} /\ paid[b] = 1
    /\ refunded' = [refunded EXCEPT ![b] = @ + 1]
    /\ UNCHANGED <<owner, state, deadline, paid, clock>>

Tick ==
    /\ clock < MaxTime /\ clock' = clock + 1
    /\ UNCHANGED <<owner, state, deadline, paid, refunded>>

Next ==
    \/ \E b \in Booking : Reserve(b) \/ Pay(b) \/ Sell(b) \/ Cancel(b) \/ Expire(b) \/ Refund(b)
    \/ Tick

Spec == Init /\ [][Next]_vars
=============================================================================
