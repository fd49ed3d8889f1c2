---------------------------- MODULE SeatBooking ----------------------------
(***************************************************************************)
(* BookingService of python-low-level-design/movie-ticket-booking: seats   *)
(* of a show are held for a time, paid for outside any lock, confirmed,    *)
(* cancelled or expired.                                                   *)
(*                                                                         *)
(* Every operation takes the locks of its seats one by one in seat order   *)
(* (Lock), does its critical section and releases them; the charge and the *)
(* refund are made outside.  Requests that are refused before the locks    *)
(* (unknown ids, no or duplicate seats, too many) and the catalogue,       *)
(* searches and prices are left out.                                       *)
(***************************************************************************)
EXTENDS Naturals, FiniteSets

CONSTANTS
    Seat,        \* seats of the show, as numbers in the order of their ids
    Booking,     \* booking ids
    SeatsOf,     \* the seats each booking asks for
    Thread,
    HoldTtl, StartTime,
    MaxTime,     \* bound: last instant of the clock
    None

\* What the code guarantees about the constants: seats are compared by their
\* order, and a booking asks for seats of its show.
Params ==
    /\ Seat \in SUBSET Nat /\ IsFiniteSet(Seat)
    /\ SeatsOf \in [Booking -> SUBSET Seat]
    /\ None \notin Booking
    /\ HoldTtl \in Nat /\ StartTime \in Nat /\ MaxTime \in Nat

VARIABLES
    seat,        \* ShowSeat: status, booking_id and hold_expires_at
    booking,     \* Booking.status; "ABSENT" before it is registered
    expires,     \* Booking.expires_at
    op,          \* what each thread does, for which booking, and what is left
    locks,       \* the seat locks each thread holds
    paid,        \* history: charges of each booking
    refunded,    \* history: refunds of each booking
    clock

vars == <<seat, booking, expires, op, locks, paid, refunded, clock>>

Available == [status |-> "AVAILABLE", booking |-> None, until |-> 0]
NoOp == [kind |-> "none", booking |-> None, due |-> {}]
Do(kind, b) == [kind |-> kind, booking |-> b, due |-> {}]
Critical == {"hold", "confirm", "cancel", "expire"}   \* what needs the seat locks

Init ==
    /\ seat = [s \in Seat |-> Available]
    /\ booking = [b \in Booking |-> "ABSENT"] /\ expires = [b \in Booking |-> 0]
    /\ op = [t \in Thread |-> NoOp] /\ locks = [t \in Thread |-> {}]
    /\ paid = [b \in Booking |-> 0] /\ refunded = [b \in Booking |-> 0]
    /\ clock = 0

Fresh(b) == booking[b] = "ABSENT" /\ \A t \in Thread : op[t].booking # b
                                  /\ \A s \in Seat : seat[s].booking # b
Wanted(t) == SeatsOf[op[t].booking] \ locks[t]
----------------------------------------------------------------------------
\* Fault: the locks are taken in the order the seats were asked for.
NextLockAny(t, s) == s \in Wanted(t)

\* locked_in_order: the next lock is the one of the smallest seat id.
NextLock(t, s) == s \in Wanted(t) /\ \A r \in Wanted(t) : s <= r

Lock(t, s) ==
    /\ op[t].kind \in Critical /\ NextLock(t, s)
    /\ \A u \in Thread : s \notin locks[u]
    /\ locks' = [locks EXCEPT ![t] = @ \cup {s}]
    /\ UNCHANGED <<seat, booking, expires, op, paid, refunded, clock>>

\* The thread is in the critical section of an operation of this kind.
Inside(t, kind) == op[t].kind = kind /\ Wanted(t) = {}

\* It leaves it, and goes on with next.
Leave(t, next) ==
    /\ locks' = [locks EXCEPT ![t] = {}]
    /\ op' = [op EXCEPT ![t] = next]

\* The rest of a release_expired pass.
Rest(t) == [kind |-> IF op[t].due # {} THEN "sweep" ELSE "none", booking |-> None,
            due |-> op[t].due]

IsFree(s) ==
    \/ seat[s].status = "AVAILABLE"
    \/ seat[s].status = "HELD" /\ seat[s].until <= clock
HeldBy(s, b) == seat[s].status = "HELD" /\ seat[s].booking = b
----------------------------------------------------------------------------
HoldBegin(t, b) ==
    /\ op[t] = NoOp /\ Fresh(b)
    /\ op' = [op EXCEPT ![t] = Do("hold", b)]
    /\ UNCHANGED <<seat, booking, expires, locks, paid, refunded, clock>>

\* hold_seats under the locks: all or nothing.
Hold(t) ==
    LET b == op[t].booking
        ok == clock < StartTime /\ \A s \in SeatsOf[b] : IsFree(s)
    IN  /\ Inside(t, "hold")
        /\ seat' = [s \in Seat |-> IF ok /\ s \in SeatsOf[b]
                                   THEN [status |-> "HELD", booking |-> b,
                                         until |-> clock + HoldTtl]
                                   ELSE seat[s]]
        /\ expires' = IF ok THEN [expires EXCEPT ![b] = clock + HoldTtl] ELSE expires
        /\ Leave(t, IF ok THEN Do("register", b) ELSE NoOp)
        /\ UNCHANGED <<booking, paid, refunded, clock>>

\* The booking enters the registry, after the locks are gone.
Register(t) ==
    /\ op[t].kind = "register"
    /\ booking' = [booking EXCEPT ![op[t].booking] = "PENDING"]
    /\ op' = [op EXCEPT ![t] = NoOp]
    /\ UNCHANGED <<seat, expires, locks, paid, refunded, clock>>

\* pay_and_confirm: the early checks, without a lock.
PayBegin(t, b) ==
    /\ op[t] = NoOp /\ booking[b] = "PENDING"
    /\ op' = [op EXCEPT ![t] = IF clock >= expires[b] THEN Do("expire", b)
                               ELSE Do("charge", b)]
    /\ UNCHANGED <<seat, booking, expires, locks, paid, refunded, clock>>

\* Fault: the gateway charges again for a key it has seen.
ChargeAgain(t) ==
    LET b == op[t].booking
    IN  /\ op[t].kind = "charge"
        /\ paid' = [paid EXCEPT ![b] = @ + 1]
        /\ op' = [op EXCEPT ![t] = Do("confirm", b)]
        /\ UNCHANGED <<seat, booking, expires, locks, refunded, clock>>

\* The gateway charges once per booking id.
Charge(t) ==
    LET b == op[t].booking
    IN  /\ op[t].kind = "charge"
        /\ paid' = [paid EXCEPT ![b] = 1]
        /\ op' = [op EXCEPT ![t] = Do("confirm", b)]
        /\ UNCHANGED <<seat, booking, expires, locks, refunded, clock>>

\* PaymentFailed: the booking stays PENDING.
ChargeDeclined(t) ==
    /\ op[t].kind = "charge" /\ paid[op[t].booking] = 0
    /\ op' = [op EXCEPT ![t] = NoOp]
    /\ UNCHANGED <<seat, booking, expires, locks, paid, refunded, clock>>

\* Fault: the deadline is not looked at again after the charge.
StillOursUntimed(b) == booking[b] = "PENDING" /\ \A s \in SeatsOf[b] : HeldBy(s, b)

StillOurs(b) ==
    /\ booking[b] = "PENDING" /\ clock < expires[b]
    /\ \A s \in SeatsOf[b] : HeldBy(s, b)

\* _expire_locked.
Expired(b) ==
    IF booking[b] = "PENDING"
    THEN /\ seat' = [s \in Seat |-> IF s \in SeatsOf[b] /\ HeldBy(s, b) THEN Available
                                    ELSE seat[s]]
         /\ booking' = [booking EXCEPT ![b] = "EXPIRED"]
    ELSE UNCHANGED <<seat, booking>>

\* What follows a payment that cannot be confirmed: it is given back.
Late(b) == Do("refund", b)

\* pay_and_confirm under the locks.
Confirm(t) ==
    LET b == op[t].booking
    IN  /\ Inside(t, "confirm")
        /\ \/ /\ booking[b] = "CONFIRMED"
              /\ Leave(t, NoOp) /\ UNCHANGED <<seat, booking>>
           \/ /\ booking[b] # "CONFIRMED" /\ StillOurs(b)
              /\ seat' = [s \in Seat |-> IF s \in SeatsOf[b]
                                         THEN [status |-> "BOOKED", booking |-> seat[s].booking,
                                               until |-> 0]
                                         ELSE seat[s]]
              /\ booking' = [booking EXCEPT ![b] = "CONFIRMED"]
              /\ Leave(t, NoOp)
           \/ /\ booking[b] # "CONFIRMED" /\ ~StillOurs(b)
              /\ Expired(b)
              /\ Leave(t, Late(b))
        /\ UNCHANGED <<expires, paid, refunded, clock>>

Refund(t) ==
    /\ op[t].kind = "refund"
    /\ refunded' = [refunded EXCEPT ![op[t].booking] = @ + 1]
    /\ op' = [op EXCEPT ![t] = NoOp]
    /\ UNCHANGED <<seat, booking, expires, locks, paid, clock>>

CancelBegin(t, b) ==
    /\ op[t] = NoOp /\ booking[b] \in {"PENDING", "CONFIRMED"}
    /\ op' = [op EXCEPT ![t] = Do("cancel", b)]
    /\ UNCHANGED <<seat, booking, expires, locks, paid, refunded, clock>>

\* Fault: a cancelled booking gives up seats somebody else holds by now.
OwnedAny(s, b) == s \in SeatsOf[b]

\* The booking still owns the seat.
Owned(s, b) == s \in SeatsOf[b] /\ seat[s].booking = b

Cancel(t) ==
    LET b == op[t].booking
    IN  /\ Inside(t, "cancel")
        /\ IF booking[b] \in {"PENDING", "CONFIRMED"}
           THEN /\ seat' = [s \in Seat |-> IF Owned(s, b) THEN Available ELSE seat[s]]
                /\ booking' = [booking EXCEPT ![b] = "CANCELLED"]
                /\ Leave(t, IF booking[b] = "CONFIRMED" THEN Do("refund", b) ELSE NoOp)
           ELSE Leave(t, NoOp) /\ UNCHANGED <<seat, booking>>
        /\ UNCHANGED <<expires, paid, refunded, clock>>

\* release_expired: what is due now, under the registry lock.
SweepBegin(t) ==
    LET due == {b \in Booking : booking[b] = "PENDING" /\ expires[b] <= clock}
    IN  /\ op[t] = NoOp /\ due # {}
        /\ op' = [op EXCEPT ![t] = [kind |-> "sweep", booking |-> None, due |-> due]]
        /\ UNCHANGED <<seat, booking, expires, locks, paid, refunded, clock>>

SweepNext(t, b) ==
    /\ op[t].kind = "sweep" /\ b \in op[t].due
    /\ op' = [op EXCEPT ![t] = [kind |-> "expire", booking |-> b, due |-> @.due \ {b}]]
    /\ UNCHANGED <<seat, booking, expires, locks, paid, refunded, clock>>

Expire(t) ==
    /\ Inside(t, "expire")
    /\ Expired(op[t].booking)
    /\ Leave(t, Rest(t))
    /\ UNCHANGED <<expires, paid, refunded, clock>>

Tick ==
    /\ clock < MaxTime /\ clock' = clock + 1
    /\ UNCHANGED <<seat, booking, expires, op, locks, paid, refunded>>
----------------------------------------------------------------------------
Proceed(t) ==
    \/ \E s \in Seat : Lock(t, s)
    \/ Hold(t) \/ Register(t) \/ Charge(t) \/ ChargeDeclined(t)
    \/ Confirm(t) \/ Refund(t) \/ Cancel(t) \/ Expire(t)
    \/ \E b \in op[t].due : SweepNext(t, b)

Next ==
    \/ \E t \in Thread, b \in Booking : HoldBegin(t, b) \/ PayBegin(t, b) \/ CancelBegin(t, b)
    \/ \E t \in Thread : SweepBegin(t) \/ Proceed(t)
    \/ Tick

Spec == Init /\ [][Next]_vars
----------------------------------------------------------------------------
TypeOK ==
    /\ seat \in [Seat -> [status : {"AVAILABLE", "HELD", "BOOKED"},
                         booking : Booking \cup {None}, until : 0..(MaxTime + HoldTtl)]]
    /\ booking \in [Booking -> {"ABSENT", "PENDING", "CONFIRMED", "CANCELLED", "EXPIRED"}]
    /\ expires \in [Booking -> 0..(MaxTime + HoldTtl)]
    /\ op \in [Thread -> [kind : {"none", "register", "charge", "refund", "sweep"} \cup Critical,
                          booking : Booking \cup {None}, due : SUBSET Booking]]
    /\ locks \in [Thread -> SUBSET Seat]
    /\ paid \in [Booking -> {0, 1}] /\ refunded \in [Booking -> Nat]
    /\ clock \in 0..MaxTime

\* A confirmed booking owns all of its seats, and a booked seat belongs to
\* the confirmed booking that lists it: no seat is sold twice, although holds
\* lapse, seats change hands and bookings are cancelled while payments are on
\* their way.
SeatsMatchBookings ==
    /\ \A b \in Booking : booking[b] = "CONFIRMED" =>
          \A s \in SeatsOf[b] : seat[s].status = "BOOKED" /\ seat[s].booking = b
    /\ \A s \in Seat : seat[s].status = "BOOKED" =>
          booking[seat[s].booking] = "CONFIRMED" /\ s \in SeatsOf[seat[s].booking]

\* Money that bought no seats is given back once nobody is working on the
\* booking any more.
PaymentNotKept ==
    \A b \in Booking :
        /\ paid[b] = 1 /\ booking[b] \in {"EXPIRED", "CANCELLED"}
        /\ \A t \in Thread : op[t].booking # b
        => refunded[b] >= 1

\* Confirmed bookings and booked seats match one to one, whatever lapses while
\* payments are on their way, and what bought no seats is given back.
SeatsSoldOnce == SeatsMatchBookings /\ PaymentNotKept

\* The seat locks never end in a circle: whenever threads want locks, one of
\* them has all or can take its next one.
LocksNeverStuck ==
    LET waiting == {t \in Thread : op[t].kind \in Critical}
    IN  waiting # {} =>
        \E t \in waiting : Wanted(t) = {} \/ \E s \in Seat :
            NextLock(t, s) /\ \A u \in Thread : s \notin locks[u]

\* Who has a seat, and what has become of a booking: one whose seats are held
\* and that is about to be registered is pending.
Owner == [s \in Seat |-> seat[s].booking]
Registering == {b \in Booking : \E t \in Thread : op[t].kind = "register" /\ op[t].booking = b}
Promise == [b \in Booking |-> IF b \in Registering THEN "PENDING" ELSE booking[b]]

Sale == INSTANCE SeatSale WITH owner <- Owner, state <- Promise, deadline <- expires

\* The class comment of BookingService, hold -> pay_and_confirm -> (cancel): seen
\* without threads and locks every operation takes effect in one step, and what
\* was read before a lock or a charge and used after it makes no difference.
SoldInOneStep == Sale!Spec

\* What the design asks of a refund, a key "refund:{booking_id}" of its own: a
\* charge is given back at most once.
RefundedOnce == \A b \in Booking : refunded[b] <= paid[b]
============================================================================
