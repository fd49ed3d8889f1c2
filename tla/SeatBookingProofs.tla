------------------------- MODULE SeatBookingProofs -------------------------
(***************************************************************************)
(* The safety properties of SeatBooking, for any seats, bookings, threads  *)
(* and times.                                                              *)
(***************************************************************************)
EXTENDS SeatBooking, NumberLemmas

\* A thread works on a booking exactly while its operation needs one; a hold
\* and the registration that follows work on a booking nobody else knows, every
\* other operation, and the rest of a sweep, on one that was registered.
OperationsOK ==
    /\ \A t \in Thread : op[t].kind \in {"none", "sweep"} <=> op[t].booking = None
    /\ \A t \in Thread : op[t].kind \in {"hold", "register"} =>
          /\ booking[op[t].booking] = "ABSENT"
          /\ \A u \in Thread \ {t} : op[u].booking # op[t].booking
    /\ \A t \in Thread : op[t].kind \in {"charge", "refund", "confirm", "cancel", "expire"} =>
          booking[op[t].booking] # "ABSENT"
    /\ \A t \in Thread : \A b \in op[t].due : booking[b] # "ABSENT"

\* Only the critical operations hold locks, those of their own seats, each seat
\* has one holder, and what is held comes before what is still wanted.
LocksOK ==
    /\ \A t \in Thread : op[t].kind \notin Critical => locks[t] = {}
    /\ \A t \in Thread : op[t].kind \in Critical => locks[t] \subseteq SeatsOf[op[t].booking]
    /\ \A t, u \in Thread : t # u => locks[t] \cap locks[u] = {}
    /\ \A t \in Thread : op[t].kind \in Critical =>
          \A r \in locks[t], s \in Wanted(t) : r < s

\* A seat that is not available belongs to a booking that lists it.
SeatsOK ==
    \A s \in Seat : seat[s].status # "AVAILABLE" =>
        seat[s].booking \in Booking /\ s \in SeatsOf[seat[s].booking]

\* A charge is followed to its end: as long as the booking is pending a thread
\* is on its way to confirm it, and once it is dead somebody is about to find
\* out, or to refund, or has refunded.
ChargesOK ==
    \A b \in Booking : paid[b] = 1 =>
        /\ booking[b] # "ABSENT"
        /\ booking[b] = "PENDING" =>
              \E t \in Thread : op[t].kind = "confirm" /\ op[t].booking = b
        /\ booking[b] \in {"EXPIRED", "CANCELLED"} =>
              \/ refunded[b] >= 1
              \/ \E t \in Thread : op[t].kind \in {"confirm", "refund"} /\ op[t].booking = b

Inv == TypeOK /\ OperationsOK /\ LocksOK /\ SeatsOK /\ SeatsMatchBookings /\ ChargesOK
----------------------------------------------------------------------------
SeatRecord == [status : {"AVAILABLE", "HELD", "BOOKED"},
               booking : Booking \cup {None}, until : 0..(MaxTime + HoldTtl)]
BookingStatus == {"ABSENT", "PENDING", "CONFIRMED", "CANCELLED", "EXPIRED"}

\* _expire_locked changes one booking, if it is pending, and the seats it holds.
Lapsed(b) ==
    /\ seat' \in [Seat -> SeatRecord] /\ booking' \in [Booking -> BookingStatus]
    /\ \A c \in Booking \ {b} : booking'[c] = booking[c]
    /\ booking'[b] = IF booking[b] = "PENDING" THEN "EXPIRED" ELSE booking[b]
    /\ \A s \in Seat : seat'[s] \in {seat[s], Available}
    /\ \A s \in Seat : seat'[s] # seat[s] => HeldBy(s, b)

\* The three ends of pay_and_confirm's critical section.
SeenConfirmed(t, b) ==
    booking[b] = "CONFIRMED" /\ Leave(t, NoOp) /\ UNCHANGED <<seat, booking>>
Sold(t, b) ==
    /\ booking[b] = "PENDING" /\ \A s \in SeatsOf[b] : HeldBy(s, b)
    /\ seat' = [s \in Seat |-> IF s \in SeatsOf[b]
                               THEN [status |-> "BOOKED", booking |-> seat[s].booking,
                                     until |-> 0]
                               ELSE seat[s]]
    /\ booking' = [booking EXCEPT ![b] = "CONFIRMED"]
    /\ Leave(t, NoOp)
TooLate(t, b) == booking[b] # "CONFIRMED" /\ Lapsed(b) /\ Leave(t, Do("refund", b))
Confirms(t, b) ==
    /\ op[t].kind = "confirm" /\ b \in Booking /\ UNCHANGED <<expires, paid, refunded, clock>>
    /\ SeenConfirmed(t, b) \/ Sold(t, b) \/ TooLate(t, b)

\* The ends of cancel's.
GivenUp(t, b) ==
    /\ booking[b] \in {"PENDING", "CONFIRMED"}
    /\ seat' = [s \in Seat |-> IF Owned(s, b) THEN Available ELSE seat[s]]
    /\ booking' = [booking EXCEPT ![b] = "CANCELLED"]
    /\ Leave(t, IF booking[b] = "CONFIRMED" THEN Do("refund", b) ELSE NoOp)
NothingToCancel(t, b) ==
    /\ booking[b] \notin {"PENDING", "CONFIRMED"}
    /\ Leave(t, NoOp) /\ UNCHANGED <<seat, booking>>
Cancels(t, b) ==
    /\ op[t].kind = "cancel" /\ b \in Booking /\ UNCHANGED <<expires, paid, refunded, clock>>
    /\ GivenUp(t, b) \/ NothingToCancel(t, b)

Expires(t, b) ==
    /\ op[t].kind = "expire" /\ b \in Booking /\ UNCHANGED <<expires, paid, refunded, clock>>
    /\ Lapsed(b) /\ Leave(t, Rest(t))

\* What the expiry of a hold leaves in a seat.
LEMMA LapsedFacts ==
    ASSUME Params, TypeOK, NEW b \in Booking, Expired(b)
    PROVE  Lapsed(b)
  BY DEF Params, TypeOK, Expired, Available, HeldBy, SeatRecord, BookingStatus, Lapsed

\* What the critical sections do, case by case.
LEMMA SectionFacts ==
    ASSUME Params, TypeOK, OperationsOK, NEW t \in Thread
    PROVE  /\ Confirm(t) => Confirms(t, op[t].booking)
           /\ Cancel(t) => Cancels(t, op[t].booking)
           /\ Expire(t) => Expires(t, op[t].booking)
<1> DEFINE b == op[t].booking
<1>1. ASSUME Confirm(t) PROVE Confirms(t, b)
  <2>1. op[t].kind = "confirm" /\ b \in Booking
    BY <1>1 DEF Confirm, Inside, TypeOK, OperationsOK
  <2>2. Expired(b) => Lapsed(b)
    BY <2>1, LapsedFacts
  <2> QED BY <1>1, <2>1, <2>2, Zenon
          DEF Confirm, Late, StillOurs, Confirms, SeenConfirmed, Sold, TooLate
<1>2. ASSUME Cancel(t) PROVE Cancels(t, b)
  <2>1. op[t].kind = "cancel" /\ b \in Booking
    BY <1>2 DEF Cancel, Inside, TypeOK, OperationsOK
  <2> QED BY <1>2, <2>1, Zenon DEF Cancel, Cancels, GivenUp, NothingToCancel
<1>3. ASSUME Expire(t) PROVE Expires(t, b)
  <2>1. op[t].kind = "expire" /\ b \in Booking
    BY <1>3 DEF Expire, Inside, TypeOK, OperationsOK
  <2> QED BY <1>3, <2>1, LapsedFacts DEF Expire, Expires
<1> QED BY <1>1, <1>2, <1>3


\* Every operation keeps the types.
LEMMA TypeStep ==
    ASSUME Params, TypeOK, OperationsOK, [Next]_vars
    PROVE  TypeOK'
<1> USE DEF Params, TypeOK, OperationsOK, Available, NoOp, Do, Critical
<1>1. ASSUME NEW t \in Thread, NEW s \in Seat, Lock(t, s) PROVE TypeOK'
  BY <1>1 DEF Lock, NextLock
<1>2. ASSUME NEW t \in Thread, NEW b \in Booking, HoldBegin(t, b) PROVE TypeOK'
  BY <1>2 DEF HoldBegin
<1>3. ASSUME NEW t \in Thread, NEW b \in Booking, PayBegin(t, b) PROVE TypeOK'
  BY <1>3 DEF PayBegin
<1>4. ASSUME NEW t \in Thread, NEW b \in Booking, CancelBegin(t, b) PROVE TypeOK'
  BY <1>4 DEF CancelBegin
<1>5. ASSUME NEW t \in Thread, SweepBegin(t) PROVE TypeOK'
  BY <1>5 DEF SweepBegin
<1>6. ASSUME NEW t \in Thread, Hold(t) PROVE TypeOK'
  BY <1>6 DEF Hold, Inside, Leave, IsFree
<1>7. ASSUME NEW t \in Thread, Register(t) PROVE TypeOK'
  BY <1>7 DEF Register
<1>8. ASSUME NEW t \in Thread, Charge(t) PROVE TypeOK'
  BY <1>8 DEF Charge
<1>9. ASSUME NEW t \in Thread, ChargeDeclined(t) PROVE TypeOK'
  BY <1>9 DEF ChargeDeclined
<1>10. ASSUME NEW t \in Thread, NEW b \in Booking, b = op[t].booking, Confirms(t, b) PROVE TypeOK'
  <2>1. CASE SeenConfirmed(t, b)
    BY <1>10, <2>1 DEF Confirms, SeenConfirmed, Leave, Lapsed, SeatRecord, BookingStatus
  <2>2. CASE Sold(t, b)
    BY <1>10, <2>2 DEF Confirms, Sold, Leave, Lapsed, SeatRecord, BookingStatus
  <2>3. CASE TooLate(t, b)
    BY <1>10, <2>3 DEF Confirms, TooLate, Leave, Lapsed, SeatRecord, BookingStatus
  <2> QED BY <1>10, <2>1, <2>2, <2>3 DEF Confirms
<1>11. ASSUME NEW t \in Thread, Refund(t) PROVE TypeOK'
  BY <1>11 DEF Refund
<1>12. ASSUME NEW t \in Thread, NEW b \in Booking, b = op[t].booking, Cancels(t, b) PROVE TypeOK'
  <2>1. CASE GivenUp(t, b)
    BY <1>12, <2>1 DEF Cancels, GivenUp, Leave, Owned, SeatRecord, BookingStatus
  <2>2. CASE NothingToCancel(t, b)
    BY <1>12, <2>2 DEF Cancels, NothingToCancel, Leave, Owned, SeatRecord, BookingStatus
  <2> QED BY <1>12, <2>1, <2>2 DEF Cancels
<1>13. ASSUME NEW t \in Thread, NEW b \in Booking, b = op[t].booking, Expires(t, b) PROVE TypeOK'
  BY <1>13 DEF Expires, Lapsed, Leave, Rest, SeatRecord, BookingStatus
<1>14. ASSUME NEW t \in Thread, NEW b \in op[t].due, SweepNext(t, b) PROVE TypeOK'
  BY <1>14 DEF SweepNext
<1>15. ASSUME Tick PROVE TypeOK'
  BY <1>15 DEF Tick
<1>16. CASE UNCHANGED vars
  BY <1>16 DEF vars
<1> HIDE DEF Params, TypeOK, OperationsOK, Available, NoOp, Do, Critical
<1>17. ASSUME NEW t \in Thread, Confirm(t) PROVE TypeOK'
  BY <1>10, <1>17, SectionFacts DEF Confirms
<1>18. ASSUME NEW t \in Thread, Cancel(t) PROVE TypeOK'
  BY <1>12, <1>18, SectionFacts DEF Cancels
<1>19. ASSUME NEW t \in Thread, Expire(t) PROVE TypeOK'
  BY <1>13, <1>19, SectionFacts DEF Expires
<1> QED
  BY <1>1, <1>2, <1>3, <1>4, <1>5, <1>6, <1>7, <1>8, <1>9, <1>11, <1>14, <1>15, <1>16, <1>17, <1>18, <1>19 DEF Next, Proceed

\* An operation that ends, or goes on to the refund, leaves what the other
\* threads rely on.
LEMMA OperationEnds ==
    ASSUME Params, TypeOK, OperationsOK, NEW t \in Thread,
           op[t].kind \in {"confirm", "cancel", "expire"},
           op'[t] \in {NoOp, Do("refund", op[t].booking), Rest(t)},
           \A u \in Thread \ {t} : op'[u] = op[u],
           \A c \in Booking : booking'[c] = "ABSENT" <=> booking[c] = "ABSENT"
    PROVE  OperationsOK'
<1> USE DEF Params, TypeOK, OperationsOK, NoOp, Do, Rest, Critical
<1>1. op'[t].kind \in {"none", "sweep"} <=> op'[t].booking = None
  OBVIOUS
<1>2. op'[t].kind \in {"none", "sweep", "refund"} /\ op'[t].booking \in {None, op[t].booking}
  OBVIOUS
<1>3. booking[op[t].booking] # "ABSENT" /\ op'[t].due \subseteq op[t].due
  OBVIOUS
<1>4. ASSUME NEW u \in Thread
      PROVE  op'[u].kind \in {"none", "sweep"} <=> op'[u].booking = None
  BY <1>1
<1>5. ASSUME NEW u \in Thread, op'[u].kind \in {"hold", "register"}
      PROVE  /\ booking'[op'[u].booking] = "ABSENT"
             /\ \A v \in Thread \ {u} : op'[v].booking # op'[u].booking
  <2>1. u # t /\ op'[u] = op[u] /\ op[u].booking \in Booking
    BY <1>2, <1>5
  <2>2. op[u].booking \notin {None, op[t].booking}
    BY <2>1, <1>5
  <2> QED BY <1>2, <1>5, <2>1, <2>2
<1>6. ASSUME NEW u \in Thread,
             op'[u].kind \in {"charge", "refund", "confirm", "cancel", "expire"}
      PROVE  booking'[op'[u].booking] # "ABSENT"
  BY <1>2, <1>3, <1>4, <1>6
<1>7. ASSUME NEW u \in Thread, NEW c \in op'[u].due
      PROVE  booking'[c] # "ABSENT"
  BY <1>3, <1>7
<1> QED BY <1>4, <1>5, <1>6, <1>7

\* Nobody but the thread that holds them works on seats whose booking is not yet
\* registered, and no registered booking is forgotten.
LEMMA OperationsStep ==
    ASSUME Params, TypeOK, OperationsOK, [Next]_vars
    PROVE  OperationsOK'
<1> USE DEF Params, TypeOK, OperationsOK, Available, NoOp, Do, Critical
<1>1. ASSUME NEW t \in Thread, NEW s \in Seat, Lock(t, s) PROVE OperationsOK'
  BY <1>1 DEF Lock, NextLock
<1>2. ASSUME NEW t \in Thread, NEW b \in Booking, HoldBegin(t, b) PROVE OperationsOK'
  BY <1>2 DEF HoldBegin, Fresh
<1>3. ASSUME NEW t \in Thread, NEW b \in Booking, PayBegin(t, b) PROVE OperationsOK'
  BY <1>3 DEF PayBegin
<1>4. ASSUME NEW t \in Thread, NEW b \in Booking, CancelBegin(t, b) PROVE OperationsOK'
  BY <1>4 DEF CancelBegin
<1>5. ASSUME NEW t \in Thread, SweepBegin(t) PROVE OperationsOK'
  BY <1>5 DEF SweepBegin
<1>6. ASSUME NEW t \in Thread, Hold(t) PROVE OperationsOK'
  BY <1>6 DEF Hold, Inside, Leave, IsFree
<1>7. ASSUME NEW t \in Thread, Register(t) PROVE OperationsOK'
  BY <1>7 DEF Register
<1>8. ASSUME NEW t \in Thread, Charge(t) PROVE OperationsOK'
  BY <1>8 DEF Charge
<1>9. ASSUME NEW t \in Thread, ChargeDeclined(t) PROVE OperationsOK'
  BY <1>9 DEF ChargeDeclined
<1>10. ASSUME NEW t \in Thread, NEW b \in Booking, b = op[t].booking, Confirms(t, b) PROVE OperationsOK'
  <2>1. CASE SeenConfirmed(t, b)
    BY <1>10, <2>1 DEF Confirms, SeenConfirmed, Leave, Lapsed
  <2>2. CASE Sold(t, b)
    BY <1>10, <2>2, SMTT(60) DEF Confirms, Sold, Leave, Lapsed
  <2>3. CASE TooLate(t, b)
    BY <1>10, <2>3, SMTT(60) DEF Confirms, TooLate, Leave, Lapsed
  <2> QED BY <1>10, <2>1, <2>2, <2>3 DEF Confirms
<1>11. ASSUME NEW t \in Thread, Refund(t) PROVE OperationsOK'
  BY <1>11 DEF Refund
<1>12. ASSUME NEW t \in Thread, NEW b \in Booking, b = op[t].booking, Cancels(t, b) PROVE OperationsOK'
  <2>1. CASE GivenUp(t, b)
    BY <1>12, <2>1 DEF Cancels, GivenUp, Leave, Owned
  <2>2. CASE NothingToCancel(t, b)
    BY <1>12, <2>2 DEF Cancels, NothingToCancel, Leave, Owned
  <2> QED BY <1>12, <2>1, <2>2 DEF Cancels
<1>13. ASSUME NEW t \in Thread, NEW b \in Booking, b = op[t].booking, Expires(t, b) PROVE OperationsOK'
  <2>1. op[t].kind = "expire" /\ op'[t] = Rest(t) /\ \A u \in Thread \ {t} : op'[u] = op[u]
    BY <1>13 DEF Expires, Leave
  <2>2. \A c \in Booking : booking'[c] = "ABSENT" <=> booking[c] = "ABSENT"
    BY <1>13 DEF Expires, Lapsed
  <2> HIDE DEF Params, TypeOK, OperationsOK, NoOp, Do
  <2> QED BY <2>1, <2>2, OperationEnds
<1>14. ASSUME NEW t \in Thread, NEW b \in op[t].due, SweepNext(t, b) PROVE OperationsOK'
  BY <1>14 DEF SweepNext
<1>15. ASSUME Tick PROVE OperationsOK'
  BY <1>15 DEF Tick
<1>16. CASE UNCHANGED vars
  BY <1>16 DEF vars
<1> HIDE DEF Params, TypeOK, OperationsOK, Available, NoOp, Do, Critical
<1>17. ASSUME NEW t \in Thread, Confirm(t) PROVE OperationsOK'
  BY <1>10, <1>17, SectionFacts DEF Confirms
<1>18. ASSUME NEW t \in Thread, Cancel(t) PROVE OperationsOK'
  BY <1>12, <1>18, SectionFacts DEF Cancels
<1>19. ASSUME NEW t \in Thread, Expire(t) PROVE OperationsOK'
  BY <1>13, <1>19, SectionFacts DEF Expires
<1> QED
  BY <1>1, <1>2, <1>3, <1>4, <1>5, <1>6, <1>7, <1>8, <1>9, <1>11, <1>14, <1>15, <1>16, <1>17, <1>18, <1>19 DEF Next, Proceed

\* Locks are taken in the order of the seats and given up all at once.
LEMMA LocksStep ==
    ASSUME Params, TypeOK, OperationsOK, LocksOK, [Next]_vars
    PROVE  LocksOK'
<1> USE DEF Params, TypeOK, OperationsOK, Available, NoOp, Do, Critical, LocksOK, Wanted
<1>1. ASSUME NEW t \in Thread, NEW s \in Seat, Lock(t, s) PROVE LocksOK'
  BY <1>1 DEF Lock, NextLock
<1>2. ASSUME NEW t \in Thread, NEW b \in Booking, HoldBegin(t, b) PROVE LocksOK'
  BY <1>2 DEF HoldBegin
<1>3. ASSUME NEW t \in Thread, NEW b \in Booking, PayBegin(t, b) PROVE LocksOK'
  <2>1. locks' = locks /\ locks[t] = {}
    BY <1>3 DEF PayBegin
  <2>2. /\ \A u \in Thread \ {t} : op'[u] = op[u]
        /\ op'[t].kind \in {"expire", "charge"} /\ op'[t].booking = b
    BY <1>3 DEF PayBegin
  <2> QED BY <2>1, <2>2
<1>4. ASSUME NEW t \in Thread, NEW b \in Booking, CancelBegin(t, b) PROVE LocksOK'
  BY <1>4 DEF CancelBegin
<1>5. ASSUME NEW t \in Thread, SweepBegin(t) PROVE LocksOK'
  <2>1. locks' = locks /\ locks[t] = {}
    BY <1>5 DEF SweepBegin
  <2>2. (\A u \in Thread \ {t} : op'[u] = op[u]) /\ op'[t].kind \notin Critical
    BY <1>5 DEF SweepBegin
  <2> QED BY <2>1, <2>2
<1>6. ASSUME NEW t \in Thread, Hold(t) PROVE LocksOK'
  BY <1>6 DEF Hold, Inside, Leave, IsFree
<1>7. ASSUME NEW t \in Thread, Register(t) PROVE LocksOK'
  BY <1>7 DEF Register
<1>8. ASSUME NEW t \in Thread, Charge(t) PROVE LocksOK'
  <2>1. locks[t] = {} /\ locks' = locks
    BY <1>8 DEF Charge
  <2>2. \A u \in Thread \ {t} : op'[u] = op[u]
    BY <1>8 DEF Charge
  <2> QED BY <2>1, <2>2
<1>9. ASSUME NEW t \in Thread, ChargeDeclined(t) PROVE LocksOK'
  BY <1>9 DEF ChargeDeclined
<1>10. ASSUME NEW t \in Thread, NEW b \in Booking, b = op[t].booking, Confirms(t, b) PROVE LocksOK'
  <2>1. CASE SeenConfirmed(t, b)
    BY <1>10, <2>1 DEF Confirms, SeenConfirmed, Leave, Lapsed
  <2>2. CASE Sold(t, b)
    BY <1>10, <2>2 DEF Confirms, Sold, Leave, Lapsed
  <2>3. CASE TooLate(t, b)
    BY <1>10, <2>3 DEF Confirms, TooLate, Leave, Lapsed
  <2> QED BY <1>10, <2>1, <2>2, <2>3 DEF Confirms
<1>11. ASSUME NEW t \in Thread, Refund(t) PROVE LocksOK'
  BY <1>11 DEF Refund
<1>12. ASSUME NEW t \in Thread, NEW b \in Booking, b = op[t].booking, Cancels(t, b) PROVE LocksOK'
  <2>1. CASE GivenUp(t, b)
    BY <1>12, <2>1 DEF Cancels, GivenUp, Leave, Owned
  <2>2. CASE NothingToCancel(t, b)
    BY <1>12, <2>2 DEF Cancels, NothingToCancel, Leave, Owned
  <2> QED BY <1>12, <2>1, <2>2 DEF Cancels
<1>13. ASSUME NEW t \in Thread, NEW b \in Booking, b = op[t].booking, Expires(t, b) PROVE LocksOK'
  BY <1>13 DEF Expires, Lapsed, Leave, Rest
<1>14. ASSUME NEW t \in Thread, NEW b \in op[t].due, SweepNext(t, b) PROVE LocksOK'
  BY <1>14 DEF SweepNext
<1>15. ASSUME Tick PROVE LocksOK'
  BY <1>15 DEF Tick
<1>16. CASE UNCHANGED vars
  BY <1>16 DEF vars
<1> HIDE DEF Params, TypeOK, OperationsOK, Available, NoOp, Do, Critical, LocksOK, Wanted
<1>17. ASSUME NEW t \in Thread, Confirm(t) PROVE LocksOK'
  BY <1>10, <1>17, SectionFacts DEF Confirms
<1>18. ASSUME NEW t \in Thread, Cancel(t) PROVE LocksOK'
  BY <1>12, <1>18, SectionFacts DEF Cancels
<1>19. ASSUME NEW t \in Thread, Expire(t) PROVE LocksOK'
  BY <1>13, <1>19, SectionFacts DEF Expires
<1> QED
  BY <1>1, <1>2, <1>3, <1>4, <1>5, <1>6, <1>7, <1>8, <1>9, <1>11, <1>14, <1>15, <1>16, <1>17, <1>18, <1>19 DEF Next, Proceed

\* Seats may become available, as long as none of them is booked and nothing is
\* confirmed or taken back.
LEMMA SeatsKept ==
    ASSUME Params, SeatsOK, SeatsMatchBookings,
           \A s \in Seat : seat'[s].status # "AVAILABLE" => seat'[s] = seat[s],
           \A s \in Seat : seat[s].status = "BOOKED" => seat'[s] = seat[s],
           \A c \in Booking : booking'[c] = "CONFIRMED" <=> booking[c] = "CONFIRMED"
    PROVE  (SeatsOK /\ SeatsMatchBookings)'
<1>1. ASSUME NEW s \in Seat, seat'[s].status # "AVAILABLE"
      PROVE  seat'[s].booking \in Booking /\ s \in SeatsOf[seat'[s].booking]
  BY <1>1 DEF SeatsOK
<1>2. ASSUME NEW b \in Booking, booking'[b] = "CONFIRMED", NEW s \in SeatsOf[b]
      PROVE  seat'[s].status = "BOOKED" /\ seat'[s].booking = b
  <2>1. s \in Seat /\ seat[s].status = "BOOKED" /\ seat[s].booking = b
    BY <1>2 DEF SeatsMatchBookings, Params
  <2> QED BY <2>1
<1>3. ASSUME NEW s \in Seat, seat'[s].status = "BOOKED"
      PROVE  booking'[seat'[s].booking] = "CONFIRMED" /\ s \in SeatsOf[seat'[s].booking]
  <2>1. seat'[s] = seat[s] /\ seat[s].booking \in Booking
    BY <1>3 DEF SeatsOK
  <2> QED BY <1>3, <2>1 DEF SeatsMatchBookings
<1> QED BY <1>1, <1>2, <1>3 DEF SeatsOK, SeatsMatchBookings

\* A seat changes hands only when the booking that has it lets go or has lapsed.
LEMMA SeatsStep ==
    ASSUME Params, TypeOK, OperationsOK, SeatsOK, SeatsMatchBookings, [Next]_vars
    PROVE  (SeatsOK /\ SeatsMatchBookings)'
<1>0. ASSUME seat' = seat, booking' = booking PROVE (SeatsOK /\ SeatsMatchBookings)'
  BY <1>0, SeatsKept
<1> USE DEF Params, TypeOK, OperationsOK, Available, NoOp, Do, Critical, SeatsOK, SeatsMatchBookings
<1>1. ASSUME NEW t \in Thread, NEW s \in Seat, Lock(t, s) PROVE (SeatsOK /\ SeatsMatchBookings)'
  BY <1>0, <1>1 DEF Lock
<1>2. ASSUME NEW t \in Thread, NEW b \in Booking, HoldBegin(t, b) PROVE (SeatsOK /\ SeatsMatchBookings)'
  BY <1>0, <1>2 DEF HoldBegin
<1>3. ASSUME NEW t \in Thread, NEW b \in Booking, PayBegin(t, b) PROVE (SeatsOK /\ SeatsMatchBookings)'
  BY <1>0, <1>3 DEF PayBegin
<1>4. ASSUME NEW t \in Thread, NEW b \in Booking, CancelBegin(t, b) PROVE (SeatsOK /\ SeatsMatchBookings)'
  BY <1>0, <1>4 DEF CancelBegin
<1>5. ASSUME NEW t \in Thread, SweepBegin(t) PROVE (SeatsOK /\ SeatsMatchBookings)'
  BY <1>0, <1>5 DEF SweepBegin
<1>6. ASSUME NEW t \in Thread, Hold(t) PROVE (SeatsOK /\ SeatsMatchBookings)'
  <2> DEFINE b == op[t].booking
             ok == clock < StartTime /\ \A s \in SeatsOf[b] : IsFree(s)
  <2>1. /\ b \in Booking /\ booking' = booking
        /\ \A s \in Seat \ SeatsOf[b] : seat'[s] = seat[s]
        /\ ok => \A s \in SeatsOf[b] : seat'[s].status = "HELD" /\ seat'[s].booking = b
        /\ ~ok => seat' = seat
    BY <1>6 DEF Hold, Inside
  <2>2. ASSUME ok PROVE \A s \in SeatsOf[b] : seat[s].status # "BOOKED"
    BY <2>1, <2>2 DEF IsFree
  <2>3. CASE ok
    <3>1. /\ \A s \in SeatsOf[b] : /\ seat'[s].status = "HELD" /\ seat'[s].booking = b
                                  /\ seat[s].status # "BOOKED"
          /\ \A c \in Booking : SeatsOf[c] \subseteq Seat
      BY <2>1, <2>2, <2>3
    <3> HIDE DEF ok, b, Params, TypeOK, OperationsOK, Available, NoOp, Do, Critical
    <3>2. SeatsOK'
      BY <2>1, <3>1
    <3>3. SeatsMatchBookings'
      BY <2>1, <3>1
    <3> QED BY <3>2, <3>3
  <2>4. CASE ~ok
    BY <1>0, <2>1, <2>4
  <2> QED BY <2>3, <2>4
<1>7. ASSUME NEW t \in Thread, Register(t) PROVE (SeatsOK /\ SeatsMatchBookings)'
  <2> DEFINE b == op[t].booking
  <2>1. b \in Booking /\ booking[b] = "ABSENT"
    BY <1>7 DEF Register
  <2>2. seat' = seat /\ \A c \in Booking \ {b} : booking'[c] = booking[c]
    BY <1>7, <2>1 DEF Register
  <2>3. booking'[b] = "PENDING"
    BY <1>7, <2>1 DEF Register
  <2>4. \A c \in Booking : booking'[c] = "CONFIRMED" <=> booking[c] = "CONFIRMED"
    BY <2>1, <2>2, <2>3
  <2> HIDE DEF Params, SeatsOK, SeatsMatchBookings
  <2> QED BY <2>2, <2>4, SeatsKept
<1>8. ASSUME NEW t \in Thread, Charge(t) PROVE (SeatsOK /\ SeatsMatchBookings)'
  BY <1>0, <1>8 DEF Charge
<1>9. ASSUME NEW t \in Thread, ChargeDeclined(t) PROVE (SeatsOK /\ SeatsMatchBookings)'
  BY <1>0, <1>9 DEF ChargeDeclined
<1>10. ASSUME NEW t \in Thread, NEW b \in Booking, b = op[t].booking, Confirms(t, b) PROVE (SeatsOK /\ SeatsMatchBookings)'
  <2>1. CASE SeenConfirmed(t, b)
    BY <1>10, <2>1 DEF Confirms, SeenConfirmed, Leave, Lapsed, HeldBy
  <2>2. CASE Sold(t, b)
    BY <1>10, <2>2 DEF Confirms, Sold, Leave, Lapsed, HeldBy
  <2>3. CASE TooLate(t, b)
    <3>1. \A s \in Seat : seat'[s].status # "AVAILABLE" => seat'[s] = seat[s]
      BY <1>10, <2>3 DEF Confirms, TooLate, Lapsed
    <3>2. \A s \in Seat : seat[s].status = "BOOKED" => seat'[s] = seat[s]
      BY <1>10, <2>3 DEF Confirms, TooLate, Lapsed, HeldBy
    <3>3. \A c \in Booking : booking'[c] = "CONFIRMED" <=> booking[c] = "CONFIRMED"
      BY <1>10, <2>3 DEF Confirms, TooLate, Lapsed
    <3> HIDE DEF Params, SeatsOK, SeatsMatchBookings
    <3> QED BY <3>1, <3>2, <3>3, SeatsKept
  <2> QED BY <1>10, <2>1, <2>2, <2>3 DEF Confirms
<1>11. ASSUME NEW t \in Thread, Refund(t) PROVE (SeatsOK /\ SeatsMatchBookings)'
  BY <1>0, <1>11 DEF Refund
<1>12. ASSUME NEW t \in Thread, NEW b \in Booking, b = op[t].booking, Cancels(t, b) PROVE (SeatsOK /\ SeatsMatchBookings)'
  <2>1. CASE GivenUp(t, b)
    BY <1>12, <2>1 DEF Cancels, GivenUp, Leave, Owned, HeldBy
  <2>2. CASE NothingToCancel(t, b)
    BY <1>12, <2>2 DEF Cancels, NothingToCancel, Leave, Owned, HeldBy
  <2> QED BY <1>12, <2>1, <2>2 DEF Cancels
<1>13. ASSUME NEW t \in Thread, NEW b \in Booking, b = op[t].booking, Expires(t, b) PROVE (SeatsOK /\ SeatsMatchBookings)'
  <2>1. \A s \in Seat : seat'[s].status # "AVAILABLE" => seat'[s] = seat[s]
    BY <1>13 DEF Expires, Lapsed
  <2>2. \A s \in Seat : seat[s].status = "BOOKED" => seat'[s] = seat[s]
    BY <1>13 DEF Expires, Lapsed, HeldBy
  <2>3. \A c \in Booking : booking'[c] = "CONFIRMED" <=> booking[c] = "CONFIRMED"
    BY <1>13 DEF Expires, Lapsed
  <2> HIDE DEF Params, SeatsOK, SeatsMatchBookings
  <2> QED BY <2>1, <2>2, <2>3, SeatsKept
<1>14. ASSUME NEW t \in Thread, NEW b \in op[t].due, SweepNext(t, b) PROVE (SeatsOK /\ SeatsMatchBookings)'
  BY <1>0, <1>14 DEF SweepNext
<1>15. ASSUME Tick PROVE (SeatsOK /\ SeatsMatchBookings)'
  BY <1>0, <1>15 DEF Tick
<1>16. CASE UNCHANGED vars
  BY <1>0, <1>16 DEF vars
<1> HIDE DEF Params, TypeOK, OperationsOK, Available, NoOp, Do, Critical, SeatsOK, SeatsMatchBookings
<1>17. ASSUME NEW t \in Thread, Confirm(t) PROVE (SeatsOK /\ SeatsMatchBookings)'
  BY <1>10, <1>17, SectionFacts DEF Confirms
<1>18. ASSUME NEW t \in Thread, Cancel(t) PROVE (SeatsOK /\ SeatsMatchBookings)'
  BY <1>12, <1>18, SectionFacts DEF Cancels
<1>19. ASSUME NEW t \in Thread, Expire(t) PROVE (SeatsOK /\ SeatsMatchBookings)'
  BY <1>13, <1>19, SectionFacts DEF Expires
<1> QED
  BY <1>1, <1>2, <1>3, <1>4, <1>5, <1>6, <1>7, <1>8, <1>9, <1>11, <1>14, <1>15, <1>16, <1>17, <1>18, <1>19 DEF Next, Proceed

\* Whoever charges goes on to confirm, and whoever finds the booking dead goes on
\* to refund.
LEMMA ChargesStep ==
    ASSUME Params, TypeOK, OperationsOK, ChargesOK, [Next]_vars
    PROVE  ChargesOK'
<1> USE DEF Params, TypeOK, OperationsOK, Available, NoOp, Do, Critical, ChargesOK
<1>1. ASSUME NEW t \in Thread, NEW s \in Seat, Lock(t, s) PROVE ChargesOK'
  BY <1>1 DEF Lock, NextLock
<1>2. ASSUME NEW t \in Thread, NEW b \in Booking, HoldBegin(t, b) PROVE ChargesOK'
  BY <1>2 DEF HoldBegin
<1>3. ASSUME NEW t \in Thread, NEW b \in Booking, PayBegin(t, b) PROVE ChargesOK'
  BY <1>3 DEF PayBegin
<1>4. ASSUME NEW t \in Thread, NEW b \in Booking, CancelBegin(t, b) PROVE ChargesOK'
  BY <1>4 DEF CancelBegin
<1>5. ASSUME NEW t \in Thread, SweepBegin(t) PROVE ChargesOK'
  BY <1>5 DEF SweepBegin
<1>6. ASSUME NEW t \in Thread, Hold(t) PROVE ChargesOK'
  BY <1>6 DEF Hold, Inside, Leave, IsFree
<1>7. ASSUME NEW t \in Thread, Register(t) PROVE ChargesOK'
  BY <1>7 DEF Register
<1>8. ASSUME NEW t \in Thread, Charge(t) PROVE ChargesOK'
  BY <1>8 DEF Charge
<1>9. ASSUME NEW t \in Thread, ChargeDeclined(t) PROVE ChargesOK'
  BY <1>9 DEF ChargeDeclined
<1>10. ASSUME NEW t \in Thread, NEW b \in Booking, b = op[t].booking, Confirms(t, b) PROVE ChargesOK'
  <2>1. CASE SeenConfirmed(t, b)
    BY <1>10, <2>1 DEF Confirms, SeenConfirmed, Leave, Lapsed
  <2>2. CASE Sold(t, b)
    BY <1>10, <2>2 DEF Confirms, Sold, Leave, Lapsed
  <2>3. CASE TooLate(t, b)
    BY <1>10, <2>3 DEF Confirms, TooLate, Leave, Lapsed
  <2> QED BY <1>10, <2>1, <2>2, <2>3 DEF Confirms
<1>11. ASSUME NEW t \in Thread, Refund(t) PROVE ChargesOK'
  BY <1>11 DEF Refund
<1>12. ASSUME NEW t \in Thread, NEW b \in Booking, b = op[t].booking, Cancels(t, b) PROVE ChargesOK'
  <2>1. CASE GivenUp(t, b)
    BY <1>12, <2>1 DEF Cancels, GivenUp, Leave, Owned
  <2>2. CASE NothingToCancel(t, b)
    BY <1>12, <2>2 DEF Cancels, NothingToCancel, Leave, Owned
  <2> QED BY <1>12, <2>1, <2>2 DEF Cancels
<1>13. ASSUME NEW t \in Thread, NEW b \in Booking, b = op[t].booking, Expires(t, b) PROVE ChargesOK'
  BY <1>13 DEF Expires, Lapsed, Leave, Rest
<1>14. ASSUME NEW t \in Thread, NEW b \in op[t].due, SweepNext(t, b) PROVE ChargesOK'
  BY <1>14 DEF SweepNext
<1>15. ASSUME Tick PROVE ChargesOK'
  BY <1>15 DEF Tick
<1>16. CASE UNCHANGED vars
  BY <1>16 DEF vars
<1> HIDE DEF Params, TypeOK, OperationsOK, Available, NoOp, Do, Critical, ChargesOK
<1>17. ASSUME NEW t \in Thread, Confirm(t) PROVE ChargesOK'
  BY <1>10, <1>17, SectionFacts DEF Confirms
<1>18. ASSUME NEW t \in Thread, Cancel(t) PROVE ChargesOK'
  BY <1>12, <1>18, SectionFacts DEF Cancels
<1>19. ASSUME NEW t \in Thread, Expire(t) PROVE ChargesOK'
  BY <1>13, <1>19, SectionFacts DEF Expires
<1> QED
  BY <1>1, <1>2, <1>3, <1>4, <1>5, <1>6, <1>7, <1>8, <1>9, <1>11, <1>14, <1>15, <1>16, <1>17, <1>18, <1>19 DEF Next, Proceed
----------------------------------------------------------------------------
\* Together the parts are an inductive invariant.
LEMMA Invariance == ASSUME Params PROVE Spec => []Inv
<1>1. Init => Inv
  BY DEF Init, Inv, Params, TypeOK, OperationsOK, LocksOK, SeatsOK, SeatsMatchBookings, ChargesOK,
         Available, NoOp, Critical
<1>2. Inv /\ [Next]_vars => Inv'
  BY TypeStep, OperationsStep, LocksStep, SeatsStep, ChargesStep DEF Inv
<1> QED BY <1>1, <1>2, PTL DEF Spec

\* The fields of the booking service keep their types, the clock and the holds
\* their bounds.
THEOREM TypeCorrect == ASSUME Params PROVE Spec => []TypeOK
<1>1. Inv => TypeOK
  BY DEF Inv
<1> QED BY <1>1, Invariance, PTL

\* movie_ticket_booking.py, hold_seats, pay_and_confirm, cancel and
\* release_expired: for any seats, bookings and threads, confirmed bookings and
\* booked seats match one to one, and money that bought no seats is given back
\* once nobody works on the booking.
THEOREM SeatsSoldOnceTheorem == ASSUME Params PROVE Spec => []SeatsSoldOnce
<1>1. Inv => SeatsSoldOnce
  BY DEF Inv, ChargesOK, SeatsSoldOnce, PaymentNotKept, TypeOK
<1> QED BY <1>1, Invariance, PTL

\* movie_ticket_booking.py, locked_in_order: two threads are never both inside
\* the critical sections of bookings that share a seat, so that each section
\* is one step as far as its seats are concerned.
Exclusive ==
    \A t, u \in Thread :
        t # u /\ op[t].kind \in Critical /\ Wanted(t) = {} /\ op[u].kind \in Critical /\ Wanted(u) = {}
        => SeatsOf[op[t].booking] \cap SeatsOf[op[u].booking] = {}

\* locked_in_order: the seat locks give mutual exclusion, for any seats and threads.
THEOREM MutualExclusion == ASSUME Params PROVE Spec => []Exclusive
<1>1. Inv => Exclusive
  BY DEF Inv, LocksOK, Exclusive, Wanted
<1> QED BY <1>1, Invariance, PTL

\* A waiting thread has a next lock.
LEMMA NextLockExists ==
    ASSUME Params, Inv, NEW t \in Thread, op[t].kind \in Critical, Wanted(t) # {}
    PROVE  \E s \in Seat : NextLock(t, s)
<1>1. op[t].booking \in Booking
  BY DEF Inv, TypeOK, OperationsOK, Critical
<1>2. Wanted(t) \in SUBSET Seat /\ Wanted(t) \in SUBSET Nat
  BY <1>1 DEF Wanted, Params
<1>3. PICK s \in Wanted(t) : \A r \in Wanted(t) : s <= r
  BY <1>2, LeastNatural
<1> QED BY <1>2, <1>3 DEF NextLock

\* movie_ticket_booking.py, locked_in_order: the seat locks never end in a
\* circle.  Of all the locks that threads wait for take the greatest; whoever
\* held it would wait for a greater one.
THEOREM LocksNeverStuckTheorem == ASSUME Params PROVE Spec => []LocksNeverStuck
<1>1. ASSUME Inv PROVE LocksNeverStuck
  <2> DEFINE waiting == {t \in Thread : op[t].kind \in Critical}
             M == {s \in Seat : \E t \in waiting : NextLock(t, s)}
  <2> SUFFICES ASSUME waiting # {},
                      \A t \in waiting : Wanted(t) # {},
                      \A t \in waiting, s \in Seat :
                         NextLock(t, s) => \E u \in Thread : s \in locks[u]
               PROVE  FALSE
    BY DEF LocksNeverStuck
  <2>1. M \in SUBSET Nat /\ IsFiniteSet(M)
    BY FS_Subset DEF Params
  <2>2. M # {}
    BY <1>1, NextLockExists
  <2>3. PICK m \in M : \A k \in M : k <= m
    <3> HIDE DEF M
    <3> QED BY <2>1, <2>2, GreatestNatural
  <2>4. PICK u \in Thread : m \in locks[u]
    BY <2>3
  <2>5. u \in waiting
    BY <1>1, <2>4 DEF Inv, LocksOK
  <2>6. PICK n \in Seat : NextLock(u, n)
    BY <1>1, <2>5, NextLockExists
  <2>7. n \in M /\ n <= m
    BY <2>3, <2>5, <2>6
  <2>8. m < n
    BY <1>1, <2>4, <2>5, <2>6 DEF Inv, LocksOK, NextLock
  <2> QED BY <2>1, <2>3, <2>7, <2>8
<1> QED BY <1>1, Invariance, PTL
----------------------------------------------------------------------------
\* What the abstract sale needs besides: a held seat is held until the deadline
\* of a pending booking, and a pending booking has all of its seats until then.
HoldsOK ==
    /\ \A s \in Seat : seat[s].status = "AVAILABLE" => seat[s].booking = None
    /\ \A s \in Seat : seat[s].status = "HELD" =>
          seat[s].until = expires[seat[s].booking] /\ Promise[seat[s].booking] = "PENDING"
    /\ \A b \in Booking : Promise[b] = "PENDING" /\ clock < expires[b] =>
          \A s \in SeatsOf[b] : HeldBy(s, b)

\* What is about to be expired is out of time.
DeadlinesOK ==
    /\ \A t \in Thread : op[t].kind = "expire" => expires[op[t].booking] <= clock
    /\ \A t \in Thread : \A b \in op[t].due : expires[b] <= clock

\* What is confirmed or about to be was paid, and only what was paid and has
\* ended is refunded.
PaymentsOK ==
    /\ \A t \in Thread : op[t].kind \in {"confirm", "refund"} => paid[op[t].booking] = 1
    /\ \A b \in Booking : booking[b] = "CONFIRMED" => paid[b] = 1
    /\ \A t \in Thread : op[t].kind = "refund" => booking[op[t].booking] \in {"CANCELLED", "EXPIRED"}

\* The effects of a step outside the threads.
Unseen == seat' = seat /\ Promise' = Promise /\ UNCHANGED <<expires, paid, refunded, clock>>

Takes(b) ==
    /\ Promise[b] = "ABSENT" /\ clock < StartTime /\ \A s \in SeatsOf[b] : IsFree(s)
    /\ seat' = [s \in Seat |-> IF s \in SeatsOf[b]
                               THEN [status |-> "HELD", booking |-> b, until |-> clock + HoldTtl]
                               ELSE seat[s]]
    /\ Promise' = [Promise EXCEPT ![b] = "PENDING"]
    /\ expires' = [expires EXCEPT ![b] = clock + HoldTtl]
    /\ UNCHANGED <<paid, refunded, clock>>

Pays(b) ==
    /\ Promise[b] # "ABSENT" /\ paid[b] = 0 /\ paid' = [paid EXCEPT ![b] = 1]
    /\ seat' = seat /\ Promise' = Promise /\ UNCHANGED <<expires, refunded, clock>>

Sells(b) ==
    /\ Promise[b] = "PENDING" /\ clock < expires[b] /\ paid[b] = 1
    /\ \A s \in SeatsOf[b] : HeldBy(s, b)
    /\ seat' = [s \in Seat |-> IF s \in SeatsOf[b]
                               THEN [status |-> "BOOKED", booking |-> seat[s].booking, until |-> 0]
                               ELSE seat[s]]
    /\ Promise' = [Promise EXCEPT ![b] = "CONFIRMED"]
    /\ UNCHANGED <<expires, paid, refunded, clock>>

Ends(b, end) ==
    /\ seat' = [s \in Seat |-> IF seat[s].booking = b THEN Available ELSE seat[s]]
    /\ Promise' = [Promise EXCEPT ![b] = end]
    /\ \/ end = "CANCELLED" /\ Promise[b] \in {"PENDING", "CONFIRMED"}
       \/ end = "EXPIRED" /\ Promise[b] = "PENDING" /\ expires[b] <= clock
    /\ UNCHANGED <<expires, paid, refunded, clock>>

Refunds(b) ==
    /\ Promise[b] \in {"CANCELLED", "EXPIRED"} /\ paid[b] = 1
    /\ refunded' = [refunded EXCEPT ![b] = @ + 1]
    /\ seat' = seat /\ Promise' = Promise /\ UNCHANGED <<expires, paid, clock>>

Passes ==
    /\ clock < MaxTime /\ clock' = clock + 1
    /\ seat' = seat /\ Promise' = Promise /\ UNCHANGED <<expires, paid, refunded>>

Effect ==
    \/ Unseen \/ Passes
    \/ \E b \in Booking : \/ Takes(b) \/ Pays(b) \/ Sells(b) \/ Refunds(b)
                          \/ Ends(b, "CANCELLED") \/ Ends(b, "EXPIRED")

\* What is promised changes with the registry and with the threads about to
\* register.
LEMMA PromiseKept ==
    ASSUME TypeOK, booking' = booking,
           \A u \in Thread : \/ op'[u] = op[u]
                             \/ op'[u].kind # "register" /\ op[u].kind # "register"
    PROVE  Promise' = Promise
<1>1. Registering' = Registering
  BY DEF Registering
<1> QED BY <1>1 DEF Promise

\* Of a registered booking it is what the registry says.
LEMMA PromiseRegistered ==
    ASSUME TypeOK, OperationsOK, NEW b \in Booking, booking[b] # "ABSENT",
           NEW end \in BookingStatus \ {"ABSENT"}, booking' = [booking EXCEPT ![b] = end],
           \A u \in Thread : \/ op'[u] = op[u]
                             \/ op'[u].kind # "register" /\ op[u].kind # "register"
    PROVE  Promise[b] = booking[b] /\ Promise' = [Promise EXCEPT ![b] = end]
<1>1. Registering' = Registering
  BY DEF Registering
<1>2. b \notin Registering
  BY DEF Registering, OperationsOK
<1> QED BY <1>1, <1>2 DEF Promise, TypeOK

\* A deadline is fixed before a booking is registered.
LEMMA DeadlinesStep ==
    ASSUME Params, TypeOK, OperationsOK, DeadlinesOK, [Next]_vars
    PROVE  DeadlinesOK'
<1> USE DEF Params, TypeOK, OperationsOK, Available, NoOp, Do, Critical, DeadlinesOK
<1>1. ASSUME NEW t \in Thread, NEW s \in Seat, Lock(t, s) PROVE DeadlinesOK'
  BY <1>1 DEF Lock, NextLock
<1>2. ASSUME NEW t \in Thread, NEW b \in Booking, HoldBegin(t, b) PROVE DeadlinesOK'
  BY <1>2 DEF HoldBegin
<1>3. ASSUME NEW t \in Thread, NEW b \in Booking, PayBegin(t, b) PROVE DeadlinesOK'
  BY <1>3 DEF PayBegin
<1>4. ASSUME NEW t \in Thread, NEW b \in Booking, CancelBegin(t, b) PROVE DeadlinesOK'
  BY <1>4 DEF CancelBegin
<1>5. ASSUME NEW t \in Thread, SweepBegin(t) PROVE DeadlinesOK'
  BY <1>5 DEF SweepBegin
<1>6. ASSUME NEW t \in Thread, Hold(t) PROVE DeadlinesOK'
  BY <1>6 DEF Hold, Inside, Leave, IsFree
<1>7. ASSUME NEW t \in Thread, Register(t) PROVE DeadlinesOK'
  BY <1>7 DEF Register
<1>8. ASSUME NEW t \in Thread, Charge(t) PROVE DeadlinesOK'
  BY <1>8 DEF Charge
<1>9. ASSUME NEW t \in Thread, ChargeDeclined(t) PROVE DeadlinesOK'
  BY <1>9 DEF ChargeDeclined
<1>10. ASSUME NEW t \in Thread, NEW b \in Booking, b = op[t].booking, Confirms(t, b) PROVE DeadlinesOK'
  <2>1. CASE SeenConfirmed(t, b)
    BY <1>10, <2>1 DEF Confirms, SeenConfirmed, Leave, Lapsed
  <2>2. CASE Sold(t, b)
    BY <1>10, <2>2 DEF Confirms, Sold, Leave, Lapsed
  <2>3. CASE TooLate(t, b)
    BY <1>10, <2>3 DEF Confirms, TooLate, Leave, Lapsed
  <2> QED BY <1>10, <2>1, <2>2, <2>3 DEF Confirms
<1>11. ASSUME NEW t \in Thread, Refund(t) PROVE DeadlinesOK'
  BY <1>11 DEF Refund
<1>12. ASSUME NEW t \in Thread, NEW b \in Booking, b = op[t].booking, Cancels(t, b) PROVE DeadlinesOK'
  <2>1. CASE GivenUp(t, b)
    BY <1>12, <2>1 DEF Cancels, GivenUp, Leave, Owned
  <2>2. CASE NothingToCancel(t, b)
    BY <1>12, <2>2 DEF Cancels, NothingToCancel, Leave, Owned
  <2> QED BY <1>12, <2>1, <2>2 DEF Cancels
<1>13. ASSUME NEW t \in Thread, NEW b \in Booking, b = op[t].booking, Expires(t, b) PROVE DeadlinesOK'
  BY <1>13 DEF Expires, Lapsed, Leave, Rest
<1>14. ASSUME NEW t \in Thread, NEW b \in op[t].due, SweepNext(t, b) PROVE DeadlinesOK'
  BY <1>14 DEF SweepNext
<1>15. ASSUME Tick PROVE DeadlinesOK'
  BY <1>15 DEF Tick
<1>16. CASE UNCHANGED vars
  BY <1>16 DEF vars
<1> HIDE DEF Params, TypeOK, OperationsOK, Available, NoOp, Do, Critical, DeadlinesOK
<1>17. ASSUME NEW t \in Thread, Confirm(t) PROVE DeadlinesOK'
  BY <1>10, <1>17, SectionFacts DEF Confirms
<1>18. ASSUME NEW t \in Thread, Cancel(t) PROVE DeadlinesOK'
  BY <1>12, <1>18, SectionFacts DEF Cancels
<1>19. ASSUME NEW t \in Thread, Expire(t) PROVE DeadlinesOK'
  BY <1>13, <1>19, SectionFacts DEF Expires
<1> QED
  BY <1>1, <1>2, <1>3, <1>4, <1>5, <1>6, <1>7, <1>8, <1>9, <1>11, <1>14, <1>15, <1>16, <1>17, <1>18, <1>19 DEF Next, Proceed
\* A charge stays, and an ended booking stays ended.
LEMMA PaymentsStep ==
    ASSUME Params, TypeOK, OperationsOK, PaymentsOK, [Next]_vars
    PROVE  PaymentsOK'
<1> USE DEF Params, TypeOK, OperationsOK, Available, NoOp, Do, Critical, PaymentsOK
<1>1. ASSUME NEW t \in Thread, NEW s \in Seat, Lock(t, s) PROVE PaymentsOK'
  BY <1>1 DEF Lock, NextLock
<1>2. ASSUME NEW t \in Thread, NEW b \in Booking, HoldBegin(t, b) PROVE PaymentsOK'
  BY <1>2 DEF HoldBegin
<1>3. ASSUME NEW t \in Thread, NEW b \in Booking, PayBegin(t, b) PROVE PaymentsOK'
  BY <1>3 DEF PayBegin
<1>4. ASSUME NEW t \in Thread, NEW b \in Booking, CancelBegin(t, b) PROVE PaymentsOK'
  BY <1>4 DEF CancelBegin
<1>5. ASSUME NEW t \in Thread, SweepBegin(t) PROVE PaymentsOK'
  BY <1>5 DEF SweepBegin
<1>6. ASSUME NEW t \in Thread, Hold(t) PROVE PaymentsOK'
  BY <1>6 DEF Hold, Inside, Leave, IsFree
<1>7. ASSUME NEW t \in Thread, Register(t) PROVE PaymentsOK'
  BY <1>7 DEF Register
<1>8. ASSUME NEW t \in Thread, Charge(t) PROVE PaymentsOK'
  BY <1>8 DEF Charge
<1>9. ASSUME NEW t \in Thread, ChargeDeclined(t) PROVE PaymentsOK'
  BY <1>9 DEF ChargeDeclined
<1>10. ASSUME NEW t \in Thread, NEW b \in Booking, b = op[t].booking, Confirms(t, b) PROVE PaymentsOK'
  <2>1. CASE SeenConfirmed(t, b)
    BY <1>10, <2>1 DEF Confirms, SeenConfirmed, Leave, Lapsed
  <2>2. CASE Sold(t, b)
    BY <1>10, <2>2 DEF Confirms, Sold, Leave, Lapsed
  <2>3. CASE TooLate(t, b)
    <3>1. /\ \A c \in Booking \ {b} : booking'[c] = booking[c]
          /\ booking'[b] \in {"CANCELLED", "EXPIRED"}
      BY <1>10, <2>3 DEF Confirms, TooLate, Lapsed, BookingStatus
    <3>2. /\ op'[t].kind = "refund" /\ op'[t].booking = b
          /\ \A u \in Thread \ {t} : op'[u] = op[u]
      BY <2>3 DEF TooLate, Leave
    <3>3. paid' = paid /\ paid[b] = 1 /\ b \in Booking  BY <1>10 DEF Confirms
    <3>4. \A u \in Thread : op[u].kind = "refund" =>
             op[u].booking \in Booking /\ booking[op[u].booking] \in {"CANCELLED", "EXPIRED"}
      OBVIOUS
    <3>5. \A u \in Thread : op[u].kind \in {"confirm", "refund"} => paid[op[u].booking] = 1
      OBVIOUS
    <3>6. \A c \in Booking : booking[c] = "CONFIRMED" => paid[c] = 1  OBVIOUS
    <3> HIDE DEF Params, TypeOK, OperationsOK, Available, NoOp, Do, Critical, PaymentsOK
    <3>7. \A u \in Thread : op'[u].kind \in {"confirm", "refund"} => paid'[op'[u].booking] = 1
      BY <3>2, <3>3, <3>5
    <3>8. \A c \in Booking : booking'[c] = "CONFIRMED" => paid'[c] = 1  BY <3>1, <3>3, <3>6
    <3>9. \A u \in Thread : op'[u].kind = "refund" =>
             booking'[op'[u].booking] \in {"CANCELLED", "EXPIRED"}
      BY <3>1, <3>2, <3>4
    <3> QED BY <3>7, <3>8, <3>9 DEF PaymentsOK
  <2> QED BY <1>10, <2>1, <2>2, <2>3 DEF Confirms
<1>11. ASSUME NEW t \in Thread, Refund(t) PROVE PaymentsOK'
  BY <1>11 DEF Refund
<1>12. ASSUME NEW t \in Thread, NEW b \in Booking, b = op[t].booking, Cancels(t, b) PROVE PaymentsOK'
  <2>1. CASE GivenUp(t, b)
    BY <1>12, <2>1 DEF Cancels, GivenUp, Leave, Owned
  <2>2. CASE NothingToCancel(t, b)
    BY <1>12, <2>2 DEF Cancels, NothingToCancel, Leave, Owned
  <2> QED BY <1>12, <2>1, <2>2 DEF Cancels
<1>13. ASSUME NEW t \in Thread, NEW b \in Booking, b = op[t].booking, Expires(t, b) PROVE PaymentsOK'
  BY <1>13 DEF Expires, Lapsed, Leave, Rest
<1>14. ASSUME NEW t \in Thread, NEW b \in op[t].due, SweepNext(t, b) PROVE PaymentsOK'
  BY <1>14 DEF SweepNext
<1>15. ASSUME Tick PROVE PaymentsOK'
  BY <1>15 DEF Tick
<1>16. CASE UNCHANGED vars
  BY <1>16 DEF vars
<1> HIDE DEF Params, TypeOK, OperationsOK, Available, NoOp, Do, Critical, PaymentsOK
<1>17. ASSUME NEW t \in Thread, Confirm(t) PROVE PaymentsOK'
  BY <1>10, <1>17, SectionFacts DEF Confirms
<1>18. ASSUME NEW t \in Thread, Cancel(t) PROVE PaymentsOK'
  BY <1>12, <1>18, SectionFacts DEF Cancels
<1>19. ASSUME NEW t \in Thread, Expire(t) PROVE PaymentsOK'
  BY <1>13, <1>19, SectionFacts DEF Expires
<1> QED
  BY <1>1, <1>2, <1>3, <1>4, <1>5, <1>6, <1>7, <1>8, <1>9, <1>11, <1>14, <1>15, <1>16, <1>17, <1>18, <1>19 DEF Next, Proceed

\* A booking that is out of time lets go of all the seats it still has.
LEMMA Lapse ==
    ASSUME Params, TypeOK, OperationsOK, SeatsOK, SeatsMatchBookings, HoldsOK,
           NEW b \in Booking, booking[b] = "PENDING", expires[b] <= clock, Expired(b),
           UNCHANGED <<expires, paid, refunded, clock>>,
           \A u \in Thread : \/ op'[u] = op[u]
                             \/ op'[u].kind # "register" /\ op[u].kind # "register"
    PROVE  Effect
<1>1. Promise[b] = "PENDING" /\ Promise' = [Promise EXCEPT ![b] = "EXPIRED"]
  BY PromiseRegistered DEF Expired, BookingStatus
<1>2. \A s \in Seat : s \in SeatsOf[b] /\ HeldBy(s, b) <=> seat[s].booking = b
  BY DEF HeldBy, SeatsOK, SeatsMatchBookings, HoldsOK, Params, TypeOK
<1>3. seat' = [s \in Seat |-> IF seat[s].booking = b THEN Available ELSE seat[s]]
  BY <1>2 DEF Expired
<1>4. Ends(b, "EXPIRED")
  BY <1>1, <1>3 DEF Ends
<1> QED BY <1>4 DEF Effect

Inv2 == Inv /\ HoldsOK /\ DeadlinesOK /\ PaymentsOK

\* Every step has one of the effects: what the threads do in several steps is
\* seen at once.
LEMMA Effects ==
    ASSUME Params, Inv2, [Next]_vars
    PROVE  Effect
<1> USE DEF Inv2, Inv
<1>0. ASSUME seat' = seat, booking' = booking, UNCHANGED <<expires, paid, refunded, clock>>,
             \A u \in Thread : \/ op'[u] = op[u]
                               \/ op'[u].kind # "register" /\ op[u].kind # "register"
      PROVE  Effect
  BY <1>0, PromiseKept DEF Unseen, Effect
<1>1. ASSUME NEW t \in Thread, NEW s \in Seat, Lock(t, s) PROVE Effect
  BY <1>0, <1>1 DEF Lock
<1>2. ASSUME NEW t \in Thread, NEW b \in Booking, HoldBegin(t, b) PROVE Effect
  BY <1>0, <1>2 DEF HoldBegin, NoOp, Do, TypeOK
<1>3. ASSUME NEW t \in Thread, NEW b \in Booking, PayBegin(t, b) PROVE Effect
  BY <1>0, <1>3 DEF PayBegin, NoOp, Do, TypeOK
<1>4. ASSUME NEW t \in Thread, NEW b \in Booking, CancelBegin(t, b) PROVE Effect
  BY <1>0, <1>4 DEF CancelBegin, NoOp, Do, TypeOK
<1>5. ASSUME NEW t \in Thread, SweepBegin(t) PROVE Effect
  BY <1>0, <1>5 DEF SweepBegin, NoOp, TypeOK
<1>6. ASSUME NEW t \in Thread, Hold(t) PROVE Effect
  <2> DEFINE b == op[t].booking
             ok == clock < StartTime /\ \A s \in SeatsOf[b] : IsFree(s)
  <2>1. /\ b \in Booking /\ booking[b] = "ABSENT" /\ op[t].kind = "hold"
        /\ \A u \in Thread \ {t} : op[u].booking # b
    BY <1>6 DEF Hold, Inside, TypeOK, OperationsOK
  <2>2. /\ booking' = booking /\ UNCHANGED <<paid, refunded, clock>>
        /\ \A u \in Thread \ {t} : op'[u] = op[u]
    BY <1>6 DEF Hold, Leave, TypeOK
  <2>3. CASE ok
    <3>1. op'[t] = Do("register", b)
      BY <1>6, <2>3 DEF Hold, Leave, TypeOK
    <3>2. Registering' = Registering \cup {b} /\ b \notin Registering
      BY <2>1, <2>2, <3>1 DEF Registering, Do
    <3>3. Promise[b] = "ABSENT" /\ Promise' = [Promise EXCEPT ![b] = "PENDING"]
      BY <2>1, <2>2, <3>2 DEF Promise, TypeOK
    <3>4. Takes(b)
      BY <1>6, <2>2, <2>3, <3>3 DEF Hold, Takes
    <3> QED BY <2>1, <3>4 DEF Effect
  <2>4. CASE ~ok
    <3>1. op'[t] = NoOp /\ seat' = seat /\ expires' = expires
      BY <1>6, <2>4 DEF Hold, Leave, TypeOK
    <3> QED BY <1>0, <2>1, <2>2, <3>1 DEF NoOp
  <2> QED BY <2>3, <2>4
<1>7. ASSUME NEW t \in Thread, Register(t) PROVE Effect
  <2> DEFINE b == op[t].booking
  <2>1. /\ b \in Booking /\ b \in Registering
        /\ \A u \in Thread \ {t} : op[u].booking # b
    BY <1>7 DEF Register, Registering, TypeOK, OperationsOK
  <2>2. Registering' = Registering \ {b}
    BY <1>7, <2>1 DEF Register, Registering, NoOp, TypeOK
  <2>3. Promise' = Promise
    BY <1>7, <2>1, <2>2 DEF Register, Promise, TypeOK
  <2> QED BY <1>7, <2>3 DEF Register, Unseen, Effect
<1>8. ASSUME NEW t \in Thread, Charge(t) PROVE Effect
  <2> DEFINE b == op[t].booking
  <2>1. /\ b \in Booking /\ booking[b] # "ABSENT" /\ b \notin Registering /\ paid[b] \in {0, 1}
    BY <1>8 DEF Charge, Registering, TypeOK, OperationsOK
  <2>2. Promise' = Promise
    BY <1>8, PromiseKept DEF Charge, Do, TypeOK
  <2>3. CASE paid[b] = 0
    BY <1>8, <2>1, <2>2, <2>3 DEF Charge, Pays, Promise, Effect
  <2>4. CASE paid[b] = 1
    <3>1. paid' = paid
      BY <1>8, <2>4 DEF Charge, TypeOK
    <3> QED BY <1>8, <2>2, <3>1 DEF Charge, Unseen, Effect
  <2> QED BY <2>1, <2>3, <2>4
<1>9. ASSUME NEW t \in Thread, ChargeDeclined(t) PROVE Effect
  BY <1>0, <1>9 DEF ChargeDeclined, NoOp, TypeOK
<1>10. ASSUME NEW t \in Thread, Confirm(t) PROVE Effect
  <2> DEFINE b == op[t].booking
  <2>1. /\ b \in Booking /\ booking[b] # "ABSENT" /\ paid[b] = 1 /\ op[t].kind = "confirm"
        /\ UNCHANGED <<expires, paid, refunded, clock>>
    BY <1>10 DEF Confirm, Inside, TypeOK, OperationsOK, PaymentsOK
  <2>2. \A u \in Thread : op'[u] = op[u] \/ (op'[u].kind # "register" /\ op[u].kind # "register")
    BY <1>10, <2>1 DEF Confirm, Leave, NoOp, Late, Do, TypeOK
  <2>3. CASE booking[b] = "CONFIRMED"
    BY <1>0, <1>10, <2>1, <2>2, <2>3 DEF Confirm
  <2>4. CASE booking[b] # "CONFIRMED" /\ StillOurs(b)
    <3>1. Promise[b] = "PENDING" /\ Promise' = [Promise EXCEPT ![b] = "CONFIRMED"]
      BY <1>10, <2>1, <2>2, <2>4, PromiseRegistered DEF Confirm, StillOurs, BookingStatus
    <3>2. Sells(b)
      BY <1>10, <2>1, <2>4, <3>1 DEF Confirm, StillOurs, Sells
    <3> QED BY <2>1, <3>2 DEF Effect
  <2>5. CASE booking[b] # "CONFIRMED" /\ ~StillOurs(b) /\ booking[b] # "PENDING"
    BY <1>0, <1>10, <2>1, <2>2, <2>5 DEF Confirm, Expired
  <2>6. CASE booking[b] = "PENDING" /\ ~StillOurs(b)
    <3>1. Expired(b)
      BY <1>10, <2>6 DEF Confirm
    <3>2. Promise[b] = "PENDING"
      BY <2>1, <2>6 DEF Promise, Registering, OperationsOK
    <3>3. expires[b] <= clock
      BY <2>1, <2>6, <3>2 DEF StillOurs, HoldsOK, TypeOK
    <3> QED BY <2>1, <2>2, <2>6, <3>1, <3>3, Lapse
  <2> QED BY <2>3, <2>4, <2>5, <2>6
<1>11. ASSUME NEW t \in Thread, Refund(t) PROVE Effect
  <2> DEFINE b == op[t].booking
  <2>1. /\ b \in Booking /\ booking[b] \in {"CANCELLED", "EXPIRED"} /\ paid[b] = 1
        /\ b \notin Registering
    BY <1>11 DEF Refund, Registering, TypeOK, OperationsOK, PaymentsOK
  <2>2. Promise' = Promise
    BY <1>11, PromiseKept DEF Refund, NoOp, TypeOK
  <2> QED BY <1>11, <2>1, <2>2 DEF Refund, Refunds, Promise, Effect
<1>12. ASSUME NEW t \in Thread, Cancel(t) PROVE Effect
  <2> DEFINE b == op[t].booking
  <2>1. /\ b \in Booking /\ booking[b] # "ABSENT" /\ op[t].kind = "cancel"
        /\ UNCHANGED <<expires, paid, refunded, clock>>
    BY <1>12 DEF Cancel, Inside, TypeOK, OperationsOK
  <2>2. \A u \in Thread : op'[u] = op[u] \/ (op'[u].kind # "register" /\ op[u].kind # "register")
    BY <1>12, <2>1 DEF Cancel, Leave, NoOp, Do, TypeOK
  <2>3. CASE booking[b] \in {"PENDING", "CONFIRMED"}
    <3>1. /\ Promise[b] = booking[b]
          /\ Promise' = [Promise EXCEPT ![b] = "CANCELLED"]
      BY <1>12, <2>1, <2>2, <2>3, PromiseRegistered DEF Cancel, BookingStatus
    <3>2. \A s \in Seat : Owned(s, b) <=> seat[s].booking = b
      BY <2>1 DEF Owned, SeatsOK, HoldsOK, Params, TypeOK
    <3>3. seat' = [s \in Seat |-> IF seat[s].booking = b THEN Available ELSE seat[s]]
      BY <1>12, <2>3, <3>2 DEF Cancel
    <3>4. Ends(b, "CANCELLED")
      BY <2>1, <2>3, <3>1, <3>3 DEF Ends
    <3> QED BY <2>1, <3>4 DEF Effect
  <2>4. CASE booking[b] \notin {"PENDING", "CONFIRMED"}
    BY <1>0, <1>12, <2>1, <2>2, <2>4 DEF Cancel
  <2> QED BY <2>3, <2>4
<1>13. ASSUME NEW t \in Thread, Expire(t) PROVE Effect
  <2> DEFINE b == op[t].booking
  <2>1. /\ b \in Booking /\ booking[b] # "ABSENT" /\ expires[b] <= clock /\ op[t].kind = "expire"
        /\ UNCHANGED <<expires, paid, refunded, clock>>
    BY <1>13 DEF Expire, Inside, TypeOK, OperationsOK, DeadlinesOK
  <2>2. \A u \in Thread : op'[u] = op[u] \/ (op'[u].kind # "register" /\ op[u].kind # "register")
    BY <1>13, <2>1 DEF Expire, Leave, Rest, TypeOK
  <2>3. CASE booking[b] = "PENDING"
    BY <1>13, <2>1, <2>2, <2>3, Lapse DEF Expire
  <2>4. CASE booking[b] # "PENDING"
    BY <1>0, <1>13, <2>1, <2>2, <2>4 DEF Expire, Expired
  <2> QED BY <2>3, <2>4
<1>14. ASSUME NEW t \in Thread, NEW b \in op[t].due, SweepNext(t, b) PROVE Effect
  BY <1>0, <1>14 DEF SweepNext, TypeOK
<1>15. ASSUME Tick PROVE Effect
  <2>1. Promise' = Promise
    BY <1>15 DEF Tick, Promise, Registering
  <2> QED BY <1>15, <2>1 DEF Tick, Passes, Effect
<1>16. CASE UNCHANGED vars
  BY <1>0, <1>16 DEF vars
<1> QED
  BY <1>1, <1>2, <1>3, <1>4, <1>5, <1>6, <1>7, <1>8, <1>9, <1>10, <1>11, <1>12, <1>13, <1>14, <1>15, <1>16 DEF Next, Proceed

\* Seats are held until the deadline of their booking and no longer.
LEMMA HoldsStep ==
    ASSUME Params, TypeOK, SeatsOK, HoldsOK, Effect
    PROVE  HoldsOK'
<1> USE DEF HoldsOK, HeldBy
<1>1. CASE Unseen
  BY <1>1 DEF Unseen
<1>2. CASE Passes
  BY <1>2 DEF Passes, TypeOK
<1>3. ASSUME NEW b \in Booking, Takes(b) PROVE HoldsOK'
  <2>1. /\ DOMAIN Promise = Booking /\ expires \in [Booking -> Nat] /\ clock \in Nat /\ HoldTtl \in Nat
        /\ SeatsOf \in [Booking -> SUBSET Seat] /\ None \notin Booking
        /\ \A s \in Seat : seat[s].status \in {"AVAILABLE", "HELD", "BOOKED"}
    BY DEF Promise, TypeOK, Params
  <2>2. ASSUME NEW s \in Seat
        PROVE  /\ seat'[s].status = "AVAILABLE" => seat'[s].booking = None
               /\ seat'[s].status = "HELD" => /\ seat'[s].until = expires'[seat'[s].booking]
                                              /\ Promise'[seat'[s].booking] = "PENDING"
    <3>1. CASE s \in SeatsOf[b]
      BY <1>3, <2>1, <3>1 DEF Takes
    <3>2. CASE s \notin SeatsOf[b]
      <4>1. seat'[s] = seat[s]
        BY <1>3, <3>2 DEF Takes
      <4>2. seat[s].status = "HELD" => seat[s].booking \in Booking \ {b}
        BY <3>2 DEF SeatsOK
      <4> QED BY <1>3, <2>1, <4>1, <4>2 DEF Takes
    <3> QED BY <3>1, <3>2
  <2>3. ASSUME NEW c \in Booking, Promise'[c] = "PENDING", clock' < expires'[c], NEW s \in SeatsOf[c]
        PROVE  seat'[s].status = "HELD" /\ seat'[s].booking = c
    <3>1. CASE c = b
      BY <1>3, <2>1, <3>1 DEF Takes
    <3>2. CASE c # b
      <4>1. Promise[c] = "PENDING" /\ clock < expires[c] /\ s \in Seat
        BY <1>3, <2>1, <2>3, <3>2 DEF Takes
      <4>2. seat[s].status = "HELD" /\ seat[s].booking = c /\ seat[s].until = expires[c]
        BY <4>1
      <4>3. s \notin SeatsOf[b]
        BY <1>3, <2>1, <4>1, <4>2 DEF Takes, IsFree
      <4> QED BY <1>3, <4>1, <4>2, <4>3 DEF Takes
    <3> QED BY <3>1, <3>2
  <2> QED BY <2>2, <2>3
<1>4. ASSUME NEW b \in Booking, Pays(b) PROVE HoldsOK'
  BY <1>4 DEF Pays
<1>5. ASSUME NEW b \in Booking, Sells(b) PROVE HoldsOK'
  <2>1. DOMAIN Promise = Booking /\ SeatsOf \in [Booking -> SUBSET Seat]
    BY DEF Promise, Params
  <2>2. \A s \in Seat : s \notin SeatsOf[b] => seat'[s] = seat[s]
    BY <1>5 DEF Sells
  <2>3. \A s \in SeatsOf[b] : s \in Seat /\ seat'[s].status = "BOOKED"
    BY <1>5, <2>1 DEF Sells
  <2>4. \A s \in Seat : seat[s].status = "HELD" /\ s \notin SeatsOf[b] => seat[s].booking \in Booking \ {b}
    BY DEF SeatsOK
  <2>5. ASSUME NEW c \in Booking, c # b, Promise[c] = "PENDING", clock < expires[c], NEW s \in SeatsOf[c]
        PROVE  s \in Seat \ SeatsOf[b]
    BY <1>5, <2>1, <2>5 DEF Sells
  <2>6. Promise'[b] = "CONFIRMED" /\ \A c \in Booking \ {b} : Promise'[c] = Promise[c]
    BY <1>5, <2>1 DEF Sells
  <2>7. expires' = expires /\ clock' = clock
    BY <1>5 DEF Sells
  <2> QED BY <2>1, <2>2, <2>3, <2>4, <2>5, <2>6, <2>7
<1>6. ASSUME NEW b \in Booking, Refunds(b) PROVE HoldsOK'
  BY <1>6 DEF Refunds
<1>7. ASSUME NEW b \in Booking, NEW end \in {"CANCELLED", "EXPIRED"}, Ends(b, end) PROVE HoldsOK'
  <2>1. DOMAIN Promise = Booking /\ SeatsOf \in [Booking -> SUBSET Seat]
    BY DEF Promise, Params
  <2>2. \A s \in Seat : IF seat[s].booking = b THEN seat'[s].status = "AVAILABLE" /\ seat'[s].booking = None
                                                ELSE seat'[s] = seat[s]
    BY <1>7 DEF Ends, Available
  <2>3. \A s \in Seat : seat[s].status = "HELD" => seat[s].booking \in Booking
    BY DEF SeatsOK
  <2>4. Promise'[b] # "PENDING" /\ \A c \in Booking \ {b} : Promise'[c] = Promise[c]
    BY <1>7, <2>1 DEF Ends
  <2>5. expires' = expires /\ clock' = clock
    BY <1>7 DEF Ends
  <2> QED BY <2>1, <2>2, <2>3, <2>4, <2>5
<1> QED BY <1>1, <1>2, <1>3, <1>4, <1>5, <1>6, <1>7 DEF Effect

\* The inductive invariant of the refinement.
LEMMA Invariance2 == ASSUME Params PROVE Spec => []Inv2
<1>1. Init => Inv2
  BY DEF Init, Inv2, Inv, Params, TypeOK, OperationsOK, LocksOK, SeatsOK, SeatsMatchBookings, ChargesOK,
         HoldsOK, DeadlinesOK, PaymentsOK, Promise, Registering, Available, NoOp, Critical
<1>2. ASSUME Inv2, [Next]_vars PROVE Inv2'
  <2>1. Inv'
    BY <1>2, TypeStep, OperationsStep, LocksStep, SeatsStep, ChargesStep DEF Inv, Inv2
  <2>2. HoldsOK'
    BY <1>2, Effects, HoldsStep DEF Inv, Inv2
  <2>3. DeadlinesOK' /\ PaymentsOK'
    BY <1>2, DeadlinesStep, PaymentsStep DEF Inv, Inv2
  <2> QED BY <2>1, <2>2, <2>3 DEF Inv2
<1> QED BY <1>1, <1>2, PTL DEF Spec

\* An effect is a step of the abstract sale.
LEMMA SaleStep ==
    ASSUME Params, Inv2, Effect
    PROVE  [Sale!Next]_Sale!vars
<1> USE DEF Inv2, Inv
<1>1. CASE Unseen
  BY <1>1 DEF Unseen, Sale!vars, Owner
<1>2. CASE Passes
  BY <1>2 DEF Passes, Sale!Next, Sale!Tick, Owner
<1>3. ASSUME NEW b \in Booking, Takes(b) PROVE Sale!Next
  <2>1. ASSUME NEW s \in SeatsOf[b] PROVE Sale!Free(s)
    <3>1. s \in Seat /\ IsFree(s)
      BY <1>3, <2>1 DEF Takes, Params
    <3> QED BY <3>1 DEF IsFree, HoldsOK, SeatsOK, Owner, Sale!Free, Sale!InTime, TypeOK
  <2>2. Owner' = [s \in Seat |-> IF s \in SeatsOf[b] THEN b ELSE Owner[s]]
    BY <1>3 DEF Takes, Owner
  <2>3. Sale!Reserve(b)
    BY <1>3, <2>1, <2>2 DEF Takes, Sale!Reserve
  <2> QED BY <2>3 DEF Sale!Next
<1>4. ASSUME NEW b \in Booking, Pays(b) PROVE Sale!Next
  <2>1. Owner' = Owner
    BY <1>4 DEF Pays, Owner
  <2> QED BY <1>4, <2>1 DEF Pays, Sale!Pay, Sale!Next
<1>5. ASSUME NEW b \in Booking, Sells(b) PROVE Sale!Next
  <2>1. Owner' = Owner /\ \A s \in SeatsOf[b] : Owner[s] = b
    BY <1>5 DEF Sells, HeldBy, Owner, Params
  <2> QED BY <1>5, <2>1 DEF Sells, Sale!Sell, Sale!InTime, Sale!Next
<1>6. ASSUME NEW b \in Booking, Refunds(b) PROVE Sale!Next
  <2>1. Owner' = Owner
    BY <1>6 DEF Refunds, Owner
  <2> QED BY <1>6, <2>1 DEF Refunds, Sale!Refund, Sale!Next
<1>7. ASSUME NEW b \in Booking, NEW end \in {"CANCELLED", "EXPIRED"}, Ends(b, end) PROVE Sale!Next
  <2>1. Owner' = [s \in Seat |-> IF Owner[s] = b THEN None ELSE Owner[s]]
    BY <1>7 DEF Ends, Available, Owner
  <2>2. Sale!GiveUp(b, end)
    BY <1>7, <2>1 DEF Ends, Sale!GiveUp
  <2>3. Sale!Cancel(b) \/ Sale!Expire(b)
    BY <1>7, <2>2 DEF Ends, Sale!Cancel, Sale!Expire, Sale!InTime, TypeOK
  <2> QED BY <2>3 DEF Sale!Next
<1> QED BY <1>1, <1>2, <1>3, <1>4, <1>5, <1>6, <1>7 DEF Effect

\* movie_ticket_booking.py, BookingService: for any seats, bookings, threads and
\* times, the service with its seat locks, its charges outside them and its
\* sweeper implements the sale in which a booking takes, buys and gives up its
\* seats in single steps, is charged before they are sold, and loses them to
\* nobody before its deadline.
THEOREM SoldInOneStepTheorem == ASSUME Params PROVE Spec => SoldInOneStep
<1>1. Init => Sale!Init
  <2> SUFFICES ASSUME Init PROVE Sale!Init
    OBVIOUS
  <2>1. Registering = {}
    BY DEF Init, Registering, NoOp
  <2>2. Owner = [s \in Seat |-> None] /\ Promise = [b \in Booking |-> "ABSENT"]
    BY <2>1 DEF Init, Owner, Promise, Available
  <2> QED BY <2>2 DEF Init, Sale!Init
<1>2. Inv2 /\ [Next]_vars => [Sale!Next]_Sale!vars
  BY Effects, SaleStep
<1> QED BY <1>1, <1>2, Invariance2, PTL DEF Spec, Sale!Spec, SoldInOneStep
============================================================================
