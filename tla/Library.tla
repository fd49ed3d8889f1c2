------------------------------ MODULE Library -------------------------------
(***************************************************************************)
(* LibraryService of python-low-level-design/library-management: loans,    *)
(* renewals, a first come first served waitlist per title, holds that      *)
(* lapse lazily, and fines.  One lock makes each call atomic.  There is    *)
(* one title; its copies are on the shelf from the start or come later.    *)
(***************************************************************************)
EXTENDS Integers, Sequences, SequencesExt, FiniteSets, FiniteSetsExt

CONSTANTS
    Copy, Later,        \* copies, and those that are added later
    Member, MaxBooks, LoanDays, MaxRenewals,
    HoldDays, FineBlock, ReplacementCost,
    MaxDay, MaxFine,    \* bounds on days and on fines due
    None

VARIABLES
    status,     \* BookItem.status, None before the copy is added
    loan,       \* _active: the open loan of a copy
    waitlist, hold,     \* _waitlist of the title, _holds
    fine,       \* Member.fine_due
    day

vars == <<status, loan, waitlist, hold, fine, day>>

Loans(m) == {c \in Copy : loan[c] # None /\ loan[c].member = m}
HeldFor(h, m) == {c \in Copy : h[c] # None /\ h[c].member = m}
Overdue(c) == Max({0, day - loan[c].due})

Init ==
    /\ status = [c \in Copy |-> IF c \in Later THEN None ELSE "AVAILABLE"]
    /\ loan = [c \in Copy |-> None] /\ hold = [c \in Copy |-> None]
    /\ waitlist = <<>> /\ fine = [m \in Member |-> 0] /\ day = 0
----------------------------------------------------------------------------
Shelves == [status |-> status, hold |-> hold, waitlist |-> waitlist]

\* _release: held for the first in the queue, else shelved.
Released(s, c) ==
    IF s.waitlist = <<>> THEN [s EXCEPT !.status[c] = "AVAILABLE", !.hold[c] = None]
    ELSE [status |-> [s.status EXCEPT ![c] = "ON_HOLD"], waitlist |-> Tail(s.waitlist),
          hold |-> [s.hold EXCEPT ![c] = [member |-> Head(s.waitlist), expires |-> day + HoldDays]]]

Lapsed(h) == {c \in Copy : h[c] # None /\ day > h[c].expires}

\* _expire_holds
Expired(s) == FoldSet(LAMBDA c, t : Released(t, c), s, Lapsed(s.hold))

Becomes(s) == status' = s.status /\ hold' = s.hold /\ waitlist' = s.waitlist
----------------------------------------------------------------------------
\* Fault: a late reader may take more.
MayBorrowLate(m) == Cardinality(Loans(m)) < MaxBooks

\* _check_can_borrow
MayBorrow(m) ==
    /\ Cardinality(Loans(m)) < MaxBooks /\ fine[m] < FineBlock
    /\ \A c \in Loans(m) : Overdue(c) = 0

\* borrow: the copy held for the member, else one on the shelf.
Borrow(m) ==
    LET s == Expired(Shelves)
        held == HeldFor(s.hold, m)
        shelf == {c \in Copy : s.status[c] = "AVAILABLE"}
    IN  /\ MayBorrow(m)
        /\ IF held = {} /\ shelf = {} THEN Becomes(s) /\ UNCHANGED loan
           ELSE \E c \in IF held # {} THEN held ELSE shelf :
                   /\ Becomes([status |-> [s.status EXCEPT ![c] = "ON_LOAN"], hold |-> [s.hold EXCEPT ![c] = None],
                               waitlist |-> SelectSeq(s.waitlist, LAMBDA w : w # m)])
                   /\ loan' = [loan EXCEPT ![c] = [member |-> m, due |-> day + LoanDays, renewals |-> 0]]
        /\ UNCHANGED <<fine, day>>

Fined(m, amount) == [fine EXCEPT ![m] = Min({@ + amount, MaxFine})]

\* return_item, at one unit of fine a day
ReturnItem(c) ==
    /\ loan[c] # None /\ fine' = Fined(loan[c].member, Overdue(c))
    /\ loan' = [loan EXCEPT ![c] = None]
    /\ Becomes(Released(Expired(Shelves), c)) /\ UNCHANGED day

Renewable(c) == Overdue(c) = 0 /\ loan[c].renewals < MaxRenewals /\ waitlist = <<>>

Renew(c) ==
    /\ loan[c] # None /\ Renewable(c)
    /\ loan' = [loan EXCEPT ![c].renewals = @ + 1, ![c].due = day + LoanDays]
    /\ UNCHANGED <<status, waitlist, hold, fine, day>>

ReportLost(c) ==
    /\ loan[c] # None /\ fine' = Fined(loan[c].member, ReplacementCost)
    /\ loan' = [loan EXCEPT ![c] = None] /\ status' = [status EXCEPT ![c] = "LOST"]
    /\ UNCHANGED <<waitlist, hold, day>>

\* reserve: only when no copy is on the shelf
Reserve(m) ==
    LET s == Expired(Shelves)
        joins == /\ \A c \in Copy : s.status[c] # "AVAILABLE"
                 /\ ~Contains(s.waitlist, m) /\ HeldFor(s.hold, m) = {} /\ Loans(m) = {}
    IN  Becomes([s EXCEPT !.waitlist = IF joins THEN Append(@, m) ELSE @]) /\ UNCHANGED <<loan, fine, day>>

CancelReservation(m) ==
    /\ \/ Contains(waitlist, m) /\ waitlist' = SelectSeq(waitlist, LAMBDA w : w # m) /\ UNCHANGED <<status, hold>>
       \/ /\ ~Contains(waitlist, m)
          /\ \E c \in HeldFor(hold, m) : Becomes(Released([Shelves EXCEPT !.hold[c] = None], c))
    /\ UNCHANGED <<loan, fine, day>>

PayFine(m, amount) ==
    /\ amount \in 1..fine[m] /\ fine' = [fine EXCEPT ![m] = @ - amount]
    /\ UNCHANGED <<status, loan, waitlist, hold, day>>

\* add_item of the catalog
AddItem(c) ==
    /\ status[c] = None /\ status' = [status EXCEPT ![c] = "AVAILABLE"]
    /\ UNCHANGED <<loan, waitlist, hold, fine, day>>

Tick == day < MaxDay /\ day' = day + 1 /\ UNCHANGED <<status, loan, waitlist, hold, fine>>

Next ==
    \/ \E m \in Member : Borrow(m) \/ Reserve(m) \/ CancelReservation(m) \/ PayFine(m, fine[m])
    \/ \E c \in Copy : ReturnItem(c) \/ Renew(c) \/ ReportLost(c) \/ AddItem(c)
    \/ Tick

Spec == Init /\ [][Next]_vars
----------------------------------------------------------------------------
TypeOK ==
    /\ status \in [Copy -> {"AVAILABLE", "ON_LOAN", "ON_HOLD", "LOST", None}]
    /\ fine \in [Member -> 0..MaxFine] /\ ToSet(waitlist) \subseteq Member

\* A copy is on loan exactly while a loan of it is open and on hold exactly
\* while a hold names it; a member has at most one place, in the queue or held.
CopiesAccounted ==
    /\ \A c \in Copy : /\ (loan[c] # None) = (status[c] = "ON_LOAN")
                       /\ (hold[c] # None) = (status[c] = "ON_HOLD")
    /\ \A m \in Member : Cardinality({i \in 1..Len(waitlist) : waitlist[i] = m}) + Cardinality(HeldFor(hold, m)) <= 1

\* _release and reserve: while members wait no copy stands on the shelf, so that
\* nobody who did not wait passes them; a copy that the catalog adds while they
\* wait is not offered to them, and may.
QueueServed == waitlist # <<>> => \A c \in Copy \ Later : status[c] # "AVAILABLE"

\* borrow and renew: a loan is prolonged only while nobody waits, and a member
\* with a fine to settle or a late book gets no other.
LendingRules ==
    /\ \A c \in Copy : loan[c] # None /\ loan'[c] # None /\ loan'[c] # loan[c] => waitlist = <<>>
    /\ \A m \in Member : Loans(m) # {} /\ (\E c \in Copy : loan[c] = None /\ loan'[c] # None /\ loan'[c].member = m)
          => fine[m] < FineBlock /\ \A c \in Loans(m) : day <= loan[c].due
=============================================================================
