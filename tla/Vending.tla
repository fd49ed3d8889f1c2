------------------------------ MODULE Vending -------------------------------
(***************************************************************************)
(* VendingMachine of python-low-level-design/vending-machine: select,      *)
(* insert cash or pay by card, change out of what the machine holds and    *)
(* what was inserted, a dispenser that may fail, and the operator's calls. *)
(* Every call is atomic under one lock.  There is one slot; cash is counted*)
(* in pieces, of which only coins are paid out.                            *)
(***************************************************************************)
EXTENDS Integers, Sequences, SequencesExt, FiniteSets, FiniteSetsExt, Functions

CONSTANTS
    Piece, Coins, Cents,    \* Coins: the coins, by falling value
    Price, Capacity,        \* of the slot
    Float,                  \* pieces in the cash box at first
    MaxPieces, MaxSales,    \* bounds on pieces held and on sales
    None

VARIABLES
    state,          \* "IDLE", "AWAITING_PAYMENT", "OUT_OF_SERVICE"
    quantity, cash, escrow,
    captured,       \* holds on cards that the gateway has captured
    banked,         \* cents the operators left in the box, less what they took
    sold, stocked   \* sales by cash and by card; units loaded into the slot

vars == <<state, quantity, cash, escrow, captured, banked, sold, stocked>>

Empty == [p \in Piece |-> 0]
Plus(a, b) == [p \in Piece |-> a[p] + b[p]]
One(p) == [Empty EXCEPT ![p] = 1]
Total(b) == FoldFunction(+, 0, [p \in Piece |-> Cents[p] * b[p]])
Count(b) == FoldFunction(+, 0, b)

Init ==
    /\ state = "IDLE" /\ quantity = Capacity /\ cash = Float /\ escrow = Empty
    /\ captured = 0 /\ banked = Total(Float)
    /\ sold = [cash |-> 0, card |-> 0] /\ stocked = Capacity
----------------------------------------------------------------------------
\* make_change, one coin: the sums reached with it, each with fewest coins.
Layer(best, c, available, amount) ==
    [t \in 0..amount |->
        LET ways == {Plus(best[t - k * Cents[c]], [One(c) EXCEPT ![c] = k]) :
                        k \in {j \in 0..available[c] : j * Cents[c] <= t /\ best[t - j * Cents[c]] # None}}
        IN  IF ways = {} THEN None ELSE CHOOSE w \in ways : \A v \in ways : Count(w) <= Count(v)]

\* make_change: bounded coin change by dynamic programming over the coins.
MakeChange(amount, available) ==
    FoldLeft(LAMBDA best, c : Layer(best, c, available, amount),
             [t \in 0..amount |-> IF t = 0 THEN Empty ELSE None], Coins)[amount]
----------------------------------------------------------------------------
\* IdleState.select
Select ==
    /\ state = "IDLE" /\ quantity > 0 /\ state' = "AWAITING_PAYMENT"
    /\ UNCHANGED <<quantity, cash, escrow, captured, banked, sold, stocked>>

\* _refund_and_reset
RefundAndReset == escrow' = Empty /\ state' = "IDLE"

\* insert: a piece that does not complete the payment.
InsertPart(p) ==
    /\ state = "AWAITING_PAYMENT" /\ Count(escrow) < MaxPieces /\ Total(escrow) + Cents[p] < Price
    /\ escrow' = Plus(escrow, One(p))
    /\ UNCHANGED <<state, quantity, cash, captured, banked, sold, stocked>>

\* The pieces change can be made of.
Pool(p) == Plus(Plus(cash, escrow), One(p))

\* insert and _vend_cash: the piece that completes the payment is refused when
\* change cannot be made; the product drops, or all is returned.
InsertLast(p, drops) ==
    LET due == Total(escrow) + Cents[p] - Price
        change == MakeChange(due, Pool(p))
    IN  /\ state = "AWAITING_PAYMENT" /\ due >= 0 /\ change # None /\ sold.cash < MaxSales
        /\ RefundAndReset
        /\ IF drops THEN /\ cash' = [c \in Piece |-> Plus(Plus(cash, escrow), One(p))[c] - change[c]]
                         /\ quantity' = quantity - 1 /\ sold' = [sold EXCEPT !.cash = @ + 1]
           ELSE UNCHANGED <<cash, quantity, sold>>
        /\ UNCHANGED <<captured, banked, stocked>>

\* The hold is captured, or void when nothing dropped.
Settled(drops) == captured' = captured + IF drops THEN 1 ELSE 0

\* pay_by_card and _vend_card, on a card that is not declined; with a remote
\* purchase the selection is part of the step.
PayByCard(remote, drops) ==
    /\ IF remote THEN state = "IDLE" /\ quantity > 0 ELSE state = "AWAITING_PAYMENT" /\ escrow = Empty
    /\ sold.card < MaxSales /\ Settled(drops) /\ RefundAndReset
    /\ IF drops THEN quantity' = quantity - 1 /\ sold' = [sold EXCEPT !.card = @ + 1] ELSE UNCHANGED <<quantity, sold>>
    /\ UNCHANGED <<cash, banked, stocked>>

Cancel ==
    /\ state = "AWAITING_PAYMENT" /\ RefundAndReset
    /\ UNCHANGED <<quantity, cash, captured, banked, sold, stocked>>
----------------------------------------------------------------------------
\* restock, load_change and collect_cash, in any state
Restock(n) ==
    /\ quantity + n <= Capacity /\ quantity' = quantity + n /\ stocked' = stocked + n
    /\ UNCHANGED <<state, cash, escrow, captured, banked, sold>>
LoadChange(p) ==
    /\ Count(cash) < MaxPieces /\ cash' = Plus(cash, One(p)) /\ banked' = banked + Cents[p]
    /\ UNCHANGED <<state, quantity, escrow, captured, sold, stocked>>
CollectCash(keep) ==
    LET left == [p \in Piece |-> Min({cash[p], keep[p]})]
    IN  /\ left # cash /\ cash' = left /\ banked' = banked - (Total(cash) - Total(left))
        /\ UNCHANGED <<state, quantity, escrow, captured, sold, stocked>>

EnterMaintenance ==
    /\ state # "OUT_OF_SERVICE" /\ state' = "OUT_OF_SERVICE" /\ escrow' = Empty
    /\ UNCHANGED <<quantity, cash, captured, banked, sold, stocked>>
ExitMaintenance ==
    /\ state = "OUT_OF_SERVICE" /\ state' = "IDLE"
    /\ UNCHANGED <<quantity, cash, escrow, captured, banked, sold, stocked>>

Next ==
    \/ Select \/ Cancel \/ EnterMaintenance \/ ExitMaintenance \/ Restock(1)
    \/ \E p \in Piece : InsertPart(p) \/ LoadChange(p)
    \/ \E p \in Piece, drops \in BOOLEAN : InsertLast(p, drops)
    \/ \E remote, drops \in BOOLEAN : PayByCard(remote, drops)
    \/ \E keep \in {Empty, Float} : CollectCash(keep)

Spec == Init /\ [][Next]_vars
----------------------------------------------------------------------------
TypeOK ==
    /\ quantity \in 0..Capacity /\ cash \in [Piece -> Nat] /\ escrow \in [Piece -> Nat]
    /\ state = "IDLE" => escrow = Empty

\* _vend_cash: "the withdraw can't fail", and the machine keeps the price of
\* each cash sale, no more and no less, whatever operators load and collect.
MoneyKept == Total(cash) = banked + sold.cash * Price /\ \A p \in Piece : cash[p] >= 0

\* _vend_card and _vend_cash: what dropped was paid for, and only that.
PaidIsDropped == captured = sold.card /\ quantity = stocked - sold.cash - sold.card

\* All ways to pay an amount in coins.
Ways(amount, available) == {b \in [ToSet(Coins) -> 0..2 * MaxPieces] :
    /\ \A c \in ToSet(Coins) : b[c] <= available[c]
    /\ FoldFunction(+, 0, [c \in ToSet(Coins) |-> Cents[c] * b[c]]) = amount}

\* make_change: "Fewest coins summing to `amount`", and none only if no choice
\* of the coins at hand sums up to it.
ChangeIsFewest ==
    state = "AWAITING_PAYMENT" => \A p \in Piece :
        LET due == Total(escrow) + Cents[p] - Price
            ways == Ways(due, Pool(p))
            change == MakeChange(due, Pool(p))
        IN  due >= 0 => IF change = None THEN ways = {}
                        ELSE Total(change) = due /\ Count(change) = Min({FoldFunction(+, 0, w) : w \in ways})
=============================================================================
