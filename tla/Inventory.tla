----------------------------- MODULE Inventory -----------------------------
(***************************************************************************)
(* InventoryService of python-low-level-design/inventory-management: stock *)
(* per product and warehouse, reservations over several items that are     *)
(* committed, released or expire, transfers, cycle counts, and purchase    *)
(* orders.                                                                 *)
(*                                                                         *)
(* _lock_all takes the item locks of an operation in one global order      *)
(* before anything is read, so such a section is one action; a             *)
(* Reservation's lock covers its status and the items' section inside it.  *)
(* Steps in between (a claimed order, an unregistered reservation, a       *)
(* sweeper's candidates, a received but not yet stored purchase order) are *)
(* actions of their own.  The catalogue, queries and the demand-based      *)
(* reorder policy are left out.                                            *)
(***************************************************************************)
EXTENDS Integers, Sequences, FiniteSets, FiniteSetsExt, SequencesExt

CONSTANTS
    Sku,
    Warehouse,        \* in the order of (priority, warehouse_id)
    Order, Wanted,    \* what each order asks for: units of each sku
    SingleFirst,      \* the allocation strategy: one warehouse first, or split at once
    Quantity,         \* quantities received, transferred and counted
    ReorderLevel, ReorderQuantity,
    Ttl,
    MaxOnHand, MaxPo, MaxTime    \* bounds

VARIABLES
    onHand, reserved, \* InventoryItem, by item
    booked,           \* the deltas in the ledger, except those of shipments
    reservation,      \* by order: status, lines, expires_at
    call,             \* reserve: where the call for an order is
    candidates,       \* expire_reservations: what is still to be looked at
    po,               \* purchase orders, in the order of their ids
    arriving,         \* receive_purchase_order: received, and not yet in stock
    checking,         \* check_reorder: the items it has still to look at; holds _po_lock
    now

vars == <<onHand, reserved, booked, reservation, call, candidates, po, arriving, checking, now>>
stock == <<onHand, reserved, booked>>
supply == <<po, arriving, checking>>

Shelf == 1..Len(Warehouse)
Item == Sku \X Shelf
NoLines == [i \in Item |-> 0]

Init ==
    /\ onHand = NoLines /\ reserved = NoLines /\ booked = NoLines
    /\ reservation = [o \in Order |-> [status |-> "none", lines |-> NoLines, expires |-> 0]]
    /\ call = [o \in Order |-> "none"] /\ candidates = {}
    /\ po = <<>> /\ arriving = {} /\ checking = {} /\ now = 0

Available(i) == onHand[i] - reserved[i]
Plus(f, g) == [i \in Item |-> f[i] + g[i]]
Minus(f, g) == [i \in Item |-> f[i] - g[i]]
----------------------------------------------------------------------------
\* GreedySplitAllocation: what shelf w gives when the shelves before it have
\* given what they could.
Greedy(sku, qty) ==
    LET before(w) == MapThenSumSet(LAMBDA v : Available(<<sku, v>>), 1..(w - 1))
    IN  [w \in Shelf |-> Max({0, Min({qty - before(w), Available(<<sku, w>>)})})]

\* SingleWarehouseFirstAllocation.
Single(sku, qty) ==
    LET whole == {w \in Shelf : Available(<<sku, w>>) >= qty}
    IN  IF whole = {} THEN Greedy(sku, qty)
        ELSE [w \in Shelf |-> IF w = Min(whole) THEN qty ELSE 0]

\* The lines of the reservation, if every sku can be filled.
Allocate(o) ==
    [i \in Item |-> IF SingleFirst THEN Single(i[1], Wanted[o][i[1]])[i[2]]
                    ELSE Greedy(i[1], Wanted[o][i[1]])[i[2]]]
CanFill(o) ==
    \A sku \in Sku :
        MapThenSumSet(LAMBDA w : Allocate(o)[<<sku, w>>], Shelf) = Wanted[o][sku]
----------------------------------------------------------------------------
\* receive_stock, of quantity q.
Stored(i, q) ==
    /\ onHand' = [onHand EXCEPT ![i] = @ + q] /\ booked' = [booked EXCEPT ![i] = @ + q]
    /\ UNCHANGED reserved

ReceiveStock(i, q) ==
    /\ onHand[i] + q <= MaxOnHand
    /\ Stored(i, q)
    /\ UNCHANGED <<reservation, call, candidates, supply, now>>

Countable(i, counted) == counted >= reserved[i]

AdjustStock(i, counted) ==
    /\ Countable(i, counted) /\ counted # onHand[i]
    /\ Stored(i, counted - onHand[i])
    /\ UNCHANGED <<reservation, call, candidates, supply, now>>

TransferStock(sku, v, w, q) ==
    /\ v # w /\ q <= Available(<<sku, v>>) /\ onHand[<<sku, w>>] + q <= MaxOnHand
    /\ onHand' = [onHand EXCEPT ![<<sku, v>>] = @ - q, ![<<sku, w>>] = @ + q]
    /\ booked' = [booked EXCEPT ![<<sku, v>>] = @ - q, ![<<sku, w>>] = @ + q]
    /\ UNCHANGED <<reserved, reservation, call, candidates, supply, now>>
----------------------------------------------------------------------------
\* reserve, the claim.  A known order is returned as it is, a claimed one refused.
ReserveBegin(o) ==
    /\ call[o] = "none" /\ reservation[o].status = "none"
    /\ call' = [call EXCEPT ![o] = "plan"]
    /\ UNCHANGED <<stock, reservation, candidates, supply, now>>

\* Under the item locks: plan, reserve and build the reservation, or give up.
ReserveUnits(o) ==
    /\ call[o] = "plan"
    /\ IF CanFill(o)
       THEN /\ reserved' = Plus(reserved, Allocate(o))
            /\ reservation' = [reservation EXCEPT ![o] = [status |-> "unregistered",
                                  lines |-> Allocate(o), expires |-> now + Ttl]]
            /\ call' = [call EXCEPT ![o] = "register"]
       ELSE /\ call' = [call EXCEPT ![o] = "discard"]
            /\ UNCHANGED <<reserved, reservation>>
    /\ UNCHANGED <<onHand, booked, candidates, supply, now>>

Register(o) ==
    /\ call[o] = "register"
    /\ reservation' = [reservation EXCEPT ![o].status = "ACTIVE"]
    /\ call' = [call EXCEPT ![o] = "discard"]
    /\ UNCHANGED <<stock, candidates, supply, now>>

Discard(o) ==
    /\ call[o] = "discard"
    /\ call' = [call EXCEPT ![o] = "none"]
    /\ UNCHANGED <<stock, reservation, candidates, supply, now>>

\* _release_locked.
ReleaseAs(o, final) ==
    /\ reserved' = Minus(reserved, reservation[o].lines)
    /\ reservation' = [reservation EXCEPT ![o].status = final]
    /\ UNCHANGED <<onHand, booked>>

\* commit: an ACTIVE reservation ships, or expires if it is too late.
Commit(o) ==
    /\ reservation[o].status = "ACTIVE"
    /\ IF now >= reservation[o].expires THEN ReleaseAs(o, "EXPIRED")
       ELSE /\ onHand' = Minus(onHand, reservation[o].lines)
            /\ reserved' = Minus(reserved, reservation[o].lines)
            /\ reservation' = [reservation EXCEPT ![o].status = "COMMITTED"]
            /\ UNCHANGED booked
    /\ UNCHANGED <<call, candidates, supply, now>>

Release(o) ==
    /\ reservation[o].status = "ACTIVE"
    /\ ReleaseAs(o, "RELEASED")
    /\ UNCHANGED <<call, candidates, supply, now>>

\* expire_reservations: the candidates, under _res_lock.
SweepBegin ==
    LET due == {o \in Order : reservation[o].status = "ACTIVE" /\ reservation[o].expires <= now}
    IN  /\ candidates = {} /\ due # {}
        /\ candidates' = due
        /\ UNCHANGED <<stock, reservation, call, supply, now>>

\* The look again, under the reservation's own lock.
StillDue(o) == reservation[o].status = "ACTIVE"

SweepNext(o) ==
    /\ o \in candidates
    /\ candidates' = candidates \ {o}
    /\ IF StillDue(o) THEN ReleaseAs(o, "EXPIRED") ELSE UNCHANGED <<stock, reservation>>
    /\ UNCHANGED <<call, supply, now>>
----------------------------------------------------------------------------
OnOrder(i) == {n \in DOMAIN po : po[n].item = i /\ po[n].status = "OPEN"}
Position(i) == Available(i) + ReorderQuantity * Cardinality(OnOrder(i))

\* check_reorder holds _po_lock and looks at one item after the other.
CheckBegin ==
    /\ checking = {}
    /\ checking' = Item
    /\ UNCHANGED <<stock, reservation, call, candidates, po, arriving, now>>

\* FixedReorderPolicy.
DueForReorder(i) == Position(i) <= ReorderLevel

CheckItem(i) ==
    /\ i \in checking /\ Len(po) < MaxPo
    /\ checking' = checking \ {i}
    /\ po' = IF DueForReorder(i) THEN Append(po, [item |-> i, status |-> "OPEN"]) ELSE po
    /\ UNCHANGED <<stock, reservation, call, candidates, arriving, now>>

\* receive_purchase_order: the status first, and the stock after _po_lock is gone.
ReceivePo(n) ==
    /\ checking = {} /\ po[n].status = "OPEN"
    /\ po' = [po EXCEPT ![n].status = "RECEIVED"]
    /\ arriving' = arriving \cup {n}
    /\ UNCHANGED <<stock, reservation, call, candidates, checking, now>>

StorePo(n) ==
    /\ n \in arriving
    /\ Stored(po[n].item, ReorderQuantity)
    /\ arriving' = arriving \ {n}
    /\ UNCHANGED <<reservation, call, candidates, po, checking, now>>

CancelPo(n) ==
    /\ checking = {} /\ po[n].status = "OPEN"
    /\ po' = [po EXCEPT ![n].status = "CANCELLED"]
    /\ UNCHANGED <<stock, reservation, call, candidates, arriving, checking, now>>

Tick ==
    /\ now < MaxTime /\ now' = now + 1
    /\ UNCHANGED <<stock, reservation, call, candidates, supply>>
----------------------------------------------------------------------------
Next ==
    \/ \E i \in Item, q \in Quantity : ReceiveStock(i, q) \/ AdjustStock(i, q)
    \/ \E sku \in Sku, v, w \in Shelf, q \in Quantity : TransferStock(sku, v, w, q)
    \/ \E o \in Order : \/ ReserveBegin(o) \/ ReserveUnits(o) \/ Register(o) \/ Discard(o)
                        \/ Commit(o) \/ Release(o) \/ SweepNext(o)
    \/ SweepBegin \/ CheckBegin \/ Tick
    \/ \E i \in Item : CheckItem(i)
    \/ \E n \in DOMAIN po : ReceivePo(n) \/ StorePo(n) \/ CancelPo(n)

Spec == Init /\ [][Next]_vars
----------------------------------------------------------------------------
TypeOK ==
    /\ onHand \in [Item -> Nat] /\ reserved \in [Item -> Nat] /\ booked \in [Item -> Int]
    /\ \A o \in Order : reservation[o].lines \in [Item -> Nat]
    /\ call \in [Order -> {"none", "plan", "register", "discard"}]
    /\ candidates \subseteq Order /\ arriving \subseteq DOMAIN po /\ checking \subseteq Item

Lines(statuses, i) ==
    MapThenSumSet(LAMBDA o : IF reservation[o].status \in statuses
                             THEN reservation[o].lines[i] ELSE 0, Order)

\* InventoryItem and the reservations: what is reserved is what live
\* reservations hold, what is in stock is what the ledger booked less what
\* committed reservations took, and no unit is promised twice, whichever of
\* commit, release, expiry and the sweeper comes first.
UnitsAccounted ==
    \A i \in Item :
        /\ reserved[i] = Lines({"unregistered", "ACTIVE"}, i)
        /\ onHand[i] = booked[i] - Lines({"COMMITTED"}, i)
        /\ reserved[i] <= onHand[i]

\* AllocationStrategy.allocate: an order is refused only if the warehouses
\* together have too little, and a plan never takes more than there is.
AllocationExact ==
    \A o \in Order :
        /\ CanFill(o) = \A sku \in Sku :
              MapThenSumSet(LAMBDA w : Available(<<sku, w>>), Shelf) >= Wanted[o][sku]
        /\ CanFill(o) => \A i \in Item : Allocate(o)[i] <= Available(i)

============================================================================
