---------------------------- MODULE OrderMatching ----------------------------
(***************************************************************************)
(* OrderBook, Journal and SymbolSequencer of                               *)
(* python-low-level-design/order-matching-engine for one symbol: clients   *)
(* queue commands, and one worker numbers, journals, applies and answers   *)
(* them.  After a crash the book is what a replay of the journal makes.    *)
(*                                                                         *)
(* Prices are ticks.  Events other than trades, listeners and the decimal  *)
(* prices of the API are left out.                                         *)
(***************************************************************************)
EXTENDS Integers, Sequences, FiniteSets, FiniteSetsExt, SequencesExt

CONSTANTS
    Command,    \* the commands clients send: new orders and cancels
    MaxSeq,     \* commands the worker takes
    MaxQueue,   \* commands waiting in the queue
    MayCrash, None

VARIABLES
    book,       \* the two BookSides and _live
    journal,    \* commands, by sequence number
    queue, closed,
    worker,     \* the command in hand: journaled, or applied and not answered
    report      \* what the last command did

vars == <<book, journal, queue, closed, worker, report>>

Opposite(side) == IF side = "BUY" THEN "SELL" ELSE "BUY"
EmptySide == [levels |-> <<>>, heap |-> {}]
EmptyBook == [BUY |-> EmptySide, SELL |-> EmptySide, live |-> {}]
NoReport == [status |-> "none", order |-> None, remaining |-> 0, trades |-> <<>>]

Init ==
    /\ book = EmptyBook /\ journal = <<>> /\ queue = <<>> /\ closed = FALSE
    /\ worker = "idle" /\ report = NoReport
----------------------------------------------------------------------------
\* BookSide: levels maps a price to its orders, oldest first, and their total;
\* heap holds the price of every level and of levels that are gone.
Price(b, side) == DOMAIN b[side].levels

\* _key: bids highest first, asks lowest first.
Better(side, p, q) == IF side = "BUY" THEN p > q ELSE p < q
Top(side, prices) == CHOOSE p \in prices : \A q \in prices : p = q \/ Better(side, p, q)

\* Fault: a price that leaves the heap is not looked for again.
PushedOnce(b, side, p) == b[side].heap

\* A price is pushed unless it still has an entry.
Pushed(b, side, p) == b[side].heap \cup {p}

\* BookSide.add and PriceLevel.append.
Rest(b, order) ==
    LET old == IF order.price \in Price(b, order.side) THEN b[order.side].levels[order.price]
               ELSE [orders |-> <<>>, total |-> 0]
        new == [orders |-> Append(old.orders, [id |-> order.id, remaining |-> order.remaining]),
                total |-> old.total + order.remaining]
    IN  [b EXCEPT ![order.side].levels = [p \in DOMAIN @ \cup {order.price} |->
                                             IF p = order.price THEN new ELSE @[p]],
                  ![order.side].heap = Pushed(b, order.side, order.price),
                  !.live = @ \cup {order.id}]

\* del self._levels[price]
Without(levels, price) == [p \in DOMAIN levels \ {price} |-> levels[p]]

\* best_level drops the stale prices on top of the heap.
Best(b, side) == IF Price(b, side) = {} THEN {} ELSE {Top(side, Price(b, side) \cap b[side].heap)}
Surfaced(b, side) ==
    [b EXCEPT ![side].heap = {p \in @ : \E best \in Best(b, side) : p = best \/ Better(side, best, p)}]

Crosses(taker, price) ==
    \/ taker.type = "MARKET"
    \/ IF taker.side = "BUY" THEN price <= taker.price ELSE price >= taker.price

\* PriceLevel.head: time priority.
HeadOf(orders) == 1

\* One trade of _match: the taker against the order at a place of a level.
Trade(m, side, price, at) ==
    LET level == m.book[side].levels[price]
        maker == level.orders[at]
    IN  [qty |-> Min({m.taker.remaining, maker.remaining}), maker |-> maker, level |-> level, at |-> at]
Left(t) == IF t.qty = t.maker.remaining THEN RemoveAt(t.level.orders, t.at)
           ELSE [t.level.orders EXCEPT ![t.at].remaining = @ - t.qty]
Traded(m, side, price, t) ==
    [taker |-> [m.taker EXCEPT !.remaining = @ - t.qty],
     trades |-> Append(m.trades, [maker |-> t.maker.id, price |-> price, qty |-> t.qty]),
     book |-> [m.book EXCEPT
                  ![side].levels = IF Left(t) = <<>> THEN Without(@, price)
                                   ELSE [@ EXCEPT ![price] = [orders |-> Left(t), total |-> t.level.total - t.qty]],
                  !.live = IF t.qty = t.maker.remaining THEN @ \ {t.maker.id} ELSE @]]

\* One round of _match at a side whose best price is on top.
MatchAt(m, side, price) ==
    IF ~Crosses(m.taker, price) THEN m
    ELSE Traded(m, side, price, Trade(m, side, price, HeadOf(m.book[side].levels[price].orders)))
MatchOn(m, side) ==
    IF Price(m.book, side) = {} THEN m ELSE MatchAt(m, side, Top(side, Price(m.book, side)))
MatchRound(m, side) ==
    IF m.taker.remaining = 0 THEN m ELSE MatchOn([m EXCEPT !.book = Surfaced(@, side)], side)

\* _match: at most one round per resting order.
Match(b, taker) ==
    FoldLeft(LAMBDA m, i : MatchRound(m, Opposite(taker.side)), [book |-> b, taker |-> taker, trades |-> <<>>],
             [i \in 1..Cardinality(b.live) + 1 |-> i])

\* _can_fill_completely: the totals of the levels the order reaches.
Fillable(b, taker) ==
    LET side == Opposite(taker.side)
    IN  MapThenSumSet(LAMBDA p : b[side].levels[p].total, {p \in Price(b, side) : Crosses(taker, p)})
            >= taker.remaining

\* _validate.
Invalid(cmd) ==
    \/ cmd.quantity <= 0
    \/ cmd.type = "LIMIT" /\ cmd.price <= 0
    \/ cmd.type = "MARKET" /\ (cmd.price # 0 \/ cmd.tif = "GTC")

Report(status, id, remaining, trades) ==
    [status |-> status, order |-> id, remaining |-> remaining, trades |-> trades]

\* _new_order.  The order's id is the number of its command.
NewOrder(b, seq, cmd) ==
    LET order == [id |-> seq, side |-> cmd.side, type |-> cmd.type, price |-> cmd.price,
                  remaining |-> cmd.quantity]
        m == Match(b, order)
        left == m.taker.remaining
    IN  IF Invalid(cmd) THEN [book |-> b, report |-> Report("REJECTED", seq, cmd.quantity, <<>>)]
        ELSE IF cmd.tif = "FOK" /\ ~Fillable(b, order)
             THEN [book |-> b, report |-> Report("CANCELLED", seq, cmd.quantity, <<>>)]
        ELSE IF left = 0 THEN [book |-> m.book, report |-> Report("FILLED", seq, 0, m.trades)]
        ELSE IF cmd.type = "LIMIT" /\ cmd.tif = "GTC"
             THEN [book |-> Rest(m.book, m.taker),
                   report |-> Report(IF m.trades = <<>> THEN "NEW" ELSE "PARTIALLY_FILLED", seq, left, m.trades)]
        ELSE [book |-> m.book, report |-> Report("CANCELLED", seq, left, m.trades)]

\* _cancel: an order that is not live any more is a normal race.
CancelOrder(b, id) ==
    LET side == CHOOSE s \in {"BUY", "SELL"} : \E p \in Price(b, s) :
                    \E i \in DOMAIN b[s].levels[p].orders : b[s].levels[p].orders[i].id = id
        price == CHOOSE p \in Price(b, side) :
                    \E i \in DOMAIN b[side].levels[p].orders : b[side].levels[p].orders[i].id = id
        level == b[side].levels[price]
        at == CHOOSE i \in DOMAIN level.orders : level.orders[i].id = id
        left == RemoveAt(level.orders, at)
    IN  IF id \notin b.live THEN [book |-> b, report |-> Report("REJECTED", id, 0, <<>>)]
        ELSE [book |-> [b EXCEPT ![side].levels =
                              IF left = <<>> THEN Without(@, price)
                              ELSE [@ EXCEPT ![price] = [orders |-> left, total |-> @.total - level.orders[at].remaining]],
                           !.live = @ \ {id}],
              report |-> Report("CANCELLED", id, level.orders[at].remaining, <<>>)]

\* OrderBook.apply.
Apply(b, seq, cmd) == IF cmd.kind = "new" THEN NewOrder(b, seq, cmd) ELSE CancelOrder(b, cmd.id)

\* replay.
Replay(entries) ==
    FoldLeft(LAMBDA b, i : Apply(b, i, entries[i]).book, EmptyBook, [i \in 1..Len(entries) |-> i])
----------------------------------------------------------------------------
Submit(cmd) ==
    /\ ~closed /\ Len(queue) < MaxQueue /\ Len(journal) + Len(queue) < MaxSeq
    /\ queue' = Append(queue, cmd) /\ UNCHANGED <<book, journal, closed, worker, report>>

\* close: what was submitted before is still worked on.
Close ==
    /\ ~closed /\ closed' = TRUE /\ UNCHANGED <<book, journal, queue, worker, report>>

\* Journal.append.
Journaled(entries, cmd) == Append(entries, cmd)

\* _run: number and journal a command before it is applied.
TakeCommand ==
    /\ worker = "idle" /\ queue # <<>>
    /\ journal' = Journaled(journal, Head(queue)) /\ queue' = Tail(queue) /\ worker' = "journaled"
    /\ UNCHANGED <<book, closed, report>>

ApplyCommand ==
    /\ worker = "journaled"
    /\ LET done == Apply(book, Len(journal), Last(journal))
       IN  book' = done.book /\ report' = done.report
    /\ worker' = "applied" /\ UNCHANGED <<journal, queue, closed>>

\* future.set_result.
Answer ==
    /\ worker = "applied" /\ worker' = "idle"
    /\ UNCHANGED <<book, journal, queue, closed, report>>

\* The process dies and starts again from its journal; the queue is lost.
Crash ==
    /\ MayCrash /\ ~closed
    /\ book' = Replay(journal) /\ queue' = <<>> /\ worker' = "idle" /\ report' = NoReport
    /\ UNCHANGED <<journal, closed>>

Next == (\E cmd \in Command : Submit(cmd)) \/ Close \/ TakeCommand \/ ApplyCommand \/ Answer \/ Crash

Spec == Init /\ [][Next]_vars
----------------------------------------------------------------------------
TypeOK ==
    /\ worker \in {"idle", "journaled", "applied"}
    /\ report.status \in {"none", "NEW", "PARTIALLY_FILLED", "FILLED", "CANCELLED", "REJECTED"}

Resting(b, side) == UNION {{[id |-> b[side].levels[p].orders[i].id, price |-> p,
                             remaining |-> b[side].levels[p].orders[i].remaining] :
                                i \in DOMAIN b[side].levels[p].orders} : p \in Price(b, side)}

\* BookSide, PriceLevel and _match: the book is never crossed; levels, totals,
\* heap and the table for cancels describe the same resting orders, each level
\* in the order of arrival.
BookSound ==
    /\ \A p \in Price(book, "BUY"), q \in Price(book, "SELL") : p < q
    /\ book.live = {o.id : o \in Resting(book, "BUY") \cup Resting(book, "SELL")}
    /\ \A s \in {"BUY", "SELL"} :
          /\ Price(book, s) \subseteq book[s].heap
          /\ \A p \in Price(book, s) :
                LET level == book[s].levels[p]
                IN  /\ level.orders # <<>>
                    /\ level.total = FoldLeft(LAMBDA n, o : n + o.remaining, 0, level.orders)
                    /\ \A i, j \in DOMAIN level.orders : i < j => level.orders[i].id < level.orders[j].id

\* What price-time priority gives a taker: the crossing orders by price and
\* age, each up to what is left.
Due(b, order) ==
    LET side == Opposite(order.side)
        makers == SetToSortSeq({o \in Resting(b, side) : Crosses(order, o.price)},
                     LAMBDA x, y : Better(side, x.price, y.price) \/ (x.price = y.price /\ x.id < y.id))
        before(i) == FoldLeft(LAMBDA n, o : n + o.remaining, 0, SubSeq(makers, 1, i - 1))
        all == [i \in DOMAIN makers |-> [maker |-> makers[i].id, price |-> makers[i].price,
                                          qty |-> Min({makers[i].remaining, Max({0, order.remaining - before(i)})})]]
    IN  SelectSeq(all, LAMBDA t : t.qty > 0)

\* _match, _can_fill_completely: the trades of an order are exactly those
\* price-time priority gives it against the book before, and none when it is
\* fill-or-kill and they are too few.
PriceTimePriority ==
    worker = "applied" /\ Last(journal).kind = "new" /\ ~Invalid(Last(journal)) =>
        LET cmd == Last(journal)
            before == Replay(Front(journal))
            due == Due(before, [side |-> cmd.side, type |-> cmd.type, price |-> cmd.price, remaining |-> cmd.quantity])
            filled == FoldLeft(LAMBDA n, t : n + t.qty, 0, due)
        IN  report.trades = IF cmd.tif = "FOK" /\ filled < cmd.quantity THEN <<>> ELSE due

\* SymbolSequencer._run and replay: whatever a client has been told is what a
\* replay of the journal makes of its command; nothing is applied twice or
\* left out.
JournalIsBook ==
    book = Replay(IF worker = "journaled" THEN Front(journal) ELSE journal)
=============================================================================
