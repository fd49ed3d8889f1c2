------------------------------ MODULE MCBookings ------------------------------
(***************************************************************************)
(* The services that sell, lend and count things, and the games: the       *)
(* payment service with its outbox, whose module this one extends, and     *)
(* small instances of the same service, of the bank and its machines,      *)
(* inventory, car rental, the cab service, food delivery, file upload, the *)
(* vending machine, the parking lot, the library, expense sharing, snakes  *)
(* and ladders, chess and tic-tac-toe.                                     *)
(*                                                                         *)
(* A behaviour is one of one component: focus names it, with "outbox" for  *)
(* the module that is extended; x1, x2, ... are the variables of the       *)
(* others in the order of their modules, and the slots an instance does    *)
(* not need stay None.                                                     *)
(***************************************************************************)
EXTENDS Payment, Integers, Sequences, TLC

CONSTANTS p1, k1, r1, r2, r3, t1, t2, b1, b2

VARIABLES focus, x1, x2, x3, x4, x5, x6, x7, x8, x9, x10, x11, x12, x13, x14,
          x15, x16
----------------------------------------------------------------------------
\* One charge of 3, refunds of 2, 1 and 2 by two threads, and two relays.
OneKey == p1 :> k1
Three == p1 :> 3
SomeRefunds == r1 :> 2 @@ r2 :> 1 @@ r3 :> 2

\* Threads and relays of the extended module are interchangeable; the
\* instances do not mention them.
Symmetry == Permutations({t1, t2}) \cup Permutations({b1, b2})

\* Positions the games of chess start from: castling past a rook that watches
\* f1 after one move; a double step beside an enemy pawn and a pawn about to
\* promote; mate and stalemate one move away.
Man(color, type, moved) == [color |-> color, type |-> type, moved |-> moved]
Positions == {
    [side |-> "WHITE",
     grid |-> <<7, 4>> :> Man("WHITE", "KING", FALSE) @@ <<7, 7>> :> Man("WHITE", "ROOK", FALSE)
              @@ <<7, 0>> :> Man("WHITE", "ROOK", FALSE) @@ <<0, 6>> :> Man("BLACK", "KING", TRUE)
              @@ <<1, 5>> :> Man("BLACK", "ROOK", TRUE)],
    [side |-> "BLACK",
     grid |-> <<7, 4>> :> Man("WHITE", "KING", TRUE) @@ <<3, 4>> :> Man("WHITE", "PAWN", TRUE)
              @@ <<1, 0>> :> Man("WHITE", "PAWN", TRUE) @@ <<0, 6>> :> Man("BLACK", "KING", TRUE)
              @@ <<1, 3>> :> Man("BLACK", "PAWN", FALSE)],
    [side |-> "WHITE",
     grid |-> <<2, 5>> :> Man("WHITE", "KING", TRUE) @@ <<3, 6>> :> Man("WHITE", "QUEEN", TRUE)
              @@ <<0, 7>> :> Man("BLACK", "KING", TRUE)]}

\* Expenses that do not divide evenly, by equal and by weighted shares.
Expenses == {[payer |-> 1, amount |-> 10, weights |-> 1 :> 1 @@ 2 :> 1 @@ 3 :> 1],
             [payer |-> 2, amount |-> 9, weights |-> 1 :> 1 @@ 4 :> 3],
             [payer |-> 3, amount |-> 7, weights |-> 2 :> 2 @@ 3 :> 1 @@ 4 :> 2],
             [payer |-> 4, amount |-> 5, weights |-> 1 :> 1]}

\* Transfers in both directions between two accounts.
Transfers == {[id |-> 1, from |-> 1, to |-> 2, amount |-> 2],
              [id |-> 2, from |-> 2, to |-> 1, amount |-> 2]}

\* One charge of 3 and four refunds of 2 and 1 that do not all fit, one of
\* them declined, by two threads.
Refunds == INSTANCE Payment WITH
    status <- x1, refund <- x2, gwCharge <- x3, gwRefund <- x4, charged <- x5,
    refunded <- x6, job <- x7, todo <- x8, events <- x9, pending <- x10,
    relay <- x11, published <- x12, Pay <- {"p1"}, Key <- {"k1", "k2"},
    RKey <- {"r1", "r2", "r3", "r4"}, KeyOf <- "p1" :> "k1",
    Amount <- [p \in {"p1"} |-> 3],
    RAmount <- [k \in {"r1", "r2", "r3", "r4"} |-> IF k \in {"r1", "r4"} THEN 2 ELSE 1],
    Declined <- {}, RDeclined <- {"r3"}, Thread <- {"t1", "t2"}, Relay <- {},
    MaxAttempts <- 2, MaxPublished <- 0

\* Two charges, one of them declined, and a refund.
Charges == INSTANCE Payment WITH
    status <- x1, refund <- x2, gwCharge <- x3, gwRefund <- x4, charged <- x5,
    refunded <- x6, job <- x7, todo <- x8, events <- x9, pending <- x10,
    relay <- x11, published <- x12, Pay <- {"p1", "p2"}, Key <- {"k1", "k2"},
    RKey <- {"r1"}, KeyOf <- "p1" :> "k1" @@ "p2" :> "k2",
    Amount <- [p \in {"p1", "p2"} |-> 3],
    RAmount <- [k \in {"r1"} |-> IF k \in {"r1", "r4"} THEN 2 ELSE 1],
    Declined <- {"p2"}, RDeclined <- {}, Thread <- {"t1", "t2"}, Relay <- {},
    MaxAttempts <- 2, MaxPublished <- 0

\* One card for two accounts, one machine, two clients who transfer.
Bank == INSTANCE Atm WITH
    balance <- x1, held <- x2, lock <- x3, used <- x4, attempts <- x5,
    ledger <- x6, requests <- x7, machine <- x8, notes <- x9, client <- x10,
    day <- x11, Account <- {1, 2}, Initial <- [a \in {1, 2} |-> 3],
    Floor <- [a \in {1, 2} |-> a - 1], Card <- {"card"}, Owned <- "card" :> {1, 2},
    DailyLimit <- 3, Expiry <- "card" :> 1, Machine <- {"m1"},
    Denomination <- {1, 2}, Loaded <- [d \in {1, 2} |-> 1], Amount <- {2},
    Client <- {"c1", "c2"}, Order <- Transfers, MaxPinAttempts <- 2, MaxOps <- 1,
    MaxDay <- 1

\* Two warehouses, two orders.
Stock == INSTANCE Inventory WITH
    onHand <- x1, reserved <- x2, booked <- x3, reservation <- x4, call <- x5,
    candidates <- x6, po <- x7, arriving <- x8, checking <- x9, now <- x10,
    Sku <- {"sku"}, Warehouse <- <<"w1", "w2">>, Order <- {"o1", "o2"},
    Wanted <- "o1" :> ("sku" :> 2) @@ "o2" :> ("sku" :> 1), SingleFirst <- TRUE,
    Quantity <- {1}, ReorderLevel <- 0, ReorderQuantity <- 1, Ttl <- 1,
    MaxOnHand <- 2, MaxPo <- 0, MaxTime <- 1

\* Stock that is ordered again.
Reorder == INSTANCE Inventory WITH
    onHand <- x1, reserved <- x2, booked <- x3, reservation <- x4, call <- x5,
    candidates <- x6, po <- x7, arriving <- x8, checking <- x9, now <- x10,
    Sku <- {"sku"}, Warehouse <- <<"w1">>, Order <- {"o1"},
    Wanted <- "o1" :> ("sku" :> 1), SingleFirst <- FALSE, Quantity <- {1},
    ReorderLevel <- 0, ReorderQuantity <- 1, Ttl <- 1, MaxOnHand <- 2, MaxPo <- 2,
    MaxTime <- 1

\* Two reservations and a service of one vehicle that overlap.
Rental == INSTANCE CarRental WITH
    blocks <- x1, status <- x2, holdUntil <- x3, rented <- x4, sweep <- x5,
    now <- x6, Vehicle <- {"v"}, Reservation <- {"r1", "r2"},
    VehicleOf <- [r \in {"r1", "r2"} |-> "v"], Pickup <- "r1" :> 2 @@ "r2" :> 3,
    Dropoff <- "r1" :> 3 @@ "r2" :> 4, Maintenance <- {"g"},
    MaintVehicle <- "g" :> "v", MaintFrom <- "g" :> 3, MaintTo <- "g" :> 5,
    Turnaround <- 1, HoldTtl <- 1, MaxTime <- 3

\* Two riders for two drivers.
Cabs == INSTANCE CabBooking WITH
    cab <- x1, ring <- x2, trip <- x3, active <- x4, find <- x5, Driver <- {1, 2},
    Trip <- {"t1", "t2"}, RiderOf <- "t1" :> "r1" @@ "t2" :> "r2", Rings <- 2

\* Two requests of one rider for two drivers.
Rider == INSTANCE CabBooking WITH
    cab <- x1, ring <- x2, trip <- x3, active <- x4, find <- x5, Driver <- {1, 2},
    Trip <- {"t1", "t2"}, RiderOf <- [t \in {"t1", "t2"} |-> "rider"], Rings <- 2

\* Two orders, two partners.
Food == INSTANCE FoodDelivery WITH
    tap <- x1, slot <- x2, charged <- x3, order <- x4, refunded <- x5,
    partner <- x6, effects <- x7, assign <- x8, Tap <- {"x1", "x2"},
    KeyOf <- "x1" :> "k1" @@ "x2" :> "k2",
    CartOf <- [x \in {"x1", "x2"} |-> "cart"], RestaurantOf <- "cart" :> 1,
    Partner <- {1, 2}, MaxOrders <- 2, Dispatcher <- {"d1"}

\* Three taps with one idempotency key, one of them for another cart.
Taps == INSTANCE FoodDelivery WITH
    tap <- x1, slot <- x2, charged <- x3, order <- x4, refunded <- x5,
    partner <- x6, effects <- x7, assign <- x8, Tap <- {"x1", "x2", "x3"},
    KeyOf <- [x \in {"x1", "x2", "x3"} |-> "k"],
    CartOf <- "x1" :> "ca" @@ "x2" :> "ca" @@ "x3" :> "cb",
    RestaurantOf <- "ca" :> 1 @@ "cb" :> 2, Partner <- {1}, MaxOrders <- 1,
    Dispatcher <- {}

\* Two chunks of one file; writes of cancelled requests land later.
Chunked == INSTANCE FileUpload WITH
    status <- x1, chunks <- x2, inflight <- x3, expires <- x4, disk <- x5,
    file <- x6, request <- x7, late <- x8, assembly <- x9, cleaning <- x10,
    active <- x11, used <- x12, now <- x13, rot <- x14, altered <- x15,
    unverified <- x16, Upload <- {"u1"}, Chunks <- "u1" :> 2,
    Content <- {"good", "bad"}, Expected <- "u1" :> <<"good", "good">>,
    Request <- {"r1", "r2"}, MaxConcurrent <- 1, Quota <- 3, Ttl <- 1,
    MaxTime <- 1, MayDetach <- TRUE, MaxRot <- 0

\* Two chunks of one file, one of which rots.
Rotting == INSTANCE FileUpload WITH
    status <- x1, chunks <- x2, inflight <- x3, expires <- x4, disk <- x5,
    file <- x6, request <- x7, late <- x8, assembly <- x9, cleaning <- x10,
    active <- x11, used <- x12, now <- x13, rot <- x14, altered <- x15,
    unverified <- x16, Upload <- {"u1"}, Chunks <- "u1" :> 2,
    Content <- {"good", "bad"}, Expected <- "u1" :> <<"good", "good">>,
    Request <- {"r1", "r2"}, MaxConcurrent <- 1, Quota <- 3, Ttl <- 2,
    MaxTime <- 2, MayDetach <- FALSE, MaxRot <- 1

\* Two files, of which the quota holds one.
Quotas == INSTANCE FileUpload WITH
    status <- x1, chunks <- x2, inflight <- x3, expires <- x4, disk <- x5,
    file <- x6, request <- x7, late <- x8, assembly <- x9, cleaning <- x10,
    active <- x11, used <- x12, now <- x13, rot <- x14, altered <- x15,
    unverified <- x16, Upload <- {"u1", "u2"},
    Chunks <- [u \in {"u1", "u2"} |-> 1], Content <- {"good"},
    Expected <- [u \in {"u1", "u2"} |-> <<"good">>], Request <- {"r1", "r2"},
    MaxConcurrent <- 2, Quota <- 1, Ttl <- 2, MaxTime <- 2, MayDetach <- TRUE,
    MaxRot <- 0

\* Coins of 2 and 5, where the greedy change fails.
Vendor == INSTANCE Vending WITH
    state <- x1, quantity <- x2, cash <- x3, escrow <- x4, captured <- x5,
    banked <- x6, sold <- x7, stocked <- x8, Piece <- {"dime", "quarter", "note"},
    Coins <- <<"quarter", "dime">>,
    Cents <- "dime" :> 2 @@ "quarter" :> 5 @@ "note" :> 20,
    Float <- "dime" :> 3 @@ "quarter" :> 1 @@ "note" :> 0, Price <- 14,
    Capacity <- 2, MaxPieces <- 4, MaxSales <- 2

\* Three spots of two sizes on three floors.
Lot == INSTANCE Parking WITH
    parked <- x1, free <- x2, ticket <- x3, byPlate <- x4,
    Spot <- {"s1", "s2", "s3"}, Vehicle <- {"bike", "car", "van"},
    TypeOf <- "s1" :> 1 @@ "s2" :> 2 @@ "s3" :> 1,
    FloorOf <- "s1" :> 2 @@ "s2" :> 1 @@ "s3" :> 3,
    Required <- "bike" :> 1 @@ "car" :> 2 @@ "van" :> 1, Rate <- <<10, 20>>,
    Unit <- 2, Penalty <- 50, Time <- {0, 3}, MaxTickets <- 3

\* Two copies of a title, one of which arrives later, and three members.
Branch == INSTANCE Library WITH
    status <- x1, loan <- x2, waitlist <- x3, hold <- x4, fine <- x5, day <- x6,
    Copy <- {"b1", "b2"}, Later <- {"b2"}, Member <- {"m1", "m2", "m3"},
    MaxBooks <- 2, LoanDays <- 1, MaxRenewals <- 1, HoldDays <- 1, FineBlock <- 1,
    ReplacementCost <- 2, MaxDay <- 3, MaxFine <- 2

\* Four friends.
Group == INSTANCE Splitwise WITH
    members <- x1, expenses <- x2, payments <- x3, net <- x4, User <- 1..4,
    Offer <- Expenses, Amount <- {3}, MaxEntries <- 2

\* Every board of six cells.
Ladders == INSTANCE Snakes WITH
    jumps <- x1, position <- x2, current <- x3, streak <- x4, status <- x5,
    winner <- x6, history <- x7, Size <- 6, Players <- 2, Faces <- {1, 2},
    Overshoot <- "BOUNCE", MaxDoubles <- 2, MaxTurns <- 4

\* Three plies from each position.
Game == INSTANCE Chess WITH
    start <- x1, grid <- x2, ep <- x3, toMove <- x4, status <- x5, winner <- x6,
    history <- x7, clock <- x8, positions <- x9, Starts <- Positions,
    ClaimRepeats <- 2, DrawRepeats <- 3, ClaimClock <- 2, DrawClock <- 3,
    MaxPly <- 3

\* The bot answers every line of play after an opening in the corner.
Minimax == INSTANCE TicTacToe WITH
    grid <- x1, sums <- x2, history <- x3, winner <- x4, turn <- x5, status <- x6,
    N <- 3, Opening <- {<<0, 0>>}, Bot <- "O", MayUndo <- FALSE, MaxMoves <- 9

\* Two people who open in a corner, at an edge or in the centre, and may take
\* moves back.
Board == INSTANCE TicTacToe WITH
    grid <- x1, sums <- x2, history <- x3, winner <- x4, turn <- x5, status <- x6,
    N <- 3, Opening <- {<<0, 0>>, <<0, 1>>, <<1, 1>>}, Bot <- None,
    MayUndo <- TRUE, MaxMoves <- 6
----------------------------------------------------------------------------
\* The slots from the i-th on.
Rest13 == <<x13, x14, x15, x16>>
Rest12 == <<x12, Rest13>>
Rest11 == <<x11, Rest12>>
Rest10 == <<x10, Rest11>>
Rest9 == <<x9, Rest10>>
Rest8 == <<x8, Rest9>>
Rest7 == <<x7, Rest8>>
Rest6 == <<x6, Rest7>>
Rest5 == <<x5, Rest6>>
Rest1 == <<x1, x2, x3, x4, Rest5>>

Blank13 == x13 = None /\ x14 = None /\ x15 = None /\ x16 = None
Blank12 == x12 = None /\ Blank13
Blank11 == x11 = None /\ Blank12
Blank10 == x10 = None /\ Blank11
Blank9 == x9 = None /\ Blank10
Blank8 == x8 = None /\ Blank9
Blank7 == x7 = None /\ Blank8
Blank6 == x6 = None /\ Blank7
Blank5 == x5 = None /\ Blank6
Blank1 == x1 = None /\ x2 = None /\ x3 = None /\ x4 = None /\ Blank5

allVars == <<focus, vars, Rest1>>

MCInit ==
    /\ Init
    /\ \/ focus = "outbox" /\ Blank1
       \/ focus = "refunds" /\ Refunds!Init /\ Blank13
       \/ focus = "charges" /\ Charges!Init /\ Blank13
       \/ focus = "atm" /\ Bank!Init /\ Blank12
       \/ focus = "inventory" /\ Stock!Init /\ Blank11
       \/ focus = "reorder" /\ Reorder!Init /\ Blank11
       \/ focus = "rental" /\ Rental!Init /\ Blank7
       \/ focus = "cabs" /\ Cabs!Init /\ Blank6
       \/ focus = "rider" /\ Rider!Init /\ Blank6
       \/ focus = "food" /\ Food!Init /\ Blank9
       \/ focus = "taps" /\ Taps!Init /\ Blank9
       \/ focus = "upload" /\ Chunked!Init
       \/ focus = "rot" /\ Rotting!Init
       \/ focus = "quota" /\ Quotas!Init
       \/ focus = "vending" /\ Vendor!Init /\ Blank9
       \/ focus = "parking" /\ Lot!Init /\ Blank5
       \/ focus = "library" /\ Branch!Init /\ Blank7
       \/ focus = "splitwise" /\ Group!Init /\ Blank5
       \/ focus = "snakes" /\ Ladders!Init /\ Blank8
       \/ focus = "chess" /\ Game!Init /\ Blank10
       \/ focus = "bot" /\ Minimax!Init /\ Blank7
       \/ focus = "board" /\ Board!Init /\ Blank7

Within(f) == focus = f /\ UNCHANGED focus

MCNext ==
    \/ Within("outbox") /\ Next /\ UNCHANGED Rest1
    \/ Within("refunds") /\ Refunds!Next /\ UNCHANGED <<vars, Rest13>>
    \/ Within("charges") /\ Charges!Next /\ UNCHANGED <<vars, Rest13>>
    \/ Within("atm") /\ Bank!Next /\ UNCHANGED <<vars, Rest12>>
    \/ Within("inventory") /\ Stock!Next /\ UNCHANGED <<vars, Rest11>>
    \/ Within("reorder") /\ Reorder!Next /\ UNCHANGED <<vars, Rest11>>
    \/ Within("rental") /\ Rental!Next /\ UNCHANGED <<vars, Rest7>>
    \/ Within("cabs") /\ Cabs!Next /\ UNCHANGED <<vars, Rest6>>
    \/ Within("rider") /\ Rider!Next /\ UNCHANGED <<vars, Rest6>>
    \/ Within("food") /\ Food!Next /\ UNCHANGED <<vars, Rest9>>
    \/ Within("taps") /\ Taps!Next /\ UNCHANGED <<vars, Rest9>>
    \/ Within("upload") /\ Chunked!Next /\ UNCHANGED vars
    \/ Within("rot") /\ Rotting!Next /\ UNCHANGED vars
    \/ Within("quota") /\ Quotas!Next /\ UNCHANGED vars
    \/ Within("vending") /\ Vendor!Next /\ UNCHANGED <<vars, Rest9>>
    \/ Within("parking") /\ Lot!Next /\ UNCHANGED <<vars, Rest5>>
    \/ Within("library") /\ Branch!Next /\ UNCHANGED <<vars, Rest7>>
    \/ Within("splitwise") /\ Group!Next /\ UNCHANGED <<vars, Rest5>>
    \/ Within("snakes") /\ Ladders!Next /\ UNCHANGED <<vars, Rest8>>
    \/ Within("chess") /\ Game!Next /\ UNCHANGED <<vars, Rest10>>
    \/ Within("bot") /\ Minimax!Next /\ UNCHANGED <<vars, Rest7>>
    \/ Within("board") /\ Board!Next /\ UNCHANGED <<vars, Rest7>>

MCSpec == MCInit /\ [][MCNext]_allVars
----------------------------------------------------------------------------
\* What the theorems assume of the parameters.
ASSUME PaymentParams == Params /\ Refunds!Params /\ Charges!Params
ASSUME CabParams == Cabs!Params /\ Rider!Params

\* Two merchants that use the same idempotency key.
Shared == INSTANCE Payment WITH
    status <- x1, refund <- x2, gwCharge <- x3, gwRefund <- x4, charged <- x5,
    refunded <- x6, job <- x7, todo <- x8, events <- x9, pending <- x10,
    relay <- x11, published <- x12, Pay <- {"p1", "p2"}, Key <- {"k1", "k2"},
    RKey <- {}, KeyOf <- [p \in {"p1", "p2"} |-> "k1"],
    Amount <- [p \in {"p1", "p2"} |-> 3], RAmount <- <<>>, Declined <- {},
    RDeclined <- {}, Thread <- {"t1"}, Relay <- {}, MaxAttempts <- 1,
    MaxPublished <- 0

SharedSpec ==
    /\ focus = "shared" /\ Init /\ Shared!Init /\ Blank13
    /\ [][Within("shared") /\ Shared!Next /\ UNCHANGED <<vars, Rest13>>]_allVars
----------------------------------------------------------------------------
Holds(f, P) == focus = f => P

\* payment_processing.py, the comment of pay, "idempotent on (merchant_id,
\* idempotency_key)": a settled payment was charged once, a failed one never.
ChargedWhenShared == Shared!ChargeIsReal

\* No money appears or vanishes, whatever jams, lapses, is retried or is taken
\* back.  payment_processing.py: a declined charge or refund beside others is
\* what the provider says, and four refunds never repay more than the charge.
\* atm_banking.py: balances and holds are what the ledger says, the cash
\* handed out is what was debited, daily totals are the card's own, and no two
\* transfers wait for each other.  vending_machine.py: cash box, escrow and
\* captured payments match the sales, and change takes the fewest coins there
\* are.  splitwise_expense.py: balances are the history's, shares add up to the
\* cent, and both plans settle every debt.  parking_lot.py: a ticket's fee is
\* that of the time parked.
MoneyAccounted ==
    /\ Holds("refunds", Refunds!TypeOK /\ Refunds!ProviderAgrees /\ Refunds!RefundsExact)
    /\ Holds("charges", Charges!TypeOK /\ Charges!ProviderAgrees /\ Charges!RefundsExact)
    /\ Holds("atm", /\ Bank!TypeOK /\ Bank!BooksBalance /\ Bank!CashMatchesDebits
                    /\ Bank!LimitsAccounted /\ Bank!TransfersNeverStuck)
    /\ Holds("vending", /\ Vendor!TypeOK /\ Vendor!MoneyKept
                        /\ Vendor!PaidIsDropped /\ Vendor!ChangeIsFewest)
    /\ Holds("splitwise", /\ Group!TypeOK /\ Group!LedgerIsHistory
                          /\ Group!SharesExact /\ Group!PlansSettle)
    /\ Holds("parking", Lot!FeeExact)

\* What there is one of goes to one customer.  inventory_management.py: units
\* are on hand or arriving, reserved units belong to live reservations, and an
\* order is allocated iff the shelves hold it.  car_rental.py: no two blocks of
\* a vehicle overlap, and gaps are found exactly.  cab_booking.py: a driver, and
\* a rider, is on one trip, and nobody is offered a trip twice.
\* food_delivery.py: one order per key, partners' books match their orders, and
\* a refund follows exactly the orders that ended without food.
\* library_management.py: a copy is on the shelf, lent, held or lost, and the
\* queue is served first.  parking_lot.py: the free lists are the free spots.
NothingSoldTwice ==
    /\ Holds("inventory", Stock!TypeOK /\ Stock!UnitsAccounted /\ Stock!AllocationExact)
    /\ Holds("reorder", Reorder!TypeOK /\ Reorder!UnitsAccounted)
    /\ Holds("rental", Rental!TypeOK /\ Rental!NoDoubleBooking /\ Rental!GapsExact)
    /\ Holds("cabs", Cabs!TypeOK /\ Cabs!DriverOfOne /\ Cabs!NeverOfferedTwice)
    /\ Holds("rider", Rider!TypeOK /\ Rider!DriverOfOne /\ Rider!RiderOfOne)
    /\ Holds("food", /\ Food!TypeOK /\ Food!PlacedOnce /\ Food!PartnerBooks /\ Food!RefundExact)
    /\ Holds("taps", Taps!TypeOK /\ Taps!PlacedOnce)
    /\ Holds("library", Branch!TypeOK /\ Branch!CopiesAccounted /\ Branch!QueueServed)
    /\ Holds("parking", Lot!TypeOK /\ Lot!IndexesMatch)


\* The games.  chess_game.py: no move leaves one's own king in check, undo
\* restores position, clock and repetition counts, and the status is the one
\* the position calls for.  tic_tac_toe.py: the counters find a winner iff a
\* line is full, and the bot never loses.  snakes_and_ladders.py: tokens rest
\* where no jump begins, and turns pass on except after doubles.
GamesByTheRules ==
    /\ Holds("chess", Game!TypeOK /\ Game!KingsSafe /\ Game!UndoExact /\ Game!StatusFits)
    /\ Holds("bot", Minimax!TypeOK /\ Minimax!WinnerIsLine /\ Minimax!BotUnbeaten)
    /\ Holds("board", Board!TypeOK /\ Board!WinnerIsLine)
    /\ Holds("snakes", Ladders!TypeOK /\ Ladders!TokensRest /\ Ladders!TurnsFair)

\* parking_lot.py, find_available_spot: a vehicle gets the smallest type it fits, on the
\* lowest floor that has one.  library_management.py, borrow and renew: a loan
\* is begun or extended only for those the rules allow.  payment_processing.py,
\* transition: a payment makes the moves of ALLOWED_TRANSITIONS only.
RulesKept ==
    [][/\ focus = "refunds" => Refunds!AllowedMoves
       /\ focus = "charges" => Charges!AllowedMoves
       /\ focus = "parking" => Lot!BestFit
       /\ focus = "library" => Branch!LendingRules]_allVars
=============================================================================
