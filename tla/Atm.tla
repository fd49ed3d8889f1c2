------------------------------- MODULE Atm -------------------------------
(***************************************************************************)
(* The bank and the machines of python-low-level-design/atm-banking-system *)
(* A cash withdrawal is a reservation of the card's daily limit, a hold on *)
(* the account, the dispenser, and a capture or a reversal, each under its *)
(* own lock; a transfer takes two account locks one after the other, under *)
(* a request id that callers may repeat.                                   *)
(*                                                                         *)
(* Requests of a machine have fresh ids and never meet the idempotency     *)
(* table.  Statements, balances on the screen, the hashing of PINs and     *)
(* account opening are left out.                                           *)
(***************************************************************************)
EXTENDS Integers, FiniteSets, FiniteSetsExt

CONSTANTS
    Account,        \* account numbers, as integers in their order
    Initial,        \* opening balances
    Floor,          \* min_balance, or minus the overdraft or credit limit
    Card, Owned,    \* the accounts of each card's holder
    DailyLimit, Expiry,
    Machine, Denomination, Loaded,    \* notes put into a dispenser
    Amount,         \* amounts customers ask for
    Client, Order,  \* transfers [id, from, to, amount] that clients may call
    MaxPinAttempts,
    MaxOps, MaxDay, \* bounds: operations per machine, days
    None

VARIABLES
    balance, held,  \* Account._balance and _held
    lock,           \* the client that holds each account's lock over a step
    used,           \* _withdrawn_today
    attempts,       \* Card._failed_attempts
    ledger,         \* _transactions, by the request that made them
    requests,       \* _requests
    machine,        \* the ATM's session and the withdrawal under way
    notes,          \* the notes in each dispenser
    client,         \* the transfer each client is in
    day

vars == <<balance, held, lock, used, attempts, ledger, requests, machine, notes, client, day>>
bank == <<balance, held, lock, ledger, requests, client>>

Id == {o.id : o \in Order}
Session == [state |-> "IDLE", card |-> None, account |-> None, outOfCash |-> FALSE,
            seq |-> 0, step |-> "none", amount |-> 0, plan |-> None, day |-> 0]
NoTransfer == [order |-> None, step |-> "none"]

Init ==
    /\ balance = Initial /\ held = [a \in Account |-> 0] /\ lock = [a \in Account |-> None]
    /\ used = [c \in Card |-> [d \in 0..MaxDay |-> 0]] /\ attempts = [c \in Card |-> 0]
    /\ ledger = {} /\ requests = [i \in Id |-> None]
    /\ machine = [m \in Machine |-> Session] /\ notes = [m \in Machine |-> Loaded]
    /\ client = [c \in Client |-> NoTransfer] /\ day = 0

Worth(bundle) == MapThenSumSet(LAMBDA d : d * bundle[d], Denomination)
Count(bundle) == MapThenSumSet(LAMBDA d : bundle[d], Denomination)
Withdrawable(a) == Max({0, balance[a] - held[a] - Floor[a]})
Blocked(c) == attempts[c] >= MaxPinAttempts
Valid(c) == ~Blocked(c) /\ day <= Expiry[c]
Open(m, state) == machine[m].state = state /\ machine[m].step = "none"
Request(m) == <<m, machine[m].seq>>
MyTx(m) == CHOOSE t \in ledger : t.request = Request(m)
Settled(tx, status) == (ledger \ {tx}) \cup {[tx EXCEPT !.status = status]}

\* The machine goes on, or (step "none") is done with the withdrawal.
Go(m, step) == machine' = [machine EXCEPT ![m].step = step]

EndSession(m) ==
    machine' = [machine EXCEPT ![m] = [Session EXCEPT
        !.seq = machine[m].seq, !.outOfCash = machine[m].outOfCash,
        !.state = IF machine[m].outOfCash THEN "OUT_OF_SERVICE" ELSE "IDLE"]]
----------------------------------------------------------------------------
InsertCard(m, c) ==
    /\ Open(m, "IDLE") /\ Valid(c)
    /\ machine' = [machine EXCEPT ![m].state = "CARD_INSERTED", ![m].card = c]
    /\ UNCHANGED <<bank, used, attempts, notes, day>>

\* enter_pin: a right PIN clears the count; the last wrong one blocks the card,
\* and a blocked card is retained.  An expired card stays in the machine.
EnterPin(m, right) ==
    LET c == machine[m].card
        block == Blocked(c) \/ (~right /\ attempts[c] + 1 >= MaxPinAttempts)
    IN  /\ Open(m, "CARD_INSERTED") /\ (Blocked(c) \/ day <= Expiry[c])
        /\ attempts' = [attempts EXCEPT ![c] = IF Blocked(c) THEN @ ELSE IF right THEN 0 ELSE @ + 1]
        /\ \/ block /\ EndSession(m)
           \/ ~block /\ ~right /\ UNCHANGED machine
           \/ /\ ~block /\ right
              /\ machine' = [machine EXCEPT ![m].state = "AUTHENTICATED",
                                            ![m].account = Min(Owned[c])]
        /\ UNCHANGED <<bank, used, notes, day>>

SelectAccount(m, a) ==
    /\ Open(m, "AUTHENTICATED") /\ Valid(machine[m].card) /\ a \in Owned[machine[m].card]
    /\ machine' = [machine EXCEPT ![m].account = a]
    /\ UNCHANGED <<bank, used, attempts, notes, day>>

EjectCard(m) ==
    /\ Open(m, "CARD_INSERTED") \/ Open(m, "AUTHENTICATED")
    /\ EndSession(m)
    /\ UNCHANGED <<bank, used, attempts, notes, day>>

TakeOffline(m) ==
    /\ Open(m, "IDLE")
    /\ machine' = [machine EXCEPT ![m].state = "OUT_OF_SERVICE"]
    /\ UNCHANGED <<bank, used, attempts, notes, day>>

Restock(m) ==
    /\ Open(m, "IDLE") \/ Open(m, "OUT_OF_SERVICE")
    /\ Count(notes[m]) < Count(Loaded)                  \* bound
    /\ notes' = [notes EXCEPT ![m] = [d \in Denomination |-> @[d] + Loaded[d]]]
    /\ machine' = [machine EXCEPT ![m].state = "IDLE", ![m].outOfCash = FALSE]
    /\ UNCHANGED <<bank, used, attempts, day>>
----------------------------------------------------------------------------
\* CashDispenser.plan: a selection of the notes in stock with the fewest notes.
\* Which of several equally short ones does not matter.
Plans(m, amount) ==
    LET makes == {p \in [Denomination -> 0..Max({notes[m][d] : d \in Denomination})] :
                     Worth(p) = amount /\ \A d \in Denomination : p[d] <= notes[m][d]}
    IN  {p \in makes : \A q \in makes : Count(p) <= Count(q)}

\* withdraw, up to the daily limit: the plan, the claim, the card.
WithdrawBegin(m, amount) ==
    /\ Open(m, "AUTHENTICATED") /\ machine[m].seq < MaxOps
    /\ Valid(machine[m].card)
    /\ \E p \in Plans(m, amount) :
          machine' = [machine EXCEPT ![m].seq = @ + 1, ![m].amount = amount, ![m].plan = p,
                                     ![m].day = day, ![m].step = "reserve"]
    /\ UNCHANGED <<bank, used, attempts, notes, day>>

WithinLimit(c, d, amount) == used[c][d] + amount <= DailyLimit

\* _reserve_daily under its lock; LimitExceededError ends the withdrawal.
Reserve(m) ==
    LET s == machine[m]
        ok == WithinLimit(s.card, s.day, s.amount)
    IN  /\ s.step = "reserve"
        /\ used' = IF ok THEN [used EXCEPT ![s.card][s.day] = @ + s.amount] ELSE used
        /\ Go(m, IF ok THEN "hold" ELSE "none")
        /\ UNCHANGED <<bank, attempts, notes, day>>

\* Account._require.
Covered(a, amount) == amount <= Withdrawable(a)

\* _hold and _record under the account lock.
Hold(m) ==
    LET s == machine[m]
        ok == Covered(s.account, s.amount)
    IN  /\ s.step = "hold" /\ lock[s.account] = None
        /\ held' = IF ok THEN [held EXCEPT ![s.account] = @ + s.amount] ELSE held
        /\ ledger' = IF ~ok THEN ledger ELSE ledger \cup
              {[request |-> Request(m), kind |-> "WITHDRAWAL", account |-> s.account, to |-> None,
                amount |-> s.amount, status |-> "PENDING", card |-> s.card, day |-> day]}
        /\ Go(m, IF ok THEN "dispense" ELSE "unreserve")
        /\ UNCHANGED <<balance, lock, requests, client, used, attempts, notes, day>>

\* InsufficientFundsError: the reservation is given back.
Unreserve(m) ==
    LET s == machine[m]
    IN  /\ s.step = "unreserve"
        /\ used' = [used EXCEPT ![s.card][s.day] = @ - s.amount]
        /\ Go(m, "none")
        /\ UNCHANGED <<bank, attempts, notes, day>>

\* dispense: the notes come out, or the hardware jams before any moved.
Dispense(m) ==
    /\ machine[m].step = "dispense"
    /\ \/ /\ \A d \in Denomination : machine[m].plan[d] <= notes[m][d]
          /\ notes' = [notes EXCEPT ![m] = [d \in Denomination |-> @[d] - machine[m].plan[d]]]
          /\ Go(m, "capture")
       \/ UNCHANGED notes /\ Go(m, "reverse")
    /\ UNCHANGED <<bank, used, attempts, day>>

\* capture under the account lock, then the look at what is left to pay out.
Capture(m) ==
    LET tx == MyTx(m)
    IN  /\ machine[m].step = "capture" /\ lock[tx.account] = None
        /\ held' = [held EXCEPT ![tx.account] = @ - tx.amount]
        /\ balance' = [balance EXCEPT ![tx.account] = @ - tx.amount]
        /\ ledger' = Settled(tx, "COMPLETED")
        /\ machine' = [machine EXCEPT ![m].step = "none", ![m].outOfCash = @ \/ Worth(notes[m]) = 0]
        /\ UNCHANGED <<lock, requests, client, used, attempts, notes, day>>

\* Fault: a jam is settled as if the cash had come out.
ReverseCaptures(a, amount) == held' = [held EXCEPT ![a] = @ - amount]
                              /\ balance' = [balance EXCEPT ![a] = @ - amount]

\* _release_hold.
ReleaseHold(a, amount) == held' = [held EXCEPT ![a] = @ - amount] /\ UNCHANGED balance

\* reverse: first the hold, then the daily total, of the day on the record.
Reverse(m) ==
    LET tx == MyTx(m)
    IN  /\ machine[m].step = "reverse" /\ lock[tx.account] = None
        /\ ReleaseHold(tx.account, tx.amount)
        /\ ledger' = Settled(tx, "REVERSED")
        /\ Go(m, "release")
        /\ UNCHANGED <<lock, requests, client, used, attempts, notes, day>>

Release(m) ==
    LET tx == MyTx(m)
    IN  /\ machine[m].step = "release"
        /\ used' = [used EXCEPT ![tx.card][tx.day] = @ - tx.amount]
        /\ Go(m, "none")
        /\ UNCHANGED <<bank, attempts, notes, day>>

Deposit(m, amount) ==
    LET a == machine[m].account
    IN  /\ Open(m, "AUTHENTICATED") /\ machine[m].seq < MaxOps /\ lock[a] = None
        /\ balance' = [balance EXCEPT ![a] = @ + amount]
        /\ machine' = [machine EXCEPT ![m].seq = @ + 1]
        /\ ledger' = ledger \cup
              {[request |-> <<m, machine[m].seq + 1>>, kind |-> "DEPOSIT", account |-> a, to |-> None,
                amount |-> amount, status |-> "COMPLETED", card |-> None, day |-> day]}
        /\ UNCHANGED <<held, lock, requests, client, used, attempts, notes, day>>
----------------------------------------------------------------------------
\* _idempotent, the claim.  A known or running id moves nothing.
TransferBegin(c, o) ==
    /\ client[c] = NoTransfer /\ requests[o.id] = None
    /\ requests' = [requests EXCEPT ![o.id] = "IN_FLIGHT"]
    /\ client' = [client EXCEPT ![c] = [order |-> o, step |-> "first"]]
    /\ UNCHANGED <<balance, held, lock, ledger, used, attempts, machine, notes, day>>

\* sorted by account number.
LockOrder(o) == <<Min({o.from, o.to}), Max({o.from, o.to})>>

NextLock(c) == LockOrder(client[c].order)[IF client[c].step = "first" THEN 1 ELSE 2]

LockAccount(c) ==
    LET a == NextLock(c)
    IN  /\ client[c].step \in {"first", "second"} /\ lock[a] = None
        /\ lock' = [lock EXCEPT ![a] = c]
        /\ client' = [client EXCEPT ![c].step = IF @ = "first" THEN "second" ELSE "move"]
        /\ UNCHANGED <<balance, held, ledger, requests, used, attempts, machine, notes, day>>

\* transfer with both locks: debit, credit and the two records, or a refusal.
Transfer(c) ==
    LET o == client[c].order
        ok == Covered(o.from, o.amount)
    IN  /\ client[c].step = "move"
        /\ balance' = IF ok THEN [balance EXCEPT ![o.from] = @ - o.amount, ![o.to] = @ + o.amount]
                      ELSE balance
        /\ ledger' = IF ~ok THEN ledger ELSE ledger \cup
              {[request |-> <<o.id, 0>>, kind |-> "TRANSFER", account |-> o.from, to |-> o.to,
                amount |-> o.amount, status |-> "COMPLETED", card |-> None, day |-> day]}
        /\ lock' = [a \in Account |-> IF lock[a] = c THEN None ELSE lock[a]]
        /\ client' = [client EXCEPT ![c].step = IF ok THEN "remember" ELSE "forget"]
        /\ UNCHANGED <<held, requests, used, attempts, machine, notes, day>>

\* What a finished call leaves in _requests: the result, or nothing after a failure.
Afterwards(c) == IF client[c].step = "remember" THEN client[c].order ELSE None

TransferEnd(c) ==
    /\ client[c].step \in {"remember", "forget"}
    /\ requests' = [requests EXCEPT ![client[c].order.id] = Afterwards(c)]
    /\ client' = [client EXCEPT ![c] = NoTransfer]
    /\ UNCHANGED <<balance, held, lock, ledger, used, attempts, machine, notes, day>>

Midnight ==
    /\ day < MaxDay /\ day' = day + 1
    /\ UNCHANGED <<bank, used, attempts, machine, notes>>
----------------------------------------------------------------------------
Customer(m) ==
    \/ \E c \in Card : InsertCard(m, c)
    \/ \E right \in BOOLEAN : EnterPin(m, right)
    \/ \E a \in Account : SelectAccount(m, a)
    \/ \E x \in Amount : WithdrawBegin(m, x) \/ Deposit(m, x)
    \/ EjectCard(m) \/ TakeOffline(m) \/ Restock(m)

Withdrawal(m) ==
    Reserve(m) \/ Hold(m) \/ Unreserve(m) \/ Dispense(m) \/ Capture(m) \/ Reverse(m) \/ Release(m)

Next ==
    \/ \E m \in Machine : Customer(m) \/ Withdrawal(m)
    \/ \E c \in Client : (\E o \in Order : TransferBegin(c, o))
                         \/ LockAccount(c) \/ Transfer(c) \/ TransferEnd(c)
    \/ Midnight

Spec == Init /\ [][Next]_vars
----------------------------------------------------------------------------
Sum(Tx) == MapThenSumSet(LAMBDA t : t.amount, Tx)
Done(kind, a) == {t \in ledger : t.kind = kind /\ t.account = a /\ t.status = "COMPLETED"}
Arrived(a) == {t \in ledger : t.kind = "TRANSFER" /\ t.to = a}

TypeOK ==
    /\ balance \in [Account -> Int] /\ held \in [Account -> Nat]
    /\ lock \in [Account -> Client \cup {None}]
    /\ attempts \in [Card -> 0..MaxPinAttempts]
    /\ \A m \in Machine : (machine[m].state \in {"IDLE", "OUT_OF_SERVICE"}) = (machine[m].card = None)

\* Bank.capture, reverse and transfer: balances are the opening balances with
\* every recorded transaction counted exactly once, however calls are repeated;
\* what is held is what is pending; and nobody gets below the account's floor,
\* although withdrawals, captures and transfers interleave.
BooksBalance ==
    \A a \in Account :
        /\ balance[a] = Initial[a] + Sum(Done("DEPOSIT", a)) + Sum(Arrived(a))
                        - Sum(Done("WITHDRAWAL", a)) - Sum(Done("TRANSFER", a))
        /\ held[a] = Sum({t \in ledger : t.account = a /\ t.status = "PENDING"})
        /\ balance[a] - held[a] >= Floor[a]

\* AuthenticatedState.withdraw: the cash that left a machine is what its
\* withdrawals debited, or are about to: no debit for cash that never came out,
\* no cash without a debit.
CashMatchesDebits ==
    \A m \in Machine :
        LET mine == {t \in ledger : t.kind = "WITHDRAWAL" /\ t.request[1] = m}
            out == {t \in mine : t.status = "COMPLETED"
                                 \/ (t.request = Request(m) /\ machine[m].step = "capture")}
        IN  (Worth(notes[m]) + Sum(out)) % Worth(Loaded) = 0

\* _reserve_daily: over all days, a card's total is what it withdrew, holds or
\* has just reserved; nothing reserved is lost or given back twice.
LimitsAccounted ==
    \A c \in Card :
        MapThenSumSet(LAMBDA d : used[c][d], 0..MaxDay) =
            Sum({t \in ledger : t.card = c /\ t.status \in {"PENDING", "COMPLETED"}})
            + MapThenSumSet(LAMBDA m : IF machine[m].card = c
                                          /\ machine[m].step \in {"hold", "unreserve", "release"}
                                       THEN machine[m].amount ELSE 0, Machine)

\* transfer: whenever clients want account locks, one of them can go on.
TransfersNeverStuck ==
    LET waiting == {c \in Client : client[c].step \in {"first", "second"}}
    IN  waiting # {} => \E c \in Client : client[c].step = "move"
                                          \/ (c \in waiting /\ lock[NextLock(c)] = None)

==========================================================================
