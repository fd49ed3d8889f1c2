----------------------------- MODULE Splitwise ------------------------------
(***************************************************************************)
(* python-low-level-design/splitwise-expense-sharing: allocate splits an   *)
(* amount to the cent, a group's ledger keeps running balances of expenses *)
(* and payments, and two strategies plan transfers that settle them.  One  *)
(* lock makes each call atomic.  There is one group; amounts are cents and *)
(* users are numbers, compared as the heaps compare their ids.             *)
(***************************************************************************)
EXTENDS Integers, Sequences, SequencesExt, FiniteSets, FiniteSetsExt, Functions

CONSTANTS
    User,
    Offer,              \* expenses that may be added: payer, amount, weights per participant
    Amount,             \* amounts of payments
    MaxEntries          \* bound on expenses and on payments

VARIABLES
    members,
    expenses,   \* _expenses with their shares
    payments,   \* _payments
    net         \* the group's BalanceSheet

vars == <<members, expenses, payments, net>>

Total(f) == FoldFunction(+, 0, f)
Init == members = User /\ expenses = <<>> /\ payments = <<>> /\ net = [u \in User |-> 0]
----------------------------------------------------------------------------
\* The part of a cent that rounding down takes from a participant, scaled.
Remainder(total, weights, u) == (total * weights[u]) % Total(weights)

\* allocate: floors, then a cent each to the largest remainders, ties by position.
Allocate(total, weights) ==
    LET floors == [u \in DOMAIN weights |-> (total * weights[u]) \div Total(weights)]
        leftover == total - Total(floors)
        ahead(u) == {v \in DOMAIN weights :
                        \/ Remainder(total, weights, v) > Remainder(total, weights, u)
                        \/ Remainder(total, weights, v) = Remainder(total, weights, u) /\ v < u}
    IN  [u \in DOMAIN weights |-> floors[u] + IF Cardinality(ahead(u)) < leftover THEN 1 ELSE 0]
----------------------------------------------------------------------------
ShareOf(e, u) == IF u \in DOMAIN e.shares THEN e.shares[u] ELSE 0

\* apply_expense, with its sign
Applied(e, sign) == [u \in User |-> net[u] + sign * ((IF u = e.payer THEN e.amount ELSE 0) - ShareOf(e, u))]

\* add_expense: all of them must be members.
AddExpense(o) ==
    LET e == [payer |-> o.payer, amount |-> o.amount, shares |-> Allocate(o.amount, o.weights)]
    IN  /\ {o.payer} \cup DOMAIN o.weights \subseteq members /\ Len(expenses) < MaxEntries
        /\ expenses' = Append(expenses, e) /\ net' = Applied(e, 1)
        /\ UNCHANGED <<members, payments>>

Reversed(e) == Applied(e, -1)

DeleteExpense(i) ==
    /\ i \in 1..Len(expenses) /\ expenses' = RemoveAt(expenses, i) /\ net' = Reversed(expenses[i])
    /\ UNCHANGED <<members, payments>>

RecordPayment(from, to, amount) ==
    /\ from # to /\ {from, to} \subseteq members /\ Len(payments) < MaxEntries
    /\ payments' = Append(payments, [from |-> from, to |-> to, amount |-> amount])
    /\ net' = [net EXCEPT ![from] = @ + amount, ![to] = @ - amount]
    /\ UNCHANGED <<members, expenses>>

RemoveMember(u) ==
    /\ u \in members /\ net[u] = 0 /\ members' = members \ {u} /\ UNCHANGED <<expenses, payments, net>>
AddMember(u) ==
    /\ u \notin members /\ members' = members \cup {u} /\ UNCHANGED <<expenses, payments, net>>

Next ==
    \/ \E o \in Offer : AddExpense(o)
    \/ \E i \in 1..MaxEntries : DeleteExpense(i)
    \/ \E from, to \in User, a \in Amount : RecordPayment(from, to, a)
    \/ \E u \in User : RemoveMember(u) \/ AddMember(u)

Spec == Init /\ [][Next]_vars
----------------------------------------------------------------------------
\* The amount that passes between a debtor and a creditor.
Matched(b, d, c) == Min({-b[d], b[c]})

\* GreedySettlement: one transfer between the largest debtor and creditor.
GreedyStep(s) ==
    LET b == s.left
        d == CHOOSE u \in DOMAIN b : \A v \in DOMAIN b : b[u] < b[v] \/ (b[u] = b[v] /\ u <= v)
        c == CHOOSE u \in DOMAIN b : \A v \in DOMAIN b : b[u] > b[v] \/ (b[u] = b[v] /\ u <= v)
        cents == Matched(b, d, c)
    IN  IF \A u \in DOMAIN b : b[u] = 0 THEN s
        ELSE [left |-> [b EXCEPT ![d] = @ + cents, ![c] = @ - cents],
              plan |-> Append(s.plan, [debtor |-> d, creditor |-> c, amount |-> cents])]

Greedy(b) == LET run[n \in 0..2 * Cardinality(DOMAIN b)] ==
                    IF n = 0 THEN [left |-> b, plan |-> <<>>] ELSE GreedyStep(run[n - 1])
             IN  run[2 * Cardinality(DOMAIN b)]

SumOver(b, S) == Total(Restrict(b, S))
Settles(b, S) == IF SumOver(b, S) = 0 THEN 1 ELSE 0

\* OptimalSettlement: most subgroups that settle among themselves, per set.
BestOf(b, best, S) == Max({best[S \ {u}] : u \in S}) + Settles(b, S)

\* The walk back through the table: whom to take out of each set.
Optimal(b) ==
    LET people == {u \in DOMAIN b : b[u] # 0}
        best[S \in SUBSET people] == IF S = {} THEN 0 ELSE BestOf(b, best, S)
        taken(S) == Min({u \in S : best[S \ {u}] = best[S] - Settles(b, S)})
        walk[n \in 0..Cardinality(people)] ==
            IF n = 0 THEN [mask |-> people, group |-> {}, plan |-> <<>>]
            ELSE LET w == walk[n - 1]
                     u == taken(w.mask)
                     mask == w.mask \ {u}
                     group == w.group \cup {u}
                 IN  IF mask = {} \/ SumOver(b, mask) = 0
                     THEN [mask |-> mask, group |-> {}, plan |-> w.plan \o Greedy(Restrict(b, group)).plan]
                     ELSE [mask |-> mask, group |-> group, plan |-> w.plan]
    IN  walk[Cardinality(people)].plan
----------------------------------------------------------------------------
TypeOK == members \subseteq User /\ \A u \in User : net[u] \in Int

\* BalanceSheet: running balances are what all expenses that stand and all
\* payments add up to, and money is neither made nor lost in the group.
LedgerIsHistory ==
    /\ Total(net) = 0
    /\ \A u \in User : net[u] =
          FoldLeft(LAMBDA n, e : n + (IF e.payer = u THEN e.amount ELSE 0) - ShareOf(e, u), 0, expenses)
        + FoldLeft(LAMBDA n, p : n + (IF p.from = u THEN p.amount ELSE 0) - (IF p.to = u THEN p.amount ELSE 0), 0, payments)

\* allocate: "Result sums to total_cents exactly", every share is within a cent
\* of its exact value, and no one with a smaller remainder is favoured.
Fair(shares, o) ==
    LET w == Total(o.weights)
        over == [u \in DOMAIN o.weights |-> shares[u] * w - o.amount * o.weights[u]]
    IN  /\ DOMAIN shares = DOMAIN o.weights /\ Total(shares) = o.amount
        /\ \A u \in DOMAIN over : over[u] < w /\ over[u] > -w
        /\ \A u, v \in DOMAIN over : over[u] > 0 /\ over[v] < 0 => over[u] <= w + over[v]
SharesExact ==
    \A i \in DOMAIN expenses : \E o \in Offer :
        o.payer = expenses[i].payer /\ o.amount = expenses[i].amount /\ Fair(expenses[i].shares, o)

\* What is left of balances after a plan.
After(b, plan) == FoldLeft(LAMBDA x, t : [x EXCEPT ![t.debtor] = @ + t.amount, ![t.creditor] = @ - t.amount], b, plan)
NonZero(b) == {u \in DOMAIN b : b[u] # 0}

\* Ways to split people into subgroups that settle among themselves.
Partitions(b) == {P \in SUBSET {S \in SUBSET NonZero(b) : S # {} /\ SumOver(b, S) = 0} :
                    UNION P = NonZero(b) /\ \A S, T \in P : S = T \/ S \cap T = {}}

\* settle: both plans leave nobody owing, the greedy one in fewer transfers than
\* there are people, the optimal one in as few as any plan needs.
PlansSettle ==
    LET n == Cardinality(NonZero(net)) g == Greedy(net).plan o == Optimal(net)
    IN  /\ \A u \in User : After(net, g)[u] = 0 /\ After(net, o)[u] = 0
        /\ n > 0 => Len(g) <= n - 1
        /\ Len(o) = n - Max({Cardinality(P) : P \in Partitions(net)})

=============================================================================
