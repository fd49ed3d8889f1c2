------------------------------ MODULE Payment ------------------------------
(***************************************************************************)
(* PaymentService of python-low-level-design/payment-processing-system:    *)
(* idempotent charges and refunds over a gateway that may time out before  *)
(* or after it moved the money, reconciliation of unknown outcomes, and a  *)
(* transactional outbox.                                                   *)
(*                                                                         *)
(* A payment object is identified by what _by_key maps to it, its merchant *)
(* and idempotency key; only the key reaches the gateway (KeyOf).  A       *)
(* refund is identified by its payment and refund key.  Critical sections  *)
(* and gateway calls are the actions.  Requests that are rejected change   *)
(* nothing: validation errors, unknown ids, a key reused for another       *)
(* request, a duplicate while the first is in flight, a refund above the   *)
(* refundable amount.  Risk rules are a choice to reject.                  *)
(***************************************************************************)
EXTENDS Naturals, FiniteSets, Sequences, SequencesExt, Functions

CONSTANTS
    Pay,           \* payments, one per (merchant, idempotency key)
    Key,           \* idempotency keys as the gateway sees them
    RKey,          \* refund idempotency keys
    KeyOf,         \* the key of each payment
    Amount,        \* amount of each payment, in minor units
    RAmount,       \* amount asked for under each refund key
    Declined,      \* payments whose token the provider declines
    RDeclined,     \* refund keys the provider declines
    Thread,        \* service threads
    Relay,         \* threads in Outbox.relay
    MaxAttempts,   \* RetryPolicy.max_attempts
    MaxPublished,  \* bound: events handed to the broker
    None

\* Validation refuses an amount that is not positive; a retry policy calls
\* the gateway at least once.
Params ==
    /\ KeyOf \in [Pay -> Key]
    /\ Amount \in [Pay -> Nat \ {0}]
    /\ RAmount \in [RKey -> Nat \ {0}]
    /\ IsFiniteSet(RKey)
    /\ MaxAttempts \in Nat \ {0}

VARIABLES
    status,       \* Payment.status; "ABSENT" before pay creates it
    refund,       \* Refund.status by payment and refund key
    gwCharge,     \* the gateway's stored result for each charge key
    gwRefund,     \* the gateway's stored result for each refund key
    charged,      \* history: charges the gateway made for each payment
    refunded,     \* history: refunds the gateway made for each payment and key
    job,          \* the gateway operation each thread is in
    todo,         \* the rest of a reconcile
    events,       \* every event appended to the outbox, by event id
    pending,      \* ids in Outbox._pending
    relay,        \* the rest of each relay's batch, and whether publish is done
    published     \* ids handed to the broker, in order

gwVars  == <<gwCharge, gwRefund, charged, refunded>>
boxVars == <<events, pending, relay, published>>
vars == <<status, refund, gwVars, job, todo, boxVars>>

REFUNDABLE == {"SUCCEEDED", "PARTIALLY_REFUNDED"}
ALLOWED_TRANSITIONS ==
    [PROCESSING |-> {"SUCCEEDED", "FAILED", "UNKNOWN"},
     UNKNOWN |-> {"SUCCEEDED", "FAILED"},
     SUCCEEDED |-> {"PARTIALLY_REFUNDED", "REFUNDED"},
     PARTIALLY_REFUNDED |-> {"PARTIALLY_REFUNDED", "REFUNDED"},
     FAILED |-> {}, REFUNDED |-> {}]
\* A gateway operation: what it charges or refunds, the attempt it is at.
Job(op, p, k, attempt, step, result) ==
    [op |-> op, pay |-> p, rkey |-> k, attempt |-> attempt, step |-> step, result |-> result]
At(j, attempt, step, result) == Job(j.op, j.pay, j.rkey, attempt, step, result)
NoJob == Job("none", None, None, 0, "none", "none")
Charge(p) == Job("charge", p, None, 1, "calling", "none")
RefundJob(p, k) == Job("refund", p, k, 1, "calling", "none")
Idle(t) == job[t] = NoJob /\ todo[t] = {}

Init ==
    /\ status = [p \in Pay |-> "ABSENT"]
    /\ refund = [p \in Pay |-> [k \in RKey |-> "ABSENT"]]
    /\ gwCharge = [k \in Key |-> "none"] /\ gwRefund = [k \in RKey |-> "none"]
    /\ charged = [p \in Pay |-> 0] /\ refunded = [p \in Pay |-> [k \in RKey |-> 0]]
    /\ job = [t \in Thread |-> NoJob] /\ todo = [t \in Thread |-> {}]
    /\ events = <<>> /\ pending = {} /\ published = <<>>
    /\ relay = [r \in Relay |-> [batch |-> <<>>, sent |-> FALSE]]

\* Outbox.append.
Emit(e) ==
    /\ events' = Append(events, e)
    /\ pending' = pending \cup {Len(events) + 1}
    /\ UNCHANGED <<relay, published>>
----------------------------------------------------------------------------
\* Sum of a payment's refunds with the given status.
Total(p, st) ==
    SumFunctionOnSet(RAmount, {k \in RKey : refund[p][k] = st})

\* Fault: refunds in flight are not counted.
RefundableIgnoringHolds(p) == Amount[p] - Total(p, "SUCCEEDED")

Refundable(p) == Amount[p] - Total(p, "SUCCEEDED") - Total(p, "PENDING")

\* pay: register the payment under the service lock.
PayBegin(t, p) ==
    /\ Idle(t) /\ status[p] = "ABSENT"
    /\ status' = [status EXCEPT ![p] = "PROCESSING"]
    /\ job' = [job EXCEPT ![t] = At(Charge(p), 1, "risk", "none")]
    /\ UNCHANGED <<refund, gwVars, todo, boxVars>>

\* pay: a risk rule rejects, under the payment's lock.
RiskReject(t) ==
    LET p == job[t].pay
    IN  /\ job[t].step = "risk"
        /\ status' = [status EXCEPT ![p] = "FAILED"]
        /\ Emit(<<"FAILED", p, None>>)
        /\ job' = [job EXCEPT ![t] = NoJob]
        /\ UNCHANGED <<refund, gwVars, todo>>

RiskPass(t) ==
    /\ job[t].step = "risk"
    /\ job' = [job EXCEPT ![t] = Charge(job[t].pay)]
    /\ UNCHANGED <<status, refund, gwVars, todo, boxVars>>

\* refund: check and hold the amount under the payment's lock.
RefundBegin(t, p, k) ==
    /\ Idle(t) /\ status[p] \in REFUNDABLE
    /\ refund[p][k] = "ABSENT" /\ RAmount[k] <= Refundable(p)
    /\ refund' = [refund EXCEPT ![p][k] = "PENDING"]
    /\ job' = [job EXCEPT ![t] = RefundJob(p, k)]
    /\ UNCHANGED <<status, gwVars, todo, boxVars>>

\* reconcile: what is unknown or pending now, under the service lock.
ReconcileBegin(t) ==
    LET work == {Charge(p) : p \in {q \in Pay : status[q] = "UNKNOWN"}}
                \cup {RefundJob(x[1], x[2]) : x \in {y \in Pay \X RKey :
                                                refund[y[1]][y[2]] = "PENDING"}}
    IN  /\ Idle(t) /\ work # {}
        /\ todo' = [todo EXCEPT ![t] = work]
        /\ UNCHANGED <<status, refund, gwVars, job, boxVars>>

\* reconcile: charges are re-sent before refunds.
ReconcileNext(t, j) ==
    /\ job[t] = NoJob /\ j \in todo[t]
    /\ j.op = "refund" => \A i \in todo[t] : i.op = "refund"
    /\ todo' = [todo EXCEPT ![t] = @ \ {j}]
    /\ job' = [job EXCEPT ![t] = j]
    /\ UNCHANGED <<status, refund, gwVars, boxVars>>
----------------------------------------------------------------------------
\* The provider's stored result for the key of the request.
Stored(j) == IF j.op = "charge" THEN gwCharge[KeyOf[j.pay]] ELSE gwRefund[j.rkey]

Decision(j) ==
    IF (j.op = "charge" /\ j.pay \in Declined) \/ (j.op = "refund" /\ j.rkey \in RDeclined)
    THEN "DECLINED" ELSE "APPROVED"

\* The gateway processes a request it has no result for; a known key gets
\* the first result again.
Process(j) ==
    LET new == Stored(j) = "none"
        moves == new /\ Decision(j) = "APPROVED"
    IN  /\ gwCharge' = IF new /\ j.op = "charge"
                       THEN [gwCharge EXCEPT ![KeyOf[j.pay]] = Decision(j)] ELSE gwCharge
        /\ gwRefund' = IF new /\ j.op = "refund"
                       THEN [gwRefund EXCEPT ![j.rkey] = Decision(j)] ELSE gwRefund
        /\ charged' = IF moves /\ j.op = "charge"
                      THEN [charged EXCEPT ![j.pay] = @ + 1] ELSE charged
        /\ refunded' = IF moves /\ j.op = "refund"
                       THEN [refunded EXCEPT ![j.pay][j.rkey] = @ + 1] ELSE refunded

\* Fault: one call more than the policy allows.
AgainOnceMore(j) ==
    IF j.attempt <= MaxAttempts THEN At(j, j.attempt + 1, "calling", "none")
    ELSE At(j, j.attempt, "gaveup", "none")

\* RetryPolicy.run after a failed call: again, or raise.
Again(j) ==
    IF j.attempt < MaxAttempts THEN At(j, j.attempt + 1, "calling", "none")
    ELSE At(j, j.attempt, "gaveup", "none")

\* The gateway answers.
CallAnswered(t) ==
    LET j == job[t]
    IN  /\ j.step = "calling"
        /\ Process(j)
        /\ job' = [job EXCEPT ![t] =
                     At(j, j.attempt, "answered",
                        IF Stored(j) = "none" THEN Decision(j) ELSE Stored(j))]
        /\ UNCHANGED <<status, refund, todo, boxVars>>

\* The request was processed but the answer is lost.
CallTimeoutAfter(t) ==
    /\ job[t].step = "calling"
    /\ Process(job[t])
    /\ job' = [job EXCEPT ![t] = Again(job[t])]
    /\ UNCHANGED <<status, refund, todo, boxVars>>

\* The gateway is unavailable, or the request is lost on the way.
CallLost(t) ==
    /\ job[t].step = "calling"
    /\ job' = [job EXCEPT ![t] = Again(job[t])]
    /\ UNCHANGED <<status, refund, gwVars, todo, boxVars>>
----------------------------------------------------------------------------
Done(t) == job' = [job EXCEPT ![t] = NoJob] /\ UNCHANGED <<gwVars, todo>>

\* Fault: an outcome that is not known is taken for a failure.
OutcomeFailed(p) == IF status[p] = "PROCESSING" THEN "FAILED" ELSE status[p]

\* Fault: retries that end late overwrite what another thread recorded.
OutcomeOverwritten(p) == "UNKNOWN"

\* _attempt_charge after the last failed attempt.
OutcomeUnknown(p) == IF status[p] = "PROCESSING" THEN "UNKNOWN" ELSE status[p]

ChargeGaveUp(t) ==
    LET p == job[t].pay
    IN  /\ job[t].op = "charge" /\ job[t].step = "gaveup"
        /\ status' = [status EXCEPT ![p] = OutcomeUnknown(p)]
        /\ IF status[p] = "PROCESSING" THEN Emit(<<"UNKNOWN", p, None>>)
           ELSE UNCHANGED boxVars
        /\ Done(t) /\ UNCHANGED refund

\* The payment is still to be resolved.
Open(p) == status[p] \in {"PROCESSING", "UNKNOWN"}

\* _attempt_charge with the gateway's decision, unless somebody else has
\* resolved the payment.
ChargeAnswered(t) ==
    LET p == job[t].pay
        to == IF job[t].result = "APPROVED" THEN "SUCCEEDED" ELSE "FAILED"
    IN  /\ job[t].op = "charge" /\ job[t].step = "answered"
        /\ status' = IF Open(p) THEN [status EXCEPT ![p] = to] ELSE status
        /\ IF Open(p) THEN Emit(<<to, p, None>>) ELSE UNCHANGED boxVars
        /\ Done(t) /\ UNCHANGED refund

\* _attempt_refund after the last failed attempt: the hold stays.
RefundGaveUp(t) ==
    /\ job[t].op = "refund" /\ job[t].step = "gaveup"
    /\ Done(t) /\ UNCHANGED <<status, refund, boxVars>>

\* With this refund the whole amount is refunded.
Fully(p, k) == Total(p, "SUCCEEDED") + RAmount[k] = Amount[p]

\* The refund is still to be settled.
Applies(p, k) == refund[p][k] = "PENDING"

RefundAnswered(t) ==
    LET p == job[t].pay
        k == job[t].rkey
        ok == job[t].result = "APPROVED"
    IN  /\ job[t].op = "refund" /\ job[t].step = "answered"
        /\ \/ /\ Applies(p, k) /\ ok
              /\ refund' = [refund EXCEPT ![p][k] = "SUCCEEDED"]
              /\ status' = [status EXCEPT ![p] = IF Fully(p, k) THEN "REFUNDED"
                                                 ELSE "PARTIALLY_REFUNDED"]
              /\ Emit(<<"refund.succeeded", p, k>>)
           \/ /\ Applies(p, k) /\ ~ok
              /\ refund' = [refund EXCEPT ![p][k] = "FAILED"]
              /\ Emit(<<"refund.failed", p, k>>)
              /\ UNCHANGED status
           \/ ~Applies(p, k) /\ UNCHANGED <<status, refund, boxVars>>
        /\ Done(t)
----------------------------------------------------------------------------
\* The numbers of a finite set in increasing order.
InOrder(S) ==
    [i \in 1..Cardinality(S) |-> CHOOSE x \in S : Cardinality({y \in S : y < x}) = i - 1]

\* Outbox.relay: copy the pending events in id order.
RelayBegin(r) ==
    /\ relay[r].batch = <<>> /\ pending # {}
    /\ relay' = [relay EXCEPT ![r] = [batch |-> InOrder(pending), sent |-> FALSE]]
    /\ UNCHANGED <<status, refund, gwVars, job, todo, events, pending, published>>

RelayPublish(r) ==
    /\ relay[r].batch # <<>> /\ ~relay[r].sent
    /\ Len(published) < MaxPublished
    /\ published' = Append(published, Head(relay[r].batch))
    /\ relay' = [relay EXCEPT ![r] = [batch |-> relay[r].batch, sent |-> TRUE]]
    /\ UNCHANGED <<status, refund, gwVars, job, todo, events, pending>>

\* Fault: after a failed publish the relay goes on with the next event.
RelaySkips(r) ==
    /\ relay[r].batch # <<>> /\ ~relay[r].sent
    /\ relay' = [relay EXCEPT ![r] = [batch |-> Tail(relay[r].batch), sent |-> FALSE]]
    /\ UNCHANGED <<status, refund, gwVars, job, todo, events, pending, published>>

\* publish raises: the rest of the batch stays pending.
RelayBreak(r) ==
    /\ relay[r].batch # <<>> /\ ~relay[r].sent
    /\ relay' = [relay EXCEPT ![r] = [batch |-> <<>>, sent |-> FALSE]]
    /\ UNCHANGED <<status, refund, gwVars, job, todo, events, pending, published>>

RelayRemove(r) ==
    /\ relay[r].sent
    /\ pending' = pending \ {Head(relay[r].batch)}
    /\ relay' = [relay EXCEPT ![r] = [batch |-> Tail(relay[r].batch), sent |-> FALSE]]
    /\ UNCHANGED <<status, refund, gwVars, job, todo, events, published>>
----------------------------------------------------------------------------
Submit(t) ==
    \/ \E p \in Pay : PayBegin(t, p) \/ \E k \in RKey : RefundBegin(t, p, k)
    \/ ReconcileBegin(t)

Serve(t) ==
    \/ RiskReject(t) \/ RiskPass(t)
    \/ \E j \in todo[t] : ReconcileNext(t, j)
    \/ CallAnswered(t) \/ CallTimeoutAfter(t) \/ CallLost(t)
    \/ ChargeGaveUp(t) \/ ChargeAnswered(t)
    \/ RefundGaveUp(t) \/ RefundAnswered(t)

RelayStep(r) == RelayBegin(r) \/ RelayPublish(r) \/ RelayBreak(r) \/ RelayRemove(r)

Next ==
    \/ \E t \in Thread : Submit(t) \/ Serve(t)
    \/ \E r \in Relay : RelayStep(r)

Spec == Init /\ [][Next]_vars

\* Threads are scheduled; gateway calls answer or time out.
Fairness == \A t \in Thread : WF_vars(Serve(t))
----------------------------------------------------------------------------
Settled == {"SUCCEEDED", "PARTIALLY_REFUNDED", "REFUNDED"}

Result == {"none", "APPROVED", "DECLINED"}
Step == {"risk", "calling", "gaveup", "answered"}
Jobs ==
    {NoJob} \cup
    {j \in [op : {"charge", "refund"}, pay : Pay, rkey : RKey \cup {None},
            attempt : 1..MaxAttempts, step : Step, result : Result] :
        /\ j.op = "charge" => j.rkey = None
        /\ j.op = "refund" => j.rkey \in RKey /\ j.step # "risk"
        /\ j.step = "risk" => j.attempt = 1
        /\ j.step = "answered" <=> j.result # "none"}
Tasks == {Charge(p) : p \in Pay} \cup {RefundJob(x[1], x[2]) : x \in Pay \X RKey}
Event == {"UNKNOWN", "SUCCEEDED", "FAILED", "refund.succeeded", "refund.failed"}
            \X Pay \X (RKey \cup {None})

\* The types of the service's fields and of the gateway's.
ServiceTypeOK ==
    /\ status \in [Pay -> {"ABSENT"} \cup DOMAIN ALLOWED_TRANSITIONS]
    /\ refund \in [Pay -> [RKey -> {"ABSENT", "PENDING", "SUCCEEDED", "FAILED"}]]
    /\ gwCharge \in [Key -> Result] /\ gwRefund \in [RKey -> Result]
    /\ charged \in [Pay -> Nat] /\ refunded \in [Pay -> [RKey -> Nat]]
    /\ job \in [Thread -> Jobs] /\ todo \in [Thread -> SUBSET Tasks]

\* The types of the outbox's fields.
OutboxTypeOK ==
    /\ events \in Seq(Event) /\ pending \subseteq DOMAIN events
    /\ published \in Seq(DOMAIN events)
    /\ relay \in [Relay -> [batch : Seq(DOMAIN events), sent : BOOLEAN]]

\* Every field has its type.
TypeOK == ServiceTypeOK /\ OutboxTypeOK

\* What the service says about a charge is what the provider did: a settled
\* payment was charged once, a failed one never, whatever timed out.
ChargeIsReal ==
    \A p \in Pay : /\ charged[p] <= 1
                   /\ status[p] \in Settled => charged[p] = 1
                   /\ status[p] = "FAILED" => charged[p] = 0

\* The same for refunds: a refund that succeeded moved its amount once, one
\* that failed moved nothing.
RefundIsReal ==
    \A p \in Pay, k \in RKey : /\ refunded[p][k] <= 1
                               /\ refund[p][k] = "SUCCEEDED" => refunded[p][k] = 1
                               /\ refund[p][k] = "FAILED" => refunded[p][k] = 0

\* The provider never pays back more than was charged, although refunds run
\* concurrently, time out and are reconciled.
NoOverRefund ==
    \A p \in Pay :
        SumFunctionOnSet([k \in RKey |-> RAmount[k] * refunded[p][k]], RKey)
            <= Amount[p] * charged[p]

\* The status of a payment agrees with its refunds.
StatusMatchesRefunds ==
    \A p \in Pay :
        /\ status[p] = "REFUNDED" <=> Total(p, "SUCCEEDED") = Amount[p]
        /\ status[p] = "PARTIALLY_REFUNDED" <=>
              Total(p, "SUCCEEDED") \in 1..(Amount[p] - 1)

\* What the service says about charges and refunds is what the provider did,
\* whatever timed out, was lost or was asked twice.
ProviderAgrees == ChargeIsReal /\ RefundIsReal

\* The provider never pays back more than was charged, although refunds run
\* concurrently, time out and are reconciled, and the status of a payment
\* agrees with its refunds.
RefundsExact == NoOverRefund /\ StatusMatchesRefunds

\* A step makes only moves of ALLOWED_TRANSITIONS, so transition() never raises.
AllowedMoves ==
    \A p \in Pay : status'[p] # status[p] /\ status[p] # "ABSENT"
                    => status'[p] \in ALLOWED_TRANSITIONS[status[p]]

\* Answers that come late or twice make only allowed moves.
OnlyAllowedTransitions == [][AllowedMoves]_vars

\* Whoever publishes, and however often publish fails, events reach the
\* broker for the first time in the order they were written, and none is
\* dropped from the outbox unpublished.
OutboxReliable ==
    /\ \A i \in DOMAIN published : \A e \in 1..published[i] :
          \E j \in 1..i : published[j] = e
    /\ \A e \in DOMAIN events : e \in pending \/ Contains(published, e)

\* The payments whose charge has not ended.
Charging == {p \in Pay : status[p] = "PROCESSING"}
============================================================================
