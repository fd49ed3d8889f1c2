--------------------------- MODULE PaymentProofs ---------------------------
(***************************************************************************)
(* PaymentService agrees with its provider, for any number of payments,    *)
(* refunds and threads and whatever times out, as long as clients do not   *)
(* use one idempotency key for two payments or for the refunds of two.     *)
(***************************************************************************)
EXTENDS Payment, NumberLemmas

Created(p) == status[p] # "ABSENT"
Asked(p, k) == refund[p][k] # "ABSENT"

\* The gateway knows a request by its idempotency key alone.
KeysDistinct ==
    /\ \A p, q \in Pay : Created(p) /\ Created(q) /\ KeyOf[p] = KeyOf[q] => p = q
    /\ \A p, q \in Pay, k \in RKey : Asked(p, k) /\ Asked(q, k) => p = q

Charges(t, p) == job[t].op = "charge" /\ job[t].pay = p
Refunds(t, p, k) == job[t].op = "refund" /\ job[t].pay = p /\ job[t].rkey = k

\* A thread works on what exists, and only the thread of pay on a payment
\* that is being processed.
ChargersOK ==
    \A t \in Thread, p \in Pay :
        /\ Charges(t, p) => Created(p)
        /\ Charges(t, p) /\ job[t].step = "risk" => status[p] = "PROCESSING"
        /\ Charge(p) \in todo[t] => status[p] \notin {"ABSENT", "PROCESSING"}
OneCharger ==
    \A t, u \in Thread, p \in Pay :
        status[p] = "PROCESSING" /\ Charges(t, p) /\ Charges(u, p) => t = u
RefundersOK ==
    \A t \in Thread, p \in Pay, k \in RKey :
        Refunds(t, p, k) \/ RefundJob(p, k) \in todo[t] => Asked(p, k)
AskedOK == \A p \in Pay, k \in RKey : Asked(p, k) => status[p] \in Settled
WorkOK == ChargersOK /\ OneCharger /\ RefundersOK /\ AskedOK

\* The refunds that succeeded and those held fit the amount, and the status
\* of a payment says how much of it was refunded.
MoneyOK ==
    \A p \in Pay :
        /\ Total(p, "SUCCEEDED") + Total(p, "PENDING") <= Amount[p]
        /\ status[p] = "REFUNDED" <=> Total(p, "SUCCEEDED") = Amount[p]
        /\ status[p] = "PARTIALLY_REFUNDED" <=>
              Total(p, "SUCCEEDED") \in 1..(Amount[p] - 1)

\* What the gateway stored for a charge is what it did, what its threads
\* were told and what the service recorded.
ChargeKnown == \A k \in Key : gwCharge[k] # "none" => \E p \in Pay : Created(p) /\ KeyOf[p] = k
ChargeCounted ==
    \A p \in Pay :
        charged[p] = IF Created(p) /\ gwCharge[KeyOf[p]] = "APPROVED" THEN 1 ELSE 0
SettledOK == \A p \in Pay : status[p] \in Settled => gwCharge[KeyOf[p]] = "APPROVED"
FailedOK ==
    \A p \in Pay : status[p] = "FAILED" =>
        \/ gwCharge[KeyOf[p]] = "DECLINED"
        \/ /\ gwCharge[KeyOf[p]] = "none"
           /\ \A t \in Thread : ~Charges(t, p) /\ Charge(p) \notin todo[t]
ChargeAnswers ==
    \A t \in Thread, p \in Pay : Charges(t, p) =>
        /\ job[t].step = "risk" => gwCharge[KeyOf[p]] = "none"
        /\ job[t].step = "answered" => job[t].result = gwCharge[KeyOf[p]]
ChargeOK == ChargeKnown /\ ChargeCounted /\ SettledOK /\ FailedOK /\ ChargeAnswers

\* The same for refunds.
RefundKnown == \A k \in RKey : gwRefund[k] # "none" => \E p \in Pay : Asked(p, k)
RefundCounted ==
    \A p \in Pay, k \in RKey :
        refunded[p][k] = IF Asked(p, k) /\ gwRefund[k] = "APPROVED" THEN 1 ELSE 0
RepaidOK ==
    \A p \in Pay, k \in RKey :
        /\ refund[p][k] = "SUCCEEDED" => gwRefund[k] = "APPROVED"
        /\ refund[p][k] = "FAILED" => gwRefund[k] = "DECLINED"
RefundAnswers ==
    \A t \in Thread, p \in Pay, k \in RKey :
        Refunds(t, p, k) /\ job[t].step = "answered" => job[t].result = gwRefund[k]
RefundOK == RefundKnown /\ RefundCounted /\ RepaidOK /\ RefundAnswers

\* The inductive invariant.
Inv ==
    /\ ServiceTypeOK
    /\ WorkOK
    /\ MoneyOK
    /\ KeysDistinct => ChargeOK /\ RefundOK
----------------------------------------------------------------------------
\* A change of one entry of a table.
LEMMA EntryChanged ==
    ASSUME NEW A, NEW B, NEW C, NEW f \in [A -> [B -> C]], NEW a \in A, NEW b \in B, NEW c \in C,
           NEW g, g = [f EXCEPT ![a][b] = c]
    PROVE  /\ g \in [A -> [B -> C]] /\ g[a][b] = c
           /\ \A x \in A, y \in B : x # a \/ y # b => g[x][y] = f[x][y]
<1> DEFINE row == [f[a] EXCEPT ![b] = c]
<1>1. row \in [B -> C] /\ row[b] = c /\ \A y \in B : y # b => row[y] = f[a][y]
  OBVIOUS
<1>2. g = [f EXCEPT ![a] = row]
  OBVIOUS
<1> HIDE DEF row
<1> QED BY <1>1, <1>2

\* What a thread works on: nothing, a charge or a refund.
LEMMA JobFacts ==
    ASSUME ServiceTypeOK, NEW t \in Thread
    PROVE  \/ job[t] = NoJob
           \/ /\ job[t].op = "charge" /\ job[t].pay \in Pay /\ job[t].rkey = None
              /\ job[t] = At(job[t], job[t].attempt, job[t].step, job[t].result)
              /\ job[t].attempt \in 1..MaxAttempts /\ job[t].step \in Step
              /\ job[t].result \in Result
              /\ job[t].step = "risk" => job[t].attempt = 1
              /\ job[t].step = "answered" <=> job[t].result # "none"
           \/ /\ job[t].op = "refund" /\ job[t].pay \in Pay /\ job[t].rkey \in RKey
              /\ job[t] = At(job[t], job[t].attempt, job[t].step, job[t].result)
              /\ job[t].attempt \in 1..MaxAttempts /\ job[t].step \in Step \ {"risk"}
              /\ job[t].result \in Result
              /\ job[t].step = "answered" <=> job[t].result # "none"
  BY DEF ServiceTypeOK, Jobs, At, Job

\* A new job is well formed.
LEMMA NewJobs ==
    ASSUME Params, NEW p \in Pay
    PROVE  /\ At(Charge(p), 1, "risk", "none") \in Jobs
           /\ Charge(p) \in Jobs
           /\ \A k \in RKey : RefundJob(p, k) \in Jobs
<1>1. 1 \in 1..MaxAttempts
  BY DEF Params
<1> QED BY <1>1 DEF Jobs, At, Charge, RefundJob, Job, Step, Result

\* A task of a reconcile is a charge or a refund.
LEMMA TaskFacts ==
    ASSUME ServiceTypeOK, NEW t \in Thread, NEW j \in todo[t]
    PROVE  \/ \E p \in Pay : j = Charge(p)
           \/ \E p \in Pay, k \in RKey : j = RefundJob(p, k)
<1>1. j \in Tasks
  BY DEF ServiceTypeOK
<1> QED BY <1>1 DEF Tasks

\* A call that failed leaves a well-formed job of the same request.
LEMMA AgainFacts ==
    ASSUME Params, ServiceTypeOK, NEW t \in Thread, job[t].step = "calling"
    PROVE  /\ Again(job[t]) \in Jobs
           /\ Again(job[t]).op = job[t].op /\ Again(job[t]).pay = job[t].pay
           /\ Again(job[t]).rkey = job[t].rkey
           /\ Again(job[t]).step \in {"calling", "gaveup"}
<1> DEFINE j == job[t]
<1>1. /\ j.op \in {"charge", "refund"} /\ j.pay \in Pay /\ j.rkey \in RKey \cup {None}
      /\ j.op = "charge" => j.rkey = None
      /\ j.op = "refund" => j.rkey \in RKey
      /\ j.attempt \in 1..MaxAttempts
  BY JobFacts DEF NoJob, Job
<1>2. MaxAttempts \in Nat
  BY DEF Params
<1> HIDE DEF j
<1>3. CASE j.attempt < MaxAttempts
  <2>1. j.attempt + 1 \in 1..MaxAttempts
    BY <1>1, <1>2, <1>3
  <2> QED BY <1>1, <1>3, <2>1 DEF j, Again, At, Job, Jobs, Step, Result
<1>4. CASE ~(j.attempt < MaxAttempts)
  BY <1>1, <1>4 DEF j, Again, At, Job, Jobs, Step, Result
<1> QED BY <1>3, <1>4

\* What a step of the service does with its calls to the gateway.
Call(t) == CallAnswered(t) \/ CallTimeoutAfter(t) \/ CallLost(t)

\* The step of a thread is one of these.
LEMMA ThreadSteps ==
    ASSUME NEW t \in Thread, Submit(t) \/ Serve(t)
    PROVE  \/ \E p \in Pay : PayBegin(t, p)
           \/ \E p \in Pay, k \in RKey : RefundBegin(t, p, k)
           \/ ReconcileBegin(t) \/ RiskReject(t) \/ RiskPass(t)
           \/ \E j \in todo[t] : ReconcileNext(t, j)
           \/ Call(t)
           \/ ChargeGaveUp(t) \/ ChargeAnswered(t) \/ RefundGaveUp(t) \/ RefundAnswered(t)
  BY DEF Submit, Serve, Call

\* What the gateway stores and counts has its type.
LEMMA ProcessType ==
    ASSUME Params, ServiceTypeOK, NEW t \in Thread, job[t].step = "calling", Process(job[t])
    PROVE  /\ gwCharge' \in [Key -> Result] /\ gwRefund' \in [RKey -> Result]
           /\ charged' \in [Pay -> Nat] /\ refunded' \in [Pay -> [RKey -> Nat]]
<1> DEFINE j == job[t]
<1>1. /\ j.pay \in Pay /\ j.op \in {"charge", "refund"} /\ (j.op = "refund" => j.rkey \in RKey)
      /\ KeyOf[j.pay] \in Key
  BY JobFacts DEF NoJob, Job, Params
<1>2. Decision(j) \in Result
  BY DEF Decision, Result
<1> USE DEF ServiceTypeOK, Process
<1> HIDE DEF j
<1>3. Process(j)
  BY DEF j
<1>4. gwCharge' \in [Key -> Result]
  BY <1>1, <1>2, <1>3
<1>5. gwRefund' \in [RKey -> Result]
  BY <1>1, <1>2, <1>3
<1>6. charged' \in [Pay -> Nat]
  <2>1. charged' = charged \/ charged' = [charged EXCEPT ![j.pay] = @ + 1]
    BY <1>3
  <2> HIDE DEF Process
  <2> QED BY <1>1, <2>1, SMTT(60)
<1>7. refunded' \in [Pay -> [RKey -> Nat]]
  <2>1. \/ refunded' = refunded
        \/ j.op = "refund" /\ refunded' = [refunded EXCEPT ![j.pay][j.rkey] = @ + 1]
    BY <1>3
  <2> HIDE DEF Process
  <2>2. refunded \in [Pay -> [RKey -> Nat]]
    OBVIOUS
  <2>3. CASE j.op = "refund" /\ refunded' = [refunded EXCEPT ![j.pay][j.rkey] = @ + 1]
    <3>1. refunded' = [refunded EXCEPT ![j.pay][j.rkey] = refunded[j.pay][j.rkey] + 1]
      BY <2>3
    <3>2. refunded[j.pay][j.rkey] + 1 \in Nat
      BY <1>1, <2>2, <2>3
    <3> QED BY <1>1, <2>2, <2>3, <3>1, <3>2, EntryChanged
  <2> QED BY <2>1, <2>2, <2>3
<1> QED BY <1>4, <1>5, <1>6, <1>7

\* The answer a thread gets.
Answer(j) == IF Stored(j) = "none" THEN Decision(j) ELSE Stored(j)

\* What is stored for the two keys of a job, and the gateway's answer to it, is
\* a result.
LEMMA AnswerFacts ==
    ASSUME Params, ServiceTypeOK, NEW t \in Thread, job[t].step = "calling"
    PROVE  /\ Answer(job[t]) \in {"APPROVED", "DECLINED"}
           /\ At(job[t], job[t].attempt, "answered", Answer(job[t])) \in Jobs
<1> DEFINE j == job[t]
<1>1. /\ j.op \in {"charge", "refund"} /\ j.pay \in Pay /\ j.rkey \in RKey \cup {None}
      /\ j.op = "charge" => j.rkey = None
      /\ j.op = "refund" => j.rkey \in RKey
      /\ j.attempt \in 1..MaxAttempts /\ KeyOf[j.pay] \in Key
  BY JobFacts DEF NoJob, Job, Params
<1>2. Stored(j) \in Result /\ Decision(j) \in {"APPROVED", "DECLINED"}
  <2> HIDE DEF j
  <2> QED BY <1>1 DEF ServiceTypeOK, Stored, Decision
<1>3. Answer(j) \in {"APPROVED", "DECLINED"}
  BY <1>2 DEF Answer, Result
<1> HIDE DEF j
<1>4. At(j, j.attempt, "answered", Answer(j)) \in Jobs
  BY <1>1, <1>3 DEF At, Job, Jobs, Step, Result
<1> QED BY <1>3, <1>4 DEF j

\* A step of a thread keeps the types.
LEMMA TypeStep ==
    ASSUME Params, ServiceTypeOK, NEW t \in Thread, Submit(t) \/ Serve(t)
    PROVE  ServiceTypeOK'
<1>0. NoJob \in Jobs
  BY DEF Jobs
<1>1. ASSUME NEW p \in Pay, PayBegin(t, p) PROVE ServiceTypeOK'
  <2>1. At(Charge(p), 1, "risk", "none") \in Jobs
    BY <1>1, NewJobs
  <2> QED BY <1>1, <2>1 DEF PayBegin, ServiceTypeOK, gwVars, ALLOWED_TRANSITIONS
<1>2. ASSUME NEW p \in Pay, NEW k \in RKey, RefundBegin(t, p, k) PROVE ServiceTypeOK'
  <2>1. RefundJob(p, k) \in Jobs
    BY NewJobs
  <2> QED BY <1>2, <2>1 DEF RefundBegin, ServiceTypeOK, gwVars
<1>3. ASSUME ReconcileBegin(t) PROVE ServiceTypeOK'
  <2> DEFINE work == {Charge(p) : p \in {q \in Pay : status[q] = "UNKNOWN"}}
                \cup {RefundJob(x[1], x[2]) : x \in {y \in Pay \X RKey :
                                                refund[y[1]][y[2]] = "PENDING"}}
  <2>1. work \subseteq Tasks
    BY DEF Tasks
  <2>2. todo' = [todo EXCEPT ![t] = work] /\ UNCHANGED <<status, refund, gwVars, job>>
    BY <1>3 DEF ReconcileBegin
  <2> HIDE DEF work
  <2> QED BY <2>1, <2>2 DEF ServiceTypeOK, gwVars
<1>4. ASSUME RiskReject(t) PROVE ServiceTypeOK'
  BY <1>0, <1>4 DEF RiskReject, ServiceTypeOK, gwVars, ALLOWED_TRANSITIONS
<1>5. ASSUME RiskPass(t) PROVE ServiceTypeOK'
  <2>1. job[t].pay \in Pay
    BY <1>5, JobFacts DEF RiskPass, NoJob, Job
  <2>2. Charge(job[t].pay) \in Jobs
    <3>1. 1 \in 1..MaxAttempts
      BY DEF Params
    <3> QED BY <2>1, <3>1 DEF Charge, Job, Jobs, Step, Result
  <2> QED BY <1>5, <2>2 DEF RiskPass, ServiceTypeOK, gwVars
<1>6. ASSUME NEW j \in todo[t], ReconcileNext(t, j) PROVE ServiceTypeOK'
  <2>1. j \in Jobs
    <3>1. 1 \in 1..MaxAttempts
      BY DEF Params
    <3> QED BY TaskFacts, <3>1 DEF Charge, RefundJob, Job, Jobs, Step, Result
  <2> QED BY <1>6, <2>1 DEF ReconcileNext, ServiceTypeOK, gwVars
<1>7. ASSUME Call(t) PROVE ServiceTypeOK'
  <2>1. CASE CallAnswered(t)
    <3>1. /\ job[t].step = "calling" /\ Process(job[t])
          /\ job' = [job EXCEPT ![t] = At(job[t], job[t].attempt, "answered", Answer(job[t]))]
          /\ UNCHANGED <<status, refund, todo>>
      BY <2>1 DEF CallAnswered, Answer
    <3>2. At(job[t], job[t].attempt, "answered", Answer(job[t])) \in Jobs
      BY <3>1, AnswerFacts
    <3> QED BY <3>1, <3>2, ProcessType DEF ServiceTypeOK
  <2>2. CASE CallTimeoutAfter(t)
    <3>1. job[t].step = "calling" /\ Process(job[t]) /\ UNCHANGED <<status, refund, todo>>
          /\ job' = [job EXCEPT ![t] = Again(job[t])]
      BY <2>2 DEF CallTimeoutAfter
    <3>2. Again(job[t]) \in Jobs
      BY <3>1, AgainFacts
    <3> QED BY <3>1, <3>2, ProcessType DEF ServiceTypeOK
  <2>3. CASE CallLost(t)
    <3>1. Again(job[t]) \in Jobs
      BY <2>3, AgainFacts DEF CallLost
    <3> QED BY <2>3, <3>1 DEF ServiceTypeOK, CallLost, gwVars
  <2> QED BY <1>7, <2>1, <2>2, <2>3 DEF Call
<1>8. ASSUME ChargeGaveUp(t) PROVE ServiceTypeOK'
  BY <1>0, <1>8 DEF ChargeGaveUp, Done, OutcomeUnknown, ServiceTypeOK, gwVars, ALLOWED_TRANSITIONS
<1>9. ASSUME ChargeAnswered(t) PROVE ServiceTypeOK'
  BY <1>0, <1>9 DEF ChargeAnswered, Done, ServiceTypeOK, gwVars, ALLOWED_TRANSITIONS
<1>10. ASSUME RefundGaveUp(t) PROVE ServiceTypeOK'
  BY <1>0, <1>10 DEF RefundGaveUp, Done, ServiceTypeOK, gwVars
<1>11. ASSUME RefundAnswered(t) PROVE ServiceTypeOK'
  <2>1. job[t].pay \in Pay /\ job[t].rkey \in RKey
    BY <1>11, JobFacts DEF RefundAnswered, NoJob, Job
  <2>2. /\ job' = [job EXCEPT ![t] = NoJob] /\ UNCHANGED <<gwVars, todo>>
        /\ \/ UNCHANGED refund
           \/ \E st \in {"SUCCEEDED", "FAILED"} : refund' = [refund EXCEPT ![job[t].pay][job[t].rkey] = st]
        /\ \/ UNCHANGED status
           \/ \E st \in {"REFUNDED", "PARTIALLY_REFUNDED"} : status' = [status EXCEPT ![job[t].pay] = st]
    BY <1>11 DEF RefundAnswered, Done
  <2>3. refund' \in [Pay -> [RKey -> {"ABSENT", "PENDING", "SUCCEEDED", "FAILED"}]]
    <3>1. CASE UNCHANGED refund
      BY <3>1 DEF ServiceTypeOK
    <3>2. CASE ~UNCHANGED refund
      <4>1. PICK st \in {"SUCCEEDED", "FAILED"} :
                refund' = [refund EXCEPT ![job[t].pay][job[t].rkey] = st]
        BY <2>2, <3>2
      <4>2. refund \in [Pay -> [RKey -> {"ABSENT", "PENDING", "SUCCEEDED", "FAILED"}]]
        BY DEF ServiceTypeOK
      <4> QED BY <2>1, <4>1, <4>2, EntryChanged
    <3> QED BY <3>1, <3>2
  <2>4. status' \in [Pay -> {"ABSENT"} \cup DOMAIN ALLOWED_TRANSITIONS]
    BY <2>1, <2>2 DEF ServiceTypeOK, ALLOWED_TRANSITIONS
  <2> QED BY <1>0, <2>2, <2>3, <2>4 DEF ServiceTypeOK, gwVars
<1> QED BY <1>1, <1>2, <1>3, <1>4, <1>5, <1>6, <1>7, <1>8, <1>9, <1>10, <1>11, ThreadSteps
----------------------------------------------------------------------------
\* What the steps of a thread change, entry by entry.
Others(t) == \A u \in Thread \ {t} : job'[u] = job[u] /\ todo'[u] = todo[u]
StatusBut(p) == \A q \in Pay \ {p} : status'[q] = status[q]
RefundBut(p, k) == \A q \in Pay, i \in RKey : q # p \/ i # k => refund'[q][i] = refund[q][i]
Gateway == UNCHANGED <<gwCharge, gwRefund, charged, refunded>>
SameJob(t) ==
    job'[t].op = job[t].op /\ job'[t].pay = job[t].pay /\ job'[t].rkey = job[t].rkey
Ends(t) == job'[t].op = "none" /\ UNCHANGED todo /\ Others(t) /\ Gateway

Pays(t, p) ==
    /\ job[t].op = "none" /\ status[p] = "ABSENT" /\ status'[p] = "PROCESSING" /\ StatusBut(p)
    /\ job'[t].op = "charge" /\ job'[t].pay = p /\ job'[t].step = "risk"
    /\ Others(t) /\ UNCHANGED <<todo, refund>> /\ Gateway
Asks(t, p, k) ==
    /\ job[t].op = "none" /\ status[p] \in REFUNDABLE /\ UNCHANGED <<status, todo>>
    /\ refund[p][k] = "ABSENT" /\ RAmount[k] <= Refundable(p)
    /\ refund'[p][k] = "PENDING" /\ RefundBut(p, k)
    /\ job'[t].op = "refund" /\ job'[t].pay = p /\ job'[t].rkey = k /\ job'[t].step = "calling"
    /\ Others(t) /\ Gateway
Collects(t) ==
    /\ UNCHANGED <<status, refund, job>> /\ Gateway /\ Others(t)
    /\ \A p \in Pay : Charge(p) \in todo'[t] => status[p] = "UNKNOWN"
    /\ \A p \in Pay, k \in RKey : RefundJob(p, k) \in todo'[t] => refund[p][k] = "PENDING"
Rejects(t, p) ==
    /\ Charges(t, p) /\ job[t].step = "risk"
    /\ status'[p] = "FAILED" /\ StatusBut(p) /\ UNCHANGED refund /\ Ends(t)
Passes(t, p) ==
    /\ Charges(t, p) /\ job[t].step = "risk" /\ job'[t].step = "calling"
    /\ SameJob(t) /\ Others(t) /\ UNCHANGED <<status, refund, todo>> /\ Gateway
Resumes(t) ==
    /\ UNCHANGED <<status, refund>> /\ Gateway /\ Others(t) /\ job[t].op = "none"
    /\ todo'[t] \subseteq todo[t] /\ job'[t].step = "calling"
    /\ \/ \E p \in Pay : Charge(p) \in todo[t] /\ Charges(t, p)'
       \/ \E p \in Pay, k \in RKey : RefundJob(p, k) \in todo[t] /\ Refunds(t, p, k)'
Calls(t) ==
    /\ job[t].step = "calling" /\ job'[t].step # "risk"
    /\ SameJob(t) /\ Others(t) /\ UNCHANGED <<status, refund, todo>>
Loses(t) == Calls(t) /\ job'[t].step # "answered" /\ Gateway
CallsCharge(t, p) ==
    /\ Charges(t, p) /\ Calls(t) /\ UNCHANGED <<gwRefund, refunded>>
    /\ gwCharge'[KeyOf[p]] \in {"APPROVED", "DECLINED"}
    /\ gwCharge[KeyOf[p]] # "none" => gwCharge'[KeyOf[p]] = gwCharge[KeyOf[p]]
    /\ \A k \in Key \ {KeyOf[p]} : gwCharge'[k] = gwCharge[k]
    /\ charged'[p] = charged[p] + (IF gwCharge[KeyOf[p]] = "none" /\ gwCharge'[KeyOf[p]] = "APPROVED"
                                    THEN 1 ELSE 0)
    /\ \A q \in Pay \ {p} : charged'[q] = charged[q]
    /\ job'[t].step = "answered" => job'[t].result = gwCharge'[KeyOf[p]]
CallsRefund(t, p, k) ==
    /\ Refunds(t, p, k) /\ Calls(t) /\ UNCHANGED <<gwCharge, charged>>
    /\ gwRefund'[k] \in {"APPROVED", "DECLINED"}
    /\ gwRefund[k] # "none" => gwRefund'[k] = gwRefund[k]
    /\ \A i \in RKey \ {k} : gwRefund'[i] = gwRefund[i]
    /\ refunded'[p][k] = refunded[p][k] + (IF gwRefund[k] = "none" /\ gwRefund'[k] = "APPROVED"
                                           THEN 1 ELSE 0)
    /\ \A q \in Pay, i \in RKey : q # p \/ i # k => refunded'[q][i] = refunded[q][i]
    /\ job'[t].step = "answered" => job'[t].result = gwRefund'[k]
GivesUp(t, p) ==
    /\ Charges(t, p) /\ Ends(t) /\ UNCHANGED refund /\ StatusBut(p)
    /\ status'[p] = IF status[p] = "PROCESSING" THEN "UNKNOWN" ELSE status[p]
Settles(t, p) ==
    /\ Charges(t, p) /\ job[t].step = "answered" /\ Ends(t) /\ UNCHANGED refund /\ StatusBut(p)
    /\ status'[p] = IF ~Open(p) THEN status[p]
                     ELSE IF job[t].result = "APPROVED" THEN "SUCCEEDED" ELSE "FAILED"
Leaves(t) == Ends(t) /\ UNCHANGED <<status, refund>>
Repays(t, p, k) ==
    /\ Refunds(t, p, k) /\ job[t].step = "answered" /\ job[t].result = "APPROVED" /\ Ends(t)
    /\ refund[p][k] = "PENDING" /\ refund'[p][k] = "SUCCEEDED" /\ RefundBut(p, k)
    /\ StatusBut(p) /\ status'[p] = IF Fully(p, k) THEN "REFUNDED" ELSE "PARTIALLY_REFUNDED"
Refuses(t, p, k) ==
    /\ Refunds(t, p, k) /\ job[t].step = "answered" /\ job[t].result = "DECLINED" /\ Ends(t)
    /\ refund[p][k] = "PENDING" /\ refund'[p][k] = "FAILED" /\ RefundBut(p, k) /\ UNCHANGED status

\* The effect of a thread's step.
Effect(t) ==
    \/ \E p \in Pay : Pays(t, p) \/ Rejects(t, p) \/ Passes(t, p) \/ CallsCharge(t, p)
                        \/ GivesUp(t, p) \/ Settles(t, p)
    \/ \E p \in Pay, k \in RKey : Asks(t, p, k) \/ CallsRefund(t, p, k) \/ Repays(t, p, k)
                                   \/ Refuses(t, p, k)
    \/ Collects(t) \/ Resumes(t) \/ Loses(t) \/ Leaves(t)

\* pay creates the payment.
LEMMA EffectPays ==
    ASSUME ServiceTypeOK, NEW t \in Thread, NEW p \in Pay, PayBegin(t, p)
    PROVE  Pays(t, p)
  BY DEF ServiceTypeOK, PayBegin, Idle, NoJob, At, Charge, Job, Pays, Others, StatusBut, Gateway, gwVars

\* refund puts money aside and calls the provider.
LEMMA EffectAsks ==
    ASSUME ServiceTypeOK, NEW t \in Thread, NEW p \in Pay, NEW k \in RKey, RefundBegin(t, p, k)
    PROVE  Asks(t, p, k)
<1>1. refund'[p][k] = "PENDING" /\ RefundBut(p, k)
  BY EntryChanged DEF RefundBegin, RefundBut, ServiceTypeOK
<1> QED BY <1>1 DEF ServiceTypeOK, RefundBegin, Idle, NoJob, RefundJob, Job, Asks, Others, Gateway, gwVars

\* reconcile collects what is open.
LEMMA EffectCollects ==
    ASSUME ServiceTypeOK, NEW t \in Thread, ReconcileBegin(t)
    PROVE  Collects(t)
<1>1. \A p \in Pay : Charge(p) \in todo'[t] => status[p] = "UNKNOWN"
  BY DEF ReconcileBegin, ServiceTypeOK, Charge, RefundJob, Job
<1>2. \A p \in Pay, k \in RKey : RefundJob(p, k) \in todo'[t] => refund[p][k] = "PENDING"
  BY DEF ReconcileBegin, ServiceTypeOK, Charge, RefundJob, Job
<1> QED BY <1>1, <1>2 DEF ReconcileBegin, ServiceTypeOK, Collects, Others, Gateway, gwVars

\* A risk rule rejects.
LEMMA EffectRejects ==
    ASSUME ServiceTypeOK, NEW t \in Thread, RiskReject(t)
    PROVE  \E p \in Pay : Rejects(t, p)
<1>1. job[t].pay \in Pay /\ job[t].op = "charge"
  BY JobFacts DEF RiskReject, NoJob, Job
<1>2. Rejects(t, job[t].pay)
  BY <1>1 DEF ServiceTypeOK, RiskReject, NoJob, Job, Rejects, Charges, Ends, Others, StatusBut, Gateway, gwVars
<1> QED BY <1>1, <1>2

\* The risk rules pass and the charge is called.
LEMMA EffectPasses ==
    ASSUME ServiceTypeOK, NEW t \in Thread, RiskPass(t)
    PROVE  \E p \in Pay : Passes(t, p)
<1>1. job[t].pay \in Pay /\ job[t].op = "charge" /\ job[t].rkey = None
  BY JobFacts DEF RiskPass, NoJob, Job
<1>2. Passes(t, job[t].pay)
  BY <1>1 DEF ServiceTypeOK, RiskPass, Charge, Job, Passes, Charges, SameJob, Others, Gateway, gwVars
<1> QED BY <1>1, <1>2

\* reconcile takes up one charge or refund.
LEMMA EffectResumes ==
    ASSUME ServiceTypeOK, NEW t \in Thread, NEW j \in todo[t], ReconcileNext(t, j)
    PROVE  Resumes(t)
<1>1. /\ job'[t] = j /\ todo'[t] = todo[t] \ {j} /\ job[t].op = "none"
      /\ UNCHANGED <<status, refund>> /\ Gateway /\ Others(t)
  BY DEF ServiceTypeOK, ReconcileNext, NoJob, Job, Gateway, gwVars, Others
<1>2. CASE \E p \in Pay : j = Charge(p)
  BY <1>1, <1>2 DEF Resumes, Charge, Job, Charges
<1>3. CASE \E p \in Pay, k \in RKey : j = RefundJob(p, k)
  BY <1>1, <1>3 DEF Resumes, RefundJob, Job, Refunds
<1> QED BY <1>2, <1>3, TaskFacts

\* The gateway processes the charge of a thread.
LEMMA ProcessCharge ==
    ASSUME Params, ServiceTypeOK, NEW t \in Thread, NEW p \in Pay, Charges(t, p), Calls(t),
           Process(job[t]), job'[t].step = "answered" => job'[t].result = Answer(job[t])
    PROVE  CallsCharge(t, p)
<1>1. KeyOf[p] \in Key /\ job[t].op = "charge" /\ job[t].pay = p
  BY DEF Params, Charges
<1>2. Stored(job[t]) = gwCharge[KeyOf[p]] /\ Decision(job[t]) \in {"APPROVED", "DECLINED"}
  BY <1>1 DEF Stored, Decision
<1>3. UNCHANGED <<gwRefund, refunded>>
  BY <1>1 DEF Process
<1>4. CASE gwCharge[KeyOf[p]] = "none"
  <2>1. gwCharge' = [gwCharge EXCEPT ![KeyOf[p]] = Decision(job[t])]
    BY <1>1, <1>2, <1>4 DEF Process
  <2>2. Answer(job[t]) = Decision(job[t])
    BY <1>2, <1>4 DEF Answer
  <2>3. charged' = IF Decision(job[t]) = "APPROVED" THEN [charged EXCEPT ![p] = @ + 1] ELSE charged
    BY <1>1, <1>2, <1>4 DEF Process
  <2> QED BY <1>1, <1>2, <1>3, <1>4, <2>1, <2>2, <2>3 DEF CallsCharge, ServiceTypeOK
<1>5. CASE gwCharge[KeyOf[p]] # "none"
  <2>1. UNCHANGED <<gwCharge, charged>>
    BY <1>1, <1>2, <1>5 DEF Process
  <2>2. Answer(job[t]) = gwCharge[KeyOf[p]]
    BY <1>2, <1>5 DEF Answer
  <2>3. gwCharge[KeyOf[p]] \in {"APPROVED", "DECLINED"} /\ charged[p] \in Nat
    BY <1>1, <1>5 DEF ServiceTypeOK, Result
  <2> QED BY <1>1, <1>3, <1>5, <2>1, <2>2, <2>3 DEF CallsCharge
<1> QED BY <1>4, <1>5

\* What the gateway does with a refund it is asked for.
LEMMA ProcessRefund ==
    ASSUME Params, ServiceTypeOK, NEW t \in Thread, NEW p \in Pay, NEW k \in RKey,
           Refunds(t, p, k), Calls(t),
           Process(job[t]), job'[t].step = "answered" => job'[t].result = Answer(job[t])
    PROVE  CallsRefund(t, p, k)
<1>1. job[t].op = "refund" /\ job[t].pay = p /\ job[t].rkey = k
  BY DEF Params, Refunds
<1>2. Stored(job[t]) = gwRefund[k] /\ Decision(job[t]) \in {"APPROVED", "DECLINED"}
  BY <1>1 DEF Stored, Decision
<1>3. UNCHANGED <<gwCharge, charged>>
  BY <1>1 DEF Process
<1>0. refunded \in [Pay -> [RKey -> Nat]] /\ refunded[p][k] \in Nat
  BY DEF ServiceTypeOK
<1>4. CASE gwRefund[k] = "none"
  <2>1. gwRefund' = [gwRefund EXCEPT ![k] = Decision(job[t])]
    BY <1>1, <1>2, <1>4 DEF Process
  <2>2. Answer(job[t]) = Decision(job[t])
    BY <1>2, <1>4 DEF Answer
  <2>3. CASE Decision(job[t]) = "APPROVED"
    <3>1. refunded' = [refunded EXCEPT ![p][k] = refunded[p][k] + 1]
      BY <1>1, <1>2, <1>4, <2>3 DEF Process
    <3>2. refunded'[p][k] = refunded[p][k] + 1 /\ \A q \in Pay, i \in RKey :
              q # p \/ i # k => refunded'[q][i] = refunded[q][i]
      BY <1>0, <3>1, EntryChanged
    <3> QED BY <1>1, <1>2, <1>3, <1>4, <2>1, <2>2, <2>3, <3>2 DEF CallsRefund, ServiceTypeOK
  <2>4. CASE Decision(job[t]) # "APPROVED"
    <3>1. refunded' = refunded
      BY <1>1, <1>2, <1>4, <2>4 DEF Process
    <3> QED BY <1>0, <1>1, <1>2, <1>3, <1>4, <2>1, <2>2, <2>4, <3>1 DEF CallsRefund, ServiceTypeOK
  <2> QED BY <2>3, <2>4
<1>5. CASE gwRefund[k] # "none"
  <2>1. UNCHANGED <<gwRefund, refunded>>
    BY <1>1, <1>2, <1>5 DEF Process
  <2>2. Answer(job[t]) = gwRefund[k]
    BY <1>2, <1>5 DEF Answer
  <2>3. gwRefund[k] \in {"APPROVED", "DECLINED"}
    BY <1>1, <1>5 DEF ServiceTypeOK, Result
  <2> QED BY <1>0, <1>1, <1>3, <1>5, <2>1, <2>2, <2>3 DEF CallsRefund
<1> QED BY <1>4, <1>5

\* One attempt: the gateway works or the request is lost.
LEMMA EffectCall ==
    ASSUME Params, ServiceTypeOK, NEW t \in Thread, Call(t)
    PROVE  \/ Loses(t) \/ \E p \in Pay : CallsCharge(t, p)
           \/ \E p \in Pay, k \in RKey : CallsRefund(t, p, k)
<1>0. job[t].step = "calling" /\ job \in [Thread -> Jobs] /\ UNCHANGED <<status, refund, todo>>
  BY DEF Call, CallAnswered, CallTimeoutAfter, CallLost, ServiceTypeOK
<1>1. ASSUME Process(job[t]), Calls(t), job'[t].step = "answered" => job'[t].result = Answer(job[t])
      PROVE  \/ \E p \in Pay : CallsCharge(t, p)
             \/ \E p \in Pay, k \in RKey : CallsRefund(t, p, k)
  <2>1. CASE job[t].op = "charge"
    <3>1. job[t].pay \in Pay
      BY <1>0, <2>1, JobFacts DEF NoJob, Job
    <3> QED BY <1>1, <2>1, <3>1, ProcessCharge DEF Charges
  <2>2. CASE job[t].op = "refund"
    <3>1. job[t].pay \in Pay /\ job[t].rkey \in RKey
      BY <1>0, <2>2, JobFacts DEF NoJob, Job
    <3> QED BY <1>1, <2>2, <3>1, ProcessRefund DEF Refunds
  <2> QED BY <1>0, <2>1, <2>2, JobFacts DEF NoJob, Job
<1>2. CASE CallAnswered(t)
  <2>1. Process(job[t]) /\ job' = [job EXCEPT ![t] = At(job[t], job[t].attempt, "answered", Answer(job[t]))]
    BY <1>2 DEF CallAnswered, Answer
  <2>2. job'[t] = At(job[t], job[t].attempt, "answered", Answer(job[t])) /\ Others(t)
    BY <1>0, <2>1 DEF Others
  <2>3. Calls(t) /\ job'[t].result = Answer(job[t])
    BY <1>0, <2>2 DEF Calls, SameJob, At, Job
  <2> QED BY <1>1, <2>1, <2>3
<1>3. CASE CallTimeoutAfter(t)
  <2>1. job'[t] = Again(job[t]) /\ Others(t) /\ Process(job[t])
    BY <1>0, <1>3 DEF Others, CallTimeoutAfter
  <2>2. Calls(t) /\ job'[t].step # "answered"
    BY <1>0, <2>1, AgainFacts DEF Calls, SameJob
  <2> QED BY <1>1, <2>1, <2>2
<1>4. CASE CallLost(t)
  <2>1. job'[t] = Again(job[t]) /\ Others(t) /\ Gateway
    BY <1>0, <1>4 DEF Others, CallLost, Gateway, gwVars
  <2>2. Calls(t) /\ job'[t].step # "answered"
    BY <1>0, <2>1, AgainFacts DEF Calls, SameJob
  <2> QED BY <2>1, <2>2 DEF Loses
<1> QED BY <1>2, <1>3, <1>4 DEF Call

\* The attempts are used up.
LEMMA EffectGivesUp ==
    ASSUME ServiceTypeOK, NEW t \in Thread, ChargeGaveUp(t)
    PROVE  \E p \in Pay : GivesUp(t, p)
<1>1. job[t].pay \in Pay /\ job[t].op = "charge"
  BY JobFacts DEF ChargeGaveUp, NoJob, Job
<1>2. GivesUp(t, job[t].pay)
  BY <1>1 DEF ServiceTypeOK, ChargeGaveUp, OutcomeUnknown, Done, NoJob, Job, GivesUp, Charges, Ends, Others, StatusBut, Gateway, gwVars
<1> QED BY <1>1, <1>2

\* A charge is answered.
LEMMA EffectSettles ==
    ASSUME ServiceTypeOK, NEW t \in Thread, ChargeAnswered(t)
    PROVE  \E p \in Pay : Settles(t, p)
<1>1. job[t].pay \in Pay /\ job[t].op = "charge"
  BY JobFacts DEF ChargeAnswered, NoJob, Job
<1>2. Settles(t, job[t].pay)
  BY <1>1 DEF ServiceTypeOK, ChargeAnswered, Done, NoJob, Job, Settles, Charges, Ends, Others, StatusBut, Gateway, gwVars
<1> QED BY <1>1, <1>2

\* A refund is answered.
LEMMA EffectRefund ==
    ASSUME ServiceTypeOK, NEW t \in Thread, RefundAnswered(t)
    PROVE  Leaves(t) \/ \E p \in Pay, k \in RKey : Repays(t, p, k) \/ Refuses(t, p, k)
<1> DEFINE p == job[t].pay
           k == job[t].rkey
<1>1. p \in Pay /\ k \in RKey /\ Refunds(t, p, k) /\ job[t].result \in {"APPROVED", "DECLINED"}
  BY JobFacts DEF RefundAnswered, NoJob, Job, Refunds, Result
<1>2. Ends(t) /\ job[t].step = "answered"
  BY DEF ServiceTypeOK, RefundAnswered, Done, NoJob, Job, Ends, Others, Gateway, gwVars
<1>3. refund \in [Pay -> [RKey -> {"ABSENT", "PENDING", "SUCCEEDED", "FAILED"}]]
      /\ status \in [Pay -> {"ABSENT"} \cup DOMAIN ALLOWED_TRANSITIONS]
  BY DEF ServiceTypeOK
<1>4. \/ /\ Applies(p, k) /\ job[t].result = "APPROVED"
         /\ refund' = [refund EXCEPT ![p][k] = "SUCCEEDED"]
         /\ status' = [status EXCEPT ![p] = IF Fully(p, k) THEN "REFUNDED" ELSE "PARTIALLY_REFUNDED"]
      \/ /\ Applies(p, k) /\ job[t].result # "APPROVED"
         /\ refund' = [refund EXCEPT ![p][k] = "FAILED"] /\ UNCHANGED status
      \/ UNCHANGED <<status, refund>>
  BY DEF RefundAnswered
<1> HIDE DEF p, k
<1>5. CASE UNCHANGED <<status, refund>>
  BY <1>2, <1>5 DEF Leaves
<1>6. CASE /\ Applies(p, k) /\ job[t].result = "APPROVED"
           /\ refund' = [refund EXCEPT ![p][k] = "SUCCEEDED"]
           /\ status' = [status EXCEPT ![p] = IF Fully(p, k) THEN "REFUNDED" ELSE "PARTIALLY_REFUNDED"]
  <2>1. refund'[p][k] = "SUCCEEDED" /\ RefundBut(p, k)
    BY <1>1, <1>3, <1>6, EntryChanged DEF RefundBut
  <2>2. StatusBut(p) /\ status'[p] = IF Fully(p, k) THEN "REFUNDED" ELSE "PARTIALLY_REFUNDED"
    BY <1>1, <1>3, <1>6 DEF StatusBut
  <2> QED BY <1>1, <1>2, <1>6, <2>1, <2>2 DEF Repays, Applies
<1>7. CASE /\ Applies(p, k) /\ job[t].result # "APPROVED"
           /\ refund' = [refund EXCEPT ![p][k] = "FAILED"] /\ UNCHANGED status
  <2>1. refund'[p][k] = "FAILED" /\ RefundBut(p, k)
    BY <1>1, <1>3, <1>7, EntryChanged DEF RefundBut
  <2> QED BY <1>1, <1>2, <1>7, <2>1 DEF Refuses, Applies
<1> QED BY <1>4, <1>5, <1>6, <1>7

\* A refund whose attempts are used up stays pending.
LEMMA EffectLeaves ==
    ASSUME ServiceTypeOK, NEW t \in Thread, RefundGaveUp(t)
    PROVE  Leaves(t)
  BY DEF ServiceTypeOK, RefundGaveUp, Done, NoJob, Job, Leaves, Ends, Others, Gateway, gwVars

\* Every step of a thread has one of these effects.
LEMMA StepEffect ==
    ASSUME Params, ServiceTypeOK, NEW t \in Thread, Submit(t) \/ Serve(t)
    PROVE  Effect(t)
<1>1. CASE \E p \in Pay : PayBegin(t, p)
  BY <1>1, EffectPays DEF Effect
<1>2. CASE \E p \in Pay, k \in RKey : RefundBegin(t, p, k)
  BY <1>2, EffectAsks DEF Effect
<1>3. CASE \E j \in todo[t] : ReconcileNext(t, j)
  BY <1>3, EffectResumes DEF Effect
<1>4. CASE Call(t)
  BY <1>4, EffectCall DEF Effect
<1>5. CASE ReconcileBegin(t) \/ RefundGaveUp(t) \/ RefundAnswered(t)
  BY <1>5, EffectCollects, EffectLeaves, EffectRefund DEF Effect
<1>6. CASE RiskReject(t) \/ RiskPass(t) \/ ChargeGaveUp(t) \/ ChargeAnswered(t)
  BY <1>6, EffectRejects, EffectPasses, EffectGivesUp, EffectSettles DEF Effect
<1> QED BY <1>1, <1>2, <1>3, <1>4, <1>5, <1>6, ThreadSteps

\* Steps keep what threads work on consistent.
LEMMA WorkStep ==
    ASSUME ServiceTypeOK, WorkOK, NEW t \in Thread, Effect(t)
    PROVE  WorkOK'
<1> USE DEF Created, Asked, Charges, Refunds, Others, StatusBut, RefundBut, Ends, Settled
<1>1. ASSUME NEW p0 \in Pay, Pays(t, p0) PROVE WorkOK'
  <2>1. ChargersOK'
    BY <1>1 DEF Pays, WorkOK, ChargersOK, OneCharger, RefundersOK, AskedOK
  <2>2. OneCharger'
    BY <1>1 DEF Pays, WorkOK, ChargersOK, OneCharger, RefundersOK, AskedOK
  <2>3. RefundersOK'
    BY <1>1 DEF Pays, WorkOK, ChargersOK, OneCharger, RefundersOK, AskedOK
  <2>4. AskedOK'
    BY <1>1 DEF Pays, WorkOK, ChargersOK, OneCharger, RefundersOK, AskedOK
  <2> QED BY <2>1, <2>2, <2>3, <2>4 DEF WorkOK
<1>2. ASSUME NEW p0 \in Pay, Rejects(t, p0) PROVE WorkOK'
  <2>1. ChargersOK'
    BY <1>2 DEF Rejects, WorkOK, ChargersOK, OneCharger, RefundersOK, AskedOK
  <2>2. OneCharger'
    BY <1>2 DEF Rejects, WorkOK, ChargersOK, OneCharger, RefundersOK, AskedOK
  <2>3. RefundersOK'
    BY <1>2 DEF Rejects, WorkOK, ChargersOK, OneCharger, RefundersOK, AskedOK
  <2>4. AskedOK'
    BY <1>2 DEF Rejects, WorkOK, ChargersOK, OneCharger, RefundersOK, AskedOK
  <2> QED BY <2>1, <2>2, <2>3, <2>4 DEF WorkOK
<1>3. ASSUME NEW p0 \in Pay, Passes(t, p0) PROVE WorkOK'
  <2>1. ChargersOK'
    BY <1>3 DEF Passes, SameJob, WorkOK, ChargersOK, OneCharger, RefundersOK, AskedOK
  <2>2. OneCharger'
    BY <1>3 DEF Passes, SameJob, WorkOK, ChargersOK, OneCharger, RefundersOK, AskedOK
  <2>3. RefundersOK'
    BY <1>3 DEF Passes, SameJob, WorkOK, ChargersOK, OneCharger, RefundersOK, AskedOK
  <2>4. AskedOK'
    BY <1>3 DEF Passes, SameJob, WorkOK, ChargersOK, OneCharger, RefundersOK, AskedOK
  <2> QED BY <2>1, <2>2, <2>3, <2>4 DEF WorkOK
<1>4. ASSUME NEW p0 \in Pay, CallsCharge(t, p0) PROVE WorkOK'
  <2>1. ChargersOK'
    BY <1>4 DEF CallsCharge, Calls, SameJob, WorkOK, ChargersOK, OneCharger, RefundersOK, AskedOK
  <2>2. OneCharger'
    BY <1>4 DEF CallsCharge, Calls, SameJob, WorkOK, ChargersOK, OneCharger, RefundersOK, AskedOK
  <2>3. RefundersOK'
    BY <1>4 DEF CallsCharge, Calls, SameJob, WorkOK, ChargersOK, OneCharger, RefundersOK, AskedOK
  <2>4. AskedOK'
    BY <1>4 DEF CallsCharge, Calls, SameJob, WorkOK, ChargersOK, OneCharger, RefundersOK, AskedOK
  <2> QED BY <2>1, <2>2, <2>3, <2>4 DEF WorkOK
<1>5. ASSUME NEW p0 \in Pay, GivesUp(t, p0) PROVE WorkOK'
  <2>1. ChargersOK'
    BY <1>5 DEF GivesUp, WorkOK, ChargersOK, OneCharger, RefundersOK, AskedOK
  <2>2. OneCharger'
    BY <1>5 DEF GivesUp, WorkOK, ChargersOK, OneCharger, RefundersOK, AskedOK
  <2>3. RefundersOK'
    BY <1>5 DEF GivesUp, WorkOK, ChargersOK, OneCharger, RefundersOK, AskedOK
  <2>4. AskedOK'
    BY <1>5 DEF GivesUp, WorkOK, ChargersOK, OneCharger, RefundersOK, AskedOK
  <2> QED BY <2>1, <2>2, <2>3, <2>4 DEF WorkOK
<1>6. ASSUME NEW p0 \in Pay, Settles(t, p0) PROVE WorkOK'
  <2>1. ChargersOK'
    BY <1>6 DEF Settles, Open, WorkOK, ChargersOK, OneCharger, RefundersOK, AskedOK
  <2>2. OneCharger'
    BY <1>6 DEF Settles, Open, WorkOK, ChargersOK, OneCharger, RefundersOK, AskedOK
  <2>3. RefundersOK'
    BY <1>6 DEF Settles, Open, WorkOK, ChargersOK, OneCharger, RefundersOK, AskedOK
  <2>4. AskedOK'
    BY <1>6 DEF Settles, Open, WorkOK, ChargersOK, OneCharger, RefundersOK, AskedOK
  <2> QED BY <2>1, <2>2, <2>3, <2>4 DEF WorkOK
<1>7. ASSUME NEW p0 \in Pay, NEW k0 \in RKey, Asks(t, p0, k0) PROVE WorkOK'
  <2>1. ChargersOK'
    BY <1>7 DEF Asks, REFUNDABLE, WorkOK, ChargersOK, OneCharger, RefundersOK, AskedOK
  <2>2. OneCharger'
    BY <1>7 DEF Asks, REFUNDABLE, WorkOK, ChargersOK, OneCharger, RefundersOK, AskedOK
  <2>3. RefundersOK'
    BY <1>7 DEF Asks, REFUNDABLE, WorkOK, ChargersOK, OneCharger, RefundersOK, AskedOK
  <2>4. AskedOK'
    BY <1>7 DEF Asks, REFUNDABLE, WorkOK, ChargersOK, OneCharger, RefundersOK, AskedOK
  <2> QED BY <2>1, <2>2, <2>3, <2>4 DEF WorkOK
<1>8. ASSUME NEW p0 \in Pay, NEW k0 \in RKey, CallsRefund(t, p0, k0) PROVE WorkOK'
  <2>1. ChargersOK'
    BY <1>8 DEF CallsRefund, Calls, SameJob, WorkOK, ChargersOK, OneCharger, RefundersOK, AskedOK
  <2>2. OneCharger'
    BY <1>8 DEF CallsRefund, Calls, SameJob, WorkOK, ChargersOK, OneCharger, RefundersOK, AskedOK
  <2>3. RefundersOK'
    BY <1>8 DEF CallsRefund, Calls, SameJob, WorkOK, ChargersOK, OneCharger, RefundersOK, AskedOK
  <2>4. AskedOK'
    BY <1>8 DEF CallsRefund, Calls, SameJob, WorkOK, ChargersOK, OneCharger, RefundersOK, AskedOK
  <2> QED BY <2>1, <2>2, <2>3, <2>4 DEF WorkOK
<1>9. ASSUME NEW p0 \in Pay, NEW k0 \in RKey, Repays(t, p0, k0) PROVE WorkOK'
  <2>1. ChargersOK'
    BY <1>9 DEF Repays, WorkOK, ChargersOK, OneCharger, RefundersOK, AskedOK
  <2>2. OneCharger'
    BY <1>9 DEF Repays, WorkOK, ChargersOK, OneCharger, RefundersOK, AskedOK
  <2>3. RefundersOK'
    BY <1>9 DEF Repays, WorkOK, ChargersOK, OneCharger, RefundersOK, AskedOK
  <2>4. AskedOK'
    BY <1>9 DEF Repays, WorkOK, ChargersOK, OneCharger, RefundersOK, AskedOK
  <2> QED BY <2>1, <2>2, <2>3, <2>4 DEF WorkOK
<1>10. ASSUME NEW p0 \in Pay, NEW k0 \in RKey, Refuses(t, p0, k0) PROVE WorkOK'
  <2>1. ChargersOK'
    BY <1>10 DEF Refuses, WorkOK, ChargersOK, OneCharger, RefundersOK, AskedOK
  <2>2. OneCharger'
    BY <1>10 DEF Refuses, WorkOK, ChargersOK, OneCharger, RefundersOK, AskedOK
  <2>3. RefundersOK'
    BY <1>10 DEF Refuses, WorkOK, ChargersOK, OneCharger, RefundersOK, AskedOK
  <2>4. AskedOK'
    BY <1>10 DEF Refuses, WorkOK, ChargersOK, OneCharger, RefundersOK, AskedOK
  <2> QED BY <2>1, <2>2, <2>3, <2>4 DEF WorkOK
<1>11. ASSUME Collects(t) PROVE WorkOK'
  <2>1. ChargersOK'
    BY <1>11 DEF Collects, WorkOK, ChargersOK, OneCharger, RefundersOK, AskedOK
  <2>2. OneCharger'
    BY <1>11 DEF Collects, WorkOK, ChargersOK, OneCharger, RefundersOK, AskedOK
  <2>3. RefundersOK'
    BY <1>11 DEF Collects, WorkOK, ChargersOK, OneCharger, RefundersOK, AskedOK
  <2>4. AskedOK'
    BY <1>11 DEF Collects, WorkOK, ChargersOK, OneCharger, RefundersOK, AskedOK
  <2> QED BY <2>1, <2>2, <2>3, <2>4 DEF WorkOK
<1>12. ASSUME Resumes(t) PROVE WorkOK'
  <2>1. ChargersOK'
    BY <1>12 DEF Resumes, WorkOK, ChargersOK, OneCharger, RefundersOK, AskedOK
  <2>2. OneCharger'
    BY <1>12 DEF Resumes, WorkOK, ChargersOK, OneCharger, RefundersOK, AskedOK
  <2>3. RefundersOK'
    BY <1>12 DEF Resumes, WorkOK, ChargersOK, OneCharger, RefundersOK, AskedOK
  <2>4. AskedOK'
    BY <1>12 DEF Resumes, WorkOK, ChargersOK, OneCharger, RefundersOK, AskedOK
  <2> QED BY <2>1, <2>2, <2>3, <2>4 DEF WorkOK
<1>13. ASSUME Loses(t) PROVE WorkOK'
  <2>1. ChargersOK'
    BY <1>13 DEF Loses, Calls, SameJob, WorkOK, ChargersOK, OneCharger, RefundersOK, AskedOK
  <2>2. OneCharger'
    BY <1>13 DEF Loses, Calls, SameJob, WorkOK, ChargersOK, OneCharger, RefundersOK, AskedOK
  <2>3. RefundersOK'
    BY <1>13 DEF Loses, Calls, SameJob, WorkOK, ChargersOK, OneCharger, RefundersOK, AskedOK
  <2>4. AskedOK'
    BY <1>13 DEF Loses, Calls, SameJob, WorkOK, ChargersOK, OneCharger, RefundersOK, AskedOK
  <2> QED BY <2>1, <2>2, <2>3, <2>4 DEF WorkOK
<1>14. ASSUME Leaves(t) PROVE WorkOK'
  <2>1. ChargersOK'
    BY <1>14 DEF Leaves, WorkOK, ChargersOK, OneCharger, RefundersOK, AskedOK
  <2>2. OneCharger'
    BY <1>14 DEF Leaves, WorkOK, ChargersOK, OneCharger, RefundersOK, AskedOK
  <2>3. RefundersOK'
    BY <1>14 DEF Leaves, WorkOK, ChargersOK, OneCharger, RefundersOK, AskedOK
  <2>4. AskedOK'
    BY <1>14 DEF Leaves, WorkOK, ChargersOK, OneCharger, RefundersOK, AskedOK
  <2> QED BY <2>1, <2>2, <2>3, <2>4 DEF WorkOK
<1> QED BY <1>1, <1>2, <1>3, <1>4, <1>5, <1>6, <1>7, <1>8, <1>9, <1>10, <1>11, <1>12, <1>13, <1>14 DEF Effect

\* A key that is shared stays shared.
LEMMA KeysStep ==
    ASSUME ServiceTypeOK, WorkOK, NEW t \in Thread, Effect(t), KeysDistinct'
    PROVE  KeysDistinct
<1> USE DEF Created, Asked, Charges, Refunds, Others, StatusBut, RefundBut, Ends, Settled
<1>1. ASSUME NEW p0 \in Pay, Pays(t, p0)
      PROVE  /\ \A p \in Pay : Created(p) => Created(p)'
             /\ \A p \in Pay, k \in RKey : Asked(p, k) => Asked(p, k)'
  BY <1>1 DEF Pays
<1>2. ASSUME NEW p0 \in Pay, Rejects(t, p0)
      PROVE  /\ \A p \in Pay : Created(p) => Created(p)'
             /\ \A p \in Pay, k \in RKey : Asked(p, k) => Asked(p, k)'
  BY <1>2 DEF Rejects
<1>3. ASSUME NEW p0 \in Pay, Passes(t, p0)
      PROVE  /\ \A p \in Pay : Created(p) => Created(p)'
             /\ \A p \in Pay, k \in RKey : Asked(p, k) => Asked(p, k)'
  BY <1>3 DEF Passes, SameJob
<1>4. ASSUME NEW p0 \in Pay, CallsCharge(t, p0)
      PROVE  /\ \A p \in Pay : Created(p) => Created(p)'
             /\ \A p \in Pay, k \in RKey : Asked(p, k) => Asked(p, k)'
  BY <1>4 DEF CallsCharge, Calls, SameJob
<1>5. ASSUME NEW p0 \in Pay, GivesUp(t, p0)
      PROVE  /\ \A p \in Pay : Created(p) => Created(p)'
             /\ \A p \in Pay, k \in RKey : Asked(p, k) => Asked(p, k)'
  BY <1>5 DEF GivesUp
<1>6. ASSUME NEW p0 \in Pay, Settles(t, p0)
      PROVE  /\ \A p \in Pay : Created(p) => Created(p)'
             /\ \A p \in Pay, k \in RKey : Asked(p, k) => Asked(p, k)'
  BY <1>6 DEF Settles, Open
<1>7. ASSUME NEW p0 \in Pay, NEW k0 \in RKey, Asks(t, p0, k0)
      PROVE  /\ \A p \in Pay : Created(p) => Created(p)'
             /\ \A p \in Pay, k \in RKey : Asked(p, k) => Asked(p, k)'
  BY <1>7 DEF Asks, REFUNDABLE
<1>8. ASSUME NEW p0 \in Pay, NEW k0 \in RKey, CallsRefund(t, p0, k0)
      PROVE  /\ \A p \in Pay : Created(p) => Created(p)'
             /\ \A p \in Pay, k \in RKey : Asked(p, k) => Asked(p, k)'
  BY <1>8 DEF CallsRefund, Calls, SameJob
<1>9. ASSUME NEW p0 \in Pay, NEW k0 \in RKey, Repays(t, p0, k0)
      PROVE  /\ \A p \in Pay : Created(p) => Created(p)'
             /\ \A p \in Pay, k \in RKey : Asked(p, k) => Asked(p, k)'
  BY <1>9 DEF Repays
<1>10. ASSUME NEW p0 \in Pay, NEW k0 \in RKey, Refuses(t, p0, k0)
      PROVE  /\ \A p \in Pay : Created(p) => Created(p)'
             /\ \A p \in Pay, k \in RKey : Asked(p, k) => Asked(p, k)'
  BY <1>10 DEF Refuses
<1>11. ASSUME Collects(t)
      PROVE  /\ \A p \in Pay : Created(p) => Created(p)'
             /\ \A p \in Pay, k \in RKey : Asked(p, k) => Asked(p, k)'
  BY <1>11 DEF Collects
<1>12. ASSUME Resumes(t)
      PROVE  /\ \A p \in Pay : Created(p) => Created(p)'
             /\ \A p \in Pay, k \in RKey : Asked(p, k) => Asked(p, k)'
  BY <1>12 DEF Resumes
<1>13. ASSUME Loses(t)
      PROVE  /\ \A p \in Pay : Created(p) => Created(p)'
             /\ \A p \in Pay, k \in RKey : Asked(p, k) => Asked(p, k)'
  BY <1>13 DEF Loses, Calls, SameJob
<1>14. ASSUME Leaves(t)
      PROVE  /\ \A p \in Pay : Created(p) => Created(p)'
             /\ \A p \in Pay, k \in RKey : Asked(p, k) => Asked(p, k)'
  BY <1>14 DEF Leaves
<1>20. /\ \A p \in Pay : Created(p) => Created(p)'
       /\ \A p \in Pay, k \in RKey : Asked(p, k) => Asked(p, k)'
  <2> HIDE DEF Created, Asked
  <2> QED BY <1>1, <1>2, <1>3, <1>4, <1>5, <1>6, <1>7, <1>8, <1>9, <1>10, <1>11, <1>12, <1>13, <1>14 DEF Effect
<1> HIDE DEF Created, Asked
<1> QED BY <1>20 DEF KeysDistinct

\* Steps keep the service and the gateway agreed on charges.
LEMMA ChargeStep ==
    ASSUME Params, ServiceTypeOK, WorkOK, ChargeOK, KeysDistinct, KeysDistinct', NEW t \in Thread, Effect(t)
    PROVE  ChargeOK'
<1> USE DEF Created, Asked, Charges, Refunds, Others, StatusBut, RefundBut, Ends, Settled, Gateway
<1>0. \A p \in Pay : KeyOf[p] \in Key
  BY DEF Params
<1>01. \A u \in Thread : job[u].step = "answered" => job[u].result # "none"
  BY JobFacts DEF NoJob, Job
<1>1. ASSUME NEW p0 \in Pay, Pays(t, p0) PROVE ChargeOK'
  <2>0. gwCharge[KeyOf[p0]] = "none"
    <3> SUFFICES ASSUME gwCharge[KeyOf[p0]] # "none" PROVE FALSE
      OBVIOUS
    <3>1. PICK q \in Pay : Created(q) /\ KeyOf[q] = KeyOf[p0]
      BY <1>0 DEF ChargeOK, ChargeKnown
    <3>2. Created(q)' /\ Created(p0)' /\ q # p0
      BY <1>1, <3>1 DEF Pays
    <3> QED BY <3>1, <3>2 DEF KeysDistinct
  <2>1. ChargeKnown'
    BY <1>1, <2>0 DEF Pays, ChargeOK, ChargeKnown
  <2>2. ChargeCounted'
    BY <1>1, <2>0 DEF Pays, ChargeOK, ChargeCounted
  <2>3. SettledOK'
    BY <1>1, <2>0 DEF Pays, ChargeOK, SettledOK
  <2>4. FailedOK'
    BY <1>1, <2>0 DEF Pays, ChargeOK, FailedOK, WorkOK, ChargersOK
  <2>5. ChargeAnswers'
    BY <1>1, <2>0 DEF Pays, ChargeOK, ChargeAnswers, WorkOK, ChargersOK
  <2> QED BY <2>1, <2>2, <2>3, <2>4, <2>5 DEF ChargeOK
<1>2. ASSUME NEW p0 \in Pay, Rejects(t, p0) PROVE ChargeOK'
  <2>1. ChargeKnown'
    BY <1>2 DEF Rejects, ChargeOK, ChargeKnown
  <2>2. ChargeCounted'
    BY <1>2 DEF Rejects, ChargeOK, ChargeCounted, WorkOK, ChargersOK
  <2>3. SettledOK'
    BY <1>2 DEF Rejects, ChargeOK, SettledOK
  <2>4. FailedOK'
    BY <1>2 DEF Rejects, ChargeOK, FailedOK, ChargeAnswers, WorkOK, ChargersOK, OneCharger
  <2>5. ChargeAnswers'
    BY <1>2 DEF Rejects, ChargeOK, ChargeAnswers
  <2> QED BY <2>1, <2>2, <2>3, <2>4, <2>5 DEF ChargeOK
<1>3. ASSUME NEW p0 \in Pay, Passes(t, p0) PROVE ChargeOK'
  <2>1. ChargeKnown'
    BY <1>3 DEF Passes, SameJob, ChargeOK, ChargeKnown
  <2>2. ChargeCounted'
    BY <1>3 DEF Passes, SameJob, ChargeOK, ChargeCounted
  <2>3. SettledOK'
    BY <1>3 DEF Passes, SameJob, ChargeOK, SettledOK
  <2>4. FailedOK'
    BY <1>3 DEF Passes, SameJob, ChargeOK, FailedOK
  <2>5. ChargeAnswers'
    BY <1>3 DEF Passes, SameJob, ChargeOK, ChargeAnswers
  <2> QED BY <2>1, <2>2, <2>3, <2>4, <2>5 DEF ChargeOK
<1>4. ASSUME NEW p0 \in Pay, CallsCharge(t, p0) PROVE ChargeOK'
  <2>0. /\ KeyOf[p0] \in Key /\ Created(p0)
        /\ \A q \in Pay : Created(q) /\ q # p0 => KeyOf[q] \in Key \ {KeyOf[p0]}
    BY <1>4, <1>0 DEF CallsCharge, WorkOK, ChargersOK, KeysDistinct
  <2>1. ChargeKnown'
    BY <1>4, <2>0 DEF CallsCharge, Calls, SameJob, ChargeOK, ChargeKnown
  <2>2. ChargeCounted'
    BY <1>4, <2>0 DEF CallsCharge, Calls, SameJob, ChargeOK, ChargeCounted
  <2>3. SettledOK'
    BY <1>4, <2>0 DEF CallsCharge, Calls, SameJob, ChargeOK, SettledOK
  <2>4. FailedOK'
    BY <1>4, <2>0 DEF CallsCharge, Calls, SameJob, ChargeOK, FailedOK, WorkOK, ChargersOK
  <2>5. ChargeAnswers'
    BY <1>4, <2>0, <1>01 DEF CallsCharge, Calls, SameJob, ChargeOK, ChargeAnswers, WorkOK, ChargersOK, OneCharger
  <2> QED BY <2>1, <2>2, <2>3, <2>4, <2>5 DEF ChargeOK
<1>5. ASSUME NEW p0 \in Pay, GivesUp(t, p0) PROVE ChargeOK'
  <2>1. ChargeKnown'
    BY <1>5 DEF GivesUp, ChargeOK, ChargeKnown
  <2>2. ChargeCounted'
    BY <1>5 DEF GivesUp, ChargeOK, ChargeCounted
  <2>3. SettledOK'
    BY <1>5 DEF GivesUp, ChargeOK, SettledOK
  <2>4. FailedOK'
    BY <1>5 DEF GivesUp, ChargeOK, FailedOK
  <2>5. ChargeAnswers'
    BY <1>5 DEF GivesUp, ChargeOK, ChargeAnswers
  <2> QED BY <2>1, <2>2, <2>3, <2>4, <2>5 DEF ChargeOK
<1>6. ASSUME NEW p0 \in Pay, Settles(t, p0) PROVE ChargeOK'
  <2>0. job[t].result \in {"APPROVED", "DECLINED"}
    BY <1>6, JobFacts DEF Settles, NoJob, Job, Result
  <2>1. ChargeKnown'
    BY <1>6, <2>0 DEF Settles, Open, ChargeOK, ChargeKnown
  <2>2. ChargeCounted'
    BY <1>6, <2>0 DEF Settles, Open, ChargeOK, ChargeCounted
  <2>3. SettledOK'
    BY <1>6, <2>0 DEF Settles, Open, ChargeOK, SettledOK, ChargeAnswers
  <2>4. FailedOK'
    BY <1>6, <2>0 DEF Settles, Open, ChargeOK, FailedOK, ChargeAnswers
  <2>5. ChargeAnswers'
    BY <1>6, <2>0 DEF Settles, Open, ChargeOK, ChargeAnswers
  <2> QED BY <2>1, <2>2, <2>3, <2>4, <2>5 DEF ChargeOK
<1>7. ASSUME NEW p0 \in Pay, NEW k0 \in RKey, Asks(t, p0, k0) PROVE ChargeOK'
  <2>1. ChargeKnown'
    BY <1>7 DEF Asks, REFUNDABLE, ChargeOK, ChargeKnown
  <2>2. ChargeCounted'
    BY <1>7 DEF Asks, REFUNDABLE, ChargeOK, ChargeCounted
  <2>3. SettledOK'
    BY <1>7 DEF Asks, REFUNDABLE, ChargeOK, SettledOK
  <2>4. FailedOK'
    BY <1>7 DEF Asks, REFUNDABLE, ChargeOK, FailedOK
  <2>5. ChargeAnswers'
    BY <1>7 DEF Asks, REFUNDABLE, ChargeOK, ChargeAnswers
  <2> QED BY <2>1, <2>2, <2>3, <2>4, <2>5 DEF ChargeOK
<1>8. ASSUME NEW p0 \in Pay, NEW k0 \in RKey, CallsRefund(t, p0, k0) PROVE ChargeOK'
  <2>1. ChargeKnown'
    BY <1>8 DEF CallsRefund, Calls, SameJob, ChargeOK, ChargeKnown
  <2>2. ChargeCounted'
    BY <1>8 DEF CallsRefund, Calls, SameJob, ChargeOK, ChargeCounted
  <2>3. SettledOK'
    BY <1>8 DEF CallsRefund, Calls, SameJob, ChargeOK, SettledOK
  <2>4. FailedOK'
    BY <1>8 DEF CallsRefund, Calls, SameJob, ChargeOK, FailedOK
  <2>5. ChargeAnswers'
    BY <1>8 DEF CallsRefund, Calls, SameJob, ChargeOK, ChargeAnswers
  <2> QED BY <2>1, <2>2, <2>3, <2>4, <2>5 DEF ChargeOK
<1>9. ASSUME NEW p0 \in Pay, NEW k0 \in RKey, Repays(t, p0, k0) PROVE ChargeOK'
  <2>1. ChargeKnown'
    BY <1>9 DEF Repays, ChargeOK, ChargeKnown
  <2>2. ChargeCounted'
    BY <1>9 DEF Repays, ChargeOK, ChargeCounted, WorkOK, AskedOK
  <2>3. SettledOK'
    BY <1>9 DEF Repays, ChargeOK, SettledOK, WorkOK, AskedOK
  <2>4. FailedOK'
    BY <1>9 DEF Repays, ChargeOK, FailedOK
  <2>5. ChargeAnswers'
    BY <1>9 DEF Repays, ChargeOK, ChargeAnswers
  <2> QED BY <2>1, <2>2, <2>3, <2>4, <2>5 DEF ChargeOK
<1>10. ASSUME NEW p0 \in Pay, NEW k0 \in RKey, Refuses(t, p0, k0) PROVE ChargeOK'
  <2>1. ChargeKnown'
    BY <1>10 DEF Refuses, ChargeOK, ChargeKnown
  <2>2. ChargeCounted'
    BY <1>10 DEF Refuses, ChargeOK, ChargeCounted
  <2>3. SettledOK'
    BY <1>10 DEF Refuses, ChargeOK, SettledOK
  <2>4. FailedOK'
    BY <1>10 DEF Refuses, ChargeOK, FailedOK
  <2>5. ChargeAnswers'
    BY <1>10 DEF Refuses, ChargeOK, ChargeAnswers
  <2> QED BY <2>1, <2>2, <2>3, <2>4, <2>5 DEF ChargeOK
<1>11. ASSUME Collects(t) PROVE ChargeOK'
  <2>1. ChargeKnown'
    BY <1>11 DEF Collects, ChargeOK, ChargeKnown
  <2>2. ChargeCounted'
    BY <1>11 DEF Collects, ChargeOK, ChargeCounted
  <2>3. SettledOK'
    BY <1>11 DEF Collects, ChargeOK, SettledOK
  <2>4. FailedOK'
    BY <1>11 DEF Collects, ChargeOK, FailedOK
  <2>5. ChargeAnswers'
    BY <1>11 DEF Collects, ChargeOK, ChargeAnswers
  <2> QED BY <2>1, <2>2, <2>3, <2>4, <2>5 DEF ChargeOK
<1>12. ASSUME Resumes(t) PROVE ChargeOK'
  <2>1. ChargeKnown'
    BY <1>12 DEF Resumes, ChargeOK, ChargeKnown
  <2>2. ChargeCounted'
    BY <1>12 DEF Resumes, ChargeOK, ChargeCounted
  <2>3. SettledOK'
    BY <1>12 DEF Resumes, ChargeOK, SettledOK
  <2>4. FailedOK'
    BY <1>12 DEF Resumes, ChargeOK, FailedOK
  <2>5. ChargeAnswers'
    BY <1>12 DEF Resumes, ChargeOK, ChargeAnswers
  <2> QED BY <2>1, <2>2, <2>3, <2>4, <2>5 DEF ChargeOK
<1>13. ASSUME Loses(t) PROVE ChargeOK'
  <2>1. ChargeKnown'
    BY <1>13 DEF Loses, Calls, SameJob, ChargeOK, ChargeKnown
  <2>2. ChargeCounted'
    BY <1>13 DEF Loses, Calls, SameJob, ChargeOK, ChargeCounted
  <2>3. SettledOK'
    BY <1>13 DEF Loses, Calls, SameJob, ChargeOK, SettledOK
  <2>4. FailedOK'
    BY <1>13 DEF Loses, Calls, SameJob, ChargeOK, FailedOK
  <2>5. ChargeAnswers'
    BY <1>13 DEF Loses, Calls, SameJob, ChargeOK, ChargeAnswers
  <2> QED BY <2>1, <2>2, <2>3, <2>4, <2>5 DEF ChargeOK
<1>14. ASSUME Leaves(t) PROVE ChargeOK'
  <2>1. ChargeKnown'
    BY <1>14 DEF Leaves, ChargeOK, ChargeKnown
  <2>2. ChargeCounted'
    BY <1>14 DEF Leaves, ChargeOK, ChargeCounted
  <2>3. SettledOK'
    BY <1>14 DEF Leaves, ChargeOK, SettledOK
  <2>4. FailedOK'
    BY <1>14 DEF Leaves, ChargeOK, FailedOK
  <2>5. ChargeAnswers'
    BY <1>14 DEF Leaves, ChargeOK, ChargeAnswers
  <2> QED BY <2>1, <2>2, <2>3, <2>4, <2>5 DEF ChargeOK
<1> QED BY <1>1, <1>2, <1>3, <1>4, <1>5, <1>6, <1>7, <1>8, <1>9, <1>10, <1>11, <1>12, <1>13, <1>14 DEF Effect

\* Steps keep the service and the gateway agreed on refunds.
LEMMA RefundStep ==
    ASSUME Params, ServiceTypeOK, WorkOK, RefundOK, KeysDistinct, KeysDistinct', NEW t \in Thread, Effect(t)
    PROVE  RefundOK'
<1> USE DEF Created, Asked, Charges, Refunds, Others, StatusBut, RefundBut, Ends, Settled, Gateway
<1>01. \A u \in Thread : job[u].step = "answered" => job[u].result # "none"
  BY JobFacts DEF NoJob, Job
<1>1. ASSUME NEW p0 \in Pay, Pays(t, p0) PROVE RefundOK'
  <2>1. RefundKnown'
    BY <1>1 DEF Pays, RefundOK, RefundKnown
  <2>2. RefundCounted'
    BY <1>1 DEF Pays, RefundOK, RefundCounted
  <2>3. RepaidOK'
    BY <1>1 DEF Pays, RefundOK, RepaidOK
  <2>4. RefundAnswers'
    BY <1>1 DEF Pays, RefundOK, RefundAnswers
  <2> QED BY <2>1, <2>2, <2>3, <2>4 DEF RefundOK
<1>2. ASSUME NEW p0 \in Pay, Rejects(t, p0) PROVE RefundOK'
  <2>1. RefundKnown'
    BY <1>2 DEF Rejects, RefundOK, RefundKnown
  <2>2. RefundCounted'
    BY <1>2 DEF Rejects, RefundOK, RefundCounted
  <2>3. RepaidOK'
    BY <1>2 DEF Rejects, RefundOK, RepaidOK
  <2>4. RefundAnswers'
    BY <1>2 DEF Rejects, RefundOK, RefundAnswers
  <2> QED BY <2>1, <2>2, <2>3, <2>4 DEF RefundOK
<1>3. ASSUME NEW p0 \in Pay, Passes(t, p0) PROVE RefundOK'
  <2>1. RefundKnown'
    BY <1>3 DEF Passes, SameJob, RefundOK, RefundKnown
  <2>2. RefundCounted'
    BY <1>3 DEF Passes, SameJob, RefundOK, RefundCounted
  <2>3. RepaidOK'
    BY <1>3 DEF Passes, SameJob, RefundOK, RepaidOK
  <2>4. RefundAnswers'
    BY <1>3 DEF Passes, SameJob, RefundOK, RefundAnswers
  <2> QED BY <2>1, <2>2, <2>3, <2>4 DEF RefundOK
<1>4. ASSUME NEW p0 \in Pay, CallsCharge(t, p0) PROVE RefundOK'
  <2>1. RefundKnown'
    BY <1>4 DEF CallsCharge, Calls, SameJob, RefundOK, RefundKnown
  <2>2. RefundCounted'
    BY <1>4 DEF CallsCharge, Calls, SameJob, RefundOK, RefundCounted
  <2>3. RepaidOK'
    BY <1>4 DEF CallsCharge, Calls, SameJob, RefundOK, RepaidOK
  <2>4. RefundAnswers'
    BY <1>4 DEF CallsCharge, Calls, SameJob, RefundOK, RefundAnswers
  <2> QED BY <2>1, <2>2, <2>3, <2>4 DEF RefundOK
<1>5. ASSUME NEW p0 \in Pay, GivesUp(t, p0) PROVE RefundOK'
  <2>1. RefundKnown'
    BY <1>5 DEF GivesUp, RefundOK, RefundKnown
  <2>2. RefundCounted'
    BY <1>5 DEF GivesUp, RefundOK, RefundCounted
  <2>3. RepaidOK'
    BY <1>5 DEF GivesUp, RefundOK, RepaidOK
  <2>4. RefundAnswers'
    BY <1>5 DEF GivesUp, RefundOK, RefundAnswers
  <2> QED BY <2>1, <2>2, <2>3, <2>4 DEF RefundOK
<1>6. ASSUME NEW p0 \in Pay, Settles(t, p0) PROVE RefundOK'
  <2>1. RefundKnown'
    BY <1>6 DEF Settles, Open, RefundOK, RefundKnown
  <2>2. RefundCounted'
    BY <1>6 DEF Settles, Open, RefundOK, RefundCounted
  <2>3. RepaidOK'
    BY <1>6 DEF Settles, Open, RefundOK, RepaidOK
  <2>4. RefundAnswers'
    BY <1>6 DEF Settles, Open, RefundOK, RefundAnswers
  <2> QED BY <2>1, <2>2, <2>3, <2>4 DEF RefundOK
<1>7. ASSUME NEW p0 \in Pay, NEW k0 \in RKey, Asks(t, p0, k0) PROVE RefundOK'
  <2>0. gwRefund[k0] = "none"
    <3> SUFFICES ASSUME gwRefund[k0] # "none" PROVE FALSE
      OBVIOUS
    <3>1. PICK q \in Pay : Asked(q, k0)
      BY DEF RefundOK, RefundKnown
    <3>2. Asked(q, k0)' /\ Asked(p0, k0)' /\ q # p0
      BY <1>7, <3>1 DEF Asks
    <3> QED BY <3>1, <3>2 DEF KeysDistinct
  <2>1. RefundKnown'
    BY <1>7, <2>0 DEF Asks, REFUNDABLE, RefundOK, RefundKnown
  <2>2. RefundCounted'
    BY <1>7, <2>0 DEF Asks, REFUNDABLE, RefundOK, RefundCounted
  <2>3. RepaidOK'
    BY <1>7, <2>0 DEF Asks, REFUNDABLE, RefundOK, RepaidOK
  <2>4. RefundAnswers'
    BY <1>7, <2>0 DEF Asks, REFUNDABLE, RefundOK, RefundAnswers, WorkOK, RefundersOK
  <2> QED BY <2>1, <2>2, <2>3, <2>4 DEF RefundOK
<1>8. ASSUME NEW p0 \in Pay, NEW k0 \in RKey, CallsRefund(t, p0, k0) PROVE RefundOK'
  <2>0. Asked(p0, k0) /\ \A q \in Pay : Asked(q, k0) => q = p0
    BY <1>8 DEF CallsRefund, WorkOK, RefundersOK, KeysDistinct
  <2>1. RefundKnown'
    BY <1>8, <2>0 DEF CallsRefund, Calls, SameJob, RefundOK, RefundKnown
  <2>2. RefundCounted'
    BY <1>8, <2>0 DEF CallsRefund, Calls, SameJob, RefundOK, RefundCounted
  <2>3. RepaidOK'
    BY <1>8, <2>0 DEF CallsRefund, Calls, SameJob, RefundOK, RepaidOK
  <2>4. RefundAnswers'
    BY <1>8, <2>0, <1>01 DEF CallsRefund, Calls, SameJob, RefundOK, RefundAnswers, WorkOK, RefundersOK
  <2> QED BY <2>1, <2>2, <2>3, <2>4 DEF RefundOK
<1>9. ASSUME NEW p0 \in Pay, NEW k0 \in RKey, Repays(t, p0, k0) PROVE RefundOK'
  <2>1. RefundKnown'
    BY <1>9 DEF Repays, RefundOK, RefundKnown
  <2>2. RefundCounted'
    BY <1>9 DEF Repays, RefundOK, RefundCounted
  <2>3. RepaidOK'
    BY <1>9 DEF Repays, RefundOK, RepaidOK, RefundAnswers
  <2>4. RefundAnswers'
    BY <1>9 DEF Repays, RefundOK, RefundAnswers
  <2> QED BY <2>1, <2>2, <2>3, <2>4 DEF RefundOK
<1>10. ASSUME NEW p0 \in Pay, NEW k0 \in RKey, Refuses(t, p0, k0) PROVE RefundOK'
  <2>1. RefundKnown'
    BY <1>10 DEF Refuses, RefundOK, RefundKnown
  <2>2. RefundCounted'
    BY <1>10 DEF Refuses, RefundOK, RefundCounted
  <2>3. RepaidOK'
    BY <1>10 DEF Refuses, RefundOK, RepaidOK, RefundAnswers
  <2>4. RefundAnswers'
    BY <1>10 DEF Refuses, RefundOK, RefundAnswers
  <2> QED BY <2>1, <2>2, <2>3, <2>4 DEF RefundOK
<1>11. ASSUME Collects(t) PROVE RefundOK'
  <2>1. RefundKnown'
    BY <1>11 DEF Collects, RefundOK, RefundKnown
  <2>2. RefundCounted'
    BY <1>11 DEF Collects, RefundOK, RefundCounted
  <2>3. RepaidOK'
    BY <1>11 DEF Collects, RefundOK, RepaidOK
  <2>4. RefundAnswers'
    BY <1>11 DEF Collects, RefundOK, RefundAnswers
  <2> QED BY <2>1, <2>2, <2>3, <2>4 DEF RefundOK
<1>12. ASSUME Resumes(t) PROVE RefundOK'
  <2>1. RefundKnown'
    BY <1>12 DEF Resumes, RefundOK, RefundKnown
  <2>2. RefundCounted'
    BY <1>12 DEF Resumes, RefundOK, RefundCounted
  <2>3. RepaidOK'
    BY <1>12 DEF Resumes, RefundOK, RepaidOK
  <2>4. RefundAnswers'
    BY <1>12 DEF Resumes, RefundOK, RefundAnswers
  <2> QED BY <2>1, <2>2, <2>3, <2>4 DEF RefundOK
<1>13. ASSUME Loses(t) PROVE RefundOK'
  <2>1. RefundKnown'
    BY <1>13 DEF Loses, Calls, SameJob, RefundOK, RefundKnown
  <2>2. RefundCounted'
    BY <1>13 DEF Loses, Calls, SameJob, RefundOK, RefundCounted
  <2>3. RepaidOK'
    BY <1>13 DEF Loses, Calls, SameJob, RefundOK, RepaidOK
  <2>4. RefundAnswers'
    BY <1>13 DEF Loses, Calls, SameJob, RefundOK, RefundAnswers
  <2> QED BY <2>1, <2>2, <2>3, <2>4 DEF RefundOK
<1>14. ASSUME Leaves(t) PROVE RefundOK'
  <2>1. RefundKnown'
    BY <1>14 DEF Leaves, RefundOK, RefundKnown
  <2>2. RefundCounted'
    BY <1>14 DEF Leaves, RefundOK, RefundCounted
  <2>3. RepaidOK'
    BY <1>14 DEF Leaves, RefundOK, RepaidOK
  <2>4. RefundAnswers'
    BY <1>14 DEF Leaves, RefundOK, RefundAnswers
  <2> QED BY <2>1, <2>2, <2>3, <2>4 DEF RefundOK
<1> QED BY <1>1, <1>2, <1>3, <1>4, <1>5, <1>6, <1>7, <1>8, <1>9, <1>10, <1>11, <1>12, <1>13, <1>14 DEF Effect

\* A total is a natural number.
LEMMA TotalType ==
    ASSUME Params, NEW p \in Pay, NEW st
    PROVE  /\ Total(p, st) \in Nat /\ Total(p, st)' \in Nat
           /\ Amount[p] \in Nat \ {0} /\ \A k \in RKey : RAmount[k] \in Nat \ {0}
<1>1. /\ \A k \in RKey : RAmount[k] \in Nat
      /\ \A k \in RKey : RAmount[k] \in Nat \ {0}
      /\ IsFiniteSet(RKey) /\ Amount[p] \in Nat \ {0}
  BY DEF Params
<1>2. \A S \in SUBSET RKey : SumFunctionOnSet(RAmount, S) \in Nat
  BY <1>1, SumRemove
<1>3. {k \in RKey : refund[p][k] = st} \in SUBSET RKey /\ {k \in RKey : refund'[p][k] = st} \in SUBSET RKey
  OBVIOUS
<1> QED BY <1>1, <1>2, <1>3 DEF Total

\* The totals of a payment none of whose refunds changes.
LEMMA TotalSame ==
    ASSUME NEW p \in Pay, \A k \in RKey : refund'[p][k] = refund[p][k], NEW st
    PROVE  Total(p, st)' = Total(p, st)
<1>1. {k \in RKey : refund'[p][k] = st} = {k \in RKey : refund[p][k] = st}
  OBVIOUS
<1> QED BY <1>1 DEF Total

\* The totals of a payment when one refund goes from a to b.
LEMMA TotalMoves ==
    ASSUME Params, NEW p \in Pay, NEW k \in RKey, NEW a, NEW b, a # b,
           refund[p][k] = a, refund'[p][k] = b,
           \A i \in RKey \ {k} : refund'[p][i] = refund[p][i]
    PROVE  /\ Total(p, a) = Total(p, a)' + RAmount[k]
           /\ Total(p, b)' = Total(p, b) + RAmount[k]
           /\ \A st : st # a /\ st # b => Total(p, st)' = Total(p, st)
<1> DEFINE S(st) == {i \in RKey : refund[p][i] = st}
           R(st) == {i \in RKey : refund'[p][i] = st}
<1>1. /\ S(a) \in SUBSET RKey /\ R(a) \in SUBSET RKey /\ S(b) \in SUBSET RKey /\ R(b) \in SUBSET RKey
      /\ k \in S(a) /\ R(a) = S(a) \ {k} /\ k \in R(b) /\ S(b) = R(b) \ {k}
  OBVIOUS
<1>2. \A st : st # a /\ st # b => R(st) = S(st)
  OBVIOUS
<1>3. (\A i \in RKey : RAmount[i] \in Nat) /\ IsFiniteSet(RKey)
  BY DEF Params
<1>4. \A st : Total(p, st) = SumFunctionOnSet(RAmount, S(st)) /\ Total(p, st)' = SumFunctionOnSet(RAmount, R(st))
  BY DEF Total
<1> HIDE DEF S, R
<1>5. /\ SumFunctionOnSet(RAmount, S(a)) = RAmount[k] + SumFunctionOnSet(RAmount, R(a))
      /\ SumFunctionOnSet(RAmount, R(b)) = RAmount[k] + SumFunctionOnSet(RAmount, S(b))
      /\ SumFunctionOnSet(RAmount, R(a)) \in Nat /\ SumFunctionOnSet(RAmount, S(b)) \in Nat
  BY <1>1, <1>3, SumRemove
<1>6. RAmount[k] \in Nat
  BY <1>3
<1>7. Total(p, a) = Total(p, a)' + RAmount[k]
  BY <1>4, <1>5, <1>6
<1>8. Total(p, b)' = Total(p, b) + RAmount[k]
  BY <1>4, <1>5, <1>6
<1>9. \A st : st # a /\ st # b => Total(p, st)' = Total(p, st)
  BY <1>2, <1>4
<1> QED BY <1>7, <1>8, <1>9

\* What MoneyOK says of one payment.
Fits(p) ==
    /\ Total(p, "SUCCEEDED") + Total(p, "PENDING") <= Amount[p]
    /\ status[p] = "REFUNDED" <=> Total(p, "SUCCEEDED") = Amount[p]
    /\ status[p] = "PARTIALLY_REFUNDED" <=>
          Total(p, "SUCCEEDED") \in 1..(Amount[p] - 1)

\* A step keeps the money bound of a payment.
LEMMA FitsKept ==
    ASSUME NEW p \in Pay, Fits(p), \A k \in RKey : refund'[p][k] = refund[p][k],
           \/ status'[p] = status[p]
           \/ /\ status[p] \notin {"REFUNDED", "PARTIALLY_REFUNDED"}
              /\ status'[p] \notin {"REFUNDED", "PARTIALLY_REFUNDED"}
    PROVE  Fits(p)'
<1>1. Total(p, "SUCCEEDED")' = Total(p, "SUCCEEDED") /\ Total(p, "PENDING")' = Total(p, "PENDING")
  BY TotalSame
<1> QED BY <1>1 DEF Fits

\* Steps keep the refunds within the amount.
LEMMA MoneyStep ==
    ASSUME Params, ServiceTypeOK, WorkOK, MoneyOK, NEW t \in Thread, Effect(t)
    PROVE  MoneyOK'
<1> USE DEF Charges, Refunds, Others, StatusBut, RefundBut, Ends
<1>0. \A p \in Pay : Fits(p)
  BY DEF MoneyOK, Fits
<1> SUFFICES ASSUME NEW p \in Pay PROVE Fits(p)'
  BY DEF MoneyOK, Fits
<1>1. ASSUME NEW p0 \in Pay, Pays(t, p0) PROVE Fits(p)'
  BY <1>0, <1>1, FitsKept DEF Pays
<1>2. ASSUME NEW p0 \in Pay, Rejects(t, p0) PROVE Fits(p)'
  BY <1>0, <1>2, FitsKept DEF Rejects, WorkOK, ChargersOK
<1>3. ASSUME NEW p0 \in Pay, Passes(t, p0) PROVE Fits(p)'
  BY <1>0, <1>3, FitsKept DEF Passes, SameJob
<1>4. ASSUME NEW p0 \in Pay, CallsCharge(t, p0) PROVE Fits(p)'
  BY <1>0, <1>4, FitsKept DEF CallsCharge, Calls, SameJob
<1>5. ASSUME NEW p0 \in Pay, GivesUp(t, p0) PROVE Fits(p)'
  BY <1>0, <1>5, FitsKept DEF GivesUp
<1>6. ASSUME NEW p0 \in Pay, Settles(t, p0) PROVE Fits(p)'
  BY <1>0, <1>6, FitsKept DEF Settles, Open
<1>7. ASSUME NEW p0 \in Pay, NEW k0 \in RKey, Asks(t, p0, k0) PROVE Fits(p)'
  <2>0. CASE p # p0
    BY <1>0, <1>7, <2>0, FitsKept DEF Asks
  <2>1. CASE p = p0
    <3>1. /\ Total(p, "PENDING")' = Total(p, "PENDING") + RAmount[k0]
          /\ Total(p, "SUCCEEDED")' = Total(p, "SUCCEEDED")
      BY <1>7, <2>1, TotalMoves DEF Asks
    <3>2. RAmount[k0] <= Amount[p] - Total(p, "SUCCEEDED") - Total(p, "PENDING") /\ status' = status
      BY <1>7, <2>1 DEF Asks, Refundable
    <3>3. /\ Total(p, "SUCCEEDED") \in Nat /\ Total(p, "PENDING") \in Nat
          /\ Amount[p] \in Nat /\ RAmount[k0] \in Nat
      BY TotalType
    <3> QED BY <1>0, <3>1, <3>2, <3>3 DEF Fits
  <2> QED BY <2>0, <2>1
<1>8. ASSUME NEW p0 \in Pay, NEW k0 \in RKey, CallsRefund(t, p0, k0) PROVE Fits(p)'
  BY <1>0, <1>8, FitsKept DEF CallsRefund, Calls, SameJob
<1>9. ASSUME NEW p0 \in Pay, NEW k0 \in RKey, Repays(t, p0, k0) PROVE Fits(p)'
  <2>0. CASE p # p0
    BY <1>0, <1>9, <2>0, FitsKept DEF Repays
  <2>1. CASE p = p0
    <3>1. /\ Total(p, "SUCCEEDED")' = Total(p, "SUCCEEDED") + RAmount[k0]
          /\ Total(p, "PENDING") = Total(p, "PENDING")' + RAmount[k0]
      BY <1>9, <2>1, TotalMoves DEF Repays
    <3>2. status'[p] = IF Total(p, "SUCCEEDED") + RAmount[k0] = Amount[p]
                       THEN "REFUNDED" ELSE "PARTIALLY_REFUNDED"
      BY <1>9, <2>1 DEF Repays, Fully
    <3>3. /\ Total(p, "SUCCEEDED") \in Nat /\ Total(p, "PENDING")' \in Nat
          /\ Amount[p] \in Nat /\ RAmount[k0] \in Nat \ {0}
      BY TotalType
    <3> QED BY <1>0, <3>1, <3>2, <3>3 DEF Fits
  <2> QED BY <2>0, <2>1
<1>10. ASSUME NEW p0 \in Pay, NEW k0 \in RKey, Refuses(t, p0, k0) PROVE Fits(p)'
  <2>0. CASE p # p0
    BY <1>0, <1>10, <2>0, FitsKept DEF Refuses
  <2>1. CASE p = p0
    <3>1. /\ Total(p, "SUCCEEDED")' = Total(p, "SUCCEEDED")
          /\ Total(p, "PENDING") = Total(p, "PENDING")' + RAmount[k0]
      BY <1>10, <2>1, TotalMoves DEF Refuses
    <3>2. status' = status
      BY <1>10, <2>1 DEF Refuses
    <3>3. /\ Total(p, "SUCCEEDED") \in Nat /\ Total(p, "PENDING")' \in Nat
          /\ Amount[p] \in Nat /\ RAmount[k0] \in Nat
      BY TotalType
    <3> QED BY <1>0, <3>1, <3>2, <3>3 DEF Fits
  <2> QED BY <2>0, <2>1
<1>11. ASSUME Collects(t) PROVE Fits(p)'
  BY <1>0, <1>11, FitsKept DEF Collects
<1>12. ASSUME Resumes(t) PROVE Fits(p)'
  BY <1>0, <1>12, FitsKept DEF Resumes
<1>13. ASSUME Loses(t) PROVE Fits(p)'
  BY <1>0, <1>13, FitsKept DEF Loses, Calls, SameJob
<1>14. ASSUME Leaves(t) PROVE Fits(p)'
  BY <1>0, <1>14, FitsKept DEF Leaves
<1> QED BY <1>1, <1>2, <1>3, <1>4, <1>5, <1>6, <1>7, <1>8, <1>9, <1>10, <1>11, <1>12, <1>13, <1>14 DEF Effect

----------------------------------------------------------------------------
\* The invariant holds in the beginning.
LEMMA InitInv ==
    ASSUME Params, Init
    PROVE  Inv
<1>1. ServiceTypeOK
  BY DEF Init, ServiceTypeOK, Jobs, ALLOWED_TRANSITIONS, Result
<1>2. WorkOK
  BY DEF Init, WorkOK, ChargersOK, OneCharger, RefundersOK, AskedOK, Charges, Refunds, Created, Asked, NoJob, Job
<1>3. MoneyOK
  <2> SUFFICES ASSUME NEW p \in Pay PROVE Fits(p)
    BY DEF MoneyOK, Fits
  <2>1. /\ {k \in RKey : refund[p][k] = "SUCCEEDED"} = {}
        /\ {k \in RKey : refund[p][k] = "PENDING"} = {}
        /\ status[p] = "ABSENT"
    BY DEF Init
  <2>2. IsFiniteSet(RKey) /\ \A k \in RKey : RAmount[k] \in Nat
    BY DEF Params
  <2>3. SumFunctionOnSet(RAmount, {}) = 0
    BY <2>2, SumRemove
  <2>4. Total(p, "SUCCEEDED") = 0 /\ Total(p, "PENDING") = 0
    BY <2>1, <2>3 DEF Total
  <2>5. Amount[p] \in Nat \ {0}
    BY DEF Params
  <2> QED BY <2>1, <2>4, <2>5 DEF Fits
<1>4. ChargeOK
  BY DEF Init, Params, ChargeOK, ChargeKnown, ChargeCounted, SettledOK, FailedOK, ChargeAnswers, Charges, Created, NoJob, Job, Settled
<1>5. RefundOK
  BY DEF Init, RefundOK, RefundKnown, RefundCounted, RepaidOK, RefundAnswers, Refunds, Asked, NoJob, Job
<1> QED BY <1>1, <1>2, <1>3, <1>4, <1>5 DEF Inv

\* Every step keeps the invariant.
LEMMA NextInv ==
    ASSUME Params, Inv, [Next]_vars
    PROVE  Inv'
<1>1. ASSUME NEW t \in Thread, Submit(t) \/ Serve(t) PROVE Inv'
  <2>1. ServiceTypeOK /\ WorkOK /\ MoneyOK /\ Effect(t)
    BY <1>1, StepEffect DEF Inv
  <2>2. ServiceTypeOK'
    BY <1>1, <2>1, TypeStep
  <2>3. WorkOK' /\ MoneyOK'
    BY <2>1, WorkStep, MoneyStep
  <2>4. ASSUME KeysDistinct' PROVE ChargeOK' /\ RefundOK'
    <3>1. KeysDistinct
      BY <2>1, <2>4, KeysStep
    <3>2. ChargeOK /\ RefundOK
      BY <3>1 DEF Inv
    <3> QED BY <2>1, <2>4, <3>1, <3>2, ChargeStep, RefundStep
  <2> QED BY <2>2, <2>3, <2>4 DEF Inv
<1>2. ASSUME UNCHANGED <<status, refund, gwVars, job, todo>> PROVE Inv'
  <2> USE <1>2 DEF gwVars, Charges, Refunds, Created, Asked
  <2>1. ServiceTypeOK => ServiceTypeOK'
    BY DEF ServiceTypeOK
  <2>2. WorkOK => WorkOK'
    BY DEF WorkOK, ChargersOK, OneCharger, RefundersOK, AskedOK
  <2>3. MoneyOK => MoneyOK'
    BY DEF MoneyOK, Total
  <2>4. KeysDistinct' => KeysDistinct
    BY DEF KeysDistinct
  <2>5. ChargeOK => ChargeOK'
    BY DEF ChargeOK, ChargeKnown, ChargeCounted, SettledOK, FailedOK, ChargeAnswers
  <2>6. RefundOK => RefundOK'
    BY DEF RefundOK, RefundKnown, RefundCounted, RepaidOK, RefundAnswers
  <2> QED BY <2>1, <2>2, <2>3, <2>4, <2>5, <2>6 DEF Inv
<1>3. ASSUME NEW r \in Relay, RelayStep(r) PROVE Inv'
  BY <1>2, <1>3 DEF RelayStep, RelayBegin, RelayPublish, RelayBreak, RelayRemove
<1>4. CASE UNCHANGED vars
  BY <1>2, <1>4 DEF vars
<1> QED BY <1>1, <1>3, <1>4 DEF Next

\* The invariant holds always.
LEMMA Invariance ==
    ASSUME Params
    PROVE  Spec => []Inv
<1>1. Init => Inv
  BY InitInv
<1>2. Inv /\ [Next]_vars => Inv'
  BY NextInv
<1> QED BY <1>1, <1>2, PTL DEF Spec

\* The fields of the service and of the gateway have their types, for any
\* payments, refund keys and threads.
THEOREM ServiceTypeCorrect ==
    ASSUME Params
    PROVE  Spec => []ServiceTypeOK
<1>1. Inv => ServiceTypeOK
  BY DEF Inv
<1> QED BY <1>1, Invariance, PTL

\* Unless a client uses one key for two payments, or for refunds of two
\* payments, what the service says about charges and refunds is what the
\* provider did, however many threads retry, time out and reconcile.
THEOREM ProviderAgreesAlways ==
    ASSUME Params
    PROVE  Spec => [](KeysDistinct => ProviderAgrees)
<1>1. ASSUME Inv, KeysDistinct PROVE ProviderAgrees
  <2>1. ChargeOK /\ RefundOK
    BY <1>1 DEF Inv
  <2>2. ChargeIsReal
    BY <2>1 DEF ChargeOK, ChargeCounted, SettledOK, FailedOK, ChargeIsReal, Created, Settled
  <2>3. RefundIsReal
    BY <2>1 DEF RefundOK, RefundCounted, RepaidOK, RefundIsReal, Asked
  <2> QED BY <2>2, <2>3 DEF ProviderAgrees
<1>2. Inv => (KeysDistinct => ProviderAgrees)
  BY <1>1
<1> QED BY <1>2, Invariance, PTL

\* Under the same condition the provider never pays back more than was
\* charged, and the status of a payment always says how much was refunded.
THEOREM RefundsExactAlways ==
    ASSUME Params
    PROVE  Spec => [](StatusMatchesRefunds /\ (KeysDistinct => RefundsExact))
<1>1. ASSUME Inv PROVE StatusMatchesRefunds
  BY <1>1 DEF Inv, MoneyOK, StatusMatchesRefunds
<1>2. ASSUME Inv, KeysDistinct, NEW p \in Pay
      PROVE SumFunctionOnSet([k \in RKey |-> RAmount[k] * refunded[p][k]], RKey) <= Amount[p] * charged[p]
  <2> DEFINE f == [k \in RKey |-> RAmount[k] * refunded[p][k]]
             S == {k \in RKey : refund[p][k] = "SUCCEEDED"}
             H == {k \in RKey : refund[p][k] = "PENDING"}
             R == {k \in RKey : refunded[p][k] = 1}
  <2>1. /\ IsFiniteSet(RKey) /\ Amount[p] \in Nat
        /\ \A k \in RKey : RAmount[k] \in Nat
    BY DEF Params
  <2>2. \A k \in RKey : f[k] = (IF k \in R THEN RAmount[k] ELSE 0)
    <3> TAKE k \in RKey
    <3>1. refunded[p][k] = 0 \/ refunded[p][k] = 1
      BY <1>2 DEF Inv, RefundOK, RefundCounted
    <3>2. f[k] = RAmount[k] * refunded[p][k] /\ RAmount[k] \in Nat
      BY <2>1
    <3>3. CASE refunded[p][k] = 0
      BY <3>2, <3>3
    <3>4. CASE refunded[p][k] = 1
      BY <3>2, <3>4
    <3> QED BY <3>1, <3>3, <3>4
  <2>3. R \in SUBSET (S \cup H) /\ S \in SUBSET RKey /\ H \in SUBSET RKey /\ S \cap H = {} /\ RKey \cap R = R
    <3>1. ASSUME NEW k \in R PROVE k \in S \cup H
      <4>1. refund[p][k] \notin {"ABSENT", "FAILED"}
        BY <1>2 DEF Inv, RefundOK, RefundCounted, RepaidOK, Asked
      <4>2. refund[p][k] \in {"ABSENT", "PENDING", "SUCCEEDED", "FAILED"}
        BY <1>2 DEF Inv, ServiceTypeOK
      <4> QED BY <4>1, <4>2
    <3> QED BY <3>1
  <2>4. /\ SumFunctionOnSet(RAmount, S) + SumFunctionOnSet(RAmount, H) <= Amount[p]
        /\ (R # {} => charged[p] = 1) /\ charged[p] \in {0, 1}
    <3>1. SumFunctionOnSet(RAmount, S) + SumFunctionOnSet(RAmount, H) <= Amount[p]
      BY <1>2 DEF Inv, MoneyOK, Total
    <3>2. ASSUME NEW k \in R PROVE charged[p] = 1
      <4>1. status[p] \in Settled
        BY <1>2 DEF Inv, RefundOK, RefundCounted, WorkOK, AskedOK
      <4> QED BY <1>2, <4>1 DEF Inv, ChargeOK, ChargeCounted, SettledOK, Created, Settled
    <3>3. charged[p] \in {0, 1}
      BY <1>2 DEF Inv, ChargeOK, ChargeCounted
    <3> QED BY <3>1, <3>2, <3>3
  <2> HIDE DEF f, S, H, R
  <2>5. SumFunctionOnSet(f, RKey) = SumFunctionOnSet(RAmount, R)
    <3>1. RKey \in SUBSET RKey
      OBVIOUS
    <3>2. SumFunctionOnSet(f, RKey) = SumFunctionOnSet(RAmount, RKey \cap R)
      <4>1. IsFiniteSet(RKey) /\ (\A x \in RKey : RAmount[x] \in Nat)
        BY <2>1
      <4>2. \A x \in RKey : f[x] = (IF x \in R THEN RAmount[x] ELSE 0)
        BY <2>2
      <4> QED BY <4>1, <4>2, <3>1, SumFiltered, SMTT(60)
    <3> QED BY <2>3, <3>2
  <2>6. SumFunctionOnSet(RAmount, R) <= SumFunctionOnSet(RAmount, S) + SumFunctionOnSet(RAmount, H)
    <3>1. SumFunctionOnSet(RAmount, S \cup H) = SumFunctionOnSet(RAmount, S) + SumFunctionOnSet(RAmount, H)
      BY <2>1, <2>3, SumDisjoint
    <3>2. S \cup H \in SUBSET RKey
      BY <2>3
    <3>3. SumFunctionOnSet(RAmount, R) <= SumFunctionOnSet(RAmount, S \cup H)
      BY <2>1, <2>3, <3>2, SumMonotone
    <3> QED BY <3>1, <3>3
  <2>7. /\ SumFunctionOnSet(RAmount, R) \in Nat /\ SumFunctionOnSet(RAmount, S) \in Nat
        /\ SumFunctionOnSet(RAmount, H) \in Nat /\ SumFunctionOnSet(RAmount, {}) = 0
    <3>1. R \in SUBSET RKey
      BY <2>3
    <3> QED BY <2>1, <2>3, <3>1, SumRemove
  <2>8. SumFunctionOnSet(f, RKey) <= Amount[p] * charged[p]
    <3>1. CASE R = {}
      <4>1. SumFunctionOnSet(f, RKey) = 0
        BY <2>5, <2>7, <3>1
      <4>2. charged[p] = 0 \/ charged[p] = 1
        BY <2>4
      <4>3. Amount[p] * charged[p] >= 0
        <5>1. CASE charged[p] = 0
          BY <2>1, <5>1
        <5>2. CASE charged[p] = 1
          BY <2>1, <5>2
        <5> QED BY <4>2, <5>1, <5>2
      <4> QED BY <4>1, <4>3
    <3>2. CASE R # {}
      <4>1. Amount[p] * charged[p] = Amount[p]
        BY <2>1, <2>4, <3>2
      <4> QED BY <2>1, <2>4, <2>5, <2>6, <2>7, <4>1
    <3> QED BY <3>1, <3>2
  <2> QED BY <2>8 DEF f
<1>3. Inv => (StatusMatchesRefunds /\ (KeysDistinct => RefundsExact))
  BY <1>1, <1>2 DEF RefundsExact, NoOverRefund
<1> QED BY <1>3, Invariance, PTL

\* Whatever order answers come in, a payment makes only moves of
\* ALLOWED_TRANSITIONS, so transition() never raises; keys may be shared.
THEOREM OnlyAllowedTransitionsAlways ==
    ASSUME Params
    PROVE  Spec => OnlyAllowedTransitions
<1>1. ASSUME Inv, NEW t \in Thread, Submit(t) \/ Serve(t) PROVE AllowedMoves
  <2>1. ServiceTypeOK /\ WorkOK /\ MoneyOK /\ Effect(t)
    BY <1>1, StepEffect DEF Inv
  <2> USE DEF StatusBut, ALLOWED_TRANSITIONS, AllowedMoves, Ends, Charges, Refunds
  <2>2. ASSUME NEW p0 \in Pay, Pays(t, p0) PROVE AllowedMoves
    BY <2>2 DEF Pays
  <2>3. ASSUME NEW p0 \in Pay, Rejects(t, p0) PROVE AllowedMoves
    BY <2>1, <2>3 DEF Rejects, WorkOK, ChargersOK
  <2>4. ASSUME NEW p0 \in Pay, Passes(t, p0) PROVE AllowedMoves
    BY <2>4 DEF Passes, SameJob
  <2>5. ASSUME NEW p0 \in Pay, CallsCharge(t, p0) PROVE AllowedMoves
    BY <2>5 DEF CallsCharge, Calls, SameJob
  <2>6. ASSUME NEW p0 \in Pay, GivesUp(t, p0) PROVE AllowedMoves
    BY <2>6 DEF GivesUp
  <2>7. ASSUME NEW p0 \in Pay, Settles(t, p0) PROVE AllowedMoves
    BY <2>7 DEF Settles, Open
  <2>8. ASSUME NEW p0 \in Pay, NEW k0 \in RKey, Asks(t, p0, k0) PROVE AllowedMoves
    BY <2>8 DEF Asks, REFUNDABLE
  <2>9. ASSUME NEW p0 \in Pay, NEW k0 \in RKey, CallsRefund(t, p0, k0) PROVE AllowedMoves
    BY <2>9 DEF CallsRefund, Calls, SameJob
  <2>10. ASSUME NEW p0 \in Pay, NEW k0 \in RKey, Repays(t, p0, k0) PROVE AllowedMoves
    <3>1. Total(p0, "PENDING") = Total(p0, "PENDING")' + RAmount[k0]
      BY <2>10, TotalMoves DEF Repays, RefundBut
    <3>2. /\ Total(p0, "SUCCEEDED") \in Nat /\ Total(p0, "PENDING")' \in Nat
          /\ Amount[p0] \in Nat /\ RAmount[k0] \in Nat \ {0}
      BY TotalType
    <3>3. Total(p0, "SUCCEEDED") # Amount[p0]
      BY <2>1, <3>1, <3>2 DEF MoneyOK
    <3>4. status[p0] \in {"SUCCEEDED", "PARTIALLY_REFUNDED"}
      BY <2>1, <2>10, <3>3 DEF MoneyOK, Repays, WorkOK, AskedOK, Asked, Settled
    <3> QED BY <2>10, <3>4 DEF Repays
  <2>11. ASSUME NEW p0 \in Pay, NEW k0 \in RKey, Refuses(t, p0, k0) PROVE AllowedMoves
    BY <2>11 DEF Refuses
  <2>12. ASSUME Collects(t) PROVE AllowedMoves
    BY <2>12 DEF Collects
  <2>13. ASSUME Resumes(t) PROVE AllowedMoves
    BY <2>13 DEF Resumes
  <2>14. ASSUME Loses(t) PROVE AllowedMoves
    BY <2>14 DEF Loses, Calls, SameJob
  <2>15. ASSUME Leaves(t) PROVE AllowedMoves
    BY <2>15 DEF Leaves
  <2> QED BY <2>1, <2>2, <2>3, <2>4, <2>5, <2>6, <2>7, <2>8, <2>9, <2>10, <2>11, <2>12, <2>13, <2>14, <2>15 DEF Effect
<1>2. ASSUME UNCHANGED status PROVE AllowedMoves
  BY <1>2 DEF AllowedMoves
<1>3. ASSUME Inv, [Next]_vars PROVE [AllowedMoves]_vars
  <2>1. CASE UNCHANGED vars
    BY <2>1
  <2>2. ASSUME NEW r \in Relay, RelayStep(r) PROVE AllowedMoves
    BY <1>2, <2>2 DEF RelayStep, RelayBegin, RelayPublish, RelayBreak, RelayRemove
  <2> QED BY <1>1, <1>3, <2>1, <2>2 DEF Next
<1>4. Inv /\ [Next]_vars => [AllowedMoves]_vars
  BY <1>3
<1> QED BY <1>4, Invariance, PTL DEF Spec, OnlyAllowedTransitions

----------------------------------------------------------------------------
\* The outbox.

\* The place of a number in a set.
Rank(S, x) == Cardinality({y \in S : y < x})

\* The rank of an element of a finite set of numbers.
LEMMA RankFacts ==
    ASSUME NEW S \in SUBSET Nat, IsFiniteSet(S)
    PROVE  /\ \A x \in S : Rank(S, x) \in 0..(Cardinality(S) - 1)
           /\ \A x, y \in S : x < y => Rank(S, x) < Rank(S, y)
<1>1. Cardinality(S) \in Nat
  BY FS_CardinalityType
<1>2. ASSUME NEW x \in S PROVE Rank(S, x) \in 0..(Cardinality(S) - 1)
  <2> DEFINE B == {y \in S : y < x}
  <2>1. S \ {x} \in SUBSET S /\ B \in SUBSET (S \ {x})
    OBVIOUS
  <2>2. IsFiniteSet(S \ {x}) /\ Cardinality(S \ {x}) = Cardinality(S) - 1
    BY FS_RemoveElement
  <2>3. IsFiniteSet(B) /\ Cardinality(B) <= Cardinality(S \ {x})
    BY <2>1, <2>2, FS_Subset
  <2>4. Cardinality(B) \in Nat
    BY <2>3, FS_CardinalityType
  <2> QED BY <1>1, <2>2, <2>3, <2>4 DEF Rank
<1>3. ASSUME NEW x \in S, NEW y \in S, x < y PROVE Rank(S, x) < Rank(S, y)
  <2> DEFINE B == {z \in S : z < x}
             C == {z \in S : z < y}
  <2>1. x \in Nat /\ y \in Nat
    OBVIOUS
  <2>2. ASSUME NEW z \in B PROVE z \in C \ {x}
    <3>1. z \in Nat /\ z < x
      OBVIOUS
    <3>2. z < y /\ z # x
      BY <1>3, <2>1, <3>1
    <3> QED BY <3>2
  <2>3. C \in SUBSET S /\ B \in SUBSET (C \ {x}) /\ x \in C
    BY <1>3, <2>2
  <2>4. IsFiniteSet(C) /\ Cardinality(C) \in Nat
    BY <2>3, FS_Subset, FS_CardinalityType
  <2>5. IsFiniteSet(C \ {x}) /\ Cardinality(C \ {x}) = Cardinality(C) - 1
    BY <2>3, <2>4, FS_RemoveElement
  <2>6. Cardinality(B) <= Cardinality(C) - 1 /\ Cardinality(B) \in Nat
    BY <2>3, <2>5, FS_Subset, FS_CardinalityType
  <2> QED BY <2>4, <2>6 DEF Rank
<1> QED BY <1>2, <1>3

\* InOrder lists a finite set of numbers in increasing order.
LEMMA InOrderFacts ==
    ASSUME NEW S \in SUBSET Nat, IsFiniteSet(S)
    PROVE  /\ InOrder(S) \in Seq(S) /\ Len(InOrder(S)) = Cardinality(S)
           /\ \A i \in 1..Len(InOrder(S)) : \A e \in S :
                 e <= InOrder(S)[i] => \E h \in 1..i : InOrder(S)[h] = e
<1> DEFINE n == Cardinality(S)
           b == InOrder(S)
<1>1. n \in Nat
  BY FS_CardinalityType
<1>2. \A x \in S : Rank(S, x) \in 0..(n - 1)
  BY RankFacts
<1>3. \A x, y \in S : x < y => Rank(S, x) < Rank(S, y)
  BY RankFacts
<1>4. \A x, y \in S : Rank(S, x) = Rank(S, y) => x = y
  <2> TAKE x, y \in S
  <2>1. x \in Nat /\ y \in Nat /\ Rank(S, x) \in Nat /\ Rank(S, y) \in Nat
    BY <1>1, <1>2
  <2>2. x < y \/ y < x \/ x = y
    BY <2>1
  <2> QED BY <1>3, <2>1, <2>2
<1>5. \A i \in 1..n : \E x \in S : Rank(S, x) = i - 1
  <2> DEFINE rank == [x \in S |-> Rank(S, x)]
  <2>1. rank \in Injection(S, 0..(n - 1))
    BY <1>2, <1>4 DEF Injection, IsInjective
  <2>2. IsFiniteSet(0..(n - 1)) /\ Cardinality(0..(n - 1)) = n
    <3>1. IsFiniteSet(0..(n - 1)) /\ Cardinality(0..(n - 1)) = IF 0 > n - 1 THEN 0 ELSE (n - 1) - 0 + 1
      BY <1>1, FS_Interval, SMTT(60)
    <3> QED BY <1>1, <3>1
  <2> HIDE DEF rank
  <2>3. rank \in Surjection(S, 0..(n - 1))
    BY <2>1, <2>2, FS_Injection
  <2> USE DEF rank
  <2> TAKE i \in 1..n
  <2>4. i - 1 \in 0..(n - 1)
    BY <1>1
  <2>5. PICK x \in S : rank[x] = i - 1
    BY <2>3, <2>4 DEF Surjection
  <2> QED BY <2>5
<1>6. ASSUME NEW i \in 1..n PROVE b[i] \in S /\ Rank(S, b[i]) = i - 1
  <2>1. b[i] = CHOOSE x \in S : Rank(S, x) = i - 1
    BY DEF InOrder, Rank
  <2> HIDE DEF b
  <2> QED BY <1>5, <2>1
<1>7. b = [i \in 1..n |-> b[i]]
  <2> DEFINE pick(i) == CHOOSE x \in S : Cardinality({y \in S : y < x}) = i - 1
  <2>1. b = [i \in 1..n |-> pick(i)]
    BY DEF InOrder
  <2> HIDE DEF pick, b
  <2> QED BY <2>1
<1> HIDE DEF b
<1>8. b \in Seq(S) /\ Len(b) = n
  BY <1>1, <1>6, <1>7
<1>9. ASSUME NEW i \in 1..n, NEW e \in S, e <= b[i] PROVE \E h \in 1..i : b[h] = e
  <2> DEFINE h == Rank(S, e) + 1
  <2>1. b[i] \in Nat /\ e \in Nat /\ b[i] \in S /\ Rank(S, b[i]) = i - 1
    BY <1>6
  <2>2. Rank(S, e) \in 0..(n - 1) /\ Rank(S, e) <= i - 1
    <3>1. CASE e = b[i]
      BY <1>1, <1>2, <2>1, <3>1
    <3>2. CASE e < b[i]
      BY <1>1, <1>2, <1>3, <2>1, <3>2
    <3> QED BY <1>9, <2>1, <3>1, <3>2
  <2>3. h \in 1..i /\ h \in 1..n /\ h - 1 = Rank(S, e)
    BY <1>1, <2>2
  <2> HIDE DEF h
  <2>4. b[h] = e
    BY <1>4, <1>6, <2>3
  <2> QED BY <2>3, <2>4
<1> QED BY <1>8, <1>9 DEF b

Delivered(e) == \E j \in 1..Len(published) : published[j] = e

\* A relay's batch lists every event up to its last that was not delivered,
\* in order, and what it has sent was delivered.
BatchesOK ==
    \A r \in Relay : \A i \in 1..Len(relay[r].batch) : \A e \in 1..relay[r].batch[i] :
        Delivered(e) \/ \E h \in 1..i : relay[r].batch[h] = e
SentOK ==
    \A r \in Relay : relay[r].sent =>
        Len(relay[r].batch) > 0 /\ Delivered(relay[r].batch[1])
FirstInOrder ==
    \A i \in 1..Len(published) : \A e \in 1..published[i] : \E j \in 1..i : published[j] = e
NoneDropped == \A e \in 1..Len(events) : e \in pending \/ Delivered(e)

\* The inductive invariant of the outbox.
OutboxInv == OutboxTypeOK /\ BatchesOK /\ SentOK /\ FirstInOrder /\ NoneDropped

\* A step of a thread appends an event or leaves the outbox alone.
LEMMA BoxEffect ==
    ASSUME Params, ServiceTypeOK, NEW t \in Thread, Submit(t) \/ Serve(t)
    PROVE  UNCHANGED boxVars \/ \E e \in Event : Emit(e)
<1>1. ASSUME NEW p \in Pay, NEW st \in {"UNKNOWN", "SUCCEEDED", "FAILED"} PROVE <<st, p, None>> \in Event
  BY DEF Event
<1>2. ASSUME NEW p \in Pay, NEW k \in RKey, NEW st \in {"refund.succeeded", "refund.failed"}
      PROVE <<st, p, k>> \in Event
  BY DEF Event
<1>3. CASE \/ \E p \in Pay : PayBegin(t, p)
           \/ \E p \in Pay, k \in RKey : RefundBegin(t, p, k)
           \/ ReconcileBegin(t) \/ RiskPass(t) \/ Call(t) \/ RefundGaveUp(t)
           \/ \E j \in todo[t] : ReconcileNext(t, j)
  BY <1>3 DEF PayBegin, RefundBegin, ReconcileBegin, RiskPass, Call, CallAnswered, CallTimeoutAfter,
     CallLost, RefundGaveUp, ReconcileNext
<1>4. CASE RiskReject(t)
  <2>1. job[t].pay \in Pay
    BY <1>4, JobFacts DEF RiskReject, NoJob, Job
  <2> QED BY <1>1, <1>4, <2>1 DEF RiskReject
<1>5. CASE ChargeGaveUp(t)
  <2>1. job[t].pay \in Pay
    BY <1>5, JobFacts DEF ChargeGaveUp, NoJob, Job
  <2>2. UNCHANGED boxVars \/ Emit(<<"UNKNOWN", job[t].pay, None>>)
    BY <1>5 DEF ChargeGaveUp
  <2> QED BY <1>1, <2>1, <2>2
<1>6. CASE ChargeAnswered(t)
  <2>1. job[t].pay \in Pay
    BY <1>6, JobFacts DEF ChargeAnswered, NoJob, Job
  <2>2. \/ UNCHANGED boxVars \/ Emit(<<"SUCCEEDED", job[t].pay, None>>)
        \/ Emit(<<"FAILED", job[t].pay, None>>)
    BY <1>6 DEF ChargeAnswered
  <2> QED BY <1>1, <2>1, <2>2
<1>7. CASE RefundAnswered(t)
  <2>1. job[t].pay \in Pay /\ job[t].rkey \in RKey
    BY <1>7, JobFacts DEF RefundAnswered, NoJob, Job
  <2>2. \/ UNCHANGED boxVars \/ Emit(<<"refund.succeeded", job[t].pay, job[t].rkey>>)
        \/ Emit(<<"refund.failed", job[t].pay, job[t].rkey>>)
    BY <1>7 DEF RefundAnswered
  <2> QED BY <1>2, <2>1, <2>2
<1> QED BY <1>3, <1>4, <1>5, <1>6, <1>7, ThreadSteps

\* An event is appended.
LEMMA EmitStep ==
    ASSUME OutboxInv, NEW e0 \in Event, Emit(e0)
    PROVE  OutboxInv'
<1> DEFINE n == Len(events)
<1>1. /\ n \in Nat /\ events' \in Seq(Event) /\ Len(events') = n + 1
      /\ DOMAIN events = 1..n /\ DOMAIN events' = 1..(n + 1)
      /\ pending' = pending \cup {n + 1} /\ UNCHANGED <<relay, published>>
  BY DEF OutboxInv, OutboxTypeOK, Emit
<1>2. \A S \in SUBSET (1..n) : S \in SUBSET (1..(n + 1))
  BY <1>1
<1>3. OutboxTypeOK'
  <2>1. pending' \subseteq DOMAIN events'
    BY <1>1 DEF OutboxInv, OutboxTypeOK
  <2>2. published' \in Seq(DOMAIN events')
    <3>1. published \in Seq(1..n) /\ \A i \in 1..Len(published) : published[i] \in 1..n
      BY <1>1 DEF OutboxInv, OutboxTypeOK
    <3> QED BY <1>1, <3>1
  <2>3. relay' \in [Relay -> [batch : Seq(DOMAIN events'), sent : BOOLEAN]]
    <3>1. ASSUME NEW r \in Relay PROVE relay[r] \in [batch : Seq(1..(n + 1)), sent : BOOLEAN]
      <4>1. relay[r] \in [batch : Seq(1..n), sent : BOOLEAN]
        BY <1>1 DEF OutboxInv, OutboxTypeOK
      <4>2. relay[r].batch \in Seq(1..(n + 1))
        BY <1>1, <4>1
      <4> QED BY <4>1, <4>2
    <3>2. relay = [r \in Relay |-> relay[r]]
      BY DEF OutboxInv, OutboxTypeOK
    <3> QED BY <1>1, <3>1, <3>2
  <2> QED BY <1>1, <2>1, <2>2, <2>3 DEF OutboxTypeOK
<1>4. BatchesOK' /\ SentOK' /\ FirstInOrder'
  BY <1>1 DEF OutboxInv, BatchesOK, SentOK, FirstInOrder, Delivered
<1>5. NoneDropped'
  BY <1>1 DEF OutboxInv, NoneDropped, Delivered
<1> QED BY <1>3, <1>4, <1>5 DEF OutboxInv

\* A relay starts with everything that is pending.
LEMMA RelayBeginStep ==
    ASSUME OutboxInv, NEW r \in Relay, RelayBegin(r)
    PROVE  OutboxInv'
<1> DEFINE n == Len(events)
           b == InOrder(pending)
<1>1. /\ n \in Nat /\ DOMAIN events = 1..n /\ pending \in SUBSET (1..n)
      /\ UNCHANGED <<events, pending, published>>
  BY DEF OutboxInv, OutboxTypeOK, RelayBegin
<1>2. pending \in SUBSET Nat /\ IsFiniteSet(pending)
  <2>1. IsFiniteSet(1..n)
    BY <1>1, FS_Interval
  <2>2. IsFiniteSet(pending)
    <3> HIDE DEF n
    <3> QED BY <1>1, <2>1, FS_Subset
  <2>3. 1..n \in SUBSET Nat
    BY <1>1
  <2> QED BY <1>1, <2>2, <2>3
<1>3. /\ b \in Seq(pending)
      /\ \A i \in 1..Len(b) : \A e \in pending : e <= b[i] => \E h \in 1..i : b[h] = e
  BY <1>2, InOrderFacts
<1>4. /\ relay'[r] = [batch |-> b, sent |-> FALSE] /\ \A s \in Relay \ {r} : relay'[s] = relay[s]
      /\ relay' = [relay EXCEPT ![r] = [batch |-> b, sent |-> FALSE]]
  BY DEF OutboxInv, OutboxTypeOK, RelayBegin
<1> HIDE DEF b
<1>5. b \in Seq(1..n) /\ \A i \in 1..Len(b) : b[i] \in 1..n
  <2>1. Len(b) \in Nat /\ b = [i \in 1..Len(b) |-> b[i]] /\ \A i \in 1..Len(b) : b[i] \in pending
    BY <1>3
  <2>2. \A i \in 1..Len(b) : b[i] \in 1..n
    BY <1>1, <2>1
  <2> QED BY <2>1, <2>2
<1>6. OutboxTypeOK'
  BY <1>1, <1>4, <1>5 DEF OutboxInv, OutboxTypeOK
<1>7. BatchesOK'
  <2> SUFFICES ASSUME NEW s \in Relay, NEW i \in 1..Len(relay'[s].batch), NEW e \in 1..relay'[s].batch[i]
               PROVE  Delivered(e) \/ \E h \in 1..i : relay'[s].batch[h] = e
    BY <1>1 DEF BatchesOK, Delivered
  <2>1. CASE s # r
    BY <1>4, <2>1 DEF OutboxInv, BatchesOK
  <2>2. CASE s = r
    <3>1. i \in 1..Len(b) /\ e \in 1..b[i] /\ relay'[s].batch = b
      BY <1>4, <2>2
    <3>2. e \in 1..n /\ e <= b[i]
      BY <1>1, <1>5, <3>1
    <3>3. e \in pending \/ Delivered(e)
      BY <3>2 DEF OutboxInv, NoneDropped
    <3> QED BY <1>3, <3>1, <3>2, <3>3
  <2> QED BY <2>1, <2>2
<1>8. SentOK'
  BY <1>1, <1>4 DEF OutboxInv, SentOK, Delivered
<1>9. FirstInOrder' /\ NoneDropped'
  BY <1>1 DEF OutboxInv, FirstInOrder, NoneDropped, Delivered
<1> QED BY <1>6, <1>7, <1>8, <1>9 DEF OutboxInv

\* A relay publishes the next event of its batch.
LEMMA RelayPublishStep ==
    ASSUME OutboxInv, NEW r \in Relay, RelayPublish(r)
    PROVE  OutboxInv'
<1> DEFINE n == Len(events)
           b == relay[r].batch
           m == Len(published)
<1>1. /\ n \in Nat /\ DOMAIN events = 1..n /\ m \in Nat /\ published \in Seq(1..n)
      /\ UNCHANGED <<events, pending>> /\ b \in Seq(1..n) /\ b # <<>>
  BY DEF OutboxInv, OutboxTypeOK, RelayPublish
<1>2. Len(b) \in Nat /\ Len(b) > 0 /\ Head(b) = b[1] /\ b[1] \in 1..n
  BY <1>1
<1>3. /\ published' \in Seq(1..n) /\ Len(published') = m + 1 /\ published'[m + 1] = b[1]
      /\ \A i \in 1..m : published'[i] = published[i]
  BY <1>1, <1>2 DEF RelayPublish
<1>4. /\ relay'[r] = [batch |-> b, sent |-> TRUE] /\ \A s \in Relay \ {r} : relay'[s] = relay[s]
      /\ relay' = [relay EXCEPT ![r] = [batch |-> b, sent |-> TRUE]]
  BY DEF OutboxInv, OutboxTypeOK, RelayPublish
<1> HIDE DEF b, m
<1>5. OutboxTypeOK'
  BY <1>1, <1>3, <1>4 DEF OutboxInv, OutboxTypeOK
<1>6. /\ \A e : Delivered(e) => Delivered(e)'
      /\ \E j \in 1..Len(published') : published'[j] = b[1]
  <2>1. \A e : Delivered(e) => Delivered(e)'
    BY <1>1, <1>3, SMTT(60) DEF Delivered, m
  <2>2. m + 1 \in 1..Len(published')
    BY <1>1, <1>3
  <2> QED BY <1>3, <2>1, <2>2
<1>7. BatchesOK'
  <2>1. \A s \in Relay : relay'[s].batch = relay[s].batch
    BY <1>4 DEF b
  <2> HIDE DEF Delivered
  <2> QED BY <1>6, <2>1, SMTT(60) DEF OutboxInv, BatchesOK
<1>8. SentOK'
  <2> SUFFICES ASSUME NEW s \in Relay, relay'[s].sent
               PROVE  Len(relay'[s].batch) > 0 /\ Delivered(relay[s].batch[1])'
    BY DEF SentOK
  <2>1. CASE s # r
    <3>1. relay'[s] = relay[s]
      BY <1>4, <2>1
    <3>2. Len(relay[s].batch) > 0 /\ Delivered(relay[s].batch[1])
      BY <3>1 DEF OutboxInv, SentOK
    <3>3. \E j \in 1..Len(published') : published'[j] = relay[s].batch[1]
      BY <1>6, <3>2 DEF Delivered
    <3> QED BY <3>1, <3>2, <3>3 DEF Delivered
  <2>2. CASE s = r
    BY <1>2, <1>4, <1>6, <2>2 DEF Delivered
  <2> QED BY <2>1, <2>2
<1>9. FirstInOrder'
  <2> SUFFICES ASSUME NEW i \in 1..(m + 1), NEW e \in 1..published'[i]
               PROVE  \E j \in 1..i : published'[j] = e
    BY <1>3 DEF FirstInOrder
  <2>1. CASE i \in 1..m
    <3>1. PICK j \in 1..i : published[j] = e
      BY <1>3, <2>1 DEF OutboxInv, FirstInOrder, m
    <3>2. j \in 1..m
      BY <1>1, <2>1
    <3> QED BY <1>3, <3>1, <3>2
  <2>2. CASE i = m + 1
    <3>1. e \in 1..b[1]
      BY <1>3, <2>2
    <3>2. Delivered(e) \/ \E h \in 1..1 : b[h] = e
      BY <1>2, <3>1 DEF OutboxInv, BatchesOK, b
    <3>3. CASE Delivered(e)
      <4>1. PICK j \in 1..m : published[j] = e
        BY <3>3 DEF Delivered, m
      <4>2. j \in 1..i /\ published'[j] = e
        BY <1>1, <1>3, <2>2, <4>1
      <4> QED BY <4>2
    <3>4. CASE b[1] = e
      <4>1. i \in 1..i /\ published'[i] = e
        BY <1>1, <1>3, <2>2, <3>4
      <4> QED BY <4>1
    <3> QED BY <3>2, <3>3, <3>4
  <2> QED BY <1>1, <2>1, <2>2
<1>10. NoneDropped'
  BY <1>1, <1>6 DEF OutboxInv, NoneDropped
<1> QED BY <1>5, <1>7, <1>8, <1>9, <1>10 DEF OutboxInv

\* A relay removes an event it has sent, or breaks off.
LEMMA RelayEndStep ==
    ASSUME OutboxInv, NEW r \in Relay, RelayBreak(r) \/ RelayRemove(r)
    PROVE  OutboxInv'
<1> DEFINE n == Len(events)
           b == relay[r].batch
<1>1. /\ n \in Nat /\ DOMAIN events = 1..n /\ UNCHANGED <<events, published>>
      /\ b \in Seq(1..n) /\ Len(b) \in Nat /\ Len(b) > 0
  BY DEF OutboxInv, OutboxTypeOK, RelayBreak, RelayRemove, SentOK
<1>2. PICK c \in {<<>>, Tail(b)} :
         /\ relay'[r] = [batch |-> c, sent |-> FALSE] /\ \A s \in Relay \ {r} : relay'[s] = relay[s]
         /\ relay' = [relay EXCEPT ![r] = [batch |-> c, sent |-> FALSE]]
         /\ \/ UNCHANGED pending
            \/ /\ pending' = pending \ {b[1]} /\ relay[r].sent /\ c = Tail(b)
         /\ c = Tail(b) => relay[r].sent \/ c = <<>>
  <2>1. CASE RelayBreak(r)
    BY <2>1 DEF OutboxInv, OutboxTypeOK, RelayBreak
  <2>2. CASE RelayRemove(r)
    <3>1. Head(b) = b[1]
      BY <1>1
    <3> QED BY <2>2, <3>1 DEF OutboxInv, OutboxTypeOK, RelayRemove
  <2> QED BY <2>1, <2>2
<1>3. /\ c \in Seq(1..n) /\ Len(c) \in Nat
      /\ c = <<>> \/ (relay[r].sent /\ Len(c) = Len(b) - 1 /\ \A i \in 1..Len(c) : c[i] = b[i + 1])
  <2>1. CASE c = <<>>
    BY <1>1, <2>1
  <2>2. CASE c # <<>>
    <3>1. c = Tail(b) /\ relay[r].sent
      BY <1>2, <2>2
    <3>2. Tail(b) \in Seq(1..n) /\ Len(Tail(b)) = Len(b) - 1 /\ \A i \in 1..Len(Tail(b)) : Tail(b)[i] = b[i + 1]
      <4> HIDE DEF b
      <4> QED BY <1>1
    <3> QED BY <1>1, <3>1, <3>2
  <2> QED BY <2>1, <2>2
<1> HIDE DEF b
<1>4. OutboxTypeOK'
  BY <1>1, <1>2, <1>3 DEF OutboxInv, OutboxTypeOK
<1>5. BatchesOK'
  <2> SUFFICES ASSUME NEW s \in Relay, NEW i \in 1..Len(relay'[s].batch), NEW e \in 1..relay'[s].batch[i]
               PROVE  Delivered(e) \/ \E h \in 1..i : relay'[s].batch[h] = e
    BY <1>1 DEF BatchesOK, Delivered
  <2>1. CASE s # r
    BY <1>2, <2>1 DEF OutboxInv, BatchesOK
  <2>2. CASE s = r
    <3>1. i \in 1..Len(c) /\ e \in 1..c[i] /\ relay'[s].batch = c
      BY <1>2, <2>2
    <3>2. /\ relay[r].sent /\ Len(c) = Len(b) - 1 /\ \A h \in 1..Len(c) : c[h] = b[h + 1]
      BY <1>3, <3>1
    <3>3. i + 1 \in 1..Len(b) /\ e \in 1..b[i + 1]
      BY <1>1, <1>3, <3>1, <3>2, SMTT(60)
    <3>4. Delivered(e) \/ \E h \in 1..(i + 1) : b[h] = e
      BY <3>3 DEF OutboxInv, BatchesOK, b
    <3>5. ASSUME NEW h \in 1..(i + 1), b[h] = e PROVE Delivered(e) \/ \E g \in 1..i : c[g] = e
      <4>1. CASE h = 1
        BY <3>2, <3>5, <4>1 DEF OutboxInv, SentOK, b
      <4>2. CASE h # 1
        <5>1. h - 1 \in 1..i /\ h - 1 \in 1..Len(c) /\ c[h - 1] = b[h]
          BY <1>3, <3>1, <3>2, <4>2, SMTT(60)
        <5> QED BY <3>5, <5>1
      <4> QED BY <4>1, <4>2
    <3> QED BY <3>1, <3>4, <3>5
  <2> QED BY <2>1, <2>2
<1>6. SentOK'
  BY <1>1, <1>2 DEF OutboxInv, SentOK, Delivered
<1>7. FirstInOrder'
  BY <1>1 DEF OutboxInv, FirstInOrder
<1>8. NoneDropped'
  <2>1. CASE UNCHANGED pending
    BY <1>1, <2>1 DEF OutboxInv, NoneDropped, Delivered
  <2>2. CASE pending' = pending \ {b[1]} /\ relay[r].sent
    <3>1. Delivered(b[1])
      BY <2>2 DEF OutboxInv, SentOK, b
    <3> QED BY <1>1, <2>2, <3>1 DEF OutboxInv, NoneDropped, Delivered
  <2> QED BY <1>2, <2>1, <2>2
<1> QED BY <1>4, <1>5, <1>6, <1>7, <1>8 DEF OutboxInv

\* The invariant of the outbox holds always.
LEMMA OutboxInvariance ==
    ASSUME Params
    PROVE  Spec => []OutboxInv
<1>1. ASSUME Init PROVE OutboxInv
  BY <1>1 DEF Init, OutboxInv, OutboxTypeOK, BatchesOK, SentOK, FirstInOrder, NoneDropped
<1>2. ASSUME Inv, OutboxInv, [Next]_vars PROVE OutboxInv'
  <2>1. ASSUME UNCHANGED boxVars PROVE OutboxInv'
    <3> USE <2>1 DEF boxVars, Delivered
    <3>1. OutboxTypeOK => OutboxTypeOK'
      BY DEF OutboxTypeOK
    <3>2. BatchesOK => BatchesOK'
      BY DEF BatchesOK
    <3>3. SentOK => SentOK'
      BY DEF SentOK
    <3>4. FirstInOrder => FirstInOrder'
      BY DEF FirstInOrder
    <3>5. NoneDropped => NoneDropped'
      BY DEF NoneDropped
    <3> QED BY <1>2, <3>1, <3>2, <3>3, <3>4, <3>5 DEF OutboxInv
  <2>2. ASSUME NEW t \in Thread, Submit(t) \/ Serve(t) PROVE OutboxInv'
    BY <1>2, <2>1, <2>2, BoxEffect, EmitStep DEF Inv
  <2>3. ASSUME NEW r \in Relay, RelayStep(r) PROVE OutboxInv'
    BY <1>2, <2>3, RelayBeginStep, RelayPublishStep, RelayEndStep DEF RelayStep
  <2>4. CASE UNCHANGED vars
    BY <2>1, <2>4 DEF vars
  <2> QED BY <1>2, <2>2, <2>3, <2>4 DEF Next
<1>3. Init => OutboxInv
  BY <1>1
<1>4. Inv /\ OutboxInv /\ [Next]_vars => OutboxInv'
  BY <1>2
<1> QED BY <1>3, <1>4, Invariance, PTL DEF Spec

\* Every field of the service, the gateway and the outbox has its type.
THEOREM TypeCorrect ==
    ASSUME Params
    PROVE  Spec => []TypeOK
<1>1. Inv /\ OutboxInv => TypeOK
  BY DEF Inv, OutboxInv, TypeOK
<1> QED BY <1>1, Invariance, OutboxInvariance, PTL

\* Outbox.relay: however many relays run, break off and overlap, events reach
\* the broker for the first time in the order of their ids, and an event that
\* left the outbox was published.
THEOREM OutboxReliableAlways ==
    ASSUME Params
    PROVE  Spec => []OutboxReliable
<1>1. ASSUME OutboxInv PROVE OutboxReliable
  <2>1. DOMAIN events = 1..Len(events) /\ DOMAIN published = 1..Len(published)
    BY <1>1 DEF OutboxInv, OutboxTypeOK
  <2>2. \A i \in DOMAIN published : \A e \in 1..published[i] : \E j \in 1..i : published[j] = e
    BY <1>1, <2>1 DEF OutboxInv, FirstInOrder
  <2>3. \A e \in DOMAIN events : e \in pending \/ Contains(published, e)
    BY <1>1, <2>1 DEF OutboxInv, NoneDropped, Contains, Delivered
  <2> QED BY <2>2, <2>3 DEF OutboxReliable
<1>2. OutboxInv => OutboxReliable
  BY <1>1
<1> QED BY <1>2, OutboxInvariance, PTL
============================================================================
