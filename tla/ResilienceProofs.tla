-------------------------- MODULE ResilienceProofs --------------------------
(***************************************************************************)
(* The safety properties of Resilience, for any threads, windows, sizes    *)
(* and budgets.                                                            *)
(***************************************************************************)
EXTENDS Resilience, NumberLemmas

\* The four groups of conjuncts of TypeOK.
BreakerTypes ==
    /\ state \in {"CLOSED", "OPEN", "HALF_OPEN"} /\ generation \in Nat
    /\ openedAt \in 0..MaxTime /\ issued \in 0..HalfOpenMax /\ successes \in 0..HalfOpenMax

CallTypes ==
    /\ abandoned \in Nat
    /\ step \in [Thread -> {"idle", "admit", "enter", "wait", "report", "decide", "ask"}]
    /\ permit \in [Thread -> -1..generation]
    /\ attempt \in [Thread -> 0..MaxAttempts]
    /\ outcome \in [Thread -> {"none", "ok", "fail", "timeout", "error", "bug", "full"}]
    /\ work \in [Thread -> {"none", "queued", "running"}]
    /\ tokens \in 0..MaxTokens
    /\ now \in 0..MaxTime /\ calls \in 0..MaxCalls /\ resets \in 0..MaxResets

Waiting == {t \in Thread : step[t] = "wait"}
SlotsExact == free \in 0..MaxConcurrent /\ free + Cardinality(Waiting) = MaxConcurrent

PoolBounded == Running <= PoolSize

\* A call has a permit only between acquire and the report of its outcome, and
\* asks for a retry only before its last attempt.
CallsOK ==
    \A t \in Thread :
        /\ permit[t] # -1 => step[t] \in {"enter", "wait", "report"}
        /\ step[t] = "ask" => attempt[t] < MaxAttempts

\* Every retry, begun or still asked for, was paid for, as long as nothing
\* succeeded and the budget is not empty.
Asking == {t \in Thread : step[t] = "ask"}
BudgetOK ==
    /\ retried \in Nat /\ won \in Nat
    /\ won = 0 /\ tokens > 0 =>
          tokens + TokenCost * (retried + Cardinality(Asking)) <= MaxTokens

\* What was recorded, and when.
LogTypes ==
    /\ log \in Seq([ok : BOOLEAN, at : Nat])
    /\ \A i \in DOMAIN log : log[i].at <= now

Failed(i) == ~log[i].ok
Mark(i) == IF Failed(i) THEN "bad" ELSE "ok"

\* The slot that was written k records before the last one.
Behind(k) == IF k < window.idx THEN window.idx - 1 - k ELSE window.idx - 1 - k + WindowSize

Slot == 0..(WindowSize - 1)
LastCalls == {i \in DOMAIN log : i > Len(log) - WindowSize}

\* CountBasedWindow: going back from the index, the ring shows the outcomes of
\* the last calls, and its totals count them.
RingOK ==
    /\ window.ring \in [Slot -> {"none", "ok", "bad"}] /\ window.idx \in Slot
    /\ \A k \in Slot : window.ring[Behind(k)] = IF k < Len(log) THEN Mark(Len(log) - k) ELSE "none"
    /\ window.total = IF Len(log) < WindowSize THEN Len(log) ELSE WindowSize
    /\ window.failures = Cardinality({i \in LastCalls : Failed(i)})

\* TimeBasedWindow: a bucket counts the outcomes of the second it holds, which
\* is one of its residue class, and none later was recorded elsewhere.
During(s) == {i \in DOMAIN log : log[i].at = s}
BucketsOK ==
    /\ window.epoch \in [Slot -> Int]
    /\ window.total \in [Slot -> Nat] /\ window.failures \in [Slot -> Nat]
    /\ \A b \in Slot : window.epoch[b] = -1 \/
          (window.epoch[b] \in 0..now /\ window.epoch[b] % WindowSize = b)
    /\ \A b \in Slot : window.total[b] = Cardinality(During(window.epoch[b]))
    /\ \A b \in Slot : window.failures[b] = Cardinality({i \in During(window.epoch[b]) : Failed(i)})
    /\ \A i \in DOMAIN log : log[i].at <= window.epoch[log[i].at % WindowSize]

WindowOK ==
    /\ LogTypes
    /\ WindowType = "COUNT" => RingOK
    /\ WindowType = "TIME" => BucketsOK

Inv == /\ BreakerTypes /\ CallTypes /\ SlotsExact /\ PoolBounded
       /\ CallsOK /\ ProbesExact /\ BudgetOK /\ OutageRetriesBounded /\ WindowOK
----------------------------------------------------------------------------
\* Finite sets that differ in one element.
LEMMA OneMore ==
    ASSUME NEW D, IsFiniteSet(D), NEW A \in SUBSET D, NEW B \in SUBSET D,
           NEW x \in D, x \notin A, x \in B, \A y \in D \ {x} : y \in A <=> y \in B
    PROVE  Cardinality(A) \in Nat /\ Cardinality(B) = Cardinality(A) + 1
<1>1. IsFiniteSet(A)
  BY FS_Subset
<1>2. B = A \cup {x}
  OBVIOUS
<1> QED
  BY <1>1, <1>2, FS_AddElement, FS_CardinalityType

\* A finite set without one of its elements.
LEMMA Without ==
    ASSUME NEW S, IsFiniteSet(S), NEW x
    PROVE  /\ IsFiniteSet(S \ {x})
           /\ Cardinality(S) \in Nat /\ Cardinality(S \ {x}) \in Nat
           /\ Cardinality(S \ {x}) = Cardinality(S) - (IF x \in S THEN 1 ELSE 0)
<1>1. IsFiniteSet(S \ {x}) /\ Cardinality(S \ {x}) = IF x \in S THEN Cardinality(S) - 1 ELSE Cardinality(S)
  BY FS_RemoveElement
<1>2. Cardinality(S) \in Nat /\ Cardinality(S \ {x}) \in Nat
  BY <1>1, FS_CardinalityType
<1> QED
  BY <1>1, <1>2

\* Residues modulo the size of a window.
LEMMA Residue ==
    ASSUME NEW w \in Nat \ {0}, NEW a \in Nat
    PROVE  /\ a % w \in 0..(w - 1)
           /\ a < w => a % w = a
           /\ w % w = 0
  OBVIOUS

\* A number is a multiple of w and its residue.
LEMMA Quotient ==
    ASSUME NEW w \in Nat, w > 0, NEW a \in Nat
    PROVE  \E q \in Int : a = w * q + (a % w)
  BY SMTT(30)

\* Two numbers less than w apart with the same residue are the same.
LEMMA SameResidue ==
    ASSUME NEW w \in Nat \ {0}, NEW a \in Nat, NEW b \in Nat, a % w = b % w,
           a <= b, b < a + w
    PROVE  a = b
<1>1. PICK q \in Int : a = w * q + (a % w)
  BY Quotient, w > 0
<1>2. PICK r \in Int : b = w * r + (b % w)
  BY Quotient, w > 0
<1>3. a % w \in Int
  OBVIOUS
<1>4. w * r - w * q = b - a
  BY <1>1, <1>2, <1>3
<1>5. r >= q + 1 => w * r >= w * q + w
  BY <1>1, <1>2, w >= 1
<1>6. q >= r + 1 => w * q >= w * r + w
  BY <1>1, <1>2, w >= 1
<1>7. q = r
  BY <1>1, <1>2, <1>4, <1>5, <1>6
<1> QED
  BY <1>4, <1>7, <1>1
----------------------------------------------------------------------------
\* What a step does to the slots of the bulkhead and to the callers inside it.
SlotEffect ==
    \/ free' = free /\ \A t \in Thread : step'[t] = "wait" <=> step[t] = "wait"
    \/ \E t \in Thread :
          /\ step[t] # "wait" /\ step'[t] = "wait" /\ free > 0 /\ free' = free - 1
          /\ \A u \in Thread \ {t} : step'[u] = step[u]
    \/ \E t \in Thread :
          /\ step[t] = "wait" /\ step'[t] # "wait" /\ free' = free + 1
          /\ \A u \in Thread \ {t} : step'[u] = step[u]

\* What a step does to the work in the executor.
PoolEffect ==
    \/ abandoned' = abandoned /\ \A t \in Thread : work'[t] = "running" <=> work[t] = "running"
    \/ \E t \in Thread :
          /\ work[t] # "running" /\ work'[t] = "running"
          /\ Running < PoolSize /\ abandoned' = abandoned
          /\ \A u \in Thread \ {t} : work'[u] = work[u]
    \/ \E t \in Thread :
          /\ work[t] = "running" /\ work'[t] # "running"
          /\ abandoned' \in {abandoned, abandoned + 1}
          /\ \A u \in Thread \ {t} : work'[u] = work[u]
    \/ abandoned > 0 /\ abandoned' = abandoned - 1 /\ work' = work

\* The slot of a caller is taken on the way in and given back on the way out.
LEMMA StepSlots ==
    ASSUME CallTypes, [Next]_vars
    PROVE  SlotEffect
<1> USE DEF CallTypes
<1>1. ASSUME UNCHANGED vars PROVE SlotEffect
  BY <1>1 DEF SlotEffect, vars, callVars
<1>2. ASSUME NEW t \in Thread, BeginCall(t) \/ Acquire(t) \/ Refuse(t) \/ BulkheadFull(t) \/ Report(t)
      PROVE  SlotEffect
  BY <1>2 DEF SlotEffect, BeginCall, Acquire, Refuse, BulkheadFull, Report, Return
<1>3. ASSUME NEW t \in Thread, RetrySucceeds(t) \/ RetryFails(t) \/ RetryAgain(t) \/ RetryExhausted(t)
      PROVE  SlotEffect
  BY <1>3 DEF SlotEffect, RetrySucceeds, RetryFails, RetryAgain, RetryExhausted, Return
<1>4. ASSUME NEW t \in Thread, EnterBulkhead(t) \/ TimesOut(t) \/ StartWork(t) PROVE SlotEffect
  BY <1>4 DEF SlotEffect, EnterBulkhead, TimesOut, StartWork, callVars
<1>5. ASSUME NEW t \in Thread, NEW how, Finish(t, how) PROVE SlotEffect
  BY <1>5 DEF SlotEffect, Finish
<1>6. ASSUME AbandonedEnds \/ ReadState \/ Reset \/ Tick PROVE SlotEffect
  BY <1>6 DEF SlotEffect, AbandonedEnds, ReadState, Reset, Tick, callVars
<1> QED
  BY <1>1, <1>2, <1>3, <1>4, <1>5, <1>6 DEF Next, Proceed

\* Work is taken up by a free thread of the executor, and leaves it or is
\* abandoned there.
LEMMA StepPool ==
    ASSUME CallTypes, [Next]_vars
    PROVE  PoolEffect
<1> USE DEF CallTypes
<1>1. ASSUME UNCHANGED vars PROVE PoolEffect
  BY <1>1 DEF PoolEffect, vars, poolVars
<1>2. ASSUME NEW t \in Thread, BeginCall(t) \/ Acquire(t) \/ Refuse(t) \/ BulkheadFull(t) \/ Report(t)
      PROVE  PoolEffect
  BY <1>2 DEF PoolEffect, BeginCall, Acquire, Refuse, BulkheadFull, Report, poolVars
<1>3. ASSUME NEW t \in Thread, RetrySucceeds(t) \/ RetryFails(t) \/ RetryAgain(t) \/ RetryExhausted(t)
      PROVE  PoolEffect
  BY <1>3 DEF PoolEffect, RetrySucceeds, RetryFails, RetryAgain, RetryExhausted, poolVars
<1>4. ASSUME NEW t \in Thread, EnterBulkhead(t) \/ TimesOut(t) \/ StartWork(t) PROVE PoolEffect
  BY <1>4 DEF PoolEffect, EnterBulkhead, TimesOut, StartWork
<1>5. ASSUME NEW t \in Thread, NEW how, Finish(t, how) PROVE PoolEffect
  BY <1>5 DEF PoolEffect, Finish
<1>6. ASSUME AbandonedEnds \/ ReadState \/ Reset \/ Tick PROVE PoolEffect
  BY <1>6 DEF PoolEffect, AbandonedEnds, ReadState, Reset, Tick, poolVars
<1> QED
  BY <1>1, <1>2, <1>3, <1>4, <1>5, <1>6 DEF Next, Proceed

\* The semaphore counts exactly the callers inside the bulkhead.
LEMMA SlotsKept ==
    ASSUME Params, SlotsExact, SlotEffect
    PROVE  SlotsExact'
<1>1. Waiting \in SUBSET Thread /\ Waiting' \in SUBSET Thread /\ IsFiniteSet(Thread)
  BY DEF Waiting, Params
<1>2. Cardinality(Waiting) \in Nat /\ Cardinality(Waiting') \in Nat
  BY <1>1, FS_Subset, FS_CardinalityType
<1>3. MaxConcurrent \in Nat
  BY DEF Params
<1>4. ASSUME free' = free, \A t \in Thread : step'[t] = "wait" <=> step[t] = "wait"
      PROVE  SlotsExact'
  <2>1. Waiting' = Waiting
    BY <1>4 DEF Waiting
  <2> QED
    BY <2>1, <1>4 DEF SlotsExact
<1>5. ASSUME NEW t \in Thread, step[t] # "wait", step'[t] = "wait", free > 0, free' = free - 1,
             \A u \in Thread \ {t} : step'[u] = step[u]
      PROVE  SlotsExact'
  <2>1. t \notin Waiting /\ t \in Waiting' /\ \A u \in Thread \ {t} : u \in Waiting <=> u \in Waiting'
    BY <1>5 DEF Waiting
  <2>2. Cardinality(Waiting') = Cardinality(Waiting) + 1
    BY <2>1, <1>1, OneMore
  <2> QED
    BY <2>2, <1>2, <1>3, <1>5 DEF SlotsExact
<1>6. ASSUME NEW t \in Thread, step[t] = "wait", step'[t] # "wait", free' = free + 1,
             \A u \in Thread \ {t} : step'[u] = step[u]
      PROVE  SlotsExact'
  <2>1. t \in Waiting /\ t \notin Waiting' /\ \A u \in Thread \ {t} : u \in Waiting' <=> u \in Waiting
    BY <1>6 DEF Waiting
  <2>2. Cardinality(Waiting) = Cardinality(Waiting') + 1
    BY <2>1, <1>1, OneMore
  <2> QED
    BY <2>2, <1>2, <1>3, <1>6 DEF SlotsExact
<1> QED
  BY <1>4, <1>5, <1>6 DEF SlotEffect

AtWork == {t \in Thread : work[t] = "running"}

\* The executor never runs more than its threads allow, abandoned work
\* included.
LEMMA PoolKept ==
    ASSUME Params, CallTypes, PoolBounded, PoolEffect
    PROVE  PoolBounded'
<1>1. AtWork \in SUBSET Thread /\ AtWork' \in SUBSET Thread /\ IsFiniteSet(Thread)
  BY DEF AtWork, Params
<1>2. Cardinality(AtWork) \in Nat /\ Cardinality(AtWork') \in Nat
  BY <1>1, FS_Subset, FS_CardinalityType
<1>3. PoolSize \in Nat /\ abandoned \in Nat
  BY DEF Params, CallTypes
<1>4. Running = abandoned + Cardinality(AtWork) /\ Running' = abandoned' + Cardinality(AtWork')
  BY DEF Running, AtWork
<1>5. ASSUME abandoned' = abandoned, \A t \in Thread : work'[t] = "running" <=> work[t] = "running"
      PROVE  PoolBounded'
  <2>1. AtWork' = AtWork
    BY <1>5 DEF AtWork
  <2> QED
    BY <2>1, <1>4, <1>5 DEF PoolBounded
<1>6. ASSUME NEW t \in Thread, work[t] # "running", work'[t] = "running", Running < PoolSize,
             abandoned' = abandoned, \A u \in Thread \ {t} : work'[u] = work[u]
      PROVE  PoolBounded'
  <2>1. t \notin AtWork /\ t \in AtWork' /\ \A u \in Thread \ {t} : u \in AtWork <=> u \in AtWork'
    BY <1>6 DEF AtWork
  <2>2. Cardinality(AtWork') = Cardinality(AtWork) + 1
    BY <2>1, <1>1, OneMore
  <2> QED
    BY <2>2, <1>2, <1>3, <1>4, <1>6 DEF PoolBounded
<1>7. ASSUME NEW t \in Thread, work[t] = "running", work'[t] # "running",
             abandoned' \in {abandoned, abandoned + 1}, \A u \in Thread \ {t} : work'[u] = work[u]
      PROVE  PoolBounded'
  <2>1. t \in AtWork /\ t \notin AtWork' /\ \A u \in Thread \ {t} : u \in AtWork' <=> u \in AtWork
    BY <1>7 DEF AtWork
  <2>2. Cardinality(AtWork) = Cardinality(AtWork') + 1
    BY <2>1, <1>1, OneMore
  <2> QED
    BY <2>2, <1>2, <1>3, <1>4, <1>7 DEF PoolBounded
<1>8. ASSUME abandoned > 0, abandoned' = abandoned - 1, work' = work PROVE PoolBounded'
  <2>1. AtWork' = AtWork
    BY <1>8 DEF AtWork
  <2> QED
    BY <2>1, <1>2, <1>3, <1>4, <1>8 DEF PoolBounded
<1> QED
  BY <1>5, <1>6, <1>7, <1>8 DEF PoolEffect
----------------------------------------------------------------------------
\* What a step does to the probes: nothing, or the breaker has changed its
\* state, or a probe is admitted, or one gives its slot back or is spent.
ProbeEffect ==
    \/ /\ UNCHANGED <<generation, issued, successes>>
       /\ \/ state' # "HALF_OPEN"
          \/ state' = state /\ \A u \in Thread : permit'[u] = generation <=> permit[u] = generation
    \/ /\ generation' = generation + 1 /\ issued' = 0 /\ successes' = 0
       /\ \A u \in Thread : permit'[u] # generation'
    \/ \E t \in Thread :
          /\ generation' = generation + 1 /\ issued' = 1 /\ successes' = 0
          /\ \A u \in Thread : permit'[u] = generation' <=> u = t
    \/ \E t \in Thread :
          /\ state = "HALF_OPEN" /\ generation' = generation
          /\ permit[t] # generation /\ permit'[t] = generation
          /\ \A u \in Thread \ {t} : permit'[u] = permit[u]
          /\ issued < HalfOpenMax /\ issued' = issued + 1 /\ successes' = successes
    \/ \E t \in Thread :
          /\ state = "HALF_OPEN" /\ generation' = generation
          /\ permit[t] = generation /\ permit'[t] # generation
          /\ \A u \in Thread \ {t} : permit'[u] = permit[u]
          /\ \/ issued' = issued - 1 /\ successes' = successes
             \/ issued' = issued /\ successes' = successes + 1 /\ successes' < HalfOpenMax

\* The report of an outcome, in each state of the breaker.
LEMMA ReportProbes ==
    ASSUME Params, BreakerTypes, CallTypes, NEW t \in Thread, Report(t)
    PROVE  ProbeEffect
<1> USE DEF CallTypes, BreakerTypes
<1>1. permit'[t] = -1 /\ \A u \in Thread \ {t} : permit'[u] = permit[u]
  BY DEF Report
<1>2. \/ Release(t)
      \/ \E ok \in BOOLEAN : OnResult(t, ok)
  BY DEF Report
<1>3. ASSUME UNCHANGED breakerVars, Stale(t) \/ state # "HALF_OPEN" PROVE ProbeEffect
  BY <1>1, <1>3 DEF ProbeEffect, Stale, breakerVars
<1>4. ASSUME Release(t) PROVE ProbeEffect
  <2>1. CASE ~Stale(t) /\ state = "HALF_OPEN"
    BY <1>1, <1>4, <2>1 DEF ProbeEffect, Stale, Release
  <2> QED
    BY <1>3, <1>4, <2>1 DEF Release
<1>5. ASSUME NEW new, Transition(new) PROVE ProbeEffect
  <2>1. generation' = generation + 1 /\ issued' = 0 /\ successes' = 0
    BY <1>5 DEF Transition
  <2>2. \A u \in Thread : permit'[u] # generation'
    BY <1>1, <2>1
  <2> QED
    BY <2>1, <2>2 DEF ProbeEffect
<1>6. ASSUME ~Stale(t), state = "CLOSED", generation' = generation + 1, issued' = 0, successes' = 0
      PROVE  ProbeEffect
  BY <1>1, <1>6 DEF ProbeEffect
<1>7. ASSUME state = "CLOSED", UNCHANGED <<state, generation, issued, successes>> PROVE ProbeEffect
  BY <1>7 DEF ProbeEffect
<1>8. ASSUME ~Stale(t), state = "HALF_OPEN", successes + 1 < HalfOpenMax, successes' = successes + 1,
             UNCHANGED <<state, generation, issued>>
      PROVE  ProbeEffect
  BY <1>1, <1>8 DEF ProbeEffect, Stale
<1>9. ASSUME NEW ok \in BOOLEAN, OnResult(t, ok) PROVE ProbeEffect
  <2>1. CASE (Stale(t) \/ state = "OPEN") /\ UNCHANGED breakerVars
    BY <1>3, <2>1
  <2>2. CASE ~Stale(t) /\ state = "CLOSED"
    BY <1>6, <1>7, <1>9, <2>2 DEF OnResult
  <2>3. CASE ~Stale(t) /\ state = "HALF_OPEN"
    BY <1>5, <1>8, <1>9, <2>3 DEF OnResult, Params
  <2> QED
    BY <1>9, <2>1, <2>2, <2>3 DEF OnResult
<1> QED
  BY <1>2, <1>4, <1>9

\* Only acquire, the report of an outcome and a change of state touch the
\* probes.
LEMMA StepProbes ==
    ASSUME Params, BreakerTypes, CallTypes, CallsOK, [Next]_vars
    PROVE  ProbeEffect
<1>1. ASSUME UNCHANGED <<breakerVars, permit>> PROVE ProbeEffect
  BY <1>1 DEF ProbeEffect, breakerVars
<1>2. ASSUME NEW new, Transition(new), permit' = permit PROVE ProbeEffect
  BY <1>2 DEF ProbeEffect, Transition, CallTypes, BreakerTypes
<1>3. ASSUME NEW t \in Thread, Acquire(t) PROVE ProbeEffect
  <2> USE DEF CallTypes, BreakerTypes
  <2>1. /\ permit[t] = -1 /\ permit'[t] = generation'
        /\ \A u \in Thread \ {t} : permit'[u] = permit[u]
    BY <1>3 DEF Acquire, CallsOK
  <2>2. CASE state = "CLOSED" /\ UNCHANGED breakerVars
    BY <2>2 DEF ProbeEffect, breakerVars
  <2>3. CASE /\ state = "HALF_OPEN" /\ issued < HalfOpenMax /\ issued' = issued + 1
             /\ UNCHANGED <<state, generation, openedAt, successes, window, log>>
    BY <2>1, <2>3 DEF ProbeEffect
  <2>4. CASE generation' = generation + 1 /\ issued' = 1 /\ successes' = 0
    BY <2>1, <2>4 DEF ProbeEffect
  <2> QED
    BY <1>3, <2>2, <2>3, <2>4 DEF Acquire
<1>4. ASSUME NEW t \in Thread, BeginCall(t) \/ Refuse(t) \/ EnterBulkhead(t) \/ BulkheadFull(t)
                               \/ TimesOut(t) \/ StartWork(t)
      PROVE  UNCHANGED <<breakerVars, permit>>
  BY <1>4 DEF BeginCall, Refuse, EnterBulkhead, BulkheadFull, TimesOut, StartWork, callVars
<1>5. ASSUME NEW t \in Thread, RetrySucceeds(t) \/ RetryFails(t) \/ RetryAgain(t) \/ RetryExhausted(t)
      PROVE  UNCHANGED <<breakerVars, permit>>
  BY <1>5 DEF RetrySucceeds, RetryFails, RetryAgain, RetryExhausted
<1>6. ASSUME NEW t \in Thread, NEW how, Finish(t, how) PROVE UNCHANGED <<breakerVars, permit>>
  BY <1>6 DEF Finish
<1>7. ASSUME AbandonedEnds \/ Tick PROVE UNCHANGED <<breakerVars, permit>>
  BY <1>7 DEF AbandonedEnds, Tick, callVars
<1>8. ASSUME ReadState \/ Reset PROVE ProbeEffect
  BY <1>2, <1>8 DEF ReadState, Reset, callVars
<1>9. ASSUME UNCHANGED vars PROVE UNCHANGED <<breakerVars, permit>>
  BY <1>9 DEF vars, callVars
<1> QED
  BY <1>1, <1>3, <1>4, <1>5, <1>6, <1>7, <1>8, <1>9, ReportProbes DEF Next, Proceed

ProbesOK == /\ issued \in 0..HalfOpenMax /\ successes \in 0..HalfOpenMax
            /\ ProbesExact

\* A slot is taken with each probe admitted, and leaves its account with that
\* probe alone.
LEMMA ProbesKept ==
    ASSUME Params, BreakerTypes, CallTypes, ProbesExact, ProbeEffect
    PROVE  ProbesOK'
<1>1. Probes \in SUBSET Thread /\ Probes' \in SUBSET Thread /\ IsFiniteSet(Thread)
  BY DEF Probes, Params
<1>2. Cardinality(Probes) \in Nat /\ Cardinality(Probes') \in Nat
  BY <1>1, FS_Subset, FS_CardinalityType
<1>3. HalfOpenMax \in Nat \ {0} /\ generation \in Nat
      /\ issued \in 0..HalfOpenMax /\ successes \in 0..HalfOpenMax
  BY DEF Params, BreakerTypes
<1>4. ASSUME UNCHANGED <<generation, issued, successes>>, state' # "HALF_OPEN" PROVE ProbesOK'
  BY <1>3, <1>4 DEF ProbesOK, ProbesExact
<1>5. ASSUME UNCHANGED <<generation, issued, successes>>, state' = state,
             \A u \in Thread : permit'[u] = generation <=> permit[u] = generation
      PROVE  ProbesOK'
  <2>1. Probes' = Probes
    BY <1>5 DEF Probes
  <2> QED
    BY <1>3, <1>5, <2>1 DEF ProbesOK, ProbesExact
<1>6. ASSUME generation' = generation + 1, issued' = 0, successes' = 0,
             \A u \in Thread : permit'[u] # generation'
      PROVE  ProbesOK'
  <2>1. Probes' = {}
    BY <1>6 DEF Probes
  <2> QED
    BY <1>3, <1>6, <2>1, FS_EmptySet DEF ProbesOK, ProbesExact
<1>7. ASSUME NEW t \in Thread, generation' = generation + 1, issued' = 1, successes' = 0,
             \A u \in Thread : permit'[u] = generation' <=> u = t
      PROVE  ProbesOK'
  <2>1. Probes' = {t}
    BY <1>7 DEF Probes
  <2>2. Cardinality(Probes') = 1
    BY <2>1, FS_Singleton
  <2> QED
    BY <1>3, <1>7, <2>2 DEF ProbesOK, ProbesExact
<1>8. ASSUME NEW t \in Thread, state = "HALF_OPEN", generation' = generation,
             permit[t] # generation, permit'[t] = generation,
             \A u \in Thread \ {t} : permit'[u] = permit[u],
             issued < HalfOpenMax, issued' = issued + 1, successes' = successes
      PROVE  ProbesOK'
  <2>1. t \notin Probes /\ t \in Probes' /\ \A u \in Thread \ {t} : u \in Probes <=> u \in Probes'
    BY <1>8 DEF Probes
  <2>2. Cardinality(Probes') = Cardinality(Probes) + 1
    BY <2>1, <1>1, OneMore
  <2> QED
    BY <1>2, <1>3, <1>8, <2>2 DEF ProbesOK, ProbesExact
<1>9. ASSUME NEW t \in Thread, state = "HALF_OPEN", generation' = generation,
             permit[t] = generation, permit'[t] # generation,
             \A u \in Thread \ {t} : permit'[u] = permit[u],
             \/ issued' = issued - 1 /\ successes' = successes
             \/ issued' = issued /\ successes' = successes + 1 /\ successes' < HalfOpenMax
      PROVE  ProbesOK'
  <2>1. t \in Probes /\ t \notin Probes' /\ \A u \in Thread \ {t} : u \in Probes' <=> u \in Probes
    BY <1>9 DEF Probes
  <2>2. Cardinality(Probes) = Cardinality(Probes') + 1
    BY <2>1, <1>1, OneMore
  <2> QED
    BY <1>2, <1>3, <1>9, <2>2 DEF ProbesOK, ProbesExact
<1> QED
  BY <1>4, <1>5, <1>6, <1>7, <1>8, <1>9 DEF ProbeEffect
----------------------------------------------------------------------------
\* The greater and the lesser of two numbers.
LEMMA OfTwo ==
    ASSUME NEW a \in Int, NEW b \in Int
    PROVE  /\ Max({a, b}) = IF a >= b THEN a ELSE b
           /\ Min({a, b}) = IF a <= b THEN a ELSE b
<1>1. \E x \in {a, b} : \A y \in {a, b} : x >= y
  OBVIOUS
<1>2. \E x \in {a, b} : \A y \in {a, b} : x =< y
  OBVIOUS
<1>3. Max({a, b}) \in {a, b} /\ \A y \in {a, b} : Max({a, b}) >= y
  BY <1>1 DEF Max
<1>4. Min({a, b}) \in {a, b} /\ \A y \in {a, b} : Min({a, b}) =< y
  BY <1>2 DEF Min
<1> QED
  BY <1>3, <1>4

\* What the budget holds after a success and after a failure.
LEMMA BudgetMoves ==
    ASSUME Params, CallTypes
    PROVE  /\ Refunded \in 0..MaxTokens
           /\ Charged \in 0..MaxTokens
           /\ Charged > 0 => Charged = tokens - TokenCost
<1>1. tokens \in 0..MaxTokens /\ MaxTokens \in Nat /\ TokenCost \in Nat
  BY DEF Params, CallTypes
<1>2. Refunded = IF MaxTokens <= tokens + 1 THEN MaxTokens ELSE tokens + 1
  <2>1. MaxTokens \in Int /\ tokens + 1 \in Int
    BY <1>1
  <2>2. Min({MaxTokens, tokens + 1}) = IF MaxTokens <= tokens + 1 THEN MaxTokens ELSE tokens + 1
    BY <2>1, OfTwo, Zenon
  <2> QED
    BY <2>2 DEF Refunded
<1>3. Charged = IF 0 >= tokens - TokenCost THEN 0 ELSE tokens - TokenCost
  BY <1>1, OfTwo DEF Charged
<1> QED
  BY <1>1, <1>2, <1>3

\* What a step does to the budget and to the threads that ask it.
BudgetEffect ==
    \/ /\ UNCHANGED budgetVars
       /\ \A t \in Thread : step'[t] = "ask" => step[t] = "ask"
    \/ won' = won + 1 /\ retried' = retried
    \/ \E t \in Thread :
          /\ step[t] # "ask" /\ tokens' = Charged /\ UNCHANGED <<retried, won>>
          /\ \A u \in Thread \ {t} : step'[u] = step[u]
    \/ \E t \in Thread :
          /\ step[t] = "ask" /\ step'[t] # "ask" /\ CanRetry
          /\ \A u \in Thread \ {t} : step'[u] = step[u]
          /\ retried' = retried + 1 /\ UNCHANGED <<tokens, won>>

\* A thread asks only after it was charged.
LEMMA StepBudget ==
    ASSUME CallTypes, [Next]_vars
    PROVE  BudgetEffect
<1> USE DEF CallTypes
<1>1. ASSUME UNCHANGED vars PROVE BudgetEffect
  BY <1>1 DEF BudgetEffect, vars, callVars
<1>2. ASSUME NEW t \in Thread, BeginCall(t) \/ Acquire(t) \/ Refuse(t) \/ BulkheadFull(t) \/ Report(t)
      PROVE  BudgetEffect
  BY <1>2 DEF BudgetEffect, BeginCall, Acquire, Refuse, BulkheadFull, Report, Return
<1>3. ASSUME NEW t \in Thread, RetrySucceeds(t) PROVE BudgetEffect
  BY <1>3 DEF BudgetEffect, RetrySucceeds
<1>4. ASSUME NEW t \in Thread, RetryFails(t) PROVE BudgetEffect
  BY <1>4 DEF BudgetEffect, RetryFails, Return, budgetVars
<1>5. ASSUME NEW t \in Thread, RetryAgain(t) \/ RetryExhausted(t) PROVE BudgetEffect
  BY <1>5 DEF BudgetEffect, RetryAgain, RetryExhausted, Return
<1>6. ASSUME NEW t \in Thread, EnterBulkhead(t) \/ TimesOut(t) \/ StartWork(t) PROVE BudgetEffect
  BY <1>6 DEF BudgetEffect, EnterBulkhead, TimesOut, StartWork, callVars
<1>7. ASSUME NEW t \in Thread, NEW how, Finish(t, how) PROVE BudgetEffect
  BY <1>7 DEF BudgetEffect, Finish
<1>8. ASSUME AbandonedEnds \/ ReadState \/ Reset \/ Tick PROVE BudgetEffect
  BY <1>8 DEF BudgetEffect, AbandonedEnds, ReadState, Reset, Tick, callVars
<1> QED
  BY <1>1, <1>2, <1>3, <1>4, <1>5, <1>6, <1>7, <1>8 DEF Next, Proceed

\* Products grow with their factors.
LEMMA Product ==
    ASSUME NEW c \in Nat, NEW m \in Nat, NEW n \in Nat, m <= n
    PROVE  c * m \in Nat /\ c * n \in Nat /\ c * m <= c * n
<1>1. c * (n - m) \in Nat
  OBVIOUS
<1>2. c * n = c * m + c * (n - m)
  OBVIOUS
<1> QED
  BY <1>1, <1>2

\* A retry needs more than half of the tokens, and has cost TokenCost of them.
LEMMA BudgetKept ==
    ASSUME Params, CallTypes, BudgetOK, OutageRetriesBounded, BudgetEffect
    PROVE  BudgetOK' /\ OutageRetriesBounded'
<1> DEFINE asks == Cardinality(Asking)
           asks1 == Cardinality(Asking')
<1>1. Asking \in SUBSET Thread /\ Asking' \in SUBSET Thread /\ IsFiniteSet(Thread)
  BY DEF Asking, Params
<1>2. asks \in Nat /\ asks1 \in Nat
  BY <1>1, FS_Subset, FS_CardinalityType
<1>3. MaxTokens \in Nat /\ TokenCost \in Nat /\ tokens \in 0..MaxTokens /\ retried \in Nat /\ won \in Nat
  BY DEF Params, CallTypes, BudgetOK
<1>4. won = 0 /\ tokens > 0 => tokens + TokenCost * (retried + asks) <= MaxTokens
  BY DEF BudgetOK
<1>5. won = 0 => 2 * TokenCost * retried < MaxTokens
  BY DEF OutageRetriesBounded
<1>6. SUFFICES /\ retried' \in Nat /\ won' \in Nat
               /\ won' = 0 /\ tokens' > 0 => tokens' + TokenCost * (retried' + asks1) <= MaxTokens
               /\ won' = 0 => 2 * TokenCost * retried' < MaxTokens
  BY DEF BudgetOK, OutageRetriesBounded
<1> HIDE DEF asks, asks1
<1>7. CASE UNCHANGED budgetVars /\ \A t \in Thread : step'[t] = "ask" => step[t] = "ask"
  <2>1. Asking' \subseteq Asking
    BY <1>7 DEF Asking
  <2>2. asks1 <= asks
    BY <1>1, <2>1, FS_Subset DEF asks, asks1
  <2>3. TokenCost * (retried + asks1) <= TokenCost * (retried + asks)
    BY <1>2, <1>3, <2>2, Product
  <2> QED
    BY <1>2, <1>3, <1>4, <1>5, <1>7, <2>3, Product DEF budgetVars
<1>8. CASE won' = won + 1 /\ retried' = retried
  BY <1>3, <1>8
<1>9. ASSUME NEW t \in Thread, step[t] # "ask", tokens' = Charged, UNCHANGED <<retried, won>>,
             \A u \in Thread \ {t} : step'[u] = step[u]
      PROVE  /\ retried' \in Nat /\ won' \in Nat
             /\ won' = 0 /\ tokens' > 0 => tokens' + TokenCost * (retried' + asks1) <= MaxTokens
             /\ won' = 0 => 2 * TokenCost * retried' < MaxTokens
  <2>1. asks1 <= asks + 1
    <3>1. CASE t \in Asking'
      <4>1. t \notin Asking /\ \A u \in Thread \ {t} : u \in Asking <=> u \in Asking'
        BY <1>9 DEF Asking
      <4> QED
        BY <1>1, <1>2, <3>1, <4>1, OneMore DEF asks, asks1
    <3>2. CASE t \notin Asking'
      <4>1. Asking' \subseteq Asking
        BY <1>9, <3>2 DEF Asking
      <4>2. asks1 <= asks
        BY <1>1, <4>1, FS_Subset DEF asks, asks1
      <4> QED
        BY <1>2, <4>2
    <3> QED
      BY <3>1, <3>2
  <2>2. TokenCost * (retried + asks1) <= TokenCost * (retried + asks + 1)
    BY <1>2, <1>3, <2>1, Product
  <2>3. TokenCost * (retried + asks + 1) = TokenCost * (retried + asks) + TokenCost
    BY <1>2, <1>3
  <2>4. TokenCost * (retried + asks1) \in Nat /\ TokenCost * (retried + asks) \in Nat
    BY <1>2, <1>3, Product
  <2>5. tokens' > 0 => tokens > 0 /\ tokens' = tokens - TokenCost
    BY <1>3, <1>9, BudgetMoves
  <2> QED
    BY <1>3, <1>4, <1>5, <1>9, <2>2, <2>3, <2>4, <2>5
<1>10. ASSUME NEW t \in Thread, step[t] = "ask", step'[t] # "ask", CanRetry,
              \A u \in Thread \ {t} : step'[u] = step[u],
              retried' = retried + 1, UNCHANGED <<tokens, won>>
       PROVE  /\ retried' \in Nat /\ won' \in Nat
              /\ won' = 0 /\ tokens' > 0 => tokens' + TokenCost * (retried' + asks1) <= MaxTokens
              /\ won' = 0 => 2 * TokenCost * retried' < MaxTokens
  <2>1. t \in Asking /\ t \notin Asking' /\ \A u \in Thread \ {t} : u \in Asking' <=> u \in Asking
    BY <1>10 DEF Asking
  <2>2. asks = asks1 + 1
    BY <1>1, <2>1, OneMore DEF asks, asks1
  <2>3. retried' + asks1 = retried + asks
    BY <1>2, <1>3, <1>10, <2>2
  <2>4. 2 * tokens > MaxTokens
    BY <1>10 DEF CanRetry
  <2>5. /\ TokenCost * (retried + 1) \in Nat /\ TokenCost * (retried + asks) \in Nat
        /\ TokenCost * (retried + 1) <= TokenCost * (retried + asks)
    BY <1>2, <1>3, <2>2, Product
  <2>6. won = 0 => TokenCost * (retried + asks) <= MaxTokens - tokens
    BY <1>3, <1>4, <2>4, <2>5
  <2>7. won = 0 => 2 * (TokenCost * (retried + 1)) < MaxTokens
    BY <1>3, <2>4, <2>5, <2>6
  <2>8. 2 * TokenCost * (retried + 1) = 2 * (TokenCost * (retried + 1))
    BY <1>3
  <2>9. won' = 0 => 2 * TokenCost * retried' < MaxTokens
    BY <1>10, <2>7, <2>8
  <2>10. won' = 0 /\ tokens' > 0 => tokens' + TokenCost * (retried' + asks1) <= MaxTokens
    BY <1>4, <1>10, <2>3
  <2> QED
    BY <1>3, <1>10, <2>9, <2>10
<1> QED
  BY <1>7, <1>8, <1>9, <1>10 DEF BudgetEffect
----------------------------------------------------------------------------
\* The breaker's fields that are not about probes.
LEMMA BreakerTypesKept ==
    ASSUME Params, BreakerTypes, CallTypes, ProbesOK', [Next]_vars
    PROVE  BreakerTypes'
<1> DEFINE Typed == /\ state \in {"CLOSED", "OPEN", "HALF_OPEN"} /\ generation \in Nat
                    /\ openedAt \in 0..MaxTime
<1>1. SUFFICES Typed'
  BY DEF BreakerTypes, ProbesOK
<1>2. Typed /\ now \in 0..MaxTime
  BY DEF BreakerTypes, CallTypes
<1>3. ASSUME UNCHANGED breakerVars PROVE Typed'
  BY <1>2, <1>3 DEF breakerVars
<1>4. ASSUME NEW new \in {"CLOSED", "OPEN", "HALF_OPEN"}, Transition(new) PROVE Typed'
  BY <1>2, <1>4 DEF Transition
<1>5. ASSUME NEW t \in Thread, Acquire(t) PROVE Typed'
  BY <1>2, <1>5 DEF Acquire, breakerVars
<1>6. ASSUME NEW t \in Thread, Report(t) PROVE Typed'
  <2>1. CASE Release(t)
    BY <1>2, <2>1 DEF Release, breakerVars
  <2>2. ASSUME NEW ok \in BOOLEAN, OnResult(t, ok) PROVE Typed'
    BY <1>2, <1>3, <1>4, <2>2 DEF OnResult
  <2> QED
    BY <1>6, <2>1, <2>2 DEF Report
<1>7. ASSUME NEW t \in Thread, BeginCall(t) \/ Refuse(t) \/ EnterBulkhead(t) \/ BulkheadFull(t)
                               \/ TimesOut(t) \/ StartWork(t)
      PROVE  UNCHANGED breakerVars
  BY <1>7 DEF BeginCall, Refuse, EnterBulkhead, BulkheadFull, TimesOut, StartWork
<1>8. ASSUME NEW t \in Thread, RetrySucceeds(t) \/ RetryFails(t) \/ RetryAgain(t) \/ RetryExhausted(t)
      PROVE  UNCHANGED breakerVars
  BY <1>8 DEF RetrySucceeds, RetryFails, RetryAgain, RetryExhausted
<1>9. ASSUME NEW t \in Thread, NEW how, Finish(t, how) PROVE UNCHANGED breakerVars
  BY <1>9 DEF Finish
<1>10. ASSUME AbandonedEnds \/ Tick \/ UNCHANGED vars PROVE UNCHANGED breakerVars
  BY <1>10 DEF AbandonedEnds, Tick, vars
<1>11. ASSUME ReadState \/ Reset PROVE Typed'
  BY <1>4, <1>11 DEF ReadState, Reset
<1> HIDE DEF Typed
<1> QED
  BY <1>3, <1>5, <1>6, <1>7, <1>8, <1>9, <1>10, <1>11 DEF Next, Proceed

\* No step makes the generation smaller, so permits stay in range.
LEMMA GenerationGrows ==
    ASSUME BreakerTypes, ProbeEffect
    PROVE  generation' \in Nat /\ generation <= generation'
  BY DEF BreakerTypes, ProbeEffect

\* The fields of calls, executor and budget, with what is known of a permit
\* and of a thread that asks for a retry.
LEMMA CallsKept ==
    ASSUME Params, BreakerTypes, CallTypes, CallsOK, ProbeEffect, [Next]_vars
    PROVE  CallTypes' /\ CallsOK'
<1>1. generation' \in Nat /\ generation <= generation' /\ generation \in Nat
  BY GenerationGrows DEF BreakerTypes
<1>2. permit \in [Thread -> -1..generation']
  BY <1>1 DEF CallTypes
<1>3. /\ MaxAttempts \in Nat \ {0} /\ MaxTokens \in Nat /\ MaxTime \in Nat
      /\ MaxCalls \in Nat /\ MaxResets \in Nat
  BY DEF Params
<1>4. Refunded \in 0..MaxTokens /\ Charged \in 0..MaxTokens
  BY BudgetMoves
<1> USE DEF CallTypes, CallsOK
<1>5. CASE UNCHANGED vars
  BY <1>5 DEF vars, callVars, poolVars, budgetVars, envVars, breakerVars
<1>6. ASSUME NEW t \in Thread, BeginCall(t) PROVE CallTypes' /\ CallsOK'
  BY <1>2, <1>3, <1>6 DEF BeginCall, poolVars, budgetVars
<1>7. ASSUME NEW t \in Thread, Acquire(t) PROVE CallTypes' /\ CallsOK'
  BY <1>1, <1>2, <1>3, <1>7 DEF Acquire, poolVars, budgetVars, envVars
<1>8. ASSUME NEW t \in Thread, Refuse(t) PROVE CallTypes' /\ CallsOK'
  BY <1>2, <1>3, <1>8 DEF Refuse, Return, poolVars, budgetVars, envVars
<1>9. ASSUME NEW t \in Thread, EnterBulkhead(t) \/ BulkheadFull(t) PROVE CallTypes' /\ CallsOK'
  BY <1>2, <1>3, <1>9 DEF EnterBulkhead, BulkheadFull, poolVars, budgetVars, envVars
<1>10. ASSUME NEW t \in Thread, TimesOut(t) \/ StartWork(t) PROVE CallTypes' /\ CallsOK'
  BY <1>2, <1>3, <1>10 DEF TimesOut, StartWork, callVars, budgetVars, envVars
<1>11. ASSUME NEW t \in Thread, NEW how \in {"ok", "fail", "error", "bug"}, Finish(t, how)
       PROVE  CallTypes' /\ CallsOK'
  BY <1>2, <1>3, <1>11 DEF Finish, budgetVars, envVars
<1>12. ASSUME NEW t \in Thread, Report(t) PROVE CallTypes' /\ CallsOK'
  <2>1. /\ permit' = [permit EXCEPT ![t] = -1] /\ step' = [step EXCEPT ![t] = "decide"]
        /\ UNCHANGED <<attempt, outcome, poolVars, budgetVars, envVars>>
    BY <1>12 DEF Report
  <2> QED
    BY <1>1, <1>2, <1>3, <2>1 DEF poolVars, budgetVars, envVars
<1>13. ASSUME NEW t \in Thread, RetrySucceeds(t) PROVE CallTypes' /\ CallsOK'
  BY <1>2, <1>3, <1>4, <1>13 DEF RetrySucceeds, Return, poolVars, envVars
<1>14. ASSUME NEW t \in Thread, RetryFails(t) PROVE CallTypes' /\ CallsOK'
  BY <1>2, <1>3, <1>4, <1>14 DEF RetryFails, Return, poolVars, envVars
<1>15. ASSUME NEW t \in Thread, RetryAgain(t) PROVE CallTypes' /\ CallsOK'
  BY <1>2, <1>3, <1>15 DEF RetryAgain, poolVars, envVars
<1>16. ASSUME NEW t \in Thread, RetryExhausted(t) PROVE CallTypes' /\ CallsOK'
  BY <1>2, <1>3, <1>16 DEF RetryExhausted, Return, poolVars, budgetVars, envVars
<1>17. CASE AbandonedEnds \/ ReadState \/ Reset \/ Tick
  BY <1>2, <1>3, <1>17 DEF AbandonedEnds, ReadState, Reset, Tick, callVars, poolVars, budgetVars, envVars
<1> QED
  BY <1>5, <1>6, <1>7, <1>8, <1>9, <1>10, <1>11, <1>12, <1>13, <1>14, <1>15, <1>16, <1>17
  DEF Next, Proceed
----------------------------------------------------------------------------
\* What a step does to the window and its history.
WindowEffect ==
    \/ UNCHANGED <<window, log>> /\ now' \in {now, now + 1}
    \/ window' = EmptyWindow /\ log' = <<>> /\ now' = now
    \/ /\ now' = now
       /\ \E ok \in BOOLEAN :
             window' = Recorded(window, ok) /\ log' = Append(log, [ok |-> ok, at |-> now])

\* An outcome is recorded with the time of its report, and the window is reset
\* with its history.
LEMMA StepWindow ==
    ASSUME [Next]_vars
    PROVE  WindowEffect
<1>1. ASSUME UNCHANGED <<window, log>>, now' = now PROVE WindowEffect
  BY <1>1 DEF WindowEffect
<1>2. ASSUME NEW new, Transition(new), now' = now PROVE WindowEffect
  BY <1>2 DEF WindowEffect, Transition
<1>3. ASSUME NEW t \in Thread, Acquire(t) PROVE WindowEffect
  BY <1>1, <1>3 DEF Acquire, breakerVars, envVars
<1>4. ASSUME NEW t \in Thread, Report(t) PROVE WindowEffect
  <2>1. now' = now
    BY <1>4 DEF Report, envVars
  <2>2. CASE Release(t)
    BY <1>1, <2>1, <2>2 DEF Release, breakerVars
  <2>3. ASSUME NEW ok \in BOOLEAN, OnResult(t, ok) PROVE WindowEffect
    <3>1. CASE UNCHANGED breakerVars
      BY <1>1, <2>1, <3>1 DEF breakerVars
    <3>2. CASE ~Stale(t) /\ state = "CLOSED" /\ ~UNCHANGED breakerVars
      <4>1. window' = Recorded(window, ok) /\ log' = Append(log, [ok |-> ok, at |-> now])
        BY <2>3, <3>2 DEF OnResult
      <4> QED
        BY <2>1, <4>1 DEF WindowEffect
    <3>3. CASE ~Stale(t) /\ state = "HALF_OPEN"
      BY <1>1, <1>2, <2>1, <2>3, <3>3 DEF OnResult
    <3> QED
      BY <2>3, <3>1, <3>2, <3>3 DEF OnResult
  <2> QED
    BY <1>4, <2>2, <2>3 DEF Report
<1>5. ASSUME NEW t \in Thread, BeginCall(t) \/ Refuse(t) \/ EnterBulkhead(t) \/ BulkheadFull(t)
                               \/ TimesOut(t) \/ StartWork(t)
      PROVE  UNCHANGED <<window, log>> /\ now' = now
  BY <1>5 DEF BeginCall, Refuse, EnterBulkhead, BulkheadFull, TimesOut, StartWork, breakerVars, envVars
<1>6. ASSUME NEW t \in Thread, RetrySucceeds(t) \/ RetryFails(t) \/ RetryAgain(t) \/ RetryExhausted(t)
      PROVE  UNCHANGED <<window, log>> /\ now' = now
  BY <1>6 DEF RetrySucceeds, RetryFails, RetryAgain, RetryExhausted, breakerVars, envVars
<1>7. ASSUME NEW t \in Thread, NEW how, Finish(t, how) PROVE UNCHANGED <<window, log>> /\ now' = now
  BY <1>7 DEF Finish, breakerVars, envVars
<1>8. ASSUME AbandonedEnds \/ UNCHANGED vars PROVE UNCHANGED <<window, log>> /\ now' = now
  BY <1>8 DEF AbandonedEnds, vars, breakerVars, envVars
<1>9. ASSUME Tick PROVE WindowEffect
  BY <1>9 DEF Tick, breakerVars, WindowEffect
<1>10. ASSUME ReadState \/ Reset PROVE WindowEffect
  BY <1>2, <1>10 DEF ReadState, Reset, envVars
<1> QED
  BY <1>1, <1>3, <1>4, <1>5, <1>6, <1>7, <1>8, <1>9, <1>10 DEF Next, Proceed

\* The entries of the history.
LEMMA LogEntries ==
    ASSUME LogTypes
    PROVE  /\ Len(log) \in Nat /\ DOMAIN log = 1..Len(log)
           /\ \A i \in DOMAIN log : log[i].at \in Nat /\ log[i].at <= now /\ log[i].ok \in BOOLEAN
<1>1. Len(log) \in Nat /\ DOMAIN log = 1..Len(log)
  BY DEF LogTypes
<1>2. \A i \in DOMAIN log : log[i] \in [ok : BOOLEAN, at : Nat]
  <2> DEFINE S == [ok : BOOLEAN, at : Nat]
  <2>1. log \in Seq(S)
    BY DEF LogTypes
  <2> HIDE DEF S
  <2>2. \A i \in DOMAIN log : log[i] \in S
    BY <1>1, <2>1
  <2> QED
    BY <2>2 DEF S
<1>3. \A i \in DOMAIN log : log[i].at <= now
  BY DEF LogTypes
<1>4. \A r \in [ok : BOOLEAN, at : Nat] : r.at \in Nat /\ r.ok \in BOOLEAN
  BY Zenon
<1> QED
  BY <1>1, <1>2, <1>3, <1>4

\* The history after a record.
LEMMA Appended ==
    ASSUME LogTypes, now \in Nat, NEW ok \in BOOLEAN, now' = now,
           log' = Append(log, [ok |-> ok, at |-> now])
    PROVE  /\ Len(log) \in Nat /\ Len(log') = Len(log) + 1
           /\ DOMAIN log = 1..Len(log) /\ DOMAIN log' = 1..(Len(log) + 1)
           /\ \A i \in 1..Len(log) : log'[i] = log[i]
           /\ log'[Len(log) + 1] = [ok |-> ok, at |-> now]
           /\ LogTypes'
<1>1. log \in Seq([ok : BOOLEAN, at : Nat]) /\ [ok |-> ok, at |-> now] \in [ok : BOOLEAN, at : Nat]
  BY DEF LogTypes
<1>2. /\ Len(log) \in Nat /\ Len(log') = Len(log) + 1
      /\ DOMAIN log = 1..Len(log) /\ DOMAIN log' = 1..(Len(log) + 1)
      /\ \A i \in 1..Len(log) : log'[i] = log[i]
      /\ log'[Len(log) + 1] = [ok |-> ok, at |-> now]
      /\ log' \in Seq([ok : BOOLEAN, at : Nat])
  BY <1>1
<1>3. \A i \in DOMAIN log' : log'[i].at <= now'
  BY <1>2 DEF LogTypes
<1> QED
  BY <1>2, <1>3 DEF LogTypes
----------------------------------------------------------------------------
\* The calls in the window after a record.
LEMMA LastOnes ==
    ASSUME NEW m, DOMAIN log' = 1..m, Len(log') = m
    PROVE  LastCalls' = {i \in 1..m : i > m - WindowSize}
  BY DEF LastCalls

\* CountBasedWindow.record overwrites the oldest outcome and keeps the totals.
LEMMA RingRecorded ==
    ASSUME Params, LogTypes, RingOK, now \in Nat, now' = now, NEW ok \in BOOLEAN,
           window' = RecordCount(window, ok), log' = Append(log, [ok |-> ok, at |-> now])
    PROVE  RingOK'
<1> DEFINE n == Len(log)
           W == WindowSize
           at0 == window.idx
           new == IF ok THEN "ok" ELSE "bad"
           Failed1(i) == ~log'[i].ok
           Mark1(i) == IF Failed1(i) THEN "bad" ELSE "ok"
<1>1. W \in Nat \ {0}
  BY DEF Params
<1>2. /\ n \in Nat /\ Len(log') = n + 1 /\ DOMAIN log = 1..n /\ DOMAIN log' = 1..(n + 1)
      /\ \A i \in 1..n : log'[i] = log[i]
      /\ log'[n + 1] = [ok |-> ok, at |-> now]
  BY Appended
<1>3. /\ \A i \in 1..n : Failed1(i) <=> Failed(i)
      /\ Failed1(n + 1) <=> ~ok
  BY <1>2 DEF Failed
<1>4. \A i \in 1..n : Mark1(i) = Mark(i)
  BY <1>3 DEF Mark
<1>5. Mark1(n + 1) = new
  BY <1>3
<1>6. window.ring \in [Slot -> {"none", "ok", "bad"}] /\ at0 \in 0..(W - 1) /\ Slot = 0..(W - 1)
  BY DEF RingOK, Slot
<1>7. /\ window'.ring = [window.ring EXCEPT ![at0] = new]
      /\ window'.idx = (at0 + 1) % W
      /\ window'.total = (IF window.ring[at0] = "none" THEN window.total + 1 ELSE window.total)
      /\ window'.failures = window.failures - Leaving(window) + (IF ok THEN 0 ELSE 1)
  BY DEF RecordCount
<1>8. window'.idx = IF at0 + 1 = W THEN 0 ELSE at0 + 1
  <2>1. at0 + 1 \in Nat /\ at0 + 1 <= W
    BY <1>1, <1>6
  <2>2. CASE at0 + 1 = W
    BY <1>1, <1>7, <2>2, Residue
  <2>3. CASE at0 + 1 < W
    <3>1. (at0 + 1) % W = at0 + 1
      BY <1>1, <2>1, <2>3, Residue
    <3> QED
      BY <1>1, <1>7, <2>1, <2>3, <3>1
  <2> QED
    BY <1>1, <2>1, <2>2, <2>3
<1> HIDE DEF n, W, at0, new, Failed1, Mark1
<1>9. \A k \in 0..(W - 1) : Behind(k) = IF k < at0 THEN at0 - 1 - k ELSE at0 - 1 - k + W
  BY DEF Behind, at0, W
<1>10. \A k \in 0..(W - 1) :
          Behind(k)' = IF k < window'.idx THEN window'.idx - 1 - k ELSE window'.idx - 1 - k + W
  BY DEF Behind, W
<1>11. Behind(0)' = at0
  BY <1>1, <1>6, <1>8, <1>10
<1>12. ASSUME NEW k \in 0..(W - 1), k # W - 1
       PROVE  Behind(k + 1)' = Behind(k) /\ Behind(k) # at0 /\ Behind(k) \in 0..(W - 1)
  <2>1. k + 1 \in 0..(W - 1)
    BY <1>1, <1>12
  <2>2. Behind(k + 1)' = IF k + 1 < window'.idx THEN window'.idx - 1 - (k + 1)
                        ELSE window'.idx - 1 - (k + 1) + W
    BY <1>10, <2>1
  <2>3. Behind(k) = IF k < at0 THEN at0 - 1 - k ELSE at0 - 1 - k + W
    BY <1>9
  <2> QED
    BY <1>1, <1>6, <1>8, <1>12, <2>2, <2>3
<1>13. Behind(W - 1) = at0
  BY <1>1, <1>6, <1>9
<1>14. \A k \in 0..(W - 1) : window.ring[Behind(k)] = IF k < n THEN Mark(n - k) ELSE "none"
  BY <1>6 DEF RingOK, n
<1>15. ASSUME NEW k \in 0..(W - 1)
       PROVE  window'.ring[Behind(k)'] = IF k < n + 1 THEN Mark1((n + 1) - k) ELSE "none"
  <2>1. CASE k = 0
    <3>1. window'.ring[at0] = new
      BY <1>6, <1>7
    <3>2. (n + 1) - k = n + 1 /\ 0 < n + 1
      BY <1>2, <2>1
    <3> QED
      BY <1>5, <1>11, <2>1, <3>1, <3>2
  <2>2. CASE k # 0
    <3> DEFINE j == k - 1
    <3>1. j \in 0..(W - 1) /\ j # W - 1 /\ k = j + 1
      BY <1>1, <2>2
    <3> HIDE DEF j
    <3>2. Behind(k)' = Behind(j) /\ Behind(j) # at0 /\ Behind(j) \in Slot
      BY <1>6, <1>12, <3>1
    <3>3. window'.ring[Behind(j)] = window.ring[Behind(j)]
      BY <1>6, <1>7, <3>2
    <3>4. window'.ring[Behind(k)'] = IF j < n THEN Mark(n - j) ELSE "none"
      BY <1>14, <3>1, <3>2, <3>3
    <3>5. (n + 1) - k = n - j /\ (j < n <=> k < n + 1)
      BY <1>2, <3>1
    <3>6. j < n => Mark1(n - j) = Mark(n - j)
      BY <1>2, <1>4, <3>1
    <3> QED
      BY <3>4, <3>5, <3>6
  <2> QED
    BY <2>1, <2>2
<1>16. window.ring[at0] = IF n >= W THEN Mark(n - W + 1) ELSE "none"
  <2>1. window.ring[at0] = IF W - 1 < n THEN Mark(n - (W - 1)) ELSE "none"
    BY <1>1, <1>13, <1>14
  <2>2. n - (W - 1) = n - W + 1 /\ (W - 1 < n <=> n >= W)
    BY <1>1, <1>2
  <2> QED
    BY <2>1, <2>2
<1>17. window'.total = IF n + 1 < W THEN n + 1 ELSE W
  <2>1. window.total = IF n < W THEN n ELSE W
    BY DEF RingOK, n, W
  <2>2. window.ring[at0] = "none" <=> n < W
    BY <1>1, <1>2, <1>16 DEF Mark
  <2> QED
    BY <1>1, <1>2, <1>7, <2>1, <2>2
<1> DEFINE F == {i \in LastCalls : Failed(i)}
           F1 == {i \in LastCalls' : Failed1(i)}
           x == n - W + 1
           M == F \ {x}
<1>18. F = {i \in 1..n : i > n - W /\ Failed(i)}
  BY <1>2 DEF LastCalls, n, W
<1>19. F1 = {i \in 1..(n + 1) : i > (n + 1) - W /\ Failed1(i)}
  <2>1. LastCalls' = {i \in 1..(n + 1) : i > (n + 1) - W}
    BY <1>2, LastOnes, Zenon DEF W
  <2> QED
    BY <2>1
<1> HIDE DEF F, F1, x
<1>20. IsFiniteSet(F) /\ IsFiniteSet(M) /\ Cardinality(F) \in Nat /\ Cardinality(M) \in Nat
  <2>1. F \subseteq 1..n
    BY <1>18
  <2>2. IsFiniteSet(1..n)
    BY <1>2, FS_Interval
  <2>3. IsFiniteSet(F)
    BY <2>1, <2>2, FS_Subset
  <2> QED
    BY <2>3, Without
<1>21. Leaving(window) = IF x \in F THEN 1 ELSE 0
  <2>1. x \in F <=> n >= W /\ Failed(n - W + 1)
    BY <1>1, <1>2, <1>18 DEF x
  <2>2. window.ring[at0] = "bad" <=> n >= W /\ Failed(n - W + 1)
    BY <1>16 DEF Mark
  <2> QED
    BY <2>1, <2>2 DEF Leaving, at0
<1>22. Cardinality(M) = Cardinality(F) - Leaving(window)
  BY <1>20, <1>21, Without
<1> HIDE DEF M
<1>23. F1 = IF ok THEN M ELSE M \cup {n + 1}
  <2>1. M = {i \in 1..n : i > (n + 1) - W /\ Failed(i)}
    BY <1>1, <1>2, <1>18 DEF M, x
  <2>2. ~ (n + 1 > (n + 1) - W) => FALSE
    BY <1>1, <1>2
  <2>3. 1..(n + 1) = (1..n) \cup {n + 1}
    BY <1>2
  <2> QED
    BY <1>2, <1>3, <1>19, <2>1, <2>2, <2>3
<1>24. n + 1 \notin M
  BY <1>2, <1>18 DEF M
<1>25. Cardinality(F1) = Cardinality(M) + (IF ok THEN 0 ELSE 1)
  <2>1. CASE ok
    BY <1>20, <1>23, <2>1
  <2>2. CASE ~ok
    <3>1. Cardinality(M \cup {n + 1}) = Cardinality(M) + 1
      BY <1>20, <1>24, FS_AddElement
    <3> QED
      BY <1>23, <2>2, <3>1
  <2> QED
    BY <2>1, <2>2
<1>26. window.failures = Cardinality(F)
  BY DEF RingOK, F
<1>27. window'.failures = Cardinality(F1)
  <2>1. Leaving(window) \in {0, 1}
    BY <1>21
  <2> QED
    BY <1>7, <1>20, <1>22, <1>25, <1>26, <2>1
<1>28. window'.ring \in [Slot -> {"none", "ok", "bad"}] /\ window'.idx \in Slot
  BY <1>1, <1>6, <1>7, <1>8 DEF new
<1>29. Slot' = Slot
  BY DEF Slot
<1>30. Len(log') = n + 1
  BY <1>2
<1>31. \A k \in Slot : window'.ring[Behind(k)'] = IF k < Len(log') THEN Mark(Len(log) - k)' ELSE "none"
  <2>1. TAKE k \in Slot
  <2>2. Mark(Len(log) - k)' = Mark1(Len(log') - k)
    BY DEF Mark, Failed, Mark1, Failed1
  <2>3. k \in 0..(W - 1)
    BY <1>6
  <2> QED
    BY <1>15, <1>30, <2>2, <2>3, Zenon
<1>32. window'.failures = Cardinality({i \in LastCalls : Failed(i)})'
  BY <1>27 DEF F1, Failed, Failed1
<1>33. window'.total = IF Len(log') < WindowSize THEN Len(log') ELSE WindowSize
  BY <1>17, <1>30 DEF W
<1> QED
  BY <1>28, <1>29, <1>31, <1>32, <1>33 DEF RingOK

\* What the ring reports is what the last calls brought.
LEMMA RingExact ==
    ASSUME Params, LogTypes, RingOK, WindowType = "COUNT"
    PROVE  WindowExact
<1> DEFINE n == Len(log)
           W == WindowSize
<1>1. W \in Nat \ {0} /\ n \in Nat /\ DOMAIN log = 1..n
  BY DEF Params, LogTypes
<1>2. {i \in DOMAIN log : InWindow(i)} = LastCalls
  BY DEF InWindow, LastCalls
<1>3. LastCalls = IF n < W THEN 1..n ELSE (n - W + 1)..n
  BY <1>1 DEF LastCalls
<1>4. Cardinality(LastCalls) = IF n < W THEN n ELSE W
  <2>1. CASE n < W
    <3>1. 1 \in Int /\ n \in Int /\ (1 > n => n = 0) /\ n - 1 + 1 = n
      BY <1>1
    <3>2. Cardinality(1..n) = n
      BY <3>1, FS_Interval
    <3> QED
      BY <1>3, <2>1, <3>2
  <2>2. CASE ~(n < W)
    <3>1. n - W + 1 \in Int /\ n \in Int /\ ~(n - W + 1 > n) /\ n - (n - W + 1) + 1 = W
      BY <1>1
    <3> QED
      BY <1>3, <2>2, <3>1, FS_Interval
  <2> QED
    BY <2>1, <2>2
<1>5. {i \in LastCalls : ~log[i].ok} = {i \in LastCalls : Failed(i)}
  BY DEF Failed
<1>6. Snapshot(window) = <<window.total, window.failures>>
  BY DEF Snapshot
<1> QED
  BY <1>2, <1>4, <1>5, <1>6 DEF WindowExact, RingOK
----------------------------------------------------------------------------
\* A counter of an array is set.
LEMMA Written ==
    ASSUME NEW D, NEW f \in [D -> Nat], NEW x \in D, NEW v \in Nat
    PROVE  /\ [f EXCEPT ![x] = v] \in [D -> Nat] /\ [f EXCEPT ![x] = v][x] = v
           /\ \A y \in D \ {x} : [f EXCEPT ![x] = v][y] = f[y]
  OBVIOUS

\* TimeBasedWindow.record: the bucket of this second is found or recycled, and
\* counts the new outcome.
LEMMA BucketsRecorded ==
    ASSUME Params, LogTypes, BucketsOK, now \in Nat, now' = now, NEW ok \in BOOLEAN,
           window' = RecordTime(window, ok), log' = Append(log, [ok |-> ok, at |-> now])
    PROVE  BucketsOK'
<1> DEFINE n == Len(log)
           W == WindowSize
           i0 == now % W
           E == window.epoch
           E1 == window'.epoch
           Bad == {i \in DOMAIN log : Failed(i)}
           Bad1 == {i \in DOMAIN log' : ~log'[i].ok}
           During1(s) == {i \in DOMAIN log' : log'[i].at = s}
<1>1. W \in Nat \ {0} /\ Slot = 0..(W - 1)
  BY DEF Params, Slot
<1>0. i0 \in Slot
  BY <1>1, Residue
<1>2. /\ n \in Nat /\ Len(log') = n + 1 /\ DOMAIN log = 1..n /\ DOMAIN log' = 1..(n + 1)
      /\ \A i \in 1..n : log'[i] = log[i]
      /\ log'[n + 1] = [ok |-> ok, at |-> now]
  BY Appended
<1>3. /\ E \in [Slot -> Int] /\ window.total \in [Slot -> Nat] /\ window.failures \in [Slot -> Nat]
      /\ \A b \in Slot : E[b] = -1 \/ (E[b] \in 0..now /\ E[b] % W = b)
      /\ \A i \in 1..n : log[i].at <= E[log[i].at % W]
  BY <1>2 DEF BucketsOK
<1>4. \A i \in 1..n : log[i].at \in Nat /\ log[i].at <= now /\ log[i].ok \in BOOLEAN
  BY <1>2, LogEntries
<1>5. /\ E1 \in [Slot -> Int] /\ E1[i0] = now /\ \A b \in Slot \ {i0} : E1[b] = E[b]
      /\ window'.total \in [Slot -> Nat] /\ window'.failures \in [Slot -> Nat]
      /\ \A b \in Slot \ {i0} : window'.total[b] = window.total[b] /\ window'.failures[b] = window.failures[b]
      /\ window'.total[i0] = (IF E[i0] = now THEN window.total[i0] ELSE 0) + 1
      /\ window'.failures[i0] = (IF E[i0] = now THEN window.failures[i0] ELSE 0) + (IF ok THEN 0 ELSE 1)
  <2>1. CASE E[i0] = now
    <3>1. Bucket(window, i0) = window
      BY <2>1 DEF Bucket
    <3>2. /\ window'.epoch = window.epoch
          /\ window'.total = [window.total EXCEPT ![i0] = window.total[i0] + 1]
          /\ window'.failures = [window.failures EXCEPT ![i0] =
                                    window.failures[i0] + (IF ok THEN 0 ELSE 1)]
      <4>1. window.failures[i0] \in Nat
        BY <1>0, <1>3
      <4>2. (IF ok THEN window.failures[i0] ELSE window.failures[i0] + 1)
            = window.failures[i0] + (IF ok THEN 0 ELSE 1)
        BY <4>1
      <4> QED
        BY <3>1, <4>2 DEF RecordTime
    <3> HIDE DEF i0, E1
    <3>6. window.total[i0] + 1 \in Nat /\ window.failures[i0] + (IF ok THEN 0 ELSE 1) \in Nat
      BY <1>0, <1>3
    <3>3. E1 \in [Slot -> Int] /\ E1[i0] = now /\ \A b \in Slot \ {i0} : E1[b] = E[b]
      BY <1>0, <1>3, <2>1, <3>2 DEF E1
    <3>4. /\ window'.total \in [Slot -> Nat] /\ window'.total[i0] = window.total[i0] + 1
          /\ \A b \in Slot \ {i0} : window'.total[b] = window.total[b]
      BY <1>0, <1>3, <3>2, <3>6, Written
    <3>5. /\ window'.failures \in [Slot -> Nat]
          /\ window'.failures[i0] = window.failures[i0] + (IF ok THEN 0 ELSE 1)
          /\ \A b \in Slot \ {i0} : window'.failures[b] = window.failures[b]
      BY <1>0, <1>3, <3>2, <3>6, Written
    <3> QED
      BY <2>1, <3>3, <3>4, <3>5
  <2>2. CASE E[i0] # now
    <3>1. /\ Bucket(window, i0).epoch = [window.epoch EXCEPT ![i0] = now]
          /\ Bucket(window, i0).total = [window.total EXCEPT ![i0] = 0]
          /\ Bucket(window, i0).failures = [window.failures EXCEPT ![i0] = 0]
      BY <2>2 DEF Bucket
    <3>2. /\ window'.epoch = Bucket(window, i0).epoch
          /\ window'.total = [Bucket(window, i0).total EXCEPT ![i0] = @ + 1]
          /\ window'.failures = [Bucket(window, i0).failures EXCEPT ![i0] = IF ok THEN @ ELSE @ + 1]
      BY DEF RecordTime
    <3> HIDE DEF i0, E1
    <3>3. E1 \in [Slot -> Int] /\ E1[i0] = now /\ \A b \in Slot \ {i0} : E1[b] = E[b]
      BY <1>0, <1>3, <3>1, <3>2 DEF E1
    <3>4. /\ window'.total \in [Slot -> Nat] /\ window'.total[i0] = 0 + 1
          /\ \A b \in Slot \ {i0} : window'.total[b] = window.total[b]
      <4> DEFINE g == [window.total EXCEPT ![i0] = 0]
      <4>1. g \in [Slot -> Nat] /\ g[i0] = 0 /\ \A b \in Slot \ {i0} : g[b] = window.total[b]
        BY <1>0, <1>3, Written
      <4>2. window'.total = [g EXCEPT ![i0] = g[i0] + 1]
        BY <3>1, <3>2
      <4> HIDE DEF g
      <4>3. g[i0] + 1 \in Nat
        BY <4>1
      <4> QED
        BY <1>0, <4>1, <4>2, <4>3, Written
    <3>5. /\ window'.failures \in [Slot -> Nat]
          /\ window'.failures[i0] = 0 + (IF ok THEN 0 ELSE 1)
          /\ \A b \in Slot \ {i0} : window'.failures[b] = window.failures[b]
      <4> DEFINE g == [window.failures EXCEPT ![i0] = 0]
                 v == IF ok THEN g[i0] ELSE g[i0] + 1
      <4>1. g \in [Slot -> Nat] /\ g[i0] = 0 /\ \A b \in Slot \ {i0} : g[b] = window.failures[b]
        BY <1>0, <1>3, Written
      <4>2. window'.failures = [g EXCEPT ![i0] = v]
        BY <3>1, <3>2
      <4> HIDE DEF g
      <4>3. v \in Nat /\ v = 0 + (IF ok THEN 0 ELSE 1)
        BY <4>1
      <4> HIDE DEF v
      <4> QED
        BY <1>0, <4>1, <4>2, <4>3, Written
    <3> QED
      BY <2>2, <3>3, <3>4, <3>5
  <2> QED
    BY <2>1, <2>2
<1>6. \A b \in Slot \ {i0} : E[b] # now
  <2> SUFFICES ASSUME NEW b \in Slot, b # i0, E[b] = now PROVE FALSE
    OBVIOUS
  <2>1. E[b] = -1 \/ E[b] % W = b
    BY <1>3
  <2>2. E[b] # -1
    OBVIOUS
  <2> QED
    BY <2>1, <2>2
<1>7. E[i0] # now => \A i \in 1..n : log[i].at # now
  <2> SUFFICES ASSUME E[i0] # now, NEW i \in 1..n, log[i].at = now PROVE FALSE
    OBVIOUS
  <2>1. now <= E[i0]
    BY <1>3
  <2>2. E[i0] = -1 \/ E[i0] \in 0..now
    BY <1>0, <1>3
  <2> QED
    BY <2>1, <2>2
<1> HIDE DEF n, W, i0, E, E1
<1>8. \A s : During(s) = {i \in 1..n : log[i].at = s}
  BY <1>2 DEF During
<1>9. \A s : During1(s) = {i \in 1..(n + 1) : log'[i].at = s}
  BY <1>2
<1>10. 1..(n + 1) = (1..n) \cup {n + 1} /\ n + 1 \notin 1..n
  BY <1>2
<1>11. \A s : s # now => During1(s) = During(s)
  BY <1>2, <1>8, <1>9, <1>10
<1>12. During1(now) = During(now) \cup {n + 1} /\ n + 1 \notin During(now)
  BY <1>2, <1>8, <1>9, <1>10
<1>13. \A i \in 1..n : i \in Bad1 <=> i \in Bad
  BY <1>2, <1>10 DEF Failed
<1>14. n + 1 \in Bad1 <=> ~ok
  BY <1>2, <1>10
<1>15. IsFiniteSet(1..n)
  <2>1. 1 \in Int /\ n \in Int
    BY <1>2
  <2> QED
    BY <2>1, FS_Interval
<1> HIDE DEF Bad, Bad1, During1
<1>16. \A s : During(s) \subseteq 1..n
  BY <1>8
<1>17. \A s : s # now => During1(s) \cap Bad1 = During(s) \cap Bad
  BY <1>11, <1>13, <1>16
<1>18. During1(now) \cap Bad1 = (During(now) \cap Bad) \cup (IF ok THEN {} ELSE {n + 1})
  BY <1>12, <1>13, <1>14, <1>16
<1>19. /\ Cardinality(During(now)) \in Nat /\ Cardinality(During1(now)) = Cardinality(During(now)) + 1
       /\ Cardinality(During(now) \cap Bad) \in Nat
       /\ Cardinality(During1(now) \cap Bad1) = Cardinality(During(now) \cap Bad) + (IF ok THEN 0 ELSE 1)
  <2>1. IsFiniteSet(During(now)) /\ IsFiniteSet(During(now) \cap Bad)
    BY <1>15, <1>16, FS_Subset
  <2>2. Cardinality(During(now)) \in Nat /\ Cardinality(During(now) \cap Bad) \in Nat
    BY <2>1, FS_CardinalityType
  <2>3. Cardinality(During1(now)) = Cardinality(During(now)) + 1
    BY <1>12, <2>1, FS_AddElement
  <2>4. CASE ok
    <3>1. During1(now) \cap Bad1 = During(now) \cap Bad
      BY <1>18, <2>4
    <3>2. Cardinality(During1(now) \cap Bad1) = Cardinality(During(now) \cap Bad)
      BY <3>1, Zenon
    <3> QED
      BY <2>2, <2>3, <2>4, <3>2
  <2>5. CASE ~ok
    <3>1. During1(now) \cap Bad1 = (During(now) \cap Bad) \cup {n + 1}
      BY <1>18, <2>5
    <3>2. Cardinality(During1(now) \cap Bad1) = Cardinality(During(now) \cap Bad) + 1
      BY <1>12, <2>1, <3>1, FS_AddElement
    <3> QED
      BY <2>2, <2>3, <2>5, <3>2
  <2> QED
    BY <2>4, <2>5
<1>20. \A s : {i \in During(s) : Failed(i)} = During(s) \cap Bad
  BY <1>2, <1>16 DEF Bad
<1>21. \A b \in Slot : /\ window.total[b] = Cardinality(During(E[b]))
                       /\ window.failures[b] = Cardinality(During(E[b]) \cap Bad)
  BY <1>20 DEF BucketsOK, E
<1>22. E[i0] # now => During(now) = {}
  BY <1>7, <1>8
<1>23. /\ (IF E[i0] = now THEN window.total[i0] ELSE 0) = Cardinality(During(now))
       /\ (IF E[i0] = now THEN window.failures[i0] ELSE 0) = Cardinality(During(now) \cap Bad)
  <2>1. CASE E[i0] = now
    BY <1>0, <1>21, <2>1
  <2>2. CASE E[i0] # now
    <3>1. During(now) = {} /\ During(now) \cap Bad = {}
      BY <1>22, <2>2
    <3> QED
      BY <2>2, <3>1, FS_EmptySet
  <2> QED
    BY <2>1, <2>2
<1>24. ASSUME NEW b \in Slot
       PROVE  /\ window'.total[b] = Cardinality(During1(E1[b]))
              /\ window'.failures[b] = Cardinality(During1(E1[b]) \cap Bad1)
  <2>1. CASE b = i0
    BY <1>5, <1>19, <1>23, <2>1
  <2>2. CASE b # i0
    BY <1>5, <1>6, <1>11, <1>17, <1>21, <2>2, ZenonT(60)
  <2> QED
    BY <2>1, <2>2
<1>25. ASSUME NEW b \in Slot
       PROVE  E1[b] = -1 \/ (E1[b] \in 0..now /\ E1[b] % W = b)
  <2>1. CASE b = i0
    BY <1>5, <2>1 DEF i0
  <2>2. CASE b # i0
    BY <1>3, <1>5, <2>2
  <2> QED
    BY <2>1, <2>2
<1>26. ASSUME NEW i \in 1..(n + 1)
       PROVE  log'[i].at <= E1[log'[i].at % W]
  <2>1. CASE i = n + 1
    BY <1>2, <1>5, <2>1 DEF i0
  <2>2. CASE i \in 1..n
    <3>1. log'[i].at = log[i].at /\ log[i].at \in Nat /\ log[i].at <= now /\ log[i].at % W \in Slot
      BY <1>1, <1>2, <1>4, <2>2, Residue
    <3> QED
      BY <1>3, <1>5, <2>2, <3>1, ZenonT(60)
  <2> QED
    BY <1>10, <2>1, <2>2
<1>27. Slot' = Slot /\ \A s : During(s)' = During1(s)
  BY DEF Slot, During, During1
<1>28. \A s : {i \in During(s) : Failed(i)}' = During1(s) \cap Bad1
  BY DEF During, Failed, During1, Bad1
<1>29. \A b \in Slot : /\ window'.total[b] = Cardinality(During(window.epoch[b]))'
                       /\ window'.failures[b] = Cardinality({i \in During(window.epoch[b]) : Failed(i)})'
  <2>1. TAKE b \in Slot
  <2>2. During(window.epoch[b])' = During1(E1[b])
    BY DEF During, During1, E1
  <2>3. {i \in During(window.epoch[b]) : Failed(i)}' = During1(E1[b]) \cap Bad1
    BY DEF During, During1, E1, Bad1, Failed
  <2> QED
    BY <1>24, <2>2, <2>3
<1> QED
  BY <1>2, <1>5, <1>25, <1>26, <1>27, <1>29 DEF BucketsOK, E1, W

\* What the buckets add up to is what their seconds brought.
LEMMA BucketSums ==
    ASSUME Params, LogTypes, BucketsOK, now \in Nat, NEW P, NEW f \in [Slot -> Nat],
           \A b \in Slot : f[b] = Cardinality(During(window.epoch[b]) \cap P)
    PROVE  SumFunctionOnSet(f, {b \in Slot : window.epoch[b] >= now - WindowSize + 1})
           = Cardinality({i \in DOMAIN log : log[i].at > now - WindowSize} \cap P)
<1> DEFINE E == window.epoch
           W == WindowSize
           Held(S) == {i \in DOMAIN log : \E b \in S : log[i].at = E[b]} \cap P
           Holds(S) == SumFunctionOnSet(f, S) = Cardinality(Held(S))
           T == {S \in SUBSET Slot : Holds(S)}
           R == {b \in Slot : E[b] >= now - W + 1}
<1>1. W \in Nat \ {0} /\ Slot = 0..(W - 1) /\ IsFiniteSet(Slot)
  BY FS_Interval DEF Params, Slot
<1>2. \A i \in DOMAIN log : log[i].at \in Nat /\ log[i].at <= now
  BY LogEntries
<1>3. /\ E \in [Slot -> Int]
      /\ \A b \in Slot : E[b] = -1 \/ (E[b] \in 0..now /\ E[b] % W = b)
      /\ \A i \in DOMAIN log : log[i].at <= E[log[i].at % W]
  BY DEF BucketsOK
<1>4. IsFiniteSet(DOMAIN log)
  <2>1. DOMAIN log = 1..Len(log) /\ Len(log) \in Nat
    BY DEF LogTypes
  <2> QED
    BY <2>1, FS_Interval
<1>5. \A S : IsFiniteSet(Held(S))
  BY <1>4, FS_Subset
<1>6. {} \in T
  <2>1. Held({}) = {}
    OBVIOUS
  <2>2. SumFunctionOnSet(f, {}) = 0
    BY <1>1, SumRemove
  <2> QED
    BY <2>1, <2>2, FS_EmptySet
<1>7. ASSUME NEW S \in SUBSET Slot, NEW x \in Slot \ S, S \in T PROVE S \cup {x} \in T
  <2> DEFINE D == During(E[x]) \cap P
  <2>1. Held(S \cup {x}) = Held(S) \cup D
    BY DEF During
  <2>2. Held(S) \cap D = {}
    <3> SUFFICES ASSUME NEW i \in Held(S), i \in D PROVE FALSE
      OBVIOUS
    <3>1. PICK b \in S : log[i].at = E[b]
      OBVIOUS
    <3>2. i \in DOMAIN log /\ log[i].at = E[x]
      BY DEF During
    <3>3. E[b] % W = b /\ E[x] % W = x
      BY <1>2, <1>3, <3>1, <3>2
    <3> QED
      BY <3>1, <3>2, <3>3
  <2>3. IsFiniteSet(D)
    BY <1>4, FS_Subset DEF During
  <2>4. Cardinality(Held(S \cup {x})) = Cardinality(Held(S)) + Cardinality(D)
    <3> HIDE DEF D, Held
    <3>1. Cardinality(Held(S)) \in Nat /\ Cardinality(D) \in Nat
      BY <1>5, <2>3, FS_CardinalityType
    <3>2. Cardinality(Held(S) \cup D) = Cardinality(Held(S)) + Cardinality(D) - Cardinality(Held(S) \cap D)
      BY <1>5, <2>3, FS_Union
    <3>3. Cardinality(Held(S) \cap D) = 0
      BY <2>2, FS_EmptySet
    <3>4. Cardinality(Held(S) \cup D) = Cardinality(Held(S)) + Cardinality(D)
      BY <3>1, <3>2, <3>3
    <3> QED
      BY <2>1, <3>4, Zenon
  <2>5. SumFunctionOnSet(f, S \cup {x}) = f[x] + SumFunctionOnSet(f, S)
    <3>1. IsFiniteSet(Slot) /\ \A b \in Slot : f[b] \in Nat
      BY <1>1
    <3> HIDE DEF E, W, Held, Holds, T, R, D
    <3> QED
      BY <3>1, SumAdd
  <2>6. f[x] = Cardinality(D)
    OBVIOUS
  <2>7. Cardinality(Held(S)) \in Nat /\ Cardinality(D) \in Nat
    BY <1>5, <2>3, FS_CardinalityType
  <2>8. SumFunctionOnSet(f, S) = Cardinality(Held(S))
    BY <1>7
  <2> HIDE DEF D, Held
  <2>9. Holds(S \cup {x})
    BY <2>4, <2>5, <2>6, <2>7, <2>8
  <2> HIDE DEF Holds
  <2> QED
    BY <2>9
<1>8. R \in T
  <2> HIDE DEF T
  <2>1. \A S \in SUBSET Slot : S \in T
    BY <1>1, <1>6, <1>7, InductionOverSubsets, ZenonT(60)
  <2> QED
    BY <2>1
<1>9. Held(R) = {i \in DOMAIN log : log[i].at > now - W} \cap P
  <2>1. ASSUME NEW i \in DOMAIN log, log[i].at > now - W PROVE \E b \in R : log[i].at = E[b]
    <3> DEFINE s == log[i].at
               b == s % W
    <3>1. s \in Nat /\ s <= now /\ b \in Slot
      BY <1>1, <1>2, Residue
    <3>2. s <= E[b]
      BY <1>3
    <3>3. E[b] \in 0..now /\ E[b] % W = b
      BY <1>3, <3>1, <3>2
    <3> HIDE DEF s
    <3>4. E[b] < s + W
      BY <1>1, <2>1, <3>1, <3>3, SMTT(60) DEF s
    <3>5. s = E[b]
      <4>1. E[b] \in Nat /\ s % W = E[b] % W
        BY <3>3
      <4> QED
        BY <1>1, <3>1, <3>2, <3>4, <4>1, SameResidue
    <3>6. b \in R
      BY <1>1, <2>1, <3>1, <3>5 DEF s
    <3> QED
      BY <3>5, <3>6 DEF s
  <2>2. ASSUME NEW i \in DOMAIN log, NEW b \in R, log[i].at = E[b] PROVE log[i].at > now - W
    BY <1>1, <1>2, <2>2
  <2> HIDE DEF R
  <2> QED
    BY <2>1, <2>2
<1> QED
  BY <1>8, <1>9

\* What the buckets report is what the last seconds brought.
LEMMA BucketsExact ==
    ASSUME Params, LogTypes, BucketsOK, WindowType = "TIME", now \in Nat
    PROVE  WindowExact
<1> DEFINE R == {b \in Slot : window.epoch[b] >= now - WindowSize + 1}
           recent == {i \in DOMAIN log : InWindow(i)}
           Bad == {i \in DOMAIN log : ~log[i].ok}
<1>1. recent = {i \in DOMAIN log : log[i].at > now - WindowSize}
  BY DEF InWindow
<1>2. window.total \in [Slot -> Nat] /\ window.failures \in [Slot -> Nat]
  BY DEF BucketsOK
<1>3. SumFunctionOnSet(window.total, R) = Cardinality(recent)
  <2>1. \A s : During(s) \cap (DOMAIN log) = During(s)
    BY DEF During
  <2>2. \A b \in Slot : window.total[b] = Cardinality(During(window.epoch[b]) \cap DOMAIN log)
    BY <2>1 DEF BucketsOK
  <2>3. recent \cap DOMAIN log = recent
    OBVIOUS
  <2> QED
    BY <1>1, <1>2, <2>2, <2>3, BucketSums
<1>4. SumFunctionOnSet(window.failures, R) = Cardinality({i \in recent : ~log[i].ok})
  <2>1. \A s : {i \in During(s) : Failed(i)} = During(s) \cap Bad
    BY DEF During, Failed
  <2>2. \A b \in Slot : window.failures[b] = Cardinality(During(window.epoch[b]) \cap Bad)
    BY <2>1 DEF BucketsOK
  <2>3. recent \cap Bad = {i \in recent : ~log[i].ok}
    OBVIOUS
  <2> QED
    BY <1>1, <1>2, <2>2, <2>3, BucketSums
<1>5. Snapshot(window) = <<SumFunctionOnSet(window.total, R), SumFunctionOnSet(window.failures, R)>>
  BY DEF Snapshot, Slot
<1> QED
  BY <1>3, <1>4, <1>5 DEF WindowExact
----------------------------------------------------------------------------
\* A window that was reset, with an empty history.
LEMMA EmptyOK ==
    Params /\ now \in Nat /\ window = EmptyWindow /\ log = <<>> => WindowOK
<1> SUFFICES ASSUME Params, now \in Nat, window = EmptyWindow, log = <<>> PROVE WindowOK
  OBVIOUS
<1>1. WindowSize \in Nat \ {0} /\ Slot = 0..(WindowSize - 1)
  BY DEF Params, Slot
<1>2. log \in Seq([ok : BOOLEAN, at : Nat]) /\ DOMAIN log = {} /\ Len(log) = 0
  OBVIOUS
<1>3. LogTypes
  BY <1>2 DEF LogTypes
<1>4. ASSUME WindowType = "COUNT" PROVE RingOK
  <2>1. /\ window.ring = [i \in Slot |-> "none"] /\ window.idx = 0
        /\ window.total = 0 /\ window.failures = 0
    BY <1>4 DEF EmptyWindow, Slot
  <2>2. ASSUME NEW k \in Slot PROVE Behind(k) \in Slot
    BY <1>1, <2>1 DEF Behind
  <2>3. {i \in LastCalls : Failed(i)} = {}
    BY <1>2 DEF LastCalls
  <2>4. 0 \in Slot /\ 0 < WindowSize
    BY <1>1
  <2>5. \A k \in Slot : ~(k < 0)
    BY <1>1
  <2> QED
    BY <1>2, <2>1, <2>2, <2>3, <2>4, <2>5, FS_EmptySet DEF RingOK
<1>5. ASSUME WindowType = "TIME" PROVE BucketsOK
  <2>1. /\ window.epoch = [i \in Slot |-> -1] /\ window.total = [i \in Slot |-> 0]
        /\ window.failures = [i \in Slot |-> 0]
    BY <1>5 DEF EmptyWindow, Slot
  <2>2. \A s : During(s) = {} /\ {i \in During(s) : Failed(i)} = {}
    BY <1>2 DEF During
  <2>3. Cardinality({}) = 0
    BY FS_EmptySet
  <2>4. /\ window.epoch \in [Slot -> Int] /\ window.total \in [Slot -> Nat]
        /\ window.failures \in [Slot -> Nat]
        /\ \A b \in Slot : window.epoch[b] = -1 /\ window.total[b] = 0 /\ window.failures[b] = 0
    BY <2>1
  <2>5. \A s : Cardinality(During(s)) = 0 /\ Cardinality({i \in During(s) : Failed(i)}) = 0
    BY <2>2, <2>3, Zenon
  <2> QED
    BY <1>2, <2>4, <2>5 DEF BucketsOK
<1> QED
  BY <1>3, <1>4, <1>5 DEF WindowOK

\* Whatever a step does, the window shows its history.
LEMMA WindowKept ==
    ASSUME Params, now \in Nat, WindowOK, WindowEffect
    PROVE  WindowOK'
<1>1. ASSUME UNCHANGED <<window, log>>, now' \in {now, now + 1} PROVE WindowOK'
  <2>1. now' \in Nat /\ now <= now'
    BY <1>1
  <2>2. LogTypes'
    BY <1>1, <2>1, LogEntries DEF LogTypes, WindowOK
  <2>3. ASSUME RingOK PROVE RingOK'
    BY <1>1, <2>3 DEF RingOK, Slot, Behind, Mark, Failed, LastCalls
  <2>4. ASSUME BucketsOK PROVE BucketsOK'
    <3>1. \A s : During(s)' = During(s)
      BY <1>1 DEF During
    <3>2. Slot' = Slot
      BY DEF Slot
    <3>3. \A b \in Slot : window.epoch[b] \in 0..now => window.epoch[b] \in 0..now'
      BY <2>1
    <3> QED
      BY <1>1, <2>4, <3>1, <3>2, <3>3 DEF BucketsOK, Failed
  <2> QED
    BY <2>2, <2>3, <2>4 DEF WindowOK
<1>2. ASSUME window' = EmptyWindow, log' = <<>>, now' = now PROVE WindowOK'
  <2>1. (Params /\ now \in Nat /\ window = EmptyWindow /\ log = <<>> => WindowOK)'
    BY EmptyOK, PTL
  <2>2. Params' /\ EmptyWindow' = EmptyWindow
    BY DEF Params, EmptyWindow
  <2> QED
    BY <1>2, <2>1, <2>2
<1>3. ASSUME now' = now, NEW ok \in BOOLEAN, window' = Recorded(window, ok),
             log' = Append(log, [ok |-> ok, at |-> now])
      PROVE  WindowOK'
  <2>1. LogTypes'
    BY <1>3, Appended DEF WindowOK
  <2>2. ASSUME WindowType = "COUNT" PROVE RingOK'
    BY <1>3, <2>2, RingRecorded DEF WindowOK, Recorded
  <2>3. ASSUME WindowType = "TIME" PROVE BucketsOK'
    BY <1>3, <2>3, BucketsRecorded DEF WindowOK, Recorded
  <2> QED
    BY <2>1, <2>2, <2>3 DEF WindowOK
<1> QED
  BY <1>1, <1>2, <1>3 DEF WindowEffect

\* Initially nobody calls and the window is empty.
LEMMA InitInv ==
    ASSUME Params, Init
    PROVE  Inv
<1>1. /\ HalfOpenMax \in Nat \ {0} /\ MaxConcurrent \in Nat \ {0} /\ PoolSize \in Nat
      /\ MaxAttempts \in Nat \ {0} /\ MaxTokens \in Nat \ {0} /\ TokenCost \in Nat
      /\ MaxTime \in Nat /\ MaxCalls \in Nat /\ MaxResets \in Nat
  BY DEF Params
<1>2. BreakerTypes /\ ProbesExact
  BY <1>1 DEF Init, BreakerTypes, ProbesExact
<1>3. CallTypes /\ CallsOK
  BY <1>1 DEF Init, CallTypes, CallsOK
<1>4. Waiting = {} /\ Asking = {} /\ {t \in Thread : work[t] = "running"} = {}
  BY DEF Init, Waiting, Asking
<1>5. Cardinality({}) = 0
  BY FS_EmptySet
<1>6. SlotsExact
  BY <1>1, <1>4, <1>5 DEF Init, SlotsExact
<1>7. PoolBounded
  <2>1. Running = 0 + Cardinality({})
    BY <1>4, Zenon DEF Running, Init
  <2> QED
    BY <1>1, <1>5, <2>1 DEF PoolBounded
<1>8. BudgetOK /\ OutageRetriesBounded
  BY <1>1, <1>4, <1>5 DEF Init, BudgetOK, OutageRetriesBounded
<1>9. WindowOK
  BY EmptyOK DEF Init
<1> QED
  BY <1>2, <1>3, <1>6, <1>7, <1>8, <1>9 DEF Inv

\* Every step keeps every part of the invariant.
LEMMA NextInv ==
    ASSUME Params, Inv, [Next]_vars
    PROVE  Inv'
<1> USE DEF Inv
<1>1. ProbeEffect
  BY StepProbes
<1>2. ProbesOK'
  BY <1>1, ProbesKept
<1>3. BreakerTypes'
  BY <1>2, BreakerTypesKept
<1>4. CallTypes' /\ CallsOK'
  BY <1>1, CallsKept
<1>5. SlotsExact' /\ PoolBounded'
  BY StepSlots, StepPool, SlotsKept, PoolKept
<1>6. BudgetOK' /\ OutageRetriesBounded'
  BY StepBudget, BudgetKept
<1>7. WindowOK'
  <2>1. now \in Nat
    BY DEF CallTypes, Params
  <2> QED
    BY <2>1, StepWindow, WindowKept
<1> QED
  BY <1>2, <1>3, <1>4, <1>5, <1>6, <1>7 DEF ProbesOK

\* The invariant of the specification.
LEMMA Invariance ==
    ASSUME Params
    PROVE  Spec => []Inv
<1>1. Init => Inv
  BY InitInv
<1>2. Inv /\ [Next]_vars => Inv'
  BY NextInv
<1> QED
  BY <1>1, <1>2, PTL DEF Spec
----------------------------------------------------------------------------
\* Types, with the bounds of the shared resources: the semaphore of the
\* bulkhead counts exactly the callers inside it, the executor never has more
\* work than threads, abandoned work included, and the budget stays within its
\* limits.
THEOREM TypeCorrect ==
    ASSUME Params
    PROVE  Spec => []TypeOK
<1>1. Inv => TypeOK
  BY DEF Inv, TypeOK, BreakerTypes, CallTypes, SlotsExact, PoolBounded, Waiting
<1> QED
  BY <1>1, Invariance, PTL

\* acquire, _on_result and _release: in HALF_OPEN the probe slots are those of
\* the calls admitted under this state and the successes among them, whatever
\* calls of earlier states report.  CountBasedWindow and TimeBasedWindow: what
\* the window reports is what the last calls, or seconds, brought.
THEOREM BreakerExactAlways ==
    ASSUME Params
    PROVE  Spec => []BreakerExact
<1>1. Inv => BreakerExact
  <2> SUFFICES ASSUME Inv PROVE BreakerExact
    OBVIOUS
  <2>1. now \in Nat
    BY DEF Inv, CallTypes, Params
  <2>2. WindowExact
    BY <2>1, RingExact, BucketsExact DEF Inv, WindowOK, Params
  <2> QED
    BY <2>2 DEF Inv, BreakerExact
<1> QED
  BY <1>1, Invariance, PTL

\* RetryBudget: while no call succeeds, all threads together begin fewer
\* retries than half of the tokens pay for.
THEOREM OutageRetriesBoundedAlways ==
    ASSUME Params
    PROVE  Spec => []OutageRetriesBounded
<1>1. Inv => OutageRetriesBounded
  BY DEF Inv
<1> QED
  BY <1>1, Invariance, PTL
=============================================================================
