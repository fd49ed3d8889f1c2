----------------------------- MODULE Resilience -----------------------------
(***************************************************************************)
(* The resilience library of python-low-level-design/circuit-breaker:      *)
(* threads whose calls go through                                          *)
(* Retry(CircuitBreaker(Bulkhead(TimeLimiter(fn)))), as resilient()        *)
(* composes them.  Each critical section of a component's lock, and each   *)
(* hand-over to the executor or back, is an action.                        *)
(*                                                                         *)
(* An attempt ends "ok", "fail" (an error that counts and is retried),     *)
(* "timeout" (counts, retried), "error" (counts, not retried), "bug" (an   *)
(* error of the caller: neither) or "full" (no bulkhead slot: neither).    *)
(* Time is in whole seconds and tokens in units of the refund of a         *)
(* success.  The bulkhead does not wait (max_wait = 0); backoff lengths,   *)
(* jitter and listeners are left out; the executor may start queued work   *)
(* in any order.                                                           *)
(***************************************************************************)
EXTENDS Integers, FiniteSets, Sequences, FiniteSetsExt, Functions

CONSTANTS
    Thread,
    WindowType, WindowSize,     \* "COUNT" calls, or "TIME" in seconds
    MinimumCalls,
    RateNum, RateDen,           \* failure_rate_threshold = RateNum / RateDen
    OpenDuration, HalfOpenMax,
    MaxConcurrent,              \* Bulkhead
    PoolSize,                   \* threads of the TimeLimiter's executor
    MaxAttempts,                \* RetryConfig.max_attempts
    MaxTokens, TokenCost,       \* RetryBudget, in units of token_ratio
    MaxTime, MaxCalls, MaxResets  \* bounds

VARIABLES
    state, generation, openedAt, issued, successes, window,   \* CircuitBreaker
    free,        \* slots left in the Bulkhead's semaphore
    step, permit, attempt, outcome,   \* each thread's call
    work,        \* the executor's work for each thread's attempt
    abandoned,   \* attempts still running that nobody waits for
    tokens,      \* RetryBudget._tokens
    now, calls, resets,
    log,         \* history: outcomes recorded since the window was reset
    retried, won \* history: retries begun, calls that succeeded

\* What the theorems assume: the checks of the constructors and of
\* __post_init__, and a retry budget that holds something.
Params ==
    /\ IsFiniteSet(Thread)
    /\ WindowType \in {"COUNT", "TIME"} /\ WindowSize \in Nat \ {0}
    /\ HalfOpenMax \in Nat \ {0} /\ MaxConcurrent \in Nat \ {0} /\ PoolSize \in Nat
    /\ MaxAttempts \in Nat \ {0} /\ MaxTokens \in Nat \ {0} /\ TokenCost \in Nat
    /\ MaxTime \in Nat /\ MaxCalls \in Nat /\ MaxResets \in Nat

breakerVars == <<state, generation, openedAt, issued, successes, window, log>>
callVars    == <<step, permit, attempt, outcome>>
poolVars    == <<work, abandoned>>
budgetVars  == <<tokens, retried, won>>
envVars     == <<now, calls, resets>>
vars == <<breakerVars, free, callVars, poolVars, budgetVars, envVars>>

EmptyWindow ==
    IF WindowType = "COUNT"
    THEN [ring |-> [i \in 0..(WindowSize - 1) |-> "none"], idx |-> 0,
          total |-> 0, failures |-> 0]
    ELSE [epoch |-> [i \in 0..(WindowSize - 1) |-> -1],
          total |-> [i \in 0..(WindowSize - 1) |-> 0],
          failures |-> [i \in 0..(WindowSize - 1) |-> 0]]

Init ==
    /\ state = "CLOSED" /\ generation = 0 /\ openedAt = 0
    /\ issued = 0 /\ successes = 0 /\ window = EmptyWindow /\ log = <<>>
    /\ free = MaxConcurrent
    /\ step = [t \in Thread |-> "idle"] /\ permit = [t \in Thread |-> -1]
    /\ attempt = [t \in Thread |-> 0] /\ outcome = [t \in Thread |-> "none"]
    /\ work = [t \in Thread |-> "none"] /\ abandoned = 0
    /\ tokens = MaxTokens /\ retried = 0 /\ won = 0
    /\ now = 0 /\ calls = 0 /\ resets = 0
----------------------------------------------------------------------------
\* TimeBasedWindow.record: a bucket that holds an old second is recycled.
Bucket(w, i) ==
    IF w.epoch[i] = now THEN w
    ELSE [epoch |-> [w.epoch EXCEPT ![i] = now], total |-> [w.total EXCEPT ![i] = 0],
          failures |-> [w.failures EXCEPT ![i] = 0]]

RecordTime(w, ok) ==
    LET i == now % WindowSize
        b == Bucket(w, i)
    IN  [epoch |-> b.epoch, total |-> [b.total EXCEPT ![i] = @ + 1],
         failures |-> [b.failures EXCEPT ![i] = IF ok THEN @ ELSE @ + 1]]

\* Failures that leave the ring with the slot that is written next.
Leaving(w) == IF w.ring[w.idx] = "bad" THEN 1 ELSE 0

\* CountBasedWindow.record: running totals over a ring.
RecordCount(w, ok) ==
    [ring |-> [w.ring EXCEPT ![w.idx] = IF ok THEN "ok" ELSE "bad"],
     idx |-> (w.idx + 1) % WindowSize,
     total |-> IF w.ring[w.idx] = "none" THEN w.total + 1 ELSE w.total,
     failures |-> w.failures - Leaving(w) + IF ok THEN 0 ELSE 1]

Recorded(w, ok) == IF WindowType = "COUNT" THEN RecordCount(w, ok) ELSE RecordTime(w, ok)

\* WindowSnapshot: how many outcomes the window holds, and how many failures.
Snapshot(w) ==
    IF WindowType = "COUNT" THEN <<w.total, w.failures>>
    ELSE LET recent == {i \in 0..(WindowSize - 1) : w.epoch[i] >= now - WindowSize + 1}
         IN  <<SumFunctionOnSet(w.total, recent), SumFunctionOnSet(w.failures, recent)>>

Trips(w) ==
    LET s == Snapshot(w)
    IN  s[1] >= MinimumCalls /\ s[2] * RateDen >= RateNum * s[1]
----------------------------------------------------------------------------
\* _transition.
Transition(new) ==
    /\ state' = new /\ generation' = generation + 1
    /\ issued' = 0 /\ successes' = 0
    /\ openedAt' = IF new = "OPEN" THEN now ELSE openedAt
    /\ window' = IF new = "CLOSED" THEN EmptyWindow ELSE window
    /\ log' = IF new = "CLOSED" THEN <<>> ELSE log

Ripe == state = "OPEN" /\ now - openedAt >= OpenDuration

\* The state property: _maybe_half_open without a call.
ReadState ==
    /\ Ripe /\ Transition("HALF_OPEN")
    /\ UNCHANGED <<free, callVars, poolVars, budgetVars, envVars>>

Reset ==
    /\ resets < MaxResets /\ resets' = resets + 1
    /\ Transition("CLOSED")
    /\ UNCHANGED <<free, callVars, poolVars, budgetVars, now, calls>>

BeginCall(t) ==
    /\ step[t] = "idle" /\ calls < MaxCalls
    /\ calls' = calls + 1
    /\ step' = [step EXCEPT ![t] = "admit"]
    /\ attempt' = [attempt EXCEPT ![t] = 1]
    /\ UNCHANGED <<breakerVars, free, permit, outcome, poolVars, budgetVars, now, resets>>

\* acquire: the call is admitted, in CLOSED, with a probe slot, or as the
\* first probe after the OPEN period.
Acquire(t) ==
    /\ step[t] = "admit"
    /\ \/ state = "CLOSED" /\ UNCHANGED breakerVars
       \/ /\ state = "HALF_OPEN" /\ issued < HalfOpenMax
          /\ issued' = issued + 1
          /\ UNCHANGED <<state, generation, openedAt, successes, window, log>>
       \/ /\ Ripe
          /\ state' = "HALF_OPEN" /\ generation' = generation + 1
          /\ issued' = 1 /\ successes' = 0
          /\ UNCHANGED <<openedAt, window, log>>
    /\ permit' = [permit EXCEPT ![t] = generation']
    /\ step' = [step EXCEPT ![t] = "enter"]
    /\ UNCHANGED <<free, attempt, outcome, poolVars, budgetVars, envVars>>

\* The call ends: a result or an exception leaves Retry.call.
Return(t) ==
    /\ step' = [step EXCEPT ![t] = "idle"]
    /\ attempt' = [attempt EXCEPT ![t] = 0]
    /\ outcome' = [outcome EXCEPT ![t] = "none"]

\* acquire raises CallNotPermittedError, which is not retried.
Refuse(t) ==
    /\ step[t] = "admit"
    /\ ~Ripe /\ (state = "OPEN" \/ (state = "HALF_OPEN" /\ issued >= HalfOpenMax))
    /\ Return(t)
    /\ UNCHANGED <<breakerVars, free, permit, poolVars, budgetVars, envVars>>

EnterBulkhead(t) ==
    /\ step[t] = "enter" /\ free > 0
    /\ free' = free - 1
    /\ step' = [step EXCEPT ![t] = "wait"]
    /\ work' = [work EXCEPT ![t] = "queued"]
    /\ UNCHANGED <<breakerVars, permit, attempt, outcome, abandoned, budgetVars, envVars>>

BulkheadFull(t) ==
    /\ step[t] = "enter" /\ free = 0
    /\ step' = [step EXCEPT ![t] = "report"]
    /\ outcome' = [outcome EXCEPT ![t] = "full"]
    /\ UNCHANGED <<breakerVars, free, permit, attempt, poolVars, budgetVars, envVars>>

Running == abandoned + Cardinality({t \in Thread : work[t] = "running"})

\* A thread of the executor takes the work up.
StartWork(t) ==
    /\ work[t] = "queued" /\ Running < PoolSize
    /\ work' = [work EXCEPT ![t] = "running"]
    /\ UNCHANGED <<breakerVars, free, callVars, abandoned, budgetVars, envVars>>

\* The function returns or raises within the time limit; Bulkhead.call
\* releases its slot on the way out.
Finish(t, how) ==
    /\ step[t] = "wait" /\ work[t] = "running" /\ how \in {"ok", "fail", "error", "bug"}
    /\ outcome' = [outcome EXCEPT ![t] = how]
    /\ work' = [work EXCEPT ![t] = "none"]
    /\ step' = [step EXCEPT ![t] = "report"]
    /\ free' = free + 1
    /\ UNCHANGED <<breakerVars, permit, attempt, abandoned, budgetVars, envVars>>

\* The time limit: queued work is cancelled, running work goes on alone.
TimesOut(t) ==
    /\ step[t] = "wait"
    /\ outcome' = [outcome EXCEPT ![t] = "timeout"]
    /\ abandoned' = IF work[t] = "running" THEN abandoned + 1 ELSE abandoned
    /\ work' = [work EXCEPT ![t] = "none"]
    /\ step' = [step EXCEPT ![t] = "report"]
    /\ free' = free + 1
    /\ UNCHANGED <<breakerVars, permit, attempt, budgetVars, envVars>>

AbandonedEnds ==
    /\ abandoned > 0
    /\ abandoned' = abandoned - 1
    /\ UNCHANGED <<breakerVars, free, callVars, work, budgetVars, envVars>>
----------------------------------------------------------------------------
\* The call was admitted under an earlier state.
Stale(t) == permit[t] # generation

\* Fault: the slot of a call that does not count stays taken.
ReleaseNothing(t) == UNCHANGED breakerVars

\* _release: the probe slot of a call that does not count is free again.
Release(t) ==
    IF ~Stale(t) /\ state = "HALF_OPEN"
    THEN /\ issued' = issued - 1
         /\ UNCHANGED <<state, generation, openedAt, successes, window, log>>
    ELSE UNCHANGED breakerVars

\* _on_result.
OnResult(t, ok) ==
    \/ (Stale(t) \/ state = "OPEN") /\ UNCHANGED breakerVars
    \/ /\ ~Stale(t) /\ state = "CLOSED"
       /\ LET w == Recorded(window, ok)
          IN  IF Trips(w)
              THEN /\ state' = "OPEN" /\ generation' = generation + 1
                   /\ issued' = 0 /\ successes' = 0 /\ openedAt' = now
                   /\ window' = w
              ELSE window' = w /\ UNCHANGED <<state, generation, openedAt, issued, successes>>
       /\ log' = Append(log, [ok |-> ok, at |-> now])
    \/ ~Stale(t) /\ state = "HALF_OPEN" /\ ~ok /\ Transition("OPEN")
    \/ /\ ~Stale(t) /\ state = "HALF_OPEN" /\ ok
       /\ IF successes + 1 >= HalfOpenMax THEN Transition("CLOSED")
          ELSE /\ successes' = successes + 1
               /\ UNCHANGED <<state, generation, openedAt, issued, window, log>>

\* on_success and on_error.
Report(t) ==
    /\ step[t] = "report"
    /\ CASE outcome[t] = "ok" -> OnResult(t, TRUE)
         [] outcome[t] \in {"fail", "timeout", "error"} -> OnResult(t, FALSE)
         [] OTHER -> Release(t)
    /\ permit' = [permit EXCEPT ![t] = -1]
    /\ step' = [step EXCEPT ![t] = "decide"]
    /\ UNCHANGED <<free, attempt, outcome, poolVars, budgetVars, envVars>>

\* Fault: what a success pays in is not capped.
RefundedUncapped == tokens + 1

\* RetryBudget.on_success and on_failure.
Refunded == Min({MaxTokens, tokens + 1})
Charged  == Max({0, tokens - TokenCost})

\* Retry.call: a result is returned, and pays into the budget.
RetrySucceeds(t) ==
    /\ step[t] = "decide" /\ outcome[t] = "ok"
    /\ tokens' = Refunded
    /\ won' = won + 1
    /\ Return(t)
    /\ UNCHANGED <<breakerVars, free, permit, poolVars, retried, envVars>>

\* Retry.call: an error is raised, or the budget is asked after it was
\* charged; another thread may pay in or draw between the two.
RetryFails(t) ==
    LET retryable == outcome[t] \in {"fail", "timeout"}
    IN  /\ step[t] = "decide" /\ outcome[t] # "ok"
        /\ tokens' = IF retryable THEN Charged ELSE tokens
        /\ IF ~retryable \/ attempt[t] >= MaxAttempts THEN Return(t)
           ELSE step' = [step EXCEPT ![t] = "ask"] /\ UNCHANGED <<attempt, outcome>>
        /\ UNCHANGED <<breakerVars, free, permit, poolVars, retried, won, envVars>>

\* Fault: a retry is allowed down to half of the budget.
CanRetryAtHalf == 2 * tokens >= MaxTokens

CanRetry == 2 * tokens > MaxTokens

RetryAgain(t) ==
    /\ step[t] = "ask" /\ CanRetry
    /\ step' = [step EXCEPT ![t] = "admit"]
    /\ attempt' = [attempt EXCEPT ![t] = @ + 1]
    /\ retried' = retried + 1
    /\ UNCHANGED <<breakerVars, free, permit, outcome, poolVars, tokens, won, envVars>>

\* RetryBudgetExhaustedError.
RetryExhausted(t) ==
    /\ step[t] = "ask" /\ ~CanRetry
    /\ Return(t)
    /\ UNCHANGED <<breakerVars, free, permit, poolVars, budgetVars, envVars>>

Tick ==
    /\ now < MaxTime /\ now' = now + 1
    /\ UNCHANGED <<breakerVars, free, callVars, poolVars, budgetVars, calls, resets>>
----------------------------------------------------------------------------
Proceed(t) ==
    \/ Acquire(t) \/ Refuse(t) \/ EnterBulkhead(t) \/ BulkheadFull(t)
    \/ \E how \in {"ok", "fail", "error", "bug"} : Finish(t, how)
    \/ TimesOut(t) \/ Report(t)
    \/ RetrySucceeds(t) \/ RetryFails(t) \/ RetryAgain(t) \/ RetryExhausted(t)

Next ==
    \/ \E t \in Thread : BeginCall(t) \/ Proceed(t) \/ StartWork(t)
    \/ AbandonedEnds \/ ReadState \/ Reset \/ Tick

Spec == Init /\ [][Next]_vars
----------------------------------------------------------------------------
\* Types, and the bounds of the shared resources: the slots of the bulkhead,
\* the threads of the executor and the tokens of the budget.
TypeOK ==
    /\ state \in {"CLOSED", "OPEN", "HALF_OPEN"} /\ generation \in Nat
    /\ openedAt \in 0..MaxTime /\ issued \in 0..HalfOpenMax /\ successes \in 0..HalfOpenMax
    /\ free \in 0..MaxConcurrent
    /\ free + Cardinality({t \in Thread : step[t] = "wait"}) = MaxConcurrent
    /\ abandoned \in Nat /\ Running <= PoolSize
    /\ step \in [Thread -> {"idle", "admit", "enter", "wait", "report", "decide", "ask"}]
    /\ permit \in [Thread -> -1..generation]
    /\ attempt \in [Thread -> 0..MaxAttempts]
    /\ outcome \in [Thread -> {"none", "ok", "fail", "timeout", "error", "bug", "full"}]
    /\ work \in [Thread -> {"none", "queued", "running"}]
    /\ tokens \in 0..MaxTokens
    /\ now \in 0..MaxTime /\ calls \in 0..MaxCalls /\ resets \in 0..MaxResets

Probes == {t \in Thread : permit[t] = generation}

\* The probe slots of a HALF_OPEN breaker are exactly accounted for: each is
\* held by a call admitted under this state or was spent on a success.  So no
\* late outcome of an earlier state votes, no slot leaks, whatever an attempt
\* ends with, and the trial always comes to a verdict.
ProbesExact ==
    state = "HALF_OPEN" => /\ issued = Cardinality(Probes) + successes
                           /\ issued <= HalfOpenMax /\ successes < HalfOpenMax

InWindow(i) ==
    IF WindowType = "COUNT" THEN i > Len(log) - WindowSize
    ELSE log[i].at > now - WindowSize

\* The running totals of the ring, and the recycled buckets, always show the
\* outcomes of the last WindowSize calls or seconds, and no other.
WindowExact ==
    LET recent == {i \in DOMAIN log : InWindow(i)}
    IN  Snapshot(window) = <<Cardinality(recent), Cardinality({i \in recent : ~log[i].ok})>>

\* What the breaker decides on is what really happened.
BreakerExact == ProbesExact /\ WindowExact

\* "when most calls fail, retries stop": while nothing succeeds, all threads
\* together begin fewer retries than half the tokens pay for.
OutageRetriesBounded == won = 0 => 2 * TokenCost * retried < MaxTokens
=============================================================================
