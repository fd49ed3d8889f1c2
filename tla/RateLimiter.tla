---------------------------- MODULE RateLimiter -----------------------------
(***************************************************************************)
(* python-low-level-design/rate-limiter: five algorithms behind one        *)
(* interface, and the limiter that applies one of them to many keys, each  *)
(* with an entry and a lock of its own.  A call looks its entry up, then   *)
(* locks it; a janitor drops idle entries and reset drops any, in between. *)
(*                                                                         *)
(* Levels of the buckets are counted in units of 1 / Window of a permit,   *)
(* so that a tick refills MaxRequests units and all values are exact.      *)
(***************************************************************************)
EXTENDS Integers, Sequences, FiniteSets, FiniteSetsExt

CONSTANTS
    MaxRequests, Window,    \* RateLimitRule
    Algorithm,              \* names under which the factory knows the algorithms
    Key, Thread, MaxTime, MaxEntries,   \* bounds on ticks and on entries made
    None

VARIABLES
    algo,       \* the algorithm of this limiter
    entries,    \* _entries: key to _Entry
    heap,       \* the _Entry objects: their state and evicted flag
    thread,     \* calls of try_acquire that have looked up their entry
    resetting,  \* entries that reset has removed and not yet marked
    granted,    \* times of the permits granted, per key, since it was last reset
    now

vars == <<algo, entries, heap, thread, resetting, granted, now>>

Full == MaxRequests * Window
Cap(x, bound) == IF x > bound THEN bound ELSE x
Floor(x) == IF x < 0 THEN 0 ELSE x
WindowOf(t) == t \div Window
CeilDiv(a, b) == (a + b - 1) \div b

\* new_state
NewState(t) ==
    CASE algo = "token_bucket" -> [level |-> Full, last |-> t]
      [] algo = "leaky_bucket" -> [level |-> 0, last |-> t]
      [] algo = "sliding_window_log" -> <<>>
      [] OTHER -> [window |-> WindowOf(t), count |-> 0, prev |-> 0]

\* _roll of the sliding window counter
Roll(s, t) ==
    IF WindowOf(t) = s.window + 1 THEN [window |-> WindowOf(t), count |-> 0, prev |-> s.count]
    ELSE IF WindowOf(t) > s.window THEN [window |-> WindowOf(t), count |-> 0, prev |-> 0] ELSE s

\* _refill, _leak, _roll and _evict: brings a state up to date.
Current(s, t) ==
    CASE algo = "token_bucket" -> [level |-> Cap(s.level + (t - s.last) * MaxRequests, Full), last |-> t]
      [] algo = "leaky_bucket" -> [level |-> Floor(s.level - (t - s.last) * MaxRequests), last |-> t]
      [] algo = "fixed_window" ->
            IF WindowOf(t) > s.window THEN [s EXCEPT !.window = WindowOf(t), !.count = 0] ELSE s
      [] algo = "sliding_window_log" -> SelectSeq(s, LAMBDA x : x > t - Window)
      [] OTHER -> Roll(s, t)

\* _estimate, times Window
Estimate(s, t) == s.prev * (Window - (t - s.window * Window)) + s.count * Window

\* try_acquire's test on a state that is up to date.
Available(s, t) ==
    CASE algo = "token_bucket" -> s.level >= Window
      [] algo = "leaky_bucket" -> s.level + Window <= Full
      [] algo = "fixed_window" -> s.count < MaxRequests
      [] algo = "sliding_window_log" -> Len(s) < MaxRequests
      [] OTHER -> Estimate(s, t) + Window <= Full

\* What a granted permit does to it.
Consumed(s, t) ==
    CASE algo = "token_bucket" -> [s EXCEPT !.level = @ - Window]
      [] algo = "leaky_bucket" -> [s EXCEPT !.level = @ + Window]
      [] algo = "sliding_window_log" -> Append(s, t)
      [] OTHER -> [s EXCEPT !.count = @ + 1]

\* remaining
Remaining(s, t) ==
    CASE algo = "token_bucket" -> s.level \div Window
      [] algo = "leaky_bucket" -> (Full - s.level) \div Window
      [] algo = "fixed_window" -> MaxRequests - s.count
      [] algo = "sliding_window_log" -> MaxRequests - Len(s)
      [] OTHER -> Floor((Full - Estimate(s, t)) \div Window)

\* retry_after of the sliding window counter
WaitOfCounter(s, t) ==
    LET headroom == MaxRequests - 1 - s.count
    IN  IF headroom >= 0 /\ s.prev > 0
        THEN Floor(s.window * Window + CeilDiv(Window * (s.prev - headroom), s.prev) - t)
        ELSE Floor((s.window + 1) * Window + CeilDiv(Window * (s.count - (MaxRequests - 1)), s.count) - t)

\* retry_after, rounded up to a tick
RetryAfter(s, t) ==
    IF Available(s, t) THEN 0
    ELSE CASE algo = "token_bucket" -> CeilDiv(Window - s.level, MaxRequests)
           [] algo = "leaky_bucket" -> CeilDiv(s.level + Window - Full, MaxRequests)
           [] algo = "fixed_window" -> (s.window + 1) * Window - t
           [] algo = "sliding_window_log" -> Head(s) + Window - t
           [] OTHER -> WaitOfCounter(s, t)

\* is_idle
Idle(s, t) == Remaining(Current(s, t), t) >= MaxRequests
----------------------------------------------------------------------------
Init ==
    /\ algo \in Algorithm /\ entries = [k \in Key |-> 0] /\ heap = <<>>
    /\ thread = [h \in Thread |-> None] /\ resetting = {}
    /\ granted = [k \in Key |-> <<>>] /\ now = 0

\* _entry: finds or makes the entry of the key, under the map lock.
Lookup(h, k) ==
    LET fresh == entries[k] = 0
        e == IF fresh THEN Len(heap) + 1 ELSE entries[k]
    IN  /\ thread[h] = None /\ (fresh => Len(heap) < MaxEntries)
        /\ heap' = IF fresh THEN Append(heap, [state |-> NewState(now), evicted |-> FALSE]) ELSE heap
        /\ entries' = [entries EXCEPT ![k] = e]
        /\ thread' = [thread EXCEPT ![h] = [key |-> k, entry |-> e]]
        /\ UNCHANGED <<algo, resetting, granted, now>>

\* _with_state: an evicted entry sends the call back to look again.
Usable(e) == ~heap[e].evicted

\* try_acquire, under the lock of the entry
TryAcquire(h) ==
    LET e == thread[h].entry
        s == Current(heap[e].state, now)
        ok == Available(s, now)
    IN  /\ thread[h] # None
        /\ thread' = [thread EXCEPT ![h] = None]
        /\ IF Usable(e)
           THEN /\ heap' = [heap EXCEPT ![e].state = IF ok THEN Consumed(s, now) ELSE s]
                /\ granted' = [granted EXCEPT ![thread[h].key] = IF ok /\ e \notin resetting THEN Append(@, now) ELSE @]
           ELSE UNCHANGED <<heap, granted>>
        /\ UNCHANGED <<algo, entries, resetting, now>>

\* evict_idle, for one key
EvictIdle(k) ==
    /\ entries[k] # 0 /\ Idle(heap[entries[k]].state, now)
    /\ heap' = [heap EXCEPT ![entries[k]].evicted = TRUE]
    /\ entries' = [entries EXCEPT ![k] = 0]
    /\ UNCHANGED <<algo, thread, resetting, granted, now>>

\* reset: out of the map, then marked; what was granted, and what calls that
\* hold the entry still get, is forgiven.
Reset(k) ==
    /\ entries[k] # 0
    /\ resetting' = resetting \cup {entries[k]} /\ entries' = [entries EXCEPT ![k] = 0]
    /\ granted' = [granted EXCEPT ![k] = <<>>]
    /\ UNCHANGED <<algo, heap, thread, now>>
MarkReset(e) ==
    /\ e \in resetting /\ resetting' = resetting \ {e}
    /\ heap' = [heap EXCEPT ![e].evicted = TRUE]
    /\ UNCHANGED <<algo, entries, thread, granted, now>>

Tick == now < MaxTime /\ now' = now + 1 /\ UNCHANGED <<algo, entries, heap, thread, resetting, granted>>

Next ==
    \/ \E h \in Thread : TryAcquire(h) \/ \E k \in Key : Lookup(h, k)
    \/ \E k \in Key : EvictIdle(k) \/ Reset(k)
    \/ \E e \in resetting : MarkReset(e)
    \/ Tick

Spec == Init /\ [][Next]_vars
----------------------------------------------------------------------------
TypeOK ==
    /\ \A k \in Key : entries[k] \in 0..Len(heap)
    /\ \A h \in Thread : thread[h] # None => thread[h].key \in Key /\ thread[h].entry \in 1..Len(heap)
    /\ \A e \in 1..Len(heap) : Remaining(Current(heap[e].state, now), now) \in 0..MaxRequests

\* Permits granted to a key after time a and up to time b.
GrantedIn(k, a, b) == Cardinality({i \in 1..Len(granted[k]) : granted[k][i] > a /\ granted[k][i] <= b})

\* What each algorithm's docstring allows in any span of time, with the janitor
\* dropping entries while calls hold them: the log is exact, the buckets allow
\* a burst and the rate, a fixed window its limit in each window.
RateBounded ==
    \A k \in Key : \A a \in -1..now : \A b \in a..now :
        LET n == GrantedIn(k, a, b)
        IN  CASE algo = "sliding_window_log" -> b - a <= Window => n <= MaxRequests
              [] algo \in {"token_bucket", "leaky_bucket"} -> n * Window <= Full + (b - a - 1) * MaxRequests
              [] OTHER -> WindowOf(a + 1) = WindowOf(b) => n <= MaxRequests

\* retry_after: a client that waits as told is served, and would not have been
\* served earlier, if nobody else comes in between.
RetryAfterExact ==
    \A k \in Key : entries[k] # 0 =>
        LET s == Current(heap[entries[k]].state, now)
            wait == RetryAfter(s, now)
        IN  \A t \in now..now + 2 * Window : Available(Current(s, t), t) = (t >= now + wait)

\* is_idle: "the state is indistinguishable from a fresh one, so the key can be
\* dropped without changing any future decision".
IdleIsFresh ==
    \A e \in 1..Len(heap) : Idle(heap[e].state, now) =>
        \A t \in now..now + 2 * Window :
            LET s == Current(heap[e].state, t) f == Current(NewState(now), t)
            IN  Remaining(s, t) = Remaining(f, t) /\ Available(s, t) = Available(f, t)
=============================================================================
