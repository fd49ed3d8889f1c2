---------------------------- MODULE Notification ----------------------------
(***************************************************************************)
(* NotificationService of python-low-level-design/notification-service:    *)
(* submit suppresses what the user opted out of or has just been told and  *)
(* queues the rest, and worker threads send what is ready, within quiet    *)
(* hours, rate limits and retries.  The clock is read before the lock is   *)
(* taken, so a call may work with a time that is already past.             *)
(*                                                                         *)
(* A delivery is a request and a channel.  Templates, addresses and the    *)
(* eviction of idle rate limit buckets are left out.                       *)
(***************************************************************************)
EXTENDS Integers, Sequences, SequencesExt, FiniteSets, FiniteSetsExt

CONSTANTS
    Request, KeyOf, ContentOf, ChannelsOf, SendAt,
    Critical, OptedOut,     \* critical requests; channels the user opted out of
    Worker, MaxAttempts, Backoff,
    Capacity, Rate,         \* of the bucket of the user and of the channel's
    IdemTtl, DedupWindow,
    Quiet,                  \* ticks inside the quiet hours
    MaxTime,                \* bound: when the last request comes
    Skew,                   \* how old a clock reading may be once the lock is held
    None

VARIABLES
    idem, recent,   \* _idempotency and _recent_content: keys and times, in order of insertion
    made,           \* requests that made a notification, and when
    delivery,       \* Delivery.status, attempts and ready_at
    ready, delayed, \* the two heaps
    bucket,         \* TokenBuckets of the user, per channel
    worker,         \* the delivery each worker is sending
    sends,          \* sends begun per channel
    now

vars == <<idem, recent, made, delivery, ready, delayed, bucket, worker, sends, now>>

Channel == UNION {ChannelsOf[r] : r \in Request}
Delivery == {<<r, c>> \in Request \X Channel : c \in ChannelsOf[r]}
Settled == {"SENT", "FAILED", "SUPPRESSED"}
None0 == [status |-> "none", attempts |-> 0, readyAt |-> 0]
\* Readings of the clock a call may hold when it gets the lock.
Reading == {t \in (now - Skew)..now : t >= 0}

Init ==
    /\ idem = <<>> /\ recent = <<>>
    /\ made = [r \in Request |-> None] /\ delivery = [d \in Delivery |-> None0]
    /\ ready = {} /\ delayed = {} /\ worker = [w \in Worker |-> None]
    /\ bucket = [c \in Channel |-> [tokens |-> Capacity, updated |-> 0]]
    /\ sends = [c \in Channel |-> 0] /\ now = 0
----------------------------------------------------------------------------
\* _enqueue of deliveries, each at its time.
Enqueue(queued, at, t) ==
    /\ ready' = (ready \ queued) \cup {d \in queued : at[d] <= t}
    /\ delayed' = (delayed \ queued) \cup {d \in queued : at[d] > t}

\* _expire: drops entries from the front, up to the first that is in time.
Expired(table, ttl, t) ==
    LET inTime == {i \in 1..Len(table) : table[i].at > t - ttl}
    IN  IF inTime = {} THEN <<>> ELSE SubSeq(table, Min(inTime), Len(table))

Has(table, key) == \E i \in 1..Len(table) : table[i].key = key
\* Sets a key and moves it to the end.
Entered(table, key, t) == Append(SelectSeq(table, LAMBDA e : e.key # key), [key |-> key, at |-> t])

\* _suppression.
Suppressed(r, c) == r \notin Critical /\ c \in OptedOut

Duplicate(seen, r) == Has(seen, ContentOf[r])

\* submit: one delivery per channel, unless the key is known.
Submit(r, t) ==
    LET keys == Expired(idem, IdemTtl, t)
        seen == Expired(recent, DedupWindow, t)
        mine == {d \in Delivery : d[1] = r}
        muted == {d \in mine : Duplicate(seen, r) \/ Suppressed(r, d[2])}
        at == [d \in mine |-> Max({t, SendAt[r]})]
    IN  /\ made[r] = None /\ now <= MaxTime
        /\ IF Has(keys, KeyOf[r])
           THEN idem' = keys /\ recent' = seen /\ UNCHANGED <<made, delivery, ready, delayed>>
           ELSE /\ idem' = Append(keys, [key |-> KeyOf[r], at |-> t])
                /\ recent' = Entered(seen, ContentOf[r], t)
                /\ made' = [made EXCEPT ![r] = t]
                /\ delivery' = [d \in Delivery |->
                      IF d \notin mine THEN delivery[d]
                      ELSE [None0 EXCEPT !.status = IF d \in muted THEN "SUPPRESSED" ELSE "QUEUED", !.readyAt = at[d]]]
                /\ Enqueue(mine \ muted, at, t)
        /\ UNCHANGED <<bucket, worker, sends, now>>
----------------------------------------------------------------------------
\* TokenBucket.peek_wait and try_take: a reading before the last update takes
\* tokens away again.
Tokens(c, t) == Min({Capacity, bucket[c].tokens + (t - bucket[c].updated) * Rate})
Wait(c, t) == IF Tokens(c, t) >= 1 THEN 0 ELSE (1 - Tokens(c, t) + Rate - 1) \div Rate

Taken(c, t) == [tokens |-> Tokens(c, t) - 1, updated |-> t]

\* QuietHours.next_allowed.
NextAllowed(t) == IF t \notin Quiet THEN t ELSE Min({u \in t..MaxTime + 1 : u \notin Quiet})

Quietly(r, t) == r \notin Critical /\ NextAllowed(t) > t

Due(t) == {d \in delayed : delivery[d].readyAt <= t}

\* process_next: the most urgent ready delivery is put off, or claimed.
ProcessNext(w, t) ==
    LET candidates == ready \cup Due(t)
        urgent == {d \in candidates : d[1] \in Critical}
    IN  /\ worker[w] = None /\ candidates # {}
        /\ \E d \in IF urgent # {} THEN urgent ELSE candidates :
              LET until == IF Quietly(d[1], t) THEN NextAllowed(t) ELSE t + Wait(d[2], t)
                  at == [x \in candidates |-> IF x = d THEN until ELSE t]
              IN  IF until > t
                  THEN /\ Enqueue(candidates, at, t)
                       /\ delivery' = [delivery EXCEPT ![d].readyAt = until]
                       /\ UNCHANGED <<bucket, worker, sends>>
                  ELSE /\ ready' = candidates \ {d} /\ delayed' = delayed \ candidates
                       /\ delivery' = [delivery EXCEPT ![d].status = "SENDING", ![d].attempts = @ + 1]
                       /\ bucket' = [bucket EXCEPT ![d[2]] = Taken(d[2], t)]
                       /\ worker' = [worker EXCEPT ![w] = d] /\ sends' = [sends EXCEPT ![d[2]] = @ + 1]
        /\ UNCHANGED <<idem, recent, made, now>>

\* The provider answers, outside the lock.
Sent(w) ==
    /\ worker[w] # None
    /\ delivery' = [delivery EXCEPT ![worker[w]].status = "SENT"]
    /\ worker' = [worker EXCEPT ![w] = None]
    /\ UNCHANGED <<idem, recent, made, ready, delayed, bucket, sends, now>>

\* _after_failure: back to the queue, or to the dead letters.
SendFails(w, retryable, delay, t) ==
    LET d == worker[w]
    IN  /\ d # None
        /\ IF retryable /\ delivery[d].attempts < MaxAttempts
           THEN /\ delivery' = [delivery EXCEPT ![d].status = "QUEUED", ![d].readyAt = t + delay]
                /\ Enqueue({d}, [x \in {d} |-> t + delay], t)
           ELSE /\ delivery' = [delivery EXCEPT ![d].status = "FAILED"] /\ UNCHANGED <<ready, delayed>>
        /\ worker' = [worker EXCEPT ![w] = None]
        /\ UNCHANGED <<idem, recent, made, bucket, sends, now>>

Tick == (now < MaxTime \/ delayed \ Due(now) # {}) /\ now' = now + 1
        /\ UNCHANGED <<idem, recent, made, delivery, ready, delayed, bucket, worker, sends>>

Answered(w) == \/ Sent(w)
               \/ \E retryable \in BOOLEAN, delay \in Backoff, t \in Reading : SendFails(w, retryable, delay, t)

Next ==
    \/ \E r \in Request, t \in Reading : Submit(r, t)
    \/ \E w \in Worker : Answered(w) \/ \E t \in Reading : ProcessNext(w, t)
    \/ Tick

Spec == Init /\ [][Next]_vars

\* Workers keep polling, providers answer and time passes.
Fairness ==
    /\ \A w \in Worker : WF_vars(ProcessNext(w, now)) /\ WF_vars(Answered(w))
    /\ WF_vars(Tick)
----------------------------------------------------------------------------
TypeOK ==
    /\ ready \cup delayed \subseteq Delivery /\ worker \in [Worker -> Delivery \cup {None}]
    /\ \A d \in Delivery : /\ delivery[d].status \in Settled \cup {"none", "QUEUED", "SENDING"}
                           /\ delivery[d].attempts <= MaxAttempts

\* submit: a key makes at most one notification per TTL, and the same content
\* reaches a user on a channel at most once per window, however many producers
\* repeat it: up to the age of the readings, as a late one shortens the window.
ToldOnce ==
    \A r, s \in Request : r # s /\ made[r] # None /\ made[s] # None /\ made[r] <= made[s] =>
        /\ KeyOf[r] = KeyOf[s] => made[s] - made[r] >= IdemTtl - Skew
        /\ ContentOf[r] = ContentOf[s] /\ made[s] - made[r] < DedupWindow - Skew =>
              \A c \in ChannelsOf[r] \cap ChannelsOf[s] :
                  "SUPPRESSED" \in {delivery[<<r, c>>].status, delivery[<<s, c>>].status}

\* _enqueue, _promote and process_next: a delivery is queued exactly while one
\* heap has it, and sending exactly while one worker has it.
DeliveryInOnePlace ==
    \A d \in Delivery :
        /\ ~(d \in ready /\ d \in delayed)
        /\ (delivery[d].status = "QUEUED") = (d \in ready \cup delayed)
        /\ Cardinality({w \in Worker : worker[w] = d}) = IF delivery[d].status = "SENDING" THEN 1 ELSE 0

\* RateLimiter.acquire: over any run of the service a channel begins no more
\* sends than the burst and the refill allow, although callers may hold stale
\* readings of the clock.
RateKept == \A c \in Channel : sends[c] <= Capacity + Rate * now

\* process_next: nothing but critical messages is begun in quiet hours.
QuietKept ==
    \A d \in Delivery : delivery[d].status # "SENDING" /\ delivery'[d].status = "SENDING" /\ d[1] \notin Critical
       => \E t \in Reading : t \notin Quiet

\* The deliveries that are neither sent nor given up nor suppressed.
Unsettled == {d \in Delivery : delivery[d].status \notin Settled \union {"none"}}
=============================================================================
