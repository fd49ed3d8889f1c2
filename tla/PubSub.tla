------------------------------ MODULE PubSub ------------------------------
(***************************************************************************)
(* The in-process broker of python-low-level-design/pub-sub-system: one    *)
(* bounded priority queue per subscription, fan-out at publish time, one   *)
(* dispatcher per subscription with retries and a dead-letter queue, and   *)
(* removal of subscriptions while all of that is going on.                 *)
(*                                                                         *)
(* A Subscription object and the worker thread _spawn makes for it are one *)
(* identity, an element of Sub; a subscription_id ("topic/subscriber") is  *)
(* a Key, which several objects may carry one after the other.  Each       *)
(* critical section of the broker lock or of a subscription's Condition is *)
(* one action; the counters are kept as sets of messages, which publish    *)
(* makes unique.  The end of dispatch_one updates delivered or the dead    *)
(* letters and then _in_flight in separate sections; no code in between    *)
(* reads either, so they are one action.  _stop only shortens a backoff,   *)
(* which ends at any time here.                                            *)
(***************************************************************************)
EXTENDS Integers, FiniteSets, Sequences, SequencesExt

CONSTANTS
    Sub,             \* Subscription objects, and their workers
    Key,             \* subscription ids
    Topic,
    KeyOf,           \* subscription_id of each object
    TopicOf,         \* topic of each subscription id
    Message,
    PriorityOf,      \* Message.priority
    Accepts,         \* messages the predicate of each object lets through
    Publisher,       \* threads that call publish
    Caller,          \* threads that unsubscribe, delete topics or close
    Runner,          \* threads that call run_until_idle
    MayStart,        \* whether a client calls start (threaded mode)
    MayUnsubscribe,  \* subscription ids the handler of each object may remove
    MaxQueue,        \* max_queue
    MaxAttempts,     \* RetryPolicy.max_attempts
    None

Dispatcher == Sub \cup Runner
Remover == Caller \cup Sub

VARIABLES
    topics,       \* topics that exist
    registry,     \* the Subscription registered under each id
    workers,      \* _workers: whose thread is filed under each id
    started,      \* _started
    heap,         \* _heap of each object, in the order of _seq
    closed,       \* _closed
    inFlight,     \* _in_flight
    delivered,    \* messages counted by delivered
    dead,         \* messages in the dead-letter queue, by subscription object
    at,           \* where each dispatcher is
    job,          \* the subscription, message and attempt it works on
    scan,         \* run_until_idle: rest of the pass, and whether it progressed
    pub,          \* each publisher's message and the rest of its snapshot
    call,         \* each thread's removal: rest of the list, step, object, join
    accepted,     \* history: messages offer enqueued, in that order
    finished,     \* history: messages dispatch_one is done with, in that order
    discarded,    \* history: messages close() cleared
    retired       \* history: objects whose _retire returned, and to whom

regVars  == <<topics, registry, workers, started>>
subVars  == <<heap, closed, inFlight, delivered, dead>>
dispVars == <<at, job, scan>>
histVars == <<accepted, finished, discarded, retired>>
vars == <<regVars, subVars, dispVars, pub, call, histVars>>

NoJob  == [sub |-> None, msg |-> None, attempt |-> 0]
NoCall == [todo |-> {}, step |-> "none", sub |-> None, join |-> None]
Remaining(objects) == [todo |-> objects, step |-> "next", sub |-> None, join |-> None]
NoPub  == [msg |-> None, targets |-> {}]
Registered == {registry[k] : k \in Key} \ {None}
BeingRemoved(s) == \E t \in Remover : call[t].sub = s \/ s \in call[t].todo

\* An object subscribe has not made yet.
Fresh(s) ==
    at[s] = "off" /\ ~closed[s] /\ s \notin Registered /\ ~BeingRemoved(s)

Init ==
    /\ topics = Topic
    /\ registry = [k \in Key |-> None] /\ workers = [k \in Key |-> None]
    /\ started = FALSE
    /\ heap = [s \in Sub |-> <<>>] /\ closed = [s \in Sub |-> FALSE]
    /\ inFlight = [s \in Sub |-> 0]
    /\ delivered = [s \in Sub |-> {}] /\ dead = [s \in Sub |-> {}]
    /\ at = [d \in Dispatcher |-> "off"] /\ job = [d \in Dispatcher |-> NoJob]
    /\ scan = [r \in Runner |-> [todo |-> {}, progressed |-> FALSE]]
    /\ pub = [p \in Publisher |-> NoPub]
    /\ call = [t \in Remover |-> NoCall]
    /\ accepted = [s \in Sub |-> <<>>] /\ finished = [s \in Sub |-> <<>>]
    /\ discarded = [s \in Sub |-> {}] /\ retired = {}
----------------------------------------------------------------------------
CreateTopic(topic) ==
    /\ topic \notin topics
    /\ topics' = topics \cup {topic}
    /\ UNCHANGED <<registry, workers, started, subVars, dispVars, pub, call, histVars>>

\* subscribe: register a new object and, in threaded mode, start its worker.
Subscribe(s) ==
    LET k == KeyOf[s]
    IN  /\ Fresh(s)
        /\ TopicOf[k] \in topics /\ registry[k] = None
        /\ registry' = [registry EXCEPT ![k] = s]
        /\ at' = IF started THEN [at EXCEPT ![s] = "loop"] ELSE at
        /\ workers' = IF started THEN [workers EXCEPT ![k] = s] ELSE workers
        /\ UNCHANGED <<topics, started, subVars, job, scan, pub, call, histVars>>

\* start: one worker for every registered subscription.
Start ==
    /\ MayStart /\ ~started
    /\ started' = TRUE
    /\ at' = [d \in Dispatcher |-> IF d \in Registered THEN "loop" ELSE at[d]]
    /\ workers' = [k \in Key |-> IF registry[k] # None THEN registry[k]
                                 ELSE workers[k]]
    /\ UNCHANGED <<topics, registry, subVars, job, scan, pub, call, histVars>>

\* publish: snapshot the subscriptions of the topic under the broker lock.
PublishSnapshot(p, m, topic) ==
    /\ pub[p] = NoPub /\ topic \in topics
    /\ \A q \in Publisher : pub[q].msg # m
    /\ \A s \in Sub : ~Contains(accepted[s], m) /\ m \notin dead[s]
    /\ pub' = [pub EXCEPT ![p] =
                 [msg |-> m, targets |-> {s \in Registered : TopicOf[KeyOf[s]] = topic}]]
    /\ UNCHANGED <<regVars, subVars, dispVars, call, histVars>>

Full(s) == Len(heap[s]) >= MaxQueue

OfferTakes(s, m) == m \in Accepts[s] /\ ~closed[s]

\* offer, outside the broker lock: enqueue, or dead-letter on overflow.
Offer(p, s) ==
    LET m == pub[p].msg
    IN  /\ s \in pub[p].targets
        /\ pub' = [pub EXCEPT ![p].targets = @ \ {s}]
        /\ \/ /\ OfferTakes(s, m) /\ ~Full(s)
              /\ heap' = [heap EXCEPT ![s] = Append(@, m)]
              /\ accepted' = [accepted EXCEPT ![s] = Append(@, m)]
              /\ UNCHANGED dead
           \/ /\ OfferTakes(s, m) /\ Full(s)
              /\ dead' = [dead EXCEPT ![s] = @ \cup {m}]
              /\ UNCHANGED <<heap, accepted>>
           \/ ~OfferTakes(s, m) /\ UNCHANGED <<heap, accepted, dead>>
        /\ UNCHANGED <<regVars, closed, inFlight, delivered, dispVars, call,
                       finished, discarded, retired>>

PublishReturn(p) ==
    /\ pub[p].msg # None /\ pub[p].targets = {}
    /\ pub' = [pub EXCEPT ![p] = NoPub]
    /\ UNCHANGED <<regVars, subVars, dispVars, call, histVars>>
----------------------------------------------------------------------------
\* Fault: the newest message of the best priority is popped.
HeadNewest(s) ==
    CHOOSE i \in DOMAIN heap[s] :
        \A j \in DOMAIN heap[s] \ {i} :
            \/ PriorityOf[heap[s][i]] > PriorityOf[heap[s][j]]
            \/ PriorityOf[heap[s][i]] = PriorityOf[heap[s][j]] /\ i > j

\* heappop: the oldest message among those of the best priority.
Head1(s) ==
    CHOOSE i \in DOMAIN heap[s] :
        \A j \in DOMAIN heap[s] \ {i} :
            \/ PriorityOf[heap[s][i]] > PriorityOf[heap[s][j]]
            \/ PriorityOf[heap[s][i]] = PriorityOf[heap[s][j]] /\ i < j

CanTake(s) == heap[s] # <<>> /\ ~closed[s]

CountsTaken(s) == [inFlight EXCEPT ![s] = @ + 1]

\* _take and the first call of on_message.
Take(d, s) ==
    /\ CanTake(s)
    /\ heap' = [heap EXCEPT ![s] = RemoveAt(@, Head1(s))]
    /\ inFlight' = CountsTaken(s)
    /\ at' = [at EXCEPT ![d] = "calling"]
    /\ job' = [job EXCEPT ![d] = [sub |-> s, msg |-> heap[s][Head1(s)], attempt |-> 1]]
    /\ UNCHANGED <<regVars, closed, delivered, dead, pub, call, histVars>>

WorkerTake(s) == at[s] = "loop" /\ Take(s, s) /\ UNCHANGED scan

\* The worker loop ends once the subscription is closed.
WorkerExit(s) ==
    /\ at[s] = "loop" /\ closed[s]
    /\ at' = [at EXCEPT ![s] = "done"]
    /\ UNCHANGED <<regVars, subVars, job, scan, pub, call, histVars>>

\* on_message may itself be inside a call of unsubscribe.
Returning(d) == at[d] = "calling" /\ (d \in Sub => call[d].step = "none")

\* The end of dispatch_one.
EndDispatch(d) ==
    LET s == job[d].sub
    IN  /\ inFlight' = [inFlight EXCEPT ![s] = @ - 1]
        /\ finished' = [finished EXCEPT ![s] = Append(@, job[d].msg)]
        /\ at' = [at EXCEPT ![d] = IF d \in Sub THEN "loop" ELSE "pass"]
        /\ job' = [job EXCEPT ![d] = NoJob]
        /\ scan' = [r \in Runner |-> IF r = d THEN [scan[r] EXCEPT !.progressed = TRUE]
                                     ELSE scan[r]]
        /\ UNCHANGED <<regVars, heap, closed, pub, call, accepted, discarded, retired>>

CallOk(d) ==
    LET s == job[d].sub
    IN  /\ Returning(d)
        /\ delivered' = [delivered EXCEPT ![s] = @ \cup {job[d].msg}]
        /\ EndDispatch(d) /\ UNCHANGED dead

CallFailsLast(d) ==
    LET s == job[d].sub
    IN  /\ Returning(d) /\ job[d].attempt = MaxAttempts
        /\ dead' = [dead EXCEPT ![s] = @ \cup {job[d].msg}]
        /\ EndDispatch(d) /\ UNCHANGED delivered

CallFailsRetry(d) ==
    /\ Returning(d) /\ job[d].attempt < MaxAttempts
    /\ at' = [at EXCEPT ![d] = "backoff"]
    /\ UNCHANGED <<regVars, subVars, job, scan, pub, call, histVars>>

\* After the backoff: another attempt.
Retry(d) ==
    /\ at[d] = "backoff" /\ ~closed[job[d].sub]
    /\ at' = [at EXCEPT ![d] = "calling"]
    /\ job' = [job EXCEPT ![d].attempt = @ + 1]
    /\ UNCHANGED <<regVars, subVars, scan, pub, call, histVars>>

\* Fault: the message is forgotten.
RetryClosedDrops(d) ==
    /\ at[d] = "backoff" /\ closed[job[d].sub]
    /\ EndDispatch(d) /\ UNCHANGED <<delivered, dead>>

\* After the backoff: the subscription was closed, keep the message visible.
RetryClosed(d) ==
    LET s == job[d].sub
    IN  /\ at[d] = "backoff" /\ closed[s]
        /\ dead' = [dead EXCEPT ![s] = @ \cup {job[d].msg}]
        /\ EndDispatch(d) /\ UNCHANGED delivered
----------------------------------------------------------------------------
\* run_until_idle: the unlocked test of _started.
RunCheck(r) ==
    /\ at[r] = "off" /\ ~started
    /\ at' = [at EXCEPT ![r] = "snapshot"]
    /\ UNCHANGED <<regVars, subVars, job, scan, pub, call, histVars>>

\* One pass over a snapshot of all subscriptions.
RunSnapshot(r) ==
    /\ at[r] = "snapshot"
    /\ at' = [at EXCEPT ![r] = "pass"]
    /\ scan' = [scan EXCEPT ![r] = [todo |-> Registered, progressed |-> FALSE]]
    /\ UNCHANGED <<regVars, subVars, job, pub, call, histVars>>

RunDispatch(r, s) ==
    /\ at[r] = "pass" /\ s \in scan[r].todo
    /\ Take(r, s)
    /\ scan' = [scan EXCEPT ![r].todo = @ \ {s}]

RunSkip(r, s) ==
    /\ at[r] = "pass" /\ s \in scan[r].todo /\ ~CanTake(s)
    /\ scan' = [scan EXCEPT ![r].todo = @ \ {s}]
    /\ UNCHANGED <<regVars, subVars, at, job, pub, call, histVars>>

\* The pass is over: again if it handled something, else return.
RunPassEnds(r) ==
    /\ at[r] = "pass" /\ scan[r].todo = {}
    /\ at' = [at EXCEPT ![r] = IF scan[r].progressed THEN "snapshot" ELSE "off"]
    /\ UNCHANGED <<regVars, subVars, job, scan, pub, call, histVars>>
----------------------------------------------------------------------------
Removes(t, objects) ==
    /\ call[t].step = "none"
    /\ t \in Sub => at[t] = "calling"
    /\ call' = IF objects = {} THEN call
               ELSE [call EXCEPT ![t] = Remaining(objects)]
    /\ UNCHANGED <<workers, started, subVars, dispVars, pub, histVars>>

\* unsubscribe: take the object out of the map under the broker lock.
Unsubscribe(t, k) ==
    /\ registry[k] # None
    /\ t \in Sub => k \in MayUnsubscribe[t]
    /\ Removes(t, {registry[k]})
    /\ registry' = [registry EXCEPT ![k] = None]
    /\ UNCHANGED topics

DeleteTopic(t, topic) ==
    /\ t \in Caller /\ topic \in topics
    /\ Removes(t, {s \in Registered : TopicOf[KeyOf[s]] = topic})
    /\ topics' = topics \ {topic}
    /\ registry' = [k \in Key |-> IF TopicOf[k] = topic THEN None ELSE registry[k]]

\* close: every registered subscription is retired, and stays in the map.
CloseBroker(t) ==
    /\ t \in Caller
    /\ Removes(t, Registered)
    /\ UNCHANGED <<topics, registry>>

\* _retire: Subscription.close discards what is queued.
RetireClose(t, s) ==
    /\ call[t].step = "next" /\ s \in call[t].todo
    /\ closed' = [closed EXCEPT ![s] = TRUE]
    /\ heap' = [heap EXCEPT ![s] = <<>>]
    /\ discarded' = [discarded EXCEPT ![s] = @ \cup ToSet(heap[s])]
    /\ call' = [call EXCEPT ![t] = [todo |-> @.todo \ {s}, step |-> "closed",
                                    sub |-> s, join |-> None]]
    /\ UNCHANGED <<regVars, inFlight, delivered, dead, dispVars, pub, accepted,
                   finished, retired>>

\* _retire: pop the thread filed under the subscription's id.
RetirePop(t) ==
    LET k == KeyOf[call[t].sub]
    IN  /\ call[t].step = "closed"
        /\ workers' = [workers EXCEPT ![k] = None]
        /\ call' = [call EXCEPT ![t] = [todo |-> @.todo, step |-> "join", sub |-> @.sub,
                                        join |-> workers[k]]]
        /\ UNCHANGED <<topics, registry, started, subVars, dispVars, pub, histVars>>

\* Fault: the thread is not joined.
JoinsNobody(t) == TRUE

\* Fault: a worker that removes its own subscription joins itself.
JoinsItself(t) == call[t].join # None => at[call[t].join] = "done"

Joined(t) == call[t].join \notin {None, t} => at[call[t].join] = "done"

\* _retire: join that thread, unless it is the caller's own.
RetireJoin(t) ==
    LET rest == call[t].todo
    IN  /\ call[t].step = "join" /\ Joined(t)
        /\ retired' = retired \cup {<<call[t].sub, t>>}
        /\ call' = [call EXCEPT ![t] = IF rest = {} THEN NoCall
                                       ELSE Remaining(rest)]
        /\ UNCHANGED <<regVars, subVars, dispVars, pub, accepted, finished, discarded>>
----------------------------------------------------------------------------
Dispatch(d) ==
    \/ d \in Sub /\ (WorkerTake(d) \/ WorkerExit(d))
    \/ CallOk(d) \/ CallFailsLast(d) \/ CallFailsRetry(d)
    \/ Retry(d) \/ RetryClosed(d)

Run(r) ==
    \/ RunSnapshot(r) \/ RunPassEnds(r)
    \/ \E s \in Sub : RunDispatch(r, s) \/ RunSkip(r, s)

Fan(p) == PublishReturn(p) \/ \E s \in Sub : Offer(p, s)

Retire(t) ==
    \/ \E s \in Sub : RetireClose(t, s)
    \/ RetirePop(t) \/ RetireJoin(t)

Client ==
    \/ Start
    \/ \E topic \in Topic : CreateTopic(topic)
    \/ \E s \in Sub : Subscribe(s)
    \/ \E r \in Runner : RunCheck(r)
    \/ \E p \in Publisher, m \in Message, topic \in Topic : PublishSnapshot(p, m, topic)
    \/ \E t \in Remover : \/ \E k \in Key : Unsubscribe(t, k)
                         \/ \E topic \in Topic : DeleteTopic(t, topic)
                         \/ CloseBroker(t)

Next ==
    \/ Client
    \/ \E d \in Dispatcher : Dispatch(d)
    \/ \E r \in Runner : Run(r)
    \/ \E p \in Publisher : Fan(p)
    \/ \E t \in Remover : Retire(t)

Spec == Init /\ [][Next]_vars

\* Threads are scheduled, handlers return and backoffs end.
Fairness ==
    /\ \A d \in Dispatcher : WF_vars(Dispatch(d))
    /\ \A r \in Runner : WF_vars(Run(r))
    /\ \A p \in Publisher : WF_vars(Fan(p))
    /\ \A t \in Remover : WF_vars(Retire(t))
----------------------------------------------------------------------------
\* What the theorems assume of the parameters.
Params ==
    /\ KeyOf \in [Sub -> Key] /\ PriorityOf \in [Message -> Int]
    /\ None \notin Sub \cup Message /\ Sub \cap Runner = {}
    /\ MaxAttempts \in Nat /\ MaxQueue \in Nat
    /\ IsFiniteSet(Sub) /\ IsFiniteSet(Runner)

\* A subscription has one dispatcher: its worker, or the one thread that calls
\* run_until_idle when nobody calls start.
OneDispatcher == Runner = {} \/ (~MayStart /\ \A q, r \in Runner : q = r)

\* No subscription id is used again after its removal.
IdsNotReused == \A r, s \in Sub : KeyOf[r] = KeyOf[s] => r = s

Holding(s) == {d \in Dispatcher : job[d].sub = s}
Count(holds) == IF holds THEN 1 ELSE 0
Settled(s, m) == m \in delivered[s] \cup dead[s] \cup discarded[s]

\* The types of the broker's fields.
TypeOK ==
    /\ topics \subseteq Topic /\ started \in BOOLEAN
    /\ registry \in [Key -> Sub \cup {None}]
    /\ workers \in [Key -> Sub \cup {None}]
    /\ \A s \in Sub : /\ ToSet(heap[s]) \subseteq Message
                      /\ Len(heap[s]) <= MaxQueue
    /\ closed \in [Sub -> BOOLEAN] /\ inFlight \in [Sub -> Nat]
    /\ at \in [Dispatcher -> {"off", "loop", "calling", "backoff", "done",
                              "snapshot", "pass"}]
    /\ \A d \in Dispatcher : job[d].attempt \in 0..MaxAttempts

\* Nothing an offer accepted is lost or settled twice: it is queued, with a
\* dispatcher, delivered, dead-lettered or discarded by close, and in one of
\* these places only.
Conservation ==
    \A s \in Sub : \A i \in DOMAIN accepted[s] :
        LET m == accepted[s][i]
        IN  Count(Contains(heap[s], m)) + Count(m \in delivered[s]) + Count(m \in dead[s])
            + Count(m \in discarded[s]) + Cardinality({d \in Holding(s) : job[d].msg = m}) = 1

\* What wait_idle waits for implies that everything accepted is settled:
\* there is no instant at which a popped message is invisible.
IdleMeansSettled ==
    \A s \in Sub : heap[s] = <<>> /\ inFlight[s] = 0 =>
        \A i \in DOMAIN accepted[s] : Settled(s, accepted[s][i])

\* Within a priority a subscriber is done with messages in the order they
\* were enqueued, retries in place included.
InOrder ==
    \A s \in Sub : \A i, j \in DOMAIN finished[s] :
        LET m == finished[s][i]
            n == finished[s][j]
        IN  i < j /\ PriorityOf[m] = PriorityOf[n] =>
            \E a, b \in DOMAIN accepted[s] :
                a < b /\ accepted[s][a] = m /\ accepted[s][b] = n

\* Once _retire returned to another thread, and no other removal of the same
\* subscription is under way, its worker does not call the subscriber any
\* more, although only one of several removals finds the thread to join; the
\* exception is a subscriber that removed itself and is still in its call.
RetiredIsQuiet ==
    \A s \in Sub, t \in Remover :
        <<s, t>> \in retired /\ <<s, s>> \notin retired /\ ~BeingRemoved(s)
        => at[s] \notin {"calling", "backoff"}

\* The accepted messages that are not settled yet, once workers run.
Awaited ==
    {x \in Sub \X Message : started /\ Contains(accepted[x[1]], x[2]) /\ ~Settled(x[1], x[2])}

\* The threads inside _retire, or with subscriptions left to retire.
Removing == {t \in Remover : call[t].step # "none"}

\* Threads that wait, through each other's join, for themselves, and those that
\* wait for one of them: none of these calls can return any more.
Stuck ==
    {t \in Remover : \E S \in SUBSET Remover :
        t \in S /\ \A u \in S : call[u].step = "join" /\ call[u].join \in S \ {u}}
============================================================================
