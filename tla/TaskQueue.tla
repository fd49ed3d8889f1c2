----------------------------- MODULE TaskQueue -----------------------------
(***************************************************************************)
(* The in-process task queue of golang-low-level-design/task-queue: two    *)
(* heaps and a task index under one mutex, a pool of pulling workers that  *)
(* sleep on a broadcast channel or a timer, dependencies, retries,         *)
(* cancellation and a shutdown with a deadline.                            *)
(*                                                                         *)
(* Every critical section of q.mu is one action.  What runs outside the    *)
(* lock is the wait of a sleeping worker (Wake), a handler (between        *)
(* Acquire and Finish) and the waits of Shutdown.  A handler's result does *)
(* not depend on the queue, so its return and finish are one action: a     *)
(* Cancel that lands between them has the effect of one that lands before. *)
(*                                                                         *)
(* Left out: payloads, results and error texts, the retries counter of     *)
(* Stats, the unknown-handler refusal (it returns before the lock), and    *)
(* the per-attempt timeout, whose only effect is that the handler may      *)
(* return an error.  A repeated id in DependsOn adds one to waitingOn and  *)
(* one entry to dependents, and both are consumed together, so DependsOn   *)
(* is a set.                                                               *)
(***************************************************************************)
EXTENDS Naturals, FiniteSets

CONSTANTS
    Task,          \* task ids a client may submit
    Worker,        \* goroutines that Start launches
    Closer,        \* goroutines that call Shutdown
    None,          \* no task
    Priority,      \* TaskSpec.Priority of each task
    MaxAttempts,   \* TaskSpec.MaxAttempts of each task, default applied
    MaxTime,       \* bound: last instant of the clock
    MaxSubmit      \* bound: calls of Submit that get past the closing check

ASSUME TaskAssumption == IsFiniteSet(Task) /\ None \notin Task
ASSUME WorkerAssumption == IsFiniteSet(Worker) /\ Worker # {}
ASSUME SpecAssumption ==
    /\ Priority \in [Task -> Nat]
    /\ MaxAttempts \in [Task -> Nat \ {0}]
ASSUME BoundAssumption == MaxTime \in Nat /\ MaxSubmit \in Nat

VARIABLES
    status,            \* task.status; "Absent" when the id is not in q.tasks
    dependsOn,         \* task.spec.DependsOn
    dependents,        \* task.dependents
    waitingOn,         \* task.waitingOn
    attempts,          \* task.attempts
    runAt,             \* task.runAt; 0 is the zero time
    seqOf,             \* task.seq
    cancelRequested,   \* task.cancelRequested
    ready,             \* q.ready, the tasks in the priority heap
    delayed,           \* q.delayed, the tasks in the runAt heap
    deadLetters,       \* ids in q.deadLetters
    seq,               \* q.seq
    outstanding,       \* q.outstanding
    started,           \* q.started
    closing,           \* q.closing
    hardStopped,       \* q.baseCtx is cancelled
    pc,                \* where each worker is
    holding,           \* the task a running worker executes
    timer,             \* instant a sleeping worker's timer fires
    listening,         \* sleeping workers whose wake channel is still q.changed
    closer,            \* where each call of Shutdown is
    now                \* the clock

taskVars  == <<status, dependsOn, dependents, waitingOn, attempts, runAt,
               seqOf, cancelRequested>>
heapVars  == <<ready, delayed, deadLetters, outstanding>>
flagVars  == <<started, closing, hardStopped>>
workVars  == <<pc, holding, timer>>
vars == <<taskVars, heapVars, seq, flagVars, workVars, listening, closer, now>>

Live     == {"Blocked", "Scheduled", "Ready", "Running"}
Final    == {"Succeeded", "Failed", "Cancelled"}
Status   == Live \cup Final \cup {"Absent"}
Never    == MaxTime + 1      \* a timer that was not set

Terminal(t) == status[t] \in Final
Submitted   == {t \in Task : status[t] # "Absent"}

\* Fault: the channel is replaced but never closed.
NotifyNobody == UNCHANGED listening

\* close(q.changed) and its replacement: every sleeper's channel is now closed.
NotifyLocked == listening' = {}
----------------------------------------------------------------------------
\* The heap enqueueLocked pushes to, for a task that is runnable now.
Delays(at) == now < at
EnqueuedStatus(at) == IF Delays(at) THEN "Scheduled" ELSE "Ready"

\* byPriority: higher priority first, then submission order.
ByPriority(a, b, seqs) ==
    \/ Priority[a] > Priority[b]
    \/ Priority[a] = Priority[b] /\ seqs[a] < seqs[b]

\* Fault: only the direct dependents are cancelled.
CascadeOneLevel(t) == {t} \cup {b \in dependents[t] : ~Terminal(b)}

\* Fault: a dependent that is already terminal is finalized again.
CascadeTerminalToo(t) ==
    {u \in Task : \A S \in SUBSET Task :
        (t \in S /\ \A a \in S : dependents[a] \subseteq S) => u \in S}

\* What finalizeLocked reaches from t when t does not succeed: t and, through
\* the dependents lists, every task that is not terminal yet.
Cascade(t) ==
    {u \in Task : \A S \in SUBSET Task :
        (/\ t \in S
         /\ \A a \in S : \A b \in dependents[a] : ~Terminal(b) => b \in S)
        => u \in S}

\* Fault: a cancelled task stays in the ready heap.
QueuedInDelayedOnly(gone, st) ==
    {u \in gone : status[u] = st /\ st = "Scheduled"}

\* The finalized tasks that sit in the heap of status st.
QueuedIn(gone, st) == {u \in gone : status[u] = st}

\* finalizeLocked(t, st) for st # Succeeded.
FinalizeUnsuccessful(t, st) ==
    LET gone == Cascade(t)
    IN  /\ status' = [u \in Task |->
                         IF u = t THEN st
                         ELSE IF u \in gone THEN "Cancelled" ELSE status[u]]
        /\ dependents' = [u \in Task |->
                             IF u \in gone THEN {} ELSE dependents[u]]
        /\ ready' = ready \ QueuedIn(gone, "Ready")
        /\ delayed' = delayed \ QueuedIn(gone, "Scheduled")
        /\ outstanding' = outstanding - Cardinality(gone)
        /\ deadLetters' = IF st = "Failed" THEN deadLetters \cup {t}
                          ELSE deadLetters
        /\ NotifyLocked
        /\ UNCHANGED waitingOn

\* Fault: a dependent is enqueued on its first finished dependency.
FreedByAny(told) == told

\* The dependents whose waitingOn drops to zero.
Freed(told) == {d \in told : waitingOn[d] = 1}

\* finalizeLocked(t, Succeeded): dependents whose last dependency this was
\* are enqueued.
FinalizeSucceeded(t) ==
    LET told == {d \in dependents[t] : ~Terminal(d)}
        free == Freed(told)
    IN  /\ status' = [u \in Task |->
                         IF u = t THEN "Succeeded"
                         ELSE IF u \in free THEN EnqueuedStatus(runAt[u])
                         ELSE status[u]]
        /\ waitingOn' = [u \in Task |-> IF u \in told THEN waitingOn[u] - 1
                                        ELSE waitingOn[u]]
        /\ dependents' = [dependents EXCEPT ![t] = {}]
        /\ ready' = ready \cup {d \in free : ~Delays(runAt[d])}
        /\ delayed' = delayed \cup {d \in free : Delays(runAt[d])}
        /\ outstanding' = outstanding - 1
        /\ NotifyLocked
        /\ UNCHANGED deadLetters
----------------------------------------------------------------------------
Init ==
    /\ status = [t \in Task |-> "Absent"]
    /\ dependsOn = [t \in Task |-> {}]
    /\ dependents = [t \in Task |-> {}]
    /\ waitingOn = [t \in Task |-> 0]
    /\ attempts = [t \in Task |-> 0]
    /\ runAt = [t \in Task |-> 0]
    /\ seqOf = [t \in Task |-> 0]
    /\ cancelRequested = [t \in Task |-> FALSE]
    /\ ready = {} /\ delayed = {} /\ deadLetters = {}
    /\ seq = 0 /\ outstanding = 0
    /\ started = FALSE /\ closing = FALSE /\ hardStopped = FALSE
    /\ pc = [w \in Worker |-> "new"]
    /\ holding = [w \in Worker |-> None]
    /\ timer = [w \in Worker |-> Never]
    /\ listening = {}
    /\ closer = [c \in Closer |-> "idle"]
    /\ now = 0

LaunchWorkers ==
    /\ started' = TRUE
    /\ pc' = IF started THEN pc ELSE [w \in Worker |-> "polling"]

Start ==
    /\ ~started
    /\ LaunchWorkers
    /\ UNCHANGED <<taskVars, heapVars, seq, closing, hardStopped, holding,
                   timer, listening, closer, now>>

\* A Submit that adds no task: a known id, or an unknown dependency.
SubmitIgnored ==
    /\ ~closing /\ seq < MaxSubmit
    /\ seq' = seq + 1
    /\ UNCHANGED <<taskVars, heapVars, flagVars, workVars, listening, closer,
                   now>>

\* A Submit all of whose dependencies may still succeed.
SubmitAccepted(t, deps, at) ==
    LET pending == {d \in deps : ~Terminal(d)}
    IN  /\ ~closing /\ seq < MaxSubmit
        /\ status[t] = "Absent" /\ deps \subseteq Submitted
        /\ \A d \in deps : status[d] \notin {"Failed", "Cancelled"}
        /\ seq' = seq + 1
        /\ seqOf' = [seqOf EXCEPT ![t] = seq + 1]
        /\ dependsOn' = [dependsOn EXCEPT ![t] = deps]
        /\ runAt' = [runAt EXCEPT ![t] = at]
        /\ outstanding' = outstanding + 1
        /\ waitingOn' = [waitingOn EXCEPT ![t] = Cardinality(pending)]
        /\ dependents' = [u \in Task |-> IF u \in pending
                                         THEN dependents[u] \cup {t}
                                         ELSE dependents[u]]
        /\ \/ /\ pending # {}
              /\ status' = [status EXCEPT ![t] = "Blocked"]
              /\ UNCHANGED <<ready, delayed, listening>>
           \/ /\ pending = {}
              /\ status' = [status EXCEPT ![t] = EnqueuedStatus(at)]
              /\ ready' = IF Delays(at) THEN ready ELSE ready \cup {t}
              /\ delayed' = IF Delays(at) THEN delayed \cup {t} ELSE delayed
              /\ NotifyLocked
        /\ UNCHANGED <<attempts, cancelRequested, deadLetters, flagVars,
                       workVars, closer, now>>

\* A Submit with a dependency that did not succeed: the task is cancelled on
\* the spot, after it was added to the dependents of the pending
\* dependencies (early) that precede the failed one in the list.
SubmitDoomed(t, deps, at, early) ==
    /\ ~closing /\ seq < MaxSubmit
    /\ status[t] = "Absent" /\ deps \subseteq Submitted
    /\ \E d \in deps : status[d] \in {"Failed", "Cancelled"}
    /\ early \subseteq {d \in deps : ~Terminal(d)}
    /\ seq' = seq + 1
    /\ seqOf' = [seqOf EXCEPT ![t] = seq + 1]
    /\ dependsOn' = [dependsOn EXCEPT ![t] = deps]
    /\ runAt' = [runAt EXCEPT ![t] = at]
    /\ waitingOn' = [waitingOn EXCEPT ![t] = Cardinality(early)]
    /\ dependents' = [u \in Task |-> IF u \in early THEN dependents[u] \cup {t}
                                     ELSE dependents[u]]
    /\ status' = [status EXCEPT ![t] = "Cancelled"]
    /\ NotifyLocked
    /\ UNCHANGED <<attempts, cancelRequested, heapVars, flagVars, workVars,
                   closer, now>>
----------------------------------------------------------------------------
\* The delayed tasks acquire moves to the ready heap before it picks one.
Due == {d \in delayed : runAt[d] <= now}

\* Fault: a closing queue is taken for an empty one.
LeavesWhenClosing == closing

\* Nothing will ever need a worker again.
NothingLeft == closing /\ outstanding = 0

\* acquire: the worker leaves when the base context is cancelled, or when
\* the queue is closing and nothing is outstanding.
AcquireExit(w) ==
    /\ pc[w] = "polling"
    /\ hardStopped \/ (ready = {} /\ Due = {} /\ NothingLeft)
    /\ pc' = [pc EXCEPT ![w] = "exited"]
    /\ UNCHANGED <<taskVars, heapVars, seq, flagVars, holding, timer,
                   listening, closer, now>>

\* acquire: promote what is due, then pop the head of the ready heap.
AcquireTask(w, t) ==
    LET heap == ready \cup Due
    IN  /\ pc[w] = "polling" /\ ~hardStopped
        /\ t \in heap
        /\ \A u \in heap \ {t} : ByPriority(t, u, seqOf)
        /\ ready' = heap \ {t}
        /\ delayed' = delayed \ Due
        /\ status' = [u \in Task |-> IF u = t THEN "Running"
                                     ELSE IF u \in Due THEN "Ready"
                                     ELSE status[u]]
        /\ attempts' = [attempts EXCEPT ![t] = @ + 1]
        /\ pc' = [pc EXCEPT ![w] = "running"]
        /\ holding' = [holding EXCEPT ![w] = t]
        /\ UNCHANGED <<dependsOn, dependents, waitingOn, runAt, seqOf,
                       cancelRequested, deadLetters, outstanding, seq,
                       flagVars, timer, listening, closer, now>>

\* acquire: nothing to run; sleep on q.changed and on the head of the
\* delayed heap.
AcquireSleep(w) ==
    /\ pc[w] = "polling" /\ ~hardStopped
    /\ ready = {} /\ Due = {}
    /\ ~NothingLeft
    /\ pc' = [pc EXCEPT ![w] = "asleep"]
    /\ listening' = listening \cup {w}
    /\ \E at \in {runAt[d] : d \in delayed} \cup {Never} :
          /\ (at = Never) <=> (delayed = {})
          /\ \A d \in delayed : at <= runAt[d]
          /\ timer' = [timer EXCEPT ![w] = at]
    /\ UNCHANGED <<taskVars, heapVars, seq, flagVars, holding, closer, now>>

\* Fault: the timer of the delayed heap is not in the select.
SelectWithoutTimer(w) == w \notin listening \/ hardStopped

\* worker: one of the three channels of the select is readable.
SelectFires(w) == w \notin listening \/ timer[w] <= now \/ hardStopped

Wake(w) ==
    /\ pc[w] = "asleep" /\ SelectFires(w)
    /\ pc' = [pc EXCEPT ![w] = "polling"]
    /\ listening' = listening \ {w}
    /\ timer' = [timer EXCEPT ![w] = Never]
    /\ UNCHANGED <<taskVars, heapVars, seq, flagVars, holding, closer, now>>

Release(w) ==
    /\ pc[w] = "running"
    /\ pc' = [pc EXCEPT ![w] = "polling"]
    /\ holding' = [holding EXCEPT ![w] = None]

\* finish after a handler that returned no error.
FinishOk(w) ==
    /\ Release(w)
    /\ FinalizeSucceeded(holding[w])
    /\ UNCHANGED <<dependsOn, attempts, runAt, seqOf, cancelRequested, seq,
                   flagVars, timer, closer, now>>

\* Fault: one attempt too many.
GivesUpLate(t, permanent) == permanent \/ attempts[t] > MaxAttempts[t]

\* The attempt's error is not retried: it is the last one, or permanent.
GivesUp(t, permanent) == permanent \/ attempts[t] >= MaxAttempts[t]
Abandoned(t) == cancelRequested[t] \/ hardStopped

\* finish after an error that ends the task.
FinishFailed(w, permanent) ==
    LET t == holding[w]
    IN  /\ Release(w)
        /\ Abandoned(t) \/ GivesUp(t, permanent)
        /\ FinalizeUnsuccessful(t, IF Abandoned(t) THEN "Cancelled"
                                   ELSE "Failed")
        /\ UNCHANGED <<dependsOn, attempts, runAt, seqOf, cancelRequested,
                       seq, flagVars, timer, closer, now>>

\* finish after an error that is retried, backoff ticks from now.
FinishRetry(w, backoff) ==
    LET t == holding[w]
        at == now + backoff
    IN  /\ Release(w)
        /\ ~Abandoned(t) /\ ~GivesUp(t, FALSE)
        /\ at <= MaxTime
        /\ runAt' = [runAt EXCEPT ![t] = at]
        /\ status' = [status EXCEPT ![t] = EnqueuedStatus(at)]
        /\ ready' = IF Delays(at) THEN ready ELSE ready \cup {t}
        /\ delayed' = IF Delays(at) THEN delayed \cup {t} ELSE delayed
        /\ NotifyLocked
        /\ UNCHANGED <<dependsOn, dependents, waitingOn, attempts, seqOf,
                       cancelRequested, deadLetters, outstanding, seq,
                       flagVars, timer, closer, now>>
----------------------------------------------------------------------------
CancelQueued(t) ==
    /\ status[t] \in {"Blocked", "Scheduled", "Ready"}
    /\ FinalizeUnsuccessful(t, "Cancelled")
    /\ UNCHANGED <<dependsOn, attempts, runAt, seqOf, cancelRequested, seq,
                   flagVars, workVars, closer, now>>

\* Fault: a running task is finalized although a worker still executes it.
CancelRunningNow(t) ==
    /\ status[t] = "Running"
    /\ FinalizeUnsuccessful(t, "Cancelled")
    /\ UNCHANGED <<dependsOn, attempts, runAt, seqOf, cancelRequested, seq,
                   flagVars, workVars, closer, now>>

CancelRunning(t) ==
    /\ status[t] = "Running"
    /\ cancelRequested' = [cancelRequested EXCEPT ![t] = TRUE]
    /\ UNCHANGED <<status, dependsOn, dependents, waitingOn, attempts, runAt,
                   seqOf, heapVars, seq, flagVars, workVars, listening,
                   closer, now>>

\* Shutdown up to the wait for the workers.  When nobody started the queue
\* the lock is dropped around Start, hence the step in between.
ShutdownBegin(c) ==
    /\ closer[c] = "idle"
    /\ closing' = TRUE
    /\ \/ started /\ NotifyLocked
          /\ closer' = [closer EXCEPT ![c] = "draining"]
       \/ ~started /\ UNCHANGED listening
          /\ closer' = [closer EXCEPT ![c] = "starting"]
    /\ UNCHANGED <<taskVars, heapVars, seq, started, hardStopped, workVars,
                   now>>

ShutdownStart(c) ==
    /\ closer[c] = "starting"
    /\ LaunchWorkers
    /\ closer' = [closer EXCEPT ![c] = "notifying"]
    /\ UNCHANGED <<taskVars, heapVars, seq, closing, hardStopped, holding,
                   timer, listening, now>>

ShutdownNotify(c) ==
    /\ closer[c] = "notifying"
    /\ NotifyLocked
    /\ closer' = [closer EXCEPT ![c] = "draining"]
    /\ UNCHANGED <<taskVars, heapVars, seq, flagVars, workVars, now>>

Drained == \A w \in Worker : pc[w] = "exited"

\* q.wg.Wait returned before the deadline.
ShutdownDrained(c) ==
    /\ closer[c] = "draining" /\ Drained
    /\ closer' = [closer EXCEPT ![c] = "returned"]
    /\ UNCHANGED <<taskVars, heapVars, seq, flagVars, workVars, listening, now>>

\* The caller's context expired first.
ShutdownExpire(c) ==
    /\ closer[c] = "draining"
    /\ hardStopped' = TRUE
    /\ closer' = [closer EXCEPT ![c] = "stopping"]
    /\ UNCHANGED <<taskVars, heapVars, seq, started, closing, workVars,
                   listening, now>>

\* After the workers are gone, finalizeLocked(t, Cancelled) for every task.
ShutdownSweep(c) ==
    LET left == {t \in Submitted : ~Terminal(t)}
    IN  /\ closer[c] = "stopping" /\ Drained
        /\ status' = [t \in Task |-> IF t \in left THEN "Cancelled"
                                     ELSE status[t]]
        /\ dependents' = [t \in Task |-> IF t \in left THEN {}
                                         ELSE dependents[t]]
        /\ ready' = ready \ QueuedIn(left, "Ready")
        /\ delayed' = delayed \ QueuedIn(left, "Scheduled")
        /\ outstanding' = outstanding - Cardinality(left)
        /\ listening' = IF left = {} THEN listening ELSE {}
        /\ closer' = [closer EXCEPT ![c] = "returned"]
        /\ UNCHANGED <<dependsOn, waitingOn, attempts, runAt, seqOf,
                       cancelRequested, deadLetters, seq, flagVars, workVars,
                       now>>

Tick ==
    /\ now < MaxTime
    /\ now' = now + 1
    /\ UNCHANGED <<taskVars, heapVars, seq, flagVars, workVars, listening,
                   closer>>
----------------------------------------------------------------------------
Client ==
    \/ Start
    \/ SubmitIgnored
    \/ \E t \in Task, deps \in SUBSET Task, at \in 0..MaxTime :
          \/ SubmitAccepted(t, deps, at)
          \/ \E early \in SUBSET deps : SubmitDoomed(t, deps, at, early)
    \/ \E t \in Task : CancelQueued(t) \/ CancelRunning(t)
    \/ \E c \in Closer : ShutdownBegin(c) \/ ShutdownExpire(c)

WorkerStep(w) ==
    \/ AcquireExit(w)
    \/ \E t \in Task : AcquireTask(w, t)
    \/ AcquireSleep(w)
    \/ Wake(w)

HandlerReturns(w) ==
    \/ FinishOk(w)
    \/ \E permanent \in BOOLEAN : FinishFailed(w, permanent)
    \/ \E backoff \in 0..MaxTime : FinishRetry(w, backoff)

CloserStep(c) ==
    \/ ShutdownStart(c)
    \/ ShutdownNotify(c)
    \/ ShutdownDrained(c)
    \/ ShutdownSweep(c)

Next ==
    \/ Client
    \/ \E w \in Worker : WorkerStep(w) \/ HandlerReturns(w)
    \/ \E c \in Closer : CloserStep(c)
    \/ Tick

Spec == Init /\ [][Next]_vars

\* Goroutines are scheduled, handlers return (their contract with ctx), the
\* clock advances.  Clients owe nothing.
Fairness ==
    /\ \A w \in Worker : WF_vars(WorkerStep(w)) /\ WF_vars(HandlerReturns(w))
    /\ \A c \in Closer : WF_vars(CloserStep(c))
    /\ WF_vars(Tick)
----------------------------------------------------------------------------
\* The types of the queue's fields; in particular a task never starts more
\* attempts than its MaxAttempts, and neither counter goes below zero.
TypeOK ==
    /\ status \in [Task -> Status]
    /\ dependsOn \in [Task -> SUBSET Task]
    /\ dependents \in [Task -> SUBSET Task]
    /\ waitingOn \in [Task -> Nat]
    /\ attempts \in [Task -> Nat]
    /\ \A t \in Task : attempts[t] <= MaxAttempts[t]
    /\ runAt \in [Task -> 0..MaxTime]
    /\ seqOf \in [Task -> 0..MaxSubmit]
    /\ cancelRequested \in [Task -> BOOLEAN]
    /\ ready \subseteq Task /\ delayed \subseteq Task
    /\ deadLetters \subseteq Task
    /\ seq \in 0..MaxSubmit /\ outstanding \in Nat
    /\ started \in BOOLEAN /\ closing \in BOOLEAN /\ hardStopped \in BOOLEAN
    /\ pc \in [Worker -> {"new", "polling", "asleep", "running", "exited"}]
    /\ holding \in [Worker -> Task \cup {None}]
    /\ timer \in [Worker -> 0..Never]
    /\ listening \subseteq Worker
    /\ closer \in [Closer -> {"idle", "starting", "notifying", "draining",
                             "stopping", "returned"}]
    /\ now \in 0..MaxTime

\* Each task is where its status says: the two heaps hold exactly the READY
\* and the SCHEDULED tasks, and a RUNNING task is executed by one worker
\* only, so heap.Remove(t.heapIdx) in finalizeLocked never hits another task.
OnePlace ==
    /\ ready = {t \in Task : status[t] = "Ready"}
    /\ delayed = {t \in Task : status[t] = "Scheduled"}
    /\ \A w \in Worker : (pc[w] = "running") <=> (holding[w] # None)
    /\ \A t \in Task : status[t] = "Running" <=> \E w \in Worker : holding[w] = t
    /\ \A v, w \in Worker : holding[v] = holding[w] /\ holding[v] # None => v = w

\* waitingOn counts the dependents lists a live task is still on, so it
\* reaches zero exactly when the last dependency succeeds and a BLOCKED task
\* always has somebody left to unblock it.
WaitingExact ==
    \A t \in Task : status[t] \in Live =>
        /\ waitingOn[t] = Cardinality({d \in Task : t \in dependents[d]})
        /\ status[t] = "Blocked" <=> waitingOn[t] > 0

\* q.outstanding, which decides when workers may leave, is the number of
\* tasks that are not terminal, cascades and doomed submissions included.
OutstandingExact == outstanding = Cardinality({t \in Task : status[t] \in Live})

\* A task gets to a heap, to a worker or to a handler's verdict only after
\* all of its dependencies succeeded.
DependenciesFirst ==
    \A t \in Task : status[t] \in {"Scheduled", "Ready", "Running", "Succeeded",
                                   "Failed"} =>
        \A d \in dependsOn[t] : status[d] = "Succeeded"

\* No task survives a dependency that failed or was cancelled: the cascade
\* of finalizeLocked and the check in Submit leave none behind.
FailureCascades ==
    \A t \in Task : status[t] # "Absent"
                   /\ (\E d \in dependsOn[t] : status[d] \in {"Failed", "Cancelled"})
                   => status[t] = "Cancelled"

\* A worker that sleeps on the current q.changed missed nothing: whatever is
\* ready was promoted by another worker after this one's timer fired (a
\* promotion does not notify), its timer is not later than any delayed task,
\* and the queue is not ready to close.
NoLostWakeup ==
    \A w \in listening :
        /\ ready = {} \/ timer[w] <= now
        /\ \A d \in delayed : timer[w] <= runAt[d]
        /\ ~NothingLeft

Settled ==
    /\ \A t \in Task : status[t] \notin Live
    /\ \A w \in Worker : pc[w] = "exited"

\* When a call of Shutdown returned and no other is under way, every submitted
\* task is terminal and no worker is left, whether the calls drained the
\* queue, hit their deadline, or overlapped.
ShutdownSettles ==
    /\ \E c \in Closer : closer[c] = "returned"
    /\ \A c \in Closer : closer[c] \in {"idle", "returned"}
    => Settled

\* What the comment on Shutdown says of each call: it "waits for everything
\* already submitted (including delayed tasks and pending retries) to
\* finish", or marks the remaining tasks Cancelled, before it returns.
EachShutdownSettles ==
    (\E c \in Closer : closer[c] = "returned") => Settled

TerminalKept ==
    \A t \in Task : Terminal(t) => /\ status'[t] = status[t]
                                   /\ attempts'[t] = attempts[t]

\* A terminal status is final (Wait may read it at any later time), and an
\* attempt never starts after it.
TerminalStays == [][TerminalKept]_vars

\* The calls of Shutdown that have not returned.
ShuttingDown == {c \in Closer : closer[c] \notin {"idle", "returned"}}

\* The submitted tasks of a started queue that are not terminal.
Pending == {t \in Task : started /\ status[t] \in Live}

\* What the comment on Cancel says: a running task "is marked Cancelled when
\* the handler returns".
CancelledWhenRequested ==
    \A t \in Task : cancelRequested[t] /\ Terminal(t) => status[t] = "Cancelled"
=============================================================================
