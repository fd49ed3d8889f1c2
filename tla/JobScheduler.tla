---------------------------- MODULE JobScheduler ----------------------------
(***************************************************************************)
(* JobScheduler of python-low-level-design/job-scheduling-system.  All its *)
(* state belongs to one event loop: worker coroutines take the best ready  *)
(* job, run it as a task of its own and settle it, a ticker fires the      *)
(* recurring schedule, and callers submit, cancel and stop in between.  A  *)
(* step is what happens between two awaits.                                *)
(*                                                                         *)
(* _dependents is the inverse of blocked.  Listeners, the history limit    *)
(* and the pools of the executor are left out: a thread that is abandoned  *)
(* never touches the scheduler.                                            *)
(***************************************************************************)
EXTENDS Naturals, Sequences, FiniteSets, FiniteSetsExt

CONSTANTS
    Job, DependsOn, Delay, Priority,    \* jobs callers may submit
    Instance, Interval,     \* the jobs a recurring schedule makes, in order
    Worker, MaxRetries, Backoff,        \* delays a RetryPolicy may draw
    Timeout, MayStop, MaxTime, None

VARIABLES
    status, attempts, runAt,
    seq,                    \* jobs in the order of their submission
    ready, delayed,         \* the two heaps
    blocked,                \* unmet dependencies
    worker,                 \* _worker: looking, waiting or on a job
    attempt,                \* the task of the attempt in flight
    cancelRequested, unfinished, idle, stopping,
    nextRun, fired, lastJob,    \* RecurringSchedule
    now

vars == <<status, attempts, runAt, seq, ready, delayed, blocked, worker, attempt,
          cancelRequested, unfinished, idle, stopping, nextRun, fired, lastJob, now>>

AllJobs == Job \cup {Instance[i] : i \in DOMAIN Instance}
Terminal == {"COMPLETED", "FAILED", "TIMED_OUT", "CANCELLED"}
Submitted == {seq[i] : i \in DOMAIN seq}
Looking == [step |-> "look", job |-> None, until |-> None]

Init ==
    /\ status = [j \in AllJobs |-> "new"] /\ attempts = [j \in AllJobs |-> 0]
    /\ runAt = [j \in AllJobs |-> 0] /\ seq = <<>> /\ ready = {} /\ delayed = {}
    /\ blocked = [j \in AllJobs |-> {}] /\ worker = [w \in Worker |-> Looking]
    /\ attempt = [j \in AllJobs |-> None] /\ cancelRequested = {}
    /\ unfinished = 0 /\ idle = TRUE /\ stopping = FALSE
    /\ nextRun = 0 /\ fired = 0 /\ lastJob = None /\ now = 0

schedule == <<nextRun, fired, lastJob>>
----------------------------------------------------------------------------
\* _work_available.set(): every waiting worker looks again.
Woken == [w \in Worker |-> IF worker[w].step = "wait" THEN Looking ELSE worker[w]]

\* _enqueue of a set of jobs.
Enqueue(jobs, at) ==
    /\ delayed' = delayed \cup {j \in jobs : at[j] > now}
    /\ ready' = ready \cup {j \in jobs : at[j] <= now}

\* Whom the failure of j cancels: its dependents, theirs and so on.
Downstream(j) ==
    LET waiting(S) == {k \in AllJobs : status[k] \notin Terminal /\ blocked[k] \cap S # {}}
        reach[n \in 0..Cardinality(AllJobs)] == IF n = 0 THEN waiting({j}) ELSE reach[n - 1] \cup waiting(reach[n - 1])
    IN  reach[Cardinality(AllJobs)]

\* _finish of j, with the cascade over its dependents.  count is the number
\* of unfinished jobs before.
Finish(j, new, count) ==
    LET down == IF new = "COMPLETED" THEN {} ELSE Downstream(j)
        freed == IF new = "COMPLETED"
                 THEN {k \in AllJobs : blocked[k] = {j} /\ status[k] \notin Terminal} ELSE {}
    IN  /\ status' = [k \in AllJobs |-> IF k = j THEN new ELSE IF k \in down THEN "CANCELLED" ELSE status[k]]
        /\ blocked' = [k \in AllJobs |-> IF k \in down \cup {j} THEN {} ELSE blocked[k] \ {j}]
        /\ cancelRequested' = cancelRequested \ (down \cup {j})
        /\ Enqueue(freed, runAt)
        /\ unfinished' = count - Cardinality(down \cup {j})
        /\ idle' = (unfinished' = 0)

\* submit: a job whose dependency ended badly is cancelled at once, one whose
\* dependencies are unmet is blocked, the others are queued.
SubmitAs(j, deps, delay) ==
    /\ ~stopping /\ status[j] = "new" /\ deps \subseteq Submitted
    /\ seq' = Append(seq, j) /\ runAt' = [runAt EXCEPT ![j] = Min({now + delay, MaxTime})]
    /\ LET failed == {d \in deps : status[d] \in Terminal \ {"COMPLETED"}}
           unmet == {d \in deps : status[d] # "COMPLETED"}
       IN  IF failed # {}
           THEN /\ status' = [status EXCEPT ![j] = "CANCELLED"]
                /\ idle' = (unfinished = 0)
                /\ UNCHANGED <<blocked, ready, delayed, worker, unfinished>>
           ELSE /\ status' = [status EXCEPT ![j] = "PENDING"]
                /\ unfinished' = unfinished + 1 /\ idle' = FALSE
                /\ blocked' = [blocked EXCEPT ![j] = unmet]
                /\ IF unmet = {} THEN Enqueue({j}, runAt') /\ worker' = Woken
                   ELSE UNCHANGED <<ready, delayed, worker>>
    /\ UNCHANGED <<attempts, attempt, cancelRequested, stopping, now>>

Submit(j) == j \in Job /\ SubmitAs(j, DependsOn[j], Delay[j]) /\ UNCHANGED schedule

\* cancel: a running job is left to its worker.
Cancel(j) ==
    /\ j \in Submitted /\ status[j] \notin Terminal
    /\ IF status[j] = "RUNNING"
       THEN /\ cancelRequested' = cancelRequested \cup {j}
            /\ attempt' = [attempt EXCEPT ![j] = IF @ = "running" THEN "cancelling" ELSE @]
            /\ UNCHANGED <<status, blocked, ready, delayed, unfinished, idle>>
       ELSE Finish(j, "CANCELLED", unfinished) /\ attempt' = attempt
    /\ UNCHANGED <<attempts, runAt, seq, worker, stopping, schedule, now>>

Stop(cancelRunning) ==
    /\ MayStop /\ ~stopping /\ stopping' = TRUE /\ worker' = Woken
    /\ LET hit == IF cancelRunning THEN {j \in AllJobs : attempt[j] # None} ELSE {}
       IN  /\ cancelRequested' = cancelRequested \cup {j \in hit : status[j] = "RUNNING"}
           /\ attempt' = [j \in AllJobs |-> IF j \in hit /\ attempt[j] = "running" THEN "cancelling" ELSE attempt[j]]
    /\ UNCHANGED <<status, attempts, runAt, seq, ready, delayed, blocked, unfinished, idle, schedule, now>>
----------------------------------------------------------------------------
\* Entries of cancelled jobs are skipped when they come up.
Alive(j) == status[j] \notin Terminal

Place(j) == CHOOSE i \in DOMAIN seq : seq[i] = j

\* PriorityStrategy: the highest priority, then the order of submission.
Best(jobs) ==
    CHOOSE j \in jobs : \A k \in jobs : \/ Priority[j] > Priority[k]
                                        \/ Priority[j] = Priority[k] /\ Place(j) <= Place(k)

\* _promote_due and _take_next; the attempt starts without an await.
TakeNext(w) ==
    LET due == {j \in delayed : runAt[j] <= now}
        runnable == {j \in ready \cup due : Alive(j)}
        j == Best(runnable)
    IN  /\ worker[w].step = "look" /\ ~stopping /\ runnable # {}
        /\ delayed' = delayed \ due
        \* Dead entries before j are popped, the ones behind it stay.
        /\ ready' = {k \in (ready \cup due) \ {j} : Alive(k) \/ (k \in ready /\ Best({j, k}) = j)}
        /\ status' = [status EXCEPT ![j] = "RUNNING"] /\ attempts' = [attempts EXCEPT ![j] = @ + 1]
        /\ attempt' = [attempt EXCEPT ![j] = "running"]
        /\ worker' = [worker EXCEPT ![w] = [step |-> "run", job |-> j, until |-> now + Timeout]]
        /\ UNCHANGED <<runAt, seq, blocked, cancelRequested, unfinished, idle, stopping, schedule, now>>

\* Fault: a worker that finds nothing ready waits for the event alone.
NextWakeupNever(left) == None

\* _next_wakeup_in.
NextWakeup(left) == IF left = {} THEN None ELSE Min({runAt[j] : j \in left})

NothingToDo(w) ==
    LET due == {j \in delayed : runAt[j] <= now}
    IN  /\ worker[w].step = "look" /\ ~stopping /\ {j \in ready \cup due : Alive(j)} = {}
        /\ delayed' = delayed \ due /\ ready' = {}
        /\ worker' = [worker EXCEPT ![w] =
                         [step |-> "wait", job |-> None, until |-> NextWakeup(delayed \ due)]]
        /\ UNCHANGED <<status, attempts, runAt, seq, blocked, attempt, cancelRequested,
                       unfinished, idle, stopping, schedule, now>>

\* A worker that sees _stopping leaves without looking at the heaps.
Leave(w) ==
    /\ worker[w].step = "look" /\ stopping
    /\ worker' = [worker EXCEPT ![w] = [Looking EXCEPT !.step = "gone"]]
    /\ UNCHANGED <<status, attempts, runAt, seq, ready, delayed, blocked, attempt, cancelRequested,
                   unfinished, idle, stopping, schedule, now>>

WakeUp(w) ==
    /\ worker[w].step = "wait" /\ worker[w].until # None /\ worker[w].until <= now
    /\ worker' = [worker EXCEPT ![w] = Looking]
    /\ UNCHANGED <<status, attempts, runAt, seq, ready, delayed, blocked, attempt, cancelRequested,
                   unfinished, idle, stopping, schedule, now>>

\* The job itself: a result, an error, an error that is not worth a retry, or
\* the cancellation it was asked for.
AttemptEnds(j, how) ==
    /\ attempt[j] \in {"running", "cancelling"} /\ (how = "cancelled" => attempt[j] = "cancelling")
    /\ attempt' = [attempt EXCEPT ![j] = how]
    /\ UNCHANGED <<status, attempts, runAt, seq, ready, delayed, blocked, worker, cancelRequested,
                   unfinished, idle, stopping, schedule, now>>

\* asyncio.wait ran out of time; the worker still awaits the cancelled task.
TimeOut(w) ==
    /\ worker[w].step = "run" /\ worker[w].until <= now
    /\ attempt[worker[w].job] \in {"running", "cancelling"}
    /\ attempt' = [attempt EXCEPT ![worker[w].job] = "cancelling"]
    /\ worker' = [worker EXCEPT ![w].step = "timedout"]
    /\ UNCHANGED <<status, attempts, runAt, seq, ready, delayed, blocked, cancelRequested,
                   unfinished, idle, stopping, schedule, now>>

RetriesLeft(j) == attempts[j] <= MaxRetries

\* The end of _run_attempt, and _after_failure.
Settle(w) ==
    LET j == worker[w].job
        late == worker[w].step = "timedout"
        woken == IF j \in cancelRequested \/ (~late /\ attempt[j] = "cancelled") THEN "CANCELLED"
                 ELSE IF ~late /\ attempt[j] = "ok" THEN "COMPLETED"
                 ELSE IF (late \/ attempt[j] = "error") /\ RetriesLeft(j) /\ ~stopping THEN "RETRY_WAIT"
                 ELSE IF late THEN "TIMED_OUT" ELSE "FAILED"
    IN  /\ worker[w].step \in {"run", "timedout"} /\ attempt[j] \notin {"running", "cancelling"}
        /\ attempt' = [attempt EXCEPT ![j] = None]
        /\ IF woken = "RETRY_WAIT"
           THEN \E delay \in Backoff :
                   /\ runAt' = [runAt EXCEPT ![j] = Min({now + delay, MaxTime})]
                   /\ status' = [status EXCEPT ![j] = woken] /\ Enqueue({j}, runAt')
                   /\ worker' = [Woken EXCEPT ![w] = Looking]
                   /\ UNCHANGED <<blocked, cancelRequested, unfinished, idle>>
           ELSE /\ Finish(j, woken, unfinished) /\ runAt' = runAt
                /\ worker' = [(IF ready' = ready /\ delayed' = delayed THEN worker ELSE Woken)
                                 EXCEPT ![w] = Looking]
        /\ UNCHANGED <<attempts, seq, stopping, schedule, now>>
----------------------------------------------------------------------------
\* RecurringSchedule.advance: the next slot of the grid that is not past.
Advance(at) == nextRun + Max({((at - nextRun) \div Interval) + 1, 1}) * Interval

PreviousDone == lastJob = None \/ status[lastJob] \in Terminal

\* _fire: skipped while the previous instance is unfinished.
Fire ==
    /\ ~stopping /\ Len(Instance) > 0 /\ nextRun <= now /\ nextRun' = Advance(now)
    /\ IF PreviousDone
       THEN /\ fired < Len(Instance) /\ fired' = fired + 1 /\ lastJob' = Instance[fired + 1]
            /\ SubmitAs(Instance[fired + 1], {}, 0)
       ELSE UNCHANGED <<status, attempts, runAt, seq, ready, delayed, blocked, worker, attempt,
                        cancelRequested, unfinished, idle, stopping, fired, lastJob, now>>

Tick ==
    /\ now < MaxTime /\ now' = now + 1
    /\ UNCHANGED <<status, attempts, runAt, seq, ready, delayed, blocked, worker, attempt,
                   cancelRequested, unfinished, idle, stopping, schedule>>

Ends(j) == \E how \in {"ok", "error", "fatal", "cancelled"} : AttemptEnds(j, how)
Work(w) == TakeNext(w) \/ NothingToDo(w) \/ Leave(w) \/ WakeUp(w) \/ Settle(w)

Next ==
    \/ \E j \in AllJobs : Submit(j) \/ Cancel(j) \/ Ends(j)
    \/ \E w \in Worker : Work(w) \/ TimeOut(w)
    \/ \E c \in BOOLEAN : Stop(c)
    \/ Fire \/ Tick

Spec == Init /\ [][Next]_vars

\* The event loop runs what is due, and attempts end.
Fairness == /\ \A w \in Worker : WF_vars(Work(w))
            /\ \A j \in AllJobs : WF_vars(Ends(j))
            /\ WF_vars(Tick)
----------------------------------------------------------------------------
TypeOK ==
    /\ status \in [AllJobs -> Terminal \cup {"new", "PENDING", "RUNNING", "RETRY_WAIT"}]
    /\ ready \cup delayed \cup cancelRequested \subseteq Submitted
    /\ \A w \in Worker : worker[w].step \in {"look", "wait", "run", "timedout", "gone"}
    /\ \A j \in AllJobs : attempts[j] <= MaxRetries + 1

\* _enqueue, _take_next, _finish: an unfinished job is in exactly one place
\* (blocked on something that can still finish, in one heap, or with one
\* worker), and the counter behind join() is the number of unfinished jobs.
EveryJobSomewhere ==
    LET alive == {j \in Submitted : status[j] \notin Terminal}
    IN  /\ \A j \in alive :
              Cardinality({w \in Worker : worker[w].job = j})
                + (IF j \in ready THEN 1 ELSE 0) + (IF j \in delayed THEN 1 ELSE 0)
                + (IF blocked[j] # {} THEN 1 ELSE 0) = 1
        /\ \A j \in alive : /\ blocked[j] \subseteq alive
                            /\ (status[j] = "RUNNING") = (\E w \in Worker : worker[w].job = j)
        /\ unfinished = Cardinality(alive) /\ idle = (alive = {})

\* submit and _finish: a job runs only after all it depends on has completed,
\* and is cancelled when any of it ended otherwise.
DependenciesHold ==
    \A j \in Job \cap Submitted :
        /\ attempts[j] > 0 => \A d \in DependsOn[j] : status[d] = "COMPLETED"
        /\ (\E d \in DependsOn[j] : status[d] \in Terminal \ {"COMPLETED"}) => status[j] = "CANCELLED"

\* RecurringSchedule: instances never overlap, and the slots stay on the grid
\* of the first one, however late a tick comes.
RecurringExact ==
    /\ Cardinality({j \in AllJobs \ Job : status[j] \notin Terminal \cup {"new"}}) <= 1
    /\ nextRun % Interval = 0

\* The jobs that a scheduler nobody stopped has still to bring to an end.
Unended == {j \in Submitted : status[j] \notin Terminal /\ ~stopping}
=============================================================================
