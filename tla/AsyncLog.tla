------------------------------ MODULE AsyncLog ------------------------------
(***************************************************************************)
(* AsyncHandler of python-low-level-design/logging-framework: callers put  *)
(* records on a bounded queue, a worker thread hands them to the target,   *)
(* flush waits for the queue and close stops the worker.                   *)
(*                                                                         *)
(* The test of _closed, the filters and the put of handle are steps of     *)
(* their own, as no lock spans them.  What a record says, formatters and   *)
(* the filters' verdicts (a record either passes or is not modelled) are   *)
(* left out; the target swallows its own errors.                           *)
(***************************************************************************)
EXTENDS Integers, Sequences, SequencesExt, FiniteSets, FiniteSetsExt

CONSTANTS
    Record,         \* records, each logged once by a thread of its own
    Capacity,
    Block,          \* OverflowPolicy.BLOCK rather than DROP
    MayTimeOut,     \* the put's block_timeout and the join's timeout may pass
    None

VARIABLES
    caller,     \* handle, per record: "idle", "open" (past the test of _closed), then its fate
    queue, unfinished,          \* queue.Queue with its count of tasks
    worker,     \* what the worker holds: None, a record, "STOP", or "gone"
    closer,     \* close: "idle", "closed", "joining", "draining", "done"
    flusher,    \* flush: "idle", "joining", "done"
    targetOpen, delivered, dropped,
    late,       \* the join of close timed out
    ahead       \* records queued, or with the worker, when the stop marker was put

vars == <<caller, queue, unfinished, worker, closer, flusher, targetOpen, delivered, dropped, late, ahead>>

Stop == "STOP"
Closed == closer # "idle"

Init ==
    /\ caller = [r \in Record |-> "idle"] /\ queue = <<>> /\ unfinished = 0 /\ worker = None
    /\ closer = "idle" /\ flusher = "idle" /\ targetOpen = TRUE
    /\ delivered = <<>> /\ dropped = 0 /\ late = FALSE /\ ahead = {}
----------------------------------------------------------------------------
\* handle: a closed handler counts the record as dropped.
Handle(r) ==
    /\ caller[r] = "idle"
    /\ caller' = [caller EXCEPT ![r] = IF Closed THEN "dropped" ELSE "open"]
    /\ dropped' = dropped + IF Closed THEN 1 ELSE 0
    /\ UNCHANGED <<queue, unfinished, worker, closer, flusher, targetOpen, delivered, late, ahead>>

\* queue.put, put_nowait; nobody looks for what is put after close has found the
\* queue empty.
Put(r) ==
    /\ caller[r] = "open" /\ Len(queue) < Capacity
    /\ queue' = Append(queue, r) /\ unfinished' = unfinished + 1
    /\ caller' = [caller EXCEPT ![r] = IF closer = "done" THEN "behind" ELSE "put"]
    /\ UNCHANGED <<worker, closer, flusher, targetOpen, delivered, dropped, late, ahead>>

\* Fault: a full queue discards the record without a word.
OverflowSilent == dropped

\* _count_drop
Overflow == dropped + 1

PutFull(r) ==
    /\ caller[r] = "open" /\ Len(queue) = Capacity /\ (Block => MayTimeOut)
    /\ caller' = [caller EXCEPT ![r] = "dropped"] /\ dropped' = Overflow
    /\ UNCHANGED <<queue, unfinished, worker, closer, flusher, targetOpen, delivered, late, ahead>>

\* _run: get, then handle and task_done.
Get ==
    /\ worker = None /\ queue # <<>>
    /\ worker' = Head(queue) /\ queue' = Tail(queue)
    /\ UNCHANGED <<caller, unfinished, closer, flusher, targetOpen, delivered, dropped, late, ahead>>

\* A closed target ignores the record.
TargetHandle ==
    /\ worker \notin {None, "gone"}
    /\ delivered' = IF worker # Stop /\ targetOpen THEN Append(delivered, worker) ELSE delivered
    /\ worker' = IF worker = Stop THEN "gone" ELSE None
    /\ unfinished' = unfinished - 1
    /\ UNCHANGED <<caller, queue, closer, flusher, targetOpen, dropped, late, ahead>>
----------------------------------------------------------------------------
\* flush: waits for the queue if there is a worker.
FlushBegin ==
    /\ flusher = "idle" /\ flusher' = IF worker = "gone" THEN "done" ELSE "joining"
    /\ UNCHANGED <<caller, queue, unfinished, worker, closer, targetOpen, delivered, dropped, late, ahead>>
FlushEnd ==
    /\ flusher = "joining" /\ unfinished = 0 /\ flusher' = "done"
    /\ UNCHANGED <<caller, queue, unfinished, worker, closer, targetOpen, delivered, dropped, late, ahead>>

\* close: no more records, then the stop marker, whatever the policy.
CloseBegin ==
    /\ closer = "idle" /\ closer' = "closed"
    /\ UNCHANGED <<caller, queue, unfinished, worker, flusher, targetOpen, delivered, dropped, late, ahead>>

Stopped(q) == Append(q, Stop)

PutStop ==
    /\ closer = "closed" /\ Len(queue) < Capacity
    /\ queue' = Stopped(queue) /\ unfinished' = unfinished + 1 /\ closer' = "joining"
    /\ ahead' = {r \in Record : r \in ToSet(queue) \/ worker = r}
    /\ UNCHANGED <<caller, worker, flusher, targetOpen, delivered, dropped, late>>

Joined ==
    /\ closer = "joining" /\ (worker = "gone" \/ MayTimeOut)
    /\ closer' = "draining" /\ late' = (worker # "gone")
    /\ UNCHANGED <<caller, queue, unfinished, worker, flusher, targetOpen, delivered, dropped, ahead>>

\* One get_nowait; once the queue is empty the target is closed.
Drain ==
    /\ closer = "draining"
    /\ IF queue = <<>> THEN /\ closer' = "done" /\ targetOpen' = FALSE
                            /\ UNCHANGED <<caller, queue, unfinished, dropped>>
       ELSE /\ queue' = Tail(queue) /\ unfinished' = unfinished - 1 /\ dropped' = dropped + 1
            /\ caller' = IF Head(queue) = Stop THEN caller ELSE [caller EXCEPT ![Head(queue)] = "dropped"]
            /\ UNCHANGED <<closer, targetOpen>>
    /\ UNCHANGED <<worker, flusher, delivered, late, ahead>>

Next ==
    \/ \E r \in Record : Handle(r) \/ Put(r) \/ PutFull(r)
    \/ Get \/ TargetHandle \/ FlushBegin \/ FlushEnd
    \/ CloseBegin \/ PutStop \/ Joined \/ Drain

Spec == Init /\ [][Next]_vars

\* Every thread keeps running.
Fairness ==
    /\ \A r \in Record : WF_vars(Put(r)) /\ WF_vars(PutFull(r))
    /\ WF_vars(Get \/ TargetHandle) /\ WF_vars(FlushEnd) /\ WF_vars(PutStop) /\ WF_vars(Joined) /\ WF_vars(Drain)
----------------------------------------------------------------------------
TypeOK ==
    /\ caller \in [Record -> {"idle", "open", "put", "behind", "dropped"}]
    /\ Len(queue) <= Capacity /\ ToSet(queue) \subseteq Record \cup {Stop}
    /\ unfinished = Len(queue) + IF worker \in {None, "gone"} THEN 0 ELSE 1

Queued(r) == r \in ToSet(queue) \/ worker = r

\* handle, _run and close: what a caller put before close found the queue empty
\* for the last time is delivered once, or queued while somebody is left to take
\* it, or, once close has given up waiting, ignored by the closed target; what is
\* put behind that is never delivered nor counted.  The count of drops is the
\* records dropped, and the stop marker if close drained that too.
RecordsAccounted ==
    /\ IsInjective(delivered)
    /\ \A r \in ToSet(delivered) : caller[r] = "put" /\ ~Queued(r)
    /\ \A r \in Record : caller[r] = "put" /\ r \notin ToSet(delivered) =>
          late \/ (Queued(r) /\ closer # "done")
    /\ LET n == Cardinality({r \in Record : caller[r] = "dropped"})
       IN  dropped = n \/ (late /\ dropped = n + 1)

\* close: unless its wait timed out, all that was queued ahead of the stop
\* marker reaches the target, so only callers that raced with close lose theirs.
DrainedOnClose == closer \in {"draining", "done"} /\ ~late => ahead \subseteq ToSet(delivered)

\* The calls of handle, and the close, that have not returned.
Unreturned == {r \in Record : caller[r] = "open"} \union (IF Closed /\ closer # "done" THEN {"close"} ELSE {})
=============================================================================
