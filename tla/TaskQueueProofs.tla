-------------------------- MODULE TaskQueueProofs --------------------------
(***************************************************************************)
(* The safety properties of TaskQueue, for any number of tasks, workers    *)
(* and callers of Shutdown.                                                *)
(***************************************************************************)
EXTENDS TaskQueue, FiniteSetTheorems, TLAPS

\* The types of the queue's fields without the bounds that only the counters'
\* invariants give, and two facts about workers: the ones in run hold a task,
\* and none has been launched before Start.
Shape ==
    /\ status \in [Task -> Status]
    /\ dependsOn \in [Task -> SUBSET Task]
    /\ dependents \in [Task -> SUBSET Task]
    /\ waitingOn \in [Task -> Int]
    /\ attempts \in [Task -> Nat]
    /\ runAt \in [Task -> 0..MaxTime]
    /\ seqOf \in [Task -> 0..MaxSubmit]
    /\ cancelRequested \in [Task -> BOOLEAN]
    /\ ready \in SUBSET Task /\ delayed \in SUBSET Task
    /\ deadLetters \in SUBSET Task
    /\ seq \in 0..MaxSubmit /\ outstanding \in Int
    /\ started \in BOOLEAN /\ closing \in BOOLEAN /\ hardStopped \in BOOLEAN
    /\ pc \in [Worker -> {"new", "polling", "asleep", "running", "exited"}]
    /\ holding \in [Worker -> Task \cup {None}]
    /\ \A w \in Worker : (pc[w] = "running") <=> (holding[w] # None)
    /\ ~started => \A w \in Worker : pc[w] = "new"
    /\ timer \in [Worker -> 0..Never]
    /\ listening \in SUBSET Worker
    /\ closer \in [Closer -> {"idle", "starting", "notifying", "draining",
                             "stopping", "returned"}]
    /\ now \in 0..MaxTime

\* A set of tasks is finite, so the counters that stand for its size are
\* natural numbers.
LEMMA CardinalityOfTasks ==
    \A S \in SUBSET Task : IsFiniteSet(S) /\ Cardinality(S) \in Nat
  BY TaskAssumption, FS_Subset, FS_CardinalityType

\* What the recursion of finalizeLocked reaches from t: it contains t, is
\* closed under the dependents that are not terminal, and is the least such
\* set.
LEMMA CascadeFacts ==
    ASSUME Shape, NEW t \in Task
    PROVE  /\ Cascade(t) \in SUBSET Task
           /\ t \in Cascade(t)
           /\ \A a \in Cascade(t) : \A b \in dependents[a] :
                 ~Terminal(b) => b \in Cascade(t)
           /\ \A S \in SUBSET Task :
                 (/\ t \in S
                  /\ \A a \in S : \A b \in dependents[a] : ~Terminal(b) => b \in S)
                 => Cascade(t) \subseteq S
  BY DEF Cascade, Shape

\* Every critical section keeps the types of the queue's fields.
LEMMA ShapeStep == Shape /\ [Next]_vars => Shape'
<1> SUFFICES ASSUME Shape, [Next]_vars PROVE Shape'
  OBVIOUS
<1> USE BoundAssumption, TaskAssumption DEF Shape, taskVars, heapVars, flagVars, workVars,
        Status, Live, Final, Never, EnqueuedStatus, NotifyLocked
<1>1. ASSUME Start PROVE Shape'
  BY <1>1 DEF Start, LaunchWorkers
<1>2. ASSUME SubmitIgnored PROVE Shape'
  BY <1>2 DEF SubmitIgnored
<1>3. ASSUME NEW t \in Task, NEW deps \in SUBSET Task, NEW at \in 0..MaxTime,
             SubmitAccepted(t, deps, at)
      PROVE  Shape'
  <2>1. Cardinality({d \in deps : ~Terminal(d)}) \in Nat
    BY CardinalityOfTasks
  <2>2. QED BY <1>3, <2>1 DEF SubmitAccepted
<1>4. ASSUME NEW t \in Task, NEW deps \in SUBSET Task, NEW at \in 0..MaxTime,
             NEW early \in SUBSET deps, SubmitDoomed(t, deps, at, early)
      PROVE  Shape'
  <2>1. Cardinality(early) \in Nat
    BY CardinalityOfTasks
  <2>2. QED BY <1>4, <2>1 DEF SubmitDoomed
<1>5. ASSUME NEW t \in Task, NEW st \in Final, FinalizeUnsuccessful(t, st),
             UNCHANGED <<dependsOn, attempts, runAt, seqOf, seq, flagVars, timer, closer, now>>,
             pc' \in [Worker -> {"new", "polling", "asleep", "running", "exited"}],
             holding' \in [Worker -> Task \cup {None}],
             \A w \in Worker : (pc'[w] = "running") <=> (holding'[w] # None),
             ~started => \A w \in Worker : pc'[w] = "new",
             cancelRequested' = cancelRequested
      PROVE  Shape'
  <2>1. Cardinality(Cascade(t)) \in Nat
    BY CascadeFacts, CardinalityOfTasks
  <2>2. QED BY <1>5, <2>1 DEF FinalizeUnsuccessful
<1>6. ASSUME NEW t \in Task, CancelQueued(t) PROVE Shape'
  BY <1>5, <1>6 DEF CancelQueued
<1>7. ASSUME NEW t \in Task, CancelRunning(t) PROVE Shape'
  BY <1>7 DEF CancelRunning
<1>8. ASSUME NEW c \in Closer, ShutdownBegin(c) \/ ShutdownExpire(c) PROVE Shape'
  BY <1>8 DEF ShutdownBegin, ShutdownExpire
<1>9. ASSUME NEW w \in Worker, AcquireExit(w) PROVE Shape'
  BY <1>9 DEF AcquireExit
<1>10. ASSUME NEW w \in Worker, NEW t \in Task, AcquireTask(w, t) PROVE Shape'
  BY <1>10 DEF AcquireTask, Due
<1>11. ASSUME NEW w \in Worker, AcquireSleep(w) PROVE Shape'
  BY <1>11 DEF AcquireSleep
<1>12. ASSUME NEW w \in Worker, Wake(w) PROVE Shape'
  BY <1>12 DEF Wake
<1>13. ASSUME NEW w \in Worker, FinishOk(w) PROVE Shape'
  BY <1>13 DEF FinishOk, Release, FinalizeSucceeded, Freed
<1>14. ASSUME NEW w \in Worker, NEW permanent \in BOOLEAN, FinishFailed(w, permanent)
       PROVE  Shape'
  BY <1>5, <1>14 DEF FinishFailed, Release
<1>15. ASSUME NEW w \in Worker, NEW backoff \in 0..MaxTime, FinishRetry(w, backoff)
       PROVE  Shape'
  BY <1>15 DEF FinishRetry, Release
<1>16. ASSUME NEW c \in Closer, CloserStep(c) PROVE Shape'
  <2>1. CASE ShutdownStart(c)
    BY <2>1 DEF ShutdownStart, LaunchWorkers
  <2>2. CASE ShutdownNotify(c) \/ ShutdownDrained(c)
    BY <2>2 DEF ShutdownNotify, ShutdownDrained
  <2>3. CASE ShutdownSweep(c)
    <3>1. Cardinality({t \in Submitted : ~Terminal(t)}) \in Nat
      BY CardinalityOfTasks DEF Submitted
    <3>2. QED BY <2>3, <3>1 DEF ShutdownSweep, Submitted
  <2>4. QED BY <1>16, <2>1, <2>2, <2>3 DEF CloserStep
<1>17. ASSUME Tick PROVE Shape'
  BY <1>17 DEF Tick
<1>18. ASSUME UNCHANGED vars PROVE Shape'
  BY <1>18 DEF vars
<1>19. CASE Client
  BY <1>1, <1>2, <1>3, <1>4, <1>6, <1>7, <1>8, <1>19 DEF Client
<1>20. ASSUME NEW w \in Worker, WorkerStep(w) PROVE Shape'
  BY <1>9, <1>10, <1>11, <1>12, <1>20 DEF WorkerStep
<1>21. ASSUME NEW w \in Worker, HandlerReturns(w) PROVE Shape'
  BY <1>13, <1>14, <1>15, <1>21 DEF HandlerReturns
<1> QED
  BY <1>16, <1>17, <1>18, <1>19, <1>20, <1>21 DEF Next

\* The tasks on whose dependents lists t still is.
Awaited(t) == {d \in Task : t \in dependents[d]}

\* The dependency graph as the dependents lists record it: a list belongs to
\* a live task and names tasks that declared the dependency; a live task is
\* on the list of every dependency that has not succeeded; and a task with a
\* handler's verdict had all of its dependencies succeed.
Edges ==
    /\ \A d \in Task : \A t \in dependents[d] :
          /\ d \in dependsOn[t] /\ status[d] \in Live
          /\ status[t] \in {"Blocked", "Cancelled"}
    /\ \A t \in Task : status[t] \in Live =>
          \A d \in dependsOn[t] : status[d] = "Succeeded" \/ t \in dependents[d]
    /\ \A t \in Task : status[t] \in {"Succeeded", "Failed"} =>
          \A d \in dependsOn[t] : status[d] = "Succeeded"
    /\ \A t \in Task : status[t] = "Blocked" => Awaited(t) # {}

\* waitingOn of a live task is the number of lists it is on.
Counts == \A t \in Task : status[t] \in Live => waitingOn[t] = Cardinality(Awaited(t))

\* The inductive invariant behind placement, counting, dependency order and
\* cascades.
Graph == Shape /\ OnePlace /\ Edges /\ Counts

\* A task that was not submitted is on no dependents list and has none.
LEMMA AbsentOnNoList ==
    ASSUME Graph, NEW t \in Task, status[t] = "Absent"
    PROVE  \A d \in Task : \A u \in dependents[d] : u \in Task /\ u # t /\ d # t
<1> SUFFICES ASSUME NEW d \in Task, NEW u \in dependents[d] PROVE u \in Task /\ u # t /\ d # t
  OBVIOUS
<1>1. status[d] \in Live /\ status[u] \in {"Blocked", "Cancelled"}
  BY DEF Graph, Edges
<1>2. u \in Task
  BY DEF Graph, Shape
<1> QED BY <1>1, <1>2 DEF Live

\* Besides t itself finalizeLocked only reaches BLOCKED tasks: a task in a
\* heap or with a worker is on no dependents list.
LEMMA CascadeBlocked ==
    ASSUME Graph, NEW t \in Task
    PROVE  \A u \in Cascade(t) : u # t => status[u] = "Blocked"
<1> DEFINE S == {t} \cup {u \in Task : status[u] = "Blocked"}
<1>1. \A a \in S : \A b \in dependents[a] : ~Terminal(b) => b \in S
  BY DEF Graph, Edges, Shape, Terminal, Final
<1>2. S \in SUBSET Task /\ t \in S
  OBVIOUS
<1> HIDE DEF S
<1>3. Cascade(t) \subseteq S
  BY <1>1, <1>2, CascadeFacts DEF Graph
<1> QED BY <1>3 DEF S

\* finalizeLocked with FAILED or CANCELLED, cascade included, keeps the graph
\* consistent.
LEMMA UnsuccessfulGraph ==
    ASSUME Graph, Shape', NEW t \in Task, NEW st \in {"Failed", "Cancelled"},
           FinalizeUnsuccessful(t, st), dependsOn' = dependsOn, status[t] \in Live,
           \A w \in Worker : holding'[w] = IF holding[w] = t THEN None ELSE holding[w],
           st = "Failed" => status[t] = "Running"
    PROVE  Graph'
<1> DEFINE C == Cascade(t)
<1>0. /\ C \subseteq Task /\ t \in C
      /\ \A a \in C : \A b \in dependents[a] : ~Terminal(b) => b \in C
  BY CascadeFacts DEF Graph
<1>1. \A u \in C : u # t => status[u] = "Blocked"
  BY CascadeBlocked
<1>2. /\ \A u \in Task : status'[u] = IF u = t THEN st ELSE IF u \in C THEN "Cancelled" ELSE status[u]
      /\ \A u \in Task : dependents'[u] = IF u \in C THEN {} ELSE dependents[u]
      /\ ready' = ready \ QueuedIn(C, "Ready")
      /\ delayed' = delayed \ QueuedIn(C, "Scheduled")
      /\ waitingOn' = waitingOn
  BY DEF FinalizeUnsuccessful
<1> HIDE DEF C
<1>3. OnePlace'
  <2>1. ready' = {u \in Task : status'[u] = "Ready"}
    BY <1>0, <1>2 DEF Graph, OnePlace, QueuedIn
  <2>2. delayed' = {u \in Task : status'[u] = "Scheduled"}
    BY <1>0, <1>2 DEF Graph, OnePlace, QueuedIn
  <2>3. \A u \in Task : status'[u] = "Running" <=> \E w \in Worker : holding'[w] = u
    <3> TAKE u \in Task
    <3>1. status[u] = "Running" <=> \E w \in Worker : holding[w] = u
      BY DEF Graph, OnePlace
    <3>2. CASE u = t
      BY <3>2, <1>2, TaskAssumption
    <3>3. CASE u # t
      BY <3>1, <3>3, <1>1, <1>2, TaskAssumption
    <3> QED BY <3>2, <3>3
  <2>4. QED BY <2>1, <2>2, <2>3 DEF Graph, OnePlace, Shape
<1>4. Edges'
  <2>1. \A u \in Task : status'[u] \in Live => u \notin C /\ status'[u] = status[u]
    BY <1>0, <1>2 DEF Live
  <2>2. \A u \in Task : status'[u] \in Live => Awaited(u)' = Awaited(u)
    BY <2>1, <1>0, <1>2 DEF Awaited, Terminal, Live, Final
  <2>3. \A d \in Task : \A u \in dependents'[d] :
          /\ d \in dependsOn'[u] /\ status'[d] \in Live
          /\ status'[u] \in {"Blocked", "Cancelled"}
    <3> SUFFICES ASSUME NEW d \in Task, NEW u \in dependents'[d]
                 PROVE  /\ d \in dependsOn'[u] /\ status'[d] \in Live
                        /\ status'[u] \in {"Blocked", "Cancelled"}
      OBVIOUS
    <3>1. d \notin C /\ d # t /\ u \in dependents[d]
      BY <1>0, <1>2
    <3>2. u \in Task /\ d \in dependsOn[u] /\ status[d] \in Live
          /\ status[u] \in {"Blocked", "Cancelled"}
      BY <3>1 DEF Graph, Edges, Shape
    <3> QED BY <3>1, <3>2, <1>2
  <2>4. \A u \in Task : status'[u] \in Live =>
          \A d \in dependsOn'[u] : status'[d] = "Succeeded" \/ u \in dependents'[d]
    <3> SUFFICES ASSUME NEW u \in Task, status'[u] \in Live, NEW d \in dependsOn[u],
                        status[d] # "Succeeded"
                 PROVE  u \in dependents'[d]
      BY <1>0, <1>1, <1>2, <2>1, SMTT(60) DEF Graph, Edges, Shape, Live, Terminal, Final
    <3>1. d \in Task /\ u \in dependents[d] /\ u \notin C /\ status[u] \in Live
      BY <2>1 DEF Graph, Edges, Shape
    <3> QED BY <3>1, <1>0, <1>2 DEF Terminal, Live, Final
  <2>5. \A u \in Task : status'[u] \in {"Succeeded", "Failed"} =>
          \A d \in dependsOn'[u] : status'[d] = "Succeeded"
    <3> SUFFICES ASSUME NEW u \in Task, status'[u] \in {"Succeeded", "Failed"},
                        NEW d \in dependsOn[u]
                 PROVE  status'[d] = "Succeeded"
      OBVIOUS
    <3>1. d \in Task
      BY DEF Graph, Shape
    <3>2. status[d] = "Succeeded"
      <4>1. CASE u = t
        <5>1. status[t] = "Running" /\ st = "Failed"
          BY <4>1, <1>2
        <5>2. status[d] = "Succeeded" \/ t \in dependents[d]
          BY <4>1, <5>1 DEF Graph, Edges, Live
        <5> QED BY <3>1, <5>1, <5>2 DEF Graph, Edges
      <4>2. CASE u # t
        BY <4>2, <1>2 DEF Graph, Edges
      <4> QED BY <4>1, <4>2
    <3> QED BY <3>1, <3>2, <1>1, <1>2 DEF Live
  <2>6. \A u \in Task : status'[u] = "Blocked" => Awaited(u)' # {}
    BY <2>1, <2>2 DEF Graph, Edges, Live
  <2>7. QED BY <2>3, <2>4, <2>5, <2>6 DEF Edges
<1>5. Counts'
  <2>1. \A u \in Task : status'[u] \in Live => Awaited(u)' = Awaited(u) /\ status[u] \in Live
    BY <1>0, <1>2 DEF Awaited, Terminal, Live, Final
  <2>2. QED BY <2>1, <1>2 DEF Graph, Counts
<1> QED BY <1>3, <1>4, <1>5 DEF Graph

\* finalizeLocked with SUCCEEDED takes t off every waiting list and enqueues
\* exactly the dependents for which it was the last one.
LEMMA SucceededGraph ==
    ASSUME Graph, Shape', NEW t \in Task, status[t] = "Running",
           FinalizeSucceeded(t), dependsOn' = dependsOn,
           \A w \in Worker : holding'[w] = IF holding[w] = t THEN None ELSE holding[w]
    PROVE  Graph'
<1> DEFINE told == {d \in dependents[t] : ~Terminal(d)}
           free == Freed(told)
<1>1. \A u \in told : u \in Task /\ u # t /\ status[u] = "Blocked" /\ t \in Awaited(u)
  BY DEF Graph, Edges, Shape, Terminal, Final, Awaited
<1>2. /\ \A u \in Task : status'[u] = IF u = t THEN "Succeeded"
                                     ELSE IF u \in free THEN EnqueuedStatus(runAt[u])
                                     ELSE status[u]
      /\ \A u \in Task : waitingOn'[u] = IF u \in told THEN waitingOn[u] - 1 ELSE waitingOn[u]
      /\ \A u \in Task : dependents'[u] = IF u = t THEN {} ELSE dependents[u]
      /\ ready' = ready \cup {d \in free : ~Delays(runAt[d])}
      /\ delayed' = delayed \cup {d \in free : Delays(runAt[d])}
  BY DEF FinalizeSucceeded, Graph, Shape
<1>3. free = {u \in told : waitingOn[u] = 1}
  BY DEF Freed
<1>4. \A u \in Task : status'[u] \in Live => u # t /\ status[u] \in Live
  BY <1>1, <1>2, <1>3 DEF Live
<1>5. \A u \in Task : u \in told <=> (t \in Awaited(u) /\ status[u] \in Live)
  BY <1>1 DEF Awaited, Terminal, Graph, Edges, Live, Final
<1> HIDE DEF told, free
<1>6. \A u \in Task : Awaited(u)' = Awaited(u) \ {t}
  BY <1>2 DEF Awaited
<1>7. \A u \in told : /\ waitingOn'[u] = Cardinality(Awaited(u)')
                      /\ waitingOn[u] = 1 <=> Awaited(u)' = {}
  <2> SUFFICES ASSUME NEW u \in told
               PROVE  /\ waitingOn'[u] = Cardinality(Awaited(u)')
                      /\ waitingOn[u] = 1 <=> Awaited(u)' = {}
    OBVIOUS
  <2>1. IsFiniteSet(Awaited(u)) /\ Awaited(u) \subseteq Task
    BY CardinalityOfTasks DEF Awaited
  <2>2. Cardinality(Awaited(u) \ {t}) = Cardinality(Awaited(u)) - 1
    BY <1>1, <2>1, FS_RemoveElement
  <2>3. waitingOn[u] = Cardinality(Awaited(u))
    BY <1>1 DEF Graph, Counts, Live
  <2>4. Cardinality(Awaited(u)) \in Nat /\ IsFiniteSet(Awaited(u) \ {t})
    BY <2>1, CardinalityOfTasks
  <2>5. Cardinality(Awaited(u) \ {t}) = 0 <=> Awaited(u) \ {t} = {}
    BY <2>4, FS_EmptySet
  <2>6. Awaited(u)' = Awaited(u) \ {t} /\ waitingOn'[u] = waitingOn[u] - 1
    BY <1>1, <1>2, <1>6
  <2>7. waitingOn[u] = 1 <=> Awaited(u) \ {t} = {}
    BY <2>2, <2>3, <2>4, <2>5
  <2>8. waitingOn'[u] = Cardinality(Awaited(u) \ {t})
    BY <2>2, <2>3, <2>6
  <2> QED BY <2>6, <2>7, <2>8
<1>8. \A u \in Task : status'[u] \in Live /\ u \notin told =>
         Awaited(u)' = Awaited(u) /\ waitingOn'[u] = waitingOn[u] /\ status'[u] = status[u]
  BY <1>2, <1>3, <1>4, <1>5, <1>6
<1>9. OnePlace'
  <2>1. \A u \in Task : status'[u] = "Ready" <=> (status[u] = "Ready" \/ (u \in free /\ ~Delays(runAt[u])))
    BY <1>1, <1>2, <1>3 DEF EnqueuedStatus
  <2>2. \A u \in Task : status'[u] = "Scheduled" <=> (status[u] = "Scheduled" \/ (u \in free /\ Delays(runAt[u])))
    BY <1>1, <1>2, <1>3 DEF EnqueuedStatus
  <2>3. \A u \in Task : status'[u] = "Running" <=> (status[u] = "Running" /\ u # t)
    BY <1>1, <1>2, <1>3 DEF EnqueuedStatus
  <2>4. ready' = {u \in Task : status'[u] = "Ready"} /\ delayed' = {u \in Task : status'[u] = "Scheduled"}
    BY <1>1, <1>2, <1>3, <2>1, <2>2 DEF Graph, OnePlace
  <2>5. \A u \in Task : status'[u] = "Running" <=> \E w \in Worker : holding'[w] = u
    <3> TAKE u \in Task
    <3>1. status[u] = "Running" <=> \E w \in Worker : holding[w] = u
      BY DEF Graph, OnePlace
    <3>2. CASE u = t
      BY <2>3, <3>2, TaskAssumption
    <3>3. CASE u # t
      BY <2>3, <3>1, <3>3, TaskAssumption
    <3> QED BY <3>2, <3>3
  <2> QED BY <2>4, <2>5 DEF Graph, OnePlace, Shape
<1>10. Edges'
  <2>1. \A d \in Task : \A u \in dependents'[d] :
          /\ d \in dependsOn'[u] /\ status'[d] \in Live
          /\ status'[u] \in {"Blocked", "Cancelled"}
    <3> SUFFICES ASSUME NEW d \in Task, NEW u \in dependents'[d]
                 PROVE  /\ d \in dependsOn'[u] /\ status'[d] \in Live
                        /\ status'[u] \in {"Blocked", "Cancelled"}
      OBVIOUS
    <3>1. d # t /\ u \in dependents[d] /\ u \in Task
      BY <1>2 DEF Graph, Shape
    <3>2. d \in dependsOn[u] /\ status[d] \in Live /\ status[u] \in {"Blocked", "Cancelled"}
      BY <3>1 DEF Graph, Edges
    <3>3. u \notin free
      BY <1>3, <1>6, <1>7, <1>2, <3>1 DEF Awaited
    <3>4. status'[d] \in Live
      BY <3>1, <3>2, <1>2 DEF EnqueuedStatus, Live
    <3> QED BY <1>2, <3>1, <3>2, <3>3, <3>4
  <2>2. \A u \in Task : status'[u] \in Live =>
          \A d \in dependsOn'[u] : status'[d] = "Succeeded" \/ u \in dependents'[d]
    BY <1>1, <1>2, <1>3, <1>4 DEF Graph, Edges, Shape
  <2>3. \A u \in Task : status'[u] \in {"Succeeded", "Failed"} =>
          \A d \in dependsOn'[u] : status'[d] = "Succeeded"
    <3> SUFFICES ASSUME NEW u \in Task, status'[u] \in {"Succeeded", "Failed"},
                        NEW d \in dependsOn[u]
                 PROVE  status'[d] = "Succeeded"
      OBVIOUS
    <3>1. d \in Task
      BY DEF Graph, Shape
    <3>2. status[d] = "Succeeded"
      BY <1>2, <3>1 DEF Graph, Edges, Live, EnqueuedStatus
    <3> QED BY <1>1, <1>2, <1>3, <3>1, <3>2
  <2>4. \A u \in Task : status'[u] = "Blocked" => Awaited(u)' # {}
    BY <1>1, <1>2, <1>3, <1>4, <1>7, <1>8 DEF Graph, Edges, Live, EnqueuedStatus
  <2> QED BY <2>1, <2>2, <2>3, <2>4 DEF Edges
<1>11. Counts'
  BY <1>4, <1>7, <1>8 DEF Graph, Counts
<1> QED BY <1>9, <1>10, <1>11 DEF Graph

\* An accepted Submit adds a consistent node.
LEMMA SubmitGraph ==
    ASSUME Graph, Shape', NEW t \in Task, NEW deps \in SUBSET Task, NEW at \in 0..MaxTime,
           SubmitAccepted(t, deps, at)
    PROVE  Graph'
<1> DEFINE pending == {d \in deps : ~Terminal(d)}
<1>1. /\ status[t] = "Absent" /\ deps \subseteq Submitted
      /\ \A d \in deps : status[d] \notin {"Failed", "Cancelled"}
      /\ \A u \in Task : dependsOn'[u] = IF u = t THEN deps ELSE dependsOn[u]
      /\ \A u \in Task : waitingOn'[u] = IF u = t THEN Cardinality(pending) ELSE waitingOn[u]
      /\ \A u \in Task : dependents'[u] = IF u \in pending THEN dependents[u] \cup {t}
                                          ELSE dependents[u]
      /\ holding' = holding /\ pc' = pc
  BY DEF SubmitAccepted, Graph, Shape, workVars
<1>2. \/ /\ pending # {} /\ ready' = ready /\ delayed' = delayed
         /\ \A u \in Task : status'[u] = IF u = t THEN "Blocked" ELSE status[u]
      \/ /\ pending = {}
         /\ ready' = IF Delays(at) THEN ready ELSE ready \cup {t}
         /\ delayed' = IF Delays(at) THEN delayed \cup {t} ELSE delayed
         /\ \A u \in Task : status'[u] = IF u = t THEN EnqueuedStatus(at) ELSE status[u]
  BY DEF SubmitAccepted, Graph, Shape
<1>3. pending \subseteq Task /\ t \notin deps
  BY <1>1 DEF Submitted
<1>4. \A d \in pending : status[d] \in Live
  BY <1>1, <1>3 DEF Graph, Shape, Status, Submitted, Terminal
<1>5. \A d \in deps : d \in pending \/ status[d] = "Succeeded"
  BY <1>1 DEF Terminal, Final
<1> HIDE DEF pending
<1>6. \A u \in Task : status'[u] = IF u = t THEN status'[t] ELSE status[u]
  BY <1>2
<1>7. status'[t] \in Live /\ (status'[t] = "Blocked" <=> pending # {}) /\ status'[t] # "Running"
  BY <1>2 DEF Live, EnqueuedStatus
<1>8. \A d \in Task : \A u \in dependents[d] : u \in Task /\ u # t /\ d # t
  BY <1>1, AbsentOnNoList
<1>9. \A u \in Task : Awaited(u)' = IF u = t THEN pending ELSE Awaited(u)
  BY <1>1, <1>3, <1>8, ZenonT(60) DEF Awaited
<1>10. OnePlace'
  <2>1. ready' = {u \in Task : status'[u] = "Ready"}
    BY <1>1, <1>2 DEF Graph, OnePlace, EnqueuedStatus
  <2>2. delayed' = {u \in Task : status'[u] = "Scheduled"}
    BY <1>1, <1>2 DEF Graph, OnePlace, EnqueuedStatus
  <2>3. \A u \in Task : status'[u] = "Running" <=> status[u] = "Running"
    BY <1>1, <1>6, <1>7
  <2> QED BY <1>1, <2>1, <2>2, <2>3 DEF Graph, OnePlace
<1>11. Edges'
  <2>1. \A d \in Task : \A u \in dependents'[d] :
          /\ d \in dependsOn'[u] /\ status'[d] \in Live
          /\ status'[u] \in {"Blocked", "Cancelled"}
    <3> SUFFICES ASSUME NEW d \in Task, NEW u \in dependents'[d]
                 PROVE  /\ d \in dependsOn'[u] /\ status'[d] \in Live
                        /\ status'[u] \in {"Blocked", "Cancelled"}
      OBVIOUS
    <3>1. CASE u \in dependents[d]
      BY <1>1, <1>6, <1>8, <3>1 DEF Graph, Edges
    <3>2. CASE d \in pending /\ u = t
      BY <1>1, <1>3, <1>4, <1>6, <1>7, <3>2 DEF pending
    <3> QED BY <1>1, <3>1, <3>2
  <2>2. \A u \in Task : status'[u] \in Live =>
          \A d \in dependsOn'[u] : status'[d] = "Succeeded" \/ u \in dependents'[d]
    <3> SUFFICES ASSUME NEW u \in Task, status'[u] \in Live, NEW d \in dependsOn'[u]
                 PROVE  status'[d] = "Succeeded" \/ u \in dependents'[d]
      OBVIOUS
    <3>1. CASE u = t
      BY <1>1, <1>3, <1>5, <1>6, <3>1
    <3>2. CASE u # t
      BY <1>1, <1>6, <3>2 DEF Graph, Edges, Shape
    <3> QED BY <3>1, <3>2
  <2>3. \A u \in Task : status'[u] \in {"Succeeded", "Failed"} =>
          \A d \in dependsOn'[u] : status'[d] = "Succeeded"
    <3> SUFFICES ASSUME NEW u \in Task, status'[u] \in {"Succeeded", "Failed"},
                        NEW d \in dependsOn'[u]
                 PROVE  status'[d] = "Succeeded"
      OBVIOUS
    <3>1. u # t
      BY <1>7 DEF Live
    <3>2. d \in Task /\ status[d] = "Succeeded"
      BY <1>1, <1>6, <3>1 DEF Graph, Edges, Shape
    <3> QED BY <1>1, <1>6, <3>2
  <2>4. \A u \in Task : status'[u] = "Blocked" => Awaited(u)' # {}
    BY <1>6, <1>7, <1>9 DEF Graph, Edges
  <2> QED BY <2>1, <2>2, <2>3, <2>4 DEF Edges
<1>12. Counts'
  BY <1>1, <1>6, <1>9 DEF Graph, Counts
<1> QED BY <1>10, <1>11, <1>12 DEF Graph

\* A Submit with an unsuccessful dependency leaves a CANCELLED task on the
\* lists of live ones, which is harmless.
LEMMA DoomedGraph ==
    ASSUME Graph, Shape', NEW t \in Task, NEW deps \in SUBSET Task, NEW at \in 0..MaxTime,
           NEW early \in SUBSET deps, SubmitDoomed(t, deps, at, early)
    PROVE  Graph'
<1>1. /\ status[t] = "Absent" /\ deps \subseteq Submitted
      /\ early \subseteq {d \in deps : ~Terminal(d)}
      /\ \A u \in Task : dependsOn'[u] = IF u = t THEN deps ELSE dependsOn[u]
      /\ \A u \in Task : u # t => waitingOn'[u] = waitingOn[u]
      /\ \A u \in Task : dependents'[u] = IF u \in early THEN dependents[u] \cup {t}
                                          ELSE dependents[u]
      /\ \A u \in Task : status'[u] = IF u = t THEN "Cancelled" ELSE status[u]
      /\ holding' = holding /\ pc' = pc /\ ready' = ready /\ delayed' = delayed
  BY DEF SubmitDoomed, Graph, Shape, workVars, heapVars
<1>2. \A d \in early : d \in Task /\ d # t /\ status[d] \in Live
  BY <1>1 DEF Graph, Shape, Status, Submitted, Terminal
<1>3. \A d \in Task : \A u \in dependents[d] : u \in Task /\ u # t /\ d # t
  BY <1>1, AbsentOnNoList
<1>4. \A u \in Task : u # t => Awaited(u)' = Awaited(u)
  BY <1>1, ZenonT(60) DEF Awaited
<1>5. OnePlace'
  <2>1. \A u \in Task : \A st \in {"Ready", "Scheduled", "Running"} : status'[u] = st <=> status[u] = st
    BY <1>1
  <2> QED BY <1>1, <2>1 DEF Graph, OnePlace
<1>6. Edges'
  <2>1. \A d \in Task : \A u \in dependents'[d] :
          /\ d \in dependsOn'[u] /\ status'[d] \in Live
          /\ status'[u] \in {"Blocked", "Cancelled"}
    <3> SUFFICES ASSUME NEW d \in Task, NEW u \in dependents'[d]
                 PROVE  /\ d \in dependsOn'[u] /\ status'[d] \in Live
                        /\ status'[u] \in {"Blocked", "Cancelled"}
      OBVIOUS
    <3>1. CASE u \in dependents[d]
      BY <1>1, <1>3, <3>1 DEF Graph, Edges
    <3>2. CASE d \in early /\ u = t
      BY <1>1, <1>2, <3>2
    <3> QED BY <1>1, <3>1, <3>2
  <2>2. \A u \in Task : status'[u] \in Live =>
          \A d \in dependsOn'[u] : status'[d] = "Succeeded" \/ u \in dependents'[d]
    BY <1>1, SMTT(60) DEF Graph, Edges, Shape, Live
  <2>3. \A u \in Task : status'[u] \in {"Succeeded", "Failed"} =>
          \A d \in dependsOn'[u] : status'[d] = "Succeeded"
    BY <1>1 DEF Graph, Edges, Shape
  <2>4. \A u \in Task : status'[u] = "Blocked" => Awaited(u)' # {}
    BY <1>1, <1>4 DEF Graph, Edges
  <2> QED BY <2>1, <2>2, <2>3, <2>4 DEF Edges
<1>7. Counts'
  BY <1>1, <1>4 DEF Graph, Counts, Live
<1> QED BY <1>5, <1>6, <1>7 DEF Graph

\* Moves between the heaps and a worker do not disturb the graph.
LEMMA EdgesKept ==
    ASSUME Graph, dependsOn' = dependsOn, dependents' = dependents,
           \A u \in Task : /\ status'[u] \in Live <=> status[u] \in Live
                           /\ status'[u] \notin Live => status'[u] = status[u]
                           /\ status'[u] = "Blocked" <=> status[u] = "Blocked"
                           /\ status[u] \notin {"Ready", "Scheduled", "Running"} => status'[u] = status[u]
    PROVE  Edges'
<1>0. \A u \in Task : dependsOn[u] \in SUBSET Task /\ dependents[u] \in SUBSET Task
  BY DEF Graph, Shape
<1>1. \A u \in Task : Awaited(u)' = Awaited(u)
  BY DEF Awaited
<1>2. \A d \in Task : \A u \in dependents'[d] :
          /\ d \in dependsOn'[u] /\ status'[d] \in Live
          /\ status'[u] \in {"Blocked", "Cancelled"}
  BY <1>0 DEF Graph, Edges, Live
<1>3. \A u \in Task : status'[u] \in Live =>
          \A d \in dependsOn'[u] : status'[d] = "Succeeded" \/ u \in dependents'[d]
  BY <1>0 DEF Graph, Edges
<1>4. \A u \in Task : status'[u] \in {"Succeeded", "Failed"} =>
          \A d \in dependsOn'[u] : status'[d] = "Succeeded"
  BY <1>0 DEF Graph, Edges, Live
<1>5. \A u \in Task : status'[u] = "Blocked" => Awaited(u)' # {}
  BY <1>1 DEF Graph, Edges
<1> QED BY <1>2, <1>3, <1>4, <1>5 DEF Edges

\* acquire, promotion of due tasks included, keeps every task in one place.
LEMMA AcquireGraph ==
    ASSUME Graph, Shape', NEW w \in Worker, NEW t \in Task, AcquireTask(w, t)
    PROVE  Graph'
<1>1. /\ \A u \in Task : status'[u] = IF u = t THEN "Running" ELSE IF u \in Due THEN "Ready" ELSE status[u]
      /\ ready' = (ready \cup Due) \ {t} /\ delayed' = delayed \ Due
      /\ t \in ready \cup Due /\ pc[w] = "polling"
      /\ \A v \in Worker : holding'[v] = IF v = w THEN t ELSE holding[v]
      /\ \A v \in Worker : pc'[v] = IF v = w THEN "running" ELSE pc[v]
      /\ dependsOn' = dependsOn /\ dependents' = dependents /\ waitingOn' = waitingOn
  BY DEF AcquireTask, Graph, Shape
<1>2. \A u \in Due : u \in delayed /\ status[u] = "Scheduled"
  BY DEF Due, Graph, OnePlace
<1>3. status[t] \in {"Ready", "Scheduled"}
  BY <1>1, <1>2 DEF Graph, OnePlace
<1>4. \A v \in Worker : holding[v] # t
  BY <1>3 DEF Graph, OnePlace
<1>5. holding[w] = None
  BY <1>1 DEF Graph, OnePlace
<1>6. \A u \in Task : /\ status'[u] \in Live <=> status[u] \in Live
                      /\ status'[u] \notin Live => status'[u] = status[u]
                      /\ status'[u] = "Blocked" <=> status[u] = "Blocked"
                      /\ status[u] \notin {"Ready", "Scheduled", "Running"} => status'[u] = status[u]
  BY <1>1, <1>2, <1>3 DEF Live
<1>7. OnePlace'
  <2>1. ready' = {u \in Task : status'[u] = "Ready"} /\ delayed' = {u \in Task : status'[u] = "Scheduled"}
    BY <1>1, <1>2, <1>3 DEF Graph, OnePlace
  <2>2. \A u \in Task : status'[u] = "Running" <=> \E v \in Worker : holding'[v] = u
    <3> TAKE u \in Task
    <3>1. CASE u = t
      BY <3>1, <1>1
    <3>2. CASE u # t
      <4>1. status'[u] = "Running" <=> status[u] = "Running"
        BY <3>2, <1>1, <1>2
      <4>2. status[u] = "Running" <=> \E v \in Worker : holding[v] = u
        BY DEF Graph, OnePlace
      <4> QED BY <3>2, <4>1, <4>2, <1>1, <1>5, TaskAssumption
    <3> QED BY <3>1, <3>2
  <2> QED BY <2>1, <2>2, <1>1, <1>4 DEF Graph, OnePlace, Shape
<1>8. \A u \in Task : Awaited(u)' = Awaited(u)
  BY <1>1 DEF Awaited
<1>9. Edges'
  BY <1>1, <1>6, EdgesKept
<1>10. Counts'
  BY <1>1, <1>6, <1>8 DEF Graph, Counts
<1> QED BY <1>7, <1>9, <1>10 DEF Graph

\* A retry in finish puts the task back in exactly one heap.
LEMMA RetryGraph ==
    ASSUME Graph, Shape', NEW w \in Worker, NEW backoff \in 0..MaxTime, FinishRetry(w, backoff)
    PROVE  Graph'
<1> DEFINE t == holding[w]
           at == now + backoff
<1>1. t \in Task /\ status[t] = "Running"
  BY DEF FinishRetry, Release, Graph, Shape, OnePlace
<1>2. /\ \A u \in Task : status'[u] = IF u = t THEN EnqueuedStatus(at) ELSE status[u]
      /\ ready' = IF Delays(at) THEN ready ELSE ready \cup {t}
      /\ delayed' = IF Delays(at) THEN delayed \cup {t} ELSE delayed
      /\ \A v \in Worker : holding'[v] = IF v = w THEN None ELSE holding[v]
      /\ dependsOn' = dependsOn /\ dependents' = dependents /\ waitingOn' = waitingOn
  BY DEF FinishRetry, Release, Graph, Shape
<1>3. \A v \in Worker : holding[v] = t => v = w
  BY <1>1, TaskAssumption DEF Graph, OnePlace
<1> HIDE DEF t, at
<1>4. \A u \in Task : /\ status'[u] \in Live <=> status[u] \in Live
                      /\ status'[u] \notin Live => status'[u] = status[u]
                      /\ status'[u] = "Blocked" <=> status[u] = "Blocked"
                      /\ status[u] \notin {"Ready", "Scheduled", "Running"} => status'[u] = status[u]
  BY <1>1, <1>2 DEF Live, EnqueuedStatus
<1>5. OnePlace'
  <2>1. ready' = {u \in Task : status'[u] = "Ready"} /\ delayed' = {u \in Task : status'[u] = "Scheduled"}
    BY <1>1, <1>2 DEF Graph, OnePlace, EnqueuedStatus
  <2>2. \A u \in Task : status'[u] = "Running" <=> \E v \in Worker : holding'[v] = u
    <3> TAKE u \in Task
    <3>1. CASE u = t
      BY <3>1, <1>2, <1>3, TaskAssumption DEF EnqueuedStatus
    <3>2. CASE u # t
      <4>1. status[u] = "Running" <=> \E v \in Worker : holding[v] = u
        BY DEF Graph, OnePlace
      <4> QED BY <3>2, <4>1, <1>2, TaskAssumption DEF t
    <3> QED BY <3>1, <3>2
  <2> QED BY <2>1, <2>2, <1>2 DEF Graph, OnePlace, Shape
<1>6. \A u \in Task : Awaited(u)' = Awaited(u)
  BY <1>2 DEF Awaited
<1>7. Edges'
  BY <1>2, <1>4, EdgesKept
<1>8. Counts'
  BY <1>2, <1>4, <1>6 DEF Graph, Counts
<1> QED BY <1>5, <1>7, <1>8 DEF Graph

\* The sweep at the end of an expired Shutdown keeps the graph consistent.
LEMMA SweepGraph ==
    ASSUME Graph, Shape', NEW c \in Closer, ShutdownSweep(c)
    PROVE  Graph'
<1> DEFINE left == {t \in Submitted : ~Terminal(t)}
<1>1. \A u \in Task : u \in left <=> status[u] \in Live
  BY DEF Submitted, Terminal, Graph, Shape, Status, Live, Final
<1>2. /\ \A u \in Task : status'[u] = IF u \in left THEN "Cancelled" ELSE status[u]
      /\ \A u \in Task : dependents'[u] = IF u \in left THEN {} ELSE dependents[u]
      /\ ready' = ready \ QueuedIn(left, "Ready")
      /\ delayed' = delayed \ QueuedIn(left, "Scheduled")
      /\ \A w \in Worker : pc[w] = "exited"
      /\ holding' = holding /\ pc' = pc /\ dependsOn' = dependsOn
  BY DEF ShutdownSweep, Drained, workVars
<1> HIDE DEF left
<1>3. \A u \in Task : status'[u] \notin Live
  BY <1>1, <1>2 DEF Live
<1>4. \A u \in Task : dependents'[u] = {}
  BY <1>1, <1>2, SMTT(60) DEF Graph, Edges, Shape
<1>5. \A w \in Worker : holding[w] = None
  BY <1>2 DEF Graph, OnePlace
<1>6. OnePlace'
  <2>1. ready' = {} /\ delayed' = {}
    BY <1>1, <1>2 DEF Graph, OnePlace, QueuedIn, Live
  <2> QED BY <1>2, <1>3, <1>5, <2>1, TaskAssumption DEF OnePlace, Live, Graph
<1>7. Edges'
  <2>1. \A u \in Task : status'[u] \in {"Succeeded", "Failed"} =>
          \A d \in dependsOn'[u] : status'[d] = "Succeeded"
    <3> SUFFICES ASSUME NEW u \in Task, status'[u] \in {"Succeeded", "Failed"},
                        NEW d \in dependsOn[u]
                 PROVE  status'[d] = "Succeeded"
      BY <1>2
    <3>1. d \in Task /\ status[u] \in {"Succeeded", "Failed"}
      BY <1>2 DEF Graph, Shape
    <3>2. status[d] = "Succeeded"
      BY <3>1 DEF Graph, Edges
    <3> QED BY <1>1, <1>2, <3>1, <3>2 DEF Live
  <2>2. \A u \in Task : status'[u] # "Blocked"
    BY <1>3 DEF Live
  <2> QED BY <1>3, <1>4, <2>1, <2>2 DEF Edges
<1>8. Counts'
  BY <1>3 DEF Counts
<1> QED BY <1>6, <1>7, <1>8 DEF Graph

\* Steps that touch no task keep the graph.
LEMMA GraphUnchanged ==
    ASSUME Graph, Shape', UNCHANGED <<status, dependsOn, dependents, waitingOn, ready, delayed, holding>>
    PROVE  Graph'
<1>1. \A u \in Task : Awaited(u)' = Awaited(u)
  BY DEF Awaited
<1>2. OnePlace'
  BY DEF Graph, OnePlace, Shape
<1>3. Edges'
  BY <1>1 DEF Graph, Edges
<1>4. Counts'
  BY <1>1 DEF Graph, Counts
<1> QED BY <1>2, <1>3, <1>4 DEF Graph

\* Every step of the queue keeps the graph invariant.
LEMMA GraphStep == Graph /\ [Next]_vars => Graph'
<1> SUFFICES ASSUME Graph, [Next]_vars PROVE Graph'
  OBVIOUS
<1>0. Shape'
  BY ShapeStep DEF Graph
<1>1. ASSUME NEW w \in Worker, Release(w)
      PROVE  /\ holding[w] \in Task /\ status[holding[w]] = "Running"
             /\ \A v \in Worker : holding'[v] = IF holding[v] = holding[w] THEN None ELSE holding[v]
  <2>1. holding[w] \in Task /\ holding[w] # None
    BY <1>1 DEF Release, Graph, OnePlace, Shape
  <2>2. \A v \in Worker : holding[v] = holding[w] => v = w
    BY <2>1 DEF Graph, OnePlace
  <2> QED BY <1>1, <2>1, <2>2 DEF Release, Graph, OnePlace, Shape
<1>2. CASE \/ Start \/ SubmitIgnored \/ Tick \/ UNCHANGED vars
           \/ \E t \in Task : CancelRunning(t)
           \/ \E c \in Closer : \/ ShutdownBegin(c) \/ ShutdownExpire(c) \/ ShutdownStart(c)
                                \/ ShutdownNotify(c) \/ ShutdownDrained(c)
           \/ \E w \in Worker : AcquireExit(w) \/ AcquireSleep(w) \/ Wake(w)
  <2>1. UNCHANGED <<status, dependsOn, dependents, waitingOn, ready, delayed, holding>>
    BY <1>2 DEF Start, SubmitIgnored, Tick, vars, CancelRunning, ShutdownBegin, ShutdownExpire,
       ShutdownStart, ShutdownNotify, ShutdownDrained, AcquireExit, AcquireSleep, Wake,
       taskVars, heapVars, workVars
  <2> QED BY <1>0, <2>1, GraphUnchanged
<1>3. ASSUME NEW t \in Task, CancelQueued(t) PROVE Graph'
  <2>1. status[t] \in Live /\ status[t] # "Running" /\ dependsOn' = dependsOn /\ holding' = holding
    BY <1>3 DEF CancelQueued, Live, workVars
  <2>2. \A w \in Worker : holding'[w] = IF holding[w] = t THEN None ELSE holding[w]
    BY <2>1 DEF Graph, OnePlace
  <2>3. FinalizeUnsuccessful(t, "Cancelled")
    BY <1>3 DEF CancelQueued
  <2> QED BY <1>0, <2>1, <2>2, <2>3, UnsuccessfulGraph
<1>4. ASSUME NEW w \in Worker, FinishOk(w) PROVE Graph'
  <2>1. Release(w) /\ FinalizeSucceeded(holding[w]) /\ dependsOn' = dependsOn
    BY <1>4 DEF FinishOk
  <2> QED BY <1>0, <1>1, <2>1, SucceededGraph
<1>5. ASSUME NEW w \in Worker, NEW permanent \in BOOLEAN, FinishFailed(w, permanent) PROVE Graph'
  <2>1. PICK st \in {"Failed", "Cancelled"} :
           Release(w) /\ FinalizeUnsuccessful(holding[w], st) /\ dependsOn' = dependsOn
    BY <1>5 DEF FinishFailed
  <2>2. status[holding[w]] \in Live
    BY <1>1, <2>1 DEF Live
  <2> QED BY <1>0, <1>1, <2>1, <2>2, UnsuccessfulGraph
<1>6. ASSUME NEW c \in Closer, CloserStep(c) PROVE Graph'
  BY <1>0, <1>2, <1>6, SweepGraph DEF CloserStep
<1>7. ASSUME NEW w \in Worker, WorkerStep(w) PROVE Graph'
  BY <1>0, <1>2, <1>7, AcquireGraph DEF WorkerStep
<1>8. ASSUME NEW w \in Worker, HandlerReturns(w) PROVE Graph'
  BY <1>0, <1>4, <1>5, <1>8, RetryGraph DEF HandlerReturns
<1>9. CASE Client
  BY <1>0, <1>2, <1>3, <1>9, SubmitGraph, DoomedGraph DEF Client
<1> QED BY <1>2, <1>6, <1>7, <1>8, <1>9 DEF Next

\* A new queue satisfies the graph invariant.
LEMMA GraphInit == Init => Graph
<1> SUFFICES ASSUME Init PROVE Graph
  OBVIOUS
<1>1. Shape
  <2>1. Never \in 0..Never /\ 0 \in 0..MaxTime /\ 0 \in 0..MaxSubmit /\ 0 \in Int /\ 0 \in Nat
    BY BoundAssumption DEF Never
  <2>2. "Absent" \in Status
    BY DEF Status
  <2>3. \A w \in Worker : pc[w] = "new" /\ holding[w] = None
    BY DEF Init
  <2> QED BY <2>1, <2>2, <2>3 DEF Init, Shape
<1>2. /\ \A t \in Task : status[t] = "Absent" /\ dependents[t] = {}
      /\ \A w \in Worker : pc[w] = "new" /\ holding[w] = None
      /\ ready = {} /\ delayed = {}
  BY DEF Init
<1>3. OnePlace
  <2>1. ready = {t \in Task : status[t] = "Ready"} /\ delayed = {t \in Task : status[t] = "Scheduled"}
    BY <1>2
  <2>2. \A t \in Task : status[t] # "Running" /\ \A w \in Worker : holding[w] # t
    BY <1>2, TaskAssumption
  <2>3. \A w \in Worker : (pc[w] = "running") <=> (holding[w] # None)
    BY <1>2
  <2> QED BY <1>2, <2>1, <2>2, <2>3 DEF OnePlace
<1>4. Edges /\ Counts
  BY <1>2 DEF Edges, Counts, Live
<1> QED BY <1>1, <1>3, <1>4 DEF Graph

\* The graph invariant holds in every reachable state of the queue.
THEOREM GraphInvariant == Spec => []Graph
  BY GraphInit, GraphStep, PTL DEF Spec

\* Each task is in the heap, or with the one worker, that its status says:
\* heap.Remove in finalizeLocked always removes the right task.
THEOREM OnePlaceAlways == Spec => []OnePlace
<1>1. Graph => OnePlace
  BY DEF Graph
<1> QED BY <1>1, GraphInvariant, PTL

\* waitingOn is exact, so finalizeLocked enqueues a dependent on its last
\* dependency and never strands one.
THEOREM WaitingExactAlways == Spec => []WaitingExact
<1>1. Graph => WaitingExact
  <2> SUFFICES ASSUME Graph, NEW t \in Task, status[t] \in Live
               PROVE  /\ waitingOn[t] = Cardinality(Awaited(t))
                      /\ status[t] = "Blocked" <=> waitingOn[t] > 0
    BY DEF WaitingExact, Awaited
  <2>1. waitingOn[t] = Cardinality(Awaited(t))
    BY DEF Graph, Counts
  <2>2. IsFiniteSet(Awaited(t)) /\ Cardinality(Awaited(t)) \in Nat
    BY CardinalityOfTasks DEF Awaited
  <2>3. Cardinality(Awaited(t)) = 0 <=> Awaited(t) = {}
    BY <2>2, FS_EmptySet
  <2>4. status[t] = "Blocked" <=> Awaited(t) # {}
    BY DEF Graph, Edges, Awaited, Live
  <2> QED BY <2>1, <2>2, <2>3, <2>4
<1> QED BY <1>1, GraphInvariant, PTL

\* No task is queued, run or judged before all of its dependencies succeeded.
THEOREM DependenciesFirstAlways == Spec => []DependenciesFirst
<1>1. Graph => DependenciesFirst
  BY DEF Graph, Edges, DependenciesFirst, Shape, Live
<1> QED BY <1>1, GraphInvariant, PTL

\* Whatever depends on a failed or cancelled task is cancelled in the same
\* critical section.
THEOREM FailureCascadesAlways == Spec => []FailureCascades
<1>1. Graph => FailureCascades
  BY DEF Graph, Edges, FailureCascades, Shape, Live, Status, Final
<1> QED BY <1>1, GraphInvariant, PTL

\* The tasks that q.outstanding counts.
LiveTasks == {t \in Task : status[t] \in Live}

\* A task that may still be handed to a worker has an attempt left.
AttemptsLeft ==
    \A t \in Task :
        /\ attempts[t] <= MaxAttempts[t]
        /\ status[t] \in {"Absent", "Blocked", "Scheduled", "Ready"}
              => attempts[t] < MaxAttempts[t]

\* The inductive invariant behind q.outstanding and the attempt bound.
Accounts == Graph /\ OutstandingExact /\ AttemptsLeft /\ \A t \in Task : waitingOn[t] \in Nat

\* A cascade in finalizeLocked decrements q.outstanding once per task it
\* finalizes.
LEMMA UnsuccessfulAccounts ==
    ASSUME Accounts, Graph', NEW t \in Task, NEW st \in {"Failed", "Cancelled"},
           FinalizeUnsuccessful(t, st), attempts' = attempts, status[t] \in Live
    PROVE  Accounts'
<1> DEFINE C == Cascade(t)
<1>1. C \subseteq LiveTasks
  BY CascadeBlocked, CascadeFacts DEF LiveTasks, Live, Accounts, Graph
<1>2. \A u \in Task : status'[u] = IF u = t THEN st ELSE IF u \in C THEN "Cancelled" ELSE status[u]
  BY DEF FinalizeUnsuccessful
<1>3. t \in C
  BY CascadeFacts DEF Accounts, Graph
<1>4. outstanding' = outstanding - Cardinality(C) /\ waitingOn' = waitingOn
  BY DEF FinalizeUnsuccessful
<1> HIDE DEF C
<1>5. LiveTasks' = LiveTasks \ C
  BY <1>2, <1>3 DEF LiveTasks, Live
<1>6. IsFiniteSet(LiveTasks) /\ LiveTasks \cap C = C
  BY <1>1, CardinalityOfTasks DEF LiveTasks
<1>7. Cardinality(LiveTasks') = Cardinality(LiveTasks) - Cardinality(C)
  <2>1. Cardinality(LiveTasks \ C) = Cardinality(LiveTasks) - Cardinality(LiveTasks \cap C)
    BY <1>6, FS_Difference
  <2> QED BY <1>5, <1>6, <2>1
<1>8. OutstandingExact'
  BY <1>4, <1>7 DEF Accounts, OutstandingExact, LiveTasks
<1>9. AttemptsLeft'
  BY <1>2 DEF Accounts, AttemptsLeft
<1> QED BY <1>4, <1>8, <1>9 DEF Accounts

\* A success in finalizeLocked decrements q.outstanding once.
LEMMA SucceededAccounts ==
    ASSUME Accounts, Graph', NEW t \in Task, FinalizeSucceeded(t), attempts' = attempts,
           status[t] = "Running"
    PROVE  Accounts'
<1> DEFINE told == {d \in dependents[t] : ~Terminal(d)}
           free == Freed(told)
<1>1. /\ \A u \in Task : status'[u] = IF u = t THEN "Succeeded"
                                     ELSE IF u \in free THEN EnqueuedStatus(runAt[u])
                                     ELSE status[u]
      /\ \A u \in Task : u \notin told => waitingOn'[u] = waitingOn[u]
      /\ outstanding' = outstanding - 1
  BY DEF FinalizeSucceeded
<1>2. \A u \in told : u \in Task /\ status[u] = "Blocked" /\ u # t
  BY DEF Accounts, Graph, Edges, Shape, Terminal, Final
<1>3. free \subseteq told
  BY DEF Freed
<1> HIDE DEF told, free
<1>4. LiveTasks' = LiveTasks \ {t}
  BY <1>1, <1>2, <1>3 DEF LiveTasks, Live, EnqueuedStatus
<1>5. IsFiniteSet(LiveTasks) /\ t \in LiveTasks
  BY CardinalityOfTasks DEF LiveTasks, Live
<1>6. Cardinality(LiveTasks') = Cardinality(LiveTasks) - 1
  BY <1>4, <1>5, FS_RemoveElement
<1>7. OutstandingExact'
  BY <1>1, <1>6 DEF Accounts, OutstandingExact, LiveTasks
<1>8. AttemptsLeft'
  BY <1>1, <1>2, <1>3 DEF Accounts, AttemptsLeft
<1>9. \A u \in told : waitingOn'[u] \in Nat
  <2> TAKE u \in told
  <2>1. u \in Task /\ status'[u] \in Live
    BY <1>1, <1>2 DEF Live, EnqueuedStatus
  <2>2. waitingOn'[u] = Cardinality(Awaited(u)')
    BY <2>1 DEF Graph, Counts
  <2>3. Awaited(u)' \in SUBSET Task
    BY DEF Awaited
  <2> QED BY <2>2, <2>3, CardinalityOfTasks
<1> QED BY <1>1, <1>7, <1>8, <1>9 DEF Accounts

\* Steps that keep the set of live tasks keep the accounts.
LEMMA AccountsUnchanged ==
    ASSUME Accounts, Graph', UNCHANGED <<outstanding, attempts>>,
           \A t \in Task : /\ status'[t] \in Live <=> status[t] \in Live
                           /\ status'[t] \in {"Absent", "Blocked", "Scheduled", "Ready"}
                                 => attempts[t] < MaxAttempts[t],
           \A t \in Task : waitingOn'[t] \in Nat
    PROVE  Accounts'
<1>1. LiveTasks' = LiveTasks
  BY DEF LiveTasks
<1>2. OutstandingExact'
  BY <1>1 DEF OutstandingExact, LiveTasks, Accounts
<1>3. AttemptsLeft'
  BY DEF AttemptsLeft, Accounts
<1> QED BY <1>2, <1>3 DEF Accounts

\* Every step of the queue keeps the accounts.
LEMMA AccountsStep == Accounts /\ [Next]_vars => Accounts'
<1> SUFFICES ASSUME Accounts, [Next]_vars PROVE Accounts'
  OBVIOUS
<1>0. Graph'
  BY GraphStep DEF Accounts
<1>1. ASSUME NEW w \in Worker, Release(w)
      PROVE  holding[w] \in Task /\ status[holding[w]] = "Running"
  BY <1>1 DEF Release, Accounts, Graph, OnePlace, Shape
<1>2. CASE \/ Start \/ SubmitIgnored \/ Tick \/ UNCHANGED vars
           \/ \E t \in Task : CancelRunning(t)
           \/ \E c \in Closer : \/ ShutdownBegin(c) \/ ShutdownExpire(c) \/ ShutdownStart(c)
                                \/ ShutdownNotify(c) \/ ShutdownDrained(c)
           \/ \E w \in Worker : AcquireExit(w) \/ AcquireSleep(w) \/ Wake(w)
  <2>1. UNCHANGED <<status, waitingOn, outstanding, attempts>>
    BY <1>2 DEF Start, SubmitIgnored, Tick, vars, CancelRunning, ShutdownBegin, ShutdownExpire,
       ShutdownStart, ShutdownNotify, ShutdownDrained, AcquireExit, AcquireSleep, Wake,
       taskVars, heapVars, workVars
  <2> QED BY <1>0, <2>1, AccountsUnchanged DEF Accounts, AttemptsLeft
<1>3. ASSUME NEW t \in Task, CancelQueued(t) PROVE Accounts'
  <2>1. FinalizeUnsuccessful(t, "Cancelled") /\ status[t] \in Live /\ attempts' = attempts
    BY <1>3 DEF CancelQueued, Live
  <2> QED BY <1>0, <2>1, UnsuccessfulAccounts
<1>4. ASSUME NEW w \in Worker, FinishOk(w) PROVE Accounts'
  <2>1. Release(w) /\ FinalizeSucceeded(holding[w]) /\ attempts' = attempts
    BY <1>4 DEF FinishOk
  <2> QED BY <1>0, <1>1, <2>1, SucceededAccounts
<1>5. ASSUME NEW w \in Worker, NEW permanent \in BOOLEAN, FinishFailed(w, permanent)
      PROVE  Accounts'
  <2>1. PICK st \in {"Failed", "Cancelled"} :
           Release(w) /\ FinalizeUnsuccessful(holding[w], st) /\ attempts' = attempts
    BY <1>5 DEF FinishFailed
  <2>2. holding[w] \in Task /\ status[holding[w]] \in Live
    BY <1>1, <2>1 DEF Live
  <2> QED BY <1>0, <2>1, <2>2, UnsuccessfulAccounts
<1>6. ASSUME NEW w \in Worker, NEW backoff \in 0..MaxTime, FinishRetry(w, backoff)
      PROVE  Accounts'
  <2> DEFINE t == holding[w]
  <2>1. t \in Task /\ status[t] = "Running"
    BY <1>1, <1>6 DEF FinishRetry
  <2>2. attempts[t] < MaxAttempts[t]
    <3>1. ~(attempts[t] >= MaxAttempts[t])
      BY <1>6 DEF FinishRetry, GivesUp
    <3>2. attempts[t] \in Nat /\ MaxAttempts[t] \in Nat
      BY <2>1, SpecAssumption DEF Accounts, Graph, Shape
    <3> QED BY <3>1, <3>2
  <2>3. /\ UNCHANGED <<outstanding, attempts, waitingOn>>
        /\ \A u \in Task : status'[u] = IF u = t THEN EnqueuedStatus(now + backoff) ELSE status[u]
    BY <1>6 DEF FinishRetry, Accounts, Graph, Shape
  <2> HIDE DEF t
  <2>4. \A u \in Task : /\ status'[u] \in Live <=> status[u] \in Live
                        /\ status'[u] \in {"Absent", "Blocked", "Scheduled", "Ready"}
                              => attempts[u] < MaxAttempts[u]
    BY <2>1, <2>2, <2>3 DEF EnqueuedStatus, Live, Accounts, AttemptsLeft
  <2> QED BY <1>0, <2>3, <2>4, AccountsUnchanged DEF Accounts
<1>7. ASSUME NEW w \in Worker, NEW t \in Task, AcquireTask(w, t) PROVE Accounts'
  <2>1. /\ \A u \in Task : status'[u] = IF u = t THEN "Running" ELSE IF u \in Due THEN "Ready" ELSE status[u]
        /\ t \in ready \cup Due
        /\ UNCHANGED <<outstanding, waitingOn>>
        /\ \A u \in Task : attempts'[u] = IF u = t THEN attempts[u] + 1 ELSE attempts[u]
    BY <1>7 DEF AcquireTask, Accounts, Graph, Shape
  <2>2. \A u \in Due : status[u] = "Scheduled"
    BY DEF Due, Accounts, Graph, OnePlace
  <2>3. status[t] \in {"Ready", "Scheduled"}
    BY <2>1, <2>2 DEF Accounts, Graph, OnePlace
  <2>4. LiveTasks' = LiveTasks
    BY <2>1, <2>2, <2>3 DEF LiveTasks, Live
  <2>5. OutstandingExact'
    BY <2>1, <2>4 DEF OutstandingExact, LiveTasks, Accounts
  <2>6. AttemptsLeft'
    <3>1. \A u \in Task : attempts[u] \in Nat /\ MaxAttempts[u] \in Nat
      BY SpecAssumption DEF Accounts, Graph, Shape
    <3>2. attempts[t] < MaxAttempts[t]
      BY <2>3 DEF Accounts, AttemptsLeft
    <3> QED BY <2>1, <2>2, <3>1, <3>2 DEF Accounts, AttemptsLeft
  <2> QED BY <1>0, <2>1, <2>5, <2>6 DEF Accounts
<1>8. ASSUME NEW c \in Closer, ShutdownSweep(c) PROVE Accounts'
  <2> DEFINE left == {t \in Submitted : ~Terminal(t)}
  <2>1. left = LiveTasks
    BY DEF Submitted, Terminal, LiveTasks, Accounts, Graph, Shape, Status, Live, Final
  <2>2. /\ \A u \in Task : status'[u] = IF u \in left THEN "Cancelled" ELSE status[u]
        /\ outstanding' = outstanding - Cardinality(left)
        /\ UNCHANGED <<waitingOn, attempts>>
    BY <1>8 DEF ShutdownSweep
  <2> HIDE DEF left
  <2>3. LiveTasks' = {}
    BY <2>1, <2>2 DEF LiveTasks, Live
  <2>4. Cardinality(LiveTasks) \in Nat
    BY CardinalityOfTasks DEF LiveTasks
  <2>5. outstanding' = 0
    BY <2>1, <2>2, <2>4 DEF Accounts, OutstandingExact, LiveTasks
  <2>6. OutstandingExact'
    BY <2>3, <2>5, FS_EmptySet DEF OutstandingExact, LiveTasks
  <2>7. AttemptsLeft'
    BY <2>2 DEF Accounts, AttemptsLeft
  <2> QED BY <1>0, <2>2, <2>6, <2>7 DEF Accounts
<1>9. ASSUME NEW t \in Task, NEW deps \in SUBSET Task, NEW at \in 0..MaxTime,
             SubmitAccepted(t, deps, at)
      PROVE  Accounts'
  <2>1. /\ status[t] = "Absent" /\ status'[t] \in Live
        /\ \A u \in Task : u # t => status'[u] = status[u]
        /\ outstanding' = outstanding + 1 /\ attempts' = attempts
        /\ \A u \in Task : waitingOn'[u] = IF u = t THEN Cardinality({d \in deps : ~Terminal(d)}) ELSE waitingOn[u]
    BY <1>9 DEF SubmitAccepted, Accounts, Graph, Shape, EnqueuedStatus, Live
  <2>2. LiveTasks' = LiveTasks \cup {t} /\ t \notin LiveTasks
    BY <2>1 DEF LiveTasks, Live
  <2>3. IsFiniteSet(LiveTasks)
    BY CardinalityOfTasks DEF LiveTasks
  <2>4. Cardinality(LiveTasks') = Cardinality(LiveTasks) + 1
    BY <2>2, <2>3, FS_AddElement
  <2>5. OutstandingExact'
    BY <2>1, <2>4 DEF Accounts, OutstandingExact, LiveTasks
  <2>6. AttemptsLeft'
    BY <2>1 DEF Accounts, AttemptsLeft
  <2>7. Cardinality({d \in deps : ~Terminal(d)}) \in Nat
    BY CardinalityOfTasks
  <2> QED BY <1>0, <2>1, <2>5, <2>6, <2>7 DEF Accounts
<1>10. ASSUME NEW t \in Task, NEW deps \in SUBSET Task, NEW at \in 0..MaxTime,
              NEW early \in SUBSET deps, SubmitDoomed(t, deps, at, early)
       PROVE  Accounts'
  <2>1. /\ status[t] = "Absent" /\ status'[t] = "Cancelled"
        /\ \A u \in Task : u # t => status'[u] = status[u]
        /\ UNCHANGED <<outstanding, attempts>>
        /\ \A u \in Task : waitingOn'[u] = IF u = t THEN Cardinality(early) ELSE waitingOn[u]
    BY <1>10 DEF SubmitDoomed, heapVars, Accounts, Graph, Shape
  <2>2. Cardinality(early) \in Nat
    BY CardinalityOfTasks
  <2> QED BY <1>0, <2>1, <2>2, AccountsUnchanged DEF Accounts, AttemptsLeft, Live
<1>11. ASSUME NEW c \in Closer, CloserStep(c) PROVE Accounts'
  BY <1>2, <1>8, <1>11 DEF CloserStep
<1>12. ASSUME NEW w \in Worker, WorkerStep(w) \/ HandlerReturns(w) PROVE Accounts'
  BY <1>2, <1>4, <1>5, <1>6, <1>7, <1>12 DEF WorkerStep, HandlerReturns
<1>13. CASE Client
  BY <1>2, <1>3, <1>9, <1>10, <1>13 DEF Client
<1> QED BY <1>2, <1>11, <1>12, <1>13 DEF Next

\* The accounts hold in every reachable state of the queue.
THEOREM AccountsInvariant == Spec => []Accounts
<1>1. Init => Accounts
  <2> SUFFICES ASSUME Init PROVE Accounts
    OBVIOUS
  <2>1. LiveTasks = {} /\ outstanding = 0
    BY DEF Init, LiveTasks, Live
  <2>2. OutstandingExact
    BY <2>1, FS_EmptySet DEF OutstandingExact, LiveTasks
  <2>3. AttemptsLeft
    BY SpecAssumption DEF Init, AttemptsLeft
  <2> QED BY <2>2, <2>3, GraphInit DEF Accounts, Init
<1> QED BY <1>1, AccountsStep, PTL DEF Spec

\* q.outstanding is always the number of tasks that are not terminal, so
\* acquire lets workers leave neither early nor late.
THEOREM OutstandingExactAlways == Spec => []OutstandingExact
<1>1. Accounts => OutstandingExact
  BY DEF Accounts
<1> QED BY <1>1, AccountsInvariant, PTL

\* The type invariant, with the bound on attempts that finish enforces.
THEOREM TypeCorrect == Spec => []TypeOK
<1>1. Accounts => TypeOK
  <2> SUFFICES ASSUME Accounts PROVE TypeOK
    OBVIOUS
  <2>1. waitingOn \in [Task -> Nat]
    BY DEF Accounts, Graph, Shape
  <2>2. Cardinality(LiveTasks) \in Nat
    BY CardinalityOfTasks DEF LiveTasks
  <2>3. outstanding \in Nat
    BY <2>2 DEF Accounts, OutstandingExact, LiveTasks
  <2> QED BY <2>1, <2>3 DEF Accounts, Graph, Shape, AttemptsLeft, TypeOK
<1> QED BY <1>1, AccountsInvariant, PTL

\* No step of the queue touches the status or the attempts of a terminal
\* task.
LEMMA TerminalStaysStep ==
    ASSUME Graph, [Next]_vars, NEW u \in Task, Terminal(u)
    PROVE  status'[u] = status[u] /\ attempts'[u] = attempts[u]
<1> DEFINE Kept == status'[u] = status[u] /\ attempts'[u] = attempts[u]
<1>0. status[u] \in Final /\ status[u] \notin Live /\ status[u] # "Absent"
  BY DEF Terminal, Final, Live
<1>1. ASSUME NEW w \in Worker, Release(w)
      PROVE  holding[w] \in Task /\ status[holding[w]] = "Running"
  BY <1>1 DEF Release, Graph, OnePlace, Shape
<1>2. CASE \/ Start \/ SubmitIgnored \/ Tick \/ UNCHANGED vars
           \/ \E t \in Task : CancelRunning(t)
           \/ \E c \in Closer : \/ ShutdownBegin(c) \/ ShutdownExpire(c) \/ ShutdownStart(c)
                                \/ ShutdownNotify(c) \/ ShutdownDrained(c)
           \/ \E w \in Worker : AcquireExit(w) \/ AcquireSleep(w) \/ Wake(w)
  BY <1>2 DEF Start, SubmitIgnored, Tick, vars, CancelRunning, ShutdownBegin, ShutdownExpire,
     ShutdownStart, ShutdownNotify, ShutdownDrained, AcquireExit, AcquireSleep, Wake,
     taskVars, heapVars, workVars
<1>3. ASSUME NEW t \in Task, NEW st \in Final, FinalizeUnsuccessful(t, st), attempts' = attempts,
             status[t] \in Live
      PROVE  Kept
  <2>1. u \notin Cascade(t)
    BY <1>0, <1>3, CascadeBlocked DEF Live
  <2>2. status'[u] = IF u = t THEN st ELSE IF u \in Cascade(t) THEN "Cancelled" ELSE status[u]
    BY <1>3 DEF FinalizeUnsuccessful
  <2> QED BY <1>0, <1>3, <2>1, <2>2
<1>4. ASSUME NEW t \in Task, CancelQueued(t) PROVE Kept
  BY <1>3, <1>4 DEF CancelQueued, Live, Final
<1>5. ASSUME NEW w \in Worker, NEW permanent \in BOOLEAN, FinishFailed(w, permanent) PROVE Kept
  <2>1. PICK st \in Final : FinalizeUnsuccessful(holding[w], st) /\ attempts' = attempts /\ Release(w)
    BY <1>5 DEF FinishFailed, Final
  <2>2. holding[w] \in Task /\ status[holding[w]] \in Live
    BY <1>1, <2>1 DEF Live
  <2> QED BY <1>3, <2>1, <2>2
<1>6. ASSUME NEW w \in Worker, FinishOk(w) PROVE Kept
  <2>1. u \notin Freed({d \in dependents[holding[w]] : ~Terminal(d)})
    BY DEF Freed
  <2>2. u # holding[w] /\ attempts' = attempts
    BY <1>0, <1>1, <1>6 DEF FinishOk, Live
  <2> QED BY <1>6, <2>1, <2>2 DEF FinishOk, FinalizeSucceeded
<1>7. ASSUME NEW w \in Worker, NEW backoff \in 0..MaxTime, FinishRetry(w, backoff) PROVE Kept
  <2>1. u # holding[w]
    BY <1>0, <1>1, <1>7 DEF FinishRetry, Live
  <2> QED BY <1>7, <2>1 DEF FinishRetry, Graph, Shape
<1>8. ASSUME NEW w \in Worker, NEW t \in Task, AcquireTask(w, t) PROVE Kept
  <2>1. u \notin ready \cup Due
    BY <1>0 DEF Graph, OnePlace, Due, Live
  <2> QED BY <1>8, <2>1 DEF AcquireTask, Graph, Shape
<1>9. ASSUME NEW t \in Task, NEW deps \in SUBSET Task, NEW at \in 0..MaxTime,
             \/ SubmitAccepted(t, deps, at)
             \/ \E early \in SUBSET deps : SubmitDoomed(t, deps, at, early)
      PROVE  Kept
  BY <1>0, <1>9 DEF SubmitAccepted, SubmitDoomed, Graph, Shape
<1>10. ASSUME NEW c \in Closer, ShutdownSweep(c) PROVE Kept
  BY <1>10 DEF ShutdownSweep
<1>11. CASE Client
  BY <1>2, <1>4, <1>9, <1>11 DEF Client
<1>12. ASSUME NEW w \in Worker, WorkerStep(w) \/ HandlerReturns(w) PROVE Kept
  BY <1>2, <1>5, <1>6, <1>7, <1>8, <1>12 DEF WorkerStep, HandlerReturns
<1>13. ASSUME NEW c \in Closer, CloserStep(c) PROVE Kept
  BY <1>2, <1>10, <1>13 DEF CloserStep
<1> QED BY <1>2, <1>11, <1>12, <1>13 DEF Next

\* A terminal status is final, whatever Cancel, finish, the cascade and
\* Shutdown do later.
THEOREM TerminalStaysAlways == Spec => TerminalStays
<1>1. Graph /\ [Next]_vars => TerminalKept
  BY TerminalStaysStep DEF TerminalKept
<1> QED BY <1>1, GraphInvariant, PTL DEF Spec, TerminalStays

\* The inductive invariant behind wake-ups: whoever listens on the current
\* channel is asleep and has missed nothing.
Vigil == Graph /\ (\A w \in listening : pc[w] = "asleep") /\ NoLostWakeup

\* Every step that gives a sleeper something to do closes its channel, or its
\* timer is early enough.
LEMMA VigilStep == Vigil /\ [Next]_vars => Vigil'
<1> SUFFICES ASSUME Vigil, [Next]_vars PROVE Vigil'
  OBVIOUS
<1>0. Graph'
  BY GraphStep DEF Vigil
<1>s. Shape
  BY DEF Vigil, Graph
<1>1. ASSUME listening' = {} PROVE Vigil'
  BY <1>0, <1>1 DEF Vigil, NoLostWakeup
<1>2. ASSUME UNCHANGED <<ready, delayed, runAt, closing, outstanding>>,
             now' \in Nat, now <= now',
             \A w \in listening' : w \in listening /\ pc'[w] = pc[w] /\ timer'[w] = timer[w]
      PROVE  Vigil'
  <2> SUFFICES ASSUME NEW w \in listening'
               PROVE  /\ pc'[w] = "asleep"
                      /\ ready' = {} \/ timer'[w] <= now'
                      /\ \A d \in delayed' : timer'[w] <= runAt'[d]
                      /\ ~NothingLeft'
    BY <1>0 DEF Vigil, NoLostWakeup
  <2>1. w \in listening /\ w \in Worker /\ timer[w] \in Nat /\ now \in Nat
    BY <1>s, <1>2, BoundAssumption DEF Shape, Never
  <2> QED BY <1>2, <2>1 DEF Vigil, NoLostWakeup, NothingLeft
<1>3. \A w \in Worker : pc[w] # "asleep" => w \notin listening
  BY DEF Vigil
<1>4. ~started => listening = {}
  BY <1>s, <1>3 DEF Vigil, Shape
<1>5. now \in Nat /\ now <= now
  BY <1>s, BoundAssumption DEF Vigil, Shape
<1>6. CASE Start \/ \E c \in Closer : ShutdownStart(c)
  BY <1>1, <1>2, <1>4, <1>5, <1>6 DEF Start, ShutdownStart, LaunchWorkers, taskVars, heapVars
<1>7. CASE \/ SubmitIgnored \/ UNCHANGED vars \/ \E t \in Task : CancelRunning(t)
           \/ \E c \in Closer : ShutdownDrained(c) \/ ShutdownExpire(c)
  BY <1>2, <1>5, <1>7 DEF SubmitIgnored, vars, CancelRunning, ShutdownDrained, ShutdownExpire,
     taskVars, heapVars, flagVars, workVars
<1>8. CASE Tick
  BY <1>2, <1>5, <1>8 DEF Tick, taskVars, heapVars, flagVars, workVars
<1>9. ASSUME NEW w \in Worker, AcquireExit(w) \/ Wake(w) PROVE Vigil'
  <2>1. w \notin listening'
    BY <1>3, <1>9 DEF AcquireExit, Wake
  <2> QED BY <1>s, <1>2, <1>5, <1>9, <2>1
          DEF AcquireExit, Wake, taskVars, heapVars, flagVars, Vigil, Shape
<1>10. ASSUME NEW w \in Worker, AcquireSleep(w) PROVE Vigil'
  <2>1. /\ ready = {} /\ ~NothingLeft /\ listening' = listening \cup {w}
        /\ UNCHANGED <<ready, delayed, runAt, closing, outstanding, now>>
        /\ \A v \in Worker : pc'[v] = IF v = w THEN "asleep" ELSE pc[v]
        /\ \A d \in delayed : timer'[w] <= runAt[d]
        /\ \A v \in Worker : v # w => timer'[v] = timer[v]
    BY <1>s, <1>10 DEF AcquireSleep, taskVars, heapVars, flagVars, Vigil, Shape
  <2> QED BY <1>s, <1>0, <2>1 DEF Vigil, NoLostWakeup, NothingLeft, Shape
<1>11. ASSUME NEW w \in Worker, NEW t \in Task, AcquireTask(w, t) PROVE Vigil'
  <2>1. /\ ready' \subseteq ready \cup Due /\ delayed' \subseteq delayed /\ pc[w] = "polling"
        /\ UNCHANGED <<runAt, closing, outstanding, now, timer, listening>>
        /\ \A v \in Worker : v # w => pc'[v] = pc[v]
    BY <1>s, <1>11 DEF AcquireTask, flagVars, Vigil, Shape
  <2> SUFFICES ASSUME NEW v \in listening
               PROVE  /\ pc'[v] = "asleep"
                      /\ ready' = {} \/ timer[v] <= now
                      /\ \A d \in delayed' : timer[v] <= runAt[d]
                      /\ ~NothingLeft'
    BY <1>0, <2>1 DEF Vigil, NoLostWakeup
  <2>2. v \in Worker /\ v # w /\ timer[v] \in Nat
    BY <1>s, <2>1, <1>3, BoundAssumption DEF Shape, Never
  <2>3. \A d \in Due : timer[v] <= now
    <3> TAKE d \in Due
    <3>1. d \in delayed /\ runAt[d] <= now /\ runAt[d] \in Nat
      BY <1>s DEF Due, Shape
    <3>2. timer[v] <= runAt[d]
      BY <3>1 DEF Vigil, NoLostWakeup
    <3> QED BY <1>5, <2>2, <3>1, <3>2
  <2>4. ready' = {} \/ timer[v] <= now
    BY <2>1, <2>3 DEF Vigil, NoLostWakeup
  <2> QED BY <2>1, <2>2, <2>4 DEF Vigil, NoLostWakeup, NothingLeft
<1>12. ASSUME NEW w \in Worker, HandlerReturns(w) PROVE Vigil'
  BY <1>1, <1>12 DEF HandlerReturns, FinishOk, FinishFailed, FinishRetry, FinalizeSucceeded,
     FinalizeUnsuccessful, NotifyLocked
<1>13. ASSUME NEW t \in Task, CancelQueued(t) PROVE Vigil'
  BY <1>1, <1>13 DEF CancelQueued, FinalizeUnsuccessful, NotifyLocked
<1>14. ASSUME NEW c \in Closer, ShutdownBegin(c) \/ ShutdownNotify(c) PROVE Vigil'
  BY <1>1, <1>4, <1>14 DEF ShutdownBegin, ShutdownNotify, NotifyLocked
<1>15. ASSUME NEW c \in Closer, ShutdownSweep(c) PROVE Vigil'
  BY <1>s, <1>1, <1>3, <1>15 DEF ShutdownSweep, Drained, Vigil, Shape
<1>16. ASSUME NEW t \in Task, NEW deps \in SUBSET Task, NEW at \in 0..MaxTime,
              SubmitAccepted(t, deps, at)
       PROVE  Vigil'
  <2>1. CASE listening' = {}
    BY <1>1, <2>1
  <2>2. CASE listening' # {}
    <3>1. /\ UNCHANGED <<ready, delayed, listening, closing, now, timer, pc>> /\ ~closing
          /\ runAt' = [runAt EXCEPT ![t] = at] /\ status[t] = "Absent"
      BY <1>16, <2>2 DEF SubmitAccepted, NotifyLocked, flagVars, workVars
    <3>2. t \notin delayed
      BY <3>1 DEF Vigil, Graph, OnePlace
    <3>3. \A d \in delayed : runAt'[d] = runAt[d]
      BY <3>1, <3>2, <1>s DEF Shape
    <3> QED BY <1>0, <3>1, <3>3 DEF Vigil, NoLostWakeup, NothingLeft
  <2> QED BY <2>1, <2>2
<1>17. ASSUME NEW t \in Task, NEW deps \in SUBSET Task, NEW at \in 0..MaxTime,
              NEW early \in SUBSET deps, SubmitDoomed(t, deps, at, early)
       PROVE  Vigil'
  BY <1>1, <1>17 DEF SubmitDoomed, NotifyLocked
<1>18. CASE Client
  BY <1>6, <1>7, <1>13, <1>14, <1>16, <1>17, <1>18 DEF Client
<1>19. ASSUME NEW w \in Worker, WorkerStep(w) PROVE Vigil'
  BY <1>9, <1>10, <1>11, <1>19 DEF WorkerStep
<1>20. ASSUME NEW c \in Closer, CloserStep(c) PROVE Vigil'
  BY <1>6, <1>7, <1>14, <1>15, <1>20 DEF CloserStep
<1> QED BY <1>7, <1>8, <1>12, <1>18, <1>19, <1>20 DEF Next

\* A sleeping worker whose channel is still open has missed nothing: neither
\* ready work, nor an earlier delayed task, nor the end of the queue.
THEOREM NoLostWakeupAlways == Spec => []NoLostWakeup
<1>1. Init => Vigil
  BY GraphInit DEF Init, Vigil, NoLostWakeup
<1>2. Vigil => NoLostWakeup
  BY DEF Vigil
<1> QED BY <1>1, <1>2, VigilStep, PTL DEF Spec

\* The inductive invariant behind Shutdown: why a worker may have left and
\* why a call may have returned.
Closing ==
    /\ \A w \in Worker : pc[w] = "exited" => closing /\ (hardStopped \/ LiveTasks = {})
    /\ hardStopped => /\ closing
                      /\ (\E c \in Closer : closer[c] = "stopping") \/ LiveTasks = {}
    /\ \A c \in Closer : /\ closer[c] # "idle" => closing
                         /\ closer[c] = "returned" => Drained

\* Submit refuses when the queue is closing, so a drained queue stays
\* drained.
LEMMA NoneAddedWhenClosing ==
    ASSUME Accounts, [Next]_vars, closing, LiveTasks = {}
    PROVE  LiveTasks' = {}
<1>1. \A u \in Task : status[u] \in {"Absent"} \cup Final
  BY DEF LiveTasks, Accounts, Graph, Shape, Status
<1>2. \A u \in Task : ~Terminal(u) => status[u] = "Absent"
  BY <1>1 DEF Terminal
<1>3. \A u \in Task : Terminal(u) => status'[u] = status[u]
  BY TerminalStaysStep DEF Accounts
<1>4. \A w \in Worker : pc[w] # "running"
  BY <1>1 DEF Accounts, Graph, OnePlace, Shape, Final
<1>5. ready = {} /\ delayed = {} /\ Due = {}
  BY <1>1 DEF Accounts, Graph, OnePlace, Due, Final
<1>6. ASSUME NEW u \in Task, status[u] = "Absent" PROVE status'[u] = "Absent"
  <2>1. \A t \in Task : status[t] \notin {"Blocked", "Scheduled", "Ready", "Running"}
    BY <1>1 DEF Final
  <2>2. CASE Client
    <3>1. ASSUME NEW t \in Task, NEW deps \in SUBSET Task, NEW at \in 0..MaxTime,
                 \/ SubmitAccepted(t, deps, at)
                 \/ \E early \in SUBSET deps : SubmitDoomed(t, deps, at, early)
          PROVE  FALSE
      BY <3>1 DEF SubmitAccepted, SubmitDoomed
    <3>2. ASSUME NEW t \in Task, CancelQueued(t) \/ CancelRunning(t) PROVE FALSE
      BY <2>1, <3>2 DEF CancelQueued, CancelRunning
    <3>3. CASE Start \/ SubmitIgnored \/ \E c \in Closer : ShutdownBegin(c) \/ ShutdownExpire(c)
      BY <1>6, <3>3 DEF Start, SubmitIgnored, ShutdownBegin, ShutdownExpire, taskVars
    <3> QED BY <2>2, <3>1, <3>2, <3>3 DEF Client
  <2>3. ASSUME NEW w \in Worker, WorkerStep(w) PROVE status'[u] = "Absent"
    BY <1>5, <1>6, <2>3 DEF WorkerStep, AcquireExit, AcquireTask, AcquireSleep, Wake, taskVars
  <2>4. ASSUME NEW w \in Worker, HandlerReturns(w) PROVE FALSE
    BY <1>4, <2>4 DEF HandlerReturns, FinishOk, FinishFailed, FinishRetry, Release
  <2>5. ASSUME NEW c \in Closer, CloserStep(c) PROVE status'[u] = "Absent"
    BY <1>6, <2>5 DEF CloserStep, ShutdownStart, ShutdownNotify, ShutdownDrained, ShutdownSweep,
       taskVars, Submitted
  <2>6. CASE Tick \/ UNCHANGED vars
    BY <1>6, <2>6 DEF Tick, vars, taskVars
  <2> QED BY <2>2, <2>3, <2>4, <2>5, <2>6 DEF Next
<1> QED BY <1>1, <1>2, <1>3, <1>6 DEF LiveTasks, Live, Final

\* Every step of the queue keeps the reasons for leaving valid.
LEMMA ClosingStep == Accounts /\ Closing /\ [Next]_vars => Closing'
<1> SUFFICES ASSUME Accounts, Closing, [Next]_vars PROVE Closing'
  OBVIOUS
<1>s. Shape /\ Shape'
  BY ShapeStep DEF Accounts, Graph
<1>0. closing /\ LiveTasks = {} => LiveTasks' = {}
  BY NoneAddedWhenClosing
<1>1. ASSUME UNCHANGED <<closing, hardStopped, closer>>,
             \A w \in Worker : pc'[w] = "exited" <=> pc[w] = "exited"
      PROVE  Closing'
  BY <1>0, <1>1 DEF Closing, Drained
<1>2. ~started => \A w \in Worker : pc[w] = "new"
  BY <1>s DEF Shape
<1>3. CASE \/ Start \/ SubmitIgnored \/ Tick \/ UNCHANGED vars
           \/ \E t \in Task : CancelQueued(t) \/ CancelRunning(t)
           \/ \E w \in Worker : AcquireSleep(w) \/ Wake(w)
           \/ \E w \in Worker, t \in Task : AcquireTask(w, t)
           \/ \E w \in Worker : HandlerReturns(w)
           \/ \E t \in Task, deps \in SUBSET Task, at \in 0..MaxTime :
                 \/ SubmitAccepted(t, deps, at)
                 \/ \E early \in SUBSET deps : SubmitDoomed(t, deps, at, early)
  <2>1. UNCHANGED <<closing, hardStopped, closer>>
    <3>1. CASE \/ Start \/ SubmitIgnored \/ Tick \/ UNCHANGED vars
               \/ \E t \in Task : CancelQueued(t) \/ CancelRunning(t)
      BY <3>1 DEF Start, SubmitIgnored, Tick, vars, CancelQueued, CancelRunning, flagVars
    <3>2. CASE \/ \E w \in Worker : AcquireSleep(w) \/ Wake(w)
               \/ \E w \in Worker, t \in Task : AcquireTask(w, t)
      BY <3>2 DEF AcquireSleep, Wake, AcquireTask, flagVars
    <3>3. CASE \E w \in Worker : HandlerReturns(w)
      BY <3>3 DEF HandlerReturns, FinishOk, FinishFailed, FinishRetry, flagVars
    <3>4. ASSUME NEW t \in Task, NEW deps \in SUBSET Task, NEW at \in 0..MaxTime,
                 \/ SubmitAccepted(t, deps, at)
                 \/ \E early \in SUBSET deps : SubmitDoomed(t, deps, at, early)
          PROVE  UNCHANGED <<closing, hardStopped, closer>>
      BY <3>4 DEF SubmitAccepted, SubmitDoomed, flagVars
    <3> QED BY <1>3, <3>1, <3>2, <3>3, <3>4
  <2>2. ASSUME pc' = pc PROVE Closing'
    BY <1>1, <2>1, <2>2
  <2>3. ASSUME NEW w \in Worker, NEW x \in {"asleep", "polling", "running"}, pc[w] # "exited",
               pc' = [pc EXCEPT ![w] = x]
        PROVE  Closing'
    BY <1>1, <1>s, <2>1, <2>3 DEF Shape
  <2>4. CASE Start
    BY <1>1, <1>2, <2>1, <2>4 DEF Start, LaunchWorkers
  <2>5. ASSUME NEW w \in Worker, AcquireSleep(w) \/ Wake(w) PROVE Closing'
    BY <2>3, <2>5 DEF AcquireSleep, Wake
  <2>6. ASSUME NEW w \in Worker, NEW t \in Task, AcquireTask(w, t) PROVE Closing'
    BY <2>3, <2>6 DEF AcquireTask
  <2>7. ASSUME NEW w \in Worker, HandlerReturns(w) PROVE Closing'
    BY <2>3, <2>7 DEF HandlerReturns, FinishOk, FinishFailed, FinishRetry, Release
  <2>8. CASE \/ SubmitIgnored \/ Tick \/ UNCHANGED vars
             \/ \E t \in Task : CancelQueued(t) \/ CancelRunning(t)
    BY <2>2, <2>8 DEF SubmitIgnored, Tick, vars, CancelQueued, CancelRunning, workVars
  <2>9. ASSUME NEW t \in Task, NEW deps \in SUBSET Task, NEW at \in 0..MaxTime,
               \/ SubmitAccepted(t, deps, at)
               \/ \E early \in SUBSET deps : SubmitDoomed(t, deps, at, early)
        PROVE  Closing'
    BY <2>2, <2>9 DEF SubmitAccepted, SubmitDoomed, workVars
  <2> QED BY <1>3, <2>4, <2>5, <2>6, <2>7, <2>8, <2>9
<1>4. ASSUME NEW w \in Worker, AcquireExit(w) PROVE Closing'
  <2>1. /\ UNCHANGED <<status, outstanding, closing, hardStopped, closer>>
        /\ \A v \in Worker : pc'[v] = IF v = w THEN "exited" ELSE pc[v]
        /\ hardStopped \/ (closing /\ outstanding = 0)
    BY <1>4, <1>s DEF AcquireExit, Shape, NothingLeft, taskVars, heapVars, flagVars
  <2>2. LiveTasks' = LiveTasks
    BY <2>1 DEF LiveTasks
  <2>3. IsFiniteSet(LiveTasks)
    BY CardinalityOfTasks DEF LiveTasks
  <2>4. outstanding = 0 => LiveTasks = {}
    BY <2>3, FS_EmptySet DEF Accounts, OutstandingExact, LiveTasks
  <2> QED BY <2>1, <2>2, <2>4 DEF Closing, Drained
<1>5. ASSUME NEW c \in Closer, ShutdownBegin(c) PROVE Closing'
  <2>1. /\ UNCHANGED <<status, hardStopped, pc>> /\ closing' /\ closer[c] = "idle"
        /\ \A b \in Closer : b # c => closer'[b] = closer[b]
        /\ closer'[c] \in {"draining", "starting"}
    BY <1>5, <1>s DEF ShutdownBegin, taskVars, workVars, Shape
  <2>2. LiveTasks' = LiveTasks
    BY <2>1 DEF LiveTasks
  <2> QED BY <2>1, <2>2 DEF Closing, Drained
<1>6. ASSUME NEW c \in Closer, ShutdownExpire(c) PROVE Closing'
  <2>1. /\ UNCHANGED <<status, closing, pc>> /\ hardStopped' /\ closer[c] = "draining"
        /\ \A b \in Closer : closer'[b] = IF b = c THEN "stopping" ELSE closer[b]
    BY <1>6, <1>s DEF ShutdownExpire, taskVars, workVars, Shape
  <2>2. closing
    BY <2>1 DEF Closing
  <2> QED BY <2>1, <2>2 DEF Closing, Drained
<1>7. ASSUME NEW c \in Closer, ShutdownStart(c) PROVE Closing'
  <2>1. /\ UNCHANGED <<status, closing, hardStopped>> /\ closer[c] = "starting"
        /\ \A b \in Closer : closer'[b] = IF b = c THEN "notifying" ELSE closer[b]
        /\ \A w \in Worker : pc'[w] = "exited" <=> pc[w] = "exited"
    BY <1>2, <1>7, <1>s DEF ShutdownStart, LaunchWorkers, taskVars, Shape
  <2>2. LiveTasks' = LiveTasks
    BY <2>1 DEF LiveTasks
  <2> QED BY <2>1, <2>2 DEF Closing, Drained
<1>8. ASSUME NEW c \in Closer, ShutdownNotify(c) \/ ShutdownDrained(c) PROVE Closing'
  <2>1. /\ UNCHANGED <<status, closing, hardStopped, pc>>
        /\ closer[c] \in {"notifying", "draining"}
        /\ \A b \in Closer : b # c => closer'[b] = closer[b]
        /\ \/ closer'[c] = "draining"
           \/ closer'[c] = "returned" /\ Drained
    BY <1>8, <1>s DEF ShutdownNotify, ShutdownDrained, taskVars, flagVars, workVars, Shape
  <2>2. LiveTasks' = LiveTasks
    BY <2>1 DEF LiveTasks
  <2> QED BY <2>1, <2>2 DEF Closing, Drained
<1>9. ASSUME NEW c \in Closer, ShutdownSweep(c) PROVE Closing'
  <2>1. /\ UNCHANGED <<closing, hardStopped, pc>> /\ closer[c] = "stopping" /\ Drained
        /\ \A b \in Closer : b # c => closer'[b] = closer[b]
        /\ \A u \in Task : status'[u] = IF u \in Submitted /\ ~Terminal(u) THEN "Cancelled"
                                        ELSE status[u]
    BY <1>9, <1>s DEF ShutdownSweep, flagVars, workVars, Shape
  <2>2. LiveTasks' = {}
    BY <2>1, <1>s DEF LiveTasks, Shape, Submitted, Terminal, Status, Live, Final
  <2> QED BY <2>1, <2>2 DEF Closing, Drained
<1>10. CASE Client
  BY <1>3, <1>5, <1>6, <1>10 DEF Client
<1>11. ASSUME NEW c \in Closer, CloserStep(c) PROVE Closing'
  BY <1>7, <1>8, <1>9, <1>11 DEF CloserStep
<1>12. ASSUME NEW w \in Worker, WorkerStep(w) PROVE Closing'
  BY <1>3, <1>4, <1>12 DEF WorkerStep
<1> QED BY <1>3, <1>10, <1>11, <1>12 DEF Next

\* When a Shutdown returned and none is under way, no task is left and no
\* worker runs.
THEOREM ShutdownSettlesAlways == Spec => []ShutdownSettles
<1>1. Init => Closing
  BY DEF Init, Closing
<1>2. Closing => ShutdownSettles
  <2> SUFFICES ASSUME Closing, NEW c \in Closer, closer[c] = "returned",
                      \A b \in Closer : closer[b] \in {"idle", "returned"}
               PROVE  Settled
    BY DEF ShutdownSettles
  <2>1. PICK w \in Worker : TRUE
    BY WorkerAssumption
  <2>2. Drained
    BY DEF Closing
  <2>3. LiveTasks = {}
    BY <2>1, <2>2 DEF Closing, Drained
  <2> QED BY <2>2, <2>3 DEF Settled, Drained, LiveTasks
<1>3. Spec => []Closing
  BY <1>1, ClosingStep, AccountsInvariant, PTL DEF Spec
<1> QED BY <1>2, <1>3, PTL
=============================================================================
