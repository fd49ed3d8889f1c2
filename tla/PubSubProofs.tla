---------------------------- MODULE PubSubProofs ----------------------------
(***************************************************************************)
(* The broker loses no message it accepted and settles none twice,         *)
(* finishes the messages of a priority in the order they were enqueued,    *)
(* and leaves a subscriber alone once its removal has returned, for any    *)
(* number of subscriptions, messages, publishers and removals.             *)
(***************************************************************************)
EXTENDS PubSub, NumberLemmas

Working(d) == at[d] \in {"calling", "backoff"}

Types ==
    /\ registry \in [Key -> Sub \cup {None}] /\ workers \in [Key -> Sub \cup {None}]
    /\ started \in BOOLEAN
    /\ heap \in [Sub -> Seq(Message)] /\ closed \in [Sub -> BOOLEAN]
    /\ at \in [Dispatcher -> {"off", "loop", "calling", "backoff", "done", "snapshot", "pass"}]
    /\ job \in [Dispatcher -> [sub : Sub \cup {None}, msg : Message \cup {None}, attempt : Nat]]
    /\ scan \in [Runner -> [todo : SUBSET Sub, progressed : BOOLEAN]]
    /\ pub \in [Publisher -> [msg : Message \cup {None}, targets : SUBSET Sub]]
    /\ call \in [Remover -> [todo : SUBSET Sub, step : {"none", "next", "closed", "join"},
                             sub : Sub \cup {None}, join : Sub \cup {None}]]
    /\ accepted \in [Sub -> Seq(Message)] /\ finished \in [Sub -> Seq(Message)]
    /\ retired \in SUBSET (Sub \X Remover)

\* A dispatcher has a message in its hands exactly while it works, a publisher
\* as long as there is somebody to offer it to, and a removal an object once
\* it has closed it.
HandsOK ==
    /\ \A d \in Dispatcher : /\ Working(d) <=> job[d].sub # None
                             /\ Working(d) => job[d].msg # None
    /\ \A p \in Publisher : pub[p].targets # {} => pub[p].msg # None
    /\ \A t \in Remover : call[t].step \in {"closed", "join"} <=> call[t].sub # None

Base == Types /\ HandsOK

\* A worker serves its own subscription, and there are no workers where nobody
\* calls start.
WorkersOK ==
    /\ \A s \in Sub : job[s].sub \in {s, None}
    /\ ~started => \A s \in Sub : at[s] = "off"
    /\ ~MayStart => ~started

Sole == \A d, e \in Dispatcher : job[d].sub # None /\ job[d].sub = job[e].sub => d = e

\* m was enqueued before n.
Before(s, m, n) ==
    \E a, b \in DOMAIN accepted[s] : a < b /\ accepted[s][a] = m /\ accepted[s][b] = n
Came(s, m) == \E a \in DOMAIN accepted[s] : accepted[s][a] = m
Same(m, n) == PriorityOf[m] = PriorityOf[n]

QueueOK ==
    \A s \in Sub :
        /\ \A i \in DOMAIN heap[s] : Came(s, heap[s][i])
        /\ \A i, j \in DOMAIN heap[s] : i < j => Before(s, heap[s][i], heap[s][j])
JobsOK ==
    \A s \in Sub, d \in Dispatcher : job[d].sub = s =>
        /\ Came(s, job[d].msg)
        /\ \A j \in DOMAIN heap[s] : Same(job[d].msg, heap[s][j]) => Before(s, job[d].msg, heap[s][j])
FinishedOK ==
    \A s \in Sub : \A i \in DOMAIN finished[s] :
        /\ Came(s, finished[s][i])
        /\ \A j \in DOMAIN heap[s] :
              Same(finished[s][i], heap[s][j]) => Before(s, finished[s][i], heap[s][j])
        /\ \A d \in Dispatcher : job[d].sub = s /\ Same(finished[s][i], job[d].msg) =>
              Before(s, finished[s][i], job[d].msg)

OrderInv == QueueOK /\ JobsOK /\ FinishedOK /\ InOrder

\* Removals of s that are past the pop of its worker, or over.
Popped(s) ==
    \/ \E t \in Remover : call[t].step = "join" /\ call[t].sub = s
    \/ \E t \in Remover : <<s, t>> \in retired

FiledOK ==
    /\ \A k \in Key : registry[k] # None => KeyOf[registry[k]] = k
    /\ \A k \in Key : workers[k] # None => KeyOf[workers[k]] = k
    /\ \A t \in Remover : call[t].step = "join" => call[t].join \in {call[t].sub, None}
ClosedOK ==
    /\ \A s \in Sub : Popped(s) => closed[s]
    /\ \A t \in Remover : call[t].step \in {"closed", "join"} => closed[call[t].sub]
\* The worker of a subscription that is in a call is filed under its id, or
\* somebody waits for it, or it removed the subscription itself.
FoundOK ==
    \A s \in Sub :
        /\ Working(s) =>
              \/ workers[KeyOf[s]] = s /\ ~Popped(s)
              \/ \E t \in Remover : call[t].step = "join" /\ call[t].join = s
              \/ <<s, s>> \in retired
        /\ at[s] = "loop" /\ ~closed[s] => workers[KeyOf[s]] = s

QuietInv == FiledOK /\ ClosedOK /\ FoundOK
----------------------------------------------------------------------------
\* RemoveAt closes the gap.
LEMMA RemoveAtFacts ==
    ASSUME NEW S, NEW q \in Seq(S), NEW i \in 1..Len(q)
    PROVE  /\ RemoveAt(q, i) \in Seq(S) /\ Len(RemoveAt(q, i)) = Len(q) - 1
           /\ \A j \in 1..(Len(q) - 1) : RemoveAt(q, i)[j] = IF j < i THEN q[j] ELSE q[j + 1]
<1> DEFINE a == SubSeq(q, 1, i - 1)
           b == SubSeq(q, i + 1, Len(q))
<1>1. a \in Seq(S) /\ Len(a) = i - 1 /\ \A j \in 1..(i - 1) : a[j] = q[j]
  OBVIOUS
<1>2. b \in Seq(S) /\ Len(b) = Len(q) - i /\ \A j \in 1..(Len(q) - i) : b[j] = q[i + j]
  OBVIOUS
<1> HIDE DEF a, b
<1>3. /\ a \o b \in Seq(S) /\ Len(a \o b) = Len(q) - 1
      /\ \A j \in 1..(Len(q) - 1) : (a \o b)[j] = IF j <= Len(a) THEN a[j] ELSE b[j - Len(a)]
  <2>1. a \o b \in Seq(S) /\ Len(a \o b) = Len(a) + Len(b)
    <3>1. a \in Seq(S) /\ b \in Seq(S)
      BY <1>1, <1>2
    <3> QED BY <3>1
  <2>2. \A j \in 1..(Len(a) + Len(b)) : (a \o b)[j] = IF j <= Len(a) THEN a[j] ELSE b[j - Len(a)]
    BY <1>1, <1>2
  <2> QED BY <1>1, <1>2, <2>1, <2>2
<1>4. ASSUME NEW j \in 1..(Len(q) - 1) PROVE (a \o b)[j] = IF j < i THEN q[j] ELSE q[j + 1]
  <2>1. CASE j < i
    BY <1>1, <1>3, <2>1
  <2>2. CASE ~(j < i)
    <3>1. j - (i - 1) \in 1..(Len(q) - i) /\ i + (j - (i - 1)) = j + 1
      BY <2>2
    <3>2. (a \o b)[j] = b[j - (i - 1)]
      BY <1>1, <1>3, <2>2
    <3> QED BY <1>2, <2>2, <3>1, <3>2
  <2> QED BY <2>1, <2>2
<1> QED BY <1>3, <1>4 DEF RemoveAt, a, b

\* heappop: there is an oldest message among those of the best priority.
LEMMA HeadFacts ==
    ASSUME Params, heap \in [Sub -> Seq(Message)], NEW s \in Sub, heap[s] # <<>>
    PROVE  /\ Head1(s) \in 1..Len(heap[s])
           /\ \A j \in 1..Len(heap[s]) :
                 j # Head1(s) /\ Same(heap[s][Head1(s)], heap[s][j]) => Head1(s) < j
<1> DEFINE q == heap[s]
           Better(i, j) == \/ PriorityOf[q[i]] > PriorityOf[q[j]]
                           \/ PriorityOf[q[i]] = PriorityOf[q[j]] /\ i < j
           Best(n) == \E i \in 1..n : \A j \in (1..n) \ {i} : Better(i, j)
           T == {n \in Nat : n \in 1..Len(q) => Best(n)}
<1>1. q \in Seq(Message) /\ Len(q) \in Nat /\ Len(q) > 0 /\ DOMAIN q = 1..Len(q)
  OBVIOUS
<1>2. \A i \in 1..Len(q) : PriorityOf[q[i]] \in Int
  BY <1>1 DEF Params
<1> HIDE DEF q
<1>3. 0 \in T
  BY <1>1
<1>4. ASSUME NEW n \in Nat, n \in T PROVE n + 1 \in T
  <2> SUFFICES ASSUME n + 1 \in 1..Len(q) PROVE Best(n + 1)
    <3> HIDE DEF Best
    <3> QED OBVIOUS
  <2>1. CASE n = 0
    BY <2>1
  <2>2. CASE n # 0
    <3>1. PICK i \in 1..n : \A j \in (1..n) \ {i} : Better(i, j)
      BY <1>1, <1>4, <2>2
    <3>2. CASE PriorityOf[q[n + 1]] > PriorityOf[q[i]]
      <4>1. \A j \in 1..n : Better(n + 1, j)
        BY <1>1, <1>2, <3>1, <3>2
      <4>2. n + 1 \in 1..(n + 1) /\ (1..(n + 1)) \ {n + 1} = 1..n
        OBVIOUS
      <4> HIDE DEF Better
      <4> QED BY <4>1, <4>2
    <3>3. CASE ~(PriorityOf[q[n + 1]] > PriorityOf[q[i]])
      <4>1. Better(i, n + 1)
        BY <1>1, <1>2, <3>1, <3>3
      <4>2. i \in 1..(n + 1) /\ \A j \in 1..(n + 1) : j \in 1..n \/ j = n + 1
        OBVIOUS
      <4> HIDE DEF Better
      <4>3. \A j \in (1..(n + 1)) \ {i} : Better(i, j)
        BY <3>1, <4>1, <4>2
      <4> QED BY <4>2, <4>3
    <3> QED BY <3>2, <3>3
  <2> QED BY <2>1, <2>2
<1>5. Len(q) \in T
  <2> HIDE DEF T
  <2> QED BY <1>1, <1>3, <1>4, InductionOverNat
<1>6. \E i \in DOMAIN q : \A j \in DOMAIN q \ {i} : Better(i, j)
  <2> HIDE DEF Better
  <2>1. Len(q) \in 1..Len(q)
    BY <1>1
  <2> QED BY <1>1, <1>5, <2>1
<1>7. Head1(s) \in DOMAIN q /\ \A j \in DOMAIN q \ {Head1(s)} : Better(Head1(s), j)
  BY <1>6 DEF Head1, q
<1>8. ASSUME NEW j \in 1..Len(q), j # Head1(s), Same(q[Head1(s)], q[j]) PROVE Head1(s) < j
  BY <1>1, <1>2, <1>7, <1>8 DEF Same
<1> QED BY <1>1, <1>7, <1>8 DEF q

LEMMA RegisteredSubs == ASSUME Types PROVE Registered \subseteq Sub
BY DEF Types, Registered

LEMMA ScanShrinks ==
    ASSUME scan \in [Runner -> [todo : SUBSET Sub, progressed : BOOLEAN]], NEW r \in Runner, NEW s,
           scan' = [scan EXCEPT ![r].todo = @ \ {s}]
    PROVE  scan' \in [Runner -> [todo : SUBSET Sub, progressed : BOOLEAN]]
<1> SUFFICES ASSUME NEW q \in Runner PROVE scan'[q] \in [todo : SUBSET Sub, progressed : BOOLEAN]
  OBVIOUS
<1>1. scan[q] \in [todo : SUBSET Sub, progressed : BOOLEAN]
  OBVIOUS
<1>2. scan'[q] = IF q = r THEN [scan[q] EXCEPT !.todo = @ \ {s}] ELSE scan[q]
  OBVIOUS
<1> QED BY <1>1, <1>2

LEMMA AttemptCounted ==
    ASSUME job \in [Dispatcher -> [sub : Sub \cup {None}, msg : Message \cup {None}, attempt : Nat]],
           NEW d \in Dispatcher, job' = job \/ job' = [job EXCEPT ![d].attempt = @ + 1]
    PROVE  \A e \in Dispatcher : job'[e] = job[e] \/ job'[e] = [job[e] EXCEPT !.attempt = @ + 1]
<1>1. CASE job' = job
  BY <1>1
<1>2. CASE job' = [job EXCEPT ![d].attempt = @ + 1]
  <2>1. job'[d] = [job[d] EXCEPT !.attempt = @ + 1]
    BY <1>2
  <2>2. \A e \in Dispatcher : e # d => job'[e] = job[e]
    BY <1>2
  <2> QED BY <2>1, <2>2
<1> QED BY <1>1, <1>2

\* _take: the message leaves the heap for the hands of the dispatcher.
LEMMA TakeBase ==
    ASSUME Params, Base, NEW d \in Dispatcher, NEW s \in Sub, ~Working(d), Take(d, s),
           scan' \in [Runner -> [todo : SUBSET Sub, progressed : BOOLEAN]]
    PROVE  Base'
<1> USE DEF Base, Types
<1>1. heap[s] \in Seq(Message) /\ heap[s] # <<>> /\ Head1(s) \in 1..Len(heap[s])
  BY HeadFacts DEF Take, CanTake
<1>2. heap[s][Head1(s)] \in Message /\ RemoveAt(heap[s], Head1(s)) \in Seq(Message)
  BY <1>1, RemoveAtFacts
<1>3. /\ heap' \in [Sub -> Seq(Message)]
      /\ at' = [at EXCEPT ![d] = "calling"]
      /\ job' = [job EXCEPT ![d] = [sub |-> s, msg |-> heap[s][Head1(s)], attempt |-> 1]]
      /\ UNCHANGED <<registry, workers, started, closed, pub, call, accepted, finished, retired>>
  BY <1>2 DEF Take, regVars, histVars
<1>4. Types'
  BY <1>2, <1>3
<1>5. HandsOK'
  <2>1. ASSUME NEW e \in Dispatcher PROVE (Working(e) <=> job[e].sub # None)' /\ (Working(e) => job[e].msg # None)'
    <3>1. CASE e = d
      BY <1>2, <1>3, <3>1 DEF Params, Working
    <3>2. CASE e # d
      BY <1>3, <3>2 DEF HandsOK, Working
    <3> QED BY <3>1, <3>2
  <2> QED BY <1>3, <2>1 DEF HandsOK
<1> QED BY <1>4, <1>5

\* The end of dispatch_one: the hands are empty again.
LEMMA EndBase ==
    ASSUME Params, Base, NEW d \in Dispatcher, Working(d), EndDispatch(d)
    PROVE  Base'
<1> USE DEF Base, Types
<1> DEFINE s == job[d].sub
<1>1. s \in Sub /\ job[d].msg \in Message
  BY DEF HandsOK
<1>2. /\ finished' = [finished EXCEPT ![s] = Append(@, job[d].msg)]
      /\ at' = [at EXCEPT ![d] = IF d \in Sub THEN "loop" ELSE "pass"]
      /\ job' = [job EXCEPT ![d] = NoJob]
      /\ scan' = [r \in Runner |-> IF r = d THEN [scan[r] EXCEPT !.progressed = TRUE] ELSE scan[r]]
      /\ UNCHANGED <<registry, workers, started, heap, closed, pub, call, accepted, retired>>
  BY DEF EndDispatch, regVars
<1>3. finished' \in [Sub -> Seq(Message)]
  BY <1>1, <1>2
<1>4. scan' \in [Runner -> [todo : SUBSET Sub, progressed : BOOLEAN]]
  <2> SUFFICES ASSUME NEW r \in Runner PROVE scan'[r] \in [todo : SUBSET Sub, progressed : BOOLEAN]
    BY <1>2
  <2>1. scan[r] \in [todo : SUBSET Sub, progressed : BOOLEAN]
    OBVIOUS
  <2> QED BY <1>2, <2>1
<1>5. Types'
  BY <1>2, <1>3, <1>4 DEF NoJob
<1>6. HandsOK'
  BY <1>2 DEF HandsOK, Working, NoJob
<1> QED BY <1>5, <1>6

\* A removal starts from registered objects.
LEMMA RemovesBase ==
    ASSUME Params, Base, NEW t \in Remover, NEW objects \in SUBSET Sub, Removes(t, objects),
           registry' \in [Key -> Sub \cup {None}]
    PROVE  Base'
<1> USE DEF Base, Types
<1>1. UNCHANGED <<workers, started, heap, closed, at, job, scan, pub, accepted, finished, retired>>
  BY DEF Removes, subVars, dispVars, histVars
<1>2. \/ call' = call
      \/ call' = [call EXCEPT ![t] = [todo |-> objects, step |-> "next", sub |-> None, join |-> None]]
  BY DEF Removes, Remaining
<1>3. Types'
  <2>1. call' \in [Remover -> [todo : SUBSET Sub, step : {"none", "next", "closed", "join"},
                              sub : Sub \cup {None}, join : Sub \cup {None}]]
    <3> DEFINE new == [todo |-> objects, step |-> "next", sub |-> None, join |-> None]
    <3>1. new \in [todo : SUBSET Sub, step : {"none", "next", "closed", "join"},
                   sub : Sub \cup {None}, join : Sub \cup {None}]
      OBVIOUS
    <3> HIDE DEF new
    <3>2. call' = call \/ call' = [call EXCEPT ![t] = new]
      BY <1>2 DEF new
    <3> QED BY <3>1, <3>2
  <2> QED BY <1>1, <2>1
<1>4. HandsOK'
  <2>1. ASSUME NEW u \in Remover PROVE call'[u].step \in {"closed", "join"} <=> call'[u].sub # None
    <3>1. call'[u] = call[u] \/ (call'[u].step = "next" /\ call'[u].sub = None)
      BY <1>2
    <3> QED BY <3>1 DEF HandsOK
  <2> QED BY <1>1, <2>1 DEF HandsOK, Working
<1> QED BY <1>3, <1>4

CallRecord == [todo : SUBSET Sub, step : {"none", "next", "closed", "join"},
               sub : Sub \cup {None}, join : Sub \cup {None}]

\* The steps of a removal keep an object in hand from its close to its join.
LEMMA RetireBase ==
    ASSUME Params, Base, NEW t \in Remover, NEW c \in CallRecord,
           c.step \in {"closed", "join"} <=> c.sub # None,
           call' = [call EXCEPT ![t] = c],
           heap' \in [Sub -> Seq(Message)], closed' \in [Sub -> BOOLEAN],
           workers' \in [Key -> Sub \cup {None}], retired' \in SUBSET (Sub \X Remover),
           UNCHANGED <<registry, started, at, job, scan, pub, accepted, finished>>
    PROVE  Base'
<1> USE DEF Base, Types
<1>1. call \in [Remover -> CallRecord] /\ call' \in [Remover -> CallRecord]
  BY DEF CallRecord
<1>2. Types'
  BY <1>1 DEF CallRecord
<1>3. ASSUME NEW u \in Remover PROVE call'[u].step \in {"closed", "join"} <=> call'[u].sub # None
  <2>1. call'[u] = IF u = t THEN c ELSE call[u]
    BY <1>1
  <2> QED BY <2>1 DEF HandsOK
<1>4. HandsOK'
  BY <1>3 DEF HandsOK, Working
<1> QED BY <1>2, <1>4

\* The base of the invariants: types, and who has what in hand.
LEMMA BaseStep ==
    ASSUME Params, Base, WorkersOK, [Next]_vars
    PROVE  Base'
<1> USE DEF Base, Types
<1>1. CASE UNCHANGED vars
  BY <1>1 DEF vars, regVars, subVars, dispVars, histVars, HandsOK, Working
<1>2. ASSUME NEW topic \in Topic, CreateTopic(topic) PROVE Base'
  BY <1>2 DEF CreateTopic, subVars, dispVars, histVars, HandsOK, Working
<1>3. ASSUME NEW s \in Sub, Subscribe(s) PROVE Base'
  <2>1. KeyOf[s] \in Key /\ s \in Dispatcher /\ at[s] = "off"
    BY <1>3 DEF Subscribe, Fresh, Params, Dispatcher
  <2>2. /\ registry' = [registry EXCEPT ![KeyOf[s]] = s]
        /\ at' = at \/ at' = [at EXCEPT ![s] = "loop"]
        /\ workers' = workers \/ workers' = [workers EXCEPT ![KeyOf[s]] = s]
        /\ UNCHANGED <<started, heap, closed, job, scan, pub, call, accepted, finished, retired>>
    BY <1>3 DEF Subscribe, subVars, histVars
  <2>3. registry' \in [Key -> Sub \cup {None}] /\ workers' \in [Key -> Sub \cup {None}]
    BY <2>1, <2>2
  <2>4. at' \in [Dispatcher -> {"off", "loop", "calling", "backoff", "done", "snapshot", "pass"}]
    BY <2>1, <2>2
  <2>5. Types'
    BY <2>2, <2>3, <2>4
  <2>6. HandsOK'
    BY <2>1, <2>2 DEF HandsOK, Working
  <2> QED BY <2>5, <2>6
<1>4. ASSUME Start PROVE Base'
  <2>1. /\ started' = TRUE
        /\ at' = [d \in Dispatcher |-> IF d \in Registered THEN "loop" ELSE at[d]]
        /\ workers' = [k \in Key |-> IF registry[k] # None THEN registry[k] ELSE workers[k]]
        /\ UNCHANGED <<registry, heap, closed, job, scan, pub, call, accepted, finished, retired>>
    BY <1>4 DEF Start, subVars, histVars
  <2>2. Types'
    BY <2>1
  <2>3. HandsOK'
    <3>1. \A s \in Sub : at[s] = "off"
      BY <1>4 DEF Start, WorkersOK
    <3> QED BY <2>1, <3>1, RegisteredSubs DEF HandsOK, Working
  <2> QED BY <2>2, <2>3
<1>5. ASSUME NEW p \in Publisher, NEW m \in Message, NEW topic \in Topic, PublishSnapshot(p, m, topic) PROVE Base'
  <2> DEFINE targets == {s \in Registered : TopicOf[KeyOf[s]] = topic}
  <2>1. targets \in SUBSET Sub
    BY RegisteredSubs
  <2> HIDE DEF targets
  <2>2. /\ pub' = [pub EXCEPT ![p] = [msg |-> m, targets |-> targets]]
        /\ UNCHANGED <<registry, workers, started, heap, closed, at, job, scan, call, accepted, finished, retired>>
    BY <1>5 DEF PublishSnapshot, regVars, subVars, dispVars, histVars, targets
  <2>3. Types'
    BY <2>1, <2>2
  <2>4. HandsOK'
    BY <2>2 DEF HandsOK, Working, Params
  <2> QED BY <2>3, <2>4
<1>6. ASSUME NEW p \in Publisher, NEW s \in Sub, Offer(p, s) PROVE Base'
  <2>1. pub[p].msg \in Message /\ s \in pub[p].targets
    BY <1>6 DEF Offer, HandsOK
  <2>2. /\ pub' = [pub EXCEPT ![p].targets = @ \ {s}]
        /\ heap' = heap \/ heap' = [heap EXCEPT ![s] = Append(@, pub[p].msg)]
        /\ accepted' = accepted \/ accepted' = [accepted EXCEPT ![s] = Append(@, pub[p].msg)]
        /\ UNCHANGED <<registry, workers, started, closed, at, job, scan, call, finished, retired>>
    BY <1>6 DEF Offer, regVars, dispVars
  <2> DEFINE m == pub[p].msg
  <2>3. heap' \in [Sub -> Seq(Message)]
    <3>1. Append(heap[s], m) \in Seq(Message)
      BY <2>1
    <3> HIDE DEF m
    <3> QED BY <2>2, <3>1 DEF m
  <2>4. accepted' \in [Sub -> Seq(Message)]
    <3>1. Append(accepted[s], m) \in Seq(Message)
      BY <2>1
    <3> HIDE DEF m
    <3> QED BY <2>2, <3>1 DEF m
  <2>5. /\ pub' \in [Publisher -> [msg : Message \cup {None}, targets : SUBSET Sub]]
        /\ \A q \in Publisher : pub'[q].msg = pub[q].msg /\ pub'[q].targets \subseteq pub[q].targets
    <3> SUFFICES ASSUME NEW q \in Publisher
                 PROVE  /\ pub'[q] \in [msg : Message \cup {None}, targets : SUBSET Sub]
                        /\ pub'[q].msg = pub[q].msg /\ pub'[q].targets \subseteq pub[q].targets
      BY <2>2
    <3>1. pub[q] \in [msg : Message \cup {None}, targets : SUBSET Sub]
      OBVIOUS
    <3>2. \/ pub'[q] = pub[q]
          \/ pub'[q] = [msg |-> pub[q].msg, targets |-> pub[q].targets \ {s}]
      <4>1. pub'[q] = pub[q] \/ pub'[q] = [pub[q] EXCEPT !.targets = @ \ {s}]
        BY <2>2
      <4> QED BY <3>1, <4>1
    <3> QED BY <3>1, <3>2
  <2>6. Types'
    BY <2>2, <2>3, <2>4, <2>5
  <2>7. HandsOK'
    BY <2>2, <2>5 DEF HandsOK, Working
  <2> QED BY <2>6, <2>7
<1>7. ASSUME NEW p \in Publisher, PublishReturn(p) PROVE Base'
  BY <1>7 DEF PublishReturn, NoPub, regVars, subVars, dispVars, histVars, HandsOK, Working
<1>8. ASSUME NEW d \in Dispatcher, NEW new \in {"done", "backoff", "calling", "snapshot", "pass", "off"},
             at' = [at EXCEPT ![d] = new], new \in {"backoff", "calling"} <=> Working(d),
             job' = job \/ job' = [job EXCEPT ![d].attempt = @ + 1],
             scan' \in [Runner -> [todo : SUBSET Sub, progressed : BOOLEAN]],
             UNCHANGED <<registry, workers, started, heap, closed, pub, call, accepted, finished, retired>>
      PROVE  Base'
  <2>1. ASSUME NEW e \in Dispatcher
        PROVE  /\ job'[e] \in [sub : Sub \cup {None}, msg : Message \cup {None}, attempt : Nat]
               /\ job'[e].sub = job[e].sub /\ job'[e].msg = job[e].msg
    <3>1. job[e] \in [sub : Sub \cup {None}, msg : Message \cup {None}, attempt : Nat]
      OBVIOUS
    <3>2. \/ job'[e] = job[e]
          \/ job'[e] = [sub |-> job[e].sub, msg |-> job[e].msg, attempt |-> job[e].attempt + 1]
      <4>1. job'[e] = job[e] \/ job'[e] = [job[e] EXCEPT !.attempt = @ + 1]
        <5>1. job \in [Dispatcher -> [sub : Sub \cup {None}, msg : Message \cup {None}, attempt : Nat]]
          OBVIOUS
        <5>2. job' = job \/ job' = [job EXCEPT ![d].attempt = @ + 1]
          BY <1>8
        <5> QED BY <5>1, <5>2, AttemptCounted, Zenon
      <4> QED BY <3>1, <4>1
    <3> QED BY <3>1, <3>2
  <2>2. Types'
    <3>1. job' \in [Dispatcher -> [sub : Sub \cup {None}, msg : Message \cup {None}, attempt : Nat]]
      BY <1>8, <2>1
    <3>2. at' \in [Dispatcher -> {"off", "loop", "calling", "backoff", "done", "snapshot", "pass"}]
      BY <1>8
    <3> QED BY <1>8, <3>1, <3>2
  <2>3. \A e \in Dispatcher : Working(e)' <=> Working(e)
    BY <1>8 DEF Working
  <2> QED BY <1>8, <2>1, <2>2, <2>3 DEF HandsOK
<1> HIDE DEF Base, Types
<1>9. ASSUME NEW s \in Sub, WorkerTake(s) PROVE Base'
  BY <1>9, TakeBase DEF WorkerTake, Working, Dispatcher, Base, Types
<1>10. ASSUME NEW s \in Sub, WorkerExit(s) PROVE Base'
  BY <1>8, <1>10 DEF WorkerExit, Working, Dispatcher, regVars, subVars, histVars, Base, Types
<1>11. ASSUME NEW d \in Dispatcher, CallOk(d) \/ CallFailsLast(d) \/ RetryClosed(d) PROVE Base'
  BY <1>11, EndBase DEF CallOk, CallFailsLast, RetryClosed, Returning, Working
<1>12. ASSUME NEW d \in Dispatcher, CallFailsRetry(d) PROVE Base'
  BY <1>8, <1>12 DEF CallFailsRetry, Returning, Working, regVars, subVars, histVars, Base, Types
<1>13. ASSUME NEW d \in Dispatcher, Retry(d) PROVE Base'
  BY <1>8, <1>13 DEF Retry, Working, regVars, subVars, histVars, Base, Types
<1>14. ASSUME NEW r \in Runner, RunCheck(r) PROVE Base'
  BY <1>8, <1>14 DEF RunCheck, Working, Dispatcher, regVars, subVars, histVars, Base, Types
<1>15. ASSUME NEW r \in Runner, RunSnapshot(r) PROVE Base'
  <2>1. scan' \in [Runner -> [todo : SUBSET Sub, progressed : BOOLEAN]]
    BY <1>15, RegisteredSubs DEF RunSnapshot, Base, Types
  <2> QED BY <1>8, <1>15, <2>1 DEF RunSnapshot, Working, Dispatcher, regVars, subVars, histVars
<1>16. ASSUME NEW r \in Runner, NEW s \in Sub, RunDispatch(r, s) PROVE Base'
  <2>1. scan' \in [Runner -> [todo : SUBSET Sub, progressed : BOOLEAN]]
    BY <1>16, ScanShrinks DEF RunDispatch, Base, Types
  <2> QED BY <1>16, <2>1, TakeBase DEF RunDispatch, Working, Dispatcher
<1>17. ASSUME NEW r \in Runner, NEW s \in Sub, RunSkip(r, s) PROVE Base'
  <2>1. scan' \in [Runner -> [todo : SUBSET Sub, progressed : BOOLEAN]]
    BY <1>17, ScanShrinks DEF RunSkip, Base, Types
  <2> QED BY <1>17, <2>1 DEF RunSkip, regVars, subVars, histVars, Base, Types, HandsOK, Working
<1>18. ASSUME NEW r \in Runner, RunPassEnds(r) PROVE Base'
  BY <1>8, <1>18 DEF RunPassEnds, Working, Dispatcher, regVars, subVars, histVars, Base, Types
<1>19. ASSUME NEW t \in Remover, NEW k \in Key, Unsubscribe(t, k) PROVE Base'
  <2>1. {registry[k]} \in SUBSET Sub /\ registry' \in [Key -> Sub \cup {None}]
    BY <1>19 DEF Unsubscribe, Base, Types
  <2> QED BY <1>19, <2>1, RemovesBase DEF Unsubscribe
<1>20. ASSUME NEW t \in Remover, NEW topic \in Topic, DeleteTopic(t, topic) PROVE Base'
  <2>1. {s \in Registered : TopicOf[KeyOf[s]] = topic} \in SUBSET Sub /\ registry' \in [Key -> Sub \cup {None}]
    BY <1>20, RegisteredSubs DEF DeleteTopic, Base, Types
  <2> QED BY <1>20, <2>1, RemovesBase DEF DeleteTopic
<1>21. ASSUME NEW t \in Remover, CloseBroker(t) PROVE Base'
  BY <1>21, RegisteredSubs, RemovesBase DEF CloseBroker, Base, Types
<1>22. ASSUME NEW t \in Remover, NEW s \in Sub, RetireClose(t, s) PROVE Base'
  <2> DEFINE c == [todo |-> call[t].todo \ {s}, step |-> "closed", sub |-> s, join |-> None]
  <2>1. c \in CallRecord /\ c.step = "closed" /\ c.sub = s /\ s # None
    BY DEF Base, Types, CallRecord, Params
  <2>2. call' = [call EXCEPT ![t] = c]
    BY <1>22 DEF RetireClose, Base, Types
  <2>3. heap' \in [Sub -> Seq(Message)] /\ closed' \in [Sub -> BOOLEAN]
    BY <1>22 DEF RetireClose, Base, Types
  <2> HIDE DEF c
  <2> QED BY <1>22, <2>1, <2>2, <2>3, RetireBase DEF RetireClose, regVars, dispVars, Base, Types
<1>23. ASSUME NEW t \in Remover, RetirePop(t) PROVE Base'
  <2> DEFINE w == workers[KeyOf[call[t].sub]]
             c == [todo |-> call[t].todo, step |-> "join", sub |-> call[t].sub, join |-> w]
  <2>1. call[t].sub \in Sub /\ w \in Sub \cup {None}
    BY <1>23 DEF RetirePop, Base, Types, HandsOK, Params
  <2>2. c \in CallRecord /\ c.step = "join" /\ c.sub # None
    BY <2>1 DEF Base, Types, CallRecord, Params
  <2>3. call' = [call EXCEPT ![t] = c]
    BY <1>23 DEF RetirePop, Base, Types
  <2>4. workers' \in [Key -> Sub \cup {None}]
    BY <1>23 DEF RetirePop, Base, Types
  <2> HIDE DEF c, w
  <2> QED BY <1>23, <2>2, <2>3, <2>4, RetireBase DEF RetirePop, subVars, dispVars, histVars, Base, Types
<1>24. ASSUME NEW t \in Remover, RetireJoin(t) PROVE Base'
  <2> DEFINE c == IF call[t].todo = {} THEN NoCall ELSE Remaining(call[t].todo)
  <2>1. call[t].sub \in Sub
    BY <1>24 DEF RetireJoin, Base, Types, HandsOK
  <2>2. c \in CallRecord /\ c.step \in {"none", "next"} /\ c.sub = None
    BY DEF Base, Types, CallRecord, NoCall, Remaining
  <2>3. call' = [call EXCEPT ![t] = c] /\ retired' \in SUBSET (Sub \X Remover)
    BY <1>24, <2>1 DEF RetireJoin, Base, Types
  <2> HIDE DEF c
  <2> QED BY <1>24, <2>2, <2>3, RetireBase DEF RetireJoin, regVars, subVars, dispVars, Base, Types
<1> QED
  BY <1>1, <1>2, <1>3, <1>4, <1>5, <1>6, <1>7, <1>9, <1>10, <1>11, <1>12, <1>13, <1>14, <1>15, <1>16, <1>17,
     <1>18, <1>19, <1>20, <1>21, <1>22, <1>23, <1>24
  DEF Next, Client, Dispatch, Run, Fan, Retire, Dispatcher
----------------------------------------------------------------------------
\* What a step does to queues, hands and histories.
NothingMoves ==
    /\ UNCHANGED <<heap, accepted, finished>>
    /\ \A d \in Dispatcher : job'[d].sub = job[d].sub /\ job'[d].msg = job[d].msg
Enqueued(s, m) ==
    /\ heap' = [heap EXCEPT ![s] = Append(@, m)]
    /\ accepted' = [accepted EXCEPT ![s] = Append(@, m)]
    /\ UNCHANGED <<finished, job>>
Taken(d, s) ==
    /\ heap[s] # <<>> /\ job[d].sub = None
    /\ d \in Sub => d = s /\ at[s] # "off"
    /\ heap' = [heap EXCEPT ![s] = RemoveAt(@, Head1(s))]
    /\ job' = [job EXCEPT ![d] = [sub |-> s, msg |-> heap[s][Head1(s)], attempt |-> 1]]
    /\ UNCHANGED <<accepted, finished>>
Done(d) ==
    /\ job[d].sub # None
    /\ finished' = [finished EXCEPT ![job[d].sub] = Append(@, job[d].msg)]
    /\ job' = [job EXCEPT ![d] = NoJob]
    /\ UNCHANGED <<heap, accepted>>
Cleared(s) == heap' = [heap EXCEPT ![s] = <<>>] /\ UNCHANGED <<accepted, finished, job>>

FlowEffect ==
    \/ NothingMoves
    \/ \E s \in Sub, m \in Message : Enqueued(s, m)
    \/ \E d \in Dispatcher, s \in Sub : Taken(d, s)
    \/ \E d \in Dispatcher : Done(d)
    \/ \E s \in Sub : Cleared(s)

LEMMA StepFlow ==
    ASSUME Params, Base, [Next]_vars
    PROVE  FlowEffect
<1>1. ASSUME UNCHANGED <<heap, accepted, finished, job>> PROVE FlowEffect
  BY <1>1 DEF FlowEffect, NothingMoves
<1>2. CASE UNCHANGED vars
  BY <1>1, <1>2 DEF vars, subVars, dispVars, histVars
<1>3. CASE Client
  <2>1. CASE Start \/ \E topic \in Topic : CreateTopic(topic)
    BY <1>1, <2>1 DEF Start, CreateTopic, subVars, dispVars, histVars
  <2>2. CASE (\E s \in Sub : Subscribe(s)) \/ (\E r \in Runner : RunCheck(r))
    BY <1>1, <2>2 DEF Subscribe, RunCheck, subVars, histVars
  <2>3. CASE \E p \in Publisher, m \in Message, topic \in Topic : PublishSnapshot(p, m, topic)
    BY <1>1, <2>3 DEF PublishSnapshot, subVars, dispVars, histVars
  <2>4. ASSUME NEW t \in Remover, NEW objects, Removes(t, objects) PROVE FlowEffect
    BY <1>1, <2>4 DEF Removes, subVars, dispVars, histVars
  <2>5. ASSUME NEW t \in Remover,
               \/ \E k \in Key : Unsubscribe(t, k)
               \/ \E topic \in Topic : DeleteTopic(t, topic)
               \/ CloseBroker(t)
        PROVE  FlowEffect
    BY <2>4, <2>5 DEF Unsubscribe, DeleteTopic, CloseBroker
  <2> QED BY <1>3, <2>1, <2>2, <2>3, <2>5 DEF Client
<1>4. ASSUME NEW p \in Publisher, Fan(p) PROVE FlowEffect
  <2>1. CASE PublishReturn(p)
    BY <1>1, <2>1 DEF PublishReturn, subVars, dispVars, histVars
  <2>2. ASSUME NEW s \in Sub, Offer(p, s) PROVE FlowEffect
    <3>1. pub[p].msg \in Message
      BY <2>2 DEF Offer, Base, Types, HandsOK
    <3>2. Enqueued(s, pub[p].msg) \/ UNCHANGED <<heap, accepted, finished, job>>
      BY <2>2 DEF Offer, Enqueued, dispVars
    <3> QED BY <1>1, <3>1, <3>2 DEF FlowEffect
  <2> QED BY <1>4, <2>1, <2>2 DEF Fan
<1>5. ASSUME NEW d \in Dispatcher, NEW s \in Sub, Take(d, s), ~Working(d), d \in Sub => d = s /\ at[s] # "off"
      PROVE  FlowEffect
  <2>1. job[d].sub = None
    BY <1>5 DEF Base, HandsOK
  <2>2. Taken(d, s)
    BY <1>5, <2>1 DEF Take, CanTake, Taken, histVars
  <2> QED BY <2>2 DEF FlowEffect
<1>6. ASSUME NEW d \in Dispatcher, EndDispatch(d), Working(d) PROVE FlowEffect
  <2>1. job[d].sub # None
    BY <1>6 DEF Base, HandsOK
  <2>2. Done(d)
    BY <1>6, <2>1 DEF EndDispatch, Done
  <2> QED BY <2>2 DEF FlowEffect
<1>7. ASSUME NEW d \in Dispatcher, Dispatch(d) PROVE FlowEffect
  <2>1. CASE d \in Sub /\ WorkerTake(d)
    BY <1>5, <2>1 DEF WorkerTake, Working
  <2>2. CASE WorkerExit(d) \/ CallFailsRetry(d)
    BY <1>1, <2>2 DEF WorkerExit, CallFailsRetry, subVars, histVars
  <2>3. CASE CallOk(d) \/ CallFailsLast(d) \/ RetryClosed(d)
    BY <1>6, <2>3 DEF CallOk, CallFailsLast, RetryClosed, Returning, Working
  <2>4. CASE Retry(d)
    <3>1. UNCHANGED <<heap, accepted, finished>> /\ job' = [job EXCEPT ![d].attempt = @ + 1]
      BY <2>4 DEF Retry, subVars, histVars
    <3>2. \A e \in Dispatcher : job'[e].sub = job[e].sub /\ job'[e].msg = job[e].msg
      BY <3>1 DEF Base, Types
    <3> QED BY <3>1, <3>2 DEF FlowEffect, NothingMoves
  <2> QED BY <1>7, <2>1, <2>2, <2>3, <2>4 DEF Dispatch
<1>8. ASSUME NEW r \in Runner, Run(r) PROVE FlowEffect
  <2>1. r \in Dispatcher /\ r \notin Sub
    BY DEF Params, Dispatcher
  <2>2. CASE RunSnapshot(r) \/ RunPassEnds(r)
    BY <1>1, <2>2 DEF RunSnapshot, RunPassEnds, subVars, histVars
  <2>3. ASSUME NEW s \in Sub, RunDispatch(r, s) PROVE FlowEffect
    BY <1>5, <2>1, <2>3 DEF RunDispatch, Working
  <2>4. ASSUME NEW s \in Sub, RunSkip(r, s) PROVE FlowEffect
    BY <1>1, <2>4 DEF RunSkip, subVars, histVars
  <2> QED BY <1>8, <2>2, <2>3, <2>4 DEF Run
<1>9. ASSUME NEW t \in Remover, Retire(t) PROVE FlowEffect
  <2>1. ASSUME NEW s \in Sub, RetireClose(t, s) PROVE FlowEffect
    BY <2>1 DEF RetireClose, dispVars, FlowEffect, Cleared
  <2>2. CASE RetirePop(t) \/ RetireJoin(t)
    BY <1>1, <2>2 DEF RetirePop, RetireJoin, subVars, dispVars, histVars
  <2> QED BY <1>9, <2>1, <2>2 DEF Retire
<1> QED BY <1>2, <1>3, <1>4, <1>7, <1>8, <1>9 DEF Next

\* What a step does to where the workers are.
WorkerMoves(s) ==
    \/ at'[s] = at[s]
    \/ at[s] # "off"
    \/ started'
\* start is the only way to have workers.
LEMMA StepWorkers ==
    ASSUME Params, Base, [Next]_vars
    PROVE  /\ started' = started \/ (started' /\ MayStart)
           /\ \A s \in Sub : WorkerMoves(s)
<1>0. /\ \A s \in Sub : s \in Dispatcher /\ s \notin Runner
      /\ \A r \in Runner : r \in Dispatcher
  BY DEF Params, Dispatcher
<1>1. ASSUME UNCHANGED <<started, at>>
      PROVE  (started' = started \/ (started' /\ MayStart)) /\ \A s \in Sub : WorkerMoves(s)
  BY <1>1 DEF WorkerMoves
<1>2. ASSUME NEW d \in Dispatcher, NEW new, at' = [at EXCEPT ![d] = new], d \in Sub => at[d] # "off",
             started' = started
      PROVE  (started' = started \/ (started' /\ MayStart)) /\ \A s \in Sub : WorkerMoves(s)
  BY <1>0, <1>2 DEF WorkerMoves, Base, Types
<1>3. CASE UNCHANGED vars
  BY <1>1, <1>3 DEF vars, regVars, dispVars
<1>4. CASE Client
  <2>1. CASE Start
    BY <2>1 DEF Start, WorkerMoves
  <2>2. ASSUME NEW s \in Sub, Subscribe(s)
        PROVE  (started' = started \/ (started' /\ MayStart)) /\ \A u \in Sub : WorkerMoves(u)
    <3>1. CASE started
      BY <2>2, <3>1 DEF Subscribe, WorkerMoves
    <3>2. CASE ~started
      BY <1>1, <2>2, <3>2 DEF Subscribe
    <3> QED BY <3>1, <3>2
  <2>3. ASSUME NEW r \in Runner, RunCheck(r)
        PROVE  (started' = started \/ (started' /\ MayStart)) /\ \A s \in Sub : WorkerMoves(s)
    BY <1>0, <1>2, <2>3 DEF RunCheck, regVars
  <2> QED BY <1>1, <1>4, <2>1, <2>2, <2>3 DEF Client, CreateTopic, PublishSnapshot, Unsubscribe, DeleteTopic,
                    CloseBroker, Removes, regVars, dispVars
<1>5. ASSUME NEW p \in Publisher, Fan(p)
      PROVE  (started' = started \/ (started' /\ MayStart)) /\ \A s \in Sub : WorkerMoves(s)
  BY <1>1, <1>5 DEF Fan, PublishReturn, Offer, regVars, dispVars
<1>6. ASSUME NEW d \in Dispatcher, Dispatch(d)
      PROVE  (started' = started \/ (started' /\ MayStart)) /\ \A s \in Sub : WorkerMoves(s)
  BY <1>2, <1>6 DEF Dispatch, WorkerTake, Take, WorkerExit, CallOk, CallFailsLast, CallFailsRetry, Retry,
                    RetryClosed, EndDispatch, Returning, regVars
<1>7. ASSUME NEW r \in Runner, Run(r)
      PROVE  (started' = started \/ (started' /\ MayStart)) /\ \A s \in Sub : WorkerMoves(s)
  BY <1>0, <1>1, <1>2, <1>7 DEF Run, RunSnapshot, RunPassEnds, RunDispatch, Take, RunSkip, regVars
<1>8. ASSUME NEW t \in Remover, Retire(t)
      PROVE  (started' = started \/ (started' /\ MayStart)) /\ \A s \in Sub : WorkerMoves(s)
  BY <1>1, <1>8 DEF Retire, RetireClose, RetirePop, RetireJoin, regVars, dispVars
<1> QED BY <1>3, <1>4, <1>5, <1>6, <1>7, <1>8 DEF Next

LEMMA WorkersStep ==
    ASSUME Params, Base, WorkersOK, [Next]_vars
    PROVE  WorkersOK'
<1>1. ASSUME NEW s \in Sub PROVE job'[s].sub \in {s, None}
  <2>0. s \in Dispatcher /\ job[s].sub \in {s, None}
    BY DEF Dispatcher, WorkersOK
  <2>1. CASE NothingMoves
    BY <2>0, <2>1 DEF NothingMoves
  <2>2. ASSUME NEW u \in Sub, (\E m \in Message : Enqueued(u, m)) \/ Cleared(u) PROVE job'[s].sub \in {s, None}
    BY <2>0, <2>2 DEF Enqueued, Cleared
  <2>3. ASSUME NEW d \in Dispatcher, NEW u \in Sub, Taken(d, u) PROVE job'[s].sub \in {s, None}
    BY <2>0, <2>3 DEF Taken, Base, Types
  <2>4. ASSUME NEW d \in Dispatcher, Done(d) PROVE job'[s].sub \in {s, None}
    BY <2>0, <2>4 DEF Done, NoJob, Base, Types
  <2> QED BY <2>1, <2>2, <2>3, <2>4, StepFlow DEF FlowEffect
<1>2. ASSUME ~started', NEW s \in Sub PROVE at'[s] = "off"
  BY <1>2, StepWorkers DEF WorkersOK, WorkerMoves
<1>3. ~MayStart => ~started'
  BY StepWorkers DEF WorkersOK
<1> QED BY <1>1, <1>2, <1>3 DEF WorkersOK
----------------------------------------------------------------------------
\* With one dispatcher per subscription nobody else has a message of the
\* subscription a dispatcher takes from.
LEMMA NobodyElse ==
    ASSUME Params, Base, WorkersOK, OneDispatcher, NEW d \in Dispatcher, NEW s \in Sub, Taken(d, s)
    PROVE  \A e \in Dispatcher : job[e].sub # s
<1> SUFFICES ASSUME NEW e \in Dispatcher, job[e].sub = s PROVE FALSE
  OBVIOUS
<1>1. s # None /\ job[d].sub = None /\ e # d
  BY DEF Params, Taken
<1>2. e \in Sub => e = s /\ Working(e)
  BY <1>1 DEF WorkersOK, Base, HandsOK
<1>3. CASE d \in Sub
  <2>1. d = s /\ e \in Runner /\ at[s] # "off"
    BY <1>1, <1>2, <1>3 DEF Taken, Dispatcher
  <2> QED BY <2>1 DEF OneDispatcher, WorkersOK
<1>4. CASE d \in Runner
  <2>1. CASE e \in Sub
    BY <1>2, <1>4, <2>1 DEF OneDispatcher, WorkersOK, Working
  <2>2. CASE e \in Runner
    BY <1>1, <1>4, <2>2 DEF OneDispatcher
  <2> QED BY <2>1, <2>2 DEF Dispatcher
<1> QED BY <1>3, <1>4 DEF Dispatcher

LEMMA SoleStep ==
    ASSUME Params, Base, WorkersOK, OneDispatcher, Sole, [Next]_vars
    PROVE  Sole'
<1>1. CASE NothingMoves
  BY <1>1 DEF NothingMoves, Sole
<1>2. ASSUME NEW u \in Sub, (\E m \in Message : Enqueued(u, m)) \/ Cleared(u) PROVE Sole'
  BY <1>2 DEF Enqueued, Cleared, Sole
<1>3. ASSUME NEW d \in Dispatcher, NEW s \in Sub, Taken(d, s) PROVE Sole'
  <2>1. \A e \in Dispatcher : job'[e].sub = IF e = d THEN s ELSE job[e].sub
    BY <1>3 DEF Taken, Base, Types
  <2>2. \A e \in Dispatcher : job[e].sub # s
    BY <1>3, NobodyElse
  <2> QED BY <2>1, <2>2 DEF Sole
<1>4. ASSUME NEW d \in Dispatcher, Done(d) PROVE Sole'
  <2>1. \A e \in Dispatcher : job'[e].sub = IF e = d THEN None ELSE job[e].sub
    BY <1>4 DEF Done, NoJob, Base, Types
  <2> QED BY <2>1 DEF Sole
<1> QED BY <1>1, <1>2, <1>3, <1>4, StepFlow DEF FlowEffect

\* A message that is enqueued comes after everything that came before it.
LEMMA EnqueuedFacts ==
    ASSUME Base, NEW s \in Sub, NEW m \in Message, Enqueued(s, m)
    PROVE  /\ \A u \in Sub : \A x, y : Before(u, x, y) => Before(u, x, y)'
           /\ \A u \in Sub : \A x : Came(u, x) => Came(u, x)'
           /\ Came(s, m)' /\ \A x : Came(s, x) => Before(s, x, m)'
           /\ \A u \in Sub : u # s => heap'[u] = heap[u]
           /\ DOMAIN heap'[s] = 1..(Len(heap[s]) + 1) /\ DOMAIN heap[s] = 1..Len(heap[s])
           /\ Len(heap[s]) \in Nat
           /\ heap'[s][Len(heap[s]) + 1] = m
           /\ \A i \in 1..Len(heap[s]) : heap'[s][i] = heap[s][i]
<1> DEFINE n == Len(accepted[s])
<1>1. /\ accepted[s] \in Seq(Message) /\ n \in Nat /\ DOMAIN accepted[s] = 1..n
      /\ DOMAIN accepted'[s] = 1..(n + 1) /\ accepted'[s][n + 1] = m
      /\ \A i \in 1..n : accepted'[s][i] = accepted[s][i]
  BY DEF Enqueued, Base, Types
<1>2. \A u \in Sub : u # s => accepted'[u] = accepted[u]
  BY DEF Enqueued, Base, Types
<1> HIDE DEF n
<1>3. \A u \in Sub : \A a \in DOMAIN accepted[u] : a \in DOMAIN accepted'[u] /\ accepted'[u][a] = accepted[u][a]
  BY <1>1, <1>2
<1>4. \A u \in Sub : \A x, y : Before(u, x, y) => Before(u, x, y)'
  BY <1>3 DEF Before
<1>5. \A u \in Sub : \A x : Came(u, x) => Came(u, x)'
  BY <1>3 DEF Came
<1>6. Came(s, m)'
  BY <1>1 DEF Came
<1>7. \A x : Came(s, x) => Before(s, x, m)'
  BY <1>1 DEF Came, Before
<1>8. /\ \A u \in Sub : u # s => heap'[u] = heap[u]
      /\ DOMAIN heap'[s] = 1..(Len(heap[s]) + 1) /\ DOMAIN heap[s] = 1..Len(heap[s])
      /\ Len(heap[s]) \in Nat
      /\ heap'[s][Len(heap[s]) + 1] = m
      /\ \A i \in 1..Len(heap[s]) : heap'[s][i] = heap[s][i]
  BY DEF Enqueued, Base, Types
<1> QED BY <1>4, <1>5, <1>6, <1>7, <1>8

LEMMA OrderEnqueued ==
    ASSUME Base, OrderInv, NEW s \in Sub, NEW m \in Message, Enqueued(s, m)
    PROVE  OrderInv'
<1> DEFINE h == Len(heap[s])
<1>1. /\ \A u \in Sub : \A x, y : Before(u, x, y) => Before(u, x, y)'
      /\ \A u \in Sub : \A x : Came(u, x) => Came(u, x)'
      /\ Came(s, m)' /\ \A x : Came(s, x) => Before(s, x, m)'
  BY EnqueuedFacts
<1>2. /\ \A u \in Sub : u # s => heap'[u] = heap[u]
      /\ DOMAIN heap'[s] = 1..(h + 1) /\ DOMAIN heap[s] = 1..h /\ h \in Nat
      /\ heap'[s][h + 1] = m /\ \A i \in 1..h : heap'[s][i] = heap[s][i]
  BY EnqueuedFacts
<1>3. job' = job /\ finished' = finished
  BY DEF Enqueued
<1> HIDE DEF h
<1>4. \A u \in Sub : \A i \in DOMAIN heap'[u] :
          \/ i \in DOMAIN heap[u] /\ heap'[u][i] = heap[u][i]
          \/ u = s /\ i = h + 1 /\ heap'[u][i] = m /\ \A j \in DOMAIN heap[u] : j < i
  BY <1>2
<1>5. QueueOK'
  <2>1. ASSUME NEW u \in Sub, NEW i \in DOMAIN heap'[u] PROVE Came(u, heap[u][i])'
    BY <1>1, <1>4 DEF OrderInv, QueueOK
  <2>2. ASSUME NEW u \in Sub, NEW i \in DOMAIN heap'[u], NEW j \in DOMAIN heap'[u], i < j
        PROVE  Before(u, heap[u][i], heap[u][j])'
    <3>1. CASE j \in DOMAIN heap[u] /\ heap'[u][j] = heap[u][j]
      <4>1. i \in DOMAIN heap[u] /\ heap'[u][i] = heap[u][i]
        BY <1>2, <1>4, <2>2, <3>1
      <4>2. Before(u, heap[u][i], heap[u][j])
        BY <2>2, <3>1, <4>1 DEF OrderInv, QueueOK
      <4> QED BY <1>1, <3>1, <4>1, <4>2
    <3>2. CASE u = s /\ j = h + 1 /\ heap'[u][j] = m
      <4>1. i \in DOMAIN heap[u] /\ heap'[u][i] = heap[u][i]
        BY <1>2, <1>4, <2>2, <3>2
      <4>2. Came(u, heap[u][i])
        BY <4>1 DEF OrderInv, QueueOK
      <4> QED BY <1>1, <3>2, <4>1, <4>2
    <3> QED BY <1>4, <3>1, <3>2
  <2> QED BY <2>1, <2>2 DEF QueueOK
<1>6. ASSUME NEW u \in Sub, NEW x, Came(u, x), \A j \in DOMAIN heap[u] : Same(x, heap[u][j]) => Before(u, x, heap[u][j]),
             NEW j \in DOMAIN heap'[u], Same(x, heap'[u][j])
      PROVE  Before(u, x, heap[u][j])'
  <2>1. CASE j \in DOMAIN heap[u] /\ heap'[u][j] = heap[u][j]
    BY <1>1, <1>6, <2>1
  <2>2. CASE u = s /\ heap'[u][j] = m
    BY <1>1, <1>6, <2>2
  <2> QED BY <1>4, <2>1, <2>2
<1>7. JobsOK'
  <2> SUFFICES ASSUME NEW u \in Sub, NEW d \in Dispatcher, job[d].sub = u
               PROVE  /\ Came(u, job[d].msg)'
                      /\ \A j \in DOMAIN heap'[u] : Same(job[d].msg, heap'[u][j]) => Before(u, job[d].msg, heap[u][j])'
    BY <1>3 DEF JobsOK, Same
  <2>1. Came(u, job[d].msg) /\ \A j \in DOMAIN heap[u] : Same(job[d].msg, heap[u][j]) => Before(u, job[d].msg, heap[u][j])
    BY DEF OrderInv, JobsOK
  <2> DEFINE x == job[d].msg
  <2>2. x' = x
    BY <1>3
  <2>3. Came(u, x) /\ \A j \in DOMAIN heap[u] : Same(x, heap[u][j]) => Before(u, x, heap[u][j])
    BY <2>1
  <2> HIDE DEF x
  <2>4. Came(u, x)' /\ \A j \in DOMAIN heap'[u] : Same(x, heap'[u][j]) => Before(u, x, heap[u][j])'
    BY <1>1, <1>6, <2>2, <2>3
  <2> QED BY <2>2, <2>4 DEF x
<1>8. FinishedOK'
  <2> SUFFICES ASSUME NEW u \in Sub, NEW i \in DOMAIN finished[u]
               PROVE  /\ Came(u, finished[u][i])'
                      /\ \A j \in DOMAIN heap'[u] :
                            Same(finished[u][i], heap'[u][j]) => Before(u, finished[u][i], heap[u][j])'
                      /\ \A d \in Dispatcher : job[d].sub = u /\ Same(finished[u][i], job[d].msg) =>
                            Before(u, finished[u][i], job[d].msg)'
    BY <1>3 DEF FinishedOK, Same
  <2> DEFINE x == finished[u][i]
  <2>1. x' = x
    BY <1>3
  <2>2. /\ Came(u, x)
        /\ \A j \in DOMAIN heap[u] : Same(x, heap[u][j]) => Before(u, x, heap[u][j])
        /\ \A d \in Dispatcher : job[d].sub = u /\ Same(x, job[d].msg) => Before(u, x, job[d].msg)
    BY DEF OrderInv, FinishedOK
  <2> HIDE DEF x
  <2>3. Came(u, x)' /\ \A j \in DOMAIN heap'[u] : Same(x, heap'[u][j]) => Before(u, x, heap[u][j])'
    BY <1>1, <1>6, <2>1, <2>2
  <2>4. \A d \in Dispatcher : job[d].sub = u /\ Same(x, job[d].msg) => Before(u, x, job[d].msg)'
    BY <1>1, <1>3, <2>1, <2>2
  <2> QED BY <2>1, <2>3, <2>4 DEF x
<1>9. InOrder'
  <2> SUFFICES ASSUME NEW u \in Sub, NEW i \in DOMAIN finished[u], NEW j \in DOMAIN finished[u], i < j,
                      Same(finished[u][i], finished[u][j])
               PROVE  Before(u, finished[u][i], finished[u][j])'
    BY <1>3 DEF InOrder, Before, Same
  <2>1. Before(u, finished[u][i], finished[u][j])
    BY DEF OrderInv, InOrder, Before, Same
  <2> QED BY <1>1, <1>3, <2>1
<1> QED BY <1>5, <1>7, <1>8, <1>9 DEF OrderInv

\* A dispatcher takes the first of its priority.
LEMMA OrderTaken ==
    ASSUME Params, Base, OrderInv, NEW d \in Dispatcher, NEW s \in Sub, Taken(d, s),
           \A e \in Dispatcher : job[e].sub # s
    PROVE  OrderInv'
<1> DEFINE q == heap[s]
           h == Head1(s)
           m == q[h]
<1>1. /\ q \in Seq(Message) /\ h \in 1..Len(q) /\ Len(q) \in Nat /\ DOMAIN q = 1..Len(q)
      /\ \A j \in 1..Len(q) : j # h /\ Same(m, q[j]) => h < j
  BY HeadFacts DEF Taken, Base, Types
<1>2. /\ \A u \in Sub : u # s => heap'[u] = heap[u]
      /\ DOMAIN heap'[s] = 1..(Len(q) - 1)
      /\ \A j \in 1..(Len(q) - 1) : heap'[s][j] = IF j < h THEN q[j] ELSE q[j + 1]
  <2>1. /\ RemoveAt(q, h) \in Seq(Message) /\ Len(RemoveAt(q, h)) = Len(q) - 1
        /\ \A j \in 1..(Len(q) - 1) : RemoveAt(q, h)[j] = IF j < h THEN q[j] ELSE q[j + 1]
    BY <1>1, RemoveAtFacts
  <2>2. heap'[s] = RemoveAt(q, h) /\ \A u \in Sub : u # s => heap'[u] = heap[u]
    BY DEF Taken, Base, Types
  <2> HIDE DEF q, h
  <2> QED BY <2>1, <2>2
<1>3. /\ \A e \in Dispatcher : e # d => job'[e] = job[e]
      /\ job'[d].sub = s /\ job'[d].msg = m
      /\ accepted' = accepted /\ finished' = finished
  BY DEF Taken, Base, Types
<1>4. /\ \A u : \A x, y : Before(u, x, y)' <=> Before(u, x, y)
      /\ \A u : \A x : Came(u, x)' <=> Came(u, x)
  BY <1>3 DEF Before, Came
<1> HIDE DEF q, h, m
\* Where the messages that stay were.
<1>5. \A u \in Sub : \A j \in DOMAIN heap'[u] : \E k \in DOMAIN heap[u] :
          /\ heap'[u][j] = heap[u][k] /\ (u = s => k # h)
          /\ k = IF u # s \/ j < h THEN j ELSE j + 1
  <2> SUFFICES ASSUME NEW u \in Sub, NEW j \in DOMAIN heap'[u]
               PROVE  \E k \in DOMAIN heap[u] : /\ heap'[u][j] = heap[u][k] /\ (u = s => k # h)
                                                /\ k = IF u # s \/ j < h THEN j ELSE j + 1
    OBVIOUS
  <2>1. CASE u # s
    BY <1>2, <2>1
  <2>2. CASE u = s
    <3>1. j \in 1..(Len(q) - 1) /\ heap[u] = q
      BY <1>2, <2>2 DEF q
    <3>2. CASE j < h
      BY <1>1, <1>2, <2>2, <3>1, <3>2
    <3>3. CASE ~(j < h)
      BY <1>1, <1>2, <2>2, <3>1, <3>3
    <3> QED BY <3>2, <3>3
  <2> QED BY <2>1, <2>2
<1>6. QueueOK'
  <2>1. ASSUME NEW u \in Sub, NEW i \in DOMAIN heap'[u] PROVE Came(u, heap'[u][i])
    BY <1>5 DEF OrderInv, QueueOK
  <2>2. ASSUME NEW u \in Sub, NEW i \in DOMAIN heap'[u], NEW j \in DOMAIN heap'[u], i < j
        PROVE  Before(u, heap'[u][i], heap'[u][j])
    <3>1. PICK k \in DOMAIN heap[u] : heap'[u][i] = heap[u][k] /\ k = IF u # s \/ i < h THEN i ELSE i + 1
      BY <1>5
    <3>2. PICK l \in DOMAIN heap[u] : heap'[u][j] = heap[u][l] /\ l = IF u # s \/ j < h THEN j ELSE j + 1
      BY <1>5
    <3>3. i \in Nat /\ j \in Nat /\ h \in Nat
      <4>1. heap[u] \in Seq(Message) /\ DOMAIN heap[u] = 1..Len(heap[u]) /\ Len(heap[u]) \in Nat
        BY DEF Base, Types
      <4>2. DOMAIN heap'[u] \in SUBSET Nat
        BY <1>1, <1>2, <4>1
      <4> QED BY <1>1, <2>2, <4>2
    <3>4. k < l
      BY <2>2, <3>1, <3>2, <3>3
    <3> QED BY <3>1, <3>2, <3>4 DEF OrderInv, QueueOK
  <2> QED BY <1>4, <2>1, <2>2 DEF QueueOK
<1>7. JobsOK'
  <2>1. ASSUME NEW u \in Sub, NEW e \in Dispatcher, job'[e].sub = u, e # d
        PROVE  /\ Came(u, job'[e].msg)
               /\ \A j \in DOMAIN heap'[u] : Same(job'[e].msg, heap'[u][j]) => Before(u, job'[e].msg, heap'[u][j])
    <3>1. u # s /\ job[e].sub = u /\ job'[e].msg = job[e].msg /\ heap'[u] = heap[u]
      BY <1>2, <1>3, <2>1
    <3> QED BY <3>1 DEF OrderInv, JobsOK
  <2>2. /\ Came(s, m)
        /\ \A j \in DOMAIN heap'[s] : Same(m, heap'[s][j]) => Before(s, m, heap'[s][j])
    <3>1. Came(s, m)
      BY <1>1 DEF OrderInv, QueueOK, m, q
    <3>2. ASSUME NEW j \in DOMAIN heap'[s], Same(m, heap'[s][j]) PROVE Before(s, m, heap'[s][j])
      <4>1. PICK k \in DOMAIN heap[s] : heap'[s][j] = heap[s][k] /\ k # h
        BY <1>5
      <4>2. h < k /\ k \in DOMAIN q /\ h \in DOMAIN q
        BY <1>1, <3>2, <4>1 DEF q
      <4> QED BY <4>1, <4>2 DEF OrderInv, QueueOK, m, q
    <3> QED BY <3>1, <3>2
  <2> QED BY <1>3, <1>4, <2>1, <2>2 DEF JobsOK, Same
<1>8. FinishedOK'
  <2> SUFFICES ASSUME NEW u \in Sub, NEW i \in DOMAIN finished[u]
               PROVE  /\ Came(u, finished[u][i])
                      /\ \A j \in DOMAIN heap'[u] :
                            Same(finished[u][i], heap'[u][j]) => Before(u, finished[u][i], heap'[u][j])
                      /\ \A e \in Dispatcher : job'[e].sub = u /\ Same(finished[u][i], job'[e].msg) =>
                            Before(u, finished[u][i], job'[e].msg)
    BY <1>3, <1>4 DEF FinishedOK, Same
  <2>1. Came(u, finished[u][i])
    BY DEF OrderInv, FinishedOK
  <2>2. \A j \in DOMAIN heap'[u] : Same(finished[u][i], heap'[u][j]) => Before(u, finished[u][i], heap'[u][j])
    BY <1>5 DEF OrderInv, FinishedOK
  <2>3. ASSUME NEW e \in Dispatcher, job'[e].sub = u, Same(finished[u][i], job'[e].msg)
        PROVE  Before(u, finished[u][i], job'[e].msg)
    <3>1. CASE e = d
      <4>1. u = s /\ job'[e].msg = q[h] /\ h \in DOMAIN q
        BY <1>1, <1>3, <2>3, <3>1 DEF m
      <4> QED BY <2>3, <4>1 DEF OrderInv, FinishedOK, q
    <3>2. CASE e # d
      BY <1>3, <2>3, <3>2 DEF OrderInv, FinishedOK
    <3> QED BY <3>1, <3>2
  <2> QED BY <2>1, <2>2, <2>3
<1>9. InOrder'
  BY <1>3 DEF OrderInv, InOrder
<1> QED BY <1>6, <1>7, <1>8, <1>9 DEF OrderInv

\* What is finished was taken before whatever is left of its priority.
LEMMA OrderDone ==
    ASSUME Params, Base, OrderInv, Sole, NEW d \in Dispatcher, Done(d)
    PROVE  OrderInv'
<1> DEFINE s == job[d].sub
           m == job[d].msg
           n == Len(finished[s])
<1>1. s \in Sub /\ m \in Message /\ s # None
  BY DEF Done, Base, Types, HandsOK
<1>2. /\ \A u \in Sub : u # s => finished'[u] = finished[u]
      /\ n \in Nat /\ DOMAIN finished[s] = 1..n /\ DOMAIN finished'[s] = 1..(n + 1)
      /\ finished'[s][n + 1] = m /\ \A i \in 1..n : finished'[s][i] = finished[s][i]
  BY <1>1 DEF Done, Base, Types
<1>3. /\ \A e \in Dispatcher : job'[e].sub # None => e # d /\ job'[e] = job[e]
      /\ accepted' = accepted /\ heap' = heap
  BY DEF Done, NoJob, Base, Types
<1>4. /\ \A u : \A x, y : Before(u, x, y)' <=> Before(u, x, y)
      /\ \A u : \A x : Came(u, x)' <=> Came(u, x)
  BY <1>3 DEF Before, Came
<1> HIDE DEF n
<1>5. \A u \in Sub : \A i \in DOMAIN finished'[u] :
          \/ i \in DOMAIN finished[u] /\ finished'[u][i] = finished[u][i] /\ (u = s => i < n + 1)
          \/ u = s /\ i = n + 1 /\ finished'[u][i] = m
  <2> HIDE DEF s, m
  <2> QED BY <1>1, <1>2
<1>6. QueueOK'
  BY <1>3, <1>4 DEF OrderInv, QueueOK
<1>7. JobsOK'
  <2> SUFFICES ASSUME NEW u \in Sub, NEW e \in Dispatcher, job'[e].sub = u
               PROVE  /\ Came(u, job'[e].msg)
                      /\ \A j \in DOMAIN heap[u] : Same(job'[e].msg, heap[u][j]) => Before(u, job'[e].msg, heap[u][j])
    BY <1>3, <1>4 DEF JobsOK, Same
  <2>1. job'[e] = job[e]
    BY <1>3 DEF Params
  <2> QED BY <2>1 DEF OrderInv, JobsOK
<1>8. FinishedOK'
  <2> SUFFICES ASSUME NEW u \in Sub, NEW i \in DOMAIN finished'[u]
               PROVE  /\ Came(u, finished'[u][i])
                      /\ \A j \in DOMAIN heap[u] :
                            Same(finished'[u][i], heap[u][j]) => Before(u, finished'[u][i], heap[u][j])
                      /\ \A e \in Dispatcher : job'[e].sub = u /\ Same(finished'[u][i], job'[e].msg) =>
                            Before(u, finished'[u][i], job'[e].msg)
    BY <1>3, <1>4 DEF FinishedOK, Same
  <2>1. \A e \in Dispatcher : job'[e].sub = u => e # d /\ job'[e] = job[e]
    BY <1>3 DEF Params
  <2>2. CASE i \in DOMAIN finished[u] /\ finished'[u][i] = finished[u][i]
    BY <2>1, <2>2 DEF OrderInv, FinishedOK
  <2>3. CASE u = s /\ finished'[u][i] = m
    <3>1. \A e \in Dispatcher : job'[e].sub # u
      BY <1>1, <2>1, <2>3 DEF Sole
    <3> QED BY <2>3, <3>1 DEF OrderInv, JobsOK
  <2> QED BY <1>5, <2>2, <2>3
<1>9. InOrder'
  <2> SUFFICES ASSUME NEW u \in Sub, NEW i \in DOMAIN finished'[u], NEW j \in DOMAIN finished'[u], i < j,
                      Same(finished'[u][i], finished'[u][j])
               PROVE  Before(u, finished'[u][i], finished'[u][j])
    BY <1>3 DEF InOrder, Before, Same
  <2>1. CASE j \in DOMAIN finished[u] /\ finished'[u][j] = finished[u][j] /\ (u = s => j < n + 1)
    <3>1. i \in DOMAIN finished[u] /\ finished'[u][i] = finished[u][i]
      BY <1>2, <1>5, <2>1
    <3> QED BY <2>1, <3>1 DEF OrderInv, InOrder, Before, Same
  <2>2. CASE u = s /\ j = n + 1 /\ finished'[u][j] = m
    <3>1. i \in DOMAIN finished[u] /\ finished'[u][i] = finished[u][i]
      BY <1>2, <1>5, <2>2
    <3> QED BY <2>2, <3>1 DEF OrderInv, FinishedOK
  <2> QED BY <1>5, <2>1, <2>2
<1> QED BY <1>6, <1>7, <1>8, <1>9 DEF OrderInv

LEMMA OrderStep ==
    ASSUME Params, Base, WorkersOK, OneDispatcher, Sole, OrderInv, [Next]_vars
    PROVE  OrderInv'
<1>1. CASE NothingMoves
  BY <1>1 DEF NothingMoves, OrderInv, QueueOK, JobsOK, FinishedOK, InOrder, Before, Came, Same
<1>2. ASSUME NEW s \in Sub, Cleared(s) PROVE OrderInv'
  <2>1. \A u \in Sub : heap'[u] = heap[u] \/ heap'[u] = <<>>
    BY <1>2 DEF Cleared, Base, Types
  <2>2. job' = job /\ accepted' = accepted /\ finished' = finished
    BY <1>2 DEF Cleared
  <2> QED BY <2>1, <2>2 DEF OrderInv, QueueOK, JobsOK, FinishedOK, InOrder, Before, Came, Same
<1> QED BY <1>1, <1>2, StepFlow, NobodyElse, OrderEnqueued, OrderTaken, OrderDone DEF FlowEffect
----------------------------------------------------------------------------
\* What a step does to the files of the broker, to removals and to workers.
Unfiled == UNCHANGED <<registry, workers, started, closed, call, retired>> /\ \A s \in Sub : at'[s] = at[s]
Subscribed(s) ==
    /\ Fresh(s) /\ registry' = [registry EXCEPT ![KeyOf[s]] = s]
    /\ workers' = IF started THEN [workers EXCEPT ![KeyOf[s]] = s] ELSE workers
    /\ \A u \in Sub : at'[u] = IF u = s /\ started THEN "loop" ELSE at[u]
    /\ UNCHANGED <<closed, call, retired>>
Started ==
    /\ ~started
    /\ workers' = [k \in Key |-> IF registry[k] # None THEN registry[k] ELSE workers[k]]
    /\ \A u \in Sub : at'[u] = IF u \in Registered THEN "loop" ELSE at[u]
    /\ UNCHANGED <<registry, closed, call, retired>>
\* A worker goes on: into a call only from its loop and while not closed, and
\* into its loop only from a call.
Moved(s) ==
    /\ \/ at[s] = "loop" /\ ~closed[s] /\ at'[s] = "calling"
       \/ at[s] = "loop" /\ closed[s] /\ at'[s] = "done"
       \/ Working(s) /\ at'[s] \in {"calling", "backoff", "loop"}
    /\ \A u \in Sub : u # s => at'[u] = at[u]
    /\ UNCHANGED <<registry, workers, closed, call, retired>>
Asked(t) ==
    /\ call[t].step = "none" /\ \A u \in Remover : u # t => call'[u] = call[u]
    /\ call'[t] = call[t] \/ call'[t].step = "next"
    /\ \A k \in Key : registry'[k] \in {registry[k], None}
    /\ UNCHANGED <<workers, closed, at, retired>>
Closed(t, s) ==
    /\ call[t].step = "next" /\ closed' = [closed EXCEPT ![s] = TRUE]
    /\ call'[t].step = "closed" /\ call'[t].sub = s
    /\ \A u \in Remover : u # t => call'[u] = call[u]
    /\ UNCHANGED <<registry, workers, at, retired>>
PoppedBy(t, s) ==
    /\ call[t].step = "closed" /\ call[t].sub = s
    /\ call'[t].step = "join" /\ call'[t].sub = s /\ call'[t].join = workers[KeyOf[s]]
    /\ \A u \in Remover : u # t => call'[u] = call[u]
    /\ workers' = [workers EXCEPT ![KeyOf[s]] = None]
    /\ UNCHANGED <<registry, closed, at, retired>>
JoinedBy(t, s) ==
    /\ call[t].step = "join" /\ call[t].sub = s /\ Joined(t)
    /\ retired' = retired \cup {<<s, t>>}
    /\ call'[t].step \in {"none", "next"}
    /\ \A u \in Remover : u # t => call'[u] = call[u]
    /\ UNCHANGED <<registry, workers, closed, at>>

FileEffect ==
    \/ Unfiled
    \/ \E s \in Sub : Subscribed(s)
    \/ Started
    \/ \E s \in Sub : Moved(s)
    \/ \E t \in Remover : Asked(t)
    \/ \E t \in Remover, s \in Sub : Closed(t, s) \/ PoppedBy(t, s) \/ JoinedBy(t, s)

LEMMA StepFiles ==
    ASSUME Params, Base, [Next]_vars
    PROVE  FileEffect
<1>0. /\ \A s \in Sub : s \in Dispatcher /\ s \notin Runner
      /\ \A r \in Runner : r \in Dispatcher /\ r \notin Sub
  BY DEF Params, Dispatcher
<1>1. ASSUME UNCHANGED <<registry, workers, started, closed, call, retired, at>> PROVE FileEffect
  BY <1>1 DEF FileEffect, Unfiled
<1>2. ASSUME NEW d \in Dispatcher, NEW new, at' = [at EXCEPT ![d] = new],
             UNCHANGED <<registry, workers, started, closed, call, retired>>,
             d \in Sub => \/ at[d] = "loop" /\ ~closed[d] /\ new = "calling"
                          \/ at[d] = "loop" /\ closed[d] /\ new = "done"
                          \/ Working(d) /\ new \in {"calling", "backoff", "loop"}
      PROVE  FileEffect
  <2>1. \A e \in Dispatcher : at'[e] = IF e = d THEN new ELSE at[e]
    BY <1>2 DEF Base, Types
  <2>2. CASE d \in Sub
    <3>1. Moved(d)
      BY <1>0, <1>2, <2>1, <2>2 DEF Moved
    <3> QED BY <2>2, <3>1 DEF FileEffect
  <2>3. CASE d \notin Sub
    BY <1>0, <1>2, <2>1, <2>3 DEF FileEffect, Unfiled
  <2> QED BY <2>2, <2>3
<1>3. CASE UNCHANGED vars
  BY <1>1, <1>3 DEF vars, regVars, subVars, dispVars, histVars
<1>4. CASE Client
  <2>1. CASE Start
    <3>1. Started
      BY <1>0, <2>1 DEF Start, Started, subVars, histVars
    <3> QED BY <3>1 DEF FileEffect
  <2>2. ASSUME NEW s \in Sub, Subscribe(s) PROVE FileEffect
    <3>1. Subscribed(s)
      BY <1>0, <2>2 DEF Subscribe, Subscribed, subVars, histVars, Base, Types
    <3> QED BY <3>1 DEF FileEffect
  <2>3. ASSUME NEW r \in Runner, RunCheck(r) PROVE FileEffect
    BY <1>0, <1>2, <2>3 DEF RunCheck, regVars, subVars, histVars
  <2>4. ASSUME NEW t \in Remover, NEW objects, Removes(t, objects), \A k \in Key : registry'[k] \in {registry[k], None}
        PROVE  FileEffect
    <3>1. Asked(t)
      BY <2>4 DEF Removes, Asked, Remaining, subVars, dispVars, histVars, Base, Types
    <3> QED BY <3>1 DEF FileEffect
  <2>5. ASSUME NEW t \in Remover, NEW k \in Key, Unsubscribe(t, k) PROVE FileEffect
    BY <2>4, <2>5 DEF Unsubscribe, Base, Types
  <2>6. ASSUME NEW t \in Remover, NEW topic \in Topic, DeleteTopic(t, topic) PROVE FileEffect
    BY <2>4, <2>6 DEF DeleteTopic
  <2>7. ASSUME NEW t \in Remover, CloseBroker(t) PROVE FileEffect
    BY <2>4, <2>7 DEF CloseBroker
  <2> QED BY <1>1, <1>4, <2>1, <2>2, <2>3, <2>5, <2>6, <2>7
          DEF Client, CreateTopic, PublishSnapshot, regVars, subVars, dispVars, histVars
<1>5. ASSUME NEW p \in Publisher, Fan(p) PROVE FileEffect
  BY <1>1, <1>5 DEF Fan, PublishReturn, Offer, regVars, subVars, dispVars, histVars
<1>6. ASSUME NEW d \in Dispatcher, Dispatch(d) PROVE FileEffect
  <2>1. CASE d \in Sub /\ WorkerTake(d)
    BY <1>2, <2>1 DEF WorkerTake, Take, CanTake, regVars, histVars
  <2>2. CASE d \in Sub /\ WorkerExit(d)
    BY <1>2, <2>2 DEF WorkerExit, regVars, subVars, histVars
  <2>3. CASE CallOk(d) \/ CallFailsLast(d) \/ RetryClosed(d)
    BY <1>2, <2>3 DEF CallOk, CallFailsLast, RetryClosed, EndDispatch, Returning, Working, regVars
  <2>4. CASE CallFailsRetry(d) \/ Retry(d)
    BY <1>2, <2>4 DEF CallFailsRetry, Retry, Returning, Working, regVars, subVars, histVars
  <2> QED BY <1>6, <2>1, <2>2, <2>3, <2>4 DEF Dispatch
<1>7. ASSUME NEW r \in Runner, Run(r) PROVE FileEffect
  BY <1>0, <1>1, <1>2, <1>7 DEF Run, RunSnapshot, RunPassEnds, RunDispatch, Take, RunSkip, regVars, subVars, histVars
<1>8. ASSUME NEW t \in Remover, Retire(t) PROVE FileEffect
  <2>1. ASSUME NEW s \in Sub, RetireClose(t, s) PROVE FileEffect
    <3>1. Closed(t, s)
      BY <2>1 DEF RetireClose, Closed, regVars, dispVars, Base, Types
    <3> QED BY <3>1 DEF FileEffect
  <2>2. CASE RetirePop(t)
    <3>1. call[t].sub \in Sub
      BY <2>2 DEF RetirePop, Base, Types, HandsOK
    <3>2. PoppedBy(t, call[t].sub)
      BY <2>2, <3>1 DEF RetirePop, PoppedBy, subVars, dispVars, histVars, Base, Types
    <3> QED BY <3>1, <3>2 DEF FileEffect
  <2>3. CASE RetireJoin(t)
    <3>1. call[t].sub \in Sub
      BY <2>3 DEF RetireJoin, Base, Types, HandsOK
    <3>2. JoinedBy(t, call[t].sub)
      BY <2>3, <3>1 DEF RetireJoin, JoinedBy, NoCall, Remaining, regVars, subVars, dispVars, Base, Types
    <3> QED BY <3>1, <3>2 DEF FileEffect
  <2> QED BY <1>8, <2>1, <2>2, <2>3 DEF Retire
<1> QED BY <1>3, <1>4, <1>5, <1>6, <1>7, <1>8 DEF Next

\* A step that leaves the files and the removals as they are.
LEMMA QuietUnfiled ==
    ASSUME QuietInv, Unfiled
    PROVE  QuietInv'
BY DEF Unfiled, QuietInv, FiledOK, ClosedOK, FoundOK, Popped, Working

LEMMA QuietSubscribed ==
    ASSUME Params, IdsNotReused, Base, QuietInv, NEW s \in Sub, Subscribed(s)
    PROVE  QuietInv'
<1>0. KeyOf[s] \in Key /\ \A u \in Sub : KeyOf[u] \in Key /\ (KeyOf[u] = KeyOf[s] => u = s)
  BY DEF Params, IdsNotReused
<1>1. /\ \A k \in Key : registry'[k] = IF k = KeyOf[s] THEN s ELSE registry[k]
      /\ \A k \in Key : workers'[k] = IF started /\ k = KeyOf[s] THEN s ELSE workers[k]
      /\ \A u \in Sub : at'[u] = IF u = s /\ started THEN "loop" ELSE at[u]
      /\ at[s] = "off" /\ closed' = closed /\ call' = call /\ retired' = retired
  BY <1>0 DEF Subscribed, Fresh, Base, Types
<1>2. FiledOK'
  BY <1>1 DEF QuietInv, FiledOK
<1>3. ClosedOK'
  BY <1>1 DEF QuietInv, ClosedOK, Popped
<1>4. FoundOK'
  BY <1>0, <1>1 DEF QuietInv, FoundOK, Popped, Working
<1> QED BY <1>2, <1>3, <1>4 DEF QuietInv

LEMMA QuietStarted ==
    ASSUME Params, Base, WorkersOK, QuietInv, Started
    PROVE  QuietInv'
<1>1. /\ \A k \in Key : workers'[k] = IF registry[k] # None THEN registry[k] ELSE workers[k]
      /\ \A u \in Sub : at'[u] \in {"off", "loop"}
      /\ \A u \in Sub : at'[u] = "loop" => u \in Registered
      /\ registry' = registry /\ closed' = closed /\ call' = call /\ retired' = retired
  BY DEF Started, WorkersOK
<1>2. FiledOK'
  BY <1>1 DEF QuietInv, FiledOK
<1>3. ClosedOK'
  BY <1>1 DEF QuietInv, ClosedOK, Popped
<1>4. ASSUME NEW u \in Sub, at'[u] = "loop" PROVE workers'[KeyOf[u]] = u
  <2>1. PICK k \in Key : registry[k] = u /\ registry[k] # None
    BY <1>1, <1>4 DEF Registered
  <2>2. KeyOf[u] = k
    BY <2>1 DEF QuietInv, FiledOK
  <2> QED BY <1>1, <2>1, <2>2
<1>5. FoundOK'
  BY <1>1, <1>4 DEF FoundOK, Working
<1> QED BY <1>2, <1>3, <1>5 DEF QuietInv

LEMMA QuietMoved ==
    ASSUME Params, Base, QuietInv, NEW s \in Sub, Moved(s)
    PROVE  QuietInv'
<1>1. FiledOK' /\ ClosedOK'
  BY DEF Moved, QuietInv, FiledOK, ClosedOK, Popped
<1>2. \A u \in Sub : Popped(u)' = Popped(u)
  BY DEF Moved, Popped
<1>3. s \in Remover /\ s # None
  BY DEF Remover, Params
<1>4. /\ \/ at[s] = "loop" /\ ~closed[s] /\ at'[s] = "calling"
         \/ at[s] = "loop" /\ closed[s] /\ at'[s] = "done"
         \/ Working(s) /\ at'[s] \in {"calling", "backoff", "loop"}
      /\ \A u \in Sub : u # s => at'[u] = at[u]
      /\ workers' = workers /\ closed' = closed /\ call' = call /\ retired' = retired
  BY DEF Moved
<1>5. ASSUME NEW u \in Sub, u # s
      PROVE  /\ Working(u)' =>
                   \/ workers'[KeyOf[u]] = u /\ ~Popped(u)'
                   \/ \E t \in Remover : call'[t].step = "join" /\ call'[t].join = u
                   \/ <<u, u>> \in retired'
             /\ at'[u] = "loop" /\ ~closed'[u] => workers'[KeyOf[u]] = u
  BY <1>2, <1>4, <1>5 DEF QuietInv, FoundOK, Working
<1>6. Popped(s) => closed[s]
  BY DEF QuietInv, ClosedOK
<1>7. Working(s) \/ (at[s] = "loop" /\ ~closed[s]) =>
             \/ workers[KeyOf[s]] = s /\ ~Popped(s)
             \/ \E t \in Remover : call[t].step = "join" /\ call[t].join = s
             \/ <<s, s>> \in retired
  BY <1>6 DEF QuietInv, FoundOK
<1>8. Working(s) /\ ~closed[s] => workers[KeyOf[s]] = s
  <2>1. ASSUME NEW t \in Remover, call[t].step = "join", call[t].join = s PROVE closed[s]
    BY <1>3, <2>1 DEF QuietInv, FiledOK, ClosedOK
  <2>2. <<s, s>> \in retired => closed[s]
    BY <1>3, <1>6 DEF Popped
  <2> QED BY <1>7, <2>1, <2>2
<1>9. /\ Working(s)' =>
            \/ workers'[KeyOf[s]] = s /\ ~Popped(s)'
            \/ \E t \in Remover : call'[t].step = "join" /\ call'[t].join = s
            \/ <<s, s>> \in retired'
      /\ at'[s] = "loop" /\ ~closed'[s] => workers'[KeyOf[s]] = s
  BY <1>2, <1>4, <1>7, <1>8 DEF Working
<1>10. FoundOK'
  BY <1>5, <1>9 DEF FoundOK, Working
<1> QED BY <1>1, <1>10 DEF QuietInv

\* A removal that gets its list has popped nobody yet.
LEMMA QuietAsked ==
    ASSUME Base, QuietInv, NEW t \in Remover, Asked(t)
    PROVE  QuietInv'
<1>1. /\ \A u \in Remover : call'[u] = call[u] \/ (call[u].step = "none" /\ call'[u].step = "next")
      /\ \A k \in Key : registry'[k] \in {registry[k], None}
      /\ workers' = workers /\ closed' = closed /\ at' = at /\ retired' = retired
  BY DEF Asked
<1>2. \A u \in Sub : Popped(u)' = Popped(u)
  <2>1. \A u \in Remover : /\ call'[u].step = "join" => call'[u] = call[u]
                           /\ call[u].step = "join" => call'[u] = call[u]
    BY <1>1
  <2> QED BY <1>1, <2>1 DEF Popped
<1>3. FiledOK'
  BY <1>1 DEF QuietInv, FiledOK
<1>4. ClosedOK'
  BY <1>1, <1>2 DEF QuietInv, ClosedOK
<1>5. FoundOK'
  <2>1. \A u \in Remover, v \in Sub : call[u].step = "join" /\ call[u].join = v =>
                                     call'[u].step = "join" /\ call'[u].join = v
    BY <1>1
  <2>2. \A v \in Sub : (Working(v)' <=> Working(v)) /\ (~closed'[v] => ~closed[v])
    BY <1>1 DEF Working
  <2>3. ASSUME NEW v \in Sub, Working(v)
        PROVE  \/ workers'[KeyOf[v]] = v /\ ~Popped(v)'
               \/ \E u \in Remover : call'[u].step = "join" /\ call'[u].join = v
               \/ <<v, v>> \in retired'
    <3>1. \/ workers[KeyOf[v]] = v /\ ~Popped(v)
          \/ \E u \in Remover : call[u].step = "join" /\ call[u].join = v
          \/ <<v, v>> \in retired
      BY <2>3 DEF QuietInv, FoundOK
    <3>2. workers' = workers /\ retired' = retired
      BY <1>1
    <3> QED BY <1>2, <2>1, <3>1, <3>2
  <2>4. ASSUME NEW v \in Sub, at'[v] = "loop", ~closed'[v] PROVE workers'[KeyOf[v]] = v
    BY <1>1, <2>2, <2>4 DEF QuietInv, FoundOK
  <2> QED BY <2>2, <2>3, <2>4 DEF FoundOK
<1> QED BY <1>3, <1>4, <1>5 DEF QuietInv

LEMMA QuietClosed ==
    ASSUME Base, QuietInv, NEW t \in Remover, NEW s \in Sub, Closed(t, s)
    PROVE  QuietInv'
<1>1. /\ call[t].step = "next" /\ call'[t].step = "closed" /\ call'[t].sub = s
      /\ \A u \in Remover : u # t => call'[u] = call[u]
      /\ \A u \in Sub : closed'[u] = IF u = s THEN TRUE ELSE closed[u]
      /\ registry' = registry /\ workers' = workers /\ at' = at /\ retired' = retired
  BY DEF Closed, Base, Types
<1>2. \A u \in Sub : Popped(u)' = Popped(u)
  <2>1. \A u \in Remover : /\ call'[u].step = "join" => call'[u] = call[u]
                           /\ call[u].step = "join" => call'[u] = call[u]
    BY <1>1
  <2> QED BY <1>1, <2>1 DEF Popped
<1>3. FiledOK'
  BY <1>1 DEF QuietInv, FiledOK
<1>4. \A u \in Remover : call[u].step \in {"closed", "join"} => call[u].sub \in Sub
  BY DEF Base, Types, HandsOK
<1>5. ClosedOK'
  BY <1>1, <1>2, <1>4 DEF QuietInv, ClosedOK
<1>6. FoundOK'
  <2>1. \A u \in Remover, v \in Sub : call[u].step = "join" /\ call[u].join = v =>
                                     call'[u].step = "join" /\ call'[u].join = v
    BY <1>1
  <2>2. \A v \in Sub : (Working(v)' <=> Working(v)) /\ (~closed'[v] => ~closed[v])
    BY <1>1 DEF Working
  <2>3. ASSUME NEW v \in Sub, Working(v)
        PROVE  \/ workers'[KeyOf[v]] = v /\ ~Popped(v)'
               \/ \E u \in Remover : call'[u].step = "join" /\ call'[u].join = v
               \/ <<v, v>> \in retired'
    <3>1. \/ workers[KeyOf[v]] = v /\ ~Popped(v)
          \/ \E u \in Remover : call[u].step = "join" /\ call[u].join = v
          \/ <<v, v>> \in retired
      BY <2>3 DEF QuietInv, FoundOK
    <3>2. workers' = workers /\ retired' = retired
      BY <1>1
    <3> QED BY <1>2, <2>1, <3>1, <3>2
  <2>4. ASSUME NEW v \in Sub, at'[v] = "loop", ~closed'[v] PROVE workers'[KeyOf[v]] = v
    BY <1>1, <2>2, <2>4 DEF QuietInv, FoundOK
  <2> QED BY <2>2, <2>3, <2>4 DEF FoundOK
<1> QED BY <1>3, <1>5, <1>6 DEF QuietInv

\* The worker of s passes from the file to the removal that waits for it.
LEMMA QuietPopped ==
    ASSUME Params, IdsNotReused, Base, QuietInv, NEW t \in Remover, NEW s \in Sub, PoppedBy(t, s)
    PROVE  QuietInv'
<1>0. KeyOf[s] \in Key /\ \A u \in Sub : KeyOf[u] \in Key /\ (KeyOf[u] = KeyOf[s] => u = s)
  BY DEF Params, IdsNotReused
<1>1. /\ call[t].step = "closed" /\ call[t].sub = s
      /\ call'[t].step = "join" /\ call'[t].sub = s /\ call'[t].join = workers[KeyOf[s]]
      /\ \A u \in Remover : u # t => call'[u] = call[u]
      /\ \A k \in Key : workers'[k] = IF k = KeyOf[s] THEN None ELSE workers[k]
      /\ registry' = registry /\ closed' = closed /\ at' = at /\ retired' = retired
  <2>1. workers \in [Key -> Sub \cup {None}]
    BY DEF Base, Types
  <2> QED BY <1>0, <2>1 DEF PoppedBy
<1>2. workers[KeyOf[s]] \in {s, None}
  <2>1. workers[KeyOf[s]] \in Sub \cup {None}
    BY <1>0 DEF Base, Types
  <2>2. workers[KeyOf[s]] # None => KeyOf[workers[KeyOf[s]]] = KeyOf[s]
    BY <1>0 DEF QuietInv, FiledOK
  <2> QED BY <1>0, <2>1, <2>2
<1>3. closed[s]
  BY <1>1 DEF QuietInv, ClosedOK
<1>4. \A u \in Sub : Popped(u)' <=> (Popped(u) \/ u = s)
  BY <1>1 DEF Popped
<1>5. FiledOK'
  BY <1>1, <1>2 DEF QuietInv, FiledOK
<1>6. ClosedOK'
  BY <1>1, <1>3, <1>4 DEF QuietInv, ClosedOK
<1>7. ASSUME NEW u \in Sub, Working(u)
      PROVE  \/ workers'[KeyOf[u]] = u /\ ~Popped(u)'
             \/ \E v \in Remover : call'[v].step = "join" /\ call'[v].join = u
             \/ <<u, u>> \in retired'
  <2>1. CASE workers[KeyOf[u]] = u /\ ~Popped(u)
    BY <1>0, <1>1, <1>4, <2>1
  <2>2. ASSUME NEW v \in Remover, call[v].step = "join", call[v].join = u
        PROVE  call'[v].step = "join" /\ call'[v].join = u
    BY <1>1, <2>2
  <2> QED BY <1>1, <1>7, <2>1, <2>2 DEF QuietInv, FoundOK
<1>8. ASSUME NEW u \in Sub, at[u] = "loop", ~closed[u] PROVE workers'[KeyOf[u]] = u
  BY <1>0, <1>1, <1>3, <1>8 DEF QuietInv, FoundOK
<1>9. FoundOK'
  BY <1>1, <1>7, <1>8 DEF FoundOK, Working
<1> QED BY <1>5, <1>6, <1>9 DEF QuietInv

\* A removal is over: the worker it waited for is done, or is the caller.
LEMMA QuietJoined ==
    ASSUME Params, Base, QuietInv, NEW t \in Remover, NEW s \in Sub, JoinedBy(t, s)
    PROVE  QuietInv'
<1>1. /\ call[t].step = "join" /\ call[t].sub = s
      /\ call[t].join \notin {None, t} => at[call[t].join] = "done"
      /\ call'[t].step \in {"none", "next"}
      /\ \A u \in Remover : u # t => call'[u] = call[u]
      /\ retired' = retired \cup {<<s, t>>}
      /\ registry' = registry /\ workers' = workers /\ closed' = closed /\ at' = at
  BY DEF JoinedBy, Joined
<1>2. \A u \in Sub : Popped(u)' <=> Popped(u)
  BY <1>1 DEF Popped
<1>3. FiledOK'
  BY <1>1 DEF QuietInv, FiledOK
<1>4. ClosedOK'
  BY <1>1, <1>2 DEF QuietInv, ClosedOK
<1>5. ASSUME NEW u \in Sub, Working(u)
      PROVE  \/ workers'[KeyOf[u]] = u /\ ~Popped(u)'
             \/ \E v \in Remover : call'[v].step = "join" /\ call'[v].join = u
             \/ <<u, u>> \in retired'
  <2>1. CASE workers[KeyOf[u]] = u /\ ~Popped(u)
    BY <1>1, <1>2, <2>1
  <2>2. ASSUME NEW v \in Remover, call[v].step = "join", call[v].join = u
        PROVE  \/ call'[v].step = "join" /\ call'[v].join = u
               \/ <<u, u>> \in retired'
    <3>1. CASE v # t
      BY <1>1, <2>2, <3>1
    <3>2. CASE v = t
      <4>1. u = s /\ u # None
        BY <1>1, <2>2, <3>2 DEF QuietInv, FiledOK, Params
      <4>2. u = t
        BY <1>1, <1>5, <2>2, <3>2, <4>1 DEF Working
      <4> QED BY <1>1, <4>1, <4>2
    <3> QED BY <3>1, <3>2
  <2>3. CASE <<u, u>> \in retired
    BY <1>1, <2>3
  <2> QED BY <1>5, <2>1, <2>2, <2>3 DEF QuietInv, FoundOK
<1>6. FoundOK'
  BY <1>1, <1>5 DEF QuietInv, FoundOK, Working
<1> QED BY <1>3, <1>4, <1>6 DEF QuietInv

LEMMA QuietStep ==
    ASSUME Params, IdsNotReused, Base, WorkersOK, QuietInv, [Next]_vars
    PROVE  QuietInv'
BY StepFiles, QuietUnfiled, QuietSubscribed, QuietStarted, QuietMoved, QuietAsked, QuietClosed,
   QuietPopped, QuietJoined DEF FileEffect

\* A worker in a call that was not found by the removals that are over is
\* waited for, so its subscription is still being removed.
LEMMA QuietEnough ==
    ASSUME Params, Base, QuietInv
    PROVE  RetiredIsQuiet
<1> SUFFICES ASSUME NEW s \in Sub, NEW t \in Remover, <<s, t>> \in retired, <<s, s>> \notin retired,
                    ~BeingRemoved(s), Working(s)
             PROVE  FALSE
  BY DEF RetiredIsQuiet, Working
<1>1. Popped(s)
  BY DEF Popped
<1>2. PICK u \in Remover : call[u].step = "join" /\ call[u].join = s
  BY <1>1 DEF QuietInv, FoundOK
<1>3. call[u].sub = s
  BY <1>2 DEF QuietInv, FiledOK, Params
<1> QED BY <1>3 DEF BeingRemoved
----------------------------------------------------------------------------
\* Where a message of a subscription can be.
Queued(s, m) == \E i \in DOMAIN heap[s] : heap[s][i] = m
Held(s, m) == \E d \in Dispatcher : job[d].sub = s /\ job[d].msg = m

OutTypes ==
    /\ delivered \in [Sub -> SUBSET Message] /\ dead \in [Sub -> SUBSET Message]
    /\ discarded \in [Sub -> SUBSET Message] /\ inFlight \in [Sub -> Int]
\* What was accepted is in one place; nothing else is anywhere but among the
\* dead letters, where an overflow puts what was never accepted.
PlacesOK ==
    \A s \in Sub, m \in Message :
        /\ Queued(s, m) \/ Held(s, m) \/ m \in delivered[s] \/ m \in discarded[s] => Came(s, m)
        /\ Came(s, m) => /\ Queued(s, m) \/ Held(s, m) \/ Settled(s, m)
                         /\ Queued(s, m) => ~Held(s, m) /\ ~Settled(s, m)
                         /\ Held(s, m) => ~Settled(s, m)
                         /\ m \in delivered[s] => m \notin dead[s] \cup discarded[s]
                         /\ m \in dead[s] => m \notin discarded[s]
UniqueOK ==
    /\ \A s \in Sub : \A i, j \in DOMAIN heap[s] : heap[s][i] = heap[s][j] => i = j
    /\ \A d, e \in Dispatcher :
          job[d].sub # None /\ job[d].sub = job[e].sub /\ job[d].msg = job[e].msg => d = e
\* What publish has still to offer is new to whom it is offered.
OffersOK ==
    /\ \A p \in Publisher : \A s \in pub[p].targets : ~Came(s, pub[p].msg) /\ pub[p].msg \notin dead[s]
    /\ \A p, q \in Publisher : pub[p].msg # None /\ pub[p].msg = pub[q].msg => p = q
FlightOK == \A s \in Sub : inFlight[s] = Cardinality(Holding(s))

LossInv == OutTypes /\ PlacesOK /\ UniqueOK /\ OffersOK /\ FlightOK

\* What a step does to the places of messages and to what is still to offer.
OffersShrink ==
    \A p \in Publisher : \/ pub'[p].msg = pub[p].msg /\ pub'[p].targets \subseteq pub[p].targets
                         \/ pub'[p].msg = None /\ pub'[p].targets = {}
Kept ==
    /\ UNCHANGED <<heap, accepted, delivered, dead, discarded, inFlight>>
    /\ \A d \in Dispatcher : job'[d].sub = job[d].sub /\ job'[d].msg = job[d].msg
Announced(p, m) ==
    /\ Kept /\ pub'[p].msg = m /\ pub'[p].targets \subseteq Sub
    /\ \A q \in Publisher : pub[q].msg # m /\ (q # p => pub'[q] = pub[q])
    /\ \A s \in Sub : ~Came(s, m) /\ m \notin dead[s]
Entered(p, s) ==
    /\ s \in pub[p].targets /\ s \notin pub'[p].targets /\ OffersShrink
    /\ heap' = [heap EXCEPT ![s] = Append(@, pub[p].msg)]
    /\ accepted' = [accepted EXCEPT ![s] = Append(@, pub[p].msg)]
    /\ UNCHANGED <<job, delivered, dead, discarded, inFlight>>
Overflowed(p, s) ==
    /\ s \in pub[p].targets /\ s \notin pub'[p].targets /\ OffersShrink
    /\ dead' = [dead EXCEPT ![s] = @ \cup {pub[p].msg}]
    /\ UNCHANGED <<heap, accepted, job, delivered, discarded, inFlight>>
Fetched(d, s) ==
    /\ heap[s] # <<>> /\ job[d].sub = None
    /\ heap' = [heap EXCEPT ![s] = RemoveAt(@, Head1(s))]
    /\ inFlight' = [inFlight EXCEPT ![s] = @ + 1]
    /\ job' = [job EXCEPT ![d] = [sub |-> s, msg |-> heap[s][Head1(s)], attempt |-> 1]]
    /\ UNCHANGED <<accepted, delivered, dead, discarded, pub>>
Ended(d) ==
    /\ job[d].sub # None /\ job' = [job EXCEPT ![d] = NoJob]
    /\ inFlight' = [inFlight EXCEPT ![job[d].sub] = @ - 1]
    /\ \/ delivered' = [delivered EXCEPT ![job[d].sub] = @ \cup {job[d].msg}] /\ dead' = dead
       \/ dead' = [dead EXCEPT ![job[d].sub] = @ \cup {job[d].msg}] /\ delivered' = delivered
    /\ UNCHANGED <<heap, accepted, discarded, pub>>
Discarded(s) ==
    /\ heap' = [heap EXCEPT ![s] = <<>>]
    /\ discarded' = [discarded EXCEPT ![s] = @ \cup ToSet(heap[s])]
    /\ UNCHANGED <<accepted, job, delivered, dead, inFlight, pub>>

PlaceEffect ==
    \/ Kept /\ OffersShrink
    \/ \E p \in Publisher, m \in Message : Announced(p, m)
    \/ \E p \in Publisher, s \in Sub : Entered(p, s) \/ Overflowed(p, s)
    \/ \E d \in Dispatcher, s \in Sub : Fetched(d, s)
    \/ \E d \in Dispatcher : Ended(d)
    \/ \E s \in Sub : Discarded(s)

LEMMA StepPlaces ==
    ASSUME Params, Base, [Next]_vars
    PROVE  PlaceEffect
<1>1. ASSUME UNCHANGED <<heap, accepted, delivered, dead, discarded, inFlight, job, pub>> PROVE PlaceEffect
  <2>1. Kept /\ OffersShrink
    BY <1>1 DEF Kept, OffersShrink
  <2> QED BY <2>1 DEF PlaceEffect
<1>2. CASE UNCHANGED vars
  BY <1>1, <1>2 DEF vars, subVars, dispVars, histVars
<1>3. CASE Client
  <2>1. CASE Start \/ \E topic \in Topic : CreateTopic(topic)
    BY <1>1, <2>1 DEF Start, CreateTopic, subVars, dispVars, histVars
  <2>2. CASE (\E s \in Sub : Subscribe(s)) \/ (\E r \in Runner : RunCheck(r))
    BY <1>1, <2>2 DEF Subscribe, RunCheck, subVars, histVars
  <2>3. ASSUME NEW p \in Publisher, NEW m \in Message, NEW topic \in Topic, PublishSnapshot(p, m, topic)
        PROVE  PlaceEffect
    <3>1. Kept
      BY <2>3 DEF PublishSnapshot, Kept, subVars, dispVars, histVars
    <3>2. pub \in [Publisher -> [msg : Message \cup {None}, targets : SUBSET Sub]] /\ Registered \subseteq Sub
      BY RegisteredSubs DEF Base, Types
    <3>3. /\ pub'[p].msg = m /\ pub'[p].targets \subseteq Sub
          /\ \A q \in Publisher : q # p => pub'[q] = pub[q]
      BY <2>3, <3>2 DEF PublishSnapshot
    <3>4. \A q \in Publisher : pub[q].msg # m
      BY <2>3 DEF PublishSnapshot
    <3>5. ASSUME NEW s \in Sub PROVE ~Came(s, m) /\ m \notin dead[s]
      <4>1. accepted[s] \in Seq(Message)
        BY DEF Base, Types
      <4>2. ~Contains(accepted[s], m) /\ m \notin dead[s]
        BY <2>3 DEF PublishSnapshot
      <4> QED BY <4>1, <4>2 DEF Came, Contains
    <3>6. Announced(p, m)
      BY <3>1, <3>3, <3>4, <3>5 DEF Announced
    <3> QED BY <3>6 DEF PlaceEffect
  <2>4. ASSUME NEW t \in Remover, NEW objects, Removes(t, objects) PROVE PlaceEffect
    BY <1>1, <2>4 DEF Removes, subVars, dispVars, histVars
  <2>5. ASSUME NEW t \in Remover,
               \/ \E k \in Key : Unsubscribe(t, k)
               \/ \E topic \in Topic : DeleteTopic(t, topic)
               \/ CloseBroker(t)
        PROVE  PlaceEffect
    BY <2>4, <2>5 DEF Unsubscribe, DeleteTopic, CloseBroker
  <2> QED BY <1>3, <2>1, <2>2, <2>3, <2>5 DEF Client
<1>4. ASSUME NEW p \in Publisher, Fan(p) PROVE PlaceEffect
  <2>0. pub \in [Publisher -> [msg : Message \cup {None}, targets : SUBSET Sub]]
    BY DEF Base, Types
  <2>1. CASE PublishReturn(p)
    <3>1. Kept
      BY <2>1 DEF PublishReturn, Kept, subVars, dispVars, histVars
    <3>2. OffersShrink
      BY <2>0, <2>1 DEF PublishReturn, OffersShrink, NoPub
    <3> QED BY <3>1, <3>2 DEF PlaceEffect
  <2>2. ASSUME NEW s \in Sub, Offer(p, s) PROVE PlaceEffect
    <3>1. s \in pub[p].targets /\ pub' = [pub EXCEPT ![p].targets = @ \ {s}]
      BY <2>2 DEF Offer
    <3>2. /\ \A q \in Publisher : pub'[q].msg = pub[q].msg /\ pub'[q].targets \subseteq pub[q].targets
          /\ s \notin pub'[p].targets
      BY <2>0, <3>1
    <3>3. OffersShrink
      BY <3>2 DEF OffersShrink
    <3>4. UNCHANGED <<job, delivered, discarded, inFlight>>
      BY <2>2 DEF Offer, dispVars
    <3>5. \/ /\ heap' = [heap EXCEPT ![s] = Append(@, pub[p].msg)]
             /\ accepted' = [accepted EXCEPT ![s] = Append(@, pub[p].msg)] /\ dead' = dead
          \/ dead' = [dead EXCEPT ![s] = @ \cup {pub[p].msg}] /\ UNCHANGED <<heap, accepted>>
          \/ UNCHANGED <<heap, accepted, dead>>
      BY <2>2 DEF Offer
    <3>6. Entered(p, s) \/ Overflowed(p, s) \/ Kept
      BY <3>1, <3>2, <3>3, <3>4, <3>5 DEF Entered, Overflowed, Kept
    <3> QED BY <3>3, <3>6 DEF PlaceEffect
  <2> QED BY <1>4, <2>1, <2>2 DEF Fan
<1>5. ASSUME NEW d \in Dispatcher, NEW s \in Sub, Take(d, s), ~Working(d)
      PROVE  PlaceEffect
  <2>1. job[d].sub = None
    BY <1>5 DEF Base, HandsOK
  <2>2. Fetched(d, s)
    BY <1>5, <2>1 DEF Take, CanTake, CountsTaken, Fetched, histVars
  <2> QED BY <2>2 DEF PlaceEffect
<1>6. ASSUME NEW d \in Dispatcher, CallOk(d) \/ CallFailsLast(d) \/ RetryClosed(d) PROVE PlaceEffect
  <2>1. job[d].sub # None
    BY <1>6 DEF Base, HandsOK, CallOk, CallFailsLast, RetryClosed, Returning, Working
  <2>2. Ended(d)
    BY <1>6, <2>1 DEF CallOk, CallFailsLast, RetryClosed, EndDispatch, Ended
  <2> QED BY <2>2 DEF PlaceEffect
<1>7. ASSUME NEW d \in Dispatcher, Dispatch(d) PROVE PlaceEffect
  <2>1. CASE d \in Sub /\ WorkerTake(d)
    BY <1>5, <2>1 DEF WorkerTake, Working
  <2>2. CASE WorkerExit(d) \/ CallFailsRetry(d)
    BY <1>1, <2>2 DEF WorkerExit, CallFailsRetry, subVars, histVars
  <2>3. CASE Retry(d)
    <3>1. UNCHANGED <<heap, accepted, delivered, dead, discarded, inFlight, pub>> /\ job' = [job EXCEPT ![d].attempt = @ + 1]
      BY <2>3 DEF Retry, subVars, histVars
    <3>2. \A e \in Dispatcher : job'[e].sub = job[e].sub /\ job'[e].msg = job[e].msg
      BY <3>1 DEF Base, Types
    <3>3. Kept /\ OffersShrink
      BY <3>1, <3>2 DEF Kept, OffersShrink
    <3> QED BY <3>3 DEF PlaceEffect
  <2> QED BY <1>6, <1>7, <2>1, <2>2, <2>3 DEF Dispatch
<1>8. ASSUME NEW r \in Runner, Run(r) PROVE PlaceEffect
  <2>1. r \in Dispatcher
    BY DEF Dispatcher
  <2>2. CASE RunSnapshot(r) \/ RunPassEnds(r)
    BY <1>1, <2>2 DEF RunSnapshot, RunPassEnds, subVars, histVars
  <2>3. ASSUME NEW s \in Sub, RunDispatch(r, s) PROVE PlaceEffect
    BY <1>5, <2>1, <2>3 DEF RunDispatch, Working
  <2>4. ASSUME NEW s \in Sub, RunSkip(r, s) PROVE PlaceEffect
    BY <1>1, <2>4 DEF RunSkip, subVars, histVars
  <2> QED BY <1>8, <2>2, <2>3, <2>4 DEF Run
<1>9. ASSUME NEW t \in Remover, Retire(t) PROVE PlaceEffect
  <2>1. ASSUME NEW s \in Sub, RetireClose(t, s) PROVE PlaceEffect
    <3>1. Discarded(s)
      BY <2>1 DEF RetireClose, Discarded, dispVars
    <3> QED BY <3>1 DEF PlaceEffect
  <2>2. CASE RetirePop(t) \/ RetireJoin(t)
    BY <1>1, <2>2 DEF RetirePop, RetireJoin, subVars, dispVars, histVars
  <2> QED BY <1>9, <2>1, <2>2 DEF Retire
<1> QED BY <1>2, <1>3, <1>4, <1>7, <1>8, <1>9 DEF Next
----------------------------------------------------------------------------
\* Steps that leave every message where it is.
LEMMA LossKept ==
    ASSUME Kept, LossInv
    PROVE  OutTypes' /\ PlacesOK' /\ UniqueOK' /\ FlightOK'
<1>1. \A s \in Sub : \A m : /\ Queued(s, m)' <=> Queued(s, m)
                            /\ Held(s, m)' <=> Held(s, m)
                            /\ Came(s, m)' <=> Came(s, m)
                            /\ Settled(s, m)' <=> Settled(s, m)
  BY DEF Kept, Queued, Held, Came, Settled
<1>2. \A s \in Sub : Holding(s)' = Holding(s)
  BY DEF Kept, Holding
<1>3. OutTypes' /\ UniqueOK'
  BY DEF Kept, LossInv, OutTypes, UniqueOK
<1>4. PlacesOK'
  BY <1>1 DEF Kept, LossInv, PlacesOK
<1>5. FlightOK'
  BY <1>2 DEF Kept, LossInv, FlightOK
<1> QED BY <1>3, <1>4, <1>5

\* Offers that remain are those of before, or there are fewer.
LEMMA OffersKept ==
    ASSUME OffersShrink, OffersOK,
           \A q \in Publisher : \A u \in pub'[q].targets : pub'[q].msg = pub[q].msg =>
               ~Came(u, pub[q].msg)' /\ pub[q].msg \notin dead'[u]
    PROVE  OffersOK'
<1>1. ASSUME NEW q \in Publisher, NEW u \in pub'[q].targets PROVE ~Came(u, pub[q].msg)' /\ pub'[q].msg \notin dead'[u]
  <2>1. pub'[q].msg = pub[q].msg
    BY <1>1 DEF OffersShrink
  <2> QED BY <1>1, <2>1 DEF Came
<1>2. ASSUME NEW q \in Publisher, NEW r \in Publisher, pub'[q].msg # None, pub'[q].msg = pub'[r].msg PROVE q = r
  BY <1>2 DEF OffersShrink, OffersOK
<1> QED BY <1>1, <1>2 DEF OffersOK

LEMMA LossStays ==
    ASSUME LossInv, Kept, OffersShrink
    PROVE  LossInv'
<1>1. \A q \in Publisher : \A u \in pub'[q].targets : pub'[q].msg = pub[q].msg =>
          ~Came(u, pub[q].msg)' /\ pub[q].msg \notin dead'[u]
  BY DEF LossInv, OffersOK, OffersShrink, Kept, Came
<1> QED BY <1>1, LossKept, OffersKept DEF LossInv

LEMMA LossAnnounced ==
    ASSUME LossInv, NEW p \in Publisher, NEW m \in Message, Announced(p, m)
    PROVE  LossInv'
<1>1. OffersOK'
  <2>1. ASSUME NEW q \in Publisher, NEW u \in pub'[q].targets
        PROVE  ~Came(u, pub[q].msg)' /\ pub'[q].msg \notin dead'[u]
    BY <2>1 DEF LossInv, OffersOK, Announced, Kept, Came
  <2>2. ASSUME NEW q \in Publisher, NEW r \in Publisher, pub'[q].msg # None, pub'[q].msg = pub'[r].msg PROVE q = r
    BY <2>2 DEF LossInv, OffersOK, Announced
  <2> QED BY <2>1, <2>2 DEF OffersOK
<1> QED BY <1>1, LossKept DEF Announced, LossInv

\* The message offered is nowhere in the subscription.
LEMMA OfferedIsNew ==
    ASSUME Params, Base, LossInv, NEW p \in Publisher, NEW s \in Sub, s \in pub[p].targets
    PROVE  /\ pub[p].msg \in Message
           /\ ~Came(s, pub[p].msg) /\ ~Queued(s, pub[p].msg) /\ ~Held(s, pub[p].msg) /\ ~Settled(s, pub[p].msg)
           /\ \A q \in Publisher : pub[q].msg = pub[p].msg => q = p
<1>1. pub[p].msg \in Message
  BY DEF Base, Types, HandsOK
<1>2. ~Came(s, pub[p].msg) /\ pub[p].msg \notin dead[s]
  BY DEF LossInv, OffersOK
<1>3. \A q \in Publisher : pub[q].msg = pub[p].msg => q = p
  BY <1>1 DEF LossInv, OffersOK, Params
<1>4. ~Queued(s, pub[p].msg) /\ ~Held(s, pub[p].msg) /\ pub[p].msg \notin delivered[s] \cup discarded[s]
  BY <1>1, <1>2 DEF LossInv, PlacesOK
<1> QED BY <1>1, <1>2, <1>3, <1>4 DEF Settled

LEMMA LossEntered ==
    ASSUME Params, Base, LossInv, NEW p \in Publisher, NEW s \in Sub, Entered(p, s)
    PROVE  LossInv'
<1> DEFINE m == pub[p].msg
<1>0. /\ m \in Message /\ ~Came(s, m) /\ ~Queued(s, m) /\ ~Held(s, m) /\ ~Settled(s, m)
      /\ \A q \in Publisher : pub[q].msg = m => q = p
  BY OfferedIsNew DEF Entered
<1>1. /\ heap \in [Sub -> Seq(Message)] /\ accepted \in [Sub -> Seq(Message)]
      /\ heap' = [heap EXCEPT ![s] = Append(@, m)] /\ accepted' = [accepted EXCEPT ![s] = Append(@, m)]
      /\ s \notin pub'[p].targets /\ OffersShrink
      /\ UNCHANGED <<job, delivered, dead, discarded, inFlight>>
  BY DEF Entered, Base, Types
<1> HIDE DEF m
<1>2. \A u \in Sub : u # s => heap'[u] = heap[u] /\ accepted'[u] = accepted[u]
  BY <1>1
<1>3. /\ Len(heap[s]) \in Nat /\ DOMAIN heap[s] = 1..Len(heap[s]) /\ DOMAIN heap'[s] = 1..(Len(heap[s]) + 1)
      /\ \A i \in 1..(Len(heap[s]) + 1) : heap'[s][i] = IF i = Len(heap[s]) + 1 THEN m ELSE heap[s][i]
  BY <1>0, <1>1
<1>4. /\ Len(accepted[s]) \in Nat /\ DOMAIN accepted[s] = 1..Len(accepted[s])
      /\ DOMAIN accepted'[s] = 1..(Len(accepted[s]) + 1)
      /\ \A i \in 1..(Len(accepted[s]) + 1) : accepted'[s][i] = IF i = Len(accepted[s]) + 1 THEN m ELSE accepted[s][i]
  BY <1>0, <1>1
<1>5. \A u \in Sub : \A x : /\ Queued(u, x)' <=> Queued(u, x) \/ (u = s /\ x = m)
                            /\ Came(u, x)' <=> Came(u, x) \/ (u = s /\ x = m)
                            /\ Held(u, x)' <=> Held(u, x)
                            /\ Settled(u, x)' <=> Settled(u, x)
  <2>1. ASSUME NEW u \in Sub, NEW x PROVE Queued(u, x)' <=> Queued(u, x) \/ (u = s /\ x = m)
    <3>1. CASE u = s
      <4>1. \A i \in DOMAIN heap[s] : i \in DOMAIN heap'[s] /\ heap'[s][i] = heap[s][i]
        BY <1>3
      <4>2. Len(heap[s]) + 1 \in DOMAIN heap'[s] /\ heap'[s][Len(heap[s]) + 1] = m
        BY <1>3
      <4>3. \A i \in DOMAIN heap'[s] : heap'[s][i] = m \/ (i \in DOMAIN heap[s] /\ heap'[s][i] = heap[s][i])
        BY <1>3
      <4> QED BY <3>1, <4>1, <4>2, <4>3 DEF Queued
    <3>2. CASE u # s
      BY <1>2, <3>2 DEF Queued
    <3> QED BY <3>1, <3>2
  <2>2. ASSUME NEW u \in Sub, NEW x PROVE Came(u, x)' <=> Came(u, x) \/ (u = s /\ x = m)
    <3>1. CASE u = s
      <4>1. \A i \in DOMAIN accepted[s] : i \in DOMAIN accepted'[s] /\ accepted'[s][i] = accepted[s][i]
        BY <1>4
      <4>2. Len(accepted[s]) + 1 \in DOMAIN accepted'[s] /\ accepted'[s][Len(accepted[s]) + 1] = m
        BY <1>4
      <4>3. \A i \in DOMAIN accepted'[s] : accepted'[s][i] = m \/ (i \in DOMAIN accepted[s] /\ accepted'[s][i] = accepted[s][i])
        BY <1>4
      <4> QED BY <3>1, <4>1, <4>2, <4>3 DEF Came
    <3>2. CASE u # s
      BY <1>2, <3>2 DEF Came
    <3> QED BY <3>1, <3>2
  <2>3. \A u \in Sub : \A x : (Held(u, x)' <=> Held(u, x)) /\ (Settled(u, x)' <=> Settled(u, x))
    BY <1>1 DEF Held, Settled
  <2> QED BY <2>1, <2>2, <2>3
<1>6. OutTypes' /\ FlightOK'
  BY <1>1 DEF LossInv, OutTypes, FlightOK, Holding
<1>7. PlacesOK'
  <2> SUFFICES ASSUME NEW u \in Sub, NEW x \in Message
               PROVE  /\ Queued(u, x)' \/ Held(u, x)' \/ x \in delivered'[u] \/ x \in discarded'[u] => Came(u, x)'
                      /\ Came(u, x)' => /\ Queued(u, x)' \/ Held(u, x)' \/ Settled(u, x)'
                                        /\ Queued(u, x)' => ~Held(u, x)' /\ ~Settled(u, x)'
                                        /\ Held(u, x)' => ~Settled(u, x)'
                                        /\ x \in delivered'[u] => x \notin dead'[u] \cup discarded'[u]
                                        /\ x \in dead'[u] => x \notin discarded'[u]
    BY DEF PlacesOK
  <2>1. CASE u = s /\ x = m
    <3>1. x \notin delivered[u] \cup dead[u] \cup discarded[u]
      BY <1>0, <2>1 DEF Settled
    <3> QED BY <1>0, <1>1, <1>5, <2>1, <3>1
  <2>2. CASE ~(u = s /\ x = m)
    <3>1. /\ Queued(u, x)' <=> Queued(u, x)
          /\ Came(u, x)' <=> Came(u, x)
          /\ Held(u, x)' <=> Held(u, x)
          /\ Settled(u, x)' <=> Settled(u, x)
      BY <1>5, <2>2
    <3> QED BY <1>1, <3>1 DEF LossInv, PlacesOK
  <2> QED BY <2>1, <2>2
<1>8. UniqueOK'
  <2>1. ASSUME NEW u \in Sub, NEW i \in DOMAIN heap'[u], NEW j \in DOMAIN heap'[u], heap'[u][i] = heap'[u][j]
        PROVE  i = j
    <3>1. CASE u # s
      BY <1>2, <2>1, <3>1 DEF LossInv, UniqueOK
    <3>2. CASE u = s
      <4>1. \A k \in DOMAIN heap[s] : heap[s][k] # m
        BY <1>0 DEF Queued
      <4>2. \A k, l \in DOMAIN heap[s] : heap[s][k] = heap[s][l] => k = l
        BY DEF LossInv, UniqueOK
      <4>3. \A k \in DOMAIN heap'[s] : \/ k = Len(heap[s]) + 1 /\ heap'[s][k] = m
                                       \/ k \in DOMAIN heap[s] /\ heap'[s][k] = heap[s][k]
        BY <1>3
      <4> QED BY <2>1, <3>2, <4>1, <4>2, <4>3
    <3> QED BY <3>1, <3>2
  <2> QED BY <1>1, <2>1 DEF LossInv, UniqueOK
<1>9. OffersOK'
  <2>1. ASSUME NEW q \in Publisher, NEW u \in pub'[q].targets, pub'[q].msg = pub[q].msg
        PROVE  ~Came(u, pub[q].msg)' /\ pub[q].msg \notin dead'[u]
    <3>1. u \in pub[q].targets /\ u \in Sub
      BY <1>1, <2>1 DEF OffersShrink, Base, Types
    <3>2. ~Came(u, pub[q].msg) /\ pub[q].msg \notin dead[u]
      BY <3>1 DEF LossInv, OffersOK
    <3>3. ~(u = s /\ pub[q].msg = m)
      BY <1>0, <1>1, <2>1
    <3>4. \A x : x = pub[q].msg => ~Came(u, x)'
      BY <1>5, <3>1, <3>2, <3>3
    <3> QED BY <1>1, <2>1, <3>2, <3>4 DEF Came
  <2> QED BY <1>1, <2>1, OffersKept DEF LossInv
<1> QED BY <1>6, <1>7, <1>8, <1>9 DEF LossInv

LEMMA LossOverflowed ==
    ASSUME Params, Base, LossInv, NEW p \in Publisher, NEW s \in Sub, Overflowed(p, s)
    PROVE  LossInv'
<1> DEFINE m == pub[p].msg
<1>0. /\ m \in Message /\ ~Came(s, m)
      /\ \A q \in Publisher : pub[q].msg = m => q = p
  BY OfferedIsNew DEF Overflowed
<1>1. /\ \A u \in Sub : dead'[u] = IF u = s THEN dead[u] \cup {m} ELSE dead[u]
      /\ dead' \in [Sub -> SUBSET Message]
      /\ s \notin pub'[p].targets /\ OffersShrink
      /\ UNCHANGED <<heap, accepted, job, delivered, discarded, inFlight>>
  BY <1>0 DEF Overflowed, LossInv, OutTypes
<1> HIDE DEF m
<1>2. OutTypes' /\ UniqueOK' /\ FlightOK'
  BY <1>1 DEF LossInv, OutTypes, UniqueOK, FlightOK, Holding
<1>3. \A u \in Sub : \A x : /\ Queued(u, x)' <=> Queued(u, x)
                            /\ Came(u, x)' <=> Came(u, x)
                            /\ Held(u, x)' <=> Held(u, x)
                            /\ ~(u = s /\ x = m) => (Settled(u, x)' <=> Settled(u, x))
  BY <1>1 DEF Queued, Came, Held, Settled
<1>4. PlacesOK'
  <2> SUFFICES ASSUME NEW u \in Sub, NEW x \in Message
               PROVE  /\ Queued(u, x)' \/ Held(u, x)' \/ x \in delivered'[u] \/ x \in discarded'[u] => Came(u, x)'
                      /\ Came(u, x)' => /\ Queued(u, x)' \/ Held(u, x)' \/ Settled(u, x)'
                                        /\ Queued(u, x)' => ~Held(u, x)' /\ ~Settled(u, x)'
                                        /\ Held(u, x)' => ~Settled(u, x)'
                                        /\ x \in delivered'[u] => x \notin dead'[u] \cup discarded'[u]
                                        /\ x \in dead'[u] => x \notin discarded'[u]
    BY DEF PlacesOK
  <2>1. CASE u = s /\ x = m
    BY <1>0, <1>1, <1>3, <2>1 DEF LossInv, PlacesOK
  <2>2. CASE ~(u = s /\ x = m)
    <3>1. (Settled(u, x)' <=> Settled(u, x)) /\ (x \in dead'[u] <=> x \in dead[u])
      BY <1>1, <1>3, <2>2
    <3> QED BY <1>1, <1>3, <3>1 DEF LossInv, PlacesOK
  <2> QED BY <2>1, <2>2
<1>5. OffersOK'
  <2>1. ASSUME NEW q \in Publisher, NEW u \in pub'[q].targets, pub'[q].msg = pub[q].msg
        PROVE  ~Came(u, pub[q].msg)' /\ pub[q].msg \notin dead'[u]
    <3>1. u \in pub[q].targets /\ u \in Sub
      BY <1>1, <2>1 DEF OffersShrink, Base, Types
    <3>2. ~Came(u, pub[q].msg) /\ pub[q].msg \notin dead[u]
      BY <3>1 DEF LossInv, OffersOK
    <3>3. ~(u = s /\ pub[q].msg = m)
      BY <1>0, <1>1, <2>1
    <3> QED BY <1>1, <2>1, <3>1, <3>2, <3>3 DEF Came
  <2> QED BY <1>1, <2>1, OffersKept DEF LossInv
<1> QED BY <1>2, <1>4, <1>5 DEF LossInv

\* The dispatchers that hold a message of a subscription are finitely many.
LEMMA HoldingFinite ==
    ASSUME Params, NEW s
    PROVE  IsFiniteSet(Holding(s)) /\ IsFiniteSet(Holding(s))'
<1>1. IsFiniteSet(Dispatcher)
  BY FS_Union DEF Params, Dispatcher
<1>2. Holding(s) \subseteq Dispatcher /\ Holding(s)' \subseteq Dispatcher
  BY DEF Holding
<1> QED BY <1>1, <1>2, FS_Subset

LEMMA LossFetched ==
    ASSUME Params, Base, LossInv, NEW d \in Dispatcher, NEW s \in Sub, Fetched(d, s)
    PROVE  LossInv'
<1> DEFINE q == heap[s]
           h == Head1(s)
           m == q[h]
<1>1. q \in Seq(Message) /\ h \in 1..Len(q) /\ Len(q) \in Nat /\ DOMAIN q = 1..Len(q) /\ m \in Message
  BY HeadFacts DEF Fetched, Base, Types
<1>2. /\ \A u \in Sub : u # s => heap'[u] = heap[u]
      /\ DOMAIN heap'[s] = 1..(Len(q) - 1)
      /\ \A j \in 1..(Len(q) - 1) : heap'[s][j] = IF j < h THEN q[j] ELSE q[j + 1]
  <2>1. /\ RemoveAt(q, h) \in Seq(Message) /\ Len(RemoveAt(q, h)) = Len(q) - 1
        /\ \A j \in 1..(Len(q) - 1) : RemoveAt(q, h)[j] = IF j < h THEN q[j] ELSE q[j + 1]
    BY <1>1, RemoveAtFacts
  <2>2. heap'[s] = RemoveAt(q, h) /\ \A u \in Sub : u # s => heap'[u] = heap[u]
    BY DEF Fetched, Base, Types
  <2> HIDE DEF q, h
  <2> QED BY <2>1, <2>2
<1>3. /\ \A e \in Dispatcher : e # d => job'[e] = job[e]
      /\ job[d].sub = None /\ job'[d].sub = s /\ job'[d].msg = m /\ s # None
      /\ UNCHANGED <<accepted, delivered, dead, discarded, pub>>
  BY DEF Fetched, Base, Types, Params
<1>4. \A i, j \in DOMAIN q : q[i] = q[j] => i = j
  BY DEF LossInv, UniqueOK
<1>5. Queued(s, m) /\ Came(s, m) /\ ~Held(s, m) /\ ~Settled(s, m)
  <2>1. Queued(s, m)
    BY <1>1 DEF Queued
  <2> QED BY <1>1, <2>1 DEF LossInv, PlacesOK
<1>inc. \A u \in Sub : inFlight[u] \in Int /\ inFlight'[u] = IF u = s THEN inFlight[u] + 1 ELSE inFlight[u]
  BY DEF Fetched, LossInv, OutTypes
<1>type. OutTypes'
  BY <1>3 DEF Fetched, LossInv, OutTypes
<1> HIDE DEF q, h, m
<1>6. \A u \in Sub : \A x : Queued(u, x)' <=> Queued(u, x) /\ ~(u = s /\ x = m)
  <2> SUFFICES ASSUME NEW u \in Sub, NEW x PROVE Queued(u, x)' <=> Queued(u, x) /\ ~(u = s /\ x = m)
    OBVIOUS
  <2>1. CASE u # s
    BY <1>2, <2>1 DEF Queued
  <2>2. CASE u = s
    <3>1. ASSUME NEW j \in DOMAIN heap'[s] PROVE \E k \in DOMAIN q : k # h /\ heap'[s][j] = q[k]
      <4>1. CASE j < h
        BY <1>1, <1>2, <3>1, <4>1
      <4>2. CASE ~(j < h)
        <5>1. j + 1 \in DOMAIN q /\ j + 1 # h /\ heap'[s][j] = q[j + 1]
          BY <1>1, <1>2, <3>1, <4>2
        <5> QED BY <5>1
      <4> QED BY <4>1, <4>2
    <3>2. ASSUME NEW k \in DOMAIN q, k # h PROVE \E j \in DOMAIN heap'[s] : heap'[s][j] = q[k]
      <4>1. CASE k < h
        <5>1. k \in DOMAIN heap'[s] /\ heap'[s][k] = q[k]
          BY <1>1, <1>2, <3>2, <4>1
        <5> QED BY <5>1
      <4>2. CASE ~(k < h)
        <5>1. k - 1 \in DOMAIN heap'[s] /\ heap'[s][k - 1] = q[k]
          BY <1>1, <1>2, <3>2, <4>2
        <5> QED BY <5>1
      <4> QED BY <4>1, <4>2
    <3>3. Queued(s, x)' <=> \E k \in DOMAIN q : k # h /\ q[k] = x
      BY <3>1, <3>2 DEF Queued
    <3>4. Queued(s, x) <=> \E k \in DOMAIN q : q[k] = x
      BY DEF Queued, q
    <3>5. h \in DOMAIN q /\ q[h] = m
      BY <1>1 DEF m
    <3> QED BY <1>4, <2>2, <3>3, <3>4, <3>5
  <2> QED BY <2>1, <2>2
<1>7. \A u \in Sub : \A x : /\ Came(u, x)' <=> Came(u, x)
                            /\ Settled(u, x)' <=> Settled(u, x)
                            /\ Held(u, x)' <=> Held(u, x) \/ (u = s /\ x = m)
  <2>1. ASSUME NEW u \in Sub, NEW x PROVE Held(u, x)' <=> Held(u, x) \/ (u = s /\ x = m)
    <3>1. u # None
      BY DEF Params
    <3> QED BY <1>3, <3>1 DEF Held
  <2> QED BY <1>3, <2>1 DEF Came, Settled
<1>8. PlacesOK'
  <2> SUFFICES ASSUME NEW u \in Sub, NEW x \in Message
               PROVE  /\ Queued(u, x)' \/ Held(u, x)' \/ x \in delivered'[u] \/ x \in discarded'[u] => Came(u, x)'
                      /\ Came(u, x)' => /\ Queued(u, x)' \/ Held(u, x)' \/ Settled(u, x)'
                                        /\ Queued(u, x)' => ~Held(u, x)' /\ ~Settled(u, x)'
                                        /\ Held(u, x)' => ~Settled(u, x)'
                                        /\ x \in delivered'[u] => x \notin dead'[u] \cup discarded'[u]
                                        /\ x \in dead'[u] => x \notin discarded'[u]
    BY DEF PlacesOK
  <2>1. CASE u = s /\ x = m
    <3>1. x \notin delivered[u] \cup dead[u] \cup discarded[u]
      BY <1>5, <2>1 DEF Settled
    <3> QED BY <1>3, <1>5, <1>6, <1>7, <2>1, <3>1
  <2>2. CASE ~(u = s /\ x = m)
    <3>1. /\ Queued(u, x)' <=> Queued(u, x)
          /\ Came(u, x)' <=> Came(u, x)
          /\ Held(u, x)' <=> Held(u, x)
          /\ Settled(u, x)' <=> Settled(u, x)
      BY <1>6, <1>7, <2>2
    <3> QED BY <1>3, <3>1 DEF LossInv, PlacesOK
  <2> QED BY <2>1, <2>2
<1>9. UniqueOK'
  <2>1. ASSUME NEW u \in Sub, NEW i \in DOMAIN heap'[u], NEW j \in DOMAIN heap'[u], heap'[u][i] = heap'[u][j]
        PROVE  i = j
    <3>1. CASE u # s
      BY <1>2, <2>1, <3>1 DEF LossInv, UniqueOK
    <3>2. CASE u = s
      <4>1. i \in 1..(Len(q) - 1) /\ j \in 1..(Len(q) - 1)
        BY <1>2, <2>1, <3>2
      <4>2. /\ heap'[u][i] = q[IF i < h THEN i ELSE i + 1] /\ (IF i < h THEN i ELSE i + 1) \in DOMAIN q
            /\ heap'[u][j] = q[IF j < h THEN j ELSE j + 1] /\ (IF j < h THEN j ELSE j + 1) \in DOMAIN q
        BY <1>1, <1>2, <3>2, <4>1
      <4>3. (IF i < h THEN i ELSE i + 1) = (IF j < h THEN j ELSE j + 1)
        BY <1>4, <2>1, <4>2
      <4> QED BY <1>1, <4>1, <4>3
    <3> QED BY <3>1, <3>2
  <2>2. ASSUME NEW e \in Dispatcher, NEW f \in Dispatcher, job'[e].sub # None, job'[e].sub = job'[f].sub,
               job'[e].msg = job'[f].msg
        PROVE  e = f
    <3>1. \A g \in Dispatcher : job[g].sub = s => job[g].msg # m
      BY <1>5 DEF Held
    <3> QED BY <1>3, <2>2, <3>1 DEF LossInv, UniqueOK
  <2> QED BY <2>1, <2>2 DEF UniqueOK
<1>10. OffersOK'
  BY <1>3 DEF LossInv, OffersOK, Came
<1>11. FlightOK'
  <2> SUFFICES ASSUME NEW u \in Sub PROVE inFlight'[u] = Cardinality(Holding(u)')
    BY DEF FlightOK
  <2>1. inFlight[u] = Cardinality(Holding(u))
    BY DEF LossInv, FlightOK
  <2>2. CASE u # s
    <3>1. Holding(u)' = Holding(u)
      BY <1>3, <2>2 DEF Holding, Params
    <3> QED BY <1>inc, <2>1, <2>2, <3>1
  <2>3. CASE u = s
    <3>1. Holding(s)' = Holding(s) \cup {d} /\ d \notin Holding(s)
      BY <1>3 DEF Holding
    <3>2. Cardinality(Holding(s)') = Cardinality(Holding(s)) + 1
      BY <3>1, HoldingFinite, FS_AddElement
    <3> QED BY <1>inc, <2>1, <2>3, <3>2
  <2> QED BY <2>2, <2>3
<1> QED BY <1>type, <1>8, <1>9, <1>10, <1>11 DEF LossInv

LEMMA LossEnded ==
    ASSUME Params, Base, LossInv, NEW d \in Dispatcher, Ended(d)
    PROVE  LossInv'
<1> DEFINE s == job[d].sub
           m == job[d].msg
<1>1. s \in Sub /\ m \in Message /\ s # None
  BY DEF Ended, Base, Types, HandsOK
<1>2. /\ \A e \in Dispatcher : e # d => job'[e] = job[e]
      /\ job'[d].sub = None
      /\ UNCHANGED <<heap, accepted, discarded, pub>>
  BY DEF Ended, NoJob, Base, Types
<1>3. /\ \A u \in Sub : u # s => delivered'[u] = delivered[u] /\ dead'[u] = dead[u]
      /\ \/ delivered'[s] = delivered[s] \cup {m} /\ dead'[s] = dead[s]
         \/ dead'[s] = dead[s] \cup {m} /\ delivered'[s] = delivered[s]
      /\ delivered' \in [Sub -> SUBSET Message] /\ dead' \in [Sub -> SUBSET Message]
  BY <1>1 DEF Ended, LossInv, OutTypes
<1>inc. \A u \in Sub : inFlight[u] \in Int /\ inFlight'[u] = IF u = s THEN inFlight[u] - 1 ELSE inFlight[u]
  BY <1>1 DEF Ended, LossInv, OutTypes
<1>type. OutTypes'
  BY <1>1, <1>2, <1>3 DEF Ended, LossInv, OutTypes
<1>4. Held(s, m) /\ Came(s, m) /\ ~Queued(s, m) /\ ~Settled(s, m)
  <2>1. Held(s, m)
    BY DEF Held
  <2> QED BY <1>1, <2>1 DEF LossInv, PlacesOK
<1>5. \A e \in Dispatcher : job[e].sub = s /\ job[e].msg = m => e = d
  BY <1>1 DEF LossInv, UniqueOK
<1> HIDE DEF s, m
<1>6. \A u \in Sub : \A x : /\ Queued(u, x)' <=> Queued(u, x)
                            /\ Came(u, x)' <=> Came(u, x)
                            /\ Held(u, x)' <=> Held(u, x) /\ ~(u = s /\ x = m)
                            /\ Settled(u, x)' <=> Settled(u, x) \/ (u = s /\ x = m)
  <2>1. ASSUME NEW u \in Sub, NEW x PROVE Held(u, x)' <=> Held(u, x) /\ ~(u = s /\ x = m)
    <3>1. u # None /\ job[d].sub = s /\ job[d].msg = m
      BY DEF Params, s, m
    <3> QED BY <1>2, <1>5, <3>1 DEF Held
  <2>2. ASSUME NEW u \in Sub, NEW x PROVE Settled(u, x)' <=> Settled(u, x) \/ (u = s /\ x = m)
    BY <1>2, <1>3 DEF Settled
  <2> QED BY <1>2, <2>1, <2>2 DEF Queued, Came
<1>7. PlacesOK'
  <2> SUFFICES ASSUME NEW u \in Sub, NEW x \in Message
               PROVE  /\ Queued(u, x)' \/ Held(u, x)' \/ x \in delivered'[u] \/ x \in discarded'[u] => Came(u, x)'
                      /\ Came(u, x)' => /\ Queued(u, x)' \/ Held(u, x)' \/ Settled(u, x)'
                                        /\ Queued(u, x)' => ~Held(u, x)' /\ ~Settled(u, x)'
                                        /\ Held(u, x)' => ~Settled(u, x)'
                                        /\ x \in delivered'[u] => x \notin dead'[u] \cup discarded'[u]
                                        /\ x \in dead'[u] => x \notin discarded'[u]
    BY DEF PlacesOK
  <2>1. CASE u = s /\ x = m
    <3>1. x \notin delivered[u] \cup dead[u] \cup discarded[u]
      BY <1>4, <2>1 DEF Settled
    <3> QED BY <1>2, <1>3, <1>4, <1>6, <2>1, <3>1
  <2>2. CASE ~(u = s /\ x = m)
    <3>1. /\ Queued(u, x)' <=> Queued(u, x)
          /\ Came(u, x)' <=> Came(u, x)
          /\ Held(u, x)' <=> Held(u, x)
          /\ Settled(u, x)' <=> Settled(u, x)
      BY <1>6, <2>2
    <3>2. (x \in delivered'[u] <=> x \in delivered[u]) /\ (x \in dead'[u] <=> x \in dead[u])
      BY <1>3, <2>2
    <3> QED BY <1>2, <3>1, <3>2 DEF LossInv, PlacesOK
  <2> QED BY <2>1, <2>2
<1>8. UniqueOK'
  BY <1>2 DEF LossInv, UniqueOK
<1>9. OffersOK'
  <2>1. ASSUME NEW q \in Publisher, NEW u \in pub[q].targets PROVE ~Came(u, pub[q].msg) /\ pub[q].msg \notin dead'[u]
    <3>1. u \in Sub /\ ~Came(u, pub[q].msg) /\ pub[q].msg \notin dead[u]
      BY <2>1 DEF LossInv, OffersOK, Base, Types
    <3>2. ~(u = s /\ pub[q].msg = m)
      BY <1>4, <3>1
    <3> QED BY <1>3, <3>1, <3>2
  <2> QED BY <1>2, <2>1 DEF LossInv, OffersOK, Came
<1>10. FlightOK'
  <2> SUFFICES ASSUME NEW u \in Sub PROVE inFlight'[u] = Cardinality(Holding(u)')
    BY DEF FlightOK
  <2>1. inFlight[u] = Cardinality(Holding(u))
    BY DEF LossInv, FlightOK
  <2>2. CASE u # s
    <3>1. Holding(u)' = Holding(u)
      BY <1>2, <2>2 DEF Holding, Params, s
    <3> QED BY <1>inc, <2>1, <2>2, <3>1
  <2>3. CASE u = s
    <3>1. u = job[d].sub /\ u # None
      BY <1>1, <2>3 DEF s
    <3>2. Holding(u)' = Holding(u) \ {d} /\ d \in Holding(u)
      BY <1>2, <3>1 DEF Holding
    <3>3. Cardinality(Holding(u)') = Cardinality(Holding(u)) - 1
      BY <3>2, HoldingFinite, FS_RemoveElement
    <3> QED BY <1>inc, <2>1, <2>3, <3>3
  <2> QED BY <2>2, <2>3
<1> QED BY <1>type, <1>7, <1>8, <1>9, <1>10 DEF LossInv

LEMMA LossDiscarded ==
    ASSUME Params, Base, LossInv, NEW s \in Sub, Discarded(s)
    PROVE  LossInv'
<1>1. /\ \A u \in Sub : u # s => heap'[u] = heap[u] /\ discarded'[u] = discarded[u]
      /\ heap'[s] = <<>> /\ discarded'[s] = discarded[s] \cup ToSet(heap[s])
      /\ UNCHANGED <<accepted, job, delivered, dead, inFlight, pub>>
  BY DEF Discarded, Base, Types, LossInv, OutTypes
<1>2. heap[s] \in Seq(Message) /\ \A x : x \in ToSet(heap[s]) <=> Queued(s, x)
  BY DEF Base, Types, ToSet, Queued
<1>3. OutTypes'
  <2>1. ToSet(heap[s]) \subseteq Message
    BY <1>2 DEF ToSet
  <2> QED BY <1>1, <2>1 DEF LossInv, OutTypes, Discarded
<1>4. \A u \in Sub : \A x : /\ Queued(u, x)' <=> Queued(u, x) /\ u # s
                            /\ x \in discarded'[u] <=> x \in discarded[u] \/ (u = s /\ Queued(u, x))
                            /\ Came(u, x)' <=> Came(u, x)
                            /\ Held(u, x)' <=> Held(u, x)
  <2>1. ASSUME NEW u \in Sub, NEW x PROVE Queued(u, x)' <=> Queued(u, x) /\ u # s
    BY <1>1 DEF Queued
  <2>2. ASSUME NEW u \in Sub, NEW x PROVE x \in discarded'[u] <=> x \in discarded[u] \/ (u = s /\ Queued(u, x))
    BY <1>1, <1>2
  <2> QED BY <1>1, <2>1, <2>2 DEF Came, Held
<1>5. PlacesOK'
  <2> SUFFICES ASSUME NEW u \in Sub, NEW x \in Message
               PROVE  /\ Queued(u, x)' \/ Held(u, x)' \/ x \in delivered'[u] \/ x \in discarded'[u] => Came(u, x)'
                      /\ Came(u, x)' => /\ Queued(u, x)' \/ Held(u, x)' \/ Settled(u, x)'
                                        /\ Queued(u, x)' => ~Held(u, x)' /\ ~Settled(u, x)'
                                        /\ Held(u, x)' => ~Settled(u, x)'
                                        /\ x \in delivered'[u] => x \notin dead'[u] \cup discarded'[u]
                                        /\ x \in dead'[u] => x \notin discarded'[u]
    BY DEF PlacesOK
  <2>1. Settled(u, x)' <=> Settled(u, x) \/ (u = s /\ Queued(u, x))
    BY <1>1, <1>4 DEF Settled
  <2>2. x \in delivered'[u] \cup dead'[u] => Settled(u, x)
    BY <1>1 DEF Settled
  <2> QED BY <1>1, <1>4, <2>1, <2>2 DEF LossInv, PlacesOK
<1>6. UniqueOK' /\ OffersOK' /\ FlightOK'
  <2>1. \A u \in Sub : heap'[u] = heap[u] \/ heap'[u] = <<>>
    BY <1>1
  <2> QED BY <1>1, <2>1 DEF LossInv, UniqueOK, OffersOK, FlightOK, Holding, Came
<1> QED BY <1>3, <1>5, <1>6 DEF LossInv

LEMMA LossStep ==
    ASSUME Params, Base, LossInv, [Next]_vars
    PROVE  LossInv'
BY StepPlaces, LossStays, LossAnnounced, LossEntered, LossOverflowed, LossFetched, LossEnded, LossDiscarded
   DEF PlaceEffect

\* The invariant says what the two properties ask.
LEMMA LossEnough ==
    ASSUME Params, Base, LossInv
    PROVE  Conservation /\ IdleMeansSettled
<1>1. ASSUME NEW s \in Sub, NEW i \in DOMAIN accepted[s]
      PROVE  LET m == accepted[s][i]
             IN  Count(Contains(heap[s], m)) + Count(m \in delivered[s]) + Count(m \in dead[s])
                 + Count(m \in discarded[s]) + Cardinality({d \in Holding(s) : job[d].msg = m}) = 1
  <2> DEFINE m == accepted[s][i]
             holders == {d \in Holding(s) : job[d].msg = m}
  <2>1. Came(s, m) /\ m \in Message
    BY <1>1 DEF Came, Base, Types
  <2>2. Contains(heap[s], m) <=> Queued(s, m)
    BY DEF Contains, Queued, ToSet, Base, Types
  <2>3. ~Held(s, m) => Cardinality(holders) = 0
    <3>1. ~Held(s, m) => holders = {}
      BY DEF Held, Holding
    <3> QED BY <3>1, FS_EmptySet
  <2>4. Held(s, m) => Cardinality(holders) = 1
    <3> SUFFICES ASSUME Held(s, m) PROVE Cardinality(holders) = 1
      OBVIOUS
    <3>1. PICK d \in Dispatcher : job[d].sub = s /\ job[d].msg = m
      BY DEF Held
    <3>2. \A e \in Dispatcher : job[e].sub = s /\ job[e].msg = m => e = d
      BY <1>1, <3>1 DEF LossInv, UniqueOK, Params
    <3>3. holders = {d}
      BY <3>1, <3>2 DEF Holding
    <3> QED BY <3>3, FS_Singleton
  <2>5. /\ Queued(s, m) \/ Held(s, m) \/ Settled(s, m)
        /\ Queued(s, m) => ~Held(s, m) /\ ~Settled(s, m)
        /\ Held(s, m) => ~Settled(s, m)
        /\ m \in delivered[s] => m \notin dead[s] \cup discarded[s]
        /\ m \in dead[s] => m \notin discarded[s]
    BY <1>1, <2>1 DEF LossInv, PlacesOK
  <2>6. Settled(s, m) <=> m \in delivered[s] \/ m \in dead[s] \/ m \in discarded[s]
    BY DEF Settled
  <2> HIDE DEF m, holders
  <2>7. Count(Contains(heap[s], m)) + Count(m \in delivered[s]) + Count(m \in dead[s])
        + Count(m \in discarded[s]) + Cardinality(holders) = 1
    BY <2>2, <2>3, <2>4, <2>5, <2>6 DEF Count
  <2> QED BY <2>7 DEF m, holders
<1>2. ASSUME NEW s \in Sub, heap[s] = <<>>, inFlight[s] = 0, NEW i \in DOMAIN accepted[s]
      PROVE  Settled(s, accepted[s][i])
  <2> DEFINE m == accepted[s][i]
  <2>1. Came(s, m) /\ m \in Message
    BY <1>2 DEF Came, Base, Types
  <2>2. ~Queued(s, m)
    BY <1>2 DEF Queued
  <2>3. Holding(s) = {}
    BY <1>2, HoldingFinite, FS_EmptySet DEF LossInv, FlightOK
  <2>4. ~Held(s, m)
    BY <2>3 DEF Held, Holding
  <2> QED BY <1>2, <2>1, <2>2, <2>4 DEF LossInv, PlacesOK
<1> QED BY <1>1, <1>2 DEF Conservation, IdleMeansSettled

LEMMA BaseInit == ASSUME Params, Init PROVE Base /\ WorkersOK /\ Sole
<1>1. Types
  <2>1. /\ registry \in [Key -> Sub \cup {None}] /\ workers \in [Key -> Sub \cup {None}]
        /\ started \in BOOLEAN /\ heap \in [Sub -> Seq(Message)] /\ closed \in [Sub -> BOOLEAN]
        /\ accepted \in [Sub -> Seq(Message)] /\ finished \in [Sub -> Seq(Message)]
        /\ retired \in SUBSET (Sub \X Remover)
    <3>1. <<>> \in Seq(Message)
      OBVIOUS
    <3>2. registry \in [Key -> Sub \cup {None}] /\ workers \in [Key -> Sub \cup {None}]
      BY DEF Init
    <3>3. started \in BOOLEAN /\ closed \in [Sub -> BOOLEAN] /\ retired \in SUBSET (Sub \X Remover)
      BY DEF Init
    <3>4. heap = [s \in Sub |-> <<>>] /\ accepted = [s \in Sub |-> <<>>] /\ finished = [s \in Sub |-> <<>>]
      BY DEF Init
    <3>5. heap \in [Sub -> Seq(Message)] /\ accepted \in [Sub -> Seq(Message)] /\ finished \in [Sub -> Seq(Message)]
      BY <3>1, <3>4, Zenon
    <3> QED BY <3>2, <3>3, <3>5
  <2>2. /\ at \in [Dispatcher -> {"off", "loop", "calling", "backoff", "done", "snapshot", "pass"}]
        /\ job \in [Dispatcher -> [sub : Sub \cup {None}, msg : Message \cup {None}, attempt : Nat]]
        /\ scan \in [Runner -> [todo : SUBSET Sub, progressed : BOOLEAN]]
    BY DEF Init, NoJob
  <2>3. /\ pub \in [Publisher -> [msg : Message \cup {None}, targets : SUBSET Sub]]
        /\ call \in [Remover -> [todo : SUBSET Sub, step : {"none", "next", "closed", "join"},
                                 sub : Sub \cup {None}, join : Sub \cup {None}]]
    BY DEF Init, NoPub, NoCall
  <2> QED BY <2>1, <2>2, <2>3 DEF Types
<1>2. HandsOK
  BY DEF Init, HandsOK, Working, NoJob, NoPub, NoCall
<1>3. WorkersOK
  BY DEF Init, WorkersOK, NoJob, Dispatcher
<1>4. Sole
  BY DEF Init, Sole, NoJob
<1> QED BY <1>1, <1>2, <1>3, <1>4 DEF Base

LEMMA OrderInit == ASSUME Params, Init PROVE OrderInv
<1>1. \A s \in Sub : heap[s] = <<>> /\ finished[s] = <<>>
  BY DEF Init
<1>2. \A d \in Dispatcher : job[d].sub = None
  BY DEF Init, NoJob
<1>3. \A s \in Sub : s # None
  BY DEF Params
<1>4. QueueOK /\ FinishedOK /\ InOrder
  BY <1>1 DEF QueueOK, FinishedOK, InOrder
<1>5. JobsOK
  BY <1>2, <1>3 DEF JobsOK
<1> QED BY <1>4, <1>5 DEF OrderInv

LEMMA QuietInit == ASSUME Params, Init PROVE QuietInv
BY DEF Init, QuietInv, FiledOK, ClosedOK, FoundOK, Popped, NoCall, Working, Dispatcher

LEMMA LossInit == ASSUME Params, Init PROVE LossInv
<1>1. /\ \A s \in Sub : /\ heap[s] = <<>> /\ accepted[s] = <<>> /\ inFlight[s] = 0
                        /\ delivered[s] = {} /\ dead[s] = {} /\ discarded[s] = {}
      /\ \A d \in Dispatcher : job[d].sub = None
      /\ \A p \in Publisher : pub[p].msg = None /\ pub[p].targets = {}
  BY DEF Init, NoJob, NoPub
<1>2. OutTypes
  BY DEF Init, OutTypes
<1>3. \A s \in Sub : s # None
  BY DEF Params
<1>4. PlacesOK
  BY <1>1, <1>3 DEF PlacesOK, Queued, Held, Came
<1>5. UniqueOK /\ OffersOK
  BY <1>1 DEF UniqueOK, OffersOK
<1>6. FlightOK
  <2> SUFFICES ASSUME NEW s \in Sub PROVE inFlight[s] = Cardinality(Holding(s))
    BY DEF FlightOK
  <2>1. Holding(s) = {}
    BY <1>1, <1>3 DEF Holding
  <2> QED BY <1>1, <2>1, FS_EmptySet
<1> QED BY <1>2, <1>4, <1>5, <1>6 DEF LossInv

\* A dispatcher holds a message exactly while it calls the subscriber, a worker
\* serves its own subscription only, and no worker runs before start().
THEOREM DispatchersInHand ==
    ASSUME Params
    PROVE  Spec => [](Base /\ WorkersOK)
<1>1. Init => Base /\ WorkersOK
  BY BaseInit
<1>2. Base /\ WorkersOK /\ [Next]_vars => (Base /\ WorkersOK)'
  BY BaseStep, WorkersStep
<1> QED BY <1>1, <1>2, PTL DEF Spec

\* What offer enqueued is, from then on, in exactly one place: the queue, the
\* hands of one dispatcher, the delivered, the dead letters or what close()
\* threw away. However many dispatchers, publishers and removals there are.
THEOREM NothingLost ==
    ASSUME Params
    PROVE  Spec => []Conservation
<1> DEFINE Inv == Base /\ WorkersOK /\ LossInv
<1>1. Init => Inv
  BY BaseInit, LossInit
<1>2. Inv /\ [Next]_vars => Inv'
  BY BaseStep, WorkersStep, LossStep
<1>3. Inv => Conservation
  BY LossEnough
<1> QED BY <1>1, <1>2, <1>3, PTL DEF Spec

\* What Subscription.wait_idle waits for, an empty queue and _in_flight at
\* zero, means that everything accepted is settled: _take counts a message in
\* flight in the critical section that pops it.
THEOREM IdleIsSettled ==
    ASSUME Params
    PROVE  Spec => []IdleMeansSettled
<1> DEFINE Inv == Base /\ WorkersOK /\ LossInv
<1>1. Init => Inv
  BY BaseInit, LossInit
<1>2. Inv /\ [Next]_vars => Inv'
  BY BaseStep, WorkersStep, LossStep
<1>3. Inv => IdleMeansSettled
  BY LossEnough
<1> QED BY <1>1, <1>2, <1>3, PTL DEF Spec

\* Where a subscription has one dispatcher, a subscriber is done with the
\* messages of a priority in the order publish enqueued them, retries included
\* (dispatch_one, _take and offer of pub_sub_system.py).
THEOREM OrderKept ==
    ASSUME Params, OneDispatcher
    PROVE  Spec => []InOrder
<1> DEFINE Inv == Base /\ WorkersOK /\ Sole /\ OrderInv
<1>1. Init => Inv
  BY BaseInit, OrderInit
<1>2. Inv /\ [Next]_vars => Inv'
  BY BaseStep, WorkersStep, SoleStep, OrderStep
<1>3. Inv => InOrder
  BY DEF OrderInv
<1> QED BY <1>1, <1>2, <1>3, PTL DEF Spec

\* Where no id is used again, a worker makes no call of its subscriber once
\* _retire has returned to another thread and no other removal of it is under
\* way, however many threads unsubscribe, delete topics and close at once.
THEOREM RetiredStaysQuiet ==
    ASSUME Params, IdsNotReused
    PROVE  Spec => []RetiredIsQuiet
<1> DEFINE Inv == Base /\ WorkersOK /\ QuietInv
<1>1. Init => Inv
  BY BaseInit, QuietInit
<1>2. Inv /\ [Next]_vars => Inv'
  BY BaseStep, WorkersStep, QuietStep
<1>3. Inv => RetiredIsQuiet
  BY QuietEnough
<1> QED BY <1>1, <1>2, <1>3, PTL DEF Spec
=============================================================================
