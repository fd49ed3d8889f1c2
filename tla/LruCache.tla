------------------------------ MODULE LruCache ------------------------------
(***************************************************************************)
(* python-low-level-design/lru-cache: LRUCache and LFUCache over BaseCache *)
(* with its expiry heap, and ThreadSafeCache with the single flight of     *)
(* get_or_load.  One mutex makes get, put, delete and purge_expired atomic;*)
(* a loader runs outside it.                                               *)
(*                                                                         *)
(* The doubly linked lists are sequences of keys, most recent first, and   *)
(* LRUCache keeps one list where LFUCache keeps one per frequency.  Nodes  *)
(* are numbered, for what the heap knows of is a node and not a key.       *)
(***************************************************************************)
EXTENDS Integers, Sequences, SequencesExt, FiniteSets, FiniteSetsExt, Functions

CONSTANTS
    Key, Caller, Capacity,
    Policy,         \* "LRU", "LFU"
    Ttl,            \* choices of ttl, None for an entry that does not expire
    HeapSlack,      \* 32 in _schedule
    MaxNode, MaxTime, MaxUses,      \* bounds on nodes made, ticks and uses
    None

VARIABLES
    policy,
    node,       \* _map: per key None or [id, exp]
    lists,      \* _order, or _buckets: frequency to keys
    minFreq,    \* _min_freq, None when it must be recomputed
    expiry,     \* _expiry_heap: <<expires_at, node id>>, equal ones once
    made,       \* nodes made
    flight,     \* _inflight: the leader per key
    caller,     \* calls of get_or_load
    uses, recent,   \* how often a key was used since it entered, and keys by last use
    now

vars == <<policy, node, lists, minFreq, expiry, made, flight, caller, uses, recent, now>>

Held(n) == {k \in Key : n[k] # None}
Expired(n, k) == n[k] # None /\ n[k].exp # None /\ n[k].exp <= now
Freq(ls, k) == CHOOSE f \in DOMAIN ls : k \in ToSet(ls[f])
Nobody == [at |-> "idle", key |-> None, ttl |-> None, of |-> None]
State(n, ls, m, x) == [node |-> n, lists |-> ls, min |-> m, expiry |-> x]
Here == State(node, lists, minFreq, expiry)

Init ==
    /\ policy \in Policy /\ node = [k \in Key |-> None] /\ lists = <<>> /\ minFreq = None
    /\ expiry = {} /\ made = 0 /\ flight = [k \in Key |-> None]
    /\ caller = [c \in Caller |-> Nobody]
    /\ uses = [k \in Key |-> 0] /\ recent = <<>> /\ now = 0
----------------------------------------------------------------------------
\* A list that has become empty is deleted.
Without(ls, k) ==
    LET f == Freq(ls, k) left == SelectSeq(ls[f], LAMBDA j : j # k)
    IN  IF left = <<>> THEN Restrict(ls, DOMAIN ls \ {f}) ELSE [ls EXCEPT ![f] = left]
PushFront(ls, f, k) ==
    [g \in DOMAIN ls \cup {f} |-> IF g # f THEN ls[g] ELSE <<k>> \o (IF f \in DOMAIN ls THEN ls[f] ELSE <<>>)]

\* _detach: was the emptied list the one of the lowest frequency?
EmptiedMin(s, k) == Freq(s.lists, k) = s.min /\ Freq(s.lists, k) \notin DOMAIN Without(s.lists, k)

\* _insert
Insert(s, k) == [s EXCEPT !.lists = PushFront(@, 1, k), !.min = 1]

MinAfterTouch(s, k, f) == IF EmptiedMin(s, k) THEN f ELSE s.min

\* _touch
Touch(s, k) ==
    LET f == IF policy = "LRU" THEN 1 ELSE Freq(s.lists, k) + 1
    IN  [s EXCEPT !.lists = PushFront(Without(@, k), f, k), !.min = MinAfterTouch(s, k, f)]

\* _remove and _unlink
Removed(s, k) ==
    [s EXCEPT !.node[k] = None, !.lists = Without(@, k), !.min = IF EmptiedMin(s, k) THEN None ELSE @]

\* _victim
Victim(s) == Last(s.lists[IF s.min = None THEN Min(DOMAIN s.lists) ELSE s.min])

\* _schedule: rewrites leave stale entries, which go when they are too many.
Schedule(s, k) ==
    LET more == s.expiry \cup {<<s.node[k].exp, s.node[k].id>>}
        timed == {j \in Held(s.node) : s.node[j].exp # None}
    IN  IF s.node[k].exp = None THEN s
        ELSE IF Cardinality(more) <= 2 * Cardinality(Held(s.node)) + HeapSlack THEN [s EXCEPT !.expiry = more]
        ELSE [s EXCEPT !.expiry = {<<s.node[j].exp, s.node[j].id>> : j \in timed}]

\* purge_expired: what the heap has due, unless its entry is stale.
Due(s) == {k \in Held(s.node) : \E x \in s.expiry : x[1] <= now /\ x[2] = s.node[k].id /\ x[1] = s.node[k].exp}
Purged(s) == LET dropped == FoldSet(LAMBDA k, t : Removed(t, k), s, Due(s))
             IN  [dropped EXCEPT !.expiry = {x \in @ : x[1] > now}]

\* Fault: a full cache evicts without a look at dead entries.
RoomForNow(s) == IF Cardinality(Held(s.node)) < Capacity THEN s ELSE Removed(s, Victim(s))

\* put: makes room, dead entries first.
RoomFor(s) == IF Cardinality(Held(s.node)) < Capacity THEN s
              ELSE IF Due(s) # {} THEN Purged(s) ELSE Removed(Purged(s), Victim(Purged(s)))

Put(s, k, ttl) ==
    LET exp == IF ttl = None THEN None ELSE now + ttl
        kept == [s EXCEPT !.node[k].exp = exp]
        new == [RoomFor(s) EXCEPT !.node[k] = [id |-> made + 1, exp |-> exp]]
    IN  IF s.node[k] # None THEN Touch(Schedule(kept, k), k) ELSE Schedule(Insert(new, k), k)
----------------------------------------------------------------------------
\* The state after an operation that used the given keys (one or none).
Becomes(s, used) ==
    /\ node' = s.node /\ lists' = s.lists /\ minFreq' = s.min /\ expiry' = s.expiry
    /\ uses' = [k \in Key |-> IF s.node[k] = None THEN 0
                             ELSE IF k \notin used THEN uses[k] ELSE 1 + IF node[k] = None THEN 0 ELSE uses[k]]
    /\ recent' = SetToSeq(used) \o SelectSeq(recent, LAMBDA j : j \notin used /\ s.node[j] # None)

\* get: drops the entry if it is dead, else counts as a use.
Lookup(k) ==
    IF node[k] = None THEN Becomes(Here, {})
    ELSE IF Expired(node, k) THEN Becomes(Removed(Here, k), {})
    ELSE uses[k] < MaxUses /\ Becomes(Touch(Here, k), {k})

Get(k) == Lookup(k) /\ UNCHANGED <<policy, made, flight, caller, now>>

Store(k, ttl) ==
    /\ uses[k] < MaxUses /\ (node[k] = None => made < MaxNode) /\ Becomes(Put(Here, k, ttl), {k})
    /\ made' = IF node[k] = None THEN made + 1 ELSE made

PutOp(k, ttl) == Store(k, ttl) /\ UNCHANGED <<policy, flight, caller, now>>

Delete(k) == node[k] # None /\ Becomes(Removed(Here, k), {}) /\ UNCHANGED <<policy, made, flight, caller, now>>

PurgeExpired == expiry # {} /\ Becomes(Purged(Here), {}) /\ UNCHANGED <<policy, made, flight, caller, now>>

Tick == now < MaxTime /\ now' = now + 1
        /\ UNCHANGED <<policy, node, lists, minFreq, expiry, made, flight, caller, uses, recent>>
----------------------------------------------------------------------------
Leads(k) == flight[k] = None

\* get_or_load: a hit, or the first to miss leads and the others wait.
GetOrLoad(c, k, ttl) ==
    LET miss == node[k] = None \/ Expired(node, k)
        goes == IF Leads(k) THEN [at |-> "loads", key |-> k, ttl |-> ttl, of |-> c]
                ELSE [at |-> "waits", key |-> k, ttl |-> None, of |-> flight[k]]
    IN  /\ caller[c].at = "idle" /\ Lookup(k)
        /\ caller' = [caller EXCEPT ![c] = IF miss THEN goes ELSE @]
        /\ flight' = [flight EXCEPT ![k] = IF miss /\ Leads(k) THEN c ELSE @]
        /\ UNCHANGED <<policy, made, now>>

\* The loader returns or raises; the flight ends under the lock ...
Land(c, ok) ==
    /\ caller[c].at = "loads"
    /\ IF ok THEN Store(caller[c].key, caller[c].ttl) ELSE Becomes(Here, {}) /\ UNCHANGED made
    /\ flight' = [flight EXCEPT ![caller[c].key] = None]
    /\ caller' = [caller EXCEPT ![c].at = "lands"]
    /\ UNCHANGED <<policy, now>>

\* ... and then lets those that wait for it go.
Release(c) ==
    /\ caller[c].at = "lands"
    /\ caller' = [d \in Caller |-> IF caller[d].of = c THEN Nobody ELSE caller[d]]
    /\ UNCHANGED <<policy, node, lists, minFreq, expiry, made, flight, uses, recent, now>>

Next ==
    \/ \E k \in Key : Get(k) \/ Delete(k) \/ \E ttl \in Ttl : PutOp(k, ttl)
    \/ PurgeExpired \/ Tick
    \/ \E c \in Caller : \/ Release(c) \/ \E ok \in BOOLEAN : Land(c, ok)
                         \/ \E k \in Key, ttl \in Ttl : GetOrLoad(c, k, ttl)

Spec == Init /\ [][Next]_vars
----------------------------------------------------------------------------
TypeOK ==
    /\ \A k \in Key : node[k] # None => node[k].id \in 1..made
    /\ \A x \in expiry : x[2] \in 1..made
    /\ \A c \in Caller : caller[c].at \in {"idle", "loads", "waits", "lands"}

\* The asserts of _check_invariants: the lists hold the keys of the map, each
\* once and in the list of its frequency, and _min_freq is the lowest of them.
ListsMatchMap ==
    /\ Cardinality(Held(node)) <= Capacity
    /\ \A k \in Key : Cardinality({<<f, i>> \in (DOMAIN lists) \X (1..Cardinality(Key)) :
                          i <= Len(lists[f]) /\ lists[f][i] = k}) = IF node[k] = None THEN 0 ELSE 1
    /\ \A f \in DOMAIN lists : lists[f] # <<>> /\ (policy = "LFU" => \A k \in ToSet(lists[f]) : uses[k] = f)
    /\ lists # <<>> /\ minFreq # None => minFreq = Min(DOMAIN lists)

\* _schedule and purge_expired: every entry that will expire is in the heap
\* with its present time, so a purge finds all that are dead.
ExpiryCovered ==
    \A k \in Held(node) : node[k].exp # None =>
        \E x \in expiry : x[1] = node[k].exp /\ x[2] = node[k].id

LastUse(k) == CHOOSE i \in 1..Len(recent) : recent[i] = k

\* put: a live entry is pushed out only when no dead one is there, and it is
\* the least recently used, for LFUCache among the least frequently used.
EvictsTheRightOne ==
    made' > made => \A k \in Held(node) : node'[k] = None /\ ~Expired(node, k) =>
       \A j \in Held(node) :
           /\ ~Expired(node, j)
           /\ policy = "LFU" => uses[k] <= uses[j]
           /\ policy = "LRU" \/ uses[k] = uses[j] => LastUse(k) >= LastUse(j)

\* get_or_load: "exactly one caller runs loader(key)" at a time, and whoever
\* waits does so for a flight that has not let its callers go.
SingleFlight ==
    /\ \A c, d \in Caller : c # d /\ caller[c].at = "loads" /\ caller[d].at = "loads" => caller[c].key # caller[d].key
    /\ \A c \in Caller : caller[c].at = "waits" =>
           caller[caller[c].of].at \in {"loads", "lands"} /\ caller[caller[c].of].key = caller[c].key
=============================================================================
