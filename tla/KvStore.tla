------------------------------ MODULE KvStore ------------------------------
(***************************************************************************)
(* The sharded key-value store of golang-low-level-design/kv-store: TTLs,  *)
(* LRU and LFU eviction under a cost limit, versions with CompareAndSwap,  *)
(* watch streams, and snapshots that are restored into a running store or  *)
(* after a restart.                                                        *)
(*                                                                         *)
(* A critical section of a shard's mutex is one action, the events it      *)
(* publishes included (a watcher receives before or after it).  A shard is *)
(* a record: the map, the policy's recency order, which orders each LFU    *)
(* bucket too, the LFU counters, the cost, and the keys in the expiry      *)
(* heap.  An absent key has version 0.  Counters of Stats, Keys and        *)
(* prefixes are left out: a watcher watches every key.                     *)
(***************************************************************************)
EXTENDS Naturals, FiniteSets, Sequences, SequencesExt, FiniteSetsExt

CONSTANTS
    Key, Value,
    Shard, ShardOf,
    Cost,           \* cost of each value
    MaxCost,        \* capacity of a shard, 0 for none
    Policy,         \* "LRU" or "LFU"
    Ttl,            \* time to live a client may ask for, 0 for none
    Client,         \* holders of a version for CompareAndSwap
    Watcher, WatchBuffer,
    MaySnapshot,    \* whether a snapshot is taken
    MayRestart,     \* whether the process may end and start again
    MaxVersion, MaxFreq, MaxTime,   \* bounds
    None

VARIABLES
    shard,       \* the shards
    version,     \* Store.version
    watch,       \* each watcher's channel, or None
    seen,        \* history: highest version of each key a watcher received
    read,        \* what each client got from GetVersioned
    file,        \* records of the snapshot file
    snapping,    \* shards a Snapshot has still to copy, and its now
    restoring,   \* records a Restore has still to load, its now, its next one
    restarted, time

streamVars == <<watch, seen>>
diskVars   == <<file, snapping, restoring, restarted>>
vars == <<shard, version, streamVars, read, diskVars, time>>

Absent == [value |-> None, version |-> 0, until |-> 0]
EmptyShard == [items |-> [k \in Key |-> Absent], order |-> <<>>,
               freq |-> [k \in Key |-> 0], minFreq |-> 0, cost |-> 0, heap |-> {}]
NoRead == [key |-> None, value |-> None, version |-> 0]
NotSnapping == [left |-> {}, now |-> 0]
NotRestoring == [left |-> {}, now |-> 0, next |-> None]

Init ==
    /\ shard = [s \in Shard |-> EmptyShard] /\ version = 0
    /\ watch = [w \in Watcher |-> None]
    /\ seen = [w \in Watcher |-> [k \in Key |-> 0]]
    /\ read = [c \in Client |-> NoRead]
    /\ file = {} /\ snapping = NotSnapping /\ restoring = NotRestoring
    /\ restarted = FALSE /\ time = 0

Present(sh) == {k \in Key : sh.items[k].version # 0}
ExpiredAt(e, t) == e.until > 0 /\ t >= e.until
----------------------------------------------------------------------------
\* Fault: the deadline of a removed entry stays in the heap.
RemovedKeepsDeadline(sh, k) ==
    [sh EXCEPT !.items[k] = Absent, !.order = SelectSeq(@, LAMBDA x : x # k),
               !.freq[k] = 0, !.cost = @ - Cost[sh.items[k].value]]

\* removeLocked and the policy's OnRemove; LFU's minFreq may go stale.
Removed(sh, k) ==
    [sh EXCEPT !.items[k] = Absent, !.order = SelectSeq(@, LAMBDA x : x # k),
               !.freq[k] = 0, !.cost = @ - Cost[sh.items[k].value],
               !.heap = @ \ {k}]

Inserted(sh, k, e) ==
    [sh EXCEPT !.items[k] = e, !.order = <<k>> \o @, !.freq[k] = 1, !.minFreq = 1,
               !.cost = @ + Cost[e.value],
               !.heap = IF e.until > 0 THEN @ \cup {k} ELSE @]

\* OnAccess.
Touched(sh, k) ==
    LET alone == \A j \in Present(sh) \ {k} : sh.freq[j] # sh.freq[k]
        moved == [sh EXCEPT !.order = <<k>> \o SelectSeq(@, LAMBDA x : x # k)]
    IN  IF Policy = "LRU" THEN moved
        ELSE [moved EXCEPT !.freq[k] = @ + 1,
                           !.minFreq = IF sh.freq[k] = @ /\ alone THEN @ + 1 ELSE @]

\* Victim: the least recently used key; LFU looks in the bucket minFreq
\* names, and searches the buckets when that one is gone.
VictimBucket(sh) ==
    IF \E k \in Present(sh) : sh.freq[k] = sh.minFreq THEN sh.minFreq
    ELSE Min({sh.freq[k] : k \in Present(sh)})

Victim(sh) ==
    IF Policy = "LRU" THEN Last(sh.order)
    ELSE Last(SelectSeq(sh.order, LAMBDA k : sh.freq[k] = VictimBucket(sh)))

Event(type, sh, k) == [type |-> type, key |-> k, version |-> sh.items[k].version]

\* A shard and the events published so far.
Expire1(st, k) == [sh |-> Removed(st.sh, k), evs |-> Append(st.evs, Event("EXPIRE", st.sh, k))]

\* purgeExpiredLocked: the earliest deadline first.
Purge(st, now) ==
    LET until(k) == st.sh.items[k].until
        dead == {k \in st.sh.heap : ExpiredAt(st.sh.items[k], now)}
    IN  FoldLeft(Expire1, st, SetToSortSeq(dead, LAMBDA j, k : until(j) < until(k)))

Fits(sh, cost) == MaxCost = 0 \/ sh.cost + cost <= MaxCost

\* The eviction loop of putLocked.
Evict(st, cost) ==
    LET after[n \in 0..Cardinality(Key)] ==
          IF n = 0 THEN st
          ELSE LET p == after[n - 1]
               IN  IF Fits(p.sh, cost) \/ Present(p.sh) = {} THEN p
                   ELSE LET k == Victim(p.sh)
                            r == [p.sh EXCEPT !.minFreq = IF Policy = "LRU" THEN @
                                                          ELSE VictimBucket(p.sh)]
                        IN  [sh |-> Removed(r, k), evs |-> Append(p.evs, Event("EVICT", r, k))]
    IN  after[Cardinality(Key)]

\* putLocked, for an entry that is not too large.
Put(sh, k, e, now) ==
    LET cost == Cost[e.value]
        old == [sh |-> IF k \in Present(sh) THEN Removed(sh, k) ELSE sh, evs |-> <<>>]
        live == IF Fits(old.sh, cost) THEN old ELSE Purge(old, now)
        room == Evict(live, cost)
        new == Inserted(room.sh, k, e)
    IN  [sh |-> new, evs |-> Append(room.evs, Event("SET", new, k))]

TooLarge(v) == MaxCost > 0 /\ Cost[v] > MaxCost

\* publish: what does not fit into a watcher's channel is dropped.
Deliver(evs) ==
    watch' = [w \in Watcher |->
                IF watch[w] = None THEN None
                ELSE LET all == watch[w] \o evs
                     IN  SubSeq(all, 1, Min({Len(all), WatchBuffer}))]

\* A critical section of k's shard ends with st.
Update(k, st) ==
    /\ shard' = [shard EXCEPT ![ShardOf[k]] = st.sh]
    /\ Deliver(st.evs)

Here(k) == shard[ShardOf[k]]
Same(sh) == [sh |-> sh, evs |-> <<>>]
\* liveLocked: an entry that is out of time is removed on the way.
Live(k) == LET sh == Here(k)
           IN  IF k \in Present(sh) /\ ExpiredAt(sh.items[k], time) THEN Expire1(Same(sh), k)
               ELSE Same(sh)

\* Fault: each key counts its own versions.
NextVersionOfKey(k) == Here(k).items[k].version + 1

\* Store.version.Add(1): "every write gets a fresh one".
NextVersion(k) == version + 1

Entry(k, v, ttl) == [value |-> v, version |-> NextVersion(k),
                     until |-> IF ttl = 0 THEN 0 ELSE time + ttl]
Untouched == UNCHANGED <<seen, diskVars, time>>
----------------------------------------------------------------------------
\* Set; a write that is too large uses up a version and changes nothing else.
Set(k, v, ttl) ==
    /\ version < MaxVersion /\ version' = version + 1
    /\ IF TooLarge(v) THEN UNCHANGED <<shard, watch>>
       ELSE Update(k, Put(Here(k), k, Entry(k, v, ttl), time))
    /\ UNCHANGED read /\ Untouched

\* Get and GetVersioned; the client keeps what it got.
Get(c, k) ==
    LET st == Live(k)
        e == st.sh.items[k]
    IN  /\ Here(k).freq[k] < MaxFreq
        /\ Update(k, IF e.version = 0 THEN st ELSE [st EXCEPT !.sh = Touched(@, k)])
        /\ read' = [read EXCEPT ![c] = [key |-> k, value |-> e.value, version |-> e.version]]
        /\ UNCHANGED version /\ Untouched

Delete(k) ==
    LET st == Live(k)
    IN  /\ k \in Present(Here(k))
        /\ Update(k, IF st.sh.items[k].version = 0 THEN st
                     ELSE [sh |-> Removed(st.sh, k), evs |-> <<Event("DELETE", st.sh, k)>>])
        /\ UNCHANGED <<version, read>> /\ Untouched

\* The switch of CompareAndSwap; 0 stands for "only if absent".
CasMatches(e, expected) == e.version = expected

\* CompareAndSwap with the version the client got.
CompareAndSwap(c, v, ttl) ==
    LET k == read[c].key
        st == Live(k)
        ok == CasMatches(st.sh.items[k], read[c].version)
        put == Put(st.sh, k, Entry(k, v, ttl), time)
    IN  /\ k # None /\ version < MaxVersion
        /\ version' = IF ok THEN version + 1 ELSE version
        /\ Update(k, IF ok /\ ~TooLarge(v) THEN [put EXCEPT !.evs = st.evs \o @] ELSE st)
        /\ read' = [read EXCEPT ![c] = NoRead]
        /\ Untouched

\* Expire: a new deadline, or at once for a ttl of 0.
ExpireKey(k, ttl) ==
    LET st == Live(k)
    IN  /\ k \in Present(Here(k))
        /\ Update(k, IF st.sh.items[k].version = 0 THEN st
                     ELSE IF ttl = 0 THEN Expire1(st, k)
                     ELSE [st EXCEPT !.sh.items[k].until = time + ttl,
                                     !.sh.heap = @ \cup {k}])
        /\ UNCHANGED <<version, read>> /\ Untouched

Persist(k) ==
    LET st == Live(k)
    IN  /\ k \in Present(Here(k))
        /\ Update(k, IF st.sh.items[k].version = 0 THEN st
                     ELSE [st EXCEPT !.sh.items[k].until = 0, !.sh.heap = @ \ {k}])
        /\ UNCHANGED <<version, read>> /\ Untouched

\* TTL: all it can change is that the key is out of time.
TimeToLive(k) ==
    /\ Live(k).evs # <<>>
    /\ Update(k, Live(k))
    /\ UNCHANGED <<version, read>> /\ Untouched

\* DeleteExpired takes one shard after another.
Janitor(s) ==
    LET st == Purge(Same(shard[s]), time)
    IN  /\ st.evs # <<>>
        /\ shard' = [shard EXCEPT ![s] = st.sh]
        /\ Deliver(st.evs)
        /\ UNCHANGED <<version, read>> /\ Untouched

Watch(w) ==
    /\ watch[w] = None
    /\ watch' = [watch EXCEPT ![w] = <<>>]
    /\ seen' = [seen EXCEPT ![w] = [k \in Key |-> 0]]
    /\ UNCHANGED <<shard, version, read, diskVars, time>>

\* The context of a watcher is cancelled: out of the map, channel closed.  What
\* the closed channel still holds is not followed any further.
Unwatch(w) ==
    /\ watch[w] # None
    /\ watch' = [watch EXCEPT ![w] = None]
    /\ UNCHANGED <<shard, version, seen, read, diskVars, time>>

Receive(w) ==
    /\ watch[w] \notin {None, <<>>}
    /\ seen' = [seen EXCEPT ![w][Head(watch[w]).key] = Head(watch[w]).version]
    /\ watch' = [watch EXCEPT ![w] = Tail(@)]
    /\ UNCHANGED <<shard, version, read, diskVars, time>>
----------------------------------------------------------------------------
Records(s, now) ==
    {[key |-> k, entry |-> shard[s].items[k]] :
        k \in {j \in Present(shard[s]) : ~ExpiredAt(shard[s].items[j], now)}}

SnapshotBegin ==
    /\ MaySnapshot /\ snapping.left = {} /\ restoring.left = {} /\ file = {}
    /\ snapping' = [left |-> Shard, now |-> time]
    /\ UNCHANGED <<shard, version, streamVars, read, file, restoring, restarted, time>>

\* Snapshot copies the shards one at a time.
SnapshotShard(s) ==
    /\ s \in snapping.left
    /\ file' = file \cup Records(s, snapping.now)
    /\ snapping' = [snapping EXCEPT !.left = @ \ {s}]
    /\ UNCHANGED <<shard, version, streamVars, read, restoring, restarted, time>>

RestoreBegin ==
    /\ file # {} /\ snapping.left = {} /\ restoring.left = {}
    /\ restoring' = [left |-> file, now |-> time, next |-> None]
    /\ UNCHANGED <<shard, version, streamVars, read, file, snapping, restarted, time>>

\* Restore: a record that is out of time is skipped; for any other the
\* revision counter is advanced first.
RestoreAdvance(r) ==
    /\ restoring.next = None /\ r \in restoring.left
    /\ IF ExpiredAt(r.entry, restoring.now)
       THEN restoring' = [restoring EXCEPT !.left = @ \ {r}] /\ UNCHANGED version
       ELSE /\ restoring' = [restoring EXCEPT !.next = r]
            /\ version' = Max({version, r.entry.version})
    /\ UNCHANGED <<shard, streamVars, read, file, snapping, restarted, time>>

\* The key is live and not older than the record.
Keeps(cur, r) ==
    cur.version # 0 /\ ~ExpiredAt(cur, restoring.now) /\ cur.version >= r.entry.version

\* Restore: then the record is put into its shard; it comes from a store of
\* this capacity, so it is not too large.
RestorePut ==
    LET r == restoring.next
        sh == Here(r.key)
    IN  /\ r # None
        /\ Update(r.key, IF Keeps(sh.items[r.key], r) THEN Same(sh)
                         ELSE Put(sh, r.key, r.entry, restoring.now))
        /\ restoring' = [restoring EXCEPT !.left = @ \ {r}, !.next = None]
        /\ UNCHANGED <<version, seen, read, file, snapping, restarted, time>>

\* The process ends; a new store is made and loads the snapshot.  Clients and
\* the file survive.
Restart ==
    /\ MayRestart /\ ~restarted /\ file # {} /\ snapping.left = {}
    /\ restarted' = TRUE
    /\ shard' = [s \in Shard |-> EmptyShard] /\ version' = 0
    /\ watch' = [w \in Watcher |-> None]
    /\ restoring' = [left |-> file, now |-> time, next |-> None]
    /\ UNCHANGED <<seen, read, file, snapping, time>>

\* The new store is used once it is loaded.
Loading == restarted /\ restoring.left # {}

Tick ==
    /\ time < MaxTime /\ time' = time + 1
    /\ UNCHANGED <<shard, version, streamVars, read, diskVars>>
----------------------------------------------------------------------------
ClientStep ==
    \/ \E k \in Key : \/ \E v \in Value, ttl \in Ttl : Set(k, v, ttl)
                      \/ \E ttl \in Ttl : ExpireKey(k, ttl)
                      \/ \E c \in Client : Get(c, k)
                      \/ Delete(k) \/ Persist(k) \/ TimeToLive(k)
    \/ \E c \in Client, v \in Value, ttl \in Ttl : CompareAndSwap(c, v, ttl)
    \/ \E w \in Watcher : Watch(w) \/ Unwatch(w)
    \/ SnapshotBegin \/ RestoreBegin

Next ==
    \/ ~Loading /\ ClientStep
    \/ \E w \in Watcher : Receive(w)
    \/ \E s \in Shard : Janitor(s) \/ SnapshotShard(s)
    \/ \E r \in restoring.left : RestoreAdvance(r)
    \/ RestorePut \/ Restart \/ Tick

Spec == Init /\ [][Next]_vars
----------------------------------------------------------------------------
Entries == [value : Value \cup {None}, version : 0..MaxVersion, until : Nat]

TypeOK ==
    /\ version \in 0..MaxVersion
    /\ \A s \in Shard :
          /\ shard[s].items \in [Key -> Entries]
          /\ shard[s].order \in Seq(Key) /\ shard[s].heap \subseteq Key
          /\ shard[s].freq \in [Key -> 0..MaxFreq]
          /\ shard[s].minFreq \in 0..MaxFreq /\ shard[s].cost \in Nat
    /\ \A w \in Watcher : watch[w] # None => Len(watch[w]) <= WatchBuffer
    /\ \A c \in Client : read[c].key \in Key \cup {None} /\ read[c].version <= MaxVersion
    /\ file \subseteq [key : Key, entry : Entries]
    /\ snapping.left \subseteq Shard /\ restoring.left \subseteq file
    /\ restarted \in BOOLEAN /\ time \in 0..MaxTime

Least(sh) == Min({sh.freq[k] : k \in Present(sh)})

\* The five structures of a shard describe one set of entries, within the
\* capacity, after any mix of writes, lazy and active expiry, eviction and
\* restores; and LFU's lazily repaired minFreq never makes a key the victim
\* that was used more often than another.
IndexesAgree ==
    \A s \in Shard :
        LET sh == shard[s]
        IN  /\ sh.cost = MapThenSumSet(LAMBDA k : Cost[sh.items[k].value], Present(sh))
            /\ MaxCost > 0 => sh.cost <= MaxCost
            /\ IsInjective(sh.order) /\ ToSet(sh.order) = Present(sh)
            /\ sh.heap = {k \in Key : sh.items[k].until > 0}
            /\ Policy = "LFU" /\ Present(sh) # {} => VictimBucket(sh) = Least(sh)

\* A version stands for one write: a client whose version still matches would
\* replace exactly the value it read, "so CAS has no ABA", whatever was
\* deleted, evicted, written again or restored in between.
CasSound ==
    \A c \in Client : LET k == read[c].key
        IN  k # None /\ read[c].version # 0 /\ Here(k).items[k].version = read[c].version
            => Here(k).items[k].value = read[c].value

Restored(e) == \E r \in file : r.key = e.key /\ r.entry.version = e.version

\* "events for one key are delivered in version order", although some are
\* dropped and writers of other shards publish at the same time; only what a
\* Restore puts back is older than what a watcher has heard of.
WatchInOrder ==
    \A w \in Watcher : watch[w] # None =>
        \A j \in DOMAIN watch[w] : LET e == watch[w][j]
            IN  \/ Restored(e)
                \/ /\ e.version >= seen[w][e.key]
                   /\ \A i \in 1..j : watch[w][i].key = e.key => watch[w][i].version <= e.version
============================================================================
