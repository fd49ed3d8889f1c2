------------------------------ MODULE MCServices ------------------------------
(***************************************************************************)
(* Two components that do not interact: the seat booking service, whose    *)
(* module this one extends (two bookings of the same seats by two          *)
(* threads), and instances of the key-value store (LFU with a capacity;    *)
(* LRU with watchers, a snapshot and a restart).  A behaviour is one of    *)
(* one of them: focus names it, and the variables of the others stay as    *)
(* they are.                                                               *)
(***************************************************************************)
EXTENDS SeatBooking, TLC

CONSTANTS t1, t2, b1, b2, ka, kb, kc, small, large, c1, w1

VARIABLES
    focus,
    shard, version, watch, seen, read, file, snapping, restoring, restarted, time

\* Both bookings are for both seats.
SameSeats == [b \in {b1, b2} |-> {1, 2}]

\* What the theorems assume of the parameters.
ASSUME SeatParams == Params
----------------------------------------------------------------------------
Lfu == INSTANCE KvStore WITH
    Key <- {ka, kb, kc}, Value <- {small, large}, Shard <- {1},
    ShardOf <- [k \in {ka, kb, kc} |-> 1], Cost <- (small :> 1 @@ large :> 2), MaxCost <- 2,
    Policy <- "LFU", Ttl <- {0, 1}, Client <- {c1}, Watcher <- {}, WatchBuffer <- 0,
    MaySnapshot <- FALSE, MayRestart <- FALSE,
    MaxVersion <- 4, MaxFreq <- 3, MaxTime <- 1

Streams == INSTANCE KvStore WITH
    Key <- {ka, kb}, Value <- {small}, Shard <- {1},
    ShardOf <- [k \in {ka, kb} |-> 1], Cost <- [v \in {small} |-> 1], MaxCost <- 1,
    Policy <- "LRU", Ttl <- {0, 1}, Client <- {}, Watcher <- {w1}, WatchBuffer <- 2,
    MaySnapshot <- TRUE, MayRestart <- TRUE,
    MaxVersion <- 3, MaxFreq <- 1, MaxTime <- 1

\* One key and a client that keeps its version over a restart.
Reborn == INSTANCE KvStore WITH
    Key <- {ka}, Value <- {small, large}, Shard <- {1},
    ShardOf <- [k \in {ka} |-> 1], Cost <- (small :> 1 @@ large :> 2), MaxCost <- 0,
    Policy <- "LRU", Ttl <- {0}, Client <- {c1}, Watcher <- {}, WatchBuffer <- 0,
    MaySnapshot <- TRUE, MayRestart <- TRUE,
    MaxVersion <- 3, MaxFreq <- 2, MaxTime <- 0
----------------------------------------------------------------------------
storeVars == <<shard, version, watch, seen, read, file, snapping, restoring, restarted, time>>
allVars == <<focus, vars, storeVars>>

MCInit ==
    /\ Init
    /\ \/ focus \in {"seats", "lfu"} /\ Lfu!Init
       \/ focus = "streams" /\ Streams!Init

MCNext ==
    /\ \/ focus = "seats" /\ Next /\ UNCHANGED storeVars
       \/ focus = "lfu" /\ Lfu!Next /\ UNCHANGED vars
       \/ focus = "streams" /\ Streams!Next /\ UNCHANGED vars
    /\ UNCHANGED focus

MCSpec == MCInit /\ [][MCNext]_allVars

\* Threads and keys are interchangeable: no definition chooses among them, and
\* every key of an instance has the same shard.
Symmetry == Permutations({t1, t2}) \cup Permutations({ka, kb})

\* The seat booking service alone.
SeatsSpec == MCInit /\ focus = "seats" /\ [][MCNext]_allVars

\* The store whose client keeps its version over a restart.
RebornSpec ==
    /\ focus = "reborn" /\ Init /\ Reborn!Init
    /\ [][Reborn!Next /\ UNCHANGED <<focus, vars>>]_allVars
----------------------------------------------------------------------------
\* kv_store.go, putLocked, removeLocked and the policies: map, recency order,
\* frequencies, cost and expiry heap of a shard describe the same entries,
\* within the capacity, and LFU never evicts a key used more than another.
IndexesAgree == /\ focus = "lfu" => Lfu!TypeOK /\ Lfu!IndexesAgree
                /\ focus = "streams" => Streams!TypeOK /\ Streams!IndexesAgree

\* kv_store.go, CompareAndSwap: a version that still matches names the value
\* that was read with it, whatever was deleted or evicted in between.  publish
\* and Restore: a watcher hears of a key in the order of its versions, except
\* for what a Restore puts back.
ClientsAgree == /\ focus = "lfu" => Lfu!CasSound
                /\ focus = "streams" => Streams!WatchInOrder

\* kv_store.go, the comment of Restore: a CAS issued before the restart cannot
\* succeed against a different value.
CasSoundAcrossRestart == Reborn!CasSound
=============================================================================
