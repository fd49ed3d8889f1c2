------------------------------ MODULE CabStream ------------------------------
(***************************************************************************)
(* The GPS pipeline of python-low-level-design/cab-booking-uber: positions *)
(* are produced to a partitioned topic, a consumer puts them into the      *)
(* GeoIndex and enriches them with the zone, and an aggregator counts      *)
(* drivers and ride requests per zone.  Both consumers commit an offset    *)
(* after they handled it, and may stop in between.                         *)
(***************************************************************************)
EXTENDS Naturals, Sequences, FiniteSets, SequencesExt

CONSTANTS
    Driver, Zone, Bad,      \* Bad: a payload without valid coordinates
    Partition, PartitionOf, \* crc32(key) % n
    Stamp,                  \* timestamps of GPS readings, in any order
    MaxReports, MaxFails, MaxDemand

VARIABLES
    raw, enriched,      \* topics: partition -> log
    committed,          \* offsets of the two consumer groups
    batch,              \* what each consumer has polled and not yet committed
    handled,            \* the head of the processor's batch has been handled
    index,              \* GeoIndex._pos: where and when a driver was seen last
    driverZone,         \* ZoneAnalyticsAggregator._driver_zone
    requests, zone,     \* ride requests of this window; what the last one showed
    fails

vars == <<raw, enriched, committed, batch, handled, index, driverZone, requests, zone, fails>>

Unseen == [at |-> Bad, ts |-> 0]
Empty == [p \in Partition |-> <<>>]

Init ==
    /\ raw = Empty /\ enriched = Empty
    /\ committed = [g \in {"gps", "zones"} |-> [p \in Partition |-> 0]]
    /\ batch = [g \in {"gps", "zones"} |-> <<>>] /\ handled = FALSE
    /\ index = [d \in Driver |-> Unseen] /\ driverZone = [d \in Driver |-> Bad]
    /\ requests = [z \in Zone |-> 0] /\ zone = [z \in Zone |-> [supply |-> 0, demand |-> 0]]
    /\ fails = 0

Pending(topic, group, p) == SubSeq(topic[p], committed[group][p] + 1, Len(topic[p]))

\* KafkaBroker.produce: the key picks the partition.
Produced(topic, msg) == [topic EXCEPT ![PartitionOf[msg.driver]] = Append(@, msg)]

\* KafkaBroker.poll: what follows the committed offsets, partition by partition.
Poll(topic, group) ==
    LET part(p) == [i \in 1..Len(Pending(topic, group, p)) |->
                       [p |-> p, offset |-> committed[group][p] + i, msg |-> Pending(topic, group, p)[i]]]
    IN  FlattenSeq([p \in Partition |-> part(p)])

\* KafkaBroker.commit.
Commit(group) ==
    LET m == Head(batch[group])
    IN  /\ committed' = [committed EXCEPT ![group][m.p] = IF m.offset > @ THEN m.offset ELSE @]
        /\ batch' = [batch EXCEPT ![group] = Tail(@)]
----------------------------------------------------------------------------
\* update_driver_location: readings of one driver may arrive in any order.
Report(d, at, ts) ==
    /\ Len(FlattenSeq(raw)) < MaxReports
    /\ raw' = Produced(raw, [driver |-> d, at |-> at, ts |-> ts])
    /\ UNCHANGED <<enriched, committed, batch, handled, index, driverZone, requests, zone, fails>>

PollGps ==
    /\ batch["gps"] = <<>> /\ Poll(raw, "gps") # <<>>
    /\ batch' = [batch EXCEPT !["gps"] = Poll(raw, "gps")]
    /\ UNCHANGED <<raw, enriched, committed, handled, index, driverZone, requests, zone, fails>>

\* GeoIndex.upsert refuses only what is older than the indexed position.
Fresh(m) == index[m.driver] = Unseen \/ m.ts >= index[m.driver].ts

\* GPSLocationStreamProcessor.poll up to its commit; a bad payload goes to the
\* dead letter topic, which nobody consumes.
HandleGps ==
    /\ batch["gps"] # <<>> /\ ~handled
    /\ handled' = TRUE
    /\ LET m == Head(batch["gps"]).msg
       IN  IF m.at # Bad /\ Fresh(m)
           THEN /\ index' = [index EXCEPT ![m.driver] = [at |-> m.at, ts |-> m.ts]]
                /\ enriched' = Produced(enriched, m)
           ELSE UNCHANGED <<index, enriched>>
    /\ UNCHANGED <<raw, committed, batch, driverZone, requests, zone, fails>>

CommitGps ==
    /\ handled /\ Commit("gps") /\ handled' = FALSE
    /\ UNCHANGED <<raw, enriched, index, driverZone, requests, zone, fails>>

\* A consumer stops in the middle of its batch; the next poll replays it.
Fail(g) ==
    /\ batch[g] # <<>> /\ fails < MaxFails
    /\ fails' = fails + 1 /\ batch' = [batch EXCEPT ![g] = <<>>]
    /\ handled' = (handled /\ g # "gps")
    /\ UNCHANGED <<raw, enriched, committed, index, driverZone, requests, zone>>
----------------------------------------------------------------------------
\* The aggregator's lock is free.
Open == batch["zones"] = <<>>

RecordRideRequest(z) ==
    /\ Open /\ requests[z] < MaxDemand /\ requests' = [requests EXCEPT ![z] = @ + 1]
    /\ UNCHANGED <<raw, enriched, committed, batch, handled, index, driverZone, zone, fails>>

AggregatePoll ==
    /\ Open /\ Poll(enriched, "zones") # <<>>
    /\ batch' = [batch EXCEPT !["zones"] = Poll(enriched, "zones")]
    /\ UNCHANGED <<raw, enriched, committed, handled, index, driverZone, requests, zone, fails>>

\* The zones once the window closes: up are the drivers is_available accepts.
Counted(where, up) ==
    [z \in Zone |-> [supply |-> Cardinality({d \in up : where[d] = z}), demand |-> requests[z]]]

\* One position is applied and committed; the last one closes the window.
AggregateApply(up) ==
    /\ ~Open
    /\ LET m == Head(batch["zones"]).msg
           where == [driverZone EXCEPT ![m.driver] = m.at]
           last == Len(batch["zones"]) = 1
       IN  /\ driverZone' = where
           /\ zone' = IF last THEN Counted(where, up) ELSE zone
           /\ requests' = IF last THEN [z \in Zone |-> 0] ELSE requests
    /\ Commit("zones")
    /\ UNCHANGED <<raw, enriched, handled, index, fails>>

\* A window in which nobody moved.
AggregateIdle(up) ==
    /\ Open /\ Poll(enriched, "zones") = <<>>
    /\ zone' = Counted(driverZone, up) /\ requests' = [z \in Zone |-> 0]
    /\ UNCHANGED <<raw, enriched, committed, batch, handled, index, driverZone, fails>>

Next ==
    \/ \E d \in Driver, at \in Zone \cup {Bad}, ts \in Stamp : Report(d, at, ts)
    \/ PollGps \/ HandleGps \/ CommitGps \/ AggregatePoll
    \/ \E g \in {"gps", "zones"} : Fail(g)
    \/ \E z \in Zone : RecordRideRequest(z)
    \/ \E up \in SUBSET Driver : AggregateApply(up) \/ AggregateIdle(up)

Spec == Init /\ [][Next]_vars

\* Both consumers are polled again and again and get through their batches.
Fairness ==
    /\ WF_vars(PollGps) /\ WF_vars(HandleGps) /\ WF_vars(CommitGps) /\ WF_vars(AggregatePoll)
    /\ WF_vars(\E up \in SUBSET Driver : AggregateApply(up))
----------------------------------------------------------------------------
TypeOK ==
    /\ \A d \in Driver : /\ index[d] \in [at : Zone \cup {Bad}, ts : Stamp \cup {0}]
                         /\ driverZone[d] \in Zone \cup {Bad}
    /\ \A p \in Partition : /\ committed["gps"][p] <= Len(raw[p])
                            /\ committed["zones"][p] <= Len(enriched[p])
    /\ handled => batch["gps"] # <<>>

\* The valid readings of a driver in the committed part of the raw topic.
Committed(d) ==
    {raw[p][i] : <<p, i>> \in {x \in Partition \X (1..MaxReports) :
        /\ x[2] <= committed["gps"][x[1]]
        /\ raw[x[1]][x[2]].driver = d /\ raw[x[1]][x[2]].at # Bad}}

\* GeoIndex.upsert, GPSLocationStreamProcessor.poll and KafkaBroker: no reading
\* is lost, and replayed or late ones never move a driver back: the index is at
\* least as new as every committed reading, each driver's enriched positions
\* are in the order of time, and once they are aggregated the driver is counted
\* in the zone the index has it in.
PositionsConverge ==
    \A d \in Driver :
        /\ \A m \in Committed(d) : index[d] # Unseen /\ m.ts <= index[d].ts
        /\ LET mine == SelectSeq(enriched[PartitionOf[d]], LAMBDA m : m.driver = d)
           IN  \A i, j \in 1..Len(mine) : i < j => mine[i].ts <= mine[j].ts
        /\ (\A p \in Partition : committed["zones"][p] = Len(enriched[p]))
              => driverZone[d] = index[d].at

\* The partitions with a reading that a consumer has not committed.
Behind == {p \in Partition : committed["gps"][p] # Len(raw[p]) \/ committed["zones"][p] # Len(enriched[p])}
=============================================================================
