---------------------------- MODULE MCTaskQueue ----------------------------
(* Small instances of TaskQueue for TLC. *)
EXTENDS TaskQueue, TLC

CONSTANTS t1, t2, t3, w1, w2, c1, c2

MCTask3 == {t1, t2, t3}
MCTask2 == {t1, t2}
MCPriority3 == (t1 :> 0) @@ (t2 :> 1) @@ (t3 :> 1)
MCPriority2 == (t1 :> 0) @@ (t2 :> 1)
MCMaxAttempts3 == (t1 :> 2) @@ (t2 :> 1) @@ (t3 :> 1)
MCMaxAttempts2 == (t1 :> 2) @@ (t2 :> 1)

MCSymmetry == Permutations(Worker)

\* Bound: delays and the clock are for two tasks and one call of Shutdown; with
\* the third task in the queue, to have every graph of three, or a second call
\* under way, to overlap with the first, nothing is delayed.
Undelayed == now = 0 /\ \A t \in Task : runAt[t] = 0
Bounded ==
    \/ status[t3] = "Absent" /\ (closer[c2] = "idle" \/ Undelayed)
    \/ closer[c2] = "idle" /\ Undelayed

MCSpec == Init /\ [][Next /\ Bounded']_vars
=============================================================================
