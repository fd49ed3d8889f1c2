------------------------------ MODULE MCProgress ------------------------------
(***************************************************************************)
(* What the concurrent components owe their callers in the end: small      *)
(* instances of the broker, the task queue, the payment service, the two   *)
(* halves of the cab service, food delivery, file upload, the job          *)
(* scheduler, the notification service, the asynchronous log handler and   *)
(* the web crawler, under the fairness their threads and event loops       *)
(* justify.                                                                *)
(*                                                                         *)
(* The broker's variables and actions are those of PubSub. A behaviour is  *)
(* one of one component: focus names it, x1, x2, ... are the variables of  *)
(* the other components in the order of their modules, and what the        *)
(* component in focus does not need stays as it is.                        *)
(***************************************************************************)
EXTENDS PubSub, Integers, Sequences, TLC

CONSTANTS s1, k1, m1, m2, m3

VARIABLES focus, x1, x2, x3, x4, x5, x6, x7, x8, x9, x10, x11, x12, x13, x14,
          x15, x16, x17, x18, x19, x20, x21, x22
----------------------------------------------------------------------------
\* One subscription whose subscriber may remove itself, messages of two
\* priorities, and workers.
MCKeyOf == s1 :> k1
MCTopicOf == k1 :> "top"
MCPriorityOf == m1 :> 1 @@ m2 :> 1 @@ m3 :> 2
MCAccepts == s1 :> {m1, m2, m3}
MCMayUnsubscribe == s1 :> {k1}

\* What the theorems assume of the parameters.
ASSUME BrokerParams == Params /\ OneDispatcher /\ IdsNotReused

\* Two subscriptions whose subscribers may remove themselves and each other.
Pair == INSTANCE PubSub WITH
    topics <- x1, registry <- x2, workers <- x3, started <- x4, heap <- x5,
    closed <- x6, inFlight <- x7, delivered <- x8, dead <- x9, at <- x10,
    job <- x11, scan <- x12, pub <- x13, call <- x14, accepted <- x15,
    finished <- x16, discarded <- x17, retired <- x18, Sub <- {"s1", "s2"},
    Key <- {"k1", "k2"}, Topic <- {"top"}, KeyOf <- "s1" :> "k1" @@ "s2" :> "k2",
    TopicOf <- [k \in {"k1", "k2"} |-> "top"], Message <- {"m1"},
    PriorityOf <- "m1" :> 1, Accepts <- [s \in {"s1", "s2"} |-> {"m1"}],
    Publisher <- {"p1"}, Caller <- {}, Runner <- {}, MayStart <- TRUE,
    MayUnsubscribe <- [s \in {"s1", "s2"} |-> {"k1", "k2"}], MaxQueue <- 1,
    MaxAttempts <- 1

\* Two tasks, delays and backoff over two instants, two workers and a Shutdown.
Queue == INSTANCE TaskQueue WITH
    status <- x1, dependsOn <- x2, dependents <- x3, waitingOn <- x4,
    attempts <- x5, runAt <- x6, seqOf <- x7, cancelRequested <- x8, ready <- x9,
    delayed <- x10, deadLetters <- x11, seq <- x12, outstanding <- x13,
    started <- x14, closing <- x15, hardStopped <- x16, pc <- x17, holding <- x18,
    timer <- x19, listening <- x20, closer <- x21, now <- x22,
    Task <- {"t1", "t2"}, Worker <- {"w1", "w2"}, Closer <- {"c1"},
    Priority <- "t1" :> 0 @@ "t2" :> 1, MaxAttempts <- "t1" :> 2 @@ "t2" :> 1,
    MaxTime <- 1, MaxSubmit <- 2

\* Two payments, one of which the provider declines, and a thread that
\* relays the outbox.
Payments == INSTANCE Payment WITH
    status <- x1, refund <- x2, gwCharge <- x3, gwRefund <- x4, charged <- x5,
    refunded <- x6, job <- x7, todo <- x8, events <- x9, pending <- x10,
    relay <- x11, published <- x12, Pay <- {"p1", "p2"}, Key <- {"k1", "k2"},
    RKey <- {}, KeyOf <- "p1" :> "k1" @@ "p2" :> "k2",
    Amount <- [p \in {"p1", "p2"} |-> 3], RAmount <- <<>>, Declined <- {"p2"},
    RDeclined <- {}, Thread <- {"t1"}, Relay <- {"b1"}, MaxAttempts <- 2,
    MaxPublished <- 2

\* Two requests of two riders for the same two drivers.
Cabs == INSTANCE CabBooking WITH
    cab <- x1, ring <- x2, trip <- x3, active <- x4, find <- x5, Driver <- {1, 2},
    Trip <- {"t1", "t2"}, RiderOf <- "t1" :> "r1" @@ "t2" :> "r2", Rings <- 2

\* One driver, whose readings arrive late, broken or twice.
Positions == INSTANCE CabStream WITH
    raw <- x1, enriched <- x2, committed <- x3, batch <- x4, handled <- x5,
    index <- x6, driverZone <- x7, requests <- x8, zone <- x9, fails <- x10,
    Driver <- {"d1"}, Zone <- {1, 2}, Bad <- None, Partition <- {1, 2},
    PartitionOf <- "d1" :> 1, Stamp <- {1, 2}, MaxReports <- 2, MaxFails <- 1,
    MaxDemand <- 0

\* Two taps for one restaurant and one dispatcher.
Food == INSTANCE FoodDelivery WITH
    tap <- x1, slot <- x2, charged <- x3, order <- x4, refunded <- x5,
    partner <- x6, effects <- x7, assign <- x8, Tap <- {"x1", "x2"},
    KeyOf <- "x1" :> "k1" @@ "x2" :> "k1", CartOf <- "x1" :> "ca" @@ "x2" :> "ca",
    RestaurantOf <- "ca" :> 1, Partner <- {1}, MaxOrders <- 1,
    Dispatcher <- {"d1"}

\* A file of two chunks, sent by two requests, with a block that rots.
Uploads == INSTANCE FileUpload WITH
    status <- x1, chunks <- x2, inflight <- x3, expires <- x4, disk <- x5,
    file <- x6, request <- x7, late <- x8, assembly <- x9, cleaning <- x10,
    active <- x11, used <- x12, now <- x13, rot <- x14, altered <- x15,
    unverified <- x16, Upload <- {"u1"}, Chunks <- "u1" :> 2,
    Content <- {"good", "bad"}, Expected <- "u1" :> <<"good", "good">>,
    Request <- {"r1", "r2"}, MaxConcurrent <- 1, Quota <- 3, Ttl <- 2,
    MaxTime <- 2, MayDetach <- FALSE, MaxRot <- 1

\* Two jobs, the second waiting for the first and for a delay.
Jobs == INSTANCE JobScheduler WITH
    status <- x1, attempts <- x2, runAt <- x3, seq <- x4, ready <- x5,
    delayed <- x6, blocked <- x7, worker <- x8, attempt <- x9,
    cancelRequested <- x10, unfinished <- x11, idle <- x12, stopping <- x13,
    nextRun <- x14, fired <- x15, lastJob <- x16, now <- x17, Job <- {"ja", "jb"},
    DependsOn <- "ja" :> {} @@ "jb" :> {"ja"}, Delay <- "ja" :> 0 @@ "jb" :> 1,
    Priority <- [j \in {"ja", "jb"} |-> 1], Instance <- <<>>, Interval <- 2,
    Worker <- {"w1"}, MaxRetries <- 1, Backoff <- {1}, Timeout <- 1,
    MayStop <- TRUE, MaxTime <- 3

\* Two requests for one channel, a provider that fails and a quiet hour.
Notices == INSTANCE Notification WITH
    idem <- x1, recent <- x2, made <- x3, delivery <- x4, ready <- x5,
    delayed <- x6, bucket <- x7, worker <- x8, sends <- x9, now <- x10,
    Request <- {"ra", "rb"}, KeyOf <- "ra" :> "k1" @@ "rb" :> "k2",
    ContentOf <- [r \in {"ra", "rb"} |-> "hello"],
    ChannelsOf <- "ra" :> {"sms"} @@ "rb" :> {"sms"},
    SendAt <- "ra" :> 1 @@ "rb" :> 0, Critical <- {"rb"}, OptedOut <- {},
    Worker <- {"w1"}, MaxAttempts <- 2, Backoff <- {0, 1}, Capacity <- 1,
    Rate <- 1, IdemTtl <- 2, DedupWindow <- 1, Quiet <- {1}, MaxTime <- 2,
    Skew <- 0

\* Three records for a queue of two whose overflow policy drops.
Logs == INSTANCE AsyncLog WITH
    caller <- x1, queue <- x2, unfinished <- x3, worker <- x4, closer <- x5,
    flusher <- x6, targetOpen <- x7, delivered <- x8, dropped <- x9, late <- x10,
    ahead <- x11, Record <- {"l1", "l2", "l3"}, Capacity <- 2, Block <- FALSE,
    MayTimeOut <- FALSE

\* Two records for a queue of one whose callers wait for room, up to a timeout.
WaitLogs == INSTANCE AsyncLog WITH
    caller <- x1, queue <- x2, unfinished <- x3, worker <- x4, closer <- x5,
    flusher <- x6, targetOpen <- x7, delivered <- x8, dropped <- x9, late <- x10,
    ahead <- x11, Record <- {"l1", "l2"}, Capacity <- 1, Block <- TRUE,
    MayTimeOut <- TRUE

\* A site of three pages on one polite host, for two workers; the caller may
\* cancel and OnPage may fail.
Crawler == INSTANCE WebCrawler WITH
    seen <- x1, frontier <- x2, inFlight <- x3, dispatched <- x4,
    coordinator <- x5, err <- x6, cancelled <- x7, worker <- x8, robots <- x9,
    next <- x10, now <- x11, done <- x12, Url <- {"a", "b", "c"}, Seeds <- <<"a">>,
    Filtered <- {}, HostOf <- [u \in {"a", "b", "c"} |-> "h"],
    Path <- [u \in {"a", "b", "c"} |-> <<u>>],
    Links <- "a" :> <<"b", "c">> @@ "b" :> <<"a">> @@ "c" :> <<"b">>, Robots <- {},
    Worker <- {"w1", "w2"}, MaxDepth <- 1, MaxPages <- 0, PerHostDelay <- 1,
    MayCancel <- TRUE, MayAbort <- TRUE, MaxTime <- 3
----------------------------------------------------------------------------
\* The slots from the i-th on.
Rest19 == <<x19, x20, x21, x22>>
Rest18 == <<x18, Rest19>>
Rest17 == <<x17, Rest18>>
Rest13 == <<x13, x14, x15, x16, Rest17>>
Rest12 == <<x12, Rest13>>
Rest11 == <<x11, Rest12>>
Rest9 == <<x9, x10, Rest11>>
Rest6 == <<x6, x7, x8, Rest9>>
Rest1 == <<x1, x2, x3, x4, x5, Rest6>>

Blank19 == x19 = None /\ x20 = None /\ x21 = None /\ x22 = None
Blank18 == x18 = None /\ Blank19
Blank17 == x17 = None /\ Blank18
Blank13 == x13 = None /\ x14 = None /\ x15 = None /\ x16 = None /\ Blank17
Blank12 == x12 = None /\ Blank13
Blank11 == x11 = None /\ Blank12
Blank9 == x9 = None /\ x10 = None /\ Blank11
Blank6 == x6 = None /\ x7 = None /\ x8 = None /\ Blank9
Blank1 == x1 = None /\ x2 = None /\ x3 = None /\ x4 = None /\ x5 = None /\ Blank6

allVars == <<focus, vars, Rest1>>

MCInit ==
    /\ Init
    /\ \/ focus = "pubsub" /\ Blank1
       \/ focus = "pair" /\ Pair!Init /\ Blank19
       \/ focus = "queue" /\ Queue!Init
       \/ focus = "payment" /\ Payments!Init /\ Blank13
       \/ focus = "cabs" /\ Cabs!Init /\ Blank6
       \/ focus = "positions" /\ Positions!Init /\ Blank11
       \/ focus = "food" /\ Food!Init /\ Blank9
       \/ focus = "upload" /\ Uploads!Init /\ Blank17
       \/ focus = "jobs" /\ Jobs!Init /\ Blank18
       \/ focus = "notices" /\ Notices!Init /\ Blank11
       \/ focus = "log" /\ Logs!Init /\ Blank12
       \/ focus = "waitlog" /\ WaitLogs!Init /\ Blank12
       \/ focus = "crawler" /\ Crawler!Init /\ Blank13

Within(f) == focus = f /\ UNCHANGED focus

MCNext ==
    \/ Within("pubsub") /\ Next /\ UNCHANGED Rest1
    \/ Within("pair") /\ Pair!Next /\ UNCHANGED <<vars, Rest19>>
    \/ Within("queue") /\ Queue!Next /\ UNCHANGED vars
    \/ Within("payment") /\ Payments!Next /\ UNCHANGED <<vars, Rest13>>
    \/ Within("cabs") /\ Cabs!Next /\ UNCHANGED <<vars, Rest6>>
    \/ Within("positions") /\ Positions!Next /\ UNCHANGED <<vars, Rest11>>
    \/ Within("food") /\ Food!Next /\ UNCHANGED <<vars, Rest9>>
    \/ Within("upload") /\ Uploads!Next /\ UNCHANGED <<vars, Rest17>>
    \/ Within("jobs") /\ Jobs!Next /\ UNCHANGED <<vars, Rest18>>
    \/ Within("notices") /\ Notices!Next /\ UNCHANGED <<vars, Rest11>>
    \/ Within("log") /\ Logs!Next /\ UNCHANGED <<vars, Rest12>>
    \/ Within("waitlog") /\ WaitLogs!Next /\ UNCHANGED <<vars, Rest12>>
    \/ Within("crawler") /\ Crawler!Next /\ UNCHANGED <<vars, Rest13>>

MCSpec == MCInit /\ [][MCNext]_allVars
----------------------------------------------------------------------------
\* The fairness of every component's module, while that component is in focus:
\* threads are scheduled, handlers, gateways and providers answer or time out,
\* event loops run what is due and time passes.
MCFairness ==
    /\ \A w \in {"w1", "w2"} : WF_allVars(Within("queue") /\ Queue!WorkerStep(w) /\ UNCHANGED vars)
    /\ \A w \in {"w1", "w2"} : WF_allVars(Within("queue") /\ Queue!HandlerReturns(w) /\ UNCHANGED vars)
    /\ WF_allVars(Within("queue") /\ Queue!CloserStep("c1") /\ UNCHANGED vars)
    /\ WF_allVars(Within("queue") /\ Queue!Tick /\ UNCHANGED vars)
    /\ \A s \in {"s1", "s2"} : WF_allVars(Within("pair") /\ Pair!Dispatch(s) /\ UNCHANGED <<vars, Rest19>>)
    /\ \A t \in {"s1", "s2"} : WF_allVars(Within("pair") /\ Pair!Retire(t) /\ UNCHANGED <<vars, Rest19>>)
    /\ WF_allVars(Within("pair") /\ Pair!Fan("p1") /\ UNCHANGED <<vars, Rest19>>)
    /\ \A d \in Dispatcher : WF_allVars(Within("pubsub") /\ Dispatch(d) /\ UNCHANGED Rest1)
    /\ \A t \in Remover : WF_allVars(Within("pubsub") /\ Retire(t) /\ UNCHANGED Rest1)
    /\ \A p \in Publisher : WF_allVars(Within("pubsub") /\ Fan(p) /\ UNCHANGED Rest1)
    /\ WF_allVars(Within("payment") /\ Payments!Serve("t1") /\ UNCHANGED <<vars, Rest13>>)
    /\ \A t \in {"t1", "t2"} : WF_allVars(Within("cabs") /\ Cabs!Proceed(t) /\ UNCHANGED <<vars, Rest6>>)
    /\ WF_allVars(Within("positions") /\ Positions!PollGps /\ UNCHANGED <<vars, Rest11>>)
    /\ WF_allVars(Within("positions") /\ Positions!HandleGps /\ UNCHANGED <<vars, Rest11>>)
    /\ WF_allVars(Within("positions") /\ Positions!CommitGps /\ UNCHANGED <<vars, Rest11>>)
    /\ WF_allVars(Within("positions") /\ Positions!AggregatePoll /\ UNCHANGED <<vars, Rest11>>)
    /\ WF_allVars(Within("positions") /\ (\E up \in SUBSET {"d1"} : Positions!AggregateApply(up)) /\ UNCHANGED <<vars, Rest11>>)
    /\ \A x \in {"x1", "x2"} : WF_allVars(Within("food") /\ Food!Placing(x) /\ UNCHANGED <<vars, Rest9>>)
    /\ WF_allVars(Within("food") /\ Food!Effects /\ UNCHANGED <<vars, Rest9>>)
    /\ WF_allVars(Within("food") /\ Food!Assigning("d1") /\ UNCHANGED <<vars, Rest9>>)
    /\ WF_allVars(Within("upload") /\ Uploads!Assemble("u1") /\ UNCHANGED <<vars, Rest17>>)
    /\ WF_allVars(Within("upload") /\ Uploads!DeletePrefix("u1") /\ UNCHANGED <<vars, Rest17>>)
    /\ \A r \in {"r1", "r2"} : WF_allVars(Within("upload") /\ (Uploads!PutChunk(r) \/ Uploads!PutChunkFails(r)) /\ UNCHANGED <<vars, Rest17>>)
    /\ \A r \in {"r1", "r2"} : WF_allVars(Within("upload") /\ Uploads!RecordChunk(r) /\ UNCHANGED <<vars, Rest17>>)
    /\ WF_allVars(Within("jobs") /\ Jobs!Work("w1") /\ UNCHANGED <<vars, Rest18>>)
    /\ \A j \in {"ja", "jb"} : WF_allVars(Within("jobs") /\ Jobs!Ends(j) /\ UNCHANGED <<vars, Rest18>>)
    /\ WF_allVars(Within("jobs") /\ Jobs!Tick /\ UNCHANGED <<vars, Rest18>>)
    /\ WF_allVars(Within("notices") /\ Notices!ProcessNext("w1", x10) /\ UNCHANGED <<vars, Rest11>>)
    /\ WF_allVars(Within("notices") /\ Notices!Answered("w1") /\ UNCHANGED <<vars, Rest11>>)
    /\ WF_allVars(Within("notices") /\ Notices!Tick /\ UNCHANGED <<vars, Rest11>>)
    /\ \A r \in {"l1", "l2", "l3"} : WF_allVars(Within("log") /\ Logs!Put(r) /\ UNCHANGED <<vars, Rest12>>)
    /\ \A r \in {"l1", "l2", "l3"} : WF_allVars(Within("log") /\ Logs!PutFull(r) /\ UNCHANGED <<vars, Rest12>>)
    /\ WF_allVars(Within("log") /\ (Logs!Get \/ Logs!TargetHandle) /\ UNCHANGED <<vars, Rest12>>)
    /\ WF_allVars(Within("log") /\ Logs!FlushEnd /\ UNCHANGED <<vars, Rest12>>)
    /\ WF_allVars(Within("log") /\ Logs!PutStop /\ UNCHANGED <<vars, Rest12>>)
    /\ WF_allVars(Within("log") /\ Logs!Joined /\ UNCHANGED <<vars, Rest12>>)
    /\ WF_allVars(Within("log") /\ Logs!Drain /\ UNCHANGED <<vars, Rest12>>)
    /\ \A r \in {"l1", "l2"} : WF_allVars(Within("waitlog") /\ WaitLogs!Put(r) /\ UNCHANGED <<vars, Rest12>>)
    /\ \A r \in {"l1", "l2"} : WF_allVars(Within("waitlog") /\ WaitLogs!PutFull(r) /\ UNCHANGED <<vars, Rest12>>)
    /\ WF_allVars(Within("waitlog") /\ (WaitLogs!Get \/ WaitLogs!TargetHandle) /\ UNCHANGED <<vars, Rest12>>)
    /\ WF_allVars(Within("waitlog") /\ WaitLogs!FlushEnd /\ UNCHANGED <<vars, Rest12>>)
    /\ WF_allVars(Within("waitlog") /\ WaitLogs!PutStop /\ UNCHANGED <<vars, Rest12>>)
    /\ WF_allVars(Within("waitlog") /\ WaitLogs!Joined /\ UNCHANGED <<vars, Rest12>>)
    /\ WF_allVars(Within("waitlog") /\ WaitLogs!Drain /\ UNCHANGED <<vars, Rest12>>)
    /\ WF_allVars(Within("crawler") /\ Crawler!Coordinate /\ UNCHANGED <<vars, Rest13>>)
    /\ \A w \in {"w1", "w2"} : WF_allVars(Within("crawler") /\ Crawler!Work(w) /\ UNCHANGED <<vars, Rest13>>)
    /\ WF_allVars(Within("crawler") /\ Crawler!Tick /\ UNCHANGED <<vars, Rest13>>)

FairSpec == MCSpec /\ MCFairness

\* The two subscriptions alone.
PairSpec == FairSpec /\ focus = "pair"

OpenIn(f) ==
    CASE focus # f -> {}
      [] focus = "pubsub" -> Awaited
      [] focus = "pair" -> Pair!Removing \ Pair!Stuck
      [] focus = "queue" -> Queue!ShuttingDown \union Queue!Pending
      [] focus = "payment" -> Payments!Charging
      [] focus = "cabs" -> Cabs!Searching
      [] focus = "positions" -> Positions!Behind
      [] focus = "food" -> Food!Unanswered
      [] focus = "upload" -> Uploads!Assembling
      [] focus = "jobs" -> Jobs!Unended
      [] focus = "notices" -> Notices!Unsettled
      [] focus = "log" -> Logs!Unreturned
      [] focus = "waitlog" -> WaitLogs!Unreturned
      [] focus = "crawler" -> Crawler!Crawling

\* Whenever one of S is open in component f, it is settled later.
Ends(f, S) == \A x \in S : []<>(x \notin OpenIn(f))
----------------------------------------------------------------------------
\* pub_sub_system.py, _retire: every removal returns, a subscriber's removal of
\* itself too, unless it waits, through the join, in or behind a circle of
\* subscribers that remove each other.
RemovalReturns ==
    /\ \A t \in Remover : []<>(t \notin Removing)
    /\ Ends("pair", {"s1", "s2"})

\* What the comment on MessageBroker says: "subscriber code cannot deadlock or
\* stall the broker", so a removal from inside a handler returns.
SubscribersCannotDeadlock ==
    \A t \in {"s1", "s2"} : []<>(focus = "pair" => t \notin Pair!Removing)

\* task_queue.go, Shutdown: every call returns, with or without a deadline,
\* although workers sleep on channels and timers and retries are pending.
ShutdownReturns == Ends("queue", {"c1"})

\* task_queue.go, worker and finish: every submitted task of a started queue
\* reaches a terminal status.
TasksSettle == Ends("queue", {"t1", "t2"})

\* Whatever a component takes on comes to an end: a message a running broker
\* accepted, which is delivered, dead-lettered or, with its subscription removed,
\* discarded (pub_sub_system.py, the worker loop), a charge, whose retries end and
\* record what is known (payment_processing.py, pay), a search for a driver
\* (cab_booking.py, _claim_driver), the readings both consumers have to commit
\* (cab_booking.py, the location stream), an order being placed or assigned
\* (food_delivery.py), an assembly (big_file_upload.py, complete), a job of a
\* running scheduler (job_scheduler.py), a delivery (notification_service.py),
\* the calls of handle and close (logging_framework.py, AsyncHandler) and a
\* crawl, although workers and coordinator wait for each other (web_crawler.go).
CallsEnd ==
    /\ Ends("pubsub", Sub \X Message)
    /\ Ends("payment", {"p1", "p2"})
    /\ Ends("cabs", {"t1", "t2"})
    /\ Ends("positions", {1, 2})
    /\ Ends("food", {"x1", "x2", "d1"})
    /\ Ends("upload", {"u1"})
    /\ Ends("jobs", {"ja", "jb"})
    /\ Ends("notices", Notices!Delivery)
    /\ Ends("log", {"l1", "l2", "l3", "close"})
    /\ Ends("waitlog", {"l1", "l2", "close"})
    /\ Ends("crawler", {"crawl"})
=============================================================================
