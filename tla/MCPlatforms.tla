------------------------------ MODULE MCPlatforms ------------------------------
(***************************************************************************)
(* The services that queue, limit, cache and index, and the algorithm      *)
(* exercises: the resilience library with a count-based window, whose      *)
(* module this one extends, and small instances of the same with a time-   *)
(* based window, of the matching engine, the job scheduler, the            *)
(* notification service, the position stream of the cab service, the       *)
(* logging framework, the rate limiter, the cache, the search platform,    *)
(* the broker in its synchronous mode, the web crawler, and every input up *)
(* to a bound for the exercises of python-dsa.                             *)
(*                                                                         *)
(* A behaviour is one of one component: focus names it, with "count" for   *)
(* the module that is extended; x1, x2, ... are the variables of the       *)
(* others in the order of their modules, and the slots an instance does    *)
(* not need stay None.                                                     *)
(***************************************************************************)
EXTENDS Resilience, Integers, Sequences, TLC

CONSTANTS t1, t2, None

VARIABLES focus, x1, x2, x3, x4, x5, x6, x7, x8, x9, x10, x11, x12, x13, x14,
          x15, x16, x17, x18, x19, x20
----------------------------------------------------------------------------
\* Threads are interchangeable: no definition chooses among them.
Symmetry == Permutations({t1, t2})

\* Orders of both sides, types and times in force that meet at two prices.
New(side, type, price, quantity, tif) ==
    [kind |-> "new", side |-> side, type |-> type, price |-> price, quantity |-> quantity, tif |-> tif]
Commands ==
    {New("SELL", "LIMIT", 1, 1, "GTC"), New("SELL", "LIMIT", 2, 1, "GTC"), New("SELL", "LIMIT", 1, 2, "IOC"),
     New("BUY", "LIMIT", 2, 2, "GTC"), New("BUY", "LIMIT", 1, 2, "FOK"), New("BUY", "LIMIT", 1, 1, "GTC"),
     New("BUY", "MARKET", 0, 2, "IOC"),
     [kind |-> "cancel", id |-> 1]}

\* Documents and queries over five words, of which one is a stop word, one the
\* plural of another and one a typing error.
Word == {"design", "designs", "system", "of", "sistem"}
Document(title, tags, body) == [title |-> title, tags |-> tags, body |-> body]
Documents ==
    {Document(<<"system", "of", "designs">>, <<>>, <<"design">>),
     Document(<<>>, <<<<"system">>, <<"of", "design">>>>, <<"of">>),
     Document(<<"design", "system">>, <<<<"design", "of">>, <<"system">>>>, <<>>)}
Ask(should, must, must_not, phrase) ==
    [should |-> should, must |-> must, must_not |-> must_not, phrase |-> phrase]
Queries ==
    {Ask({"design"}, {}, {}, <<>>), Ask({"sistem"}, {}, {}, <<>>), Ask({"of"}, {}, {}, <<>>),
     Ask({}, {"system"}, {}, <<>>), Ask({}, {}, {}, <<"design", "system">>),
     Ask({}, {}, {}, <<"system", "design">>), Ask({}, {}, {}, <<"system", "of", "design">>),
     Ask({}, {"design"}, {"sistem"}, <<>>), Ask({"system"}, {}, {"of", "design"}, <<>>)}

\* A robots.txt; all those with one rule of up to three characters, and those
\* with two rules that overlap.
File(rules, delay) == [disallowAll |-> FALSE, rules |-> rules, crawlDelay |-> delay]
Rule(pattern, allow) == [pattern |-> pattern, allow |-> allow]
Patterns == UNION {[1..n -> {"a", "b", "*"}] : n \in 1..3}
            \cup UNION {{p \o <<"$">> : p \in [1..n -> {"a", "b", "*"}]} : n \in 0..2}
            \cup {<<"a", "*", "a", "$">>, <<"*", "b", "*", "b">>}
Files == {File(<<Rule(p, FALSE)>>, 0) : p \in Patterns}
         \cup {File(<<Rule(p, FALSE), Rule(q, TRUE)>>, 0) : p, q \in [1..2 -> {"a", "*"}]}

\* A site in which one page is two links and three links away from the first.
Site == [url |-> {"p1", "p2", "p3", "p4", "p5", "p6"},
         path |-> "p1" :> <<>> @@ "p2" :> <<"a">> @@ "p3" :> <<"b", "a">> @@ "p4" :> <<"a", "b">>
                  @@ "p5" :> <<"a", "b", "a">> @@ "p6" :> <<"b", "a", "b", "b">>,
         links |-> "p1" :> <<"p2", "p3">> @@ "p2" :> <<"p4", "p1">> @@ "p3" :> <<"p5">>
                   @@ "p4" :> <<"p5">> @@ "p5" :> <<"p6">> @@ "p6" :> <<>>]

\* A time-based window of two seconds that trips at half of its calls.
Seconds == INSTANCE Resilience WITH
    state <- x1, generation <- x2, openedAt <- x3, issued <- x4, successes <- x5,
    window <- x6, free <- x7, step <- x8, permit <- x9, attempt <- x10,
    outcome <- x11, work <- x12, abandoned <- x13, tokens <- x14, now <- x15,
    calls <- x16, resets <- x17, log <- x18, retried <- x19, won <- x20,
    Thread <- {t1, t2}, WindowType <- "TIME", WindowSize <- 2, MinimumCalls <- 2,
    RateNum <- 1, RateDen <- 2, OpenDuration <- 1, HalfOpenMax <- 2,
    MaxConcurrent <- 1, PoolSize <- 1, MaxAttempts <- 2, MaxTokens <- 8,
    TokenCost <- 2, MaxTime <- 2, MaxCalls <- 3, MaxResets <- 0

\* Four commands, a crash at any point.
Engine == INSTANCE OrderMatching WITH
    book <- x1, journal <- x2, queue <- x3, closed <- x4, worker <- x5,
    report <- x6, Command <- Commands, MaxSeq <- 4, MaxQueue <- 1,
    MayCrash <- TRUE

\* Two jobs, the second waiting for the first, with a retry.
Jobs == INSTANCE JobScheduler WITH
    status <- x1, attempts <- x2, runAt <- x3, seq <- x4, ready <- x5,
    delayed <- x6, blocked <- x7, worker <- x8, attempt <- x9,
    cancelRequested <- x10, unfinished <- x11, idle <- x12, stopping <- x13,
    nextRun <- x14, fired <- x15, lastJob <- x16, now <- x17, Job <- {"ja", "jb"},
    DependsOn <- "ja" :> {} @@ "jb" :> {"ja"}, Delay <- "ja" :> 0 @@ "jb" :> 1,
    Priority <- [j \in {"ja", "jb"} |-> 1], Instance <- <<>>, Interval <- 2,
    Worker <- {"w1", "w2"}, MaxRetries <- 1, Backoff <- {0, 1}, Timeout <- 1,
    MayStop <- TRUE, MaxTime <- 2

\* A chain of three.
Chain == INSTANCE JobScheduler WITH
    status <- x1, attempts <- x2, runAt <- x3, seq <- x4, ready <- x5,
    delayed <- x6, blocked <- x7, worker <- x8, attempt <- x9,
    cancelRequested <- x10, unfinished <- x11, idle <- x12, stopping <- x13,
    nextRun <- x14, fired <- x15, lastJob <- x16, now <- x17,
    Job <- {"ja", "jb", "jc"},
    DependsOn <- "ja" :> {} @@ "jb" :> {"ja"} @@ "jc" :> {"jb"},
    Delay <- [j \in {"ja", "jb", "jc"} |-> 0],
    Priority <- "ja" :> 1 @@ "jb" :> 1 @@ "jc" :> 2, Instance <- <<>>,
    Interval <- 2, Worker <- {"w1"}, MaxRetries <- 0, Backoff <- {0, 1},
    Timeout <- 1, MayStop <- FALSE, MaxTime <- 1

\* A recurring job and its first two instances.
Recurring == INSTANCE JobScheduler WITH
    status <- x1, attempts <- x2, runAt <- x3, seq <- x4, ready <- x5,
    delayed <- x6, blocked <- x7, worker <- x8, attempt <- x9,
    cancelRequested <- x10, unfinished <- x11, idle <- x12, stopping <- x13,
    nextRun <- x14, fired <- x15, lastJob <- x16, now <- x17, Job <- {},
    DependsOn <- <<>>, Delay <- <<>>, Priority <- [j \in {"i1", "i2"} |-> 1],
    Instance <- <<"i1", "i2">>, Interval <- 2, Worker <- {"w1"}, MaxRetries <- 0,
    Backoff <- {0, 1}, Timeout <- 1, MayStop <- TRUE, MaxTime <- 4

\* A repeated key, repeated content, a critical request and readings of the
\* clock that are a tick old.
Notices == INSTANCE Notification WITH
    idem <- x1, recent <- x2, made <- x3, delivery <- x4, ready <- x5,
    delayed <- x6, bucket <- x7, worker <- x8, sends <- x9, now <- x10,
    Request <- {"ra", "rb", "rc"},
    KeyOf <- "ra" :> "k1" @@ "rb" :> "k1" @@ "rc" :> "k2",
    ContentOf <- [r \in {"ra", "rb", "rc"} |-> "hello"],
    ChannelsOf <- "ra" :> {"sms"} @@ "rb" :> {"sms"} @@ "rc" :> {"sms", "email"},
    SendAt <- "ra" :> 1 @@ "rb" :> 0 @@ "rc" :> 0, Critical <- {"rc"},
    OptedOut <- {"email"}, Worker <- {"w1"}, MaxAttempts <- 1, Backoff <- {0, 1},
    Capacity <- 1, Rate <- 1, IdemTtl <- 2, DedupWindow <- 2, Quiet <- {1},
    MaxTime <- 2, Skew <- 1

\* Two workers and a provider that fails.
Retries == INSTANCE Notification WITH
    idem <- x1, recent <- x2, made <- x3, delivery <- x4, ready <- x5,
    delayed <- x6, bucket <- x7, worker <- x8, sends <- x9, now <- x10,
    Request <- {"ra", "rb"}, KeyOf <- "ra" :> "k1" @@ "rb" :> "k2",
    ContentOf <- "ra" :> "hello" @@ "rb" :> "code",
    ChannelsOf <- [r \in {"ra", "rb"} |-> {"sms"}],
    SendAt <- "ra" :> 1 @@ "rb" :> 0, Critical <- {"rb"}, OptedOut <- {},
    Worker <- {"w1", "w2"}, MaxAttempts <- 2, Backoff <- {0, 1}, Capacity <- 1,
    Rate <- 1, IdemTtl <- 2, DedupWindow <- 1, Quiet <- {1}, MaxTime <- 1,
    Skew <- 0

\* One driver, whose readings arrive late, broken or twice.
Positions == INSTANCE CabStream WITH
    raw <- x1, enriched <- x2, committed <- x3, batch <- x4, handled <- x5,
    index <- x6, driverZone <- x7, requests <- x8, zone <- x9, fails <- x10,
    Driver <- {"d1"}, Zone <- {1, 2}, Bad <- None, Partition <- {1, 2},
    PartitionOf <- "d1" :> 1, Stamp <- {1, 2}, MaxReports <- 2, MaxFails <- 1,
    MaxDemand <- 1

\* A tree of three loggers whose levels change.
Levels == INSTANCE LogLevels WITH
    made <- x1, level <- x2, gen <- x3, setting <- x4, cache <- x5, caller <- x6,
    Logger <- {"root", "app", "db"}, Root <- "root",
    Parent <- "root" :> "root" @@ "app" :> "root" @@ "db" :> "app",
    LevelSet <- {1, 2}, Caller <- {"c1"}, MaxGen <- 2

\* Three records for a queue of two that drops, and a close that may time out.
Logs == INSTANCE AsyncLog WITH
    caller <- x1, queue <- x2, unfinished <- x3, worker <- x4, closer <- x5,
    flusher <- x6, targetOpen <- x7, delivered <- x8, dropped <- x9, late <- x10,
    ahead <- x11, Record <- {"l1", "l2", "l3"}, Capacity <- 2, Block <- FALSE,
    MayTimeOut <- TRUE

\* A queue of one that makes its callers wait.
Blocking == INSTANCE AsyncLog WITH
    caller <- x1, queue <- x2, unfinished <- x3, worker <- x4, closer <- x5,
    flusher <- x6, targetOpen <- x7, delivered <- x8, dropped <- x9, late <- x10,
    ahead <- x11, Record <- {"l1", "l2"}, Capacity <- 1, Block <- TRUE,
    MayTimeOut <- FALSE

\* Two requests in three ticks, by each algorithm.
Limits == INSTANCE RateLimiter WITH
    algo <- x1, entries <- x2, heap <- x3, thread <- x4, resetting <- x5,
    granted <- x6, now <- x7, MaxRequests <- 2, Window <- 3,
    Algorithm <- {"token_bucket", "leaky_bucket", "fixed_window", "sliding_window_log", "sliding_window_counter"},
    Key <- {"k1"}, Thread <- {"h1", "h2"}, MaxTime <- 4, MaxEntries <- 2

\* Three keys for two places.
Evicting == INSTANCE LruCache WITH
    policy <- x1, node <- x2, lists <- x3, minFreq <- x4, expiry <- x5, made <- x6,
    flight <- x7, caller <- x8, uses <- x9, recent <- x10, now <- x11,
    Key <- {"ka", "kb", "kc"}, Caller <- {}, Policy <- {"LRU", "LFU"},
    Capacity <- 2, Ttl <- {None, 1}, HeapSlack <- 0, MaxNode <- 3, MaxTime <- 1,
    MaxUses <- 2

\* Two callers who load.
Loading == INSTANCE LruCache WITH
    policy <- x1, node <- x2, lists <- x3, minFreq <- x4, expiry <- x5, made <- x6,
    flight <- x7, caller <- x8, uses <- x9, recent <- x10, now <- x11,
    Key <- {"ka", "kb"}, Caller <- {"c1", "c2"}, Policy <- {"LRU", "LFU"},
    Capacity <- 1, Ttl <- {None, 1}, HeapSlack <- 0, MaxNode <- 2, MaxTime <- 1,
    MaxUses <- 2

\* Three documents, added, replaced and removed.
Index == INSTANCE Search WITH
    docs <- x1, postings <- x2, forward <- x3, surface <- x4, docLen <- x5,
    totalLen <- x6, suggestDf <- x7, suggestSorted <- x8, dirty <- x9,
    Id <- {1, 2, 3}, Text <- Documents, Stop <- {"of"},
    Stem <- [w \in Word |-> IF w = "designs" THEN "design" ELSE w],
    Near <- [w \in Word |-> IF w = "sistem" THEN {"system"} ELSE {}],
    Weight <- [title |-> 3, tags |-> 2, body |-> 1], Query <- Queries,
    TagGap <- 100

\* Two subscriptions, one after the other under one id, and a caller of
\* run_until_idle.
Broker == INSTANCE PubSub WITH
    topics <- x1, registry <- x2, workers <- x3, started <- x4, heap <- x5,
    closed <- x6, inFlight <- x7, delivered <- x8, dead <- x9, at <- x10,
    job <- x11, scan <- x12, pub <- x13, call <- x14, accepted <- x15,
    finished <- x16, discarded <- x17, retired <- x18, Sub <- {"s1", "s2"},
    Key <- {"k1"}, Topic <- {"top"}, KeyOf <- [s \in {"s1", "s2"} |-> "k1"],
    TopicOf <- "k1" :> "top", Message <- {"m1", "m2"},
    PriorityOf <- [m \in {"m1", "m2"} |-> 1],
    Accepts <- [s \in {"s1", "s2"} |-> {"m1", "m2"}], Publisher <- {"p1"},
    Caller <- {"c1"}, Runner <- {"r1"}, MayStart <- FALSE,
    MayUnsubscribe <- [s \in {"s1", "s2"} |-> {}], MaxQueue <- 1, MaxAttempts <- 2

\* Two hosts, two workers and a budget of three pages; the crawl may be
\* cancelled or aborted.
Crawl == INSTANCE WebCrawler WITH
    seen <- x1, frontier <- x2, inFlight <- x3, dispatched <- x4,
    coordinator <- x5, err <- x6, cancelled <- x7, worker <- x8, robots <- x9,
    next <- x10, now <- x11, done <- x12, Url <- {"a", "b", "c", "d", "x"},
    Seeds <- <<"a", "x">>, Filtered <- {"x"},
    HostOf <- "d" :> "h2" @@ [u \in {"a", "b", "c", "x"} |-> "h1"],
    Path <- [u \in {"a", "b", "c", "d", "x"} |-> <<u>>],
    Links <- "a" :> <<"b", "c", "a">> @@ "b" :> <<"d", "a">> @@ "c" :> <<"b", "x">> @@ "d" :> <<"a">>,
    Robots <- {File(<<Rule(<<"c">>, FALSE)>>, 1)}, Worker <- {"w1", "w2"},
    MaxDepth <- 2, MaxPages <- 3, PerHostDelay <- 0, MayCancel <- TRUE,
    MayAbort <- TRUE, MaxTime <- 1

\* One worker and every robots.txt.
Alone == INSTANCE WebCrawler WITH
    seen <- x1, frontier <- x2, inFlight <- x3, dispatched <- x4,
    coordinator <- x5, err <- x6, cancelled <- x7, worker <- x8, robots <- x9,
    next <- x10, now <- x11, done <- x12, Url <- Site.url, Seeds <- <<"p1">>,
    Filtered <- {}, HostOf <- [u \in Site.url |-> "host"], Path <- Site.path,
    Links <- Site.links, Robots <- Files, Worker <- {"w1"}, MaxDepth <- 3,
    MaxPages <- 0, PerHostDelay <- 0, MayCancel <- FALSE, MayAbort <- FALSE,
    MaxTime <- 0

\* The exercises: every input up to a length.
Arrays == INSTANCE SequenceAlgorithms WITH
    nums <- x1, answer <- x2, Topic <- "arrays", Number <- -1..2, MaxLen <- 5

\* Longer ones, for the windows.
Long == INSTANCE SequenceAlgorithms WITH
    nums <- x1, answer <- x2, Topic <- "arrays", Number <- -1..0, MaxLen <- 7

Containers == INSTANCE ContainerAlgorithms WITH
    nums <- x1, answer <- x2, Number <- 0..3, MaxLen <- 5

Sorting == INSTANCE NumberAlgorithms WITH
    nums <- x1, answer <- x2, Number <- 0..2, MaxLen <- 5

Chosen == INSTANCE SequenceAlgorithms WITH
    nums <- x1, answer <- x2, Topic <- "choices", Number <- 0..3, MaxLen <- 5

Paths == INSTANCE GraphAlgorithms WITH
    edges <- x1, answer <- x2, N <- 3, Weight <- {1, 3}, MaxLen <- 3

Numbers == INSTANCE NumberAlgorithms WITH
    nums <- x1, answer <- x2, Number <- 0..5, MaxLen <- 3
----------------------------------------------------------------------------
\* The slots from the i-th on.
Rest19 == <<x19, x20>>
Rest18 == <<x18, Rest19>>
Rest13 == <<x13, x14, x15, x16, x17, Rest18>>
Rest12 == <<x12, Rest13>>
Rest11 == <<x11, Rest12>>
Rest10 == <<x10, Rest11>>
Rest8 == <<x8, x9, Rest10>>
Rest7 == <<x7, Rest8>>
Rest3 == <<x3, x4, x5, x6, Rest7>>
Rest1 == <<x1, x2, Rest3>>

Blank19 == x19 = None /\ x20 = None
Blank18 == x18 = None /\ Blank19
Blank13 == x13 = None /\ x14 = None /\ x15 = None /\ x16 = None /\ x17 = None /\ Blank18
Blank12 == x12 = None /\ Blank13
Blank11 == x11 = None /\ Blank12
Blank10 == x10 = None /\ Blank11
Blank8 == x8 = None /\ x9 = None /\ Blank10
Blank7 == x7 = None /\ Blank8
Blank3 == x3 = None /\ x4 = None /\ x5 = None /\ x6 = None /\ Blank7
Blank1 == x1 = None /\ x2 = None /\ Blank3

allVars == <<focus, vars, Rest1>>

MCInit ==
    /\ Init
    /\ \/ focus = "count" /\ Blank1
       \/ focus = "seconds" /\ Seconds!Init
       \/ focus = "engine" /\ Engine!Init /\ Blank7
       \/ focus = "jobs" /\ Jobs!Init /\ Blank18
       \/ focus = "chain" /\ Chain!Init /\ Blank18
       \/ focus = "recurring" /\ Recurring!Init /\ Blank18
       \/ focus = "notices" /\ Notices!Init /\ Blank11
       \/ focus = "retries" /\ Retries!Init /\ Blank11
       \/ focus = "positions" /\ Positions!Init /\ Blank11
       \/ focus = "levels" /\ Levels!Init /\ Blank7
       \/ focus = "log" /\ Logs!Init /\ Blank12
       \/ focus = "blocking" /\ Blocking!Init /\ Blank12
       \/ focus = "limits" /\ Limits!Init /\ Blank8
       \/ focus = "evict" /\ Evicting!Init /\ Blank12
       \/ focus = "load" /\ Loading!Init /\ Blank12
       \/ focus = "search" /\ Index!Init /\ Blank10
       \/ focus = "broker" /\ Broker!Init /\ Blank19
       \/ focus = "crawl" /\ Crawl!Init /\ Blank13
       \/ focus = "rules" /\ Alone!Init /\ Blank13
       \/ focus = "arrays" /\ Arrays!Init /\ Blank3
       \/ focus = "long" /\ Long!Init /\ Blank3
       \/ focus = "containers" /\ Containers!Init /\ Blank3
       \/ focus = "sorting" /\ Sorting!Init /\ Blank3
       \/ focus = "choices" /\ Chosen!Init /\ Blank3
       \/ focus = "graphs" /\ Paths!Init /\ Blank3
       \/ focus = "numbers" /\ Numbers!Init /\ Blank3

Within(f) == focus = f /\ UNCHANGED focus

MCNext ==
    \/ Within("count") /\ Next /\ UNCHANGED Rest1
    \/ Within("seconds") /\ Seconds!Next /\ UNCHANGED vars
    \/ Within("engine") /\ Engine!Next /\ UNCHANGED <<vars, Rest7>>
    \/ Within("jobs") /\ Jobs!Next /\ UNCHANGED <<vars, Rest18>>
    \/ Within("chain") /\ Chain!Next /\ UNCHANGED <<vars, Rest18>>
    \/ Within("recurring") /\ Recurring!Next /\ UNCHANGED <<vars, Rest18>>
    \/ Within("notices") /\ Notices!Next /\ UNCHANGED <<vars, Rest11>>
    \/ Within("retries") /\ Retries!Next /\ UNCHANGED <<vars, Rest11>>
    \/ Within("positions") /\ Positions!Next /\ UNCHANGED <<vars, Rest11>>
    \/ Within("levels") /\ Levels!Next /\ UNCHANGED <<vars, Rest7>>
    \/ Within("log") /\ Logs!Next /\ UNCHANGED <<vars, Rest12>>
    \/ Within("blocking") /\ Blocking!Next /\ UNCHANGED <<vars, Rest12>>
    \/ Within("limits") /\ Limits!Next /\ UNCHANGED <<vars, Rest8>>
    \/ Within("evict") /\ Evicting!Next /\ UNCHANGED <<vars, Rest12>>
    \/ Within("load") /\ Loading!Next /\ UNCHANGED <<vars, Rest12>>
    \/ Within("search") /\ Index!Next /\ UNCHANGED <<vars, Rest10>>
    \/ Within("broker") /\ Broker!Next /\ UNCHANGED <<vars, Rest19>>
    \/ Within("crawl") /\ Crawl!Next /\ UNCHANGED <<vars, Rest13>>
    \/ Within("rules") /\ Alone!Next /\ UNCHANGED <<vars, Rest13>>
    \/ Within("arrays") /\ Arrays!Next /\ UNCHANGED <<vars, Rest3>>
    \/ Within("long") /\ Long!Next /\ UNCHANGED <<vars, Rest3>>
    \/ Within("containers") /\ Containers!Next /\ UNCHANGED <<vars, Rest3>>
    \/ Within("sorting") /\ Sorting!Next /\ UNCHANGED <<vars, Rest3>>
    \/ Within("choices") /\ Chosen!Next /\ UNCHANGED <<vars, Rest3>>
    \/ Within("graphs") /\ Paths!Next /\ UNCHANGED <<vars, Rest3>>
    \/ Within("numbers") /\ Numbers!Next /\ UNCHANGED <<vars, Rest3>>

MCSpec == MCInit /\ [][MCNext]_allVars
----------------------------------------------------------------------------
\* What the theorems assume of the parameters.
ASSUME BreakerParams == Params /\ Seconds!Params
ASSUME TreeParams == Levels!Params

\* Two workers on the same site.
Crowd == INSTANCE WebCrawler WITH
    seen <- x1, frontier <- x2, inFlight <- x3, dispatched <- x4,
    coordinator <- x5, err <- x6, cancelled <- x7, worker <- x8, robots <- x9,
    next <- x10, now <- x11, done <- x12, Url <- Site.url, Seeds <- <<"p1">>,
    Filtered <- {}, HostOf <- [u \in Site.url |-> "host"], Path <- Site.path,
    Links <- Site.links, Robots <- {}, Worker <- {"w1", "w2"}, MaxDepth <- 3,
    MaxPages <- 0, PerHostDelay <- 0, MayCancel <- FALSE, MayAbort <- FALSE,
    MaxTime <- 0

CrowdSpec ==
    /\ focus = "crowd" /\ Init /\ Crowd!Init /\ Blank13
    /\ [][Within("crowd") /\ Crowd!Next /\ UNCHANGED <<vars, Rest13>>]_allVars
----------------------------------------------------------------------------
Holds(f, P) == focus = f => P

\* What was taken on is in one place and is done once.  job_scheduler.py: every
\* job is where its status says, runs after its dependencies, and a recurring
\* one keeps its beat.  notification_service.py: a key, and a content within its
\* window, is told once, a delivery is queued or being sent and not both, and
\* the rate is kept.  logging_framework.py, AsyncHandler: every record
\* put before close is done with the queue is queued, written or counted as
\* dropped, and a clean close has drained.  pub_sub_system.py: every accepted message is in one place, and
\* what wait_idle waits for means that all are settled.  web_crawler.go, Crawl: a
\* URL is queued, with a worker or reported, once, and none is missing at the
\* end.
WorkDoneOnce ==
    /\ Holds("jobs", Jobs!TypeOK /\ Jobs!EveryJobSomewhere /\ Jobs!DependenciesHold)
    /\ Holds("chain", Chain!TypeOK /\ Chain!EveryJobSomewhere /\ Chain!DependenciesHold)
    /\ Holds("recurring", Recurring!TypeOK /\ Recurring!EveryJobSomewhere /\ Recurring!RecurringExact)
    /\ Holds("notices", Notices!TypeOK /\ Notices!ToldOnce /\ Notices!DeliveryInOnePlace /\ Notices!RateKept)
    /\ Holds("retries", Retries!TypeOK /\ Retries!ToldOnce /\ Retries!DeliveryInOnePlace /\ Retries!RateKept)
    /\ Holds("log", Logs!TypeOK /\ Logs!RecordsAccounted /\ Logs!DrainedOnClose)
    /\ Holds("blocking", Blocking!TypeOK /\ Blocking!RecordsAccounted /\ Blocking!DrainedOnClose)
    /\ Holds("broker", Broker!TypeOK /\ Broker!Conservation /\ Broker!IdleMeansSettled)
    /\ Holds("crawl", Crawl!TypeOK /\ Crawl!CrawledOnce)
    /\ Holds("rules", Alone!TypeOK /\ Alone!CrawledOnce)

\* What is derived agrees with what it is derived from.  circuit_breaker.py,
\* TimeBasedWindow: the buckets count the calls of the last seconds.
\* order_matching_engine.py: book, levels and heaps agree, trades go by price
\* and then by time, and the book is what a replay of the journal makes.
\* cab_booking.py: the index ends where the newest reading says.
\* logging_framework.py: a cached level is the effective one.  rate_limiter.py:
\* no window lets more through than the rule, retry_after is exact, and what is
\* forgotten is as good as new.  lru_cache.py: lists, map and expiry heap hold
\* the same entries, and one caller loads.  search_platform.py: the index is
\* that of the documents, and a query finds what it describes.
ViewsExact ==
    /\ Holds("seconds", /\ Seconds!TypeOK /\ Seconds!BreakerExact
                        /\ Seconds!OutageRetriesBounded)
    /\ Holds("engine", Engine!TypeOK /\ Engine!BookSound /\ Engine!PriceTimePriority /\ Engine!JournalIsBook)
    /\ Holds("positions", Positions!TypeOK /\ Positions!PositionsConverge)
    /\ Holds("levels", Levels!TypeOK /\ Levels!CacheFresh /\ Levels!TreeClosed)
    /\ Holds("limits", Limits!TypeOK /\ Limits!RateBounded /\ Limits!RetryAfterExact /\ Limits!IdleIsFresh)
    /\ Holds("evict", Evicting!TypeOK /\ Evicting!ListsMatchMap /\ Evicting!ExpiryCovered)
    /\ Holds("load", Loading!TypeOK /\ Loading!ListsMatchMap /\ Loading!ExpiryCovered /\ Loading!SingleFlight)
    /\ Holds("search", Index!TypeOK /\ Index!IndexIsDocs /\ Index!SearchExact)

\* web_crawler.go.  Allowed and wildcardMatch: a URL comes back as disallowed iff
\* the longest matching rule says so, where a match is any choice of places for
\* the pieces.  Crawl with one worker: every URL within MaxDepth links is visited,
\* at its distance.
CrawlsRight ==
    /\ Holds("crawl", Crawl!RobotsObeyed)
    /\ Holds("rules", Alone!RobotsObeyed /\ Alone!BreadthFirst)

\* web_crawler.go, the comment of Crawl, "runs a breadth-first crawl from seeds",
\* with two workers.
BreadthFirstTogether == Crowd!BreadthFirst

\* python-dsa.  Arrays, strings, stacks, hashing, windows, sorting and searching:
\* each one-pass, two-pointer, stack or table solution returns what the
\* definition of its problem says.  Greedy, dynamic programming, graphs,
\* mathematics and bits: what a greedy choice, a table or a search returns is
\* the best of all candidates, and the shortcuts compute what they stand for.
SolutionsRight ==
    /\ Holds("arrays", Arrays!ArraysRight /\ Arrays!WindowsRight)
    /\ Holds("long", Long!ArraysRight /\ Long!WindowsRight)
    /\ Holds("containers", Containers!StringsRight /\ Containers!StackUsesRight /\ Containers!HashingRight)
    /\ Holds("sorting", Sorting!SortingRight) /\ Holds("numbers", Numbers!SortingRight)
    /\ Holds("choices", Chosen!GreedyRight /\ Chosen!TablesRight)
    /\ Holds("numbers", Numbers!NumbersRight) /\ Holds("sorting", Sorting!NumbersRight)
    /\ Holds("graphs", Paths!GraphsRight)

\* lru_cache.py, put: a live entry is pushed out only when no dead one is there,
\* and it is the one the policy names.  notification_service.py, process_next:
\* nothing but critical messages is begun in quiet hours.
StepsRight ==
    [][/\ focus = "evict" => Evicting!EvictsTheRightOne
       /\ focus = "load" => Loading!EvictsTheRightOne
       /\ focus = "notices" => Notices!QuietKept
       /\ focus = "retries" => Retries!QuietKept]_allVars
=============================================================================
