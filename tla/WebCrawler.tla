------------------------------ MODULE WebCrawler ------------------------------
(***************************************************************************)
(* Crawl of golang-low-level-design/web-crawler: one coordinator owns the  *)
(* frontier and hands jobs to workers over an unbuffered channel, workers  *)
(* ask robots.txt once per host, wait for the host's turn, fetch, and give *)
(* the result back over a second channel; the first error cancels all.     *)
(*                                                                         *)
(* URLs are normalised.  A page is fetched with its links, fetched as      *)
(* something else, or failed, whatever the network did.  The text of       *)
(* robots.txt is its group for this crawler: rules and a delay.  Paths and *)
(* patterns are sequences of characters.                                   *)
(***************************************************************************)
EXTENDS Integers, FiniteSets, Sequences, SequencesExt, FiniteSetsExt

CONSTANTS
    Url,           \* normalised URLs
    Seeds,         \* the seeds, in their order
    Filtered,      \* URLs some filter rejects
    HostOf,        \* the host of each URL
    Path,          \* the path of each URL
    Links,         \* the links on each page, in their order
    Robots,        \* the robots.txt a host may serve
    Worker,        \* Options.Workers goroutines
    MaxDepth,      \* Options.MaxDepth
    MaxPages,      \* Options.MaxPages
    PerHostDelay,  \* Options.PerHostDelay
    MayCancel,     \* the caller's context may end
    MayAbort,      \* OnPage may return an error
    MaxTime,       \* bound: ticks
    None

Host == {HostOf[u] : u \in Url}

VARIABLES
    seen, frontier,       \* the coordinator's set and queue
    inFlight, dispatched, \* and counters
    coordinator,          \* "select", "closed" (has closed jobs) or "gone"
    err,                  \* the error the coordinator returned
    cancelled,            \* the shared context is done
    worker,               \* where each worker is, and with what
    robots,               \* hostState.robots, None before the Once has run
    next,                 \* hostState.next
    now,
    done                  \* history: the results OnPage was called with

ownVars == <<seen, frontier, inFlight, dispatched, coordinator, err, done>>
vars == <<ownVars, cancelled, worker, robots, next, now>>

NoWork == [step |-> "receive", url |-> None, depth |-> 0, outcome |-> None, until |-> 0]
AllowAll == [disallowAll |-> FALSE, rules |-> <<>>, crawlDelay |-> 0]
DisallowAll == [AllowAll EXCEPT !.disallowAll = TRUE]

\* The closure admit of Crawl.
admit(s, u, depth) ==
    IF depth > MaxDepth \/ u \in Filtered \/ u \in s.seen THEN s
    ELSE [seen |-> s.seen \cup {u}, frontier |-> Append(s.frontier, [url |-> u, depth |-> depth])]
AdmitAll(s, links, depth) == FoldLeft(LAMBDA t, u : admit(t, u, depth), s, links)

Init ==
    /\ LET s == AdmitAll([seen |-> {}, frontier |-> <<>>], Seeds, 0)
       IN  seen = s.seen /\ frontier = s.frontier
    /\ inFlight = 0 /\ dispatched = 0 /\ done = <<>>
    /\ coordinator = "select" /\ err = None /\ cancelled = FALSE
    /\ worker = [w \in Worker |-> NoWork]
    /\ robots = [h \in Host |-> None] /\ next = [h \in Host |-> 0] /\ now = 0
----------------------------------------------------------------------------
\* wildcardMatch: the pieces between the stars, each at its first place.
Pieces(p) ==
    LET cuts == <<0>> \o SetToSortSeq({i \in DOMAIN p : p[i] = "*"}, <) \o <<Len(p) + 1>>
    IN  [k \in 1..Len(cuts) - 1 |-> SubSeq(p, cuts[k] + 1, cuts[k + 1] - 1)]
From(s, i) == SubSeq(s, i, Len(s))
After(s, piece) ==
    LET places == {i \in 1..Len(s) + 1 : IsPrefix(piece, From(s, i))}
    IN  IF s = None \/ places = {} THEN None ELSE From(s, Min(places) + Len(piece))
wildcardMatch(p, s, anchored) ==
    LET parts == Pieces(p)
        n == Len(parts)
        rest == From(s, Len(parts[1]) + 1)
        last == FoldLeft(After, rest, SubSeq(parts, 2, n - 1))
    IN  /\ IsPrefix(parts[1], s)
        /\ CASE n = 1 -> anchored => rest = <<>>
             [] last = None -> FALSE
             [] OTHER -> IF anchored THEN IsSuffix(parts[n], last) ELSE After(last, parts[n]) # None

Anchored(pattern) == pattern # <<>> /\ Last(pattern) = "$"
Body(pattern) == IF Anchored(pattern) THEN Front(pattern) ELSE pattern
robotsMatch(pattern, path) == wildcardMatch(Body(pattern), path, Anchored(pattern))

\* Fault: of two rules of one length the first wins.
AllowedFirst(r, path) ==
    LET step(s, rule) ==
            IF robotsMatch(rule.pattern, path) /\ Len(rule.pattern) > s.best
            THEN [best |-> Len(rule.pattern), allowed |-> rule.allow] ELSE s
    IN  ~r.disallowAll /\ FoldLeft(step, [best |-> -1, allowed |-> TRUE], r.rules).allowed

\* Robots.Allowed: the longest matching rule, the first or the allowing one of
\* those of one length.
Allowed(r, path) ==
    LET step(s, rule) ==
            LET l == Len(rule.pattern)
            IN  IF robotsMatch(rule.pattern, path) /\ (l > s.best \/ (l = s.best /\ rule.allow))
                THEN [best |-> l, allowed |-> rule.allow] ELSE s
    IN  ~r.disallowAll /\ FoldLeft(step, [best |-> -1, allowed |-> TRUE], r.rules).allowed
----------------------------------------------------------------------------
\* canSend: there is a job and the budget covers it.
canSend == frontier # <<>> /\ (MaxPages = 0 \/ dispatched < MaxPages)

\* Nothing to send and nothing in flight.
Exhausted == ~canSend /\ inFlight = 0

Selecting == coordinator = "select" /\ ~Exhausted

\* The coordinator sends a job that a worker receives.
Dispatch(w) ==
    /\ Selecting /\ canSend /\ worker[w].step = "receive"
    /\ worker' = [worker EXCEPT ![w] = [NoWork EXCEPT !.step = "robots", !.url = Head(frontier).url,
                                                      !.depth = Head(frontier).depth]]
    /\ frontier' = Tail(frontier)
    /\ inFlight' = inFlight + 1 /\ dispatched' = dispatched + 1
    /\ UNCHANGED <<seen, coordinator, err, done, cancelled, robots, next, now>>

\* A worker sends a result that the coordinator receives; OnPage may fail.
Deliver(w) ==
    LET job == worker[w]
        found == IF job.outcome = "page" THEN Links[job.url] ELSE <<>>
        s == AdmitAll([seen |-> seen, frontier |-> frontier], found, job.depth + 1)
    IN  /\ Selecting /\ job.step = "send"
        /\ inFlight' = inFlight - 1
        /\ seen' = s.seen /\ frontier' = s.frontier
        /\ done' = Append(done, [url |-> job.url, depth |-> job.depth, outcome |-> job.outcome])
        /\ worker' = [worker EXCEPT ![w] = NoWork]
        /\ \/ UNCHANGED <<coordinator, err>>
           \/ MayAbort /\ coordinator' = "closed" /\ err' = "OnPage"
        /\ UNCHANGED <<dispatched, cancelled, robots, next, now>>

\* The coordinator returns, which closes jobs: at the end or as ctx is done.
Return(e) ==
    /\ coordinator' = "closed" /\ err' = e
    /\ UNCHANGED <<seen, frontier, inFlight, dispatched, done, cancelled, worker, robots, next, now>>
Finish == coordinator = "select" /\ Exhausted /\ Return(None)
Stop == Selecting /\ cancelled /\ Return("ctx")

\* crawlGroup.Go: the first error cancels the context.
Exit ==
    /\ coordinator = "closed" /\ coordinator' = "gone"
    /\ cancelled' = (cancelled \/ err # None)
    /\ UNCHANGED <<seen, frontier, inFlight, dispatched, err, done, worker, robots, next, now>>
----------------------------------------------------------------------------
HostAt(w) == HostOf[worker[w].url]
Moves(w, step) == worker' = [worker EXCEPT ![w].step = step]
Result(w, outcome) == worker' = [worker EXCEPT ![w].step = "send", ![w].outcome = outcome]

\* robotsFor: one worker runs the Once, the others wait for it.
RobotsBegin(w) ==
    /\ worker[w].step = "robots" /\ robots[HostAt(w)] = None
    /\ ~\E v \in Worker : worker[v].step = "robots.txt" /\ HostAt(v) = HostAt(w)
    /\ Moves(w, "robots.txt") /\ UNCHANGED <<ownVars, cancelled, robots, next, now>>

\* The rules that were served; none for a 4xx; an error or a 5xx forbids all.
RobotsEnd(w) ==
    /\ worker[w].step = "robots.txt"
    /\ \E r \in Robots \cup {AllowAll, DisallowAll} : robots' = [robots EXCEPT ![HostAt(w)] = r]
    /\ Moves(w, "robots") /\ UNCHANGED <<ownVars, cancelled, next, now>>

\* process: may the URL be fetched?
Check(w) ==
    /\ worker[w].step = "robots" /\ robots[HostAt(w)] # None
    /\ IF Allowed(robots[HostAt(w)], Path[worker[w].url]) THEN Moves(w, "turn") ELSE Result(w, "disallowed")
    /\ UNCHANGED <<ownVars, cancelled, robots, next, now>>

\* waitTurn: claim the turn, or sleep until it comes and look again.
WaitTurn(w) ==
    LET h == HostAt(w)
    IN  /\ worker[w].step = "turn"
        /\ \/ /\ now >= next[h]
              /\ next' = [next EXCEPT ![h] = now + Max({PerHostDelay, robots[h].crawlDelay})]
              /\ Moves(w, "fetch")
           \/ /\ now < next[h] /\ UNCHANGED next
              /\ worker' = [worker EXCEPT ![w].step = "sleep", ![w].until = next[h]]
        /\ UNCHANGED <<ownVars, cancelled, robots, now>>

\* sleepUntil: the timer fires, or ctx is done.
SleepEnd(w) ==
    /\ worker[w].step = "sleep"
    /\ \/ now >= worker[w].until /\ worker' = [worker EXCEPT ![w].step = "turn", ![w].until = 0]
       \/ cancelled /\ worker' = [worker EXCEPT ![w].step = "send", ![w].outcome = "failed", ![w].until = 0]
    /\ UNCHANGED <<ownVars, cancelled, robots, next, now>>

\* Fetch and the extraction of links.
FetchEnd(w) ==
    /\ worker[w].step = "fetch"
    /\ \E outcome \in {"page", "other", "failed"} : Result(w, outcome)
    /\ UNCHANGED <<ownVars, cancelled, robots, next, now>>

\* The worker's loop ends: jobs is closed, or ctx is done and nobody takes the
\* result.
Leave(w) ==
    /\ \/ worker[w].step = "receive" /\ coordinator # "select"
       \/ worker[w].step = "send" /\ cancelled
    /\ worker' = [worker EXCEPT ![w] = [NoWork EXCEPT !.step = "gone"]]
    /\ UNCHANGED <<ownVars, cancelled, robots, next, now>>

\* The caller's context ends.
Cancel ==
    /\ MayCancel /\ ~cancelled /\ cancelled' = TRUE
    /\ UNCHANGED <<ownVars, worker, robots, next, now>>

Tick ==
    /\ now < MaxTime /\ now' = now + 1
    /\ UNCHANGED <<ownVars, cancelled, worker, robots, next>>

Coordinate == Finish \/ Stop \/ Exit \/ \E w \in Worker : Dispatch(w) \/ Deliver(w)
Work(w) == \/ RobotsBegin(w) \/ RobotsEnd(w) \/ Check(w) \/ WaitTurn(w)
           \/ SleepEnd(w) \/ FetchEnd(w) \/ Leave(w)
Next == Coordinate \/ (\E w \in Worker : Work(w)) \/ Cancel \/ Tick
----------------------------------------------------------------------------
Queued == {frontier[i].url : i \in DOMAIN frontier}
Busy == {w \in Worker : worker[w].url # None}
Held == {worker[w].url : w \in Busy}
Visited == {done[i].url : i \in DOMAIN done}
Returned == coordinator = "gone" /\ \A w \in Worker : worker[w].step = "gone"

\* The types of the crawl's state; the budget is never overdrawn.
TypeOK ==
    /\ seen \subseteq Url \ Filtered /\ inFlight \in 0..Cardinality(Worker)
    /\ dispatched \in Nat /\ (MaxPages > 0 => dispatched <= MaxPages)
    /\ coordinator \in {"select", "closed", "gone"} /\ err \in {None, "OnPage", "ctx"}
    /\ \A i \in DOMAIN frontier : frontier[i].depth \in 0..MaxDepth
    /\ next \in [Host -> Nat] /\ now \in 0..MaxTime

\* Crawl: every URL that was seen is queued, with one worker or handed to OnPage,
\* once and in one place; until something is cancelled inFlight counts the
\* workers' jobs and none is missing; a crawl that returns without an error has
\* handed over all, or all the budget allowed, whatever was cancelled.
CrawledOnce ==
    /\ Cardinality(Queued) = Len(frontier) /\ Cardinality(Held) = Cardinality(Busy)
    /\ Cardinality(Visited) = Len(done)
    /\ Queued \cap Held = {} /\ Queued \cap Visited = {} /\ Held \cap Visited = {}
    /\ Queued \cup Held \cup Visited \subseteq seen
    /\ coordinator = "select" => inFlight >= Cardinality(Busy) /\ dispatched = inFlight + Len(done)
    /\ coordinator = "select" /\ ~cancelled =>
          inFlight = Cardinality(Busy) /\ seen = Queued \cup Held \cup Visited
    /\ Returned /\ err = None => seen = Visited \/ Len(done) = MaxPages

\* A pattern matches a path if its pieces occur in it, in order and apart, the
\* first at the start and, if anchored, the last at the end.
Matches(pattern, path) ==
    LET parts == Pieces(Body(pattern))
        n == Len(parts)
    IN  \E at \in [1..n -> 1..Len(path) + 1] :
            /\ at[1] = 1
            /\ \A k \in 1..n : IsPrefix(parts[k], From(path, at[k]))
            /\ \A k \in 1..n - 1 : at[k] + Len(parts[k]) <= at[k + 1]
            /\ Anchored(pattern) => at[n] + Len(parts[n]) = Len(path) + 1

\* ParseRobots' rules, Allowed and wildcardMatch: exactly those URLs come back as
\* disallowed for which the longest rule that matches by any choice of places,
\* and no allowing one as long, says so.
RobotsObeyed ==
    \A i \in DOMAIN done :
        LET r == robots[HostOf[done[i].url]]
            applies == {k \in DOMAIN r.rules : Matches(r.rules[k].pattern, Path[done[i].url])}
            length(k) == Len(r.rules[k].pattern)
        IN  done[i].outcome = "disallowed" <=>
                \/ r.disallowAll
                \/ /\ applies # {}
                   /\ \A k \in applies : (\A j \in applies : length(j) <= length(k)) => ~r.rules[k].allow

\* The URLs that are at most n links away over the pages that were fetched.
Near[n \in Nat] ==
    IF n = 0 THEN ToSet(Seeds) \ Filtered
    ELSE Near[n - 1] \cup UNION {ToSet(Links[done[i].url]) \ Filtered :
                                   i \in {j \in DOMAIN done : done[j].outcome = "page" /\ done[j].url \in Near[n - 1]}}

\* Crawl, "runs a breadth-first crawl": at its end every URL at most MaxDepth
\* links away was visited, at its distance.
BreadthFirst ==
    Returned /\ err = None /\ MaxPages = 0 =>
        /\ Visited = Near[MaxDepth]
        /\ \A i \in DOMAIN done : \A n \in 0..MaxDepth : done[i].url \in Near[n] <=> done[i].depth <= n

\* What the caller of Crawl waits for, unless a turn lies beyond MaxTime.
Crawling == IF Returned \/ (\E w \in Worker : worker[w].until > MaxTime) THEN {} ELSE {"crawl"}
=============================================================================
