--------------------------- MODULE GraphAlgorithms ---------------------------
(***************************************************************************)
(* src/python-dsa/08_graphs/questions.py. A list of weighted edges grows   *)
(* edge by edge; it is read as courses, as flights, as unions, as cells of *)
(* a grid, as points and as words, and the demo calls every solution on    *)
(* it. A recursive dfs is a stack of the calls to make, the next one       *)
(* first.                                                                  *)
(***************************************************************************)
EXTENDS Loops

CONSTANTS N, Weight, MaxLen, None

VARIABLES edges, answer     \* <<from, to, weight>>s, and what the demo prints for them

Init == edges = <<>> /\ answer = None

\* The callers: any list of edges up to MaxLen.
Grow == /\ answer = None /\ Len(edges) < MaxLen
        /\ \E u, v \in 1..N, w \in Weight : edges' = Append(edges, <<u, v, w>>)
        /\ UNCHANGED answer

Inf == 1000
Beside(c) == <<<<c[1] + 1, c[2]>>, <<c[1] - 1, c[2]>>, <<c[1], c[2] + 1>>, <<c[1], c[2] - 1>>>>
Cells(n) == [i \in 1..n * n |-> <<((i - 1) \div n) + 1, ((i - 1) % n) + 1>>]
----------------------------------------------------------------------------
\* The land that is left when the island around a cell has been sunk.
sink(land, cell) ==
    LET step(s) == LET c == Head(s.calls)
                   IN  IF c \in s.land THEN [land |-> s.land \ {c}, calls |-> Beside(c) \o Tail(s.calls)]
                       ELSE [s EXCEPT !.calls = Tail(@)]
    IN  While(4 * Cardinality(land) + 1, LAMBDA s : s.calls # <<>>, step, [land |-> land, calls |-> <<cell>>]).land
num_islands(land, n) ==
    LET step(s, c) == IF c \in s.land THEN [land |-> sink(s.land, c), count |-> s.count + 1] ELSE s
    IN  FoldLeft(step, [land |-> land, count |-> 0], Cells(n)).count

\* 0 stands for the wildcard of a pattern.
Pattern(word, i) == [word EXCEPT ![i] = 0]
ladder_length(begin_word, end_word, word_list) ==
    LET neighbors(p) == SelectSeq(word_list, LAMBDA w : \E i \in DOMAIN w : Pattern(w, i) = p)
        step(s) == LET current == Head(s.queue)[1]
                       distance == Head(s.queue)[2]
                       around(t, i) == FoldLeft(LAMBDA x, w : IF w \in x.visited THEN x
                                                  ELSE [x EXCEPT !.visited = @ \union {w}, !.queue = Append(@, <<w, distance + 1>>)],
                                                t, neighbors(Pattern(current, i)))
                   IN  IF current = end_word THEN [s EXCEPT !.found = distance]
                       ELSE Over(1, Len(current), around, [s EXCEPT !.queue = Tail(@)])
    IN  IF end_word \notin Range(word_list) THEN 0
        ELSE While(Len(word_list) + 1, LAMBDA s : s.queue # <<>> /\ s.found = 0, step,
                   [queue |-> <<<<begin_word, 1>>>>, visited |-> {begin_word}, found |-> 0]).found

\* Kahn's algorithm: what comes after each node, and from how many it comes.
kahn(nodes, after, in_degree) ==
    LET reach(s, v) == LET left == s.in_degree[v] - 1
                       IN  [s EXCEPT !.in_degree[v] = left, !.queue = IF left = 0 THEN Append(@, v) ELSE @]
        step(s) == LET c == Head(s.queue)
                   IN  FoldLeft(reach, [s EXCEPT !.queue = Tail(@), !.order = Append(@, c)], after[c])
    IN  While(Len(nodes), LAMBDA s : s.queue # <<>>, step,
              [in_degree |-> in_degree, order |-> <<>>, queue |-> SelectSeq(nodes, LAMBDA c : in_degree[c] = 0)]).order
\* Prerequisites <<course, prereq>>.
Courses(num_courses, prerequisites) ==
    LET needing(c) == SelectSeq(prerequisites, LAMBDA p : p[2] = c)
    IN  kahn([c \in 1..num_courses |-> c],
             [c \in 1..num_courses |-> [i \in DOMAIN needing(c) |-> needing(c)[i][1]]],
             [c \in 1..num_courses |-> Cardinality({i \in DOMAIN prerequisites : prerequisites[i][1] = c})])
can_finish(num_courses, prerequisites) == Len(Courses(num_courses, prerequisites)) = num_courses
find_order(num_courses, prerequisites) ==
    IF can_finish(num_courses, prerequisites) THEN Courses(num_courses, prerequisites) ELSE <<>>

\* A graph gives each node the sequence of its neighbors; a clone is named by
\* its original.  A call in hand is a node and how far it is in its neighbors.
clone_graph(graph, node) ==
    LET step(s) == LET u == Head(s.calls)[1]
                       i == Head(s.calls)[2]
                       rest == <<<<u, i + 1>>>> \o Tail(s.calls)
                   IN  IF i > Len(graph[u]) THEN [s EXCEPT !.calls = Tail(@)]
                       ELSE LET v == graph[u][i]
                                clones == [s.clones EXCEPT ![u] = Append(@, v)]
                            IN  IF v \in DOMAIN s.clones THEN [clones |-> clones, calls |-> rest]
                                ELSE [clones |-> Set(clones, v, <<>>), calls |-> <<<<v, 1>>>> \o rest]
        entries == MapThenSumSet(LAMBDA u : Len(graph[u]) + 1, DOMAIN graph)
    IN  While(entries, LAMBDA s : s.calls # <<>>, step, [clones |-> (node :> <<>>), calls |-> <<<<node, 1>>>>]).clones

\* Dijkstra's algorithm; -1 when a node is out of reach.
network_delay_time(times, n, k) ==
    LET relax(s, t) == LET d == s.dist[t[1]] + t[3]
                       IN  IF d < s.dist[t[2]] THEN [dist |-> [s.dist EXCEPT ![t[2]] = d], pq |-> s.pq \union {<<d, t[2]>>}] ELSE s
        step(s) == LET x == CHOOSE x \in s.pq : \A y \in s.pq : x[1] < y[1] \/ (x[1] = y[1] /\ x[2] <= y[2])
                       popped == [s EXCEPT !.pq = @ \ {x}]
                   IN  IF x[1] > s.dist[x[2]] THEN popped
                       ELSE FoldLeft(relax, popped, SelectSeq(times, LAMBDA t : t[1] = x[2]))
        dist == While(Len(times) + 1, LAMBDA s : s.pq # {}, step,
                      [dist |-> [v \in 1..n |-> IF v = k THEN 0 ELSE Inf], pq |-> {<<0, k>>}]).dist
    IN  IF Max(Range(dist)) = Inf THEN -1 ELSE Max(Range(dist))

UnionFind(n) == [parent |-> [x \in 1..n |-> x], rank |-> [x \in 1..n |-> 0], components |-> n]
\* The nodes from x up to its root, and find with its path compression.
Way(uf, x) == While(Len(uf.parent), LAMBDA w : uf.parent[Last(w)] # Last(w), LAMBDA w : Append(w, uf.parent[Last(w)]), <<x>>)
Root(uf, x) == Last(Way(uf, x))
Compressed(uf, way) == [uf EXCEPT !.parent = FoldLeft(LAMBDA p, y : Set(p, y, Last(way)), @, way)]
find(uf, x) == Compressed(uf, Way(uf, x))
\* The root with the lower rank goes under the other one.
Under(uf, a, b) == [uf EXCEPT !.parent[a] = b, !.components = @ - 1]
Joined(uf, rx, ry) ==
    IF rx = ry THEN uf
    ELSE IF uf.rank[rx] < uf.rank[ry] THEN Under(uf, rx, ry)
    ELSE IF uf.rank[rx] > uf.rank[ry] THEN Under(uf, ry, rx)
    ELSE [Under(uf, ry, rx) EXCEPT !.rank[rx] = @ + 1]
JoinedRoots(uf, x, y) == Joined(uf, Root(uf, x), Root(uf, y))
union(uf, x, y) == JoinedRoots(find(find(uf, x), y), x, y)
connected(uf, x, y) == Root(uf, x) = Root(find(uf, x), y)
find_circle_num(is_connected, n) ==
    LET row(uf, i) == Over(i + 1, n, LAMBDA u, j : IF <<i, j>> \in is_connected THEN union(u, i, j) ELSE u, uf)
    IN  Over(1, n, row, UnionFind(n)).components

\* The cells an ocean floods uphill from its shore.
Flooded(heights, shore) ==
    LET step(s) == LET c == Head(s.calls)
                       up == SelectSeq(Beside(c), LAMBDA d : d \in DOMAIN heights /\ heights[d] >= heights[c])
                   IN  IF c \in s.ocean THEN [s EXCEPT !.calls = Tail(@)]
                       ELSE [ocean |-> s.ocean \union {c}, calls |-> up \o Tail(s.calls)]
    IN  While(5 * Cardinality(DOMAIN heights) + Len(shore), LAMBDA s : s.calls # <<>>, step, [ocean |-> {}, calls |-> shore]).ocean
pacific_atlantic(heights, n) ==
    LET pacific == Flooded(heights, [c \in 1..n |-> <<1, c>>] \o [r \in 1..n |-> <<r, 1>>])
        atlantic == Flooded(heights, [c \in 1..n |-> <<n, c>>] \o [r \in 1..n |-> <<r, n>>])
    IN  SelectSeq(Cells(n), LAMBDA c : c \in pacific /\ c \in atlantic)

\* The first letters in which two neighbouring words differ.
Differs(w1, w2) == {j \in 1..Smaller(Len(w1), Len(w2)) : w1[j] # w2[j]}
\* "" is the empty sequence.
alien_order(words) ==
    LET pairs == {<<words[i], words[i + 1]>> : i \in 1..Len(words) - 1}
        invalid == \E p \in pairs : Len(p[1]) > Len(p[2]) /\ Differs(p[1], p[2]) = {}
        before == {<<p[1][Min(Differs(p[1], p[2]))], p[2][Min(Differs(p[1], p[2]))]>> : p \in {q \in pairs : Differs(q[1], q[2]) # {}}}
        letters == UNION {Range(words[i]) : i \in DOMAIN words}
        order == kahn(SetToSeq(letters), [c \in letters |-> SetToSeq({d \in letters : <<c, d>> \in before})],
                      [c \in letters |-> Cardinality({b \in letters : <<b, c>> \in before})])
    IN  IF invalid \/ Len(order) # Cardinality(letters) THEN <<>> ELSE order

\* Bellman and Ford, k + 1 rounds.
find_cheapest_price(n, flights, src, dst, k) ==
    LET round(prices, i) == FoldLeft(LAMBDA nxt, f : IF prices[f[1]] # Inf /\ prices[f[1]] + f[3] < nxt[f[2]]
                                                     THEN [nxt EXCEPT ![f[2]] = prices[f[1]] + f[3]] ELSE nxt, prices, flights)
        prices == Over(0, k, round, [v \in 1..n |-> IF v = src THEN 0 ELSE Inf])
    IN  IF prices[dst] = Inf THEN -1 ELSE prices[dst]

\* Prim's algorithm over the distances of points in city blocks.
Blocks(p, q) == Abs(p[1] - q[1]) + Abs(p[2] - q[2])
min_cost_connect_points(points) ==
    LET step(s, i) == LET out == DOMAIN points \ s.in_tree
                          u == CHOOSE x \in out : \A y \in out : s.min_cost[x] < s.min_cost[y] \/ (s.min_cost[x] = s.min_cost[y] /\ x <= y)
                      IN  [in_tree |-> s.in_tree \union {u}, total |-> s.total + s.min_cost[u],
                           min_cost |-> [v \in DOMAIN points |-> IF v \in out \ {u} THEN Smaller(s.min_cost[v], Blocks(points[u], points[v]))
                                                                 ELSE s.min_cost[v]]]
    IN  IF Len(points) <= 1 THEN 0
        ELSE Over(1, Len(points), step, [in_tree |-> {}, total |-> 0,
                                         min_cost |-> [v \in DOMAIN points |-> IF v = 1 THEN 0 ELSE Inf]]).total
----------------------------------------------------------------------------
\* The inputs made of a list of edges: prerequisites or words of two letters, the
\* neighbors of each node, points, words of one or two letters, land and heights.
Pairs(es) == [i \in DOMAIN es |-> <<es[i][1], es[i][2]>>]
Steps(es) == Range(Pairs(es))
Both(R) == R \union {<<e[2], e[1]>> : e \in R}
Neighbors(es) == [u \in 1..N |-> LET out == SelectSeq(es, LAMBDA e : e[1] = u) IN [i \in DOMAIN out |-> out[i][2]]]
Points(es) == [i \in DOMAIN es |-> <<es[i][1] * es[i][3], es[i][2]>>]
Words(es) == [i \in DOMAIN es |-> IF es[i][3] = 1 THEN <<es[i][1], es[i][2]>> ELSE <<es[i][1]>>]
Lands(es) == {Steps(es), Range(Cells(N)) \ Steps(es)}
Heights(es) == FoldLeft(LAMBDA h, e : Set(h, <<e[1], e[2]>>, h[e[1], e[2]] + e[3]),
                        [c \in Range(Cells(N)) |-> (c[1] * c[2]) % 3], es)
Unions(es) == FoldLeft(LAMBDA u, e : union(u, e[1], e[2]), UnionFind(N), es)
\* A grid is the same whatever the order of the edges: one of them is enough.
Ordered(es) == \A i \in 1..Len(es) - 1 : 100 * es[i][1] + 10 * es[i][2] + es[i][3] <= 100 * es[i + 1][1] + 10 * es[i + 1][2] + es[i + 1][3]

Orders(es) ==
    [can_finish |-> can_finish(N, Pairs(es)), find_order |-> find_order(N, Pairs(es)),
     clone_graph |-> [u \in 1..N |-> clone_graph(Neighbors(es), u)],
     ladder_length |-> [w \in Steps(es) |-> ladder_length(<<1, 1>>, w, Pairs(es))],
     alien_order |-> When(es # <<>>, alien_order(Words(es)))]

Distances(es) ==
    [network_delay_time |-> [u \in 1..N |-> network_delay_time(es, N, u)],
     find_cheapest_price |-> [v \in 1..N |-> [k \in 0..1 |-> find_cheapest_price(N, es, 1, v, k)]],
     min_cost_connect_points |-> min_cost_connect_points(Points(es))]

Parts(es, uf) ==
    [uf |-> uf, connected |-> [x \in 1..N |-> [y \in 1..N |-> connected(uf, x, y)]],
     find_circle_num |-> find_circle_num(Both(Steps(es)), N),
     num_islands |-> [land \in Lands(es) |-> When(Ordered(es), num_islands(land, N))],
     pacific_atlantic |-> When(Ordered(es), pacific_atlantic(Heights(es), N))]

\* Calls every solution, with each of its parameters.
demo ==
    /\ answer = None
    /\ answer' = [orders |-> Orders(edges), distances |-> Distances(edges), parts |-> Parts(edges, Unions(edges))]
    /\ UNCHANGED edges

Next == Grow \/ demo
----------------------------------------------------------------------------
\* What the problems ask for: what a relation reaches, and routes that pass no
\* node twice.
Reached(S, R, x) == While(Cardinality(S), LAMBDA T : \E d \in R : d[1] \in T /\ d[2] \notin T, LAMBDA T : T \union {e[2] : e \in {d \in R : d[1] \in T}}, {x})
Classes(S, R) == {Reached(S, Both(R), x) : x \in S}
Routes(S) == UNION {{p \in [1..k -> S] : IsInjective(p)} : k \in 1..Cardinality(S)}
Linked(p, R) == \A i \in 1..Len(p) - 1 : <<p[i], p[i + 1]>> \in R
Least(S) == IF S = {} THEN -1 ELSE Min(S)
Cheapest(es, e) == Min({es[i][3] : i \in {j \in DOMAIN es : <<es[j][1], es[j][2]>> = e}})
Cost(es, p) == Total([i \in 1..Len(p) - 1 |-> Cheapest(es, <<p[i], p[i + 1]>>)])
\* The ends, the length and the price of every route.
Fares(es) == {<<q[1], Last(q), Len(q), Cost(es, q)>> : q \in {p \in Routes(1..N) : Linked(p, Steps(es))}}
Between(fares, u, v, most) == {f[4] : f \in {g \in fares : g[1] = u /\ g[2] = v /\ g[3] <= most}}
\* Whether an order of the letters sorts two words, as a dictionary does.
InOrder(order, w1, w2) ==
    IF Differs(w1, w2) = {} THEN Len(w1) <= Len(w2)
    ELSE LET j == Min(Differs(w1, w2))
         IN  \E a, b \in DOMAIN order : a < b /\ order[a] = w1[j] /\ order[b] = w2[j]
Sorts(order, words) == \A i \in 1..Len(words) - 1 : InOrder(order, words[i], words[i + 1])

\* Orders and copies: a schedule exists iff no course needs itself, and a copy has the
\* nodes and the lists of what its node reaches.
OrdersRight(es, got) ==
    LET R == Steps(es)
        order == got.find_order
    IN  /\ got.can_finish = \A u \in 1..N : \A e \in R : e[1] = u => u \notin Reached(1..N, R, e[2])
        /\ IF got.can_finish
           THEN /\ Len(order) = N /\ Range(order) = 1..N
                /\ \A e \in R : \E i, j \in 1..N : i < j /\ order[i] = e[2] /\ order[j] = e[1]
           ELSE order = <<>>
        /\ \A u \in 1..N : got.clone_graph[u] = [v \in Reached(1..N, R, u) |-> Neighbors(es)[v]]

\* Words: the shortest ladder, and an alphabet iff one sorts the words.
WordsRight(es, got) ==
    LET words == Steps(es)
        close == {d \in (words \union {<<1, 1>>}) \X words : \E i \in 1..2 : Pattern(d[1], i) = Pattern(d[2], i)}
        climbs == {p \in Routes(words \union {<<1, 1>>}) : p[1] = <<1, 1>> /\ Linked(p, close)}
        letters == UNION {Range(Words(es)[i]) : i \in DOMAIN es}
        orders == {p \in [1..Cardinality(letters) -> letters] : IsInjective(p)}
    IN  /\ \A w \in words : got.ladder_length[w] = Larger(0, Least({Len(p) : p \in {q \in climbs : Last(q) = w}}))
        /\ es # <<>> => IF \E o \in orders : Sorts(o, Words(es))
                        THEN got.alien_order \in orders /\ Sorts(got.alien_order, Words(es))
                        ELSE got.alien_order = <<>>

\* Routes: the delay to the last node, the price within some stops and the length of
\* the net that joins all points are the least there are.
DistancesRight(es, got) ==
    LET fares == Fares(es)
        nearest(u) == {Least(Between(fares, u, v, N)) : v \in 1..N}
        points == Points(es)
        pairs == {d \in (DOMAIN es) \X (DOMAIN es) : d[1] < d[2]}
        nets == {F \in SUBSET pairs : Cardinality(Classes(DOMAIN es, F)) <= 1}
    IN  /\ \A u \in 1..N : got.network_delay_time[u] = IF -1 \in nearest(u) THEN -1 ELSE Max(nearest(u))
        /\ \A v \in 1..N, k \in 0..1 : got.find_cheapest_price[v][k] = Least(Between(fares, 1, v, k + 2))
        /\ got.min_cost_connect_points =
              Min({MapThenSumSet(LAMBDA d : Blocks(points[d[1]], points[d[2]]), F) : F \in nets})

\* Parts: the trees of union-find, and provinces, are the classes of what is joined, and
\* the ranks grow towards the roots.
PartsRight(es, got) ==
    LET uf == got.uf
        R == Steps(es)
    IN  /\ \A x, y \in 1..N : got.connected[x][y] = (y \in Reached(1..N, Both(R), x))
        /\ \A x \in 1..N : uf.parent[x] # x => uf.rank[x] < uf.rank[uf.parent[x]]
        /\ uf.components = Cardinality(Classes(1..N, R)) /\ got.find_circle_num = uf.components

\* Grids: islands are the classes of land that touches, and water gets to both oceans
\* downhill.
GridsRight(es, got) ==
    LET cells == Range(Cells(N))
        touching(S) == UNION {{<<c, d>> : d \in S \intersect Range(Beside(c))} : c \in S}
        heights == Heights(es)
        down == {d \in touching(cells) : heights[d[2]] <= heights[d[1]]}
        flows == {<<c, Reached(cells, down, c)>> : c \in cells}
    IN  /\ \A land \in Lands(es) : got.num_islands[land] = Cardinality(Classes(land, touching(land)))
        /\ Range(got.pacific_atlantic) =
              {f[1] : f \in {g \in flows : /\ \E d \in g[2] : d[1] = 1 \/ d[2] = 1
                                          /\ \E d \in g[2] : d[1] = N \/ d[2] = N}}

\* 08_graphs, demo: every algorithm gives what its problem asks for.
GraphsRight == answer # None =>
    /\ OrdersRight(edges, answer.orders) /\ WordsRight(edges, answer.orders)
    /\ DistancesRight(edges, answer.distances) /\ PartsRight(edges, answer.parts)
    /\ Ordered(edges) => GridsRight(edges, answer.parts)
=============================================================================
