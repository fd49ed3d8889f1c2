------------------------- MODULE SequenceAlgorithms --------------------------
(***************************************************************************)
(* src/python-dsa: 01_arrays and 17_sliding_window, and 18_greedy and      *)
(* 09_dynamic_programming (questions.py).  An input grows number by        *)
(* number; the demos of one of the two groups call every solution on it,   *)
(* and what a greedy choice or the last entry of a table says is compared  *)
(* with a look at all choices.                                             *)
(***************************************************************************)
EXTENDS Loops

CONSTANTS Number, MaxLen, None,
          Topic     \* "arrays" (and windows) or "choices" (greedy, and of tables)

VARIABLES nums, answer      \* an input, and what the demos print for it

Init == nums = <<>> /\ answer = None

\* The callers: any input up to MaxLen.
Grow == answer = None /\ Len(nums) < MaxLen /\ (\E x \in Number : nums' = Append(nums, x)) /\ UNCHANGED answer
----------------------------------------------------------------------------
\* 01_arrays.

two_sum(a, target) ==
    LET step(s, i) == CASE s.out # <<>> -> s
                        [] target - a[i] \in DOMAIN s.seen -> [s EXCEPT !.out = <<s.seen[target - a[i]], i>>]
                        [] OTHER -> [s EXCEPT !.seen = Set(@, a[i], i)]
    IN  Over(1, Len(a), step, [seen |-> <<>>, out |-> <<>>]).out

max_subarray_sum(a) ==
    LET step(s, i) == LET here == Larger(a[i], s.here + a[i])
                      IN  [here |-> here, best |-> Larger(s.best, here)]
    IN  Over(2, Len(a), step, [here |-> a[1], best |-> a[1]]).best

product_except_self(a) ==
    LET left(s, i) == [out |-> [s.out EXCEPT ![i] = s.product], product |-> s.product * a[i]]
        right(s, i) == [out |-> [s.out EXCEPT ![i] = @ * s.product], product |-> s.product * a[i]]
        ones == [i \in DOMAIN a |-> 1]
        once == Over(1, Len(a), left, [out |-> ones, product |-> 1])
    IN  Down(Len(a), 1, right, [once EXCEPT !.product = 1]).out

max_area(h) ==
    LET step(s) == [l |-> IF h[s.l] < h[s.r] THEN s.l + 1 ELSE s.l,
                    r |-> IF h[s.l] < h[s.r] THEN s.r ELSE s.r - 1,
                    best |-> Larger(s.best, Smaller(h[s.l], h[s.r]) * (s.r - s.l))]
    IN  While(Len(h), LAMBDA s : s.l < s.r, step, [l |-> 1, r |-> Len(h), best |-> 0]).best

\* Marks the number at the place a value names; the marks go again at the end.
find_duplicates(a) ==
    LET step(s, i) == LET v == Abs(s.a[i])
                      IN  IF s.a[v] < 0 THEN [s EXCEPT !.out = Append(@, v)]
                          ELSE [s EXCEPT !.a[v] = -@]
        end == Over(1, Len(a), step, [a |-> a, out |-> <<>>])
    IN  [out |-> end.out, a |-> [i \in DOMAIN a |-> Abs(end.a[i])]]

\* One i of three_sum: two pointers over what follows it.
Pairs(a, i, out) ==
    LET skip(s) == LET l == While(Len(a), LAMBDA x : x < s.r /\ a[x] = a[x + 1], LAMBDA x : x + 1, s.l)
                       r == While(Len(a), LAMBDA x : l < x /\ a[x] = a[x - 1], LAMBDA x : x - 1, s.r)
                   IN  [l |-> l + 1, r |-> r - 1, out |-> Append(s.out, <<a[i], a[s.l], a[s.r]>>)]
        step(s) == CASE a[s.l] + a[s.r] = -a[i] -> skip(s)
                     [] a[s.l] + a[s.r] < -a[i] -> [s EXCEPT !.l = @ + 1]
                     [] OTHER -> [s EXCEPT !.r = @ - 1]
    IN  While(Len(a), LAMBDA s : s.l < s.r, step, [l |-> i + 1, r |-> Len(a), out |-> out]).out

\* nums.sort(); an equal i is skipped and the first positive one ends the loop.
three_sum(b) ==
    LET a == Sorted(b)
    IN  Over(1, Len(a) - 2, LAMBDA out, i : IF (i > 1 /\ a[i] = a[i - 1]) \/ a[i] > 0 THEN out
                                            ELSE Pairs(a, i, out), <<>>)

merge_intervals(intervals) ==
    LET step(merged, x) == IF x[1] <= Last(merged)[2]
                           THEN [merged EXCEPT ![Len(merged)][2] = Larger(@, x[2])]
                           ELSE Append(merged, x)
        ordered == SortSeq(intervals, LAMBDA x, y : x[1] < y[1])
    IN  IF intervals = <<>> THEN <<>> ELSE FoldLeft(step, <<Head(ordered)>>, Tail(ordered))

\* Each number is swapped into its place, then the first wrong place is found.
first_missing_positive(a) ==
    LET n == Len(a)
        place(s, i) == While(n, LAMBDA b : b[i] \in 1..n /\ b[i] # b[b[i]], LAMBDA b : Swap(b, i, b[i]), s)
        placed == Over(1, n, place, a)
    IN  Min({i \in 1..n : placed[i] # i} \union {n + 1})

reverse(a, i, j) == [k \in DOMAIN a |-> IF k \in i..j THEN a[i + j - k] ELSE a[k]]

rotate_array(a, k0) ==
    IF a = <<>> THEN a
    ELSE LET n == Len(a)
             k == k0 % n
         IN  reverse(reverse(reverse(a, 1, n), 1, k), k + 1, n)

longest_consecutive(a) ==
    LET S == Range(a)
        run(x) == While(Len(a), LAMBDA y : y + 1 \in S, LAMBDA y : y + 1, x) - x + 1
    IN  Max({0} \union {run(x) : x \in {y \in S : y - 1 \notin S}})

max_profit(prices) ==
    LET step(s, p) == LET low == Smaller(s.low, p) IN [low |-> low, best |-> Larger(s.best, p - low)]
    IN  IF prices = <<>> THEN 0 ELSE FoldLeft(step, [low |-> prices[1], best |-> 0], prices).best

trap_rain_water(h) ==
    LET step(s) == LET lm == Larger(s.lm, h[s.l])
                       rm == Larger(s.rm, h[s.r])
                   IN  IF lm < rm THEN [l |-> s.l + 1, r |-> s.r, lm |-> lm, rm |-> rm, water |-> s.water + lm - h[s.l]]
                       ELSE [l |-> s.l, r |-> s.r - 1, lm |-> lm, rm |-> rm, water |-> s.water + rm - h[s.r]]
    IN  While(Len(h), LAMBDA s : s.l < s.r, step, [l |-> 1, r |-> Len(h), lm |-> 0, rm |-> 0, water |-> 0]).water
----------------------------------------------------------------------------
\* 17_sliding_window: a window is left..right with the count of each element in
\* it; a count that reaches 0 is deleted where the code deletes it.

\* for right: take it in; while the window is Wide, give the left one up; then Note.
Slide(a, Add(_, _), Wide(_, _), Drop(_, _), Note(_, _), s0) ==
    LET shrink(x, right) == While(Len(a), LAMBDA y : Wide(y, right), LAMBDA y : [Drop(y, a[y.left]) EXCEPT !.left = @ + 1], x)
    IN  Over(1, Len(a), LAMBDA x, right : Note(shrink(Add(x, a[right]), right), right), s0)

Widest(x, right) == [x EXCEPT !.best = Larger(@, right - x.left + 1)]
Summed(x, right) == [x EXCEPT !.best = @ + right - x.left + 1]
AddTo(freq, v) == Set(freq, v, Get(freq, v, 0) + 1)

\* Fault: a count of zero is kept and goes on counting as a distinct element.
TakeFromKeeps(freq, v) == [freq EXCEPT ![v] = @ - 1]

TakeFrom(freq, v) == IF freq[v] = 1 THEN [w \in DOMAIN freq \ {v} |-> freq[w]] ELSE [freq EXCEPT ![v] = @ - 1]

\* A window of at most k distinct elements.
DistinctWindow(a, k, Note(_, _)) ==
    Slide(a, LAMBDA x, v : [x EXCEPT !.freq = AddTo(@, v)],
             LAMBDA x, right : Cardinality(DOMAIN x.freq) > k,
             LAMBDA x, v : [x EXCEPT !.freq = TakeFrom(@, v)], Note, [left |-> 1, freq |-> <<>>, best |-> 0]).best

length_of_longest_substring_k_distinct(s, k) == IF k = 0 THEN 0 ELSE DistinctWindow(s, k, Widest)
total_fruit(fruits) == DistinctWindow(fruits, 2, Widest)
at_most(a, limit) == IF limit <= 0 THEN 0 ELSE DistinctWindow(a, limit, Summed)
subarrays_with_k_distinct(a, k) == at_most(a, k) - at_most(a, k - 1)

\* max_freq is the largest count ever seen; it never shrinks with the window.
character_replacement(s, k) ==
    Slide(s, LAMBDA x, v : LET freq == AddTo(x.freq, v)
                           IN  [x EXCEPT !.freq = freq, !.max_freq = Larger(@, freq[v])],
             LAMBDA x, right : right - x.left + 1 - x.max_freq > k,
             LAMBDA x, v : [x EXCEPT !.freq[v] = @ - 1], Widest,
          [left |-> 1, freq |-> <<>>, max_freq |-> 0, best |-> 0]).best

\* The window is noted while it still sums to the target; 0 stands for no window.
min_subarray_len(target, a) ==
    LET shrink(x, right) ==
            While(Len(a), LAMBDA y : y.sum >= target,
                  LAMBDA y : [left |-> y.left + 1, sum |-> y.sum - a[y.left],
                              best |-> IF y.best = 0 THEN right - y.left + 1 ELSE Smaller(y.best, right - y.left + 1)], x)
    IN  Over(1, Len(a), LAMBDA x, right : shrink([x EXCEPT !.sum = @ + a[right]], right),
             [left |-> 1, sum |-> 0, best |-> 0]).best

longest_ones(a, k) ==
    Slide(a, LAMBDA x, v : [x EXCEPT !.zeros = @ + (IF v = 0 THEN 1 ELSE 0)],
             LAMBDA x, right : x.zeros > k,
             LAMBDA x, v : [x EXCEPT !.zeros = @ - (IF v = 0 THEN 1 ELSE 0)], Widest,
          [left |-> 1, zeros |-> 0, best |-> 0]).best

\* A window of fixed length Len(s1); the counts cover all letters.
check_inclusion(s1, s2) ==
    LET zero == [v \in Range(s1) \union Range(s2) |-> 0]
        add(c, v) == [c EXCEPT ![v] = @ + 1]
        want == FoldLeft(add, zero, s1)
        step(x, i) == LET in == add(x.count, s2[i])
                          count == IF i > Len(s1) THEN [in EXCEPT ![s2[i - Len(s1)]] = @ - 1] ELSE in
                      IN  IF x.found THEN x ELSE [count |-> count, found |-> i >= Len(s1) /\ count = want]
    IN  Len(s1) <= Len(s2) /\ Over(1, Len(s2), step, [count |-> zero, found |-> FALSE]).found

\* One window per offset, moved word by word; a foreign word clears it.
find_substring(s, words) ==
    LET n == Len(words[1])
        wanted == Counts(words)
        word(i) == SubSeq(s, i, i + n - 1)
        drop(x) == [x EXCEPT !.seen[word(x.left)] = @ - 1, !.count = @ - 1, !.left = @ + n]
        take(x, w) == [x EXCEPT !.seen = AddTo(@, w), !.count = @ + 1]
        full(x) == IF x.count = Len(words) THEN drop([x EXCEPT !.out = Append(@, x.left)]) ELSE x
        step(x, right) ==
            LET w == word(right)
            IN  IF w \in DOMAIN wanted
                THEN full(While(Len(s), LAMBDA y : y.seen[w] > wanted[w], drop, take(x, w)))
                ELSE [x EXCEPT !.seen = <<>>, !.count = 0, !.left = right + n]
        rounds(offset) == Larger(0, (Len(s) - n - offset + n + 1) \div n)
        from(out, offset) == Over(0, rounds(offset) - 1, LAMBDA x, k : step(x, offset + k * n),
                                  [left |-> offset, seen |-> <<>>, count |-> 0, out |-> out]).out
    IN  IF s = <<>> \/ words = <<>> THEN <<>> ELSE Over(1, n, from, <<>>)

\* Forward to the end of a match, backward to its latest start, then on from there.
min_window_subsequence(s, t) ==
    LET forward(i) == While(Len(s), LAMBDA x : x[1] <= Len(s) /\ x[2] <= Len(t),
                            LAMBDA x : <<x[1] + 1, IF s[x[1]] = t[x[2]] THEN x[2] + 1 ELSE x[2]>>, <<i, 1>>)
        backward(end) == While(Len(s), LAMBDA x : x[2] >= 1,
                               LAMBDA x : <<x[1] - 1, IF s[x[1]] = t[x[2]] THEN x[2] - 1 ELSE x[2]>>, <<end, Len(t)>>)[1] + 1
        step(x) == LET f == forward(x.i)
                       start == backward(f[1] - 1)
                   IN  IF f[2] <= Len(t) THEN [x EXCEPT !.i = f[1] + 1]
                       ELSE [i |-> start + 1,
                             best |-> IF x.best = <<>> \/ f[1] - start < Len(x.best)
                                      THEN SubSeq(s, start, f[1] - 1) ELSE x.best]
    IN  IF s = <<>> \/ t = <<>> THEN <<>>
        ELSE While(Len(s), LAMBDA x : x.i <= Len(s), step, [i |-> 1, best |-> <<>>]).best
----------------------------------------------------------------------------
\* The same input as heights, none of them negative, and as intervals.
Heights(a) == [i \in DOMAIN a |-> a[i] + 1]
Intervals(h) == [i \in DOMAIN h |-> <<(h[i] * 3) % 7, ((h[i] * 3) % 7) + (h[i] % 3)>>]
Markable(h) == \A i \in DOMAIN h : h[i] \in 1..Len(h) /\ Times(h[i], h) <= 2
Chopped(w, n) == [i \in 1..Len(w) \div n |-> SubSeq(w, (i - 1) * n + 1, i * n)]
Targets == -1..3
Turns == 0..3

Scans(a, h) ==
    [two_sum |-> [target \in Targets |-> two_sum(a, target)],
     max_subarray_sum |-> When(a # <<>>, max_subarray_sum(a)),
     product_except_self |-> product_except_self(a), max_area |-> max_area(h), three_sum |-> three_sum(a),
     max_profit |-> max_profit(h), trap_rain_water |-> trap_rain_water(h)]

Places(a, h) ==
    [first_missing_positive |-> first_missing_positive(a), find_duplicates |-> When(Markable(h), find_duplicates(h)),
     rotate_array |-> [k \in Turns |-> rotate_array(a, k)], longest_consecutive |-> longest_consecutive(a),
     merge_intervals |-> merge_intervals(Intervals(h))]

Windows(a, k) ==
    [length_of_longest_substring_k_distinct |-> length_of_longest_substring_k_distinct(a, k),
     total_fruit |-> total_fruit(a), subarrays_with_k_distinct |-> subarrays_with_k_distinct(a, k),
     character_replacement |-> character_replacement(a, k), longest_ones |-> longest_ones(a, k),
     min_subarray_len |-> When(k > 0, min_subarray_len(k + 1, a))]

Patterns(t, s) ==
    [check_inclusion |-> When(t # <<>>, check_inclusion(t, s)), min_window_subsequence |-> min_window_subsequence(s, t),
     find_substring |-> [n \in {1, 2} |-> When(Len(t) \in {2, 4}, find_substring(s, Chopped(t, n)))]]
----------------------------------------------------------------------------
\* 18_greedy.

\* Activities <<start, end, index>>, by end and then by start.
activity_selection(start, end) ==
    LET activities == SortSeq([i \in DOMAIN start |-> <<start[i], end[i], i>>],
                              LAMBDA x, y : x[2] < y[2] \/ (x[2] = y[2] /\ x[1] < y[1]))
        step(s, x) == IF s.out = <<>> \/ x[1] >= s.last
                      THEN [out |-> Append(s.out, x[3]), last |-> x[2]] ELSE s
    IN  FoldLeft(step, [out |-> <<>>, last |-> 0], activities).out

\* A tree of the heap is its frequency and the code of each letter below it;
\* joining two puts a 0 before the codes of one and a 1 before the other's.
Joined(l, r) == [freq |-> l.freq + r.freq,
                 codes |-> [c \in DOMAIN l.codes |-> <<0>> \o l.codes[c]] @@ [c \in DOMAIN r.codes |-> <<1>> \o r.codes[c]]]
huffman_codes(text) ==
    LET leaves == {[freq |-> Times(c, text), codes |-> (c :> <<>>)] : c \in Range(text)}
        least(heap) == CHOOSE x \in heap : \A y \in heap : x.freq <= y.freq
        step(heap) == LET l == least(heap)
                          r == least(heap \ {l})
                      IN  (heap \ {l, r}) \union {Joined(l, r)}
        codes == (CHOOSE x \in While(Len(text), LAMBDA heap : Cardinality(heap) > 1, step, leaves) : TRUE).codes
    IN  [c \in DOMAIN codes |-> IF codes[c] = <<>> THEN <<0>> ELSE codes[c]]
huffman_encode(text) == LET codes == huffman_codes(text) IN FoldLeft(LAMBDA e, c : e \o codes[c], <<>>, text)
huffman_decode(codes, encoded) ==
    LET step(s, bit) == LET current == Append(s.current, bit)
                        IN  IF current \in Range(codes)
                            THEN [out |-> Append(s.out, CHOOSE c \in DOMAIN codes : codes[c] = current), current |-> <<>>]
                            ELSE [s EXCEPT !.current = current]
    IN  FoldLeft(step, [out |-> <<>>, current |-> <<>>], encoded).out

jump(a) ==
    LET n == Len(a)
        step(s, i) == LET farthest == Larger(s.farthest, i + a[i])
                      IN  IF s.end >= n THEN s
                          ELSE IF i = s.end THEN [jumps |-> s.jumps + 1, end |-> farthest, farthest |-> farthest]
                               ELSE [s EXCEPT !.farthest = farthest]
    IN  IF n <= 1 THEN 0 ELSE Over(1, n - 1, step, [jumps |-> 0, end |-> 1, farthest |-> 1]).jumps

\* The start to drive from, 0 when the gas falls short.
can_complete_circuit(gas, cost) ==
    LET step(s, i) == LET total == s.total + gas[i] - cost[i]
                      IN  IF total < 0 THEN [total |-> 0, start |-> i + 1] ELSE [s EXCEPT !.total = total]
    IN  IF Total(gas) < Total(cost) THEN 0 ELSE Over(1, Len(gas), step, [total |-> 0, start |-> 1]).start

partition_labels(s) ==
    LET last(c) == Max({i \in DOMAIN s : s[i] = c})
        step(x, i) == LET farthest == Larger(x.farthest, last(s[i]))
                      IN  IF i = farthest THEN [out |-> Append(x.out, i - x.start + 1), start |-> i + 1, farthest |-> farthest]
                          ELSE [x EXCEPT !.farthest = farthest]
    IN  Over(1, Len(s), step, [out |-> <<>>, start |-> 1, farthest |-> 1]).out

\* Box types <<boxes, units>>, those with the most units first.
maximum_units(box_types, truck_size) ==
    LET step(s, x) == LET take == Smaller(x[1], s.room) IN [room |-> s.room - take, units |-> s.units + take * x[2]]
    IN  FoldLeft(step, [room |-> truck_size, units |-> 0], SortSeq(box_types, LAMBDA x, y : x[2] > y[2])).units

erase_overlap_intervals(intervals) ==
    LET ordered == SortSeq(intervals, LAMBDA x, y : x[2] < y[2])
        step(s, x) == IF x[1] < s.last THEN [s EXCEPT !.count = @ + 1] ELSE [s EXCEPT !.last = x[2]]
    IN  IF intervals = <<>> THEN 0
        ELSE FoldLeft(step, [count |-> 0, last |-> ordered[1][2]], Tail(ordered)).count

\* Up the slopes from the left, then from the right.
candy(ratings) ==
    LET n == Len(ratings)
        right(c, i) == IF ratings[i] > ratings[i - 1] THEN [c EXCEPT ![i] = c[i - 1] + 1] ELSE c
        left(c, i) == IF ratings[i] > ratings[i + 1] THEN [c EXCEPT ![i] = Larger(@, c[i + 1] + 1)] ELSE c
    IN  Total(Down(n - 1, 1, left, Over(2, n, right, [i \in DOMAIN ratings |-> 1])))

least_interval_greedy(tasks, n) ==
    LET freq == Counts(tasks)
        max_freq == Max(Range(freq))
    IN  Larger((max_freq - 1) * (n + 1) + Times(max_freq, freq), Len(tasks))
----------------------------------------------------------------------------
\* 09_dynamic_programming: each table is filled in the order of the code.

\* <<prev2, prev1>> after the two variables have rolled from i = a to b.
Rolled(a, b, Current(_, _), start) == Over(a, b, LAMBDA s, i : <<s[2], Current(s, i)>>, start)[2]

fibonacci(n) == IF n <= 1 THEN n ELSE Rolled(2, n, LAMBDA s, i : s[2] + s[1], <<0, 1>>)
climb_stairs(n) == IF n <= 1 THEN 1 ELSE Rolled(2, n, LAMBDA s, i : s[2] + s[1], <<1, 1>>)

rob(a) == CASE a = <<>> -> 0
            [] Len(a) = 1 -> a[1]
            [] OTHER -> Rolled(3, Len(a), LAMBDA s, i : Larger(a[i] + s[1], s[2]), <<a[1], Larger(a[1], a[2])>>)

num_decodings(s) ==
    LET current(t, i) == (IF s[i] # 0 THEN t[2] ELSE 0) + (IF 10 * s[i - 1] + s[i] \in 10..26 THEN t[1] ELSE 0)
    IN  IF s = <<>> THEN 0 ELSE Rolled(2, Len(s), current, <<1, IF s[1] # 0 THEN 1 ELSE 0>>)

\* dp[i] starts at amount + 1, which no number of coins reaches.
coin_change(coins, amount) ==
    LET entry(dp, i) == FoldLeft(LAMBDA d, c : IF c <= i THEN [d EXCEPT ![i] = Smaller(@, 1 + d[i - c])] ELSE d, dp, coins)
        dp == Over(1, amount, entry, [i \in 0..amount |-> IF i = 0 THEN 0 ELSE amount + 1])
    IN  IF dp[amount] # amount + 1 THEN dp[amount] ELSE -1

\* tails[k] ends the increasing subsequences of length k with the least end.
length_of_lis(a) ==
    LET bisect_left(tails, x) == Cardinality({i \in DOMAIN tails : tails[i] < x}) + 1
        step(tails, x) == LET i == bisect_left(tails, x)
                          IN  IF i > Len(tails) THEN Append(tails, x) ELSE [tails EXCEPT ![i] = x]
    IN  Len(FoldLeft(step, <<>>, a))

\* Row by row over the longer of two texts: Entry(prev, curr, i, j), First(i) in column 0.
TwoTexts(s, t, Entry(_, _, _, _, _, _), First(_)) ==
    LET a == IF Len(s) < Len(t) THEN t ELSE s
        b == IF Len(s) < Len(t) THEN s ELSE t
        row(prev, i) == Over(1, Len(b), LAMBDA curr, j : [curr EXCEPT ![j] = Entry(a, b, prev, curr, i, j)],
                             [j \in 0..Len(b) |-> IF j = 0 THEN First(i) ELSE 0])
        top == [j \in 0..Len(b) |-> First(j)]
    IN  Over(1, Len(a), row, top)[Len(b)]

longest_common_subsequence(s, t) ==
    TwoTexts(s, t, LAMBDA a, b, prev, curr, i, j : IF a[i] = b[j] THEN 1 + prev[j - 1] ELSE Larger(prev[j], curr[j - 1]),
             LAMBDA i : 0)
min_distance(s, t) ==
    TwoTexts(s, t, LAMBDA a, b, prev, curr, i, j : IF a[i] = b[j] THEN prev[j - 1]
                                                   ELSE 1 + Smaller(prev[j], Smaller(curr[j - 1], prev[j - 1])),
             LAMBDA i : i)

\* Fault: the row is filled from the left, and an item is packed repeatedly.
knapsackForward(weights, values, capacity) ==
    LET item(dp, i) == Over(weights[i], capacity,
                            LAMBDA d, w : [d EXCEPT ![w] = Larger(@, values[i] + d[w - weights[i]])], dp)
    IN  Over(1, Len(weights), item, [w \in 0..capacity |-> 0])[capacity]

\* One row, from the right, so that no item counts twice.
knapsack(weights, values, capacity) ==
    LET item(dp, i) == Down(capacity, weights[i],
                            LAMBDA d, w : [d EXCEPT ![w] = Larger(@, values[i] + d[w - weights[i]])], dp)
    IN  Over(1, Len(weights), item, [w \in 0..capacity |-> 0])[capacity]

max_product_subarray(a) ==
    LET step(s, i) == LET candidates == {a[i], s.max * a[i], s.min * a[i]}
                      IN  [max |-> Max(candidates), min |-> Min(candidates), best |-> Larger(s.best, Max(candidates))]
    IN  IF a = <<>> THEN 0 ELSE Over(2, Len(a), step, [max |-> a[1], min |-> a[1], best |-> a[1]]).best

\* One row of the grid, added to from the left.
unique_paths(m, n) ==
    LET row(dp, i) == Over(2, n, LAMBDA d, j : [d EXCEPT ![j] = @ + d[j - 1]], dp)
    IN  Over(2, m, row, [j \in 1..n |-> 1])[n]

\* The palindromes by length, then the cuts before each; Len(s) stands for infinity.
min_cut(s) ==
    LET n == Len(s)
        fill(P, length) == P \union {<<i, i + length - 1>> : i \in {k \in 1..n - length + 1 :
                               s[k] = s[k + length - 1] /\ (length <= 2 \/ <<k + 1, k + length - 2>> \in P)}}
        is_pal == Over(2, n, fill, {<<i, i>> : i \in 1..n})
        cut(dp, i) == IF <<1, i>> \in is_pal THEN Append(dp, 0)
                      ELSE Append(dp, Min({n} \union {1 + dp[j] : j \in {k \in 1..i - 1 : <<k + 1, i>> \in is_pal}}))
    IN  IF n <= 1 THEN 0 ELSE Over(1, n, cut, <<>>)[n]

\* Only as far back as the longest word reaches.
word_break(s, words) ==
    LET max_len == Max({0} \union {Len(w) : w \in words})
        step(dp, i) == Append(dp, \E j \in Larger(0, i - max_len)..i - 1 : dp[j + 1] /\ SubSeq(s, j + 1, i) \in words)
    IN  Over(1, Len(s), step, <<TRUE>>)[Len(s) + 1]
----------------------------------------------------------------------------
\* The inputs made of a sequence of numbers: intervals, gas stations, boxes, weights
\* with values, coins and words.
Activities(a) == [i \in DOMAIN a |-> <<(a[i] * (i + 2)) % 5, ((a[i] * (i + 2)) % 5) + ((a[i] + i) % 3) + 1>>]
Starts(x) == [i \in DOMAIN x |-> x[i][1]]
Ends(x) == [i \in DOMAIN x |-> x[i][2]]
Gas(a) == [i \in DOMAIN a |-> (a[i] * 2) % 5]
Boxes(a) == [i \in 1..Smaller(3, Len(a)) |-> <<a[i], (a[i] * i + 1) % 5>>]
Values(a) == [i \in DOMAIN a |-> a[i] * a[i] + 1 - (i % 2)]
Signed(a) == [i \in DOMAIN a |-> a[i] - 2]
Words(s, t) == {s, t, <<1>>, <<0, 2>>} \ {<<>>}

Chosen(a, x) ==
    [activity_selection |-> activity_selection(Starts(x), Ends(x)),
     erase_overlap_intervals |-> erase_overlap_intervals(x), partition_labels |-> partition_labels(a),
     jump |-> jump(a), can_complete_circuit |-> can_complete_circuit(Gas(a), a),
     maximum_units |-> maximum_units(Boxes(a), 3), candy |-> When(a # <<>>, candy(a)),
     least_interval_greedy |-> [n \in 1..2 |-> When(a # <<>>, least_interval_greedy(a, n))],
     huffman_encode |-> When(a # <<>>, huffman_encode(a)),
     huffman_decode |-> When(a # <<>>, huffman_decode(huffman_codes(a), huffman_encode(a)))]

Filled(a) ==
    [coin_change |-> [amount \in 0..7 |-> coin_change(a, amount)],
     knapsack |-> knapsack(a, Values(a), Len(a) + 1), rob |-> rob(a), length_of_lis |-> length_of_lis(a),
     max_product_subarray |-> max_product_subarray(Signed(a)),
     min_cut |-> min_cut(a), num_decodings |-> num_decodings(a)]

FilledBy(a, s, t, n) ==
    [longest_common_subsequence |-> longest_common_subsequence(s, t), min_distance |-> min_distance(s, t),
     word_break |-> word_break(a, Words(s, t)), climb_stairs |-> climb_stairs(n), fibonacci |-> fibonacci(n + 1),
     unique_paths |-> When(n > 0, unique_paths(n, Len(a)))]

\* The demos call every solution, with each of its parameters.
demo_arrays ==
    /\ Topic = "arrays" /\ answer = None
    /\ answer' = [scans |-> Scans(nums, Heights(nums)), places |-> Places(nums, Heights(nums)),
                  windows |-> [k \in 0..Len(nums) |-> Windows(Heights(nums), k)],
                  patterns |-> [k \in 0..Len(nums) |-> Patterns(SubSeq(nums, 1, k), SubSeq(nums, k + 1, Len(nums)))]]
    /\ UNCHANGED nums
demo_choices ==
    /\ Topic = "choices" /\ answer = None
    /\ answer' = [chosen |-> Chosen(nums, Activities(nums)), filled |-> Filled(nums),
                  filledBy |-> [n \in 0..Len(nums) |-> FilledBy(nums, SubSeq(nums, 1, n), SubSeq(nums, n + 1, Len(nums)), n)]]
    /\ UNCHANGED nums

Next == Grow \/ demo_arrays \/ demo_choices
----------------------------------------------------------------------------
\* What the problems ask for.
Ordered(a) == {p \in (1..Len(a)) \X (1..Len(a)) : p[1] < p[2]}
Sums(a, target) == {p \in Ordered(a) : a[p[1]] + a[p[2]] = target}
Product(S, a) == FoldFunctionOnSet(LAMBDA x, y : x * y, 1, a, S)
Triples(a) == {Sorted(<<a[t[1]], a[t[2]], a[t[3]]>>) : t \in {u \in (1..Len(a)) \X (1..Len(a)) \X (1..Len(a)) :
                   u[1] < u[2] /\ u[2] < u[3] /\ a[u[1]] + a[u[2]] + a[u[3]] = 0}}
Level(h, i) == Smaller(Max({h[j] : j \in 1..i}), Max({h[j] : j \in i..Len(h)}))
Covered(intervals) == UNION {2 * x[1]..2 * x[2] : x \in Range(intervals)}
Spans(a) == {SubSeq(a, p[1], p[2]) : p \in {q \in (1..Len(a)) \X (1..Len(a)) : q[1] <= q[2]}}
Most(S) == Max({0} \union {Len(w) : w \in S})
Fewest(S) == IF S = {} THEN 0 ELSE Min({Len(w) : w \in S})
Embeds(t, w) == \E f \in [DOMAIN t -> DOMAIN w] : /\ \A i \in DOMAIN t : t[i] = w[f[i]]
                                                  /\ \A i, j \in DOMAIN t : i < j => f[i] < f[j]
Distinct(w) == Cardinality(Range(w))
Permuted(v, w) == Counts(v) = Counts(w)

\* The two-pointer and prefix scans: each finds what a look at all pairs finds.
ScansRight(a, h, got) ==
    /\ \A target \in Targets : LET pair == got.two_sum[target]
                               IN  pair \in Sums(a, target) \/ (pair = <<>> /\ Sums(a, target) = {})
    /\ a # <<>> => got.max_subarray_sum = Max({Total(s) : s \in Slices(a)})
    /\ got.product_except_self = [i \in DOMAIN a |-> Product(DOMAIN a \ {i}, a)]
    /\ got.max_area = Max({0} \union {Smaller(h[i], h[j]) * (j - i) : i, j \in DOMAIN h})
    /\ ToSet(got.three_sum) = Triples(a) /\ IsInjective(got.three_sum)
    /\ got.max_profit = Max({0} \union {h[p[2]] - h[p[1]] : p \in Ordered(h)})
    /\ got.trap_rain_water = Total([i \in DOMAIN h |-> Level(h, i) - h[i]])

\* The algorithms that use the array as a table of marks, and the others.
PlacesRight(a, h, got) ==
    /\ got.first_missing_positive = Min((1..Len(a) + 1) \ Range(a))
    /\ Markable(h) => /\ ToSet(got.find_duplicates.out) = {v \in Range(h) : Times(v, h) = 2}
                      /\ IsInjective(got.find_duplicates.out) /\ got.find_duplicates.a = h
    /\ \A k \in Turns : got.rotate_array[k] = [i \in DOMAIN a |-> a[((i - 1 - k) % Len(a)) + 1]]
    /\ got.longest_consecutive = Max({Cardinality(S) : S \in {T \in SUBSET Range(a) : T = {} \/ T = Min(T)..Max(T)}})
    /\ Covered(got.merge_intervals) = Covered(Intervals(h))
    /\ \A i \in 1..Len(got.merge_intervals) - 1 : got.merge_intervals[i][2] < got.merge_intervals[i + 1][1]

\* Windows of a number: the widest, the shortest and their count over all slices.
NumbersInWindow(a, k, got) ==
    LET spans == Spans(a)
    IN  /\ got.length_of_longest_substring_k_distinct = Most({w \in spans : Distinct(w) <= k})
        /\ got.total_fruit = Most({w \in spans : Distinct(w) <= 2})
        /\ got.subarrays_with_k_distinct = Cardinality({p \in (1..Len(a)) \X (1..Len(a)) :
               k > 0 /\ p[1] <= p[2] /\ Distinct(SubSeq(a, p[1], p[2])) = k})
        /\ got.character_replacement = Most({w \in spans : \E v \in Range(w) : Len(w) - Times(v, w) <= k})
        /\ got.longest_ones = Most({w \in spans : Times(0, w) <= k})
        /\ k > 0 => got.min_subarray_len = Fewest({w \in spans : Total(w) > k})

\* Windows of a pattern: a permutation, a concatenation or a subsequence of it.
PatternsInWindow(t, s, got) ==
    /\ t # <<>> => got.check_inclusion = \E w \in Spans(s) : Permuted(t, w)
    /\ LET w == got.min_window_subsequence
           all == {v \in Spans(s) : t # <<>> /\ Embeds(t, v)}
       IN  Len(w) = Fewest(all) /\ (all # {} => w \in all)
    /\ Len(t) \in {2, 4} => \A n \in {1, 2} :
          LET out == got.find_substring[n]
          IN  /\ IsInjective(out)
              /\ Range(out) = {i \in 1..Len(s) - Len(t) + 1 :
                                  Permuted(Chopped(t, n), Chopped(SubSeq(s, i, i + Len(t) - 1), n))}

\* 01_arrays, demo: every algorithm gives what its problem asks for.
ArraysRight == Topic = "arrays" /\ answer # None =>
    /\ ScansRight(nums, Heights(nums), answer.scans) /\ PlacesRight(nums, Heights(nums), answer.places)

\* 17_sliding_window, demo: every algorithm gives what its problem asks for.
WindowsRight == Topic = "arrays" /\ answer # None => \A k \in 0..Len(nums) :
    /\ NumbersInWindow(Heights(nums), k, answer.windows[k])
    /\ PatternsInWindow(SubSeq(nums, 1, k), SubSeq(nums, k + 1, Len(nums)), answer.patterns[k])

\* Of choices: all of them.
Apart(S, x) == \A i, j \in S : i # j => x[i][2] <= x[j][1] \/ x[j][2] <= x[i][1]
MostApart(x) == Max({Cardinality(S) : S \in {T \in SUBSET DOMAIN x : Apart(T, x)}})
Reach(a) == LET step(S) == S \union UNION {i..Smaller(Len(a), i + a[i]) : i \in S}
            IN  [k \in 0..Len(a) |-> While(k, LAMBDA S : TRUE, step, {1})]
Drives(gas, cost, start) == \A n \in 1..Len(gas) :
    Over(0, n - 1, LAMBDA t, k : LET i == ((start + k - 1) % Len(gas)) + 1 IN t + gas[i] - cost[i], 0) >= 0
Loads(x, room) == {f \in [DOMAIN x -> 0..room] : Total(f) <= room /\ \A i \in DOMAIN x : f[i] <= x[i][1]}
FairCandies(r) == {c \in [DOMAIN r -> 1..Len(r)] :
                     \A i \in 1..Len(r) - 1 : (r[i] < r[i + 1] => c[i] < c[i + 1]) /\ (r[i] > r[i + 1] => c[i] > c[i + 1])}
Schedules(tasks, n, slots) == {f \in [DOMAIN tasks -> 1..slots] : \A i, j \in DOMAIN tasks :
                                  i < j => f[i] # f[j] /\ (tasks[i] = tasks[j] => f[j] >= f[i] + n + 1)}
CodeLengths(text) == {f \in [Range(text) -> 1..3] : MapThenSumSet(LAMBDA c : 2 ^ (3 - f[c]), Range(text)) <= 8}
Subsequence(a, S) == LET keep == Ascending(S) IN [i \in DOMAIN keep |-> a[keep[i]]]
Subsequences(a) == {Subsequence(a, S) : S \in SUBSET DOMAIN a}
Increasing(a) == \A i, j \in DOMAIN a : i < j => a[i] < a[j]
Alignments(s, t) == {M \in SUBSET ((1..Len(s)) \X (1..Len(t))) : \A p, q \in M : p # q =>
                        (p[1] < q[1] /\ p[2] < q[2]) \/ (p[1] > q[1] /\ p[2] > q[2])}
EditCost(M, s, t) == Cardinality({p \in M : s[p[1]] # t[p[2]]}) + Len(s) + Len(t) - 2 * Cardinality(M)
\* The ways to cut s into pieces that are all Good.
Cuts(s, Good(_)) == {C \in SUBSET (1..Len(s) - 1) :
                        LET ends == Ascending(C \union {0, Len(s)})
                        IN  \A i \in 1..Len(ends) - 1 : Good(SubSeq(s, ends[i] + 1, ends[i + 1]))}
AmountsOf(coins, amount) == [k \in 0..amount |->
    While(k, LAMBDA S : TRUE, LAMBDA S : {x + c : x \in S, c \in Range(coins)}, {0})]
Codes(w) == (Len(w) = 1 /\ w[1] # 0) \/ (Len(w) = 2 /\ 10 * w[1] + w[2] \in 10..26)
Steps(n) == UNION {{f \in [1..k -> 1..2] : Total(f) = n} : k \in 0..n}

\* Activities: as many as can be kept, and a cut wherever no letter crosses it.
IntervalsRight(a, x, got) ==
    LET kept == got.activity_selection
        cuts == {k \in DOMAIN a : \A i \in 1..k, j \in k + 1..Len(a) : a[i] # a[j]}
        parts == got.partition_labels
    IN  /\ Apart(Range(kept), x) /\ IsInjective(kept) /\ Len(kept) = MostApart(x)
        /\ got.erase_overlap_intervals = Len(x) - MostApart(x)
        /\ {Total(SubSeq(parts, 1, i)) : i \in DOMAIN parts} = cuts

\* Fewest jumps, the one start of a circuit, the fullest truck and the fewest candies.
AmountsRight(a, got) ==
    LET start == got.can_complete_circuit
        boxes == Boxes(a)
    IN  /\ Len(a) \in Reach(a)[Len(a)] => got.jump = Min({k \in 0..Len(a) : Len(a) \in Reach(a)[k]})
        /\ a # <<>> => IF start = 0 THEN ~\E i \in DOMAIN a : Drives(Gas(a), a, i) ELSE Drives(Gas(a), a, start)
        /\ got.maximum_units = Max({Total([i \in DOMAIN f |-> f[i] * boxes[i][2]]) : f \in Loads(boxes, 3)})
        /\ Len(a) \in 1..4 => got.candy = Min({Total(c) : c \in FairCandies(a)})
        /\ (Len(a) \in 1..4 /\ a = Sorted(a)) => \A n \in 1..2 :
              LET slots == got.least_interval_greedy[n]
              IN  Schedules(a, n, slots) # {} /\ Schedules(a, n, slots - 1) = {}

\* Huffman: what is decoded is what was encoded, no prefix code is shorter.
HuffmanRight(a, got) ==
    a # <<>> => /\ got.huffman_decode = a
                /\ Len(got.huffman_encode) =
                      Min({MapThenSumSet(LAMBDA c : f[c] * Times(c, a), Range(a)) : f \in CodeLengths(a)})

\* Choices of a subset: coins, items, houses, an increasing subsequence, a product; and
\* the cuts into palindromes and codes.
ChoicesRight(a, got) ==
    LET signed == Signed(a)
        values == Values(a)
    IN  /\ \A amount \in 0..7 :
              LET ks == {k \in 0..amount : amount \in AmountsOf(SelectSeq(a, LAMBDA c : c > 0), amount)[k]}
              IN  got.coin_change[amount] = IF ks = {} THEN -1 ELSE Min(ks)
        /\ got.knapsack = Max({MapThenSumSet(LAMBDA i : values[i], S) :
                                  S \in {T \in SUBSET DOMAIN a : MapThenSumSet(LAMBDA i : a[i], T) <= Len(a) + 1}})
        /\ got.rob = Max({MapThenSumSet(LAMBDA i : a[i], S) : S \in {T \in SUBSET DOMAIN a : \A i \in T : i + 1 \notin T}})
        /\ got.length_of_lis = Max({Len(b) : b \in {c \in Subsequences(a) : Increasing(c)}})
        /\ got.max_product_subarray = Max({FoldFunction(LAMBDA x, y : x * y, 1, s) : s \in Slices(signed)}
                                             \union (IF a = <<>> THEN {0} ELSE {}))
        /\ a # <<>> => /\ got.min_cut = Min({Cardinality(C) : C \in Cuts(a, LAMBDA w : w = Reverse(w))})
                       /\ got.num_decodings = Cardinality(Cuts(a, Codes))

\* Two texts: the longest common subsequence, the cheapest alignment and the words of
\* both; the paths and stairs, counted one by one.
TextsRight(a, s, t, n, got) ==
    /\ got.longest_common_subsequence = Max({Len(c) : c \in Subsequences(s) \intersect Subsequences(t)})
    /\ got.min_distance = Min({EditCost(M, s, t) : M \in Alignments(s, t)})
    /\ got.word_break = (Cuts(a, LAMBDA w : w \in Words(s, t) \/ w = <<>>) # {})
    /\ got.climb_stairs = Cardinality(Steps(n)) /\ got.fibonacci = Cardinality(Steps(n))
    /\ n > 0 => got.unique_paths = Cardinality({S \in SUBSET (1..n + Len(a) - 2) : Cardinality(S) = n - 1})

\* 18_greedy, demo: every greedy choice is as good as the best of all choices.
GreedyRight == Topic = "choices" /\ answer # None =>
    /\ IntervalsRight(nums, Activities(nums), answer.chosen)
    /\ AmountsRight(nums, answer.chosen) /\ HuffmanRight(nums, answer.chosen)

\* 09_dynamic_programming, demo: every table ends in what its problem asks for.
TablesRight == Topic = "choices" /\ answer # None =>
    /\ ChoicesRight(nums, answer.filled)
    /\ \A n \in 0..Len(nums) :
          TextsRight(nums, SubSeq(nums, 1, n), SubSeq(nums, n + 1, Len(nums)), n, answer.filledBy[n])
=============================================================================
