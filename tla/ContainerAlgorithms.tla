------------------------- MODULE ContainerAlgorithms -------------------------
(***************************************************************************)
(* src/python-dsa/02_strings/questions.py, 03_stacks/questions.py and      *)
(* 05_hashing/questions.py. One sequence of numbers grows; it is read as a *)
(* string, as heights, as brackets, as operations and as the recipe of an  *)
(* expression, and the demos call every solution on it. A string is a      *)
(* sequence of characters, a character a number: the digits are 0..9.      *)
(***************************************************************************)
EXTENDS Loops

CONSTANTS Number, MaxLen, None

VARIABLES nums, answer      \* an input, and what the demo prints for it

Init == nums = <<>> /\ answer = None

\* The callers: any input up to MaxLen.
Grow == answer = None /\ Len(nums) < MaxLen /\ (\E x \in Number : nums' = Append(nums, x)) /\ UNCHANGED answer

\* Characters: the digits are 0..9.
Op == [plus |-> 10, minus |-> 11, times |-> 12, over |-> 13]
OpenAt == 14
CloseAt == 15
LetterX == 16
LetterY == 17
matching == (CloseAt :> OpenAt) @@ (LetterY :> LetterX)

\* Those of 02_strings: a letter is at least LetterA.
Hash == 10
Space == 11
Minus == 12
Plus == 13
LetterA == 14
----------------------------------------------------------------------------
\* 03_stacks: the top of a stack is its last element.

is_valid_parentheses(s) ==
    LET step(x, c) == CASE ~x.ok -> x
                        [] c \notin DOMAIN matching -> [x EXCEPT !.stack = Append(@, c)]
                        [] x.stack = <<>> \/ Last(x.stack) # matching[c] -> [x EXCEPT !.ok = FALSE]
                        [] OTHER -> [x EXCEPT !.stack = Front(@)]
        end == FoldLeft(step, [stack |-> <<>>, ok |-> TRUE], s)
    IN  end.ok /\ end.stack = <<>>

\* MinStack: every entry carries the minimum below and at it; {} is None.
get_min(stack) == IF stack = <<>> THEN {} ELSE {Last(stack)[2]}
top(stack) == IF stack = <<>> THEN {} ELSE {Last(stack)[1]}
push(stack, val) == Append(stack, <<val, Min({val} \union get_min(stack))>>)
pop(stack) == IF stack = <<>> THEN stack ELSE Front(stack)

daily_temperatures(t) ==
    LET unwind(i, x) == While(Len(t), LAMBDA y : y.stack # <<>> /\ t[i] > t[Last(y.stack)],
                              LAMBDA y : [stack |-> Front(y.stack),
                                          out |-> [y.out EXCEPT ![Last(y.stack)] = i - Last(y.stack)]], x)
        step(x, i) == LET y == unwind(i, x) IN [y EXCEPT !.stack = Append(@, i)]
    IN  Over(1, Len(t), step, [stack |-> <<>>, out |-> [i \in DOMAIN t |-> 0]]).out

\* A bar of height 0 at the end closes every rectangle.
largest_rectangle_area(bars) ==
    LET h == Append(bars, 0)
        left(stack) == IF stack = <<>> THEN 0 ELSE Last(stack)
        close(i, x) == While(Len(h), LAMBDA y : y.stack # <<>> /\ h[i] < h[Last(y.stack)],
                             LAMBDA y : [stack |-> Front(y.stack),
                                         best |-> Larger(y.best, h[Last(y.stack)] * (i - left(Front(y.stack)) - 1))], x)
        step(x, i) == LET y == close(i, x) IN [y EXCEPT !.stack = Append(@, i)]
    IN  Over(1, Len(h), step, [stack |-> <<>>, best |-> 0]).best

\* Division truncates towards zero.
Quotient(a, b) == LET q == Abs(a) \div Abs(b) IN IF (a >= 0) = (b > 0) THEN q ELSE -q
Apply(op, a, b) == CASE op = Op.plus -> a + b [] op = Op.minus -> a - b
                     [] op = Op.times -> a * b [] OTHER -> Quotient(a, b)

\* A token is an operator or a number (the operators are told apart by their set).
eval_rpn(tokens) ==
    LET step(stack, token) == IF token \in Range(Op)
                              THEN LET n == Len(stack)
                                   IN  Append(SubSeq(stack, 1, n - 2), Apply(token, stack[n - 1], stack[n]))
                              ELSE Append(stack, token)
    IN  FoldLeft(step, <<>>, tokens)[1]

\* Twice around the circle; only the first round is pushed.
next_greater_elements(a) ==
    LET n == Len(a)
        unwind(v, x) == While(n, LAMBDA y : y.stack # <<>> /\ v > a[Last(y.stack)],
                              LAMBDA y : [stack |-> Front(y.stack),
                                          out |-> [y.out EXCEPT ![Last(y.stack)] = IF @ = -1 THEN v ELSE @]], x)
        step(x, i) == LET at == ((i - 1) % n) + 1
                          y == unwind(a[at], x)
                      IN  IF i <= n THEN [y EXCEPT !.stack = Append(@, at)] ELSE y
    IN  Over(1, 2 * n, step, [stack |-> <<>>, out |-> [i \in DOMAIN a |-> -1]]).out

validate_stack_sequences(pushed, popped) ==
    LET unwind(x) == While(Len(pushed), LAMBDA y : y.stack # <<>> /\ Last(y.stack) = popped[y.at],
                           LAMBDA y : [stack |-> Front(y.stack), at |-> y.at + 1], x)
    IN  FoldLeft(LAMBDA x, v : unwind([x EXCEPT !.stack = Append(@, v)]), [stack |-> <<>>, at |-> 1], pushed).stack = <<>>

Repeated(s, n) == FoldLeft(LAMBDA r, i : r \o s, <<>>, [i \in 1..n |-> i])

decode_string(s) ==
    LET step(x, c) == CASE c \in 0..9 -> [x EXCEPT !.count = @ * 10 + c]
                        [] c = OpenAt -> [stack |-> Append(x.stack, <<x.count, x.string>>), count |-> 0, string |-> <<>>]
                        [] c = CloseAt -> [x EXCEPT !.stack = Front(@),
                                                   !.string = Last(x.stack)[2] \o Repeated(@, Last(x.stack)[1])]
                        [] OTHER -> [x EXCEPT !.string = Append(@, c)]
    IN  FoldLeft(step, [stack |-> <<>>, count |-> 0, string |-> <<>>], s).string

\* The operator before a number decides; the last character ends the last number.
calculate(s) ==
    LET pushed(stack, op, n) == CASE op = Op.plus -> Append(stack, n)
                                  [] op = Op.minus -> Append(stack, -n)
                                  [] OTHER -> Append(Front(stack), Apply(op, Last(stack), n))
        digit(x, c) == IF c \in 0..9 THEN [x EXCEPT !.num = @ * 10 + c] ELSE x
        step(x, i) == LET y == digit(x, s[i])
                      IN  IF s[i] \in Range(Op) \/ i = Len(s)
                          THEN [stack |-> pushed(y.stack, y.op, y.num), op |-> s[i], num |-> 0]
                          ELSE y
    IN  Total(Over(1, Len(s), step, [stack |-> <<>>, op |-> Op.plus, num |-> 0]).stack)
----------------------------------------------------------------------------
\* 05_hashing: a dict is a function, an OrderedDict a sequence of pairs, MyHashMap
\* its buckets.

subarray_sum(a, k) ==
    LET step(s, x) == LET sum == s.sum + x
                      IN  [sum |-> sum, count |-> s.count + Get(s.prefix, sum - k, 0),
                           prefix |-> Set(s.prefix, sum, Get(s.prefix, sum, 0) + 1)]
    IN  FoldLeft(step, [sum |-> 0, count |-> 0, prefix |-> (0 :> 1)], a).count

longest_consecutive(a) ==
    LET S == Range(a)
        run(x) == While(Len(a), LAMBDA y : y + 1 \in S, LAMBDA y : y + 1, x) - x + 1
    IN  Max({0} \union {run(x) : x \in {y \in S : y - 1 \notin S}})

\* The keys of Counter(a) stand in the order of their first occurrence.
Keys(a) == FoldLeft(LAMBDA keys, x : IF x \in Range(keys) THEN keys ELSE Append(keys, x), <<>>, a)

top_k_frequent(a, k) ==
    LET bucket(n) == SelectSeq(Keys(a), LAMBDA x : Times(x, a) = n)
        all == Down(Len(a), 1, LAMBDA out, n : out \o bucket(n), <<>>)
    IN  IF k \in DOMAIN all THEN SubSeq(all, 1, k) ELSE all

contains_nearby_duplicate(a, k) ==
    LET step(s, i) == CASE s.found -> s
                        [] a[i] \in s.window -> [s EXCEPT !.found = TRUE]
                        [] Cardinality(s.window \union {a[i]}) > k ->
                              [s EXCEPT !.window = (@ \union {a[i]}) \ {a[i - k]}]
                        [] OTHER -> [s EXCEPT !.window = @ \union {a[i]}]
    IN  Over(1, Len(a), step, [window |-> {}, found |-> FALSE]).found

intersect(a, b) ==
    LET fewer == IF Len(a) > Len(b) THEN b ELSE a
        more == IF Len(a) > Len(b) THEN a ELSE b
        step(s, x) == IF Get(s.counts, x, 0) > 0
                      THEN [counts |-> Set(s.counts, x, s.counts[x] - 1), out |-> Append(s.out, x)] ELSE s
    IN  FoldLeft(step, [counts |-> Counts(fewer), out |-> <<>>], more).out

\* A board of boxes b by b (9 by 9 cells in the code); 0 is an empty cell.
is_valid_sudoku(board, b) ==
    LET box(r, c) == (r \div b) * b + c \div b
        keys(r, c) == {<<"row", r, board[r, c]>>, <<"col", c, board[r, c]>>, <<"box", box(r, c), board[r, c]>>}
        step(s, i) == LET r == i \div (b * b)
                          c == i % (b * b)
                      IN  IF board[r, c] = 0 \/ ~s.ok THEN s
                          ELSE [ok |-> keys(r, c) \intersect s.seen = {}, seen |-> s.seen \union keys(r, c)]
    IN  Over(0, (b * b) * (b * b) - 1, step, [ok |-> TRUE, seen |-> {}]).ok

\* LRUCache over an OrderedDict: the pairs, the oldest first.
Held(cache) == {cache[i][1] : i \in DOMAIN cache}
ValueIn(cache, key) == IF key \in Held(cache) THEN cache[CHOOSE i \in DOMAIN cache : cache[i][1] = key][2] ELSE -1
Without(cache, key) == SelectSeq(cache, LAMBDA p : p[1] # key)
get(cache, key) == IF key \in Held(cache) THEN Append(Without(cache, key), <<key, ValueIn(cache, key)>>) ELSE cache
put(cache, key, value, capacity) ==
    LET with == Append(Without(cache, key), <<key, value>>)
    IN  IF Len(with) > capacity THEN Tail(with) ELSE with

group_shifted_strings(strings) ==
    Grouped(strings, LAMBDA s : [i \in 1..Len(s) - 1 |-> (s[i + 1] - s[i]) % 26])

\* MyHashMap: buckets of pairs, doubled above a load of 3/4.
Buckets(capacity) == [b \in 0..capacity - 1 |-> <<>>]
_resize(map, capacity) ==
    LET pairs == Over(0, map.capacity - 1, LAMBDA all, b : all \o map.buckets[b], <<>>)
    IN  [map EXCEPT !.capacity = capacity,
                    !.buckets = FoldLeft(LAMBDA bs, p : [bs EXCEPT ![p[1] % capacity] = Append(@, p)], Buckets(capacity), pairs)]
PlaceIn(bucket, key) == CHOOSE i \in 0..Len(bucket) : IF i = 0 THEN key \notin Held(bucket) ELSE bucket[i][1] = key
map_put(map, key, value) ==
    LET b == key % map.capacity
        at == PlaceIn(map.buckets[b], key)
        added == [map EXCEPT !.buckets[b] = Append(@, <<key, value>>), !.size = @ + 1]
    IN  CASE at # 0 -> [map EXCEPT !.buckets[b][at] = <<key, value>>]
          [] 4 * added.size > 3 * map.capacity -> _resize(added, 2 * map.capacity)
          [] OTHER -> added
map_get(map, key) == ValueIn(map.buckets[key % map.capacity], key)
\* The last pair takes the place of the one removed.
remove(map, key) ==
    LET b == key % map.capacity
        at == PlaceIn(map.buckets[b], key)
    IN  IF at = 0 THEN map
        ELSE [map EXCEPT !.buckets[b] = Front([@ EXCEPT ![at] = Last(map.buckets[b])]), !.size = @ - 1]
----------------------------------------------------------------------------
\* 02_strings.

length_of_longest_substring(s) ==
    LET step(x, right) ==
            LET left == IF Get(x.char_index, s[right], 0) >= x.left THEN x.char_index[s[right]] + 1 ELSE x.left
            IN  [left |-> left, char_index |-> Set(x.char_index, s[right], right),
                 best |-> Larger(x.best, right - left + 1)]
    IN  Over(1, Len(s), step, [left |-> 1, char_index |-> <<>>, best |-> 0]).best

\* expand: how far the palindrome around left, right reaches.
expand(s, left, right) ==
    While(Len(s), LAMBDA x : x[1] >= 1 /\ x[2] <= Len(s) /\ s[x[1]] = s[x[2]],
          LAMBDA x : <<x[1] - 1, x[2] + 1>>, <<left, right>>)

longest_palindrome(s) ==
    LET longer(p, x) == IF x[2] - x[1] - 1 > Len(p) THEN SubSeq(s, x[1] + 1, x[2] - 1) ELSE p
    IN  Over(1, Len(s), LAMBDA p, i : longer(longer(p, expand(s, i, i)), expand(s, i, i + 1)), <<>>)

count_substrings(s) ==
    LET expand_count(i, j) == expand(s, i, j)[2] - j
    IN  Over(1, Len(s), LAMBDA n, i : n + expand_count(i, i) + expand_count(i, i + 1), 0)

\* The string is set between bars; a radius starts from the one it mirrors.
longest_palindrome_manacher(s) ==
    LET n == 2 * Len(s) + 1
        at(i) == IF i % 2 = 0 THEN -1 ELSE s[(i + 1) \div 2]
        grow(i, r) == While(n, LAMBDA x : i - x - 1 >= 0 /\ i + x + 1 < n /\ at(i - x - 1) = at(i + x + 1),
                            LAMBDA x : x + 1, r)
        step(x, i) == LET r == grow(i, IF i < x.right THEN Smaller(x.right - i, x.radii[2 * x.center - i + 1]) ELSE 0)
                      IN  [radii |-> Append(x.radii, r),
                           center |-> IF i + r > x.right THEN i ELSE x.center,
                           right |-> IF i + r > x.right THEN i + r ELSE x.right]
        radii == Over(0, n - 1, step, [radii |-> <<>>, center |-> 0, right |-> 0]).radii
        best == Max(Range(radii))
        start == (Min({i \in DOMAIN radii : radii[i] = best}) - 1 - best) \div 2
    IN  IF s = <<>> THEN <<>> ELSE SubSeq(s, start + 1, start + best)

\* INT_MAX is 2 ** 31 - 1 in the code: a parameter, so that short strings reach it.
my_atoi(s, INT_MAX) ==
    LET i0 == While(Len(s), LAMBDA i : i <= Len(s) /\ s[i] = Space, LAMBDA i : i + 1, 1)
        signed == i0 <= Len(s) /\ s[i0] \in {Plus, Minus}
        sign == IF signed /\ s[i0] = Minus THEN -1 ELSE 1
        step(x) == IF x.result > (INT_MAX - s[x.i]) \div 10
                   THEN [x EXCEPT !.out = {IF sign = 1 THEN INT_MAX ELSE -INT_MAX - 1}]
                   ELSE [x EXCEPT !.result = @ * 10 + s[x.i], !.i = @ + 1]
        end == While(Len(s), LAMBDA x : x.out = {} /\ x.i <= Len(s) /\ s[x.i] \in 0..9, step,
                     [i |-> IF signed THEN i0 + 1 ELSE i0, result |-> 0, out |-> {}])
    IN  CHOOSE v \in end.out \union {sign * end.result} : end.out = {} \/ v \in end.out

\* The 26 counters for letters, Counter() for anything else.
is_anagram(s, t) ==
    LET up(c, i) == Set(c, s[i], Get(c, s[i], 0) + 1)
        down(c, i) == Set(c, t[i], Get(c, t[i], 0) - 1)
        letters == \A c \in Range(s) \union Range(t) : c >= LetterA
    IN  /\ Len(s) = Len(t)
        /\ IF letters
           THEN \A n \in 1..Len(t) : Over(1, n, down, Over(1, Len(s), up, <<>>))[t[n]] >= 0
           ELSE Counts(s) = Counts(t)

group_anagrams(strs) == Grouped(strs, Sorted)

min_window(s, t) ==
    LET target == Counts(t)
        short(w, c) == c \in DOMAIN target /\ w[c] < target[c]
        shrink(x) == [best |-> IF x.best = <<>> \/ x.right - x.left + 1 < Len(x.best)
                               THEN SubSeq(s, x.left, x.right) ELSE x.best,
                      window |-> [x.window EXCEPT ![s[x.left]] = @ - 1],
                      formed |-> IF short([x.window EXCEPT ![s[x.left]] = @ - 1], s[x.left])
                                 THEN x.formed - 1 ELSE x.formed,
                      left |-> x.left + 1, right |-> x.right]
        widen(x, i) == [x EXCEPT !.right = i, !.window[s[i]] = @ + 1,
                                 !.formed = IF Get(target, s[i], 0) = x.window[s[i]] + 1 THEN @ + 1 ELSE @]
        step(x, i) == While(Len(s), LAMBDA y : y.left <= i /\ y.formed = Cardinality(DOMAIN target), shrink, widen(x, i))
    IN  IF s = <<>> \/ t = <<>> THEN <<>>
        ELSE Over(1, Len(s), step, [best |-> <<>>, window |-> [c \in Range(s) |-> 0],
                                    formed |-> 0, left |-> 1, right |-> 0]).best

\* len(s) in decimal, a "#" and the string itself, for every string.
Digits(n) == IF n < 10 THEN <<n>> ELSE <<n \div 10, n % 10>>
encode(strs) == FoldLeft(LAMBDA e, s : e \o Digits(Len(s)) \o <<Hash>> \o s, <<>>, strs)

decode(s) ==
    LET step(x) == LET j == Min({k \in x.i..Len(s) : s[k] = Hash})
                       length == Over(x.i, j - 1, LAMBDA n, k : n * 10 + s[k], 0)
                   IN  [i |-> j + 1 + length, out |-> Append(x.out, SubSeq(s, j + 1, j + length))]
    IN  While(Len(s), LAMBDA x : \E k \in x.i..Len(s) : s[k] = Hash, step, [i |-> 1, out |-> <<>>]).out

\* A rolling hash over n letters of {0, 1, 2, 3}; the code's n is 10.
find_repeated_dna_sequences(s, n) ==
    LET first == Over(1, n, LAMBDA h, i : h * 4 + s[i], 0)
        step(x, i) == LET h == (x.hash * 4 + s[i]) % (4 ^ n)
                      IN  IF h \in x.seen THEN [x EXCEPT !.hash = h, !.repeated = @ \union {SubSeq(s, i - n + 1, i)}]
                          ELSE [x EXCEPT !.hash = h, !.seen = @ \union {h}]
    IN  IF Len(s) <= n THEN {}
        ELSE Over(n + 1, Len(s), step, [hash |-> first, seen |-> {first}, repeated |-> {}]).repeated
----------------------------------------------------------------------------
\* The inputs made of a sequence of numbers from 0: heights and brackets, operations of a
\* stack, an expression and what it means, words, a board, and the operations of a cache
\* and of a map.
Heights(a) == [i \in DOMAIN a |-> a[i] + 1]
\* What the problems ask for.
Brackets(s) == [i \in DOMAIN s |-> <<OpenAt, CloseAt, LetterX, LetterY>>[s[i]]]
StackAfter(s) == FoldLeft(LAMBDA st, x : IF x = 1 THEN pop(st) ELSE push(st, x), <<>>, s)
\* Four ways to make an expression larger, with what it then means.
Written(recipe) == FoldLeft(LAMBDA e, x :
    CASE x = 1 -> [e EXCEPT !.code = @ \o <<LetterX>>, !.text = @ \o <<LetterX>>,
                            !.rpn = @ \o <<3, Op.minus>>, !.value = @ - 3]
      [] x = 2 -> [e EXCEPT !.code = <<2, OpenAt>> \o @ \o <<CloseAt>>, !.text = @ \o @,
                            !.rpn = <<5>> \o @ \o <<Op.times>>, !.value = 5 * @]
      [] x = 3 -> [e EXCEPT !.code = <<LetterY, 1, OpenAt>> \o @ \o <<CloseAt>>, !.text = <<LetterY>> \o @,
                            !.rpn = <<7>> \o @ \o <<Op.minus>>, !.value = 7 - @]
      [] OTHER -> [e EXCEPT !.code = <<1, 0, OpenAt, LetterX, CloseAt>> \o @, !.text = Repeated(<<LetterX>>, 10) \o @,
                            !.rpn = @ \o <<2, Op.over>>, !.value = IF @ < 0 THEN -((-@) \div 2) ELSE @ \div 2],
    [code |-> <<>>, text |-> <<>>, rpn |-> <<4>>, value |-> 4], recipe)
\* Terms split at + and -: numbers of one or two digits and operators in turn.
Infix(s) == FoldLeft(\o, <<>>, [i \in DOMAIN s |-> IF i % 2 = 0 THEN <<9 + s[i]>>
                                                    ELSE IF s[i] = 4 THEN <<1, 2>> ELSE <<s[i]>>])
Shifted(s, d) == [i \in DOMAIN s |-> (s[i] + d) % 26]
Words(a, b) == SelectSeq(<<b, a, Shifted(b, 25), b \o a>>, LAMBDA w : w # <<>>)
Places(b) == <<<<0, 0>>, <<0, b>>, <<1, 1>>, <<b, 0>>, <<b, b + 1>>>>
Board(a, b) == [<<r, c>> \in (0..b * b - 1) \X (0..b * b - 1) |->
                  IF \E i \in DOMAIN a : Places(b)[i] = <<r, c>> THEN a[CHOOSE i \in DOMAIN a : Places(b)[i] = <<r, c>>] ELSE 0]
\* Odd numbers are written, the others read; the uses a cache counts.
CacheAfter(a, capacity) == FoldLeft(LAMBDA s, x :
    LET used == x % 2 = 1 \/ x \div 2 \in Held(s.cache)
    IN  [cache |-> IF x % 2 = 1 THEN put(s.cache, x \div 2, x, capacity) ELSE get(s.cache, x \div 2),
         uses |-> IF used THEN Append(s.uses, x \div 2) ELSE s.uses], [cache |-> <<>>, uses |-> <<>>], a)
MapAfter(a) == FoldLeft(LAMBDA s, x :
    IF x = 0 THEN [map |-> remove(s.map, 3), dict |-> Set(s.dict, 3, -1)]
    ELSE [map |-> map_put(s.map, x * x - 1, Len(a) + x), dict |-> Set(s.dict, x * x - 1, Len(a) + x)],
    [map |-> [capacity |-> 2, size |-> 0, buckets |-> Buckets(2)], dict |-> <<>>], a)

Stacked(a) ==
    [daily_temperatures |-> daily_temperatures(a), next_greater_elements |-> next_greater_elements(a),
     largest_rectangle_area |-> largest_rectangle_area(a), is_valid_parentheses |-> is_valid_parentheses(Brackets(a)),
     get_min |-> get_min(StackAfter(a)), top |-> top(StackAfter(a)),
     validate_stack_sequences |-> When(Range(a) = DOMAIN a, validate_stack_sequences([i \in DOMAIN a |-> i], a)),
     decode_string |-> decode_string(Written(a).code), eval_rpn |-> eval_rpn(Written(a).rpn),
     calculate |-> When(Len(a) % 2 = 1, calculate(Infix(a)))]

Hashed(a) ==
    [cache |-> CacheAfter(a, 2), map |-> MapAfter(a).map,
     map_get |-> [key \in 0..10 |-> map_get(MapAfter(a).map, key)],
     is_valid_sudoku |-> is_valid_sudoku(Board(a, 2), 2), longest_consecutive |-> longest_consecutive(a)]

Counted(a, b, rest, k) ==
    [subarray_sum |-> [sum \in {0, k} |-> subarray_sum(a, sum)], top_k_frequent |-> top_k_frequent(a, k),
     contains_nearby_duplicate |-> contains_nearby_duplicate(a, k), intersect |-> intersect(b, rest),
     group_shifted_strings |-> group_shifted_strings(Words(rest, b))]

\* The same numbers as strings: two pieces in other letters, with the separator
\* in them, as words and as a numeral.
Spelled(s, letters) == [i \in DOMAIN s |-> letters[s[i] + 1]]
Spellings == {<<14, 15, 16, 17>>, <<1, 14, 15, 16>>}
Strings(a, b) == <<Spelled(a, <<Hash, 1, 2, Hash>>), b, <<>>, a \o b \o a \o b>>
Phrase(a, b) == <<a, b, Reverse(a), a>>
Numeral(s) == Spelled(s, <<Minus, 1, 9, 0>>)
IsNumeral(s) == \A i \in DOMAIN s : i > 1 => s[i] # 0

Whole(s) ==
    [count_substrings |-> count_substrings(s), longest_palindrome |-> longest_palindrome(s),
     longest_palindrome_manacher |-> longest_palindrome_manacher(s),
     length_of_longest_substring |-> length_of_longest_substring(s),
     my_atoi |-> When(IsNumeral(s), my_atoi(<<Space>> \o Numeral(s), 127))]

Pieces(a, b) ==
    [min_window |-> When(a # <<>>, min_window(b, a)),
     find_repeated_dna_sequences |-> When(a # <<>>, find_repeated_dna_sequences(a \o b, Len(a))),
     is_anagram |-> [spelling \in Spellings |-> is_anagram(Spelled(a, spelling), Spelled(b, spelling))],
     group_anagrams |-> group_anagrams(Phrase(a, b)), encode_decode |-> decode(encode(Strings(a, b)))]

\* Calls every solution, with each of its parameters.
demo ==
    /\ answer = None
    /\ answer' = [stacked |-> Stacked(Heights(nums)), hashed |-> Hashed(nums),
                  counted |-> [k \in 0..Len(nums) |-> Counted(nums, SubSeq(nums, 1, k), SubSeq(nums, k + 1, Len(nums)), k)],
                  whole |-> Whole(nums),
                  pieces |-> [n \in 0..Len(nums) |-> Pieces(SubSeq(nums, 1, n), SubSeq(nums, n + 1, Len(nums)))]]
    /\ UNCHANGED nums

Next == Grow \/ demo
----------------------------------------------------------------------------
\* What the problems ask for.
Emptied(s) ==
    LET pairs(x) == {i \in 1..Len(x) - 1 : x[i + 1] \in DOMAIN matching /\ x[i] = matching[x[i + 1]]}
    IN  While(Len(s), LAMBDA x : pairs(x) # {}, LAMBDA x : LET i == Min(pairs(x)) IN RemoveAt(RemoveAt(x, i + 1), i), s)
Around(a, i) == [k \in 1..Len(a) - 1 |-> a[((i + k - 1) % Len(a)) + 1]]
FirstAbove(s, v) == LET S == {k \in DOMAIN s : s[k] > v} IN IF S = {} THEN 0 ELSE Min(S)
Operand(x) == IF x = 4 THEN 12 ELSE x
Meaning(s) == LET ops == {i \in DOMAIN s : i % 2 = 0}
                  split == {i \in ops : s[i] \in {1, 2}}
                  last(i) == Min({j - 1 : j \in {k \in split : k > i}} \union {Len(s)})
                  term(i) == Over(1, (last(i) - i) \div 2,
                                  LAMBDA v, k : Apply(9 + s[i + 2 * k - 1], v, Operand(s[i + 2 * k])), Operand(s[i]))
              IN  term(1) + MapThenSumSet(LAMBDA i : IF s[i] = 1 THEN term(i + 1) ELSE -term(i + 1), split)
\* What the problems ask for.
Spans(a) == {p \in (1..Len(a)) \X (1..Len(a)) : p[1] <= p[2]}
Sees(x, y, b) == x[1] = y[1] \/ x[2] = y[2] \/ (x[1] \div b = y[1] \div b /\ x[2] \div b = y[2] \div b)
Plain(s) == FoldLeft(LAMBDA st, x : IF x # 1 THEN Append(st, x) ELSE IF st = <<>> THEN st ELSE Front(st), <<>>, s)

\* The monotonic stacks: each answer is the one a look at every element gives.
MonotonicRight(a, got) ==
    /\ got.daily_temperatures = [i \in DOMAIN a |-> FirstAbove(SubSeq(a, i + 1, Len(a)), a[i])]
    /\ got.next_greater_elements = [i \in DOMAIN a |-> LET k == FirstAbove(Around(a, i), a[i])
                                                       IN  IF k = 0 THEN -1 ELSE Around(a, i)[k]]
    /\ got.largest_rectangle_area = Max({0} \union {Len(s) * Min(Range(s)) : s \in Slices(a)})

\* Brackets, the minimum of a stack, a push order, and an expression that
\* evaluates to what it was written for in all three notations.
StacksRight(a, got) ==
    /\ got.is_valid_parentheses = (Emptied(Brackets(a)) = <<>>)
    /\ got.get_min = (IF Plain(a) = <<>> THEN {} ELSE {Min(Range(Plain(a)))})
    /\ got.top = (IF Plain(a) = <<>> THEN {} ELSE {Last(Plain(a))})
    /\ Range(a) = DOMAIN a => got.validate_stack_sequences =
           ~\E i, j, k \in DOMAIN a : i < j /\ j < k /\ a[j] < a[k] /\ a[k] < a[i]
    /\ got.decode_string = Written(a).text /\ got.eval_rpn = Written(a).value
    /\ Len(a) % 2 = 1 => got.calculate = Meaning(a)

\* Counting with dictionaries and windows.
CountsRight(a, b, rest, k, got) ==
    LET words == Words(rest, b)
        shifted(v, w) == \E d \in 0..25 : w = Shifted(v, d)
    IN  /\ \A sum \in {0, k} : got.subarray_sum[sum] = Cardinality({p \in Spans(a) : Total(SubSeq(a, p[1], p[2])) = sum})
        /\ k > 0 => IsInjective(got.top_k_frequent) /\ Len(got.top_k_frequent) = Smaller(k, Cardinality(Range(a)))
        /\ \A x \in Range(got.top_k_frequent), y \in Range(a) \ Range(got.top_k_frequent) : Times(x, a) >= Times(y, a)
        /\ got.contains_nearby_duplicate = \E p \in Spans(a) : p[1] # p[2] /\ a[p[1]] = a[p[2]] /\ p[2] - p[1] <= k
        /\ \A x \in Range(a) : Times(x, got.intersect) = Smaller(Times(x, b), Times(x, rest))
        /\ got.group_shifted_strings = {SelectSeq(words, LAMBDA w : shifted(v, w)) : v \in Range(words)}

\* The containers: what a plain dict or a look at all cells would answer.
ContainersRight(a, got) ==
    LET lru == got.cache
        since(key) == {i \in DOMAIN lru.uses : \A j \in DOMAIN lru.uses : lru.uses[j] = key => j <= i}
        dict == MapAfter(a).dict
    IN  /\ Held(lru.cache) = {key \in Range(lru.uses) : Cardinality({lru.uses[i] : i \in since(key)}) <= 2}
        /\ \A key \in Held(lru.cache) : ValueIn(lru.cache, key) = 2 * key + 1
        /\ \A key \in 0..10 : got.map_get[key] = Get(dict, key, -1)
        /\ got.map.size = Cardinality({key \in DOMAIN dict : dict[key] # -1})
        /\ 4 * got.map.size <= 3 * got.map.capacity
        /\ got.is_valid_sudoku =
              ~\E i, j \in DOMAIN a : i # j /\ a[i] = a[j] /\ a[i] # 0 /\ Sees(Places(2)[i], Places(2)[j], 2)
        /\ got.longest_consecutive = Max({Cardinality(S) : S \in {T \in SUBSET Range(a) : T = {} \/ T = Min(T)..Max(T)}})

\* 03_stacks, demo: every algorithm gives what its problem asks for.
StackUsesRight == answer # None => MonotonicRight(Heights(nums), answer.stacked) /\ StacksRight(Heights(nums), answer.stacked)

\* 05_hashing, demo: every algorithm gives what its problem asks for.
HashingRight == answer # None =>
    /\ ContainersRight(nums, answer.hashed)
    /\ \A k \in 0..Len(nums) : CountsRight(nums, SubSeq(nums, 1, k), SubSeq(nums, k + 1, Len(nums)), k, answer.counted[k])

Palindromes(s) == {p \in (1..Len(s)) \X (1..Len(s)) :
                     p[1] <= p[2] /\ \A k \in p[1]..p[2] : s[k] = s[p[1] + p[2] - k]}
Longest(S) == Max({0} \union {Len(w) : w \in S})
Holds(w, t) == \A c \in Range(t) : Times(c, w) >= Times(c, t)
Value(s) == LET d == SelectSeq(s, LAMBDA c : c \in 0..9) IN Over(1, Len(d), LAMBDA n, i : n * 10 + d[i], 0)
Twice(s, n) == {x \in Slices(s) : Len(x) = n /\ \E i, j \in 1..Len(s) - n + 1 :
                  i # j /\ x = SubSeq(s, i, i + n - 1) /\ x = SubSeq(s, j, j + n - 1)}

\* Palindromes: expanding, Manacher's mirrored radii and the count agree with all
\* slices.  A number is clamped to its width.
WholeRight(s, got) ==
    LET all == Palindromes(s)
    IN  /\ got.count_substrings = Cardinality(all)
        /\ \A p \in {got.longest_palindrome, got.longest_palindrome_manacher} :
              /\ Len(p) = Max({0} \union {q[2] - q[1] + 1 : q \in all})
              /\ p = Reverse(p) /\ p \in Slices(s) \union {<<>>}
        /\ got.length_of_longest_substring = Longest({x \in Slices(s) : IsInjective(x)})
        /\ IsNumeral(s) => got.my_atoi = IF s # <<>> /\ s[1] = 0 THEN Larger(-128, -Value(Numeral(s)))
                                        ELSE Smaller(127, Value(Numeral(s)))

\* Windows over a string, the rolling hash, anagrams and what is encoded and
\* decoded again.
PiecesRight(a, b, got) ==
    LET covers == {x \in Slices(b) : Holds(x, a)}
        words == Phrase(a, b)
    IN  /\ a # <<>> => /\ Len(got.min_window) = Min({Len(x) : x \in covers} \union (IF covers = {} THEN {0} ELSE {}))
                       /\ covers # {} => got.min_window \in covers
                       /\ got.find_repeated_dna_sequences = Twice(a \o b, Len(a))
        /\ \A spelling \in Spellings : got.is_anagram[spelling] = (Sorted(a) = Sorted(b))
        /\ got.group_anagrams = {SelectSeq(words, LAMBDA w : Sorted(w) = Sorted(x)) : x \in Range(words)}
        /\ got.encode_decode = Strings(a, b)

\* 02_strings, demo: every algorithm gives what its problem asks for.
StringsRight == answer # None =>
    /\ WholeRight(nums, answer.whole)
    /\ \A n \in 0..Len(nums) : PiecesRight(SubSeq(nums, 1, n), SubSeq(nums, n + 1, Len(nums)), answer.pieces[n])
=============================================================================
