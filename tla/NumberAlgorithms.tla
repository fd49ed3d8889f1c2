-------------------------- MODULE NumberAlgorithms ---------------------------
(***************************************************************************)
(* src/python-dsa/10_sorting_searching/questions.py,                       *)
(* src/python-dsa/19_math_number_theory/questions.py and                   *)
(* src/python-dsa/14_bit_manipulation/questions.py.  An input grows number *)
(* by number; the demo calls every solution on it.  Positions count from 1 *)
(* and a search that finds nothing gives 0.  random.randint is the         *)
(* function pick: a solution is called with several pivot rules where      *)
(* there is one.  The 32 bits of the code are a parameter w, so that small *)
(* numbers reach the highest bit.                                          *)
(***************************************************************************)
EXTENDS Loops, Bitwise

CONSTANTS Number, MaxLen, None

VARIABLES nums, answer      \* an input, and what the demo prints for it

Init == nums = <<>> /\ answer = None

\* The callers: any input up to MaxLen.
Grow == answer = None /\ Len(nums) < MaxLen /\ (\E x \in Number : nums' = Append(nums, x)) /\ UNCHANGED answer
----------------------------------------------------------------------------
\* The pivot goes to the end, all that come Before it to the front, then it follows them.
_partition(arr, low, high, pivot_idx, Before(_, _)) ==
    LET pivot == arr[pivot_idx]
        step(s, j) == IF Before(s.arr[j], pivot) THEN [arr |-> Swap(s.arr, s.i, j), i |-> s.i + 1] ELSE s
        end == Over(low, high - 1, step, [arr |-> Swap(arr, pivot_idx, high), i |-> low])
    IN  [arr |-> Swap(end.arr, end.i, high), at |-> end.i]

RECURSIVE _quick_sort(_, _, _, _)
_quick_sort(arr, low, high, pick) ==
    IF low >= high THEN arr
    ELSE LET p == _partition(arr, low, high, pick[low, high], LAMBDA x, y : x <= y)
         IN  _quick_sort(_quick_sort(p.arr, low, p.at - 1, pick), p.at + 1, high, pick)
quick_sort(arr, pick) == _quick_sort(arr, 1, Len(arr), pick)

\* Two runs merged, the left one first among equals; counts the right ones that overtake.
Merged(left, right) ==
    LET step(s) == IF left[s.i] <= right[s.j]
                   THEN [s EXCEPT !.arr = Append(@, left[s.i]), !.i = @ + 1]
                   ELSE [s EXCEPT !.arr = Append(@, right[s.j]), !.j = @ + 1, !.inversions = @ + Len(left) - s.i + 1]
        end == While(Len(left) + Len(right), LAMBDA s : s.i <= Len(left) /\ s.j <= Len(right), step,
                     [arr |-> <<>>, i |-> 1, j |-> 1, inversions |-> 0])
    IN  [arr |-> end.arr \o SubSeq(left, end.i, Len(left)) \o SubSeq(right, end.j, Len(right)),
         inversions |-> end.inversions]

RECURSIVE merge_sort(_)
merge_sort(arr) ==
    LET mid == Len(arr) \div 2
    IN  IF Len(arr) <= 1 THEN arr
        ELSE Merged(merge_sort(SubSeq(arr, 1, mid)), merge_sort(SubSeq(arr, mid + 1, Len(arr)))).arr

RECURSIVE merge_sort_count(_)
merge_sort_count(arr) ==
    LET mid == Len(arr) \div 2
        l == merge_sort_count(SubSeq(arr, 1, mid))
        r == merge_sort_count(SubSeq(arr, mid + 1, Len(arr)))
        m == Merged(l.arr, r.arr)
    IN  IF Len(arr) <= 1 THEN [arr |-> arr, inversions |-> 0]
        ELSE [m EXCEPT !.inversions = @ + l.inversions + r.inversions]
count_inversions(arr) == merge_sort_count(arr).inversions

\* Sifts the element at i down among the first n.
heapify(arr, n, i) ==
    LET larger(a, x, y) == IF y <= n /\ a[y] > a[x] THEN y ELSE x
        largest(s) == larger(s.arr, larger(s.arr, s.i, 2 * s.i), 2 * s.i + 1)
    IN  While(n, LAMBDA s : largest(s) # s.i, LAMBDA s : [arr |-> Swap(s.arr, s.i, largest(s)), i |-> largest(s)],
              [arr |-> arr, i |-> i]).arr
heap_sort(arr) ==
    LET n == Len(arr)
        heap == Down(n \div 2, 1, LAMBDA a, i : heapify(a, n, i), arr)
    IN  Down(n, 2, LAMBDA a, i : heapify(Swap(a, 1, i), i - 1, 1), heap)

\* Quickselect for the k-th largest; {} when there is none (-1 in the code).
find_kth_largest(a, k, pick) ==
    LET step(s) == LET p == _partition(s.a, s.left, s.right, pick[s.left, s.right], LAMBDA x, y : x >= y)
                   IN  CASE p.at = k -> [s EXCEPT !.out = {p.arr[k]}]
                         [] p.at < k -> [s EXCEPT !.a = p.arr, !.left = p.at + 1]
                         [] OTHER -> [s EXCEPT !.a = p.arr, !.right = p.at - 1]
    IN  While(Len(a), LAMBDA s : s.out = {} /\ s.left <= s.right, step,
              [a |-> a, left |-> 1, right |-> Len(a), out |-> {}]).out

Mid(s) == s.left + (s.right - s.left) \div 2
\* while left <= right: stop where Found, else go right of or left of the middle.
Bisect(n, Found(_), GoRight(_)) ==
    LET step(s) == CASE Found(Mid(s)) -> [s EXCEPT !.out = Mid(s)]
                     [] GoRight(s) -> [s EXCEPT !.left = Mid(s) + 1]
                     [] OTHER -> [s EXCEPT !.right = Mid(s) - 1]
    IN  While(n, LAMBDA s : s.out = 0 /\ s.left <= s.right, step, [left |-> 1, right |-> n, out |-> 0]).out
\* while left < right: the least position of left..right where Low holds no more.
Narrow(left, right, Low(_)) ==
    While(right, LAMBDA s : s.left < s.right,
          LAMBDA s : IF Low(s) THEN [s EXCEPT !.left = Mid(s) + 1] ELSE [s EXCEPT !.right = Mid(s)],
          [left |-> left, right |-> right]).left

\* One half is always in order: the target lies inside it or in the other.
search_rotated(a, target) ==
    Bisect(Len(a), LAMBDA m : a[m] = target,
           LAMBDA s : LET m == Mid(s)
                      IN  IF a[s.left] <= a[m] THEN ~(a[s.left] <= target /\ target < a[m])
                          ELSE a[m] < target /\ target <= a[s.right])

\* The last match noted on the way to one side.
Edge(a, target, GoRight(_)) ==
    LET step(s) == LET m == Mid(s)
                       out == IF a[m] = target THEN m ELSE s.out
                   IN  IF GoRight(a[m]) THEN [s EXCEPT !.left = m + 1, !.out = out] ELSE [s EXCEPT !.right = m - 1, !.out = out]
    IN  While(Len(a), LAMBDA s : s.left <= s.right, step, [left |-> 1, right |-> Len(a), out |-> 0]).out
search_range(a, target) ==
    LET first == Edge(a, target, LAMBDA x : x < target)
    IN  IF first = 0 THEN <<0, 0>> ELSE <<first, Edge(a, target, LAMBDA x : x <= target)>>

find_peak_element(a) == Narrow(1, Len(a), LAMBDA s : a[Mid(s)] <= a[Mid(s) + 1])
find_min_rotated(a) == a[Narrow(1, Len(a), LAMBDA s : a[Mid(s)] > a[s.right])]
find_duplicate(a) ==
    Narrow(1, Len(a) - 1, LAMBDA s : Cardinality({i \in DOMAIN a : a[i] <= Mid(s)}) <= Mid(s))
min_eating_speed(piles, h) ==
    LET hours_needed(k) == Total([i \in DOMAIN piles |-> (piles[i] + k - 1) \div k])
    IN  Narrow(1, Max(Range(piles)), LAMBDA s : hours_needed(Mid(s)) > h)

search_matrix(matrix, target) ==
    LET cols == Len(matrix[1])
        val(m) == matrix[((m - 1) \div cols) + 1][((m - 1) % cols) + 1]
    IN  matrix # <<>> /\ Bisect(Len(matrix) * cols, LAMBDA m : val(m) = target, LAMBDA s : val(Mid(s)) < target) # 0

\* TimeMap: lists of <<timestamp, value>> per key; 0 stands for the empty string.
set(store, key, value, timestamp) == Set(store, key, Append(Get(store, key, <<>>), <<timestamp, value>>))
get(store, key, timestamp) ==
    LET values == Get(store, key, <<>>)
        step(s) == IF values[Mid(s)][1] <= timestamp THEN [s EXCEPT !.out = values[Mid(s)][2], !.left = Mid(s) + 1]
                   ELSE [s EXCEPT !.right = Mid(s) - 1]
    IN  While(Len(values), LAMBDA s : s.left <= s.right, step, [left |-> 1, right |-> Len(values), out |-> 0]).out

\* Twice the median, so that it is a whole number; {} where the code raises.
find_median_sorted_arrays(nums1, nums2, NEG, POS) ==
    LET a == IF Len(nums1) > Len(nums2) THEN nums2 ELSE nums1
        b == IF Len(nums1) > Len(nums2) THEN nums1 ELSE nums2
        half == (Len(a) + Len(b) + 1) \div 2
        i(s) == (s.lo + s.hi) \div 2
        left(x, k) == IF k > 0 THEN x[k] ELSE NEG
        right(x, k) == IF k < Len(x) THEN x[k + 1] ELSE POS
        step(s) == LET k == i(s)
                       j == half - k
                       low == Larger(left(a, k), left(b, j))
                   IN  CASE left(a, k) > right(b, j) -> [s EXCEPT !.hi = k - 1]
                         [] left(b, j) > right(a, k) -> [s EXCEPT !.lo = k + 1]
                         [] (Len(a) + Len(b)) % 2 = 1 -> [s EXCEPT !.out = {2 * low}]
                         [] OTHER -> [s EXCEPT !.out = {low + Smaller(right(a, k), right(b, j))}]
    IN  IF a \o b = <<>> THEN {}
        ELSE While(Len(a) + 1, LAMBDA s : s.out = {} /\ s.lo <= s.hi, step, [lo |-> 0, hi |-> Len(a), out |-> {}]).out
----------------------------------------------------------------------------
isqrt(n) == Max({k \in 0..n : k * k <= n})
\* for j in range(a, b, d)
Every(a, b, d) == {j \in a..b - 1 : (j - a) % d = 0}

\* The composites below n crossed out, multiples of each prime found so far.
Sieve(n) == Over(2, isqrt(n - 1), LAMBDA P, i : IF i \in P THEN P \ Every(i * i, n, i) ELSE P, 2..n - 1)
count_primes(n) == IF n < 2 THEN 0 ELSE Cardinality(Sieve(n))

segmented_sieve(low0, high) ==
    LET low == Larger(low0, 2)
        primes == Sieve(isqrt(high) + 1)
        crossed(p) == Every(Larger(p * p, ((low + p - 1) \div p) * p), high + 1, p)
    IN  IF high < 2 THEN {} ELSE (low..high) \ UNION {crossed(p) : p \in primes}

gcd(a, b) == While(Abs(a) + Abs(b) + 1, LAMBDA x : x[2] # 0, LAMBDA x : <<x[2], x[1] % x[2]>>, <<Abs(a), Abs(b)>>)[1]
lcm(a, b) == IF a = 0 \/ b = 0 THEN 0 ELSE Abs((a \div gcd(a, b)) * b)

mod_pow(base, exp, mod) ==
    LET step(x) == [result |-> IF x.exp % 2 = 1 THEN (x.result * x.base) % mod ELSE x.result,
                    base |-> (x.base * x.base) % mod, exp |-> x.exp \div 2]
    IN  While(exp, LAMBDA x : x.exp > 0, step, [result |-> 1 % mod, base |-> base % mod, exp |-> exp]).result

\* Numbers of at most four digits, whose sums are smaller still.
MaxDigits == 4
sum_squares(n) ==
    LET step(x) == [num |-> x.num \div 10, total |-> x.total + (x.num % 10) * (x.num % 10)]
    IN  While(MaxDigits, LAMBDA x : x.num # 0, step, [num |-> n, total |-> 0]).total
\* A slow and a fast runner; bound rounds are enough for the numbers checked.
is_happy(n, bound) ==
    LET step(x) == LET slow == sum_squares(x.slow)
                       fast == sum_squares(sum_squares(x.fast))
                   IN  [slow |-> slow, fast |-> fast, out |-> IF fast = 1 THEN {TRUE} ELSE IF slow = fast THEN {FALSE} ELSE {}]
    IN  While(bound, LAMBDA x : x.out = {}, step, [slow |-> n, fast |-> n, out |-> {}]).out = {TRUE}

prime_factors(n) ==
    LET divide(x, p) == While(Smaller(n, 30), LAMBDA y : y.n % p = 0, LAMBDA y : [n |-> y.n \div p, out |-> Append(y.out, p)], x)
        odd == [k \in 1..isqrt(n) |-> 2 * k + 1]
        end == FoldLeft(LAMBDA x, p : IF p * p <= x.n THEN divide(x, p) ELSE x, divide([n |-> n, out |-> <<>>], 2), odd)
    IN  IF n < 2 THEN <<>> ELSE IF end.n > 1 THEN Append(end.out, end.n) ELSE end.out

get_divisors(n) ==
    LET step(out, i) == CASE n % i # 0 -> out
                          [] i # n \div i -> out \o <<i, n \div i>>
                          [] OTHER -> Append(out, i)
    IN  Sorted(Over(1, isqrt(n), step, <<>>))

\* A letter is its value: I is 1, V 5, X 10, L 50, C 100, D 500, M 1000.
Symbols == <<<<1000>>, <<100, 1000>>, <<500>>, <<100, 500>>, <<100>>, <<10, 100>>, <<50>>, <<10, 50>>, <<10>>,
             <<1, 10>>, <<5>>, <<1, 5>>, <<1>>>>
Worth(symbol) == IF Len(symbol) = 1 THEN symbol[1] ELSE symbol[2] - symbol[1]
int_to_roman(num) ==
    LET spend(x, symbol) == While(3, LAMBDA y : y.num >= Worth(symbol),
                                  LAMBDA y : [num |-> y.num - Worth(symbol), out |-> y.out \o symbol], x)
    IN  FoldLeft(spend, [num |-> num, out |-> <<>>], Symbols).out
roman_to_int(s) ==
    LET step(x, value) == [total |-> IF value < x.prev THEN x.total - value ELSE x.total + value, prev |-> value]
    IN  FoldLeft(step, [total |-> 0, prev |-> 0], Reverse(s)).total

generate_pascal_triangle(num_rows) ==
    LET row(t, r) == Append(t, [j \in 1..r |-> IF j \in {1, r} THEN 1 ELSE t[r - 1][j - 1] + t[r - 1][j]])
    IN  Over(1, num_rows, row, <<>>)

\* draws[i] is random.randint(0, i): one draw for every element after the first k.
reservoir_sample(stream, k, draws) ==
    LET step(r, i) == IF draws[i] < k THEN [r EXCEPT ![draws[i] + 1] = stream[i + 1]] ELSE r
    IN  IF k <= 0 THEN <<>> ELSE Over(k, Len(stream) - 1, step, SubSeq(stream, 1, k))
----------------------------------------------------------------------------
single_number(a) == FoldLeft(^^, 0, a)
\* ones and twos: the bits seen once and twice, modulo three.
single_number_ii(a) ==
    LET without(x, y) == x - (x & y)
        step(s, v) == LET ones == without(s[1] ^^ v, s[2]) IN <<ones, without(s[2] ^^ v, ones)>>
    IN  FoldLeft(step, <<0, 0>>, a)[1]

hamming_weight(n, w) ==
    While(w, LAMBDA x : x[1] # 0, LAMBDA x : <<x[1] & (x[1] - 1), x[2] + 1>>, <<n % (2 ^ w), 0>>)[2]
count_bits(n) == Over(1, n, LAMBDA r, i : Set(r, i, r[i \div 2] + (i % 2)), (0 :> 0))
Bit(n, i) == (n \div (2 ^ i)) % 2
reverse_bits(n, w) == Over(0, w - 1, LAMBDA r, i : r + (Bit(n, i) * (2 ^ (w - 1 - i))), 0)
is_power_of_two(n) == n > 0 /\ (n & (n - 1)) = 0
missing_number(a) == Over(1, Len(a), LAMBDA m, i : m ^^ ((i - 1) ^^ a[i]), Len(a))
find_the_difference(s, t) == FoldLeft(^^, 0, s \o t)

\* Adds without +: the carries move left until none is left; then the sign of w bits.
get_sum(a, b, w) ==
    LET MASK == (2 ^ w) - 1
        end == While(w + 1, LAMBDA x : x[2] # 0,
                     LAMBDA x : <<x[1] ^^ x[2], (2 * (x[1] & x[2])) % (2 ^ w)>>, <<a % (2 ^ w), b % (2 ^ w)>>)[1]
    IN  IF end <= MASK \div 2 THEN end ELSE end - MASK - 1

\* A node of the bit trie is the prefix that leads to it, the highest bit first.
find_maximum_xor(a, w) ==
    LET prefix(n, k) == n \div (2 ^ (w - k))
        trie == {<<k, prefix(a[i], k)>> : k \in 0..w, i \in DOMAIN a}
        best(num) == Over(1, w, LAMBDA x, k : LET opposite == 2 * x.node + 1 - Bit(num, w - k)
                                              IN  IF <<k, opposite>> \in trie
                                                  THEN [node |-> opposite, xor |-> x.xor + (2 ^ (w - k))]
                                                  ELSE [x EXCEPT !.node = 2 * @ + Bit(num, w - k)],
                          [node |-> 0, xor |-> 0]).xor
    IN  Max({0} \union {best(a[i]) : i \in DOMAIN a})
----------------------------------------------------------------------------
\* The inputs made of a sequence of numbers: a rule for the pivots, the numbers in order
\* and rotated, two rows of a matrix, and the entries of a TimeMap.
Drawn(a, d) == [<<low, high>> \in {p \in (1..Len(a)) \X (1..Len(a)) : p[1] <= p[2]} |-> low + ((d + a[low]) % (high - low + 1))]
Rotated(a, k) == SubSeq(a, k + 1, Len(a)) \o SubSeq(a, 1, k)
Rows(s) == <<SubSeq(s, 1, Len(s) \div 2), SubSeq(s, (Len(s) \div 2) + 1, Len(s))>>
TimeMapAfter(a) == Over(1, Len(a), LAMBDA store, i : set(store, a[i] % 2, i, 2 * i), <<>>)
\* What the problems demand of their input.
Uneven(a) == a # <<>> /\ \A i \in 1..Len(a) - 1 : a[i] # a[i + 1]
OneRepeated(a) == /\ Len(a) > 1 /\ Range(a) \subseteq 1..Len(a) - 1
                  /\ Cardinality(Range(a)) = Len(a) - Max(Range(Counts(a))) + 1
Piles(a) == a # <<>> /\ 0 \notin Range(a)
Even(a) == a # <<>> /\ Len(a) % 2 = 0

Sorts(a) ==
    [merge_sort |-> merge_sort(a), heap_sort |-> heap_sort(a), count_inversions |-> count_inversions(a),
     quick_sort |-> [d \in 0..2 |-> quick_sort(a, Drawn(a, d))],
     find_kth_largest |-> [d \in 0..2 |-> [k \in DOMAIN a |-> find_kth_largest(a, k, Drawn(a, d))]],
     find_min_rotated |-> When(IsInjective(a), [k \in DOMAIN a |-> find_min_rotated(Rotated(Sorted(a), k))]),
     find_peak_element |-> When(Uneven(a), find_peak_element(a)),
     find_duplicate |-> When(OneRepeated(a), find_duplicate(a))]

Searches(a, s, v) ==
    [search_range |-> search_range(s, v),
     search_rotated |-> When(IsInjective(a), [k \in DOMAIN a |-> search_rotated(Rotated(s, k), v)]),
     search_matrix |-> When(Even(a), search_matrix(Rows(s), v)),
     min_eating_speed |-> When(Piles(a), min_eating_speed(a, Len(a) + v)),
     get |-> get(TimeMapAfter(a), v % 2, 2 * v + 1),
     find_median_sorted_arrays |-> When(v <= Len(a), find_median_sorted_arrays(
                                       Sorted(SubSeq(a, 1, v)), Sorted(SubSeq(a, v + 1, Len(a))), -1, 9))]

\* One number made of a sequence, and its first and its last.
Numeral(a) == Over(1, Len(a), LAMBDA n, i : n * 2 + a[i], 0)
First(a) == IF a = <<>> THEN 0 ELSE a[1]
Final(a) == IF a = <<>> THEN 0 ELSE Last(a)
Romans(n) == {n, ((n * 37) % 3999) + 1}
Draws(n, k) == {d \in [k..n - 1 -> 0..n - 1] : \A i \in k..n - 1 : d[i] <= i}
Width == 3
AllBut(a) == IsInjective(a) /\ Range(a) \subseteq 0..Len(a)

Divided(n, a, b) ==
    [count_primes |-> count_primes(n), segmented_sieve |-> segmented_sieve(a, b + 9), gcd |-> gcd(a, -b), lcm |-> lcm(a, -b),
     mod_pow |-> When(a > 0, mod_pow(a, b, a + b + 1)), get_divisors |-> When(n > 0, get_divisors(n)),
     prime_factors |-> prime_factors(n), is_happy |-> When(n > 0, is_happy(n, 30)),
     roman |-> When(n > 0, [m \in Romans(n) |-> roman_to_int(int_to_roman(m))]),
     generate_pascal_triangle |-> generate_pascal_triangle(a),
     reservoir_sample |-> When(b \in 1..a, [d \in Draws(a, b) |-> reservoir_sample([i \in 1..a |-> i], b, d)])]

Masked(a, n, w) ==
    [single_number |-> single_number(a \o Append(a, n)), single_number_ii |-> single_number_ii(a \o a \o Append(a, n)),
     hamming_weight |-> hamming_weight(n, w), count_bits |-> count_bits(n), reverse_bits |-> reverse_bits(n, w),
     is_power_of_two |-> is_power_of_two(n), missing_number |-> When(AllBut(a), missing_number(a)),
     find_the_difference |-> find_the_difference(a, Reverse(Append(a, n))), find_maximum_xor |-> find_maximum_xor(a, w),
     get_sum |-> [x \in Range(a) |-> [y \in Range(a) |-> get_sum(x - 2, y - 2, w)]]]

\* Calls every solution, with each of its parameters.
demo ==
    /\ answer = None
    /\ answer' = [sorts |-> Sorts(nums), searches |-> [v \in 0..MaxLen |-> Searches(nums, Sorted(nums), v)],
                  divided |-> Divided(Numeral(nums), First(nums), Final(nums)),
                  masked |-> Masked(nums, Numeral(nums), Width)]
    /\ UNCHANGED nums

Next == Grow \/ demo
----------------------------------------------------------------------------
\* What the problems ask for.
Before(a) == {p \in (1..Len(a)) \X (1..Len(a)) : p[1] < p[2]}
Where(a, v) == {i \in DOMAIN a : a[i] = v}
Hours(a, k) == Total([i \in DOMAIN a |-> (a[i] + k - 1) \div k])

\* Every sort gives the numbers in order, whichever pivots are drawn; the least of a
\* rotated array, a peak and the number that is there twice are found.
SortsRight(a, s, got) ==
    /\ got.merge_sort = s /\ got.heap_sort = s
    /\ got.count_inversions = Cardinality({p \in Before(a) : a[p[1]] > a[p[2]]})
    /\ \A d \in 0..2 : /\ got.quick_sort[d] = s
                       /\ \A k \in DOMAIN a : got.find_kth_largest[d][k] = {s[Len(a) + 1 - k]}
    /\ IsInjective(a) => \A k \in DOMAIN a : got.find_min_rotated[k] = s[1]
    /\ Uneven(a) => LET p == got.find_peak_element
                    IN  (p > 1 => a[p - 1] < a[p]) /\ (p < Len(a) => a[p] > a[p + 1])
    /\ OneRepeated(a) => Times(got.find_duplicate, a) > 1

\* Every search finds the place a look at all places finds.
SearchesRight(a, s, v, got) ==
    /\ got.search_range = IF Where(s, v) = {} THEN <<0, 0>> ELSE <<Min(Where(s, v)), Max(Where(s, v))>>
    /\ IsInjective(a) => \A k \in DOMAIN a :
           got.search_rotated[k] = IF Where(Rotated(s, k), v) = {} THEN 0 ELSE Min(Where(Rotated(s, k), v))
    /\ Even(a) => got.search_matrix = (v \in Range(a))
    /\ Piles(a) => got.min_eating_speed = Min({k \in 1..Max(Range(a)) : Hours(a, k) <= Len(a) + v})
    /\ got.get = Max({0} \union {i \in 1..Smaller(Len(a), v) : a[i] % 2 = v % 2})
    /\ v <= Len(a) => got.find_median_sorted_arrays =
           IF a = <<>> THEN {} ELSE {s[(Len(a) + 1) \div 2] + s[(Len(a) + 2) \div 2]}

\* 10_sorting_searching, demo: every algorithm gives what its problem asks for.
SortingRight == answer # None =>
    /\ SortsRight(nums, Sorted(nums), answer.sorts)
    /\ \A v \in 0..MaxLen : SearchesRight(nums, Sorted(nums), v, answer.searches[v])

Prime(n) == n > 1 /\ \A d \in 2..n - 1 : n % d # 0
Divisors(n) == {d \in 1..n : n % d = 0}
Orbit(n, k) == While(k, LAMBDA S : TRUE, LAMBDA S : S \union {sum_squares(x) : x \in S}, {n})
Ones(n, w) == Cardinality({i \in 0..w - 1 : Bit(n, i) = 1})

\* Number theory against the definitions of prime, divisor and remainder; and each
\* element of a stream is kept by the same number of draws.
DivisionRight(n, a, b, got) ==
    /\ got.count_primes = Cardinality({p \in 2..n - 1 : Prime(p)})
    /\ got.segmented_sieve = {p \in a..b + 9 : Prime(p)}
    /\ a + b > 0 => got.gcd = Max(Divisors(IF a = 0 THEN b ELSE a) \intersect Divisors(IF b = 0 THEN a ELSE b))
    /\ got.lcm = IF a * b = 0 THEN 0 ELSE Min({m \in 1..a * b : m % a = 0 /\ m % b = 0})
    /\ a > 0 => got.mod_pow = (a ^ b) % (a + b + 1)
    /\ n > 0 => /\ got.get_divisors = Ascending(Divisors(n))
                /\ LET f == got.prime_factors IN /\ \A i \in DOMAIN f : Prime(f[i])
                                                 /\ FoldFunction(LAMBDA x, y : x * y, 1, f) = n /\ f = Sorted(f)
                /\ got.is_happy = (1 \in Orbit(n, 20))
                /\ \A m \in Romans(n) : got.roman[m] = m
    /\ a > 0 => got.generate_pascal_triangle[a] =
                   [j \in 1..a |-> Cardinality({S \in SUBSET (1..a - 1) : Cardinality(S) = j - 1})]
    /\ b \in 1..a => \A x \in 1..a :
           Cardinality({d \in Draws(a, b) : x \in Range(got.reservoir_sample[d])}) * a = Cardinality(Draws(a, b)) * b

\* The bit tricks against arithmetic on the numbers themselves.
BitsRight(a, n, w, got) ==
    /\ got.single_number = n /\ got.single_number_ii = n
    /\ got.hamming_weight = Ones(n, w) /\ got.count_bits[n] = Ones(n, 9)
    /\ \A i \in 0..w - 1 : Bit(got.reverse_bits, i) = Bit(n, w - 1 - i)
    /\ got.is_power_of_two = \E i \in 0..9 : n = 2 ^ i
    /\ AllBut(a) => {got.missing_number} = (0..Len(a)) \ Range(a)
    /\ got.find_the_difference = n
    /\ got.find_maximum_xor = Max({0} \union {a[i] ^^ a[j] : i, j \in DOMAIN a})
    /\ \A x, y \in Range(a) : LET s == got.get_sum[x][y]
                              IN  s \in -(2 ^ (w - 1))..(2 ^ (w - 1)) - 1 /\ (s - (x + y - 4)) % (2 ^ w) = 0

\* 19_math_number_theory and 14_bit_manipulation, demo: each gives what its problem
\* asks for.
NumbersRight == answer # None =>
    /\ DivisionRight(Numeral(nums), First(nums), Final(nums), answer.divided)
    /\ BitsRight(nums, Numeral(nums), Width, answer.masked)
=============================================================================
