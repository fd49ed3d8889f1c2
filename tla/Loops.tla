-------------------------------- MODULE Loops --------------------------------
(***************************************************************************)
(* The loops of the algorithms in src/python-dsa as folds.  Positions in a *)
(* sequence count from 1 where Python counts from 0.                       *)
(***************************************************************************)
EXTENDS Integers, Sequences, FiniteSets, SequencesExt, FiniteSetsExt, Functions, TLC

\* for i in a .. b
Over(a, b, Step(_, _), s) == FoldLeft(Step, s, [i \in 1..Max({0, b - a + 1}) |-> a + i - 1])

\* for i in b down to a
Down(b, a, Step(_, _), s) == FoldLeft(Step, s, [i \in 1..Max({0, b - a + 1}) |-> b - i + 1])

\* while Test: at most n rounds
While(n, Test(_), Step(_), s) ==
    FoldLeft(LAMBDA x, i : IF Test(x) THEN Step(x) ELSE x, s, [i \in 1..n |-> i])

\* A call the demo makes only for inputs the problem allows.
When(allowed, result) == IF allowed THEN result ELSE "not called"

Set(f, x, v) == (x :> v) @@ f
Get(f, x, v) == IF x \in DOMAIN f THEN f[x] ELSE v
Swap(s, i, j) == [s EXCEPT ![i] = s[j], ![j] = s[i]]
Larger(a, b) == IF a >= b THEN a ELSE b
Smaller(a, b) == IF a <= b THEN a ELSE b
Abs(x) == IF x < 0 THEN -x ELSE x
Total(s) == FoldFunction(+, 0, s)
Times(v, s) == Cardinality({i \in DOMAIN s : s[i] = v})
Counts(s) == [v \in Range(s) |-> Times(v, s)]
Sorted(s) == SortSeq(s, <)
Ascending(S) == [k \in 1..Cardinality(S) |-> CHOOSE x \in S : Cardinality({y \in S : y < x}) = k - 1]
\* A dict of lists filled in order (defaultdict(list)): the lists it holds.
Grouped(items, Key(_)) ==
    Range(FoldLeft(LAMBDA groups, x : Set(groups, Key(x), Append(Get(groups, Key(x), <<>>), x)), <<>>, items))
Slices(s) == {SubSeq(s, i, j) : i, j \in 1..Len(s)} \ {<<>>}
=============================================================================
