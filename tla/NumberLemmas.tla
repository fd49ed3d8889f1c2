---------------------------- MODULE NumberLemmas ----------------------------
(***************************************************************************)
(* Facts about natural numbers and finite sets that the proofs share.  The *)
(* library's theorems on induction take an operator; here the property is  *)
(* the membership in a set.  The sums are those of SumFunctionOnSet.       *)
(***************************************************************************)
EXTENDS Functions, FiniteSetTheorems, WellFoundedInduction, TLAPS

\* Every set of natural numbers that is not empty has a least element.
LEMMA LeastNatural ==
    ASSUME NEW T \in SUBSET Nat, T # {}
    PROVE  \E m \in T : \A k \in T : m <= k
<1> DEFINE R == {x \in Nat \X Nat : x[1] < x[2]}
<1>1. IsWellFoundedOn(R, Nat)
  BY NatLessThanWellFounded DEF OpToRel
<1>2. PICK m \in T : \A k \in T : <<k, m>> \notin R
  BY <1>1, WFMin, Zenon
<1>3. ASSUME NEW k \in T PROVE m <= k
  <2>1. <<k, m>> \notin R
    BY <1>2
  <2>2. ~(k < m)
    BY <2>1
  <2> QED BY <2>2
<1> QED BY <1>3

\* Induction over the natural numbers.
LEMMA InductionOverNat ==
    ASSUME NEW T, 0 \in T, \A n \in Nat : n \in T => n + 1 \in T
    PROVE  \A n \in Nat : n \in T
<1> DEFINE U == Nat \ T
<1> SUFFICES ASSUME U # {} PROVE FALSE
  OBVIOUS
<1>1. PICK m \in U : \A k \in U : m <= k
  BY LeastNatural, U \in SUBSET Nat
<1>2. m # 0 /\ m - 1 \in Nat
  OBVIOUS
<1>3. m - 1 \notin U
  BY <1>1, <1>2
<1> QED BY <1>2, <1>3

\* A finite set of natural numbers has a bound.
LEMMA FiniteIsBounded ==
    ASSUME NEW S \in SUBSET Nat, IsFiniteSet(S)
    PROVE  \E n \in Nat : \A k \in S : k <= n
<1>1. PICK n \in Nat : ExistsSurjection(1..n, S)
  BY FS_NatSurjection
<1>2. PICK f \in [1..n -> S] : \A s \in S : \E i \in 1..n : f[i] = s
  BY <1>1 DEF ExistsSurjection, Surjection
<1>3. ASSUME NEW i \in 1..n PROVE f[i] \in Nat
  <2>1. f[i] \in S
    OBVIOUS
  <2> QED BY <2>1
<1> DEFINE B(m) == \E b \in Nat : \A i \in 1..m : i <= n => f[i] <= b
           T == {m \in Nat : B(m)}
<1>4. B(0)
  BY 0 \in Nat
<1>5. ASSUME NEW m \in Nat, B(m) PROVE B(m + 1)
  <2>1. PICK b \in Nat : \A i \in 1..m : i <= n => f[i] <= b
    BY <1>5
  <2>2. CASE m + 1 <= n /\ f[m + 1] > b
    <3>1. f[m + 1] \in Nat
      <4>1. m + 1 \in 1..n
        BY <2>2
      <4> QED BY <4>1, <1>3
    <3>2. \A i \in 1..(m + 1) : i <= n => f[i] <= f[m + 1]
      <4> TAKE i \in 1..(m + 1)
      <4> HAVE i <= n
      <4>1. i \in 1..n /\ f[i] \in Nat
        BY <1>3
      <4>2. CASE i = m + 1
        BY <3>1, <4>2
      <4>3. CASE i \in 1..m
        BY <3>1, <4>1, <4>3, <2>1, <2>2
      <4> QED BY <4>2, <4>3
    <3> QED BY <3>1, <3>2
  <2>3. CASE ~(m + 1 <= n /\ f[m + 1] > b)
    <3>1. \A i \in 1..(m + 1) : i <= n => f[i] <= b
      <4> TAKE i \in 1..(m + 1)
      <4> HAVE i <= n
      <4>1. i \in 1..n /\ f[i] \in Nat
        BY <1>3
      <4> QED BY <2>1, <2>3, <4>1
    <3> QED BY <3>1
  <2> QED BY <2>2, <2>3
<1>6. \A m \in Nat : m \in T
  <2>1. 0 \in T
    BY <1>4
  <2>2. \A m \in Nat : m \in T => m + 1 \in T
    <3> HIDE DEF B
    <3> QED BY <1>5
  <2> HIDE DEF T
  <2> QED BY <2>1, <2>2, InductionOverNat
<1>7. B(n)
  BY <1>6
<1>8. PICK b \in Nat : \A i \in 1..n : f[i] <= b
  BY <1>7, <1>3
<1>9. ASSUME NEW k \in S PROVE k <= b
  BY <1>2, <1>8
<1> QED BY <1>9

\* A finite set of natural numbers that is not empty has a greatest element.
LEMMA GreatestNatural ==
    ASSUME NEW T \in SUBSET Nat, IsFiniteSet(T), T # {}
    PROVE  \E m \in T : \A k \in T : k <= m
<1>0. PICK n \in Nat : \A k \in T : k <= n
  BY FiniteIsBounded
<1> DEFINE U == {j \in Nat : n - j \in T}
<1>1. U \in SUBSET Nat /\ U # {}
  <2>1. PICK k \in T : TRUE
    OBVIOUS
  <2>2. n - k \in U
    BY <1>0, <2>1
  <2> QED BY <2>2
<1>2. PICK j \in U : \A i \in U : j <= i
  <2> HIDE DEF U
  <2> QED BY <1>1, LeastNatural
<1>3. n - j \in T
  BY <1>2
<1>4. ASSUME NEW k \in T PROVE k <= n - j
  <2>1. n - k \in U
    BY <1>0
  <2>2. j <= n - k /\ j \in Nat /\ k \in Nat
    BY <1>2, <2>1
  <2> QED BY <2>2
<1> QED BY <1>3, <1>4
----------------------------------------------------------------------------
\* The element SumFunctionOnSet takes first, and the table it is read from.
Chosen(s) == CHOOSE x \in s : TRUE
Recurs(f, S, g) == g = [s \in SUBSET S |-> IF s = {} THEN 0 ELSE f[Chosen(s)] + g[s \ {Chosen(s)}]]

\* SumFunctionOnSet reads its last entry from a table.
LEMMA SumUnfolds ==
    ASSUME NEW f, NEW S, \E g : Recurs(f, S, g)
    PROVE  \E g : Recurs(f, S, g) /\ SumFunctionOnSet(f, S) = g[S]
<1> DEFINE G == CHOOSE g : Recurs(f, S, g)
<1>1. Recurs(f, S, G)
  BY Zenon
<1>2. SumFunctionOnSet(f, S) = G[S]
  BY DEF SumFunctionOnSet, FoldFunctionOnSet, MapThenFoldSet, Recurs, Chosen
<1> QED BY <1>1, <1>2

\* Taking an element away makes a finite set smaller by one.
LEMMA Smaller ==
    ASSUME NEW B, IsFiniteSet(B), NEW s \in SUBSET B, NEW x \in s
    PROVE  /\ s \ {x} \in SUBSET B
           /\ Cardinality(s) \in Nat \ {0}
           /\ Cardinality(s \ {x}) = Cardinality(s) - 1
<1>1. IsFiniteSet(s)
  BY FS_Subset
<1>2. Cardinality(s) \in Nat /\ Cardinality(s \ {x}) = Cardinality(s) - 1
  BY <1>1, FS_RemoveElement, FS_CardinalityType
<1>3. Cardinality(s) # 0
  BY <1>1, FS_EmptySet
<1> QED BY <1>2, <1>3

\* The table exists, by induction on the size of the sets.
LEMMA TableExists ==
    ASSUME NEW B, IsFiniteSet(B), NEW f, \A x \in B : f[x] \in Nat
    PROVE  \E g \in [SUBSET B -> Nat] : Recurs(f, B, g)
<1> DEFINE Row(g, s) == IF s = {} THEN 0 ELSE f[Chosen(s)] + g[s \ {Chosen(s)}]
           Filled(n) == \E g \in [SUBSET B -> Nat] :
                           \A s \in SUBSET B : Cardinality(s) <= n => g[s] = Row(g, s)
           T == {n \in Nat : Filled(n)}
<1>1. ASSUME NEW s \in SUBSET B, s # {}
      PROVE  /\ Chosen(s) \in s /\ s \ {Chosen(s)} \in SUBSET B
             /\ Cardinality(s) \in Nat \ {0}
             /\ Cardinality(s \ {Chosen(s)}) = Cardinality(s) - 1
  <2>1. Chosen(s) \in s
    BY <1>1 DEF Chosen
  <2> QED BY <2>1, Smaller
<1>2. ASSUME NEW s \in SUBSET B PROVE Cardinality(s) \in Nat /\ (Cardinality(s) = 0 <=> s = {})
  BY FS_Subset, FS_CardinalityType, FS_EmptySet
<1>3. ASSUME NEW g \in [SUBSET B -> Nat], NEW s \in SUBSET B PROVE Row(g, s) \in Nat
  <2>1. CASE s = {}
    BY <2>1
  <2>2. CASE s # {}
    <3>1. f[Chosen(s)] \in Nat /\ g[s \ {Chosen(s)}] \in Nat
      BY <1>1, <2>2
    <3> QED BY <2>2, <3>1
  <2> QED BY <2>1, <2>2
<1>4. Filled(0)
  <2> DEFINE g == [s \in SUBSET B |-> 0]
  <2>1. \A s \in SUBSET B : Cardinality(s) <= 0 => g[s] = Row(g, s)
    BY <1>2
  <2>2. g \in [SUBSET B -> Nat]
    OBVIOUS
  <2> HIDE DEF g
  <2> QED BY <2>1, <2>2
<1>5. ASSUME NEW n \in Nat, Filled(n) PROVE Filled(n + 1)
  <2>1. PICK g \in [SUBSET B -> Nat] :
                \A s \in SUBSET B : Cardinality(s) <= n => g[s] = Row(g, s)
    BY <1>5
  <2> DEFINE h == [s \in SUBSET B |-> Row(g, s)]
  <2>2. h \in [SUBSET B -> Nat]
    BY <1>3
  <2>3. ASSUME NEW s \in SUBSET B, Cardinality(s) <= n + 1 PROVE h[s] = Row(h, s)
    <3>1. CASE s = {}
      BY <3>1
    <3>2. CASE s # {}
      <4> DEFINE r == s \ {Chosen(s)}
      <4>1. r \in SUBSET B /\ Cardinality(r) <= n
        BY <1>1, <2>3, <3>2
      <4>2. h[r] = g[r]
        BY <2>1, <4>1
      <4> QED BY <3>2, <4>2
    <3> QED BY <3>1, <3>2
  <2> HIDE DEF h
  <2> QED BY <2>2, <2>3
<1>6. \A n \in Nat : n \in T
  <2> HIDE DEF Filled
  <2>1. 0 \in T
    BY <1>4
  <2>2. \A n \in Nat : n \in T => n + 1 \in T
    BY <1>5
  <2> HIDE DEF T
  <2> QED BY <2>1, <2>2, InductionOverNat
<1>7. Filled(Cardinality(B))
  BY <1>2, <1>6
<1>8. PICK g \in [SUBSET B -> Nat] :
              \A s \in SUBSET B : Cardinality(s) <= Cardinality(B) => g[s] = Row(g, s)
  BY <1>7
<1>9. \A s \in SUBSET B : g[s] = Row(g, s)
  BY <1>8, FS_Subset
<1>10. g = [s \in SUBSET B |-> Row(g, s)]
  BY <1>9
<1> QED BY <1>10 DEF Recurs

\* Two tables for sets of one universe agree where both are defined.
LEMMA TablesAgree ==
    ASSUME NEW B, IsFiniteSet(B), NEW f, NEW g, Recurs(f, B, g), NEW S \in SUBSET B,
           NEW h, Recurs(f, S, h)
    PROVE  \A s \in SUBSET S : h[s] = g[s]
<1> DEFINE Agree(n) == \A s \in SUBSET S : Cardinality(s) = n => h[s] = g[s]
           T == {n \in Nat : Agree(n)}
<1>1. \A s \in SUBSET S : h[s] = (IF s = {} THEN 0 ELSE f[Chosen(s)] + h[s \ {Chosen(s)}])
  BY DEF Recurs
<1>2. \A s \in SUBSET S : g[s] = (IF s = {} THEN 0 ELSE f[Chosen(s)] + g[s \ {Chosen(s)}])
  BY DEF Recurs
<1>3. Agree(0)
  <2> TAKE s \in SUBSET S
  <2> HAVE Cardinality(s) = 0
  <2>1. s = {}
    BY FS_Subset, FS_EmptySet
  <2> QED BY <2>1, <1>1, <1>2
<1>4. ASSUME NEW n \in Nat, Agree(n) PROVE Agree(n + 1)
  <2> TAKE s \in SUBSET S
  <2> HAVE Cardinality(s) = n + 1
  <2>1. s # {}
    BY FS_EmptySet
  <2>2. Chosen(s) \in s
    BY <2>1 DEF Chosen
  <2>3. s \ {Chosen(s)} \in SUBSET S /\ Cardinality(s \ {Chosen(s)}) = n
    BY <2>2, Smaller
  <2>4. h[s \ {Chosen(s)}] = g[s \ {Chosen(s)}]
    BY <2>3, <1>4
  <2> QED BY <2>1, <2>4, <1>1, <1>2
<1>5. \A n \in Nat : n \in T
  <2> HIDE DEF Agree
  <2>1. 0 \in T
    BY <1>3
  <2>2. \A n \in Nat : n \in T => n + 1 \in T
    BY <1>4
  <2> HIDE DEF T
  <2> QED BY <2>1, <2>2, InductionOverNat
<1> TAKE s \in SUBSET S
<1>6. Cardinality(s) \in Nat
  BY FS_Subset, FS_CardinalityType
<1> QED BY <1>5, <1>6

\* The sum over a set is the entry of any table of a larger universe.
LEMMA SumIsEntry ==
    ASSUME NEW B, IsFiniteSet(B), NEW f, \A x \in B : f[x] \in Nat,
           NEW g, Recurs(f, B, g), NEW S \in SUBSET B
    PROVE  SumFunctionOnSet(f, S) = g[S]
<1>1. IsFiniteSet(S) /\ \A x \in S : f[x] \in Nat
  BY FS_Subset
<1>2. \E h : Recurs(f, S, h)
  BY <1>1, TableExists
<1>3. PICK h : Recurs(f, S, h) /\ SumFunctionOnSet(f, S) = h[S]
  BY <1>2, SumUnfolds
<1> QED BY <1>3, TablesAgree

\* The sum over a set loses f[x] when x is taken away, whichever x that is.
LEMMA SumRemove ==
    ASSUME NEW B, IsFiniteSet(B), NEW f, \A x \in B : f[x] \in Nat
    PROVE  /\ SumFunctionOnSet(f, {}) = 0
           /\ \A S \in SUBSET B : SumFunctionOnSet(f, S) \in Nat
           /\ \A S \in SUBSET B : \A x \in S :
                 SumFunctionOnSet(f, S) = f[x] + SumFunctionOnSet(f, S \ {x})
<1>1. PICK g \in [SUBSET B -> Nat] : Recurs(f, B, g)
  BY TableExists
<1>2. \A s \in SUBSET B : g[s] = (IF s = {} THEN 0 ELSE f[Chosen(s)] + g[s \ {Chosen(s)}])
  BY <1>1 DEF Recurs
<1>3. \A S \in SUBSET B : SumFunctionOnSet(f, S) = g[S]
  BY <1>1, SumIsEntry
<1> DEFINE Any(n) == \A s \in SUBSET B : Cardinality(s) = n =>
                        \A x \in s : g[s] = f[x] + g[s \ {x}]
           T == {n \in Nat : Any(n)}
<1>4. Any(0)
  <2> TAKE s \in SUBSET B
  <2> HAVE Cardinality(s) = 0
  <2> QED BY FS_Subset, FS_EmptySet
<1>5. ASSUME NEW n \in Nat, Any(n) PROVE Any(n + 1)
  <2> TAKE s \in SUBSET B
  <2> HAVE Cardinality(s) = n + 1
  <2> TAKE x \in s
  <2> DEFINE c == Chosen(s)
             r == s \ {c}
  <2>1. c \in s
    BY DEF Chosen
  <2>2. g[s] = f[c] + g[r]
    BY <1>2, <2>1
  <2>3. CASE x = c
    BY <2>2, <2>3
  <2>4. CASE x # c
    <3> DEFINE q == s \ {x}
               b == s \ {c, x}
    <3>1. /\ r \in SUBSET B /\ Cardinality(r) = n
          /\ q \in SUBSET B /\ Cardinality(q) = n
      BY <2>1, Smaller
    <3>2. x \in r /\ c \in q /\ r \ {x} = b /\ q \ {c} = b
      BY <2>1, <2>4
    <3>3. g[r] = f[x] + g[b] /\ g[q] = f[c] + g[b]
      <4> HIDE DEF r, q, b, c
      <4> QED BY <3>1, <3>2, <1>5
    <3>4. b \in SUBSET B /\ c \in B /\ x \in B
      BY <2>1
    <3>5. g[b] \in Nat /\ f[c] \in Nat /\ f[x] \in Nat
      BY <3>4
    <3> HIDE DEF r, q, b, c
    <3>6. g[s] = f[x] + g[q]
      BY <2>2, <3>3, <3>5
    <3> QED BY <3>6 DEF q
  <2> QED BY <2>3, <2>4
<1>6. \A n \in Nat : n \in T
  <2> HIDE DEF Any
  <2>1. 0 \in T
    BY <1>4
  <2>2. \A n \in Nat : n \in T => n + 1 \in T
    BY <1>5
  <2> HIDE DEF T
  <2> QED BY <2>1, <2>2, InductionOverNat
<1>7. ASSUME NEW S \in SUBSET B, NEW x \in S PROVE g[S] = f[x] + g[S \ {x}]
  <2>1. Cardinality(S) \in Nat
    BY FS_Subset, FS_CardinalityType
  <2>2. Any(Cardinality(S))
    BY <2>1, <1>6
  <2> QED BY <2>2
<1>8. SumFunctionOnSet(f, {}) = 0
  BY <1>2, <1>3
<1>9. \A S \in SUBSET B : SumFunctionOnSet(f, S) \in Nat
  BY <1>3
<1>10. ASSUME NEW S \in SUBSET B, NEW x \in S
       PROVE SumFunctionOnSet(f, S) = f[x] + SumFunctionOnSet(f, S \ {x})
  <2>1. S \ {x} \in SUBSET B
    OBVIOUS
  <2> QED BY <2>1, <1>3, <1>7
<1> QED BY <1>8, <1>9, <1>10

\* Induction over the subsets of a finite set.
LEMMA InductionOverSubsets ==
    ASSUME NEW B, IsFiniteSet(B), NEW T, {} \in T,
           \A S \in SUBSET B : \A x \in B \ S : S \in T => S \cup {x} \in T
    PROVE  \A S \in SUBSET B : S \in T
<1> DEFINE In(n) == \A S \in SUBSET B : Cardinality(S) = n => S \in T
           U == {n \in Nat : In(n)}
<1>1. In(0)
  <2> TAKE S \in SUBSET B
  <2> HAVE Cardinality(S) = 0
  <2> QED BY FS_Subset, FS_EmptySet
<1>2. ASSUME NEW n \in Nat, In(n) PROVE In(n + 1)
  <2> TAKE S \in SUBSET B
  <2> HAVE Cardinality(S) = n + 1
  <2>1. PICK x \in S : TRUE
    BY FS_EmptySet
  <2>2. S \ {x} \in SUBSET B /\ Cardinality(S \ {x}) = n
    BY Smaller
  <2>3. S \ {x} \in T
    BY <2>2, <1>2
  <2>4. x \in B \ (S \ {x}) /\ (S \ {x}) \cup {x} = S
    BY <2>1
  <2> QED BY <2>2, <2>3, <2>4
<1>3. \A n \in Nat : n \in U
  <2> HIDE DEF In
  <2>1. 0 \in U
    BY <1>1
  <2>2. \A n \in Nat : n \in U => n + 1 \in U
    BY <1>2
  <2> HIDE DEF U
  <2> QED BY <2>1, <2>2, InductionOverNat
<1> TAKE S \in SUBSET B
<1>4. Cardinality(S) \in Nat
  BY FS_Subset, FS_CardinalityType
<1>5. In(Cardinality(S))
  BY <1>3, <1>4
<1> QED BY <1>5

\* What is added to a set is added to its sum.
LEMMA SumAdd ==
    ASSUME NEW B, IsFiniteSet(B), NEW f, \A x \in B : f[x] \in Nat,
           NEW S \in SUBSET B, NEW x \in B \ S
    PROVE  SumFunctionOnSet(f, S \cup {x}) = f[x] + SumFunctionOnSet(f, S)
<1>1. S \cup {x} \in SUBSET B /\ x \in S \cup {x} /\ (S \cup {x}) \ {x} = S
  OBVIOUS
<1> QED BY <1>1, SumRemove

\* The sum over two disjoint sets is the sum of their sums.
LEMMA SumDisjoint ==
    ASSUME NEW B, IsFiniteSet(B), NEW f, \A x \in B : f[x] \in Nat,
           NEW S \in SUBSET B, NEW R \in SUBSET B, S \cap R = {}
    PROVE  SumFunctionOnSet(f, S \cup R) = SumFunctionOnSet(f, S) + SumFunctionOnSet(f, R)
<1> DEFINE Holds(s) == s \cap R = {} =>
              SumFunctionOnSet(f, s \cup R) = SumFunctionOnSet(f, s) + SumFunctionOnSet(f, R)
           T == {s \in SUBSET B : Holds(s)}
<1>1. Holds({})
  <2>1. {} \cup R = R
    OBVIOUS
  <2>2. SumFunctionOnSet(f, {}) = 0 /\ SumFunctionOnSet(f, R) \in Nat
    BY SumRemove
  <2> QED BY <2>1, <2>2
<1>2. ASSUME NEW s \in SUBSET B, NEW x \in B \ s, Holds(s) PROVE Holds(s \cup {x})
  <2> HAVE (s \cup {x}) \cap R = {}
  <2>1. s \cap R = {} /\ x \notin R
    OBVIOUS
  <2> DEFINE u == s \cup R
             w == s \cup {x}
  <2>2. u \in SUBSET B /\ x \in B \ u /\ u \cup {x} = w \cup R
    BY <2>1
  <2>3. SumFunctionOnSet(f, u) = SumFunctionOnSet(f, s) + SumFunctionOnSet(f, R)
    BY <2>1, <1>2
  <2>4. SumFunctionOnSet(f, w) = f[x] + SumFunctionOnSet(f, s)
    BY SumAdd
  <2>5. SumFunctionOnSet(f, s) \in Nat /\ SumFunctionOnSet(f, R) \in Nat /\ f[x] \in Nat
    BY SumRemove
  <2> HIDE DEF u, w
  <2>6. SumFunctionOnSet(f, w \cup R) = f[x] + SumFunctionOnSet(f, u)
    BY <2>2, SumAdd
  <2>7. SumFunctionOnSet(f, w \cup R) = SumFunctionOnSet(f, w) + SumFunctionOnSet(f, R)
    BY <2>3, <2>4, <2>5, <2>6
  <2> QED BY <2>7 DEF w
<1>3. {} \in T
  BY <1>1
<1>4. \A s \in SUBSET B : \A x \in B \ s : s \in T => s \cup {x} \in T
  <2> HIDE DEF Holds
  <2> TAKE s \in SUBSET B
  <2> TAKE x \in B \ s
  <2> HAVE s \in T
  <2> QED BY <1>2
<1>5. S \in T
  <2> HIDE DEF T
  <2> QED BY <1>3, <1>4, InductionOverSubsets
<1> QED BY <1>5

\* A larger set has a larger sum.
LEMMA SumMonotone ==
    ASSUME NEW B, IsFiniteSet(B), NEW f, \A x \in B : f[x] \in Nat,
           NEW R \in SUBSET B, NEW S \in SUBSET R
    PROVE  SumFunctionOnSet(f, S) <= SumFunctionOnSet(f, R)
<1>1. S \in SUBSET B /\ R \ S \in SUBSET B /\ S \cap (R \ S) = {} /\ S \cup (R \ S) = R
  OBVIOUS
<1>2. SumFunctionOnSet(f, R) = SumFunctionOnSet(f, S) + SumFunctionOnSet(f, R \ S)
  BY <1>1, SumDisjoint
<1>3. SumFunctionOnSet(f, S) \in Nat /\ SumFunctionOnSet(f, R \ S) \in Nat
  BY <1>1, SumRemove
<1> QED BY <1>2, <1>3

\* Where f is g inside R and 0 outside it, the sum of f over S is that of g
\* over the part of S inside R.
LEMMA SumFiltered ==
    ASSUME NEW B, IsFiniteSet(B), NEW f, NEW g, \A x \in B : g[x] \in Nat,
           NEW R, \A x \in B : f[x] = (IF x \in R THEN g[x] ELSE 0),
           NEW S \in SUBSET B
    PROVE  SumFunctionOnSet(f, S) = SumFunctionOnSet(g, S \cap R)
<1> DEFINE Holds(s) == SumFunctionOnSet(f, s) = SumFunctionOnSet(g, s \cap R)
           T == {s \in SUBSET B : Holds(s)}
<1>0. \A x \in B : f[x] \in Nat
  OBVIOUS
<1>1. Holds({})
  <2>1. {} \cap R = {}
    OBVIOUS
  <2>2. SumFunctionOnSet(f, {}) = 0 /\ SumFunctionOnSet(g, {}) = 0
    BY <1>0, SumRemove
  <2> QED BY <2>1, <2>2
<1>2. ASSUME NEW s \in SUBSET B, NEW x \in B \ s, Holds(s) PROVE Holds(s \cup {x})
  <2>1. SumFunctionOnSet(f, s \cup {x}) = f[x] + SumFunctionOnSet(f, s)
    BY <1>0, SumAdd
  <2>2. SumFunctionOnSet(f, s) \in Nat
    BY <1>0, SumRemove
  <2>3. CASE x \in R
    <3>1. (s \cup {x}) \cap R = (s \cap R) \cup {x} /\ s \cap R \in SUBSET B
          /\ x \in B \ (s \cap R)
      BY <2>3
    <3>2. SumFunctionOnSet(g, (s \cap R) \cup {x}) = g[x] + SumFunctionOnSet(g, s \cap R)
      BY <3>1, SumAdd, SMTT(60)
    <3> QED BY <3>1, <3>2, <2>1, <2>3, <1>2
  <2>4. CASE x \notin R
    <3>1. (s \cup {x}) \cap R = s \cap R
      BY <2>4
    <3>2. f[x] = 0
      BY <2>4
    <3>3. SumFunctionOnSet(f, s \cup {x}) = SumFunctionOnSet(f, s)
      BY <3>2, <2>1, <2>2
    <3> QED BY <3>1, <3>3, <1>2, Zenon
  <2> QED BY <2>3, <2>4
<1>3. {} \in T
  BY <1>1
<1>4. \A s \in SUBSET B : \A x \in B \ s : s \in T => s \cup {x} \in T
  <2> HIDE DEF Holds
  <2> TAKE s \in SUBSET B
  <2> TAKE x \in B \ s
  <2> HAVE s \in T
  <2> QED BY <1>2
<1>5. S \in T
  <2> HIDE DEF T
  <2> QED BY <1>3, <1>4, InductionOverSubsets
<1> QED BY <1>5

\* Functions that agree on a set have the same sum over it.
LEMMA SumEqual ==
    ASSUME NEW S, IsFiniteSet(S), NEW f, NEW g, \A x \in S : g[x] \in Nat,
           \A x \in S : f[x] = g[x]
    PROVE  SumFunctionOnSet(f, S) = SumFunctionOnSet(g, S)
<1>1. \A x \in S : f[x] = (IF x \in S THEN g[x] ELSE 0)
  OBVIOUS
<1>2. SumFunctionOnSet(f, S) = SumFunctionOnSet(g, S \cap S)
  BY <1>1, SumFiltered
<1>3. S \cap S = S
  OBVIOUS
<1> QED BY <1>2, <1>3

\* A change of one entry changes the sum by as much.
LEMMA SumChange ==
    ASSUME NEW S, IsFiniteSet(S), NEW f, NEW g, NEW x \in S,
           \A y \in S : f[y] \in Nat /\ g[y] \in Nat,
           \A y \in S \ {x} : f[y] = g[y]
    PROVE  SumFunctionOnSet(f, S) + g[x] = SumFunctionOnSet(g, S) + f[x]
<1>1. IsFiniteSet(S \ {x}) /\ S \ {x} \in SUBSET S
  BY FS_Subset
<1>2. SumFunctionOnSet(f, S \ {x}) = SumFunctionOnSet(g, S \ {x})
  BY <1>1, SumEqual
<1>3. /\ SumFunctionOnSet(f, S) = f[x] + SumFunctionOnSet(f, S \ {x})
      /\ SumFunctionOnSet(g, S) = g[x] + SumFunctionOnSet(g, S \ {x})
      /\ SumFunctionOnSet(f, S \ {x}) \in Nat
  BY <1>1, SumRemove, SMTT(60)
<1> QED BY <1>2, <1>3
=============================================================================
