------------------------------ MODULE Counting ------------------------------
(***************************************************************************)
(* Lemmas about finite sets: induction over their subsets, sums over them, *)
(* minima, and the elements that weigh most.                               *)
(*                                                                         *)
(* The induction theorems of the library take the property as an operator. *)
(* Here a property is the set Good of what has it: of a set of subsets     *)
(* that are not in Good a minimal one exists (WFMin), for the strict order *)
(* by inclusion on the subsets of a finite set is well founded.            *)
(*                                                                         *)
(* A sum (SumFunctionOnSet) is a fold, and a fold is the value of a        *)
(* recursive function, which is a CHOOSE: SumSolvable shows that its       *)
(* equation has a solution, SolutionsAgree that it has no other, and from  *)
(* these follow the laws of sums that proofs use.                          *)
(***************************************************************************)
EXTENDS Integers, FiniteSets, FiniteSetsExt, FiniteSetTheorems, TLAPS

-----------------------------------------------------------------------------
(* Induction *)

\* What holds of a set when it holds of its proper subsets holds of a finite set.
LEMMA SubsetInduction ==
    ASSUME NEW S, IsFiniteSet(S), NEW Good,
           \A T \in SUBSET S : (\A U \in SUBSET T : U # T => U \in Good) => T \in Good
    PROVE  S \in Good
<1> DEFINE Bad == {T \in SUBSET S : T \notin Good}
<1>1. IsWellFoundedOn(StrictSubsetOrdering(S), SUBSET S)
  BY FS_StrictSubsetOrderingWellFounded, FS_FiniteSubsetsOfFinite
<1>2. SUFFICES ASSUME Bad # {}
               PROVE  FALSE
  OBVIOUS
<1>3. Bad \subseteq SUBSET S
  OBVIOUS
<1> HIDE DEF Bad
<1>4. PICK T \in Bad : \A U \in Bad : ~ (<<U, T>> \in StrictSubsetOrdering(S))
  BY <1>1, <1>2, <1>3, WFMin
<1>5. \A U \in SUBSET T : U # T => U \in Good
  <2> SUFFICES ASSUME NEW U \in SUBSET T, U # T, U \notin Good
               PROVE  FALSE
    OBVIOUS
  <2>1. U \in Bad
    BY <1>3 DEF Bad
  <2>2. <<U, T>> \in StrictSubsetOrdering(S)
    BY <1>3 DEF StrictSubsetOrdering
  <2> QED BY <1>4, <2>1, <2>2
<1> QED BY <1>4, <1>5 DEF Bad

\* What holds of the empty set and of a set with one more element does.
LEMMA GrowingInduction ==
    ASSUME NEW S, IsFiniteSet(S), NEW Good, {} \in Good,
           \A T \in SUBSET S : \A x \in S \ T : T \in Good => T \cup {x} \in Good
    PROVE  S \in Good
<1> SUFFICES ASSUME NEW T \in SUBSET S, \A U \in SUBSET T : U # T => U \in Good
             PROVE  T \in Good
  BY SubsetInduction
<1>1. CASE T = {}
  BY <1>1
<1>2. CASE T # {}
  <2>1. PICK x \in T : TRUE
    BY <1>2
  <2>2. T \ {x} \in Good
    OBVIOUS
  <2>3. x \in S \ (T \ {x}) /\ (T \ {x}) \cup {x} = T
    OBVIOUS
  <2> QED BY <2>2, <2>3
<1> QED BY <1>1, <1>2

\* A property of numbers that 0 has and that goes from a number to the next.
LEMMA CountingUp ==
    ASSUME NEW Good, 0 \in Good, \A n \in Nat : n \in Good => n + 1 \in Good
    PROVE  \A n \in Nat : n \in Good
<1> SUFFICES ASSUME NEW n \in Nat
             PROVE  n \in Good
  OBVIOUS
<1> DEFINE Sets == {T \in SUBSET (1..n) : Cardinality(T) \in Good}
<1>1. IsFiniteSet(1..n) /\ Cardinality(1..n) = n
  BY FS_Interval
<1>2. {} \in Sets
  BY FS_EmptySet
<1>3. ASSUME NEW T \in SUBSET (1..n), NEW x \in (1..n) \ T, T \in Sets
      PROVE  T \cup {x} \in Sets
  <2>1. IsFiniteSet(T) /\ Cardinality(T) \in Nat
    BY <1>1, FS_Subset, FS_CardinalityType
  <2>2. Cardinality(T \cup {x}) = Cardinality(T) + 1
    BY <2>1, FS_AddElement
  <2> QED BY <1>3, <2>1, <2>2
<1> HIDE DEF Sets
<1>4. 1..n \in Sets
  BY <1>1, <1>2, <1>3, GrowingInduction
<1> QED BY <1>1, <1>4 DEF Sets

-----------------------------------------------------------------------------
(* Sums *)

\* One step of a sum over s, which is f of the element CHOOSE gives plus the sum g
\* of the rest; a solution is a function on the subsets of S that takes that step
\* everywhere, and a sum is the value of one by definition.
SumStep(f, g, s) == IF s = {} THEN 0 ELSE LET x == CHOOSE x \in s : TRUE IN f[x] + g[s \ {x}]

Solves(f, S, g) == g = [s \in SUBSET S |-> SumStep(f, g, s)]

\* The community module says which function a sum is taken from.
LEMMA SumIs ==
    ASSUME NEW f, NEW S
    PROVE  SumFunctionOnSet(f, S) = (CHOOSE g : Solves(f, S, g))[S]
BY DEF SumFunctionOnSet, FoldFunctionOnSet, MapThenFoldSet, Solves, SumStep

\* The equation of a sum has a solution.
LEMMA SumSolvable ==
    ASSUME NEW S, IsFiniteSet(S), NEW f
    PROVE  \E g : Solves(f, S, g)
<1> DEFINE Small(n, s) == Cardinality(s) <= n
           Upto(n) == \E g : /\ g = [s \in SUBSET S |-> g[s]]
                             /\ \A s \in SUBSET S : Small(n, s) => g[s] = SumStep(f, g, s)
           Good == {n \in Nat : Upto(n)}
<1>1. \A s \in SUBSET S : IsFiniteSet(s) /\ Cardinality(s) \in Nat /\ Cardinality(s) <= Cardinality(S)
  BY FS_Subset, FS_CardinalityType
<1>2. 0 \in Good
  <2> DEFINE g == [s \in SUBSET S |-> 0]
  <2>1. g = [s \in SUBSET S |-> g[s]]
    OBVIOUS
  <2>2. ASSUME NEW s \in SUBSET S, Small(0, s)
        PROVE  g[s] = SumStep(f, g, s)
    <3>1. s = {}
      BY <1>1, <2>2, FS_EmptySet
    <3> QED BY <3>1 DEF SumStep
  <2> HIDE DEF g
  <2> QED BY <2>1, <2>2
<1>3. ASSUME NEW n \in Nat, n \in Good
      PROVE  n + 1 \in Good
  <2>1. PICK g : /\ g = [s \in SUBSET S |-> g[s]]
                 /\ \A s \in SUBSET S : Small(n, s) => g[s] = SumStep(f, g, s)
    BY <1>3
  <2> DEFINE h == [s \in SUBSET S |-> SumStep(f, g, s)]
  <2>2. h = [s \in SUBSET S |-> h[s]]
    OBVIOUS
  <2>3. ASSUME NEW s \in SUBSET S, Small(n + 1, s)
        PROVE  h[s] = SumStep(f, h, s)
    <3>1. CASE s = {}
      BY <3>1 DEF SumStep
    <3>2. CASE s # {}
      <4> DEFINE x == CHOOSE x \in s : TRUE
                 t == s \ {x}
      <4>1. x \in s
        BY <3>2
      <4>2. t \in SUBSET S /\ Cardinality(t) = Cardinality(s) - 1
        BY <1>1, <4>1, FS_RemoveElement
      <4>3. Small(n, t)
        BY <1>1, <1>3, <2>3, <4>2
      <4>4. h[t] = g[t]
        BY <2>1, <4>2, <4>3
      <4>5. h[s] = f[x] + g[t] /\ SumStep(f, h, s) = f[x] + h[t]
        BY <3>2 DEF SumStep
      <4> QED BY <4>4, <4>5
    <3> QED BY <3>1, <3>2
  <2> HIDE DEF h
  <2>4. Upto(n + 1)
    <3> WITNESS h
    <3> QED BY <2>2, <2>3
  <2> HIDE DEF Upto
  <2> QED BY <2>4
<1> HIDE DEF Good
<1>4. Cardinality(S) \in Good
  BY <1>1, <1>2, <1>3, CountingUp
<1>5. PICK g : /\ g = [s \in SUBSET S |-> g[s]]
               /\ \A s \in SUBSET S : Small(Cardinality(S), s) => g[s] = SumStep(f, g, s)
  BY <1>4 DEF Good
<1>6. \A s \in SUBSET S : g[s] = SumStep(f, g, s)
  BY <1>1, <1>5
<1>7. g = [s \in SUBSET S |-> SumStep(f, g, s)]
  BY <1>5, <1>6
<1> QED BY <1>7 DEF Solves

\* Solutions over different sets agree where both are defined.
LEMMA SolutionsAgree ==
    ASSUME NEW S, NEW T, NEW f, NEW g, NEW h, Solves(f, S, g), Solves(f, T, h),
           NEW U, IsFiniteSet(U), U \subseteq S, U \subseteq T
    PROVE  g[U] = h[U]
<1> DEFINE Good == {u \in SUBSET U : g[u] = h[u]}
<1> SUFFICES ASSUME NEW u \in SUBSET U, \A v \in SUBSET u : v # u => v \in Good
             PROVE  u \in Good
  <2> HIDE DEF Good
  <2>1. U \in Good
    BY SubsetInduction
  <2> QED BY <2>1 DEF Good
<1>1. g[u] = SumStep(f, g, u) /\ h[u] = SumStep(f, h, u)
  BY DEF Solves
<1>2. CASE u = {}
  BY <1>1, <1>2 DEF SumStep
<1>3. CASE u # {}
  <2> DEFINE x == CHOOSE x \in u : TRUE
             v == u \ {x}
  <2>1. x \in u
    BY <1>3
  <2>2. g[v] = h[v]
    BY <2>1
  <2>3. SumStep(f, g, u) = f[x] + g[v] /\ SumStep(f, h, u) = f[x] + h[v]
    BY <1>3 DEF SumStep
  <2> QED BY <1>1, <2>2, <2>3
<1> QED BY <1>2, <1>3

\* Whichever solution the definition chooses, a sum is a value of one.
LEMMA SumSolves ==
    ASSUME NEW S, IsFiniteSet(S), NEW f, NEW T \in SUBSET S
    PROVE  \E g : Solves(f, S, g) /\ SumFunctionOnSet(f, T) = g[T]
<1>1. PICK g : Solves(f, S, g)
  BY SumSolvable
<1>2. IsFiniteSet(T)
  BY FS_Subset
<1> DEFINE h == CHOOSE h : Solves(f, T, h)
<1>3. Solves(f, T, h)
  BY <1>2, SumSolvable
<1>4. SumFunctionOnSet(f, T) = h[T]
  BY SumIs
<1> HIDE DEF h
<1>5. h[T] = g[T]
  BY <1>1, <1>2, <1>3, SolutionsAgree
<1> QED BY <1>1, <1>4, <1>5

\* A sum over nothing.
LEMMA SumOfNone ==
    ASSUME NEW f
    PROVE  SumFunctionOnSet(f, {}) = 0
<1>1. PICK g : Solves(f, {}, g) /\ SumFunctionOnSet(f, {}) = g[{}]
  BY SumSolves, FS_EmptySet
<1> QED BY <1>1 DEF Solves, SumStep

\* A sum takes some element first.
LEMMA SumByFirst ==
    ASSUME NEW S, IsFiniteSet(S), S # {}, NEW f
    PROVE  \E x \in S : SumFunctionOnSet(f, S) = f[x] + SumFunctionOnSet(f, S \ {x})
<1> DEFINE x == CHOOSE x \in S : TRUE
           T == S \ {x}
<1>1. x \in S
  OBVIOUS
<1>2. PICK g : Solves(f, S, g) /\ SumFunctionOnSet(f, S) = g[S]
  BY SumSolves
<1>3. PICK h : Solves(f, S, h) /\ SumFunctionOnSet(f, T) = h[T]
  BY SumSolves
<1>4. g[S] = SumStep(f, g, S)
  BY <1>2 DEF Solves
<1>5. SumStep(f, g, S) = f[x] + g[T]
  BY DEF SumStep
<1>6. g[T] = h[T]
  <2>1. IsFiniteSet(T)
    BY FS_Subset
  <2> QED BY <1>2, <1>3, <2>1, SolutionsAgree
<1> QED BY <1>1, <1>2, <1>3, <1>4, <1>5, <1>6

\* A sum of natural numbers is one.
LEMMA SumNatural ==
    ASSUME NEW S, IsFiniteSet(S), NEW f, \A x \in S : f[x] \in Nat
    PROVE  SumFunctionOnSet(f, S) \in Nat
<1> DEFINE Good == {T \in SUBSET S : SumFunctionOnSet(f, T) \in Nat}
<1> SUFFICES ASSUME NEW T \in SUBSET S, \A U \in SUBSET T : U # T => U \in Good
             PROVE  T \in Good
  <2> HIDE DEF Good
  <2>1. S \in Good
    BY SubsetInduction
  <2> QED BY <2>1 DEF Good
<1>1. CASE T = {}
  BY <1>1, SumOfNone
<1>2. CASE T # {}
  <2>1. PICK x \in T : SumFunctionOnSet(f, T) = f[x] + SumFunctionOnSet(f, T \ {x})
    BY <1>2, FS_Subset, SumByFirst
  <2>2. SumFunctionOnSet(f, T \ {x}) \in Nat
    OBVIOUS
  <2> QED BY <2>1, <2>2
<1> QED BY <1>1, <1>2

\* Any element may be taken first.
LEMMA SumBy ==
    ASSUME NEW S, IsFiniteSet(S), NEW f, \A x \in S : f[x] \in Nat, NEW y \in S
    PROVE  SumFunctionOnSet(f, S) = f[y] + SumFunctionOnSet(f, S \ {y})
<1> DEFINE Sum(T) == SumFunctionOnSet(f, T)
           Good == {T \in SUBSET S : \A z \in T : Sum(T) = f[z] + Sum(T \ {z})}
<1>1. \A T \in SUBSET S : IsFiniteSet(T) /\ Sum(T) \in Nat
  BY FS_Subset, SumNatural
<1> SUFFICES ASSUME NEW T \in SUBSET S, \A U \in SUBSET T : U # T => U \in Good,
                    NEW z \in T
             PROVE  Sum(T) = f[z] + Sum(T \ {z})
  <2>1. \A T \in SUBSET S : (\A U \in SUBSET T : U # T => U \in Good) => T \in Good
    OBVIOUS
  <2> HIDE DEF Good
  <2>2. S \in Good
    BY <2>1, SubsetInduction
  <2> QED BY <2>2 DEF Good
<1>2. PICK x \in T : Sum(T) = f[x] + Sum(T \ {x})
  BY <1>1, SumByFirst
<1>3. CASE x = z
  BY <1>2, <1>3
<1>4. CASE x # z
  <2> DEFINE U == T \ {x}
             V == T \ {z}
             W == T \ {x, z}
  <2>1. U \in Good /\ V \in Good
    OBVIOUS
  <2>2. z \in U /\ x \in V /\ U \ {z} = W /\ V \ {x} = W
    BY <1>4
  <2>3. Sum(U) = f[z] + Sum(W)
    BY <2>1, <2>2
  <2>4. Sum(V) = f[x] + Sum(W)
    BY <2>1, <2>2
  <2>5. f[x] \in Nat /\ f[z] \in Nat /\ Sum(W) \in Nat
    BY <1>1
  <2>6. Sum(T) = f[x] + (f[z] + Sum(W))
    BY <1>2, <2>3
  <2> HIDE DEF Sum
  <2> QED BY <2>4, <2>5, <2>6
<1> QED BY <1>3, <1>4

\* A smaller function has a smaller sum.
LEMMA SumMonotonic ==
    ASSUME NEW S, IsFiniteSet(S), NEW f, NEW g,
           \A x \in S : f[x] \in Nat /\ g[x] \in Nat /\ f[x] <= g[x]
    PROVE  SumFunctionOnSet(f, S) <= SumFunctionOnSet(g, S)
<1> DEFINE Good == {T \in SUBSET S : SumFunctionOnSet(f, T) <= SumFunctionOnSet(g, T)}
<1>1. {} \in Good
  BY SumOfNone
<1>2. ASSUME NEW T \in SUBSET S, NEW x \in S \ T, T \in Good
      PROVE  T \cup {x} \in Good
  <2> DEFINE U == T \cup {x}
  <2>1. IsFiniteSet(T) /\ IsFiniteSet(U) /\ U \subseteq S /\ U \ {x} = T /\ x \in U
    BY FS_Subset
  <2>2. SumFunctionOnSet(f, U) = f[x] + SumFunctionOnSet(f, U \ {x})
    BY <2>1, SumBy
  <2>3. SumFunctionOnSet(g, U) = g[x] + SumFunctionOnSet(g, U \ {x})
    BY <2>1, SumBy
  <2>4. SumFunctionOnSet(f, T) \in Nat /\ SumFunctionOnSet(g, T) \in Nat
    BY <2>1, SumNatural
  <2> QED BY <1>2, <2>1, <2>2, <2>3, <2>4
<1> HIDE DEF Good
<1>3. S \in Good
  BY <1>1, <1>2, GrowingInduction
<1> QED BY <1>3 DEF Good

\* The sum of the sizes of disjoint sets is the size of their union.
LEMMA SumOfSizes ==
    ASSUME NEW S, IsFiniteSet(S), NEW X, IsFiniteSet(X), NEW p \in [S -> SUBSET X],
           \A a, b \in S : a # b => p[a] \cap p[b] = {},
           NEW f, \A a \in S : f[a] = Cardinality(p[a])
    PROVE  SumFunctionOnSet(f, S) = Cardinality(UNION {p[a] : a \in S})
<1> DEFINE All(T) == UNION {p[a] : a \in T}
           Good == {T \in SUBSET S : SumFunctionOnSet(f, T) = Cardinality(All(T))}
<1>1. \A Y \in SUBSET X : IsFiniteSet(Y) /\ Cardinality(Y) \in Nat
  BY FS_Subset, FS_CardinalityType
<1>2. \A a \in S : f[a] \in Nat
  BY <1>1
<1>3. {} \in Good
  <2>1. All({}) = {}
    OBVIOUS
  <2> QED BY <2>1, SumOfNone, FS_EmptySet
<1>4. ASSUME NEW T \in SUBSET S, NEW x \in S \ T, T \in Good
      PROVE  T \cup {x} \in Good
  <2> DEFINE U == T \cup {x}
             A == All(T)
             B == All(U)
  <2>1. IsFiniteSet(T) /\ IsFiniteSet(U) /\ U \subseteq S /\ U \ {x} = T /\ x \in U
    BY FS_Subset
  <2>2. SumFunctionOnSet(f, U) = f[x] + SumFunctionOnSet(f, U \ {x})
    BY <1>2, <2>1, SumBy
  <2>3. B = A \cup p[x] /\ A \cap p[x] = {} /\ A \in SUBSET X /\ p[x] \in SUBSET X
    OBVIOUS
  <2>4. SumFunctionOnSet(f, T) = Cardinality(A)
    BY <1>4
  <2> HIDE DEF A, B
  <2>5. Cardinality(A \cup p[x]) = Cardinality(A) + Cardinality(p[x]) - Cardinality(A \cap p[x])
    BY <1>1, <2>3, FS_Union
  <2>6. Cardinality(A \cap p[x]) = 0
    BY <2>3, FS_EmptySet
  <2>7. Cardinality(A) \in Nat /\ Cardinality(p[x]) \in Nat /\ f[x] = Cardinality(p[x])
    BY <1>1, <2>3
  <2> HIDE DEF U
  <2>8. SumFunctionOnSet(f, U) = Cardinality(B)
    <3>1. SumFunctionOnSet(f, U) = Cardinality(p[x]) + Cardinality(A)
      BY <2>1, <2>2, <2>4, <2>7
    <3>2. Cardinality(B) = Cardinality(A) + Cardinality(p[x])
      BY <2>3, <2>5, <2>6, <2>7
    <3> QED BY <2>7, <3>1, <3>2
  <2> QED BY <2>1, <2>8 DEF U, B
<1> HIDE DEF Good
<1>5. S \in Good
  BY <1>3, <1>4, GrowingInduction
<1> QED BY <1>5 DEF Good

\* Numbers no larger than the sizes of disjoint sets add up to no more than there is.
LEMMA SumWithinSizes ==
    ASSUME NEW S, IsFiniteSet(S), NEW X, IsFiniteSet(X), NEW p \in [S -> SUBSET X],
           \A a, b \in S : a # b => p[a] \cap p[b] = {},
           NEW f, \A a \in S : f[a] \in Nat /\ f[a] <= Cardinality(p[a])
    PROVE  SumFunctionOnSet(f, S) <= Cardinality(X)
<1> DEFINE g == [a \in S |-> Cardinality(p[a])]
           All == UNION {p[a] : a \in S}
<1>1. \A a \in S : f[a] \in Nat /\ g[a] \in Nat /\ f[a] <= g[a]
  BY FS_Subset, FS_CardinalityType
<1>2. SumFunctionOnSet(f, S) <= SumFunctionOnSet(g, S)
  BY <1>1, SumMonotonic
<1>3. SumFunctionOnSet(g, S) = Cardinality(All)
  <2>1. \A a \in S : g[a] = Cardinality(p[a])
    OBVIOUS
  <2> HIDE DEF g
  <2> QED BY <2>1, SumOfSizes
<1>4. IsFiniteSet(All) /\ Cardinality(All) <= Cardinality(X)
  BY FS_Subset
<1>5. Cardinality(All) \in Nat /\ Cardinality(X) \in Nat /\ SumFunctionOnSet(f, S) \in Nat
  BY <1>1, <1>4, FS_CardinalityType, SumNatural
<1> QED BY <1>2, <1>3, <1>4, <1>5

-----------------------------------------------------------------------------
(* Minima and the top of a set *)

\* A minimum of two or of three numbers.
LEMMA MinIs ==
    ASSUME NEW a \in Nat, NEW b \in Nat
    PROVE  Min({a, b}) = IF a <= b THEN a ELSE b
BY DEF Min

LEMMA MinIsOfThree ==
    ASSUME NEW a \in Nat, NEW b \in Nat, NEW c \in Nat
    PROVE  LET m == Min({a, b, c}) IN m \in Nat /\ m <= a /\ m <= b /\ m <= c
<1>1. \E x \in {a, b, c} : \A y \in {a, b, c} : x <= y
  <2>1. CASE a <= b /\ a <= c
    BY <2>1
  <2>2. CASE b <= a /\ b <= c
    BY <2>2
  <2>3. CASE c <= a /\ c <= b
    BY <2>3
  <2> QED BY <2>1, <2>2, <2>3
<1>2. Min({a, b, c}) \in {a, b, c} /\ \A y \in {a, b, c} : Min({a, b, c}) <= y
  BY <1>1 DEF Min
<1> QED BY <1>2

\* The image of a finite set is finite and no larger.
LEMMA ImageFinite ==
    ASSUME NEW S, IsFiniteSet(S), NEW f
    PROVE  /\ IsFiniteSet({f[x] : x \in S})
           /\ Cardinality({f[x] : x \in S}) <= Cardinality(S)
<1> DEFINE T == {f[x] : x \in S}
           g == [x \in S |-> f[x]]
<1>1. g \in Surjection(S, T)
  BY DEF Surjection
<1> QED BY <1>1, FS_Surjection

\* Some element of a finite set weighs most.
LEMMA HasLargest ==
    ASSUME NEW S, IsFiniteSet(S), S # {}, NEW w, \A x \in S : w[x] \in Nat
    PROVE  \E x \in S : \A y \in S : w[x] >= w[y]
<1> DEFINE Good == {T \in SUBSET S : T # {} => \E x \in T : \A y \in T : w[x] >= w[y]}
<1>1. {} \in Good
  OBVIOUS
<1>2. ASSUME NEW T \in SUBSET S, NEW z \in S \ T, T \in Good
      PROVE  T \cup {z} \in Good
  <2>1. CASE T = {}
    BY <2>1
  <2>2. CASE T # {}
    <3>1. PICK x \in T : \A y \in T : w[x] >= w[y]
      BY <1>2, <2>2
    <3>2. CASE w[z] >= w[x]
      <4>1. \A y \in T \cup {z} : w[z] >= w[y]
        BY <3>1, <3>2
      <4> QED BY <4>1
    <3>3. CASE ~(w[z] >= w[x])
      <4>1. \A y \in T \cup {z} : w[x] >= w[y]
        BY <3>1, <3>3
      <4> QED BY <4>1
    <3> QED BY <3>2, <3>3
  <2> QED BY <2>1, <2>2
<1> HIDE DEF Good
<1>3. S \in Good
  BY <1>1, <1>2, GrowingInduction
<1> QED BY <1>3 DEF Good

\* For any k there are k elements, or all if there are not so many, that none of
\* the others exceeds.
LEMMA HasTop ==
    ASSUME NEW S, IsFiniteSet(S), NEW w, \A x \in S : w[x] \in Nat, NEW k \in Nat
    PROVE  \E top \in SUBSET S :
              /\ Cardinality(top) = IF k <= Cardinality(S) THEN k ELSE Cardinality(S)
              /\ \A x \in top, y \in S \ top : w[x] >= w[y]
<1> DEFINE Size(n) == IF n <= Cardinality(S) THEN n ELSE Cardinality(S)
           Top(n, top) == /\ Cardinality(top) = Size(n)
                          /\ \A x \in top, y \in S \ top : w[x] >= w[y]
           Good == {n \in Nat : \E top \in SUBSET S : Top(n, top)}
<1>1. Cardinality(S) \in Nat
  BY FS_CardinalityType
<1>2. 0 \in Good
  <2>1. {} \in SUBSET S /\ Top(0, {})
    BY <1>1, FS_EmptySet
  <2> HIDE DEF Top
  <2> QED BY <2>1
<1>3. ASSUME NEW n \in Nat, n \in Good
      PROVE  n + 1 \in Good
  <2>1. PICK top \in SUBSET S : Top(n, top)
    BY <1>3
  <2>2. IsFiniteSet(top) /\ IsFiniteSet(S \ top)
    BY FS_Subset
  <2>3. CASE S \ top = {}
    <3>1. Top(n + 1, top)
      BY <1>1, <2>1, <2>3
    <3> HIDE DEF Top
    <3> QED BY <3>1
  <2>4. CASE S \ top # {}
    <3>1. PICK x \in S \ top : \A y \in S \ top : w[x] >= w[y]
      BY <2>2, <2>4, HasLargest
    <3> DEFINE more == top \cup {x}
    <3>2. Cardinality(more) = Cardinality(top) + 1
      BY <2>2, FS_AddElement
    <3>3. Cardinality(more) <= Cardinality(S)
      BY FS_Subset
    <3>4. Cardinality(top) \in Nat
      BY <2>2, FS_CardinalityType
    <3>5. Cardinality(more) = Size(n + 1)
      BY <1>1, <2>1, <3>2, <3>3, <3>4
    <3>6. \A v \in more, y \in S \ more : w[v] >= w[y]
      BY <2>1, <3>1
    <3>7. more \in SUBSET S /\ Top(n + 1, more)
      BY <3>5, <3>6
    <3> HIDE DEF more, Top
    <3> QED BY <3>7
  <2> QED BY <2>3, <2>4
<1> HIDE DEF Good
<1>4. k \in Good
  BY <1>2, <1>3, CountingUp
<1> QED BY <1>4 DEF Good

=============================================================================
