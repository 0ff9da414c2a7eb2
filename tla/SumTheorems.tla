----------------------------- MODULE SumTheorems -----------------------------
(***************************************************************************)
(* Sums over finite sets.  MapThenSumSet of the community modules adds up  *)
(* the elements in the order CHOOSE takes them; the facts below say that   *)
(* it is a sum: defined on every finite set, independent of that order.    *)
(*                                                                         *)
(* Its recursion is over the subsets of the set it adds up.  The functions *)
(* that satisfy the recursion are called IsSum here, and the inductions    *)
(* look at a smallest counterexample, which WFMin provides.                *)
(***************************************************************************)
EXTENDS Integers, FiniteSets, FiniteSetsExt, Functions, FiniteSetTheorems, TLAPS

\* The element that is added first.
Pick(s) == CHOOSE x \in s : TRUE

\* g maps every subset of S to the sum of the weights of its elements.
IsSum(g, w, S) ==
  g = [s \in SUBSET S |-> IF s = {} THEN 0 ELSE w[Pick(s)] + g[s \ {Pick(s)}]]

\* The element taken is an element.
LEMMA PickInSet == ASSUME NEW s, s # {} PROVE Pick(s) \in s
BY DEF Pick

\* The sum over nothing.
LEMMA SumEmpty ==
  ASSUME NEW S, NEW w, NEW g, IsSum(g, w, S) PROVE g[{}] = 0
BY DEF IsSum

\* What a sum is on a set that is not empty.
LEMMA SumValue ==
  ASSUME NEW S, NEW w, NEW g, IsSum(g, w, S), NEW T \in SUBSET S, T # {}
  PROVE  g[T] = w[Pick(T)] + g[T \ {Pick(T)}]
BY DEF IsSum

\* A property of sets that fails for a subset of a finite set fails for one
\* whose proper subsets have it.
LEMMA SmallestSet ==
  ASSUME NEW S, IsFiniteSet(S), NEW C \in SUBSET (SUBSET S), C # {}
  PROVE  \E T \in C : \A U \in SUBSET T : U # T => U \notin C
<1>1. IsWellFoundedOn(StrictSubsetOrdering(S), SUBSET S)
  BY FS_StrictSubsetOrderingWellFounded, FS_FiniteSubsetsOfFinite
<1>2. PICK T \in C : \A U \in C : ~ (<<U, T>> \in StrictSubsetOrdering(S))
  BY <1>1, WFMin
<1>3. ASSUME NEW U \in SUBSET T, U # T, U \in C PROVE FALSE
  <2>1. <<U, T>> \in (SUBSET S) \X (SUBSET S)
    BY <1>2, <1>3
  <2>2. <<U, T>> \in StrictSubsetOrdering(S)
    BY <2>1, <1>3 DEF StrictSubsetOrdering
  <2> QED
    BY <1>2, <1>3, <2>2
<1> QED
  BY <1>2, <1>3

\* Sums of integers are integers.
LEMMA SumType ==
  ASSUME NEW S, IsFiniteSet(S), NEW w \in [S -> Int], NEW g, IsSum(g, w, S)
  PROVE  \A T \in SUBSET S : g[T] \in Int
<1> DEFINE C == {T \in SUBSET S : g[T] \notin Int}
<1> SUFFICES ASSUME C # {} PROVE FALSE
  OBVIOUS
<1>1. PICK T \in C : \A U \in SUBSET T : U # T => U \notin C
  <2> C \in SUBSET (SUBSET S)
    OBVIOUS
  <2> HIDE DEF C
  <2> QED
    BY SmallestSet
<1>2. T # {}
  <2>1. g[{}] \in Int
    BY SumEmpty
  <2> QED
    BY <1>1, <2>1
<1>3. Pick(T) \in T /\ Pick(T) \in S
  BY <1>1, <1>2, PickInSet
<1>4. g[T \ {Pick(T)}] \in Int
  BY <1>1, <1>3
<1>5. g[T] = w[Pick(T)] + g[T \ {Pick(T)}]
  <2>1. T \in SUBSET S
    BY <1>1
  <2> HIDE DEF C
  <2> QED
    BY <1>2, <2>1, SumValue
<1>6. w[Pick(T)] \in Int
  BY <1>3
<1> QED
  BY <1>1, <1>4, <1>5, <1>6

\* Two sums agree on every set on which their weights agree.
LEMMA SumAgree ==
  ASSUME NEW S, IsFiniteSet(S), NEW w, NEW g, IsSum(g, w, S),
         NEW R, NEW v, NEW h, IsSum(h, v, R),
         NEW D \in SUBSET S, D \subseteq R, \A x \in D : w[x] = v[x]
  PROVE  g[D] = h[D]
<1> DEFINE C == {T \in SUBSET D : g[T] # h[T]}
<1> SUFFICES ASSUME C # {} PROVE FALSE
  OBVIOUS
<1>1. PICK T \in C : \A U \in SUBSET T : U # T => U \notin C
  <2> C \in SUBSET (SUBSET S)
    OBVIOUS
  <2> HIDE DEF C
  <2> QED
    BY SmallestSet
<1>2. T \in SUBSET S /\ T \in SUBSET R /\ T \in SUBSET D
  BY <1>1
<1>3. T # {}
  <2>1. g[{}] = 0
    BY SumEmpty
  <2>2. h[{}] = 0
    BY SumEmpty
  <2> QED
    BY <1>1, <2>1, <2>2
<1>4. Pick(T) \in T
  BY <1>3, PickInSet
<1>5. g[T \ {Pick(T)}] = h[T \ {Pick(T)}]
  BY <1>1, <1>2, <1>4
<1>6. g[T] = w[Pick(T)] + g[T \ {Pick(T)}]
  BY <1>2, <1>3, SumValue
<1>7. h[T] = v[Pick(T)] + h[T \ {Pick(T)}]
  BY <1>2, <1>3, SumValue
<1>8. w[Pick(T)] = v[Pick(T)]
  BY <1>2, <1>4
<1> QED
  BY <1>1, <1>5, <1>6, <1>7, <1>8

\* Any element may be taken first.
LEMMA SumSplit ==
  ASSUME NEW S, IsFiniteSet(S), NEW w \in [S -> Int], NEW g, IsSum(g, w, S),
         NEW D \in SUBSET S, NEW a \in D
  PROVE  g[D] = w[a] + g[D \ {a}]
<1> DEFINE C == {T \in SUBSET S : \E x \in T : g[T] # w[x] + g[T \ {x}]}
<1> SUFFICES ASSUME C # {} PROVE FALSE
  OBVIOUS
<1>1. PICK T \in C : \A U \in SUBSET T : U # T => U \notin C
  <2> C \in SUBSET (SUBSET S)
    OBVIOUS
  <2> HIDE DEF C
  <2> QED
    BY SmallestSet
<1>2. PICK x \in T : g[T] # w[x] + g[T \ {x}]
  BY <1>1
<1> DEFINE c == Pick(T)
<1>3. T \in SUBSET S /\ T # {}
  BY <1>1, <1>2
<1>4. c \in T
  BY <1>3, PickInSet
<1>5. g[T] = w[c] + g[T \ {c}]
  BY <1>3, SumValue
<1> HIDE DEF c
<1>6. x # c
  BY <1>2, <1>5
<1>7. T \ {c} \notin C /\ T \ {x} \notin C
  BY <1>1, <1>2, <1>4
<1>8. g[T \ {c}] = w[x] + g[(T \ {c}) \ {x}]
  BY <1>2, <1>3, <1>6, <1>7
<1>9. g[T \ {x}] = w[c] + g[(T \ {x}) \ {c}]
  BY <1>3, <1>4, <1>6, <1>7
<1>10. (T \ {x}) \ {c} = (T \ {c}) \ {x}
  OBVIOUS
<1>11. w[x] \in Int /\ w[c] \in Int /\ g[(T \ {c}) \ {x}] \in Int
  <2>1. (T \ {c}) \ {x} \in SUBSET S
    BY <1>3
  <2> QED
    BY <1>2, <1>3, <1>4, <2>1, SumType
<1>12. w[c] + g[T \ {c}] = w[x] + g[T \ {x}]
  <2> DEFINE r == g[(T \ {c}) \ {x}]
  <2>1. g[T \ {c}] = w[x] + r /\ g[T \ {x}] = w[c] + r /\ r \in Int
    BY <1>8, <1>9, <1>10, <1>11
  <2> HIDE DEF r, C
  <2> QED
    BY <2>1, <1>11
<1> QED
  BY <1>2, <1>5, <1>12

\* Every finite set has its sums.
LEMMA SumExists ==
  ASSUME NEW S, IsFiniteSet(S), NEW w PROVE \E g : IsSum(g, w, S)
<1> DEFINE C == {T \in SUBSET S : ~ \E g : IsSum(g, w, T)}
           G(T) == CHOOSE g : IsSum(g, w, T)
           rest(s) == s \ {Pick(s)}
<1> SUFFICES ASSUME C # {} PROVE FALSE
  OBVIOUS
<1>1. PICK T \in C : \A U \in SUBSET T : U # T => U \notin C
  <2> C \in SUBSET (SUBSET S)
    OBVIOUS
  <2> HIDE DEF C
  <2> QED
    BY SmallestSet
<1>2. T \in SUBSET S /\ ~ \E g : IsSum(g, w, T)
  BY <1>1
<1>3. ASSUME NEW U \in SUBSET T, U # T PROVE IsSum(G(U), w, U)
  <2>1. U \in SUBSET S /\ U \notin C
    BY <1>1, <1>2, <1>3
  <2>2. \E g : IsSum(g, w, U)
    BY <2>1
  <2> QED
    BY <2>2
<1> HIDE DEF G, C
<1> DEFINE f == [s \in SUBSET T |->
                   IF s = {} THEN 0 ELSE w[Pick(s)] + G(rest(s))[rest(s)]]
<1>4. ASSUME NEW s \in SUBSET T, s # {} PROVE f[rest(s)] = G(rest(s))[rest(s)]
  <2> DEFINE r == rest(s)
  <2>1. Pick(s) \in s
    BY <1>4, PickInSet
  <2>2. r \in SUBSET T /\ r # T /\ r \in SUBSET r
    BY <2>1
  <2> HIDE DEF r
  <2>3. IsSum(G(r), w, r)
    BY <2>2, <1>3
  <2>4. CASE r = {}
    <3>1. f[{}] = 0
      OBVIOUS
    <3>2. G(r)[{}] = 0
      BY <2>3, SumEmpty
    <3> QED
      BY <2>4, <3>1, <3>2 DEF r
  <2>5. CASE r # {}
    <3> DEFINE q == rest(r)
    <3>1. Pick(r) \in r
      BY <2>5, PickInSet
    <3>2. q \in SUBSET T /\ q # T /\ q \in SUBSET r /\ q \in SUBSET q
      BY <2>2, <3>1
    <3>3. f[r] = w[Pick(r)] + G(q)[q]
      BY <2>2, <2>5
    <3>4. G(r)[r] = w[Pick(r)] + G(r)[q]
      BY <2>2, <2>3, <2>5, SumValue
    <3> HIDE DEF q, f
    <3>5. IsSum(G(q), w, q)
      BY <3>2, <1>3
    <3>6. IsFiniteSet(r)
      BY <2>2, <1>2, FS_Subset
    <3>7. G(r)[q] = G(q)[q]
      BY <2>3, <3>2, <3>5, <3>6, SumAgree
    <3> QED
      BY <3>3, <3>4, <3>7 DEF r
  <2> QED
    BY <2>4, <2>5
<1>5. f = [s \in SUBSET T |-> IF s = {} THEN 0 ELSE w[Pick(s)] + f[rest(s)]]
  BY <1>4
<1>6. IsSum(f, w, T)
  <2> HIDE DEF f
  <2> QED
    BY <1>5 DEF IsSum
<1> QED
  BY <1>2, <1>6

\* A sum without one of its elements.
LEMMA SumWithout ==
  ASSUME NEW T, IsFiniteSet(T), NEW w \in [T -> Int], NEW g, IsSum(g, w, T),
         NEW a \in T, NEW S, S = T \ {a}
  PROVE  g[T] = g[S] + w[a] /\ g[S] \in Int /\ w[a] \in Int
<1>1. T \in SUBSET T /\ S \in SUBSET T
  OBVIOUS
<1>2. g[T] = w[a] + g[T \ {a}]
  BY <1>1, SumSplit
<1>3. g[S] \in Int /\ w[a] \in Int
  BY <1>1, SumType
<1>4. g[T] = w[a] + g[S]
  BY <1>2
<1> QED
  BY <1>3, <1>4

\* The sum over a set and the sum over the set with one more element.
LEMMA SumAdded ==
  ASSUME NEW S, IsFiniteSet(S), NEW v \in [S -> Int], NEW h, IsSum(h, v, S),
         NEW a, a \notin S, NEW T, T = S \cup {a},
         NEW w \in [T -> Int], NEW g, IsSum(g, w, T),
         \A x \in S : w[x] = v[x]
  PROVE  g[T] = h[S] + w[a] /\ h[S] \in Int
<1>1. /\ S \in SUBSET T /\ S \in SUBSET S /\ a \in T /\ S = T \ {a}
  OBVIOUS
<1>2. IsFiniteSet(T)
  BY FS_AddElement
<1>3. g[T] = g[S] + w[a] /\ g[S] \in Int
  BY <1>1, <1>2, SumWithout
<1>4. g[S] = h[S]
  BY <1>1, <1>2, SumAgree
<1> QED
  BY <1>3, <1>4

\* Zeroes add up to zero.
LEMMA SumZero ==
  ASSUME NEW S, IsFiniteSet(S), NEW w, NEW g, IsSum(g, w, S),
         NEW D \in SUBSET S, \A x \in D : w[x] = 0
  PROVE  g[D] = 0
<1> DEFINE C == {T \in SUBSET D : g[T] # 0}
<1> SUFFICES ASSUME C # {} PROVE FALSE
  OBVIOUS
<1>1. PICK T \in C : \A U \in SUBSET T : U # T => U \notin C
  <2> C \in SUBSET (SUBSET S)
    OBVIOUS
  <2> HIDE DEF C
  <2> QED
    BY SmallestSet
<1>2. T \in SUBSET S /\ T \in SUBSET D
  BY <1>1
<1>3. T # {}
  BY <1>1, SumEmpty
<1>4. Pick(T) \in T
  BY <1>3, PickInSet
<1>5. g[T \ {Pick(T)}] = 0
  BY <1>1, <1>2, <1>4
<1>6. g[T] = w[Pick(T)] + g[T \ {Pick(T)}]
  <2> HIDE DEF C
  <2> QED
    BY <1>2, <1>3 DEF IsSum
<1>7. w[Pick(T)] = 0
  BY <1>2, <1>4
<1> QED
  BY <1>1, <1>5, <1>6, <1>7

\* A sum with one term that is not zero is that term.
LEMMA SumSingle ==
  ASSUME NEW S, IsFiniteSet(S), NEW w \in [S -> Int], NEW g, IsSum(g, w, S),
         NEW a \in S, \A x \in S : x # a => w[x] = 0
  PROVE  g[S] = w[a]
<1>1. PICK D : D = S \ {a}
  OBVIOUS
<1>2. g[S] = g[D] + w[a] /\ w[a] \in Int
  BY <1>1, SumWithout
<1>3. g[D] = 0
  BY <1>1, SumZero
<1> QED
  BY <1>2, <1>3

(***************************************************************************)
(* SumFunction adds up the values of a function.                           *)
(***************************************************************************)

\* SumFunction is a sum.
LEMMA FunctionSum ==
  ASSUME NEW f, IsFiniteSet(DOMAIN f)
  PROVE  \E g : IsSum(g, f, DOMAIN f) /\ SumFunction(f) = g[DOMAIN f]
<1> DEFINE S == DOMAIN f
           P(h) == h = [s \in SUBSET S |->
                          IF s = {} THEN 0
                          ELSE f[CHOOSE x \in s : TRUE] + h[s \ {CHOOSE x \in s : TRUE}]]
<1>1. SumFunction(f) = (CHOOSE h : P(h))[S]
  BY DEF SumFunction, SumFunctionOnSet, FoldFunctionOnSet, MapThenFoldSet
<1>2. ASSUME NEW g PROVE IsSum(g, f, S) <=> P(g)
  BY DEF Pick, IsSum
<1>3. \E h : P(h)
  <2>1. PICK g : IsSum(g, f, S)
    BY SumExists
  <2>2. P(g)
    BY <2>1 DEF Pick, IsSum
  <2> HIDE DEF P
  <2> QED
    BY <2>2
<1>4. P(CHOOSE h : P(h))
  <2> HIDE DEF P
  <2> QED
    BY <1>3
<1> QED
  BY <1>1, <1>2, <1>4

\* A function without values adds up to 0.
LEMMA FunctionSumEmpty == ASSUME NEW f, DOMAIN f = {} PROVE SumFunction(f) = 0
<1>1. PICK g : IsSum(g, f, {}) /\ SumFunction(f) = g[{}]
  BY FunctionSum, FS_EmptySet
<1> QED
  BY <1>1, SumEmpty

\* Integers add up to an integer.
LEMMA FunctionSumInt ==
  ASSUME NEW S, IsFiniteSet(S), NEW f \in [S -> Int] PROVE SumFunction(f) \in Int
<1>1. DOMAIN f = S
  OBVIOUS
<1>2. PICK g : IsSum(g, f, S) /\ SumFunction(f) = g[S]
  BY <1>1, FunctionSum
<1>3. S \in SUBSET S
  OBVIOUS
<1> QED
  BY <1>2, <1>3, SumType

\* What one value adds to the others.
LEMMA FunctionSumWithout ==
  ASSUME NEW T, IsFiniteSet(T), NEW g \in [T -> Int], NEW a \in T
  PROVE  SumFunction(g) = SumFunction([x \in T \ {a} |-> g[x]]) + g[a]
<1>1. PICK S, f : S = T \ {a} /\ f = [x \in S |-> g[x]]
  OBVIOUS
<1>2. /\ DOMAIN f = S /\ DOMAIN g = T /\ IsFiniteSet(S) /\ a \notin S /\ T = S \cup {a}
      /\ f \in [S -> Int] /\ \A x \in S : g[x] = f[x]
  BY <1>1, FS_Subset
<1>3. PICK h : IsSum(h, f, S) /\ SumFunction(f) = h[S]
  BY <1>2, FunctionSum
<1>4. PICK k : IsSum(k, g, T) /\ SumFunction(g) = k[T]
  BY <1>2, FunctionSum
<1>5. k[T] = h[S] + g[a]
  BY <1>2, <1>3, <1>4, SumAdded
<1> QED
  BY <1>1, <1>3, <1>4, <1>5

\* What one more value adds.
LEMMA FunctionSumGrown ==
  ASSUME NEW S, IsFiniteSet(S), NEW f \in [S -> Int], NEW a, a \notin S,
         NEW T, T = S \cup {a}, NEW g \in [T -> Int], \A x \in S : g[x] = f[x]
  PROVE  SumFunction(g) = SumFunction(f) + g[a]
<1>1. a \in T /\ T \ {a} = S /\ f = [x \in S |-> g[x]] /\ IsFiniteSet(T)
  BY FS_AddElement
<1>2. SumFunction(g) = SumFunction([x \in T \ {a} |-> g[x]]) + g[a]
  BY <1>1, FunctionSumWithout
<1> QED
  BY <1>1, <1>2

\* What another value at one place changes.
LEMMA FunctionSumChanged ==
  ASSUME NEW S, IsFiniteSet(S), NEW f \in [S -> Int], NEW g \in [S -> Int], NEW a \in S,
         \A x \in S : x # a => g[x] = f[x]
  PROVE  SumFunction(g) = SumFunction(f) - f[a] + g[a]
<1>1. PICK r : r = [x \in S \ {a} |-> f[x]]
  OBVIOUS
<1>2. r = [x \in S \ {a} |-> g[x]] /\ r \in [S \ {a} -> Int] /\ IsFiniteSet(S \ {a})
  BY <1>1, FS_Subset
<1>3. SumFunction(f) = SumFunction(r) + f[a]
  BY <1>1, FunctionSumWithout
<1>4. SumFunction(g) = SumFunction(r) + g[a]
  BY <1>2, FunctionSumWithout
<1>5. SumFunction(r) \in Int /\ f[a] \in Int /\ g[a] \in Int
  BY <1>2, FunctionSumInt
<1> QED
  BY <1>3, <1>4, <1>5

\* Natural numbers add up to a natural number.
LEMMA FunctionSumNat ==
  ASSUME NEW S, IsFiniteSet(S), NEW f \in [S -> Nat] PROVE SumFunction(f) \in Nat
<1>1. PICK g : IsSum(g, f, S) /\ SumFunction(f) = g[S]
  <2>1. DOMAIN f = S
    OBVIOUS
  <2> QED
    BY <2>1, FunctionSum
<1> DEFINE C == {T \in SUBSET S : g[T] \notin Nat}
<1>2. SUFFICES ASSUME C # {} PROVE FALSE
  BY <1>1
<1>3. PICK T \in C : \A U \in SUBSET T : U # T => U \notin C
  <2> C \in SUBSET (SUBSET S)
    OBVIOUS
  <2> HIDE DEF C
  <2> QED
    BY <1>2, SmallestSet
<1>4. T \in SUBSET S /\ g[T] \notin Nat
  BY <1>3
<1>5. T # {}
  BY <1>1, <1>4, SumEmpty
<1>6. Pick(T) \in T
  BY <1>5, PickInSet
<1>7. g[T \ {Pick(T)}] \in Nat
  BY <1>3, <1>4, <1>6
<1>8. g[T] = f[Pick(T)] + g[T \ {Pick(T)}]
  BY <1>1, <1>4, <1>5, SumValue
<1>9. f[Pick(T)] \in Nat
  BY <1>4, <1>6
<1> QED
  BY <1>4, <1>7, <1>8, <1>9
==============================================================================
