------------------------------ MODULE SumTheorems ------------------------------
(***************************************************************************)
(* What SumFunction of the community module Functions computes.  Its       *)
(* definition is recursive; the induction theorems of the library take an  *)
(* operator as a parameter, so these proofs start from the fact that every *)
(* set of natural numbers has a least element.                             *)
(***************************************************************************)
EXTENDS Integers, Functions, FiniteSets, FiniteSetTheorems, WellFoundedInduction, TLAPS

\* Induction over the natural numbers, said of a set.
LEMMA NaturalInduction ==
  ASSUME NEW Good \in SUBSET Nat, 0 \in Good, \A n \in Good : n + 1 \in Good
  PROVE  Good = Nat
<1> DEFINE Bad == Nat \ Good
           less == OpToRel(<, Nat)
<1>1. SUFFICES ASSUME Bad # {} PROVE FALSE
  OBVIOUS
<1>2. IsWellFoundedOn(less, Nat)
  BY NatLessThanWellFounded
<1>3. PICK n \in Bad : \A m \in Bad : <<m, n>> \notin less
  <2> HIDE DEF Bad, less
  <2>1. Bad \subseteq Nat
    BY DEF Bad
  <2> QED
    BY <1>1, <1>2, <2>1, WFMin
<1>4. less = {pair \in Nat \X Nat : pair[1] < pair[2]}
  BY DEF OpToRel
<1>5. n # 0 /\ n \in Nat
  OBVIOUS
<1>6. n - 1 \in Bad
  BY <1>5
<1> HIDE DEF less
<1>7. <<n - 1, n>> \in less
  BY <1>4, <1>5
<1> QED
  BY <1>3, <1>6, <1>7

\* Induction over the subsets of a finite set.
LEMMA SubsetInduction ==
  ASSUME NEW S, IsFiniteSet(S), NEW Good \in SUBSET SUBSET S,
         \A s \in SUBSET S : (\A t \in SUBSET s : t # s => t \in Good) => s \in Good
  PROVE  Good = SUBSET S
<1> DEFINE Bad == (SUBSET S) \ Good
<1>1. SUFFICES ASSUME Bad # {} PROVE FALSE
  OBVIOUS
<1>2. IsWellFoundedOn(StrictSubsetOrdering(S), FiniteSubsetsOf(S))
  BY FS_StrictSubsetOrderingWellFounded
<1>3. FiniteSubsetsOf(S) = SUBSET S
  BY FS_Subset DEF FiniteSubsetsOf
<1>4. PICK s \in Bad : \A t \in Bad : <<t, s>> \notin StrictSubsetOrdering(S)
  <2> HIDE DEF Bad
  <2>1. Bad \subseteq FiniteSubsetsOf(S)
    BY <1>3 DEF Bad
  <2> QED
    BY <1>1, <1>2, <2>1, WFMin
<1>5. \A t \in SUBSET s : t # s => t \in Good
  BY <1>4 DEF StrictSubsetOrdering
<1> QED
  BY <1>4, <1>5

-----------------------------------------------------------------------------
\* The element a sum takes first.
Pick(s) == CHOOSE x \in s : TRUE

\* The recursion of MapThenFoldSet, for a sum: what it says of a subset, given g.
SumStep(fun, g, s) == IF s = {} THEN 0 ELSE fun[Pick(s)] + g[s \ {Pick(s)}]
Sums(g, fun, S) == g = [s \in SUBSET S |-> SumStep(fun, g, s)]

\* The definition of SumFunctionOnSet, unfolded.
LEMMA SumUnfold ==
  ASSUME NEW fun, NEW S
  PROVE  SumFunctionOnSet(fun, S) = (CHOOSE g : Sums(g, fun, S))[S]
BY DEF SumFunctionOnSet, FoldFunctionOnSet, MapThenFoldSet, Sums, SumStep, Pick

LEMMA PickOne ==
  ASSUME NEW S, S # {}
  PROVE  Pick(S) \in S
BY DEF Pick

\* A function as the recursion wants it exists,
LEMMA SumsExist ==
  ASSUME NEW S, IsFiniteSet(S), NEW fun \in [S -> Int]
  PROVE  \E g \in [SUBSET S -> Int] : Sums(g, fun, S)
<1> DEFINE Small(n) == {s \in SUBSET S : Cardinality(s) <= n}
           Good == {n \in Nat : \E g \in [Small(n) -> Int] :
                                   \A s \in Small(n) : g[s] = SumStep(fun, g, s)}
<1>1. \A s \in SUBSET S : IsFiniteSet(s) /\ Cardinality(s) \in Nat
  BY FS_Subset, FS_CardinalityType
<1>2. \A n \in Nat : \A s \in Small(n + 1) :
        s # {} => /\ Pick(s) \in S
                  /\ s \ {Pick(s)} \in Small(n)
  <2> TAKE n \in Nat
  <2> TAKE s \in Small(n + 1)
  <2> SUFFICES ASSUME s # {} PROVE Pick(s) \in S /\ s \ {Pick(s)} \in Small(n)
    OBVIOUS
  <2>1. Pick(s) \in s
    BY PickOne
  <2>2. Cardinality(s \ {Pick(s)}) = Cardinality(s) - 1
    BY <1>1, <2>1, FS_RemoveElement
  <2> QED
    BY <1>1, <2>1, <2>2
<1>3. 0 \in Good
  <2> DEFINE g == [s \in Small(0) |-> 0]
  <2>1. \A s \in Small(0) : s = {}
    BY <1>1, FS_EmptySet
  <2>2. \A s \in Small(0) : g[s] = SumStep(fun, g, s)
    BY <2>1 DEF SumStep
  <2> HIDE DEF Small
  <2>3. g \in [Small(0) -> Int]
    OBVIOUS
  <2> HIDE DEF g
  <2> QED
    BY <2>2, <2>3
<1>4. ASSUME NEW n \in Good PROVE n + 1 \in Good
  <2>1. PICK g \in [Small(n) -> Int] : \A s \in Small(n) : g[s] = SumStep(fun, g, s)
    OBVIOUS
  <2> DEFINE h == [s \in Small(n + 1) |-> SumStep(fun, g, s)]
  <2>2. n \in Nat
    OBVIOUS
  <2>3. Small(n) \subseteq Small(n + 1)
    BY <1>1, <2>2
  <2> HIDE DEF Small, Good
  <2>4. \A s \in Small(n + 1) : SumStep(fun, g, s) \in Int
    BY <1>2, <2>2 DEF SumStep
  <2>5. h \in [Small(n + 1) -> Int]
    BY <2>4
  <2>6. \A s \in Small(n) : h[s] = g[s]
    BY <2>1, <2>3
  <2>7. \A s \in Small(n + 1) : h[s] = SumStep(fun, h, s)
    <3>1. \A s \in Small(n + 1) : SumStep(fun, g, s) = SumStep(fun, h, s)
      BY <1>2, <2>2, <2>6 DEF SumStep
    <3> QED
      BY <3>1
  <2> HIDE DEF h
  <2> QED
    BY <2>2, <2>5, <2>7 DEF Good
<1>5. Good = Nat
  <2> HIDE DEF Good
  <2>1. Good \subseteq Nat
    BY DEF Good
  <2> QED
    BY <1>3, <1>4, <2>1, NaturalInduction
<1>6. Cardinality(S) \in Good /\ Small(Cardinality(S)) = SUBSET S
  <2>1. \A s \in SUBSET S : Cardinality(s) <= Cardinality(S)
    BY FS_Subset
  <2> QED
    BY <1>1, <1>5, <2>1
<1> HIDE DEF Small
<1>7. PICK g \in [SUBSET S -> Int] : \A s \in SUBSET S : g[s] = SumStep(fun, g, s)
  BY <1>6
<1> QED
  BY <1>7 DEF Sums

\* and is the only one.
LEMMA SumsUnique ==
  ASSUME NEW S, IsFiniteSet(S), NEW fun, NEW g, NEW h,
         NEW T \in SUBSET S, Sums(g, fun, S), Sums(h, fun, T)
  PROVE  \A s \in SUBSET T : g[s] = h[s]
<1> DEFINE Good == {s \in SUBSET T : g[s] = h[s]}
<1>1. IsFiniteSet(T)
  BY FS_Subset
<1>2. ASSUME NEW s \in SUBSET T, \A t \in SUBSET s : t # s => t \in Good
      PROVE  s \in Good
  <2>1. g[s] = SumStep(fun, g, s) /\ h[s] = SumStep(fun, h, s)
    BY DEF Sums
  <2>2. CASE s = {}
    BY <2>1, <2>2 DEF SumStep
  <2>3. CASE s # {}
    <3>1. Pick(s) \in s
      BY <2>3, PickOne
    <3>2. s \ {Pick(s)} \in Good
      BY <1>2, <3>1
    <3> QED
      BY <2>1, <2>3, <3>2 DEF SumStep
  <2> QED
    BY <2>2, <2>3
<1>3. Good = SUBSET T
  <2> HIDE DEF Good
  <2>1. Good \in SUBSET SUBSET T
    BY DEF Good
  <2> QED
    BY <1>1, <1>2, <2>1, SubsetInduction
<1> QED
  BY <1>3

\* A sum of integers over a finite set is an integer; the sum over no elements is 0,
\* and every other begins with one of its elements.
LEMMA SumRecursion ==
  ASSUME NEW S, IsFiniteSet(S), NEW fun \in [S -> Int]
  PROVE  /\ \A T \in SUBSET S : SumFunctionOnSet(fun, T) \in Int
         /\ SumFunctionOnSet(fun, {}) = 0
         /\ \A T \in SUBSET S : T # {} =>
               SumFunctionOnSet(fun, T) =
                   fun[Pick(T)] + SumFunctionOnSet(fun, T \ {Pick(T)})
<1>1. PICK g \in [SUBSET S -> Int] : Sums(g, fun, S)
  BY SumsExist
<1>2. ASSUME NEW T \in SUBSET S PROVE SumFunctionOnSet(fun, T) = g[T]
  <2> DEFINE h == CHOOSE h : Sums(h, fun, T)
             part == [x \in T |-> fun[x]]
  <2>1. IsFiniteSet(T) /\ part \in [T -> Int]
    BY FS_Subset
  <2> DEFINE cut == [s \in SUBSET T |-> g[s]]
  <2>2. Sums(cut, fun, T)
    <3>1. \A s \in SUBSET T : cut[s] = SumStep(fun, cut, s)
      <4> TAKE s \in SUBSET T
      <4>1. g[s] = SumStep(fun, g, s)
        BY <1>1 DEF Sums
      <4>2. cut[s] = g[s] /\ cut[s \ {Pick(s)}] = g[s \ {Pick(s)}]
        OBVIOUS
      <4> HIDE DEF cut
      <4> QED
        BY <4>1, <4>2 DEF SumStep
    <3>2. cut = [s \in SUBSET T |-> cut[s]]
      OBVIOUS
    <3> HIDE DEF cut
    <3> QED
      BY <3>1, <3>2 DEF Sums
  <2>3. Sums(h, fun, T)
    <3> HIDE DEF cut
    <3> QED
      BY <2>2
  <2> HIDE DEF h
  <2>4. g[T] = h[T]
    BY <1>1, <2>3, SumsUnique
  <2> QED
    BY <2>4, SumUnfold DEF h
<1>3. \A T \in SUBSET S : g[T] = SumStep(fun, g, T)
  BY <1>1 DEF Sums
<1>4. \A T \in SUBSET S : g[T] \in Int
  OBVIOUS
<1>5. ASSUME NEW T \in SUBSET S, T # {}
      PROVE  g[T] = fun[Pick(T)] + g[T \ {Pick(T)}] /\ T \ {Pick(T)} \in SUBSET S
  BY <1>3, <1>5 DEF SumStep
<1>6. g[{}] = 0
  BY <1>3 DEF SumStep
<1> QED
  BY <1>2, <1>4, <1>5, <1>6

\* Any element can be taken out of a sum.
THEOREM SumRemove ==
  ASSUME NEW S, IsFiniteSet(S), NEW fun \in [S -> Int], NEW U \in SUBSET S, NEW x \in U
  PROVE  SumFunctionOnSet(fun, U) = fun[x] + SumFunctionOnSet(fun, U \ {x})
<1> DEFINE Sum(T) == SumFunctionOnSet(fun, T)
           Good == {T \in SUBSET S : \A y \in T : Sum(T) = fun[y] + Sum(T \ {y})}
<1>1. /\ \A T \in SUBSET S : Sum(T) \in Int
      /\ \A T \in SUBSET S : T # {} => Sum(T) = fun[Pick(T)] + Sum(T \ {Pick(T)})
  BY SumRecursion
<1> HIDE DEF Sum
<1>2. ASSUME NEW T \in SUBSET S, \A V \in SUBSET T : V # T => V \in Good
      PROVE  T \in Good
  <2> SUFFICES ASSUME NEW y \in T PROVE Sum(T) = fun[y] + Sum(T \ {y})
    OBVIOUS
  <2> DEFINE z == Pick(T)
  <2>1. z \in T /\ Sum(T) = fun[z] + Sum(T \ {z})
    BY <1>1, PickOne
  <2> HIDE DEF z
  <2>2. CASE y = z
    BY <2>1, <2>2
  <2>3. CASE y # z
    <3>1. T \ {z} \in Good /\ T \ {y} \in Good
      BY <1>2, <2>1
    <3>2. /\ Sum(T \ {z}) = fun[y] + Sum((T \ {z}) \ {y})
          /\ Sum(T \ {y}) = fun[z] + Sum((T \ {y}) \ {z})
      BY <2>1, <2>3, <3>1
    <3>3. (T \ {z}) \ {y} = (T \ {y}) \ {z}
      OBVIOUS
    <3>4. fun[y] \in Int /\ fun[z] \in Int
      BY <2>1
    <3>5. PICK rest \in Int : rest = Sum((T \ {y}) \ {z})
      BY <1>1
    <3>6. Sum(T \ {z}) = fun[y] + rest /\ Sum(T \ {y}) = fun[z] + rest
      BY <3>2, <3>3, <3>5
    <3>7. Sum(T) = fun[z] + (fun[y] + rest)
      BY <2>1, <3>6
    <3>8. fun[z] + (fun[y] + rest) = fun[y] + (fun[z] + rest)
      BY <3>4
    <3> QED
      BY <3>6, <3>7, <3>8
  <2> QED
    BY <2>2, <2>3
<1>3. Good = SUBSET S
  <2> HIDE DEF Good
  <2>1. Good \in SUBSET SUBSET S
    BY DEF Good
  <2> QED
    BY <1>2, <2>1, SubsetInduction
<1>4. U \in Good
  BY <1>3
<1> QED
  BY <1>4 DEF Sum

\* Only the values of the elements matter.
THEOREM SumSame ==
  ASSUME NEW T, NEW f, NEW g, \A x \in T : f[x] = g[x]
  PROVE  SumFunctionOnSet(f, T) = SumFunctionOnSet(g, T)
<1>1. \A h : Sums(h, f, T) <=> Sums(h, g, T)
  <2> SUFFICES ASSUME NEW h PROVE Sums(h, f, T) <=> Sums(h, g, T)
    OBVIOUS
  <2>1. \A s \in SUBSET T : SumStep(f, h, s) = SumStep(g, h, s)
    <3> TAKE s \in SUBSET T
    <3>1. s # {} => Pick(s) \in T
      BY PickOne
    <3> QED
      BY <3>1 DEF SumStep
  <2>2. [s \in SUBSET T |-> SumStep(f, h, s)] = [s \in SUBSET T |-> SumStep(g, h, s)]
    BY <2>1
  <2> QED
    BY <2>2 DEF Sums
<1>2. (CHOOSE h : Sums(h, f, T)) = (CHOOSE h : Sums(h, g, T))
  BY <1>1
<1> QED
  BY <1>2, SumUnfold

\* A function on finitely many elements, and one with an element more.
Extends(g, x, f, S) ==
    /\ IsFiniteSet(S) /\ f \in [S -> Int]
    /\ x \notin S /\ g \in [S \cup {x} -> Int]
    /\ \A y \in S : g[y] = f[y]

\* An element more adds its value.
THEOREM SumInsert ==
  ASSUME NEW S, NEW f, NEW x, NEW g, Extends(g, x, f, S)
  PROVE  SumFunction(g) = SumFunction(f) + g[x]
<1> USE DEF Extends
<1>1. IsFiniteSet(S \cup {x})
  BY FS_AddElement
<1>2. SumFunctionOnSet(g, S \cup {x}) = g[x] + SumFunctionOnSet(g, (S \cup {x}) \ {x})
  <2> DEFINE U == S \cup {x}
  <2>1. x \in U /\ U \in SUBSET U /\ IsFiniteSet(U) /\ g \in [U -> Int]
    BY <1>1
  <2> HIDE DEF U
  <2>2. SumFunctionOnSet(g, U) = g[x] + SumFunctionOnSet(g, U \ {x})
    BY <2>1, SumRemove
  <2> QED
    BY <2>2 DEF U
<1>3. (S \cup {x}) \ {x} = S
  OBVIOUS
<1>4. SumFunctionOnSet(f, S) = SumFunctionOnSet(g, S)
  BY SumSame
<1>5. SumFunctionOnSet(f, S) \in Int /\ g[x] \in Int
  BY SumRecursion
<1>6. SumFunction(g) = SumFunctionOnSet(g, S \cup {x})
      /\ SumFunction(f) = SumFunctionOnSet(f, S)
  BY DEF SumFunction
<1>7. SumFunctionOnSet(g, S \cup {x}) = g[x] + SumFunctionOnSet(f, S)
  BY <1>2, <1>3, <1>4
<1> QED
  BY <1>5, <1>6, <1>7

\* The sum over a part of a function's domain.
THEOREM SumOfPart ==
  ASSUME NEW S, IsFiniteSet(S), NEW f \in [S -> Int], NEW T \in SUBSET S
  PROVE  SumFunction([x \in T |-> f[x]]) = SumFunctionOnSet(f, T)
<1> DEFINE part == [x \in T |-> f[x]]
<1>1. part \in [T -> Int] /\ \A x \in T : f[x] = part[x]
  OBVIOUS
<1>2. SumFunction(part) = SumFunctionOnSet(part, T)
  BY DEF SumFunction
<1> HIDE DEF part
<1> QED
  BY <1>1, <1>2, SumSame

\* A sum over a set and one element more.
THEOREM SumAdd ==
  ASSUME NEW S, IsFiniteSet(S), NEW f \in [S -> Int], NEW T \in SUBSET S,
         NEW x \in S, x \notin T
  PROVE  SumFunctionOnSet(f, T \cup {x}) = SumFunctionOnSet(f, T) + f[x]
<1> DEFINE U == T \cup {x}
<1>1. U \in SUBSET S /\ x \in U /\ U \ {x} = T
  OBVIOUS
<1> HIDE DEF U
<1>2. SumFunctionOnSet(f, U) = f[x] + SumFunctionOnSet(f, T)
  BY <1>1, SumRemove
<1>3. SumFunctionOnSet(f, T) \in Int /\ f[x] \in Int
  BY SumRecursion
<1> QED
  BY <1>2, <1>3 DEF U

\* A sum of numbers between 0 and a bound is at least 0, at least what each part of it
\* is, and at most the bound for each element.
THEOREM SumBounds ==
  ASSUME NEW S, IsFiniteSet(S), NEW bound \in Nat, NEW f \in [S -> 0 .. bound],
         NEW U \in SUBSET S
  PROVE  /\ SumFunctionOnSet(f, U) \in Nat
         /\ \A T \in SUBSET U : SumFunctionOnSet(f, T) <= SumFunctionOnSet(f, U)
         /\ SumFunctionOnSet(f, U) <= bound * Cardinality(U)
<1> DEFINE Sum(T) == SumFunctionOnSet(f, T)
           Bounded(V) == /\ Sum(V) \in Nat
                         /\ \A T \in SUBSET V : Sum(T) <= Sum(V)
                         /\ Sum(V) <= bound * Cardinality(V)
           Good == {V \in SUBSET S : Bounded(V)}
<1>1. f \in [S -> Int]
  OBVIOUS
<1>2. \A V \in SUBSET S : Sum(V) \in Int
  BY <1>1, SumRecursion
<1>3. Sum({}) = 0
  BY <1>1, SumRecursion
<1>4. ASSUME NEW V \in SUBSET S, NEW x \in V PROVE Sum(V) = f[x] + Sum(V \ {x})
  <2> HIDE DEF Bounded, Good
  <2> QED
    BY <1>1, SumRemove
<1> HIDE DEF Sum
<1>5. ASSUME NEW V \in SUBSET S, \A T \in SUBSET V : T # V => T \in Good
      PROVE  Bounded(V)
  <2>1. CASE V = {}
    <3>1. Cardinality({}) = 0 /\ bound * 0 = 0 /\ 0 \in Nat
      BY FS_EmptySet
    <3> QED
      BY <1>3, <2>1, <3>1
  <2>2. CASE V # {}
    <3>1. \A x \in V : V \ {x} \in Good /\ f[x] \in Nat /\ f[x] <= bound
      BY <1>5
    <3>2. Sum(V) \in Nat
      <4>1. PICK x \in V : TRUE
        BY <2>2
      <4>2. Sum(V \ {x}) \in Nat /\ f[x] \in Nat
        BY <3>1
      <4> QED
        BY <1>4, <4>2
    <3>3. ASSUME NEW T \in SUBSET V PROVE Sum(T) <= Sum(V)
      <4>1. CASE T = V
        BY <3>2, <4>1
      <4>2. CASE T # V
        <5>1. PICK x \in V : x \notin T
          BY <4>2
        <5>2. T \in SUBSET (V \ {x})
          BY <5>1
        <5>3. Sum(T) <= Sum(V \ {x}) /\ Sum(V \ {x}) \in Nat /\ f[x] \in Nat
          BY <3>1, <5>2
        <5>4. Sum(T) \in Int
          BY <1>2
        <5> QED
          BY <1>4, <5>3, <5>4
      <4> QED
        BY <4>1, <4>2
    <3>4. Sum(V) <= bound * Cardinality(V)
      <4>1. PICK x \in V : TRUE
        BY <2>2
      <4>2. IsFiniteSet(V)
        BY FS_Subset
      <4>3. PICK c \in Nat : c = Cardinality(V)
        BY <4>2, FS_CardinalityType
      <4>4. Cardinality(V \ {x}) = c - 1
        BY <4>2, <4>3, FS_RemoveElement
      <4>5. PICK rest \in Nat : rest = Sum(V \ {x})
        BY <3>1
      <4>6. rest <= bound * (c - 1)
        BY <3>1, <4>4, <4>5
      <4>7. f[x] \in Nat /\ f[x] <= bound /\ Sum(V) = f[x] + rest
        BY <1>4, <3>1, <4>5
      <4>8. bound * (c - 1) + bound = bound * c /\ bound * (c - 1) \in Int
        OBVIOUS
      <4> QED
        BY <4>3, <4>6, <4>7, <4>8
    <3> QED
      BY <3>2, <3>3, <3>4
  <2> QED
    BY <2>1, <2>2
<1>6. Good = SUBSET S
  <2> HIDE DEF Bounded
  <2>1. \A V \in SUBSET S : (\A T \in SUBSET V : T # V => T \in Good) => V \in Good
    BY <1>5
  <2>2. Good \in SUBSET SUBSET S
    OBVIOUS
  <2> HIDE DEF Good
  <2> QED
    BY <2>1, <2>2, SubsetInduction
<1>7. Bounded(U)
  BY <1>6
<1> QED
  BY <1>7 DEF Sum

\* A sum grows with its terms.
THEOREM SumMonotone ==
  ASSUME NEW S, IsFiniteSet(S), NEW f \in [S -> Int], NEW g \in [S -> Int],
         \A x \in S : f[x] <= g[x]
  PROVE  SumFunction(f) <= SumFunction(g)
<1> DEFINE Low(T) == SumFunctionOnSet(f, T)
           High(T) == SumFunctionOnSet(g, T)
           Good == {T \in SUBSET S : Low(T) <= High(T)}
<1>1. \A T \in SUBSET S : Low(T) \in Int /\ High(T) \in Int
  BY SumRecursion
<1>2. Low({}) = 0 /\ High({}) = 0
  BY SumRecursion
<1>3. ASSUME NEW T \in SUBSET S, NEW x \in T
      PROVE  Low(T) = f[x] + Low(T \ {x}) /\ High(T) = g[x] + High(T \ {x})
  BY SumRemove
<1>4. SumFunction(f) = Low(S) /\ SumFunction(g) = High(S)
  BY DEF SumFunction
<1> HIDE DEF Low, High
<1>5. ASSUME NEW T \in SUBSET S, \A V \in SUBSET T : V # T => V \in Good
      PROVE  T \in Good
  <2>1. CASE T = {}
    BY <1>2, <2>1
  <2>2. CASE T # {}
    <3>1. PICK x \in T : TRUE
      BY <2>2
    <3>2. T \ {x} \in Good
      BY <1>5
    <3>3. /\ f[x] \in Int /\ g[x] \in Int /\ f[x] <= g[x]
          /\ Low(T \ {x}) \in Int /\ High(T \ {x}) \in Int
      BY <1>1
    <3> QED
      BY <1>3, <3>2, <3>3
  <2> QED
    BY <2>1, <2>2
<1>6. Good = SUBSET S
  <2>1. Good \in SUBSET SUBSET S
    OBVIOUS
  <2> HIDE DEF Good
  <2> QED
    BY <1>5, <2>1, SubsetInduction
<1> QED
  BY <1>4, <1>6

\* One term more, one sum more.
THEOREM SumRaised ==
  ASSUME NEW S, IsFiniteSet(S), NEW f \in [S -> Int], NEW x \in S, NEW g \in [S -> Int],
         NEW d \in Int, g[x] = f[x] + d, \A y \in S : y # x => g[y] = f[y]
  PROVE  SumFunction(g) = SumFunction(f) + d
<1> DEFINE rest == S \ {x}
<1>1. /\ SumFunctionOnSet(f, S) = f[x] + SumFunctionOnSet(f, rest)
      /\ SumFunctionOnSet(g, S) = g[x] + SumFunctionOnSet(g, rest)
  BY SumRemove
<1>2. SumFunctionOnSet(f, rest) = SumFunctionOnSet(g, rest)
  <2>1. \A y \in rest : f[y] = g[y]
    OBVIOUS
  <2> HIDE DEF rest
  <2> QED
    BY <2>1, SumSame
<1>3. SumFunctionOnSet(f, rest) \in Int /\ f[x] \in Int
  BY SumRecursion
<1>4. SumFunction(f) = SumFunctionOnSet(f, S) /\ SumFunction(g) = SumFunctionOnSet(g, S)
  BY DEF SumFunction
<1> HIDE DEF rest
<1> QED
  BY <1>1, <1>2, <1>3, <1>4
=============================================================================
