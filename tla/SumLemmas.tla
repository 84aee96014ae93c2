----------------------------- MODULE SumLemmas ------------------------------
(***************************************************************************)
(* Laws of the sums over a finite set in which the ledgers of this project *)
(* are stated: SumFunctionOnSet(f, S) adds f[x] for every x in S.  It is   *)
(* the last value of a recursive function on the subsets of S, and the     *)
(* laws are proved on a minimal subset that would break them.              *)
(***************************************************************************)
EXTENDS Functions, FiniteSetTheorems, TLAPS

-----------------------------------------------------------------------------
(* The recursion *)

Pick(T) == CHOOSE x \in T : TRUE

\* g[T] is the sum of f over T, for every subset T of S.
SumsOf(f, g, S) ==
    g = [T \in SUBSET S |-> IF T = {} THEN 0 ELSE f[Pick(T)] + g[T \ {Pick(T)}]]

\* An element picked from a set that has one is in it.
LEMMA Picked == ASSUME NEW T, T # {} PROVE Pick(T) \in T
BY DEF Pick

\* A set of finite sets that is not empty has a minimal element.
LEMMA Minimal ==
  ASSUME NEW S, IsFiniteSet(S), NEW B, B \subseteq SUBSET S, B # {}
  PROVE  \E T \in B : \A U \in B : U \subseteq T => U = T
<1>1. IsWellFoundedOn(StrictSubsetOrdering(S), SUBSET S)
  BY FS_StrictSubsetOrderingWellFounded, FS_FiniteSubsetsOfFinite
<1>2. PICK T \in B : \A U \in B : ~ (<<U, T>> \in StrictSubsetOrdering(S))
  BY <1>1, WFMin
<1> QED  BY <1>2 DEF StrictSubsetOrdering

\* The recursion has one solution, whatever set it is taken on.
LEMMA OneSolution ==
  ASSUME NEW f, NEW g, NEW h, NEW S, NEW T, IsFiniteSet(S), T \subseteq S,
         SumsOf(f, g, S), SumsOf(f, h, T)
  PROVE  \A U \in SUBSET T : g[U] = h[U]
<1> DEFINE B == {U \in SUBSET T : g[U] # h[U]}
<1>1. SUFFICES ASSUME B # {} PROVE FALSE
  OBVIOUS
<1>2. PICK U \in B : \A V \in B : V \subseteq U => V = U
  <2>1. B \subseteq SUBSET T /\ IsFiniteSet(T)
    BY FS_Subset
  <2> HIDE DEF B
  <2> QED  BY <1>1, <2>1, Minimal
<1>3. U # {}
  BY <1>2 DEF SumsOf
<1>4. U \ {Pick(U)} \notin B
  BY <1>2, <1>3, Picked
<1>5. g[U] = f[Pick(U)] + g[U \ {Pick(U)}] /\ h[U] = f[Pick(U)] + h[U \ {Pick(U)}]
  BY <1>2, <1>3 DEF SumsOf
<1> QED  BY <1>2, <1>4, <1>5

\* The recursion has a solution.
LEMMA SomeSolution ==
  ASSUME NEW f, NEW S, IsFiniteSet(S)
  PROVE  \E g : SumsOf(f, g, S)
<1> DEFINE B == {T \in SUBSET S : ~ \E g : SumsOf(f, g, T)}
<1>1. SUFFICES ASSUME B # {} PROVE FALSE
  OBVIOUS
<1>2. PICK T \in B : \A U \in B : U \subseteq T => U = T
  <2>1. B \subseteq SUBSET S
    OBVIOUS
  <2> HIDE DEF B
  <2> QED  BY <1>1, <2>1, Minimal
<1> DEFINE Part(U)  == CHOOSE g : SumsOf(f, g, U)
           Below(U) == Part(U)[U]
           Value(U) == IF U = {} THEN 0 ELSE f[Pick(U)] + Below(U \ {Pick(U)})
           Whole    == [U \in SUBSET T |-> Value(U)]
<1>3. ASSUME NEW U \in SUBSET T, U # T
      PROVE  SumsOf(f, Part(U), U)
  BY <1>2, <1>3
<1>4. ASSUME NEW U \in SUBSET T, U # {}
      PROVE  U \ {Pick(U)} \in SUBSET T /\ U \ {Pick(U)} # T
  BY <1>4, Picked
<1>5. ASSUME NEW U \in SUBSET T, U # T
      PROVE  Below(U) = Value(U)
  <2>1. SumsOf(f, Part(U), U)
    BY <1>3, <1>5
  <2>2. CASE U = {}
    BY <2>1, <2>2 DEF SumsOf
  <2>3. CASE U # {}
    <3> DEFINE R == U \ {Pick(U)}
    <3>1. SumsOf(f, Part(R), R)
      BY <1>3, <1>4, <2>3
    <3>2. IsFiniteSet(U) /\ R \subseteq U
      BY FS_Subset, <1>2
    <3>3. Part(U)[U] = f[Pick(U)] + Part(U)[R]
      BY <2>1, <2>3 DEF SumsOf
    <3> HIDE DEF R, Part
    <3>4. Part(U)[R] = Part(R)[R]
      BY <2>1, <3>1, <3>2, OneSolution
    <3> QED  BY <2>3, <3>3, <3>4 DEF R
  <2> QED  BY <2>2, <2>3
<1>6. SumsOf(f, Whole, T)
  <2> HIDE DEF Below
  <2>1. ASSUME NEW U \in SUBSET T
        PROVE  Value(U) = IF U = {} THEN 0 ELSE f[Pick(U)] + Whole[U \ {Pick(U)}]
    BY <1>4, <1>5
  <2> QED  BY <2>1 DEF SumsOf
<1> QED  BY <1>2, <1>6

-----------------------------------------------------------------------------
(* Sums *)

\* The sum of a function is over its domain.
LEMMA SumIsOnDomain ==
  ASSUME NEW f, NEW S, DOMAIN f = S
  PROVE  SumFunction(f) = SumFunctionOnSet(f, S)
BY DEF SumFunction

\* Nothing adds to 0.
LEMMA SumEmpty == ASSUME NEW f PROVE SumFunctionOnSet(f, {}) = 0
<1>1. SumFunctionOnSet(f, {}) = (CHOOSE g : SumsOf(f, g, {}))[{}]
  BY DEF SumFunctionOnSet, FoldFunctionOnSet, MapThenFoldSet, SumsOf, Pick
<1> DEFINE g == CHOOSE g : SumsOf(f, g, {})
<1>2. SumsOf(f, g, {})
  BY SomeSolution, FS_EmptySet
<1> QED  BY <1>1, <1>2 DEF SumsOf

\* A sum is its picked element and the sum of the rest.
LEMMA SumPicked ==
  ASSUME NEW f, NEW S, IsFiniteSet(S), S # {}
  PROVE  SumFunctionOnSet(f, S) = f[Pick(S)] + SumFunctionOnSet(f, S \ {Pick(S)})
<1> DEFINE Solution(T) == CHOOSE g : SumsOf(f, g, T)
           R == S \ {Pick(S)}
<1>1. ASSUME NEW T PROVE SumFunctionOnSet(f, T) = Solution(T)[T]
  BY DEF SumFunctionOnSet, FoldFunctionOnSet, MapThenFoldSet, SumsOf, Pick
<1>2. SumsOf(f, Solution(S), S) /\ SumsOf(f, Solution(R), R)
  BY SomeSolution, FS_Subset
<1>3. Solution(S)[S] = f[Pick(S)] + Solution(S)[R]
  BY <1>2 DEF SumsOf
<1>4. Solution(S)[R] = Solution(R)[R]
  <2> HIDE DEF Solution
  <2> QED  BY <1>2, OneSolution
<1> QED  BY <1>1, <1>3, <1>4

\* Integers add to an integer.
LEMMA SumInt ==
  ASSUME NEW f, NEW S, IsFiniteSet(S), \A x \in S : f[x] \in Int
  PROVE  SumFunctionOnSet(f, S) \in Int
<1> DEFINE B == {T \in SUBSET S : SumFunctionOnSet(f, T) \notin Int}
<1>1. SUFFICES ASSUME B # {} PROVE FALSE
  BY DEF B
<1>2. PICK T \in B : \A U \in B : U \subseteq T => U = T
  <2>1. B \subseteq SUBSET S
    OBVIOUS
  <2> HIDE DEF B
  <2> QED  BY <1>1, <2>1, Minimal
<1>3. T # {}
  BY <1>2, SumEmpty
<1>4. Pick(T) \in T /\ IsFiniteSet(T)
  BY <1>2, <1>3, Picked, FS_Subset
<1>5. SumFunctionOnSet(f, T \ {Pick(T)}) \in Int
  BY <1>2, <1>4
<1>6. SumFunctionOnSet(f, T) = f[Pick(T)] + SumFunctionOnSet(f, T \ {Pick(T)})
  BY <1>3, <1>4, SumPicked
<1> QED  BY <1>2, <1>4, <1>5, <1>6

\* Any element may be taken out of a sum.
LEMMA SumTake ==
  ASSUME NEW f, NEW S, IsFiniteSet(S), \A y \in S : f[y] \in Int, NEW x \in S
  PROVE  SumFunctionOnSet(f, S) = f[x] + SumFunctionOnSet(f, S \ {x})
<1> DEFINE Sum(T) == SumFunctionOnSet(f, T)
           B == {T \in SUBSET S : \E y \in T : Sum(T) # f[y] + Sum(T \ {y})}
<1>1. SUFFICES ASSUME B # {} PROVE FALSE
  BY DEF B
<1>2. PICK T \in B : \A U \in B : U \subseteq T => U = T
  <2>1. B \subseteq SUBSET S
    OBVIOUS
  <2> HIDE DEF B
  <2> QED  BY <1>1, <2>1, Minimal
<1>3. PICK y \in T : Sum(T) # f[y] + Sum(T \ {y})
  BY <1>2
<1> DEFINE z == Pick(T)
<1>4. z \in T /\ IsFiniteSet(T) /\ Sum(T) = f[z] + Sum(T \ {z})
  BY <1>2, <1>3, Picked, FS_Subset, SumPicked
<1> HIDE DEF z
<1>5. z # y
  BY <1>3, <1>4
<1>6. Sum(T \ {z}) = f[y] + Sum((T \ {z}) \ {y})
  BY <1>2, <1>4, <1>5
<1>7. Sum(T \ {y}) = f[z] + Sum((T \ {y}) \ {z})
  BY <1>2, <1>3, <1>4, <1>5
<1>8. (T \ {z}) \ {y} = (T \ {y}) \ {z}
  OBVIOUS
<1>9. Sum((T \ {z}) \ {y}) \in Int
  BY <1>4, FS_Subset, SumInt
<1>10. f[y] \in Int /\ f[z] \in Int
  BY <1>2, <1>4
<1>11. \A a, b, c \in Int : a + (b + c) = b + (a + c)
  OBVIOUS
<1> HIDE DEF Sum, B
<1>12. Sum(T) = f[z] + (f[y] + Sum((T \ {z}) \ {y}))
  BY <1>4, <1>6
<1>13. f[y] + Sum(T \ {y}) = f[y] + (f[z] + Sum((T \ {z}) \ {y}))
  BY <1>7, <1>8
<1> QED  BY <1>3, <1>9, <1>10, <1>11, <1>12, <1>13

\* Functions that agree on a set have the same sum.
LEMMA SumSame ==
  ASSUME NEW f, NEW g, NEW S, IsFiniteSet(S), \A x \in S : f[x] = g[x]
  PROVE  SumFunctionOnSet(f, S) = SumFunctionOnSet(g, S)
<1> DEFINE B == {T \in SUBSET S : SumFunctionOnSet(f, T) # SumFunctionOnSet(g, T)}
<1>1. SUFFICES ASSUME B # {} PROVE FALSE
  BY DEF B
<1>2. PICK T \in B : \A U \in B : U \subseteq T => U = T
  <2>1. B \subseteq SUBSET S
    OBVIOUS
  <2> HIDE DEF B
  <2> QED  BY <1>1, <2>1, Minimal
<1>3. T # {}
  BY <1>2, SumEmpty
<1>4. Pick(T) \in T /\ IsFiniteSet(T)
  BY <1>2, <1>3, Picked, FS_Subset
<1>5. SumFunctionOnSet(f, T \ {Pick(T)}) = SumFunctionOnSet(g, T \ {Pick(T)})
  BY <1>2, <1>4
<1>6. /\ SumFunctionOnSet(f, T) = f[Pick(T)] + SumFunctionOnSet(f, T \ {Pick(T)})
      /\ SumFunctionOnSet(g, T) = g[Pick(T)] + SumFunctionOnSet(g, T \ {Pick(T)})
  BY <1>3, <1>4, SumPicked
<1> QED  BY <1>2, <1>4, <1>5, <1>6

\* Sums of two functions add up to the sum of their sums.
LEMMA SumAdd ==
  ASSUME NEW f, NEW g, NEW h, NEW S, IsFiniteSet(S),
         \A x \in S : f[x] \in Int /\ g[x] \in Int /\ h[x] = f[x] + g[x]
  PROVE  SumFunctionOnSet(h, S) = SumFunctionOnSet(f, S) + SumFunctionOnSet(g, S)
<1> DEFINE Equal(T) == SumFunctionOnSet(h, T) = SumFunctionOnSet(f, T) + SumFunctionOnSet(g, T)
           B == {T \in SUBSET S : ~Equal(T)}
<1>1. SUFFICES ASSUME B # {} PROVE FALSE
  BY DEF B
<1>2. PICK T \in B : \A U \in B : U \subseteq T => U = T
  <2>1. B \subseteq SUBSET S
    OBVIOUS
  <2> HIDE DEF B
  <2> QED  BY <1>1, <2>1, Minimal
<1>3. T # {}
  <2>1. 0 = 0 + 0
    OBVIOUS
  <2> QED  BY <1>2, <2>1, SumEmpty
<1> DEFINE x == Pick(T)
           R == T \ {x}
<1>4. x \in T /\ x \in S /\ IsFiniteSet(T) /\ IsFiniteSet(R) /\ R \subseteq S
  BY <1>2, <1>3, Picked, FS_Subset
<1>5. Equal(R)
  BY <1>2, <1>4
<1>6. /\ SumFunctionOnSet(f, T) = f[x] + SumFunctionOnSet(f, R)
      /\ SumFunctionOnSet(g, T) = g[x] + SumFunctionOnSet(g, R)
      /\ SumFunctionOnSet(h, T) = h[x] + SumFunctionOnSet(h, R)
  BY <1>3, <1>4, SumPicked
<1>7. SumFunctionOnSet(f, R) \in Int /\ SumFunctionOnSet(g, R) \in Int
  BY <1>4, SumInt
<1>8. h[x] = f[x] + g[x] /\ f[x] \in Int /\ g[x] \in Int
  BY <1>4
<1>9. ~Equal(T)
  BY <1>2
<1> HIDE DEF x, R
<1> QED  BY <1>5, <1>6, <1>7, <1>8, <1>9

\* Numbers that are not negative have a sum that is not, and is at least each of them.
LEMMA SumNat ==
  ASSUME NEW f, NEW S, IsFiniteSet(S), \A x \in S : f[x] \in Nat
  PROVE  SumFunctionOnSet(f, S) \in Nat /\ \A x \in S : f[x] <= SumFunctionOnSet(f, S)
<1> DEFINE B == {T \in SUBSET S : SumFunctionOnSet(f, T) \notin Nat}
<1>1. B = {}
  <2>1. SUFFICES ASSUME B # {} PROVE FALSE
    OBVIOUS
  <2>2. PICK T \in B : \A U \in B : U \subseteq T => U = T
    <3>1. B \subseteq SUBSET S
      OBVIOUS
    <3> HIDE DEF B
    <3> QED  BY <2>1, <3>1, Minimal
  <2>3. T # {}
    <3>1. 0 \in Nat
      OBVIOUS
    <3> QED  BY <2>2, <3>1, SumEmpty
  <2>4. Pick(T) \in T /\ IsFiniteSet(T)
    BY <2>2, <2>3, Picked, FS_Subset
  <2>5. SumFunctionOnSet(f, T \ {Pick(T)}) \in Nat
    BY <2>2, <2>4
  <2>6. SumFunctionOnSet(f, T) = f[Pick(T)] + SumFunctionOnSet(f, T \ {Pick(T)})
    BY <2>3, <2>4, SumPicked
  <2>7. f[Pick(T)] \in Nat /\ SumFunctionOnSet(f, T) \notin Nat
    BY <2>2, <2>4
  <2> QED  BY <2>5, <2>6, <2>7
<1>2. \A T \in SUBSET S : SumFunctionOnSet(f, T) \in Nat
  BY <1>1
<1>3. ASSUME NEW x \in S PROVE f[x] <= SumFunctionOnSet(f, S)
  <2>1. SumFunctionOnSet(f, S) = f[x] + SumFunctionOnSet(f, S \ {x})
    BY SumTake
  <2>2. SumFunctionOnSet(f, S \ {x}) \in Nat /\ f[x] \in Nat
    BY <1>2
  <2> QED  BY <2>1, <2>2
<1> QED  BY <1>2, <1>3

\* Zeros add to 0.
LEMMA SumZero ==
  ASSUME NEW f, NEW S, IsFiniteSet(S), \A x \in S : f[x] = 0
  PROVE  SumFunctionOnSet(f, S) = 0
<1>1. SumFunctionOnSet(f, S) = SumFunctionOnSet(f, S) + SumFunctionOnSet(f, S)
  BY SumAdd
<1>2. SumFunctionOnSet(f, S) \in Int
  BY SumInt
<1>3. \A a \in Int : a = a + a => a = 0
  OBVIOUS
<1> QED  BY <1>1, <1>2, <1>3

\* A change at one point moves the sum by as much.
LEMMA SumChange ==
  ASSUME NEW f, NEW g, NEW S, IsFiniteSet(S), NEW x \in S,
         \A y \in S : f[y] \in Int, g[x] \in Int, \A y \in S \ {x} : g[y] = f[y]
  PROVE  SumFunctionOnSet(g, S) = SumFunctionOnSet(f, S) + (g[x] - f[x])
<1>1. SumFunctionOnSet(f, S) = f[x] + SumFunctionOnSet(f, S \ {x})
  BY SumTake
<1>2. SumFunctionOnSet(g, S) = g[x] + SumFunctionOnSet(g, S \ {x})
  <2>1. \A y \in S : g[y] \in Int
    OBVIOUS
  <2> QED  BY <2>1, SumTake
<1>3. SumFunctionOnSet(g, S \ {x}) = SumFunctionOnSet(f, S \ {x})
  BY SumSame, FS_Subset
<1>4. SumFunctionOnSet(f, S \ {x}) \in Int /\ f[x] \in Int
  BY SumInt, FS_Subset
<1> QED  BY <1>1, <1>2, <1>3, <1>4

\* A sum over a set is one over a larger set of what is 0 elsewhere.
LEMMA SumWithin ==
  ASSUME NEW f, NEW g, NEW S, NEW T, IsFiniteSet(S), T \subseteq S,
         \A x \in T : f[x] \in Int /\ g[x] = f[x], \A x \in S \ T : g[x] = 0
  PROVE  SumFunctionOnSet(f, T) = SumFunctionOnSet(g, S)
<1> DEFINE B == {U \in SUBSET S : SumFunctionOnSet(f, T \cap U) # SumFunctionOnSet(g, U)}
<1>1. SUFFICES ASSUME B # {} PROVE FALSE
  <2>1. T \cap S = T
    OBVIOUS
  <2> QED  BY <2>1 DEF B
<1>2. PICK U \in B : \A V \in B : V \subseteq U => V = U
  <2>1. B \subseteq SUBSET S
    OBVIOUS
  <2> HIDE DEF B
  <2> QED  BY <1>1, <2>1, Minimal
<1>3. U # {}
  <2>1. T \cap {} = {}
    OBVIOUS
  <2> QED  BY <1>2, <2>1, SumEmpty
<1> DEFINE x == Pick(U)
           R == U \ {x}
<1>4. x \in U /\ IsFiniteSet(U) /\ R \in SUBSET S
  BY <1>2, <1>3, Picked, FS_Subset
<1> HIDE DEF x
<1>5. SumFunctionOnSet(f, T \cap R) = SumFunctionOnSet(g, R)
  BY <1>2, <1>4
<1>6. (\A y \in U : g[y] \in Int) /\ x \in S
  BY <1>2, <1>4
<1>7. SumFunctionOnSet(g, U) = g[x] + SumFunctionOnSet(g, R) /\ SumFunctionOnSet(g, R) \in Int
  BY <1>4, <1>6, SumTake, SumInt, FS_Subset
<1>8. CASE x \in T
  <2>1. T \cap R = (T \cap U) \ {x}
    OBVIOUS
  <2>2. IsFiniteSet(T \cap U) /\ x \in T \cap U /\ \A y \in T \cap U : f[y] \in Int
    BY <1>2, <1>4, <1>8, FS_Subset
  <2>3. SumFunctionOnSet(f, T \cap U) = f[x] + SumFunctionOnSet(f, (T \cap U) \ {x})
    BY <2>2, SumTake
  <2> QED  BY <1>2, <1>5, <1>7, <1>8, <2>1, <2>3
<1>9. CASE x \notin T
  <2>1. T \cap R = T \cap U
    BY <1>9
  <2>2. g[x] = 0
    BY <1>6, <1>9
  <2>3. \A a \in Int : 0 + a = a
    OBVIOUS
  <2> QED  BY <1>2, <1>5, <1>7, <2>1, <2>2, <2>3
<1> QED  BY <1>8, <1>9

\* A sum is at most another one if each of its numbers is.
LEMMA SumAtMost ==
  ASSUME NEW f, NEW g, NEW S, IsFiniteSet(S),
         \A x \in S : f[x] \in Int /\ g[x] \in Int /\ f[x] <= g[x]
  PROVE  SumFunctionOnSet(f, S) <= SumFunctionOnSet(g, S)
<1> DEFINE h == [x \in S |-> g[x] - f[x]]
<1>1. \A x \in S : h[x] \in Nat /\ h[x] \in Int /\ g[x] = f[x] + h[x]
  OBVIOUS
<1> HIDE DEF h
<1>2. SumFunctionOnSet(g, S) = SumFunctionOnSet(f, S) + SumFunctionOnSet(h, S)
  BY <1>1, SumAdd
<1>3. SumFunctionOnSet(h, S) \in Nat /\ SumFunctionOnSet(f, S) \in Int
  BY <1>1, SumNat, SumInt
<1> QED  BY <1>2, <1>3

\* One more number adds itself.
LEMMA SumInsert ==
  ASSUME NEW f, NEW g, NEW S, NEW T, NEW x, IsFiniteSet(S), x \notin S, T = S \cup {x},
         g[x] \in Int, \A y \in S : f[y] \in Int /\ g[y] = f[y]
  PROVE  SumFunctionOnSet(g, T) = SumFunctionOnSet(f, S) + g[x]
<1>1. IsFiniteSet(T) /\ x \in T /\ T \ {x} = S
  BY FS_AddElement
<1>2. \A y \in T : g[y] \in Int
  OBVIOUS
<1>3. SumFunctionOnSet(g, T) = g[x] + SumFunctionOnSet(g, T \ {x})
  BY <1>1, <1>2, SumTake
<1>4. SumFunctionOnSet(g, S) = SumFunctionOnSet(f, S) /\ SumFunctionOnSet(f, S) \in Int
  BY SumSame, SumInt
<1>5. \A a, b \in Int : a + b = b + a
  OBVIOUS
<1> QED
  BY <1>1, <1>3, <1>4, <1>5

\* The sum over two sets that have nothing in common is that of their sums.
LEMMA SumDisjoint ==
  ASSUME NEW f, NEW S, NEW T, IsFiniteSet(S), IsFiniteSet(T), S \cap T = {},
         \A x \in S \cup T : f[x] \in Int
  PROVE  SumFunctionOnSet(f, S \cup T) = SumFunctionOnSet(f, S) + SumFunctionOnSet(f, T)
<1> DEFINE W == S \cup T
           g == [x \in W |-> IF x \in S THEN f[x] ELSE 0]
           h == [x \in W |-> IF x \in T THEN f[x] ELSE 0]
<1>1. IsFiniteSet(W)
  BY FS_Union
<1>2. SumFunctionOnSet(f, S) = SumFunctionOnSet(g, W)
  <2>1. S \subseteq W /\ (\A x \in S : f[x] \in Int /\ g[x] = f[x]) /\ \A x \in W \ S : g[x] = 0
    OBVIOUS
  <2> HIDE DEF W, g
  <2> QED  BY <1>1, <2>1, SumWithin
<1>3. SumFunctionOnSet(f, T) = SumFunctionOnSet(h, W)
  <2>1. T \subseteq W /\ (\A x \in T : f[x] \in Int /\ h[x] = f[x]) /\ \A x \in W \ T : h[x] = 0
    OBVIOUS
  <2> HIDE DEF W, h
  <2> QED  BY <1>1, <2>1, SumWithin
<1>4. \A x \in W : g[x] \in Int /\ h[x] \in Int /\ f[x] = g[x] + h[x]
  OBVIOUS
<1> HIDE DEF W, g, h
<1>5. SumFunctionOnSet(f, W) = SumFunctionOnSet(g, W) + SumFunctionOnSet(h, W)
  BY <1>1, <1>4, SumAdd
<1> QED  BY <1>2, <1>3, <1>5 DEF W
=============================================================================
