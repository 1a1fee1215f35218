------------------------------ MODULE SumTheorems ------------------------------
(***************************************************************************)
(* Sums over a finite set.  The modules of the wallets add up columns with *)
(* MapThenSumSet, which is defined by recursion; these lemmas say what the *)
(* invariants need of it: the sum of the empty set, what one element adds, *)
(* and how two sums compare.                                               *)
(*                                                                         *)
(* The summand is a function and the induction is over a set of subsets,   *)
(* so that no lemma has an operator as a parameter.                        *)
(***************************************************************************)
EXTENDS Integers, FiniteSetsExt, FiniteSetTheorems, WellFoundedInduction, TLAPS

\* The sum of f[x] for x in S.
SumOver(f, S) == MapThenSumSet(LAMBDA x : f[x], S)

\* The element that MapThenSumSet adds first, and the elements that are left.
Pick(S) == CHOOSE x \in S : TRUE
Part(S) == S \ {Pick(S)}

\* g tabulates the sums of f over the subsets of S.
Sums(f, g, S) ==
  g = [s \in SUBSET S |-> IF s = {} THEN 0 ELSE f[Pick(s)] + g[Part(s)]]

-----------------------------------------------------------------------------
(* The recursion *)

\* A nonempty set of subsets of a finite set has a minimal member.
LEMMA Minimal ==
  ASSUME NEW S, IsFiniteSet(S), NEW X \in SUBSET SUBSET S, X # {}
  PROVE  \E T \in X : \A U \in X : U \subseteq T => U = T
<1>1. IsWellFoundedOn(StrictSubsetOrdering(S), SUBSET S)
  BY FS_StrictSubsetOrderingWellFounded, FS_FiniteSubsetsOfFinite
<1>2. \E T \in X : \A U \in X : <<U, T>> \notin StrictSubsetOrdering(S)
  BY <1>1, WFMin
<1> QED
  BY <1>2 DEF StrictSubsetOrdering

\* The definition, with the table it chooses named.
LEMMA SumDef ==
  ASSUME NEW f, NEW S
  PROVE  SumOver(f, S) = (CHOOSE g : Sums(f, g, S))[S]
BY DEF SumOver, MapThenSumSet, MapThenFoldSet, Sums, Part, Pick

\* What is added first is an element,
LEMMA PickIn ==
  ASSUME NEW S, S # {}
  PROVE  Pick(S) \in S
BY DEF Pick

\* and fewer elements are left.
LEMMA PartIsSmaller ==
  ASSUME NEW s, s # {}
  PROVE  Part(s) \in SUBSET s /\ Part(s) # s
BY PickIn DEF Part

\* There is one table at most: two agree wherever both are defined.
LEMMA SumsAgree ==
  ASSUME NEW f, NEW S, IsFiniteSet(S), NEW T \in SUBSET S,
         NEW g, Sums(f, g, S), NEW h, Sums(f, h, T)
  PROVE  \A U \in SUBSET T : g[U] = h[U]
<1> DEFINE X == {U \in SUBSET T : g[U] # h[U]}
<1> SUFFICES ASSUME X # {} PROVE FALSE
  OBVIOUS
<1>1. IsFiniteSet(T)
  BY FS_Subset
<1>2. PICK U \in X : \A V \in X : V \subseteq U => V = U
  <2>1. X \in SUBSET SUBSET T
    OBVIOUS
  <2> HIDE DEF X
  <2> QED
    BY <1>1, <2>1, Minimal
<1>3. /\ U \in SUBSET T /\ g[U] # h[U]
      /\ g[U] = IF U = {} THEN 0 ELSE f[Pick(U)] + g[Part(U)]
      /\ h[U] = IF U = {} THEN 0 ELSE f[Pick(U)] + h[Part(U)]
  BY <1>2 DEF Sums
<1>4. U # {} /\ Part(U) \in SUBSET T /\ Part(U) # U
  BY <1>3, PartIsSmaller
<1>5. g[Part(U)] = h[Part(U)]
  <2>1. Part(U) \in SUBSET U /\ Part(U) \in SUBSET T
    BY <1>3, <1>4, PartIsSmaller
  <2>2. Part(U) \notin X
    BY <1>2, <1>4, <2>1
  <2> QED
    BY <2>1, <2>2
<1> QED
  BY <1>3, <1>4, <1>5

\* There is a table: a minimal set without one would get one from its parts.
LEMMA SumsExist ==
  ASSUME NEW f, NEW S, IsFiniteSet(S)
  PROVE  \E g : Sums(f, g, S)
<1> DEFINE X == {T \in SUBSET S : ~\E g : Sums(f, g, T)}
<1> SUFFICES ASSUME X # {} PROVE FALSE
  OBVIOUS
<1>1. PICK T \in X : \A U \in X : U \subseteq T => U = T
  <2>1. X \in SUBSET SUBSET S
    OBVIOUS
  <2> HIDE DEF X
  <2> QED
    BY <2>1, Minimal
<1> DEFINE smaller(s) == CHOOSE h : Sums(f, h, s)
           g == [s \in SUBSET T |-> IF s = {} THEN 0 ELSE f[Pick(s)] + smaller(Part(s))[Part(s)]]
<1>2. \A s \in SUBSET T : s # T => Sums(f, smaller(s), s)
  BY <1>1
<1>3. \A s \in SUBSET T : s # {} => g[Part(s)] = smaller(Part(s))[Part(s)]
  <2> SUFFICES ASSUME NEW s \in SUBSET T, s # {}
               PROVE  g[Part(s)] = smaller(Part(s))[Part(s)]
    OBVIOUS
  <2>1. PICK u : u = Part(s)
    OBVIOUS
  <2>2. u \in SUBSET T /\ u # T
    BY <2>1, PartIsSmaller
  <2>3. Sums(f, smaller(u), u)
    BY <2>2, <1>2
  <2>4. smaller(u)[u] = IF u = {} THEN 0 ELSE f[Pick(u)] + smaller(u)[Part(u)]
    BY <2>3 DEF Sums
  <2>5. g[u] = IF u = {} THEN 0 ELSE f[Pick(u)] + smaller(Part(u))[Part(u)]
    BY <2>2
  <2>6. ASSUME u # {} PROVE smaller(u)[Part(u)] = smaller(Part(u))[Part(u)]
    <3>1. PICK w : w = Part(u)
      OBVIOUS
    <3>2. w \in SUBSET u /\ w \in SUBSET T /\ w # T
      BY <3>1, <2>2, <2>6, PartIsSmaller
    <3>3. Sums(f, smaller(w), w) /\ IsFiniteSet(u)
      BY <3>2, <2>2, <1>2, FS_Subset
    <3>4. smaller(u)[w] = smaller(w)[w]
      <4> HIDE DEF smaller
      <4> QED
        BY <3>2, <3>3, <2>3, SumsAgree
    <3> QED
      BY <3>1, <3>4
  <2> QED
    BY <2>1, <2>4, <2>5, <2>6
<1>4. Sums(f, g, T)
  <2> HIDE DEF smaller
  <2>1. \A s \in SUBSET T : g[s] = IF s = {} THEN 0 ELSE f[Pick(s)] + g[Part(s)]
    BY <1>3
  <2> QED
    BY <2>1 DEF Sums
<1> QED
  BY <1>1, <1>4

\* So the sum satisfies the equation that defines it.
LEMMA SumStep ==
  ASSUME NEW f, NEW S, IsFiniteSet(S)
  PROVE  SumOver(f, S) =
           IF S = {} THEN 0 ELSE f[Pick(S)] + SumOver(f, Part(S))
<1> DEFINE g == CHOOSE h : Sums(f, h, S)
           T == Part(S)
           k == CHOOSE h : Sums(f, h, T)
<1>1. IsFiniteSet(T)
  BY FS_Subset DEF Part
<1>2. Sums(f, g, S) /\ Sums(f, k, T)
  BY <1>1, SumsExist
<1>3. g[S] = IF S = {} THEN 0 ELSE f[Pick(S)] + g[T]
  BY <1>2 DEF Sums
<1>4. g[T] = k[T]
  <2>1. T \in SUBSET S
    BY DEF Part
  <2> HIDE DEF g, k, T
  <2> QED
    BY <1>2, <2>1, SumsAgree
<1>5. SumOver(f, S) = g[S] /\ SumOver(f, T) = k[T]
  BY SumDef
<1> QED
  BY <1>3, <1>4, <1>5

-----------------------------------------------------------------------------
(* What invariants use *)

\* Induction over the subsets of S, one element at a time.
LEMMA PartInduction ==
  ASSUME NEW S, IsFiniteSet(S), NEW X, {} \in X,
         \A T \in SUBSET S : T # {} /\ Part(T) \in X => T \in X
  PROVE  S \in X
<1> DEFINE Y == (SUBSET S) \ X
<1> SUFFICES ASSUME Y # {} PROVE FALSE
  OBVIOUS
<1>1. PICK T \in Y : \A U \in Y : U \subseteq T => U = T
  <2>1. Y \in SUBSET SUBSET S
    OBVIOUS
  <2> HIDE DEF Y
  <2> QED
    BY <2>1, Minimal
<1>2. T # {} /\ Part(T) \in SUBSET S /\ Part(T) \notin Y
  BY <1>1, PartIsSmaller
<1> QED
  BY <1>1, <1>2

\* The equation at a nonempty subset.
LEMMA SumStepAt ==
  ASSUME NEW f, NEW S, IsFiniteSet(S), NEW T \in SUBSET S, T # {}
  PROVE  /\ Pick(T) \in T /\ Part(T) \in SUBSET S /\ IsFiniteSet(Part(T))
         /\ SumOver(f, T) = f[Pick(T)] + SumOver(f, Part(T))
<1>1. IsFiniteSet(T) /\ Part(T) \in SUBSET T
  BY FS_Subset, PartIsSmaller
<1> QED
  BY <1>1, SumStep, PickIn, FS_Subset

\* Nothing adds up to nothing.
LEMMA SumEmpty ==
  ASSUME NEW f
  PROVE  SumOver(f, {}) = 0
BY SumStep, FS_EmptySet

\* Integers add up to an integer,
LEMMA SumIsInt ==
  ASSUME NEW S, IsFiniteSet(S), NEW f, \A x \in S : f[x] \in Int
  PROVE  SumOver(f, S) \in Int
<1> DEFINE X == {T \in SUBSET S : SumOver(f, T) \in Int}
<1>1. {} \in X
  BY SumEmpty
<1>2. ASSUME NEW T \in SUBSET S, T # {}, Part(T) \in X PROVE T \in X
  BY <1>2, SumStepAt
<1> HIDE DEF X
<1>3. S \in X
  BY <1>1, <1>2, PartInduction
<1> QED
  BY <1>3 DEF X

\* The sum depends on the summands alone.
LEMMA SumAgrees ==
  ASSUME NEW S, IsFiniteSet(S), NEW f, NEW g, \A x \in S : f[x] = g[x]
  PROVE  SumOver(f, S) = SumOver(g, S)
<1> DEFINE X == {T \in SUBSET S : SumOver(f, T) = SumOver(g, T)}
<1>1. {} \in X
  BY SumEmpty
<1>2. ASSUME NEW T \in SUBSET S, T # {}, Part(T) \in X PROVE T \in X
  BY <1>2, SumStepAt
<1> HIDE DEF X
<1>3. S \in X
  BY <1>1, <1>2, PartInduction
<1> QED
  BY <1>3 DEF X

\* Greater summands add up to more.
LEMMA SumIsMonotone ==
  ASSUME NEW S, IsFiniteSet(S), NEW f, NEW g,
         \A x \in S : f[x] \in Int /\ g[x] \in Int /\ f[x] <= g[x]
  PROVE  SumOver(f, S) <= SumOver(g, S)
<1> DEFINE X == {T \in SUBSET S : SumOver(f, T) <= SumOver(g, T)}
<1>1. {} \in X
  BY SumEmpty
<1>2. ASSUME NEW T \in SUBSET S, T # {}, Part(T) \in X PROVE T \in X
  <2>1. SumOver(f, Part(T)) \in Int /\ SumOver(g, Part(T)) \in Int
    BY <1>2, SumStepAt, SumIsInt
  <2> QED
    BY <1>2, <2>1, SumStepAt
<1> HIDE DEF X
<1>3. S \in X
  BY <1>1, <1>2, PartInduction
<1> QED
  BY <1>3 DEF X

\* Any element may be added first, not only the one that is picked.
LEMMA SumRemove ==
  ASSUME NEW S, IsFiniteSet(S), NEW f, \A y \in S : f[y] \in Int, NEW x \in S
  PROVE  SumOver(f, S) = f[x] + SumOver(f, S \ {x})
<1> DEFINE Splits(T) == \A y \in T : SumOver(f, T) = f[y] + SumOver(f, T \ {y})
           X == {T \in SUBSET S : ~Splits(T)}
<1> SUFFICES ASSUME X # {} PROVE FALSE
  OBVIOUS
<1>1. PICK T \in X : \A U \in X : U \subseteq T => U = T
  <2>1. X \in SUBSET SUBSET S
    OBVIOUS
  <2> HIDE DEF X
  <2> QED
    BY <2>1, Minimal
<1>2. PICK y \in T : SumOver(f, T) # f[y] + SumOver(f, T \ {y})
  BY <1>1
<1> DEFINE p == Pick(T)
<1>3. p \in T /\ SumOver(f, T) = f[p] + SumOver(f, T \ {p})
  BY <1>1, <1>2, SumStepAt DEF Part
<1>4. p # y
  BY <1>2, <1>3
<1> HIDE DEF p
<1> DEFINE U == T \ {p}
           V == T \ {y}
<1>5. Splits(U) /\ Splits(V)
  BY <1>1, <1>2, <1>3
<1>6. y \in U /\ p \in V /\ V \ {p} = U \ {y}
  BY <1>2, <1>3, <1>4
<1>7. /\ SumOver(f, U) = f[y] + SumOver(f, U \ {y})
      /\ SumOver(f, V) = f[p] + SumOver(f, U \ {y})
  BY <1>5, <1>6
<1>8. f[y] \in Int /\ f[p] \in Int /\ SumOver(f, U \ {y}) \in Int
  <2>1. IsFiniteSet(U \ {y}) /\ \A z \in U \ {y} : f[z] \in Int
    BY <1>1, FS_Subset
  <2> QED
    BY <1>1, <1>2, <1>3, <2>1, SumIsInt
<1> QED
  BY <1>2, <1>3, <1>7, <1>8

\* What a new element adds.
LEMMA SumAdd ==
  ASSUME NEW S, IsFiniteSet(S), NEW f, \A y \in S : f[y] \in Int,
         NEW x, x \notin S, f[x] \in Int
  PROVE  SumOver(f, S \cup {x}) = f[x] + SumOver(f, S)
<1>1. IsFiniteSet(S \cup {x}) /\ (S \cup {x}) \ {x} = S
  BY FS_AddElement
<1> QED
  BY <1>1, SumRemove

\* When one summand changes, the sum changes by as much.
LEMMA SumExcept ==
  ASSUME NEW S, IsFiniteSet(S), NEW f, \A y \in S : f[y] \in Int,
         NEW x \in S, NEW g, g[x] \in Int, \A y \in S \ {x} : g[y] = f[y]
  PROVE  SumOver(g, S) = SumOver(f, S) - f[x] + g[x]
<1>1. IsFiniteSet(S \ {x})
  BY FS_Subset
<1>2. SumOver(g, S \ {x}) = SumOver(f, S \ {x})
  BY <1>1, SumAgrees
<1>3. /\ SumOver(f, S) = f[x] + SumOver(f, S \ {x})
      /\ SumOver(g, S) = g[x] + SumOver(g, S \ {x})
  BY SumRemove
<1>4. SumOver(f, S \ {x}) \in Int /\ f[x] \in Int
  BY <1>1, SumIsInt
<1> QED
  BY <1>2, <1>3, <1>4

\* What one element gains and another loses leaves the sum as it is.
LEMMA SumOfTransfer ==
  ASSUME NEW S, IsFiniteSet(S), NEW f, \A z \in S : f[z] \in Int,
         NEW x \in S, NEW y \in S, x # y, NEW n \in Int,
         NEW g, g[x] = f[x] - n, g[y] = f[y] + n, \A z \in S \ {x, y} : g[z] = f[z]
  PROVE  SumOver(g, S) = SumOver(f, S)
<1>1. IsFiniteSet(S \ {x}) /\ y \in S \ {x}
  BY FS_Subset
<1>2. g[y] \in Int /\ \A z \in S : g[z] \in Int
  OBVIOUS
<1>3. SumOver(g, S \ {x}) = SumOver(f, S \ {x}) - f[y] + g[y]
  <2>1. \A z \in (S \ {x}) \ {y} : g[z] = f[z]
    OBVIOUS
  <2> QED
    BY <1>1, <1>2, <2>1, SumExcept
<1>4. /\ SumOver(f, S) = f[x] + SumOver(f, S \ {x})
      /\ SumOver(g, S) = g[x] + SumOver(g, S \ {x})
  BY <1>2, SumRemove
<1>5. SumOver(f, S \ {x}) \in Int /\ f[x] \in Int /\ f[y] \in Int
  BY <1>1, SumIsInt
<1> QED
  BY <1>3, <1>4, <1>5

\* Zeros add up to zero.
LEMMA SumOfZeros ==
  ASSUME NEW S, IsFiniteSet(S), NEW f, \A x \in S : f[x] = 0
  PROVE  SumOver(f, S) = 0
<1> DEFINE X == {T \in SUBSET S : SumOver(f, T) = 0}
<1>1. {} \in X
  BY SumEmpty
<1>2. ASSUME NEW T \in SUBSET S, T # {}, Part(T) \in X PROVE T \in X
  BY <1>2, SumStepAt
<1> HIDE DEF X
<1>3. S \in X
  BY <1>1, <1>2, PartInduction
<1> QED
  BY <1>3 DEF X

\* Naturals add up to a natural,
LEMMA SumIsNat ==
  ASSUME NEW S, IsFiniteSet(S), NEW f, \A x \in S : f[x] \in Nat
  PROVE  SumOver(f, S) \in Nat
<1> DEFINE X == {T \in SUBSET S : SumOver(f, T) \in Nat}
<1>1. {} \in X
  BY SumEmpty
<1>2. ASSUME NEW T \in SUBSET S, T # {}, Part(T) \in X PROVE T \in X
  BY <1>2, SumStepAt
<1> HIDE DEF X
<1>3. S \in X
  BY <1>1, <1>2, PartInduction
<1> QED
  BY <1>3 DEF X

\* and none of them exceeds the sum.
LEMMA SumBoundsEach ==
  ASSUME NEW S, IsFiniteSet(S), NEW f, \A x \in S : f[x] \in Nat, NEW x \in S
  PROVE  f[x] <= SumOver(f, S)
<1>1. SumOver(f, S) = f[x] + SumOver(f, S \ {x})
  BY SumRemove
<1>2. SumOver(f, S \ {x}) \in Nat
  BY SumIsNat, FS_Subset
<1> QED
  BY <1>1, <1>2

\* The sum of two columns is the sum of their sums.
LEMMA SumOfSums ==
  ASSUME NEW S, IsFiniteSet(S), NEW f, NEW g, NEW h,
         \A x \in S : f[x] \in Int /\ g[x] \in Int /\ h[x] = f[x] + g[x]
  PROVE  SumOver(h, S) = SumOver(f, S) + SumOver(g, S)
<1> DEFINE X == {T \in SUBSET S : SumOver(h, T) = SumOver(f, T) + SumOver(g, T)}
<1>1. {} \in X
  BY SumEmpty
<1>2. ASSUME NEW T \in SUBSET S, T # {}, Part(T) \in X PROVE T \in X
  <2>1. SumOver(f, Part(T)) \in Int /\ SumOver(g, Part(T)) \in Int
    BY <1>2, SumStepAt, SumIsInt
  <2> QED
    BY <1>2, <2>1, SumStepAt
<1> HIDE DEF X
<1>3. S \in X
  BY <1>1, <1>2, PartInduction
<1> QED
  BY <1>3 DEF X

\* A sum over a subset is a sum over the set, with zeros elsewhere.
LEMMA SumOfSubset ==
  ASSUME NEW S, IsFiniteSet(S), NEW R \in SUBSET S, NEW f, NEW g,
         \A x \in R : f[x] \in Int /\ g[x] = f[x], \A x \in S \ R : g[x] = 0
  PROVE  SumOver(f, R) = SumOver(g, S)
<1> DEFINE X == {T \in SUBSET S : SumOver(f, T \cap R) = SumOver(g, T)}
<1>1. {} \in X
  BY SumEmpty
<1>2. ASSUME NEW T \in SUBSET S, T # {}, Part(T) \in X PROVE T \in X
  <2> DEFINE x == Pick(T)
             U == Part(T) \cap R
  <2>1. /\ x \in T /\ Part(T) = T \ {x} /\ IsFiniteSet(U)
        /\ SumOver(g, T) = g[x] + SumOver(g, Part(T))
    BY <1>2, SumStepAt, FS_Subset DEF Part
  <2>2. SumOver(f, U) = SumOver(g, Part(T))
    BY <1>2
  <2>3. U \subseteq R /\ SumOver(f, U) \in Int
    BY <2>1, SumIsInt
  <2> HIDE DEF x
  <2>4. CASE x \in R
    <3>1. T \cap R = U \cup {x} /\ x \notin U
      BY <2>1, <2>4
    <3>2. SumOver(f, U \cup {x}) = f[x] + SumOver(f, U)
      <4> HIDE DEF U
      <4> QED
        BY <2>1, <2>3, <2>4, <3>1, SumAdd
    <3> QED
      BY <2>1, <2>2, <2>4, <3>1, <3>2
  <2>5. CASE x \notin R
    <3>1. T \cap R = U /\ g[x] = 0
      BY <1>2, <2>1, <2>5
    <3> QED
      BY <2>1, <2>2, <2>3, <3>1
  <2> QED
    BY <2>4, <2>5
<1> HIDE DEF X
<1>3. S \in X
  BY <1>1, <1>2, PartInduction
<1>4. S \cap R = R
  OBVIOUS
<1> QED
  BY <1>3, <1>4 DEF X

\* A sum is the sum over a subset and over the rest.
LEMMA SumOfParts ==
  ASSUME NEW S, IsFiniteSet(S), NEW R \in SUBSET S, NEW f, \A x \in S : f[x] \in Int
  PROVE  SumOver(f, S) = SumOver(f, R) + SumOver(f, S \ R)
<1> DEFINE g == [x \in S |-> IF x \in R THEN f[x] ELSE 0]
           h == [x \in S |-> IF x \in R THEN 0 ELSE f[x]]
<1>1. /\ \A x \in R : g[x] = f[x] /\ h[x] = 0
      /\ \A x \in S \ R : g[x] = 0 /\ h[x] = f[x]
      /\ \A x \in S : g[x] \in Int /\ h[x] \in Int /\ f[x] = g[x] + h[x]
      /\ S \ (S \ R) = R
  OBVIOUS
<1> HIDE DEF g, h
<1>2. SumOver(f, R) = SumOver(g, S) /\ SumOver(f, S \ R) = SumOver(h, S)
  BY <1>1, SumOfSubset
<1> QED
  BY <1>1, <1>2, SumOfSums

\* Fewer naturals add up to less.
LEMMA SumOfFewer ==
  ASSUME NEW S, IsFiniteSet(S), NEW R \in SUBSET S, NEW f, \A x \in S : f[x] \in Nat
  PROVE  SumOver(f, R) <= SumOver(f, S)
<1>1. SumOver(f, R) \in Nat /\ SumOver(f, S \ R) \in Nat
  BY SumIsNat, FS_Subset
<1> QED
  BY <1>1, SumOfParts
=============================================================================
