----------------------------- MODULE SumProofs ------------------------------
(***************************************************************************)
(* Sums over finite sets, as SumFunctionOnSet of the community modules     *)
(* computes them: they do not depend on the order in which the fold picks  *)
(* the elements, and they add up over disjoint sets.                       *)
(***************************************************************************)
EXTENDS Integers, Functions, FiniteSetTheorems, WellFoundedInduction, TLAPS

(* Induction on the natural numbers, for a set of them.                    *)
LEMMA InductionOnNat ==
  ASSUME NEW S, 0 \in S, \A n \in Nat : n \in S => n + 1 \in S
  PROVE  \A n \in Nat : n \in S
<1> DEFINE T == Nat \ S
           R == OpToRel(<, Nat)
<1>1. \A i, j \in Nat : i < j => <<i, j>> \in R
  BY DEF OpToRel
<1>2. IsWellFoundedOn(R, Nat)
  BY NatLessThanWellFounded, Zenon
<1> SUFFICES ASSUME T # {} PROVE FALSE
  OBVIOUS
<1> HIDE DEF R
<1>3. PICK x \in T : \A y \in T : ~(<<y, x>> \in R)
  <2>1. T \subseteq Nat
    OBVIOUS
  <2> HIDE DEF T
  <2> QED
    BY <1>2, <2>1, WFMin
<1>4. x # 0 /\ x \in Nat
  OBVIOUS
<1>5. x - 1 \in Nat /\ x - 1 < x /\ (x - 1) + 1 = x
  BY <1>4
<1>6. x - 1 \in T
  BY <1>5
<1> QED
  BY <1>1, <1>3, <1>4, <1>5, <1>6

-----------------------------------------------------------------------------
(* The element that the fold takes next, and the function it iterates.     *)
Pick(s) == CHOOSE x \in s : TRUE

Iterates(g, f, S) ==
    g = [s \in SUBSET S |->
            IF s = {} THEN 0 ELSE f[Pick(s)] + g[s \ {Pick(s)}]]

LEMMA SumIs ==
  ASSUME NEW f, NEW S
  PROVE  SumFunctionOnSet(f, S) = (CHOOSE g : Iterates(g, f, S))[S]
BY DEF SumFunctionOnSet, FoldFunctionOnSet, MapThenFoldSet, Iterates, Pick

LEMMA PickType == ASSUME NEW s, s # {} PROVE Pick(s) \in s
BY DEF Pick

(* Taking an element away from a finite set.                               *)
LEMMA Smaller ==
  ASSUME NEW s, IsFiniteSet(s), NEW x \in s
  PROVE  /\ IsFiniteSet(s \ {x})
         /\ Cardinality(s) \in Nat /\ Cardinality(s \ {x}) \in Nat
         /\ Cardinality(s) = Cardinality(s \ {x}) + 1
<1>1. IsFiniteSet(s \ {x}) /\ Cardinality(s \ {x}) = Cardinality(s) - 1
  BY FS_RemoveElement
<1>2. Cardinality(s) \in Nat /\ Cardinality(s \ {x}) \in Nat
  BY <1>1, FS_CardinalityType
<1> QED
  BY <1>1, <1>2

(* g satisfies the fold's equation on the sets of up to n elements.        *)
UpTo(g, n, f, S) ==
    /\ g \in [SUBSET S -> Nat]
    /\ \A s \in SUBSET S : Cardinality(s) <= n =>
          g[s] = IF s = {} THEN 0 ELSE f[Pick(s)] + g[s \ {Pick(s)}]

LEMMA UpToMore ==
  ASSUME NEW S, IsFiniteSet(S), NEW f, \A x \in S : f[x] \in Nat,
         NEW n \in Nat, NEW g, UpTo(g, n, f, S)
  PROVE  \E h : UpTo(h, n + 1, f, S)
<1> DEFINE h == [s \in SUBSET S |->
                    IF Cardinality(s) <= n \/ s = {} THEN g[s]
                    ELSE f[Pick(s)] + g[s \ {Pick(s)}]]
<1>0. \A s \in SUBSET S : IsFiniteSet(s) /\ Cardinality(s) \in Nat
  BY FS_Subset, FS_CardinalityType
<1>1. \A s \in SUBSET S : s # {} =>
         /\ f[Pick(s)] \in Nat
         /\ s \ {Pick(s)} \in SUBSET S
         /\ Cardinality(s) = Cardinality(s \ {Pick(s)}) + 1
  BY <1>0, PickType, Smaller
<1>2. h \in [SUBSET S -> Nat]
  <2>1. \A s \in SUBSET S : g[s] \in Nat
    BY DEF UpTo
  <2> QED
    BY <1>1, <2>1
<1>3. ASSUME NEW s \in SUBSET S, Cardinality(s) <= n + 1
      PROVE  h[s] = IF s = {} THEN 0 ELSE f[Pick(s)] + h[s \ {Pick(s)}]
  <2>1. CASE s = {}
    <3>1. Cardinality(s) <= n
      BY <2>1, FS_EmptySet
    <3>2. g[s] = 0
      BY <2>1, <3>1 DEF UpTo
    <3> QED
      BY <2>1, <3>2
  <2>2. CASE s # {}
    <3>1. /\ s \ {Pick(s)} \in SUBSET S
          /\ Cardinality(s) = Cardinality(s \ {Pick(s)}) + 1
          /\ Cardinality(s \ {Pick(s)}) \in Nat
      BY <1>0, <1>1, <2>2
    <3>2. Cardinality(s \ {Pick(s)}) <= n
      BY <1>3, <3>1
    <3>3. h[s \ {Pick(s)}] = g[s \ {Pick(s)}]
      BY <3>1, <3>2
    <3>4. h[s] = f[Pick(s)] + g[s \ {Pick(s)}]
      BY <2>2 DEF UpTo
    <3> QED
      BY <2>2, <3>3, <3>4
  <2> QED
    BY <2>1, <2>2
<1> HIDE DEF h
<1> QED
  BY <1>2, <1>3 DEF UpTo

(* The fold is well defined.                                               *)
LEMMA IterationExists ==
  ASSUME NEW S, IsFiniteSet(S), NEW f, \A x \in S : f[x] \in Nat
  PROVE  \E g \in [SUBSET S -> Nat] : Iterates(g, f, S)
<1> DEFINE A == {n \in Nat : \E g : UpTo(g, n, f, S)}
<1>1. 0 \in A
  <2> DEFINE g == [s \in SUBSET S |-> 0]
  <2>1. \A s \in SUBSET S : Cardinality(s) <= 0 => s = {}
    <3>1. \A s \in SUBSET S : IsFiniteSet(s) /\ Cardinality(s) \in Nat
      BY FS_Subset, FS_CardinalityType
    <3> QED
      BY <3>1, FS_EmptySet
  <2>2. UpTo(g, 0, f, S)
    BY <2>1 DEF UpTo
  <2> QED
    BY <2>2
<1>2. \A n \in Nat : n \in A => n + 1 \in A
  BY UpToMore
<1> HIDE DEF A
<1>3. \A n \in Nat : n \in A
  BY <1>1, <1>2, InductionOnNat
<1>4. Cardinality(S) \in Nat
  BY FS_CardinalityType
<1>5. PICK g : UpTo(g, Cardinality(S), f, S)
  BY <1>3, <1>4 DEF A
<1>6. \A s \in SUBSET S : Cardinality(s) <= Cardinality(S)
  BY FS_Subset
<1>7. g \in [SUBSET S -> Nat] /\ Iterates(g, f, S)
  BY <1>5, <1>6 DEF UpTo, Iterates
<1> QED
  BY <1>7

(* What it computes for a set depends on nothing but the set's elements.   *)
LEMMA IterationsAgree ==
  ASSUME NEW S, NEW f, NEW g, Iterates(g, f, S),
         NEW T, NEW e, NEW h, Iterates(h, e, T),
         NEW U, U \subseteq S, U \subseteq T, IsFiniteSet(U),
         \A x \in U : e[x] = f[x]
  PROVE  g[U] = h[U]
<1> DEFINE A == {n \in Nat : \A s \in SUBSET U :
                                Cardinality(s) = n => g[s] = h[s]}
<1>0. \A s \in SUBSET U : /\ IsFiniteSet(s) /\ Cardinality(s) \in Nat
                          /\ s \in SUBSET S /\ s \in SUBSET T
  BY FS_Subset, FS_CardinalityType
<1>1. \A s \in SUBSET U :
         /\ g[s] = IF s = {} THEN 0 ELSE f[Pick(s)] + g[s \ {Pick(s)}]
         /\ h[s] = IF s = {} THEN 0 ELSE e[Pick(s)] + h[s \ {Pick(s)}]
  BY <1>0 DEF Iterates
<1>2. 0 \in A
  <2>1. \A s \in SUBSET U : Cardinality(s) = 0 => s = {}
    BY <1>0, FS_EmptySet
  <2> QED
    BY <1>1, <2>1
<1>3. ASSUME NEW n \in Nat, n \in A PROVE n + 1 \in A
  <2> SUFFICES ASSUME NEW s \in SUBSET U, Cardinality(s) = n + 1
               PROVE  g[s] = h[s]
    OBVIOUS
  <2>1. s # {}
    BY FS_EmptySet
  <2>2. Pick(s) \in s /\ Cardinality(s) = Cardinality(s \ {Pick(s)}) + 1
        /\ Cardinality(s \ {Pick(s)}) \in Nat
    BY <1>0, <2>1, PickType, Smaller
  <2>3. Cardinality(s \ {Pick(s)}) = n /\ s \ {Pick(s)} \in SUBSET U
    BY <2>2
  <2>4. g[s \ {Pick(s)}] = h[s \ {Pick(s)}]
    BY <1>3, <2>3
  <2> QED
    BY <1>1, <2>1, <2>2, <2>4
<1> HIDE DEF A
<1>4. Cardinality(U) \in Nat /\ \A n \in Nat : n \in A
  BY <1>2, <1>3, InductionOnNat, FS_CardinalityType
<1> QED
  BY <1>4 DEF A

(* The order does not matter.                                              *)
TakesAny(g, f, S) == \A y \in S : g[S] = f[y] + g[S \ {y}]

LEMMA IterationTakesAny ==
  ASSUME NEW S, IsFiniteSet(S), NEW f, \A x \in S : f[x] \in Nat,
         NEW g \in [SUBSET S -> Nat], Iterates(g, f, S)
  PROVE  TakesAny(g, f, S)
<1> DEFINE A == {n \in Nat : \A s \in SUBSET S : Cardinality(s) = n =>
                                \A z \in s : g[s] = f[z] + g[s \ {z}]}
<1>0. \A s \in SUBSET S : IsFiniteSet(s) /\ Cardinality(s) \in Nat
  BY FS_Subset, FS_CardinalityType
<1>1. \A s \in SUBSET S :
         g[s] = IF s = {} THEN 0 ELSE f[Pick(s)] + g[s \ {Pick(s)}]
  BY DEF Iterates
<1>2. 0 \in A
  <2>1. \A s \in SUBSET S : Cardinality(s) = 0 => s = {}
    BY <1>0, FS_EmptySet
  <2> QED
    BY <2>1
<1>3. ASSUME NEW n \in Nat, n \in A PROVE n + 1 \in A
  <2> SUFFICES ASSUME NEW s \in SUBSET S, Cardinality(s) = n + 1, NEW z \in s
               PROVE  g[s] = f[z] + g[s \ {z}]
    OBVIOUS
  <2> DEFINE x == Pick(s)
  <2>1. x \in s
    BY PickType
  <2>2. g[s] = f[x] + g[s \ {x}]
    BY <1>1
  <2> HIDE DEF x
  <2>3. CASE x = z
    BY <2>2, <2>3
  <2>4. CASE x # z
    <3>1. Cardinality(s \ {x}) = n /\ Cardinality(s \ {z}) = n
      <4>1. /\ Cardinality(s) = Cardinality(s \ {x}) + 1
            /\ Cardinality(s) = Cardinality(s \ {z}) + 1
            /\ Cardinality(s \ {x}) \in Nat /\ Cardinality(s \ {z}) \in Nat
        BY <1>0, <2>1, Smaller
      <4> QED
        BY <4>1
    <3>2. z \in s \ {x} /\ x \in s \ {z}
      BY <2>1, <2>4
    <3>3. g[s \ {x}] = f[z] + g[(s \ {x}) \ {z}]
      BY <1>3, <3>1, <3>2
    <3>4. g[s \ {z}] = f[x] + g[(s \ {z}) \ {x}]
      BY <1>3, <3>1, <3>2
    <3>5. (s \ {x}) \ {z} = (s \ {z}) \ {x}
      OBVIOUS
    <3>6. f[x] \in Nat /\ f[z] \in Nat /\ g[(s \ {x}) \ {z}] \in Nat
      BY <2>1
    <3>7. f[x] + (f[z] + g[(s \ {x}) \ {z}])
            = f[z] + (f[x] + g[(s \ {x}) \ {z}])
      BY <3>6
    <3> QED
      BY <2>2, <3>3, <3>4, <3>5, <3>7, Zenon
  <2> QED
    BY <2>3, <2>4
<1> HIDE DEF A
<1>4. Cardinality(S) \in Nat /\ \A n \in Nat : n \in A
  BY <1>2, <1>3, InductionOnNat, FS_CardinalityType
<1> QED
  BY <1>4 DEF A, TakesAny

-----------------------------------------------------------------------------
(* The same facts for the sum.                                             *)
LEMMA SumIterates ==
  ASSUME NEW S, IsFiniteSet(S), NEW f, \A x \in S : f[x] \in Nat
  PROVE  \E g \in [SUBSET S -> Nat] :
            Iterates(g, f, S) /\ SumFunctionOnSet(f, S) = g[S]
<1> DEFINE h == CHOOSE g : Iterates(g, f, S)
<1>1. PICK g \in [SUBSET S -> Nat] : Iterates(g, f, S)
  BY IterationExists
<1>2. Iterates(h, f, S)
  BY <1>1
<1>3. SumFunctionOnSet(f, S) = h[S]
  BY SumIs
<1> HIDE DEF h
<1>4. h[S] = g[S]
  BY <1>1, <1>2, IterationsAgree
<1> QED
  BY <1>1, <1>3, <1>4

LEMMA SumType ==
  ASSUME NEW S, IsFiniteSet(S), NEW f, \A x \in S : f[x] \in Nat
  PROVE  SumFunctionOnSet(f, S) \in Nat
<1>1. PICK g \in [SUBSET S -> Nat] :
        Iterates(g, f, S) /\ SumFunctionOnSet(f, S) = g[S]
  BY SumIterates
<1>2. g[S] \in Nat
  OBVIOUS
<1> QED
  BY <1>1, <1>2, Zenon

LEMMA SumEmpty == ASSUME NEW f PROVE SumFunctionOnSet(f, {}) = 0
<1>1. IsFiniteSet({})
  BY FS_EmptySet
<1>2. PICK g \in [SUBSET {} -> Nat] :
        Iterates(g, f, {}) /\ SumFunctionOnSet(f, {}) = g[{}]
  BY <1>1, SumIterates
<1> QED
  BY <1>2 DEF Iterates

(* Only the values on the set count.                                       *)
LEMMA SumSame ==
  ASSUME NEW S, IsFiniteSet(S), NEW f, \A x \in S : f[x] \in Nat,
         NEW e, \A x \in S : e[x] = f[x]
  PROVE  SumFunctionOnSet(e, S) = SumFunctionOnSet(f, S)
<1>1. PICK g \in [SUBSET S -> Nat] :
        Iterates(g, f, S) /\ SumFunctionOnSet(f, S) = g[S]
  BY SumIterates
<1>2. PICK h \in [SUBSET S -> Nat] :
        Iterates(h, e, S) /\ SumFunctionOnSet(e, S) = h[S]
  BY SumIterates
<1>3. g[S] = h[S]
  BY <1>1, <1>2, IterationsAgree
<1> QED
  BY <1>1, <1>2, <1>3

(* Any element may be taken out of the sum.                                *)
LEMMA SumRemove ==
  ASSUME NEW S, IsFiniteSet(S), NEW f, \A x \in S : f[x] \in Nat, NEW y \in S
  PROVE  SumFunctionOnSet(f, S) = f[y] + SumFunctionOnSet(f, S \ {y})
<1> DEFINE T == S \ {y}
<1>1. T \subseteq S /\ IsFiniteSet(T)
  BY FS_RemoveElement
<1> HIDE DEF T
<1>2. PICK g \in [SUBSET S -> Nat] :
        Iterates(g, f, S) /\ SumFunctionOnSet(f, S) = g[S]
  BY SumIterates
<1>3. PICK h \in [SUBSET T -> Nat] :
        Iterates(h, f, T) /\ SumFunctionOnSet(f, T) = h[T]
  BY <1>1, SumIterates
<1>4. g[T] = h[T]
  BY <1>1, <1>2, <1>3, IterationsAgree
<1>5. g[S] = f[y] + g[T]
  <2>1. TakesAny(g, f, S)
    BY <1>2, IterationTakesAny
  <2> QED
    BY <2>1 DEF TakesAny, T
<1> QED
  BY <1>2, <1>3, <1>4, <1>5 DEF T

LEMMA SumAdd ==
  ASSUME NEW S, IsFiniteSet(S), NEW f, NEW y, y \notin S,
         \A x \in S \cup {y} : f[x] \in Nat
  PROVE  SumFunctionOnSet(f, S \cup {y}) = f[y] + SumFunctionOnSet(f, S)
<1> DEFINE T == S \cup {y}
<1>1. IsFiniteSet(T) /\ y \in T /\ T \ {y} = S /\ \A x \in T : f[x] \in Nat
  BY FS_AddElement
<1> HIDE DEF T
<1>2. SumFunctionOnSet(f, T) = f[y] + SumFunctionOnSet(f, T \ {y})
  BY <1>1, SumRemove
<1> QED
  BY <1>1, <1>2 DEF T

(* Sums add up over disjoint sets.                                         *)
LEMMA SumUnion ==
  ASSUME NEW S, IsFiniteSet(S), NEW T, IsFiniteSet(T), S \cap T = {},
         NEW f, \A x \in S \cup T : f[x] \in Nat
  PROVE  SumFunctionOnSet(f, S \cup T) =
             SumFunctionOnSet(f, S) + SumFunctionOnSet(f, T)
<1> DEFINE Sum(s) == SumFunctionOnSet(f, s)
           A == {n \in Nat : \A s \in SUBSET T : Cardinality(s) = n =>
                                Sum(S \cup s) = Sum(S) + Sum(s)}
<1>0. \A s \in SUBSET T : /\ IsFiniteSet(s) /\ Cardinality(s) \in Nat
                          /\ IsFiniteSet(S \cup s)
  BY FS_Subset, FS_CardinalityType, FS_Union
<1>1. Sum(S) \in Nat /\ \A s \in SUBSET T : Sum(s) \in Nat
  BY <1>0, SumType
<1>2. 0 \in A
  <2>1. \A s \in SUBSET T : Cardinality(s) = 0 => s = {}
    BY <1>0, FS_EmptySet
  <2>2. Sum({}) = 0 /\ S \cup {} = S
    BY SumEmpty
  <2> HIDE DEF Sum
  <2> QED
    BY <1>1, <2>1, <2>2
<1>3. ASSUME NEW n \in Nat, n \in A PROVE n + 1 \in A
  <2> SUFFICES ASSUME NEW s \in SUBSET T, Cardinality(s) = n + 1
               PROVE  Sum(S \cup s) = Sum(S) + Sum(s)
    OBVIOUS
  <2>1. s # {}
    BY FS_EmptySet
  <2>2. PICK y \in s : TRUE
    BY <2>1
  <2> DEFINE r == s \ {y}
  <2>3. r \in SUBSET T /\ Cardinality(r) = n
    <3>1. Cardinality(s) = Cardinality(r) + 1 /\ Cardinality(r) \in Nat
      BY <1>0, <2>2, Smaller
    <3> QED
      BY <3>1
  <2>4. Sum(S \cup r) = Sum(S) + Sum(r)
    BY <1>3, <2>3
  <2>5. Sum(s) = f[y] + Sum(r)
    BY <1>0, <2>2, SumRemove
  <2>6. Sum(S \cup s) = f[y] + Sum(S \cup r)
    <3>1. y \in S \cup s /\ (S \cup s) \ {y} = S \cup r
          /\ \A x \in S \cup s : f[x] \in Nat
      BY <2>2
    <3>2. SumFunctionOnSet(f, S \cup s)
            = f[y] + SumFunctionOnSet(f, (S \cup s) \ {y})
      BY <1>0, <3>1, SumRemove
    <3> QED
      BY <3>1, <3>2
  <2>7. f[y] \in Nat /\ Sum(r) \in Nat
    BY <1>1, <2>2, <2>3
  <2> HIDE DEF Sum, r
  <2> QED
    BY <1>1, <2>4, <2>5, <2>6, <2>7
<1> HIDE DEF A
<1>4. Cardinality(T) \in Nat /\ \A n \in Nat : n \in A
  BY <1>2, <1>3, InductionOnNat, FS_CardinalityType
<1> QED
  BY <1>4 DEF A

LEMMA SumSubset ==
  ASSUME NEW S, IsFiniteSet(S), NEW f, \A x \in S : f[x] \in Nat,
         NEW T \in SUBSET S
  PROVE  SumFunctionOnSet(f, T) <= SumFunctionOnSet(f, S)
<1> DEFINE U == S \ T
<1>1. IsFiniteSet(T) /\ IsFiniteSet(U) /\ T \cap U = {} /\ T \cup U = S
  BY FS_Subset
<1> HIDE DEF U
<1>2. /\ SumFunctionOnSet(f, T \cup U) =
            SumFunctionOnSet(f, T) + SumFunctionOnSet(f, U)
      /\ SumFunctionOnSet(f, T) \in Nat /\ SumFunctionOnSet(f, U) \in Nat
  BY <1>1, SumUnion, SumType
<1> HIDE DEF U
<1>3. \A a, b \in Nat : a <= a + b
  OBVIOUS
<1>4. SumFunctionOnSet(f, S)
        = SumFunctionOnSet(f, T) + SumFunctionOnSet(f, U)
  BY <1>1, <1>2, Zenon
<1> QED
  BY <1>2, <1>3, <1>4, Zenon

=============================================================================
