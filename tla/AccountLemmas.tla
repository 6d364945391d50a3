----------------------------- MODULE AccountLemmas -----------------------------
(***************************************************************************)
(* The invariant of the account of ExecutionModel, what its operators      *)
(* compute for every policy, request and bar (sums, roundings, lots,       *)
(* postings, reservations), and the calls that touch no fill: cancel,      *)
(* expire, observe, submit and seed keep the invariant.                    *)
(***************************************************************************)
EXTENDS ExecutionModel, FiniteSetTheorems, WellFoundedInduction, TLAPS

\* Most steps are first-order; a step that needs arithmetic or records says SMT, or cites
\* ONLY what it computes with.
USE Zenon

\* What is not used below stays hidden: a visible name is expanded in every step.
HIDE DEF NatInduction, DownwardNatInduction, GeneralNatInduction, SmallestNatural,
         RecursiveFcnOfNat, NatInductiveDef, RecursiveFcnOfNatType, NatInductiveDefType,
         RecursiveFcnOfNatUnique, NatInductiveUnique, FiniteNatInductiveDef,
         FiniteNatInductiveDefType, FiniteNatInductiveUnique, EmptyIsWellFounded,
         IsWellFoundedOnSubset, IsWellFoundedOnSubrelation, MinWF,
         WellFoundedIsIrreflexive, WellFoundedIsAsymmetric, WFSetLessThanIrreflexive,
         SetLessTransitive, WFInduction, WFDefOnUnique, WFInductiveDefLemma,
         TransitiveClosureThm, TransitiveClosureMinimal, TCTCTC, TCRTC, RTCTC,
         TransitiveClosureChopLast, TransitiveClosureWF, WFInductiveDef,
         WFInductiveDefType, PreImageWellFounded, WFLexPairOrdering,
         WFLexProductOrdering, FS_NatSurjection, FS_NatBijection, FS_CountingElements,
         FS_SurjCardinalityBound, FS_Bijection, FS_SameCardinalityBij,
         FS_SurjSameCardinalityImpliesInj, FS_Surjection, FS_Image, FS_Injection,
         FS_PigeonHole, FS_AddElement, FS_Singleton, FS_BoundedSetOfNaturals,
         FS_Induction, FS_FiniteSubsetsOfFinite, FS_StrictSubsetOrderingWellFounded,
         FS_WFInduction, FS_Union, FS_MajoritiesIntersect, FS_Intersection,
         FS_Difference, FS_UNION, FS_Product, FS_SUBSET

(* Induction, and sums over finite sets.  The loops of the code are folds and sums; what
   they compute is proved by induction on how far they are. *)

\* Induction over the numbers, for a set: the minimal number outside it does not exist.
LEMMA Induction ==
    ASSUME NEW T, 0 \in T, \A n \in Nat : n \in T => n + 1 \in T
    PROVE  \A n \in Nat : n \in T
<1> DEFINE R == OpToRel(<, Nat)
           M == Nat \ T
<1>1. SUFFICES ASSUME M # {} PROVE FALSE
  OBVIOUS
<1>2. IsWellFoundedOn(R, Nat)
  BY NatLessThanWellFounded
<1>3. PICK x \in M : \A y \in M : ~ (<<y, x>> \in R)
  <2> HIDE DEF R
  <2> QED  BY <1>1, <1>2, WFMin
<1> HIDE DEF R
<1>4. x \in Nat /\ x # 0 /\ x - 1 \in Nat
  BY <1>3, SMT
<1>5. x - 1 \in M
  BY <1>4, <1>3, SMT
<1>6. <<x - 1, x>> \in R
  BY ONLY <1>4 DEF OpToRel, R
<1> QED  BY <1>3, <1>5, <1>6

\* An arbitrary element, as the fold takes it.
Some(s) == CHOOSE x \in s : TRUE
\* g[s] is the sum of f over s, for the subsets s of S.
Sums(f, S, g) ==
    g = [s \in SUBSET S |-> IF s = {} THEN 0 ELSE f[Some(s)] + g[s \ {Some(s)}]]

\* A non-empty set has the element a sum takes first.
LEMMA SomeIn == ASSUME NEW s, s # {} PROVE Some(s) \in s
  BY DEF Some

\* Taking that element leaves a finite set with one element less.
LEMMA SmallSubset ==
    ASSUME NEW S, IsFiniteSet(S), NEW s \in SUBSET S, s # {}
    PROVE  /\ Some(s) \in s
           /\ IsFiniteSet(s) /\ IsFiniteSet(s \ {Some(s)})
           /\ Cardinality(s) \in Nat /\ Cardinality(s \ {Some(s)}) \in Nat
           /\ Cardinality(s) = Cardinality(s \ {Some(s)}) + 1
<1>1. Some(s) \in s  BY SomeIn
<1>2. IsFiniteSet(s)  BY FS_Subset
<1>3. IsFiniteSet(s \ {Some(s)})  BY <1>2, FS_Subset
<1> QED  BY ONLY <1>1, <1>2, <1>3, FS_RemoveElement, FS_CardinalityType

\* The same, as the induction on the size of a set uses it.
LEMMA SmallerSubset ==
    ASSUME NEW S, IsFiniteSet(S), NEW s \in SUBSET S, s # {}, NEW n \in Nat,
           Cardinality(s) <= n + 1
    PROVE  /\ Some(s) \in S /\ s \ {Some(s)} \in SUBSET S
           /\ Cardinality(s \ {Some(s)}) <= n
<1>1. /\ Some(s) \in s
      /\ Cardinality(s) \in Nat /\ Cardinality(s \ {Some(s)}) \in Nat
      /\ Cardinality(s) = Cardinality(s \ {Some(s)}) + 1
  BY SmallSubset
<1> QED  BY <1>1, SMT

\* The recursive definition of a sum over a finite set defines a function.
LEMMA SumsExist ==
    ASSUME NEW S, IsFiniteSet(S), NEW f
    PROVE  \E g : Sums(f, S, g)
<1> DEFINE D(n) == {s \in SUBSET S : Cardinality(s) <= n}
           E(g, s) == IF s = {} THEN 0 ELSE f[Some(s)] + g[s \ {Some(s)}]
           T == {n \in Nat : \E g : \A s \in D(n) : g[s] = E(g, s)}
<1>1. 0 \in T
  <2> DEFINE g == [s \in D(0) |-> 0]
  <2>1. \A s \in D(0) : s = {}
    <3> TAKE s \in D(0)
    <3>1. IsFiniteSet(s)  BY FS_Subset
    <3> QED  BY ONLY <3>1, FS_EmptySet, FS_CardinalityType
  <2>2. \A s \in D(0) : g[s] = E(g, s)
    BY <2>1
  <2> QED  BY <2>2
<1>2. ASSUME NEW n \in Nat, n \in T PROVE n + 1 \in T
  <2>1. PICK g : \A s \in D(n) : g[s] = E(g, s)
    BY <1>2
  <2> DEFINE h == [s \in D(n + 1) |-> E(g, s)]
  <2>2. ASSUME NEW s \in D(n + 1), s # {} PROVE s \ {Some(s)} \in D(n)
    BY <2>2, SmallerSubset
  <2>3. \A s \in D(n) : s \in D(n + 1)
    <3> TAKE s \in D(n)
    <3>1. IsFiniteSet(s)  BY FS_Subset
    <3> QED  BY ONLY <3>1, FS_CardinalityType
  <2>4. ASSUME NEW s \in D(n + 1) PROVE h[s] = E(h, s)
    <3>1. CASE s = {}  BY <3>1
    <3>2. CASE s # {}
      <4>1. s \ {Some(s)} \in D(n) BY <2>2, <3>2
      <4>2. g[s \ {Some(s)}] = E(g, s \ {Some(s)})  BY <4>1, <2>1
      <4>3. h[s \ {Some(s)}] = E(g, s \ {Some(s)})  BY <4>1, <2>3
      <4> QED  BY <3>2, <4>2, <4>3
    <3> QED  BY <3>1, <3>2
  <2> HIDE DEF h, E
  <2> QED  BY ONLY <2>4
<1> HIDE DEF T
<1>3. Cardinality(S) \in Nat  BY FS_CardinalityType
<1>4. Cardinality(S) \in T  BY <1>1, <1>2, <1>3, Induction
<1>5. PICK g : \A s \in D(Cardinality(S)) : g[s] = E(g, s)
  BY <1>4 DEF T
<1>6. \A s \in SUBSET S : s \in D(Cardinality(S))
  BY FS_Subset
<1> DEFINE h == [s \in SUBSET S |-> g[s]]
<1>7. h = [s \in SUBSET S |-> E(h, s)]
  BY <1>5, <1>6
<1> QED  BY <1>7 DEF Sums

\* SumFunctionOnSet is that function.
LEMMA SumDef ==
    ASSUME NEW S, IsFiniteSet(S), NEW f
    PROVE  \E g : Sums(f, S, g) /\ SumFunctionOnSet(f, S) = g[S]
<1> DEFINE g == CHOOSE g : Sums(f, S, g)
<1>1. Sums(f, S, g)  BY SumsExist
<1>2. SumFunctionOnSet(f, S) = g[S]
  BY DEF SumFunctionOnSet, FoldFunctionOnSet, MapThenFoldSet, Sums, Some
<1> QED  BY <1>1, <1>2

\* What it adds up for a subset does not depend on the larger set.
LEMMA SumsAgree ==
    ASSUME NEW S, IsFiniteSet(S), NEW R \in SUBSET S, NEW f, NEW g, NEW h,
           Sums(f, S, g), Sums(f, R, h)
    PROVE  g[R] = h[R]
<1> DEFINE T == {n \in Nat : \A s \in SUBSET R : Cardinality(s) <= n => g[s] = h[s]}
<1>0. IsFiniteSet(R)  BY FS_Subset
<1>a. /\ \A s \in SUBSET R : g[s] = IF s = {} THEN 0 ELSE f[Some(s)] + g[s \ {Some(s)}]
      /\ \A s \in SUBSET R : h[s] = IF s = {} THEN 0 ELSE f[Some(s)] + h[s \ {Some(s)}]
  BY DEF Sums
<1>1. 0 \in T
  <2> SUFFICES ASSUME NEW s \in SUBSET R, Cardinality(s) <= 0 PROVE g[s] = h[s]
    OBVIOUS
  <2>1. IsFiniteSet(s)  BY <1>0, FS_Subset
  <2>2. s = {}  BY <2>1, FS_EmptySet, FS_CardinalityType, SMT
  <2> QED  BY <2>2, <1>a
<1>2. ASSUME NEW n \in Nat, n \in T PROVE n + 1 \in T
  <2> SUFFICES ASSUME NEW s \in SUBSET R, Cardinality(s) <= n + 1 PROVE g[s] = h[s]
    BY SMT
  <2>1. CASE s = {}  BY <2>1, <1>a
  <2>2. CASE s # {}
    <3>1. /\ s \ {Some(s)} \in SUBSET R
          /\ Cardinality(s \ {Some(s)}) <= n
      BY <2>2, <1>0, SmallerSubset
    <3>2. g[s \ {Some(s)}] = h[s \ {Some(s)}]
      BY <3>1, <1>2
    <3>3. g[s] = f[Some(s)] + g[s \ {Some(s)}] /\ h[s] = f[Some(s)] + h[s \ {Some(s)}]
      BY <2>2, <1>a
    <3> QED  BY <3>2, <3>3
  <2> QED  BY <2>1, <2>2
<1> HIDE DEF T
<1>3. Cardinality(R) \in T  BY <1>0, <1>1, <1>2, Induction, FS_CardinalityType
<1> QED  BY ONLY <1>0, <1>3, FS_CardinalityType DEF T

\* The empty sum is zero.
LEMMA SumOfNothing == ASSUME NEW f PROVE SumFunctionOnSet(f, {}) = 0
<1>1. IsFiniteSet({})  BY FS_EmptySet
<1>2. PICK g : Sums(f, {}, g) /\ SumFunctionOnSet(f, {}) = g[{}]
  BY <1>1, SumDef
<1> QED  BY <1>2 DEF Sums

\* A sum is the element taken first and the sum of the rest.
LEMMA SumStep ==
    ASSUME NEW S, IsFiniteSet(S), S # {}, NEW f
    PROVE  SumFunctionOnSet(f, S) = f[Some(S)] + SumFunctionOnSet(f, S \ {Some(S)})
<1>1. PICK g : Sums(f, S, g) /\ SumFunctionOnSet(f, S) = g[S]
  BY SumDef
<1> DEFINE R == S \ {Some(S)}
<1>2. IsFiniteSet(R)  BY FS_Subset
<1>3. PICK h : Sums(f, R, h) /\ SumFunctionOnSet(f, R) = h[R]
  BY <1>2, SumDef
<1>4. g[R] = h[R]
  BY <1>1, <1>3, SumsAgree, SMT
<1>5. g[S] = f[Some(S)] + g[R]
  BY <1>1 DEF Sums
<1> QED  BY <1>1, <1>3, <1>4, <1>5

\* A sum stays in any set that holds zero and is closed under addition.
LEMMA SumClosed ==
    ASSUME NEW S, IsFiniteSet(S), NEW f, NEW Typ, 0 \in Typ,
           \A m, n \in Typ : m + n \in Typ, \A x \in S : f[x] \in Typ
    PROVE  SumFunctionOnSet(f, S) \in Typ
<1> DEFINE Sum(s) == SumFunctionOnSet(f, s)
           T == {n \in Nat : \A s \in SUBSET S : Cardinality(s) <= n => Sum(s) \in Typ}
<1> HIDE DEF Sum
<1>0. Sum({}) = 0 /\ \A s \in SUBSET S : IsFiniteSet(s) /\ Cardinality(s) \in Nat
  BY SumOfNothing, FS_Subset, FS_CardinalityType DEF Sum
<1>s. \A s \in SUBSET S : s # {} => Sum(s) = f[Some(s)] + Sum(s \ {Some(s)})
  BY <1>0, SumStep DEF Sum
<1>1. 0 \in T
  <2> SUFFICES ASSUME NEW s \in SUBSET S, Cardinality(s) <= 0 PROVE s = {}
    BY <1>0
  <2> QED  BY <1>0, FS_EmptySet, SMT
<1>2. ASSUME NEW n \in Nat, n \in T PROVE n + 1 \in T
  <2> SUFFICES ASSUME NEW s \in SUBSET S, Cardinality(s) <= n + 1 PROVE Sum(s) \in Typ
    BY SMT
  <2>1. CASE s = {}  BY <2>1, <1>0
  <2>2. CASE s # {}
    <3>1. /\ s \ {Some(s)} \in SUBSET S /\ Some(s) \in S
          /\ Cardinality(s \ {Some(s)}) <= n
      BY <2>2, SmallerSubset
    <3>2. Sum(s \ {Some(s)}) \in Typ
      BY <3>1, <1>2
    <3> QED  BY <3>1, <3>2, <2>2, <1>s, SMT
  <2> QED  BY <2>1, <2>2
<1> HIDE DEF T
<1>3. Cardinality(S) \in T  BY <1>0, <1>1, <1>2, Induction
<1> QED  BY ONLY <1>0, <1>3 DEF T, Sum

\* A sum of integers is an integer.
LEMMA SumInt ==
    ASSUME NEW S, IsFiniteSet(S), NEW f, \A x \in S : f[x] \in Int
    PROVE  SumFunctionOnSet(f, S) \in Int
<1>1. 0 \in Int /\ \A m, n \in Int : m + n \in Int
  BY SMT
<1> QED  BY <1>1, SumClosed

\* Any element can be taken out of a sum, not only the first.
LEMMA SumRemove ==
    ASSUME NEW S, IsFiniteSet(S), NEW f, \A x \in S : f[x] \in Int
    PROVE  \A x \in S : SumFunctionOnSet(f, S) = f[x] + SumFunctionOnSet(f, S \ {x})
<1> DEFINE Sum(s) == SumFunctionOnSet(f, s)
           T == {n \in Nat : \A s \in SUBSET S :
                   Cardinality(s) <= n => \A x \in s : Sum(s) = f[x] + Sum(s \ {x})}
<1> HIDE DEF Sum
<1>0. \A s \in SUBSET S : IsFiniteSet(s) /\ Sum(s) \in Int
  BY FS_Subset, SumInt DEF Sum
<1>s. \A s \in SUBSET S : s # {} => Sum(s) = f[Some(s)] + Sum(s \ {Some(s)})
  BY <1>0, SumStep DEF Sum
<1>1. 0 \in T
  <2> SUFFICES ASSUME NEW s \in SUBSET S, Cardinality(s) <= 0 PROVE s = {}
    OBVIOUS
  <2> QED  BY <1>0, FS_EmptySet, FS_CardinalityType, SMT
<1>2. ASSUME NEW n \in Nat, n \in T PROVE n + 1 \in T
  <2> SUFFICES ASSUME NEW s \in SUBSET S, Cardinality(s) <= n + 1, NEW x \in s
               PROVE  Sum(s) = f[x] + Sum(s \ {x})
    BY SMT
  <2> DEFINE c == Some(s)
  <2>1. /\ c \in s /\ Cardinality(s \ {c}) <= n
    BY SomeIn, SmallerSubset
  <2>2. Sum(s) = f[c] + Sum(s \ {c})
    BY <1>s
  <2>3. CASE c = x  BY <2>2, <2>3
  <2>4. CASE c # x
    <3> HIDE DEF c
    <3>1. Sum(s \ {c}) = f[x] + Sum((s \ {c}) \ {x})
      BY <2>1, <2>4, <1>2
    <3>2. Cardinality(s \ {x}) <= n
      <4>1. IsFiniteSet(s) /\ Cardinality(s) \in Nat  BY <1>0, FS_CardinalityType
      <4>2. Cardinality(s \ {x}) = Cardinality(s) - 1  BY <4>1, FS_RemoveElement
      <4> QED  BY <4>1, <4>2, SMT
    <3>3. Sum(s \ {x}) = f[c] + Sum((s \ {x}) \ {c})
      BY <2>1, <2>4, <3>2, <1>2
    <3>4. (s \ {x}) \ {c} = (s \ {c}) \ {x}
      OBVIOUS
    <3>5. f[c] \in Int /\ f[x] \in Int /\ Sum((s \ {c}) \ {x}) \in Int
      BY <2>1, <1>0
    <3>6. Sum(s \ {x}) = f[c] + Sum((s \ {c}) \ {x})
      BY <3>3, <3>4
    <3> QED  BY ONLY <2>2, <3>1, <3>5, <3>6
  <2> QED  BY <2>3, <2>4
<1> HIDE DEF T
<1>3. Cardinality(S) \in T  BY <1>1, <1>2, Induction, FS_CardinalityType
<1> QED  BY ONLY <1>3, FS_CardinalityType DEF T, Sum

\* The sum of differences is the difference of the sums.
LEMMA SumDifference ==
    ASSUME NEW S, IsFiniteSet(S), NEW f, NEW g, NEW h,
           \A x \in S : f[x] \in Int /\ g[x] \in Int /\ h[x] = g[x] - f[x]
    PROVE  SumFunctionOnSet(g, S) = SumFunctionOnSet(f, S) + SumFunctionOnSet(h, S)
<1> DEFINE F(s) == SumFunctionOnSet(f, s)
           G(s) == SumFunctionOnSet(g, s)
           H(s) == SumFunctionOnSet(h, s)
           T == {n \in Nat : \A s \in SUBSET S : Cardinality(s) <= n => G(s) = F(s) + H(s)}
<1> HIDE DEF F, G, H
<1>0. /\ F({}) = 0 /\ G({}) = 0 /\ H({}) = 0
      /\ \A s \in SUBSET S : IsFiniteSet(s) /\ Cardinality(s) \in Nat
  BY SumOfNothing, FS_Subset, FS_CardinalityType DEF F, G, H
<1>i. \A x \in S : h[x] \in Int
  BY SMT
<1>t. \A s \in SUBSET S : F(s) \in Int /\ H(s) \in Int
  BY <1>0, <1>i, SumInt DEF F, H
<1>s. ASSUME NEW s \in SUBSET S, s # {}
      PROVE  /\ F(s) = f[Some(s)] + F(s \ {Some(s)})
             /\ G(s) = g[Some(s)] + G(s \ {Some(s)})
             /\ H(s) = h[Some(s)] + H(s \ {Some(s)})
  BY <1>s, <1>0, SumStep DEF F, G, H
<1>1. 0 \in T
  <2>1. ASSUME NEW s \in SUBSET S, Cardinality(s) <= 0 PROVE s = {}
    BY ONLY <2>1, <1>0, FS_EmptySet
  <2>2. G({}) = F({}) + H({})
    BY ONLY <1>0
  <2>3. \A s \in SUBSET S : Cardinality(s) <= 0 => G(s) = F(s) + H(s)
    BY <2>1, <2>2
  <2> QED  BY <2>3
<1>2. ASSUME NEW n \in Nat, n \in T PROVE n + 1 \in T
  <2> SUFFICES ASSUME NEW s \in SUBSET S, Cardinality(s) <= n + 1 PROVE G(s) = F(s) + H(s)
    BY SMT
  <2>1. CASE s = {}  BY ONLY <2>1, <1>0
  <2>2. CASE s # {}
    <3> DEFINE c == Some(s)
               r == s \ {c}
    <3>1. r \in SUBSET S /\ c \in S /\ Cardinality(r) <= n
      BY <2>2, SmallerSubset
    <3>2. F(s) = f[c] + F(r) /\ G(s) = g[c] + G(r) /\ H(s) = h[c] + H(r)
      BY <2>2, <1>s
    <3> HIDE DEF c, r
    <3>3. G(r) = F(r) + H(r)
      BY <3>1, <1>2
    <3>4. f[c] \in Int /\ g[c] \in Int /\ h[c] = g[c] - f[c] /\ F(r) \in Int /\ H(r) \in Int
      BY <3>1, <1>t
    <3> QED  BY ONLY <3>2, <3>3, <3>4
  <2> QED  BY <2>1, <2>2
<1> HIDE DEF T
<1>3. Cardinality(S) \in T  BY <1>0, <1>1, <1>2, Induction
<1> QED  BY ONLY <1>0, <1>3 DEF T, F, G, H

\* Equal terms have equal sums.
LEMMA SumSame ==
    ASSUME NEW S, IsFiniteSet(S), NEW f, NEW g, \A x \in S : f[x] \in Int /\ g[x] = f[x]
    PROVE  SumFunctionOnSet(g, S) = SumFunctionOnSet(f, S)
<1> DEFINE h == [x \in S |-> 0]
<1>1. SumFunctionOnSet(h, S) \in {0}
  <2>1. 0 \in {0} /\ (\A m, n \in {0} : m + n \in {0}) /\ \A x \in S : h[x] \in {0}
    BY SMT
  <2> HIDE DEF h
  <2> QED  BY <2>1, SumClosed
<1>2. \A x \in S : f[x] \in Int /\ g[x] \in Int /\ h[x] = g[x] - f[x]
  BY SMT
<1> HIDE DEF h
<1>3. SumFunctionOnSet(g, S) = SumFunctionOnSet(f, S) + SumFunctionOnSet(h, S)
  BY <1>2, SumDifference, SMT
<1>4. SumFunctionOnSet(f, S) \in Int
  BY SumInt
<1> QED  BY ONLY <1>1, <1>3, <1>4

\* A sum of naturals is a natural.
LEMMA SumNat ==
    ASSUME NEW f, IsFiniteSet(DOMAIN f), \A x \in DOMAIN f : f[x] \in Nat
    PROVE  SumFunction(f) \in Nat
<1>1. 0 \in Nat /\ \A m, n \in Nat : m + n \in Nat
  BY SMT
<1> QED  BY <1>1, SumClosed DEF SumFunction

\* Changing one term changes the sum by the difference.
LEMMA SumChange ==
    ASSUME NEW f, NEW g, IsFiniteSet(DOMAIN f), DOMAIN g = DOMAIN f, NEW i \in DOMAIN f,
           \A x \in DOMAIN f : f[x] \in Int /\ (x # i => g[x] = f[x]), g[i] \in Int
    PROVE  /\ SumFunction(f) \in Int
           /\ SumFunction(g) = SumFunction(f) - f[i] + g[i]
<1> DEFINE S == DOMAIN f
<1>1. SumFunction(f) = SumFunctionOnSet(f, S) /\ SumFunction(g) = SumFunctionOnSet(g, S)
  BY DEF SumFunction
<1>2. \A x \in S : f[x] \in Int /\ g[x] \in Int
  OBVIOUS
<1>3. /\ SumFunctionOnSet(f, S) = f[i] + SumFunctionOnSet(f, S \ {i})
      /\ SumFunctionOnSet(g, S) = g[i] + SumFunctionOnSet(g, S \ {i})
  BY <1>2, SumRemove
<1>4. IsFiniteSet(S \ {i})  BY FS_Subset
<1>5. SumFunctionOnSet(f, S \ {i}) \in Int
  BY <1>2, <1>4, SumInt
<1>6. SumFunctionOnSet(g, S \ {i}) = SumFunctionOnSet(f, S \ {i})
  BY <1>2, <1>4, SumSame
<1> QED  BY ONLY <1>1, <1>2, <1>3, <1>5, <1>6

\* One more term is added at the end.
LEMMA SumExtend ==
    ASSUME NEW n \in Nat, NEW f, NEW g, DOMAIN f = 1..n, DOMAIN g = 1..(n + 1),
           \A j \in 1..n : f[j] \in Int /\ g[j] = f[j], g[n + 1] \in Int
    PROVE  /\ SumFunction(f) \in Int
           /\ SumFunction(g) = SumFunction(f) + g[n + 1]
<1>1. /\ SumFunction(f) = SumFunctionOnSet(f, 1..n)
      /\ SumFunction(g) = SumFunctionOnSet(g, 1..(n + 1))
  BY DEF SumFunction
<1>2. IsFiniteSet(1..n) /\ IsFiniteSet(1..(n + 1))
  BY ONLY FS_Interval
<1>3. n + 1 \in 1..(n + 1) /\ (1..(n + 1)) \ {n + 1} = 1..n
      /\ \A j \in 1..(n + 1) : g[j] \in Int
  BY SMT
<1>4. SumFunctionOnSet(g, 1..(n + 1)) = g[n + 1] + SumFunctionOnSet(g, 1..n)
  BY ONLY <1>2, <1>3, SumRemove
<1>5. SumFunctionOnSet(g, 1..n) = SumFunctionOnSet(f, 1..n) /\ SumFunctionOnSet(f, 1..n) \in Int
  BY <1>2, SumSame, SumInt
<1> QED  BY <1>1, <1>4, <1>5, SMT

\* A sum grows with its terms.
LEMMA SumGrows ==
    ASSUME NEW f, NEW g, IsFiniteSet(DOMAIN f), DOMAIN g = DOMAIN f,
           \A x \in DOMAIN f : f[x] \in Int /\ g[x] \in Int /\ f[x] <= g[x]
    PROVE  SumFunction(f) \in Int /\ SumFunction(g) \in Int /\ SumFunction(f) <= SumFunction(g)
<1> DEFINE S == DOMAIN f
           h == [x \in S |-> g[x] - f[x]]
<1>1. SumFunction(f) = SumFunctionOnSet(f, S) /\ SumFunction(g) = SumFunctionOnSet(g, S)
  BY DEF SumFunction
<1>2. \A x \in S : f[x] \in Int /\ g[x] \in Int /\ h[x] = g[x] - f[x] /\ h[x] \in Nat
  BY SMT
<1>3. DOMAIN h = S  OBVIOUS
<1> HIDE DEF h
<1>4. SumFunctionOnSet(h, S) \in Nat
  BY <1>2, <1>3, SumNat DEF SumFunction
<1>5. SumFunctionOnSet(g, S) = SumFunctionOnSet(f, S) + SumFunctionOnSet(h, S)
  BY <1>2, SumDifference, SMT
<1>6. SumFunctionOnSet(f, S) \in Int
  BY <1>2, SumInt
<1> QED  BY ONLY <1>1, <1>4, <1>5, <1>6
--------------------------------------------------------------------------------
(* money.py: what rounding and flooring can lose *)

HIDE DEF WFMin, NatLessThanWellFounded, FS_CardinalityType, FS_EmptySet,
         FS_RemoveElement, FS_Subset, SomeIn, SmallSubset, SmallerSubset, SumsExist,
         SumDef, SumsAgree, SumStep, SumInt, SumRemove, SumDifference, SumSame

\* Division with remainder.
LEMMA DivMod ==
    ASSUME NEW n \in Int, NEW d \in Nat \ {0}
    PROVE  n \div d \in Int /\ n % d \in 0..(d - 1) /\ n = d * (n \div d) + (n % d)
<1>1. n \div d \in Int  BY SMT
<1>2. n % d \in 0..(d - 1)  BY SMT
<1>3. n = d * (n \div d) + (n % d)  BY SMT
<1> QED  BY <1>1, <1>2, <1>3

\* Multiplying by a natural keeps an inequality.
LEMMA Scaling ==
    ASSUME NEW c \in Nat, NEW m \in Int, NEW n \in Int, m <= n
    PROVE  c * m <= c * n /\ c * m \in Int /\ c * n \in Int
  BY SMT

\* An inequality between multiples, up to less than one, holds of what is multiplied.
LEMMA Unscaling ==
    ASSUME NEW c \in Nat \ {0}, NEW m \in Int, NEW n \in Int, c * m < c * n + c
    PROVE  m <= n
<1>1. SUFFICES ASSUME n + 1 <= m PROVE FALSE  BY SMT
<1>2. c * (n + 1) <= c * m  BY ONLY <1>1, Scaling
<1>3. c * (n + 1) = c * n + c  BY SMT
<1>4. c * m \in Int /\ c * n \in Int BY SMT
<1> QED  BY <1>2, <1>3, <1>4, SMT

\* quantize_money is off by half a quantum at most.
LEMMA RoundBounds ==
    ASSUME NEW n \in Int, NEW d \in Nat \ {0}
    PROVE  /\ RoundHalfEven(n, d) \in Int /\ d * RoundHalfEven(n, d) \in Int
           /\ 2 * (d * RoundHalfEven(n, d)) <= 2 * n + d
           /\ 2 * n <= 2 * (d * RoundHalfEven(n, d)) + d
<1> DEFINE q == n \div d
           r == n % d
<1>1. q \in Int /\ r \in 0..(d - 1) /\ n = d * q + r
  BY DivMod
<1>2. q % 2 \in 0..1
  BY ONLY <1>1
<1>3. RoundHalfEven(n, d) = IF 2 * r < d \/ (2 * r = d /\ q % 2 = 0) THEN q ELSE q + 1
  BY DEF RoundHalfEven
<1> HIDE DEF q, r
<1>4. d * (q + 1) = d * q + d
  BY ONLY <1>1
<1>5. d * q \in Int BY ONLY <1>1
<1> QED  BY ONLY <1>1, <1>2, <1>3, <1>4, <1>5

\* Rounding does not pass an integer that bounds the quotient from above,
LEMMA RoundAtMost ==
    ASSUME NEW n \in Int, NEW d \in Nat \ {0}, NEW m \in Int, n <= d * m
    PROVE  RoundHalfEven(n, d) <= m
<1> DEFINE R == RoundHalfEven(n, d)
<1>1. R \in Int /\ d * R \in Int /\ 2 * (d * R) <= 2 * n + d  BY RoundBounds
<1> HIDE DEF R
<1>2. d * m \in Int  BY SMT
<1>3. d * R < d * m + d  BY <1>1, <1>2, SMT
<1> QED  BY <1>1, <1>3, Unscaling DEF R

\* nor one that bounds it from below.
LEMMA RoundAtLeast ==
    ASSUME NEW n \in Int, NEW d \in Nat \ {0}, NEW m \in Int, d * m <= n
    PROVE  m <= RoundHalfEven(n, d)
<1> DEFINE R == RoundHalfEven(n, d)
<1>1. R \in Int /\ d * R \in Int /\ 2 * n <= 2 * (d * R) + d  BY RoundBounds
<1> HIDE DEF R
<1>2. d * m \in Int  BY SMT
<1>3. d * m < d * R + d  BY <1>1, <1>2, SMT
<1> QED  BY <1>1, <1>3, Unscaling DEF R

\* An integer is rounded to itself.
LEMMA RoundExact ==
    ASSUME NEW d \in Nat \ {0}, NEW m \in Int
    PROVE  RoundHalfEven(d * m, d) = m
<1>1. d * m \in Int  BY SMT
<1>2. RoundHalfEven(d * m, d) <= m /\ m <= RoundHalfEven(d * m, d)
  BY ONLY <1>1, RoundAtMost, RoundAtLeast
<1>3. RoundHalfEven(d * m, d) \in Int  BY <1>1, RoundBounds
<1> QED  BY ONLY <1>2, <1>3

\* What is not negative is rounded to a natural.
LEMMA RoundNat ==
    ASSUME NEW n \in Nat, NEW d \in Nat \ {0}
    PROVE  RoundHalfEven(n, d) \in Nat
<1>1. d * 0 <= n  BY SMT
<1>2. 0 <= RoundHalfEven(n, d)  BY ONLY <1>1, RoundAtLeast
<1>3. RoundHalfEven(n, d) \in Int  BY ONLY RoundBounds
<1> QED  BY ONLY <1>2, <1>3

\* More than half a quantum is not rounded away.
LEMMA RoundPositive ==
    ASSUME NEW n \in Nat, NEW d \in Nat \ {0}, d < 2 * n
    PROVE  RoundHalfEven(n, d) > 0
<1> DEFINE R == RoundHalfEven(n, d)
<1>1. R \in Int /\ d * R \in Int /\ 2 * n <= 2 * (d * R) + d  BY ONLY RoundBounds
<1> HIDE DEF R
<1>2. d * R > 0  BY <1>1, SMT
<1>3. ASSUME R <= 0 PROVE FALSE
  <2>1. d * R <= d * 0  BY ONLY <1>1, <1>3, Scaling
  <2> QED  BY ONLY <1>1, <1>2, <2>1
<1> QED  BY ONLY <1>1, <1>3 DEF R

\* _floor_to_quantum yields a multiple of the quantum that does not exceed its argument.
LEMMA FloorBounds ==
    ASSUME NEW n \in Int, NEW d \in Nat \ {0}, NEW quantum \in Nat \ {0}
    PROVE  /\ FloorToQuantum(n, d, quantum) \in Nat
           /\ FloorToQuantum(n, d, quantum) > 0 => d * FloorToQuantum(n, d, quantum) <= n
           /\ \E m \in Nat : FloorToQuantum(n, d, quantum) = quantum * m
<1>1. CASE n <= 0
  <2>1. FloorToQuantum(n, d, quantum) = 0  BY <1>1 DEF FloorToQuantum
  <2>2. 0 = quantum * 0  BY SMT
  <2> QED  BY ONLY <2>1, <2>2
<1>2. CASE n > 0
  <2> DEFINE e == d * quantum
             q == n \div e
  <2>1. FloorToQuantum(n, d, quantum) = quantum * q
    BY ONLY <1>2 DEF FloorToQuantum
  <2>2. e \in Nat \ {0}  BY SMT
  <2> HIDE DEF e
  <2>3. q \in Int /\ n % e \in 0..(e - 1) /\ n = e * q + (n % e)  BY <2>2, DivMod
  <2> HIDE DEF q
  <2>4. e * q <= n /\ n < e * q + e /\ e * q \in Int  BY ONLY <2>2, <2>3
  <2>5. e * 0 < e * q + e  BY ONLY <1>2, <2>2, <2>4
  <2>6. q \in Nat
    <3>1. 0 <= q  BY ONLY <2>2, <2>3, <2>5, Unscaling
    <3> QED  BY ONLY <3>1, <2>3
  <2>7. d * (quantum * q) = e * q  BY ONLY <2>6 DEF e
  <2>8. quantum * q \in Nat  BY ONLY <2>6
  <2> QED  BY <2>1, <2>4, <2>6, <2>7, <2>8
<1> QED  BY ONLY <1>1, <1>2
\* Sizing a buy by a unit price and a rounded unit fee: what the fill then costs exceeds the
\* money it was sized for by less than half a quantum per share and a quantum and a half.
LEMMA Overdraft ==
    ASSUME NEW p \in Nat, NEW q \in Nat, NEW M \in Int, NEW S \in Nat \ {0},
           NEW B \in Nat \ {0}, NEW F \in 0..(B - 1), NEW u \in Nat, NEW g \in Nat, NEW fee \in Nat,
           2 * (p * F) <= 2 * (B * u) + B,
           (p + u) * q <= M * S,
           2 * (S * g) <= 2 * (p * q) + S,
           2 * (B * fee) <= 2 * (g * F) + B
    PROVE  2 * (S * (g + fee)) < 2 * (S * M) + q + 3 * S
<1>1. /\ p * q \in Nat /\ S * g \in Nat /\ g * F \in Nat /\ p * F \in Nat /\ B * u \in Nat
      /\ B * fee \in Nat /\ S * M \in Int /\ u * q \in Nat /\ S * fee \in Nat /\ S * F \in Nat
      /\ B * q \in Nat /\ S * B \in Nat
  BY SMT
<1> DEFINE P == p * q
           G == S * g
           X == 2 * (S * (g + fee))
           Y == 2 * (S * M) + q + 3 * S
\* S times what the fee is at most
<1>2. 2 * (B * (S * fee)) <= 2 * (F * (S * g)) + S * B
  <2>1. S * (2 * (B * fee)) <= S * (2 * (g * F) + B)
    BY <1>1, Scaling, SMT
  <2>2. S * (2 * (B * fee)) = 2 * (B * (S * fee))  BY ONLY <1>1
  <2>3. S * (2 * (g * F) + B) = 2 * (F * (S * g)) + S * B  BY ONLY <1>1
  <2> QED  BY <2>1, <2>2, <2>3
\* B + F times what the gross amount is at most
<1>3. (B + F) * (2 * (S * g)) <= (B + F) * (2 * (p * q) + S)
  BY <1>1, Scaling, SMT
\* q times what the unit fee is at least
<1>4. q * (2 * (p * F)) <= q * (2 * (B * u) + B)
  BY <1>1, Scaling, SMT
<1>5. B * ((p + u) * q) <= B * (M * S)
  BY <1>1, Scaling, SMT
<1>6. B * X <= (B + F) * (2 * (S * g)) + S * B
  <2>1. B * X = 2 * (B * (S * g)) + 2 * (B * (S * fee))  BY ONLY <1>1
  <2>2. (B + F) * (2 * (S * g)) = 2 * (B * (S * g)) + 2 * (F * (S * g))  BY ONLY <1>1
  <2> QED  BY ONLY <1>2, <2>1, <2>2, <1>1
<1>7. (B + F) * (2 * (p * q) + S) = 2 * (B * (p * q)) + q * (2 * (p * F)) + B * S + F * S
  BY ONLY <1>1
<1>8. q * (2 * (B * u) + B) = 2 * (B * (u * q)) + B * q
  BY ONLY <1>1
<1>9. B * ((p + u) * q) = B * (p * q) + B * (u * q)
  BY ONLY <1>1
<1>10. B * (M * S) = B * (S * M)  BY ONLY <1>1
<1>11. /\ B * X \in Int /\ B * (p * q) \in Int /\ B * (u * q) \in Int /\ B * (S * M) \in Int
       /\ F * S \in Int /\ B * S \in Int /\ S * B = B * S /\ q * (2 * (p * F)) \in Int
       /\ (B + F) * (2 * (S * g)) \in Int
  BY ONLY <1>1
<1>12. B * X <= 2 * (B * (S * M)) + B * q + 2 * (B * S) + F * S
  BY ONLY <1>3, <1>4, <1>5, <1>6, <1>7, <1>8, <1>9, <1>10, <1>11, <1>1
<1>13. F * S < B * S
  BY ONLY <1>1
<1>14. B * Y = 2 * (B * (S * M)) + B * q + 3 * (B * S)
  BY ONLY <1>1
<1>15. B * X < B * Y
  BY ONLY <1>1, <1>11, <1>12, <1>13, <1>14
<1>16. X \in Int /\ Y \in Int  BY ONLY <1>1
<1> HIDE DEF X, Y
<1>17. ASSUME Y <= X PROVE FALSE
  <2>1. B * Y <= B * X  BY <1>16, <1>17, Scaling
  <2> QED  BY ONLY <2>1, <1>15, <1>16
<1>18. X < Y  BY ONLY <1>16, <1>17
<1> QED  BY <1>18 DEF X, Y
--------------------------------------------------------------------------------
(* _consume_fifo, turn by turn *)

HIDE DEF Unscaling, RoundBounds, RoundAtLeast, RoundExact, RoundPositive, FloorBounds,
         Overdraft

\* The loop of _consume_fifo as a sequence of turns.
LEMMA ConsumeFifoRuns ==
    ASSUME NEW lots \in Seq([quantity : Nat, basis : Nat]), NEW quantity
    PROVE  \E run : /\ run[0] = [left |-> quantity, basis |-> 0, lots |-> <<>>]
                    /\ \A j \in 1..Len(lots) : run[j] = TakeFromLot(run[j - 1], lots[j])
                    /\ ConsumeFifo(lots, quantity) = run[Len(lots)]
<1> DEFINE n == Len(lots)
           start == [left |-> quantity, basis |-> 0, lots |-> <<>>]
           Runs(g, m) == g[0] = start /\ \A j \in 1..m : g[j] = TakeFromLot(g[j - 1], lots[j])
           T == {m \in Nat : \E g : Runs(g, m)}
<1>0. n \in Nat  BY SMT
<1> HIDE DEF start, n
<1>1. 0 \in T
  <2> DEFINE g == [j \in {0} |-> start]
  <2>1. Runs(g, 0)  BY SMT
  <2> QED  BY <2>1
<1>2. ASSUME NEW m \in Nat, m \in T PROVE m + 1 \in T
  <2>1. PICK g : Runs(g, m)  BY <1>2
  <2> DEFINE h == [j \in 0..(m + 1) |->
                     IF j = m + 1 THEN TakeFromLot(g[m], lots[m + 1]) ELSE g[j]]
  <2>2. h[0] = start  BY ONLY <2>1
  <2>3. ASSUME NEW j \in 1..(m + 1) PROVE h[j] = TakeFromLot(h[j - 1], lots[j])
    <3>1. j \in 0..(m + 1) /\ j - 1 \in 0..(m + 1) /\ j - 1 # m + 1
      BY SMT
    <3>2. h[j - 1] = g[j - 1]  BY <3>1
    <3>3. CASE j = m + 1  BY ONLY <3>1, <3>2, <3>3
    <3>4. CASE j # m + 1
      <4>1. j \in 1..m  BY ONLY <3>4
      <4> QED  BY <2>1, <3>1, <3>2, <3>4, <4>1
    <3> QED  BY <3>3, <3>4
  <2> HIDE DEF h
  <2> QED  BY ONLY <2>2, <2>3
<1> HIDE DEF T
<1>3. n \in T  BY <1>0, <1>1, <1>2, Induction
<1>4. PICK g : Runs(g, n)  BY <1>3 DEF T
<1> DEFINE F(f) == f = [j \in 0..n |-> IF j = 0 THEN start ELSE TakeFromLot(f[j - 1], lots[j])]
           f0 == [j \in 0..n |-> g[j]]
           run == CHOOSE f : F(f)
<1>5. F(f0)
  <2>1. ASSUME NEW j \in 0..n, j # 0 PROVE j \in 1..n /\ j - 1 \in 0..n
    BY ONLY <1>0, <2>1
  <2> QED  BY <1>4, <2>1
<1>6. F(run)
  <2> HIDE DEF F, f0
  <2> QED  BY <1>5
<1>7. ConsumeFifo(lots, quantity) = run[n]
  BY DEF ConsumeFifo, Loop, n, start
<1> HIDE DEF run
<1>8. Runs(run, n)
  <2>1. ASSUME NEW j \in 1..n PROVE j \in 0..n /\ j # 0
    BY ONLY <1>0
  <2>2. 0 \in 0..n  BY ONLY <1>0
  <2> QED  BY <1>6, <2>1, <2>2
<1> QED  BY <1>7, <1>8 DEF start, n
--------------------------------------------------------------------------------
(* The inductive invariant *)

\* What each part of the account is.
Lot == [quantity : Nat, basis : Nat]
Statuses == {"ACCEPTED", "PARTIALLY_FILLED", "FILLED", "CANCELLED", "EXPIRED", "REJECTED"}
Reasons ==
    {"NONE", "WHOLE_SHARES_REQUIRE_INTEGER_QUANTITY", "FRACTIONAL_INSTRUMENT_NOT_ENABLED",
     "NOTIONAL_REQUIRES_LONG_EXPOSURE", "FRACTIONAL_REQUIRES_MARKET_DAY",
     "ORDER_HORIZON_EXCEEDED", "POSITION_UNAVAILABLE", "MAX_INSTRUMENT_POSITION_PERCENT",
     "INSUFFICIENT_AVAILABLE_CASH", "STRATEGY_BUDGET_EXCEEDED", "GROSS_EXPOSURE_EXCEEDED",
     "INSTRUMENT_EXPOSURE_EXCEEDED", "EXPLICITLY_CANCELLED", "DAY_EXPIRED",
     "GTC_HORIZON_EXPIRED", "GTD_EXPIRED"}
Order(R) ==
    [request : R, expires : Nat, left : Nat, filled : Nat, status : Statuses,
     reason : Reasons, triggered : BOOLEAN, trailReference : Nat, cash : Nat, notional : Nat,
     quantity : Nat]
Fill(B) ==
    [order : Nat, bar : B, quantity : Nat, base : Nat, price : Nat, gross : Nat, fee : Nat,
     basis : Nat]
Posting == [account : Accounts, direction : {"DEBIT", "CREDIT"}, amount : Nat]
Account(R, B) ==
    [cash : Int, lots : [Instruments -> Seq(Lot)], seeded : Nat, orders : Seq(Order(R)),
     fills : Seq(Fill(B)), ledger : Seq(Seq(Posting)), raised : BOOLEAN]

\* Whole shares.
Multiple(x) == \E m \in 0..x : x = Share * m
\* An open order is eligible, in whole shares if it must be, and a sell reserves what is left
\* of it; a closed order reserves nothing.
OrderOK(o) ==
    /\ ValidRequest(o.request)
    /\ IsOpen(o) => /\ EligibilityReason(o.request) = "NONE"
                    /\ o.request.mode = "WHOLE_SHARES" => Multiple(o.left) /\ Multiple(o.filled)
                    /\ o.request.side = "SELL" => o.quantity = o.left
    /\ ~IsOpen(o) => o.cash = 0 /\ o.notional = 0 /\ o.quantity = 0
    /\ o.status = "ACCEPTED" => o.filled = 0

\* The ledger adds up to the cash and to the cost of the lots; nothing is posted without a
\* fill.
Balanced(a) ==
    /\ a.cash = InitialCash + Booked(a, "CASH")
    /\ PositionExposure(a) = a.seeded + Booked(a, "SECURITY")
    /\ a.fills = <<>> => a.ledger = <<>>

\* What is promised is there: CommitmentsCovered, of any account.
Covered(a) ==
    /\ \A i \in Instruments :
          /\ ReservedQuantity(a, 0, i) <= Position(a, i)
          /\ CostBasis(a, i) <= Greater(MaxInstrumentExposure, a.seeded)
    /\ PositionExposure(a) <= Greater(Lesser(MaxStrategyNotional, MaxGrossExposure), a.seeded)
    /\ \/ a.cash >= 0
       \/ \E f \in Range(a.fills) : 0 < 2 * Share * a.cash + f.quantity + 3 * Share

\* What an order reports is what its fills add up to.
AddsUp(a, k) ==
    LET o == a.orders[k]
    IN  /\ o.filled = FilledBy(a, k)
        /\ IF o.request.notional > 0 THEN o.left = o.request.notional - SpentBy(a, k)
           ELSE o.left + o.filled = o.request.quantity
        /\ o.status = "FILLED" => \E f \in Range(a.fills) : f.order = k

\* A fill belongs to an order and keeps to its limit, its bar and its eligibility.
Respects(a, f) ==
    /\ f.order \in DOMAIN a.orders
    /\ LET r == a.orders[f.order].request
       IN  /\ f.bar.starts >= r.eligible
           /\ f.bar.low <= f.base /\ f.base <= f.bar.high
           /\ IF r.side = "BUY" THEN f.price >= f.base /\ (r.limit > 0 => f.price <= r.limit)
              ELSE f.price <= f.base /\ (r.limit > 0 => f.price >= r.limit)

\* The invariant of an account.
AccountOK(R, B, a) ==
    /\ a \in Account(R, B)
    /\ \A k \in DOMAIN a.orders : OrderOK(a.orders[k]) /\ AddsUp(a, k)
    /\ \A f \in Range(a.fills) : Respects(a, f)
    /\ Balanced(a)
    /\ Covered(a)
\* Once a fill raised, an order may still reserve the shares the fill took; the rest holds.
Limited(a) ==
    /\ \A i \in Instruments : CostBasis(a, i) <= Greater(MaxInstrumentExposure, a.seeded)
    /\ PositionExposure(a) <= Greater(Lesser(MaxStrategyNotional, MaxGrossExposure), a.seeded)
    /\ \/ a.cash >= 0
       \/ \E f \in Range(a.fills) : 0 < 2 * Share * a.cash + f.quantity + 3 * Share
Sound(R, B, a) ==
    /\ a \in Account(R, B)
    /\ \A k \in DOMAIN a.orders : OrderOK(a.orders[k]) /\ AddsUp(a, k)
    /\ \A f \in Range(a.fills) : Respects(a, f)
    /\ Balanced(a)
    /\ Limited(a)
Standing(R, B, a) == Sound(R, B, a) /\ (~a.raised => AccountOK(R, B, a))
IInv == Standing(Requests, Bars, acct)

\* An account with nothing wrong stands.
LEMMA OKStands ==
    ASSUME NEW R, NEW B, NEW a, AccountOK(R, B, a)
    PROVE  Standing(R, B, a)
<1>1. Covered(a)  BY DEF AccountOK
<1>2. Limited(a)  BY <1>1 DEF Covered, Limited
<1> QED  BY <1>2 DEF AccountOK, Sound, Standing
--------------------------------------------------------------------------------
(* Lots, and what is taken from them *)

\* What the policies guarantee, one constant at a time.
LEMMA Constants ==
    /\ Share \in Nat \ {0} /\ BasisPoints \in Nat \ {0} /\ InitialCash \in Nat
    /\ IsFiniteSet(Instruments) /\ Fractional \subseteq Instruments
    /\ MaxStrategyNotional \in Nat /\ MaxGrossExposure \in Nat /\ MaxInstrumentExposure \in Nat
    /\ FeeRate \in 0..(BasisPoints - 1) /\ SlippageRate \in 0..(BasisPoints - 1)
    /\ BufferRate \in 0..(BasisPoints - 1) /\ ParticipationRate \in 1..BasisPoints
    /\ GtcHorizon \in Nat
  BY ExecutionAssumption DEF ValidPolicy, ValidMicrostructure

\* A sequence with one more element.
LEMMA Appended ==
    ASSUME NEW S, NEW s \in Seq(S), NEW x \in S
    PROVE  /\ Append(s, x) \in Seq(S) /\ Len(s) \in Nat
           /\ DOMAIN s = 1..Len(s) /\ DOMAIN Append(s, x) = 1..(Len(s) + 1)
           /\ Append(s, x)[Len(s) + 1] = x /\ Len(Append(s, x)) = Len(s) + 1
           /\ \A j \in 1..Len(s) : Append(s, x)[j] = s[j] /\ s[j] \in S
  BY SMT

\* The indices of a sequence.
LEMMA SeqDomain ==
    ASSUME NEW S, NEW s \in Seq(S)
    PROVE  DOMAIN s = 1..Len(s) /\ Len(s) \in Nat
  BY SMT

\* A sequence has finitely many indices.
LEMMA FiniteDomain ==
    ASSUME NEW S, NEW s \in Seq(S) PROVE IsFiniteSet(DOMAIN s)
<1>1. DOMAIN s = 1..Len(s) /\ Len(s) \in Nat  BY SeqDomain
<1> QED  BY ONLY <1>1, FS_Interval

\* The sum of a function without arguments.
LEMMA SumOverNothing == ASSUME NEW f, DOMAIN f = {} PROVE SumFunction(f) = 0
  BY SumOfNothing DEF SumFunction

\* The quantity and the cost of a sequence of lots.
Quantities(s) == SumFunction([j \in DOMAIN s |-> s[j].quantity])
Bases(s) == SumFunction([j \in DOMAIN s |-> s[j].basis])

\* Position and CostBasis are these sums.
LEMMA LotSums ==
    /\ \A a, i : Position(a, i) = Quantities(a.lots[i])
    /\ \A a, i : CostBasis(a, i) = Bases(a.lots[i])
    /\ Quantities(<<>>) = 0 /\ Bases(<<>>) = 0
<1>1. \A a, i : Position(a, i) = Quantities(a.lots[i])
  BY DEF Position, SumOver, Quantities
<1>2. \A a, i : CostBasis(a, i) = Bases(a.lots[i])
  BY DEF CostBasis, SumOver, Bases
<1>3. Quantities(<<>>) = 0
  <2> DEFINE f == [j \in DOMAIN <<>> |-> <<>>[j].quantity]
  <2>1. DOMAIN f = {}  BY SMT
  <2>2. SumFunction(f) = 0  BY <2>1, SumOverNothing
  <2> QED  BY <2>2 DEF Quantities
<1>4. Bases(<<>>) = 0
  <2> DEFINE f == [j \in DOMAIN <<>> |-> <<>>[j].basis]
  <2>1. DOMAIN f = {}  BY SMT
  <2>2. SumFunction(f) = 0  BY <2>1, SumOverNothing
  <2> QED  BY <2>2 DEF Bases
<1> QED  BY <1>1, <1>2, <1>3, <1>4

\* They are naturals,
LEMMA LotSumsNat ==
    ASSUME NEW s \in Seq(Lot) PROVE Quantities(s) \in Nat /\ Bases(s) \in Nat
<1>1. IsFiniteSet(DOMAIN s)  BY FiniteDomain
<1>2. \A j \in DOMAIN s : s[j].quantity \in Nat /\ s[j].basis \in Nat
  <2>1. \A j \in DOMAIN s : s[j] \in Lot  BY SMT
  <2> QED  BY <2>1 DEF Lot
<1>3. Quantities(s) \in Nat
  <2> DEFINE f == [j \in DOMAIN s |-> s[j].quantity]
  <2>1. DOMAIN f = DOMAIN s /\ \A j \in DOMAIN f : f[j] \in Nat  BY <1>2
  <2> HIDE DEF f
  <2>2. SumFunction(f) \in Nat  BY <1>1, <2>1, SumNat
  <2> QED  BY <2>2 DEF Quantities, f
<1>4. Bases(s) \in Nat
  <2> DEFINE f == [j \in DOMAIN s |-> s[j].basis]
  <2>1. DOMAIN f = DOMAIN s /\ \A j \in DOMAIN f : f[j] \in Nat  BY <1>2
  <2> HIDE DEF f
  <2>2. SumFunction(f) \in Nat  BY <1>1, <2>1, SumNat
  <2> QED  BY <2>2 DEF Bases, f
<1> QED  BY <1>3, <1>4

\* and a lot adds its share to them.
LEMMA LotSumsAppend ==
    ASSUME NEW s \in Seq(Lot), NEW l \in Lot
    PROVE  /\ Quantities(Append(s, l)) = Quantities(s) + l.quantity
           /\ Bases(Append(s, l)) = Bases(s) + l.basis
<1> DEFINE n == Len(s)
           t == Append(s, l)
<1>1. /\ n \in Nat /\ DOMAIN s = 1..n /\ DOMAIN t = 1..(n + 1) /\ t[n + 1] = l
      /\ \A j \in 1..n : t[j] = s[j] /\ s[j] \in Lot
  BY ONLY Appended
<1>2. l.quantity \in Nat /\ l.basis \in Nat /\ \A j \in 1..n : s[j].quantity \in Nat /\ s[j].basis \in Nat
  BY <1>1 DEF Lot
<1> HIDE DEF n, t
<1>3. Quantities(t) = Quantities(s) + l.quantity
  <2> DEFINE f == [j \in DOMAIN s |-> s[j].quantity]
             g == [j \in DOMAIN t |-> t[j].quantity]
  <2>1. /\ DOMAIN f = 1..n /\ DOMAIN g = 1..(n + 1) /\ g[n + 1] = l.quantity
        /\ g[n + 1] \in Int
        /\ \A j \in 1..n : f[j] \in Int /\ g[j] = f[j]
    BY ONLY <1>1, <1>2
  <2> HIDE DEF f, g
  <2>2. SumFunction(g) = SumFunction(f) + g[n + 1]
    BY <1>1, <1>2, <2>1, SumExtend
  <2> QED  BY <2>1, <2>2 DEF Quantities, f, g
<1>4. Bases(t) = Bases(s) + l.basis
  <2> DEFINE f == [j \in DOMAIN s |-> s[j].basis]
             g == [j \in DOMAIN t |-> t[j].basis]
  <2>1. /\ DOMAIN f = 1..n /\ DOMAIN g = 1..(n + 1) /\ g[n + 1] = l.basis
        /\ g[n + 1] \in Int
        /\ \A j \in 1..n : f[j] \in Int /\ g[j] = f[j]
    BY ONLY <1>1, <1>2
  <2> HIDE DEF f, g
  <2>2. SumFunction(g) = SumFunction(f) + g[n + 1]
    BY <1>1, <1>2, <2>1, SumExtend
  <2> QED  BY <2>1, <2>2 DEF Bases, f, g
<1> QED  BY <1>3, <1>4 DEF t

\* What _consume_fifo keeps between two lots.
Taking == [left : Nat, basis : Nat, lots : Seq(Lot)]

\* The basis of a part of a lot, rounded, is at most that of the lot.
LEMMA PartOfBasis ==
    ASSUME NEW l \in Lot, NEW taken \in Nat, taken < l.quantity
    PROVE  /\ RoundHalfEven(l.basis * taken, l.quantity) \in Nat
           /\ RoundHalfEven(l.basis * taken, l.quantity) <= l.basis
<1>1. l.quantity \in Nat \ {0} /\ l.basis \in Nat  BY SMT DEF Lot
<1>2. l.basis * taken \in Nat  BY ONLY <1>1
<1>3. l.basis * taken <= l.basis * l.quantity  BY <1>1, Scaling, SMT
<1>4. l.basis * l.quantity = l.quantity * l.basis  BY ONLY <1>1
<1> QED  BY ONLY <1>1, <1>2, <1>3, <1>4, RoundNat, RoundAtMost

\* A turn of _consume_fifo loses neither quantity nor basis, and keeps no lot while
\* something is still to be taken.
LEMMA TakeFromLotTurn ==
    ASSUME NEW c \in Taking, NEW l \in Lot, c.left > 0 => c.lots = <<>>
    PROVE  /\ TakeFromLot(c, l) \in Taking
           /\ TakeFromLot(c, l).left > 0 => TakeFromLot(c, l).lots = <<>>
           /\ Quantities(TakeFromLot(c, l).lots) - TakeFromLot(c, l).left
                = Quantities(c.lots) - c.left + l.quantity
           /\ Bases(TakeFromLot(c, l).lots) + TakeFromLot(c, l).basis
                = Bases(c.lots) + c.basis + l.basis
<1> DEFINE d == TakeFromLot(c, l)
<1>1. /\ c.left \in Nat /\ c.basis \in Nat /\ c.lots \in Seq(Lot)
      /\ l.quantity \in Nat /\ l.basis \in Nat
  BY DEF Taking, Lot
<1>2. Quantities(c.lots) \in Nat /\ Bases(c.lots) \in Nat
  BY <1>1, LotSumsNat
<1>3. CASE c.left = 0
  <2>1. d = [c EXCEPT !.lots = Append(@, l)]  BY <1>3 DEF TakeFromLot
  <2>2. d \in Taking /\ d.left = 0 /\ d.basis = c.basis /\ d.lots = Append(c.lots, l)
    <3>1. Append(c.lots, l) \in Seq(Lot)  BY ONLY <1>1
    <3> QED  BY <1>3, <2>1, <3>1 DEF Taking
  <2>3. /\ Quantities(Append(c.lots, l)) = Quantities(c.lots) + l.quantity
        /\ Bases(Append(c.lots, l)) = Bases(c.lots) + l.basis
    BY <1>1, LotSumsAppend
  <2> HIDE DEF d
  <2>4. Quantities(d.lots) - d.left = Quantities(c.lots) - c.left + l.quantity
    BY ONLY <1>1, <1>2, <1>3, <2>2, <2>3
  <2>5. Bases(d.lots) + d.basis = Bases(c.lots) + c.basis + l.basis
    BY ONLY <1>1, <1>2, <2>2, <2>3
  <2> QED  BY ONLY <2>2, <2>4, <2>5 DEF d
<1>4. CASE c.left # 0 /\ l.quantity <= c.left
  <2>1. Lesser(c.left, l.quantity) = l.quantity  BY ONLY <1>1, <1>4 DEF Lesser
  <2>2. d = [left |-> c.left - l.quantity, basis |-> c.basis + l.basis, lots |-> c.lots]
    BY <1>4, <2>1 DEF TakeFromLot
  <2>3. /\ d \in Taking /\ d.left = c.left - l.quantity /\ d.basis = c.basis + l.basis
        /\ d.lots = c.lots /\ c.lots = <<>>
    BY <1>1, <1>4, <2>2, SMT DEF Taking
  <2> HIDE DEF d
  <2>4. Quantities(d.lots) - d.left = Quantities(c.lots) - c.left + l.quantity
    BY ONLY <1>1, <1>2, <2>3
  <2>5. Bases(d.lots) + d.basis = Bases(c.lots) + c.basis + l.basis
    BY ONLY <1>1, <1>2, <2>3
  <2> QED  BY <2>3, <2>4, <2>5 DEF d
<1>5. CASE c.left # 0 /\ c.left < l.quantity
  <2> DEFINE part == RoundHalfEven(l.basis * c.left, l.quantity)
             rest == [quantity |-> l.quantity - c.left, basis |-> l.basis - part]
  <2>1. Lesser(c.left, l.quantity) = c.left  BY <1>1, <1>5 DEF Lesser
  <2>2. d = [left |-> c.left - c.left, basis |-> c.basis + part, lots |-> Append(c.lots, rest)]
    BY <1>1, <1>5, <2>1, SMT DEF TakeFromLot
  <2>3. part \in Nat /\ part <= l.basis  BY <1>1, <1>5, PartOfBasis
  <2>4. rest \in Lot /\ rest.quantity = l.quantity - c.left /\ rest.basis = l.basis - part
    BY ONLY <1>1, <1>5, <2>3 DEF Lot
  <2> HIDE DEF part, rest
  <2>5. /\ d \in Taking /\ d.left = 0 /\ d.basis = c.basis + part
        /\ d.lots = Append(c.lots, rest)
    BY ONLY <1>1, <2>2, <2>3, <2>4 DEF Taking
  <2>6. /\ Quantities(Append(c.lots, rest)) = Quantities(c.lots) + rest.quantity
        /\ Bases(Append(c.lots, rest)) = Bases(c.lots) + rest.basis
    BY <1>1, <2>4, LotSumsAppend
  <2> HIDE DEF d
  <2>7. Quantities(d.lots) - d.left = Quantities(c.lots) - c.left + l.quantity
    BY ONLY <1>1, <1>2, <2>4, <2>5, <2>6
  <2>8. Bases(d.lots) + d.basis = Bases(c.lots) + c.basis + l.basis
    BY ONLY <1>1, <1>2, <2>3, <2>4, <2>5, <2>6
  <2> QED  BY ONLY <2>5, <2>7, <2>8 DEF d
<1> QED  BY ONLY <1>1, <1>3, <1>4, <1>5

\* _consume_fifo takes what is asked for, if the position holds it, and what it leaves and
\* the basis it reports add up to the basis there was, whatever was rounded.
LEMMA ConsumeFifoTakes ==
    ASSUME NEW lots \in Seq(Lot), NEW quantity \in Nat, quantity <= Quantities(lots)
    PROVE  /\ ConsumeFifo(lots, quantity) \in Taking
           /\ ConsumeFifo(lots, quantity).left = 0
           /\ Quantities(ConsumeFifo(lots, quantity).lots) = Quantities(lots) - quantity
           /\ Bases(ConsumeFifo(lots, quantity).lots)
                = Bases(lots) - ConsumeFifo(lots, quantity).basis
<1> DEFINE n == Len(lots)
           Q(j) == SumFunction([i \in 1..j |-> lots[i].quantity])
           V(j) == SumFunction([i \in 1..j |-> lots[i].basis])
<1>1. n \in Nat /\ DOMAIN lots = 1..n /\ \A j \in 1..n : lots[j] \in Lot
  BY SMT
<1>2. \A j \in 1..n : lots[j].quantity \in Nat /\ lots[j].basis \in Nat
  BY <1>1 DEF Lot
<1>3. Quantities(lots) = Q(n) /\ Bases(lots) = V(n)
  BY <1>1 DEF Quantities, Bases
<1>4. Q(0) = 0 /\ V(0) = 0
  <2> DEFINE f == [i \in 1..0 |-> lots[i].quantity]
             g == [i \in 1..0 |-> lots[i].basis]
  <2>1. DOMAIN f = {} /\ DOMAIN g = {}  BY SMT
  <2>2. SumFunction(f) = 0 /\ SumFunction(g) = 0  BY <2>1, SumOverNothing
  <2> QED  BY <2>2
<1>5. ASSUME NEW m \in Nat, m + 1 <= n
      PROVE  /\ Q(m) \in Int /\ V(m) \in Int
             /\ Q(m + 1) = Q(m) + lots[m + 1].quantity
             /\ V(m + 1) = V(m) + lots[m + 1].basis
  <2>1. m + 1 \in 1..n /\ \A j \in 1..m : j \in 1..n  BY ONLY <1>1, <1>5
  <2> DEFINE f == [i \in 1..m |-> lots[i].quantity]
             g == [i \in 1..(m + 1) |-> lots[i].quantity]
             u == [i \in 1..m |-> lots[i].basis]
             v == [i \in 1..(m + 1) |-> lots[i].basis]
  <2>2. /\ DOMAIN f = 1..m /\ DOMAIN g = 1..(m + 1)
        /\ g[m + 1] = lots[m + 1].quantity /\ g[m + 1] \in Int
        /\ \A j \in 1..m : f[j] \in Int /\ g[j] = f[j]
    BY ONLY <1>2, <2>1
  <2>3. /\ DOMAIN u = 1..m /\ DOMAIN v = 1..(m + 1)
        /\ v[m + 1] = lots[m + 1].basis /\ v[m + 1] \in Int
        /\ \A j \in 1..m : u[j] \in Int /\ v[j] = u[j]
    BY ONLY <1>2, <2>1
  <2> HIDE DEF f, g, u, v
  <2>4. SumFunction(f) \in Int /\ SumFunction(g) = SumFunction(f) + g[m + 1]
    BY <2>2, SumExtend
  <2>5. SumFunction(u) \in Int /\ SumFunction(v) = SumFunction(u) + v[m + 1]
    BY <2>3, SumExtend
  <2> QED  BY <2>2, <2>3, <2>4, <2>5 DEF f, g, u, v
<1> HIDE DEF Q, V
<1>6. PICK run : /\ run[0] = [left |-> quantity, basis |-> 0, lots |-> <<>>]
                 /\ \A j \in 1..n : run[j] = TakeFromLot(run[j - 1], lots[j])
                 /\ ConsumeFifo(lots, quantity) = run[n]
  BY ConsumeFifoRuns DEF Lot
<1> HIDE DEF n
<1> DEFINE Holds(j) == /\ run[j] \in Taking
                       /\ run[j].left > 0 => run[j].lots = <<>>
                       /\ Quantities(run[j].lots) - run[j].left = Q(j) - quantity
                       /\ Bases(run[j].lots) + run[j].basis = V(j)
           T == {j \in Nat : j <= n => Holds(j)}
<1>7. 0 \in T
  <2>1. /\ run[0] \in Taking /\ run[0].lots = <<>> /\ run[0].left = quantity
        /\ run[0].basis = 0
    BY ONLY <1>6 DEF Taking
  <2>2. Quantities(<<>>) = 0 /\ Bases(<<>>) = 0  BY LotSums
  <2>3. Holds(0)  BY ONLY <1>4, <2>1, <2>2
  <2> QED  BY <2>3
<1>8. ASSUME NEW m \in Nat, m \in T PROVE m + 1 \in T
  <2> SUFFICES ASSUME m + 1 <= n PROVE Holds(m + 1)
    BY SMT
  <2>1. m <= n /\ m + 1 \in 1..n /\ (m + 1) - 1 = m  BY <1>1, SMT
  <2>2. Holds(m)  BY <1>8, <2>1
  <2> DEFINE c == run[m]
             d == run[m + 1]
             l == lots[m + 1]
  <2>3. d = TakeFromLot(c, l) /\ l \in Lot /\ l.quantity \in Nat /\ l.basis \in Nat
    BY <1>1, <1>2, <1>6, <2>1
  <2>4. c \in Taking /\ (c.left > 0 => c.lots = <<>>)  BY <2>2
  <2>5. /\ Q(m) \in Int /\ V(m) \in Int
        /\ Q(m + 1) = Q(m) + l.quantity /\ V(m + 1) = V(m) + l.basis
    BY <1>5
  <2>6. /\ Quantities(c.lots) - c.left = Q(m) - quantity
        /\ Bases(c.lots) + c.basis = V(m)
    BY <2>2
  <2> HIDE DEF c, d, l, Holds
  <2>7. /\ d \in Taking /\ (d.left > 0 => d.lots = <<>>)
        /\ Quantities(d.lots) - d.left = Quantities(c.lots) - c.left + l.quantity
        /\ Bases(d.lots) + d.basis = Bases(c.lots) + c.basis + l.basis
    BY <2>3, <2>4, TakeFromLotTurn
  <2>8. Quantities(d.lots) - d.left = Q(m + 1) - quantity
    BY ONLY <2>3, <2>5, <2>6, <2>7
  <2>9. Bases(d.lots) + d.basis = V(m + 1)
    BY <2>3, <2>5, <2>6, <2>7
  <2> QED  BY <2>7, <2>8, <2>9 DEF d, Holds
<1> HIDE DEF T, Holds
<1>9. n \in T  BY <1>1, <1>7, <1>8, Induction
<1>10. Holds(n)  BY ONLY <1>1, <1>9 DEF T
<1> DEFINE e == ConsumeFifo(lots, quantity)
<1>11. /\ e \in Taking /\ (e.left > 0 => e.lots = <<>>)
       /\ Quantities(e.lots) - e.left = Quantities(lots) - quantity
       /\ Bases(e.lots) + e.basis = Bases(lots)
  BY <1>3, <1>6, <1>10 DEF Holds
<1> HIDE DEF e
<1>12. e.left \in Nat /\ e.basis \in Nat /\ e.lots \in Seq(Lot)  BY <1>11 DEF Taking
<1>13. Quantities(e.lots) \in Nat /\ Bases(e.lots) \in Nat /\ Quantities(lots) \in Nat
       /\ Quantities(<<>>) = 0
  BY <1>12, LotSumsNat, LotSums
<1>14. e.left = 0
  <2>1. SUFFICES ASSUME e.left > 0 PROVE FALSE  BY <1>12, SMT
  <2>2. Quantities(e.lots) = 0  BY <1>11, <1>13, <2>1
  <2> QED  BY <1>11, <1>12, <1>13, <2>1, <2>2, SMT
<1>15. Quantities(e.lots) = Quantities(lots) - quantity  BY ONLY <1>11, <1>13, <1>14
<1>16. Bases(e.lots) = Bases(lots) - e.basis  BY ONLY <1>11, <1>12, <1>13
<1> QED  BY <1>11, <1>14, <1>15, <1>16 DEF e
--------------------------------------------------------------------------------
(* The postings of a fill *)

HIDE DEF FS_Interval, SumOfNothing, ConsumeFifoRuns, SeqDomain, PartOfBasis,
         TakeFromLotTurn, ConsumeFifoTakes

\* What an entry contributes to a side of a transaction.
SideOf(e, accounts, direction) ==
    IF e.account \in accounts /\ e.direction = direction THEN e.amount ELSE 0
\* A turn of _entries: an entry without amount is dropped.
Kept(s, e) == IF e.amount = 0 THEN s ELSE Append(s, e)
Positive(s) == \A e \in Range(s) : e.amount > 0

\* Side as a sum of contributions.
LEMMA SideIs ==
    ASSUME NEW t, NEW accounts, NEW direction
    PROVE  Side(t, accounts, direction)
             = SumFunction([j \in DOMAIN t |-> SideOf(t[j], accounts, direction)])
  BY DEF Side, SumOver, SideOf

\* A side is a natural,
LEMMA SideNat ==
    ASSUME NEW t \in Seq(Posting), NEW accounts, NEW direction
    PROVE  Side(t, accounts, direction) \in Nat /\ Side(<<>>, accounts, direction) = 0
<1>1. Side(t, accounts, direction) \in Nat
  <2> DEFINE f == [j \in DOMAIN t |-> SideOf(t[j], accounts, direction)]
  <2>1. \A j \in DOMAIN t : t[j] \in Posting  BY SMT
  <2>2. DOMAIN f = DOMAIN t /\ \A j \in DOMAIN f : f[j] \in Nat
    BY <2>1 DEF SideOf, Posting
  <2>3. IsFiniteSet(DOMAIN t)  BY FiniteDomain
  <2> HIDE DEF f
  <2>4. SumFunction(f) \in Nat  BY <2>2, <2>3, SumNat
  <2> QED  BY <2>4, SideIs DEF f
<1>2. Side(<<>>, accounts, direction) = 0
  <2> DEFINE f == [j \in DOMAIN <<>> |-> SideOf(<<>>[j], accounts, direction)]
  <2>1. DOMAIN f = {}  BY SMT
  <2>2. SumFunction(f) = 0  BY <2>1, SumOverNothing
  <2> QED  BY <2>2, SideIs
<1> QED  BY <1>1, <1>2

\* an entry adds its contribution,
LEMMA SideAppend ==
    ASSUME NEW t \in Seq(Posting), NEW e \in Posting, NEW accounts, NEW direction
    PROVE  Side(Append(t, e), accounts, direction)
             = Side(t, accounts, direction) + SideOf(e, accounts, direction)
<1> DEFINE n == Len(t)
           u == Append(t, e)
           f == [j \in DOMAIN t |-> SideOf(t[j], accounts, direction)]
           g == [j \in DOMAIN u |-> SideOf(u[j], accounts, direction)]
<1>1. /\ n \in Nat /\ DOMAIN t = 1..n /\ DOMAIN u = 1..(n + 1) /\ u[n + 1] = e
      /\ \A j \in 1..n : u[j] = t[j] /\ t[j] \in Posting
  BY ONLY Appended
<1>2. \A p \in Posting : SideOf(p, accounts, direction) \in Int
  BY SMT DEF SideOf, Posting
<1> HIDE DEF n, u
<1>3. /\ DOMAIN f = 1..n /\ DOMAIN g = 1..(n + 1)
      /\ g[n + 1] = SideOf(e, accounts, direction) /\ g[n + 1] \in Int
      /\ \A j \in 1..n : f[j] \in Int /\ g[j] = f[j]
  BY ONLY <1>1, <1>2
<1> HIDE DEF f, g
<1>4. SumFunction(g) = SumFunction(f) + g[n + 1]
  BY <1>1, <1>3, SumExtend
<1>5. Side(t, accounts, direction) = SumFunction(f) /\ Side(u, accounts, direction) = SumFunction(g)
  BY SideIs DEF f, g
<1> QED  BY <1>3, <1>4, <1>5 DEF u

\* and dropping entries without amount changes no side.
LEMMA KeptSide ==
    ASSUME NEW s \in Seq(Posting), Positive(s), NEW e \in Posting
    PROVE  /\ Kept(s, e) \in Seq(Posting) /\ Positive(Kept(s, e))
           /\ \A accounts, direction :
                Side(Kept(s, e), accounts, direction)
                  = Side(s, accounts, direction) + SideOf(e, accounts, direction)
<1>1. e.amount \in Nat  BY DEF Posting
<1>2. CASE e.amount = 0
  <2>1. Kept(s, e) = s  BY <1>2 DEF Kept
  <2>2. \A accounts, direction : SideOf(e, accounts, direction) = 0  BY <1>2 DEF SideOf
  <2>3. \A accounts, direction : Side(s, accounts, direction) \in Nat  BY SideNat
  <2> QED  BY <2>1, <2>2, <2>3, SMT
<1>3. CASE e.amount # 0
  <2>1. Kept(s, e) = Append(s, e)  BY <1>3 DEF Kept
  <2>2. Append(s, e) \in Seq(Posting)  BY SMT
  <2>3. \A p \in Range(Append(s, e)) : p \in Range(s) \/ p = e
    <3> SUFFICES ASSUME NEW j \in DOMAIN Append(s, e)
                 PROVE  Append(s, e)[j] \in Range(s) \/ Append(s, e)[j] = e
      BY DEF Range
    <3>1. /\ Len(s) \in Nat /\ DOMAIN s = 1..Len(s) /\ j \in 1..(Len(s) + 1)
          /\ Append(s, e)[Len(s) + 1] = e
          /\ \A i \in 1..Len(s) : Append(s, e)[i] = s[i]
      BY ONLY Appended
    <3>2. CASE j = Len(s) + 1  BY <3>1, <3>2
    <3>3. CASE j # Len(s) + 1
      <4>1. j \in 1..Len(s)  BY ONLY <3>1, <3>3
      <4> QED  BY <3>1, <4>1 DEF Range
    <3> QED  BY <3>2, <3>3
  <2>4. Positive(Append(s, e))  BY <1>1, <1>3, <2>3, SMT DEF Positive
  <2> QED  BY ONLY <2>1, <2>2, <2>4, SideAppend
<1> QED  BY <1>2, <1>3

\* The loop of _entries as a sequence of turns.
LEMMA EntriesRuns ==
    ASSUME NEW values \in Seq(Posting)
    PROVE  \E run : /\ run[0] = <<>>
                    /\ \A j \in 1..Len(values) : run[j] = Kept(run[j - 1], values[j])
                    /\ Entries(values) = run[Len(values)]
<1> DEFINE n == Len(values)
           Runs(g, m) == g[0] = <<>> /\ \A j \in 1..m : g[j] = Kept(g[j - 1], values[j])
           T == {m \in Nat : \E g : Runs(g, m)}
<1>0. n \in Nat  BY SMT
<1> HIDE DEF n
<1>1. 0 \in T
  <2> DEFINE g == [j \in {0} |-> <<>>]
  <2>1. Runs(g, 0)  BY SMT
  <2> QED  BY <2>1
<1>2. ASSUME NEW m \in Nat, m \in T PROVE m + 1 \in T
  <2>1. PICK g : Runs(g, m)  BY <1>2
  <2> DEFINE h == [j \in 0..(m + 1) |->
                     IF j = m + 1 THEN Kept(g[m], values[m + 1]) ELSE g[j]]
  <2>2. h[0] = <<>>  BY ONLY <2>1
  <2>3. ASSUME NEW j \in 1..(m + 1) PROVE h[j] = Kept(h[j - 1], values[j])
    <3>1. j \in 0..(m + 1) /\ j - 1 \in 0..(m + 1) /\ j - 1 # m + 1
      BY SMT
    <3>2. h[j - 1] = g[j - 1]  BY <3>1
    <3>3. CASE j = m + 1  BY ONLY <3>1, <3>2, <3>3
    <3>4. CASE j # m + 1
      <4>1. j \in 1..m  BY ONLY <3>4
      <4> QED  BY <2>1, <3>1, <3>2, <3>4, <4>1
    <3> QED  BY <3>3, <3>4
  <2> HIDE DEF h
  <2> QED  BY ONLY <2>2, <2>3
<1> HIDE DEF T
<1>3. n \in T  BY <1>0, <1>1, <1>2, Induction
<1>4. PICK g : Runs(g, n)  BY <1>3 DEF T
<1> DEFINE F(f) == f = [j \in 0..n |-> IF j = 0 THEN <<>> ELSE Kept(f[j - 1], values[j])]
           f0 == [j \in 0..n |-> g[j]]
           run == CHOOSE f : F(f)
<1>5. F(f0)
  <2>1. ASSUME NEW j \in 0..n, j # 0 PROVE j \in 1..n /\ j - 1 \in 0..n
    BY ONLY <1>0, <2>1
  <2> QED  BY <1>4, <2>1
<1>6. F(run)
  <2> HIDE DEF F, f0
  <2> QED  BY <1>5
<1>7. Entries(values) = run[n]
  BY DEF Entries, Loop, n, Kept
<1> HIDE DEF run
<1>8. Runs(run, n)
  <2>1. ASSUME NEW j \in 1..n PROVE j \in 0..n /\ j # 0
    BY ONLY <1>0
  <2>2. 0 \in 0..n  BY ONLY <1>0
  <2> QED  BY <1>6, <2>1, <2>2
<1> QED  BY <1>7, <1>8 DEF n

\* Positive entries whose sides agree and are not zero make a LedgerTransaction.
LEMMA BothSides ==
    ASSUME NEW t \in Seq(Posting), Positive(t),
           Side(t, Accounts, "DEBIT") = Side(t, Accounts, "CREDIT"),
           Side(t, Accounts, "DEBIT") > 0
    PROVE  ValidTransaction(t)
<1> SUFFICES Len(t) >= 2  BY DEF ValidTransaction, Positive
<1>1. Len(t) \in Nat /\ DOMAIN t = 1..Len(t)  BY SMT
<1>2. ASSUME Len(t) = 0 PROVE FALSE
  <2>1. t = <<>>  BY ONLY <1>2
  <2>2. Side(<<>>, Accounts, "DEBIT") = 0  BY SideNat
  <2> QED  BY <2>1, <2>2, SMT
<1>3. ASSUME Len(t) = 1 PROVE FALSE
  <2> DEFINE e == t[1]
  <2>1. e \in Posting /\ t = Append(<<>>, e)  BY ONLY <1>1, <1>3
  <2>2. /\ Side(t, Accounts, "DEBIT") = Side(<<>>, Accounts, "DEBIT") + SideOf(e, Accounts, "DEBIT")
        /\ Side(t, Accounts, "CREDIT") = Side(<<>>, Accounts, "CREDIT") + SideOf(e, Accounts, "CREDIT")
    <3> DEFINE none == <<>>
    <3>1. none \in Seq(Posting)  BY SMT
    <3>2. e \in Posting /\ t = Append(none, e)  BY <2>1
    <3> HIDE DEF e, none
    <3>3. e \in Posting  BY <3>2
    <3>4. ASSUME NEW d
          PROVE  Side(Append(none, e), Accounts, d) = Side(none, Accounts, d) + SideOf(e, Accounts, d)
      BY ONLY <3>1, <3>3, SideAppend
    <3> QED  BY <3>2, <3>4 DEF none
  <2>3. Side(<<>>, Accounts, "DEBIT") = 0 /\ Side(<<>>, Accounts, "CREDIT") = 0  BY SideNat
  <2>4. SideOf(e, Accounts, "DEBIT") = 0 \/ SideOf(e, Accounts, "CREDIT") = 0  BY DEF SideOf
  <2>5. SideOf(e, Accounts, "DEBIT") \in Nat /\ SideOf(e, Accounts, "CREDIT") \in Nat
    BY <2>1 DEF SideOf, Posting
  <2> QED  BY <2>2, <2>3, <2>4, <2>5, SMT
<1> QED  BY ONLY <1>1, <1>2, <1>3

\* The sides of three entries.
LEMMA KeptFromNothing ==
    ASSUME NEW e1 \in Posting, NEW e2 \in Posting, NEW e3 \in Posting
    PROVE  LET s == Kept(Kept(Kept(<<>>, e1), e2), e3)
           IN  /\ s \in Seq(Posting) /\ Positive(s)
               /\ \A accounts, direction :
                    Side(s, accounts, direction)
                      = SideOf(e1, accounts, direction) + SideOf(e2, accounts, direction)
                          + SideOf(e3, accounts, direction)
<1> DEFINE s1 == Kept(<<>>, e1)
           s2 == Kept(s1, e2)
           s3 == Kept(s2, e3)
<1>0. <<>> \in Seq(Posting) /\ Positive(<<>>)  BY SMT DEF Positive, Range
<1>1. /\ s1 \in Seq(Posting) /\ Positive(s1)
      /\ \A A, d : Side(s1, A, d) = Side(<<>>, A, d) + SideOf(e1, A, d)
  BY <1>0, KeptSide
<1> HIDE DEF s1
<1>2. /\ s2 \in Seq(Posting) /\ Positive(s2)
      /\ \A A, d : Side(s2, A, d) = Side(s1, A, d) + SideOf(e2, A, d)
  BY <1>1, KeptSide
<1> HIDE DEF s2
<1>3. /\ s3 \in Seq(Posting) /\ Positive(s3)
      /\ \A A, d : Side(s3, A, d) = Side(s2, A, d) + SideOf(e3, A, d)
  BY <1>2, KeptSide
<1> HIDE DEF s3
<1>4. ASSUME NEW A, NEW d
      PROVE  Side(s3, A, d) = SideOf(e1, A, d) + SideOf(e2, A, d) + SideOf(e3, A, d)
  <2>1. SideOf(e1, A, d) \in Nat /\ SideOf(e2, A, d) \in Nat /\ SideOf(e3, A, d) \in Nat
    BY DEF SideOf, Posting
  <2>2. Side(<<>>, A, d) = 0  BY <1>0, SideNat
  <2>3. /\ Side(s3, A, d) = Side(s2, A, d) + SideOf(e3, A, d)
        /\ Side(s2, A, d) = Side(s1, A, d) + SideOf(e2, A, d)
        /\ Side(s1, A, d) = Side(<<>>, A, d) + SideOf(e1, A, d)
    BY <1>1, <1>2, <1>3
  <2> QED  BY ONLY <2>1, <2>2, <2>3
<1> QED  BY <1>3, <1>4 DEF s1, s2, s3

\* What _entries keeps of three entries,
LEMMA EntriesOfThree ==
    ASSUME NEW e1 \in Posting, NEW e2 \in Posting, NEW e3 \in Posting
    PROVE  Entries(<<e1, e2, e3>>) = Kept(Kept(Kept(<<>>, e1), e2), e3)
<1> DEFINE v == <<e1, e2, e3>>
<1>1. v \in Seq(Posting) /\ Len(v) = 3 /\ v[1] = e1 /\ v[2] = e2 /\ v[3] = e3
  BY SMT
<1> HIDE DEF v
<1>2. PICK run : /\ run[0] = <<>>
                 /\ \A j \in 1..3 : run[j] = Kept(run[j - 1], v[j])
                 /\ Entries(v) = run[3]
  BY <1>1, EntriesRuns
<1>3. 1 \in 1..3 /\ 2 \in 1..3 /\ 3 \in 1..3 /\ 1 - 1 = 0 /\ 2 - 1 = 1 /\ 3 - 1 = 2  BY SMT
<1>4. run[1] = Kept(run[0], v[1]) /\ run[2] = Kept(run[1], v[2]) /\ run[3] = Kept(run[2], v[3])
  BY <1>2, <1>3
<1> QED  BY <1>1, <1>2, <1>4 DEF v

\* and of four.
LEMMA EntriesOfFour ==
    ASSUME NEW e1 \in Posting, NEW e2 \in Posting, NEW e3 \in Posting, NEW e4 \in Posting
    PROVE  Entries(<<e1, e2, e3, e4>>) = Kept(Kept(Kept(Kept(<<>>, e1), e2), e3), e4)
<1> DEFINE v == <<e1, e2, e3, e4>>
<1>1. v \in Seq(Posting) /\ Len(v) = 4 /\ v[1] = e1 /\ v[2] = e2 /\ v[3] = e3 /\ v[4] = e4
  BY SMT
<1> HIDE DEF v
<1>2. PICK run : /\ run[0] = <<>>
                 /\ \A j \in 1..4 : run[j] = Kept(run[j - 1], v[j])
                 /\ Entries(v) = run[4]
  BY <1>1, EntriesRuns
<1>3. /\ 1 \in 1..4 /\ 2 \in 1..4 /\ 3 \in 1..4 /\ 4 \in 1..4
      /\ 1 - 1 = 0 /\ 2 - 1 = 1 /\ 3 - 1 = 2 /\ 4 - 1 = 3
  BY SMT
<1>4. /\ run[1] = Kept(run[0], v[1]) /\ run[2] = Kept(run[1], v[2])
      /\ run[3] = Kept(run[2], v[3]) /\ run[4] = Kept(run[3], v[4])
  BY <1>2, <1>3
<1> QED  BY ONLY <1>1, <1>2, <1>4 DEF v

\* What a buy posts: the gross amount to SECURITY, and with the fee from CASH; it is a
\* transaction unless the gross amount is zero.
LEMMA BuyPosts ==
    ASSUME NEW gross \in Nat, NEW fee \in Nat
    PROVE  /\ BuyEntries(gross, fee) \in Seq(Posting)
           /\ Side(BuyEntries(gross, fee), {"SECURITY"}, "DEBIT") = gross
           /\ Side(BuyEntries(gross, fee), {"SECURITY"}, "CREDIT") = 0
           /\ Side(BuyEntries(gross, fee), {"CASH"}, "DEBIT") = 0
           /\ Side(BuyEntries(gross, fee), {"CASH"}, "CREDIT") = gross + fee
           /\ gross > 0 => ValidTransaction(BuyEntries(gross, fee))
<1> DEFINE e1 == Entry("SECURITY", "DEBIT", gross)
           e2 == Entry("FEE_EXPENSE", "DEBIT", fee)
           e3 == Entry("CASH", "CREDIT", gross + fee)
           s == Kept(Kept(Kept(<<>>, e1), e2), e3)
           t == BuyEntries(gross, fee)
<1>1. e1 \in Posting /\ e2 \in Posting /\ e3 \in Posting
  BY SMT DEF Posting, Entry, Accounts
<1>2. t = Entries(<<e1, e2, e3>>)  BY DEF BuyEntries
<1>3. /\ e1.account = "SECURITY" /\ e1.direction = "DEBIT" /\ e1.amount = gross
      /\ e2.account = "FEE_EXPENSE" /\ e2.direction = "DEBIT" /\ e2.amount = fee
      /\ e3.account = "CASH" /\ e3.direction = "CREDIT" /\ e3.amount = gross + fee
  BY DEF Entry
<1> HIDE DEF t, e1, e2, e3
<1>4. /\ t \in Seq(Posting) /\ Positive(t)
      /\ \A A, d : Side(t, A, d) = SideOf(e1, A, d) + SideOf(e2, A, d) + SideOf(e3, A, d)
  <2>1. t = s  BY <1>1, <1>2, EntriesOfThree
  <2>2. /\ s \in Seq(Posting) /\ Positive(s)
        /\ \A A, d : Side(s, A, d) = SideOf(e1, A, d) + SideOf(e2, A, d) + SideOf(e3, A, d)
    BY <1>1, KeptFromNothing
  <2> QED  BY <2>1, <2>2
<1>5. Side(t, {"SECURITY"}, "DEBIT") = gross
  BY ONLY <1>3, <1>4 DEF SideOf
<1>6. Side(t, {"SECURITY"}, "CREDIT") = 0
  BY ONLY <1>3, <1>4 DEF SideOf
<1>7. Side(t, {"CASH"}, "DEBIT") = 0
  BY ONLY <1>3, <1>4 DEF SideOf
<1>8. Side(t, {"CASH"}, "CREDIT") = gross + fee
  BY ONLY <1>3, <1>4 DEF SideOf
<1>9. ASSUME gross > 0 PROVE ValidTransaction(t)
  <2>1. Side(t, Accounts, "DEBIT") = gross + fee
    BY ONLY <1>3, <1>4 DEF SideOf, Accounts
  <2>2. Side(t, Accounts, "CREDIT") = gross + fee
    BY ONLY <1>3, <1>4 DEF SideOf, Accounts
  <2> QED  BY ONLY <1>4, <1>9, <2>1, <2>2, BothSides
<1> QED  BY <1>4, <1>5, <1>6, <1>7, <1>8, <1>9 DEF t

\* What a sell posts: the proceeds less the fee to CASH, and the basis from SECURITY, with
\* the gain or the loss making up the difference; it is a transaction unless the proceeds
\* are zero.
LEMMA SellPosts ==
    ASSUME NEW gross \in Nat, NEW fee \in Nat, fee <= gross, NEW basis \in Nat
    PROVE  /\ SellEntries(gross, fee, basis) \in Seq(Posting)
           /\ Side(SellEntries(gross, fee, basis), {"SECURITY"}, "DEBIT") = 0
           /\ Side(SellEntries(gross, fee, basis), {"SECURITY"}, "CREDIT") = basis
           /\ Side(SellEntries(gross, fee, basis), {"CASH"}, "DEBIT") = gross - fee
           /\ Side(SellEntries(gross, fee, basis), {"CASH"}, "CREDIT") = 0
           /\ gross > 0 \/ basis > 0 => ValidTransaction(SellEntries(gross, fee, basis))
<1> DEFINE e1 == Entry("CASH", "DEBIT", gross - fee)
           e2 == Entry("FEE_EXPENSE", "DEBIT", fee)
           e3 == Entry("SECURITY", "CREDIT", basis)
           e4 == IF gross > basis THEN Entry("REALIZED_PNL", "CREDIT", gross - basis)
                 ELSE Entry("REALIZED_PNL", "DEBIT", basis - gross)
           s == Kept(Kept(Kept(<<>>, e1), e2), e3)
           t == SellEntries(gross, fee, basis)
<1>1. e1 \in Posting /\ e2 \in Posting /\ e3 \in Posting
  BY SMT DEF Posting, Entry, Accounts
<1>2. e4 \in Posting
  BY SMT DEF Posting, Entry, Accounts
<1>3. t = Entries(<<e1, e2, e3, e4>>)  BY DEF SellEntries
<1>4. /\ e1.account = "CASH" /\ e1.direction = "DEBIT" /\ e1.amount = gross - fee
      /\ e2.account = "FEE_EXPENSE" /\ e2.direction = "DEBIT" /\ e2.amount = fee
      /\ e3.account = "SECURITY" /\ e3.direction = "CREDIT" /\ e3.amount = basis
      /\ e4.account = "REALIZED_PNL"
      /\ e4.direction = IF gross > basis THEN "CREDIT" ELSE "DEBIT"
      /\ e4.amount = IF gross > basis THEN gross - basis ELSE basis - gross
  BY DEF Entry
<1> HIDE DEF t, e1, e2, e3, e4
<1>5. t = Kept(s, e4)  BY ONLY <1>1, <1>2, <1>3, EntriesOfFour
<1>6. /\ s \in Seq(Posting) /\ Positive(s)
      /\ \A A, d : Side(s, A, d) = SideOf(e1, A, d) + SideOf(e2, A, d) + SideOf(e3, A, d)
  BY <1>1, KeptFromNothing
<1> HIDE DEF s
<1>7. /\ t \in Seq(Posting) /\ Positive(t)
      /\ \A A, d : Side(t, A, d) = Side(s, A, d) + SideOf(e4, A, d)
  BY ONLY <1>2, <1>5, <1>6, KeptSide
<1>8. \A A, d : Side(t, A, d) = SideOf(e1, A, d) + SideOf(e2, A, d) + SideOf(e3, A, d)
                                  + SideOf(e4, A, d)
  BY <1>6, <1>7
<1>9. Side(t, {"SECURITY"}, "DEBIT") = 0
  BY ONLY <1>4, <1>8 DEF SideOf
<1>10. Side(t, {"SECURITY"}, "CREDIT") = basis
  BY ONLY <1>4, <1>8 DEF SideOf
<1>11. Side(t, {"CASH"}, "DEBIT") = gross - fee
  BY ONLY <1>4, <1>8 DEF SideOf
<1>12. Side(t, {"CASH"}, "CREDIT") = 0
  BY ONLY <1>4, <1>8 DEF SideOf
<1>13. ASSUME gross > 0 \/ basis > 0 PROVE ValidTransaction(t)
  <2>1. /\ Side(t, Accounts, "DEBIT") = IF gross > basis THEN gross ELSE basis
        /\ Side(t, Accounts, "CREDIT") = IF gross > basis THEN gross ELSE basis
    <3>1. CASE gross > basis
      <4>1. Side(t, Accounts, "DEBIT") = gross
        BY ONLY <1>4, <1>8, <3>1 DEF SideOf, Accounts
      <4>2. Side(t, Accounts, "CREDIT") = gross
        BY ONLY <1>4, <1>8, <3>1 DEF SideOf, Accounts
      <4> QED  BY <3>1, <4>1, <4>2
    <3>2. CASE ~(gross > basis)
      <4>1. Side(t, Accounts, "DEBIT") = basis
        BY ONLY <1>4, <1>8, <3>2 DEF SideOf, Accounts
      <4>2. Side(t, Accounts, "CREDIT") = basis
        BY ONLY <1>4, <1>8, <3>2 DEF SideOf, Accounts
      <4> QED  BY <3>2, <4>1, <4>2
    <3> QED  BY <3>1, <3>2
  <2> QED  BY ONLY <1>7, <1>13, <2>1, BothSides
<1> QED  BY <1>7, <1>9, <1>10, <1>11, <1>12, <1>13 DEF t
--------------------------------------------------------------------------------
(* Exposure, ledger and fills after one change *)

HIDE DEF SideIs, SideAppend, KeptSide, EntriesRuns, BothSides, KeptFromNothing,
         EntriesOfThree, EntriesOfFour, BuyPosts, SellPosts

\* A sum of naturals is at least each of them.
LEMMA SumAtLeast ==
    ASSUME NEW f, IsFiniteSet(DOMAIN f), \A x \in DOMAIN f : f[x] \in Nat, NEW i \in DOMAIN f
    PROVE  f[i] <= SumFunction(f)
<1> DEFINE g == [x \in DOMAIN f |-> IF x = i THEN 0 ELSE f[x]]
<1>1. /\ DOMAIN g = DOMAIN f /\ g[i] = 0 /\ g[i] \in Int
      /\ \A x \in DOMAIN f : f[x] \in Int /\ (x # i => g[x] = f[x])
      /\ \A x \in DOMAIN g : g[x] \in Nat
  BY SMT
<1> HIDE DEF g
<1>2. SumFunction(f) \in Int /\ SumFunction(g) = SumFunction(f) - f[i] + g[i]
  BY <1>1, SumChange
<1>3. SumFunction(g) \in Nat  BY <1>1, SumNat
<1> QED  BY ONLY <1>1, <1>2, <1>3

\* Positions, costs and their sum.
LEMMA Exposures ==
    ASSUME NEW a, a.lots \in [Instruments -> Seq(Lot)]
    PROVE  /\ PositionExposure(a) \in Nat
           /\ \A i \in Instruments : /\ Position(a, i) \in Nat
                                     /\ CostBasis(a, i) \in Nat
                                     /\ CostBasis(a, i) <= PositionExposure(a)
<1>1. IsFiniteSet(Instruments)  BY Constants
<1>2. \A i \in Instruments : a.lots[i] \in Seq(Lot)  OBVIOUS
<1>3. \A i \in Instruments : Position(a, i) \in Nat /\ CostBasis(a, i) \in Nat
  BY <1>2, LotSums, LotSumsNat
<1> DEFINE f == [i \in Instruments |-> CostBasis(a, i)]
<1>4. PositionExposure(a) = SumFunction(f)  BY DEF PositionExposure, SumOverAll
<1>5. DOMAIN f = Instruments /\ \A i \in Instruments : f[i] = CostBasis(a, i)  OBVIOUS
<1> HIDE DEF f
<1>6. SumFunction(f) \in Nat  BY <1>1, <1>3, <1>5, SumNat
<1>7. \A i \in Instruments : f[i] <= SumFunction(f)  BY <1>1, <1>3, <1>5, SumAtLeast
<1> QED  BY <1>3, <1>4, <1>5, <1>6, <1>7

\* f is g with x at i.
Replaces(f, g, i, x) == f = [g EXCEPT ![i] = x]

\* Changing the lots of one instrument changes its position, its cost and the sum of costs.
LEMMA ExposureChange ==
    ASSUME NEW a, NEW b, a.lots \in [Instruments -> Seq(Lot)], NEW i \in Instruments,
           NEW s \in Seq(Lot), Replaces(b.lots, a.lots, i, s)
    PROVE  /\ b.lots \in [Instruments -> Seq(Lot)]
           /\ PositionExposure(b) = PositionExposure(a) - CostBasis(a, i) + Bases(s)
           /\ CostBasis(b, i) = Bases(s) /\ Position(b, i) = Quantities(s)
           /\ \A j \in Instruments : j # i => /\ CostBasis(b, j) = CostBasis(a, j)
                                              /\ Position(b, j) = Position(a, j)
<1>1. b.lots \in [Instruments -> Seq(Lot)]  BY DEF Replaces
<1>2. b.lots[i] = s /\ \A j \in Instruments : j # i => b.lots[j] = a.lots[j]
  BY DEF Replaces
<1>3. CostBasis(b, i) = Bases(s) /\ Position(b, i) = Quantities(s)  BY <1>2, LotSums
<1>4. \A j \in Instruments : j # i => /\ CostBasis(b, j) = CostBasis(a, j)
                                      /\ Position(b, j) = Position(a, j)
  BY <1>2, LotSums
<1> DEFINE f == [j \in Instruments |-> CostBasis(a, j)]
           g == [j \in Instruments |-> CostBasis(b, j)]
<1>5. PositionExposure(a) = SumFunction(f) /\ PositionExposure(b) = SumFunction(g)
  BY DEF PositionExposure, SumOverAll
<1>6. /\ \A j \in Instruments : CostBasis(a, j) \in Nat
      /\ \A j \in Instruments : CostBasis(b, j) \in Nat
  BY <1>1, Exposures
<1>7. /\ DOMAIN f = Instruments /\ DOMAIN g = Instruments
      /\ f[i] = CostBasis(a, i) /\ g[i] = CostBasis(b, i) /\ g[i] \in Int
      /\ \A j \in Instruments : f[j] \in Int /\ (j # i => g[j] = f[j])
  BY ONLY <1>4, <1>6
<1>8. IsFiniteSet(Instruments)  BY Constants
<1> HIDE DEF f, g
<1>9. SumFunction(g) = SumFunction(f) - f[i] + g[i]
  BY <1>7, <1>8, SumChange
<1> QED  BY <1>1, <1>3, <1>4, <1>5, <1>7, <1>9

\* t is s with one more element.
Adds(t, s, x) == t = Append(s, x)

\* One more transaction in the ledger.
LEMMA BookedAppend ==
    ASSUME NEW a, NEW b, a.ledger \in Seq(Seq(Posting)), NEW t \in Seq(Posting),
           Adds(b.ledger, a.ledger, t), NEW account
    PROVE  /\ Booked(a, account) \in Int
           /\ Booked(b, account) = Booked(a, account) + Side(t, {account}, "DEBIT")
                                     - Side(t, {account}, "CREDIT")
<1> DEFINE Net(u) == Side(u, {account}, "DEBIT") - Side(u, {account}, "CREDIT")
           n == Len(a.ledger)
           f == [j \in DOMAIN a.ledger |-> Net(a.ledger[j])]
           g == [j \in DOMAIN b.ledger |-> Net(b.ledger[j])]
<1>1. /\ n \in Nat /\ DOMAIN a.ledger = 1..n /\ DOMAIN b.ledger = 1..(n + 1)
      /\ b.ledger[n + 1] = t
      /\ \A j \in 1..n : b.ledger[j] = a.ledger[j] /\ a.ledger[j] \in Seq(Posting)
  BY Appended, SMT DEF Adds
<1>2. \A u \in Seq(Posting) : /\ Side(u, {account}, "DEBIT") \in Nat
                              /\ Side(u, {account}, "CREDIT") \in Nat
  BY SideNat
<1>3. \A u \in Seq(Posting) : Net(u) \in Int
  <2> TAKE u \in Seq(Posting)
  <2>1. Side(u, {account}, "DEBIT") \in Nat /\ Side(u, {account}, "CREDIT") \in Nat  BY <1>2
  <2> QED  BY ONLY <2>1
<1>4. Booked(a, account) = SumFunction(f) /\ Booked(b, account) = SumFunction(g)
  BY DEF Booked, SumOver
<1> HIDE DEF n, Net
<1>5. /\ DOMAIN f = 1..n /\ DOMAIN g = 1..(n + 1) /\ g[n + 1] = Net(t) /\ g[n + 1] \in Int
      /\ \A j \in 1..n : f[j] \in Int /\ g[j] = f[j]
  BY ONLY <1>1, <1>3
<1> HIDE DEF f, g
<1>6. SumFunction(f) \in Int /\ SumFunction(g) = SumFunction(f) + g[n + 1]
  BY <1>1, <1>5, SumExtend
<1>7. Booked(b, account) = Booked(a, account) + Net(t)  BY <1>4, <1>5, <1>6
<1>8. Side(t, {account}, "DEBIT") \in Nat /\ Side(t, {account}, "CREDIT") \in Nat  BY <1>2
<1> QED  BY <1>4, <1>6, <1>7, <1>8 DEF Net

\* An empty ledger posted nothing.
LEMMA BookedNothing ==
    ASSUME NEW a, a.ledger = <<>>, NEW account PROVE Booked(a, account) = 0
<1> DEFINE f == [j \in DOMAIN a.ledger |->
                   Side(a.ledger[j], {account}, "DEBIT") - Side(a.ledger[j], {account}, "CREDIT")]
<1>1. DOMAIN f = {}  BY SMT
<1>2. Booked(a, account) = SumFunction(f)  BY DEF Booked, SumOver
<1> QED  BY <1>1, <1>2, SumOverNothing

\* One more fill.
LEMMA FilledAppend ==
    ASSUME NEW B, NEW a, NEW b, a.fills \in Seq(Fill(B)), NEW f \in Fill(B),
           Adds(b.fills, a.fills, f), NEW k
    PROVE  /\ FilledBy(a, k) \in Int /\ SpentBy(a, k) \in Int
           /\ FilledBy(b, k) = FilledBy(a, k) + IF f.order = k THEN f.quantity ELSE 0
           /\ SpentBy(b, k) = SpentBy(a, k) + IF f.order = k THEN f.gross ELSE 0
<1> DEFINE n == Len(a.fills)
<1>1. /\ n \in Nat /\ DOMAIN a.fills = 1..n /\ DOMAIN b.fills = 1..(n + 1)
      /\ b.fills[n + 1] = f
      /\ \A j \in 1..n : b.fills[j] = a.fills[j] /\ a.fills[j] \in Fill(B)
  BY Appended, SMT DEF Adds
<1>2. \A h \in Fill(B) : h.quantity \in Nat /\ h.gross \in Nat  BY DEF Fill
<1> HIDE DEF n
<1>3. FilledBy(a, k) \in Int /\ FilledBy(b, k) = FilledBy(a, k) + IF f.order = k THEN f.quantity ELSE 0
  <2> DEFINE u == [j \in DOMAIN a.fills |-> IF a.fills[j].order = k THEN a.fills[j].quantity ELSE 0]
             v == [j \in DOMAIN b.fills |-> IF b.fills[j].order = k THEN b.fills[j].quantity ELSE 0]
  <2>1. /\ DOMAIN u = 1..n /\ DOMAIN v = 1..(n + 1)
        /\ v[n + 1] = (IF f.order = k THEN f.quantity ELSE 0) /\ v[n + 1] \in Int
        /\ \A j \in 1..n : u[j] \in Int /\ v[j] = u[j]
    BY ONLY <1>1, <1>2
  <2>2. FilledBy(a, k) = SumFunction(u) /\ FilledBy(b, k) = SumFunction(v)
    BY DEF FilledBy, SumOver
  <2> HIDE DEF u, v
  <2>3. SumFunction(u) \in Int /\ SumFunction(v) = SumFunction(u) + v[n + 1]
    BY <1>1, <2>1, SumExtend
  <2> QED  BY <2>1, <2>2, <2>3
<1>4. SpentBy(a, k) \in Int /\ SpentBy(b, k) = SpentBy(a, k) + IF f.order = k THEN f.gross ELSE 0
  <2> DEFINE u == [j \in DOMAIN a.fills |-> IF a.fills[j].order = k THEN a.fills[j].gross ELSE 0]
             v == [j \in DOMAIN b.fills |-> IF b.fills[j].order = k THEN b.fills[j].gross ELSE 0]
  <2>1. /\ DOMAIN u = 1..n /\ DOMAIN v = 1..(n + 1)
        /\ v[n + 1] = (IF f.order = k THEN f.gross ELSE 0) /\ v[n + 1] \in Int
        /\ \A j \in 1..n : u[j] \in Int /\ v[j] = u[j]
    BY ONLY <1>1, <1>2
  <2>2. SpentBy(a, k) = SumFunction(u) /\ SpentBy(b, k) = SumFunction(v)
    BY DEF SpentBy, SumOver
  <2> HIDE DEF u, v
  <2>3. SumFunction(u) \in Int /\ SumFunction(v) = SumFunction(u) + v[n + 1]
    BY <1>1, <2>1, SumExtend
  <2> QED  BY <2>1, <2>2, <2>3
<1> QED  BY <1>3, <1>4

\* An order without fills.
LEMMA NotFilled ==
    ASSUME NEW B, NEW a, a.fills \in Seq(Fill(B)), NEW k,
           \A f \in Range(a.fills) : f.order # k
    PROVE  FilledBy(a, k) = 0 /\ SpentBy(a, k) = 0
<1>1. IsFiniteSet(DOMAIN a.fills)  BY FiniteDomain
<1>2. \A j \in DOMAIN a.fills : a.fills[j].order # k  BY DEF Range
<1>3. 0 \in {0} /\ (\A m, n \in {0} : m + n \in {0})  BY SMT
<1>4. FilledBy(a, k) \in {0}
  <2> DEFINE u == [j \in DOMAIN a.fills |-> IF a.fills[j].order = k THEN a.fills[j].quantity ELSE 0]
  <2>1. FilledBy(a, k) = SumFunctionOnSet(u, DOMAIN a.fills)
    BY DEF FilledBy, SumOver, SumFunction
  <2>2. \A j \in DOMAIN a.fills : u[j] \in {0}  BY <1>2
  <2> HIDE DEF u
  <2> QED  BY <1>1, <1>3, <2>1, <2>2, SumClosed
<1>5. SpentBy(a, k) \in {0}
  <2> DEFINE u == [j \in DOMAIN a.fills |-> IF a.fills[j].order = k THEN a.fills[j].gross ELSE 0]
  <2>1. SpentBy(a, k) = SumFunctionOnSet(u, DOMAIN a.fills)
    BY DEF SpentBy, SumOver, SumFunction
  <2>2. \A j \in DOMAIN a.fills : u[j] \in {0}  BY <1>2
  <2> HIDE DEF u
  <2> QED  BY <1>1, <1>3, <2>1, <2>2, SumClosed
<1> QED  BY <1>4, <1>5
--------------------------------------------------------------------------------
(* What open sells reserve *)

HIDE DEF SumClosed, SumOverNothing, LotSumsNat, SideNat, SumAtLeast, BookedAppend,
         FilledAppend

\* What an order reserves of the position in i.
Held(o, i) ==
    IF IsOpen(o) /\ o.request.instrument = i /\ o.request.side = "SELL" THEN o.quantity ELSE 0

\* It is a natural.
LEMMA HeldNat ==
    ASSUME NEW R, NEW o \in Order(R), NEW i
    PROVE  Held(o, i) \in Nat
  BY DEF Held, Order

\* So is every reservation.
LEMMA ReservedNat ==
    ASSUME NEW R, NEW a, a.orders \in Seq(Order(R)), NEW k, NEW i
    PROVE  /\ ReservedCash(a, k) \in Nat /\ ReservedNotional(a, k) \in Nat
           /\ InstrumentReservedNotional(a, k, i) \in Nat /\ ReservedQuantity(a, k, i) \in Nat
<1>1. IsFiniteSet(DOMAIN a.orders)  BY FiniteDomain
<1>2. \A j \in DOMAIN a.orders : a.orders[j] \in Order(R)  BY SMT
<1>3. \A j \in DOMAIN a.orders : /\ a.orders[j].cash \in Nat /\ a.orders[j].notional \in Nat
                                 /\ a.orders[j].quantity \in Nat
  BY <1>2 DEF Order
<1>4. ReservedCash(a, k) \in Nat
  <2> DEFINE f == [j \in DOMAIN a.orders |->
                     IF j # k /\ IsOpen(a.orders[j]) /\ TRUE THEN a.orders[j].cash ELSE 0]
  <2>1. DOMAIN f = DOMAIN a.orders /\ \A j \in DOMAIN f : f[j] \in Nat  BY <1>3
  <2>2. ReservedCash(a, k) = SumFunction(f)  BY DEF ReservedCash, Reserved
  <2> HIDE DEF f
  <2> QED  BY <1>1, <2>1, <2>2, SumNat
<1>5. ReservedNotional(a, k) \in Nat
  <2> DEFINE f == [j \in DOMAIN a.orders |->
                     IF j # k /\ IsOpen(a.orders[j]) /\ TRUE THEN a.orders[j].notional ELSE 0]
  <2>1. DOMAIN f = DOMAIN a.orders /\ \A j \in DOMAIN f : f[j] \in Nat  BY <1>3
  <2>2. ReservedNotional(a, k) = SumFunction(f)  BY DEF ReservedNotional, Reserved
  <2> HIDE DEF f
  <2> QED  BY <1>1, <2>1, <2>2, SumNat
<1>6. InstrumentReservedNotional(a, k, i) \in Nat
  <2> DEFINE f == [j \in DOMAIN a.orders |->
                     IF /\ j # k /\ IsOpen(a.orders[j])
                        /\ a.orders[j].request.instrument = i /\ a.orders[j].request.side = "BUY"
                     THEN a.orders[j].notional ELSE 0]
  <2>1. DOMAIN f = DOMAIN a.orders /\ \A j \in DOMAIN f : f[j] \in Nat  BY <1>3
  <2>2. InstrumentReservedNotional(a, k, i) = SumFunction(f)
    BY DEF InstrumentReservedNotional, Reserved
  <2> HIDE DEF f
  <2> QED  BY <1>1, <2>1, <2>2, SumNat
<1>7. ReservedQuantity(a, k, i) \in Nat
  <2> DEFINE f == [j \in DOMAIN a.orders |->
                     IF /\ j # k /\ IsOpen(a.orders[j])
                        /\ a.orders[j].request.instrument = i /\ a.orders[j].request.side = "SELL"
                     THEN a.orders[j].quantity ELSE 0]
  <2>1. DOMAIN f = DOMAIN a.orders /\ \A j \in DOMAIN f : f[j] \in Nat  BY <1>3
  <2>2. ReservedQuantity(a, k, i) = SumFunction(f)
    BY DEF ReservedQuantity, Reserved
  <2> HIDE DEF f
  <2> QED  BY <1>1, <2>1, <2>2, SumNat
<1> QED  BY <1>4, <1>5, <1>6, <1>7

\* ReservedQuantity, of all orders, is the sum of what they hold.
LEMMA HeldIs ==
    ASSUME NEW R, NEW a, a.orders \in Seq(Order(R)), NEW i
    PROVE  ReservedQuantity(a, 0, i) = SumFunction([j \in DOMAIN a.orders |-> Held(a.orders[j], i)])
<1>1. \A j \in DOMAIN a.orders : j # 0  BY SMT
<1> DEFINE f == [j \in DOMAIN a.orders |->
                   IF /\ j # 0 /\ IsOpen(a.orders[j])
                      /\ a.orders[j].request.instrument = i /\ a.orders[j].request.side = "SELL"
                   THEN a.orders[j].quantity ELSE 0]
           g == [j \in DOMAIN a.orders |-> Held(a.orders[j], i)]
<1>2. f = g  BY <1>1 DEF Held
<1>3. ReservedQuantity(a, 0, i) = SumFunction(f)  BY DEF ReservedQuantity, Reserved
<1> QED  BY <1>2, <1>3

\* If no order holds more, no more is reserved.
LEMMA HeldShrinks ==
    ASSUME NEW R, NEW a, a.orders \in Seq(Order(R)), NEW b, b.orders \in Seq(Order(R)), NEW i,
           DOMAIN b.orders = DOMAIN a.orders,
           \A j \in DOMAIN a.orders : Held(b.orders[j], i) <= Held(a.orders[j], i)
    PROVE  ReservedQuantity(b, 0, i) <= ReservedQuantity(a, 0, i)
<1> DEFINE f == [j \in DOMAIN a.orders |-> Held(a.orders[j], i)]
           g == [j \in DOMAIN b.orders |-> Held(b.orders[j], i)]
<1>1. IsFiniteSet(DOMAIN a.orders)  BY FiniteDomain
<1>2. \A j \in DOMAIN a.orders : Held(a.orders[j], i) \in Nat /\ Held(b.orders[j], i) \in Nat
  <2>1. \A j \in DOMAIN a.orders : a.orders[j] \in Order(R) /\ b.orders[j] \in Order(R)  BY SMT
  <2> QED  BY <2>1, HeldNat
<1>3. /\ DOMAIN g = DOMAIN a.orders /\ DOMAIN f = DOMAIN g
      /\ \A j \in DOMAIN g : g[j] \in Int /\ f[j] \in Int /\ g[j] <= f[j]
  BY <1>2, SMT
<1> HIDE DEF f, g
<1>4. SumFunction(g) <= SumFunction(f)  BY <1>1, <1>3, SumGrows
<1> QED  BY <1>4, HeldIs DEF f, g

\* The orders of b are those of a with o as the k-th.
OrderReplaced(R, b, a, k, o) ==
    /\ a.orders \in Seq(Order(R)) /\ k \in DOMAIN a.orders /\ o \in Order(R)
    /\ Replaces(b.orders, a.orders, k, o)

\* The reservation after one order changed,
LEMMA HeldChange ==
    ASSUME NEW R, NEW a, NEW b, NEW i, NEW k, NEW o, OrderReplaced(R, b, a, k, o)
    PROVE  ReservedQuantity(b, 0, i) = ReservedQuantity(a, 0, i) - Held(a.orders[k], i) + Held(o, i)
<1> DEFINE f == [j \in DOMAIN a.orders |-> Held(a.orders[j], i)]
           g == [j \in DOMAIN b.orders |-> Held(b.orders[j], i)]
<1>0. /\ a.orders \in Seq(Order(R)) /\ k \in DOMAIN a.orders /\ o \in Order(R)
      /\ Replaces(b.orders, a.orders, k, o)
  BY DEF OrderReplaced
<1>k. k \in DOMAIN a.orders  BY <1>0
<1>o. o \in Order(R)  BY <1>0
<1>a. a.orders \in Seq(Order(R))  BY <1>0
<1>1. IsFiniteSet(DOMAIN a.orders)  BY <1>0, FiniteDomain
<1>2. b.orders \in Seq(Order(R)) /\ DOMAIN b.orders = DOMAIN a.orders /\ b.orders[k] = o
      /\ \A j \in DOMAIN a.orders : a.orders[j] \in Order(R) /\ (j # k => b.orders[j] = a.orders[j])
  BY ONLY <1>0 DEF Replaces
<1>3. Held(o, i) \in Nat /\ \A j \in DOMAIN a.orders : Held(a.orders[j], i) \in Nat
  BY <1>2, <1>o, HeldNat
<1>4. /\ DOMAIN f = DOMAIN a.orders /\ DOMAIN g = DOMAIN f
      /\ f[k] = Held(a.orders[k], i) /\ g[k] = Held(o, i) /\ g[k] \in Int
      /\ \A j \in DOMAIN f : f[j] \in Int /\ (j # k => g[j] = f[j])
  BY ONLY <1>2, <1>3, <1>k
<1>5. ReservedQuantity(a, 0, i) = SumFunction(f) /\ ReservedQuantity(b, 0, i) = SumFunction(g)
  BY ONLY <1>2, <1>a, HeldIs
<1> HIDE DEF f, g
<1>6. SumFunction(g) = SumFunction(f) - f[k] + g[k]  BY <1>1, <1>4, <1>k, SumChange
<1> QED  BY <1>4, <1>5, <1>6

\* after one was added,
LEMMA HeldAppend ==
    ASSUME NEW R, NEW a, a.orders \in Seq(Order(R)), NEW b, NEW i, NEW o \in Order(R),
           Adds(b.orders, a.orders, o)
    PROVE  ReservedQuantity(b, 0, i) = ReservedQuantity(a, 0, i) + Held(o, i)
<1> DEFINE n == Len(a.orders)
           f == [j \in DOMAIN a.orders |-> Held(a.orders[j], i)]
           g == [j \in DOMAIN b.orders |-> Held(b.orders[j], i)]
<1>1. /\ n \in Nat /\ DOMAIN a.orders = 1..n /\ DOMAIN b.orders = 1..(n + 1)
      /\ b.orders[n + 1] = o /\ b.orders \in Seq(Order(R))
      /\ \A j \in 1..n : b.orders[j] = a.orders[j] /\ a.orders[j] \in Order(R)
  BY Appended, SMT DEF Adds
<1>2. Held(o, i) \in Nat /\ \A j \in 1..n : Held(a.orders[j], i) \in Nat
  BY <1>1, HeldNat
<1>3. ReservedQuantity(a, 0, i) = SumFunction(f) /\ ReservedQuantity(b, 0, i) = SumFunction(g)
  <2>1. ReservedQuantity(a, 0, i) = SumFunction(f)  BY ONLY a.orders \in Seq(Order(R)), HeldIs
  <2>2. b.orders \in Seq(Order(R))  BY <1>1
  <2>3. ReservedQuantity(b, 0, i) = SumFunction(g)  BY ONLY <2>2, HeldIs
  <2> QED  BY <2>1, <2>3
<1> HIDE DEF n
<1>4. /\ DOMAIN f = 1..n /\ DOMAIN g = 1..(n + 1) /\ g[n + 1] = Held(o, i) /\ g[n + 1] \in Int
      /\ \A j \in 1..n : f[j] \in Int /\ g[j] = f[j]
  BY ONLY <1>1, <1>2
<1> HIDE DEF f, g
<1>5. SumFunction(g) = SumFunction(f) + g[n + 1]  BY <1>1, <1>4, SumExtend
<1> QED  BY <1>3, <1>4, <1>5

\* and without the one that was added.
LEMMA OthersHeld ==
    ASSUME NEW R, NEW a, a.orders \in Seq(Order(R)), NEW b, NEW i, NEW o \in Order(R),
           Adds(b.orders, a.orders, o)
    PROVE  ReservedQuantity(b, Len(a.orders) + 1, i) = ReservedQuantity(a, 0, i)
<1> DEFINE n == Len(a.orders)
           f == [j \in DOMAIN a.orders |-> Held(a.orders[j], i)]
           g == [j \in DOMAIN b.orders |->
                   IF /\ j # n + 1 /\ IsOpen(b.orders[j])
                      /\ b.orders[j].request.instrument = i /\ b.orders[j].request.side = "SELL"
                   THEN b.orders[j].quantity ELSE 0]
<1>1. /\ n \in Nat /\ DOMAIN a.orders = 1..n /\ DOMAIN b.orders = 1..(n + 1)
      /\ \A j \in 1..n : b.orders[j] = a.orders[j] /\ a.orders[j] \in Order(R)
  BY Appended, SMT DEF Adds
<1>2. \A j \in 1..n : Held(a.orders[j], i) \in Nat  BY <1>1, HeldNat
<1>3. ReservedQuantity(a, 0, i) = SumFunction(f)  BY HeldIs
<1>4. ReservedQuantity(b, n + 1, i) = SumFunction(g)  BY DEF ReservedQuantity, Reserved
<1> HIDE DEF n
<1>5. \A j \in 1..n : j \in DOMAIN b.orders /\ j # n + 1  BY ONLY <1>1
<1>6. \A j \in 1..n : g[j] = Held(a.orders[j], i)  BY <1>1, <1>5 DEF Held
<1>7. /\ DOMAIN f = 1..n /\ DOMAIN g = 1..(n + 1) /\ g[n + 1] = 0 /\ g[n + 1] \in Int
      /\ \A j \in 1..n : f[j] \in Int /\ g[j] = f[j]
  <2>1. n + 1 \in DOMAIN b.orders  BY ONLY <1>1
  <2>2. g[n + 1] = 0  BY <2>1
  <2>3. DOMAIN f = 1..n /\ DOMAIN g = 1..(n + 1)  BY <1>1
  <2>4. \A j \in 1..n : f[j] = Held(a.orders[j], i)  BY <1>1
  <2> HIDE DEF f, g
  <2> QED  BY ONLY <1>2, <1>6, <2>2, <2>3, <2>4
<1> HIDE DEF f, g
<1>8. SumFunction(f) \in Int /\ SumFunction(g) = SumFunction(f) + g[n + 1]
  BY <1>1, <1>7, SumExtend
<1> QED  BY ONLY <1>3, <1>4, <1>7, <1>8 DEF n
--------------------------------------------------------------------------------
(* Steps that only close or refresh orders *)

HIDE DEF SumNat, SumChange, SumExtend, SumGrows, FiniteDomain, HeldIs, HeldChange

\* A rate of an amount is at most the amount.
LEMMA RateOf ==
    ASSUME NEW base \in Nat, NEW rate \in 0..BasisPoints
    PROVE  ApplyRate(base, rate) \in Nat /\ ApplyRate(base, rate) <= base
<1>1. BasisPoints \in Nat \ {0} /\ rate \in Nat /\ rate <= BasisPoints  BY ONLY Constants
<1>2. base * rate \in Nat  BY ONLY <1>1
<1>3. base * rate <= base * BasisPoints  BY ONLY <1>1, Scaling
<1>4. base * BasisPoints = BasisPoints * base  BY ONLY <1>1
<1> QED  BY ONLY <1>1, <1>2, <1>3, <1>4, RoundNat, RoundAtMost DEF ApplyRate

\* Fee and slippage are such rates.
LEMMA Rates ==
    ASSUME NEW base \in Nat
    PROVE  /\ ApplyRate(base, FeeRate) \in Nat /\ ApplyRate(base, FeeRate) <= base
           /\ ApplyRate(base, SlippageRate) \in Nat /\ ApplyRate(base, SlippageRate) <= base
<1>1. FeeRate \in 0..BasisPoints /\ SlippageRate \in 0..BasisPoints  BY ONLY Constants
<1> QED  BY <1>1, RateOf

\* _estimated_commitment is not negative.
LEMMA CommitmentNat ==
    ASSUME NEW R, NEW o \in Order(R), ValidRequest(o.request)
    PROVE  EstimatedCommitment(o).notional \in Nat /\ EstimatedCommitment(o).cash \in Nat
<1> DEFINE price == EstimatedPrice(o.request.reference)
           whole == RoundHalfEven(price * o.left, Share)
           notional == IF o.request.notional > 0 THEN o.left ELSE whole
<1>1. o.left \in Nat /\ o.request.reference \in Nat  BY DEF Order, ValidRequest
<1>2. price \in Nat  BY ONLY <1>1, Rates DEF EstimatedPrice
<1>3. Share \in Nat \ {0}  BY Constants
<1>4. price * o.left \in Nat  BY ONLY <1>1, <1>2
<1>5. whole \in Nat  BY <1>3, <1>4, RoundNat
<1>6. EstimatedCommitment(o) = [notional |-> notional, cash |-> notional + ApplyRate(notional, FeeRate)]
  BY DEF EstimatedCommitment
<1> HIDE DEF whole
<1>7. notional \in Nat  BY <1>1, <1>5
<1> HIDE DEF notional
<1>8. ApplyRate(notional, FeeRate) \in Nat  BY <1>7, Rates
<1> QED  BY ONLY <1>6, <1>7, <1>8

\* _refresh_reservation changes what an order reserves and nothing else; a sell reserves what
\* is left.
LEMMA Refreshed ==
    ASSUME NEW R, NEW o \in Order(R), ValidRequest(o.request)
    PROVE  /\ Refresh(o) \in Order(R)
           /\ Refresh(o).request = o.request /\ Refresh(o).left = o.left
           /\ Refresh(o).filled = o.filled /\ Refresh(o).status = o.status
           /\ o.request.side = "SELL" => Refresh(o).quantity = o.left
<1>1. EstimatedCommitment(o).notional \in Nat /\ EstimatedCommitment(o).cash \in Nat
  BY CommitmentNat
<1> DEFINE cash == EstimatedCommitment(o).cash
           notional == EstimatedCommitment(o).notional
<1>2. Refresh(o) = IF o.request.side = "SELL" THEN [o EXCEPT !.quantity = o.left]
                   ELSE [o EXCEPT !.cash = cash, !.notional = notional]
  BY DEF Refresh
<1> HIDE DEF cash, notional
<1>3. cash \in Nat /\ notional \in Nat  BY <1>1 DEF cash, notional
<1> QED  BY ONLY <1>2, <1>3 DEF Order

\* _release_reservation: a closed order holds nothing.
LEMMA Closed ==
    ASSUME NEW R, NEW o \in Order(R), OrderOK(o), NEW status \in {"CANCELLED", "EXPIRED"},
           NEW reason \in Reasons
    PROVE  /\ Close(o, status, reason) \in Order(R) /\ OrderOK(Close(o, status, reason))
           /\ Close(o, status, reason).request = o.request
           /\ Close(o, status, reason).left = o.left
           /\ Close(o, status, reason).filled = o.filled
           /\ Close(o, status, reason).status = status
           /\ \A i : Held(Close(o, status, reason), i) <= Held(o, i)
<1> DEFINE p == Close(o, status, reason)
<1>1. p = [o EXCEPT !.cash = 0, !.notional = 0, !.quantity = 0, !.status = status, !.reason = reason]
  BY DEF Close, Release, Order
<1>2. /\ p \in Order(R) /\ p.request = o.request /\ p.left = o.left /\ p.filled = o.filled
      /\ p.status = status /\ p.cash = 0 /\ p.notional = 0 /\ p.quantity = 0
  <2>1. status \in Statuses  BY DEF Statuses
  <2> HIDE DEF p
  <2>2. p \in Order(R)  BY <1>1, <2>1 DEF Order
  <2>3. p.request = o.request /\ p.left = o.left /\ p.filled = o.filled
    BY <1>1 DEF Order
  <2>4. p.status = status /\ p.cash = 0 /\ p.notional = 0 /\ p.quantity = 0
    BY <1>1 DEF Order
  <2> QED  BY <2>2, <2>3, <2>4
<1> HIDE DEF p
<1>3. ~IsOpen(p) /\ p.status # "ACCEPTED"  BY <1>2 DEF IsOpen
<1>4. OrderOK(p)  BY <1>2, <1>3 DEF OrderOK
<1>5. \A i : Held(p, i) = 0 /\ Held(o, i) \in Nat  BY <1>3, HeldNat DEF Held
<1>6. \A i : Held(p, i) <= Held(o, i)  BY ONLY <1>5
<1> QED  BY <1>2, <1>4, <1>6 DEF p

\* p is o with no more reserved, nothing more filled and nothing less left.
Settles(o, p) ==
    /\ OrderOK(p) /\ p.request = o.request /\ p.left = o.left /\ p.filled = o.filled
    /\ p.status = "FILLED" => o.status = "FILLED"
    /\ \A i : Held(p, i) <= Held(o, i)

\* The parts of an account have their types.
LEMMA Fields ==
    ASSUME NEW R, NEW B, NEW a \in Account(R, B)
    PROVE  /\ a.cash \in Int /\ a.lots \in [Instruments -> Seq(Lot)] /\ a.seeded \in Nat
           /\ a.orders \in Seq(Order(R)) /\ a.fills \in Seq(Fill(B))
           /\ a.ledger \in Seq(Seq(Posting)) /\ a.raised \in BOOLEAN
  BY DEF Account

\* Replacing the orders leaves the rest of the account alone.
LEMMA OrdersReplaced ==
    ASSUME NEW R, NEW B, NEW a \in Account(R, B), NEW s \in Seq(Order(R))
    PROVE  /\ [a EXCEPT !.orders = s] \in Account(R, B)
           /\ [a EXCEPT !.orders = s].orders = s
           /\ [a EXCEPT !.orders = s].cash = a.cash /\ [a EXCEPT !.orders = s].lots = a.lots
           /\ [a EXCEPT !.orders = s].seeded = a.seeded /\ [a EXCEPT !.orders = s].fills = a.fills
           /\ [a EXCEPT !.orders = s].ledger = a.ledger /\ [a EXCEPT !.orders = s].raised = a.raised
  BY DEF Account

\* The sums over an account depend on the parts they range over.
LEMMA SameSums ==
    ASSUME NEW a, NEW b
    PROVE  /\ b.lots = a.lots => /\ PositionExposure(b) = PositionExposure(a)
                                 /\ \A i : Position(b, i) = Position(a, i) /\ CostBasis(b, i) = CostBasis(a, i)
           /\ b.ledger = a.ledger => \A account : Booked(b, account) = Booked(a, account)
           /\ b.fills = a.fills => \A k : FilledBy(b, k) = FilledBy(a, k) /\ SpentBy(b, k) = SpentBy(a, k)
<1>1. ASSUME b.lots = a.lots
      PROVE  \A i : Position(b, i) = Position(a, i) /\ CostBasis(b, i) = CostBasis(a, i)
  BY <1>1 DEF Position, CostBasis
<1>2. ASSUME b.lots = a.lots PROVE PositionExposure(b) = PositionExposure(a)
  BY <1>1, <1>2 DEF PositionExposure, SumOverAll
<1>3. ASSUME b.ledger = a.ledger PROVE \A account : Booked(b, account) = Booked(a, account)
  BY <1>3 DEF Booked
<1>4. ASSUME b.fills = a.fills
      PROVE  \A k : FilledBy(b, k) = FilledBy(a, k) /\ SpentBy(b, k) = SpentBy(a, k)
  BY <1>4 DEF FilledBy, SpentBy
<1> QED  BY <1>1, <1>2, <1>3, <1>4

\* An account whose orders settle keeps the invariant:
LEMMA OrdersSettle ==
    ASSUME NEW R, NEW B, NEW a, AccountOK(R, B, a), NEW s \in Seq(Order(R)),
           DOMAIN s = DOMAIN a.orders, \A k \in DOMAIN s : Settles(a.orders[k], s[k])
    PROVE  AccountOK(R, B, [a EXCEPT !.orders = s])
<1> DEFINE b == [a EXCEPT !.orders = s]
<1>0. a \in Account(R, B)  BY DEF AccountOK
<1>1. /\ b \in Account(R, B) /\ b.orders = s /\ b.cash = a.cash /\ b.lots = a.lots
      /\ b.seeded = a.seeded /\ b.fills = a.fills /\ b.ledger = a.ledger
  BY ONLY <1>0, OrdersReplaced
<1> HIDE DEF b
<1>2. a.orders \in Seq(Order(R)) /\ a.lots \in [Instruments -> Seq(Lot)]  BY <1>0, Fields
<1>3. /\ PositionExposure(b) = PositionExposure(a)
      /\ \A i : Position(b, i) = Position(a, i) /\ CostBasis(b, i) = CostBasis(a, i)
      /\ \A account : Booked(b, account) = Booked(a, account)
      /\ \A k : FilledBy(b, k) = FilledBy(a, k) /\ SpentBy(b, k) = SpentBy(a, k)
  BY <1>1, SameSums
<1>4. ASSUME NEW k \in DOMAIN b.orders PROVE OrderOK(b.orders[k]) /\ AddsUp(b, k)
  <2>1. k \in DOMAIN a.orders /\ Settles(a.orders[k], b.orders[k])  BY <1>1
  <2>2. AddsUp(a, k)  BY <2>1 DEF AccountOK
  <2> QED  BY <1>1, <1>3, <2>1, <2>2 DEF AddsUp, Settles
<1>5. ASSUME NEW f \in Range(b.fills) PROVE Respects(b, f)
  <2>1. Respects(a, f)  BY <1>1 DEF AccountOK
  <2>2. f.order \in DOMAIN b.orders /\ b.orders[f.order].request = a.orders[f.order].request
    BY <1>1, <2>1 DEF Respects, Settles
  <2> QED  BY <2>1, <2>2 DEF Respects
<1>6. Balanced(b)  BY <1>1, <1>3 DEF AccountOK, Balanced
<1>7. Covered(b)
  <2>1. Covered(a)  BY DEF AccountOK
  <2>2. ASSUME NEW i \in Instruments
        PROVE  ReservedQuantity(b, 0, i) <= Position(b, i)
    <3>1. ReservedQuantity(b, 0, i) <= ReservedQuantity(a, 0, i)
      <4>1. \A j \in DOMAIN a.orders : Held(b.orders[j], i) <= Held(a.orders[j], i)
        BY <1>1 DEF Settles
      <4> QED  BY <1>1, <1>2, <4>1, HeldShrinks
    <3>2. /\ ReservedQuantity(b, 0, i) \in Nat /\ ReservedQuantity(a, 0, i) \in Nat
          /\ Position(a, i) \in Nat
      BY <1>1, <1>2, ReservedNat, Exposures
    <3>3. ReservedQuantity(a, 0, i) <= Position(a, i)  BY <2>1 DEF Covered
    <3> QED  BY ONLY <1>3, <3>1, <3>2, <3>3
  <2> QED  BY <1>1, <1>3, <2>1, <2>2 DEF Covered
<1> QED  BY <1>1, <1>4, <1>5, <1>6, <1>7 DEF AccountOK, b

\* nothing need change,
LEMMA SettlesSelf ==
    ASSUME NEW R, NEW o \in Order(R), OrderOK(o) PROVE Settles(o, o)
<1>1. \A i : Held(o, i) <= Held(o, i)
  <2> TAKE i
  <2>1. Held(o, i) \in Nat  BY HeldNat
  <2> QED  BY ONLY <2>1
<1> QED  BY <1>1 DEF Settles

\* or one order may.
LEMMA OrderSettles ==
    ASSUME NEW R, NEW B, NEW a, AccountOK(R, B, a), NEW k \in DOMAIN a.orders,
           NEW p \in Order(R), Settles(a.orders[k], p)
    PROVE  /\ AccountOK(R, B, [a EXCEPT !.orders[k] = p])
           /\ [a EXCEPT !.orders[k] = p] = [a EXCEPT !.orders = [a.orders EXCEPT ![k] = p]]
<1> DEFINE s == [a.orders EXCEPT ![k] = p]
<1>0. a \in Account(R, B) /\ \A j \in DOMAIN a.orders : OrderOK(a.orders[j])  BY DEF AccountOK
<1>1. a.orders \in Seq(Order(R))  BY <1>0, Fields
<1>2. /\ s \in Seq(Order(R)) /\ DOMAIN s = DOMAIN a.orders /\ s[k] = p
      /\ \A j \in DOMAIN a.orders : a.orders[j] \in Order(R) /\ (j # k => s[j] = a.orders[j])
  BY ONLY <1>1
<1>3. [a EXCEPT !.orders[k] = p] = [a EXCEPT !.orders = s]
  BY <1>0 DEF Account
<1> HIDE DEF s
<1>4. ASSUME NEW j \in DOMAIN s PROVE Settles(a.orders[j], s[j])
  BY <1>0, <1>2, SettlesSelf
<1>5. AccountOK(R, B, [a EXCEPT !.orders = s])
  BY <1>2, <1>4, OrdersSettle
<1> QED  BY <1>3, <1>5 DEF s

\* cancel keeps the invariant.
LEMMA CancelKeeps ==
    ASSUME NEW R, NEW B, NEW a, AccountOK(R, B, a), NEW k \in DOMAIN a.orders
    PROVE  AccountOK(R, B, [a EXCEPT !.orders[k] = Close(@, "CANCELLED", "EXPLICITLY_CANCELLED")])
<1> DEFINE o == a.orders[k]
           p == Close(o, "CANCELLED", "EXPLICITLY_CANCELLED")
<1>0. a \in Account(R, B) /\ OrderOK(o)  BY DEF AccountOK
<1>1. o \in Order(R)
  <2>1. a.orders \in Seq(Order(R))  BY <1>0, Fields
  <2> QED  BY ONLY <2>1
<1>2. "EXPLICITLY_CANCELLED" \in Reasons /\ "CANCELLED" \in {"CANCELLED", "EXPIRED"}
  BY DEF Reasons
<1> HIDE DEF o
<1>3. /\ p \in Order(R) /\ OrderOK(p) /\ p.request = o.request /\ p.left = o.left
      /\ p.filled = o.filled /\ p.status = "CANCELLED" /\ \A i : Held(p, i) <= Held(o, i)
  BY ONLY <1>0, <1>1, <1>2, Closed
<1> HIDE DEF p
<1>4. Settles(o, p)  BY <1>3 DEF Settles
<1>5. AccountOK(R, B, [a EXCEPT !.orders[k] = p])  BY <1>3, <1>4, OrderSettles DEF o
<1> QED  BY <1>5 DEF o, p

\* What advance_time makes of an order.
Visited(t, o) == IF IsOpen(o) /\ t >= o.expires THEN Expired(o) ELSE o

\* It settles the order.
LEMMA VisitedSettles ==
    ASSUME NEW R, NEW o \in Order(R), OrderOK(o), NEW t
    PROVE  Visited(t, o) \in Order(R) /\ Settles(o, Visited(t, o))
<1>1. CASE Visited(t, o) = o  BY <1>1, SettlesSelf
<1>2. CASE Visited(t, o) = Expired(o)
  <2>1. o.request.tif \in {"DAY", "GTC", "GTD"}  BY DEF OrderOK, ValidRequest
  <2>2. PICK reason \in Reasons : Expired(o) = Close(o, "EXPIRED", reason)
    <3>1. {"DAY_EXPIRED", "GTC_HORIZON_EXPIRED", "GTD_EXPIRED"} \subseteq Reasons  BY DEF Reasons
    <3>2. CASE o.request.tif = "DAY"  BY <3>1, <3>2 DEF Expired
    <3>3. CASE o.request.tif = "GTC"  BY <3>1, <3>3 DEF Expired
    <3>4. CASE o.request.tif = "GTD"  BY <3>1, <3>4 DEF Expired
    <3> QED  BY <2>1, <3>2, <3>3, <3>4
  <2> DEFINE p == Close(o, "EXPIRED", reason)
  <2>3. "EXPIRED" \in {"CANCELLED", "EXPIRED"}  OBVIOUS
  <2>4. /\ p \in Order(R) /\ OrderOK(p) /\ p.request = o.request /\ p.left = o.left
        /\ p.filled = o.filled /\ p.status = "EXPIRED" /\ \A i : Held(p, i) <= Held(o, i)
    BY <2>3, Closed
  <2> HIDE DEF p
  <2>5. Settles(o, p)  BY <2>4 DEF Settles
  <2> QED  BY <1>2, <2>2, <2>4, <2>5 DEF p
<1> QED  BY <1>1, <1>2 DEF Visited

\* The loop of advance_time as a sequence of turns.
LEMMA ExpireRuns ==
    ASSUME NEW S, NEW a, a.orders \in Seq(S), NEW t
    PROVE  \E run : /\ run[0] = <<>>
                    /\ \A j \in 1..Len(a.orders) :
                          run[j] = Append(run[j - 1], Visited(t, a.orders[j]))
                    /\ Expire(a, t) = [a EXCEPT !.orders = run[Len(a.orders)]]
<1> DEFINE n == Len(a.orders)
           Turn(s, j) == Append(s, Visited(t, a.orders[j]))
           Runs(g, m) == g[0] = <<>> /\ \A j \in 1..m : g[j] = Turn(g[j - 1], j)
           T == {m \in Nat : \E g : Runs(g, m)}
<1>0. n \in Nat  BY SMT
<1> HIDE DEF n, Turn
<1>1. 0 \in T
  <2> DEFINE g == [j \in {0} |-> <<>>]
  <2>1. Runs(g, 0)  BY SMT
  <2> QED  BY <2>1
<1>2. ASSUME NEW m \in Nat, m \in T PROVE m + 1 \in T
  <2>1. PICK g : Runs(g, m)  BY <1>2
  <2> DEFINE h == [j \in 0..(m + 1) |-> IF j = m + 1 THEN Turn(g[m], m + 1) ELSE g[j]]
  <2>2. h[0] = <<>>  BY ONLY <2>1
  <2>3. ASSUME NEW j \in 1..(m + 1) PROVE h[j] = Turn(h[j - 1], j)
    <3>1. j \in 0..(m + 1) /\ j - 1 \in 0..(m + 1) /\ j - 1 # m + 1
      BY SMT
    <3>2. h[j - 1] = g[j - 1]  BY <3>1
    <3>3. CASE j = m + 1  BY ONLY <3>1, <3>2, <3>3
    <3>4. CASE j # m + 1
      <4>1. j \in 1..m  BY ONLY <3>4
      <4> QED  BY <2>1, <3>1, <3>2, <3>4, <4>1
    <3> QED  BY <3>3, <3>4
  <2> HIDE DEF h
  <2> QED  BY ONLY <2>2, <2>3
<1> HIDE DEF T
<1>3. n \in T  BY <1>0, <1>1, <1>2, Induction
<1>4. PICK g : Runs(g, n)  BY <1>3 DEF T
<1> DEFINE F(f) == f = [j \in 0..n |-> IF j = 0 THEN <<>> ELSE Turn(f[j - 1], j)]
           f0 == [j \in 0..n |-> g[j]]
           run == CHOOSE f : F(f)
<1>5. F(f0)
  <2>1. ASSUME NEW j \in 0..n, j # 0 PROVE j \in 1..n /\ j - 1 \in 0..n
    BY ONLY <1>0, <2>1
  <2> QED  BY <1>4, <2>1
<1>6. F(run)
  <2> HIDE DEF F, f0
  <2> QED  BY <1>5
<1>7. Expire(a, t) = [a EXCEPT !.orders = run[n]]
  BY DEF Expire, Loop, n, Turn, Visited
<1> HIDE DEF run
<1>8. Runs(run, n)
  <2>1. ASSUME NEW j \in 1..n PROVE j \in 0..n /\ j # 0
    BY ONLY <1>0
  <2>2. 0 \in 0..n  BY ONLY <1>0
  <2> QED  BY <1>6, <2>1, <2>2
<1> QED  BY <1>7, <1>8 DEF n, Turn

\* advance_time keeps the invariant, and the fills.
LEMMA ExpireKeeps ==
    ASSUME NEW R, NEW B, NEW a, AccountOK(R, B, a), NEW t
    PROVE  /\ AccountOK(R, B, Expire(a, t))
           /\ Expire(a, t).fills = a.fills /\ Expire(a, t).raised = a.raised
           /\ DOMAIN Expire(a, t).orders = DOMAIN a.orders
<1> DEFINE orders == a.orders
           n == Len(orders)
<1>0. a \in Account(R, B) /\ \A j \in DOMAIN orders : OrderOK(orders[j])  BY DEF AccountOK
<1>1. orders \in Seq(Order(R))  BY <1>0, Fields
<1>2. n \in Nat /\ DOMAIN orders = 1..n /\ \A j \in 1..n : orders[j] \in Order(R)  BY ONLY <1>1
<1>3. PICK run : /\ run[0] = <<>>
                 /\ \A j \in 1..n : run[j] = Append(run[j - 1], Visited(t, orders[j]))
                 /\ Expire(a, t) = [a EXCEPT !.orders = run[n]]
  BY <1>1, ExpireRuns
<1>4. \A j \in 1..n : /\ Visited(t, orders[j]) \in Order(R)
                      /\ Settles(orders[j], Visited(t, orders[j]))
  BY <1>0, <1>2, VisitedSettles
<1> HIDE DEF n
<1> DEFINE Holds(j) == /\ run[j] \in Seq(Order(R)) /\ Len(run[j]) = j
                       /\ \A i \in 1..j : run[j][i] = Visited(t, orders[i])
           T == {j \in Nat : j <= n => Holds(j)}
<1>5. 0 \in T
  <2>1. <<>> \in Seq(Order(R)) /\ Len(<<>>) = 0 /\ 1..0 = {}  BY SMT
  <2>2. Holds(0)  BY <1>3, <2>1
  <2> QED  BY <2>2
<1>6. ASSUME NEW m \in Nat, m \in T PROVE m + 1 \in T
  <2> SUFFICES ASSUME m + 1 <= n PROVE Holds(m + 1)
    BY SMT
  <2>1. m <= n /\ m + 1 \in 1..n /\ (m + 1) - 1 = m  BY <1>2, SMT
  <2>2. Holds(m)  BY <1>6, <2>1
  <2> DEFINE s == run[m]
             v == Visited(t, orders[m + 1])
  <2>3. run[m + 1] = Append(s, v)  BY <1>3, <2>1
  <2>4. v \in Order(R)  BY <1>4, <2>1
  <2>5. s \in Seq(Order(R)) /\ Len(s) = m /\ \A i \in 1..m : s[i] = Visited(t, orders[i])
    BY <2>2
  <2> HIDE DEF s, v, Holds
  <2>6. /\ Append(s, v) \in Seq(Order(R)) /\ Len(Append(s, v)) = m + 1
        /\ Append(s, v)[m + 1] = v /\ \A j \in 1..m : Append(s, v)[j] = s[j]
    BY ONLY <2>4, <2>5, Appended
  <2>7. \A i \in 1..(m + 1) : i \in 1..m \/ i = m + 1  BY SMT
  <2>8. \A i \in 1..(m + 1) : Append(s, v)[i] = Visited(t, orders[i])
    BY <2>5, <2>6, <2>7 DEF v
  <2> QED  BY <2>3, <2>6, <2>8 DEF Holds
<1> HIDE DEF T, Holds
<1>7. n \in T  BY <1>2, <1>5, <1>6, Induction
<1>8. Holds(n)  BY ONLY <1>2, <1>7 DEF T
<1> DEFINE s == run[n]
<1>9. s \in Seq(Order(R)) /\ DOMAIN s = 1..n /\ \A i \in 1..n : s[i] = Visited(t, orders[i])
  BY ONLY <1>8 DEF Holds
<1> HIDE DEF s
<1>10. \A k \in DOMAIN s : Settles(a.orders[k], s[k])  BY <1>4, <1>9
<1>11. AccountOK(R, B, [a EXCEPT !.orders = s])  BY <1>2, <1>9, <1>10, OrdersSettle
<1>12. /\ [a EXCEPT !.orders = s].fills = a.fills /\ [a EXCEPT !.orders = s].raised = a.raised
       /\ [a EXCEPT !.orders = s].orders = s
  BY ONLY <1>0, <1>9, OrdersReplaced
<1> QED  BY <1>2, <1>3, <1>9, <1>11, <1>12 DEF s

\* What a bar does to the trigger and the trailing reference of an order settles it and
\* leaves it open.
LEMMA ObserveSettles ==
    ASSUME NEW R, NEW o \in Order(R), OrderOK(o), NEW b, ValidBar(b)
    PROVE  /\ Observe(o, b) \in Order(R) /\ Settles(o, Observe(o, b))
           /\ IsOpen(o) => IsOpen(Observe(o, b))
<1> DEFINE p == Observe(o, b)
           triggered == o.triggered \/ (o.request.type = "STOP_LIMIT"
                                          /\ StopBase(o.request.side, o.request.stop, b) # 0)
           trail == IF o.request.type # "TRAILING_STOP" \/ BasePrice(o, b) # 0 THEN o.trailReference
                    ELSE IF o.request.side = "SELL" THEN Greater(o.trailReference, b.high)
                    ELSE Lesser(o.trailReference, b.low)
<1>1. triggered \in BOOLEAN  OBVIOUS
<1>2. trail \in Nat
  <2>1. o.trailReference \in Nat /\ b.high \in Nat /\ b.low \in Nat  BY DEF Order, ValidBar
  <2> QED  BY <2>1 DEF Greater, Lesser
<1>3. p = [o EXCEPT !.triggered = triggered, !.trailReference = trail]
  BY DEF Observe, Order
<1> HIDE DEF triggered, trail, p
<1>4. p \in Order(R)  BY <1>1, <1>2, <1>3 DEF Order
<1>5. /\ p.request = o.request /\ p.left = o.left /\ p.filled = o.filled /\ p.status = o.status
      /\ p.cash = o.cash /\ p.notional = o.notional /\ p.quantity = o.quantity
  BY <1>3 DEF Order
<1>6. IsOpen(p) = IsOpen(o)  BY <1>5 DEF IsOpen
<1>7. OrderOK(p)  BY <1>5, <1>6 DEF OrderOK
<1>8. \A i : Held(p, i) = Held(o, i)  BY <1>5, <1>6 DEF Held
<1>9. Settles(o, o)  BY SettlesSelf
<1>10. Settles(o, p)  BY <1>5, <1>7, <1>8, <1>9 DEF Settles
<1> QED  BY <1>4, <1>6, <1>10 DEF p

\* An order that reserves no more than is free may be added.
LEMMA OrderAdded ==
    ASSUME NEW R, NEW B, NEW a, AccountOK(R, B, a), NEW o \in Order(R), OrderOK(o),
           o.filled = 0, o.left = o.request.quantity + o.request.notional, o.status # "FILLED",
           \A i \in Instruments : ReservedQuantity(a, 0, i) + Held(o, i) <= Position(a, i)
    PROVE  AccountOK(R, B, [a EXCEPT !.orders = Append(a.orders, o)])
<1> DEFINE s == Append(a.orders, o)
           n == Len(a.orders)
           b == [a EXCEPT !.orders = s]
<1>0. a \in Account(R, B)  BY DEF AccountOK
<1>1. /\ a.orders \in Seq(Order(R)) /\ a.lots \in [Instruments -> Seq(Lot)]
      /\ a.fills \in Seq(Fill(B))
  BY <1>0, Fields
<1>2. /\ s \in Seq(Order(R)) /\ n \in Nat /\ DOMAIN a.orders = 1..n /\ DOMAIN s = 1..(n + 1)
      /\ s[n + 1] = o /\ \A j \in 1..n : s[j] = a.orders[j]
  BY ONLY <1>1, Appended
<1>3. Adds(b.orders, a.orders, o)  BY ONLY <1>0, <1>2, OrdersReplaced DEF Adds
<1> HIDE DEF s, n
<1>4. /\ b \in Account(R, B) /\ b.orders = s /\ b.cash = a.cash /\ b.lots = a.lots
      /\ b.seeded = a.seeded /\ b.fills = a.fills /\ b.ledger = a.ledger
  BY ONLY <1>0, <1>2, OrdersReplaced
<1> HIDE DEF b
<1>5. /\ PositionExposure(b) = PositionExposure(a)
      /\ \A i : Position(b, i) = Position(a, i) /\ CostBasis(b, i) = CostBasis(a, i)
      /\ \A account : Booked(b, account) = Booked(a, account)
      /\ \A k : FilledBy(b, k) = FilledBy(a, k) /\ SpentBy(b, k) = SpentBy(a, k)
  BY <1>4, SameSums
<1>6. \A f \in Range(a.fills) : Respects(a, f) /\ f.order \in 1..n
  BY <1>2 DEF AccountOK, Respects
<1>7. ASSUME NEW k \in DOMAIN b.orders PROVE OrderOK(b.orders[k]) /\ AddsUp(b, k)
  <2>1. CASE k \in 1..n
    <3>1. b.orders[k] = a.orders[k]  BY <1>2, <1>4, <2>1
    <3>2. OrderOK(a.orders[k]) /\ AddsUp(a, k)  BY <1>2, <2>1 DEF AccountOK
    <3> QED  BY <1>4, <1>5, <3>1, <3>2 DEF AddsUp
  <2>2. CASE k = n + 1
    <3>1. b.orders[k] = o  BY <1>2, <1>4, <2>2
    <3>2. \A f \in Range(a.fills) : f.order # k  BY ONLY <1>2, <1>6, <2>2
    <3>3. FilledBy(b, k) = 0 /\ SpentBy(b, k) = 0  BY <1>1, <1>5, <3>2, NotFilled
    <3>4. /\ o.request.quantity \in Nat /\ o.request.notional \in Nat
          /\ o.request.quantity = 0 \/ o.request.notional = 0
      BY DEF OrderOK, ValidRequest, ValidMeasure
    <3> QED  BY <3>1, <3>3, <3>4, SMT DEF AddsUp
  <2> QED  BY ONLY <1>2, <1>4, <2>1, <2>2
<1>8. ASSUME NEW f \in Range(b.fills) PROVE Respects(b, f)
  <2>1. Respects(a, f) /\ f.order \in 1..n  BY <1>4, <1>6
  <2>2. f.order \in DOMAIN b.orders /\ b.orders[f.order] = a.orders[f.order]
    BY ONLY <1>2, <1>4, <2>1
  <2> QED  BY <2>1, <2>2 DEF Respects
<1>9. Balanced(b)  BY <1>4, <1>5 DEF AccountOK, Balanced
<1>10. Covered(b)
  <2>1. Covered(a)  BY DEF AccountOK
  <2>2. ASSUME NEW i \in Instruments PROVE ReservedQuantity(b, 0, i) <= Position(b, i)
    <3>1. ReservedQuantity(b, 0, i) = ReservedQuantity(a, 0, i) + Held(o, i)
      BY ONLY <1>1, <1>3, HeldAppend
    <3> QED  BY <1>5, <3>1
  <2> QED  BY <1>4, <1>5, <2>1, <2>2 DEF Covered
<1> QED  BY <1>4, <1>7, <1>8, <1>9, <1>10 DEF AccountOK, b, s
--------------------------------------------------------------------------------
(* submit *)

HIDE DEF Induction, RoundAtMost, NotFilled, HeldNat, HeldShrinks, HeldAppend, RateOf,
         Rates, CommitmentNat, Closed, OrdersSettle, SettlesSelf, OrderSettles,
         CancelKeeps, VisitedSettles, ExpireRuns, ExpireKeeps, ObserveSettles

\* The order that submit builds,
LEMMA NewOrderIs ==
    ASSUME NEW R, NEW r \in R, ValidRequest(r)
    PROVE  /\ NewOrder(r) \in Order(R)
           /\ NewOrder(r).request = r /\ NewOrder(r).left = r.quantity + r.notional
           /\ NewOrder(r).filled = 0 /\ NewOrder(r).status = "ACCEPTED"
           /\ NewOrder(r).cash = 0 /\ NewOrder(r).notional = 0 /\ NewOrder(r).quantity = 0
<1>1. /\ r.quantity \in Nat /\ r.notional \in Nat /\ r.reference \in Nat
      /\ r.dayExpires \in Nat /\ r.expires \in Nat /\ r.submitted \in Nat
      /\ r.tif \in {"DAY", "GTC", "GTD"}
  BY DEF ValidRequest
<1>2. GtcHorizon \in Nat  BY Constants
<1>3. ExpiryOf(r) \in Nat  BY ONLY <1>1, <1>2 DEF ExpiryOf
<1>4. "NONE" \in Reasons /\ "ACCEPTED" \in Statuses  BY DEF Reasons, Statuses
<1> DEFINE trail == IF r.type = "TRAILING_STOP" THEN r.reference ELSE 0
<1>5. trail \in Nat /\ r.quantity + r.notional \in Nat  BY ONLY <1>1
<1>6. NewOrder(r) =
        [request |-> r, expires |-> ExpiryOf(r), left |-> r.quantity + r.notional, filled |-> 0,
         status |-> "ACCEPTED", reason |-> "NONE", triggered |-> FALSE, trailReference |-> trail,
         cash |-> 0, notional |-> 0, quantity |-> 0]
  BY DEF NewOrder
<1> HIDE DEF trail
<1>7. NewOrder(r) \in Order(R)  BY ONLY <1>3, <1>4, <1>5, <1>6 DEF Order
<1> QED  BY ONLY <1>6, <1>7

\* when it is rejected,
LEMMA Rejected ==
    ASSUME NEW R, NEW r \in R, ValidRequest(r), NEW reason \in Reasons
    PROVE  LET o == Reject(NewOrder(r), reason)
           IN  /\ o \in Order(R) /\ OrderOK(o) /\ o.filled = 0
               /\ o.left = o.request.quantity + o.request.notional /\ o.status # "FILLED"
               /\ \A i : Held(o, i) = 0
<1> DEFINE p == NewOrder(r)
           o == Reject(p, reason)
<1>1. /\ p \in Order(R) /\ p.request = r /\ p.left = r.quantity + r.notional /\ p.filled = 0
      /\ p.cash = 0 /\ p.notional = 0 /\ p.quantity = 0
  BY NewOrderIs
<1> HIDE DEF p
<1>2. "REJECTED" \in Statuses  BY DEF Statuses
<1>3. o \in Order(R)  BY <1>1, <1>2 DEF Order, Reject
<1>4. /\ o.request = r /\ o.left = r.quantity + r.notional /\ o.filled = 0
      /\ o.status = "REJECTED" /\ o.cash = 0 /\ o.notional = 0 /\ o.quantity = 0
  BY <1>1 DEF Order, Reject
<1> HIDE DEF o
<1>5. ~IsOpen(o)  BY <1>4 DEF IsOpen
<1>6. OrderOK(o)  BY <1>4, <1>5 DEF OrderOK
<1>7. \A i : Held(o, i) = 0  BY <1>5 DEF Held
<1> QED  BY <1>3, <1>4, <1>6, <1>7 DEF o, p

\* A quantity without a fraction is whole shares.
LEMMA WholeMultiple ==
    ASSUME NEW q \in Nat, q % Share = 0 PROVE Multiple(q)
<1>1. Share \in Nat \ {0}  BY Constants
<1> DEFINE m == q \div Share
<1>2. m \in Int /\ q = Share * m + (q % Share)  BY ONLY <1>1, DivMod
<1> HIDE DEF m
<1>3. q = Share * m  BY <1>1, <1>2, SMT
<1>4. m \in Nat
  <2>1. SUFFICES ASSUME m <= -1 PROVE FALSE  BY <1>2, SMT
  <2>2. Share * m <= Share * (-1)  BY ONLY <1>1, <1>2, <2>1, Scaling
  <2> QED  BY ONLY <1>1, <1>3, <2>2
<1>5. m <= q
  <2>1. m * 1 <= m * Share  BY ONLY <1>1, <1>4, Scaling
  <2> QED  BY ONLY <1>1, <1>3, <1>4, <2>1
<1>6. m \in 0..q  BY ONLY <1>4, <1>5
<1> QED  BY <1>3, <1>6 DEF Multiple

\* and when it is accepted and reserves.
LEMMA Accepted ==
    ASSUME NEW R, NEW r \in R, ValidRequest(r), EligibilityReason(r) = "NONE"
    PROVE  LET o == Refresh(NewOrder(r))
           IN  /\ o \in Order(R) /\ OrderOK(o) /\ o.filled = 0
               /\ o.left = o.request.quantity + o.request.notional /\ o.status # "FILLED"
               /\ \A i : Held(o, i) = IF r.instrument = i /\ r.side = "SELL"
                                      THEN r.quantity + r.notional ELSE 0
<1> DEFINE p == NewOrder(r)
           o == Refresh(p)
<1>1. /\ p \in Order(R) /\ p.request = r /\ p.left = r.quantity + r.notional /\ p.filled = 0
      /\ p.status = "ACCEPTED"
  BY NewOrderIs
<1> HIDE DEF p
<1>2. /\ o \in Order(R) /\ o.request = r /\ o.left = r.quantity + r.notional /\ o.filled = 0
      /\ o.status = "ACCEPTED" /\ (r.side = "SELL" => o.quantity = r.quantity + r.notional)
  BY <1>1, Refreshed
<1> HIDE DEF o
<1>3. IsOpen(o)  BY <1>2 DEF IsOpen
<1>4. r.quantity \in Nat /\ r.notional \in Nat  BY DEF ValidRequest
<1>5. ASSUME r.mode = "WHOLE_SHARES" PROVE Multiple(o.left) /\ Multiple(o.filled)
  <2>1. r.notional = 0
    <3>1. (r.mode = "NOTIONAL_AMOUNT") = (r.notional > 0)  BY DEF ValidRequest, ValidMeasure
    <3> QED  BY ONLY <1>4, <1>5, <3>1
  <2>2. r.quantity % Share = 0  BY <1>5 DEF EligibilityReason
  <2>3. Multiple(r.quantity)  BY <1>4, <2>2, WholeMultiple
  <2>4. Multiple(0)
    <3>1. 0 = Share * 0 /\ 0 \in 0..0  BY ONLY Constants
    <3> QED  BY <3>1 DEF Multiple
  <2>5. o.left = r.quantity  BY ONLY <1>2, <1>4, <2>1
  <2> QED  BY <1>2, <2>3, <2>4, <2>5
<1>6. OrderOK(o)  BY <1>2, <1>3, <1>5 DEF OrderOK
<1>7. \A i : Held(o, i) = IF r.instrument = i /\ r.side = "SELL" THEN r.quantity + r.notional ELSE 0
  BY <1>2, <1>3 DEF Held
<1> QED  BY <1>2, <1>6, <1>7 DEF o, p

\* An account with one more order, and with its k-th order replaced.
WithOrder(a, o) == [a EXCEPT !.orders = Append(a.orders, o)]
Amend(a, k, o) == [a EXCEPT !.orders[k] = o]

\* Replacing the order just added is adding the replacement.
LEMMA Amended ==
    ASSUME NEW R, NEW B, NEW a \in Account(R, B), NEW p \in Order(R), NEW o \in Order(R)
    PROVE  Amend(WithOrder(a, p), Len(a.orders) + 1, o) = WithOrder(a, o)
<1> DEFINE k == Len(a.orders) + 1
           s == Append(a.orders, p)
           c == [a EXCEPT !.orders = s]
<1>1. a.orders \in Seq(Order(R))  BY Fields
<1>2. s \in Seq(Order(R))  BY ONLY <1>1
<1>3. [s EXCEPT ![k] = o] = Append(a.orders, o)
  <2> DEFINE u == [s EXCEPT ![k] = o]
             w == Append(a.orders, o)
  <2>1. Len(a.orders) \in Nat /\ k \in Nat  BY ONLY <1>1
  <2>2. /\ DOMAIN s = 1..k /\ s = [j \in DOMAIN s |-> s[j]]
        /\ DOMAIN w = 1..k /\ w = [j \in DOMAIN w |-> w[j]]
        /\ w[k] = o /\ \A j \in 1..Len(a.orders) : s[j] = a.orders[j] /\ w[j] = a.orders[j]
    <3>1. /\ s \in Seq(Order(R)) /\ Len(s) = k /\ w \in Seq(Order(R)) /\ Len(w) = k  BY ONLY <1>1
    <3>2. w[k] = o /\ \A j \in 1..Len(a.orders) : s[j] = a.orders[j] /\ w[j] = a.orders[j]
      BY ONLY <1>1, Appended
    <3> HIDE DEF s, w
    <3> QED  BY ONLY <3>1, <3>2
  <2>3. \A j \in 1..k : j = k \/ j \in 1..Len(a.orders)  BY ONLY <2>1
  <2> HIDE DEF s, w, k
  <2>4. u = [j \in 1..k |-> IF j = k THEN o ELSE s[j]]  BY <2>2
  <2>5. \A j \in 1..k : w[j] = IF j = k THEN o ELSE s[j]
    <3>1. \A j \in 1..Len(a.orders) : w[j] = s[j]  BY <2>2
    <3> QED  BY <2>2, <2>3, <3>1
  <2>6. w = [j \in 1..k |-> IF j = k THEN o ELSE s[j]]
    <3>1. w = [j \in 1..k |-> w[j]]  BY <2>2
    <3> QED  BY <2>5, <3>1
  <2>7. u = w  BY <2>4, <2>6
  <2> QED  BY <2>7 DEF w
<1> HIDE DEF s
<1>4. c.orders = s  BY ONLY <1>2, OrdersReplaced
<1>5. [c EXCEPT !.orders[k] = o] = [a EXCEPT !.orders = [s EXCEPT ![k] = o]]
  BY <1>4 DEF Account
<1> QED  BY <1>3, <1>5 DEF s, Amend, WithOrder

\* The reasons of _reserve_or_reject,
LEMMA RefusalIs ==
    ASSUME NEW a, NEW k, EligibilityReason(a.orders[k].request) = "NONE"
    PROVE  Refusal(a, k) \in Reasons
  BY DEF Refusal, Reasons

\* and of the eligibility rules.
LEMMA EligibilityIs == ASSUME NEW r PROVE EligibilityReason(r) \in Reasons
  BY DEF EligibilityReason, Reasons

\* submit keeps the invariant, whether it accepts, rejects or refuses: an accepted sell
\* reserves no more than is free.
LEMMA SubmittedKeeps ==
    ASSUME NEW R, NEW B, NEW a, AccountOK(R, B, a), NEW r \in R, ValidRequest(r)
    PROVE  /\ AccountOK(R, B, Submitted(a, r))
           /\ Submitted(a, r).fills = a.fills /\ Submitted(a, r).raised = a.raised
<1> DEFINE p == NewOrder(r)
           k == Len(a.orders) + 1
           c == WithOrder(a, p)
<1>0. a \in Account(R, B) /\ Covered(a)  BY DEF AccountOK
<1>1. a.orders \in Seq(Order(R)) /\ a.lots \in [Instruments -> Seq(Lot)]  BY <1>0, Fields
<1>2. /\ p \in Order(R) /\ p.request = r /\ p.left = r.quantity + r.notional
  BY NewOrderIs
<1> HIDE DEF p
<1>3. ASSUME NEW o \in Order(R) PROVE Amend(c, k, o) = WithOrder(a, o)
  BY <1>0, <1>2, <1>3, Amended
<1>4. \A i \in Instruments : /\ ReservedQuantity(a, 0, i) \in Nat /\ Position(a, i) \in Nat
                             /\ ReservedQuantity(a, 0, i) <= Position(a, i)
  BY <1>0, <1>1, ReservedNat, Exposures DEF Covered
<1>5. /\ c.orders = Append(a.orders, p) /\ c.lots = a.lots
      /\ Append(a.orders, p) \in Seq(Order(R)) /\ Append(a.orders, p)[k] = p
  <2>1. Append(a.orders, p) \in Seq(Order(R)) /\ Append(a.orders, p)[k] = p  BY ONLY <1>1, <1>2
  <2> QED  BY ONLY <1>0, <2>1, OrdersReplaced DEF WithOrder
<1>6. ASSUME NEW o \in Order(R), OrderOK(o), o.filled = 0,
             o.left = o.request.quantity + o.request.notional, o.status # "FILLED",
             \A i \in Instruments : ReservedQuantity(a, 0, i) + Held(o, i) <= Position(a, i),
             Submitted(a, r) = Amend(c, k, o)
      PROVE  /\ AccountOK(R, B, Submitted(a, r))
             /\ Submitted(a, r).fills = a.fills /\ Submitted(a, r).raised = a.raised
  <2>1. Submitted(a, r) = WithOrder(a, o)  BY <1>3, <1>6
  <2>2. AccountOK(R, B, WithOrder(a, o))  BY <1>6, OrderAdded DEF WithOrder
  <2>3. Append(a.orders, o) \in Seq(Order(R))  BY ONLY <1>1, <1>6
  <2>4. /\ WithOrder(a, o).fills = a.fills
        /\ WithOrder(a, o).raised = a.raised
    BY ONLY <1>0, <2>3, OrdersReplaced DEF WithOrder
  <2> QED  BY <2>1, <2>2, <2>4
<1>7. ASSUME NEW reason \in Reasons, Submitted(a, r) = Amend(c, k, Reject(p, reason))
      PROVE  /\ AccountOK(R, B, Submitted(a, r))
             /\ Submitted(a, r).fills = a.fills /\ Submitted(a, r).raised = a.raised
  <2> DEFINE o == Reject(p, reason)
  <2>1. /\ o \in Order(R) /\ OrderOK(o) /\ o.filled = 0
        /\ o.left = o.request.quantity + o.request.notional /\ o.status # "FILLED"
        /\ \A i : Held(o, i) = 0
    BY Rejected DEF p
  <2> HIDE DEF o
  <2>2. \A i \in Instruments : ReservedQuantity(a, 0, i) + Held(o, i) <= Position(a, i)
    BY ONLY <1>4, <2>1
  <2>3. Submitted(a, r) = Amend(c, k, o)  BY <1>7 DEF o
  <2> HIDE DEF c
  <2> QED  BY <1>6, <2>1, <2>2, <2>3
<1> DEFINE late == ExpiryOf(r) > r.submitted + MaxOrderHorizon
<1>8. Submitted(a, r) =
        IF EligibilityReason(r) # "NONE" THEN Amend(c, k, Reject(c.orders[k], EligibilityReason(r)))
        ELSE IF late THEN Amend(c, k, Reject(c.orders[k], "ORDER_HORIZON_EXCEEDED"))
        ELSE ReserveOrReject(c, k)
  BY DEF Submitted, Amend, WithOrder, p
<1>9. c.orders[k] = p  BY <1>5
<1>10. ReserveOrReject(c, k) =
         Amend(c, k, IF Refusal(c, k) = "NONE" THEN Refresh(p) ELSE Reject(p, Refusal(c, k)))
  <2> HIDE DEF c, k
  <2> QED  BY <1>9 DEF ReserveOrReject, Amend
<1> HIDE DEF late
<1>11. CASE EligibilityReason(r) # "NONE"
  <2>1. Submitted(a, r) = Amend(c, k, Reject(p, EligibilityReason(r)))
    BY <1>8, <1>9, <1>11
  <2> HIDE DEF c
  <2> QED  BY <1>7, <2>1, EligibilityIs
<1>12. CASE EligibilityReason(r) = "NONE" /\ late
  <2>1. Submitted(a, r) = Amend(c, k, Reject(p, "ORDER_HORIZON_EXCEEDED"))
    BY <1>8, <1>9, <1>12
  <2>2. "ORDER_HORIZON_EXCEEDED" \in Reasons  BY DEF Reasons
  <2> HIDE DEF c
  <2> QED  BY <1>7, <2>1, <2>2
<1>13. CASE EligibilityReason(r) = "NONE" /\ ~late /\ Refusal(c, k) # "NONE"
  <2>1. Submitted(a, r) = Amend(c, k, Reject(p, Refusal(c, k)))
    BY <1>8, <1>10, <1>13
  <2>2. Refusal(c, k) \in Reasons
    <3> HIDE DEF c
    <3> QED  BY <1>2, <1>9, <1>13, RefusalIs
  <2> HIDE DEF c
  <2> QED  BY <1>7, <2>1, <2>2
<1>14. CASE EligibilityReason(r) = "NONE" /\ ~late /\ Refusal(c, k) = "NONE"
  <2> DEFINE o == Refresh(p)
  <2>1. Submitted(a, r) = Amend(c, k, o)
    BY <1>8, <1>10, <1>14
  <2>2. /\ o \in Order(R) /\ OrderOK(o) /\ o.filled = 0
        /\ o.left = o.request.quantity + o.request.notional /\ o.status # "FILLED"
        /\ \A i : Held(o, i) = IF r.instrument = i /\ r.side = "SELL"
                               THEN r.quantity + r.notional ELSE 0
    BY <1>14, Accepted DEF p
  <2> HIDE DEF o
  <2>3. ASSUME NEW i \in Instruments
        PROVE  ReservedQuantity(a, 0, i) + Held(o, i) <= Position(a, i)
    <3>1. CASE ~(r.instrument = i /\ r.side = "SELL")
      BY ONLY <1>4, <2>2, <3>1
    <3>2. CASE r.instrument = i /\ r.side = "SELL"
      <4>1. ReservedQuantity(c, k, i) = ReservedQuantity(a, 0, i)
        <5>1. Adds(c.orders, a.orders, p)  BY <1>5 DEF Adds
        <5> HIDE DEF c
        <5> QED  BY <1>1, <1>2, <5>1, OthersHeld
      <4>2. Position(c, i) = Position(a, i)  BY <1>5, SameSums
      <4> HIDE DEF c
      <4>3. ~(Position(c, i) - ReservedQuantity(c, k, i) < p.left)
        BY <1>2, <1>9, <1>14, <3>2 DEF Refusal
      <4>4. r.quantity \in Nat /\ r.notional \in Nat  BY DEF ValidRequest
      <4> QED  BY ONLY <1>2, <1>4, <2>2, <3>2, <4>1, <4>2, <4>3, <4>4
    <3> QED  BY <3>1, <3>2
  <2> HIDE DEF c
  <2> QED  BY <1>6, <2>1, <2>2, <2>3
<1> QED  BY <1>11, <1>12, <1>13, <1>14
--------------------------------------------------------------------------------
(* seed_long_position *)

HIDE DEF DivMod, Appended, OthersHeld, Refreshed, OrdersReplaced, SameSums, OrderAdded,
         NewOrderIs, Rejected, WholeMultiple, Accepted, Amended, RefusalIs,
         EligibilityIs, SubmittedKeeps

\* An account with one more lot.
Seeded(a, i, q, basis) ==
    [a EXCEPT !.lots[i] = Append(@, [quantity |-> q, basis |-> basis]), !.seeded = @ + basis]

\* A lot seeded before any order keeps the invariant:
LEMMA SeedKeeps ==
    ASSUME NEW R, NEW B, NEW a, AccountOK(R, B, a), a.orders = <<>>, a.fills = <<>>,
           NEW i \in Instruments, NEW q \in Nat, NEW basis \in Nat
    PROVE  AccountOK(R, B, Seeded(a, i, q, basis)) /\ Seeded(a, i, q, basis).fills = a.fills
<1> DEFINE l == [quantity |-> q, basis |-> basis]
           s == Append(a.lots[i], l)
           c == [a EXCEPT !.lots[i] = Append(@, l), !.seeded = @ + basis]
<1>1. a \in Account(R, B) /\ Balanced(a) /\ Covered(a)  BY DEF AccountOK
<1>2. /\ a.cash \in Int /\ a.lots \in [Instruments -> Seq(Lot)] /\ a.seeded \in Nat
      /\ a.orders \in Seq(Order(R)) /\ a.fills \in Seq(Fill(B))
      /\ a.ledger \in Seq(Seq(Posting)) /\ a.raised \in BOOLEAN
  BY <1>1, Fields
<1>3. l \in Lot /\ a.lots[i] \in Seq(Lot)  BY <1>2 DEF Lot
<1>4. l.quantity = q /\ l.basis = basis  OBVIOUS
<1> HIDE DEF l
<1>5. s \in Seq(Lot)  BY ONLY <1>3
<1>6. /\ Quantities(s) = Quantities(a.lots[i]) + q /\ Bases(s) = Bases(a.lots[i]) + basis
      /\ Position(a, i) = Quantities(a.lots[i]) /\ CostBasis(a, i) = Bases(a.lots[i])
  BY <1>3, <1>4, LotSumsAppend, LotSums
<1>7. c = [a EXCEPT !.lots = [a.lots EXCEPT ![i] = s], !.seeded = a.seeded + basis]
  BY <1>1 DEF Account
<1> HIDE DEF s, c
<1>8. /\ c.cash = a.cash /\ c.lots = [a.lots EXCEPT ![i] = s] /\ c.seeded = a.seeded + basis
      /\ c.orders = a.orders /\ c.fills = a.fills /\ c.ledger = a.ledger /\ c.raised = a.raised
  BY <1>1, <1>7 DEF Account
<1>9. /\ c.lots \in [Instruments -> Seq(Lot)]
      /\ PositionExposure(c) = PositionExposure(a) - CostBasis(a, i) + Bases(s)
      /\ CostBasis(c, i) = Bases(s) /\ Position(c, i) = Quantities(s)
      /\ \A j \in Instruments : j # i => /\ CostBasis(c, j) = CostBasis(a, j)
                                         /\ Position(c, j) = Position(a, j)
  <2>1. a.lots \in [Instruments -> Seq(Lot)]  BY <1>2
  <2>2. Replaces(c.lots, a.lots, i, s)  BY <1>8 DEF Replaces
  <2>3. i \in Instruments /\ s \in Seq(Lot)  BY <1>5
  <2> QED  BY <2>1, <2>2, <2>3, ExposureChange, ZenonT(30)
<1>10. c \in Account(R, B)
  <2>1. [a.lots EXCEPT ![i] = s] \in [Instruments -> Seq(Lot)] /\ a.seeded + basis \in Nat
    BY ONLY <1>2, <1>8, <1>9
  <2> QED  BY <1>1, <1>7, <2>1 DEF Account
<1>11. /\ PositionExposure(a) \in Nat
       /\ \A j \in Instruments : Position(a, j) \in Nat /\ CostBasis(a, j) \in Nat
  BY <1>2, Exposures
<1>12. /\ PositionExposure(c) \in Nat
       /\ \A j \in Instruments : /\ Position(c, j) \in Nat /\ CostBasis(c, j) \in Nat
                                 /\ CostBasis(c, j) <= PositionExposure(c)
  BY <1>9, Exposures
<1>13. PositionExposure(a) = a.seeded /\ a.ledger = <<>>
  <2>1. a.ledger = <<>>  BY <1>1 DEF Balanced
  <2>2. Booked(a, "SECURITY") = 0  BY <2>1, BookedNothing
  <2> QED  BY ONLY <1>1, <1>2, <2>1, <2>2 DEF Balanced
<1>14. PositionExposure(c) = c.seeded  BY ONLY <1>6, <1>8, <1>9, <1>11, <1>13
<1>15. Booked(c, "CASH") = 0 /\ Booked(c, "SECURITY") = 0 /\ Booked(a, "CASH") = 0
  BY <1>8, <1>13, BookedNothing
<1>16. Balanced(c)
  BY ONLY <1>1, <1>8, <1>12, <1>13, <1>14, <1>15 DEF Balanced
<1>17. \A j \in Instruments : ReservedQuantity(c, 0, j) <= Position(c, j)
  <2>1. \A j \in Instruments : ReservedQuantity(c, 0, j) = ReservedQuantity(a, 0, j)
    BY <1>8 DEF ReservedQuantity, Reserved
  <2>2. \A j \in Instruments : ReservedQuantity(a, 0, j) <= Position(a, j)  BY <1>1 DEF Covered
  <2>3. \A j \in Instruments : ReservedQuantity(a, 0, j) \in Nat  BY <1>2, ReservedNat
  <2>4. ASSUME NEW j \in Instruments PROVE Position(a, j) <= Position(c, j)
    <3>1. Position(a, j) \in Nat  BY <1>11
    <3>2. CASE j = i
      <4>1. Position(c, j) = Position(a, j) + q  BY <1>6, <1>9, <3>2
      <4> QED  BY ONLY <3>1, <4>1
    <3>3. CASE j # i
      <4>1. Position(c, j) = Position(a, j)  BY <1>9, <3>3
      <4> QED  BY ONLY <3>1, <4>1
    <3> QED  BY <3>2, <3>3
  <2> QED  BY ONLY <1>11, <1>12, <2>1, <2>2, <2>3, <2>4
<1>18. \A m : m \in Nat => c.seeded <= Greater(m, c.seeded)
  BY ONLY <1>12, <1>14 DEF Greater
<1>19. Lesser(MaxStrategyNotional, MaxGrossExposure) \in Nat /\ MaxInstrumentExposure \in Nat
  BY Constants DEF Lesser
<1>20. /\ \A j \in Instruments : CostBasis(c, j) <= Greater(MaxInstrumentExposure, c.seeded)
       /\ PositionExposure(c) <= Greater(Lesser(MaxStrategyNotional, MaxGrossExposure), c.seeded)
  <2>1. c.seeded <= Greater(MaxInstrumentExposure, c.seeded)  BY <1>18, <1>19
  <2>2. c.seeded <= Greater(Lesser(MaxStrategyNotional, MaxGrossExposure), c.seeded)
    BY <1>18, <1>19
  <2>3. Greater(MaxInstrumentExposure, c.seeded) \in Nat  BY <1>12, <1>14, <1>19 DEF Greater
  <2> QED  BY ONLY <1>12, <1>14, <2>1, <2>2, <2>3
<1>21. c.cash >= 0 \/ \E f \in Range(c.fills) : 0 < 2 * Share * c.cash + f.quantity + 3 * Share
  BY <1>1, <1>8 DEF Covered
<1>22. Covered(c)  BY <1>17, <1>20, <1>21 DEF Covered
<1>23. DOMAIN c.orders = {}  BY <1>8, SMT
<1>24. Range(c.fills) = {}
  <2>1. DOMAIN c.fills = {}  BY <1>8, SMT
  <2> QED  BY <2>1 DEF Range
<1>25. AccountOK(R, B, c)
  BY <1>10, <1>16, <1>22, <1>23, <1>24 DEF AccountOK
<1> QED  BY <1>8, <1>25 DEF c, l, Seeded

\* seed_long_position does.
LEMMA SeedsKeep ==
    ASSUME IInv, NEW seed \in Seeds, SeedLongPosition(seed.instrument, seed.quantity, seed.unitCost)
    PROVE  IInv' /\ acct'.fills = acct.fills
<1> DEFINE i == seed.instrument
           q == QuantizeQuantity(seed.quantity, i \in Fractional)
           basis == RoundHalfEven(q * seed.unitCost, Share)
<1>1. i \in Instruments /\ seed.quantity \in Nat /\ seed.unitCost \in Nat
  BY ExecutionAssumption DEF ValidSeed
<1>2. Share \in Nat \ {0}  BY Constants
<1>3. RoundHalfEven(seed.quantity, Share) \in Nat  BY <1>1, <1>2, RoundNat
<1>4. Share * RoundHalfEven(seed.quantity, Share) \in Nat  BY ONLY <1>2, <1>3, Scaling
<1>5. q \in Nat  BY <1>1, <1>4 DEF QuantizeQuantity
<1> HIDE DEF q
<1>6. q * seed.unitCost \in Nat  BY ONLY <1>1, <1>5
<1>7. basis \in Nat  BY <1>2, <1>6, RoundNat
<1>8. /\ acct.orders = <<>> /\ acct.fills = <<>> /\ ~acct.raised
      /\ acct' = Seeded(acct, i, q, basis)
  BY DEF SeedLongPosition, Seeded, q
<1> HIDE DEF i, basis
<1>9. AccountOK(Requests, Bars, acct)  BY <1>8 DEF IInv, Standing
<1>10. AccountOK(Requests, Bars, acct') /\ acct'.fills = acct.fills
  BY ONLY <1>1, <1>5, <1>7, <1>8, <1>9, SeedKeeps
<1>11. Standing(Requests, Bars, acct')  BY <1>10, OKStands
<1> QED  BY <1>10, <1>11 DEF IInv
================================================================================
