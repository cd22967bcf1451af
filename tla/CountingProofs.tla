--------------------------- MODULE CountingProofs ---------------------------
(***************************************************************************)
(* What the other proofs need of numbers, finite sets and sums: that a set *)
(* of numbers has a least one, that smaller subsets may be considered      *)
(* first, and that a sum does not depend on the order it is taken in.      *)
(***************************************************************************)
EXTENDS Integers, FiniteSetTheorems, WellFoundedInduction, TLAPS

\* Numbers in their order.
Below == {ss \in Nat \X Nat : ss[1] < ss[2]}

\* A set of numbers that has an element has a least one.
LEMMA LeastNumber ==
    ASSUME NEW T \in SUBSET Nat, T # {}
    PROVE  \E m \in T : \A k \in T : m <= k
<1>1. IsWellFoundedOn(Below, Nat)
  BY NatLessThanWellFounded DEF OpToRel, Below
<1>2. PICK m \in T : \A k \in T : ~ <<k, m>> \in Below
  BY <1>1, WFMin
<1>3. ASSUME NEW k \in T
      PROVE  m <= k
  <2>1. k \in Nat /\ m \in Nat /\ ~(k < m)
    BY <1>2 DEF Below
  <2> QED
    BY <2>1
<1> QED
  BY <1>3

\* What holds of a subset of a finite set as soon as it holds of the smaller
\* ones holds of every subset.
LEMMA SmallerFirst ==
    ASSUME NEW U, IsFiniteSet(U), NEW Good,
           \A T \in SUBSET U : (\A s \in SUBSET T : s # T => s \in Good) => T \in Good
    PROVE  \A T \in SUBSET U : T \in Good
<1> DEFINE Bad == {T \in SUBSET U : T \notin Good}
           Sizes == {Cardinality(T) : T \in Bad}
<1>1. \A T \in SUBSET U : IsFiniteSet(T) /\ Cardinality(T) \in Nat
  BY FS_Subset, FS_CardinalityType
<1> SUFFICES ASSUME Bad # {}
             PROVE  FALSE
  OBVIOUS
<1>2. Sizes \in SUBSET Nat /\ Sizes # {}
  BY <1>1
<1> HIDE DEF Sizes
<1>3. PICK m \in Sizes : \A k \in Sizes : m <= k
  BY <1>2, LeastNumber
<1>4. PICK T \in Bad : m = Cardinality(T)
  BY DEF Sizes
<1>5. ASSUME NEW s \in SUBSET T, s # T
      PROVE  s \in Good
  <2>1. Cardinality(s) < Cardinality(T)
    BY <1>1, <1>5, FS_Subset
  <2>2. s \in Bad => Cardinality(s) \in Sizes
    BY DEF Sizes
  <2>3. s \notin Bad
    BY <1>1, <1>3, <1>4, <2>1, <2>2
  <2> QED
    BY <2>3
<1> QED
  BY <1>5

-----------------------------------------------------------------------------
(* Sums                                                                     *)

Some(S) == CHOOSE x \in S : TRUE

\* g sums f over each subset of S, one element after the other.
Unfolds(f, g, S) ==
    g = [s \in SUBSET S |-> IF s = {} THEN 0 ELSE f[Some(s)] + g[s \ {Some(s)}]]

\* The sum of f over S.
Total(f, S) == (CHOOSE g : Unfolds(f, g, S))[S]

\* Where two functions agree their sums do, whatever they are part of.
LEMMA SumsAgree ==
    ASSUME NEW f, NEW e, NEW g, NEW h, NEW S, NEW R, IsFiniteSet(S),
           Unfolds(f, g, S), Unfolds(e, h, R),
           NEW T \in SUBSET (S \cap R), \A x \in T : f[x] = e[x]
    PROVE  g[T] = h[T]
<1> DEFINE U == S \cap R
           Good == {s \in SUBSET U : (\A x \in s : f[x] = e[x]) => g[s] = h[s]}
<1>1. IsFiniteSet(U)
  BY FS_Subset
<1>2. ASSUME NEW s \in SUBSET U, \A r \in SUBSET s : r # s => r \in Good
      PROVE  s \in Good
  <2> SUFFICES ASSUME \A x \in s : f[x] = e[x]
               PROVE  g[s] = h[s]
    OBVIOUS
  <2>1. /\ g[s] = IF s = {} THEN 0 ELSE f[Some(s)] + g[s \ {Some(s)}]
        /\ h[s] = IF s = {} THEN 0 ELSE e[Some(s)] + h[s \ {Some(s)}]
    BY DEF Unfolds
  <2>2. CASE s # {}
    <3>1. Some(s) \in s
      BY <2>2 DEF Some
    <3>2. s \ {Some(s)} \in Good
      BY <1>2, <3>1
    <3> QED
      BY <2>1, <2>2, <3>1, <3>2
  <2> QED
    BY <2>1, <2>2
<1> HIDE DEF Good, U
<1>3. \A s \in SUBSET U : s \in Good
  BY <1>1, <1>2, SmallerFirst
<1> QED
  BY <1>3 DEF Good, U

\* A finite set can be summed over.
LEMMA SumExists ==
    ASSUME NEW f, NEW U, IsFiniteSet(U)
    PROVE  \E g : Unfolds(f, g, U)
<1> DEFINE Good == {T \in SUBSET U : \E g : Unfolds(f, g, T)}
           Of(s) == CHOOSE g : Unfolds(f, g, s)
<1>1. ASSUME NEW T \in SUBSET U, \A s \in SUBSET T : s # T => s \in Good
      PROVE  T \in Good
  <2> DEFINE rest == T \ {Some(T)}
             G == [s \in SUBSET T |-> IF s # T THEN Of(s)[s]
                                      ELSE IF T = {} THEN 0 ELSE f[Some(T)] + Of(rest)[rest]]
  <2>1. ASSUME NEW s \in SUBSET T, s # T
        PROVE  Unfolds(f, Of(s), s) /\ IsFiniteSet(s)
    BY <1>1, <2>1, FS_Subset
  <2>2. ASSUME NEW s \in SUBSET T
        PROVE  G[s] = IF s = {} THEN 0 ELSE f[Some(s)] + G[s \ {Some(s)}]
    <3> DEFINE r == s \ {Some(s)}
    <3>1. s # {} => Some(s) \in s /\ r \in SUBSET T /\ r # T /\ r # s
      BY DEF Some
    <3>2. CASE s = T
      BY <3>1, <3>2
    <3>3. CASE s # T
      <4>1. G[s] = Of(s)[s]
        BY <3>3
      <4>2. Of(s)[s] = IF s = {} THEN 0 ELSE f[Some(s)] + Of(s)[r]
        <5>1. Unfolds(f, Of(s), s)
          BY <2>1, <3>3
        <5> HIDE DEF Of
        <5> QED
          BY <5>1 DEF Unfolds
      <4>3. s # {} => Of(s)[r] = Of(r)[r]
        <5> HIDE DEF Of, r
        <5>1. s # {} => r \in SUBSET (s \cap r)
          BY <3>1 DEF r
        <5> QED
          BY <2>1, <3>1, <3>3, <5>1, SumsAgree
      <4>4. s # {} => G[r] = Of(r)[r]
        BY <3>1
      <4> QED
        BY <4>1, <4>2, <4>3, <4>4
    <3> QED
      BY <3>2, <3>3
  <2> HIDE DEF G
  <2>3. G = [s \in SUBSET T |-> G[s]]
    BY DEF G
  <2>4. Unfolds(f, G, T)
    BY <2>2, <2>3 DEF Unfolds
  <2> QED
    BY <2>4
<1> HIDE DEF Good
<1>2. \A T \in SUBSET U : T \in Good
  BY <1>1, SmallerFirst
<1> QED
  BY <1>2 DEF Good

\* The sum over a finite set takes some element first.
LEMMA TotalUnfolds ==
    ASSUME NEW f, NEW S, IsFiniteSet(S)
    PROVE  Total(f, S) = IF S = {} THEN 0 ELSE f[Some(S)] + Total(f, S \ {Some(S)})
<1> DEFINE g == CHOOSE g : Unfolds(f, g, S)
           r == S \ {Some(S)}
           h == CHOOSE h : Unfolds(f, h, r)
<1>1. Unfolds(f, g, S)
  BY SumExists
<1>2. g[S] = IF S = {} THEN 0 ELSE f[Some(S)] + g[r]
  BY <1>1 DEF Unfolds
<1>3. IsFiniteSet(r)
  BY FS_Subset
<1>4. Unfolds(f, h, r)
  BY <1>3, SumExists
<1>5. Total(f, S) = g[S] /\ Total(f, r) = h[r]
  BY DEF Total
<1> HIDE DEF g, h
<1>6. g[r] = h[r]
  BY <1>1, <1>4, SumsAgree
<1> QED
  BY <1>2, <1>5, <1>6

\* Functions that agree on a finite set have the same sum over it.
LEMMA TotalSame ==
    ASSUME NEW f, NEW e, NEW S, IsFiniteSet(S), \A x \in S : f[x] = e[x]
    PROVE  Total(f, S) = Total(e, S)
<1> DEFINE g == CHOOSE g : Unfolds(f, g, S)
           h == CHOOSE h : Unfolds(e, h, S)
<1>1. Unfolds(f, g, S) /\ Unfolds(e, h, S)
  BY SumExists
<1>2. Total(f, S) = g[S] /\ Total(e, S) = h[S]
  BY DEF Total
<1> HIDE DEF g, h
<1> QED
  BY <1>1, <1>2, SumsAgree

\* A sum of naturals is one.
LEMMA TotalNat ==
    ASSUME NEW U, IsFiniteSet(U), NEW f, \A x \in U : f[x] \in Nat
    PROVE  \A S \in SUBSET U : Total(f, S) \in Nat
<1> DEFINE Good == {S \in SUBSET U : Total(f, S) \in Nat}
<1>1. ASSUME NEW S \in SUBSET U, \A s \in SUBSET S : s # S => s \in Good
      PROVE  S \in Good
  <2>1. Total(f, S) = IF S = {} THEN 0 ELSE f[Some(S)] + Total(f, S \ {Some(S)})
    BY FS_Subset, TotalUnfolds
  <2>2. CASE S # {}
    <3>1. Some(S) \in S
      BY <2>2 DEF Some
    <3>2. Total(f, S \ {Some(S)}) \in Nat
      BY <1>1, <3>1
    <3> QED
      BY <2>1, <2>2, <3>1, <3>2
  <2> QED
    BY <2>1, <2>2
<1> HIDE DEF Good
<1>2. \A S \in SUBSET U : S \in Good
  BY <1>1, SmallerFirst
<1> QED
  BY <1>2 DEF Good

\* A sum of zeros is zero.
LEMMA TotalNone ==
    ASSUME NEW U, IsFiniteSet(U), NEW f, \A x \in U : f[x] = 0
    PROVE  Total(f, U) = 0
<1> DEFINE Good == {S \in SUBSET U : Total(f, S) = 0}
<1>1. ASSUME NEW S \in SUBSET U, \A s \in SUBSET S : s # S => s \in Good
      PROVE  S \in Good
  <2>1. Total(f, S) = IF S = {} THEN 0 ELSE f[Some(S)] + Total(f, S \ {Some(S)})
    BY FS_Subset, TotalUnfolds
  <2>2. CASE S # {}
    <3>1. Some(S) \in S
      BY <2>2 DEF Some
    <3>2. Total(f, S \ {Some(S)}) = 0
      BY <1>1, <3>1
    <3> QED
      BY <2>1, <2>2, <3>1, <3>2
  <2> QED
    BY <2>1, <2>2
<1> HIDE DEF Good
<1>2. \A S \in SUBSET U : S \in Good
  BY <1>1, SmallerFirst
<1> QED
  BY <1>2 DEF Good

\* Any element may be taken first.
LEMMA TotalSplits ==
    ASSUME NEW U, IsFiniteSet(U), NEW f, \A x \in U : f[x] \in Nat
    PROVE  \A S \in SUBSET U : \A x \in S : Total(f, S) = f[x] + Total(f, S \ {x})
<1> DEFINE Good == {S \in SUBSET U : \A x \in S : Total(f, S) = f[x] + Total(f, S \ {x})}
<1>1. ASSUME NEW S \in SUBSET U, \A s \in SUBSET S : s # S => s \in Good
      PROVE  S \in Good
  <2> SUFFICES ASSUME NEW x \in S
               PROVE  Total(f, S) = f[x] + Total(f, S \ {x})
    OBVIOUS
  <2> DEFINE c == Some(S)
             rest == (S \ {c}) \ {x}
  <2>1. c \in S
    BY DEF Some
  <2>2. Total(f, S) = f[c] + Total(f, S \ {c})
    BY FS_Subset, TotalUnfolds
  <2>3. CASE x # c
    <3>1. S \ {c} \in Good /\ S \ {x} \in Good
      BY <1>1, <2>1
    <3>2. x \in S \ {c} /\ c \in S \ {x} /\ (S \ {x}) \ {c} = rest
      BY <2>1, <2>3
    <3>3. Total(f, S \ {c}) = f[x] + Total(f, rest)
      BY <3>1, <3>2
    <3>4. Total(f, S \ {x}) = f[c] + Total(f, rest)
      BY <3>1, <3>2
    <3>5. f[x] \in Nat /\ f[c] \in Nat /\ Total(f, rest) \in Nat
      BY <2>1, TotalNat
    <3> HIDE DEF c, rest
    <3> QED
      BY <2>2, <3>3, <3>4, <3>5
  <2> QED
    BY <2>2, <2>3
<1> HIDE DEF Good
<1>2. \A S \in SUBSET U : S \in Good
  BY <1>1, SmallerFirst
<1> QED
  BY <1>2 DEF Good

\* What a sum becomes when one of its terms does.
LEMMA TotalPut ==
    ASSUME NEW U, IsFiniteSet(U), NEW f \in [U -> Nat], NEW e \in [U -> Nat],
           NEW S \in SUBSET U, NEW x \in S, \A y \in S \ {x} : e[y] = f[y]
    PROVE  Total(e, S) = (Total(f, S) - f[x]) + e[x]
<1>1. Total(f, S) = f[x] + Total(f, S \ {x}) /\ Total(e, S) = e[x] + Total(e, S \ {x})
  BY TotalSplits
<1>2. Total(f, S \ {x}) = Total(e, S \ {x})
  BY FS_Subset, TotalSame
<1>3. f[x] \in Nat /\ e[x] \in Nat /\ Total(f, S \ {x}) \in Nat
  BY TotalNat
<1> QED
  BY <1>1, <1>2, <1>3
=============================================================================
