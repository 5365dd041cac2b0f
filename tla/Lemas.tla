--------------------------------- MODULE Lemas ---------------------------------
(***************************************************************************)
(* Facts about numbers, sets and recursive functions that the proofs of    *)
(* more than one component use.                                            *)
(***************************************************************************)
EXTENDS Integers, Sequences, FiniteSetsExt, FiniteSetTheorems,
        WellFoundedInduction, TLAPS

(* The minimum of a set of natural numbers is in it, and no other is less.  *)
LEMMA MinimoOK ==
    ASSUME NEW S \in SUBSET Nat, S # {}
    PROVE  Min(S) \in S /\ \A y \in S : Min(S) <= y
<1> DEFINE R == OpToRel(<, Nat)
<1>1. R = {p \in Nat \X Nat : p[1] < p[2]}
  BY DEF OpToRel
<1>2. PICK m \in S : \A j \in S : <<j, m>> \notin R
  <2> HIDE DEF R
  <2> QED  BY NatLessThanWellFounded, WFMin DEF R
<1>3. \A j \in S : m <= j
  <2> SUFFICES ASSUME NEW j \in S, j < m PROVE FALSE
    OBVIOUS
  <2>1. <<j, m>> \in {p \in Nat \X Nat : p[1] < p[2]}
    <3>1. /\ <<j, m>> \in Nat \X Nat
          /\ <<j, m>>[1] < <<j, m>>[2]
      OBVIOUS
    <3> QED  BY <3>1
  <2> QED  BY <1>1, <1>2, <2>1
<1> QED
  BY <1>3 DEF Min

(* The greater of two natural numbers is one of them. *)
LEMMA MaximoOK ==
    ASSUME NEW a \in Nat, NEW b \in Nat
    PROVE  /\ Max({a, b}) \in {a, b}
           /\ Max({a, b}) >= a /\ Max({a, b}) >= b
<1>1. \E x \in {a, b} : \A y \in {a, b} : x >= y
  <2>1. CASE a >= b  BY <2>1
  <2>2. CASE ~ (a >= b)  BY <2>2
  <2> QED  BY <2>1, <2>2
<1> QED
  BY <1>1 DEF Max

(* A division of natural numbers is a natural number, its rest is less than *)
(* the divisor, and both make the dividend.                                 *)
LEMMA DivisionOK ==
    ASSUME NEW a \in Nat, NEW b \in Nat \ {0}
    PROVE  /\ a \div b \in Nat /\ a % b \in 0 .. b - 1
           /\ a = b * (a \div b) + (a % b)
<1>1. a \div b \in Nat
  OBVIOUS
<1>2. a % b \in 0 .. b - 1
  OBVIOUS
<1>3. a = b * (a \div b) + (a % b)
  OBVIOUS
<1> QED
  BY <1>1, <1>2, <1>3

(* Divisions by the same number are in the order of the dividends. *)
LEMMA DivisionMonotona ==
    ASSUME NEW a \in Nat, NEW c \in Nat, NEW b \in Nat \ {0}, a <= c
    PROVE  a \div b <= c \div b
<1> DEFINE p == a \div b
           q == c \div b
<1>1. p \in Nat /\ q \in Nat /\ a % b \in 0 .. b - 1 /\ c % b \in 0 .. b - 1
  BY DivisionOK
<1>2. a = b * p + (a % b) /\ c = b * q + (c % b)
  BY DivisionOK
<1> HIDE DEF p, q
<1>3. a >= b * p /\ c < b * q + b
  BY <1>1, <1>2
<1> SUFFICES ASSUME q + 1 <= p PROVE FALSE
  BY <1>1 DEF p, q
<1>4. PICK r \in Nat : p = q + 1 + r
  <2>1. p - (q + 1) \in Nat
    BY <1>1
  <2> QED  BY <1>1, <2>1
<1>5. b * p = b * q + b + b * r
  BY <1>1, <1>4
<1>6. b * r >= 0
  BY <1>4
<1> QED
  BY <1>1, <1>3, <1>5, <1>6

(* Induction up to n, over a set: what holds of 0, and of k + 1 when it     *)
(* holds of k, holds of all.                                                *)
LEMMA InduccionHasta ==
    ASSUME NEW n \in Nat, NEW M, 0 \in M,
           \A k \in 0 .. n - 1 : k \in M => k + 1 \in M
    PROVE  0 .. n \subseteq M
<1> DEFINE F == {k \in 0 .. n : k \notin M}
<1> SUFFICES ASSUME F # {} PROVE FALSE
  OBVIOUS
<1>1. F \in SUBSET Nat
  OBVIOUS
<1>2. Min(F) \in F /\ \A y \in F : Min(F) <= y
  <2> HIDE DEF F
  <2> QED  BY <1>1, MinimoOK
<1> DEFINE m == Min(F)
<1>3. m \in 1 .. n /\ m \notin M /\ m - 1 \notin F
  <2>1. m \in F /\ \A y \in F : m <= y
    BY <1>2
  <2> HIDE DEF m
  <2> QED  BY <2>1
<1> HIDE DEF m
<1>4. m - 1 \in M /\ m - 1 \in 0 .. n - 1
  BY <1>3
<1> QED
  BY <1>3, <1>4

(* A function defined by recursion on 0 .. n exists: from the value a at 0, *)
(* each value is F[k] of the value before.                                  *)
Recursiva(f, n, S, a, F) ==
    /\ f \in [0 .. n -> S]
    /\ f[0] = a /\ \A k \in 1 .. n : f[k] = F[k][f[k - 1]]

LEMMA RecursionHasta ==
    ASSUME NEW n \in Nat, NEW S, NEW a \in S, NEW F \in [1 .. n -> [S -> S]]
    PROVE  \E f : Recursiva(f, n, S, a, F)
<1> DEFINE Buena(m, f) == f[0] = a /\ \A k \in 1 .. m : f[k] = F[k][f[k - 1]]
           M == {m \in 0 .. n : \E f \in [0 .. m -> S] : Buena(m, f)}
<1>1. 0 \in M
  <2> DEFINE f == [i \in 0 .. 0 |-> a]
  <2>1. f \in [0 .. 0 -> S] /\ f[0] = a /\ 1 .. 0 = {}
    OBVIOUS
  <2>2. Buena(0, f)
    BY <2>1
  <2> HIDE DEF Buena, f
  <2> QED  BY <2>1, <2>2
<1>2. ASSUME NEW m \in 0 .. n - 1, m \in M
      PROVE  m + 1 \in M
  <2>1. PICK f \in [0 .. m -> S] : Buena(m, f)
    BY <1>2
  <2> DEFINE g == [i \in 0 .. m + 1 |-> IF i = m + 1 THEN F[m + 1][f[m]] ELSE f[i]]
  <2>2. F[m + 1][f[m]] \in S
    OBVIOUS
  <2>3. g \in [0 .. m + 1 -> S]
    BY <2>2
  <2>4. Buena(m + 1, g)
    <3>1. g[0] = a
      BY <2>1
    <3>2. ASSUME NEW k \in 1 .. m + 1 PROVE g[k] = F[k][g[k - 1]]
      <4>1. CASE k = m + 1
        <5>1. g[k] = F[m + 1][f[m]] /\ g[k - 1] = f[m]
          BY <4>1
        <5> QED  BY <4>1, <5>1
      <4>2. CASE k # m + 1
        <5>1. k \in 1 .. m /\ g[k] = f[k] /\ g[k - 1] = f[k - 1]
          BY <4>2
        <5> QED  BY <2>1, <5>1
      <4> QED  BY <4>1, <4>2
    <3> QED  BY <3>1, <3>2
  <2> HIDE DEF Buena
  <2> QED  BY <2>3, <2>4
<1>3. 0 .. n \subseteq M
  <2> HIDE DEF M
  <2> QED  BY <1>1, <1>2, InduccionHasta
<1> QED
  BY <1>3 DEF Recursiva

(* Among the numbers of a finite set, any count of lesser ones below the    *)
(* whole count is that of some of them.                                     *)
LEMMA Enesimo ==
    ASSUME NEW S \in SUBSET Nat, IsFiniteSet(S), NEW k \in Nat, k < Cardinality(S)
    PROVE  \E m \in S : Cardinality({x \in S : x < m}) = k
<1> DEFINE Antes(m) == {x \in S : x < m}
           n == Cardinality(S) - 1
           M == {j \in 0 .. n : \E m \in S : Cardinality(Antes(m)) = j}
<1>1. Cardinality(S) \in Nat /\ n \in Nat /\ k \in 0 .. n /\ S # {}
  <2>1. Cardinality(S) \in Nat /\ (Cardinality(S) = 0 <=> S = {})
    BY FS_CardinalityType, FS_EmptySet
  <2> QED
    BY <2>1
<1>2. 0 \in M
  <2>1. Min(S) \in S /\ \A y \in S : Min(S) <= y
    BY <1>1, MinimoOK
  <2>2. Antes(Min(S)) = {}
    <3> SUFFICES ASSUME NEW x \in S, x < Min(S) PROVE FALSE
      OBVIOUS
    <3>1. x \in Nat /\ Min(S) \in Nat /\ Min(S) <= x
      BY <2>1
    <3> QED
      BY <3>1
  <2>3. Cardinality(Antes(Min(S))) = 0
    BY <2>2, FS_EmptySet
  <2>4. 0 \in 0 .. n
    BY <1>1
  <2> HIDE DEF Antes, n
  <2> QED
    BY <2>1, <2>3, <2>4
<1>3. ASSUME NEW j \in 0 .. n - 1, j \in M
      PROVE  j + 1 \in M
  <2>1. PICK m \in S : Cardinality(Antes(m)) = j
    BY <1>3
  <2> DEFINE Hasta == Antes(m) \cup {m}
             T == {x \in S : x > m}
  <2>2. IsFiniteSet(Antes(m)) /\ m \notin Antes(m)
    <3>1. Antes(m) \in SUBSET S
      OBVIOUS
    <3>2. m \notin Antes(m)
      OBVIOUS
    <3> HIDE DEF Antes
    <3> QED
      BY <3>1, <3>2, FS_Subset
  <2>3. IsFiniteSet(Hasta) /\ Cardinality(Hasta) = j + 1
    <3> HIDE DEF Antes
    <3> QED
      BY <2>1, <2>2, FS_AddElement
  <2>4. T # {}
    <3> SUFFICES ASSUME T = {} PROVE FALSE
      OBVIOUS
    <3>1. ASSUME NEW x \in S PROVE x \in Hasta
      <4>1. x \in Nat /\ m \in Nat /\ ~ (x > m)
        OBVIOUS
      <4>2. x < m \/ x = m
        BY <4>1
      <4> QED
        BY <4>2
    <3>3. Hasta \subseteq S
      OBVIOUS
    <3>2. Cardinality(S) = j + 1
      <4>1. S = Hasta
        BY <3>1, <3>3
      <4> QED
        BY <2>3, <4>1
    <3> QED
      BY <1>1, <3>2
  <2>5. Min(T) \in T /\ \A y \in T : Min(T) <= y
    <3>1. T \in SUBSET Nat
      OBVIOUS
    <3> HIDE DEF T
    <3> QED
      BY <2>4, <3>1, MinimoOK
  <2>6. PICK q \in T : \A y \in T : q <= y
    <3> HIDE DEF T
    <3> QED
      BY <2>5
  <2>7. Antes(q) = Hasta
    <3>1. q \in Nat /\ m \in Nat /\ q > m
      OBVIOUS
    <3>2. ASSUME NEW x \in S PROVE x < q <=> x < m \/ x = m
      <4>1. x \in Nat /\ (x > m => q <= x)
        BY <2>6
      <4> QED
        BY <3>1, <4>1
    <3> QED
      BY <3>2
  <2>8. q \in S /\ Cardinality(Antes(q)) = j + 1
    <3>1. q \in S
      OBVIOUS
    <3> HIDE DEF Antes, Hasta
    <3> QED
      BY <2>3, <2>7, <3>1
  <2>9. j + 1 \in 0 .. n
    BY <1>1
  <2> HIDE DEF Antes, n
  <2> QED
    BY <2>8, <2>9
<1>4. 0 .. n \subseteq M
  <2> HIDE DEF M, n
  <2> QED  BY <1>1, <1>2, <1>3, InduccionHasta
<1> QED
  BY <1>1, <1>4
=============================================================================
