--------------------------- MODULE ArithmeticProofs --------------------------
(***************************************************************************)
(* The arithmetic of the lockout's tiers, apart from any module's state:   *)
(* induction over the natural numbers, stated for a set, and what it shows *)
(* of the powers of two.  There is a function that doubles from each       *)
(* number to the next, it is positive, and it never decreases.             *)
(***************************************************************************)
EXTENDS Integers, WellFoundedInduction, TLAPS

-----------------------------------------------------------------------------
(* Induction, from the library's fact that < is well founded.              *)

Below == {p \in Nat \X Nat : p[1] < p[2]}

LEMMA BelowWellFounded == IsWellFoundedOn(Below, Nat)
<1>1. OpToRel(<, Nat) = Below
  BY Zenon DEF OpToRel, Below
<1>. QED BY <1>1, NatLessThanWellFounded, Zenon

LEMMA LeastNatural ==
  ASSUME NEW S \in SUBSET Nat, S # {}
  PROVE  \E m \in S : \A k \in S : m <= k
<1>1. PICK m \in S : \A k \in S : ~ (<<k, m>> \in Below)
  BY WFMin, BelowWellFounded
<1>2. ASSUME NEW k \in S PROVE m <= k
  <2>1. k \in Nat /\ m \in Nat /\ ~ (<<k, m>> \in Below)
    BY <1>1
  <2>. QED BY <2>1 DEF Below
<1>. QED BY <1>2

\* Induction, stated for a set: the provers can instantiate that.
LEMMA SetInduction ==
  ASSUME NEW S, 0 \in S, \A n \in Nat : n \in S => n + 1 \in S
  PROVE  \A n \in Nat : n \in S
<1>. DEFINE T == {n \in Nat : n \notin S}
<1>1. SUFFICES ASSUME T # {} PROVE FALSE
  OBVIOUS
<1>2. PICK m \in T : \A k \in T : m <= k
  BY <1>1, LeastNatural
<1>3. m # 0 /\ m - 1 \in Nat /\ m - 1 \notin T
  BY <1>2
<1>. QED BY <1>3

-----------------------------------------------------------------------------
(* The powers of two.                                                      *)

\* The first n powers.
Tables(n) ==
  {g \in [0 .. n -> Nat] : g[0] = 1 /\ \A i \in 0 .. n - 1 : g[i + 1] = 2 * g[i]}

LEMMA TableExists == \A n \in Nat : Tables(n) # {}
<1>. DEFINE S == {n \in Nat : Tables(n) # {}}
<1>1. 0 \in S
  <2>1. [i \in 0 .. 0 |-> 1] \in Tables(0)
    BY DEF Tables
  <2>. QED BY <2>1
<1>2. ASSUME NEW n \in Nat, n \in S PROVE n + 1 \in S
  <2>1. PICK g \in [0 .. n -> Nat] : g[0] = 1 /\ \A i \in 0 .. n - 1 : g[i + 1] = 2 * g[i]
    BY <1>2 DEF Tables
  <2>. DEFINE h == [i \in 0 .. n + 1 |-> IF i = n + 1 THEN 2 * g[n] ELSE g[i]]
  <2>2. h \in [0 .. n + 1 -> Nat] /\ h[0] = 1
    BY <2>1
  <2>3. ASSUME NEW i \in 0 .. (n + 1) - 1 PROVE h[i + 1] = 2 * h[i]
    <3>1. CASE i = n
      BY <3>1
    <3>2. CASE i # n
      <4>1. i \in 0 .. n - 1
        BY <3>2
      <4>. QED BY <4>1, <2>1
    <3>. QED BY <3>1, <3>2
  <2>4. h \in Tables(n + 1)
    BY <2>2, <2>3 DEF Tables
  <2>. QED BY <2>4
<1>. HIDE DEF S
<1>3. \A n \in Nat : n \in S
  BY <1>1, <1>2, SetInduction
<1>. QED BY <1>3 DEF S

LEMMA TablesAgree ==
  ASSUME NEW m \in Nat, NEW n \in Nat, NEW g \in Tables(m), NEW h \in Tables(n)
  PROVE  \A i \in Nat : i <= m /\ i <= n => g[i] = h[i]
<1>. DEFINE S == {i \in Nat : i <= m /\ i <= n => g[i] = h[i]}
<1>1. 0 \in S
  BY DEF Tables
<1>2. ASSUME NEW i \in Nat, i \in S PROVE i + 1 \in S
  <2>1. SUFFICES ASSUME i + 1 <= m, i + 1 <= n PROVE g[i + 1] = h[i + 1]
    OBVIOUS
  <2>2. i \in 0 .. m - 1 /\ i \in 0 .. n - 1 /\ g[i] = h[i]
    BY <1>2, <2>1
  <2>3. g[i + 1] = 2 * g[i] /\ h[i + 1] = 2 * h[i]
    BY <2>2 DEF Tables
  <2>. QED BY <2>2, <2>3
<1>. HIDE DEF S
<1>3. \A i \in Nat : i \in S
  BY <1>1, <1>2, SetInduction
<1>. QED BY <1>3 DEF S

IsDoubling(f) == f = [n \in Nat |-> IF n = 0 THEN 1 ELSE 2 * f[n - 1]]

\* There is a function that doubles from each number to the next.
LEMMA DoublingExists == \E f : IsDoubling(f)
<1>. DEFINE Table(n) == CHOOSE g : g \in Tables(n)
            f == [n \in Nat |-> Table(n)[n]]
<1>1. \A n \in Nat : Table(n) \in Tables(n)
  BY TableExists
<1>. HIDE DEF Table
<1>2. ASSUME NEW n \in Nat PROVE f[n] = IF n = 0 THEN 1 ELSE 2 * f[n - 1]
  <2>1. CASE n = 0
    BY <1>1, <2>1 DEF Tables
  <2>2. CASE n # 0
    <3>1. n - 1 \in Nat /\ n - 1 \in 0 .. n - 1 /\ (n - 1) + 1 = n
      BY <2>2
    <3>2. Table(n)[n] = 2 * Table(n)[n - 1]
      <4>1. Table(n) \in Tables(n)
        BY <1>1
      <4>2. \A i \in 0 .. n - 1 : Table(n)[i + 1] = 2 * Table(n)[i]
        BY <4>1 DEF Tables
      <4>. QED BY <3>1, <4>2
    <3>3. Table(n)[n - 1] = Table(n - 1)[n - 1]
      BY <1>1, <3>1, TablesAgree
    <3>. QED BY <2>2, <3>1, <3>2, <3>3
  <2>. QED BY <2>1, <2>2
<1>3. f = [n \in Nat |-> IF n = 0 THEN 1 ELSE 2 * f[n - 1]]
  <2>1. f = [n \in Nat |-> f[n]]
    OBVIOUS
  <2>. HIDE DEF f
  <2>. QED BY <1>2, <2>1
<1>. HIDE DEF f
<1>. QED BY <1>3 DEF IsDoubling

LEMMA DoublingType ==
  ASSUME NEW f, IsDoubling(f)
  PROVE  \A n \in Nat : f[n] \in Nat \ {0}
<1>0. f = [n \in Nat |-> IF n = 0 THEN 1 ELSE 2 * f[n - 1]]
  BY DEF IsDoubling
<1>. DEFINE S == {n \in Nat : f[n] \in Nat \ {0}}
<1>1. 0 \in S
  BY <1>0
<1>2. ASSUME NEW n \in Nat, n \in S PROVE n + 1 \in S
  <2>1. f[n + 1] = 2 * f[n]
    BY <1>0
  <2>. QED BY <1>2, <2>1
<1>. HIDE DEF S
<1>3. \A n \in Nat : n \in S
  BY <1>1, <1>2, SetInduction
<1>. QED BY <1>3 DEF S

LEMMA DoublingMonotone ==
  ASSUME NEW f, IsDoubling(f), NEW m \in Nat
  PROVE  \A n \in Nat : m <= n => f[m] <= f[n]
<1>0. f = [n \in Nat |-> IF n = 0 THEN 1 ELSE 2 * f[n - 1]]
  BY DEF IsDoubling
<1>. DEFINE S == {n \in Nat : m <= n => f[m] <= f[n]}
<1>1. 0 \in S
  BY DoublingType
<1>2. ASSUME NEW n \in Nat, n \in S PROVE n + 1 \in S
  <2>1. f[n + 1] = 2 * f[n]
    BY <1>0
  <2>2. f[n] \in Nat /\ f[m] \in Nat
    BY DoublingType
  <2>3. m <= n + 1 => m = n + 1 \/ m <= n
    OBVIOUS
  <2>. QED BY <1>2, <2>1, <2>2, <2>3
<1>. HIDE DEF S
<1>3. \A n \in Nat : n \in S
  BY <1>1, <1>2, SetInduction
<1>. QED BY <1>3 DEF S

-----------------------------------------------------------------------------
(* Quotients and products of natural numbers.                              *)

LEMMA Quotient ==
  ASSUME NEW a \in Nat, NEW b \in Nat \ {0}, a >= b
  PROVE  a \div b \in 1 .. a
OBVIOUS

LEMMA QuotientMonotone ==
  ASSUME NEW a \in Nat, NEW c \in Nat, NEW b \in Nat \ {0}, a <= c
  PROVE  a \div b <= c \div b
OBVIOUS

LEMMA Product ==
  ASSUME NEW a \in Nat \ {0}, NEW k \in Nat \ {0}
  PROVE  a * k \in Nat \ {0}
OBVIOUS

LEMMA ProductMonotone ==
  ASSUME NEW a \in Nat \ {0}, NEW k \in Nat, NEW l \in Nat, k <= l
  PROVE  a * k <= a * l
OBVIOUS
=============================================================================
