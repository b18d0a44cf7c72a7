-------------------------- MODULE InductionLemmas --------------------------
(***************************************************************************)
(* Induction without an operator for a parameter.  The principles of the   *)
(* library take the property to prove as an operator, which the provers    *)
(* used here cannot instantiate.  Here it is a set, that of the numbers    *)
(* that have it; the base is WFMin, that a set of numbers has a least one. *)
(***************************************************************************)
EXTENDS Integers, FiniteSetsExt, TLAPS, WellFoundedInduction

LEMMA LeastNatural ==
  ASSUME NEW T \in SUBSET Nat, T # {}
  PROVE  \E x \in T : \A y \in T : x <= y
<1>1. PICK x \in T : \A y \in T : ~(<<y, x>> \in OpToRel(<, Nat))
  BY WFMin, NatLessThanWellFounded
<1>2. \A y \in T : y < x => <<y, x>> \in OpToRel(<, Nat)
  BY DEF OpToRel
<1>3. ASSUME NEW y \in T PROVE x <= y
  <2>1. ~(y < x)
    BY <1>1, <1>2
  <2>. QED  BY <2>1
<1>. QED  BY <1>3

LEMMA SetInduction ==
  ASSUME NEW S, 0 \in S, \A n \in Nat : n \in S => n + 1 \in S
  PROVE  Nat \subseteq S
<1>. DEFINE T == {n \in Nat : n \notin S}
<1>. SUFFICES ASSUME T # {} PROVE FALSE
  OBVIOUS
<1>1. PICK x \in T : \A y \in T : x <= y
  BY LeastNatural
<1>2. x - 1 \in Nat
  BY <1>1
<1>3. x - 1 \in T
  BY <1>2
<1>. QED  BY <1>1, <1>2, <1>3

(* The numbers up to a bound.                                              *)
LEMMA SetInductionTo ==
  ASSUME NEW N \in Nat, NEW S, 0 \in S, \A n \in 0..N : n \in S /\ n < N => n + 1 \in S
  PROVE  0..N \subseteq S
<1>. DEFINE T == {n \in Nat : n <= N => n \in S}
<1>1. 0 \in T /\ \A n \in Nat : n \in T => n + 1 \in T
  OBVIOUS
<1>2. Nat \subseteq T
  <2>. HIDE DEF T
  <2>. QED  BY <1>1, SetInduction
<1>. QED  BY <1>2

LEMMA GreatestNatural ==
  ASSUME NEW N \in Nat, NEW T \in SUBSET (0..N), T # {}
  PROVE  \E x \in T : \A y \in T : x >= y
<1>. DEFINE U == {n \in Nat : \A y \in T : n >= y}
<1>1. N \in U
  OBVIOUS
<1>2. PICK u \in U : \A v \in U : u <= v
  BY <1>1, LeastNatural
<1>3. CASE u = 0
  <2>1. \A y \in T : y = 0
    BY <1>2, <1>3
  <2>2. PICK t : t \in T
    OBVIOUS
  <2>3. 0 \in T /\ \A y \in T : 0 >= y
    BY <2>1, <2>2
  <2>. QED  BY <2>3
<1>4. CASE u # 0 /\ u \notin T
  <2>1. u - 1 \in Nat
    BY <1>4
  <2>2. u - 1 \in U
    BY <1>4, <2>1
  <2>. QED  BY <1>2, <2>1, <2>2
<1>. QED  BY <1>2, <1>3, <1>4

LEMMA MinIs ==
  ASSUME NEW T \in SUBSET Nat, T # {}
  PROVE  Min(T) \in T /\ \A y \in T : Min(T) <= y
<1>. DEFINE Least(x) == x \in T /\ \A y \in T : x <= y
<1>1. \E x : Least(x)
  BY LeastNatural
<1>2. Min(T) = CHOOSE x : Least(x)
  BY DEF Min
<1>3. Least(CHOOSE x : Least(x))
  <2>. HIDE DEF Least
  <2>. QED  BY <1>1
<1>. QED  BY <1>2, <1>3

LEMMA MaxIs ==
  ASSUME NEW N \in Nat, NEW T \in SUBSET (0..N), T # {}
  PROVE  Max(T) \in T /\ \A y \in T : Max(T) >= y
<1>. DEFINE Greatest(x) == x \in T /\ \A y \in T : x >= y
<1>1. \E x : Greatest(x)
  BY GreatestNatural
<1>2. Max(T) = CHOOSE x : Greatest(x)
  BY DEF Max
<1>3. Greatest(CHOOSE x : Greatest(x))
  <2>. HIDE DEF Greatest
  <2>. QED  BY <1>1
<1>. QED  BY <1>2, <1>3

(* A function is given by its value at 0 and its steps.                    *)
Recursive(f, N, V, base, step) ==
  /\ f \in [0..N -> V]
  /\ f[0] = base
  /\ \A n \in 1..N : f[n] = step[n][f[n - 1]]

LEMMA Recursion ==
  ASSUME NEW N \in Nat, NEW V, NEW base \in V, NEW step \in [1..N -> [V -> V]]
  PROVE  \E f : Recursive(f, N, V, base, step)
<1>. DEFINE S == {m \in Nat : m <= N => \E f \in [0..m -> V] :
                    f[0] = base /\ \A n \in 1..m : f[n] = step[n][f[n - 1]]}
<1>1. 0 \in S
  <2>. DEFINE f == [n \in 0..0 |-> base]
  <2>1. f \in [0..0 -> V] /\ f[0] = base /\ \A n \in 1..0 : f[n] = step[n][f[n - 1]]
    OBVIOUS
  <2>. QED  BY <2>1
<1>2. ASSUME NEW m \in Nat, m \in S PROVE m + 1 \in S
  <2>. SUFFICES ASSUME m + 1 <= N
                PROVE  \E f \in [0..m + 1 -> V] :
                         f[0] = base /\ \A n \in 1..m + 1 : f[n] = step[n][f[n - 1]]
    OBVIOUS
  <2>1. PICK g \in [0..m -> V] : g[0] = base /\ \A n \in 1..m : g[n] = step[n][g[n - 1]]
    BY <1>2
  <2>. DEFINE f == [n \in 0..m + 1 |-> IF n = m + 1 THEN step[m + 1][g[m]] ELSE g[n]]
  <2>2. f \in [0..m + 1 -> V]
    BY <2>1
  <2>3. f[0] = base /\ \A n \in 1..m + 1 : f[n] = step[n][f[n - 1]]
    BY <2>1
  <2>. QED  BY <2>2, <2>3
<1>3. N \in S
  <2>1. 0 \in S /\ \A n \in Nat : n \in S => n + 1 \in S
    BY <1>1, <1>2
  <2>2. Nat \subseteq S
    <3>. HIDE DEF S
    <3>. QED  BY <2>1, SetInduction
  <2>. QED  BY <2>2
<1>. QED  BY <1>3 DEF Recursive
=============================================================================
