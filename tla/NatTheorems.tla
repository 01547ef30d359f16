----------------------------- MODULE NatTheorems -----------------------------
(***************************************************************************)
(* Arithmetic and induction on the natural numbers, for the counts that    *)
(* wrap round (Shootout_proofs), the codes of say messages                 *)
(* (AudioCodec_proofs) and the strings made of them (SayMessage_proofs).   *)
(*                                                                         *)
(* The library's induction theorems take the predicate as an operator,     *)
(* which the provers cannot instantiate; here it is the set of the numbers *)
(* that satisfy it.                                                        *)
(***************************************************************************)
EXTENDS Integers, FiniteSetTheorems, WellFoundedInduction, TLAPS

(* Quotient and remainder. *)

\* They exist,
LEMMA DivMod ==
    ASSUME NEW a \in Nat, NEW t \in Nat \ {0}
    PROVE  a = t * (a \div t) + (a % t) /\ a % t \in 0..(t - 1) /\ a \div t \in Nat
BY Z3

\* and are unique.
LEMMA DivModUnique ==
    ASSUME NEW t \in Nat \ {0}, NEW q \in Nat, NEW r \in 0..(t - 1)
    PROVE  (t * q + r) % t = r /\ (t * q + r) \div t = q
<1> DEFINE a == t * q + r
           p == a \div t
           s == a % t
<1>1. a \in Nat
  OBVIOUS
<1>2. a = t * p + s /\ s \in 0..(t - 1) /\ p \in Nat
  BY <1>1, DivMod
<1>3. a = t * q + r
  OBVIOUS
<1> HIDE DEF a, p, s
<1>4. CASE p = q
  BY <1>2, <1>3, <1>4 DEF a, p, s
<1>5. CASE p < q
  <2>1. PICK d \in Nat : q = p + 1 + d
    <3>1. q - p - 1 \in Nat /\ q = p + 1 + (q - p - 1)
      BY <1>2, <1>5
    <3> QED BY <3>1
  <2>2. t * q = t * p + t + t * d /\ t * d \in Nat
    BY <1>2, <2>1, Z3
  <2> QED BY <1>2, <1>3, <2>2
<1>6. CASE q < p
  <2>1. PICK d \in Nat : p = q + 1 + d
    <3>1. p - q - 1 \in Nat /\ p = q + 1 + (p - q - 1)
      BY <1>2, <1>6
    <3> QED BY <3>1
  <2>2. t * p = t * q + t + t * d /\ t * d \in Nat
    BY <1>2, <2>1, Z3
  <2> QED BY <1>2, <1>3, <2>2
<1> QED BY <1>2, <1>4, <1>5, <1>6

-----------------------------------------------------------------------------
(* Induction. *)

\* Some element of a set of numbers is the least: of the intervals 0..y the library's
\* well-founded order on finite sets gives one that includes no other.
LEMMA LeastNat ==
    ASSUME NEW T \in SUBSET Nat, T # {}
    PROVE  \E x \in T : \A y \in T : x <= y
<1>1. PICK n \in T : TRUE
  OBVIOUS
<1> DEFINE S == 0..n
           C == {0..y : y \in {z \in T : z <= n}}
<1>2. IsFiniteSet(S)
  BY FS_Interval
<1>3. C \subseteq FiniteSubsetsOf(S) /\ C # {}
  <2>1. C \subseteq SUBSET S /\ C # {}
    BY SMT
  <2> QED BY <2>1, <1>2, FS_FiniteSubsetsOfFinite
<1>4. PICK m \in C : \A U \in C : ~(<<U, m>> \in StrictSubsetOrdering(S))
  <2> HIDE DEF C, S
  <2>1. IsWellFoundedOn(StrictSubsetOrdering(S), FiniteSubsetsOf(S))
    BY FS_StrictSubsetOrderingWellFounded
  <2> QED BY <1>3, <2>1, WFMin, Zenon
<1>5. PICK x \in T : x <= n /\ m = 0..x
  OBVIOUS
<1>6. ASSUME NEW y \in T PROVE x <= y
  <2> SUFFICES ASSUME y < x PROVE FALSE
    OBVIOUS
  <2>1. 0..y \in C /\ 0..y \subseteq S /\ 0..x \subseteq S
    BY <1>5
  <2>2. 0..y \subseteq 0..x /\ x \in 0..x /\ x \notin 0..y
    OBVIOUS
  <2>3. <<0..y, m>> \in StrictSubsetOrdering(S)
    <3> HIDE DEF S, C
    <3> QED BY <2>1, <2>2, <1>5, Zenon DEF StrictSubsetOrdering
  <2> QED BY <1>4, <2>1, <2>3
<1> QED BY <1>6

\* A set that contains 0 and with a number the next one contains all numbers up to n.
LEMMA UpTo ==
    ASSUME NEW n \in Nat, NEW S, 0 \in S, \A k \in 0..(n - 1) : k \in S => k + 1 \in S
    PROVE  \A k \in 0..n : k \in S
<1> DEFINE T == {k \in 0..n : k \notin S}
<1> SUFFICES ASSUME T # {} PROVE FALSE
  OBVIOUS
<1>1. T \in SUBSET Nat
  OBVIOUS
<1>2. PICK x \in T : \A y \in T : x <= y
  <2> HIDE DEF T
  <2> QED BY <1>1, LeastNat
<1>3. x # 0 /\ x - 1 \in 0..(n - 1) /\ x - 1 \notin T
  BY <1>2
<1> QED BY <1>3

\* A set that contains n and with a number the one before contains all from low to n.
LEMMA DownTo ==
    ASSUME NEW n \in Nat, NEW low \in Nat, NEW S, n \in S,
           \A k \in low..(n - 1) : k + 1 \in S => k \in S
    PROVE  \A k \in low..n : k \in S
<1> DEFINE T == {k \in 0..n : n - k >= low => n - k \in S}
<1>1. 0 \in T /\ \A k \in 0..(n - 1) : k \in T => k + 1 \in T
  <2>1. 0 \in T
    OBVIOUS
  <2>2. ASSUME NEW k \in 0..(n - 1), k \in T, n - (k + 1) >= low PROVE n - (k + 1) \in S
    <3>1. n - (k + 1) \in low..(n - 1) /\ (n - (k + 1)) + 1 = n - k
      BY <2>2
    <3> QED BY <2>2, <3>1
  <2> QED BY <2>1, <2>2
<1>2. \A k \in 0..n : k \in T
  <2> HIDE DEF T
  <2> QED BY <1>1, UpTo
<1>3. ASSUME NEW k \in low..n PROVE k \in S
  <2>1. n - k \in 0..n /\ n - (n - k) = k
    OBVIOUS
  <2> QED BY <1>2, <2>1
<1> QED BY <1>3

\* Functions on 0..n that take base at 0 and are continued by step, and functions on 1..n
\* that take it at n and are continued downwards.
Steps(m, V) == [1..m -> [V -> V]]
Recursive(f, n, V, base, step) ==
    f \in [0..n -> V] /\ f[0] = base /\ \A k \in 1..n : f[k] = step[k][f[k - 1]]
DownRecursive(f, n, V, base, step) ==
    f \in [1..n -> V] /\ f[n] = base /\ \A k \in 1..(n - 1) : f[k] = step[k][f[k + 1]]

\* They exist.
LEMMA Recursion ==
    ASSUME NEW n \in Nat, NEW V, NEW base \in V, NEW step \in Steps(n, V)
    PROVE  \E f : Recursive(f, n, V, base, step)
<1> DEFINE S == {k \in 0..n : \E f : Recursive(f, k, V, base, step)}
<1>0. step \in [1..n -> [V -> V]]
  BY DEF Steps
<1>1. 0 \in S
  <2> DEFINE g == [i \in 0..0 |-> base]
  <2>1. Recursive(g, 0, V, base, step)
    BY DEF Recursive
  <2> HIDE DEF g
  <2> QED BY <2>1
<1>2. ASSUME NEW k \in 0..(n - 1), k \in S PROVE k + 1 \in S
  <2>1. PICK f : Recursive(f, k, V, base, step)
    BY <1>2
  <2> DEFINE g == [i \in 0..(k + 1) |-> IF i = k + 1 THEN step[k + 1][f[k]] ELSE f[i]]
  <2>2. f \in [0..k -> V] /\ f[0] = base /\ \A i \in 1..k : f[i] = step[i][f[i - 1]]
    BY <2>1 DEF Recursive
  <2>3. step[k + 1][f[k]] \in V
    BY <1>0, <2>2
  <2>4. g \in [0..(k + 1) -> V] /\ g[0] = base /\ \A i \in 1..(k + 1) : g[i] = step[i][g[i - 1]]
    BY <2>2, <2>3
  <2> HIDE DEF g
  <2>5. Recursive(g, k + 1, V, base, step)
    BY <2>4 DEF Recursive
  <2> QED BY <2>5
<1>3. n \in S
  <2> HIDE DEF S
  <2>1. \A k \in 0..n : k \in S
    BY <1>1, <1>2, UpTo
  <2> QED BY <2>1
<1> QED BY <1>3

LEMMA DownRecursion ==
    ASSUME NEW n \in Nat \ {0}, NEW V, NEW base \in V, NEW step \in Steps(n - 1, V)
    PROVE  \E f : DownRecursive(f, n, V, base, step)
<1> DEFINE m == n - 1
           up == [k \in 1..m |-> step[n - k]]
<1>1. m \in Nat /\ up \in Steps(m, V)
  BY DEF Steps
<1>2. PICK g : Recursive(g, m, V, base, up)
  <2> HIDE DEF up, m
  <2> QED BY <1>1, Recursion
<1>3. g \in [0..m -> V] /\ g[0] = base /\ \A k \in 1..m : g[k] = up[k][g[k - 1]]
  BY <1>2 DEF Recursive
<1> DEFINE f == [k \in 1..n |-> g[n - k]]
<1>4. f \in [1..n -> V] /\ f[n] = base
  BY <1>3
<1>5. ASSUME NEW k \in 1..(n - 1) PROVE f[k] = step[k][f[k + 1]]
  <2>1. n - k \in 1..m /\ n - (n - k) = k /\ n - k - 1 = n - (k + 1)
    OBVIOUS
  <2> QED BY <1>3, <2>1
<1> HIDE DEF f
<1> QED BY <1>4, <1>5 DEF DownRecursive

\* What satisfies the recursion has its values where base and step stay.
LEMMA RecursionType ==
    ASSUME NEW n \in Nat, NEW V, NEW base \in V, NEW step \in Steps(n, V), NEW g,
           g = [k \in 0..n |-> g[k]], g[0] = base,
           \A k \in 1..n : g[k - 1] \in V => g[k] = step[k][g[k - 1]]
    PROVE  Recursive(g, n, V, base, step)
<1> DEFINE S == {k \in 0..n : g[k] \in V}
<1>1. step \in [1..n -> [V -> V]]
  BY DEF Steps
<1>2. 0 \in S
  OBVIOUS
<1>3. ASSUME NEW k \in 0..(n - 1), k \in S PROVE k + 1 \in S
  <2>1. k + 1 \in 1..n /\ (k + 1) - 1 = k
    OBVIOUS
  <2>2. g[k] \in V /\ g[k + 1] = step[k + 1][g[k]]
    BY <1>3, <2>1
  <2> QED BY <1>1, <2>1, <2>2
<1>4. \A k \in 0..n : k \in S
  <2> HIDE DEF S
  <2> QED BY <1>2, <1>3, UpTo
<1>5. g \in [0..n -> V]
  BY <1>4
<1>6. \A k \in 1..n : g[k - 1] \in V
  BY <1>4
<1> QED BY <1>5, <1>6 DEF Recursive

LEMMA DownRecursionType ==
    ASSUME NEW n \in Nat \ {0}, NEW V, NEW base \in V, NEW step \in Steps(n - 1, V), NEW g,
           g = [k \in 1..n |-> g[k]], g[n] = base,
           \A k \in 1..(n - 1) : g[k + 1] \in V => g[k] = step[k][g[k + 1]]
    PROVE  DownRecursive(g, n, V, base, step)
<1> DEFINE S == {k \in 1..n : g[k] \in V}
<1>1. step \in [1..(n - 1) -> [V -> V]]
  BY DEF Steps
<1>2. n \in S
  OBVIOUS
<1>3. ASSUME NEW k \in 1..(n - 1), k + 1 \in S PROVE k \in S
  <2>1. g[k + 1] \in V /\ g[k] = step[k][g[k + 1]]
    BY <1>3
  <2> QED BY <1>1, <2>1
<1>4. \A k \in 1..n : k \in S
  <2> HIDE DEF S
  <2> QED BY <1>2, <1>3, DownTo
<1>5. g \in [1..n -> V]
  BY <1>4
<1>6. \A k \in 1..(n - 1) : g[k + 1] \in V
  BY <1>4
<1> QED BY <1>5, <1>6 DEF DownRecursive
==============================================================================
