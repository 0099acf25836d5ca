----------------------------- MODULE LeastNumber -----------------------------
(***************************************************************************)
(* Induction without an operator for a parameter: a set of numbers that has *)
(* any has a least one.  What is to hold for every number is proved of the  *)
(* least one it fails for.                                                  *)
(***************************************************************************)
EXTENDS WellFoundedInduction, TLAPS

(* A set of natural numbers that is not empty has a least element.          *)
THEOREM LeastNat ==
    ASSUME NEW T, T \subseteq Nat, T # {}
    PROVE  \E x \in T : \A y \in T : x <= y
<1> DEFINE before == {ss \in Nat \X Nat : ss[1] < ss[2]}
<1>1. IsWellFoundedOn(before, Nat) BY NatLessThanWellFounded DEF OpToRel
<1>2. PICK x \in T : \A y \in T : ~(<<y, x>> \in before) BY <1>1, WFMin
<1>3. ASSUME NEW y \in T PROVE x <= y
  <2>1. x \in Nat /\ y \in Nat OBVIOUS
  <2>2. <<y, x>> \in before <=> y < x BY <2>1
  <2> QED BY <1>2, <2>1, <2>2
<1> QED BY <1>3

(* What holds at the end of an interval, and wherever it holds behind, is   *)
(* true of all of it.                                                       *)
THEOREM Downward ==
    ASSUME NEW N \in Nat, NEW T, N + 1 \in T,
           \A i \in 1 .. N : (\A k \in i + 1 .. N + 1 : k \in T) => i \in T
    PROVE  \A i \in 1 .. N + 1 : i \in T
<1> DEFINE F == {j \in 0 .. N : N + 1 - j \notin T}
<1>1. F = {}
  <2> SUFFICES ASSUME F # {} PROVE FALSE OBVIOUS
  <2>1. PICK j \in F : \A l \in F : j <= l
    <3>1. F \subseteq Nat OBVIOUS
    <3> HIDE DEF F
    <3> QED BY <3>1, LeastNat
  <2>2. j \in 1 .. N /\ N + 1 - j \in 1 .. N /\ N + 1 - j \notin T
    <3>1. j \in 0 .. N /\ N + 1 - j \notin T OBVIOUS
    <3>2. j # 0 BY <3>1
    <3> QED BY <3>1, <3>2
  <2>3. ASSUME NEW k \in (N + 1 - j) + 1 .. N + 1 PROVE k \in T
    <3>1. N + 1 - k \in 0 .. N /\ ~(j <= N + 1 - k) BY <2>2
    <3>2. N + 1 - k \notin F BY <2>1, <3>1
    <3>3. N + 1 - (N + 1 - k) = k BY <2>2
    <3> QED BY <3>1, <3>2, <3>3
  <2> QED BY <2>2, <2>3
<1>2. ASSUME NEW i \in 1 .. N + 1 PROVE i \in T
  <2>1. N + 1 - i \in 0 .. N /\ N + 1 - (N + 1 - i) = i OBVIOUS
  <2> QED BY <1>1, <2>1
<1> QED BY <1>2

(* And what holds of zero, and of each number whose predecessor it holds    *)
(* of.                                                                      *)
THEOREM Upward ==
    ASSUME NEW N \in Nat, NEW T, 0 \in T, \A i \in 1 .. N : i - 1 \in T => i \in T
    PROVE  \A i \in 0 .. N : i \in T
<1> DEFINE F == {j \in 0 .. N : j \notin T}
<1> SUFFICES ASSUME F # {} PROVE FALSE OBVIOUS
<1>1. PICK j \in F : \A l \in F : j <= l
  <2>1. F \subseteq Nat OBVIOUS
  <2> HIDE DEF F
  <2> QED BY <2>1, LeastNat
<1>2. j \in 1 .. N /\ j \notin T
  <2>1. j \in 0 .. N /\ j \notin T OBVIOUS
  <2> QED BY <2>1
<1>3. j - 1 \in 0 .. N /\ ~(j <= j - 1) BY <1>2
<1> QED BY <1>1, <1>2, <1>3

(* A definition by recursion on a number, each value given by the number    *)
(* and the value before.                                                    *)
Unrolls(f, a, step, N) == f[0] = a /\ \A n \in 1 .. N : f[n] = step[n][f[n - 1]]

Solvable(V, a, step, N) == \E f \in [0 .. N -> V] : Unrolls(f, a, step, N)

(* It has a solution up to any bound.                                       *)
THEOREM Recursion ==
    ASSUME NEW V, NEW a \in V, NEW step \in [Nat -> [V -> V]], NEW N \in Nat
    PROVE  Solvable(V, a, step, N)
<1> USE DEF Unrolls
<1> DEFINE Solved(k) == \E f \in [0 .. k -> V] : Unrolls(f, a, step, k)
           T == {k \in 0 .. N : Solved(k)}
<1>1. Solved(0)
  <2> DEFINE f == [n \in 0 .. 0 |-> a]
  <2>1. f \in [0 .. 0 -> V] /\ f[0] = a OBVIOUS
  <2>2. \A n \in 1 .. 0 : f[n] = step[n][f[n - 1]] OBVIOUS
  <2> QED BY <2>1, <2>2
<1>2. ASSUME NEW k \in 1 .. N, Solved(k - 1) PROVE Solved(k)
  <2>1. PICK f \in [0 .. k - 1 -> V] :
           f[0] = a /\ \A n \in 1 .. k - 1 : f[n] = step[n][f[n - 1]]
    BY <1>2
  <2> DEFINE g == [n \in 0 .. k |-> IF n = k THEN step[k][f[k - 1]] ELSE f[n]]
  <2>2. f[k - 1] \in V /\ step[k] \in [V -> V] BY <2>1
  <2>3. step[k][f[k - 1]] \in V BY <2>2
  <2>4. g \in [0 .. k -> V] BY <2>1, <2>3
  <2>5. g[0] = a BY <2>1
  <2>6. ASSUME NEW n \in 1 .. k PROVE g[n] = step[n][g[n - 1]]
    <3>1. n - 1 \in 0 .. k /\ n - 1 # k /\ g[n - 1] = f[n - 1] OBVIOUS
    <3>2. CASE n = k BY <3>1, <3>2
    <3>3. CASE n # k
      <4>1. n \in 1 .. k - 1 /\ g[n] = f[n] BY <3>3
      <4> QED BY <2>1, <3>1, <4>1
    <3> QED BY <3>2, <3>3
  <2> HIDE DEF g
  <2> QED BY <2>4, <2>5, <2>6
<1> HIDE DEF Solved
<1>3. 0 \in T BY <1>1
<1>4. \A k \in 1 .. N : k - 1 \in T => k \in T BY <1>2
<1> HIDE DEF T
<1>5. \A k \in 0 .. N : k \in T BY <1>3, <1>4, Upward
<1>6. N \in T BY <1>5
<1> QED BY <1>6 DEF T, Solved, Solvable

(* A function from a set to itself can be iterated any number of times.     *)
LEMMA FirstIterates ==
    ASSUME NEW N \in Nat, NEW V, NEW a \in V, NEW step \in [V -> V]
    PROVE  \E f \in [0 .. N -> V] :
              f = [n \in 0 .. N |-> IF n = 0 THEN a ELSE step[f[n - 1]]]
<1> DEFINE each == [n \in Nat |-> step]
<1>1. each \in [Nat -> [V -> V]] OBVIOUS
<1>2. \A n \in 1 .. N, v \in V : each[n][v] = step[v] OBVIOUS
<1> HIDE DEF each
<1>3. PICK f \in [0 .. N -> V] :
         f[0] = a /\ \A n \in 1 .. N : f[n] = each[n][f[n - 1]]
  <2>1. Solvable(V, a, each, N) BY <1>1, Recursion
  <2> QED BY <2>1 DEF Solvable, Unrolls
<1>4. ASSUME NEW n \in 1 .. N PROVE f[n] = step[f[n - 1]]
  <2>1. f[n - 1] \in V OBVIOUS
  <2> QED BY <1>2, <1>3, <2>1
<1>5. \A n \in 0 .. N : f[n] = IF n = 0 THEN a ELSE step[f[n - 1]] BY <1>3, <1>4
<1>6. f = [n \in 0 .. N |-> IF n = 0 THEN a ELSE step[f[n - 1]]] BY <1>5
<1> QED BY <1>6

(* Iterating a function from a set to itself gives elements of the set: a   *)
(* definition by recursion on a number has a solution.                      *)
THEOREM Iterates ==
    ASSUME NEW V, NEW a \in V, NEW step \in [V -> V]
    PROVE  \E f \in [Nat -> V] :
              f = [n \in Nat |-> IF n = 0 THEN a ELSE step[f[n - 1]]]
<1> DEFINE Solves(f, N) == f = [n \in 0 .. N |-> IF n = 0 THEN a ELSE step[f[n - 1]]]
           F(N) == CHOOSE f \in [0 .. N -> V] : Solves(f, N)
<1>1. ASSUME NEW N \in Nat PROVE F(N) \in [0 .. N -> V] /\ Solves(F(N), N)
  <2>1. \E f \in [0 .. N -> V] : Solves(f, N) BY FirstIterates
  <2> QED BY <2>1
<1> HIDE DEF F
<1>2. ASSUME NEW N \in Nat, NEW k \in 0 .. N
      PROVE  F(N)[k] = IF k = 0 THEN a ELSE step[F(N)[k - 1]]
  BY <1>1
<1>3. ASSUME NEW N \in Nat, N # 0 PROVE F(N)[N - 1] = F(N - 1)[N - 1]
  <2> DEFINE T == {k \in 0 .. N - 1 : F(N)[k] # F(N - 1)[k]}
  <2> SUFFICES ASSUME T # {} PROVE FALSE BY <1>3
  <2>1. PICK k \in T : \A l \in T : k <= l
    <3>1. T \subseteq Nat BY <1>3
    <3> QED BY <3>1, LeastNat
  <2>2. k \in 0 .. N - 1 /\ k \in 0 .. N /\ N - 1 \in Nat BY <1>3
  <2>3. k # 0 BY <1>2, <2>2
  <2>4. k - 1 \in 0 .. N - 1 /\ ~(k <= k - 1) BY <1>3, <2>2, <2>3
  <2>5. F(N)[k - 1] = F(N - 1)[k - 1] BY <2>1, <2>4
  <2> QED BY <1>2, <2>2, <2>3, <2>5
<1> DEFINE g == [n \in Nat |-> F(n)[n]]
<1>4. ASSUME NEW n \in Nat PROVE F(n)[n] \in V BY <1>1
<1>5. ASSUME NEW n \in Nat PROVE g[n] = IF n = 0 THEN a ELSE step[g[n - 1]]
  <2>1. CASE n = 0 BY <1>2, <2>1
  <2>2. CASE n # 0
    <3>1. n - 1 \in Nat /\ g[n - 1] = F(n - 1)[n - 1] BY <2>2
    <3> QED BY <1>2, <1>3, <2>2, <3>1
  <2> QED BY <2>1, <2>2
<1>6. g \in [Nat -> V] BY <1>4
<1>7. g = [n \in Nat |-> IF n = 0 THEN a ELSE step[g[n - 1]]] BY <1>5
<1> QED BY <1>6, <1>7
=============================================================================
