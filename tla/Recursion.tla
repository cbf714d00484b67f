------------------------------ MODULE Recursion ------------------------------
(***************************************************************************)
(* Induction and recursive definition over 0..N, stated with sets and      *)
(* functions so that the provers can apply them: a predicate is the set of *)
(* the numbers it holds of, a recursive step is a function.  Both rest on  *)
(* the least number of a set.                                              *)
(***************************************************************************)
EXTENDS Integers, Selection, WellFoundedInduction, TLAPS

(* A set of natural numbers has a least one. *)
LEMMA LeastNumber ==
    ASSUME NEW T \in SUBSET Nat, T # {}
    PROVE  \E m \in T : \A k \in T : m <= k
<1> DEFINE R == OpToRel(<, Nat)
<1>1. IsWellFoundedOn(R, Nat)
  BY NatLessThanWellFounded
<1>2. \A x, y \in Nat : x < y => <<x, y>> \in R
  BY DEF OpToRel
<1> HIDE DEF R
<1>3. PICK m \in T : \A y \in T : ~(<<y, m>> \in R)
  BY <1>1, WFMin
<1>4. \A y \in T : y \in Nat /\ ~(y < m)
  BY <1>2, <1>3
<1>5. \A y \in T : m <= y
  BY <1>4
<1> QED
  BY <1>5

(* What holds of zero and passes to the next number holds up to N. *)
LEMMA UpTo ==
    ASSUME NEW N \in Nat, NEW S, 0 \in S, \A i \in 1..N : i - 1 \in S => i \in S
    PROVE  \A i \in 0..N : i \in S
<1> DEFINE T == {i \in 0..N : i \notin S}
<1> SUFFICES ASSUME T # {} PROVE FALSE
  OBVIOUS
<1>1. T \in SUBSET Nat
  OBVIOUS
<1> HIDE DEF T
<1>2. PICK m \in T : \A k \in T : m <= k
  BY <1>1, LeastNumber
<1>3. m \in 1..N /\ m \notin S
  BY DEF T
<1>4. m - 1 \notin T
  BY <1>1, <1>2
<1>5. m - 1 \in S
  BY <1>3, <1>4 DEF T
<1> QED
  BY <1>3, <1>5

Steps(step, V, N) == \A n \in 1..N, v \in V : step[<<n, v>>] \in V

Unfolds(g, V, a, N, step) ==
    /\ g \in [0..N -> V]
    /\ g[0] = a
    /\ \A i \in 1..N : g[i] = step[<<i, g[i - 1]>>]

(* A function can be defined by its value at zero and a step. *)
LEMMA RecursiveFunction ==
    ASSUME NEW V, NEW a \in V, NEW N \in Nat, NEW step, Steps(step, V, N)
    PROVE  \E g : Unfolds(g, V, a, N, step)
<1> DEFINE G(n) == {g \in [0..n -> V] :
                       g[0] = a /\ \A i \in 1..n : g[i] = step[<<i, g[i - 1]>>]}
           S == {n \in 0..N : G(n) # {}}
<1>1. 0 \in S
  <2> DEFINE g == [i \in 0..0 |-> a]
  <2>1. g \in G(0)
    OBVIOUS
  <2> QED
    BY <2>1
<1>2. ASSUME NEW n \in 1..N, n - 1 \in S
      PROVE  n \in S
  <2>1. PICK g \in G(n - 1) : TRUE
    BY <1>2
  <2> DEFINE h == [i \in 0..n |-> IF i = n THEN step[<<n, g[n - 1]>>] ELSE g[i]]
  <2>2. /\ g \in [0..(n - 1) -> V] /\ g[0] = a
        /\ \A i \in 1..(n - 1) : g[i] = step[<<i, g[i - 1]>>]
    BY <2>1
  <2>3. h \in [0..n -> V]
    BY <2>2 DEF Steps
  <2>4. h[0] = a
    BY <2>2
  <2>5. ASSUME NEW i \in 1..n PROVE h[i] = step[<<i, h[i - 1]>>]
    <3>1. i - 1 \in 0..n /\ i - 1 # n /\ h[i - 1] = g[i - 1]
      OBVIOUS
    <3>2. CASE i = n
      BY <3>1, <3>2
    <3>3. CASE i # n
      <4>1. i \in 1..(n - 1) /\ h[i] = g[i]
        BY <3>3
      <4> QED
        BY <2>2, <3>1, <4>1
    <3> QED
      BY <3>2, <3>3
  <2>6. h \in G(n)
    <3> HIDE DEF h
    <3> QED BY <2>3, <2>4, <2>5
  <2> HIDE DEF G
  <2> QED
    BY <2>6
<1> HIDE DEF S
<1>3. N \in S
  BY <1>1, <1>2, UpTo
<1> QED
  BY <1>3 DEF S, Unfolds

(* A query returns rows it was asked for. *)
LEMMA SelectionTyped ==
    ASSUME NEW n \in Nat, NEW S \in SUBSET (1..n), NEW limit
    PROVE  OrderByLimit(S, n, limit) \in Seq(S)
<1> DEFINE V == Seq(S)
           one(k, s) == IF k \in S /\ Len(s) < limit THEN Append(s, k) ELSE s
           step == [x \in (1..n) \X V |-> one(x[1], x[2])]
           P(t) == t = [k \in 0..n |->
                          IF k = 0 THEN <<>>
                          ELSE IF k \in S /\ Len(t[k - 1]) < limit THEN Append(t[k - 1], k)
                          ELSE t[k - 1]]
<1>1. <<>> \in V /\ \A k \in 1..n, s \in V : one(k, s) \in V
  OBVIOUS
<1>2. \A k \in 1..n, s \in V : step[<<k, s>>] = one(k, s)
  OBVIOUS
<1>3. OrderByLimit(S, n, limit) = (CHOOSE t : P(t))[n]
  BY DEF OrderByLimit
<1> HIDE DEF step, one, V
<1>4. PICK g \in [0..n -> V] : g[0] = <<>> /\ \A i \in 1..n : g[i] = step[<<i, g[i - 1]>>]
  <2> DEFINE e == <<>>
  <2>1. e \in V /\ Steps(step, V, n)
    BY <1>1, <1>2 DEF Steps
  <2> HIDE DEF e, P
  <2>2. \E g : Unfolds(g, V, e, n, step)
    BY <2>1, RecursiveFunction
  <2> QED BY <2>2 DEF e, Unfolds
<1>5. P(g)
  <2>1. ASSUME NEW i \in 1..n PROVE g[i] = one(i, g[i - 1])
    <3>1. i - 1 \in 0..n
      OBVIOUS
    <3>2. g[i - 1] \in V
      BY <3>1
    <3> QED BY <1>2, <1>4, <3>2
  <2>2. g = [k \in 0..n |-> g[k]]
    OBVIOUS
  <2>3. \A k \in 0..n : g[k] = IF k = 0 THEN <<>> ELSE one(k, g[k - 1])
    BY <1>4, <2>1
  <2>4. g = [k \in 0..n |-> IF k = 0 THEN <<>> ELSE one(k, g[k - 1])]
    BY <2>2, <2>3
  <2> QED BY <2>4 DEF one
<1> DEFINE T == CHOOSE t : P(t)
<1>6. P(T)
  BY <1>5
<1> HIDE DEF T
<1>7. T = [k \in 0..n |-> IF k = 0 THEN <<>> ELSE one(k, T[k - 1])]
  BY <1>6 DEF one
<1> HIDE DEF P
<1>8. \A k \in 0..n : T[k] = IF k = 0 THEN <<>> ELSE one(k, T[k - 1])
  BY <1>7
<1> DEFINE M == {k \in 0..n : T[k] \in V}
<1>9. 0 \in M
  <2>1. 0 \in 0..n
    OBVIOUS
  <2>2. T[0] \in V
    BY <1>1, <1>8, <2>1
  <2> QED BY <2>1, <2>2
<1>10. ASSUME NEW k \in 1..n, k - 1 \in M PROVE k \in M
  <2>1. T[k] = one(k, T[k - 1]) /\ T[k - 1] \in V /\ k \in 0..n
    BY <1>8, <1>10
  <2> QED BY <1>1, <2>1
<1> HIDE DEF M
<1>11. n \in M
  BY <1>9, <1>10, UpTo
<1> QED
  BY <1>3, <1>11 DEF M, T, V
==============================================================================
