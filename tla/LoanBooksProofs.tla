--------------------------- MODULE LoanBooksProofs ---------------------------
(***************************************************************************)
(* Theorems about LoanManager, for any number of users and loans, any      *)
(* amounts and any parameters: the books kept beside the loans agree with  *)
(* them, the contract holds exactly the collateral its loans record, no    *)
(* amount becomes negative, the split of a repayment is exact, and whoever *)
(* defaults is flagged.  With the history variables of MCLoanParams and    *)
(* MCLoanDebt: risk parameters only take values announced a timelock ago,  *)
(* and interest and late fees are never more than their exact count.       *)
(*                                                                         *)
(* The totals are sums over all ids (OwedSum, HeldSum, Places), so that a  *)
(* call that stores one loan posts one difference (Posts): one lemma keeps *)
(* the books for every such call (PostingKeepsBooks), and check_defaults,  *)
(* which stores several at once, has its own.                              *)
(***************************************************************************)
EXTENDS LoanManagerProofs, MCLoanParams, MCLoanDebt, FiniteSetTheorems, Recursion

------------------------------------------------------------------------------
(* Sums over loans, as the number of their units.                           *)

SumUnits(f, S) == UNION {{i} \X (1..f[i]) : i \in S}

(* A pair is a unit of the sum exactly if it is one of its index. *)
LEMMA UnitOfSum ==
    ASSUME NEW f, NEW S
    PROVE  /\ \A i, k : <<i, k>> \in SumUnits(f, S) <=> i \in S /\ k \in 1..f[i]
           /\ \A u \in SumUnits(f, S) : \E i, k : u = <<i, k>>
BY DEF SumUnits

(* A finite sum of naturals is a natural. *)
LEMMA SumType ==
    ASSUME NEW S, IsFiniteSet(S), NEW f, \A i \in S : f[i] \in Nat
    PROVE  IsFiniteSet(SumUnits(f, S)) /\ Sum(f, S) \in Nat
<1> DEFINE B == [i \in S |-> {i} \X (1..f[i])]
           R == {B[i] : i \in S}
<1>1. B \in Surjection(S, R)
  BY DEF Surjection
<1>2. IsFiniteSet(R)
  BY <1>1, FS_Surjection
<1>3. \A b \in R : IsFiniteSet(b)
  <2> TAKE b \in R
  <2> PICK i \in S : b = {i} \X (1..f[i])
    OBVIOUS
  <2>1. IsFiniteSet(1..f[i])
    BY FS_Interval
  <2> QED BY <2>1, FS_Singleton, FS_Product
<1>4. SumUnits(f, S) = UNION R
  BY DEF SumUnits
<1> HIDE DEF R
<1>5. IsFiniteSet(SumUnits(f, S))
  BY <1>2, <1>3, <1>4, FS_UNION
<1> QED
  BY <1>5, FS_CardinalityType DEF Sum, SumUnits

(* The sum over two disjoint sets. *)
LEMMA SumDisjoint ==
    ASSUME NEW S, IsFiniteSet(S), NEW T, IsFiniteSet(T), S \cap T = {},
           NEW f, \A i \in S \cup T : f[i] \in Nat
    PROVE  Sum(f, S \cup T) = Sum(f, S) + Sum(f, T)
<1>1. SumUnits(f, S \cup T) = SumUnits(f, S) \cup SumUnits(f, T)
  BY DEF SumUnits
<1>2. SumUnits(f, S) \cap SumUnits(f, T) = {}
  BY DEF SumUnits
<1>3. IsFiniteSet(SumUnits(f, S)) /\ IsFiniteSet(SumUnits(f, T))
  BY SumType
<1>4. Cardinality(SumUnits(f, S)) \in Nat /\ Cardinality(SumUnits(f, T)) \in Nat
  BY <1>3, FS_CardinalityType
<1>5. Cardinality(SumUnits(f, S \cup T)) =
        Cardinality(SumUnits(f, S)) + Cardinality(SumUnits(f, T))
  <2> DEFINE A == SumUnits(f, S)
             B == SumUnits(f, T)
  <2> HIDE DEF A, B
  <2>1. Cardinality(A \cup B) = Cardinality(A) + Cardinality(B) - Cardinality(A \cap B)
    BY <1>3, FS_Union DEF A, B
  <2>2. Cardinality(A \cap B) = 0
    BY <1>2, FS_EmptySet DEF A, B
  <2>3. Cardinality(A) \in Nat /\ Cardinality(B) \in Nat
    BY <1>4 DEF A, B
  <2>4. Cardinality(A \cup B) = Cardinality(A) + Cardinality(B)
    BY <2>1, <2>2, <2>3
  <2> QED
    BY <1>1, <2>4 DEF A, B
<1> QED
  BY <1>4, <1>5 DEF Sum, SumUnits

(* The sum over one index. *)
LEMMA SumSingle ==
    ASSUME NEW i, NEW f, f[i] \in Nat
    PROVE  Sum(f, {i}) = f[i]
<1>1. UNION {{j} \X (1..f[j]) : j \in {i}} = {i} \X (1..f[i])
  OBVIOUS
<1>2. IsFiniteSet(1..f[i]) /\ Cardinality(1..f[i]) = f[i]
  BY FS_Interval
<1>3. IsFiniteSet({i}) /\ Cardinality({i}) = 1
  BY FS_Singleton
<1>4. Cardinality({i} \X (1..f[i])) = 1 * f[i]
  BY <1>2, <1>3, FS_Product
<1> QED
  BY <1>1, <1>4 DEF Sum

(* A sum depends on the summands only. *)
LEMMA SumSame ==
    ASSUME NEW S, NEW f, NEW g, \A i \in S : f[i] = g[i]
    PROVE  Sum(f, S) = Sum(g, S)
<1>1. UNION {{i} \X (1..f[i]) : i \in S} = UNION {{i} \X (1..g[i]) : i \in S}
  OBVIOUS
<1> QED
  BY <1>1 DEF Sum

(* A sum of zeros. *)
LEMMA SumZero ==
    ASSUME NEW S, NEW f, \A i \in S : f[i] = 0
    PROVE  Sum(f, S) = 0
<1>1. 1..0 = {}
  OBVIOUS
<1>2. UNION {{i} \X (1..f[i]) : i \in S} = {}
  BY <1>1
<1> QED
  BY <1>2, FS_EmptySet DEF Sum

(* Adding an index. *)
LEMMA SumAdd ==
    ASSUME NEW S, IsFiniteSet(S), NEW i, i \notin S,
           NEW f, \A j \in S \cup {i} : f[j] \in Nat
    PROVE  Sum(f, S \cup {i}) = Sum(f, S) + f[i]
<1>1. IsFiniteSet({i}) /\ S \cap {i} = {} /\ f[i] \in Nat
  BY FS_Singleton
<1>2. Sum(f, S \cup {i}) = Sum(f, S) + Sum(f, {i})
  BY <1>1, SumDisjoint
<1> QED
  BY <1>1, <1>2, SumSingle

(* Taking out an index. *)
LEMMA SumRemove ==
    ASSUME NEW S, IsFiniteSet(S), NEW i \in S, NEW f, \A j \in S : f[j] \in Nat
    PROVE  /\ Sum(f, S \ {i}) = Sum(f, S) - f[i]
           /\ Sum(f, S \ {i}) \in Nat
<1>1. IsFiniteSet(S \ {i}) /\ S = (S \ {i}) \cup {i}
  BY FS_Difference
<1>2. Sum(f, S) = Sum(f, S \ {i}) + f[i]
  BY <1>1, SumAdd
<1>3. Sum(f, S \ {i}) \in Nat
  BY <1>1, SumType
<1> QED
  BY <1>2, <1>3

(* Taking out a set of indices. *)
LEMMA SumDrop ==
    ASSUME NEW S, IsFiniteSet(S), NEW D \in SUBSET S, NEW f, \A j \in S : f[j] \in Nat
    PROVE  Sum(f, S \ D) = Sum(f, S) - Sum(f, D)
<1>1. IsFiniteSet(S \ D) /\ IsFiniteSet(D) /\ S = (S \ D) \cup D /\ (S \ D) \cap D = {}
  BY FS_Difference, FS_Subset
<1>2. Sum(f, S) = Sum(f, S \ D) + Sum(f, D)
  <2> DEFINE T == S \ D
  <2>1. IsFiniteSet(T) /\ IsFiniteSet(D) /\ S = T \cup D /\ T \cap D = {}
    BY <1>1
  <2> HIDE DEF T
  <2>2. Sum(f, T \cup D) = Sum(f, T) + Sum(f, D)
    BY <2>1, SumDisjoint
  <2> QED
    BY <2>1, <2>2 DEF T
<1>3. Sum(f, S \ D) \in Nat /\ Sum(f, D) \in Nat
  BY <1>1, SumType
<1> QED
  BY <1>1, <1>2, <1>3

(* Setting the summands of a set of indices to zero. *)
LEMMA SumCleared ==
    ASSUME NEW S, IsFiniteSet(S), NEW D \in SUBSET S, NEW f, NEW g,
           \A j \in S : f[j] \in Nat, \A j \in S \ D : g[j] = f[j], \A j \in D : g[j] = 0
    PROVE  Sum(g, S) = Sum(f, S) - Sum(f, D)
<1>1. \A j \in S : g[j] \in Nat
  OBVIOUS
<1>2. Sum(g, D) = 0
  BY SumZero
<1>3. Sum(g, S \ D) = Sum(g, S) - Sum(g, D)
  BY <1>1, SumDrop
<1>4. Sum(f, S \ D) = Sum(f, S) - Sum(f, D)
  BY SumDrop
<1>5. Sum(g, S \ D) = Sum(f, S \ D)
  <2> DEFINE T == S \ D
  <2>1. \A j \in T : g[j] = f[j]
    OBVIOUS
  <2> HIDE DEF T
  <2>2. Sum(g, T) = Sum(f, T)
    BY <2>1, SumSame
  <2> QED
    BY <2>2 DEF T
<1>6. Sum(g, S) \in Nat
  BY <1>1, SumType
<1> QED
  BY <1>2, <1>3, <1>4, <1>5, <1>6

(* Replacing one summand. *)
LEMMA SumReplace ==
    ASSUME NEW S, IsFiniteSet(S), NEW i \in S,
           NEW f, NEW g, \A j \in S : f[j] \in Nat /\ g[j] \in Nat,
           \A j \in S : j # i => g[j] = f[j]
    PROVE  Sum(g, S) = Sum(f, S) - f[i] + g[i]
<1>1. Sum(f, S \ {i}) = Sum(g, S \ {i})
  <2>1. \A j \in S \ {i} : f[j] = g[j]
    OBVIOUS
  <2> QED
    BY <2>1, SumSame
<1>2. Sum(f, S \ {i}) = Sum(f, S) - f[i] /\ Sum(g, S \ {i}) = Sum(g, S) - g[i]
  BY SumRemove
<1>3. Sum(f, S) \in Nat /\ Sum(g, S) \in Nat
  BY SumType
<1> QED
  BY <1>1, <1>2, <1>3

------------------------------------------------------------------------------
(* The repayment split.                                                     *)

(* What floor division leaves. *)
LEMMA DivMod ==
    ASSUME NEW a \in Nat, NEW b \in Nat, b > 0
    PROVE  a \div b \in Nat /\ a % b \in 0..(b - 1) /\ a = b * (a \div b) + (a % b)
<1> DEFINE q == a \div b
<1>1. q \in Int /\ a = b * q + (a % b) /\ a % b \in 0..(b - 1)
  BY SMT
<1>2. q >= 0
  <2> SUFFICES ASSUME q <= -1 PROVE FALSE
    BY <1>1, SMT
  <2>1. b * q <= -b
    <3> HIDE DEF q
    <3> QED BY <1>1, SMT
  <2> QED BY <1>1, <2>1, SMT
<1> QED
  BY <1>1, <1>2

(* Of an amount up to the debt no bucket's share is more than its due, and  *)
(* it is less if there is a remainder.                                      *)
LEMMA ShareBounds ==
    ASSUME NEW D \in Nat, D > 0, NEW n \in 0..D, NEW d \in Nat
    PROVE  LET q == (n * d) \div D
               r == (n * d) % D
           IN  /\ q \in Nat /\ r \in 0..(D - 1) /\ n * d = D * q + r
               /\ q <= d
               /\ r > 0 => q < d
<1> DEFINE q == (n * d) \div D
           r == (n * d) % D
<1>1. n * d \in Nat
  BY SMT
<1>2. q \in Nat /\ r \in 0..(D - 1) /\ n * d = D * q + r
  BY <1>1, DivMod
<1>3. n * d <= D * d
  BY SMT
<1> HIDE DEF q, r
<1>4. D * q + r <= D * d
  BY <1>2, <1>3
<1>5. q <= d
  <2> SUFFICES ASSUME q >= d + 1 PROVE FALSE
    BY <1>2, SMT
  <2>1. D * q >= D * (d + 1)
    BY <1>2, SMT
  <2>2. D * (d + 1) = D * d + D
    BY SMT
  <2> QED BY <1>2, <1>4, <2>1, <2>2, SMT
<1>6. ASSUME r > 0 PROVE q < d
  <2> SUFFICES ASSUME q = d PROVE FALSE
    BY <1>2, <1>5, SMT
  <2> QED BY <1>2, <1>4, <1>6, SMT
<1> QED
  BY <1>2, <1>5, <1>6 DEF q, r

Bit(b) == IF b THEN 1 ELSE 0

(* The number of buckets in a set. *)
LEMMA BucketCount ==
    ASSUME NEW S \in SUBSET Buckets
    PROVE  Cardinality(S) = Bit(1 \in S) + Bit(2 \in S) + Bit(3 \in S)
<1>1. IsFiniteSet(S)
  <2> DEFINE lo == 1
             hi == 3
  <2>1. lo \in Int /\ hi \in Int /\ Buckets = lo..hi
    BY DEF Buckets
  <2> HIDE DEF lo, hi
  <2> QED BY <2>1, FS_Interval, FS_Subset
<1> DEFINE S1 == S \ {1}
           S2 == S1 \ {2}
           S3 == S2 \ {3}
<1>2. IsFiniteSet(S1) /\ IsFiniteSet(S2) /\ IsFiniteSet(S3)
  BY <1>1, FS_RemoveElement
<1>3. Cardinality(S1) = Cardinality(S) - Bit(1 \in S)
  BY <1>1, FS_RemoveElement, FS_CardinalityType DEF Bit
<1>4. Cardinality(S2) = Cardinality(S1) - Bit(2 \in S)
  <2>1. 2 \in S <=> 2 \in S1
    OBVIOUS
  <2> HIDE DEF S1
  <2> QED BY <1>2, <2>1, FS_RemoveElement, FS_CardinalityType DEF Bit
<1>5. Cardinality(S3) = Cardinality(S2) - Bit(3 \in S)
  <2>1. 3 \in S <=> 3 \in S2
    OBVIOUS
  <2> HIDE DEF S2
  <2> QED BY <1>2, <2>1, FS_RemoveElement, FS_CardinalityType DEF Bit
<1>6. S3 = {}
  BY DEF Buckets
<1>7. Cardinality(S3) = 0
  BY <1>6, FS_EmptySet
<1>8. Cardinality(S) \in Nat
  BY <1>1, FS_CardinalityType
<1> HIDE DEF S1, S2, S3
<1> QED
  BY <1>3, <1>4, <1>5, <1>7, <1>8 DEF Bit

(* A loan as far as the split looks at it: what is due in each bucket is a  *)
(* natural number.                                                          *)
DuesTyped(l) == RemainingPrincipal(l) \in Nat /\ l.interest \in Nat /\ l.lateFee \in Nat

(* For every amount up to the debt the loop terminates, hands out the whole *)
(* amount and overpays no bucket.                                           *)
LEMMA SplitExact ==
    ASSUME NEW l, DuesTyped(l), NEW n \in 1..Debt(l)
    PROVE  /\ SplitDefined(l, n)
           /\ Split(l, n, 1) + Split(l, n, 2) + Split(l, n, 3) = n
           /\ \A k \in Buckets : Split(l, n, k) \in Nat /\ Split(l, n, k) <= Dues(l)[k]
<1> DEFINE D == Debt(l)
           d1 == RemainingPrincipal(l)
           d2 == l.interest
           d3 == l.lateFee
           q(k) == Share(l, n, k)
           r(k) == Remainder(l, n, k)
           u == Unallocated(l, n)
           O == Open(l, n)
           P(k) == Precede(l, n, k)
<1>1. d1 \in Nat /\ d2 \in Nat /\ d3 \in Nat /\ D = d1 + d2 + d3
  BY DEF DuesTyped, Debt
<1>2. D \in Nat /\ D > 0 /\ n \in 0..D /\ n \in Nat
  BY <1>1
<1>3. /\ q(1) = (n * d1) \div D /\ r(1) = (n * d1) % D
      /\ q(2) = (n * d2) \div D /\ r(2) = (n * d2) % D
      /\ q(3) = (n * d3) \div D /\ r(3) = (n * d3) % D
      /\ Dues(l)[1] = d1 /\ Dues(l)[2] = d2 /\ Dues(l)[3] = d3
  BY DEF Share, Remainder, Dues
<1>4. u = n - q(1) - q(2) - q(3)
  BY DEF Unallocated
<1>5. \A k \in Buckets : k \in O <=> Dues(l)[k] > q(k)
  BY DEF Open
<1>6. \A j, k \in Buckets : j \in P(k) <=> j \in O /\ (r(j) > r(k) \/ (r(j) = r(k) /\ j < k))
  BY DEF Precede, Open
<1>7. O \in SUBSET Buckets /\ \A k \in Buckets : P(k) \in SUBSET Buckets
  BY DEF Open, Precede
<1>8. \A k \in Buckets : Split(l, n, k) = q(k) + IF k \in O /\ Cardinality(P(k)) < u THEN 1 ELSE 0
  BY DEF Split
<1>9. SplitDefined(l, n) <=> u <= Cardinality(O)
  BY DEF SplitDefined
<1> HIDE DEF D, d1, d2, d3, q, r, u, O, P
<1>10. /\ q(1) \in Nat /\ r(1) \in 0..(D - 1) /\ n * d1 = D * q(1) + r(1) /\ q(1) <= d1
       /\ r(1) > 0 => q(1) < d1
  BY <1>1, <1>2, <1>3, ShareBounds
<1>11. /\ q(2) \in Nat /\ r(2) \in 0..(D - 1) /\ n * d2 = D * q(2) + r(2) /\ q(2) <= d2
       /\ r(2) > 0 => q(2) < d2
  BY <1>1, <1>2, <1>3, ShareBounds
<1>12. /\ q(3) \in Nat /\ r(3) \in 0..(D - 1) /\ n * d3 = D * q(3) + r(3) /\ q(3) <= d3
       /\ r(3) > 0 => q(3) < d3
  BY <1>1, <1>2, <1>3, ShareBounds
<1>13. /\ u \in 0..2 /\ (u = 1 => r(1) + r(2) + r(3) = D)
       /\ (u = 2 => r(1) + r(2) + r(3) = D + D) /\ (u = 0 => r(1) + r(2) + r(3) = 0)
  <2>1. n * D = n * d1 + n * d2 + n * d3
    BY <1>1, <1>2, SMT
  <2>2. D * u = D * n - D * q(1) - D * q(2) - D * q(3)
    BY <1>2, <1>4, <1>10, <1>11, <1>12, SMT
  <2>3. u \in Int /\ D * n = n * D
    BY <1>2, <1>4, <1>10, <1>11, <1>12, SMT
  <2>4. D * u = r(1) + r(2) + r(3)
    BY <1>2, <1>10, <1>11, <1>12, <2>1, <2>2, <2>3, SMT
  <2>5. u >= 0
    <3> SUFFICES ASSUME u <= -1 PROVE FALSE
      BY <2>3, SMT
    <3>1. D * u <= -D
      BY <1>2, <2>3, SMT
    <3> QED BY <1>2, <1>10, <1>11, <1>12, <2>4, <3>1, SMT
  <2>6. u <= 2
    <3> SUFFICES ASSUME u >= 3 PROVE FALSE
      BY <2>3, SMT
    <3>1. D * u >= D * 3
      BY <1>2, <2>3, SMT
    <3> QED BY <1>2, <1>10, <1>11, <1>12, <2>4, <3>1, SMT
  <2> QED
    BY <1>2, <1>10, <1>11, <1>12, <2>3, <2>4, <2>5, <2>6, SMT
<1>14. 1 \in Buckets /\ 2 \in Buckets /\ 3 \in Buckets /\ Buckets = {1, 2, 3}
  BY DEF Buckets
<1>15. /\ Cardinality(O) = Bit(1 \in O) + Bit(2 \in O) + Bit(3 \in O)
       /\ \A k \in Buckets : Cardinality(P(k)) = Bit(1 \in P(k)) + Bit(2 \in P(k)) + Bit(3 \in P(k))
  BY <1>7, BucketCount
<1>16. /\ 1 \in O <=> d1 > q(1)
       /\ 2 \in O <=> d2 > q(2)
       /\ 3 \in O <=> d3 > q(3)
  BY <1>3, <1>5, <1>14
<1>17. u <= Cardinality(O)
  <2>1. (r(1) > 0 => 1 \in O) /\ (r(2) > 0 => 2 \in O) /\ (r(3) > 0 => 3 \in O)
    BY <1>10, <1>11, <1>12, <1>16
  <2>2. u <= Bit(1 \in O) + Bit(2 \in O) + Bit(3 \in O)
    BY <1>2, <1>10, <1>11, <1>12, <1>13, <2>1 DEF Bit
  <2> QED
    BY <1>15, <2>2
<1>18. /\ Cardinality(P(1)) = Bit(2 \in O /\ r(2) > r(1)) + Bit(3 \in O /\ r(3) > r(1))
       /\ Cardinality(P(2)) = Bit(1 \in O /\ r(1) >= r(2)) + Bit(3 \in O /\ r(3) > r(2))
       /\ Cardinality(P(3)) = Bit(1 \in O /\ r(1) >= r(3)) + Bit(2 \in O /\ r(2) >= r(3))
  BY <1>6, <1>10, <1>11, <1>12, <1>14, <1>15 DEF Bit
<1> DEFINE s(k) == IF k \in O /\ Cardinality(P(k)) < u THEN 1 ELSE 0
<1>19. s(1) + s(2) + s(3) = u
  BY <1>10, <1>11, <1>12, <1>13, <1>15, <1>17, <1>18 DEF Bit
<1>20. /\ Split(l, n, 1) = q(1) + s(1) /\ Split(l, n, 2) = q(2) + s(2)
       /\ Split(l, n, 3) = q(3) + s(3)
  BY <1>8, <1>14
<1>21. /\ s(1) \in {0, 1} /\ (s(1) = 1 => d1 > q(1))
       /\ s(2) \in {0, 1} /\ (s(2) = 1 => d2 > q(2))
       /\ s(3) \in {0, 1} /\ (s(3) = 1 => d3 > q(3))
  BY <1>16
<1> HIDE DEF s
<1>22. Split(l, n, 1) + Split(l, n, 2) + Split(l, n, 3) = n
  BY <1>2, <1>4, <1>10, <1>11, <1>12, <1>19, <1>20, <1>21
<1>23. \A k \in Buckets : Split(l, n, k) \in Nat /\ Split(l, n, k) <= Dues(l)[k]
  BY <1>1, <1>3, <1>10, <1>11, <1>12, <1>14, <1>20, <1>21
<1> QED
  BY <1>9, <1>17, <1>22, <1>23

------------------------------------------------------------------------------
(* Loans through accruals and payments.                                     *)

(* A stored loan: of the declared type, and no more principal paid than     *)
(* lent.                                                                    *)
SoundLoan(l) == l \in Loan /\ l.principalPaid <= l.amount

(* An accrual changes only what is owed and since when. *)
SameBooks(l, m) ==
    /\ m.borrower = l.borrower /\ m.amount = l.amount /\ m.collateral = l.collateral
    /\ m.principalPaid = l.principalPaid /\ m.status = l.status

(* accrue_interest. *)
LEMMA AccrueInterestSound ==
    ASSUME NEW l, SoundLoan(l), ledger \in Nat
    PROVE  SoundLoan(AccrueInterest(l)) /\ SameBooks(l, AccrueInterest(l))
<1> DEFINE m == RemainingPrincipal(l) * l.rate * (ledger - l.lastInterest) * Precision
           d == Bps * Term
           scaled == m \div d
           carried == l.residual + (scaled % Precision)
<1> USE DEF SoundLoan, SameBooks
<1>1. CASE l.status # "Approved" \/ l.lastInterest = 0 \/ ledger <= l.lastInterest
  BY <1>1 DEF AccrueInterest
<1>2. CASE /\ ~(l.status # "Approved" \/ l.lastInterest = 0 \/ ledger <= l.lastInterest)
           /\ RemainingPrincipal(l) <= 0
  <2>1. AccrueInterest(l) = [l EXCEPT !.lastInterest = ledger]
    BY <1>2 DEF AccrueInterest
  <2> QED
    BY <2>1 DEF Loan
<1>3. CASE /\ ~(l.status # "Approved" \/ l.lastInterest = 0 \/ ledger <= l.lastInterest)
           /\ ~(RemainingPrincipal(l) <= 0)
  <2>1. RemainingPrincipal(l) \in Nat /\ l.rate \in Nat /\ ledger - l.lastInterest \in Nat
        /\ Precision \in Nat /\ Precision > 0
    BY <1>3, LoanConstants DEF Loan, RemainingPrincipal
  <2>2. m \in Nat
    <3>1. RemainingPrincipal(l) * l.rate \in Nat
      BY <2>1, SMT
    <3>2. RemainingPrincipal(l) * l.rate * (ledger - l.lastInterest) \in Nat
      BY <2>1, <3>1, SMT
    <3> QED
      BY <2>1, <3>2, SMT
  <2>3. d \in Nat /\ d > 0
    BY LoanConstants, SMT
  <2>4. AccrueInterest(l) =
           [l EXCEPT !.interest = @ + (scaled \div Precision) + (carried \div Precision),
                     !.residual = carried % Precision,
                     !.lastInterest = ledger]
    BY <1>3 DEF AccrueInterest
  <2> HIDE DEF m, d
  <2>5. scaled \in Nat
    BY <2>2, <2>3, DivMod
  <2> HIDE DEF scaled
  <2>6. scaled \div Precision \in Nat /\ scaled % Precision \in Nat
    BY <2>1, <2>5, DivMod
  <2>7. carried \in Nat
    BY <2>6 DEF Loan
  <2> HIDE DEF carried
  <2>8. carried \div Precision \in Nat /\ carried % Precision \in Nat
    BY <2>1, <2>7, DivMod
  <2>9. l.interest + (scaled \div Precision) + (carried \div Precision) \in Nat
    BY <2>6, <2>8 DEF Loan
  <2> QED
    BY <2>4, <2>8, <2>9 DEF Loan
<1> QED
  BY <1>1, <1>2, <1>3

(* accrue_late_fee. *)
LEMMA AccrueLateFeeSound ==
    ASSUME NEW l, SoundLoan(l), ledger \in Nat, config \in [ConfigFields -> Nat],
           risk \in [RiskParams -> Nat]
    PROVE  SoundLoan(AccrueLateFee(l)) /\ SameBooks(l, AccrueLateFee(l))
<1> DEFINE start == AtLeast(l.lastLateFee, GraceEnds(l))
           m     == l.amount * AtMost(risk["lateFee"], MaxLateFee) * (ledger - start)
           d     == Bps * Term
           fee   == m \div d
           room  == AtLeast(l.amount * DebtMultiplier - Debt(l), 0)
<1> USE DEF SoundLoan, SameBooks
<1>1. CASE l.status # "Approved" \/ l.due = 0 \/ ledger <= start
  BY <1>1 DEF AccrueLateFee
<1>2. CASE ~(l.status # "Approved" \/ l.due = 0 \/ ledger <= start) /\ RemainingPrincipal(l) <= 0
  <2>1. AccrueLateFee(l) = [l EXCEPT !.lastLateFee = ledger]
    BY <1>2 DEF AccrueLateFee
  <2> QED
    BY <2>1 DEF Loan
<1>3. CASE ~(l.status # "Approved" \/ l.due = 0 \/ ledger <= start) /\ ~(RemainingPrincipal(l) <= 0)
  <2>1. AccrueLateFee(l) =
          [l EXCEPT !.lateFee = @ + AtMost(fee, room), !.lastLateFee = ledger]
    BY <1>3 DEF AccrueLateFee
  <2>2. start \in Nat
    BY DEF AtLeast, GraceEnds, Loan, ConfigFields
  <2>3. ledger - start \in Nat
    BY <1>3, <2>2
  <2>4. AtMost(risk["lateFee"], MaxLateFee) \in Nat
    BY LoanConstants DEF AtMost, RiskParams
  <2>5. m \in Nat
    <3> HIDE DEF start
    <3>1. l.amount * AtMost(risk["lateFee"], MaxLateFee) \in Nat
      BY <2>4, SMT DEF Loan
    <3> QED
      BY <2>3, <3>1, SMT
  <2>6. d \in Nat /\ d > 0
    BY LoanConstants, SMT
  <2>7. room \in Nat
    <3>1. Debt(l) \in Int
      BY DEF Debt, RemainingPrincipal, Loan
    <3>2. l.amount * DebtMultiplier \in Int
      BY LoanConstants, SMT DEF Loan
    <3> QED
      BY <3>1, <3>2 DEF AtLeast
  <2> HIDE DEF start, m, d, room
  <2>8. fee \in Nat
    BY <2>5, <2>6, DivMod
  <2> HIDE DEF fee
  <2>9. l.lateFee + AtMost(fee, room) \in Nat
    BY <2>7, <2>8 DEF AtMost, Loan
  <2> QED
    BY <2>1, <2>9 DEF Loan
<1> QED
  BY <1>1, <1>2, <1>3

(* Both, as every call on an approved loan begins. *)
LEMMA AccruedSound ==
    ASSUME NEW l, SoundLoan(l), ledger \in Nat, config \in [ConfigFields -> Nat],
           risk \in [RiskParams -> Nat]
    PROVE  SoundLoan(Accrued(l)) /\ SameBooks(l, Accrued(l))
<1> DEFINE m == AccrueInterest(l)
<1>1. SoundLoan(m) /\ SameBooks(l, m)
  BY AccrueInterestSound
<1> HIDE DEF m
<1>2. SoundLoan(AccrueLateFee(m)) /\ SameBooks(m, AccrueLateFee(m))
  BY <1>1, AccrueLateFeeSound
<1>3. Accrued(l) = AccrueLateFee(m)
  BY DEF Accrued, m
<1> QED
  BY <1>1, <1>2, <1>3 DEF SameBooks

(* A sound loan's dues are natural numbers. *)
LEMMA SoundDues ==
    ASSUME NEW l, SoundLoan(l)
    PROVE  DuesTyped(l) /\ Debt(l) \in Nat
BY DEF SoundLoan, Loan, DuesTyped, RemainingPrincipal, Debt

(* apply_debt_recovery of an amount up to the debt. *)
LEMMA ApplyPaymentSound ==
    ASSUME NEW l, SoundLoan(l), NEW n \in 0..Debt(l)
    PROVE  LET p == ApplyPayment(l, n)
           IN  /\ SoundLoan(p)
               /\ p.borrower = l.borrower /\ p.amount = l.amount
               /\ p.collateral = l.collateral /\ p.status = l.status
<1>1. CASE n = 0
  BY <1>1 DEF ApplyPayment
<1>2. CASE n \in 1..Debt(l)
  <2> DEFINE s(k) == Split(l, n, k)
  <2>1. \A k \in Buckets : s(k) \in Nat /\ s(k) <= Dues(l)[k]
    BY <1>2, SoundDues, SplitExact
  <2>2. /\ s(1) \in Nat /\ s(1) <= l.amount - l.principalPaid
        /\ s(2) \in Nat /\ s(2) <= l.interest
        /\ s(3) \in Nat /\ s(3) <= l.lateFee
    BY <2>1 DEF Buckets, Dues, RemainingPrincipal
  <2>3. ApplyPayment(l, n) =
          [l EXCEPT !.principalPaid = @ + s(1),
                    !.interestPaid  = @ + s(2),
                    !.interest      = @ - s(2),
                    !.lateFeePaid   = @ + s(3),
                    !.lateFee       = @ - s(3)]
    BY <1>2 DEF ApplyPayment
  <2> HIDE DEF s
  <2>4. /\ l.principalPaid + s(1) \in Nat /\ l.principalPaid + s(1) <= l.amount
        /\ l.interestPaid + s(2) \in Nat /\ l.interest - s(2) \in Nat
        /\ l.lateFeePaid + s(3) \in Nat /\ l.lateFee - s(3) \in Nat
    BY <2>2 DEF SoundLoan, Loan
  <2> QED
    BY <2>3, <2>4 DEF SoundLoan, Loan
<1> QED
  BY <1>1, <1>2, SoundDues

------------------------------------------------------------------------------
(* The books.                                                               *)

(* What a loan adds to TotalOutstanding, and whether it takes one of the    *)
(* borrower's places.                                                       *)
Owed(l) == IF l.status = "Approved" THEN l.amount ELSE 0

TakesPlace(l, b) ==
    l.status \in {"Pending", "Approved", "Cancelled", "Rejected"} /\ l.borrower = b

OwedSum(L) == Sum([i \in LoanIds |-> Owed(L[i])], LoanIds)

HeldSum(L) == Sum([i \in LoanIds |-> L[i].collateral], LoanIds)

Places(L, b) == {i \in LoanIds : TakesPlace(L[i], b)}

(* The loans and the totals kept beside them, and everything else. *)
LoanTypes ==
    /\ loans \in [LoanIds -> Loan]
    /\ loanCounter \in 0..MaxLoanId
    /\ loanCount \in [Users -> Nat]
    /\ borrowerLoans \in [Users -> SUBSET LoanIds]
    /\ outstanding \in Nat
    /\ held \in Nat

ParamTypes ==
    /\ config \in [ConfigFields -> Nat] /\ oracle \in BOOLEAN
    /\ risk \in [RiskParams -> Nat]
    /\ pending \in [RiskParams -> [value : Nat, eta : Nat]]

OtherTypes ==
    /\ ledger \in Nat
    /\ poolBalance \in Nat /\ poolPaused \in BOOLEAN
    /\ admin \in Users /\ proposedAdmin \in Users \cup {NoUser}
    /\ paused \in BOOLEAN

(* Every stored loan is some user's. *)
LoansOwned ==
    \A i \in LoanIds : loans[i].status # "Absent" => loans[i].borrower \in Users

LoanBooks == LoanTypes /\ LoansOwned /\ BooksBalance /\ CollateralIsHeld

(* The inductive invariant, beside LoanInv. *)
BooksInv == LoanBooks /\ ParamTypes /\ OtherTypes

(* There are finitely many ids. *)
LEMMA LoanIdsFinite == IsFiniteSet(LoanIds)
BY LoanConstants, FS_Interval DEF LoanIds

(* The total outstanding as a sum over all ids. *)
LEMMA OwedSumIsOutstanding ==
    ASSUME NEW L, \A i \in LoanIds : L[i].amount \in Nat
    PROVE  Sum([i \in LoanIds |-> L[i].amount], {i \in LoanIds : L[i].status \in {"Approved"}})
             = OwedSum(L)
<1> DEFINE A == {i \in LoanIds : L[i].status \in {"Approved"}}
           f == [i \in LoanIds |-> L[i].amount]
           g == [i \in LoanIds |-> Owed(L[i])]
<1>1. A \in SUBSET LoanIds /\ IsFiniteSet(LoanIds \ A)
  BY LoanIdsFinite, FS_Difference
<1>2. \A i \in LoanIds : g[i] \in Nat
  BY DEF Owed
<1>3. Sum(f, A) = Sum(g, A)
  <2>1. \A i \in A : f[i] = g[i]
    BY DEF Owed
  <2> HIDE DEF A, f, g
  <2> QED BY <2>1, SumSame
<1>4. Sum(g, LoanIds \ A) = 0
  <2>1. \A i \in LoanIds \ A : g[i] = 0
    BY DEF Owed
  <2> HIDE DEF A, g
  <2> QED BY <2>1, SumZero
<1> HIDE DEF A, f, g
<1>5. Sum(g, LoanIds \ A) = Sum(g, LoanIds) - Sum(g, A)
  BY <1>1, <1>2, LoanIdsFinite, SumDrop
<1>6. Sum(g, LoanIds) \in Nat /\ Sum(g, A) \in Nat
  <2>1. IsFiniteSet(A) /\ \A i \in A : g[i] \in Nat
    BY <1>1, <1>2, LoanIdsFinite, FS_Subset
  <2> QED BY <1>2, <2>1, LoanIdsFinite, SumType
<1>7. Sum(f, A) = Sum(g, LoanIds)
  BY <1>3, <1>4, <1>5, <1>6
<1> QED
  BY <1>7 DEF A, f, g, OwedSum

(* The books in terms of these sums. *)
LEMMA BooksAsSums ==
    ASSUME loans \in [LoanIds -> Loan]
    PROVE  /\ OutstandingIsApproved <=> outstanding = OwedSum(loans)
           /\ CountIsOpenLoans <=> \A b \in Users : loanCount[b] = Cardinality(Places(loans, b))
<1>1. \A i \in LoanIds : loans[i].amount \in Nat
  BY DEF Loan
<1>2. OutstandingIsApproved <=> outstanding = OwedSum(loans)
  BY <1>1, OwedSumIsOutstanding DEF OutstandingIsApproved, WithStatus
<1>3. ASSUME NEW b \in Users
      PROVE  {i \in WithStatus({"Pending", "Approved", "Cancelled", "Rejected"}) :
                 loans[i].borrower = b} = Places(loans, b)
  BY DEF WithStatus, Places, TakesPlace
<1> QED
  BY <1>2, <1>3 DEF CountIsOpenLoans

(* The same after a step. *)
LEMMA BooksAsSumsAfter ==
    ASSUME loans' \in [LoanIds -> Loan]
    PROVE  /\ OutstandingIsApproved' <=> outstanding' = OwedSum(loans')
           /\ CountIsOpenLoans' <=> \A b \in Users : loanCount'[b] = Cardinality(Places(loans', b))
<1>1. \A i \in LoanIds : loans'[i].amount \in Nat
  BY DEF Loan
<1>2. OutstandingIsApproved' <=> outstanding' = OwedSum(loans')
  BY <1>1, OwedSumIsOutstanding DEF OutstandingIsApproved, WithStatus
<1>3. ASSUME NEW b \in Users
      PROVE  {i \in WithStatus({"Pending", "Approved", "Cancelled", "Rejected"})' :
                 loans'[i].borrower = b} = Places(loans', b)
  BY DEF WithStatus, Places, TakesPlace
<1> QED
  BY <1>2, <1>3 DEF CountIsOpenLoans

(* Replacing one loan in the sums. *)
LEMMA SumsOfReplaced ==
    ASSUME NEW L \in [LoanIds -> Loan], NEW i \in LoanIds, NEW v \in Loan
    PROVE  LET M == [L EXCEPT ![i] = v]
           IN  /\ OwedSum(M) = OwedSum(L) - Owed(L[i]) + Owed(v)
               /\ HeldSum(M) = HeldSum(L) - L[i].collateral + v.collateral
               /\ OwedSum(L) \in Nat /\ HeldSum(L) \in Nat
               /\ OwedSum(M) \in Nat /\ HeldSum(M) \in Nat
<1> DEFINE M == [L EXCEPT ![i] = v]
           f == [j \in LoanIds |-> Owed(L[j])]
           g == [j \in LoanIds |-> Owed(M[j])]
           c == [j \in LoanIds |-> L[j].collateral]
           e == [j \in LoanIds |-> M[j].collateral]
<1>1. M \in [LoanIds -> Loan] /\ M[i] = v /\ \A j \in LoanIds : j # i => M[j] = L[j]
  OBVIOUS
<1> HIDE DEF M
<1>2. \A j \in LoanIds : f[j] \in Nat /\ g[j] \in Nat /\ c[j] \in Nat /\ e[j] \in Nat
  BY <1>1 DEF Owed, Loan
<1>3. /\ \A j \in LoanIds : j # i => g[j] = f[j] /\ e[j] = c[j]
      /\ f[i] = Owed(L[i]) /\ g[i] = Owed(v) /\ c[i] = L[i].collateral /\ e[i] = v.collateral
  BY <1>1
<1> HIDE DEF f, g, c, e
<1>4. Sum(g, LoanIds) = Sum(f, LoanIds) - f[i] + g[i]
  BY <1>2, <1>3, LoanIdsFinite, SumReplace
<1>5. Sum(e, LoanIds) = Sum(c, LoanIds) - c[i] + e[i]
  BY <1>2, <1>3, LoanIdsFinite, SumReplace
<1>6. /\ Sum(f, LoanIds) \in Nat /\ Sum(g, LoanIds) \in Nat
      /\ Sum(c, LoanIds) \in Nat /\ Sum(e, LoanIds) \in Nat
  BY <1>2, LoanIdsFinite, SumType
<1>7. /\ Sum(f, LoanIds) = OwedSum(L) /\ Sum(g, LoanIds) = OwedSum(M)
      /\ Sum(c, LoanIds) = HeldSum(L) /\ Sum(e, LoanIds) = HeldSum(M)
  BY DEF OwedSum, HeldSum, f, g, c, e
<1> QED
  BY <1>3, <1>4, <1>5, <1>6, <1>7 DEF M

(* Replacing one loan in the borrowers' places. *)
LEMMA PlacesOfReplaced ==
    ASSUME NEW L \in [LoanIds -> Loan], NEW i \in LoanIds, NEW v \in Loan, NEW b
    PROVE  LET M == [L EXCEPT ![i] = v]
           IN  /\ Cardinality(Places(M, b)) =
                     Cardinality(Places(L, b)) - Bit(TakesPlace(L[i], b)) + Bit(TakesPlace(v, b))
               /\ Cardinality(Places(L, b)) \in Nat
               /\ TakesPlace(L[i], b) => Cardinality(Places(L, b)) >= 1
<1> DEFINE M == [L EXCEPT ![i] = v]
           S == Places(L, b)
           T == S \ {i}
<1>1. IsFiniteSet(S) /\ IsFiniteSet(T)
  BY LoanIdsFinite, FS_Subset DEF Places
<1>2. i \in S <=> TakesPlace(L[i], b)
  BY DEF Places
<1>3. Places(M, b) = IF TakesPlace(v, b) THEN T \cup {i} ELSE T
  <2>1. M[i] = v /\ \A j \in LoanIds : j # i => M[j] = L[j]
    OBVIOUS
  <2> HIDE DEF M
  <2> QED BY <2>1 DEF Places
<1>4. i \notin T
  OBVIOUS
<1> HIDE DEF S, M
<1>5. Cardinality(T) = Cardinality(S) - Bit(TakesPlace(L[i], b))
  BY <1>1, <1>2, FS_RemoveElement, FS_CardinalityType DEF Bit
<1>6. Cardinality(S) \in Nat /\ Cardinality(T) \in Nat
  BY <1>1, FS_CardinalityType
<1> HIDE DEF T
<1>7. Cardinality(T \cup {i}) = Cardinality(T) + 1
  BY <1>1, <1>4, FS_AddElement
<1>8. Cardinality(Places(M, b)) = Cardinality(T) + Bit(TakesPlace(v, b))
  BY <1>3, <1>6, <1>7 DEF Bit
<1> QED
  BY <1>5, <1>6, <1>8 DEF Bit, M, S

(* A step that stores v in place of loan i and posts the difference. *)
Posts(i, v) ==
    /\ loans' = [loans EXCEPT ![i] = v]
    /\ SoundLoan(v)
    /\ v.collateral > 0 => v.status = "Approved"
    /\ v.status = "Repaid" => FullyRepaid(v)
    /\ outstanding' = outstanding - Owed(loans[i]) + Owed(v)
    /\ held' = held - loans[i].collateral + v.collateral
    /\ loanCount' \in [Users -> Nat]
    /\ \A b \in Users : loanCount'[b] =
          loanCount[b] - Bit(TakesPlace(loans[i], b)) + Bit(TakesPlace(v, b))

(* Such a step keeps the books, once the listing is seen to be kept. *)
LEMMA PostingKeepsBooks ==
    ASSUME LoanBooks, NEW i \in LoanIds, NEW v, Posts(i, v), LoansListedOnce',
           v.status # "Absent" => v.borrower \in Users,
           loanCounter' \in 0..MaxLoanId, borrowerLoans' \in [Users -> SUBSET LoanIds]
    PROVE  LoanBooks'
<1>1. loans \in [LoanIds -> Loan] /\ v \in Loan /\ loans' = [loans EXCEPT ![i] = v]
  BY DEF LoanBooks, LoanTypes, Posts, SoundLoan
<1>2. loans' \in [LoanIds -> Loan] /\ loans'[i] = v /\ \A j \in LoanIds : j # i => loans'[j] = loans[j]
  BY <1>1
<1>3. /\ OwedSum(loans') = OwedSum(loans) - Owed(loans[i]) + Owed(v)
      /\ HeldSum(loans') = HeldSum(loans) - loans[i].collateral + v.collateral
      /\ OwedSum(loans') \in Nat /\ HeldSum(loans') \in Nat
  BY <1>1, SumsOfReplaced
<1>4. outstanding = OwedSum(loans) /\ held = HeldSum(loans)
  BY <1>1, BooksAsSums DEF LoanBooks, BooksBalance, CollateralIsHeld, HeldSum
<1>5. outstanding' = OwedSum(loans') /\ held' = HeldSum(loans')
  BY <1>3, <1>4 DEF Posts
<1>6. \A b \in Users : loanCount'[b] = Cardinality(Places(loans', b))
  <2> TAKE b \in Users
  <2>1. loanCount[b] = Cardinality(Places(loans, b))
    BY <1>1, BooksAsSums DEF LoanBooks, BooksBalance
  <2>2. Cardinality(Places(loans', b)) =
            Cardinality(Places(loans, b)) - Bit(TakesPlace(loans[i], b)) + Bit(TakesPlace(v, b))
    BY <1>1, PlacesOfReplaced
  <2> QED
    BY <2>1, <2>2 DEF Posts
<1>7. OutstandingIsApproved' /\ CountIsOpenLoans'
  BY <1>2, <1>5, <1>6, BooksAsSumsAfter
<1>8. PrincipalNotOverpaid'
  <2> SUFFICES ASSUME NEW j \in LoanIds
               PROVE  /\ loans'[j].principalPaid <= loans'[j].amount
                      /\ loans'[j].status = "Repaid" => FullyRepaid(loans'[j])
    BY DEF PrincipalNotOverpaid, FullyRepaid
  <2>1. CASE j = i
    BY <1>2, <2>1 DEF Posts, SoundLoan
  <2>2. CASE j # i
    BY <1>2, <2>2 DEF LoanBooks, BooksBalance, PrincipalNotOverpaid
  <2> QED
    BY <2>1, <2>2
<1>9. \A j \in LoanIds : loans'[j].collateral > 0 => loans'[j].status = "Approved"
  BY <1>2 DEF Posts, LoanBooks, CollateralIsHeld
<1>10. CollateralIsHeld'
  BY <1>5, <1>9 DEF CollateralIsHeld, HeldSum
<1>11. LoanTypes'
  BY <1>2, <1>3, <1>5 DEF LoanTypes, Posts
<1>12. LoansOwned'
  BY <1>2 DEF LoansOwned, LoanBooks
<1> QED
  BY <1>7, <1>8, <1>10, <1>11, <1>12 DEF LoanBooks, BooksBalance

(* A call on a stored loan hands out no id and keeps the borrower. *)
LEMMA CallKeepsBooks ==
    ASSUME LoanBooks, NEW i \in LoanIds, NEW v, Posts(i, v),
           UNCHANGED <<loanCounter, borrowerLoans>>,
           v.status # "Absent" => loans[i].status # "Absent" /\ v.borrower = loans[i].borrower
    PROVE  LoanBooks'
<1>1. loans' = [loans EXCEPT ![i] = v] /\ loans \in [LoanIds -> Loan]
  BY DEF Posts, LoanBooks, LoanTypes
<1>2. loans'[i] = v /\ \A j \in LoanIds : j # i => loans'[j] = loans[j]
  BY <1>1
<1>3. LoansListedOnce'
  BY <1>2 DEF LoansListedOnce, LoanBooks, BooksBalance
<1>4. loanCounter' \in 0..MaxLoanId /\ borrowerLoans' \in [Users -> SUBSET LoanIds]
  BY DEF LoanBooks, LoanTypes
<1>5. v.status # "Absent" => v.borrower \in Users
  BY DEF LoanBooks, LoansOwned
<1> QED
  BY <1>3, <1>4, <1>5, PostingKeepsBooks

(* A stored loan as the books keep it. *)
LEMMA StoredLoan ==
    ASSUME LoanBooks, NEW i \in LoanIds
    PROVE  /\ SoundLoan(loans[i])
           /\ loans[i].collateral > 0 => loans[i].status = "Approved"
           /\ loans[i].status = "Repaid" => FullyRepaid(loans[i])
           /\ \A b \in Users : TakesPlace(loans[i], b) => loanCount[b] >= 1
<1>1. SoundLoan(loans[i])
  BY DEF LoanBooks, LoanTypes, SoundLoan, BooksBalance, PrincipalNotOverpaid
<1>2. ASSUME NEW b \in Users, TakesPlace(loans[i], b)
      PROVE  loanCount[b] >= 1
  <2>1. loanCount[b] = Cardinality(Places(loans, b))
    BY BooksAsSums DEF LoanBooks, LoanTypes, BooksBalance
  <2>2. Cardinality(Places(loans, b)) >= 1
    BY <1>2, PlacesOfReplaced DEF LoanBooks, LoanTypes
  <2> QED
    BY <2>1, <2>2
<1> QED
  BY <1>1, <1>2 DEF LoanBooks, BooksBalance, PrincipalNotOverpaid, CollateralIsHeld

(* Freeing the borrower's place. *)
LEMMA CountDownFrees ==
    ASSUME LoanBooks, NEW i \in LoanIds,
           loans[i].status \in {"Pending", "Approved", "Cancelled", "Rejected"},
           loanCount' = CountDown(loans[i].borrower)
    PROVE  /\ loanCount' \in [Users -> Nat]
           /\ \A b \in Users : loanCount'[b] = loanCount[b] - Bit(TakesPlace(loans[i], b))
<1>1. loanCount \in [Users -> Nat]
  BY DEF LoanBooks, LoanTypes
<1>2. \A b \in Users : TakesPlace(loans[i], b) => loanCount[b] >= 1
  BY StoredLoan
<1>3. \A b \in Users : TakesPlace(loans[i], b) <=> b = loans[i].borrower
  BY DEF TakesPlace
<1>4. loanCount' = [loanCount EXCEPT ![loans[i].borrower] = AtLeast(@ - 1, 0)]
  BY DEF CountDown
<1>5. ASSUME NEW b \in Users
      PROVE  loanCount'[b] = loanCount[b] - Bit(TakesPlace(loans[i], b)) /\ loanCount'[b] \in Nat
  <2>1. CASE b = loans[i].borrower
    BY <1>1, <1>2, <1>3, <1>4, <2>1 DEF AtLeast, Bit
  <2>2. CASE b # loans[i].borrower
    BY <1>1, <1>3, <1>4, <2>2 DEF Bit
  <2> QED BY <2>1, <2>2
<1>6. loanCount' = [b \in Users |-> loanCount'[b]]
  BY <1>1, <1>4
<1> QED
  BY <1>5, <1>6

------------------------------------------------------------------------------
(* One lemma for each call that changes loans.                              *)

Settled == LoanBooks' /\ poolBalance' \in Nat

(* Rates come from the configuration or the oracle. *)
LEMMA RatesTyped ==
    ASSUME ParamTypes, NEW r \in InterestRates
    PROVE  r \in Nat
BY LoanConstants DEF ParamTypes, InterestRates, ConfigFields

(* request_loan. *)
LEMMA RequestLoanSettles ==
    ASSUME BooksInv, IdsFresh, NEW b \in Users, NEW n \in Amounts, RequestLoan(b, n)
    PROVE  Settled
<1> DEFINE id == loanCounter + 1
<1>1. PICK r \in InterestRates :
          loans' = [loans EXCEPT ![id] =
                      [NoLoan EXCEPT !.borrower = b, !.amount = n, !.rate = r,
                                     !.status = "Pending"]]
  BY DEF RequestLoan, NextId
<1> DEFINE v == [NoLoan EXCEPT !.borrower = b, !.amount = n, !.rate = r,
                               !.status = "Pending"]
<1>2. loanCounter' = id /\ id \in LoanIds /\ id \in 0..MaxLoanId /\ loans[id].status = "Absent"
  <2>1. loanCounter' = id /\ id <= MaxLoanId
    BY DEF RequestLoan, NextId
  <2>2. loanCounter \in Nat /\ MaxLoanId \in Nat
    BY LoanConstants DEF IdsFresh
  <2>3. id \in LoanIds /\ id \in 0..MaxLoanId /\ id > loanCounter
    BY <2>1, <2>2 DEF LoanIds
  <2> HIDE DEF id
  <2> QED
    BY <2>1, <2>3 DEF IdsFresh
<1>3. n \in Nat /\ r \in Nat
  BY LoanConstants, RatesTyped DEF RequestLoan, BooksInv
<1>4. /\ SoundLoan(v) /\ v.status = "Pending" /\ v.borrower = b /\ v.collateral = 0
  <2>1. NoLoan \in Loan /\ NoLoan.principalPaid = 0 /\ NoLoan.collateral = 0
    BY DEF Loan, NoLoan, Statuses
  <2>2. v \in Loan
    BY <1>3, <2>1 DEF Loan, Statuses
  <2>3. /\ v.status = "Pending" /\ v.borrower = b /\ v.amount = n
        /\ v.collateral = NoLoan.collateral /\ v.principalPaid = NoLoan.principalPaid
    BY <2>1 DEF Loan
  <2> HIDE DEF v
  <2> QED
    BY <1>3, <2>1, <2>2, <2>3 DEF SoundLoan
<1>5. SoundLoan(loans[id]) /\ loans[id].collateral = 0
  <2>1. SoundLoan(loans[id]) /\ (loans[id].collateral > 0 => loans[id].status = "Approved")
    BY <1>2, StoredLoan DEF BooksInv
  <2> QED
    BY <1>2, <2>1 DEF SoundLoan, Loan
<1>6. /\ outstanding' = outstanding /\ held' = held /\ outstanding \in Int /\ held \in Int
      /\ poolBalance' \in Nat
  BY DEF RequestLoan, BooksInv, LoanBooks, LoanTypes, OtherTypes, poolVars
<1>7. loanCount' = [loanCount EXCEPT ![b] = @ + 1] /\ loanCount \in [Users -> Nat]
  BY DEF RequestLoan, BooksInv, LoanBooks, LoanTypes
<1>8. borrowerLoans' = [borrowerLoans EXCEPT ![b] = @ \cup {id}]
      /\ borrowerLoans \in [Users -> SUBSET LoanIds]
  BY DEF RequestLoan, NextId, BooksInv, LoanBooks, LoanTypes
<1>9. loans \in [LoanIds -> Loan] /\ loanCounter \in Nat
  BY DEF BooksInv, LoanBooks, LoanTypes
<1> HIDE DEF v
<1>10. loans'[id] = v /\ \A j \in LoanIds : j # id => loans'[j] = loans[j]
  BY <1>1, <1>2, <1>9 DEF v
<1>11. LoansListedOnce'
  <2>1. LoansListedOnce
    BY DEF BooksInv, LoanBooks, BooksBalance
  <2>2. ASSUME NEW j \in LoanIds, loans'[j].status # "Absent"
        PROVE  j <= loanCounter' /\ \A c \in Users : j \in borrowerLoans'[c] <=> c = loans'[j].borrower
    <3>1. CASE j = id
      <4>1. \A c \in Users : j \notin borrowerLoans[c]
        BY <1>9, <2>1, <3>1 DEF LoansListedOnce
      <4> QED
        BY <1>2, <1>4, <1>8, <1>9, <1>10, <3>1, <4>1
    <3>2. CASE j # id
      BY <1>2, <1>8, <1>9, <1>10, <2>1, <2>2, <3>2 DEF LoansListedOnce, LoanIds
    <3> QED BY <3>1, <3>2
  <2>3. ASSUME NEW c \in Users PROVE borrowerLoans'[c] \subseteq 1..loanCounter'
    BY <1>2, <1>8, <1>9, <2>1 DEF LoansListedOnce
  <2> QED
    BY <2>2, <2>3 DEF LoansListedOnce
<1>12. borrowerLoans' \in [Users -> SUBSET LoanIds]
  BY <1>2, <1>8
<1>13. Posts(id, v)
  <2>1. Owed(v) = 0 /\ Owed(loans[id]) = 0
    BY <1>2, <1>4 DEF Owed
  <2>2. \A c \in Users : loanCount'[c] =
          loanCount[c] - Bit(TakesPlace(loans[id], c)) + Bit(TakesPlace(v, c))
    BY <1>2, <1>4, <1>7 DEF Bit, TakesPlace
  <2>3. loanCount' \in [Users -> Nat]
    BY <1>7
  <2> HIDE DEF id
  <2> QED
    BY <1>1, <1>4, <1>5, <1>6, <2>1, <2>2, <2>3 DEF Posts, v
<1>14. LoanBooks /\ loanCounter' \in 0..MaxLoanId
  BY <1>2 DEF BooksInv
<1> HIDE DEF id
<1> QED
  BY <1>2, <1>4, <1>6, <1>11, <1>12, <1>13, <1>14, PostingKeepsBooks DEF Settled

(* approve_loan. *)
LEMMA ApproveLoanSettles ==
    ASSUME BooksInv, NEW i \in LoanIds, ApproveLoan(i)
    PROVE  Settled
<1> DEFINE v == [loans[i] EXCEPT !.status = "Approved",
                       !.due = ledger + config["term"],
                       !.lastInterest = ledger,
                       !.lastLateFee = ledger + config["term"] + config["grace"]]
<1>1. /\ SoundLoan(loans[i]) /\ loans[i].status = "Pending"
      /\ loans[i].collateral > 0 => loans[i].status = "Approved"
  BY StoredLoan DEF ApproveLoan, BooksInv
<1>2. /\ ledger \in Nat /\ ledger + config["term"] \in Nat
      /\ ledger + config["term"] + config["grace"] \in Nat
  BY DEF BooksInv, ParamTypes, OtherTypes, ConfigFields
<1>3. /\ SoundLoan(v) /\ v.status = "Approved" /\ v.borrower = loans[i].borrower
      /\ v.amount = loans[i].amount /\ v.collateral = loans[i].collateral
  BY <1>1, <1>2 DEF SoundLoan, Loan, Statuses
<1>4. /\ loans' = [loans EXCEPT ![i] = v]
      /\ outstanding' = outstanding + loans[i].amount
      /\ held' = held /\ loanCount' = loanCount
      /\ UNCHANGED <<loanCounter, borrowerLoans>>
  BY DEF ApproveLoan, AdjustOutstanding
<1>5. poolBalance' \in Nat
  BY <1>1 DEF ApproveLoan, BooksInv, OtherTypes, SoundLoan, Loan
<1> HIDE DEF v
<1>6. Owed(v) = loans[i].amount /\ Owed(loans[i]) = 0
  BY <1>1, <1>3 DEF Owed
<1>7. /\ loanCount \in [Users -> Nat] /\ outstanding \in Nat /\ held \in Nat
      /\ loans[i].amount \in Nat /\ loans[i].collateral \in Nat
  BY <1>1 DEF BooksInv, LoanBooks, LoanTypes, SoundLoan, Loan
<1>8. Posts(i, v)
  BY <1>1, <1>3, <1>4, <1>6, <1>7 DEF Posts, TakesPlace, Bit
<1> QED
  BY <1>1, <1>3, <1>4, <1>5, <1>8, CallKeepsBooks DEF Settled, BooksInv

(* The loan a call works on after the accruals it starts with. *)
LEMMA AccruedStored ==
    ASSUME BooksInv, NEW i \in LoanIds
    PROVE  LET l == Accrued(loans[i])
           IN  /\ SoundLoan(l) /\ SameBooks(loans[i], l) /\ Debt(l) \in Nat
               /\ l.amount \in Nat /\ l.collateral \in Nat
<1>1. SoundLoan(loans[i])
  BY StoredLoan DEF BooksInv
<1>2. ledger \in Nat /\ config \in [ConfigFields -> Nat] /\ risk \in [RiskParams -> Nat]
  BY DEF BooksInv, ParamTypes, OtherTypes
<1>3. SoundLoan(Accrued(loans[i])) /\ SameBooks(loans[i], Accrued(loans[i]))
  BY <1>1, <1>2, AccruedSound
<1>4. Debt(Accrued(loans[i])) \in Nat
  BY <1>3, SoundDues
<1> QED
  BY <1>3, <1>4 DEF SoundLoan, Loan

(* repay, whether it leaves something to pay or closes the loan. *)
LEMMA RepaySettles ==
    ASSUME BooksInv, NEW i \in LoanIds, NEW n \in Amounts, Repay(i, n)
    PROVE  Settled
<1> DEFINE l    == Accrued(loans[i])
           paid == ApplyPayment(l, n)
           done == IsDust(Debt(l)) \/ FullyRepaid(paid)
           v    == IF done THEN Closed(paid) ELSE paid
<1>1. /\ n > 0 /\ n <= Debt(l) /\ l.status = "Approved"
      /\ loans' = [loans EXCEPT ![i] = v]
      /\ IF done
         THEN /\ outstanding' = outstanding + (-l.amount)
              /\ loanCount' = CountDown(l.borrower)
              /\ held' = held - l.collateral
         ELSE UNCHANGED <<outstanding, loanCount, held>>
      /\ poolBalance' = poolBalance + n
      /\ UNCHANGED <<loanCounter, borrowerLoans>>
  BY DEF Repay, AdjustOutstanding
<1>2. /\ SoundLoan(l) /\ SameBooks(loans[i], l) /\ Debt(l) \in Nat
      /\ l.amount \in Nat /\ l.collateral \in Nat
  BY AccruedStored
<1> HIDE DEF l
<1>3. n \in 0..Debt(l) /\ n \in Nat
  BY <1>1, <1>2, LoanConstants
<1>4. /\ SoundLoan(paid) /\ paid.borrower = l.borrower /\ paid.amount = l.amount
      /\ paid.collateral = l.collateral /\ paid.status = l.status
  BY <1>2, <1>3, ApplyPaymentSound
<1> HIDE DEF paid
<1>5. /\ SoundLoan(Closed(paid)) /\ Closed(paid).status = "Repaid"
      /\ Closed(paid).collateral = 0 /\ FullyRepaid(Closed(paid))
      /\ Closed(paid).borrower = paid.borrower
  <2>1. Closed(paid) \in Loan
    BY <1>4 DEF SoundLoan, Loan, Closed, Statuses
  <2>2. /\ Closed(paid).principalPaid = paid.amount /\ Closed(paid).amount = paid.amount
        /\ Closed(paid).interest = 0 /\ Closed(paid).lateFee = 0
        /\ Closed(paid).collateral = 0 /\ Closed(paid).status = "Repaid"
        /\ Closed(paid).borrower = paid.borrower
    BY <1>4 DEF SoundLoan, Loan, Closed
  <2>3. paid.amount \in Nat
    BY <1>4 DEF SoundLoan, Loan
  <2> QED
    BY <2>1, <2>2, <2>3 DEF SoundLoan, FullyRepaid
<1>6. poolBalance' \in Nat
  BY <1>1, <1>3 DEF BooksInv, OtherTypes
<1>7. /\ loans[i].status = "Approved" /\ loans[i].borrower = l.borrower
      /\ loans[i].amount = l.amount /\ loans[i].collateral = l.collateral
  BY <1>1, <1>2 DEF SameBooks
<1>8. /\ loanCount \in [Users -> Nat] /\ outstanding \in Nat /\ held \in Nat /\ LoanBooks
  BY DEF BooksInv, LoanBooks, LoanTypes
<1> HIDE DEF done
<1>9. CASE done
  <2>1. /\ loanCount' \in [Users -> Nat]
        /\ \A b \in Users : loanCount'[b] = loanCount[b] - Bit(TakesPlace(loans[i], b))
    BY <1>1, <1>7, <1>8, <1>9, CountDownFrees
  <2>2. v = Closed(paid)
    BY <1>9
  <2> HIDE DEF v
  <2>3. Owed(v) = 0 /\ Owed(loans[i]) = l.amount
    BY <1>5, <1>7, <2>2 DEF Owed
  <2>4. \A b \in Users : Bit(TakesPlace(v, b)) = 0
    BY <1>5, <2>2 DEF TakesPlace, Bit
  <2>5. /\ outstanding' = outstanding - Owed(loans[i]) + Owed(v)
        /\ held' = held - loans[i].collateral + v.collateral
    BY <1>1, <1>2, <1>5, <1>7, <1>8, <1>9, <2>2, <2>3
  <2>6. \A b \in Users : loanCount'[b] =
          loanCount[b] - Bit(TakesPlace(loans[i], b)) + Bit(TakesPlace(v, b))
    BY <1>8, <2>1, <2>4 DEF Bit
  <2>7. Posts(i, v)
    BY <1>1, <1>5, <2>1, <2>2, <2>5, <2>6 DEF Posts
  <2> QED
    BY <1>1, <1>4, <1>5, <1>6, <1>7, <1>8, <2>2, <2>7, CallKeepsBooks DEF Settled
<1>10. CASE ~done
  <2>1. v = paid
    BY <1>10
  <2> HIDE DEF v
  <2>2. Owed(v) = l.amount /\ Owed(loans[i]) = l.amount
    BY <1>1, <1>4, <1>7, <2>1 DEF Owed
  <2>3. \A b \in Users : TakesPlace(v, b) <=> TakesPlace(loans[i], b)
    BY <1>1, <1>4, <1>7, <2>1 DEF TakesPlace
  <2>4. /\ outstanding' = outstanding - Owed(loans[i]) + Owed(v)
        /\ held' = held - loans[i].collateral + v.collateral
    BY <1>1, <1>2, <1>4, <1>7, <1>8, <1>10, <2>1, <2>2
  <2>5. \A b \in Users : loanCount'[b] =
          loanCount[b] - Bit(TakesPlace(loans[i], b)) + Bit(TakesPlace(v, b))
    BY <1>1, <1>8, <1>10, <2>3 DEF Bit
  <2>6. Posts(i, v)
    BY <1>1, <1>4, <1>8, <1>10, <2>1, <2>4, <2>5 DEF Posts
  <2> QED
    BY <1>1, <1>4, <1>6, <1>7, <1>8, <2>1, <2>6, CallKeepsBooks DEF Settled
<1> QED
  BY <1>9, <1>10

(* deposit_collateral, and release_collateral of a repaid loan. *)
LEMMA CollateralSettles ==
    ASSUME BooksInv, NEW i \in LoanIds, NEW c \in Nat,
           loans' = [loans EXCEPT ![i].collateral = c],
           held' = held - loans[i].collateral + c,
           loans[i].status # "Absent", c > 0 => loans[i].status = "Approved",
           UNCHANGED <<poolVars, loanCounter, loanCount, borrowerLoans, outstanding>>
    PROVE  Settled
<1> DEFINE v == [loans[i] EXCEPT !.collateral = c]
<1>1. /\ SoundLoan(loans[i]) /\ (loans[i].status = "Repaid" => FullyRepaid(loans[i]))
      /\ loans \in [LoanIds -> Loan]
  BY StoredLoan DEF BooksInv, LoanBooks, LoanTypes
<1>2. /\ SoundLoan(v) /\ v.status = loans[i].status /\ v.borrower = loans[i].borrower
      /\ v.amount = loans[i].amount /\ v.collateral = c
      /\ v.principalPaid = loans[i].principalPaid /\ v.interest = loans[i].interest
      /\ v.lateFee = loans[i].lateFee
  BY <1>1 DEF SoundLoan, Loan
<1>3. loans' = [loans EXCEPT ![i] = v]
  BY <1>1
<1>4. /\ loanCount \in [Users -> Nat] /\ outstanding \in Nat /\ held \in Nat /\ LoanBooks
      /\ poolBalance \in Nat
  BY DEF BooksInv, LoanBooks, LoanTypes, OtherTypes
<1> HIDE DEF v
<1>5. Owed(v) = Owed(loans[i]) /\ Owed(v) \in Nat
  BY <1>1, <1>2 DEF Owed, SoundLoan, Loan
<1>6. \A b \in Users : TakesPlace(v, b) <=> TakesPlace(loans[i], b)
  BY <1>2 DEF TakesPlace
<1>7. \A b \in Users : loanCount'[b] =
          loanCount[b] - Bit(TakesPlace(loans[i], b)) + Bit(TakesPlace(v, b))
  BY <1>4, <1>6 DEF Bit
<1>8. FullyRepaid(loans[i]) => FullyRepaid(v)
  BY <1>2 DEF FullyRepaid
<1>9. /\ outstanding' = outstanding - Owed(loans[i]) + Owed(v) /\ loanCount' \in [Users -> Nat]
      /\ held' = held - loans[i].collateral + v.collateral
  BY <1>2, <1>4, <1>5
<1>10. Posts(i, v)
  BY <1>1, <1>2, <1>3, <1>7, <1>8, <1>9 DEF Posts
<1> QED
  BY <1>2, <1>4, <1>10, CallKeepsBooks DEF Settled, poolVars

(* liquidate. *)
LEMMA LiquidateSettles ==
    ASSUME BooksInv, NEW i \in LoanIds, Liquidate(i)
    PROVE  Settled
<1> DEFINE l    == Accrued(loans[i])
           paid == ApplyPayment(l, Recovered(l))
           v    == [paid EXCEPT !.status = "Liquidated", !.collateral = 0]
<1>1. /\ l.status = "Approved"
      /\ loans' = [loans EXCEPT ![i] = v]
      /\ outstanding' = outstanding + (-l.amount)
      /\ loanCount' = CountDown(l.borrower)
      /\ held' = held - l.collateral
      /\ poolBalance' = poolBalance + Recovered(l)
      /\ UNCHANGED <<loanCounter, borrowerLoans>>
  BY DEF Liquidate, AdjustOutstanding
<1>2. /\ SoundLoan(l) /\ SameBooks(loans[i], l) /\ Debt(l) \in Nat
      /\ l.amount \in Nat /\ l.collateral \in Nat
  BY AccruedStored
<1> HIDE DEF l
<1>3. Recovered(l) \in 0..Debt(l)
  BY <1>2 DEF Recovered, AtMost
<1>4. SoundLoan(paid) /\ paid.borrower = l.borrower /\ paid.amount = l.amount
  BY <1>2, <1>3, ApplyPaymentSound
<1> HIDE DEF paid
<1>5. SoundLoan(v) /\ v.status = "Liquidated" /\ v.collateral = 0 /\ v.borrower = l.borrower
  BY <1>4 DEF SoundLoan, Loan, Statuses
<1>6. poolBalance' \in Nat
  BY <1>1, <1>2, <1>3 DEF BooksInv, OtherTypes
<1>7. /\ loans[i].status = "Approved" /\ loans[i].borrower = l.borrower
      /\ loans[i].amount = l.amount /\ loans[i].collateral = l.collateral
  BY <1>1, <1>2 DEF SameBooks
<1>8. /\ loanCount \in [Users -> Nat] /\ outstanding \in Nat /\ held \in Nat /\ LoanBooks
  BY DEF BooksInv, LoanBooks, LoanTypes
<1> HIDE DEF v
<1>9. /\ loanCount' \in [Users -> Nat]
      /\ \A b \in Users : loanCount'[b] = loanCount[b] - Bit(TakesPlace(loans[i], b))
  BY <1>1, <1>7, <1>8, CountDownFrees
<1>10. Owed(v) = 0 /\ Owed(loans[i]) = l.amount
  BY <1>5, <1>7 DEF Owed
<1>11. /\ outstanding' = outstanding - Owed(loans[i]) + Owed(v)
       /\ held' = held - loans[i].collateral + v.collateral
  BY <1>1, <1>2, <1>5, <1>7, <1>8, <1>10
<1>12. \A b \in Users : loanCount'[b] =
          loanCount[b] - Bit(TakesPlace(loans[i], b)) + Bit(TakesPlace(v, b))
  BY <1>5, <1>8, <1>9 DEF TakesPlace, Bit
<1>13. Posts(i, v)
  BY <1>1, <1>5, <1>9, <1>11, <1>12 DEF Posts
<1> QED
  BY <1>1, <1>5, <1>6, <1>7, <1>8, <1>13, CallKeepsBooks DEF Settled

(* cancel_loan and reject_loan: the place stays taken. *)
LEMMA WithdrawnSettles ==
    ASSUME BooksInv, NEW i \in LoanIds, NEW s \in {"Cancelled", "Rejected"}, Withdrawn(i, s)
    PROVE  Settled
<1> DEFINE v == [loans[i] EXCEPT !.status = s, !.collateral = 0]
<1>1. /\ SoundLoan(loans[i]) /\ loans[i].status = "Pending" /\ loans \in [LoanIds -> Loan]
      /\ loans[i].collateral \in Nat
  BY StoredLoan DEF Withdrawn, BooksInv, LoanBooks, LoanTypes, SoundLoan, Loan
<1>2. SoundLoan(v) /\ v.status = s /\ v.borrower = loans[i].borrower /\ v.collateral = 0
  BY <1>1 DEF SoundLoan, Loan, Statuses
<1>3. loans' = [loans EXCEPT ![i] = v]
  BY <1>1 DEF Withdrawn
<1>4. /\ loanCount \in [Users -> Nat] /\ outstanding \in Nat /\ held \in Nat /\ LoanBooks
      /\ poolBalance \in Nat
  BY DEF BooksInv, LoanBooks, LoanTypes, OtherTypes
<1>5. /\ held' = held - loans[i].collateral /\ outstanding' = outstanding
      /\ loanCount' = loanCount /\ poolBalance' = poolBalance
      /\ UNCHANGED <<loanCounter, borrowerLoans>>
  BY DEF Withdrawn, poolVars
<1> HIDE DEF v
<1>6. Owed(v) = 0 /\ Owed(loans[i]) = 0
  BY <1>1, <1>2 DEF Owed
<1>7. \A b \in Users : TakesPlace(v, b) <=> TakesPlace(loans[i], b)
  BY <1>1, <1>2 DEF TakesPlace
<1>8. \A b \in Users : loanCount'[b] =
          loanCount[b] - Bit(TakesPlace(loans[i], b)) + Bit(TakesPlace(v, b))
  BY <1>4, <1>5, <1>7 DEF Bit
<1>9. /\ outstanding' = outstanding - Owed(loans[i]) + Owed(v) /\ loanCount' \in [Users -> Nat]
      /\ held' = held - loans[i].collateral + v.collateral
  BY <1>1, <1>2, <1>4, <1>5, <1>6
<1>10. Posts(i, v)
  BY <1>2, <1>3, <1>8, <1>9 DEF Posts
<1> QED
  BY <1>1, <1>2, <1>4, <1>5, <1>10, CallKeepsBooks DEF Settled

(* purge_loan: a cancelled or rejected request gives its place back, a      *)
(* repaid loan has done so already.                                         *)
LEMMA PurgeLoanSettles ==
    ASSUME BooksInv, NEW i \in LoanIds, PurgeLoan(i)
    PROVE  Settled
<1>1. /\ SoundLoan(loans[i]) /\ loans[i].status \in {"Repaid", "Cancelled", "Rejected"}
      /\ loans[i].collateral \in Nat
  BY StoredLoan DEF PurgeLoan, BooksInv, SoundLoan, Loan
<1>2. /\ SoundLoan(NoLoan) /\ NoLoan.status = "Absent" /\ NoLoan.collateral = 0
  BY DEF SoundLoan, Loan, NoLoan, Statuses
<1>3. /\ loanCount \in [Users -> Nat] /\ outstanding \in Nat /\ held \in Nat /\ LoanBooks
      /\ poolBalance \in Nat
  BY DEF BooksInv, LoanBooks, LoanTypes, OtherTypes
<1>4. /\ loans' = [loans EXCEPT ![i] = NoLoan]
      /\ held' = held - loans[i].collateral /\ outstanding' = outstanding
      /\ poolBalance' = poolBalance
      /\ UNCHANGED <<loanCounter, borrowerLoans>>
      /\ loanCount' = IF loans[i].status \in {"Cancelled", "Rejected"}
                      THEN CountDown(loans[i].borrower) ELSE loanCount
  BY DEF PurgeLoan, PurgeFreesSlot, poolVars
<1>5. Owed(NoLoan) = 0 /\ Owed(loans[i]) = 0
  BY <1>1, <1>2 DEF Owed
<1>6. \A b \in Users : Bit(TakesPlace(NoLoan, b)) = 0
  BY <1>2 DEF TakesPlace, Bit
<1>7. /\ loanCount' \in [Users -> Nat]
      /\ \A b \in Users : loanCount'[b] = loanCount[b] - Bit(TakesPlace(loans[i], b))
  <2>1. CASE loans[i].status \in {"Cancelled", "Rejected"}
    BY <1>3, <1>4, <2>1, CountDownFrees
  <2>2. CASE loans[i].status = "Repaid"
    BY <1>3, <1>4, <2>2 DEF TakesPlace, Bit
  <2> QED
    BY <1>1, <2>1, <2>2
<1>8. /\ outstanding' = outstanding - Owed(loans[i]) + Owed(NoLoan)
      /\ held' = held - loans[i].collateral + NoLoan.collateral
  BY <1>1, <1>2, <1>3, <1>4, <1>5
<1>9. \A b \in Users : loanCount'[b] =
          loanCount[b] - Bit(TakesPlace(loans[i], b)) + Bit(TakesPlace(NoLoan, b))
  BY <1>3, <1>6, <1>7 DEF Bit
<1>10. Posts(i, NoLoan)
  BY <1>2, <1>4, <1>7, <1>8, <1>9 DEF Posts
<1> QED
  BY <1>2, <1>3, <1>4, <1>10, CallKeepsBooks DEF Settled

(* A refinancing gives back no more collateral than there is. *)
LEMMA ReturnedBounds ==
    ASSUME NEW l, SoundLoan(l), NEW n \in Nat
    PROVE  ReturnedCollateral(l, n) \in 0..l.collateral
<1> DEFINE R == RemainingPrincipal(l)
           c == l.collateral
           q == (c * (R - n)) \div R
<1>1. R \in Nat /\ c \in Nat
  BY DEF SoundLoan, Loan, RemainingPrincipal
<1> HIDE DEF R, c
<1>2. CASE n < R
  <2>1. R - n \in Nat /\ R > 0 /\ c * (R - n) \in Nat
    BY <1>1, <1>2, SMT
  <2>2. q \in Nat /\ (c * (R - n)) % R \in 0..(R - 1) /\ c * (R - n) = R * q + ((c * (R - n)) % R)
    BY <1>1, <2>1, DivMod
  <2>3. c * (R - n) <= c * R
    BY <1>1, <1>2, SMT
  <2> HIDE DEF q
  <2>4. R * q <= c * R
    BY <1>1, <2>1, <2>2, <2>3, SMT
  <2>5. q <= c
    <3> SUFFICES ASSUME q >= c + 1 PROVE FALSE
      BY <1>1, <2>2
    <3>1. R * q >= R * (c + 1)
      BY <1>1, <2>2, SMT
    <3>2. R * (c + 1) = c * R + R
      BY <1>1, SMT
    <3> QED BY <1>1, <2>1, <2>2, <2>4, <3>1, <3>2, SMT
  <2>6. ReturnedCollateral(l, n) = q
    BY <1>2 DEF ReturnedCollateral, R, c, q
  <2> QED
    BY <1>1, <2>2, <2>5, <2>6 DEF c
<1>3. CASE ~(n < R)
  BY <1>1, <1>3 DEF ReturnedCollateral, R, c
<1> QED
  BY <1>2, <1>3

(* refinance_loan. *)
LEMMA RefinanceLoanSettles ==
    ASSUME BooksInv, NEW i \in LoanIds, NEW n \in Amounts, NEW t \in Terms,
           RefinanceLoan(i, n, t)
    PROVE  Settled
<1> DEFINE l == Accrued(loans[i])
<1>1. /\ l.status = "Approved" /\ n > 0
      /\ DrawOrReturn(l, n)
      /\ held' = held - ReturnedCollateral(l, n)
      /\ outstanding' = outstanding + (n - l.amount)
      /\ UNCHANGED <<loanCounter, loanCount, borrowerLoans>>
  BY DEF RefinanceLoan, AdjustOutstanding, OutstandingDelta
<1>2. PICK r \in InterestRates : loans' = [loans EXCEPT ![i] =
                  [l EXCEPT !.interestPaid = @ + l.interest, !.interest = 0,
                            !.lateFeePaid = @ + l.lateFee, !.lateFee = 0,
                            !.collateral = @ - ReturnedCollateral(l, n),
                            !.amount = n, !.principalPaid = 0, !.rate = r,
                            !.lastInterest = ledger, !.due = ledger + t,
                            !.lastLateFee = ledger + t]]
  BY DEF RefinanceLoan
<1> DEFINE v == [l EXCEPT !.interestPaid = @ + l.interest, !.interest = 0,
                          !.lateFeePaid = @ + l.lateFee, !.lateFee = 0,
                          !.collateral = @ - ReturnedCollateral(l, n),
                          !.amount = n, !.principalPaid = 0, !.rate = r,
                          !.lastInterest = ledger, !.due = ledger + t,
                          !.lastLateFee = ledger + t]
<1>3. loans' = [loans EXCEPT ![i] = v]
  BY <1>2
<1>4. /\ SoundLoan(l) /\ SameBooks(loans[i], l)
      /\ l.amount \in Nat /\ l.collateral \in Nat
  BY AccruedStored
<1> HIDE DEF l
<1>5. /\ n \in Nat /\ r \in Nat /\ ledger \in Nat /\ ledger + t \in Nat /\ poolBalance \in Nat
      /\ loanCount \in [Users -> Nat] /\ outstanding \in Nat /\ held \in Nat /\ LoanBooks
  BY <1>1, LoanConstants, RatesTyped DEF BooksInv, OtherTypes, LoanBooks, LoanTypes
<1>6. ReturnedCollateral(l, n) \in 0..l.collateral
  BY <1>4, <1>5, ReturnedBounds
<1> DEFINE c == l.collateral - ReturnedCollateral(l, n)
<1>7. c \in Nat
  BY <1>4, <1>6
<1>8. l.interestPaid + l.interest \in Nat /\ l.lateFeePaid + l.lateFee \in Nat
  BY <1>4 DEF SoundLoan, Loan
<1>9. /\ SoundLoan(v) /\ v.status = "Approved" /\ v.borrower = l.borrower
      /\ v.amount = n /\ v.collateral = c
  <2>1. v \in Loan
    BY <1>4, <1>5, <1>7, <1>8 DEF SoundLoan, Loan
  <2>2. /\ v.status = l.status /\ v.borrower = l.borrower
        /\ v.amount = n /\ v.collateral = c /\ v.principalPaid = 0
    BY <1>4 DEF SoundLoan, Loan
  <2> HIDE DEF v, c
  <2> QED
    BY <1>1, <1>5, <2>1, <2>2 DEF SoundLoan
<1>10. poolBalance' \in Nat
  <2>1. RemainingPrincipal(l) \in Nat
    BY <1>4, SoundDues DEF DuesTyped
  <2> QED
    BY <1>1, <1>5, <2>1 DEF DrawOrReturn
<1>11. /\ loans[i].status = "Approved" /\ loans[i].borrower = l.borrower
       /\ loans[i].amount = l.amount /\ loans[i].collateral = l.collateral
  BY <1>1, <1>4 DEF SameBooks
<1> HIDE DEF v
<1>12. Owed(v) = n /\ Owed(loans[i]) = l.amount
  BY <1>9, <1>11 DEF Owed
<1>13. \A b \in Users : TakesPlace(v, b) <=> TakesPlace(loans[i], b)
  BY <1>9, <1>11 DEF TakesPlace
<1>14. \A b \in Users : loanCount'[b] =
          loanCount[b] - Bit(TakesPlace(loans[i], b)) + Bit(TakesPlace(v, b))
  BY <1>1, <1>5, <1>13 DEF Bit
<1>15. /\ outstanding' = outstanding - Owed(loans[i]) + Owed(v) /\ loanCount' \in [Users -> Nat]
       /\ held' = held - loans[i].collateral + v.collateral
  BY <1>1, <1>4, <1>5, <1>6, <1>9, <1>11, <1>12
<1>16. Posts(i, v)
  BY <1>3, <1>9, <1>14, <1>15 DEF Posts
<1> QED
  BY <1>1, <1>5, <1>9, <1>10, <1>11, <1>16, CallKeepsBooks DEF Settled

(* extend_loan. *)
LEMMA ExtendLoanSettles ==
    ASSUME BooksInv, NEW i \in LoanIds, NEW t \in Terms, ExtendLoan(i, t)
    PROVE  Settled
<1> DEFINE v == [loans[i] EXCEPT !.due = @ + t, !.extensions = @ + 1]
           fee == (RemainingPrincipal(loans[i]) * ExtensionFee) \div Bps
<1>1. /\ SoundLoan(loans[i]) /\ loans[i].status = "Approved" /\ loans \in [LoanIds -> Loan]
      /\ loans[i].collateral \in Nat /\ loans[i].amount \in Nat
  BY StoredLoan DEF ExtendLoan, BooksInv, LoanBooks, LoanTypes, SoundLoan, Loan
<1>2. t \in Nat /\ loans[i].due + t \in Nat /\ loans[i].extensions + 1 \in Nat
  BY <1>1, LoanConstants DEF SoundLoan, Loan
<1>3. /\ SoundLoan(v) /\ v.status = "Approved" /\ v.borrower = loans[i].borrower
      /\ v.amount = loans[i].amount /\ v.collateral = loans[i].collateral
  BY <1>1, <1>2 DEF SoundLoan, Loan
<1>4. loans' = [loans EXCEPT ![i] = v]
  BY <1>1 DEF ExtendLoan, Loan
<1>5. /\ loanCount \in [Users -> Nat] /\ outstanding \in Nat /\ held \in Nat /\ LoanBooks
      /\ poolBalance \in Nat
  BY DEF BooksInv, LoanBooks, LoanTypes, OtherTypes
<1>6. /\ held' = held /\ outstanding' = outstanding /\ loanCount' = loanCount
      /\ UNCHANGED <<loanCounter, borrowerLoans>>
      /\ poolBalance' = poolBalance + fee
  BY DEF ExtendLoan
<1>7. fee \in Nat
  <2>1. RemainingPrincipal(loans[i]) \in Nat
    BY <1>1, SoundDues DEF DuesTyped
  <2>2. RemainingPrincipal(loans[i]) * ExtensionFee \in Nat /\ Bps \in Nat /\ Bps > 0
    BY <2>1, LoanConstants, SMT
  <2> QED
    BY <2>2, DivMod
<1> HIDE DEF v, fee
<1>8. Owed(v) = loans[i].amount /\ Owed(loans[i]) = loans[i].amount
  BY <1>1, <1>3 DEF Owed
<1>9. \A b \in Users : TakesPlace(v, b) <=> TakesPlace(loans[i], b)
  BY <1>1, <1>3 DEF TakesPlace
<1>10. \A b \in Users : loanCount'[b] =
          loanCount[b] - Bit(TakesPlace(loans[i], b)) + Bit(TakesPlace(v, b))
  BY <1>5, <1>6, <1>9 DEF Bit
<1>11. /\ outstanding' = outstanding - Owed(loans[i]) + Owed(v) /\ loanCount' \in [Users -> Nat]
       /\ held' = held - loans[i].collateral + v.collateral
  BY <1>1, <1>3, <1>5, <1>6, <1>8
<1>12. Posts(i, v)
  BY <1>3, <1>4, <1>10, <1>11 DEF Posts
<1> QED
  BY <1>1, <1>3, <1>5, <1>6, <1>7, <1>12, CallKeepsBooks DEF Settled

(* check_default and check_defaults: the loans in D go together. *)
LEMMA DefaultLoansSettles ==
    ASSUME BooksInv, NEW D \in SUBSET LoanIds, \A i \in D : Defaultable(loans[i]),
           DefaultLoans(D)
    PROVE  Settled
<1> DEFINE amounts    == [i \in LoanIds |-> loans[i].amount]
           collateral == [i \in LoanIds |-> loans[i].collateral]
           mine(b)    == {i \in D : loans[i].borrower = b}
<1>1. /\ loans' = [i \in LoanIds |-> IF i \in D THEN DefaultedLoan(loans[i]) ELSE loans[i]]
      /\ outstanding' = outstanding + (-Sum(amounts, D))
      /\ loanCount' = [b \in Users |-> AtLeast(loanCount[b] - Cardinality(mine(b)), 0)]
      /\ held' = held - Sum(collateral, D)
      /\ poolBalance' = poolBalance + Sum(collateral, D)
      /\ UNCHANGED <<loanCounter, borrowerLoans>>
  BY DEF DefaultLoans, AdjustOutstanding
<1>2. /\ loans \in [LoanIds -> Loan] /\ loanCount \in [Users -> Nat]
      /\ outstanding \in Nat /\ held \in Nat /\ poolBalance \in Nat
  BY DEF BooksInv, LoanBooks, LoanTypes, OtherTypes
<1>3. \A i \in D : loans[i].status = "Approved"
  BY DEF Defaultable
<1>4. \A i \in LoanIds : /\ amounts[i] \in Nat /\ collateral[i] \in Nat
                         /\ loans[i].principalPaid <= loans[i].amount
  BY <1>2 DEF Loan, BooksInv, LoanBooks, BooksBalance, PrincipalNotOverpaid
<1>5. \A i \in D : /\ loans'[i] \in Loan /\ loans'[i].status = "Defaulted"
                   /\ loans'[i].collateral = 0 /\ loans'[i].amount = loans[i].amount
                   /\ loans'[i].principalPaid = loans[i].principalPaid
                   /\ loans'[i].borrower = loans[i].borrower
  <2> TAKE i \in D
  <2>1. i \in LoanIds /\ loans'[i] = [loans[i] EXCEPT !.status = "Defaulted", !.collateral = 0]
    BY <1>1 DEF DefaultedLoan
  <2> DEFINE l == loans[i]
             v == [l EXCEPT !.status = "Defaulted", !.collateral = 0]
  <2>2. l \in Loan
    BY <1>2, <2>1
  <2> HIDE DEF l
  <2>3. v \in Loan
    BY <2>2 DEF Loan, Statuses
  <2>4. /\ v.status = "Defaulted" /\ v.collateral = 0 /\ v.amount = l.amount
        /\ v.principalPaid = l.principalPaid /\ v.borrower = l.borrower
    BY <2>2 DEF Loan
  <2> QED
    BY <2>1, <2>3, <2>4 DEF l
<1>6. \A i \in LoanIds \ D : loans'[i] = loans[i]
  BY <1>1
<1>7. loans' \in [LoanIds -> Loan]
  BY <1>1, <1>2, <1>5, <1>6
<1>8. IsFiniteSet(D)
  BY LoanIdsFinite, FS_Subset
<1>9. outstanding = OwedSum(loans) /\ held = HeldSum(loans)
      /\ \A b \in Users : loanCount[b] = Cardinality(Places(loans, b))
  BY <1>2, BooksAsSums DEF BooksInv, LoanBooks, BooksBalance, CollateralIsHeld, HeldSum
<1>10. OwedSum(loans') = OwedSum(loans) - Sum(amounts, D) /\ OwedSum(loans') \in Nat
  <2> DEFINE f == [i \in LoanIds |-> Owed(loans[i])]
             g == [i \in LoanIds |-> Owed(loans'[i])]
  <2>1. \A i \in LoanIds : f[i] \in Nat /\ g[i] \in Nat
    BY <1>2, <1>7 DEF Owed, Loan
  <2>2. \A i \in LoanIds \ D : g[i] = f[i]
    BY <1>6
  <2>3. \A i \in D : g[i] = 0 /\ f[i] = amounts[i]
    BY <1>3, <1>5 DEF Owed
  <2>4. OwedSum(loans) = Sum(f, LoanIds) /\ OwedSum(loans') = Sum(g, LoanIds)
    BY DEF OwedSum
  <2> HIDE DEF f, g, amounts
  <2>5. Sum(g, LoanIds) = Sum(f, LoanIds) - Sum(f, D)
    BY <2>1, <2>2, <2>3, LoanIdsFinite, SumCleared
  <2>6. Sum(f, D) = Sum(amounts, D)
    BY <2>3, SumSame
  <2> QED
    BY <2>1, <2>4, <2>5, <2>6, LoanIdsFinite, SumType
<1>11. HeldSum(loans') = HeldSum(loans) - Sum(collateral, D) /\ HeldSum(loans') \in Nat
  <2> DEFINE e == [i \in LoanIds |-> loans'[i].collateral]
  <2>1. \A i \in LoanIds : collateral[i] \in Nat /\ e[i] \in Nat
    BY <1>4, <1>7 DEF Loan
  <2>2. (\A i \in LoanIds \ D : e[i] = collateral[i]) /\ \A i \in D : e[i] = 0
    BY <1>5, <1>6
  <2>3. HeldSum(loans) = Sum(collateral, LoanIds) /\ HeldSum(loans') = Sum(e, LoanIds)
    BY DEF HeldSum
  <2> HIDE DEF e, collateral
  <2>4. Sum(e, LoanIds) = Sum(collateral, LoanIds) - Sum(collateral, D)
    BY <2>1, <2>2, LoanIdsFinite, SumCleared
  <2> QED
    BY <2>1, <2>3, <2>4, LoanIdsFinite, SumType
<1>12. \A b \in Users : loanCount'[b] = Cardinality(Places(loans', b)) /\ loanCount'[b] \in Nat
  <2> TAKE b \in Users
  <2> DEFINE P == Places(loans, b)
             M == mine(b)
  <2>1. M \in SUBSET P
    BY <1>3 DEF Places, TakesPlace
  <2>2. Places(loans', b) = P \ M
    <3>1. \A i \in D : ~TakesPlace(loans'[i], b)
      BY <1>5 DEF TakesPlace
    <3>2. \A i \in D : TakesPlace(loans[i], b) => i \in M
      BY DEF TakesPlace
    <3> QED
      BY <1>6, <3>1, <3>2 DEF Places
  <2>3. IsFiniteSet(P)
    BY LoanIdsFinite, FS_Subset DEF Places
  <2>4. loanCount'[b] = AtLeast(loanCount[b] - Cardinality(M), 0)
    BY <1>1
  <2>5. loanCount[b] = Cardinality(P)
    BY <1>9
  <2> HIDE DEF P, M, mine
  <2>6. IsFiniteSet(M) /\ P \cap M = M
    BY <2>1, <2>3, FS_Subset
  <2>7. Cardinality(P \ M) = Cardinality(P) - Cardinality(P \cap M)
    BY <2>3, FS_Difference
  <2>8. IsFiniteSet(P \ M) /\ Cardinality(P \ M) \in Nat /\ Cardinality(P) \in Nat
        /\ Cardinality(M) \in Nat
    BY <2>3, <2>6, FS_Difference, FS_CardinalityType
  <2>9. Cardinality(P \ M) = Cardinality(P) - Cardinality(M)
    BY <2>6, <2>7
  <2> DEFINE n == Cardinality(P)
             m == Cardinality(M)
             k == Cardinality(P \ M)
  <2>10. n \in Nat /\ m \in Nat /\ k \in Nat /\ k = n - m
    BY <2>8, <2>9
  <2>11. loanCount'[b] = AtLeast(n - m, 0) /\ Cardinality(Places(loans', b)) = k
    BY <2>2, <2>4, <2>5
  <2> HIDE DEF n, m, k
  <2> QED
    BY <2>10, <2>11 DEF AtLeast
<1>13. outstanding' = OwedSum(loans') /\ held' = HeldSum(loans')
  <2>1. Sum(amounts, D) \in Nat
    <3>1. \A i \in D : amounts[i] \in Nat
      BY <1>4
    <3> HIDE DEF amounts
    <3> QED BY <1>8, <3>1, SumType
  <2> HIDE DEF amounts, collateral
  <2> QED BY <1>1, <1>2, <1>9, <1>10, <1>11, <2>1
<1>14. OutstandingIsApproved' /\ CountIsOpenLoans'
  BY <1>7, <1>12, <1>13, BooksAsSumsAfter
<1>15. PrincipalNotOverpaid'
  <2> SUFFICES ASSUME NEW i \in LoanIds
               PROVE  /\ loans'[i].principalPaid <= loans'[i].amount
                      /\ loans'[i].status = "Repaid" => FullyRepaid(loans'[i])
    BY DEF PrincipalNotOverpaid, FullyRepaid
  <2>1. CASE i \in D
    BY <1>4, <1>5, <2>1
  <2>2. CASE i \notin D
    BY <1>6, <2>2 DEF BooksInv, LoanBooks, BooksBalance, PrincipalNotOverpaid
  <2> QED BY <2>1, <2>2
<1>16. LoansListedOnce'
  <2>1. \A i \in LoanIds : /\ loans'[i].borrower = loans[i].borrower
                           /\ loans'[i].status # "Absent" => loans[i].status # "Absent"
    BY <1>3, <1>5, <1>6
  <2>2. LoansListedOnce /\ loanCounter' = loanCounter /\ borrowerLoans' = borrowerLoans
    BY <1>1 DEF BooksInv, LoanBooks, BooksBalance
  <2> QED BY <2>1, <2>2 DEF LoansListedOnce
<1>17. CollateralIsHeld'
  <2>1. \A i \in LoanIds : loans'[i].collateral > 0 => loans'[i].status = "Approved"
    BY <1>5, <1>6 DEF BooksInv, LoanBooks, CollateralIsHeld
  <2> QED BY <1>13, <2>1 DEF CollateralIsHeld, HeldSum
<1>18. LoanTypes'
  <2>1. loanCount' \in [Users -> Nat]
    BY <1>1, <1>12
  <2>2. loanCounter' \in 0..MaxLoanId /\ borrowerLoans' \in [Users -> SUBSET LoanIds]
    BY <1>1 DEF BooksInv, LoanBooks, LoanTypes
  <2> QED BY <1>7, <1>10, <1>11, <1>13, <2>1, <2>2 DEF LoanTypes
<1>19. Sum(collateral, D) \in Nat
  <2>1. \A i \in D : collateral[i] \in Nat
    BY <1>4
  <2> HIDE DEF collateral
  <2> QED BY <1>8, <2>1, SumType
<1>20. poolBalance' \in Nat
  BY <1>1, <1>2, <1>19
<1>21. LoansOwned'
  BY <1>3, <1>5, <1>6 DEF LoansOwned, BooksInv, LoanBooks
<1> QED
  BY <1>14, <1>15, <1>16, <1>17, <1>18, <1>20, <1>21 DEF Settled, LoanBooks, BooksBalance

------------------------------------------------------------------------------
(* The steps.                                                               *)

LoanFrame == UNCHANGED <<ledger, poolPaused, paramVars, adminVars>>

(* Borrowers' calls. *)
LEMMA BorrowerStepSettles ==
    ASSUME BooksInv, IdsFresh, BorrowerStep
    PROVE  Settled /\ LoanFrame
<1>1. CASE \E b \in Users, n \in Amounts : RequestLoan(b, n)
  <2> PICK b \in Users, n \in Amounts : RequestLoan(b, n)
    BY <1>1
  <2> QED
    BY RequestLoanSettles DEF LoanFrame, RequestLoan, poolVars
<1>2. ASSUME NEW i \in LoanIds, NEW n \in Amounts, Repay(i, n)
      PROVE  Settled /\ LoanFrame
  BY <1>2, RepaySettles DEF LoanFrame, Repay
<1>3. ASSUME NEW i \in LoanIds, NEW n \in Amounts, DepositCollateral(i, n)
      PROVE  Settled /\ LoanFrame
  <2>1. /\ loans \in [LoanIds -> Loan] /\ loans[i].collateral \in Nat /\ held \in Nat
    BY DEF BooksInv, LoanBooks, LoanTypes, Loan
  <2>2. n \in Nat /\ loans[i].collateral + n \in Nat
    BY <1>3, <2>1, LoanConstants DEF DepositCollateral
  <2>3. loans' = [loans EXCEPT ![i].collateral = loans[i].collateral + n]
    BY <1>3, <2>1 DEF DepositCollateral, Loan
  <2>4. held' = held - loans[i].collateral + (loans[i].collateral + n)
    BY <1>3, <2>1, <2>2 DEF DepositCollateral
  <2>5. /\ loans[i].status = "Approved"
        /\ UNCHANGED <<poolVars, loanCounter, loanCount, borrowerLoans, outstanding>>
    BY <1>3 DEF DepositCollateral
  <2>6. Settled
    BY <2>2, <2>3, <2>4, <2>5, CollateralSettles
  <2> QED
    BY <1>3, <2>6 DEF LoanFrame, DepositCollateral, poolVars
<1>4. ASSUME NEW i \in LoanIds, NEW t \in Terms, ExtendLoan(i, t)
      PROVE  Settled /\ LoanFrame
  BY <1>4, ExtendLoanSettles DEF LoanFrame, ExtendLoan
<1>5. ASSUME NEW i \in LoanIds, CancelLoan(i)
      PROVE  Settled /\ LoanFrame
  BY <1>5, WithdrawnSettles DEF LoanFrame, CancelLoan, Withdrawn, poolVars
<1>6. ASSUME NEW i \in LoanIds, ReleaseCollateral(i)
      PROVE  Settled /\ LoanFrame
  <2>1. /\ loans \in [LoanIds -> Loan] /\ loans[i].collateral \in Nat /\ held \in Nat
    BY DEF BooksInv, LoanBooks, LoanTypes, Loan
  <2>2. /\ loans' = [loans EXCEPT ![i].collateral = 0]
        /\ held' = held - loans[i].collateral + 0
        /\ loans[i].status = "Repaid"
        /\ UNCHANGED <<poolVars, loanCounter, loanCount, borrowerLoans, outstanding>>
    BY <1>6, <2>1 DEF ReleaseCollateral
  <2>3. Settled
    <3> DEFINE c == 0
    <3>1. /\ c \in Nat /\ (c > 0 => loans[i].status = "Approved")
          /\ loans' = [loans EXCEPT ![i].collateral = c]
          /\ held' = held - loans[i].collateral + c
      BY <2>2
    <3> HIDE DEF c
    <3> QED BY <2>2, <3>1, CollateralSettles
  <2> QED
    BY <1>6, <2>3 DEF LoanFrame, ReleaseCollateral, poolVars
<1>7. ASSUME NEW i \in LoanIds, Liquidate(i)
      PROVE  Settled /\ LoanFrame
  BY <1>7, LiquidateSettles DEF LoanFrame, Liquidate
<1> QED
  BY <1>1, <1>2, <1>3, <1>4, <1>5, <1>6, <1>7 DEF BorrowerStep

(* The calls of the admin and of the default checker on loans. *)
LEMMA AdminLoanStepSettles ==
    ASSUME BooksInv, AdminLoanStep
    PROVE  Settled /\ LoanFrame
<1>1. ASSUME NEW i \in LoanIds, ApproveLoan(i)
      PROVE  Settled /\ LoanFrame
  BY <1>1, ApproveLoanSettles DEF LoanFrame, ApproveLoan
<1>2. ASSUME NEW i \in LoanIds, RejectLoan(i)
      PROVE  Settled /\ LoanFrame
  BY <1>2, WithdrawnSettles DEF LoanFrame, RejectLoan, Withdrawn, poolVars
<1>3. ASSUME NEW i \in LoanIds, PurgeLoan(i)
      PROVE  Settled /\ LoanFrame
  BY <1>3, PurgeLoanSettles DEF LoanFrame, PurgeLoan, poolVars
<1>4. ASSUME NEW i \in LoanIds, CheckDefault(i)
      PROVE  Settled /\ LoanFrame
  <2>1. {i} \in SUBSET LoanIds /\ \A j \in {i} : Defaultable(loans[j])
    BY <1>4 DEF CheckDefault
  <2>2. DefaultLoans({i})
    BY <1>4 DEF CheckDefault
  <2>3. Settled
    BY <2>1, <2>2, DefaultLoansSettles
  <2> QED
    BY <2>2, <2>3 DEF LoanFrame, DefaultLoans
<1>5. ASSUME NEW i \in LoanIds, NEW n \in Amounts, NEW t \in Terms, RefinanceLoan(i, n, t)
      PROVE  Settled /\ LoanFrame
  BY <1>5, RefinanceLoanSettles DEF LoanFrame, RefinanceLoan
<1>6. ASSUME NEW ids \in SUBSET LoanIds, CheckDefaults(ids)
      PROVE  Settled /\ LoanFrame
  <2> DEFINE D == {i \in ids : Defaultable(loans[i])}
  <2>1. D \in SUBSET LoanIds /\ \A j \in D : Defaultable(loans[j])
    OBVIOUS
  <2>2. DefaultLoans(D)
    BY <1>6 DEF CheckDefaults
  <2> HIDE DEF D
  <2>3. Settled
    BY <2>1, <2>2, DefaultLoansSettles
  <2> QED
    BY <2>2, <2>3 DEF LoanFrame, DefaultLoans
<1> QED
  BY <1>1, <1>2, <1>3, <1>4, <1>5, <1>6 DEF AdminLoanStep

(* A step that touches no loan keeps the books. *)
LEMMA BooksUnmoved ==
    ASSUME LoanBooks, UNCHANGED loanVars
    PROVE  LoanBooks'
BY DEF loanVars, LoanBooks, LoanTypes, LoansOwned, BooksBalance, OutstandingIsApproved, CountIsOpenLoans,
       LoansListedOnce, PrincipalNotOverpaid, FullyRepaid, CollateralIsHeld, WithStatus

(* The setters of the admin. *)
LEMMA ConfigStepKeepsBooks ==
    ASSUME LoanInv, BooksInv, ConfigStep
    PROVE  BooksInv'
<1>1. config' \in [ConfigFields -> Nat]
  BY ConfigStepKeeps DEF ConfigTyped
<1>2. /\ UNCHANGED <<ledger, poolVars, loanVars, risk, pending, adminVars>>
      /\ oracle' \in BOOLEAN
  BY DEF ConfigStep, SetMinScore, SetMaxLoanAmount, SetMinRepaymentAmount,
         SetMaxLoansPerBorrower, SetInterestRate, SetMinRate, SetMaxRate, SetDefaultTerm,
         SetMinTerm, SetMaxTerm, SetGracePeriod, SetDefaultWindow, SetRateOracle, Configure,
         BooksInv, ParamTypes
<1>3. LoanBooks'
  BY <1>2, BooksUnmoved DEF BooksInv
<1> QED
  BY <1>1, <1>2, <1>3 DEF BooksInv, ParamTypes, OtherTypes, poolVars, adminVars

(* The timelock of the risk parameters. *)
LEMMA RiskStepKeepsBooks ==
    ASSUME BooksInv, RiskStep
    PROVE  BooksInv'
<1>1. UNCHANGED <<ledger, poolVars, loanVars, config, oracle, adminVars>>
  BY DEF RiskStep, ProposeRiskChange, ExecuteRiskChange, CancelRiskChange
<1>2. LoanBooks'
  BY <1>1, BooksUnmoved DEF BooksInv
<1>3. /\ risk' \in [RiskParams -> Nat]
      /\ pending' \in [RiskParams -> [value : Nat, eta : Nat]]
  <2> PICK p \in RiskParams : \/ \E v \in Settings[p] : ProposeRiskChange(p, v)
                              \/ ExecuteRiskChange(p)
                              \/ CancelRiskChange(p)
    BY DEF RiskStep
  <2>1. /\ risk \in [RiskParams -> Nat] /\ ledger \in Nat
        /\ pending \in [RiskParams -> [value : Nat, eta : Nat]]
    BY DEF BooksInv, ParamTypes, OtherTypes
  <2>2. NoChange \in [value : Nat, eta : Nat]
    BY DEF NoChange
  <2>3. ASSUME NEW v \in Settings[p], ProposeRiskChange(p, v)
        PROVE  /\ risk' \in [RiskParams -> Nat]
               /\ pending' \in [RiskParams -> [value : Nat, eta : Nat]]
    <3>1. v \in Nat /\ ledger + RiskTimelock \in Nat
      BY <2>1, LoanConstants
    <3> QED BY <2>1, <2>3, <3>1 DEF ProposeRiskChange
  <2>4. CASE ExecuteRiskChange(p)
    <3>1. pending[p].value \in Nat
      BY <2>1
    <3> QED BY <2>1, <2>2, <2>4, <3>1 DEF ExecuteRiskChange
  <2>5. CASE CancelRiskChange(p)
    BY <2>1, <2>2, <2>5 DEF CancelRiskChange
  <2> QED
    BY <2>3, <2>4, <2>5
<1> QED
  BY <1>1, <1>2, <1>3 DEF BooksInv, ParamTypes, OtherTypes, poolVars, adminVars

(* The hand-over of the admin, the pauses, and the steps of others. *)
LEMMA OtherStepKeepsBooks ==
    ASSUME BooksInv, AdminStep \/ EnvironmentStep \/ UNCHANGED vars
    PROVE  BooksInv'
<1>1. UNCHANGED <<loanVars, paramVars>>
  BY DEF AdminStep, ProposeAdmin, AcceptAdmin, SetPaused, EnvironmentStep, PoolMoves,
         SetPoolPaused, vars
<1>2. LoanBooks'
  BY <1>1, BooksUnmoved DEF BooksInv
<1>3. OtherTypes'
  <2>1. CASE AdminStep
    BY <2>1 DEF AdminStep, ProposeAdmin, AcceptAdmin, SetPaused, BooksInv, OtherTypes, poolVars
  <2>2. CASE EnvironmentStep
    <3>1. CASE \E n \in PoolFunds : PoolMoves(n)
      BY <3>1, LoanConstants DEF PoolMoves, BooksInv, OtherTypes, adminVars
    <3>2. CASE \E b \in BOOLEAN : SetPoolPaused(b)
      BY <3>2 DEF SetPoolPaused, BooksInv, OtherTypes, adminVars
    <3>3. CASE LedgerClose /\ UNCHANGED <<nftVars, poolVars, loanVars, paramVars, adminVars>>
      BY <3>3 DEF LedgerClose, BooksInv, OtherTypes, adminVars, poolVars
    <3>4. CASE NftStep /\ UNCHANGED <<ledger, poolVars, loanVars, paramVars, adminVars>>
      BY <3>4 DEF BooksInv, OtherTypes, adminVars, poolVars
    <3> QED
      BY <2>2, <3>1, <3>2, <3>3, <3>4 DEF EnvironmentStep
  <2>3. CASE UNCHANGED vars
    BY <2>3 DEF vars, BooksInv, OtherTypes, adminVars, poolVars
  <2> QED BY <2>1, <2>2, <2>3
<1> QED
  BY <1>1, <1>2, <1>3 DEF BooksInv, ParamTypes, paramVars

(* Any step. *)
LEMMA NextKeepsBooks == LoanInv /\ BooksInv /\ [Next]_vars => BooksInv'
<1> SUFFICES ASSUME LoanInv, BooksInv, [Next]_vars PROVE BooksInv'
  OBVIOUS
<1>1. CASE BorrowerStep \/ AdminLoanStep
  <2>1. Settled /\ LoanFrame
    BY <1>1, BorrowerStepSettles, AdminLoanStepSettles DEF LoanInv
  <2> QED
    BY <2>1 DEF Settled, LoanFrame, BooksInv, ParamTypes, OtherTypes, paramVars, adminVars
<1>2. CASE ConfigStep
  BY <1>2, ConfigStepKeepsBooks
<1>3. CASE RiskStep
  BY <1>3, RiskStepKeepsBooks
<1>4. CASE AdminStep \/ EnvironmentStep \/ UNCHANGED vars
  BY <1>4, OtherStepKeepsBooks
<1> QED
  BY <1>1, <1>2, <1>3, <1>4 DEF Next

(* The contract starts with no loans and empty books. *)
LEMMA InitBooks == Init => BooksInv
<1> SUFFICES ASSUME Init PROVE BooksInv
  OBVIOUS
<1>1. loans = [i \in LoanIds |-> NoLoan] /\ NoLoan \in Loan
  BY DEF Init, NoLoan, Loan, Statuses
<1>2. \A i \in LoanIds : /\ loans[i].status = "Absent" /\ loans[i].amount = 0
                         /\ loans[i].collateral = 0 /\ loans[i].principalPaid = 0
  BY <1>1 DEF NoLoan
<1>3. OwedSum(loans) = 0 /\ HeldSum(loans) = 0
  <2> DEFINE f == [i \in LoanIds |-> Owed(loans[i])]
             c == [i \in LoanIds |-> loans[i].collateral]
  <2>1. \A i \in LoanIds : f[i] = 0 /\ c[i] = 0
    BY <1>2 DEF Owed
  <2>2. OwedSum(loans) = Sum(f, LoanIds) /\ HeldSum(loans) = Sum(c, LoanIds)
    BY DEF OwedSum, HeldSum
  <2> HIDE DEF f, c
  <2> QED BY <2>1, <2>2, SumZero
<1>4. \A b \in Users : Cardinality(Places(loans, b)) = 0
  <2>1. \A b \in Users : Places(loans, b) = {}
    BY <1>2 DEF Places, TakesPlace
  <2> QED BY <2>1, FS_EmptySet
<1>5. /\ loanCounter = 0 /\ loanCount = [b \in Users |-> 0] /\ held = 0 /\ outstanding = 0
      /\ borrowerLoans = [b \in Users |-> {}]
  BY DEF Init
<1>6. LoanTypes
  BY <1>1, <1>5, LoanConstants DEF LoanTypes
<1>7. OutstandingIsApproved /\ CountIsOpenLoans
  BY <1>3, <1>4, <1>5, <1>6, BooksAsSums DEF LoanTypes
<1>8. LoansListedOnce /\ PrincipalNotOverpaid
  BY <1>2, <1>5 DEF LoansListedOnce, PrincipalNotOverpaid
<1>9. CollateralIsHeld
  BY <1>2, <1>3, <1>5 DEF CollateralIsHeld, HeldSum
<1>10. ParamTypes
  <2>1. NoChange \in [value : Nat, eta : Nat]
    BY DEF NoChange
  <2> QED BY <2>1, ConfigAssumption DEF ParamTypes, Init
<1>11. OtherTypes
  BY LoanConstants DEF OtherTypes, Init
<1> QED
  BY <1>2, <1>6, <1>7, <1>8, <1>9, <1>10, <1>11 DEF BooksInv, LoanBooks, LoansOwned, BooksBalance

------------------------------------------------------------------------------
(* The theorems.                                                            *)

(* The loans, the books and the parameters, from initialize on. *)
THEOREM BooksInvHolds == Spec => []BooksInv
BY InitBooks, NextKeepsBooks, LoanInvHolds, PTL DEF Spec

(* Whatever is requested, repaid, refinanced, liquidated or defaulted, every *)
(* storage key keeps its type, and no amount of a loan, no total and no      *)
(* balance becomes negative.                                                 *)
THEOREM LoanTypesHold == Spec => []TypeOK
<1>1. BooksInv => TypeOK
  BY DEF BooksInv, LoanBooks, LoanTypes, ParamTypes, OtherTypes, TypeOK
<1> QED
  BY <1>1, BooksInvHolds, PTL

(* TotalOutstanding, BorrowerLoanCount and BorrowerLoans agree with the      *)
(* loans, whatever the interest arithmetic and however many loans one call   *)
(* of check_defaults takes.                                                  *)
THEOREM BooksAlwaysBalance == Spec => []BooksBalance
<1>1. BooksInv => BooksBalance
  BY DEF BooksInv, LoanBooks
<1> QED
  BY <1>1, BooksInvHolds, PTL

(* The contract holds exactly the collateral its approved loans record. *)
THEOREM CollateralAlwaysHeld == Spec => []CollateralIsHeld
<1>1. BooksInv => CollateralIsHeld
  BY DEF BooksInv, LoanBooks
<1> QED
  BY <1>1, BooksInvHolds, PTL

(* proportional_repayment_split never panics on a debt a loan can reach, and *)
(* hands out exactly the amount paid.                                        *)
THEOREM SplitAlwaysExact == Spec => []SplitIsExact
<1>1. BooksInv => SplitIsExact
  <2> SUFFICES ASSUME BooksInv, NEW i \in LoanIds, NEW n \in 1..Debt(Accrued(loans[i]))
               PROVE  /\ SplitDefined(Accrued(loans[i]), n)
                      /\ Split(Accrued(loans[i]), n, 1) + Split(Accrued(loans[i]), n, 2)
                           + Split(Accrued(loans[i]), n, 3) = n
                      /\ \A k \in Buckets :
                            Split(Accrued(loans[i]), n, k) <= Dues(Accrued(loans[i]))[k]
    BY DEF SplitIsExact, WithStatus
  <2>1. SoundLoan(Accrued(loans[i]))
    BY AccruedStored
  <2>2. DuesTyped(Accrued(loans[i]))
    BY <2>1, SoundDues
  <2> QED
    BY <2>2, SplitExact
<1> QED
  BY <1>1, BooksInvHolds, PTL

------------------------------------------------------------------------------
(* The NFTs of the borrowers, as records with their fields.                 *)

NftFields == DOMAIN NoNft

IsNft(r) == r = [f \in NftFields |-> r[f]]

NftsShaped == nft = [u \in Users |-> nft[u]] /\ \A u \in Users : IsNft(nft[u])

(* The keys of a user's record that the model keeps. *)
LEMMA FieldsOfNft ==
    NftFields = {"score", "history", "seized", "defaults", "burned", "remint", "nextTransfer"}
BY DEF NftFields, NoNft

LEMMA RescoredShaped ==
    ASSUME NEW r, IsNft(r), NEW new
    PROVE  IsNft(Rescored(r, new))
BY FieldsOfNft DEF IsNft, Rescored

LEMMA DecreasedShaped ==
    ASSUME NEW r, IsNft(r), NEW points
    PROVE  IsNft(DecreasedScore(r, points))
BY RescoredShaped DEF DecreasedScore

LEMMA AdjustedShaped ==
    ASSUME NEW r, IsNft(r), NEW delta
    PROVE  IsNft(AdjustedScore(r, delta))
BY RescoredShaped DEF AdjustedScore

LEMMA BurnedShaped ==
    ASSUME NEW r, IsNft(r)
    PROVE  IsNft(Burned(r)) /\ Burned(r).score = NoScore
BY FieldsOfNft DEF IsNft, Burned

(* record_default flags an active NFT or burns it. *)
LEMMA DefaultFlags ==
    ASSUME NEW r, IsNft(r)
    PROVE  /\ IsNft(DefaultRecorded(r))
           /\ HasActiveNft(DefaultRecorded(r)) => DefaultRecorded(r).seized
<1> DEFINE n == r.defaults + 1
           f == [r EXCEPT !.defaults = n, !.seized = TRUE]
<1>1. IsNft(f) /\ f.seized = TRUE
  <2> HIDE DEF n
  <2> QED BY FieldsOfNft DEF IsNft
<1>2. \/ DefaultRecorded(r) = r /\ ~HasActiveNft(r)
      \/ DefaultRecorded(r) = Burned(f)
      \/ DefaultRecorded(r) = f
  BY DEF DefaultRecorded
<1> HIDE DEF f
<1> QED
  BY <1>1, <1>2, BurnedShaped DEF HasActiveNft

(* The NFT of a borrower after n defaults in one call: the recursion is     *)
(* unfolded up to n, and every default leaves the NFT flagged or burned.    *)
LEMMA PenalisedFlags ==
    ASSUME NEW r, IsNft(r), NEW N \in Nat
    PROVE  /\ IsNft(Penalised(r, N))
           /\ N > 0 /\ HasActiveNft(Penalised(r, N)) => Penalised(r, N).seized
<1> DEFINE F(x) == DefaultRecorded(DecreasedScore(x, DefaultPenalty))
           P(g, n) == g = [k \in 0..n |-> IF k = 0 THEN r ELSE F(g[k - 1])]
           S == {n \in 0..N : \E g : P(g, n)}
           T == CHOOSE g : P(g, N)
<1>1. ASSUME NEW x, IsNft(x)
      PROVE  IsNft(F(x)) /\ (HasActiveNft(F(x)) => F(x).seized)
  BY <1>1, DecreasedShaped, DefaultFlags
<1>2. Penalised(r, N) = T[N]
  BY DEF Penalised
<1> HIDE DEF F
<1>3. N \in S
  <2>1. 0 \in S
    <3> DEFINE g == [k \in 0..0 |-> r]
    <3>1. P(g, 0)
      OBVIOUS
    <3> HIDE DEF g, P
    <3> QED BY <3>1
  <2>2. ASSUME NEW n \in 1..N, n - 1 \in S PROVE n \in S
    <3>1. PICK g : P(g, n - 1)
      BY <2>2
    <3> DEFINE h == [k \in 0..n |-> IF k = n THEN F(g[n - 1]) ELSE g[k]]
    <3>2. \A k \in 0..(n - 1) : g[k] = IF k = 0 THEN r ELSE F(g[k - 1])
      BY <3>1
    <3>3. ASSUME NEW k \in 0..n PROVE h[k] = IF k = 0 THEN r ELSE F(h[k - 1])
      <4>1. CASE k = n
        BY <4>1
      <4>2. CASE k # n
        <5>1. k \in 0..(n - 1) /\ h[k] = g[k]
          BY <4>2
        <5>2. k # 0 => k - 1 \in 0..n /\ h[k - 1] = g[k - 1]
          BY <4>2
        <5> QED BY <3>2, <5>1, <5>2
      <4> QED BY <4>1, <4>2
    <3>4. h = [k \in 0..n |-> h[k]]
      OBVIOUS
    <3> HIDE DEF h
    <3>5. P(h, n)
      BY <3>3, <3>4
    <3> HIDE DEF P
    <3> QED BY <3>5
  <2> HIDE DEF S
  <2> QED BY <2>1, <2>2, UpTo
<1>4. P(T, N)
  <2> HIDE DEF P
  <2> QED BY <1>3
<1> HIDE DEF T, S
<1>5. \A k \in 0..N : T[k] = IF k = 0 THEN r ELSE F(T[k - 1])
  BY <1>4
<1> HIDE DEF P
<1>6. \A k \in 0..N : IsNft(T[k])
  <2> DEFINE Q == {k \in 0..N : IsNft(T[k])}
  <2>1. 0 \in Q
    BY <1>5
  <2>2. ASSUME NEW k \in 1..N, k - 1 \in Q PROVE k \in Q
    BY <1>1, <1>5, <2>2
  <2> HIDE DEF Q
  <2>3. \A k \in 0..N : k \in Q
    BY <2>1, <2>2, UpTo
  <2> QED BY <2>3 DEF Q
<1>7. N > 0 /\ HasActiveNft(T[N]) => T[N].seized
  <2> SUFFICES ASSUME N > 0 PROVE HasActiveNft(T[N]) => T[N].seized
    OBVIOUS
  <2>1. T[N] = F(T[N - 1]) /\ IsNft(T[N - 1])
    BY <1>5, <1>6
  <2> QED BY <1>1, <2>1
<1> QED
  BY <1>2, <1>6, <1>7

(* A call that stores one NFT. *)
LEMMA OneNftShaped ==
    ASSUME NftsShaped, NEW b, NEW r, b \in Users => IsNft(r), nft' = [nft EXCEPT ![b] = r]
    PROVE  NftsShaped'
<1>1. nft' = [u \in Users |-> IF u = b THEN r ELSE nft[u]]
  BY DEF NftsShaped
<1>2. nft' = [u \in Users |-> nft'[u]]
  BY <1>1
<1>3. \A u \in Users : IsNft(nft'[u])
  BY <1>1 DEF NftsShaped
<1> QED
  BY <1>2, <1>3 DEF NftsShaped, IsNft

(* The NFT contract's own calls. *)
LEMMA NftStepShapes ==
    ASSUME NftsShaped, NftStep
    PROVE  NftsShaped'
<1>1. ASSUME NEW u \in Users, NEW r, IsNft(r), OnlyNft(u, r) PROVE NftsShaped'
  BY <1>1, OneNftShaped DEF OnlyNft
<1>2. \A u \in Users : IsNft(nft[u])
  BY DEF NftsShaped
<1>3. ASSUME NEW u \in Users, NEW s, Mint(u, s) \/ AdminRemint(u, s) PROVE NftsShaped'
  <2> DEFINE v == AtMost(s, MaxScore)
             a == [nft[u] EXCEPT !.score = v]
             b == [nft[u] EXCEPT !.score = v, !.burned = FALSE, !.remint = FALSE, !.seized = FALSE,
                                 !.nextTransfer = 0]
  <2>1. OnlyNft(u, a) \/ OnlyNft(u, b)
    BY <1>3 DEF Mint, AdminRemint
  <2> HIDE DEF v
  <2>2. IsNft(a)
    BY <1>2, FieldsOfNft DEF IsNft
  <2>3. IsNft(b)
    BY <1>2, FieldsOfNft DEF IsNft
  <2> HIDE DEF a, b
  <2> QED BY <1>1, <2>1, <2>2, <2>3
<1>4. ASSUME NEW u \in Users, NEW n, UpdateScore(u, n) PROVE NftsShaped'
  BY <1>1, <1>2, <1>4, RescoredShaped DEF UpdateScore
<1>5. ASSUME NEW u \in Users, NEW n, DecreaseScore(u, n) \/ ApplyScoreDelta(u, n) PROVE NftsShaped'
  BY <1>1, <1>2, <1>5, DecreasedShaped, AdjustedShaped DEF DecreaseScore, ApplyScoreDelta
<1>6. ASSUME NEW u \in Users, SeizeCollateral(u) \/ ApproveRemint(u) PROVE NftsShaped'
  <2>1. IsNft([nft[u] EXCEPT !.seized = TRUE])
    BY <1>2, FieldsOfNft DEF IsNft
  <2>2. IsNft([nft[u] EXCEPT !.remint = TRUE])
    BY <1>2, FieldsOfNft DEF IsNft
  <2> QED BY <1>1, <1>6, <2>1, <2>2 DEF SeizeCollateral, ApproveRemint
<1>7. ASSUME NEW u \in Users, RecordDefault(u) \/ Burn(u) PROVE NftsShaped'
  BY <1>1, <1>2, <1>7, DefaultFlags, BurnedShaped DEF RecordDefault, Burn
<1>8. ASSUME NEW u \in Users, NEW v \in Users, Transfer(u, v) PROVE NftsShaped'
  <2> DEFINE a == Received(u, v)
             b == [nft[u] EXCEPT !.score = NoScore, !.history = <<>>, !.defaults = 0, !.seized = FALSE,
                                 !.remint = FALSE, !.nextTransfer = 0]
  <2>1. nft' = [[nft EXCEPT ![v] = a] EXCEPT ![u] = b]
    BY <1>8 DEF Transfer, NftsShaped
  <2>2. IsNft(a)
    BY <1>2, FieldsOfNft DEF IsNft, Received
  <2>3. IsNft(b)
    BY <1>2, FieldsOfNft DEF IsNft
  <2> HIDE DEF a, b
  <2>4. nft' = [x \in Users |-> IF x = u THEN b ELSE IF x = v THEN a ELSE nft[x]]
    BY <2>1 DEF NftsShaped
  <2>5. nft' = [x \in Users |-> nft'[x]]
    BY <2>4
  <2>6. \A x \in Users : IsNft(nft'[x])
    BY <1>2, <2>2, <2>3, <2>4
  <2> QED BY <2>5, <2>6 DEF NftsShaped, IsNft
<1>9. CASE NftAdminStep
  <2>1. nft' = nft
    BY <1>9 DEF NftAdminStep, AuthorizeMinter, RevokeMinter, SetDefaultBurnThreshold, SetScoreFloor,
                SetNftPaused, ProposeNftAdmin, SetNftAdmin, AcceptNftAdmin
  <2> QED BY <2>1 DEF NftsShaped, IsNft
<1> QED
  BY <1>3, <1>4, <1>5, <1>6, <1>7, <1>8, <1>9 DEF NftStep, NftUserStep

(* What defaulting the loans in D does to a borrower's NFT. *)
LEMMA DefaultLoansFlag ==
    ASSUME NftsShaped, NEW D \in SUBSET LoanIds, DefaultLoans(D)
    PROVE  /\ NftsShaped'
           /\ \A i \in D : loans[i].borrower \in Users /\ HasActiveNft(nft'[loans[i].borrower])
                             => nft'[loans[i].borrower].seized
<1> DEFINE mine(b) == {i \in D : loans[i].borrower = b}
           n(b)    == Cardinality(mine(b))
<1>1. nft' = [b \in Users |-> Penalised(nft[b], n(b))]
  BY DEF DefaultLoans
<1>2. ASSUME NEW b PROVE n(b) \in Nat /\ (mine(b) # {} => n(b) > 0)
  <2>1. IsFiniteSet(mine(b))
    <3>1. mine(b) \subseteq LoanIds
      OBVIOUS
    <3> HIDE DEF mine
    <3> QED BY <3>1, LoanIdsFinite, FS_Subset
  <2> HIDE DEF mine
  <2>2. n(b) \in Nat
    BY <2>1, FS_CardinalityType
  <2>3. mine(b) # {} => n(b) # 0
    BY <2>1, FS_EmptySet
  <2> QED BY <2>2, <2>3
<1>3. \A i \in D : mine(loans[i].borrower) # {}
  OBVIOUS
<1> HIDE DEF mine, n
<1>4. ASSUME NEW b \in Users
      PROVE  /\ nft'[b] = Penalised(nft[b], n(b)) /\ IsNft(nft'[b])
             /\ n(b) > 0 /\ HasActiveNft(nft'[b]) => nft'[b].seized
  <2>1. IsNft(nft[b]) /\ n(b) \in Nat /\ nft'[b] = Penalised(nft[b], n(b))
    BY <1>1, <1>2 DEF NftsShaped
  <2> QED BY <2>1, PenalisedFlags
<1>5. nft' = [b \in Users |-> nft'[b]]
  BY <1>1
<1>6. NftsShaped'
  BY <1>4, <1>5 DEF NftsShaped, IsNft
<1>7. ASSUME NEW i \in D, loans[i].borrower \in Users, HasActiveNft(nft'[loans[i].borrower])
      PROVE  nft'[loans[i].borrower].seized
  BY <1>2, <1>3, <1>4, <1>7
<1> QED
  BY <1>6, <1>7

(* Any step leaves records. *)
LEMMA NextShapes == NftsShaped /\ [Next]_vars => NftsShaped'
<1> SUFFICES ASSUME NftsShaped, [Next]_vars PROVE NftsShaped'
  OBVIOUS
<1>1. CASE nft' = nft
  BY <1>1 DEF NftsShaped, IsNft
<1>2. ASSUME NEW D \in SUBSET LoanIds, DefaultLoans(D) PROVE NftsShaped'
  BY <1>2, DefaultLoansFlag
<1>3. ASSUME NEW i \in LoanIds, NEW n \in Amounts, Repay(i, n) PROVE NftsShaped'
  <2>1. PICK b, late : ScoreRepayment(b, n, late)
    BY <1>3 DEF Repay
  <2>2. CASE nft' = nft
    BY <1>1, <2>2
  <2>3. CASE NftCall(b, DecreasedScore(nft[b], LatePenalty))
    BY <2>3, DecreasedShaped, OneNftShaped DEF NftCall, NftsShaped
  <2>4. CASE NftCall(b, AdjustedScore(nft[b], n \div ScoreUnit))
    BY <2>4, AdjustedShaped, OneNftShaped DEF NftCall, NftsShaped
  <2>5. \/ nft' = nft
        \/ NftCall(b, DecreasedScore(nft[b], LatePenalty))
        \/ NftCall(b, AdjustedScore(nft[b], n \div ScoreUnit))
    BY <2>1 DEF ScoreRepayment, nftVars
  <2> QED BY <2>2, <2>3, <2>4, <2>5
<1>4. CASE BorrowerStep
  BY <1>1, <1>3, <1>4 DEF BorrowerStep, RequestLoan, DepositCollateral, ExtendLoan, CancelLoan,
         Withdrawn, ReleaseCollateral, Liquidate, nftVars
<1>5. CASE AdminLoanStep
  <2>1. ASSUME NEW i \in LoanIds, CheckDefault(i) PROVE NftsShaped'
    BY <1>2, <2>1 DEF CheckDefault
  <2>2. ASSUME NEW ids \in SUBSET LoanIds, CheckDefaults(ids) PROVE NftsShaped'
    <3> DEFINE D == {i \in ids : Defaultable(loans[i])}
    <3>1. D \in SUBSET LoanIds /\ DefaultLoans(D)
      BY <2>2 DEF CheckDefaults
    <3> HIDE DEF D
    <3> QED BY <1>2, <3>1
  <2>3. ASSUME NEW i \in LoanIds, ApproveLoan(i) PROVE nft' = nft
    BY <2>3 DEF ApproveLoan, nftVars
  <2>4. ASSUME NEW i \in LoanIds, RejectLoan(i) PROVE nft' = nft
    BY <2>4 DEF RejectLoan, Withdrawn, nftVars
  <2>5. ASSUME NEW i \in LoanIds, PurgeLoan(i) PROVE nft' = nft
    BY <2>5 DEF PurgeLoan, nftVars
  <2>6. ASSUME NEW i \in LoanIds, NEW n \in Amounts, NEW t \in Terms, RefinanceLoan(i, n, t)
        PROVE  nft' = nft
    BY <2>6 DEF RefinanceLoan, nftVars
  <2> QED BY <1>1, <1>5, <2>1, <2>2, <2>3, <2>4, <2>5, <2>6 DEF AdminLoanStep
<1>6. CASE ConfigStep
  BY <1>1, <1>6 DEF ConfigStep, SetMinScore, SetMaxLoanAmount, SetMinRepaymentAmount,
         SetMaxLoansPerBorrower, SetInterestRate, SetMinRate, SetMaxRate, SetDefaultTerm,
         SetMinTerm, SetMaxTerm, SetGracePeriod, SetDefaultWindow, SetRateOracle, Configure, nftVars
<1>7. CASE RiskStep \/ AdminStep
  BY <1>1, <1>7 DEF RiskStep, ProposeRiskChange, ExecuteRiskChange, CancelRiskChange, AdminStep,
         ProposeAdmin, AcceptAdmin, SetPaused, nftVars
<1>8. CASE EnvironmentStep
  BY <1>1, <1>8, NftStepShapes DEF EnvironmentStep, PoolMoves, SetPoolPaused, nftVars
<1>9. CASE UNCHANGED vars
  BY <1>1, <1>9 DEF vars, nftVars
<1> QED
  BY <1>4, <1>5, <1>6, <1>7, <1>8, <1>9 DEF Next

LEMMA InitShapes == Init => NftsShaped
<1> SUFFICES ASSUME Init PROVE NftsShaped
  OBVIOUS
<1>1. nft \in [Users -> {[NoNft EXCEPT !.score = s] : s \in InitialScores \cap ScoreRange}]
  BY DEF Init
<1>2. ASSUME NEW s PROVE IsNft([NoNft EXCEPT !.score = s])
  BY FieldsOfNft DEF IsNft, NoNft
<1>3. \A u \in Users : \E s : nft[u] = [NoNft EXCEPT !.score = s]
  BY <1>1
<1> QED
  BY <1>1, <1>2, <1>3 DEF NftsShaped

(* Whoever defaults while holding an NFT is barred from new credit: after   *)
(* check_default or check_defaults the NFT is flagged as seized or burned,  *)
(* however many of the borrower's loans default in one call.                *)
THEOREM DefaultAlwaysMarks == Spec => DefaultMarksBorrower
<1> DEFINE Step == \A i \in LoanIds :
          LET b == loans[i].borrower
          IN  /\ loans[i].status = "Approved" /\ loans'[i].status = "Defaulted"
              /\ HasActiveNft(nft'[b])
              => nft'[b].seized
<1>1. LoanInv /\ BooksInv /\ NftsShaped /\ [Next]_vars => Step
  <2> SUFFICES ASSUME LoanInv, BooksInv, NftsShaped, [Next]_vars, NEW i \in LoanIds,
                      loans[i].status = "Approved", loans'[i].status = "Defaulted",
                      HasActiveNft(nft'[loans[i].borrower])
               PROVE  nft'[loans[i].borrower].seized
    OBVIOUS
  <2>1. WrittenOff(i)
    BY NextMoves DEF LoansMove, Moves
  <2>2. loans[i].borrower \in Users
    BY DEF BooksInv, LoanBooks, LoansOwned
  <2> QED BY <2>1, <2>2, DefaultLoansFlag DEF WrittenOff
<1>2. Spec => []NftsShaped
  BY InitShapes, NextShapes, PTL DEF Spec
<1> QED
  BY <1>1, <1>2, LoanInvHolds, BooksInvHolds, PTL DEF Spec, DefaultMarksBorrower

------------------------------------------------------------------------------
(* The timelock of the risk parameters (MCLoanParams).                      *)

(* A pending change has been public since it was proposed, which is a       *)
(* timelock before its eta.                                                 *)
NoticeInv ==
    \A p \in RiskParams :
        pending[p] # NoChange =>
           /\ notice[p].value = pending[p].value
           /\ notice[p].since \in Nat
           /\ notice[p].since + RiskTimelock = pending[p].eta

(* Only the three calls of the timelock touch the risk parameters. *)
LEMMA RiskMovesAlone ==
    ASSUME LoanInv, BooksInv, [Next]_vars
    PROVE  RiskStep \/ UNCHANGED <<risk, pending>>
<1>1. CASE BorrowerStep \/ AdminLoanStep
  <2>1. LoanFrame
    BY <1>1, BorrowerStepSettles, AdminLoanStepSettles DEF LoanInv
  <2> QED BY <2>1 DEF LoanFrame, paramVars
<1>2. CASE ConfigStep
  BY <1>2 DEF ConfigStep, SetMinScore, SetMaxLoanAmount, SetMinRepaymentAmount,
         SetMaxLoansPerBorrower, SetInterestRate, SetMinRate, SetMaxRate, SetDefaultTerm,
         SetMinTerm, SetMaxTerm, SetGracePeriod, SetDefaultWindow, SetRateOracle, Configure
<1>3. CASE AdminStep \/ EnvironmentStep \/ UNCHANGED vars
  BY <1>3 DEF AdminStep, ProposeAdmin, AcceptAdmin, SetPaused, EnvironmentStep, PoolMoves,
         SetPoolPaused, vars, paramVars
<1> QED
  BY <1>1, <1>2, <1>3 DEF Next

(* What each of the three does to one parameter. *)
LEMMA RiskStepByParameter ==
    ASSUME BooksInv, RiskStep, NEW p \in RiskParams
    PROVE  \/ UNCHANGED <<risk[p], pending[p]>>
           \/ /\ pending[p] = NoChange /\ risk'[p] = risk[p]
              /\ \E v \in Nat : pending'[p] = [value |-> v, eta |-> ledger + RiskTimelock]
           \/ /\ pending[p] # NoChange /\ pending'[p] = NoChange
              /\ \/ risk'[p] = risk[p]
                 \/ risk'[p] = pending[p].value /\ ledger >= pending[p].eta
<1>1. /\ risk \in [RiskParams -> Nat]
      /\ pending \in [RiskParams -> [value : Nat, eta : Nat]]
  BY DEF BooksInv, ParamTypes
<1>2. ASSUME NEW q \in RiskParams, NEW v \in Settings[q], ProposeRiskChange(q, v)
      PROVE  \/ UNCHANGED <<risk[p], pending[p]>>
             \/ /\ pending[p] = NoChange /\ risk'[p] = risk[p]
                /\ \E w \in Nat : pending'[p] = [value |-> w, eta |-> ledger + RiskTimelock]
  <2>1. v \in Nat
    BY LoanConstants
  <2> QED BY <1>1, <1>2, <2>1 DEF ProposeRiskChange
<1>3. ASSUME NEW q \in RiskParams, ExecuteRiskChange(q)
      PROVE  \/ UNCHANGED <<risk[p], pending[p]>>
             \/ /\ pending[p] # NoChange /\ pending'[p] = NoChange
                /\ risk'[p] = pending[p].value /\ ledger >= pending[p].eta
  BY <1>1, <1>3 DEF ExecuteRiskChange, TimelockElapsed
<1>4. ASSUME NEW q \in RiskParams, CancelRiskChange(q)
      PROVE  \/ UNCHANGED <<risk[p], pending[p]>>
             \/ pending[p] # NoChange /\ pending'[p] = NoChange /\ risk'[p] = risk[p]
  BY <1>1, <1>4 DEF CancelRiskChange
<1> QED
  BY <1>2, <1>3, <1>4 DEF RiskStep

(* A risk parameter only takes a value that was announced a whole timelock  *)
(* before: propose_*, cancel_* and execute_* in any order never let an      *)
(* older or a withdrawn announcement count.                                 *)
THEOREM RiskAlwaysAnnounced == ParamsSpec => RiskChangesAreAnnounced
<1> DEFINE Inv  == LoanInv /\ BooksInv
           Step == \A p \in RiskParams :
                      risk'[p] # risk[p] =>
                         /\ notice[p].value = risk'[p]
                         /\ ledger >= notice[p].since + RiskTimelock
<1>1. ParamsInit => Inv /\ NoticeInv
  BY InitLoanInv, InitBooks DEF ParamsInit, NoticeInv, Init
<1>2. ASSUME Inv, NoticeInv, [ParamsNext]_<<vars, notice>>
      PROVE  Inv' /\ NoticeInv' /\ Step
  <2>1. [Next]_vars
    BY <1>2 DEF ParamsNext
  <2>2. Inv'
    BY <1>2, <2>1, NextLoanInv, NextKeepsBooks
  <2>3. ASSUME NEW p \in RiskParams, UNCHANGED <<risk[p], pending[p]>>
        PROVE  notice'[p] = notice[p]
    <3>1. CASE ParamsNext
      BY <2>3, <3>1 DEF ParamsNext
    <3>2. CASE UNCHANGED <<vars, notice>>
      BY <3>2
    <3> QED BY <1>2, <3>1, <3>2
  <2>4. ledger \in Nat /\ (RiskStep \/ UNCHANGED <<risk, pending>>)
    BY <1>2, <2>1, RiskMovesAlone DEF BooksInv, OtherTypes
  <2>5. ASSUME NEW p \in RiskParams
        PROVE  /\ pending'[p] # NoChange =>
                     /\ notice'[p].value = pending'[p].value
                     /\ notice'[p].since \in Nat
                     /\ notice'[p].since + RiskTimelock = pending'[p].eta
               /\ risk'[p] # risk[p] =>
                     /\ notice[p].value = risk'[p]
                     /\ ledger >= notice[p].since + RiskTimelock
    <3>1. CASE UNCHANGED <<risk[p], pending[p]>>
      BY <1>2, <2>3, <3>1 DEF NoticeInv
    <3>2. CASE /\ pending[p] = NoChange /\ risk'[p] = risk[p] /\ pending'[p] # pending[p]
               /\ \E v \in Nat : pending'[p] = [value |-> v, eta |-> ledger + RiskTimelock]
      <4>1. ParamsNext
        BY <1>2, <3>2 DEF vars, paramVars
      <4>2. notice'[p] = [value |-> pending'[p].value, since |-> ledger]
        BY <3>2, <4>1 DEF ParamsNext
      <4> QED BY <2>4, <3>2, <4>2
    <3>3. CASE /\ pending[p] # NoChange /\ pending'[p] = NoChange
               /\ \/ risk'[p] = risk[p]
                  \/ risk'[p] = pending[p].value /\ ledger >= pending[p].eta
      BY <1>2, <2>4, <3>3 DEF NoticeInv
    <3> QED
      BY <1>2, <2>4, <3>1, <3>2, <3>3, RiskStepByParameter
  <2> QED BY <2>2, <2>5 DEF NoticeInv
<1> QED
  BY <1>1, <1>2, PTL DEF ParamsSpec, RiskChangesAreAnnounced

------------------------------------------------------------------------------
(* The debt against its exact count (MCLoanDebt).                           *)

NoDebtYet(l) ==
    /\ l.interest = 0 /\ l.interestPaid = 0 /\ l.residual = 0 /\ l.lastInterest = 0
    /\ l.lateFee = 0 /\ l.lateFeePaid = 0

(* The ledgers a late fee is still to be accrued for. *)
FeeStart(l) == AtLeast(l.lastLateFee, GraceEnds(l))

LateLedgers(l, t) == AtLeast(t - FeeStart(l), 0)

InterestCounted(l, exact, count) ==
    /\ exact \in Nat /\ count \in Nat
    /\ Charged(l) * Bps * Term <= exact * Precision
    /\ exact * Precision <= (Charged(l) + count) * Bps * Term

FeesCounted(l, exact, t) ==
    (l.lateFee + l.lateFeePaid) * (Bps * Term) + l.amount * risk["lateFee"] * LateLedgers(l, t)
       <= exact

(* Interest for dt ledgers, rounded down in units of 1/Precision. *)
Scaled(l) == (RemainingPrincipal(l) * l.rate * (ledger - l.lastInterest) * Precision)
                 \div (Bps * Term)

LEMMA FloorBounds ==
    ASSUME NEW a \in Nat, NEW d \in Nat, d > 0
    PROVE  a \div d \in Nat /\ (a \div d) * d <= a /\ a <= ((a \div d) + 1) * d
<1> DEFINE q == a \div d
           r == a % d
<1>1. q \in Nat /\ r \in 0..(d - 1) /\ a = d * q + r
  BY DivMod
<1> HIDE DEF q, r
<1>2. q * d = d * q /\ (q + 1) * d = d * q + d
  BY <1>1, SMT
<1> QED
  BY <1>1, <1>2 DEF q

(* The interest an accrual charges is the exact one, but for less than one  *)
(* unit of 1/Precision.                                                     *)
LEMMA ScaledBounds ==
    ASSUME NEW l, SoundLoan(l), ledger \in Nat, l.lastInterest <= ledger
    PROVE  LET e == RemainingPrincipal(l) * l.rate * (ledger - l.lastInterest)
           IN  /\ e \in Nat /\ Scaled(l) \in Nat
               /\ Scaled(l) * (Bps * Term) <= e * Precision
               /\ e * Precision <= (Scaled(l) + 1) * (Bps * Term)
<1> DEFINE e == RemainingPrincipal(l) * l.rate * (ledger - l.lastInterest)
           d == Bps * Term
           a == e * Precision
<1>1. RemainingPrincipal(l) \in Nat /\ l.rate \in Nat /\ ledger - l.lastInterest \in Nat
  BY DEF SoundLoan, Loan, RemainingPrincipal
<1>2. RemainingPrincipal(l) * l.rate \in Nat
  BY <1>1, SMT
<1>3. e \in Nat
  BY <1>1, <1>2, SMT
<1>4. d \in Nat /\ d > 0
  BY LoanConstants, SMT
<1>5. Scaled(l) = a \div d
  BY DEF Scaled
<1> HIDE DEF e, d
<1>6. a \in Nat
  BY <1>3, LoanConstants, SMT
<1> HIDE DEF a
<1>7. /\ Scaled(l) \in Nat
      /\ Scaled(l) * d <= a /\ a <= (Scaled(l) + 1) * d
  BY <1>4, <1>5, <1>6, FloorBounds
<1> QED
  BY <1>3, <1>7 DEF e, d, a

(* accrue_interest leaves the late fees alone, and accrue_late_fee the      *)
(* interest.                                                                *)
LEMMA AccrueInterestSparesFees ==
    ASSUME NEW l, SoundLoan(l)
    PROVE  LET m == AccrueInterest(l)
           IN  /\ m.lateFee = l.lateFee /\ m.lateFeePaid = l.lateFeePaid
               /\ m.lastLateFee = l.lastLateFee /\ m.due = l.due /\ m.rate = l.rate
               /\ m.interestPaid = l.interestPaid
BY DEF AccrueInterest, SoundLoan, Loan

LEMMA AccrueLateFeeSparesInterest ==
    ASSUME NEW l, SoundLoan(l)
    PROVE  LET m == AccrueLateFee(l)
           IN  /\ m.interest = l.interest /\ m.interestPaid = l.interestPaid
               /\ m.residual = l.residual /\ m.lastInterest = l.lastInterest
               /\ m.due = l.due /\ m.lateFeePaid = l.lateFeePaid
BY DEF AccrueLateFee, SoundLoan, Loan

LEMMA ChargedTyped ==
    ASSUME NEW l, SoundLoan(l)
    PROVE  Charged(l) \in Nat
<1> DEFINE x == l.interest + l.interestPaid
<1>1. x \in Nat /\ l.residual \in Nat
  BY DEF SoundLoan, Loan
<1> HIDE DEF x
<1>2. x * Precision \in Nat
  BY <1>1, LoanConstants, SMT
<1> QED
  BY <1>1, <1>2 DEF Charged, x

(* What accrue_interest charges; the residual carries over. *)
LEMMA AccrueInterestCharges ==
    ASSUME NEW l, SoundLoan(l), ledger \in Nat, l.lastInterest \in 1..ledger,
           l.status = "Approved"
    PROVE  LET m == AccrueInterest(l)
           IN  /\ m.lastInterest = ledger
               /\ l.lastInterest = ledger => m = l
               /\ l.lastInterest # ledger =>
                    Charged(m) = Charged(l) + IF RemainingPrincipal(l) = 0 THEN 0 ELSE Scaled(l)
<1>1. l.lastInterest \in Nat /\ l.lastInterest # 0 /\ RemainingPrincipal(l) \in Nat
  BY DEF SoundLoan, Loan, RemainingPrincipal
<1>2. CASE l.lastInterest = ledger
  BY <1>1, <1>2 DEF AccrueInterest
<1>3. CASE l.lastInterest # ledger /\ RemainingPrincipal(l) = 0
  <2>1. AccrueInterest(l) = [l EXCEPT !.lastInterest = ledger]
    BY <1>1, <1>3 DEF AccrueInterest
  <2>2. LET m == AccrueInterest(l)
        IN  /\ m.interest = l.interest /\ m.interestPaid = l.interestPaid
            /\ m.residual = l.residual /\ m.lastInterest = ledger
    BY <2>1 DEF SoundLoan, Loan
  <2>3. Charged(AccrueInterest(l)) = Charged(l)
    BY <2>2 DEF Charged
  <2>4. Charged(l) \in Nat
    BY ChargedTyped
  <2> QED BY <1>3, <2>2, <2>3, <2>4
<1>4. CASE l.lastInterest # ledger /\ RemainingPrincipal(l) # 0
  <2> DEFINE s == Scaled(l)
             c == l.residual + (s % Precision)
  <2>1. AccrueInterest(l) =
           [l EXCEPT !.interest = @ + (s \div Precision) + (c \div Precision),
                     !.residual = c % Precision, !.lastInterest = ledger]
    BY <1>1, <1>4 DEF AccrueInterest, Scaled
  <2>2. s \in Nat
    BY ScaledBounds
  <2> HIDE DEF s
  <2>3. /\ s \div Precision \in Nat /\ s % Precision \in Nat
        /\ s = Precision * (s \div Precision) + (s % Precision)
    BY <2>2, LoanConstants, DivMod
  <2>4. c \in Nat
    BY <2>3 DEF SoundLoan, Loan
  <2>5. c \div Precision \in Nat /\ c % Precision \in Nat
        /\ c = Precision * (c \div Precision) + (c % Precision)
    BY <2>4, LoanConstants, DivMod
  <2>6. c = l.residual + (s % Precision)
    OBVIOUS
  <2> HIDE DEF c
  <2> DEFINE q == s \div Precision
             k == c \div Precision
             m == AccrueInterest(l)
  <2>7. /\ m.interest = l.interest + q + k /\ m.residual = c % Precision
        /\ m.interestPaid = l.interestPaid /\ m.lastInterest = ledger
    BY <2>1 DEF SoundLoan, Loan
  <2>8. l.interest \in Nat /\ l.interestPaid \in Nat /\ l.residual \in Nat
        /\ q \in Nat /\ k \in Nat /\ Precision \in Nat
    BY <2>3, <2>5, LoanConstants DEF SoundLoan, Loan
  <2> DEFINE x == l.interest + l.interestPaid
  <2>9. (x + q + k) * Precision = x * Precision + Precision * q + Precision * k
    BY <2>8, SMT
  <2>10. Charged(m) = (x + q + k) * Precision + (c % Precision)
    BY <2>7, <2>8 DEF Charged
  <2>11. Charged(l) = x * Precision + l.residual
    BY DEF Charged
  <2> DEFINE xp == x * Precision
             pq == Precision * q
             pk == Precision * k
  <2>12. xp \in Int /\ pq \in Int /\ pk \in Int
    BY <2>8, SMT
  <2>13. s = pq + (s % Precision) /\ c = pk + (c % Precision)
    BY <2>3, <2>5
  <2>14. Charged(m) = xp + pq + pk + (c % Precision) /\ Charged(l) = xp + l.residual
    BY <2>9, <2>10, <2>11
  <2> HIDE DEF xp, pq, pk, m
  <2>15. Charged(m) = Charged(l) + s
    BY <2>3, <2>5, <2>6, <2>8, <2>12, <2>13, <2>14
  <2> QED
    BY <1>4, <2>7, <2>15 DEF m, s
<1> QED
  BY <1>1, <1>2, <1>3, <1>4

(* One accrual keeps the count of the interest. *)
LEMMA AccrualCounted ==
    ASSUME NEW l, SoundLoan(l), ledger \in Nat, l.lastInterest \in 1..ledger,
           l.status = "Approved", NEW exact, NEW count, InterestCounted(l, exact, count)
    PROVE  LET m == AccrueInterest(l)
           IN  IF m.lastInterest # l.lastInterest
               THEN InterestCounted(m,
                        exact + RemainingPrincipal(l) * l.rate
                                    * (m.lastInterest - l.lastInterest), count + 1)
               ELSE InterestCounted(m, exact, count)
<1> DEFINE m == AccrueInterest(l)
           e == RemainingPrincipal(l) * l.rate * (ledger - l.lastInterest)
           d == Bps * Term
           s == IF RemainingPrincipal(l) = 0 THEN 0 ELSE Scaled(l)
           c == Charged(l)
<1>1. /\ m.lastInterest = ledger
      /\ l.lastInterest = ledger => m = l
      /\ l.lastInterest # ledger => Charged(m) = c + s
  BY AccrueInterestCharges
<1>2. CASE l.lastInterest = ledger
  BY <1>1, <1>2
<1>3. CASE l.lastInterest # ledger
  <2>1. d \in Nat /\ d > 0 /\ Precision \in Nat
    BY LoanConstants, SMT
  <2>2. c \in Nat /\ exact \in Nat /\ count \in Nat
    BY ChargedTyped DEF InterestCounted
  <2>3. /\ e \in Nat /\ Scaled(l) \in Nat
        /\ Scaled(l) * d <= e * Precision
        /\ e * Precision <= (Scaled(l) + 1) * d
    BY ScaledBounds
  <2>4. RemainingPrincipal(l) = 0 => e = 0
    BY DEF SoundLoan, Loan
  <2> HIDE DEF e
  <2>5. e * Precision \in Nat
    BY <2>1, <2>3, SMT
  <2> HIDE DEF d
  <2>6. s \in Nat /\ s * d <= e * Precision /\ e * Precision <= (s + 1) * d
    <3>1. CASE RemainingPrincipal(l) = 0
      <4>1. s = 0 /\ e * Precision = 0 /\ 0 * d = 0 /\ (0 + 1) * d = d
        BY <2>1, <2>4, <3>1
      <4> QED BY <2>1, <4>1
    <3> QED BY <2>3, <3>1
  <2> HIDE DEF s, c
  <2>7. /\ c * d <= exact * Precision
        /\ exact * Precision <= (c + count) * d
    <3>1. ASSUME NEW z \in Int PROVE z * Bps * Term = z * d
      BY LoanConstants, SMT DEF d
    <3>2. c + count \in Int
      BY <2>2
    <3> QED BY <2>2, <3>1, <3>2 DEF InterestCounted, c
  <2>8. /\ (c + s) * d = c * d + s * d
        /\ (exact + e) * Precision = exact * Precision + e * Precision
        /\ (c + s + (count + 1)) * d = (c + count) * d + (s + 1) * d
    BY <2>1, <2>2, <2>3, <2>6, SMT
  <2>9. /\ (c + s) * d \in Int /\ c * d \in Int /\ s * d \in Int
        /\ exact * Precision \in Int /\ e * Precision \in Int
        /\ (c + count) * d \in Int /\ (s + 1) * d \in Int
    BY <2>1, <2>2, <2>3, <2>6, SMT
  <2>10. /\ (c + s) * d <= (exact + e) * Precision
         /\ (exact + e) * Precision <= (c + s + (count + 1)) * d
    <3> DEFINE a1 == (c + s) * d
               a2 == c * d
               a3 == s * d
               a4 == exact * Precision
               a5 == e * Precision
               a6 == (c + count) * d
               a7 == (s + 1) * d
               a8 == (exact + e) * Precision
               a9 == (c + s + (count + 1)) * d
    <3>1. /\ a1 = a2 + a3 /\ a8 = a4 + a5 /\ a9 = a6 + a7
          /\ a2 <= a4 /\ a4 <= a6 /\ a3 <= a5 /\ a5 <= a7
          /\ a2 \in Int /\ a3 \in Int /\ a4 \in Int /\ a5 \in Int /\ a6 \in Int
          /\ a7 \in Int
      BY <2>6, <2>7, <2>8, <2>9
    <3> HIDE DEF a1, a2, a3, a4, a5, a6, a7, a8, a9
    <3>2. a1 <= a8 /\ a8 <= a9
      BY <3>1
    <3> QED BY <3>2 DEF a1, a8, a9
  <2>11. InterestCounted(m, exact + e, count + 1)
    <3>1. Charged(m) = c + s
      BY <1>1, <1>3
    <3>2. /\ (c + s) * Bps * Term = (c + s) * d
          /\ (c + s + (count + 1)) * Bps * Term = (c + s + (count + 1)) * d
      BY <2>2, <2>6, LoanConstants, SMT DEF d
    <3>3. exact + e \in Nat /\ count + 1 \in Nat
      BY <2>2, <2>3
    <3> HIDE DEF m
    <3> QED BY <2>10, <3>1, <3>2, <3>3 DEF InterestCounted
  <2> QED BY <1>1, <1>3, <2>11 DEF e
<1> QED
  BY <1>2, <1>3

(* Fewer ledgers to come need no larger count. *)
LEMMA FewerLedgers ==
    ASSUME NEW f \in Nat, NEW d \in Nat, NEW p \in Nat, NEW k \in Nat, NEW h \in 0..k,
           NEW x, x \in Nat, f * d + p * k <= x
    PROVE  f * d + p * h <= x
<1>1. f * d \in Nat /\ p * k \in Nat /\ p * h \in Nat
  BY SMT
<1>2. p * h <= p * k
  BY SMT
<1> QED
  BY <1>1, <1>2

FeesTyped == ledger \in Nat /\ config \in [ConfigFields -> Nat] /\ risk \in [RiskParams -> Nat]

LEMMA FeeTerms ==
    ASSUME FeesTyped, NEW l, SoundLoan(l), NEW t \in Nat
    PROVE  /\ l.lateFee + l.lateFeePaid \in Nat /\ Bps * Term \in Nat \ {0}
           /\ l.amount * risk["lateFee"] \in Nat
           /\ FeeStart(l) \in Nat /\ LateLedgers(l, t) \in Nat
<1>1. /\ l.lateFee \in Nat /\ l.lateFeePaid \in Nat /\ l.amount \in Nat /\ l.due \in Nat
      /\ l.lastLateFee \in Nat /\ risk["lateFee"] \in Nat /\ config["grace"] \in Nat
  BY DEF SoundLoan, Loan, FeesTyped, ConfigFields, RiskParams
<1>2. l.amount * risk["lateFee"] \in Nat
  BY <1>1, SMT
<1>3. Bps * Term \in Nat \ {0}
  BY LoanConstants, SMT
<1> QED
  BY <1>1, <1>2, <1>3 DEF FeeStart, LateLedgers, AtLeast, GraceEnds

(* The fee an accrual adds is covered by the late ledgers it was for. *)
LEMMA FeeAccrualCounted ==
    ASSUME FeesTyped, NEW l, SoundLoan(l), l.status = "Approved",
           NEW exact \in Nat, FeesCounted(l, exact, ledger)
    PROVE  FeesCounted(AccrueLateFee(l), exact, ledger)
<1> DEFINE m     == AccrueLateFee(l)
           start == FeeStart(l)
           rate  == AtMost(risk["lateFee"], MaxLateFee)
           k     == ledger - start
           d     == Bps * Term
           fee   == (l.amount * rate * k) \div d
           room  == AtLeast(l.amount * DebtMultiplier - Debt(l), 0)
<1>1. CASE l.due = 0 \/ ledger <= start
  BY <1>1 DEF AccrueLateFee, FeeStart
<1>2. /\ SoundLoan(m) /\ m.lateFeePaid = l.lateFeePaid /\ m.due = l.due /\ m.amount = l.amount
  BY AccrueLateFeeSound, AccrueLateFeeSparesInterest DEF FeesTyped, SameBooks
<1>3. /\ l.lateFee + l.lateFeePaid \in Nat /\ d \in Nat /\ d > 0
      /\ l.amount * risk["lateFee"] \in Nat
      /\ start \in Nat /\ LateLedgers(l, ledger) \in Nat /\ LateLedgers(m, ledger) \in Nat
      /\ ledger \in Nat
  BY <1>2, FeeTerms DEF FeesTyped
<1>4. ASSUME ledger > start, m.lastLateFee = ledger
      PROVE  LateLedgers(m, ledger) = 0
  <2>1. GraceEnds(m) = GraceEnds(l)
    BY <1>2 DEF GraceEnds
  <2>2. l.lastLateFee \in Nat /\ GraceEnds(l) \in Nat
    BY DEF SoundLoan, Loan, GraceEnds, FeesTyped, ConfigFields
  <2> QED BY <1>3, <1>4, <2>1, <2>2 DEF LateLedgers, FeeStart, AtLeast
<1>5. CASE ~(l.due = 0 \/ ledger <= start) /\ RemainingPrincipal(l) <= 0
  <2>1. m = [l EXCEPT !.lastLateFee = ledger]
    BY <1>5 DEF AccrueLateFee, FeeStart
  <2>2. m.lastLateFee = ledger /\ m.lateFee = l.lateFee
    BY <2>1 DEF SoundLoan, Loan
  <2>3. LateLedgers(m, ledger) \in 0..LateLedgers(l, ledger)
    BY <1>3, <1>4, <1>5, <2>2
  <2>4. FeesCounted(m, exact, ledger)
    <3> DEFINE f == l.lateFee + l.lateFeePaid
               p == l.amount * risk["lateFee"]
               h == LateLedgers(m, ledger)
               j == LateLedgers(l, ledger)
    <3>1. f * d + p * j <= exact
      BY DEF FeesCounted
    <3>2. f \in Nat /\ p \in Nat /\ j \in Nat /\ h \in 0..j
      BY <1>3, <2>3
    <3>3. m.lateFee + m.lateFeePaid = f /\ m.amount * risk["lateFee"] = p
      BY <1>2, <2>2
    <3> HIDE DEF m, f, p, h, j, d
    <3>4. f * d + p * h <= exact
      BY <1>3, <3>1, <3>2, FewerLedgers
    <3> QED BY <3>3, <3>4 DEF FeesCounted, h, d
  <2> QED BY <2>4
<1>6. CASE ~(l.due = 0 \/ ledger <= start) /\ ~(RemainingPrincipal(l) <= 0)
  <2>1. m = [l EXCEPT !.lateFee = @ + AtMost(fee, room), !.lastLateFee = ledger]
    BY <1>6 DEF AccrueLateFee, FeeStart
  <2>2. m.lastLateFee = ledger /\ m.lateFee = l.lateFee + AtMost(fee, room)
    BY <2>1 DEF SoundLoan, Loan
  <2>3. LateLedgers(m, ledger) = 0 /\ k \in Nat /\ LateLedgers(l, ledger) = k
    BY <1>3, <1>4, <1>6, <2>2 DEF LateLedgers, AtLeast
  <2>4. /\ rate \in Nat /\ rate <= risk["lateFee"] /\ l.amount \in Nat
        /\ risk["lateFee"] \in Nat
    BY LoanConstants DEF AtMost, FeesTyped, RiskParams, SoundLoan, Loan
  <2>5. l.amount * rate \in Nat /\ l.amount * rate <= l.amount * risk["lateFee"]
    <3> HIDE DEF rate
    <3> QED BY <2>4, SMT
  <2> DEFINE p == l.amount * risk["lateFee"]
             r == l.amount * rate
  <2> HIDE DEF k, d, p, r
  <2>6. r * k \in Nat /\ r * k <= p * k /\ p * k \in Nat
    BY <1>3, <2>3, <2>5, SMT DEF p, r
  <2>7. fee \in Nat /\ fee * d <= r * k
    <3> DEFINE z == r * k
    <3>1. z \in Nat /\ fee = z \div d
      BY <2>6 DEF r
    <3> HIDE DEF z, fee
    <3>2. (z \div d) \in Nat /\ (z \div d) * d <= z
      BY <1>3, <3>1, FloorBounds
    <3> QED BY <3>1, <3>2 DEF z
  <2> HIDE DEF fee
  <2>8. room \in Nat
    <3>1. Debt(l) \in Int
      BY SoundDues
    <3>2. l.amount * DebtMultiplier \in Int
      BY <2>4, LoanConstants, SMT
    <3> QED BY <3>1, <3>2 DEF AtLeast
  <2> HIDE DEF room
  <2> DEFINE a == AtMost(fee, room)
             f == l.lateFee + l.lateFeePaid
  <2>9. a \in Nat /\ a <= fee
    BY <2>7, <2>8 DEF AtMost
  <2>10. m.lateFee + m.lateFeePaid = f + a
    BY <1>2, <2>2, <2>9 DEF SoundLoan, Loan
  <2>11. f * d + p * k <= exact
    BY <2>3 DEF FeesCounted, d, p
  <2>12. f \in Nat
    BY <1>3
  <2> HIDE DEF a, f, m
  <2>13. (f + a) * d <= f * d + fee * d /\ (f + a) * d \in Nat
         /\ f * d \in Nat /\ fee * d \in Nat
    BY <1>3, <2>7, <2>9, <2>12, SMT
  <2>14. (f + a) * d <= exact
    BY <2>6, <2>7, <2>11, <2>13
  <2>15. m.amount * risk["lateFee"] * LateLedgers(m, ledger) = 0
    BY <1>2, <1>3, <2>3
  <2>16. FeesCounted(m, exact, ledger)
    BY <2>10, <2>13, <2>14, <2>15 DEF FeesCounted, d
  <2> QED BY <2>16 DEF m
<1> QED
  BY <1>1, <1>5, <1>6

(* Loan m records what loan a has been charged, and is charged no sooner.   *)
Carries(a, m) ==
    /\ m.interest + m.interestPaid = a.interest + a.interestPaid
    /\ m.residual = a.residual /\ m.lastInterest = a.lastInterest
    /\ m.lateFee + m.lateFeePaid = a.lateFee + a.lateFeePaid
    /\ \/ m.lastLateFee = a.lastLateFee /\ m.due >= a.due /\ m.amount = a.amount
       \/ m.lastLateFee >= ledger

(* What a call may make of the debt of loan i. *)
DebtMoves(i, m) ==
    LET l == loans[i]
    IN  \/ m = l
        \/ l.status # "Absent" /\ m.status \notin {"Pending", "Approved"}
        \/ i = loanCounter + 1 /\ m.status = "Pending" /\ NoDebtYet(m)
        \/ /\ l.status = "Pending" /\ m.status = "Approved"
           /\ Carries([l EXCEPT !.lastInterest = ledger], m) /\ m.lastLateFee >= ledger
        \/ /\ l.status = "Approved" /\ m.status = "Approved"
           /\ Carries(l, m) \/ Carries(Accrued(l), m)

DebtsMove == \A i \in LoanIds : DebtMoves(i, loans'[i])

AccruedUpTo == \A i \in LoanIds : loans[i].status = "Approved" => loans[i].lastInterest \in 1..ledger

(* A call that stores one loan. *)
LEMMA OneDebtMoves ==
    ASSUME BooksInv, NEW i \in LoanIds, NEW v, loans' = [loans EXCEPT ![i] = v], DebtMoves(i, v)
    PROVE  DebtsMove
<1>1. \A j \in LoanIds : loans'[j] = IF j = i THEN v ELSE loans[j]
  BY DEF BooksInv, LoanBooks, LoanTypes
<1> QED
  BY <1>1 DEF DebtsMove, DebtMoves

(* apply_debt_recovery moves charges from owed to paid. *)
LEMMA PaymentCarries ==
    ASSUME NEW l, SoundLoan(l), NEW n \in 0..Debt(l)
    PROVE  Carries(l, ApplyPayment(l, n))
<1>1. CASE n = 0
  BY <1>1 DEF ApplyPayment, Carries, SoundLoan, Loan
<1>2. CASE n \in 1..Debt(l)
  <2> DEFINE s(k) == Split(l, n, k)
             p == ApplyPayment(l, n)
  <2>1. \A k \in Buckets : s(k) \in Nat
    BY <1>2, SoundDues, SplitExact
  <2>2. s(2) \in Nat /\ s(3) \in Nat
    BY <2>1 DEF Buckets
  <2>3. p = [l EXCEPT !.principalPaid = @ + s(1),
                      !.interestPaid  = @ + s(2),
                      !.interest      = @ - s(2),
                      !.lateFeePaid   = @ + s(3),
                      !.lateFee       = @ - s(3)]
    BY <1>2 DEF ApplyPayment
  <2> HIDE DEF s, p
  <2>4. /\ p.interestPaid = l.interestPaid + s(2) /\ p.interest = l.interest - s(2)
        /\ p.lateFeePaid = l.lateFeePaid + s(3) /\ p.lateFee = l.lateFee - s(3)
        /\ p.residual = l.residual /\ p.lastInterest = l.lastInterest
        /\ p.lastLateFee = l.lastLateFee /\ p.due = l.due /\ p.amount = l.amount
    BY <2>3 DEF SoundLoan, Loan
  <2>5. /\ l.interest \in Nat /\ l.interestPaid \in Nat /\ l.lateFee \in Nat
        /\ l.lateFeePaid \in Nat /\ l.due \in Nat
    BY DEF SoundLoan, Loan
  <2> QED BY <2>2, <2>4, <2>5 DEF Carries, p
<1> QED
  BY <1>1, <1>2, SoundDues

(* repay. *)
LEMMA RepayDebts ==
    ASSUME BooksInv, NEW i \in LoanIds, NEW n \in Amounts, Repay(i, n)
    PROVE  DebtsMove
<1> DEFINE l    == Accrued(loans[i])
           paid == ApplyPayment(l, n)
           done == IsDust(Debt(l)) \/ FullyRepaid(paid)
           v    == IF done THEN Closed(paid) ELSE paid
<1>1. /\ n > 0 /\ n <= Debt(l) /\ l.status = "Approved"
      /\ loans' = [loans EXCEPT ![i] = v]
  BY DEF Repay
<1>2. SoundLoan(l) /\ SameBooks(loans[i], l) /\ Debt(l) \in Nat
  BY AccruedStored
<1> HIDE DEF l
<1>3. n \in 0..Debt(l)
  BY <1>1, <1>2, LoanConstants
<1>4. SoundLoan(paid) /\ paid.status = l.status /\ Carries(l, paid)
  BY <1>2, <1>3, ApplyPaymentSound, PaymentCarries
<1> HIDE DEF paid
<1>5. Closed(paid).status = "Repaid"
  BY <1>4 DEF Closed, SoundLoan, Loan
<1>6. DebtMoves(i, v)
  BY <1>1, <1>2, <1>4, <1>5 DEF DebtMoves, SameBooks, l
<1> HIDE DEF v
<1> QED
  BY <1>1, <1>6, OneDebtMoves

(* refinance_loan records the accrued charges as paid and starts again. *)
LEMMA RefinanceDebts ==
    ASSUME BooksInv, AccruedUpTo, NEW i \in LoanIds, NEW n \in Amounts, NEW t \in Terms,
           RefinanceLoan(i, n, t)
    PROVE  DebtsMove
<1> DEFINE l == Accrued(loans[i])
           c == ReturnedCollateral(l, n)
<1>1. PICK r \in InterestRates :
          loans' = [loans EXCEPT ![i] =
                  [l EXCEPT !.interestPaid = @ + l.interest, !.interest = 0,
                            !.lateFeePaid = @ + l.lateFee, !.lateFee = 0,
                            !.collateral = @ - c,
                            !.amount = n, !.principalPaid = 0, !.rate = r,
                            !.lastInterest = ledger, !.due = ledger + t,
                            !.lastLateFee = ledger + t]]
  BY DEF RefinanceLoan
<1> DEFINE v == [l EXCEPT !.interestPaid = @ + l.interest, !.interest = 0,
                            !.lateFeePaid = @ + l.lateFee, !.lateFee = 0,
                            !.collateral = @ - c,
                            !.amount = n, !.principalPaid = 0, !.rate = r,
                            !.lastInterest = ledger, !.due = ledger + t,
                            !.lastLateFee = ledger + t]
<1>2. l.status = "Approved"
  BY DEF RefinanceLoan
<1>3. SoundLoan(l) /\ SameBooks(loans[i], l) /\ SoundLoan(loans[i])
  BY AccruedStored, StoredLoan DEF BooksInv
<1>4. loans[i].status = "Approved" /\ loans[i].lastInterest \in 1..ledger /\ ledger \in Nat
  BY <1>2, <1>3 DEF SameBooks, AccruedUpTo, BooksInv, OtherTypes
<1>5. l.lastInterest = ledger
  <2> DEFINE a == AccrueInterest(loans[i])
  <2>1. a.lastInterest = ledger /\ SoundLoan(a)
    BY <1>3, <1>4, AccrueInterestCharges, AccrueInterestSound
  <2>2. l = AccrueLateFee(a)
    BY DEF Accrued
  <2> HIDE DEF a
  <2> QED BY <2>1, <2>2, AccrueLateFeeSparesInterest
<1> HIDE DEF l, c
<1>6. /\ v.interest = 0 /\ v.interestPaid = l.interestPaid + l.interest
      /\ v.lateFee = 0 /\ v.lateFeePaid = l.lateFeePaid + l.lateFee
      /\ v.residual = l.residual /\ v.lastInterest = ledger /\ v.lastLateFee = ledger + t
      /\ v.status = "Approved"
  BY <1>2, <1>3 DEF SoundLoan, Loan
<1> HIDE DEF v
<1>7. /\ l.interest \in Nat /\ l.interestPaid \in Nat /\ l.lateFee \in Nat
      /\ l.lateFeePaid \in Nat /\ t \in Nat
  BY <1>3, LoanConstants DEF SoundLoan, Loan
<1>8. Carries(l, v)
  BY <1>4, <1>5, <1>6, <1>7 DEF Carries
<1>9. DebtMoves(i, v)
  BY <1>4, <1>6, <1>8 DEF DebtMoves, l
<1> QED
  BY <1>1, <1>9, OneDebtMoves DEF v

(* request_loan. *)
LEMMA RequestDebts ==
    ASSUME BooksInv, NEW b \in Users, NEW n \in Amounts, RequestLoan(b, n)
    PROVE  DebtsMove
<1> DEFINE id == loanCounter + 1
<1>1. PICK r \in InterestRates :
          loans' = [loans EXCEPT ![id] =
                      [NoLoan EXCEPT !.borrower = b, !.amount = n, !.rate = r,
                                     !.status = "Pending"]]
  BY DEF RequestLoan, NextId
<1> DEFINE v == [NoLoan EXCEPT !.borrower = b, !.amount = n, !.rate = r,
                               !.status = "Pending"]
<1>2. id \in LoanIds
  <2>1. id <= MaxLoanId
    BY DEF RequestLoan, NextId
  <2>2. loanCounter \in 0..MaxLoanId
    BY DEF BooksInv, LoanBooks, LoanTypes
  <2> QED BY <2>1, <2>2, LoanConstants DEF LoanIds
<1>3. v.status = "Pending" /\ NoDebtYet(v)
  BY DEF NoLoan, NoDebtYet
<1> HIDE DEF v
<1>4. DebtMoves(id, v)
  BY <1>3 DEF DebtMoves
<1> QED
  BY <1>1, <1>2, <1>4, OneDebtMoves DEF v

(* approve_loan. *)
LEMMA ApproveDebts ==
    ASSUME BooksInv, NEW i \in LoanIds, ApproveLoan(i)
    PROVE  DebtsMove
<1> DEFINE l == loans[i]
           v == [l EXCEPT !.status = "Approved", !.due = ledger + config["term"],
                          !.lastInterest = ledger,
                          !.lastLateFee = ledger + config["term"] + config["grace"]]
<1>1. l.status = "Pending" /\ loans' = [loans EXCEPT ![i] = v]
  BY DEF ApproveLoan
<1>2. SoundLoan(l) /\ ledger \in Nat /\ config["term"] \in Nat /\ config["grace"] \in Nat
  BY StoredLoan DEF BooksInv, OtherTypes, ParamTypes, ConfigFields
<1>3. v.lastLateFee >= ledger /\ v.status = "Approved"
  BY <1>2 DEF SoundLoan, Loan
<1>4. Carries([l EXCEPT !.lastInterest = ledger], v)
  BY <1>2, <1>3 DEF SoundLoan, Loan, Carries
<1>5. DebtMoves(i, v)
  BY <1>1, <1>3, <1>4 DEF DebtMoves
<1> HIDE DEF v
<1> QED
  BY <1>1, <1>5, OneDebtMoves

(* extend_loan and deposit_collateral. *)
LEMMA ExtendDebts ==
    ASSUME BooksInv, NEW i \in LoanIds,
           \/ \E t \in Terms : ExtendLoan(i, t)
           \/ \E n \in Amounts : DepositCollateral(i, n)
    PROVE  DebtsMove
<1> DEFINE l == loans[i]
<1>1. SoundLoan(l)
  BY StoredLoan DEF BooksInv
<1>2. ASSUME NEW t \in Terms, ExtendLoan(i, t) PROVE DebtsMove
  <2> DEFINE v == [l EXCEPT !.due = @ + t, !.extensions = @ + 1]
  <2>1. l.status = "Approved" /\ loans' = [loans EXCEPT ![i] = v] /\ t \in Nat
    BY <1>2, LoanConstants DEF ExtendLoan, BooksInv, LoanBooks, LoanTypes
  <2>2. Carries(l, v) /\ v.status = "Approved"
    BY <1>1, <2>1 DEF SoundLoan, Loan, Carries
  <2>3. DebtMoves(i, v)
    BY <2>1, <2>2 DEF DebtMoves
  <2> HIDE DEF v
  <2> QED BY <2>1, <2>3, OneDebtMoves
<1>3. ASSUME NEW n \in Amounts, DepositCollateral(i, n) PROVE DebtsMove
  <2> DEFINE v == [l EXCEPT !.collateral = @ + n]
  <2>1. l.status = "Approved" /\ loans' = [loans EXCEPT ![i] = v]
    BY <1>3 DEF DepositCollateral, BooksInv, LoanBooks, LoanTypes
  <2>2. Carries(l, v) /\ v.status = "Approved"
    BY <1>1, <2>1 DEF SoundLoan, Loan, Carries
  <2>3. DebtMoves(i, v)
    BY <2>1, <2>2 DEF DebtMoves
  <2> HIDE DEF v
  <2> QED BY <2>1, <2>3, OneDebtMoves
<1> QED
  BY <1>2, <1>3

(* The calls that end a loan or work on one that has ended. *)
LEMMA EndedDebts ==
    ASSUME BooksInv, NEW i \in LoanIds,
           ReleaseCollateral(i) \/ Liquidate(i) \/ CancelLoan(i) \/ RejectLoan(i) \/ PurgeLoan(i)
    PROVE  DebtsMove
<1> DEFINE l == loans[i]
<1>1. SoundLoan(l)
  BY StoredLoan DEF BooksInv
<1>2. ASSUME NEW v, loans' = [loans EXCEPT ![i] = v], l.status # "Absent",
             v.status \notin {"Pending", "Approved"}
      PROVE  DebtsMove
  BY <1>2, OneDebtMoves DEF DebtMoves
<1>3. CASE ReleaseCollateral(i)
  <2> DEFINE v == [l EXCEPT !.collateral = 0]
  <2>1. l.status = "Repaid" /\ loans' = [loans EXCEPT ![i] = v]
    BY <1>3 DEF ReleaseCollateral, BooksInv, LoanBooks, LoanTypes
  <2>2. v.status = "Repaid"
    BY <1>1, <2>1 DEF SoundLoan, Loan
  <2> HIDE DEF v
  <2> QED BY <1>2, <2>1, <2>2
<1>4. CASE Liquidate(i)
  <2> DEFINE a == Accrued(l)
             p == ApplyPayment(a, Recovered(a))
             v == [p EXCEPT !.status = "Liquidated", !.collateral = 0]
  <2>1. a.status = "Approved" /\ loans' = [loans EXCEPT ![i] = v]
    BY <1>4 DEF Liquidate
  <2>2. SoundLoan(a) /\ SameBooks(l, a) /\ Debt(a) \in Nat
    BY AccruedStored
  <2> HIDE DEF a
  <2>3. Recovered(a) \in 0..Debt(a)
    BY <2>2 DEF Recovered, AtMost, SoundLoan, Loan
  <2>4. SoundLoan(p)
    BY <2>2, <2>3, ApplyPaymentSound
  <2> HIDE DEF p
  <2>5. v.status = "Liquidated" /\ l.status = "Approved"
    BY <2>1, <2>2, <2>4 DEF SoundLoan, Loan, SameBooks
  <2> HIDE DEF v
  <2> QED BY <1>2, <2>1, <2>5
<1>5. ASSUME NEW st \in {"Cancelled", "Rejected"}, Withdrawn(i, st) PROVE DebtsMove
  <2> DEFINE v == [l EXCEPT !.status = st, !.collateral = 0]
  <2>1. l.status = "Pending" /\ loans' = [loans EXCEPT ![i] = v]
    BY <1>5 DEF Withdrawn, BooksInv, LoanBooks, LoanTypes
  <2>2. v.status = st
    BY <1>1, <2>1 DEF SoundLoan, Loan
  <2> HIDE DEF v
  <2> QED BY <1>2, <2>1, <2>2
<1>6. CASE PurgeLoan(i)
  <2>1. l.status # "Absent" /\ loans' = [loans EXCEPT ![i] = NoLoan]
    BY <1>6 DEF PurgeLoan
  <2>2. NoLoan.status = "Absent"
    BY DEF NoLoan
  <2> QED BY <1>2, <2>1, <2>2
<1> QED
  BY <1>3, <1>4, <1>5, <1>6 DEF CancelLoan, RejectLoan

(* check_default and check_defaults. *)
LEMMA DefaultDebts ==
    ASSUME BooksInv, NEW D \in SUBSET LoanIds, \A i \in D : Defaultable(loans[i]),
           DefaultLoans(D)
    PROVE  DebtsMove
<1>1. loans' = [i \in LoanIds |-> IF i \in D THEN DefaultedLoan(loans[i]) ELSE loans[i]]
  BY DEF DefaultLoans
<1> SUFFICES ASSUME NEW i \in LoanIds PROVE DebtMoves(i, loans'[i])
  BY DEF DebtsMove
<1>2. CASE i \in D
  <2>1. loans[i].status = "Approved" /\ SoundLoan(loans[i])
    BY <1>2, StoredLoan DEF Defaultable, BooksInv
  <2>2. loans'[i].status = "Defaulted"
    BY <1>1, <1>2, <2>1 DEF DefaultedLoan, SoundLoan, Loan
  <2> QED BY <2>1, <2>2 DEF DebtMoves
<1>3. CASE i \notin D
  BY <1>1, <1>3 DEF DebtMoves
<1> QED
  BY <1>2, <1>3

(* Any call. *)
LEMMA LoanCallDebts ==
    ASSUME BooksInv, AccruedUpTo, BorrowerStep \/ AdminLoanStep
    PROVE  DebtsMove
<1>1. CASE BorrowerStep
  BY <1>1, RequestDebts, RepayDebts, ExtendDebts, EndedDebts DEF BorrowerStep
<1>2. CASE AdminLoanStep
  <2>1. ASSUME NEW i \in LoanIds, CheckDefault(i) PROVE DebtsMove
    <3>1. DefaultLoans({i}) /\ Defaultable(loans[i])
      BY <2>1 DEF CheckDefault
    <3> QED BY <3>1, DefaultDebts
  <2>2. ASSUME NEW ids \in SUBSET LoanIds, CheckDefaults(ids) PROVE DebtsMove
    <3> DEFINE D == {i \in ids : Defaultable(loans[i])}
    <3>1. D \in SUBSET LoanIds /\ DefaultLoans(D) /\ \A i \in D : Defaultable(loans[i])
      BY <2>2 DEF CheckDefaults
    <3> HIDE DEF D
    <3> QED BY <3>1, DefaultDebts
  <2> QED
    BY <1>2, <2>1, <2>2, ApproveDebts, EndedDebts, RefinanceDebts DEF AdminLoanStep
<1> QED
  BY <1>1, <1>2

(* An approved loan that carries the charges of another one is counted as   *)
(* that one is.                                                             *)
LEMMA CarriedCounted ==
    ASSUME FeesTyped, NEW a, SoundLoan(a), NEW m, SoundLoan(m), Carries(a, m),
           NEW exact, NEW count, NEW fees \in Nat
    PROVE  /\ InterestCounted(a, exact, count) => InterestCounted(m, exact, count)
           /\ FeesCounted(a, fees, ledger) => FeesCounted(m, fees, ledger)
<1>1. Charged(m) = Charged(a)
  BY DEF Charged, Carries
<1>2. ASSUME FeesCounted(a, fees, ledger) PROVE FeesCounted(m, fees, ledger)
  <2> DEFINE f == a.lateFee + a.lateFeePaid
             d == Bps * Term
             p == a.amount * risk["lateFee"]
             q == m.amount * risk["lateFee"]
             j == LateLedgers(a, ledger)
             h == LateLedgers(m, ledger)
  <2>1. ledger \in Nat
    BY DEF FeesTyped
  <2>2. f \in Nat /\ d \in Nat /\ p \in Nat /\ q \in Nat /\ j \in Nat /\ h \in Nat
    BY <2>1, FeeTerms
  <2>3. f * d + p * j <= fees
    BY <1>2 DEF FeesCounted
  <2>4. m.lateFee + m.lateFeePaid = f
    BY DEF Carries
  <2>5. /\ a.lastLateFee \in Nat /\ m.lastLateFee \in Nat /\ config["grace"] \in Nat
        /\ a.due \in Nat /\ m.due \in Nat
    BY DEF SoundLoan, Loan, FeesTyped, ConfigFields
  <2>6. CASE m.lastLateFee >= ledger
    <3>1. h = 0
      BY <2>1, <2>5, <2>6 DEF LateLedgers, FeeStart, AtLeast, GraceEnds
    <3>2. q * h = 0 /\ p * 0 = 0
      BY <2>2, <3>1
    <3> HIDE DEF f, d, p, q, j, h
    <3>3. f * d + p * 0 <= fees
      BY <2>2, <2>3, FewerLedgers
    <3>4. f * d + q * h <= fees
      BY <3>2, <3>3
    <3> QED BY <2>4, <3>4 DEF FeesCounted, d, q, h
  <2>7. CASE m.lastLateFee = a.lastLateFee /\ m.due >= a.due /\ m.amount = a.amount
    <3>1. h \in 0..j /\ q = p
      BY <2>1, <2>5, <2>7 DEF LateLedgers, FeeStart, AtLeast, GraceEnds
    <3> HIDE DEF f, d, p, q, j, h
    <3>2. f * d + p * h <= fees
      BY <2>2, <2>3, <3>1, FewerLedgers
    <3>3. f * d + q * h <= fees
      BY <3>1, <3>2
    <3> QED BY <2>4, <3>3 DEF FeesCounted, d, q, h
  <2> QED BY <2>6, <2>7 DEF Carries
<1> QED
  BY <1>1, <1>2 DEF InterestCounted

(* A ledger that closes adds one late ledger, and its fee to the count, if  *)
(* the grace period is over.                                                *)
LEMMA LedgerCounted ==
    ASSUME FeesTyped, NEW l, SoundLoan(l), NEW fees \in Nat, FeesCounted(l, fees, ledger)
    PROVE  FeesCounted(l, fees + IF ledger + 1 > GraceEnds(l)
                                 THEN l.amount * risk["lateFee"] ELSE 0, ledger + 1)
<1> DEFINE f == l.lateFee + l.lateFeePaid
           d == Bps * Term
           p == l.amount * risk["lateFee"]
           j == LateLedgers(l, ledger)
           h == LateLedgers(l, ledger + 1)
<1>1. ledger \in Nat /\ ledger + 1 \in Nat
  BY DEF FeesTyped
<1>2. f \in Nat /\ d \in Nat /\ p \in Nat /\ j \in Nat /\ h \in Nat
  BY <1>1, FeeTerms
<1>3. f * d + p * j <= fees
  BY DEF FeesCounted
<1>4. l.lastLateFee \in Nat /\ GraceEnds(l) \in Nat
  BY DEF SoundLoan, Loan, FeesTyped, ConfigFields, GraceEnds
<1>5. CASE ledger + 1 > GraceEnds(l)
  <2>1. h \in 0..(j + 1)
    BY <1>1, <1>4 DEF LateLedgers, FeeStart, AtLeast
  <2> HIDE DEF f, d, p, j, h
  <2>2. p * (j + 1) = p * j + p /\ p * j \in Nat /\ f * d \in Nat /\ p * (j + 1) \in Nat
    BY <1>2, SMT
  <2>3. f * d + p * (j + 1) <= fees + p
    BY <1>2, <1>3, <2>2
  <2>4. j + 1 \in Nat /\ fees + p \in Nat
    BY <1>2
  <2>5. f * d + p * h <= fees + p
    BY <1>2, <2>1, <2>3, <2>4, FewerLedgers
  <2> QED BY <1>5, <2>5 DEF FeesCounted, f, d, p, h
<1>6. CASE ~(ledger + 1 > GraceEnds(l))
  <2>1. h = 0 /\ j = 0
    BY <1>1, <1>4, <1>6 DEF LateLedgers, FeeStart, AtLeast
  <2>2. f * d + p * h <= fees + 0
    BY <1>3, <2>1
  <2> QED BY <1>6, <2>2 DEF FeesCounted
<1> QED
  BY <1>5, <1>6

(* The interest of a loan through both accruals of a call. *)
LEMMA AccruedCounted ==
    ASSUME FeesTyped, NEW l, SoundLoan(l), l.status = "Approved", l.lastInterest \in 1..ledger,
           NEW exact, NEW count, InterestCounted(l, exact, count),
           NEW fees \in Nat, FeesCounted(l, fees, ledger)
    PROVE  /\ SoundLoan(Accrued(l)) /\ Accrued(l).lastInterest = ledger
           /\ FeesCounted(Accrued(l), fees, ledger)
           /\ IF ledger # l.lastInterest
              THEN InterestCounted(Accrued(l),
                       exact + RemainingPrincipal(l) * l.rate * (ledger - l.lastInterest),
                       count + 1)
              ELSE InterestCounted(Accrued(l), exact, count)
<1> DEFINE a == AccrueInterest(l)
           e == RemainingPrincipal(l) * l.rate * (ledger - l.lastInterest)
<1>1. ledger \in Nat /\ config \in [ConfigFields -> Nat] /\ risk \in [RiskParams -> Nat]
  BY DEF FeesTyped
<1>2. SoundLoan(a) /\ SameBooks(l, a) /\ a.lastInterest = ledger
  BY <1>1, AccrueInterestSound, AccrueInterestCharges
<1>3. IF ledger # l.lastInterest
      THEN InterestCounted(a, exact + e, count + 1) ELSE InterestCounted(a, exact, count)
  BY <1>1, <1>2, AccrualCounted
<1>4. FeesCounted(a, fees, ledger)
  <2>1. /\ a.lateFee = l.lateFee /\ a.lateFeePaid = l.lateFeePaid
        /\ a.lastLateFee = l.lastLateFee /\ a.due = l.due /\ a.amount = l.amount
    BY <1>2, AccrueInterestSparesFees DEF SameBooks
  <2>2. LateLedgers(a, ledger) = LateLedgers(l, ledger)
    BY <2>1 DEF LateLedgers, FeeStart, GraceEnds
  <2> HIDE DEF a
  <2> QED BY <2>1, <2>2 DEF FeesCounted
<1>5. Accrued(l) = AccrueLateFee(a)
  BY DEF Accrued
<1>6. a.status = "Approved"
  BY <1>2 DEF SameBooks
<1> HIDE DEF a, e
<1>7. FeesCounted(AccrueLateFee(a), fees, ledger)
  BY <1>2, <1>4, <1>6, FeeAccrualCounted
<1> DEFINE z == AccrueLateFee(a)
<1>8. SoundLoan(z)
  BY <1>1, <1>2, AccrueLateFeeSound
<1>9. /\ z.interest = a.interest /\ z.interestPaid = a.interestPaid
      /\ z.residual = a.residual /\ z.lastInterest = a.lastInterest
  BY <1>2, AccrueLateFeeSparesInterest
<1> HIDE DEF z
<1>10. Charged(z) = Charged(a)
  BY <1>9 DEF Charged
<1>11. IF ledger # l.lastInterest
       THEN InterestCounted(z, exact + e, count + 1) ELSE InterestCounted(z, exact, count)
  BY <1>3, <1>10 DEF InterestCounted
<1> QED
  BY <1>2, <1>5, <1>7, <1>8, <1>9, <1>11 DEF z, e

(* What the counters record for loan i in a call. *)
CallCount(i) ==
    LET l == loans[i]
    IN  /\ exactLateFee'[i] = exactLateFee[i]
        /\ IF l.lastInterest # 0 /\ loans'[i].lastInterest # l.lastInterest
           THEN /\ exactInterest'[i] = exactInterest[i] +
                      RemainingPrincipal(l) * l.rate * (loans'[i].lastInterest - l.lastInterest)
                /\ accruals'[i] = accruals[i] + 1
           ELSE exactInterest'[i] = exactInterest[i] + 0 /\ accruals'[i] = accruals[i] + 0

(* A loan without debt starts from zero, and the counts of an approved one  *)
(* cover what it has been charged and, for late fees, what it will be.      *)
Unborn(l, exact, count) == NoDebtYet(l) /\ exact = 0 /\ count = 0

LoanCounted(l, exact, count, fees, t) ==
    /\ fees \in Nat
    /\ l.status = "Pending" => Unborn(l, exact, count)
    /\ l.status = "Approved" =>
          /\ l.lastInterest \in 1..t
          /\ InterestCounted(l, exact, count)
          /\ FeesCounted(l, fees, t)

DebtInv ==
    /\ ledger >= 1
    /\ \A i \in LoanIds :
          /\ LoanCounted(loans[i], exactInterest[i], accruals[i], exactLateFee[i], ledger)
          /\ i > loanCounter => Unborn(loans[i], exactInterest[i], accruals[i])

(* A call keeps the count of every loan. *)
LEMMA CallCounted ==
    ASSUME FeesTyped, ledger >= 1, NEW i \in LoanIds, SoundLoan(loans[i]), SoundLoan(loans'[i]),
           LoanCounted(loans[i], exactInterest[i], accruals[i], exactLateFee[i], ledger),
           i = loanCounter + 1 => Unborn(loans[i], exactInterest[i], accruals[i]),
           DebtMoves(i, loans'[i]), CallCount(i)
    PROVE  /\ LoanCounted(loans'[i], exactInterest'[i], accruals'[i], exactLateFee'[i], ledger)
           /\ /\ Unborn(loans[i], exactInterest[i], accruals[i])
              /\ loans'[i] = loans[i]
              => Unborn(loans'[i], exactInterest'[i], accruals'[i])
<1> DEFINE l == loans[i]
           m == loans'[i]
           x == exactInterest[i]
           k == accruals[i]
           f == exactLateFee[i]
           y == exactInterest'[i]
           n == accruals'[i]
<1> USE DEF LoanCounted, Unborn
<1>1. exactLateFee'[i] = f /\ f \in Nat /\ ledger \in Nat
  BY DEF CallCount, FeesTyped
<1>2. ASSUME m.lastInterest = l.lastInterest \/ l.lastInterest = 0, x \in Nat, k \in Nat
      PROVE  y = x /\ n = k
  BY <1>2 DEF CallCount
<1>3. CASE m = l
  <2>1. CASE l.status = "Pending" \/ Unborn(l, x, k)
    BY <1>1, <1>2, <1>3, <2>1
  <2>2. CASE l.status = "Approved"
    <3>1. x \in Nat /\ k \in Nat
      BY <2>2 DEF InterestCounted
    <3>2. y = x /\ n = k
      BY <1>2, <1>3, <3>1
    <3> QED BY <1>1, <1>3, <2>2, <3>2
  <2> QED BY <1>1, <1>3, <2>1, <2>2
<1>4. CASE m # l /\ m.status \notin {"Pending", "Approved"}
  BY <1>1, <1>4
<1>5. CASE m # l /\ i = loanCounter + 1 /\ m.status = "Pending" /\ NoDebtYet(m)
  BY <1>1, <1>2, <1>5 DEF NoDebtYet
<1>6. CASE /\ m # l /\ l.status = "Pending" /\ m.status = "Approved"
           /\ Carries([l EXCEPT !.lastInterest = ledger], m) /\ m.lastLateFee >= ledger
  <2>1. NoDebtYet(l) /\ x = 0 /\ k = 0
    BY <1>6
  <2>2. y = 0 /\ n = 0
    BY <1>2, <2>1 DEF NoDebtYet
  <2>3. /\ m.interest + m.interestPaid = 0 /\ m.residual = 0 /\ m.lastInterest = ledger
        /\ m.lateFee + m.lateFeePaid = 0
    BY <1>6, <2>1 DEF Carries, NoDebtYet, SoundLoan, Loan
  <2>4. Charged(m) = 0
    BY <2>3, LoanConstants DEF Charged
  <2>5. InterestCounted(m, y, n)
    BY <2>2, <2>4, LoanConstants DEF InterestCounted
  <2>6. LateLedgers(m, ledger) = 0 /\ m.amount * risk["lateFee"] \in Nat /\ Bps * Term \in Nat
    <3>1. m.lastLateFee \in Nat /\ GraceEnds(m) \in Nat
      BY DEF SoundLoan, Loan, FeesTyped, ConfigFields, GraceEnds
    <3>2. m.amount * risk["lateFee"] \in Nat /\ Bps * Term \in Nat
      BY <1>1, FeeTerms
    <3> QED BY <1>1, <1>6, <3>1, <3>2 DEF LateLedgers, FeeStart, AtLeast
  <2>7. FeesCounted(m, f, ledger)
    BY <1>1, <2>3, <2>6 DEF FeesCounted
  <2> QED BY <1>1, <1>6, <2>3, <2>5, <2>7
<1>7. CASE m # l /\ l.status = "Approved" /\ m.status = "Approved" /\ Carries(l, m)
  <2>1. InterestCounted(l, x, k) /\ FeesCounted(l, f, ledger) /\ l.lastInterest \in 1..ledger
    BY <1>7
  <2>2. y = x /\ n = k
    BY <1>2, <1>7, <2>1 DEF Carries, InterestCounted
  <2>3. InterestCounted(m, x, k) /\ FeesCounted(m, f, ledger)
    BY <1>1, <1>7, <2>1, CarriedCounted
  <2> QED BY <1>1, <1>7, <2>1, <2>2, <2>3 DEF Carries
<1>8. CASE m # l /\ l.status = "Approved" /\ m.status = "Approved" /\ Carries(Accrued(l), m)
  <2>1. InterestCounted(l, x, k) /\ FeesCounted(l, f, ledger) /\ l.lastInterest \in 1..ledger
    BY <1>8
  <2> DEFINE a == Accrued(l)
             e == RemainingPrincipal(l) * l.rate * (ledger - l.lastInterest)
  <2>2. /\ SoundLoan(a) /\ a.lastInterest = ledger /\ FeesCounted(a, f, ledger)
        /\ IF ledger # l.lastInterest
           THEN InterestCounted(a, x + e, k + 1) ELSE InterestCounted(a, x, k)
    BY <1>1, <1>8, <2>1, AccruedCounted
  <2>3. m.lastInterest = ledger
    BY <1>8, <2>2 DEF Carries
  <2>4. IF ledger # l.lastInterest THEN y = x + e /\ n = k + 1 ELSE y = x /\ n = k
    <3>1. l.lastInterest # 0 /\ x \in Nat /\ k \in Nat
      BY <2>1 DEF InterestCounted
    <3> QED BY <1>2, <2>3, <3>1 DEF CallCount
  <2> HIDE DEF a, e
  <2>5. InterestCounted(a, y, n)
    BY <2>2, <2>4
  <2>6. Carries(a, m)
    BY <1>8 DEF a
  <2>7. InterestCounted(m, y, n) /\ FeesCounted(m, f, ledger)
    BY <1>1, <2>2, <2>5, <2>6, CarriedCounted
  <2> QED BY <1>1, <1>8, <2>3, <2>7
<1> QED
  BY <1>3, <1>4, <1>5, <1>6, <1>7, <1>8 DEF DebtMoves

(* Every call and every ledger keep the counts. *)
LEMMA NextDebtInv == LoanInv /\ BooksInv /\ DebtInv /\ [DebtNext]_dvars => DebtInv'
<1> SUFFICES ASSUME LoanInv, BooksInv, DebtInv, [DebtNext]_dvars PROVE DebtInv'
  OBVIOUS
<1>1. FeesTyped /\ ledger >= 1 /\ ledger \in Nat
  BY DEF FeesTyped, BooksInv, ParamTypes, OtherTypes, DebtInv
<1>2. \A i \in LoanIds : SoundLoan(loans[i])
  BY StoredLoan DEF BooksInv
<1>3. [Next]_vars
  BY DEF DebtNext, LoanNext, Next, EnvironmentStep, dvars
<1>4. LoanInv' /\ BooksInv' /\ LoansMove
  BY <1>3, NextLoanInv, NextKeepsBooks, NextMoves
<1>5. \A i \in LoanIds : SoundLoan(loans'[i])
  BY <1>4 DEF BooksInv, LoanBooks, LoanTypes, SoundLoan, BooksBalance, PrincipalNotOverpaid
<1>6. CASE DebtNext /\ (BorrowerStep \/ AdminLoanStep)
  <2>1. ledger' = ledger /\ config' = config /\ risk' = risk
    BY <1>6, BorrowerStepSettles, AdminLoanStepSettles DEF LoanInv, LoanFrame, paramVars
  <2>2. AccruedUpTo
    BY DEF DebtInv, LoanCounted, AccruedUpTo
  <2>3. DebtsMove
    BY <1>6, <2>2, LoanCallDebts
  <2>4. ASSUME NEW i \in LoanIds
        PROVE  /\ LoanCounted(loans'[i], exactInterest'[i], accruals'[i], exactLateFee'[i], ledger)
               /\ i > loanCounter' => Unborn(loans'[i], exactInterest'[i], accruals'[i])
    <3>1. CallCount(i)
      <4>1. ~LateLedger(i)
        BY <1>1, <2>1 DEF LateLedger
      <4>2. exactLateFee'[i] = exactLateFee[i] + 0 /\ exactLateFee[i] \in Nat
        BY <1>6, <4>1 DEF DebtNext, DebtInv, LoanCounted
      <4> QED BY <1>6, <4>2 DEF DebtNext, CallCount, AccruesIn
    <3>2. loanCounter \in Nat /\ loanCounter' \in Nat /\ loanCounter' >= loanCounter /\ i \in Nat
      BY <1>4, LoanConstants DEF LoansMove, LoanInv, IdsFresh, LoanIds
    <3>3. /\ LoanCounted(loans[i], exactInterest[i], accruals[i], exactLateFee[i], ledger)
          /\ i > loanCounter => Unborn(loans[i], exactInterest[i], accruals[i])
      BY DEF DebtInv
    <3>4. i = loanCounter + 1 => Unborn(loans[i], exactInterest[i], accruals[i])
      BY <3>2, <3>3
    <3>5. DebtMoves(i, loans'[i])
      BY <2>3 DEF DebtsMove
    <3>6. /\ LoanCounted(loans'[i], exactInterest'[i], accruals'[i], exactLateFee'[i], ledger)
          /\ /\ Unborn(loans[i], exactInterest[i], accruals[i])
             /\ loans'[i] = loans[i]
             => Unborn(loans'[i], exactInterest'[i], accruals'[i])
      BY <1>1, <1>2, <1>5, <3>1, <3>3, <3>4, <3>5, CallCounted
    <3>7. ASSUME i > loanCounter' PROVE loans'[i] = loans[i]
      <4>1. i > loanCounter
        BY <3>2, <3>7
      <4>2. loans[i].status = "Absent" /\ loans'[i].status = "Absent"
        BY <1>4, <3>7, <4>1 DEF LoanInv, IdsFresh
      <4> QED BY <3>5, <4>2 DEF DebtMoves
    <3> QED BY <3>2, <3>3, <3>6, <3>7
  <2> QED
    BY <1>1, <2>1, <2>4 DEF DebtInv, LoanCounted, InterestCounted, FeesCounted, LateLedgers,
                            FeeStart, GraceEnds, Charged, Unborn, NoDebtYet
<1>7. CASE DebtNext /\ LedgerClose /\ UNCHANGED <<nftVars, poolVars, loanVars, paramVars, adminVars>>
  <2>1. /\ ledger' = ledger + 1 /\ config' = config /\ risk' = risk
        /\ loans' = loans /\ loanCounter' = loanCounter
    BY <1>7 DEF LedgerClose, paramVars, loanVars
  <2>2. ASSUME NEW i \in LoanIds
        PROVE  /\ LoanCounted(loans[i], exactInterest'[i], accruals'[i], exactLateFee'[i], ledger + 1)
               /\ i > loanCounter => Unborn(loans[i], exactInterest'[i], accruals'[i])
    <3> DEFINE l == loans[i]
               x == exactInterest[i]
               k == accruals[i]
               f == exactLateFee[i]
    <3>1. LoanCounted(l, x, k, f, ledger) /\ (i > loanCounter => Unborn(l, x, k))
      BY DEF DebtInv
    <3>2. exactInterest'[i] = x + 0 /\ accruals'[i] = k + 0
      BY <1>7, <2>1 DEF DebtNext, AccruesIn
    <3>3. exactLateFee'[i] = f + IF l.status = "Approved" /\ ledger + 1 > GraceEnds(l)
                                 THEN l.amount * risk["lateFee"] ELSE 0
      BY <1>1, <1>7, <2>1 DEF DebtNext, LateLedger
    <3>4. l.amount * risk["lateFee"] \in Nat /\ f \in Nat
      BY <1>1, <1>2, <3>1, FeeTerms DEF LoanCounted
    <3>5. exactLateFee'[i] \in Nat
      BY <3>3, <3>4
    <3>6. Unborn(l, x, k) => Unborn(l, exactInterest'[i], accruals'[i])
      BY <3>2 DEF Unborn
    <3>7. ASSUME l.status = "Approved"
          PROVE  /\ l.lastInterest \in 1..(ledger + 1)
                 /\ InterestCounted(l, exactInterest'[i], accruals'[i])
                 /\ FeesCounted(l, exactLateFee'[i], ledger + 1)
      <4>1. /\ l.lastInterest \in 1..ledger /\ InterestCounted(l, x, k)
            /\ FeesCounted(l, f, ledger)
        BY <3>1, <3>7 DEF LoanCounted
      <4>2. exactInterest'[i] = x /\ accruals'[i] = k
        BY <3>2, <4>1 DEF InterestCounted
      <4>3. FeesCounted(l, exactLateFee'[i], ledger + 1)
        BY <1>1, <1>2, <3>3, <3>4, <3>7, <4>1, LedgerCounted
      <4> QED BY <1>1, <4>1, <4>2, <4>3
    <3> QED BY <3>1, <3>5, <3>6, <3>7 DEF LoanCounted
  <2> QED
    BY <1>1, <2>1, <2>2 DEF DebtInv, LoanCounted, InterestCounted, FeesCounted, LateLedgers,
                            FeeStart, GraceEnds, Charged, Unborn, NoDebtYet
<1>8. CASE UNCHANGED dvars
  BY <1>8 DEF dvars, vars, loanVars, paramVars, DebtInv, LoanCounted, InterestCounted, FeesCounted,
              LateLedgers, FeeStart, GraceEnds, Charged, Unborn, NoDebtYet
<1> QED
  BY <1>6, <1>7, <1>8 DEF DebtNext, LoanNext

LEMMA InitDebtInv == DebtInit => DebtInv
<1> SUFFICES ASSUME DebtInit PROVE DebtInv
  OBVIOUS
<1>1. loans = [i \in LoanIds |-> NoLoan] /\ ledger = 1
  BY DEF DebtInit, Init
<1>2. ASSUME NEW i \in LoanIds
      PROVE  /\ loans[i].status = "Absent" /\ NoDebtYet(loans[i])
             /\ exactInterest[i] = 0 /\ accruals[i] = 0 /\ exactLateFee[i] = 0
  BY <1>1 DEF DebtInit, Zero, NoLoan, NoDebtYet
<1> QED
  BY <1>1, <1>2 DEF DebtInv, LoanCounted, Unborn

(* The loans, their books and the counts of their debt. *)
THEOREM DebtInvHolds == DebtSpec => [](LoanInv /\ BooksInv /\ DebtInv)
<1>1. DebtInit => LoanInv /\ BooksInv /\ DebtInv
  BY InitLoanInv, InitBooks, InitDebtInv DEF DebtInit
<1>2. LoanInv /\ BooksInv /\ DebtInv /\ [DebtNext]_dvars => (LoanInv /\ BooksInv /\ DebtInv)'
  <2>1. [DebtNext]_dvars => [Next]_vars
    BY DEF DebtNext, LoanNext, Next, EnvironmentStep, dvars
  <2> QED BY <2>1, NextLoanInv, NextKeepsBooks, NextDebtInv
<1> QED
  BY <1>1, <1>2, PTL DEF DebtSpec

(* However repay, refinance_loan and liquidate cut a loan's interest into   *)
(* accruals, whatever the rate, the precision and the amounts, the borrower *)
(* is never charged more than the exact simple interest, and at most one    *)
(* unit per accrual is lost.  The invariant's bound on the loss, a unit of  *)
(* 1/Precision per accrual, is what the code's carrying the residual gives. *)
THEOREM InterestAlwaysAccurate == DebtSpec => []InterestIsAccurate
<1>1. BooksInv /\ DebtInv => InterestIsAccurate
  <2> SUFFICES ASSUME BooksInv, DebtInv, NEW i \in LoanIds, loans[i].status = "Approved"
               PROVE  /\ Charged(loans[i]) * Bps * Term <= exactInterest[i] * Precision
                      /\ exactInterest[i] * Precision
                           <= (Charged(loans[i]) + accruals[i] * Precision) * Bps * Term
    BY DEF InterestIsAccurate, WithStatus
  <2> DEFINE c == Charged(loans[i])
             k == accruals[i]
             e == exactInterest[i] * Precision
             d == Bps * Term
  <2>1. c \in Nat /\ k \in Nat /\ exactInterest[i] \in Nat
    BY StoredLoan, ChargedTyped DEF BooksInv, DebtInv, LoanCounted, InterestCounted
  <2>2. c * Bps * Term <= e /\ e <= (c + k) * Bps * Term
    BY DEF DebtInv, LoanCounted, InterestCounted
  <2>3. d \in Nat /\ e \in Nat
    BY <2>1, LoanConstants, SMT
  <2> HIDE DEF c, k
  <2>4. (c + k) * Bps * Term = (c + k) * d
    BY <2>1, LoanConstants, SMT
  <2>5. k * Precision \in Nat /\ k <= k * Precision
    BY <2>1, LoanConstants, SMT
  <2> DEFINE m == k * Precision
  <2> HIDE DEF m, d, e
  <2>6. (c + k) * d <= (c + m) * d
    BY <2>1, <2>3, <2>5, SMT DEF m
  <2>7. m \in Nat /\ (c + m) * Bps * Term = (c + m) * d
    BY <2>1, <2>5, LoanConstants, SMT DEF m, d
  <2>8. (c + k) * d \in Nat /\ (c + m) * d \in Nat
    BY <2>1, <2>3, <2>7, SMT
  <2>9. e <= (c + m) * Bps * Term
    BY <2>2, <2>3, <2>4, <2>6, <2>7, <2>8
  <2> QED BY <2>2, <2>9 DEF c, k, e, m
<1> QED
  BY <1>1, DebtInvHolds, PTL

(* Late fees are only charged for ledgers after the grace period of the due *)
(* date then set, and for each of them once: not again when a loan is       *)
(* extended, refinanced or repaid in parts.                                 *)
THEOREM FeesAlwaysForLateLedgers == DebtSpec => []LateFeesOnlyForLateLedgers
<1>1. BooksInv /\ DebtInv => LateFeesOnlyForLateLedgers
  <2> SUFFICES ASSUME BooksInv, DebtInv, NEW i \in LoanIds, loans[i].status = "Approved"
               PROVE  (loans[i].lateFee + loans[i].lateFeePaid) * Bps * Term <= exactLateFee[i]
    BY DEF LateFeesOnlyForLateLedgers, WithStatus
  <2> DEFINE l == loans[i]
             f == l.lateFee + l.lateFeePaid
             p == l.amount * risk["lateFee"]
             k == LateLedgers(l, ledger)
  <2>1. f * (Bps * Term) + p * k <= exactLateFee[i] /\ exactLateFee[i] \in Nat
    BY DEF DebtInv, LoanCounted, FeesCounted
  <2>2. SoundLoan(l) /\ FeesTyped /\ ledger \in Nat
    BY StoredLoan DEF BooksInv, FeesTyped, ParamTypes, OtherTypes
  <2>3. f \in Nat /\ Bps * Term \in Nat /\ p \in Nat /\ k \in Nat
    BY <2>2, FeeTerms
  <2> HIDE DEF f, p, k
  <2>4. f * (Bps * Term) + p * 0 <= exactLateFee[i] /\ p * 0 = 0
    BY <2>1, <2>3, FewerLedgers
  <2>5. f * Bps * Term = f * (Bps * Term) /\ f * (Bps * Term) \in Nat
    BY <2>3, LoanConstants, SMT
  <2>6. f * Bps * Term <= exactLateFee[i]
    BY <2>4, <2>5
  <2> QED BY <2>6 DEF f
<1> QED
  BY <1>1, DebtInvHolds, PTL
==============================================================================
