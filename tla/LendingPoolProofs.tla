-------------------------- MODULE LendingPoolProofs --------------------------
(***************************************************************************)
(* The accounting of LendingPool for every set of accounts, every virtual  *)
(* offset and every amount, and with the history variable of MCLendingPool *)
(* the cumulative limit on the yield a distributor pays in.                *)
(***************************************************************************)
EXTENDS MCLendingPool, FiniteSetTheorems, TLAPS

------------------------------------------------------------------------------
(* Arithmetic of the share price.                                           *)

(* Integer division rounds towards minus infinity, as RoundingMode::Floor.  *)
LEMMA FloorBounds ==
    ASSUME NEW a \in Nat, NEW b \in Nat, b > 0
    PROVE  /\ a \div b \in Nat
           /\ (a \div b) * b <= a
           /\ a < (a \div b) * b + b
<1> DEFINE q == a \div b
<1>1. q \in Int /\ a = b * q + (a % b) /\ a % b \in 0..(b - 1)
  BY SMT
<1>2. q >= 0
  <2> SUFFICES ASSUME q <= -1 PROVE FALSE
    BY <1>1, SMT
  <2>1. b * q <= -b
    <3> HIDE DEF q
    <3> QED BY <1>1, SMT
  <2> QED BY <1>1, <2>1, SMT
<1> HIDE DEF q
<1>3. b * q = q * b
  BY <1>1, SMT
<1> QED BY <1>1, <1>2, <1>3, SMT DEF q

(* A deposit mints no more shares than its price allows, and no more shares *)
(* than tokens while every share is backed.                                 *)
LEMMA MintBounds ==
    ASSUME NEW a \in Nat, NEW M \in Nat, NEW S \in Nat, S <= M
    PROVE  LET m == CalcSharesToMint(a, M, S)
           IN  m \in Nat /\ m * (M + Virtual) <= a * (S + Virtual) /\ m <= a
<1> DEFINE m == CalcSharesToMint(a, M, S)
           x == a * (S + Virtual)
           d == M + Virtual
<1>1. x \in Nat /\ d \in Nat /\ d > 0 /\ S + Virtual \in Nat /\ S + Virtual <= d
  BY VirtualAssumption, SMT
<1>2. m = x \div d
  BY DEF CalcSharesToMint
<1>3. m \in Nat /\ m * d <= x
  BY <1>1, <1>2, FloorBounds
<1>4. x <= a * d
  BY <1>1, SMT
<1>5. m <= a
  <2> SUFFICES ASSUME m >= a + 1 PROVE FALSE
    BY <1>3, SMT
  <2> HIDE DEF m, x, d
  <2>1. m * d >= (a + 1) * d
    BY <1>1, <1>3, SMT
  <2>2. (a + 1) * d = a * d + d
    BY <1>1, SMT
  <2> QED BY <1>1, <1>3, <1>4, <2>1, <2>2, SMT
<1> QED BY <1>3, <1>5

(* A redemption pays no more than its price allows, and leaves every        *)
(* remaining share backed if all shares were.                               *)
LEMMA RedeemBounds ==
    ASSUME NEW n \in Nat, NEW M \in Nat, NEW S \in Nat, n <= S, S <= M
    PROVE  LET r == CalcAssetsToRedeem(n, M, S)
           IN  r \in Nat /\ r * (S + Virtual) <= n * (M + Virtual) /\ r <= n + (M - S)
<1> DEFINE r == CalcAssetsToRedeem(n, M, S)
           x == n * (M + Virtual)
           d == S + Virtual
           gain == M - S
<1>1. x \in Nat /\ d \in Nat /\ d > n /\ gain \in Nat
  BY VirtualAssumption, SMT
<1>2. r = x \div d
  BY DEF CalcAssetsToRedeem
<1>3. r \in Nat /\ r * d <= x
  BY <1>1, <1>2, FloorBounds, SMT
<1>4. x = n * d + n * gain
  BY VirtualAssumption, SMT
<1>5. n * gain <= d * gain
  <2> HIDE DEF d, gain
  <2> QED BY <1>1, SMT
<1>6. r <= n + gain
  <2> SUFFICES ASSUME r >= n + gain + 1 PROVE FALSE
    BY <1>1, <1>3, SMT
  <2> HIDE DEF r, x, d, gain
  <2>1. r * d >= (n + gain + 1) * d
    BY <1>1, <1>3, SMT
  <2>2. (n + gain + 1) * d = n * d + d * gain + d
    BY <1>1, SMT
  <2> QED BY <1>1, <1>3, <1>4, <1>5, <2>1, <2>2, SMT
<1> QED BY <1>3, <1>6

------------------------------------------------------------------------------
(* The sum of the shares, as the number of share units.                     *)

Units(f) == UNION {{p} \X (1..f[p]) : p \in Accounts}

LEMMA UnitsFinite ==
    ASSUME NEW f \in [Accounts -> Nat]
    PROVE  IsFiniteSet(Units(f)) /\ Cardinality(Units(f)) \in Nat
<1> DEFINE B == [p \in Accounts |-> {p} \X (1..f[p])]
           R == {B[p] : p \in Accounts}
<1>1. B \in Surjection(Accounts, R)
  BY DEF Surjection
<1>2. IsFiniteSet(R)
  BY <1>1, FS_Surjection, AccountsAssumption
<1>3. \A b \in R : IsFiniteSet(b)
  <2> TAKE b \in R
  <2> PICK p \in Accounts : b = {p} \X (1..f[p])
    OBVIOUS
  <2>1. IsFiniteSet(1..f[p])
    BY FS_Interval
  <2> QED BY <2>1, FS_Singleton, FS_Product
<1>4. Units(f) = UNION R
  BY DEF Units
<1> HIDE DEF R
<1>5. IsFiniteSet(Units(f))
  BY <1>2, <1>3, <1>4, FS_UNION
<1> QED BY <1>5, FS_CardinalityType

LEMMA UnitsAdd ==
    ASSUME NEW f \in [Accounts -> Nat], NEW p \in Accounts, NEW k \in Nat
    PROVE  Cardinality(Units([f EXCEPT ![p] = @ + k])) = Cardinality(Units(f)) + k
<1> DEFINE g == [f EXCEPT ![p] = @ + k]
           new == (f[p] + 1)..(f[p] + k)
           Block == {p} \X new
<1>1. Units(g) = Units(f) \cup Block
  <2>1. \A q, i : <<q, i>> \in Units(g) <=> q \in Accounts /\ i \in 1..g[q]
    BY DEF Units
  <2>2. \A q, i : <<q, i>> \in Units(f) <=> q \in Accounts /\ i \in 1..f[q]
    BY DEF Units
  <2>3. \A u \in Units(g) \cup Units(f) \cup Block : \E q, i : u = <<q, i>>
    BY DEF Units
  <2>4. \A q \in Accounts : g[q] = IF q = p THEN f[p] + k ELSE f[q]
    OBVIOUS
  <2> HIDE DEF g
  <2>5. \A i : i \in 1..(f[p] + k) <=> i \in 1..f[p] \/ i \in new
    OBVIOUS
  <2> HIDE DEF new
  <2>6. \A q, i : <<q, i>> \in Units(g) <=> <<q, i>> \in Units(f) \cup Block
    <3> TAKE q, i
    <3>1. CASE q = p
      <4>1. <<q, i>> \in Block <=> i \in new
        BY <3>1
      <4>2. <<q, i>> \in Units(g) <=> i \in 1..(f[p] + k)
        BY <2>1, <2>4, <3>1
      <4> HIDE DEF Block
      <4> QED BY <2>2, <2>5, <3>1, <4>1, <4>2
    <3>2. CASE q # p
      <4>1. <<q, i>> \notin Block
        BY <3>2
      <4> HIDE DEF Block
      <4> QED BY <2>1, <2>2, <2>4, <3>2, <4>1
    <3> QED BY <3>1, <3>2
  <2> QED BY <2>3, <2>6
<1>2. Units(f) \cap Block = {}
  BY DEF Units
<1>3. IsFiniteSet(new) /\ Cardinality(new) = k
  <2> DEFINE lo == f[p] + 1
             hi == f[p] + k
  <2>1. lo \in Int /\ hi \in Int /\ hi - lo + 1 = k
    OBVIOUS
  <2> HIDE DEF lo, hi
  <2>2. IsFiniteSet(lo..hi) /\ Cardinality(lo..hi) = IF lo > hi THEN 0 ELSE hi - lo + 1
    BY <2>1, FS_Interval
  <2> QED BY <2>1, <2>2 DEF lo, hi
<1>4. IsFiniteSet(Block) /\ Cardinality(Block) = k
  <2> HIDE DEF new
  <2>1. IsFiniteSet({p}) /\ Cardinality({p}) = 1
    BY FS_Singleton
  <2>2. IsFiniteSet(Block) /\ Cardinality(Block) = Cardinality({p}) * Cardinality(new)
    BY <1>3, <2>1, FS_Product
  <2> QED BY <1>3, <2>1, <2>2
<1>5. IsFiniteSet(Units(f)) /\ Cardinality(Units(f)) \in Nat
  BY UnitsFinite
<1> HIDE DEF g, Block
<1>6. Cardinality(Units(g)) =
        Cardinality(Units(f)) + Cardinality(Block) - Cardinality(Units(f) \cap Block)
  BY <1>1, <1>4, <1>5, FS_Union
<1> QED BY <1>2, <1>4, <1>5, <1>6, FS_EmptySet DEF g

LEMMA UnitsSub ==
    ASSUME NEW f \in [Accounts -> Nat], NEW p \in Accounts, NEW k \in Nat, k <= f[p]
    PROVE  /\ Cardinality(Units([f EXCEPT ![p] = @ - k])) = Cardinality(Units(f)) - k
           /\ k <= Cardinality(Units(f))
<1> DEFINE g == [f EXCEPT ![p] = @ - k]
<1>1. g \in [Accounts -> Nat]
  OBVIOUS
<1>2. f = [g EXCEPT ![p] = @ + k]
  <2>1. [g EXCEPT ![p] = @ + k] \in [Accounts -> Nat]
    BY <1>1
  <2>2. \A q \in Accounts : f[q] = [g EXCEPT ![p] = @ + k][q]
    OBVIOUS
  <2> HIDE DEF g
  <2> QED BY <2>1, <2>2
<1> HIDE DEF g
<1>3. Cardinality(Units(f)) = Cardinality(Units(g)) + k
  BY <1>1, <1>2, UnitsAdd
<1>4. Cardinality(Units(g)) \in Nat
  BY <1>1, UnitsFinite
<1> QED BY <1>3, <1>4 DEF g

------------------------------------------------------------------------------
(* The inductive invariant.  TypeOK is not inductive by itself: that        *)
(* totalShares and managed stay naturals needs the other conjuncts.         *)

SharesInv == TotalIsSum /\ DepositorsTracked /\ ManagedCoversShares

PoolInv == TypeOK /\ SharesInv

LEMMA InitPoolInv == Init => PoolInv
<1> SUFFICES ASSUME Init PROVE PoolInv
  OBVIOUS
<1>1. TypeOK
  <2>1. /\ wallet \in [Accounts -> Nat] /\ shares \in [Accounts -> Nat]
        /\ used \in [Accounts -> Nat]
        /\ depositedAt \in [Accounts -> Nat \cup {-1}]
    BY FundsAssumption DEF Init
  <2>2. cooldown \in Nat /\ totalDeposits \in Int
    BY InputAssumption DEF Init
  <2> QED BY <2>1, <2>2 DEF Init, TypeOK
<1>2. ShareUnits = {}
  <2>1. 1..0 = {}
    OBVIOUS
  <2> QED BY <2>1 DEF Init, ShareUnits
<1>3. Depositors = {}
  BY DEF Init, Depositors
<1>4. SharesInv
  BY <1>2, <1>3, FS_EmptySet
  DEF Init, SharesInv, TotalIsSum, DepositorsTracked, ManagedCoversShares
<1> QED BY <1>1, <1>4 DEF PoolInv

(* Calls that leave the share accounting alone keep its invariant. *)
LEMMA SharesUntouched ==
    ASSUME SharesInv, UNCHANGED <<totalShares, shares, depositedAt, depositorCount>>,
           managed' >= managed, totalShares \in Nat, managed \in Nat, managed' \in Nat
    PROVE  SharesInv'
<1>1. TotalIsSum'
  BY DEF SharesInv, TotalIsSum, ShareUnits
<1>2. DepositorsTracked'
  BY DEF SharesInv, DepositorsTracked, Depositors
<1>3. ManagedCoversShares'
  BY DEF SharesInv, ManagedCoversShares
<1> QED BY <1>1, <1>2, <1>3 DEF SharesInv

(* The two kinds of token transfer keep balances natural. *)
LEMMA PaysType ==
    ASSUME TypeOK, NEW a \in Accounts, NEW n \in Nat, Pays(a, n)
    PROVE  poolBalance' \in Nat /\ wallet' \in [Accounts -> Nat]
BY DEF TypeOK, Pays

LEMMA ReceivesType ==
    ASSUME TypeOK, NEW a \in Accounts, NEW n \in Nat, Receives(a, n)
    PROVE  poolBalance' \in Nat /\ wallet' \in [Accounts -> Nat]
BY DEF TypeOK, Receives

LEMMA DepositKeepsInv ==
    ASSUME PoolInv, NEW p \in Accounts, NEW n \in Amounts, NEW min \in Amounts,
           Deposit(p, n, min)
    PROVE  PoolInv'
<1> DEFINE m == CalcSharesToMint(n, managed, totalShares)
<1> USE DEF PoolInv
<1>1. n \in Nat
  BY InputAssumption DEF Deposit
<1>2. m \in Nat /\ m > 0 /\ m <= n
  BY <1>1, MintBounds DEF TypeOK, SharesInv, ManagedCoversShares, Deposit
<1>3. /\ shares' = [shares EXCEPT ![p] = @ + m]
      /\ totalShares' = totalShares + m
      /\ managed' = managed + n
      /\ depositedAt' = [depositedAt EXCEPT ![p] = ledger]
      /\ depositorCount' = depositorCount + (IF shares[p] = 0 THEN 1 ELSE 0)
      /\ totalDeposits' = totalDeposits + n
      /\ Pays(p, n)
      /\ UNCHANGED <<ledger, adminVars, pauseVars, configVars,
                     totalOutstanding, limitVars, usageVars>>
  BY DEF Deposit, SharesAfterMint, NewDepositor
<1> HIDE DEF m
<1>4. TypeOK'
  <2>1. poolBalance' \in Nat /\ wallet' \in [Accounts -> Nat]
    BY <1>1, <1>3, PaysType
  <2>2. /\ shares' \in [Accounts -> Nat]
        /\ depositedAt' \in [Accounts -> Nat \cup {-1}]
    BY <1>2, <1>3 DEF TypeOK
  <2>3. /\ totalShares' \in Nat /\ managed' \in Nat
        /\ depositorCount' \in Nat /\ totalDeposits' \in Int
    BY <1>1, <1>2, <1>3 DEF TypeOK
  <2> QED BY <1>3, <2>1, <2>2, <2>3
      DEF TypeOK, adminVars, pauseVars, configVars, limitVars, usageVars
<1>5. TotalIsSum'
  <2>1. Cardinality(Units(shares')) = Cardinality(Units(shares)) + m
    BY <1>2, <1>3, UnitsAdd DEF TypeOK
  <2> QED BY <1>3, <2>1 DEF SharesInv, TotalIsSum, ShareUnits, Units
<1>6. DepositorsTracked'
  <2>1. Depositors' = Depositors \cup {p}
    BY <1>2, <1>3 DEF Depositors, TypeOK
  <2>2. IsFiniteSet(Depositors)
    BY AccountsAssumption, FS_Subset DEF Depositors
  <2>3. Cardinality(Depositors') =
          IF p \in Depositors THEN Cardinality(Depositors) ELSE Cardinality(Depositors) + 1
    BY <2>1, <2>2, FS_AddElement
  <2>4. p \in Depositors <=> shares[p] # 0
    BY DEF Depositors, TypeOK
  <2>5. depositorCount' = Cardinality(Depositors')
    BY <1>3, <2>3, <2>4 DEF SharesInv, DepositorsTracked, TypeOK
  <2>6. \A q \in Accounts : depositedAt'[q] # -1 <=> shares'[q] > 0
    BY <1>2, <1>3 DEF SharesInv, DepositorsTracked, TypeOK
  <2> QED BY <2>5, <2>6 DEF DepositorsTracked
<1>7. ManagedCoversShares'
  BY <1>1, <1>2, <1>3 DEF TypeOK, SharesInv, ManagedCoversShares
<1> QED BY <1>4, <1>5, <1>6, <1>7 DEF SharesInv

LEMMA RedeemKeepsInv ==
    ASSUME PoolInv, NEW p \in Accounts, NEW n \in Amounts, NEW min \in Amounts,
           RedeemShares(p, n, min)
    PROVE  PoolInv'
<1> DEFINE r == CalcAssetsToRedeem(n, managed, totalShares)
<1> USE DEF PoolInv
<1>1. n \in Nat /\ n > 0 /\ n <= shares[p]
  BY InputAssumption DEF RedeemShares, TypeOK
<1>2. Cardinality(Units(shares)) = totalShares
  BY DEF SharesInv, TotalIsSum, ShareUnits, Units
<1>3. /\ n <= totalShares
      /\ Cardinality(Units([shares EXCEPT ![p] = @ - n])) = totalShares - n
  BY <1>1, <1>2, UnitsSub DEF TypeOK
<1>4. r \in Nat /\ r <= n + (managed - totalShares)
  BY <1>1, <1>3, RedeemBounds DEF TypeOK, SharesInv, ManagedCoversShares
<1>5. /\ shares' = [shares EXCEPT ![p] = @ - n]
      /\ totalShares' = totalShares - n
      /\ managed' = managed - r
      /\ depositedAt' = IF shares[p] = n THEN [depositedAt EXCEPT ![p] = -1]
                                        ELSE depositedAt
      /\ depositorCount' = depositorCount
                           - (IF shares[p] = n /\ depositorCount > 0 THEN 1 ELSE 0)
      /\ totalDeposits' = totalDeposits - r
      /\ Receives(p, r)
      /\ UNCHANGED <<ledger, adminVars, pauseVars, configVars,
                     totalOutstanding, limitVars, usageVars>>
  BY DEF RedeemShares
<1> HIDE DEF r
<1>6. TypeOK'
  <2>1. poolBalance' \in Nat /\ wallet' \in [Accounts -> Nat]
    BY <1>4, <1>5, ReceivesType
  <2>2. totalShares' \in Nat /\ managed' \in Nat /\ depositorCount' \in Nat
    BY <1>1, <1>3, <1>4, <1>5 DEF TypeOK, SharesInv, ManagedCoversShares
  <2>3. shares' \in [Accounts -> Nat] /\ depositedAt' \in [Accounts -> Nat \cup {-1}]
    BY <1>1, <1>5 DEF TypeOK
  <2> QED BY <1>4, <1>5, <2>1, <2>2, <2>3
      DEF TypeOK, adminVars, pauseVars, configVars, limitVars, usageVars
<1>7. TotalIsSum'
  BY <1>3, <1>5 DEF TotalIsSum, ShareUnits, Units
<1>8. DepositorsTracked'
  <2>1. IsFiniteSet(Depositors) /\ p \in Depositors
    BY <1>1, AccountsAssumption, FS_Subset DEF Depositors, TypeOK
  <2>2. depositorCount = Cardinality(Depositors) /\ depositorCount > 0
    BY <2>1, FS_EmptySet DEF SharesInv, DepositorsTracked, TypeOK
  <2>3. \A q \in Accounts : depositedAt'[q] # -1 <=> shares'[q] > 0
    BY <1>1, <1>5 DEF SharesInv, DepositorsTracked, TypeOK
  <2>4. CASE shares[p] = n
    <3>1. Depositors' = Depositors \ {p}
      BY <1>1, <1>5, <2>4 DEF Depositors, TypeOK
    <3>2. Cardinality(Depositors') = Cardinality(Depositors) - 1
      BY <2>1, <3>1, FS_RemoveElement
    <3> QED BY <1>5, <2>2, <2>3, <2>4, <3>2 DEF DepositorsTracked
  <2>5. CASE shares[p] # n
    <3>1. Depositors' = Depositors
      BY <1>1, <1>5, <2>5 DEF Depositors, TypeOK
    <3> QED BY <1>5, <2>2, <2>3, <2>5, <3>1 DEF DepositorsTracked, TypeOK
  <2> QED BY <2>4, <2>5
<1>9. ManagedCoversShares'
  BY <1>1, <1>4, <1>5 DEF TypeOK, SharesInv, ManagedCoversShares
<1> QED BY <1>6, <1>7, <1>8, <1>9 DEF SharesInv

LEMMA DistributeYieldKeepsInv ==
    ASSUME PoolInv, NEW p \in Accounts, NEW n \in Amounts, DistributeYield(p, n)
    PROVE  PoolInv'
<1> USE DEF PoolInv
<1>1. n \in Nat
  BY InputAssumption DEF DistributeYield
<1>2. poolBalance' \in Nat /\ wallet' \in [Accounts -> Nat]
  BY <1>1, PaysType DEF DistributeYield
<1>3. periodReset' \in Nat /\ used' \in [Accounts -> Nat]
  BY <1>1 DEF DistributeYield, UpdateCumulativeYield, usageVars, TypeOK
<1>4. managed' = managed + n /\ managed' \in Nat
  BY <1>1 DEF DistributeYield, TypeOK
<1>5. TypeOK'
  BY <1>2, <1>3, <1>4
  DEF DistributeYield, TypeOK, adminVars, pauseVars, configVars, limitVars
<1>6. SharesInv'
  <2>1. UNCHANGED <<totalShares, shares, depositedAt, depositorCount>>
    BY DEF DistributeYield
  <2>2. managed' >= managed /\ managed \in Nat /\ totalShares \in Nat
    BY <1>1, <1>4 DEF TypeOK
  <2> QED BY <1>4, <2>1, <2>2, SharesUntouched
<1> QED BY <1>5, <1>6

LEMMA TransferKeepsInv ==
    ASSUME PoolInv, NEW p \in Accounts, NEW n \in Amounts,
           TransferIn(p, n) \/ TransferOut(p, n)
    PROVE  PoolInv'
<1> USE DEF PoolInv
<1>1. n \in Nat
  BY InputAssumption DEF TransferIn, TransferOut
<1>2. poolBalance' \in Nat /\ wallet' \in [Accounts -> Nat]
  BY <1>1, PaysType, ReceivesType DEF TransferIn, TransferOut
<1>3. NoPoolState
  BY DEF TransferIn, TransferOut
<1>4. TypeOK'
  BY <1>2, <1>3
  DEF NoPoolState, TypeOK, adminVars, pauseVars, configVars, shareVars,
      limitVars, usageVars
<1>5. SharesInv'
  <2>1. UNCHANGED <<totalShares, shares, depositedAt, depositorCount, managed>>
    BY <1>3 DEF NoPoolState, shareVars
  <2>2. managed' >= managed /\ managed \in Nat /\ managed' \in Nat /\ totalShares \in Nat
    BY <2>1 DEF TypeOK
  <2> QED BY <2>1, <2>2, SharesUntouched
<1> QED BY <1>4, <1>5

(* Calls that leave every token and share variable alone keep the invariant *)
(* when they keep the types.                                                *)
LEMMA ConfigKeepsInv ==
    ASSUME PoolInv, UNCHANGED shareVars, TypeOK'
    PROVE  PoolInv'
<1> USE DEF PoolInv
<1>1. UNCHANGED <<totalShares, shares, depositedAt, depositorCount, managed>>
  BY DEF shareVars
<1>2. managed' >= managed /\ managed \in Nat /\ managed' \in Nat /\ totalShares \in Nat
  BY <1>1 DEF TypeOK
<1> QED BY <1>1, <1>2, SharesUntouched

LEMMA AdminStepType ==
    ASSUME TypeOK, AdminStep
    PROVE  TypeOK' /\ UNCHANGED shareVars
<1> USE DEF TypeOK, tokenVars, adminVars, pauseVars, configVars, shareVars,
            limitVars, usageVars, ByAdmin
<1>1. ASSUME NEW a \in Accounts, Initialize(a) PROVE TypeOK' /\ UNCHANGED shareVars
  BY <1>1, InputAssumption DEF Initialize
<1>2. ASSUME NEW a \in Accounts, ProposeAdmin(a) \/ SetAdmin(a)
      PROVE  TypeOK' /\ UNCHANGED shareVars
  BY <1>2 DEF ProposeAdmin, SetAdmin, OnlyAdminVars
<1>3. ASSUME AcceptAdmin PROVE TypeOK' /\ UNCHANGED shareVars
  BY <1>3 DEF AcceptAdmin, OnlyAdminVars
<1>4. ASSUME NEW b \in BOOLEAN, SetPaused(b) PROVE TypeOK' /\ UNCHANGED shareVars
  BY <1>4 DEF SetPaused, OnlyPauseVars
<1>5. ASSUME NEW flags \in SUBSET Ops, ChangePauseFlags(flags)
      PROVE  TypeOK' /\ UNCHANGED shareVars
  BY <1>5 DEF ChangePauseFlags, OnlyPauseVars
<1>6. ASSUME NEW n \in MaxPoolSizes, SetMaxPoolSize(n)
      PROVE  TypeOK' /\ UNCHANGED shareVars
  BY <1>6, InputAssumption DEF SetMaxPoolSize, OnlyConfigVars
<1>7. ASSUME NEW n \in Cooldowns, SetWithdrawalCooldown(n)
      PROVE  TypeOK' /\ UNCHANGED shareVars
  BY <1>7, InputAssumption DEF SetWithdrawalCooldown, OnlyConfigVars
<1>8. ASSUME NEW d \in Accounts, AuthorizeDistributor(d) \/ RevokeDistributor(d)
      PROVE  TypeOK' /\ UNCHANGED shareVars
  BY <1>8 DEF AuthorizeDistributor, RevokeDistributor, OnlyYieldVars
<1>9. ASSUME NEW n \in YieldLimits, SetPerDistributionLimit(n) \/ SetCumulativeLimit(n)
      PROVE  TypeOK' /\ UNCHANGED shareVars
  BY <1>9, InputAssumption DEF SetPerDistributionLimit, SetCumulativeLimit, OnlyYieldVars
<1>10. ASSUME NEW n \in Periods, SetPeriod(n) PROVE TypeOK' /\ UNCHANGED shareVars
  BY <1>10, InputAssumption DEF SetPeriod, OnlyYieldVars
<1>11. ASSUME NEW n \in Int, AdjustOutstanding(n) PROVE TypeOK' /\ UNCHANGED shareVars
  BY <1>11 DEF AdjustOutstanding
<1>12. CASE \E op \in Ops : PauseOnly(op) \/ UnpauseOp(op)
  <2> PICK op \in Ops : PauseOnly(op) \/ UnpauseOp(op)
    BY <1>12
  <2>1. pauseFlags \cup {op} \in SUBSET Ops /\ pauseFlags \ {op} \in SUBSET Ops
    OBVIOUS
  <2> QED BY <1>5, <2>1 DEF PauseOnly, UnpauseOp
<1>13. CASE \E n \in Amounts : AdjustOutstanding(n) \/ AdjustOutstanding(-n)
  <2> PICK n \in Amounts : AdjustOutstanding(n) \/ AdjustOutstanding(-n)
    BY <1>13
  <2>1. n \in Int /\ -n \in Int
    BY InputAssumption
  <2> QED BY <1>11, <2>1
<1> QED BY <1>1, <1>2, <1>3, <1>4, <1>5, <1>6, <1>7, <1>8, <1>9, <1>10, <1>12, <1>13
    DEF AdminStep, SetPauseFlags

LEMMA NextKeepsInv == PoolInv /\ [Next]_vars => PoolInv'
<1> SUFFICES ASSUME PoolInv, [Next]_vars PROVE PoolInv'
  OBVIOUS
<1>1. CASE LedgerClose
  <2>1. TypeOK'
    BY <1>1 DEF LedgerClose, PoolInv, TypeOK, tokenVars, adminVars, pauseVars,
                configVars, shareVars, limitVars, usageVars
  <2> QED BY <1>1, <2>1, ConfigKeepsInv DEF LedgerClose
<1>2. CASE ProviderStep
  BY <1>2, DepositKeepsInv, RedeemKeepsInv DEF ProviderStep, Withdraw, EmergencyWithdraw
<1>3. CASE YieldStep
  BY <1>3, DistributeYieldKeepsInv DEF YieldStep
<1>4. CASE TokenStep
  BY <1>4, TransferKeepsInv DEF TokenStep
<1>5. CASE AdminStep
  BY <1>5, AdminStepType, ConfigKeepsInv DEF PoolInv
<1>6. CASE UNCHANGED vars
  <2>1. TypeOK' /\ UNCHANGED shareVars
    BY <1>6 DEF PoolInv, TypeOK, vars, tokenVars, adminVars, pauseVars,
                configVars, shareVars, limitVars, usageVars
  <2> QED BY <2>1, ConfigKeepsInv
<1> QED BY <1>1, <1>2, <1>3, <1>4, <1>5, <1>6 DEF Next

(* The inductive invariant holds in every state the pool reaches. *)
THEOREM PoolInvariant == Spec => []PoolInv
<1>1. Init => PoolInv
  BY InitPoolInv
<1>2. PoolInv /\ [Next]_vars => PoolInv'
  BY NextKeepsInv
<1> QED BY <1>1, <1>2, PTL DEF Spec

(* Every key keeps the type lib.rs gives it; in particular TotalShares,     *)
(* TotalManagedAssets and the live balance never go below zero.             *)
THEOREM TypeCorrect == Spec => []TypeOK
<1>1. PoolInv => TypeOK
  BY DEF PoolInv
<1> QED BY <1>1, PoolInvariant, PTL

(* deposit, withdraw and emergency_withdraw keep TotalShares equal to the   *)
(* sum of the providers' balances, and DepositorCount and the deposit       *)
(* timestamps in step with them.                                            *)
THEOREM SharesAlwaysAccounted == Spec => []SharesAccounted
<1>1. PoolInv => SharesAccounted
  BY DEF PoolInv, SharesInv, SharesAccounted
<1> QED BY <1>1, PoolInvariant, PTL

(* No rounding of deposit or redeem_shares ever leaves a share unbacked.    *)
THEOREM SharesAlwaysBacked == Spec => []ManagedCoversShares
<1>1. PoolInv => ManagedCoversShares
  BY DEF PoolInv, SharesInv
<1> QED BY <1>1, PoolInvariant, PTL

------------------------------------------------------------------------------
(* Rounding and the share price.                                            *)

(* A deposit redeemed at once returns at most what was deposited: from      *)
(* m * (M + V) <= a * (S + V) follows m * (M + a + V) <= a * (S + m + V).   *)
LEMMA RoundTrip ==
    ASSUME NEW a \in Nat, NEW M \in Nat, NEW S \in Nat, S <= M
    PROVE  LET m == CalcSharesToMint(a, M, S)
           IN  CalcAssetsToRedeem(m, M + a, S + m) <= a
<1> DEFINE m == CalcSharesToMint(a, M, S)
           x == m * (M + a + Virtual)
           d == S + m + Virtual
           r == CalcAssetsToRedeem(m, M + a, S + m)
<1>1. m \in Nat /\ m * (M + Virtual) <= a * (S + Virtual)
  BY MintBounds
<1>2. r = x \div d
  BY DEF CalcAssetsToRedeem
<1> HIDE DEF m, r
<1>3. x \in Nat /\ d \in Nat /\ d > 0
  BY <1>1, VirtualAssumption, SMT
<1>4. r \in Nat /\ r * d <= x
  BY <1>2, <1>3, FloorBounds
<1>5. x <= a * d
  <2>1. x = m * (M + Virtual) + m * a
    BY <1>1, VirtualAssumption, SMT
  <2>2. a * d = a * (S + Virtual) + m * a
    BY <1>1, VirtualAssumption, SMT
  <2>3. /\ m * (M + Virtual) \in Int /\ m * a \in Int /\ a * (S + Virtual) \in Int
    BY <1>1, VirtualAssumption, SMT
  <2> HIDE DEF x, d
  <2> QED BY <1>1, <2>1, <2>2, <2>3
<1> HIDE DEF x, d
<1>6. r <= a
  <2> SUFFICES ASSUME r >= a + 1 PROVE FALSE
    BY <1>4, SMT
  <2>1. r * d >= (a + 1) * d
    BY <1>3, <1>4, SMT
  <2>2. (a + 1) * d = a * d + d /\ a * d \in Int /\ r * d \in Int
    BY <1>3, <1>4, SMT
  <2> QED BY <1>3, <1>4, <1>5, <2>1, <2>2, SMT
<1> QED BY <1>6 DEF m, r

(* Depositing and redeeming at once is never profitable, whatever sequence  *)
(* of calls produced the pool's state.                                      *)
THEOREM RoundTripsNeverProfit == Spec => []NoRoundTripProfit
<1>1. PoolInv => NoRoundTripProfit
  <2> SUFFICES ASSUME PoolInv, NEW a \in Amounts, a > 0
               PROVE  CalcAssetsToRedeem(CalcSharesToMint(a, managed, totalShares),
                         managed + a,
                         totalShares + CalcSharesToMint(a, managed, totalShares)) <= a
    BY DEF NoRoundTripProfit
  <2>1. a \in Nat /\ managed \in Nat /\ totalShares \in Nat /\ totalShares <= managed
    BY InputAssumption DEF PoolInv, TypeOK, SharesInv, ManagedCoversShares
  <2> QED BY <2>1, RoundTrip
<1> QED BY <1>1, PoolInvariant, PTL

PriceKept ==
    (managed' + Virtual) * (totalShares + Virtual)
      >= (managed + Virtual) * (totalShares' + Virtual)

LEMMA MoreAssetsKeepPrice ==
    ASSUME NEW M \in Nat, NEW N \in Nat, NEW S \in Nat, N >= M
    PROVE  (N + Virtual) * (S + Virtual) >= (M + Virtual) * (S + Virtual)
<1> DEFINE x == M + Virtual
           y == N + Virtual
           s == S + Virtual
<1>1. x \in Nat /\ y \in Nat /\ s \in Nat /\ y >= x
  BY VirtualAssumption
<1> HIDE DEF x, y, s
<1>2. y * s >= x * s
  BY <1>1, SMT
<1> QED BY <1>2 DEF x, y, s

LEMMA SameSharesKeepPrice ==
    ASSUME managed \in Nat, managed' \in Nat, totalShares \in Nat,
           totalShares' = totalShares, managed' >= managed
    PROVE  PriceKept
<1>1. (managed' + Virtual) * (totalShares + Virtual)
        >= (managed + Virtual) * (totalShares + Virtual)
  BY MoreAssetsKeepPrice
<1> QED BY <1>1 DEF PriceKept

LEMMA DepositKeepsPrice ==
    ASSUME PoolInv, NEW p \in Accounts, NEW n \in Amounts, NEW min \in Amounts,
           Deposit(p, n, min)
    PROVE  PriceKept
<1> DEFINE m == CalcSharesToMint(n, managed, totalShares)
           x == managed + Virtual
           s == totalShares + Virtual
<1>1. n \in Nat /\ managed \in Nat /\ totalShares \in Nat /\ totalShares <= managed
  BY InputAssumption DEF Deposit, PoolInv, TypeOK, SharesInv, ManagedCoversShares
<1>2. m \in Nat /\ m * x <= n * s
  BY <1>1, MintBounds
<1>3. managed' = managed + n /\ totalShares' = totalShares + m
  BY DEF Deposit
<1> HIDE DEF m
<1>4. x \in Nat /\ s \in Nat /\ managed' + Virtual = x + n /\ totalShares' + Virtual = s + m
  BY <1>1, <1>2, <1>3, VirtualAssumption
<1>5. PriceKept <=> (x + n) * s >= x * (s + m)
  BY <1>4 DEF PriceKept
<1> HIDE DEF x, s
<1>6. (x + n) * s = x * s + n * s /\ x * (s + m) = x * s + m * x
  BY <1>1, <1>2, <1>4, SMT
<1>7. x * s \in Int /\ n * s \in Int /\ m * x \in Int
  BY <1>1, <1>2, <1>4, SMT
<1> QED BY <1>2, <1>5, <1>6, <1>7

LEMMA RedeemKeepsPrice ==
    ASSUME PoolInv, NEW p \in Accounts, NEW n \in Amounts, NEW min \in Amounts,
           RedeemShares(p, n, min)
    PROVE  PriceKept
<1> DEFINE r == CalcAssetsToRedeem(n, managed, totalShares)
           x == managed + Virtual
           s == totalShares + Virtual
<1>1. n \in Nat /\ n <= shares[p] /\ managed \in Nat /\ totalShares \in Nat
      /\ totalShares <= managed
  BY InputAssumption DEF RedeemShares, PoolInv, TypeOK, SharesInv, ManagedCoversShares
<1>2. n <= totalShares
  <2>1. n <= Cardinality(Units(shares))
    BY <1>1, UnitsSub DEF PoolInv, TypeOK
  <2> QED BY <2>1 DEF PoolInv, SharesInv, TotalIsSum, ShareUnits, Units
<1>3. r \in Nat /\ r * s <= n * x
  BY <1>1, <1>2, RedeemBounds
<1>4. managed' = managed - r /\ totalShares' = totalShares - n
  BY DEF RedeemShares
<1> HIDE DEF r
<1>5. x \in Nat /\ s \in Nat /\ managed' + Virtual = x - r /\ totalShares' + Virtual = s - n
  BY <1>1, <1>3, <1>4, VirtualAssumption
<1>6. PriceKept <=> (x - r) * s >= x * (s - n)
  BY <1>5 DEF PriceKept
<1> HIDE DEF x, s
<1>7. (x - r) * s = x * s - r * s /\ x * (s - n) = x * s - n * x
  BY <1>1, <1>3, <1>5, SMT
<1>8. x * s \in Int /\ r * s \in Int /\ n * x \in Int
  BY <1>1, <1>3, <1>5, SMT
<1> QED BY <1>3, <1>6, <1>7, <1>8

(* No call and no token transfer lowers the share price. *)
THEOREM SharePriceMonotone == Spec => SharePriceNeverFalls
<1>1. PoolInv /\ [Next]_vars => [PriceKept]_vars
  <2> SUFFICES ASSUME PoolInv, Next PROVE PriceKept
    OBVIOUS
  <2>1. managed \in Nat /\ totalShares \in Nat
    BY DEF PoolInv, TypeOK
  <2>2. ASSUME UNCHANGED shareVars PROVE PriceKept
    BY <2>1, <2>2, SameSharesKeepPrice DEF shareVars
  <2>3. CASE LedgerClose
    BY <2>2, <2>3 DEF LedgerClose
  <2>4. CASE ProviderStep
    BY <2>4, DepositKeepsPrice, RedeemKeepsPrice
    DEF ProviderStep, Withdraw, EmergencyWithdraw
  <2>5. CASE YieldStep
    <3> PICK p \in Accounts, n \in Amounts : DistributeYield(p, n)
      BY <2>5 DEF YieldStep
    <3>1. managed' \in Nat /\ managed' >= managed /\ totalShares' = totalShares
      BY <2>1, InputAssumption DEF DistributeYield
    <3> QED BY <2>1, <3>1, SameSharesKeepPrice
  <2>6. CASE TokenStep
    BY <2>2, <2>6 DEF TokenStep, TransferIn, TransferOut, NoPoolState
  <2>7. CASE AdminStep
    BY <2>2, <2>7, AdminStepType DEF PoolInv
  <2> QED BY <2>3, <2>4, <2>5, <2>6, <2>7 DEF Next
<1>2. Spec => []PoolInv
  BY PoolInvariant
<1>3. Spec => [][PriceKept]_vars
  BY <1>1, <1>2, PTL DEF Spec
<1> QED BY <1>3 DEF SharePriceNeverFalls, PriceKept

------------------------------------------------------------------------------
(* The limit on yield (MCLendingPool).                                      *)

(* DistributorCumulativeYield never falls short of what the distributor has *)
(* paid in during the period; it may exceed it, since a new period clears   *)
(* the counter of the distributor that starts it only.                      *)
YieldInv == \A a \in Accounts : periodYield[a] \in Nat /\ periodYield[a] <= used[a]

(* Only distribute_yield is counted. *)
NotYield ==
    /\ used' = used
    /\ managed' <= managed \/ (totalShares' # totalShares /\ periodReset' = periodReset)

LEMMA OtherStepsPayNoYield ==
    ASSUME PoolInv, [Next]_vars, ~YieldStep
    PROVE  NotYield
<1>1. managed \in Nat /\ totalShares \in Nat
  BY DEF PoolInv, TypeOK
<1>2. CASE LedgerClose \/ TokenStep \/ UNCHANGED vars
  <2>1. used' = used /\ managed' = managed
    BY <1>2 DEF LedgerClose, TokenStep, TransferIn, TransferOut, NoPoolState, vars, shareVars,
                usageVars
  <2> QED BY <1>1, <2>1 DEF NotYield
<1>3. CASE AdminStep
  <2>1. managed' = managed
    BY <1>3, AdminStepType DEF PoolInv, shareVars
  <2>2. used' = used
    BY <1>3 DEF AdminStep, Initialize, ProposeAdmin, SetAdmin, AcceptAdmin, SetPaused, PauseOnly,
                UnpauseOp, SetPauseFlags, ChangePauseFlags, SetMaxPoolSize,
                SetWithdrawalCooldown, AuthorizeDistributor, RevokeDistributor,
                SetPerDistributionLimit, SetCumulativeLimit, SetPeriod, AdjustOutstanding,
                OnlyAdminVars, OnlyPauseVars, OnlyConfigVars, OnlyYieldVars, usageVars
  <2> QED BY <1>1, <2>1, <2>2 DEF NotYield
<1>4. ASSUME NEW p \in Accounts, NEW n \in Amounts, NEW min \in Amounts, Deposit(p, n, min)
      PROVE  NotYield
  <2> DEFINE m == CalcSharesToMint(n, managed, totalShares)
  <2>1. n \in Nat /\ totalShares <= managed
    BY <1>4, InputAssumption DEF Deposit, PoolInv, SharesInv, ManagedCoversShares
  <2>2. m \in Nat
    BY <1>1, <2>1, MintBounds
  <2>3. m > 0 /\ totalShares' = totalShares + m /\ used' = used /\ periodReset' = periodReset
    BY <1>4 DEF Deposit, usageVars
  <2> HIDE DEF m
  <2> QED BY <1>1, <2>2, <2>3 DEF NotYield
<1>5. ASSUME NEW p \in Accounts, NEW n \in Amounts, NEW min \in Amounts, RedeemShares(p, n, min)
      PROVE  NotYield
  <2>1. /\ n > 0 /\ totalShares' = totalShares - n /\ used' = used
        /\ periodReset' = periodReset
    BY <1>5 DEF RedeemShares, usageVars
  <2> QED BY <1>1, <2>1, InputAssumption DEF NotYield
<1> QED
  BY <1>2, <1>3, <1>4, <1>5 DEF Next, ProviderStep, Withdraw, EmergencyWithdraw

(* What distribute_yield does to the counter. *)
LEMMA YieldCounted ==
    ASSUME PoolInv, NEW p \in Accounts, NEW n \in Amounts, DistributeYield(p, n)
    PROVE  /\ n \in Nat /\ n > 0 /\ managed' = managed + n /\ totalShares' = totalShares
           /\ \A a \in Accounts : wallet'[a] < wallet[a] <=> a = p
           /\ cumLimit = 0 => used' = used /\ periodReset' = periodReset
           /\ cumLimit > 0 =>
                 /\ used'[p] <= cumLimit
                 /\ \A a \in Accounts : a # p => used'[a] = used[a]
                 /\ IF periodReset' # periodReset
                    THEN used'[p] = n ELSE used'[p] = used[p] + n
<1>1. n \in Nat /\ n > 0 /\ managed' = managed + n /\ totalShares' = totalShares
  BY InputAssumption DEF DistributeYield
<1>2. \A a \in Accounts : wallet'[a] < wallet[a] <=> a = p
  <2>1. wallet \in [Accounts -> Nat] /\ wallet' = [wallet EXCEPT ![p] = @ - n]
    BY DEF DistributeYield, Pays, PoolInv, TypeOK
  <2> QED BY <1>1, <2>1
<1>3. UpdateCumulativeYield(p, n)
  BY DEF DistributeYield
<1>4. /\ used \in [Accounts -> Nat] /\ ledger \in Nat /\ period \in Nat
      /\ periodReset \in Nat /\ cumLimit \in Nat
  BY DEF PoolInv, TypeOK
<1>5. ASSUME cumLimit > 0
      PROVE  /\ used'[p] <= cumLimit
             /\ \A a \in Accounts : a # p => used'[a] = used[a]
             /\ IF periodReset' # periodReset
                THEN used'[p] = n ELSE used'[p] = used[p] + n
  <2>1. CASE PeriodElapsed
    <3>1. 0 + n <= cumLimit /\ used' = [used EXCEPT ![p] = 0 + n] /\ periodReset' = ledger
      BY <1>3, <1>4, <1>5, <2>1 DEF UpdateCumulativeYield
    <3>2. ledger # periodReset
      BY <1>4, <2>1 DEF PeriodElapsed
    <3> QED BY <1>1, <1>4, <3>1, <3>2
  <2>2. CASE ~PeriodElapsed
    <3>1. /\ used[p] + n <= cumLimit /\ used' = [used EXCEPT ![p] = used[p] + n]
          /\ periodReset' = periodReset
      BY <1>3, <1>4, <1>5, <2>2 DEF UpdateCumulativeYield
    <3> QED BY <1>4, <3>1
  <2> QED BY <2>1, <2>2
<1> QED
  BY <1>1, <1>2, <1>3, <1>4, <1>5 DEF UpdateCumulativeYield, usageVars

(* However the admin moves the limit and the period, and whichever          *)
(* distributor starts a new period, no distribution takes what its          *)
(* distributor has paid in during the period above the cumulative limit.    *)
THEOREM YieldAlwaysWithinLimit == HSpec => YieldWithinLimit
<1> DEFINE Step == \A a \in Accounts :
                      periodYield'[a] > periodYield[a] => periodYield'[a] <= cumLimit
<1>1. HInit => PoolInv /\ YieldInv
  BY InitPoolInv DEF HInit, Init, YieldInv
<1>2. ASSUME PoolInv, YieldInv, [HNext]_<<vars, periodYield>>
      PROVE  PoolInv' /\ YieldInv' /\ Step
  <2>1. [Next]_vars
    BY <1>2 DEF HNext
  <2>2. PoolInv'
    BY <1>2, <2>1, NextKeepsInv
  <2>3. /\ managed \in Nat /\ managed' \in Nat /\ cumLimit \in Nat
        /\ used \in [Accounts -> Nat] /\ used' \in [Accounts -> Nat]
    BY <1>2, <2>2 DEF PoolInv, TypeOK
  <2>4. CASE UNCHANGED <<vars, periodYield>>
    BY <1>2, <2>2, <2>4 DEF YieldInv, vars, usageVars
  <2>5. CASE HNext /\ NotYield
    <3>1. ASSUME NEW a \in Accounts PROVE periodYield'[a] = periodYield[a]
      BY <1>2, <2>3, <2>5, <3>1 DEF HNext, NotYield, Distributed, YieldInv
    <3>2. used' = used
      BY <2>5 DEF NotYield
    <3> QED BY <1>2, <2>2, <3>1, <3>2 DEF YieldInv
  <2>6. ASSUME HNext, NEW p \in Accounts, NEW n \in Amounts, DistributeYield(p, n)
        PROVE  YieldInv' /\ Step
    <3>1. ASSUME NEW a \in Accounts
          PROVE  /\ periodYield'[a] \in Nat /\ periodYield'[a] <= used'[a]
                 /\ periodYield'[a] > periodYield[a] => periodYield'[a] <= cumLimit
      <4> DEFINE y == IF periodReset' # periodReset THEN 0 ELSE periodYield[a]
      <4>1. periodYield'[a] = y + IF cumLimit > 0 /\ a = p THEN n ELSE 0
        BY <1>2, <2>3, <2>6, YieldCounted DEF HNext, Distributed
      <4>2. periodYield[a] \in Nat /\ periodYield[a] <= used[a] /\ used[a] \in Nat
        BY <1>2, <2>3 DEF YieldInv
      <4> QED BY <1>2, <2>3, <2>6, <4>1, <4>2, YieldCounted
    <3> QED BY <3>1 DEF YieldInv
  <2>7. CASE HNext /\ YieldStep
    BY <2>2, <2>6, <2>7 DEF YieldStep
  <2> QED BY <1>2, <2>1, <2>4, <2>5, <2>7, OtherStepsPayNoYield
<1> QED
  BY <1>1, <1>2, PTL DEF HSpec, YieldWithinLimit
==============================================================================
