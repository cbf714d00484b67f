----------------------------- MODULE LendingPool -----------------------------
(***************************************************************************)
(* contracts/lending_pool/src/lib.rs: one liquidity pool (one token) of    *)
(* the Soroban contract.  A contract call is one atomic step; a call that  *)
(* returns an error or panics is reverted by the host, so it is no step at *)
(* all: every early return is a guard.  i128 amounts are unbounded         *)
(* integers here: the code uses checked arithmetic and a call that would   *)
(* overflow reverts.                                                       *)
(*                                                                         *)
(* The token contract is external: poolBalance and wallet are its balances *)
(* and TransferIn and TransferOut are the transfers made behind the pool's *)
(* back (donations and loan repayments in, loan disbursements out).        *)
(***************************************************************************)
EXTENDS Integers, FiniteSets

CONSTANTS
    Accounts,        \* addresses that deposit, administer and distribute
    NoAccount,       \* stands for an absent address
    Funds,           \* tokens every account owns at the start
    Virtual,         \* VIRTUAL_SHARES = VIRTUAL_ASSETS (1000 in the code)
    Amounts,         \* token and share amounts passed by callers
    MaxPoolSizes,    \* caps the admin may set (0 = no cap)
    Cooldowns,       \* withdrawal cooldowns the admin may set
    DefaultCooldown, \* DEFAULT_WITHDRAWAL_COOLDOWN
    MaxCooldown,     \* MAX_WITHDRAWAL_COOLDOWN_LEDGERS
    YieldLimits,     \* limits the admin may set (0 = unlimited)
    Periods,         \* yield period lengths the admin may set
    MaxPeriod,       \* MAX_PERIOD_LEDGERS
    MaxLedger        \* bound on the ledger sequence

Ops == {"deposits", "withdrawals", "yield"}

ASSUME AccountsAssumption == IsFiniteSet(Accounts) /\ NoAccount \notin Accounts
ASSUME FundsAssumption    == Funds \in Nat
ASSUME VirtualAssumption  == Virtual \in Nat \ {0}
ASSUME InputAssumption    ==
    /\ Amounts \subseteq Int
    /\ MaxPoolSizes \subseteq Int
    /\ YieldLimits \subseteq Int
    /\ Cooldowns \subseteq Nat
    /\ Periods \subseteq Nat
    /\ DefaultCooldown \in Nat /\ MaxCooldown \in Nat
    /\ MaxPeriod \in Nat /\ MaxLedger \in Nat

VARIABLES
    ledger,           \* env.ledger().sequence()
    poolBalance,      \* token balance of the contract's address
    wallet,           \* token balances of the accounts
    admin,            \* DataKey::Admin (NoAccount before initialize)
    proposedAdmin,    \* DataKey::ProposedAdmin
    paused,           \* DataKey::Paused
    pauseFlags,       \* DataKey::PauseFlags: the operations whose bit is set
    cooldown,         \* DataKey::WithdrawalCooldown
    maxPoolSize,      \* DataKey::MaxPoolSize
    totalShares,      \* DataKey::TotalShares
    shares,           \* DataKey::Shares, 0 for an absent key
    depositedAt,      \* DataKey::DepositTimestamp, -1 for an absent key
    totalDeposits,    \* DataKey::TotalDeposits
    totalOutstanding, \* DataKey::TotalOutstanding
    managed,          \* DataKey::TotalManagedAssets
    depositorCount,   \* DataKey::DepositorCount
    distributors,     \* DataKey::YieldDistributorsSet
    perLimit,         \* DataKey::PerDistributionYieldLimit
    cumLimit,         \* DataKey::CumulativeYieldLimit
    period,           \* DataKey::YieldDistributionPeriod
    periodReset,      \* DataKey::YieldDistributionPeriodReset
    used              \* DataKey::DistributorCumulativeYield

tokenVars  == <<poolBalance, wallet>>
adminVars  == <<admin, proposedAdmin>>
pauseVars  == <<paused, pauseFlags>>
configVars == <<cooldown, maxPoolSize>>
shareVars  == <<totalShares, shares, depositedAt, totalDeposits, managed,
                depositorCount>>
limitVars  == <<distributors, perLimit, cumLimit, period>>
usageVars  == <<periodReset, used>>
vars == <<ledger, tokenVars, adminVars, pauseVars, configVars, shareVars,
          totalOutstanding, limitVars, usageVars>>

Init ==
    /\ ledger = 1
    /\ poolBalance = 0
    /\ wallet = [a \in Accounts |-> Funds]
    /\ admin = NoAccount
    /\ proposedAdmin = NoAccount
    /\ paused = FALSE
    /\ pauseFlags = {}
    /\ cooldown = DefaultCooldown
    /\ maxPoolSize = 0
    /\ totalShares = 0
    /\ shares = [a \in Accounts |-> 0]
    /\ depositedAt = [a \in Accounts |-> -1]
    /\ totalDeposits = 0
    /\ totalOutstanding = 0
    /\ managed = 0
    /\ depositorCount = 0
    /\ distributors = {}
    /\ perLimit = 0
    /\ cumLimit = 0
    /\ period = 0
    /\ periodReset = 0
    /\ used = [a \in Accounts |-> 0]

------------------------------------------------------------------------------
(* Share / asset math.                                                      *)

(* Mutated form: rounds a deposit's shares up instead of down. *)
MintRoundingUp(amount, assets, total) ==
    (amount * (total + Virtual) + assets + Virtual - 1) \div (assets + Virtual)

CalcSharesToMint(amount, assets, total) ==
    (amount * (total + Virtual)) \div (assets + Virtual)

(* Mutated form: the virtual offset is missing from the divisor. *)
RedeemWithoutVirtualShares(n, assets, total) ==
    IF total = 0 THEN n ELSE (n * (assets + Virtual)) \div total

CalcAssetsToRedeem(n, assets, total) ==
    (n * (assets + Virtual)) \div (total + Virtual)

------------------------------------------------------------------------------
(* The token contract and time (external).                                  *)

LedgerClose ==
    /\ ledger < MaxLedger
    /\ ledger' = ledger + 1
    /\ UNCHANGED <<tokenVars, adminVars, pauseVars, configVars, shareVars,
                   totalOutstanding, limitVars, usageVars>>

Pays(a, amount) ==
    /\ wallet[a] >= amount
    /\ wallet' = [wallet EXCEPT ![a] = @ - amount]
    /\ poolBalance' = poolBalance + amount

Receives(a, amount) ==
    /\ poolBalance >= amount
    /\ wallet' = [wallet EXCEPT ![a] = @ + amount]
    /\ poolBalance' = poolBalance - amount

NoPoolState ==
    UNCHANGED <<ledger, adminVars, pauseVars, configVars, shareVars,
                totalOutstanding, limitVars, usageVars>>

TransferIn(a, amount)  == amount > 0 /\ Pays(a, amount) /\ NoPoolState
TransferOut(a, amount) == amount > 0 /\ Receives(a, amount) /\ NoPoolState

------------------------------------------------------------------------------
(* Core pool operations.                                                    *)

NotPaused(op) == ~paused /\ op \notin pauseFlags

(* Mutated form: a deposit overwrites the provider's earlier shares. *)
OverwrittenShares(p, minted) == [shares EXCEPT ![p] = minted]

SharesAfterMint(p, minted) == [shares EXCEPT ![p] = @ + minted]

NewDepositor(p) == shares[p] = 0

Deposit(p, amount, minSharesOut) ==
    LET minted == CalcSharesToMint(amount, managed, totalShares)
    IN  /\ NotPaused("deposits")
        /\ amount > 0
        /\ minSharesOut >= 0
        /\ maxPoolSize > 0 => totalDeposits + amount <= maxPoolSize
        /\ minted > 0
        /\ minted >= minSharesOut
        /\ Pays(p, amount)
        /\ depositorCount' = depositorCount + (IF NewDepositor(p) THEN 1 ELSE 0)
        /\ shares' = SharesAfterMint(p, minted)
        /\ depositedAt' = [depositedAt EXCEPT ![p] = ledger]
        /\ totalShares' = totalShares + minted
        /\ totalDeposits' = totalDeposits + amount
        /\ managed' = managed + amount
        /\ UNCHANGED <<ledger, adminVars, pauseVars, configVars,
                       totalOutstanding, limitVars, usageVars>>

RedeemShares(p, n, minAssetsOut) ==
    LET returned == CalcAssetsToRedeem(n, managed, totalShares)
        leaves   == shares[p] = n
    IN  /\ n > 0
        /\ minAssetsOut >= 0
        /\ shares[p] >= n
        /\ returned > 0
        /\ returned >= minAssetsOut
        /\ Receives(p, returned)
        /\ shares' = [shares EXCEPT ![p] = @ - n]
        /\ depositedAt' = IF leaves THEN [depositedAt EXCEPT ![p] = -1]
                                    ELSE depositedAt
        /\ depositorCount' = depositorCount
                             - (IF leaves /\ depositorCount > 0 THEN 1 ELSE 0)
        /\ totalShares' = totalShares - n
        /\ totalDeposits' = totalDeposits - returned
        /\ managed' = managed - returned
        /\ UNCHANGED <<ledger, adminVars, pauseVars, configVars,
                       totalOutstanding, limitVars, usageVars>>

CooldownElapsed(p) ==
    \/ cooldown = 0
    \/ depositedAt[p] = -1
    \/ ledger >= depositedAt[p] + cooldown

Withdraw(p, n, minAssetsOut) ==
    /\ NotPaused("withdrawals")
    /\ CooldownElapsed(p)
    /\ RedeemShares(p, n, minAssetsOut)

EmergencyWithdraw(p, n, minAssetsOut) ==
    /\ RedeemShares(p, n, minAssetsOut)
    /\ poolBalance' >= 0 /\ managed' >= 0

------------------------------------------------------------------------------
(* Bounded yield distribution.                                              *)

YieldAuthorized(from, amount) ==
    \/ from = admin
    \/ /\ from \in distributors
       /\ perLimit > 0 => amount <= perLimit

PeriodElapsed == period > 0 /\ periodReset > 0 /\ ledger > periodReset + period

(* Mutated form: a new period clears the counter without recording it. *)
PeriodNotRecorded(from, amount) ==
    IF cumLimit = 0
    THEN UNCHANGED usageVars
    ELSE LET before == IF PeriodElapsed THEN 0 ELSE used[from]
         IN  /\ before + amount <= cumLimit
             /\ used' = [used EXCEPT ![from] = before + amount]
             /\ UNCHANGED periodReset

UpdateCumulativeYield(from, amount) ==
    IF cumLimit = 0
    THEN UNCHANGED usageVars
    ELSE LET before == IF PeriodElapsed THEN 0 ELSE used[from]
         IN  /\ before + amount <= cumLimit
             /\ used' = [used EXCEPT ![from] = before + amount]
             /\ periodReset' = IF PeriodElapsed THEN ledger ELSE periodReset

DistributeYield(from, amount) ==
    /\ NotPaused("yield")
    /\ amount > 0
    /\ admin # NoAccount
    /\ YieldAuthorized(from, amount)
    /\ UpdateCumulativeYield(from, amount)
    /\ Pays(from, amount)
    /\ managed' = managed + amount
    /\ UNCHANGED <<ledger, adminVars, pauseVars, configVars, totalShares,
                   shares, depositedAt, totalDeposits, depositorCount,
                   totalOutstanding, limitVars>>

------------------------------------------------------------------------------
(* Calls that need the admin's authorization.                               *)

ByAdmin == admin # NoAccount

OnlyAdminVars  == UNCHANGED <<ledger, tokenVars, pauseVars, configVars,
                              shareVars, totalOutstanding, limitVars, usageVars>>
OnlyPauseVars  == UNCHANGED <<ledger, tokenVars, adminVars, configVars,
                              shareVars, totalOutstanding, limitVars, usageVars>>
OnlyConfigVars == UNCHANGED <<ledger, tokenVars, adminVars, pauseVars,
                              shareVars, totalOutstanding, limitVars, usageVars>>
OnlyYieldVars  == UNCHANGED <<ledger, tokenVars, adminVars, pauseVars,
                              configVars, shareVars, totalOutstanding>>

Initialize(a) ==
    /\ admin = NoAccount
    /\ admin' = a
    /\ paused' = FALSE
    /\ cooldown' = DefaultCooldown
    /\ UNCHANGED <<ledger, tokenVars, proposedAdmin, pauseFlags, maxPoolSize,
                   shareVars, totalOutstanding, limitVars, usageVars>>

ProposeAdmin(a) ==
    /\ ByAdmin
    /\ proposedAdmin' = a
    /\ UNCHANGED admin
    /\ OnlyAdminVars

AcceptAdmin ==
    /\ ByAdmin
    /\ proposedAdmin # NoAccount
    /\ admin' = proposedAdmin
    /\ proposedAdmin' = NoAccount
    /\ OnlyAdminVars

SetAdmin(a) ==
    /\ ByAdmin
    /\ admin' = a
    /\ proposedAdmin' = NoAccount
    /\ OnlyAdminVars

SetPaused(b) ==
    /\ ByAdmin
    /\ paused' = b
    /\ UNCHANGED pauseFlags
    /\ OnlyPauseVars

ChangePauseFlags(flags) ==
    /\ ByAdmin
    /\ pauseFlags' = flags
    /\ UNCHANGED paused
    /\ OnlyPauseVars

PauseOnly(op)  == ChangePauseFlags(pauseFlags \cup {op})
UnpauseOp(op)  == ChangePauseFlags(pauseFlags \ {op})
SetPauseFlags(flags) == ChangePauseFlags(flags)

SetMaxPoolSize(max) ==
    /\ ByAdmin
    /\ max >= 0
    /\ maxPoolSize' = max
    /\ UNCHANGED cooldown
    /\ OnlyConfigVars

SetWithdrawalCooldown(n) ==
    /\ ByAdmin
    /\ n <= MaxCooldown
    /\ cooldown' = n
    /\ UNCHANGED maxPoolSize
    /\ OnlyConfigVars

AuthorizeDistributor(d) ==
    /\ ByAdmin
    /\ distributors' = distributors \cup {d}
    /\ UNCHANGED <<perLimit, cumLimit, period, usageVars>>
    /\ OnlyYieldVars

RevokeDistributor(d) ==
    /\ ByAdmin
    /\ distributors' = distributors \ {d}
    /\ UNCHANGED <<perLimit, cumLimit, period, usageVars>>
    /\ OnlyYieldVars

SetPerDistributionLimit(limit) ==
    /\ ByAdmin
    /\ limit >= 0
    /\ perLimit' = limit
    /\ UNCHANGED <<distributors, cumLimit, period, usageVars>>
    /\ OnlyYieldVars

SetCumulativeLimit(limit) ==
    /\ ByAdmin
    /\ limit >= 0
    /\ cumLimit' = limit
    /\ UNCHANGED <<distributors, perLimit, period, usageVars>>
    /\ OnlyYieldVars

SetPeriod(n) ==
    /\ ByAdmin
    /\ n <= MaxPeriod
    /\ period' = n
    /\ periodReset' = ledger
    /\ UNCHANGED <<distributors, perLimit, cumLimit, used>>
    /\ OnlyYieldVars

AdjustOutstanding(delta) ==
    /\ ByAdmin
    /\ delta # 0
    /\ totalOutstanding + delta >= 0
    /\ totalOutstanding' = totalOutstanding + delta
    /\ UNCHANGED <<ledger, tokenVars, adminVars, pauseVars, configVars,
                   shareVars, limitVars, usageVars>>

------------------------------------------------------------------------------
ProviderStep ==
    \E p \in Accounts, n \in Amounts, min \in Amounts :
        \/ Deposit(p, n, min)
        \/ Withdraw(p, n, min)
        \/ EmergencyWithdraw(p, n, min)

YieldStep == \E p \in Accounts, n \in Amounts : DistributeYield(p, n)

TokenStep ==
    \E p \in Accounts, n \in Amounts : TransferIn(p, n) \/ TransferOut(p, n)

AdminStep ==
    \/ \E a \in Accounts : Initialize(a) \/ ProposeAdmin(a) \/ SetAdmin(a)
    \/ AcceptAdmin
    \/ \E b \in BOOLEAN : SetPaused(b)
    \/ \E op \in Ops : PauseOnly(op) \/ UnpauseOp(op)
    \/ \E flags \in SUBSET Ops : SetPauseFlags(flags)
    \/ \E n \in MaxPoolSizes : SetMaxPoolSize(n)
    \/ \E n \in Cooldowns : SetWithdrawalCooldown(n)
    \/ \E d \in Accounts : AuthorizeDistributor(d) \/ RevokeDistributor(d)
    \/ \E n \in YieldLimits : SetPerDistributionLimit(n) \/ SetCumulativeLimit(n)
    \/ \E n \in Periods : SetPeriod(n)
    \/ \E n \in Amounts : AdjustOutstanding(n) \/ AdjustOutstanding(-n)

Next == LedgerClose \/ ProviderStep \/ YieldStep \/ TokenStep \/ AdminStep

Spec == Init /\ [][Next]_vars

------------------------------------------------------------------------------
(* Properties.                                                              *)

(* The storage keys hold values of the types lib.rs declares; the amounts   *)
(* that must never go negative are naturals (TotalDeposits is not one).     *)
TypeOK ==
    /\ ledger \in Nat
    /\ poolBalance \in Nat
    /\ wallet \in [Accounts -> Nat]
    /\ admin \in Accounts \cup {NoAccount}
    /\ proposedAdmin \in Accounts \cup {NoAccount}
    /\ paused \in BOOLEAN
    /\ pauseFlags \subseteq Ops
    /\ cooldown \in Nat
    /\ maxPoolSize \in Nat
    /\ totalShares \in Nat
    /\ shares \in [Accounts -> Nat]
    /\ depositedAt \in [Accounts -> Nat \cup {-1}]
    /\ totalDeposits \in Int
    /\ totalOutstanding \in Nat
    /\ managed \in Nat
    /\ depositorCount \in Nat
    /\ distributors \subseteq Accounts
    /\ perLimit \in Nat
    /\ cumLimit \in Nat
    /\ period \in Nat
    /\ periodReset \in Nat
    /\ used \in [Accounts -> Nat]

ShareUnits == UNION {{p} \X (1..shares[p]) : p \in Accounts}

Depositors == {p \in Accounts : shares[p] > 0}

TotalIsSum == totalShares = Cardinality(ShareUnits)

DepositorsTracked ==
    /\ depositorCount = Cardinality(Depositors)
    /\ \A p \in Accounts : depositedAt[p] # -1 <=> shares[p] > 0

(* TotalShares, the divisor of every redemption, is the sum of the per-     *)
(* provider balances; DepositorCount counts the providers that hold shares, *)
(* and exactly those have a deposit timestamp: a provider that leaves and   *)
(* comes back is counted once and starts a new cooldown.                    *)
SharesAccounted == TotalIsSum /\ DepositorsTracked

(* Every share is backed by at least one managed asset: redemptions never   *)
(* drive TotalManagedAssets below zero (checked_sub on i128 would not stop  *)
(* that) and no share is ever worth so little that it cannot be redeemed.   *)
ManagedCoversShares == managed >= totalShares

(* Depositing any amount and redeeming the minted shares at once returns at *)
(* most the deposited amount, in every reachable state of the pool: the     *)
(* rounding of deposit and withdraw cannot be played against the others.    *)
NoRoundTripProfit ==
    \A a \in Amounts :
        LET minted == CalcSharesToMint(a, managed, totalShares)
        IN  a > 0 /\ minted > 0 =>
                CalcAssetsToRedeem(minted, managed + a, totalShares + minted) <= a

(* No call lowers the share price (managed + V) / (totalShares + V): not a  *)
(* deposit or withdrawal at a bad rounding, not a transfer into or out of   *)
(* the pool's address, not an administrative call.                          *)
SharePriceNeverFalls ==
    [][(managed' + Virtual) * (totalShares + Virtual)
         >= (managed + Virtual) * (totalShares' + Virtual)]_vars
==============================================================================
