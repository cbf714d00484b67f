---------------------------- MODULE MCLendingPool ----------------------------
(***************************************************************************)
(* LendingPool on small instances, with a history variable: what each      *)
(* distributor has paid in, under a cumulative limit, since the current    *)
(* period of the bounded yield distribution began.  A period ends when a   *)
(* distribution finds it elapsed and starts the next one.                  *)
(***************************************************************************)
EXTENDS LendingPool, TLC

VARIABLE periodYield

HInit == Init /\ periodYield = [a \in Accounts |-> 0]

(* DistributeYield is the only step that raises managed and leaves          *)
(* totalShares alone.                                                       *)
Distributed(a) ==
    IF managed' > managed /\ totalShares' = totalShares /\ wallet'[a] < wallet[a]
    THEN managed' - managed ELSE 0

HNext ==
    /\ Next
    /\ periodYield' =
         [a \in Accounts |->
            (IF managed' > managed /\ periodReset' # periodReset
             THEN 0 ELSE periodYield[a])
            + (IF cumLimit > 0 THEN Distributed(a) ELSE 0)]

HSpec == HInit /\ [][HNext]_<<vars, periodYield>>

AccountSymmetry == Permutations(Accounts)

(* Yield that is withdrawn lowers TotalDeposits without a floor, even       *)
(* below zero, and tokens lent out can be deposited again: the bounds make  *)
(* the state space finite.                                                  *)
CONSTANTS MaxOverdraw, MaxManaged, MaxYield

Bounded == totalDeposits >= -MaxOverdraw /\ managed <= MaxManaged

(* No pause, cooldown, cap or outstanding debt.                             *)
Calm ==
    /\ ~paused /\ pauseFlags = {}
    /\ cooldown = DefaultCooldown
    /\ totalOutstanding = 0
    /\ maxPoolSize = 0

(* Behaviours in which the admin touches no limit either: the share         *)
(* arithmetic is explored as far as the funds go, and every administrative  *)
(* call is still taken once from there.                                     *)
ShareFocus ==
    /\ Bounded /\ Calm
    /\ proposedAdmin # NoAccount => poolBalance = 0 /\ managed = 0
    /\ distributors = {} /\ perLimit = 0 /\ cumLimit = 0
    /\ period = 0 /\ periodReset = 0
    /\ ledger = 1

(* Behaviours in which the yield limits, the period and the distributors    *)
(* move and nobody deposits.                                                *)
YieldFocus ==
    /\ Calm
    /\ totalShares = 0
    /\ proposedAdmin = NoAccount
    /\ poolBalance = managed /\ managed <= MaxYield

Focus == ShareFocus \/ YieldFocus

(* However the admin moves the limit and the period and whoever triggers    *)
(* the reset, a distribution never takes what a distributor has paid in     *)
(* during the current period above the cumulative limit in force.           *)
YieldWithinLimit ==
    [][\A a \in Accounts :
          periodYield'[a] > periodYield[a] => periodYield'[a] <= cumLimit]_<<vars, periodYield>>
==============================================================================
