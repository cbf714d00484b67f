------------------------------ MODULE MCLoanDebt ------------------------------
(***************************************************************************)
(* The debt of LoanManager's loans over time, against history variables    *)
(* that count it exactly, one ledger at a time and without rounding:       *)
(*   exactInterest  principal * rate, summed over the ledgers for which    *)
(*                  interest was accrued (in units of 1 / (Bps * Term))    *)
(*   exactLateFee   amount * late fee rate, summed over the ledgers that   *)
(*                  closed after the grace period of the due date then set *)
(*   accruals       how many times interest was accrued                    *)
(*   received       interest and fees the borrower has really transferred  *)
(***************************************************************************)
EXTENDS MCLoanManager

VARIABLES exactInterest, exactLateFee, accruals, received

dvars == <<vars, exactInterest, exactLateFee, accruals, received>>

Zero == [i \in LoanIds |-> 0]

DebtInit == Init /\ exactInterest = Zero /\ exactLateFee = Zero /\ accruals = Zero
                 /\ received = Zero

AccruesIn(i) ==
    loans[i].lastInterest # 0 /\ loans'[i].lastInterest # loans[i].lastInterest

LateLedger(i) ==
    /\ ledger' > ledger
    /\ loans[i].status = "Approved"
    /\ ledger' > GraceEnds(loans[i])

InterestAndFeesIn(i) ==
    IF \E n \in Amounts : Repay(i, n)
    THEN loans'[i].interestPaid + loans'[i].lateFeePaid
           - loans[i].interestPaid - loans[i].lateFeePaid
    ELSE 0

DebtNext ==
    /\ LoanNext
    /\ exactInterest' =
         [i \in LoanIds |-> exactInterest[i] +
            IF AccruesIn(i)
            THEN RemainingPrincipal(loans[i]) * loans[i].rate
                     * (loans'[i].lastInterest - loans[i].lastInterest)
            ELSE 0]
    /\ accruals' = [i \in LoanIds |-> accruals[i] + IF AccruesIn(i) THEN 1 ELSE 0]
    /\ exactLateFee' =
         [i \in LoanIds |-> exactLateFee[i] +
            IF LateLedger(i) THEN loans[i].amount * risk["lateFee"] ELSE 0]
    /\ received' = [i \in LoanIds |-> received[i] + InterestAndFeesIn(i)]

(* One loan is followed to the end.  Two are open together while they are   *)
(* young and small, and to the end when both are of one unit and without    *)
(* collateral.                                                              *)
DebtFocus ==
    /\ held <= MaxHeld
    /\ loanCounter > 1 =>
          /\ \A i \in LoanIds : loans[i].amount <= 3 - i /\ loans[i].extensions = 0
          /\ ledger <= 3 \/ (held = 0 /\ \A i \in LoanIds : loans[i].amount <= 1)

DebtSpec == DebtInit /\ [][DebtNext]_dvars

Charged(l) == (l.interest + l.interestPaid) * Precision + l.residual

(* However a loan's interest is cut into accruals by repayments and         *)
(* refinancings, the borrower is never charged more than the exact simple   *)
(* interest, and each accrual loses at most one unit of it: whether the     *)
(* residual below one unit is carried forward, as the code does, or dropped *)
(* at the boundary.                                                         *)
InterestIsAccurate ==
    \A i \in WithStatus({"Approved"}) :
        /\ Charged(loans[i]) * Bps * Term <= exactInterest[i] * Precision
        /\ exactInterest[i] * Precision
             <= (Charged(loans[i]) + accruals[i] * Precision) * Bps * Term

(* No ledger is charged a late fee twice and none within a grace period,    *)
(* through accruals, extensions and refinancings.                           *)
LateFeesOnlyForLateLedgers ==
    \A i \in WithStatus({"Approved"}) :
        (loans[i].lateFee + loans[i].lateFeePaid) * Bps * Term <= exactLateFee[i]

(* refinance_loan "Settles all accrued interest and late fees": what a loan *)
(* records as paid in interest and fees has been transferred to the pool.   *)
PaidIsReceived ==
    \A i \in WithStatus({"Approved", "Repaid"}) :
        loans[i].interestPaid + loans[i].lateFeePaid <= received[i]
==============================================================================
