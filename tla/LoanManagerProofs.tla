-------------------------- MODULE LoanManagerProofs --------------------------
(***************************************************************************)
(* Theorems about LoanManager, for any number of users and loans, any      *)
(* amounts, parameters and interest arithmetic: the loan state machine,    *)
(* the order of the grace period and the default window, that nobody is    *)
(* defaulted in the grace period, and that a pause freezes every debt.     *)
(*                                                                         *)
(* What an accrual or a payment computes does not matter to these: a loan  *)
(* is only known to be a record with its fields (IsLoan).                  *)
(***************************************************************************)
EXTENDS LoanManager, TLAPS

LoanFields == DOMAIN NoLoan

IsLoan(l) == l = [f \in LoanFields |-> l[f]]

(* The inductive invariant: the shape of the loans, ids above the counter   *)
(* unused, and the two windows in order.                                    *)
LoansShaped ==
    /\ loans = [i \in LoanIds |-> loans[i]]
    /\ \A i \in LoanIds :
          IsLoan(loans[i]) /\ loans[i].status \in Statuses /\ loans[i].due \in Nat

IdsFresh ==
    /\ loanCounter \in Nat
    /\ \A i \in LoanIds : i > loanCounter => loans[i].status = "Absent"

ConfigTyped == config \in [ConfigFields -> Nat] /\ ledger \in Nat

LoanInv == LoansShaped /\ IdsFresh /\ ConfigTyped /\ GraceWithinWindow

(* Loan i is among the loans check_default or check_defaults writes off. *)
WrittenOff(i) == \E D \in SUBSET LoanIds : i \in D /\ DefaultLoans(D)

(* What a step may make of loan i. *)
Moves(i, v) ==
    /\ IsLoan(v) /\ v.status \in Statuses /\ v.due \in Nat
    /\ v.status \notin {loans[i].status, "Liquidated"} => <<loans[i].status, v.status>> \in Transitions
    /\ loans[i].status = "Absent" /\ v.status # "Absent" =>
          i = loanCounter + 1 /\ loanCounter' = i
    /\ loans[i].status = "Approved" /\ v.status = "Defaulted" =>
          ledger > GraceEnds(loans[i]) /\ WrittenOff(i)

LoansMove ==
    /\ loans' = [i \in LoanIds |-> loans'[i]]
    /\ \A i \in LoanIds : Moves(i, loans'[i])
    /\ loanCounter' \in Nat /\ loanCounter' >= loanCounter

------------------------------------------------------------------------------
(* Facts about loans.                                                       *)

(* The fields of the Loan struct that the model keeps. *)
LEMMA FieldsOfLoan ==
    LoanFields = {"borrower", "amount", "collateral", "principalPaid", "interestPaid",
                  "interest", "lateFeePaid", "lateFee", "rate", "due", "lastInterest",
                  "lastLateFee", "residual", "extensions", "status"}
BY DEF LoanFields, NoLoan

(* accrue_interest leaves status and due date alone. *)
LEMMA AccrueInterestKeeps ==
    ASSUME NEW l, IsLoan(l)
    PROVE  /\ IsLoan(AccrueInterest(l))
           /\ AccrueInterest(l).status = l.status
           /\ AccrueInterest(l).due = l.due
BY FieldsOfLoan DEF AccrueInterest, IsLoan

(* accrue_late_fee leaves status and due date alone. *)
LEMMA AccrueLateFeeKeeps ==
    ASSUME NEW l, IsLoan(l)
    PROVE  /\ IsLoan(AccrueLateFee(l))
           /\ AccrueLateFee(l).status = l.status
           /\ AccrueLateFee(l).due = l.due
BY FieldsOfLoan DEF AccrueLateFee, IsLoan

(* current_total_debt accrues both. *)
LEMMA AccruedKeeps ==
    ASSUME NEW l, IsLoan(l)
    PROVE  /\ IsLoan(Accrued(l))
           /\ Accrued(l).status = l.status
           /\ Accrued(l).due = l.due
BY AccrueInterestKeeps, AccrueLateFeeKeeps DEF Accrued

(* apply_debt_recovery leaves status and due date alone. *)
LEMMA ApplyPaymentKeeps ==
    ASSUME NEW l, IsLoan(l), NEW n
    PROVE  /\ IsLoan(ApplyPayment(l, n))
           /\ ApplyPayment(l, n).status = l.status
           /\ ApplyPayment(l, n).due = l.due
BY FieldsOfLoan DEF ApplyPayment, IsLoan

(* A step that leaves the loans alone. *)
LEMMA Unmoved ==
    ASSUME LoanInv, loans' = loans, loanCounter' = loanCounter
    PROVE  LoansMove
BY DEF LoanInv, LoansShaped, IdsFresh, LoansMove, Moves

(* A step that replaces one loan. *)
LEMMA OneMoves ==
    ASSUME LoanInv, NEW i \in LoanIds, NEW v, Moves(i, v),
           loans' = [loans EXCEPT ![i] = v],
           loanCounter' \in Nat, loanCounter' >= loanCounter
    PROVE  LoansMove
<1>1. loans' = [j \in LoanIds |-> IF j = i THEN v ELSE loans[j]]
  BY DEF LoanInv, LoansShaped
<1>2. \A j \in LoanIds : Moves(j, loans'[j])
  <2> TAKE j \in LoanIds
  <2>1. CASE j = i
    BY <1>1, <2>1
  <2>2. CASE j # i
    <3>1. loans'[j] = loans[j]
      BY <1>1, <2>2
    <3> QED
      BY <3>1 DEF LoanInv, LoansShaped, Moves
  <2> QED BY <2>1, <2>2
<1> QED
  BY <1>1, <1>2 DEF LoansMove

(* The same with no id handed out, as in every call but request_loan. *)
LEMMA OneMovesAlone ==
    ASSUME LoanInv, NEW i \in LoanIds, NEW v, Moves(i, v),
           loans' = [loans EXCEPT ![i] = v], loanCounter' = loanCounter
    PROVE  LoansMove
<1>1. loanCounter' \in Nat /\ loanCounter' >= loanCounter
  BY DEF LoanInv, IdsFresh
<1> QED
  BY <1>1, OneMoves

------------------------------------------------------------------------------
(* One lemma for each call that changes loans.                              *)

(* request_loan stores a pending loan under the next, unused id. *)
LEMMA RequestLoanMoves ==
    ASSUME LoanInv, NEW b, NEW n, RequestLoan(b, n)
    PROVE  LoansMove
<1> DEFINE id == loanCounter + 1
<1>1. PICK r \in InterestRates :
          loans' = [loans EXCEPT ![id] =
                      [NoLoan EXCEPT !.borrower = b, !.amount = n, !.rate = r,
                                     !.status = "Pending"]]
  BY DEF RequestLoan, NextId
<1> DEFINE v == [NoLoan EXCEPT !.borrower = b, !.amount = n, !.rate = r,
                               !.status = "Pending"]
<1>2. loanCounter' = id /\ id \in LoanIds /\ loans[id].status = "Absent"
  BY LoanConstants DEF RequestLoan, NextId, LoanIds, LoanInv, IdsFresh
<1>3. IsLoan(v) /\ v.status = "Pending" /\ v.due = 0
  BY FieldsOfLoan DEF IsLoan, NoLoan
<1>4. Moves(id, v)
  BY <1>2, <1>3 DEF Moves, Statuses, Transitions
<1>5. loanCounter' \in Nat /\ loanCounter' >= loanCounter
  BY <1>2 DEF LoanInv, IdsFresh
<1> HIDE DEF v, id
<1> QED
  BY <1>1, <1>2, <1>4, <1>5, OneMoves DEF v

(* approve_loan takes a pending loan to Approved and sets its due date. *)
LEMMA ApproveLoanMoves ==
    ASSUME LoanInv, NEW i \in LoanIds, ApproveLoan(i)
    PROVE  LoansMove
<1> DEFINE v == [loans[i] EXCEPT !.status = "Approved",
                       !.due = ledger + config["term"],
                       !.lastInterest = ledger,
                       !.lastLateFee = ledger + config["term"] + config["grace"]]
<1>1. IsLoan(loans[i]) /\ loans[i].status = "Pending"
  BY DEF ApproveLoan, LoanInv, LoansShaped
<1>2. ledger + config["term"] \in Nat
  BY DEF LoanInv, ConfigTyped, ConfigFields
<1>3. IsLoan(v) /\ v.status = "Approved" /\ v.due = ledger + config["term"]
  BY <1>1, FieldsOfLoan DEF IsLoan
<1>4. Moves(i, v)
  BY <1>1, <1>2, <1>3 DEF Moves, Statuses, Transitions
<1>5. loans' = [loans EXCEPT ![i] = v] /\ loanCounter' = loanCounter
  BY DEF ApproveLoan
<1> HIDE DEF v
<1> QED
  BY <1>4, <1>5, OneMovesAlone

(* repay keeps a loan Approved or takes it to Repaid. *)
LEMMA RepayMoves ==
    ASSUME LoanInv, NEW i \in LoanIds, NEW n, Repay(i, n)
    PROVE  LoansMove
<1> DEFINE l    == Accrued(loans[i])
           paid == ApplyPayment(l, n)
           done == IsDust(Debt(l)) \/ FullyRepaid(paid)
           v    == IF done THEN Closed(paid) ELSE paid
<1>1. IsLoan(loans[i]) /\ loans[i].due \in Nat
  BY DEF LoanInv, LoansShaped
<1>2. IsLoan(l) /\ l.status = loans[i].status /\ l.due = loans[i].due
  BY <1>1, AccruedKeeps
<1>3. l.status = "Approved"
  BY DEF Repay
<1>4. loans' = [loans EXCEPT ![i] = v] /\ loanCounter' = loanCounter
  BY DEF Repay
<1> HIDE DEF l
<1>5. IsLoan(paid) /\ paid.status = "Approved" /\ paid.due = loans[i].due
  BY <1>2, <1>3, ApplyPaymentKeeps
<1> HIDE DEF paid, done
<1>6. IsLoan(v) /\ v.status \in {"Approved", "Repaid"} /\ v.due = loans[i].due
  BY <1>5, FieldsOfLoan DEF IsLoan, Closed
<1> HIDE DEF v
<1>7. Moves(i, v)
  BY <1>1, <1>2, <1>3, <1>6 DEF Moves, Statuses, Transitions
<1> QED
  BY <1>4, <1>7, OneMovesAlone

(* deposit_collateral and release_collateral change only the collateral. *)
LEMMA CollateralMoves ==
    ASSUME LoanInv, NEW i \in LoanIds, NEW c,
           loans' = [loans EXCEPT ![i].collateral = c], loanCounter' = loanCounter
    PROVE  LoansMove
<1> DEFINE v == [loans[i] EXCEPT !.collateral = c]
<1>1. IsLoan(loans[i]) /\ loans[i].status \in Statuses /\ loans[i].due \in Nat
  BY DEF LoanInv, LoansShaped
<1>2. IsLoan(v) /\ v.status = loans[i].status /\ v.due = loans[i].due
  BY <1>1, FieldsOfLoan DEF IsLoan
<1>3. loans' = [loans EXCEPT ![i] = v]
  OBVIOUS
<1> HIDE DEF v
<1>4. Moves(i, v)
  BY <1>1, <1>2 DEF Moves
<1> QED
  BY <1>3, <1>4, OneMovesAlone

(* liquidate takes an approved loan to Liquidated. *)
LEMMA LiquidateMoves ==
    ASSUME LoanInv, NEW i \in LoanIds, Liquidate(i)
    PROVE  LoansMove
<1> DEFINE l    == Accrued(loans[i])
           paid == ApplyPayment(l, Recovered(l))
           v    == [paid EXCEPT !.status = "Liquidated", !.collateral = 0]
<1>1. IsLoan(loans[i]) /\ loans[i].due \in Nat
  BY DEF LoanInv, LoansShaped
<1>2. IsLoan(l) /\ l.status = loans[i].status /\ l.due = loans[i].due
  BY <1>1, AccruedKeeps
<1>3. l.status = "Approved"
  BY DEF Liquidate
<1>4. loans' = [loans EXCEPT ![i] = v] /\ loanCounter' = loanCounter
  BY DEF Liquidate
<1> HIDE DEF l
<1>5. IsLoan(paid) /\ paid.due = loans[i].due
  BY <1>2, <1>3, ApplyPaymentKeeps
<1> HIDE DEF paid
<1>6. IsLoan(v) /\ v.status = "Liquidated" /\ v.due = loans[i].due
  BY <1>5, FieldsOfLoan DEF IsLoan
<1> HIDE DEF v
<1>7. Moves(i, v)
  BY <1>1, <1>2, <1>3, <1>6 DEF Moves, Statuses, Transitions
<1> QED
  BY <1>4, <1>7, OneMovesAlone

(* cancel_loan and reject_loan close a pending request. *)
LEMMA WithdrawnMoves ==
    ASSUME LoanInv, NEW i \in LoanIds, NEW s \in {"Cancelled", "Rejected"},
           Withdrawn(i, s)
    PROVE  LoansMove
<1> DEFINE v == [loans[i] EXCEPT !.status = s, !.collateral = 0]
<1>1. IsLoan(loans[i]) /\ loans[i].status = "Pending" /\ loans[i].due \in Nat
  BY DEF Withdrawn, LoanInv, LoansShaped
<1>2. IsLoan(v) /\ v.status = s /\ v.due = loans[i].due
  BY <1>1, FieldsOfLoan DEF IsLoan
<1>3. loans' = [loans EXCEPT ![i] = v] /\ loanCounter' = loanCounter
  <2>1. i \in DOMAIN loans
    BY DEF LoanInv, LoansShaped
  <2> QED
    BY <1>1, <2>1, FieldsOfLoan DEF Withdrawn, IsLoan
<1> HIDE DEF v
<1>4. Moves(i, v)
  BY <1>1, <1>2 DEF Moves, Statuses, Transitions
<1> QED
  BY <1>3, <1>4, OneMovesAlone

(* purge_loan removes a repaid, cancelled or rejected loan. *)
LEMMA PurgeLoanMoves ==
    ASSUME LoanInv, NEW i \in LoanIds, PurgeLoan(i)
    PROVE  LoansMove
<1>1. IsLoan(NoLoan) /\ NoLoan.status = "Absent" /\ NoLoan.due = 0
  BY FieldsOfLoan DEF IsLoan, NoLoan
<1>2. Moves(i, NoLoan)
  BY <1>1 DEF PurgeLoan, Moves, Statuses, Transitions
<1>3. loans' = [loans EXCEPT ![i] = NoLoan] /\ loanCounter' = loanCounter
  BY DEF PurgeLoan
<1> QED
  BY <1>2, <1>3, OneMovesAlone

(* refinance_loan rewrites an approved loan with a new due date. *)
LEMMA RefinanceLoanMoves ==
    ASSUME LoanInv, NEW i \in LoanIds, NEW n, NEW t \in Terms, RefinanceLoan(i, n, t)
    PROVE  LoansMove
<1> DEFINE l == Accrued(loans[i])
<1>1. IsLoan(loans[i])
  BY DEF LoanInv, LoansShaped
<1>2. IsLoan(l) /\ l.status = loans[i].status
  BY <1>1, AccruedKeeps
<1>3. l.status = "Approved" /\ loanCounter' = loanCounter
  BY DEF RefinanceLoan
<1>4. ledger + t \in Nat
  BY LoanConstants DEF LoanInv, ConfigTyped
<1>5. PICK r \in InterestRates : loans' = [loans EXCEPT ![i] =
                  [l EXCEPT !.interestPaid = @ + l.interest, !.interest = 0,
                            !.lateFeePaid = @ + l.lateFee, !.lateFee = 0,
                            !.collateral = @ - ReturnedCollateral(l, n),
                            !.amount = n, !.principalPaid = 0, !.rate = r,
                            !.lastInterest = ledger, !.due = ledger + t,
                            !.lastLateFee = ledger + t]]
  BY DEF RefinanceLoan
<1> DEFINE v == [l EXCEPT !.interestPaid = @ + l.interest, !.interest = 0,
                          !.lateFeePaid = @ + l.lateFee, !.lateFee = 0,
                          !.collateral = @ - ReturnedCollateral(l, n),
                          !.amount = n, !.principalPaid = 0, !.rate = r,
                          !.lastInterest = ledger, !.due = ledger + t,
                          !.lastLateFee = ledger + t]
<1>6. loans' = [loans EXCEPT ![i] = v]
  BY <1>5
<1> HIDE DEF l
<1>7. IsLoan(v) /\ v.status = "Approved" /\ v.due = ledger + t
  BY <1>2, <1>3, FieldsOfLoan DEF IsLoan
<1> HIDE DEF v
<1>8. Moves(i, v)
  BY <1>2, <1>3, <1>4, <1>7 DEF Moves, Statuses
<1> QED
  BY <1>3, <1>6, <1>8, OneMovesAlone

(* extend_loan moves the due date of an approved loan. *)
LEMMA ExtendLoanMoves ==
    ASSUME LoanInv, NEW i \in LoanIds, NEW t \in Terms, ExtendLoan(i, t)
    PROVE  LoansMove
<1> DEFINE v == [loans[i] EXCEPT !.due = @ + t, !.extensions = @ + 1]
<1>1. IsLoan(loans[i]) /\ loans[i].status = "Approved" /\ loans[i].due + t \in Nat
  BY LoanConstants DEF ExtendLoan, LoanInv, LoansShaped
<1>2. IsLoan(v) /\ v.status = "Approved" /\ v.due = loans[i].due + t
  BY <1>1, FieldsOfLoan DEF IsLoan
<1>3. loans' = [loans EXCEPT ![i] = v] /\ loanCounter' = loanCounter
  <2>1. i \in DOMAIN loans
    BY DEF LoanInv, LoansShaped
  <2> QED
    BY <1>1, <2>1, FieldsOfLoan DEF ExtendLoan, IsLoan
<1> HIDE DEF v
<1>4. Moves(i, v)
  BY <1>1, <1>2 DEF Moves, Statuses
<1> QED
  BY <1>3, <1>4, OneMovesAlone

(* check_default and check_defaults take approved loans past the default    *)
(* window, and so past the grace period, to Defaulted.                      *)
LEMMA DefaultLoansMoves ==
    ASSUME LoanInv, NEW D \in SUBSET LoanIds, \A i \in D : Defaultable(loans[i]),
           DefaultLoans(D)
    PROVE  LoansMove
<1>1. /\ loans' = [i \in LoanIds |-> IF i \in D THEN DefaultedLoan(loans[i]) ELSE loans[i]]
      /\ loanCounter' = loanCounter
  BY DEF DefaultLoans
<1>2. \A i \in LoanIds : Moves(i, loans'[i])
  <2> TAKE i \in LoanIds
  <2>1. CASE i \in D
    <3>1. IsLoan(loans[i]) /\ loans[i].due \in Nat /\ loans[i].status = "Approved"
      BY <2>1 DEF LoanInv, LoansShaped, Defaultable
    <3>2. loans'[i] = DefaultedLoan(loans[i])
      BY <1>1, <2>1
    <3>3. /\ IsLoan(DefaultedLoan(loans[i]))
          /\ DefaultedLoan(loans[i]).status = "Defaulted"
          /\ DefaultedLoan(loans[i]).due = loans[i].due
      BY <3>1, FieldsOfLoan DEF IsLoan, DefaultedLoan
    <3>4. ledger > loans[i].due + config["window"]
      BY <2>1, <3>1 DEF Defaultable, WithinDefaultWindow, LoanInv, ConfigTyped, ConfigFields
    <3>5. ledger > GraceEnds(loans[i])
      BY <3>1, <3>4 DEF GraceEnds, LoanInv, ConfigTyped, ConfigFields, GraceWithinWindow
    <3> QED
      BY <2>1, <3>1, <3>2, <3>3, <3>5 DEF Moves, Statuses, Transitions, WrittenOff
  <2>2. CASE i \notin D
    <3>1. loans'[i] = loans[i]
      BY <1>1, <2>2
    <3> QED
      BY <3>1 DEF LoanInv, LoansShaped, Moves
  <2> QED BY <2>1, <2>2
<1> QED
  BY <1>1, <1>2 DEF LoansMove, LoanInv, IdsFresh

------------------------------------------------------------------------------
(* The steps of each kind.                                                  *)

(* What a step that is not a setter keeps. *)
ConfigUnmoved == config' = config /\ ledger' = ledger

(* Borrowers' calls move loans and leave the parameters alone. *)
LEMMA BorrowerStepMoves ==
    ASSUME LoanInv, BorrowerStep
    PROVE  LoansMove /\ ConfigUnmoved
<1>1. CASE \E b \in Users, n \in Amounts : RequestLoan(b, n)
  <2> PICK b \in Users, n \in Amounts : RequestLoan(b, n)
    BY <1>1
  <2> QED
    BY RequestLoanMoves DEF ConfigUnmoved, RequestLoan, paramVars
<1>2. ASSUME NEW i \in LoanIds, NEW n \in Amounts, Repay(i, n)
      PROVE  LoansMove /\ ConfigUnmoved
  BY <1>2, RepayMoves DEF ConfigUnmoved, Repay, paramVars
<1>3. ASSUME NEW i \in LoanIds, NEW n \in Amounts, DepositCollateral(i, n)
      PROVE  LoansMove /\ ConfigUnmoved
  <2>1. loans' = [loans EXCEPT ![i].collateral = loans[i].collateral + n]
    BY <1>3 DEF DepositCollateral, LoanInv, LoansShaped
  <2>2. loanCounter' = loanCounter
    BY <1>3 DEF DepositCollateral
  <2> QED
    BY <1>3, <2>1, <2>2, CollateralMoves DEF ConfigUnmoved, DepositCollateral, paramVars
<1>4. ASSUME NEW i \in LoanIds, NEW t \in Terms, ExtendLoan(i, t)
      PROVE  LoansMove /\ ConfigUnmoved
  BY <1>4, ExtendLoanMoves DEF ConfigUnmoved, ExtendLoan, paramVars
<1>5. ASSUME NEW i \in LoanIds, CancelLoan(i)
      PROVE  LoansMove /\ ConfigUnmoved
  BY <1>5, WithdrawnMoves DEF ConfigUnmoved, CancelLoan, Withdrawn, paramVars
<1>6. ASSUME NEW i \in LoanIds, ReleaseCollateral(i)
      PROVE  LoansMove /\ ConfigUnmoved
  BY <1>6, CollateralMoves DEF ConfigUnmoved, ReleaseCollateral, paramVars
<1>7. ASSUME NEW i \in LoanIds, Liquidate(i)
      PROVE  LoansMove /\ ConfigUnmoved
  BY <1>7, LiquidateMoves DEF ConfigUnmoved, Liquidate, paramVars
<1> QED
  BY <1>1, <1>2, <1>3, <1>4, <1>5, <1>6, <1>7 DEF BorrowerStep

(* So do the calls of the admin and of the default checker on loans. *)
LEMMA AdminLoanStepMoves ==
    ASSUME LoanInv, AdminLoanStep
    PROVE  LoansMove /\ ConfigUnmoved
<1>1. ASSUME NEW i \in LoanIds, ApproveLoan(i)
      PROVE  LoansMove /\ ConfigUnmoved
  BY <1>1, ApproveLoanMoves DEF ConfigUnmoved, ApproveLoan, paramVars
<1>2. ASSUME NEW i \in LoanIds, RejectLoan(i)
      PROVE  LoansMove /\ ConfigUnmoved
  BY <1>2, WithdrawnMoves DEF ConfigUnmoved, RejectLoan, Withdrawn, paramVars
<1>3. ASSUME NEW i \in LoanIds, PurgeLoan(i)
      PROVE  LoansMove /\ ConfigUnmoved
  BY <1>3, PurgeLoanMoves DEF ConfigUnmoved, PurgeLoan, paramVars
<1>4. ASSUME NEW i \in LoanIds, CheckDefault(i)
      PROVE  LoansMove /\ ConfigUnmoved
  <2>1. {i} \in SUBSET LoanIds /\ \A j \in {i} : Defaultable(loans[j])
    BY <1>4 DEF CheckDefault
  <2>2. DefaultLoans({i})
    BY <1>4 DEF CheckDefault
  <2>3. LoansMove
    BY <2>1, <2>2, DefaultLoansMoves
  <2> QED
    BY <2>2, <2>3 DEF ConfigUnmoved, DefaultLoans, paramVars
<1>5. ASSUME NEW i \in LoanIds, NEW n \in Amounts, NEW t \in Terms, RefinanceLoan(i, n, t)
      PROVE  LoansMove /\ ConfigUnmoved
  BY <1>5, RefinanceLoanMoves DEF ConfigUnmoved, RefinanceLoan, paramVars
<1>6. ASSUME NEW ids \in SUBSET LoanIds, CheckDefaults(ids)
      PROVE  LoansMove /\ ConfigUnmoved
  <2> DEFINE D == {i \in ids : Defaultable(loans[i])}
  <2>1. D \in SUBSET LoanIds /\ \A j \in D : Defaultable(loans[j])
    OBVIOUS
  <2>2. DefaultLoans(D)
    BY <1>6 DEF CheckDefaults
  <2> HIDE DEF D
  <2>3. LoansMove
    BY <2>1, <2>2, DefaultLoansMoves
  <2> QED
    BY <2>2, <2>3 DEF ConfigUnmoved, DefaultLoans, paramVars
<1> QED
  BY <1>1, <1>2, <1>3, <1>4, <1>5, <1>6 DEF AdminLoanStep

(* A setter of any parameter but the two windows keeps them in order. *)
LEMMA ConfigureKeeps ==
    ASSUME LoanInv, NEW f \in ConfigFields, NEW v \in Settings[f], Configure(f, v),
           f = "grace"  => v <= config["window"],
           f = "window" => v >= config["grace"]
    PROVE  LoansMove /\ ConfigTyped' /\ GraceWithinWindow'
<1>1. v \in Nat
  BY LoanConstants
<1>2. config' = [config EXCEPT ![f] = v] /\ ledger' = ledger
  BY DEF Configure
<1>3. ConfigTyped'
  BY <1>1, <1>2 DEF LoanInv, ConfigTyped
<1>4. GraceWithinWindow'
  BY <1>1, <1>2 DEF LoanInv, ConfigTyped, GraceWithinWindow, ConfigFields
<1>5. loans' = loans /\ loanCounter' = loanCounter
  BY DEF Configure, loanVars
<1> QED
  BY <1>3, <1>4, <1>5, Unmoved

(* The setters: set_grace_period and set_default_window compare with each   *)
(* other's value.                                                           *)
LEMMA ConfigStepKeeps ==
    ASSUME LoanInv, ConfigStep
    PROVE  LoansMove /\ ConfigTyped' /\ GraceWithinWindow'
<1>1. ASSUME NEW v \in Settings["minScore"], SetMinScore(v)
      PROVE  LoansMove /\ ConfigTyped' /\ GraceWithinWindow'
  BY <1>1, ConfigureKeeps DEF SetMinScore, ConfigFields
<1>2. ASSUME NEW v \in Settings["maxLoan"], SetMaxLoanAmount(v)
      PROVE  LoansMove /\ ConfigTyped' /\ GraceWithinWindow'
  BY <1>2, ConfigureKeeps DEF SetMaxLoanAmount, ConfigFields
<1>3. ASSUME NEW v \in Settings["minRepay"], SetMinRepaymentAmount(v)
      PROVE  LoansMove /\ ConfigTyped' /\ GraceWithinWindow'
  BY <1>3, ConfigureKeeps DEF SetMinRepaymentAmount, ConfigFields
<1>4. ASSUME NEW v \in Settings["maxLoans"], SetMaxLoansPerBorrower(v)
      PROVE  LoansMove /\ ConfigTyped' /\ GraceWithinWindow'
  BY <1>4, ConfigureKeeps DEF SetMaxLoansPerBorrower, ConfigFields
<1>5. ASSUME NEW v \in Settings["rate"], SetInterestRate(v)
      PROVE  LoansMove /\ ConfigTyped' /\ GraceWithinWindow'
  BY <1>5, ConfigureKeeps DEF SetInterestRate, ConfigFields
<1>6. ASSUME NEW v \in Settings["minRate"], SetMinRate(v)
      PROVE  LoansMove /\ ConfigTyped' /\ GraceWithinWindow'
  BY <1>6, ConfigureKeeps DEF SetMinRate, ConfigFields
<1>7. ASSUME NEW v \in Settings["maxRate"], SetMaxRate(v)
      PROVE  LoansMove /\ ConfigTyped' /\ GraceWithinWindow'
  BY <1>7, ConfigureKeeps DEF SetMaxRate, ConfigFields
<1>8. ASSUME NEW v \in Settings["term"], SetDefaultTerm(v)
      PROVE  LoansMove /\ ConfigTyped' /\ GraceWithinWindow'
  BY <1>8, ConfigureKeeps DEF SetDefaultTerm, ConfigFields
<1>9. ASSUME NEW v \in Settings["minTerm"], SetMinTerm(v)
      PROVE  LoansMove /\ ConfigTyped' /\ GraceWithinWindow'
  BY <1>9, ConfigureKeeps DEF SetMinTerm, ConfigFields
<1>10. ASSUME NEW v \in Settings["maxTerm"], SetMaxTerm(v)
      PROVE  LoansMove /\ ConfigTyped' /\ GraceWithinWindow'
  BY <1>10, ConfigureKeeps DEF SetMaxTerm, ConfigFields
<1>11. ASSUME NEW v \in Settings["grace"], SetGracePeriod(v)
      PROVE  LoansMove /\ ConfigTyped' /\ GraceWithinWindow'
  BY <1>11, ConfigureKeeps DEF SetGracePeriod, ConfigFields
<1>12. ASSUME NEW v \in Settings["window"], SetDefaultWindow(v)
      PROVE  LoansMove /\ ConfigTyped' /\ GraceWithinWindow'
  BY <1>12, ConfigureKeeps DEF SetDefaultWindow, ConfigFields
<1>13. CASE SetRateOracle
  <2>1. loans' = loans /\ loanCounter' = loanCounter /\ config' = config /\ ledger' = ledger
    BY <1>13 DEF SetRateOracle, loanVars
  <2>2. LoansMove
    BY <2>1, Unmoved
  <2> QED
    BY <2>1, <2>2 DEF LoanInv, ConfigTyped, GraceWithinWindow
<1> QED
  BY <1>1, <1>2, <1>3, <1>4, <1>5, <1>6, <1>7, <1>8, <1>9, <1>10, <1>11, <1>12, <1>13 DEF ConfigStep

(* Risk parameters, admin, pool and NFT steps leave loans and parameters    *)
(* alone; a ledger close moves only the clock.                              *)
LEMMA OtherStepKeeps ==
    ASSUME LoanInv, RiskStep \/ AdminStep \/ EnvironmentStep
    PROVE  LoansMove /\ ConfigTyped' /\ GraceWithinWindow'
<1>1. loans' = loans /\ loanCounter' = loanCounter /\ config' = config
  <2>1. CASE RiskStep
    BY <2>1 DEF RiskStep, ProposeRiskChange, ExecuteRiskChange, CancelRiskChange, loanVars
  <2>2. CASE AdminStep
    BY <2>2 DEF AdminStep, ProposeAdmin, AcceptAdmin, SetPaused, loanVars, paramVars
  <2>3. CASE EnvironmentStep
    BY <2>3 DEF EnvironmentStep, PoolMoves, SetPoolPaused, loanVars, paramVars
  <2> QED BY <2>1, <2>2, <2>3
<1>2. ledger' \in Nat
  <2>1. CASE RiskStep
    BY <2>1 DEF RiskStep, ProposeRiskChange, ExecuteRiskChange, CancelRiskChange,
                LoanInv, ConfigTyped
  <2>2. CASE AdminStep
    BY <2>2 DEF AdminStep, ProposeAdmin, AcceptAdmin, SetPaused, LoanInv, ConfigTyped
  <2>3. CASE EnvironmentStep
    BY <2>3 DEF EnvironmentStep, PoolMoves, SetPoolPaused, LedgerClose, LoanInv, ConfigTyped
  <2> QED BY <2>1, <2>2, <2>3
<1>3. LoansMove
  BY <1>1, Unmoved
<1> QED
  BY <1>1, <1>2, <1>3 DEF LoanInv, ConfigTyped, GraceWithinWindow

(* Any step. *)
LEMMA NextMoves ==
    ASSUME LoanInv, [Next]_vars
    PROVE  LoansMove /\ ConfigTyped' /\ GraceWithinWindow'
<1>1. CASE BorrowerStep \/ AdminLoanStep
  <2>1. LoansMove /\ ConfigUnmoved
    BY <1>1, BorrowerStepMoves, AdminLoanStepMoves
  <2> QED
    BY <2>1 DEF ConfigUnmoved, LoanInv, ConfigTyped, GraceWithinWindow
<1>2. CASE ConfigStep
  BY <1>2, ConfigStepKeeps
<1>3. CASE RiskStep \/ AdminStep \/ EnvironmentStep
  BY <1>3, OtherStepKeeps
<1>4. CASE UNCHANGED vars
  <2>1. loans' = loans /\ loanCounter' = loanCounter /\ config' = config /\ ledger' = ledger
    BY <1>4 DEF vars, loanVars, paramVars
  <2>2. LoansMove
    BY <2>1, Unmoved
  <2> QED
    BY <2>1, <2>2 DEF LoanInv, ConfigTyped, GraceWithinWindow
<1> QED
  BY <1>1, <1>2, <1>3, <1>4 DEF Next

(* The initial state satisfies the invariant. *)
LEMMA InitLoanInv == Init => LoanInv
<1> SUFFICES ASSUME Init PROVE LoanInv
  OBVIOUS
<1>1. IsLoan(NoLoan) /\ NoLoan.status = "Absent" /\ NoLoan.due = 0
  BY FieldsOfLoan DEF IsLoan, NoLoan
<1>2. loans = [i \in LoanIds |-> NoLoan]
  BY DEF Init
<1>3. LoansShaped
  BY <1>1, <1>2 DEF LoansShaped, Statuses
<1>4. IdsFresh
  BY <1>1, <1>2 DEF Init, IdsFresh
<1>5. ConfigTyped /\ GraceWithinWindow
  BY ConfigAssumption DEF Init, ConfigTyped, GraceWithinWindow
<1> QED
  BY <1>3, <1>4, <1>5 DEF LoanInv

(* A step preserves the invariant. *)
LEMMA NextLoanInv == LoanInv /\ [Next]_vars => LoanInv'
<1> SUFFICES ASSUME LoanInv, [Next]_vars PROVE LoanInv'
  OBVIOUS
<1>1. LoansMove /\ ConfigTyped' /\ GraceWithinWindow'
  BY NextMoves
<1>2. LoansShaped'
  BY <1>1 DEF LoansMove, LoansShaped, Moves, IsLoan, LoanIds, LoanFields, NoLoan
<1>3. IdsFresh'
  <2>1. loanCounter' \in Nat /\ loanCounter' >= loanCounter /\ loanCounter \in Nat
    BY <1>1 DEF LoansMove, LoanInv, IdsFresh
  <2>2. ASSUME NEW i \in LoanIds, i > loanCounter'
        PROVE  loans'[i].status = "Absent"
    <3>1. i > loanCounter /\ i # loanCounter'
      BY <2>1, <2>2, LoanConstants DEF LoanIds
    <3>2. loans[i].status = "Absent"
      BY <3>1 DEF LoanInv, IdsFresh
    <3> QED
      BY <1>1, <3>1, <3>2 DEF LoansMove, Moves
  <2> QED
    BY <2>1, <2>2 DEF IdsFresh, LoanIds
<1> QED
  BY <1>1, <1>2, <1>3 DEF LoanInv

------------------------------------------------------------------------------
(* The invariant holds in every reachable state: the loans keep their       *)
(* shape, ids above LoanCounter are unused and the windows are in order.    *)
THEOREM LoanInvHolds == Spec => []LoanInv
BY InitLoanInv, NextLoanInv, PTL DEF Spec

(* set_grace_period and set_default_window keep the grace period within     *)
(* the default window in whatever order they are called.                    *)
THEOREM GraceAlwaysWithinWindow == Spec => []GraceWithinWindow
<1>1. LoanInv => GraceWithinWindow
  BY DEF LoanInv
<1> QED
  BY <1>1, LoanInvHolds, PTL

(* A loan changes status only along the state machine, from which the step  *)
(* into Liquidated is left out, and an id handed out by request_loan is     *)
(* never used again, not even after purge_loan.                             *)
THEOREM StatusMachineHolds == Spec => StatusMachine
<1> DEFINE Step == \A i \in LoanIds :
          loans'[i].status \notin {loans[i].status, "Liquidated"} =>
             /\ <<loans[i].status, loans'[i].status>> \in Transitions
             /\ loans[i].status = "Absent" => i > loanCounter
<1>1. LoanInv /\ [Next]_vars => Step
  <2> SUFFICES ASSUME LoanInv, [Next]_vars PROVE Step
    OBVIOUS
  <2>1. LoansMove
    BY NextMoves
  <2> QED
    BY <2>1 DEF LoansMove, Moves, LoanInv, IdsFresh, LoanIds
<1> QED
  BY <1>1, LoanInvHolds, PTL DEF Spec, StatusMachine

(* check_default and check_defaults never write off a loan whose borrower   *)
(* is still in the grace period, whatever the admin has done to the windows *)
(* since the loan was approved.                                             *)
THEOREM NobodyDefaultedInGrace == Spec => NoDefaultInGrace
<1> DEFINE Step == \A i \in LoanIds :
          loans[i].status = "Approved" /\ loans'[i].status = "Defaulted" =>
             ledger > GraceEnds(loans[i])
<1>1. LoanInv /\ [Next]_vars => Step
  <2> SUFFICES ASSUME LoanInv, [Next]_vars PROVE Step
    OBVIOUS
  <2>1. LoansMove
    BY NextMoves
  <2> QED
    BY <2>1 DEF LoansMove, Moves
<1> QED
  BY <1>1, LoanInvHolds, PTL DEF Spec, NoDefaultInGrace

(* While one of the contracts is paused, the calls that are still open to   *)
(* borrower and admin touch no approved loan and no total.                  *)
LEMMA PausedLoanSteps ==
    ASSUME LoanInv, ~NotPaused, BorrowerStep \/ AdminLoanStep
    PROVE  outstanding' = outstanding
           /\ \A j \in LoanIds : loans[j].status = "Approved" => loans'[j] = loans[j]
<1>1. PICK i \in LoanIds : CancelLoan(i) \/ RejectLoan(i) \/ ReleaseCollateral(i) \/ PurgeLoan(i)
  <2>1. \A b \in Users, n \in Amounts : ~RequestLoan(b, n)
    BY DEF RequestLoan
  <2>2. \A j \in LoanIds, n \in Amounts : ~Repay(j, n) /\ ~DepositCollateral(j, n)
    BY DEF Repay, DepositCollateral
  <2>3. \A j \in LoanIds, t \in Terms : ~ExtendLoan(j, t)
    BY DEF ExtendLoan
  <2>4. \A j \in LoanIds : ~Liquidate(j) /\ ~ApproveLoan(j) /\ ~CheckDefault(j)
    BY DEF Liquidate, ApproveLoan, CheckDefault
  <2>5. \A j \in LoanIds, n \in Amounts, t \in Terms : ~RefinanceLoan(j, n, t)
    <3>1. TAKE j \in LoanIds, n \in Amounts, t \in Terms
    <3>2. RefinanceLoan(j, n, t) => NotPaused
      BY DEF RefinanceLoan
    <3> QED BY <3>2
  <2>6. \A ids \in SUBSET LoanIds : ~CheckDefaults(ids)
    BY DEF CheckDefaults
  <2> QED BY <2>1, <2>2, <2>3, <2>4, <2>5, <2>6 DEF BorrowerStep, AdminLoanStep
<1>2. /\ loans[i].status # "Approved" /\ outstanding' = outstanding
      /\ \E v : loans' = [loans EXCEPT ![i] = v]
  BY <1>1 DEF CancelLoan, RejectLoan, Withdrawn, ReleaseCollateral, PurgeLoan
<1>3. \A j \in LoanIds : j # i => loans'[j] = loans[j]
  BY <1>2 DEF LoanInv, LoansShaped
<1> QED
  BY <1>2, <1>3

(* A pause of the loan manager, the pool or the NFT freezes every debt and  *)
(* the total outstanding, whatever else is called.                          *)
THEOREM PauseAlwaysFreezes == Spec => PauseFreezesDebt
<1> DEFINE Step == paused \/ poolPaused \/ nftPaused =>
          /\ outstanding' = outstanding
          /\ \A i \in WithStatus({"Approved"}) : loans'[i] = loans[i]
<1>1. LoanInv /\ [Next]_vars => Step
  <2> SUFFICES ASSUME LoanInv, [Next]_vars, ~NotPaused PROVE
          /\ outstanding' = outstanding
          /\ \A j \in LoanIds : loans[j].status = "Approved" => loans'[j] = loans[j]
    BY DEF NotPaused, WithStatus
  <2>1. CASE BorrowerStep \/ AdminLoanStep
    BY <2>1, PausedLoanSteps
  <2>2. CASE ConfigStep
    BY <2>2 DEF ConfigStep, SetMinScore, SetMaxLoanAmount, SetMinRepaymentAmount,
                SetMaxLoansPerBorrower, SetInterestRate, SetMinRate, SetMaxRate, SetDefaultTerm,
                SetMinTerm, SetMaxTerm, SetGracePeriod, SetDefaultWindow, SetRateOracle, Configure,
                loanVars
  <2>3. CASE RiskStep
    BY <2>3 DEF RiskStep, ProposeRiskChange, ExecuteRiskChange, CancelRiskChange, loanVars
  <2>4. CASE AdminStep
    BY <2>4 DEF AdminStep, ProposeAdmin, AcceptAdmin, SetPaused, loanVars
  <2>5. CASE EnvironmentStep
    BY <2>5 DEF EnvironmentStep, PoolMoves, SetPoolPaused, loanVars
  <2>6. CASE UNCHANGED vars
    BY <2>6 DEF vars, loanVars
  <2> QED
    BY <2>1, <2>2, <2>3, <2>4, <2>5, <2>6 DEF Next
<1> QED
  BY <1>1, LoanInvHolds, PTL DEF Spec, PauseFreezesDebt
==============================================================================
