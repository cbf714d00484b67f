---------------------------- MODULE MCLoanManager ----------------------------
(* LoanManager on small instances. *)
EXTENDS LoanManager, TLC

UserSymmetry == Permutations(Users)

CONSTANTS MaxLoan, Grace, Window, MinRepay, Rate, LateFee, MinScore

MCConfig ==
    [minScore |-> MinScore, maxLoan |-> MaxLoan, minRepay |-> MinRepay, maxLoans |-> 2,
     rate |-> Rate, minRate |-> 1, maxRate |-> 8, term |-> 1, minTerm |-> 0,
     maxTerm |-> 3, grace |-> Grace, window |-> Window]

MCRisk == [lateFee |-> LateFee, threshold |-> Bps, bonus |-> 1]

MCSettings ==
    [f \in ConfigFields \cup RiskParams |->
        CASE f = "grace"     -> 0..2
          [] f = "window"    -> 1..2
          [] f = "threshold" -> {Bps - 1, Bps + 1}
          [] OTHER           -> {1, 2}]

CONSTANT MaxHeld

(* The parameters, the pauses and the NFT contract's administration stay as *)
(* initialize left them, and proposals are made before anything happens;    *)
(* each call that changes them is still taken once.                         *)
NothingYet ==
    /\ loanCounter = 0 /\ minterList = <<nftAdmin, Manager>>
    /\ \A u \in Users : nft[u] \in {[NoNft EXCEPT !.score = s] : s \in InitialScores}

QuietParams ==
    /\ config = DefaultConfig /\ ~oracle
    /\ risk = DefaultRisk
    /\ ~NothingYet => pending = [p \in RiskParams |-> NoChange]

QuietAdmins ==
    /\ ~paused /\ ~poolPaused /\ ~nftPaused
    /\ ~NothingYet => proposedAdmin = NoUser
    /\ nftProposed = NoUser /\ admin = nftAdmin

(* The loans' life cycle: the NFTs change through the loan manager only.    *)
LoanNext ==
    \/ BorrowerStep
    \/ AdminLoanStep
    \/ LedgerClose /\ UNCHANGED <<nftVars, poolVars, loanVars, paramVars, adminVars>>

LoanFocus == held <= MaxHeld
==============================================================================
