---------------------------- MODULE MCEventIndexer ----------------------------
(* EventIndexer on a chain of two ledgers: two repayments of one loan in    *)
(* one ledger, which share a row key, a default with a key of its own, and  *)
(* an event that throws until a parser is deployed and one that parses to   *)
(* null.                                                                    *)
EXTENDS EventIndexer

Ev(l, t, n, b) == [ledger |-> l, type |-> t, loan |-> n, borrower |-> b]

MCChain == << Ev(1, "LoanRepaid", "l1", "b1"), Ev(1, "LoanRepaid", "l1", "b1"),
              Ev(2, "LoanDefaulted", "l2", "b2"),
              Ev(2, "Malformed", NoLoan, NoBorrower), Ev(2, "Unsupported", NoLoan, NoBorrower) >>
===============================================================================
