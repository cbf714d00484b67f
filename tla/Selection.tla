------------------------------- MODULE Selection -------------------------------
(* The queries of the background jobs that take the first rows of an order. *)
EXTENDS Naturals, Sequences

(* SELECT ... WHERE the row is in S, ORDER BY its number, LIMIT: rows are   *)
(* numbered 1..n in the order asked for.                                    *)
OrderByLimit(S, n, limit) ==
    LET taken[k \in 0..n] ==
            IF k = 0 THEN <<>>
            ELSE IF k \in S /\ Len(taken[k - 1]) < limit THEN Append(taken[k - 1], k)
            ELSE taken[k - 1]
    IN  taken[n]
================================================================================
