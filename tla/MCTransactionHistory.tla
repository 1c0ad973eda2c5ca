------------------------ MODULE MCTransactionHistory ------------------------
(***************************************************************************)
(* Small instances of TransactionHistory: a page holds two records.        *)
(***************************************************************************)
EXTENDS TransactionHistory

\* Refused, short, and cut down to the largest page.
MCLimits == {-1, 1, 3}
=============================================================================
