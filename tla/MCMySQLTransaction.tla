------------------------- MODULE MCMySQLTransaction -------------------------
(* Instances of MySQLTransaction for TLC. *)
EXTENDS MySQLTransaction

CONSTANTS c1, c2, c3, t1, t2, t3

\* Transactions of two statements, of one and of none.
Sizes == [t \in Txns |-> CASE t = t1 -> 2 [] t = t2 -> 1 [] t = t3 -> 0]
=============================================================================
