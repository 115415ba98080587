----------------------------- MODULE MCTransactions -----------------------------
(* Both generations of the protocol, up to three transactions.                   *)
EXTENDS Transactions

MCVersions == {"7_1", "7_4"}
=================================================================================
