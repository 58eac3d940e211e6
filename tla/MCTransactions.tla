---------------------------- MODULE MCTransactions ----------------------------
\* The transactions, for TLC.
EXTENDS Transactions
=============================================================================
