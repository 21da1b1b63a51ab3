---------------------------- MODULE MCTransactions ----------------------------
(***************************************************************************)
(* Small instances of Transactions for TLC.                                *)
(***************************************************************************)
EXTENDS TransactionInvariant

CONSTANTS c1, c2

\* Options of a pool; zeros are left to the defaults.
ThreeOpen == [open |-> 3, idle |-> 2, lifetime |-> 0, idletime |-> 0]
================================================================================
