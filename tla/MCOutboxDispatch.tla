--------------------------- MODULE MCOutboxDispatch ---------------------------
(***************************************************************************)
(* Small instances of OutboxDispatch for TLC.                              *)
(***************************************************************************)
EXTENDS OutboxInvariant, TLC

CONSTANTS m1, m2, d1, d2

AtZero == [m \in Messages |-> 0]
InTurn == [m \in Messages |-> IF m = m1 THEN 0 ELSE 1]

FirstToLast == [m \in Messages |-> IF m = m1 THEN 1 ELSE 2]
LastToFirst == [m \in Messages |-> IF m = m1 THEN 2 ELSE 1]

\* Two processes deployed with the same owner name, or with different ones.
SameOwner == [d \in Dispatchers |-> d1]
OwnName == [d \in Dispatchers |-> d]

InStep == [d \in Dispatchers |-> 0]
OneAhead == (d1 :> 0) @@ (d2 :> 1)
================================================================================
