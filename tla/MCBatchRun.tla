------------------------------ MODULE MCBatchRun ------------------------------
(***************************************************************************)
(* Small instances of BatchRun for TLC.                                    *)
(***************************************************************************)
EXTENDS BatchInvariant, TLC

CONSTANTS r1, r2, r3, a, b

\* All processes deploy the same job, or a release that reorders its steps is under
\* way.
SameJob == [r \in Runners |-> <<a, b>>]
MixedJob == [r \in Runners |-> IF r = r3 THEN <<b, a>> ELSE <<a, b>>]

InStep == [r \in Runners |-> 0]
OneAhead == (r1 :> 0) @@ (r2 :> 1)

Symmetry == Permutations(Runners)
================================================================================
