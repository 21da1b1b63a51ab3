------------------------- MODULE TransactionInvariant -------------------------
(***************************************************************************)
(* The inductive invariant of Transactions, part by part.                  *)
(* TransactionProofs proves that it holds; the run checks it on a small    *)
(* instance.                                                               *)
(***************************************************************************)
EXTENDS Transactions

\* The transaction of a boundary whose work runs, or has ended in this way, is
\* open unless the end of its context has already rolled it back.
OpenOrCut(t) == \/ status[t] = "open"
                \/ status[t] = "rolledback" /\ t[1] \in cancelled

\* What is known of a transaction at each point of Within.
PhaseInv ==
  \A t \in Boundaries :
    /\ pc[t] # "returned" => result[t] = "none"
    /\ pc[t] \in {"idle", "begin"} => status[t] = "absent" /\ t \notin abandoned
    /\ pc[t] \in {"work", "commit"} => OpenOrCut(t) /\ t \notin abandoned
    /\ pc[t] \in {"rollback", "unwind"} => OpenOrCut(t) /\ t \in abandoned

\* What is known of it once Within has returned: a session left behind belongs to
\* a COMMIT that was not answered, and may still store work that succeeded only.
OutcomeInv ==
  \A t \in Boundaries :
    /\ status[t] = "left" => t \in unheard /\ t \notin abandoned
    /\ t \in unheard => pc[t] = "returned" /\ result[t] = "error"
    /\ pc[t] = "returned" /\ status[t] = "open" => t[1] \in cancelled \/ Exited(t)

IInv == TypeOK /\ IsFiniteSet(held) /\ PhaseInv /\ OutcomeInv /\ StoredOnlyBySuccess
================================================================================
