----------------------------- MODULE OutboxPromise -----------------------------
(***************************************************************************)
(* What a transactional outbox promises to the application: a message is   *)
(* stored exactly when its transaction commits, it is delivered at least   *)
(* once before it leaves the outbox, and nothing is ever delivered that    *)
(* was not committed.  No leases, receipts, processes or statements.       *)
(***************************************************************************)
CONSTANT Messages

VARIABLES
  status,     \* status[m]: "absent", "open", "rolledback", "stored", "deleted"
  delivered   \* messages a publisher has delivered at least once

Init == status = [m \in Messages |-> "absent"] /\ delivered = {}

Becomes(m, from, to) == /\ status[m] = from
                        /\ status' = [status EXCEPT ![m] = to]
                        /\ UNCHANGED delivered

Enqueue(m) == Becomes(m, "absent", "open")
Commit(m) == Becomes(m, "open", "stored")
Rollback(m) == Becomes(m, "open", "rolledback")

\* At least once: a process that lost its lease may deliver again, even after
\* another has removed the message.
Deliver(m) == /\ status[m] \in {"stored", "deleted"}
              /\ delivered' = delivered \cup {m}
              /\ UNCHANGED status

Remove(m) == m \in delivered /\ Becomes(m, "stored", "deleted")

Next == \E m \in Messages :
  Enqueue(m) \/ Commit(m) \/ Rollback(m) \/ Deliver(m) \/ Remove(m)

Spec == Init /\ [][Next]_<<status, delivered>>
================================================================================
